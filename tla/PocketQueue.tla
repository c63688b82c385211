---------------------------- MODULE PocketQueue ----------------------------
(***************************************************************************)
(* class Queue as it is: a std::vector of pockets that the application     *)
(* thread appends to (pushSendQueue) and one th_send takes the front of    *)
(* (sendFunc), with no lock: TcpClient::mutex is never locked.  The steps  *)
(* are the loads and stores that push_back() and erase(begin()) make of    *)
(* the buffer and of the size.                                             *)
(*                                                                         *)
(* Accesses of two threads that overlap are a data race, and what comes of *)
(* it is up to the build: each of size + 1 and size - 1 may use the size   *)
(* as it was read first or as it is now.  With AllowOverlap = FALSE one    *)
(* access ends before the next begins, as with the lock.                   *)
(***************************************************************************)
EXTENDS Naturals, Sequences

CONSTANTS MaxPush,       \* bound on the pushes
          AllowOverlap   \* FALSE: accesses do not overlap

ASSUME QueueAssumption == MaxPush \in Nat /\ AllowOverlap \in BOOLEAN

Raw == 0                 \* what a slot holds before anything is stored in it

VARIABLES buf,           \* the buffer; its length is the capacity
          size,
          pushed,        \* calls of PushPocket()
          ppc, old, new, \* the pusher: position, size it read, buffer it made
          cpc, held,     \* the puller: position, what PullPocket() has read
          out            \* history: what PullPocket() has returned

pushVars == <<pushed, ppc, old, new>>
pullVars == <<cpc, held, out>>
vars == <<buf, size, pushVars, pullVars>>

Pockets == 0 .. MaxPush

TypeOK ==
    /\ buf \in Seq(Pockets) /\ size \in 0 .. Len(buf)
    /\ pushed \in Pockets
    /\ ppc \in {"idle", "store", "grow", "swap", "inc"} /\ old \in Nat
    /\ new \in Seq(Pockets)
    /\ cpc \in {"idle", "pull", "shift", "dec", "null"}
    /\ held \in [pk : Pockets, size : Nat, capacity : Nat]
    /\ out \in Seq(Pockets)

Init ==
    /\ buf = <<>> /\ size = 0
    /\ pushed = 0 /\ ppc = "idle" /\ old = 0 /\ new = <<>>
    /\ cpc = "idle" /\ held = [pk |-> Raw, size |-> 0, capacity |-> 0]
    /\ out = <<>>

MayPush == AllowOverlap \/ cpc \in {"idle", "pull"}
MayPull == AllowOverlap \/ ppc = "idle"

-----------------------------------------------------------------------------
(* PushPocket(): push_back() stores behind the last element if there is    *)
(* room, and otherwise copies the elements to a buffer of twice the size.  *)
\* Mutant of PushBegin: a full buffer is taken to have room.
PushBeginFull ==
    /\ ppc = "idle" /\ MayPush
    /\ pushed < MaxPush
    /\ pushed' = pushed + 1
    /\ old' = size
    /\ ppc' = IF size <= Len(buf) THEN "store" ELSE "grow"
    /\ UNCHANGED <<buf, size, new, pullVars>>

PushBegin ==
    /\ ppc = "idle" /\ MayPush
    /\ pushed < MaxPush
    /\ pushed' = pushed + 1
    /\ old' = size
    /\ ppc' = IF size < Len(buf) THEN "store" ELSE "grow"
    /\ UNCHANGED <<buf, size, new, pullVars>>

PushStore ==
    /\ ppc = "store"
    /\ buf' = [buf EXCEPT ![old + 1] = pushed]
    /\ ppc' = "inc"
    /\ UNCHANGED <<size, pushed, old, new, pullVars>>

PushInc ==
    /\ ppc = "inc"
    /\ size' \in {old + 1, size + 1}
    /\ ppc' = "idle"
    /\ UNCHANGED <<buf, pushed, old, new, pullVars>>

PushGrow ==
    /\ ppc = "grow"
    /\ LET capacity == IF buf = <<>> THEN 1 ELSE 2 * Len(buf)
       IN  new' = [i \in 1 .. capacity |->
                      CASE i <= old -> buf[i]
                        [] i = old + 1 -> pushed
                        [] OTHER -> Raw]
    /\ ppc' = "swap"
    /\ UNCHANGED <<buf, size, pushed, old, pullVars>>

PushSwap ==
    /\ ppc = "swap"
    /\ buf' = new /\ size' = old + 1
    /\ ppc' = "idle"
    /\ UNCHANGED <<pushed, old, new, pullVars>>

Push == PushBegin \/ PushStore \/ PushInc \/ PushGrow \/ PushSwap
-----------------------------------------------------------------------------
(* sendFunc(): getSize(), then PullPocket(), which tests the size again,   *)
(* reads the front, moves the others down and decrements the size.         *)
\* Mutant of PullTest: the size is not tested.
PullUntested ==
    /\ cpc = "idle" /\ MayPull
    /\ cpc' = "pull"
    /\ UNCHANGED <<buf, size, pushVars, held, out>>

PullTest ==
    /\ cpc = "idle" /\ MayPull
    /\ size > 0
    /\ cpc' = "pull"
    /\ UNCHANGED <<buf, size, pushVars, held, out>>

PullFront ==
    /\ cpc = "pull" /\ MayPull
    /\ IF size > 0
         THEN /\ held' = [pk |-> buf[1], size |-> size, capacity |-> Len(buf)]
              /\ cpc' = "shift"
         ELSE cpc' = "null" /\ UNCHANGED held
    /\ UNCHANGED <<buf, size, pushVars, out>>

\* Mutant of PullShift: the last element is not moved.
PullShiftShort ==
    /\ cpc = "shift"
    /\ buf' = IF Len(buf) = held.capacity
                THEN [i \in DOMAIN buf |-> IF i < held.size - 1 THEN buf[i + 1]
                                                                 ELSE buf[i]]
                ELSE buf
    /\ cpc' = "dec"
    /\ UNCHANGED <<size, pushVars, held, out>>

\* A buffer that was replaced meanwhile has been freed: the move misses.
PullShift ==
    /\ cpc = "shift"
    /\ buf' = IF Len(buf) = held.capacity
                THEN [i \in DOMAIN buf |-> IF i < held.size THEN buf[i + 1]
                                                             ELSE buf[i]]
                ELSE buf
    /\ cpc' = "dec"
    /\ UNCHANGED <<size, pushVars, held, out>>

PullDec ==
    /\ cpc = "dec"
    /\ size' \in {held.size - 1, size - 1}
    /\ out' = Append(out, held.pk)
    /\ cpc' = "idle"
    /\ UNCHANGED <<buf, pushVars, held>>

Pull == PullTest \/ PullFront \/ PullShift \/ PullDec

Next == Push \/ Pull

(* The application finishes what it begins; th_send keeps running.         *)
Spec == Init /\ [][Next]_vars /\ WF_vars(ppc # "idle" /\ Push) /\ WF_vars(Pull)

-----------------------------------------------------------------------------
\* A push takes effect when the size grows, a pull when it shrinks.
FifoQueue == IF cpc = "dec" THEN <<held.pk>> \o SubSeq(buf, 1, size - 1)
                            ELSE SubSeq(buf, 1, size)

Fifo == INSTANCE PocketFifo WITH queue <- FifoQueue

(* When no accesses overlap the class keeps the promise of PocketFifo.     *)
ImplementsFifo == Fifo!FifoSpec

(* However the accesses of one pusher and one puller overlap, PullPocket() *)
(* finds the element that getSize() saw, and what it returns was pushed.   *)
NeverNull == cpc # "null" /\ \A i \in DOMAIN out : out[i] # Raw

(* The comment of pushSendQueue, "add to the send queue": when no access   *)
(* is under way, a pocket that was pushed is in the queue or was pulled.   *)
Kept == ppc = "idle" /\ cpc \in {"idle", "pull"} =>
           \A p \in 1 .. pushed : \/ \E i \in DOMAIN out : out[i] = p
                                  \/ \E i \in 1 .. size : buf[i] = p
=============================================================================
