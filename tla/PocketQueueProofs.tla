-------------------------- MODULE PocketQueueProofs --------------------------
(***************************************************************************)
(* Proofs about PocketQueue, for any number of pushes, with and without    *)
(* overlapping accesses.                                                   *)
(***************************************************************************)
EXTENDS PocketQueue, SequenceTheorems, TLAPS

(* What one pusher and one puller leave of the vector however their steps  *)
(* are interleaved: the slots up to the size, and up to the size that a    *)
(* pusher has read, have been stored to; a pusher sees the size shrink but *)
(* not grow, and a puller sees it grow but not fall below what it read.    *)
BufferInv ==
    /\ buf \in Seq(Pockets)
    /\ size \in Nat /\ size <= Len(buf)
    /\ \A i \in 1 .. size : buf[i] # Raw

PusherInv ==
    /\ pushed \in Pockets /\ old \in Nat
    /\ ppc \in {"idle", "store", "grow", "swap", "inc"}
    /\ ppc # "idle" => /\ pushed # Raw
                       /\ size <= old /\ old <= Len(buf)
                       /\ \A i \in 1 .. old : buf[i] # Raw
    /\ ppc \in {"store", "inc"} => old < Len(buf)
    /\ ppc = "inc" => buf[old + 1] # Raw
    /\ ppc \in {"grow", "swap"} => old = Len(buf)
    /\ ppc = "swap" => /\ new \in Seq(Pockets) /\ Len(new) > old
                       /\ \A i \in 1 .. old + 1 : new[i] # Raw

PullerInv ==
    /\ cpc \in {"idle", "pull", "shift", "dec", "null"}
    /\ cpc = "pull" => size > 0
    /\ cpc \in {"shift", "dec"} =>
          /\ held.size \in Nat /\ held.capacity \in Nat
          /\ 0 < held.size /\ held.size <= size
          /\ held.pk # Raw
    /\ out \in Seq(Pockets \ {Raw})
    /\ cpc # "null"
    /\ held \in [pk : Pockets, size : Nat, capacity : Nat]

IInv == BufferInv /\ PusherInv /\ PullerInv

LEMMA InitInv == ASSUME MaxPush \in Nat, Init PROVE IInv
<1> USE DEF Init, Pockets, Raw
<1>1. BufferInv
  BY DEF BufferInv
<1>2. PusherInv
  BY DEF PusherInv
<1>3. PullerInv
  BY DEF PullerInv
<1>4. QED  BY <1>1, <1>2, <1>3 DEF IInv

(* push_back() with growth copies the elements and adds the new one.       *)
LEMMA GrownBuffer ==
    ASSUME MaxPush \in Nat, buf \in Seq(Pockets), pushed \in Pockets,
           pushed # Raw, old = Len(buf), \A i \in 1 .. old : buf[i] # Raw,
           NEW n \in Nat, n > old,
           NEW b, b = [i \in 1 .. n |-> CASE i <= old -> buf[i]
                                         [] i = old + 1 -> pushed
                                         [] OTHER -> Raw]
    PROVE  /\ b \in Seq(Pockets) /\ Len(b) = n
           /\ \A i \in 1 .. old + 1 : b[i] # Raw
<1>1. old \in Nat
  OBVIOUS
<1>2. \A i \in 1 .. n : i <= old => b[i] = buf[i] /\ i \in 1 .. old
  BY <1>1
<1>3. \A i \in 1 .. n : i = old + 1 => b[i] = pushed
  BY <1>1
<1>4. \A i \in 1 .. n : ~(i <= old) /\ i # old + 1 => b[i] = Raw
  BY <1>1
<1>5. \A i \in 1 .. n : b[i] \in Pockets
  BY <1>2, <1>3, <1>4 DEF Pockets, Raw
<1>6. b \in [1 .. n -> Pockets]
  BY <1>5
<1>7. b \in Seq(Pockets) /\ Len(b) = n
  BY <1>6
<1>8. ASSUME NEW i \in 1 .. old + 1 PROVE b[i] # Raw
  <2>1. i \in 1 .. n /\ (i <= old \/ i = old + 1)
    BY <1>1
  <2>2. QED  BY <1>2, <1>3, <2>1
<1>9. QED  BY <1>7, <1>8

(* push_back() without growth stores behind the elements.                  *)
LEMMA StoredBuffer ==
    ASSUME NEW b \in Seq(Pockets), NEW o \in Nat, o < Len(b),
           NEW p \in Pockets, p # Raw, \A i \in 1 .. o : b[i] # Raw,
           NEW c, c = [b EXCEPT ![o + 1] = p]
    PROVE  /\ c \in Seq(Pockets) /\ Len(c) = Len(b)
           /\ \A i \in 1 .. o + 1 : c[i] # Raw
<1>1. o + 1 \in 1 .. Len(b) /\ DOMAIN b = 1 .. Len(b) /\ Len(b) \in Nat
  OBVIOUS
<1>2. c \in Seq(Pockets) /\ Len(c) = Len(b)
  BY <1>1
<1>3. ASSUME NEW i \in 1 .. o + 1 PROVE c[i] # Raw
  <2>1. i \in 1 .. o \/ i = o + 1
    OBVIOUS
  <2>2. c[i] = IF i = o + 1 THEN p ELSE b[i]
    BY <1>1
  <2>3. QED  BY <2>1, <2>2
<1>4. QED  BY <1>2, <1>3

LEMMA PushInv == ASSUME IInv, MaxPush \in Nat, Push PROVE IInv'
<1> USE DEF IInv, BufferInv, PusherInv, PullerInv, Pockets, Raw, pullVars
<1>1. CASE PushBegin
  BY <1>1 DEF PushBegin
<1>2. CASE PushStore
  <2>1. /\ buf' = [buf EXCEPT ![old + 1] = pushed]
        /\ buf \in Seq(Pockets) /\ old \in Nat /\ old < Len(buf)
        /\ pushed \in Pockets /\ pushed # Raw
        /\ \A i \in 1 .. old : buf[i] # Raw
    BY <1>2 DEF PushStore
  <2>2. /\ buf' \in Seq(Pockets) /\ Len(buf') = Len(buf)
        /\ \A i \in 1 .. old + 1 : buf'[i] # Raw
    <3> HIDE DEF IInv, BufferInv, PusherInv, PullerInv, Pockets, Raw, pullVars
    <3>1. QED  BY <2>1, StoredBuffer
  <2>3. BufferInv'
    BY <1>2, <2>2 DEF PushStore
  <2>4. PusherInv'
    BY <1>2, <2>2 DEF PushStore
  <2>5. PullerInv'
    BY <1>2 DEF PushStore
  <2>6. QED  BY <2>3, <2>4, <2>5
<1>3. CASE PushInc
  <2>1. /\ size' \in {old + 1, size + 1} /\ buf' = buf
        /\ old < Len(buf) /\ size <= old /\ old \in Nat /\ size \in Nat
        /\ buf \in Seq(Pockets)
        /\ \A i \in 1 .. old : buf[i] # Raw
        /\ buf[old + 1] # Raw
    BY <1>3 DEF PushInc
  <2>2. BufferInv'
    <3>1. size' \in Nat /\ size' <= Len(buf) /\ size' <= old + 1
      <4> DEFINE L == Len(buf)
      <4>1. L \in Nat /\ old < L
        BY <2>1
      <4> HIDE DEF IInv, BufferInv, PusherInv, PullerInv, Pockets, Raw, pullVars, L
      <4>2. size' \in Nat /\ size' <= L /\ size' <= old + 1
        BY <2>1, <4>1
      <4>3. QED  BY <4>2 DEF L
    <3>2. ASSUME NEW i \in 1 .. size' PROVE buf[i] # Raw
      <4>1. i \in 1 .. old \/ i = old + 1
        BY <2>1, <3>1
      <4>2. QED  BY <2>1, <4>1
    <3>3. QED  BY <2>1, <3>1, <3>2
  <2>3. PusherInv'
    BY <1>3 DEF PushInc
  <2>4. PullerInv'
    BY <1>3, <2>1 DEF PushInc
  <2>5. QED  BY <2>2, <2>3, <2>4
<1>4. CASE PushGrow
  <2> DEFINE n == IF buf = <<>> THEN 1 ELSE 2 * Len(buf)
  <2>1. old = Len(buf) /\ n \in Nat /\ n > old
    BY <1>4 DEF PushGrow
  <2>2. new' = [i \in 1 .. n |-> CASE i <= old -> buf[i]
                                   [] i = old + 1 -> pushed
                                   [] OTHER -> Raw]
    BY <1>4 DEF PushGrow
  <2> HIDE DEF n
  <2>3. /\ buf \in Seq(Pockets) /\ pushed \in Pockets /\ pushed # Raw
        /\ \A i \in 1 .. old : buf[i] # Raw
    BY <1>4 DEF PushGrow
  <2>4. /\ new' \in Seq(Pockets) /\ Len(new') = n
        /\ \A i \in 1 .. old + 1 : new'[i] # Raw
    BY <2>1, <2>2, <2>3, GrownBuffer, Zenon
  <2>5. QED  BY <1>4, <2>1, <2>4 DEF PushGrow
<1>5. CASE PushSwap
  BY <1>5 DEF PushSwap
<1>6. QED  BY <1>1, <1>2, <1>3, <1>4, <1>5 DEF Push

(* erase(begin()) moves the other elements down and fills no slot with     *)
(* something that was not stored.                                          *)
LEMMA ShiftedBuffer ==
    ASSUME buf \in Seq(Pockets), NEW k \in Nat, k <= size, size \in Nat,
           size <= Len(buf), \A i \in 1 .. size : buf[i] # Raw,
           NEW b, b = [i \in DOMAIN buf |-> IF i < k THEN buf[i + 1] ELSE buf[i]]
    PROVE  /\ b \in Seq(Pockets) /\ Len(b) = Len(buf)
           /\ \A i \in 1 .. Len(buf) : buf[i] # Raw => b[i] # Raw
           /\ \A i \in 1 .. Len(buf) : i >= k => b[i] = buf[i]
<1>1. \A i \in 1 .. Len(buf) :
         i < k => b[i] = buf[i + 1] /\ i + 1 \in 1 .. Len(buf) /\ i + 1 \in 1 .. size
  OBVIOUS
<1>2. \A i \in 1 .. Len(buf) : ~(i < k) => b[i] = buf[i]
  OBVIOUS
<1>3. \A i \in 1 .. Len(buf) : b[i] \in Pockets
  BY <1>1, <1>2
<1>4. b \in [1 .. Len(buf) -> Pockets]
  BY <1>3
<1>5. b \in Seq(Pockets) /\ Len(b) = Len(buf)
  BY <1>4
<1>6. QED  BY <1>1, <1>2, <1>5

LEMMA PullInv == ASSUME IInv, MaxPush \in Nat, Pull PROVE IInv'
<1>1. CASE PullTest
  BY <1>1 DEF IInv, BufferInv, PusherInv, PullerInv, pushVars, PullTest
<1>2. CASE PullFront
  <2>1. size > 0 /\ UNCHANGED <<buf, size, pushVars, out>>
    BY <1>2 DEF PullFront, IInv, PullerInv
  <2>2. buf[1] \in Pockets /\ buf[1] # Raw
    BY <2>1 DEF IInv, BufferInv
  <2>3. held' = [pk |-> buf[1], size |-> size, capacity |-> Len(buf)]
        /\ cpc' = "shift"
    BY <1>2, <2>1 DEF PullFront
  <2>4. PullerInv'
    BY <2>1, <2>2, <2>3 DEF IInv, BufferInv, PullerInv
  <2>5. QED  BY <2>1, <2>4 DEF IInv, BufferInv, PusherInv, pushVars
<1>3. CASE PullShift
  <2>1. /\ cpc' = "dec" /\ UNCHANGED <<size, pushVars, held, out>>
        /\ held.size \in Nat /\ 0 < held.size /\ held.size <= size
    BY <1>3 DEF PullShift, IInv, PullerInv
  <2>2. PullerInv'
    BY <1>3, <2>1 DEF PullShift, IInv, PullerInv
  <2>3. /\ buf' \in Seq(Pockets) /\ Len(buf') = Len(buf)
        /\ \A i \in 1 .. Len(buf) : buf[i] # Raw => buf'[i] # Raw
    BY <1>3, <2>1, ShiftedBuffer DEF PullShift, IInv, BufferInv
  <2>4. BufferInv'
    BY <2>1, <2>3 DEF IInv, BufferInv
  <2>5. PusherInv'
    <3>1. \A i \in 1 .. old : old <= Len(buf) /\ old \in Nat => i \in 1 .. Len(buf)
      BY DEF IInv, BufferInv
    <3>2. old < Len(buf) /\ old \in Nat => old + 1 \in 1 .. Len(buf)
      BY DEF IInv, BufferInv
    <3>3. QED  BY <2>1, <2>3, <3>1, <3>2 DEF IInv, PusherInv, pushVars
  <2>6. QED  BY <2>2, <2>4, <2>5 DEF IInv
<1>4. CASE PullDec
  <2>1. /\ cpc' = "idle" /\ UNCHANGED <<buf, pushVars, held>>
        /\ held.size \in Nat /\ 0 < held.size /\ held.size <= size
        /\ held.pk \in Pockets \ {Raw}
        /\ out' = Append(out, held.pk) /\ size' \in {held.size - 1, size - 1}
    BY <1>4 DEF PullDec, IInv, PullerInv
  <2>2. size' \in Nat /\ size' <= size
    BY <2>1 DEF IInv, BufferInv
  <2>3. PullerInv'
    BY <2>1, <2>2 DEF IInv, PullerInv
  <2>4. BufferInv'
    BY <2>1, <2>2 DEF IInv, BufferInv
  <2>5. PusherInv'
    BY <2>1, <2>2 DEF IInv, BufferInv, PusherInv, pushVars
  <2>6. QED  BY <2>3, <2>4, <2>5 DEF IInv
<1>5. QED  BY <1>1, <1>2, <1>3, <1>4 DEF Pull

LEMMA InvStep == ASSUME IInv, [Next]_vars PROVE IInv'
<1>1. CASE UNCHANGED vars
  BY <1>1 DEF vars, pushVars, pullVars, IInv, BufferInv, PusherInv, PullerInv
<1>2. QED  BY <1>1, PushInv, PullInv, QueueAssumption DEF Next

(* However the accesses of the application thread and of one th_send       *)
(* overlap, PullPocket() finds the element that getSize() saw, and returns *)
(* a pocket that was stored, never an empty slot: the data race of the     *)
(* vector loses or repeats pockets but hands sendFunc() no null.           *)
THEOREM PulledWasPushed == Spec => []NeverNull
<1>1. Init => IInv
  BY InitInv, QueueAssumption
<1>2. IInv /\ [Next]_vars => IInv'
  BY InvStep
<1>3. IInv => NeverNull
  <2> SUFFICES ASSUME IInv PROVE NeverNull
    OBVIOUS
  <2>1. \A i \in DOMAIN out : out[i] \in Pockets \ {Raw}
    BY DEF IInv, PullerInv
  <2>2. QED  BY <2>1 DEF IInv, PullerInv, NeverNull
<1>4. QED  BY <1>1, <1>2, <1>3, PTL DEF Spec

(* However the accesses overlap, the size never exceeds the buffer, so no  *)
(* access of push_back() or erase() leaves it, and what is stored, held or *)
(* returned are pockets.                                                   *)
THEOREM TypeCorrect == Spec => []TypeOK
<1> DEFINE TInv == IInv /\ new \in Seq(Pockets)
<1>1. Init => TInv
  <2>1. Init => new \in Seq(Pockets)
    BY DEF Init
  <2>2. QED  BY <2>1, InitInv, QueueAssumption
<1>2. TInv /\ [Next]_vars => TInv'
  <2> SUFFICES ASSUME IInv, new \in Seq(Pockets), [Next]_vars
               PROVE  IInv' /\ new' \in Seq(Pockets)
    OBVIOUS
  <2>1. IInv'
    BY InvStep
  <2>2. CASE PushGrow
    <3>1. ppc' = "swap"
      BY <2>2 DEF PushGrow
    <3>2. QED  BY <2>1, <3>1 DEF IInv, PusherInv, Pockets
  <2>3. CASE ~PushGrow
    <3>1. new' = new
      BY <2>3 DEF Next, Push, PushBegin, PushStore, PushInc, PushSwap, Pull,
                  PullTest, PullFront, PullShift, PullDec, pushVars, vars
    <3>2. QED  BY <2>1, <3>1
  <2>4. QED  BY <2>1, <2>2, <2>3
<1>3. TInv => TypeOK
  <2> SUFFICES ASSUME IInv, new \in Seq(Pockets) PROVE TypeOK
    OBVIOUS
  <2>1. out \in Seq(Pockets)
    <3>1. out \in Seq(Pockets \ {Raw})
      BY DEF IInv, PullerInv
    <3>2. QED  BY <3>1
  <2>2. size \in 0 .. Len(buf)
    BY LenProperties DEF IInv, BufferInv
  <2>3. QED  BY <2>1, <2>2 DEF TypeOK, IInv, BufferInv, PusherInv, PullerInv
<1>4. QED  BY <1>1, <1>2, <1>3, PTL DEF Spec

-----------------------------------------------------------------------------
(* The first n elements of a buffer, and what the steps do to them.        *)
LEMMA FrontSeq ==
    ASSUME NEW b \in Seq(Pockets), NEW n \in Nat, n <= Len(b)
    PROVE  /\ SubSeq(b, 1, n) \in Seq(Pockets)
           /\ Len(SubSeq(b, 1, n)) = n
           /\ \A i \in 1 .. n : SubSeq(b, 1, n)[i] = b[i]
<1>1. \A i \in 1 .. n : b[i] \in Pockets
  BY ElementOfSeq
<1>2. QED  BY <1>1, SubSeqProperties

LEMMA FrontSame ==
    ASSUME NEW b \in Seq(Pockets), NEW c \in Seq(Pockets), NEW n \in Nat,
           n <= Len(b), n <= Len(c), \A i \in 1 .. n : c[i] = b[i]
    PROVE  SubSeq(c, 1, n) = SubSeq(b, 1, n)
<1>1. /\ SubSeq(b, 1, n) \in Seq(Pockets) /\ SubSeq(c, 1, n) \in Seq(Pockets)
      /\ Len(SubSeq(b, 1, n)) = n /\ Len(SubSeq(c, 1, n)) = n
      /\ \A i \in 1 .. n : SubSeq(c, 1, n)[i] = SubSeq(b, 1, n)[i]
  BY FrontSeq
<1>2. QED  BY <1>1, SeqEqual

LEMMA FrontGrows ==
    ASSUME NEW b \in Seq(Pockets), NEW c \in Seq(Pockets), NEW n \in Nat,
           n <= Len(b), n + 1 <= Len(c), \A i \in 1 .. n : c[i] = b[i]
    PROVE  SubSeq(c, 1, n + 1) = Append(SubSeq(b, 1, n), c[n + 1])
<1> DEFINE s == SubSeq(b, 1, n)
           t == SubSeq(c, 1, n + 1)
           u == Append(s, c[n + 1])
<1>1. s \in Seq(Pockets) /\ Len(s) = n /\ \A i \in 1 .. n : s[i] = b[i]
  BY FrontSeq
<1>2. t \in Seq(Pockets) /\ Len(t) = n + 1 /\ \A i \in 1 .. n + 1 : t[i] = c[i]
  BY FrontSeq
<1>3. c[n + 1] \in Pockets
  BY ElementOfSeq
<1> HIDE DEF s, t
<1>4. /\ u \in Seq(Pockets) /\ Len(u) = n + 1
      /\ \A i \in 1 .. n : u[i] = s[i]
      /\ u[n + 1] = c[n + 1]
  BY <1>1, <1>3, AppendProperties
<1> HIDE DEF u
<1>5. ASSUME NEW i \in 1 .. n + 1 PROVE t[i] = u[i]
  <2>1. CASE i = n + 1
    BY <1>2, <1>4, <2>1
  <2>2. CASE i \in 1 .. n
    BY <1>1, <1>2, <1>4, <2>2
  <2>3. QED  BY <2>1, <2>2
<1>6. t = u
  BY <1>2, <1>4, <1>5, SeqEqual
<1>7. QED  BY <1>6 DEF s, t, u

LEMMA FrontShifts ==
    ASSUME NEW b \in Seq(Pockets), NEW c \in Seq(Pockets), NEW n \in Nat,
           0 < n, n <= Len(b), n <= Len(c),
           \A i \in 1 .. n - 1 : c[i] = b[i + 1]
    PROVE  <<b[1]>> \o SubSeq(c, 1, n - 1) = SubSeq(b, 1, n)
<1> DEFINE h == <<b[1]>>
           s == SubSeq(c, 1, n - 1)
           t == SubSeq(b, 1, n)
           u == h \o s
<1>1. /\ s \in Seq(Pockets) /\ Len(s) = n - 1
      /\ \A i \in 1 .. n - 1 : s[i] = c[i]
  BY FrontSeq
<1>2. t \in Seq(Pockets) /\ Len(t) = n /\ \A i \in 1 .. n : t[i] = b[i]
  BY FrontSeq
<1>3. h \in Seq(Pockets) /\ Len(h) = 1 /\ h[1] = b[1]
  BY ElementOfSeq
<1> HIDE DEF h, s, t
<1>4. /\ u \in Seq(Pockets) /\ Len(u) = n
      /\ \A i \in 1 .. n : u[i] = IF i <= 1 THEN h[i] ELSE s[i - 1]
  <2>1. /\ h \o s \in Seq(Pockets) /\ Len(h \o s) = Len(h) + Len(s)
        /\ \A i \in 1 .. Len(h) + Len(s) :
              (h \o s)[i] = IF i <= Len(h) THEN h[i] ELSE s[i - Len(h)]
    <3>1. h \in Seq(Pockets)
      BY <1>3
    <3>2. s \in Seq(Pockets)
      BY <1>1
    <3>3. QED  BY ONLY <3>1, <3>2, ConcatProperties, Zenon
  <2>2. Len(h) = 1 /\ Len(h) + Len(s) = n
    BY <1>1, <1>3
  <2>3. QED  BY <2>1, <2>2
<1> HIDE DEF u
<1>5. ASSUME NEW i \in 1 .. n PROVE u[i] = t[i]
  <2>1. CASE i = 1
    BY <1>2, <1>3, <1>4, <2>1
  <2>2. CASE i # 1
    <3>1. i - 1 \in 1 .. n - 1 /\ (i - 1) + 1 = i /\ ~(i <= 1)
      BY <2>2
    <3>2. c[i - 1] = b[i]
      BY <3>1
    <3>3. QED  BY <1>1, <1>2, <1>4, <3>1, <3>2
  <2>3. QED  BY <2>1, <2>2
<1>6. u = t
  BY <1>2, <1>4, <1>5, SeqEqual
<1>7. QED  BY <1>6 DEF h, s, t, u

LEMMA FrontOf ==
    ASSUME NEW e \in Pockets, NEW s \in Seq(Pockets)
    PROVE  /\ <<e>> \o s # <<>> /\ Head(<<e>> \o s) = e
           /\ Tail(<<e>> \o s) = s
           /\ Len(<<e>> \o s) = Len(s) + 1
BY ConcatSimplifications, ConcatProperties

-----------------------------------------------------------------------------
(* What holds in addition when no accesses overlap: a pusher knows the     *)
(* size, a puller holds the front, and every pocket that was pushed is     *)
(* counted.                                                                *)
AloneInv ==
    /\ ppc # "idle" => cpc \in {"idle", "pull"} /\ old = size
    /\ ppc = "inc" => buf[old + 1] = pushed
    /\ ppc = "swap" => /\ new[old + 1] = pushed
                       /\ \A i \in 1 .. old : new[i] = buf[i]
    /\ cpc \in {"shift", "dec"} => held.size = size
    /\ cpc = "shift" => held.pk = buf[1] /\ held.capacity = Len(buf)
    /\ pushed = Len(out) + size + (IF ppc = "idle" THEN 0 ELSE 1)

LockedInv == IInv /\ AloneInv

LEMMA LockedInit == ASSUME MaxPush \in Nat, Init PROVE LockedInv
<1>1. AloneInv
  BY DEF Init, AloneInv
<1>2. QED  BY <1>1, InitInv DEF LockedInv

LEMMA LockedPush ==
    ASSUME LockedInv, MaxPush \in Nat, AllowOverlap = FALSE, Push
    PROVE  LockedInv'
<1>1. SUFFICES AloneInv'
  BY PushInv DEF LockedInv
<1>2. /\ buf \in Seq(Pockets) /\ size \in Nat /\ size <= Len(buf)
      /\ Len(out) \in Nat
  BY DEF LockedInv, IInv, BufferInv, PullerInv
<1>3. CASE PushBegin
  <2>1. /\ ppc = "idle" /\ ppc' \in {"store", "grow"} /\ old' = size
        /\ pushed' = pushed + 1 /\ cpc \in {"idle", "pull"}
        /\ UNCHANGED <<buf, size, pullVars>>
    BY <1>3 DEF PushBegin, MayPush
  <2>2. QED  BY <1>2, <2>1 DEF LockedInv, AloneInv, pullVars
<1>4. CASE PushStore
  <2>1. /\ ppc = "store" /\ ppc' = "inc" /\ old + 1 \in 1 .. Len(buf)
        /\ buf' = [buf EXCEPT ![old + 1] = pushed]
        /\ UNCHANGED <<size, pushed, old, new, pullVars>>
    BY <1>2, <1>4 DEF PushStore, LockedInv, IInv, PusherInv
  <2>2. buf'[old + 1] = pushed
    BY <1>2, <2>1
  <2>3. QED  BY <2>1, <2>2 DEF LockedInv, AloneInv, pullVars
<1>5. CASE PushInc
  <2>1. /\ ppc = "inc" /\ ppc' = "idle" /\ old = size /\ size' = size + 1
        /\ cpc \in {"idle", "pull"}
        /\ UNCHANGED <<buf, pushed, pullVars>>
    BY <1>5 DEF PushInc, LockedInv, AloneInv
  <2>2. QED  BY <1>2, <2>1 DEF LockedInv, AloneInv, pullVars
<1>6. CASE PushGrow
  <2> DEFINE n == IF buf = <<>> THEN 1 ELSE 2 * Len(buf)
  <2>1. /\ ppc = "grow" /\ ppc' = "swap" /\ old = Len(buf)
        /\ new' = [i \in 1 .. n |-> CASE i <= old -> buf[i]
                                      [] i = old + 1 -> pushed
                                      [] OTHER -> Raw]
        /\ UNCHANGED <<buf, size, pushed, old, pullVars>>
    BY <1>6 DEF PushGrow, LockedInv, IInv, PusherInv
  <2>2. old \in Nat /\ n \in Nat /\ old + 1 <= n
    BY <1>2, <2>1
  <2> HIDE DEF n
  <2>3. \A i \in 1 .. old : i \in 1 .. n /\ new'[i] = buf[i]
    BY <2>1, <2>2
  <2>4. new'[old + 1] = pushed
    BY <2>1, <2>2
  <2>5. QED  BY <2>1, <2>3, <2>4 DEF LockedInv, AloneInv, pullVars
<1>7. CASE PushSwap
  <2>1. /\ ppc = "swap" /\ ppc' = "idle" /\ old = size /\ size' = size + 1
        /\ cpc \in {"idle", "pull"}
        /\ UNCHANGED <<pushed, pullVars>>
    BY <1>7 DEF PushSwap, LockedInv, AloneInv
  <2>2. QED  BY <1>2, <2>1 DEF LockedInv, AloneInv, pullVars
<1>8. QED  BY <1>3, <1>4, <1>5, <1>6, <1>7 DEF Push

LEMMA LockedPull ==
    ASSUME LockedInv, MaxPush \in Nat, AllowOverlap = FALSE, Pull
    PROVE  LockedInv'
<1>1. SUFFICES AloneInv'
  BY PullInv DEF LockedInv
<1>2. CASE PullTest
  BY <1>2 DEF PullTest, MayPull, LockedInv, AloneInv, pushVars
<1>3. CASE PullFront
  <2>1. /\ ppc = "idle" /\ cpc' = "shift"
        /\ held' = [pk |-> buf[1], size |-> size, capacity |-> Len(buf)]
        /\ UNCHANGED <<buf, size, pushVars, out>>
    BY <1>3 DEF PullFront, MayPull, LockedInv, IInv, PullerInv
  <2>2. QED  BY <2>1 DEF LockedInv, AloneInv, pushVars
<1>4. CASE PullShift
  <2>1. ppc = "idle"
    BY <1>4 DEF PullShift, LockedInv, AloneInv
  <2>2. QED  BY <1>4, <2>1 DEF PullShift, LockedInv, AloneInv, pushVars
<1>5. CASE PullDec
  <2>1. /\ ppc = "idle" /\ cpc' = "idle" /\ size' = size - 1
        /\ UNCHANGED <<buf, pushVars, held>>
    BY <1>5 DEF PullDec, LockedInv, AloneInv
  <2>2. Len(out') = Len(out) + 1 /\ Len(out) \in Nat /\ size \in Nat
    BY <1>5 DEF PullDec, LockedInv, IInv, PullerInv, BufferInv
  <2>3. QED  BY <2>1, <2>2 DEF LockedInv, AloneInv, pushVars
<1>6. QED  BY <1>2, <1>3, <1>4, <1>5 DEF Pull

(* A step of the pusher leaves the queue alone or appends the pocket that  *)
(* was pushed, whose number PocketFifo expects next.                       *)
LEMMA PushMaps ==
    ASSUME LockedInv, MaxPush \in Nat, AllowOverlap = FALSE, Push
    PROVE  Fifo!PushPocket \/ UNCHANGED <<FifoQueue, out>>
<1>1. /\ buf \in Seq(Pockets) /\ size \in Nat /\ size <= Len(buf)
      /\ Len(out) \in Nat /\ pushed \in Nat /\ pushed <= MaxPush
      /\ pushed = Len(out) + size + (IF ppc = "idle" THEN 0 ELSE 1)
  BY DEF LockedInv, IInv, BufferInv, PusherInv, PullerInv, AloneInv, Pockets
<1>2. UNCHANGED <<cpc, held, out>>
  BY DEF Push, PushBegin, PushStore, PushInc, PushGrow, PushSwap, pullVars
<1>3. CASE PushBegin \/ PushGrow
  BY <1>2, <1>3 DEF PushBegin, PushGrow, FifoQueue
<1>4. ppc # "idle" => cpc # "dec" /\ old = size
  BY DEF LockedInv, AloneInv
<1>5. CASE PushStore
  <2>1. /\ cpc # "dec" /\ size' = size /\ old = size
        /\ buf' = [buf EXCEPT ![size + 1] = pushed] /\ size + 1 <= Len(buf)
    BY <1>4, <1>5 DEF PushStore, LockedInv, IInv, PusherInv
  <2>2. /\ buf' \in Seq(Pockets) /\ Len(buf') = Len(buf)
        /\ \A i \in 1 .. size : buf'[i] = buf[i]
    BY <1>1, <2>1 DEF Pockets
  <2>3. SubSeq(buf', 1, size) = SubSeq(buf, 1, size)
    BY <1>1, <2>2, FrontSame
  <2>4. QED  BY <1>2, <2>1, <2>3 DEF FifoQueue
<1>6. CASE PushInc \/ PushSwap
  <2>1. /\ ppc # "idle" /\ cpc # "dec" /\ old = size /\ size' = size + 1
    BY <1>4, <1>6 DEF PushInc, PushSwap
  <2>2. /\ buf' \in Seq(Pockets) /\ size + 1 <= Len(buf')
        /\ buf'[size + 1] = pushed
        /\ \A i \in 1 .. size : buf'[i] = buf[i]
    <3>1. CASE PushInc
      BY <1>1, <2>1, <3>1 DEF PushInc, LockedInv, AloneInv, IInv, PusherInv
    <3>2. CASE PushSwap
      BY <1>1, <2>1, <3>2 DEF PushSwap, LockedInv, AloneInv, IInv, PusherInv
    <3>3. QED  BY <1>6, <3>1, <3>2
  <2>3. SubSeq(buf', 1, size + 1) = Append(SubSeq(buf, 1, size), pushed)
    BY <1>1, <2>2, FrontGrows
  <2>4. Len(SubSeq(buf, 1, size)) = size
    BY <1>1, FrontSeq
  <2>5. /\ FifoQueue = SubSeq(buf, 1, size)
        /\ FifoQueue' = Append(FifoQueue, pushed)
    BY <1>2, <2>1, <2>3 DEF FifoQueue
  <2>6. Len(out) + Len(FifoQueue) + 1 = pushed
    BY <1>1, <2>1, <2>4, <2>5
  <2>7. QED  BY <1>1, <1>2, <2>5, <2>6 DEF Fifo!PushPocket
<1>7. QED  BY <1>3, <1>5, <1>6 DEF Push

(* A step of the puller leaves the queue alone or takes its front.         *)
LEMMA PullMaps ==
    ASSUME LockedInv, MaxPush \in Nat, AllowOverlap = FALSE, Pull
    PROVE  Fifo!PullPocket \/ UNCHANGED <<FifoQueue, out>>
<1>1. buf \in Seq(Pockets) /\ size \in Nat /\ size <= Len(buf)
  BY DEF LockedInv, IInv, BufferInv
<1>2. CASE PullTest \/ PullFront
  BY <1>2 DEF PullTest, PullFront, FifoQueue
<1>3. CASE PullShift
  <2>1. /\ cpc = "shift" /\ cpc' = "dec" /\ UNCHANGED <<size, held, out>>
        /\ 0 < size /\ held.pk = buf[1]
        /\ buf' = [i \in DOMAIN buf |-> IF i < size THEN buf[i + 1] ELSE buf[i]]
    BY <1>3 DEF PullShift, LockedInv, AloneInv, IInv, PullerInv
  <2>2. buf' \in Seq(Pockets) /\ Len(buf') = Len(buf)
    <3>1. \A i \in 1 .. size : buf[i] # Raw
      BY DEF LockedInv, IInv, BufferInv
    <3>2. QED  BY <1>1, <2>1, <3>1, ShiftedBuffer
  <2>3. \A i \in 1 .. size - 1 : buf'[i] = buf[i + 1]
    BY <1>1, <2>1
  <2>4. <<buf[1]>> \o SubSeq(buf', 1, size - 1) = SubSeq(buf, 1, size)
    BY <1>1, <2>1, <2>2, <2>3, FrontShifts
  <2>5. QED  BY <2>1, <2>4 DEF FifoQueue
<1>4. CASE PullDec
  <2>1. /\ cpc = "dec" /\ cpc' = "idle" /\ buf' = buf /\ size' = size - 1
        /\ 0 < size /\ out' = Append(out, held.pk) /\ held.pk \in Pockets
    BY <1>4 DEF PullDec, LockedInv, AloneInv, IInv, PullerInv
  <2>2. SubSeq(buf, 1, size - 1) \in Seq(Pockets)
    BY <1>1, <2>1, FrontSeq
  <2>3. /\ FifoQueue = <<held.pk>> \o SubSeq(buf, 1, size - 1)
        /\ FifoQueue' = SubSeq(buf, 1, size - 1)
    BY <2>1 DEF FifoQueue
  <2>4. QED  BY <2>1, <2>2, <2>3, FrontOf DEF Fifo!PullPocket
<1>5. QED  BY <1>2, <1>3, <1>4 DEF Pull

(* When no accesses overlap, the steps that class Queue makes of a push    *)
(* and a pull amount to one atomic push and one atomic pull: pockets leave *)
(* in the order in which they came, each once, through every growth and    *)
(* shift of the vector.  (The safety part of ImplementsFifo.)              *)
THEOREM LockedQueueIsFifo ==
    ASSUME AllowOverlap = FALSE
    PROVE  Spec => Fifo!FifoSafety
<1>1. Init => Fifo!FifoInit
  BY DEF Init, Fifo!FifoInit, FifoQueue
<1>2. Init => LockedInv
  BY LockedInit, QueueAssumption
<1>3. LockedInv /\ [Next]_vars => LockedInv'
  <2> SUFFICES ASSUME LockedInv, [Next]_vars PROVE LockedInv'
    OBVIOUS
  <2>1. CASE UNCHANGED vars
    BY <2>1 DEF vars, pushVars, pullVars, LockedInv, AloneInv, IInv, BufferInv,
                PusherInv, PullerInv
  <2>2. QED  BY <2>1, LockedPush, LockedPull, QueueAssumption DEF Next
<1>4. LockedInv /\ [Next]_vars
         => [Fifo!PushPocket \/ Fifo!PullPocket]_(Fifo!fifoVars)
  <2> SUFFICES ASSUME LockedInv, [Next]_vars
               PROVE  \/ Fifo!PushPocket \/ Fifo!PullPocket
                      \/ UNCHANGED <<FifoQueue, out>>
    BY DEF Fifo!fifoVars
  <2>1. CASE UNCHANGED vars
    BY <2>1 DEF vars, pullVars, FifoQueue
  <2>2. QED  BY <2>1, PushMaps, PullMaps, QueueAssumption DEF Next
<1>5. QED  BY <1>1, <1>2, <1>3, <1>4, PTL DEF Spec, Fifo!FifoSafety
=============================================================================
