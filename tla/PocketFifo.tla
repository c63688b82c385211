----------------------------- MODULE PocketFifo -----------------------------
(***************************************************************************)
(* What class Queue (Classes/NetWork/Queue.cpp) promises the two threads   *)
(* that share one: pockets leave in the order in which they came, each     *)
(* once, and none stays for ever while a thread keeps pulling.  The        *)
(* pockets are numbered in the order of the pushes.                        *)
(***************************************************************************)
EXTENDS Naturals, Sequences

CONSTANT MaxPush       \* bound on the pushes

VARIABLES queue,       \* the pockets in the queue
          out          \* history: the pockets that PullPocket() has returned

fifoVars == <<queue, out>>

FifoInit == queue = <<>> /\ out = <<>>

PushPocket ==
    LET next == Len(out) + Len(queue) + 1
    IN  /\ next <= MaxPush
        /\ queue' = Append(queue, next)
        /\ UNCHANGED out

PullPocket ==
    /\ queue # <<>>
    /\ out' = Append(out, Head(queue))
    /\ queue' = Tail(queue)

(* The order of the pockets, and that a pull is not put off for ever.      *)
FifoSafety == FifoInit /\ [][PushPocket \/ PullPocket]_fifoVars

FifoSpec == FifoSafety /\ WF_fifoVars(PullPocket)
=============================================================================
