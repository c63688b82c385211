------------------------------- MODULE Outbox -------------------------------
(***************************************************************************)
(* What TcpClient promises whoever calls pushSendQueue(): the messages are *)
(* taken in the order in which they were pushed, each once; the pieces of  *)
(* one that was taken are handed to the system in order; and at the end it *)
(* is reported sent, when no piece is missing, or failed, when one is.     *)
(* Nothing is promised about which of the two, and nothing is tried again. *)
(*                                                                         *)
(* One message is in hand at a time until the client is started over       *)
(* threads that still run; then there may be more.                         *)
(***************************************************************************)
EXTENDS Integers, Sequences

CONSTANTS MaxPush,     \* bound on the messages
          Units        \* pieces of each message

VARIABLES submitted,   \* messages pushed, numbered in their order
          taken,       \* those of them that were taken
          hand,        \* the messages in hand, each with its pieces so far
          accepted,    \* history: the pieces that the system has accepted
          fate,        \* history: what was reported of each message
          restarted    \* started over running threads

outVars == <<submitted, taken, hand, accepted, fate, restarted>>

Messages == 1 .. MaxPush

OutInit == /\ submitted = 0 /\ taken = 0 /\ hand = {} /\ accepted = <<>>
           /\ fate = [m \in Messages |-> "none"] /\ restarted = FALSE

Submit == /\ submitted < MaxPush
          /\ submitted' = submitted + 1
          /\ UNCHANGED <<taken, hand, accepted, fate, restarted>>

Take == /\ taken < submitted
        /\ hand = {} \/ restarted
        /\ taken' = taken + 1
        /\ hand' = hand \cup {<<taken + 1, 0>>}
        /\ UNCHANGED <<submitted, accepted, fate, restarted>>

Accept == \E h \in hand : \E k \in 1 .. (Units[h[1]] - h[2]) :
             /\ hand' = (hand \ {h}) \cup {<<h[1], h[2] + k>>}
             /\ accepted' = accepted \o [i \in 1 .. k |-> <<h[1], h[2] + i>>]
             /\ UNCHANGED <<submitted, taken, fate, restarted>>

Report(h, r) == /\ fate' = [fate EXCEPT ![h[1]] = r]
                /\ hand' = hand \ {h}
                /\ UNCHANGED <<submitted, taken, accepted, restarted>>

ReportSent == \E h \in hand : h[2] = Units[h[1]] /\ Report(h, "sent")

ReportFailed == \E h \in hand : h[2] < Units[h[1]] /\ Report(h, "failed")

Restart == /\ restarted' = TRUE
           /\ UNCHANGED <<submitted, taken, hand, accepted, fate>>

OutNext == Submit \/ Take \/ Accept \/ ReportSent \/ ReportFailed \/ Restart

OutboxSpec == OutInit /\ [][OutNext]_outVars

-----------------------------------------------------------------------------
(* Piece p was accepted before piece q.                                    *)
Earlier(p, q) == p[1] < q[1] \/ (p[1] = q[1] /\ p[2] < q[2])

(* The pieces of one message are accepted once and in order; the messages  *)
(* too, as long as one is in hand at a time.                               *)
InOrder ==
    \A i, j \in DOMAIN accepted :
       i < j /\ (restarted => accepted[i][1] = accepted[j][1])
          => Earlier(accepted[i], accepted[j])

LastAccepted(m) == \E i \in DOMAIN accepted : accepted[i] = <<m, Units[m]>>

(* A message has no report until it was taken and while it is in hand, and *)
(* then one, which says the truth about its last piece.                    *)
Reported ==
    \A m \in Messages :
       /\ fate[m] = "none" <=> m > taken \/ \E h \in hand : h[1] = m
       /\ fate[m] = "sent" /\ Units[m] > 0 => LastAccepted(m)
       /\ fate[m] = "failed" => ~LastAccepted(m)
=============================================================================
