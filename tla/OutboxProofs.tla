---------------------------- MODULE OutboxProofs ----------------------------
(***************************************************************************)
(* What the promise of Outbox means for the messages: they are accepted in *)
(* order, and what is reported of each is true; for any number of          *)
(* messages of any number of pieces.                                       *)
(***************************************************************************)
EXTENDS Outbox, TLAPS

Bounds == MaxPush \in Nat /\ Units \in [Messages -> Nat]

OutTypeOK ==
    /\ submitted \in 0 .. MaxPush /\ taken \in 0 .. submitted
    /\ hand \subseteq (1 .. taken) \X Nat
    /\ accepted \in Seq(Messages \X Nat)
    /\ fate \in [Messages -> {"none", "sent", "failed"}]
    /\ restarted \in BOOLEAN

(* A message is in hand once, and alone until the restart.                 *)
HandInv == \A h, j \in hand : h[1] = j[1] \/ ~restarted => h = j

(* The pieces that were accepted are of messages that were taken, the      *)
(* pieces of those in hand as far as the hand says, the last of them last; *)
(* none is of a message that is behind one in hand, before the restart.    *)
PieceInv ==
    /\ \A i \in DOMAIN accepted :
          /\ accepted[i][1] <= taken
          /\ \A h \in hand :
                /\ accepted[i][1] = h[1] => accepted[i][2] <= h[2]
                /\ ~restarted => accepted[i][1] <= h[1]
    /\ \A h \in hand :
          /\ h[2] <= Units[h[1]]
          /\ h[2] > 0 => \E i \in DOMAIN accepted : accepted[i] = h

OutInv == OutTypeOK /\ HandInv /\ PieceInv /\ InOrder /\ Reported

LEMMA OutInitInv == Bounds /\ OutInit => OutInv
<1> SUFFICES ASSUME Bounds, OutInit PROVE OutInv
  OBVIOUS
<1>1. hand = {} /\ DOMAIN accepted = {} /\ taken = 0 /\ submitted = 0
  BY DEF OutInit
<1>2. OutTypeOK
  <2>1. accepted \in Seq(Messages \X Nat) /\ hand \subseteq (1 .. taken) \X Nat
    BY DEF OutInit
  <2>2. fate \in [Messages -> {"none", "sent", "failed"}]
    BY DEF OutInit
  <2>3. submitted \in 0 .. MaxPush /\ taken \in 0 .. submitted
    BY <1>1 DEF Bounds
  <2>4. restarted \in BOOLEAN
    BY DEF OutInit
  <2>5. QED  BY <2>1, <2>2, <2>3, <2>4 DEF OutTypeOK
<1>3. HandInv /\ PieceInv /\ InOrder
  BY <1>1 DEF HandInv, PieceInv, InOrder
<1>4. Reported
  <2> SUFFICES ASSUME NEW n \in Messages
               PROVE  fate[n] = "none" /\ n > taken
    BY DEF Reported
  <2>1. QED  BY <1>1 DEF OutInit, Messages, Bounds
<1>5. QED  BY <1>2, <1>3, <1>4 DEF OutInv

(* What Accept appends to the sequence of the accepted pieces.             *)
LEMMA Appended ==
    ASSUME NEW s \in Seq(Messages \X Nat), NEW m \in Messages, NEW c \in Nat,
           NEW k \in Nat, NEW t, t = s \o [i \in 1 .. k |-> <<m, c + i>>]
    PROVE  /\ t \in Seq(Messages \X Nat)
           /\ DOMAIN t = 1 .. (Len(s) + k) /\ DOMAIN s = 1 .. Len(s)
           /\ \A i \in DOMAIN s : t[i] = s[i]
           /\ \A i \in DOMAIN t \ DOMAIN s :
                 t[i] = <<m, c + (i - Len(s))>>
<1> DEFINE p == [i \in 1 .. k |-> <<m, c + i>>]
<1>1. p \in Seq(Messages \X Nat) /\ Len(p) = k
  OBVIOUS
<1>2. QED  BY <1>1

LEMMA SubmitInv == ASSUME Bounds, OutInv, Submit PROVE OutInv'
<1> USE DEF OutInv
<1>1. OutTypeOK'
  BY DEF OutTypeOK, Submit, Bounds
<1>2. HandInv' /\ PieceInv' /\ InOrder' /\ Reported'
  BY DEF Submit, HandInv, PieceInv, InOrder, Reported, LastAccepted
<1>3. QED  BY <1>1, <1>2

LEMMA RestartInv == ASSUME Bounds, OutInv, Restart PROVE OutInv'
<1> USE DEF OutInv
<1>1. OutTypeOK'
  BY DEF OutTypeOK, Restart
<1>2. HandInv' /\ PieceInv' /\ InOrder' /\ Reported'
  BY DEF Restart, HandInv, PieceInv, InOrder, Reported, LastAccepted
<1>3. QED  BY <1>1, <1>2

LEMMA TakeInv == ASSUME Bounds, OutInv, Take PROVE OutInv'
<1> DEFINE new == <<taken + 1, 0>>
<1>1. /\ taken \in Nat /\ submitted \in Nat /\ taken < submitted
      /\ hand = {} \/ restarted
      /\ taken' = taken + 1 /\ hand' = hand \cup {new}
      /\ UNCHANGED <<submitted, accepted, fate, restarted>>
      /\ new[1] = taken + 1 /\ new[2] = 0 /\ submitted <= MaxPush /\ MaxPush \in Nat
  BY DEF OutInv, OutTypeOK, Take, Bounds
<1>2. \A h \in hand : h[1] \in Nat /\ h[1] <= taken /\ h[2] \in Nat
  BY DEF OutInv, OutTypeOK
<1>3. \A i \in DOMAIN accepted : accepted[i][1] \in Nat /\ accepted[i][1] <= taken
  BY DEF OutInv, OutTypeOK, PieceInv, Messages
<1>4. OutTypeOK'
  <2>1. new \in (1 .. taken + 1) \X Nat
    BY <1>1
  <2>2. QED  BY <1>1, <2>1 DEF OutInv, OutTypeOK
<1> HIDE DEF new
<1>5. HandInv'
  <2> SUFFICES ASSUME NEW h \in hand', NEW j \in hand', h[1] = j[1] \/ ~restarted
               PROVE  h = j
    BY <1>1 DEF HandInv
  <2>1. CASE h \in hand /\ j \in hand
    BY <2>1 DEF OutInv, HandInv
  <2>2. CASE h = new /\ j = new
    BY <2>2
  <2>3. CASE (h \in hand /\ j = new) \/ (h = new /\ j \in hand)
    <3>1. restarted
      BY <1>1, <2>3
    <3>2. h[1] = j[1]
      BY <3>1
    <3>3. QED  BY <1>1, <1>2, <2>3, <3>2
  <2>4. QED  BY <1>1, <2>1, <2>2, <2>3
<1>6. PieceInv'
  <2>1. ASSUME NEW i \in DOMAIN accepted
        PROVE  accepted[i][1] <= taken + 1
    BY <1>1, <1>3
  <2>2. ASSUME NEW i \in DOMAIN accepted, NEW h \in hand'
        PROVE  /\ accepted[i][1] = h[1] => accepted[i][2] <= h[2]
               /\ ~restarted => accepted[i][1] <= h[1]
    <3>1. CASE h \in hand
      BY <3>1 DEF OutInv, PieceInv
    <3>2. CASE h = new
      BY <1>1, <1>3, <3>2
    <3>3. QED  BY <1>1, <3>1, <3>2
  <2>3. ASSUME NEW h \in hand'
        PROVE  /\ h[2] <= Units[h[1]]
               /\ h[2] > 0 => \E i \in DOMAIN accepted : accepted[i] = h
    <3>1. CASE h \in hand
      BY <3>1 DEF OutInv, PieceInv
    <3>2. CASE h = new
      <4>1. Units[taken + 1] \in Nat
        BY <1>1 DEF Bounds, Messages
      <4>2. QED  BY <1>1, <3>2, <4>1
    <3>3. QED  BY <1>1, <3>1, <3>2
  <2>4. QED  BY <1>1, <2>1, <2>2, <2>3 DEF PieceInv
<1>7. InOrder'
  BY <1>1 DEF OutInv, InOrder
<1>8. Reported'
  <2> SUFFICES ASSUME NEW n \in Messages
               PROVE  n > taken \/ (\E j \in hand : j[1] = n)
                         <=> n > taken + 1 \/ \E j \in hand' : j[1] = n
    BY <1>1 DEF OutInv, Reported, LastAccepted
  <2>1. n \in Nat
    BY DEF Messages
  <2>2. (\E j \in hand' : j[1] = n) <=> (\E j \in hand : j[1] = n) \/ n = taken + 1
    BY <1>1
  <2>3. n > taken <=> n > taken + 1 \/ n = taken + 1
    BY <1>1, <2>1
  <2>4. QED  BY <2>2, <2>3
<1>9. QED  BY <1>4, <1>5, <1>6, <1>7, <1>8 DEF OutInv

LEMMA AcceptInv == ASSUME Bounds, OutInv, Accept PROVE OutInv'
<1>1. PICK h \in hand : \E k \in 1 .. (Units[h[1]] - h[2]) :
         /\ hand' = (hand \ {h}) \cup {<<h[1], h[2] + k>>}
         /\ accepted' = accepted \o [i \in 1 .. k |-> <<h[1], h[2] + i>>]
         /\ UNCHANGED <<submitted, taken, fate, restarted>>
  BY DEF Accept
<1>2. PICK k \in 1 .. (Units[h[1]] - h[2]) :
         /\ hand' = (hand \ {h}) \cup {<<h[1], h[2] + k>>}
         /\ accepted' = accepted \o [i \in 1 .. k |-> <<h[1], h[2] + i>>]
         /\ UNCHANGED <<submitted, taken, fate, restarted>>
  BY <1>1
<1> DEFINE m == h[1]
           c == h[2]
           L == Len(accepted)
           new == <<m, c + k>>
           more == [i \in 1 .. k |-> <<m, c + i>>]
<1>3. /\ m \in 1 .. taken /\ m \in Nat /\ m <= taken /\ m \in Messages
      /\ c \in Nat /\ h = <<m, c>> /\ Units[m] \in Nat
      /\ taken \in Nat /\ L \in Nat /\ accepted \in Seq(Messages \X Nat)
  BY DEF OutInv, OutTypeOK, Bounds, Messages
<1>4. k \in Nat /\ k >= 1 /\ c + k <= Units[m]
  BY <1>3
<1>5. new[1] = m /\ new[2] = c + k /\ new \in (1 .. taken) \X Nat
  BY <1>3, <1>4
<1>6. /\ hand' = (hand \ {h}) \cup {new} /\ accepted' = accepted \o more
      /\ UNCHANGED <<submitted, taken, fate, restarted>>
  BY <1>2
<1>7. /\ accepted' \in Seq(Messages \X Nat)
      /\ DOMAIN accepted' = 1 .. (L + k) /\ DOMAIN accepted = 1 .. L
      /\ \A i \in DOMAIN accepted : accepted'[i] = accepted[i]
      /\ \A i \in DOMAIN accepted' \ DOMAIN accepted :
            accepted'[i] = <<m, c + (i - L)>>
  <2>1. k \in Nat /\ m \in Messages /\ c \in Nat /\ accepted \in Seq(Messages \X Nat)
    BY <1>3, <1>4
  <2>2. accepted' = accepted \o [i \in 1 .. k |-> <<m, c + i>>]
    BY <1>6
  <2> HIDE DEF m, c, more
  <2>3. QED  BY <2>1, <2>2, Appended DEF L
<1>8. \A j \in hand : j[1] \in Nat /\ j[2] \in Nat
  BY DEF OutInv, OutTypeOK
<1>9. ASSUME NEW i \in DOMAIN accepted
      PROVE  /\ accepted[i][1] \in Nat /\ accepted[i][2] \in Nat
             /\ accepted[i][1] <= taken /\ accepted'[i] = accepted[i]
             /\ accepted[i][1] = m => accepted[i][2] <= c
             /\ ~restarted => accepted[i][1] <= m
  <2>1. accepted[i] \in Messages \X Nat
    BY <1>3
  <2>2. accepted[i][1] \in Nat /\ accepted[i][2] \in Nat
    BY <2>1 DEF Messages
  <2>3. /\ accepted[i][1] <= taken
        /\ accepted[i][1] = m => accepted[i][2] <= c
        /\ ~restarted => accepted[i][1] <= m
    BY DEF OutInv, PieceInv
  <2>4. QED  BY <1>7, <2>2, <2>3
<1>10. ASSUME NEW i \in DOMAIN accepted', i \notin DOMAIN accepted
       PROVE  /\ i \in Nat /\ i > L /\ i <= L + k /\ accepted'[i] = <<m, c + (i - L)>>
              /\ accepted'[i][1] = m /\ accepted'[i][2] = c + (i - L)
              /\ c + (i - L) \in Nat /\ c + (i - L) <= c + k /\ c + (i - L) > c
  <2>1. accepted'[i] = <<m, c + (i - L)>> /\ i \in 1 .. (L + k) /\ i \notin 1 .. L
    BY <1>7, <1>10
  <2> HIDE DEF m, c, L
  <2>2. i \in Nat /\ i > L /\ i <= L + k
    BY <1>3, <1>4, <2>1
  <2>3. QED  BY <1>3, <1>4, <2>1, <2>2
<1>11. ASSUME NEW j \in hand, j # h
       PROVE  restarted /\ j[1] # m
  BY <1>11 DEF OutInv, HandInv
<1> HIDE DEF m, c, L, new, more
<1>12. OutTypeOK'
  BY <1>5, <1>6, <1>7 DEF OutInv, OutTypeOK
<1>13. HandInv'
  <2> SUFFICES ASSUME NEW a \in hand', NEW b \in hand', a[1] = b[1] \/ ~restarted
               PROVE  a = b
    BY <1>6 DEF HandInv
  <2>1. CASE a = new /\ b = new
    BY <2>1
  <2>2. CASE a \in hand /\ a # h /\ b \in hand /\ b # h
    BY <2>2 DEF OutInv, HandInv
  <2>3. CASE a \in hand /\ a # h /\ b = new
    BY <1>5, <1>11, <2>3
  <2>4. CASE a = new /\ b \in hand /\ b # h
    BY <1>5, <1>11, <2>4
  <2>5. QED  BY <1>6, <2>1, <2>2, <2>3, <2>4
<1>14. PieceInv'
  <2>1. ASSUME NEW i \in DOMAIN accepted'
        PROVE  accepted'[i][1] <= taken
    BY <1>3, <1>9, <1>10
  <2>2. ASSUME NEW i \in DOMAIN accepted', NEW j \in hand'
        PROVE  /\ accepted'[i][1] = j[1] => accepted'[i][2] <= j[2]
               /\ ~restarted => accepted'[i][1] <= j[1]
    <3>1. CASE i \in DOMAIN accepted /\ j = new
      BY <1>3, <1>4, <1>5, <1>9, <3>1
    <3>2. CASE i \in DOMAIN accepted /\ j \in hand /\ j # h
      BY <1>9, <3>2 DEF OutInv, PieceInv
    <3>3. CASE i \notin DOMAIN accepted /\ j = new
      BY <1>3, <1>5, <1>10, <3>3
    <3>4. CASE i \notin DOMAIN accepted /\ j \in hand /\ j # h
      BY <1>10, <1>11, <3>4
    <3>5. QED  BY <1>6, <3>1, <3>2, <3>3, <3>4
  <2>3. ASSUME NEW j \in hand'
        PROVE  /\ j[2] <= Units[j[1]]
               /\ j[2] > 0 => \E i \in DOMAIN accepted' : accepted'[i] = j
    <3>1. CASE j = new
      <4>1. L + k \in DOMAIN accepted' /\ L + k \notin DOMAIN accepted
        BY <1>3, <1>4, <1>7
      <4>2. accepted'[L + k] = <<m, c + ((L + k) - L)>> /\ (L + k) - L = k
        BY <1>3, <1>4, <1>10, <4>1
      <4>3. QED  BY <1>4, <1>5, <3>1, <4>1, <4>2 DEF new
    <3>2. CASE j \in hand
      <4>1. j[2] <= Units[j[1]]
        BY <3>2 DEF OutInv, PieceInv
      <4>2. ASSUME j[2] > 0
            PROVE  \E i \in DOMAIN accepted' : accepted'[i] = j
        <5>1. PICK i \in DOMAIN accepted : accepted[i] = j
          BY <3>2, <4>2 DEF OutInv, PieceInv
        <5>2. i \in DOMAIN accepted' /\ accepted'[i] = j
          BY <1>3, <1>4, <1>7, <5>1
        <5>3. QED  BY <5>2
      <4>3. QED  BY <4>1, <4>2
    <3>3. QED  BY <1>6, <3>1, <3>2
  <2>4. QED  BY <1>6, <2>1, <2>2, <2>3 DEF PieceInv
<1>15. InOrder'
  <2> SUFFICES ASSUME NEW i \in DOMAIN accepted', NEW j \in DOMAIN accepted', i < j,
                      restarted => accepted'[i][1] = accepted'[j][1]
               PROVE  Earlier(accepted'[i], accepted'[j])
    BY <1>6 DEF InOrder, Earlier
  <2>0. i \in 1 .. (L + k) /\ j \in 1 .. (L + k)
    BY <1>7
  <2>1. i \in Nat /\ j \in Nat
    BY <2>0
  <2>2. CASE i \in DOMAIN accepted /\ j \in DOMAIN accepted
    BY <1>9, <2>2 DEF OutInv, InOrder
  <2>3. CASE i \in DOMAIN accepted /\ j \notin DOMAIN accepted
    <3>1. /\ accepted'[i] = accepted[i]
          /\ accepted[i][1] \in Nat /\ accepted[i][2] \in Nat
          /\ accepted[i][1] = m => accepted[i][2] <= c
          /\ ~restarted => accepted[i][1] <= m
      BY <1>9, <2>3
    <3>2. /\ accepted'[j][1] = m /\ accepted'[j][2] = c + (j - L)
          /\ c + (j - L) \in Nat /\ c + (j - L) > c
      BY <1>10, <2>3
    <3>3. accepted[i][1] = m \/ accepted[i][1] < m
      <4>1. restarted => accepted[i][1] = m
        BY <3>1, <3>2
      <4>2. accepted[i][1] <= m
        BY <1>3, <3>1, <4>1
      <4>3. QED  BY <1>3, <3>1, <4>2
    <3>4. CASE accepted[i][1] < m
      BY <3>1, <3>2, <3>4 DEF Earlier
    <3>5. CASE accepted[i][1] = m
      <4>1. accepted[i][2] < c + (j - L)
        BY <1>3, <3>1, <3>2, <3>5
      <4>2. QED  BY <3>1, <3>2, <3>5, <4>1 DEF Earlier
    <3>6. QED  BY <3>3, <3>4, <3>5
  <2>4. CASE i \notin DOMAIN accepted /\ j \notin DOMAIN accepted
    <3>1. accepted'[i][1] = m /\ accepted'[j][1] = m
      BY <1>10, <2>4
    <3>2. accepted'[i][2] = c + (i - L) /\ accepted'[j][2] = c + (j - L)
      BY <1>10, <2>4
    <3>3. c + (i - L) < c + (j - L)
      BY <1>3, <2>1
    <3>4. QED  BY <3>1, <3>2, <3>3 DEF Earlier
  <2>5. CASE i \notin DOMAIN accepted /\ j \in DOMAIN accepted
    BY <1>3, <1>7, <1>10, <2>1, <2>5
  <2>6. QED  BY <2>2, <2>3, <2>4, <2>5
<1>16. Reported'
  <2>1. ASSUME NEW n \in Messages
        PROVE  (\E j \in hand' : j[1] = n) <=> (\E j \in hand : j[1] = n)
    <3>1. h[1] = m /\ new[1] = m
      BY <1>5 DEF m
    <3>2. QED  BY <1>6, <3>1
  <2>2. fate[m] = "none"
    BY <1>3 DEF OutInv, Reported, m
  <2>3. ASSUME NEW n \in Messages, n # m
        PROVE  LastAccepted(n)' <=> LastAccepted(n)
    <3>1. ASSUME NEW i \in DOMAIN accepted
          PROVE  i \in DOMAIN accepted' /\ accepted'[i] = accepted[i]
      BY <1>3, <1>4, <1>7
    <3>2. ASSUME NEW i \in DOMAIN accepted', accepted'[i] = <<n, Units[n]>>
          PROVE  i \in DOMAIN accepted
      <4>1. accepted'[i][1] = n
        BY <3>2
      <4>2. QED  BY <1>10, <2>3, <4>1
    <3>3. QED  BY <3>1, <3>2 DEF LastAccepted
  <2>4. ASSUME NEW n \in Messages
        PROVE  /\ fate[n] = "none" <=> n > taken \/ \E j \in hand' : j[1] = n
               /\ fate[n] = "sent" /\ Units[n] > 0 => LastAccepted(n)'
               /\ fate[n] = "failed" => ~LastAccepted(n)'
    <3>1. fate[n] = "none" <=> n > taken \/ \E j \in hand' : j[1] = n
      BY <2>1 DEF OutInv, Reported
    <3>2. CASE n = m
      BY <2>2, <3>1, <3>2
    <3>3. CASE n # m
      BY <2>3, <3>1, <3>3 DEF OutInv, Reported
    <3>4. QED  BY <3>2, <3>3
  <2>5. QED  BY <1>6, <2>4 DEF Reported
<1>17. QED  BY <1>12, <1>13, <1>14, <1>15, <1>16 DEF OutInv

LEMMA ReportInv ==
    ASSUME Bounds, OutInv, ReportSent \/ ReportFailed
    PROVE  OutInv'
<1> USE DEF OutInv, OutTypeOK
<1>1. PICK h \in hand, r \in {"sent", "failed"} :
         /\ Report(h, r)
         /\ r = "sent" => h[2] = Units[h[1]]
         /\ r = "failed" => h[2] < Units[h[1]]
  BY DEF ReportSent, ReportFailed
<1>2. /\ hand' = hand \ {h} /\ fate' = [fate EXCEPT ![h[1]] = r]
      /\ UNCHANGED <<submitted, taken, accepted, restarted>>
      /\ h[1] \in Messages /\ h[1] \in 1 .. taken /\ h[2] \in Nat
      /\ Units[h[1]] \in Nat /\ h = <<h[1], h[2]>>
  BY <1>1 DEF Report, Messages, Bounds
<1>3. OutTypeOK'
  BY <1>1, <1>2
<1>4. HandInv'
  BY <1>2 DEF HandInv
<1>5. PieceInv'
  BY <1>2 DEF PieceInv
<1>6. InOrder'
  BY <1>2 DEF InOrder, Earlier
<1>7. Reported'
  <2> SUFFICES ASSUME NEW n \in Messages
               PROVE  /\ fate'[n] = "none" <=> n > taken \/ \E j \in hand' : j[1] = n
                      /\ fate'[n] = "sent" /\ Units[n] > 0 => LastAccepted(n)
                      /\ fate'[n] = "failed" => ~LastAccepted(n)
    BY <1>2 DEF Reported, LastAccepted
  <2>1. CASE n = h[1]
    <3>1. fate'[n] = r /\ ~(n > taken)
      BY <1>2, <2>1
    <3>2. \A j \in hand' : j[1] # n
      BY <1>2, <2>1 DEF HandInv
    <3>3. r = "sent" /\ Units[n] > 0 => LastAccepted(n)
      BY <1>1, <1>2, <2>1 DEF PieceInv, LastAccepted
    <3>4. r = "failed" => ~LastAccepted(n)
      BY <1>1, <1>2, <2>1 DEF PieceInv, LastAccepted
    <3>5. QED  BY <1>1, <3>1, <3>2, <3>3, <3>4
  <2>2. CASE n # h[1]
    BY <1>2, <2>2 DEF Reported, Messages
  <2>3. QED  BY <2>1, <2>2
<1>8. QED  BY <1>3, <1>4, <1>5, <1>6, <1>7

LEMMA OutNextInv == ASSUME Bounds PROVE OutInv /\ [OutNext]_outVars => OutInv'
<1> SUFFICES ASSUME OutInv, [OutNext]_outVars PROVE OutInv'
  OBVIOUS
<1>1. CASE UNCHANGED outVars
  BY <1>1 DEF outVars, OutInv, OutTypeOK, HandInv, PieceInv, InOrder, Reported,
              LastAccepted
<1>2. QED
  BY <1>1, SubmitInv, TakeInv, AcceptInv, ReportInv, RestartInv DEF OutNext

(* The pieces of a message are accepted once and in order, however many    *)
(* messages are in hand; and until the restart the messages are, too.      *)
THEOREM OutboxInOrder == ASSUME Bounds PROVE OutboxSpec => []InOrder
<1>1. OutInit => OutInv
  BY OutInitInv
<1>2. OutInv => InOrder
  BY DEF OutInv
<1>3. QED  BY <1>1, <1>2, OutNextInv, PTL DEF OutboxSpec

(* What is reported of a message is the truth about its last piece, and is *)
(* reported once.                                                          *)
THEOREM OutboxReports == ASSUME Bounds PROVE OutboxSpec => []Reported
<1>1. OutInit => OutInv
  BY OutInitInv
<1>2. OutInv => Reported
  BY DEF OutInv
<1>3. QED  BY <1>1, <1>2, OutNextInv, PTL DEF OutboxSpec
=============================================================================
