-------------------------- MODULE TcpClientProofs --------------------------
(***************************************************************************)
(* Proofs about TcpClient, for any number of descriptors, starts, messages *)
(* and pieces, with or without WIN32.                                      *)
(***************************************************************************)
EXTENDS TcpClient, SequenceTheorems, FiniteSetTheorems, TLAPS

-----------------------------------------------------------------------------
(* The operators of ODSocket keep its types.                               *)
LEMMA CleanWithType ==
    ASSUME SockTypeOK, NEW l \in [Sockets -> LinkStates], CleanWith(l)
    PROVE  link' \in [Sockets -> LinkStates] /\ startups' \in Nat
BY Win32Assumption DEF SockTypeOK, CleanWith, LinkStates

LEMMA CloseType ==
    ASSUME SockTypeOK, Close
    PROVE  link' \in [Sockets -> LinkStates] /\ startups' \in Nat
<1>1. [d \in Sockets |-> IF d = m_sock THEN "closed" ELSE link[d]]
         \in [Sockets -> LinkStates]
  BY DEF SockTypeOK, LinkStates
<1>2. QED  BY <1>1, CleanWithType DEF Close

LEMMA CreateType ==
    ASSUME SockTypeOK, CreateOk \/ CreateFails
    PROVE  SockTypeOK'
BY Win32Assumption DEF SockTypeOK, CreateOk, CreateFails, LinkStates

LEMMA ConnectType ==
    ASSUME SockTypeOK, ConnectOk \/ ConnectFails
    PROVE  SockTypeOK'
<1>1. CASE ConnectOk
  BY <1>1 DEF SockTypeOK, ConnectOk, LinkStates
<1>2. CASE ConnectRefused
  BY <1>2 DEF SockTypeOK, ConnectRefused, sockVars
<1>3. CASE ConnectUnusable
  BY <1>3, CloseType DEF SockTypeOK, ConnectUnusable
<1>4. QED  BY <1>1, <1>2, <1>3 DEF ConnectFails

LEMMA CheckType ==
    ASSUME SockTypeOK, CheckHolds \/ CheckFails
    PROVE  SockTypeOK'
<1>1. CASE UNCHANGED sockVars
  BY <1>1 DEF SockTypeOK, sockVars
<1>2. CASE Close /\ UNCHANGED m_sock
  BY <1>2, CloseType DEF SockTypeOK
<1>3. CASE Clean /\ UNCHANGED m_sock
  BY <1>3, CleanWithType DEF SockTypeOK, Clean
<1>4. QED  BY <1>1, <1>2, <1>3 DEF CheckHolds, CheckFails

LEMMA NetworkType ==
    ASSUME SockTypeOK, PeerCloses \/ LinkBreaks
    PROVE  SockTypeOK'
BY DEF SockTypeOK, PeerCloses, LinkBreaks, LinkStates

-----------------------------------------------------------------------------
(* Two facts keep the types: a position outside "idle" belongs to a start  *)
(* within the bound, and a thread in Send() holds a pocket.                *)
TypeInv == /\ TypeOK
           /\ apc # "idle" => starts < MaxStarts
           /\ \A g \in Gens : spc[g] = "send" => pk[g] \in Msgs

LEMMA AppType == ASSUME TypeInv, App PROVE TypeInv'
<1> USE BoundsAssumption DEF TypeInv, TypeOK
<1>1. CASE Start
  BY <1>1 DEF Start, sockVars, sendVars, logVars, SockTypeOK
<1>2. CASE StartCreate
  <2>1. SockTypeOK'
    BY <1>2, CreateType DEF StartCreate
  <2>2. QED  BY <1>2, <2>1 DEF StartCreate, sendVars, logVars
<1>3. CASE StartConnect
  <2>1. SockTypeOK'
    BY <1>3, ConnectType DEF StartConnect
  <2>2. QED  BY <1>3, <2>1 DEF StartConnect, sendVars, logVars
<1>4. CASE Spawn
  <2>1. starts' \in 0 .. MaxStarts /\ apc' = "idle"
    BY <1>4 DEF Spawn
  <2>2. rpc' \in [Gens -> RecvStates] /\ spc' \in [Gens -> SendStates]
    BY <1>4 DEF Spawn, RecvStates, SendStates
  <2>3. \A g \in Gens : spc'[g] = "send" => pk'[g] \in Msgs
    BY <1>4 DEF Spawn
  <2>4. QED
    BY <1>4, <2>1, <2>2, <2>3 DEF Spawn, sockVars, logVars, SockTypeOK
<1>5. CASE Stop
  BY <1>5 DEF Stop, sockVars, appVars, sendVars, logVars, SockTypeOK
<1>6. CASE Push
  <2>1. pushed + 1 \in Msgs /\ pushed' = pushed + 1
    BY <1>6 DEF Push, Msgs
  <2>2. m_sendQueue' \in Seq(Msgs)
    BY <1>6, <2>1 DEF Push
  <2>3. QED
    BY <1>6, <2>1, <2>2
       DEF Push, Msgs, sockVars, appVars, sendVars, logVars, SockTypeOK
<1>7. QED  BY <1>1, <1>2, <1>3, <1>4, <1>5, <1>6 DEF App

LEMMA SendGotoType ==
    ASSUME TypeInv, NEW g \in Gens, NEW label \in SendStates,
           SendGoto(g, label)
    PROVE  /\ SockTypeOK'
           /\ (m_isRuning \in BOOLEAN)' /\ (pushed \in 0 .. MaxPush)'
           /\ (spc \in [Gens -> SendStates])' /\ (rpc \in [Gens -> RecvStates])'
           /\ (apc \in {"idle", "create", "connect", "spawn"})'
           /\ (starts \in 0 .. MaxStarts)' /\ (overlap \in BOOLEAN)'
           /\ (apc # "idle" => starts < MaxStarts)'
           /\ spc' = [spc EXCEPT ![g] = label]
BY DEF TypeInv, TypeOK, SendGoto, sockVars, appVars, SockTypeOK

(* The pieces of a message that go out at once are a sequence of pieces.   *)
LEMMA PiecesType ==
    ASSUME NEW m \in Msgs, NEW c \in Nat, NEW k \in Nat
    PROVE  Pieces(m, c, k) \in Seq(Msgs \X Nat)
BY DEF Pieces

LEMMA SenderType ==
    ASSUME TypeInv, NEW g \in Gens, Sender(g)
    PROVE  TypeInv'
<1> USE DEF TypeInv, TypeOK
<1>1. CASE SendLoop(g) \/ SendSize(g) \/ SendPullNull(g) \/ SendKilled(g)
  <2>1. PICK label \in SendStates \ {"send"} : SendGoto(g, label)
    BY <1>1 DEF SendLoop, SendSize, SendPullNull, SendKilled, SendStates
  <2>2. QED
    BY <1>1, <2>1, SendGotoType
       DEF SendLoop, SendSize, SendPullNull, SendKilled, logVars
<1>2. CASE SendPull(g)
  <2>1. SendGoto(g, "send") /\ "send" \in SendStates
    BY <1>2 DEF SendPull, SendStates
  <2>2. Head(m_sendQueue) \in Msgs /\ m_sendQueue' \in Seq(Msgs)
    BY <1>2 DEF SendPull
  <2>3. QED  BY <1>2, <2>1, <2>2, SendGotoType DEF SendPull, logVars
<1>3. CASE SendSome(g)
  <2>1. SendGoto(g, "send") /\ "send" \in SendStates /\ pk[g] \in Msgs
    BY <1>3 DEF SendSome, SendStates
  <2>2. PICK k \in 1 .. (Units[pk[g]] - count[g]) :
           /\ count' = [count EXCEPT ![g] = @ + k]
           /\ wire' = wire \o Pieces(pk[g], count[g], k)
    BY <1>3 DEF SendSome
  <2>3. k \in Nat /\ count[g] \in Nat
    BY <2>1, <2>2, UnitsAssumption
  <2>4. wire' \in Seq(Msgs \X Nat)
    BY <2>1, <2>2, <2>3, PiecesType, ConcatProperties
  <2>5. QED  BY <1>3, <2>1, <2>2, <2>3, <2>4, SendGotoType DEF SendSome
<1>4. CASE SendAll(g) \/ SendGivesUp(g)
  <2>1. PICK r \in {"sent", "failed"} : SendReturn(g, r)
    BY <1>4 DEF SendAll, SendGivesUp
  <2>2. SendGoto(g, "loop") /\ "loop" \in SendStates /\ pk[g] \in Msgs
    BY <1>4, <2>1 DEF SendAll, SendGivesUp, SendReturn, SendStates
  <2>3. QED  BY <2>1, <2>2, SendGotoType DEF SendReturn
<1>5. QED  BY <1>1, <1>2, <1>3, <1>4 DEF Sender

LEMMA RecvGotoType ==
    ASSUME TypeInv, SockTypeOK', NEW g \in Gens, NEW from,
           NEW label \in RecvStates, RecvGoto(g, from, label)
    PROVE  TypeInv'
BY DEF TypeInv, TypeOK, RecvGoto, appVars, sendVars, logVars

LEMMA ReceiverType == ASSUME TypeInv, NEW g \in Gens, Receiver(g) PROVE TypeInv'
<1> USE DEF RecvStates
<1>1. SockTypeOK
  BY DEF TypeInv, TypeOK
<1>2. UNCHANGED sockVars => SockTypeOK'
  BY <1>1 DEF SockTypeOK, sockVars
<1>3. CASE RecvLoop(g)
  BY <1>2, <1>3, RecvGotoType DEF RecvLoop
<1>4. CASE RecvCheck(g)
  BY <1>1, <1>4, CheckType, RecvGotoType DEF RecvCheck
<1>5. CASE RecvCreate(g)
  BY <1>1, <1>5, CreateType, RecvGotoType DEF RecvCreate
<1>6. CASE RecvConnect(g)
  BY <1>1, <1>6, ConnectType, RecvGotoType DEF RecvConnect
<1>7. CASE RecvRead(g)
  BY <1>2, <1>7, RecvGotoType DEF RecvRead
<1>8. CASE RecvRest(g)
  BY <1>2, <1>8, RecvGotoType DEF RecvRest
<1>9. QED  BY <1>3, <1>4, <1>5, <1>6, <1>7, <1>8 DEF Receiver

LEMMA InitType == Init => TypeInv
<1> SUFFICES ASSUME Init PROVE TypeInv
  OBVIOUS
<1>1. SockTypeOK
  BY DEF Init, SockInit, SockTypeOK, LinkStates
<1>2. /\ starts \in 0 .. MaxStarts /\ pushed \in 0 .. MaxPush
      /\ m_sendQueue \in Seq(Msgs) /\ wire \in Seq(Msgs \X Nat)
  BY BoundsAssumption DEF Init
<1>3. TypeOK
  BY <1>1, <1>2 DEF Init, TypeOK, SendStates, RecvStates
<1>4. QED  BY <1>3 DEF TypeInv, Init

LEMMA NextType == TypeInv /\ [Next]_vars => TypeInv'
<1> SUFFICES ASSUME TypeInv, [Next]_vars PROVE TypeInv'
  OBVIOUS
<1>1. CASE Network
  <2>1. SockTypeOK'
    BY <1>1, NetworkType DEF Network, TypeInv, TypeOK
  <2>2. QED
    BY <1>1, <2>1 DEF Network, TypeInv, TypeOK, appVars, sendVars, logVars
<1>2. CASE UNCHANGED vars
  BY <1>2 DEF vars, sockVars, appVars, sendVars, logVars, TypeInv, TypeOK,
              SockTypeOK
<1>3. QED  BY <1>1, <1>2, AppType, SenderType, ReceiverType DEF Next

(* Every variable keeps its type: positions of threads, the queue and the  *)
(* wire hold messages only, and the count of WSAStartup calls that         *)
(* Connect(), Check() and Close() maintain never drops below zero.         *)
THEOREM TypeCorrect == Spec => []TypeOK
<1>1. TypeInv => TypeOK
  BY DEF TypeInv
<1>2. QED  BY <1>1, InitType, NextType, PTL DEF Spec

-----------------------------------------------------------------------------
(* As long as no tcp_start() has come over living threads, at most one     *)
(* sender lives, none while tcp_start() runs, and a sender about to pull   *)
(* finds the queue as getSize() saw it: only a sender takes from it.       *)
OneSender ==
    ~overlap =>
       /\ \A g, h \in Gens : SendAlive(g) /\ SendAlive(h) => g = h
       /\ apc # "idle" => \A g \in Gens : ~SendAlive(g)
       /\ \A g \in Gens : spc[g] = "pull" => m_sendQueue # <<>>
       /\ \A g \in Gens : spc[g] # "null"

PullInv == TypeInv /\ OneSender

LEMMA AppPull == ASSUME PullInv, App PROVE OneSender'
<1> USE DEF PullInv, OneSender, SendAlive
<1>1. CASE Start
  BY <1>1 DEF Start, sendVars
<1>2. CASE StartCreate \/ StartConnect
  BY <1>2 DEF StartCreate, StartConnect, sendVars
<1>3. CASE Spawn
  BY <1>3 DEF Spawn, TypeInv, TypeOK
<1>4. CASE Stop
  BY <1>4 DEF Stop, appVars, sendVars
<1>5. CASE Push
  <2>1. m_sendQueue' # <<>>
    <3>1. m_sendQueue \in Seq(Msgs) /\ m_sendQueue' = Append(m_sendQueue, pushed + 1)
      BY <1>5 DEF Push, TypeInv, TypeOK
    <3>2. Len(m_sendQueue') = Len(m_sendQueue) + 1 /\ Len(m_sendQueue) \in Nat
      BY <3>1
    <3>3. QED  BY <3>2
  <2>2. QED  BY <1>5, <2>1 DEF Push, appVars, sendVars
<1>6. QED  BY <1>1, <1>2, <1>3, <1>4, <1>5 DEF App

(* A step of sender g that keeps it alive, or ends it, leaves g the only   *)
(* one; what remains is the queue when it goes to "pull".                  *)
LEMMA SendGotoPull ==
    ASSUME PullInv, NEW g \in Gens, SendAlive(g),
           NEW label \in SendStates \ {"none"}, SendGoto(g, label),
           label = "pull" => m_sendQueue' # <<>>,
           label = "null" => overlap
    PROVE  OneSender'
BY DEF PullInv, OneSender, SendAlive, SendGoto, TypeInv, TypeOK, appVars

LEMMA SenderPull == ASSUME PullInv, NEW g \in Gens, Sender(g) PROVE OneSender'
<1> USE DEF SendAlive, SendStates
<1>1. CASE SendLoop(g)
  BY <1>1, SendGotoPull DEF SendLoop
<1>2. CASE SendSize(g)
  BY <1>2, SendGotoPull DEF SendSize
<1>3. CASE SendPull(g)
  BY <1>3, SendGotoPull DEF SendPull
<1>4. CASE SendPullNull(g)
  <2>1. overlap
    BY <1>4 DEF SendPullNull, PullInv, OneSender, TypeInv, TypeOK
  <2>2. QED  BY <1>4, <2>1, SendGotoPull DEF SendPullNull
<1>5. CASE SendSome(g)
  BY <1>5, SendGotoPull DEF SendSome
<1>6. CASE SendAll(g) \/ SendGivesUp(g)
  BY <1>6, SendGotoPull DEF SendAll, SendGivesUp, SendReturn
<1>7. CASE SendKilled(g)
  BY <1>7, SendGotoPull DEF SendKilled
<1>8. QED  BY <1>1, <1>2, <1>3, <1>4, <1>5, <1>6, <1>7 DEF Sender

LEMMA NextPull == PullInv /\ [Next]_vars => PullInv'
<1> SUFFICES ASSUME PullInv, [Next]_vars PROVE PullInv'
  OBVIOUS
<1>1. SUFFICES OneSender'
  BY NextType DEF PullInv
<1>2. UNCHANGED <<m_sendQueue, apc, overlap, spc>> => OneSender'
  BY DEF PullInv, OneSender, SendAlive
<1>3. ASSUME NEW g \in Gens, Receiver(g) PROVE OneSender'
  <2>1. \E from, label \in RecvStates : RecvGoto(g, from, label)
    BY <1>3 DEF Receiver, RecvLoop, RecvCheck, RecvCreate, RecvConnect,
                RecvRead, RecvRest, RecvStates
  <2>2. QED  BY <1>2, <2>1 DEF RecvGoto, appVars, sendVars
<1>4. CASE Network
  BY <1>2, <1>4 DEF Network, appVars, sendVars
<1>5. CASE UNCHANGED vars
  BY <1>2, <1>5 DEF vars, appVars, sendVars
<1>6. QED  BY <1>3, <1>4, <1>5, AppPull, SenderPull DEF Next

(* sendFunc() tests getSize() and pulls in two steps without a lock; it is *)
(* handed a null pocket only if tcp_start() was called over living         *)
(* threads, whatever the application, the network and th_recv do between   *)
(* the two.                                                                *)
THEOREM NeverNull == Spec => []SendNeverNull
<1>1. Init => PullInv
  BY InitType DEF Init, PullInv, OneSender, SendAlive
<1>2. PullInv => SendNeverNull
  BY DEF PullInv, OneSender, SendNeverNull
<1>3. QED  BY <1>1, <1>2, NextPull, PTL DEF Spec

-----------------------------------------------------------------------------
(* The queue holds the messages that were pushed last, in their order, and *)
(* a thread holds one that was taken from it, which no other thread holds, *)
(* and only between its pull and the end of Send().                        *)
QueueOrder ==
    /\ Len(m_sendQueue) <= pushed
    /\ \A i \in 1 .. Len(m_sendQueue) :
          m_sendQueue[i] = pushed - Len(m_sendQueue) + i

Held ==
    /\ \A g \in Gens : pk[g] # NoMsg => /\ spc[g] \in {"send", "killed"}
                                        /\ pk[g] <= pushed - Len(m_sendQueue)
    /\ \A g, h \in Gens : pk[g] # NoMsg /\ pk[g] = pk[h] => g = h

(* A thread that was not spawned has no position.                          *)
Unspawned == \A g \in Gens : g > starts => spc[g] = "none"

HoldInv == PullInv /\ QueueOrder /\ Held /\ Unspawned

LEMMA HoldStutter ==
    ASSUME HoldInv, UNCHANGED <<m_sendQueue, pushed, spc, pk>>
    PROVE  QueueOrder' /\ Held'
BY DEF HoldInv, QueueOrder, Held

LEMMA PushHold == ASSUME HoldInv, Push PROVE QueueOrder' /\ Held'
<1> DEFINE q == m_sendQueue
           L == Len(m_sendQueue)
<1>1. /\ q \in Seq(Msgs) /\ L \in Nat /\ pushed \in Nat /\ L <= pushed
      /\ \A i \in 1 .. L : q[i] = pushed - L + i
  BY BoundsAssumption DEF HoldInv, PullInv, TypeInv, TypeOK, QueueOrder
<1>2. pushed' = pushed + 1 /\ m_sendQueue' = Append(q, pushed + 1)
      /\ UNCHANGED <<spc, pk>>
  BY DEF Push, sendVars
<1>3. /\ Len(m_sendQueue') = L + 1 /\ m_sendQueue'[L + 1] = pushed + 1
      /\ \A i \in 1 .. L : m_sendQueue'[i] = q[i]
  BY <1>1, <1>2
<1> HIDE DEF q, L
<1>4. \A i \in 1 .. (L + 1) : m_sendQueue'[i] = (pushed + 1) - (L + 1) + i
  <2> TAKE i \in 1 .. (L + 1)
  <2>1. CASE i = L + 1
    BY <1>1, <1>3, <2>1
  <2>2. CASE i \in 1 .. L
    BY <1>1, <1>3, <2>2
  <2>3. QED  BY <1>1, <2>1, <2>2
<1>5. QueueOrder'
  <2> SUFFICES ASSUME NEW i \in 1 .. Len(m_sendQueue')
               PROVE  m_sendQueue'[i] = pushed' - Len(m_sendQueue') + i
    BY <1>1, <1>2, <1>3 DEF QueueOrder
  <2>1. i \in 1 .. (L + 1)
    BY <1>3
  <2>2. m_sendQueue'[i] = (pushed + 1) - (L + 1) + i
    BY <1>4, <2>1
  <2>3. pushed' = pushed + 1 /\ Len(m_sendQueue') = L + 1
    BY <1>2, <1>3
  <2>4. QED  BY <2>2, <2>3
<1>6. pushed' - Len(m_sendQueue') = pushed - Len(m_sendQueue)
  <2>1. pushed' = pushed + 1 /\ Len(m_sendQueue') = L + 1
    BY <1>2, <1>3
  <2>2. (pushed + 1) - (L + 1) = pushed - L
    BY <1>1
  <2>3. QED  BY <2>1, <2>2 DEF L
<1>7. QED  BY <1>2, <1>5, <1>6 DEF HoldInv, Held

(* What a pull takes from the queue, and leaves there.                     *)
LEMMA Pulled ==
    ASSUME HoldInv, NEW g \in Gens, SendPull(g)
    PROVE  /\ Head(m_sendQueue) = pushed - Len(m_sendQueue) + 1
           /\ Len(m_sendQueue) > 0 /\ pushed' = pushed
           /\ Len(m_sendQueue') = Len(m_sendQueue) - 1
           /\ \A i \in 1 .. Len(m_sendQueue') : m_sendQueue'[i] = m_sendQueue[i + 1]
           /\ pk' = [pk EXCEPT ![g] = Head(m_sendQueue)]
           /\ count' = [count EXCEPT ![g] = 0] /\ spc' = [spc EXCEPT ![g] = "send"]
<1>1. m_sendQueue \in Seq(Msgs) /\ m_sendQueue # <<>> /\ m_sendQueue' = Tail(m_sendQueue)
  BY DEF SendPull, HoldInv, PullInv, TypeInv, TypeOK
<1>2. 1 \in 1 .. Len(m_sendQueue) /\ Head(m_sendQueue) = m_sendQueue[1]
  BY <1>1
<1>3. Head(m_sendQueue) = pushed - Len(m_sendQueue) + 1
  BY <1>2 DEF HoldInv, QueueOrder
<1>4. /\ Len(m_sendQueue') = Len(m_sendQueue) - 1
      /\ \A i \in 1 .. Len(m_sendQueue') : m_sendQueue'[i] = m_sendQueue[i + 1]
  BY <1>1
<1>5. Len(m_sendQueue) > 0
  BY <1>1
<1>6. QED  BY <1>3, <1>4, <1>5 DEF SendPull, SendGoto

LEMMA PullHold ==
    ASSUME HoldInv, NEW g \in Gens, SendPull(g)
    PROVE  QueueOrder' /\ Held'
<1> DEFINE L == Len(m_sendQueue)
           new == Head(m_sendQueue)
<1>1. /\ L \in Nat /\ pushed \in Nat /\ L <= pushed /\ L > 0
      /\ new = pushed - L + 1 /\ pushed' = pushed /\ Len(m_sendQueue') = L - 1
  BY Pulled, BoundsAssumption DEF HoldInv, PullInv, TypeInv, TypeOK, QueueOrder
<1>2. QueueOrder'
  <2> SUFFICES ASSUME NEW i \in 1 .. (L - 1)
               PROVE  m_sendQueue'[i] = pushed - (L - 1) + i
    BY <1>1 DEF QueueOrder
  <2>1. m_sendQueue'[i] = m_sendQueue[i + 1] /\ i + 1 \in 1 .. L
    BY <1>1, Pulled
  <2>2. m_sendQueue[i + 1] = pushed - L + (i + 1)
    BY <2>1 DEF HoldInv, QueueOrder
  <2> HIDE DEF L
  <2>3. QED  BY <1>1, <2>1, <2>2
<1>3. \A h \in Gens : pk[h] # NoMsg =>
          pk[h] \in Nat /\ pk[h] <= pushed - L /\ spc[h] \in {"send", "killed"}
  BY DEF HoldInv, Held, PullInv, TypeInv, TypeOK, Msgs
<1>4. /\ pk' = [pk EXCEPT ![g] = new] /\ spc' = [spc EXCEPT ![g] = "send"]
      /\ pk \in [Gens -> Msgs \cup {NoMsg}] /\ spc \in [Gens -> SendStates]
  BY Pulled DEF HoldInv, PullInv, TypeInv, TypeOK
<1> HIDE DEF L, new
<1>5. ASSUME NEW h \in Gens, pk'[h] # NoMsg
      PROVE  spc'[h] \in {"send", "killed"} /\ pk'[h] <= pushed - (L - 1)
  <2>1. CASE h = g
    BY <1>1, <1>4, <2>1
  <2>2. CASE h # g
    BY <1>1, <1>3, <1>4, <1>5, <2>2
  <2>3. QED  BY <2>1, <2>2
<1>6. ASSUME NEW h \in Gens, NEW j \in Gens, pk'[h] # NoMsg, pk'[h] = pk'[j]
      PROVE  h = j
  <2>1. \A n \in Gens : n # g => pk'[n] = pk[n]
    BY <1>4
  <2>2. \A n \in Gens : n # g /\ pk[n] # NoMsg => pk[n] # new
    BY <1>1, <1>3
  <2>3. pk'[g] = new
    BY <1>4
  <2>4. QED  BY <1>6, <2>1, <2>2, <2>3 DEF HoldInv, Held
<1>7. QED  BY <1>1, <1>2, <1>5, <1>6 DEF Held, L

LEMMA SenderHold ==
    ASSUME HoldInv, NEW g \in Gens, Sender(g)
    PROVE  QueueOrder' /\ Held'
<1>1. CASE SendPull(g)
  BY <1>1, PullHold
<1>2. ASSUME NEW label \in {"loop", "size", "pull", "done", "null"},
             SendGoto(g, label), UNCHANGED <<m_sendQueue, pk>>, spc[g] # "send",
             spc[g] # "killed"
      PROVE  QueueOrder' /\ Held'
  BY <1>2 DEF SendGoto, HoldInv, QueueOrder, Held
<1>3. CASE SendLoop(g) \/ SendSize(g) \/ SendPullNull(g)
  BY <1>2, <1>3 DEF SendLoop, SendSize, SendPullNull
<1>4. CASE SendSome(g) \/ SendKilled(g)
  <2>1. PICK label \in {"send", "killed"} : SendGoto(g, label)
    BY <1>4 DEF SendSome, SendKilled
  <2>2. UNCHANGED <<m_sendQueue, pushed, pk>> /\ spc' = [spc EXCEPT ![g] = label]
    BY <1>4, <2>1 DEF SendSome, SendKilled, SendGoto
  <2>3. \A h \in Gens : pk[h] # NoMsg => spc'[h] \in {"send", "killed"}
    BY <2>2 DEF HoldInv, Held, PullInv, TypeInv, TypeOK
  <2>4. QED  BY <2>2, <2>3 DEF HoldInv, QueueOrder, Held
<1>5. CASE SendAll(g) \/ SendGivesUp(g)
  <2>1. /\ UNCHANGED <<m_sendQueue, pushed>> /\ pk' = [pk EXCEPT ![g] = NoMsg]
        /\ spc' = [spc EXCEPT ![g] = "loop"]
    BY <1>5 DEF SendAll, SendGivesUp, SendReturn, SendGoto
  <2>2. pk'[g] = NoMsg /\ \A h \in Gens : h # g => pk'[h] = pk[h] /\ spc'[h] = spc[h]
    BY <2>1 DEF HoldInv, PullInv, TypeInv, TypeOK
  <2>3. QueueOrder'
    BY <2>1 DEF HoldInv, QueueOrder
  <2>4. QED  BY <2>1, <2>2, <2>3 DEF HoldInv, Held
<1>6. QED  BY <1>1, <1>3, <1>4, <1>5 DEF Sender

LEMMA NextUnspawned == HoldInv /\ [Next]_vars => Unspawned'
<1> SUFFICES ASSUME HoldInv, [Next]_vars, NEW h \in Gens, h > starts',
                    h > starts => spc[h] = "none", starts \in Nat
             PROVE  spc'[h] = "none"
  BY BoundsAssumption DEF HoldInv, Unspawned, PullInv, TypeInv, TypeOK
<1>1. CASE UNCHANGED <<starts, spc>>
  BY <1>1
<1>2. CASE App
  <2>1. CASE Spawn
    BY <2>1 DEF Spawn, HoldInv, PullInv, TypeInv, TypeOK, Gens
  <2>2. CASE ~Spawn
    BY <1>1, <1>2, <2>2 DEF App, Start, StartCreate, StartConnect, Stop, Push,
                            appVars, sendVars
  <2>3. QED  BY <2>1, <2>2
<1>3. ASSUME NEW g \in Gens, Sender(g) PROVE spc'[h] = "none"
  <2>1. starts' = starts /\ spc[g] # "none" /\ spc' = [spc EXCEPT ![g] = spc'[g]]
    BY <1>3 DEF Sender, SendLoop, SendSize, SendPull, SendPullNull, SendSome, SendAll,
                SendGivesUp, SendReturn, SendKilled, SendGoto, appVars,
                HoldInv, PullInv, TypeInv, TypeOK
  <2>2. QED  BY <2>1 DEF HoldInv, PullInv, TypeInv, TypeOK
<1>4. ASSUME NEW g \in Gens, Receiver(g) PROVE spc'[h] = "none"
  <2>1. \E from, label \in RecvStates : RecvGoto(g, from, label)
    BY <1>4 DEF Receiver, RecvLoop, RecvCheck, RecvCreate, RecvConnect,
                RecvRead, RecvRest, RecvStates
  <2>2. QED  BY <1>1, <2>1 DEF RecvGoto, appVars, sendVars
<1>5. CASE Network \/ UNCHANGED vars
  BY <1>1, <1>5 DEF Network, vars, appVars, sendVars
<1>6. QED  BY <1>2, <1>3, <1>4, <1>5 DEF Next

LEMMA NextHold == HoldInv /\ [Next]_vars => HoldInv'
<1> SUFFICES ASSUME HoldInv, [Next]_vars PROVE HoldInv'
  OBVIOUS
<1>1. SUFFICES QueueOrder' /\ Held'
  BY NextPull, NextUnspawned DEF HoldInv
<1>2. CASE Start \/ StartCreate \/ StartConnect \/ Stop
  BY <1>2, HoldStutter DEF Start, StartCreate, StartConnect, Stop, sendVars
<1>3. CASE Spawn
  <2>1. starts \in Nat /\ spc' = [spc EXCEPT ![starts + 1] = "loop"]
        /\ spc \in [Gens -> SendStates]
    BY <1>3, BoundsAssumption DEF Spawn, HoldInv, PullInv, TypeInv, TypeOK
  <2>2. \A h \in Gens : pk[h] # NoMsg => spc'[h] = spc[h]
    <3>1. starts + 1 > starts
      BY <2>1
    <3>2. QED  BY <2>1, <3>1 DEF HoldInv, Held, Unspawned
  <2>3. QED  BY <1>3, <2>2 DEF Spawn, HoldInv, QueueOrder, Held
<1>4. ASSUME NEW g \in Gens, Receiver(g) PROVE QueueOrder' /\ Held'
  <2>1. \E from, label \in RecvStates : RecvGoto(g, from, label)
    BY <1>4 DEF Receiver, RecvLoop, RecvCheck, RecvCreate, RecvConnect,
                RecvRead, RecvRest, RecvStates
  <2>2. QED  BY <2>1, HoldStutter DEF RecvGoto, sendVars
<1>5. CASE Network \/ UNCHANGED vars
  BY <1>5, HoldStutter DEF Network, vars, sendVars
<1>6. QED  BY <1>2, <1>3, <1>4, <1>5, PushHold, SenderHold DEF Next, App

LEMMA InitHold == Init => HoldInv
<1> SUFFICES ASSUME Init PROVE HoldInv
  OBVIOUS
<1>1. PullInv
  BY InitType DEF Init, PullInv, OneSender, SendAlive
<1>2. QueueOrder /\ Held /\ Unspawned
  BY DEF Init, QueueOrder, Held, Unspawned
<1>3. QED  BY <1>1, <1>2 DEF HoldInv

-----------------------------------------------------------------------------
(* The socket within the first session.  One thread at a time works on it: *)
(* the application until it has spawned the threads, th_recv then.  Phase  *)
(* is where that thread is, and a client that was never started is as one  *)
(* about to create its socket.                                             *)
Phase == IF starts = 0 THEN IF apc = "idle" THEN "create" ELSE apc ELSE rpc[1]

Live(d) == link[d] \in {"est", "fin"}

(* Only m_sock is ever connected, and nothing is while a socket is created *)
(* and connected.                                                          *)
Connected(ph) ==
    /\ \A d \in Sockets : Live(d) => d = m_sock
    /\ ph \in {"create", "connect"} => \A d \in Sockets : ~Live(d)

(* On Windows only m_sock is open, while WSAStartup is undone; between the *)
(* two halves of Connect() it may be undone with no socket open.           *)
Balanced(ph) ==
    /\ startups \in {0, 1}
    /\ \A d \in Sockets : link[d] # "closed" => d = m_sock /\ startups = 1
    /\ ph = "create" => startups = 0
    /\ ph = "connect" => startups = 1
    /\ startups = 1 /\ ph # "connect" => m_sock \in Sockets /\ link[m_sock] # "closed"

SockInv(ph) == Connected(ph) /\ (Win32 => Balanced(ph))

LiveKept == \A d \in Sockets : link[d] = "est" => link'[d] \in {"est", "fin", "err"}

LEMMA CreateSock ==
    ASSUME SockTypeOK, SockInv("create"), CreateOk \/ CreateFails
    PROVE  SockInv("connect")' /\ LiveKept
<1> USE DEF SockTypeOK, SockInv, CreateOk, CreateFails
<1>1. Connected("connect")' /\ LiveKept
  BY DEF Connected, Live, LiveKept
<1>2. Win32 => Balanced("connect")'
  BY DEF Balanced
<1>3. QED  BY <1>1, <1>2

LEMMA ConnectSock ==
    ASSUME SockTypeOK, SockInv("connect"), ConnectOk \/ ConnectFails
    PROVE  SockInv("read")' /\ LiveKept
<1> USE DEF SockTypeOK, SockInv
<1>1. CASE ConnectOk
  <2>1. Connected("read")' /\ LiveKept
    BY <1>1 DEF ConnectOk, LinkIn, Connected, Live, LiveKept
  <2>2. Win32 => Balanced("read")'
    BY <1>1 DEF ConnectOk, LinkIn, Balanced
  <2>3. QED  BY <2>1, <2>2
<1>2. CASE ConnectRefused
  <2>1. Connected("read")' /\ LiveKept
    BY <1>2 DEF ConnectRefused, sockVars, Connected, Live, LiveKept
  <2>2. Win32 => Balanced("read")'
    BY <1>2 DEF ConnectRefused, sockVars, LinkIn, Balanced
  <2>3. QED  BY <2>1, <2>2
<1>3. CASE ConnectUnusable
  <2>1. /\ Win32 /\ startups = 1 /\ m_sock' = m_sock /\ startups' = 0
        /\ link' = [d \in Sockets |-> "closed"]
    BY <1>3 DEF ConnectUnusable, Close, CleanWith, Balanced
  <2>2. Connected("read")' /\ LiveKept
    BY <2>1 DEF Connected, Live, LiveKept
  <2>3. Balanced("read")'
    BY <2>1 DEF Balanced
  <2>4. QED  BY <2>2, <2>3
<1>4. QED  BY <1>1, <1>2, <1>3 DEF ConnectFails

LEMMA CheckSock ==
    ASSUME SockTypeOK, SockInv("check"), CheckFails
    PROVE  SockInv("create")' /\ LiveKept
<1> USE DEF SockTypeOK, SockInv
<1>0. INVALID_SOCKET \notin Sockets
  BY SocketsAssumption DEF INVALID_SOCKET
<1>1. CASE m_sock = INVALID_SOCKET /\ UNCHANGED sockVars
  <2>1. Connected("create")' /\ LiveKept
    BY <1>0, <1>1 DEF sockVars, Connected, Live, LiveKept
  <2>2. Win32 => Balanced("create")'
    BY <1>0, <1>1 DEF sockVars, Balanced
  <2>3. QED  BY <2>1, <2>2
<1>2. CASE LinkIn({"fin"}) /\ Close /\ UNCHANGED m_sock
  <2>1. /\ \A d \in Sockets : link'[d] = "closed" \/ (d # m_sock /\ link'[d] = link[d])
        /\ m_sock \in Sockets /\ link[m_sock] = "fin" /\ m_sock' = m_sock
    BY <1>2 DEF Close, CleanWith, LinkIn
  <2>2. Connected("create")' /\ LiveKept
    BY <2>1 DEF Connected, Live, LiveKept
  <2>3. Win32 => startups' = 0 /\ startups = 1
    BY <1>2 DEF Close, CleanWith, LinkIn, Balanced
  <2>4. Win32 => Balanced("create")'
    BY <2>1, <2>3 DEF Balanced
  <2>5. QED  BY <2>2, <2>4
<1>3. CASE LinkIn({"closed", "new", "err"}) /\ Clean /\ UNCHANGED m_sock
  <2>1. /\ m_sock \in Sockets /\ link[m_sock] \in {"closed", "new", "err"}
        /\ m_sock' = m_sock
    BY <1>3 DEF LinkIn
  <2>2. \A d \in Sockets : ~Live(d)
    BY <2>1 DEF Connected, Live
  <2>3. \A d \in Sockets : link'[d] = "closed" \/ link'[d] = link[d]
    BY <1>3 DEF Clean, CleanWith
  <2>4. Connected("create")' /\ LiveKept
    BY <2>2, <2>3 DEF Connected, Live, LiveKept
  <2>5. Win32 => startups' = 0 /\ \A d \in Sockets : link'[d] = "closed"
    BY <1>3, <2>1 DEF Clean, CleanWith, Balanced
  <2>6. Win32 => Balanced("create")'
    BY <2>5 DEF Balanced
  <2>7. QED  BY <2>4, <2>6
<1>4. QED  BY <1>1, <1>2, <1>3 DEF CheckFails

LEMMA NetworkSock ==
    ASSUME SockTypeOK, NEW ph, SockInv(ph), PeerCloses \/ LinkBreaks
    PROVE  SockInv(ph)' /\ LiveKept
<1>1. /\ m_sock' = m_sock /\ startups' = startups
      /\ \A d \in Sockets :
            /\ link'[d] = link[d] \/ (Live(d) /\ link'[d] \in {"fin", "err"})
            /\ link[d] = "est" => link'[d] \in {"est", "fin", "err"}
  BY DEF SockTypeOK, PeerCloses, LinkBreaks, Live
<1>2. Connected(ph)' /\ LiveKept
  BY <1>1 DEF SockInv, Connected, Live, LiveKept
<1>3. Win32 => Balanced(ph)'
  BY <1>1 DEF SockInv, Balanced, Live
<1>4. QED  BY <1>2, <1>3 DEF SockInv

(* The socket is left alone by a step that starts and ends outside the two *)
(* halves of Connect(), or stays where it is.                              *)
LEMMA SockKept ==
    ASSUME NEW ph, NEW ph2, SockInv(ph), UNCHANGED sockVars,
           \/ ph2 = ph
           \/ ph \notin {"create", "connect"} /\ ph2 \notin {"create", "connect"}
    PROVE  SockInv(ph2)' /\ LiveKept
<1>1. Connected(ph2)' /\ LiveKept
  BY DEF sockVars, SockInv, Connected, Live, LiveKept
<1>2. Win32 => Balanced(ph2)'
  BY DEF sockVars, SockInv, Balanced
<1>3. QED  BY <1>1, <1>2 DEF SockInv

RecvUnspawned == \A g \in Gens : g > starts => rpc[g] = "none"

SessionInv == /\ TypeInv /\ RecvUnspawned
              /\ FirstSession => SockInv(Phase)

LEMMA NextRecvUnspawned ==
    ASSUME TypeInv, RecvUnspawned, [Next]_vars
    PROVE  RecvUnspawned'
<1> SUFFICES ASSUME NEW h \in Gens, h > starts',
                    h > starts => rpc[h] = "none", starts \in Nat
             PROVE  rpc'[h] = "none"
  BY BoundsAssumption DEF RecvUnspawned, TypeInv, TypeOK
<1>1. CASE UNCHANGED <<starts, rpc>>
  BY <1>1
<1>2. CASE Spawn
  BY <1>2 DEF Spawn, TypeInv, TypeOK, Gens
<1>3. ASSUME NEW g \in Gens, Receiver(g) PROVE rpc'[h] = "none"
  <2>1. PICK from \in RecvStates \ {"none"}, label \in RecvStates :
           RecvGoto(g, from, label)
    BY <1>3 DEF Receiver, RecvLoop, RecvCheck, RecvCreate, RecvConnect,
                RecvRead, RecvRest, RecvStates
  <2>2. starts' = starts /\ rpc[g] # "none" /\ rpc' = [rpc EXCEPT ![g] = label]
    BY <2>1 DEF RecvGoto, appVars
  <2>3. QED  BY <2>2 DEF TypeInv, TypeOK
<1>4. ASSUME NEW g \in Gens, Sender(g) PROVE UNCHANGED <<starts, rpc>>
  BY <1>4 DEF Sender, SendLoop, SendSize, SendPull, SendPullNull, SendSome, SendAll,
              SendGivesUp, SendReturn, SendKilled, SendGoto, appVars
<1>5. CASE Start \/ StartCreate \/ StartConnect \/ Stop \/ Push \/ Network
           \/ UNCHANGED vars
  BY <1>1, <1>5 DEF Start, StartCreate, StartConnect, Stop, Push, Network, vars, appVars
<1>6. QED  BY <1>1, <1>2, <1>3, <1>4, <1>5 DEF Next, App

(* In the first session the thread that works on the socket is the one     *)
(* that Phase follows.                                                     *)
LEMMA FirstActor ==
    ASSUME SessionInv, FirstSession
    PROVE  /\ starts \in {0, 1} /\ (apc # "idle" => starts = 0)
           /\ \A g \in Gens : rpc[g] # "none" => g = 1 /\ starts = 1
<1>1. starts \in Nat
  BY BoundsAssumption DEF SessionInv, TypeInv, TypeOK
<1>2. starts \in {0, 1} /\ (apc # "idle" => starts = 0)
  BY <1>1 DEF FirstSession
<1>3. QED  BY <1>1, <1>2 DEF SessionInv, RecvUnspawned, Gens

LEMMA NextSession ==
    SessionInv /\ [Next]_vars =>
       SessionInv' /\ (FirstSession' => LiveKept)
<1> SUFFICES ASSUME SessionInv, [Next]_vars, FirstSession'
             PROVE  SockInv(Phase)' /\ LiveKept
  BY NextType, NextRecvUnspawned DEF SessionInv
<1>1. FirstSession
  <2>1. starts \in Nat /\ starts' \in Nat
    BY NextType, BoundsAssumption DEF SessionInv, TypeInv, TypeOK
  <2>2. CASE UNCHANGED <<starts, apc>>
    BY <2>2 DEF FirstSession
  <2>3. CASE App
    <3>1. CASE Start
      BY <2>1, <3>1 DEF FirstSession, Start
    <3>2. CASE StartCreate \/ StartConnect
      BY <2>1, <3>2 DEF FirstSession, StartCreate, StartConnect
    <3>3. CASE Spawn
      BY <2>1, <3>3 DEF FirstSession, Spawn
    <3>4. CASE Stop \/ Push
      BY <2>2, <3>4 DEF Stop, Push, appVars
    <3>5. QED  BY <2>3, <3>1, <3>2, <3>3, <3>4 DEF App
  <2>4. ASSUME NEW g \in Gens, Sender(g) \/ Receiver(g)
        PROVE  UNCHANGED <<starts, apc>>
    <3>1. CASE Sender(g)
      BY <3>1 DEF Sender, SendLoop, SendSize, SendPull, SendPullNull, SendSome, SendAll,
                  SendGivesUp, SendReturn, SendKilled, SendGoto, appVars
    <3>2. CASE Receiver(g)
      BY <3>2 DEF Receiver, RecvLoop, RecvCheck, RecvCreate, RecvConnect, RecvRead,
                  RecvRest, RecvGoto, appVars
    <3>3. QED  BY <2>4, <3>1, <3>2
  <2>5. QED
    BY <2>2, <2>3, <2>4 DEF Next, Network, vars, appVars
<1>2. SockInv(Phase) /\ SockTypeOK
  BY <1>1 DEF SessionInv, TypeInv, TypeOK
<1>3. /\ starts \in {0, 1} /\ (apc # "idle" => starts = 0)
      /\ \A g \in Gens : rpc[g] # "none" => g = 1 /\ starts = 1
      /\ rpc \in [Gens -> RecvStates]
  BY <1>1, FirstActor DEF SessionInv, TypeInv, TypeOK
<1>4. CASE UNCHANGED <<sockVars, starts, apc, rpc>>
  <2>1. Phase' = Phase
    BY <1>4 DEF Phase
  <2>2. QED  BY <1>2, <1>4, <2>1, SockKept
<1>5. CASE Start
  <2>1. Phase = "create" /\ Phase' = "create" /\ UNCHANGED sockVars
    BY <1>3, <1>5 DEF Start, Phase, FirstSession
  <2>2. QED  BY <1>2, <2>1, SockKept
<1>6. CASE StartCreate
  <2>1. Phase = "create" /\ Phase' = "connect"
    BY <1>3, <1>6 DEF StartCreate, Phase
  <2>2. QED  BY <1>2, <1>6, <2>1, CreateSock DEF StartCreate
<1>7. CASE StartConnect
  <2>1. Phase = "connect" /\ Phase' = "spawn"
    BY <1>3, <1>7 DEF StartConnect, Phase
  <2>2. SockInv("read")' /\ LiveKept
    BY <1>2, <1>7, <2>1, ConnectSock DEF StartConnect
  <2>3. QED  BY <2>1, <2>2 DEF SockInv, Connected, Balanced
<1>8. CASE Spawn
  <2>1. starts = 0 /\ apc = "spawn" /\ starts' = 1 /\ 1 \in Gens
        /\ rpc' = [rpc EXCEPT ![1] = "loop"] /\ UNCHANGED sockVars
    BY <1>3, <1>8, BoundsAssumption DEF Spawn, SessionInv, TypeInv, TypeOK, Gens
  <2>2. Phase = "spawn" /\ Phase' = "loop"
    BY <1>3, <2>1 DEF Phase
  <2>3. QED  BY <1>2, <2>1, <2>2, SockKept
<1>9. ASSUME NEW g \in Gens, Receiver(g) PROVE SockInv(Phase)' /\ LiveKept
  <2>1. ASSUME NEW from \in RecvStates \ {"none"}, NEW label, RecvGoto(g, from, label)
        PROVE  Phase = from /\ Phase' = label
    <3>1. rpc[g] = from /\ rpc' = [rpc EXCEPT ![g] = label] /\ starts' = starts
      BY <2>1 DEF RecvGoto, appVars
    <3>2. g = 1 /\ starts = 1 /\ rpc'[1] = label
      BY <1>3, <3>1
    <3>3. QED  BY <3>1, <3>2 DEF Phase
  <2>2. ASSUME NEW from \in RecvStates \ {"none", "create", "connect"},
               NEW label \in RecvStates \ {"create", "connect"},
               RecvGoto(g, from, label), UNCHANGED sockVars
        PROVE  SockInv(Phase)' /\ LiveKept
    BY <1>2, <2>1, <2>2, SockKept
  <2>3. CASE RecvLoop(g) \/ RecvRead(g) \/ RecvRest(g)
    BY <2>2, <2>3 DEF RecvLoop, RecvRead, RecvRest, RecvStates
  <2>4. CASE RecvGoto(g, "check", "read") /\ CheckHolds
    BY <2>2, <2>4 DEF CheckHolds, RecvStates
  <2>5. CASE RecvGoto(g, "check", "create") /\ CheckFails
    <3>1. Phase = "check" /\ Phase' = "create"
      BY <2>1, <2>5 DEF RecvStates
    <3>2. QED  BY <1>2, <2>5, <3>1, CheckSock
  <2>6. CASE RecvCreate(g)
    <3>1. Phase = "create" /\ Phase' = "connect"
      BY <2>1, <2>6 DEF RecvCreate, RecvStates
    <3>2. QED  BY <1>2, <2>6, <3>1, CreateSock DEF RecvCreate
  <2>7. CASE RecvConnect(g)
    <3>1. Phase = "connect" /\ Phase' = "read"
      BY <2>1, <2>7 DEF RecvConnect, RecvStates
    <3>2. QED  BY <1>2, <2>7, <3>1, ConnectSock DEF RecvConnect
  <2>8. QED  BY <1>9, <2>3, <2>4, <2>5, <2>6, <2>7 DEF Receiver, RecvCheck
<1>10. CASE Network
  <2>1. Phase' = Phase
    BY <1>10 DEF Network, appVars, Phase
  <2>2. QED  BY <1>2, <1>10, <2>1, NetworkSock DEF Network
<1>11. ASSUME NEW g \in Gens, Sender(g) PROVE UNCHANGED <<sockVars, starts, apc, rpc>>
  BY <1>11 DEF Sender, SendLoop, SendSize, SendPull, SendPullNull, SendSome, SendAll,
               SendGivesUp, SendReturn, SendKilled, SendGoto, appVars
<1>12. CASE Stop \/ Push \/ UNCHANGED vars
  BY <1>4, <1>12 DEF Stop, Push, vars, appVars
<1>13. QED
  BY <1>4, <1>5, <1>6, <1>7, <1>8, <1>9, <1>10, <1>11, <1>12 DEF Next, App

LEMMA InitSession == Init => SessionInv
<1> SUFFICES ASSUME Init PROVE SessionInv
  OBVIOUS
<1>1. Phase = "create" /\ startups = 0 /\ \A d \in Sockets : link[d] = "closed"
  BY DEF Init, SockInit, Phase
<1>2. SockInv(Phase)
  BY <1>1 DEF SockInv, Connected, Balanced, Live
<1>3. RecvUnspawned
  BY DEF Init, RecvUnspawned
<1>4. QED  BY <1>2, <1>3, InitType DEF SessionInv

(* On Windows the calls of WSAStartup and WSACleanup balance over every    *)
(* path of Connect(), Check() and Close(), and no socket but m_sock stays  *)
(* open, whatever the network does.                                        *)
THEOREM StartupsBalance == Spec => []OneSocket
<1>1. SessionInv => OneSocket
  BY DEF SessionInv, SockInv, Balanced, OneSocket, OpenSockets
<1>2. QED  BY <1>1, InitSession, NextSession, PTL DEF Spec

(* A socket that the client drops without closing it is never connected.   *)
THEOREM DroppedSocketsAreDead == Spec => []OneConnection
<1>1. SessionInv => OneConnection
  BY DEF SessionInv, SockInv, Connected, Live, OneConnection
<1>2. QED  BY <1>1, InitSession, NextSession, PTL DEF Spec

(* Within the first session no step of the client ends a connection that   *)
(* works.                                                                  *)
THEOREM ClientKeepsItsLink == Spec => LiveLinkKept
<1>1. SessionInv /\ [Next]_vars =>
         [FirstSession' => \A d \in Sockets :
             link[d] = "est" => link'[d] \in {"est", "fin", "err"}]_vars
  BY NextSession DEF LiveKept
<1>2. QED  BY <1>1, InitSession, NextSession, PTL DEF Spec, LiveLinkKept

-----------------------------------------------------------------------------
(* The pockets in the hands of the threads but g, and how those of all     *)
(* change with the pocket of g.                                            *)
Others(g) == {<<pk[j], count[j]>> : j \in {h \in Gens : pk[h] # NoMsg /\ h # g}}

LEMMA HandSplit ==
    ASSUME HoldInv, NEW g \in Gens
    PROVE  /\ pk[g] = NoMsg => Hand = Others(g)
           /\ pk[g] # NoMsg => /\ Hand = Others(g) \cup {<<pk[g], count[g]>>}
                               /\ Others(g) = Hand \ {<<pk[g], count[g]>>}
                               /\ <<pk[g], count[g]>> \in Hand
<1>1. pk[g] = NoMsg => Hand = Others(g)
  BY DEF Hand, Others
<1>2. pk[g] # NoMsg => Hand = Others(g) \cup {<<pk[g], count[g]>>}
  BY DEF Hand, Others
<1>3. pk[g] # NoMsg => <<pk[g], count[g]>> \notin Others(g)
  BY DEF Others, HoldInv, Held
<1>4. QED  BY <1>1, <1>2, <1>3

LEMMA OthersKept ==
    ASSUME HoldInv, NEW g \in Gens, NEW x, NEW y,
           pk' = [pk EXCEPT ![g] = x], count' = [count EXCEPT ![g] = y]
    PROVE  /\ Others(g)' = Others(g)
           /\ x = NoMsg => Hand' = Others(g)
           /\ x # NoMsg => Hand' = Others(g) \cup {<<x, y>>}
<1>1. /\ pk'[g] = x /\ count'[g] = y
      /\ \A h \in Gens : h # g => pk'[h] = pk[h] /\ count'[h] = count[h]
  BY DEF HoldInv, PullInv, TypeInv, TypeOK
<1>2. Others(g)' = Others(g)
  BY <1>1 DEF Others
<1>3. x = NoMsg => Hand' = Others(g)'
  BY <1>1 DEF Others, Hand
<1>4. x # NoMsg => Hand' = Others(g)' \cup {<<x, y>>}
  BY <1>1 DEF Others, Hand
<1>5. QED  BY <1>2, <1>3, <1>4

(* Every step of the client is a step of Outbox, or none.                  *)
LEMMA StutterRefines ==
    ASSUME UNCHANGED <<pushed, m_sendQueue, pk, count, wire, result, overlap>>
    PROVE  UNCHANGED Out!outVars
BY DEF Out!outVars, Hand

LEMMA AppRefines == ASSUME HoldInv, App PROVE [Out!OutNext]_(Out!outVars)
<1>1. CASE Start
  <2>1. UNCHANGED <<pushed, m_sendQueue, pk, count, wire, result>>
    BY <1>1 DEF Start, sendVars, logVars
  <2>2. overlap' \in BOOLEAN /\ overlap \in BOOLEAN /\ (overlap => overlap')
    BY <1>1, NextHold DEF Start, HoldInv, PullInv, TypeInv, TypeOK
  <2>3. CASE overlap' = overlap
    BY <2>1, <2>3, StutterRefines
  <2>4. CASE overlap' = TRUE
    BY <2>1, <2>4 DEF Out!OutNext, Out!Restart, Hand
  <2>5. QED  BY <2>2, <2>3, <2>4
<1>2. CASE StartCreate \/ StartConnect \/ Spawn \/ Stop
  BY <1>2, StutterRefines
     DEF StartCreate, StartConnect, Spawn, Stop, appVars, sendVars, logVars
<1>3. CASE Push
  <2>1. /\ pushed < MaxPush /\ pushed' = pushed + 1
        /\ UNCHANGED <<pk, count, wire, result, overlap>>
    BY <1>3 DEF Push, appVars, sendVars, logVars
  <2>2. pushed' - Len(m_sendQueue') = pushed - Len(m_sendQueue)
    <3>1. m_sendQueue \in Seq(Msgs) /\ pushed \in Nat
      BY BoundsAssumption DEF HoldInv, PullInv, TypeInv, TypeOK
    <3>2. Len(m_sendQueue') = Len(m_sendQueue) + 1 /\ Len(m_sendQueue) \in Nat
      BY <1>3, <3>1 DEF Push
    <3>3. QED  BY <2>1, <3>1, <3>2
  <2>3. Hand' = Hand
    BY <2>1 DEF Hand
  <2>4. QED  BY <2>1, <2>2, <2>3 DEF Out!OutNext, Out!Submit
<1>4. QED  BY <1>1, <1>2, <1>3 DEF App

LEMMA PullRefines ==
    ASSUME HoldInv, NEW g \in Gens, SendPull(g)
    PROVE  Out!Take
<1> DEFINE t == pushed - Len(m_sendQueue)
<1>1. /\ Head(m_sendQueue) = t + 1 /\ t < pushed /\ t \in Int
      /\ pushed' - Len(m_sendQueue') = t + 1
  <2>1. pushed \in Nat /\ Len(m_sendQueue) \in Nat
    BY BoundsAssumption DEF HoldInv, PullInv, TypeInv, TypeOK
  <2>2. QED  BY <2>1, Pulled
<1>2. pk[g] = NoMsg
  BY DEF SendPull, HoldInv, Held
<1>3. t + 1 # NoMsg
  BY <1>1, BoundsAssumption DEF HoldInv, PullInv, TypeInv, TypeOK, QueueOrder, NoMsg
<1>4. Hand' = Hand \cup {<<t + 1, 0>>}
  <2>1. pk' = [pk EXCEPT ![g] = t + 1] /\ count' = [count EXCEPT ![g] = 0]
    BY <1>1, Pulled
  <2>2. Hand = Others(g)
    BY <1>2, HandSplit
  <2> HIDE DEF t
  <2>3. QED  BY <1>3, <2>1, <2>2, OthersKept
<1>5. Hand = {} \/ overlap
  <2>1. ~overlap => \A h \in Gens : pk[h] = NoMsg
    BY DEF SendPull, HoldInv, Held, PullInv, OneSender, SendAlive
  <2>2. QED  BY <2>1 DEF Hand
<1>6. UNCHANGED <<pushed, wire, result, overlap>>
  BY DEF SendPull, SendGoto, appVars, logVars
<1> HIDE DEF t
<1>7. QED  BY <1>1, <1>4, <1>5, <1>6 DEF Out!Take, t

LEMMA SomeRefines ==
    ASSUME HoldInv, NEW g \in Gens, SendSome(g)
    PROVE  Out!Accept
<1> DEFINE h == <<pk[g], count[g]>>
<1>1. pk[g] # NoMsg /\ pk[g] \in Msgs
  BY DEF SendSome, HoldInv, PullInv, TypeInv, Msgs, NoMsg
<1>2. h \in Hand /\ Others(g) = Hand \ {h} /\ h[1] = pk[g] /\ h[2] = count[g]
  BY <1>1, HandSplit
<1>3. PICK k \in 1 .. (Units[pk[g]] - count[g]) :
         /\ count' = [count EXCEPT ![g] = @ + k]
         /\ wire' = wire \o Pieces(pk[g], count[g], k)
  BY DEF SendSome
<1>4. pk' = [pk EXCEPT ![g] = pk[g]] /\ count' = [count EXCEPT ![g] = count[g] + k]
  BY <1>3 DEF SendSome, HoldInv, PullInv, TypeInv, TypeOK
<1>5. Hand' = (Hand \ {h}) \cup {<<h[1], h[2] + k>>}
  BY <1>1, <1>2, <1>4, OthersKept
<1>6. /\ wire' = wire \o [i \in 1 .. k |-> <<h[1], h[2] + i>>]
      /\ k \in 1 .. (Units[h[1]] - h[2])
  BY <1>2, <1>3 DEF Pieces
<1>7. /\ UNCHANGED <<pushed, result, overlap>>
      /\ pushed' - Len(m_sendQueue') = pushed - Len(m_sendQueue)
  BY DEF SendSome, SendGoto, appVars
<1> HIDE DEF h
<1>8. QED  BY <1>2, <1>5, <1>6, <1>7 DEF Out!Accept

LEMMA ReturnRefines ==
    ASSUME HoldInv, NEW g \in Gens, SendAll(g) \/ SendGivesUp(g)
    PROVE  Out!ReportSent \/ Out!ReportFailed
<1> DEFINE h == <<pk[g], count[g]>>
<1>1. pk[g] # NoMsg
  BY DEF SendAll, SendGivesUp, HoldInv, PullInv, TypeInv, Msgs, NoMsg
<1>2. h \in Hand /\ Others(g) = Hand \ {h} /\ h[1] = pk[g] /\ h[2] = count[g]
  BY <1>1, HandSplit
<1>3. ASSUME NEW r, SendReturn(g, r) PROVE Out!Report(h, r)
  <2>1. Hand' = Hand \ {h}
    BY <1>2, <1>3, OthersKept DEF SendReturn
  <2>2. /\ UNCHANGED <<pushed, wire, overlap>>
        /\ pushed' - Len(m_sendQueue') = pushed - Len(m_sendQueue)
        /\ result' = [result EXCEPT ![h[1]] = r]
    BY <1>2, <1>3 DEF SendReturn, SendGoto, appVars
  <2> HIDE DEF h
  <2>3. QED  BY <2>1, <2>2 DEF Out!Report
<1>4. CASE SendAll(g)
  BY <1>2, <1>3, <1>4 DEF SendAll, Out!ReportSent
<1>5. CASE SendGivesUp(g)
  BY <1>2, <1>3, <1>5 DEF SendGivesUp, Out!ReportFailed
<1>6. QED  BY <1>4, <1>5

LEMMA NextRefines == HoldInv /\ [Next]_vars => [Out!OutNext]_(Out!outVars)
<1> SUFFICES ASSUME HoldInv, [Next]_vars PROVE [Out!OutNext]_(Out!outVars)
  OBVIOUS
<1>1. ASSUME NEW g \in Gens, Sender(g) PROVE [Out!OutNext]_(Out!outVars)
  <2>1. CASE SendLoop(g) \/ SendSize(g) \/ SendPullNull(g) \/ SendKilled(g)
    BY <2>1, StutterRefines DEF SendLoop, SendSize, SendPullNull, SendKilled, SendGoto,
                                appVars, logVars
  <2>2. CASE ~(SendLoop(g) \/ SendSize(g) \/ SendPullNull(g) \/ SendKilled(g))
    BY <1>1, <2>2, PullRefines, SomeRefines, ReturnRefines DEF Sender, Out!OutNext
  <2>3. QED  BY <2>1, <2>2
<1>2. ASSUME NEW g \in Gens, Receiver(g) PROVE UNCHANGED Out!outVars
  <2>1. \E from, label \in RecvStates : RecvGoto(g, from, label)
    BY <1>2 DEF Receiver, RecvLoop, RecvCheck, RecvCreate, RecvConnect,
                RecvRead, RecvRest, RecvStates
  <2>2. QED  BY <2>1, StutterRefines DEF RecvGoto, appVars, sendVars, logVars
<1>3. CASE Network \/ UNCHANGED vars
  BY <1>3, StutterRefines DEF Network, vars, appVars, sendVars, logVars
<1>4. QED  BY <1>1, <1>2, <1>3, AppRefines DEF Next

LEMMA InitRefines == Init => Out!OutInit
<1> SUFFICES ASSUME Init PROVE Out!OutInit
  OBVIOUS
<1>1. pushed = 0 /\ pushed - Len(m_sendQueue) = 0
  <2>1. pushed = 0
    BY DEF Init
  <2>2. Len(m_sendQueue) = 0
    BY DEF Init
  <2>3. QED  BY <2>1, <2>2
<1>2. Hand = {}
  BY DEF Init, Hand
<1>3. QED  BY <1>1, <1>2 DEF Init, Out!OutInit, Out!Messages, Msgs

(* The client keeps the promise of Outbox: what th_send does with the      *)
(* queue and the socket, in its many steps and with the application, the   *)
(* network and other threads between them, amounts to taking the messages  *)
(* in their order, handing over the pieces in theirs and one truthful      *)
(* report on each.                                                         *)
THEOREM ClientImplementsOutbox == Spec => ImplementsOutbox
<1>1. QED
  BY InitHold, InitRefines, NextHold, NextRefines, PTL
     DEF Spec, ImplementsOutbox, Out!OutboxSpec

-----------------------------------------------------------------------------
(* What is proved of Outbox holds of the client with it.                   *)
Proved == INSTANCE OutboxProofs WITH submitted <- pushed,
                                     taken <- pushed - Len(m_sendQueue),
                                     hand <- Hand, accepted <- wire, fate <- result,
                                     restarted <- overlap

LEMMA ProvedBounds == Proved!Bounds
BY BoundsAssumption, UnitsAssumption DEF Proved!Bounds, Proved!Messages, Msgs

LEMMA InitProved == Init => HoldInv /\ Proved!OutInv
BY InitHold, InitRefines, ProvedBounds, Proved!OutInitInv
   DEF Out!OutInit, Proved!OutInit, Out!Messages, Proved!Messages

LEMMA NextProved ==
    HoldInv /\ Proved!OutInv /\ [Next]_vars => HoldInv' /\ Proved!OutInv'
<1> SUFFICES ASSUME HoldInv, Proved!OutInv, [Next]_vars PROVE Proved!OutInv'
  BY NextHold
<1>1. [Out!OutNext]_(Out!outVars)
  BY NextRefines
<1>2. [Proved!OutNext]_(Proved!outVars)
  BY <1>1 DEF Out!OutNext, Out!outVars, Out!Submit, Out!Take, Out!Accept, Out!Report,
              Out!ReportSent, Out!ReportFailed, Out!Restart,
              Proved!OutNext, Proved!outVars, Proved!Submit, Proved!Take, Proved!Accept,
              Proved!Report, Proved!ReportSent, Proved!ReportFailed, Proved!Restart
<1>3. QED  BY <1>2, ProvedBounds, Proved!OutNextInv

(* The pieces of one message reach the system once and in order, across    *)
(* reconnects and however many threads send; the messages in the order of  *)
(* the pushes until tcp_start() is called over living threads.             *)
THEOREM WireKeepsOrder == Spec => []WireInOrder
<1>1. Proved!OutInv => WireInOrder
  BY DEF Proved!OutInv, Proved!InOrder, Proved!Earlier, WireInOrder, Before
<1>2. QED  BY <1>1, InitProved, NextProved, PTL DEF Spec

(* Where a message is that has no report, and where one that has is not.   *)
LEMMA Places ==
    ASSUME HoldInv, Proved!OutInv, NEW m \in 1 .. pushed
    PROVE  LET t == pushed - Len(m_sendQueue)
               queued == {i \in DOMAIN m_sendQueue : m_sendQueue[i] = m}
               holders == {g \in Gens : pk[g] = m}
           IN  /\ m > t => queued = {m - t} /\ holders = {}
               /\ ~(m > t) => queued = {}
               /\ \A g \in holders : holders = {g}
               /\ holders # {} <=> \E h \in Hand : h[1] = m
<1> DEFINE t == pushed - Len(m_sendQueue)
           queued == {i \in DOMAIN m_sendQueue : m_sendQueue[i] = m}
           holders == {g \in Gens : pk[g] = m}
<1>1. /\ pushed \in Nat /\ Len(m_sendQueue) \in Nat /\ t \in Nat /\ m \in Nat
      /\ m <= pushed /\ m # NoMsg /\ Len(m_sendQueue) = pushed - t
      /\ DOMAIN m_sendQueue = 1 .. Len(m_sendQueue)
      /\ \A i \in 1 .. Len(m_sendQueue) : m_sendQueue[i] = t + i
  BY BoundsAssumption DEF HoldInv, PullInv, TypeInv, TypeOK, QueueOrder, NoMsg
<1>2. \A g \in holders : m <= t /\ holders = {g}
  BY <1>1 DEF HoldInv, Held
<1>3. holders # {} <=> \E h \in Hand : h[1] = m
  <2>1. ASSUME NEW g \in Gens, pk[g] = m
        PROVE  <<m, count[g]>> \in Hand
    BY <1>1, <2>1 DEF Hand
  <2>2. ASSUME NEW h \in Hand, h[1] = m
        PROVE  \E g \in Gens : pk[g] = m
    BY <2>2 DEF Hand
  <2>3. QED  BY <2>1, <2>2
<1>4. holders # {} => m <= t
  BY <1>2
<1> HIDE DEF t, holders
<1>5. m > t => queued = {m - t}
  BY <1>1
<1>6. ~(m > t) => queued = {}
  BY <1>1
<1>7. m > t => holders = {}
  BY <1>1, <1>4
<1>8. QED  BY <1>2, <1>3, <1>5, <1>6, <1>7 DEF t, holders

(* No message is lost or handled twice: each is queued, in the hands of    *)
(* one thread, or reported once, with the truth about its last piece.      *)
THEOREM EveryMessageAccounted == Spec => []Accounted
<1>1. ASSUME HoldInv, Proved!OutInv PROVE Accounted
  <2> SUFFICES
        ASSUME NEW m \in 1 .. pushed
        PROVE  LET queued == {i \in DOMAIN m_sendQueue : m_sendQueue[i] = m}
                   holders == {g \in Gens : pk[g] = m}
                   last == \E i \in DOMAIN wire : wire[i] = <<m, Units[m]>>
               IN  CASE result[m] = "none" ->
                            \/ Cardinality(queued) = 1 /\ holders = {}
                            \/ queued = {} /\ Cardinality(holders) = 1
                     [] result[m] = "sent" ->
                            queued \cup holders = {} /\ (Units[m] > 0 => last)
                     [] result[m] = "failed" -> queued \cup holders = {} /\ ~last
    BY DEF Accounted
  <2> DEFINE t == pushed - Len(m_sendQueue)
             queued == {i \in DOMAIN m_sendQueue : m_sendQueue[i] = m}
             holders == {g \in Gens : pk[g] = m}
             last == \E i \in DOMAIN wire : wire[i] = <<m, Units[m]>>
  <2>1. m \in Msgs
    BY <1>1, BoundsAssumption DEF HoldInv, PullInv, TypeInv, TypeOK, Msgs
  <2>2. /\ result[m] = "none" <=> m > t \/ \E h \in Hand : h[1] = m
        /\ result[m] = "sent" /\ Units[m] > 0 => last
        /\ result[m] = "failed" => ~last
    BY <1>1, <2>1 DEF Proved!OutInv, Proved!Reported, Proved!LastAccepted,
                Proved!Messages, Msgs
  <2>3. /\ m > t => queued = {m - t} /\ holders = {}
        /\ ~(m > t) => queued = {}
        /\ \A g \in holders : holders = {g}
        /\ holders # {} <=> \E h \in Hand : h[1] = m
    BY <1>1, Places
  <2>4. result[m] \in {"none", "sent", "failed"}
    BY <1>1, <2>1 DEF HoldInv, PullInv, TypeInv, TypeOK
  <2> HIDE DEF t, queued, holders, last
  <2>5. CASE result[m] = "none"
    <3>1. CASE m > t
      BY <2>3, <2>5, <3>1, FS_Singleton DEF queued, holders, last
    <3>2. CASE ~(m > t)
      <4>1. PICK g \in holders : holders = {g}
        BY <2>2, <2>3, <2>5, <3>2
      <4>2. Cardinality(holders) = 1 /\ queued = {}
        BY <2>3, <3>2, <4>1, FS_Singleton
      <4>3. QED  BY <2>5, <4>2 DEF queued, holders, last
    <3>3. QED  BY <3>1, <3>2
  <2>6. CASE result[m] # "none"
    <3>1. queued = {} /\ holders = {}
      BY <2>2, <2>3, <2>6
    <3>2. QED  BY <2>2, <2>4, <2>6, <3>1 DEF queued, holders, last
  <2>7. QED  BY <2>5, <2>6
<1>2. QED  BY <1>1, InitProved, NextProved, PTL DEF Spec
=============================================================================
