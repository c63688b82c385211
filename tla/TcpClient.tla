------------------------------ MODULE TcpClient ------------------------------
(***************************************************************************)
(* The network client of Classes/NetWork/TcpClient.cpp as a system of      *)
(* threads: the application thread, which starts and stops the client and  *)
(* pushes messages, and for every tcp_start() one th_recv and one th_send, *)
(* detached and never joined.  They share m_isRuning, m_sendQueue and      *)
(* m_socket; no lock is ever taken.                                        *)
(*                                                                         *)
(* What recvFunc reads is abstracted to whether it is in the middle of a   *)
(* message (RecvFunc models the bytes), and m_sendQueue is accessed in     *)
(* one step (PocketQueue models the accesses of the vector).  A message is *)
(* its number in the order of the pushes, and its frame is cut into        *)
(* Units[m] pieces, the most that separate calls of send() may carry.      *)
(***************************************************************************)
EXTENDS ODSocket, Sequences

CONSTANTS MaxStarts,  \* bound on the calls of tcp_start()
          MaxPush,    \* bound on the calls of pushSendQueue()
          Units       \* pieces of each message

Gens == 1 .. MaxStarts
Msgs == 1 .. MaxPush
NoMsg == 0

ASSUME BoundsAssumption == MaxStarts \in Nat /\ MaxPush \in Nat
ASSUME UnitsAssumption  == Units \in [Msgs -> Nat]

VARIABLES
    m_isRuning,   \* the flag the thread loops test
    m_sendQueue,
    apc,          \* application thread: idle, or where in tcp_start() it is
    starts,       \* calls of tcp_start() that have spawned their threads
    rpc,          \* position of each th_recv
    spc,          \* position of each th_send
    pk,           \* the pocket a th_send holds
    count,        \* pieces of it that Send() has handed to the system
    pushed,       \* calls of pushSendQueue()
    wire,         \* history: the pieces the system has accepted
    result,       \* history: what Send() returned for each message
    overlap       \* history: tcp_start() was called while a thread was alive

appVars  == <<apc, starts, overlap>>
sendVars == <<spc, pk, count>>
logVars  == <<wire, result>>
vars == <<sockVars, m_isRuning, m_sendQueue, appVars, rpc, sendVars, pushed,
          logVars>>

SendStates == {"none", "loop", "size", "pull", "send", "done", "null",
               "killed"}
RecvStates == {"none", "loop", "check", "create", "connect", "read", "mid",
               "done"}

TypeOK ==
    /\ SockTypeOK
    /\ m_isRuning \in BOOLEAN
    /\ m_sendQueue \in Seq(Msgs)
    /\ apc \in {"idle", "create", "connect", "spawn"}
    /\ starts \in 0 .. MaxStarts
    /\ rpc \in [Gens -> RecvStates]
    /\ spc \in [Gens -> SendStates]
    /\ pk \in [Gens -> Msgs \cup {NoMsg}]
    /\ count \in [Gens -> Nat]
    /\ pushed \in 0 .. MaxPush
    /\ wire \in Seq(Msgs \X Nat)
    /\ result \in [Msgs -> {"none", "sent", "failed"}]
    /\ overlap \in BOOLEAN

Init ==
    /\ SockInit
    /\ m_isRuning = FALSE
    /\ m_sendQueue = <<>>
    /\ apc = "idle"
    /\ starts = 0
    /\ rpc = [g \in Gens |-> "none"]
    /\ spc = [g \in Gens |-> "none"]
    /\ pk = [g \in Gens |-> NoMsg]
    /\ count = [g \in Gens |-> 0]
    /\ pushed = 0
    /\ wire = <<>>
    /\ result = [m \in Msgs |-> "none"]
    /\ overlap = FALSE

(* A sender was handed a null pocket, or was killed by a signal: either    *)
(* ends the process.                                                       *)
Crashed == \E g \in Gens : spc[g] \in {"null", "killed"}

SendAlive(g) == spc[g] \notin {"none", "done"}
RecvAlive(g) == rpc[g] \notin {"none", "done"}

-----------------------------------------------------------------------------
(* The application thread.  tcp_start() sets the flag, connects on the     *)
(* calling thread, ignoring the result, and spawns the two threads.        *)
Start ==
    /\ ~Crashed
    /\ apc = "idle"
    /\ starts < MaxStarts
    /\ m_isRuning' = TRUE
    /\ apc' = "create"
    /\ overlap' = (overlap \/ \E g \in Gens : SendAlive(g) \/ RecvAlive(g))
    /\ UNCHANGED <<sockVars, m_sendQueue, starts, rpc, sendVars, pushed, logVars>>

StartCreate ==
    /\ ~Crashed
    /\ apc = "create"
    /\ CreateOk \/ CreateFails
    /\ apc' = "connect"
    /\ UNCHANGED <<m_isRuning, m_sendQueue, starts, overlap, rpc, sendVars,
                   pushed, logVars>>

StartConnect ==
    /\ ~Crashed
    /\ apc = "connect"
    /\ ConnectOk \/ ConnectFails
    /\ apc' = "spawn"
    /\ UNCHANGED <<m_isRuning, m_sendQueue, starts, overlap, rpc, sendVars,
                   pushed, logVars>>

Spawn ==
    /\ ~Crashed
    /\ apc = "spawn"
    /\ apc' = "idle"
    /\ starts' = starts + 1
    /\ rpc' = [rpc EXCEPT ![starts + 1] = "loop"]
    /\ spc' = [spc EXCEPT ![starts + 1] = "loop"]
    /\ UNCHANGED <<sockVars, m_isRuning, m_sendQueue, overlap, pk, count, pushed,
                   logVars>>

Stop ==                                       \* tcp_stop()
    /\ ~Crashed
    /\ apc = "idle"
    /\ m_isRuning
    /\ m_isRuning' = FALSE
    /\ UNCHANGED <<sockVars, m_sendQueue, appVars, rpc, sendVars, pushed, logVars>>

Push ==                                       \* pushSendQueue()
    /\ ~Crashed
    /\ apc = "idle"
    /\ pushed < MaxPush
    /\ pushed' = pushed + 1
    /\ m_sendQueue' = Append(m_sendQueue, pushed + 1)
    /\ UNCHANGED <<sockVars, m_isRuning, appVars, rpc, sendVars, logVars>>

App == Start \/ StartCreate \/ StartConnect \/ Spawn \/ Stop \/ Push

-----------------------------------------------------------------------------
(* th_send: the loop test, then sendFunc(), which tests getSize(), pulls   *)
(* a pocket and hands its frame to Send().                                 *)
SendGoto(g, label) ==
    /\ ~Crashed
    /\ spc' = [spc EXCEPT ![g] = label]
    /\ UNCHANGED <<sockVars, m_isRuning, appVars, rpc, pushed>>

\* Mutants: a loop that never tests the flag, a pull without the size test.
SendLoopForever(g) ==
    /\ spc[g] = "loop"
    /\ SendGoto(g, "size")
    /\ UNCHANGED <<m_sendQueue, pk, count, logVars>>

SendSizeUntested(g) ==
    /\ spc[g] = "size"
    /\ SendGoto(g, "pull")
    /\ UNCHANGED <<m_sendQueue, pk, count, logVars>>

SendLoop(g) ==
    /\ spc[g] = "loop"
    /\ SendGoto(g, IF m_isRuning THEN "size" ELSE "done")
    /\ UNCHANGED <<m_sendQueue, pk, count, logVars>>

SendSize(g) ==
    /\ spc[g] = "size"
    /\ SendGoto(g, IF m_sendQueue # <<>> THEN "pull" ELSE "loop")
    /\ UNCHANGED <<m_sendQueue, pk, count, logVars>>

SendPull(g) ==                                \* PullPocket()
    /\ spc[g] = "pull"
    /\ m_sendQueue # <<>>
    /\ pk' = [pk EXCEPT ![g] = Head(m_sendQueue)]
    /\ count' = [count EXCEPT ![g] = 0]
    /\ m_sendQueue' = Tail(m_sendQueue)
    /\ SendGoto(g, "send")
    /\ UNCHANGED logVars

\* PullPocket() returns nullptr and sendFunc reads pk->id: the process ends.
SendPullNull(g) ==
    /\ spc[g] = "pull"
    /\ m_sendQueue = <<>>
    /\ SendGoto(g, "null")
    /\ UNCHANGED <<m_sendQueue, pk, count, logVars>>

\* The k next pieces of message m, of which c are already gone.
Pieces(m, c, k) == [i \in 1 .. k |-> <<m, c + i>>]

\* Mutant of SendSome: buf is not advanced by count.
SendSomeAgain(g) ==
    /\ spc[g] = "send"
    /\ CanSend
    /\ \E k \in 1 .. (Units[pk[g]] - count[g]) :
          /\ count' = [count EXCEPT ![g] = @ + k]
          /\ wire' = wire \o Pieces(pk[g], 0, k)
    /\ SendGoto(g, "send")
    /\ UNCHANGED <<m_sendQueue, pk, result>>

\* One send() of the loop in Send(): it may accept less than was offered.
SendSome(g) ==
    /\ spc[g] = "send"
    /\ CanSend
    /\ \E k \in 1 .. (Units[pk[g]] - count[g]) :
          /\ count' = [count EXCEPT ![g] = @ + k]
          /\ wire' = wire \o Pieces(pk[g], count[g], k)
    /\ SendGoto(g, "send")
    /\ UNCHANGED <<m_sendQueue, pk, result>>

\* The pocket is deleted, whatever Send() has returned.
SendReturn(g, r) ==
    /\ result' = [result EXCEPT ![pk[g]] = r]
    /\ pk' = [pk EXCEPT ![g] = NoMsg]
    /\ count' = [count EXCEPT ![g] = 0]
    /\ SendGoto(g, "loop")
    /\ UNCHANGED <<m_sendQueue, wire>>

\* Mutants: one short send() is taken for the whole frame; a failed Send()
\* is tried again.
SendAllShort(g) ==
    /\ spc[g] = "send"
    /\ count[g] > 0 \/ Units[pk[g]] = 0
    /\ SendReturn(g, "sent")

SendRetries(g) ==
    /\ spc[g] = "send"
    /\ count[g] < Units[pk[g]]
    /\ SendGoto(g, "send")
    /\ UNCHANGED <<m_sendQueue, pk, count, logVars>>

SendAll(g) ==
    /\ spc[g] = "send"
    /\ count[g] = Units[pk[g]]
    /\ SendReturn(g, "sent")

\* send() fails on a broken or unconnected socket, and also when the buffer
\* of the non-blocking socket is full: Send() gives up in both cases.
SendGivesUp(g) ==
    /\ spc[g] = "send"
    /\ count[g] < Units[pk[g]]
    /\ SendReturn(g, "failed")

\* Outside Windows, send() without MSG_NOSIGNAL on a broken or unconnected
\* socket may raise SIGPIPE, which nothing in the client handles.
SendKilled(g) ==
    /\ spc[g] = "send"
    /\ count[g] < Units[pk[g]]
    /\ ~Win32
    /\ LinkIn({"new", "err"})
    /\ SendGoto(g, "killed")
    /\ UNCHANGED <<m_sendQueue, pk, count, logVars>>

Sender(g) ==
    \/ SendLoop(g) \/ SendSize(g) \/ SendPull(g) \/ SendPullNull(g)
    \/ SendSome(g) \/ SendAll(g) \/ SendGivesUp(g) \/ SendKilled(g)

-----------------------------------------------------------------------------
(* th_recv: the loop test, then recvFunc(), which runs tcpCheck() first.   *)
RecvGoto(g, from, label) ==
    /\ ~Crashed
    /\ rpc[g] = from
    /\ rpc' = [rpc EXCEPT ![g] = label]
    /\ UNCHANGED <<m_isRuning, m_sendQueue, appVars, sendVars, pushed, logVars>>

RecvLoop(g) ==
    /\ RecvGoto(g, "loop", IF m_isRuning THEN "check" ELSE "done")
    /\ UNCHANGED sockVars

RecvCheck(g) ==
    \/ RecvGoto(g, "check", "read") /\ CheckHolds
    \/ RecvGoto(g, "check", "create") /\ CheckFails

RecvCreate(g) ==
    /\ RecvGoto(g, "create", "connect")
    /\ CreateOk \/ CreateFails

\* Mutant of RecvConnect: connect() is retried on the same descriptor.
RecvConnectAgain(g) ==
    \/ RecvGoto(g, "connect", "read") /\ ConnectOk
    \/ RecvGoto(g, "connect", "connect") /\ ConnectFails

\* tcpCheck() returns after one attempt, successful or not.
RecvConnect(g) ==
    /\ RecvGoto(g, "connect", "read")
    /\ ConnectOk \/ ConnectFails

\* The reads after tcpCheck(): nothing or a whole message is read, or the
\* read loops wait for the rest of one.  A finished connection reads as 0
\* bytes, which enters the loop for the head too; an error does not.
RecvRead(g) ==
    /\ UNCHANGED sockVars
    /\ \/ ~LinkIn({"fin"}) /\ RecvGoto(g, "read", "loop")
       \/ LinkIn({"est", "fin"}) /\ RecvGoto(g, "read", "mid")

\* The read loops end only when the rest arrives: 0 bytes and errors are
\* retried for ever, and m_isRuning is not tested.
RecvRest(g) ==
    /\ LinkIn({"est"})
    /\ RecvGoto(g, "mid", "loop")
    /\ UNCHANGED sockVars

Receiver(g) ==
    \/ RecvLoop(g) \/ RecvCheck(g) \/ RecvCreate(g) \/ RecvConnect(g)
    \/ RecvRead(g) \/ RecvRest(g)

-----------------------------------------------------------------------------
Network ==
    /\ ~Crashed
    /\ PeerCloses \/ LinkBreaks
    /\ UNCHANGED <<m_isRuning, m_sendQueue, appVars, rpc, sendVars, pushed,
                   logVars>>

Next ==
    \/ App
    \/ \E g \in Gens : Sender(g) \/ Receiver(g)
    \/ Network

Spec == Init /\ [][Next]_vars

-----------------------------------------------------------------------------
(* The scheduler runs every thread: each step of th_send ends without the  *)
(* help of anyone, and so does each step of th_recv but RecvRest, which    *)
(* needs the server.                                                       *)
FairSpec ==
    /\ Spec
    /\ \A g \in Gens :
          /\ WF_vars(Sender(g))
          /\ WF_vars(Receiver(g) /\ ~RecvRest(g))

(* In addition the server is there: socket() and connect() are not refused *)
(* for ever, and a message that was begun is finished.                     *)
ServedSpec ==
    /\ FairSpec
    /\ \A g \in Gens :
          /\ SF_vars(RecvCreate(g) /\ CreateOk)
          /\ SF_vars(RecvConnect(g) /\ ConnectOk)

-----------------------------------------------------------------------------
(* Every pushed message is in exactly one place: in the queue, in the      *)
(* hands of one sender thread, reported sent by Send() with all its pieces *)
(* accepted, or reported failed with its last piece missing.  sendFunc     *)
(* drops the pocket in both of the last cases and never tries it again.    *)
Accounted ==
    \A m \in 1 .. pushed :
       LET queued == {i \in DOMAIN m_sendQueue : m_sendQueue[i] = m}
           holders == {g \in Gens : pk[g] = m}
           last == \E i \in DOMAIN wire : wire[i] = <<m, Units[m]>>
       IN  CASE result[m] = "none" ->
                    \/ Cardinality(queued) = 1 /\ holders = {}
                    \/ queued = {} /\ Cardinality(holders) = 1
             [] result[m] = "sent" ->
                    queued \cup holders = {} /\ (Units[m] > 0 => last)
             [] result[m] = "failed" -> queued \cup holders = {} /\ ~last

(* The pockets in the hands of the threads, each with the pieces that are  *)
(* gone.                                                                   *)
Hand == {<<pk[g], count[g]>> : g \in {h \in Gens : pk[h] # NoMsg}}

Out == INSTANCE Outbox WITH submitted <- pushed,
                            taken <- pushed - Len(m_sendQueue),
                            hand <- Hand, accepted <- wire, fate <- result,
                            restarted <- overlap

(* Whatever the threads do between two accesses of what they share, and    *)
(* whatever becomes of the connection, the client keeps what Outbox        *)
(* promises.                                                               *)
ImplementsOutbox == Out!OutboxSpec

(* Piece p of message m was accepted before piece q of message n.          *)
Before(p, q) == p[1] < q[1] \/ (p[1] = q[1] /\ p[2] < q[2])

(* The pieces of one message reach the system once and in order, however   *)
(* many threads send; and the messages in the order of the pushes as long  *)
(* as tcp_start() was not called over living threads.  Reconnecting in the *)
(* middle of a frame repeats nothing.                                      *)
WireInOrder ==
    \A i, j \in DOMAIN wire :
       i < j /\ (overlap => wire[i][1] = wire[j][1]) => Before(wire[i], wire[j])

(* sendFunc tests getSize() and pulls in two steps; PullPocket() returns   *)
(* no null pocket as long as only one thread pulls.                        *)
SendNeverNull == (\E g \in Gens : spc[g] = "null") => overlap

(* No second tcp_start() has begun.                                        *)
FirstSession == starts + (IF apc = "idle" THEN 0 ELSE 1) <= 1

(* On Windows, the calls of WSAStartup and WSACleanup that Connect(),      *)
(* Close() and Check() make on their many paths balance: at most one is    *)
(* outstanding, an open socket never outlives it, and no socket but m_sock *)
(* stays open although Check() and Create() drop sockets without closing.  *)
OneSocket ==
    Win32 /\ FirstSession =>
       /\ startups <= 1
       /\ OpenSockets # {} => startups = 1 /\ OpenSockets = {m_sock}

(* Of the sockets that the code drops none is connected: the server never  *)
(* holds two connections of one session.                                   *)
OneConnection ==
    FirstSession => \A d \in Sockets : link[d] \in {"est", "fin"} => d = m_sock

(* Within a session only the peer or the network ends a connection: no     *)
(* Close(), Clean() or Connect() of the client hits one that works.        *)
LiveLinkKept ==
    [][FirstSession' => \A d \in Sockets :
          link[d] = "est" => link'[d] \in {"est", "fin", "err"}]_vars

(* After tcp_stop() every th_send ends, unless the client is started again *)
(* or has crashed.                                                         *)
SendersStop == ~m_isRuning ~> m_isRuning \/ Crashed
                              \/ \A g \in Gens : ~SendAlive(g)

(* The same of th_recv, as the comment of m_isRuning has it (the flag of   *)
(* the running threads).                                                   *)
ReceiversStop == ~m_isRuning ~> m_isRuning \/ Crashed
                                \/ \A g \in Gens : ~RecvAlive(g)

(* While the client runs every pushed message is eventually tried: no      *)
(* connection state holds up th_send.                                      *)
MessagesTried ==
    \A m \in Msgs : pushed >= m /\ starts > 0
                      ~> result[m] # "none" \/ ~m_isRuning \/ Crashed

(* Once th_recv has given a connection up, the client is connected again   *)
(* or stopped.                                                             *)
Reconnects ==
    \A g \in Gens : rpc[g] = "create" ~> LinkIn({"est"}) \/ ~m_isRuning \/ Crashed
=============================================================================
