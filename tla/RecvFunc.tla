------------------------------ MODULE RecvFunc ------------------------------
(***************************************************************************)
(* th_recv of Classes/NetWork/TcpClient.cpp, byte by byte: recvFunc()      *)
(* checks the connection, reads the ten bytes of a head, decodes them,     *)
(* reads the body and pushes a pocket on m_recvQueue.  The socket is in    *)
(* non-blocking mode, so a read returns what has arrived, at most what was *)
(* asked for, or -1.                                                       *)
(*                                                                         *)
(* The server is the environment: it sends whole messages, closes the      *)
(* connection, possibly in the middle of one, or the connection breaks.    *)
(* How much of what was sent has arrived is left to each read.             *)
(***************************************************************************)
EXTENDS PocketFrame, SequencesExt

CONSTANTS Messages,     \* the messages of the server, as [id, msg]
          MaxMessages,  \* bound on the messages of one connection
          MaxConnects,  \* bound on the reconnections
          PtrSize       \* sizeof a pointer

ASSUME MessagesAssumption ==
    \A m \in Messages : /\ m.id \in Word /\ SignStable(m.id)
                        /\ m.msg \in Seq(Byte) /\ Len(m.msg) < 32760
                        /\ m.id # WordOf(0)
ASSUME RecvBoundsAssumption == MaxMessages \in Nat /\ MaxConnects \in Nat
ASSUME PtrSizeAssumption    == PtrSize \in {4, 8}

\* The least length for which new char[] may fail; the code has no limit.
AllocMayFail == 65536

VARIABLES
    m_isRuning,
    link,         \* "none", "up", "fin" (closed by the server) or "broken"
    stream,       \* bytes sent on this connection and not read
    rpc,          \* position in th_recv
    head,         \* what the reads of the head have returned
    body,         \* what the reads of the body have returned
    m_recvQueue,
    sent,         \* history: the messages sent on this connection
    mark,         \* history: Len(m_recvQueue) when it was made
    connects,     \* history: how many were made
    torn          \* history: a head was read past its end on this connection

recvVars == <<rpc, head, body, m_recvQueue, torn>>
connVars == <<link, stream, sent, mark, connects>>
vars == <<m_isRuning, connVars, recvVars>>

TypeOK ==
    /\ m_isRuning \in BOOLEAN
    /\ link \in {"none", "up", "fin", "broken"}
    /\ stream \in Seq(Byte)
    /\ rpc \in {"loop", "check", "head", "more", "decode", "body", "done",
                "aborted"}
    /\ head \in Seq(Byte) /\ Len(head) < HeadLen + PtrSize
    /\ body \in Seq(Byte)
    /\ m_recvQueue \in Seq([id : Word, msg : Seq(1 .. 255)])
    /\ sent \in Seq(Messages) /\ Len(sent) <= MaxMessages
    /\ mark \in 0 .. Len(m_recvQueue)
    /\ connects \in 0 .. MaxConnects
    /\ torn \in BOOLEAN

\* tcp_start() has tried to connect and has spawned the thread.
Init ==
    /\ m_isRuning = TRUE
    /\ link \in {"none", "up"}
    /\ stream = <<>> /\ sent = <<>>
    /\ rpc = "loop"
    /\ head = <<>> /\ body = <<>>
    /\ m_recvQueue = <<>>
    /\ mark = 0
    /\ connects = 0
    /\ torn = FALSE

-----------------------------------------------------------------------------
(* What Recv() may return for n bytes: some bytes, none (a finished        *)
(* connection of which everything is read), or -1, which changes nothing.  *)
Chunks(n) ==
    IF link \in {"up", "fin"} /\ stream # <<>>
      THEN {SubSeq(stream, 1, k) : k \in 1 .. (IF n <= Len(stream) THEN n
                                                 ELSE Len(stream))}
      ELSE IF link = "fin" THEN {<<>>} ELSE {}

RecvMayFail == link # "fin" \/ stream # <<>>

Read(c) == /\ stream' = SubSeq(stream, Len(c) + 1, Len(stream))
           /\ UNCHANGED <<m_isRuning, link, sent, mark, connects>>

At(from, to) == rpc = from /\ rpc' = to

RecvLoop ==
    /\ At("loop", IF m_isRuning THEN "check" ELSE "done")
    /\ UNCHANGED <<m_isRuning, connVars, head, body, m_recvQueue, torn>>

\* tcpCheck() with a connection that works, or that has bytes to read.
CheckHolds ==
    /\ link = "up" \/ (link = "fin" /\ stream # <<>>)
    /\ At("check", "head")
    /\ head' = <<>> /\ body' = <<>>
    /\ UNCHANGED <<m_isRuning, connVars, m_recvQueue, torn>>

\* tcpCheck() otherwise: one attempt to reconnect, and on in any case.
Reconnect ==
    /\ link \in {"none", "broken"} \/ (link = "fin" /\ stream = <<>>)
    /\ At("check", "head")
    /\ head' = <<>> /\ body' = <<>>
    /\ \/ /\ connects < MaxConnects
          /\ connects' = connects + 1
          /\ link' = "up"
       \/ /\ link' = "none"
          /\ UNCHANGED connects
    /\ mark' = Len(m_recvQueue)
    /\ stream' = <<>> /\ sent' = <<>>
    /\ torn' = FALSE
    /\ UNCHANGED <<m_isRuning, m_recvQueue>>

-----------------------------------------------------------------------------
(* The first read of a head asks for ten bytes; the loop after a short one *)
(* asks for sizeof(recvHeadBuf - recvLen), the size of a pointer, and ends *)
(* when ten bytes or more have come.                                       *)
HeadNone ==
    /\ RecvMayFail
    /\ At("head", "loop")
    /\ UNCHANGED <<m_isRuning, connVars, head, body, m_recvQueue, torn>>

HeadFirst ==
    \E c \in Chunks(HeadLen) :
       /\ At("head", IF Len(c) = HeadLen THEN "decode" ELSE "more")
       /\ head' = c
       /\ Read(c)
       /\ UNCHANGED <<body, m_recvQueue, torn>>

\* Mutant of HeadMore: a whole head is asked for again.
HeadMoreWhole ==
    \E c \in Chunks(HeadLen) :
       /\ At("more", IF Len(head \o c) >= HeadLen THEN "decode" ELSE "more")
       /\ head' = head \o c
       /\ torn' = (torn \/ Len(head \o c) > HeadLen)
       /\ Read(c)
       /\ UNCHANGED <<body, m_recvQueue>>

HeadMore ==
    \E c \in Chunks(PtrSize) :
       /\ At("more", IF Len(head \o c) >= HeadLen THEN "decode" ELSE "more")
       /\ head' = head \o c
       /\ torn' = (torn \/ Len(head \o c) > HeadLen)
       /\ Read(c)
       /\ UNCHANGED <<body, m_recvQueue>>

BodyLen == IntOf(ReadLen(head))

\* The head is decoded and the body allocated.  new char[BodyLen + 1] throws
\* for a negative size, and may throw for a large one; writing past the ten
\* bytes of the head may have damaged the heap.  Each ends the process.
Decode ==
    /\ rpc = "decode"
    /\ \/ /\ HasBody(head) => BodyLen >= -1
          /\ rpc' = IF HasBody(head) /\ BodyLen > 0 THEN "body" ELSE "loop"
       \/ /\ \/ HasBody(head) /\ (BodyLen < -1 \/ BodyLen >= AllocMayFail)
             \/ Len(head) > HeadLen
          /\ rpc' = "aborted"
    /\ UNCHANGED <<m_isRuning, connVars, head, body, m_recvQueue, torn>>

\* Mutants of BodyMore: every piece is pushed; only a body that comes in one
\* piece is pushed; the read asks for the msgLen + 1 bytes of the buffer.
BodyStep(c, ready) ==
    LET got == body \o c
    IN  /\ rpc' = IF Len(got) >= BodyLen THEN "loop" ELSE "body"
        /\ body' = got
        /\ m_recvQueue' = IF ready THEN Append(m_recvQueue,
                                               MakePocket(got, ReadId(head)))
                           ELSE m_recvQueue
        /\ Read(c)
        /\ UNCHANGED <<head, torn>>

BodyPieces == rpc = "body" /\ \E c \in Chunks(BodyLen - Len(body)) :
                 BodyStep(c, TRUE)
BodyOnce == rpc = "body" /\ \E c \in Chunks(BodyLen - Len(body)) :
                 BodyStep(c, Len(c) = BodyLen)
BodyOver == rpc = "body" /\ \E c \in Chunks(BodyLen + 1 - Len(body)) :
                 BodyStep(c, Len(body \o c) >= BodyLen)

BodyMore ==
    rpc = "body" /\ \E c \in Chunks(BodyLen - Len(body)) :
       LET got == body \o c
       IN  /\ rpc' = IF Len(got) = BodyLen THEN "loop" ELSE "body"
           /\ body' = got
           /\ m_recvQueue' = IF Len(got) = BodyLen
                               THEN Append(m_recvQueue,
                                           MakePocket(got, ReadId(head)))
                               ELSE m_recvQueue
           /\ Read(c)
           /\ UNCHANGED <<head, torn>>

Receiver == \/ RecvLoop \/ CheckHolds \/ Reconnect \/ HeadNone \/ HeadFirst
            \/ HeadMore \/ Decode \/ BodyMore
-----------------------------------------------------------------------------
Stop ==                                                \* tcp_stop()
    /\ m_isRuning
    /\ m_isRuning' = FALSE
    /\ UNCHANGED <<connVars, recvVars>>

ServerSends ==
    /\ link = "up"
    /\ Len(sent) < MaxMessages
    /\ \E m \in Messages :
          /\ sent' = Append(sent, m)
          /\ stream' = stream \o Framed(m)
    /\ UNCHANGED <<m_isRuning, link, mark, connects, recvVars>>

\* The server ends; of what it was sending a part may never have left.
ServerCloses ==
    /\ link = "up"
    /\ link' = "fin"
    /\ \E k \in 0 .. Len(stream) : stream' = SubSeq(stream, 1, k)
    /\ UNCHANGED <<m_isRuning, sent, mark, connects, recvVars>>

LinkBreaks ==
    /\ link \in {"up", "fin"}
    /\ link' = "broken"
    /\ stream' = <<>>
    /\ UNCHANGED <<m_isRuning, sent, mark, connects, recvVars>>

Next == Receiver \/ Stop \/ ServerSends \/ ServerCloses \/ LinkBreaks

Spec == Init /\ [][Next]_vars

(* The thread is scheduled; and a byte that was sent over a connection     *)
(* that stays up arrives, so that no read finds nothing for ever.          *)
FairSpec == /\ Spec
            /\ WF_vars(Receiver)
            /\ SF_vars(HeadFirst)

-----------------------------------------------------------------------------
\* The pocket that a message should give; an empty body is not pushed.
PocketOf(m) == IF m.msg = <<>> THEN <<>> ELSE <<MakePocket(m.msg, m.id)>>

Pockets(ms) == FlattenSeq([i \in DOMAIN ms |-> PocketOf(ms[i])])

\* The pockets pushed since the connection was made.
Got == SubSeq(m_recvQueue, mark + 1, Len(m_recvQueue))

Frames(ms) == FlattenSeq([i \in DOMAIN ms |-> Framed(ms[i])])

(* However the bytes are cut into reads, and wherever the connection ends, *)
(* what recvFunc() pushes of one connection is a first part of what the    *)
(* server sent on it, in order and without repetition; unless a head was   *)
(* read past its end.                                                      *)
DeliveredInOrder == ~torn => IsPrefix(Got, Pockets(sent))

(* Between two messages the reader stands at the front of a frame, all the *)
(* messages before it are pushed, and nothing of it is left over from an   *)
(* earlier connection; unless a head was read past its end.                *)
InSync ==
    ~torn /\ rpc = "loop" /\ link = "up" =>
       \E n \in 0 .. Len(sent) :
          /\ stream = Frames(SubSeq(sent, n + 1, Len(sent)))
          /\ Got = Pockets(SubSeq(sent, 1, n))

(* No end of the process comes from a message of the server, unless a head *)
(* was read past its end.                                                  *)
AbortsOnlyTorn == rpc = "aborted" => torn

(* A message sent over a connection that stays up is pushed.               *)
Delivers ==
    \A n \in 1 .. MaxMessages :
       Len(sent) >= n ~> \/ /\ Len(sent) >= n
                            /\ Len(Got) >= Len(Pockets(SubSeq(sent, 1, n)))
                         \/ torn \/ link # "up" \/ ~m_isRuning

(* The comment of the loop that completes a head, "keep reading until the  *)
(* message head is received": it reads a head and no more.                 *)
HeadExact == rpc = "decode" => Len(head) = HeadLen

(* The comment of the push, "add the message to the queue": each pocket    *)
(* carries the whole body of its message.                                  *)
BodyKept ==
    ~torn => \A i \in DOMAIN Got :
                \E m \in Messages : Got[i] = [id |-> m.id, msg |-> m.msg]
=============================================================================
