------------------------------ MODULE ODSocket ------------------------------
(***************************************************************************)
(* The socket wrapper of Classes/NetWork/ODSocket.cpp: one member, m_sock, *)
(* over the descriptors of the process.  TcpClient owns one ODSocket and   *)
(* calls it from three threads without a lock, so each system call that    *)
(* another thread can observe is an operator of its own here; the threads  *)
(* that call them are in TcpClient.                                        *)
(*                                                                         *)
(* A descriptor that is not open is "closed" and may be handed out again,  *)
(* as operating systems do.  On Windows, Winsock counts the WSAStartup     *)
(* calls, and the WSACleanup that brings the count to zero releases every  *)
(* open socket of the process; elsewhere Init and Clean do nothing.        *)
(***************************************************************************)
EXTENDS Integers, FiniteSets

CONSTANTS Sockets,   \* the descriptors the process may have open at once
          Win32      \* TRUE for the build with WIN32 defined

ASSUME SocketsAssumption == /\ Sockets \subseteq Nat \ {0}
                            /\ IsFiniteSet(Sockets)
ASSUME Win32Assumption   == Win32 \in BOOLEAN

VARIABLES m_sock,    \* the member m_sock
          link,      \* what the operating system knows of each descriptor
          startups   \* WSAStartup calls not yet undone by WSACleanup

sockVars == <<m_sock, link, startups>>

\* Any value that is not a descriptor; the code has -1.
INVALID_SOCKET == 0

\* "new": created, not connected; "est": connected; "fin": the peer has closed
\* and everything it sent is read; "err": the connection is broken.
LinkStates == {"closed", "new", "est", "fin", "err"}

SockTypeOK ==
    /\ m_sock \in Sockets \cup {INVALID_SOCKET}
    /\ link \in [Sockets -> LinkStates]
    /\ startups \in Nat

SockInit ==
    /\ m_sock = INVALID_SOCKET
    /\ link = [d \in Sockets |-> "closed"]
    /\ startups = 0

OpenSockets == {d \in Sockets : link[d] # "closed"}

\* m_sock is a descriptor whose connection is in one of the states S.
LinkIn(S) == /\ m_sock \in Sockets
             /\ link[m_sock] \in S

-----------------------------------------------------------------------------
\* Mutant of CleanWith: the count is not kept from going below zero.
CleanUnbalanced(l) ==
    /\ startups' = IF Win32 THEN startups - 1 ELSE startups
    /\ link' = IF Win32 /\ startups = 1 THEN [d \in Sockets |-> "closed"] ELSE l

(* Clean(), called when the descriptors are as in l.                       *)
CleanWith(l) ==
    /\ startups' = IF Win32 /\ startups > 0 THEN startups - 1 ELSE startups
    /\ link' = IF Win32 /\ startups = 1
                 THEN [d \in Sockets |-> "closed"]
                 ELSE l

Clean == CleanWith(link)

(* Close(): closes the descriptor and then cleans up; m_sock keeps the     *)
(* number of the closed descriptor.                                        *)
Close == CleanWith([d \in Sockets |-> IF d = m_sock THEN "closed" ELSE link[d]])

(* The first half of Connect(): Init() and Create().  The old value of     *)
(* m_sock is overwritten without being closed, also when socket() fails,   *)
(* which it may do at any time and does when no descriptor is left.        *)
CreateOk ==
    /\ startups' = IF Win32 THEN startups + 1 ELSE startups
    /\ \E d \in Sockets :
          /\ link[d] = "closed"
          /\ link' = [link EXCEPT ![d] = "new"]
          /\ m_sock' = d

CreateFails ==
    /\ startups' = IF Win32 THEN startups + 1 ELSE startups
    /\ m_sock' = INVALID_SOCKET
    /\ UNCHANGED link

(* The second half: connect() and ioctlsocket() or fcntl().                *)
ConnectOk ==                                        \* returns true
    /\ LinkIn({"new"})
    /\ link' = [link EXCEPT ![m_sock] = "est"]
    /\ UNCHANGED <<m_sock, startups>>

ConnectRefused ==                                   \* returns false
    /\ Win32 => LinkIn(LinkStates \ {"closed"})
    /\ UNCHANGED sockVars

\* ioctlsocket() fails, as it must when m_sock is not an open descriptor.
ConnectUnusable ==                                  \* returns false
    /\ Win32
    /\ Close
    /\ UNCHANGED m_sock

ConnectFails == ConnectRefused \/ ConnectUnusable

\* Mutants of CheckFails: no Clean() after an error; no Close() of a finished
\* connection; EWOULDBLOCK taken for an error.
CheckErrorKept ==
    \/ LinkIn({"fin"}) /\ Close /\ UNCHANGED m_sock
    \/ ~LinkIn({"fin", "est"}) /\ UNCHANGED sockVars

CheckFinKept ==
    \/ ~LinkIn({"closed", "new", "err", "est"}) /\ UNCHANGED sockVars
    \/ LinkIn({"closed", "new", "err"}) /\ Clean /\ UNCHANGED m_sock

CheckBlockFails ==
    \/ m_sock = INVALID_SOCKET /\ UNCHANGED sockVars
    \/ LinkIn({"fin"}) /\ Close /\ UNCHANGED m_sock
    \/ LinkIn({"closed", "new", "err", "est"}) /\ Clean /\ UNCHANGED m_sock

(* Check(): a MSG_PEEK read.  Nothing is done for an invalid m_sock; a     *)
(* finished connection is closed; any other error only cleans up.          *)
CheckHolds == LinkIn({"est"}) /\ UNCHANGED sockVars

CheckFails ==
    \/ /\ m_sock = INVALID_SOCKET
       /\ UNCHANGED sockVars
    \/ /\ LinkIn({"fin"})
       /\ Close
       /\ UNCHANGED m_sock
    \/ /\ LinkIn({"closed", "new", "err"})
       /\ Clean
       /\ UNCHANGED m_sock

\* One send() of the loop in Send() can be accepted by the system.
CanSend == LinkIn({"est", "fin"})

-----------------------------------------------------------------------------
(* The network and the server: a connection is closed in order or breaks.  *)
PeerCloses ==
    \E d \in Sockets :
       /\ link[d] = "est"
       /\ link' = [link EXCEPT ![d] = "fin"]
       /\ UNCHANGED <<m_sock, startups>>

LinkBreaks ==
    \E d \in Sockets :
       /\ link[d] \in {"est", "fin"}
       /\ link' = [link EXCEPT ![d] = "err"]
       /\ UNCHANGED <<m_sock, startups>>
=============================================================================
