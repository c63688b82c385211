----------------------------- MODULE MCTcpClient -----------------------------
(* Instances of TcpClient for TLC.                                         *)
EXTENDS TcpClient

\* The first message is cut in two, the others go in one piece.
MCUnits == [m \in Msgs |-> IF m = 1 THEN 2 ELSE 1]
=============================================================================
