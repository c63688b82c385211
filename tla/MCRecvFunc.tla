----------------------------- MODULE MCRecvFunc -----------------------------
(* Instances of RecvFunc for TLC, with ids of Mid.proto.                   *)
EXTENDS RecvFunc

\* A message of which every field is left out, and one of two bytes.
MCMessages == {[id |-> WordOf(10012), msg |-> <<>>],
               [id |-> WordOf(20020), msg |-> <<8, 200>>]}

\* UdpConnectRes with result = 0: field 2, varint 0.
MCZeroMessages == {[id |-> WordOf(10014), msg |-> <<16, 0>>]}
=============================================================================
