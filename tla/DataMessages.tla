---------------------------- MODULE DataMessages ----------------------------
(***************************************************************************)
(* The messages of Classes/Data (package GameMessage, proto3): the types   *)
(* of the fields of each, which are numbered from 1 in this order.         *)
(*                                                                         *)
(* A field has no presence here: one that was never set holds the zero of  *)
(* its type, and the zero of a type is not written.  An enumeration is     *)
(* open: any number is kept.                                               *)
(***************************************************************************)
EXTENDS WireFormat

LoginRequest == <<"int32", "string", "string", "LoginType", "int64", "int32",
                  "string", "string">>
LoginResponse == <<"int32", "bool", "int64", "int64", "int64">>
QuitRequest == <<"int32", "int64">>
QuitResponse == <<"int32", "int32">>
LoginSubGameRequest == <<"int32", "int64", "int32", "int32">>
LoginSubGameResponse == <<"int32", "int32">>
QuitSubGameRequest == <<"int32", "int64">>
QuitSubGameResponse == <<"int32", "int32">>
SystemErrorResponse == <<"int32", "SystemErrorCode", "bytes">>
HeartRequest == <<"int32">>
HeartResponse == <<"int32", "int64">>
UdpConnectRequest == <<"int32", "int64", "int64">>
UdpConnectResponse == <<"int32", "int32">>

Fields ==
    [LoginRequest |-> LoginRequest, LoginResponse |-> LoginResponse,
     QuitRequest |-> QuitRequest, QuitResponse |-> QuitResponse,
     LoginSubGameRequest |-> LoginSubGameRequest,
     LoginSubGameResponse |-> LoginSubGameResponse,
     QuitSubGameRequest |-> QuitSubGameRequest,
     QuitSubGameResponse |-> QuitSubGameResponse,
     SystemErrorResponse |-> SystemErrorResponse,
     HeartRequest |-> HeartRequest, HeartResponse |-> HeartResponse,
     UdpConnectRequest |-> UdpConnectRequest,
     UdpConnectResponse |-> UdpConnectResponse]

\* What a constructor leaves in a field.
Unset(type) == IF IsText(type) THEN <<>> ELSE Zero
=============================================================================
