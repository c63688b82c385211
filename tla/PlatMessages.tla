---------------------------- MODULE PlatMessages ----------------------------
(***************************************************************************)
(* The messages of Classes/Messages (package PlatPmd, proto2), generated   *)
(* from proto/*.proto: the types of the fields of each.                    *)
(*                                                                         *)
(* A field has a bit that says whether it was set, and is written when it  *)
(* was, whatever it holds.  One that was not set reads as its default.  A  *)
(* number that an enumeration does not know goes to the unknown fields.    *)
(***************************************************************************)
EXTENDS WireFormat

LoginRequest == <<"MID", "string", "string", "LoginType", "int64", "int32",
                  "string", "string">>
LoginResponse == <<"MID", "bool", "int64", "int64", "int64">>
QuitRequest == <<"MID", "int64">>
QuitResponse == <<"MID", "int32">>
LoginSubGameRequest == <<"MID", "int64", "int32", "int32">>
LoginSubGameResponse == <<"MID", "int32">>
QuitSubGameRequest == <<"MID", "int64">>
QuitSubGameResponse == <<"MID", "int32">>
SystemErrorResponse == <<"MID", "SystemErrorCode", "string">>
HeartRequest == <<"MID">>
HeartResponse == <<"MID", "int64">>
UdpConnectRequest == <<"MID", "int64", "int64">>
UdpConnectResponse == <<"MID", "int32">>

Fields ==
    [LoginRequest |-> LoginRequest, LoginResponse |-> LoginResponse,
     QuitRequest |-> QuitRequest, QuitResponse |-> QuitResponse,
     LoginSubGameRequest |-> LoginSubGameRequest,
     LoginSubGameResponse |-> LoginSubGameResponse,
     QuitSubGameRequest |-> QuitSubGameRequest,
     QuitSubGameResponse |-> QuitSubGameResponse,
     SystemErrorResponse |-> SystemErrorResponse,
     HeartRequest |-> HeartRequest, HeartResponse |-> HeartResponse,
     UdpConnectRequest |-> UdpConnectRequest,
     UdpConnectResponse |-> UdpConnectResponse]

\* A field without its bit: no value.
Absent == << -1 >>

\* The numbers of Mid.proto.
MIDs == 1001 .. 1008 \cup (10001 .. 10034 \ {10005}) \cup
        (20001 .. 20020 \ {20007, 20009, 20011})
MID_IsValid(v) == \E n \in MIDs : v = NumOf(n)

LoginType_IsValid(v) == v = One

SystemErrorCode_IsValid(v) == v \in {One, NumOf(2), NumOf(3)}

\* Whether the value v that was read for a field is stored in it.
IsValid(type, v) == /\ type = "MID" => MID_IsValid(v)
                    /\ type = "LoginType" => LoginType_IsValid(v)
                    /\ type = "SystemErrorCode" => SystemErrorCode_IsValid(v)

\* The number of the message itself, the default of its field 1.
MidOf ==
    [LoginRequest |-> 10001, LoginResponse |-> 10002,
     LoginSubGameRequest |-> 10003, LoginSubGameResponse |-> 10004,
     SystemErrorResponse |-> 10006,
     QuitRequest |-> 10007, QuitResponse |-> 10008,
     QuitSubGameRequest |-> 10009, QuitSubGameResponse |-> 10010,
     HeartRequest |-> 10011, HeartResponse |-> 10012,
     UdpConnectRequest |-> 10013, UdpConnectResponse |-> 10014]

\* Mutant of Default: an enumeration begins with 0, as in Classes/Data.
DefaultZero(message, type) ==
    IF type = "MID" THEN NumOf(MidOf[message]) ELSE IF IsText(type) THEN <<>> ELSE Zero

\* What the accessor of a field without its bit returns.
Default(message, type) ==
    IF type = "MID" THEN NumOf(MidOf[message])
    ELSE IF type \in {"LoginType", "SystemErrorCode"} THEN One
    ELSE IF IsText(type) THEN <<>> ELSE Zero

\* Mutant of IsInitialized: nothing is required.
IsInitializedAlways(message, fields) == TRUE

\* Only rid of LoginSubGameRequest is required.
IsInitialized(message, fields) ==
    message = "LoginSubGameRequest" => fields[2] # Absent
=============================================================================
