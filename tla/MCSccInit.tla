----------------------------- MODULE MCSccInit -----------------------------
(* Three sccs of google/protobuf/type.pb.cc: Type needs Field and Option,  *)
(* and Field needs Option.                                                 *)
EXTENDS SccInit

CONSTANTS Type, Field, Option

MCDeps == [s \in Sccs |-> IF s = Type THEN {Field, Option}
                          ELSE IF s = Field THEN {Option} ELSE {}]
MCRank == [s \in Sccs |-> IF s = Type THEN 2 ELSE IF s = Field THEN 1 ELSE 0]
=============================================================================
