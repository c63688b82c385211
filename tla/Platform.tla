------------------------------ MODULE Platform ------------------------------
(* What the compiler decides about the code that handles bytes.            *)
CONSTANT CharSigned      \* TRUE where char is signed, as on x86

ASSUME CharSignedAssumption == CharSigned \in BOOLEAN
=============================================================================
