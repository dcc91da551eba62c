--------------------------- MODULE MCFtpCommands ---------------------------
(* One peer knows the password, the other does not. *)
EXTENDS FtpCommands

CONSTANTS insider, secret

MCKnows == [c \in Sessions |-> IF c = insider THEN {secret} ELSE {}]
=============================================================================
