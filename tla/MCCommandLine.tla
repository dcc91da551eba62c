--------------------------- MODULE MCCommandLine ---------------------------
(* A prefix of two characters stands for "ftpii_". *)
EXTENDS CommandLine

MCLower == [c \in {" ", "/", "f", "F", "_"} |-> IF c = "F" THEN "f" ELSE c]

MCPrefix == <<"f", "_">>
=============================================================================
