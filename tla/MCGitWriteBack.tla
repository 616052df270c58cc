--------------------------- MODULE MCGitWriteBack ---------------------------
(* Model values for GitWriteBack.                                          *)
EXTENDS GitWriteBack

CONSTANTS c1, c2

AllMain == [c \in Containers |-> "main"]
=============================================================================
