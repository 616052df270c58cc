-------------------------- MODULE MCLiveWriteBack --------------------------
(* Model values for LiveWriteBack: one workload with two containers in the *)
(* same list.                                                              *)
EXTENDS LiveWriteBack

CONSTANTS c1, c2

BothMain == [c \in {c1, c2} |-> "main"]
=============================================================================
