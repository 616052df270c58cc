---------------------------- MODULE MCGitOpsLoop ----------------------------
(* Model values for GitOpsLoop, and one initial state for all that differ  *)
(* by the names of repositories and tags or by a synchronisation.          *)
EXTENDS GitOpsLoop

CONSTANTS c1, c2, r1, t1

AllMain == [c \in Containers |-> "main"]

MCInit ==
    /\ GitInit
    /\ \A w \in Workloads : wl[w] = Synced(w)
    /\ \A p \in Policies :
          ip[p] # None =>
              /\ ip[p].repo = r1
              /\ ip[p].latest # None => ip[p].latest.tag = t1

MCLoopSpec == MCInit /\ [][LoopNext]_allVars /\ LoopFairness
=============================================================================
