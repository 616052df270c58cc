------------------------------ MODULE GitOpsLoop ------------------------------
(***************************************************************************)
(* The Git write-back in the loop it is made for: a GitOps controller (Argo *)
(* CD, Flux) renders the branch and sets the live images to it, which the   *)
(* operator's watch hears. The operator never touches the live object, so   *)
(* only this loop ends an update.                                           *)
(***************************************************************************)
EXTENDS GitWriteBack

\* A kustomization's images entry overrides the tag of the manifests it wraps.
Rendered(w, c) ==
    LET i == branch.image[<<w, c>>]
    IN IF target[w] = "kustomize" /\ branch.newTag[i.repo] # None
       THEN [i EXCEPT !.tag = branch.newTag[i.repo]]
       ELSE i

\* The rendered images, where the pod has the container at all.
Synced(w) ==
    [wl[w] EXCEPT !.image = [c \in Containers |-> IF @[c] = None THEN None
                                                  ELSE Rendered(w, c)]]

Sync(w) ==
    /\ wl[w] # None
    /\ wl[w] # Synced(w)
    /\ Len(wlWatch[w]) < MaxLag
    /\ WriteWorkload(w, Synced(w))
    /\ UNCHANGED <<wlCache, ip, ipWatch, ipCache, queue, delayed, job, edits,
                   target, branch, tree, lapsed, authors>>

LoopNext == GitNext \/ \E w \in Workloads : Sync(w)

\* Deliveries, timers and synchronisations come, the worker takes every request
\* and finishes it, and a branch cloned again and again is cloned. Nothing is
\* assumed of edits and pushes but that they end.
LoopFairness ==
    /\ \A w \in Workloads :
          /\ WF_allVars(Sync(w))
          /\ WF_allVars(DeliverWorkload(w) /\ Beside)
          /\ WF_allVars(DelayElapsed(w) /\ Beside)
          /\ SF_allVars(Skip(w) /\ Beside)
          /\ SF_allVars(Begin(w) /\ Beside)
    /\ \A p \in Policies : WF_allVars(DeliverPolicy(p) /\ Beside)
    /\ \A c \in Containers :
          /\ WF_allVars(Evaluate(c) /\ Beside)
          /\ WF_allVars(EditTarget(c) \/ EditFails(c))
    /\ WF_allVars(NothingPending /\ Beside)
    /\ SF_allVars(CloneBranch)
    /\ WF_allVars(NothingToCommit)
    /\ WF_allVars(Push \/ PushFails)

LoopSpec == GitInit /\ [][LoopNext]_allVars /\ LoopFairness

-----------------------------------------------------------------------------
\* Once Git carries the selected tags, reconciles make no further commits,
\* though each synchronisation of the live object wakes the operator.
CommitsEnd == <>[][branch' = branch]_allVars

\* No edit can bring the update to the container: the policy has moved and not
\* been scanned since, or the entry, whose repository the write-back keeps (a
\* Helm file without a key for it, a kustomization, a manifest), is of another
\* repository. Of neither does the operator tell (edit.go:138, 154): the edit
\* changes nothing, or not what the container goes by, and reports no error.
OutOfReach(w, c) ==
    LET pol == ip[wl[w].policy[c]]
    IN \/ pol.latest.repo # pol.repo
       \/ target[w] # "helm" /\ branch.image[<<w, c>>].repo # pol.repo

\* Left alone, the loop settles: commits end, and every update that is due, of a
\* policy that is not suspended, reaches the live object through Git, but where
\* a write-back failed quietly, others have changed the branch since it was
\* cloned, or the entry is out of its reach.
LoopSettles ==
    /\ CommitsEnd
    /\ <>[](\A w \in Workloads, c \in Containers :
              Outstanding(w, c) =>
                  \/ ip[wl[w].policy[c]].suspend
                  \/ w \in lapsed
                  \/ OutOfReach(w, c))
=============================================================================
