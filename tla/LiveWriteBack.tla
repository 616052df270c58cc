---------------------------- MODULE LiveWriteBack ----------------------------
(***************************************************************************)
(* The workload controller with write-back: live. The pending images are   *)
(* set on the copy read from the cache and sent as a JSON merge patch      *)
(* against that copy (patchLive). A merge patch has no list elements: the  *)
(* list of a pending container is sent whole, every container in it as the *)
(* copy has it. It names no resourceVersion, so it is applied to whatever  *)
(* is stored by then.                                                      *)
(***************************************************************************)
EXTENDS WorkloadReconciler

\* The containers sent with the patch: all those in a list with a pending one.
Sent == {c \in Containers : \E d \in Pending : ListOf[c] = ListOf[d]}

\* Variant: the tag alone is written as the image.
DesiredTag(c) == IF c \in Pending THEN job.pending[c].latest.tag ELSE job.obj.image[c]

Desired(c) == IF c \in Pending THEN job.pending[c].latest ELSE job.obj.image[c]

\* The last-updated annotations after the merge: one is in the patch when its
\* value differs from the copy's.
LastUpdated(obj) ==
    [c \in Containers |->
        IF c \in Pending /\ Desired(c) # job.obj.last[c] THEN Desired(c) ELSE obj.last[c]]

\* The stored object after the merge.
Merged(obj) ==
    [obj EXCEPT
       !.image = [c \in Containers |-> IF c \in Sent THEN Desired(c) ELSE @[c]],
       !.last  = LastUpdated(obj)]

PatchLive ==
    /\ Ready("live")
    /\ LET w == job.workload
       IN /\ wl[w] # None
          /\ IF Merged(wl[w]) = wl[w]
             THEN UNCHANGED <<wl, wlWatch>>
             ELSE Len(wlWatch[w]) < MaxLag /\ WriteWorkload(w, Merged(wl[w]))
    /\ Return
    /\ UNCHANGED <<wlCache, ip, ipWatch, ipCache, queue, edits>>

\* Variant: the error of the patch is logged and swallowed.
PatchFailsSwallowed ==
    /\ Ready("live")
    /\ Return
    /\ UNCHANGED <<wl, wlWatch, wlCache, ip, ipWatch, ipCache, queue, edits>>

\* The workload is gone, or the API server refuses.
PatchFails ==
    /\ Ready("live")
    /\ ReturnError
    /\ UNCHANGED <<wl, wlWatch, wlCache, ip, ipWatch, ipCache, queue, edits>>

Next ==
    \/ Environment
    \/ Controller
    \/ PatchLive
    \/ PatchFails

Spec == Init /\ [][Next]_vars

\* As for the policy controller: deliveries and timers come, the worker takes
\* every request and finishes it, and patches tried again and again are
\* accepted.
Fairness ==
    /\ \A w \in Workloads :
          /\ WF_vars(DeliverWorkload(w))
          /\ WF_vars(DelayElapsed(w))
          /\ SF_vars(Skip(w))
          /\ SF_vars(Begin(w))
    /\ \A p \in Policies : WF_vars(DeliverPolicy(p))
    /\ \A c \in Containers : WF_vars(Evaluate(c))
    /\ WF_vars(NothingPending)
    /\ WF_vars(PatchFails)
    /\ SF_vars(PatchLive)

FairSpec == Spec /\ Fairness

-----------------------------------------------------------------------------
TypeOK == ReconcilerTypeOK

\* An update that is due, by the stored workload and the stored policy, is
\* never forgotten: whatever came in which order over the two watches, a
\* reconcile of the workload is ahead. There is no periodic resync behind it.
UpdateNotForgotten ==
    \A w \in Workloads, c \in Containers : Outstanding(w, c) => Expected(w, c)

\* Left alone, the operator applies every update that is due, but those of
\* policies that have been suspended, and then writes nothing more, although
\* each of its patches wakes it again. Of the updates of a suspended policy
\* SuspendPausesUpdates speaks.
UpdatesApplied ==
    /\ <>[](\A w \in Workloads, c \in Containers :
              Outstanding(w, c) => ip[wl[w].policy[c]].suspend)
    /\ <>[][wl' = wl]_vars

\* README.md:289, imagepolicy_types.go:158: spec.suspend pauses the scanning and
\* the updates of a policy. So no patch changes an image for a policy whose copy,
\* as the reconcile read it, says that it is suspended.
SuspendPausesUpdates ==
    [][PatchLive =>
         \A w \in Workloads, c \in Pending :
            wl'[w] # wl[w] /\ wl'[w].image[c] # wl[w].image[c]
                => ~job.pending[c].suspend]_vars

\* An image the operator puts into a container is the one selected for it: a
\* patch changes no other container.
OnlySelectedImagesWritten ==
    [][PatchLive =>
         \A w \in Workloads, c \in Containers :
            wl'[w] # wl[w] /\ wl'[w].image[c] # wl[w].image[c] => c \in Pending]_vars
=============================================================================
