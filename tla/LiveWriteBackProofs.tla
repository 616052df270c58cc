------------------------ MODULE LiveWriteBackProofs ------------------------
(***************************************************************************)
(* Proofs about LiveWriteBack for every set of workloads, containers,      *)
(* policies and tags and every bound: its types, and that no update that   *)
(* is due is ever forgotten.                                               *)
(***************************************************************************)
EXTENDS LiveWriteBack, WorkloadReconcilerProofs

\* The inductive invariant.
LiveInv == ReconcilerInv /\ UpdateNotForgotten

LEMMA NothingForgottenIsEnough ==
    ASSUME UpdateNotForgotten, NothingForgotten PROVE UpdateNotForgotten'
  BY DEF UpdateNotForgotten, NothingForgotten, Forgotten

\* A patched workload is a workload.
LEMMA MergedTyped ==
    ASSUME ReconcilerInv, job # None, NEW obj \in Workload
    PROVE  Merged(obj) \in Workload
  <1> DEFINE image == [c \in Containers |-> IF c \in Sent THEN Desired(c) ELSE obj.image[c]]
  <1>1. /\ job.obj \in Workload
        /\ job.pending \in [Containers -> Policy \cup {None}]
    BY DEF ReconcilerInv, ReconcilerTypeOK, Job
  <1>2. \A c \in Containers : Desired(c) \in Image \cup {None}
    BY <1>1 DEF Desired, Pending, Policy, Workload
  <1>3. image \in [Containers -> Image \cup {None}]
    BY <1>2 DEF Workload
  <1>4. LastUpdated(obj) \in [Containers -> Image \cup {None}]
    BY <1>2 DEF LastUpdated, Workload
  <1>5. Merged(obj) = [obj EXCEPT !.image = image, !.last = LastUpdated(obj)]
    BY DEF Merged, Workload
  <1> HIDE DEF image
  <1> QED
    BY <1>3, <1>4, <1>5 DEF Workload

LEMMA PatchLiveKeeps == LiveInv /\ PatchLive => LiveInv'
  <1> SUFFICES ASSUME LiveInv, PatchLive PROVE LiveInv'
    OBVIOUS
  <1> DEFINE w == job.workload
  <1>1. /\ ReconcilerInv /\ job # None /\ job.left = {} /\ w \in Workloads
        /\ wl[w] # None /\ wl[w] \in Workload /\ Return
        /\ UNCHANGED <<wlCache, ip, ipWatch, ipCache, queue, edits>>
    BY DEF LiveInv, PatchLive, Ready, ReconcilerInv, ReconcilerTypeOK, Job
  <1>2. CASE Merged(wl[w]) = wl[w]
    <2>1. UNCHANGED <<stores, queue>>
      BY <1>1, <1>2 DEF PatchLive, stores
    <2>2. ASSUME NEW c \in Pending PROVE wl[w].image[c] = job.pending[c].latest
      <3>1. c \in Containers /\ c \in Sent
        BY <2>2 DEF Pending, Sent
      <3>2. Merged(wl[w]).image[c] = Desired(c)
        BY <1>1, <3>1 DEF Merged, Workload
      <3> QED
        BY <1>2, <2>2, <3>2 DEF Desired
    <2>3. \A v \in Workloads, c \in Containers : ~Forgotten(v, c)'
      <3> SUFFICES ASSUME NEW v \in Workloads, NEW c \in Containers, Forgotten(v, c)'
                   PROVE  FALSE
        OBVIOUS
      <3>1. ~Forgotten(v, c)
        BY DEF LiveInv, UpdateNotForgotten, Forgotten
      <3>2. /\ v = w /\ c \in Pending /\ Outstanding(v, c)
            /\ job.pending[c] = ip[wl[w].policy[c]]
        BY <1>1, <2>1, <3>1, ReturnKeeps
      <3> QED
        BY <2>2, <3>2 DEF Outstanding, Due
    <2>4. ReconcilerInv'
      BY <1>1, <2>1, ReturnKeeps
    <2> QED
      BY <2>3, <2>4 DEF LiveInv, UpdateNotForgotten, Forgotten
  <1>3. CASE Merged(wl[w]) # wl[w]
    <2>1. Len(wlWatch[w]) < MaxLag /\ WriteWorkload(w, Merged(wl[w]))
      BY <1>3 DEF PatchLive
    <2>2. Merged(wl[w]) \in Workload
      BY <1>1, MergedTyped
    <2>3. /\ wl' \in [Workloads -> Workload \cup {None}]
          /\ wlWatch' \in [Workloads -> Seq(Workload \cup {None})]
          /\ \A v \in Workloads : Len(wlWatch'[v]) <= MaxLag
          /\ wlWatch'[w] # <<>>
          /\ \A v \in Workloads \ {w} : wl'[v] = wl[v] /\ wlWatch'[v] = wlWatch[v]
          /\ \A v \in Workloads :
                wl'[v] = IF wlWatch'[v] = <<>> THEN wlCache'[v]
                                               ELSE wlWatch'[v][Len(wlWatch'[v])]
      BY <1>1, <2>1, <2>2, WriteWorkloadEffect
    <2>4. /\ job' = None
          /\ delayed \subseteq delayed' /\ delayed' \subseteq delayed \cup {w}
      BY <1>1 DEF Return
    <2>5. ReconcilerInv'
      BY <1>1, <2>3, <2>4 DEF ReconcilerInv, ReconcilerTypeOK, CachesFollowStore,
            JobIsCurrent, PendingIsDue
    <2>6. UpdateNotForgotten'
      BY <1>1, <2>3, <2>4 DEF LiveInv, UpdateNotForgotten, Outstanding, Expected
    <2> QED
      BY <2>5, <2>6 DEF LiveInv
  <1> QED
    BY <1>2, <1>3

LEMMA PatchFailsKeeps == LiveInv /\ PatchFails => LiveInv'
  <1> SUFFICES ASSUME LiveInv, PatchFails PROVE LiveInv'
    OBVIOUS
  <1>1. /\ ReconcilerInv /\ job # None /\ job.left = {} /\ ReturnError
        /\ UNCHANGED <<stores, queue>>
    BY DEF LiveInv, PatchFails, Ready, stores
  <1>2. ReconcilerInv' /\ NothingForgotten
    BY <1>1, ReturnKeeps
  <1> QED
    BY <1>2, NothingForgottenIsEnough DEF LiveInv

\* The inductive invariant holds in every reachable state.
THEOREM LiveInvariance == Spec => []LiveInv
  <1>1. Init => LiveInv
    BY InitReconciler DEF LiveInv, UpdateNotForgotten, Forgotten
  <1>2. LiveInv /\ [Next]_vars => LiveInv'
    <2> SUFFICES ASSUME LiveInv, [Next]_vars PROVE LiveInv'
      OBVIOUS
    <2>1. CASE Environment \/ Controller \/ UNCHANGED vars
      <3>1. ReconcilerInv' /\ NothingForgotten
        BY <2>1, EnvironmentKeeps, ControllerKeeps, StutterKeeps DEF LiveInv
      <3> QED
        BY <3>1, NothingForgottenIsEnough DEF LiveInv
    <2> QED
      BY <2>1, PatchLiveKeeps, PatchFailsKeeps DEF Next
  <1> QED
    BY <1>1, <1>2, PTL DEF Spec

\* The variables of the live write-back keep their types.
THEOREM LiveTypeCorrect == Spec => []TypeOK
  <1>1. LiveInv => TypeOK
    BY DEF LiveInv, ReconcilerInv, TypeOK
  <1> QED
    BY <1>1, LiveInvariance, PTL

\* No update that is due is forgotten: whatever came in which order over the
\* two watches, failed, was lost in a restart or lost a race, a reconcile of
\* the workload is ahead.
THEOREM UpdatesAreNotForgotten == Spec => []UpdateNotForgotten
  <1>1. LiveInv => UpdateNotForgotten
    BY DEF LiveInv
  <1> QED
    BY <1>1, LiveInvariance, PTL

=============================================================================
