---------------------- MODULE WorkloadReconcilerProofs ----------------------
(***************************************************************************)
(* Lemmas about the steps every write-back method shares, for every set of *)
(* workloads, containers, policies and tags and every bound: they keep     *)
(* ReconcilerInv, and none of them leaves an update that is due without a  *)
(* reconcile ahead of it.                                                  *)
(***************************************************************************)
EXTENDS WorkloadReconciler, SequenceLemmas

USE ReconcilerConstants, NoneIsNoObject

-----------------------------------------------------------------------------
(* Objects.                                                                *)

\* What a new object is: no approval, nothing written yet.
LEMMA NewWorkloadTyped ==
    ASSUME NEW i \in [Containers -> Image], NEW f \in [Containers -> Policies],
           NEW o \in Modes \cup {None}, NEW m \in Methods
    PROVE  NewWorkload(i, f, o, m) \in Workload
  BY DEF NewWorkload, Workload

\* The edits of one field of a workload.
LEMMA EditedWorkloadTyped ==
    ASSUME NEW obj \in Workload, NEW c \in Containers
    PROVE  /\ \A i \in Image \cup {None} : [obj EXCEPT !.image[c] = i] \in Workload
           /\ \A p \in Policies \cup {None} : [obj EXCEPT !.policy[c] = p] \in Workload
           /\ \A t \in Tags : [obj EXCEPT !.approved[c] = t] \in Workload
  <1>1. \A i \in Image \cup {None} : [obj EXCEPT !.image[c] = i] \in Workload
    BY DEF Workload
  <1>2. \A p \in Policies \cup {None} : [obj EXCEPT !.policy[c] = p] \in Workload
    BY DEF Workload
  <1>3. \A t \in Tags : [obj EXCEPT !.approved[c] = t] \in Workload
    BY DEF Workload
  <1> QED
    BY <1>1, <1>2, <1>3

\* The edits of a policy.
LEMMA EditedPolicyTyped ==
    ASSUME NEW pol \in Policy
    PROVE  /\ \A r \in Repos, m \in Modes, s \in BOOLEAN :
                 [pol EXCEPT !.repo = r, !.mode = m, !.suspend = s] \in Policy
           /\ \A t \in Tags :
                 [pol EXCEPT !.latest = [repo |-> pol.repo, tag |-> t]] \in Policy
  BY DEF Policy, Image

-----------------------------------------------------------------------------
(* What a step leaves without a reconcile was so before it, and is the     *)
(* same update.                                                            *)

NothingForgotten ==
    \A w \in Workloads, c \in Containers :
        Forgotten(w, c)' => /\ Forgotten(w, c)
                            /\ wl'[w] = wl[w]
                            /\ ip'[wl[w].policy[c]] = ip[wl[w].policy[c]]

\* Writes from outside.

LEMMA WriteWorkloadEffect ==
    ASSUME ReconcilerInv, NEW w \in Workloads, NEW obj \in Workload \cup {None},
           Len(wlWatch[w]) < MaxLag, WriteWorkload(w, obj), UNCHANGED wlCache
    PROVE  /\ wl' \in [Workloads -> Workload \cup {None}]
           /\ wlWatch' \in [Workloads -> Seq(Workload \cup {None})]
           /\ \A v \in Workloads : Len(wlWatch'[v]) <= MaxLag
           /\ wlWatch'[w] # <<>>
           /\ \A v \in Workloads \ {w} : wl'[v] = wl[v] /\ wlWatch'[v] = wlWatch[v]
           /\ \A v \in Workloads :
                 wl'[v] = IF wlWatch'[v] = <<>> THEN wlCache'[v]
                                                ELSE wlWatch'[v][Len(wlWatch'[v])]
  <1>1. /\ wl \in [Workloads -> Workload \cup {None}]
        /\ wlWatch \in [Workloads -> Seq(Workload \cup {None})]
        /\ \A v \in Workloads : Len(wlWatch[v]) <= MaxLag
    BY DEF ReconcilerInv, ReconcilerTypeOK
  <1>2. /\ wlWatch'[w] = Append(wlWatch[w], obj)
        /\ wl'[w] = obj
        /\ wl' \in [Workloads -> Workload \cup {None}]
        /\ \A v \in Workloads \ {w} : wl'[v] = wl[v] /\ wlWatch'[v] = wlWatch[v]
    BY <1>1 DEF WriteWorkload
  <1>3. /\ wlWatch'[w] \in Seq(Workload \cup {None})
        /\ Len(wlWatch'[w]) = Len(wlWatch[w]) + 1
        /\ wlWatch'[w] # <<>>
        /\ wlWatch'[w][Len(wlWatch'[w])] = obj
    <2>1. wlWatch[w] \in Seq(Workload \cup {None})
      BY <1>1
    <2> QED
      BY <1>2, <2>1, NewestAdded
  <1>4. wlWatch' \in [Workloads -> Seq(Workload \cup {None})]
    BY <1>1, <1>2, <1>3 DEF WriteWorkload
  <1>5. \A v \in Workloads : Len(wlWatch'[v]) <= MaxLag
    <2>1. Len(wlWatch[w]) \in Nat
      BY <1>1
    <2> QED
      BY <1>1, <1>2, <1>3, <2>1
  <1> QED
    BY <1>2, <1>3, <1>4, <1>5 DEF ReconcilerInv, CachesFollowStore

LEMMA EditWorkloadKeeps ==
    ASSUME ReconcilerInv, NEW w \in Workloads, NEW obj \in Workload \cup {None},
           Len(wlWatch[w]) < MaxLag, WriteWorkload(w, obj), edits' \in 0..MaxEdits,
           UNCHANGED <<wlCache, ip, ipWatch, ipCache, queue, delayed, job>>
    PROVE  ReconcilerInv' /\ NothingForgotten
  <1>1. /\ wl' \in [Workloads -> Workload \cup {None}]
        /\ wlWatch' \in [Workloads -> Seq(Workload \cup {None})]
        /\ \A v \in Workloads : Len(wlWatch'[v]) <= MaxLag
        /\ wlWatch'[w] # <<>>
        /\ \A v \in Workloads \ {w} : wl'[v] = wl[v] /\ wlWatch'[v] = wlWatch[v]
        /\ \A v \in Workloads :
              wl'[v] = IF wlWatch'[v] = <<>> THEN wlCache'[v]
                                             ELSE wlWatch'[v][Len(wlWatch'[v])]
    BY WriteWorkloadEffect
  <1>2. ReconcilerTypeOK'
    BY <1>1 DEF ReconcilerInv, ReconcilerTypeOK
  <1>3. CachesFollowStore'
    BY <1>1 DEF ReconcilerInv, CachesFollowStore
  <1>4. \A v \in Workloads, p \in Policies : Quiet(v, p)' => v # w /\ Quiet(v, p)
    BY <1>1 DEF Quiet
  <1>5. JobIsCurrent' /\ PendingIsDue'
    <2>1. job # None => /\ job.workload \in Workloads
                        /\ \A d \in Evaluated : job.obj.policy[d] \in Policies
      BY DEF ReconcilerInv, ReconcilerTypeOK, Job, Workload, Evaluated, Bound
    <2>2. Evaluated' = Evaluated /\ Pending' = Pending
      BY DEF Evaluated, Pending
    <2>3. JobIsCurrent'
      BY <1>1, <1>4, <2>1, <2>2 DEF ReconcilerInv, JobIsCurrent
    <2> QED
      BY <2>2, <2>3 DEF ReconcilerInv, PendingIsDue
  <1>6. NothingForgotten
    BY <1>1 DEF NothingForgotten, Forgotten, Outstanding, Expected
  <1> QED
    BY <1>2, <1>3, <1>5, <1>6 DEF ReconcilerInv

LEMMA EditPolicyKeeps ==
    ASSUME ReconcilerInv, NEW p \in Policies, NEW pol \in Policy \cup {None},
           EditPolicy(p, pol)
    PROVE  ReconcilerInv' /\ NothingForgotten
  <1>1. /\ ip \in [Policies -> Policy \cup {None}]
        /\ ipWatch \in [Policies -> Seq(Policy \cup {None})]
        /\ \A q \in Policies : Len(ipWatch[q]) <= MaxLag
    BY DEF ReconcilerInv, ReconcilerTypeOK
  <1>2. /\ ipWatch'[p] = Append(ipWatch[p], pol)
        /\ ip'[p] = pol
        /\ ip' \in [Policies -> Policy \cup {None}]
        /\ \A q \in Policies \ {p} : ip'[q] = ip[q] /\ ipWatch'[q] = ipWatch[q]
    BY <1>1 DEF EditPolicy
  <1>3. /\ ipWatch'[p] \in Seq(Policy \cup {None})
        /\ Len(ipWatch'[p]) = Len(ipWatch[p]) + 1
        /\ ipWatch'[p] # <<>>
        /\ ipWatch'[p][Len(ipWatch'[p])] = pol
    <2>1. ipWatch[p] \in Seq(Policy \cup {None})
      BY <1>1
    <2> QED
      BY <1>2, <2>1, NewestAdded
  <1>4. ReconcilerTypeOK'
    <2>1. ipWatch' \in [Policies -> Seq(Policy \cup {None})]
      BY <1>1, <1>2, <1>3 DEF EditPolicy
    <2>2. \A q \in Policies : Len(ipWatch'[q]) <= MaxLag
      <3>1. Len(ipWatch[p]) \in Nat /\ Len(ipWatch[p]) < MaxLag
        BY <1>1 DEF EditPolicy
      <3> QED
        BY <1>1, <1>2, <1>3, <3>1
    <2>3. edits' \in 0..MaxEdits
      BY DEF EditPolicy, ReconcilerInv, ReconcilerTypeOK
    <2> QED
      BY <1>2, <2>1, <2>2, <2>3 DEF EditPolicy, ReconcilerInv, ReconcilerTypeOK
  <1>5. CachesFollowStore'
    BY <1>2, <1>3 DEF EditPolicy, ReconcilerInv, CachesFollowStore
  <1>6. \A v \in Workloads, q \in Policies : Quiet(v, q)' => q # p /\ Quiet(v, q)
    BY <1>2, <1>3 DEF EditPolicy, Quiet
  <1>7. JobIsCurrent' /\ PendingIsDue'
    <2>1. job # None => /\ job.workload \in Workloads
                        /\ \A d \in Evaluated : job.obj.policy[d] \in Policies
      BY DEF ReconcilerInv, ReconcilerTypeOK, Job, Workload, Evaluated, Bound
    <2>2. UNCHANGED <<wl, job>> /\ Evaluated' = Evaluated /\ Pending' = Pending
      BY DEF EditPolicy, Evaluated, Pending
    <2>3. JobIsCurrent'
      BY <1>2, <1>6, <2>1, <2>2 DEF ReconcilerInv, JobIsCurrent
    <2> QED
      BY <2>2, <2>3 DEF ReconcilerInv, PendingIsDue
  <1>8. NothingForgotten
    <2> SUFFICES ASSUME NEW w \in Workloads, NEW c \in Containers, Forgotten(w, c)'
                 PROVE  Forgotten(w, c) /\ ip'[wl[w].policy[c]] = ip[wl[w].policy[c]]
      BY DEF NothingForgotten, EditPolicy
    <2>1. wl[w] # None /\ wl[w].policy[c] # None /\ wl' = wl
      BY DEF Forgotten, Outstanding, EditPolicy
    <2>2. wl[w].policy[c] \in Policies
      BY <2>1 DEF ReconcilerInv, ReconcilerTypeOK, Workload
    <2>3. wl[w].policy[c] # p
      BY <1>3, <2>1 DEF Forgotten, Expected
    <2> QED
      BY <1>2, <2>1, <2>2, <2>3 DEF Forgotten, Outstanding, Expected, EditPolicy
  <1> QED
    BY <1>4, <1>5, <1>7, <1>8 DEF ReconcilerInv

LEMMA RestartKeeps == ReconcilerInv /\ Restart => ReconcilerInv' /\ NothingForgotten
  <1> SUFFICES ASSUME ReconcilerInv, Restart PROVE ReconcilerInv' /\ NothingForgotten
    OBVIOUS
  <1>1. ReconcilerTypeOK'
    <2>1. /\ wlWatch' \in [Workloads -> Seq(Workload \cup {None})]
          /\ ipWatch' \in [Policies -> Seq(Policy \cup {None})]
      BY DEF Restart
    <2>2. \A w \in Workloads : Len(wlWatch'[w]) <= MaxLag
      BY DEF Restart
    <2>3. \A p \in Policies : Len(ipWatch'[p]) <= MaxLag
      BY DEF Restart
    <2> QED
      BY <2>1, <2>2, <2>3 DEF Restart, ReconcilerInv, ReconcilerTypeOK
  <1>2. CachesFollowStore' /\ JobIsCurrent' /\ PendingIsDue'
    BY DEF Restart, CachesFollowStore, JobIsCurrent, PendingIsDue
  <1>3. NothingForgotten
    BY DEF NothingForgotten, Forgotten, Outstanding, Expected, Restart, Annotated, Bound
  <1> QED
    BY <1>1, <1>2, <1>3 DEF ReconcilerInv

LEMMA EnvironmentKeeps == ReconcilerInv /\ Environment => ReconcilerInv' /\ NothingForgotten
  <1> DEFINE Goal == ReconcilerInv' /\ NothingForgotten
  <1> SUFFICES ASSUME ReconcilerInv, Environment PROVE Goal
    OBVIOUS
  <1>1. ASSUME NEW w \in Workloads, NEW obj \in Workload \cup {None}, EditWorkload(w, obj)
        PROVE  Goal
    <2>1. edits' \in 0..MaxEdits
      BY <1>1 DEF EditWorkload, ReconcilerInv, ReconcilerTypeOK
    <2> QED
      BY <1>1, <2>1, EditWorkloadKeeps DEF EditWorkload
  <1>2. \A w \in Workloads : wl[w] # None => wl[w] \in Workload
    BY DEF ReconcilerInv, ReconcilerTypeOK
  <1>3. \A p \in Policies : ip[p] # None => ip[p] \in Policy
    BY DEF ReconcilerInv, ReconcilerTypeOK
  <1>4. CASE Restart
    BY <1>4, RestartKeeps
  <1>5. ASSUME NEW w \in Workloads, CreateWorkload(w) PROVE Goal
    <2>1. PICK i \in Image, p \in Policies, o \in Modes \cup {None}, m \in Methods :
             EditWorkload(w, NewWorkload([c \in Containers |-> i],
                                         [c \in Containers |-> p], o, m))
      BY <1>5 DEF CreateWorkload
    <2>2. /\ [c \in Containers |-> i] \in [Containers -> Image]
          /\ [c \in Containers |-> p] \in [Containers -> Policies]
      OBVIOUS
    <2>3. NewWorkload([c \in Containers |-> i], [c \in Containers |-> p], o, m) \in Workload
      BY <2>2, NewWorkloadTyped
    <2> QED
      BY <1>1, <2>1, <2>3
  <1>6. ASSUME NEW w \in Workloads, DeleteWorkload(w) PROVE Goal
    BY <1>1, <1>6 DEF DeleteWorkload
  <1>7. ASSUME NEW w \in Workloads,
               SetImage(w) \/ Bind(w) \/ Approve(w) \/ Override(w)
        PROVE  Goal
    <2>1. wl[w] \in Workload
      BY <1>2, <1>7 DEF SetImage, Bind, Approve, Override
    <2>2. CASE SetImage(w)
      BY <1>1, <2>1, <2>2, EditedWorkloadTyped DEF SetImage
    <2>3. CASE Bind(w)
      BY <1>1, <2>1, <2>3, EditedWorkloadTyped DEF Bind
    <2>4. CASE Approve(w)
      BY <1>1, <2>1, <2>4, EditedWorkloadTyped DEF Approve
    <2>5. CASE Override(w)
      <3>1. PICK o \in Modes \cup {None} : EditWorkload(w, [wl[w] EXCEPT !.override = o])
        BY <2>5 DEF Override
      <3>2. [wl[w] EXCEPT !.override = o] \in Workload
        BY <2>1, Zenon DEF Workload
      <3> QED
        BY <1>1, <3>1, <3>2
    <2> QED
      BY <1>7, <2>2, <2>3, <2>4, <2>5
  <1>8. ASSUME NEW p \in Policies, CreatePolicy(p) PROVE Goal
    BY <1>8, EditPolicyKeeps DEF CreatePolicy, Policy
  <1>9. ASSUME NEW p \in Policies, DeletePolicy(p) PROVE Goal
    BY <1>9, EditPolicyKeeps DEF DeletePolicy
  <1>10. ASSUME NEW p \in Policies, ChangeSpec(p) \/ Publish(p) PROVE Goal
    <2>1. ip[p] \in Policy
      BY <1>3, <1>10 DEF ChangeSpec, Publish
    <2>2. \E pol \in Policy : EditPolicy(p, pol)
      BY <1>10, <2>1, EditedPolicyTyped DEF ChangeSpec, Publish
    <2> QED
      BY <2>2, EditPolicyKeeps
  <1> QED
    BY <1>4, <1>5, <1>6, <1>7, <1>8, <1>9, <1>10 DEF Environment

-----------------------------------------------------------------------------
(* Deliveries.                                                             *)

LEMMA DeliverWorkloadKeeps ==
    ASSUME ReconcilerInv, NEW w \in Workloads, DeliverWorkload(w)
    PROVE  ReconcilerInv' /\ NothingForgotten
  <1>1. /\ wlWatch \in [Workloads -> Seq(Workload \cup {None})]
        /\ wlCache \in [Workloads -> Workload \cup {None}]
        /\ wlWatch[w] # <<>> /\ wlWatch[w] \in Seq(Workload \cup {None})
    BY DEF ReconcilerInv, ReconcilerTypeOK, DeliverWorkload
  <1>2. /\ Head(wlWatch[w]) \in Workload \cup {None}
        /\ Tail(wlWatch[w]) \in Seq(Workload \cup {None})
        /\ Len(Tail(wlWatch[w])) = Len(wlWatch[w]) - 1
        /\ Tail(wlWatch[w]) = <<>> => Head(wlWatch[w]) = wlWatch[w][Len(wlWatch[w])]
        /\ Tail(wlWatch[w]) # <<>> =>
              Tail(wlWatch[w])[Len(Tail(wlWatch[w]))] = wlWatch[w][Len(wlWatch[w])]
    BY <1>1, HeadAndTail
  <1>3. /\ wlWatch'[w] = Tail(wlWatch[w]) /\ wlCache'[w] = Head(wlWatch[w])
        /\ \A v \in Workloads \ {w} : wlWatch'[v] = wlWatch[v] /\ wlCache'[v] = wlCache[v]
        /\ UNCHANGED <<wl, ip, ipWatch, ipCache, delayed, job, edits>>
        /\ queue \subseteq queue' /\ queue' \subseteq queue \cup {w}
    BY <1>1 DEF DeliverWorkload
  <1>4. ReconcilerTypeOK'
    <2>1. /\ wlWatch' \in [Workloads -> Seq(Workload \cup {None})]
          /\ wlCache' \in [Workloads -> Workload \cup {None}]
      BY <1>1, <1>2 DEF DeliverWorkload
    <2>2. \A v \in Workloads : Len(wlWatch'[v]) <= MaxLag
      <3>1. /\ Len(wlWatch[w]) \in Nat
            /\ \A v \in Workloads : Len(wlWatch[v]) <= MaxLag
        BY <1>1 DEF ReconcilerInv, ReconcilerTypeOK
      <3> QED
        <4>1. Len(wlWatch'[w]) <= MaxLag
          BY <1>2, <1>3, <3>1
        <4> QED
          BY <1>3, <3>1, <4>1
    <2> QED
      BY <1>3, <2>1, <2>2 DEF ReconcilerInv, ReconcilerTypeOK
  <1>5. CachesFollowStore'
    BY <1>1, <1>2, <1>3 DEF ReconcilerInv, CachesFollowStore
  <1>6. ASSUME wlWatch'[w] = <<>>, wl[w] # None, NEW p \in Policies, NEW c \in Containers,
               wl[w].policy[c] = p
        PROVE  w \in queue'
    <2>1. Head(wlWatch[w]) = wl[w]
      BY <1>1, <1>2, <1>3, <1>6 DEF ReconcilerInv, CachesFollowStore
    <2>2. Annotated(wl[w])
      BY <1>6 DEF Annotated, Bound
    <2> QED
      BY <1>6, <2>1, <2>2 DEF DeliverWorkload
  <1>7. \A v \in Workloads, p \in Policies : Quiet(v, p)' => Quiet(v, p)
    <2> SUFFICES ASSUME NEW v \in Workloads, NEW p \in Policies, Quiet(v, p)'
                 PROVE  Quiet(v, p)
      OBVIOUS
    <2>1. PICK c \in Containers : wl[v] # None /\ wl[v].policy[c] = p
      BY <1>3 DEF Quiet
    <2>2. v # w
      BY <1>6, <2>1 DEF Quiet
    <2> QED
      BY <1>3, <2>2 DEF Quiet
  <1>8. JobIsCurrent' /\ PendingIsDue'
    <2>1. job # None => /\ job.workload \in Workloads
                        /\ \A d \in Evaluated : job.obj.policy[d] \in Policies
      BY DEF ReconcilerInv, ReconcilerTypeOK, Job, Workload, Evaluated, Bound
    <2>2. Evaluated' = Evaluated /\ Pending' = Pending
      BY <1>3 DEF Evaluated, Pending
    <2>3. JobIsCurrent'
      BY <1>3, <1>7, <2>1, <2>2 DEF ReconcilerInv, JobIsCurrent
    <2> QED
      BY <1>3, <2>2, <2>3 DEF ReconcilerInv, PendingIsDue
  <1>9. NothingForgotten
    <2> SUFFICES ASSUME NEW v \in Workloads, NEW c \in Containers, Forgotten(v, c)'
                 PROVE  Forgotten(v, c)
      BY <1>3 DEF NothingForgotten
    <2>1. Outstanding(v, c) /\ wl[v] # None /\ wl[v].policy[c] \in Policies
      BY <1>3 DEF Forgotten, Outstanding, ReconcilerInv, ReconcilerTypeOK, Workload
    <2>2. v # w
      BY <1>3, <1>6, <2>1 DEF Forgotten, Expected
    <2> QED
      BY <1>3, <2>1, <2>2 DEF Forgotten, Expected
  <1> QED
    BY <1>4, <1>5, <1>8, <1>9 DEF ReconcilerInv

LEMMA DeliverPolicyKeeps ==
    ASSUME ReconcilerInv, NEW p \in Policies, DeliverPolicy(p)
    PROVE  ReconcilerInv' /\ NothingForgotten
  <1>1. /\ ipWatch \in [Policies -> Seq(Policy \cup {None})]
        /\ ipCache \in [Policies -> Policy \cup {None}]
        /\ ipWatch[p] # <<>> /\ ipWatch[p] \in Seq(Policy \cup {None})
    BY DEF ReconcilerInv, ReconcilerTypeOK, DeliverPolicy
  <1>2. /\ Head(ipWatch[p]) \in Policy \cup {None}
        /\ Tail(ipWatch[p]) \in Seq(Policy \cup {None})
        /\ Len(Tail(ipWatch[p])) = Len(ipWatch[p]) - 1
        /\ Tail(ipWatch[p]) = <<>> => Head(ipWatch[p]) = ipWatch[p][Len(ipWatch[p])]
        /\ Tail(ipWatch[p]) # <<>> =>
              Tail(ipWatch[p])[Len(Tail(ipWatch[p]))] = ipWatch[p][Len(ipWatch[p])]
    BY <1>1, HeadAndTail
  <1>3. /\ ipWatch'[p] = Tail(ipWatch[p]) /\ ipCache'[p] = Head(ipWatch[p])
        /\ \A q \in Policies \ {p} : ipWatch'[q] = ipWatch[q] /\ ipCache'[q] = ipCache[q]
        /\ UNCHANGED <<wl, wlWatch, wlCache, ip, delayed, job, edits>>
        /\ queue' = queue \cup WorkloadsForPolicy(p)
    BY <1>1 DEF DeliverPolicy
  <1>4. ReconcilerTypeOK'
    <2>1. /\ ipWatch' \in [Policies -> Seq(Policy \cup {None})]
          /\ ipCache' \in [Policies -> Policy \cup {None}]
      BY <1>1, <1>2 DEF DeliverPolicy
    <2>2. \A q \in Policies : Len(ipWatch'[q]) <= MaxLag
      <3>1. /\ Len(ipWatch[p]) \in Nat
            /\ \A q \in Policies : Len(ipWatch[q]) <= MaxLag
        BY <1>1 DEF ReconcilerInv, ReconcilerTypeOK
      <3>2. Len(ipWatch'[p]) <= MaxLag
        BY <1>2, <1>3, <3>1
      <3> QED
        BY <1>3, <3>1, <3>2
    <2> QED
      BY <1>3, <2>1, <2>2 DEF ReconcilerInv, ReconcilerTypeOK, WorkloadsForPolicy
  <1>5. CachesFollowStore'
    BY <1>1, <1>2, <1>3 DEF ReconcilerInv, CachesFollowStore
  <1>6. ASSUME NEW w \in Workloads, NEW c \in Containers, wlWatch[w] = <<>>,
               wl[w] # None, wl[w].policy[c] = p
        PROVE  w \in queue'
    <2>1. wlCache[w] = wl[w]
      BY <1>6 DEF ReconcilerInv, CachesFollowStore
    <2> QED
      BY <1>3, <1>6, <2>1 DEF WorkloadsForPolicy
  <1>7. \A w \in Workloads, q \in Policies : Quiet(w, q)' => Quiet(w, q) /\ q # p
    <2> SUFFICES ASSUME NEW w \in Workloads, NEW q \in Policies, Quiet(w, q)'
                 PROVE  Quiet(w, q) /\ q # p
      OBVIOUS
    <2>1. PICK c \in Containers : wl[w] # None /\ wl[w].policy[c] = q /\ wlWatch[w] = <<>>
      BY <1>3 DEF Quiet
    <2>2. q # p
      BY <1>6, <2>1 DEF Quiet
    <2> QED
      BY <1>3, <2>2 DEF Quiet
  <1>8. JobIsCurrent' /\ PendingIsDue'
    <2>1. job # None => /\ job.workload \in Workloads
                        /\ \A d \in Evaluated : job.obj.policy[d] \in Policies
      BY DEF ReconcilerInv, ReconcilerTypeOK, Job, Workload, Evaluated, Bound
    <2>2. Evaluated' = Evaluated /\ Pending' = Pending
      BY <1>3 DEF Evaluated, Pending
    <2>3. JobIsCurrent'
      BY <1>3, <1>7, <2>1, <2>2 DEF ReconcilerInv, JobIsCurrent
    <2> QED
      BY <1>3, <2>2, <2>3 DEF ReconcilerInv, PendingIsDue
  <1>9. NothingForgotten
    <2> SUFFICES ASSUME NEW w \in Workloads, NEW c \in Containers, Forgotten(w, c)'
                 PROVE  Forgotten(w, c)
      BY <1>3 DEF NothingForgotten
    <2>1. Outstanding(w, c) /\ wl[w] # None /\ wl[w].policy[c] \in Policies
      BY <1>3 DEF Forgotten, Outstanding, ReconcilerInv, ReconcilerTypeOK, Workload
    <2>2. wl[w].policy[c] # p
      BY <1>3, <1>6, <2>1 DEF Forgotten, Expected
    <2> QED
      BY <1>3, <2>1, <2>2 DEF Forgotten, Expected
  <1> QED
    BY <1>4, <1>5, <1>8, <1>9 DEF ReconcilerInv

-----------------------------------------------------------------------------
(* The queue and the worker.                                               *)

stores == <<wl, wlWatch, wlCache, ip, ipWatch, ipCache, edits>>

LEMMA DelayElapsedKeeps ==
    ASSUME ReconcilerInv, NEW w \in Workloads, DelayElapsed(w)
    PROVE  ReconcilerInv' /\ NothingForgotten
  <1>1. UNCHANGED <<stores, job>> /\ queue' = queue \cup {w} /\ delayed' = delayed \ {w}
    BY DEF DelayElapsed, stores
  <1>2. ReconcilerTypeOK' /\ CachesFollowStore' /\ PendingIsDue'
    BY <1>1 DEF ReconcilerInv, ReconcilerTypeOK, CachesFollowStore, PendingIsDue, Evaluated,
          Pending, stores
  <1>3. JobIsCurrent'
    <2>1. \A v \in Workloads, p \in Policies : Quiet(v, p)' => Quiet(v, p)
      BY <1>1 DEF Quiet, stores
    <2>2. job # None => /\ job.workload \in Workloads
                        /\ \A d \in Evaluated : job.obj.policy[d] \in Policies
      BY DEF ReconcilerInv, ReconcilerTypeOK, Job, Workload, Evaluated, Bound
    <2> QED
      BY <1>1, <2>1, <2>2 DEF ReconcilerInv, JobIsCurrent, Evaluated, stores
  <1>4. NothingForgotten
    BY <1>1 DEF NothingForgotten, Forgotten, Outstanding, Expected, stores
  <1> QED
    BY <1>2, <1>3, <1>4 DEF ReconcilerInv

\* A reconcile that ends, or is dropped.
LEMMA IdleKeeps ==
    ASSUME ReconcilerInv, UNCHANGED stores, job' = None,
           queue' \subseteq Workloads, delayed' \subseteq Workloads
    PROVE  ReconcilerInv'
  BY DEF ReconcilerInv, ReconcilerTypeOK, CachesFollowStore, JobIsCurrent, PendingIsDue, stores

LEMMA SkipKeeps ==
    ASSUME ReconcilerInv, NEW w \in Workloads, Skip(w)
    PROVE  ReconcilerInv' /\ NothingForgotten
  <1>1. UNCHANGED stores /\ job' = None /\ delayed' = delayed /\ queue' = queue \ {w}
    BY DEF Skip, stores
  <1>2. ReconcilerInv'
    BY <1>1, IdleKeeps DEF ReconcilerInv, ReconcilerTypeOK
  <1>3. ASSUME NEW c \in Containers, Outstanding(w, c) PROVE wlWatch[w] # <<>>
    <2>1. Annotated(wl[w])
      BY <1>3 DEF Outstanding, Annotated, Bound
    <2> QED
      BY <2>1 DEF Skip, ReconcilerInv, CachesFollowStore
  <1>4. NothingForgotten
    <2> SUFFICES ASSUME NEW v \in Workloads, NEW c \in Containers, Forgotten(v, c)'
                 PROVE  Forgotten(v, c)
      BY <1>1 DEF NothingForgotten, stores
    <2>1. Outstanding(v, c)
      BY <1>1 DEF Forgotten, Outstanding, stores
    <2>2. v # w
      BY <1>1, <1>3, <2>1 DEF Forgotten, Expected, stores
    <2> QED
      BY <1>1, <2>1, <2>2 DEF Forgotten, Expected, Skip, stores
  <1> QED
    BY <1>2, <1>4

LEMMA BeginKeeps ==
    ASSUME ReconcilerInv, NEW w \in Workloads, Begin(w)
    PROVE  ReconcilerInv' /\ NothingForgotten
  <1> DEFINE none == [c \in Containers |-> None]
  <1>1. /\ UNCHANGED <<stores, delayed>> /\ queue' = queue \ {w}
        /\ job' = [ workload |-> w, obj |-> wlCache[w], left |-> Bound(wlCache[w]),
                    pending |-> none, retry |-> FALSE ]
    BY DEF Begin, stores
  <1>2. job' \in Job
    <2>1. wlCache[w] \in Workload
      BY DEF Begin, Annotated, ReconcilerInv, ReconcilerTypeOK
    <2>2. Bound(wlCache[w]) \in SUBSET Containers
      BY DEF Bound
    <2>3. none \in [Containers -> Policy \cup {None}]
      OBVIOUS
    <2> HIDE DEF none
    <2> QED
      BY <1>1, <2>1, <2>2, <2>3 DEF Job
  <1>3. /\ job' # None /\ job'.workload = w /\ job'.obj = wlCache[w]
        /\ Evaluated' = {} /\ Pending' = {}
    BY <1>1, <1>2 DEF Evaluated, Pending
  <1>4. ReconcilerTypeOK' /\ CachesFollowStore'
    BY <1>1, <1>2 DEF ReconcilerInv, ReconcilerTypeOK, CachesFollowStore, stores
  <1>5. JobIsCurrent' /\ PendingIsDue'
    BY <1>1, <1>3 DEF ReconcilerInv, CachesFollowStore, JobIsCurrent, PendingIsDue, Quiet, stores
  <1>6. NothingForgotten
    BY <1>1, <1>3 DEF NothingForgotten, Forgotten, Outstanding, Expected, Begin, stores
  <1> QED
    BY <1>4, <1>5, <1>6 DEF ReconcilerInv

LEMMA EvaluateKeeps ==
    ASSUME ReconcilerInv, NEW c \in Containers, Evaluate(c)
    PROVE  ReconcilerInv' /\ NothingForgotten
  <1> DEFINE w == job.workload
             obj == job.obj
             pol == ipCache[obj.policy[c]]
             verdict == IF Due(w, obj, c, pol) THEN pol ELSE None
             retry == job.retry \/ Unscanned(obj, c, pol)
  <1>1. /\ job # None /\ job \in Job /\ w \in Workloads /\ obj \in Workload
        /\ c \in job.left /\ job.left \in SUBSET Containers
        /\ job.pending \in [Containers -> Policy \cup {None}]
        /\ UNCHANGED <<stores, queue, delayed>>
    BY DEF Evaluate, stores, ReconcilerInv, ReconcilerTypeOK, Job
  <1>2. \A d \in Bound(obj) : obj.policy[d] \in Policies
    BY <1>1 DEF Workload, Bound
  <1>3. obj.policy[c] \in Policies /\ verdict \in Policy \cup {None}
    <2>1. c \in Bound(obj)
      BY <1>1 DEF ReconcilerInv, PendingIsDue
    <2> QED
      BY <1>2, <2>1 DEF ReconcilerInv, ReconcilerTypeOK
  <1>4. job' = [job EXCEPT !.left = @ \ {c}, !.pending[c] = verdict, !.retry = retry]
    BY DEF Evaluate
  <1>5. retry \in BOOLEAN
    BY <1>1 DEF Job, Unscanned
  <1>6. /\ job' \in Job /\ job'.workload = w /\ job'.obj = obj
        /\ job'.left = job.left \ {c}
        /\ job'.pending = [job.pending EXCEPT ![c] = verdict]
    <2> HIDE DEF verdict, retry, w, obj
    <2>1. [job.pending EXCEPT ![c] = verdict] \in [Containers -> Policy \cup {None}]
      BY <1>1, <1>3
    <2>2. job' = [job EXCEPT !.left = job.left \ {c},
                             !.pending = [job.pending EXCEPT ![c] = verdict],
                             !.retry = retry]
      BY <1>1, <1>4 DEF Job
    <2> QED
      BY <1>1, <1>5, <2>1, <2>2 DEF Job, w, obj
  <1>7. job' # None /\ Evaluated' = Evaluated \cup {c}
    <2>1. c \in Bound(obj)
      BY <1>1 DEF ReconcilerInv, PendingIsDue
    <2> QED
      BY <1>1, <1>6, <2>1 DEF Evaluated
  <1>8. /\ job'.pending[c] = verdict
        /\ \A d \in Containers \ {c} : job'.pending[d] = job.pending[d]
    BY <1>1, <1>6
  <1>9. ReconcilerTypeOK' /\ CachesFollowStore'
    BY <1>1, <1>6 DEF ReconcilerInv, ReconcilerTypeOK, CachesFollowStore, stores
  <1>10. JobIsCurrent'
    <2>1. \A p \in Policies : Quiet(w, p) => obj = wl[w]
      BY <1>1 DEF ReconcilerInv, JobIsCurrent
    <2>2. ASSUME NEW d \in Evaluated', NEW v \in Workloads, Quiet(v, obj.policy[d])
          PROVE  job'.pending[d] =
                    IF Due(w, obj, d, ip[obj.policy[d]]) THEN ip[obj.policy[d]] ELSE None
      <3>1. CASE d = c
        <4>1. ip[obj.policy[c]] = pol
          BY <1>3, <2>2, <3>1 DEF Quiet, ReconcilerInv, CachesFollowStore
        <4> QED
          BY <1>8, <3>1, <4>1
      <3>2. CASE d # c
        <4>1. d \in Evaluated /\ d \in Containers
          BY <1>7, <2>2, <3>2 DEF Evaluated, Bound
        <4>2. job.pending[d] =
                IF Due(w, obj, d, ip[obj.policy[d]]) THEN ip[obj.policy[d]] ELSE None
          BY <1>1, <2>2, <4>1 DEF ReconcilerInv, JobIsCurrent
        <4> QED
          BY <1>8, <3>2, <4>1, <4>2
      <3> QED
        BY <3>1, <3>2
    <2>3. JobIsCurrent' <=>
            (job' # None =>
               /\ \A p \in Policies : Quiet(w, p) => obj = wl[w]
               /\ \A d \in Evaluated', v \in Workloads :
                     Quiet(v, obj.policy[d]) => job'.pending[d] =
                       IF Due(w, obj, d, ip[obj.policy[d]]) THEN ip[obj.policy[d]] ELSE None)
      <3> HIDE DEF w, obj
      <3> QED
        BY <1>1, <1>6 DEF JobIsCurrent, Quiet, Due, Gate, EffectiveMode, stores
    <2> QED
      BY <2>1, <2>2, <2>3
  <1>11. PendingIsDue'
    <2>1. job'.left \subseteq Bound(job'.obj)
      BY <1>1, <1>6 DEF ReconcilerInv, PendingIsDue, Bound
    <2>2. ASSUME NEW d \in Pending' PROVE d \in Evaluated' /\ Due(w, obj, d, job'.pending[d])
      <3>1. CASE d = c
        BY <1>7, <1>8, <2>2, <3>1 DEF Pending
      <3>2. CASE d # c
        BY <1>1, <1>7, <1>8, <2>2, <3>2 DEF Pending, ReconcilerInv, PendingIsDue
      <3> QED
        BY <3>1, <3>2
    <2> QED
      BY <1>6, <2>1, <2>2 DEF PendingIsDue, Due, Gate, EffectiveMode
  <1>12. NothingForgotten
    BY <1>1, <1>6, <1>7 DEF NothingForgotten, Forgotten, Outstanding, Expected, stores
  <1> QED
    BY <1>9, <1>10, <1>11, <1>12 DEF ReconcilerInv

\* A finished evaluation has seen every update that nothing else would bring
\* back: it is pending, and by the stored objects.
LEMMA UpdateIsPending ==
    ASSUME ReconcilerInv, job # None, job.left = {},
           NEW w \in Workloads, NEW c \in Containers, w = job.workload, Outstanding(w, c),
           wlWatch[w] = <<>>, ipWatch[wl[w].policy[c]] = <<>>, w \notin queue
    PROVE  job.obj = wl[w] /\ c \in Pending /\ job.pending[c] = ip[wl[w].policy[c]]
  <1> DEFINE p == wl[w].policy[c]
  <1>1. wl[w] # None /\ p \in Policies /\ Due(w, wl[w], c, ip[p])
    BY DEF Outstanding, ReconcilerInv, ReconcilerTypeOK, Workload
  <1>2. Quiet(w, p)
    BY <1>1 DEF Quiet
  <1>3. job.obj = wl[w]
    BY <1>1, <1>2 DEF ReconcilerInv, JobIsCurrent
  <1>4. c \in Evaluated
    BY <1>1, <1>3 DEF Evaluated, Bound
  <1>5. job.pending[c] = ip[p] /\ ip[p] # None
    BY <1>1, <1>2, <1>3, <1>4 DEF ReconcilerInv, JobIsCurrent, Due
  <1> QED
    BY <1>3, <1>5 DEF Pending

\* Whatever ends a reconcile forgets at most what it had pending.
LEMMA ReturnKeeps ==
    ASSUME ReconcilerInv, job # None, job.left = {}, Return \/ ReturnError,
           UNCHANGED <<stores, queue>>
    PROVE  /\ ReconcilerInv'
           /\ \A w \in Workloads, c \in Containers :
                 Forgotten(w, c)' =>
                    /\ Outstanding(w, c)
                    /\ \/ Forgotten(w, c)
                       \/ /\ w = job.workload /\ job.obj = wl[w]
                          /\ c \in Pending /\ job.pending[c] = ip[wl[w].policy[c]]
           /\ ReturnError => NothingForgotten
  <1>1. /\ job' = None /\ job.workload \in Workloads
        /\ delayed \subseteq delayed' /\ delayed' \subseteq delayed \cup {job.workload}
    BY DEF Return, ReturnError, ReconcilerInv, ReconcilerTypeOK, Job
  <1>2. ReconcilerInv'
    BY <1>1, IdleKeeps DEF ReconcilerInv, ReconcilerTypeOK
  <1>3. ASSUME NEW w \in Workloads, NEW c \in Containers, Forgotten(w, c)'
        PROVE  /\ Outstanding(w, c)
               /\ Forgotten(w, c) \/ w = job.workload
               /\ wlWatch[w] = <<>> /\ ipWatch[wl[w].policy[c]] = <<>> /\ w \notin queue
               /\ w \notin delayed'
    BY <1>1, <1>3 DEF Forgotten, Outstanding, Expected, stores
  <1>4. ReturnError => NothingForgotten
    BY <1>3 DEF ReturnError, NothingForgotten, stores
  <1> QED
    BY <1>2, <1>3, <1>4, UpdateIsPending

LEMMA ControllerKeeps == ReconcilerInv /\ Controller => ReconcilerInv' /\ NothingForgotten
  <1> SUFFICES ASSUME ReconcilerInv, Controller PROVE ReconcilerInv' /\ NothingForgotten
    OBVIOUS
  <1>1. ASSUME NothingPending PROVE ReconcilerInv' /\ NothingForgotten
    <2>1. UNCHANGED <<stores, queue>> /\ job # None /\ job.left = {} /\ Return
      BY <1>1 DEF NothingPending, stores
    <2> QED
      BY <1>1, <2>1, ReturnKeeps DEF NothingPending, NothingForgotten, stores
  <1> QED
    BY <1>1, DeliverWorkloadKeeps, DeliverPolicyKeeps, DelayElapsedKeeps, SkipKeeps, BeginKeeps,
       EvaluateKeeps DEF Controller

\* Nothing but the store and the work at hand counts.
LEMMA StutterKeeps ==
    ReconcilerInv /\ UNCHANGED vars => ReconcilerInv' /\ NothingForgotten
  BY DEF vars, ReconcilerInv, ReconcilerTypeOK, CachesFollowStore, JobIsCurrent, PendingIsDue,
        Quiet, Evaluated, Pending, NothingForgotten, Forgotten, Outstanding, Expected

LEMMA InitReconciler ==
    ASSUME Init
    PROVE  ReconcilerInv /\ \A w \in Workloads, c \in Containers : ~Forgotten(w, c)
  <1>1. \A w \in Workloads : wl[w] \in Workload
    <2>1. PICK m \in Methods, i \in Image, f \in [Containers -> Policies] :
             wl = [w \in Workloads |-> NewWorkload([c \in Containers |-> i], f, None, m)]
      BY DEF Init
    <2>2. [c \in Containers |-> i] \in [Containers -> Image]
      OBVIOUS
    <2> QED
      BY <2>1, <2>2, NewWorkloadTyped
  <1>2. wl \in [Workloads -> Workload \cup {None}]
    BY <1>1 DEF Init
  <1>3. ip \in [Policies -> Policy \cup {None}]
    BY DEF Init, Policy, Modes
  <1>4. ReconcilerTypeOK
    BY <1>2, <1>3 DEF Init, ReconcilerTypeOK
  <1>5. CachesFollowStore /\ JobIsCurrent /\ PendingIsDue
    BY DEF Init, CachesFollowStore, JobIsCurrent, PendingIsDue
  <1>6. \A w \in Workloads, c \in Containers : Outstanding(w, c) => w \in queue
    BY DEF Init, Outstanding, Annotated, Bound
  <1> QED
    BY <1>4, <1>5, <1>6 DEF ReconcilerInv, Forgotten, Expected

=============================================================================
