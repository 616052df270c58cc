-------------------------- MODULE GitOpsLoopProofs --------------------------
(***************************************************************************)
(* Proofs about the Git write-back, with and without a GitOps controller   *)
(* behind the branch, for every set of workloads, containers, policies,    *)
(* repositories and tags and every bound: its types; that Git falls behind *)
(* only after a failure; and that commits keep what others pushed.         *)
(***************************************************************************)
EXTENDS GitOpsLoop, WorkloadReconcilerProofs

-----------------------------------------------------------------------------
(* One edit.                                                               *)

Slots == Workloads \X Containers

\* The files already have what an edit would write.
Fits(files, w, c, pol) ==
    CASE target[w] = "helm"      -> files.image[<<w, c>>] = [repo |-> pol.repo, tag |-> pol.latest.tag]
      [] target[w] = "helmTag"   -> files.image[<<w, c>>].tag = pol.latest.tag
      [] target[w] = "kustomize" -> files.newTag[pol.repo] = pol.latest.tag
      [] target[w] = "manifest"  ->
            files.image[<<w, c>>].repo = pol.repo => files.image[<<w, c>>].tag = pol.latest.tag

\* An edit changes one slot, or one entry of the kustomization, and fits
\* afterwards; it changes nothing exactly when it has fitted before.
LEMMA EditEffect ==
    ASSUME target \in [Workloads -> Target!TargetKinds],
           NEW files \in Target!Files, files.image \in [Slots -> Image],
           NEW w \in Workloads, NEW c \in Containers,
           NEW pol \in Policy, pol.latest \in Image
    PROVE  LET new == Edited(files, w, c, pol)
           IN /\ new \in Target!Files
              /\ new.image \in [Slots -> Image]
              /\ \A s \in Slots \ {<<w, c>>} : new.image[s] = files.image[s]
              /\ target[w] = "kustomize" => new.image = files.image
              /\ target[w] # "kustomize" => new.newTag = files.newTag
              /\ \A r \in Repos \ {pol.repo} : new.newTag[r] = files.newTag[r]
              /\ Fits(new, w, c, pol)
              /\ new = files <=> Fits(files, w, c, pol)
  <1> DEFINE new == Edited(files, w, c, pol)
             s == <<w, c>>
             r == pol.repo
             t == pol.latest.tag
  <1>1. /\ r \in Repos /\ t \in Tags /\ s \in Slots
        /\ files.image[s] \in Image
        /\ files.newTag \in [Repos -> Tags \cup {None}]
    BY DEF Policy, Image, Slots, Target!Files
  <1>2. \A i \in Image : i \in [repo : Repos \cup {None}, tag : Tags \cup {None}]
    BY DEF Image
  <1>3. files = [image |-> files.image, newTag |-> files.newTag]
    BY DEF Target!Files
  <1>4. ASSUME NEW i \in Image, new = [files EXCEPT !.image[s] = i],
               target[w] # "kustomize"
        PROVE  /\ new \in Target!Files /\ new.image \in [Slots -> Image]
               /\ new.image[s] = i /\ new.newTag = files.newTag
               /\ \A x \in Slots \ {s} : new.image[x] = files.image[x]
               /\ new = files <=> files.image[s] = i
    <2> HIDE DEF new, s
    <2>1. new = [image |-> [files.image EXCEPT ![s] = i], newTag |-> files.newTag]
      BY <1>3, <1>4
    <2>2. /\ new.image = [files.image EXCEPT ![s] = i]
          /\ new.image \in [Slots -> Image]
          /\ new.newTag = files.newTag
      BY <1>4, <2>1
    <2>3. new.image \in [Slots -> [repo : Repos \cup {None}, tag : Tags \cup {None}]]
      BY <1>2, <2>2
    <2>4. new \in Target!Files
      BY <1>1, <2>1, <2>2, <2>3 DEF Target!Files, Slots
    <2>5. new = files <=> files.image[s] = i
      <3>1. files.image[s] = i => [files.image EXCEPT ![s] = i] = files.image
        BY <1>1
      <3>2. new = files => new.image[s] = files.image[s]
        OBVIOUS
      <3> QED
        BY <1>1, <1>3, <2>1, <2>2, <3>1, <3>2
    <2> QED
      BY <1>1, <2>2, <2>4, <2>5
  <1> DEFINE Goal ==
        /\ new \in Target!Files
        /\ new.image \in [Slots -> Image]
        /\ \A x \in Slots \ {<<w, c>>} : new.image[x] = files.image[x]
        /\ target[w] = "kustomize" => new.image = files.image
        /\ target[w] # "kustomize" => new.newTag = files.newTag
        /\ \A q \in Repos \ {pol.repo} : new.newTag[q] = files.newTag[q]
        /\ Fits(new, w, c, pol)
        /\ new = files <=> Fits(files, w, c, pol)
  <1> SUFFICES Goal
    OBVIOUS
  <1>5. CASE target[w] = "helm"
    <2>1. [repo |-> r, tag |-> t] \in Image
      BY <1>1 DEF Image
    <2>2. new = [files EXCEPT !.image[s] = [repo |-> r, tag |-> t]]
      BY <1>5 DEF Edited, Target!Edited
    <2> HIDE DEF new
    <2> QED
      BY <1>4, <1>5, <2>1, <2>2 DEF Fits
  <1>6. CASE target[w] = "helmTag" \/ (target[w] = "manifest" /\ files.image[s].repo = r)
    <2> DEFINE i == [files.image[s] EXCEPT !.tag = t]
    <2>1. i \in Image /\ i.tag = t /\ i.repo = files.image[s].repo
      BY <1>1 DEF Image
    <2>2. files.image[s] = i <=> files.image[s].tag = t
      BY <1>1, <2>1 DEF Image
    <2>3. new = [files EXCEPT !.image[s] = i]
      BY <1>3, <1>6 DEF Edited, Target!Edited
    <2> HIDE DEF new, i
    <2>4. /\ new \in Target!Files /\ new.image \in [Slots -> Image]
          /\ new.image[s] = i /\ new.newTag = files.newTag
          /\ \A x \in Slots \ {s} : new.image[x] = files.image[x]
          /\ new = files <=> files.image[s] = i
      BY <1>4, <1>6, <2>1, <2>3
    <2>5. Fits(new, w, c, pol) /\ (Fits(files, w, c, pol) <=> files.image[s].tag = t)
      BY <1>6, <2>1, <2>4 DEF Fits
    <2> QED
      BY <1>6, <2>2, <2>4, <2>5
  <1>7. CASE target[w] = "manifest" /\ files.image[s].repo # r
    <2>1. new = files
      BY <1>7 DEF Edited, Target!Edited
    <2>2. Fits(files, w, c, pol)
      BY <1>7 DEF Fits
    <2> HIDE DEF new
    <2> QED
      BY <1>7, <2>1, <2>2
  <1>8. CASE target[w] = "kustomize"
    <2>1. new = [files EXCEPT !.newTag[r] = t]
      BY <1>8 DEF Edited, Target!Edited
    <2> HIDE DEF new
    <2>2. new = [image |-> files.image, newTag |-> [files.newTag EXCEPT ![r] = t]]
      BY <1>3, <2>1
    <2>3. /\ new.image = files.image
          /\ new.newTag = [files.newTag EXCEPT ![r] = t]
          /\ new.newTag \in [Repos -> Tags \cup {None}]
          /\ new.newTag[r] = t
          /\ \A q \in Repos \ {r} : new.newTag[q] = files.newTag[q]
      BY <1>1, <2>2
    <2>4. new \in Target!Files
      BY <2>2, <2>3 DEF Target!Files
    <2>5. new = files <=> files.newTag[r] = t
      <3>1. files.newTag[r] = t => [files.newTag EXCEPT ![r] = t] = files.newTag
        BY <1>1
      <3> QED
        BY <1>3, <2>2, <2>3, <3>1
    <2>6. Fits(new, w, c, pol) /\ (Fits(files, w, c, pol) <=> files.newTag[r] = t)
      BY <1>8, <2>3 DEF Fits
    <2> QED
      BY <1>8, <2>3, <2>4, <2>5, <2>6
  <1> QED
    BY <1>5, <1>6, <1>7, <1>8 DEF Target!TargetKinds

-----------------------------------------------------------------------------
(* Parts of GitInv that steps of one kind keep for the same reason.        *)

gitVars == <<target, branch, tree, lapsed, authors>>

\* A step that forgets nothing and leaves the branch alone.
LEMMA BehindKept ==
    ASSUME GitInv, NothingForgotten, UNCHANGED <<branch, target, authors>>,
           \A w \in lapsed : w \in lapsed' \/ (job' # None /\ job'.workload = w)
    PROVE  BehindOnlyAfterFailure'
  <1> SUFFICES ASSUME NEW w \in Workloads, NEW c \in Containers,
                      Behind(w, c)', ~Expected(w, c)', w \notin lapsed'
               PROVE  Contested(w, c)'
    BY DEF BehindOnlyAfterFailure
  <1>1. /\ Outstanding(w, c) /\ ~Expected(w, c)
        /\ wl'[w] = wl[w]
        /\ ip'[wl[w].policy[c]] = ip[wl[w].policy[c]]
    BY DEF Behind, NothingForgotten, Forgotten
  <1>2. w \notin lapsed
    BY DEF Expected
  <1>3. Behind(w, c)
    BY <1>1 DEF Behind, Edited
  <1> QED
    BY <1>1, <1>2, <1>3 DEF GitInv, BehindOnlyAfterFailure, Contested

\* A step that leaves the reconcile and Git alone.
LEMMA TreeKept ==
    ASSUME GitInv, UNCHANGED <<job, gitVars>>
    PROVE  EntriesComplete' /\ TreeFollowsJob'
  BY DEF GitInv, EntriesComplete, TreeFollowsJob, Placed, Ready, Pending, Edited, gitVars

LEMMA GitTypeKept ==
    ASSUME GitInv, ReconcilerInv', UNCHANGED <<target, branch, lapsed, authors>>, tree' \in {tree, None}
    PROVE  GitTypeOK'
  BY DEF GitInv, GitTypeOK, ReconcilerInv

\* While a work tree exists, the shared steps leave its reconcile alone or end
\* it with a restart.
LEMMA SharedKeeps == GitInv /\ Shared => GitInv'
  <1> SUFFICES ASSUME GitInv, Shared PROVE GitInv'
    OBVIOUS
  <1>1. ReconcilerInv' /\ NothingForgotten
    BY EnvironmentKeeps, ControllerKeeps DEF GitInv, Shared
  <1>2. UNCHANGED <<target, branch, lapsed, authors>> /\ tree' = IF job' = None THEN None ELSE tree
    BY DEF Shared, Beside
  <1>3. GitTypeOK' /\ BehindOnlyAfterFailure'
    <2>1. tree' \in {tree, None} /\ \A w \in lapsed : w \in lapsed'
      BY <1>2
    <2>2. GitTypeOK'
      BY <1>1, <1>2, <2>1, GitTypeKept
    <2> QED
      BY <1>1, <1>2, <2>1, <2>2, BehindKept
  <1>4. CASE tree' = None
    <2>1. EntriesComplete' /\ TreeFollowsJob'
      BY <1>2, <1>4 DEF GitInv, EntriesComplete, TreeFollowsJob
    <2> QED
      BY <1>1, <1>3, <2>1 DEF GitInv
  <1>5. CASE tree' # None
    <2>1. tree # None /\ job' # None /\ tree' = tree
      BY <1>2, <1>5
    <2>2. job # None /\ job.left = {} /\ Pending # {}
      BY <2>1 DEF GitInv, TreeFollowsJob, Ready
    <2>3. job' = job
      <3>1. CASE Environment
        BY <2>1, <3>1 DEF Environment, Restart, CreateWorkload, DeleteWorkload, SetImage, Bind,
              Approve, Override, EditWorkload, CreatePolicy, ChangeSpec, DeletePolicy, Publish,
              EditPolicy
      <3>2. CASE Controller
        BY <2>1, <2>2, <3>2 DEF Controller, DeliverWorkload, DelayElapsed, Skip, Begin,
              DeliverPolicy, Evaluate, NothingPending
      <3> QED
        BY <3>1, <3>2 DEF Shared
    <2>4. EntriesComplete' /\ TreeFollowsJob'
      BY <1>2, <2>1, <2>3, TreeKept DEF gitVars
    <2> QED
      BY <1>1, <1>3, <2>4 DEF GitInv
  <1> QED
    BY <1>4, <1>5

\* What the steps of a write-back leave alone.
LEMMA StoresKept ==
    ASSUME GitInv, UNCHANGED vars
    PROVE  ReconcilerInv' /\ NothingForgotten
  BY StutterKeeps DEF GitInv

-----------------------------------------------------------------------------
(* The steps of a write-back.                                              *)

LEMMA CloneBranchKeeps == GitInv /\ CloneBranch => GitInv'
  <1> SUFFICES ASSUME GitInv, CloneBranch PROVE GitInv'
    OBVIOUS
  <1> DEFINE clone == [files |-> branch, current |-> TRUE, left |-> Pending, changed |-> FALSE]
  <1>1. UNCHANGED vars /\ UNCHANGED <<target, branch, authors>> /\ Ready("git")
    BY DEF CloneBranch, vars
  <1>2. tree' = clone /\ lapsed' = lapsed \ {job.workload}
    BY DEF CloneBranch
  <1>3. ReconcilerInv' /\ NothingForgotten
    BY <1>1, StoresKept
  <1>4. clone \in Tree
    BY DEF Tree, Pending, GitInv, GitTypeOK
  <1>5. GitTypeOK'
    BY <1>1, <1>2, <1>3, <1>4 DEF GitInv, GitTypeOK, ReconcilerInv
  <1>6. EntriesComplete'
    BY <1>1, <1>2 DEF GitInv, EntriesComplete
  <1>7. TreeFollowsJob'
    <2>1. job' = job /\ Pending' = Pending /\ Ready("git")'
      BY <1>1 DEF vars, Pending, Ready
    <2>2. /\ tree'.files = branch' /\ tree'.left = Pending /\ tree'.current
          /\ Pending \ tree'.left = {}
      BY <1>1, <1>2
    <2> QED
      BY <2>1, <2>2 DEF TreeFollowsJob
  <1>8. BehindOnlyAfterFailure'
    <2>1. \A w \in lapsed : w \in lapsed' \/ (job' # None /\ job'.workload = w)
      BY <1>1, <1>2 DEF Ready, vars
    <2> QED
      BY <1>1, <1>3, <2>1, BehindKept
  <1> QED
    BY <1>3, <1>5, <1>6, <1>7, <1>8 DEF GitInv

\* A write-back that ends without a push, of no matter which outcome: what was
\* pending is on the branch, or its workload has lapsed, or it is retried.
LEMMA EndKeeps ==
    ASSUME GitInv, job # None, job.left = {}, UNCHANGED <<stores, queue, target, branch, authors>>,
           tree' = None,
           \/ ReturnError /\ lapsed' = lapsed
           \/ Return /\ lapsed' = lapsed \cup {job.workload}
    PROVE  GitInv'
  <1>1. job.workload \in Workloads
    BY DEF GitInv, ReconcilerInv, ReconcilerTypeOK, Job
  <1>2. /\ ReconcilerInv'
        /\ ReturnError => NothingForgotten
        /\ \A w \in Workloads, c \in Containers :
              Forgotten(w, c)' => Forgotten(w, c) \/ w = job.workload
    BY ReturnKeeps DEF GitInv
  <1>3. GitTypeOK' /\ EntriesComplete' /\ TreeFollowsJob'
    BY <1>1, <1>2 DEF GitInv, GitTypeOK, ReconcilerInv, EntriesComplete, TreeFollowsJob
  <1>4. BehindOnlyAfterFailure'
    <2>1. CASE ReturnError /\ lapsed' = lapsed
      BY <1>2, <2>1, BehindKept
    <2>2. CASE Return /\ lapsed' = lapsed \cup {job.workload}
      <3> SUFFICES ASSUME NEW w \in Workloads, NEW c \in Containers,
                          Behind(w, c)', ~Expected(w, c)', w \notin lapsed'
                   PROVE  Contested(w, c)'
        BY DEF BehindOnlyAfterFailure
      <3>1. Forgotten(w, c) /\ w \notin lapsed
        BY <1>2, <2>2 DEF Behind, Forgotten
      <3>2. Behind(w, c)
        BY <3>1 DEF Behind, Forgotten, Outstanding, Edited, stores
      <3> QED
        BY <3>1, <3>2 DEF GitInv, BehindOnlyAfterFailure, Contested, Forgotten, stores
    <2> QED
      BY <2>1, <2>2
  <1> QED
    BY <1>2, <1>3, <1>4 DEF GitInv

LEMMA FailureKeeps == GitInv /\ (CloneFails \/ NoTempDir \/ PushFails) => GitInv'
  <1> SUFFICES ASSUME GitInv, CloneFails \/ NoTempDir \/ PushFails PROVE GitInv'
    OBVIOUS
  <1>1. job # None /\ job.left = {}
    BY DEF CloneFails, NoTempDir, PushFails, EditsDone, Ready, GitInv, TreeFollowsJob
  <1>2. UNCHANGED <<stores, queue, target, branch, authors>> /\ tree' = None
    BY DEF CloneFails, NoTempDir, PushFails, EditsDone, stores
  <1>3. \/ ReturnError /\ lapsed' = lapsed
        \/ Return /\ lapsed' = lapsed \cup {job.workload}
    BY DEF CloneFails, NoTempDir, PushFails, Quietly
  <1> QED
    BY <1>1, <1>2, <1>3, EndKeeps

\* What is pending has been evaluated, and has an image to write.
LEMMA PendingPolicy ==
    ASSUME GitInv, job # None, NEW c \in Pending
    PROVE  /\ c \in Containers /\ c \in Evaluated /\ job.workload \in Workloads
           /\ job.pending[c] \in Policy /\ job.pending[c].latest \in Image
           /\ job.obj.policy[c] \in Policies
  <1>1. /\ job \in Job /\ job.obj \in Workload /\ job.workload \in Workloads
        /\ job.pending \in [Containers -> Policy \cup {None}]
    BY DEF GitInv, ReconcilerInv, ReconcilerTypeOK, Job
  <1>2. c \in Containers /\ job.pending[c] \in Policy
    BY <1>1 DEF Pending
  <1>3. c \in Evaluated /\ job.pending[c].latest # None
    BY DEF GitInv, ReconcilerInv, PendingIsDue, Due
  <1>4. job.obj.policy[c] \in Policies
    BY <1>1, <1>3 DEF Evaluated, Bound, Workload
  <1> QED
    BY <1>1, <1>2, <1>3, <1>4 DEF Policy

LEMMA EditTargetKeeps ==
    ASSUME GitInv, NEW c \in Containers, EditTarget(c)
    PROVE  GitInv'
  <1> DEFINE w == job.workload
             pol == job.pending[c]
             new == Edited(tree.files, w, c, pol)
  <1>1. /\ tree # None /\ tree \in Tree /\ tree.files \in Target!Files
        /\ tree.files.image \in [Slots -> Image]
        /\ target \in [Workloads -> Target!TargetKinds]
        /\ c \in tree.left /\ c \in Pending
        /\ Ready("git") /\ job # None
    BY DEF EditTarget, GitInv, GitTypeOK, EntriesComplete, TreeFollowsJob, Ready, Tree, Slots
  <1>2. UNCHANGED <<vars, target, branch, lapsed, authors>>
    BY DEF EditTarget, vars
  <1>3. w \in Workloads /\ pol \in Policy /\ pol.latest \in Image
    BY <1>1, PendingPolicy
  <1>4. /\ new \in Target!Files
        /\ new.image \in [Slots -> Image]
        /\ \A s \in Slots \ {<<w, c>>} : new.image[s] = tree.files.image[s]
        /\ target[w] = "kustomize" => new.image = tree.files.image
        /\ target[w] # "kustomize" => new.newTag = tree.files.newTag
        /\ \A r \in Repos \ {pol.repo} : new.newTag[r] = tree.files.newTag[r]
        /\ Fits(new, w, c, pol)
    BY <1>1, <1>3, EditEffect
  <1>5. tree' = [tree EXCEPT !.files = new, !.left = tree.left \ {c},
                             !.changed = tree.changed \/ new # tree.files]
    BY <1>1 DEF EditTarget, Tree
  <1>6. /\ tree' \in Tree /\ tree'.files = new /\ tree'.left = tree.left \ {c}
        /\ tree'.current = tree.current
        /\ tree'.changed = (tree.changed \/ new # tree.files)
    <2> HIDE DEF new
    <2> QED
      BY <1>1, <1>4, <1>5 DEF Tree
  <1>7. ReconcilerInv' /\ NothingForgotten
    BY <1>2, StoresKept
  <1>8. GitTypeOK' /\ EntriesComplete' /\ BehindOnlyAfterFailure'
    <2>1. GitTypeOK'
      BY <1>2, <1>6, <1>7 DEF GitInv, GitTypeOK, ReconcilerInv
    <2>2. EntriesComplete'
      BY <1>2, <1>4, <1>6 DEF GitInv, EntriesComplete, Slots
    <2>3. BehindOnlyAfterFailure'
      BY <1>2, <1>7, BehindKept
    <2> QED
      BY <2>1, <2>2, <2>3
  <1> DEFINE placed(d) ==
        IF target[w] = "kustomize"
        THEN \E e \in Pending : /\ job.pending[e].repo = job.pending[d].repo
                                /\ new.newTag[job.pending[d].repo] = job.pending[e].latest.tag
        ELSE Edited(new, w, d, job.pending[d]) = new
  <1>9. ASSUME w \notin lapsed, NEW d \in Pending \ (tree.left \ {c}) PROVE placed(d)
    <2>1. /\ d \in Containers /\ job.pending[d] \in Policy
          /\ job.pending[d].latest \in Image /\ job.pending[d].repo \in Repos
      BY <1>1, <1>9, PendingPolicy DEF Policy
    <2>2. CASE d = c
      <3>1. CASE target[w] = "kustomize"
        BY <1>1, <1>4, <2>2, <3>1 DEF Fits
      <3>2. CASE target[w] # "kustomize"
        <4>1. Edited(new, w, c, pol) = new
          <5> HIDE DEF new
          <5> QED
            BY <1>1, <1>3, <1>4, EditEffect
        <4> QED
          BY <2>2, <3>2, <4>1
      <3> QED
        BY <3>1, <3>2
    <2>3. CASE d # c
      <3>1. Placed(d)
        BY <1>1, <1>9, <2>3 DEF GitInv, TreeFollowsJob
      <3>2. CASE target[w] = "kustomize"
        <4>1. PICK e \in Pending :
                 /\ job.pending[e].repo = job.pending[d].repo
                 /\ tree.files.newTag[job.pending[d].repo] = job.pending[e].latest.tag
          BY <3>1, <3>2 DEF Placed
        <4>2. CASE job.pending[d].repo = pol.repo
          BY <1>1, <1>4, <3>2, <4>2 DEF Fits
        <4>3. CASE job.pending[d].repo # pol.repo
          BY <1>4, <2>1, <3>2, <4>1, <4>3
        <4> QED
          BY <4>2, <4>3
      <3>3. CASE target[w] # "kustomize"
        <4>1. Edited(tree.files, w, d, job.pending[d]) = tree.files
          BY <3>1, <3>3 DEF Placed
        <4>2. Fits(tree.files, w, d, job.pending[d])
          BY <1>1, <1>3, <2>1, <4>1, EditEffect
        <4>3. <<w, d>> \in Slots \ {<<w, c>>}
          BY <1>3, <2>1, <2>3 DEF Slots
        <4>4. new.image[<<w, d>>] = tree.files.image[<<w, d>>]
          BY <1>4, <4>3
        <4>5. Fits(new, w, d, job.pending[d])
          <5>1. target[w] \in {"helm", "helmTag", "manifest"}
            BY <1>1, <1>3, <3>3 DEF Target!TargetKinds
          <5> HIDE DEF new
          <5> QED
            BY <4>2, <4>4, <5>1 DEF Fits
        <4>6. Edited(new, w, d, job.pending[d]) = new
          <5> HIDE DEF new
          <5> QED
            BY <1>1, <1>3, <1>4, <2>1, <4>5, EditEffect
        <4> QED
          BY <3>3, <4>6
      <3> QED
        BY <3>2, <3>3
    <2> QED
      BY <2>2, <2>3
  <1>10. ASSUME tree.current
         PROVE  /\ \A v \in Workloads, d \in Containers :
                      new.image[<<v, d>>] # branch.image[<<v, d>>] => v = w /\ d \in Pending
                /\ \A r \in Repos :
                      new.newTag[r] # branch.newTag[r] =>
                        /\ target[w] = "kustomize"
                        /\ \E d \in Pending : /\ job.pending[d].repo = r
                                              /\ new.newTag[r] = job.pending[d].latest.tag
    <2>1. /\ \A v \in Workloads, d \in Containers :
                tree.files.image[<<v, d>>] # branch.image[<<v, d>>] => v = w /\ d \in Pending
          /\ \A r \in Repos :
                tree.files.newTag[r] # branch.newTag[r] =>
                  /\ target[w] = "kustomize"
                  /\ \E d \in Pending : /\ job.pending[d].repo = r
                                        /\ tree.files.newTag[r] = job.pending[d].latest.tag
      BY <1>1, <1>10 DEF GitInv, TreeFollowsJob
    <2>2. ASSUME NEW v \in Workloads, NEW d \in Containers,
                 new.image[<<v, d>>] # branch.image[<<v, d>>]
          PROVE  v = w /\ d \in Pending
      <3>1. CASE <<v, d>> = <<w, c>>
        BY <1>1, <3>1
      <3>2. CASE <<v, d>> # <<w, c>>
        BY <1>4, <2>1, <2>2, <3>2 DEF Slots
      <3> QED
        BY <3>1, <3>2
    <2>3. ASSUME NEW r \in Repos, new.newTag[r] # branch.newTag[r]
          PROVE  /\ target[w] = "kustomize"
                 /\ \E d \in Pending : /\ job.pending[d].repo = r
                                       /\ new.newTag[r] = job.pending[d].latest.tag
      <3>1. CASE new.newTag[r] = tree.files.newTag[r]
        BY <2>1, <2>3, <3>1
      <3>2. CASE new.newTag[r] # tree.files.newTag[r]
        <4>1. r = pol.repo /\ target[w] = "kustomize"
          BY <1>4, <3>2
        <4>2. new.newTag[r] = pol.latest.tag
          BY <1>4, <4>1 DEF Fits
        <4> QED
          BY <1>1, <4>1, <4>2
      <3> QED
        BY <3>1, <3>2
    <2> QED
      BY <2>2, <2>3
  <1>11. TreeFollowsJob'
    <2>1. job' = job /\ Pending' = Pending /\ Ready("git")' /\ lapsed' = lapsed /\ branch' = branch
      BY <1>1, <1>2 DEF vars, Pending, Ready
    <2>2. tree.left \subseteq Pending
      BY <1>1 DEF GitInv, TreeFollowsJob
    <2>3. \A d \in Pending : Placed(d)' <=> placed(d)
      BY <1>2, <1>6, <2>1 DEF Placed, Edited, vars
    <2>4. ASSUME w \notin lapsed
          PROVE  tree.current /\ (~tree'.changed => new = branch)
      BY <1>1, <1>6, <2>4 DEF GitInv, TreeFollowsJob, Tree
    <2>5. ASSUME w \notin lapsed, ~tree'.changed, NEW d \in Pending \ (tree.left \ {c})
          PROVE  Edited(branch, w, d, job.pending[d]) = branch
      <3>1. ~tree.changed /\ new = tree.files /\ tree.files = branch
        BY <1>1, <1>6, <2>5 DEF GitInv, TreeFollowsJob, Tree
      <3>2. CASE d = c
        BY <3>1, <3>2
      <3>3. CASE d # c
        BY <1>1, <2>5, <3>1, <3>3 DEF GitInv, TreeFollowsJob
      <3> QED
        BY <3>2, <3>3
    <2>6. \A d \in Pending \ (tree.left \ {c}) :
             Edited(branch, w, d, job.pending[d])' = Edited(branch, w, d, job.pending[d])
      BY <1>2, <2>1 DEF Edited, vars
    <2> HIDE DEF new, placed
    <2> QED
      BY <1>2, <1>6, <1>9, <1>10, <2>1, <2>2, <2>3, <2>4, <2>5, <2>6 DEF TreeFollowsJob
  <1> QED
    BY <1>7, <1>8, <1>11 DEF GitInv

LEMMA EditFailsKeeps ==
    ASSUME GitInv, NEW c \in Containers, EditFails(c)
    PROVE  GitInv'
  <1>1. /\ tree # None /\ tree \in Tree /\ Ready("git") /\ job.workload \in Workloads
        /\ tree' = [tree EXCEPT !.left = tree.left \ {c}]
        /\ lapsed' = lapsed \cup {job.workload}
    BY DEF EditFails, Quietly, GitInv, GitTypeOK, TreeFollowsJob, Ready, ReconcilerInv,
          ReconcilerTypeOK, Job, Tree
  <1>2. UNCHANGED <<vars, target, branch, authors>>
    BY DEF EditFails, vars
  <1>3. /\ tree' \in Tree /\ tree'.files = tree.files /\ tree'.left = tree.left \ {c}
        /\ tree'.current = tree.current
    BY <1>1 DEF Tree
  <1>4. ReconcilerInv' /\ NothingForgotten
    BY <1>2, StoresKept
  <1>5. GitTypeOK' /\ EntriesComplete' /\ BehindOnlyAfterFailure'
    <2>1. GitTypeOK' /\ EntriesComplete'
      BY <1>1, <1>2, <1>3, <1>4 DEF GitInv, GitTypeOK, ReconcilerInv, EntriesComplete
    <2> QED
      BY <1>1, <1>2, <1>4, <2>1, BehindKept
  <1>6. TreeFollowsJob'
    <2>1. job' = job /\ Pending' = Pending /\ Ready("git")' /\ branch' = branch
      BY <1>1, <1>2 DEF vars, Pending, Ready
    <2> QED
      BY <1>1, <1>2, <1>3, <2>1 DEF GitInv, TreeFollowsJob
  <1> QED
    BY <1>4, <1>5, <1>6 DEF GitInv

\* The update of the reconcile that ends, and that nothing else would bring back.
LEMMA EndingUpdate ==
    ASSUME GitInv, EditsDone, Return, UNCHANGED <<stores, queue>>,
           NEW w \in Workloads, NEW c \in Containers, Forgotten(w, c)', w = job.workload
    PROVE  c \in Pending /\ job.pending[c] = ip[wl[w].policy[c]]
  <1>1. job # None /\ job.left = {} /\ ReconcilerInv
    BY DEF EditsDone, GitInv, TreeFollowsJob, Ready
  <1> QED
    BY <1>1, ReturnKeeps DEF Forgotten, Expected

\* A step that makes no request leaves no event or request behind an update that
\* it forgets.
LEMMA ForgottenIsQuiet ==
    ASSUME GitInv, UNCHANGED <<stores, queue>>,
           NEW w \in Workloads, NEW c \in Containers, Forgotten(w, c)'
    PROVE  LET p == wl[w].policy[c]
           IN p \in Policies /\ Quiet(w, p) /\ ip[p] \in Policy /\ ip[p].latest \in Image
  BY DEF Forgotten, Outstanding, Due, Expected, Quiet, stores, GitInv, ReconcilerInv,
        ReconcilerTypeOK, Workload, Policy

\* The entry a push writes for a policy carries what the policy has selected by
\* now, unless the workload at hand will be looked at again.
LEMMA AuthorsFit ==
    ASSUME GitInv, EditsDone, NEW w \in Workloads, NEW c \in Containers,
           target[w] = "kustomize", NEW p \in Policies, Quiet(w, p),
           ip[p] \in Policy, ip[p].latest \in Image, p \in Authors(ip[p].repo)
    PROVE  Edited(tree.files, w, c, ip[p]) = tree.files
  <1>1. /\ tree # None /\ job # None
        /\ tree.files \in Target!Files /\ tree.files.image \in [Slots -> Image]
        /\ target \in [Workloads -> Target!TargetKinds]
    BY DEF EditsDone, GitInv, GitTypeOK, EntriesComplete, TreeFollowsJob, Ready, Tree, Slots
  <1>2. PICK d \in Pending : /\ job.obj.policy[d] = p
                             /\ job.pending[d].latest.tag = tree.files.newTag[ip[p].repo]
    BY DEF Authors
  <1>3. d \in Evaluated /\ job.pending[d] # None
    BY <1>1, PendingPolicy DEF Pending
  <1>4. job.pending[d] = ip[p]
    BY <1>1, <1>2, <1>3 DEF GitInv, ReconcilerInv, JobIsCurrent
  <1>5. Fits(tree.files, w, c, ip[p])
    BY <1>2, <1>4 DEF Fits
  <1> QED
    BY <1>1, <1>5, EditEffect

LEMMA NothingToCommitKeeps == GitInv /\ NothingToCommit => GitInv'
  <1> SUFFICES ASSUME GitInv, NothingToCommit PROVE GitInv'
    OBVIOUS
  <1>1. /\ UNCHANGED <<stores, queue, target, branch, lapsed, authors>> /\ tree' = None
        /\ EditsDone /\ ~tree.changed /\ Return
        /\ job # None /\ job.left = {} /\ ReconcilerInv
    BY DEF NothingToCommit, EditsDone, GitInv, TreeFollowsJob, Ready, stores
  <1>2. /\ ReconcilerInv'
        /\ \A w \in Workloads, c \in Containers :
              Forgotten(w, c)' => Outstanding(w, c) /\ (Forgotten(w, c) \/ w = job.workload)
    BY <1>1, ReturnKeeps
  <1>3. GitTypeOK' /\ EntriesComplete' /\ TreeFollowsJob'
    BY <1>1, <1>2 DEF GitInv, GitTypeOK, ReconcilerInv, EntriesComplete, TreeFollowsJob
  <1>4. BehindOnlyAfterFailure'
    <2> SUFFICES ASSUME NEW w \in Workloads, NEW c \in Containers,
                        Behind(w, c)', ~Expected(w, c)', w \notin lapsed'
                 PROVE  Contested(w, c)'
      BY DEF BehindOnlyAfterFailure
    <2>1. Forgotten(w, c)' /\ w \notin lapsed
      BY <1>1 DEF Behind, Forgotten
    <2>2. Behind(w, c)
      BY <1>1, <1>2, <2>1 DEF Behind, Edited, stores
    <2>3. CASE Forgotten(w, c)
      BY <1>1, <2>1, <2>2, <2>3 DEF GitInv, BehindOnlyAfterFailure, Forgotten, Contested, stores
    <2>4. CASE w = job.workload
      <3>1. c \in Pending /\ job.pending[c] = ip[wl[w].policy[c]]
        BY <1>1, <2>1, <2>4, EndingUpdate
      <3>2. Edited(branch, w, c, job.pending[c]) = branch
        BY <1>1, <2>1, <2>4, <3>1 DEF GitInv, TreeFollowsJob, EditsDone
      <3> QED
        BY <2>2, <3>1, <3>2 DEF Behind
    <2> QED
      BY <1>2, <2>1, <2>3, <2>4
  <1> QED
    BY <1>2, <1>3, <1>4 DEF GitInv

\* A push takes nothing from an update that is not in a kustomization.
LEMMA OwnEntryStays ==
    ASSUME GitInv, EditsDone, FastForward, NEW w \in Workloads, NEW c \in Containers,
           target[w] # "kustomize", w \notin lapsed,
           NEW p \in Policies, ip[p] \in Policy, ip[p].latest \in Image,
           \/ w = job.workload /\ c \in Pending /\ job.pending[c] = ip[p]
           \/ w # job.workload /\ Edited(branch, w, c, ip[p]) = branch
    PROVE  Edited(tree.files, w, c, ip[p]) = tree.files
  <1>1. /\ tree # None /\ tree.current
        /\ tree.files \in Target!Files /\ tree.files.image \in [Slots -> Image]
        /\ branch \in Target!Files /\ branch.image \in [Slots -> Image]
        /\ target \in [Workloads -> Target!TargetKinds]
    BY DEF EditsDone, FastForward, GitInv, GitTypeOK, EntriesComplete, TreeFollowsJob, Tree, Slots
  <1>2. CASE w = job.workload /\ c \in Pending /\ job.pending[c] = ip[p]
    <2>1. Placed(c)
      BY <1>1, <1>2 DEF EditsDone, GitInv, TreeFollowsJob
    <2> QED
      BY <1>2, <2>1 DEF Placed
  <1>3. CASE w # job.workload /\ Edited(branch, w, c, ip[p]) = branch
    <2>1. Fits(branch, w, c, ip[p])
      BY <1>1, <1>3, EditEffect
    <2>2. target[w] \in {"helm", "helmTag", "manifest"}
      BY <1>1 DEF Target!TargetKinds
    <2>3. tree.files.image[<<w, c>>] = branch.image[<<w, c>>]
      BY <1>1, <1>3 DEF GitInv, TreeFollowsJob
    <2>4. Fits(tree.files, w, c, ip[p])
      BY <2>1, <2>2, <2>3 DEF Fits
    <2> QED
      BY <1>1, <2>4, EditEffect
  <1> QED
    BY <1>2, <1>3

LEMMA PushKeeps == GitInv /\ Push => GitInv'
  <1> SUFFICES ASSUME GitInv, Push PROVE GitInv'
    OBVIOUS
  <1>1. /\ UNCHANGED <<stores, queue, target, lapsed>> /\ tree' = None
        /\ EditsDone /\ FastForward /\ Return /\ branch' = tree.files
        /\ job # None /\ job.left = {} /\ ReconcilerInv /\ tree # None
    BY DEF Push, EditsDone, GitInv, TreeFollowsJob, Ready, stores
  <1>2. /\ ReconcilerInv'
        /\ \A w \in Workloads, c \in Containers :
              Forgotten(w, c)' => Outstanding(w, c) /\ (Forgotten(w, c) \/ w = job.workload)
    BY <1>1, ReturnKeeps
  <1>3. authors' = [r \in Repos |-> IF Authors(r) = {} THEN authors[r] ELSE Authors(r)]
    BY DEF Push
  <1>4. GitTypeOK' /\ EntriesComplete' /\ TreeFollowsJob'
    <2>1. \A r \in Repos : Authors(r) \subseteq Policies
      BY <1>1, PendingPolicy DEF Authors
    <2>2. authors' \in [Repos -> SUBSET Policies]
      BY <1>3, <2>1 DEF GitInv, GitTypeOK
    <2> QED
      BY <1>1, <1>2, <2>2 DEF GitInv, GitTypeOK, ReconcilerInv, EntriesComplete,
            TreeFollowsJob, Tree
  <1>5. BehindOnlyAfterFailure'
    <2> SUFFICES ASSUME NEW w \in Workloads, NEW c \in Containers,
                        Behind(w, c)', ~Expected(w, c)', w \notin lapsed'
                 PROVE  Contested(w, c)'
      BY DEF BehindOnlyAfterFailure
    <2> DEFINE p == wl[w].policy[c]
               r == ip[p].repo
    <2>1. Forgotten(w, c)' /\ w \notin lapsed
      BY <1>1 DEF Behind, Forgotten
    <2>2. p \in Policies /\ Quiet(w, p) /\ ip[p] \in Policy /\ ip[p].latest \in Image
      BY <1>1, <2>1, ForgottenIsQuiet
    <2>3. Edited(tree.files, w, c, ip[p]) # tree.files
      BY <1>1 DEF Behind, Edited, stores
    <2>4. Contested(w, c)' <=> /\ target[w] = "kustomize" /\ authors'[r] # {}
                               /\ p \notin authors'[r]
      BY <1>1 DEF Contested, stores
    <2>5. r \in Repos
      BY <2>2 DEF Policy
    <2>6. w = job.workload => c \in Pending /\ job.pending[c] = ip[p]
      BY <1>1, <2>1, EndingUpdate
    <2>7. w # job.workload => Forgotten(w, c)
      BY <1>2, <2>1
    <2>8. w # job.workload => Contested(w, c) \/ Edited(branch, w, c, ip[p]) = branch
      BY <2>1, <2>7 DEF GitInv, BehindOnlyAfterFailure, Behind, Forgotten
    <2>9. Contested(w, c) <=> target[w] = "kustomize" /\ authors[r] # {} /\ p \notin authors[r]
      BY DEF Contested
    <2> HIDE DEF p, r
    <2>10. CASE target[w] # "kustomize"
      BY <1>1, <2>1, <2>2, <2>3, <2>6, <2>8, <2>9, <2>10, OwnEntryStays
    <2>11. CASE target[w] = "kustomize" /\ Authors(r) # {}
      <3>1. authors'[r] = Authors(r)
        BY <1>3, <2>5, <2>11
      <3>2. p \notin Authors(r)
        BY <1>1, <2>2, <2>3, <2>11, AuthorsFit DEF r
      <3> QED
        BY <2>4, <2>11, <3>1, <3>2
    <2>12. CASE target[w] = "kustomize" /\ Authors(r) = {}
      <3>1. authors'[r] = authors[r]
        BY <1>3, <2>5, <2>12
      <3>2. tree.files.newTag[r] = branch.newTag[r]
        <4>1. tree.files.newTag[r] # branch.newTag[r] =>
                 /\ target[job.workload] = "kustomize"
                 /\ \E d \in Pending : /\ job.pending[d].repo = r
                                       /\ tree.files.newTag[r] = job.pending[d].latest.tag
          BY <1>1, <2>5 DEF GitInv, TreeFollowsJob, FastForward
        <4>2. ASSUME NEW d \in Pending, target[job.workload] = "kustomize",
                     job.pending[d].repo = r,
                     tree.files.newTag[r] = job.pending[d].latest.tag
              PROVE  job.obj.policy[d] \in Authors(r)
          BY <4>2 DEF Authors
        <4> QED
          BY <2>12, <4>1, <4>2
      <3>3. w # job.workload
        <4>1. SUFFICES ASSUME w = job.workload PROVE FALSE
          OBVIOUS
        <4>2. Placed(c)
          BY <1>1, <2>1, <2>6, <4>1 DEF EditsDone, GitInv, TreeFollowsJob
        <4>3. PICK d \in Pending : /\ job.pending[d].repo = r
                                   /\ tree.files.newTag[r] = job.pending[d].latest.tag
          BY <2>6, <2>12, <4>1, <4>2 DEF Placed, r
        <4>4. job.obj.policy[d] \in Authors(r)
          BY <2>12, <4>1, <4>3 DEF Authors
        <4> QED
          BY <2>12, <4>4
      <3>4. CASE Contested(w, c)
        BY <2>4, <2>9, <3>1, <3>4
      <3>5. CASE Edited(branch, w, c, ip[p]) = branch
        <4>1. /\ tree.files \in Target!Files /\ tree.files.image \in [Slots -> Image]
              /\ branch \in Target!Files /\ branch.image \in [Slots -> Image]
              /\ target \in [Workloads -> Target!TargetKinds]
          BY <1>1 DEF GitInv, GitTypeOK, EntriesComplete, Tree, Slots
        <4>2. Fits(branch, w, c, ip[p])
          BY <2>2, <3>5, <4>1, EditEffect
        <4>3. Fits(tree.files, w, c, ip[p])
          BY <2>12, <3>2, <4>2 DEF Fits, r
        <4> QED
          BY <2>2, <2>3, <4>1, <4>3, EditEffect
      <3> QED
        BY <2>8, <3>3, <3>4, <3>5
    <2> QED
      BY <2>10, <2>11, <2>12
  <1> QED
    BY <1>2, <1>4, <1>5 DEF GitInv

-----------------------------------------------------------------------------
(* Others.                                                                 *)

LEMMA OthersPushKeeps == GitInv /\ OthersPush => GitInv'
  <1> SUFFICES ASSUME GitInv, OthersPush PROVE GitInv'
    OBVIOUS
  <1>1. /\ UNCHANGED <<wl, wlWatch, wlCache, ip, ipWatch, ipCache, queue, delayed, job, target,
                       authors>>
        /\ lapsed' = Workloads /\ edits < MaxEdits /\ edits' = edits + 1
        /\ tree' = IF tree = None THEN None ELSE [tree EXCEPT !.current = FALSE]
    BY DEF OthersPush
  <1>e. edits' \in 0..MaxEdits
    BY <1>1, ReconcilerConstants DEF GitInv, ReconcilerInv, ReconcilerTypeOK
  <1>2. ReconcilerInv'
    BY <1>1, <1>e DEF GitInv, ReconcilerInv, ReconcilerTypeOK, CachesFollowStore, JobIsCurrent,
          PendingIsDue, Quiet, Evaluated, Pending
  <1>3. /\ branch \in Target!Files /\ branch.image \in [Slots -> Image]
        /\ branch.newTag \in [Repos -> Tags \cup {None}]
        /\ branch = [image |-> branch.image, newTag |-> branch.newTag]
    BY DEF GitInv, GitTypeOK, EntriesComplete, Target!Files, Slots
  <1>4. branch' \in Target!Files /\ branch'.image \in [Slots -> Image]
    <2>1. ASSUME NEW image \in [Slots -> Image], NEW newTag \in [Repos -> Tags \cup {None}],
                 branch' = [image |-> image, newTag |-> newTag]
          PROVE  branch' \in Target!Files /\ branch'.image \in [Slots -> Image]
      BY <2>1 DEF Target!Files, Image, Slots
    <2>2. CASE \E w \in Workloads, c \in Containers, i \in Image :
                  branch' = [branch EXCEPT !.image[<<w, c>>] = i]
      <3>1. PICK w \in Workloads, c \in Containers, i \in Image :
               branch' = [branch EXCEPT !.image[<<w, c>>] = i]
        BY <2>2
      <3>2. branch' = [image |-> [branch.image EXCEPT ![<<w, c>>] = i], newTag |-> branch.newTag]
        BY <1>3, <3>1
      <3>3. [branch.image EXCEPT ![<<w, c>>] = i] \in [Slots -> Image]
        BY <1>3
      <3> QED
        BY <1>3, <2>1, <3>2, <3>3
    <2>3. CASE \E r \in Repos, t \in Tags : branch' = [branch EXCEPT !.newTag[r] = t]
      <3>1. PICK r \in Repos, t \in Tags : branch' = [branch EXCEPT !.newTag[r] = t]
        BY <2>3
      <3>2. branch' = [image |-> branch.image, newTag |-> [branch.newTag EXCEPT ![r] = t]]
        BY <1>3, <3>1
      <3>3. [branch.newTag EXCEPT ![r] = t] \in [Repos -> Tags \cup {None}]
        BY <1>3
      <3> QED
        BY <1>3, <2>1, <3>2, <3>3
    <2> QED
      BY <2>2, <2>3 DEF OthersPush
  <1>5. tree # None => /\ tree \in Tree /\ tree' \in Tree /\ tree'.files = tree.files
                       /\ tree'.left = tree.left /\ tree'.current = FALSE
    BY <1>1 DEF GitInv, GitTypeOK, Tree
  <1>6. GitTypeOK' /\ EntriesComplete'
    BY <1>1, <1>2, <1>4, <1>5 DEF GitInv, GitTypeOK, ReconcilerInv, EntriesComplete, Slots
  <1>7. TreeFollowsJob'
    <2>1. Pending' = Pending /\ (Ready("git") => Ready("git")')
      BY <1>1 DEF Pending, Ready
    <2>2. tree' # None => job.workload \in Workloads
      BY <1>1, <1>5 DEF GitInv, TreeFollowsJob, Ready, ReconcilerInv, ReconcilerTypeOK, Job
    <2> QED
      BY <1>1, <1>5, <2>1, <2>2 DEF GitInv, TreeFollowsJob
  <1>8. BehindOnlyAfterFailure'
    BY <1>1 DEF BehindOnlyAfterFailure
  <1> QED
    BY <1>2, <1>6, <1>7, <1>8 DEF GitInv

LEMMA SyncKeeps ==
    ASSUME GitInv, NEW w \in Workloads, Sync(w)
    PROVE  GitInv'
  <1>1. wl[w] \in Workload /\ edits \in 0..MaxEdits
    BY DEF Sync, GitInv, ReconcilerInv, ReconcilerTypeOK
  <1>2. \A c \in Containers : Rendered(w, c) \in Image
    <2> SUFFICES ASSUME NEW c \in Containers PROVE Rendered(w, c) \in Image
      OBVIOUS
    <2> DEFINE i == branch.image[<<w, c>>]
    <2>1. i \in Image /\ branch.newTag \in [Repos -> Tags \cup {None}]
      BY DEF GitInv, GitTypeOK, EntriesComplete, Target!Files
    <2>2. i.repo \in Repos
      BY <2>1 DEF Image
    <2>3. \A t \in Tags : [i EXCEPT !.tag = t] \in Image
      BY <2>1 DEF Image
    <2> QED
      BY <2>1, <2>2, <2>3 DEF Rendered
  <1>3. Synced(w) \in Workload
    <2> DEFINE image == [c \in Containers |-> IF wl[w].image[c] = None THEN None
                                               ELSE Rendered(w, c)]
    <2>1. image \in [Containers -> Image \cup {None}]
      BY <1>2
    <2>2. Synced(w) = [wl[w] EXCEPT !.image = image]
      BY <1>1 DEF Synced, Workload
    <2> HIDE DEF image
    <2> QED
      BY <1>1, <2>1, <2>2 DEF Workload
  <1>4. /\ Len(wlWatch[w]) < MaxLag /\ WriteWorkload(w, Synced(w))
        /\ UNCHANGED <<wlCache, ip, ipWatch, ipCache, queue, delayed, job, edits>>
        /\ UNCHANGED <<target, branch, tree, lapsed, authors>>
    BY DEF Sync
  <1>5. ReconcilerInv' /\ NothingForgotten
    BY <1>1, <1>3, <1>4, EditWorkloadKeeps DEF GitInv
  <1>6. GitTypeOK' /\ EntriesComplete' /\ TreeFollowsJob'
    BY <1>4, <1>5, GitTypeKept, TreeKept DEF gitVars
  <1>7. BehindOnlyAfterFailure'
    BY <1>4, <1>5, BehindKept
  <1> QED
    BY <1>5, <1>6, <1>7 DEF GitInv

-----------------------------------------------------------------------------
(* The theorems.                                                           *)

\* Nothing is forgotten and no write-back has begun.
LEMMA InitGit == GitInit => GitInv
  <1> SUFFICES ASSUME GitInit PROVE GitInv
    OBVIOUS
  <1>1. ReconcilerInv /\ \A w \in Workloads, c \in Containers : ~Forgotten(w, c)
    BY InitReconciler DEF GitInit
  <1>2. PICK i \in Image :
           branch = [ image  |-> [s \in Slots |-> i], newTag |-> [r \in Repos |-> None] ]
    BY DEF GitInit, Slots
  <1>3. /\ branch.image = [s \in Slots |-> i]
        /\ branch.newTag = [r \in Repos |-> None]
        /\ i \in [repo : Repos \cup {None}, tag : Tags \cup {None}]
    BY <1>2 DEF Image
  <1>4. branch \in Target!Files /\ branch.image \in [Slots -> Image]
    BY <1>2, <1>3 DEF Target!Files, Slots
  <1>5. GitTypeOK /\ EntriesComplete /\ TreeFollowsJob
    BY <1>1, <1>4 DEF GitInit, GitTypeOK, EntriesComplete, TreeFollowsJob, ReconcilerInv, Slots
  <1>6. BehindOnlyAfterFailure
    BY DEF GitInit, BehindOnlyAfterFailure, Behind
  <1> QED
    BY <1>1, <1>5, <1>6 DEF GitInv

LEMMA NothingKeeps == GitInv /\ UNCHANGED allVars => GitInv'
  <1> SUFFICES ASSUME GitInv, UNCHANGED allVars PROVE GitInv'
    OBVIOUS
  <1>1. UNCHANGED vars /\ UNCHANGED gitVars /\ UNCHANGED job
    BY DEF allVars, vars, gitVars
  <1>2. ReconcilerInv' /\ NothingForgotten
    BY <1>1, StoresKept
  <1>3. GitTypeOK' /\ EntriesComplete' /\ TreeFollowsJob'
    BY <1>1, <1>2, GitTypeKept, TreeKept DEF gitVars
  <1>4. BehindOnlyAfterFailure'
    BY <1>1, <1>2, BehindKept DEF gitVars
  <1> QED
    BY <1>2, <1>3, <1>4 DEF GitInv

LEMMA GitStepKeeps == GitInv /\ [GitNext]_allVars => GitInv'
  <1> SUFFICES ASSUME GitInv, [GitNext]_allVars PROVE GitInv'
    OBVIOUS
  <1>1. CASE UNCHANGED allVars
    BY <1>1, NothingKeeps
  <1>2. CASE Shared
    BY <1>2, SharedKeeps
  <1>3. CASE CloneBranch
    BY <1>3, CloneBranchKeeps
  <1>4. CASE CloneFails \/ NoTempDir \/ PushFails
    BY <1>4, FailureKeeps
  <1>5. CASE \E c \in Containers : EditTarget(c) \/ EditFails(c)
    BY <1>5, EditTargetKeeps, EditFailsKeeps
  <1>6. CASE NothingToCommit
    BY <1>6, NothingToCommitKeeps
  <1>7. CASE Push
    BY <1>7, PushKeeps
  <1>8. CASE OthersPush
    BY <1>8, OthersPushKeeps
  <1> QED
    BY <1>1, <1>2, <1>3, <1>4, <1>5, <1>6, <1>7, <1>8 DEF GitNext

\* With whatever becomes of the branch: the inductive invariant holds in every
\* reachable state of the write-back alone.
THEOREM GitInvariance == GitSpec => []GitInv
  BY InitGit, GitStepKeeps, PTL DEF GitSpec

\* And in the loop, whose synchronisations move the live objects it speaks of.
THEOREM LoopInvariance == LoopSpec => []GitInv
  <1>1. GitInv /\ [LoopNext]_allVars => GitInv'
    BY GitStepKeeps, SyncKeeps DEF LoopNext
  <1> QED
    BY <1>1, InitGit, PTL DEF LoopSpec

\* The variables of the loop keep their types: what an edit leaves of a file,
\* and what a synchronisation makes of a live object, is well formed.
THEOREM LoopTypeCorrect == LoopSpec => []GitTypeOK
  <1>1. GitInv => GitTypeOK
    BY DEF GitInv
  <1> QED
    BY <1>1, LoopInvariance, PTL

\* Git falls behind a due update only after a failed write-back, a push of
\* others, or where two policies write one kustomization.
THEOREM BehindOnlyThen == LoopSpec => []BehindOnlyAfterFailure
  <1>1. GitInv => BehindOnlyAfterFailure
    BY DEF GitInv
  <1> QED
    BY <1>1, LoopInvariance, PTL

\* A push replaces the whole tip by the files of a clone, and still changes
\* nothing in it but the entries the reconcile updates.
LEMMA PushKeepsOthers ==
    ASSUME GitInv, Push
    PROVE  /\ \A w \in Workloads, c \in Containers :
                 branch'.image[<<w, c>>] # branch.image[<<w, c>>] =>
                     w = job.workload /\ c \in Pending
           /\ \A r \in Repos :
                 branch'.newTag[r] # branch.newTag[r] =>
                     \E c \in Pending : job.pending[c].repo = r
  BY DEF GitInv, TreeFollowsJob, Push, EditsDone, FastForward

\* The commits of others survive every push of the operator.
THEOREM CommitsOfOthersSurvive == LoopSpec => OthersCommitsSurvive
  <1>1. GitInv /\ [LoopNext]_allVars
          => [Push =>
                /\ \A w \in Workloads, c \in Containers :
                      branch'.image[<<w, c>>] # branch.image[<<w, c>>] =>
                          w = job.workload /\ c \in Pending
                /\ \A r \in Repos :
                      branch'.newTag[r] # branch.newTag[r] =>
                          \E c \in Pending : job.pending[c].repo = r]_allVars
    BY PushKeepsOthers
  <1> QED
    BY <1>1, LoopInvariance, PTL DEF LoopSpec, OthersCommitsSurvive
=============================================================================
