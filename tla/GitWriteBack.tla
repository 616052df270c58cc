---------------------------- MODULE GitWriteBack ----------------------------
(***************************************************************************)
(* The workload controller with write-back: git (writeBackGit, and         *)
(* internal/gitwriteback). A reconcile with updates to write clones the    *)
(* branch, edits the target file once per pending container, commits, and  *)
(* pushes without force: the remote takes the push only if nobody pushed   *)
(* since the clone. The live object is never touched.                      *)
(*                                                                         *)
(* Every failure on the way (CloneError, WriteBackError, PushError, ...)   *)
(* is an event on the workload and no error of the reconcile, so nothing   *)
(* comes back for it.                                                      *)
(***************************************************************************)
EXTENDS WorkloadReconciler

VARIABLES
    target,     \* the kind of every workload's write-back-target
    branch,     \* the files at the tip of the remote branch
    tree,       \* the work tree of the write-back in progress, None without one
    lapsed,     \* history: workloads with a write-back that failed quietly, or
                \* a branch changed by others, since they last cloned it
    authors     \* history: per repository, the policies whose update the
                \* operator last pushed to its entry of the kustomization

allVars == <<wl, wlWatch, wlCache, ip, ipWatch, ipCache, queue, delayed, job, edits,
             target, branch, tree, lapsed, authors>>

-----------------------------------------------------------------------------
\* Every container of a workload has an entry of its own in the target files.
Target == INSTANCE TargetFiles WITH Slots <- Workloads \X Containers

Tree ==
    [ files   : Target!Files,
      current : BOOLEAN,                \* the tip is still the one cloned
      left    : SUBSET Containers,      \* pending ones not edited yet
      changed : BOOLEAN ]               \* an edit has reported a change

\* The repository to write comes from the policy's spec, the tag from its status.
Edited(files, w, c, pol) ==
    Target!Edited(target[w], files, <<w, c>>, pol.repo, pol.latest.tag)

Quietly(w) == lapsed' = lapsed \cup {w}

CloneBranch ==
    /\ Ready("git")
    /\ tree = None
    /\ tree' = [files |-> branch, current |-> TRUE, left |-> Pending, changed |-> FALSE]
    /\ lapsed' = lapsed \ {job.workload}
    /\ UNCHANGED <<wl, wlWatch, wlCache, ip, ipWatch, ipCache, queue, delayed, job, edits,
                   target, branch, authors>>

\* Annotations or credentials that do not serve, or CloneError.
CloneFails ==
    /\ Ready("git")
    /\ tree = None
    /\ Quietly(job.workload)
    /\ Return
    /\ UNCHANGED <<wl, wlWatch, wlCache, ip, ipWatch, ipCache, queue, edits,
                   target, branch, tree, authors>>

\* Variant: that error is reported and swallowed like the others.
NoTempDirSwallowed ==
    /\ Ready("git")
    /\ tree = None
    /\ Return
    /\ UNCHANGED <<wl, wlWatch, wlCache, ip, ipWatch, ipCache, queue, edits,
                   target, branch, tree, lapsed, authors>>

\* No temporary directory: the one error the reconcile returns.
NoTempDir ==
    /\ Ready("git")
    /\ tree = None
    /\ ReturnError
    /\ UNCHANGED <<wl, wlWatch, wlCache, ip, ipWatch, ipCache, queue, edits,
                   target, branch, tree, lapsed, authors>>

\* Variant: the path edited is not kept for staging.
EditTargetUnstaged(c) ==
    /\ tree # None
    /\ c \in tree.left
    /\ tree' = [tree EXCEPT !.files = Edited(tree.files, job.workload, c, job.pending[c]),
                            !.left = @ \ {c}]
    /\ UNCHANGED <<wl, wlWatch, wlCache, ip, ipWatch, ipCache, queue, delayed, job, edits,
                   target, branch, lapsed, authors>>

EditTarget(c) ==
    /\ tree # None
    /\ c \in tree.left
    /\ LET files == Edited(tree.files, job.workload, c, job.pending[c])
       IN tree' = [tree EXCEPT !.files = files,
                               !.left = @ \ {c},
                               !.changed = @ \/ files # tree.files]
    /\ UNCHANGED <<wl, wlWatch, wlCache, ip, ipWatch, ipCache, queue, delayed, job, edits,
                   target, branch, lapsed, authors>>

\* WriteBackError: this container is left out, the others are still written.
EditFails(c) ==
    /\ tree # None
    /\ c \in tree.left
    /\ tree' = [tree EXCEPT !.left = @ \ {c}]
    /\ Quietly(job.workload)
    /\ UNCHANGED <<wl, wlWatch, wlCache, ip, ipWatch, ipCache, queue, delayed, job, edits,
                   target, branch, authors>>

EditsDone == tree # None /\ tree.left = {}

NothingToCommit ==
    /\ EditsDone
    /\ ~tree.changed
    /\ tree' = None
    /\ Return
    /\ UNCHANGED <<wl, wlWatch, wlCache, ip, ipWatch, ipCache, queue, edits,
                   target, branch, lapsed, authors>>

\* Variant: the refspec forces the push.
Forced == tree # None

\* The remote takes a push that is a fast-forward of its tip.
FastForward == tree.current

\* Whose update the entry of r in the kustomization now is, if one of the
\* reconcile's own.
Authors(r) ==
    {job.obj.policy[c] : c \in {d \in Pending :
        /\ target[job.workload] = "kustomize"
        /\ job.pending[d].repo = r
        /\ job.pending[d].latest.tag = tree.files.newTag[r]}}

\* Edits that undo one another leave nothing to commit. The answer may be lost,
\* a PushError though the branch has the commit: nothing else depends on it.
Push ==
    /\ EditsDone
    /\ tree.changed
    /\ tree.files # branch
    /\ FastForward
    /\ branch' = tree.files
    /\ authors' = [r \in Repos |-> IF Authors(r) = {} THEN authors[r] ELSE Authors(r)]
    /\ tree' = None
    /\ Return
    /\ UNCHANGED <<wl, wlWatch, wlCache, ip, ipWatch, ipCache, queue, edits,
                   target, lapsed>>

\* PushError: not a fast-forward, an empty commit, or no connection.
PushFails ==
    /\ EditsDone
    /\ tree.changed
    /\ tree' = None
    /\ Quietly(job.workload)
    /\ Return
    /\ UNCHANGED <<wl, wlWatch, wlCache, ip, ipWatch, ipCache, queue, edits,
                   target, branch, authors>>

\* Someone else pushes to the branch: a person, another tool, or the worker of
\* another workload kind. No event tells the operator of it.
OthersPush ==
    /\ edits < MaxEdits
    /\ \/ \E w \in Workloads, c \in Containers, i \in Image :
             branch' = [branch EXCEPT !.image[<<w, c>>] = i]
       \/ \E r \in Repos, t \in Tags : branch' = [branch EXCEPT !.newTag[r] = t]
    /\ branch' # branch
    /\ edits' = edits + 1
    /\ lapsed' = Workloads
    /\ tree' = IF tree = None THEN None ELSE [tree EXCEPT !.current = FALSE]
    /\ UNCHANGED <<wl, wlWatch, wlCache, ip, ipWatch, ipCache, queue, delayed, job,
                   target, authors>>

-----------------------------------------------------------------------------
\* A work tree lives as long as its reconcile: a restart loses it.
Beside ==
    /\ tree' = IF job' = None THEN None ELSE tree
    /\ UNCHANGED <<target, branch, lapsed, authors>>

Shared == (Environment \/ Controller) /\ Beside

GitInit ==
    /\ Init
    /\ \E i \in Image :
          branch = [ image  |-> [s \in Workloads \X Containers |-> i],
                     newTag |-> [r \in Repos |-> None] ]
    /\ target \in [Workloads -> Target!TargetKinds]
    /\ tree = None
    /\ lapsed = Workloads
    /\ authors = [r \in Repos |-> {}]

GitNext ==
    \/ Shared
    \/ CloneBranch \/ CloneFails \/ NoTempDir
    \/ \E c \in Containers : EditTarget(c) \/ EditFails(c)
    \/ NothingToCommit \/ Push \/ PushFails
    \/ OthersPush

GitSpec == GitInit /\ [][GitNext]_allVars

-----------------------------------------------------------------------------
GitTypeOK ==
    /\ ReconcilerTypeOK
    /\ target \in [Workloads -> Target!TargetKinds]
    /\ branch \in Target!Files
    /\ tree \in Tree \cup {None}
    /\ lapsed \subseteq Workloads
    /\ authors \in [Repos -> SUBSET Policies]

\* What others pushed survives: a commit of the operator changes nothing on the
\* branch but the entries of the containers it updates, however old its clone.
OthersCommitsSurvive ==
    [][Push =>
          /\ \A w \in Workloads, c \in Containers :
                branch'.image[<<w, c>>] # branch.image[<<w, c>>] =>
                    w = job.workload /\ c \in Pending
          /\ \A r \in Repos :
                branch'.newTag[r] # branch.newTag[r] =>
                    \E c \in Pending : job.pending[c].repo = r]_allVars

\* An update is due, and the branch does not carry it.
Behind(w, c) ==
    /\ Outstanding(w, c)
    /\ Edited(branch, w, c, ip[wl[w].policy[c]]) # branch

\* The entry of the kustomization that the container goes by, which all
\* workloads share, was last written for another policy of the same repository.
Contested(w, c) ==
    LET p == wl[w].policy[c]
        by == authors[ip[p].repo]
    IN target[w] = "kustomize" /\ by # {} /\ p \notin by

\* Git falls behind a due update without a reconcile ahead only where a
\* write-back failed quietly, or others changed the branch, or an update of
\* another policy took the entry; stale copies, restarts, and events in
\* whatever order are no reason.
BehindOnlyAfterFailure ==
    \A w \in Workloads, c \in Containers :
        Behind(w, c) => Expected(w, c) \/ w \in lapsed \/ Contested(w, c)

\* The image a commit gives a container is the one its policy has selected,
\* where the target takes the repository as well as the tag.
CommitsSelectedImages ==
    [][Push /\ target[job.workload] = "helm" =>
         \A c \in Pending :
            LET s == <<job.workload, c>>
            IN branch'.image[s] # branch.image[s]
                  => branch'.image[s] = job.pending[c].latest]_allVars

-----------------------------------------------------------------------------
(* What keeps the branch and the work tree together: the invariant of the  *)
(* proofs.                                                                 *)

\* Every entry has a repository and a tag.
EntriesComplete ==
    /\ branch.image \in [Workloads \X Containers -> Image]
    /\ tree # None => tree.files.image \in [Workloads \X Containers -> Image]

\* A container edited is carried by the work tree, in a kustomization unless
\* another container of the workload wrote the entry after it.
Placed(c) ==
    IF target[job.workload] = "kustomize"
    THEN \E d \in Pending :
            /\ job.pending[d].repo = job.pending[c].repo
            /\ tree.files.newTag[job.pending[c].repo] = job.pending[d].latest.tag
    ELSE Edited(tree.files, job.workload, c, job.pending[c]) = tree.files

\* The work tree belongs to the reconcile in progress, and differs from a tip
\* that is still the one cloned only in what the reconcile has pending; without
\* a failure or a push by others, it carries every edit made.
TreeFollowsJob ==
    tree # None =>
        /\ Ready("git")
        /\ tree.left \subseteq Pending
        /\ tree.current =>
              /\ \A w \in Workloads, c \in Containers :
                    tree.files.image[<<w, c>>] # branch.image[<<w, c>>] =>
                        w = job.workload /\ c \in Pending
              /\ \A r \in Repos :
                    tree.files.newTag[r] # branch.newTag[r] =>
                        /\ target[job.workload] = "kustomize"
                        /\ \E c \in Pending : /\ job.pending[c].repo = r
                                              /\ tree.files.newTag[r] = job.pending[c].latest.tag
        /\ job.workload \notin lapsed =>
              /\ tree.current
              /\ ~tree.changed =>
                    /\ tree.files = branch
                    /\ \A c \in Pending \ tree.left :
                          Edited(branch, job.workload, c, job.pending[c]) = branch
              /\ \A c \in Pending \ tree.left : Placed(c)

GitInv ==
    /\ ReconcilerInv
    /\ GitTypeOK
    /\ EntriesComplete
    /\ TreeFollowsJob
    /\ BehindOnlyAfterFailure
=============================================================================
