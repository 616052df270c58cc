------------------------- MODULE WorkloadReconciler -------------------------
(***************************************************************************)
(* The part of the workload controllers that every write-back method       *)
(* shares (internal/controller/workload_controller.go): the workload and   *)
(* ImagePolicy informers with their watches, the fan-out from a policy to  *)
(* the workloads that name it, the work queue, and Reconcile up to the     *)
(* list of pending updates. LiveWriteBack and GitWriteBack add what is     *)
(* done with that list.                                                    *)
(*                                                                         *)
(* The module covers the workloads of one kind, which have a queue and a   *)
(* worker of their own. Reconcile reads the workload once and then each    *)
(* policy separately, in the random order of a Go map; the two informers   *)
(* advance independently in between.                                       *)
(***************************************************************************)
EXTENDS Naturals, Sequences

CONSTANTS
    Workloads,      \* objects of one kind
    Containers,     \* container names a policy annotation can name
    ListOf,         \* whether a container is in initContainers or containers
    Immutable,      \* workloads whose pod template cannot be patched (Jobs)
    Policies, Repos, Tags, None,
    Methods,        \* the write-back methods users choose from
    MaxEdits,       \* bound on the changes made from outside
    MaxLag          \* bound on undelivered events of one object

ASSUME ReconcilerConstants ==
    /\ ListOf \in [Containers -> {"init", "main"}]
    /\ Immutable \subseteq Workloads
    /\ Methods \subseteq {"live", "git"}
    /\ MaxEdits \in Nat
    /\ MaxLag \in Nat \ {0}

VARIABLES
    wl, wlWatch, wlCache,   \* stored workloads, events on their way, cached copies
    ip, ipWatch, ipCache,   \* the same of the ImagePolicies
    queue, delayed,         \* requests ready, and waiting for a timer
    job,                    \* the reconcile in progress, None when idle
    edits                   \* changes made from outside so far

storeVars == <<wl, wlWatch, ip, ipWatch>>
vars == <<wl, wlWatch, wlCache, ip, ipWatch, ipCache, queue, delayed, job, edits>>

-----------------------------------------------------------------------------
Image == [repo: Repos, tag: Tags]
Modes == {"Automatic", "Approval", "DryRun"}

\* image is None for an annotated name that is no container of the pod.
Workload ==
    [ image    : [Containers -> Image \cup {None}],
      policy   : [Containers -> Policies \cup {None}],  \* policy.<container>
      approved : [Containers -> Tags \cup {None}],      \* approve.<container>
      last     : [Containers -> Image \cup {None}],     \* last-updated.<container>
      override : Modes \cup {None},                     \* update-mode
      method   : Methods ]                              \* write-back

Policy ==
    [ repo    : Repos,
      mode    : Modes,
      suspend : BOOLEAN,
      latest  : Image \cup {None} ]     \* status.latestImage and latestTag

Job ==
    [ workload : Workloads,
      obj      : Workload,                              \* the copy Get returned
      left     : SUBSET Containers,                     \* not evaluated yet
      pending  : [Containers -> Policy \cup {None}],    \* the policy copy to apply
      retry    : BOOLEAN ]                              \* requeueAfter is set

ASSUME NoneIsNoObject == None \notin Policies /\ None \notin Job

Bound(obj) == {c \in Containers : obj.policy[c] # None}

Annotated(obj) == obj # None /\ Bound(obj) # {}

\* The workload annotation wins over the policy's own mode.
EffectiveMode(pol, obj) == IF obj.override # None THEN obj.override ELSE pol.mode

Gate(w, obj, c, pol) ==
    /\ ~(obj.method = "live" /\ w \in Immutable)
    /\ \/ EffectiveMode(pol, obj) = "Automatic"
       \/ /\ EffectiveMode(pol, obj) = "Approval"
          /\ obj.approved[c] = pol.latest.tag

\* The container does not carry the image its policy selected, and may.
Due(w, obj, c, pol) ==
    /\ obj.image[c] # None
    /\ pol # None
    /\ pol.latest # None
    /\ obj.image[c] # pol.latest
    /\ Gate(w, obj, c, pol)

Unscanned(obj, c, pol) == obj.image[c] # None /\ pol # None /\ pol.latest = None

-----------------------------------------------------------------------------
(* Users, and the policy controller as far as PolicyStatus promises.       *)

WriteWorkload(w, obj) ==
    /\ wl' = [wl EXCEPT ![w] = obj]
    /\ wlWatch' = [wlWatch EXCEPT ![w] = Append(@, obj)]

EditWorkload(w, obj) ==
    /\ edits < MaxEdits /\ Len(wlWatch[w]) < MaxLag
    /\ obj # wl[w]
    /\ WriteWorkload(w, obj)
    /\ edits' = edits + 1
    /\ UNCHANGED <<wlCache, ip, ipWatch, ipCache, queue, delayed, job>>

NewWorkload(images, policies, override, method) ==
    [ image |-> images, policy |-> policies, override |-> override, method |-> method,
      approved |-> [c \in Containers |-> None], last |-> [c \in Containers |-> None] ]

CreateWorkload(w) ==
    /\ wl[w] = None
    /\ \E i \in Image, p \in Policies, o \in Modes \cup {None}, m \in Methods :
          EditWorkload(w, NewWorkload([c \in Containers |-> i],
                                      [c \in Containers |-> p], o, m))

DeleteWorkload(w) == wl[w] # None /\ EditWorkload(w, None)

SetImage(w) ==
    /\ wl[w] # None
    /\ \E c \in Containers, i \in Image \cup {None} :
          EditWorkload(w, [wl[w] EXCEPT !.image[c] = i])

Bind(w) ==
    /\ wl[w] # None
    /\ \E c \in Containers, p \in Policies \cup {None} :
          EditWorkload(w, [wl[w] EXCEPT !.policy[c] = p])

Approve(w) ==
    /\ wl[w] # None
    /\ \E c \in Containers, t \in Tags :
          EditWorkload(w, [wl[w] EXCEPT !.approved[c] = t])

Override(w) ==
    /\ wl[w] # None
    /\ \E o \in Modes \cup {None} : EditWorkload(w, [wl[w] EXCEPT !.override = o])

EditPolicy(p, pol) ==
    /\ edits < MaxEdits /\ Len(ipWatch[p]) < MaxLag
    /\ pol # ip[p]
    /\ ip' = [ip EXCEPT ![p] = pol]
    /\ ipWatch' = [ipWatch EXCEPT ![p] = Append(@, pol)]
    /\ edits' = edits + 1
    /\ UNCHANGED <<wl, wlWatch, wlCache, ipCache, queue, delayed, job>>

CreatePolicy(p) ==
    /\ ip[p] = None
    /\ \E r \in Repos, m \in Modes, s \in BOOLEAN :
          EditPolicy(p, [repo |-> r, mode |-> m, suspend |-> s, latest |-> None])

ChangeSpec(p) ==
    /\ ip[p] # None
    /\ \E r \in Repos, m \in Modes, s \in BOOLEAN :
          EditPolicy(p, [ip[p] EXCEPT !.repo = r, !.mode = m, !.suspend = s])

DeletePolicy(p) == ip[p] # None /\ EditPolicy(p, None)

\* A scan succeeds. One that fails, and one that selects the same image again,
\* change nothing the workload controllers read.
Publish(p) ==
    /\ ip[p] # None
    /\ ~ip[p].suspend
    /\ \E t \in Tags :
          EditPolicy(p, [ip[p] EXCEPT !.latest = [repo |-> ip[p].repo, tag |-> t]])

-----------------------------------------------------------------------------
(* Informers, queue and worker.                                            *)

\* The predicate drops events of workloads that name no policy; the cache
\* follows all the same. A deletion is judged by the object deleted.
DeliverWorkload(w) ==
    /\ wlWatch[w] # <<>>
    /\ LET new == Head(wlWatch[w])
           judged == IF new = None THEN wlCache[w] ELSE new
       IN /\ wlCache' = [wlCache EXCEPT ![w] = new]
          /\ queue' = IF Annotated(judged) THEN queue \cup {w} ELSE queue
    /\ wlWatch' = [wlWatch EXCEPT ![w] = Tail(@)]
    /\ UNCHANGED <<wl, ip, ipWatch, ipCache, delayed, job, edits>>

\* The workloads whose cached annotations name p, by the field index.
WorkloadsForPolicy(p) ==
    {w \in Workloads : wlCache[w] # None /\ \E c \in Containers : wlCache[w].policy[c] = p}

\* Variant: the events of a status update are dropped, as if by a predicate on
\* the generation.
DeliverPolicySpecChanges(p) ==
    /\ ipWatch[p] # <<>>
    /\ LET new == Head(ipWatch[p])
           statusOnly == /\ ipCache[p] # None /\ new # None
                         /\ new = [ipCache[p] EXCEPT !.latest = new.latest]
       IN /\ ipCache' = [ipCache EXCEPT ![p] = new]
          /\ queue' = IF statusOnly THEN queue ELSE queue \cup WorkloadsForPolicy(p)
    /\ ipWatch' = [ipWatch EXCEPT ![p] = Tail(@)]
    /\ UNCHANGED <<wl, wlWatch, wlCache, ip, delayed, job, edits>>

DeliverPolicy(p) ==
    /\ ipWatch[p] # <<>>
    /\ ipCache' = [ipCache EXCEPT ![p] = Head(ipWatch[p])]
    /\ ipWatch' = [ipWatch EXCEPT ![p] = Tail(@)]
    /\ queue' = queue \cup WorkloadsForPolicy(p)
    /\ UNCHANGED <<wl, wlWatch, wlCache, ip, delayed, job, edits>>

DelayElapsed(w) ==
    /\ w \in delayed
    /\ delayed' = delayed \ {w}
    /\ queue' = queue \cup {w}
    /\ UNCHANGED <<wl, wlWatch, wlCache, ip, ipWatch, ipCache, job, edits>>

\* A workload that is gone, or names no policy any more.
Skip(w) ==
    /\ job = None
    /\ w \in queue
    /\ ~Annotated(wlCache[w])
    /\ queue' = queue \ {w}
    /\ UNCHANGED <<wl, wlWatch, wlCache, ip, ipWatch, ipCache, delayed, job, edits>>

Begin(w) ==
    /\ job = None
    /\ w \in queue
    /\ Annotated(wlCache[w])
    /\ queue' = queue \ {w}
    /\ job' = [ workload |-> w, obj |-> wlCache[w], left |-> Bound(wlCache[w]),
                pending |-> [c \in Containers |-> None], retry |-> FALSE ]
    /\ UNCHANGED <<wl, wlWatch, wlCache, ip, ipWatch, ipCache, delayed, edits>>

\* One turn of the loop over the annotated containers.
Evaluate(c) ==
    /\ job # None
    /\ c \in job.left
    /\ LET pol == ipCache[job.obj.policy[c]]
       IN job' = [job EXCEPT
                    !.left = @ \ {c},
                    !.pending[c] = IF Due(job.workload, job.obj, c, pol) THEN pol ELSE None,
                    !.retry = @ \/ Unscanned(job.obj, c, pol)]
    /\ UNCHANGED <<wl, wlWatch, wlCache, ip, ipWatch, ipCache, queue, delayed, edits>>

Pending == {c \in Containers : job.pending[c] # None}

\* Every container is evaluated, and there are updates to write by the method.
Ready(method) == job # None /\ job.left = {} /\ Pending # {} /\ job.obj.method = method

\* The reconcile returns without an error: it comes back on its own only for a
\* policy that has not been scanned.
Return ==
    /\ job' = None
    /\ delayed' = IF job.retry THEN delayed \cup {job.workload} ELSE delayed

\* It returns an error: the queue retries it after a backoff.
ReturnError ==
    /\ job' = None
    /\ delayed' = delayed \cup {job.workload}

NothingPending ==
    /\ job # None /\ job.left = {} /\ Pending = {}
    /\ Return
    /\ UNCHANGED <<wl, wlWatch, wlCache, ip, ipWatch, ipCache, queue, edits>>

\* A new process lists everything and enqueues the annotated workloads.
Restart ==
    /\ edits < MaxEdits
    /\ edits' = edits + 1
    /\ wlCache' = wl /\ ipCache' = ip
    /\ wlWatch' = [w \in Workloads |-> <<>>]
    /\ ipWatch' = [p \in Policies |-> <<>>]
    /\ queue' = {w \in Workloads : Annotated(wl[w])}
    /\ delayed' = {}
    /\ job' = None
    /\ UNCHANGED <<wl, ip>>

Environment ==
    \/ Restart
    \/ \E w \in Workloads :
          \/ CreateWorkload(w) \/ DeleteWorkload(w) \/ SetImage(w)
          \/ Bind(w) \/ Approve(w) \/ Override(w)
    \/ \E p \in Policies :
          CreatePolicy(p) \/ ChangeSpec(p) \/ DeletePolicy(p) \/ Publish(p)

Controller ==
    \/ \E w \in Workloads : DeliverWorkload(w) \/ DelayElapsed(w) \/ Skip(w) \/ Begin(w)
    \/ \E p \in Policies : DeliverPolicy(p)
    \/ \E c \in Containers : Evaluate(c)
    \/ NothingPending

\* The operator starts beside policies, scanned by its predecessor or not, and
\* workloads that already name them.
Init ==
    /\ ip \in [Policies -> {None} \cup [repo : Repos, mode : {"Automatic"},
                                         suspend : {FALSE}, latest : Image \cup {None}]]
    /\ \E m \in Methods, i \in Image, f \in [Containers -> Policies] :
          wl = [w \in Workloads |-> NewWorkload([c \in Containers |-> i], f, None, m)]
    /\ wlCache = wl /\ ipCache = ip
    /\ wlWatch = [w \in Workloads |-> <<>>]
    /\ ipWatch = [p \in Policies |-> <<>>]
    /\ queue = {w \in Workloads : Annotated(wl[w])}
    /\ delayed = {}
    /\ job = None
    /\ edits = 0

ReconcilerTypeOK ==
    /\ wl \in [Workloads -> Workload \cup {None}]
    /\ wlCache \in [Workloads -> Workload \cup {None}]
    /\ wlWatch \in [Workloads -> Seq(Workload \cup {None})]
    /\ \A w \in Workloads : Len(wlWatch[w]) <= MaxLag
    /\ \A p \in Policies : Len(ipWatch[p]) <= MaxLag
    /\ ip \in [Policies -> Policy \cup {None}]
    /\ ipCache \in [Policies -> Policy \cup {None}]
    /\ ipWatch \in [Policies -> Seq(Policy \cup {None})]
    /\ queue \subseteq Workloads
    /\ delayed \subseteq Workloads
    /\ job \in Job \cup {None}
    /\ edits \in 0..MaxEdits

\* An update is due, by the stored workload and the stored policy.
Outstanding(w, c) ==
    /\ wl[w] # None
    /\ wl[w].policy[c] # None
    /\ Due(w, wl[w], c, ip[wl[w].policy[c]])

\* Something will make the worker look at the workload again for container c.
Expected(w, c) ==
    \/ wlWatch[w] # <<>>
    \/ ipWatch[wl[w].policy[c]] # <<>>
    \/ w \in queue
    \/ w \in delayed
    \/ job # None /\ job.workload = w

Forgotten(w, c) == Outstanding(w, c) /\ ~Expected(w, c)

-----------------------------------------------------------------------------
(* What makes an update due hard to forget: the invariant of the proofs.   *)

\* The last version on its way to an informer, or the cached one if none is,
\* is the stored one.
CachesFollowStore ==
    /\ \A w \in Workloads :
          wl[w] = IF wlWatch[w] = <<>> THEN wlCache[w] ELSE wlWatch[w][Len(wlWatch[w])]
    /\ \A p \in Policies :
          ip[p] = IF ipWatch[p] = <<>> THEN ipCache[p] ELSE ipWatch[p][Len(ipWatch[p])]

\* The workload names p, and nothing will make the worker look at it again.
Quiet(w, p) ==
    /\ wl[w] # None
    /\ \E c \in Containers : wl[w].policy[c] = p
    /\ wlWatch[w] = <<>> /\ ipWatch[p] = <<>> /\ w \notin queue

Evaluated == Bound(job.obj) \ job.left

\* The copies a reconcile works on are the stored objects, unless the workload
\* is to be reconciled again.
JobIsCurrent ==
    job # None =>
        /\ \A p \in Policies : Quiet(job.workload, p) => job.obj = wl[job.workload]
        /\ \A d \in Evaluated, w \in Workloads :
              LET p == job.obj.policy[d]
              IN Quiet(w, p) => job.pending[d] =
                    IF Due(job.workload, job.obj, d, ip[p]) THEN ip[p] ELSE None

\* The containers to evaluate are bound; what is pending was evaluated, and due
\* by the copies read.
PendingIsDue ==
    job # None =>
        /\ job.left \subseteq Bound(job.obj)
        /\ \A d \in Pending : /\ d \in Evaluated
                             /\ Due(job.workload, job.obj, d, job.pending[d])

ReconcilerInv ==
    /\ ReconcilerTypeOK
    /\ CachesFollowStore
    /\ JobIsCurrent
    /\ PendingIsDue
=============================================================================
