----------------------- MODULE ImagePolicyController -----------------------
(***************************************************************************)
(* The ImagePolicy controller: an informer cache that lags the API server, *)
(* a work queue with delayed entries, and one worker that runs             *)
(* ImagePolicyReconciler.Reconcile                                         *)
(* (internal/controller/imagepolicy_controller.go).                        *)
(*                                                                         *)
(* A reconcile is split where other actors can run in between: the cached  *)
(* read and the suspend check (BeginScan, Skip), the listing of the        *)
(* registry (ListTags, ScanFails), and the status update, which the API    *)
(* server accepts only from a scan that read the latest version            *)
(* (StatusAccepted, StatusRejected, StatusGone).                           *)
(*                                                                         *)
(* resourceVersion is not a number here: scan.current says whether the     *)
(* version the scan holds is still the stored one.                         *)
(***************************************************************************)
EXTENDS ImagePolicyAPI, Sequences

CONSTANT MaxLag     \* bound on the watch events of one policy not yet delivered

ASSUME LagIsPositive == MaxLag \in Nat \ {0}

VARIABLES
    watch,      \* per policy, written versions the informer has not seen yet
    cache,      \* the informer's copy of every policy
    queue,      \* requests ready for the worker
    delayed,    \* requests waiting for RequeueAfter or for a retry's backoff
    scan        \* the reconcile in progress, None when the worker is idle

ctrlVars == <<watch, cache, queue, delayed, scan>>
vars == <<api, registry, fresh, watch, cache, queue, delayed, scan>>

Scan ==
    [ policy  : Policies,
      ip      : ImagePolicy,            \* the copy Get returned
      current : BOOLEAN,                \* ip is still the stored version
      listed  : BOOLEAN,                \* the registry has answered
      tag     : Tags \cup {None} ]      \* what Select picked, None for a failure

ASSUME NoneIsNoScan == None \notin Scan

ScanOf(p) == scan # None /\ scan.policy = p

-----------------------------------------------------------------------------
\* A write of policy p by anyone: a new version, and a watch event for it.
Write(p, obj) ==
    /\ Put(p, obj)
    /\ watch' = [watch EXCEPT ![p] = Append(@, obj)]

\* The same by anyone but the scan in progress, whose version is now old.
OtherWrite(p, obj) ==
    /\ Len(watch[p]) < MaxLag
    /\ Write(p, obj)
    /\ scan' = IF ScanOf(p) THEN [scan EXCEPT !.current = FALSE] ELSE scan
    /\ UNCHANGED <<cache, queue, delayed>>

CreatePolicy(p) ==
    api[p] = None /\ \E r \in Repos, s \in BOOLEAN : OtherWrite(p, NewPolicy(r, s))

EditPolicy(p) ==
    /\ api[p] # None
    /\ api[p].generation < MaxGeneration
    /\ \E r \in Repos, s \in BOOLEAN : OtherWrite(p, EditedPolicy(api[p], r, s))

DeletePolicy(p) == api[p] # None /\ OtherWrite(p, None)

\* The webhook receiver patches an annotation: a new version, the same spec.
Trigger(p) == api[p] # None /\ OtherWrite(p, api[p])

Push ==
    /\ \E r \in Repos, t \in Tags \cup {None} : PushTo(r, t)
    /\ UNCHANGED ctrlVars

\* The operator's process ends and another one starts: it lists the stored
\* policies and enqueues each. So does another replica as the new leader, unless
\* its informer lags (TakeOver of WebhookReceiver).
Restart ==
    /\ cache' = api
    /\ watch' = [p \in Policies |-> <<>>]
    /\ queue' = {p \in Policies : api[p] # None}
    /\ delayed' = {}
    /\ scan' = None
    /\ UNCHANGED apiVars

-----------------------------------------------------------------------------
\* Variant: a predicate keeps events that change no generation from the queue.
DeliverGenerationChanges(p) ==
    /\ watch[p] # <<>>
    /\ LET new == Head(watch[p])
           changed == \/ (new = None) # (cache[p] = None)
                      \/ new # None /\ new.generation # cache[p].generation
       IN /\ cache' = [cache EXCEPT ![p] = new]
          /\ queue' = IF changed THEN queue \cup {p} ELSE queue
    /\ watch' = [watch EXCEPT ![p] = Tail(@)]
    /\ UNCHANGED <<api, registry, fresh, delayed, scan>>

\* The informer delivers the oldest event of p and its handler enqueues p:
\* For(&ImagePolicy{}) has no predicate, so the controller hears its own
\* status writes, and deletions, as well.
Deliver(p) ==
    /\ watch[p] # <<>>
    /\ cache' = [cache EXCEPT ![p] = Head(watch[p])]
    /\ watch' = [watch EXCEPT ![p] = Tail(@)]
    /\ queue' = queue \cup {p}
    /\ UNCHANGED <<api, registry, fresh, delayed, scan>>

DelayElapsed(p) ==
    /\ p \in delayed
    /\ delayed' = delayed \ {p}
    /\ queue' = queue \cup {p}
    /\ UNCHANGED <<api, registry, fresh, watch, cache, scan>>

\* The worker takes p and finds no policy, or a suspended one: no requeue.
Skip(p) ==
    /\ scan = None
    /\ p \in queue
    /\ ~Active(cache[p])
    /\ queue' = queue \ {p}
    /\ UNCHANGED <<api, registry, fresh, watch, cache, delayed, scan>>

\* Variant: suspension is not looked at.
BeginScanSuspendedToo(p) ==
    /\ scan = None
    /\ p \in queue
    /\ cache[p] # None
    /\ queue' = queue \ {p}
    /\ scan' = [policy |-> p, ip |-> cache[p], current |-> (watch[p] = <<>>),
                listed |-> FALSE, tag |-> None]
    /\ UNCHANGED <<api, registry, fresh, watch, cache, delayed>>

BeginScan(p) ==
    /\ scan = None
    /\ p \in queue
    /\ Active(cache[p])
    /\ queue' = queue \ {p}
    /\ scan' = [policy |-> p, ip |-> cache[p], current |-> (watch[p] = <<>>),
                listed |-> FALSE, tag |-> None]
    /\ UNCHANGED <<api, registry, fresh, watch, cache, delayed>>

Answered(tag) ==
    /\ scan # None
    /\ ~scan.listed
    /\ scan' = [scan EXCEPT !.listed = TRUE, !.tag = tag]
    /\ UNCHANGED <<api, registry, fresh, watch, cache, queue, delayed>>

\* The registry answers and Select picks a tag, or none (NoMatch).
ListTags == scan # None /\ Answered(registry[scan.ip.repo])

\* Variant: when the registry does not answer, the tag selected last is kept.
ScanFailsWithLastTag ==
    /\ scan # None
    /\ Answered(IF scan.ip.latest = None THEN None ELSE scan.ip.latest.tag)

\* AuthError, ScanError or PolicyError.
ScanFails == Answered(None)

\* Variant: a selection of no tag is recorded like any other.
RecordedEvenEmpty(obj, ip, tag) ==
    [obj EXCEPT !.ready = "True", !.observed = ip.generation,
                !.latest = [repo |-> ip.repo, tag |-> tag]]

\* What a status update by a scan of the copy ip leaves in the object obj: the
\* status subresource takes the status fields and nothing else.
Recorded(obj, ip, tag) ==
    [obj EXCEPT !.ready = IF tag = None THEN "False" ELSE "True",
                !.observed = ip.generation,
                !.latest = IF tag = None THEN ip.latest
                           ELSE [repo |-> ip.repo, tag |-> tag]]

\* Variant: the status is patched without a resourceVersion.
UpdateAlwaysAccepted == scan # None

\* The API server accepts an update of the version it stores.
UpdateAccepted == scan.current

\* Variant: a finished reconcile counts on the next watch event alone.
NotRequeued(p) == delayed

\* RequeueAfter and a returned error both leave the request to come again.
Requeued(p) == delayed \cup {p}

\* An update that changes nothing is no new version and no event. One that
\* changes only lastScanTime (a second has passed) or the message is both.
StatusAccepted(p) ==
    /\ ScanOf(p)
    /\ scan.listed
    /\ api[p] # None
    /\ UpdateAccepted
    /\ LET after == Recorded(api[p], scan.ip, scan.tag)
       IN \/ Write(p, after)
          \/ after = api[p] /\ UNCHANGED <<api, registry, fresh, watch>>
    /\ scan' = None
    /\ delayed' = Requeued(p)
    /\ UNCHANGED <<cache, queue>>

\* Variant: every error of the update is ignored, not only NotFound.
StatusRejectedSwallowed(p) ==
    /\ ScanOf(p)
    /\ scan.listed
    /\ scan' = None
    /\ UNCHANGED <<api, registry, fresh, watch, cache, queue, delayed>>

\* A conflict with a newer version, or any other error of the API server.
StatusRejected(p) ==
    /\ ScanOf(p)
    /\ scan.listed
    /\ scan' = None
    /\ delayed' = delayed \cup {p}
    /\ UNCHANGED <<api, registry, fresh, watch, cache, queue>>

\* The policy was deleted while its scan ran: nothing is left to update.
StatusGone(p) ==
    /\ ScanOf(p)
    /\ scan.listed
    /\ api[p] = None
    /\ scan' = None
    /\ UNCHANGED <<api, registry, fresh, watch, cache, queue, delayed>>

-----------------------------------------------------------------------------
Init ==
    /\ APIInit
    /\ watch = [p \in Policies |-> <<>>]
    /\ cache = api
    /\ queue = {}
    /\ delayed = {}
    /\ scan = None

\* What the operator does not decide.
Environment ==
    \/ Push
    \/ Restart
    \/ \E p \in Policies :
          CreatePolicy(p) \/ EditPolicy(p) \/ DeletePolicy(p) \/ Trigger(p)

Controller ==
    \/ ListTags
    \/ ScanFails
    \/ \E p \in Policies :
          \/ Deliver(p) \/ DelayElapsed(p) \/ Skip(p) \/ BeginScan(p)
          \/ StatusAccepted(p) \/ StatusRejected(p) \/ StatusGone(p)

Next == Environment \/ Controller

Spec == Init /\ [][Next]_vars

\* Delivery and timers are the client library's and always come. The work
\* queue is first-in first-out, so no policy waits for ever behind the others
\* (strong fairness of taking it). Calls return. Failures are transient and do not
\* conspire: a registry asked again and again by scans of the latest version
\* lists for one of them, and an API server offered the results of successful
\* ones again and again accepts one (strong fairness of the two).
Fairness ==
    /\ \A p \in Policies :
          /\ WF_vars(Deliver(p))
          /\ WF_vars(DelayElapsed(p))
          /\ SF_vars(Skip(p))
          /\ SF_vars(BeginScan(p))
          /\ SF_vars(ScanOf(p) /\ scan.current /\ ListTags)
          /\ SF_vars(StatusAccepted(p) /\ scan.tag # None)
          /\ WF_vars(StatusRejected(p))
    /\ WF_vars(ListTags \/ ScanFails)

FairSpec == Spec /\ Fairness

-----------------------------------------------------------------------------
\* The variables have their types, and no more events wait than the bound.
TypeOK ==
    /\ APITypeOK
    /\ watch \in [Policies -> Seq(ImagePolicy \cup {None})]
    /\ \A p \in Policies : Len(watch[p]) <= MaxLag
    /\ cache \in [Policies -> ImagePolicy \cup {None}]
    /\ queue \subseteq Policies
    /\ delayed \subseteq Policies
    /\ scan \in Scan \cup {None}

\* Something will make the worker look at p again.
Expected(p) ==
    \/ watch[p] # <<>>
    \/ p \in queue
    \/ p \in delayed
    \/ ScanOf(p)

\* Polling never stops: a policy that exists and is not suspended has a
\* reconcile ahead, whatever was rejected, skipped, deleted, recreated or
\* lost in a restart. There is no other timer that would ever pick it up.
PollingNeverStops ==
    \A p \in Policies : Active(api[p]) => Expected(p)

\* A ready policy that has observed its own generation shows an image of the
\* repository its spec names: a reader may trust latestImage under exactly
\* this condition, also when the repository was edited during a scan or the
\* policy deleted and created again under the same name and generation.
ReadyStatusMatchesSpec ==
    \A p \in Policies :
        api[p] # None /\ api[p].ready = "True" /\ api[p].observed = api[p].generation
            => api[p].latest # None /\ api[p].latest.repo = api[p].repo

\* The version the informer holds or is about to be told of is the stored one.
CacheFollowsStore ==
    \A p \in Policies :
        api[p] = IF watch[p] = <<>> THEN cache[p] ELSE watch[p][Len(watch[p])]

\* A scan whose update the API server would accept works on the stored object,
\* an active one of which no event is still on its way, and the tag it will
\* record is one the repository has offered since that object was written,
\* however long ago the scan read it from the cache.
AcceptedScanIsFresh ==
    scan # None /\ scan.current =>
        /\ watch[scan.policy] = <<>>
        /\ api[scan.policy] = scan.ip
        /\ scan.tag # None => scan.tag \in fresh[scan.policy]

\* The rest of what makes the invariants inductive.
ScansActivePolicies == scan # None => ~scan.ip.suspend

ObservedNotAhead ==
    \A p \in Policies : api[p] # None => api[p].observed <= api[p].generation

OfferIsFresh ==
    \A p \in Policies :
        api[p] # None /\ registry[api[p].repo] # None
            => registry[api[p].repo] \in fresh[p]

IInv ==
    /\ TypeOK
    /\ OfferIsFresh
    /\ CacheFollowsStore
    /\ AcceptedScanIsFresh
    /\ ScansActivePolicies
    /\ ObservedNotAhead
    /\ PollingNeverStops
    /\ ReadyStatusMatchesSpec

\* Suspending a policy freezes its status at once: a scan that began before
\* the edit cannot write its result after it.
SuspendFreezesStatus ==
    [][\A p \in Policies :
          api[p] # None /\ api[p].suspend /\ api'[p] # None
             => StatusOf(api'[p]) = StatusOf(api[p])]_vars

\* Every scan, spread over a stale read, a listing and an update, looks to the
\* readers of the status like one atomic scan of the object as it then was.
Promise == INSTANCE PolicyStatus
StatusAsPromised == Promise!Spec

\* Once users, registries and the process leave it alone, the controller makes
\* the status of every active policy show the tag its repository then offers,
\* and keeps it, though its own writes wake it and scans may still fail.
LatestConverges ==
    \A p \in Policies :
        <>[][Controller]_vars =>
            <>[](Active(api[p]) /\ registry[api[p].repo] # None
                   => api[p].latest = [repo |-> api[p].repo,
                                       tag |-> registry[api[p].repo]])
=============================================================================
