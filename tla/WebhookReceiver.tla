--------------------------- MODULE WebhookReceiver ---------------------------
(***************************************************************************)
(* The webhook receiver (internal/webhook/receiver.go) beside the policy   *)
(* controller it wakes. A push notification names one or more              *)
(* repositories; for each, the receiver lists the matching policies in the *)
(* informer cache, and patches an annotation on one after the other. The   *)
(* first call that fails ends the request with an error, and the policies  *)
(* patched before it stay patched.                                         *)
(* The receiver never calls the policy controller: the patch is heard only *)
(* because the controller watches the policies.                            *)
(*                                                                         *)
(* Every replica serves notifications, the controllers run on the leader   *)
(* alone. The module follows one request at a time on one replica, with an *)
(* informer of its own: index lags the API server independently of the     *)
(* leader's cache. If the replica leads, the two advance together, which   *)
(* is one of their interleavings. A request on another replica is for this *)
(* one a write by others.                                                  *)
(***************************************************************************)
EXTENDS ImagePolicyController

CONSTANT Payloads   \* sequences of repositories a notification can name

ASSUME PayloadsNameRepos == Payloads \subseteq Seq(Repos) \ {<<>>}

VARIABLES
    index,  \* this replica's informer copy of every policy
    unseen, \* per policy, written versions it has not received yet
    hook,   \* the request being handled, None between requests
    owed    \* history: policies patched, or promised a scan by an answered
            \* request, and not listed since

indexVars == <<index, unseen>>
hookVars == <<hook, owed>>
allVars == <<api, registry, fresh, watch, cache, queue, delayed, scan,
             index, unseen, hook, owed>>

Hook ==
    [ repos : Seq(Repos),           \* repositories not listed yet
      todo  : SUBSET Policies,      \* listed policies not patched yet
      seen  : SUBSET Policies,      \* objects (by UID) listed before
      want  : SUBSET Policies ]     \* history: stored policies that scanned one
                                    \* of the repositories when it arrived, not
                                    \* listed, edited or deleted since, and not
                                    \* missed by a replica behind the leader

Handling == hook # None

\* Whatever happens to p, hook and owed forget what is no longer wanted of it.
Unwant(p) ==
    /\ hook' = IF Handling THEN [hook EXCEPT !.want = @ \ {p}] ELSE hook
    /\ owed' = owed \ {p}

\* Every write, of which the leader's informer is told, is an event of this
\* replica's as well. It waits while MaxLag events do.
Relay ==
    /\ unseen' = [p \in Policies |-> IF Len(watch'[p]) > Len(watch[p])
                                     THEN Append(unseen[p], api'[p]) ELSE unseen[p]]
    /\ \A p \in Policies : Len(unseen'[p]) <= MaxLag
    /\ UNCHANGED index

-----------------------------------------------------------------------------
\* A notification arrives and passes the checks of handle: it is a POST, is
\* authorized, and its payload names repositories.
Receive ==
    /\ ~Handling
    /\ \E rs \in Payloads :
          hook' = [ repos |-> rs, todo |-> {}, seen |-> {},
                    want |-> {p \in Policies : api[p] # None
                                 /\ \E i \in DOMAIN rs : rs[i] = api[p].repo} ]
    /\ UNCHANGED <<vars, indexVars, owed>>

\* Variant: the listed objects stand for themselves in the dedup, not by UID.
IndexedObjects(repo) ==
    {index[p] : p \in {q \in Policies : index[q] # None /\ index[q].repo = repo}}

\* The field index of this replica's cache.
Indexed(repo) == {p \in Policies : index[p] # None /\ index[p].repo = repo}

\* The leader's informer has received all there is of p, this replica's has not.
Behind(p) == watch[p] = <<>> /\ unseen[p] # <<>>

\* Policies of the repository that this replica does not show because it is
\* behind: no event is on its way to the leader that would make up for it.
Missed(repo) ==
    {p \in Policies : api[p] # None /\ api[p].repo = repo /\ Behind(p)} \ Indexed(repo)

\* The cached policies of the next repository, but those seen already.
List ==
    /\ Handling
    /\ hook.todo = {}
    /\ hook.repos # <<>>
    /\ LET repo == Head(hook.repos)
           listed == Indexed(repo)
       IN hook' = [hook EXCEPT !.repos = Tail(@),
                               !.todo = listed \ hook.seen,
                               !.seen = @ \cup listed,
                               !.want = @ \ Missed(repo)]
    /\ UNCHANGED <<vars, indexVars, owed>>

\* The merge patch names the policy and carries the annotation alone.
PatchPolicy(p) ==
    /\ Handling
    /\ p \in hook.todo
    /\ Trigger(p) /\ Relay
    /\ hook' = [hook EXCEPT !.todo = @ \ {p}]
    /\ owed' = owed \cup {p}

\* The patch is applied, but its answer lost: for the receiver it has failed.
PatchLost(p) ==
    /\ Handling
    /\ p \in hook.todo
    /\ Trigger(p) /\ Relay
    /\ hook' = None
    /\ owed' = owed \cup {p}

\* A call fails: the policy is gone, the API server refuses, the cache does not
\* answer, or the sender has hung up. The rest of the list and of the
\* repositories is dropped, and the sender told so (500).
Abort ==
    /\ Handling
    /\ hook.todo # {} \/ hook.repos # <<>>
    /\ hook' = None
    /\ UNCHANGED <<vars, indexVars, owed>>

\* Every listed policy is patched: 200.
Answer ==
    /\ Handling
    /\ hook.todo = {} /\ hook.repos = <<>>
    /\ hook' = None
    /\ owed' = owed \cup hook.want
    /\ UNCHANGED <<vars, indexVars>>

-----------------------------------------------------------------------------
\* This replica's informer receives the oldest event of p. Of a deletion the
\* receiver sees that a policy of that name listed later is another object.
Catch(p) ==
    /\ unseen[p] # <<>>
    /\ index' = [index EXCEPT ![p] = Head(unseen[p])]
    /\ unseen' = [unseen EXCEPT ![p] = Tail(@)]
    /\ hook' = IF Handling /\ index'[p] = None
               THEN [hook EXCEPT !.seen = @ \ {p}] ELSE hook
    /\ UNCHANGED <<vars, owed>>

\* This replica's process ends, and a new one lists the stored policies.
ReplicaRestart ==
    /\ index' = api
    /\ unseen' = [p \in Policies |-> <<>>]
    /\ hook' = None
    /\ UNCHANGED <<vars, owed>>

\* This replica becomes the leader, in the middle of a request or not: its
\* controllers start from the informer it has, which may lag behind the old
\* leader's.
TakeOver ==
    /\ cache' = index /\ watch' = unseen
    /\ queue' = {p \in Policies : index[p] # None}
    /\ delayed' = {}
    /\ scan' = None
    /\ UNCHANGED <<apiVars, indexVars, hookVars>>

-----------------------------------------------------------------------------
\* The steps of the others, and what the receiver's state makes of them. The
\* registries stay as they are: a notification promises a listing, whatever it
\* finds.
Change ==
    \/ \E p \in Policies : (CreatePolicy(p) \/ EditPolicy(p) \/ DeletePolicy(p)) /\ Unwant(p)
    \/ \E p \in Policies : Trigger(p) /\ UNCHANGED hookVars
    \/ Restart /\ UNCHANGED hookVars

\* Whoever asks a registry does so for the policy being scanned.
Asked ==
    /\ ListTags \/ ScanFails
    /\ Unwant(scan.policy)

Working(p) ==
    /\ \/ Deliver(p) \/ DelayElapsed(p) \/ Skip(p) \/ BeginScan(p)
       \/ StatusAccepted(p) \/ StatusRejected(p) \/ StatusGone(p)
    /\ UNCHANGED hookVars

HookInit ==
    /\ Init
    /\ index = api
    /\ unseen = [p \in Policies |-> <<>>]
    /\ hook = None
    /\ owed = {}

HookNext ==
    \/ Receive \/ List \/ Abort \/ Answer
    \/ \E p \in Policies : PatchPolicy(p) \/ PatchLost(p) \/ Catch(p)
    \/ ReplicaRestart \/ TakeOver
    \/ (Change \/ Asked \/ \E p \in Policies : Working(p)) /\ Relay

HookSpec == HookInit /\ [][HookNext]_allVars

-----------------------------------------------------------------------------
HookTypeOK ==
    /\ TypeOK
    /\ index \in [Policies -> ImagePolicy \cup {None}]
    /\ unseen \in [Policies -> Seq(ImagePolicy \cup {None})]
    /\ \A p \in Policies : Len(unseen[p]) <= MaxLag
    /\ hook \in Hook \cup {None}
    /\ owed \subseteq Policies

\* The controller is about to ask a registry for p: no timer stands between.
ListingAhead(p) ==
    \/ watch[p] # <<>>
    \/ p \in queue
    \/ ScanOf(p) /\ ~scan.listed

\* An answered push is heard: every active policy that scanned the repository
\* when the notification arrived, and that has not asked the registry since,
\* is about to (no timer stands between), even if the replica's informer did
\* not show it to the receiver, its scan was in progress, an earlier result
\* came in between, or leader or replica restarted or changed. A push answered
\* with an error is heard by the policies patched before it, though the request
\* has ended.
\* Nothing is promised of a policy that the replica does not show because it is
\* behind the leader (Missed): README.md:387 speaks of an immediate re-scan of
\* the affected policies, but a replica whose informer lags answers such a push
\* with 200 and leaves the policy to its interval.
AnsweredPushIsHeard ==
    \A p \in owed : Active(api[p]) => ListingAhead(p)

\* The version this replica's informer holds or is about to receive is the
\* stored one.
IndexFollowsStore ==
    \A p \in Policies :
        api[p] = IF unseen[p] = <<>> THEN index[p] ELSE unseen[p][Len(unseen[p])]

\* What makes it inductive: a policy of the request in progress is patched, or
\* listed to be, or its repository still has to be listed, unless the watch
\* wakes the controller in any case.
RequestMissesNone ==
    Handling =>
        /\ (hook.want \cap hook.seen) \ hook.todo \subseteq owed
        /\ \A p \in hook.want :
              Active(api[p]) =>
                  \/ ListingAhead(p)
                  \/ p \in hook.todo
                  \/ \E i \in DOMAIN hook.repos : hook.repos[i] = api[p].repo

HookInv ==
    /\ IInv
    /\ HookTypeOK
    /\ IndexFollowsStore
    /\ AnsweredPushIsHeard
    /\ RequestMissesNone
=============================================================================
