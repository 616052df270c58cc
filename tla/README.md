# Verification of the image-updater operator

TLA+ models of the operator in `src/`, the TLC runs that check them on small
instances, and TLAPS proofs, for every value of the constants, of the policy
controller, the webhook receiver, both write-backs, the YAML editors and the tag
selection: every safety and action property a passing run checks, and both
refinements. The models are translated from the Go code. Where documentation and
code disagree, the model follows the code and the disagreement is a
[finding](#findings): a run violates what the document says or, where two
documents contradict each other (tag selection), a property states which of them
the code follows.

Contents: [the system](#the-system), [modules](#modules-and-the-code),
[runs](#runs), [fairness](#fairness), [proofs](#proofs),
[what the models leave out](#what-the-models-leave-out), [findings](#findings),
[plan](#plan).

## The system

The operator is one process (several replicas, one of them leading) that talks
to the Kubernetes API server, to image registries and to Git remotes. Its parts
call each other nowhere: they share API objects, and hear of changes through
watches.

| Part | State | Operations | What makes it correct |
|---|---|---|---|
| **ImagePolicy controller** `internal/controller/imagepolicy_controller.go` | none of its own; informer cache, work queue, timers | scan a registry, select a tag, record it in the status, requeue | the status never shows a result for another spec, a suspended policy is left alone, polling never stops |
| **Workload controllers** `internal/controller/workload_controller.go`, one per kind in `internal/workload` | two informer caches, index from policies to workloads, queue, timers | compare the containers with the policies' selections, gate by mode and approval, hand the pending ones to a write-back | no due update is forgotten, nothing that is not due is written |
| **Live write-back** (`patchLive`) | none | merge patch of the images and the `last-updated` annotations | touches only the pending containers, ends |
| **Git write-back** (`writeBackGit`, `internal/gitwriteback`) | a temporary clone | clone, edit, commit, push | keeps others' commits, commits what was selected, comes to an end |
| **YAML editors** (`gitwriteback/edit.go`) | one file | set Helm values, an entry of a kustomization, the image of a manifest | all of a request or nothing, nothing else touched, idempotent |
| **Webhook receiver** `internal/webhook` (every replica) | a field index of the replica's own cache | find the policies of a pushed repository, annotate each so that it is scanned | an acknowledged push is followed by a listing, unless the replica lags behind the leader |
| **Tag selection** `internal/policy` | pure | semver, regex, numerical, alphabetical | an order, an element of the list, deterministic |
| **Registry client, keychain** `internal/registry` | none | list tags, find credentials | library calls |
| **Dashboard** `internal/dashboard` | none | join two cache listings | read-only |
| **Wiring, CRD, chart** `cmd`, `api`, `config`, `helm-charts` | | flags, registration, schemas | |

What is hard here: every read is from a cache that lags, with the registry or a
Git remote called in between; the two informers of a workload controller lag
independently; each controller hears its own writes; the API server decides
between concurrent writers (resourceVersion for the policy status, nothing for
the workload patch); errors are sometimes returned (retried) and sometimes
recorded as events (not retried); queues and timers die with the process.
`PROJECT.json` lists each hazard at its line with the properties aimed at it.

## Modules and the code

    ImagePolicyAPI            stored ImagePolicies, registries: users, pushes
      PolicyStatus            the promise: every scan one atomic step
      ImagePolicyController   cache, queue, worker, status update
        ImagePolicyControllerProofs
        ScanPacing            + history of the reasons for a scan
        WebhookReceiver       + a replica's informer, the request it handles
          WebhookReceiverProofs
    WorkloadReconciler        two informers, fan-out, queue, evaluation
      WorkloadReconcilerProofs
      LiveWriteBack           + merge patch
        LiveWriteBackProofs
      GitWriteBack            + clone, edits, push
        GitOpsLoop            + the GitOps controller behind the branch
          GitOpsLoopProofs
    TargetFiles               what a branch holds of the images, and an edit of it
      TargetEdits             the promise: every request one atomic edit
    YamlEdit                  the editors and Apply, over node trees
      YamlEditProofs
    TagSelection              Select over a changing listing
      TagSelectionProofs
    OwnedReplicaSets          a Deployment and its ReplicaSets, both updated
    SequenceLemmas            heads, tails, ends, folds and minima, for the proofs

An indented module extends the one above it, but `ImagePolicyController`
instantiates `PolicyStatus`, and `YamlEdit` instantiates `TargetEdits`, for their
refinements; `GitWriteBack` instantiates `TargetFiles` for its edits. The `MC*`
modules only name model values, symmetries and, for `YamlEdit`, the files;
`MCGitOpsLoop` also takes one initial state for all that differ by the names of
repositories and tags or by one synchronisation.

**ImagePolicyAPI.** `api[p]` is the stored object; its spec is reduced to the
repository, `suspend` and `metadata.generation` (an edit of the tag rule or of
the credentials is a new generation of the same repository), its status to
`latest` (`latestTag` and `latestImage` are always written together), the Ready
condition and `observedGeneration`. `registry[r]` is the tag the rule would pick
in repository `r` now. The history variable `fresh[p]` is the set of tags the
repository of `p` has offered since `p` was last written.

**ImagePolicyController.** One action per step of `Reconcile` that others can
come between:

| Code | Action |
|---|---|
| `r.Get` NotFound, `Spec.Suspend` (81-90) | `Skip` |
| `r.Get`, not suspended (81-90) | `BeginScan` |
| `ListTags` and `policy.Select` give a tag, or none (97-110) | `ListTags` |
| credentials, listing or rule fail (92-106) | `ScanFails` |
| `Status().Update` accepted, in Reconcile or `fail`; requeue (112-136, 159-173) | `StatusAccepted` |
| the update answered Conflict or another error: backoff | `StatusRejected` |
| the update answered NotFound: no requeue | `StatusGone` |
| `For(&ImagePolicy{})` without a predicate (211) | `Deliver` |
| `RequeueAfter`, backoff | `DelayElapsed` |

`scan.current` stands for the resourceVersion: it says whether the version the
scan read is still the stored one. Delivery of a watch event and the handler
that enqueues the request are one step. An update answered with an error after
it was applied (a lost response) leaves the same state as one accepted. A new
process (`Restart`, also a new leader) lists the stored objects.

**PolicyStatus.** What readers of the status may rely on: `Publish` and `Fail`
change the status in one step, of an active policy only, for the spec it has at
that instant, with a tag the repository has offered since the object was last
written. `ImagePolicyController` implements it under the identity mapping
(`Promise == INSTANCE PolicyStatus`).

**WebhookReceiver.** `handle` and `trigger` on one replica, which need not be the
leader (receiver.go:74): one request at a time, the listing per repository of the
replica's own informer (`index`, which receives with `Catch` what waits in
`unseen`, independently of the leader's `cache`), the dedup by UID, one patch
after the other, and the end of the request at the first error: a listing or a
patch that fails, or a sender that has hung up (`Abort`), or a patch that was
applied though its answer was lost (`PatchLost`). `ReplicaRestart` is a new
process of this replica, `TakeOver` its election in the middle of whatever it
does; a replica that leads is the case in which the two informers advance
together. The history variable `want` carries which stored policies a request
concerned, `owed` which were promised a scan: those patched, and all that a
request concerned once it is answered with 200. A policy that the replica does
not show because it is behind the leader (`Missed`) drops out of `want`: the
sender gets a 200 and the policy waits for its interval.

**WorkloadReconciler.** The part of the workload controllers both write-backs
share, for the workloads of one kind. `Workload` holds, per container, the
image and the annotations `policy.`, `approve.` and `last-updated.`, with
`update-mode` and `write-back`. `Begin` is the read of the workload, `Evaluate(c)`
one turn of the loop with its own read of the policy from a cache that advances
in between, `Gate`, `EffectiveMode` and `Due` the conditions of the code. An
error path that only emits an event and continues (container or policy not
found, not approved, dry run) is a container that is not due. The policy
controller appears as the environment action `Publish`, as `PolicyStatus`
promises it.

**LiveWriteBack.** `Merged` is the stored object after the JSON merge patch of
`client.MergeFrom`: a list has no partial form in such a patch, so the list of
a pending container is sent whole, as the cached copy has it. `PatchFails` is
the returned error, with its backoff.

**GitWriteBack.** `branch` holds the entries of the target files at the tip,
`tree` the clone of the write-back in progress. An edit is that of `TargetFiles`,
for the four kinds of target (Helm values with and without a key for the
repository, kustomization, manifest): every container of every workload has an
entry of its own, the images list of a kustomization has one per repository. A
push is taken if the tip is still the one cloned; a push taken by the remote
whose answer is lost has the same effect on everything the code later reads.
Every failure but that of the temporary directory returns nil, so nothing comes
back; the history variable `lapsed` records it. The history variable `authors`
records for which policies the kustomization entry of a repository was last
pushed. The workers of other kinds, people and other tools are `OthersPush`.

**GitOpsLoop.** The Git method never touches the live object. `Sync` is what
Argo CD or Flux does with the branch: it sets the live images to the rendered
files, an event of the operator's own watch. Modelled from what README.md and
`writeBackGit` expect of it.

**YamlEdit.** `setByPath`, `setScalar`, `upsertScalar`, the three editors and
`Apply`, over documents as functions from node paths to nodes (a path is a
sequence of mapping keys and list indexes), with the errors of paths that lead
through a scalar or past the end of a list. `FilesOf` reads off what
`TargetFiles` keeps, and `EntriesAsPromised` says that `Apply` does what
`TargetEdits` promises and `GitWriteBack` builds on: the whole request in one
step, or no entry changed. `Lost(c)` are the two edits that report a change they
do not make: a key that holds a mapping (`upsertScalar` sets the value of the
mapping node), and an `images:` key without a list (the entry is appended to a
scalar node); the refinement takes them for a refused request. Which files and
annotations the model starts from is stated by the assumption `CasesAreFiles`:

- the file is a tree (`IsDocument`);
- no key of a container leads to or through what another names (`KeysApart`; each
  container has keys of its own in README.md:123);
- `Fits`: the keys of a container with both, and the `newTag` of the entries, lead
  to a scalar or to nothing (or, the keys, to an element of a list, which is
  replaced whatever it is), and there is no mapping under `images`. A mapping under
  the only key of a container is allowed: it is the first of the lost edits.

**OwnedReplicaSets.** One Deployment, its ReplicaSets and pods. The operator
updates the template of each; `CreateSet`, `ScaleUp`, `ScaleDown`, `StartPod`,
`StopPod` are the Kubernetes controllers, external to this repository. The new
ReplicaSet is the oldest one whose template equals the Deployment's.

**TagSelection.** `Select`, its filter and its four rules, over tags as
sequences of character codes: chunks, trimmed numbers, the natural and the text
order, the stable sort, the first of equal versions. `Version`, `Matching`,
`Extracted`, `Passing` say what the semver and regexp libraries make of a tag.
Tags are pushed at any place of the listing and removed, so that a scan meets
every order. The properties use a second definition of the order, by the values
of the numbers (`Precedes`, a recursive function on pairs of texts). `Disputed`
names the two cases in which the documents contradict each other.

## Runs

| Run | Checks | Instance, and why it is enough |
|---|---|---|
| `policy_controller` | `TypeOK`, `PollingNeverStops`, `ReadyStatusMatchesSpec`, `AcceptedScanIsFresh`, `SuspendFreezesStatus`, `StatusAsPromised`, `LatestConverges` | one policy, two repositories, each with one tag or none, generation up to 2 (again after each recreation), two undelivered events: 237 000 states. The safety properties were also run with two tags (2.1 million states). Policies interact only through the one worker; the proofs cover any number. |
| `scan_pacing` | `ScansArePaced` is violated | one policy |
| `webhook_receiver` | `HookTypeOK`, `AnsweredPushIsHeard` | one policy that moves between two repositories, two undelivered events for the leader and for the replica, notifications that name one repository twice or both; what the registry offers does not matter, so it offers nothing: 818 000 states. Also run with two policies of one repository, generation 1 and one undelivered event (1.7 million states under symmetry). |
| `live_write_back` | `TypeOK`, `UpdateNotForgotten`, `UpdatesApplied` | a workload with two containers in one list, one policy, two tags, two changes from outside, two undelivered events: 238 000 states. The safety properties were also run with three changes under symmetry (1.5 million states) and with two policies. |
| `suspended_updates` | `SuspendPausesUpdates` is violated | the same, with one change |
| `shared_container_list` | `OnlySelectedImagesWritten` is violated | that of `live_write_back` |
| `git_ops_loop` | `GitTypeOK`, `BehindOnlyAfterFailure`, `OthersCommitsSurvive`, `LoopSettles` | two containers of one policy, two repositories, so that an entry may be of another repository than the policy, all four kinds of target, one change from outside or push by others, a GitOps controller: 266 000 states, from the initial states of `MCInit`. The invariants were also run with two policies on one workload (130 000 states under symmetry) and two policies with two workloads (1.2 million), where kustomizations are contested. |
| `contested_kustomization` | `CommitsEnd` is violated | two policies of one repository, no change from outside |
| `git_mixed_image` | `CommitsSelectedImages` is violated | two repositories, one change |
| `tag_selection` | `SelectionTypeOK`, `ComparisonIsAnOrder`, `SelectionIsNewest`, `DisputedRanking` | listings of up to three of seven tags in every order, under every rule: 9 and 09 (equal numbers), v9 (equal version), 10, v11, v (no number), 9-1 (a prerelease, mixed chunks). Three tags are enough for a broken order to show and for a sort to depend on it. |
| `yaml_edit` | `DocumentIsTree`, `EntriesAsPromised`, `UnrelatedContentKept`, `CarriedIsUnchanged` | fourteen files and annotations (`MCCases`), any sequence of requests for two containers, two repositories and two tags. The files have every node kind at every place the editors look at: keys that are there, missing, under a scalar, under a list, past its end; items that are no mapping, without a tag, twice; documents with several containers, a digest, a mapping under `image`. |
| `owned_replica_sets` | `UpdateReachesPods` is violated | a Deployment of one replica, two tags |

Bounds: `MaxGeneration` (spec edits of one object), `MaxLag` (events of one
object on their way; a write waits when it is full, which the operator cannot
observe), `MaxEdits` (changes from outside in the workload models, restarts
and pushes of others included), `MaxTags` (length of a listing), `MaxSets`
(ReplicaSets of the Deployment), `MaxIndex` (the last index of a list; an entry is
appended only while there is one, `HasRoom`; the longest list of a run has four
items, and a file gets one new entry per repository at most, so no run reaches
it). The initial states of the workload models already contain scanned
and unscanned policies and differing images, so that the changes counted are
spent on races. Deadlock is checked in the policy, webhook, tag and editor runs;
the workload runs stop when the changes are used up and every update is applied.

Every property of a passing run comes with a mutant in `PROJECT.json`: a
definition of the same module, marked *Variant*, with the mistake that would
break it (a status patch without a resourceVersion, a generation predicate on
the watch, a swallowed error, a forced push).

What the main properties say:

- `PollingNeverStops`, `UpdateNotForgotten`: whatever was rejected, reordered,
  deleted, created again or lost in a restart, a reconcile is ahead where one is
  needed. The code has no periodic resync that would mend it.
- `StatusAsPromised`: stale read, listing and update together look like one
  atomic scan.
- `AnsweredPushIsHeard`: after a 200, the registry is asked again for every
  policy concerned, without a timer in between, also when neither the leader's nor
  the receiver's informer shows the policy: its watch event is then still to come
  to the leader, whoever that will be. What README.md:387 promises, a re-scan of
  the affected policies at once, does not hold for one exception: a policy the
  leader has heard of and the replica that answers has not (`Missed`). It cannot
  happen on the leader.
- `LatestConverges`, `UpdatesApplied`: the loops of write and own event end in
  the right state. `UpdatesApplied` demands nothing of suspended policies, whose
  updates the code applies although the documents say otherwise
  (`suspended_updates`).
- `SelectionIsNewest`: however the registry orders its list, no eligible tag
  outranks the one selected. Which of several equal ones (1 and 01) wins depends
  on that order and is not promised. It speaks of the rules and listings of which
  the documents agree; of the others `DisputedRanking` says what the code does.
- `BehindOnlyAfterFailure`: the quiet failures are the only gap of the Git
  write-back, but for a kustomization entry that was last pushed for another
  policy of the same repository (`Contested`): that commit took the tag of the
  container away, and nothing wakes it before the next synchronisation.
- `LoopSettles`: commit, synchronisation and event come to an end, and then a due
  update of a policy that is not suspended is live, or among those that failed
  quietly, or out of reach (`OutOfReach`): the policy has moved to another
  repository and not been scanned since, or the entry belongs to another
  repository than the policy, and the edit changes nothing the container goes by,
  without an error or an event (edit.go:138, 154; README.md:127 speaks of the
  entry "whose repository matches" for manifests). With two policies on one
  kustomization commits do not end (`contested_kustomization`).
- `EntriesAsPromised`: the model of an edit that `GitWriteBack` uses is what the
  editors do, entry found or created, though an error comes after the first of
  two Helm keys was set.
- `UnrelatedContentKept` (README.md:87 "preserving unrelated content"): an edit
  changes no node that its keys, its repository or its container do not lead to.
- `CarriedIsUnchanged`: once the file carries what is asked for, an edit reports
  no change, which is what keeps the operator from committing again.

## Fairness

Used by `policy_controller`, `live_write_back`, `git_ops_loop` and
`contested_kustomization`; their safety properties do not depend on it.

- Weak fairness of deliveries and timers: client-go delivers every event, and
  the delaying queue releases every request.
- Strong fairness of taking a request (`Skip`, `BeginScan`, `Begin`): the work
  queue is first-in first-out, so a request is not overtaken for ever, though
  the worker is busy again and again.
- Weak fairness of the calls' ends: a registry call or a status update returns,
  with a result or an error. The code sets no timeout on a registry call beyond
  those of the HTTP client; a call that hangs for ever would stop the one worker.
- Strong fairness of success: a registry asked again and again by scans of the
  latest version lists for one of them; an API server that is offered successful results
  again and again accepts one; patches tried again and again are accepted.
  Without it nothing would converge, and nothing in the code could help.
- `LatestConverges` assumes that the environment stops (`<>[][Controller]_vars`);
  in the workload models `MaxEdits` says the same.
- In the Git loop, nothing is assumed of edits and pushes but that they end,
  successful or not: one that fails quietly is in `lapsed`. A clone tried again
  and again (after an error of the temporary directory) is made, and a GitOps
  controller that polls the branch synchronises.

## Proofs

Everything below is proved for any sets of policies, workloads, containers,
repositories and tags, any files, texts and rules, and for any bounds. The
assumptions are those the modules name:

- `None` (and `Mistagged`) is none of the values it stands beside: `NoneIsNoTag`,
  `NoneIsNoObject`, `NoneIsNoScan`, `NoValueTwice`;
- bounds and constants are of their kind: `LagIsPositive`, `ReconcilerConstants`,
  `PayloadsNameRepos`, `MaxTagsIsNat`;
- tags and what a pattern extracts from them are texts (`TagsAreTexts`,
  `ExtractsAreTexts`), versions in the range have a place in their order
  (`VersionsAreRanked`);
- the keys the editors write are segments of paths (`KeysAreSegments`), two
  indices are written differently (`IndicesDiffer`), and the files are those
  described under YamlEdit (`CasesAreFiles`).

### The policy controller

`ImagePolicyControllerProofs`:

| Theorem | Property |
|---|---|
| `Invariance` | `Spec => []IInv` |
| `TypeCorrect` | `Spec => []TypeOK` |
| `PollingContinues` | `Spec => []PollingNeverStops` |
| `ReadyStatusTrue` | `Spec => []ReadyStatusMatchesSpec` |
| `AcceptedScansAreFresh` | `Spec => []AcceptedScanIsFresh` |
| `SuspendedStatusFrozen` | `Spec => SuspendFreezesStatus` |
| `ImplementsPromise` | `Spec => StatusAsPromised` |

None of the safety properties is inductive alone. `IInv` adds:

- `CacheFollowsStore`: the last version on its way to the informer, or the
  cached one if none is, is the stored one. Hence a scan that begins with no
  event outstanding read the stored object, and a scan whose version is current
  has had no write since (`AcceptedScanIsFresh`). Polling needs it too: `Skip`
  drops a request for good, which is right only because either the policy really
  is absent or suspended, or an event is still to come.
- `OfferIsFresh`: what a registry offers now counts as offered since the last
  write, so a listing made by a current scan is fresh and stays so.
- `ObservedNotAhead`: `observedGeneration` never exceeds the generation, so an
  edit always invalidates the status, and `ReadyStatusMatchesSpec` survives it.
- `ScansActivePolicies`: the copy scanned is not suspended.

The proof has a lemma per action or group of actions (`OtherWriteKeepsIInv`,
`PushKeepsIInv`, `RestartKeepsIInv`, `DeliverKeepsIInv`, `WorkerKeepsIInv`,
`StatusAcceptedKeepsIInv`), over lemmas on the operators (`RecordedStorable`,
`WriteEffect`, `HeadAndTail`). The refinement maps `StatusAccepted` to `Publish`
or `Fail`, user writes to `Create`, `Edit`, `Delete`, `Touch`, and everything else
to a push or a stutter.

### The webhook receiver

`WebhookReceiverProofs`, of `HookSpec`: `HookInvariance` (`HookInv`),
`HookTypeCorrect` (`HookTypeOK`), `AnsweredPushesAreHeard`
(`AnsweredPushIsHeard`). Every step of the composition is one of the policy
controller or leaves it alone, so `IInv` carries over. While a request is handled,
`RequestMissesNone` says of each policy it concerns: a listing is ahead of it
(`ListingAhead`), or it is on the list to patch, or its repository is still to be
listed; and what was listed and is no longer on the list has been patched. The
step that needs an argument is `List` (`ListKeeps`): a policy the replica does
not show has, by `IndexFollowsStore`, an event on its way to the replica, and then
either one on its way to the leader, which will wake the controller without the
receiver, or it is `Missed`. `IndexFollowsStore` is kept by every write
(`RelayKeeps`) and delivery (`CatchKeeps`), and is also what a replica that takes
over starts from (`TakeOverKeeps`): all it shows is queued, all it does not show
is still to come.

### The workload controllers

`WorkloadReconcilerProofs` proves, of every action both write-backs share, that
it keeps `ReconcilerInv` and forgets nothing (`NothingForgotten`: an update
forgotten after the step was forgotten before it). `ReconcilerInv` is:

- `CachesFollowStore`: the last version on its way, or else the cached one, is
  the stored one, for both informers.
- `JobIsCurrent`: what a reconcile has read is what is stored, of each policy and
  workload nothing will wake the worker for again (`Quiet`). This is what makes
  two informers safe: the worker may well judge a new policy with an old workload,
  but only while one of the two events is still to come, and it brings a
  reconcile. The clause speaks of all workloads, not of the one at hand only,
  because a commit for one can carry the update of another.
- `PendingIsDue`: what is pending was evaluated, and due by the copies read.

`ReturnKeeps` is the centre: the end of a reconcile takes `Expected` from its
workload, and then an update that is outstanding is one that was pending.

| Theorem | Property |
|---|---|
| `LiveInvariance` | `Spec => []LiveInv` |
| `LiveTypeCorrect` | `Spec => []TypeOK` |
| `UpdatesAreNotForgotten` | `Spec => []UpdateNotForgotten` |

(`LiveWriteBackProofs`.) A patch that the API server takes is an event of the
workload's watch or changes nothing, and in the second case the containers
pending already had their images.

### The Git write-back

`GitOpsLoopProofs`, by itself and with a GitOps controller behind the branch:

| Theorem | Property |
|---|---|
| `GitInvariance` | `GitSpec => []GitInv` |
| `LoopInvariance` | `LoopSpec => []GitInv` |
| `LoopTypeCorrect` | `LoopSpec => []GitTypeOK` |
| `BehindOnlyThen` | `LoopSpec => []BehindOnlyAfterFailure` |
| `CommitsOfOthersSurvive` | `LoopSpec => OthersCommitsSurvive` |

`GitInv` adds to `ReconcilerInv`:

- `EntriesComplete`: every entry has a repository and a tag.
- `TreeFollowsJob`: a work tree belongs to a reconcile that is ready to write. If
  its tip is still the one cloned, it differs from the branch only in what is
  pending, which is why a push cannot undo what others pushed; if nothing has
  failed since the clone, it carries every edit made, and equals the branch when
  no edit has reported a change, which is why "nothing to commit" ends nothing
  too early. In a kustomization two pending containers may write one entry
  (`Placed`).

`EditEffect` says of one edit, of all four kinds, what it changes and that it
changes nothing exactly when the file already fits. That a push forgets no update
has two cases. Outside a kustomization every container has an entry of its own,
and a push leaves those of other workloads as they are (`OwnEntryStays`). The
entry of a kustomization fits every update of the policies it was pushed for, of
whatever workload: by `JobIsCurrent` the tag pushed is the one they select
(`AuthorsFit`). What remains is `Contested`, an entry pushed for others only.

TLC checked the inductive invariants before they were proved, `HookInv` on the
instance of `webhook_receiver`, `GitInv` also with two policies on one workload
and with two policies and two workloads (1.2 million states).

### The YAML editors

`YamlEditProofs`:

| Theorem | Property |
|---|---|
| `DocumentInvariance` | `Spec => []DocumentInv` |
| `DocumentTree` | `Spec => []DocumentIsTree` |
| `UnrelatedKept` | `Spec => UnrelatedContentKept` |
| `EditInvariance` | `Spec => []EditInv` |
| `CarriedUnchanged` | `Spec => CarriedIsUnchanged` |
| `EditorsImplementPromise` | `Spec => EntriesAsPromised` |

A tree is a set of paths closed under `Front`, so what the code does node by node
on the way down becomes a statement about all prefixes of a path (`PrefixOrder`,
`Walkable`, `Ancestors`). The argument has three layers.

1. What one write does, of a path of any length: under a mapping it adds the
   mappings that are missing and the scalar (`Upserted`), on a list element it
   drops what was below (`Replaced`); either way the result is a document and
   every other node is kept (`SetByPathEffect`).
2. What one editor does. `HelmEffect`: two keys, one set in the document the other
   has already changed. If neither leads to or through the other (`Apart`), the
   second finds what it would have found before (`ApartResult`), so both values
   are set together, and a change is reported exactly when one of them was not
   there. `EntryEffect` and `AppendEffect`: the items of a list are numbered
   without a gap (`ItemsInOrder`), so their number is the place of the next one,
   and a new entry is the only one of its repository. `ManifestEffect`: only
   images of the container change, and no name does, so the images stay the same
   set.
3. What `Apply` does (`HelmApply`, `KustomizeApply`, `ManifestApply`): refuse, or
   one of these. `DocumentInv` is enough for the tree and for
   `UnrelatedContentKept`. The other two need `EditInv`: that the file still fits
   the keys after every edit (`FitsStep`), which is where keys of several
   containers meet: setting one container's keys keeps the node of another's key
   and the list it is an element of (`KeyKept`).

The refinement maps the document to what `FilesOf` reads off. A refused request
and one of the lost edits are `Decline`, everything else is `Do`, of the entry of
that container or repository alone (`HelmRefines`, `EntryRefines`,
`ManifestRefines`). TLC checked `EditInv` on the instance of `yaml_edit` first.

### Tag selection

`TagSelectionProofs`:

| Theorem | Property |
|---|---|
| `NumericLessOrders` | `naturalCompare` is a strict weak order of all texts |
| `PrecedesIsNumeric` | it is the order by values, `Precedes` |
| `SelectionType` | `Spec => []SelectionTypeOK` |
| `ComparisonOrders` | `Spec => []ComparisonIsAnOrder` |
| `SelectionNewest` | `Spec => SelectionIsNewest` |
| `DisputedRanked` | `Spec => DisputedRanking` |

The model writes the loops of the code as folds and recursive functions. An
induction over a text or a list is an argument about the least length at which a
set of naturals would fail (`LeastNatural` in `SequenceLemmas`), and a fold is
unrolled one element at a time (`FoldSteps`).

- Numbers: without its leading zeros, a longer run of digits is a greater number,
  and of two as long the first different digit decides (`NumberLessIsLess`); the
  code never computes the value and cannot overflow.
- Chunks: of two different kinds, a number and a text are decided by their first
  byte, digits against all others (`MixedByFirst`). Without this the chunks would
  not be ordered transitively; with it the comparison of chunks, and then of lists
  of chunks, is asymmetric and negatively transitive (`ChunkLessWeak`,
  `ChunksLessWeak`).
- The reference: two texts that begin with equal numbers are ordered like what is
  left of them (`ChunksPeel`), which is the equation that defines `Precedes`; by
  `PrecedesIsNumeric` it has no other solution.
- The sort: putting a tag behind the last that is not greater keeps a sorted list
  sorted (`InsertSorted`), for which the order must be the weak order proved
  before; so an end of the list is outranked by none (`EndOfIs`).

TLC checks the last four on the instance of `tag_selection`.

### Model-checked only

Liveness under fairness (`LatestConverges`, `UpdatesApplied`, `LoopSettles`),
which TLAPS does not prove, and the six violations, whose traces are TLC's.

## What the models leave out

- In `TargetEdits`: the two edits that report a change they do not make (`Lost`)
  count as refused requests there, so the false report, an empty commit, is in no
  property.
- In `WorkloadReconciler`: an approval is given and changed, never withdrawn; and
  no property says that an update without approval, or in `DryRun`, stays
  unwritten.
- In `YamlEdit`: files that do not fit their keys (`CasesAreFiles`): with a mapping
  under one of a container's two keys, the other key is still set; of a mapping
  under `images`, the keys and values are searched as if they were items. An index
  with leading zeros (`01`), which `strconv.Atoi` takes too. Aliases, comments and layout; all but the first document of a
  Helm or kustomization file, which `parseDoc` drops; the write of the file, which
  is not atomic (`os.WriteFile`), but into a clone that is thrown away; scalars
  are compared by their text, not by their YAML type.
- Payload parsing and canonical repository names in the receiver: pure functions,
  reduced to the repositories a notification names.
- In `TagSelection`, the regexp and semver libraries, given by what they make of
  each tag. The controllers' models do not use that module: what the rule picks
  in a repository is one value there.
- The registry client, the keychain and Git credentials: calls with a result or
  an error. Two entries of one docker config that name the same host are told
  apart by the random order of a Go map (keychain.go:68).
- Time: an interval is a timer that fires some time later; `effectiveInterval`
  only decides when.
- Events on objects, logs, metrics.
- Namespaces: all objects are in one; the code never crosses them.
- Two replicas that both believe to lead: leader election is the library's.
- The dashboard: it changes nothing, and shows two listings made one after the
  other.
- The error of a cache `List` in `workloadsForPolicy`: a cache that has started
  answers from memory.

## Findings

1. **A scan follows its own result** (`scan_pacing`). The policy controller
   watches ImagePolicy without a predicate, so writing `lastScanTime` enqueues
   the policy again at once, whatever `spec.interval` says. The loop ends when
   two results of one second are equal byte for byte.
2. **A live patch undoes changes of its neighbours** (`shared_container_list`).
   The merge patch sends the whole container list from the cached copy and no
   resourceVersion.
3. **Git commits an image nobody selected** (`git_mixed_image`). Repository from
   the spec, tag from the status; after an edit of the repository they do not
   belong together until the next scan.
4. **Commits do not end** (`contested_kustomization`). README.md:130 says that
   once Git carries the selected tag, reconciles make no further commits. Two
   policies of one repository whose containers share a kustomization write the
   same `newTag`; every synchronisation makes the other one pending again.
5. **Pods keep the old image** (`owned_replica_sets`). The ReplicaSets behind a
   Deployment carry its annotations and are updated too. One that gets the new
   template is then taken for the new ReplicaSet, and nothing is rolled out. The
   same happens when the Deployment is patched first and an older ReplicaSet
   after it. The dashboard skips owned objects (dashboard.go:221), the
   reconcilers do not.

6. **A suspended policy goes on updating** (`suspended_updates`). The workload
   controllers never read `spec.suspend`, though README.md:289 and
   imagepolicy_types.go:158 say that it pauses updates: only the scans stop, and
   what was selected last is still applied.
7. **The numerical rule ranks words** (`tag_selection`, `DisputedRanking`). It
   sorts tags without a number with the others, a letter above a digit (v11 before
   10): README.md:367 has it so, README.md:448 has them ignored.
8. **asc takes the first tag** (`tag_selection`, `DisputedRanking`). README.md:366
   and policy.go:141 have it so; imagepolicy_types.go:74 says the last tag wins
   after sorting.

## Plan

Done, in this order: the policy controller with its promise and its pacing; the
webhook receiver beside it; the workload controllers with the live write-back;
the Git write-back, the GitOps loop and the branch others push to; tag selection;
the editors and their refinement; the ReplicaSets behind a Deployment; the proofs
of the controllers and write-backs, of tag selection and of the editors.

Left, most useful first:

1. A promise of the workload controllers in the manner of `PolicyStatus`: each
   patch one atomic step that takes the image its policy shows, as far as
   `shared_container_list` lets it hold.
2. The policy controller and the workload controllers in one specification, with
   `Publish` of `WorkloadReconciler` instantiated by the real scan instead of its
   promise.
3. `LoopSettles` with two workloads on one kustomization and one policy, which
   needs a smaller state than `git_ops_loop` has.
4. The dashboard's join of two listings, the credentials chosen by the keychain,
   and files of several documents: hazards listed without a property.
