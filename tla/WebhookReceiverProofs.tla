----------------------- MODULE WebhookReceiverProofs -----------------------
(***************************************************************************)
(* Proofs about the webhook receiver beside the policy controller, for     *)
(* every set of policies and repositories, every notification and every    *)
(* bound: a push that has been answered is heard.                          *)
(***************************************************************************)
EXTENDS WebhookReceiver, ImagePolicyControllerProofs

\* The parts of HookTypeOK: the request beside the controller, and the informer
\* of the replica that handles it, with what it has to do with the store.
RequestTypeOK ==
    /\ TypeOK
    /\ hook \in Hook \cup {None}
    /\ owed \subseteq Policies

IndexOK ==
    /\ index \in [Policies -> ImagePolicy \cup {None}]
    /\ unseen \in [Policies -> Seq(ImagePolicy \cup {None})]
    /\ \A p \in Policies : Len(unseen[p]) <= MaxLag
    /\ IndexFollowsStore

LEMMA HookInvParts ==
    HookInv <=> /\ IInv /\ RequestTypeOK /\ IndexOK
                /\ AnsweredPushIsHeard /\ RequestMissesNone
  BY DEF HookInv, HookTypeOK, RequestTypeOK, IndexOK

LEMMA HookInvPartsNext ==
    HookInv' <=> /\ IInv' /\ RequestTypeOK' /\ IndexOK'
                 /\ AnsweredPushIsHeard' /\ RequestMissesNone'
  BY DEF HookInv, HookTypeOK, RequestTypeOK, IndexOK

-----------------------------------------------------------------------------
(* The replica's informer.                                                 *)

\* What changes a stored policy is an event for the leader's informer.
LEMMA WritesAreEvents ==
    ASSUME TypeOK, Next, NEW p \in Policies
    PROVE  Len(watch'[p]) > Len(watch[p]) \/ api'[p] = api[p]
  <1>1. ASSUME NEW q \in Policies, NEW obj, Write(q, obj)
        PROVE  Len(watch'[p]) > Len(watch[p]) \/ api'[p] = api[p]
    <2>1. watch[q] \in Seq(ImagePolicy \cup {None}) /\ Len(watch[q]) \in Nat
      BY DEF TypeOK
    <2>2. CASE p = q
      <3>1. watch'[p] = Append(watch[p], obj)
        BY <1>1, <2>2 DEF Write, TypeOK
      <3>2. Len(Append(watch[p], obj)) = Len(watch[p]) + 1
        BY <2>1, <2>2
      <3> QED
        BY <2>1, <2>2, <3>1, <3>2
    <2>3. CASE p # q
      BY <1>1, <2>3 DEF Write, Put, TypeOK, APITypeOK
    <2> QED
      BY <2>2, <2>3
  <1>2. CASE Environment
    <2>1. CASE Push \/ Restart
      BY <2>1 DEF Push, PushTo, Restart, apiVars
    <2>2. ASSUME NEW q \in Policies,
                 CreatePolicy(q) \/ EditPolicy(q) \/ DeletePolicy(q) \/ Trigger(q)
          PROVE  \E obj : Write(q, obj)
      BY <2>2 DEF CreatePolicy, EditPolicy, DeletePolicy, Trigger, OtherWrite
    <2> QED
      BY <1>1, <1>2, <2>1, <2>2 DEF Environment
  <1>3. CASE Controller
    <2>1. CASE ListTags \/ ScanFails
      BY <2>1 DEF ListTags, ScanFails, Answered
    <2>2. ASSUME NEW q \in Policies,
                 \/ Deliver(q) \/ DelayElapsed(q) \/ Skip(q) \/ BeginScan(q)
                 \/ StatusRejected(q) \/ StatusGone(q)
          PROVE  api' = api
      BY <2>2 DEF Deliver, DelayElapsed, Skip, BeginScan, StatusRejected, StatusGone
    <2>3. ASSUME NEW q \in Policies, StatusAccepted(q)
          PROVE  api' = api \/ \E obj : Write(q, obj)
      BY <2>3 DEF StatusAccepted
    <2> QED
      BY <1>1, <1>3, <2>1, <2>2, <2>3 DEF Controller
  <1> QED
    BY <1>2, <1>3 DEF Next

LEMMA RelayKeeps ==
    ASSUME HookInv, Next, Relay
    PROVE  IndexOK'
  <1>1. IInv /\ TypeOK /\ IInv' /\ TypeOK' /\ IndexOK
    BY NextKeepsIInv, HookInvParts DEF IInv
  <1>2. ASSUME NEW p \in Policies
        PROVE  /\ unseen'[p] \in Seq(ImagePolicy \cup {None})
               /\ api'[p] = IF unseen'[p] = <<>> THEN index'[p] ELSE unseen'[p][Len(unseen'[p])]
    <2>1. /\ unseen[p] \in Seq(ImagePolicy \cup {None}) /\ api'[p] \in ImagePolicy \cup {None}
          /\ index' = index
          /\ api[p] = IF unseen[p] = <<>> THEN index[p] ELSE unseen[p][Len(unseen[p])]
      BY <1>1 DEF IndexOK, IndexFollowsStore, TypeOK, APITypeOK, Relay
    <2>2. CASE Len(watch'[p]) > Len(watch[p])
      <3> DEFINE s == unseen[p]
                 new == api'[p]
      <3>1. unseen'[p] = Append(s, new)
        BY <2>2 DEF Relay
      <3>2. s \in Seq(ImagePolicy \cup {None}) /\ new \in ImagePolicy \cup {None}
        BY <2>1
      <3> HIDE DEF s, new
      <3>3. /\ Append(s, new) \in Seq(ImagePolicy \cup {None})
            /\ Len(Append(s, new)) = Len(s) + 1
            /\ Len(s) \in Nat
        BY <3>2
      <3>4. Append(s, new)[Len(s) + 1] = new
        BY <3>2
      <3>5. Append(s, new) # <<>>
        BY <3>3
      <3>6. unseen'[p] # <<>> /\ unseen'[p][Len(unseen'[p])] = new
        BY <3>1, <3>3, <3>4, <3>5
      <3> QED
        BY <3>1, <3>3, <3>6 DEF new
    <2>3. CASE ~(Len(watch'[p]) > Len(watch[p]))
      <3>1. unseen'[p] = unseen[p] /\ api'[p] = api[p]
        BY <1>1, <2>3, WritesAreEvents DEF Relay
      <3> QED
        BY <2>1, <3>1
    <2> QED
      BY <2>2, <2>3
  <1>3. unseen' \in [Policies -> Seq(ImagePolicy \cup {None})]
    <2>1. \E f : unseen' = [p \in Policies |-> f[p]]
      <3> DEFINE f == [p \in Policies |-> IF Len(watch'[p]) > Len(watch[p])
                                          THEN Append(unseen[p], api'[p]) ELSE unseen[p]]
      <3>1. unseen' = [p \in Policies |-> f[p]]
        BY DEF Relay
      <3> HIDE DEF f
      <3> QED
        BY <3>1
    <2> QED
      BY <1>2, <2>1
  <1> QED
    BY <1>1, <1>2, <1>3 DEF IndexOK, IndexFollowsStore, Relay

LEMMA CatchKeeps ==
    ASSUME HookInv, NEW p \in Policies, Catch(p)
    PROVE  IndexOK'
  <1>1. IndexOK /\ unseen[p] \in Seq(ImagePolicy \cup {None}) /\ unseen[p] # <<>>
        /\ api' = api
    BY HookInvParts DEF IndexOK, Catch, vars
  <1>2. /\ Head(unseen[p]) \in ImagePolicy \cup {None}
        /\ Tail(unseen[p]) \in Seq(ImagePolicy \cup {None})
        /\ Len(Tail(unseen[p])) = Len(unseen[p]) - 1 /\ Len(unseen[p]) \in Nat
        /\ (IF Tail(unseen[p]) = <<>> THEN Head(unseen[p])
             ELSE Tail(unseen[p])[Len(Tail(unseen[p]))]) = unseen[p][Len(unseen[p])]
    BY <1>1, HeadAndTail
  <1> DEFINE head == Head(unseen[p])
             tail == Tail(unseen[p])
  <1>3. index' = [index EXCEPT ![p] = head] /\ unseen' = [unseen EXCEPT ![p] = tail]
    BY DEF Catch
  <1> HIDE DEF head, tail
  <1>4. /\ head \in ImagePolicy \cup {None} /\ tail \in Seq(ImagePolicy \cup {None})
        /\ Len(tail) = Len(unseen[p]) - 1
        /\ (IF tail = <<>> THEN head ELSE tail[Len(tail)]) = unseen[p][Len(unseen[p])]
    BY <1>2 DEF head, tail
  <1>5. MaxLag \in Nat
    BY LagIsPositive
  <1> QED
    BY <1>1, <1>2, <1>3, <1>4, <1>5 DEF IndexOK, IndexFollowsStore

-----------------------------------------------------------------------------
(* What the steps do to a policy that is owed a listing.                   *)

\* The stored policy p is the active one it was, and a listing ahead stays so.
Carried(p) ==
    Active(api'[p]) =>
        /\ Active(api[p])
        /\ api'[p].repo = api[p].repo
        /\ ListingAhead(p) => ListingAhead(p)'

\* A write wakes the controller for the policy written.
LEMMA WriteCarries ==
    ASSUME TypeOK, NEW p \in Policies, NEW obj \in ImagePolicy \cup {None}, OtherWrite(p, obj)
    PROVE  /\ ListingAhead(p)'
           /\ api'[p] = obj
           /\ \A q \in Policies \ {p} : Carried(q)
  <1>1. /\ api'[p] = obj /\ watch'[p] # <<>>
        /\ \A q \in Policies \ {p} : api'[q] = api[q] /\ watch'[q] = watch[q]
    BY WriteEffect DEF OtherWrite
  <1>2. /\ queue' = queue
        /\ \A q \in Policies \ {p} : ScanOf(q) => scan' = scan
    BY DEF OtherWrite, ScanOf
  <1> QED
    BY <1>1, <1>2 DEF ListingAhead, Carried, ScanOf

\* The worker and the informer carry every policy: a request skipped is one
\* whose policy an event is still on its way to change.
LEMMA WorkCarries ==
    ASSUME IInv, NEW p \in Policies, Working(p), NEW q \in Policies
    PROVE  Carried(q)
  <1> USE DEF Carried, ListingAhead
  <1>1. CASE Deliver(p)
    <2>1. api' = api /\ scan' = scan /\ queue' = queue \cup {p}
          /\ (q # p => watch'[q] = watch[q])
      BY <1>1 DEF Deliver, IInv, TypeOK
    <2> QED
      BY <2>1 DEF ScanOf
  <1>2. CASE DelayElapsed(p)
    BY <1>2 DEF DelayElapsed, ScanOf
  <1>3. CASE Skip(p)
    <2>1. /\ api' = api /\ watch' = watch /\ scan' = scan /\ queue' = queue \ {p}
          /\ ~Active(cache[p])
      BY <1>3 DEF Skip
    <2>2. Active(api[p]) => watch[p] # <<>>
      BY <2>1 DEF IInv, CacheFollowsStore
    <2> QED
      BY <2>1, <2>2 DEF ScanOf
  <1>4. CASE BeginScan(p)
    <2>1. /\ api' = api /\ watch' = watch /\ scan = None /\ queue' = queue \ {p}
          /\ scan' = [policy |-> p, ip |-> cache[p], current |-> (watch[p] = <<>>),
                      listed |-> FALSE, tag |-> None]
          /\ cache[p] \in ImagePolicy
      BY <1>4 DEF BeginScan, IInv, TypeOK, Active
    <2>2. scan'.policy = p /\ scan'.listed = FALSE /\ scan' \in Scan
      BY <2>1 DEF Scan
    <2>3. ScanOf(p)'
      BY <2>2, NoneIsNoScan DEF ScanOf
    <2>4. ~ScanOf(q)
      BY <2>1 DEF ScanOf
    <2> QED
      BY <2>1, <2>2, <2>3, <2>4
  <1>5. CASE StatusRejected(p) \/ StatusGone(p)
    BY <1>5 DEF StatusRejected, StatusGone, ScanOf
  <1>6. CASE StatusAccepted(p)
    <2>1. /\ ScanOf(p) /\ scan.listed /\ api[p] # None /\ queue' = queue
          /\ Write(p, Recorded(api[p], scan.ip, scan.tag)) \/ UNCHANGED <<api, watch>>
      BY <1>6 DEF StatusAccepted
    <2>2. CASE UNCHANGED <<api, watch>>
      BY <2>1, <2>2 DEF ScanOf
    <2>3. CASE Write(p, Recorded(api[p], scan.ip, scan.tag))
      <3> DEFINE after == Recorded(api[p], scan.ip, scan.tag)
      <3>1. /\ (after # None /\ Active(after)) => (Active(api[p]) /\ after.repo = api[p].repo)
            /\ api'[p] = after /\ watch'[p] # <<>>
            /\ q # p => (api'[q] = api[q] /\ watch'[q] = watch[q])
        <4>1. api[p] \in ImagePolicy
          BY <2>1 DEF IInv, TypeOK, APITypeOK
        <4>2. after.suspend = api[p].suspend /\ after.repo = api[p].repo
          BY <4>1 DEF Recorded, ImagePolicy
        <4>3. api' = [api EXCEPT ![p] = after] /\ watch' = [watch EXCEPT ![p] = Append(@, after)]
          BY <2>3 DEF Write, Put
        <4>4. watch[p] \in Seq(ImagePolicy \cup {None})
          BY DEF IInv, TypeOK
        <4> HIDE DEF after
        <4>5. Append(watch[p], after) # <<>>
          BY <4>4
        <4> QED
          BY <2>1, <4>1, <4>2, <4>3, <4>5 DEF Active, IInv, TypeOK, APITypeOK
      <3> HIDE DEF after
      <3> QED
        BY <2>1, <3>1 DEF ScanOf, Active
    <2> QED
      BY <2>1, <2>2, <2>3
  <1>7. CASE Working(p)
    BY <1>1, <1>2, <1>3, <1>4, <1>5, <1>6, <1>7 DEF Working
  <1> QED
    BY <1>7

\* Whoever asks the registry settles what was owed to one policy.
LEMMA AskedCarries ==
    ASSUME IInv, Asked, NEW q \in Policies \ {scan.policy}
    PROVE  Carried(q)
  <1>1. /\ UNCHANGED <<api, watch, queue>> /\ ~ScanOf(q) /\ scan \in Scan
    BY DEF Asked, ListTags, ScanFails, Answered, ScanOf, IInv, TypeOK
  <1> QED
    BY <1>1 DEF Carried, ListingAhead, ScanOf

-----------------------------------------------------------------------------
(* HookInv is inductive.                                                   *)

\* A step of the others: it forgets what it settles of the policies in gone,
\* and carries the rest.
LEMMA OthersKeep ==
    ASSUME HookInv, NEW gone \in SUBSET Policies,
           owed' = owed \ gone,
           hook' # None => /\ hook # None
                           /\ hook'.repos = hook.repos
                           /\ hook'.todo = hook.todo
                           /\ hook'.seen \subseteq hook.seen
                           /\ hook'.want = hook.want \ gone,
           \A q \in Policies \ gone : Carried(q)
    PROVE  AnsweredPushIsHeard' /\ RequestMissesNone'
  <1>1. owed \subseteq Policies /\ (hook # None => hook.want \subseteq Policies)
    BY DEF HookInv, HookTypeOK, Hook
  <1>2. AnsweredPushIsHeard'
    BY <1>1 DEF HookInv, AnsweredPushIsHeard, Carried
  <1>3. ASSUME Handling' PROVE (hook'.want \cap hook'.seen) \ hook'.todo \subseteq owed'
    BY <1>3 DEF HookInv, RequestMissesNone, Handling
  <1>4. ASSUME Handling', NEW q \in hook'.want, Active(api'[q])
        PROVE  \/ ListingAhead(q)'
               \/ q \in hook'.todo
               \/ \E i \in DOMAIN hook'.repos : hook'.repos[i] = api'[q].repo
    BY <1>1, <1>4 DEF HookInv, RequestMissesNone, Handling, Carried
  <1> QED
    BY <1>2, <1>3, <1>4 DEF RequestMissesNone

\* The same of a step that settles nothing.
LEMMA NothingSettled ==
    ASSUME HookInv, owed' = owed, hook' = hook \/ hook' = None,
           \A q \in Policies : Carried(q)
    PROVE  AnsweredPushIsHeard' /\ RequestMissesNone'
  <1>1. owed' = owed \ {} /\ {} \in SUBSET Policies
        /\ (hook' # None => /\ hook # None
                            /\ hook'.repos = hook.repos
                            /\ hook'.todo = hook.todo
                            /\ hook'.seen \subseteq hook.seen
                            /\ hook'.want = hook.want \ {})
    BY DEF HookInv, HookTypeOK, Hook
  <1> QED
    BY <1>1, OthersKeep

LEMMA ChangeKeeps ==
    ASSUME HookInv, Change
    PROVE  RequestTypeOK' /\ AnsweredPushIsHeard' /\ RequestMissesNone'
  <1>1. IInv /\ TypeOK
    BY DEF HookInv, IInv
  <1>2. TypeOK'
    <2>1. Next
      BY DEF Change, Next, Environment
    <2> QED
      BY <1>1, <2>1, NextKeepsIInv DEF IInv
  <1>3. CASE Restart /\ UNCHANGED hookVars
    <2>1. \A q \in Policies : Carried(q)
      BY <1>3 DEF Restart, apiVars, Carried, ListingAhead, Active
    <2>2. AnsweredPushIsHeard' /\ RequestMissesNone'
      BY <1>3, <2>1, NothingSettled DEF hookVars
    <2> QED
      BY <1>2, <1>3, <2>2 DEF RequestTypeOK, HookTypeOK, HookInv, hookVars
  <1>6. ASSUME NEW p \in Policies, Trigger(p), UNCHANGED hookVars
        PROVE  RequestTypeOK' /\ AnsweredPushIsHeard' /\ RequestMissesNone'
    <2>1. api[p] \in ImagePolicy \cup {None}
      BY <1>1 DEF TypeOK, APITypeOK
    <2>2. ListingAhead(p)' /\ api'[p] = api[p] /\ \A q \in Policies \ {p} : Carried(q)
      BY <1>1, <1>6, <2>1, WriteCarries DEF Trigger
    <2>3. \A q \in Policies : Carried(q)
      BY <2>2 DEF Carried
    <2>4. AnsweredPushIsHeard' /\ RequestMissesNone'
      BY <1>6, <2>3, NothingSettled DEF hookVars
    <2> QED
      BY <1>2, <1>6, <2>4 DEF RequestTypeOK, HookTypeOK, HookInv, hookVars
  <1>4. ASSUME NEW p \in Policies, Unwant(p), NEW obj \in ImagePolicy \cup {None},
               OtherWrite(p, obj)
        PROVE  RequestTypeOK' /\ AnsweredPushIsHeard' /\ RequestMissesNone'
    <2>1. \A q \in Policies \ {p} : Carried(q)
      BY <1>1, <1>4, WriteCarries
    <2>2. /\ owed' = owed \ {p}
          /\ hook # None => /\ hook' \in Hook
                            /\ hook'.repos = hook.repos /\ hook'.todo = hook.todo
                            /\ hook'.seen = hook.seen /\ hook'.want = hook.want \ {p}
          /\ hook = None => hook' = None
      BY <1>4 DEF Unwant, Handling, HookInv, HookTypeOK, Hook
    <2>3. AnsweredPushIsHeard' /\ RequestMissesNone'
      BY <2>1, <2>2, OthersKeep
    <2> QED
      BY <1>2, <2>2, <2>3 DEF RequestTypeOK, HookTypeOK, HookInv
  <1>5. ASSUME NEW p \in Policies, CreatePolicy(p) \/ EditPolicy(p) \/ DeletePolicy(p), Unwant(p)
        PROVE  RequestTypeOK' /\ AnsweredPushIsHeard' /\ RequestMissesNone'
    <2>1. CASE CreatePolicy(p)
      BY <1>4, <1>5, <2>1, NewPolicyStorable DEF CreatePolicy, Storable
    <2>2. CASE EditPolicy(p)
      <3>1. api[p] # None /\ Storable(api[p])
        BY <1>1, <2>2, StoredIsStorable DEF EditPolicy
      <3>2. \A r \in Repos, s \in BOOLEAN : EditedPolicy(api[p], r, s) \in ImagePolicy
        BY <3>1, EditedPolicyStorable DEF Storable
      <3> QED
        BY <1>4, <1>5, <2>2, <3>2 DEF EditPolicy
    <2>3. CASE DeletePolicy(p)
      BY <1>4, <1>5, <2>3 DEF DeletePolicy
    <2> QED
      BY <1>5, <2>1, <2>2, <2>3
  <1> QED
    BY <1>3, <1>5, <1>6 DEF Change

LEMMA AskedKeeps ==
    ASSUME HookInv, Asked
    PROVE  RequestTypeOK' /\ AnsweredPushIsHeard' /\ RequestMissesNone'
  <1> DEFINE p == scan.policy
  <1>1. TypeOK' /\ IInv /\ p \in Policies /\ Unwant(p)
    <2>1. Next /\ scan # None
      BY DEF Asked, Next, Controller, ListTags, ScanFails, Answered
    <2> QED
      BY <2>1, NextKeepsIInv DEF HookInv, IInv, TypeOK, Scan, Asked
  <1>2. \A q \in Policies \ {p} : Carried(q)
    BY <1>1, AskedCarries
  <1> HIDE DEF p
  <1>3. /\ owed' = owed \ {p}
        /\ hook # None => /\ hook' \in Hook
                          /\ hook'.repos = hook.repos /\ hook'.todo = hook.todo
                          /\ hook'.seen = hook.seen /\ hook'.want = hook.want \ {p}
        /\ hook = None => hook' = None
    BY <1>1 DEF Unwant, Handling, HookInv, HookTypeOK, Hook
  <1>4. AnsweredPushIsHeard' /\ RequestMissesNone'
    BY <1>1, <1>2, <1>3, OthersKeep
  <1> QED
    BY <1>1, <1>3, <1>4 DEF RequestTypeOK, HookTypeOK, HookInv

LEMMA WorkKeeps ==
    ASSUME HookInv, NEW p \in Policies, Working(p)
    PROVE  RequestTypeOK' /\ AnsweredPushIsHeard' /\ RequestMissesNone'
  <1>1. TypeOK' /\ IInv
    <2>1. Next
      BY DEF Working, Next, Controller
    <2> QED
      BY <2>1, NextKeepsIInv DEF HookInv, IInv
  <1>2. \A q \in Policies : Carried(q)
    BY <1>1, WorkCarries
  <1>3. hook' = hook /\ owed' = owed
    BY DEF Working, hookVars
  <1>4. AnsweredPushIsHeard' /\ RequestMissesNone'
    BY <1>2, <1>3, NothingSettled
  <1> QED
    BY <1>1, <1>3, <1>4 DEF RequestTypeOK, HookTypeOK, HookInv

\* A patch wakes the controller for its policy, and settles nothing.
LEMMA PatchKeeps ==
    ASSUME HookInv, NEW p \in Policies, PatchPolicy(p) \/ PatchLost(p)
    PROVE  RequestTypeOK' /\ AnsweredPushIsHeard' /\ RequestMissesNone'
  <1>1. /\ IInv /\ TypeOK /\ hook \in Hook /\ p \in hook.todo
        /\ api[p] # None /\ api[p] \in ImagePolicy /\ Trigger(p) /\ owed' = owed \cup {p}
        /\ owed \subseteq Policies
    BY DEF HookInv, HookTypeOK, IInv, TypeOK, APITypeOK, PatchPolicy, PatchLost, Trigger, Handling
  <1>2. TypeOK'
    BY <1>1, NextKeepsIInv DEF Next, Environment, IInv
  <1>3. ListingAhead(p)' /\ api'[p] = api[p] /\ \A q \in Policies \ {p} : Carried(q)
    BY <1>1, WriteCarries DEF Trigger
  <1>4. AnsweredPushIsHeard'
    BY <1>1, <1>3 DEF HookInv, AnsweredPushIsHeard, Carried
  <1>5. CASE PatchLost(p)
    BY <1>1, <1>2, <1>4, <1>5 DEF PatchLost, RequestTypeOK, RequestMissesNone, Handling
  <1>6. CASE PatchPolicy(p)
    <2>1. /\ hook' = [hook EXCEPT !.todo = @ \ {p}] /\ hook' \in Hook
          /\ hook'.todo = hook.todo \ {p} /\ hook'.repos = hook.repos
          /\ hook'.seen = hook.seen /\ hook'.want = hook.want
      BY <1>1, <1>6 DEF PatchPolicy, Hook
    <2>2. RequestTypeOK'
      BY <1>1, <1>2, <2>1 DEF RequestTypeOK
    <2>3. /\ (hook.want \cap hook.seen) \ hook.todo \subseteq owed
          /\ hook.want \subseteq Policies
      BY <1>1, <1>6 DEF HookInv, RequestMissesNone, PatchPolicy, Hook
    <2>4. ASSUME NEW q \in hook.want, Active(api'[q])
          PROVE  \/ ListingAhead(q)'
                 \/ q \in hook'.todo
                 \/ \E i \in DOMAIN hook'.repos : hook'.repos[i] = api'[q].repo
      <3>1. CASE q = p
        BY <1>3, <3>1
      <3>2. CASE q # p
        BY <1>3, <1>6, <2>1, <2>3, <2>4, <3>2 DEF HookInv, RequestMissesNone, PatchPolicy, Carried
      <3> QED
        BY <3>1, <3>2
    <2>5. RequestMissesNone'
      BY <1>1, <2>1, <2>3, <2>4 DEF RequestMissesNone
    <2> QED
      BY <1>4, <2>2, <2>5
  <1> QED
    BY <1>5, <1>6

-----------------------------------------------------------------------------
(* The steps of the replica, beside which the controller stands still.     *)

LEMMA IndexStands ==
    ASSUME HookInv, UNCHANGED <<api, index, unseen>>
    PROVE  IndexOK'
  BY DEF HookInv, HookTypeOK, IndexOK, IndexFollowsStore

\* What is about to be listed depends on the controller alone.
LEMMA AheadStands ==
    ASSUME UNCHANGED vars
    PROVE  \A q \in Policies : /\ api'[q] = api[q] /\ ListingAhead(q)' = ListingAhead(q)
                               /\ Carried(q)
  BY DEF vars, ListingAhead, ScanOf, Carried, Active

LEMMA ReceiveKeeps == HookInv /\ Receive => HookInv'
  <1> SUFFICES ASSUME HookInv, Receive PROVE HookInv'
    OBVIOUS
  <1>1. PICK rs \in Payloads :
           hook' = [ repos |-> rs, todo |-> {}, seen |-> {},
                     want |-> {p \in Policies : api[p] # None
                                  /\ \E i \in DOMAIN rs : rs[i] = api[p].repo} ]
    BY DEF Receive
  <1>2. UNCHANGED vars /\ UNCHANGED <<api, index, unseen>> /\ owed' = owed
    BY DEF Receive, vars, indexVars
  <1>3. IInv' /\ TypeOK' /\ IndexOK'
    BY <1>2, NextKeepsIInv, IndexStands DEF HookInv, IInv
  <1>4. rs \in Seq(Repos) /\ hook' \in Hook
    BY <1>1, PayloadsNameRepos DEF Hook
  <1>5. RequestTypeOK' /\ AnsweredPushIsHeard'
    BY <1>2, <1>3, <1>4 DEF HookInv, HookTypeOK, RequestTypeOK, AnsweredPushIsHeard,
          ListingAhead, ScanOf, vars
  <1>6. RequestMissesNone'
    BY <1>1, <1>2 DEF RequestMissesNone, vars
  <1> QED
    BY <1>3, <1>5, <1>6, HookInvPartsNext

\* What the replica does not show of the next repository, though it is not
\* behind the leader, an event is on its way to show to the leader as well; what
\* has been listed before has been patched since.
LEMMA ListKeeps == HookInv /\ List => HookInv'
  <1> SUFFICES ASSUME HookInv, List PROVE HookInv'
    OBVIOUS
  <1> DEFINE repo == Head(hook.repos)
             listed == Indexed(repo)
             missed == Missed(repo)
  <1>1. /\ UNCHANGED vars /\ UNCHANGED <<api, index, unseen>> /\ owed' = owed
        /\ hook # None /\ hook \in Hook
        /\ hook.todo = {} /\ hook.repos # <<>> /\ hook.repos \in Seq(Repos)
        /\ hook' = [hook EXCEPT !.repos = Tail(@), !.todo = listed \ hook.seen,
                                !.seen = @ \cup listed, !.want = @ \ missed]
    BY DEF List, vars, indexVars, HookInv, HookTypeOK, Hook, Handling
  <1>2. IInv' /\ TypeOK' /\ IInv /\ TypeOK /\ IndexOK /\ IndexOK'
    BY <1>1, NextKeepsIInv, IndexStands, HookInvParts DEF IInv
  <1>3. /\ hook'.repos = Tail(hook.repos) /\ hook'.todo = listed \ hook.seen
        /\ hook'.seen = hook.seen \cup listed /\ hook'.want = hook.want \ missed
        /\ hook' \in Hook /\ hook.want \subseteq Policies
    <2>1. listed \subseteq Policies
      BY DEF Indexed
    <2>2. Tail(hook.repos) \in Seq(Repos)
      BY <1>1, HeadTailProperties
    <2> HIDE DEF listed, missed
    <2> QED
      BY <1>1, <2>1, <2>2 DEF Hook
  <1>4. RequestTypeOK' /\ AnsweredPushIsHeard'
    BY <1>1, <1>2, <1>3 DEF HookInv, HookTypeOK, RequestTypeOK, AnsweredPushIsHeard,
          ListingAhead, ScanOf, vars
  <1>5. ASSUME NEW q \in hook.want \ missed, Active(api[q]), ~ListingAhead(q), q \notin hook'.todo
        PROVE  \E i \in DOMAIN hook'.repos : hook'.repos[i] = api[q].repo
    <2>1. PICK i \in DOMAIN hook.repos : hook.repos[i] = api[q].repo
      BY <1>1, <1>5 DEF HookInv, RequestMissesNone, Handling
    <2>2. i # 1
      <3> SUFFICES ASSUME i = 1 PROVE FALSE
        OBVIOUS
      <3>1. repo = api[q].repo /\ q \in Policies /\ api[q] # None
        BY <1>1, <1>3, <1>5, <2>1 DEF Active
      <3>2. q \in listed
        <4>1. CASE Behind(q)
          BY <1>5, <3>1, <4>1 DEF Missed
        <4>2. CASE ~Behind(q)
          <5>1. watch[q] = <<>>
            BY <1>5 DEF ListingAhead
          <5>2. unseen[q] = <<>>
            BY <4>2, <5>1 DEF Behind
          <5>3. index[q] = api[q]
            BY <1>2, <3>1, <5>2 DEF IndexOK, IndexFollowsStore
          <5> QED
            BY <3>1, <5>3 DEF Indexed
        <4> QED
          BY <4>1, <4>2
      <3>3. q \in owed
        BY <1>1, <1>3, <1>5, <3>2 DEF HookInv, RequestMissesNone, Handling
      <3> QED
        BY <1>5, <3>3 DEF HookInv, AnsweredPushIsHeard
    <2>3. i - 1 \in DOMAIN Tail(hook.repos) /\ Tail(hook.repos)[i - 1] = hook.repos[i]
      BY <1>1, <2>1, <2>2, HeadTailProperties
    <2> QED
      BY <1>3, <2>1, <2>3
  <1> HIDE DEF listed, repo, missed
  <1>6. (hook'.want \cap hook'.seen) \ hook'.todo \subseteq owed'
    <2>1. hook.want \cap hook.seen \subseteq owed
      BY <1>1 DEF HookInv, RequestMissesNone, Handling
    <2> QED
      BY <1>1, <1>3, <2>1
  <1>7. RequestMissesNone'
    <2>1. ASSUME NEW q \in hook'.want, Active(api'[q])
          PROVE  \/ ListingAhead(q)'
                 \/ q \in hook'.todo
                 \/ \E i \in DOMAIN hook'.repos : hook'.repos[i] = api'[q].repo
      <3>1. api' = api /\ (ListingAhead(q) => ListingAhead(q)')
        BY <1>1 DEF vars, ListingAhead, ScanOf
      <3> QED
        BY <1>3, <1>5, <2>1, <3>1
    <2> QED
      BY <1>6, <2>1 DEF RequestMissesNone
  <1> QED
    BY <1>2, <1>4, <1>7, HookInvPartsNext

LEMMA EndRequestKeeps == HookInv /\ (Abort \/ Answer) => HookInv'
  <1> SUFFICES ASSUME HookInv, Abort \/ Answer PROVE HookInv'
    OBVIOUS
  <1>1. /\ UNCHANGED vars /\ UNCHANGED <<api, index, unseen>>
        /\ hook' = None /\ hook # None /\ hook \in Hook
    BY DEF Abort, Answer, vars, indexVars, Handling, HookInv, HookTypeOK
  <1>2. IInv' /\ TypeOK' /\ IndexOK'
    BY <1>1, NextKeepsIInv, IndexStands DEF HookInv, IInv
  <1>3. owed' \subseteq Policies
    BY <1>1 DEF Abort, Answer, HookInv, HookTypeOK, Hook
  <1>4. ASSUME NEW q \in owed', Active(api[q]) PROVE ListingAhead(q)
    <2>1. CASE q \in owed
      BY <1>4, <2>1 DEF HookInv, AnsweredPushIsHeard
    <2>2. CASE Answer /\ q \in hook.want
      <3>1. hook.todo = {} /\ DOMAIN hook.repos = {}
        BY <2>2 DEF Answer
      <3> QED
        BY <1>1, <1>4, <2>2, <3>1 DEF HookInv, RequestMissesNone, Handling
    <2> QED
      BY <1>4, <2>1, <2>2 DEF Abort, Answer
  <1>5. AnsweredPushIsHeard'
    BY <1>1, <1>4 DEF AnsweredPushIsHeard, ListingAhead, ScanOf, vars
  <1>6. RequestTypeOK' /\ RequestMissesNone'
    BY <1>1, <1>2, <1>3 DEF RequestTypeOK, RequestMissesNone, Handling
  <1> QED
    BY <1>2, <1>5, <1>6, HookInvPartsNext

LEMMA CatchKeepsRequest ==
    ASSUME HookInv, NEW p \in Policies, Catch(p)
    PROVE  HookInv'
  <1>1. UNCHANGED vars /\ owed' = owed
    BY DEF Catch
  <1>2. IInv' /\ TypeOK' /\ IndexOK'
    BY <1>1, NextKeepsIInv, CatchKeeps DEF HookInv, IInv
  <1>3. /\ hook # None => /\ hook' \in Hook
                          /\ hook'.repos = hook.repos /\ hook'.todo = hook.todo
                          /\ hook'.seen \subseteq hook.seen /\ hook'.want = hook.want
        /\ hook = None => hook' = None
    BY DEF Catch, Handling, HookInv, HookTypeOK, Hook
  <1>4. AnsweredPushIsHeard' /\ RequestMissesNone'
    <2>1. owed' = owed \ {} /\ {} \in SUBSET Policies
          /\ (hook # None => hook'.want = hook.want \ {})
      BY <1>1, <1>3
    <2>2. \A q \in Policies : Carried(q)
      BY <1>1, AheadStands
    <2> QED
      BY <1>3, <2>1, <2>2, OthersKeep
  <1>5. RequestTypeOK'
    BY <1>1, <1>2, <1>3 DEF RequestTypeOK, HookInv, HookTypeOK
  <1> QED
    BY <1>2, <1>4, <1>5, HookInvPartsNext

LEMMA ReplicaRestartKeeps == HookInv /\ ReplicaRestart => HookInv'
  <1> SUFFICES ASSUME HookInv, ReplicaRestart PROVE HookInv'
    OBVIOUS
  <1>1. UNCHANGED vars /\ api' = api /\ owed' = owed /\ hook' = None
        /\ index' = api /\ unseen' = [p \in Policies |-> <<>>]
    BY DEF ReplicaRestart, vars
  <1>2. IInv' /\ TypeOK' /\ TypeOK
    BY <1>1, NextKeepsIInv DEF HookInv, IInv
  <1>3. IndexOK'
    BY <1>1, <1>2, LagIsPositive DEF IndexOK, IndexFollowsStore, TypeOK, APITypeOK
  <1>4. AnsweredPushIsHeard' /\ RequestMissesNone'
    BY <1>1, AheadStands, NothingSettled
  <1>5. RequestTypeOK'
    BY <1>1, <1>2 DEF RequestTypeOK, HookInv, HookTypeOK
  <1> QED
    BY <1>2, <1>3, <1>4, <1>5, HookInvPartsNext

\* A new leader reconciles what its informer shows; what it does not show, or
\* shows as it was, an event is on its way to.
LEMMA TakeOverKeeps == HookInv /\ TakeOver => HookInv'
  <1> SUFFICES ASSUME HookInv, TakeOver PROVE HookInv'
    OBVIOUS
  <1>1. /\ cache' = index /\ watch' = unseen /\ scan' = None /\ delayed' = {}
        /\ queue' = {p \in Policies : index[p] # None}
        /\ api' = api /\ registry' = registry /\ fresh' = fresh
        /\ index' = index /\ unseen' = unseen /\ hook' = hook /\ owed' = owed
    BY DEF TakeOver, apiVars, indexVars, hookVars
  <1>2. IInv /\ TypeOK /\ IndexOK
    BY HookInvParts DEF IInv
  <1>3. IndexOK'
    BY <1>1, IndexStands
  <1>4. TypeOK'
    BY <1>1, <1>2 DEF TypeOK, APITypeOK, IndexOK
  <1>5. ASSUME NEW q \in Policies, Active(api[q])
        PROVE  watch'[q] # <<>> \/ q \in queue'
    BY <1>1, <1>2, <1>5 DEF IndexOK, IndexFollowsStore, Active
  <1>6. IInv'
    <2>1. CacheFollowsStore' /\ AcceptedScanIsFresh' /\ ScansActivePolicies'
      BY <1>1, <1>2 DEF IndexOK, IndexFollowsStore, CacheFollowsStore, AcceptedScanIsFresh,
            ScansActivePolicies
    <2>2. OfferIsFresh' /\ ObservedNotAhead' /\ ReadyStatusMatchesSpec'
      BY <1>1, <1>2 DEF IInv, OfferIsFresh, ObservedNotAhead, ReadyStatusMatchesSpec
    <2>3. PollingNeverStops'
      BY <1>1, <1>5 DEF PollingNeverStops, Expected, Active
    <2> QED
      BY <1>4, <2>1, <2>2, <2>3 DEF IInv
  <1>7. \A q \in Policies : Carried(q)
    BY <1>1, <1>5 DEF Carried, ListingAhead, Active
  <1>8. AnsweredPushIsHeard' /\ RequestMissesNone'
    BY <1>1, <1>7, NothingSettled
  <1>9. RequestTypeOK'
    BY <1>1, <1>4 DEF RequestTypeOK, HookInv, HookTypeOK
  <1> QED
    BY <1>3, <1>6, <1>8, <1>9, HookInvPartsNext

\* The inductive invariant holds in every reachable state.
THEOREM HookInvariance == HookSpec => []HookInv
  <1>1. HookInit => HookInv
    <2> SUFFICES ASSUME HookInit PROVE HookInv
      OBVIOUS
    <2>1. IInv /\ TypeOK /\ hook = None /\ owed = {}
          /\ index = api /\ unseen = [p \in Policies |-> <<>>]
      BY InitIInv DEF HookInit, IInv
    <2>2. IndexOK
      BY <2>1, LagIsPositive DEF IndexOK, IndexFollowsStore, TypeOK, APITypeOK
    <2>3. RequestTypeOK /\ AnsweredPushIsHeard /\ RequestMissesNone
      BY <2>1 DEF RequestTypeOK, AnsweredPushIsHeard, RequestMissesNone, Handling
    <2> QED
      BY <2>1, <2>2, <2>3, HookInvParts
  <1>2. HookInv /\ [HookNext]_allVars => HookInv'
    <2> SUFFICES ASSUME HookInv, [HookNext]_allVars PROVE HookInv'
      OBVIOUS
    <2>1. CASE UNCHANGED allVars
      <3>1. UNCHANGED vars /\ UNCHANGED <<api, index, unseen>> /\ hook' = hook /\ owed' = owed
        BY <2>1 DEF allVars, vars
      <3>2. IInv' /\ TypeOK' /\ IndexOK'
        BY <3>1, NextKeepsIInv, IndexStands DEF HookInv, IInv
      <3>3. AnsweredPushIsHeard' /\ RequestMissesNone'
        BY <3>1, AheadStands, NothingSettled
      <3>4. RequestTypeOK'
        BY <3>1, <3>2 DEF RequestTypeOK, HookInv, HookTypeOK
      <3> QED
        BY <3>2, <3>3, <3>4, HookInvPartsNext
    <2>2. CASE Receive \/ List \/ Abort \/ Answer
      BY <2>2, ReceiveKeeps, ListKeeps, EndRequestKeeps
    <2>3. CASE ReplicaRestart \/ TakeOver \/ \E p \in Policies : Catch(p)
      BY <2>3, ReplicaRestartKeeps, TakeOverKeeps, CatchKeepsRequest
    <2>4. CASE \/ \E p \in Policies : PatchPolicy(p) \/ PatchLost(p)
               \/ (Change \/ Asked \/ \E p \in Policies : Working(p)) /\ Relay
      <3>1. Next /\ Relay
        BY <2>4 DEF Change, Asked, PatchPolicy, PatchLost, Working, Next, Environment, Controller
      <3>2. IInv' /\ IndexOK'
        BY <3>1, NextKeepsIInv, RelayKeeps DEF HookInv
      <3>3. RequestTypeOK' /\ AnsweredPushIsHeard' /\ RequestMissesNone'
        BY <2>4, ChangeKeeps, AskedKeeps, PatchKeeps, WorkKeeps
      <3> QED
        BY <3>2, <3>3, HookInvPartsNext
    <2> QED
      BY <2>1, <2>2, <2>3, <2>4 DEF HookNext
  <1> QED
    BY <1>1, <1>2, PTL DEF HookSpec

\* The variables of the receiver, of its replica's informer and of the
\* controller beside them keep their types.
THEOREM HookTypeCorrect == HookSpec => []HookTypeOK
  <1>1. HookInv => HookTypeOK
    BY DEF HookInv
  <1> QED
    BY <1>1, HookInvariance, PTL

\* A push that has been answered, and of one answered with an error what had
\* been patched by then, makes the controller ask the registry, whatever was
\* written, scanned, restarted or taken over since; of the policies that the
\* replica did not show, those on which it was not behind the leader.
THEOREM AnsweredPushesAreHeard == HookSpec => []AnsweredPushIsHeard
  <1>1. HookInv => AnsweredPushIsHeard
    BY DEF HookInv
  <1> QED
    BY <1>1, HookInvariance, PTL
=============================================================================
