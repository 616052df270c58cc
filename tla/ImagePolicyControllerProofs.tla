-------------------- MODULE ImagePolicyControllerProofs --------------------
(***************************************************************************)
(* Proofs about ImagePolicyController for every set of policies,           *)
(* repositories and tags and every bound: IInv is inductive, so polling    *)
(* never stops and a ready status matches its spec; a suspended policy's   *)
(* status is frozen; and the controller implements PolicyStatus.           *)
(***************************************************************************)
EXTENDS ImagePolicyController, SequenceLemmas

USE NoneIsNoTag, NoneIsNoObject, NoneIsNoScan, LagIsPositive

-----------------------------------------------------------------------------
(* What the writes leave behind.                                           *)

\* An object fit to be stored: its status is not ahead of its spec, and if it
\* is ready for its own generation it shows an image of its own repository.
Storable(ip) ==
    /\ ip \in ImagePolicy
    /\ ip.observed <= ip.generation
    /\ ip.ready = "True" /\ ip.observed = ip.generation
          => ip.latest # None /\ ip.latest.repo = ip.repo

LEMMA NewPolicyStorable ==
    ASSUME NEW r \in Repos, NEW s \in BOOLEAN
    PROVE  Storable(NewPolicy(r, s))
  BY DEF Storable, NewPolicy, ImagePolicy

LEMMA EditedPolicyStorable ==
    ASSUME NEW ip, Storable(ip), NEW r \in Repos, NEW s \in BOOLEAN
    PROVE  Storable(EditedPolicy(ip, r, s))
  <1> DEFINE edited == EditedPolicy(ip, r, s)
  <1>1. ip \in ImagePolicy /\ ip.generation \in Nat /\ ip.observed \in Nat
    BY DEF Storable, ImagePolicy
  <1>2. edited \in ImagePolicy
    <2>1. ip.generation + 1 \in Nat
      BY <1>1
    <2> QED
      BY <1>1, <2>1, Zenon DEF EditedPolicy, ImagePolicy
  <1>3. edited.observed = ip.observed /\ edited.generation = ip.generation + 1
    BY <1>1 DEF EditedPolicy, ImagePolicy
  <1>4. ip.observed <= ip.generation
    BY DEF Storable
  <1>5. edited.observed < edited.generation
    BY <1>1, <1>3, <1>4
  <1> QED
    BY <1>1, <1>2, <1>3, <1>5 DEF Storable

LEMMA RecordedStorable ==
    ASSUME NEW ip, Storable(ip), NEW t \in Tags \cup {None}
    PROVE  Storable(Recorded(ip, ip, t))
  <1> DEFINE result == Recorded(ip, ip, t)
  <1>1. /\ ip \in ImagePolicy /\ ip.generation \in Nat
        /\ ip.repo \in Repos
    BY DEF Storable, ImagePolicy
  <1>2. result \in ImagePolicy /\ result.observed = result.generation
    <2>1. t # None => [repo |-> ip.repo, tag |-> t] \in Image
      BY <1>1 DEF Image
    <2>2. CASE t = None
      BY <1>1, <2>2, Zenon DEF Recorded, ImagePolicy
    <2>3. CASE t # None
      BY <1>1, <2>1, <2>3, Zenon DEF Recorded, ImagePolicy
    <2> QED
      BY <2>2, <2>3
  <1>3. CASE t = None
    <2>1. result.ready = "False"
      BY <1>1, <1>3 DEF Recorded, ImagePolicy
    <2> QED
      BY <1>1, <1>2, <2>1 DEF Storable, ImagePolicy
  <1>4. CASE t # None
    <2>1. /\ result.latest = [repo |-> ip.repo, tag |-> t]
          /\ result.repo = ip.repo
      BY <1>1, <1>4, Zenon DEF Recorded, ImagePolicy
    <2>2. result.latest \in Image
      BY <1>1, <1>4, <2>1 DEF Image
    <2> QED
      BY <1>1, <1>2, <2>1, <2>2 DEF Storable, ImagePolicy
  <1> QED
    BY <1>3, <1>4

LEMMA StoredIsStorable ==
    ASSUME IInv, NEW p \in Policies, api[p] # None
    PROVE  Storable(api[p])
  BY DEF IInv, TypeOK, APITypeOK, ObservedNotAhead, ReadyStatusMatchesSpec, Storable

\* A write changes one object, appends its event and is of the right type.
LEMMA WriteEffect ==
    ASSUME TypeOK, NEW p \in Policies, NEW obj \in ImagePolicy \cup {None},
           Write(p, obj)
    PROVE  /\ APITypeOK'
           /\ watch' \in [Policies -> Seq(ImagePolicy \cup {None})]
           /\ api'[p] = obj
           /\ Len(watch'[p]) = Len(watch[p]) + 1
           /\ watch'[p][Len(watch'[p])] = obj
           /\ watch'[p] # <<>>
           /\ OfferIsFresh => OfferIsFresh'
           /\ \A q \in Policies \ {p} :
                 /\ api'[q] = api[q]
                 /\ watch'[q] = watch[q]
                 /\ fresh'[q] = fresh[q]
  <1>1. api' \in [Policies -> ImagePolicy \cup {None}] /\ registry' = registry
    BY DEF Write, Put, TypeOK, APITypeOK
  <1>2. fresh' \in [Policies -> SUBSET Tags]
    <2> DEFINE new == IF obj = None THEN {} ELSE {registry[obj.repo]} \ {None}
    <2>1. new \in SUBSET Tags
      BY DEF TypeOK, APITypeOK, ImagePolicy
    <2>2. fresh' = [fresh EXCEPT ![p] = new]
      BY DEF Write, Put
    <2> QED
      BY <2>1, <2>2 DEF TypeOK, APITypeOK
  <1>3. /\ watch' \in [Policies -> Seq(ImagePolicy \cup {None})]
        /\ watch'[p] = Append(watch[p], obj)
    BY DEF Write, TypeOK
  <1>4. /\ Len(watch'[p]) = Len(watch[p]) + 1
        /\ watch'[p][Len(watch'[p])] = obj
        /\ watch'[p] # <<>>
    BY <1>3 DEF TypeOK
  <1>5. \A q \in Policies \ {p} :
           api'[q] = api[q] /\ watch'[q] = watch[q] /\ fresh'[q] = fresh[q]
    BY DEF Write, Put, TypeOK, APITypeOK
  <1>6. api'[p] = obj
    BY DEF Write, Put, TypeOK, APITypeOK
  <1>7. OfferIsFresh => OfferIsFresh'
    <2>1. obj # None => fresh'[p] = {registry[obj.repo]} \ {None}
      BY DEF Write, Put, TypeOK, APITypeOK
    <2> QED
      BY <1>1, <1>5, <1>6, <2>1 DEF OfferIsFresh
  <1> QED
    BY <1>1, <1>2, <1>3, <1>4, <1>5, <1>6, <1>7 DEF TypeOK, APITypeOK

-----------------------------------------------------------------------------
(* IInv is inductive: one lemma for every step that writes an object, and  *)
(* one case per action for the others.                                     *)

LEMMA InitIInv == Init => IInv
  <1> SUFFICES ASSUME Init PROVE IInv
    OBVIOUS
  <1>1. TypeOK
    BY DEF Init, APIInit, TypeOK, APITypeOK
  <1>2. \A p \in Policies : api[p] = None /\ watch[p] = <<>> /\ cache[p] = None
    BY DEF Init, APIInit
  <1> QED
    BY <1>1, <1>2 DEF Init, IInv, CacheFollowsStore, AcceptedScanIsFresh,
          ScansActivePolicies, ObservedNotAhead, PollingNeverStops, Active,
          ReadyStatusMatchesSpec, OfferIsFresh

\* The two parts of IInv that only look at the stored objects.
LEMMA StorableIsEnough ==
    ASSUME APITypeOK, \A p \in Policies : api[p] # None => Storable(api[p])
    PROVE  ObservedNotAhead /\ ReadyStatusMatchesSpec
  BY DEF ObservedNotAhead, ReadyStatusMatchesSpec, Storable

LEMMA OtherWriteKeepsIInv ==
    ASSUME IInv, NEW p \in Policies, NEW obj \in ImagePolicy \cup {None},
           obj # None => Storable(obj), OtherWrite(p, obj)
    PROVE  IInv'
  <1>1. TypeOK /\ Write(p, obj)
    BY DEF IInv, OtherWrite
  <1>2. /\ APITypeOK'
        /\ watch' \in [Policies -> Seq(ImagePolicy \cup {None})]
        /\ api'[p] = obj
        /\ Len(watch'[p]) = Len(watch[p]) + 1
        /\ watch'[p][Len(watch'[p])] = obj
        /\ watch'[p] # <<>>
        /\ OfferIsFresh'
        /\ \A q \in Policies \ {p} :
              api'[q] = api[q] /\ watch'[q] = watch[q] /\ fresh'[q] = fresh[q]
    BY <1>1, WriteEffect DEF IInv
  <1>3. TypeOK'
    <2>1. \A q \in Policies : Len(watch'[q]) <= MaxLag
      BY <1>1, <1>2 DEF OtherWrite, TypeOK
    <2>2. scan' \in Scan \cup {None}
      BY <1>1 DEF OtherWrite, TypeOK, ScanOf, Scan
    <2> QED
      BY <1>1, <1>2, <2>1, <2>2 DEF OtherWrite, TypeOK
  <1>4. CacheFollowsStore'
    BY <1>2 DEF IInv, CacheFollowsStore, OtherWrite
  <1>5. AcceptedScanIsFresh'
    <2>1. CASE ScanOf(p)
      <3>1. scan' # None => scan'.current = FALSE
        BY <1>1, <2>1 DEF OtherWrite, ScanOf, TypeOK, Scan
      <3> QED
        BY <3>1 DEF AcceptedScanIsFresh
    <2>2. CASE ~ScanOf(p)
      <3>1. scan' = scan /\ (scan # None => scan.policy \in Policies \ {p})
        BY <1>1, <2>2 DEF OtherWrite, ScanOf, TypeOK, Scan
      <3> QED
        BY <1>2, <3>1 DEF IInv, AcceptedScanIsFresh
    <2> QED
      BY <2>1, <2>2
  <1>6. ScansActivePolicies'
    <2>1. scan' # None => scan # None /\ scan'.ip = scan.ip
      BY <1>1 DEF OtherWrite, ScanOf, TypeOK, Scan
    <2> QED
      BY <2>1 DEF IInv, ScansActivePolicies
  <1>7. ObservedNotAhead' /\ ReadyStatusMatchesSpec'
    <2>1. \A q \in Policies : api'[q] # None => Storable(api'[q])
      BY <1>2, StoredIsStorable
    <2> QED
      BY <1>2, <2>1 DEF ObservedNotAhead, ReadyStatusMatchesSpec, Storable
  <1>8. PollingNeverStops'
    <2>1. \A q \in Policies : ScanOf(q) => ScanOf(q)'
      BY <1>1 DEF OtherWrite, ScanOf, TypeOK, Scan
    <2>2. \A q \in Policies \ {p} : Expected(q) => Expected(q)'
      BY <1>2, <2>1 DEF Expected, OtherWrite
    <2> QED
      BY <1>2, <2>2 DEF IInv, PollingNeverStops, Expected
  <1> QED
    BY <1>2, <1>3, <1>4, <1>5, <1>6, <1>7, <1>8 DEF IInv

\* A push changes no object, and adds to what has been offered.
LEMMA PushKeepsIInv == IInv /\ Push => IInv'
  <1> SUFFICES ASSUME IInv, NEW r \in Repos, NEW t \in Tags \cup {None},
                      PushTo(r, t), UNCHANGED ctrlVars
               PROVE  IInv'
    BY DEF Push
  <1>1. TypeOK
    BY DEF IInv
  <1>2. registry' \in [Repos -> Tags \cup {None}] /\ api' = api
    BY <1>1 DEF PushTo, TypeOK, APITypeOK
  <1>3. fresh' \in [Policies -> SUBSET Tags]
    BY <1>1 DEF PushTo, TypeOK, APITypeOK
  <1>4. \A p \in Policies : fresh[p] \subseteq fresh'[p]
    BY <1>1 DEF PushTo, TypeOK, APITypeOK
  <1>5. TypeOK'
    BY <1>1, <1>2, <1>3 DEF TypeOK, APITypeOK, ctrlVars
  <1>6. OfferIsFresh'
    BY <1>1 DEF IInv, OfferIsFresh, PushTo, TypeOK, APITypeOK, ImagePolicy
  <1>7. AcceptedScanIsFresh'
    BY <1>1, <1>2, <1>4 DEF IInv, AcceptedScanIsFresh, ctrlVars, TypeOK, Scan
  <1> QED
    BY <1>2, <1>5, <1>6, <1>7 DEF IInv, ctrlVars, CacheFollowsStore, ScansActivePolicies,
          ObservedNotAhead, PollingNeverStops, Expected, ScanOf, ReadyStatusMatchesSpec

LEMMA RestartKeepsIInv == IInv /\ Restart => IInv'
  <1> SUFFICES ASSUME IInv, Restart PROVE IInv'
    OBVIOUS
  <1>1. TypeOK'
    BY DEF IInv, TypeOK, APITypeOK, Restart, apiVars
  <1> QED
    BY <1>1 DEF IInv, TypeOK, Restart, apiVars, CacheFollowsStore, AcceptedScanIsFresh,
          ScansActivePolicies, ObservedNotAhead, PollingNeverStops, Expected, Active,
          ReadyStatusMatchesSpec, OfferIsFresh

LEMMA DeliverKeepsIInv == \A p \in Policies : IInv /\ Deliver(p) => IInv'
  <1> SUFFICES ASSUME NEW p \in Policies, IInv, Deliver(p) PROVE IInv'
    OBVIOUS
  <1>1. TypeOK /\ watch[p] \in Seq(ImagePolicy \cup {None}) /\ watch[p] # <<>>
    BY DEF IInv, TypeOK, Deliver
  <1>2. /\ Head(watch[p]) \in ImagePolicy \cup {None}
        /\ Tail(watch[p]) \in Seq(ImagePolicy \cup {None})
        /\ Len(Tail(watch[p])) = Len(watch[p]) - 1
        /\ Tail(watch[p]) = <<>> => Head(watch[p]) = watch[p][Len(watch[p])]
        /\ Tail(watch[p]) # <<>> =>
              Tail(watch[p])[Len(Tail(watch[p]))] = watch[p][Len(watch[p])]
    BY <1>1, HeadAndTail
  <1>3. /\ watch'[p] = Tail(watch[p])
        /\ cache'[p] = Head(watch[p])
        /\ \A q \in Policies \ {p} : watch'[q] = watch[q] /\ cache'[q] = cache[q]
    BY <1>1 DEF Deliver, TypeOK
  <1>4. TypeOK'
    <2>1. watch' \in [Policies -> Seq(ImagePolicy \cup {None})]
      BY <1>1, <1>2 DEF Deliver, TypeOK
    <2>2. \A q \in Policies : Len(watch'[q]) <= MaxLag
      <3>1. Len(watch[p]) \in Nat /\ Len(watch[p]) <= MaxLag
        BY <1>1 DEF TypeOK
      <3> QED
        BY <1>1, <1>2, <1>3, <3>1 DEF TypeOK
    <2> QED
      BY <1>1, <1>2, <2>1, <2>2 DEF Deliver, TypeOK, APITypeOK
  <1>5. CacheFollowsStore'
    BY <1>1, <1>2, <1>3 DEF IInv, CacheFollowsStore, Deliver
  <1>6. AcceptedScanIsFresh'
    BY <1>1, <1>3 DEF IInv, AcceptedScanIsFresh, Deliver, TypeOK, Scan
  <1>7. PollingNeverStops'
    BY <1>3 DEF IInv, PollingNeverStops, Expected, ScanOf, Deliver
  <1> QED
    BY <1>4, <1>5, <1>6, <1>7 DEF IInv, Deliver, ScansActivePolicies,
          ObservedNotAhead, ReadyStatusMatchesSpec, OfferIsFresh

\* The steps of the queue and of the worker that leave the API server and the
\* informer alone.
LEMMA WorkerKeepsIInv ==
    ASSUME IInv, NEW p \in Policies,
           \/ DelayElapsed(p) \/ Skip(p) \/ BeginScan(p)
           \/ ListTags \/ ScanFails
           \/ StatusRejected(p) \/ StatusGone(p)
    PROVE  IInv'
  <1> USE DEF IInv
  <1>1. TypeOK /\ APITypeOK
    BY DEF TypeOK
  <1>2. UNCHANGED <<api, registry, fresh, watch, cache>>
    BY DEF DelayElapsed, Skip, BeginScan, ListTags, ScanFails, Answered,
          StatusRejected, StatusGone
  <1>3. /\ CacheFollowsStore' /\ OfferIsFresh'
        /\ ObservedNotAhead' /\ ReadyStatusMatchesSpec'
    BY <1>2 DEF CacheFollowsStore, OfferIsFresh, ObservedNotAhead, ReadyStatusMatchesSpec
  <1>4. ASSUME TypeOK', AcceptedScanIsFresh', ScansActivePolicies', PollingNeverStops'
        PROVE  IInv'
    BY <1>3, <1>4
  <1>5. CASE DelayElapsed(p)
    <2>1. TypeOK'
      BY <1>1, <1>5 DEF DelayElapsed, TypeOK, APITypeOK
    <2> QED
      BY <1>4, <1>5, <2>1 DEF DelayElapsed, AcceptedScanIsFresh, ScansActivePolicies,
            PollingNeverStops, Expected, ScanOf
  <1>6. CASE Skip(p)
    <2>1. TypeOK'
      BY <1>1, <1>6 DEF Skip, TypeOK, APITypeOK
    <2>2. PollingNeverStops'
      \* A skipped policy that is active in the store has an event on its way.
      BY <1>2, <1>6 DEF Skip, PollingNeverStops, CacheFollowsStore, Expected, ScanOf
    <2> QED
      BY <1>4, <1>6, <2>1, <2>2 DEF Skip, AcceptedScanIsFresh, ScansActivePolicies
  <1>7. CASE BeginScan(p)
    <2>1. /\ cache[p] \in ImagePolicy /\ ~cache[p].suspend
          /\ scan' = [policy |-> p, ip |-> cache[p], current |-> (watch[p] = <<>>),
                      listed |-> FALSE, tag |-> None]
      BY <1>1, <1>7 DEF BeginScan, Active, TypeOK
    <2>2. scan' \in Scan
      BY <2>1 DEF Scan
    <2>3. TypeOK'
      BY <1>1, <1>7, <2>2 DEF BeginScan, TypeOK, APITypeOK
    <2>4. AcceptedScanIsFresh' /\ ScansActivePolicies'
      BY <1>2, <2>1 DEF AcceptedScanIsFresh, ScansActivePolicies, CacheFollowsStore
    <2>5. PollingNeverStops'
      <3>1. ScanOf(p)'
        BY <2>1, <2>2 DEF ScanOf
      <3> QED
        BY <1>2, <1>7, <3>1 DEF BeginScan, PollingNeverStops, Expected, ScanOf
    <2> QED
      BY <1>4, <2>3, <2>4, <2>5
  <1>8. CASE ListTags \/ ScanFails
    <2> PICK t \in Tags \cup {None} :
          Answered(t) /\ (t # None => t = registry[scan.ip.repo])
      <3>1. CASE ListTags
        <4>1. scan \in Scan /\ registry[scan.ip.repo] \in Tags \cup {None}
          BY <1>1, <3>1 DEF ListTags, TypeOK, APITypeOK, Scan, ImagePolicy
        <4> QED
          BY <3>1, <4>1 DEF ListTags
      <3> QED
        BY <1>8, <3>1 DEF ScanFails
    <2>1. /\ scan \in Scan /\ ~scan.listed
          /\ scan' = [scan EXCEPT !.listed = TRUE, !.tag = t]
      BY <1>1 DEF Answered, TypeOK
    <2>2. scan' \in Scan
      BY <2>1, Zenon DEF Scan
    <2>3. TypeOK'
      BY <1>1, <1>2, <2>2 DEF Answered, TypeOK, APITypeOK
    <2>4. /\ scan'.policy = scan.policy /\ scan'.ip = scan.ip
          /\ scan'.current = scan.current /\ scan'.tag = t
          /\ scan # None /\ scan' # None
      BY <2>1, <2>2 DEF Scan
    <2>5. AcceptedScanIsFresh'
      <3>1. scan.current /\ t # None => t \in fresh[scan.policy]
        \* The registry's present offer is fresh for the object the scan holds.
        BY <2>1, <2>4 DEF AcceptedScanIsFresh, OfferIsFresh, Scan
      <3> QED
        BY <1>2, <2>4, <3>1 DEF AcceptedScanIsFresh
    <2>6. PollingNeverStops'
      BY <1>2, <2>4 DEF Answered, PollingNeverStops, Expected, ScanOf
    <2> QED
      BY <1>4, <2>3, <2>4, <2>5, <2>6 DEF ScansActivePolicies
  <1>9. CASE StatusRejected(p) \/ StatusGone(p)
    <2>1. TypeOK'
      BY <1>1, <1>2, <1>9 DEF StatusRejected, StatusGone, TypeOK, APITypeOK
    <2>2. scan' = None
      BY <1>9 DEF StatusRejected, StatusGone
    <2>3. PollingNeverStops'
      BY <1>2, <1>9 DEF StatusRejected, StatusGone, PollingNeverStops, Expected,
            ScanOf, Active
    <2> QED
      BY <1>4, <2>1, <2>2, <2>3 DEF AcceptedScanIsFresh, ScansActivePolicies
  <1> QED
    BY <1>5, <1>6, <1>7, <1>8, <1>9

LEMMA StatusAcceptedKeepsIInv ==
    ASSUME IInv, NEW p \in Policies, StatusAccepted(p)
    PROVE  IInv'
  <1> DEFINE after == Recorded(api[p], scan.ip, scan.tag)
  <1>1. /\ TypeOK /\ scan \in Scan /\ scan.policy = p /\ api[p] = scan.ip
        /\ scan.ip # None /\ scan.tag \in Tags \cup {None}
    BY DEF IInv, StatusAccepted, UpdateAccepted, ScanOf, AcceptedScanIsFresh,
          TypeOK, Scan
  <1>2. Storable(after) /\ after \in ImagePolicy
    <2>1. Storable(scan.ip)
      BY <1>1, StoredIsStorable
    <2> QED
      BY <1>1, <2>1, RecordedStorable DEF Storable
  <1>3. scan' = None /\ delayed' = delayed \cup {p} /\ UNCHANGED <<cache, queue>>
    BY DEF StatusAccepted, Requeued
  <1>5. CASE Write(p, after)
    <2>1. /\ APITypeOK'
          /\ watch' \in [Policies -> Seq(ImagePolicy \cup {None})]
          /\ api'[p] = after
          /\ Len(watch'[p]) = Len(watch[p]) + 1
          /\ watch'[p][Len(watch'[p])] = after
          /\ watch'[p] # <<>>
          /\ OfferIsFresh'
          /\ \A q \in Policies \ {p} :
                api'[q] = api[q] /\ watch'[q] = watch[q] /\ fresh'[q] = fresh[q]
      BY <1>1, <1>2, <1>5, WriteEffect DEF IInv
    <2>2. watch[p] = <<>>
      BY <1>1 DEF IInv, AcceptedScanIsFresh, StatusAccepted, UpdateAccepted, ScanOf
    <2>3. \A q \in Policies : Len(watch'[q]) <= MaxLag
      <3>1. Len(watch'[p]) = 1
        BY <2>1, <2>2
      <3> QED
        BY <1>1, <2>1, <3>1 DEF TypeOK
    <2>4. TypeOK'
      BY <1>1, <1>3, <2>1, <2>3 DEF TypeOK
    <2>5. \A q \in Policies : api'[q] # None => Storable(api'[q])
      BY <1>2, <2>1, StoredIsStorable
    <2>6. CacheFollowsStore'
      BY <1>3, <2>1 DEF IInv, CacheFollowsStore
    <2>7. PollingNeverStops'
      BY <1>1, <1>3, <2>1 DEF IInv, PollingNeverStops, Expected, ScanOf
    <2> QED
      BY <1>3, <2>1, <2>4, <2>5, <2>6, <2>7 DEF IInv, AcceptedScanIsFresh,
            ScansActivePolicies, ObservedNotAhead, ReadyStatusMatchesSpec, Storable
  <1>6. CASE UNCHANGED <<api, registry, fresh, watch>>
    <2>1. TypeOK'
      BY <1>1, <1>3, <1>6 DEF TypeOK, APITypeOK
    <2>2. PollingNeverStops'
      BY <1>1, <1>3, <1>6 DEF IInv, PollingNeverStops, Expected, ScanOf
    <2> QED
      BY <1>3, <1>6, <2>1, <2>2 DEF IInv, CacheFollowsStore, AcceptedScanIsFresh,
            ScansActivePolicies, ObservedNotAhead, ReadyStatusMatchesSpec, OfferIsFresh
  <1> QED
    BY <1>5, <1>6 DEF StatusAccepted

\* Every step of the specification keeps IInv.
LEMMA NextKeepsIInv == IInv /\ [Next]_vars => IInv'
  <1> SUFFICES ASSUME IInv, [Next]_vars PROVE IInv'
    OBVIOUS
  <1>1. CASE Push
    BY <1>1, PushKeepsIInv
  <1>2. CASE Restart
    BY <1>2, RestartKeepsIInv
  <1>3. ASSUME NEW p \in Policies, CreatePolicy(p) PROVE IInv'
    <2>1. PICK r \in Repos, s \in BOOLEAN : OtherWrite(p, NewPolicy(r, s))
      BY <1>3 DEF CreatePolicy
    <2> QED
      BY <2>1, NewPolicyStorable, OtherWriteKeepsIInv DEF Storable
  <1>4. ASSUME NEW p \in Policies, EditPolicy(p) PROVE IInv'
    <2>1. PICK r \in Repos, s \in BOOLEAN : OtherWrite(p, EditedPolicy(api[p], r, s))
      BY <1>4 DEF EditPolicy
    <2>2. Storable(api[p])
      BY <1>4, StoredIsStorable DEF EditPolicy
    <2>3. Storable(EditedPolicy(api[p], r, s))
      BY <2>2, EditedPolicyStorable
    <2> QED
      BY <2>1, <2>3, OtherWriteKeepsIInv DEF Storable
  <1>5. ASSUME NEW p \in Policies, DeletePolicy(p) PROVE IInv'
    BY <1>5, OtherWriteKeepsIInv DEF DeletePolicy
  <1>6. ASSUME NEW p \in Policies, Trigger(p) PROVE IInv'
    <2>1. Storable(api[p]) /\ OtherWrite(p, api[p])
      BY <1>6, StoredIsStorable DEF Trigger
    <2> QED
      BY <2>1, OtherWriteKeepsIInv DEF Storable
  <1>7. CASE ListTags \/ ScanFails
    <2>1. scan # None /\ scan \in Scan
      BY <1>7 DEF ListTags, ScanFails, Answered, IInv, TypeOK
    <2>2. scan.policy \in Policies
      BY <2>1 DEF Scan
    <2> QED
      BY <1>7, <2>2, WorkerKeepsIInv
  <1>8. ASSUME NEW p \in Policies,
               \/ Deliver(p) \/ DelayElapsed(p) \/ Skip(p) \/ BeginScan(p)
               \/ StatusAccepted(p) \/ StatusRejected(p) \/ StatusGone(p)
        PROVE  IInv'
    BY <1>8, DeliverKeepsIInv, WorkerKeepsIInv, StatusAcceptedKeepsIInv
  <1>9. CASE UNCHANGED vars
    BY <1>9 DEF vars, IInv, TypeOK, APITypeOK, CacheFollowsStore, AcceptedScanIsFresh,
          ScansActivePolicies, ObservedNotAhead, OfferIsFresh, PollingNeverStops,
          Expected, ScanOf, ReadyStatusMatchesSpec
  <1> QED
    BY <1>1, <1>2, <1>3, <1>4, <1>5, <1>6, <1>7, <1>8, <1>9
       DEF Next, Environment, Controller

THEOREM Invariance == Spec => []IInv
  BY InitIInv, NextKeepsIInv, PTL DEF Spec

\* Whatever the policies, the bounds and the interleaving: every variable has
\* its type and the informer's backlog its bound.
THEOREM TypeCorrect == Spec => []TypeOK
  <1>1. IInv => TypeOK
    BY DEF IInv
  <1> QED
    BY <1>1, Invariance, PTL

\* No policy that exists and is not suspended is ever forgotten.
THEOREM PollingContinues == Spec => []PollingNeverStops
  <1>1. IInv => PollingNeverStops
    BY DEF IInv
  <1> QED
    BY <1>1, Invariance, PTL

\* A ready, observed status shows an image of the repository the spec names.
THEOREM ReadyStatusTrue == Spec => []ReadyStatusMatchesSpec
  <1>1. IInv => ReadyStatusMatchesSpec
    BY DEF IInv
  <1> QED
    BY <1>1, Invariance, PTL

\* An update the API server accepts carries a tag offered since the object it
\* overwrites was written.
THEOREM AcceptedScansAreFresh == Spec => []AcceptedScanIsFresh
  <1>1. IInv => AcceptedScanIsFresh
    BY DEF IInv
  <1> QED
    BY <1>1, Invariance, PTL

-----------------------------------------------------------------------------
(* What a single step does to the stored objects: nothing, a write by      *)
(* someone else, or the recording of a scan of the object as stored.       *)

Recording(p) ==
    /\ ScanOf(p)
    /\ Active(api[p])
    /\ scan.ip = api[p]
    /\ scan.tag # None => scan.tag \in fresh[p]
    /\ Put(p, Recorded(api[p], api[p], scan.tag))

LEMMA StatusAcceptedRecords ==
    ASSUME IInv, NEW p \in Policies, StatusAccepted(p)
    PROVE  Recording(p) \/ UNCHANGED apiVars
  <1>1. /\ scan \in Scan /\ api[p] = scan.ip /\ api[p] # None
        /\ ~scan.ip.suspend
        /\ scan.tag # None => scan.tag \in fresh[p]
    BY DEF IInv, StatusAccepted, UpdateAccepted, ScanOf, AcceptedScanIsFresh,
          ScansActivePolicies, TypeOK
  <1> QED
    BY <1>1 DEF StatusAccepted, ScanOf, Recording, Active, Write, apiVars

LEMMA StepsOnStore ==
    ASSUME IInv, [Next]_vars
    PROVE  \/ UNCHANGED apiVars
           \/ Push
           \/ \E p \in Policies :
                 \/ CreatePolicy(p) \/ EditPolicy(p) \/ DeletePolicy(p) \/ Trigger(p)
                 \/ Recording(p)
  <1>1. CASE \E p \in Policies : StatusAccepted(p)
    BY <1>1, StatusAcceptedRecords
  <1>2. CASE \/ ListTags \/ ScanFails \/ Restart
             \/ \E p \in Policies :
                   \/ Deliver(p) \/ DelayElapsed(p) \/ Skip(p) \/ BeginScan(p)
                   \/ StatusRejected(p) \/ StatusGone(p)
    BY <1>2 DEF ListTags, ScanFails, Answered, Restart, Deliver, DelayElapsed, Skip,
          BeginScan, StatusRejected, StatusGone, apiVars
  <1> QED
    BY <1>1, <1>2 DEF Next, Environment, Controller, vars, apiVars

\* A scan that was running when its policy was suspended writes nothing.
THEOREM SuspendedStatusFrozen == Spec => SuspendFreezesStatus
  <1> DEFINE Frozen(p) ==
        api[p] # None /\ api[p].suspend /\ api'[p] # None
           => StatusOf(api'[p]) = StatusOf(api[p])
  <1>1. ASSUME IInv, [Next]_vars PROVE \A p \in Policies : Frozen(p)
    <2> SUFFICES ASSUME NEW p \in Policies PROVE Frozen(p)
      OBVIOUS
    <2>1. APITypeOK
      BY <1>1 DEF IInv, TypeOK
    <2>2. CASE UNCHANGED apiVars \/ Push
      BY <2>2 DEF apiVars, Push, PushTo
    <2>3. ASSUME NEW q \in Policies, NEW obj, Put(q, obj), Frozen(q) PROVE Frozen(p)
      BY <2>1, <2>3 DEF Put, APITypeOK
    <2>4. ASSUME NEW q \in Policies, CreatePolicy(q) PROVE Frozen(p)
      BY <2>1, <2>4 DEF CreatePolicy, OtherWrite, Write, Put, APITypeOK
    <2>5. ASSUME NEW q \in Policies, EditPolicy(q) PROVE Frozen(p)
      <3>1. PICK r \in Repos, s \in BOOLEAN :
               Put(q, EditedPolicy(api[q], r, s)) /\ api[q] # None
        BY <2>5 DEF EditPolicy, OtherWrite, Write
      <3>2. api[q] \in ImagePolicy /\ api'[q] = EditedPolicy(api[q], r, s)
        BY <2>1, <3>1 DEF Put, APITypeOK
      <3>3. StatusOf(EditedPolicy(api[q], r, s)) = StatusOf(api[q])
        BY <3>2, Zenon DEF EditedPolicy, StatusOf, ImagePolicy
      <3> QED
        BY <2>3, <3>1, <3>2, <3>3
    <2>6. ASSUME NEW q \in Policies, DeletePolicy(q) \/ Trigger(q) PROVE Frozen(p)
      BY <2>1, <2>6 DEF DeletePolicy, Trigger, OtherWrite, Write, Put, APITypeOK
    <2>7. ASSUME NEW q \in Policies, Recording(q) PROVE Frozen(p)
      BY <2>1, <2>7 DEF Recording, Active, Put, APITypeOK
    <2> QED
      BY <1>1, <2>2, <2>4, <2>5, <2>6, <2>7, StepsOnStore
  <1>2. IInv /\ [Next]_vars => [\A p \in Policies : Frozen(p)]_vars
    BY <1>1
  <1> QED
    BY <1>2, Invariance, PTL DEF Spec, SuspendFreezesStatus

\* The controller keeps the promise: initial states are initial states of
\* PolicyStatus, and every step is one of its steps or leaves its state alone.
THEOREM ImplementsPromise == Spec => StatusAsPromised
  <1>1. Init => Promise!APIInit
    BY DEF Init, APIInit, Promise!APIInit
  <1>2. ASSUME IInv, [Next]_vars PROVE [Promise!Next]_(Promise!apiVars)
    <2>1. APITypeOK
      BY <1>2 DEF IInv, TypeOK
    <2>2. CASE UNCHANGED apiVars
      BY <2>2 DEF apiVars, Promise!apiVars
    <2>3. CASE Push
      BY <2>3 DEF Push, PushTo, Promise!Next, Promise!Push, Promise!PushTo
    <2>4. ASSUME NEW p \in Policies, CreatePolicy(p) PROVE Promise!Create(p)
      BY <2>4 DEF CreatePolicy, OtherWrite, Write, Put, NewPolicy,
            Promise!Create, Promise!Put, Promise!NewPolicy
    <2>5. ASSUME NEW p \in Policies, EditPolicy(p) PROVE Promise!Edit(p)
      BY <2>5 DEF EditPolicy, OtherWrite, Write, Put, EditedPolicy,
            Promise!Edit, Promise!Put, Promise!EditedPolicy
    <2>6. ASSUME NEW p \in Policies, DeletePolicy(p) PROVE Promise!Delete(p)
      BY <2>6 DEF DeletePolicy, OtherWrite, Write, Put, Promise!Delete, Promise!Put
    <2>7. ASSUME NEW p \in Policies, Trigger(p) PROVE Promise!Touch(p)
      BY <2>7 DEF Trigger, OtherWrite, Write, Put, Promise!Touch, Promise!Put
    <2>8. ASSUME NEW p \in Policies, Recording(p)
          PROVE  Promise!Publish(p) \/ Promise!Fail(p)
      <3>1. Active(api[p]) /\ api[p] \in ImagePolicy
        BY <2>1, <2>8 DEF Recording, Active, APITypeOK
      <3>2. CASE scan.tag = None
        BY <2>8, <3>1, <3>2 DEF Recording, Recorded, Put, Active,
              Promise!Fail, Promise!Active, Promise!Put
      <3>3. CASE scan.tag # None
        <4>1. scan.tag \in fresh[p]
          BY <2>8, <3>3 DEF Recording
        <4>2. Recorded(api[p], api[p], scan.tag) =
                 [api[p] EXCEPT !.latest = [repo |-> api[p].repo, tag |-> scan.tag],
                                !.ready = "True",
                                !.observed = api[p].generation]
          BY <3>1, <3>3, Zenon DEF Recorded, ImagePolicy
        <4> QED
          BY <2>8, <3>1, <4>1, <4>2 DEF Recording, Put, Active,
                Promise!Publish, Promise!Active, Promise!Put
      <3> QED
        BY <3>2, <3>3
    <2> QED
      BY <1>2, <2>2, <2>3, <2>4, <2>5, <2>6, <2>7, <2>8, StepsOnStore
         DEF Promise!Next
  <1> QED
    BY <1>1, <1>2, Invariance, PTL DEF Spec, StatusAsPromised, Promise!Spec

=============================================================================
