---------------------------- MODULE PolicyStatus ----------------------------
(***************************************************************************)
(* What the policy controller promises the readers of an ImagePolicy (the  *)
(* workload controllers, the dashboard, kubectl): its status moves as if   *)
(* every scan were one atomic step taken on the stored object itself. A    *)
(* result is recorded only for the spec the object has at that instant,    *)
(* never while the policy is suspended, and never from a listing older     *)
(* than the last write of the object (an edit, a webhook trigger, or an    *)
(* earlier result).                                                        *)
(***************************************************************************)
EXTENDS ImagePolicyAPI

\* A user or the webhook receiver writes or removes the object.
Create(p) == api[p] = None /\ \E r \in Repos, s \in BOOLEAN : Put(p, NewPolicy(r, s))

Edit(p) ==
    /\ api[p] # None
    /\ \E r \in Repos, s \in BOOLEAN : Put(p, EditedPolicy(api[p], r, s))

Delete(p) == api[p] # None /\ Put(p, None)

Touch(p) == api[p] # None /\ Put(p, api[p])

\* A scan succeeds: the image is one the current repository has offered since
\* the object was last written.
Publish(p) ==
    /\ Active(api[p])
    /\ \E t \in fresh[p] :
          Put(p, [api[p] EXCEPT !.latest = [repo |-> api[p].repo, tag |-> t],
                                !.ready = "True",
                                !.observed = api[p].generation])

\* A scan fails: the image selected before stays in the status.
Fail(p) ==
    /\ Active(api[p])
    /\ Put(p, [api[p] EXCEPT !.ready = "False", !.observed = api[p].generation])

Push == \E r \in Repos, t \in Tags \cup {None} : PushTo(r, t)

Next ==
    \/ Push
    \/ \E p \in Policies :
          \/ Create(p) \/ Edit(p) \/ Delete(p) \/ Touch(p)
          \/ Publish(p) \/ Fail(p)

Spec == APIInit /\ [][Next]_apiVars
=============================================================================
