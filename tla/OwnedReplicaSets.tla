--------------------------- MODULE OwnedReplicaSets ---------------------------
(***************************************************************************)
(* A Deployment bound to a policy, its ReplicaSets, and their pods. The    *)
(* Deployment controller of Kubernetes copies the annotations of the       *)
(* Deployment to its ReplicaSets, so that the operator's reconcilers of    *)
(* both kinds update their objects (the adapters of internal/workload; the *)
(* dashboard skips owned objects, the reconcilers do not). A reconcile is  *)
(* one step here; LiveWriteBack has what happens within it.                *)
(***************************************************************************)
EXTENDS Naturals, Sequences, FiniteSetsExt

CONSTANTS
    Tags,
    Replicas,   \* replicas of the Deployment
    MaxSets     \* bound on the ReplicaSets created

VARIABLES
    latest,     \* the tag the policy has selected
    deploy,     \* the tag in the Deployment's pod template
    sets        \* its ReplicaSets, the oldest first: the tag of the template,
                \* the replicas wanted, and how many pods run which tag

vars == <<latest, deploy, sets>>

NoPods == [t \in Tags |-> 0]
PodsOf(i) == MapThenSumSet(LAMBDA t : sets[i].pods[t], Tags)
AllPods == MapThenSumSet(PodsOf, DOMAIN sets)
AllWanted == MapThenSumSet(LAMBDA i : sets[i].wanted, DOMAIN sets)

\* The new ReplicaSet is the oldest one of the Deployment's template.
Matching == {i \in DOMAIN sets : sets[i].tag = deploy}
IsNew(i) == i \in Matching /\ \A j \in Matching : i <= j

-----------------------------------------------------------------------------
\* The operator.
UpdateDeployment ==
    /\ deploy # latest
    /\ deploy' = latest
    /\ UNCHANGED <<latest, sets>>

UpdateReplicaSet(i) ==
    /\ sets[i].tag # latest
    /\ sets' = [sets EXCEPT ![i].tag = latest]
    /\ UNCHANGED <<latest, deploy>>

-----------------------------------------------------------------------------
\* The policy selects another tag.
Publish ==
    /\ latest' \in Tags \ {latest}
    /\ UNCHANGED <<deploy, sets>>

\* The Deployment controller: a ReplicaSet for the template if there is none,
\* then a rolling update with one pod more and none less than wanted.
CreateSet ==
    /\ Matching = {}
    /\ Len(sets) < MaxSets
    /\ sets' = Append(sets, [tag |-> deploy, wanted |-> 0, pods |-> NoPods])
    /\ UNCHANGED <<latest, deploy>>

ScaleUp(i) ==
    /\ IsNew(i)
    /\ sets[i].wanted < Replicas
    /\ AllWanted <= Replicas
    /\ sets' = [sets EXCEPT ![i].wanted = @ + 1]
    /\ UNCHANGED <<latest, deploy>>

ScaleDown(i) ==
    /\ Matching # {} /\ ~IsNew(i)
    /\ sets[i].wanted > 0
    /\ AllPods > Replicas
    /\ sets' = [sets EXCEPT ![i].wanted = @ - 1]
    /\ UNCHANGED <<latest, deploy>>

\* The ReplicaSet controller: only the number of pods counts, those there are
\* keep their tag when the template changes.
StartPod(i) ==
    /\ PodsOf(i) < sets[i].wanted
    /\ sets' = [sets EXCEPT ![i].pods[sets[i].tag] = @ + 1]
    /\ UNCHANGED <<latest, deploy>>

StopPod(i, t) ==
    /\ PodsOf(i) > sets[i].wanted
    /\ sets[i].pods[t] > 0
    /\ sets' = [sets EXCEPT ![i].pods[t] = @ - 1]
    /\ UNCHANGED <<latest, deploy>>

Init ==
    /\ latest \in Tags /\ deploy \in Tags
    /\ sets = << [ tag |-> deploy, wanted |-> Replicas,
                   pods |-> [NoPods EXCEPT ![deploy] = Replicas] ] >>

Next ==
    \/ Publish \/ UpdateDeployment \/ CreateSet
    \/ \E i \in DOMAIN sets :
          \/ UpdateReplicaSet(i) \/ ScaleUp(i) \/ ScaleDown(i) \/ StartPod(i)
          \/ \E t \in Tags : StopPod(i, t)

Spec == Init /\ [][Next]_vars

-----------------------------------------------------------------------------
\* Neither the operator nor Kubernetes has anything left to do.
Settled ==
    /\ deploy = latest
    /\ \A i \in DOMAIN sets :
          /\ sets[i].tag = latest
          /\ sets[i].wanted = (IF IsNew(i) THEN Replicas ELSE 0)
          /\ PodsOf(i) = sets[i].wanted

\* The README's "have a Deployment follow it automatically": once everything is
\* up to date, the pods run the image the policy has selected.
UpdateReachesPods ==
    Settled => \A i \in DOMAIN sets, t \in Tags : sets[i].pods[t] > 0 => t = latest
=============================================================================
