----------------------------- MODULE ScanPacing -----------------------------
(***************************************************************************)
(* How often the registry is asked. spec.interval is documented as the     *)
(* scan cadence, clamped to 30 seconds; this module adds to the policy     *)
(* controller the history of what gives a policy a reason to be scanned    *)
(* ahead of its interval: it was created or edited, a webhook asked for    *)
(* it, the operator started, or its timer (interval or backoff) ran out.   *)
(***************************************************************************)
EXTENDS ImagePolicyController

VARIABLE due    \* history: policies with such a reason since their last scan

pacedVars == <<api, registry, fresh, watch, cache, queue, delayed, scan, due>>

Asked(p) ==
    /\ CreatePolicy(p) \/ EditPolicy(p) \/ Trigger(p) \/ DelayElapsed(p)
    /\ due' = due \cup {p}

AskedByRestart ==
    /\ Restart
    /\ due' = queue'

\* A scan answers the reasons given before the version it reads was written;
\* it leaves those of versions the informer has yet to deliver.
AskRegistry(p) ==
    /\ BeginScan(p)
    /\ due' = IF watch[p] = <<>> THEN due \ {p} ELSE due

Otherwise ==
    /\ \/ Push \/ ListTags \/ ScanFails
       \/ \E p \in Policies :
             \/ DeletePolicy(p) \/ Deliver(p) \/ Skip(p)
             \/ StatusAccepted(p) \/ StatusRejected(p) \/ StatusGone(p)
    /\ UNCHANGED due

PacedInit == Init /\ due = {}

PacedNext ==
    \/ AskedByRestart
    \/ Otherwise
    \/ \E p \in Policies : Asked(p) \/ AskRegistry(p)

PacedSpec == PacedInit /\ [][PacedNext]_pacedVars

\* A policy is scanned again only when its interval has run out or someone
\* asked for it; the controller's own status update is no reason.
ScansArePaced == [][\A p \in Policies : BeginScan(p) => p \in due]_pacedVars
=============================================================================
