----------------------------- MODULE TargetEdits -----------------------------
(***************************************************************************)
(* The promise of the editors: a request is done in one step, both values  *)
(* of a Helm container together, or it leaves every entry as it was.       *)
(***************************************************************************)
EXTENDS TargetFiles

VARIABLES
    files,
    done        \* the request done by the last step, None when it did none

vars == <<files, done>>

Request == [kind : TargetKinds, slot : Slots, repo : Repos, tag : Tags]

Init == files \in Files /\ done = None

Do(r) ==
    /\ files' = Edited(r.kind, files, r.slot, r.repo, r.tag)
    /\ done' = r

Decline == files' = files /\ done' = None

Next == Decline \/ \E r \in Request : Do(r)

Spec == Init /\ [][Next]_vars
=============================================================================
