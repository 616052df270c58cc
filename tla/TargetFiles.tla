----------------------------- MODULE TargetFiles -----------------------------
(***************************************************************************)
(* What the files of a Git branch hold of the images, and what one edit of *)
(* a write-back leaves of them. GitWriteBack takes its edits from here;    *)
(* YamlEdit shows that the editors of YAML documents make them.            *)
(***************************************************************************)
CONSTANTS
    Slots,      \* the containers, each with an entry of its own in a file
    Repos, Tags, None

\* A Helm values file with and without a key for the repository, a
\* kustomization, a plain manifest.
TargetKinds == {"helm", "helmTag", "kustomize", "manifest"}

\* Per slot the two Helm values, or the image of the manifest, None where the
\* file has none; and the images list of the kustomization all slots share.
Files ==
    [ image  : [Slots -> [repo : Repos \cup {None}, tag : Tags \cup {None}]],
      newTag : [Repos -> Tags \cup {None}] ]

\* Variant: the whole reference is written under the tag key.
EditedWholeImage(kind, fs, s, repo, tag) ==
    [fs EXCEPT !.image[s] = [repo |-> repo, tag |-> <<repo, tag>>]]

\* One edit. A manifest entry of another repository is not the one to edit.
Edited(kind, fs, s, repo, tag) ==
    CASE kind = "helm"      -> [fs EXCEPT !.image[s] = [repo |-> repo, tag |-> tag]]
      [] kind = "helmTag"   -> [fs EXCEPT !.image[s].tag = tag]
      [] kind = "kustomize" -> [fs EXCEPT !.newTag[repo] = tag]
      [] kind = "manifest"  ->
            IF fs.image[s].repo = repo THEN [fs EXCEPT !.image[s].tag = tag] ELSE fs
=============================================================================
