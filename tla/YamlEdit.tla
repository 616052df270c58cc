------------------------------- MODULE YamlEdit -------------------------------
(***************************************************************************)
(* The editors of target files (internal/gitwriteback/edit.go) and Apply,  *)
(* which reads the file, edits it and writes it back. A document is its    *)
(* node tree: a function from the paths of the nodes. A segment of a path  *)
(* is a mapping key or the index of a list element.                        *)
(*                                                                         *)
(* Aliases, comments and layout are left out, and so are further documents *)
(* in a file of which only the first is read (parseDoc).                   *)
(***************************************************************************)
EXTENDS Naturals, FiniteSets, SequencesExt

CONSTANTS
    Containers, Repos, Tags,
    None,
    Mistagged,  \* the value of a mapping or list that was tagged as a string
    Segments,   \* the segments of paths
    MaxIndex,   \* bound on the indices of a list
    Index,      \* an index as a segment
    Cases       \* files and annotations to start from: [kind, keys, doc]

ASSUME NoValueTwice == {None, Mistagged} \cap (Repos \cup Tags) = {}
ASSUME KeysAreSegments == {"images", "name", "newTag"} \subseteq Segments
ASSUME IndicesDiffer ==
    MaxIndex \in Nat /\ Index \in [0..MaxIndex -> Segments] /\ IsInjective(Index)

VARIABLES
    kind,       \* the kind of the write-back-target
    keys,       \* per container the Helm keys, <<>> where not annotated
    doc,        \* the file
    answer,     \* what the last Apply returned
    done        \* history: the request it fulfilled, None when it did none

vars == <<kind, keys, doc, answer, done>>

-----------------------------------------------------------------------------
\* A node has a kind and, if a scalar, a value. The nodes below it are those
\* whose paths continue its own. The root of a manifest holds its documents.
Node(k, value) == [kind |-> k, value |-> value]
Map == Node("map", None)
List == Node("list", None)
Scalar(value) == Node("scalar", value)

\* An image reference, as the value of a scalar: the tag or the digest may be
\* missing.
Reference(repo, tag, digest) == [repo |-> repo, tag |-> tag, digest |-> digest]

\* repoOf drops tag and digest.
RepoOf(reference) == reference.repo

Has(d, path) == path \in DOMAIN d
ValueAt(d, path) == IF Has(d, path) THEN d[path].value ELSE None

\* A node is replaced or added.
Put(d, path, node) == [p \in DOMAIN d \cup {path} |-> IF p = path THEN node ELSE d[p]]

\* What an editor returns without an error: the document, and whether it
\* reports a change.
Edited(d, changed) == [doc |-> d, changed |-> changed]

\* A tree: every node hangs from a mapping or a list, and the elements of a list
\* are numbered without a gap.
IsTree(d) ==
    \A p \in DOMAIN d : p # <<>> =>
        /\ Has(d, Front(p)) /\ d[Front(p)].kind # "scalar"
        /\ d[Front(p)].kind = "list" =>
              \E i \in 0..MaxIndex :
                 /\ Last(p) = Index[i]
                 /\ \A j \in 0..(i - 1) : Has(d, Append(Front(p), Index[j]))

IsDocument(d) ==
    /\ DOMAIN d \subseteq Seq(Segments) /\ <<>> \in DOMAIN d
    /\ d = [p \in DOMAIN d |-> d[p]]
    /\ \A p \in DOMAIN d :
          /\ d[p] = Node(d[p].kind, d[p].value) /\ d[p].kind \in {"map", "list", "scalar"}
          /\ d[p].kind # "scalar" => d[p].value \in {None, Mistagged}
    /\ IsTree(d)

\* Two keys of which neither leads to or through what the other names.
Apart(key1, key2) ==
    key1 = <<>> \/ key2 = <<>> \/ (~IsPrefix(key1, key2) /\ ~IsPrefix(key2, key1))

KeysApart(ks) ==
    \A c \in Containers :
        /\ Apart(ks[c].name, ks[c].tag)
        /\ \A e \in Containers \ {c} :
             \A key1 \in {ks[c].name, ks[c].tag}, key2 \in {ks[e].name, ks[e].tag} :
                Apart(key1, key2)

-----------------------------------------------------------------------------
\* A scalar under a mapping. A mapping or list found there keeps its kind and
\* its nodes, and only gets the tag of a string.
UpsertScalar(d, path, value) ==
    Edited(Put(d, path, IF Has(d, path) /\ d[path].kind # "scalar"
                        THEN Node(d[path].kind, Mistagged) ELSE Scalar(value)),
           ValueAt(d, path) # value)

\* Variant: the content of the node replaced stays.
SetScalarOverContent(d, path, value) ==
    Edited(Put(d, path, Scalar(value)), d[path] # Scalar(value))

\* An element of a list becomes the scalar, whatever it was.
SetScalar(d, path, value) ==
    LET kept == [p \in {q \in DOMAIN d : ~IsStrictPrefix(path, q)} |-> d[p]]
    IN  Edited(Put(kept, path, Scalar(value)), d[path] # Scalar(value))

\* The nodes on the way are mappings, or lists that have the element; those
\* that are missing will be created.
Reachable(d, path) ==
    \A i \in 0..(Len(path) - 1) :
        LET p == SubSeq(path, 1, i)
        IN Has(d, p) => \/ d[p].kind = "map"
                        \/ d[p].kind = "list" /\ Has(d, SubSeq(path, 1, i + 1))

WithMaps(d, path) ==
    [p \in DOMAIN d \cup {SubSeq(path, 1, i) : i \in 0..(Len(path) - 1)} |->
        IF p \in DOMAIN d THEN d[p] ELSE Map]

\* None is the error of a path that cannot be walked.
SetByPath(d, path, value) ==
    IF ~Reachable(d, path) THEN None
    ELSE IF Has(d, path) /\ d[Front(path)].kind = "list" THEN SetScalar(d, path, value)
    ELSE UpsertScalar(WithMaps(d, path), path, value)

\* Variant: an error under the second key is not looked at.
EditHelmValuesHalf(d, key, repo, tag) ==
    LET named == IF key.name = <<>> THEN Edited(d, FALSE) ELSE SetByPath(d, key.name, repo)
        tagged == SetByPath(named.doc, key.tag, tag)
    IN IF key.tag = <<>> \/ d[<<>>].kind # "map" \/ named = None THEN None
       ELSE IF tagged = None THEN named
       ELSE Edited(tagged.doc, named.changed \/ tagged.changed)

\* The name key may be missing; an error under either key is returned.
EditHelmValues(d, key, repo, tag) ==
    LET named == IF key.name = <<>> THEN Edited(d, FALSE) ELSE SetByPath(d, key.name, repo)
        tagged == SetByPath(named.doc, key.tag, tag)
    IN IF key.tag = <<>> \/ d[<<>>].kind # "map" \/ named = None \/ tagged = None
       THEN None
       ELSE Edited(tagged.doc, named.changed \/ tagged.changed)

-----------------------------------------------------------------------------
Images == <<"images">>
Item(i) == Append(Images, Index[i])
Items(d) == {i \in 0..MaxIndex : Has(d, Item(i))}

\* The items that name the repository; the first of them is the entry.
Named(d, repo) ==
    {i \in Items(d) : d[Item(i)].kind = "map"
                        /\ ValueAt(d, Append(Item(i), "name")) = repo}
Entry(d, repo) == CHOOSE i \in Named(d, repo) : \A j \in Named(d, repo) : i <= j

WithEntry(d, repo, tag) ==
    LET item == Item(Cardinality(Items(d)))
        listed == IF Has(d, Images) THEN d ELSE Put(d, Images, List)
    IN Put(Put(Put(listed, item, Map), Append(item, "name"), Scalar(repo)),
           Append(item, "newTag"), Scalar(tag))

\* Variant: an entry is added whether there is one or not.
EditKustomizationAppends(d, repo, tag) ==
    IF d[<<>>].kind # "map" THEN None ELSE Edited(WithEntry(d, repo, tag), TRUE)

\* An entry appended to an images key that holds no list is lost when the
\* document is encoded.
EditKustomization(d, repo, tag) ==
    IF d[<<>>].kind # "map" THEN None
    ELSE IF Named(d, repo) # {}
    THEN UpsertScalar(d, Append(Item(Entry(d, repo)), "newTag"), tag)
    ELSE IF Has(d, Images) /\ d[Images].kind # "list" THEN Edited(d, TRUE)
    ELSE Edited(WithEntry(d, repo, tag), TRUE)

-----------------------------------------------------------------------------
\* The images of the mappings that name the container, in all documents.
ImagesOf(d, container) ==
    {p \in DOMAIN d : /\ p # <<>> /\ Last(p) = "image" /\ d[p].kind = "scalar"
                      /\ d[Front(p)].kind = "map"
                      /\ ValueAt(d, Append(Front(p), "name")) = container}

\* Variant: the name of the container is not looked at.
EditManifestEveryContainer(d, repo, tag, container) ==
    LET d2 == [p \in DOMAIN d |->
                 IF \E c \in Containers : p \in ImagesOf(d, c) /\ RepoOf(d[p].value) = repo
                 THEN Scalar(Reference(repo, tag, FALSE)) ELSE d[p]]
    IN Edited(d2, d2 # d)

EditManifest(d, repo, tag, container) ==
    LET d2 == [p \in DOMAIN d |->
                 IF p \in ImagesOf(d, container) /\ RepoOf(d[p].value) = repo
                 THEN Scalar(Reference(repo, tag, FALSE)) ELSE d[p]]
    IN Edited(d2, d2 # d)

-----------------------------------------------------------------------------
Edit(c, repo, tag) ==
    CASE kind \in {"helm", "helmTag"} -> EditHelmValues(doc, keys[c], repo, tag)
      [] kind = "kustomize"           -> EditKustomization(doc, repo, tag)
      [] kind = "manifest"            -> EditManifest(doc, repo, tag, c)

\* Two edits report a change they do not make: of a key that holds a mapping,
\* and of an images key that holds no list.
Lost(c) ==
    \/ kind = "helmTag" /\ Has(doc, keys[c].tag) /\ doc[keys[c].tag].kind # "scalar"
         /\ doc[Front(keys[c].tag)].kind = "map"
    \/ kind = "kustomize" /\ Has(doc, Images) /\ doc[Images].kind # "list"

\* The bound on lists: the next item has an index.
HasRoom(repo) ==
    kind = "kustomize" /\ Named(doc, repo) = {} => Cardinality(Items(doc)) <= MaxIndex

\* The file is written only after an edit without an error that reports a
\* change.
Apply(c, repo, tag) ==
    LET edit == Edit(c, repo, tag)
    IN /\ HasRoom(repo)
       /\ doc' = IF edit # None /\ edit.changed THEN edit.doc ELSE doc
       /\ answer' = CASE edit = None -> "error"
                      [] edit # None /\ edit.changed -> "changed"
                      [] OTHER -> "unchanged"
       /\ done' = IF edit = None \/ Lost(c) THEN None
                  ELSE [kind |-> kind, slot |-> c, repo |-> repo, tag |-> tag]
       /\ UNCHANGED <<kind, keys>>

\* The path leaves the clone, or the file cannot be read.
ApplyFails ==
    /\ answer' = "error" /\ done' = None
    /\ UNCHANGED <<kind, keys, doc>>

\* Where the keys lead, a file has a scalar or the element of a list, or nothing;
\* so do the entries of a kustomization. Its images key holds no mapping.
Fits(k, ks, d) ==
    /\ k = "helm" => \A c \in Containers :
          /\ ks[c].name # <<>>
          /\ \A key \in {ks[c].name, ks[c].tag} \ {<<>>} :
                Has(d, key) => d[key].kind = "scalar" \/ d[Front(key)].kind = "list"
    /\ k = "helmTag" => \A c \in Containers : ks[c].name = <<>>
    /\ k = "kustomize" =>
          /\ Has(d, Images) => d[Images].kind # "map"
          /\ \A i \in Items(d) :
                Has(d, Append(Item(i), "newTag")) =>
                    d[Append(Item(i), "newTag")].kind = "scalar"

ASSUME CasesAreFiles == \A case \in Cases :
    /\ case.kind \in {"helm", "helmTag", "kustomize", "manifest"}
    /\ case.keys \in [Containers -> [name : Seq(Segments), tag : Seq(Segments)]]
    /\ KeysApart(case.keys)
    /\ IsDocument(case.doc)
    /\ Fits(case.kind, case.keys, case.doc)

Init ==
    /\ \E case \in Cases : kind = case.kind /\ keys = case.keys /\ doc = case.doc
    /\ answer = "none" /\ done = None

Next ==
    \/ ApplyFails
    \/ \E c \in Containers, repo \in Repos, tag \in Tags : Apply(c, repo, tag)

Spec == Init /\ [][Next]_vars

-----------------------------------------------------------------------------
\* What a document holds of the images, for a reader of the branch.
Known(value, values) == IF value \in values THEN value ELSE None

ImageOf(d, c) == CHOOSE p \in ImagesOf(d, c) : TRUE

RepoIn(d, c) ==
    CASE kind \in {"helm", "helmTag"} -> Known(ValueAt(d, keys[c].name), Repos)
      [] kind = "manifest" /\ ImagesOf(d, c) # {} -> Known(d[ImageOf(d, c)].value.repo, Repos)
      [] OTHER -> None

TagIn(d, c) ==
    CASE kind \in {"helm", "helmTag"} -> Known(ValueAt(d, keys[c].tag), Tags)
      [] kind = "manifest" /\ ImagesOf(d, c) # {} -> Known(d[ImageOf(d, c)].value.tag, Tags)
      [] OTHER -> None

NewTagIn(d, repo) ==
    IF kind = "kustomize" /\ Named(d, repo) # {}
    THEN Known(ValueAt(d, Append(Item(Entry(d, repo)), "newTag")), Tags) ELSE None

FilesOf(d) ==
    [ image  |-> [c \in Containers |-> [repo |-> RepoIn(d, c), tag |-> TagIn(d, c)]],
      newTag |-> [repo \in Repos |-> NewTagIn(d, repo)] ]

Promise == INSTANCE TargetEdits WITH Slots <- Containers, files <- FilesOf(doc)

\* The editors make the edits GitWriteBack takes them to make: a request is
\* done as a whole, however its entry was found or created, or no entry
\* changes, though an error came after the first of two keys was set.
EntriesAsPromised == Promise!Spec

\* The document stays a tree: every node hangs from a mapping or a list, and
\* the elements of a list are numbered without a gap.
DocumentIsTree == IsTree(doc)

\* The nodes an edit for the container may change or create.
Target(c, repo, p) ==
    CASE kind \in {"helm", "helmTag"} ->
            \E k \in {keys[c].name, keys[c].tag} \ {<<>>} :
               IsPrefix(k, p) \/ (IsPrefix(p, k) /\ ~Has(doc, p))
      [] kind = "kustomize" ->
            \/ p = Images /\ ~Has(doc, p)
            \/ Named(doc', repo) # {} /\ IsPrefix(Item(Entry(doc', repo)), p)
      [] kind = "manifest" -> p \in ImagesOf(doc, c) /\ RepoOf(doc[p].value) = repo

\* Unrelated content is preserved: an edit changes no node but those its
\* container, its keys or its repository lead to.
UnrelatedContentKept ==
    [][\A c \in Containers, repo \in Repos, tag \in Tags : Apply(c, repo, tag) =>
         \A p \in DOMAIN doc \cup DOMAIN doc' :
            \/ Has(doc, p) /\ Has(doc', p) /\ doc[p] = doc'[p]
            \/ Target(c, repo, p)]_vars

\* The file carries the tag of the request, and the repository if it has a place
\* for it.
Carries(c, repo, tag) ==
    CASE kind = "helm" -> FilesOf(doc).image[c] = [repo |-> repo, tag |-> tag]
      [] kind = "helmTag" -> FilesOf(doc).image[c].tag = tag
      [] kind = "kustomize" -> FilesOf(doc).newTag[repo] = tag
      [] kind = "manifest" ->
            \A p \in ImagesOf(doc, c) :
               RepoOf(doc[p].value) = repo => doc[p].value = Reference(repo, tag, FALSE)

\* Once the file carries what is asked for, no edit reports a change: the
\* reconcile then has nothing to commit. A request done is carried from then on.
CarriedIsUnchanged ==
    [][\A c \in Containers, repo \in Repos, tag \in Tags : Apply(c, repo, tag) =>
         /\ Carries(c, repo, tag) => answer' # "changed"
         /\ done' # None => Carries(c, repo, tag)']_vars
=============================================================================
