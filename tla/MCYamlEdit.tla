------------------------------ MODULE MCYamlEdit ------------------------------
(* Files for YamlEdit. Each is written with the keys of the annotations    *)
(* that lead into it.                                                      *)
EXTENDS YamlEdit

CONSTANTS c1, c2, r1, r2, t1, t2, Other

MCSegments == STRING
MCIndex == [i \in 0..MaxIndex |-> ToString(i)]

Root(entries) == (<<>> :> Map) @@ entries
Key(name, tag) == [name |-> name, tag |-> tag]
Helm(k, key1, key2, d) ==
    [kind |-> k, keys |-> (c1 :> key1) @@ (c2 :> key2), doc |-> d]
NoKeys == [c \in {c1, c2} |-> Key(<<>>, <<>>)]

Repository == <<"image", "repository">>
ImageTag == <<"image", "tag">>
Nested ==
    Root((<<"image">> :> Map) @@ (Repository :> Scalar(r1)) @@ (ImageTag :> Scalar(t1))
           @@ (<<"replicas">> :> Scalar(Other)))
Listed ==
    Root((<<"images">> :> List) @@ (<<"images", "0">> :> Map)
           @@ (<<"images", "0", "tag">> :> Scalar(t1))
           @@ (<<"images", "1">> :> Map) @@ (<<"images", "1", "name">> :> Scalar(Other)))

HelmCases ==
    { \* The first container's keys are there, the second's are created.
      Helm("helm", Key(Repository, ImageTag),
           Key(<<"sidecar", "image", "repository">>, <<"sidecar", "image", "tag">>), Nested),
      \* One key is set before the other turns out to lead through a scalar.
      Helm("helm", Key(<<"repository">>, <<"replicas", "tag">>),
           Key(<<"image", "repository", "name">>, <<"tag">>), Nested),
      \* Elements of a list: a key of one, and one that is not there.
      Helm("helm", Key(<<"images", "0", "repository">>, <<"images", "0", "tag">>),
           Key(<<"registry">>, <<"images", "5", "tag">>), Listed),
      \* A list element that is replaced, and a mapping that is not.
      Helm("helmTag", Key(<<>>, <<"images", "1">>), Key(<<>>, <<"images", "0", "tag">>), Listed),
      Helm("helmTag", Key(<<>>, <<"image">>), Key(<<>>, <<"sidecar", "tag">>), Nested),
      \* No key for the tag; no mapping at the root.
      Helm("helm", Key(Repository, <<>>), Key(<<"name">>, <<"tag">>), Nested),
      Helm("helmTag", Key(<<>>, <<"0">>), Key(<<>>, <<"tag">>),
           (<<>> :> List) @@ (<<"0">> :> Scalar(t1))) }

Kustomization(entries) == [kind |-> "kustomize", keys |-> NoKeys, doc |-> Root(entries)]

KustomizeCases ==
    { Kustomization(<<"resources">> :> Scalar(Other)),
      Kustomization(<<"images">> :> Scalar(Other)),
      \* An item that is no mapping, an entry without a tag, an entry twice.
      Kustomization(
        (Images :> List) @@ (Item(0) :> Scalar(r1)) @@ (Item(1) :> Map)
          @@ (<<"images", "1", "name">> :> Scalar(r2)) @@ (Item(2) :> Map)
          @@ (<<"images", "2", "name">> :> Scalar(r1))
          @@ (<<"images", "2", "newTag">> :> Scalar(t1)) @@ (Item(3) :> Map)
          @@ (<<"images", "3", "name">> :> Scalar(r1))
          @@ (<<"images", "3", "newTag">> :> Scalar(t2))) }

\* Two documents: the containers, one without a name, one of another
\* repository, one by digest, and a mapping under the key image.
ManifestCases ==
    { [ kind |-> "manifest", keys |-> NoKeys,
        doc |-> (<<>> :> List) @@ (<<"0">> :> Map) @@ (<<"0", "containers">> :> List)
          @@ (<<"0", "containers", "0">> :> Map)
          @@ (<<"0", "containers", "0", "name">> :> Scalar(c1))
          @@ (<<"0", "containers", "0", "image">> :> Scalar(Reference(r1, first, FALSE)))
          @@ (<<"0", "containers", "1">> :> Map)
          @@ (<<"0", "containers", "1", "name">> :> Scalar(c2))
          @@ (<<"0", "containers", "1", "image">> :> Scalar(Reference(second, None, TRUE)))
          @@ (<<"1">> :> Map) @@ (<<"1", "image">> :> Map)
          @@ (<<"1", "name">> :> Scalar(c1))
          @@ (<<"1", "spec">> :> Map) @@ (<<"1", "spec", "name">> :> Scalar(c1))
          @@ (<<"1", "spec", "image">> :> Scalar(Reference(second, t2, FALSE)))
          @@ (<<"1", "job">> :> Map)
          @@ (<<"1", "job", "image">> :> Scalar(Reference(r1, t1, FALSE))) ] :
      first \in {t1, t2}, second \in {r1, r2} }

MCCases == HelmCases \cup KustomizeCases \cup ManifestCases
=============================================================================
