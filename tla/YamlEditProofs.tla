---------------------------- MODULE YamlEditProofs ----------------------------
(***************************************************************************)
(* Proofs about YamlEdit, for every file and every annotation that fits    *)
(* it. The effect of each editor on the nodes of a document is worked out  *)
(* once, path by path; from the effects follow that the file stays a       *)
(* document, that an edit leaves unrelated content alone, that what is     *)
(* carried is reported as unchanged, and that the editors implement        *)
(* TargetEdits, the edits GitWriteBack takes them to make.                 *)
(***************************************************************************)
EXTENDS YamlEdit, SequenceLemmas

-----------------------------------------------------------------------------
(* Paths.                                                                  *)

\* A path is a sequence of segments.
Paths == Seq(Segments)

\* A path continues another if it begins with its segments.
LEMMA PrefixIs ==
    ASSUME NEW p \in Paths, NEW q \in Paths
    PROVE  IsPrefix(p, q) <=> Len(p) <= Len(q) /\ \A i \in 1..Len(p) : p[i] = q[i]
  <1>1. SubSeq(p, 1, Len(p)) = p /\ Len(p) \in Nat /\ Len(q) \in Nat
    BY DEF Paths
  <1>2. ASSUME Len(p) <= Len(q)
        PROVE  SubSeq(p, 1, Len(p)) = SubSeq(q, 1, Len(p)) <=> \A i \in 1..Len(p) : p[i] = q[i]
    BY <1>1, <1>2, PrefixesEqual DEF Paths
  <1> QED
    BY <1>1, <1>2 DEF IsPrefix

\* That is an order with <<>> at the bottom, linear below each path.
LEMMA PrefixOrder ==
    /\ \A p \in Paths : IsPrefix(p, p) /\ IsPrefix(<<>>, p)
    /\ \A p, q, r \in Paths : IsPrefix(p, q) /\ IsPrefix(q, r) => IsPrefix(p, r)
    /\ \A p, q \in Paths : IsPrefix(p, q) /\ IsPrefix(q, p) => p = q
    /\ \A p, q, r \in Paths :
          IsPrefix(p, r) /\ IsPrefix(q, r) => IsPrefix(p, q) \/ IsPrefix(q, p)
  <1>1. <<>> \in Paths /\ Len(<<>>) = 0
    BY DEF Paths
  <1>2. ASSUME NEW p \in Paths PROVE IsPrefix(p, p) /\ IsPrefix(<<>>, p)
    <2>1. Len(p) \in Nat /\ \A i \in 1..Len(<<>>) : <<>>[i] = p[i]
      BY <1>1 DEF Paths
    <2> QED
      BY <1>1, <2>1, PrefixIs
  <1>3. ASSUME NEW p \in Paths, NEW q \in Paths, NEW r \in Paths,
               IsPrefix(p, q), IsPrefix(q, r)
        PROVE  IsPrefix(p, r)
    <2>1. /\ Len(p) <= Len(q) /\ Len(q) <= Len(r)
          /\ \A i \in 1..Len(p) : p[i] = q[i]
          /\ \A i \in 1..Len(q) : q[i] = r[i]
      BY <1>3, PrefixIs
    <2>2. Len(p) \in Nat /\ Len(q) \in Nat /\ Len(r) \in Nat
      BY DEF Paths
    <2>3. Len(p) <= Len(r) /\ \A i \in 1..Len(p) : p[i] = r[i]
      BY <2>1, <2>2
    <2> QED
      BY <2>3, PrefixIs
  <1>4. ASSUME NEW p \in Paths, NEW q \in Paths, IsPrefix(p, q), IsPrefix(q, p)
        PROVE  p = q
    <2>1. Len(p) <= Len(q) /\ Len(q) <= Len(p) /\ \A i \in 1..Len(p) : p[i] = q[i]
      BY <1>4, PrefixIs
    <2> QED
      BY <2>1, SeqEqual DEF Paths
  <1>5. ASSUME NEW p \in Paths, NEW q \in Paths, NEW r \in Paths,
               IsPrefix(p, r), IsPrefix(q, r)
        PROVE  IsPrefix(p, q) \/ IsPrefix(q, p)
    <2>1. /\ \A i \in 1..Len(p) : p[i] = r[i]
          /\ \A i \in 1..Len(q) : q[i] = r[i]
      BY <1>5, PrefixIs
    <2>2. Len(p) \in Nat /\ Len(q) \in Nat
      BY DEF Paths
    <2>3. CASE Len(p) <= Len(q)
      <3>1. \A i \in 1..Len(p) : p[i] = q[i]
        BY <2>1, <2>2, <2>3
      <3> QED
        BY <2>3, <3>1, PrefixIs
    <2>4. CASE Len(q) <= Len(p)
      <3>1. \A i \in 1..Len(q) : q[i] = p[i]
        BY <2>1, <2>2, <2>4
      <3> QED
        BY <2>4, <3>1, PrefixIs
    <2> QED
      BY <2>2, <2>3, <2>4
  <1> QED
    BY <1>2, <1>3, <1>4, <1>5

\* What a path other than <<>> hangs from.
LEMMA FrontIs ==
    ASSUME NEW p \in Paths, p # <<>>
    PROVE  /\ Front(p) \in Paths /\ Last(p) \in Segments /\ p = Append(Front(p), Last(p))
           /\ IsPrefix(Front(p), p) /\ Front(p) # p /\ ~IsPrefix(p, Front(p))
           /\ \A q \in Paths : IsPrefix(q, p) /\ q # p => IsPrefix(q, Front(p))
  <1>1. /\ Front(p) \in Paths /\ Len(Front(p)) = Len(p) - 1 /\ Last(p) \in Segments
        /\ \A i \in 1..(Len(p) - 1) : Front(p)[i] = p[i]
    BY FrontProperties DEF Paths
  <1>2. Len(p) \in Nat \ {0}
    BY DEF Paths
  <1>3. IsPrefix(Front(p), p) /\ Front(p) # p /\ ~IsPrefix(p, Front(p))
    BY <1>1, <1>2, PrefixIs
  <1>4. ASSUME NEW q \in Paths, IsPrefix(q, p), q # p PROVE IsPrefix(q, Front(p))
    <2>1. Len(q) <= Len(p) /\ \A i \in 1..Len(q) : q[i] = p[i]
      BY <1>4, PrefixIs
    <2>2. Len(q) \in Nat
      BY DEF Paths
    <2>3. Len(q) # Len(p)
      BY <1>4, <2>1, SeqEqual DEF Paths
    <2>4. Len(q) <= Len(p) - 1 /\ \A i \in 1..Len(q) : i \in 1..(Len(p) - 1)
      BY <1>2, <2>1, <2>2, <2>3
    <2>5. \A i \in 1..Len(q) : q[i] = Front(p)[i]
      BY <1>1, <2>1, <2>4
    <2> QED
      BY <1>1, <2>4, <2>5, PrefixIs
  <1>5. p = Append(Front(p), Last(p))
    <2>1. PICK s \in Paths, e \in Segments : p = Append(s, e)
      BY SequenceEmptyOrAppend DEF Paths
    <2>2. Front(p) = s /\ Last(p) = e
      BY <2>1, FrontAppend DEF Paths
    <2> QED
      BY <2>1, <2>2
  <1> QED
    BY <1>1, <1>3, <1>4, <1>5

\* One segment more.
LEMMA ChildIs ==
    ASSUME NEW p \in Paths, NEW e \in Segments
    PROVE  /\ Append(p, e) \in Paths /\ Append(p, e) # <<>> /\ Append(p, e) # p
           /\ Front(Append(p, e)) = p /\ Last(Append(p, e)) = e
  <1>1. Append(p, e) \in Paths /\ Append(p, e) # <<>>
    BY NewestAdded DEF Paths
  <1>2. Front(Append(p, e)) = p /\ Last(Append(p, e)) = e
    BY FrontAppend DEF Paths
  <1> QED
    BY <1>1, <1>2, FrontIs

\* What holds of <<>>, and of a path if of what it hangs from, holds of all.
LEMMA PathInduction ==
    ASSUME NEW S, <<>> \in S, \A p \in Paths : p # <<>> /\ Front(p) \in S => p \in S
    PROVE  \A p \in Paths : p \in S
  <1> DEFINE Long(n) == {p \in Paths : Len(p) = n}
             N == {n \in Nat : Long(n) \subseteq S}
  <1>1. 0 \in N
    BY EmptySeq DEF Paths
  <1>2. ASSUME NEW n \in Nat, n \in N PROVE n + 1 \in N
    <2>1. ASSUME NEW p \in Paths, Len(p) = n + 1 PROVE p \in S
      <3>1. p # <<>>
        BY <2>1
      <3>2. Front(p) \in Paths /\ Len(Front(p)) = n
        BY <2>1, <3>1, FrontProperties DEF Paths
      <3> QED
        BY <1>2, <3>1, <3>2
    <2> QED
      BY <2>1
  <1>3. \A n \in Nat : n \in N
    <2> HIDE DEF N
    <2> QED
      BY <1>1, <1>2, Induction
  <1>4. \A p \in Paths : Len(p) \in Nat
    BY DEF Paths
  <1> QED
    BY <1>3, <1>4

\* The nodes on the way to a path.
LEMMA AboveIs ==
    ASSUME NEW path \in Paths
    PROVE  /\ \A i \in 0..(Len(path) - 1) :
                 /\ SubSeq(path, 1, i) \in Paths
                 /\ IsPrefix(SubSeq(path, 1, i), path) /\ SubSeq(path, 1, i) # path
           /\ \A p \in Paths : IsPrefix(p, path) /\ p # path =>
                 Len(p) \in 0..(Len(path) - 1) /\ p = SubSeq(path, 1, Len(p))
  <1>1. ASSUME NEW i \in 0..(Len(path) - 1)
        PROVE  /\ SubSeq(path, 1, i) \in Paths
               /\ IsPrefix(SubSeq(path, 1, i), path) /\ SubSeq(path, 1, i) # path
    <2> DEFINE p == SubSeq(path, 1, i)
    <2>1. i \in Nat /\ i <= Len(path) /\ i # Len(path) /\ Len(path) \in Nat
      BY DEF Paths
    <2>2. p \in Paths /\ Len(p) = i /\ \A j \in 1..i : p[j] = path[j]
      BY <2>1, Prefix DEF Paths
    <2> HIDE DEF p
    <2>3. p # path /\ IsPrefix(p, path)
      BY <2>1, <2>2, PrefixIs
    <2> QED
      BY <2>2, <2>3 DEF p
  <1>2. ASSUME NEW p \in Paths, IsPrefix(p, path), p # path
        PROVE  Len(p) \in 0..(Len(path) - 1) /\ p = SubSeq(path, 1, Len(p))
    <2>1. Len(p) <= Len(path) /\ \A i \in 1..Len(p) : p[i] = path[i]
      BY <1>2, PrefixIs
    <2>2. Len(p) \in Nat /\ Len(path) \in Nat
      BY DEF Paths
    <2>3. Len(p) # Len(path)
      BY <1>2, <2>1, SeqEqual DEF Paths
    <2>4. p = SubSeq(path, 1, Len(p))
      BY <1>2 DEF IsPrefix, Paths
    <2> QED
      BY <2>1, <2>2, <2>3, <2>4
  <1> QED
    BY <1>1, <1>2

-----------------------------------------------------------------------------
(* Documents.                                                              *)

\* A node as the editors find it.
IsNode(n) ==
    /\ n = Node(n.kind, n.value) /\ n.kind \in {"map", "list", "scalar"}
    /\ n.kind # "scalar" => n.value \in {None, Mistagged}

\* A node that may be where p is: an element of a list has all before it.
Placed(d, p) ==
    \E i \in 0..MaxIndex :
       Last(p) = Index[i] /\ \A j \in 0..(i - 1) : Append(Front(p), Index[j]) \in DOMAIN d

Hangs(d, p) ==
    /\ Front(p) \in DOMAIN d /\ d[Front(p)].kind # "scalar"
    /\ d[Front(p)].kind = "list" => Placed(d, p)

\* IsDocument, in those terms.
LEMMA DocumentIs ==
    ASSUME NEW d
    PROVE  IsDocument(d) <=>
             /\ DOMAIN d \subseteq Paths /\ <<>> \in DOMAIN d
             /\ d = [p \in DOMAIN d |-> d[p]]
             /\ \A p \in DOMAIN d : IsNode(d[p])
             /\ \A p \in DOMAIN d : p # <<>> => Hangs(d, p)
  BY DEF IsDocument, IsTree, Has, Paths, IsNode, Hangs, Placed

\* The nodes the editors write are nodes.
LEMMA NodesAre ==
    /\ \A k, v : Node(k, v).kind = k /\ Node(k, v).value = v
    /\ \A v : Scalar(v).kind = "scalar" /\ Scalar(v).value = v /\ IsNode(Scalar(v))
    /\ Map.kind = "map" /\ Map.value = None /\ IsNode(Map)
    /\ List.kind = "list" /\ List.value = None /\ IsNode(List)
    /\ \A k \in {"map", "list"} : IsNode(Node(k, Mistagged))
  BY DEF Node, Scalar, Map, List, IsNode

\* What a node hangs from is there, and only the node itself may be a scalar.
LEMMA Ancestors ==
    ASSUME NEW d, IsDocument(d), NEW p \in DOMAIN d, NEW q \in Paths, IsPrefix(q, p)
    PROVE  q \in DOMAIN d /\ (q # p => d[q].kind # "scalar")
  <1> DEFINE Fine(r) == \A s \in Paths : IsPrefix(s, r) =>
                            s \in DOMAIN d /\ (s # r => d[s].kind # "scalar")
             S == {r \in Paths : r \in DOMAIN d => Fine(r)}
  <1>1. /\ DOMAIN d \subseteq Paths /\ <<>> \in DOMAIN d /\ <<>> \in Paths
        /\ \A r \in DOMAIN d : r # <<>> => Front(r) \in DOMAIN d /\ d[Front(r)].kind # "scalar"
    BY DocumentIs DEF Hangs, Paths
  <1>2. <<>> \in S
    BY <1>1, PrefixOrder
  <1>3. ASSUME NEW r \in Paths, r # <<>>, Front(r) \in S PROVE r \in S
    <2> SUFFICES ASSUME r \in DOMAIN d, NEW s \in Paths, IsPrefix(s, r)
                 PROVE  s \in DOMAIN d /\ (s # r => d[s].kind # "scalar")
      BY <1>3
    <2>1. Front(r) \in DOMAIN d /\ d[Front(r)].kind # "scalar" /\ Fine(Front(r))
      BY <1>1, <1>3
    <2>2. CASE s = r
      BY <2>2
    <2>3. CASE s # r
      <3>1. IsPrefix(s, Front(r))
        BY <1>3, <2>3, FrontIs
      <3> QED
        BY <2>1, <3>1
    <2> QED
      BY <2>2, <2>3
  <1>4. \A r \in Paths : r \in S
    <2> HIDE DEF S
    <2> QED
      BY <1>2, <1>3, PathInduction
  <1> QED
    BY <1>1, <1>4

\* A node with the value of a repository or a tag is a scalar.
LEMMA ValueIs ==
    ASSUME NEW d, IsDocument(d), NEW p, NEW v, v \notin {None, Mistagged}
    PROVE  ValueAt(d, p) = v <=> p \in DOMAIN d /\ d[p] = Scalar(v)
  <1>1. CASE p \in DOMAIN d
    <2>1. IsNode(d[p]) /\ ValueAt(d, p) = d[p].value
      BY <1>1, DocumentIs DEF ValueAt, Has
    <2>2. d[p].value = v <=> d[p] = Scalar(v)
      BY <2>1 DEF IsNode, Scalar, Node
    <2> QED
      BY <1>1, <2>1, <2>2
  <1>2. CASE p \notin DOMAIN d
    BY <1>2 DEF ValueAt, Has
  <1> QED
    BY <1>1, <1>2

-----------------------------------------------------------------------------
(* The write at a path: setByPath, upsertScalar.                           *)

\* A path may be walked: what is on the way is a mapping, or a list that has the
\* element.
Walkable(d, path) ==
    \A p \in Paths : IsPrefix(p, path) /\ p # <<>> /\ Front(p) \in DOMAIN d =>
        \/ d[Front(p)].kind = "map"
        \/ d[Front(p)].kind = "list" /\ p \in DOMAIN d

\* Reachable walks the path segment by segment.
LEMMA ReachableIs ==
    ASSUME NEW d, NEW path \in Paths, Reachable(d, path)
    PROVE  Walkable(d, path)
  <1> SUFFICES ASSUME NEW p \in Paths, IsPrefix(p, path), p # <<>>, Front(p) \in DOMAIN d
               PROVE  \/ d[Front(p)].kind = "map"
                      \/ d[Front(p)].kind = "list" /\ p \in DOMAIN d
    BY DEF Walkable
  <1> DEFINE i == Len(Front(p))
  <1>1. /\ Front(p) \in Paths /\ IsPrefix(Front(p), path) /\ Front(p) # path
        /\ Len(Front(p)) = Len(p) - 1
    <2>1. /\ Front(p) \in Paths /\ IsPrefix(Front(p), p) /\ ~IsPrefix(p, Front(p))
          /\ Len(Front(p)) = Len(p) - 1
      BY FrontIs, FrontProperties DEF Paths
    <2> QED
      BY <2>1, PrefixOrder
  <1>2. i \in 0..(Len(path) - 1) /\ Front(p) = SubSeq(path, 1, i)
    BY <1>1, AboveIs
  <1>3. p = SubSeq(path, 1, i + 1)
    <2>1. p = SubSeq(path, 1, Len(p)) /\ Len(p) \in Nat
      BY DEF IsPrefix, Paths
    <2> QED
      BY <1>1, <2>1
  <1> HIDE DEF i
  <1> QED
    BY <1>2, <1>3 DEF Reachable, Has

\* What an edit leaves of a document: of a node that is added or gets a value,
\* and of one that loses its content.
Upserted(d, path, node, d2) ==
    /\ d2 = [p \in DOMAIN d2 |-> d2[p]] /\ DOMAIN d2 \subseteq Paths
    /\ \A p \in Paths : p \in DOMAIN d2 <=> p \in DOMAIN d \/ IsPrefix(p, path)
    /\ \A p \in DOMAIN d2 :
          d2[p] = IF p = path THEN node ELSE IF p \in DOMAIN d THEN d[p] ELSE Map

Replaced(d, path, node, d2) ==
    /\ d2 = [p \in DOMAIN d2 |-> d2[p]] /\ DOMAIN d2 \subseteq Paths
    /\ \A p \in Paths :
          p \in DOMAIN d2 <=> p \in DOMAIN d /\ (IsPrefix(path, p) => p = path)
    /\ \A p \in DOMAIN d2 : d2[p] = IF p = path THEN node ELSE d[p]

\* The nodes on the way are there, those that were missing as mappings.
LEMMA WithMapsIs ==
    ASSUME NEW d, DOMAIN d \subseteq Paths, NEW path \in Paths
    PROVE  /\ DOMAIN WithMaps(d, path) \subseteq Paths
           /\ \A p \in Paths : p \in DOMAIN WithMaps(d, path) <=>
                                 p \in DOMAIN d \/ (IsPrefix(p, path) /\ p # path)
           /\ \A p \in DOMAIN WithMaps(d, path) :
                 WithMaps(d, path)[p] = IF p \in DOMAIN d THEN d[p] ELSE Map
  <1> DEFINE Above == {SubSeq(path, 1, i) : i \in 0..(Len(path) - 1)}
  <1>1. Above \subseteq Paths /\ \A p \in Paths : p \in Above <=> IsPrefix(p, path) /\ p # path
    <2>1. ASSUME NEW p \in Above PROVE p \in Paths /\ IsPrefix(p, path) /\ p # path
      <3>1. PICK i \in 0..(Len(path) - 1) : p = SubSeq(path, 1, i)
        OBVIOUS
      <3> QED
        BY <3>1, AboveIs
    <2>2. ASSUME NEW p \in Paths, IsPrefix(p, path), p # path PROVE p \in Above
      <3>1. Len(p) \in 0..(Len(path) - 1) /\ p = SubSeq(path, 1, Len(p))
        BY <2>2, AboveIs
      <3> QED
        BY <3>1
    <2> HIDE DEF Above
    <2> QED
      BY <2>1, <2>2
  <1>2. WithMaps(d, path) =
          [p \in DOMAIN d \cup Above |-> IF p \in DOMAIN d THEN d[p] ELSE Map]
    BY DEF WithMaps
  <1> HIDE DEF Above
  <1> QED
    BY <1>1, <1>2

\* A mapping or list found under a mapping only gets the tag of a string.
Blocked(d, path) ==
    path \in DOMAIN d /\ d[path].kind # "scalar" /\ d[Front(path)].kind # "list"

Result(d, path, value) ==
    IF Blocked(d, path) THEN Node(d[path].kind, Mistagged) ELSE Scalar(value)

\* The write under a mapping, after the mappings on the way.
LEMMA UpsertIs ==
    ASSUME NEW d, DOMAIN d \subseteq Paths, NEW path \in Paths, NEW node
    PROVE  Upserted(d, path, node, Put(WithMaps(d, path), path, node))
  <1> DEFINE w == WithMaps(d, path)
             d2 == Put(w, path, node)
  <1>1. /\ DOMAIN w \subseteq Paths
        /\ \A p \in Paths : p \in DOMAIN w <=>
                                 p \in DOMAIN d \/ (IsPrefix(p, path) /\ p # path)
        /\ \A p \in DOMAIN w : w[p] = IF p \in DOMAIN d THEN d[p] ELSE Map
    BY WithMapsIs
  <1> HIDE DEF w
  <1>2. /\ DOMAIN d2 = DOMAIN w \cup {path} /\ d2[path] = node
        /\ \A p \in DOMAIN w : p # path => d2[p] = w[p]
        /\ d2 = [p \in DOMAIN d2 |-> d2[p]]
    BY DEF Put
  <1> HIDE DEF d2
  <1>3. IsPrefix(path, path)
    BY PrefixOrder
  <1>4. Upserted(d, path, node, d2)
    BY <1>1, <1>2, <1>3 DEF Upserted
  <1> QED
    BY <1>4 DEF d2, w

\* The write of a list element drops what was below it.
LEMMA ReplaceIs ==
    ASSUME NEW d, DOMAIN d \subseteq Paths, NEW path \in DOMAIN d, NEW value
    PROVE  Replaced(d, path, Scalar(value), SetScalar(d, path, value).doc)
  <1> DEFINE kept == [p \in {q \in DOMAIN d : ~IsStrictPrefix(path, q)} |-> d[p]]
             d2 == Put(kept, path, Scalar(value))
  <1>1. SetScalar(d, path, value).doc = d2
    BY DEF SetScalar, Edited
  <1>2. /\ DOMAIN kept = {q \in DOMAIN d : ~(IsPrefix(path, q) /\ path # q)}
        /\ \A p \in DOMAIN kept : kept[p] = d[p]
    BY DEF IsStrictPrefix
  <1> HIDE DEF kept
  <1>3. /\ DOMAIN d2 = DOMAIN kept \cup {path} /\ d2[path] = Scalar(value)
        /\ \A p \in DOMAIN kept : p # path => d2[p] = kept[p]
        /\ d2 = [p \in DOMAIN d2 |-> d2[p]]
    BY DEF Put
  <1> HIDE DEF d2
  <1>4. Replaced(d, path, Scalar(value), d2)
    BY <1>2, <1>3 DEF Replaced
  <1> QED
    BY <1>1, <1>4

\* setByPath does one or the other.
LEMMA SetByPathIs ==
    ASSUME NEW d, IsDocument(d), NEW path \in Paths, path # <<>>,
           NEW value, value \notin {None, Mistagged},
           SetByPath(d, path, value) # None
    PROVE  /\ Walkable(d, path)
           /\ \/ /\ path \in DOMAIN d /\ d[Front(path)].kind = "list"
                 /\ Replaced(d, path, Result(d, path, value), SetByPath(d, path, value).doc)
              \/ /\ ~(path \in DOMAIN d /\ d[Front(path)].kind = "list")
                 /\ Upserted(d, path, Result(d, path, value), SetByPath(d, path, value).doc)
           /\ SetByPath(d, path, value).changed <=>
                 ~(path \in DOMAIN d /\ d[path] = Scalar(value))
  <1>1. /\ DOMAIN d \subseteq Paths
        /\ \A p \in DOMAIN d : IsNode(d[p])
    BY DocumentIs
  <1>2. Reachable(d, path)
    BY DEF SetByPath
  <1>3. Walkable(d, path)
    BY <1>2, ReachableIs
  <1>4. CASE path \in DOMAIN d /\ d[Front(path)].kind = "list"
    <2>1. SetByPath(d, path, value) = SetScalar(d, path, value)
      BY <1>2, <1>4 DEF SetByPath, Has
    <2>2. Result(d, path, value) = Scalar(value)
      BY <1>4 DEF Result, Blocked
    <2>3. SetScalar(d, path, value).changed <=> ~(d[path] = Scalar(value))
      BY DEF SetScalar, Edited
    <2>4. Replaced(d, path, Scalar(value), SetScalar(d, path, value).doc)
      BY <1>1, <1>4, ReplaceIs
    <2> QED
      BY <1>3, <1>4, <2>1, <2>2, <2>3, <2>4
  <1>5. CASE ~(path \in DOMAIN d /\ d[Front(path)].kind = "list")
    <2> DEFINE w == WithMaps(d, path)
               node == IF path \in DOMAIN w /\ w[path].kind # "scalar"
                       THEN Node(w[path].kind, Mistagged) ELSE Scalar(value)
    <2>1. SetByPath(d, path, value) = UpsertScalar(w, path, value)
      BY <1>2, <1>5 DEF SetByPath, Has
    <2>2. (path \in DOMAIN w <=> path \in DOMAIN d) /\ (path \in DOMAIN d => w[path] = d[path])
      BY <1>1, WithMapsIs
    <2> HIDE DEF w
    <2>3. node = Result(d, path, value)
      BY <1>5, <2>2 DEF Result, Blocked
    <2>4. UpsertScalar(w, path, value) = Edited(Put(w, path, node), ValueAt(w, path) # value)
      BY DEF UpsertScalar, Has
    <2> HIDE DEF node
    <2>5. SetByPath(d, path, value).doc = Put(w, path, node)
      BY <2>1, <2>4 DEF Edited
    <2>6. SetByPath(d, path, value).changed <=> ValueAt(w, path) # value
      <3>1. UpsertScalar(w, path, value).changed <=> ValueAt(w, path) # value
        BY DEF UpsertScalar, Edited
      <3> QED
        BY <2>1, <3>1
    <2>7. ValueAt(w, path) # value <=> ~(path \in DOMAIN d /\ d[path] = Scalar(value))
      <3>1. CASE path \in DOMAIN d
        <4>1. ValueAt(w, path) = d[path].value
          BY <2>2, <3>1 DEF ValueAt, Has
        <4>2. d[path].value = value <=> d[path] = Scalar(value)
          BY <1>1, <3>1 DEF IsNode, Scalar, Node
        <4> QED
          BY <3>1, <4>1, <4>2
      <3>2. CASE path \notin DOMAIN d
        BY <2>2, <3>2 DEF ValueAt, Has
      <3> QED
        BY <3>1, <3>2
    <2>8. Upserted(d, path, node, Put(w, path, node))
      BY <1>1, UpsertIs DEF w
    <2> QED
      BY <1>3, <1>5, <2>3, <2>5, <2>6, <2>7, <2>8
  <1> QED
    BY <1>4, <1>5

\* Two documents with the same nodes are the same.
LEMMA SameNodes ==
    ASSUME NEW d, NEW d2, d = [p \in DOMAIN d |-> d[p]], d2 = [p \in DOMAIN d2 |-> d2[p]],
           DOMAIN d \subseteq Paths, DOMAIN d2 \subseteq Paths,
           \A p \in Paths : p \in DOMAIN d <=> p \in DOMAIN d2,
           \A p \in DOMAIN d : d2[p] = d[p]
    PROVE  d2 = d
  <1>1. DOMAIN d = DOMAIN d2
    OBVIOUS
  <1> QED
    BY <1>1

\* A node that neither is below what is written nor is created on the way to it
\* stays what it is.
Keeps(d, d2, p) == (p \in DOMAIN d2 <=> p \in DOMAIN d) /\ (p \in DOMAIN d => d2[p] = d[p])

\* Neither way of writing touches another node.
LEMMA UpsertKeeps ==
    ASSUME NEW d, DOMAIN d \subseteq Paths, NEW path \in Paths, NEW node, NEW d2,
           Upserted(d, path, node, d2) \/ Replaced(d, path, node, d2),
           NEW p \in Paths, ~IsPrefix(path, p), IsPrefix(p, path) => p \in DOMAIN d
    PROVE  Keeps(d, d2, p)
  <1>1. p # path
    BY PrefixOrder
  <1>2. CASE Upserted(d, path, node, d2)
    BY <1>1, <1>2 DEF Upserted, Keeps
  <1>3. CASE Replaced(d, path, node, d2)
    BY <1>1, <1>3 DEF Replaced, Keeps
  <1> QED
    BY <1>2, <1>3

\* The document stays one when a path is walked, and missing mappings are added
\* on the way.
LEMMA UpsertedDocument ==
    ASSUME NEW d, IsDocument(d), NEW path \in Paths, path # <<>>, Walkable(d, path),
           NEW node, IsNode(node),
           path \in DOMAIN d /\ d[path].kind # "scalar" => node.kind = d[path].kind,
           NEW d2, Upserted(d, path, node, d2)
    PROVE  IsDocument(d2)
  <1>1. /\ DOMAIN d \subseteq Paths /\ <<>> \in DOMAIN d
        /\ \A p \in DOMAIN d : IsNode(d[p])
        /\ \A p \in DOMAIN d : p # <<>> => Hangs(d, p)
    BY DocumentIs
  <1>2. /\ d2 = [p \in DOMAIN d2 |-> d2[p]] /\ DOMAIN d2 \subseteq Paths
        /\ \A p \in Paths : p \in DOMAIN d2 <=> p \in DOMAIN d \/ IsPrefix(p, path)
        /\ \A p \in DOMAIN d2 :
              d2[p] = IF p = path THEN node ELSE IF p \in DOMAIN d THEN d[p] ELSE Map
    BY DEF Upserted
  <1>3. DOMAIN d \subseteq DOMAIN d2 /\ \A p \in DOMAIN d : p # path => d2[p] = d[p]
    BY <1>1, <1>2
  <1>4. \A p \in DOMAIN d2 : IsNode(d2[p])
    BY <1>1, <1>2, NodesAre
  <1>5. ASSUME NEW p \in DOMAIN d2, p # <<>>, p \in DOMAIN d PROVE Hangs(d2, p)
    <2>1. /\ Front(p) \in DOMAIN d /\ d[Front(p)].kind # "scalar"
          /\ d[Front(p)].kind = "list" => Placed(d, p)
      BY <1>1, <1>5 DEF Hangs
    <2>2. Front(p) \in DOMAIN d2 /\ d2[Front(p)].kind = d[Front(p)].kind
      BY <1>2, <1>3, <2>1
    <2>3. Placed(d, p) => Placed(d2, p)
      BY <1>3 DEF Placed
    <2> QED
      BY <2>1, <2>2, <2>3 DEF Hangs
  <1>6. ASSUME NEW p \in DOMAIN d2, p # <<>>, p \notin DOMAIN d PROVE Hangs(d2, p)
    <2>1. p \in Paths /\ IsPrefix(p, path)
      BY <1>2, <1>6
    <2>2. Front(p) \in Paths /\ IsPrefix(Front(p), p) /\ ~IsPrefix(p, Front(p))
      BY <1>6, <2>1, FrontIs
    <2>3. IsPrefix(Front(p), path) /\ Front(p) # path
      BY <2>1, <2>2, PrefixOrder
    <2>4. Front(p) \in DOMAIN d2
      BY <1>2, <2>2, <2>3
    <2>5. d2[Front(p)].kind = "map"
      <3>1. CASE Front(p) \in DOMAIN d
        <4>1. d[Front(p)].kind = "map"
          BY <1>6, <2>1, <3>1 DEF Walkable
        <4> QED
          BY <1>3, <2>3, <3>1, <4>1
      <3>2. CASE Front(p) \notin DOMAIN d
        BY <1>2, <2>3, <2>4, <3>2, NodesAre
      <3> QED
        BY <3>1, <3>2
    <2> QED
      BY <2>4, <2>5 DEF Hangs
  <1> QED
    BY <1>1, <1>2, <1>3, <1>4, <1>5, <1>6, DocumentIs

\* It stays one when a node becomes a scalar and what hangs from it goes.
LEMMA ReplacedDocument ==
    ASSUME NEW d, IsDocument(d), NEW path \in DOMAIN d, path # <<>>,
           NEW node, IsNode(node), NEW d2, Replaced(d, path, node, d2)
    PROVE  IsDocument(d2)
  <1>1. /\ DOMAIN d \subseteq Paths /\ <<>> \in DOMAIN d
        /\ \A p \in DOMAIN d : IsNode(d[p])
        /\ \A p \in DOMAIN d : p # <<>> => Hangs(d, p)
    BY DocumentIs
  <1>2. /\ d2 = [p \in DOMAIN d2 |-> d2[p]] /\ DOMAIN d2 \subseteq Paths
        /\ \A p \in Paths :
              p \in DOMAIN d2 <=> p \in DOMAIN d /\ (IsPrefix(path, p) => p = path)
        /\ \A p \in DOMAIN d2 : d2[p] = IF p = path THEN node ELSE d[p]
    BY DEF Replaced
  <1>3. \A p \in DOMAIN d2 : IsNode(d2[p])
    BY <1>1, <1>2
  <1>4. <<>> \in DOMAIN d2
    <2>1. ~IsPrefix(path, <<>>)
      BY <1>1, PrefixOrder
    <2> QED
      BY <1>1, <1>2, <2>1
  <1>5. ASSUME NEW p \in DOMAIN d2, p # <<>> PROVE Hangs(d2, p)
    <2>1. p \in Paths /\ p \in DOMAIN d /\ (IsPrefix(path, p) => p = path)
      BY <1>2
    <2>2. /\ Front(p) \in Paths /\ IsPrefix(Front(p), p) /\ ~IsPrefix(p, Front(p))
      BY <1>5, <2>1, FrontIs
    <2>3. ~IsPrefix(path, Front(p)) /\ Front(p) # path
      BY <1>1, <2>1, <2>2, PrefixOrder
    <2>4. /\ Front(p) \in DOMAIN d /\ d[Front(p)].kind # "scalar"
          /\ d[Front(p)].kind = "list" => Placed(d, p)
      BY <1>1, <1>5, <2>1 DEF Hangs
    <2>5. Front(p) \in DOMAIN d2 /\ d2[Front(p)] = d[Front(p)]
      BY <1>2, <2>2, <2>3, <2>4
    <2>6. Placed(d, p) => Placed(d2, p)
      <3>1. ASSUME NEW j \in 0..MaxIndex, Append(Front(p), Index[j]) \in DOMAIN d
            PROVE  Append(Front(p), Index[j]) \in DOMAIN d2
        <4> DEFINE s == Append(Front(p), Index[j])
        <4>1. Index[j] \in Segments
          BY IndicesDiffer
        <4>2. s \in Paths /\ s # <<>> /\ Front(s) = Front(p)
          BY <2>2, <4>1, ChildIs
        <4> HIDE DEF s
        <4>3. IsPrefix(path, s) => path = s
          BY <1>1, <2>3, <4>2, FrontIs
        <4>4. s \in DOMAIN d
          BY <3>1 DEF s
        <4>5. s \in DOMAIN d2
          BY <1>2, <4>2, <4>3, <4>4
        <4> QED
          BY <4>5 DEF s
      <3>2. \A i \in 0..MaxIndex : \A j \in 0..(i - 1) : j \in 0..MaxIndex
        BY IndicesDiffer
      <3> QED
        BY <3>1, <3>2 DEF Placed
    <2> QED
      BY <2>4, <2>5, <2>6 DEF Hangs
  <1> QED
    BY <1>2, <1>3, <1>4, <1>5, DocumentIs

\* What setByPath does: the scalar gets the value, nothing else changes but what
\* hangs from it and the mappings created on the way, and no change is reported
\* only if there is none.
LEMMA SetByPathEffect ==
    ASSUME NEW d, IsDocument(d), NEW path \in Paths, path # <<>>,
           NEW value, value \notin {None, Mistagged},
           SetByPath(d, path, value) # None
    PROVE  LET edit == SetByPath(d, path, value)
           IN  /\ IsDocument(edit.doc)
               /\ path \in DOMAIN edit.doc /\ edit.doc[path] = Result(d, path, value)
               /\ \A p \in Paths : ~IsPrefix(path, p) /\ (IsPrefix(p, path) => p \in DOMAIN d)
                                      => Keeps(d, edit.doc, p)
               /\ edit.changed <=> ~(path \in DOMAIN d /\ d[path] = Scalar(value))
               /\ ~edit.changed => edit.doc = d
  <1> DEFINE edit == SetByPath(d, path, value)
             d2 == edit.doc
             node == Result(d, path, value)
  <1>1. /\ DOMAIN d \subseteq Paths /\ <<>> \in DOMAIN d
        /\ d = [p \in DOMAIN d |-> d[p]]
        /\ \A p \in DOMAIN d : IsNode(d[p])
    BY DocumentIs
  <1>2. /\ Walkable(d, path)
        /\ \/ path \in DOMAIN d /\ d[Front(path)].kind = "list" /\ Replaced(d, path, node, d2)
           \/ /\ ~(path \in DOMAIN d /\ d[Front(path)].kind = "list")
              /\ Upserted(d, path, node, d2)
        /\ edit.changed <=> ~(path \in DOMAIN d /\ d[path] = Scalar(value))
    BY SetByPathIs
  <1>3. IsNode(node)
    BY <1>1, NodesAre DEF Result, Blocked, IsNode
  <1>4. path \in DOMAIN d /\ d[path].kind # "scalar" /\ d[Front(path)].kind # "list"
            => node.kind = d[path].kind
    BY NodesAre DEF Result, Blocked
  <1>5. \A p \in Paths : ~IsPrefix(path, p) /\ (IsPrefix(p, path) => p \in DOMAIN d)
            => Keeps(d, d2, p)
    <2> HIDE DEF d2, node
    <2> QED
      BY <1>1, <1>2, UpsertKeeps
  <1>6. IsPrefix(path, path)
    BY PrefixOrder
  <1>7. path \in DOMAIN d2 /\ d2[path] = node
    <2> HIDE DEF d2, node, edit
    <2> QED
      BY <1>1, <1>2, <1>6 DEF Upserted, Replaced
  <1>8. IsDocument(d2)
    <2> HIDE DEF d2, node, edit
    <2>1. CASE path \in DOMAIN d /\ Replaced(d, path, node, d2)
      BY <1>3, <2>1, ReplacedDocument
    <2>2. CASE ~(path \in DOMAIN d /\ d[Front(path)].kind = "list") /\ Upserted(d, path, node, d2)
      <3>1. path \in DOMAIN d /\ d[path].kind # "scalar" => node.kind = d[path].kind
        BY <1>4, <2>2
      <3> QED
        BY <1>2, <1>3, <2>2, <3>1, UpsertedDocument
    <2> QED
      BY <1>2, <2>1, <2>2
  <1>9. ASSUME path \in DOMAIN d, d[path] = Scalar(value) PROVE d2 = d
    <2>1. /\ DOMAIN d2 \subseteq Paths /\ d2 = [p \in DOMAIN d2 |-> d2[p]]
      BY <1>8, DocumentIs
    <2>2. ASSUME NEW p \in DOMAIN d PROVE /\ IsPrefix(path, p) => p = path
      BY <1>1, <1>9, <2>2, Ancestors, NodesAre
    <2>3. ASSUME NEW p \in Paths, IsPrefix(p, path) PROVE p \in DOMAIN d
      BY <1>9, <2>3, Ancestors
    <2>4. ASSUME NEW p \in Paths, p # path PROVE Keeps(d, d2, p)
      <3>1. CASE p \in DOMAIN d
        BY <1>5, <2>2, <2>4, <3>1
      <3>2. CASE p \notin DOMAIN d
        <4>1. ~IsPrefix(path, p) \/ p \notin DOMAIN d2
          <5> HIDE DEF d2, node, edit
          <5> QED
            BY <1>1, <1>2, <1>6, <2>3, <3>2 DEF Upserted, Replaced
        <4>2. ~IsPrefix(p, path)
          BY <2>3, <3>2
        <4> HIDE DEF d2, node, edit
        <4> QED
          BY <1>5, <3>2, <4>1, <4>2 DEF Keeps
      <3> QED
        BY <3>1, <3>2
    <2>5. node = d[path]
      BY <1>9, NodesAre DEF Result, Blocked
    <2> HIDE DEF d2, node, edit
    <2>6. \A p \in Paths : p \in DOMAIN d <=> p \in DOMAIN d2
      BY <1>7, <1>9, <2>4 DEF Keeps
    <2>7. \A p \in DOMAIN d : d2[p] = d[p]
      BY <1>1, <1>7, <2>4, <2>5 DEF Keeps
    <2> QED
      BY <1>1, <2>1, <2>6, <2>7, SameNodes
  <1> HIDE DEF d2, node
  <1> QED
    BY <1>2, <1>5, <1>7, <1>8, <1>9 DEF d2, node

-----------------------------------------------------------------------------
(* Helm values.                                                            *)

\* A path that no key leads to or through, nor is created for one.
Outside(d, path, p) == path # <<>> => ~IsPrefix(path, p) /\ (IsPrefix(p, path) => p \in DOMAIN d)

\* What two writes keep, both keep together.
LEMMA KeepsTrans ==
    ASSUME NEW d, NEW d1, NEW d2, NEW p, Keeps(d, d1, p), Keeps(d1, d2, p)
    PROVE  Keeps(d, d2, p)
  BY DEF Keeps

\* A key of which neither leads to the other's place finds the same there before
\* and after the other is set.
LEMMA ApartResult ==
    ASSUME NEW d, IsDocument(d), NEW d1, NEW path \in Paths, NEW key \in Paths,
           path # <<>>, key # <<>>, Apart(path, key),
           \A p \in Paths : ~IsPrefix(path, p) /\ (IsPrefix(p, path) => p \in DOMAIN d)
                               => Keeps(d, d1, p),
           NEW value
    PROVE  Result(d1, key, value) = Result(d, key, value) /\ Keeps(d, d1, key)
  <1>1. ~IsPrefix(path, key) /\ ~IsPrefix(key, path)
    BY DEF Apart
  <1>2. Keeps(d, d1, key)
    BY <1>1
  <1>3. CASE key \notin DOMAIN d
    BY <1>2, <1>3 DEF Keeps, Result, Blocked
  <1>4. CASE key \in DOMAIN d
    <2>1. /\ Front(key) \in Paths /\ IsPrefix(Front(key), key)
      BY FrontIs
    <2>2. ~IsPrefix(path, Front(key))
      BY <1>1, <2>1, PrefixOrder
    <2>3. Front(key) \in DOMAIN d
      BY <1>4, DocumentIs DEF Hangs
    <2>4. Keeps(d, d1, Front(key))
      BY <2>1, <2>2, <2>3
    <2> QED
      BY <1>2, <1>4, <2>3, <2>4 DEF Keeps, Result, Blocked
  <1> QED
    BY <1>3, <1>4

\* The keys carry the values.
HelmCarries(d, key, repo, tag) ==
    /\ key.tag \in DOMAIN d /\ d[key.tag] = Scalar(tag)
    /\ key.name # <<>> => key.name \in DOMAIN d /\ d[key.name] = Scalar(repo)

\* What EditHelmValues does, when it does not fail.
HelmEdited(d, key, repo, tag, d2) ==
    /\ \A p \in Paths : Outside(d, key.name, p) /\ Outside(d, key.tag, p) => Keeps(d, d2, p)
    /\ Apart(key.name, key.tag) =>
          /\ key.tag \in DOMAIN d2
          /\ d2[key.tag] = Result(d, key.tag, tag)
          /\ key.name # <<>> => /\ key.name \in DOMAIN d2
                                /\ d2[key.name] = Result(d, key.name, repo)

\* EditHelmValues reports a change exactly when the keys did not carry the values.
LEMMA HelmEffect ==
    ASSUME NEW d, IsDocument(d), NEW key \in [name : Paths, tag : Paths],
           NEW repo, NEW tag, repo \notin {None, Mistagged}, tag \notin {None, Mistagged},
           EditHelmValues(d, key, repo, tag) # None
    PROVE  LET edit == EditHelmValues(d, key, repo, tag)
           IN  /\ key.tag # <<>> /\ IsDocument(edit.doc)
               /\ HelmEdited(d, key, repo, tag, edit.doc)
               /\ ~edit.changed => edit.doc = d
               /\ ~edit.changed <=> HelmCarries(d, key, repo, tag)
  <1> DEFINE named == IF key.name = <<>> THEN Edited(d, FALSE) ELSE SetByPath(d, key.name, repo)
             d1 == named.doc
             tagged == SetByPath(d1, key.tag, tag)
             edit == EditHelmValues(d, key, repo, tag)
  <1>1. /\ key.tag # <<>> /\ named # None /\ tagged # None
        /\ edit.doc = tagged.doc
        /\ edit.changed <=> named.changed \/ tagged.changed
    BY DEF EditHelmValues, Edited
  <1>2. key.name \in Paths /\ key.tag \in Paths
    OBVIOUS
  <1>3. /\ IsDocument(d1)
        /\ \A p \in Paths : Outside(d, key.name, p) => Keeps(d, d1, p)
        /\ key.name # <<>> => /\ key.name \in DOMAIN d1
                              /\ d1[key.name] = Result(d, key.name, repo)
        /\ named.changed <=>
              key.name # <<>> /\ ~(key.name \in DOMAIN d /\ d[key.name] = Scalar(repo))
        /\ ~named.changed => d1 = d
    <2>1. CASE key.name = <<>>
      <3>1. d1 = d /\ ~named.changed
        BY <2>1 DEF Edited
      <3> HIDE DEF d1, named
      <3> QED
        BY <2>1, <3>1 DEF Keeps
    <2>2. CASE key.name # <<>>
      <3>1. named = SetByPath(d, key.name, repo)
        BY <2>2
      <3> HIDE DEF named
      <3> QED
        BY <1>1, <1>2, <2>2, <3>1, SetByPathEffect DEF Outside
    <2> QED
      BY <2>1, <2>2
  <1> HIDE DEF named, d1
  <1>4. /\ IsDocument(tagged.doc)
        /\ key.tag \in DOMAIN tagged.doc /\ tagged.doc[key.tag] = Result(d1, key.tag, tag)
        /\ \A p \in Paths : Outside(d1, key.tag, p) => Keeps(d1, tagged.doc, p)
        /\ tagged.changed <=> ~(key.tag \in DOMAIN d1 /\ d1[key.tag] = Scalar(tag))
        /\ ~tagged.changed => tagged.doc = d1
    BY <1>1, <1>2, <1>3, SetByPathEffect DEF Outside
  <1> HIDE DEF tagged, edit
  <1>5. ASSUME NEW p \in Paths, Outside(d, key.name, p), Outside(d, key.tag, p)
        PROVE  Keeps(d, edit.doc, p)
    <2>1. Keeps(d, d1, p)
      BY <1>3, <1>5
    <2>2. Outside(d1, key.tag, p)
      BY <1>5, <2>1 DEF Outside, Keeps
    <2> QED
      BY <1>1, <1>4, <2>1, <2>2, KeepsTrans
  <1>6. ASSUME Apart(key.name, key.tag)
        PROVE  /\ edit.doc[key.tag] = Result(d, key.tag, tag)
               /\ key.name # <<>> => /\ key.name \in DOMAIN edit.doc
                                     /\ edit.doc[key.name] = Result(d, key.name, repo)
    <2>1. CASE key.name = <<>>
      BY <1>1, <1>3, <1>4, <2>1
    <2>2. CASE key.name # <<>>
      <3>1. Result(d1, key.tag, tag) = Result(d, key.tag, tag)
        BY <1>1, <1>2, <1>3, <1>6, <2>2, ApartResult DEF Outside
      <3>2. Outside(d1, key.tag, key.name)
        BY <1>1, <1>6, <2>2 DEF Outside, Apart
      <3>3. Keeps(d1, edit.doc, key.name)
        BY <1>1, <1>2, <1>4, <3>2
      <3> QED
        BY <1>1, <1>3, <1>4, <2>2, <3>1, <3>3 DEF Keeps
    <2> QED
      BY <2>1, <2>2
  <1>7. ~edit.changed => edit.doc = d
    BY <1>1, <1>3, <1>4
  <1>8. HelmEdited(d, key, repo, tag, edit.doc)
    BY <1>1, <1>4, <1>5, <1>6 DEF HelmEdited
  <1>9. ~edit.changed <=> HelmCarries(d, key, repo, tag)
    BY <1>1, <1>3, <1>4 DEF HelmCarries
  <1> QED
    BY <1>1, <1>4, <1>7, <1>8, <1>9 DEF edit

-----------------------------------------------------------------------------
(* Manifests.                                                              *)

ManifestEdited(d, repo, tag, c, d2) ==
    /\ DOMAIN d2 = DOMAIN d
    /\ \A p \in DOMAIN d :
          d2[p] = IF p \in ImagesOf(d, c) /\ RepoOf(d[p].value) = repo
                  THEN Scalar(Reference(repo, tag, FALSE)) ELSE d[p]
    /\ \A e : ImagesOf(d2, e) = ImagesOf(d, e)

\* A manifest's nodes stay where they are, only images of the container change.
LEMMA ManifestEffect ==
    ASSUME NEW d, IsDocument(d), NEW repo, NEW tag, NEW c
    PROVE  /\ IsDocument(EditManifest(d, repo, tag, c).doc)
           /\ ManifestEdited(d, repo, tag, c, EditManifest(d, repo, tag, c).doc)
           /\ EditManifest(d, repo, tag, c).changed
                  <=> EditManifest(d, repo, tag, c).doc # d
  <1> DEFINE d2 == [p \in DOMAIN d |->
                      IF p \in ImagesOf(d, c) /\ RepoOf(d[p].value) = repo
                      THEN Scalar(Reference(repo, tag, FALSE)) ELSE d[p]]
             edit == EditManifest(d, repo, tag, c)
  <1>1. edit.doc = d2 /\ (edit.changed <=> d2 # d)
    BY DEF EditManifest, Edited
  <1>2. /\ DOMAIN d2 = DOMAIN d
        /\ \A p \in DOMAIN d : d2[p] = IF p \in ImagesOf(d, c) /\ RepoOf(d[p].value) = repo
                                       THEN Scalar(Reference(repo, tag, FALSE)) ELSE d[p]
        /\ d2 = [p \in DOMAIN d2 |-> d2[p]]
    OBVIOUS
  <1> HIDE DEF d2
  <1>3. /\ DOMAIN d \subseteq Paths /\ <<>> \in DOMAIN d
        /\ \A p \in DOMAIN d : IsNode(d[p])
        /\ \A p \in DOMAIN d : p # <<>> => Hangs(d, p)
    BY DocumentIs
  <1>4. \A p \in DOMAIN d : d2[p].kind = d[p].kind /\ IsNode(d2[p])
    <2> SUFFICES ASSUME NEW p \in DOMAIN d PROVE d2[p].kind = d[p].kind /\ IsNode(d2[p])
      OBVIOUS
    <2>1. CASE p \in ImagesOf(d, c) /\ RepoOf(d[p].value) = repo
      <3>1. d2[p] = Scalar(Reference(repo, tag, FALSE)) /\ d[p].kind = "scalar"
        BY <1>2, <2>1 DEF ImagesOf
      <3>2. /\ Scalar(Reference(repo, tag, FALSE)).kind = "scalar"
            /\ IsNode(Scalar(Reference(repo, tag, FALSE)))
        BY NodesAre
      <3> QED
        BY <3>1, <3>2
    <2>2. CASE ~(p \in ImagesOf(d, c) /\ RepoOf(d[p].value) = repo)
      <3>1. d2[p] = d[p]
        BY <1>2, <2>2
      <3> QED
        BY <1>3, <3>1
    <2> QED
      BY <2>1, <2>2
  <1>5. \A p \in DOMAIN d : p # <<>> => Hangs(d2, p)
    BY <1>2, <1>3, <1>4 DEF Hangs, Placed
  <1>6. IsDocument(d2)
    BY <1>2, <1>3, <1>4, <1>5, DocumentIs
  <1>7. ASSUME NEW e PROVE ImagesOf(d2, e) = ImagesOf(d, e)
    <2>1. ASSUME NEW p \in DOMAIN d, p # <<>>
          PROVE  ValueAt(d2, Append(Front(p), "name")) = ValueAt(d, Append(Front(p), "name"))
      <3> DEFINE q == Append(Front(p), "name")
      <3>1. Last(q) = "name"
        BY <1>3, <2>1, FrontIs, ChildIs, KeysAreSegments
      <3> HIDE DEF q
      <3>2. q \in DOMAIN d => d2[q] = d[q]
        BY <1>2, <3>1 DEF ImagesOf
      <3>3. ValueAt(d2, q) = ValueAt(d, q)
        BY <1>2, <3>2 DEF ValueAt, Has
      <3> QED
        BY <3>3 DEF q
    <2>2. \A p \in DOMAIN d : p # <<>> => Front(p) \in DOMAIN d
      BY <1>3 DEF Hangs
    <2> QED
      BY <1>2, <1>4, <2>1, <2>2 DEF ImagesOf
  <1>8. ManifestEdited(d, repo, tag, c, d2)
    BY <1>2, <1>7 DEF ManifestEdited
  <1> HIDE DEF edit
  <1> QED
    BY <1>1, <1>6, <1>8 DEF edit

-----------------------------------------------------------------------------
(* Kustomizations.                                                         *)

\* The paths of the images list, of its items and of their keys all differ.
LEMMA ItemsAre ==
    /\ Images \in Paths /\ Images # <<>> /\ Front(Images) = <<>> /\ <<>> \in Paths
    /\ \A i \in 0..MaxIndex :
          /\ Item(i) \in Paths /\ Item(i) # <<>> /\ Item(i) # Images
          /\ Front(Item(i)) = Images /\ Last(Item(i)) = Index[i]
    /\ \A i, j \in 0..MaxIndex : Item(i) = Item(j) => i = j
    /\ \A i \in 0..MaxIndex : \A e \in {"name", "newTag"} :
          /\ Append(Item(i), e) \in Paths /\ Append(Item(i), e) # <<>>
          /\ Front(Append(Item(i), e)) = Item(i) /\ Last(Append(Item(i), e)) = e
          /\ Append(Item(i), e) # Images /\ \A j \in 0..MaxIndex : Append(Item(i), e) # Item(j)
  <1>1. <<>> \in Paths /\ Images = Append(<<>>, "images")
    BY DEF Paths, Images
  <1>2. Images \in Paths /\ Images # <<>> /\ Front(Images) = <<>>
    BY <1>1, ChildIs, KeysAreSegments
  <1>3. ASSUME NEW i \in 0..MaxIndex
        PROVE  /\ Item(i) \in Paths /\ Item(i) # <<>> /\ Item(i) # Images
               /\ Front(Item(i)) = Images /\ Last(Item(i)) = Index[i]
    <2>1. Index[i] \in Segments
      BY IndicesDiffer
    <2> QED
      BY <1>2, <2>1, ChildIs DEF Item
  <1>4. ASSUME NEW i \in 0..MaxIndex, NEW j \in 0..MaxIndex, Item(i) = Item(j) PROVE i = j
    <2>1. Index[i] = Index[j]
      BY <1>3, <1>4
    <2> QED
      BY <2>1, IndicesDiffer DEF IsInjective
  <1>5. ASSUME NEW i \in 0..MaxIndex, NEW e \in {"name", "newTag"}
        PROVE  /\ Append(Item(i), e) \in Paths /\ Append(Item(i), e) # <<>>
               /\ Front(Append(Item(i), e)) = Item(i) /\ Last(Append(Item(i), e)) = e
               /\ Append(Item(i), e) # Images
               /\ \A j \in 0..MaxIndex : Append(Item(i), e) # Item(j)
    <2>1. e \in Segments /\ Item(i) \in Paths
      BY <1>3, KeysAreSegments
    <2>2. /\ Append(Item(i), e) \in Paths /\ Append(Item(i), e) # <<>>
          /\ Front(Append(Item(i), e)) = Item(i) /\ Last(Append(Item(i), e)) = e
      BY <2>1, ChildIs
    <2> QED
      BY <1>2, <1>3, <2>2
  <1> QED
    BY <1>1, <1>2, <1>3, <1>4, <1>5

\* The items of a list are numbered from zero to their number.
LEMMA ItemsInOrder ==
    ASSUME NEW d, IsDocument(d), Images \in DOMAIN d => d[Images].kind = "list"
    PROVE  \E n \in Nat : Items(d) = 0..(n - 1) /\ Cardinality(Items(d)) = n
  <1>1. MaxIndex \in Nat /\ Items(d) \subseteq 0..MaxIndex
    BY IndicesDiffer DEF Items
  <1>2. PICK n \in Nat \ Items(d) : \A m \in Nat \ Items(d) : n <= m
    <2>1. MaxIndex + 1 \in Nat \ Items(d)
      BY <1>1
    <2> QED
      BY <2>1, LeastNatural
  <1>3. ASSUME NEW i \in Items(d) PROVE i < n
    <2> SUFFICES ASSUME n <= i PROVE FALSE
      BY <1>1
    <2>1. i \in 0..MaxIndex /\ Item(i) \in DOMAIN d /\ n < i /\ n \in 0..MaxIndex
      BY <1>1, <1>2 DEF Items, Has
    <2>2. Hangs(d, Item(i)) /\ Front(Item(i)) = Images /\ Last(Item(i)) = Index[i]
      BY <2>1, DocumentIs, ItemsAre
    <2>3. PICK k \in 0..MaxIndex :
            Index[i] = Index[k] /\ \A j \in 0..(k - 1) : Append(Images, Index[j]) \in DOMAIN d
      BY <2>2 DEF Hangs, Placed
    <2>4. k = i
      BY <2>1, <2>3, IndicesDiffer DEF IsInjective
    <2>5. Item(n) \in DOMAIN d
      BY <2>1, <2>3, <2>4 DEF Item
    <2> QED
      BY <1>2, <2>1, <2>5 DEF Items, Has
  <1>4. Items(d) = 0..(n - 1)
    <2>1. \A i \in 0..(n - 1) : i \in Items(d)
      BY <1>2
    <2>2. \A i \in Items(d) : i \in 0..(n - 1)
      BY <1>1, <1>3
    <2> QED
      BY <2>1, <2>2
  <1>5. Cardinality(0..(n - 1)) = n
    <2>1. 0 \in Int /\ n - 1 \in Int
      OBVIOUS
    <2>2. Cardinality(0..(n - 1)) = IF 0 > n - 1 THEN 0 ELSE n - 1 - 0 + 1
      BY <2>1, FS_Interval
    <2> QED
      BY <2>2
  <1> QED
    BY <1>4, <1>5

\* The entry is the first item that names the repository.
LEMMA EntryIs ==
    ASSUME NEW d, NEW repo, Named(d, repo) # {}
    PROVE  Entry(d, repo) \in Named(d, repo) /\ Named(d, repo) \subseteq 0..MaxIndex
  <1>1. Named(d, repo) \in SUBSET Nat /\ Named(d, repo) \subseteq 0..MaxIndex
    BY DEF Named, Items
  <1>2. \E i \in Named(d, repo) : \A j \in Named(d, repo) : i <= j
    BY <1>1, LeastNatural
  <1> QED
    BY <1>1, <1>2 DEF Entry

\* A node may be put where it hangs from a mapping, or at the end of a list.
LEMMA PutDocument ==
    ASSUME NEW d, IsDocument(d), NEW path \in Paths, path # <<>>, Hangs(d, path),
           NEW node, IsNode(node),
           path \in DOMAIN d /\ d[path].kind # "scalar" => node.kind = d[path].kind
    PROVE  IsDocument(Put(d, path, node))
  <1> DEFINE d2 == Put(d, path, node)
  <1>1. /\ DOMAIN d \subseteq Paths /\ <<>> \in DOMAIN d
        /\ \A p \in DOMAIN d : IsNode(d[p])
        /\ \A p \in DOMAIN d : p # <<>> => Hangs(d, p)
    BY DocumentIs
  <1>2. /\ DOMAIN d2 = DOMAIN d \cup {path} /\ d2[path] = node
        /\ \A p \in DOMAIN d : p # path => d2[p] = d[p]
        /\ d2 = [p \in DOMAIN d2 |-> d2[p]]
    BY DEF Put
  <1> HIDE DEF d2
  <1>3. ASSUME NEW p \in DOMAIN d2, p # <<>> PROVE Hangs(d2, p)
    <2>1. Hangs(d, p)
      BY <1>1, <1>2, <1>3
    <2>2. d2[Front(p)].kind = d[Front(p)].kind /\ Front(p) \in DOMAIN d2
      BY <1>2, <2>1 DEF Hangs
    <2>3. Placed(d, p) => Placed(d2, p)
      BY <1>2 DEF Placed
    <2> QED
      BY <2>1, <2>2, <2>3 DEF Hangs
  <1>4. IsDocument(d2)
    BY <1>1, <1>2, <1>3, DocumentIs
  <1> QED
    BY <1>4 DEF d2

\* An entry that is there gets the tag.
Tagged(d, repo, tag, d2) ==
    LET path == Append(Item(Entry(d, repo)), "newTag")
    IN  /\ DOMAIN d2 = DOMAIN d \cup {path}
        /\ \A p \in DOMAIN d : p # path => d2[p] = d[p]
        /\ d2[path] = IF path \in DOMAIN d /\ d[path].kind # "scalar"
                      THEN Node(d[path].kind, Mistagged) ELSE Scalar(tag)
        /\ Items(d2) = Items(d)
        /\ \A r : Named(d2, r) = Named(d, r)

\* The editor tags the entry, and reports a change when the tag was another.
LEMMA EntryEffect ==
    ASSUME NEW d, IsDocument(d), d[<<>>].kind = "map", NEW repo, Named(d, repo) # {},
           NEW tag, tag \notin {None, Mistagged}
    PROVE  LET edit == EditKustomization(d, repo, tag)
               path == Append(Item(Entry(d, repo)), "newTag")
           IN  /\ IsDocument(edit.doc) /\ Tagged(d, repo, tag, edit.doc)
               /\ edit.changed <=> ~(path \in DOMAIN d /\ d[path] = Scalar(tag))
  <1> DEFINE i == Entry(d, repo)
             path == Append(Item(i), "newTag")
             node == IF Has(d, path) /\ d[path].kind # "scalar"
                     THEN Node(d[path].kind, Mistagged) ELSE Scalar(tag)
             d2 == Put(d, path, node)
             edit == EditKustomization(d, repo, tag)
  <1>1. edit = Edited(d2, ValueAt(d, path) # tag)
    BY DEF EditKustomization, UpsertScalar
  <1>2. edit.doc = d2 /\ (edit.changed <=> ValueAt(d, path) # tag)
    <2>1. /\ UpsertScalar(d, path, tag).doc = d2
          /\ UpsertScalar(d, path, tag).changed <=> ValueAt(d, path) # tag
      BY DEF UpsertScalar, Edited
    <2>2. edit = UpsertScalar(d, path, tag)
      BY DEF EditKustomization
    <2> HIDE DEF path, d2, edit
    <2> QED
      BY <2>1, <2>2
  <1>3. /\ i \in 0..MaxIndex /\ Item(i) \in DOMAIN d /\ d[Item(i)].kind = "map"
    BY EntryIs DEF Named, Items, Has
  <1> HIDE DEF i
  <1>4. /\ path \in Paths /\ path # <<>> /\ Front(path) = Item(i) /\ Last(path) = "newTag"
        /\ \A j \in 0..MaxIndex : path # Item(j)
    BY <1>3, ItemsAre
  <1> HIDE DEF path
  <1>5. /\ DOMAIN d2 = DOMAIN d \cup {path} /\ d2[path] = node
        /\ \A p \in DOMAIN d : p # path => d2[p] = d[p]
    BY DEF Put
  <1>6. IsNode(node) /\ (path \in DOMAIN d /\ d[path].kind # "scalar" => node.kind = d[path].kind)
    <2>1. path \in DOMAIN d => IsNode(d[path])
      BY DocumentIs
    <2> QED
      BY <2>1, NodesAre DEF Has, IsNode
  <1>7. node = IF path \in DOMAIN d /\ d[path].kind # "scalar"
               THEN Node(d[path].kind, Mistagged) ELSE Scalar(tag)
    BY DEF Has
  <1> HIDE DEF node
  <1>8. IsDocument(d2)
    <2>1. Hangs(d, path)
      BY <1>3, <1>4 DEF Hangs
    <2> QED
      BY <1>4, <1>6, <2>1, PutDocument
  <1> HIDE DEF d2
  <1>9. Items(d2) = Items(d)
    BY <1>4, <1>5 DEF Items, Has
  <1>10. ASSUME NEW r PROVE Named(d2, r) = Named(d, r)
    <2>1. ASSUME NEW j \in Items(d)
          PROVE  /\ d2[Item(j)] = d[Item(j)]
                 /\ ValueAt(d2, Append(Item(j), "name")) = ValueAt(d, Append(Item(j), "name"))
      <3>1. j \in 0..MaxIndex /\ Item(j) \in DOMAIN d /\ Item(j) # path
        BY <1>4 DEF Items, Has
      <3>2. Append(Item(j), "name") # path
        BY <1>4, <3>1, ItemsAre
      <3> QED
        BY <1>5, <3>1, <3>2 DEF ValueAt, Has
    <2> QED
      BY <1>9, <2>1 DEF Named
  <1>11. ValueAt(d, path) # tag <=> ~(path \in DOMAIN d /\ d[path] = Scalar(tag))
    BY ValueIs
  <1>12. Tagged(d, repo, tag, d2)
    BY <1>5, <1>7, <1>9, <1>10 DEF Tagged, path, i
  <1> HIDE DEF edit
  <1> QED
    BY <1>2, <1>8, <1>11, <1>12 DEF path, i, edit

\* The nodes of an entry that is added.
NewNodes(n) == {Images, Item(n), Append(Item(n), "name"), Append(Item(n), "newTag")}

\* An entry that is missing is added behind the others.
Appended(d, repo, tag, n, d2) ==
    /\ DOMAIN d2 = DOMAIN d \cup NewNodes(n)
    /\ \A p \in DOMAIN d : d2[p] = d[p]
    /\ Item(n) \notin DOMAIN d
    /\ d2[Images].kind = "list"
    /\ d2[Append(Item(n), "newTag")] = Scalar(tag)
    /\ Items(d2) = Items(d) \cup {n}
    /\ Named(d2, repo) = {n}
    /\ \A r : r # repo => Named(d2, r) = Named(d, r)

\* The editor appends the entry, and reports a change.
LEMMA AppendEffect ==
    ASSUME NEW d, IsDocument(d), d[<<>>].kind = "map", NEW repo, NEW tag,
           Named(d, repo) = {}, Cardinality(Items(d)) <= MaxIndex,
           Images \in DOMAIN d => d[Images].kind = "list"
    PROVE  LET edit == EditKustomization(d, repo, tag)
               n == Cardinality(Items(d))
           IN  /\ n \in 0..MaxIndex /\ IsDocument(edit.doc)
               /\ Appended(d, repo, tag, n, edit.doc)
               /\ edit.changed
  <1> DEFINE n == Cardinality(Items(d))
             item == Item(n)
             name == Append(item, "name")
             newTag == Append(item, "newTag")
             d1 == IF Has(d, Images) THEN d ELSE Put(d, Images, List)
             dI == Put(d1, item, Map)
             dN == Put(dI, name, Scalar(repo))
             d2 == Put(dN, newTag, Scalar(tag))
             edit == EditKustomization(d, repo, tag)
  <1>1. edit = Edited(d2, TRUE)
    BY DEF EditKustomization, WithEntry, Has
  <1>2. edit.doc = d2 /\ edit.changed
    BY <1>1 DEF Edited
  <1>3. n \in 0..MaxIndex /\ Items(d) = 0..(n - 1)
    BY ItemsInOrder
  <1>4. /\ Images \in Paths /\ Images # <<>> /\ Front(Images) = <<>>
        /\ item \in Paths /\ item # <<>> /\ Front(item) = Images /\ Last(item) = Index[n]
        /\ item # Images /\ \A i \in 0..MaxIndex : Item(i) = item => i = n
        /\ name \in Paths /\ name # <<>> /\ Front(name) = item /\ Last(name) = "name"
        /\ newTag \in Paths /\ newTag # <<>> /\ Front(newTag) = item /\ Last(newTag) = "newTag"
        /\ name # Images /\ newTag # Images
        /\ \A i \in 0..MaxIndex : Item(i) # name /\ Item(i) # newTag
    BY <1>3, ItemsAre
  <1>5. item \notin DOMAIN d
    <2> HIDE DEF n
    <2>1. n \notin Items(d)
      BY <1>3
    <2> QED
      BY <1>3, <2>1 DEF Items, Has
  <1> HIDE DEF n, item, name, newTag
  <1>6. name # newTag /\ item # name /\ item # newTag
    BY <1>3, <1>4 DEF item
  <1>7. name \notin DOMAIN d /\ newTag \notin DOMAIN d
    BY <1>4, <1>5, DocumentIs DEF Hangs
  <1>8. /\ IsDocument(d1) /\ DOMAIN d1 = DOMAIN d \cup {Images} /\ d1[Images].kind = "list"
        /\ \A p \in DOMAIN d : d1[p] = d[p]
    <2>1. CASE Images \in DOMAIN d
      BY <2>1 DEF Has
    <2>2. CASE Images \notin DOMAIN d
      <3>1. d1 = Put(d, Images, List)
        BY <2>2 DEF Has
      <3>2. Hangs(d, Images)
        BY <1>4, DocumentIs DEF Hangs
      <3> HIDE DEF d1
      <3>3. IsDocument(d1)
        BY <1>4, <2>2, <3>1, <3>2, NodesAre, PutDocument
      <3> QED
        BY <2>2, <3>1, <3>3, NodesAre DEF Put
    <2> QED
      BY <2>1, <2>2
  <1> HIDE DEF d1
  <1>9. /\ IsDocument(dI) /\ DOMAIN dI = DOMAIN d \cup {Images, item} /\ dI[item] = Map
        /\ dI[Images].kind = "list"
        /\ \A p \in DOMAIN d : dI[p] = d[p]
    <2>1. ASSUME NEW j \in 0..(n - 1) PROVE Append(Images, Index[j]) \in DOMAIN d1
      BY <1>3, <1>8 DEF Items, Has, Item
    <2>2. Hangs(d1, item)
      BY <1>3, <1>4, <1>8, <2>1 DEF Hangs, Placed
    <2>3. item \notin DOMAIN d1
      BY <1>4, <1>5, <1>8
    <2>4. IsDocument(dI)
      BY <1>4, <1>8, <2>2, <2>3, NodesAre, PutDocument
    <2> QED
      BY <1>4, <1>5, <1>8, <2>4 DEF Put
  <1> HIDE DEF dI
  <1>10. /\ IsDocument(dN) /\ DOMAIN dN = DOMAIN d \cup {Images, item, name}
         /\ dN[item] = Map /\ dN[name] = Scalar(repo) /\ dN[Images].kind = "list"
         /\ \A p \in DOMAIN d : dN[p] = d[p]
    <2>1. Hangs(dI, name) /\ name \notin DOMAIN dI
      BY <1>4, <1>6, <1>7, <1>9, NodesAre DEF Hangs
    <2>2. IsDocument(dN)
      BY <1>4, <1>9, <2>1, NodesAre, PutDocument
    <2> QED
      BY <1>4, <1>6, <1>7, <1>9, <2>2 DEF Put
  <1> HIDE DEF dN
  <1>11. /\ IsDocument(d2) /\ DOMAIN d2 = DOMAIN d \cup {Images, item, name, newTag}
         /\ d2[item] = Map /\ d2[name] = Scalar(repo) /\ d2[newTag] = Scalar(tag)
         /\ d2[Images].kind = "list"
         /\ \A p \in DOMAIN d : d2[p] = d[p]
    <2>1. Hangs(dN, newTag) /\ newTag \notin DOMAIN dN
      BY <1>4, <1>6, <1>7, <1>10, NodesAre DEF Hangs
    <2>2. IsDocument(d2)
      BY <1>4, <1>10, <2>1, NodesAre, PutDocument
    <2> QED
      BY <1>4, <1>6, <1>7, <1>10, <2>2 DEF Put
  <1> HIDE DEF d2
  <1>12. Items(d2) = Items(d) \cup {n}
    <2>1. \A i \in 0..MaxIndex : Item(i) \in DOMAIN d2 <=> Item(i) \in DOMAIN d \/ i = n
      BY <1>4, <1>11, ItemsAre DEF item
    <2> QED
      BY <1>3, <2>1 DEF Items, Has
  <1>13. ASSUME NEW i \in Items(d)
         PROVE  /\ d2[Item(i)] = d[Item(i)]
                /\ ValueAt(d2, Append(Item(i), "name")) = ValueAt(d, Append(Item(i), "name"))
    <2>1. i \in 0..MaxIndex /\ Item(i) \in DOMAIN d /\ Item(i) # item
      BY <1>5 DEF Items, Has
    <2>2. Append(Item(i), "name") \notin {Images, item, name, newTag}
      BY <1>3, <1>4, <2>1, ItemsAre
    <2> QED
      BY <1>11, <2>1, <2>2 DEF ValueAt, Has
  <1>14. d2[Item(n)].kind = "map" /\ ValueAt(d2, Append(Item(n), "name")) = repo
    <2>1. d2[item].kind = "map" /\ ValueAt(d2, name) = repo
      BY <1>11, NodesAre DEF ValueAt, Has
    <2> QED
      BY <2>1 DEF item, name
  <1>15. n \notin Items(d)
    BY <1>3
  <1>16. Named(d2, repo) = {n}
    BY <1>12, <1>13, <1>14 DEF Named
  <1>17. ASSUME NEW r, r # repo PROVE Named(d2, r) = Named(d, r)
    BY <1>12, <1>13, <1>14, <1>17 DEF Named
  <1> HIDE DEF edit
  <1>18. DOMAIN d2 = DOMAIN d \cup NewNodes(n)
    BY <1>11 DEF NewNodes, item, name, newTag
  <1>19. Appended(d, repo, tag, n, d2)
    <2>1. Item(n) \notin DOMAIN d /\ d2[Append(Item(n), "newTag")] = Scalar(tag)
      BY <1>5, <1>11 DEF item, newTag
    <2> QED
      BY <1>11, <1>12, <1>16, <1>17, <1>18, <2>1 DEF Appended
  <1> QED
    BY <1>2, <1>3, <1>11, <1>19 DEF n, edit

-----------------------------------------------------------------------------
(* The file stays a document, and an edit keeps what is not its target.    *)

\* The kinds of targets.
EditKinds == {"helm", "helmTag", "kustomize", "manifest"}

\* The file is a document at all times.
DocumentInv ==
    /\ kind \in EditKinds
    /\ keys \in [Containers -> [name : Paths, tag : Paths]]
    /\ IsDocument(doc)

\* What an edit of a kustomization may be.
LEMMA KustomizationIs ==
    ASSUME NEW d, NEW repo, NEW tag, EditKustomization(d, repo, tag) # None
    PROVE  /\ d[<<>>].kind = "map"
           /\ \/ Named(d, repo) # {}
              \/ Named(d, repo) = {} /\ (Images \in DOMAIN d => d[Images].kind = "list")
              \/ /\ Images \in DOMAIN d /\ d[Images].kind # "list"
                 /\ EditKustomization(d, repo, tag).doc = d
  BY DEF EditKustomization, Has, Edited

\* An editor returns a document.
LEMMA EditDocument ==
    ASSUME DocumentInv, NEW c \in Containers, NEW repo \in Repos, NEW tag \in Tags,
           HasRoom(repo), Edit(c, repo, tag) # None
    PROVE  IsDocument(Edit(c, repo, tag).doc)
  <1> USE DEF DocumentInv
  <1>1. repo \notin {None, Mistagged} /\ tag \notin {None, Mistagged}
    BY NoValueTwice
  <1>2. CASE kind \in {"helm", "helmTag"}
    <2>1. Edit(c, repo, tag) = EditHelmValues(doc, keys[c], repo, tag)
      BY <1>2 DEF Edit
    <2>2. keys[c] \in [name : Paths, tag : Paths]
      OBVIOUS
    <2> QED
      BY <1>1, <2>1, <2>2, HelmEffect
  <1>3. CASE kind = "kustomize"
    <2>1. Edit(c, repo, tag) = EditKustomization(doc, repo, tag)
      BY <1>3 DEF Edit
    <2>2. Named(doc, repo) = {} => Cardinality(Items(doc)) <= MaxIndex
      BY <1>3 DEF HasRoom
    <2> QED
      BY <1>1, <2>1, <2>2, KustomizationIs, EntryEffect, AppendEffect
  <1>4. CASE kind = "manifest"
    <2>1. Edit(c, repo, tag) = EditManifest(doc, repo, tag, c)
      BY <1>4 DEF Edit
    <2>2. IsDocument(doc)
      OBVIOUS
    <2> QED
      BY <2>1, <2>2, ManifestEffect
  <1> QED
    BY <1>2, <1>3, <1>4 DEF EditKinds

\* The files to start from are documents.
LEMMA DocumentInit == Init => DocumentInv
  <1> SUFFICES ASSUME Init PROVE DocumentInv
    OBVIOUS
  <1>1. PICK case \in Cases : kind = case.kind /\ keys = case.keys /\ doc = case.doc
    BY DEF Init
  <1> QED
    BY <1>1, CasesAreFiles DEF DocumentInv, EditKinds, Paths

\* Apply writes a document.
LEMMA DocumentStep == DocumentInv /\ [Next]_vars => DocumentInv'
  <1> SUFFICES ASSUME DocumentInv, [Next]_vars PROVE DocumentInv'
    OBVIOUS
  <1>1. CASE ApplyFails
    BY <1>1 DEF ApplyFails, DocumentInv
  <1>2. ASSUME NEW c \in Containers, NEW repo \in Repos, NEW tag \in Tags, Apply(c, repo, tag)
        PROVE  DocumentInv'
    <2> DEFINE edit == Edit(c, repo, tag)
    <2>1. /\ HasRoom(repo) /\ UNCHANGED <<kind, keys>>
          /\ doc' = IF edit # None /\ edit.changed THEN edit.doc ELSE doc
      BY <1>2 DEF Apply
    <2>2. edit # None => IsDocument(edit.doc)
      BY <2>1, EditDocument
    <2> HIDE DEF edit
    <2> QED
      BY <2>1, <2>2 DEF DocumentInv
  <1>3. CASE UNCHANGED vars
    BY <1>3 DEF vars, DocumentInv
  <1> QED
    BY <1>1, <1>2, <1>3 DEF Next

\* Whatever edits are applied or fail, the file is a document.
THEOREM DocumentInvariance == Spec => []DocumentInv
  BY DocumentInit, DocumentStep, PTL DEF Spec

\* Whatever is edited, the file stays a tree: the nodes hang from mappings and
\* lists, the elements of a list are numbered without a gap.
THEOREM DocumentTree == Spec => []DocumentIsTree
  <1>1. DocumentInv => DocumentIsTree
    BY DEF DocumentInv, DocumentIsTree, IsDocument
  <1> QED
    BY <1>1, DocumentInvariance, PTL

\* An item's nodes continue it.
LEMMA ItemPrefix ==
    ASSUME NEW i \in 0..MaxIndex
    PROVE  /\ IsPrefix(Item(i), Item(i))
           /\ \A e \in {"name", "newTag"} : IsPrefix(Item(i), Append(Item(i), e))
  <1>1. Item(i) \in Paths
    BY ItemsAre
  <1>2. ASSUME NEW e \in {"name", "newTag"}
        PROVE  IsPrefix(Item(i), Append(Item(i), e))
    <2> DEFINE p == Append(Item(i), e)
    <2>1. p \in Paths /\ p # <<>> /\ Front(p) = Item(i)
      BY ItemsAre
    <2> HIDE DEF p
    <2>2. IsPrefix(Item(i), p)
      BY <2>1, FrontIs
    <2> QED
      BY <2>2 DEF p
  <1> QED
    BY <1>1, <1>2, PrefixOrder

\* Apply keeps every node that the request does not lead to.
LEMMA TargetsOnly ==
    ASSUME DocumentInv, NEW c \in Containers, NEW repo \in Repos, NEW tag \in Tags,
           Apply(c, repo, tag), NEW p \in Paths
    PROVE  Keeps(doc, doc', p) \/ Target(c, repo, p)
  <1> USE DEF DocumentInv
  <1> DEFINE edit == Edit(c, repo, tag)
  <1>1. /\ HasRoom(repo)
        /\ doc' = IF edit # None /\ edit.changed THEN edit.doc ELSE doc
    BY DEF Apply
  <1>2. repo \notin {None, Mistagged} /\ tag \notin {None, Mistagged}
    BY NoValueTwice
  <1>3. CASE doc' = doc
    BY <1>3 DEF Keeps
  <1>4. CASE edit # None /\ doc' = edit.doc /\ kind \in {"helm", "helmTag"}
    <2>1. edit = EditHelmValues(doc, keys[c], repo, tag)
      BY <1>4 DEF Edit
    <2>2. keys[c] \in [name : Paths, tag : Paths]
      OBVIOUS
    <2>3. Outside(doc, keys[c].name, p) /\ Outside(doc, keys[c].tag, p) => Keeps(doc, edit.doc, p)
      BY <1>2, <1>4, <2>1, <2>2, HelmEffect DEF HelmEdited
    <2> HIDE DEF edit
    <2>4. CASE Outside(doc, keys[c].name, p) /\ Outside(doc, keys[c].tag, p)
      BY <1>4, <2>3, <2>4
    <2>5. ASSUME NEW k \in {keys[c].name, keys[c].tag}, ~Outside(doc, k, p)
          PROVE  Target(c, repo, p)
      BY <1>4, <2>5 DEF Target, Outside, Has
    <2> QED
      BY <2>4, <2>5
  <1>5. CASE edit # None /\ doc' = edit.doc /\ kind = "kustomize"
    <2>1. edit = EditKustomization(doc, repo, tag)
      BY <1>5 DEF Edit
    <2>2. CASE Named(doc, repo) # {}
      <3> DEFINE item == Item(Entry(doc, repo))
      <3>1. /\ DOMAIN edit.doc = DOMAIN doc \cup {Append(item, "newTag")}
            /\ \A q \in DOMAIN doc : q # Append(item, "newTag") => edit.doc[q] = doc[q]
            /\ Named(edit.doc, repo) = Named(doc, repo)
        <4>1. Tagged(doc, repo, tag, edit.doc)
          BY <1>2, <1>5, <2>1, <2>2, KustomizationIs, EntryEffect
        <4> HIDE DEF edit
        <4> QED
          BY <4>1 DEF Tagged
      <3>2. Entry(doc', repo) = Entry(doc, repo) /\ Named(doc', repo) # {}
        BY <1>5, <2>2, <3>1 DEF Entry
      <3>3. IsPrefix(item, Append(item, "newTag"))
        <4>1. Entry(doc, repo) \in 0..MaxIndex
          BY <2>2, EntryIs
        <4> HIDE DEF DocumentInv
        <4> QED
          BY <4>1, ItemPrefix
      <3> HIDE DEF edit, item
      <3>4. CASE p = Append(item, "newTag")
        BY <1>5, <3>2, <3>3, <3>4 DEF Target, item
      <3>5. CASE p # Append(item, "newTag")
        BY <1>5, <3>1, <3>5 DEF Keeps
      <3> QED
        BY <3>4, <3>5
    <2>3. CASE Named(doc, repo) = {} /\ (Images \in DOMAIN doc => doc[Images].kind = "list")
      <3> DEFINE n == Cardinality(Items(doc))
      <3>1. /\ n \in 0..MaxIndex
            /\ DOMAIN edit.doc = DOMAIN doc \cup NewNodes(n)
            /\ \A q \in DOMAIN doc : edit.doc[q] = doc[q]
            /\ Named(edit.doc, repo) = {n}
        <4>1. n <= MaxIndex
          BY <1>1, <1>5, <2>3 DEF HasRoom
        <4>2. n \in 0..MaxIndex /\ Appended(doc, repo, tag, n, edit.doc)
          BY <1>2, <1>5, <2>1, <2>3, <4>1, KustomizationIs, AppendEffect
        <4> HIDE DEF edit, n
        <4> QED
          BY <4>2 DEF Appended
      <3> HIDE DEF edit, n
      <3>2. Named(doc', repo) = {n} /\ Entry(doc', repo) = n
        <4>1. Named(doc', repo) = {n}
          BY <1>5, <3>1
        <4> QED
          BY <4>1, EntryIs
      <3>3. /\ IsPrefix(Item(n), Item(n))
            /\ \A e \in {"name", "newTag"} : IsPrefix(Item(n), Append(Item(n), e))
        BY <3>1, ItemPrefix
      <3>4. CASE p \in DOMAIN doc \/ p \notin NewNodes(n)
        BY <1>5, <3>1, <3>4 DEF Keeps
      <3>5. CASE p \notin DOMAIN doc /\ p \in NewNodes(n)
        BY <1>5, <3>2, <3>3, <3>5 DEF NewNodes, Target, Has
      <3> QED
        BY <3>4, <3>5
    <2>4. CASE edit.doc = doc
      BY <1>3, <1>5, <2>4
    <2> QED
      BY <1>5, <2>1, <2>2, <2>3, <2>4, KustomizationIs
  <1>6. CASE edit # None /\ doc' = edit.doc /\ kind = "manifest"
    <2>1. edit = EditManifest(doc, repo, tag, c)
      BY <1>6 DEF Edit
    <2>2. /\ DOMAIN edit.doc = DOMAIN doc
          /\ \A q \in DOMAIN doc : edit.doc[q] =
                IF q \in ImagesOf(doc, c) /\ RepoOf(doc[q].value) = repo
                THEN Scalar(Reference(repo, tag, FALSE)) ELSE doc[q]
      <3>1. IsDocument(doc)
        OBVIOUS
      <3> HIDE DEF edit, DocumentInv
      <3>2. ManifestEdited(doc, repo, tag, c, edit.doc)
        BY <2>1, <3>1, ManifestEffect
      <3> QED
        BY <3>2 DEF ManifestEdited
    <2> HIDE DEF edit
    <2> QED
      BY <1>6, <2>2 DEF Keeps, Target
  <1> HIDE DEF edit
  <1> QED
    BY <1>1, <1>3, <1>4, <1>5, <1>6 DEF EditKinds

\* Unrelated content is preserved, for all files and annotations.
THEOREM UnrelatedKept == Spec => UnrelatedContentKept
  <1>1. DocumentInv /\ [Next]_vars =>
          [\A c \in Containers, repo \in Repos, tag \in Tags : Apply(c, repo, tag) =>
             \A p \in DOMAIN doc \cup DOMAIN doc' :
                \/ Has(doc, p) /\ Has(doc', p) /\ doc[p] = doc'[p]
                \/ Target(c, repo, p)]_vars
    <2> SUFFICES ASSUME DocumentInv, [Next]_vars,
                        NEW c \in Containers, NEW repo \in Repos, NEW tag \in Tags,
                        Apply(c, repo, tag), NEW p \in DOMAIN doc \cup DOMAIN doc'
                 PROVE  \/ Has(doc, p) /\ Has(doc', p) /\ doc[p] = doc'[p]
                        \/ Target(c, repo, p)
      OBVIOUS
    <2>1. p \in Paths
      <3>1. DocumentInv'
        BY DocumentStep
      <3> QED
        BY <3>1, DocumentIs DEF DocumentInv
    <2> QED
      BY <2>1, TargetsOnly DEF Keeps, Has
  <1> QED
    BY <1>1, DocumentInvariance, PTL DEF Spec, UnrelatedContentKept

-----------------------------------------------------------------------------
(* The keys and the entries fit, and what Apply does of each kind of file. *)

\* The file is a document the keys fit.
EditInv == DocumentInv /\ KeysApart(keys) /\ Fits(kind, keys, doc)

\* The tags of two entries are at two places.
LEMMA NewTagsApart ==
    ASSUME NEW i \in 0..MaxIndex, NEW n \in 0..MaxIndex, i # n
    PROVE  /\ Append(Item(i), "newTag") # Append(Item(n), "newTag")
           /\ Append(Item(i), "newTag") \notin NewNodes(n)
  <1> DEFINE p == Append(Item(i), "newTag")
  <1>1. /\ p # Images /\ p # Item(n) /\ Front(p) = Item(i)
        /\ Front(Append(Item(n), "name")) = Item(n)
        /\ Front(Append(Item(n), "newTag")) = Item(n)
        /\ Item(i) # Item(n)
    BY ItemsAre
  <1> HIDE DEF p
  <1>2. p # Append(Item(n), "name") /\ p # Append(Item(n), "newTag")
    BY <1>1
  <1>3. p \notin NewNodes(n)
    BY <1>1, <1>2 DEF NewNodes
  <1> QED
    BY <1>2, <1>3 DEF p

\* The request of an Apply.
RequestOf(c, repo, tag) == [kind |-> kind, slot |-> c, repo |-> repo, tag |-> tag]

\* What Apply leaves when the editor returns an error.
Refused == doc' = doc /\ answer' = "error" /\ done' = None

\* What Apply does of a Helm values file.
HelmApplied(c, repo, tag) ==
    /\ keys[c].tag # <<>>
    /\ HelmEdited(doc, keys[c], repo, tag, doc')
    /\ answer' = "changed" => ~HelmCarries(doc, keys[c], repo, tag)
    /\ done' = IF Lost(c) THEN None ELSE RequestOf(c, repo, tag)

\* Apply refuses, or edits the values file.
LEMMA HelmApply ==
    ASSUME EditInv, kind \in {"helm", "helmTag"},
           NEW c \in Containers, NEW repo \in Repos, NEW tag \in Tags, Apply(c, repo, tag)
    PROVE  Refused \/ HelmApplied(c, repo, tag)
  <1> DEFINE edit == Edit(c, repo, tag)
  <1>1. /\ doc' = IF edit # None /\ edit.changed THEN edit.doc ELSE doc
        /\ edit = None => answer' = "error" /\ done' = None
        /\ edit # None => /\ answer' = "changed" <=> edit.changed
                          /\ done' = IF Lost(c) THEN None ELSE RequestOf(c, repo, tag)
    BY DEF Apply, RequestOf
  <1>2. edit = EditHelmValues(doc, keys[c], repo, tag)
    BY DEF Edit
  <1>3. /\ IsDocument(doc) /\ keys[c] \in [name : Paths, tag : Paths]
        /\ repo \notin {None, Mistagged} /\ tag \notin {None, Mistagged}
    BY NoValueTwice DEF EditInv, DocumentInv
  <1> HIDE DEF edit
  <1>4. edit # None => /\ keys[c].tag # <<>>
                       /\ HelmEdited(doc, keys[c], repo, tag, edit.doc)
                       /\ ~edit.changed => edit.doc = doc
                       /\ ~edit.changed <=> HelmCarries(doc, keys[c], repo, tag)
    BY <1>2, <1>3, HelmEffect
  <1>5. edit # None => doc' = edit.doc
    BY <1>1, <1>4
  <1> QED
    BY <1>1, <1>4, <1>5 DEF Refused, HelmApplied

\* What Apply does of a kustomization.
EntryPath(repo) == Append(Item(Entry(doc, repo)), "newTag")

\* The entry that is there gets the tag.
EntryApplied(c, repo, tag) ==
    /\ Named(doc, repo) # {}
    /\ Tagged(doc, repo, tag, doc')
    /\ answer' = "changed" =>
          ~(EntryPath(repo) \in DOMAIN doc /\ doc[EntryPath(repo)] = Scalar(tag))
    /\ done' = RequestOf(c, repo, tag)

\* An entry is appended.
AppendApplied(c, repo, tag) ==
    /\ Named(doc, repo) = {}
    /\ \E n \in 0..MaxIndex : Appended(doc, repo, tag, n, doc')
    /\ done' = RequestOf(c, repo, tag)

\* The entry is lost, though a change is reported.
LostApplied(repo) == Named(doc, repo) = {} /\ doc' = doc /\ done' = None

\* Apply does one of these to a kustomization.
LEMMA KustomizeApply ==
    ASSUME EditInv, kind = "kustomize",
           NEW c \in Containers, NEW repo \in Repos, NEW tag \in Tags, Apply(c, repo, tag)
    PROVE  \/ Refused \/ EntryApplied(c, repo, tag)
           \/ AppendApplied(c, repo, tag) \/ LostApplied(repo)
  <1> DEFINE edit == Edit(c, repo, tag)
  <1>1. /\ doc' = IF edit # None /\ edit.changed THEN edit.doc ELSE doc
        /\ edit = None => answer' = "error" /\ done' = None
        /\ edit # None => /\ answer' = "changed" <=> edit.changed
                          /\ done' = IF Lost(c) THEN None ELSE RequestOf(c, repo, tag)
        /\ HasRoom(repo)
    BY DEF Apply, RequestOf
  <1>2. edit = EditKustomization(doc, repo, tag)
    BY DEF Edit
  <1>3. /\ IsDocument(doc) /\ repo \notin {None, Mistagged} /\ tag \notin {None, Mistagged}
        /\ Images \in DOMAIN doc => doc[Images].kind # "map"
    BY NoValueTwice DEF EditInv, DocumentInv, Fits, Has
  <1>4. Lost(c) <=> Images \in DOMAIN doc /\ doc[Images].kind # "list"
    BY DEF Lost, Has
  <1> HIDE DEF edit
  <1>5. CASE edit = None
    BY <1>1, <1>5 DEF Refused
  <1>6. CASE edit # None /\ Named(doc, repo) # {}
    <2>1. /\ Tagged(doc, repo, tag, edit.doc)
          /\ edit.changed <=>
                ~(EntryPath(repo) \in DOMAIN doc /\ doc[EntryPath(repo)] = Scalar(tag))
      BY <1>2, <1>3, <1>6, KustomizationIs, EntryEffect DEF EntryPath
    <2>2. ~Lost(c)
      <3>1. Entry(doc, repo) \in 0..MaxIndex /\ Item(Entry(doc, repo)) \in DOMAIN doc
        BY <1>6, EntryIs DEF Named, Items, Has
      <3>2. Images \in DOMAIN doc /\ doc[Images].kind # "scalar"
        BY <1>3, <3>1, ItemsAre, DocumentIs DEF Hangs
      <3>3. IsNode(doc[Images])
        BY <1>3, <3>2, DocumentIs
      <3> QED
        BY <1>3, <1>4, <3>2, <3>3 DEF IsNode
    <2>3. Tagged(doc, repo, tag, doc')
      <3>1. CASE edit.changed
        BY <1>1, <1>6, <2>1, <3>1
      <3>2. CASE ~edit.changed
        BY <1>1, <2>1, <3>2, NodesAre DEF Tagged, EntryPath
      <3> QED
        BY <3>1, <3>2
    <2> QED
      BY <1>1, <1>6, <2>1, <2>2, <2>3 DEF EntryApplied
  <1>7. CASE edit # None /\ Named(doc, repo) = {} /\ ~Lost(c)
    <2>1. Cardinality(Items(doc)) <= MaxIndex
      BY <1>1, <1>7 DEF HasRoom
    <2>2. /\ Cardinality(Items(doc)) \in 0..MaxIndex /\ edit.changed
          /\ Appended(doc, repo, tag, Cardinality(Items(doc)), edit.doc)
      BY <1>2, <1>3, <1>4, <1>7, <2>1, KustomizationIs, AppendEffect
    <2> QED
      BY <1>1, <1>7, <2>2 DEF AppendApplied
  <1>8. CASE edit # None /\ Named(doc, repo) = {} /\ Lost(c)
    <2>1. edit.doc = doc
      BY <1>2, <1>4, <1>8 DEF EditKustomization, Has, Edited
    <2> QED
      BY <1>1, <1>8, <2>1 DEF LostApplied
  <1> QED
    BY <1>5, <1>6, <1>7, <1>8

\* What Apply does of a manifest.
ManifestApplied(c, repo, tag) ==
    /\ ManifestEdited(doc, repo, tag, c, doc')
    /\ answer' = "changed" => doc' # doc
    /\ done' = RequestOf(c, repo, tag)

\* Apply refuses, or edits the manifest.
LEMMA ManifestApply ==
    ASSUME EditInv, kind = "manifest",
           NEW c \in Containers, NEW repo \in Repos, NEW tag \in Tags, Apply(c, repo, tag)
    PROVE  Refused \/ ManifestApplied(c, repo, tag)
  <1> DEFINE edit == Edit(c, repo, tag)
  <1>1. /\ doc' = IF edit # None /\ edit.changed THEN edit.doc ELSE doc
        /\ edit = None => answer' = "error" /\ done' = None
        /\ edit # None => /\ answer' = "changed" <=> edit.changed
                          /\ done' = IF Lost(c) THEN None ELSE RequestOf(c, repo, tag)
    BY DEF Apply, RequestOf
  <1>2. edit = EditManifest(doc, repo, tag, c)
    BY DEF Edit
  <1>3. IsDocument(doc)
    BY DEF EditInv, DocumentInv
  <1>4. ~Lost(c)
    BY DEF Lost
  <1> HIDE DEF edit
  <1>5. /\ ManifestEdited(doc, repo, tag, c, edit.doc)
        /\ edit.changed <=> edit.doc # doc
    BY <1>2, <1>3, ManifestEffect
  <1> QED
    BY <1>1, <1>4, <1>5 DEF Refused, ManifestApplied

\* An edit of one container's keys keeps what another key leads to, and the
\* list it is an element of.
LEMMA KeyKept ==
    ASSUME NEW d, IsDocument(d), NEW d2, NEW key \in [name : Paths, tag : Paths],
           NEW repo, NEW tag, HelmEdited(d, key, repo, tag, d2),
           NEW k \in Paths, k # <<>>, Apart(key.name, k), Apart(key.tag, k)
    PROVE  /\ Keeps(d, d2, k)
           /\ k \in DOMAIN d => Front(k) \in DOMAIN d /\ d2[Front(k)] = d[Front(k)]
  <1>1. Outside(d, key.name, k) /\ Outside(d, key.tag, k)
    BY DEF Apart, Outside
  <1>2. Keeps(d, d2, k)
    BY <1>1 DEF HelmEdited
  <1>3. ASSUME k \in DOMAIN d
        PROVE  Front(k) \in DOMAIN d /\ d2[Front(k)] = d[Front(k)]
    <2>1. Front(k) \in DOMAIN d
      BY <1>3, DocumentIs DEF Hangs
    <2>2. Front(k) \in Paths /\ IsPrefix(Front(k), k)
      BY FrontIs
    <2>3. ASSUME NEW path \in {key.name, key.tag} PROVE Outside(d, path, Front(k))
      <3>1. path \in Paths
        OBVIOUS
      <3>2. IsPrefix(path, Front(k)) => IsPrefix(path, k)
        BY <2>2, <3>1, PrefixOrder
      <3> QED
        BY <1>1, <2>1, <3>2 DEF Outside
    <2>4. Keeps(d, d2, Front(k))
      BY <2>2, <2>3 DEF HelmEdited
    <2> QED
      BY <2>1, <2>4 DEF Keeps
  <1> QED
    BY <1>2, <1>3

\* A key leads to a scalar, to an element of a list, or to nothing.
Fitting(d, k) == k \in DOMAIN d => d[k].kind = "scalar" \/ d[Front(k)].kind = "list"

\* There the write leaves the scalar.
LEMMA FittingResult ==
    ASSUME NEW d, NEW k, Fitting(d, k), NEW value
    PROVE  Result(d, k, value) = Scalar(value)
  BY DEF Fitting, Result, Blocked

\* Keys that fit a file fit it after an edit.
LEMMA FitsStep ==
    ASSUME EditInv, NEW c \in Containers, NEW repo \in Repos, NEW tag \in Tags,
           Apply(c, repo, tag)
    PROVE  Fits(kind, keys, doc')
  <1>0. /\ IsDocument(doc) /\ keys \in [Containers -> [name : Paths, tag : Paths]]
        /\ KeysApart(keys) /\ kind \in EditKinds /\ Fits(kind, keys, doc)
    BY DEF EditInv, DocumentInv
  <1>1. CASE doc' = doc
    BY <1>0, <1>1
  <1>2. CASE kind = "helm" /\ HelmApplied(c, repo, tag)
    <2>1. /\ HelmEdited(doc, keys[c], repo, tag, doc') /\ keys[c].tag # <<>>
          /\ keys[c] \in [name : Paths, tag : Paths]
      BY <1>0, <1>2 DEF HelmApplied
    <2>2. Apart(keys[c].name, keys[c].tag)
      BY <1>0 DEF KeysApart
    <2>3. \A e \in Containers : /\ keys[e].name # <<>>
                                /\ \A k \in {keys[e].name, keys[e].tag} \ {<<>>} : Fitting(doc, k)
      BY <1>0, <1>2 DEF Fits, Fitting, Has
    <2>4. ASSUME NEW e \in Containers, NEW k \in {keys[e].name, keys[e].tag} \ {<<>>}
          PROVE  Fitting(doc', k)
      <3>1. CASE e = c
        <4>1. doc'[k] = Scalar(tag) \/ doc'[k] = Scalar(repo)
          BY <2>1, <2>2, <2>3, <2>4, <3>1, FittingResult DEF HelmEdited
        <4> QED
          BY <4>1, NodesAre DEF Fitting
      <3>2. CASE e # c
        <4>1. Apart(keys[c].name, k) /\ Apart(keys[c].tag, k)
          BY <1>0, <3>2 DEF KeysApart
        <4>2. k \in Paths /\ k # <<>>
          BY <1>0
        <4>3. /\ Keeps(doc, doc', k)
              /\ k \in DOMAIN doc => doc'[Front(k)] = doc[Front(k)]
          BY <1>0, <2>1, <4>1, <4>2, KeyKept
        <4> QED
          BY <2>3, <2>4, <4>3 DEF Keeps, Fitting
      <3> QED
        BY <3>1, <3>2
    <2> QED
      BY <1>2, <2>3, <2>4 DEF Fits, Fitting, Has
  <1>3. CASE kind = "helmTag"
    BY <1>0, <1>3 DEF Fits
  <1>4. CASE kind = "kustomize" /\ EntryApplied(c, repo, tag)
    <2> DEFINE n == Entry(doc, repo)
    <2>1. n \in 0..MaxIndex
      BY <1>4, EntryIs DEF EntryApplied
    <2>2. /\ DOMAIN doc' = DOMAIN doc \cup {EntryPath(repo)}
          /\ \A p \in DOMAIN doc : p # EntryPath(repo) => doc'[p] = doc[p]
          /\ doc'[EntryPath(repo)] = Scalar(tag)
          /\ Items(doc') = Items(doc)
      <3>1. Tagged(doc, repo, tag, doc')
        BY <1>4 DEF EntryApplied
      <3>2. EntryPath(repo) \in DOMAIN doc => doc[EntryPath(repo)].kind = "scalar"
        <4>1. n \in Items(doc)
          BY <1>4, EntryIs DEF EntryApplied, Named
        <4> QED
          BY <1>0, <1>4, <4>1 DEF Fits, Has, EntryPath
      <3> QED
        BY <3>1, <3>2 DEF Tagged, EntryPath
    <2>3. EntryPath(repo) # Images
      BY <2>1, ItemsAre DEF EntryPath
    <2>4. Images \in DOMAIN doc' => doc'[Images].kind # "map"
      BY <1>0, <1>4, <2>2, <2>3 DEF Fits, Has
    <2>5. ASSUME NEW i \in Items(doc'), Append(Item(i), "newTag") \in DOMAIN doc'
          PROVE  doc'[Append(Item(i), "newTag")].kind = "scalar"
      <3>1. CASE Append(Item(i), "newTag") = EntryPath(repo)
        <4>1. Scalar(tag).kind = "scalar"
          BY NodesAre
        <4> QED
          BY <2>2, <3>1, <4>1
      <3>2. CASE Append(Item(i), "newTag") # EntryPath(repo)
        BY <1>0, <1>4, <2>2, <2>5, <3>2 DEF Fits, Has
      <3> QED
        BY <3>1, <3>2
    <2> QED
      BY <1>4, <2>4, <2>5 DEF Fits, Has
  <1>5. CASE kind = "kustomize" /\ AppendApplied(c, repo, tag)
    <2>1. PICK n \in 0..MaxIndex : Appended(doc, repo, tag, n, doc')
      BY <1>5 DEF AppendApplied
    <2>2. ASSUME NEW i \in Items(doc'), Append(Item(i), "newTag") \in DOMAIN doc'
          PROVE  doc'[Append(Item(i), "newTag")].kind = "scalar"
      <3>1. CASE i = n
        BY <2>1, <3>1, NodesAre DEF Appended
      <3>2. CASE i # n
        <4>1. i \in Items(doc) /\ i \in 0..MaxIndex
          BY <2>1, <3>2 DEF Appended, Items
        <4>2. Append(Item(i), "newTag") \notin NewNodes(n)
          BY <3>2, <4>1, NewTagsApart
        <4> QED
          BY <1>0, <1>5, <2>1, <2>2, <4>1, <4>2 DEF Appended, Fits, Has
      <3> QED
        BY <3>1, <3>2
    <2> QED
      BY <1>5, <2>1, <2>2 DEF Fits, Has, Appended
  <1>6. CASE kind = "manifest"
    BY <1>6 DEF Fits
  <1> QED
    BY <1>0, <1>1, <1>2, <1>3, <1>4, <1>5, <1>6, HelmApply, KustomizeApply
       DEF EditKinds, Refused, LostApplied

\* The files to start from fit their keys.
LEMMA EditInit == Init => EditInv
  <1> SUFFICES ASSUME Init PROVE EditInv
    OBVIOUS
  <1>1. PICK case \in Cases : kind = case.kind /\ keys = case.keys /\ doc = case.doc
    BY DEF Init
  <1> QED
    BY <1>1, CasesAreFiles, DocumentInit DEF EditInv

\* The invariant is inductive.
LEMMA EditStep == EditInv /\ [Next]_vars => EditInv'
  <1> SUFFICES ASSUME EditInv, [Next]_vars PROVE EditInv'
    OBVIOUS
  <1>1. DocumentInv'
    BY DocumentStep DEF EditInv
  <1>2. kind' = kind /\ keys' = keys
    BY DEF Next, ApplyFails, Apply, vars
  <1>3. Fits(kind, keys, doc')
    <2>1. CASE doc' = doc
      BY <2>1 DEF EditInv
    <2>2. ASSUME NEW c \in Containers, NEW repo \in Repos, NEW tag \in Tags, Apply(c, repo, tag)
          PROVE  Fits(kind, keys, doc')
      BY <2>2, FitsStep
    <2> QED
      BY <2>1, <2>2 DEF Next, ApplyFails, vars
  <1> QED
    BY <1>1, <1>2, <1>3 DEF EditInv

\* Keys and nodes fit as they did at the start.
THEOREM EditInvariance == Spec => []EditInv
  BY EditInit, EditStep, PTL DEF Spec

-----------------------------------------------------------------------------
(* What is carried is unchanged, what is done is carried.                  *)

\* What a kustomization's entry holds after an edit.
LEMMA EntryResult ==
    ASSUME EditInv, kind = "kustomize",
           NEW c \in Containers, NEW repo \in Repos, NEW tag \in Tags,
           EntryApplied(c, repo, tag)
    PROVE  /\ Entry(doc', repo) = Entry(doc, repo) /\ Named(doc', repo) = Named(doc, repo)
           /\ EntryPath(repo) \in DOMAIN doc' /\ doc'[EntryPath(repo)] = Scalar(tag)
  <1>1. Tagged(doc, repo, tag, doc') /\ Named(doc, repo) # {}
    BY DEF EntryApplied
  <1>2. EntryPath(repo) \in DOMAIN doc => doc[EntryPath(repo)].kind = "scalar"
    <2>1. Entry(doc, repo) \in Items(doc)
      BY <1>1, EntryIs DEF Named
    <2> QED
      BY <2>1 DEF EditInv, Fits, Has, EntryPath
  <1>3. Named(doc', repo) = Named(doc, repo)
    BY <1>1 DEF Tagged
  <1> QED
    BY <1>1, <1>2, <1>3 DEF Tagged, EntryPath, Entry

\* A value that is known is read as it is.
LEMMA KnownIs ==
    ASSUME NEW value, NEW values, None \notin values, NEW v \in values
    PROVE  Known(value, values) = v <=> value = v
  BY DEF Known

\* No repository or tag is None or Mistagged.
LEMMA ValuesAre ==
    None \notin Repos /\ None \notin Tags /\ Mistagged \notin Repos /\ Mistagged \notin Tags
  BY NoValueTwice

\* The property, with the document as a parameter.
CarriesIn(d, c, repo, tag) ==
    CASE kind = "helm" -> FilesOf(d).image[c] = [repo |-> repo, tag |-> tag]
      [] kind = "helmTag" -> FilesOf(d).image[c].tag = tag
      [] kind = "kustomize" -> FilesOf(d).newTag[repo] = tag
      [] kind = "manifest" ->
            \A p \in ImagesOf(d, c) :
               RepoOf(d[p].value) = repo => d[p].value = Reference(repo, tag, FALSE)

\* FilesOf, entry by entry.
LEMMA FilesAre ==
    ASSUME NEW d
    PROVE  /\ \A c \in Containers :
                 FilesOf(d).image[c] = [repo |-> RepoIn(d, c), tag |-> TagIn(d, c)]
           /\ \A repo \in Repos : FilesOf(d).newTag[repo] = NewTagIn(d, repo)
  BY DEF FilesOf

\* Where the keys carry the values, the file does.
LEMMA HelmCarriesIs ==
    ASSUME NEW d, IsDocument(d), kind \in {"helm", "helmTag"},
           NEW c \in Containers, NEW repo \in Repos, NEW tag \in Tags,
           keys[c].tag # <<>>, keys[c].name = <<>> <=> kind = "helmTag"
    PROVE  CarriesIn(d, c, repo, tag) <=> HelmCarries(d, keys[c], repo, tag)
  <1>1. TagIn(d, c) = tag <=> keys[c].tag \in DOMAIN d /\ d[keys[c].tag] = Scalar(tag)
    <2> DEFINE path == keys[c].tag
               value == ValueAt(d, path)
    <2>1. TagIn(d, c) = Known(value, Tags)
      BY DEF TagIn
    <2> HIDE DEF value, path
    <2>2. Known(value, Tags) = tag <=> value = tag
      BY KnownIs, ValuesAre
    <2>3. value = tag <=> path \in DOMAIN d /\ d[path] = Scalar(tag)
      BY ValueIs, ValuesAre DEF value
    <2> QED
      BY <2>1, <2>2, <2>3 DEF path
  <1>2. CASE kind = "helm"
    <2>1. RepoIn(d, c) = repo <=> keys[c].name \in DOMAIN d /\ d[keys[c].name] = Scalar(repo)
      <3> DEFINE path == keys[c].name
                 value == ValueAt(d, path)
      <3>1. RepoIn(d, c) = Known(value, Repos)
        BY <1>2 DEF RepoIn
      <3> HIDE DEF value, path
      <3>2. Known(value, Repos) = repo <=> value = repo
        BY KnownIs, ValuesAre
      <3>3. value = repo <=> path \in DOMAIN d /\ d[path] = Scalar(repo)
        BY ValueIs, ValuesAre DEF value
      <3> QED
        BY <3>1, <3>2, <3>3 DEF path
    <2>2. CarriesIn(d, c, repo, tag) <=> RepoIn(d, c) = repo /\ TagIn(d, c) = tag
      <3>1. CarriesIn(d, c, repo, tag) <=>
               FilesOf(d).image[c] = [repo |-> repo, tag |-> tag]
        BY <1>2 DEF CarriesIn
      <3>2. FilesOf(d).image[c] = [repo |-> RepoIn(d, c), tag |-> TagIn(d, c)]
        BY FilesAre
      <3> QED
        BY <3>1, <3>2
    <2> QED
      BY <1>1, <1>2, <2>1, <2>2 DEF HelmCarries
  <1>3. CASE kind = "helmTag"
    <2>1. CarriesIn(d, c, repo, tag) <=> TagIn(d, c) = tag
      <3>1. CarriesIn(d, c, repo, tag) <=> FilesOf(d).image[c].tag = tag
        BY <1>3 DEF CarriesIn
      <3>2. FilesOf(d).image[c] = [repo |-> RepoIn(d, c), tag |-> TagIn(d, c)]
        BY FilesAre
      <3> QED
        BY <3>1, <3>2
    <2> QED
      BY <1>1, <1>3, <2>1 DEF HelmCarries
  <1> QED
    BY <1>2, <1>3

\* Where the entry holds the tag, the file carries it.
LEMMA EntryCarriesIs ==
    ASSUME NEW d, IsDocument(d), kind = "kustomize",
           NEW c \in Containers, NEW repo \in Repos, NEW tag \in Tags
    PROVE  CarriesIn(d, c, repo, tag) <=>
              /\ Named(d, repo) # {}
              /\ Append(Item(Entry(d, repo)), "newTag") \in DOMAIN d
              /\ d[Append(Item(Entry(d, repo)), "newTag")] = Scalar(tag)
  <1> DEFINE path == Append(Item(Entry(d, repo)), "newTag")
  <1>1. CarriesIn(d, c, repo, tag) <=> NewTagIn(d, repo) = tag
    BY FilesAre DEF CarriesIn
  <1>2. NewTagIn(d, repo) = tag <=> Named(d, repo) # {} /\ Known(ValueAt(d, path), Tags) = tag
    BY ValuesAre DEF NewTagIn
  <1> HIDE DEF path
  <1>3. Known(ValueAt(d, path), Tags) = tag <=> path \in DOMAIN d /\ d[path] = Scalar(tag)
    BY KnownIs, ValuesAre, ValueIs
  <1> QED
    BY <1>1, <1>2, <1>3 DEF path

\* An edit of what is carried reports no change, an edit done leaves it carried.
LEMMA CarriedStep ==
    ASSUME EditInv, IsDocument(doc'),
           NEW c \in Containers, NEW repo \in Repos, NEW tag \in Tags, Apply(c, repo, tag)
    PROVE  /\ CarriesIn(doc, c, repo, tag) => answer' # "changed"
           /\ done' # None => CarriesIn(doc', c, repo, tag)
  <1>0. /\ IsDocument(doc) /\ keys[c] \in [name : Paths, tag : Paths]
        /\ KeysApart(keys) /\ kind \in EditKinds /\ Fits(kind, keys, doc)
    BY DEF EditInv, DocumentInv
  <1>1. CASE Refused
    BY <1>1 DEF Refused
  <1>2. CASE kind \in {"helm", "helmTag"} /\ HelmApplied(c, repo, tag)
    <2>1. /\ keys[c].tag # <<>> /\ HelmEdited(doc, keys[c], repo, tag, doc')
          /\ answer' = "changed" => ~HelmCarries(doc, keys[c], repo, tag)
          /\ done' # None => ~Lost(c)
      BY <1>2 DEF HelmApplied
    <2>2. keys[c].name = <<>> <=> kind = "helmTag"
      BY <1>0, <1>2 DEF Fits
    <2>3. CarriesIn(doc, c, repo, tag) <=> HelmCarries(doc, keys[c], repo, tag)
      BY <1>0, <1>2, <2>1, <2>2, HelmCarriesIs
    <2>4. CarriesIn(doc', c, repo, tag) <=> HelmCarries(doc', keys[c], repo, tag)
      BY <1>0, <1>2, <2>1, <2>2, HelmCarriesIs
    <2>5. ASSUME ~Lost(c) PROVE Fitting(doc, keys[c].tag)
      <3>1. CASE kind = "helm"
        BY <1>0, <2>1, <3>1 DEF Fits, Fitting, Has
      <3>2. CASE kind = "helmTag"
        <4>1. ASSUME keys[c].tag \in DOMAIN doc
              PROVE  doc[Front(keys[c].tag)].kind \in {"map", "list"}
          BY <1>0, <2>1, <4>1, DocumentIs DEF Hangs, IsNode
        <4> QED
          BY <2>5, <3>2, <4>1 DEF Lost, Fitting, Has
      <3> QED
        BY <1>2, <3>1, <3>2
    <2>6. keys[c].name # <<>> => Fitting(doc, keys[c].name)
      BY <1>0, <1>2, <2>2 DEF Fits, Fitting, Has
    <2>7. Apart(keys[c].name, keys[c].tag)
      BY <1>0 DEF KeysApart
    <2>8. ~Lost(c) => HelmCarries(doc', keys[c], repo, tag)
      BY <2>1, <2>5, <2>6, <2>7, FittingResult DEF HelmEdited, HelmCarries
    <2> QED
      BY <2>1, <2>3, <2>4, <2>8
  <1>3. CASE kind = "kustomize" /\ EntryApplied(c, repo, tag)
    <2>1. /\ Entry(doc', repo) = Entry(doc, repo) /\ Named(doc', repo) = Named(doc, repo)
          /\ EntryPath(repo) \in DOMAIN doc' /\ doc'[EntryPath(repo)] = Scalar(tag)
      BY <1>3, EntryResult
    <2>2. /\ Named(doc, repo) # {}
          /\ answer' = "changed" =>
               ~(EntryPath(repo) \in DOMAIN doc /\ doc[EntryPath(repo)] = Scalar(tag))
      BY <1>3 DEF EntryApplied
    <2>3. CarriesIn(doc', c, repo, tag)
      BY <1>3, <2>1, <2>2, EntryCarriesIs DEF EntryPath
    <2>4. CarriesIn(doc, c, repo, tag) => answer' # "changed"
      BY <1>0, <1>3, <2>2, EntryCarriesIs DEF EntryPath
    <2> QED
      BY <2>3, <2>4
  <1>4. CASE kind = "kustomize" /\ AppendApplied(c, repo, tag)
    <2>1. PICK n \in 0..MaxIndex : Appended(doc, repo, tag, n, doc')
      BY <1>4 DEF AppendApplied
    <2>2. ~CarriesIn(doc, c, repo, tag)
      BY <1>0, <1>4, EntryCarriesIs DEF AppendApplied
    <2>3. Named(doc', repo) = {n}
      BY <2>1 DEF Appended
    <2>4. Entry(doc', repo) = n
      BY <2>3, EntryIs
    <2>5. /\ Append(Item(n), "newTag") \in DOMAIN doc'
          /\ doc'[Append(Item(n), "newTag")] = Scalar(tag)
      BY <2>1 DEF Appended, NewNodes
    <2> QED
      BY <1>4, <2>2, <2>3, <2>4, <2>5, EntryCarriesIs
  <1>5. CASE kind = "kustomize" /\ LostApplied(repo)
    BY <1>0, <1>5, EntryCarriesIs DEF LostApplied
  <1>6. CASE kind = "manifest" /\ ManifestApplied(c, repo, tag)
    <2>1. /\ DOMAIN doc' = DOMAIN doc /\ ImagesOf(doc', c) = ImagesOf(doc, c)
          /\ \A p \in DOMAIN doc :
                doc'[p] = IF p \in ImagesOf(doc, c) /\ RepoOf(doc[p].value) = repo
                          THEN Scalar(Reference(repo, tag, FALSE)) ELSE doc[p]
      BY <1>6 DEF ManifestApplied, ManifestEdited
    <2>2. ImagesOf(doc, c) \subseteq DOMAIN doc
      BY DEF ImagesOf
    <2>3. CarriesIn(doc', c, repo, tag)
      BY <1>6, <2>1, <2>2, NodesAre DEF CarriesIn
    <2>4. ASSUME CarriesIn(doc, c, repo, tag) PROVE doc' = doc
      <3>1. ASSUME NEW p \in DOMAIN doc, p \in ImagesOf(doc, c), RepoOf(doc[p].value) = repo
            PROVE  doc[p] = Scalar(Reference(repo, tag, FALSE))
        <4>1. doc[p].value = Reference(repo, tag, FALSE) /\ doc[p].kind = "scalar"
          BY <1>6, <2>4, <3>1 DEF CarriesIn, ImagesOf
        <4>2. IsNode(doc[p])
          BY <1>0, DocumentIs
        <4> QED
          BY <4>1, <4>2 DEF IsNode, Scalar
      <3>2. \A p \in DOMAIN doc : doc'[p] = doc[p]
        BY <2>1, <3>1
      <3>3. doc = [p \in DOMAIN doc |-> doc[p]] /\ doc' = [p \in DOMAIN doc' |-> doc'[p]]
        BY <1>0, DocumentIs
      <3> QED
        BY <2>1, <3>2, <3>3
    <2> QED
      BY <1>6, <2>3, <2>4 DEF ManifestApplied
  <1> QED
    BY <1>0, <1>1, <1>2, <1>3, <1>4, <1>5, <1>6, HelmApply, KustomizeApply, ManifestApply
       DEF EditKinds

\* Once the file carries what is asked for, no edit reports a change, and a
\* request done is carried from then on.
THEOREM CarriedUnchanged == Spec => CarriedIsUnchanged
  <1>1. EditInv /\ [Next]_vars =>
          [\A c \in Containers, repo \in Repos, tag \in Tags : Apply(c, repo, tag) =>
             /\ Carries(c, repo, tag) => answer' # "changed"
             /\ done' # None => Carries(c, repo, tag)']_vars
    <2> SUFFICES ASSUME EditInv, [Next]_vars,
                        NEW c \in Containers, NEW repo \in Repos, NEW tag \in Tags,
                        Apply(c, repo, tag)
                 PROVE  /\ Carries(c, repo, tag) => answer' # "changed"
                        /\ done' # None => Carries(c, repo, tag)'
      OBVIOUS
    <2>1. IsDocument(doc')
      BY EditStep DEF EditInv, DocumentInv
    <2>2. kind' = kind /\ keys' = keys
      BY DEF Apply
    <2>3. Carries(c, repo, tag) <=> CarriesIn(doc, c, repo, tag)
      BY DEF Carries, CarriesIn
    <2>4. Carries(c, repo, tag)' <=> CarriesIn(doc', c, repo, tag)
      BY <2>2 DEF Carries, CarriesIn, FilesOf, RepoIn, TagIn, NewTagIn
    <2> QED
      BY <2>1, <2>3, <2>4, CarriedStep
  <1> QED
    BY <1>1, EditInvariance, PTL DEF Spec, CarriedIsUnchanged

-----------------------------------------------------------------------------
(* The promise.                                                            *)

\* What is read of a document is a file of the promise.
LEMMA FilesType == ASSUME NEW d PROVE FilesOf(d) \in Promise!Files
  <1>1. \A c \in Containers :
           RepoIn(d, c) \in Repos \cup {None} /\ TagIn(d, c) \in Tags \cup {None}
    BY DEF RepoIn, TagIn, Known
  <1>2. \A repo \in Repos : NewTagIn(d, repo) \in Tags \cup {None}
    BY DEF NewTagIn, Known
  <1> QED
    BY <1>1, <1>2 DEF FilesOf, Promise!Files

\* What the files hold of a container is the same in two documents.
SameImage(d, d2, c) == RepoIn(d2, c) = RepoIn(d, c) /\ TagIn(d2, c) = TagIn(d, c)

\* Files that agree on every entry are the same.
LEMMA FilesSame ==
    ASSUME NEW d, NEW d2, \A c \in Containers : SameImage(d, d2, c),
           \A repo \in Repos : NewTagIn(d2, repo) = NewTagIn(d, repo)
    PROVE  FilesOf(d2) = FilesOf(d)
  BY DEF FilesOf, SameImage

\* Files that differ in one container's entry.
LEMMA ImageEdited ==
    ASSUME NEW d, NEW d2, NEW c \in Containers, NEW repo, NEW tag,
           RepoIn(d2, c) = repo, TagIn(d2, c) = tag,
           \A e \in Containers \ {c} : SameImage(d, d2, e),
           \A r \in Repos : NewTagIn(d2, r) = NewTagIn(d, r)
    PROVE  FilesOf(d2) = [FilesOf(d) EXCEPT !.image[c] = [repo |-> repo, tag |-> tag]]
  <1> DEFINE I(f) == [e \in Containers |-> [repo |-> RepoIn(f, e), tag |-> TagIn(f, e)]]
             N(f) == [r \in Repos |-> NewTagIn(f, r)]
             image == [repo |-> repo, tag |-> tag]
  <1>1. \A f \in {d, d2} : FilesOf(f) = [image |-> I(f), newTag |-> N(f)]
    BY DEF FilesOf
  <1>2. I(d2) = [I(d) EXCEPT ![c] = image]
    BY DEF SameImage
  <1>3. N(d2) = N(d)
    OBVIOUS
  <1> HIDE DEF I, N, image
  <1> QED
    BY <1>1, <1>2, <1>3 DEF image

\* Files that differ in one repository's entry.
LEMMA NewTagEdited ==
    ASSUME NEW d, NEW d2, NEW repo \in Repos, NEW tag,
           \A c \in Containers : SameImage(d, d2, c),
           NewTagIn(d2, repo) = tag,
           \A r \in Repos \ {repo} : NewTagIn(d2, r) = NewTagIn(d, r)
    PROVE  FilesOf(d2) = [FilesOf(d) EXCEPT !.newTag[repo] = tag]
  <1> DEFINE I(f) == [e \in Containers |-> [repo |-> RepoIn(f, e), tag |-> TagIn(f, e)]]
             N(f) == [r \in Repos |-> NewTagIn(f, r)]
  <1>1. \A f \in {d, d2} : FilesOf(f) = [image |-> I(f), newTag |-> N(f)]
    BY DEF FilesOf
  <1>2. I(d2) = I(d)
    BY DEF SameImage
  <1>3. N(d2) = [N(d) EXCEPT ![repo] = tag]
    OBVIOUS
  <1> HIDE DEF I, N
  <1> QED
    BY <1>1, <1>2, <1>3

\* No key is the root: its node stays.
LEMMA RootKept ==
    ASSUME NEW d, IsDocument(d), NEW d2, NEW key \in [name : Paths, tag : Paths],
           NEW repo, NEW tag, HelmEdited(d, key, repo, tag, d2)
    PROVE  ValueAt(d2, <<>>) = ValueAt(d, <<>>)
  <1>1. <<>> \in DOMAIN d /\ <<>> \in Paths
    BY DocumentIs DEF Paths
  <1>2. ASSUME NEW path \in {key.name, key.tag} PROVE Outside(d, path, <<>>)
    <2>1. path \in Paths
      OBVIOUS
    <2>2. IsPrefix(path, <<>>) => path = <<>>
      BY <1>1, <2>1, PrefixOrder
    <2> QED
      BY <1>1, <2>2 DEF Outside
  <1>3. Keeps(d, d2, <<>>)
    BY <1>1, <1>2 DEF HelmEdited
  <1> QED
    BY <1>3 DEF Keeps, ValueAt, Has

\* An edit of a Helm values file, for a reader of the values.
LEMMA HelmRefines ==
    ASSUME EditInv, IsDocument(doc'), kind \in {"helm", "helmTag"},
           NEW c \in Containers, NEW repo \in Repos, NEW tag \in Tags,
           HelmApplied(c, repo, tag)
    PROVE  FilesOf(doc') = IF Lost(c) THEN FilesOf(doc)
                           ELSE Promise!Edited(kind, FilesOf(doc), c, repo, tag)
  <1>0. /\ IsDocument(doc) /\ keys \in [Containers -> [name : Paths, tag : Paths]]
        /\ KeysApart(keys) /\ Fits(kind, keys, doc)
    BY DEF EditInv, DocumentInv
  <1>1. \A r : NewTagIn(doc', r) = NewTagIn(doc, r)
    BY DEF NewTagIn
  <1>2. /\ keys[c].tag # <<>> /\ HelmEdited(doc, keys[c], repo, tag, doc')
        /\ keys[c] \in [name : Paths, tag : Paths] /\ Apart(keys[c].name, keys[c].tag)
    BY <1>0 DEF HelmApplied, KeysApart
  <1>3. ASSUME NEW e \in Containers \ {c}, NEW k \in {keys[e].name, keys[e].tag}
        PROVE  ValueAt(doc', k) = ValueAt(doc, k)
    <2>1. CASE k # <<>>
      <3>1. Apart(keys[c].name, k) /\ Apart(keys[c].tag, k) /\ k \in Paths
        BY <1>0 DEF KeysApart
      <3>2. Keeps(doc, doc', k)
        BY <1>0, <1>2, <2>1, <3>1, KeyKept
      <3> QED
        BY <3>2 DEF Keeps, ValueAt, Has
    <2>2. CASE k = <<>>
      BY <1>0, <1>2, <2>2, RootKept
    <2> QED
      BY <2>1, <2>2
  <1>4. \A e \in Containers \ {c} : SameImage(doc, doc', e)
    BY <1>3 DEF SameImage, RepoIn, TagIn
  <1>5. CASE ~Lost(c) /\ kind = "helm"
    <2>1. keys[c].name # <<>> /\ Fitting(doc, keys[c].name) /\ Fitting(doc, keys[c].tag)
      BY <1>0, <1>2, <1>5 DEF Fits, Fitting, Has
    <2>2. HelmCarries(doc', keys[c], repo, tag)
      BY <1>2, <2>1, FittingResult DEF HelmEdited, HelmCarries
    <2>3. ValueAt(doc', keys[c].name) = repo /\ ValueAt(doc', keys[c].tag) = tag
      BY <2>1, <2>2, NodesAre DEF HelmCarries, ValueAt, Has
    <2>4. RepoIn(doc', c) = repo /\ TagIn(doc', c) = tag
      BY <2>3 DEF RepoIn, TagIn, Known
    <2> QED
      BY <1>1, <1>4, <1>5, <2>4, ImageEdited DEF Promise!Edited
  <1>6. CASE kind = "helmTag"
    <2>1. keys[c].name = <<>>
      BY <1>0, <1>6 DEF Fits
    <2>2. RepoIn(doc', c) = RepoIn(doc, c)
      <3>1. ValueAt(doc', <<>>) = ValueAt(doc, <<>>)
        BY <1>0, <1>2, RootKept
      <3> QED
        BY <2>1, <3>1 DEF RepoIn
    <2>3. CASE ~Lost(c)
      <3>1. ASSUME keys[c].tag \in DOMAIN doc
            PROVE  doc[Front(keys[c].tag)].kind \in {"map", "list"}
        BY <1>0, <1>2, <3>1, DocumentIs DEF Hangs, IsNode
      <3>2. Fitting(doc, keys[c].tag)
        BY <1>6, <2>3, <3>1 DEF Lost, Fitting, Has
      <3>3. keys[c].tag \in DOMAIN doc' /\ doc'[keys[c].tag] = Scalar(tag)
        BY <1>2, <3>2, FittingResult DEF HelmEdited
      <3>4. TagIn(doc', c) = tag
        BY <1>6, <3>3, NodesAre DEF TagIn, Known, ValueAt, Has
      <3>5. FilesOf(doc') =
              [FilesOf(doc) EXCEPT !.image[c] = [repo |-> RepoIn(doc, c), tag |-> tag]]
        BY <1>1, <1>4, <2>2, <3>4, ImageEdited
      <3> QED
        BY <1>6, <2>3, <3>5, FilesAre DEF Promise!Edited, FilesOf
    <2>4. CASE Lost(c)
      <3>1. /\ keys[c].tag \in DOMAIN doc /\ doc[keys[c].tag].kind # "scalar"
            /\ doc[Front(keys[c].tag)].kind = "map"
        BY <1>6, <2>4 DEF Lost, Has
      <3>2. /\ keys[c].tag \in DOMAIN doc'
            /\ doc'[keys[c].tag] = Node(doc[keys[c].tag].kind, Mistagged)
        BY <1>2, <3>1 DEF HelmEdited, Result, Blocked
      <3>3. IsNode(doc[keys[c].tag])
        BY <1>0, <3>1, DocumentIs
      <3>4. /\ ValueAt(doc', keys[c].tag) = Mistagged
            /\ ValueAt(doc, keys[c].tag) \in {None, Mistagged}
        BY <3>1, <3>2, <3>3, NodesAre DEF ValueAt, Has, IsNode
      <3>5. TagIn(doc', c) = TagIn(doc, c)
        BY <1>6, <3>4, ValuesAre DEF TagIn, Known
      <3>6. \A e \in Containers : SameImage(doc, doc', e)
        BY <1>4, <2>2, <3>5 DEF SameImage
      <3> QED
        BY <1>1, <2>4, <3>6, FilesSame
    <2> QED
      BY <2>3, <2>4
  <1>7. ~(Lost(c) /\ kind = "helm")
    BY DEF Lost
  <1> QED
    BY <1>5, <1>6, <1>7

\* An edit of a kustomization, for a reader of its images.
LEMMA EntryRefines ==
    ASSUME EditInv, kind = "kustomize",
           NEW c \in Containers, NEW repo \in Repos, NEW tag \in Tags,
           EntryApplied(c, repo, tag) \/ AppendApplied(c, repo, tag)
    PROVE  FilesOf(doc') = Promise!Edited(kind, FilesOf(doc), c, repo, tag)
  <1>1. \A e \in Containers : SameImage(doc, doc', e)
    BY DEF SameImage, RepoIn, TagIn
  <1>2. CASE EntryApplied(c, repo, tag)
    <2>1. /\ Entry(doc', repo) = Entry(doc, repo) /\ Named(doc', repo) = Named(doc, repo)
          /\ EntryPath(repo) \in DOMAIN doc' /\ doc'[EntryPath(repo)] = Scalar(tag)
      BY <1>2, EntryResult
    <2>2. /\ Named(doc, repo) # {} /\ \A r : Named(doc', r) = Named(doc, r)
          /\ DOMAIN doc' = DOMAIN doc \cup {EntryPath(repo)}
          /\ \A p \in DOMAIN doc : p # EntryPath(repo) => doc'[p] = doc[p]
      BY <1>2 DEF EntryApplied, Tagged, EntryPath
    <2>3. NewTagIn(doc', repo) = tag
      <3>1. ValueAt(doc', EntryPath(repo)) = tag
        BY <2>1, NodesAre DEF ValueAt, Has
      <3> QED
        BY <2>1, <2>2, <3>1 DEF NewTagIn, Known, EntryPath
    <2>4. ASSUME NEW r \in Repos \ {repo} PROVE NewTagIn(doc', r) = NewTagIn(doc, r)
      <3>1. CASE Named(doc, r) = {}
        BY <2>2, <3>1 DEF NewTagIn
      <3>2. CASE Named(doc, r) # {}
        <4>1. /\ Entry(doc, r) \in Named(doc, r) /\ Entry(doc, r) \in 0..MaxIndex
              /\ Entry(doc, repo) \in Named(doc, repo) /\ Entry(doc, repo) \in 0..MaxIndex
          BY <2>2, <3>2, EntryIs
        <4>2. Entry(doc, r) # Entry(doc, repo)
          BY <2>4, <4>1 DEF Named
        <4>3. EntryPath(r) # EntryPath(repo)
          BY <4>1, <4>2, NewTagsApart DEF EntryPath
        <4>4. ValueAt(doc', EntryPath(r)) = ValueAt(doc, EntryPath(r))
          BY <2>2, <4>3 DEF ValueAt, Has
        <4>5. Entry(doc', r) = Entry(doc, r)
          BY <2>2 DEF Entry
        <4> QED
          BY <2>2, <4>4, <4>5 DEF NewTagIn, EntryPath
      <3> QED
        BY <3>1, <3>2
    <2> QED
      BY <1>1, <2>3, <2>4, NewTagEdited DEF Promise!Edited
  <1>3. CASE AppendApplied(c, repo, tag)
    <2>1. PICK n \in 0..MaxIndex : Appended(doc, repo, tag, n, doc')
      BY <1>3 DEF AppendApplied
    <2>2. /\ Named(doc', repo) = {n} /\ Item(n) \notin DOMAIN doc
          /\ \A r : r # repo => Named(doc', r) = Named(doc, r)
          /\ DOMAIN doc' = DOMAIN doc \cup NewNodes(n)
          /\ \A p \in DOMAIN doc : doc'[p] = doc[p]
          /\ doc'[Append(Item(n), "newTag")] = Scalar(tag)
      BY <2>1 DEF Appended
    <2>3. NewTagIn(doc', repo) = tag
      <3>1. Entry(doc', repo) = n
        BY <2>2, EntryIs
      <3>2. ValueAt(doc', Append(Item(n), "newTag")) = tag
        BY <2>2, NodesAre DEF ValueAt, Has, NewNodes
      <3> QED
        BY <2>2, <3>1, <3>2 DEF NewTagIn, Known
    <2>4. ASSUME NEW r \in Repos \ {repo} PROVE NewTagIn(doc', r) = NewTagIn(doc, r)
      <3>1. CASE Named(doc, r) = {}
        BY <2>2, <3>1 DEF NewTagIn
      <3>2. CASE Named(doc, r) # {}
        <4>1. Entry(doc, r) \in 0..MaxIndex /\ Item(Entry(doc, r)) \in DOMAIN doc
          BY <3>2, EntryIs DEF Named, Items, Has
        <4>2. EntryPath(r) \notin NewNodes(n)
          BY <2>2, <4>1, NewTagsApart DEF EntryPath
        <4>3. ValueAt(doc', EntryPath(r)) = ValueAt(doc, EntryPath(r))
          BY <2>2, <4>2 DEF ValueAt, Has
        <4>4. Named(doc', r) = Named(doc, r) /\ Entry(doc', r) = Entry(doc, r)
          BY <2>2 DEF Entry
        <4> QED
          BY <4>3, <4>4 DEF NewTagIn, EntryPath
      <3> QED
        BY <3>1, <3>2
    <2> QED
      BY <1>1, <2>3, <2>4, NewTagEdited DEF Promise!Edited
  <1> QED
    BY <1>2, <1>3

\* An edit of a manifest, for a reader of the containers' images.
LEMMA ManifestRefines ==
    ASSUME EditInv, kind = "manifest",
           NEW c \in Containers, NEW repo \in Repos, NEW tag \in Tags,
           ManifestApplied(c, repo, tag)
    PROVE  FilesOf(doc') = Promise!Edited(kind, FilesOf(doc), c, repo, tag)
  <1>1. /\ DOMAIN doc' = DOMAIN doc
        /\ \A p \in DOMAIN doc :
              doc'[p] = IF p \in ImagesOf(doc, c) /\ RepoOf(doc[p].value) = repo
                        THEN Scalar(Reference(repo, tag, FALSE)) ELSE doc[p]
    BY DEF ManifestApplied, ManifestEdited
  <1>2. \A e : ImagesOf(doc', e) = ImagesOf(doc, e)
    BY DEF ManifestApplied, ManifestEdited
  <1>3. \A e : ImageOf(doc', e) = ImageOf(doc, e)
    BY <1>2 DEF ImageOf
  <1>4. \A e : ImagesOf(doc, e) # {} =>
                  ImageOf(doc, e) \in ImagesOf(doc, e) /\ ImageOf(doc, e) \in DOMAIN doc
    BY DEF ImageOf, ImagesOf
  <1>5. \A r : NewTagIn(doc', r) = NewTagIn(doc, r)
    BY DEF NewTagIn
  <1>6. ASSUME NEW e \in Containers,
               ImagesOf(doc, e) # {} => doc'[ImageOf(doc, e)] = doc[ImageOf(doc, e)]
        PROVE  SameImage(doc, doc', e)
    BY <1>2, <1>3, <1>6 DEF SameImage, RepoIn, TagIn
  <1>7. ASSUME NEW e \in Containers \ {c} PROVE SameImage(doc, doc', e)
    <2>1. ImagesOf(doc, e) \cap ImagesOf(doc, c) = {}
      BY <1>7 DEF ImagesOf
    <2> QED
      BY <1>1, <1>4, <1>6, <2>1
  <1>8. RepoIn(doc, c) = repo <=>
           ImagesOf(doc, c) # {} /\ RepoOf(doc[ImageOf(doc, c)].value) = repo
    BY ValuesAre DEF RepoIn, Known, RepoOf
  <1>9. FilesOf(doc).image[c].repo = RepoIn(doc, c)
    <2>1. FilesOf(doc).image[c] = [repo |-> RepoIn(doc, c), tag |-> TagIn(doc, c)]
      BY FilesAre
    <2> QED
      BY <2>1
  <1>10. CASE RepoIn(doc, c) = repo
    <2>1. doc'[ImageOf(doc, c)].value = Reference(repo, tag, FALSE)
      BY <1>1, <1>4, <1>8, <1>10, NodesAre
    <2>2. RepoIn(doc', c) = repo /\ TagIn(doc', c) = tag
      BY <1>2, <1>3, <1>8, <1>10, <2>1 DEF RepoIn, TagIn, Known, Reference
    <2>3. FilesOf(doc') = [FilesOf(doc) EXCEPT !.image[c] = [repo |-> repo, tag |-> tag]]
      BY <1>5, <1>7, <2>2, ImageEdited
    <2> QED
      BY <1>9, <1>10, <2>3, FilesAre DEF Promise!Edited, FilesOf
  <1>11. CASE RepoIn(doc, c) # repo
    <2>1. ImagesOf(doc, c) # {} => doc'[ImageOf(doc, c)] = doc[ImageOf(doc, c)]
      BY <1>1, <1>4, <1>8, <1>11
    <2>2. \A e \in Containers : SameImage(doc, doc', e)
      BY <1>6, <1>7, <2>1
    <2>3. FilesOf(doc') = FilesOf(doc)
      BY <1>5, <2>2, FilesSame
    <2> QED
      BY <1>9, <1>11, <2>3 DEF Promise!Edited
  <1> QED
    BY <1>10, <1>11

\* The editors make the edits the write-back takes them to make.
THEOREM EditorsImplementPromise == Spec => EntriesAsPromised
  <1>1. Init => Promise!Init
    BY FilesType DEF Init, Promise!Init
  <1>2. ASSUME EditInv, [Next]_vars PROVE [Promise!Next]_(Promise!vars)
    <2>1. IsDocument(doc')
      BY <1>2, EditStep DEF EditInv, DocumentInv
    <2>2. kind' = kind /\ keys' = keys
      BY <1>2 DEF Next, ApplyFails, Apply, vars
    <2>3. FilesOf(doc)' = FilesOf(doc')
      BY <2>2 DEF FilesOf, RepoIn, TagIn, NewTagIn
    <2>4. CASE UNCHANGED vars
      BY <2>3, <2>4 DEF vars, Promise!vars
    <2>5. ASSUME FilesOf(doc') = FilesOf(doc), done' = None PROVE Promise!Decline
      BY <2>3, <2>5 DEF Promise!Decline
    <2>6. CASE ApplyFails
      BY <2>5, <2>6 DEF ApplyFails, Promise!Next
    <2>7. ASSUME NEW c \in Containers, NEW repo \in Repos, NEW tag \in Tags,
                 Apply(c, repo, tag)
          PROVE  Promise!Next
      <3>1. kind \in EditKinds
        BY <1>2 DEF EditInv, DocumentInv
      <3>2. RequestOf(c, repo, tag) \in Promise!Request
        BY <3>1 DEF RequestOf, Promise!Request, Promise!TargetKinds, EditKinds
      <3>3. ASSUME FilesOf(doc') = Promise!Edited(kind, FilesOf(doc), c, repo, tag),
                   done' = RequestOf(c, repo, tag)
            PROVE  Promise!Next
        <4>1. Promise!Do(RequestOf(c, repo, tag))
          BY <2>3, <3>3 DEF Promise!Do, RequestOf
        <4> QED
          BY <3>2, <4>1 DEF Promise!Next
      <3>4. CASE Refused \/ LostApplied(repo)
        BY <2>5, <3>4 DEF Refused, LostApplied, Promise!Next
      <3>5. CASE kind \in {"helm", "helmTag"} /\ HelmApplied(c, repo, tag)
        <4>1. FilesOf(doc') = IF Lost(c) THEN FilesOf(doc)
                              ELSE Promise!Edited(kind, FilesOf(doc), c, repo, tag)
          BY <1>2, <2>1, <3>5, HelmRefines
        <4>2. done' = IF Lost(c) THEN None ELSE RequestOf(c, repo, tag)
          BY <3>5 DEF HelmApplied
        <4> QED
          BY <2>5, <3>3, <4>1, <4>2 DEF Promise!Next
      <3>6. CASE /\ kind = "kustomize"
                 /\ EntryApplied(c, repo, tag) \/ AppendApplied(c, repo, tag)
        BY <1>2, <3>3, <3>6, EntryRefines DEF EntryApplied, AppendApplied
      <3>7. CASE kind = "manifest" /\ ManifestApplied(c, repo, tag)
        BY <1>2, <3>3, <3>7, ManifestRefines DEF ManifestApplied
      <3> QED
        BY <1>2, <2>7, <3>1, <3>4, <3>5, <3>6, <3>7,
           HelmApply, KustomizeApply, ManifestApply DEF EditKinds
    <2> QED
      BY <1>2, <2>4, <2>6, <2>7 DEF Next
  <1> QED
    BY <1>1, <1>2, EditInvariance, PTL DEF Spec, EntriesAsPromised, Promise!Spec

=============================================================================
