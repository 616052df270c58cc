---------------------------- MODULE TagSelection ----------------------------
(***************************************************************************)
(* Select of internal/policy: which of the tags a registry lists is the    *)
(* one a policy's rule picks. A tag is the sequence of its character       *)
(* codes. What the regexp and semver libraries make of a tag is given by   *)
(* the constants; the registry's list changes between two scans, in its    *)
(* order as well, and every scan selects anew.                             *)
(***************************************************************************)
EXTENDS Naturals, Sequences, SequencesExt

CONSTANTS
    Tags,       \* the tags that may be listed
    MaxTags,    \* bound on the length of a listing
    Version,    \* tag, without a leading v |-> its place among the versions, or None
    InRange,    \* the versions that satisfy the semver range
    Passing,    \* the tags that match the pattern of filterTags
    Matching,   \* the tags that match the pattern of the regex rule
    Extracted,  \* what its extract template makes of each of these
    None,       \* the empty string: nothing selected
    Failure     \* the error of a malformed rule

ASSUME TagsAreTexts == Tags \subseteq Seq(Nat) /\ None \notin Tags
ASSUME ExtractsAreTexts == \A t \in Matching : Extracted[t] \in Seq(Nat)
ASSUME VersionsAreRanked == InRange \subseteq Nat
ASSUME MaxTagsIsNat == MaxTags \in Nat

VARIABLES
    listing,    \* what the registry answers
    rule,       \* the policy's spec
    selected    \* the result of the last scan

vars == <<listing, rule, selected>>

-----------------------------------------------------------------------------
Kinds == {"semver", "regex", "numerical", "alphabetical", "unset"}

\* valid: the filter, the pattern and the range all compile. The CRD's schema
\* fills in an unset order and refuses an unset kind; the code takes both.
Rules ==
    {r \in [ kind : Kinds, numeric : BOOLEAN, extract : BOOLEAN,
             order : {"asc", "desc", "unset"}, filtered : BOOLEAN, valid : BOOLEAN ] :
        /\ r.kind # "regex" => ~r.numeric /\ ~r.extract
        /\ ~r.valid => r.filtered \/ r.kind \in {"semver", "regex"}}

-----------------------------------------------------------------------------
\* Text, byte by byte.
LexLess(a, b) ==
    \/ IsStrictPrefix(a, b)
    \/ \E i \in DOMAIN a \cap DOMAIN b :
           a[i] < b[i] /\ SubSeq(a, 1, i - 1) = SubSeq(b, 1, i - 1)

IsDigit(ch) == ch \in 48..57

\* numChunk: the longest runs of digits and of other characters.
Chunked(chunks, ch) ==
    IF chunks # <<>> /\ (IsDigit(Last(chunks)[1]) <=> IsDigit(ch))
    THEN Append(Front(chunks), Append(Last(chunks), ch))
    ELSE Append(chunks, <<ch>>)

Chunks(s) == FoldLeft(Chunked, <<>>, s)

\* Variant: no leading zero is removed.
UntrimmedNumber(x) == x

\* A number without its leading zeros.
Trimmed(x) ==
    LET first == SelectInSeq(x, LAMBDA ch : ch # 48)
    IN  IF first = 0 THEN <<>> ELSE SubSeq(x, first, Len(x))

\* Numbers by length, then digit by digit.
NumberLess(x, y) ==
    \/ Len(Trimmed(x)) < Len(Trimmed(y))
    \/ Len(Trimmed(x)) = Len(Trimmed(y)) /\ LexLess(Trimmed(x), Trimmed(y))

\* Variant: a number and a text are not ordered.
ChunkLessOfOneKind(x, y) ==
    /\ IsDigit(x[1]) = IsDigit(y[1])
    /\ IF IsDigit(x[1]) THEN NumberLess(x, y) ELSE LexLess(x, y)

\* Two numbers as numbers, everything else as text.
ChunkLess(x, y) ==
    IF IsDigit(x[1]) /\ IsDigit(y[1]) THEN NumberLess(x, y) ELSE LexLess(x, y)

\* The first chunks that differ decide, then the number of chunks.
NumericLess(a, b) ==
    LET ca == Chunks(a)
        cb == Chunks(b)
        Differ == {i \in DOMAIN ca \cap DOMAIN cb :
                       ChunkLess(ca[i], cb[i]) \/ ChunkLess(cb[i], ca[i])}
    IN  IF Differ = {} THEN Len(ca) < Len(cb)
        ELSE \E i \in Differ : /\ \A j \in Differ : i <= j
                               /\ ChunkLess(ca[i], cb[i])

-----------------------------------------------------------------------------
\* filter, and the loop of selectRegex: the tags that match, in their order.
Filter(tags, matches) ==
    LET Keep(kept, t) == IF t \in matches THEN Append(kept, t) ELSE kept
    IN  FoldLeft(Keep, <<>>, tags)

\* What a tag is ordered by, the extracted text or the tag, and how.
Key(t, r) == IF r.extract THEN Extracted[t] ELSE t

TagLess(t, u, r) ==
    IF r.numeric \/ r.kind = "numerical" THEN NumericLess(Key(t, r), Key(u, r))
    ELSE LexLess(Key(t, r), Key(u, r))

\* sort.SliceStable: a tag goes behind those listed before it that are not greater.
Insert(sorted, t, r) ==
    InsertAt(sorted, SelectLastInSeq(sorted, LAMBDA u : ~TagLess(t, u, r)) + 1, t)

StableSort(tags, r) == FoldLeft(LAMBDA sorted, t : Insert(sorted, t, r), <<>>, tags)

\* order: anything but asc is desc. The winner is an end of the sorted list.
EndOf(sorted, order) ==
    IF sorted = <<>> THEN None
    ELSE IF order = "asc" THEN Head(sorted) ELSE Last(sorted)

\* Variant: the numerical rule ignores tags that are no numbers, as README.md:448
\* has it.
SelectOrderedNumbers(tags, r) ==
    LET numbers == {t \in Tags : \A i \in DOMAIN t : IsDigit(t[i])}
        ranked == IF r.kind = "numerical" THEN Filter(tags, numbers) ELSE tags
    IN  EndOf(StableSort(ranked, r), r.order)

SelectOrdered(tags, r) == EndOf(StableSort(tags, r), r.order)

\* Variant: the key is returned in place of the tag it was made of.
SelectRegexKey(tags, r) ==
    LET best == EndOf(StableSort(Filter(tags, Matching), r), r.order)
    IN  IF best = None THEN None ELSE Key(best, r)

SelectRegex(tags, r) == EndOf(StableSort(Filter(tags, Matching), r), r.order)

\* Of equal versions (9 and v9) the one listed first stays.
SelectSemver(tags) ==
    LET Better(best, t) ==
            IF /\ Version[t] \in InRange
               /\ best # None => Version[t] > Version[best]
            THEN t ELSE best
    IN  FoldLeft(Better, None, tags)

Select(tags, r) ==
    LET candidates == IF r.filtered THEN Filter(tags, Passing) ELSE tags
    IN  CASE ~r.valid \/ r.kind = "unset"             -> Failure
          [] r.valid /\ r.kind = "semver"             -> SelectSemver(candidates)
          [] r.valid /\ r.kind = "regex"              -> SelectRegex(candidates, r)
          [] r.valid /\ r.kind \in {"numerical", "alphabetical"} ->
                 SelectOrdered(candidates, r)

-----------------------------------------------------------------------------
Init ==
    /\ listing = <<>>
    /\ rule \in Rules
    /\ selected = None

\* A tag is pushed; the registry lists it wherever it likes.
Push(t) ==
    /\ Len(listing) < MaxTags
    /\ ~Contains(listing, t)
    /\ \E i \in 1..Len(listing) + 1 : listing' = InsertAt(listing, i, t)
    /\ UNCHANGED <<rule, selected>>

Untag(i) ==
    /\ listing' = RemoveAt(listing, i)
    /\ UNCHANGED <<rule, selected>>

\* The policy controller hands the list to Select as the registry gave it.
Scan ==
    /\ selected' = Select(listing, rule)
    /\ UNCHANGED <<listing, rule>>

Next ==
    \/ \E t \in Tags : Push(t)
    \/ \E i \in DOMAIN listing : Untag(i)
    \/ Scan

Spec == Init /\ [][Next]_vars

-----------------------------------------------------------------------------
(* Properties                                                              *)

\* Types; above all, a scan selects one of the tags, never the text extracted
\* from it, or nothing, or fails.
SelectionTypeOK ==
    /\ listing \in Seq(Tags) /\ Len(listing) <= MaxTags /\ IsInjective(listing)
    /\ rule \in Rules
    /\ selected \in Tags \cup {None, Failure}

\* The reference, told by values instead of texts: the run of digits or of other
\* characters that s begins with, and its value if it is a number.
RunLength(s) == CHOOSE n \in DOMAIN s :
                    /\ \A i \in 1..n : IsDigit(s[i]) <=> IsDigit(s[1])
                    /\ n < Len(s) => (IsDigit(s[n + 1]) <=> ~IsDigit(s[1]))

Value(s) == FoldLeft(LAMBDA v, ch : 10 * v + (ch - 48), 0, s)

Precedes[texts \in Seq(Nat) \X Seq(Nat)] ==
    LET a == texts[1]
        b == texts[2]
        m == RunLength(a)
        n == RunLength(b)
        x == SubSeq(a, 1, m)
        y == SubSeq(b, 1, n)
        numbers == IsDigit(a[1]) /\ IsDigit(b[1])
        same == IF numbers THEN Value(x) = Value(y) ELSE x = y
    IN  IF a = <<>> \/ b = <<>> THEN a = <<>> /\ b # <<>>
        ELSE IF same
        THEN Precedes[<<SubSeq(a, m + 1, Len(a)), SubSeq(b, n + 1, Len(b))>>]
        ELSE IF numbers THEN Value(x) < Value(y) ELSE LexLess(x, y)

\* The tags a rule may pick from, and which of two it ranks first.
Candidates(r) ==
    {t \in ToSet(listing) :
        /\ r.filtered => t \in Passing
        /\ r.kind = "regex" => t \in Matching
        /\ r.kind = "semver" => Version[t] \in InRange}

Outranks(t, u, r) ==
    LET text == IF r.kind = "regex" /\ r.extract THEN <<Extracted[t], Extracted[u]>> ELSE <<t, u>>
        low == IF r.order = "asc" THEN text[1] ELSE text[2]
        high == IF r.order = "asc" THEN text[2] ELSE text[1]
    IN  IF r.kind = "semver" THEN Version[t] > Version[u]
        ELSE IF r.kind = "numerical" \/ r.numeric THEN Precedes[<<low, high>>]
        ELSE LexLess(low, high)

\* The documents are at odds. README.md:367 has the numerical rule order all tags,
\* README.md:448 ignore those that are no numbers; README.md:366 and policy.go:141
\* have the order of the regex rule say which end is taken, imagepolicy_types.go:74
\* has it always be the last.
Disputed(r) ==
    \/ /\ r.kind = "numerical"
       /\ \E t \in Candidates(r) : \E i \in DOMAIN t : ~IsDigit(t[i])
    \/ r.kind = "regex" /\ r.order = "asc"

\* The result of a scan is a tag that the rule may pick and that no other such
\* tag outranks, and nothing only if there is none.
SelectsNewest ==
    \/ Candidates(rule) = {} /\ selected' = None
    \/ /\ selected' \in Candidates(rule)
       /\ \A t \in Candidates(rule) : ~Outranks(t, selected', rule)

\* However the registry orders its list, a scan selects the newest tag, where
\* the documents agree what that is. (policy.Select against the README's table of
\* rules.)
SelectionIsNewest ==
    [][Scan /\ rule.valid /\ rule.kind # "unset" /\ ~Disputed(rule) => SelectsNewest]_vars

\* Where they do not, the code ranks all tags, words above numbers, and takes
\* the first for asc: against README.md:448 and imagepolicy_types.go:74.
DisputedRanking ==
    [][Scan /\ rule.valid /\ Disputed(rule) => SelectsNewest]_vars

\* naturalCompare is an order that a sort may rely on: over any tags listed
\* together it is asymmetric, and tags it does not tell apart compare alike with
\* every other (a strict weak order), digits mixed with text included.
ComparisonIsAnOrder ==
    \A a, b \in ToSet(listing) :
        /\ ~(NumericLess(a, b) /\ NumericLess(b, a))
        /\ NumericLess(a, b) =>
               \A c \in ToSet(listing) : NumericLess(a, c) \/ NumericLess(c, b)
=============================================================================
