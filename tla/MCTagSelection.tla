--------------------------- MODULE MCTagSelection ---------------------------
(* Tags for TagSelection, as character codes: 9, 09, 10, v9, v11, v, 9-1.  *)
EXTENDS TagSelection

t9   == <<57>>
t09  == <<48, 57>>
t10  == <<49, 48>>
tv9  == <<118, 57>>
tv11 == <<118, 49, 49>>
tv   == <<118>>
t9_1 == <<57, 45, 49>>

AllTags == {t9, t09, t10, tv9, tv11, tv, t9_1}

\* 09 and v are no versions; 9-1 is a prerelease of 9, outside the range >=9.
VersionOf ==
    [t \in AllTags |-> CASE t = t9_1 -> 1
                         [] t \in {t9, tv9} -> 2
                         [] t = t10 -> 3
                         [] t = tv11 -> 4
                         [] t \in {t09, tv} -> None]

FromNine == 2..4

\* filterTags ^[^-]*$, pattern ^v?(\d+) and its $1.
WithoutDash == AllTags \ {t9_1}

WithNumber == AllTags \ {tv}

FirstNumber ==
    [t \in AllTags |-> CASE t \in {t9, tv9, t9_1} -> t9
                         [] t = tv11 -> <<49, 49>>
                         [] t \in {t09, t10} -> t
                         [] t = tv -> None]
=============================================================================
