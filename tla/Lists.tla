------------------------------- MODULE Lists -------------------------------
(***************************************************************************)
(* Lists of names as the code filters and counts them.                     *)
(***************************************************************************)
EXTENDS Naturals, Sequences, FiniteSets

\* What filter has kept of the first i entries, once those in drop are gone.
KeptUpTo(list, drop) ==
    LET kept[i \in 0 .. Len(list)] ==
            IF i = 0 THEN <<>>
            ELSE IF list[i] \in drop THEN kept[i - 1] ELSE Append(kept[i - 1], list[i])
    IN  kept

Without(list, drop) == KeptUpTo(list, drop)[Len(list)]

\* How often a list names id.
Entries(list, id) == Cardinality({i \in DOMAIN list : list[i] = id})
=============================================================================
