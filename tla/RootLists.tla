------------------------------- MODULE RootLists -------------------------------
(***************************************************************************)
(* The lists the trigger unit's modules are about: what is in one, and one *)
(* that some of its elements were taken out of, the others in their order. *)
(***************************************************************************)
EXTENDS Naturals, Sequences

Elements(s) == {s[i] : i \in DOMAIN s}
Distinct(s) == \A i, j \in DOMAIN s : s[i] = s[j] => i = j

Grown(s, e, S) == IF e \in S THEN Append(s, e) ELSE s

\* What s has of S.
Only(s, S) ==
    LET kept[n \in 0..Len(s)] == IF n = 0 THEN <<>> ELSE Grown(kept[n - 1], s[n], S)
    IN  kept[Len(s)]

Without(s, S) == Only(s, Elements(s) \ S)

=============================================================================
