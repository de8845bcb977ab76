---------------------------- MODULE MCRootSnapshot ---------------------------
(* A finite instance of RootSnapshot for TLC.                               *)
EXTENDS RootSnapshot, TLC

CONSTANT Text

MCFilters == {Visit, Text}

\* Triggers are told apart by their names alone.
TriggerSymmetry == Permutations(Triggers)

\* Where a pass that no longer trusts the filters stands decides nothing.
PlacesThatMatter ==
    <<mTriggerRootNodeList, rootFilter, mRootSnapshotPosition, current, queues,
      [n \in DOMAIN passes |-> IF passes[n].trusts THEN passes[n]
                               ELSE [passes[n] EXCEPT !.position = 0]]>>

=============================================================================
