------------------------- MODULE MCTriggerMatchPool -------------------------
(* Small instances of TriggerMatchPool for TLC.                            *)
EXTENDS TriggerMatchPool

(* The regexes of the first two triggers match.                            *)
MCHitSets == {{0, 1}}
=============================================================================
