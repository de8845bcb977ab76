---------------------------- MODULE MCTriggerUnit ----------------------------
(* Finite instances of TriggerUnit for TLC.                                 *)
EXTENDS TriggerUnit

MCExpiryCounts == {-1, 1}

MCNoExpiry == {-1}

=============================================================================
