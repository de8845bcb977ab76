------------------------------ MODULE ForkJoin ------------------------------
(***************************************************************************)
(* What TriggerMatchPool::prescan() promises its caller: every item of the *)
(* batch is answered exactly once, in any order and grouping, before the   *)
(* call returns; no item is answered outside a call; and the call returns,  *)
(* with the number of the batch's items that match.                        *)
(***************************************************************************)
EXTENDS Naturals, FiniteSets

CONSTANT Items

VARIABLES
  open,   \* a call is in progress
  batch,  \* the items of the present or last call
  hits,   \* those of them that match
  given,  \* how many answers each item was given in it
  matches \* the number the last call that returned gave back

vars == <<open, batch, hits, given, matches>>

Init ==
  /\ open = FALSE
  /\ batch = {}
  /\ hits = {}
  /\ given = [i \in Items |-> 0]
  /\ matches = 0

Fork(some, matching) ==
  /\ ~open
  /\ open' = TRUE
  /\ batch' = some
  /\ hits' = matching
  /\ given' = [i \in Items |-> 0]
  /\ UNCHANGED matches

Answer(some) ==
  /\ open
  /\ \A i \in some : given[i] = 0
  /\ given' = [i \in Items |-> IF i \in some THEN 1 ELSE given[i]]
  /\ UNCHANGED <<open, batch, hits, matches>>

Join ==
  /\ open
  /\ \A i \in batch : given[i] = 1
  /\ open' = FALSE
  /\ matches' = Cardinality(hits)
  /\ UNCHANGED <<batch, hits, given>>

AnswerSome == \E some \in SUBSET batch : some # {} /\ Answer(some)

Next ==
  \/ \E some \in SUBSET Items : \E matching \in SUBSET some : Fork(some, matching)
  \/ AnswerSome
  \/ Join

Safe == Init /\ [][Next]_vars
Spec == Safe /\ WF_vars(AnswerSome) /\ WF_vars(Join)
=============================================================================
