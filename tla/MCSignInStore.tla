---------------------------- MODULE MCSignInStore ----------------------------
(* SignInStore with the bounds its .cfg files give it; the intents, the      *)
(* operations and the outcomes are the code's own small sets.               *)
EXTENDS SignInStore

\* What is left to matter of a request once it is over: whether it was reached,
\* and if so what it asked for.
RequestThatMatters(id) ==
    IF id \in {mActive.id, mPending} \/ Told(id, "Reached") THEN intents[id]
    ELSE [shape |-> "Over", secureOnly |-> TRUE]

\* States that agree on this go on alike.
WhatMatters ==
    <<[id \in Requests |-> RequestThatMatters(id)],
      Len(log), {log[k].id : k \in DOMAIN log}, {id \in Requests : Told(id, "Reached")},
      mActive, mPending, readVars, stack, storeVars, keychain, closes>>

\* Bound: three requests with a read, or two with two.
FewCalls == Len(intents) + Len(reads) <= 4
==============================================================================
