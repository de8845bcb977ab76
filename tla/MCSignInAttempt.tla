---------------------------- MODULE MCSignInAttempt ----------------------------
(* A small instance of SignInAttempt for TLC.                                *)
EXTENDS SignInAttempt

\* In the clear the second is an offer of "oauth".
MCOffers == {"password", "openid"}

\* Those for encrypted connections only are issued in the run.
MCSavedBefore == {FALSE}

\* What is left to matter of a read that is superseded, of a replay once its
\* result is in, and of a flow once it is over.
ReadThatMatters(r) ==
    IF r.kind = "sign-in" /\ r.stale
    THEN [r EXCEPT !.allowToken = FALSE, !.forgotten = FALSE, !.offer = 0]
    ELSE [r EXCEPT !.offer = IF r.stale THEN 0 ELSE @]

ReplayThatMatters ==
    [mConn EXCEPT !.forgotten = @ /\ (mConn.awaiting \/ mConn.reconnecting),
                  !.retried = @ /\ mConn.awaiting,
                  !.sent = IF mConn.awaiting THEN @ ELSE 0]

FlowThatMatters(f) ==
    IF f.mCompleted THEN [f EXCEPT !.reply = FALSE, !.browser = FALSE, !.offer = 0] ELSE f

\* States that agree on this go on alike.
WhatMatters ==
    <<[conn EXCEPT !.secure = @ /\ conn.up], offer, offers, offeredOn, mSignInOffered, reconnectDue,
      attemptVars, deadlines, asked, ReplayThatMatters,
      [i \in DOMAIN reads |-> ReadThatMatters(reads[i])],
      [which \in DOMAIN flows |-> FlowThatMatters(flows[which])],
      storeVars, gameVars, outcome>>
=============================================================================
