---------------------------- MODULE OAuthClientFlow ----------------------------
(***************************************************************************)
(* One browser sign-in against a game that is its own OpenID provider      *)
(* (OAuthClientFlow.cpp): the discovery document is fetched, a listener on *)
(* the loopback interface waits for the browser, and the first of a code,  *)
(* a failure, five minutes and abort() ends it.  The answer of the network *)
(* and a request of the browser may come after that.                       *)
(*                                                                         *)
(* A flow is a value, and its functions map it to what they leave of it;   *)
(* what it tells its owner is told by the names of the operators.          *)
(***************************************************************************)
LOCAL INSTANCE Naturals


\* mState stands for mNonce too; reply is the discovery reply on its way,
\* browser whether an authorization URL was handed out.  offer is history: the
\* offer, by its number, that the owner started the flow for.
Flow == [mStarted: BOOLEAN, mCompleted: BOOLEAN, mTimeoutTimer: BOOLEAN,
         reply: BOOLEAN, mRedirectServer: BOOLEAN, browser: BOOLEAN,
         mState: BOOLEAN, mCodeVerifier: BOOLEAN, offer: Nat]

NoFlow == [mStarted |-> FALSE, mCompleted |-> FALSE, mTimeoutTimer |-> FALSE,
           reply |-> FALSE, mRedirectServer |-> FALSE, browser |-> FALSE,
           mState |-> FALSE, mCodeVerifier |-> FALSE, offer |-> 0]

Cleanup(f) == [f EXCEPT !.mTimeoutTimer = FALSE, !.mRedirectServer = FALSE, !.mState = FALSE]

\* How fail(), abort() and a captured code leave a flow.  The code is told
\* before the verifier is cleared, which the receiver's copy does not see.
Completed(f) == [Cleanup(f) EXCEPT !.mCompleted = TRUE, !.mCodeVerifier = FALSE]

\* start() on a new flow for offer n, with an acceptable discovery URL or not.
Start(acceptable, n) ==
    LET started == [NoFlow EXCEPT !.mStarted = TRUE, !.offer = n] IN
    IF acceptable
    THEN [started EXCEPT !.mTimeoutTimer = TRUE, !.reply = TRUE, !.mState = TRUE]
    ELSE Completed(started)

Abort(f) == IF f.mCompleted THEN f ELSE Completed(f)

\* Mutant: the listener opens for an answer that came too late.
DiscoveryReplyAlways(f, usable) ==
    [f EXCEPT !.reply = FALSE, !.mRedirectServer = TRUE, !.mState = TRUE,
              !.mCodeVerifier = TRUE, !.browser = TRUE]

\* handleDiscoveryReply(): an unusable document, or no port to listen on, fails it.
HandleDiscoveryReply(f, usable) ==
    LET answered == [f EXCEPT !.reply = FALSE] IN
    CASE f.mCompleted -> answered
      [] ~f.mCompleted /\ ~usable -> Completed(answered)
      [] OTHER -> [answered EXCEPT !.mRedirectServer = TRUE, !.mState = TRUE,
                                   !.mCodeVerifier = TRUE, !.browser = TRUE]

\* authorizationUrlReady() is told by that call.
AuthorizationUrlReady(f, usable) == ~f.mCompleted /\ usable

\* readRedirectRequest() for a request with the provider's code or an error; any
\* other is refused and changes nothing, as every one does of a finished flow.
ReadRedirectRequest(f) == IF f.mCompleted THEN f ELSE Completed(f)

\* fail() as the timer calls it.
TimedOut(f) == IF f.mCompleted THEN f ELSE Completed(f)

\* A flow that is over holds nothing of the sign-in.
HoldsNothing(f) ==
    ~(f.mTimeoutTimer \/ f.mRedirectServer \/ f.mState \/ f.mCodeVerifier)

=============================================================================
