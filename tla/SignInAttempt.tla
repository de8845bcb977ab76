----------------------------- MODULE SignInAttempt -----------------------------
(***************************************************************************)
(* How GMCPAuthenticator signs a profile in to a game that speaks          *)
(* Char.Login.  Each offer of the game (Char.Login.Default) starts an      *)
(* attempt, at most one a second: the saved sign-in is read, its token     *)
(* replayed, and failing that the provider's browser sign-in is resumed, a *)
(* browser sign-in of the client's own started (OAuthClientFlow), or the   *)
(* game's own screen left to do it.  A token the game rejects is dropped,  *)
(* unless another Mudlet has replaced it in the store meanwhile.           *)
(*                                                                         *)
(* Reads of the store, its changes, the game's answers, the deadline for   *)
(* them, the browser, further offers, lost connections and the player's    *)
(* "forget" come in any order.  SignInStore says what a change of the      *)
(* store goes through; here it is one step, and the reads wait for it and  *)
(* it for them as there.                                                   *)
(*                                                                         *)
(* The profile has no saved password.  A token is a number, in the order   *)
(* the game issued them, and every entry names a provider.                 *)
(***************************************************************************)
EXTENDS Naturals, Sequences, FiniteSets, SequencesExt, OAuthClientFlow

CONSTANTS
    GameOffers,     \* ways to sign in that a game may offer
    SavedBefore,    \* for encrypted connections only? asked of a token saved before
    MaxConnections, \* bound: connections made
    MaxOffers,      \* bound: offers of the game that name one
    MaxTokens,      \* bound: tokens issued
    MaxFailures     \* bound: changes of the store that fail

\* "openid" is "oauth" with the fields of the client's own browser sign-in.
Offers == {"none", "password", "oauth", "openid"}

ASSUME SignInAttemptAssumption ==
    /\ GameOffers \subseteq Offers \ {"none"}
    /\ SavedBefore \subseteq BOOLEAN
    /\ MaxTokens > 0
    /\ {MaxConnections, MaxOffers, MaxTokens, MaxFailures} \subseteq Nat

VARIABLES
    conn,                 \* the connection: its number, up, encrypted
    offer,                \* the capabilities the last offer left
    offers,               \* offers so far that named a way to sign in
    offeredOn,            \* history: the connection the last of them came on
    mSignInOffered,
    mSignInAttemptPending,
    throttled,            \* mLastSignInAttempt is less than a second old
    mConn,                \* of mConn, what concerns the token replayed
    mReconnectRejected,
    reads,                \* the reads of the saved sign-in in progress or waiting
    deadlines,            \* replays, with the offer they answer, whose deadline
                          \* will still be acted on
    reconnectDue,         \* a reconnection is queued
    flows,                \* *mpOAuthFlow and the one given up but not yet deleted
    stored,               \* the saved sign-in
    change,               \* what the reconciler is to make of it
    rejectedTokenHash,    \* the token whose fingerprint the profile keeps
    failures,             \* changes of the store that failed
    asked,                \* replays the game has not answered
    mMaxToken,            \* tokens issued so far
    rotates,              \* the token whose replay the connection was accepted on
    discarded,            \* tokens the player asked to forget, and what came of them
    due,                  \* an offer has not been answered
    strayed               \* history: something went where it did not belong

connVars == <<conn, offer, offers, offeredOn, mSignInOffered, reconnectDue>>
attemptVars == <<mSignInAttemptPending, throttled, mReconnectRejected>>
replayVars == <<mConn, deadlines, asked>>
storeVars == <<stored, change, rejectedTokenHash, failures>>
gameVars == <<mMaxToken, rotates, discarded>>
outcome == <<due, strayed>>
vars == <<connVars, attemptVars, replayVars, reads, flows, storeVars, gameVars, outcome>>

Tokens == 1..MaxTokens

\* An entry of the store: the token it comes from (0: no entry), whether that
\* token is still in it, and whether it is for encrypted connections only.
Absent == [of |-> 0, token |-> FALSE, secureOnly |-> FALSE]
Full(t, secureOnly) == [of |-> t, token |-> TRUE, secureOnly |-> secureOnly]
Hint(t) == [of |-> t, token |-> FALSE, secureOnly |-> TRUE]
NoChange == [of |-> MaxTokens + 1, token |-> FALSE, secureOnly |-> FALSE]

NoReplay == [awaiting |-> FALSE, reconnecting |-> FALSE, forgotten |-> FALSE,
             retried |-> FALSE, sent |-> 0]

\* What bumping mAuthAttemptGeneration makes of the reads rs.
Stale(rs) == [i \in DOMAIN rs |-> [rs[i] EXCEPT !.stale = TRUE]]
Changing == change # NoChange
Reading == \E i \in DOMAIN reads : reads[i].granted

\* What is sent for offer n belongs where it goes if the game is still waiting for
\* an answer to that offer, on the connection it was made on.
Sent(n) ==
    strayed' = (strayed \/ ~(conn.up /\ offeredOn = conn.id /\ n = offers))

-----------------------------------------------------------------------------
(***************************************************************************)
(* The ways to sign in.  Each settles reads, flows, mConn, the deadlines,  *)
(* asked and outcome.                                                      *)
(***************************************************************************)
\* Mutant: the flow is deleted later without being aborted now.
DropClientDrivenOAuth(new) ==
    flows' = [held |-> new,
              retired |-> IF flows.held.mStarted THEN flows.held ELSE flows.retired]

\* cancelClientDrivenOAuth(); flows.held is what mpOAuthFlow becomes.
CancelClientDrivenOAuth(new) ==
    flows' = [held |-> new,
              retired |-> IF flows.held.mStarted THEN Abort(flows.held) ELSE flows.retired]

StartClientDrivenOAuth(n) ==
    \E acceptable \in BOOLEAN :
        /\ CancelClientDrivenOAuth(Start(acceptable, n))
        /\ due' = (due /\ acceptable)

\* selectAuthMethod() for an attempt that answers offer n.
SelectAuthMethod(n) ==
    /\ Sent(n)
    /\ \/ offer = "openid" /\ StartClientDrivenOAuth(n)
       \/ offer # "openid" /\ due' = FALSE /\ UNCHANGED flows

\* Whether sendReconnect() sends the token of the store.
MayReplay == stored.secureOnly => conn.secure

\* sendReconnect(), and what its callers note of it.
SendReconnect(t, n, retried) ==
    /\ mConn' = [awaiting |-> TRUE, reconnecting |-> TRUE, forgotten |-> FALSE,
                 retried |-> retried, sent |-> t]
    /\ deadlines' = deadlines \union {[token |-> t, offer |-> n]}
    /\ asked' = Append(asked, [token |-> t, crossed |-> FALSE])
    /\ Sent(n)
    /\ UNCHANGED <<flows, due>>

-----------------------------------------------------------------------------
(***************************************************************************)
(* Attempts.                                                               *)
(***************************************************************************)
\* readStoredSignInEntry(), the earlier reads being others.
AskRead(others, read) == reads' = Append(others, [read EXCEPT !.granted = ~Changing])

\* The read an attempt at answering offer n begins with.
SignInRead(n, allowToken) ==
    [kind |-> "sign-in", offer |-> n, allowToken |-> allowToken, sent |-> 0,
     retried |-> FALSE, forgotten |-> FALSE, stale |-> FALSE, granted |-> FALSE]

RecoveryRead ==
    [kind |-> "recovery", offer |-> offers, allowToken |-> FALSE, sent |-> mConn.sent,
     retried |-> mConn.retried, forgotten |-> mConn.forgotten, stale |-> FALSE,
     granted |-> FALSE]

AttemptReconnect(others, n) ==
    /\ mReconnectRejected' = FALSE
    /\ AskRead(others, SignInRead(n, ~mReconnectRejected))

\* Mutant: an attempt that was put off outlives the connection it was for.
ResetAllButTheDeferred ==
    /\ mSignInOffered' = FALSE
    /\ reads' = Stale(reads)
    /\ deadlines' = {}
    /\ UNCHANGED <<mSignInAttemptPending, throttled>>

\* resetForNewConnection(): the generations are bumped, mConn stays.
ResetForNewConnection ==
    /\ mSignInOffered' = FALSE
    /\ mSignInAttemptPending' = FALSE
    /\ throttled' = FALSE
    /\ reads' = Stale(reads)
    /\ deadlines' = {}

Connect(secure) ==
    /\ ~conn.up
    /\ conn.id < MaxConnections
    /\ conn' = [id |-> conn.id + 1, up |-> TRUE, secure |-> secure]
    /\ ResetForNewConnection
    /\ UNCHANGED <<offer, offers, offeredOn, reconnectDue, mReconnectRejected, mConn, asked,
                   flows, storeVars, gameVars, outcome>>

\* Lost, or taken down by the queued reconnection, which connects anew.
Disconnect(requested) ==
    /\ requested => reconnectDue
    /\ conn.up \/ requested
    /\ reconnectDue' = (reconnectDue /\ ~requested)
    /\ conn' = [conn EXCEPT !.up = FALSE]
    /\ ResetForNewConnection
    /\ asked' = <<>>
    /\ rotates' = 0
    /\ due' = FALSE
    /\ UNCHANGED <<offer, offers, offeredOn, mReconnectRejected, mConn, flows, storeVars,
                   mMaxToken, discarded, strayed>>

\* Char.Login.Default that names no way to sign in.
OfferNothing ==
    /\ conn.up
    /\ offer' = "none"
    /\ mSignInAttemptPending' = FALSE
    /\ due' = (due /\ ~mSignInAttemptPending)
    /\ UNCHANGED <<conn, offers, offeredOn, mSignInOffered, reconnectDue, throttled,
                   mReconnectRejected, replayVars, reads, flows, storeVars, gameVars, strayed>>

\* Char.Login.Default, with the fields of the browser sign-in ignored in the
\* clear; scheduleSignInAttempt().
Offer(o) ==
    /\ conn.up
    /\ offers < MaxOffers
    /\ offers' = offers + 1
    /\ offeredOn' = conn.id
    /\ offer' = IF o = "openid" /\ ~conn.secure THEN "oauth" ELSE o
    /\ mSignInOffered' = TRUE
    /\ mConn' = NoReplay
    /\ deadlines' = {}
    /\ asked' = [i \in DOMAIN asked |-> [asked[i] EXCEPT !.crossed = TRUE]]
    /\ rotates' = 0
    /\ CancelClientDrivenOAuth(NoFlow)
    /\ due' = TRUE
    /\ IF throttled
       THEN /\ mSignInAttemptPending' = TRUE
            /\ reads' = Stale(reads)
            /\ UNCHANGED <<throttled, mReconnectRejected>>
       ELSE /\ throttled' = TRUE
            /\ AttemptReconnect(Stale(reads), offers')
            /\ UNCHANGED mSignInAttemptPending
    /\ UNCHANGED <<conn, reconnectDue, storeVars, mMaxToken, discarded, strayed>>

\* A second has passed, and the attempt put off until then is made.
ThrottleEnds ==
    /\ throttled
    /\ IF mSignInAttemptPending
       THEN /\ mSignInAttemptPending' = FALSE
            /\ AttemptReconnect(reads, offers)
            /\ UNCHANGED throttled
       ELSE /\ throttled' = FALSE
            /\ UNCHANGED <<mSignInAttemptPending, mReconnectRejected, reads>>
    /\ UNCHANGED <<connVars, replayVars, flows, storeVars, gameVars, outcome>>

-----------------------------------------------------------------------------
(***************************************************************************)
(* The store.                                                              *)
(***************************************************************************)
\* What a read may answer: the entry, the entry without its token because the
\* keychain did not give it, or nothing because the record could not be read.
Answers == {"read"} \union (IF stored.token THEN {"tokenUnreadable"} ELSE {}) \union {"unreadable"}

\* readStoredSignIn(), once the read r is answered.
SignInReadAnswers(r, answer) ==
    LET replays == /\ r.allowToken /\ answer = "read" /\ stored.token
                   /\ stored.of # rejectedTokenHash /\ MayReplay
        resumes == answer # "unreadable" /\ stored.of # 0 /\ offer \in {"oauth", "openid"}
    IN
    /\ r.kind = "sign-in"
    /\ \/ r.stale /\ UNCHANGED <<replayVars, flows, outcome>>
       \/ /\ ~r.stale /\ ~r.forgotten /\ replays
          /\ SendReconnect(stored.of, r.offer, FALSE)
       \/ /\ ~r.stale /\ ~r.forgotten /\ ~replays /\ resumes
          /\ Sent(r.offer)
          /\ due' = FALSE
          /\ UNCHANGED <<replayVars, flows>>
       \/ /\ ~r.stale /\ (r.forgotten \/ ~(replays \/ resumes))
          /\ SelectAuthMethod(r.offer)
          /\ UNCHANGED replayVars
    /\ UNCHANGED <<reconnectDue, mReconnectRejected, change, rejectedTokenHash>>

\* retryOrDropRejectedToken(), once the read r is answered: the token another
\* Mudlet has put there is replayed, or what was rejected is dropped.
RecoveryReadAnswers(r, answer) ==
    LET compared == ~r.forgotten /\ ~r.retried /\ answer = "read" /\ stored.token
        rotated == compared /\ stored.of # r.sent
        stillStored == compared /\ stored.of = r.sent
        fingerprint == IF r.forgotten \/ answer = "read" THEN rejectedTokenHash ELSE r.sent
        drops == stillStored \/ (~rotated /\ ~r.stale)
    IN
    /\ r.kind = "recovery"
    /\ \/ /\ rotated /\ ~r.stale /\ MayReplay
          /\ SendReconnect(stored.of, r.offer, TRUE)
          /\ mReconnectRejected' = FALSE
          /\ UNCHANGED <<reconnectDue, change, rejectedTokenHash>>
       \/ /\ rotated /\ ~r.stale /\ ~MayReplay
          /\ SelectAuthMethod(r.offer)
          /\ UNCHANGED <<replayVars, mReconnectRejected, reconnectDue, change, rejectedTokenHash>>
       \/ /\ ~drops /\ (rotated => r.stale)
          /\ mReconnectRejected' = (mReconnectRejected \/ ~rotated)
          /\ rejectedTokenHash' = IF rotated THEN rejectedTokenHash ELSE fingerprint
          /\ UNCHANGED <<replayVars, flows, outcome, reconnectDue, change>>
       \/ /\ drops
          /\ change' = IF answer = "read" /\ ~r.forgotten /\ ~Changing
                       THEN Hint(r.sent) ELSE change
          /\ rejectedTokenHash' = IF Changing THEN rejectedTokenHash ELSE fingerprint
          /\ reconnectDue' = (reconnectDue \/ ~r.stale)
          /\ due' = (due /\ r.stale)
          /\ UNCHANGED <<replayVars, flows, strayed, mReconnectRejected>>

ReadAnswers(i, answer) ==
    /\ reads[i].granted
    /\ reads' = RemoveAt(reads, i)
    /\ SignInReadAnswers(reads[i], answer) \/ RecoveryReadAnswers(reads[i], answer)
    /\ UNCHANGED <<conn, offer, offers, offeredOn, mSignInOffered, mSignInAttemptPending,
                   throttled, stored, failures, gameVars>>

\* What a change that fails part way may leave.
Remains ==
    {stored, [stored EXCEPT !.token = FALSE]}
        \union (IF change.token THEN {Hint(change.of)} ELSE {})

\* The reconciler reaches what was asked for, or fails and reports it.  A hint
\* that could not be left is a reason to remove everything.  Of a forget that fails
\* the player is told, so what is still stored is not taken for forgotten.
ChangeEnds(reached) ==
    /\ Changing /\ ~Reading
    /\ IF reached
       THEN /\ stored' = change
            /\ change' = NoChange
            /\ rejectedTokenHash' = IF change.token THEN 0 ELSE rejectedTokenHash
            /\ UNCHANGED <<failures, discarded>>
       ELSE /\ failures < MaxFailures
            /\ failures' = failures + 1
            /\ stored' \in Remains
            /\ discarded' = discarded \ {stored'.of}
            /\ change' = IF change.of # 0 /\ ~change.token THEN Absent ELSE NoChange
            /\ UNCHANGED rejectedTokenHash
    /\ reads' = [i \in DOMAIN reads |-> [reads[i] EXCEPT !.granted = change' = NoChange]]
    /\ UNCHANGED <<connVars, attemptVars, replayVars, flows, mMaxToken, rotates, outcome>>

\* forgetSavedSignIn().  Bound: once for each token issued.
ForgetSavedSignIn ==
    /\ ~(1..mMaxToken \subseteq discarded)
    /\ change' = Absent
    /\ mConn' = [mConn EXCEPT !.forgotten = TRUE]
    /\ reads' = [i \in DOMAIN reads |-> [reads[i] EXCEPT !.forgotten = TRUE]]
    /\ discarded' = 1..mMaxToken
    /\ UNCHANGED <<connVars, attemptVars, deadlines, asked, flows, stored, rejectedTokenHash,
                   failures, mMaxToken, rotates, outcome>>

-----------------------------------------------------------------------------
(***************************************************************************)
(* The game, the deadline for its answer, and another Mudlet.              *)
(***************************************************************************)
\* Mutant: a failure is taken for that of a token whatever was sent since.
ResultOfAnyReplay(success) ==
    /\ asked # <<>>
    /\ asked' = Tail(asked)
    /\ mConn' = [mConn EXCEPT !.awaiting = FALSE]
    /\ due' = (due /\ ~success)
    /\ IF success
       THEN UNCHANGED <<mReconnectRejected, reads>>
       ELSE mReconnectRejected' = TRUE /\ AskRead(reads, RecoveryRead)
    /\ UNCHANGED <<connVars, mSignInAttemptPending, throttled, deadlines, flows, storeVars,
                   gameVars, strayed>>

\* Char.Login.Result for the oldest replay.  The game gives its token no other
\* if it had offered again, or was asked for something else, by then.
Result(success) ==
    LET q == Head(asked) IN
    /\ asked # <<>>
    /\ asked' = Tail(asked)
    /\ rotates' = IF success /\ ~q.crossed THEN q.token ELSE rotates
    /\ IF mConn.awaiting
       THEN /\ mConn' = [mConn EXCEPT !.awaiting = FALSE]
            /\ due' = (due /\ ~success)
            /\ IF success
               THEN UNCHANGED <<mReconnectRejected, reads>>
               ELSE mReconnectRejected' = TRUE /\ AskRead(reads, RecoveryRead)
       ELSE UNCHANGED <<mConn, due, mReconnectRejected, reads>>
    /\ UNCHANGED <<connVars, mSignInAttemptPending, throttled, deadlines, flows, storeVars,
                   mMaxToken, discarded, strayed>>

\* Mutant: nothing follows a replay that is not answered.
DeadlineGivesUp(d) ==
    /\ d \in deadlines
    /\ deadlines' = deadlines \ {d}
    /\ mConn' = [mConn EXCEPT !.awaiting = FALSE]
    /\ UNCHANGED <<connVars, attemptVars, reads, flows, asked, storeVars, gameVars, outcome>>

\* armReconnectResultDeadline(): a game that does not answer a replay is one that
\* does not know of them.
DeadlinePasses(d) ==
    /\ d \in deadlines
    /\ deadlines' = deadlines \ {d}
    /\ IF mConn.awaiting
       THEN /\ mConn' = [mConn EXCEPT !.awaiting = FALSE]
            /\ asked' = [i \in DOMAIN asked |-> [asked[i] EXCEPT !.crossed = TRUE]]
            /\ SelectAuthMethod(d.offer)
       ELSE UNCHANGED <<mConn, asked, flows, outcome>>
    /\ UNCHANGED <<connVars, attemptVars, reads, storeVars, gameVars>>

\* Mutant: a rotation is stored whatever was forgotten.
KeepsAnyToken == TRUE

\* storeReconnectToken() drops what replaces a token forgotten since its replay.
KeepsToken == ~(mConn.reconnecting /\ mConn.forgotten)

\* Char.Login.Token: secure_only is what the game says or as the connection is.
IssueToken(secureOnly) ==
    LET t == mMaxToken + 1 IN
    /\ conn.up
    /\ t \in Tokens
    /\ mMaxToken' = t
    /\ discarded' = discarded \union (IF rotates \in discarded THEN {t} ELSE {})
    /\ rotates' = IF rotates = 0 THEN 0 ELSE t
    /\ change' = IF mSignInOffered /\ KeepsToken THEN Full(t, secureOnly) ELSE change
    /\ UNCHANGED <<connVars, attemptVars, replayVars, reads, flows, stored,
                   rejectedTokenHash, failures, outcome>>

\* Char.Login.URL: the game starts a browser sign-in of its own.
AuthUrl ==
    /\ conn.up
    /\ mConn.reconnecting
    /\ mConn' = [mConn EXCEPT !.reconnecting = FALSE]
    /\ rotates' = 0
    /\ asked' = [i \in DOMAIN asked |-> [asked[i] EXCEPT !.crossed = TRUE]]
    /\ UNCHANGED <<connVars, attemptVars, deadlines, reads, flows, storeVars,
                   mMaxToken, discarded, outcome>>

\* Another Mudlet with this profile open replays the stored token and stores
\* the one it is given for it.
OtherMudletRotates(secureOnly) ==
    LET t == mMaxToken + 1 IN
    /\ stored.token
    /\ t \in Tokens
    /\ mMaxToken' = t
    /\ stored' = Full(t, secureOnly)
    /\ discarded' = discarded \union (IF stored.of \in discarded THEN {t} ELSE {})
    /\ UNCHANGED <<connVars, attemptVars, replayVars, reads, flows, change,
                   rejectedTokenHash, failures, rotates, outcome>>

-----------------------------------------------------------------------------
(***************************************************************************)
(* The browser sign-in, which tells its owner even once it was given up,   *)
(* if its own flag does not stop it.                                       *)
(***************************************************************************)
FlowStep(which, f, settles) ==
    /\ due' = (due /\ ~settles)
    /\ flows' = [flows EXCEPT ![which] = f]

DiscoveryReplies(which, usable) ==
    LET f == flows[which]
        ready == AuthorizationUrlReady(f, usable)
    IN
    /\ f.reply
    /\ FlowStep(which, HandleDiscoveryReply(f, usable), ~f.mCompleted /\ ~usable)
    /\ mConn' = [mConn EXCEPT !.reconnecting = mConn.reconnecting /\ ~ready]
    /\ asked' = [i \in DOMAIN asked |-> [asked[i] EXCEPT !.crossed = asked[i].crossed \/ ready]]
    /\ rotates' = IF ready THEN 0 ELSE rotates
    /\ UNCHANGED <<connVars, attemptVars, deadlines, reads, storeVars, mMaxToken,
                   discarded, strayed>>

\* The browser comes back with an error, or with a code, which sendAuthCode()
\* passes on if the connection is encrypted; either way the flow is given up.  A
\* later offer gives the flow up, a later connection does not: until the game has
\* made an offer on it the code of an offer on an earlier one may be sent to it.
BrowserReturns(which, code) ==
    LET f == flows[which] IN
    /\ f.browser
    /\ ~f.mCompleted
    /\ IF code
       THEN /\ flows' = [held |-> NoFlow, retired |-> ReadRedirectRequest(f)]
            /\ due' = FALSE
            /\ strayed' = (strayed \/ (conn.up /\ conn.secure /\ f.offer # offers))
       ELSE /\ FlowStep(which, ReadRedirectRequest(f), TRUE)
            /\ UNCHANGED strayed
    /\ UNCHANGED <<connVars, attemptVars, replayVars, reads, storeVars, gameVars>>

FlowTimesOut(which) ==
    /\ flows[which].mTimeoutTimer
    /\ FlowStep(which, TimedOut(flows[which]), ~flows[which].mCompleted)
    /\ UNCHANGED <<connVars, attemptVars, replayVars, reads, storeVars, gameVars, strayed>>

\* The deferred deletion of a flow that was given up.
FlowDeleted ==
    /\ flows.retired.mStarted
    /\ flows' = [flows EXCEPT !.retired = NoFlow]
    /\ UNCHANGED <<connVars, attemptVars, replayVars, reads, storeVars, gameVars, outcome>>

-----------------------------------------------------------------------------
\* A token may have been saved in an earlier session.
Init ==
    /\ conn = [id |-> 0, up |-> FALSE, secure |-> FALSE]
    /\ offer = "none" /\ offers = 0 /\ offeredOn = 0 /\ mSignInOffered = FALSE
    /\ mSignInAttemptPending = FALSE /\ throttled = FALSE
    /\ mConn = NoReplay /\ mReconnectRejected = FALSE
    /\ reads = <<>> /\ deadlines = {} /\ reconnectDue = FALSE
    /\ flows = [held |-> NoFlow, retired |-> NoFlow]
    /\ mMaxToken = 1
    /\ stored \in {Absent} \union {Full(1, secureOnly) : secureOnly \in SavedBefore}
    /\ change = NoChange /\ rejectedTokenHash = 0 /\ failures = 0
    /\ asked = <<>> /\ rotates = 0 /\ discarded = {}
    /\ due = FALSE /\ strayed = FALSE

Reads == \E i \in DOMAIN reads, answer \in Answers : ReadAnswers(i, answer)

Next ==
    \/ \E secure \in BOOLEAN : Connect(secure)
    \/ \E requested \in BOOLEAN : Disconnect(requested)
    \/ OfferNothing
    \/ \E o \in GameOffers : Offer(o)
    \/ ThrottleEnds
    \/ Reads
    \/ \E reached \in BOOLEAN : ChangeEnds(reached)
    \/ ForgetSavedSignIn
    \/ \E success \in BOOLEAN : Result(success)
    \/ \E d \in deadlines : DeadlinePasses(d)
    \/ \E secureOnly \in BOOLEAN : IssueToken(secureOnly)
    \/ AuthUrl
    \/ \E secureOnly \in BOOLEAN : OtherMudletRotates(secureOnly)
    \/ \E which \in DOMAIN flows :
          \/ \E usable \in BOOLEAN : DiscoveryReplies(which, usable)
          \/ \E code \in BOOLEAN : BrowserReturns(which, code)
          \/ FlowTimesOut(which)
    \/ FlowDeleted

Spec == Init /\ [][Next]_vars

\* Timers ring, and the store answers (SignInStore: EveryAnswerComes);
\* nothing is asked of the game, the network or the player.
FairSpec ==
    /\ Spec
    /\ WF_vars(ThrottleEnds)
    /\ WF_vars(Reads)
    /\ WF_vars(\E reached \in BOOLEAN : ChangeEnds(reached))
    /\ WF_vars(\E d \in deadlines : DeadlinePasses(d))
    /\ WF_vars(\E which \in DOMAIN flows : FlowTimesOut(which))

-----------------------------------------------------------------------------
Entries == {NoChange} \union [of : 0..MaxTokens, token : BOOLEAN, secureOnly : BOOLEAN]

ReadRecords ==
    [kind : {"sign-in", "recovery"}, offer : 0..MaxOffers, allowToken : BOOLEAN,
     sent : 0..MaxTokens, retried : BOOLEAN, forgotten : BOOLEAN, stale : BOOLEAN,
     granted : BOOLEAN]

\* At most one read, the latest, is not stale.
TypeOK ==
    /\ conn \in [id : 0..MaxConnections, up : BOOLEAN, secure : BOOLEAN]
    /\ offer \in Offers /\ offers \in 0..MaxOffers /\ offeredOn \in 0..MaxConnections
    /\ mConn \in [awaiting : BOOLEAN, reconnecting : BOOLEAN, forgotten : BOOLEAN,
                  retried : BOOLEAN, sent : 0..MaxTokens]
    /\ reads \in Seq(ReadRecords)
    /\ \A i \in DOMAIN reads : reads[i].stale \/ i = Len(reads)
    /\ deadlines \subseteq [token : Tokens, offer : 0..MaxOffers]
    /\ flows \in [held : Flow, retired : Flow]
    /\ stored \in Entries \ {NoChange} /\ change \in Entries
    /\ rejectedTokenHash \in 0..MaxTokens /\ failures \in 0..MaxFailures
    /\ asked \in Seq([token : Tokens, crossed : BOOLEAN])
    /\ mMaxToken \in 0..MaxTokens /\ rotates \in 0..MaxTokens /\ discarded \subseteq Tokens
    /\ {mSignInOffered, mSignInAttemptPending, throttled, mReconnectRejected,
        reconnectDue, due, strayed} \subseteq BOOLEAN

\* What an attempt sends - a replay, a browser sign-in resumed or left to the game,
\* a request for a password - is sent while the game is waiting for an answer to the
\* offer it was decided for, on the connection that offer was made on: no read,
\* deadline or attempt that was put off answers for an earlier offer or connection.
\* The code a browser comes back with is sent for the last offer only; that the
\* connection is still that of the offer is not so, and not claimed
\* (GMCPAuthenticator.cpp 274-298).
NothingStrays == ~strayed

\* Once the player asked to forget the saved sign-in nothing of it is saved
\* again, neither its token nor one that replaces it nor a hint, unless the game
\* had been asked for another sign-in between the replay and its answer
\* (GMCPAuthenticator.cpp 684-690, 1100-1118).
ForgottenStaysForgotten == Changing => change.of \notin discarded

\* However a browser sign-in ends, and whatever arrives after that, no timer, no
\* listener and no secret of it is left (OAuthClientFlow.cpp 154-168, 312-325).
FinishedFlowHoldsNothing ==
    \A which \in DOMAIN flows : flows[which].mCompleted => HoldsNothing(flows[which])

\* Every offer that names a way to sign in is answered, withdrawn or reported as
\* failed, whatever is lost or stays unanswered on the way.
OffersAreAnswered == due ~> ~due

=============================================================================
