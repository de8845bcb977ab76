-------------------------- MODULE SignInAttemptProofs --------------------------
(***************************************************************************)
(* Theorems about SignInAttempt: what an attempt sends goes to the         *)
(* connection and the offer it was decided for and a browser's code to its *)
(* offer, what the player asked to forget is not saved again, and a        *)
(* browser sign-in that is over holds nothing.                             *)
(***************************************************************************)
EXTENDS SignInAttempt, TLAPS

-----------------------------------------------------------------------------
(***************************************************************************)
(* The inductive invariant.                                                *)
(***************************************************************************)
\* The flows that hold nothing once they are over.
Tidy == {f \in Flow : f.mCompleted => HoldsNothing(f)}

\* A flow of which an answer, of the network or the browser, is still acted on.
Answering(f) == (f.reply \/ f.browser) /\ ~f.mCompleted

\* Only the flow that is held is answered, and it is for the last offer.
FlowsOK ==
    /\ flows.held \in Tidy /\ flows.retired \in Tidy
    /\ Answering(flows.held) => flows.held.offer = offers
    /\ ~Answering(flows.retired)

\* No read in progress will act on a saved sign-in as if it were still wanted.
Spared == \A i \in DOMAIN reads : reads[i].stale \/ reads[i].forgotten

\* A read that is not superseded is for the last offer, no replay is out and no
\* attempt put off meanwhile; and the token it was asked about, and that it may
\* find, is none to forget unless the read is told so.
ReadOK(r) ==
    /\ r.sent <= mMaxToken
    /\ ~r.stale => /\ conn.up /\ mSignInOffered /\ r.offer = offers
                   /\ ~mSignInAttemptPending /\ ~mConn.awaiting
    /\ r.kind = "recovery" /\ ~r.forgotten => r.sent \notin discarded
    /\ r.granted /\ ~r.forgotten => stored.of \notin discarded

ReadsOK == \A i \in DOMAIN reads : ReadOK(reads[i])

\* A replay whose token the game will still rotate is the one mConn is about.
ReplayedOK(q) ==
    /\ conn.up /\ mSignInOffered
    /\ q.token <= mMaxToken
    /\ ~q.crossed => mConn.reconnecting /\ ~mSignInAttemptPending
    /\ ~q.crossed /\ q.token \in discarded => mConn.forgotten /\ Spared

AskedOK == \A i \in DOMAIN asked : ReplayedOK(asked[i])

RotatesOK ==
    /\ rotates <= mMaxToken
    /\ rotates # 0 => mConn.reconnecting /\ ~mSignInAttemptPending
    /\ rotates \in discarded => mConn.forgotten /\ Spared

ReplayOK ==
    /\ mConn.sent <= mMaxToken
    /\ mConn.awaiting /\ ~mConn.forgotten => mConn.sent \notin discarded
    /\ mSignInAttemptPending => throttled /\ conn.up /\ mSignInOffered /\ ~mConn.awaiting
    /\ mSignInOffered => conn.up /\ offeredOn = conn.id
    /\ \A d \in deadlines : mSignInOffered /\ d.offer = offers

\* With nothing to change, what is stored is not what was to be forgotten.
StoreOK ==
    /\ stored.of <= mMaxToken /\ (stored.token => stored.of > 0)
    /\ Changing => change.of <= mMaxToken /\ (change.token => change.of > 0)
    /\ discarded \subseteq 1..mMaxToken
    /\ ~Changing => stored.of \notin discarded

IInv ==
    /\ TypeOK
    /\ FlowsOK
    /\ ReadsOK
    /\ AskedOK
    /\ RotatesOK
    /\ ReplayOK
    /\ StoreOK
    /\ NothingStrays
    /\ ForgottenStaysForgotten

-----------------------------------------------------------------------------
(***************************************************************************)
(* What the actions do to the reads and to the replays that are out.       *)
(***************************************************************************)
LEMMA MappedSequence ==
    ASSUME NEW S, NEW T, NEW s \in Seq(S), NEW f,
           f = [i \in DOMAIN s |-> f[i]],
           \A i \in DOMAIN s : f[i] \in T
    PROVE  f \in Seq(T) /\ Len(f) = Len(s) /\ DOMAIN f = DOMAIN s
<1>1. DOMAIN s = 1..Len(s) /\ Len(s) \in Nat
    OBVIOUS
<1>2. f \in [1..Len(s) -> T]
    BY <1>1
<1> QED
    BY <1>1, <1>2

LEMMA RemoveAtIs ==
    ASSUME NEW S, NEW s \in Seq(S), NEW i \in DOMAIN s
    PROVE  /\ RemoveAt(s, i) \in Seq(S)
           /\ DOMAIN RemoveAt(s, i) = 1..(Len(s) - 1)
           /\ Len(RemoveAt(s, i)) = Len(s) - 1
           /\ \A k \in 1..(Len(s) - 1) :
                 RemoveAt(s, i)[k] = s[IF k < i THEN k ELSE k + 1]
<1> DEFINE a == SubSeq(s, 1, i - 1)
           b == SubSeq(s, i + 1, Len(s))
<1>1. Len(s) \in Nat /\ DOMAIN s = 1..Len(s) /\ i \in 1..Len(s)
    OBVIOUS
<1>2. a \in Seq(S) /\ Len(a) = i - 1 /\ \A k \in 1..(i - 1) : a[k] = s[k]
    BY <1>1
<1>3. b \in Seq(S) /\ Len(b) = Len(s) - i /\ \A k \in 1..(Len(s) - i) : b[k] = s[i + k]
    BY <1>1
<1>4. RemoveAt(s, i) = a \o b
    BY DEF RemoveAt
<1> HIDE DEF a, b
<1>5. a \o b \in Seq(S) /\ Len(a \o b) = Len(a) + Len(b)
    <2>1. a \in Seq(S) /\ b \in Seq(S)
        BY <1>2, <1>3
    <2> QED
        BY <2>1
<1>7. Len(a \o b) = Len(s) - 1
    BY <1>1, <1>2, <1>3, <1>5
<1>8. DOMAIN (a \o b) = 1..(Len(s) - 1)
    BY <1>5, <1>7
<1>6. ASSUME NEW k \in 1..(Len(s) - 1)
      PROVE  (a \o b)[k] = s[IF k < i THEN k ELSE k + 1]
    <2>1. CASE k < i
        BY <1>1, <1>2, <1>3, <2>1
    <2>2. CASE ~(k < i)
        <3>1. (a \o b)[k] = b[k - Len(a)]
            BY <1>1, <1>2, <1>3, <2>2
        <3>2. k - Len(a) \in 1..(Len(s) - i) /\ i + (k - Len(a)) = k + 1
            BY <1>1, <1>2, <2>2
        <3>3. b[k - Len(a)] = s[i + (k - Len(a))]
            BY <1>3, <3>2
        <3> QED
            BY <3>1, <3>2, <3>3, <2>2
    <2> QED
        BY <2>1, <2>2
<1> QED
    BY <1>4, <1>5, <1>6, <1>7, <1>8

LatestOnly(rs) == \A i \in DOMAIN rs : rs[i].stale \/ i = Len(rs)
AllStale(rs) == \A i \in DOMAIN rs : rs[i].stale

LEMMA StaleIs ==
    ASSUME NEW rs \in Seq(ReadRecords)
    PROVE  /\ Stale(rs) \in Seq(ReadRecords)
           /\ DOMAIN Stale(rs) = DOMAIN rs
           /\ AllStale(Stale(rs)) /\ LatestOnly(Stale(rs))
           /\ \A i \in DOMAIN rs : Stale(rs)[i] = [rs[i] EXCEPT !.stale = TRUE]
<1> DEFINE f == Stale(rs)
<1>1. f = [i \in DOMAIN rs |-> [rs[i] EXCEPT !.stale = TRUE]]
    BY DEF Stale
<1> HIDE DEF f
<1>2. f = [i \in DOMAIN rs |-> f[i]]
    BY <1>1
<1>3. ASSUME NEW i \in DOMAIN rs
      PROVE  f[i] = [rs[i] EXCEPT !.stale = TRUE] /\ f[i] \in ReadRecords /\ f[i].stale
    <2>1. rs[i] \in ReadRecords
        OBVIOUS
    <2> QED
        BY <1>1, <2>1 DEF ReadRecords
<1>4. f \in Seq(ReadRecords) /\ DOMAIN f = DOMAIN rs
    BY <1>2, <1>3, MappedSequence
<1> QED
    BY <1>3, <1>4 DEF f, AllStale, LatestOnly

LEMMA AppendedRead ==
    ASSUME NEW rs \in Seq(ReadRecords), AllStale(rs), NEW r \in ReadRecords
    PROVE  /\ Append(rs, r) \in Seq(ReadRecords)
           /\ LatestOnly(Append(rs, r))
           /\ \A i \in DOMAIN Append(rs, r) :
                 Append(rs, r)[i] = r \/ \E j \in DOMAIN rs : Append(rs, r)[i] = rs[j]
<1>1. Len(rs) \in Nat /\ DOMAIN rs = 1..Len(rs)
    OBVIOUS
<1>2. Append(rs, r) \in Seq(ReadRecords) /\ Len(Append(rs, r)) = Len(rs) + 1
      /\ DOMAIN Append(rs, r) = 1..(Len(rs) + 1)
    BY <1>1
<1>3. ASSUME NEW i \in 1..(Len(rs) + 1)
      PROVE  \/ i = Len(rs) + 1 /\ Append(rs, r)[i] = r
             \/ i \in DOMAIN rs /\ Append(rs, r)[i] = rs[i] /\ rs[i].stale
    BY <1>1 DEF AllStale
<1> QED
    BY <1>1, <1>2, <1>3 DEF LatestOnly

LEMMA RemovedRead ==
    ASSUME NEW rs \in Seq(ReadRecords), LatestOnly(rs), NEW i \in DOMAIN rs
    PROVE  /\ RemoveAt(rs, i) \in Seq(ReadRecords)
           /\ LatestOnly(RemoveAt(rs, i))
           /\ \A k \in DOMAIN RemoveAt(rs, i) :
                 \E j \in DOMAIN rs : RemoveAt(rs, i)[k] = rs[j]
           /\ ~rs[i].stale => AllStale(RemoveAt(rs, i))
<1> DEFINE new == RemoveAt(rs, i)
<1>1. /\ new \in Seq(ReadRecords)
      /\ DOMAIN new = 1..(Len(rs) - 1) /\ Len(new) = Len(rs) - 1
      /\ \A k \in 1..(Len(rs) - 1) : new[k] = rs[IF k < i THEN k ELSE k + 1]
    BY RemoveAtIs
<1>2. Len(rs) \in Nat /\ DOMAIN rs = 1..Len(rs)
    OBVIOUS
<1> HIDE DEF new
<1>3. ASSUME NEW k \in DOMAIN new
      PROVE  /\ \E j \in DOMAIN rs : new[k] = rs[j]
             /\ new[k].stale \/ (i # Len(rs) /\ k = Len(new))
    <2> DEFINE j == IF k < i THEN k ELSE k + 1
    <2>1. j \in DOMAIN rs /\ new[k] = rs[j] /\ (j = Len(rs) => i # Len(rs) /\ k = Len(new))
        BY <1>1, <1>2
    <2> QED
        BY <2>1 DEF LatestOnly
<1>4. ~rs[i].stale => i = Len(rs)
    BY DEF LatestOnly
<1> QED
    BY <1>1, <1>3, <1>4 DEF LatestOnly, AllStale, new

-----------------------------------------------------------------------------
(***************************************************************************)
(* A browser sign-in stays tidy whatever is done to it.                    *)
(***************************************************************************)
LEMMA CompletedIsTidy ==
    ASSUME NEW f \in Flow
    PROVE  Completed(f) \in Tidy /\ Completed(f).mCompleted
    BY DEF Tidy, Flow, Completed, Cleanup, HoldsNothing

LEMMA NoFlowIsTidy == NoFlow \in Tidy /\ ~NoFlow.mCompleted /\ ~Answering(NoFlow)
    BY DEF Tidy, Flow, NoFlow, HoldsNothing, Answering

LEMMA StepsAreTidy ==
    ASSUME NEW f \in Tidy, NEW usable \in BOOLEAN
    PROVE  /\ Abort(f) \in Tidy /\ Abort(f).mCompleted
           /\ ReadRedirectRequest(f) \in Tidy /\ ReadRedirectRequest(f).mCompleted
           /\ TimedOut(f) \in Tidy /\ TimedOut(f).mCompleted
           /\ HandleDiscoveryReply(f, usable) \in Tidy
           /\ HandleDiscoveryReply(f, usable).offer = f.offer
           /\ f.mCompleted => HandleDiscoveryReply(f, usable).mCompleted
<1>1. f \in Flow /\ (f.mCompleted => HoldsNothing(f))
    BY DEF Tidy
<1>2. /\ Abort(f) \in Tidy /\ Abort(f).mCompleted
      /\ ReadRedirectRequest(f) \in Tidy /\ ReadRedirectRequest(f).mCompleted
      /\ TimedOut(f) \in Tidy /\ TimedOut(f).mCompleted
    BY <1>1, CompletedIsTidy DEF Abort, ReadRedirectRequest, TimedOut
<1>3. /\ HandleDiscoveryReply(f, usable) \in Tidy
      /\ HandleDiscoveryReply(f, usable).offer = f.offer
      /\ f.mCompleted => HandleDiscoveryReply(f, usable).mCompleted
    <2> DEFINE answered == [f EXCEPT !.reply = FALSE]
               ready == [answered EXCEPT !.mRedirectServer = TRUE, !.mState = TRUE,
                                         !.mCodeVerifier = TRUE, !.browser = TRUE]
    <2>1. /\ answered \in Flow /\ (f.mCompleted => answered \in Tidy)
          /\ answered.offer = f.offer /\ answered.mCompleted = f.mCompleted
        BY <1>1 DEF Tidy, Flow, HoldsNothing
    <2>2. (~f.mCompleted => ready \in Tidy) /\ ready.offer = f.offer
        BY <1>1 DEF Tidy, Flow
    <2>3. Completed(answered) \in Tidy /\ Completed(answered).offer = f.offer
        <3> HIDE DEF answered
        <3>1. Completed(answered).offer = answered.offer
            BY <2>1 DEF Completed, Cleanup, Flow
        <3> QED
            BY <2>1, <3>1, CompletedIsTidy
    <2>4. /\ f.mCompleted => HandleDiscoveryReply(f, usable) = answered
          /\ ~f.mCompleted /\ ~usable => HandleDiscoveryReply(f, usable) = Completed(answered)
          /\ ~f.mCompleted /\ usable => HandleDiscoveryReply(f, usable) = ready
        BY DEF HandleDiscoveryReply
    <2> HIDE DEF answered, ready
    <2> QED
        BY <2>1, <2>2, <2>3, <2>4
<1> QED
    BY <1>2, <1>3

LEMMA StartIsTidy ==
    ASSUME NEW acceptable \in BOOLEAN, NEW n \in Nat
    PROVE  Start(acceptable, n) \in Tidy /\ Start(acceptable, n).offer = n
<1> DEFINE started == [NoFlow EXCEPT !.mStarted = TRUE, !.offer = n]
<1>1. started \in Flow /\ started.offer = n
    BY DEF NoFlow, Flow
<1>2. /\ [started EXCEPT !.mTimeoutTimer = TRUE, !.reply = TRUE, !.mState = TRUE] \in Tidy
      /\ [started EXCEPT !.mTimeoutTimer = TRUE, !.reply = TRUE, !.mState = TRUE].offer = n
    BY DEF NoFlow, Flow, Tidy
<1>3. Start(acceptable, n) =
          IF acceptable
          THEN [started EXCEPT !.mTimeoutTimer = TRUE, !.reply = TRUE, !.mState = TRUE]
          ELSE Completed(started)
    BY DEF Start
<1> HIDE DEF started
<1>4. Completed(started) \in Tidy /\ Completed(started).offer = n
    BY <1>1, CompletedIsTidy DEF Completed, Cleanup, Flow
<1> QED
    BY <1>2, <1>3, <1>4

LEMMA CancelKeepsTidy ==
    ASSUME FlowsOK, NEW new \in Tidy, Answering(new) => new.offer = offers',
           CancelClientDrivenOAuth(new)
    PROVE  FlowsOK' /\ flows' \in [held : Flow, retired : Flow]
<1>1. Abort(flows.held) \in Tidy /\ ~Answering(Abort(flows.held))
    BY StepsAreTidy DEF FlowsOK, Answering
<1>2. flows' = [held |-> new,
                retired |-> IF flows.held.mStarted THEN Abort(flows.held) ELSE flows.retired]
    BY DEF CancelClientDrivenOAuth
<1>3. /\ flows'.held = new
      /\ flows'.retired \in Tidy /\ ~Answering(flows'.retired)
    BY <1>1, <1>2 DEF FlowsOK
<1> QED
    BY <1>2, <1>3 DEF FlowsOK, Answering, Tidy

LEMMA SelectSettles ==
    ASSUME TypeOK, FlowsOK, offers' = offers, SelectAuthMethod(offers)
    PROVE  /\ FlowsOK' /\ flows' \in [held : Flow, retired : Flow]
           /\ due' \in BOOLEAN /\ strayed' \in BOOLEAN
           /\ conn.up /\ offeredOn = conn.id /\ ~strayed => ~strayed'
<1>1. strayed' \in BOOLEAN
      /\ (conn.up /\ offeredOn = conn.id /\ ~strayed => ~strayed')
    BY DEF SelectAuthMethod, Sent
<1>2. CASE UNCHANGED flows /\ due' = FALSE
    BY <1>1, <1>2 DEF FlowsOK, Answering, TypeOK
<1>3. CASE StartClientDrivenOAuth(offers)
    <2>1. PICK acceptable \in BOOLEAN : /\ CancelClientDrivenOAuth(Start(acceptable, offers))
                                        /\ due' = (due /\ acceptable)
        BY <1>3 DEF StartClientDrivenOAuth
    <2>2. Start(acceptable, offers) \in Tidy /\ Start(acceptable, offers).offer = offers
        BY StartIsTidy DEF TypeOK
    <2>3. due' \in BOOLEAN
        BY <2>1
    <2> QED
        BY <1>1, <2>1, <2>2, <2>3, CancelKeepsTidy
<1> QED
    BY <1>2, <1>3 DEF SelectAuthMethod

\* The bounds on tokens, which are numbers.
LEMMA TokenBounds ==
    /\ MaxTokens \in Nat /\ MaxTokens > 0 /\ MaxConnections \in Nat
    /\ MaxOffers \in Nat /\ MaxFailures \in Nat
    /\ Tokens = 1..MaxTokens /\ Tokens \subseteq 0..MaxTokens /\ Tokens \subseteq Nat
    BY SignInAttemptAssumption DEF Tokens

\* An entry of the store is none of the values that stand for "no change".
LEMMA EntriesAre ==
    ASSUME NEW t \in 0..MaxTokens, NEW b \in BOOLEAN
    PROVE  /\ Full(t, b) \in Entries \ {NoChange} /\ Hint(t) \in Entries \ {NoChange}
           /\ Absent \in Entries \ {NoChange}
           /\ Full(t, b).of = t /\ Full(t, b).token
           /\ Hint(t).of = t /\ ~Hint(t).token
           /\ Absent.of = 0 /\ ~Absent.token
<1>1. MaxTokens \in Nat
    BY TokenBounds
<1> QED
    BY <1>1 DEF Full, Hint, Absent, NoChange, Entries

LEMMA AbsentIs ==
    Absent \in Entries \ {NoChange} /\ Absent.of = 0 /\ ~Absent.token
<1>1. 0 \in 0..MaxTokens
    BY TokenBounds
<1> QED
    BY <1>1, EntriesAre

LEMMA EntryIs ==
    ASSUME NEW e \in Entries, e # NoChange
    PROVE  e \in [of : 0..MaxTokens, token : BOOLEAN, secureOnly : BOOLEAN]
           /\ [e EXCEPT !.token = FALSE] \in Entries \ {NoChange}
<1>1. e \in [of : 0..MaxTokens, token : BOOLEAN, secureOnly : BOOLEAN]
    BY DEF Entries
<1>2. MaxTokens + 1 \notin 0..MaxTokens
    BY TokenBounds
<1> QED
    BY <1>1, <1>2 DEF NoChange, Entries

LEMMA IInvInit == Init => IInv
<1> SUFFICES ASSUME Init
             PROVE  IInv
    OBVIOUS
<1>1. FlowsOK /\ flows \in [held : Flow, retired : Flow] /\ FinishedFlowHoldsNothing
    BY NoFlowIsTidy DEF Init, FlowsOK, Tidy, FinishedFlowHoldsNothing
<1>2. stored \in Entries \ {NoChange} /\ (stored = Absent \/ stored.of = 1)
    <2>1. 1 \in 0..MaxTokens /\ 0 \in 0..MaxTokens
        BY TokenBounds
    <2>2. SavedBefore \subseteq BOOLEAN
        BY SignInAttemptAssumption
    <2>3. PICK secureOnly \in BOOLEAN : stored = Absent \/ stored = Full(1, secureOnly)
        BY <2>2 DEF Init
    <2> QED
        BY <2>1, <2>3, EntriesAre
<1>3. TypeOK
    <2>1. /\ conn \in [id : 0..MaxConnections, up : BOOLEAN, secure : BOOLEAN]
          /\ offer \in Offers /\ offers \in 0..MaxOffers /\ offeredOn \in 0..MaxConnections
          /\ mConn \in [awaiting : BOOLEAN, reconnecting : BOOLEAN, forgotten : BOOLEAN,
                        retried : BOOLEAN, sent : 0..MaxTokens]
        BY TokenBounds DEF Init, NoReplay, Offers
    <2>2. /\ reads \in Seq(ReadRecords) /\ \A i \in DOMAIN reads : reads[i].stale \/ i = Len(reads)
          /\ asked \in Seq([token : Tokens, crossed : BOOLEAN])
          /\ deadlines \subseteq [token : Tokens, offer : 0..MaxOffers]
        BY DEF Init
    <2>3. /\ change \in Entries
          /\ rejectedTokenHash \in 0..MaxTokens /\ failures \in 0..MaxFailures
          /\ mMaxToken \in 0..MaxTokens /\ rotates \in 0..MaxTokens /\ discarded \subseteq Tokens
        BY TokenBounds DEF Init, Entries
    <2>4. {mSignInOffered, mSignInAttemptPending, throttled, mReconnectRejected,
           reconnectDue, due, strayed} \subseteq BOOLEAN
        BY DEF Init
    <2> QED
        BY <1>1, <1>2, <2>1, <2>2, <2>3, <2>4 DEF TypeOK
<1>4. ReadsOK /\ AskedOK
    BY DEF Init, ReadsOK, AskedOK
<1>5. RotatesOK /\ ReplayOK
    BY DEF Init, RotatesOK, ReplayOK, NoReplay
<1>6. StoreOK
    BY <1>2 DEF Init, StoreOK, Changing, Absent
<1> QED
    BY <1>1, <1>3, <1>4, <1>5, <1>6
    DEF Init, IInv, NothingStrays, ForgottenStaysForgotten, Changing

-----------------------------------------------------------------------------
(***************************************************************************)
(* Reads that are asked for.                                               *)
(***************************************************************************)
LEMMA AttemptAsks ==
    ASSUME TypeOK, NEW others \in Seq(ReadRecords), AllStale(others), NEW n \in 0..MaxOffers,
           AttemptReconnect(others, n)
    PROVE  /\ mReconnectRejected' = FALSE
           /\ reads' \in Seq(ReadRecords) /\ LatestOnly(reads')
           /\ \A i \in DOMAIN reads' :
                 \/ \E j \in DOMAIN others : reads'[i] = others[j]
                 \/ /\ reads'[i].kind = "sign-in" /\ reads'[i].offer = n
                    /\ reads'[i].sent = 0 /\ ~reads'[i].forgotten
                    /\ reads'[i].granted => ~Changing
<1> DEFINE r == [SignInRead(n, ~mReconnectRejected) EXCEPT !.granted = ~Changing]
<1>1. /\ r \in ReadRecords
      /\ r.kind = "sign-in" /\ r.offer = n /\ r.sent = 0 /\ ~r.forgotten
      /\ r.granted => ~Changing
    <2>1. 0 \in 0..MaxTokens
        BY TokenBounds
    <2> DEFINE g == ~Changing
               a == ~mReconnectRejected
    <2>2. g \in BOOLEAN /\ a \in BOOLEAN
        OBVIOUS
    <2>3. r = [SignInRead(n, a) EXCEPT !.granted = g]
        OBVIOUS
    <2>5. SignInRead(n, a) =
              [kind |-> "sign-in", offer |-> n, allowToken |-> a, sent |-> 0,
               retried |-> FALSE, forgotten |-> FALSE, stale |-> FALSE, granted |-> FALSE]
        BY DEF SignInRead
    <2>4. g => ~Changing
        OBVIOUS
    <2> DEFINE asking == SignInRead(n, a)
    <2> HIDE DEF r, g, a
    <2>6. /\ asking \in ReadRecords /\ asking.kind = "sign-in" /\ asking.offer = n
          /\ asking.sent = 0 /\ asking.forgotten = FALSE
        BY <2>1, <2>2, <2>5 DEF ReadRecords
    <2> HIDE DEF asking
    <2>7. r = [asking EXCEPT !.granted = g]
        BY <2>3 DEF asking
    <2> QED
        BY <2>2, <2>4, <2>6, <2>7 DEF ReadRecords
<1>2. reads' = Append(others, r) /\ mReconnectRejected' = FALSE
    BY DEF AttemptReconnect, AskRead
<1> HIDE DEF r
<1> QED
    BY <1>1, <1>2, AppendedRead

LEMMA RecoveryAsks ==
    ASSUME TypeOK, AllStale(reads), AskRead(reads, RecoveryRead)
    PROVE  /\ reads' \in Seq(ReadRecords) /\ LatestOnly(reads')
           /\ \A i \in DOMAIN reads' :
                 \/ \E j \in DOMAIN reads : reads'[i] = reads[j]
                 \/ /\ reads'[i].offer = offers /\ reads'[i].sent = mConn.sent
                    /\ reads'[i].forgotten = mConn.forgotten
                    /\ reads'[i].granted => ~Changing
<1> DEFINE r == [RecoveryRead EXCEPT !.granted = ~Changing]
<1>1. /\ r \in ReadRecords
      /\ r.offer = offers /\ r.sent = mConn.sent /\ r.forgotten = mConn.forgotten
      /\ r.granted => ~Changing
    BY TokenBounds DEF RecoveryRead, ReadRecords, TypeOK
<1>2. reads' = Append(reads, r) /\ reads \in Seq(ReadRecords)
    BY DEF AskRead, TypeOK
<1> HIDE DEF r
<1> QED
    BY <1>1, <1>2, AppendedRead

\* A game that offers again, or starts a sign-in of its own, rotates no token
\* replayed before.
CrossedOut ==
    /\ asked' \in Seq([token : Tokens, crossed : BOOLEAN])
    /\ DOMAIN asked' = DOMAIN asked
    /\ \A i \in DOMAIN asked : asked'[i].token = asked[i].token /\ asked'[i].crossed

LEMMA CrossingOut ==
    ASSUME TypeOK, asked' = [i \in DOMAIN asked |-> [asked[i] EXCEPT !.crossed = TRUE]]
    PROVE  CrossedOut
<1> DEFINE Q == [token : Tokens, crossed : BOOLEAN]
<1>1. asked \in Seq(Q)
    BY DEF TypeOK
<1>2. ASSUME NEW i \in DOMAIN asked
      PROVE  asked'[i] \in Q /\ asked'[i].token = asked[i].token /\ asked'[i].crossed
    <2>1. asked[i] \in Q
        <3> HIDE DEF Q
        <3> QED
            BY <1>1
    <2> QED
        BY <2>1
<1>3. asked' = [i \in DOMAIN asked |-> asked'[i]]
    OBVIOUS
<1>4. asked' \in Seq(Q) /\ DOMAIN asked' = DOMAIN asked
    <2> HIDE DEF Q
    <2> QED
        BY <1>1, <1>2, <1>3, MappedSequence
<1> QED
    BY <1>2, <1>4 DEF CrossedOut

-----------------------------------------------------------------------------
(***************************************************************************)
(* The inductive invariant: connections, offers and attempts.              *)
(***************************************************************************)
LEMMA IInvConnect ==
    ASSUME IInv, NEW secure \in BOOLEAN, Connect(secure)
    PROVE  IInv'
<1> USE DEF IInv
<1>1. reads' \in Seq(ReadRecords) /\ LatestOnly(reads')
      /\ DOMAIN reads' = DOMAIN reads
      /\ \A i \in DOMAIN reads : reads'[i] = [reads[i] EXCEPT !.stale = TRUE]
    BY StaleIs DEF Connect, ResetForNewConnection, TypeOK
<1>2. ASSUME NEW i \in DOMAIN reads
      PROVE  /\ reads[i] \in ReadRecords
             /\ reads'[i].stale /\ reads'[i].sent = reads[i].sent
             /\ reads'[i].kind = reads[i].kind /\ reads'[i].granted = reads[i].granted
             /\ reads'[i].forgotten = reads[i].forgotten
    <2>1. reads[i] \in ReadRecords
        BY DEF TypeOK
    <2> QED
        BY <1>1, <2>1 DEF ReadRecords
<1>3. TypeOK'
    <2>1. conn' \in [id : 0..MaxConnections, up : BOOLEAN, secure : BOOLEAN]
        BY TokenBounds DEF TypeOK, Connect
    <2>2. {mSignInOffered', mSignInAttemptPending', throttled', mReconnectRejected',
           reconnectDue', due', strayed'} \subseteq BOOLEAN
        BY DEF TypeOK, Connect, ResetForNewConnection, outcome
    <2> QED
        BY <1>1, <2>1, <2>2
        DEF TypeOK, LatestOnly, Connect, ResetForNewConnection, storeVars, gameVars
<1>4. FlowsOK'
    BY DEF FlowsOK, Answering, Connect
<1>5. asked = <<>> /\ asked' = <<>>
    <2>1. asked \in Seq([token : Tokens, crossed : BOOLEAN]) /\ asked' = asked /\ ~conn.up
        BY DEF Connect, TypeOK
    <2>2. 1 \notin DOMAIN asked
        BY <2>1 DEF AskedOK, ReplayedOK
    <2> QED
        BY <2>1, <2>2
<1>6. ReadsOK'
    BY <1>1, <1>2 DEF ReadsOK, ReadOK, Connect, storeVars, gameVars
<1>7. AskedOK'
    BY <1>5 DEF AskedOK
<1>8. RotatesOK'
    BY <1>1, <1>2 DEF RotatesOK, Spared, Connect, ResetForNewConnection, gameVars
<1>9. ReplayOK' /\ StoreOK'
    BY DEF ReplayOK, StoreOK, Changing, Connect, ResetForNewConnection, storeVars, gameVars
<1>10. NothingStrays' /\ ForgottenStaysForgotten'
    BY DEF NothingStrays, ForgottenStaysForgotten, Changing, Connect, storeVars, gameVars, outcome
<1> QED
    BY <1>3, <1>4, <1>6, <1>7, <1>8, <1>9, <1>10

LEMMA IInvDisconnect ==
    ASSUME IInv, NEW requested \in BOOLEAN, Disconnect(requested)
    PROVE  IInv'
<1> USE DEF IInv
<1>1. reads' \in Seq(ReadRecords) /\ LatestOnly(reads')
      /\ DOMAIN reads' = DOMAIN reads
      /\ \A i \in DOMAIN reads : reads'[i] = [reads[i] EXCEPT !.stale = TRUE]
    BY StaleIs DEF Disconnect, ResetForNewConnection, TypeOK
<1>2. ASSUME NEW i \in DOMAIN reads
      PROVE  /\ reads[i] \in ReadRecords
             /\ reads'[i].stale /\ reads'[i].sent = reads[i].sent
             /\ reads'[i].kind = reads[i].kind /\ reads'[i].granted = reads[i].granted
             /\ reads'[i].forgotten = reads[i].forgotten
    <2>1. reads[i] \in ReadRecords
        BY DEF TypeOK
    <2> QED
        BY <1>1, <2>1 DEF ReadRecords
<1>3. TypeOK'
    <2>1. conn' \in [id : 0..MaxConnections, up : BOOLEAN, secure : BOOLEAN]
        BY DEF TypeOK, Disconnect
    <2>2. {mSignInOffered', mSignInAttemptPending', throttled', mReconnectRejected',
           reconnectDue', due', strayed'} \subseteq BOOLEAN
        BY DEF TypeOK, Disconnect, ResetForNewConnection
    <2>3. asked' \in Seq([token : Tokens, crossed : BOOLEAN]) /\ rotates' \in 0..MaxTokens
        BY TokenBounds DEF Disconnect
    <2> QED
        BY <1>1, <2>1, <2>2, <2>3
        DEF TypeOK, LatestOnly, Disconnect, ResetForNewConnection, storeVars
<1>4. FlowsOK'
    BY DEF FlowsOK, Answering, Disconnect
<1>6. ReadsOK'
    BY <1>1, <1>2 DEF ReadsOK, ReadOK, Disconnect, storeVars
<1>7. AskedOK'
    BY DEF AskedOK, Disconnect
<1>8. RotatesOK'
    BY TokenBounds DEF RotatesOK, StoreOK, TypeOK, Disconnect
<1>9. ReplayOK' /\ StoreOK'
    BY DEF ReplayOK, StoreOK, Changing, Disconnect, ResetForNewConnection, storeVars
<1>10. NothingStrays' /\ ForgottenStaysForgotten'
    BY DEF NothingStrays, ForgottenStaysForgotten, Changing, Disconnect, storeVars
<1> QED
    BY <1>3, <1>4, <1>6, <1>7, <1>8, <1>9, <1>10

LEMMA IInvOfferNothing ==
    ASSUME IInv, OfferNothing
    PROVE  IInv'
<1> USE DEF IInv
<1>1. TypeOK'
    BY DEF TypeOK, Offers, OfferNothing, storeVars, gameVars, replayVars
<1>2. FlowsOK' /\ ReplayOK' /\ StoreOK'
    BY DEF FlowsOK, Answering, ReplayOK, StoreOK, Changing, OfferNothing, storeVars, gameVars,
           replayVars
<1>3. ReadsOK'
    BY DEF ReadsOK, ReadOK, OfferNothing, storeVars, gameVars, replayVars
<1>4. AskedOK' /\ RotatesOK'
    BY DEF AskedOK, ReplayedOK, RotatesOK, Spared, OfferNothing, gameVars, replayVars
<1>5. NothingStrays' /\ ForgottenStaysForgotten'
    BY DEF NothingStrays, ForgottenStaysForgotten, Changing, OfferNothing, storeVars, gameVars
<1> QED
    BY <1>1, <1>2, <1>3, <1>4, <1>5

LEMMA IInvOffer ==
    ASSUME IInv, NEW o \in GameOffers, Offer(o)
    PROVE  IInv'
<1> USE DEF IInv
<1>1. /\ Stale(reads) \in Seq(ReadRecords) /\ DOMAIN Stale(reads) = DOMAIN reads
      /\ AllStale(Stale(reads)) /\ LatestOnly(Stale(reads))
      /\ \A i \in DOMAIN reads : Stale(reads)[i] = [reads[i] EXCEPT !.stale = TRUE]
    BY StaleIs DEF TypeOK
<1>2. ASSUME NEW i \in DOMAIN reads
      PROVE  /\ reads[i] \in ReadRecords
             /\ Stale(reads)[i].stale /\ Stale(reads)[i].sent = reads[i].sent
             /\ Stale(reads)[i].kind = reads[i].kind
             /\ Stale(reads)[i].granted = reads[i].granted
             /\ Stale(reads)[i].forgotten = reads[i].forgotten
    <2>1. reads[i] \in ReadRecords
        BY DEF TypeOK
    <2> QED
        BY <1>1, <2>1 DEF ReadRecords
<1>12. offers' \in 0..MaxOffers /\ offeredOn' = conn.id /\ conn.id \in 0..MaxConnections
    BY TokenBounds DEF Offer, TypeOK
<1>3. /\ reads' \in Seq(ReadRecords) /\ LatestOnly(reads')
      /\ throttled' \in BOOLEAN /\ mReconnectRejected' \in BOOLEAN
      /\ mSignInAttemptPending' \in BOOLEAN
      /\ \A i \in DOMAIN reads' :
            \/ \E j \in DOMAIN reads : reads'[i] = Stale(reads)[j]
            \/ /\ reads'[i].kind = "sign-in" /\ reads'[i].offer = offers'
               /\ reads'[i].sent = 0 /\ ~reads'[i].forgotten
               /\ reads'[i].granted => ~Changing
               /\ ~throttled /\ mSignInAttemptPending' = mSignInAttemptPending
    <2>1. CASE throttled
        <3>1. /\ reads' = Stale(reads) /\ mSignInAttemptPending' = TRUE
              /\ UNCHANGED <<throttled, mReconnectRejected>>
            BY <2>1 DEF Offer
        <3> QED
            BY <1>1, <3>1 DEF TypeOK
    <2>2. CASE ~throttled
        <3>1. throttled' = TRUE /\ AttemptReconnect(Stale(reads), offers') /\ UNCHANGED mSignInAttemptPending
            BY <2>2 DEF Offer
        <3>2. /\ mReconnectRejected' = FALSE
              /\ reads' \in Seq(ReadRecords) /\ LatestOnly(reads')
              /\ \A i \in DOMAIN reads' :
                    \/ \E j \in DOMAIN Stale(reads) : reads'[i] = Stale(reads)[j]
                    \/ /\ reads'[i].kind = "sign-in" /\ reads'[i].offer = offers'
                       /\ reads'[i].sent = 0 /\ ~reads'[i].forgotten
                       /\ reads'[i].granted => ~Changing
            BY <1>1, <1>12, <3>1, AttemptAsks
        <3> QED
            BY <1>1, <2>2, <3>1, <3>2 DEF TypeOK
    <2> QED
        BY <2>1, <2>2 DEF TypeOK
<1>4. FlowsOK' /\ flows' \in [held : Flow, retired : Flow]
    BY CancelKeepsTidy, NoFlowIsTidy DEF Offer
<1>5. CrossedOut
    BY CrossingOut DEF Offer
<1>6. TypeOK'
    BY <1>3, <1>4, <1>5, <1>12, TokenBounds, SignInAttemptAssumption
    DEF TypeOK, LatestOnly, CrossedOut, Offers, NoReplay, Offer, storeVars
<1>7. ReadsOK'
    <2>1. ASSUME NEW i \in DOMAIN reads'
          PROVE  ReadOK(reads[i])'
        <3>1. CASE \E j \in DOMAIN reads : reads'[i] = Stale(reads)[j]
            <4>1. PICK j \in DOMAIN reads : reads'[i] = Stale(reads)[j]
                BY <3>1
            <4>2. ReadOK(reads[j])
                BY DEF ReadsOK
            <4> QED
                BY <1>2, <4>1, <4>2 DEF ReadOK, Offer, storeVars
        <3>2. CASE /\ reads'[i].kind = "sign-in" /\ reads'[i].offer = offers'
                   /\ reads'[i].sent = 0 /\ ~reads'[i].forgotten
                   /\ reads'[i].granted => ~Changing
                   /\ ~throttled /\ mSignInAttemptPending' = mSignInAttemptPending
            <4>1. 0 <= mMaxToken /\ mMaxToken' = mMaxToken
                BY TokenBounds DEF TypeOK, Offer
            <4>2. conn'.up /\ mSignInOffered' /\ ~mConn'.awaiting
                BY DEF Offer, NoReplay
            <4>3. ~mSignInAttemptPending'
                BY <3>2 DEF ReplayOK
            <4>4. ~Changing => stored'.of \notin discarded'
                BY DEF StoreOK, Offer, storeVars
            <4> QED
                BY <3>2, <4>1, <4>2, <4>3, <4>4 DEF ReadOK
        <3> QED
            BY <1>3, <3>1, <3>2
    <2> QED
        BY <2>1 DEF ReadsOK
<1>8. AskedOK'
    <2>1. ASSUME NEW i \in DOMAIN asked
          PROVE  ReplayedOK(asked[i])'
        <3>1. ReplayedOK(asked[i])
            BY DEF AskedOK
        <3> QED
            BY <1>5, <3>1 DEF CrossedOut, ReplayedOK, Offer
    <2> QED
        BY <1>5, <2>1 DEF CrossedOut, AskedOK
<1>9. RotatesOK'
    BY TokenBounds DEF RotatesOK, StoreOK, TypeOK, Offer
<1>10. ReplayOK' /\ StoreOK'
    <2>1. mSignInAttemptPending' => throttled'
        BY DEF ReplayOK, Offer
    <2> QED
        BY <2>1, TokenBounds
        DEF ReplayOK, StoreOK, Changing, Offer, NoReplay, storeVars, TypeOK
<1>11. NothingStrays' /\ ForgottenStaysForgotten'
    BY DEF NothingStrays, ForgottenStaysForgotten, Changing, Offer, storeVars
<1> QED
    BY <1>4, <1>6, <1>7, <1>8, <1>9, <1>10, <1>11

LEMMA IInvThrottleEnds ==
    ASSUME IInv, ThrottleEnds
    PROVE  IInv'
<1> USE DEF IInv
<1>1. CASE mSignInAttemptPending
    <2>1. /\ mSignInAttemptPending' = FALSE /\ AttemptReconnect(reads, offers) /\ UNCHANGED throttled
          /\ conn.up /\ mSignInOffered /\ ~mConn.awaiting
        BY <1>1 DEF ThrottleEnds, ReplayOK
    <2>2. AllStale(reads) /\ reads \in Seq(ReadRecords)
        BY <1>1 DEF ReadsOK, ReadOK, AllStale, TypeOK
    <2>3. /\ mReconnectRejected' = FALSE
          /\ reads' \in Seq(ReadRecords) /\ LatestOnly(reads')
          /\ \A i \in DOMAIN reads' :
                \/ \E j \in DOMAIN reads : reads'[i] = reads[j]
                \/ /\ reads'[i].kind = "sign-in" /\ reads'[i].offer = offers
                   /\ reads'[i].sent = 0 /\ ~reads'[i].forgotten
                   /\ reads'[i].granted => ~Changing
        BY <2>1, <2>2, AttemptAsks DEF TypeOK
    <2>4. TypeOK'
        BY <2>1, <2>3
        DEF TypeOK, LatestOnly, ThrottleEnds, connVars, replayVars, storeVars, gameVars, outcome
    <2>5. FlowsOK' /\ ReplayOK' /\ StoreOK'
        BY <2>1 DEF FlowsOK, Answering, ReplayOK, StoreOK, Changing, ThrottleEnds, connVars,
                    replayVars, storeVars, gameVars
    <2>6. ReadsOK'
        <3>1. ASSUME NEW i \in DOMAIN reads'
              PROVE  ReadOK(reads[i])'
            <4>1. CASE \E j \in DOMAIN reads : reads'[i] = reads[j]
                BY <2>1, <4>1 DEF ReadsOK, ReadOK, ThrottleEnds, connVars, replayVars,
                                  storeVars, gameVars
            <4>2. CASE /\ reads'[i].kind = "sign-in" /\ reads'[i].offer = offers
                       /\ reads'[i].sent = 0 /\ ~reads'[i].forgotten
                       /\ reads'[i].granted => ~Changing
                <5>1. 0 <= mMaxToken
                    BY TokenBounds DEF TypeOK
                <5> QED
                    BY <2>1, <4>2, <5>1 DEF ReadOK, StoreOK, ThrottleEnds, connVars, replayVars,
                                            storeVars, gameVars
            <4> QED
                BY <2>3, <4>1, <4>2
        <3> QED
            BY <3>1 DEF ReadsOK
    <2>7. AskedOK'
        <3>1. ASSUME NEW i \in DOMAIN asked
              PROVE  ReplayedOK(asked[i])'
            <4>1. ReplayedOK(asked[i]) /\ asked[i].crossed
                BY <1>1 DEF AskedOK, ReplayedOK, TypeOK
            <4> QED
                BY <4>1 DEF ReplayedOK, ThrottleEnds, connVars, replayVars, gameVars
        <3> QED
            BY <3>1 DEF AskedOK, ThrottleEnds, replayVars
    <2>8. RotatesOK'
        <3>1. rotates = 0 /\ 0 \notin discarded
            BY <1>1 DEF RotatesOK, StoreOK
        <3> QED
            BY <3>1 DEF RotatesOK, ThrottleEnds, gameVars
    <2>9. NothingStrays' /\ ForgottenStaysForgotten'
        BY DEF NothingStrays, ForgottenStaysForgotten, Changing, ThrottleEnds, storeVars,
               gameVars, outcome
    <2> QED
        BY <2>4, <2>5, <2>6, <2>7, <2>8, <2>9
<1>2. CASE ~mSignInAttemptPending
    <2>1. throttled' = FALSE /\ UNCHANGED <<mSignInAttemptPending, mReconnectRejected, reads>>
        BY <1>2 DEF ThrottleEnds
    <2> USE DEF ThrottleEnds, connVars, replayVars, storeVars, gameVars, outcome
    <2>2. TypeOK'
        BY <2>1 DEF TypeOK
    <2>3. FlowsOK' /\ ReplayOK' /\ StoreOK' /\ RotatesOK'
        BY <1>2, <2>1 DEF FlowsOK, Answering, ReplayOK, StoreOK, RotatesOK, Changing, Spared
    <2>4. ReadsOK' /\ AskedOK'
        BY <2>1 DEF ReadsOK, ReadOK, AskedOK, ReplayedOK, Spared
    <2>5. NothingStrays' /\ ForgottenStaysForgotten'
        BY DEF NothingStrays, ForgottenStaysForgotten, Changing
    <2> QED
        BY <2>2, <2>3, <2>4, <2>5
<1> QED
    BY <1>1, <1>2 DEF ThrottleEnds

-----------------------------------------------------------------------------
(***************************************************************************)
(* The inductive invariant: what is read.                                  *)
(***************************************************************************)
\* A read ends with a replay, or with anything else.
Replays(r) ==
    /\ ~r.stale /\ ~r.forgotten /\ stored.token
    /\ \E retried \in BOOLEAN : SendReconnect(stored.of, r.offer, retried)
    /\ mReconnectRejected' \in BOOLEAN
    /\ UNCHANGED <<reconnectDue, change, rejectedTokenHash>>

Continues(r) ==
    /\ FlowsOK' /\ flows' \in [held : Flow, retired : Flow]
    /\ due' \in BOOLEAN /\ strayed' \in BOOLEAN /\ ~strayed'
    /\ reconnectDue' \in BOOLEAN /\ mReconnectRejected' \in BOOLEAN
    /\ rejectedTokenHash' \in 0..MaxTokens
    /\ \/ change' = change
       \/ change' = Hint(r.sent) /\ r.kind = "recovery" /\ ~r.forgotten
    /\ UNCHANGED replayVars

LEMMA SignInReadEnds ==
    ASSUME IInv, NEW i \in DOMAIN reads, NEW answer, SignInReadAnswers(reads[i], answer),
           offers' = offers
    PROVE  Replays(reads[i]) \/ Continues(reads[i])
<1> DEFINE r == reads[i]
<1>1. /\ {due, strayed, reconnectDue, mReconnectRejected} \subseteq BOOLEAN
      /\ flows \in [held : Flow, retired : Flow] /\ rejectedTokenHash \in 0..MaxTokens
      /\ FlowsOK /\ TypeOK /\ ~strayed
    BY DEF IInv, TypeOK, NothingStrays
<1>2. ~r.stale => conn.up /\ offeredOn = conn.id /\ r.offer = offers
    BY DEF IInv, ReadsOK, ReadOK, ReplayOK
<1>3. UNCHANGED <<reconnectDue, mReconnectRejected, change, rejectedTokenHash>>
    BY DEF SignInReadAnswers
<1>4. \/ UNCHANGED <<replayVars, flows, outcome>>
      \/ ~r.stale /\ ~r.forgotten /\ stored.token /\ SendReconnect(stored.of, r.offer, FALSE)
      \/ ~r.stale /\ Sent(r.offer) /\ due' = FALSE /\ UNCHANGED <<replayVars, flows>>
      \/ ~r.stale /\ SelectAuthMethod(r.offer) /\ UNCHANGED replayVars
    BY DEF SignInReadAnswers
<1> HIDE DEF r
<1>5. CASE UNCHANGED <<replayVars, flows, outcome>>
    BY <1>1, <1>3, <1>5 DEF Continues, FlowsOK, Answering, outcome, r
<1>6. CASE ~r.stale /\ ~r.forgotten /\ stored.token /\ SendReconnect(stored.of, r.offer, FALSE)
    <2>1. mReconnectRejected' \in BOOLEAN
        BY <1>1, <1>3
    <2> QED
        BY <2>1, <1>3, <1>6 DEF Replays, r
<1>7. CASE ~r.stale /\ Sent(r.offer) /\ due' = FALSE /\ UNCHANGED <<replayVars, flows>>
    <2>1. strayed' = FALSE
        BY <1>1, <1>2, <1>7 DEF Sent
    <2> QED
        BY <2>1, <1>1, <1>3, <1>7 DEF Continues, FlowsOK, Answering, r
<1>8. CASE ~r.stale /\ SelectAuthMethod(r.offer) /\ UNCHANGED replayVars
    <2>1. /\ FlowsOK' /\ flows' \in [held : Flow, retired : Flow]
          /\ due' \in BOOLEAN /\ strayed' \in BOOLEAN
          /\ conn.up /\ offeredOn = conn.id /\ ~strayed => ~strayed'
        BY <1>1, <1>2, <1>8, SelectSettles
    <2> QED
        BY <2>1, <1>1, <1>2, <1>3, <1>8 DEF Continues, r
<1> QED
    BY <1>4, <1>5, <1>6, <1>7, <1>8

LEMMA RecoveryReadEnds ==
    ASSUME IInv, NEW i \in DOMAIN reads, NEW answer, RecoveryReadAnswers(reads[i], answer),
           offers' = offers
    PROVE  Replays(reads[i]) \/ Continues(reads[i])
<1> DEFINE r == reads[i]
           compared == ~r.forgotten /\ ~r.retried /\ answer = "read" /\ stored.token
           rotated == compared /\ stored.of # r.sent
           fingerprint == IF r.forgotten \/ answer = "read" THEN rejectedTokenHash ELSE r.sent
<1>1. /\ {due, strayed, reconnectDue, mReconnectRejected} \subseteq BOOLEAN
      /\ flows \in [held : Flow, retired : Flow] /\ rejectedTokenHash \in 0..MaxTokens
      /\ FlowsOK /\ TypeOK /\ ~strayed
    BY DEF IInv, TypeOK, NothingStrays
<1>2. /\ ~r.stale => conn.up /\ offeredOn = conn.id /\ r.offer = offers
      /\ r.kind = "recovery"
    BY DEF IInv, ReadsOK, ReadOK, ReplayOK, RecoveryReadAnswers
<1>3. fingerprint \in 0..MaxTokens
    <2>1. reads \in Seq(ReadRecords)
        BY <1>1 DEF TypeOK
    <2>2. r \in ReadRecords
        BY <2>1
    <2> QED
        BY <1>1, <2>2 DEF ReadRecords
<1>4. \/ /\ rotated /\ ~r.stale
         /\ SendReconnect(stored.of, r.offer, TRUE)
         /\ mReconnectRejected' = FALSE
         /\ UNCHANGED <<reconnectDue, change, rejectedTokenHash>>
      \/ /\ ~r.stale
         /\ SelectAuthMethod(r.offer)
         /\ UNCHANGED <<replayVars, mReconnectRejected, reconnectDue, change, rejectedTokenHash>>
      \/ /\ mReconnectRejected' = (mReconnectRejected \/ ~rotated)
         /\ rejectedTokenHash' = IF rotated THEN rejectedTokenHash ELSE fingerprint
         /\ UNCHANGED <<replayVars, flows, outcome, reconnectDue, change>>
      \/ /\ change' = IF answer = "read" /\ ~r.forgotten /\ ~Changing
                      THEN Hint(r.sent) ELSE change
         /\ rejectedTokenHash' = IF Changing THEN rejectedTokenHash ELSE fingerprint
         /\ reconnectDue' = (reconnectDue \/ ~r.stale)
         /\ due' = (due /\ r.stale)
         /\ UNCHANGED <<replayVars, flows, strayed, mReconnectRejected>>
    BY DEF RecoveryReadAnswers
<1>5. rotated => ~r.forgotten /\ stored.token
    OBVIOUS
<1> HIDE DEF r, rotated, fingerprint
<1>6. CASE /\ rotated /\ ~r.stale
           /\ SendReconnect(stored.of, r.offer, TRUE)
           /\ mReconnectRejected' = FALSE
           /\ UNCHANGED <<reconnectDue, change, rejectedTokenHash>>
    <2>1. mReconnectRejected' \in BOOLEAN
        BY <1>6
    <2> QED
        BY <2>1, <1>5, <1>6 DEF Replays, r
<1>7. CASE /\ ~r.stale
           /\ SelectAuthMethod(r.offer)
           /\ UNCHANGED <<replayVars, mReconnectRejected, reconnectDue, change, rejectedTokenHash>>
    <2>1. /\ FlowsOK' /\ flows' \in [held : Flow, retired : Flow]
          /\ due' \in BOOLEAN /\ strayed' \in BOOLEAN
          /\ conn.up /\ offeredOn = conn.id /\ ~strayed => ~strayed'
        BY <1>1, <1>2, <1>7, SelectSettles
    <2> QED
        BY <2>1, <1>1, <1>2, <1>7 DEF Continues, r
<1>8. CASE /\ mReconnectRejected' = (mReconnectRejected \/ ~rotated)
           /\ rejectedTokenHash' = IF rotated THEN rejectedTokenHash ELSE fingerprint
           /\ UNCHANGED <<replayVars, flows, outcome, reconnectDue, change>>
    <2>1. mReconnectRejected' \in BOOLEAN
        BY <1>8
    <2>2. rejectedTokenHash' \in 0..MaxTokens
        BY <1>1, <1>3, <1>8
    <2> QED
        BY <2>1, <2>2, <1>1, <1>8 DEF Continues, FlowsOK, Answering, outcome, r
<1>9. CASE /\ change' = IF answer = "read" /\ ~r.forgotten /\ ~Changing
                        THEN Hint(r.sent) ELSE change
           /\ rejectedTokenHash' = IF Changing THEN rejectedTokenHash ELSE fingerprint
           /\ reconnectDue' = (reconnectDue \/ ~r.stale)
           /\ due' = (due /\ r.stale)
           /\ UNCHANGED <<replayVars, flows, strayed, mReconnectRejected>>
    <2>1. reconnectDue' \in BOOLEAN /\ due' \in BOOLEAN
        BY <1>9
    <2>2. rejectedTokenHash' \in 0..MaxTokens
        BY <1>1, <1>3, <1>9
    <2>3. change' = change \/ (change' = Hint(r.sent) /\ r.kind = "recovery" /\ ~r.forgotten)
        BY <1>2, <1>9
    <2> QED
        BY <2>1, <2>2, <2>3, <1>1, <1>9 DEF Continues, FlowsOK, Answering, r
<1> QED
    BY <1>4, <1>6, <1>7, <1>8, <1>9

LEMMA IInvReadAnswers ==
    ASSUME IInv, NEW i \in DOMAIN reads, NEW answer, ReadAnswers(i, answer)
    PROVE  IInv'
<1> DEFINE r == reads[i]
<1> USE DEF IInv
<1>1. /\ reads[i].granted /\ reads' = RemoveAt(reads, i)
      /\ UNCHANGED <<conn, offer, offers, offeredOn, mSignInOffered, mSignInAttemptPending,
                     throttled, stored, failures, gameVars>>
    BY DEF ReadAnswers
<1>2. reads \in Seq(ReadRecords) /\ LatestOnly(reads)
    BY DEF TypeOK, LatestOnly
<1>3. /\ reads' \in Seq(ReadRecords) /\ LatestOnly(reads')
      /\ \A k \in DOMAIN reads' : \E j \in DOMAIN reads : reads'[k] = reads[j]
      /\ ~reads[i].stale => AllStale(reads')
    BY <1>1, <1>2, RemovedRead
<1>4. r \in ReadRecords /\ r.sent \in 0..MaxTokens
    <2>1. r \in ReadRecords
        BY <1>2
    <2> QED
        BY <2>1 DEF ReadRecords
<1>5. Replays(r) \/ Continues(r)
    BY <1>1, SignInReadEnds, RecoveryReadEnds DEF ReadAnswers
<1>6. ReadOK(r) /\ r.granted
    BY <1>1 DEF ReadsOK
<1>7. Spared => Spared'
    BY <1>3 DEF Spared
<1> HIDE DEF r
<1>8. CASE Replays(r)
    <2>1. PICK retried \in BOOLEAN : SendReconnect(stored.of, r.offer, retried)
        BY <1>8 DEF Replays
    <2>2. /\ ~r.stale /\ ~r.forgotten /\ stored.token
          /\ mReconnectRejected' \in BOOLEAN
          /\ UNCHANGED <<reconnectDue, change, rejectedTokenHash>>
        BY <1>8 DEF Replays
    <2>3. stored.of \in Tokens /\ stored.of <= mMaxToken
        <3>1. stored.of \in 0..MaxTokens
            BY EntryIs DEF TypeOK
        <3> QED
            BY <2>2, <3>1, TokenBounds DEF StoreOK
    <2>4. /\ conn.up /\ mSignInOffered /\ offeredOn = conn.id /\ r.offer = offers
          /\ ~mSignInAttemptPending /\ stored.of \notin discarded
        BY <1>6, <2>2 DEF ReadOK, ReplayOK
    <2> DEFINE q == [token |-> stored.of, crossed |-> FALSE]
               Q == [token : Tokens, crossed : BOOLEAN]
    <2>5. /\ mConn' = [awaiting |-> TRUE, reconnecting |-> TRUE, forgotten |-> FALSE,
                       retried |-> retried, sent |-> stored.of]
          /\ deadlines' = deadlines \union {[token |-> stored.of, offer |-> offers]}
          /\ asked' = Append(asked, q)
          /\ strayed' = FALSE
          /\ UNCHANGED <<flows, due>>
        BY <2>1, <2>4 DEF SendReconnect, Sent, NothingStrays
    <2>6. q \in Q /\ asked \in Seq(Q)
        BY <2>3 DEF TypeOK
    <2>7. q.token = stored.of /\ ~q.crossed
        OBVIOUS
    <2> HIDE DEF q
    <2>8. /\ asked' \in Seq(Q)
          /\ \A k \in DOMAIN asked' : asked'[k] = q \/ \E j \in DOMAIN asked : asked'[k] = asked[j]
        <3> HIDE DEF Q
        <3>1. Len(asked) \in Nat /\ DOMAIN asked = 1..Len(asked)
            BY <2>6
        <3>2. Append(asked, q) \in Seq(Q) /\ DOMAIN Append(asked, q) = 1..(Len(asked) + 1)
            BY <2>6, <3>1
        <3>3. ASSUME NEW k \in 1..(Len(asked) + 1)
              PROVE  Append(asked, q)[k] = q \/ (k \in DOMAIN asked /\ Append(asked, q)[k] = asked[k])
            BY <2>6, <3>1
        <3> QED
            BY <2>5, <3>2, <3>3
    <2>9. mConn' \in [awaiting : BOOLEAN, reconnecting : BOOLEAN, forgotten : BOOLEAN,
                      retried : BOOLEAN, sent : 0..MaxTokens]
        BY <2>3, <2>5, TokenBounds
    <2>10. TypeOK'
        <3>1. deadlines' \subseteq [token : Tokens, offer : 0..MaxOffers]
            BY <2>3, <2>5 DEF TypeOK
        <3>2. {mSignInOffered', mSignInAttemptPending', throttled', mReconnectRejected',
               reconnectDue', due', strayed'} \subseteq BOOLEAN
            BY <1>1, <2>2, <2>5 DEF TypeOK
        <3> QED
            BY <1>1, <1>3, <2>2, <2>5, <2>8, <2>9, <3>1, <3>2 DEF TypeOK, LatestOnly, gameVars
    <2>11. FlowsOK'
        BY <1>1, <2>5 DEF FlowsOK, Answering
    <2>12. ReadsOK'
        <3>1. ASSUME NEW k \in DOMAIN reads'
              PROVE  ReadOK(reads[k])'
            <4>1. PICK j \in DOMAIN reads : reads'[k] = reads[j]
                BY <1>3
            <4>2. reads'[k].stale
                BY <1>3, <2>2 DEF AllStale, r
            <4> QED
                BY <1>1, <4>1, <4>2 DEF ReadsOK, ReadOK, gameVars
        <3> QED
            BY <3>1 DEF ReadsOK
    <2>13. ~(\E k \in DOMAIN asked : ~asked[k].crossed /\ asked[k].token \in discarded)
           /\ rotates \notin discarded
        BY <1>6, <2>2 DEF AskedOK, ReplayedOK, RotatesOK, Spared, r
    <2>14. AskedOK'
        <3>1. ASSUME NEW k \in DOMAIN asked'
              PROVE  ReplayedOK(asked[k])'
            <4>1. CASE asked'[k] = q
                BY <1>1, <2>3, <2>4, <2>5, <2>7, <4>1 DEF ReplayedOK, gameVars
            <4>2. CASE \E j \in DOMAIN asked : asked'[k] = asked[j]
                BY <1>1, <2>5, <2>13, <4>2 DEF AskedOK, ReplayedOK, gameVars
            <4> QED
                BY <2>8, <4>1, <4>2
        <3> QED
            BY <3>1 DEF AskedOK
    <2>15. RotatesOK' /\ ReplayOK'
        BY <1>1, <2>3, <2>4, <2>5, <2>13 DEF RotatesOK, ReplayOK, gameVars
    <2>16. StoreOK' /\ NothingStrays' /\ ForgottenStaysForgotten'
        BY <1>1, <2>2, <2>5
        DEF StoreOK, NothingStrays, ForgottenStaysForgotten, Changing, gameVars
    <2> QED
        BY <2>10, <2>11, <2>12, <2>14, <2>15, <2>16
<1>9. CASE Continues(r)
    <2>1. /\ FlowsOK' /\ flows' \in [held : Flow, retired : Flow]
          /\ due' \in BOOLEAN /\ strayed' \in BOOLEAN /\ ~strayed'
          /\ reconnectDue' \in BOOLEAN /\ mReconnectRejected' \in BOOLEAN
          /\ rejectedTokenHash' \in 0..MaxTokens
          /\ UNCHANGED <<mConn, deadlines, asked>>
        BY <1>9 DEF Continues, replayVars
    <2>2. /\ change' \in Entries
          /\ \/ change' = change
             \/ /\ change'.of = r.sent /\ ~change'.token /\ change' # NoChange
                /\ r.sent <= mMaxToken /\ r.sent \notin discarded
        BY <1>4, <1>6, <1>9, EntriesAre DEF Continues, TypeOK, ReadOK
    <2>3. TypeOK'
        BY <1>1, <1>3, <2>1, <2>2 DEF TypeOK, LatestOnly, gameVars
    <2>4. ReadsOK'
        <3>1. ASSUME NEW k \in DOMAIN reads'
              PROVE  ReadOK(reads[k])'
            <4>1. PICK j \in DOMAIN reads : reads'[k] = reads[j]
                BY <1>3
            <4> QED
                BY <1>1, <2>1, <4>1 DEF ReadsOK, ReadOK, gameVars
        <3> QED
            BY <3>1 DEF ReadsOK
    <2>5. AskedOK' /\ RotatesOK'
        BY <1>1, <1>7, <2>1 DEF AskedOK, ReplayedOK, RotatesOK, gameVars
    <2>6. ReplayOK' /\ NothingStrays'
        BY <1>1, <2>1 DEF ReplayOK, NothingStrays, gameVars
    <2>7. StoreOK' /\ ForgottenStaysForgotten'
        BY <1>1, <2>2 DEF StoreOK, ForgottenStaysForgotten, Changing, gameVars
    <2> QED
        BY <2>1, <2>3, <2>4, <2>5, <2>6, <2>7
<1> QED
    BY <1>5, <1>8, <1>9

-----------------------------------------------------------------------------
(***************************************************************************)
(* The inductive invariant: the store and the player's "forget".           *)
(***************************************************************************)
\* The reads stay, but for whether they may go on and what they are told.
ReadsKept ==
    /\ reads' \in Seq(ReadRecords) /\ DOMAIN reads' = DOMAIN reads /\ Len(reads') = Len(reads)
    /\ \A i \in DOMAIN reads :
          /\ reads'[i].stale = reads[i].stale /\ reads'[i].offer = reads[i].offer
          /\ reads'[i].sent = reads[i].sent /\ reads'[i].kind = reads[i].kind

LEMMA Granting ==
    ASSUME TypeOK, NEW g \in BOOLEAN,
           reads' = [i \in DOMAIN reads |-> [reads[i] EXCEPT !.granted = g]]
    PROVE  /\ ReadsKept
           /\ \A i \in DOMAIN reads : /\ reads'[i].forgotten = reads[i].forgotten
                                      /\ reads'[i].granted = g
<1>1. reads \in Seq(ReadRecords)
    BY DEF TypeOK
<1>2. ASSUME NEW i \in DOMAIN reads
      PROVE  /\ reads'[i] \in ReadRecords /\ reads'[i].granted = g
             /\ reads'[i].stale = reads[i].stale /\ reads'[i].offer = reads[i].offer
             /\ reads'[i].sent = reads[i].sent /\ reads'[i].kind = reads[i].kind
             /\ reads'[i].forgotten = reads[i].forgotten
    <2>1. reads[i] \in ReadRecords
        BY <1>1
    <2> QED
        BY <2>1 DEF ReadRecords
<1>3. reads' = [i \in DOMAIN reads |-> reads'[i]]
    OBVIOUS
<1>4. reads' \in Seq(ReadRecords) /\ DOMAIN reads' = DOMAIN reads /\ Len(reads') = Len(reads)
    BY <1>1, <1>2, <1>3, MappedSequence
<1> QED
    BY <1>2, <1>4 DEF ReadsKept

LEMMA ForgettingReads ==
    ASSUME TypeOK,
           reads' = [i \in DOMAIN reads |-> [reads[i] EXCEPT !.forgotten = TRUE]]
    PROVE  /\ ReadsKept
           /\ \A i \in DOMAIN reads : /\ reads'[i].forgotten
                                      /\ reads'[i].granted = reads[i].granted
<1>1. reads \in Seq(ReadRecords)
    BY DEF TypeOK
<1>2. ASSUME NEW i \in DOMAIN reads
      PROVE  /\ reads'[i] \in ReadRecords /\ reads'[i].granted = reads[i].granted
             /\ reads'[i].stale = reads[i].stale /\ reads'[i].offer = reads[i].offer
             /\ reads'[i].sent = reads[i].sent /\ reads'[i].kind = reads[i].kind
             /\ reads'[i].forgotten
    <2>1. reads[i] \in ReadRecords
        BY <1>1
    <2> QED
        BY <2>1 DEF ReadRecords
<1>3. reads' = [i \in DOMAIN reads |-> reads'[i]]
    OBVIOUS
<1>4. reads' \in Seq(ReadRecords) /\ DOMAIN reads' = DOMAIN reads /\ Len(reads') = Len(reads)
    BY <1>1, <1>2, <1>3, MappedSequence
<1> QED
    BY <1>2, <1>4 DEF ReadsKept

\* However a change ends, the entry it leaves is one of tokens issued, and of
\* what was to be forgotten nothing is left that no change will remove.
LEMMA ChangeLeaves ==
    ASSUME IInv, NEW reached \in BOOLEAN, ChangeEnds(reached)
    PROVE  /\ stored' \in Entries \ {NoChange} /\ change' \in {NoChange, Absent}
           /\ stored'.of <= mMaxToken /\ (stored'.token => stored'.of > 0)
           /\ discarded' \subseteq discarded
           /\ stored'.of \notin discarded'
           /\ rejectedTokenHash' \in 0..MaxTokens /\ failures' \in 0..MaxFailures
<1>1. /\ change \in Entries /\ change # NoChange /\ stored \in Entries /\ stored # NoChange
      /\ rejectedTokenHash \in 0..MaxTokens /\ failures \in 0..MaxFailures
      /\ mMaxToken \in 0..MaxTokens
      /\ stored.of <= mMaxToken /\ (stored.token => stored.of > 0)
      /\ change.of <= mMaxToken /\ (change.token => change.of > 0)
      /\ change.of \notin discarded
    BY DEF IInv, TypeOK, StoreOK, ForgottenStaysForgotten, Changing, ChangeEnds
<1>2. change \in [of : 0..MaxTokens, token : BOOLEAN, secureOnly : BOOLEAN]
      /\ stored \in [of : 0..MaxTokens, token : BOOLEAN, secureOnly : BOOLEAN]
      /\ [stored EXCEPT !.token = FALSE] \in Entries \ {NoChange}
    BY <1>1, EntryIs
<1>3. CASE reached
    BY <1>1, <1>3, TokenBounds DEF ChangeEnds
<1>4. CASE ~reached
    <2>1. /\ failures < MaxFailures /\ failures' = failures + 1
          /\ stored' \in Remains
          /\ discarded' = discarded \ {stored'.of}
          /\ change' \in {NoChange, Absent}
          /\ UNCHANGED rejectedTokenHash
        BY <1>4 DEF ChangeEnds
    <2>2. \/ stored' = stored
          \/ stored' = [stored EXCEPT !.token = FALSE]
          \/ change.token /\ stored' = Hint(change.of)
        BY <2>1 DEF Remains
    <2>3. stored' \in Entries \ {NoChange} /\ stored'.of <= mMaxToken
          /\ (stored'.token => stored'.of > 0)
        <3>1. CASE stored' = stored
            BY <1>1, <3>1
        <3>2. CASE stored' = [stored EXCEPT !.token = FALSE]
            <4>1. stored'.of = stored.of /\ ~stored'.token
                BY <1>2, <3>2
            <4> QED
                BY <1>1, <1>2, <3>2, <4>1
        <3>3. CASE change.token /\ stored' = Hint(change.of)
            BY <1>1, <1>2, <3>3, EntriesAre
        <3> QED
            BY <2>2, <3>1, <3>2, <3>3
    <2>4. failures' \in 0..MaxFailures
        BY <1>1, <2>1, TokenBounds
    <2> QED
        BY <1>1, <2>1, <2>3, <2>4
<1> QED
    BY <1>3, <1>4

LEMMA IInvChangeEnds ==
    ASSUME IInv, NEW reached \in BOOLEAN, ChangeEnds(reached)
    PROVE  IInv'
<1> DEFINE g == change' = NoChange
<1> USE DEF IInv
<1>1. /\ stored' \in Entries \ {NoChange} /\ change' \in {NoChange, Absent}
      /\ stored'.of <= mMaxToken /\ (stored'.token => stored'.of > 0)
      /\ discarded' \subseteq discarded
      /\ stored'.of \notin discarded'
      /\ rejectedTokenHash' \in 0..MaxTokens /\ failures' \in 0..MaxFailures
    BY ChangeLeaves
<1>2. /\ reads' = [i \in DOMAIN reads |-> [reads[i] EXCEPT !.granted = g]]
      /\ UNCHANGED <<connVars, attemptVars, replayVars, flows, mMaxToken, rotates, outcome>>
    BY DEF ChangeEnds
<1>3. g \in BOOLEAN
    OBVIOUS
<1> HIDE DEF g
<1>4. /\ ReadsKept
      /\ \A i \in DOMAIN reads : /\ reads'[i].forgotten = reads[i].forgotten
                                 /\ reads'[i].granted = g
    BY <1>2, <1>3, Granting
<1> USE DEF connVars, attemptVars, replayVars, outcome
<1>5. change' \in Entries /\ (change' = NoChange \/ (change'.of = 0 /\ ~change'.token))
    BY <1>1, AbsentIs DEF Entries
<1>6. TypeOK'
    BY <1>1, <1>2, <1>4, <1>5 DEF TypeOK, ReadsKept
<1>7. FlowsOK' /\ NothingStrays'
    BY <1>2 DEF FlowsOK, Answering, NothingStrays
<1>8. ReadsOK'
    <2>1. ASSUME NEW i \in DOMAIN reads
          PROVE  ReadOK(reads[i])'
        BY <1>1, <1>2, <1>4 DEF ReadsOK, ReadOK, ReadsKept
    <2> QED
        BY <1>4, <2>1 DEF ReadsOK, ReadsKept
<1>9. Spared => Spared'
    BY <1>4 DEF Spared, ReadsKept
<1>10. AskedOK'
    BY <1>1, <1>2, <1>9 DEF AskedOK, ReplayedOK
<1>11. RotatesOK' /\ ReplayOK'
    BY <1>1, <1>2, <1>9 DEF RotatesOK, ReplayOK
<1>12. StoreOK'
    <2>1. 0 <= mMaxToken /\ discarded' \subseteq 1..mMaxToken
        BY <1>1, TokenBounds DEF StoreOK, TypeOK
    <2> QED
        BY <1>1, <1>2, <1>5, <2>1 DEF StoreOK, Changing
<1>13. ForgottenStaysForgotten'
    <2>1. 0 \notin discarded'
        BY <1>1 DEF StoreOK
    <2> QED
        BY <1>5, <2>1 DEF ForgottenStaysForgotten, Changing
<1> QED
    BY <1>6, <1>7, <1>8, <1>10, <1>11, <1>12, <1>13

LEMMA IInvForgetSavedSignIn ==
    ASSUME IInv, ForgetSavedSignIn
    PROVE  IInv'
<1> USE DEF IInv
<1>1. /\ change' = Absent /\ mConn' = [mConn EXCEPT !.forgotten = TRUE]
      /\ discarded' = 1..mMaxToken
      /\ UNCHANGED <<connVars, attemptVars, deadlines, asked, flows, stored, rejectedTokenHash,
                     failures, mMaxToken, rotates, outcome>>
    BY DEF ForgetSavedSignIn
<1>2. /\ ReadsKept
      /\ \A i \in DOMAIN reads : /\ reads'[i].forgotten
                                 /\ reads'[i].granted = reads[i].granted
    BY ForgettingReads DEF ForgetSavedSignIn
<1>3. /\ mConn' \in [awaiting : BOOLEAN, reconnecting : BOOLEAN, forgotten : BOOLEAN,
                     retried : BOOLEAN, sent : 0..MaxTokens]
      /\ mConn'.forgotten /\ mConn'.awaiting = mConn.awaiting
      /\ mConn'.reconnecting = mConn.reconnecting /\ mConn'.sent = mConn.sent
    BY <1>1 DEF TypeOK
<1>4. change' \in Entries /\ change' # NoChange /\ change'.of = 0 /\ ~change'.token
    BY <1>1, AbsentIs
<1>5. discarded' \subseteq Tokens
    BY <1>1, TokenBounds DEF TypeOK
<1> USE DEF connVars, attemptVars, outcome
<1>6. TypeOK'
    BY <1>1, <1>2, <1>3, <1>4, <1>5 DEF TypeOK, ReadsKept
<1>7. FlowsOK' /\ NothingStrays'
    BY <1>1 DEF FlowsOK, Answering, NothingStrays
<1>8. ReadsOK'
    <2>1. ASSUME NEW i \in DOMAIN reads
          PROVE  ReadOK(reads[i])'
        BY <1>1, <1>2, <1>3 DEF ReadsOK, ReadOK, ReadsKept
    <2> QED
        BY <1>2, <2>1 DEF ReadsOK, ReadsKept
<1>9. Spared'
    BY <1>2 DEF Spared, ReadsKept
<1>10. AskedOK'
    BY <1>1, <1>3, <1>9 DEF AskedOK, ReplayedOK
<1>11. RotatesOK' /\ ReplayOK'
    BY <1>1, <1>3, <1>9 DEF RotatesOK, ReplayOK
<1>12. StoreOK' /\ ForgottenStaysForgotten'
    <2>1. 0 <= mMaxToken /\ 0 \notin discarded'
        BY <1>1, TokenBounds DEF TypeOK
    <2> QED
        BY <1>1, <1>4, <2>1 DEF StoreOK, ForgottenStaysForgotten, Changing
<1> QED
    BY <1>6, <1>7, <1>8, <1>10, <1>11, <1>12

LEMMA IInvOtherMudletRotates ==
    ASSUME IInv, NEW secureOnly \in BOOLEAN, OtherMudletRotates(secureOnly)
    PROVE  IInv'
<1> DEFINE t == mMaxToken + 1
<1> USE DEF IInv
<1>1. /\ stored.token /\ t \in Tokens /\ mMaxToken' = t /\ stored' = Full(t, secureOnly)
      /\ discarded' = discarded \union (IF stored.of \in discarded THEN {t} ELSE {})
      /\ UNCHANGED <<connVars, attemptVars, replayVars, reads, flows, change,
                     rejectedTokenHash, failures, rotates, outcome>>
    BY DEF OtherMudletRotates
<1>2. mMaxToken \in Nat /\ discarded \subseteq 1..mMaxToken /\ t \notin discarded
    BY TokenBounds DEF TypeOK, StoreOK
<1>3. stored' \in Entries \ {NoChange} /\ stored'.of = t
    BY <1>1, TokenBounds, EntriesAre
<1>4. discarded' \subseteq Tokens /\ discarded' \subseteq 1..t
      /\ \A u \in 0..mMaxToken : u \in discarded' <=> u \in discarded
    BY <1>1, <1>2 DEF TypeOK
<1>5. t \in discarded' <=> stored.of \in discarded
    BY <1>1, <1>2
<1> USE DEF connVars, attemptVars, replayVars, outcome
<1>6. TypeOK'
    BY <1>1, <1>3, <1>4, TokenBounds DEF TypeOK
<1>7. FlowsOK' /\ NothingStrays'
    BY <1>1 DEF FlowsOK, Answering, NothingStrays
<1>8. ReadsOK'
    <2>1. ASSUME NEW i \in DOMAIN reads
          PROVE  ReadOK(reads[i])'
        <3>1. reads \in Seq(ReadRecords)
            BY DEF TypeOK
        <3>2. reads[i] \in ReadRecords
            BY <3>1
        <3>3. reads[i].sent \in 0..mMaxToken
            BY <1>2, <3>2 DEF ReadRecords, ReadsOK, ReadOK
        <3> QED
            BY <1>1, <1>2, <1>3, <1>4, <1>5, <3>3 DEF ReadsOK, ReadOK
    <2> QED
        BY <1>1, <2>1 DEF ReadsOK
<1>9. AskedOK'
    <2>1. ASSUME NEW i \in DOMAIN asked
          PROVE  ReplayedOK(asked[i])'
        <3> DEFINE Q == [token : Tokens, crossed : BOOLEAN]
        <3>1. asked \in Seq(Q)
            BY DEF TypeOK
        <3>2. asked[i] \in Q
            <4> HIDE DEF Q
            <4> QED
                BY <3>1
        <3>3. asked[i].token \in 0..mMaxToken
            BY <1>2, <3>2, TokenBounds DEF AskedOK, ReplayedOK
        <3> QED
            BY <1>1, <1>2, <1>4, <3>3 DEF AskedOK, ReplayedOK, Spared
    <2> QED
        BY <1>1, <2>1 DEF AskedOK
<1>10. RotatesOK' /\ ReplayOK'
    <2>1. rotates \in 0..mMaxToken /\ mConn.sent \in 0..mMaxToken
        BY <1>2 DEF RotatesOK, ReplayOK, TypeOK
    <2> QED
        BY <1>1, <1>2, <1>4, <2>1 DEF RotatesOK, ReplayOK, Spared
<1>11. StoreOK' /\ ForgottenStaysForgotten'
    <2>1. Changing => change.of \in 0..mMaxToken
        <3>1. ASSUME Changing
              PROVE  change \in [of : 0..MaxTokens, token : BOOLEAN, secureOnly : BOOLEAN]
            BY <3>1, EntryIs DEF Changing, TypeOK
        <3> QED
            BY <1>2, <3>1 DEF StoreOK
    <2>2. stored'.of > 0
        BY <1>2, <1>3
    <2> QED
        BY <1>1, <1>2, <1>3, <1>4, <1>5, <2>1, <2>2
        DEF StoreOK, ForgottenStaysForgotten, Changing
<1> QED
    BY <1>6, <1>7, <1>8, <1>9, <1>10, <1>11

-----------------------------------------------------------------------------
(***************************************************************************)
(* The inductive invariant: the game and the deadline.                     *)
(***************************************************************************)
\* What is left of the replays that are out once the oldest is answered.
LEMMA OldestAnswered ==
    ASSUME TypeOK, asked # <<>>, asked' = Tail(asked)
    PROVE  /\ Head(asked) \in [token : Tokens, crossed : BOOLEAN]
           /\ 1 \in DOMAIN asked /\ Head(asked) = asked[1]
           /\ asked' \in Seq([token : Tokens, crossed : BOOLEAN])
           /\ \A i \in DOMAIN asked' : i + 1 \in DOMAIN asked /\ asked'[i] = asked[i + 1]
<1> DEFINE Q == [token : Tokens, crossed : BOOLEAN]
<1>1. asked \in Seq(Q)
    BY DEF TypeOK
<1> HIDE DEF Q
<1>2. Len(asked) \in Nat /\ Len(asked) > 0 /\ DOMAIN asked = 1..Len(asked)
    BY <1>1
<1>3. Head(asked) = asked[1] /\ asked[1] \in Q
    BY <1>1, <1>2
<1>4. asked' \in Seq(Q) /\ Len(asked') = Len(asked) - 1
    BY <1>1, <1>2
<1>5. DOMAIN asked' = 1..(Len(asked) - 1)
    BY <1>4
<1>6. ASSUME NEW i \in 1..(Len(asked) - 1)
      PROVE  asked'[i] = asked[i + 1]
    BY <1>1, <1>2
<1> QED
    BY <1>2, <1>3, <1>4, <1>5, <1>6 DEF Q

LEMMA IInvResult ==
    ASSUME IInv, NEW success \in BOOLEAN, Result(success)
    PROVE  IInv'
<1> DEFINE q == Head(asked)
<1> USE DEF IInv
<1>1. /\ asked # <<>> /\ asked' = Tail(asked)
      /\ rotates' = IF success /\ ~q.crossed THEN q.token ELSE rotates
      /\ UNCHANGED <<connVars, mSignInAttemptPending, throttled, deadlines, flows, storeVars,
                     mMaxToken, discarded, strayed>>
    BY DEF Result
<1>2. /\ q \in [token : Tokens, crossed : BOOLEAN]
      /\ 1 \in DOMAIN asked /\ q = asked[1]
      /\ asked' \in Seq([token : Tokens, crossed : BOOLEAN])
      /\ \A i \in DOMAIN asked' : i + 1 \in DOMAIN asked /\ asked'[i] = asked[i + 1]
    BY <1>1, OldestAnswered
<1> HIDE DEF q
<1>3. ReplayedOK(q)
    BY <1>2 DEF AskedOK
<1>4. conn.up /\ mSignInOffered
    BY <1>3 DEF ReplayedOK
\* The replay that was awaited has left the reads it follows superseded.
<1>5. /\ mConn' \in [awaiting : BOOLEAN, reconnecting : BOOLEAN, forgotten : BOOLEAN,
                     retried : BOOLEAN, sent : 0..MaxTokens]
      /\ ~mConn'.awaiting /\ mConn'.reconnecting = mConn.reconnecting
      /\ mConn'.forgotten = mConn.forgotten /\ mConn'.sent = mConn.sent
    BY DEF Result, TypeOK
<1>6. /\ reads' \in Seq(ReadRecords) /\ LatestOnly(reads')
      /\ due' \in BOOLEAN /\ mReconnectRejected' \in BOOLEAN
      /\ \A i \in DOMAIN reads' :
            \/ \E j \in DOMAIN reads : reads'[i] = reads[j]
            \/ /\ reads'[i].offer = offers /\ reads'[i].sent = mConn.sent
               /\ reads'[i].forgotten = mConn.forgotten
               /\ reads'[i].granted => ~Changing
               /\ mConn.awaiting
    <2>1. CASE mConn.awaiting /\ ~success
        <3>1. mReconnectRejected' = TRUE /\ AskRead(reads, RecoveryRead) /\ due' = (due /\ ~success)
            BY <2>1 DEF Result
        <3>2. AllStale(reads)
            BY <2>1 DEF ReadsOK, ReadOK, AllStale
        <3>3. due' \in BOOLEAN
            BY <3>1
        <3> QED
            BY <2>1, <3>1, <3>2, <3>3, RecoveryAsks
    <2>2. CASE ~(mConn.awaiting /\ ~success)
        <3>1. UNCHANGED <<mReconnectRejected, reads>> /\ (due' = due \/ due' = (due /\ ~success))
            BY <2>2 DEF Result
        <3>2. due' \in BOOLEAN /\ reads \in Seq(ReadRecords) /\ mReconnectRejected \in BOOLEAN
            BY <3>1 DEF TypeOK
        <3> QED
            BY <3>1, <3>2 DEF TypeOK, LatestOnly
    <2> QED
        BY <2>1, <2>2
<1> USE DEF connVars, storeVars
<1>7. rotates' \in 0..MaxTokens
    BY <1>1, <1>2, TokenBounds DEF TypeOK
<1>8. TypeOK'
    BY <1>1, <1>2, <1>5, <1>6, <1>7 DEF TypeOK, LatestOnly
<1>9. FlowsOK' /\ NothingStrays'
    BY <1>1 DEF FlowsOK, Answering, NothingStrays
<1>10. ReadsOK'
    <2>1. ASSUME NEW i \in DOMAIN reads'
          PROVE  ReadOK(reads[i])'
        <3>1. CASE \E j \in DOMAIN reads : reads'[i] = reads[j]
            BY <1>1, <1>5, <3>1 DEF ReadsOK, ReadOK
        <3>2. CASE /\ reads'[i].offer = offers /\ reads'[i].sent = mConn.sent
                   /\ reads'[i].forgotten = mConn.forgotten
                   /\ reads'[i].granted => ~Changing
                   /\ mConn.awaiting
            <4>1. ~mSignInAttemptPending /\ mConn.sent <= mMaxToken
                  /\ (~mConn.forgotten => mConn.sent \notin discarded)
                BY <3>2 DEF ReplayOK
            <4> QED
                BY <1>1, <1>4, <1>5, <3>2, <4>1 DEF ReadOK, StoreOK
        <3> QED
            BY <1>6, <3>1, <3>2
    <2> QED
        BY <2>1 DEF ReadsOK
<1>11. mConn.forgotten /\ Spared => Spared'
    BY <1>6 DEF Spared
<1>12. AskedOK'
    <2>1. ASSUME NEW i \in DOMAIN asked'
          PROVE  ReplayedOK(asked[i])'
        <3>1. i + 1 \in DOMAIN asked /\ asked'[i] = asked[i + 1] /\ ReplayedOK(asked[i + 1])
            BY <1>2 DEF AskedOK
        <3> QED
            BY <1>1, <1>5, <1>11, <3>1 DEF ReplayedOK
    <2> QED
        BY <2>1 DEF AskedOK
<1>13. RotatesOK'
    <2>1. CASE success /\ ~q.crossed
        BY <1>1, <1>3, <1>5, <1>11, <2>1 DEF ReplayedOK, RotatesOK
    <2>2. CASE ~(success /\ ~q.crossed)
        BY <1>1, <1>5, <1>11, <2>2 DEF RotatesOK
    <2> QED
        BY <2>1, <2>2
<1>14. ReplayOK'
    BY <1>1, <1>5 DEF ReplayOK
<1>15. StoreOK' /\ ForgottenStaysForgotten'
    BY <1>1 DEF StoreOK, ForgottenStaysForgotten, Changing
<1> QED
    BY <1>8, <1>9, <1>10, <1>12, <1>13, <1>14, <1>15

LEMMA IInvDeadlinePasses ==
    ASSUME IInv, NEW d \in deadlines, DeadlinePasses(d)
    PROVE  IInv'
<1> USE DEF IInv, connVars, attemptVars, storeVars, gameVars, outcome
<1>1. deadlines' = deadlines \ {d} /\ UNCHANGED <<connVars, attemptVars, reads, storeVars, gameVars>>
    BY DEF DeadlinePasses
<1>2. conn.up /\ offeredOn = conn.id /\ d.offer = offers
    BY DEF ReplayOK
<1>3. deadlines' \subseteq [token : Tokens, offer : 0..MaxOffers]
    BY <1>1 DEF TypeOK
<1>4. CASE mConn.awaiting
    <2>1. /\ mConn' = [mConn EXCEPT !.awaiting = FALSE]
          /\ asked' = [i \in DOMAIN asked |-> [asked[i] EXCEPT !.crossed = TRUE]]
          /\ SelectAuthMethod(offers)
        BY <1>2, <1>4 DEF DeadlinePasses
    <2>2. CrossedOut
        BY <2>1, CrossingOut
    <2>3. /\ FlowsOK' /\ flows' \in [held : Flow, retired : Flow]
          /\ due' \in BOOLEAN /\ strayed' \in BOOLEAN /\ ~strayed'
        BY <1>1, <1>2, <2>1, SelectSettles DEF NothingStrays
    <2>4. /\ mConn' \in [awaiting : BOOLEAN, reconnecting : BOOLEAN, forgotten : BOOLEAN,
                         retried : BOOLEAN, sent : 0..MaxTokens]
          /\ ~mConn'.awaiting /\ mConn'.reconnecting = mConn.reconnecting
          /\ mConn'.forgotten = mConn.forgotten /\ mConn'.sent = mConn.sent
        BY <2>1 DEF TypeOK
    <2>5. TypeOK'
        BY <1>1, <1>3, <2>2, <2>3, <2>4 DEF TypeOK, CrossedOut
    <2>6. ReadsOK' /\ RotatesOK' /\ ReplayOK'
        BY <1>1, <2>4 DEF ReadsOK, ReadOK, RotatesOK, ReplayOK, Spared
    <2>7. AskedOK'
        <3>1. ASSUME NEW i \in DOMAIN asked
              PROVE  ReplayedOK(asked[i])'
            BY <1>1, <2>2 DEF CrossedOut, AskedOK, ReplayedOK
        <3> QED
            BY <2>2, <3>1 DEF CrossedOut, AskedOK
    <2>8. StoreOK' /\ ForgottenStaysForgotten' /\ NothingStrays'
        BY <1>1, <2>3 DEF StoreOK, ForgottenStaysForgotten, Changing, NothingStrays
    <2> QED
        BY <2>3, <2>5, <2>6, <2>7, <2>8
<1>5. CASE ~mConn.awaiting
    <2>1. UNCHANGED <<mConn, asked, flows, outcome>>
        BY <1>5 DEF DeadlinePasses
    <2>2. TypeOK'
        BY <1>1, <1>3, <2>1 DEF TypeOK
    <2>3. ReadsOK' /\ AskedOK' /\ RotatesOK' /\ ReplayOK'
        BY <1>1, <2>1 DEF ReadsOK, ReadOK, AskedOK, ReplayedOK, RotatesOK, ReplayOK, Spared
    <2>4. FlowsOK' /\ StoreOK' /\ ForgottenStaysForgotten' /\ NothingStrays'
        BY <1>1, <2>1 DEF FlowsOK, Answering, StoreOK, ForgottenStaysForgotten, Changing, NothingStrays
    <2> QED
        BY <2>2, <2>3, <2>4
<1> QED
    BY <1>4, <1>5

LEMMA IInvIssueToken ==
    ASSUME IInv, NEW secureOnly \in BOOLEAN, IssueToken(secureOnly)
    PROVE  IInv'
<1> DEFINE t == mMaxToken + 1
           keeps == mSignInOffered /\ KeepsToken
<1> USE DEF IInv
<1>1. /\ t \in Tokens /\ mMaxToken' = t
      /\ discarded' = discarded \union (IF rotates \in discarded THEN {t} ELSE {})
      /\ rotates' = IF rotates = 0 THEN 0 ELSE t
      /\ change' = IF keeps THEN Full(t, secureOnly) ELSE change
      /\ UNCHANGED <<connVars, attemptVars, replayVars, reads, flows, stored,
                     rejectedTokenHash, failures, outcome>>
    BY DEF IssueToken
<1>2. mMaxToken \in Nat /\ discarded \subseteq 1..mMaxToken /\ t \notin discarded
    BY TokenBounds DEF TypeOK, StoreOK
<1>3. Full(t, secureOnly) \in Entries \ {NoChange} /\ Full(t, secureOnly).of = t
    BY <1>1, TokenBounds, EntriesAre
<1>4. discarded' \subseteq Tokens /\ discarded' \subseteq 1..t
      /\ \A u \in 0..mMaxToken : u \in discarded' <=> u \in discarded
    BY <1>1, <1>2 DEF TypeOK
<1>5. t \in discarded' <=> rotates \in discarded
    BY <1>1, <1>2
\* A token that replaces one to be forgotten comes while mConn says so.
<1>6. keeps => t \notin discarded'
    BY <1>5 DEF RotatesOK, KeepsToken, StoreOK
<1>7. Changing => change.of \in 0..mMaxToken
    <2>1. ASSUME Changing
          PROVE  change \in [of : 0..MaxTokens, token : BOOLEAN, secureOnly : BOOLEAN]
        BY <2>1, EntryIs DEF Changing, TypeOK
    <2> QED
        BY <1>2, <2>1 DEF StoreOK
<1>8. stored.of \in 0..mMaxToken
    <2>1. stored \in [of : 0..MaxTokens, token : BOOLEAN, secureOnly : BOOLEAN]
        BY EntryIs DEF TypeOK
    <2> QED
        BY <1>2, <2>1 DEF StoreOK
<1> HIDE DEF keeps
<1> USE DEF connVars, attemptVars, replayVars, outcome
<1>9. TypeOK'
    <2>1. rotates' \in 0..MaxTokens /\ mMaxToken' \in 0..MaxTokens
        BY <1>1, TokenBounds
    <2>2. change' \in Entries
        BY <1>1, <1>3 DEF TypeOK
    <2> QED
        BY <1>1, <1>4, <2>1, <2>2 DEF TypeOK
<1>10. FlowsOK' /\ NothingStrays'
    BY <1>1 DEF FlowsOK, Answering, NothingStrays
<1>11. ReadsOK'
    <2>1. ASSUME NEW i \in DOMAIN reads
          PROVE  ReadOK(reads[i])'
        <3>1. reads \in Seq(ReadRecords)
            BY DEF TypeOK
        <3>2. reads[i] \in ReadRecords
            BY <3>1
        <3>3. reads[i].sent \in 0..mMaxToken
            BY <1>2, <3>2 DEF ReadRecords, ReadsOK, ReadOK
        <3> QED
            BY <1>1, <1>2, <1>4, <1>8, <3>3 DEF ReadsOK, ReadOK
    <2> QED
        BY <1>1, <2>1 DEF ReadsOK
<1>12. AskedOK'
    <2>1. ASSUME NEW i \in DOMAIN asked
          PROVE  ReplayedOK(asked[i])'
        <3> DEFINE Q == [token : Tokens, crossed : BOOLEAN]
        <3>1. asked \in Seq(Q)
            BY DEF TypeOK
        <3>2. asked[i] \in Q
            <4> HIDE DEF Q
            <4> QED
                BY <3>1
        <3>3. asked[i].token \in 0..mMaxToken
            BY <1>2, <3>2, TokenBounds DEF AskedOK, ReplayedOK
        <3> QED
            BY <1>1, <1>2, <1>4, <3>3 DEF AskedOK, ReplayedOK, Spared
    <2> QED
        BY <1>1, <2>1 DEF AskedOK
<1>13. RotatesOK'
    <2>1. 0 \notin discarded'
        BY <1>4
    <2> QED
        BY <1>1, <1>2, <1>5, <2>1 DEF RotatesOK, Spared
<1>14. ReplayOK'
    <2>1. mConn.sent \in 0..mMaxToken
        BY <1>2 DEF ReplayOK, TypeOK
    <2> QED
        BY <1>1, <1>2, <1>4, <2>1 DEF ReplayOK
<1>15. StoreOK' /\ ForgottenStaysForgotten'
    <2>1. CASE keeps
        <3>1. change' # NoChange /\ change'.of = t
            BY <1>1, <1>3, <2>1
        <3> QED
            BY <1>1, <1>2, <1>4, <1>6, <1>8, <2>1, <3>1
            DEF StoreOK, ForgottenStaysForgotten, Changing
    <2>2. CASE ~keeps
        BY <1>1, <1>2, <1>4, <1>7, <1>8, <2>2
        DEF StoreOK, ForgottenStaysForgotten, Changing
    <2> QED
        BY <2>1, <2>2
<1> QED
    BY <1>9, <1>10, <1>11, <1>12, <1>13, <1>14, <1>15

LEMMA IInvAuthUrl ==
    ASSUME IInv, AuthUrl
    PROVE  IInv'
<1> USE DEF IInv, connVars, attemptVars, storeVars, outcome
<1>1. /\ mConn' = [mConn EXCEPT !.reconnecting = FALSE] /\ rotates' = 0
      /\ UNCHANGED <<connVars, attemptVars, deadlines, reads, flows, storeVars,
                     mMaxToken, discarded, outcome>>
    BY DEF AuthUrl
<1>2. CrossedOut
    BY CrossingOut DEF AuthUrl
<1>3. /\ mConn' \in [awaiting : BOOLEAN, reconnecting : BOOLEAN, forgotten : BOOLEAN,
                     retried : BOOLEAN, sent : 0..MaxTokens]
      /\ mConn'.awaiting = mConn.awaiting
      /\ mConn'.forgotten = mConn.forgotten /\ mConn'.sent = mConn.sent
    BY <1>1 DEF TypeOK
<1>4. rotates' \in 0..MaxTokens /\ 0 <= mMaxToken /\ 0 \notin discarded
    BY <1>1, TokenBounds DEF TypeOK, StoreOK
<1>5. TypeOK'
    BY <1>1, <1>2, <1>3, <1>4 DEF TypeOK, CrossedOut
<1>6. ReadsOK' /\ RotatesOK' /\ ReplayOK'
    BY <1>1, <1>3, <1>4 DEF ReadsOK, ReadOK, RotatesOK, ReplayOK, Spared
<1>7. AskedOK'
    <2>1. ASSUME NEW i \in DOMAIN asked
          PROVE  ReplayedOK(asked[i])'
        BY <1>1, <1>2 DEF CrossedOut, AskedOK, ReplayedOK
    <2> QED
        BY <1>2, <2>1 DEF CrossedOut, AskedOK
<1>8. FlowsOK' /\ StoreOK' /\ ForgottenStaysForgotten' /\ NothingStrays'
    BY <1>1 DEF FlowsOK, Answering, StoreOK, ForgottenStaysForgotten, Changing, NothingStrays
<1> QED
    BY <1>5, <1>6, <1>7, <1>8

-----------------------------------------------------------------------------
(***************************************************************************)
(* The inductive invariant: the browser sign-in.                           *)
(***************************************************************************)
LEMMA FlowsAre ==
    ASSUME TypeOK, FlowsOK
    PROVE  /\ DOMAIN flows = {"held", "retired"}
           /\ \A which \in DOMAIN flows :
                 /\ flows[which] \in Tidy
                 /\ Answering(flows[which]) => which = "held" /\ flows[which].offer = offers
<1>1. flows \in [held : Flow, retired : Flow]
    BY DEF TypeOK
<1>2. DOMAIN flows = {"held", "retired"} /\ flows["held"] = flows.held
      /\ flows["retired"] = flows.retired
    BY <1>1
<1> QED
    BY <1>2 DEF FlowsOK

LEMMA FlowStepKeepsTidy ==
    ASSUME TypeOK, FlowsOK, offers' = offers, NEW which \in DOMAIN flows, NEW f \in Tidy,
           Answering(f) => which = "held" /\ f.offer = offers,
           NEW settles \in BOOLEAN, FlowStep(which, f, settles)
    PROVE  FlowsOK' /\ flows' \in [held : Flow, retired : Flow] /\ due' \in BOOLEAN
<1>1. flows \in [held : Flow, retired : Flow] /\ f \in Flow
    BY DEF TypeOK, Tidy
<1>2. flows' = [flows EXCEPT ![which] = f] /\ due' = (due /\ ~settles)
    BY DEF FlowStep
<1>3. which = "held" \/ which = "retired"
    BY FlowsAre
<1>4. flows' \in [held : Flow, retired : Flow] /\ FlowsOK'
    <2>1. CASE which = "held"
        <3>1. flows' = [held |-> f, retired |-> flows.retired]
            BY <1>1, <1>2, <2>1
        <3> QED
            BY <3>1, <1>1 DEF FlowsOK, Answering
    <2>2. CASE which = "retired"
        <3>1. flows' = [held |-> flows.held, retired |-> f]
            BY <1>1, <1>2, <2>2
        <3> QED
            BY <3>1, <1>1, <2>2 DEF FlowsOK, Answering
    <2> QED
        BY <1>3, <2>1, <2>2
<1>5. due' \in BOOLEAN
    BY <1>2
<1> QED
    BY <1>4, <1>5

LEMMA IInvDiscoveryReplies ==
    ASSUME IInv, NEW which \in DOMAIN flows, NEW usable \in BOOLEAN,
           DiscoveryReplies(which, usable)
    PROVE  IInv'
<1> DEFINE f == flows[which]
           ready == AuthorizationUrlReady(f, usable)
           settles == ~f.mCompleted /\ ~usable
           Q == [token : Tokens, crossed : BOOLEAN]
<1> USE DEF IInv
<1>1. /\ FlowStep(which, HandleDiscoveryReply(f, usable), settles)
      /\ mConn' = [mConn EXCEPT !.reconnecting = mConn.reconnecting /\ ~ready]
      /\ asked' = [i \in DOMAIN asked |-> [asked[i] EXCEPT !.crossed = asked[i].crossed \/ ready]]
      /\ rotates' = IF ready THEN 0 ELSE rotates
      /\ UNCHANGED <<connVars, attemptVars, deadlines, reads, storeVars, mMaxToken,
                     discarded, strayed>>
    BY DEF DiscoveryReplies
<1>2. FlowsOK' /\ flows' \in [held : Flow, retired : Flow] /\ due' \in BOOLEAN
    <2>1. f \in Tidy /\ (Answering(f) => which = "held" /\ f.offer = offers)
        BY FlowsAre
    <2> DEFINE left == HandleDiscoveryReply(f, usable)
    <2>2. /\ left \in Tidy /\ left.offer = f.offer
          /\ Answering(left) => Answering(f)
        BY <2>1, StepsAreTidy DEF Answering, DiscoveryReplies
    <2>3. settles \in BOOLEAN
        OBVIOUS
    <2> HIDE DEF f, settles, left
    <2>4. FlowStep(which, left, settles) /\ offers' = offers
        BY <1>1 DEF left, connVars
    <2> QED
        BY <2>1, <2>2, <2>3, <2>4, FlowStepKeepsTidy
<1>3. ready \in BOOLEAN
    BY DEF AuthorizationUrlReady
<1> HIDE DEF ready
<1>4. /\ mConn' \in [awaiting : BOOLEAN, reconnecting : BOOLEAN, forgotten : BOOLEAN,
                     retried : BOOLEAN, sent : 0..MaxTokens]
      /\ mConn'.awaiting = mConn.awaiting
      /\ mConn'.forgotten = mConn.forgotten /\ mConn'.sent = mConn.sent
      /\ ~ready => mConn'.reconnecting = mConn.reconnecting
    <2>1. mConn \in [awaiting : BOOLEAN, reconnecting : BOOLEAN, forgotten : BOOLEAN,
                     retried : BOOLEAN, sent : 0..MaxTokens]
        BY DEF TypeOK
    <2> DEFINE still == mConn.reconnecting /\ ~ready
    <2>2. still \in BOOLEAN /\ (~ready => still = mConn.reconnecting)
        BY <2>1
    <2> HIDE DEF still
    <2>3. mConn' = [mConn EXCEPT !.reconnecting = still]
        BY <1>1 DEF still
    <2> QED
        BY <2>1, <2>2, <2>3
<1>5. asked \in Seq(Q)
    BY DEF TypeOK
<1>6. ASSUME NEW i \in DOMAIN asked
      PROVE  /\ asked'[i] \in Q /\ asked'[i].token = asked[i].token
             /\ ready => asked'[i].crossed
             /\ ~ready => asked'[i].crossed = asked[i].crossed
    <2>1. asked[i] \in Q
        <3> HIDE DEF Q
        <3> QED
            BY <1>5
    <2> DEFINE crossed == asked[i].crossed \/ ready
    <2>2. crossed \in BOOLEAN /\ (ready => crossed) /\ (~ready => crossed = asked[i].crossed)
        BY <2>1
    <2> HIDE DEF crossed
    <2>3. asked'[i] = [asked[i] EXCEPT !.crossed = crossed]
        BY <1>1 DEF crossed
    <2> QED
        BY <2>1, <2>2, <2>3
<1>7. asked' \in Seq(Q) /\ DOMAIN asked' = DOMAIN asked
    <2>1. asked' = [i \in DOMAIN asked |-> asked'[i]]
        BY <1>1
    <2> HIDE DEF Q
    <2> QED
        BY <1>5, <1>6, <2>1, MappedSequence
<1>8. rotates' \in 0..MaxTokens /\ 0 <= mMaxToken /\ 0 \notin discarded
    BY <1>1, TokenBounds DEF TypeOK, StoreOK
<1> USE DEF connVars, attemptVars, storeVars
<1>9. TypeOK'
    BY <1>1, <1>2, <1>4, <1>7, <1>8 DEF TypeOK
<1>10. ReadsOK' /\ ReplayOK'
    BY <1>1, <1>4 DEF ReadsOK, ReadOK, ReplayOK
<1>11. RotatesOK'
    BY <1>1, <1>4, <1>8 DEF RotatesOK, Spared
<1>12. AskedOK'
    <2>1. ASSUME NEW i \in DOMAIN asked
          PROVE  ReplayedOK(asked[i])'
        BY <1>1, <1>4, <1>6 DEF AskedOK, ReplayedOK, Spared
    <2> QED
        BY <1>7, <2>1 DEF AskedOK
<1>13. StoreOK' /\ ForgottenStaysForgotten' /\ NothingStrays'
    BY <1>1 DEF StoreOK, ForgottenStaysForgotten, Changing, NothingStrays
<1> QED
    BY <1>2, <1>9, <1>10, <1>11, <1>12, <1>13

\* What the flows do on their own, or nothing at all, leaves the rest alone.
LEMMA IInvOnlyFlows ==
    ASSUME IInv, FlowsOK', flows' \in [held : Flow, retired : Flow], due' \in BOOLEAN,
           strayed' = FALSE,
           UNCHANGED <<connVars, attemptVars, replayVars, reads, storeVars, gameVars>>
    PROVE  IInv'
<1> USE DEF IInv, connVars, attemptVars, replayVars, storeVars, gameVars
<1>1. TypeOK'
    BY DEF TypeOK
<1>2. ReadsOK' /\ AskedOK' /\ RotatesOK' /\ ReplayOK'
    BY DEF ReadsOK, ReadOK, AskedOK, ReplayedOK, RotatesOK, ReplayOK, Spared
<1>3. StoreOK' /\ ForgottenStaysForgotten' /\ NothingStrays'
    BY DEF StoreOK, ForgottenStaysForgotten, Changing, NothingStrays
<1> QED
    BY <1>1, <1>2, <1>3

LEMMA NotStrayed ==
    ASSUME IInv
    PROVE  strayed = FALSE
    BY DEF IInv, NothingStrays, TypeOK

\* The code goes to the offer its flow was started for: an offer made since
\* would have given the flow up.
LEMMA IInvBrowserReturns ==
    ASSUME IInv, NEW which \in DOMAIN flows, NEW code \in BOOLEAN, BrowserReturns(which, code)
    PROVE  IInv'
<1> DEFINE f == flows[which]
           left == ReadRedirectRequest(f)
<1>1. /\ f \in Tidy /\ left \in Tidy /\ ~Answering(left)
      /\ f.offer = offers
    <2>1. f \in Tidy /\ (Answering(f) => f.offer = offers)
        BY FlowsAre DEF IInv
    <2>2. Answering(f)
        BY DEF BrowserReturns, Answering
    <2> QED
        BY <2>1, <2>2, StepsAreTidy DEF Answering
<1>2. UNCHANGED <<connVars, attemptVars, replayVars, reads, storeVars, gameVars>>
      /\ offers' = offers
    BY DEF BrowserReturns, connVars
<1>3. CASE code
    <2>1. /\ flows' = [held |-> NoFlow, retired |-> left] /\ due' = FALSE
          /\ strayed' = (strayed \/ (conn.up /\ conn.secure /\ f.offer # offers))
        BY <1>3 DEF BrowserReturns
    <2>2. strayed' = FALSE
        BY <1>1, <2>1, NotStrayed
    <2> HIDE DEF left
    <2>3. FlowsOK' /\ flows' \in [held : Flow, retired : Flow]
        BY <1>1, <2>1, NoFlowIsTidy DEF FlowsOK, Answering, Tidy
    <2> QED
        BY <1>2, <2>1, <2>2, <2>3, IInvOnlyFlows
<1>4. CASE ~code
    <2>1. FlowStep(which, left, TRUE) /\ strayed' = FALSE
        BY <1>4, NotStrayed DEF BrowserReturns
    <2> HIDE DEF left
    <2>2. FlowsOK' /\ flows' \in [held : Flow, retired : Flow] /\ due' \in BOOLEAN
        BY <1>1, <1>2, <2>1, FlowStepKeepsTidy DEF IInv
    <2> QED
        BY <1>2, <2>1, <2>2, IInvOnlyFlows
<1> QED
    BY <1>3, <1>4

LEMMA IInvFlowTimesOut ==
    ASSUME IInv, NEW which \in DOMAIN flows, FlowTimesOut(which)
    PROVE  IInv'
<1> DEFINE settles == ~flows[which].mCompleted
<1>1. TimedOut(flows[which]) \in Tidy /\ ~Answering(TimedOut(flows[which]))
    <2>1. flows[which] \in Tidy
        BY FlowsAre DEF IInv
    <2> QED
        BY <2>1, StepsAreTidy DEF Answering
<1>2. /\ settles \in BOOLEAN /\ FlowStep(which, TimedOut(flows[which]), settles)
      /\ offers' = offers
    BY DEF FlowTimesOut, connVars
<1>3. FlowsOK' /\ flows' \in [held : Flow, retired : Flow] /\ due' \in BOOLEAN
    <2> HIDE DEF settles
    <2> QED
        BY <1>1, <1>2, FlowStepKeepsTidy DEF IInv
<1> QED
    BY <1>3, NotStrayed, IInvOnlyFlows DEF FlowTimesOut

LEMMA IInvFlowDeleted ==
    ASSUME IInv, FlowDeleted
    PROVE  IInv'
<1>1. flows' = [flows EXCEPT !.retired = NoFlow]
      /\ flows \in [held : Flow, retired : Flow] /\ due' = due /\ due \in BOOLEAN
    BY DEF FlowDeleted, IInv, TypeOK, outcome
<1>2. flows'.held = flows.held /\ flows'.retired = NoFlow
      /\ flows' \in [held : Flow, retired : Flow]
    BY <1>1, NoFlowIsTidy DEF Tidy
<1>3. FlowsOK'
    BY <1>2, NoFlowIsTidy DEF IInv, FlowsOK, Answering, FlowDeleted, connVars
<1> QED
    BY <1>1, <1>2, <1>3, NotStrayed, IInvOnlyFlows DEF FlowDeleted, outcome

-----------------------------------------------------------------------------
(***************************************************************************)
(* The theorems.                                                           *)
(***************************************************************************)
LEMMA IInvNext == IInv /\ [Next]_vars => IInv'
<1> SUFFICES ASSUME IInv, [Next]_vars
             PROVE  IInv'
    OBVIOUS
<1>1. ASSUME NEW secure \in BOOLEAN, Connect(secure)
      PROVE  IInv'
    BY <1>1, IInvConnect
<1>2. ASSUME NEW requested \in BOOLEAN, Disconnect(requested)
      PROVE  IInv'
    BY <1>2, IInvDisconnect
<1>3. CASE OfferNothing
    BY <1>3, IInvOfferNothing
<1>4. ASSUME NEW o \in GameOffers, Offer(o)
      PROVE  IInv'
    BY <1>4, IInvOffer
<1>5. CASE ThrottleEnds
    BY <1>5, IInvThrottleEnds
<1>6. CASE Reads
    BY <1>6, IInvReadAnswers DEF Reads
<1>7. ASSUME NEW reached \in BOOLEAN, ChangeEnds(reached)
      PROVE  IInv'
    BY <1>7, IInvChangeEnds
<1>8. CASE ForgetSavedSignIn
    BY <1>8, IInvForgetSavedSignIn
<1>9. ASSUME NEW success \in BOOLEAN, Result(success)
      PROVE  IInv'
    BY <1>9, IInvResult
<1>10. ASSUME NEW d \in deadlines, DeadlinePasses(d)
       PROVE  IInv'
    BY <1>10, IInvDeadlinePasses
<1>11. ASSUME NEW secureOnly \in BOOLEAN, IssueToken(secureOnly)
       PROVE  IInv'
    BY <1>11, IInvIssueToken
<1>12. CASE AuthUrl
    BY <1>12, IInvAuthUrl
<1>13. ASSUME NEW secureOnly \in BOOLEAN, OtherMudletRotates(secureOnly)
       PROVE  IInv'
    BY <1>13, IInvOtherMudletRotates
<1>14. ASSUME NEW which \in DOMAIN flows, NEW usable \in BOOLEAN, DiscoveryReplies(which, usable)
       PROVE  IInv'
    BY <1>14, IInvDiscoveryReplies
<1>15. ASSUME NEW which \in DOMAIN flows, NEW code \in BOOLEAN, BrowserReturns(which, code)
       PROVE  IInv'
    BY <1>15, IInvBrowserReturns
<1>16. ASSUME NEW which \in DOMAIN flows, FlowTimesOut(which)
       PROVE  IInv'
    BY <1>16, IInvFlowTimesOut
<1>17. CASE FlowDeleted
    BY <1>17, IInvFlowDeleted
<1>18. CASE UNCHANGED vars
    <2>1. FlowsOK' /\ flows' \in [held : Flow, retired : Flow] /\ due' \in BOOLEAN
        BY <1>18 DEF vars, connVars, outcome, IInv, FlowsOK, Answering, TypeOK
    <2> QED
        BY <1>18, <2>1, NotStrayed, IInvOnlyFlows DEF vars, outcome
<1> QED
    BY <1>1, <1>2, <1>3, <1>4, <1>5, <1>6, <1>7, <1>8, <1>9, <1>10, <1>11, <1>12, <1>13,
       <1>14, <1>15, <1>16, <1>17, <1>18 DEF Next

\* However connections, offers, answers, deadlines, the store and the player
\* interleave, the inductive invariant holds.
THEOREM IInvHolds == Spec => []IInv
    BY IInvInit, IInvNext, PTL DEF Spec

\* Every variable of an attempt keeps its type, and of the reads in progress
\* at most the latest is not superseded (readStoredSignIn, GMCPAuthenticator.cpp).
THEOREM TypeCorrect == Spec => []TypeOK
<1>1. IInv => TypeOK
    BY DEF IInv
<1> QED
    BY <1>1, IInvHolds, PTL

\* A read, a deadline or an attempt that was put off sends nothing but to the
\* connection and the offer it was for, and a browser's code is not sent once
\* another offer has come: what resetForNewConnection(), the generations and
\* cancelClientDrivenOAuth() are there for (GMCPAuthenticator.cpp 274-298).
THEOREM NothingEverStrays == Spec => []NothingStrays
<1>1. IInv => NothingStrays
    BY DEF IInv
<1> QED
    BY <1>1, IInvHolds, PTL

\* What the player asked to forget, and what replaces it, is never what the
\* store is asked to save: forgetSavedSignIn(), storeReconnectToken() and
\* retryOrDropRejectedToken() together.
THEOREM ForgottenIsNotSavedAgain == Spec => []ForgottenStaysForgotten
<1>1. IInv => ForgottenStaysForgotten
    BY DEF IInv
<1> QED
    BY <1>1, IInvHolds, PTL

\* A browser sign-in that ended holds no timer, no listener and no secret,
\* whatever the network and the browser still bring (OAuthClientFlow.cpp).
THEOREM FinishedFlowsAreEmpty == Spec => []FinishedFlowHoldsNothing
<1>1. IInv => FinishedFlowHoldsNothing
    BY FlowsAre DEF IInv, FinishedFlowHoldsNothing, Tidy
<1> QED
    BY <1>1, IInvHolds, PTL

====================================
