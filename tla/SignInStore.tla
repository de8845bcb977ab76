----------------------------- MODULE SignInStore -----------------------------
(***************************************************************************)
(* SignInStoreReconciler brings a profile's saved sign-in, a metadata      *)
(* record and a token, to the state most recently asked for, one store     *)
(* operation at a time, and schedules the reads of both.  Everything runs  *)
(* on the main thread, so what interleaves are callbacks: a completion may *)
(* request another state while the function that called it has work left.  *)
(* The functions on the C++ stack are the frames of `stack', top first.    *)
(*                                                                         *)
(* The store is the one GMCPAuthenticator gives it: the metadata is a file *)
(* of the profile, written before the call returns, and the token is       *)
(* either such a file too or an entry of the system's keychain, whose jobs *)
(* run one after the other, answer later, and are given up on by a timeout *)
(* that does not stop them.  A token the keychain refuses is put in a file *)
(* after all.                                                              *)
(*                                                                         *)
(* Requests are numbered from 1 as by mNextId; a token is known by the     *)
(* number of the request that carries it and 0 is no token.                *)
(***************************************************************************)
EXTENDS Integers, Sequences, FiniteSets, SequencesExt

CONSTANTS
    MaxRequests,   \* bound on the calls of setIntent()
    MaxReads,      \* bound on the calls of whenReadable()
    MaxCloses      \* bound on how often the profile is closed

ASSUME BoundsAssumption == MaxRequests \in Nat /\ MaxReads \in Nat /\ MaxCloses \in Nat

VARIABLES
    intents,       \* the intent of every request so far; its length is mNextId
    mActive,       \* the request being carried out, or NoRequest
    mPending,      \* the number of the request that waits, or 0
    reads,         \* every read asked for so far
    mWaitingReads, \* the reads that wait to be granted
    stack,         \* the functions being executed
    log,           \* what became of requests, in the order it was told
    keychain,      \* whether the token is kept in the keychain
    inlineRecord,  \* *mpStoreHoldsInlineRecord
    meta,          \* the stored metadata
    token,         \* the stored token
    fileToken,     \* the token a file holds because the keychain refused it
    twoPlaces,     \* history: the keychain and a file have each held a token at once
    jobs,          \* the jobs the keychain has not carried out
    closes         \* how often the profile was closed

vars == <<intents, mActive, mPending, reads, mWaitingReads, stack, log,
          keychain, inlineRecord, meta, token, fileToken, twoPlaces, jobs, closes>>
requestVars == <<mActive, mPending, log, stack>>
storeVars == <<inlineRecord, meta, token, fileToken, twoPlaces, jobs>>
readVars == <<reads, mWaitingReads>>

------------------------------------------------------------------------------
(* Intents and the operations that lead to them.                           *)

Intent == [shape: {"Full"}, secureOnly: BOOLEAN]
            \cup [shape: {"Hint", "Absent"}, secureOnly: {TRUE}]

Operation == {"WriteMetadata", "WriteToken", "RemoveToken", "RemoveMetadata"}
Outcome == {"Reached", "Failed", "Superseded"}

SequenceFor(intent) ==
    CASE intent.shape = "Full" -> <<"WriteMetadata", "WriteToken">>
                                    \o IF intent.secureOnly THEN <<>> ELSE <<"WriteMetadata">>
      [] intent.shape = "Hint" -> <<"RemoveToken", "WriteMetadata">>
      [] intent.shape = "Absent" -> <<"RemoveToken", "RemoveMetadata">>

NoRequest == [id |-> 0, step |-> 0, removingStaleToken |-> FALSE]
NoMetadata == [from |-> 0, inTheClear |-> FALSE]

\* Mutant: secure_only is what the intent asks for, from the first write on.
MetadataPayloadAsAsked(request) ==
    [from |-> request.id,
     inTheClear |-> /\ intents[request.id].shape = "Full"
                    /\ ~intents[request.id].secureOnly]

\* secure_only is false only for an intent that asks for it, and only once its
\* own token is stored.
MetadataPayload(request) ==
    [from |-> request.id,
     inTheClear |-> /\ intents[request.id].shape = "Full"
                    /\ request.step > 2
                    /\ ~intents[request.id].secureOnly]

\* The number of reads in progress.
mReaders == Cardinality({r \in DOMAIN reads : reads[r].at \in {"granted", "reading"}})

------------------------------------------------------------------------------
(* Frames of the stack.                                                    *)

ClientFrame == <<"client">>            \* a completion or the end of a read: the client's code
SetIntentFrame == <<"setIntent">>      \* the rest of setIntent()
GrantFrame == <<"grant">>              \* grantWaitingReads()
ReportFrame(id) == <<"report", id>>    \* finish() of an abandoned request
PerformFrame(op) == <<"perform", op>>  \* the performer, called for mActive
ReadFrame(r) == <<"read", r>>          \* a read that was granted

InClient == stack # <<>> /\ Head(stack) = ClientFrame
InEventLoop == stack = <<>>

------------------------------------------------------------------------------
(* The parts of the reconciler that call each other.  `below' is the stack *)
(* to return to.                                                           *)

\* What a completion is told; failedAt has a meaning only with Failed.
Report(id, outcome, failedAt) == [id |-> id, outcome |-> outcome, failedAt |-> failedAt]

Finish(report, below) ==
    /\ log' = Append(log, report)
    /\ stack' = <<ClientFrame>> \o below

RunStep(request, below) ==
    LET sequence == SequenceFor(intents[request.id])
    IN  \/ /\ request.step <= Len(sequence)
           /\ mActive' = request
           /\ stack' = <<PerformFrame(sequence[request.step])>> \o below
           /\ UNCHANGED log
        \/ /\ request.step > Len(sequence)
           /\ mActive' = NoRequest
           /\ Finish(Report(request.id, "Reached", "WriteMetadata"), <<GrantFrame>> \o below)

Start(below) ==
    /\ mPending' = 0
    /\ RunStep([id |-> mPending, step |-> 1, removingStaleToken |-> FALSE], below)

\* A newer request waits: the running one gives way before its next operation.
NewerWaiting == mPending # 0

\* Mutant: an abandoned request is not reported.
AbandonSilently(below) == Start(below)

\* The newer request is started before the abandoned one is reported.
Abandon(below) == Start(<<ReportFrame(mActive.id)>> \o below)

\* Mutant: a failure is reported as success.
FinishFailedAsReached(failedAt, below) ==
    /\ mActive' = NoRequest
    /\ Finish(Report(mActive.id, "Reached", failedAt), <<GrantFrame>> \o below)
    /\ UNCHANGED mPending

FinishFailed(failedAt, below) ==
    /\ mActive' = NoRequest
    /\ Finish(Report(mActive.id, "Failed", failedAt), <<GrantFrame>> \o below)
    /\ UNCHANGED mPending

\* A failed token write: the token that may be there is removed, and the
\* failure reported when that removal has answered.
RemoveStaleToken(below) ==
    /\ mActive' = [mActive EXCEPT !.removingStaleToken = TRUE]
    /\ stack' = <<PerformFrame("RemoveToken")>> \o below
    /\ UNCHANGED <<mPending, log>>

NextStep(below) ==
    /\ RunStep([mActive EXCEPT !.step = @ + 1], below)
    /\ UNCHANGED mPending

\* The performer's done(ok) for operation op of request id.
OnStepDone(id, op, ok, below) ==
    \/ /\ mActive.id # id
       /\ stack' = below
       /\ UNCHANGED <<mActive, mPending, log>>
    \/ /\ mActive.id = id
       /\ \/ /\ NewerWaiting
             /\ Abandon(below)
          \/ /\ ~NewerWaiting /\ mActive.removingStaleToken
             /\ FinishFailed("WriteToken", below)
          \/ /\ ~NewerWaiting /\ ~mActive.removingStaleToken
             /\ \/ ~ok /\ op = "WriteToken" /\ RemoveStaleToken(below)
                \/ ~ok /\ op # "WriteToken" /\ FinishFailed(op, below)
                \/ ok /\ NextStep(below)

------------------------------------------------------------------------------
(* Calls of the client: GMCPAuthenticator, from the event loop or from one *)
(* of its callbacks.                                                       *)

ClientMayCall == InEventLoop \/ InClient

\* setIntent(): the newest request replaces the one that waits, whose
\* completion runs before the rest of setIntent() does.
SetIntent(intent) ==
    LET id == Len(intents) + 1
        below == <<SetIntentFrame>> \o stack
    IN  /\ ClientMayCall
        /\ id <= MaxRequests
        /\ intents' = Append(intents, intent)
        /\ mPending' = id
        /\ \/ /\ mPending # 0
              /\ Finish(Report(mPending, "Superseded", "WriteMetadata"), below)
           \/ /\ mPending = 0
              /\ stack' = below
              /\ UNCHANGED log
        /\ UNCHANGED <<mActive, readVars, storeVars, keychain, closes>>

SetIntentReturns ==
    /\ stack # <<>> /\ Head(stack) = SetIntentFrame
    /\ \/ /\ mActive = NoRequest /\ mReaders = 0
          /\ Start(Tail(stack))
       \/ /\ mActive # NoRequest \/ mReaders # 0
          /\ stack' = Tail(stack)
          /\ UNCHANGED <<mActive, mPending, log>>
    /\ UNCHANGED <<intents, readVars, storeVars, keychain, closes>>

\* finish() of the request that was abandoned for the one just started.
ReportAbandoned ==
    /\ stack # <<>> /\ Head(stack)[1] = "report"
    /\ Finish(Report(Head(stack)[2], "Superseded", "WriteMetadata"), Tail(stack))
    /\ UNCHANGED <<intents, mActive, mPending, readVars, storeVars, keychain, closes>>

ClientReturns ==
    /\ InClient
    /\ stack' = Tail(stack)
    /\ UNCHANGED <<intents, mActive, mPending, log, readVars, storeVars, keychain, closes>>

Granted == [at |-> "granted", lastRequestId |-> Len(intents), meta |-> NoMetadata]
Waiting == [at |-> "waiting", lastRequestId |-> 0, meta |-> NoMetadata]
Ended == [at |-> "done", lastRequestId |-> 0, meta |-> NoMetadata]

\* Mutant: a read starts while a request is active.
WhenReadableAtOnce ==
    /\ ClientMayCall
    /\ Len(reads) < MaxReads
    /\ reads' = Append(reads, Granted)
    /\ stack' = <<ReadFrame(Len(reads) + 1)>> \o stack
    /\ UNCHANGED <<intents, mActive, mPending, log, mWaitingReads, storeVars, keychain, closes>>

\* whenReadable(): a read starts at once unless a request is active or waits.
WhenReadable ==
    /\ ClientMayCall
    /\ Len(reads) < MaxReads
    /\ \/ /\ mActive # NoRequest \/ mPending # 0
          /\ reads' = Append(reads, Waiting)
          /\ mWaitingReads' = Append(mWaitingReads, Len(reads) + 1)
          /\ UNCHANGED stack
       \/ /\ mActive = NoRequest /\ mPending = 0
          /\ reads' = Append(reads, Granted)
          /\ stack' = <<ReadFrame(Len(reads) + 1)>> \o stack
          /\ UNCHANGED mWaitingReads
    /\ UNCHANGED <<intents, mActive, mPending, log, storeVars, keychain, closes>>

\* grantWaitingReads(): one turn of its loop.
GrantWaitingReads ==
    /\ stack # <<>> /\ Head(stack) = GrantFrame
    /\ \/ /\ mActive = NoRequest /\ mPending = 0 /\ mWaitingReads # <<>>
          /\ reads' = [reads EXCEPT ![Head(mWaitingReads)] = Granted]
          /\ mWaitingReads' = Tail(mWaitingReads)
          /\ stack' = <<ReadFrame(Head(mWaitingReads))>> \o stack
       \/ /\ mActive # NoRequest \/ mPending # 0 \/ mWaitingReads = <<>>
          /\ stack' = Tail(stack)
          /\ UNCHANGED readVars
    /\ UNCHANGED <<intents, mActive, mPending, log, storeVars, keychain, closes>>

\* Mutant: the end of a read starts no request that waited for it.
ReleaseWithoutStarting(r, below) ==
    /\ reads' = [reads EXCEPT ![r] = Ended]
    /\ stack' = <<ClientFrame>> \o below
    /\ UNCHANGED <<mActive, mPending, log>>

\* The lease is released, releaseRead() starts a request that waited for the
\* reads, and then the caller's callback acts on what was read.
EndRead(r, below) ==
    /\ reads' = [reads EXCEPT ![r] = Ended]
    /\ \/ /\ mReaders = 1 /\ mActive = NoRequest /\ mPending # 0
          /\ Start(<<ClientFrame>> \o below)
       \/ /\ mReaders # 1 \/ mActive # NoRequest \/ mPending = 0
          /\ stack' = <<ClientFrame>> \o below
          /\ UNCHANGED <<mActive, mPending, log>>

------------------------------------------------------------------------------
(* The store.                                                              *)

NewJob(kind, arg) == [kind |-> kind, arg |-> arg, awaited |-> TRUE]

TokenAfter(op, id) ==
    CASE op = "WriteToken" -> id
      [] op = "RemoveToken" -> 0
      [] OTHER -> token

\* What follows the profile's own file: a job for the keychain, or the
\* credential's file, which answers before the call returns.
AskCredentialStore(op) ==
    \/ /\ keychain
       /\ jobs' = Append(jobs, NewJob(op, mActive.id))
       /\ stack' = Tail(stack)
       /\ UNCHANGED <<mActive, mPending, log, token, inlineRecord>>
    \/ /\ ~keychain
       /\ \E ok \in BOOLEAN :
            /\ token' = IF ok THEN TokenAfter(op, mActive.id) ELSE token
            /\ inlineRecord' = (inlineRecord /\ ~(ok /\ op \in {"WriteMetadata", "RemoveMetadata"}))
            /\ OnStepDone(mActive.id, op, ok, Tail(stack))
       /\ UNCHANGED jobs
    /\ UNCHANGED <<fileToken, twoPlaces>>

Performing(op) == stack # <<>> /\ Head(stack) = PerformFrame(op)

PerformWriteMetadata ==
    /\ Performing("WriteMetadata")
    /\ \/ /\ UNCHANGED storeVars
          /\ OnStepDone(mActive.id, "WriteMetadata", FALSE, Tail(stack))
       \/ /\ meta' = MetadataPayload(mActive)
          /\ \/ /\ ~inlineRecord
                /\ OnStepDone(mActive.id, "WriteMetadata", TRUE, Tail(stack))
                /\ UNCHANGED <<inlineRecord, token, fileToken, twoPlaces, jobs>>
             \/ /\ inlineRecord
                /\ AskCredentialStore("WriteMetadata")
    /\ UNCHANGED <<intents, readVars, keychain, closes>>

PerformRemoveMetadata ==
    /\ Performing("RemoveMetadata")
    /\ \/ /\ UNCHANGED storeVars
          /\ OnStepDone(mActive.id, "RemoveMetadata", FALSE, Tail(stack))
       \/ /\ meta' = NoMetadata
          /\ AskCredentialStore("RemoveMetadata")
    /\ UNCHANGED <<intents, readVars, keychain, closes>>

PerformOnToken ==
    /\ \E op \in {"WriteToken", "RemoveToken"} :
         Performing(op) /\ AskCredentialStore(op)
    /\ UNCHANGED <<intents, readVars, meta, keychain, closes>>

\* A granted read: the metadata is read at once, the credential store is asked
\* next, and a file answers before the call returns.
ReadEntry ==
    /\ stack # <<>> /\ Head(stack)[1] = "read"
    /\ LET r == Head(stack)[2]
       IN  \/ /\ keychain
              /\ reads' = [reads EXCEPT ![r].at = "reading", ![r].meta = meta]
              /\ jobs' = Append(jobs, NewJob("Read", r))
              /\ stack' = Tail(stack)
              /\ UNCHANGED <<mActive, mPending, log>>
           \/ /\ ~keychain
              /\ EndRead(r, Tail(stack))
              /\ UNCHANGED jobs
    /\ UNCHANGED <<intents, mWaitingReads, inlineRecord, meta, token, fileToken, twoPlaces, keychain,
                   closes>>

\* CredentialManager's handler of a job's end, which is gone after a timeout:
\* what the keychain refused goes to a file, and a removal is one of that file
\* as well.  `done' is of the keychain, `fileDone' of the file.
FileTokenAfter(job, done) ==
    CASE job.kind = "WriteToken" /\ ~done -> job.arg
      [] job.kind = "RemoveToken" -> 0
      [] OTHER -> fileToken

Answer(job, done, fileDone) ==
    CASE job.kind \in {"WriteToken", "WriteMetadata"} -> done \/ fileDone
      [] job.kind = "RemoveToken" -> done /\ (fileDone \/ fileToken = 0)
      [] OTHER -> done

\* The keychain carries out, or refuses, its next job.
JobEnds ==
    /\ InEventLoop
    /\ jobs # <<>>
    /\ jobs' = Tail(jobs)
    /\ LET job == Head(jobs)
       IN  \E done, fileDone \in BOOLEAN :
             /\ token' = IF done THEN TokenAfter(job.kind, job.arg) ELSE token
             /\ fileToken' = IF job.awaited /\ fileDone THEN FileTokenAfter(job, done) ELSE fileToken
             /\ twoPlaces' = (twoPlaces \/ (token' # 0 /\ fileToken' # 0))
             /\ inlineRecord' = (inlineRecord
                  /\ ~(/\ job.awaited /\ job.kind \in {"WriteMetadata", "RemoveMetadata"}
                       /\ Answer(job, done, fileDone)))
             /\ \/ /\ ~job.awaited
                   /\ UNCHANGED <<requestVars, reads>>
                \/ /\ job.awaited /\ job.kind = "Read"
                   /\ EndRead(job.arg, <<>>)
                \/ /\ job.awaited /\ job.kind # "Read"
                   /\ OnStepDone(job.arg, job.kind, Answer(job, done, fileDone), <<>>)
                   /\ UNCHANGED reads
    /\ UNCHANGED <<intents, mWaitingReads, meta, keychain, closes>>

\* Nobody waits for a job any longer.
GiveUp(j) == [jobs EXCEPT ![j].awaited = FALSE]

\* The timeout of a job: its caller is told it failed, and it goes on.
JobTimesOut ==
    /\ InEventLoop
    /\ \E j \in DOMAIN jobs :
         /\ jobs[j].awaited
         /\ jobs' = GiveUp(j)
         /\ \/ /\ jobs[j].kind = "Read"
               /\ EndRead(jobs[j].arg, <<>>)
            \/ /\ jobs[j].kind # "Read"
               /\ OnStepDone(jobs[j].arg, jobs[j].kind, FALSE, <<>>)
               /\ UNCHANGED reads
    /\ UNCHANGED <<intents, mWaitingReads, inlineRecord, meta, token, fileToken, twoPlaces, keychain,
                   closes>>

\* Mutant: the reads that wait outlive the reconciler.
CloseProfileKeepingWaiting ==
    /\ InEventLoop
    /\ closes < MaxCloses
    /\ closes' = closes + 1
    /\ mActive' = NoRequest
    /\ mPending' = 0
    /\ reads' = <<>>
    /\ jobs' = <<>>
    /\ UNCHANGED <<intents, stack, log, mWaitingReads, keychain, inlineRecord, meta, token, fileToken,
                   twoPlaces>>

\* The profile is closed and the reconciler destroyed: what it had not reported
\* it never does.  The keychain goes on with its jobs, unless the program ends;
\* a record found inline is known of again once a read has met it.
CloseProfile ==
    /\ InEventLoop
    /\ closes < MaxCloses
    /\ closes' = closes + 1
    /\ log' = log \o (IF mActive = NoRequest THEN <<>> ELSE <<Report(mActive.id, "Dropped", "WriteMetadata")>>)
                  \o (IF mPending = 0 THEN <<>> ELSE <<Report(mPending, "Dropped", "WriteMetadata")>>)
    /\ mActive' = NoRequest
    /\ mPending' = 0
    /\ mWaitingReads' = <<>>
    /\ reads' = [r \in DOMAIN reads |-> Ended]
    /\ jobs' \in {<<>>, [j \in DOMAIN jobs |-> [jobs[j] EXCEPT !.awaited = FALSE]]}
    /\ inlineRecord' \in {inlineRecord, FALSE}
    /\ UNCHANGED <<intents, stack, keychain, meta, token, fileToken, twoPlaces>>

------------------------------------------------------------------------------

Init ==
    /\ intents = <<>>
    /\ mActive = NoRequest
    /\ mPending = 0
    /\ reads = <<>>
    /\ mWaitingReads = <<>>
    /\ stack = <<>>
    /\ log = <<>>
    /\ keychain \in BOOLEAN
    /\ inlineRecord \in BOOLEAN
    /\ meta = NoMetadata
    /\ token = 0
    /\ fileToken = 0 /\ twoPlaces = FALSE
    /\ jobs = <<>>
    /\ closes = 0

\* What goes on without the client asking for anything.
Proceed ==
    \/ SetIntentReturns \/ ReportAbandoned \/ ClientReturns \/ GrantWaitingReads
    \/ PerformWriteMetadata \/ PerformRemoveMetadata \/ PerformOnToken
    \/ ReadEntry

Next ==
    \/ \E intent \in Intent : SetIntent(intent)
    \/ WhenReadable
    \/ Proceed
    \/ JobEnds
    \/ JobTimesOut
    \/ CloseProfile

Spec == Init /\ [][Next]_vars

\* A call that was made returns, and a job is answered or times out.  Nothing
\* is assumed of the keychain itself.
FairSpec == Spec /\ WF_vars(Proceed) /\ WF_vars(JobTimesOut)

------------------------------------------------------------------------------
(* What the code promises.                                                 *)

Requests == 1..Len(intents)
Told(id, outcome) == \E k \in DOMAIN log : log[k].id = id /\ log[k].outcome = outcome
Frames == {stack[k] : k \in DOMAIN stack}
Quiet == InEventLoop /\ mActive = NoRequest /\ mPending = 0

\* The end state a request asks for.
TargetMetadata(id) ==
    IF intents[id].shape = "Absent" THEN NoMetadata
    ELSE [from |-> id, inTheClear |-> ~intents[id].secureOnly]
TargetToken(id) == IF intents[id].shape = "Full" THEN id ELSE 0

\* The token a read finds: the keychain's before the file's.
StoredToken == IF token # 0 THEN token ELSE fileToken
StoreHolds(id) == meta = TargetMetadata(id) /\ StoredToken = TargetToken(id)

\* A job that will still change the token.
ChangesToken(job) == job.kind \in {"WriteToken", "RemoveToken"}

Metadata == [from: 0..Len(intents), inTheClear: BOOLEAN]

\* Every variable keeps its type; in particular the active request is always
\* one that was asked for, that is, start() always finds a request waiting.
TypeOK ==
    /\ intents \in Seq(Intent)
    /\ \/ mActive = NoRequest
       \/ mActive \in [id: Requests, step: 1..3, removingStaleToken: BOOLEAN]
    /\ mPending \in 0..Len(intents)
    /\ reads \in Seq([at: {"waiting", "granted", "reading", "done"},
                      lastRequestId: 0..Len(intents), meta: Metadata])
    /\ mWaitingReads \in Seq(DOMAIN reads)
    /\ Frames \subseteq {ClientFrame, SetIntentFrame, GrantFrame}
                          \cup {ReportFrame(id) : id \in Requests}
                          \cup {PerformFrame(op) : op \in Operation}
                          \cup {ReadFrame(r) : r \in DOMAIN reads}
    /\ log \in Seq([id: Requests, outcome: Outcome \cup {"Dropped"}, failedAt: Operation])
    /\ keychain \in BOOLEAN /\ inlineRecord \in BOOLEAN /\ twoPlaces \in BOOLEAN
    /\ meta \in Metadata
    /\ token \in 0..Len(intents) /\ fileToken \in 0..Len(intents)
    /\ jobs \in Seq([kind: Operation \cup {"Read"}, arg: Nat, awaited: BOOLEAN])
    /\ closes \in 0..MaxCloses

\* The token is stored beside metadata, on which the preferences offer to forget
\* the sign-in, and beside metadata that lets it travel in the clear only if it is
\* the token of the request that asked so: not between two steps, not after a
\* failure, a timeout that was wrong, or the end of the program
\* (SignInStoreReconciler.cpp 81-119); for as long as the keychain and the file
\* that stands in for it have not each held a token (CredentialManager.cpp 1240).
TokenHasItsMetadata ==
    ~twoPlaces /\ StoredToken # 0 =>
        /\ meta # NoMetadata
        /\ meta.inTheClear => StoredToken = meta.from

\* sequenceFor(): "neither a read in between nor a failure part-way can pair an
\* encrypted-only token with permission to send it in the clear".  It can once
\* the keychain has kept an older token and a file has the newer one.
NeverPairedWithPermission ==
    StoredToken # 0 /\ meta.inTheClear => ~intents[StoredToken].secureOnly

\* Every request is in exactly one place: active, waiting, about to be reported
\* as abandoned, or reported, once.
EveryRequestAccounted ==
    \A id \in Requests :
        LET places == (IF mActive.id = id THEN 1 ELSE 0)
                      + (IF mPending = id THEN 1 ELSE 0)
                      + Cardinality({k \in DOMAIN stack : stack[k] = ReportFrame(id)})
                      + Cardinality({k \in DOMAIN log : log[k].id = id})
        IN  places = 1

\* Once the newest request was reported as reached the store holds what it asked
\* for, and goes on holding it: nothing left in the keychain's queue undoes it
\* (SignInStoreReconciler.h 115).
ReachedIsStored ==
    Len(intents) > 0 /\ Told(Len(intents), "Reached") =>
        /\ StoreHolds(Len(intents))
        /\ ~\E j \in DOMAIN jobs : ChangesToken(jobs[j])

\* That is so while the token has been kept in one place, be it the keychain or,
\* because the keychain refuses tokens, the file (CredentialManager.cpp 1240-1253).
ReachedInOnePlace == ~twoPlaces => ReachedIsStored

\* A read begun after a request was reached returns what that request stored,
\* both halves of it, whatever was requested while the read went on; as far as
\* the token has been kept in one place (SignInStoreReconciler.cpp 306-340).
ReadSeesWhatWasReached ==
    ~twoPlaces =>
        \A r \in DOMAIN reads :
            LET last == reads[r].lastRequestId
            IN  reads[r].at = "reading" /\ last > 0 /\ Told(last, "Reached") =>
                    /\ reads[r].meta = TargetMetadata(last)
                    /\ StoredToken = TargetToken(last)

\* Every request is reported, and every read is answered, as long as the
\* profile stays open.
EveryAnswerComes ==
    /\ \A id \in 1..MaxRequests : id \in Requests ~> \E k \in DOMAIN log : log[k].id = id
    /\ \A r \in 1..MaxReads : r \in DOMAIN reads ~> r \in DOMAIN reads /\ reads[r].at = "done"

\* "Whichever sequence fails part way, what survives is the harmless half
\* without the secret" (GMCPAuthenticator.cpp): when the first failure anyone is
\* told of is that the metadata could not be written, no token is left beside
\* the metadata of another request; and that although it was never in two places.
FailureLeavesNoForeignToken ==
    LET failures == {k \in DOMAIN log : log[k].outcome = "Failed"}
    IN  Quiet /\ jobs = <<>> /\ ~twoPlaces /\ Cardinality(failures) = 1
            => \A k \in failures :
                  log[k].id = Len(intents) /\ log[k].failedAt = "WriteMetadata"
                      => StoredToken \in {0, meta.from}

==============================================================================
