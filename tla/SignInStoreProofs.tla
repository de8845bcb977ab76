--------------------------- MODULE SignInStoreProofs ---------------------------
(***************************************************************************)
(* SignInStore for any number of requests, reads and closings of the       *)
(* profile.  The stack of C++ functions is unbounded, since the client may *)
(* call the reconciler from each callback; the invariant says what its     *)
(* frames rely on, of each by itself, and what the function on top finds.  *)
(***************************************************************************)
EXTENDS SignInStore, FiniteSetTheorems, TLAPS

-----------------------------------------------------------------------------
(* What the variables hold, one by one.                                    *)

ReadRecords == [at: {"waiting", "granted", "reading", "done"},
                lastRequestId: 0..Len(intents), meta: Metadata]
LogRecords == [id: Requests, outcome: Outcome \cup {"Dropped"}, failedAt: Operation]

StoreTyped ==
    /\ keychain \in BOOLEAN /\ inlineRecord \in BOOLEAN /\ twoPlaces \in BOOLEAN
    /\ meta \in Metadata
    /\ token \in 0..Len(intents) /\ fileToken \in 0..Len(intents)
    /\ closes \in 0..MaxCloses

DataOK ==
    /\ intents \in Seq(Intent)
    /\ mPending \in 0..Len(intents)
    /\ reads \in Seq(ReadRecords)
    /\ mWaitingReads \in Seq(DOMAIN reads)
    /\ log \in Seq(LogRecords)
    /\ StoreTyped

-----------------------------------------------------------------------------
(* The stack.                                                              *)

Readers == {r \in DOMAIN reads : reads[r].at \in {"granted", "reading"}}

\* What a request that waits waits for.
Blocked == mActive # NoRequest \/ Readers # {}

DeepFrames == {ClientFrame, SetIntentFrame, GrantFrame} \cup {ReportFrame(id) : id \in Nat}
AnyFrames == DeepFrames \cup {PerformFrame(op) : op \in Operation} \cup {ReadFrame(r) : r \in Nat}

\* The performer and a read that was granted are entered as soon as they are
\* called.  setIntent() runs nothing but the client before its rest, and only
\* one abandoned request of a number is still to be reported.
StackOK ==
    /\ stack \in Seq(AnyFrames)
    /\ \A k \in DOMAIN stack : k # 1 => stack[k] \in DeepFrames
    /\ \A k \in DOMAIN stack : stack[k] = SetIntentFrame =>
          /\ mPending # 0
          /\ k # 1 => Blocked
          /\ \A j \in 1..k : stack[j] \in {ClientFrame, SetIntentFrame}
    /\ \A j, k \in DOMAIN stack, id \in Nat :
          stack[j] = ReportFrame(id) /\ stack[k] = ReportFrame(id) => j = k

-----------------------------------------------------------------------------
(* The requests.                                                           *)

CurrentOp(request) ==
    IF request.removingStaleToken THEN "RemoveToken"
    ELSE SequenceFor(intents[request.id])[request.step]

ActiveOK ==
    mActive # NoRequest =>
        /\ mActive \in [id: Requests, step: 1..3, removingStaleToken: BOOLEAN]
        /\ mActive.step <= Len(SequenceFor(intents[mActive.id]))
        /\ mActive.removingStaleToken => intents[mActive.id].shape = "Full" /\ mActive.step = 2

\* No request is active while the store is read, and one that waits waits for
\* another, for a read, or for the rest of setIntent().
TurnsOK ==
    /\ mActive # NoRequest => Readers = {}
    /\ mPending # 0 => Blocked \/ (stack # <<>> /\ Head(stack) = SetIntentFrame)
    /\ mPending \in {0, Len(intents)}
    /\ mActive # NoRequest => mActive.id = Len(intents) \/ mPending # 0

Reported(id) == \E k \in DOMAIN log : log[k].id = id
Abandoned(id) == \E k \in DOMAIN stack : stack[k] = ReportFrame(id)

\* The four places a request may be in exclude each other.
PlacesOK ==
    /\ \A id \in Requests : mActive.id = id \/ mPending = id \/ Abandoned(id) \/ Reported(id)
    /\ \A id \in Nat :
          /\ mActive.id = id /\ id # 0 => mPending # id /\ ~Abandoned(id) /\ ~Reported(id)
          /\ mPending = id => ~Abandoned(id) /\ ~Reported(id)
          /\ Abandoned(id) => id \in Requests /\ ~Reported(id)
    /\ \A j, k \in DOMAIN log : log[j].id = log[k].id => j = k

-----------------------------------------------------------------------------
(* What was called and has not answered.                                   *)

Jobs == [kind: Operation \cup {"Read"}, arg: Nat, awaited: BOOLEAN]

JobsOK ==
    /\ jobs \in Seq(Jobs)
    /\ ~keychain => jobs = <<>>
    /\ \A j \in DOMAIN jobs : jobs[j].kind = "WriteToken" => jobs[j].arg \in Requests

NoneAwaited == \A j \in DOMAIN jobs : jobs[j].awaited => jobs[j].kind = "Read"

\* The performer is called for the active request's next operation, and the
\* last job is its answer to come; a read has one.
CallsOK ==
    /\ JobsOK
    /\ \A op \in Operation : stack # <<>> /\ Head(stack) = PerformFrame(op) =>
          mActive # NoRequest /\ op = CurrentOp(mActive) /\ NoneAwaited
    /\ \A j \in DOMAIN jobs : jobs[j].awaited /\ jobs[j].kind # "Read" =>
          /\ j = Len(jobs)
          /\ mActive # NoRequest /\ jobs[j].arg = mActive.id /\ jobs[j].kind = CurrentOp(mActive)
          /\ jobs[j].kind = "WriteMetadata" => meta = MetadataPayload(mActive)
          /\ jobs[j].kind = "RemoveMetadata" => meta = NoMetadata

ReadJobsOK ==
    /\ \A j \in DOMAIN jobs : jobs[j].awaited /\ jobs[j].kind = "Read" =>
          /\ jobs[j].arg \in DOMAIN reads
          /\ reads[jobs[j].arg].at = "reading"
    /\ \A i, j \in DOMAIN jobs :
          jobs[i].awaited /\ jobs[i].kind = "Read" /\ jobs[j].awaited /\ jobs[j].kind = "Read"
          /\ jobs[i].arg = jobs[j].arg => i = j

ReadCallsOK ==
    /\ ReadJobsOK
    /\ \A r \in Nat : stack # <<>> /\ Head(stack) = ReadFrame(r) =>
          r \in DOMAIN reads /\ reads[r].at = "granted"
    /\ \A i \in DOMAIN mWaitingReads :
          mWaitingReads[i] \in DOMAIN reads /\ reads[mWaitingReads[i]].at = "waiting"
    /\ \A i, j \in DOMAIN mWaitingReads : mWaitingReads[i] = mWaitingReads[j] => i = j

-----------------------------------------------------------------------------
(* The store, for as long as the token has been kept in one place.         *)

TokenSettled == \A j \in DOMAIN jobs : ~ChangesToken(jobs[j])

\* Of the keychain and the file, one at most holds a token.
OnePlace ==
    /\ token = 0 \/ fileToken = 0
    /\ ~keychain => fileToken = 0

\* What the token is and will be made by the jobs left over goes with the metadata.
PairOK ==
    /\ OnePlace
    /\ meta = NoMetadata =>
          StoredToken = 0 /\ \A j \in DOMAIN jobs : jobs[j].kind # "WriteToken"
    /\ meta.inTheClear =>
          /\ StoredToken \in {0, meta.from}
          /\ \A j \in DOMAIN jobs : jobs[j].kind = "WriteToken" => jobs[j].arg = meta.from

\* How far the active request has brought the store.
ProgressOK ==
    mActive # NoRequest =>
        /\ intents[mActive.id].shape = "Full" /\ mActive.step = 2 =>
              meta = [from |-> mActive.id, inTheClear |-> FALSE]
        /\ intents[mActive.id].shape = "Full" /\ mActive.step = 3 =>
              meta.from = mActive.id /\ StoredToken = mActive.id /\ TokenSettled
        /\ intents[mActive.id].shape # "Full" /\ mActive.step = 2 => StoredToken = 0 /\ TokenSettled

Holds(id) == meta = TargetMetadata(id) /\ StoredToken = TargetToken(id) /\ TokenSettled

NewestHolds == \A id \in Requests : id = Len(intents) /\ Told(id, "Reached") => Holds(id)

ReadersSee ==
    \A r \in Readers, id \in Requests : reads[r].lastRequestId = id /\ Told(id, "Reached") =>
        /\ Holds(id)
        /\ reads[r].at = "reading" => reads[r].meta = TargetMetadata(id)

-----------------------------------------------------------------------------

\* Whose turn it is, and what was called; for any way of keeping the token.
TurnInv == StackOK /\ ActiveOK /\ TurnsOK /\ PlacesOK
CallInv == DataOK /\ TurnInv /\ CallsOK /\ ReadCallsOK

\* What the store holds, as long as the keychain and a file have not each held a token.
StoreInv == PairOK /\ ProgressOK /\ NewestHolds /\ ReadersSee

-----------------------------------------------------------------------------
(* Frames, and what pushing one does to a stack.                           *)

LEMMA FrameFacts ==
  /\ ClientFrame # SetIntentFrame /\ ClientFrame # GrantFrame /\ SetIntentFrame # GrantFrame
  /\ \A id \in Nat : /\ ReportFrame(id) \notin {ClientFrame, SetIntentFrame, GrantFrame}
                     /\ ReportFrame(id)[1] = "report" /\ ReportFrame(id)[2] = id
  /\ \A op \in Operation : /\ PerformFrame(op) \notin {ClientFrame, SetIntentFrame, GrantFrame}
                           /\ PerformFrame(op)[1] = "perform" /\ PerformFrame(op)[2] = op
  /\ \A r \in Nat : /\ ReadFrame(r) \notin {ClientFrame, SetIntentFrame, GrantFrame}
                    /\ ReadFrame(r)[1] = "read" /\ ReadFrame(r)[2] = r
  /\ ClientFrame[1] = "client" /\ SetIntentFrame[1] = "setIntent" /\ GrantFrame[1] = "grant"
<1>1. ClientFrame[1] = "client" /\ SetIntentFrame[1] = "setIntent" /\ GrantFrame[1] = "grant"
  BY DEF ClientFrame, SetIntentFrame, GrantFrame
<1>2. \A id \in Nat : ReportFrame(id)[1] = "report" /\ ReportFrame(id)[2] = id
  BY DEF ReportFrame
<1>3. \A op \in Operation : PerformFrame(op)[1] = "perform" /\ PerformFrame(op)[2] = op
  BY DEF PerformFrame
<1>4. \A r \in Nat : ReadFrame(r)[1] = "read" /\ ReadFrame(r)[2] = r
  BY DEF ReadFrame
<1> QED
  BY <1>1, <1>2, <1>3, <1>4

LEMMA FrameTypes ==
  /\ ClientFrame \in DeepFrames /\ SetIntentFrame \in DeepFrames /\ GrantFrame \in DeepFrames
  /\ \A id \in Nat : ReportFrame(id) \in DeepFrames
  /\ DeepFrames \subseteq AnyFrames
  /\ \A op \in Operation : PerformFrame(op) \in AnyFrames \ DeepFrames
  /\ \A r \in Nat : ReadFrame(r) \in AnyFrames \ DeepFrames
<1>1. \A op \in Operation, id \in Nat : PerformFrame(op) # ReportFrame(id)
  BY FrameFacts
<1>2. \A r \in Nat, id \in Nat : ReadFrame(r) # ReportFrame(id)
  BY FrameFacts
<1> QED
  BY <1>1, <1>2, FrameFacts DEF DeepFrames, AnyFrames

LEMMA Push ==
  ASSUME NEW X, NEW t \in Seq(X), NEW x \in X
  PROVE  /\ <<x>> \o t \in Seq(X) /\ <<x>> \o t # <<>>
         /\ Head(<<x>> \o t) = x /\ Tail(<<x>> \o t) = t
         /\ Len(<<x>> \o t) = Len(t) + 1 /\ (<<x>> \o t)[1] = x
         /\ DOMAIN (<<x>> \o t) = 1..(Len(t) + 1)
         /\ \A k \in DOMAIN t : k + 1 \in DOMAIN (<<x>> \o t) /\ (<<x>> \o t)[k + 1] = t[k]
         /\ \A k \in DOMAIN (<<x>> \o t) :
              k = 1 \/ (k - 1 \in DOMAIN t /\ (<<x>> \o t)[k] = t[k - 1])
  OBVIOUS

LEMMA Pop ==
  ASSUME NEW X, NEW s \in Seq(X), s # <<>>
  PROVE  /\ Tail(s) \in Seq(X) /\ Len(Tail(s)) = Len(s) - 1 /\ Head(s) = s[1] /\ Head(s) \in X
         /\ Len(s) \in Nat \ {0} /\ 1 \in DOMAIN s
         /\ \A k \in DOMAIN Tail(s) : k + 1 \in DOMAIN s /\ Tail(s)[k] = s[k + 1]
         /\ \A k \in DOMAIN s : k = 1 \/ (k - 1 \in DOMAIN Tail(s) /\ s[k] = Tail(s)[k - 1])
  OBVIOUS

LEMMA Retype ==
  ASSUME NEW X, NEW Y, NEW s \in Seq(X), \A k \in DOMAIN s : s[k] \in Y
  PROVE  s \in Seq(Y)
<1>1. Len(s) \in Nat /\ DOMAIN s = 1..Len(s) /\ s = [k \in 1..Len(s) |-> s[k]]
  OBVIOUS
<1>2. s \in [1..Len(s) -> Y]
  BY <1>1
<1> QED
  BY <1>1, <1>2

-----------------------------------------------------------------------------
(* The sequences of operations.                                            *)

LEMMA SequenceFacts ==
  ASSUME NEW intent \in Intent
  PROVE  /\ intent.shape \in {"Full", "Hint", "Absent"} /\ intent.secureOnly \in BOOLEAN
         /\ intent.shape # "Full" => intent.secureOnly
         /\ Len(SequenceFor(intent)) \in {2, 3}
         /\ \A i \in 1..Len(SequenceFor(intent)) : SequenceFor(intent)[i] \in Operation
         /\ intent.shape = "Full" =>
              /\ Len(SequenceFor(intent)) = (IF intent.secureOnly THEN 2 ELSE 3)
              /\ SequenceFor(intent)[1] = "WriteMetadata"
              /\ SequenceFor(intent)[2] = "WriteToken"
              /\ ~intent.secureOnly => SequenceFor(intent)[3] = "WriteMetadata"
         /\ intent.shape # "Full" =>
              /\ Len(SequenceFor(intent)) = 2
              /\ SequenceFor(intent)[1] = "RemoveToken"
              /\ SequenceFor(intent)[2]
                    = (IF intent.shape = "Hint" THEN "WriteMetadata" ELSE "RemoveMetadata")
<1>1. /\ intent.shape \in {"Full", "Hint", "Absent"} /\ intent.secureOnly \in BOOLEAN
      /\ intent.shape # "Full" => intent.secureOnly
  BY DEF Intent
<1>2. CASE intent.shape = "Full" /\ intent.secureOnly
  <2>1. SequenceFor(intent) = <<"WriteMetadata", "WriteToken">> \o <<>>
    BY <1>2 DEF SequenceFor
  <2>2. SequenceFor(intent) = <<"WriteMetadata", "WriteToken">>
    BY <2>1
  <2> QED
    BY <1>1, <1>2, <2>2 DEF Operation
<1>3. CASE intent.shape = "Full" /\ ~intent.secureOnly
  <2>1. SequenceFor(intent) = <<"WriteMetadata", "WriteToken">> \o <<"WriteMetadata">>
    BY <1>3 DEF SequenceFor
  <2> DEFINE whole == <<"WriteMetadata", "WriteToken">> \o <<"WriteMetadata">>
  <2>3. Len(whole) = 3 /\ whole[1] = "WriteMetadata" /\ whole[2] = "WriteToken"
        /\ whole[3] = "WriteMetadata"
    OBVIOUS
  <2> HIDE DEF whole
  <2>2. /\ Len(SequenceFor(intent)) = 3
        /\ SequenceFor(intent)[1] = "WriteMetadata" /\ SequenceFor(intent)[2] = "WriteToken"
        /\ SequenceFor(intent)[3] = "WriteMetadata"
    BY <2>1, <2>3 DEF whole
  <2> QED
    BY <1>1, <1>3, <2>2 DEF Operation
<1>4. CASE intent.shape = "Hint"
  <2>1. SequenceFor(intent) = <<"RemoveToken", "WriteMetadata">>
    BY <1>4 DEF SequenceFor
  <2> QED
    BY <1>1, <1>4, <2>1 DEF Operation
<1>5. CASE intent.shape = "Absent"
  <2>1. SequenceFor(intent) = <<"RemoveToken", "RemoveMetadata">>
    BY <1>5 DEF SequenceFor
  <2> QED
    BY <1>1, <1>5, <2>1 DEF Operation
<1> QED
  BY <1>1, <1>2, <1>3, <1>4, <1>5

\* mReaders counts the reads in progress; the code asks whether it is 0, or 1.
LEMMA ReadersFacts ==
  ASSUME reads \in Seq([at: {"waiting", "granted", "reading", "done"},
                        lastRequestId: Nat, meta: [from: Nat, inTheClear: BOOLEAN]])
  PROVE  /\ mReaders = 0 <=> Readers = {}
         /\ mReaders = 1 => \E r : Readers = {r}
         /\ \A r : Readers = {r} => mReaders = 1
<1>1. IsFiniteSet(Readers)
  <2>1. Readers \subseteq 1..Len(reads) /\ Len(reads) \in Nat
    BY DEF Readers
  <2>2. IsFiniteSet(1..Len(reads))
    BY <2>1, FS_Interval
  <2> QED
    BY <2>1, <2>2, FS_Subset
<1>2. mReaders = Cardinality(Readers)
  BY DEF mReaders, Readers
<1> QED
  BY <1>1, <1>2, FS_EmptySet, FS_Singleton

-----------------------------------------------------------------------------
(* Whose turn it is: the stack, the requests and the log.                  *)

FirstStep(id) == [id |-> id, step |-> 1, removingStaleToken |-> FALSE]

\* A stack to return to, with no rest of setIntent() on it, on which beside the
\* requests abandoned so far the one named is to be reported.
BelowOK(b, gone) ==
    /\ b \in Seq(DeepFrames)
    /\ \A k \in DOMAIN b : b[k] # SetIntentFrame
    /\ \A j, k \in DOMAIN b, id \in Nat : b[j] = ReportFrame(id) /\ b[k] = ReportFrame(id) => j = k
    /\ \A id \in Nat :
          (\E k \in DOMAIN b : b[k] = ReportFrame(id)) <=> Abandoned(id) \/ (id = gone /\ id # 0)

LEMMA BelowPush ==
  ASSUME NEW b, NEW gone, BelowOK(b, gone), NEW x \in {ClientFrame, GrantFrame}
  PROVE  BelowOK(<<x>> \o b, gone)
<1> DEFINE t == <<x>> \o b
<1>1. b \in Seq(DeepFrames) /\ x \in DeepFrames
  BY FrameTypes DEF BelowOK
<1>2. /\ t \in Seq(DeepFrames) /\ t[1] = x
      /\ \A k \in DOMAIN b : k + 1 \in DOMAIN t /\ t[k + 1] = b[k]
      /\ \A k \in DOMAIN t : k = 1 \/ (k - 1 \in DOMAIN b /\ t[k] = b[k - 1])
      /\ DOMAIN t \subseteq Int
  BY <1>1, Push
<1>3. x # SetIntentFrame /\ \A id \in Nat : x # ReportFrame(id)
  BY FrameFacts
<1> HIDE DEF t
<1>4. \A k \in DOMAIN t : t[k] # SetIntentFrame
  <2>1. \A k \in DOMAIN b : b[k] # SetIntentFrame
    BY DEF BelowOK
  <2> QED
    BY <1>2, <1>3, <2>1
<1>5. \A j, k \in DOMAIN t, id \in Nat : t[j] = ReportFrame(id) /\ t[k] = ReportFrame(id) => j = k
  <2> SUFFICES ASSUME NEW j \in DOMAIN t, NEW k \in DOMAIN t, NEW id \in Nat,
                      t[j] = ReportFrame(id), t[k] = ReportFrame(id)
               PROVE  j = k
    OBVIOUS
  <2>1. j # 1 /\ k # 1
    BY <1>2, <1>3
  <2>2. j - 1 = k - 1
    BY <1>2, <2>1 DEF BelowOK
  <2> QED
    BY <1>2, <2>2
<1>6. ASSUME NEW id \in Nat
      PROVE  (\E k \in DOMAIN t : t[k] = ReportFrame(id)) <=> (\E k \in DOMAIN b : b[k] = ReportFrame(id))
  BY <1>2, <1>3
<1> QED
  BY <1>2, <1>4, <1>5, <1>6 DEF BelowOK, t

LEMMA BelowReport ==
  ASSUME NEW b, BelowOK(b, 0), NEW gone \in Nat, gone # 0, ~Abandoned(gone)
  PROVE  BelowOK(<<ReportFrame(gone)>> \o b, gone)
<1> DEFINE x == ReportFrame(gone)
           t == <<x>> \o b
<1>1. b \in Seq(DeepFrames) /\ x \in DeepFrames
  BY FrameTypes DEF BelowOK
<1>3. x # SetIntentFrame /\ \A id \in Nat : x = ReportFrame(id) <=> id = gone
  BY FrameFacts
<1> HIDE DEF x
<1>2. /\ t \in Seq(DeepFrames) /\ t[1] = x
      /\ \A k \in DOMAIN b : k + 1 \in DOMAIN t /\ t[k + 1] = b[k]
      /\ \A k \in DOMAIN t : k = 1 \/ (k - 1 \in DOMAIN b /\ t[k] = b[k - 1])
      /\ DOMAIN t \subseteq Int /\ 1 \in DOMAIN t
  BY <1>1, Push
<1> HIDE DEF t
<1>4. \A k \in DOMAIN t : t[k] # SetIntentFrame
  BY <1>2, <1>3 DEF BelowOK
<1>5. \A k \in DOMAIN b : b[k] # x
  BY <1>3 DEF BelowOK, x
<1>6. \A j, k \in DOMAIN t, id \in Nat : t[j] = ReportFrame(id) /\ t[k] = ReportFrame(id) => j = k
  <2> SUFFICES ASSUME NEW j \in DOMAIN t, NEW k \in DOMAIN t, NEW id \in Nat,
                      t[j] = ReportFrame(id), t[k] = ReportFrame(id)
               PROVE  j = k
    OBVIOUS
  <2>1. CASE id = gone
    BY <1>2, <1>3, <1>5, <2>1
  <2>2. CASE id # gone
    <3>1. j # 1 /\ k # 1
      BY <1>2, <1>3, <2>2
    <3>2. j - 1 = k - 1
      BY <1>2, <3>1 DEF BelowOK
    <3> QED
      BY <1>2, <3>2
  <2> QED
    BY <2>1, <2>2
<1>7. ASSUME NEW id \in Nat
      PROVE  (\E k \in DOMAIN t : t[k] = ReportFrame(id)) <=> Abandoned(id) \/ (id = gone /\ id # 0)
  <2>1. CASE id = gone
    BY <1>2, <1>3, <2>1
  <2>2. CASE id # gone
    <3>1. t[1] # ReportFrame(id)
      BY <1>2, <1>3, <2>2
    <3>2. (\E k \in DOMAIN t : t[k] = ReportFrame(id)) <=> (\E k \in DOMAIN b : b[k] = ReportFrame(id))
      BY <1>2, <3>1
    <3> QED
      BY <2>2, <3>2 DEF BelowOK
  <2> QED
    BY <2>1, <2>2
<1> QED
  BY <1>2, <1>4, <1>6, <1>7 DEF BelowOK, t, x

\* The stack that a function which runs now returns to.
LEMMA BelowOfCall ==
  ASSUME StackOK, NEW b,
         \/ stack = <<>> /\ b = <<>>
         \/ /\ stack # <<>> /\ b = Tail(stack)
            /\ \A id \in Nat : Head(stack) # ReportFrame(id)
            /\ Head(stack) \notin {ClientFrame, SetIntentFrame} \/ ~Blocked
  PROVE  BelowOK(b, 0)
<1>1. CASE stack = <<>> /\ b = <<>>
  <2>1. DOMAIN b = {} /\ DOMAIN stack = {} /\ b \in Seq(DeepFrames)
    BY <1>1
  <2> QED
    BY <2>1 DEF BelowOK, Abandoned
<1>2. CASE /\ stack # <<>> /\ b = Tail(stack)
           /\ \A id \in Nat : Head(stack) # ReportFrame(id)
           /\ Head(stack) \notin {ClientFrame, SetIntentFrame} \/ ~Blocked
  <2>1. /\ b \in Seq(AnyFrames) /\ Head(stack) = stack[1]
        /\ \A k \in DOMAIN b : k + 1 \in DOMAIN stack /\ b[k] = stack[k + 1] /\ k + 1 # 1
        /\ \A k \in DOMAIN stack : k = 1 \/ (k - 1 \in DOMAIN b /\ stack[k] = b[k - 1])
        /\ DOMAIN b \subseteq Nat \ {0} /\ DOMAIN stack \subseteq Int
        /\ DOMAIN b = 1..Len(b)
    BY <1>2, Pop DEF StackOK
  <2>2. \A k \in DOMAIN b : b[k] \in DeepFrames
    BY <2>1 DEF StackOK
  <2>3. b \in Seq(DeepFrames)
    BY <2>1, <2>2, Retype
  <2>4. ASSUME NEW k \in DOMAIN b PROVE b[k] # SetIntentFrame
    <3>1. SUFFICES ASSUME stack[k + 1] = SetIntentFrame PROVE FALSE
      BY <2>1
    <3>2. k + 1 \in DOMAIN stack /\ k + 1 # 1 /\ 1 \in 1..(k + 1)
      BY <2>1
    <3>3. Blocked /\ stack[1] \in {ClientFrame, SetIntentFrame}
      BY <3>1, <3>2 DEF StackOK
    <3> QED
      BY <1>2, <2>1, <3>3
  <2>5. ASSUME NEW j \in DOMAIN b, NEW k \in DOMAIN b, NEW id \in Nat,
               b[j] = ReportFrame(id), b[k] = ReportFrame(id)
        PROVE  j = k
    <3>1. j + 1 = k + 1
      BY <2>1, <2>5 DEF StackOK
    <3> QED
      BY <2>1, <3>1
  <2>6. \A id \in Nat : (\E k \in DOMAIN b : b[k] = ReportFrame(id)) <=> Abandoned(id)
    BY <1>2, <2>1 DEF Abandoned
  <2> QED
    BY <2>3, <2>4, <2>5, <2>6 DEF BelowOK
<1> QED
  BY <1>1, <1>2

\* A frame other than the rest of setIntent() or a report, on such a stack.
LEMMA StackAfterPush ==
  ASSUME NEW b, NEW gone, BelowOK(b, gone), NEW x \in AnyFrames,
         x # SetIntentFrame, \A id \in Nat : x # ReportFrame(id),
         stack' = <<x>> \o b
  PROVE  /\ StackOK'
         /\ stack' # <<>> /\ Head(stack') = x
         /\ \A id \in Nat : Abandoned(id)' <=> Abandoned(id) \/ (id = gone /\ id # 0)
<1>1. b \in Seq(AnyFrames)
  BY FrameTypes DEF BelowOK
<1>2. /\ stack' \in Seq(AnyFrames) /\ stack' # <<>> /\ Head(stack') = x /\ stack'[1] = x
      /\ \A k \in DOMAIN b : k + 1 \in DOMAIN stack' /\ stack'[k + 1] = b[k]
      /\ \A k \in DOMAIN stack' : k = 1 \/ (k - 1 \in DOMAIN b /\ stack'[k] = b[k - 1])
      /\ DOMAIN stack' \subseteq Int
  BY <1>1, Push
<1>3. \A k \in DOMAIN b : b[k] \in DeepFrames /\ b[k] # SetIntentFrame
  BY DEF BelowOK
<1>4. \A k \in DOMAIN stack' : (k # 1 => stack'[k] \in DeepFrames) /\ stack'[k] # SetIntentFrame
  BY <1>2, <1>3
<1>5. ASSUME NEW j \in DOMAIN stack', NEW k \in DOMAIN stack', NEW id \in Nat,
             stack'[j] = ReportFrame(id), stack'[k] = ReportFrame(id)
      PROVE  j = k
  <2>1. j # 1 /\ k # 1
    BY <1>2, <1>5
  <2>2. j - 1 = k - 1
    BY <1>2, <1>5, <2>1 DEF BelowOK
  <2> QED
    BY <1>2, <2>2
<1>6. ASSUME NEW id \in Nat
      PROVE  (\E k \in DOMAIN stack' : stack'[k] = ReportFrame(id))
                <=> (\E k \in DOMAIN b : b[k] = ReportFrame(id))
  <2>1. stack'[1] # ReportFrame(id)
    BY <1>2
  <2> QED
    BY <1>2, <2>1
<1>7. \A id \in Nat : Abandoned(id)' <=> Abandoned(id) \/ (id = gone /\ id # 0)
  BY <1>6 DEF BelowOK, Abandoned
<1>8. StackOK'
  BY <1>2, <1>4, <1>5 DEF StackOK
<1> QED
  BY <1>2, <1>7, <1>8

-----------------------------------------------------------------------------
(* What a call does to the requests.                                       *)

LEMMA BasicFacts ==
  ASSUME DataOK
  PROVE  /\ Len(intents) \in Nat /\ Requests \subseteq Nat \ {0}
         /\ \A id \in Requests : intents[id] \in Intent
         /\ Len(reads) \in Nat /\ DOMAIN reads = 1..Len(reads)
         /\ \A r \in DOMAIN reads : reads[r] \in ReadRecords
         /\ reads \in Seq([at: {"waiting", "granted", "reading", "done"},
                           lastRequestId: Nat, meta: [from: Nat, inTheClear: BOOLEAN]])
         /\ mPending \in Nat /\ (mPending # 0 => mPending \in Requests)
         /\ NoRequest.id = 0
<1>1. /\ Len(intents) \in Nat /\ Requests \subseteq Nat \ {0}
      /\ \A id \in Requests : intents[id] \in Intent
      /\ mPending \in Nat /\ (mPending # 0 => mPending \in Requests)
  BY DEF DataOK, Requests
<1>2. /\ Len(reads) \in Nat /\ DOMAIN reads = 1..Len(reads)
      /\ \A r \in DOMAIN reads : reads[r] \in ReadRecords
  BY DEF DataOK
<1> DEFINE Wide == [at: {"waiting", "granted", "reading", "done"},
                    lastRequestId: Nat, meta: [from: Nat, inTheClear: BOOLEAN]]
<1>3. ReadRecords \subseteq Wide
  BY <1>1 DEF ReadRecords, Metadata
<1>4. reads \in Seq(ReadRecords)
  BY DEF DataOK
<1> HIDE DEF Wide
<1>5. reads \in Seq(Wide)
  BY <1>2, <1>3, <1>4, Retype
<1> QED
  BY <1>1, <1>2, <1>5 DEF Wide, NoRequest

Starts(b) ==
    /\ mPending' = 0
    /\ mActive' = FirstStep(mPending)
    /\ stack' = <<PerformFrame(CurrentOp(FirstStep(mPending)))>> \o b
    /\ log' = log

Continues(request, b) ==
    /\ mActive' = request
    /\ stack' = <<PerformFrame(CurrentOp(request))>> \o b
    /\ mPending' = mPending
    /\ log' = log

Ends(outcome, failedAt, b) ==
    /\ mActive' = NoRequest
    /\ log' = Append(log, Report(mActive.id, outcome, failedAt))
    /\ stack' = <<ClientFrame>> \o (<<GrantFrame>> \o b)
    /\ mPending' = mPending

LEMMA StartIs ==
  ASSUME DataOK, mPending # 0, NEW b, Start(b)
  PROVE  Starts(b)
<1>1. mPending \in Requests /\ intents[mPending] \in Intent
  BY BasicFacts
<1>2. 1 <= Len(SequenceFor(intents[mPending]))
  BY <1>1, SequenceFacts
<1>3. FirstStep(mPending).id = mPending /\ FirstStep(mPending).step = 1
      /\ FirstStep(mPending).removingStaleToken = FALSE
  BY DEF FirstStep
<1>4. mPending' = 0 /\ RunStep(FirstStep(mPending), b)
  BY DEF Start, FirstStep
<1>5. /\ mActive' = FirstStep(mPending) /\ log' = log
      /\ stack' = <<PerformFrame(SequenceFor(intents[mPending])[1])>> \o b
  BY <1>2, <1>3, <1>4 DEF RunStep
<1> QED
  BY <1>3, <1>4, <1>5 DEF Starts, CurrentOp

\* What the operation of the active request says of the request.
LEMMA CurrentOpIs ==
  ASSUME DataOK, ActiveOK, mActive # NoRequest
  PROVE  /\ mActive.id \in Requests /\ mActive.step \in 1..3
         /\ mActive.removingStaleToken \in BOOLEAN
         /\ mActive.id \in Nat \ {0}
         /\ mActive = [id |-> mActive.id, step |-> mActive.step,
                       removingStaleToken |-> mActive.removingStaleToken]
         /\ intents[mActive.id] \in Intent
         /\ CurrentOp(mActive) \in Operation
         /\ CurrentOp(mActive) = "WriteToken" =>
               /\ intents[mActive.id].shape = "Full" /\ mActive.step = 2
               /\ ~mActive.removingStaleToken
         /\ CurrentOp(mActive) = "RemoveToken" =>
               \/ mActive.removingStaleToken
               \/ intents[mActive.id].shape # "Full" /\ mActive.step = 1
         /\ CurrentOp(mActive) = "RemoveMetadata" =>
               /\ intents[mActive.id].shape = "Absent" /\ mActive.step = 2
               /\ ~mActive.removingStaleToken
         /\ CurrentOp(mActive) = "WriteMetadata" =>
               /\ ~mActive.removingStaleToken
               /\ \/ intents[mActive.id].shape = "Full" /\ mActive.step \in {1, 3}
                  \/ intents[mActive.id].shape = "Hint" /\ mActive.step = 2
<1>1. /\ mActive \in [id: Requests, step: 1..3, removingStaleToken: BOOLEAN]
      /\ mActive.step <= Len(SequenceFor(intents[mActive.id]))
      /\ mActive.removingStaleToken => intents[mActive.id].shape = "Full" /\ mActive.step = 2
  BY DEF ActiveOK
<1>2. /\ mActive.id \in Requests /\ mActive.step \in 1..3
      /\ mActive.removingStaleToken \in BOOLEAN
      /\ mActive = [id |-> mActive.id, step |-> mActive.step,
                    removingStaleToken |-> mActive.removingStaleToken]
  BY <1>1
<1>3. intents[mActive.id] \in Intent /\ mActive.id \in Nat \ {0}
  BY <1>2, BasicFacts
<1> DEFINE q == SequenceFor(intents[mActive.id])
<1>4. /\ Len(q) \in {2, 3} /\ \A i \in 1..Len(q) : q[i] \in Operation
      /\ intents[mActive.id].shape \in {"Full", "Hint", "Absent"}
      /\ intents[mActive.id].shape = "Full" =>
              /\ q[1] = "WriteMetadata" /\ q[2] = "WriteToken"
              /\ Len(q) = 3 => q[3] = "WriteMetadata"
      /\ intents[mActive.id].shape # "Full" =>
              /\ Len(q) = 2 /\ q[1] = "RemoveToken"
              /\ q[2] = (IF intents[mActive.id].shape = "Hint" THEN "WriteMetadata" ELSE "RemoveMetadata")
  BY <1>3, SequenceFacts
<1>5. mActive.step <= Len(q) /\ mActive.step \in 1..Len(q)
  BY <1>1, <1>2, <1>4
<1>6. CurrentOp(mActive) = IF mActive.removingStaleToken THEN "RemoveToken" ELSE q[mActive.step]
  BY DEF CurrentOp
<1> HIDE DEF q
<1>7. CASE mActive.removingStaleToken
  BY <1>1, <1>2, <1>3, <1>6, <1>7 DEF Operation
<1>8. CASE ~mActive.removingStaleToken
  <2>1. CurrentOp(mActive) = q[mActive.step] /\ CurrentOp(mActive) \in Operation
    BY <1>4, <1>5, <1>6, <1>8
  <2>2. CASE mActive.step = 1
    BY <1>2, <1>3, <1>4, <1>8, <2>1, <2>2
  <2>3. CASE mActive.step = 2
    BY <1>2, <1>3, <1>4, <1>8, <2>1, <2>3
  <2>4. CASE mActive.step = 3
    BY <1>2, <1>3, <1>4, <1>5, <1>8, <2>1, <2>4
  <2> QED
    BY <1>2, <2>2, <2>3, <2>4
<1> QED
  BY <1>7, <1>8

Staled == [mActive EXCEPT !.removingStaleToken = TRUE]
Stepped == [mActive EXCEPT !.step = @ + 1]

\* What done() of the active request's operation leads to.
LEMMA OnStepDoneIs ==
  ASSUME DataOK, ActiveOK, mActive # NoRequest, NEW ok \in BOOLEAN, NEW b,
         OnStepDone(mActive.id, CurrentOp(mActive), ok, b)
  PROVE  \/ mPending # 0 /\ Starts(<<ReportFrame(mActive.id)>> \o b)
         \/ mPending = 0 /\ mActive.removingStaleToken /\ Ends("Failed", "WriteToken", b)
         \/ /\ mPending = 0 /\ ~mActive.removingStaleToken /\ ~ok
            /\ CurrentOp(mActive) # "WriteToken" /\ Ends("Failed", CurrentOp(mActive), b)
         \/ /\ mPending = 0 /\ ~mActive.removingStaleToken /\ ~ok
            /\ CurrentOp(mActive) = "WriteToken" /\ Continues(Staled, b)
         \/ /\ mPending = 0 /\ ~mActive.removingStaleToken /\ ok
            /\ mActive.step < Len(SequenceFor(intents[mActive.id]))
            /\ Continues(Stepped, b)
         \/ /\ mPending = 0 /\ ~mActive.removingStaleToken /\ ok
            /\ mActive.step = Len(SequenceFor(intents[mActive.id]))
            /\ Ends("Reached", "WriteMetadata", b)
<1>1. /\ mActive.id \in Requests /\ mActive.step \in 1..3 /\ intents[mActive.id] \in Intent
      /\ mActive = [id |-> mActive.id, step |-> mActive.step,
                    removingStaleToken |-> mActive.removingStaleToken]
  BY CurrentOpIs
<1>2. /\ Len(SequenceFor(intents[mActive.id])) \in {2, 3}
      /\ mActive.step <= Len(SequenceFor(intents[mActive.id]))
  BY <1>1, SequenceFacts DEF ActiveOK
<1>3. /\ Staled = [id |-> mActive.id, step |-> mActive.step, removingStaleToken |-> TRUE]
      /\ Stepped = [id |-> mActive.id, step |-> mActive.step + 1,
                    removingStaleToken |-> mActive.removingStaleToken]
  <2>1. mActive \in [id: Requests, step: Nat, removingStaleToken: BOOLEAN]
    BY DEF ActiveOK
  <2>2. \A flag \in BOOLEAN :
          [mActive EXCEPT !.removingStaleToken = flag]
              = [id |-> mActive.id, step |-> mActive.step, removingStaleToken |-> flag]
    BY <2>1
  <2>3. Staled = [id |-> mActive.id, step |-> mActive.step, removingStaleToken |-> TRUE]
    BY <2>2 DEF Staled
  <2>4. Stepped = [id |-> mActive.id, step |-> mActive.step + 1,
                   removingStaleToken |-> mActive.removingStaleToken]
    BY <2>1 DEF Stepped
  <2> QED
    BY <2>3, <2>4
<1> DEFINE op == CurrentOp(mActive)
           n == Len(SequenceFor(intents[mActive.id]))
<1>4. CASE mPending # 0
  <2>1. Start(<<ReportFrame(mActive.id)>> \o b)
    BY <1>4 DEF OnStepDone, NewerWaiting, Abandon
  <2> QED
    BY <1>4, <2>1, StartIs
<1>5. CASE mPending = 0 /\ mActive.removingStaleToken
  <2>1. FinishFailed("WriteToken", b)
    BY <1>5 DEF OnStepDone, NewerWaiting
  <2> QED
    BY <1>5, <2>1 DEF FinishFailed, Finish, Ends
<1>6. CASE mPending = 0 /\ ~mActive.removingStaleToken
  <2>1. \/ ~ok /\ op = "WriteToken" /\ RemoveStaleToken(b)
        \/ ~ok /\ op # "WriteToken" /\ FinishFailed(op, b)
        \/ ok /\ NextStep(b)
    BY <1>6 DEF OnStepDone, NewerWaiting
  <2>2. CASE ~ok /\ op = "WriteToken" /\ RemoveStaleToken(b)
    <3>1. Staled.removingStaleToken
      BY <1>3
    <3>2. CurrentOp(Staled) = "RemoveToken"
      BY <3>1 DEF CurrentOp
    <3>3. Continues(Staled, b)
      BY <2>2, <3>2 DEF RemoveStaleToken, Continues, Staled
    <3> QED
      BY <1>6, <2>2, <3>3
  <2>3. CASE ~ok /\ op # "WriteToken" /\ FinishFailed(op, b)
    BY <1>6, <2>3 DEF FinishFailed, Finish, Ends
  <2>4. CASE ok /\ NextStep(b)
    <3>1. RunStep(Stepped, b) /\ mPending' = mPending
      BY <2>4 DEF NextStep, Stepped
    <3>2. Stepped.id = mActive.id /\ Stepped.step = mActive.step + 1 /\ ~Stepped.removingStaleToken
      BY <1>3, <1>6
    <3>3. CASE mActive.step < n
      <4>1. Stepped.step <= n
        BY <1>1, <1>2, <3>2, <3>3
      <4>2. /\ mActive' = Stepped /\ log' = log
            /\ stack' = <<PerformFrame(SequenceFor(intents[mActive.id])[mActive.step + 1])>> \o b
        <5>1. ~(Stepped.step > n)
          BY <1>1, <1>2, <3>2, <4>1
        <5>2. mActive' = Stepped /\ log' = log
              /\ stack' = <<PerformFrame(SequenceFor(intents[Stepped.id])[Stepped.step])>> \o b
          BY <3>1, <3>2, <5>1 DEF RunStep
        <5> QED
          BY <3>2, <5>2
      <4>3. CurrentOp(Stepped) = SequenceFor(intents[mActive.id])[mActive.step + 1]
        BY <3>2 DEF CurrentOp
      <4>4. Continues(Stepped, b)
        BY <3>1, <4>2, <4>3 DEF Continues
      <4> QED
        BY <1>6, <2>4, <3>3, <4>4
    <3>4. CASE mActive.step = n
      <4>1. ~(Stepped.step <= n)
        BY <1>1, <1>2, <3>2, <3>4
      <4>2. /\ mActive' = NoRequest
            /\ Finish(Report(mActive.id, "Reached", "WriteMetadata"), <<GrantFrame>> \o b)
        BY <3>1, <3>2, <4>1 DEF RunStep
      <4>3. Ends("Reached", "WriteMetadata", b)
        BY <3>1, <4>2 DEF Finish, Ends
      <4> QED
        BY <1>6, <2>4, <3>4, <4>3
    <3> QED
      BY <1>1, <1>2, <3>3, <3>4
  <2> QED
    BY <2>1, <2>2, <2>3, <2>4
<1> QED
  BY <1>4, <1>5, <1>6

-----------------------------------------------------------------------------
(* Whose turn it is, after each thing a call may do to it.                 *)

LEMMA LogAppend ==
  ASSUME DataOK, PlacesOK, NEW rep, log' = Append(log, rep), ~Reported(rep.id)
  PROVE  /\ \A id \in Nat : Reported(id)' <=> Reported(id) \/ id = rep.id
         /\ \A j, k \in DOMAIN log' : log'[j].id = log'[k].id => j = k
<1>1. /\ Len(log) \in Nat /\ DOMAIN log = 1..Len(log)
      /\ DOMAIN log' = 1..(Len(log) + 1)
      /\ \A k \in DOMAIN log : log'[k] = log[k]
      /\ log'[Len(log) + 1] = rep
  BY DEF DataOK
<1>2. \A k \in DOMAIN log' : k \in DOMAIN log \/ k = Len(log) + 1
  BY <1>1
<1>3. DOMAIN log \subseteq DOMAIN log' /\ Len(log) + 1 \in DOMAIN log'
  BY <1>1
<1>4. ASSUME NEW id \in Nat PROVE Reported(id)' <=> Reported(id) \/ id = rep.id
  <2>1. Reported(id) => Reported(id)'
    BY <1>1, <1>3 DEF Reported
  <2>2. id = rep.id => Reported(id)'
    BY <1>1, <1>3 DEF Reported
  <2>3. Reported(id)' => Reported(id) \/ id = rep.id
    BY <1>1, <1>2 DEF Reported
  <2> QED
    BY <2>1, <2>2, <2>3
<1>5. \A k \in DOMAIN log : log[k].id # rep.id
  BY DEF Reported
<1>6. \A j, k \in DOMAIN log' : log'[j].id = log'[k].id => j = k
  BY <1>1, <1>2, <1>5 DEF PlacesOK
<1> QED
  BY <1>4, <1>6

LEMMA NoneReportsNone == DataOK => ~Reported(0)
<1> SUFFICES ASSUME DataOK PROVE ~Reported(0)
  OBVIOUS
<1>1. \A k \in DOMAIN log : log[k] \in LogRecords
  BY DEF DataOK
<1>2. \A entry \in LogRecords : entry.id \in Requests
  BY DEF LogRecords
<1>3. 0 \notin Requests
  BY BasicFacts
<1> QED
  BY <1>1, <1>2, <1>3 DEF Reported

LEMMA TurnStarts ==
  ASSUME DataOK, TurnInv, NEW b, BelowOK(b, mActive.id), mPending # 0, Starts(b),
         intents' = intents, Readers' = {}
  PROVE  TurnInv'
<1>1. mPending \in Requests /\ intents[mPending] \in Intent /\ Requests \subseteq Nat \ {0}
  BY BasicFacts
<1>2. FirstStep(mPending) = [id |-> mPending, step |-> 1, removingStaleToken |-> FALSE]
  BY DEF FirstStep
<1>3. Len(SequenceFor(intents[mPending])) \in {2, 3}
      /\ SequenceFor(intents[mPending])[1] \in Operation
  BY <1>1, SequenceFacts
<1>4. CurrentOp(FirstStep(mPending)) \in Operation
  BY <1>2, <1>3 DEF CurrentOp
<1> DEFINE x == PerformFrame(CurrentOp(FirstStep(mPending)))
           gone == mActive.id
<1>5. x \in AnyFrames /\ x # SetIntentFrame /\ \A id \in Nat : x # ReportFrame(id)
  BY <1>4, FrameTypes
<1>6. stack' = <<x>> \o b
  BY DEF Starts
<1> HIDE DEF x, gone
<1>7. /\ StackOK'
      /\ \A id \in Nat : Abandoned(id)' <=> Abandoned(id) \/ (id = mActive.id /\ id # 0)
  BY <1>5, <1>6, StackAfterPush
<1>8. /\ mActive'.id = mPending /\ mActive'.step = 1 /\ ~mActive'.removingStaleToken
      /\ mActive' \in [id: Requests, step: 1..3, removingStaleToken: BOOLEAN]
      /\ mPending' = 0 /\ log' = log /\ Requests' = Requests
  BY <1>1, <1>2 DEF Starts, Requests
<1>9. ActiveOK'
  BY <1>3, <1>8 DEF ActiveOK
<1>10. TurnsOK'
  BY <1>8 DEF TurnsOK, TurnInv
<1>11. \A id \in Nat : Reported(id)' <=> Reported(id)
  BY <1>8 DEF Reported
<1>12. PlacesOK'
  <2>1. PlacesOK
    BY DEF TurnInv
  <2>2. ASSUME NEW id \in Requests'
        PROVE  mActive'.id = id \/ mPending' = id \/ Abandoned(id)' \/ Reported(id)'
    BY <1>1, <1>7, <1>8, <1>11, <2>1 DEF PlacesOK
  <2>3. ASSUME NEW id \in Nat
        PROVE  /\ mActive'.id = id /\ id # 0 => mPending' # id /\ ~Abandoned(id)' /\ ~Reported(id)'
               /\ mPending' = id => ~Abandoned(id)' /\ ~Reported(id)'
               /\ Abandoned(id)' => id \in Requests' /\ ~Reported(id)'
    <3>1. ~Abandoned(0) /\ ~Reported(0)
      BY <1>1, <2>1, NoneReportsNone DEF PlacesOK
    <3>2. mActive.id # 0 => mActive.id \in Requests /\ mActive.id # mPending
      <4>1. CASE mActive = NoRequest
        BY <4>1 DEF NoRequest
      <4>2. CASE mActive # NoRequest
        <5>1. mActive.id \in Requests /\ mActive.id \in Nat \ {0}
          BY <4>2, CurrentOpIs DEF TurnInv
        <5> QED
          BY <2>1, <5>1 DEF PlacesOK
      <4> QED
        BY <4>1, <4>2
    <3> QED
      BY <1>1, <1>7, <1>8, <1>11, <2>1, <3>1, <3>2 DEF PlacesOK
  <2>4. \A j, k \in DOMAIN log' : log'[j].id = log'[k].id => j = k
    BY <1>8, <2>1 DEF PlacesOK
  <2> QED
    BY <2>2, <2>3, <2>4 DEF PlacesOK
<1> QED
  BY <1>7, <1>9, <1>10, <1>12 DEF TurnInv

LEMMA TurnContinues ==
  ASSUME DataOK, TurnInv, mActive # NoRequest, NEW b, BelowOK(b, 0), mPending = 0,
         NEW request \in [id: Requests, step: 1..3, removingStaleToken: BOOLEAN],
         request.id = mActive.id,
         request.step <= Len(SequenceFor(intents[request.id])),
         request.removingStaleToken => intents[request.id].shape = "Full" /\ request.step = 2,
         Continues(request, b), intents' = intents, Readers' = Readers
  PROVE  TurnInv'
<1>1. mActive.id \in Requests /\ intents[mActive.id] \in Intent /\ Requests \subseteq Nat \ {0}
  BY BasicFacts, CurrentOpIs DEF TurnInv
<1>2. /\ mActive' = request /\ mPending' = 0 /\ log' = log /\ Requests' = Requests
      /\ stack' = <<PerformFrame(CurrentOp(request))>> \o b
  BY DEF Continues, Requests
<1>3. CurrentOp(request) \in Operation
  BY <1>1, SequenceFacts DEF CurrentOp, Operation
<1> DEFINE x == PerformFrame(CurrentOp(request))
<1>5. x \in AnyFrames /\ x # SetIntentFrame /\ \A id \in Nat : x # ReportFrame(id)
  BY <1>3, FrameTypes
<1> HIDE DEF x
<1>7. StackOK' /\ \A id \in Nat : Abandoned(id)' <=> Abandoned(id) \/ (id = 0 /\ id # 0)
  <2>1. stack' = <<x>> \o b
    BY <1>2 DEF x
  <2> QED
    BY <1>5, <2>1, StackAfterPush
<1>9. ActiveOK'
  BY <1>2 DEF ActiveOK
<1>10. TurnsOK'
  BY <1>1, <1>2 DEF TurnsOK, TurnInv
<1>11. \A id \in Nat : Reported(id)' <=> Reported(id)
  BY <1>2 DEF Reported
<1>12. PlacesOK'
  BY <1>1, <1>2, <1>7, <1>11 DEF PlacesOK, TurnInv
<1> QED
  BY <1>7, <1>9, <1>10, <1>12 DEF TurnInv

LEMMA TurnEnds ==
  ASSUME DataOK, TurnInv, mActive # NoRequest, NEW b, BelowOK(b, 0), mPending = 0,
         NEW outcome, NEW failedAt, Ends(outcome, failedAt, b),
         intents' = intents, Readers' = Readers
  PROVE  TurnInv'
<1>1. mActive.id \in Requests /\ Requests \subseteq Nat \ {0}
  BY BasicFacts, CurrentOpIs DEF TurnInv
<1>2. /\ mActive' = NoRequest /\ mActive'.id = 0 /\ mPending' = 0 /\ Requests' = Requests
      /\ log' = Append(log, Report(mActive.id, outcome, failedAt))
      /\ stack' = <<ClientFrame>> \o (<<GrantFrame>> \o b)
      /\ Report(mActive.id, outcome, failedAt).id = mActive.id
  BY DEF Ends, Requests, NoRequest, Report
<1>3. BelowOK(<<GrantFrame>> \o b, 0)
  BY BelowPush
<1>4. ClientFrame \in AnyFrames /\ ClientFrame # SetIntentFrame
      /\ \A id \in Nat : ClientFrame # ReportFrame(id)
  BY FrameTypes, FrameFacts
<1>5. StackOK' /\ \A id \in Nat : Abandoned(id)' <=> Abandoned(id) \/ (id = 0 /\ id # 0)
  BY <1>2, <1>3, <1>4, StackAfterPush
<1>6. ActiveOK'
  BY <1>2 DEF ActiveOK
<1>7. TurnsOK'
  BY <1>2 DEF TurnsOK
<1>8. PlacesOK /\ ~Reported(mActive.id)
  BY <1>1 DEF TurnInv, PlacesOK
<1>9. /\ \A id \in Nat : Reported(id)' <=> Reported(id) \/ id = mActive.id
      /\ \A j, k \in DOMAIN log' : log'[j].id = log'[k].id => j = k
  BY <1>2, <1>8, LogAppend
<1>10. PlacesOK'
  <2>1. ~Reported(0) /\ ~Abandoned(0) /\ ~Abandoned(mActive.id)
    BY <1>1, <1>8, NoneReportsNone DEF PlacesOK
  <2> QED
    BY <1>1, <1>2, <1>5, <1>8, <1>9, <2>1 DEF PlacesOK
<1> QED
  BY <1>5, <1>6, <1>7, <1>10 DEF TurnInv

\* A function returns and leaves the requests as they are.
LEMMA TurnPop ==
  ASSUME DataOK, TurnInv, stack # <<>>, stack' = Tail(stack),
         \A id \in Nat : Head(stack) # ReportFrame(id),
         Head(stack) = SetIntentFrame => Blocked,
         intents' = intents, mActive' = mActive, mPending' = mPending, log' = log,
         Readers' = Readers
  PROVE  TurnInv'
<1>1. /\ stack' \in Seq(AnyFrames) /\ Head(stack) = stack[1] /\ 1 \in DOMAIN stack
      /\ \A k \in DOMAIN stack' : k + 1 \in DOMAIN stack /\ stack'[k] = stack[k + 1] /\ k + 1 # 1
      /\ \A k \in DOMAIN stack : k = 1 \/ (k - 1 \in DOMAIN stack' /\ stack[k] = stack'[k - 1])
      /\ DOMAIN stack \subseteq Int /\ DOMAIN stack' = 1..Len(stack') /\ Len(stack') \in Nat
  BY Pop DEF TurnInv, StackOK
<1>2. Blocked' = Blocked /\ Requests' = Requests
  BY DEF Blocked, Requests
<1>3. \A k \in DOMAIN stack' : stack'[k] \in DeepFrames
  BY <1>1 DEF TurnInv, StackOK
<1>4. ASSUME NEW k \in DOMAIN stack', stack'[k] = SetIntentFrame
      PROVE  /\ mPending' # 0 /\ Blocked'
             /\ \A j \in 1..k : stack'[j] \in {ClientFrame, SetIntentFrame}
  <2>1. k + 1 \in DOMAIN stack /\ stack[k + 1] = SetIntentFrame /\ k + 1 # 1 /\ k \in Int
    BY <1>1, <1>4
  <2>2. mPending # 0 /\ Blocked /\ \A j \in 1..(k + 1) : stack[j] \in {ClientFrame, SetIntentFrame}
    BY <2>1 DEF TurnInv, StackOK
  <2>3. ASSUME NEW j \in 1..k PROVE stack'[j] \in {ClientFrame, SetIntentFrame}
    <3>1. j \in DOMAIN stack' /\ j + 1 \in 1..(k + 1)
      BY <1>1, <2>1
    <3> QED
      BY <1>1, <2>2, <3>1
  <2> QED
    BY <1>2, <2>2, <2>3
<1>5. ASSUME NEW j \in DOMAIN stack', NEW k \in DOMAIN stack', NEW id \in Nat,
             stack'[j] = ReportFrame(id), stack'[k] = ReportFrame(id)
      PROVE  j = k
  <2>1. j + 1 = k + 1
    BY <1>1, <1>5 DEF TurnInv, StackOK
  <2> QED
    BY <1>1, <2>1
<1>6. StackOK'
  BY <1>1, <1>3, <1>4, <1>5 DEF StackOK
<1>7. ActiveOK'
  BY <1>2 DEF TurnInv, ActiveOK
<1>8. TurnsOK'
  <2>1. TurnsOK
    BY DEF TurnInv
  <2>2. mPending # 0 => Blocked
    BY <2>1 DEF TurnsOK
  <2> QED
    BY <1>2, <2>1, <2>2 DEF TurnsOK
<1>9. \A id \in Nat : (Abandoned(id)' <=> Abandoned(id)) /\ (Reported(id)' <=> Reported(id))
  <2>1. ASSUME NEW id \in Nat PROVE Abandoned(id)' <=> Abandoned(id)
    <3>1. PICK x : x = ReportFrame(id)
      OBVIOUS
    <3>2. stack[1] # x
      BY <1>1, <3>1
    <3>3. (\E k \in DOMAIN stack' : stack'[k] = x) <=> (\E k \in DOMAIN stack : stack[k] = x)
      BY <1>1, <3>2
    <3> QED
      BY <3>1, <3>3 DEF Abandoned
  <2> QED
    BY <2>1 DEF Reported
<1>10. PlacesOK'
  <2>1. PlacesOK /\ Requests \subseteq Nat
    BY BasicFacts DEF TurnInv
  <2> QED
    BY <1>2, <1>9, <2>1 DEF PlacesOK
<1> QED
  BY <1>6, <1>7, <1>8, <1>10 DEF TurnInv

\* Another frame on top while no request is there: a granted read, or the
\* client at the end of one.
LEMMA TurnPushes ==
  ASSUME DataOK, TurnInv, mActive = NoRequest, NEW b, BelowOK(b, 0),
         NEW x \in AnyFrames, x # SetIntentFrame, \A id \in Nat : x # ReportFrame(id),
         stack' = <<x>> \o b,
         intents' = intents, mActive' = mActive, mPending' = mPending, log' = log,
         mPending # 0 => Readers' # {}
  PROVE  TurnInv'
<1>1. StackOK' /\ \A id \in Nat : Abandoned(id)' <=> Abandoned(id) \/ (id = 0 /\ id # 0)
  BY StackAfterPush
<1>2. Requests' = Requests
  BY DEF Requests
<1>3. ActiveOK'
  BY DEF ActiveOK
<1>4. TurnsOK'
  BY DEF TurnInv, TurnsOK, Blocked
<1>5. \A id \in Nat : Reported(id)' <=> Reported(id)
  BY DEF Reported
<1>6. PlacesOK'
  <2>1. PlacesOK /\ Requests \subseteq Nat
    BY BasicFacts DEF TurnInv
  <2> QED
    BY <1>1, <1>2, <1>5, <2>1 DEF PlacesOK
<1> QED
  BY <1>1, <1>3, <1>4, <1>6 DEF TurnInv

\* With no request a read goes on top of the client or of grantWaitingReads().
LEMMA BelowOfRead ==
  ASSUME TurnInv, mPending = 0, stack = <<>> \/ Head(stack) \in {ClientFrame, GrantFrame}
  PROVE  BelowOK(stack, 0)
<1>1. CASE stack = <<>>
  <2>1. DOMAIN stack = {} /\ stack \in Seq(DeepFrames)
    BY <1>1
  <2> QED
    BY <2>1 DEF BelowOK, Abandoned
<1>2. CASE stack # <<>>
  <2>1. stack \in Seq(AnyFrames) /\ Head(stack) = stack[1] /\ DOMAIN stack \subseteq Int
    BY <1>2, Pop DEF TurnInv, StackOK
  <2>2. \A k \in DOMAIN stack : stack[k] \in DeepFrames
    BY <1>2, <2>1, FrameTypes DEF TurnInv, StackOK
  <2>3. stack \in Seq(DeepFrames)
    BY <2>1, <2>2, Retype
  <2>4. \A k \in DOMAIN stack : stack[k] # SetIntentFrame
    BY DEF TurnInv, StackOK
  <2> QED
    BY <2>3, <2>4 DEF BelowOK, Abandoned, TurnInv, StackOK
<1> QED
  BY <1>1, <1>2

\* finish() of an abandoned request.
LEMMA TurnReports ==
  ASSUME DataOK, TurnInv, ReportAbandoned
  PROVE  /\ TurnInv'
         /\ \E id \in Requests : log' = Append(log, Report(id, "Superseded", "WriteMetadata"))
         /\ stack' # <<>> /\ Head(stack') = ClientFrame
<1>1. /\ stack \in Seq(AnyFrames) /\ stack # <<>> /\ Head(stack) = stack[1] /\ 1 \in DOMAIN stack
      /\ DOMAIN stack \subseteq Int
  BY Pop DEF TurnInv, StackOK, ReportAbandoned
<1>2. PICK id \in Nat : stack[1] = ReportFrame(id)
  <2>1. stack[1] \in AnyFrames /\ stack[1][1] = "report"
    BY <1>1 DEF ReportAbandoned
  <2>2. stack[1] # ClientFrame /\ stack[1] # SetIntentFrame /\ stack[1] # GrantFrame
    BY <2>1, FrameFacts
  <2>3. \A op \in Operation : stack[1] # PerformFrame(op)
    BY <2>1, FrameFacts
  <2>4. \A r \in Nat : stack[1] # ReadFrame(r)
    BY <2>1, FrameFacts
  <2> QED
    BY <2>1, <2>2, <2>3, <2>4 DEF AnyFrames, DeepFrames
<1> DEFINE rep == Report(id, "Superseded", "WriteMetadata")
           t == Tail(stack)
<1>3. /\ log' = Append(log, rep) /\ stack' = <<ClientFrame>> \o t /\ rep.id = id
      /\ UNCHANGED <<intents, mActive, mPending, reads>>
  BY <1>1, <1>2, FrameFacts DEF ReportAbandoned, Finish, Report, readVars
<1>4. /\ t \in Seq(AnyFrames)
      /\ \A k \in DOMAIN t : k + 1 \in DOMAIN stack /\ t[k] = stack[k + 1] /\ k + 1 # 1
      /\ \A k \in DOMAIN stack : k = 1 \/ (k - 1 \in DOMAIN t /\ stack[k] = t[k - 1])
      /\ DOMAIN t \subseteq Int
  BY <1>1, Pop
<1>5. ClientFrame \in AnyFrames /\ ClientFrame \in DeepFrames
      /\ ClientFrame # SetIntentFrame /\ \A i \in Nat : ClientFrame # ReportFrame(i)
  BY FrameTypes, FrameFacts
<1> HIDE DEF t, rep
<1>6. /\ stack' \in Seq(AnyFrames) /\ stack' # <<>> /\ Head(stack') = ClientFrame
      /\ stack'[1] = ClientFrame
      /\ \A k \in DOMAIN t : k + 1 \in DOMAIN stack' /\ stack'[k + 1] = t[k]
      /\ \A k \in DOMAIN stack' : k = 1 \/ (k - 1 \in DOMAIN t /\ stack'[k] = t[k - 1])
      /\ DOMAIN stack' \subseteq Int
  BY <1>3, <1>4, <1>5, Push
<1>7. \A k \in DOMAIN stack' : k = 1 \/ (k \in DOMAIN stack /\ stack'[k] = stack[k])
  <2> SUFFICES ASSUME NEW k \in DOMAIN stack', k # 1
               PROVE  k \in DOMAIN stack /\ stack'[k] = stack[k]
    OBVIOUS
  <2>1. k - 1 \in DOMAIN t /\ stack'[k] = t[k - 1] /\ k \in Int
    BY <1>6
  <2>2. (k - 1) + 1 = k
    BY <2>1
  <2> QED
    BY <1>4, <2>1, <2>2
<1>8. \A k \in DOMAIN stack : k = 1 \/ (k \in DOMAIN stack' /\ stack'[k] = stack[k])
  <2> SUFFICES ASSUME NEW k \in DOMAIN stack, k # 1
               PROVE  k \in DOMAIN stack' /\ stack'[k] = stack[k]
    OBVIOUS
  <2>1. k - 1 \in DOMAIN t /\ stack[k] = t[k - 1] /\ k \in Int
    BY <1>1, <1>4
  <2>2. (k - 1) + 1 = k
    BY <2>1
  <2> QED
    BY <1>6, <2>1, <2>2
<1>9. \A k \in DOMAIN stack : stack[k] # SetIntentFrame
  <2> SUFFICES ASSUME NEW k \in DOMAIN stack, stack[k] = SetIntentFrame PROVE FALSE
    OBVIOUS
  <2>1. 1 \in 1..k
    BY <1>1, Pop
  <2>2. stack[1] \in {ClientFrame, SetIntentFrame}
    BY <2>1 DEF TurnInv, StackOK
  <2> QED
    BY <1>2, <2>2, FrameFacts
<1>10. StackOK'
  <2>1. \A k \in DOMAIN stack' : k # 1 => stack'[k] \in DeepFrames
    BY <1>7 DEF TurnInv, StackOK
  <2>2. \A k \in DOMAIN stack' : stack'[k] # SetIntentFrame
    BY <1>5, <1>6, <1>7, <1>9
  <2>3. ASSUME NEW j \in DOMAIN stack', NEW k \in DOMAIN stack', NEW i \in Nat,
               stack'[j] = ReportFrame(i), stack'[k] = ReportFrame(i)
        PROVE  j = k
    <3>1. j # 1 /\ k # 1
      BY <1>5, <1>6, <2>3
    <3> QED
      BY <1>7, <2>3, <3>1 DEF TurnInv, StackOK
  <2> QED
    BY <1>6, <2>1, <2>2, <2>3 DEF StackOK
<1>11. ASSUME NEW i \in Nat PROVE Abandoned(i)' <=> Abandoned(i) /\ i # id
  <2>1. CASE i = id
    <3>1. \A k \in DOMAIN stack : stack[k] = ReportFrame(id) => k = 1
      BY <1>1, <1>2 DEF TurnInv, StackOK
    <3>2. \A k \in DOMAIN stack' : stack'[k] # ReportFrame(id)
      BY <1>5, <1>6, <1>7, <3>1
    <3> QED
      BY <2>1, <3>2 DEF Abandoned
  <2>2. CASE i # id
    <3>1. stack[1] # ReportFrame(i) /\ stack'[1] # ReportFrame(i)
      BY <1>2, <1>5, <1>6, <2>2, FrameFacts
    <3> QED
      BY <1>7, <1>8, <2>2, <3>1 DEF Abandoned
  <2> QED
    BY <2>1, <2>2
<1>12. PlacesOK /\ Abandoned(id) /\ id \in Requests /\ ~Reported(id)
  BY <1>1, <1>2 DEF TurnInv, PlacesOK, Abandoned
<1>13. /\ \A i \in Nat : Reported(i)' <=> Reported(i) \/ i = id
       /\ \A j, k \in DOMAIN log' : log'[j].id = log'[k].id => j = k
  BY <1>3, <1>12, LogAppend
<1>14. Requests' = Requests /\ Readers' = Readers /\ Blocked' = Blocked
  BY <1>3 DEF Requests, Readers, Blocked
<1>15. ActiveOK'
  BY <1>3, <1>14 DEF TurnInv, ActiveOK
<1>16. TurnsOK'
  <2>1. TurnsOK /\ Head(stack) # SetIntentFrame
    BY <1>1, <1>2, FrameFacts DEF TurnInv
  <2> QED
    BY <1>3, <1>14, <2>1 DEF TurnsOK
<1>17. PlacesOK'
  <2>1. Requests \subseteq Nat \ {0}
    BY BasicFacts
  <2>2. ASSUME NEW i \in Requests'
        PROVE  mActive'.id = i \/ mPending' = i \/ Abandoned(i)' \/ Reported(i)'
    BY <1>3, <1>11, <1>12, <1>13, <1>14, <2>1, <2>2 DEF PlacesOK
  <2>3. mActive.id # id /\ mPending # id
    BY <1>12, <2>1 DEF PlacesOK
  <2>4. ASSUME NEW i \in Nat
        PROVE  /\ mActive'.id = i /\ i # 0 => mPending' # i /\ ~Abandoned(i)' /\ ~Reported(i)'
               /\ mPending' = i => ~Abandoned(i)' /\ ~Reported(i)'
               /\ Abandoned(i)' => i \in Requests' /\ ~Reported(i)'
    BY <1>3, <1>11, <1>12, <1>13, <1>14, <2>3 DEF PlacesOK
  <2> QED
    BY <1>13, <2>2, <2>4 DEF PlacesOK
<1> QED
  BY <1>3, <1>6, <1>10, <1>12, <1>15, <1>16, <1>17 DEF TurnInv, rep

LEMMA Asked ==
  ASSUME DataOK, NEW intent \in Intent, SetIntent(intent)
  PROVE  /\ intents' \in Seq(Intent)
         /\ Len(intents) \in Nat /\ Len(intents') = Len(intents) + 1
         /\ intents'[Len(intents) + 1] = intent
         /\ \A id \in Requests : intents'[id] = intents[id]
         /\ Requests' = Requests \cup {Len(intents) + 1}
         /\ Len(intents) + 1 \notin Requests
         /\ mPending' = Len(intents')
<1>1. intents' = Append(intents, intent) /\ mPending' = Len(intents) + 1 /\ intents \in Seq(Intent)
  BY DEF SetIntent, DataOK
<1>2. /\ intents' \in Seq(Intent)
      /\ Len(intents) \in Nat /\ Len(intents') = Len(intents) + 1
      /\ intents'[Len(intents) + 1] = intent
      /\ \A id \in 1..Len(intents) : intents'[id] = intents[id]
  BY <1>1
<1>3. 1..(Len(intents) + 1) = 1..Len(intents) \cup {Len(intents) + 1}
      /\ Len(intents) + 1 \notin 1..Len(intents)
  BY <1>2
<1> QED
  BY <1>1, <1>2, <1>3 DEF Requests

\* The stack in a call of setIntent().
LEMMA StackWhenAsked ==
  ASSUME DataOK, TurnInv, ClientMayCall, NEW t, t = <<SetIntentFrame>> \o stack
  PROVE  /\ t \in Seq(DeepFrames) /\ DOMAIN t \subseteq Int
         /\ t # <<>> /\ Head(t) = SetIntentFrame /\ t[1] = SetIntentFrame
         /\ \A k \in DOMAIN t : t[k] = SetIntentFrame =>
              /\ k # 1 => Blocked
              /\ \A j \in 1..k : t[j] \in {ClientFrame, SetIntentFrame}
         /\ \A j, k \in DOMAIN t, id \in Nat : t[j] = ReportFrame(id) /\ t[k] = ReportFrame(id) => j = k
         /\ \A id \in Nat : (\E k \in DOMAIN t : t[k] = ReportFrame(id)) <=> Abandoned(id)
<1>1. stack \in Seq(AnyFrames) /\ SetIntentFrame \in AnyFrames /\ ClientFrame \in DeepFrames
      /\ SetIntentFrame \in DeepFrames
      /\ SetIntentFrame # ClientFrame /\ \A id \in Nat : SetIntentFrame # ReportFrame(id)
  BY FrameTypes, FrameFacts DEF TurnInv, StackOK
<1>2. 1 \in DOMAIN stack => stack[1] = ClientFrame
  BY <1>1 DEF ClientMayCall, InEventLoop, InClient
<1>3. /\ t \in Seq(AnyFrames) /\ t # <<>> /\ Head(t) = SetIntentFrame /\ t[1] = SetIntentFrame
      /\ \A k \in DOMAIN stack : k + 1 \in DOMAIN t /\ t[k + 1] = stack[k]
      /\ \A k \in DOMAIN t : k = 1 \/ (k - 1 \in DOMAIN stack /\ t[k] = stack[k - 1])
      /\ DOMAIN t \subseteq Int /\ DOMAIN t = 1..Len(t) /\ Len(t) \in Nat
      /\ DOMAIN stack \subseteq Int /\ DOMAIN stack = 1..Len(stack) /\ Len(stack) \in Nat
  BY <1>1, Push
<1>4. \A k \in DOMAIN stack : stack[k] \in DeepFrames
  BY <1>1, <1>2 DEF TurnInv, StackOK
<1>5. \A k \in DOMAIN t : t[k] \in DeepFrames
  BY <1>1, <1>3, <1>4
<1>6. t \in Seq(DeepFrames)
  BY <1>3, <1>5, Retype
<1>7. ASSUME NEW k \in DOMAIN t, t[k] = SetIntentFrame
      PROVE  /\ k # 1 => Blocked
             /\ \A j \in 1..k : t[j] \in {ClientFrame, SetIntentFrame}
  <2>1. CASE k = 1
    BY <1>3, <2>1
  <2>2. CASE k # 1
    <3>1. k - 1 \in DOMAIN stack /\ stack[k - 1] = SetIntentFrame /\ k \in Int
      BY <1>3, <1>7, <2>2
    <3>2. k - 1 # 1
      BY <1>1, <1>2, <3>1
    <3>3. Blocked /\ \A j \in 1..(k - 1) : stack[j] \in {ClientFrame, SetIntentFrame}
      BY <3>1, <3>2 DEF TurnInv, StackOK
    <3>4. ASSUME NEW j \in 1..k PROVE t[j] \in {ClientFrame, SetIntentFrame}
      <4>1. CASE j = 1
        BY <1>3, <4>1
      <4>2. CASE j # 1
        <5>1. j \in DOMAIN t /\ j - 1 \in 1..(k - 1)
          BY <1>3, <3>1, <4>2
        <5> QED
          BY <1>3, <3>3, <4>2, <5>1
      <4> QED
        BY <4>1, <4>2
    <3> QED
      BY <3>3, <3>4
  <2> QED
    BY <2>1, <2>2
<1>8. ASSUME NEW j \in DOMAIN t, NEW k \in DOMAIN t, NEW id \in Nat,
             t[j] = ReportFrame(id), t[k] = ReportFrame(id)
      PROVE  j = k
  <2>1. j # 1 /\ k # 1
    BY <1>1, <1>3, <1>8
  <2>2. j - 1 = k - 1
    BY <1>3, <1>8, <2>1 DEF TurnInv, StackOK
  <2> QED
    BY <1>3, <2>2
<1>9. ASSUME NEW id \in Nat
      PROVE  (\E k \in DOMAIN t : t[k] = ReportFrame(id)) <=> Abandoned(id)
  <2>1. PICK x : x = ReportFrame(id)
    OBVIOUS
  <2>2. t[1] # x
    BY <1>1, <1>3, <2>1
  <2>3. (\E k \in DOMAIN t : t[k] = x) <=> (\E k \in DOMAIN stack : stack[k] = x)
    BY <1>3, <2>2
  <2> QED
    BY <2>1, <2>3 DEF Abandoned
<1> QED
  BY <1>3, <1>6, <1>7, <1>8, <1>9

\* setIntent(): the stack with or without the completion of the request displaced.
LEMMA StackAsks ==
  ASSUME DataOK, TurnInv, NEW intent \in Intent, SetIntent(intent)
  PROVE  /\ StackOK'
         /\ Blocked' \/ (stack' # <<>> /\ Head(stack') = SetIntentFrame)
         /\ Blocked' = Blocked
         /\ \A id \in Nat : Abandoned(id)' <=> Abandoned(id)
         /\ stack' # <<>> /\ Head(stack') \in {ClientFrame, SetIntentFrame}
<1> DEFINE t == <<SetIntentFrame>> \o stack
<1>1. /\ ClientMayCall /\ mPending' # 0
      /\ \/ mPending # 0 /\ stack' = <<ClientFrame>> \o t
         \/ mPending = 0 /\ stack' = t
      /\ UNCHANGED <<mActive, reads>>
  BY Asked DEF SetIntent, Finish, readVars
<1>2. Blocked' = Blocked
  BY <1>1 DEF Blocked, Readers
<1> HIDE DEF t
<1>3. /\ t \in Seq(DeepFrames) /\ DOMAIN t \subseteq Int
      /\ t # <<>> /\ Head(t) = SetIntentFrame /\ t[1] = SetIntentFrame
      /\ \A k \in DOMAIN t : t[k] = SetIntentFrame =>
              /\ k # 1 => Blocked
              /\ \A j \in 1..k : t[j] \in {ClientFrame, SetIntentFrame}
      /\ \A j, k \in DOMAIN t, id \in Nat : t[j] = ReportFrame(id) /\ t[k] = ReportFrame(id) => j = k
      /\ \A id \in Nat : (\E k \in DOMAIN t : t[k] = ReportFrame(id)) <=> Abandoned(id)
  <2>1. \A u : u = <<SetIntentFrame>> \o stack =>
          /\ u \in Seq(DeepFrames) /\ DOMAIN u \subseteq Int
          /\ u # <<>> /\ Head(u) = SetIntentFrame /\ u[1] = SetIntentFrame
          /\ \A k \in DOMAIN u : u[k] = SetIntentFrame =>
               /\ k # 1 => Blocked
               /\ \A j \in 1..k : u[j] \in {ClientFrame, SetIntentFrame}
          /\ \A j, k \in DOMAIN u, id \in Nat : u[j] = ReportFrame(id) /\ u[k] = ReportFrame(id) => j = k
          /\ \A id \in Nat : (\E k \in DOMAIN u : u[k] = ReportFrame(id)) <=> Abandoned(id)
    BY <1>1, StackWhenAsked
  <2> QED
    BY <2>1 DEF t
<1>4. CASE mPending = 0 /\ stack' = t
  <2>1. t \in Seq(AnyFrames) /\ \A k \in DOMAIN t : t[k] \in DeepFrames
    <3>1. \A k \in DOMAIN t : t[k] \in DeepFrames
      BY <1>3
    <3> QED
      BY <1>3, <3>1, FrameTypes, Retype
  <2>2. StackOK'
    BY <1>1, <1>2, <1>3, <1>4, <2>1 DEF StackOK
  <2>3. \A id \in Nat : Abandoned(id)' <=> Abandoned(id)
    BY <1>3, <1>4 DEF Abandoned
  <2> QED
    BY <1>2, <1>3, <1>4, <2>2, <2>3
<1>5. CASE mPending # 0 /\ stack' = <<ClientFrame>> \o t
  <2>1. Blocked
    <3>1. stack = <<>> \/ Head(stack) # SetIntentFrame
      BY <1>1, FrameFacts DEF ClientMayCall, InEventLoop, InClient
    <3> QED
      BY <1>5, <3>1 DEF TurnInv, TurnsOK
  <2>2. ClientFrame \in DeepFrames /\ ClientFrame # SetIntentFrame
        /\ \A id \in Nat : ClientFrame # ReportFrame(id)
    BY FrameTypes, FrameFacts
  <2>3. /\ stack' \in Seq(DeepFrames) /\ stack' # <<>> /\ Head(stack') = ClientFrame
        /\ stack'[1] = ClientFrame
        /\ \A k \in DOMAIN t : k + 1 \in DOMAIN stack' /\ stack'[k + 1] = t[k]
        /\ \A k \in DOMAIN stack' : k = 1 \/ (k - 1 \in DOMAIN t /\ stack'[k] = t[k - 1])
        /\ DOMAIN stack' \subseteq Int /\ DOMAIN stack' = 1..Len(stack') /\ Len(stack') \in Nat
    BY <1>3, <1>5, <2>2, Push
  <2>4. \A k \in DOMAIN stack' : stack'[k] \in DeepFrames
    BY <2>3
  <2>5. stack' \in Seq(AnyFrames)
    BY <2>3, <2>4, FrameTypes, Retype
  <2>6. ASSUME NEW k \in DOMAIN stack', stack'[k] = SetIntentFrame
        PROVE  \A j \in 1..k : stack'[j] \in {ClientFrame, SetIntentFrame}
    <3>1. k # 1 /\ k - 1 \in DOMAIN t /\ t[k - 1] = SetIntentFrame /\ k \in Int
      BY <2>2, <2>3, <2>6
    <3>2. \A j \in 1..(k - 1) : t[j] \in {ClientFrame, SetIntentFrame}
      BY <1>3, <3>1
    <3>3. ASSUME NEW j \in 1..k, j # 1 PROVE stack'[j] \in {ClientFrame, SetIntentFrame}
      <4>1. j \in DOMAIN stack' /\ j - 1 \in 1..(k - 1)
        BY <2>3, <3>1, <3>3
      <4> QED
        BY <2>3, <3>2, <3>3, <4>1
    <3> QED
      BY <2>3, <3>3
  <2>7. ASSUME NEW j \in DOMAIN stack', NEW k \in DOMAIN stack', NEW id \in Nat,
               stack'[j] = ReportFrame(id), stack'[k] = ReportFrame(id)
        PROVE  j = k
    <3>1. j # 1 /\ k # 1
      BY <2>2, <2>3, <2>7
    <3>2. j - 1 = k - 1
      BY <1>3, <2>3, <2>7, <3>1
    <3> QED
      BY <2>3, <3>2
  <2>8. StackOK'
    BY <1>1, <1>2, <2>1, <2>4, <2>5, <2>6, <2>7 DEF StackOK
  <2>9. ASSUME NEW id \in Nat PROVE Abandoned(id)' <=> Abandoned(id)
    <3>1. PICK x : x = ReportFrame(id)
      OBVIOUS
    <3>2. stack'[1] # x
      BY <2>2, <2>3, <3>1
    <3>3. (\E k \in DOMAIN stack' : stack'[k] = x) <=> (\E k \in DOMAIN t : t[k] = x)
      BY <2>3, <3>2
    <3> QED
      BY <1>3, <3>1, <3>3 DEF Abandoned
  <2> QED
    BY <1>2, <2>1, <2>3, <2>8, <2>9
<1> QED
  BY <1>1, <1>4, <1>5

LEMMA TurnAsks ==
  ASSUME DataOK, TurnInv, NEW intent \in Intent, SetIntent(intent)
  PROVE  TurnInv'
<1>1. /\ Requests' = Requests \cup {Len(intents) + 1} /\ Len(intents) + 1 \notin Requests
      /\ \A id \in Requests : intents'[id] = intents[id]
      /\ mPending' = Len(intents) + 1 /\ mPending' = Len(intents') /\ Len(intents) \in Nat
  BY Asked
<1>2. /\ mActive' = mActive /\ Readers' = Readers
      /\ \/ /\ mPending # 0
            /\ log' = Append(log, Report(mPending, "Superseded", "WriteMetadata"))
            /\ Report(mPending, "Superseded", "WriteMetadata").id = mPending
         \/ mPending = 0 /\ log' = log
  BY DEF SetIntent, Finish, readVars, Readers, Report
<1>3. /\ StackOK'
      /\ Blocked' \/ (stack' # <<>> /\ Head(stack') = SetIntentFrame)
      /\ \A id \in Nat : Abandoned(id)' <=> Abandoned(id)
  BY StackAsks
<1>4. ActiveOK'
  <2>1. SUFFICES ASSUME mActive # NoRequest PROVE ActiveOK'
    BY <1>2 DEF ActiveOK
  <2>2. /\ mActive \in [id: Requests, step: 1..3, removingStaleToken: BOOLEAN]
        /\ mActive.id \in Requests
    BY <2>1 DEF TurnInv, ActiveOK
  <2>3. mActive \in [id: Requests', step: 1..3, removingStaleToken: BOOLEAN]
    BY <1>1, <2>2
  <2>4. intents'[mActive.id] = intents[mActive.id]
    BY <1>1, <2>2
  <2> QED
    BY <1>2, <2>1, <2>3, <2>4 DEF TurnInv, ActiveOK
<1>5. TurnsOK'
  BY <1>1, <1>2, <1>3 DEF TurnInv, TurnsOK
<1>6. PlacesOK /\ Requests \subseteq Nat \ {0} /\ mPending \in Nat /\ mPending \in Requests \cup {0}
      /\ ~Reported(0)
  BY BasicFacts, NoneReportsNone DEF TurnInv
<1>7. /\ \A id \in Nat : Reported(id)' <=> Reported(id) \/ (id = mPending /\ id # 0)
      /\ \A j, k \in DOMAIN log' : log'[j].id = log'[k].id => j = k
  <2>1. CASE mPending = 0 /\ log' = log
    BY <1>6, <2>1 DEF PlacesOK, Reported
  <2>2. CASE /\ mPending # 0
             /\ log' = Append(log, Report(mPending, "Superseded", "WriteMetadata"))
             /\ Report(mPending, "Superseded", "WriteMetadata").id = mPending
    <3>1. ~Reported(mPending)
      BY <1>6 DEF PlacesOK
    <3> QED
      BY <1>6, <2>2, <3>1, LogAppend
  <2> QED
    BY <1>2, <2>1, <2>2
<1>8. PlacesOK'
  <2> DEFINE n == Len(intents) + 1
  <2>1. n \in Nat /\ n # 0 /\ ~Abandoned(n) /\ ~Reported(n) /\ mActive.id # n /\ mPending # n
    <3>1. n \in Nat /\ n # 0 /\ n \notin Requests
      BY <1>1
    <3>2. ~Abandoned(n) /\ mPending # n
      BY <1>6, <3>1 DEF PlacesOK
    <3>3. ~Reported(n)
      <4>1. \A k \in DOMAIN log : log[k] \in LogRecords
        BY DEF DataOK
      <4>2. \A entry \in LogRecords : entry.id \in Requests
        BY DEF LogRecords
      <4> QED
        BY <3>1, <4>1, <4>2 DEF Reported
    <3>4. mActive.id # n
      <4>1. CASE mActive = NoRequest
        BY <3>1, <4>1 DEF NoRequest
      <4>2. CASE mActive # NoRequest
        BY <3>1, <4>2, CurrentOpIs DEF TurnInv
      <4> QED
        BY <4>1, <4>2
    <3> QED
      BY <3>1, <3>2, <3>3, <3>4
  <2>2. mPending' = n /\ Requests' = Requests \cup {n} /\ mActive' = mActive
    BY <1>1, <1>2
  <2> HIDE DEF n
  <2>3. ASSUME NEW id \in Requests'
        PROVE  mActive'.id = id \/ mPending' = id \/ Abandoned(id)' \/ Reported(id)'
    BY <1>3, <1>6, <1>7, <2>2 DEF PlacesOK
  <2>4. ASSUME NEW id \in Nat
        PROVE  /\ mActive'.id = id /\ id # 0 => mPending' # id /\ ~Abandoned(id)' /\ ~Reported(id)'
               /\ mPending' = id => ~Abandoned(id)' /\ ~Reported(id)'
               /\ Abandoned(id)' => id \in Requests' /\ ~Reported(id)'
    BY <1>3, <1>6, <1>7, <2>1, <2>2 DEF PlacesOK
  <2> QED
    BY <1>7, <2>3, <2>4 DEF PlacesOK
<1> QED
  BY <1>3, <1>4, <1>5, <1>8 DEF TurnInv

Unlike(l, id) == \A k \in DOMAIN l : l[k].id # id
Distinct(l) == \A j, k \in DOMAIN l : l[j].id = l[k].id => j = k

\* m is the log l with a report more.
HasMore(L, l, rep, m) ==
    /\ m \in Seq(L)
    /\ \A id : (\E k \in DOMAIN m : m[k].id = id) <=> (\E k \in DOMAIN l : l[k].id = id) \/ id = rep.id
    /\ \A j, k \in DOMAIN m : m[j].id = m[k].id => j = k
    /\ \A k \in DOMAIN m : (k \in DOMAIN l /\ m[k] = l[k]) \/ m[k] = rep
    /\ \A k \in DOMAIN l : k \in DOMAIN m /\ m[k] = l[k]

LEMMA OneMore ==
  ASSUME NEW L, NEW l \in Seq(L), NEW rep \in L, Unlike(l, rep.id), Distinct(l)
  PROVE  HasMore(L, l, rep, l \o <<rep>>)
<1> DEFINE m == l \o <<rep>>
<1> USE DEF Unlike, Distinct
<1>1. /\ m \in Seq(L) /\ Len(l) \in Nat /\ DOMAIN l = 1..Len(l)
      /\ DOMAIN m = 1..(Len(l) + 1)
      /\ \A k \in DOMAIN l : m[k] = l[k]
      /\ m[Len(l) + 1] = rep
  OBVIOUS
<1> HIDE DEF m
<1>2. \A k \in DOMAIN m : k \in DOMAIN l \/ k = Len(l) + 1
  BY <1>1
<1>3. DOMAIN l \subseteq DOMAIN m /\ Len(l) + 1 \in DOMAIN m
  BY <1>1
<1>4. ASSUME NEW id
      PROVE  (\E k \in DOMAIN m : m[k].id = id) <=> (\E k \in DOMAIN l : l[k].id = id) \/ id = rep.id
  <2>1. (\E k \in DOMAIN m : m[k].id = id) => (\E k \in DOMAIN l : l[k].id = id) \/ id = rep.id
    BY <1>1, <1>2
  <2>2. (\E k \in DOMAIN l : l[k].id = id) => (\E k \in DOMAIN m : m[k].id = id)
    BY <1>1, <1>3
  <2>3. id = rep.id => (\E k \in DOMAIN m : m[k].id = id)
    BY <1>1, <1>3
  <2> QED
    BY <2>1, <2>2, <2>3
<1>5. \A j, k \in DOMAIN m : m[j].id = m[k].id => j = k
  BY <1>1, <1>2
<1>6. HasMore(L, l, rep, m)
  BY <1>1, <1>2, <1>3, <1>4, <1>5 DEF HasMore
<1> QED
  BY <1>6 DEF m

Dropped(id) == Report(id, "Dropped", "WriteMetadata")

LEMMA ReportType ==
  ASSUME NEW id \in Requests, NEW outcome \in Outcome \cup {"Dropped"}, NEW failedAt \in Operation
  PROVE  /\ Report(id, outcome, failedAt) \in LogRecords
         /\ Report(id, outcome, failedAt).id = id
         /\ Report(id, outcome, failedAt).outcome = outcome
  BY DEF Report, LogRecords

\* The end of the profile drops what was active and what waited.
LEMMA ClosingLogs ==
  ASSUME DataOK, TurnInv, CloseProfile
  PROVE  /\ log' \in Seq(LogRecords)
         /\ \A id \in Nat : Reported(id)' <=> \/ Reported(id)
                                              \/ id # 0 /\ id = mActive.id
                                              \/ id # 0 /\ id = mPending
         /\ \A j, k \in DOMAIN log' : log'[j].id = log'[k].id => j = k
         /\ \A k \in DOMAIN log' :
               (k \in DOMAIN log /\ log'[k] = log[k]) \/ log'[k].outcome = "Dropped"
         /\ \A k \in DOMAIN log : k \in DOMAIN log' /\ log'[k] = log[k]
<1> DEFINE A == IF mActive = NoRequest THEN <<>> ELSE <<Dropped(mActive.id)>>
           B == IF mPending = 0 THEN <<>> ELSE <<Dropped(mPending)>>
<1>1. log' = (log \o A) \o B
  BY DEF CloseProfile, Dropped
<1>2. PlacesOK /\ log \in Seq(LogRecords) /\ Requests \subseteq Nat \ {0}
      /\ (mPending # 0 => mPending \in Requests)
      /\ (mActive # NoRequest => mActive.id \in Requests)
      /\ NoRequest.id = 0
  BY BasicFacts, CurrentOpIs DEF TurnInv, DataOK
<1>3. \A id \in Requests : /\ Dropped(id) \in LogRecords /\ Dropped(id).id = id
                           /\ Dropped(id).outcome = "Dropped"
  BY ReportType DEF Dropped, Operation
<1>4. PICK l : l = log \o A
  OBVIOUS
<1>5. /\ l \in Seq(LogRecords)
      /\ \A id \in Nat : (\E k \in DOMAIN l : l[k].id = id) <=> Reported(id) \/ (id # 0 /\ id = mActive.id)
      /\ \A j, k \in DOMAIN l : l[j].id = l[k].id => j = k
      /\ \A k \in DOMAIN l : (k \in DOMAIN log /\ l[k] = log[k]) \/ l[k].outcome = "Dropped"
      /\ \A k \in DOMAIN log : k \in DOMAIN l /\ l[k] = log[k]
  <2>1. CASE mActive = NoRequest
    <3>1. l = log /\ mActive.id = 0
      BY <1>2, <1>4, <2>1
    <3> QED
      BY <1>2, <3>1 DEF PlacesOK, Reported
  <2>2. CASE mActive # NoRequest
    <3>1. PICK rep \in LogRecords : rep = Dropped(mActive.id)
      BY <1>2, <1>3, <2>2
    <3>2. rep.id = mActive.id /\ rep.outcome = "Dropped" /\ mActive.id # 0
      BY <1>2, <1>3, <2>2, <3>1
    <3>3. l = log \o <<rep>>
      BY <1>4, <2>2, <3>1
    <3>4. Unlike(log, rep.id) /\ Distinct(log)
      BY <1>2, <2>2, <3>2 DEF PlacesOK, Reported, Unlike, Distinct
    <3>5. HasMore(LogRecords, log, rep, log \o <<rep>>)
      BY <1>2, <3>4, OneMore, Zenon
    <3>6. HasMore(LogRecords, log, rep, l)
      BY <3>3, <3>5
    <3> QED
      BY <3>2, <3>6 DEF Reported, HasMore
  <2> QED
    BY <2>1, <2>2
<1>6. log' = l \o B
  BY <1>1, <1>4
<1> HIDE DEF A
<1>7. CASE mPending = 0
  <2>1. log' = l
    BY <1>5, <1>6, <1>7
  <2> QED
    BY <1>5, <1>7, <2>1 DEF Reported
<1>8. CASE mPending # 0
  <2>1. PICK rep \in LogRecords : rep = Dropped(mPending)
    BY <1>2, <1>3, <1>8
  <2>2. rep.id = mPending /\ rep.outcome = "Dropped" /\ mPending \in Requests
    BY <1>2, <1>3, <1>8, <2>1
  <2>3. log' = l \o <<rep>>
    BY <1>6, <1>8, <2>1
  <2>4. Unlike(l, rep.id) /\ Distinct(l)
    <3>1. ~Reported(mPending) /\ mActive.id # mPending
      BY <1>2, <2>2 DEF PlacesOK
    <3> QED
      BY <1>2, <1>5, <2>2, <3>1 DEF Unlike, Distinct
  <2>9. HasMore(LogRecords, l, rep, l \o <<rep>>)
    BY <1>5, <2>4, OneMore, Zenon
  <2>5. HasMore(LogRecords, l, rep, log')
    BY <2>3, <2>9
  <2> USE DEF HasMore
  <2>6. \A id \in Nat : Reported(id)' <=> (\E k \in DOMAIN l : l[k].id = id) \/ id = rep.id
    BY <2>5 DEF Reported
  <2>7. \A k \in DOMAIN log' : (k \in DOMAIN log /\ log'[k] = log[k]) \/ log'[k].outcome = "Dropped"
    BY <1>5, <2>2, <2>5
  <2>8. \A k \in DOMAIN log : k \in DOMAIN log' /\ log'[k] = log[k]
    BY <1>5, <2>5
  <2> QED
    BY <1>2, <1>5, <1>8, <2>2, <2>5, <2>6, <2>7, <2>8
<1> QED
  BY <1>7, <1>8

LEMMA TurnCloses ==
  ASSUME DataOK, TurnInv, CloseProfile
  PROVE  TurnInv'
<1>1. /\ stack = <<>> /\ stack' = <<>> /\ mActive' = NoRequest /\ mActive'.id = 0 /\ mPending' = 0
      /\ reads' = [r \in DOMAIN reads |-> Ended] /\ intents' = intents /\ Requests' = Requests
  BY DEF CloseProfile, InEventLoop, NoRequest, Requests
<1>2. stack' \in Seq(AnyFrames) /\ DOMAIN stack' = {} /\ DOMAIN stack = {}
  BY <1>1
<1>3. StackOK'
  BY <1>2 DEF StackOK
<1>4. ActiveOK' /\ TurnsOK'
  BY <1>1 DEF ActiveOK, TurnsOK
<1>5. \A id \in Nat : ~Abandoned(id) /\ ~Abandoned(id)'
  BY <1>2 DEF Abandoned
<1>6. /\ \A id \in Nat : Reported(id)' <=> \/ Reported(id)
                                           \/ id # 0 /\ id = mActive.id
                                           \/ id # 0 /\ id = mPending
      /\ \A j, k \in DOMAIN log' : log'[j].id = log'[k].id => j = k
  BY ClosingLogs
<1>7. PlacesOK /\ Requests \subseteq Nat \ {0} /\ ~Reported(0)
  BY BasicFacts, NoneReportsNone DEF TurnInv
<1>8. PlacesOK'
  BY <1>1, <1>5, <1>6, <1>7 DEF PlacesOK
<1> QED
  BY <1>3, <1>4, <1>8 DEF TurnInv

-----------------------------------------------------------------------------
(* What was called, after each thing that may happen to the requests.      *)

NoCallOnTop == stack = <<>> \/ Head(stack) \in DeepFrames

LEMMA TopAfterPop ==
  ASSUME StackOK, stack # <<>>, stack' = Tail(stack)
  PROVE  NoCallOnTop'
<1>1. /\ stack' \in Seq(AnyFrames)
      /\ \A k \in DOMAIN stack' : k + 1 \in DOMAIN stack /\ stack'[k] = stack[k + 1]
  BY Pop DEF StackOK
<1>2. CASE stack' # <<>>
  <2>1. Head(stack') = stack'[1] /\ 1 \in DOMAIN stack'
    BY <1>1, <1>2, Pop
  <2>2. stack'[1] = stack[1 + 1] /\ 1 + 1 \in DOMAIN stack /\ 1 + 1 # 1
    BY <1>1, <2>1
  <2> QED
    BY <2>1, <2>2 DEF StackOK, NoCallOnTop
<1> QED
  BY <1>2 DEF NoCallOnTop

LEMMA TopIs ==
  ASSUME stack # <<>>
  PROVE  /\ \A op \in Operation : Head(stack) = PerformFrame(op) => Head(stack) \notin DeepFrames
         /\ \A r \in Nat : Head(stack) = ReadFrame(r) => Head(stack) \notin DeepFrames
         /\ \A p, q \in Operation :
              Head(stack) = PerformFrame(p) /\ Head(stack) = PerformFrame(q) => p = q
         /\ \A p \in Operation, r \in Nat : ~(Head(stack) = PerformFrame(p) /\ Head(stack) = ReadFrame(r))
  BY FrameTypes, FrameFacts

LEMMA TopWillBe ==
  ASSUME stack' # <<>>
  PROVE  /\ \A op \in Operation : Head(stack') = PerformFrame(op) => Head(stack') \notin DeepFrames
         /\ \A r \in Nat : Head(stack') = ReadFrame(r) => Head(stack') \notin DeepFrames
         /\ \A p, q \in Operation :
              Head(stack') = PerformFrame(p) /\ Head(stack') = PerformFrame(q) => p = q
         /\ \A p \in Operation, r \in Nat : ~(Head(stack') = PerformFrame(p) /\ Head(stack') = ReadFrame(r))
  BY FrameTypes, FrameFacts

\* Nothing is called, and what was called may still answer.
LEMMA CallsStay ==
  ASSUME CallsOK, NoCallOnTop', jobs' = jobs, mActive' = mActive, meta' = meta, keychain' = keychain,
         mActive # NoRequest => /\ CurrentOp(mActive)' = CurrentOp(mActive)
                                /\ MetadataPayload(mActive)' = MetadataPayload(mActive),
         Requests \subseteq Requests'
  PROVE  CallsOK'
<1>1. JobsOK'
  BY DEF CallsOK, JobsOK
<1>2. ASSUME NEW op \in Operation, stack' # <<>>, Head(stack') = PerformFrame(op) PROVE FALSE
  BY <1>2, TopWillBe DEF NoCallOnTop
<1>3. ASSUME NEW j \in DOMAIN jobs', jobs'[j].awaited, jobs'[j].kind # "Read"
      PROVE  /\ j = Len(jobs')
             /\ mActive' # NoRequest /\ jobs'[j].arg = mActive'.id /\ jobs'[j].kind = CurrentOp(mActive)'
             /\ jobs'[j].kind = "WriteMetadata" => meta' = MetadataPayload(mActive)'
             /\ jobs'[j].kind = "RemoveMetadata" => meta' = NoMetadata
  BY <1>3 DEF CallsOK
<1> QED
  BY <1>1, <1>2, <1>3 DEF CallsOK

\* The performer is called, or nothing is, and no operation has an answer to come.
LEMMA CallsFree ==
  ASSUME JobsOK', NoneAwaited',
         \/ NoCallOnTop'
         \/ \E r \in Nat : Head(stack') = ReadFrame(r)
         \/ /\ mActive' # NoRequest /\ CurrentOp(mActive)' \in Operation
            /\ Head(stack') = PerformFrame(CurrentOp(mActive)')
  PROVE  CallsOK'
<1>1. ASSUME NEW op \in Operation, stack' # <<>>, Head(stack') = PerformFrame(op)
      PROVE  mActive' # NoRequest /\ op = CurrentOp(mActive)'
  <2>1. ~NoCallOnTop' /\ \A r \in Nat : Head(stack') # ReadFrame(r)
    BY <1>1, TopWillBe DEF NoCallOnTop
  <2> QED
    BY <1>1, <2>1, TopWillBe
<1> QED
  BY <1>1 DEF CallsOK, NoneAwaited

LEMMA ReadsStay ==
  ASSUME ReadCallsOK, reads' = reads, mWaitingReads' = mWaitingReads, ReadJobsOK',
         NoCallOnTop' \/ \E op \in Operation : Head(stack') = PerformFrame(op)
  PROVE  ReadCallsOK'
<1>1. ASSUME NEW r \in Nat, stack' # <<>>, Head(stack') = ReadFrame(r) PROVE FALSE
  BY <1>1, TopWillBe DEF NoCallOnTop
<1> QED
  BY <1>1 DEF ReadCallsOK

LEMMA DataStays ==
  ASSUME DataOK, intents' = intents, mPending' \in {0, mPending}, reads' = reads,
         mWaitingReads' = mWaitingReads, log' \in Seq(LogRecords), StoreTyped'
  PROVE  DataOK'
<1>1. LogRecords' = LogRecords /\ ReadRecords' = ReadRecords /\ Len(intents) \in Nat
  BY BasicFacts DEF LogRecords, ReadRecords, Requests, Metadata
<1> QED
  BY <1>1 DEF DataOK

\* start() calls the performer.
LEMMA StartCalls ==
  ASSUME DataOK, TurnInv, NEW b, BelowOK(b, mActive.id), mPending # 0, Starts(b),
         intents' = intents, Readers' = {}, JobsOK', NoneAwaited'
  PROVE  /\ TurnInv' /\ CallsOK' /\ mPending' = 0 /\ log' = log
         /\ \E op \in Operation : Head(stack') = PerformFrame(op)
<1>1. TurnInv'
  BY TurnStarts
<1>2. /\ mPending' = 0 /\ mActive' = FirstStep(mPending) /\ log' = log
      /\ stack' = <<PerformFrame(CurrentOp(FirstStep(mPending)))>> \o b
  BY DEF Starts
<1>3. mActive' # NoRequest /\ CurrentOp(mActive)' \in Operation
      /\ CurrentOp(mActive)' = CurrentOp(FirstStep(mPending))
  <2>1. mPending \in Requests /\ intents[mPending] \in Intent /\ mPending # 0
    BY BasicFacts
  <2>2. mActive'.id = mPending /\ mActive'.step = 1 /\ mActive'.removingStaleToken = FALSE
    BY <1>2 DEF FirstStep
  <2>3. CurrentOp(mActive)' = CurrentOp(FirstStep(mPending))
    BY <1>2 DEF CurrentOp
  <2>4. CurrentOp(mActive)' = SequenceFor(intents[mPending])[1]
    BY <2>2 DEF CurrentOp
  <2> QED
    BY <2>1, <2>2, <2>3, <2>4, SequenceFacts DEF NoRequest
<1>4. Head(stack') = PerformFrame(CurrentOp(mActive)')
  <2>1. b \in Seq(DeepFrames)
    BY DEF BelowOK
  <2> QED
    BY <1>2, <1>3, <2>1
<1> QED
  BY <1>1, <1>2, <1>3, <1>4, CallsFree

\* What done() leads to leaves the calls in order.
LEMMA StepDoneKeeps ==
  ASSUME CallInv, mActive # NoRequest, NEW b, BelowOK(b, 0), NEW ok \in BOOLEAN,
         OnStepDone(mActive.id, CurrentOp(mActive), ok, b),
         intents' = intents, reads' = reads, mWaitingReads' = mWaitingReads,
         JobsOK', NoneAwaited', ReadJobsOK', StoreTyped'
  PROVE  CallInv'
<1>1. DataOK /\ TurnInv /\ ActiveOK /\ Readers' = Readers /\ Readers = {}
      /\ PlacesOK
  BY DEF CallInv, TurnInv, TurnsOK, Readers
<1>2. /\ mActive.id \in Requests /\ mActive.step \in 1..3 /\ mActive.id \in Nat \ {0}
      /\ mActive.removingStaleToken \in BOOLEAN
      /\ intents[mActive.id] \in Intent
      /\ mActive = [id |-> mActive.id, step |-> mActive.step,
                    removingStaleToken |-> mActive.removingStaleToken]
      /\ CurrentOp(mActive) \in Operation
      /\ CurrentOp(mActive) = "WriteToken" =>
            /\ intents[mActive.id].shape = "Full" /\ mActive.step = 2
            /\ ~mActive.removingStaleToken
  BY <1>1, CurrentOpIs
<1>3. /\ Len(SequenceFor(intents[mActive.id])) \in {2, 3}
      /\ \A i \in 1..Len(SequenceFor(intents[mActive.id])) :
            SequenceFor(intents[mActive.id])[i] \in Operation
      /\ mActive.step <= Len(SequenceFor(intents[mActive.id]))
  BY <1>1, <1>2, SequenceFacts DEF ActiveOK
<1>4. log \in Seq(LogRecords) /\ ReadCallsOK /\ b \in Seq(DeepFrames)
  BY <1>1 DEF DataOK, CallInv, BelowOK
<1>5. CASE mPending # 0 /\ Starts(<<ReportFrame(mActive.id)>> \o b)
  <2>1. BelowOK(<<ReportFrame(mActive.id)>> \o b, mActive.id)
    <3>1. ~Abandoned(mActive.id)
      BY <1>1, <1>2 DEF PlacesOK
    <3> QED
      BY <1>2, <3>1, BelowReport
  <2>2. TurnInv'
    BY <1>1, <1>5, <2>1, TurnStarts
  <2>3. /\ CallsOK' /\ mPending' = 0 /\ log' = log
        /\ \E op \in Operation : Head(stack') = PerformFrame(op)
    BY <1>1, <1>5, <2>1, StartCalls
  <2>7. ReadCallsOK'
    BY <1>4, <2>3, ReadsStay
  <2>8. DataOK'
    BY <1>1, <1>4, <2>3, DataStays
  <2> QED
    BY <2>2, <2>3, <2>7, <2>8 DEF CallInv
<1>6. ASSUME mPending = 0, NEW outcome \in {"Failed", "Reached"}, NEW failedAt \in Operation,
             Ends(outcome, failedAt, b)
      PROVE  CallInv'
  <2>1. TurnInv'
    BY <1>1, <1>6, TurnEnds
  <2>2. /\ mPending' = mPending /\ log' = Append(log, Report(mActive.id, outcome, failedAt))
        /\ stack' = <<ClientFrame>> \o (<<GrantFrame>> \o b)
    BY <1>6 DEF Ends
  <2>3. log' \in Seq(LogRecords)
    <3>1. Report(mActive.id, outcome, failedAt) \in LogRecords
      BY <1>2, <1>6, ReportType DEF Outcome
    <3> QED
      BY <1>4, <2>2, <3>1
  <2>4. NoCallOnTop'
    <3>1. <<GrantFrame>> \o b \in Seq(DeepFrames)
      BY <1>4, FrameTypes
    <3>2. Head(stack') = ClientFrame
      BY <2>2, <3>1
    <3> QED
      BY <3>2, FrameTypes DEF NoCallOnTop
  <2>5. CallsOK'
    BY <2>4, CallsFree
  <2>6. ReadCallsOK'
    BY <1>4, <2>4, ReadsStay
  <2>7. DataOK'
    BY <1>1, <2>2, <2>3, DataStays
  <2> QED
    BY <2>1, <2>5, <2>6, <2>7 DEF CallInv
<1>7. ASSUME mPending = 0,
             NEW request \in [id: Requests, step: 1..3, removingStaleToken: BOOLEAN],
             request.id = mActive.id,
             request.step <= Len(SequenceFor(intents[request.id])),
             request.removingStaleToken => intents[request.id].shape = "Full" /\ request.step = 2,
             Continues(request, b)
      PROVE  CallInv'
  <2>1. TurnInv'
    BY <1>1, <1>7, TurnContinues
  <2>2. /\ mPending' = mPending /\ log' = log /\ mActive' = request
        /\ stack' = <<PerformFrame(CurrentOp(request))>> \o b
    BY <1>7 DEF Continues
  <2>3. CurrentOp(request) \in Operation /\ CurrentOp(mActive)' = CurrentOp(request)
        /\ mActive' # NoRequest
    <3>1. CurrentOp(request) \in Operation
      BY <1>2, <1>3, <1>7 DEF CurrentOp, Operation
    <3>2. CurrentOp(mActive)' = CurrentOp(request)
      BY <2>2 DEF CurrentOp
    <3>3. mActive'.id # 0
      BY <1>2, <1>7, <2>2
    <3> QED
      BY <3>1, <3>2, <3>3 DEF NoRequest
  <2>4. Head(stack') = PerformFrame(CurrentOp(mActive)')
    BY <1>4, <2>2, <2>3
  <2>5. CallsOK'
    BY <2>3, <2>4, CallsFree
  <2>6. ReadCallsOK'
    BY <1>4, <2>3, <2>4, ReadsStay
  <2>7. DataOK'
    BY <1>1, <1>4, <2>2, DataStays
  <2> QED
    BY <2>1, <2>5, <2>6, <2>7 DEF CallInv
<1>8. CASE mPending = 0 /\ ~mActive.removingStaleToken /\ CurrentOp(mActive) = "WriteToken"
           /\ Continues(Staled, b)
  <2>1. mActive \in [id: Requests, step: 1..3, removingStaleToken: BOOLEAN]
    BY <1>1 DEF ActiveOK
  <2>2. \A flag \in BOOLEAN :
          [mActive EXCEPT !.removingStaleToken = flag]
              = [id |-> mActive.id, step |-> mActive.step, removingStaleToken |-> flag]
    BY <2>1
  <2>3. Staled = [id |-> mActive.id, step |-> mActive.step, removingStaleToken |-> TRUE]
    BY <2>2 DEF Staled
  <2>4. PICK request : request = Staled
    OBVIOUS
  <2>5. request \in [id: Requests, step: 1..3, removingStaleToken: BOOLEAN]
        /\ request.id = mActive.id /\ request.step = mActive.step
    BY <1>2, <2>3, <2>4
  <2> QED
    BY <1>2, <1>3, <1>7, <1>8, <2>4, <2>5
<1>9. CASE mPending = 0 /\ ~mActive.removingStaleToken
           /\ mActive.step < Len(SequenceFor(intents[mActive.id])) /\ Continues(Stepped, b)
  <2>1. mActive \in [id: Requests, step: Nat, removingStaleToken: BOOLEAN]
    BY <1>1 DEF ActiveOK
  <2>2. Stepped = [id |-> mActive.id, step |-> mActive.step + 1,
                   removingStaleToken |-> mActive.removingStaleToken]
    BY <2>1 DEF Stepped
  <2>3. PICK request : request = Stepped
    OBVIOUS
  <2>4. mActive.step + 1 \in 1..3
    <3>1. \A i \in 1..3, n \in {2, 3} : i < n => i + 1 \in 1..3
      OBVIOUS
    <3> QED
      BY <1>2, <1>3, <1>9, <3>1
  <2>5. request \in [id: Requests, step: 1..3, removingStaleToken: BOOLEAN]
        /\ request.id = mActive.id /\ request.step = mActive.step + 1
        /\ request.removingStaleToken = mActive.removingStaleToken
    BY <1>2, <2>2, <2>3, <2>4
  <2> QED
    BY <1>2, <1>3, <1>7, <1>9, <2>3, <2>5
<1> QED
  <2>1. "WriteToken" \in Operation /\ "WriteMetadata" \in Operation
    BY DEF Operation
  <2> QED
    BY <1>1, <1>2, <1>5, <1>6, <1>8, <1>9, <2>1, OnStepDoneIs

-----------------------------------------------------------------------------
(* Jobs that ended, and jobs given up on.                                  *)

LEMMA IdleAwaits == CallsOK /\ mActive = NoRequest => NoneAwaited
  BY DEF CallsOK, NoneAwaited

LEMMA EndedFacts ==
  ASSUME JobsOK, jobs # <<>>, jobs' = Tail(jobs), keychain' = keychain, intents' = intents
  PROVE  /\ JobsOK'
         /\ Head(jobs) = jobs[1] /\ 1 \in DOMAIN jobs /\ jobs[1] \in Jobs
         /\ \A j \in DOMAIN jobs' : j + 1 \in DOMAIN jobs /\ jobs'[j] = jobs[j + 1] /\ j + 1 # 1
         /\ Len(jobs') = Len(jobs) - 1 /\ Len(jobs) \in Nat
         /\ DOMAIN jobs' \subseteq Int
<1>1. jobs \in Seq(Jobs)
  BY DEF JobsOK
<1>2. /\ jobs' \in Seq(Jobs) /\ Head(jobs) = jobs[1] /\ 1 \in DOMAIN jobs /\ jobs[1] \in Jobs
      /\ \A j \in DOMAIN jobs' : j + 1 \in DOMAIN jobs /\ jobs'[j] = jobs[j + 1]
      /\ Len(jobs') = Len(jobs) - 1 /\ Len(jobs) \in Nat
  BY <1>1, Pop
<1>3. \A j \in DOMAIN jobs' : j \in Int /\ j + 1 # 1
  BY <1>2
<1>4. Requests' = Requests /\ keychain
  BY DEF Requests, JobsOK
<1>5. JobsOK'
  BY <1>2, <1>4 DEF JobsOK
<1> QED
  BY <1>2, <1>3, <1>5

LEMMA GivenUpFacts ==
  ASSUME JobsOK, NEW j \in DOMAIN jobs, jobs' = GiveUp(j), keychain' = keychain, intents' = intents
  PROVE  /\ JobsOK'
         /\ DOMAIN jobs' = DOMAIN jobs /\ DOMAIN jobs \subseteq Int
         /\ \A i \in DOMAIN jobs : i # j => jobs'[i] = jobs[i]
         /\ ~jobs'[j].awaited /\ jobs'[j].kind = jobs[j].kind /\ jobs'[j].arg = jobs[j].arg
         /\ Len(jobs') = Len(jobs)
<1>1. jobs \in Seq(Jobs) /\ DOMAIN jobs = 1..Len(jobs) /\ Len(jobs) \in Nat /\ jobs[j] \in Jobs
  BY DEF JobsOK
<1>2. \A job \in Jobs, flag \in BOOLEAN :
         /\ [job EXCEPT !.awaited = flag] \in Jobs
         /\ [job EXCEPT !.awaited = flag].kind = job.kind
         /\ [job EXCEPT !.awaited = flag].arg = job.arg
         /\ [job EXCEPT !.awaited = flag].awaited = flag
  BY DEF Jobs
<1>3. PICK given : given = [jobs[j] EXCEPT !.awaited = FALSE]
  OBVIOUS
<1>4. given \in Jobs /\ given.kind = jobs[j].kind /\ given.arg = jobs[j].arg /\ ~given.awaited
  BY <1>1, <1>2, <1>3
<1>5. jobs' = [jobs EXCEPT ![j] = given]
  BY <1>3 DEF GiveUp
<1>6. /\ jobs' \in Seq(Jobs) /\ DOMAIN jobs' = DOMAIN jobs /\ jobs'[j] = given
      /\ \A i \in DOMAIN jobs : i # j => jobs'[i] = jobs[i]
      /\ Len(jobs') = Len(jobs)
  BY <1>1, <1>4, <1>5
<1>7. Requests' = Requests /\ keychain
  BY <1>1 DEF Requests, JobsOK
<1>8. JobsOK'
  BY <1>4, <1>6, <1>7 DEF JobsOK
<1> QED
  BY <1>1, <1>4, <1>6, <1>8

\* The jobs of reads that are left, by the place each had.
LEMMA ReadJobsLeft ==
  ASSUME ReadJobsOK, NEW d \in {0, 1}, jobs' \in Seq(Jobs),
         \A j \in DOMAIN jobs' :
            jobs'[j].awaited => j + d \in DOMAIN jobs /\ jobs[j + d] = jobs'[j],
         \A j \in DOMAIN jobs' :
            jobs'[j].awaited /\ jobs'[j].kind = "Read" /\ jobs'[j].arg \in DOMAIN reads
               => jobs'[j].arg \in DOMAIN reads' /\ reads'[jobs'[j].arg].at = reads[jobs'[j].arg].at
  PROVE  ReadJobsOK'
<1>1. DOMAIN jobs' \subseteq Int
  OBVIOUS
<1>2. ASSUME NEW j \in DOMAIN jobs', jobs'[j].awaited, jobs'[j].kind = "Read"
      PROVE  jobs'[j].arg \in DOMAIN reads' /\ reads'[jobs'[j].arg].at = "reading"
  <2>1. j + d \in DOMAIN jobs /\ jobs[j + d] = jobs'[j]
    BY <1>2
  <2>2. jobs'[j].arg \in DOMAIN reads /\ reads[jobs'[j].arg].at = "reading"
    BY <1>2, <2>1 DEF ReadJobsOK
  <2> QED
    BY <1>2, <2>2
<1>3. ASSUME NEW i \in DOMAIN jobs', NEW j \in DOMAIN jobs',
             jobs'[i].awaited, jobs'[i].kind = "Read", jobs'[j].awaited, jobs'[j].kind = "Read",
             jobs'[i].arg = jobs'[j].arg
      PROVE  i = j
  <2>1. i + d = j + d
    BY <1>3 DEF ReadJobsOK
  <2> QED
    BY <1>1, <2>1
<1> QED
  BY <1>2, <1>3 DEF ReadJobsOK

-----------------------------------------------------------------------------
(* The calls are in order after each action.                               *)

LEMMA EndReadKeeps ==
  ASSUME CallInv, NEW r \in Readers, NEW b, BelowOK(b, 0), EndRead(r, b),
         intents' = intents, mWaitingReads' = mWaitingReads, JobsOK', NoneAwaited', StoreTyped',
         (DOMAIN reads' = DOMAIN reads /\ \A i \in DOMAIN reads : i # r => reads'[i] = reads[i])
            => ReadJobsOK'
  PROVE  CallInv'
<1>1. /\ DataOK /\ TurnInv /\ TurnsOK /\ mActive = NoRequest /\ mActive.id = 0
      /\ ReadCallsOK /\ log \in Seq(LogRecords) /\ b \in Seq(DeepFrames)
  BY DEF CallInv, TurnInv, TurnsOK, NoRequest, DataOK, BelowOK
<1>2. /\ reads \in Seq(ReadRecords) /\ DOMAIN reads = 1..Len(reads) /\ r \in DOMAIN reads
      /\ reads[r].at \in {"granted", "reading"} /\ Len(reads) \in Nat
  BY <1>1 DEF DataOK, Readers
<1>3. Ended \in ReadRecords /\ Ended.at = "done"
  <2>1. NoMetadata \in Metadata /\ 0 \in 0..Len(intents)
    BY <1>1, BasicFacts DEF NoMetadata, Metadata
  <2> QED
    BY <2>1 DEF Ended, ReadRecords
<1>4. /\ reads' \in Seq(ReadRecords) /\ DOMAIN reads' = DOMAIN reads /\ reads'[r] = Ended
      /\ \A i \in DOMAIN reads : i # r => reads'[i] = reads[i]
  <2>1. reads' = [reads EXCEPT ![r] = Ended]
    BY DEF EndRead
  <2> HIDE DEF Ended
  <2> QED
    BY <1>2, <1>3, <2>1
<1>5. Readers' = Readers \ {r}
  BY <1>3, <1>4 DEF Readers
<1>6. /\ mReaders = 1 => \E s : Readers = {s}
      /\ \A s : Readers = {s} => mReaders = 1
  BY <1>1, BasicFacts, ReadersFacts
<1>7. ReadJobsOK'
  BY <1>4
<1>8. ASSUME log' = log, mPending' \in {0, mPending} PROVE DataOK'
  <2>1. LogRecords' = LogRecords /\ ReadRecords' = ReadRecords /\ Len(intents) \in Nat
    BY <1>1, BasicFacts DEF LogRecords, ReadRecords, Requests, Metadata
  <2> QED
    BY <1>1, <1>4, <1>8, <2>1 DEF DataOK
<1>9. ASSUME \A s \in Nat : stack' = <<>> \/ Head(stack') # ReadFrame(s) PROVE ReadCallsOK'
  <2>1. \A i \in DOMAIN mWaitingReads :
           mWaitingReads[i] \in DOMAIN reads' /\ reads'[mWaitingReads[i]].at = "waiting"
    BY <1>1, <1>2, <1>4 DEF ReadCallsOK
  <2> QED
    BY <1>1, <1>7, <1>9, <2>1 DEF ReadCallsOK
<1>10. CASE mReaders = 1 /\ mPending # 0 /\ Start(<<ClientFrame>> \o b)
  <2>1. Readers' = {}
    BY <1>5, <1>6, <1>10
  <2>2. Starts(<<ClientFrame>> \o b)
    BY <1>1, <1>10, StartIs
  <2>3. BelowOK(<<ClientFrame>> \o b, mActive.id)
    BY <1>1, BelowPush
  <2>4. /\ TurnInv' /\ CallsOK' /\ mPending' = 0 /\ log' = log
        /\ \E op \in Operation : Head(stack') = PerformFrame(op)
    BY <1>1, <1>10, <2>1, <2>2, <2>3, StartCalls
  <2>5. DataOK' /\ ReadCallsOK'
    BY <1>8, <1>9, <2>4, TopWillBe
  <2> QED
    BY <2>4, <2>5 DEF CallInv
<1>11. CASE /\ mReaders # 1 \/ mPending = 0
            /\ stack' = <<ClientFrame>> \o b
            /\ UNCHANGED <<mActive, mPending, log>>
  <2>1. mPending # 0 => Readers' # {}
    BY <1>5, <1>6, <1>11
  <2>2. ClientFrame \in AnyFrames /\ ClientFrame # SetIntentFrame
        /\ \A id \in Nat : ClientFrame # ReportFrame(id)
    BY FrameTypes, FrameFacts
  <2>3. TurnInv'
    BY <1>1, <1>11, <2>1, <2>2, TurnPushes
  <2>4. NoCallOnTop'
    <3>1. Head(stack') = ClientFrame
      BY <1>1, <1>11
    <3> QED
      BY <3>1, FrameTypes DEF NoCallOnTop
  <2>5. CallsOK'
    BY <2>4, CallsFree
  <2>6. \A s \in Nat : stack' = <<>> \/ Head(stack') # ReadFrame(s)
    BY <2>4, TopWillBe DEF NoCallOnTop
  <2> QED
    BY <1>8, <1>9, <1>11, <2>3, <2>5, <2>6 DEF CallInv
<1> QED
  BY <1>1, <1>10, <1>11 DEF EndRead

LEMMA SetIntentKeeps ==
  ASSUME CallInv, NEW intent \in Intent, SetIntent(intent)
  PROVE  CallInv'
<1>1. DataOK /\ TurnInv /\ CallsOK /\ ReadCallsOK /\ log \in Seq(LogRecords) /\ StoreTyped
  BY DEF CallInv, DataOK
<1>2. /\ intents' \in Seq(Intent)
      /\ Len(intents) \in Nat /\ Len(intents') = Len(intents) + 1
      /\ \A id \in Requests : intents'[id] = intents[id]
      /\ Requests' = Requests \cup {Len(intents) + 1}
      /\ mPending' = Len(intents')
  BY <1>1, Asked
<1>3. /\ UNCHANGED <<mActive, reads, mWaitingReads, inlineRecord, meta, token, fileToken, twoPlaces, jobs,
                     keychain, closes>>
      /\ \/ /\ mPending # 0
            /\ log' = Append(log, Report(mPending, "Superseded", "WriteMetadata"))
         \/ mPending = 0 /\ log' = log
  BY DEF SetIntent, Finish, readVars, storeVars
<1>4. TurnInv'
  BY <1>1, TurnAsks
<1>5. 0..Len(intents) \subseteq 0..Len(intents') /\ Metadata \subseteq Metadata'
  BY <1>2 DEF Metadata
<1>6. ReadRecords \subseteq ReadRecords' /\ LogRecords \subseteq LogRecords'
  BY <1>2, <1>5 DEF ReadRecords, LogRecords
<1>7. reads \in Seq(ReadRecords')
  <2>1. reads \in Seq(ReadRecords) /\ \A r \in DOMAIN reads : reads[r] \in ReadRecords
    BY <1>1, BasicFacts DEF DataOK
  <2> QED
    BY <1>6, <2>1, Retype
<1>8. log' \in Seq(LogRecords')
  <2>1. log' \in Seq(LogRecords)
    <3>1. CASE mPending # 0
      <4>1. Report(mPending, "Superseded", "WriteMetadata") \in LogRecords
        BY <1>1, <3>1, BasicFacts, ReportType DEF Outcome, Operation
      <4> QED
        BY <1>1, <1>3, <3>1, <4>1
    <3>2. CASE mPending = 0
      BY <1>1, <1>3, <3>2
    <3> QED
      BY <3>1, <3>2
  <2>2. \A k \in DOMAIN log' : log'[k] \in LogRecords
    BY <2>1
  <2> QED
    BY <1>6, <2>1, <2>2, Retype
<1>9. DataOK'
  <2>1. mPending' \in 0..Len(intents')
    BY <1>2
  <2>2. StoreTyped'
    BY <1>1, <1>3, <1>5 DEF StoreTyped
  <2> QED
    BY <1>1, <1>2, <1>3, <1>7, <1>8, <2>1, <2>2 DEF DataOK
<1>10. NoCallOnTop'
  BY <1>1, StackAsks, FrameTypes DEF NoCallOnTop
<1>11. CallsOK'
  <2>1. mActive # NoRequest => /\ CurrentOp(mActive)' = CurrentOp(mActive)
                               /\ MetadataPayload(mActive)' = MetadataPayload(mActive)
    <3>1. SUFFICES ASSUME mActive # NoRequest
                   PROVE  /\ CurrentOp(mActive)' = CurrentOp(mActive)
                          /\ MetadataPayload(mActive)' = MetadataPayload(mActive)
      OBVIOUS
    <3>2. intents'[mActive.id] = intents[mActive.id] /\ mActive' = mActive
      BY <1>1, <1>2, <1>3, <3>1, CurrentOpIs DEF TurnInv
    <3> QED
      BY <3>2 DEF CurrentOp, MetadataPayload
  <2> QED
    BY <1>1, <1>2, <1>3, <1>10, <2>1, CallsStay
<1>12. ReadCallsOK'
  <2>1. ReadJobsOK'
    BY <1>1, <1>3 DEF ReadCallsOK, ReadJobsOK
  <2> QED
    BY <1>1, <1>3, <1>10, <2>1, ReadsStay
<1> QED
  BY <1>4, <1>9, <1>11, <1>12 DEF CallInv

\* A function returns; no more happens.
LEMMA PopKeeps ==
  ASSUME CallInv, stack # <<>>, stack' = Tail(stack),
         \A id \in Nat : Head(stack) # ReportFrame(id),
         Head(stack) = SetIntentFrame => Blocked,
         UNCHANGED <<intents, mActive, mPending, log, reads, mWaitingReads, storeVars,
                     keychain, closes>>
  PROVE  CallInv'
<1>1. DataOK /\ TurnInv /\ CallsOK /\ ReadCallsOK /\ log \in Seq(LogRecords) /\ StoreTyped
  BY DEF CallInv, DataOK
<1>2. Readers' = Readers /\ Requests' = Requests
  BY DEF Readers, Requests
<1>3. TurnInv'
  BY <1>1, <1>2, TurnPop
<1>4. NoCallOnTop'
  BY <1>1, TopAfterPop DEF TurnInv
<1>5. StoreTyped'
  BY <1>1 DEF StoreTyped, storeVars, Metadata
<1>6. DataOK'
  BY <1>1, <1>5, DataStays
<1>7. CallsOK'
  <2>1. mActive # NoRequest => /\ CurrentOp(mActive)' = CurrentOp(mActive)
                               /\ MetadataPayload(mActive)' = MetadataPayload(mActive)
    BY DEF CurrentOp, MetadataPayload
  <2> QED
    BY <1>1, <1>2, <1>4, <2>1, CallsStay DEF storeVars
<1>8. ReadCallsOK'
  <2>1. ReadJobsOK'
    BY <1>1 DEF ReadCallsOK, ReadJobsOK, storeVars
  <2> QED
    BY <1>1, <1>4, <2>1, ReadsStay
<1> QED
  BY <1>3, <1>6, <1>7, <1>8 DEF CallInv

LEMMA ClientReturnsKeeps ==
  ASSUME CallInv, ClientReturns
  PROVE  CallInv'
<1>1. /\ stack # <<>> /\ Head(stack) = ClientFrame /\ stack' = Tail(stack)
      /\ UNCHANGED <<intents, mActive, mPending, log, reads, mWaitingReads, storeVars,
                     keychain, closes>>
  BY DEF ClientReturns, InClient, readVars
<1> QED
  BY <1>1, PopKeeps, FrameFacts

LEMMA SetIntentReturnsKeeps ==
  ASSUME CallInv, SetIntentReturns
  PROVE  CallInv'
<1>1. /\ DataOK /\ TurnInv /\ CallsOK /\ ReadCallsOK /\ StackOK
      /\ log \in Seq(LogRecords) /\ StoreTyped
  BY DEF CallInv, DataOK, TurnInv
<1>2. /\ stack # <<>> /\ Head(stack) = SetIntentFrame
      /\ UNCHANGED <<intents, reads, mWaitingReads, storeVars, keychain, closes>>
  BY DEF SetIntentReturns, readVars
<1>3. mReaders = 0 <=> Readers = {}
  BY <1>1, BasicFacts, ReadersFacts
<1>4. CASE mActive = NoRequest /\ mReaders = 0 /\ Start(Tail(stack))
  <2>1. mPending # 0
    <3>1. stack[1] = SetIntentFrame /\ 1 \in DOMAIN stack
      BY <1>1, <1>2, Pop DEF StackOK
    <3> QED
      BY <1>1, <3>1 DEF StackOK
  <2>2. BelowOK(Tail(stack), 0) /\ mActive.id = 0
    <3>1. ~Blocked /\ mActive.id = 0
      BY <1>3, <1>4 DEF Blocked, NoRequest
    <3>2. \A id \in Nat : Head(stack) # ReportFrame(id)
      BY <1>2, FrameFacts
    <3> QED
      BY <1>1, <1>2, <3>1, <3>2, BelowOfCall
  <2>3. Starts(Tail(stack))
    BY <1>1, <1>4, <2>1, StartIs
  <2>4. JobsOK' /\ NoneAwaited' /\ ReadJobsOK' /\ StoreTyped' /\ Readers' = {}
    <3>1. NoneAwaited
      BY <1>1, <1>4, IdleAwaits
    <3> QED
      BY <1>1, <1>2, <1>3, <1>4, <3>1
      DEF JobsOK, CallsOK, NoneAwaited, ReadJobsOK, ReadCallsOK, StoreTyped, storeVars, Requests,
          Readers, Metadata
  <2>5. /\ TurnInv' /\ CallsOK' /\ mPending' = 0 /\ log' = log
        /\ \E op \in Operation : Head(stack') = PerformFrame(op)
    BY <1>1, <1>2, <2>1, <2>2, <2>3, <2>4, StartCalls
  <2>6. ReadCallsOK'
    BY <1>1, <1>2, <2>4, <2>5, ReadsStay
  <2>7. DataOK'
    BY <1>1, <1>2, <2>4, <2>5, DataStays
  <2> QED
    BY <2>5, <2>6, <2>7 DEF CallInv
<1>5. CASE /\ mActive # NoRequest \/ mReaders # 0
           /\ stack' = Tail(stack) /\ UNCHANGED <<mActive, mPending, log>>
  <2>1. Blocked
    BY <1>3, <1>5 DEF Blocked
  <2>2. \A id \in Nat : Head(stack) # ReportFrame(id)
    BY <1>2, FrameFacts
  <2> QED
    BY <1>2, <1>5, <2>1, <2>2, PopKeeps
<1> QED
  BY <1>4, <1>5 DEF SetIntentReturns

LEMMA ReportAbandonedKeeps ==
  ASSUME CallInv, ReportAbandoned
  PROVE  CallInv'
<1>1. DataOK /\ TurnInv /\ CallsOK /\ ReadCallsOK /\ log \in Seq(LogRecords) /\ StoreTyped
  BY DEF CallInv, DataOK
<1>2. UNCHANGED <<intents, mActive, mPending, reads, mWaitingReads, storeVars, keychain, closes>>
  BY DEF ReportAbandoned, readVars
<1>3. /\ TurnInv'
      /\ \E id \in Requests : log' = Append(log, Report(id, "Superseded", "WriteMetadata"))
      /\ stack' # <<>> /\ Head(stack') = ClientFrame
  BY <1>1, TurnReports
<1>4. NoCallOnTop'
  BY <1>3, FrameTypes DEF NoCallOnTop
<1>5. log' \in Seq(LogRecords)
  <2>1. PICK id \in Requests : log' = Append(log, Report(id, "Superseded", "WriteMetadata"))
    BY <1>3
  <2>2. Report(id, "Superseded", "WriteMetadata") \in LogRecords
    BY ReportType DEF Outcome, Operation
  <2> QED
    BY <1>1, <2>1, <2>2
<1>6. StoreTyped'
  BY <1>1, <1>2 DEF StoreTyped, storeVars, Metadata
<1>7. DataOK'
  BY <1>1, <1>2, <1>5, <1>6, DataStays
<1>8. CallsOK'
  <2>1. mActive # NoRequest => /\ CurrentOp(mActive)' = CurrentOp(mActive)
                               /\ MetadataPayload(mActive)' = MetadataPayload(mActive)
    BY <1>2 DEF CurrentOp, MetadataPayload
  <2>2. Requests' = Requests
    BY <1>2 DEF Requests
  <2> QED
    BY <1>1, <1>2, <1>4, <2>1, <2>2, CallsStay DEF storeVars
<1>9. ReadCallsOK'
  <2>1. ReadJobsOK'
    BY <1>1, <1>2 DEF ReadCallsOK, ReadJobsOK, storeVars
  <2> QED
    BY <1>1, <1>2, <1>4, <2>1, ReadsStay
<1> QED
  BY <1>3, <1>7, <1>8, <1>9 DEF CallInv

LEMMA ReadTypes ==
  ASSUME DataOK
  PROVE  /\ Granted \in ReadRecords /\ Waiting \in ReadRecords /\ Ended \in ReadRecords
         /\ Granted.at = "granted" /\ Waiting.at = "waiting" /\ Ended.at = "done"
         /\ NoMetadata \in Metadata
<1>1. NoMetadata \in Metadata /\ 0 \in 0..Len(intents) /\ Len(intents) \in 0..Len(intents)
  BY BasicFacts DEF NoMetadata, Metadata
<1> QED
  BY <1>1 DEF Granted, Waiting, Ended, ReadRecords

\* A read more, granted or waiting.
LEMMA ReadAppended ==
  ASSUME DataOK, NEW read \in ReadRecords, reads' = Append(reads, read)
  PROVE  /\ reads' \in Seq(ReadRecords) /\ Len(reads) \in Nat
         /\ DOMAIN reads' = 1..(Len(reads) + 1)
         /\ DOMAIN reads = 1..Len(reads)
         /\ Len(reads) + 1 \in DOMAIN reads' /\ Len(reads) + 1 \notin DOMAIN reads
         /\ reads'[Len(reads) + 1] = read
         /\ DOMAIN reads \subseteq DOMAIN reads'
         /\ \A r \in DOMAIN reads : reads'[r] = reads[r]
         /\ \A r \in DOMAIN reads' : r \in DOMAIN reads \/ r = Len(reads) + 1
<1>1. reads \in Seq(ReadRecords)
  BY DEF DataOK
<1>2. /\ reads' \in Seq(ReadRecords) /\ Len(reads) \in Nat
      /\ DOMAIN reads' = 1..(Len(reads) + 1)
      /\ DOMAIN reads = 1..Len(reads)
      /\ reads'[Len(reads) + 1] = read
      /\ \A r \in DOMAIN reads : reads'[r] = reads[r]
  BY <1>1
<1> QED
  BY <1>2

LEMMA TurnSame ==
  ASSUME TurnInv, Readers' = Readers, UNCHANGED <<intents, mActive, mPending, log, stack>>
  PROVE  TurnInv'
<1>1. Blocked' = Blocked /\ Requests' = Requests
  BY DEF Blocked, Requests
<1>2. StackOK'
  BY <1>1 DEF TurnInv, StackOK
<1>3. ActiveOK' /\ TurnsOK'
  BY <1>1 DEF TurnInv, ActiveOK, TurnsOK
<1>4. PlacesOK'
  BY <1>1 DEF TurnInv, PlacesOK, Reported, Abandoned
<1> QED
  BY <1>2, <1>3, <1>4 DEF TurnInv

LEMMA WhenReadableKeeps ==
  ASSUME CallInv, WhenReadable
  PROVE  CallInv'
<1>1. /\ DataOK /\ TurnInv /\ CallsOK /\ ReadCallsOK /\ StoreTyped
      /\ log \in Seq(LogRecords) /\ mWaitingReads \in Seq(DOMAIN reads)
      /\ ReadJobsOK /\ jobs \in Seq(Jobs) /\ JobsOK
  BY DEF CallInv, DataOK, ReadCallsOK, CallsOK, JobsOK
<1>2. UNCHANGED <<intents, mActive, mPending, log, storeVars, keychain, closes>>
  BY DEF WhenReadable
<1>3. stack = <<>> \/ (stack # <<>> /\ Head(stack) = ClientFrame)
  BY DEF WhenReadable, ClientMayCall, InEventLoop, InClient
<1>4. PICK read \in ReadRecords :
        /\ reads' = Append(reads, read)
        /\ \/ /\ read = Waiting /\ stack' = stack
              /\ mWaitingReads' = Append(mWaitingReads, Len(reads) + 1)
           \/ /\ read = Granted /\ mActive = NoRequest /\ mPending = 0
              /\ stack' = <<ReadFrame(Len(reads) + 1)>> \o stack
              /\ mWaitingReads' = mWaitingReads
  BY <1>1, ReadTypes DEF WhenReadable
<1>5. /\ reads' \in Seq(ReadRecords) /\ Len(reads) \in Nat
      /\ Len(reads) + 1 \in DOMAIN reads' /\ Len(reads) + 1 \notin DOMAIN reads
      /\ reads'[Len(reads) + 1] = read
      /\ DOMAIN reads \subseteq DOMAIN reads'
      /\ \A r \in DOMAIN reads : reads'[r] = reads[r]
      /\ \A r \in DOMAIN reads' : r \in DOMAIN reads \/ r = Len(reads) + 1
  BY <1>1, <1>4, ReadAppended
<1>6. mWaitingReads \in Seq(DOMAIN reads')
  <2>1. \A i \in DOMAIN mWaitingReads : mWaitingReads[i] \in DOMAIN reads'
    BY <1>1, <1>5
  <2> QED
    BY <1>1, <2>1, Retype
<1>7. ReadJobsOK'
  BY <1>1, <1>2, <1>5 DEF ReadJobsOK, storeVars
<1>8. ASSUME mWaitingReads' \in Seq(DOMAIN reads') PROVE DataOK'
  <2>1. LogRecords' = LogRecords /\ ReadRecords' = ReadRecords
    BY <1>2 DEF LogRecords, ReadRecords, Requests, Metadata
  <2>2. StoreTyped'
    BY <1>1, <1>2 DEF StoreTyped, storeVars, Metadata
  <2> QED
    BY <1>1, <1>2, <1>5, <1>8, <2>1, <2>2 DEF DataOK
<1>9. JobsOK' /\ Requests' = Requests
  BY <1>1, <1>2 DEF JobsOK, Requests, storeVars
<1>10. CASE /\ read = Waiting /\ stack' = stack
            /\ mWaitingReads' = Append(mWaitingReads, Len(reads) + 1)
  <2>1. Readers' = Readers
    BY <1>1, <1>5, <1>10, ReadTypes DEF Readers
  <2>2. TurnInv'
    BY <1>1, <1>2, <1>10, <2>1, TurnSame
  <2>3. NoCallOnTop'
    BY <1>3, <1>10, FrameTypes DEF NoCallOnTop
  <2>4. CallsOK'
    <3>1. mActive # NoRequest => /\ CurrentOp(mActive)' = CurrentOp(mActive)
                                 /\ MetadataPayload(mActive)' = MetadataPayload(mActive)
      BY <1>2 DEF CurrentOp, MetadataPayload
    <3> QED
      BY <1>1, <1>2, <1>9, <2>3, <3>1, CallsStay DEF storeVars
  <2>5. /\ mWaitingReads' \in Seq(DOMAIN reads')
        /\ DOMAIN mWaitingReads' = 1..(Len(mWaitingReads) + 1)
        /\ DOMAIN mWaitingReads = 1..Len(mWaitingReads) /\ Len(mWaitingReads) \in Nat
        /\ mWaitingReads'[Len(mWaitingReads) + 1] = Len(reads) + 1
        /\ \A i \in DOMAIN mWaitingReads : mWaitingReads'[i] = mWaitingReads[i]
    BY <1>5, <1>6, <1>10
  <2>6. DataOK'
    BY <1>8, <2>5
  <2>7. \A i \in DOMAIN mWaitingReads' : i \in DOMAIN mWaitingReads \/ i = Len(mWaitingReads) + 1
    BY <2>5
  <2>8. ReadCallsOK'
    <3>1. ASSUME NEW r \in Nat, stack' # <<>>, Head(stack') = ReadFrame(r) PROVE FALSE
      BY <2>3, <3>1, TopWillBe DEF NoCallOnTop
    <3>2. ASSUME NEW i \in DOMAIN mWaitingReads'
          PROVE  /\ mWaitingReads'[i] \in DOMAIN reads'
                 /\ reads'[mWaitingReads'[i]].at = "waiting"
      BY <1>1, <1>5, <1>10, <2>5, <2>7, ReadTypes DEF ReadCallsOK
    <3>3. \A i \in DOMAIN mWaitingReads : mWaitingReads[i] # Len(reads) + 1
      BY <1>1, <1>5 DEF ReadCallsOK
    <3>4. ASSUME NEW i \in DOMAIN mWaitingReads', NEW j \in DOMAIN mWaitingReads',
                 mWaitingReads'[i] = mWaitingReads'[j]
          PROVE  i = j
      BY <1>1, <2>5, <2>7, <3>3, <3>4 DEF ReadCallsOK
    <3> QED
      BY <1>7, <3>1, <3>2, <3>4 DEF ReadCallsOK
  <2> QED
    BY <2>2, <2>4, <2>6, <2>8 DEF CallInv
<1>11. CASE /\ read = Granted /\ mActive = NoRequest /\ mPending = 0
            /\ stack' = <<ReadFrame(Len(reads) + 1)>> \o stack
            /\ mWaitingReads' = mWaitingReads
  <2>1. BelowOK(stack, 0)
    BY <1>1, <1>3, <1>11, BelowOfRead
  <2>2. /\ ReadFrame(Len(reads) + 1) \in AnyFrames
        /\ ReadFrame(Len(reads) + 1) # SetIntentFrame
        /\ \A id \in Nat : ReadFrame(Len(reads) + 1) # ReportFrame(id)
    BY <1>5, FrameTypes, FrameFacts
  <2>3. TurnInv'
    BY <1>1, <1>2, <1>11, <2>1, <2>2, TurnPushes
  <2>4. Head(stack') = ReadFrame(Len(reads) + 1)
    BY <1>11, <2>1 DEF BelowOK
  <2>5. CallsOK'
    <3>1. NoneAwaited
      BY <1>1, <1>11, IdleAwaits
    <3>2. NoneAwaited'
      BY <1>2, <3>1 DEF NoneAwaited, storeVars
    <3> QED
      BY <1>5, <1>9, <2>4, <3>2, CallsFree
  <2>6. DataOK'
    BY <1>6, <1>8, <1>11
  <2>7. ReadCallsOK'
    <3>1. ASSUME NEW r \in Nat, stack' # <<>>, Head(stack') = ReadFrame(r)
          PROVE  r \in DOMAIN reads' /\ reads'[r].at = "granted"
      <4>1. r = Len(reads) + 1
        BY <1>5, <2>4, <3>1, FrameFacts
      <4> QED
        BY <1>1, <1>5, <1>11, <4>1, ReadTypes
    <3>2. \A i \in DOMAIN mWaitingReads' : /\ mWaitingReads'[i] \in DOMAIN reads'
                                           /\ reads'[mWaitingReads'[i]].at = "waiting"
      BY <1>1, <1>5, <1>11 DEF ReadCallsOK
    <3> QED
      BY <1>1, <1>7, <1>11, <3>1, <3>2 DEF ReadCallsOK
  <2> QED
    BY <2>3, <2>5, <2>6, <2>7 DEF CallInv
<1> QED
  BY <1>4, <1>10, <1>11

LEMMA GrantKeeps ==
  ASSUME CallInv, GrantWaitingReads
  PROVE  CallInv'
<1>1. /\ DataOK /\ TurnInv /\ CallsOK /\ ReadCallsOK /\ StoreTyped
      /\ log \in Seq(LogRecords) /\ mWaitingReads \in Seq(DOMAIN reads)
      /\ ReadJobsOK /\ jobs \in Seq(Jobs) /\ JobsOK /\ reads \in Seq(ReadRecords)
  BY DEF CallInv, DataOK, ReadCallsOK, CallsOK, JobsOK
<1>2. /\ UNCHANGED <<intents, mActive, mPending, log, storeVars, keychain, closes>>
      /\ stack # <<>> /\ Head(stack) = GrantFrame
  BY DEF GrantWaitingReads
<1>3. CASE stack' = Tail(stack) /\ UNCHANGED readVars
  <2>1. \A id \in Nat : Head(stack) # ReportFrame(id)
    BY <1>2, FrameFacts
  <2>2. Head(stack) # SetIntentFrame
    BY <1>2, FrameFacts
  <2> QED
    BY <1>2, <1>3, <2>1, <2>2, PopKeeps DEF readVars
<1>4. CASE /\ mActive = NoRequest /\ mPending = 0 /\ mWaitingReads # <<>>
           /\ reads' = [reads EXCEPT ![Head(mWaitingReads)] = Granted]
           /\ mWaitingReads' = Tail(mWaitingReads)
           /\ stack' = <<ReadFrame(Head(mWaitingReads))>> \o stack
  <2>1. PICK h \in DOMAIN reads : h = Head(mWaitingReads)
    BY <1>1, <1>4
  <2>2. /\ h = mWaitingReads[1] /\ 1 \in DOMAIN mWaitingReads
        /\ mWaitingReads' \in Seq(DOMAIN reads)
        /\ \A i \in DOMAIN mWaitingReads' :
             i + 1 \in DOMAIN mWaitingReads /\ mWaitingReads'[i] = mWaitingReads[i + 1]
        /\ DOMAIN mWaitingReads' = 1..Len(mWaitingReads') /\ Len(mWaitingReads') \in Nat
    BY <1>1, <1>4, <2>1, Pop
  <2>3. reads[h].at = "waiting" /\ h \in Nat
    BY <1>1, <2>2 DEF ReadCallsOK
  <2>4. Granted \in ReadRecords /\ Granted.at = "granted"
    BY <1>1, ReadTypes
  <2>5. /\ reads' \in Seq(ReadRecords) /\ DOMAIN reads' = DOMAIN reads /\ reads'[h] = Granted
        /\ \A r \in DOMAIN reads : r # h => reads'[r] = reads[r]
    <3>1. PICK g \in ReadRecords : g = Granted
      BY <2>4
    <3>2. reads' = [reads EXCEPT ![h] = g]
      BY <1>4, <2>1, <3>1
    <3>3. reads \in Seq(ReadRecords)
      BY <1>1
    <3> QED
      BY <3>1, <3>2, <3>3
  <2>6. BelowOK(stack, 0)
    BY <1>1, <1>2, <1>4, BelowOfRead
  <2>7. /\ ReadFrame(h) \in AnyFrames /\ ReadFrame(h) # SetIntentFrame
        /\ \A id \in Nat : ReadFrame(h) # ReportFrame(id)
    BY <2>3, FrameTypes, FrameFacts
  <2>8. stack' = <<ReadFrame(h)>> \o stack /\ Head(stack') = ReadFrame(h)
    BY <1>4, <2>1, <2>6 DEF BelowOK
  <2>9. TurnInv'
    BY <1>1, <1>2, <1>4, <2>6, <2>7, <2>8, TurnPushes
  <2>10. JobsOK' /\ Requests' = Requests
    BY <1>1, <1>2 DEF JobsOK, Requests, storeVars
  <2>11. CallsOK'
    <3>1. NoneAwaited
      BY <1>1, <1>4, IdleAwaits
    <3>2. NoneAwaited'
      BY <1>2, <3>1 DEF NoneAwaited, storeVars
    <3> QED
      BY <2>3, <2>8, <2>10, <3>2, CallsFree
  <2>12. DataOK'
    <3>1. LogRecords' = LogRecords /\ ReadRecords' = ReadRecords
      BY <1>2 DEF LogRecords, ReadRecords, Requests, Metadata
    <3>2. StoreTyped'
      BY <1>1, <1>2 DEF StoreTyped, storeVars, Metadata
    <3> QED
      BY <1>1, <1>2, <2>2, <2>5, <3>1, <3>2 DEF DataOK
  <2>13. ReadCallsOK'
    <3>1. ASSUME NEW r \in Nat, stack' # <<>>, Head(stack') = ReadFrame(r)
          PROVE  r \in DOMAIN reads' /\ reads'[r].at = "granted"
      <4>1. r = h
        BY <2>3, <2>8, <3>1, FrameFacts
      <4> QED
        BY <2>4, <2>5, <4>1
    <3>2. ASSUME NEW i \in DOMAIN mWaitingReads'
          PROVE  /\ mWaitingReads'[i] \in DOMAIN reads'
                 /\ reads'[mWaitingReads'[i]].at = "waiting"
      <4>1. mWaitingReads[i + 1] # h
        <5>1. i + 1 # 1 /\ i + 1 \in DOMAIN mWaitingReads
          BY <2>2
        <5> QED
          BY <1>1, <2>2, <5>1 DEF ReadCallsOK
      <4> QED
        BY <1>1, <2>2, <2>5, <4>1 DEF ReadCallsOK
    <3>3. ASSUME NEW i \in DOMAIN mWaitingReads', NEW j \in DOMAIN mWaitingReads',
                 mWaitingReads'[i] = mWaitingReads'[j]
          PROVE  i = j
      <4>1. i + 1 = j + 1
        BY <1>1, <2>2, <3>3 DEF ReadCallsOK
      <4> QED
        BY <2>2, <4>1
    <3>4. ReadJobsOK'
      <4>1. \A r \in DOMAIN reads : reads[r].at = "reading" => reads'[r] = reads[r]
        BY <2>3, <2>5
      <4> QED
        BY <1>1, <1>2, <2>5, <4>1 DEF ReadJobsOK, storeVars
    <3> QED
      BY <3>1, <3>2, <3>3, <3>4 DEF ReadCallsOK
  <2> QED
    BY <2>9, <2>11, <2>12, <2>13 DEF CallInv
<1> QED
  BY <1>3, <1>4 DEF GrantWaitingReads

\* What the performer knows when it is called.
LEMMA PerformFacts ==
  ASSUME CallInv, NEW op \in Operation, Performing(op)
  PROVE  /\ mActive # NoRequest /\ op = CurrentOp(mActive) /\ NoneAwaited
         /\ BelowOK(Tail(stack), 0)
         /\ stack # <<>> /\ Head(stack) \notin DeepFrames
<1>1. stack # <<>> /\ Head(stack) = PerformFrame(op) /\ CallsOK /\ StackOK
  BY DEF Performing, CallInv, TurnInv
<1>2. mActive # NoRequest /\ op = CurrentOp(mActive) /\ NoneAwaited
  BY <1>1 DEF CallsOK
<1>3. Head(stack) \notin DeepFrames
  BY <1>1, FrameTypes
<1>4. /\ \A id \in Nat : Head(stack) # ReportFrame(id)
      /\ Head(stack) \notin {ClientFrame, SetIntentFrame}
  BY <1>3, FrameTypes
<1>5. BelowOK(Tail(stack), 0)
  BY <1>1, <1>4, BelowOfCall
<1> QED
  BY <1>1, <1>2, <1>3, <1>5

\* The file answers before the call returns.
LEMMA AnsweredAtOnce ==
  ASSUME CallInv, NEW op \in Operation, Performing(op), NEW ok \in BOOLEAN,
         OnStepDone(mActive.id, op, ok, Tail(stack)),
         UNCHANGED <<intents, reads, mWaitingReads, jobs, keychain>>, StoreTyped'
  PROVE  CallInv'
<1>1. /\ mActive # NoRequest /\ op = CurrentOp(mActive) /\ NoneAwaited
      /\ BelowOK(Tail(stack), 0)
  BY PerformFacts
<1>2. JobsOK' /\ NoneAwaited' /\ ReadJobsOK'
  BY <1>1 DEF CallInv, CallsOK, JobsOK, NoneAwaited, ReadCallsOK, ReadJobsOK, Requests
<1> QED
  BY <1>1, <1>2, StepDoneKeeps

\* A job for the keychain.
LEMMA JobAppended ==
  ASSUME JobsOK, keychain, NEW job \in Jobs, jobs' = Append(jobs, job),
         job.kind = "WriteToken" => job.arg \in Requests,
         intents' = intents, keychain' = keychain
  PROVE  /\ JobsOK' /\ Len(jobs) \in Nat /\ Len(jobs') = Len(jobs) + 1
         /\ DOMAIN jobs = 1..Len(jobs)
         /\ jobs'[Len(jobs) + 1] = job /\ Len(jobs) + 1 \in DOMAIN jobs'
         /\ \A j \in DOMAIN jobs : j \in DOMAIN jobs' /\ jobs'[j] = jobs[j]
         /\ \A j \in DOMAIN jobs' : j = Len(jobs) + 1 \/ (j \in DOMAIN jobs /\ jobs'[j] = jobs[j])
<1>1. jobs \in Seq(Jobs)
  BY DEF JobsOK
<1>2. /\ jobs' \in Seq(Jobs) /\ Len(jobs) \in Nat /\ Len(jobs') = Len(jobs) + 1
      /\ DOMAIN jobs' = 1..(Len(jobs) + 1) /\ DOMAIN jobs = 1..Len(jobs)
      /\ jobs'[Len(jobs) + 1] = job
      /\ \A j \in DOMAIN jobs : jobs'[j] = jobs[j]
  BY <1>1
<1>3. /\ Len(jobs) + 1 \in DOMAIN jobs'
      /\ \A j \in DOMAIN jobs : j \in DOMAIN jobs'
      /\ \A j \in DOMAIN jobs' : j = Len(jobs) + 1 \/ j \in DOMAIN jobs
  BY <1>2
<1>4. Requests' = Requests
  BY DEF Requests
<1>5. JobsOK'
  BY <1>2, <1>3, <1>4 DEF JobsOK
<1> QED
  BY <1>2, <1>3, <1>5

LEMMA NewJobType ==
  ASSUME NEW kind \in Operation \cup {"Read"}, NEW arg \in Nat
  PROVE  /\ NewJob(kind, arg) \in Jobs /\ NewJob(kind, arg).kind = kind
         /\ NewJob(kind, arg).arg = arg /\ NewJob(kind, arg).awaited
  BY DEF NewJob, Jobs

LEMMA AskedKeychain ==
  ASSUME CallInv, NEW op \in Operation, Performing(op), keychain,
         jobs' = Append(jobs, NewJob(op, mActive.id)), stack' = Tail(stack),
         UNCHANGED <<mActive, mPending, log, intents, reads, mWaitingReads, keychain>>,
         StoreTyped',
         op = "WriteMetadata" => meta' = MetadataPayload(mActive),
         op = "RemoveMetadata" => meta' = NoMetadata
  PROVE  CallInv'
<1>1. /\ mActive # NoRequest /\ op = CurrentOp(mActive) /\ NoneAwaited
      /\ stack # <<>> /\ Head(stack) \notin DeepFrames
  BY PerformFacts
<1>2. /\ DataOK /\ TurnInv /\ CallsOK /\ ReadCallsOK /\ log \in Seq(LogRecords) /\ JobsOK
      /\ ReadJobsOK /\ StackOK
  BY DEF CallInv, DataOK, CallsOK, ReadCallsOK, TurnInv
<1>3. mActive.id \in Requests /\ mActive.id \in Nat
  BY <1>1, <1>2, CurrentOpIs DEF TurnInv
<1>4. PICK job \in Jobs : job = NewJob(op, mActive.id)
  BY <1>3, NewJobType
<1>5. job.kind = op /\ job.arg = mActive.id /\ job.awaited /\ job.kind # "Read"
  BY <1>3, <1>4, NewJobType DEF Operation
<1>6. /\ JobsOK' /\ Len(jobs) \in Nat /\ Len(jobs') = Len(jobs) + 1
      /\ jobs'[Len(jobs) + 1] = job
      /\ \A j \in DOMAIN jobs' : j = Len(jobs) + 1 \/ (j \in DOMAIN jobs /\ jobs'[j] = jobs[j])
  BY <1>2, <1>3, <1>4, <1>5, JobAppended
<1>7. \A j \in DOMAIN jobs' : jobs'[j].awaited /\ jobs'[j].kind # "Read" => j = Len(jobs) + 1
  BY <1>1, <1>6 DEF NoneAwaited
<1>8. TurnInv'
  <2>1. /\ \A id \in Nat : Head(stack) # ReportFrame(id)
        /\ Head(stack) # SetIntentFrame /\ Readers' = Readers
    BY <1>1, FrameTypes DEF Readers
  <2> QED
    BY <1>1, <1>2, <2>1, TurnPop
<1>9. NoCallOnTop'
  BY <1>1, <1>2, TopAfterPop
<1>10. CallsOK'
  <2>1. ASSUME NEW p \in Operation, stack' # <<>>, Head(stack') = PerformFrame(p) PROVE FALSE
    BY <1>9, <2>1, TopWillBe DEF NoCallOnTop
  <2>2. CurrentOp(mActive)' = op /\ MetadataPayload(mActive)' = MetadataPayload(mActive)
    BY <1>1 DEF CurrentOp, MetadataPayload
  <2>3. ASSUME NEW j \in DOMAIN jobs', jobs'[j].awaited, jobs'[j].kind # "Read"
        PROVE  /\ j = Len(jobs')
               /\ mActive' # NoRequest /\ jobs'[j].arg = mActive'.id /\ jobs'[j].kind = CurrentOp(mActive)'
               /\ jobs'[j].kind = "WriteMetadata" => meta' = MetadataPayload(mActive)'
               /\ jobs'[j].kind = "RemoveMetadata" => meta' = NoMetadata
    BY <1>1, <1>5, <1>6, <1>7, <2>2, <2>3
  <2> QED
    BY <1>6, <2>1, <2>3 DEF CallsOK
<1>11. ReadJobsOK'
  <2>1. \A j \in DOMAIN jobs' : jobs'[j].awaited /\ jobs'[j].kind = "Read" =>
           j \in DOMAIN jobs /\ jobs'[j] = jobs[j]
    BY <1>5, <1>6
  <2> QED
    BY <1>2, <2>1 DEF ReadJobsOK
<1>12. ReadCallsOK'
  BY <1>2, <1>9, <1>11, ReadsStay
<1>13. DataOK'
  BY <1>2, DataStays
<1> QED
  BY <1>8, <1>10, <1>12, <1>13 DEF CallInv

LEMMA AskCredentialStoreKeeps ==
  ASSUME CallInv, NEW op \in Operation, Performing(op), AskCredentialStore(op),
         UNCHANGED <<intents, reads, mWaitingReads, keychain, closes>>, meta' \in Metadata,
         op = "WriteMetadata" => meta' = MetadataPayload(mActive),
         op = "RemoveMetadata" => meta' = NoMetadata
  PROVE  CallInv'
<1>1. mActive # NoRequest /\ mActive.id \in 0..Len(intents)
  <2>1. mActive # NoRequest /\ mActive.id \in Requests /\ Len(intents) \in Nat
    BY PerformFacts, CurrentOpIs, BasicFacts DEF CallInv, TurnInv
  <2> QED
    BY <2>1 DEF Requests
<1>2. token \in 0..Len(intents) /\ fileToken \in 0..Len(intents) /\ 0 \in 0..Len(intents)
      /\ inlineRecord \in BOOLEAN /\ keychain \in BOOLEAN /\ closes \in 0..MaxCloses
      /\ twoPlaces \in BOOLEAN /\ twoPlaces' = twoPlaces
  BY BasicFacts DEF CallInv, DataOK, StoreTyped, AskCredentialStore
<1>3. TokenAfter(op, mActive.id) \in 0..Len(intents)
  BY <1>1, <1>2 DEF TokenAfter
<1>4. ASSUME token' \in 0..Len(intents), inlineRecord' \in BOOLEAN PROVE StoreTyped'
  <2>1. fileToken' = fileToken
    BY DEF AskCredentialStore
  <2>2. twoPlaces' \in BOOLEAN
    BY <1>2, Zenon
  <2> QED
    BY <1>2, <1>4, <2>1, <2>2 DEF StoreTyped, Metadata
<1>5. CASE /\ keychain
           /\ jobs' = Append(jobs, NewJob(op, mActive.id))
           /\ stack' = Tail(stack)
           /\ UNCHANGED <<mActive, mPending, log, token, inlineRecord>>
  <2>1. StoreTyped'
    BY <1>2, <1>4, <1>5
  <2> QED
    BY <1>5, <2>1, AskedKeychain
<1>6. ASSUME NEW ok \in BOOLEAN,
             token' = IF ok THEN TokenAfter(op, mActive.id) ELSE token,
             inlineRecord' = (inlineRecord /\ ~(ok /\ op \in {"WriteMetadata", "RemoveMetadata"})),
             OnStepDone(mActive.id, op, ok, Tail(stack)),
             UNCHANGED jobs
      PROVE  CallInv'
  <2>1. token' \in 0..Len(intents)
    BY <1>2, <1>3, <1>6
  <2>2. inlineRecord' \in BOOLEAN
    BY <1>6
  <2>3. StoreTyped'
    BY <1>4, <2>1, <2>2
  <2> QED
    BY <1>6, <2>3, AnsweredAtOnce
<1> QED
  BY <1>5, <1>6 DEF AskCredentialStore

LEMMA PayloadType ==
  ASSUME CallInv, mActive # NoRequest
  PROVE  MetadataPayload(mActive) \in Metadata
<1>1. /\ mActive.id \in Requests /\ mActive.step \in 1..3 /\ intents[mActive.id] \in Intent
      /\ Len(intents) \in Nat
  BY CurrentOpIs, BasicFacts DEF CallInv, TurnInv
<1>2. mActive.id \in 0..Len(intents)
  BY <1>1 DEF Requests
<1>3. intents[mActive.id].secureOnly \in BOOLEAN
  BY <1>1, SequenceFacts
<1> QED
  BY <1>2, <1>3 DEF MetadataPayload, Metadata

LEMMA PerformKeeps ==
  ASSUME CallInv, PerformWriteMetadata \/ PerformRemoveMetadata \/ PerformOnToken
  PROVE  CallInv'
<1>1. StoreTyped /\ DataOK
  BY DEF CallInv, DataOK
<1>2. NoMetadata \in Metadata /\ FALSE \in BOOLEAN /\ TRUE \in BOOLEAN
      /\ {"WriteMetadata", "RemoveMetadata", "WriteToken", "RemoveToken"} = Operation
  BY <1>1, ReadTypes DEF Operation
<1>3. CASE PerformWriteMetadata
  <2>1. /\ Performing("WriteMetadata")
        /\ UNCHANGED <<intents, reads, mWaitingReads, keychain, closes>>
    BY <1>3 DEF PerformWriteMetadata, readVars
  <2>2. MetadataPayload(mActive) \in Metadata
    BY <1>2, <2>1, PerformFacts, PayloadType
  <2>3. CASE /\ UNCHANGED storeVars
             /\ OnStepDone(mActive.id, "WriteMetadata", FALSE, Tail(stack))
    <3>1. StoreTyped' /\ jobs' = jobs
      BY <1>1, <2>1, <2>3 DEF StoreTyped, storeVars, Metadata
    <3> QED
      BY <1>2, <2>1, <2>3, <3>1, AnsweredAtOnce
  <2>4. CASE /\ meta' = MetadataPayload(mActive)
             /\ OnStepDone(mActive.id, "WriteMetadata", TRUE, Tail(stack))
             /\ UNCHANGED <<inlineRecord, token, fileToken, twoPlaces, jobs>>
    <3>1. StoreTyped' /\ jobs' = jobs
      BY <1>1, <2>1, <2>2, <2>4 DEF StoreTyped, Metadata
    <3> QED
      BY <1>2, <2>1, <2>4, <3>1, AnsweredAtOnce
  <2>5. CASE meta' = MetadataPayload(mActive) /\ AskCredentialStore("WriteMetadata")
    BY <1>2, <2>1, <2>2, <2>5, AskCredentialStoreKeeps
  <2> QED
    BY <1>3, <2>3, <2>4, <2>5 DEF PerformWriteMetadata
<1>4. CASE PerformRemoveMetadata
  <2>1. /\ Performing("RemoveMetadata")
        /\ UNCHANGED <<intents, reads, mWaitingReads, keychain, closes>>
    BY <1>4 DEF PerformRemoveMetadata, readVars
  <2>3. CASE /\ UNCHANGED storeVars
             /\ OnStepDone(mActive.id, "RemoveMetadata", FALSE, Tail(stack))
    <3>1. StoreTyped' /\ jobs' = jobs
      BY <1>1, <2>1, <2>3 DEF StoreTyped, storeVars, Metadata
    <3> QED
      BY <1>2, <2>1, <2>3, <3>1, AnsweredAtOnce
  <2>5. CASE meta' = NoMetadata /\ AskCredentialStore("RemoveMetadata")
    BY <1>2, <2>1, <2>5, AskCredentialStoreKeeps
  <2> QED
    BY <1>4, <2>3, <2>5 DEF PerformRemoveMetadata
<1>5. CASE PerformOnToken
  <2>1. PICK op \in {"WriteToken", "RemoveToken"} : Performing(op) /\ AskCredentialStore(op)
    BY <1>5 DEF PerformOnToken
  <2>2. UNCHANGED <<intents, reads, mWaitingReads, meta, keychain, closes>> /\ meta \in Metadata
    BY <1>1, <1>5 DEF PerformOnToken, readVars, StoreTyped
  <2>3. op \in Operation /\ op # "WriteMetadata" /\ op # "RemoveMetadata"
    BY <1>2, <2>1
  <2> QED
    BY <2>1, <2>2, <2>3, AskCredentialStoreKeeps
<1> QED
  BY <1>3, <1>4, <1>5

LEMMA BeingRead ==
  ASSUME NEW old \in ReadRecords, meta \in Metadata,
         NEW read, read = [old EXCEPT !.at = "reading", !.meta = meta]
  PROVE  /\ read \in ReadRecords /\ read.at = "reading"
         /\ read.lastRequestId = old.lastRequestId /\ read.meta = meta
<1>1. read \in ReadRecords
  BY DEF ReadRecords
<1>2. read.at = "reading"
  BY DEF ReadRecords
<1>3. read.lastRequestId = old.lastRequestId
  BY DEF ReadRecords
<1>4. read.meta = meta
  BY DEF ReadRecords
<1> QED
  BY <1>1, <1>2, <1>3, <1>4

LEMMA ReadEntryKeeps ==
  ASSUME CallInv, ReadEntry
  PROVE  CallInv'
<1>1. /\ DataOK /\ TurnInv /\ CallsOK /\ ReadCallsOK /\ StoreTyped /\ StackOK
      /\ log \in Seq(LogRecords) /\ mWaitingReads \in Seq(DOMAIN reads)
      /\ ReadJobsOK /\ jobs \in Seq(Jobs) /\ JobsOK /\ reads \in Seq(ReadRecords) /\ TurnsOK
  BY DEF CallInv, DataOK, ReadCallsOK, CallsOK, JobsOK, TurnInv
<1>2. /\ UNCHANGED <<intents, mWaitingReads, inlineRecord, meta, token, fileToken, twoPlaces, keychain,
                     closes>>
      /\ stack # <<>> /\ Head(stack)[1] = "read"
  BY DEF ReadEntry
<1>3. PICK r \in Nat : Head(stack) = ReadFrame(r)
  <2>1. Head(stack) \in AnyFrames
    BY <1>1, <1>2, Pop DEF StackOK
  <2>2. Head(stack) # ClientFrame /\ Head(stack) # SetIntentFrame /\ Head(stack) # GrantFrame
    BY <1>2, FrameFacts
  <2>3. \A op \in Operation : Head(stack) # PerformFrame(op)
    BY <1>2, FrameFacts
  <2>4. \A id \in Nat : Head(stack) # ReportFrame(id)
    BY <1>2, FrameFacts
  <2> QED
    BY <2>1, <2>2, <2>3, <2>4 DEF AnyFrames, DeepFrames
<1>4. r = Head(stack)[2] /\ Head(stack) \notin DeepFrames
  BY <1>3, FrameFacts, FrameTypes
<1>5. r \in DOMAIN reads /\ reads[r].at = "granted" /\ r \in Readers
  BY <1>1, <1>2, <1>3 DEF ReadCallsOK, Readers
<1>6. mActive = NoRequest /\ NoneAwaited
  BY <1>1, <1>5, IdleAwaits DEF TurnsOK
<1>7. \A id \in Nat : Head(stack) # ReportFrame(id)
  BY <1>4, FrameTypes
<1>8. Head(stack) # SetIntentFrame /\ Head(stack) # ClientFrame
  BY <1>4, FrameTypes
<1>9. StoreTyped'
  BY <1>1, <1>2 DEF StoreTyped, Metadata
<1>10. CASE /\ keychain
            /\ reads' = [reads EXCEPT ![r].at = "reading", ![r].meta = meta]
            /\ jobs' = Append(jobs, NewJob("Read", r))
            /\ stack' = Tail(stack)
            /\ UNCHANGED <<mActive, mPending, log>>
  <2>1. PICK read : read = [reads[r] EXCEPT !.at = "reading", !.meta = meta]
    OBVIOUS
  <2>2. reads[r] \in ReadRecords /\ meta \in Metadata
    BY <1>1, <1>5 DEF StoreTyped
  <2>3. read \in ReadRecords /\ read.at = "reading"
    BY <2>1, <2>2, BeingRead
  <2>4. /\ reads' \in Seq(ReadRecords) /\ DOMAIN reads' = DOMAIN reads
        /\ \A i \in DOMAIN reads : i # r => reads'[i] = reads[i]
        /\ reads'[r] = read
    <3>1. reads' = [reads EXCEPT ![r] = read]
      BY <1>5, <1>10, <2>1
    <3> QED
      BY <1>1, <1>5, <2>3, <3>1
  <2>5. PICK job \in Jobs : job = NewJob("Read", r)
    BY NewJobType
  <2>6. job.kind = "Read" /\ job.arg = r /\ job.awaited
    BY <2>5, NewJobType
  <2>7. /\ JobsOK' /\ Len(jobs) \in Nat /\ Len(jobs') = Len(jobs) + 1
        /\ jobs'[Len(jobs) + 1] = job
        /\ \A j \in DOMAIN jobs' : j = Len(jobs) + 1 \/ (j \in DOMAIN jobs /\ jobs'[j] = jobs[j])
    BY <1>1, <1>2, <1>10, <2>5, <2>6, JobAppended
  <2>8. Readers' = Readers
    BY <1>5, <2>3, <2>4 DEF Readers
  <2>9. TurnInv'
    BY <1>1, <1>2, <1>7, <1>8, <1>10, <2>8, TurnPop
  <2>10. NoCallOnTop'
    BY <1>1, <1>2, <1>10, TopAfterPop
  <2>11. CallsOK'
    <3>1. NoneAwaited'
      BY <1>6, <2>6, <2>7 DEF NoneAwaited
    <3> QED
      BY <2>7, <2>10, <3>1, CallsFree
  <2>12. DataOK'
    <3>1. LogRecords' = LogRecords /\ ReadRecords' = ReadRecords
      BY <1>2 DEF LogRecords, ReadRecords, Requests, Metadata
    <3> QED
      BY <1>1, <1>2, <1>9, <1>10, <2>4, <3>1 DEF DataOK
  <2>13. \A j \in DOMAIN jobs : jobs[j].awaited /\ jobs[j].kind = "Read" => jobs[j].arg # r
    BY <1>1, <1>5 DEF ReadJobsOK
  <2>14. ReadJobsOK'
    <3>1. ASSUME NEW j \in DOMAIN jobs', jobs'[j].awaited, jobs'[j].kind = "Read"
          PROVE  jobs'[j].arg \in DOMAIN reads' /\ reads'[jobs'[j].arg].at = "reading"
      <4>1. CASE j = Len(jobs) + 1
        BY <1>5, <2>3, <2>4, <2>6, <2>7, <4>1
      <4>2. CASE j # Len(jobs) + 1
        <5>1. j \in DOMAIN jobs /\ jobs'[j] = jobs[j]
          BY <2>7, <4>2
        <5> QED
          BY <1>1, <2>4, <2>13, <3>1, <5>1 DEF ReadJobsOK
      <4> QED
        BY <4>1, <4>2
    <3>2. ASSUME NEW i \in DOMAIN jobs', NEW j \in DOMAIN jobs',
                 jobs'[i].awaited, jobs'[i].kind = "Read", jobs'[j].awaited, jobs'[j].kind = "Read",
                 jobs'[i].arg = jobs'[j].arg
          PROVE  i = j
      <4>1. i \in DOMAIN jobs => jobs'[i] = jobs[i] /\ jobs'[i].arg # r
        BY <1>1, <2>7, <2>13, <3>2
      <4>2. j \in DOMAIN jobs => jobs'[j] = jobs[j] /\ jobs'[j].arg # r
        BY <1>1, <2>7, <2>13, <3>2
      <4>3. CASE i = Len(jobs) + 1 \/ j = Len(jobs) + 1
        BY <2>6, <2>7, <3>2, <4>1, <4>2, <4>3
      <4>4. CASE i \in DOMAIN jobs /\ j \in DOMAIN jobs
        BY <1>1, <3>2, <4>1, <4>2, <4>4 DEF ReadJobsOK
      <4> QED
        BY <2>7, <4>3, <4>4
    <3> QED
      BY <3>1, <3>2 DEF ReadJobsOK
  <2>15. ReadCallsOK'
    <3>1. ASSUME NEW s \in Nat, stack' # <<>>, Head(stack') = ReadFrame(s) PROVE FALSE
      BY <2>10, <3>1, TopWillBe DEF NoCallOnTop
    <3>2. \A i \in DOMAIN mWaitingReads' : /\ mWaitingReads'[i] \in DOMAIN reads'
                                           /\ reads'[mWaitingReads'[i]].at = "waiting"
      BY <1>1, <1>2, <1>5, <2>4 DEF ReadCallsOK
    <3> QED
      BY <1>1, <1>2, <2>14, <3>1, <3>2 DEF ReadCallsOK
  <2> QED
    BY <2>9, <2>11, <2>12, <2>15 DEF CallInv
<1>11. CASE ~keychain /\ EndRead(r, Tail(stack)) /\ UNCHANGED jobs
  <2>1. BelowOK(Tail(stack), 0)
    BY <1>1, <1>2, <1>7, <1>8, BelowOfCall
  <2>2. jobs = <<>> /\ DOMAIN jobs' = {}
    BY <1>1, <1>11 DEF JobsOK
  <2>3. ReadJobsOK'
    BY <2>2 DEF ReadJobsOK
  <2>4. JobsOK' /\ NoneAwaited'
    BY <1>1, <1>2, <1>11, <2>2 DEF JobsOK, NoneAwaited
  <2> QED
    BY <1>2, <1>5, <1>9, <1>11, <2>1, <2>3, <2>4, EndReadKeeps
<1> QED
  BY <1>4, <1>10, <1>11 DEF ReadEntry

LEMMA JobEndsKeeps ==
  ASSUME CallInv, JobEnds
  PROVE  CallInv'
<1>1. /\ DataOK /\ TurnInv /\ CallsOK /\ ReadCallsOK /\ StoreTyped /\ StackOK
      /\ log \in Seq(LogRecords) /\ ReadJobsOK /\ JobsOK /\ TurnsOK
  BY DEF CallInv, DataOK, ReadCallsOK, CallsOK, TurnInv
<1>2. /\ UNCHANGED <<intents, mWaitingReads, meta, keychain, closes>>
      /\ stack = <<>> /\ jobs # <<>> /\ jobs' = Tail(jobs)
  BY DEF JobEnds, InEventLoop
<1>3. /\ JobsOK'
      /\ Head(jobs) = jobs[1] /\ 1 \in DOMAIN jobs /\ jobs[1] \in Jobs
      /\ \A j \in DOMAIN jobs' : j + 1 \in DOMAIN jobs /\ jobs'[j] = jobs[j + 1] /\ j + 1 # 1
      /\ Len(jobs') = Len(jobs) - 1 /\ Len(jobs) \in Nat
      /\ DOMAIN jobs' \subseteq Int
  BY <1>1, <1>2, EndedFacts
<1>4. PICK job : job = Head(jobs)
  OBVIOUS
<1>5. job = jobs[1] /\ job \in Jobs
  BY <1>3, <1>4
<1>6. PICK done \in BOOLEAN, fileDone \in BOOLEAN :
        /\ token' = IF done THEN TokenAfter(job.kind, job.arg) ELSE token
        /\ fileToken' = IF job.awaited /\ fileDone THEN FileTokenAfter(job, done) ELSE fileToken
        /\ inlineRecord' \in BOOLEAN
        /\ \/ /\ ~job.awaited
              /\ UNCHANGED <<requestVars, reads>>
           \/ /\ job.awaited /\ job.kind = "Read"
              /\ EndRead(job.arg, <<>>)
           \/ /\ job.awaited /\ job.kind # "Read"
              /\ OnStepDone(job.arg, job.kind, Answer(job, done, fileDone), <<>>)
              /\ UNCHANGED reads
  <2>1. PICK done \in BOOLEAN, fileDone \in BOOLEAN :
        /\ token' = IF done THEN TokenAfter(job.kind, job.arg) ELSE token
        /\ fileToken' = IF job.awaited /\ fileDone THEN FileTokenAfter(job, done) ELSE fileToken
        /\ inlineRecord' = (inlineRecord
             /\ ~(/\ job.awaited /\ job.kind \in {"WriteMetadata", "RemoveMetadata"}
                  /\ Answer(job, done, fileDone)))
        /\ \/ /\ ~job.awaited
              /\ UNCHANGED <<requestVars, reads>>
           \/ /\ job.awaited /\ job.kind = "Read"
              /\ EndRead(job.arg, <<>>)
           \/ /\ job.awaited /\ job.kind # "Read"
              /\ OnStepDone(job.arg, job.kind, Answer(job, done, fileDone), <<>>)
              /\ UNCHANGED reads
    BY <1>4 DEF JobEnds
  <2>2. inlineRecord' \in BOOLEAN
    BY <2>1
  <2> QED
    BY <2>1, <2>2
<1>7. StoreTyped'
  <2>1. /\ token \in 0..Len(intents) /\ fileToken \in 0..Len(intents) /\ 0 \in 0..Len(intents)
        /\ job.kind = "WriteToken" => job.arg \in 0..Len(intents)
    <3>1. Len(intents) \in Nat
      BY <1>1, BasicFacts
    <3>2. job.kind = "WriteToken" => job.arg \in 1..Len(intents)
      BY <1>1, <1>3, <1>5 DEF JobsOK, Requests
    <3> QED
      BY <1>1, <3>1, <3>2 DEF StoreTyped
  <2>2. token' \in 0..Len(intents)
    BY <1>6, <2>1 DEF TokenAfter
  <2>3. fileToken' \in 0..Len(intents)
    BY <1>6, <2>1 DEF FileTokenAfter
  <2>4. twoPlaces' \in BOOLEAN
    <3>1. PICK both \in BOOLEAN : both = (token' # 0 /\ fileToken' # 0)
      OBVIOUS
    <3>2. twoPlaces' = (twoPlaces \/ both)
      BY <3>1 DEF JobEnds
    <3> QED
      BY <3>2, Zenon
  <2> QED
    BY <1>1, <1>2, <1>6, <2>2, <2>3, <2>4 DEF StoreTyped, Metadata
<1>8. BelowOK(<<>>, 0)
  BY <1>1, <1>2, BelowOfCall
<1>9. jobs' \in Seq(Jobs) /\ \A j \in DOMAIN jobs' : jobs'[j].awaited => j + 1 \in DOMAIN jobs /\ jobs[j + 1] = jobs'[j]
  BY <1>3 DEF JobsOK
<1>10. CASE ~job.awaited /\ UNCHANGED <<requestVars, reads>>
  <2>1. UNCHANGED <<mActive, mPending, log, stack, reads>>
    BY <1>10 DEF requestVars
  <2>2. TurnInv' /\ Readers' = Readers
    BY <1>1, <1>2, <2>1, TurnSame DEF Readers
  <2>3. NoCallOnTop'
    BY <1>2, <2>1 DEF NoCallOnTop
  <2>4. CallsOK'
    <3>1. ASSUME NEW op \in Operation, stack' # <<>>, Head(stack') = PerformFrame(op) PROVE FALSE
      BY <2>3, <3>1, TopWillBe DEF NoCallOnTop
    <3>2. CurrentOp(mActive)' = CurrentOp(mActive)
          /\ MetadataPayload(mActive)' = MetadataPayload(mActive)
      BY <1>2, <2>1 DEF CurrentOp, MetadataPayload
    <3>3. ASSUME NEW j \in DOMAIN jobs', jobs'[j].awaited, jobs'[j].kind # "Read"
          PROVE  /\ j = Len(jobs')
                 /\ mActive' # NoRequest /\ jobs'[j].arg = mActive'.id /\ jobs'[j].kind = CurrentOp(mActive)'
                 /\ jobs'[j].kind = "WriteMetadata" => meta' = MetadataPayload(mActive)'
                 /\ jobs'[j].kind = "RemoveMetadata" => meta' = NoMetadata
      <4>1. PICK i \in DOMAIN jobs : i = j + 1 /\ jobs[i] = jobs'[j]
        BY <1>3
      <4>2. /\ i = Len(jobs)
            /\ mActive # NoRequest /\ jobs[i].arg = mActive.id /\ jobs[i].kind = CurrentOp(mActive)
            /\ jobs[i].kind = "WriteMetadata" => meta = MetadataPayload(mActive)
            /\ jobs[i].kind = "RemoveMetadata" => meta = NoMetadata
        BY <1>1, <3>3, <4>1 DEF CallsOK
      <4>3. j = Len(jobs')
        BY <1>3, <4>1, <4>2
      <4> QED
        BY <1>2, <2>1, <3>2, <4>1, <4>2, <4>3
    <3> QED
      BY <1>3, <3>1, <3>3 DEF CallsOK
  <2>5. ReadJobsOK'
    BY <1>1, <1>9, <2>1, ReadJobsLeft
  <2>6. ReadCallsOK'
    BY <1>1, <1>2, <2>1, <2>3, <2>5, ReadsStay
  <2>7. DataOK'
    BY <1>1, <1>2, <1>7, <2>1, DataStays
  <2> QED
    BY <2>2, <2>4, <2>6, <2>7 DEF CallInv
<1>11. CASE job.awaited /\ job.kind = "Read" /\ EndRead(job.arg, <<>>)
  <2>1. job.arg \in DOMAIN reads /\ job.arg \in Readers
    BY <1>1, <1>3, <1>5, <1>11 DEF ReadJobsOK, Readers
  <2>2. NoneAwaited
    BY <1>1, <2>1, IdleAwaits DEF TurnsOK
  <2>3. NoneAwaited'
    BY <1>3, <2>2 DEF NoneAwaited
  <2>4. ASSUME DOMAIN reads' = DOMAIN reads /\ \A i \in DOMAIN reads : i # job.arg => reads'[i] = reads[i]
        PROVE  ReadJobsOK'
    <3>1. ASSUME NEW j \in DOMAIN jobs', jobs'[j].awaited, jobs'[j].kind = "Read"
          PROVE  jobs'[j].arg # job.arg
      BY <1>1, <1>3, <1>5, <1>11, <3>1 DEF ReadJobsOK
    <3>2. \A j \in DOMAIN jobs' :
            jobs'[j].awaited /\ jobs'[j].kind = "Read" /\ jobs'[j].arg \in DOMAIN reads
               => jobs'[j].arg \in DOMAIN reads' /\ reads'[jobs'[j].arg].at = reads[jobs'[j].arg].at
      BY <2>4, <3>1
    <3> QED
      BY <1>1, <1>9, <3>2, ReadJobsLeft
  <2> QED
    BY <1>2, <1>3, <1>7, <1>8, <1>11, <2>1, <2>3, <2>4, EndReadKeeps
<1>12. CASE /\ job.awaited /\ job.kind # "Read"
            /\ OnStepDone(job.arg, job.kind, Answer(job, done, fileDone), <<>>)
            /\ UNCHANGED reads
  <2>1. /\ 1 = Len(jobs) /\ mActive # NoRequest
        /\ job.arg = mActive.id /\ job.kind = CurrentOp(mActive)
    BY <1>1, <1>3, <1>5, <1>12 DEF CallsOK
  <2>2. DOMAIN jobs' = {}
    <3>1. Len(jobs') = 0
      <4>1. Len(jobs) = 1
        BY <2>1
      <4> QED
        BY <1>3, <4>1
    <3>2. DOMAIN jobs' = 1..Len(jobs')
      BY <1>9
    <3> QED
      BY <3>1, <3>2
  <2>3. NoneAwaited' /\ ReadJobsOK'
    BY <2>2 DEF NoneAwaited, ReadJobsOK
  <2>4. Answer(job, done, fileDone) \in BOOLEAN
    BY DEF Answer
  <2>5. PICK ok \in BOOLEAN : ok = Answer(job, done, fileDone)
    BY <2>4
  <2>6. OnStepDone(mActive.id, CurrentOp(mActive), ok, <<>>)
    BY <1>12, <2>1, <2>5
  <2> QED
    BY <1>2, <1>3, <1>7, <1>8, <1>12, <2>1, <2>3, <2>6, StepDoneKeeps
<1> QED
  BY <1>6, <1>10, <1>11, <1>12

LEMMA JobTimesOutKeeps ==
  ASSUME CallInv, JobTimesOut
  PROVE  CallInv'
<1>1. /\ DataOK /\ TurnInv /\ CallsOK /\ ReadCallsOK /\ StoreTyped /\ StackOK
      /\ ReadJobsOK /\ JobsOK /\ TurnsOK /\ jobs \in Seq(Jobs)
  BY DEF CallInv, DataOK, ReadCallsOK, CallsOK, TurnInv, JobsOK
<1>2. /\ UNCHANGED <<intents, mWaitingReads, inlineRecord, meta, token, fileToken, twoPlaces, keychain,
                     closes>>
      /\ stack = <<>>
  BY DEF JobTimesOut, InEventLoop
<1>3. PICK j \in DOMAIN jobs :
        /\ jobs[j].awaited
        /\ jobs' = GiveUp(j)
        /\ \/ /\ jobs[j].kind = "Read"
              /\ EndRead(jobs[j].arg, <<>>)
           \/ /\ jobs[j].kind # "Read"
              /\ OnStepDone(jobs[j].arg, jobs[j].kind, FALSE, <<>>)
              /\ UNCHANGED reads
  BY DEF JobTimesOut
<1>4. /\ JobsOK'
      /\ DOMAIN jobs' = DOMAIN jobs
      /\ \A i \in DOMAIN jobs : i # j => jobs'[i] = jobs[i]
      /\ ~jobs'[j].awaited
  BY <1>1, <1>2, <1>3, GivenUpFacts
<1>5. \A i \in DOMAIN jobs' : jobs'[i].awaited => i \in DOMAIN jobs /\ i # j /\ jobs'[i] = jobs[i]
  BY <1>4
<1>6. StoreTyped'
  BY <1>1, <1>2 DEF StoreTyped, Metadata
<1>7. BelowOK(<<>>, 0)
  BY <1>1, <1>2, BelowOfCall
<1>8. \A i \in DOMAIN jobs' : i + 0 = i
  <2>1. DOMAIN jobs' \subseteq Int
    BY <1>1, <1>4
  <2> QED
    BY <2>1
<1>9. jobs' \in Seq(Jobs) /\ \A i \in DOMAIN jobs' : jobs'[i].awaited => i + 0 \in DOMAIN jobs /\ jobs[i + 0] = jobs'[i]
  BY <1>4, <1>5, <1>8 DEF JobsOK
<1>10. CASE jobs[j].kind = "Read" /\ EndRead(jobs[j].arg, <<>>)
  <2>1. jobs[j].arg \in DOMAIN reads /\ jobs[j].arg \in Readers
    BY <1>1, <1>3, <1>10 DEF ReadJobsOK, Readers
  <2>2. NoneAwaited
    BY <1>1, <2>1, IdleAwaits DEF TurnsOK
  <2>3. NoneAwaited'
    BY <1>5, <2>2 DEF NoneAwaited
  <2>4. ASSUME DOMAIN reads' = DOMAIN reads /\ \A i \in DOMAIN reads : i # jobs[j].arg => reads'[i] = reads[i]
        PROVE  ReadJobsOK'
    <3>1. ASSUME NEW i \in DOMAIN jobs', jobs'[i].awaited, jobs'[i].kind = "Read"
          PROVE  jobs'[i].arg # jobs[j].arg
      BY <1>1, <1>3, <1>5, <1>10, <3>1 DEF ReadJobsOK
    <3>2. \A i \in DOMAIN jobs' :
            jobs'[i].awaited /\ jobs'[i].kind = "Read" /\ jobs'[i].arg \in DOMAIN reads
               => jobs'[i].arg \in DOMAIN reads' /\ reads'[jobs'[i].arg].at = reads[jobs'[i].arg].at
      BY <2>4, <3>1
    <3> QED
      BY <1>1, <1>9, <3>2, ReadJobsLeft
  <2> QED
    BY <1>2, <1>4, <1>6, <1>7, <1>10, <2>1, <2>3, <2>4, EndReadKeeps
<1>11. CASE /\ jobs[j].kind # "Read"
            /\ OnStepDone(jobs[j].arg, jobs[j].kind, FALSE, <<>>)
            /\ UNCHANGED reads
  <2>1. /\ j = Len(jobs) /\ mActive # NoRequest
        /\ jobs[j].arg = mActive.id /\ jobs[j].kind = CurrentOp(mActive)
    BY <1>1, <1>3, <1>11 DEF CallsOK
  <2>2. NoneAwaited'
    <3>1. \A i \in DOMAIN jobs : jobs[i].awaited /\ jobs[i].kind # "Read" => i = j
      BY <1>1, <2>1 DEF CallsOK
    <3> QED
      BY <1>5, <3>1 DEF NoneAwaited
  <2>3. ReadJobsOK'
    <3>1. \A i \in DOMAIN jobs' :
            jobs'[i].awaited /\ jobs'[i].kind = "Read" /\ jobs'[i].arg \in DOMAIN reads
               => jobs'[i].arg \in DOMAIN reads' /\ reads'[jobs'[i].arg].at = reads[jobs'[i].arg].at
      BY <1>11
    <3> QED
      BY <1>1, <1>9, <3>1, ReadJobsLeft
  <2>4. OnStepDone(mActive.id, CurrentOp(mActive), FALSE, <<>>)
    BY <1>11, <2>1
  <2> QED
    BY <1>2, <1>4, <1>6, <1>7, <1>11, <2>1, <2>2, <2>3, <2>4, StepDoneKeeps
<1> QED
  BY <1>3, <1>10, <1>11

LEMMA CloseProfileKeeps ==
  ASSUME CallInv, CloseProfile
  PROVE  CallInv'
<1>1. /\ DataOK /\ TurnInv /\ CallsOK /\ ReadCallsOK /\ StoreTyped /\ JobsOK
      /\ jobs \in Seq(Jobs) /\ DOMAIN jobs = 1..Len(jobs) /\ Len(jobs) \in Nat
      /\ reads \in Seq(ReadRecords)
  BY DEF CallInv, DataOK, CallsOK, JobsOK
<1>2. /\ UNCHANGED <<intents, stack, keychain, meta, token, fileToken, twoPlaces>>
      /\ stack = <<>> /\ mWaitingReads' = <<>> /\ mPending' = 0
      /\ reads' = [r \in DOMAIN reads |-> Ended]
      /\ jobs' \in {<<>>, [j \in DOMAIN jobs |-> [jobs[j] EXCEPT !.awaited = FALSE]]}
      /\ inlineRecord' \in {inlineRecord, FALSE}
      /\ closes < MaxCloses /\ closes' = closes + 1
  BY DEF CloseProfile, InEventLoop
<1>3. TurnInv' /\ log' \in Seq(LogRecords)
  BY <1>1, TurnCloses, ClosingLogs
<1>4. \A job \in Jobs : /\ [job EXCEPT !.awaited = FALSE] \in Jobs
                        /\ [job EXCEPT !.awaited = FALSE].kind = job.kind
                        /\ [job EXCEPT !.awaited = FALSE].arg = job.arg
                        /\ ~[job EXCEPT !.awaited = FALSE].awaited
  <2>1. \A job \in Jobs, flag \in BOOLEAN :
           /\ [job EXCEPT !.awaited = flag] \in Jobs
           /\ [job EXCEPT !.awaited = flag].kind = job.kind
           /\ [job EXCEPT !.awaited = flag].arg = job.arg
           /\ [job EXCEPT !.awaited = flag].awaited = flag
    BY DEF Jobs
  <2> QED
    BY <2>1
<1>5. /\ jobs' \in Seq(Jobs) /\ (jobs = <<>> => jobs' = <<>>)
      /\ \A j \in DOMAIN jobs' : /\ ~jobs'[j].awaited
                                 /\ j \in DOMAIN jobs /\ jobs'[j].kind = jobs[j].kind
                                 /\ jobs'[j].arg = jobs[j].arg
  <2>1. CASE jobs' = <<>>
    BY <2>1
  <2>2. CASE jobs' = [j \in DOMAIN jobs |-> [jobs[j] EXCEPT !.awaited = FALSE]]
    <3>1. \A j \in 1..Len(jobs) : jobs[j] \in Jobs
      BY <1>1
    <3>2. jobs' \in [1..Len(jobs) -> Jobs]
      BY <1>1, <1>4, <2>2, <3>1
    <3>3. jobs' \in Seq(Jobs) /\ DOMAIN jobs' = 1..Len(jobs)
      BY <1>1, <3>2
    <3>4. jobs = <<>> => jobs' = <<>>
      <4>1. jobs = <<>> => Len(jobs) = 0
        OBVIOUS
      <4>2. Len(jobs) = 0 => DOMAIN jobs' = {}
        BY <3>3
      <4> QED
        BY <3>3, <4>1, <4>2
    <3>5. \A j \in DOMAIN jobs' : /\ ~jobs'[j].awaited /\ jobs'[j].kind = jobs[j].kind
                                  /\ jobs'[j].arg = jobs[j].arg
      BY <1>1, <1>4, <2>2, <3>1, <3>3
    <3> QED
      BY <1>1, <3>3, <3>4, <3>5
  <2> QED
    BY <1>2, <2>1, <2>2
<1>6. JobsOK'
  BY <1>1, <1>2, <1>5 DEF JobsOK, Requests
<1>7. CallsOK'
  <2>1. NoneAwaited'
    BY <1>5 DEF NoneAwaited
  <2>2. NoCallOnTop'
    BY <1>2 DEF NoCallOnTop
  <2> QED
    BY <1>6, <2>1, <2>2, CallsFree
<1>8. ReadCallsOK'
  <2>1. ReadJobsOK'
    BY <1>5 DEF ReadJobsOK
  <2>2. DOMAIN mWaitingReads' = {} /\ stack' = <<>>
    BY <1>2
  <2> QED
    BY <2>1, <2>2 DEF ReadCallsOK
<1>9. Len(intents) \in Nat /\ DOMAIN reads = 1..Len(reads) /\ Len(reads) \in Nat
  BY <1>1, BasicFacts
<1>10. reads' \in Seq(ReadRecords)
  <2>1. Ended \in ReadRecords
    BY <1>9 DEF Ended, ReadRecords, NoMetadata, Metadata
  <2>2. reads' \in [1..Len(reads) -> ReadRecords]
    BY <1>2, <1>9, <2>1
  <2> QED
    BY <1>9, <2>2
<1>11. StoreTyped'
  <2>1. inlineRecord' \in BOOLEAN
    BY <1>1, <1>2 DEF StoreTyped
  <2>2. closes' \in 0..MaxCloses
    BY <1>1, <1>2, BoundsAssumption DEF StoreTyped
  <2> QED
    BY <1>1, <1>2, <2>1, <2>2 DEF StoreTyped, Metadata
<1>12. DataOK'
  <2>1. LogRecords' = LogRecords /\ ReadRecords' = ReadRecords
    BY <1>2 DEF LogRecords, ReadRecords, Requests, Metadata
  <2>2. intents' \in Seq(Intent) /\ mPending' \in 0..Len(intents')
    BY <1>1, <1>2, <1>9 DEF DataOK
  <2>3. mWaitingReads' \in Seq(DOMAIN reads')
    BY <1>2
  <2> QED
    BY <1>3, <1>10, <1>11, <2>1, <2>2, <2>3 DEF DataOK
<1> QED
  BY <1>3, <1>7, <1>8, <1>12 DEF CallInv

-----------------------------------------------------------------------------

LEMMA InitCalls ==
  ASSUME Init
  PROVE  CallInv
<1>1. /\ intents = <<>> /\ Len(intents) = 0 /\ mActive = NoRequest /\ mPending = 0
      /\ reads = <<>> /\ DOMAIN reads = {} /\ mWaitingReads = <<>> /\ DOMAIN mWaitingReads = {}
      /\ stack = <<>> /\ DOMAIN stack = {} /\ log = <<>> /\ DOMAIN log = {}
      /\ jobs = <<>> /\ DOMAIN jobs = {}
  BY DEF Init
<1>2. Requests = {} /\ NoRequest.id = 0
  BY <1>1 DEF Requests, NoRequest
<1>3. StoreTyped
  <2>1. 0 \in 0..MaxCloses
    BY BoundsAssumption
  <2>2. /\ twoPlaces = FALSE /\ keychain \in BOOLEAN /\ inlineRecord \in BOOLEAN
        /\ token = 0 /\ fileToken = 0 /\ meta = NoMetadata /\ closes = 0
    BY DEF Init
  <2>3. twoPlaces \in BOOLEAN
    BY <2>2, Zenon
  <2> QED
    BY <1>1, <2>1, <2>2, <2>3 DEF StoreTyped, Metadata, NoMetadata
<1>4. DataOK
  BY <1>1, <1>3 DEF DataOK
<1>5. StackOK /\ ActiveOK
  BY <1>1 DEF StackOK, ActiveOK
<1>6. TurnsOK
  BY <1>1 DEF TurnsOK, Readers
<1>7. PlacesOK
  BY <1>1, <1>2 DEF PlacesOK, Abandoned, Reported
<1>8. CallsOK /\ ReadCallsOK
  BY <1>1 DEF CallsOK, JobsOK, ReadCallsOK, ReadJobsOK
<1> QED
  BY <1>4, <1>5, <1>6, <1>7, <1>8 DEF CallInv, TurnInv

LEMMA StepsCall ==
  ASSUME CallInv, [Next]_vars
  PROVE  CallInv'
<1>1. CASE \E intent \in Intent : SetIntent(intent)
  BY <1>1, SetIntentKeeps
<1>2. CASE WhenReadable
  BY <1>2, WhenReadableKeeps
<1>3. CASE SetIntentReturns
  BY <1>3, SetIntentReturnsKeeps
<1>4. CASE ReportAbandoned
  BY <1>4, ReportAbandonedKeeps
<1>5. CASE ClientReturns
  BY <1>5, ClientReturnsKeeps
<1>6. CASE GrantWaitingReads
  BY <1>6, GrantKeeps
<1>7. CASE PerformWriteMetadata \/ PerformRemoveMetadata \/ PerformOnToken
  BY <1>7, PerformKeeps
<1>8. CASE ReadEntry
  BY <1>8, ReadEntryKeeps
<1>9. CASE JobEnds
  BY <1>9, JobEndsKeeps
<1>10. CASE JobTimesOut
  BY <1>10, JobTimesOutKeeps
<1>11. CASE CloseProfile
  BY <1>11, CloseProfileKeeps
<1>12. CASE UNCHANGED vars
  <2>1. /\ UNCHANGED <<intents, mActive, mPending, reads, mWaitingReads, stack, log>>
        /\ UNCHANGED <<keychain, inlineRecord, meta, token, fileToken, twoPlaces, jobs, closes>>
    BY <1>12 DEF vars
  <2>2. StoreTyped' /\ Readers' = Readers /\ Requests' = Requests
    BY <2>1 DEF CallInv, DataOK, StoreTyped, Metadata, Readers, Requests
  <2>3. DataOK'
    BY <2>1, <2>2, DataStays DEF CallInv, DataOK, LogRecords
  <2>4. TurnInv'
    BY <2>1, <2>2, TurnSame DEF CallInv
  <2>5. CallsOK'
    BY <2>1, <2>2 DEF CallInv, CallsOK, JobsOK, NoneAwaited, CurrentOp, MetadataPayload
  <2>6. ReadCallsOK'
    BY <2>1 DEF CallInv, ReadCallsOK, ReadJobsOK
  <2> QED
    BY <2>3, <2>4, <2>5, <2>6 DEF CallInv
<1> QED
  BY <1>1, <1>2, <1>3, <1>4, <1>5, <1>6, <1>7, <1>8, <1>9, <1>10, <1>11, <1>12
     DEF Next, Proceed

-----------------------------------------------------------------------------
(* What the invariant says of a state.                                     *)

LEMMA CallInvIsTyped ==
  ASSUME CallInv
  PROVE  TypeOK
<1>1. /\ DataOK /\ TurnInv /\ CallsOK /\ ReadCallsOK /\ StoreTyped /\ StackOK /\ PlacesOK
      /\ ActiveOK /\ stack \in Seq(AnyFrames) /\ jobs \in Seq(Jobs)
  BY DEF CallInv, TurnInv, DataOK, CallsOK, JobsOK, StackOK
<1>2. \/ mActive = NoRequest
      \/ mActive \in [id: Requests, step: 1..3, removingStaleToken: BOOLEAN]
  BY <1>1 DEF ActiveOK
<1>3. Frames \subseteq {ClientFrame, SetIntentFrame, GrantFrame}
                          \cup {ReportFrame(id) : id \in Requests}
                          \cup {PerformFrame(op) : op \in Operation}
                          \cup {ReadFrame(r) : r \in DOMAIN reads}
  <2> SUFFICES ASSUME NEW k \in DOMAIN stack
               PROVE  \/ stack[k] \in {ClientFrame, SetIntentFrame, GrantFrame}
                      \/ \E id \in Requests : stack[k] = ReportFrame(id)
                      \/ \E op \in Operation : stack[k] = PerformFrame(op)
                      \/ \E r \in DOMAIN reads : stack[k] = ReadFrame(r)
    BY DEF Frames
  <2>1. stack[k] \in AnyFrames
    BY <1>1
  <2>2. ASSUME NEW id \in Nat, stack[k] = ReportFrame(id)
        PROVE  \E i \in Requests : stack[k] = ReportFrame(i)
    BY <1>1, <2>2 DEF PlacesOK, Abandoned
  <2>3. ASSUME NEW r \in Nat, stack[k] = ReadFrame(r)
        PROVE  \E s \in DOMAIN reads : stack[k] = ReadFrame(s)
    <3>1. ReadFrame(r) \notin DeepFrames
      BY FrameTypes
    <3>2. k = 1
      BY <1>1, <2>3, <3>1 DEF StackOK
    <3>3. stack # <<>> /\ Head(stack) = ReadFrame(r)
      BY <1>1, <2>3, <3>2
    <3> QED
      BY <1>1, <2>3, <3>3 DEF ReadCallsOK
  <2> QED
    BY <2>1, <2>2, <2>3 DEF AnyFrames, DeepFrames
<1>4. /\ reads \in Seq([at: {"waiting", "granted", "reading", "done"},
                      lastRequestId: 0..Len(intents), meta: Metadata])
      /\ log \in Seq([id: Requests, outcome: Outcome \cup {"Dropped"}, failedAt: Operation])
      /\ jobs \in Seq([kind: Operation \cup {"Read"}, arg: Nat, awaited: BOOLEAN])
  BY <1>1 DEF DataOK, ReadRecords, LogRecords, Jobs
<1> QED
  BY <1>1, <1>2, <1>3, <1>4 DEF TypeOK, DataOK, StoreTyped

\* Where one element at most is, counting is deciding.
LEMMA CountsOneAtMost ==
  ASSUME NEW S, \A j, k \in S : j = k
  PROVE  Cardinality(S) = IF S = {} THEN 0 ELSE 1
<1>1. CASE S = {}
  BY <1>1, FS_EmptySet
<1>2. ASSUME NEW s \in S PROVE Cardinality(S) = 1
  <2>1. S = {s}
    BY <1>2
  <2> QED
    BY <2>1, FS_Singleton
<1> QED
  BY <1>1, <1>2

LEMMA CallInvAccounts ==
  ASSUME CallInv
  PROVE  EveryRequestAccounted
<1>1. PlacesOK /\ StackOK /\ Requests \subseteq Nat \ {0}
  <2>1. Len(intents) \in Nat
    BY BasicFacts DEF CallInv, DataOK
  <2> QED
    BY <2>1 DEF CallInv, TurnInv, Requests
<1> SUFFICES ASSUME NEW id \in Requests
             PROVE  (IF mActive.id = id THEN 1 ELSE 0)
                      + (IF mPending = id THEN 1 ELSE 0)
                      + Cardinality({k \in DOMAIN stack : stack[k] = ReportFrame(id)})
                      + Cardinality({k \in DOMAIN log : log[k].id = id}) = 1
  BY DEF EveryRequestAccounted
<1>2. id \in Nat /\ id # 0
  BY <1>1
<1> DEFINE onStack == {k \in DOMAIN stack : stack[k] = ReportFrame(id)}
           told == {k \in DOMAIN log : log[k].id = id}
<1>3. Cardinality(onStack) = IF Abandoned(id) THEN 1 ELSE 0
  <2>1. \A j, k \in onStack : j = k
    BY <1>1, <1>2 DEF StackOK
  <2>2. Abandoned(id) <=> onStack # {}
    BY DEF Abandoned
  <2> HIDE DEF onStack
  <2> QED
    BY <2>1, <2>2, CountsOneAtMost
<1>4. Cardinality(told) = IF Reported(id) THEN 1 ELSE 0
  <2>1. \A j, k \in told : j = k
    BY <1>1 DEF PlacesOK
  <2>2. Reported(id) <=> told # {}
    BY DEF Reported
  <2> HIDE DEF told
  <2> QED
    BY <2>1, <2>2, CountsOneAtMost
<1>5. /\ mActive.id = id \/ mPending = id \/ Abandoned(id) \/ Reported(id)
      /\ mActive.id = id => mPending # id /\ ~Abandoned(id) /\ ~Reported(id)
      /\ mPending = id => ~Abandoned(id) /\ ~Reported(id)
      /\ Abandoned(id) => ~Reported(id)
  BY <1>1, <1>2 DEF PlacesOK
<1> HIDE DEF onStack, told
<1>6. (IF mActive.id = id THEN 1 ELSE 0) + (IF mPending = id THEN 1 ELSE 0)
        + Cardinality(onStack) + Cardinality(told) = 1
  BY <1>3, <1>4, <1>5
<1> QED
  BY <1>6 DEF onStack, told

-----------------------------------------------------------------------------

LEMMA CallInvHolds == Spec => []CallInv
<1>1. Init => CallInv
  BY InitCalls
<1>2. CallInv /\ [Next]_vars => CallInv'
  BY StepsCall
<1> QED
  BY <1>1, <1>2, PTL DEF Spec

\* Every variable keeps its type: the reconciler starts no request that was not
\* asked for, enters no read that does not exist, and leaves no frame of another
\* kind on the stack, however its callbacks are nested.
THEOREM TypeCorrect == Spec => []TypeOK
<1>1. CallInv => TypeOK
  BY CallInvIsTyped
<1> QED
  BY <1>1, CallInvHolds, PTL

\* Every request is active, waits, is about to be reported as abandoned or was
\* reported, and is in one of these places only: no completion is lost and none
\* is called twice, whatever is requested while another completion runs.
THEOREM RequestsAreAccountedFor == Spec => []EveryRequestAccounted
<1>1. CallInv => EveryRequestAccounted
  BY CallInvAccounts
<1> QED
  BY <1>1, CallInvHolds, PTL

-----------------------------------------------------------------------------
(* What is stored.                                                         *)

\* A request that is active keeps any other from being the newest one reached,
\* and every read waiting.
LEMMA ActiveAsksNothing ==
  CallInv /\ mActive # NoRequest => NewestHolds /\ ReadersSee
<1> SUFFICES ASSUME CallInv, mActive # NoRequest
             PROVE  NewestHolds /\ ReadersSee
  OBVIOUS
<1>1. TurnsOK /\ PlacesOK /\ DataOK
  BY DEF CallInv, TurnInv
<1>2. Readers = {}
  BY <1>1 DEF TurnsOK
<1>3. Len(intents) \in Nat /\ (mActive.id = Len(intents) \/ mPending = Len(intents))
  BY <1>1, BasicFacts DEF TurnsOK
<1>4. \A id \in Requests : id = Len(intents) => ~Reported(id)
  BY <1>1, <1>3 DEF PlacesOK, Requests
<1>5. NewestHolds
  BY <1>4 DEF NewestHolds, Told, Reported
<1>6. ReadersSee
  BY <1>2 DEF ReadersSee
<1> QED
  BY <1>5, <1>6

LEMMA ActiveWillAskNothing ==
  (CallInv /\ mActive # NoRequest => NewestHolds /\ ReadersSee)'
  BY ActiveAsksNothing, PTL

\* What the invariant says of the store follows from what it said before, if
\* nothing is stored but what a job that was left over still does.
LEMMA StoreStands ==
  ASSUME CallInv, StoreInv, PairOK', meta' = meta,
         Requests \subseteq Requests', \A id \in Requests : intents'[id] = intents[id],
         Len(intents') \in Nat,
         \A id \in Requests' : Told(id, "Reached")' => id \in Requests /\ Told(id, "Reached"),
         mActive' = mActive \/ mActive' = NoRequest \/ mActive'.step = 1,
         TokenSettled => StoredToken' = StoredToken /\ TokenSettled',
         \A r \in Readers' :
            \/ r \in Readers /\ reads'[r] = reads[r]
            \/ reads'[r].at = "granted" /\ reads'[r].lastRequestId = Len(intents)
            \/ /\ r \in Readers
               /\ reads'[r].lastRequestId = reads[r].lastRequestId /\ reads'[r].meta = meta
  PROVE  StoreInv'
<1>1. /\ DataOK /\ ActiveOK /\ PairOK /\ ProgressOK /\ NewestHolds /\ ReadersSee
      /\ Len(intents) \in Nat /\ Requests = 1..Len(intents)
  BY BasicFacts DEF CallInv, TurnInv, StoreInv, Requests
<1>2. \A id \in Requests : Holds(id) => Holds(id)'
  BY DEF Holds, TargetMetadata, TargetToken
<1>3. ProgressOK'
  <2>1. CASE mActive' = mActive
    <3>1. mActive # NoRequest => intents'[mActive.id] = intents[mActive.id]
      BY <1>1 DEF ActiveOK
    <3> QED
      BY <1>1, <2>1, <3>1 DEF ProgressOK
  <2>2. CASE mActive' = NoRequest \/ mActive'.step = 1
    BY <2>2 DEF ProgressOK
  <2> QED
    BY <2>1, <2>2
<1>4. NewestHolds'
  <2>1. ASSUME NEW id \in Requests', id = Len(intents'), Told(id, "Reached")'
        PROVE  Holds(id)'
    <3>1. id \in Requests /\ Told(id, "Reached")
      BY <2>1
    <3>2. id = Len(intents)
      <4>1. Len(intents) \in 1..Len(intents')
        BY <1>1, <3>1 DEF Requests
      <4> QED
        BY <1>1, <2>1, <3>1, <4>1
    <3> QED
      BY <1>1, <1>2, <3>1, <3>2 DEF NewestHolds
  <2> QED
    BY <2>1 DEF NewestHolds
<1>5. ReadersSee'
  <2>1. ASSUME NEW r \in Readers', NEW id \in Requests',
               reads'[r].lastRequestId = id, Told(id, "Reached")'
        PROVE  Holds(id)' /\ (reads'[r].at = "reading" => reads'[r].meta = TargetMetadata(id)')
    <3>1. id \in Requests /\ Told(id, "Reached")
      BY <2>1
    <3>2. TargetMetadata(id)' = TargetMetadata(id)
      BY <3>1 DEF TargetMetadata
    <3>3. CASE r \in Readers /\ reads'[r] = reads[r]
      BY <1>1, <1>2, <2>1, <3>1, <3>2, <3>3 DEF ReadersSee
    <3>4. CASE reads'[r].at = "granted" /\ reads'[r].lastRequestId = Len(intents)
      BY <1>1, <1>2, <2>1, <3>1, <3>4 DEF NewestHolds
    <3>5. CASE r \in Readers /\ reads'[r].lastRequestId = reads[r].lastRequestId /\ reads'[r].meta = meta
      <4>1. Holds(id)
        BY <1>1, <2>1, <3>1, <3>5 DEF ReadersSee
      <4> QED
        BY <1>2, <3>1, <3>2, <3>5, <4>1 DEF Holds
    <3> QED
      BY <3>3, <3>4, <3>5
  <2> QED
    BY <2>1 DEF ReadersSee
<1> QED
  BY <1>3, <1>4, <1>5 DEF StoreInv

\* The jobs that go on are old ones, or do nothing to the token.
LEMMA PairStands ==
  ASSUME PairOK, UNCHANGED <<meta, token, fileToken, keychain>>,
         \A j \in DOMAIN jobs' :
            \/ ~ChangesToken(jobs'[j])
            \/ \E i \in DOMAIN jobs : jobs'[j].kind = jobs[i].kind /\ jobs'[j].arg = jobs[i].arg
  PROVE  PairOK' /\ StoredToken' = StoredToken /\ (TokenSettled => TokenSettled')
<1>1. \A j \in DOMAIN jobs' : jobs'[j].kind = "WriteToken" =>
         \E i \in DOMAIN jobs : jobs[i].kind = "WriteToken" /\ jobs'[j].arg = jobs[i].arg
  BY DEF ChangesToken
<1>2. OnePlace' /\ StoredToken' = StoredToken
  BY DEF PairOK, OnePlace, StoredToken
<1>3. PairOK'
  BY <1>1, <1>2 DEF PairOK
<1>4. TokenSettled => TokenSettled'
  BY DEF TokenSettled, ChangesToken
<1> QED
  BY <1>2, <1>3, <1>4

LEMMA ToldStays ==
  ASSUME log \in Seq(LogRecords), NEW rep, log' = Append(log, rep), rep.outcome # "Reached"
  PROVE  \A id : Told(id, "Reached")' => Told(id, "Reached")
<1>1. /\ DOMAIN log' = 1..(Len(log) + 1) /\ Len(log) \in Nat /\ DOMAIN log = 1..Len(log)
      /\ log'[Len(log) + 1] = rep
      /\ \A k \in DOMAIN log : log'[k] = log[k]
  OBVIOUS
<1> SUFFICES ASSUME NEW id, NEW k \in DOMAIN log', log'[k].id = id, log'[k].outcome = "Reached"
             PROVE  \E j \in DOMAIN log : log[j].id = id /\ log[j].outcome = "Reached"
  BY DEF Told
<1>2. k # Len(log) + 1
  BY <1>1
<1>3. k \in DOMAIN log
  BY <1>1, <1>2
<1> QED
  BY <1>1, <1>3

\* Reports that are no success, and reads that begin, go on or end, leave what is said.
LEMMA IdleStands ==
  ASSUME CallInv, StoreInv, UNCHANGED <<intents, meta, token, fileToken, keychain>>,
         \A j \in DOMAIN jobs' :
            \/ ~ChangesToken(jobs'[j])
            \/ \E i \in DOMAIN jobs : jobs'[j].kind = jobs[i].kind /\ jobs'[j].arg = jobs[i].arg,
         \A id \in Requests : Told(id, "Reached")' => Told(id, "Reached"),
         mActive' = mActive \/ mActive' = NoRequest \/ mActive'.step = 1,
         \A r \in Readers' :
            \/ r \in Readers /\ reads'[r] = reads[r]
            \/ reads'[r].at = "granted" /\ reads'[r].lastRequestId = Len(intents)
            \/ /\ r \in Readers
               /\ reads'[r].lastRequestId = reads[r].lastRequestId /\ reads'[r].meta = meta
  PROVE  StoreInv'
<1>1. Requests' = Requests /\ Len(intents') \in Nat
  BY BasicFacts DEF CallInv, Requests
<1>2. PairOK' /\ StoredToken' = StoredToken /\ (TokenSettled => TokenSettled')
  BY PairStands DEF StoreInv
<1>3. \A id \in Requests' : Told(id, "Reached")' => id \in Requests /\ Told(id, "Reached")
  BY <1>1
<1> QED
  BY <1>1, <1>2, <1>3, StoreStands

LEMMA SameReaders ==
  ASSUME reads' = reads
  PROVE  \A r \in Readers' : r \in Readers /\ reads'[r] = reads[r]
  BY DEF Readers

LEMMA SameJobs ==
  ASSUME jobs' = jobs
  PROVE  \A j \in DOMAIN jobs' :
            \/ ~ChangesToken(jobs'[j])
            \/ \E i \in DOMAIN jobs : jobs'[j].kind = jobs[i].kind /\ jobs'[j].arg = jobs[i].arg
  OBVIOUS

LEMMA SameLog ==
  ASSUME log' = log
  PROVE  \A id : Told(id, "Reached")' => Told(id, "Reached")
  BY DEF Told

LEMMA StartsAtFirst ==
  ASSUME CallInv, mPending # 0, NEW b, Start(b)
  PROVE  mActive'.step = 1 /\ log' = log
  BY StartIs DEF CallInv, Starts, FirstStep

\* The end of a read is the end of what it says.
LEMMA EndReadStands ==
  ASSUME CallInv, NEW r \in Readers, NEW b, EndRead(r, b)
  PROVE  /\ log' = log
         /\ mActive' = mActive \/ mActive'.step = 1
         /\ \A s \in Readers' : s \in Readers /\ reads'[s] = reads[s]
<1>1. reads' = [reads EXCEPT ![r] = Ended] /\ Ended.at = "done"
  BY DEF EndRead, Ended
<1>2. DOMAIN reads' = DOMAIN reads /\ \A s \in DOMAIN reads : s # r => reads'[s] = reads[s]
  BY <1>1
<1>3. reads'[r].at = "done"
  BY <1>1 DEF Readers
<1>4. \A s \in Readers' : s \in Readers /\ reads'[s] = reads[s]
  BY <1>2, <1>3 DEF Readers
<1> QED
  BY <1>4, StartsAtFirst DEF EndRead

-----------------------------------------------------------------------------

LEMMA SetIntentStores ==
  ASSUME CallInv, StoreInv, NEW intent \in Intent, SetIntent(intent)
  PROVE  StoreInv'
<1>1. DataOK /\ TurnInv /\ PairOK /\ log \in Seq(LogRecords)
  BY DEF CallInv, DataOK, StoreInv
<1>2. /\ Len(intents) \in Nat /\ Len(intents') = Len(intents) + 1
      /\ \A id \in Requests : intents'[id] = intents[id]
      /\ Requests' = Requests \cup {Len(intents) + 1}
  BY <1>1, Asked
<1>3. /\ UNCHANGED <<mActive, reads, mWaitingReads, inlineRecord, meta, token, fileToken, jobs,
                     keychain, closes>>
      /\ \/ log' = Append(log, Report(mPending, "Superseded", "WriteMetadata"))
         \/ log' = log
  BY DEF SetIntent, Finish, readVars, storeVars
<1>4. \A id : Told(id, "Reached")' => Told(id, "Reached")
  <2>1. Report(mPending, "Superseded", "WriteMetadata").outcome # "Reached"
    BY DEF Report
  <2> QED
    BY <1>1, <1>3, <2>1, ToldStays, SameLog
<1>5. \A id : Told(id, "Reached") => id \in Requests
  <2>1. \A k \in DOMAIN log : log[k].id \in Requests
    <3>1. \A k \in DOMAIN log : log[k] \in LogRecords
      BY <1>1
    <3> QED
      BY <3>1 DEF LogRecords
  <2> QED
    BY <2>1 DEF Told
<1>6. PairOK' /\ StoredToken' = StoredToken /\ (TokenSettled => TokenSettled')
  BY <1>1, <1>3, PairStands
<1>7. \A r \in Readers' : r \in Readers /\ reads'[r] = reads[r]
  BY <1>3, SameReaders
<1> QED
  BY <1>2, <1>3, <1>4, <1>5, <1>6, <1>7, StoreStands

LEMMA WhenReadableStores ==
  ASSUME CallInv, StoreInv, WhenReadable
  PROVE  StoreInv'
<1>1. DataOK /\ reads \in Seq(ReadRecords)
  BY DEF CallInv, DataOK
<1>2. UNCHANGED <<intents, mActive, log, meta, token, fileToken, keychain, jobs>>
  BY DEF WhenReadable, storeVars
<1>3. PICK read \in ReadRecords : reads' = Append(reads, read) /\ (read = Waiting \/ read = Granted)
  BY <1>1, ReadTypes DEF WhenReadable
<1>4. /\ reads'[Len(reads) + 1] = read
      /\ \A r \in DOMAIN reads : reads'[r] = reads[r]
      /\ \A r \in DOMAIN reads' : r \in DOMAIN reads \/ r = Len(reads) + 1
  BY <1>1, <1>3, ReadAppended
<1>5. /\ Waiting.at = "waiting"
      /\ Granted.at = "granted" /\ Granted.lastRequestId = Len(intents)
  BY DEF Waiting, Granted
<1>6. \A r \in Readers' : \/ r \in Readers /\ reads'[r] = reads[r]
                          \/ reads'[r].at = "granted" /\ reads'[r].lastRequestId = Len(intents)
  BY <1>3, <1>4, <1>5 DEF Readers
<1> QED
  BY <1>2, <1>6, SameJobs, SameLog, IdleStands

LEMMA GrantStores ==
  ASSUME CallInv, StoreInv, GrantWaitingReads
  PROVE  StoreInv'
<1>1. reads \in Seq(ReadRecords) /\ mWaitingReads \in Seq(DOMAIN reads)
  BY DEF CallInv, DataOK
<1>2. UNCHANGED <<intents, mActive, log, meta, token, fileToken, keychain, jobs>>
  BY DEF GrantWaitingReads, storeVars
<1>3. \A r \in Readers' : \/ r \in Readers /\ reads'[r] = reads[r]
                          \/ reads'[r].at = "granted" /\ reads'[r].lastRequestId = Len(intents)
  <2>1. CASE UNCHANGED readVars
    BY <2>1, SameReaders DEF readVars
  <2>2. CASE mWaitingReads # <<>> /\ reads' = [reads EXCEPT ![Head(mWaitingReads)] = Granted]
    <3>1. Granted.at = "granted" /\ Granted.lastRequestId = Len(intents)
      BY DEF Granted
    <3>2. PICK h \in DOMAIN reads : h = Head(mWaitingReads)
      BY <1>1, <2>2
    <3>3. /\ DOMAIN reads' = DOMAIN reads /\ reads'[h] = Granted
          /\ \A r \in DOMAIN reads : r # h => reads'[r] = reads[r]
      BY <2>2, <3>2
    <3> QED
      BY <3>1, <3>3 DEF Readers
  <2> QED
    BY <2>1, <2>2 DEF GrantWaitingReads
<1> QED
  BY <1>2, <1>3, SameJobs, SameLog, IdleStands

LEMMA SetIntentReturnsStores ==
  ASSUME CallInv, StoreInv, SetIntentReturns
  PROVE  StoreInv'
<1>1. UNCHANGED <<intents, reads, meta, token, fileToken, keychain, jobs>>
  BY DEF SetIntentReturns, storeVars, readVars
<1>2. log' = log /\ (mActive' = mActive \/ mActive'.step = 1)
  <2>1. CASE Start(Tail(stack))
    <3>1. stack # <<>> /\ Head(stack) = SetIntentFrame /\ StackOK
      BY DEF SetIntentReturns, CallInv, TurnInv
    <3>2. 1 \in DOMAIN stack /\ stack[1] = SetIntentFrame
      BY <3>1 DEF StackOK
    <3>3. mPending # 0
      BY <3>1, <3>2 DEF StackOK
    <3> QED
      BY <2>1, <3>3, StartsAtFirst
  <2> QED
    BY <2>1 DEF SetIntentReturns
<1>3. \A r \in Readers' : r \in Readers /\ reads'[r] = reads[r]
  BY <1>1, SameReaders
<1> QED
  BY <1>1, <1>2, <1>3, SameJobs, SameLog, IdleStands

LEMMA ReportAbandonedStores ==
  ASSUME CallInv, StoreInv, ReportAbandoned
  PROVE  StoreInv'
<1>1. DataOK /\ TurnInv /\ log \in Seq(LogRecords)
  BY DEF CallInv, DataOK
<1>2. UNCHANGED <<intents, mActive, reads, meta, token, fileToken, keychain, jobs>>
  BY DEF ReportAbandoned, storeVars, readVars
<1>3. \A id : Told(id, "Reached")' => Told(id, "Reached")
  <2>1. PICK id \in Requests : log' = Append(log, Report(id, "Superseded", "WriteMetadata"))
    BY <1>1, TurnReports
  <2>2. Report(id, "Superseded", "WriteMetadata").outcome # "Reached"
    BY DEF Report
  <2> QED
    BY <1>1, <2>1, <2>2, ToldStays
<1>4. \A r \in Readers' : r \in Readers /\ reads'[r] = reads[r]
  BY <1>2, SameReaders
<1> QED
  BY <1>2, <1>3, <1>4, SameJobs, IdleStands

LEMMA NothingStored ==
  ASSUME CallInv, StoreInv,
         UNCHANGED <<intents, mActive, reads, log, meta, token, fileToken, keychain, jobs>>
  PROVE  StoreInv'
<1>1. \A r \in Readers' : r \in Readers /\ reads'[r] = reads[r]
  BY SameReaders
<1> QED
  BY <1>1, SameJobs, SameLog, IdleStands

LEMMA ReadEntryStores ==
  ASSUME CallInv, StoreInv, ReadEntry
  PROVE  StoreInv'
<1>1. reads \in Seq(ReadRecords) /\ jobs \in Seq(Jobs) /\ ReadCallsOK /\ StackOK /\ meta \in Metadata
  BY DEF CallInv, TurnInv, DataOK, StoreTyped, CallsOK, JobsOK
<1>2. /\ UNCHANGED <<intents, meta, token, fileToken, keychain>>
      /\ stack # <<>> /\ Head(stack)[1] = "read"
  BY DEF ReadEntry
<1>3. PICK r \in Nat : Head(stack) = ReadFrame(r)
  <2>1. Head(stack) \in AnyFrames
    BY <1>1, <1>2, Pop DEF StackOK
  <2>2. Head(stack) # ClientFrame /\ Head(stack) # SetIntentFrame /\ Head(stack) # GrantFrame
    BY <1>2, FrameFacts
  <2>3. \A op \in Operation : Head(stack) # PerformFrame(op)
    BY <1>2, FrameFacts
  <2>4. \A id \in Nat : Head(stack) # ReportFrame(id)
    BY <1>2, FrameFacts
  <2> QED
    BY <2>1, <2>2, <2>3, <2>4 DEF AnyFrames, DeepFrames
<1>4. r = Head(stack)[2]
  BY <1>3, FrameFacts
<1>5. r \in DOMAIN reads /\ reads[r].at = "granted" /\ r \in Readers
  BY <1>1, <1>2, <1>3 DEF ReadCallsOK, Readers
<1>6. CASE /\ reads' = [reads EXCEPT ![r].at = "reading", ![r].meta = meta]
           /\ jobs' = Append(jobs, NewJob("Read", r))
           /\ UNCHANGED <<mActive, mPending, log>>
  <2>1. PICK read : read = [reads[r] EXCEPT !.at = "reading", !.meta = meta]
    OBVIOUS
  <2>2. reads[r] \in ReadRecords
    BY <1>1, <1>5
  <2>3. read.lastRequestId = reads[r].lastRequestId /\ read.meta = meta
    BY <1>1, <2>1, <2>2, BeingRead
  <2>4. reads' = [reads EXCEPT ![r] = read]
    BY <1>5, <1>6, <2>1
  <2>5. \A s \in Readers' :
           \/ s \in Readers /\ reads'[s] = reads[s]
           \/ /\ s \in Readers
              /\ reads'[s].lastRequestId = reads[s].lastRequestId /\ reads'[s].meta = meta
    <3>1. DOMAIN reads' = DOMAIN reads /\ reads'[r] = read
          /\ \A s \in DOMAIN reads : s # r => reads'[s] = reads[s]
      BY <1>5, <2>4
    <3> QED
      BY <1>5, <2>3, <3>1 DEF Readers
  <2>6. PICK job \in Jobs : job = NewJob("Read", r)
    BY NewJobType
  <2>7. ~ChangesToken(job)
    BY <2>6, NewJobType DEF ChangesToken
  <2>8. \A j \in DOMAIN jobs' : jobs'[j] = job \/ (j \in DOMAIN jobs /\ jobs'[j] = jobs[j])
    BY <1>1, <1>6, <2>6
  <2>9. \A j \in DOMAIN jobs' :
           \/ ~ChangesToken(jobs'[j])
           \/ \E i \in DOMAIN jobs : jobs'[j].kind = jobs[i].kind /\ jobs'[j].arg = jobs[i].arg
    BY <2>7, <2>8
  <2> QED
    BY <1>2, <1>6, <2>5, <2>9, SameLog, IdleStands
<1>7. CASE EndRead(r, Tail(stack)) /\ UNCHANGED jobs
  <2>1. /\ log' = log
        /\ mActive' = mActive \/ mActive'.step = 1
        /\ \A s \in Readers' : s \in Readers /\ reads'[s] = reads[s]
    BY <1>5, <1>7, EndReadStands
  <2> QED
    BY <1>2, <1>7, <2>1, SameJobs, SameLog, IdleStands
<1> QED
  BY <1>4, <1>6, <1>7 DEF ReadEntry

LEMMA CloseProfileStores ==
  ASSUME CallInv, StoreInv, CloseProfile
  PROVE  StoreInv'
<1>1. DataOK /\ TurnInv /\ jobs \in Seq(Jobs)
  BY DEF CallInv, CallsOK, JobsOK
<1>2. /\ UNCHANGED <<intents, meta, token, fileToken, keychain>> /\ mActive' = NoRequest
      /\ reads' = [r \in DOMAIN reads |-> Ended]
      /\ jobs' \in {<<>>, [j \in DOMAIN jobs |-> [jobs[j] EXCEPT !.awaited = FALSE]]}
  BY DEF CloseProfile
<1>3. \A id : Told(id, "Reached")' => Told(id, "Reached")
  <2>1. \A k \in DOMAIN log' : (k \in DOMAIN log /\ log'[k] = log[k]) \/ log'[k].outcome = "Dropped"
    BY <1>1, ClosingLogs
  <2> QED
    BY <2>1 DEF Told
<1>4. \A j \in DOMAIN jobs' :
         \E i \in DOMAIN jobs : jobs'[j].kind = jobs[i].kind /\ jobs'[j].arg = jobs[i].arg
  <2>1. \A job \in Jobs, flag \in BOOLEAN : /\ [job EXCEPT !.awaited = flag].kind = job.kind
                                            /\ [job EXCEPT !.awaited = flag].arg = job.arg
    BY DEF Jobs
  <2>2. \A j \in DOMAIN jobs : jobs[j] \in Jobs
    BY <1>1
  <2>3. CASE jobs' = <<>>
    BY <2>3
  <2>4. CASE jobs' = [j \in DOMAIN jobs |-> [jobs[j] EXCEPT !.awaited = FALSE]]
    <3>1. DOMAIN jobs' = DOMAIN jobs /\ FALSE \in BOOLEAN
      BY <2>4
    <3>2. ASSUME NEW j \in DOMAIN jobs
          PROVE  jobs'[j].kind = jobs[j].kind /\ jobs'[j].arg = jobs[j].arg
      <4>1. jobs'[j] = [jobs[j] EXCEPT !.awaited = FALSE]
        BY <2>4
      <4> QED
        BY <2>1, <2>2, <3>1, <4>1
    <3> QED
      BY <3>1, <3>2
  <2> QED
    BY <1>2, <2>3, <2>4
<1>5. Readers' = {}
  BY <1>2 DEF Readers, Ended
<1> QED
  BY <1>2, <1>3, <1>4, <1>5, IdleStands

-----------------------------------------------------------------------------
(* What the operations store.                                              *)

\* What an operation that succeeded has done to the store.
Done(op) ==
    CASE op = "WriteToken" -> StoredToken' = mActive.id /\ TokenSettled' /\ meta' = meta
      [] op = "RemoveToken" -> StoredToken' = 0 /\ TokenSettled'
      [] op = "WriteMetadata" -> /\ meta' = MetadataPayload(mActive)
                                 /\ StoredToken' = StoredToken /\ (TokenSettled => TokenSettled')
      [] op = "RemoveMetadata" -> /\ meta' = NoMetadata
                                  /\ StoredToken' = StoredToken /\ (TokenSettled => TokenSettled')

LEMMA PayloadIs ==
  ASSUME CallInv, mActive # NoRequest
  PROVE  /\ MetadataPayload(mActive).from = mActive.id
         /\ mActive.step = 1 =>
               MetadataPayload(mActive) = [from |-> mActive.id, inTheClear |-> FALSE]
         /\ intents[mActive.id].shape # "Full" =>
               MetadataPayload(mActive) = [from |-> mActive.id, inTheClear |-> FALSE]
         /\ intents[mActive.id].shape = "Full" /\ mActive.step = 3 =>
               MetadataPayload(mActive)
                  = [from |-> mActive.id, inTheClear |-> ~intents[mActive.id].secureOnly]
         /\ MetadataPayload(mActive).inTheClear =>
               intents[mActive.id].shape = "Full" /\ mActive.step = 3
         /\ MetadataPayload(mActive) # NoMetadata
<1>1. mActive.step \in 1..3 /\ mActive.id # 0 /\ intents[mActive.id] \in Intent
  BY CurrentOpIs DEF CallInv, TurnInv
<1>2. intents[mActive.id].secureOnly \in BOOLEAN
  BY <1>1, SequenceFacts
<1>3. PICK full \in BOOLEAN : full = (intents[mActive.id].shape = "Full")
  OBVIOUS
<1>4. PICK late \in BOOLEAN : late = (mActive.step > 2)
  <2>1. CASE mActive.step > 2
    <3>1. TRUE = (mActive.step > 2)
      BY <2>1
    <3> QED
      BY <3>1, Zenon
  <2>2. CASE ~(mActive.step > 2)
    <3>1. FALSE = (mActive.step > 2)
      BY <2>2
    <3> QED
      BY <3>1, Zenon
  <2> QED
    BY <2>1, <2>2, Zenon
<1>5. PICK clear \in BOOLEAN : clear = (full /\ late /\ ~intents[mActive.id].secureOnly)
  OBVIOUS
<1>6. MetadataPayload(mActive) = [from |-> mActive.id, inTheClear |-> clear]
  BY <1>3, <1>4, <1>5 DEF MetadataPayload
<1>7. MetadataPayload(mActive) # NoMetadata
  BY <1>1, <1>6 DEF NoMetadata
<1>8. mActive.step = 1 => clear = FALSE
  <2>1. mActive.step = 1 => ~(mActive.step > 2)
    OBVIOUS
  <2>2. ~(mActive.step > 2) => ~late
    BY <1>4, Zenon
  <2>3. ~late => clear = FALSE
    BY <1>5, Zenon
  <2> QED
    BY <2>1, <2>2, <2>3, Zenon
<1>9. ~full => clear = FALSE
  BY <1>5, Zenon
<1>10. full /\ mActive.step = 3 => clear = ~intents[mActive.id].secureOnly
  <2>1. mActive.step = 3 => mActive.step > 2
    OBVIOUS
  <2>2. mActive.step > 2 => late
    BY <1>4, Zenon
  <2>3. full /\ late => (clear <=> ~intents[mActive.id].secureOnly)
    BY <1>5, Zenon
  <2>4. PICK only \in BOOLEAN : only = intents[mActive.id].secureOnly
    BY <1>2
  <2>5. (clear <=> ~only) => clear = ~only
    BY Zenon
  <2> QED
    BY <2>1, <2>2, <2>3, <2>4, <2>5, Zenon
<1>11. clear => full /\ mActive.step = 3
  <2>1. clear => full /\ late
    BY <1>5, Zenon
  <2>2. late => mActive.step > 2
    BY <1>4, Zenon
  <2>3. mActive.step > 2 => mActive.step = 3
    BY <1>1
  <2> QED
    BY <2>1, <2>2, <2>3, Zenon
<1>12. /\ MetadataPayload(mActive).from = mActive.id
       /\ MetadataPayload(mActive).inTheClear = clear
  BY <1>6
<1>13. full <=> intents[mActive.id].shape = "Full"
  BY <1>3, Zenon
<1>14. /\ mActive.step = 1 =>
            MetadataPayload(mActive) = [from |-> mActive.id, inTheClear |-> FALSE]
       /\ ~full => MetadataPayload(mActive) = [from |-> mActive.id, inTheClear |-> FALSE]
       /\ full /\ mActive.step = 3 =>
            MetadataPayload(mActive)
               = [from |-> mActive.id, inTheClear |-> ~intents[mActive.id].secureOnly]
  BY <1>6, <1>8, <1>9, <1>10, Zenon
<1> QED
  BY <1>7, <1>11, <1>12, <1>13, <1>14, Zenon

\* How far an operation that succeeded has brought the store.
LEMMA DoneIsProgress ==
  ASSUME CallInv, StoreInv, mActive # NoRequest, intents' = intents, Done(CurrentOp(mActive)),
         mActive.step < Len(SequenceFor(intents[mActive.id])), ~mActive.removingStaleToken,
         mActive' = Stepped
  PROVE  ProgressOK'
<1>1. /\ mActive.step \in 1..3 /\ intents[mActive.id] \in Intent
      /\ mActive'.id = mActive.id /\ mActive'.step = mActive.step + 1
  <2>1. /\ mActive = [id |-> mActive.id, step |-> mActive.step,
                      removingStaleToken |-> mActive.removingStaleToken]
        /\ mActive.step \in 1..3 /\ intents[mActive.id] \in Intent
    BY CurrentOpIs DEF CallInv, TurnInv
  <2> QED
    BY <2>1 DEF Stepped
<1>2. CurrentOp(mActive) = SequenceFor(intents[mActive.id])[mActive.step]
  BY DEF CurrentOp
<1>3. ProgressOK
  BY DEF StoreInv
<1>4. CASE intents[mActive.id].shape = "Full" /\ mActive.step = 1
  <2>1. CurrentOp(mActive) = "WriteMetadata"
    BY <1>1, <1>2, <1>4, SequenceFacts
  <2>2. meta' = [from |-> mActive.id, inTheClear |-> FALSE]
    BY <1>4, <2>1, PayloadIs DEF Done
  <2> QED
    BY <1>1, <1>4, <2>2 DEF ProgressOK
<1>5. CASE intents[mActive.id].shape = "Full" /\ mActive.step = 2
  <2>1. CurrentOp(mActive) = "WriteToken"
    BY <1>1, <1>2, <1>5, SequenceFacts
  <2>2. meta.from = mActive.id
    BY <1>3, <1>5 DEF ProgressOK
  <2>3. meta'.from = mActive.id /\ StoredToken' = mActive.id /\ TokenSettled'
    BY <2>1, <2>2 DEF Done
  <2> QED
    BY <1>1, <1>5, <2>3 DEF ProgressOK
<1>6. CASE intents[mActive.id].shape # "Full" /\ mActive.step = 1
  <2>1. CurrentOp(mActive) = "RemoveToken"
    BY <1>1, <1>2, <1>6, SequenceFacts
  <2>2. StoredToken' = 0 /\ TokenSettled'
    BY <2>1 DEF Done
  <2> QED
    BY <1>1, <1>6, <2>2 DEF ProgressOK
<1> QED
  BY <1>1, <1>4, <1>5, <1>6, SequenceFacts

\* The last operation leaves what the request asked for.
LEMMA DoneIsReached ==
  ASSUME CallInv, StoreInv, mActive # NoRequest, intents' = intents, Done(CurrentOp(mActive)),
         mActive.step = Len(SequenceFor(intents[mActive.id])), ~mActive.removingStaleToken,
         NEW id, id = mActive.id
  PROVE  Holds(id)'
<1>1. mActive.step \in 1..3 /\ intents[mActive.id] \in Intent /\ mActive.id \in Requests
  BY CurrentOpIs DEF CallInv, TurnInv
<1>2. CurrentOp(mActive) = SequenceFor(intents[mActive.id])[mActive.step]
  BY DEF CurrentOp
<1>3. ProgressOK
  BY DEF StoreInv
<1>4. id = mActive.id
  OBVIOUS
<1>5. PICK intent \in Intent : intent = intents[id]
  BY <1>1, <1>4
<1>6. /\ TargetMetadata(id)' = IF intent.shape = "Absent" THEN NoMetadata
                               ELSE [from |-> id, inTheClear |-> ~intent.secureOnly]
      /\ TargetToken(id)' = IF intent.shape = "Full" THEN id ELSE 0
  BY <1>5 DEF TargetMetadata, TargetToken
<1>7. /\ intent.secureOnly \in BOOLEAN /\ intent.shape \in {"Full", "Hint", "Absent"}
      /\ intent.shape # "Full" => intent.secureOnly
  BY SequenceFacts
<1>8. CASE intent.shape = "Full" /\ intent.secureOnly
  <2>1. CurrentOp(mActive) = "WriteToken" /\ mActive.step = 2
    BY <1>2, <1>4, <1>5, <1>8, SequenceFacts
  <2>2. meta = [from |-> id, inTheClear |-> FALSE]
    BY <1>3, <1>4, <1>5, <1>8, <2>1 DEF ProgressOK
  <2>3. meta' = [from |-> id, inTheClear |-> FALSE] /\ StoredToken' = id /\ TokenSettled'
    BY <1>4, <2>1, <2>2 DEF Done
  <2>4. TargetMetadata(id)' = [from |-> id, inTheClear |-> FALSE]
    BY <1>6, <1>8
  <2> QED
    BY <1>4, <1>6, <1>8, <2>3, <2>4 DEF Holds
<1>9. CASE intent.shape = "Full" /\ ~intent.secureOnly
  <2>1. CurrentOp(mActive) = "WriteMetadata" /\ mActive.step = 3
    BY <1>2, <1>4, <1>5, <1>9, SequenceFacts
  <2>2. StoredToken = id /\ TokenSettled
    BY <1>3, <1>4, <1>5, <1>9, <2>1 DEF ProgressOK
  <2>3. StoredToken' = id /\ TokenSettled'
    BY <2>1, <2>2 DEF Done
  <2>4. meta' = [from |-> id, inTheClear |-> ~intent.secureOnly]
    BY <1>4, <1>5, <1>9, <2>1, PayloadIs DEF Done
  <2> QED
    BY <1>4, <1>6, <1>9, <2>3, <2>4 DEF Holds
<1>10. CASE intent.shape = "Hint"
  <2>1. CurrentOp(mActive) = "WriteMetadata" /\ mActive.step = 2
    BY <1>2, <1>4, <1>5, <1>10, SequenceFacts
  <2>2. StoredToken = 0 /\ TokenSettled
    BY <1>3, <1>4, <1>5, <1>10, <2>1 DEF ProgressOK
  <2>3. StoredToken' = 0 /\ TokenSettled'
    BY <2>1, <2>2 DEF Done
  <2>4. meta' = [from |-> id, inTheClear |-> FALSE]
    BY <1>4, <1>5, <1>10, <2>1, PayloadIs DEF Done
  <2>5. TargetMetadata(id)' = [from |-> id, inTheClear |-> FALSE]
    BY <1>6, <1>7, <1>10
  <2> QED
    BY <1>4, <1>6, <1>10, <2>3, <2>4, <2>5 DEF Holds
<1>11. CASE intent.shape = "Absent"
  <2>1. CurrentOp(mActive) = "RemoveMetadata" /\ mActive.step = 2
    BY <1>2, <1>4, <1>5, <1>11, SequenceFacts
  <2>2. StoredToken = 0 /\ TokenSettled
    BY <1>3, <1>4, <1>5, <1>11, <2>1 DEF ProgressOK
  <2>3. StoredToken' = 0 /\ TokenSettled' /\ meta' = NoMetadata
    BY <2>1, <2>2 DEF Done
  <2> QED
    BY <1>4, <1>6, <1>11, <2>3 DEF Holds
<1> QED
  BY <1>7, <1>8, <1>9, <1>10, <1>11

\* No request but the one it is about was reported as reached by a report.
LEMMA LastTold ==
  ASSUME DataOK, TurnInv, mActive # NoRequest, mPending = 0, NEW rep, rep.id = mActive.id,
         log' = Append(log, rep), intents' = intents
  PROVE  \A id \in Requests' : id = Len(intents') /\ Told(id, "Reached")'
            => id = mActive.id /\ rep.outcome = "Reached"
<1>1. /\ log \in Seq(LogRecords) /\ Len(intents) \in Nat /\ PlacesOK /\ TurnsOK
      /\ mActive.id = Len(intents) /\ Requests' = Requests /\ Requests \subseteq Nat \ {0}
  BY BasicFacts DEF DataOK, TurnInv, TurnsOK, Requests
<1>2. \A k \in DOMAIN log' : log'[k] = rep \/ (k \in DOMAIN log /\ log'[k] = log[k])
  BY <1>1
<1> SUFFICES ASSUME NEW id \in Requests', id = Len(intents'), Told(id, "Reached")'
             PROVE  id = mActive.id /\ rep.outcome = "Reached"
  OBVIOUS
<1>3. id = mActive.id /\ ~Reported(id)
  BY <1>1 DEF PlacesOK
<1>4. PICK k \in DOMAIN log' : log'[k].id = id /\ log'[k].outcome = "Reached"
  BY DEF Told
<1>5. log'[k] = rep
  BY <1>2, <1>3, <1>4 DEF Reported
<1> QED
  BY <1>3, <1>4, <1>5

\* done() of the active request's operation leaves the store as the next state
\* of the reconciler says it is.
LEMMA StepDoneStores ==
  ASSUME CallInv, CallInv', StoreInv, mActive # NoRequest, NEW b, NEW ok \in BOOLEAN,
         OnStepDone(mActive.id, CurrentOp(mActive), ok, b),
         intents' = intents, reads' = reads, PairOK',
         ok => Done(CurrentOp(mActive)),
         ~ok /\ CurrentOp(mActive) = "WriteToken" => meta' = meta
  PROVE  StoreInv'
<1>1. /\ DataOK /\ TurnInv /\ ActiveOK /\ TurnsOK /\ ProgressOK
      /\ NoRequest.step = 0
  BY DEF CallInv, TurnInv, StoreInv, NoRequest
<1>2. Readers' = {}
  BY <1>1 DEF TurnsOK, Readers
<1>3. ReadersSee'
  BY <1>2 DEF ReadersSee
<1>4. /\ mActive = [id |-> mActive.id, step |-> mActive.step,
                    removingStaleToken |-> mActive.removingStaleToken]
      /\ mActive.id # 0 /\ mActive.step \in 1..3
  BY <1>1, CurrentOpIs
<1>5. ASSUME mActive' # NoRequest, ProgressOK'
      PROVE  StoreInv'
  BY <1>3, <1>5, ActiveWillAskNothing DEF StoreInv
<1>6. ASSUME mActive' = NoRequest, NewestHolds'
      PROVE  StoreInv'
  BY <1>3, <1>6 DEF StoreInv, ProgressOK
<1>7. CASE mPending # 0 /\ Starts(<<ReportFrame(mActive.id)>> \o b)
  <2>1. mActive'.step = 1
    BY <1>7 DEF Starts, FirstStep
  <2>2. mActive' # NoRequest
    BY <1>1, <2>1
  <2>3. ProgressOK'
    BY <2>1 DEF ProgressOK
  <2> QED
    BY <1>5, <2>2, <2>3
<1>8. ASSUME NEW failedAt, mPending = 0, Ends("Failed", failedAt, b)
      PROVE  StoreInv'
  <2>1. PICK rep : rep = Report(mActive.id, "Failed", failedAt)
    OBVIOUS
  <2>2. rep.id = mActive.id /\ rep.outcome # "Reached"
    BY <2>1 DEF Report
  <2>3. mActive' = NoRequest /\ log' = Append(log, rep)
    BY <1>8, <2>1 DEF Ends
  <2>4. NewestHolds'
    BY <1>1, <1>8, <2>2, <2>3, LastTold DEF NewestHolds
  <2> QED
    BY <1>6, <2>3, <2>4
<1>9. CASE /\ ~ok /\ CurrentOp(mActive) = "WriteToken" /\ ~mActive.removingStaleToken
           /\ Continues(Staled, b)
  <2>1. mActive'.id = mActive.id /\ mActive'.step = mActive.step
    BY <1>4, <1>9 DEF Continues, Staled
  <2>2. mActive' # NoRequest
    BY <1>1, <1>4, <2>1
  <2>3. intents[mActive.id].shape = "Full" /\ mActive.step = 2
    BY <1>1, <1>9, CurrentOpIs
  <2>4. ProgressOK'
    BY <1>1, <1>9, <2>1, <2>3 DEF ProgressOK
  <2> QED
    BY <1>5, <2>2, <2>4
<1>10. CASE /\ ok /\ ~mActive.removingStaleToken
            /\ mActive.step < Len(SequenceFor(intents[mActive.id]))
            /\ Continues(Stepped, b)
  <2>1. ProgressOK' /\ mActive' = Stepped
    BY <1>10, DoneIsProgress DEF Continues
  <2>2. mActive'.step = mActive.step + 1
    BY <1>4, <2>1 DEF Stepped
  <2>3. mActive' # NoRequest
    BY <1>1, <1>4, <2>2
  <2> QED
    BY <1>5, <2>1, <2>3
<1>11. CASE /\ ok /\ ~mActive.removingStaleToken /\ mPending = 0
            /\ mActive.step = Len(SequenceFor(intents[mActive.id]))
            /\ Ends("Reached", "WriteMetadata", b)
  <2>1. PICK rep : rep = Report(mActive.id, "Reached", "WriteMetadata")
    OBVIOUS
  <2>2. rep.id = mActive.id
    BY <2>1 DEF Report
  <2>3. mActive' = NoRequest /\ log' = Append(log, rep)
    BY <1>11, <2>1 DEF Ends
  <2>4. PICK last : last = mActive.id
    OBVIOUS
  <2>5. Holds(last)'
    BY <1>11, <2>4, DoneIsReached
  <2>6. NewestHolds'
    BY <1>1, <1>11, <2>2, <2>3, <2>4, <2>5, LastTold DEF NewestHolds
  <2> QED
    BY <1>6, <2>3, <2>6
<1> QED
  BY <1>1, <1>7, <1>8, <1>9, <1>10, <1>11, OnStepDoneIs

\* What an operation, or the job it asks for, makes of the pair.
LEMMA PairAfterOperation ==
  ASSUME CallInv, StoreInv, mActive # NoRequest, NEW op \in Operation, op = CurrentOp(mActive),
         op = "WriteMetadata" => meta' = MetadataPayload(mActive),
         op = "RemoveMetadata" => meta' = NoMetadata,
         op \in {"WriteToken", "RemoveToken"} => meta' = meta,
         OnePlace',
         \/ StoredToken' = StoredToken
         \/ op = "WriteToken" /\ StoredToken' = mActive.id
         \/ op = "RemoveToken" /\ StoredToken' = 0,
         \A j \in DOMAIN jobs' :
            \/ jobs'[j].kind = op /\ jobs'[j].arg = mActive.id
            \/ \E i \in DOMAIN jobs : jobs'[j].kind = jobs[i].kind /\ jobs'[j].arg = jobs[i].arg
  PROVE  PairOK'
<1>1. PairOK /\ ProgressOK
  BY DEF StoreInv, PairOK
<1>2. NoMetadata.inTheClear = FALSE
  BY DEF NoMetadata
<1>3. op \in {"WriteMetadata", "WriteToken", "RemoveToken", "RemoveMetadata"}
  BY DEF Operation
<1>4. CASE op = "WriteMetadata"
  <2>1. meta' # NoMetadata /\ meta'.from = mActive.id
    BY <1>4, PayloadIs
  <2>2. ASSUME meta'.inTheClear
        PROVE  StoredToken = mActive.id /\ TokenSettled
    BY <1>1, <1>4, <2>2, PayloadIs DEF ProgressOK
  <2>3. StoredToken' = StoredToken
    BY <1>4
  <2>4. ASSUME meta'.inTheClear, NEW j \in DOMAIN jobs' PROVE jobs'[j].kind # "WriteToken"
    BY <1>4, <2>2, <2>4 DEF TokenSettled, ChangesToken
  <2> QED
    BY <1>1, <2>1, <2>2, <2>3, <2>4 DEF PairOK
<1>5. CASE op = "RemoveMetadata"
  <2>1. intents[mActive.id].shape = "Absent" /\ mActive.step = 2
    BY <1>5, CurrentOpIs DEF CallInv, TurnInv
  <2>2. StoredToken = 0 /\ TokenSettled
    BY <1>1, <2>1 DEF ProgressOK
  <2>3. \A j \in DOMAIN jobs' : jobs'[j].kind # "WriteToken"
    BY <1>5, <2>2 DEF TokenSettled, ChangesToken
  <2> QED
    BY <1>1, <1>2, <1>5, <2>2, <2>3 DEF PairOK
<1>6. CASE op = "WriteToken"
  <2>1. intents[mActive.id].shape = "Full" /\ mActive.step = 2 /\ mActive.id # 0
    BY <1>6, CurrentOpIs DEF CallInv, TurnInv
  <2>2. meta = [from |-> mActive.id, inTheClear |-> FALSE]
    BY <1>1, <2>1 DEF ProgressOK
  <2>3. meta'.inTheClear = FALSE /\ meta' # NoMetadata
    <3>1. meta' = [from |-> mActive.id, inTheClear |-> FALSE]
      BY <1>6, <2>2
    <3> QED
      BY <2>1, <3>1 DEF NoMetadata
  <2> QED
    BY <1>1, <2>3 DEF PairOK
<1>7. CASE op = "RemoveToken"
  <2>1. \A j \in DOMAIN jobs' : jobs'[j].kind = "WriteToken" =>
           \E i \in DOMAIN jobs : jobs[i].kind = "WriteToken" /\ jobs'[j].arg = jobs[i].arg
    BY <1>7
  <2>2. meta' = meta /\ StoredToken' \in {0, StoredToken}
    BY <1>7
  <2> QED
    BY <1>1, <2>1, <2>2 DEF PairOK
<1> QED
  BY <1>3, <1>4, <1>5, <1>6, <1>7

\* An operation the keychain is asked for leaves the active request where it is.
LEMMA AskedKeychainStores ==
  ASSUME CallInv, CallInv', StoreInv, NEW op \in Operation, Performing(op),
         jobs' = Append(jobs, NewJob(op, mActive.id)), PairOK',
         UNCHANGED <<intents, mActive>>, StoredToken' = StoredToken,
         op = "WriteMetadata" => meta' = MetadataPayload(mActive),
         op \in {"WriteToken", "RemoveToken"} => meta' = meta
  PROVE  StoreInv'
<1>1. /\ mActive # NoRequest /\ op = CurrentOp(mActive) /\ mActive.id \in Nat
      /\ ProgressOK /\ jobs \in Seq(Jobs)
  BY PerformFacts, CurrentOpIs DEF CallInv, TurnInv, StoreInv, CallsOK, JobsOK
<1>2. PICK job \in Jobs : job = NewJob(op, mActive.id)
  BY <1>1, NewJobType
<1>3. job.kind = op
  BY <1>1, <1>2, NewJobType
<1>4. \A j \in DOMAIN jobs' : jobs'[j] = job \/ (j \in DOMAIN jobs /\ jobs'[j] = jobs[j])
  BY <1>1, <1>2
<1>5. op \in {"WriteMetadata", "RemoveMetadata"} /\ TokenSettled => TokenSettled'
  BY <1>3, <1>4 DEF TokenSettled, ChangesToken
<1>6. /\ op = "WriteToken" => intents[mActive.id].shape = "Full" /\ mActive.step = 2
      /\ op = "RemoveToken" => \/ mActive.removingStaleToken
                               \/ intents[mActive.id].shape # "Full" /\ mActive.step = 1
      /\ op = "RemoveMetadata" => intents[mActive.id].shape = "Absent"
      /\ mActive.removingStaleToken => intents[mActive.id].shape = "Full" /\ mActive.step = 2
      /\ op \in {"WriteMetadata", "WriteToken", "RemoveToken", "RemoveMetadata"}
      /\ op = "WriteMetadata" /\ intents[mActive.id].shape = "Full" => mActive.step # 2
  <2>1. op = "WriteMetadata" /\ intents[mActive.id].shape = "Full" => mActive.step # 2
    <3>1. intents[mActive.id] \in Intent
      BY <1>1, CurrentOpIs DEF CallInv, TurnInv
    <3>2. intents[mActive.id].shape = "Full" => SequenceFor(intents[mActive.id])[2] = "WriteToken"
      BY <3>1, SequenceFacts
    <3> QED
      BY <1>1, <3>2 DEF CurrentOp
  <2> QED
    BY <1>1, <2>1, CurrentOpIs DEF CallInv, TurnInv, ActiveOK, Operation
<1>7. ProgressOK'
  <2>1. ASSUME intents[mActive.id].shape = "Full", mActive.step = 2
        PROVE  meta' = [from |-> mActive.id, inTheClear |-> FALSE]
    <3>1. op \in {"WriteToken", "RemoveToken"}
      BY <1>6, <2>1
    <3> QED
      BY <1>1, <2>1, <3>1 DEF ProgressOK
  <2>2. ASSUME intents[mActive.id].shape = "Full", mActive.step = 3
        PROVE  meta'.from = mActive.id /\ StoredToken' = mActive.id /\ TokenSettled'
    <3>1. op = "WriteMetadata"
      BY <1>6, <2>2
    <3> QED
      BY <1>1, <1>5, <2>2, <3>1, PayloadIs DEF ProgressOK
  <2>3. ASSUME intents[mActive.id].shape # "Full", mActive.step = 2
        PROVE  StoredToken' = 0 /\ TokenSettled'
    <3>1. op \in {"WriteMetadata", "RemoveMetadata"}
      BY <1>6, <2>3
    <3> QED
      BY <1>1, <1>5, <2>3, <3>1 DEF ProgressOK
  <2> QED
    BY <2>1, <2>2, <2>3 DEF ProgressOK
<1> QED
  BY <1>1, <1>7, ActiveWillAskNothing DEF StoreInv

LEMMA NoJobIsSettled ==
  ASSUME CallInv, ~keychain, jobs' = jobs
  PROVE  TokenSettled /\ TokenSettled'
<1>1. DOMAIN jobs = {}
  BY DEF CallInv, CallsOK, JobsOK
<1> QED
  BY <1>1 DEF TokenSettled

LEMMA AskCredentialStoreStores ==
  ASSUME CallInv, CallInv', StoreInv, NEW op \in Operation, Performing(op), AskCredentialStore(op),
         UNCHANGED <<intents, reads, keychain>>,
         op = "WriteMetadata" => meta' = MetadataPayload(mActive),
         op = "RemoveMetadata" => meta' = NoMetadata,
         op \in {"WriteToken", "RemoveToken"} => meta' = meta
  PROVE  StoreInv'
<1>1. /\ mActive # NoRequest /\ op = CurrentOp(mActive) /\ mActive.id \in Nat
      /\ jobs \in Seq(Jobs) /\ fileToken' = fileToken /\ OnePlace
      /\ op \in {"WriteMetadata", "WriteToken", "RemoveToken", "RemoveMetadata"}
  BY PerformFacts, CurrentOpIs
     DEF CallInv, TurnInv, CallsOK, JobsOK, AskCredentialStore, Operation, StoreInv, PairOK
<1>2. CASE /\ jobs' = Append(jobs, NewJob(op, mActive.id))
           /\ UNCHANGED <<mActive, mPending, log, token, inlineRecord>>
  <2>1. PICK job \in Jobs : job = NewJob(op, mActive.id)
    BY <1>1, NewJobType
  <2>2. job.kind = op /\ job.arg = mActive.id
    BY <1>1, <2>1, NewJobType
  <2>3. \A j \in DOMAIN jobs' : jobs'[j] = job \/ (j \in DOMAIN jobs /\ jobs'[j] = jobs[j])
    BY <1>1, <1>2, <2>1
  <2>4. \A j \in DOMAIN jobs' :
            \/ jobs'[j].kind = op /\ jobs'[j].arg = mActive.id
            \/ \E i \in DOMAIN jobs : jobs'[j].kind = jobs[i].kind /\ jobs'[j].arg = jobs[i].arg
    BY <2>2, <2>3
  <2>5. OnePlace' /\ StoredToken' = StoredToken
    BY <1>1, <1>2 DEF OnePlace, StoredToken
  <2>6. PairOK'
    BY <1>1, <1>2, <2>4, <2>5, PairAfterOperation
  <2> QED
    BY <1>2, <2>5, <2>6, AskedKeychainStores
<1>3. ASSUME NEW ok \in BOOLEAN, ~keychain,
             token' = IF ok THEN TokenAfter(op, mActive.id) ELSE token,
             OnStepDone(mActive.id, op, ok, Tail(stack)),
             UNCHANGED jobs
      PROVE  StoreInv'
  <2>1. /\ ok /\ op = "WriteToken" => StoredToken' = mActive.id
        /\ ok /\ op = "RemoveToken" => StoredToken' = 0
        /\ op \in {"WriteMetadata", "RemoveMetadata"} \/ ~ok => StoredToken' = StoredToken
        /\ OnePlace'
    <3>1. fileToken = 0 /\ fileToken' = 0
      BY <1>1, <1>3 DEF OnePlace
    <3>2. StoredToken = token /\ StoredToken' = token' /\ OnePlace'
      BY <3>1 DEF StoredToken, OnePlace
    <3> QED
      BY <1>3, <3>2 DEF TokenAfter
  <2>2. TokenSettled /\ TokenSettled'
    BY <1>3, NoJobIsSettled
  <2>3. \/ StoredToken' = StoredToken
        \/ op = "WriteToken" /\ StoredToken' = mActive.id
        \/ op = "RemoveToken" /\ StoredToken' = 0
    BY <1>1, <2>1
  <2>4. PairOK'
    BY <1>1, <1>3, <2>1, <2>3, PairAfterOperation
  <2>5. ok => Done(op)
    BY <1>1, <2>1, <2>2 DEF Done
  <2> QED
    BY <1>1, <1>3, <2>4, <2>5, StepDoneStores
<1> QED
  BY <1>2, <1>3 DEF AskCredentialStore

LEMMA PerformStores ==
  ASSUME CallInv, CallInv', StoreInv, PerformWriteMetadata \/ PerformRemoveMetadata \/ PerformOnToken
  PROVE  StoreInv'
<1>1. {"WriteMetadata", "RemoveMetadata", "WriteToken", "RemoveToken"} = Operation /\ PairOK
      /\ FALSE \in BOOLEAN /\ TRUE \in BOOLEAN
  BY DEF Operation, StoreInv
<1>2. ASSUME NEW op \in {"WriteMetadata", "RemoveMetadata"}, Performing(op),
             UNCHANGED storeVars, UNCHANGED <<intents, reads, keychain>>,
             OnStepDone(mActive.id, op, FALSE, Tail(stack))
      PROVE  StoreInv'
  <2>1. mActive # NoRequest /\ op = CurrentOp(mActive) /\ op # "WriteToken"
    BY <1>1, <1>2, PerformFacts
  <2>2. UNCHANGED <<meta, token, fileToken, keychain, jobs>>
    BY <1>2 DEF storeVars
  <2>3. PairOK'
    BY <1>1, <2>2, PairStands
  <2> QED
    BY <1>1, <1>2, <2>1, <2>3, StepDoneStores
<1>3. CASE PerformWriteMetadata
  <2>1. /\ Performing("WriteMetadata")
        /\ UNCHANGED <<intents, reads, mWaitingReads, keychain, closes>>
    BY <1>3 DEF PerformWriteMetadata, readVars
  <2>2. CASE /\ UNCHANGED storeVars
             /\ OnStepDone(mActive.id, "WriteMetadata", FALSE, Tail(stack))
    BY <1>2, <2>1, <2>2
  <2>3. CASE /\ meta' = MetadataPayload(mActive)
             /\ OnStepDone(mActive.id, "WriteMetadata", TRUE, Tail(stack))
             /\ UNCHANGED <<inlineRecord, token, fileToken, jobs>>
    <3>1. mActive # NoRequest /\ "WriteMetadata" = CurrentOp(mActive)
      BY <1>1, <2>1, PerformFacts
    <3>2. OnePlace' /\ StoredToken' = StoredToken
      BY <1>1, <2>1, <2>3 DEF PairOK, OnePlace, StoredToken
    <3>3. PairOK'
      BY <1>1, <2>3, <3>1, <3>2, PairAfterOperation
    <3>4. Done("WriteMetadata")
      BY <2>3, <3>2 DEF Done, TokenSettled
    <3> QED
      BY <1>1, <2>1, <2>3, <3>1, <3>3, <3>4, StepDoneStores
  <2>4. CASE meta' = MetadataPayload(mActive) /\ AskCredentialStore("WriteMetadata")
    BY <1>1, <2>1, <2>4, AskCredentialStoreStores
  <2> QED
    BY <1>3, <2>2, <2>3, <2>4 DEF PerformWriteMetadata
<1>4. CASE PerformRemoveMetadata
  <2>1. /\ Performing("RemoveMetadata")
        /\ UNCHANGED <<intents, reads, mWaitingReads, keychain, closes>>
    BY <1>4 DEF PerformRemoveMetadata, readVars
  <2>2. CASE /\ UNCHANGED storeVars
             /\ OnStepDone(mActive.id, "RemoveMetadata", FALSE, Tail(stack))
    BY <1>2, <2>1, <2>2
  <2>3. CASE meta' = NoMetadata /\ AskCredentialStore("RemoveMetadata")
    BY <1>1, <2>1, <2>3, AskCredentialStoreStores
  <2> QED
    BY <1>4, <2>2, <2>3 DEF PerformRemoveMetadata
<1>5. CASE PerformOnToken
  <2>1. PICK op \in {"WriteToken", "RemoveToken"} : Performing(op) /\ AskCredentialStore(op)
    BY <1>5 DEF PerformOnToken
  <2>2. UNCHANGED <<intents, reads, meta, keychain>>
    BY <1>5 DEF PerformOnToken, readVars
  <2>3. op \in Operation /\ op # "WriteMetadata" /\ op # "RemoveMetadata"
    BY <1>1, <2>1
  <2> QED
    BY <2>1, <2>2, <2>3, AskCredentialStoreStores
<1> QED
  BY <1>3, <1>4, <1>5

LEMMA JobTimesOutStores ==
  ASSUME CallInv, CallInv', StoreInv, JobTimesOut
  PROVE  StoreInv'
<1>1. CallsOK /\ JobsOK /\ ReadJobsOK /\ PairOK /\ FALSE \in BOOLEAN
  BY DEF CallInv, CallsOK, ReadCallsOK, StoreInv
<1>2. UNCHANGED <<intents, meta, token, fileToken, keychain>>
  BY DEF JobTimesOut
<1>3. PICK j \in DOMAIN jobs :
        /\ jobs[j].awaited
        /\ jobs' = GiveUp(j)
        /\ \/ /\ jobs[j].kind = "Read"
              /\ EndRead(jobs[j].arg, <<>>)
           \/ /\ jobs[j].kind # "Read"
              /\ OnStepDone(jobs[j].arg, jobs[j].kind, FALSE, <<>>)
              /\ UNCHANGED reads
  BY DEF JobTimesOut
<1>4. \A i \in DOMAIN jobs' :
         \E k \in DOMAIN jobs : jobs'[i].kind = jobs[k].kind /\ jobs'[i].arg = jobs[k].arg
  <2>1. /\ DOMAIN jobs' = DOMAIN jobs
        /\ \A i \in DOMAIN jobs : i # j => jobs'[i] = jobs[i]
        /\ jobs'[j].kind = jobs[j].kind /\ jobs'[j].arg = jobs[j].arg
    BY <1>1, <1>2, <1>3, GivenUpFacts
  <2>2. \A i \in DOMAIN jobs : jobs'[i].kind = jobs[i].kind /\ jobs'[i].arg = jobs[i].arg
    BY <2>1
  <2> QED
    BY <2>1, <2>2
<1>5. CASE jobs[j].kind = "Read" /\ EndRead(jobs[j].arg, <<>>)
  <2>1. jobs[j].arg \in Readers
    BY <1>1, <1>3, <1>5 DEF ReadJobsOK, Readers
  <2>2. /\ log' = log
        /\ mActive' = mActive \/ mActive'.step = 1
        /\ \A s \in Readers' : s \in Readers /\ reads'[s] = reads[s]
    BY <1>5, <2>1, EndReadStands
  <2> QED
    BY <1>2, <1>4, <2>2, SameLog, IdleStands
<1>6. CASE /\ jobs[j].kind # "Read"
           /\ OnStepDone(jobs[j].arg, jobs[j].kind, FALSE, <<>>)
           /\ UNCHANGED reads
  <2>1. /\ mActive # NoRequest
        /\ jobs[j].arg = mActive.id /\ jobs[j].kind = CurrentOp(mActive)
    BY <1>1, <1>3, <1>6 DEF CallsOK
  <2>2. PairOK'
    BY <1>1, <1>2, <1>4, PairStands
  <2>3. OnStepDone(mActive.id, CurrentOp(mActive), FALSE, <<>>)
    BY <1>6, <2>1
  <2> QED
    BY <1>1, <1>2, <1>6, <2>1, <2>2, <2>3, StepDoneStores
<1> QED
  BY <1>3, <1>5, <1>6

\* What a job makes of the token, wherever it is put; an answer that is heard is true.
LEMMA JobStores ==
  ASSUME OnePlace, token' = 0 \/ fileToken' = 0,
         NEW job \in Jobs, NEW done \in BOOLEAN, NEW fileDone \in BOOLEAN,
         token' = IF done THEN TokenAfter(job.kind, job.arg) ELSE token,
         fileToken' = IF job.awaited /\ fileDone THEN FileTokenAfter(job, done) ELSE fileToken
  PROVE  /\ ~ChangesToken(job) => StoredToken' = StoredToken
         /\ job.kind = "WriteToken" => StoredToken' \in {StoredToken, job.arg}
         /\ job.kind = "RemoveToken" => StoredToken' \in {StoredToken, 0}
         /\ job.awaited /\ Answer(job, done, fileDone) =>
               /\ job.kind = "WriteToken" /\ job.arg # 0 => StoredToken' = job.arg
               /\ job.kind = "RemoveToken" => StoredToken' = 0
<1>1. CASE ~ChangesToken(job)
  <2>1. token' = token
    BY <1>1 DEF TokenAfter, ChangesToken
  <2>2. fileToken' = fileToken
    BY <1>1 DEF FileTokenAfter, ChangesToken
  <2> QED
    BY <1>1, <2>1, <2>2 DEF StoredToken, ChangesToken
<1>2. CASE job.kind = "WriteToken"
  <2>1. token' = IF done THEN job.arg ELSE token
    BY <1>2 DEF TokenAfter
  <2>2. fileToken' = IF job.awaited /\ fileDone /\ ~done THEN job.arg ELSE fileToken
    BY <1>2 DEF FileTokenAfter
  <2>3. Answer(job, done, fileDone) <=> done \/ fileDone
    BY <1>2 DEF Answer
  <2> QED
    BY <1>2, <2>1, <2>2, <2>3 DEF StoredToken, OnePlace, ChangesToken
<1>3. CASE job.kind = "RemoveToken"
  <2>1. token' = IF done THEN 0 ELSE token
    BY <1>3 DEF TokenAfter
  <2>2. fileToken' = IF job.awaited /\ fileDone THEN 0 ELSE fileToken
    BY <1>3 DEF FileTokenAfter
  <2>3. Answer(job, done, fileDone) <=> done /\ (fileDone \/ fileToken = 0)
    BY <1>3 DEF Answer
  <2> QED
    BY <1>3, <2>1, <2>2, <2>3 DEF StoredToken, OnePlace, ChangesToken
<1> QED
  BY <1>1, <1>2, <1>3 DEF ChangesToken

\* The one step of the keychain: a job whose caller has gone may still change the
\* token, though not one that is said to be settled.
LEMMA JobEndsStores ==
  ASSUME CallInv, CallInv', StoreInv, JobEnds, ~twoPlaces'
  PROVE  StoreInv'
<1>1. CallsOK /\ JobsOK /\ ReadJobsOK /\ PairOK /\ OnePlace /\ DataOK
  BY DEF CallInv, CallsOK, ReadCallsOK, StoreInv, PairOK
<1>2. UNCHANGED <<intents, meta, keychain>> /\ jobs # <<>> /\ jobs' = Tail(jobs)
  BY DEF JobEnds
<1>3. /\ Head(jobs) = jobs[1] /\ 1 \in DOMAIN jobs /\ jobs[1] \in Jobs
      /\ \A j \in DOMAIN jobs' : j + 1 \in DOMAIN jobs /\ jobs'[j] = jobs[j + 1]
      /\ Len(jobs') = Len(jobs) - 1 /\ Len(jobs) \in Nat
      /\ JobsOK'
  BY <1>1, <1>2, EndedFacts
<1>4. PICK job : job = Head(jobs)
  OBVIOUS
<1>5. job = jobs[1] /\ job \in Jobs
  BY <1>3, <1>4
<1>6. PICK done \in BOOLEAN, fileDone \in BOOLEAN :
        /\ token' = IF done THEN TokenAfter(job.kind, job.arg) ELSE token
        /\ fileToken' = IF job.awaited /\ fileDone THEN FileTokenAfter(job, done) ELSE fileToken
        /\ twoPlaces' = (twoPlaces \/ (token' # 0 /\ fileToken' # 0))
        /\ \/ /\ ~job.awaited
              /\ UNCHANGED <<requestVars, reads>>
           \/ /\ job.awaited /\ job.kind = "Read"
              /\ EndRead(job.arg, <<>>)
           \/ /\ job.awaited /\ job.kind # "Read"
              /\ OnStepDone(job.arg, job.kind, Answer(job, done, fileDone), <<>>)
              /\ UNCHANGED reads
  BY <1>4 DEF JobEnds
<1>7. (token' = 0 \/ fileToken' = 0) /\ OnePlace'
  <2>1. token' = 0 \/ fileToken' = 0
    BY <1>6
  <2>2. keychain'
    BY <1>1, <1>2, <1>3 DEF JobsOK
  <2> QED
    BY <2>1, <2>2 DEF OnePlace
<1>8. /\ ~ChangesToken(job) => StoredToken' = StoredToken
      /\ job.kind = "WriteToken" => StoredToken' \in {StoredToken, job.arg}
      /\ job.kind = "RemoveToken" => StoredToken' \in {StoredToken, 0}
      /\ job.awaited /\ Answer(job, done, fileDone) =>
            /\ job.kind = "WriteToken" /\ job.arg # 0 => StoredToken' = job.arg
            /\ job.kind = "RemoveToken" => StoredToken' = 0
  BY <1>1, <1>5, <1>6, <1>7, JobStores
<1>9. \A j \in DOMAIN jobs' :
         \E i \in DOMAIN jobs : jobs'[j].kind = jobs[i].kind /\ jobs'[j].arg = jobs[i].arg
  BY <1>3
<1>10. PairOK'
  <2>1. meta = NoMetadata => StoredToken' = 0 /\ \A j \in DOMAIN jobs' : jobs'[j].kind # "WriteToken"
    <3>1. meta = NoMetadata => job.kind # "WriteToken" /\ StoredToken = 0
      BY <1>1, <1>3, <1>5 DEF PairOK
    <3>2. meta = NoMetadata => StoredToken' = 0
      BY <1>8, <3>1 DEF ChangesToken
    <3> QED
      BY <1>1, <1>9, <3>2 DEF PairOK
  <2>2. meta.inTheClear =>
          /\ StoredToken' \in {0, meta.from}
          /\ \A j \in DOMAIN jobs' : jobs'[j].kind = "WriteToken" => jobs'[j].arg = meta.from
    <3>1. meta.inTheClear => /\ StoredToken \in {0, meta.from}
                             /\ job.kind = "WriteToken" => job.arg = meta.from
      BY <1>1, <1>3, <1>5 DEF PairOK
    <3>2. meta.inTheClear => StoredToken' \in {0, meta.from}
      BY <1>8, <3>1 DEF ChangesToken
    <3>3. meta.inTheClear =>
            \A j \in DOMAIN jobs' : jobs'[j].kind = "WriteToken" => jobs'[j].arg = meta.from
      <4>1. meta.inTheClear =>
              \A i \in DOMAIN jobs : jobs[i].kind = "WriteToken" => jobs[i].arg = meta.from
        BY <1>1 DEF PairOK
      <4> QED
        BY <1>3, <4>1
    <3> QED
      BY <3>2, <3>3
  <2> QED
    BY <1>2, <1>7, <2>1, <2>2 DEF PairOK
<1>11. TokenSettled => StoredToken' = StoredToken /\ TokenSettled'
  <2>1. TokenSettled => ~ChangesToken(job)
    BY <1>3, <1>5 DEF TokenSettled
  <2>2. TokenSettled => TokenSettled'
    BY <1>3 DEF TokenSettled
  <2> QED
    BY <1>8, <2>1, <2>2
<1>12. /\ Requests' = Requests /\ Len(intents') \in Nat
       /\ \A id \in Requests : intents'[id] = intents[id]
  BY <1>1, <1>2, BasicFacts DEF Requests
<1>13. CASE ~job.awaited /\ UNCHANGED <<requestVars, reads>>
  <2>1. mActive' = mActive /\ log' = log /\ reads' = reads
    BY <1>13 DEF requestVars
  <2>2. \A r \in Readers' : r \in Readers /\ reads'[r] = reads[r]
    BY <2>1, SameReaders
  <2>3. \A id \in Requests' : Told(id, "Reached")' => id \in Requests /\ Told(id, "Reached")
    BY <1>12, <2>1, SameLog
  <2> QED
    BY <1>2, <1>10, <1>11, <1>12, <2>1, <2>2, <2>3, StoreStands
<1>14. CASE job.awaited /\ job.kind = "Read" /\ EndRead(job.arg, <<>>)
  <2>1. job.arg \in Readers
    BY <1>1, <1>3, <1>5, <1>14 DEF ReadJobsOK, Readers
  <2>2. /\ log' = log
        /\ mActive' = mActive \/ mActive'.step = 1
        /\ \A s \in Readers' : s \in Readers /\ reads'[s] = reads[s]
    BY <1>14, <2>1, EndReadStands
  <2>3. \A id \in Requests' : Told(id, "Reached")' => id \in Requests /\ Told(id, "Reached")
    BY <1>12, <2>2, SameLog
  <2> QED
    BY <1>2, <1>10, <1>11, <1>12, <2>2, <2>3, StoreStands
<1>15. CASE /\ job.awaited /\ job.kind # "Read"
            /\ OnStepDone(job.arg, job.kind, Answer(job, done, fileDone), <<>>)
            /\ UNCHANGED reads
  <2>1. /\ 1 = Len(jobs) /\ mActive # NoRequest
        /\ job.arg = mActive.id /\ job.kind = CurrentOp(mActive)
        /\ job.kind = "WriteMetadata" => meta = MetadataPayload(mActive)
        /\ job.kind = "RemoveMetadata" => meta = NoMetadata
    BY <1>1, <1>3, <1>5, <1>15 DEF CallsOK
  <2>2. TokenSettled'
    <3>1. Len(jobs') = 0
      <4>1. Len(jobs) = 1
        BY <2>1
      <4> QED
        BY <1>3, <4>1
    <3>2. DOMAIN jobs' = {}
      BY <1>3, <3>1 DEF JobsOK
    <3> QED
      BY <3>2 DEF TokenSettled
  <2>3. PICK ok \in BOOLEAN : ok = Answer(job, done, fileDone)
    BY DEF Answer
  <2>4. mActive.id # 0
    BY <2>1, CurrentOpIs DEF CallInv, TurnInv
  <2>5. job.kind \in {"WriteMetadata", "WriteToken", "RemoveToken", "RemoveMetadata"}
    BY <1>5, <1>15 DEF Jobs, Operation
  <2>6. ok => Done(job.kind)
    BY <1>2, <1>8, <1>15, <2>1, <2>2, <2>3, <2>4, <2>5 DEF Done, ChangesToken
  <2>7. OnStepDone(mActive.id, CurrentOp(mActive), ok, <<>>)
    BY <1>15, <2>1, <2>3
  <2> QED
    BY <1>2, <1>10, <1>15, <2>1, <2>6, <2>7, StepDoneStores
<1> QED
  BY <1>6, <1>13, <1>14, <1>15

-----------------------------------------------------------------------------

LEMMA InitStores ==
  ASSUME Init
  PROVE  StoreInv
<1>1. /\ intents = <<>> /\ Len(intents) = 0 /\ mActive = NoRequest
      /\ reads = <<>> /\ DOMAIN reads = {} /\ jobs = <<>> /\ DOMAIN jobs = {}
      /\ meta = NoMetadata /\ token = 0 /\ fileToken = 0
  BY DEF Init
<1>2. Requests = {} /\ Readers = {} /\ NoMetadata.inTheClear = FALSE
  BY <1>1 DEF Requests, Readers, NoMetadata
<1>3. OnePlace /\ StoredToken = 0
  BY <1>1 DEF OnePlace, StoredToken
<1> QED
  BY <1>1, <1>2, <1>3 DEF StoreInv, PairOK, ProgressOK, NewestHolds, ReadersSee

LEMMA StepsStore ==
  ASSUME CallInv, StoreInv, [Next]_vars, ~twoPlaces'
  PROVE  StoreInv'
<1> CallInv'
  BY StepsCall
<1>1. CASE \E intent \in Intent : SetIntent(intent)
  BY <1>1, SetIntentStores
<1>2. CASE WhenReadable
  BY <1>2, WhenReadableStores
<1>3. CASE SetIntentReturns
  BY <1>3, SetIntentReturnsStores
<1>4. CASE ReportAbandoned
  BY <1>4, ReportAbandonedStores
<1>5. CASE ClientReturns
  BY <1>5, NothingStored DEF ClientReturns, readVars, storeVars
<1>6. CASE GrantWaitingReads
  BY <1>6, GrantStores
<1>7. CASE PerformWriteMetadata \/ PerformRemoveMetadata \/ PerformOnToken
  BY <1>7, PerformStores
<1>8. CASE ReadEntry
  BY <1>8, ReadEntryStores
<1>9. CASE JobEnds
  BY <1>9, JobEndsStores
<1>10. CASE JobTimesOut
  BY <1>10, JobTimesOutStores
<1>11. CASE CloseProfile
  BY <1>11, CloseProfileStores
<1>12. CASE UNCHANGED vars
  BY <1>12, NothingStored DEF vars
<1> QED
  BY <1>1, <1>2, <1>3, <1>4, <1>5, <1>6, <1>7, <1>8, <1>9, <1>10, <1>11, <1>12
     DEF Next, Proceed

\* Once the keychain and a file have each held a token, they have.
LEMMA TwoPlacesStays ==
  ASSUME twoPlaces, [Next]_vars
  PROVE  twoPlaces'
<1>1. CASE \E intent \in Intent : SetIntent(intent)
  BY <1>1 DEF SetIntent, storeVars
<1>2. CASE WhenReadable \/ SetIntentReturns \/ ReportAbandoned \/ ClientReturns \/ GrantWaitingReads
  BY <1>2
     DEF WhenReadable, SetIntentReturns, ReportAbandoned, ClientReturns, GrantWaitingReads, storeVars
<1>3. CASE PerformWriteMetadata
  BY <1>3 DEF PerformWriteMetadata, AskCredentialStore, storeVars
<1>4. CASE PerformRemoveMetadata
  BY <1>4 DEF PerformRemoveMetadata, AskCredentialStore, storeVars
<1>5. CASE PerformOnToken
  BY <1>5 DEF PerformOnToken, AskCredentialStore
<1>6. CASE ReadEntry
  BY <1>6 DEF ReadEntry
<1>7. CASE JobEnds
  BY <1>7 DEF JobEnds
<1>8. CASE JobTimesOut
  BY <1>8 DEF JobTimesOut
<1>9. CASE CloseProfile
  BY <1>9 DEF CloseProfile
<1>10. CASE UNCHANGED vars
  BY <1>10 DEF vars
<1> QED
  BY <1>1, <1>2, <1>3, <1>4, <1>5, <1>6, <1>7, <1>8, <1>9, <1>10 DEF Next, Proceed

LEMMA StoreInvHolds == Spec => [](CallInv /\ (~twoPlaces => StoreInv))
<1>1. Init => CallInv /\ (~twoPlaces => StoreInv)
  BY InitCalls, InitStores
<1>2. CallInv /\ (~twoPlaces => StoreInv) /\ [Next]_vars => (CallInv /\ (~twoPlaces => StoreInv))'
  BY StepsCall, StepsStore, TwoPlacesStays
<1> QED
  BY <1>1, <1>2, PTL DEF Spec

\* The token the store holds has metadata beside it, and metadata that lets it
\* travel in the clear only if it is the token of the request that asked so,
\* between two steps of sequenceFor() as well, after a failure, when a job of the
\* keychain that was given up on is carried out after all, and when the keychain
\* refuses tokens and a file has them; until the keychain and the file have each
\* held one, which is what breaks the promise (NeverPairedWithPermission).
THEOREM TokenIsPaired == Spec => []TokenHasItsMetadata
<1>1. ASSUME ~twoPlaces => StoreInv PROVE TokenHasItsMetadata
  BY <1>1 DEF StoreInv, PairOK, TokenHasItsMetadata
<1>2. CallInv /\ (~twoPlaces => StoreInv) => TokenHasItsMetadata
  BY <1>1
<1> QED
  BY <1>2, StoreInvHolds, PTL

\* When the newest request was reported as reached the store holds what it asked
\* for, in the keychain or in the file, and no job that was left over will change
\* that: finish(Reached) is told of the state of the store and not of the answers
\* alone; until the keychain and the file have each held a token.
THEOREM WhatWasReachedIsStored == Spec => []ReachedInOnePlace
<1>1. ASSUME CallInv, ~twoPlaces => StoreInv PROVE ReachedInOnePlace
  <2>1. Len(intents) \in Nat
    BY <1>1, BasicFacts DEF CallInv
  <2>2. ASSUME ~twoPlaces, Len(intents) > 0, Told(Len(intents), "Reached")
        PROVE  StoreHolds(Len(intents)) /\ ~\E j \in DOMAIN jobs : ChangesToken(jobs[j])
    <3>1. Holds(Len(intents))
      BY <1>1, <2>1, <2>2 DEF StoreInv, NewestHolds, Requests
    <3> QED
      BY <3>1 DEF Holds, StoreHolds, TokenSettled
  <2> QED
    BY <2>2 DEF ReachedInOnePlace, ReachedIsStored
<1>2. CallInv /\ (~twoPlaces => StoreInv) => ReachedInOnePlace
  BY <1>1
<1> QED
  BY <1>2, StoreInvHolds, PTL

\* A read returns both halves of what was stored by the request reached last
\* before whenReadable() granted it: no operation of another request comes in
\* between the reading of the metadata and the reading of the token; until the
\* keychain and the file have each held a token.
THEOREM ReadsSeeOneState == Spec => []ReadSeesWhatWasReached
<1>1. ASSUME CallInv, ~twoPlaces => StoreInv PROVE ReadSeesWhatWasReached
  <2>1. reads \in Seq(ReadRecords) /\ Len(intents) \in Nat
    BY <1>1, BasicFacts DEF CallInv, DataOK
  <2>2. ASSUME ~twoPlaces, NEW r \in DOMAIN reads, NEW last, last = reads[r].lastRequestId,
               reads[r].at = "reading", last > 0, Told(last, "Reached")
        PROVE  reads[r].meta = TargetMetadata(last) /\ StoredToken = TargetToken(last)
    <3>1. last \in Requests
      <4>1. reads[r] \in ReadRecords
        BY <2>1, <2>2
      <4> QED
        BY <2>1, <2>2, <4>1 DEF ReadRecords, Requests
    <3>2. Holds(last) /\ reads[r].meta = TargetMetadata(last)
      BY <1>1, <2>2, <3>1 DEF StoreInv, ReadersSee, Readers
    <3> QED
      BY <3>2 DEF Holds
  <2> QED
    BY <2>2 DEF ReadSeesWhatWasReached
<1>2. CallInv /\ (~twoPlaces => StoreInv) => ReadSeesWhatWasReached
  BY <1>1
<1> QED
  BY <1>2, StoreInvHolds, PTL
=============================================================================
