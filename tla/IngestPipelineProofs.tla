------------------------ MODULE IngestPipelineProofs ------------------------
(***************************************************************************)
(* IngestPipeline for every set of units, settings and bounds: who may     *)
(* touch the job, and that the lines are committed as SerialDecoder says.  *)
(*                                                                         *)
(* The first part is in the state of the job alone: the worker holds it    *)
(* exactly while it is Running, and it becomes Running only out of Queued, *)
(* in which the main thread leaves it only while it has a unit in hand     *)
(* that it began the job for.  The second is in what the job says: each    *)
(* line is the decoding of the one after the line before, so that one that *)
(* fits where the main thread is says what it would decode there.          *)
(***************************************************************************)
EXTENDS IngestPipeline, TLAPS

\* Where the main thread may be with a job that it began and has not ended.
JobLabels == {"bump", "notify", "replay", "resume", "await", "awaitReady", "awaitLast",
              "decode", "script", "end"}

WorkerHoldsRunning == WorkerHolds <=> mState = "Running"

QueuedIsBegun == mState = "Queued" => pc \in JobLabels /\ mpActiveSpeculation

FilledIsNobodys == pc \in {"fill", "queue"} => mState # "Running"

ResumedIsDone == pc = "resumable" => mState = "Done"

\* The main thread takes lines only of a job that it began and has not ended.
SpeculationIsBegun ==
    speculation =>
        /\ mpActiveSpeculation
        /\ pc \in JobLabels \cup {"fill", "queue", "resumable", "cancel"}

\* It queues a job, or looks into it, only to take its lines.
LookingSpeculates ==
    pc \in {"fill", "queue", "bump", "notify", "replay", "resume", "resumable", "await",
            "awaitReady", "awaitLast"} => speculation

Flags == speculation \in BOOLEAN /\ mpActiveSpeculation \in BOOLEAN /\ mCancel \in BOOLEAN

JobInv ==
    /\ Flags
    /\ WorkerHoldsRunning
    /\ QueuedIsBegun
    /\ FilledIsNobodys
    /\ ResumedIsDone
    /\ SpeculationIsBegun
    /\ LookingSpeculates
    /\ CancelIsForItsJob

-----------------------------------------------------------------------------

\* No job is there at first.
LEMMA JobInvInit == Init => JobInv
  BY DEF Init, JobInv, Flags, WorkerHoldsRunning, WorkerHolds, QueuedIsBegun, FilledIsNobodys,
         ResumedIsDone, SpeculationIsBegun, LookingSpeculates,
              CancelIsForItsJob

\* The worker takes a job only out of Queued, and leaves it Done.
LEMMA JobInvWorker == JobInv /\ Worker => JobInv'
  <1> SUFFICES ASSUME JobInv, Worker PROVE JobInv'
    OBVIOUS
  <1> USE DEF JobInv, Flags, WorkerHoldsRunning, WorkerHolds, QueuedIsBegun, FilledIsNobodys,
              ResumedIsDone, SpeculationIsBegun, LookingSpeculates,
              CancelIsForItsJob, JobLabels, GotoW,
              signalVars, replayVars
  <1>1. CASE LoadEpoch
    BY <1>1 DEF LoadEpoch
  <1>2. CASE CheckStop
    BY <1>2 DEF CheckStop
  <1>3. CASE Wait
    BY <1>3 DEF Wait
  <1>4. CASE Claim
    BY <1>4 DEF Claim
  <1>5. CASE Parse
    <2>1. wpc = "parse" /\ wpc' \in {"write", "finish"}
      BY <1>5 DEF Parse, Stop
    <2>2. UNCHANGED <<pc, replayVars, signalVars>>
      BY <1>5 DEF Parse
    <2> QED
      BY <2>1, <2>2
  <1>6. CASE WriteLine
    BY <1>6 DEF WriteLine
  <1>7. CASE PublishLine
    BY <1>7 DEF PublishLine
  <1>8. CASE Finish
    BY <1>8 DEF Finish
  <1>9. CASE StoreDone
    BY <1>9 DEF StoreDone
  <1> QED
    BY <1>1, <1>2, <1>3, <1>4, <1>5, <1>6, <1>7, <1>8, <1>9 DEF Worker

\* After end() no line of the job is taken.
LEMMA EndedClears ==
    Ended => /\ pc' \in {"decode", "idle"}
             /\ speculation' = FALSE
             /\ mpActiveSpeculation' \in BOOLEAN
  <1> SUFFICES ASSUME Ended
               PROVE /\ pc' \in {"decode", "idle"}
                     /\ speculation' = FALSE
                     /\ mpActiveSpeculation' \in BOOLEAN
    OBVIOUS
  <1>1. pc' \in {"decode", "idle"}
    BY DEF Ended, Goto
  <1>2. speculation' = FALSE
    BY DEF Ended
  <1>3. mpActiveSpeculation' = (position < Len(unit.lines))
    BY DEF Ended
  <1> QED
    BY <1>1, <1>2, <1>3

\* The main thread, in the calls that a unit's arrival leads to.
LEMMA JobInvMainBusy == JobInv /\ MainBusy => JobInv'
  <1> SUFFICES ASSUME JobInv, MainBusy PROVE JobInv'
    OBVIOUS
  <1> USE DEF JobInv, Flags, WorkerHoldsRunning, WorkerHolds, QueuedIsBegun, FilledIsNobodys,
              ResumedIsDone, SpeculationIsBegun, LookingSpeculates,
              CancelIsForItsJob, JobLabels, Goto,
              signalVars, replayVars, workerVars
  <1>1. CASE Begin
    <2>1. CASE wpc = "returned" \/ mState = "Running"
      BY <1>1, <2>1 DEF Begin
    <2>2. CASE wpc # "returned" /\ mState # "Running"
      <3>1. pc = "begin" /\ pc' = "fill" /\ speculation' = TRUE /\ mpActiveSpeculation' = TRUE
        BY <1>1, <2>2 DEF Begin
      <3>2. UNCHANGED <<signalVars, workerVars>>
        BY <1>1 DEF Begin
      <3> QED
        BY <2>2, <3>1, <3>2
    <2> QED
      BY <2>1, <2>2
  <1>2. CASE Fill
    <2>1. pc = "fill" /\ pc' = "queue" /\ mCancel' = FALSE
      BY <1>2 DEF Fill
    <2>2. UNCHANGED <<speculation, mpActiveSpeculation, mState, wpc>>
      BY <1>2 DEF Fill
    <2> QED
      BY <2>1, <2>2
  <1>3. CASE Queue
    BY <1>3 DEF Queue
  <1>4. CASE BumpEpoch
    BY <1>4 DEF BumpEpoch
  <1>5. CASE Notify
    BY <1>5 DEF Notify
  <1>6. CASE Replay
    <2>1. pc = "replay" /\ pc' \in {"resume", "decode", "script"}
      BY <1>6 DEF Replay, Take, TakeToVerify
    <2>2. UNCHANGED <<speculation, mpActiveSpeculation, signalVars, workerVars>>
      BY <1>6 DEF Replay
    <2> QED
      BY <2>1, <2>2
  <1>7. CASE Resume
    BY <1>7 DEF Resume
  <1>8. CASE ResumeFrom
    <2>1. pc = "resumable" /\ pc' \in {"fill", "await"}
      BY <1>8 DEF ResumeFrom
    <2>2. UNCHANGED <<replayVars, signalVars, workerVars>>
      BY <1>8 DEF ResumeFrom
    <2> QED
      BY <2>1, <2>2
  <1>9. CASE Await
    BY <1>9 DEF Await
  <1>10. CASE AwaitReady
    <2>1. pc \in {"awaitReady", "awaitLast"} /\ pc' \in {"replay", "decode", "await"}
      BY <1>10 DEF AwaitReady
    <2>2. UNCHANGED <<replayVars, signalVars, workerVars>>
      BY <1>10 DEF AwaitReady
    <2> QED
      BY <2>1, <2>2
  <1>11. CASE Decode
    BY <1>11 DEF Decode
  <1>12. CASE Script
    BY <1>12 DEF Script
  <1>13. CASE LeaveSpeculation
    BY <1>13 DEF LeaveSpeculation
  <1>14. CASE End
    <2>1. CASE mState = "Running" /\ pc' = "cancel"
      BY <1>14, <2>1 DEF End
    <2>2. CASE ~(mState = "Running" /\ pc' = "cancel")
      <3>1. Ended
        BY <1>14, <2>2 DEF End
      <3>2. mState' # "Queued" /\ (mState' = "Running" <=> mState = "Running")
        BY <1>14 DEF End
      <3>3. wpc' = wpc /\ mCancel' = mCancel
        BY <1>14 DEF End
      <3> QED
        BY <3>1, <3>2, <3>3, EndedClears
    <2> QED
      BY <2>1, <2>2
  <1>15. CASE Cancel
    <2>1. pc' \in {"decode", "idle"} /\ speculation' = FALSE /\ mpActiveSpeculation' \in BOOLEAN
      BY <1>15, EndedClears DEF Cancel
    <2>2. pc = "cancel" /\ mCancel' /\ UNCHANGED <<mState, wpc>>
      BY <1>15 DEF Cancel
    <2> QED
      BY <2>1, <2>2
  <1>16. CASE StopWorker
    BY <1>16 DEF StopWorker
  <1>17. CASE JoinWorker
    BY <1>17 DEF JoinWorker
  <1> QED
    BY <1>1, <1>2, <1>3, <1>4, <1>5, <1>6, <1>7, <1>8, <1>9, <1>10, <1>11, <1>12, <1>13,
       <1>14, <1>15, <1>16, <1>17 DEF MainBusy

\* A unit arrives, or the destructor is called, while no job is begun.
LEMMA JobInvIdle == JobInv /\ (Receive \/ Destroy) => JobInv'
  <1> SUFFICES ASSUME JobInv, Receive \/ Destroy PROVE JobInv'
    OBVIOUS
  <1> USE DEF JobInv, Flags, WorkerHoldsRunning, WorkerHolds, QueuedIsBegun, FilledIsNobodys,
              ResumedIsDone, SpeculationIsBegun, LookingSpeculates,
              CancelIsForItsJob, JobLabels, Goto,
              signalVars, replayVars, workerVars
  <1>1. CASE Receive
    <2>1. pc = "idle" /\ pc' \in {"begin", "decode"}
      BY <1>1 DEF Receive
    <2>2. UNCHANGED <<replayVars, signalVars, workerVars>>
      BY <1>1 DEF Receive
    <2> QED
      BY <2>1, <2>2
  <1>2. CASE Destroy
    BY <1>2 DEF Destroy
  <1> QED
    BY <1>1, <1>2

LEMMA JobInvariant == Spec => []JobInv
  <1>1. JobInv /\ [Next]_vars => JobInv'
    <2>1. JobInv /\ UNCHANGED vars => JobInv'
      BY DEF JobInv, Flags, WorkerHoldsRunning, WorkerHolds, QueuedIsBegun, FilledIsNobodys,
             ResumedIsDone, SpeculationIsBegun, LookingSpeculates,
              CancelIsForItsJob, vars, signalVars,
             replayVars, workerVars
    <2> QED
      BY <2>1, JobInvWorker, JobInvMainBusy, JobInvIdle DEF Next
  <1> QED
    BY <1>1, JobInvInit, PTL DEF Spec

-----------------------------------------------------------------------------

\* The main thread fills the job in, and reads where to resume from, only while
\* the worker does not have it: queue() and resume() never race with parse().
THEOREM MainOwnsTheJob == Spec => []MainOwnsJob
  <1>1. JobInv => MainOwnsJob
    BY DEF JobInv, WorkerHoldsRunning, FilledIsNobodys, ResumedIsDone, MainOwnsJob
  <1> QED
    BY <1>1, JobInvariant, PTL

\* The flag by which end() cancels one job is down in every job that the main
\* thread still takes lines of, however late the worker comes to it.
THEOREM CancelledJobOnly == Spec => []CancelIsForItsJob
  <1>1. JobInv => CancelIsForItsJob
    BY DEF JobInv
  <1> QED
    BY <1>1, JobInvariant, PTL

-----------------------------------------------------------------------------
(* What is in the job.  The lines of a turn follow one another from where  *)
(* it was queued, each decoded in the state that the one before it left;   *)
(* with where the worker's own parser is, that says for every line the     *)
(* main thread finds what it would have decoded in the worker's place.     *)

\* The state that the worker decodes the n-th line of the job in.
StateBefore(n) == IF n = 1 THEN mStartState ELSE mLines[n - 1].stateAtCommit

LineOK(n) ==
    /\ mLines[n].start = mStartPosition + n - 1
    /\ mLines[n].start < Len(mUnit.lines)
    /\ mLines[n].stateAtCommit = StateAfter[mUnit.lines[mStartPosition + n]][StateBefore(n)]
    /\ mLines[n].decoded =
          Serial!Decoded(mUnit, mStartPosition + n, StateBefore(n), mConfig, FALSE)

LinesOK == \A n \in 1..mReady : LineOK(n)

\* No line is left to be used past the place to go on from.
ResumesPastLines == mResumeFrom # NoResume => mStartPosition + mReady <= mResumeFrom

TwinOK ==
    /\ wpc \in {"parse", "write"} =>
          /\ twin.position = mStartPosition + mReady
          /\ twin.state = StateBefore(mReady + 1)
    /\ wpc \in {"parse", "write", "publish"} => mResumeFrom = NoResume
    /\ wpc = "write" => mReady < MaxLines /\ twin.position < Len(mUnit.lines)
    /\ wpc = "publish" =>
          /\ mReady < MaxLines
          /\ LineOK(mReady + 1)
          /\ twin.position = mStartPosition + mReady + 1
          /\ twin.state = StateBefore(mReady + 2)
    /\ wpc = "finish" => twin.position = mStartPosition + mReady
    /\ wpc \in {"finish", "done"} => ResumesPastLines

DoneOK == mState = "Done" /\ pc # "queue" => ResumesPastLines

\* The main thread counts only lines there are, from none when it queues.
Counted ==
    /\ mNext <= mReady
    /\ mState = "Queued" \/ pc = "queue" => mReady = 0

\* A job is about the unit in hand as long as lines of it are taken.
SpeculatesOnUnit == speculation /\ pc # "fill" => mUnit = unit

IInv ==
    /\ TypeOK
    /\ JobInv
    /\ LinesOK
    /\ TwinOK
    /\ DoneOK
    /\ Counted
    /\ SpeculatesOnUnit

-----------------------------------------------------------------------------
(* Types.                                                                  *)

LEMMA StateAfterType ==
  \A kind \in LineKinds, state \in ParseStates : StateAfter[kind][state] \in ParseStates
  BY DEF StateAfter, ParseStates

LEMMA DecodedType ==
  ASSUME NEW u \in UnitRecords, NEW n \in Nat, NEW state \in ParseStates,
         NEW config \in Configs, NEW carried \in BOOLEAN
  PROVE  Serial!Decoded(u, n, state, config, carried) \in DecodedLines
  BY DEF Serial!Decoded, DecodedLines, UnitRecords

LEMMA NoLineType == NoUnit \in UnitRecords /\ NoLine \in Lines /\ NoLine.decoded \in DecodedLines
  <1>1. NoUnit \in UnitRecords
    BY DEF NoUnit, UnitRecords
  <1>2. MXP \in Configs /\ 0 \in ParseStates
    BY IngestAssumption DEF ParseStates
  <1>3. Serial!Decoded(NoUnit, 0, 0, MXP, FALSE) \in DecodedLines
    BY <1>1, <1>2, DecodedType
  <1> QED
    BY <1>1, <1>2, <1>3 DEF NoLine, Lines

LEMMA LinesType ==
  ASSUME TypeOK, NEW n \in 1..MaxLines
  PROVE  /\ mLines[n] \in Lines
         /\ mLines[n].start \in Nat \cup {NoResume}
         /\ mLines[n].stateAtCommit \in ParseStates
         /\ mLines[n].decoded \in DecodedLines
  <1>1. mLines[n] \in Lines
    BY DEF TypeOK
  <1> QED
    BY <1>1 DEF Lines

LEMMA KindType ==
  ASSUME TypeOK
  PROVE  /\ \A n \in 1..Len(unit.lines) : unit.lines[n] \in LineKinds
         /\ \A n \in 1..Len(mUnit.lines) : mUnit.lines[n] \in LineKinds
         /\ Len(unit.lines) \in Nat /\ Len(mUnit.lines) \in Nat
         /\ unit.id \in Nat /\ mUnit.id \in Nat
  <1>1. unit.lines \in Seq(LineKinds) /\ mUnit.lines \in Seq(LineKinds)
        /\ unit.id \in Nat /\ mUnit.id \in Nat
    BY DEF TypeOK, UnitRecords
  <1> QED
    BY <1>1

LEMMA TypeInit == Init => TypeOK
  <1> SUFFICES ASSUME Init PROVE TypeOK
    OBVIOUS
  <1> USE DEF Init
  <1>1. unit = NoUnit /\ position = 0 /\ parseState = 0 /\ parseConfig \in Configs /\ held = FALSE
        /\ committed = Serial!Decoded(NoUnit, 0, 0, parseConfig, FALSE)
    BY DEF Serial!DecoderInit, Serial!Decoded, NoUnit
  <1>2. 0 \in ParseStates /\ MXP \in Configs /\ MaxLines \in Nat /\ MaxChanges \in Nat
    BY IngestAssumption DEF ParseStates
  <1>3. committed \in DecodedLines
    BY <1>1, <1>2, DecodedType, NoLineType
  <1>4. position \in 0..Len(unit.lines)
    BY <1>1 DEF NoUnit
  <1>5. mLines \in [1..MaxLines -> Lines] /\ mpVerifiedLine \in Lines
    BY NoLineType
  <1>6. twin \in [position: Nat, state: ParseStates, stopped: BOOLEAN]
    BY <1>2
  <1>7. pc \in MainLabels /\ wpc \in WorkerLabels
    BY DEF MainLabels, WorkerLabels
  <1>8. /\ unit \in UnitRecords /\ mUnit \in UnitRecords /\ mStartPosition \in Nat
        /\ parseState \in ParseStates /\ mStartState \in ParseStates
        /\ parseConfig \in Configs /\ mConfig \in Configs /\ held \in BOOLEAN
    BY <1>1, <1>2, NoLineType
  <1>9. /\ speculation \in BOOLEAN /\ mpActiveSpeculation \in BOOLEAN
        /\ mCancel \in BOOLEAN /\ mStop \in BOOLEAN
        /\ mWaitForWorker \in BOOLEAN /\ verifying \in BOOLEAN
    OBVIOUS
  <1>10. /\ mNext \in 0..MaxLines /\ changes \in 0..MaxChanges /\ mReady \in 0..MaxLines
         /\ mResumeFrom \in Nat \cup {NoResume}
         /\ mState \in {"Idle", "Queued", "Running", "Done"}
         /\ mEpoch \in Nat /\ epoch \in Nat /\ seen \in Nat
    BY <1>2
  <1> HIDE DEF Init
  <1> QED
    BY <1>3, <1>4, <1>5, <1>6, <1>7, <1>8, <1>9, <1>10 DEF TypeOK

-----------------------------------------------------------------------------
(* The worker.                                                             *)

\* The line that the worker is at.
LEMMA TwinType ==
  ASSUME TypeOK
  PROVE  /\ twin.position \in Nat /\ twin.state \in ParseStates /\ twin.stopped \in BOOLEAN
         /\ \A s : [twin EXCEPT !.stopped = s].position = twin.position
         /\ \A s : [twin EXCEPT !.stopped = s].state = twin.state
         /\ \A s \in BOOLEAN :
              [twin EXCEPT !.stopped = s] \in [position: Nat, state: ParseStates, stopped: BOOLEAN]
  BY DEF TypeOK

\* What the worker never writes.
LEMMA WorkerLeaves ==
  Worker => UNCHANGED <<decoderVars, pc, replayVars, changes, queuedVars, mCancel, mEpoch, mStop, modes>>
  BY DEF Worker, LoadEpoch, CheckStop, Wait, Claim, Parse, WriteLine, PublishLine, Finish,
         StoreDone, signalVars, answerVars

\* The type invariant, of what the worker does write.
WorkerTypes ==
    /\ wpc \in WorkerLabels
    /\ mLines \in [1..MaxLines -> Lines] /\ mReady \in 0..MaxLines
    /\ mResumeFrom \in Nat \cup {NoResume}
    /\ mState \in {"Idle", "Queued", "Running", "Done"}
    /\ epoch \in Nat /\ seen \in Nat
    /\ twin \in [position: Nat, state: ParseStates, stopped: BOOLEAN]

LEMMA WorkerKeepsTypes ==
  ASSUME TypeOK, WorkerTypes', Worker
  PROVE  TypeOK'
  BY WorkerLeaves
  DEF WorkerTypes, TypeOK, decoderVars, replayVars, queuedVars, modes

\* The lines are as long as the job is.
LEMMA LinesFrame ==
  ASSUME UNCHANGED <<mUnit, mStartPosition, mStartState, mConfig, mLines>>
  PROVE  \A n : StateBefore(n)' = StateBefore(n) /\ LineOK(n)' = LineOK(n)
  BY DEF StateBefore, LineOK, Serial!Decoded

\* With the job, its lines and their number as they were.
LEMMA WorkerFrame ==
  ASSUME IInv, Worker, UNCHANGED <<mLines, mReady>>
  PROVE  /\ LinesOK' /\ Counted' /\ SpeculatesOnUnit'
         /\ \A n : StateBefore(n)' = StateBefore(n) /\ LineOK(n)' = LineOK(n)
  <1>1. UNCHANGED <<decoderVars, pc, replayVars, queuedVars>>
    BY WorkerLeaves
  <1>2. \A n : StateBefore(n)' = StateBefore(n) /\ LineOK(n)' = LineOK(n)
    BY <1>1, LinesFrame DEF queuedVars
  <1>3. LinesOK'
    BY <1>2 DEF IInv, LinesOK
  <1>4. SpeculatesOnUnit'
    BY <1>1 DEF IInv, SpeculatesOnUnit, queuedVars, replayVars, decoderVars
  <1>5. mState' = "Queued" => mState = "Queued"
    BY DEF Worker, LoadEpoch, CheckStop, Wait, Claim, Parse, WriteLine, PublishLine, Finish,
           StoreDone, signalVars
  <1>6. Counted'
    BY <1>1, <1>5 DEF IInv, Counted, replayVars
  <1> QED
    BY <1>2, <1>3, <1>4, <1>6

\* The epoch is looked at; the job is not touched.
LEMMA IdlingKeepsIInv ==
  ASSUME IInv, LoadEpoch \/ CheckStop \/ Wait
  PROVE  IInv'
<1>1. Worker
  BY DEF Worker
<1>2. UNCHANGED <<mLines, mReady, mResumeFrom, mState, twin, pc, mStartPosition>>
      /\ wpc' \in {"checkStop", "returned", "claim", "load", "wait", "asleep"}
  BY DEF LoadEpoch, CheckStop, Wait, GotoW, answerVars, signalVars, queuedVars
<1>3. epoch' \in Nat /\ seen' \in Nat
  BY DEF LoadEpoch, CheckStop, Wait, IInv, TypeOK
<1>4. TypeOK'
  <2>1. WorkerTypes'
    BY <1>2, <1>3 DEF WorkerTypes, IInv, TypeOK, WorkerLabels
  <2> QED
    BY <1>1, <2>1, WorkerKeepsTypes DEF IInv
<1>5. JobInv'
  BY <1>1, JobInvWorker DEF IInv
<1>6. TwinOK'
  BY <1>2 DEF TwinOK
<1>7. DoneOK'
  BY <1>2 DEF IInv, DoneOK, ResumesPastLines
<1> QED
  BY <1>1, <1>2, <1>4, <1>5, <1>6, <1>7, WorkerFrame DEF IInv

\* The job is taken: no line of it is written yet.
LEMMA ClaimKeepsIInv ==
  ASSUME IInv, Claim
  PROVE  IInv'
<1>1. Worker
  BY DEF Worker
<1>2. UNCHANGED <<mLines, mReady, pc, mStartPosition, mStartState, epoch, seen>>
  BY DEF Claim, queuedVars
<1>3. \/ /\ mState = "Queued" /\ mState' = "Running" /\ mResumeFrom' = NoResume
         /\ twin' = [position |-> mStartPosition, state |-> mStartState, stopped |-> FALSE]
         /\ wpc' = "parse"
      \/ wpc' = "load" /\ UNCHANGED <<mState, mResumeFrom, twin>>
  BY DEF Claim, GotoW
<1>4. TypeOK'
  <2>1. mStartPosition \in Nat /\ mStartState \in ParseStates
        /\ twin \in [position: Nat, state: ParseStates, stopped: BOOLEAN]
        /\ mResumeFrom \in Nat \cup {NoResume}
        /\ mState \in {"Idle", "Queued", "Running", "Done"}
    BY DEF IInv, TypeOK
  <2>2. /\ twin' \in [position: Nat, state: ParseStates, stopped: BOOLEAN]
        /\ mResumeFrom' \in Nat \cup {NoResume}
        /\ mState' \in {"Idle", "Queued", "Running", "Done"}
        /\ wpc' \in WorkerLabels
    <3>1. CASE wpc' = "load" /\ UNCHANGED <<mState, mResumeFrom, twin>>
      BY <2>1, <3>1 DEF WorkerLabels
    <3>2. CASE /\ mState' = "Running" /\ mResumeFrom' = NoResume /\ wpc' = "parse"
               /\ twin' = [position |-> mStartPosition, state |-> mStartState, stopped |-> FALSE]
      <4>1. twin' \in [position: Nat, state: ParseStates, stopped: BOOLEAN]
        BY <2>1, <3>2
      <4> QED
        BY <3>2, <4>1 DEF WorkerLabels
    <3> QED
      BY <1>3, <3>1, <3>2
  <2>3. WorkerTypes'
    BY <1>2, <2>2 DEF WorkerTypes, IInv, TypeOK
  <2> QED
    BY <1>1, <2>3, WorkerKeepsTypes DEF IInv
<1>5. JobInv'
  BY <1>1, JobInvWorker DEF IInv
<1>6. TwinOK'
  <2>1. CASE wpc' = "load"
    BY <2>1 DEF TwinOK
  <2>2. CASE wpc' = "parse"
    <3>1. mReady = 0 /\ mStartPosition \in Nat
      BY <1>3, <2>2 DEF IInv, Counted, TypeOK
    <3>2. StateBefore(mReady + 1)' = mStartState
      BY <1>2, <3>1 DEF StateBefore
    <3>3. twin'.position = mStartPosition /\ twin'.state = mStartState /\ mResumeFrom' = NoResume
      BY <1>3, <2>2
    <3> QED
      BY <1>2, <2>2, <3>1, <3>2, <3>3 DEF TwinOK
  <2> QED
    BY <1>3, <2>1, <2>2
<1>7. DoneOK'
  BY <1>2, <1>3 DEF IInv, DoneOK, ResumesPastLines
<1> QED
  BY <1>1, <1>2, <1>4, <1>5, <1>6, <1>7, WorkerFrame DEF IInv

\* The line the worker is at is looked at, or there is none left.
LEMMA ParseKeepsIInv ==
  ASSUME IInv, Parse
  PROVE  IInv'
<1>1. Worker
  BY DEF Worker
<1>2. UNCHANGED <<mLines, mReady, pc, mState, mStartPosition, epoch, seen>>
  BY DEF Parse, queuedVars, signalVars
<1>3. /\ wpc = "parse" /\ twin.position = mStartPosition + mReady
      /\ twin.state = StateBefore(mReady + 1)
      /\ mResumeFrom = NoResume
      /\ mState = "Running"
  BY DEF Parse, IInv, TwinOK, JobInv, WorkerHoldsRunning, WorkerHolds
<1>4. /\ mReady \in Nat /\ mStartPosition \in Nat /\ mReady <= MaxLines /\ MaxLines \in Nat
      /\ Len(mUnit.lines) \in Nat
  BY IngestAssumption, KindType DEF IInv, TypeOK
<1>5. \/ wpc' = "finish" /\ UNCHANGED <<twin, mResumeFrom>>
      \/ /\ wpc' = "finish" /\ twin' = [twin EXCEPT !.stopped = TRUE]
         /\ mResumeFrom' \in {mResumeFrom, twin.position + 1, twin.position}
      \/ /\ wpc' = "write" /\ UNCHANGED <<twin, mResumeFrom>>
         /\ twin.position < Len(mUnit.lines) /\ mReady # MaxLines
  BY DEF Parse, Stop, GotoW, OutOfRoom
<1>6. /\ twin'.position = twin.position /\ twin'.state = twin.state
      /\ twin' \in [position: Nat, state: ParseStates, stopped: BOOLEAN]
  BY <1>5, TwinType DEF IInv, TypeOK
<1>7. mResumeFrom' = NoResume \/ (mStartPosition + mReady <= mResumeFrom' /\ mResumeFrom' \in Nat)
  BY <1>3, <1>4, <1>5
<1>8. TypeOK'
  <2>1. WorkerTypes'
    BY <1>2, <1>5, <1>6, <1>7 DEF WorkerTypes, IInv, TypeOK, WorkerLabels
  <2> QED
    BY <1>1, <2>1, WorkerKeepsTypes DEF IInv
<1>9. JobInv'
  BY <1>1, JobInvWorker DEF IInv
<1>10. StateBefore(mReady + 1)' = StateBefore(mReady + 1)
  <2>1. mStartState' = mStartState
    BY <1>1, WorkerLeaves DEF queuedVars
  <2> QED
    BY <1>2, <2>1 DEF StateBefore
<1>11. TwinOK'
  <2>1. CASE wpc' = "finish"
    BY <1>2, <1>3, <1>6, <1>7, <2>1 DEF TwinOK, ResumesPastLines
  <2>2. CASE wpc' = "write"
    <3>1. mReady < MaxLines /\ twin.position < Len(mUnit.lines) /\ mResumeFrom' = NoResume
      BY <1>3, <1>4, <1>5, <2>2
    <3>2. mUnit' = mUnit
      BY <1>1, WorkerLeaves DEF queuedVars
    <3> QED
      BY <1>2, <1>3, <1>6, <1>10, <2>2, <3>1, <3>2 DEF TwinOK
  <2> QED
    BY <1>5, <2>1, <2>2
<1>12. DoneOK'
  BY <1>2, <1>3 DEF DoneOK
<1> QED
  BY <1>1, <1>2, <1>8, <1>9, <1>11, <1>12, WorkerFrame DEF IInv

\* The line is written in the room after those that are published.
LEMMA WriteLineKeepsIInv ==
  ASSUME IInv, WriteLine
  PROVE  IInv'
<1>0. PICK n : n = mReady + 1
  OBVIOUS
<1> DEFINE after == StateAfter[mUnit.lines[twin.position + 1]][twin.state]
           decoded == Serial!Decoded(mUnit, twin.position + 1, twin.state, mConfig, FALSE)
           line == [start |-> twin.position, stateAtCommit |-> after, decoded |-> decoded]
<1>1. Worker
  BY DEF Worker
<1>2. /\ UNCHANGED <<mReady, mResumeFrom, pc, mState, epoch, seen>>
      /\ UNCHANGED <<mUnit, mStartPosition, mStartState, mConfig>>
      /\ wpc = "write" /\ wpc' = "publish"
      /\ mLines' = [mLines EXCEPT ![n] = line]
      /\ twin' = [twin EXCEPT !.position = @ + 1, !.state = after]
  BY <1>0 DEF WriteLine, GotoW, queuedVars, signalVars
<1>3. /\ twin.position = mStartPosition + mReady
      /\ twin.state = StateBefore(n)
      /\ mReady < MaxLines /\ twin.position < Len(mUnit.lines)
      /\ mResumeFrom = NoResume
      /\ mState = "Running"
  BY <1>0, <1>2 DEF IInv, TwinOK, JobInv, WorkerHoldsRunning, WorkerHolds
<1>4. /\ mReady \in Nat /\ mStartPosition \in Nat /\ MaxLines \in Nat
      /\ Len(mUnit.lines) \in Nat /\ mLines \in [1..MaxLines -> Lines]
      /\ twin.position \in Nat /\ twin.state \in ParseStates
      /\ mConfig \in Configs /\ mUnit \in UnitRecords
      /\ twin \in [position: Nat, state: ParseStates, stopped: BOOLEAN]
      /\ n \in Nat /\ n = mReady + 1
  <2>1. /\ mReady \in Nat /\ mStartPosition \in Nat /\ mLines \in [1..MaxLines -> Lines]
        /\ mConfig \in Configs /\ mUnit \in UnitRecords
        /\ twin \in [position: Nat, state: ParseStates, stopped: BOOLEAN]
    BY DEF IInv, TypeOK
  <2>2. MaxLines \in Nat /\ Len(mUnit.lines) \in Nat
    BY IngestAssumption, KindType DEF IInv
  <2> QED
    BY <1>0, <2>1, <2>2
<1>5. n \in 1..MaxLines /\ twin.position + 1 \in 1..Len(mUnit.lines)
  BY <1>3, <1>4
<1>6. after \in ParseStates
  <2>1. mUnit.lines[twin.position + 1] \in LineKinds
    BY <1>5, KindType DEF IInv
  <2> QED
    BY <1>4, <2>1, StateAfterType
<1>7. decoded \in DecodedLines
  <2>1. twin.position + 1 \in Nat /\ FALSE \in BOOLEAN
    BY <1>4
  <2> HIDE DEF after
  <2> QED
    BY <1>4, <2>1, DecodedType
<1> HIDE DEF after, decoded
<1>8. line \in Lines
  BY <1>4, <1>6, <1>7 DEF Lines
<1>9. line.start = twin.position /\ line.stateAtCommit = after /\ line.decoded = decoded
  OBVIOUS
<1>10. /\ twin'.position = twin.position + 1 /\ twin'.state = after
       /\ twin' \in [position: Nat, state: ParseStates, stopped: BOOLEAN]
  <2>1. twin' = [position |-> twin.position + 1, state |-> after, stopped |-> twin.stopped]
    BY <1>2, <1>4
  <2>2. twin.position + 1 \in Nat /\ twin.stopped \in BOOLEAN
    BY <1>4
  <2> QED
    BY <1>6, <2>1, <2>2
<1> HIDE DEF line
<1>11. /\ mLines' \in [1..MaxLines -> Lines]
       /\ mLines'[n] = line
       /\ \A k \in 1..mReady : mLines'[k] = mLines[k]
  BY <1>2, <1>4, <1>5, <1>8
<1>12. TypeOK'
  <2>1. WorkerTypes'
    BY <1>2, <1>10, <1>11 DEF WorkerTypes, IInv, TypeOK, WorkerLabels
  <2> QED
    BY <1>1, <2>1, WorkerKeepsTypes DEF IInv
<1>13. JobInv'
  BY <1>1, JobInvWorker DEF IInv
<1>14. \A k \in 1..n : StateBefore(k)' = StateBefore(k)
  BY <1>2, <1>4, <1>11 DEF StateBefore
<1>15. \A k \in 1..mReady : LineOK(k)'
  <2> SUFFICES ASSUME NEW k \in 1..mReady PROVE LineOK(k)'
    OBVIOUS
  <2>1. LineOK(k) /\ k \in 1..n
    BY <1>4 DEF IInv, LinesOK
  <2>2. StateBefore(k)' = StateBefore(k) /\ mLines'[k] = mLines[k]
    BY <1>11, <1>14, <2>1
  <2> QED
    BY <1>2, <2>1, <2>2 DEF LineOK, Serial!Decoded
<1>16. LineOK(n)'
  <2>1. StateBefore(n)' = StateBefore(n)
    BY <1>4, <1>14
  <2>2. /\ mLines'[n].start = mStartPosition + n - 1
        /\ mLines'[n].start < Len(mUnit.lines)
    BY <1>3, <1>4, <1>9, <1>11
  <2>3. mStartPosition + n = twin.position + 1
    BY <1>3, <1>4
  <2>4. mLines'[n].stateAtCommit = StateAfter[mUnit.lines[mStartPosition + n]][StateBefore(n)]
    BY <1>3, <1>9, <1>11, <2>3 DEF after
  <2>5. mLines'[n].decoded
          = Serial!Decoded(mUnit, mStartPosition + n, StateBefore(n), mConfig, FALSE)
    BY <1>3, <1>9, <1>11, <2>3 DEF decoded
  <2> QED
    BY <1>2, <2>1, <2>2, <2>4, <2>5 DEF LineOK, Serial!Decoded
<1>17. LinesOK'
  BY <1>2, <1>15 DEF LinesOK
<1>18. TwinOK'
  <2>1. StateBefore(mReady + 2)' = after
    <3>1. (mReady + 2) - 1 = n /\ mReady + 2 # 1
      BY <1>4
    <3> QED
      BY <1>2, <1>9, <1>11, <3>1 DEF StateBefore
  <2>2. twin'.position = mStartPosition + mReady + 1
    BY <1>3, <1>4, <1>10
  <2>3. LineOK(mReady + 1)'
    <3>1. mReady' + 1 = n
      BY <1>2, <1>4
    <3> QED
      BY <1>16, <3>1
  <2>4. mReady' < MaxLines /\ mStartPosition' = mStartPosition /\ mReady' = mReady
    BY <1>2, <1>3
  <2> QED
    BY <1>2, <1>3, <1>10, <2>1, <2>2, <2>3, <2>4 DEF TwinOK
<1>19. DoneOK'
  BY <1>2, <1>3 DEF DoneOK
<1>20. Counted' /\ SpeculatesOnUnit'
  <2>1. UNCHANGED <<decoderVars, replayVars>>
    BY <1>1, WorkerLeaves
  <2> QED
    BY <1>2, <2>1 DEF IInv, Counted, SpeculatesOnUnit, replayVars, decoderVars
<1> QED
  BY <1>12, <1>13, <1>17, <1>18, <1>19, <1>20 DEF IInv

\* The line that was written is one of those published.
LEMMA PublishLineKeepsIInv ==
  ASSUME IInv, PublishLine
  PROVE  IInv'
<1>1. Worker
  BY DEF Worker
<1>2. /\ UNCHANGED <<mLines, mResumeFrom, pc, mState, epoch, seen, twin>>
      /\ UNCHANGED <<mUnit, mStartPosition, mStartState, mConfig>>
      /\ wpc = "publish" /\ wpc' = "parse" /\ mReady' = mReady + 1
  BY DEF PublishLine, GotoW, queuedVars, signalVars
<1>3. /\ mReady < MaxLines /\ LineOK(mReady + 1)
      /\ twin.position = mStartPosition + mReady + 1
      /\ twin.state = StateBefore(mReady + 2)
      /\ mResumeFrom = NoResume
      /\ mState = "Running"
  BY <1>2 DEF IInv, TwinOK, JobInv, WorkerHoldsRunning, WorkerHolds
<1>4. mReady \in Nat /\ MaxLines \in Nat /\ mStartPosition \in Nat /\ mNext \in Nat
  BY IngestAssumption DEF IInv, TypeOK
<1>5. TypeOK'
  <2>1. WorkerTypes'
    BY <1>2, <1>3, <1>4 DEF WorkerTypes, IInv, TypeOK, WorkerLabels
  <2> QED
    BY <1>1, <2>1, WorkerKeepsTypes DEF IInv
<1>6. JobInv'
  BY <1>1, JobInvWorker DEF IInv
<1>7. \A k : LineOK(k)' = LineOK(k)
  BY <1>2, LinesFrame
<1>8. LinesOK'
  <2> SUFFICES ASSUME NEW k \in 1..(mReady + 1) PROVE LineOK(k)'
    BY <1>2 DEF LinesOK
  <2>1. k \in 1..mReady \/ k = mReady + 1
    BY <1>4
  <2>2. LineOK(k)
    BY <1>3, <2>1 DEF IInv, LinesOK
  <2> QED
    BY <1>7, <2>2
<1>9. TwinOK'
  <2>1. StateBefore(mReady + 1)' = StateBefore(mReady + 2)
    <3>1. (mReady + 1) + 1 = mReady + 2
      BY <1>4
    <3> QED
      BY <1>2, <3>1 DEF StateBefore
  <2>2. twin'.position = mStartPosition' + mReady'
    BY <1>2, <1>3, <1>4
  <2> QED
    BY <1>2, <1>3, <2>1, <2>2 DEF TwinOK
<1>10. DoneOK'
  BY <1>2, <1>3 DEF DoneOK
<1>11. Counted' /\ SpeculatesOnUnit'
  <2>1. UNCHANGED <<decoderVars, replayVars>>
    BY <1>1, WorkerLeaves
  <2>2. ~(mState' = "Queued" \/ pc' = "queue")
    BY <1>2, <1>3 DEF IInv, JobInv, FilledIsNobodys
  <2>3. mNext <= mReady /\ mNext' = mNext
    BY <2>1 DEF IInv, Counted, replayVars
  <2>4. mNext' <= mReady'
    BY <1>2, <1>4, <2>3
  <2> QED
    BY <1>2, <2>1, <2>2, <2>4 DEF IInv, Counted, SpeculatesOnUnit, replayVars, decoderVars
<1> QED
  BY <1>5, <1>6, <1>8, <1>9, <1>10, <1>11 DEF IInv

\* Where to go on from is past the last line, and the job is let go of.
LEMMA FinishKeepsIInv ==
  ASSUME IInv, Finish \/ StoreDone
  PROVE  IInv'
<1>1. Worker
  BY DEF Worker
<1>2. /\ UNCHANGED <<mLines, mReady, pc, epoch, seen, twin, mStartPosition>>
      /\ \/ /\ wpc = "finish" /\ wpc' = "done" /\ mState' = mState
            /\ mResumeFrom' \in {mResumeFrom, twin.position + 1}
         \/ wpc = "done" /\ wpc' = "load" /\ mState' = "Done" /\ mResumeFrom' = mResumeFrom
  BY DEF Finish, StoreDone, GotoW, queuedVars, signalVars, answerVars
<1>3. /\ wpc = "finish" => twin.position = mStartPosition + mReady
      /\ ResumesPastLines
      /\ mState = "Running"
  BY <1>2 DEF IInv, TwinOK, JobInv, WorkerHoldsRunning, WorkerHolds
<1>4. mReady \in Nat /\ mStartPosition \in Nat /\ mResumeFrom \in Nat \cup {NoResume}
  BY DEF IInv, TypeOK
<1>5. ResumesPastLines' /\ mResumeFrom' \in Nat \cup {NoResume}
  BY <1>2, <1>3, <1>4 DEF ResumesPastLines
<1>6. TypeOK'
  <2>1. WorkerTypes'
    BY <1>2, <1>5 DEF WorkerTypes, IInv, TypeOK, WorkerLabels
  <2> QED
    BY <1>1, <2>1, WorkerKeepsTypes DEF IInv
<1>7. JobInv'
  BY <1>1, JobInvWorker DEF IInv
<1>8. TwinOK'
  BY <1>2, <1>5 DEF TwinOK
<1>9. DoneOK'
  BY <1>5 DEF DoneOK
<1> QED
  BY <1>1, <1>2, <1>6, <1>7, <1>8, <1>9, WorkerFrame DEF IInv

LEMMA WorkerKeepsIInv == IInv /\ Worker => IInv'
  BY IdlingKeepsIInv, ClaimKeepsIInv, ParseKeepsIInv, WriteLineKeepsIInv, PublishLineKeepsIInv,
     FinishKeepsIInv DEF Worker

-----------------------------------------------------------------------------
(* The main thread.                                                        *)

\* The calls that neither move the decoder nor fill the job in.
LEMMA QuietKeepsIInv ==
  ASSUME IInv, JobInv',
         UNCHANGED <<decoderVars, mNext, changes, queuedVars, answerVars, epoch, seen, twin, modes>>,
         mpVerifiedLine' \in Lines,
         pc' \in MainLabels, pc' # "queue",
         mState' \in {"Idle", "Queued", "Running", "Done"},
         mEpoch' \in Nat, mStop' \in BOOLEAN,
         wpc' = wpc \/ wpc' = "load",
         mState' = "Done" => mState = "Done" /\ pc # "queue",
         mState' = "Queued" => mState = "Queued" \/ pc = "queue",
         speculation' /\ pc' # "fill" => speculation /\ pc # "fill"
  PROVE  IInv'
<1> USE DEF decoderVars, queuedVars, answerVars, modes
<1>1. TypeOK'
  <2>1. /\ speculation' \in BOOLEAN /\ mpActiveSpeculation' \in BOOLEAN /\ mCancel' \in BOOLEAN
    BY DEF JobInv, Flags
  <2>2. wpc' \in WorkerLabels
    BY DEF IInv, TypeOK, WorkerLabels
  <2> QED
    BY <2>1, <2>2 DEF IInv, TypeOK
<1>2. \A n : StateBefore(n)' = StateBefore(n) /\ LineOK(n)' = LineOK(n)
  BY LinesFrame
<1>3. LinesOK'
  BY <1>2 DEF IInv, LinesOK
<1>4. ResumesPastLines' = ResumesPastLines
  BY DEF ResumesPastLines
<1>5. TwinOK'
  <2>1. CASE wpc' = "load"
    BY <2>1 DEF TwinOK
  <2>2. CASE wpc' = wpc
    <3>1. /\ StateBefore(mReady + 1)' = StateBefore(mReady + 1)
          /\ StateBefore(mReady + 2)' = StateBefore(mReady + 2)
      BY DEF StateBefore
    <3>2. LineOK(mReady + 1)' = LineOK(mReady + 1)
      BY DEF LineOK, StateBefore, Serial!Decoded
    <3> QED
      BY <1>4, <2>2, <3>1, <3>2 DEF IInv, TwinOK
  <2> QED
    BY <2>1, <2>2
<1>6. DoneOK'
  BY <1>4 DEF IInv, DoneOK
<1>7. Counted'
  BY DEF IInv, Counted
<1>8. SpeculatesOnUnit'
  BY DEF IInv, SpeculatesOnUnit
<1> QED
  BY <1>1, <1>3, <1>5, <1>6, <1>7, <1>8 DEF IInv

LEMMA EndedQuietly ==
  Ended => /\ mpVerifiedLine' \in Lines
           /\ mNext' = mNext
           /\ pc' \in {"decode", "idle"}
           /\ speculation' = FALSE
  BY NoLineType, EndedClears DEF Ended

LEMMA QuietActions ==
  ASSUME IInv, Begin \/ Queue \/ BumpEpoch \/ Notify \/ Resume \/ ResumeFrom \/ Await
               \/ AwaitReady \/ LeaveSpeculation \/ End \/ Cancel \/ StopWorker \/ JoinWorker
               \/ Destroy
  PROVE  IInv'
<1>1. JobInv'
  BY JobInvMainBusy, JobInvIdle DEF IInv, MainBusy
<1>2. /\ mpVerifiedLine \in Lines /\ mEpoch \in Nat /\ mStop \in BOOLEAN
      /\ mState \in {"Idle", "Queued", "Running", "Done"}
  BY DEF IInv, TypeOK
<1> USE <1>1, <1>2, QuietKeepsIInv DEF Goto, replayVars, signalVars, workerVars
<1>3. CASE Begin
  <2>1. /\ UNCHANGED <<decoderVars, mNext, mpVerifiedLine, changes, queuedVars, answerVars,
                       signalVars, workerVars, modes>>
        /\ pc = "begin"
        /\ (pc' = "decode" /\ speculation' = speculation) \/ pc' = "fill"
    BY <1>3 DEF Begin
  <2> QED
    BY <2>1 DEF MainLabels
<1>4. CASE Queue
  <2>1. /\ UNCHANGED <<decoderVars, replayVars, changes, queuedVars, answerVars, mCancel, mEpoch,
                       mStop, workerVars, modes>>
        /\ pc = "queue" /\ pc' = "bump" /\ mState' = "Queued"
    BY <1>4 DEF Queue
  <2> QED
    BY <2>1 DEF MainLabels
<1>5. CASE BumpEpoch
  <2>1. /\ UNCHANGED <<decoderVars, replayVars, changes, queuedVars, answerVars, mCancel, mState,
                       mStop, workerVars, modes>>
        /\ pc \in {"bump", "bumpToStop"} /\ pc' \in {"notify", "notifyToStop"}
        /\ mEpoch' \in Nat
    BY <1>5 DEF BumpEpoch
  <2> QED
    BY <2>1 DEF MainLabels
<1>6. CASE Notify
  <2>1. /\ UNCHANGED <<decoderVars, replayVars, changes, queuedVars, answerVars, signalVars,
                       epoch, seen, twin, modes>>
        /\ pc \in {"notify", "notifyToStop"} /\ pc' \in {"replay", "join"}
        /\ wpc' = wpc \/ wpc' = "load"
    BY <1>6 DEF Notify
  <2> QED
    BY <2>1 DEF MainLabels
<1>7. CASE Resume \/ ResumeFrom \/ Await \/ AwaitReady \/ LeaveSpeculation \/ JoinWorker
  <2>1. UNCHANGED <<decoderVars, replayVars, changes, queuedVars, answerVars, signalVars,
                    workerVars, modes>>
    BY <1>7 DEF Resume, ResumeFrom, Await, AwaitReady, LeaveSpeculation, JoinWorker
  <2>2. /\ pc \in {"resume", "resumable", "await", "awaitReady", "awaitLast", "decode", "join"}
        /\ pc' \in {"resumable", "await", "fill", "decode", "awaitReady", "awaitLast", "replay",
                    "end", "idle", "destroyed"}
    BY <1>7 DEF Resume, ResumeFrom, Await, AwaitReady, LeaveSpeculation, JoinWorker
  <2> QED
    BY <2>1, <2>2 DEF MainLabels
<1>8. CASE End
  <2>1. /\ UNCHANGED <<decoderVars, changes, queuedVars, answerVars, mCancel, mEpoch, mStop,
                       workerVars, modes>>
        /\ pc = "end"
        /\ \/ Ended /\ (mState' = mState \/ mState' = "Idle")
           \/ pc' = "cancel" /\ UNCHANGED <<mState, replayVars>>
    BY <1>8 DEF End
  <2> QED
    BY <2>1, EndedQuietly DEF MainLabels
<1>9. CASE Cancel
  <2>1. /\ UNCHANGED <<decoderVars, changes, queuedVars, answerVars, mState, mEpoch, mStop,
                       workerVars, modes>>
        /\ pc = "cancel" /\ Ended
    BY <1>9 DEF Cancel
  <2> QED
    BY <2>1, EndedQuietly DEF MainLabels
<1>10. CASE StopWorker \/ Destroy
  <2>1. /\ UNCHANGED <<decoderVars, replayVars, changes, queuedVars, answerVars, mState, mEpoch,
                       workerVars, modes>>
        /\ pc \in {"stop", "idle"} /\ pc' \in {"bumpToStop", "stop"}
        /\ mStop' \in BOOLEAN
    BY <1>10 DEF StopWorker, Destroy
  <2> QED
    BY <2>1 DEF MainLabels
<1> QED
  BY <1>3, <1>4, <1>5, <1>6, <1>7, <1>8, <1>9, <1>10

\* A turn of the job begins: nobody else has it, and none of its lines is left.
LEMMA FillKeepsIInv ==
  ASSUME IInv, Fill
  PROVE  IInv'
<1>1. JobInv'
  BY JobInvMainBusy DEF IInv, MainBusy
<1>2. /\ pc = "fill" /\ pc' = "queue"
      /\ mUnit' = unit /\ mStartPosition' = position /\ mStartState' = parseState
      /\ mConfig' = parseConfig /\ mReady' = 0 /\ mNext' = 0 /\ mCancel' = FALSE
      /\ UNCHANGED <<decoderVars, speculation, mpActiveSpeculation, mpVerifiedLine,
                     changes, mLines, mResumeFrom, mState, mEpoch, mStop, workerVars, modes>>
  BY DEF Fill, Goto
<1>3. ~(wpc \in {"parse", "write", "publish", "finish", "done"})
  BY <1>2 DEF IInv, JobInv, FilledIsNobodys, WorkerHoldsRunning, WorkerHolds
<1>4. TypeOK'
  <2>1. unit \in UnitRecords /\ position \in Nat
    BY KindType DEF IInv, TypeOK
  <2>2. MaxLines \in Nat /\ 0 \in 0..MaxLines /\ "queue" \in MainLabels
    BY IngestAssumption DEF MainLabels
  <2> QED
    BY <1>2, <2>1, <2>2 DEF IInv, TypeOK, decoderVars, workerVars, modes
<1>5. LinesOK'
  BY <1>2 DEF LinesOK
<1>6. TwinOK'
  BY <1>2, <1>3 DEF TwinOK, workerVars
<1>7. DoneOK'
  BY <1>2 DEF DoneOK
<1>8. Counted'
  BY <1>2 DEF Counted
<1>9. SpeculatesOnUnit'
  BY <1>2 DEF SpeculatesOnUnit, decoderVars
<1> QED
  BY <1>1, <1>4, <1>5, <1>6, <1>7, <1>8, <1>9 DEF IInv

\* The lines of the job follow one another: those behind the main thread come first.
LEMMA PassedType ==
  ASSUME IInv
  PROVE  Passed(mReady) \in mNext..mReady
<1> DEFINE P(m) == /\ m = mReady \/ mLines[m + 1].start >= position
                   /\ \A k \in mNext..(m - 1) : mLines[k + 1].start < position
<1>1. /\ mNext \in Nat /\ mReady \in Nat /\ mNext <= mReady
      /\ mStartPosition \in Nat /\ position \in Nat
  BY KindType DEF IInv, TypeOK, Counted
<1>2. \A k \in mNext..(mReady - 1) : mLines[k + 1].start = mStartPosition + k
  <2> SUFFICES ASSUME NEW k \in mNext..(mReady - 1)
               PROVE  mLines[k + 1].start = mStartPosition + k
    OBVIOUS
  <2>1. k + 1 \in 1..mReady /\ k \in Nat
    BY <1>1
  <2>2. mLines[k + 1].start = mStartPosition + (k + 1) - 1
    BY <2>1 DEF IInv, LinesOK, LineOK
  <2> QED
    BY <1>1, <2>1, <2>2
<1>3. \E m \in mNext..mReady : P(m)
  <2>1. CASE position <= mStartPosition + mNext
    <3>1. P(mNext)
      BY <1>1, <1>2, <2>1
    <3> QED
      BY <1>1, <3>1
  <2>2. CASE position >= mStartPosition + mReady
    <3>1. P(mReady)
      BY <1>1, <1>2, <2>2
    <3> QED
      BY <1>1, <3>1
  <2>3. CASE position > mStartPosition + mNext /\ position < mStartPosition + mReady
    <3>1. PICK m \in mNext..(mReady - 1) : m = position - mStartPosition
      BY <1>1, <2>3
    <3>2. P(m)
      BY <1>1, <1>2, <3>1
    <3> QED
      BY <1>1, <3>1, <3>2
  <2> QED
    BY <1>1, <2>1, <2>2, <2>3
<1> QED
  BY <1>3 DEF Passed

\* A line that fits is the next one of the unit, as the main thread would decode it.
LEMMA TakenLineIsNext ==
  ASSUME IInv, pc = "replay", NEW n \in 0..(mReady - 1), Fits(n)
  PROVE  /\ mLines[n + 1] \in Lines
         /\ mLines[n + 1].start = position
         /\ position < Len(unit.lines)
         /\ mLines[n + 1].stateAtCommit = StateAfter[unit.lines[position + 1]][parseState]
         /\ mLines[n + 1].decoded
               = Serial!Decoded(unit, position + 1, parseState, parseConfig, held)
         /\ mLines[n + 1].stateAtCommit \in ParseStates
         /\ mLines[n + 1].decoded \in DecodedLines
<1>1. mReady \in Nat /\ MaxLines \in Nat /\ mReady <= MaxLines /\ mStartPosition \in Nat
      /\ held \in BOOLEAN
  BY IngestAssumption DEF IInv, TypeOK
<1>2. n + 1 \in 1..mReady /\ n + 1 \in 1..MaxLines /\ n \in Nat
  BY <1>1
<1>3. LineOK(n + 1)
  BY <1>2 DEF IInv, LinesOK
<1>4. mUnit = unit
  BY DEF IInv, SpeculatesOnUnit, JobInv, LookingSpeculates
<1>5. /\ mLines[n + 1].start = position /\ held = FALSE /\ parseConfig = mConfig
      /\ parseState = StateBefore(n + 1)
  <2>1. parseState = IF n = 0 THEN mStartState ELSE mLines[n].stateAtCommit
    BY DEF Fits
  <2>2. (n + 1) - 1 = n /\ (n + 1 = 1 <=> n = 0)
    BY <1>2
  <2>3. StateBefore(n + 1) = IF n = 0 THEN mStartState ELSE mLines[n].stateAtCommit
    BY <2>2 DEF StateBefore
  <2> QED
    BY <1>1, <2>1, <2>3 DEF Fits
<1>6. mStartPosition + (n + 1) = position + 1
  BY <1>1, <1>2, <1>3, <1>5 DEF LineOK
<1>7. /\ position < Len(unit.lines)
      /\ mLines[n + 1].stateAtCommit = StateAfter[unit.lines[position + 1]][parseState]
      /\ mLines[n + 1].decoded
            = Serial!Decoded(unit, position + 1, parseState, parseConfig, held)
  BY <1>3, <1>4, <1>5, <1>6 DEF LineOK
<1> QED
  BY <1>2, <1>5, <1>7, LinesType DEF IInv

\* One turn of replaySpeculatedLines(), seen from the decoder: nothing, or the
\* next line of the unit.
LEMMA ReplayCommitsNext ==
  ASSUME IInv, Replay
  PROVE  /\ UNCHANGED decoderVars \/ Serial!CommitNext
         /\ \/ UNCHANGED decoderVars
            \/ /\ unit' = unit /\ parseConfig' = parseConfig /\ held' = held
               /\ position' \in 0..Len(unit.lines)
               /\ parseState' \in ParseStates /\ committed' \in DecodedLines
         /\ mpVerifiedLine' \in Lines
         /\ mNext' \in 0..mReady
<1> DEFINE n == Passed(mReady)
<1>1. n \in mNext..mReady
  BY PassedType
<1>2. mNext \in Nat /\ mReady \in Nat /\ position \in Nat /\ Len(unit.lines) \in Nat
      /\ mpVerifiedLine \in Lines
  BY KindType DEF IInv, TypeOK
<1>3. /\ pc = "replay"
      /\ \/ n = mReady /\ mNext' = n /\ UNCHANGED <<decoderVars, mpVerifiedLine>>
         \/ n < mReady /\ mNext' = n /\ UNCHANGED <<decoderVars, mpVerifiedLine>>
         \/ /\ n < mReady /\ Fits(n) /\ mNext' = n + 1
            /\ TakeToVerify(mLines[n + 1]) \/ Take(mLines[n + 1])
  BY DEF Replay
<1> HIDE DEF n
<1>4. mNext' \in 0..mReady
  BY <1>1, <1>2, <1>3
<1>5. CASE UNCHANGED <<decoderVars, mpVerifiedLine>>
  BY <1>2, <1>4, <1>5
<1>6. CASE n < mReady /\ Fits(n) /\ (TakeToVerify(mLines[n + 1]) \/ Take(mLines[n + 1]))
  <2>1. n \in 0..(mReady - 1)
    BY <1>1, <1>2, <1>6
  <2>2. /\ mLines[n + 1] \in Lines
        /\ mLines[n + 1].start = position
        /\ position < Len(unit.lines)
        /\ mLines[n + 1].stateAtCommit = StateAfter[unit.lines[position + 1]][parseState]
        /\ mLines[n + 1].decoded
              = Serial!Decoded(unit, position + 1, parseState, parseConfig, held)
        /\ mLines[n + 1].stateAtCommit \in ParseStates
        /\ mLines[n + 1].decoded \in DecodedLines
    BY <1>3, <1>6, <2>1, TakenLineIsNext
  <2>3. CASE TakeToVerify(mLines[n + 1])
    BY <1>4, <2>2, <2>3 DEF TakeToVerify
  <2>4. CASE Take(mLines[n + 1])
    <3>1. /\ committed' = mLines[n + 1].decoded /\ parseState' = mLines[n + 1].stateAtCommit
          /\ position' = position + 1
          /\ UNCHANGED <<unit, parseConfig, held, mpVerifiedLine>>
      BY <2>2, <2>4 DEF Take
    <3>2. held = FALSE
      BY <1>6 DEF Fits, IInv, TypeOK
    <3>3. Serial!CommitNext
      BY <2>2, <3>1, <3>2 DEF Serial!CommitNext
    <3>4. position' \in 0..Len(unit.lines)
      BY <1>2, <2>2, <3>1
    <3> QED
      BY <1>2, <1>4, <2>2, <3>1, <3>3, <3>4
  <2> QED
    BY <1>6, <2>3, <2>4
<1> QED
  BY <1>3, <1>5, <1>6

\* The calls that move the decoder and leave the job as it is.
LEMMA DecodingKeepsIInv ==
  ASSUME IInv, JobInv',
         UNCHANGED <<queuedVars, answerVars, signalVars, workerVars, modes>>,
         /\ unit' \in UnitRecords /\ position' \in 0..Len(unit'.lines)
         /\ parseState' \in ParseStates /\ parseConfig' \in Configs
         /\ held' \in BOOLEAN /\ committed' \in DecodedLines,
         mpVerifiedLine' \in Lines, mNext' \in 0..mReady, changes' \in 0..MaxChanges,
         pc' \in MainLabels, pc \notin {"queue", "fill"}, pc' # "queue",
         speculation' => speculation /\ unit' = unit
  PROVE  IInv'
<1> USE DEF queuedVars, answerVars, signalVars, workerVars, modes
<1>1. mReady \in Nat /\ mReady <= MaxLines /\ MaxLines \in Nat
  BY IngestAssumption DEF IInv, TypeOK
<1>2. TypeOK'
  <2>1. speculation' \in BOOLEAN /\ mpActiveSpeculation' \in BOOLEAN
    BY DEF JobInv, Flags
  <2>2. mNext' \in 0..MaxLines
    BY <1>1
  <2> QED
    BY <2>1, <2>2 DEF IInv, TypeOK
<1>3. \A n : StateBefore(n)' = StateBefore(n) /\ LineOK(n)' = LineOK(n)
  BY LinesFrame
<1>4. LinesOK'
  BY <1>3 DEF IInv, LinesOK
<1>5. ResumesPastLines' = ResumesPastLines
  BY DEF ResumesPastLines
<1>6. TwinOK'
  <2>1. /\ StateBefore(mReady + 1)' = StateBefore(mReady + 1)
        /\ StateBefore(mReady + 2)' = StateBefore(mReady + 2)
    BY DEF StateBefore
  <2>2. LineOK(mReady + 1)' = LineOK(mReady + 1)
    BY DEF LineOK, StateBefore, Serial!Decoded
  <2> QED
    BY <1>5, <2>1, <2>2 DEF IInv, TwinOK
<1>7. DoneOK'
  BY <1>5 DEF IInv, DoneOK
<1>8. Counted'
  BY <1>1 DEF IInv, Counted
<1>9. SpeculatesOnUnit'
  BY DEF IInv, SpeculatesOnUnit
<1> QED
  BY <1>2, <1>4, <1>6, <1>7, <1>8, <1>9 DEF IInv

LEMMA ReplayKeepsIInv ==
  ASSUME IInv, Replay
  PROVE  IInv'
<1>1. JobInv'
  BY JobInvMainBusy DEF IInv, MainBusy
<1>2. /\ UNCHANGED <<speculation, mpActiveSpeculation, changes, queuedVars, answerVars,
                     signalVars, workerVars, modes>>
      /\ pc = "replay" /\ pc' \in {"resume", "decode", "script"}
  BY DEF Replay, Take, TakeToVerify, Goto
<1>3. /\ unit \in UnitRecords /\ position \in 0..Len(unit.lines)
      /\ parseState \in ParseStates /\ parseConfig \in Configs
      /\ held \in BOOLEAN /\ committed \in DecodedLines /\ changes \in 0..MaxChanges
  BY DEF IInv, TypeOK
<1>4. /\ unit' = unit /\ position' \in 0..Len(unit'.lines)
      /\ parseState' \in ParseStates /\ parseConfig' \in Configs
      /\ held' \in BOOLEAN /\ committed' \in DecodedLines
      /\ mpVerifiedLine' \in Lines /\ mNext' \in 0..mReady
  BY <1>3, ReplayCommitsNext DEF decoderVars
<1> QED
  BY <1>1, <1>2, <1>3, <1>4, DecodingKeepsIInv DEF MainLabels

LEMMA DecodeKeepsIInv ==
  ASSUME IInv, Decode
  PROVE  IInv'
<1>1. JobInv'
  BY JobInvMainBusy DEF IInv, MainBusy
<1>2. /\ UNCHANGED <<speculation, mpActiveSpeculation, mNext, changes, queuedVars, answerVars,
                     signalVars, workerVars, modes>>
      /\ pc = "decode" /\ pc' = "script" /\ mpVerifiedLine' = NoLine
      /\ Serial!CommitNext
  BY DEF Decode, Goto
<1>3. /\ unit \in UnitRecords /\ position \in 0..Len(unit.lines)
      /\ parseState \in ParseStates /\ parseConfig \in Configs
      /\ held \in BOOLEAN /\ mNext \in 0..mReady /\ changes \in 0..MaxChanges
  BY DEF IInv, TypeOK, Counted
<1>4. Len(unit.lines) \in Nat /\ \A n \in 1..Len(unit.lines) : unit.lines[n] \in LineKinds
  BY KindType DEF IInv
<1>5. /\ unit' = unit /\ position' = position + 1 /\ position < Len(unit.lines)
      /\ parseConfig' = parseConfig /\ held' = FALSE
      /\ parseState' = StateAfter[unit.lines[position + 1]][parseState]
      /\ committed' = Serial!Decoded(unit, position + 1, parseState, parseConfig, held)
  BY <1>2 DEF Serial!CommitNext
<1>6. position' \in 0..Len(unit'.lines) /\ position + 1 \in 1..Len(unit.lines)
  BY <1>3, <1>4, <1>5
<1>7. parseState' \in ParseStates
  BY <1>3, <1>4, <1>5, <1>6, StateAfterType
<1>8. committed' \in DecodedLines
  <2>1. position + 1 \in Nat
    BY <1>4, <1>6
  <2> QED
    BY <1>3, <1>5, <2>1, DecodedType
<1>9. mNext' \in 0..mReady
  BY <1>2, <1>3
<1> QED
  BY <1>1, <1>2, <1>3, <1>5, <1>6, <1>7, <1>8, <1>9, NoLineType, DecodingKeepsIInv DEF MainLabels

LEMMA ScriptKeepsIInv ==
  ASSUME IInv, Script
  PROVE  IInv'
<1>1. JobInv'
  BY JobInvMainBusy DEF IInv, MainBusy
<1>2. /\ UNCHANGED <<replayVars, queuedVars, answerVars, signalVars, workerVars, modes>>
      /\ pc = "script" /\ pc' \in {"replay", "decode"}
      /\ \/ UNCHANGED <<decoderVars, changes>>
         \/ changes < MaxChanges /\ changes' = changes + 1 /\ Serial!Script
  BY DEF Script, Goto
<1>3. /\ unit \in UnitRecords /\ position \in 0..Len(unit.lines)
      /\ parseState \in ParseStates /\ parseConfig \in Configs
      /\ held \in BOOLEAN /\ committed \in DecodedLines
      /\ mpVerifiedLine \in Lines /\ mNext \in 0..mReady /\ changes \in 0..MaxChanges
      /\ MaxChanges \in Nat
  BY IngestAssumption DEF IInv, TypeOK, Counted
<1>4. /\ unit' = unit /\ position' = position /\ held' = held /\ committed' = committed
      /\ parseState' \in ParseStates /\ parseConfig' \in Configs
      /\ changes' \in 0..MaxChanges
  <2>1. CASE UNCHANGED <<decoderVars, changes>>
    BY <1>3, <2>1 DEF decoderVars
  <2>2. CASE changes < MaxChanges /\ changes' = changes + 1 /\ Serial!Script
    BY <1>3, <2>2 DEF Serial!Script
  <2> QED
    BY <1>2, <2>1, <2>2
<1> QED
  BY <1>1, <1>2, <1>3, <1>4, DecodingKeepsIInv DEF MainLabels, replayVars

\* A unit arrives after the one before was left, with its job.
LEMMA ReceiveKeepsIInv ==
  ASSUME IInv, Receive
  PROVE  IInv'
<1>1. JobInv'
  BY JobInvIdle DEF IInv
<1>2. /\ UNCHANGED <<replayVars, changes, queuedVars, answerVars, signalVars, workerVars, modes>>
      /\ pc = "idle" /\ pc' \in {"begin", "decode"} /\ Serial!Receive
  BY DEF Receive, Goto
<1>3. /\ unit.id \in Nat /\ parseState \in ParseStates /\ parseConfig \in Configs
      /\ committed \in DecodedLines /\ mpVerifiedLine \in Lines
      /\ mNext \in 0..mReady /\ changes \in 0..MaxChanges
      /\ speculation = FALSE
  BY <1>2, KindType DEF IInv, TypeOK, Counted, JobInv, Flags, SpeculationIsBegun, JobLabels
<1>4. PICK lines \in Units : unit' = [id |-> unit.id + 1, lines |-> lines]
  BY <1>2 DEF Serial!Receive
<1>5. unit' \in UnitRecords
  BY <1>3, <1>4, IngestAssumption DEF UnitRecords
<1>6. position' = 0 /\ held' \in BOOLEAN /\ UNCHANGED <<parseState, parseConfig, committed>>
  BY <1>2 DEF Serial!Receive
<1>7. position' \in 0..Len(unit'.lines)
  <2>1. unit'.lines = lines /\ lines \in Seq(LineKinds)
    BY <1>4, IngestAssumption
  <2>2. Len(unit'.lines) \in Nat
    BY <2>1
  <2> QED
    BY <1>6, <2>2
<1> QED
  BY <1>1, <1>2, <1>3, <1>5, <1>6, <1>7, DecodingKeepsIInv DEF MainLabels, replayVars

LEMMA NextKeepsIInv == IInv /\ [Next]_vars => IInv'
<1> SUFFICES ASSUME IInv, [Next]_vars PROVE IInv'
  OBVIOUS
<1>1. CASE UNCHANGED vars
  <2> USE <1>1 DEF vars, decoderVars, replayVars, queuedVars, answerVars, signalVars, workerVars,
                   modes
  <2>1. TypeOK'
    BY DEF IInv, TypeOK
  <2>2. JobInv'
    BY DEF IInv, JobInv, Flags, WorkerHoldsRunning, WorkerHolds, QueuedIsBegun, FilledIsNobodys,
           ResumedIsDone, SpeculationIsBegun, LookingSpeculates, CancelIsForItsJob
  <2>3. \A n : StateBefore(n)' = StateBefore(n) /\ LineOK(n)' = LineOK(n)
    BY LinesFrame
  <2>4. LinesOK'
    BY <2>3 DEF IInv, LinesOK
  <2>5. TwinOK'
    BY DEF IInv, TwinOK, LineOK, StateBefore, ResumesPastLines, Serial!Decoded
  <2>6. DoneOK' /\ Counted' /\ SpeculatesOnUnit'
    BY DEF IInv, DoneOK, ResumesPastLines, Counted, SpeculatesOnUnit
  <2> QED
    BY <2>1, <2>2, <2>4, <2>5, <2>6 DEF IInv
<1> QED
  BY <1>1, WorkerKeepsIInv, QuietActions, FillKeepsIInv, ReplayKeepsIInv, DecodeKeepsIInv,
     ScriptKeepsIInv, ReceiveKeepsIInv DEF Next, MainBusy

LEMMA InitIInv == Init => IInv
<1> SUFFICES ASSUME Init PROVE IInv
  OBVIOUS
<1>1. TypeOK /\ JobInv
  BY TypeInit, JobInvInit
<1>2. mReady = 0 /\ mNext = 0 /\ mState = "Idle" /\ wpc \in {"load", "returned"}
      /\ speculation = FALSE
  BY DEF Init
<1>3. LinesOK
  BY <1>2 DEF LinesOK
<1>4. TwinOK /\ DoneOK /\ Counted /\ SpeculatesOnUnit
  BY <1>2 DEF TwinOK, DoneOK, Counted, SpeculatesOnUnit
<1> QED
  BY <1>1, <1>3, <1>4 DEF IInv

\* The inductive invariant: who has the job, what is in it, and how far the
\* worker and the main thread are with it.
THEOREM IInvHolds == Spec => []IInv
  BY InitIInv, NextKeepsIInv, PTL DEF Spec

\* Every variable keeps its type, and the worker writes only lines that the job
\* has room for: recordSpeculatedLine() never passes the end of the arena.
THEOREM TypeCorrect == Spec => []TypeOK
  <1>1. IInv => TypeOK
    BY DEF IInv
  <1> QED
    BY <1>1, IInvHolds, PTL

\* Every step of the two threads is one of the decoder that has no worker, or
\* none of it.
LEMMA StepsAreSerial ==
  ASSUME IInv, [Next]_vars
  PROVE  [Serial!Receive \/ Serial!CommitNext \/ Serial!Script]_decoderVars
<1>1. CASE UNCHANGED vars
  BY <1>1 DEF vars
<1>2. CASE Worker
  BY <1>2, WorkerLeaves
<1>3. CASE Receive
  BY <1>3 DEF Receive
<1>4. CASE Destroy
  BY <1>4 DEF Destroy
<1>5. CASE Replay
  BY <1>5, ReplayCommitsNext
<1>6. CASE Decode
  BY <1>6 DEF Decode
<1>7. CASE Script
  BY <1>7 DEF Script
<1>8. CASE \/ Begin \/ Fill \/ Queue \/ BumpEpoch \/ Notify \/ Resume \/ ResumeFrom \/ Await
           \/ AwaitReady \/ LeaveSpeculation \/ End \/ Cancel \/ StopWorker \/ JoinWorker
  BY <1>8 DEF Begin, Fill, Queue, BumpEpoch, Notify, Resume, ResumeFrom, Await, AwaitReady,
              LeaveSpeculation, End, Cancel, StopWorker, JoinWorker
<1> QED
  BY <1>1, <1>2, <1>3, <1>4, <1>5, <1>6, <1>7, <1>8 DEF Next, MainBusy

\* With a worker parsing ahead and scripts changing what parsing depends on, the
\* lines are committed as the main thread alone would have decoded them: the
\* pipeline implements the decoder that has no worker, for any units, settings,
\* room in the job and number of changes.
THEOREM PipelineIsSerial == Spec => ImplementsSerial
<1>1. Init => Serial!DecoderInit
  BY DEF Init
<1>2. IInv /\ [Next]_vars
         => [Serial!Receive \/ Serial!CommitNext \/ Serial!Script]_Serial!decoderVars
  BY StepsAreSerial DEF decoderVars, Serial!decoderVars
<1> QED
  BY <1>1, <1>2, IInvHolds, PTL DEF Spec, ImplementsSerial, Serial!SerialDecoding

\* resume() queues the rest of a unit only from past every line of the job that
\* was published, counted or not: none that could still be used is thrown away.
THEOREM ResumingLosesNoLine == Spec => ResumeDiscardsNothing
<1>1. ASSUME IInv, [Next]_vars, Resumes
      PROVE  \A n \in (mNext + 1)..mReady : mLines[n].start < position
  <2>1. mResumeFrom # NoResume /\ mResumeFrom <= position
    <3>1. pc = "resumable" /\ pc' = "fill"
      BY <1>1 DEF Resumes
    <3>2. ~(Worker \/ UNCHANGED vars)
      BY <3>1, WorkerLeaves DEF vars
    <3>3. ResumeFrom
      BY <1>1, <3>1, <3>2
      DEF Next, MainBusy, Receive, Destroy, Begin, Fill, Queue, BumpEpoch, Notify, Replay, Resume,
          Await, AwaitReady, Decode, Script, LeaveSpeculation, End, Cancel, StopWorker, JoinWorker
    <3> QED
      BY <3>1, <3>3 DEF ResumeFrom, Goto
  <2>2. mStartPosition + mReady <= mResumeFrom
    BY <1>1, <2>1 DEF Resumes, IInv, JobInv, ResumedIsDone, DoneOK, ResumesPastLines
  <2>3. /\ mNext \in Nat /\ mReady \in Nat /\ mStartPosition \in Nat /\ position \in Nat
        /\ mResumeFrom \in Nat
    BY <1>1, <2>1, KindType DEF IInv, TypeOK
  <2> SUFFICES ASSUME NEW n \in (mNext + 1)..mReady PROVE mLines[n].start < position
    OBVIOUS
  <2>4. n \in 1..mReady
    BY <2>3
  <2>5. mLines[n].start = mStartPosition + n - 1
    BY <1>1, <2>4 DEF IInv, LinesOK, LineOK
  <2> QED
    BY <2>1, <2>2, <2>3, <2>4, <2>5
<1>2. IInv /\ [Next]_vars
         => [Resumes => \A n \in (mNext + 1)..mReady : mLines[n].start < position]_vars
  BY <1>1
<1> QED
  BY <1>2, IInvHolds, PTL DEF Spec, ResumeDiscardsNothing
=============================================================================
