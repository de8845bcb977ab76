--------------------------- MODULE IngestPipeline ---------------------------
(***************************************************************************)
(* TIngestPipeline has a worker parse a unit of game text ahead of the     *)
(* main thread, which commits the worker's lines while they are what it    *)
(* would have decoded itself, and decodes the others (TBuffer).  There is  *)
(* one job, which the main thread queues, for a unit or for the rest of    *)
(* one, and the worker takes by changing its state.                        *)
(*                                                                         *)
(* Lines are numbered from 1, and a position is the number of lines before *)
(* it.  What a line says is not modelled, only what decoding it depends on *)
(* and leaves behind.  Each action is one access of shared memory with the *)
(* thread's own work up to the next; the interleaving is sequentially      *)
(* consistent.                                                             *)
(***************************************************************************)
EXTENDS Integers, Sequences

CONSTANTS
    Units,          \* the units the game may send: sequences of kinds of lines
    Configs,        \* parseConfig(): the settings that parsing reads
    MaxLines,       \* csmMaxLines: lines a job has room for
    MinimumLines,   \* csmMinimumLines: parsed ahead before a stop is worth going on from
    MinimumResume,  \* csmMinimumResumeBytes: left of a unit for it to be queued again
    MaxUnits,       \* bound on the units sent
    MaxChanges      \* bound on the changes scripts make

MXP == "mxp"        \* the setting under which the MXP processor is enabled
LineKinds == {"plain", "sgr", "effect", "long"}
ParseStates == {0, 1}

ASSUME IngestAssumption ==
    /\ Units \subseteq Seq(LineKinds)
    /\ MXP \in Configs
    /\ MaxLines \in Nat \ {0}
    /\ MinimumLines \in Nat
    /\ MinimumResume \in Nat
    /\ MaxUnits \in Nat
    /\ MaxChanges \in Nat

VARIABLES
    unit, position, parseState, parseConfig, held, committed, \* see SerialDecoder
    pc,             \* what the main thread does next
    speculation,    \* parseChunk()'s: whether it still takes lines of the job
    mpActiveSpeculation, \* whether translateToPlainText() began a job
    mNext,          \* the lines of the job that were used or passed
    mpVerifiedLine, \* the worker's line to compare the next one with
    changes,        \* the changes scripts made so far
    mUnit, mStartPosition, mStartState, mConfig, \* the job as it was queued
    mLines, mReady, mResumeFrom, \* the worker's answer
    mCancel, mState,
    mEpoch, mStop,
    wpc,            \* what the worker does next
    epoch, seen,    \* the worker's
    twin,           \* the worker's parser: [position, state, stopped]
    mWaitForWorker, verifying \* the modes of the tests

decoderVars == <<unit, position, parseState, parseConfig, held, committed>>
queuedVars == <<mUnit, mStartPosition, mStartState, mConfig>>
answerVars == <<mLines, mReady, mResumeFrom>>
replayVars == <<speculation, mpActiveSpeculation, mNext, mpVerifiedLine>>
workerVars == <<wpc, epoch, seen, twin>>
signalVars == <<mCancel, mState, mEpoch, mStop>>
modes == <<mWaitForWorker, verifying>>
vars == <<decoderVars, pc, replayVars, changes, queuedVars, answerVars, signalVars,
          workerVars, modes>>

NoResume == -1      \* csmNoResume

\* The state a line leaves behind: the last of its SGR sequences lasts.
StateAfter == [kind \in LineKinds |-> [state \in ParseStates |->
                  IF kind = "sgr" THEN 1 - state ELSE state]]

Serial == INSTANCE SerialDecoder

NoUnit == [id |-> 0, lines |-> <<>>]
NoLine == [start |-> NoResume, stateAtCommit |-> 0,
           decoded |-> Serial!Decoded(NoUnit, 0, 0, MXP, FALSE)]

-----------------------------------------------------------------------------
(* The worker.                                                             *)

GotoW(label) == wpc' = label

\* It holds the job from its claim until it says so.
WorkerHolds == wpc \in {"parse", "write", "publish", "finish", "done"}

LoadEpoch ==
    /\ wpc = "load"
    /\ epoch' = mEpoch
    /\ GotoW("checkStop")
    /\ UNCHANGED <<decoderVars, pc, replayVars, changes, queuedVars, answerVars,
                   signalVars, seen, twin, modes>>

\* mStop is read after the epoch.  With nothing new the worker spins for a
\* while, and then sleeps.
CheckStop ==
    /\ wpc = "checkStop"
    /\ \/ /\ mStop
          /\ GotoW("returned")
          /\ UNCHANGED seen
       \/ /\ ~mStop /\ epoch # seen
          /\ seen' = epoch
          /\ GotoW("claim")
       \/ /\ ~mStop /\ epoch = seen
          /\ wpc' \in {"load", "wait"}
          /\ UNCHANGED seen
    /\ UNCHANGED <<decoderVars, pc, replayVars, changes, queuedVars, answerVars,
                   signalVars, epoch, twin, modes>>

\* Mutant: sleeps whatever was published since.
WaitUnchecked ==
    /\ wpc = "wait"
    /\ GotoW("asleep")
    /\ UNCHANGED <<decoderVars, pc, replayVars, changes, queuedVars, answerVars,
                   signalVars, epoch, seen, twin, modes>>

\* mEpoch.wait(epoch) sleeps only if the epoch is still the one that was read.
Wait ==
    /\ wpc = "wait"
    /\ GotoW(IF mEpoch = epoch THEN "asleep" ELSE "load")
    /\ UNCHANGED <<decoderVars, pc, replayVars, changes, queuedVars, answerVars,
                   signalVars, epoch, seen, twin, modes>>

\* The exchange of Queued for Running, and the setting up of the twin buffer.
Claim ==
    /\ wpc = "claim"
    /\ \/ /\ mState = "Queued"
          /\ mState' = "Running"
          /\ mResumeFrom' = NoResume
          /\ twin' = [position |-> mStartPosition, state |-> mStartState, stopped |-> FALSE]
          /\ GotoW("parse")
       \/ /\ mState # "Queued"
          /\ GotoW("load")
          /\ UNCHANGED <<mState, mResumeFrom, twin>>
    /\ UNCHANGED <<decoderVars, pc, replayVars, changes, queuedVars, mLines, mReady,
                   mCancel, mEpoch, mStop, epoch, seen, modes>>

Stop(resumeFrom) ==
    /\ twin' = [twin EXCEPT !.stopped = TRUE]
    /\ mResumeFrom' = resumeFrom
    /\ GotoW("finish")

\* Mutant: one more line than the job has room for.
OneMoreThanRoom == mReady > MaxLines

OutOfRoom == mReady = MaxLines

\* parseChunk() on the twin, up to where recordSpeculatedLine() has looked at
\* mCancel and the room that is left.  A sequence with an effect, or a line no
\* arena could take, stops it before.
Parse ==
    /\ wpc = "parse"
    /\ \/ /\ twin.position = Len(mUnit.lines)
          /\ GotoW("finish")
          /\ UNCHANGED <<twin, mResumeFrom>>
       \/ /\ twin.position < Len(mUnit.lines)
          /\ LET kind == mUnit.lines[twin.position + 1]
             IN  \/ kind = "effect" /\ Stop(mResumeFrom)
                 \/ kind = "long" /\ Stop(twin.position + 1)
                 \/ /\ kind \in {"plain", "sgr"}
                    /\ \/ mCancel /\ Stop(mResumeFrom)
                       \/ ~mCancel /\ OutOfRoom /\ Stop(twin.position)
                       \/ /\ ~mCancel /\ ~OutOfRoom
                          /\ GotoW("write")
                          /\ UNCHANGED <<twin, mResumeFrom>>
    /\ UNCHANGED <<decoderVars, pc, replayVars, changes, queuedVars, mLines, mReady,
                   signalVars, epoch, seen, modes>>

\* The line as the twin decoded it: nothing is carried into the first one.
WriteLine ==
    /\ wpc = "write"
    /\ mLines' = [mLines EXCEPT ![mReady + 1] =
          [start |-> twin.position,
           stateAtCommit |-> StateAfter[mUnit.lines[twin.position + 1]][twin.state],
           decoded |-> Serial!Decoded(mUnit, twin.position + 1, twin.state, mConfig, FALSE)]]
    /\ twin' = [twin EXCEPT !.position = @ + 1,
                            !.state = StateAfter[mUnit.lines[twin.position + 1]][@]]
    /\ GotoW("publish")
    /\ UNCHANGED <<decoderVars, pc, replayVars, changes, queuedVars, mReady, mResumeFrom,
                   signalVars, epoch, seen, modes>>

PublishLine ==
    /\ wpc = "publish"
    /\ mReady' = mReady + 1
    /\ GotoW("parse")
    /\ UNCHANGED <<decoderVars, pc, replayVars, changes, queuedVars, mLines, mResumeFrom,
                   signalVars, epoch, seen, twin, modes>>

\* Stopped by a sequence with an effect, and enough was parsed ahead: the line
\* it stopped in is the main thread's, the rest may be queued again.
Finish ==
    /\ wpc = "finish"
    /\ mResumeFrom' =
          IF twin.stopped /\ mResumeFrom = NoResume /\ ~mCancel /\ mReady >= MinimumLines
          THEN twin.position + 1 ELSE mResumeFrom
    /\ GotoW("done")
    /\ UNCHANGED <<decoderVars, pc, replayVars, changes, queuedVars, mLines, mReady,
                   signalVars, epoch, seen, twin, modes>>

StoreDone ==
    /\ wpc = "done"
    /\ mState' = "Done"
    /\ GotoW("load")
    /\ UNCHANGED <<decoderVars, pc, replayVars, changes, queuedVars, answerVars,
                   mCancel, mEpoch, mStop, epoch, seen, twin, modes>>

Worker ==
    \/ LoadEpoch \/ CheckStop \/ Wait \/ Claim \/ Parse \/ WriteLine \/ PublishLine
    \/ Finish \/ StoreDone

-----------------------------------------------------------------------------
(* The main thread.                                                        *)

Goto(label) == pc' = label

\* speculationEligible(): what the worker could not parse is open.
Eligible == parseConfig # MXP

\* translateToPlainText(): a unit has arrived.  A chunk that ends inside a
\* character is not handed to the worker.
Receive ==
    /\ pc = "idle"
    /\ Serial!Receive
    /\ \E whole \in BOOLEAN :
         Goto(IF whole /\ Len(unit'.lines) >= MinimumLines /\ Eligible THEN "begin" ELSE "decode")
    /\ UNCHANGED <<replayVars, changes, queuedVars, answerVars, signalVars, workerVars, modes>>

\* Mutant: the worker's own state is not asked for.
BeginWhileRunning ==
    /\ pc = "begin"
    /\ \/ /\ wpc = "returned"
          /\ Goto("decode")
          /\ UNCHANGED <<speculation, mpActiveSpeculation>>
       \/ /\ wpc # "returned"
          /\ speculation' = TRUE
          /\ mpActiveSpeculation' = TRUE
          /\ Goto("fill")
    /\ UNCHANGED <<decoderVars, mNext, mpVerifiedLine, changes, queuedVars,
                   answerVars, signalVars, workerVars, modes>>

\* begin(): with the worker still at an earlier unit, or no worker, the main
\* thread parses this one alone.
Begin ==
    /\ pc = "begin"
    /\ \/ /\ wpc = "returned" \/ mState = "Running"
          /\ Goto("decode")
          /\ UNCHANGED <<speculation, mpActiveSpeculation>>
       \/ /\ wpc # "returned" /\ mState # "Running"
          /\ speculation' = TRUE
          /\ mpActiveSpeculation' = TRUE
          /\ Goto("fill")
    /\ UNCHANGED <<decoderVars, mNext, mpVerifiedLine, changes, queuedVars,
                   answerVars, signalVars, workerVars, modes>>

\* Mutant: the flag that cancelled the job before stays.
FillLeavingCancel ==
    /\ pc = "fill"
    /\ mUnit' = unit
    /\ mStartPosition' = position
    /\ mStartState' = parseState
    /\ mConfig' = parseConfig
    /\ mReady' = 0
    /\ mNext' = 0
    /\ Goto("queue")
    /\ UNCHANGED <<decoderVars, speculation, mpActiveSpeculation, mpVerifiedLine,
                   changes, mLines, mResumeFrom, mCancel, mState, mEpoch, mStop, workerVars, modes>>

\* queue(), up to the store of the state.  In resume() the unit is the same.
Fill ==
    /\ pc = "fill"
    /\ mUnit' = unit
    /\ mStartPosition' = position
    /\ mStartState' = parseState
    /\ mConfig' = parseConfig
    /\ mReady' = 0
    /\ mCancel' = FALSE
    /\ mNext' = 0
    /\ Goto("queue")
    /\ UNCHANGED <<decoderVars, speculation, mpActiveSpeculation, mpVerifiedLine,
                   changes, mLines, mResumeFrom, mState, mEpoch, mStop, workerVars, modes>>

Queue ==
    /\ pc = "queue"
    /\ mState' = "Queued"
    /\ Goto("bump")
    /\ UNCHANGED <<decoderVars, replayVars, changes, queuedVars, answerVars, mCancel, mEpoch,
                   mStop, workerVars, modes>>

BumpEpoch ==
    /\ pc \in {"bump", "bumpToStop"}
    /\ mEpoch' = mEpoch + 1
    /\ Goto(IF pc = "bump" THEN "notify" ELSE "notifyToStop")
    /\ UNCHANGED <<decoderVars, replayVars, changes, queuedVars, answerVars, mCancel, mState,
                   mStop, workerVars, modes>>

\* notify_one()
Notify ==
    /\ pc \in {"notify", "notifyToStop"}
    /\ wpc' = IF wpc = "asleep" THEN "load" ELSE wpc
    /\ Goto(IF pc = "notify" THEN "replay" ELSE "join")
    /\ UNCHANGED <<decoderVars, replayVars, changes, queuedVars, answerVars, signalVars,
                   epoch, seen, twin, modes>>

\* The lines of the job behind the main thread are passed.
Passed(n) ==
    CHOOSE m \in mNext..n :
        /\ m = n \/ mLines[m + 1].start >= position
        /\ \A k \in mNext..(m - 1) : mLines[k + 1].start < position

\* Mutant: the settings are not compared.
FitsUnlessConfigured(n) ==
    /\ mLines[n + 1].start = position
    /\ ~held
    /\ parseState = IF n = 0 THEN mStartState ELSE mLines[n].stateAtCommit

\* The worker's line is the one the main thread would decode.
Fits(n) ==
    /\ mLines[n + 1].start = position
    /\ ~held
    /\ parseState = IF n = 0 THEN mStartState ELSE mLines[n].stateAtCommit
    /\ parseConfig = mConfig
    /\ parseConfig # MXP

\* The worker's line is committed as it is.
Take(line) ==
    /\ committed' = line.decoded
    /\ parseState' = line.stateAtCommit
    /\ position' = line.start + 1
    /\ Goto("script")
    /\ UNCHANGED <<unit, parseConfig, held, mpVerifiedLine>>

\* The main thread will decode the line as well, and compare.
TakeToVerify(line) ==
    /\ mpVerifiedLine' = line
    /\ Goto("decode")
    /\ UNCHANGED decoderVars

\* replaySpeculatedLines(), one turn.
Replay ==
    /\ pc = "replay"
    /\ LET n == Passed(mReady)
       IN  \/ /\ n = mReady
              /\ mNext' = n
              /\ Goto("resume")
              /\ UNCHANGED <<decoderVars, mpVerifiedLine>>
           \/ /\ n < mReady /\ ~Fits(n)
              /\ mNext' = n
              /\ Goto("decode")
              /\ UNCHANGED <<decoderVars, mpVerifiedLine>>
           \/ /\ n < mReady /\ Fits(n)
              /\ mNext' = n + 1
              /\ IF verifying THEN TakeToVerify(mLines[n + 1]) ELSE Take(mLines[n + 1])
    /\ UNCHANGED <<speculation, mpActiveSpeculation, changes, queuedVars, answerVars,
                   signalVars, workerVars, modes>>

\* resume(): the state is read first.
Resume ==
    /\ pc = "resume"
    /\ Goto(IF mState = "Done" THEN "resumable" ELSE "await")
    /\ UNCHANGED <<decoderVars, replayVars, changes, queuedVars, answerVars, signalVars,
                   workerVars, modes>>

\* Mutant: where the worker stopped is not looked at.
ResumeAnywhere ==
    /\ pc = "resumable"
    /\ Goto(IF position + MinimumResume <= Len(mUnit.lines) /\ Eligible THEN "fill" ELSE "await")
    /\ UNCHANGED <<decoderVars, replayVars, changes, queuedVars, answerVars, signalVars,
                   workerVars, modes>>

\* resume(): what is left of the unit is queued again, if the worker stopped
\* short of its end and the main thread is past where.
ResumeFrom ==
    /\ pc = "resumable"
    /\ Goto(IF /\ mResumeFrom # NoResume /\ mResumeFrom <= position
               /\ position + MinimumResume <= Len(mUnit.lines)
               /\ Eligible
            THEN "fill" ELSE "await")
    /\ UNCHANGED <<decoderVars, replayVars, changes, queuedVars, answerVars, signalVars,
                   workerVars, modes>>

\* awaitLines(), which waits under MUDLET_TEST_MODE only.  The state is read
\* before the number of lines, of which mNext were known.
Await ==
    /\ pc = "await"
    /\ Goto(IF ~mWaitForWorker THEN "decode"
            ELSE IF mState \in {"Queued", "Running"} THEN "awaitReady" ELSE "awaitLast")
    /\ UNCHANGED <<decoderVars, replayVars, changes, queuedVars, answerVars, signalVars,
                   workerVars, modes>>

AwaitReady ==
    /\ pc \in {"awaitReady", "awaitLast"}
    /\ Goto(IF mReady > mNext THEN "replay" ELSE IF pc = "awaitLast" THEN "decode" ELSE "await")
    /\ UNCHANGED <<decoderVars, replayVars, changes, queuedVars, answerVars, signalVars,
                   workerVars, modes>>

\* parseChunk(): the main thread decodes the next line itself.
Decode ==
    /\ pc = "decode"
    /\ ~(speculation /\ parseConfig = MXP)
    /\ Serial!CommitNext
    /\ mpVerifiedLine' = NoLine
    /\ Goto("script")
    /\ UNCHANGED <<speculation, mpActiveSpeculation, mNext, changes, queuedVars,
                   answerVars, signalVars, workerVars, modes>>

\* The scripts that run on a committed line, which may change what parsing
\* depends on; then the worker's next line is tried.
Script ==
    /\ pc = "script"
    /\ \/ UNCHANGED <<decoderVars, changes>>
       \/ /\ changes < MaxChanges
          /\ changes' = changes + 1
          /\ Serial!Script
    /\ Goto(IF speculation THEN "replay" ELSE "decode")
    /\ UNCHANGED <<replayVars, queuedVars, answerVars, signalVars, workerVars, modes>>

\* The unit is parsed, or the MXP processor is about to rewrite it.
LeaveSpeculation ==
    /\ pc = "decode"
    /\ position = Len(unit.lines) \/ (speculation /\ parseConfig = MXP)
    /\ Goto(IF mpActiveSpeculation THEN "end" ELSE "idle")
    /\ UNCHANGED <<decoderVars, replayVars, changes, queuedVars, answerVars, signalVars,
                   workerVars, modes>>

Ended ==
    /\ speculation' = FALSE
    /\ mpVerifiedLine' = NoLine
    /\ mpActiveSpeculation' = (position < Len(unit.lines))
    /\ Goto(IF position < Len(unit.lines) THEN "decode" ELSE "idle")
    /\ UNCHANGED <<mNext>>

\* end(): a job nobody claimed is taken back.
End ==
    /\ pc = "end"
    /\ \/ /\ mState = "Queued"
          /\ mState' = "Idle"
          /\ Ended
       \/ /\ mState = "Running"
          /\ Goto("cancel")
          /\ UNCHANGED <<mState, replayVars>>
       \/ /\ mState \in {"Idle", "Done"}
          /\ Ended
          /\ UNCHANGED mState
    /\ UNCHANGED <<decoderVars, changes, queuedVars, answerVars, mCancel, mEpoch, mStop,
                   workerVars, modes>>

Cancel ==
    /\ pc = "cancel"
    /\ mCancel' = TRUE
    /\ Ended
    /\ UNCHANGED <<decoderVars, changes, queuedVars, answerVars, mState, mEpoch, mStop,
                   workerVars, modes>>

\* ~TIngestPipeline()
Destroy ==
    /\ pc = "idle"
    /\ mCancel' = TRUE
    /\ Goto("stop")
    /\ UNCHANGED <<decoderVars, replayVars, changes, queuedVars, answerVars, mState, mEpoch,
                   mStop, workerVars, modes>>

StopWorker ==
    /\ pc = "stop"
    /\ mStop' = TRUE
    /\ Goto("bumpToStop")
    /\ UNCHANGED <<decoderVars, replayVars, changes, queuedVars, answerVars, mCancel, mState,
                   mEpoch, workerVars, modes>>

JoinWorker ==
    /\ pc = "join"
    /\ wpc = "returned"
    /\ Goto("destroyed")
    /\ UNCHANGED <<decoderVars, replayVars, changes, queuedVars, answerVars, signalVars,
                   workerVars, modes>>

-----------------------------------------------------------------------------

\* The worker's thread may fail to start.  The game's text begins in the
\* default format.
Init ==
    /\ Serial!DecoderInit /\ parseState = 0
    /\ pc = "idle"
    /\ speculation = FALSE /\ mpActiveSpeculation = FALSE
    /\ mNext = 0 /\ mpVerifiedLine = NoLine
    /\ changes = 0
    /\ mUnit = NoUnit /\ mStartPosition = 0 /\ mStartState = 0 /\ mConfig = MXP
    /\ mLines = [n \in 1..MaxLines |-> NoLine] /\ mReady = 0 /\ mResumeFrom = NoResume
    /\ mCancel = FALSE /\ mState = "Idle"
    /\ mEpoch = 0 /\ mStop = FALSE
    /\ wpc \in {"load", "returned"}
    /\ epoch = 0 /\ seen = 0
    /\ twin = [position |-> 0, state |-> 0, stopped |-> FALSE]
    /\ mWaitForWorker \in BOOLEAN /\ verifying \in BOOLEAN

\* The main thread once it was given a unit, or is destroying the pipeline.
MainBusy ==
    \/ Begin \/ Fill \/ Queue \/ BumpEpoch \/ Notify
    \/ Replay \/ Resume \/ ResumeFrom \/ Await \/ AwaitReady
    \/ Decode \/ Script \/ LeaveSpeculation \/ End \/ Cancel
    \/ StopWorker \/ JoinWorker

Next == Receive \/ Destroy \/ MainBusy \/ Worker

Spec == Init /\ [][Next]_vars

\* Two threads that can run do.
FairSpec == Spec /\ WF_vars(MainBusy) /\ WF_vars(Worker)

-----------------------------------------------------------------------------
(* What the code promises.                                                 *)

DecodedLines == [unit: Nat, line: Nat, state: ParseStates, config: Configs, carried: BOOLEAN]
Lines == [start: Nat \cup {NoResume}, stateAtCommit: ParseStates, decoded: DecodedLines]
UnitRecords == [id: Nat, lines: Seq(LineKinds)]

MainLabels == {"idle", "begin", "fill", "queue", "bump", "notify", "replay", "resume",
               "resumable", "await", "awaitReady", "awaitLast", "decode", "script", "end", "cancel",
               "stop", "bumpToStop", "notifyToStop", "join", "destroyed"}
WorkerLabels == {"load", "checkStop", "claim", "parse", "write", "publish", "finish",
                 "done", "wait", "asleep", "returned"}

\* Every variable keeps its type; a line written is one the job has room for.
TypeOK ==
    /\ unit \in UnitRecords /\ mUnit \in UnitRecords
    /\ position \in 0..Len(unit.lines) /\ mStartPosition \in Nat
    /\ parseState \in ParseStates /\ mStartState \in ParseStates
    /\ parseConfig \in Configs /\ mConfig \in Configs
    /\ held \in BOOLEAN /\ committed \in DecodedLines
    /\ pc \in MainLabels /\ wpc \in WorkerLabels
    /\ speculation \in BOOLEAN /\ mpActiveSpeculation \in BOOLEAN
    /\ mNext \in 0..MaxLines
    /\ mpVerifiedLine \in Lines
    /\ changes \in 0..MaxChanges
    /\ mLines \in [1..MaxLines -> Lines] /\ mReady \in 0..MaxLines
    /\ mResumeFrom \in Nat \cup {NoResume}
    /\ mCancel \in BOOLEAN /\ mStop \in BOOLEAN
    /\ mState \in {"Idle", "Queued", "Running", "Done"}
    /\ mEpoch \in Nat /\ epoch \in Nat /\ seen \in Nat
    /\ twin \in [position: Nat, state: ParseStates, stopped: BOOLEAN]
    /\ mWaitForWorker \in BOOLEAN /\ verifying \in BOOLEAN

\* The main thread fills the job in, and reads where to resume from, only while
\* the worker does not have it: the plain members are never shared.  ("Main
\* fills it in while it is neither Queued nor Running"; "mResumeFrom is the
\* worker's until it reads Done".)
MainOwnsJob == pc \in {"fill", "queue", "resumable"} => ~WorkerHolds

\* Whatever the worker did, and whenever, the lines are committed as the main
\* thread alone would have decoded them: none twice, none left out, none in a
\* state or under settings that a script has changed since, none of an earlier
\* unit or an earlier turn of the job.
ImplementsSerial == Serial!SerialDecoding

\* The flag that cancels one job is never met by the worker in another, as long
\* as the main thread still takes lines of it.
CancelIsForItsJob == speculation /\ pc # "fill" => ~mCancel

Resumes == pc = "resumable" /\ pc' = "fill"

\* A job queued again throws away no line that the main thread could still have
\* used, not one either that was published after it last counted them.
ResumeDiscardsNothing ==
    [][Resumes => \A n \in (mNext + 1)..mReady : mLines[n].start < position]_vars

\* A unit is parsed to its end, waiting for the worker or not, and the
\* destructor returns: no wake-up is lost, and no job is "queued ... again and
\* again" for a line that the worker cannot take.
CallsReturn == pc \notin {"idle", "destroyed"} ~> pc \in {"idle", "destroyed"}

=============================================================================
