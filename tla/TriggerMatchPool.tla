-------------------------- MODULE TriggerMatchPool --------------------------
(***************************************************************************)
(* The lock-free fork-join pool that prescans the triggers of one line of  *)
(* game text on several threads (TriggerMatchPool.cpp).                    *)
(*                                                                         *)
(* Slot 0 is the main thread, which publishes a batch, works on it like    *)
(* any other participant and returns once every chunk is done.  The other  *)
(* slots are helper threads.  All coordination goes through one 64-bit     *)
(* word, mCursor = epoch | chunk count | next chunk: a batch is published  *)
(* by storing it, a chunk is claimed by adding one to it.                  *)
(*                                                                         *)
(* Each action is one atomic access of the code (a load, a store, a        *)
(* fetch_add, a wait) together with the thread-local work up to the next.  *)
(* The interleaving is sequentially consistent: the memory orders of the   *)
(* code are argued in its comments and are below this model.               *)
(***************************************************************************)
EXTENDS Integers, FiniteSets

CONSTANTS
  NumSlots,    \* participants at most, the main thread included
  KChunkSize,  \* kChunkSize: triggers per chunk of a small batch
  KMaxChunks,  \* kMaxChunks: chunks per batch at most
  FieldSize,   \* values of the 16-bit chunk index, kFieldMask + 1
  MaxCount,    \* bound: triggers per batch
  HitSets,     \* the sets of triggers whose regex may match a line
  MaxEpoch     \* bound: batches published before the pool is shut down

ASSUME PoolAssumption ==
  /\ NumSlots \in Nat \ {0, 1}
  /\ KChunkSize \in Nat \ {0}
  /\ KMaxChunks \in Nat \ {0}
  /\ FieldSize \in Nat
  /\ KMaxChunks + NumSlots < FieldSize
  /\ MaxCount \in Nat \ {0}
  /\ HitSets \subseteq SUBSET (0 .. MaxCount - 1)
  /\ MaxEpoch \in Nat

Slots    == 0 .. NumSlots - 1
Helpers  == 1 .. NumSlots - 1
Triggers == 0 .. MaxCount - 1

VARIABLES
  mCursor,          \* [epoch, count, next]; its epoch is also the caller's mEpoch
  mJob,             \* [count, chunkSize, hits]: the batch's arguments, plain memory
  mDone,            \* chunks done, the high half of the word of that name
  mMatchesDone,     \* regex matches found in the batch
  mStop,            \* helpers must return
  mThreads,         \* slots of the helpers started
  mHelpersReturned, \* helpers that left workerLoop
  mShutDown,        \* the pool takes no more settings
  matchesInLastBatch, \* mRegexMatchesInLastBatch
  pc,               \* where each slot is
  word,             \* helper: the cursor word it is to sleep on
  seen,             \* the epoch of the slot's last unsuccessful claim
  chunk,            \* the chunk a slot holds
  asked             \* history: verdicts each trigger was given in this batch

vars == <<mCursor, mJob, mDone, mMatchesDone, mStop, mThreads, mHelpersReturned,
          mShutDown, matchesInLastBatch, pc, word, seen, chunk, asked>>

helperVars == <<mStop, mThreads, mHelpersReturned, mShutDown>>
batchVars  == <<mJob, mDone, mMatchesDone, matchesInLastBatch, asked>>

(* A slot at work on a chunk it claimed.                                   *)
Holds(s) == pc[s] \in {"chunk", "matches", "done"}

(* The batch is published and not yet joined.                              *)
Published ==
  pc[0] \in {"notify", "claim", "chunk", "matches", "done", "join"}

Goto(s, label) == pc' = [pc EXCEPT ![s] = label]

-----------------------------------------------------------------------------
(* How a batch of n triggers is cut into chunks.                           *)

CeilDiv(n, d) == (n + d - 1) \div d

ChunkSizeFor(n) ==
  LET fit == CeilDiv(n, KMaxChunks)
  IN  IF fit > KChunkSize THEN fit ELSE KChunkSize

ChunkCountFor(n) == CeilDiv(n, ChunkSizeFor(n))

TriggersOf(c, job) ==
  LET begin == c * job.chunkSize
      end   == IF begin + job.chunkSize < job.count
               THEN begin + job.chunkSize ELSE job.count
  IN  begin .. end - 1

(* Mutant: a load and a store instead of fetch_add, the store lost.        *)
BumpLost(cursor) == cursor

(* fetch_add(1): an index that outgrew its field would carry into the      *)
(* count.                                                                  *)
Bumped(cursor) ==
  IF cursor.next + 1 < FieldSize
  THEN [cursor EXCEPT !.next = @ + 1]
  ELSE [epoch |-> cursor.epoch, count |-> cursor.count + 1, next |-> 0]

-----------------------------------------------------------------------------
Init ==
  /\ mCursor = [epoch |-> 0, count |-> 0, next |-> 0]
  /\ mJob = [count |-> 0, chunkSize |-> KChunkSize, hits |-> {}]
  /\ mDone = 0
  /\ mMatchesDone = 0
  /\ mStop = FALSE
  /\ mThreads = {}
  /\ mHelpersReturned = 0
  /\ mShutDown = FALSE
  /\ matchesInLastBatch = 0
  /\ pc = [s \in Slots |-> IF s = 0 THEN "start" ELSE "absent"]
  /\ word = [s \in Slots |-> mCursor]
  /\ seen = [s \in Slots |-> 0]
  /\ chunk = [s \in Slots |-> 0]
  /\ asked = [i \in Triggers |-> 0]

-----------------------------------------------------------------------------
(* runChunks(): what every participant does.                               *)

(* Mutant: a helper that comes too late does not note the epoch.           *)
ClaimForgetsEpoch(s) ==
  /\ pc[s] = "claim"
  /\ mCursor' = Bumped(mCursor)
  /\ IF mCursor.next < mCursor.count
     THEN chunk' = [chunk EXCEPT ![s] = mCursor.next] /\ Goto(s, "chunk")
     ELSE Goto(s, IF s = 0 THEN "join" ELSE "top") /\ UNCHANGED chunk
  /\ UNCHANGED <<helperVars, batchVars, word, seen>>

(* mCursor.fetch_add: the next chunk, or the news that there is none left. *)
Claim(s) ==
  /\ pc[s] = "claim"
  /\ mCursor' = Bumped(mCursor)
  /\ \/ /\ mCursor.next < mCursor.count
        /\ chunk' = [chunk EXCEPT ![s] = mCursor.next]
        /\ Goto(s, "chunk")
        /\ UNCHANGED seen
     \/ /\ mCursor.next >= mCursor.count
        /\ seen' = [seen EXCEPT ![s] = mCursor.epoch]
        /\ Goto(s, IF s = 0 THEN "join" ELSE "top")
        /\ UNCHANGED chunk
  /\ UNCHANGED <<helperVars, batchVars, word>>

(* The chunk's triggers get their verdicts, read from mJob.                *)
Search(s) ==
  /\ pc[s] = "chunk"
  /\ asked' = [i \in Triggers |->
                 asked[i] + IF i \in TriggersOf(chunk[s], mJob) THEN 1 ELSE 0]
  /\ Goto(s, IF mJob.hits \cap TriggersOf(chunk[s], mJob) = {}
             THEN "done" ELSE "matches")
  /\ UNCHANGED <<mCursor, mJob, mDone, mMatchesDone, matchesInLastBatch,
                 helperVars, word, seen, chunk>>

AddMatches(s) ==
  /\ pc[s] = "matches"
  /\ mMatchesDone' =
       mMatchesDone + Cardinality(mJob.hits \cap TriggersOf(chunk[s], mJob))
  /\ Goto(s, "done")
  /\ UNCHANGED <<mCursor, mJob, mDone, matchesInLastBatch, asked,
                 helperVars, word, seen, chunk>>

(* Mutant: the main thread does not count the chunks it does itself.       *)
AddDoneByHelpers(s) ==
  /\ pc[s] = "done"
  /\ mDone' = IF s = 0 THEN mDone ELSE mDone + 1
  /\ chunk' = [chunk EXCEPT ![s] = 0]
  /\ Goto(s, "claim")
  /\ UNCHANGED <<mCursor, mJob, mMatchesDone, matchesInLastBatch, asked,
                 helperVars, word, seen>>

AddDone(s) ==
  /\ pc[s] = "done"
  /\ mDone' = mDone + 1
  /\ chunk' = [chunk EXCEPT ![s] = 0]
  /\ Goto(s, "claim")
  /\ UNCHANGED <<mCursor, mJob, mMatchesDone, matchesInLastBatch, asked,
                 helperVars, word, seen>>

RunChunks(s) == Claim(s) \/ Search(s) \/ AddMatches(s) \/ AddDone(s)

-----------------------------------------------------------------------------
(* workerLoop(): a helper thread.                                          *)

CheckStop(h) ==
  /\ pc[h] = "top"
  /\ Goto(h, IF mStop THEN "return" ELSE "load")
  /\ UNCHANGED <<mCursor, helperVars, batchVars, word, seen, chunk>>

(* A new epoch is work; otherwise the helper spins, or parks once its      *)
(* budget is spent (when that is, is left open).                           *)
Load(h) ==
  /\ pc[h] = "load"
  /\ \/ mCursor.epoch # seen[h] /\ Goto(h, "claim") /\ UNCHANGED word
     \/ mCursor.epoch = seen[h] /\ Goto(h, "top") /\ UNCHANGED word
     \/ /\ mCursor.epoch = seen[h]
        /\ word' = [word EXCEPT ![h] = mCursor]
        /\ Goto(h, "wait")
  /\ UNCHANGED <<mCursor, helperVars, batchVars, seen, chunk>>

(* std::atomic::wait: sleep if the word is still the one loaded.  A late   *)
(* claim moves the word too, and then the call returns at once.            *)
Wait(h) ==
  /\ pc[h] = "wait"
  /\ Goto(h, IF mCursor = word[h] THEN "asleep" ELSE "top")
  /\ UNCHANGED <<mCursor, helperVars, batchVars, word, seen, chunk>>

Return(h) ==
  /\ pc[h] = "return"
  /\ mHelpersReturned' = mHelpersReturned + 1
  /\ Goto(h, "exited")
  /\ UNCHANGED <<mCursor, mStop, mThreads, mShutDown, batchVars, word, seen, chunk>>

Helper(h) == CheckStop(h) \/ Load(h) \/ Wait(h) \/ Return(h) \/ RunChunks(h)

-----------------------------------------------------------------------------
(* publish(): store the word, then wake whoever sleeps on it.              *)

Store(count) ==
  mCursor' = [epoch |-> mCursor.epoch + 1, count |-> count, next |-> 0]

(* Mutant: notify_one().                                                   *)
NotifyOne(label) ==
  pc' = [s \in Slots |->
           IF s = 0 THEN label
           ELSE IF pc[s] = "asleep" /\ \A t \in 1 .. s - 1 : pc[t] # "asleep"
                THEN "wait" ELSE pc[s]]

NotifyAll(label) ==
  pc' = [s \in Slots |-> IF s = 0 THEN label
                         ELSE IF pc[s] = "asleep" THEN "wait" ELSE pc[s]]

-----------------------------------------------------------------------------
(* prescan(): the main thread forks and joins.                             *)

PrescanDeclined ==
  /\ pc[0] = "idle"
  /\ mThreads = {}
  /\ UNCHANGED vars

(* The stores to mJob are not atomic: they are under way while the main    *)
(* thread is at "write".                                                   *)
Prescan(n, hits) ==
  /\ pc[0] = "idle"
  /\ mThreads # {}
  /\ mCursor.epoch < MaxEpoch
  /\ mJob' = [count |-> n, chunkSize |-> ChunkSizeFor(n), hits |-> hits]
  /\ asked' = [i \in Triggers |-> 0]
  /\ Goto(0, "write")
  /\ UNCHANGED <<mCursor, mDone, mMatchesDone, matchesInLastBatch,
                 helperVars, word, seen, chunk>>

ResetCounts ==
  /\ pc[0] = "write"
  /\ mDone' = 0
  /\ mMatchesDone' = 0
  /\ Goto(0, "publish")
  /\ UNCHANGED <<mCursor, mJob, matchesInLastBatch, asked,
                 helperVars, word, seen, chunk>>

PublishBatch ==
  /\ pc[0] = "publish"
  /\ Store(ChunkCountFor(mJob.count))
  /\ Goto(0, "notify")
  /\ UNCHANGED <<helperVars, batchVars, word, seen, chunk>>

NotifyBatch ==
  /\ pc[0] = "notify"
  /\ NotifyAll("claim")
  /\ UNCHANGED <<mCursor, helperVars, batchVars, word, seen, chunk>>

(* Mutant: the call returns once no chunk is left to claim.                *)
JoinAtLastClaim ==
  /\ pc[0] = "join"
  /\ Goto(0, "collect")
  /\ UNCHANGED <<mCursor, helperVars, batchVars, word, seen, chunk>>

(* The spin on mDone ends only at the batch's chunk count.                 *)
Join ==
  /\ pc[0] = "join"
  /\ mDone = ChunkCountFor(mJob.count)
  /\ Goto(0, "collect")
  /\ UNCHANGED <<mCursor, helperVars, batchVars, word, seen, chunk>>

Collect ==
  /\ pc[0] = "collect"
  /\ matchesInLastBatch' = mMatchesDone
  /\ Goto(0, "idle")
  /\ UNCHANGED <<mCursor, mJob, mDone, mMatchesDone, asked,
                 helperVars, word, seen, chunk>>

-----------------------------------------------------------------------------
(* configure(), shutdown(), stopHelpers(), startHelpers().                 *)

(* configure() with new settings, or shutdown() (quit): with helpers       *)
(* running both begin by stopping them.                                    *)
StopHelpers(quit) ==
  /\ pc[0] = "idle"
  /\ mThreads # {}
  /\ ~quit => ~mShutDown /\ mCursor.epoch < MaxEpoch
  /\ mStop' = TRUE
  /\ Goto(0, IF quit THEN "quit" ELSE "stop")
  /\ UNCHANGED <<mCursor, mThreads, mHelpersReturned, mShutDown, batchVars,
                 word, seen, chunk>>

NoHelpersToStop(quit) ==
  /\ pc[0] = "idle"
  /\ mThreads = {}
  /\ ~mShutDown
  /\ IF quit THEN mShutDown' = TRUE /\ UNCHANGED pc
             ELSE Goto(0, "start") /\ UNCHANGED mShutDown
  /\ UNCHANGED <<mCursor, mStop, mThreads, mHelpersReturned, batchVars,
                 word, seen, chunk>>

(* The stop is part of shutdown(), not of configure().                     *)
Quitting == pc[0] \in {"quit", "quitNotify", "quitJoin"}

PublishStop ==
  /\ pc[0] \in {"stop", "quit"}
  /\ Store(0)
  /\ Goto(0, IF Quitting THEN "quitNotify" ELSE "stopNotify")
  /\ UNCHANGED <<helperVars, batchVars, word, seen, chunk>>

NotifyStop ==
  /\ pc[0] \in {"stopNotify", "quitNotify"}
  /\ NotifyAll(IF Quitting THEN "quitJoin" ELSE "stopJoin")
  /\ UNCHANGED <<mCursor, helperVars, batchVars, word, seen, chunk>>

(* thread->wait() for every helper, then the flags are reset.              *)
JoinHelpers ==
  /\ pc[0] \in {"stopJoin", "quitJoin"}
  /\ \A h \in mThreads : pc[h] = "exited"
  /\ mThreads' = {}
  /\ mStop' = FALSE
  /\ mHelpersReturned' = 0
  /\ mShutDown' = Quitting
  /\ pc' = [s \in Slots |-> IF s # 0 THEN "absent"
                            ELSE IF Quitting THEN "idle" ELSE "start"]
  /\ UNCHANGED <<mCursor, batchVars, word, seen, chunk>>

(* Mutant: the helpers take the slots from 0 up.                           *)
StartHelpersFromZero(n) ==
  /\ pc[0] = "start"
  /\ mThreads' = 0 .. n
  /\ seen' = [s \in Slots |-> IF s \in 1 .. n THEN mCursor.epoch ELSE seen[s]]
  /\ pc' = [s \in Slots |-> IF s = 0 THEN "idle"
                            ELSE IF s \in 1 .. n THEN "top" ELSE "absent"]
  /\ UNCHANGED <<mCursor, mStop, mHelpersReturned, mShutDown, batchVars, word, chunk>>

(* One helper per slot from 1 up, until one fails to start (n = 0 also     *)
(* stands for fewer than two threads wanted, or no memory for their        *)
(* scratch).  Until the main thread publishes, a started helper can only   *)
(* spin or park, so starting them in one step loses no behaviour.          *)
StartHelpers(n) ==
  /\ pc[0] = "start"
  /\ mThreads' = 1 .. n
  /\ seen' = [s \in Slots |-> IF s \in 1 .. n THEN mCursor.epoch ELSE seen[s]]
  /\ pc' = [s \in Slots |-> IF s = 0 THEN "idle"
                            ELSE IF s \in 1 .. n THEN "top" ELSE "absent"]
  /\ UNCHANGED <<mCursor, mStop, mHelpersReturned, mShutDown, batchVars, word, chunk>>

-----------------------------------------------------------------------------
(* The steps of the main thread that a call in progress takes by itself.   *)
MainBusy ==
  \/ ResetCounts \/ PublishBatch \/ NotifyBatch \/ RunChunks(0) \/ Join \/ Collect
  \/ PublishStop \/ NotifyStop \/ JoinHelpers
  \/ \E n \in 0 .. NumSlots - 1 : StartHelpers(n)

(* The calls the program may make.                                         *)
MainCall ==
  \/ \E n \in 1 .. MaxCount : \E hits \in HitSets : Prescan(n, hits \cap 0 .. n - 1)
  \/ PrescanDeclined
  \/ \E quit \in BOOLEAN : StopHelpers(quit) \/ NoHelpersToStop(quit)

Next == MainBusy \/ MainCall \/ \E h \in Helpers : Helper(h)

(* A call in progress runs on, and the operating system schedules every    *)
(* helper that is not asleep.                                              *)
Fairness == WF_vars(MainBusy) /\ \A h \in Helpers : WF_vars(Helper(h))

Spec     == Init /\ [][Next]_vars
FairSpec == Spec /\ Fairness

-----------------------------------------------------------------------------
(* Properties.                                                             *)

WorkLabels == {"claim", "chunk", "matches", "done"}
MainLabels == WorkLabels \cup
  {"start", "idle", "write", "publish", "notify", "join", "collect", "stop",
   "stopNotify", "stopJoin", "quit", "quitNotify", "quitJoin"}
HelperLabels == WorkLabels \cup
  {"absent", "top", "load", "wait", "asleep", "return", "exited"}

Cursors == [epoch : Nat, count : Nat, next : Nat]

(* Every variable has its type.                                            *)
TypeOK ==
  /\ mCursor \in Cursors
  /\ mJob \in [count : 0 .. MaxCount, chunkSize : Nat \ {0}, hits : SUBSET Triggers]
  /\ mDone \in Nat
  /\ mMatchesDone \in Nat
  /\ mStop \in BOOLEAN
  /\ mThreads \in SUBSET Helpers
  /\ mHelpersReturned \in Nat
  /\ mShutDown \in BOOLEAN
  /\ matchesInLastBatch \in Nat
  /\ pc \in [Slots -> MainLabels \cup HelperLabels]
  /\ \A s \in Slots : pc[s] \in IF s = 0 THEN MainLabels ELSE HelperLabels
  /\ word \in [Slots -> Cursors]
  /\ seen \in [Slots -> Nat]
  /\ chunk \in [Slots -> Nat]
  /\ asked \in [Triggers -> Nat]

(* The main thread never writes mJob, nor resets the counters, while a     *)
(* helper that woke late still reads the job or has a count to add: mJob   *)
(* is plain memory and nothing but the join keeps them apart.              *)
NoJobRace ==
  pc[0] \in {"idle", "start", "write", "publish"} => \A h \in Helpers : ~Holds(h)

(* No two participants hold the same chunk, whatever epochs they woke for. *)
ChunkExclusive ==
  \A s, t \in Slots : s # t /\ Holds(s) /\ Holds(t) => chunk[s] # chunk[t]

(* The assertion in runChunks and the static sizing of the field: late     *)
(* claims overshoot the count by less than one per participant, so the     *)
(* index never carries into the chunk count.                               *)
ClaimsFitField ==
  /\ mCursor.count <= KMaxChunks
  /\ mCursor.next <= mCursor.count + NumSlots
  /\ \A s \in Slots : pc[s] = "claim" => mCursor.next < mCursor.count + NumSlots

(* The batch that ends the helpers is work for nobody, the next generation *)
(* of helpers included: a helper is put to claiming only by a batch        *)
(* published after it was started.                                         *)
NoStaleWork ==
  \A h \in Helpers : pc[h] = "claim" => seen[h] < mCursor.epoch

(* A chunk is only ever claimed from the batch the main thread is joining, *)
(* and the batch stays open until the chunk is done.                       *)
HeldChunksAreCurrent ==
  \A s \in Slots : Holds(s) =>
    /\ chunk[s] < mCursor.count
    /\ mCursor.count = ChunkCountFor(mJob.count)
    /\ Published

(* No wake-up is lost: a helper does not sleep through a batch, and so     *)
(* stopHelpers(), which publishes an empty one, always returns.            *)
NobodySleepsOn ==
  /\ \A h \in Helpers :
       (pc[h] = "asleep" /\ mCursor.epoch # seen[h]) ~> (pc[h] # "asleep")
  /\ (pc[0] \in {"stop", "quit"}) ~> (mThreads = {})

(* The pool keeps the promise of ForkJoin: the call is open from the first *)
(* store to mJob until the count of matches is read after the join.        *)
Abstract == INSTANCE ForkJoin WITH
  Items <- Triggers,
  open    <- pc[0] \in {"write", "publish", "collect"} \/ Published,
  batch   <- 0 .. mJob.count - 1,
  hits    <- mJob.hits,
  given   <- asked,
  matches <- matchesInLastBatch

(* Every step of the pool is a step of ForkJoin or none of its business,   *)
(* and, with its threads scheduled, the pool makes ForkJoin's progress.    *)
ImplementsForkJoin == Abstract!Spec

-----------------------------------------------------------------------------
(* The inductive invariant behind the safety properties.                   *)

Holders == {s \in Slots : Holds(s)}
Late    == {s \in Slots : seen[s] = mCursor.epoch}
Taken   == IF mCursor.next < mCursor.count THEN mCursor.next ELSE mCursor.count

(* A slot that may still claim has not yet overshot the present batch.     *)
Working(s) == pc[s] = "claim" \/ Holds(s) \/ (s = 0 /\ pc[s] = "notify")

EpochsSeen ==
  \A s \in Slots : /\ seen[s] <= mCursor.epoch
                   /\ Working(s) => seen[s] < mCursor.epoch

(* Each slot overshoots a batch once.                                      *)
LateClaims ==
  /\ mCursor.count <= KMaxChunks
  /\ mCursor.next <= mCursor.count + Cardinality(Late)

(* Outside a batch there is nothing to claim and nobody holds a chunk.     *)
Quiet ==
  /\ ~Published => mCursor.next >= mCursor.count /\ Holders = {}
  /\ pc[0] = "join" => mCursor.next >= mCursor.count

(* The chunks taken are the chunks done and the chunks held.               *)
Accounting ==
  /\ pc[0] \in {"write", "publish"} \/ Published => mJob.count > 0
  /\ pc[0] = "publish" => mDone = 0
  /\ Published => /\ mCursor.count = ChunkCountFor(mJob.count)
                  /\ mDone + Cardinality(Holders) = Taken
  /\ \A s \in Slots : Holds(s) => chunk[s] < Taken

IInv == TypeOK /\ EpochsSeen /\ LateClaims /\ Quiet /\ Accounting /\ ChunkExclusive
=============================================================================
