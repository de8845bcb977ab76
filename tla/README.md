# A TLA+ model of Mudlet

Mudlet is a client for text games. One profile (`Host`) holds a connection,
consoles, a map, and the player's own triggers, aliases, timers, keys and
scripts; scripts are Lua and run on the main thread, in the middle of whatever
called them. This directory models the parts of Mudlet whose correctness is a
matter of *order*: what may happen between two steps, what a callback may do to
the function that called it, what a second thread sees.

Modules are checked with TLC on small instances and, where said so below, proved
with TLAPS for every value of the constants.

## 1. The system and its parts

| Part | State it keeps | Operations | Talks to | What is hard |
|---|---|---|---|---|
| `TriggerMatchPool` | cursor word, done counters, the batch's job, helper threads | `prescan()`, `startHelpers()`, `stopHelpers()`, the helpers' loop | `TriggerUnit` calls `prescan()` once per line | lock-free claims, late helpers, reuse of plain memory, lost wake-ups |
| `TriggerUnit`, `TTrigger`, `Tree` | tree and root list of triggers, name table, deferred-deletion queues, snapshot of the roots, same-line lineages | `processDataStream()`, create, kill, enable, expire, uninstall, `doCleanup()` | scripts re-enter it (`feedTriggers()`, `killTrigger()`, `uninstallPackage()`) | raw pointers in seven places while scripts change the lists being walked; nested passes |
| root snapshot (in `TriggerUnit`) | snapshot of roots and their byte filters, three staged edit sets, positions | append, remove, move, delete, `refile()`, refresh | each pass pins one | staged edits with positions; pinned copies; filters gone stale |
| `SignInStoreReconciler`, `GMCPAuthenticator`, `CredentialManager` | active and waiting request, waiting reads, read leases; metadata file, token entry, keychain jobs | `setIntent()`, `whenReadable()`, `onStepDone()`; store, remove, look up | completions re-enter it; the system keychain answers later or never | two records changed in several steps; displaced requests; time-outs of jobs that still happen |
| `TIngestPipeline`, `TBuffer`'s use of it | one job (unit, start, settings, the worker's lines, where to resume), its state, epoch, stop flag | `begin()`, `resume()`, `awaitLines()`, `end()`, the worker's loop, `replaySpeculatedLines()` | worker thread and main thread; scripts run between two lines | the job's state machine between two threads; lines parsed before a script changed what they depend on; lost wake-ups |
| `TimerUnit`, `TTimer` | tree of timers, the two flags of each, a `QTimer` beside each, deferred deletions | create, kill, enable, disable, fire, uninstall, emergency stop, resume | scripts, `QTimer`, `Host::resetProfile()` | three notions of "on" kept in step by every function; a `QTimer` that fires, or is started again, after its owner is to go |
| `AliasUnit`, `KeyUnit`, `ActionUnit`, `ScriptUnit` | trees like the trigger unit's, deferred deletions | the same | scripts | as the trigger unit, with a simpler pass |
| `Host` | installed packages, removals put off, save flags, event handlers | `installPackage()`, `uninstallPackage()`, save, reset, raise event | every unit; a thread that writes the save | scripts and handlers that undo what is being done; three waits that run the event loop inside the function that waits |
| `GMCPAuthenticator` | the last offer, attempt and forget generations, the replay in flight, the deferred attempt | `Char.Login.*` handlers, connect, disconnect, "forget" | the store of sign-ins, the game, `OAuthClientFlow` | reads, deadlines, browsers and rejected tokens that answer for a connection or a sign-in that is gone |
| `OAuthClientFlow` | nonce, verifier, loopback listener, timer | start, discovery, redirect, time-out, abort | network, browser, its owner | exactly one end, late replies |
| `MudletInstanceCoordinator` | queue of packages, mutex, local server | queue, install, hand over | other instances, `Host` | a plain mutex held across installation |
| `TLinkStore` | ring of link identifiers, Lua references | add, expire, free | consoles, Lua | identifiers that wrap |
| `ctelnet`, MXP, the rest of `TBuffer`, consoles | option tables, parsers, text | sequential parsing | the ingest pipeline | long, but sequential |
| mapper, media, speech, servers for peers, dialogs, updater, crash reporter | their own | — | Qt and libraries | mostly data structures, drawing or wrappers |

`PROJECT.json` lists every part under `components` with what is and is not
modelled of it, and every behaviour that is hard to test under `hazards`.

### What makes each part correct

- *Pool*: every trigger of a batch is searched exactly once and the batch's
  match count is exact; the job is never rewritten while a helper reads it; a
  helper is never asleep through a batch; stopping returns.
- *Trigger unit*: no pointer anywhere outlives its trigger; nothing is freed
  twice; a killed trigger stays dead; each pass offers its line once to every
  root, those made during the pass included up to the cap on those
  (`scmMaxSameLineCreationsPerLine`); a runaway of feeds unwinds; nothing of a
  line is left when it is over.
- *Snapshot*: patched incrementally it equals a rebuilt one; a pass never uses a
  filter that is out of date; a pinned snapshot is not edited.
- *Saved sign-in*: as long as the token is kept in one place, it is never stored
  without metadata nor beside permission to travel unencrypted that was given to
  another token, and what was reported as stored is stored (a keychain that refuses
  a write makes it two places: see the violations); reads and changes exclude each
  other; each request is told its outcome exactly once, and the outcome is about
  the newest request.
- *Ingest pipeline*: whatever the worker does, the lines committed are those the
  main thread alone would have decoded; the job's plain members are never
  shared; a flag meant for one job does not reach another; queueing a job again
  loses no line and makes progress; nobody sleeps through a job.
- *Timers*: a timer that is switched on, with its groups and the profile, runs; one
  that runs is active and switched on itself, if not always with its groups (see
  "What was noticed"); one that is to be freed never fires again, and is freed
  once, and not under its own script.
- *Packages*: nothing is removed under a save; events are raised for the copy
  they are about; what was put off or refused is done in the end, and saved.
- *Sign-in attempts*: what an attempt sends goes to the connection and the offer it
  was decided for, and a browser's code to the offer it is for; what the player
  had forgotten is not saved again; every offer is answered; a browser sign-in that
  is over holds no timer, listener or secret.

## 2. Modules

| Module | Models | Checked by |
|---|---|---|
| `ForkJoin` | what a batch promises: triggers are answered one by one, once each, and the caller returns with the exact count, and does return | as a refinement of the pool |
| `TriggerMatchPool` | `TriggerMatchPool.cpp`, one action per atomic access | `MCTriggerMatchPool` |
| `TriggerMatchPoolProofs` | its theorems | TLAPS |
| `TriggerUnit` | passes, scripts, deferred deletion, packages | `MCTriggerUnit` |
| `RootSnapshot` | the root snapshot of the trigger unit | `MCRootSnapshot` |
| `RootLists` | what both say of lists: their elements, and a list that some were taken out of | as a part of the two |
| `TriggerUnitProofs`, `RootSnapshotProofs` | their theorems | TLAPS |
| `TimerUnit` | timers, groups, offset and temporary timers, packages, stop and reset | `MCTimerUnit` |
| `TimerUnitProofs` | its theorems | TLAPS |
| `PackageChanges` | installing, removing and saving in `Host.cpp` | `MCPackageChanges` |
| `PackageChangesProofs` | its theorems | TLAPS |
| `SignInStore` | the reconciler, its performer and the two stores | `MCSignInStore` |
| `SignInStoreProofs` | its theorems | TLAPS |
| `OAuthClientFlow` | one browser sign-in, as a value and the functions on it | as a part of `SignInAttempt` |
| `SignInAttempt` | `GMCPAuthenticator.cpp` from an offer to its answer, with two `OAuthClientFlow`s | `MCSignInAttempt` |
| `SignInAttemptProofs` | its theorems | TLAPS |
| `SerialDecoder` | what the parser of game text promises, with a worker or without | as a refinement of the pipeline |
| `IngestPipeline` | `TIngestPipeline.cpp` and the parts of `TBuffer.cpp` that use it | `MCIngestPipeline` |
| `IngestPipelineProofs` | its theorems | TLAPS |

`map` in `PROJECT.json` gives the source lines of every definition. Names follow
the source (`mCursor`, `mCleanupSet`, `setIntent` → `SetIntent`). Definitions
with a comment that begins "Mutant:" or a name that says what is wrong with them
(`ClaimForgetsEpoch`, `AbandonSilently`) are broken versions of the definition
after them: each property is checked to fail under one of them.

### TriggerMatchPool

State: the 64-bit `mCursor` as a record of epoch, chunk count and next chunk;
the job; the two counters; each thread's program counter and local word. Each
action is one load, store, `fetch_add` or wait, with the thread-local work up to
the next. `asked` is a history of the verdicts given in the current batch.

Interleavings are sequentially consistent: the acquire/release pairs the code
argues in its comments are taken for granted. The 32-bit epoch does not wrap.
Which regex matches is a set chosen per batch (`HitSets`). A helper that cannot
be started is a choice of `StartHelpers`.

### TriggerUnit

State: triggers by the ID `getNewID()` gave them (never reused), the chain of
parents above each, root list, queues, lineages, and the stack of
`processDataStream()` calls, each with its `match()` frames. Scripts are choices:
whenever Lua has control any of the calls may be made, by a trigger's script in
the middle of a pass or between lines.

- Each pass keeps `offered`, a history no guard reads: the roots that have had
  their turn, matched or passed over as inactive, in that order. When a pass ends,
  `EveryRootOfferedOnce` compares it with the root list and with `BeyondCap`, the
  roots that the cap keeps from the line (`TriggerUnit.cpp` 1095-1100).
- Whether a pattern matches is any choice; captures, AND conditions, multi-line
  state, line triggers and stay-open are left out, so `match()` is: offered,
  script, children.
- The package's folder and its triggers are imported by one action, since
  importing runs no script of the package's triggers.
- A lineage is named by the identifier of its first trigger; only equality of
  names matters.
- Each trigger has a name of its own, so that calls by name reach one trigger.
- Not modelled: packages of temporary triggers read from XML, moves in the
  editor (see `RootSnapshot`).

### RootSnapshot

State: the root list, the snapshot objects by address with children, filters and
holes, the position each trigger remembers, the three staged sets, and the
passes with the snapshot each pins. A deleted trigger gives its name back, so
that address reuse is covered. The filter epoch is abstracted to the flag
`trusts` of each pass: "the epoch is the one I started with". It is assumed that
whatever `rootFilter()` reads is changed through `refile()`, as its comment asks.

### TimerUnit

State: timers by id with what they were made as, the two flags, the set of armed
`QTimer`s, the two queues, and the stack of timers' scripts. `mActive` and
`mUserActiveState` are the code's; "armed" is `mpQTimer->isActive()`, the third
notion, which nothing in the code computes from the other two.

- A timer holds nothing, a command or a script, or is a folder; time is a choice
  of which armed timer fires next. A script may run an event loop, so timers fire
  over one another up to `MaxDepth`.
- Calls of triggers' and aliases' scripts and of the editor are actions that may
  come at any time, with or without a timer's script on the stack.
- Scripts compile. Renaming, moving in the tree and intervals are left out.
- A reset is its two phases, the second put off while a script runs.

### PackageChanges

State: the list of installed packages and the items actually there, the C++
stack (`frames`) of installs, removals, announcements and drains, what the event
loop has queued, the save in progress and what it has of the profile. A frame
says where in its function it waits: `unpacking` is the dialog's event loop,
`importing` the scripts of the package being read in, `uninstalling` the
handlers of `sysUninstall`, `waiting` and `toDrain` the two nested waits for a
save, `draining` the loop of `runUninstallsDeferredByAnInstall()`.

- A script may save, install and remove in every frame but `draining`, in which
  Lua never has control; the event loop runs only where the code runs one.
- The save is a snapshot when it begins; the thread that writes it ends at any
  time after. `waitForProfileSave()` has a time limit: `giveUps` bounds how often
  it is used up.
- An installation by a script waits a save out before it begins, and shows no
  dialog (`quick`), as an archive below the size that is worth one does.
- Left out: modules and their synchronisation, the profile's closing, and saves
  that cannot be written.

### SignInAttempt and OAuthClientFlow

State of the attempt: the connection by number, the last offer, the throttle,
the replay in flight (`mConn`), reads of the store with the generations they
were asked under (`stale`, `forgotten`), deadlines, the stored sign-in and what
the reconciler is to make of it, and two browser sign-ins: the one held and the
one given up and not yet deleted. A token is the number the game issued it
under. The reconciler is one step here, by the promises that `SignInStore` is
checked for.

- The generations only ever tell "still mine" from "not mine", so a read carries
  these two flags where the code compares numbers.
- `asked` and `rotates` are the game's memory of what it was asked; `due`,
  `strayed` and `discarded` are histories the properties speak of.
- Each read, deadline and flow carries, as history, the number of the offer it was
  begun for, and `offeredOn` is the connection the last offer came on. `Sent` sets
  `strayed` unless the connection is up, is the one the last offer came on, and
  that offer is the one in question; `BrowserReturns` sets it if a code is sent for
  an offer that is not the last. It does not set it for a code that is sent, before
  any new offer, on a connection made since: the code may do that, contrary to
  the comment "Anything still in flight belongs to the connection that started
  it" (`GMCPAuthenticator.cpp` 276-278), and `NothingStrays` does not claim otherwise.
- Another Mudlet with the same profile may replace the stored token.
- Left out: the choice between several providers, passwords stored in the
  profile, error texts, and the parsing of documents and URLs.

### SignInStore

Everything runs on the main thread, so what interleaves are callbacks. The C++
stack is the variable `stack`, whose frames are the functions with work left:
the client's callback, the rest of `setIntent()`, `grantWaitingReads()`,
`finish()` of an abandoned request, the performer, a granted read. A client
callback may call `setIntent()` and `whenReadable()` any number of times before
it returns.

- A token is known by the number of the request that carries it; metadata by the
  number of its request and whether it lets the token travel unencrypted.
- The metadata is a file of the profile, written before the call returns; it may
  fail. The token is in the same kind of file (`keychain = FALSE`), or in the
  keychain, whose jobs QtKeychain runs one after another. `CredentialManager`'s
  timeout stops the waiting and not the job, so a job that was given up may
  still happen (`JobTimesOut`, `awaited`).
- What the keychain refuses goes to a file, whenever that can be written
  (`JobEnds`, `FileTokenAfter`), and the keychain's entry stays as it was; a read
  finds the keychain's token before the file's (`StoredToken`). The history
  `twoPlaces` becomes TRUE, for good, once both have held a token at the same
  time. Until then `TokenHasItsMetadata`, `ReachedInOnePlace` and
  `ReadSeesWhatWasReached` hold, wherever the token is; from then on none of the
  three does: `signin_fallback` and `signin_pairing` show what a user gets.
- Closing the profile destroys the reconciler: nothing more is reported
  (`Dropped`). The keychain goes on with its jobs, or loses them if the program
  ends.
- Left out: erasing secrets from memory, what metadata says, the migration of
  older layouts (only the flag `mpStoreHoldsInlineRecord` is kept), and
  `everyCopy`, which decides how many copies a removal reaches.
- A lease is released by the answer of its own read, as in `GMCPAuthenticator`.
  (A client that released one inside another request's completion could make
  `setIntent()` start a request that is no longer there.)

### IngestPipeline

State: the job as the main thread queued it (`mUnit` to `mConfig`), the worker's
answer (`mLines`, `mReady`, `mResumeFrom`), the atomics, and a program counter of
each thread. Each action is one access of what the threads share, with the
thread's own work up to the next; interleavings are sequentially consistent.

- A unit is a sequence of kinds of lines, and a position counts lines where the
  code counts bytes. A line is `plain`; `sgr`, which changes the colour that
  lasts (`parseState`); `effect`, before which the worker stops
  (`speculationStops()`); or `long`, which fits no arena. The arenas and the
  table of lines are one limit, `MaxLines`.
- A decoded line is the record of what decoding depends on: which line, the
  state and settings it was decoded under, and whether text was held before it
  (`held`, a partial line of an earlier unit).
- `parseConfig` stands for everything `parseConfigIs()` compares, the MXP
  processor among it. The code compares the colours by a generation that every
  change raises, the model by value, which accepts more.
- Scripts run after a committed line and may change the state and the settings.
  Text they feed to the parser themselves is not handed to the worker
  (`mpActiveSpeculation`) and shows in the model as such a change.
- The worker's thread may fail to start. `mWaitForWorker` and `verifying`, the
  two modes the tests switch on, are constant and chosen at the start.

`SerialDecoder` is the parser without a worker: receive a unit, commit the next
line, run a script. `ImplementsSerial` says that every step of the pipeline is
one of these or changes none of what they speak of.

## 3. Runs

| Run | Properties | Bounds | Why they are enough |
|---|---|---|---|
| `pool` | `TypeOK` `NoJobRace` `ChunkExclusive` `ClaimsFitField` `ImplementsForkJoin` `NobodySleepsOn` | main thread and 2 helpers, 2 batches, up to 3 triggers in up to 2 chunks, 6 values of the index field, the first 2 triggers match | a late helper of batch 1 meets batch 2; more threads than chunks, so claims overshoot; a partial last chunk; the field is as small as `PoolAssumption` allows (`KMaxChunks + NumSlots < FieldSize`) |
| `trigger_pass` | `TypeOK` `NoDanglingPointers` `NothingPendingIsActive` `EveryRootOfferedOnce` `CleanupFreesOnce` `RunawayUnwinds` | 3 triggers, 1 install, passes 3 deep, 1 generation, 1 root offered the line that made it (the cap) | folder, child and grandchild, or a parent, its child and a stranger, in both queues; between the limit and the outermost pass there is one that is neither; of two roots made on a line the second is beyond the cap, or within it in an inner pass |
| `trigger_reinstall` | `CleanupFreesOnce` | 4 triggers, 2 installs | shortest with a second install; a violation, see below |
| `snapshot` | `SnapshotIsRootList` `TrustedFiltersAreCurrent` `PinnedIsNeverEdited` | 2 triggers, 3 slots, 2 while passes nest, passes 2 deep | holes, duplicates and patched positions meet before the rebuild threshold; an outer pass holds a snapshot that an inner one refreshes |
| `timers` | `TypeOK` `FreedOnceAndLast` `PendingNeverArmed` `EnabledTimersRun` | 3 timers, 1 install, scripts 2 deep | a group, a timer in it and one in that; a timer that fires over the script that kills it or uninstalls it |
| `packages` | `TypeOK` `NothingRemovedUnderASave` `AnnouncedIsInstalled` `ChangesSettle` | 2 packages, 2 installs, 2 saves by scripts, 1 wait given up, 3 calls nested | a package removed and installed again between its event's queueing and its raising; an import in an import's event loop; a drain that is refused, waits for the save and is drained again |
| `signin_safety` | `TypeOK` `TokenHasItsMetadata` `EveryRequestAccounted` `ReachedInOnePlace` `ReadSeesWhatWasReached` `EveryAnswerComes` | 3 requests and 1 read or 2 and 2 (`FewCalls`), 1 close, keychain with a file to fall back on, or file | one active, one waiting and one to displace it; a request behind two reads and a read behind a request; a token that was in the file, is removed, and comes back in the keychain |
| `signin_mixture` | `FailureLeavesNoForeignToken` | 3 requests | a violation, see below |
| `signin_fallback` | `ReachedIsStored` | 2 requests | a violation, see below |
| `signin_pairing` | `NeverPairedWithPermission` | 2 requests | a violation, see below |
| `sign_in_attempts` | `TypeOK` `NothingStrays` `ForgottenStaysForgotten` `FinishedFlowHoldsNothing` `OffersAreAnswered` | 2 connections, 2 offers of 2 kinds, 2 tokens, 1 failed change | a read, a deadline and a put-off attempt of the first connection or offer meet the second, and so does the browser sign-in of the first offer; a token and the one that replaces it |
| `ingest` | `TypeOK` `MainOwnsJob` `CancelIsForItsJob` `ImplementsSerial` `ResumeDiscardsNothing` `CallsReturn` | 2 units of 3 shapes, 2 lines a job has room for, 2 settings, 1 change by a script | a unit needs a second turn of the job, for want of room or after an effect; a line is too long for it; the worker may still be at the first unit when the second arrives, or asleep, or never started, when the destructor comes |

`about` in `PROJECT.json` says in a sentence what each run shows. Deadlock is
allowed where the system may really have nothing left to do: an idle profile with
its bounded requests made (`SignInStore`, `SignInAttempt`, `PackageChanges`) and a
destroyed pipeline (`IngestPipeline`); in the other models something can always
happen. `MaxEpoch`, `MaxTriggers`, `MaxInstalls`, `MaxSlots`, `MaxNestedSlots`,
`MaxTimers`, `MaxDepth`, `MaxSaves`, `MaxGiveUps`, `MaxRequests`, `MaxReads`,
`MaxCloses`, `MaxUnits`, `MaxChanges`, `MaxConnections`, `MaxOffers`, `MaxTokens`
and `MaxFailures` are bounds of the model; `MaxLines`, `MinimumLines` and
`MinimumResume` are the code's 512, 16 and 512 bytes made small;
`MaxProcessingDepth` is the code's `scmMaxProcessingDepth` (50) made small, and
`RunawayUnwinds` says something only from 2 on.

Three runs have a `VIEW`, which identifies states that go on alike. In `snapshot`
it forgets where a pass stands that no longer trusts the filters, which decides
nothing any more. In `sign_in_attempts` it forgets what a superseded read was
asked for, what a replay was once its result is in, what is on its way to a
flow that is over, and whether a connection that is down was encrypted. In
`signin_safety` it forgets what a request asked for that is over and was not
reached, and the order of the reports. No property of these runs and no later step
reads any of it.

A game may have saved a token in an earlier session: `SavedBefore` says for which
kind of connection. The run has one that may travel in the clear, and the ones
for encrypted connections are issued within it.

### What the violations show

- `trigger_reinstall`: a comment in `TriggerUnit::doCleanup()` calls it
  unreachable that a queued node is freed indirectly as the child of another
  queued node. A script that uninstalls its package, creates a trigger under the
  doomed folder, and installs and uninstalls the package again reaches it, and
  the child is deleted twice.
- `signin_mixture`: a comment in `GMCPAuthenticator.cpp` says that whichever
  sequence fails part way only the half without the secret survives. When a
  newer request waits, a refused token write is abandoned without removing the
  older token; if that newer request fails at its first step, new metadata stays
  beside an old token.
- `signin_fallback`: `Reached` is documented as "the store now holds the
  requested end state". A token written to a file because the keychain refused it
  counts as reached while the keychain's older token is the one a read finds.
- `signin_pairing`: the comment in `sequenceFor()` says that neither a read nor a
  failure part-way can pair an encrypted-only token with permission to send it in
  the clear. With an encrypted-only token in the keychain, a second sign-in that
  may use the clear and whose token the keychain refuses ends so: its token is in
  the file, its metadata says `secure_only=false`, and a read finds the first
  token beside it.

### What was noticed in the code on the way

These were met while modelling. The models do as the code does; no run claims
anything of them.

- Timers. A permanent timer without a script or command is started by
  `enableTimer()` by name and not by the resume after an emergency stop
  (`TTimer.cpp` 327 against `EmergencyStopResumeTest.cpp` 523). `checkRestart()`
  (`TTimer.cpp` 228) does not ask whether the groups are on, so a timer that fired
  in a group switched off by its own script may run through an emergency stop.
  The second phase of a reset resumes timers during an emergency stop. The
  double deletion of `trigger_reinstall` has its counterpart in
  `TimerUnit.cpp` 606-607, which `timers` does not reach with one install.
- Packages. A script that runs in the unpacking dialog's event loop may start a
  save under the import; only the save a change owes is held back there.
  A removal put off by an install is carried out by name: a copy that a handler
  of `sysInstall` has installed since is removed in the place of the one that
  asked.
- Sign-in. The deadline of a replay stays in force for the retried, rotated token
  of the same attempt (`GMCPAuthenticator.cpp` 1216-1230). A browser sign-in is
  given up by the next offer (`resetPerConnectionState()`, 287-298) and not by the
  loss of the connection (`resetForNewConnection()`, 274-285), so its code may go
  to an encrypted connection made since, until the game makes its offer there
  (`sendAuthCode()`, 937-950, asks only whether the connection is encrypted). That
  is contrary to the comment at 276-278. Two offers and a withdrawn one
  within a second may leave no attempt (1252-1258).
- Instances. `installPackagesToHost()` (`MudletInstanceCoordinator.cpp` 85-93)
  installs with its mutex held. The dialog of an installation runs the event
  loop, and what it may deliver, a package from another instance, is received by
  a function that locks the mutex again on the same thread.

### Fairness

- Pool: weak fairness of the main thread while it is inside a call, and of each
  helper. That is the operating system scheduling threads that can run. Nothing
  makes the main thread begin a batch.
- Sign-in: weak fairness of `Proceed`, a function that was called goes on and
  returns, and of `JobTimesOut`, the timer `CredentialManager` starts with every
  job. Nothing is assumed of the keychain, and no client is assumed to call.
- Ingest: weak fairness of the worker, and of the main thread once it was given a
  unit or is destroying the pipeline: threads that can run do. No unit has to
  arrive, and no script to change anything.
- Packages: weak fairness of `Proceed`: a save ends, functions and scripts return
  and the event loop runs. Nobody has to call anything.
- Sign-in attempts: weak fairness of the timers (the throttle, the deadline of a
  replay, the time-out of a browser sign-in), and of the store's answers, which
  `EveryAnswerComes` of `SignInStore` is about. Nothing is assumed of the game,
  the network, the browser or the player.
- Pool, once more: `NobodySleepsOn` needs nothing but that fairness; a lost
  wake-up would show as a helper that is never able to go on.
- Trigger unit, snapshot and timers: safety only.

## 4. Proofs

`TriggerMatchPoolProofs` proves for any number of threads, triggers and batches,
from `PoolAssumption` alone (sizes are positive, and an index field that holds
the chunk count and one overshoot per thread: in the code `kMaxChunks` is half of
the 16-bit field, for the reason its comment gives, `TriggerMatchPool.cpp` 58-60,
and the pool has no more threads than the machine):

| Theorem | Property |
|---|---|
| `TypeCorrect` | every variable keeps its type |
| `JobNeverRaced` | the main thread does not write the job while a helper holds a chunk |
| `ChunksExclusive` | no two threads hold one chunk |
| `ClaimsNeverCarry` | late claims never carry out of the index field |
| `StaleWorkNever` | a helper claims only from a batch after the last it saw |
| `HeldChunksCurrent` | a held chunk is of the batch not yet joined |
| `PoolIsForkJoin` | the pool keeps the promise of `ForkJoin`, as far as it is safety (the next-state part of `ImplementsForkJoin`) |

None of the first six is inductive alone. The invariant `IInv` adds:

- `EpochsSeen`: what a thread saw is not newer than the cursor, and a helper that
  is about to work has not seen its epoch used up;
- `LateClaims`: the index is above the chunk count by at most the number of
  threads that found the batch used up, so that each overshoots once;
- `Quiet`: outside of a published batch nobody holds a chunk and the cursor has
  none to give;
- `Accounting`: chunks taken = chunks done + chunks held. With `mDone = count`
  this gives that nobody holds one at the join, which is why the main thread may
  write the job again;
- `ChunkExclusive` itself, since `Accounting` counts holders.

`StaleWorkNever` and `HeldChunksCurrent` are proved and checked by no run.

`PoolIsForkJoin` needs what the triggers were asked. `Answers` says it by chunks: a
trigger has its verdict once its chunk was taken (`Cut`) and is not one that a slot
is about to search, and the matches counted are those among these triggers whose
slot has added its own. Chunks are disjoint (`ChunksApart`), so that a search asks
each of its triggers for the first time, and an addition counts matches that nobody
counted. At the join `Accounting` has nobody hold a chunk and all of them taken, so
that every trigger was asked once and the count is the number of matches. Each step
of the pool is then a step of `ForkJoin` or changes nothing it can see
(`StepsAreForkJoin`): the call of `prescan()` is its fork, a search its answer for the
triggers of the chunk, the collection its join.

The proof has a lemma per group of actions; `Accounting` and `LateClaims` rest on
cardinalities of the sets of holders and latecomers, from the library's theorems
on finite sets.

`IngestPipelineProofs` proves, from `IngestAssumption` (bounds are naturals, a job
has room for a line, units are sequences of the four kinds of lines):

| Theorem | Property |
|---|---|
| `MainOwnsTheJob` | the main thread fills the job in, and reads where to resume from, only while the worker does not have it |
| `CancelledJobOnly` | the flag that cancels a job is down in every job lines are taken of |
| `TypeCorrect` | every variable keeps its type, and no line is written past the room of the job |
| `PipelineIsSerial` | the pipeline implements `SerialDecoder` (`ImplementsSerial`): lines are committed once, in order, as the main thread alone would have decoded them |
| `ResumingLosesNoLine` | a resumed job discards no published line that could still be used (`ResumeDiscardsNothing`, an action property) |

The first two follow from `JobInv`, which is about the job's state alone. The worker
holds the job exactly while it is `Running` (`WorkerHoldsRunning`), and takes it only
out of `Queued`, so what is needed is where the main thread may be while it is
`Queued`: between `queue()` and `end()` (`QueuedIsBegun`), never where it fills the
job in. That in turn needs that every unit whose job was begun is ended once, on the
two ways out of `parseChunk()`, which `SpeculationIsBegun` and `LookingSpeculates`
say of `speculation` and `mpActiveSpeculation`.

The others need what is in the job, which `IInv` adds. `LineOK` says of a published
line that it is the decoding of the line one further than the one before it, in the
state that one left and under the settings the job was queued with; `TwinOK` says
where the worker's parser is with the line that it has not published yet, and
`SpeculatesOnUnit` that the job is about the unit in hand. So a line that starts
where the main thread is, under the settings and the state it has, is the one it would
decode, and taking it is a step of `SerialDecoder` (`ReplayCommitsNext`); a line to be
compared is decoded by the main thread, which is such a step as it stands. No part of
the invariant is about lines that a script made obsolete: what the main thread holds
against a line is enough. The lines are consecutive, so that those
it has passed come first and `Passed` finds how many (`PassedType`).
`ResumingLosesNoLine` rests on `ResumesPastLines`: the place to go on from is past
every line published.

`TimerUnitProofs` proves, from `TimerUnitAssumption` (bounds are naturals and
payloads are of the code's kinds):

| Theorem | Property |
|---|---|
| `TypeCorrect` | every variable keeps its type, and a `QTimer` runs only for a timer that is active and wanted |
| `DoomedTimersStaySilent` | a timer that is to be freed is not armed (`PendingNeverArmed`) |
| `NoTimerFreedInUse` | no timer is freed while its script is on the stack or a queue holds it, the first half of `FreedOnceAndLast` |
| `NoTimerIsLost` | unless everything is stopped, what is switched on with all its groups counts (`EnabledTimersRun`) |
| `FreedOnceBeforeReinstall` | until the package is installed a second time, nothing is freed twice either (`FreedOnceAndLast`) |

That a timer in a queue is off is not inductive alone: what keeps it off depends
on the queue. `DoomedStayOff` says it for each. One that was killed or is spent is
a temporary timer, thus at the top, where the resume asks whether it is pending,
and it is inactive or does not repeat, so that neither `checkRestart()` nor a
group starts it; one that was uninstalled is not wanted any more, and
`enableTimer()`, which alone could have it wanted again, asks. `TreeOK` (a timer
is younger than those it is in, and descends from what they descend from) is
needed for both, since flags reach a timer through its groups; `QueuesOK` for the
cleanup, which frees with a timer all that is in it.

`NoTimerIsLost` is not inductive as it stands either. A timer that fires once has no
`QTimer` any more while its script runs, and what starts it again afterwards asks
whether it is active; `WantedCount` adds that it is. The step that is hard is
the resume after a stop or a reset, which goes down from the roots and asks at each
whether it is pending: it reaches every timer that is wanted, because what is
wanted is not to be freed, and no group above it is.

`FreedOnceBeforeReinstall` says how far the code's cleanup can be trusted. It goes through
two queues and skips only what it has itself named before. What was killed or is
spent is temporary, thus a root, and never of a package; what was uninstalled has a
package's folder above it, and of the timers that one is in only one is a root
(`ChainOK`); so neither queue holds something that is in a part of the other. Within
`uninstallList` one uninstallation lists what is in a timer before the timer
(`ListedOnce`); a second one, behind the first, need not, which is why the theorem
ends there.

`PackageChangesProofs` proves, from `PackageChangesAssumption` (the bounds are
naturals), for any packages and any depth of calls:

| Theorem | Property |
|---|---|
| `TypeCorrect` | every variable keeps its type, and what is listed without having items is what is being read in |
| `EventsAreCurrent` | an install event is about the copy that is there when it is raised (`AnnouncedIsInstalled`) |
| `SavesReadWhatIsThere` | no item is removed while a save runs (`NothingRemovedUnderASave`) |

`EventsAreCurrent` says that the code's comparison of two counts of removals tells
one copy of a package from the next. That rests on three parts of `IInv`:
`Counted`, that a name's copies and removals are counted in step, so that a copy is
read in only after the one before it was removed; `Remembers`, that while no
removal was counted since, the copy an announcement is about still has its items;
and `Shape`, that no call on the stack removes or reads in what a call below it is
reading in. The last is what refusing a package that is in use, and putting off the
removal of one that is being read in, are for; without it a package could be taken
out before its items are there, and `Listed` (which `TypeOK` states) would not hold.
`SavesReadWhatIsThere` needs no invariant: each place that removes has asked for a
save after the last thing it waited for, which the proof goes through call by call.

`TriggerUnitProofs` proves, from `TriggerUnitAssumption` (the bounds are naturals),
for any number of triggers, installations and nested passes:

| Theorem | Property |
|---|---|
| `TypeCorrect` | every variable keeps its type, the stack of passes included |
| `NoPointerOutlivesItsTrigger` | no list, queue, snapshot or `match()` call holds a trigger that was freed (`NoDanglingPointers`) |
| `DoomedTriggersStayOff` | what is to be freed is not switched on again (`NothingPendingIsActive`) |
| `EveryRootHasItsTurn` | by the end of a pass every root has had its turn once, except those beyond the cap, which have had none (`EveryRootOfferedOnce`) |
| `RunawayChainUnwinds` | after a runaway nothing is fed until the outermost pass is back (`RunawayUnwinds`) |
| `FreedOnceBeforeReinstall` | until the package is installed a second time, the cleanup frees no trigger twice (`CleanupFreesOnce`) |

The first three follow from one invariant. That no pointer dangles depends on when
the cleanup runs: `IdleOK` says that between lines no list of a line is left, so
that what the cleanup frees at the end of the outermost pass nobody holds; and
`TreeOK`, that a trigger's parents are older than it and share their own with it,
says what a freed parent takes along. `OffersOK` says where each root is to be
found by each pass on the stack: pinned when the pass began, or added since, and
never both; without it a trigger made in an inner pass could be offered to an
outer one twice or not at all. It needs a root to be in the root list once.

`EveryRootHasItsTurn` needs to know besides how far each pass has come. `WalksOK`
says it: the pinned roots up to the pass's place have had their turn; once that
loop is over all of them have, and the added ones before its place, which never
passes the cap. A pass leaves the stack in `EndPass` only, whose guard lets it end
when nothing is ahead of it but what is beyond the cap.

The queue that an uninstallation makes holds every trigger of the package because
the order by paths is total (`ChildrenFirst` lists them by rank).

`RunawayChainUnwinds` has a hypothesis, `MaxProcessingDepth > 1`. With a limit of one
pass the flag would stay up after the chain; the code has 50
(`scmMaxProcessingDepth`, `TriggerUnit.h` 143). It rests on `RunawayOK`: the flag is
up only while there is more than one pass.

`FreedOnceBeforeReinstall` is the same argument as for timers, with two things more.
A trigger also comes into `mCleanupSet` when it fires for the last time, so that
`ExpiringOK` has to say that only temporary triggers count down, those included
whose calls are on the stack and were asked about their count before their script
ran. And the list that an uninstallation makes is in the order of the paths, of which
`ChildrenFirstLists` shows that what is in a trigger comes before it. Where a package
was installed twice the list is of two walks, and `trigger_reinstall` is the
counterexample.

`RootSnapshotProofs` proves, from `RootSnapshotAssumption` (the bounds are naturals, `None` is no trigger):

| Theorem | Property |
|---|---|
| `SnapshotShowsRoots` | the patched snapshot is the one a rebuild would make (`SnapshotIsRootList`) |
| `TrustIsWarranted` | a pass skips no root by a filter that is out of date (`TrustedFiltersAreCurrent`) |
| `WhatIsPinnedStays` | no step edits a snapshot that a pass holds (`PinnedIsNeverEdited`, an action property) |

`SnapshotIsRootList` speaks of the moment after a refresh; what makes it inductive
is `QueuesOK`, which says at every moment what the snapshot with its staged edits
stands for: without the positions removed, and with what is appended, it is the
root list; each root that stays knows its slot; and a slot's filter is current or
about to be copied again. `RootsOK` (a trigger that is no root knows of no slot) is
what a trigger that takes the address of one that left relies on, `FreshOK` that
nothing staged is forgotten. `PinsOK` adds that a trigger in a pinned snapshot is
marked as having been in one, so that its `refile()` is not skipped. The model gives
a rebuild a free address; that there is one, with an address more than passes, is
the pigeonhole argument of `FreeAddress`.

Both begin with lemmas about the lists of `RootLists`, `RootSnapshotProofs` with more
of them: what taking elements out of a list leaves, of concatenations, of what is
left of what is left, and of a list put in another order. `Only` is a recursive
function over positions; its lemmas are proved by induction, stated with a set for
the property (`NatSetInduction`), since the library's theorem takes an operator.

`SignInStoreProofs` proves, from `BoundsAssumption` (the bounds are naturals), for
any number of requests, reads and closings of the profile and any nesting of
callbacks:

| Theorem | Property |
|---|---|
| `TypeCorrect` | every variable keeps its type; no request is started that was not asked for |
| `RequestsAreAccountedFor` | every request is in one place and reported once (`EveryRequestAccounted`) |
| `TokenIsPaired` | until keychain and file have each held one: no token without its metadata, nor in the clear unless asked so (`TokenHasItsMetadata`) |
| `WhatWasReachedIsStored` | until then: what was reported as reached is stored and stays (`ReachedInOnePlace`) |
| `ReadsSeeOneState` | until then: a read returns the two halves of one state (`ReadSeesWhatWasReached`) |

The stack of C++ functions has any depth, since a client may call the reconciler
from each of its callbacks. The invariant is nevertheless about single frames
(`StackOK`): the performer and the entry of a read are only ever on top; below
whatever is on top there are only the client, the rest of `setIntent()`, the loop of
`grantWaitingReads()` and reports that are owed, none of them twice for one request;
and the rest of a `setIntent()` has above it nothing but the client and other
`setIntent()`s, and finds a request waiting, which is what makes `start()` safe. `TurnsOK` says
what a waiting request waits for. `PlacesOK` is `EveryRequestAccounted` with the
counting taken out: the four places exclude each other, and a report of one request
occurs once. `CallsOK` says that of the keychain's jobs at most the last is awaited
by the active request, and is of its current operation; the others, given up on by a
timeout or by the closing of the profile, are nobody's, and are still carried out.

The last three theorems are of every behaviour of the code, a keychain that refuses
tokens included; what they say of a state they say if `~twoPlaces`: the keychain and
the file have not each held a token. Without it they are false, as `signin_fallback`
and `signin_pairing` show. A token that the file holds and a job given up on that
then writes the keychain's entry is such a case too, and so is an answer that was
true of the file only: the proof follows the token through both (`JobStores`), with
`OnePlace` to say that at most one of them has it. `StoreInv` says what metadata and token, together with the token operations still queued, are at every
moment (`PairOK`) and how far the active request has brought them (`ProgressOK`).
`TokenSettled`, that no job left over will change the token, is the part a
test hardly reaches: it becomes true because the keychain runs its jobs in turn, so
that the answer to a token operation that is awaited comes after every older job
(`JobEndsStores`), and it is what lets a later request end without touching
the token again.

`SignInAttemptProofs` proves, from `SignInAttemptAssumption`, for any number of
connections, offers, tokens and failures of the store:

| Theorem | Property |
|---|---|
| `TypeCorrect` | every variable keeps its type, and at most the latest read is not superseded |
| `NothingEverStrays` | what a read, a deadline or a put-off attempt sends goes to the connection and the offer it was decided for, and a browser's code to the offer it is for (`NothingStrays`) |
| `ForgottenIsNotSavedAgain` | the store is never asked to save what was to be forgotten (`ForgottenStaysForgotten`) |
| `FinishedFlowsAreEmpty` | a browser sign-in that is over holds nothing (`FinishedFlowHoldsNothing`) |

Each read, each replay that is out, and each attempt that was put off carries what it
was made under, and the invariant says of each what still holds of it. `ReadOK`: a
read that is not superseded is for the last offer, while no replay is awaited and
no attempt put off; so an answer never starts a second replay beside one that is
out. `ReplayOK`: while there is an offer to answer, the connection is up and is
the one it came on, and every deadline still to be acted on is for that offer; so
nothing is sent for another. `ReplayedOK` and `RotatesOK`: a
token the game will still rotate is the one `mConn` is about, and if it is to be
forgotten, `mConn` knows and no read that may lead to another replay is unaware of
it; that is why the single flag of `mConn` is enough for `storeReconnectToken()`,
although replays of several attempts may be out at once. `StoreOK`: with nothing to
change, what is stored is not to be forgotten, and tokens are not numbered ahead of
the game. `FlowsOK` is `FinishedFlowHoldsNothing` as a set that every function of a
flow stays in, with what lets a browser's code be sent for no offer but the last:
only the flow that is held still answers, and it was started for that offer.

Only model-checked:

- liveness, which is out of the prover's reach (`NobodySleepsOn`, `CallsReturn`,
  `EveryAnswerComes`, `ChangesSettle`, `OffersAreAnswered`);
- the part of `ImplementsForkJoin` that is fairness: that a batch is done in the end.

`CleanupFreesOnce` and the second half of `FreedOnceAndLast` are proved for as long
as the package was installed once at most, and for no longer: `trigger_reinstall`
violates the first with two installations, so no theorem can say more.

## 5. Plan

1. Proofs: one theorem for `RootSnapshot` and `TriggerUnit` together. The first proves
   that the patched snapshot is the root list, the second takes the pinned snapshot
   to be that list.
2. `MudletInstanceCoordinator` on top of `PackageChanges`: the mutex held across
   the dialog's event loop.
3. Modules and their synchronisation in `PackageChanges`, and the profile's
   closing.
4. Liveness of the trigger unit: every line ends, given scripts that return.
5. Operators: the byte filters of `TTriggerPrescan` against the search they
   shorten.

### Not modelled

- `AliasUnit`, `KeyUnit`, `ActionUnit`, `ScriptUnit`: the deferred deletion of
  `TriggerUnit` and `TimerUnit` again, in simpler surroundings.
- `TLinkStore`: one sequential function over four maps that no one else writes.
- Parsers, formats, consoles, the mapper, media, peers, dialogs, the updater:
  sequential code over strings, structures and pixels, or thin layers over Qt and
  libraries, where order is not the question.

## 6. How to run

    tlc -config SignInStore.cfg MCSignInStore.tla
    tlapm TriggerMatchPoolProofs.tla
    tlapm IngestPipelineProofs.tla
    tlapm TimerUnitProofs.tla
    tlapm PackageChangesProofs.tla
    tlapm SignInStoreProofs.tla
    tlapm TriggerUnitProofs.tla
    tlapm RootSnapshotProofs.tla
    tlapm SignInAttemptProofs.tla

Each `.cfg` belongs to the `MC` module `PROJECT.json` names with it. The longest
runs take about two minutes.
