------------------------------ MODULE TimerUnit ------------------------------
(***************************************************************************)
(* The timers of a profile (TimerUnit.cpp, TTimer.cpp, Tree.h): groups of  *)
(* timers, timers whose children count from the moment they fire (offset   *)
(* timers), temporary ones that fire once, packages, the emergency stop    *)
(* and the reset of the profile.                                           *)
(*                                                                         *)
(* A timer has two flags.  mUserActiveState is what the user or a script   *)
(* wants of it, mActive whether it was activated; whether its QTimer runs  *)
(* is a third thing, kept in step with both by every function of the unit. *)
(* A script that runs an event loop of its own lets other timers fire over *)
(* it, so a timer that is to go is freed only once no timer's script is on *)
(* the stack.  Everything else, scripts of triggers and aliases or the     *)
(* user, may call the unit at any time.                                    *)
(*                                                                         *)
(* Timers are named by their ids, each by one name.  A timer's script      *)
(* always compiles, and timers are not moved by hand from group to group,  *)
(* so a timer is younger than those it is in.                              *)
(***************************************************************************)
EXTENDS Integers, Sequences, FiniteSets

CONSTANTS
    MaxTimers,      \* bound: timers ever created
    MaxInstalls,    \* bound: installations of the package
    MaxDepth,       \* bound: scripts of timers on the stack
    PermPayloads,   \* what permTimer() makes
    PackagePayloads \* what the package's timer may hold

\* A timer that does nothing itself may have offset timers that do.
Payloads == {"folder", "nothing", "command", "script"}

ASSUME TimerUnitAssumption ==
    /\ {MaxTimers, MaxInstalls, MaxDepth} \subseteq Nat
    /\ PermPayloads \union PackagePayloads \subseteq Payloads

VARIABLES
    mMaxID,
    mTimerMap,          \* the ids of the timers there are
    items,              \* what each was made as
    mActive,
    mUserActiveState,
    armed,              \* the timers whose mpQTimer->isActive()
    mCleanupSet,
    uninstallList,
    frames,             \* the timers whose scripts are on the stack, outermost first
    installs,           \* installations of the package so far
    mInstalledPackages,
    mEmergencyStop,
    mResetProfile

tree == <<mMaxID, mTimerMap, items>>
flags == <<mActive, mUserActiveState, armed>>
doomed == <<mCleanupSet, uninstallList>>
packages == <<installs, mInstalledPackages>>
stops == <<mEmergencyStop, mResetProfile>>
vars == <<tree, flags, doomed, frames, packages, stops>>

IDs == 1..MaxTimers
Elements(s) == {s[i] : i \in DOMAIN s}

NoTimer == [ancestors |-> {}, temporary |-> FALSE, repeating |-> FALSE,
            payload |-> "nothing", packaged |-> FALSE]

Ancestors(t) == items[t].ancestors
IsFolder(t) == items[t].payload = "folder"
IsTemporary(t) == items[t].temporary
Parent(t) == CHOOSE p \in Ancestors(t) : \A a \in Ancestors(t) : a <= p
IsOffsetTimer(t) == Ancestors(t) # {} /\ ~IsFolder(Parent(t))
Children(t) == {c \in mTimerMap : Ancestors(c) # {} /\ Parent(c) = t}
WithDescendants(ts) == {u \in mTimerMap : ({u} \union Ancestors(u)) \intersect ts # {}}
Roots == {t \in mTimerMap : Ancestors(t) = {}}

HasPayload(t) == items[t].payload \in {"command", "script"}
IsActive == mActive \intersect mUserActiveState
Pending(t) == t \in mCleanupSet \union Elements(uninstallList)

\* canBeUnlocked(): the timer and all it is in are wanted, by the flags user.
Unlocked(user) == {t \in mTimerMap : {t} \union Ancestors(t) \subseteq user}

\* Where enableTimer() goes on to from t: into folders, not to offset timers.
Branch(t) ==
    {u \in WithDescendants({t}) : \A a \in Ancestors(u) \ Ancestors(t) : IsFolder(a)}

\* Mutant: only timers with a script are started again.
StartedScripts(ts) == {t \in ts : items[t].payload = "script" /\ ~IsTemporary(t)}

\* The ones of ts, unlocked, that enableTimer(id) starts.
Started(ts) == {t \in ts : HasPayload(t)}

-----------------------------------------------------------------------------
(***************************************************************************)
(* Freeing.                                                                *)
(***************************************************************************)
\* doCleanup() where below is what is left on the stack, after a step that
\* leaves active, running and queued in mActive, armed and mCleanupSet.
DoCleanup(active, running, queued, below) ==
    /\ frames' = below
    /\ IF below # <<>>
       THEN /\ mActive' = active
            /\ armed' = running
            /\ mCleanupSet' = queued
            /\ UNCHANGED <<mTimerMap, items, mUserActiveState, uninstallList>>
       ELSE LET gone == WithDescendants(queued \union Elements(uninstallList)) IN
            /\ mTimerMap' = mTimerMap \ gone
            /\ items' = [t \in IDs |-> IF t \in gone THEN NoTimer ELSE items[t]]
            /\ mActive' = active \ gone
            /\ mUserActiveState' = mUserActiveState \ gone
            /\ armed' = running \ gone
            /\ mCleanupSet' = {}
            /\ uninstallList' = <<>>

\* Host::slot_purgeTemps(), or the end of a line.
PurgeTemps ==
    /\ DoCleanup(mActive, armed, mCleanupSet, frames)
    /\ UNCHANGED <<mMaxID, packages, stops>>

\* checkRestart().
Restarts(t, active) ==
    /\ ~IsTemporary(t) \/ items[t].repeating
    /\ ~IsOffsetTimer(t) /\ ~IsFolder(t)
    /\ t \in active /\ t \in mUserActiveState

\* The rest of timerFired() once execute() has returned.
AfterExecute(t, active, running, queued, below) ==
    DoCleanup(active, running \union (IF Restarts(t, active) THEN {t} ELSE {}), queued, below)

-----------------------------------------------------------------------------
(***************************************************************************)
(* A timer fires, and its script returns.                                  *)
(***************************************************************************)
\* The offset timers that t arms as it fires, with what is in their folders.
OffsetsArmed(t) ==
    (UNION {Branch(c) : c \in Children(t)}) \intersect Unlocked(mUserActiveState)

\* timerFired() and execute() up to the script.  The QTimer of a temporary
\* timer is single-shot.  A command takes no time.  That a timer which is not
\* active is only stopped does not arise while scripts compile (TypeOK).
TimerFires(t) ==
    LET ringing == IF IsTemporary(t) THEN armed \ {t} ELSE armed
        self == IF IsOffsetTimer(t) THEN {t} ELSE {}
        offsets == IF IsTemporary(t) THEN {} ELSE OffsetsArmed(t)
        active == (mActive \union offsets) \ self
        running == (ringing \union Started(offsets)) \ self
    IN
    /\ t \in armed
    /\ Len(frames) < MaxDepth
    /\ \/ /\ items[t].payload = "script"
          /\ frames' = Append(frames, t)
          /\ mActive' = active
          /\ armed' = running
          /\ UNCHANGED <<mTimerMap, items, mUserActiveState, doomed>>
       \/ /\ items[t].payload # "script"
          /\ AfterExecute(t, active, running, mCleanupSet, frames)
    /\ UNCHANGED <<mMaxID, packages, stops>>

\* A permanent timer's script may have failed.
ScriptReturns(fails) ==
    LET t == frames[Len(frames)]
        below == SubSeq(frames, 1, Len(frames) - 1)
        spent == IsTemporary(t) /\ ~items[t].repeating
    IN
    /\ frames # <<>>
    /\ fails => ~IsTemporary(t)
    /\ AfterExecute(t, mActive, IF spent \/ fails THEN armed \ {t} ELSE armed,
                    IF spent THEN mCleanupSet \union {t} ELSE mCleanupSet, below)
    /\ UNCHANGED <<mMaxID, packages, stops>>

-----------------------------------------------------------------------------
(***************************************************************************)
(* Timers are made, switched and killed by scripts and by the user.        *)
(***************************************************************************)
Register(new, item) ==
    /\ mMaxID' = new
    /\ mTimerMap' = mTimerMap \union {new}
    /\ items' = [items EXCEPT ![new] = item]

\* tempTimer().
TempTimer(repeating) ==
    LET new == mMaxID + 1 IN
    /\ new \in IDs
    /\ Register(new, [NoTimer EXCEPT !.temporary = TRUE, !.repeating = repeating,
                                     !.payload = "script"])
    /\ mUserActiveState' = mUserActiveState \union {new}
    /\ mActive' = mActive \union {new}
    /\ armed' = armed \union {new}
    /\ UNCHANGED <<doomed, frames, packages, stops>>

\* permTimer(), switched off, at the top or in any timer there is.
PermTimer(parent, payload) ==
    LET new == mMaxID + 1 IN
    /\ new \in IDs
    /\ Register(new, [NoTimer EXCEPT
          !.ancestors = IF parent = 0 THEN {} ELSE {parent} \union Ancestors(parent),
          !.payload = payload])
    /\ UNCHANGED <<flags, doomed, frames, packages, stops>>

\* enableTimer(name).  A timer that is no offset timer is started by
\* setIsActive(), whatever its payload, or stopped if a group of it is off;
\* an offset timer starts here only if it has a script.
EnableTimer(t) ==
    LET user == mUserActiveState \union {t}
        on == (IF IsFolder(t) /\ ~IsOffsetTimer(t) THEN Branch(t) ELSE {t})
              \intersect Unlocked(user)
    IN
    /\ ~Pending(t)
    /\ mUserActiveState' = user
    /\ mActive' = mActive \union on \union (IF IsOffsetTimer(t) THEN {} ELSE {t})
    /\ armed' = (IF t \in on \/ IsOffsetTimer(t) THEN armed ELSE armed \ {t})
                \union {u \in on : IF IsOffsetTimer(u) THEN items[u].payload = "script"
                                   ELSE HasPayload(u) \/ (u = t /\ ~IsFolder(t))}
    /\ UNCHANGED <<tree, doomed, frames, packages, stops>>

\* Mutant: the QTimers of what is in it go on.
DisableTimerAlone(t) ==
    /\ mUserActiveState' = mUserActiveState \ {t}
    /\ mActive' = mActive \ WithDescendants({t})
    /\ armed' = armed \ {t}
    /\ UNCHANGED <<tree, doomed, frames, packages, stops>>

\* disableTimer(name): what is in it stops with it, and stays wanted.
DisableTimer(t) ==
    /\ mUserActiveState' = mUserActiveState \ {t}
    /\ mActive' = mActive \ WithDescendants({t})
    /\ armed' = armed \ WithDescendants({t})
    /\ UNCHANGED <<tree, doomed, frames, packages, stops>>

\* killTimer(): temporary timers, freed later.
KillTimer(t) ==
    /\ t \in Roots /\ IsTemporary(t) /\ ~Pending(t)
    /\ mActive' = mActive \ {t}
    /\ armed' = armed \ {t}
    /\ mCleanupSet' = mCleanupSet \union {t}
    /\ UNCHANGED <<tree, mUserActiveState, uninstallList, frames, packages, stops>>

-----------------------------------------------------------------------------
(***************************************************************************)
(* The package.                                                            *)
(***************************************************************************)
\* XMLimport: a folder with one timer, which may be switched off.
InstallPackage(payload, isActive) ==
    LET folder == mMaxID + 1
        timer == mMaxID + 2
        on == {folder} \union (IF isActive THEN {timer} ELSE {})
    IN
    /\ ~mInstalledPackages
    /\ installs < MaxInstalls
    /\ timer \in IDs
    /\ mMaxID' = timer
    /\ mTimerMap' = mTimerMap \union {folder, timer}
    /\ items' = [items EXCEPT
          ![folder] = [NoTimer EXCEPT !.payload = "folder", !.packaged = TRUE],
          ![timer] = [NoTimer EXCEPT !.ancestors = {folder}, !.payload = payload]]
    /\ mUserActiveState' = mUserActiveState \union on
    /\ mActive' = mActive \union on
    /\ armed' = armed \union {t \in on \ {folder} : payload \in {"command", "script"}}
    /\ mInstalledPackages' = TRUE
    /\ installs' = installs + 1
    /\ UNCHANGED <<doomed, frames, stops>>

\* The orders _uninstall() may list ts in: what is in a timer comes before it.
ChildrenFirst(ts) ==
    {s \in [1..Cardinality(ts) -> ts] :
        /\ Elements(s) = ts
        /\ \A i, j \in DOMAIN s : i < j => s[i] \notin Ancestors(s[j])}

\* Mutant: what is uninstalled is freed under the scripts on the stack.
UninstallPackageAtOnce ==
    LET gone == WithDescendants({t \in Roots : items[t].packaged}) IN
    /\ mInstalledPackages
    /\ mInstalledPackages' = FALSE
    /\ mTimerMap' = mTimerMap \ gone
    /\ items' = [t \in IDs |-> IF t \in gone THEN NoTimer ELSE items[t]]
    /\ mActive' = mActive \ gone
    /\ mUserActiveState' = mUserActiveState \ gone
    /\ armed' = armed \ gone
    /\ UNCHANGED <<mMaxID, doomed, frames, installs, stops>>

\* uninstall().
UninstallPackage ==
    LET gone == WithDescendants({t \in Roots : items[t].packaged}) IN
    /\ mInstalledPackages
    /\ mInstalledPackages' = FALSE
    /\ mActive' = mActive \ gone
    /\ mUserActiveState' = mUserActiveState \ gone
    /\ armed' = armed \ gone
    /\ mCleanupSet' = mCleanupSet \ gone
    /\ IF frames # <<>>
       THEN /\ \E listed \in ChildrenFirst(gone) : uninstallList' = uninstallList \o listed
            /\ UNCHANGED <<mTimerMap, items>>
       ELSE /\ mTimerMap' = mTimerMap \ gone
            /\ items' = [t \in IDs |-> IF t \in gone THEN NoTimer ELSE items[t]]
            /\ uninstallList' = <<>>
    /\ UNCHANGED <<mMaxID, frames, installs, stops>>

-----------------------------------------------------------------------------
(***************************************************************************)
(* The emergency stop and the reset of the profile.                        *)
(***************************************************************************)
\* stopAllTriggers(): what a group that is off holds is passed over.
Stopped == {t \in mTimerMap : ({t} \union Ancestors(t)) \ Roots \subseteq mUserActiveState}

\* Mutant: the resume does not look for timers that are to be freed.
ResumedAll == (UNION {Branch(t) : t \in Roots}) \intersect Unlocked(mUserActiveState)

\* reenableAllTriggers(): those that wait to be freed are passed over, the
\* others go on as far as they are wanted.
Resumed ==
    (UNION {Branch(t) : t \in {r \in Roots : ~Pending(r)}})
        \intersect Unlocked(mUserActiveState)

StopAllTriggers ==
    /\ mActive' = mActive \ Stopped
    /\ armed' = armed \ Stopped
    /\ UNCHANGED <<tree, mUserActiveState, doomed, frames, packages>>

EmergencyStop ==
    /\ ~mEmergencyStop
    /\ mEmergencyStop' = TRUE
    /\ StopAllTriggers
    /\ UNCHANGED mResetProfile

Resume ==
    /\ mEmergencyStop
    /\ mEmergencyStop' = FALSE
    /\ mActive' = mActive \union Resumed
    /\ armed' = armed \union Started(Resumed)
    /\ UNCHANGED <<tree, mUserActiveState, doomed, frames, packages, mResetProfile>>

\* resetProfile_phase1().
ResetProfile ==
    /\ ~mResetProfile
    /\ mResetProfile' = TRUE
    /\ StopAllTriggers
    /\ UNCHANGED mEmergencyStop

\* resetProfile_phase2(), put off while a script is on the stack: no temporary
\* timer is left, and the others are resumed, an emergency stop or not.
ResetProfileFinishes ==
    LET gone == WithDescendants({t \in Roots : IsTemporary(t)} \union Elements(uninstallList))
    IN
    /\ mResetProfile
    /\ frames = <<>>
    /\ mResetProfile' = FALSE
    /\ mTimerMap' = mTimerMap \ gone
    /\ items' = [t \in IDs |-> IF t \in gone THEN NoTimer ELSE items[t]]
    /\ mUserActiveState' = mUserActiveState \ gone
    /\ mActive' = (mActive \union Resumed) \ gone
    /\ armed' = (armed \union Started(Resumed)) \ gone
    /\ mCleanupSet' = {}
    /\ uninstallList' = <<>>
    /\ UNCHANGED <<mMaxID, frames, packages, mEmergencyStop>>

-----------------------------------------------------------------------------
Init ==
    /\ mMaxID = 0
    /\ mTimerMap = {}
    /\ items = [t \in IDs |-> NoTimer]
    /\ mActive = {} /\ mUserActiveState = {} /\ armed = {}
    /\ mCleanupSet = {} /\ uninstallList = <<>>
    /\ frames = <<>>
    /\ installs = 0 /\ mInstalledPackages = FALSE
    /\ mEmergencyStop = FALSE /\ mResetProfile = FALSE

Next ==
    \/ \E repeating \in BOOLEAN : TempTimer(repeating)
    \/ \E parent \in mTimerMap \union {0}, payload \in PermPayloads : PermTimer(parent, payload)
    \/ \E t \in mTimerMap : EnableTimer(t) \/ DisableTimer(t) \/ KillTimer(t) \/ TimerFires(t)
    \/ \E fails \in BOOLEAN : ScriptReturns(fails)
    \/ PurgeTemps
    \/ \E payload \in PackagePayloads, isActive \in BOOLEAN : InstallPackage(payload, isActive)
    \/ UninstallPackage
    \/ EmergencyStop \/ Resume
    \/ ResetProfile \/ ResetProfileFinishes

Spec == Init /\ [][Next]_vars

-----------------------------------------------------------------------------
Items == [ancestors : SUBSET IDs, temporary : BOOLEAN, repeating : BOOLEAN,
          payload : Payloads, packaged : BOOLEAN]

TypeOK ==
    /\ mMaxID \in 0..MaxTimers
    /\ mTimerMap \subseteq 1..mMaxID
    /\ items \in [IDs -> Items]
    /\ \A t \in mTimerMap : Ancestors(t) \subseteq mTimerMap \intersect 1..(t - 1)
    /\ mActive \union mUserActiveState \subseteq mTimerMap
    /\ armed \subseteq IsActive
    /\ mCleanupSet \subseteq IDs
    /\ uninstallList \in Seq(IDs)
    /\ frames \in Seq(IDs) /\ Len(frames) <= MaxDepth
    /\ installs \in 0..MaxInstalls
    /\ {mInstalledPackages, mEmergencyStop, mResetProfile} \subseteq BOOLEAN

\* No timer is freed while its script is on the stack or while a queue holds
\* it, and none is freed again as a part of another: a queue never holds a
\* timer behind one that it is in (TimerUnit.cpp 99-109, 587-613; #9337).
FreedOnceAndLast ==
    /\ Elements(frames) \union mCleanupSet \union Elements(uninstallList) \subseteq mTimerMap
    /\ \A j \in DOMAIN uninstallList :
          /\ Ancestors(uninstallList[j]) \intersect mCleanupSet = {}
          /\ \A i \in 1..(j - 1) : uninstallList[i] \notin Ancestors(uninstallList[j])

\* A timer that was killed, is spent or was uninstalled never counts again,
\* whatever switches on or resumes what it is named or grouped with while it
\* waits to be freed (TimerUnit.cpp 150-156, 407-414, 538-544; #9887).
PendingNeverArmed == \A t \in armed : ~Pending(t)

\* Switched on, with every group it is in, and with something to do.
Wanted ==
    {t \in Unlocked(mUserActiveState) :
        /\ HasPayload(t) /\ ~Pending(t)
        /\ \A a \in Ancestors(t) : IsFolder(a)}

\* Unless everything was stopped, a timer that is switched on counts, or its
\* script is running: none is lost to a group that was off for a while, a stop
\* and what was done during it, a reset or a script that failed
\* (TTimer.cpp 325-329, #10751).
EnabledTimersRun ==
    ~mEmergencyStop /\ ~mResetProfile =>
        \A t \in Wanted : t \in armed \/ (IsTemporary(t) /\ t \in Elements(frames))

=============================================================================
