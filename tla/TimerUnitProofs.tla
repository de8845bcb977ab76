--------------------------- MODULE TimerUnitProofs ---------------------------
(***************************************************************************)
(* The timers of TimerUnit for every number of timers, installations and   *)
(* nested scripts: types, what is never freed too early, what is to be     *)
(* freed and never counts again, that what is switched on does count, and  *)
(* that what is freed is freed once, until a second installation.          *)
(*                                                                         *)
(* That a timer in a queue is off is not inductive alone.  What keeps it   *)
(* off depends on the queue: a timer that was killed or is spent is at the *)
(* top, where the resume asks whether it is pending, and is inactive or    *)
(* does not repeat; one that was uninstalled is not wanted any more, and   *)
(* enableTimer(), the one function that could have it wanted again, asks.  *)
(***************************************************************************)
EXTENDS TimerUnit, FiniteSetTheorems, WellFoundedInduction, TLAPS

\* The timers there are, a timer being younger than those it is in.
TreeOK ==
    /\ mMaxID \in 0..MaxTimers
    /\ mTimerMap \subseteq 1..mMaxID
    /\ items \in [IDs -> Items]
    /\ \A t \in mTimerMap : Ancestors(t) \subseteq mTimerMap \intersect 1..(t - 1)
    /\ \A t \in mTimerMap : \A a \in Ancestors(t) : Ancestors(a) \subseteq Ancestors(t)
    /\ \A t \in IDs : IsTemporary(t) => t \in mTimerMap /\ Ancestors(t) = {}

FlagsOK ==
    /\ mActive \union mUserActiveState \subseteq mTimerMap
    /\ armed \subseteq IsActive

\* Nothing that a queue or the stack holds was freed.
NothingFreedInUse ==
    Elements(frames) \union mCleanupSet \union Elements(uninstallList) \subseteq mTimerMap

QueuesOK ==
    /\ uninstallList \in Seq(IDs)
    /\ frames \in Seq(IDs) /\ Len(frames) <= MaxDepth
    /\ NothingFreedInUse

\* What keeps a timer that waits to be freed from being switched on.
DoomedStayOff ==
    /\ \A t \in mCleanupSet :
          /\ IsTemporary(t)
          /\ t \in mActive => ~items[t].repeating
          /\ t \notin armed
    /\ \A t \in Elements(uninstallList) : t \notin mUserActiveState

RestOK ==
    /\ installs \in 0..MaxInstalls
    /\ {mInstalledPackages, mEmergencyStop, mResetProfile} \subseteq BOOLEAN

IInv == TreeOK /\ FlagsOK /\ QueuesOK /\ DoomedStayOff /\ RestOK

-----------------------------------------------------------------------------
\* What the operators return.

\* A sequence and what it holds.
LEMMA ElementsIn ==
  ASSUME NEW S, NEW s \in Seq(S)
  PROVE  Elements(s) \subseteq S
  BY DEF Elements

LEMMA ElementsEmpty == Elements(<<>>) = {}
  BY DEF Elements

LEMMA ElementsAppend ==
  ASSUME NEW S, NEW s \in Seq(S), NEW e \in S
  PROVE  /\ Append(s, e) \in Seq(S)
         /\ Elements(Append(s, e)) \subseteq Elements(s) \union {e}
  BY DEF Elements

LEMMA ElementsFront ==
  ASSUME NEW S, NEW s \in Seq(S), s # <<>>
  PROVE  /\ s[Len(s)] \in Elements(s)
         /\ SubSeq(s, 1, Len(s) - 1) \in Seq(S)
         /\ Len(SubSeq(s, 1, Len(s) - 1)) = Len(s) - 1
         /\ Elements(SubSeq(s, 1, Len(s) - 1)) \subseteq Elements(s)
<1>1. Len(s) \in Nat /\ Len(s) > 0 /\ DOMAIN s = 1..Len(s)
  OBVIOUS
<1>2. s[Len(s)] \in Elements(s)
  BY <1>1 DEF Elements
<1> DEFINE r == SubSeq(s, 1, Len(s) - 1)
<1>3. r \in Seq(S) /\ Len(r) = Len(s) - 1
  BY <1>1
<1>4. ASSUME NEW i \in DOMAIN r PROVE i \in DOMAIN s /\ r[i] = s[i]
  BY <1>1, <1>3
<1>5. QED
  BY <1>2, <1>3, <1>4 DEF Elements

LEMMA ElementsConcatenated ==
  ASSUME NEW S, NEW s \in Seq(S), NEW r \in Seq(S)
  PROVE  /\ s \o r \in Seq(S)
         /\ Elements(s \o r) = Elements(s) \union Elements(r)
<1>1. s \o r \in Seq(S)
  OBVIOUS
<1>2. Elements(s \o r) \subseteq Elements(s) \union Elements(r)
  BY DEF Elements
<1>3. ASSUME NEW e \in Elements(s) PROVE e \in Elements(s \o r)
  BY DEF Elements
<1>4. ASSUME NEW e \in Elements(r) PROVE e \in Elements(s \o r)
  <2>1. PICK i \in DOMAIN r : e = r[i]
    BY DEF Elements
  <2>2. Len(s) + i \in DOMAIN (s \o r) /\ (s \o r)[Len(s) + i] = r[i]
    BY <2>1
  <2>3. QED
    BY <2>1, <2>2 DEF Elements
<1>5. QED
  BY <1>1, <1>2, <1>3, <1>4

\* Where an enable or a resume goes on to below t has ancestors.
LEMMA BranchIsBelow ==
  ASSUME NEW t, NEW u \in Branch(t)
  PROVE  u \in mTimerMap /\ (u = t \/ t \in Ancestors(u))
  BY DEF Branch, WithDescendants

\* The offset timers that a firing timer arms are wanted, and not at the top.
LEMMA OffsetsAreBelow ==
  ASSUME NEW t, NEW u \in OffsetsArmed(t)
  PROVE  /\ u \in mTimerMap /\ u \in mUserActiveState
         /\ Ancestors(u) # {}
  BY BranchIsBelow DEF OffsetsArmed, Children, Unlocked

-----------------------------------------------------------------------------
\* What freeing and registering leave in order.

\* What is freed takes with it everything that is in it.
LEMMA FreeingKeepsTree ==
  ASSUME TreeOK, NEW ts,
         mMaxID' = mMaxID,
         mTimerMap' = mTimerMap \ WithDescendants(ts),
         items' = [t \in IDs |-> IF t \in WithDescendants(ts) THEN NoTimer ELSE items[t]]
  PROVE  TreeOK'
<1> DEFINE gone == WithDescendants(ts)
<1>1. mTimerMap \subseteq IDs
  BY TimerUnitAssumption DEF TreeOK, IDs
<1>2. items' \in [IDs -> Items]
  BY DEF TreeOK, NoTimer, Items, Payloads
<1>3. ASSUME NEW t \in mTimerMap'
      PROVE  /\ t \in mTimerMap /\ items'[t] = items[t]
             /\ \A a \in items[t].ancestors : a \in mTimerMap' /\ items'[a] = items[a]
  <2>1. t \in mTimerMap /\ t \notin gone /\ items'[t] = items[t]
    BY <1>1
  <2>2. ASSUME NEW a \in items[t].ancestors PROVE a \in mTimerMap /\ a \notin gone
    <3>1. a \in mTimerMap /\ Ancestors(a) \subseteq Ancestors(t) /\ a \in Ancestors(t)
      BY <2>1 DEF TreeOK, Ancestors
    <3>2. ASSUME NEW x \in ts, x \in {a} \union Ancestors(a) PROVE x \in Ancestors(t)
      BY <3>1, <3>2
    <3>3. (({t} \union Ancestors(t)) \intersect ts) = {}
      BY <2>1 DEF WithDescendants
    <3>4. (({a} \union Ancestors(a)) \intersect ts) = {}
      BY <3>2, <3>3
    <3>5. QED
      BY <3>1, <3>4 DEF WithDescendants
  <2>3. QED
    BY <1>1, <2>1, <2>2
<1>4. \A t \in IDs : items'[t].temporary => t \in mTimerMap' /\ items'[t].ancestors = {}
  BY DEF TreeOK, IsTemporary, Ancestors, NoTimer
<1>5. \A t \in mTimerMap' : items'[t].ancestors \subseteq mTimerMap' \intersect 1..(t - 1)
  BY <1>3 DEF TreeOK, Ancestors
<1>6. \A t \in mTimerMap' : \A a \in items'[t].ancestors :
          items'[a].ancestors \subseteq items'[t].ancestors
  BY <1>3 DEF TreeOK, Ancestors
<1>7. mMaxID' \in 0..MaxTimers /\ mTimerMap' \subseteq 1..mMaxID'
  BY DEF TreeOK
<1>8. QED
  BY <1>2, <1>4, <1>5, <1>6, <1>7 DEF TreeOK, Ancestors, IsTemporary

\* A new timer at the top, or in a timer there is.
LEMMA RegisteringKeepsTree ==
  ASSUME TreeOK, NEW new \in IDs, new = mMaxID + 1, NEW item \in Items,
         item.ancestors \subseteq mTimerMap,
         \A a \in item.ancestors : Ancestors(a) \subseteq item.ancestors,
         item.temporary => item.ancestors = {},
         Register(new, item)
  PROVE  TreeOK'
<1>1. mTimerMap \subseteq IDs /\ new \notin mTimerMap /\ new \in 1..MaxTimers
  BY TimerUnitAssumption DEF TreeOK, IDs
<1>2. items' \in [IDs -> Items] /\ items'[new] = item
  BY DEF TreeOK, Register
<1>3. \A t \in mTimerMap : items'[t] = items[t]
  BY <1>1 DEF TreeOK, Register
<1>4. /\ mMaxID' \in 0..MaxTimers /\ mTimerMap' = mTimerMap \union {new}
      /\ mTimerMap' \subseteq 1..mMaxID'
  BY <1>1, TimerUnitAssumption DEF TreeOK, Register
<1>5. \A t \in mTimerMap' : items'[t].ancestors \subseteq mTimerMap' \intersect 1..(t - 1)
  <2>1. item.ancestors \subseteq 1..(new - 1)
    <3>1. mMaxID \in Nat /\ new - 1 = mMaxID
      BY TimerUnitAssumption DEF TreeOK
    <3>2. QED
      BY <3>1 DEF TreeOK
  <2>2. QED
    BY <1>2, <1>3, <1>4, <2>1 DEF TreeOK, Ancestors
<1>6. \A t \in mTimerMap' : \A a \in items'[t].ancestors :
          items'[a].ancestors \subseteq items'[t].ancestors
  BY <1>2, <1>3, <1>4 DEF TreeOK, Ancestors
<1>7. \A t \in IDs : items'[t].temporary => t \in mTimerMap' /\ items'[t].ancestors = {}
  BY <1>2, <1>4 DEF TreeOK, IsTemporary, Ancestors, Register
<1>8. QED
  BY <1>2, <1>4, <1>5, <1>6, <1>7 DEF TreeOK, Ancestors, IsTemporary

\* doCleanup(), which frees both queues once no script is on the stack, and
\* until then leaves what the step before it did.
LEMMA CleanupKeeps ==
  ASSUME TreeOK, FlagsOK, QueuesOK, DoomedStayOff, mMaxID' = mMaxID,
         NEW active \in SUBSET mTimerMap,
         NEW running \in SUBSET (active \intersect mUserActiveState),
         NEW queued \in SUBSET mTimerMap,
         NEW below \in Seq(IDs), Len(below) <= MaxDepth, Elements(below) \subseteq mTimerMap,
         \A t \in queued : /\ IsTemporary(t)
                           /\ t \in active => ~items[t].repeating
                           /\ t \notin running,
         DoCleanup(active, running, queued, below)
  PROVE  TreeOK' /\ FlagsOK' /\ QueuesOK' /\ DoomedStayOff'
<1>1. CASE below # <<>>
  <2>1. TreeOK'
    BY <1>1 DEF DoCleanup, TreeOK, Ancestors, IsTemporary
  <2>2. FlagsOK'
    BY <1>1 DEF DoCleanup, FlagsOK, IsActive
  <2>3. QueuesOK'
    BY <1>1 DEF DoCleanup, QueuesOK, NothingFreedInUse
  <2>4. DoomedStayOff'
    BY <1>1 DEF DoCleanup, DoomedStayOff, IsTemporary
  <2>5. QED
    BY <2>1, <2>2, <2>3, <2>4
<1>2. CASE below = <<>>
  <2>1. TreeOK'
    <3>1. PICK ts : /\ mTimerMap' = mTimerMap \ WithDescendants(ts)
                    /\ items' = [t \in IDs |-> IF t \in WithDescendants(ts) THEN NoTimer
                                               ELSE items[t]]
      BY <1>2 DEF DoCleanup
    <3>2. QED
      BY <3>1, FreeingKeepsTree
  <2>2. FlagsOK'
    BY <1>2 DEF DoCleanup, FlagsOK, IsActive
  <2>3. frames' = <<>> /\ uninstallList' = <<>> /\ mCleanupSet' = {}
    BY <1>2 DEF DoCleanup
  <2>4. Elements(frames') = {} /\ Elements(uninstallList') = {}
    BY <2>3, ElementsEmpty
  <2>5. QueuesOK'
    BY <2>3, <2>4, TimerUnitAssumption DEF QueuesOK, NothingFreedInUse, Elements
  <2>6. DoomedStayOff'
    BY <2>3, <2>4 DEF DoomedStayOff, Elements
  <2>7. QED
    BY <2>1, <2>2, <2>5, <2>6
<1>3. QED
  BY <1>1, <1>2

-----------------------------------------------------------------------------
\* What is and what is not pending.

\* The timers there are, and what the queues hold, have ids.
LEMMA TimersAreIDs ==
  ASSUME IInv
  PROVE  /\ mTimerMap \subseteq IDs
         /\ mCleanupSet \subseteq mTimerMap /\ mCleanupSet \subseteq IDs
         /\ Elements(uninstallList) \subseteq mTimerMap
<1>1. mTimerMap \subseteq IDs
  BY TimerUnitAssumption DEF IInv, TreeOK, IDs
<1>2. mCleanupSet \subseteq mTimerMap /\ Elements(uninstallList) \subseteq mTimerMap
  BY DEF IInv, QueuesOK, NothingFreedInUse
<1>3. QED
  BY <1>1, <1>2

\* An id that is not given yet is in no queue.
LEMMA NewIsFresh ==
  ASSUME IInv, NEW new \in Int, new > mMaxID
  PROVE  /\ new \notin mTimerMap /\ new \notin mCleanupSet
         /\ new \notin Elements(uninstallList)
<1>1. new \notin mTimerMap
  BY TimerUnitAssumption DEF IInv, TreeOK
<1>2. QED
  BY <1>1 DEF IInv, QueuesOK, NothingFreedInUse

\* What is wanted is pending only at the top, by a kill or as spent.
LEMMA WantedIsNotPending ==
  ASSUME IInv, NEW t, ~Pending(t), NEW u \in Branch(t), u = t \/ u \in mUserActiveState
  PROVE  ~Pending(u)
<1>1. CASE u = t
  BY <1>1
<1>2. CASE u # t
  <2>1. u \in mTimerMap /\ Ancestors(u) # {} /\ u \in mUserActiveState
    BY <1>2, BranchIsBelow
  <2>2. u \in IDs
    BY <2>1, TimerUnitAssumption DEF IInv, TreeOK, IDs
  <2>3. u \notin mCleanupSet
    BY <2>1, <2>2 DEF IInv, TreeOK, DoomedStayOff
  <2>4. u \notin Elements(uninstallList)
    BY <2>1 DEF IInv, DoomedStayOff
  <2>5. QED
    BY <2>3, <2>4 DEF Pending
<1>3. QED
  BY <1>1, <1>2

\* What is resumed is there, is wanted and does not wait to be freed.
LEMMA ResumedIsNotPending ==
  ASSUME IInv, NEW u \in Resumed
  PROVE  u \in mTimerMap /\ u \in mUserActiveState /\ ~Pending(u)
<1>1. PICK t \in {r \in Roots : ~Pending(r)} : u \in Branch(t)
  BY DEF Resumed
<1>2. u \in mTimerMap /\ u \in mUserActiveState
  BY DEF Resumed, Unlocked
<1>3. QED
  BY <1>1, <1>2, WantedIsNotPending

\* The timers armed do not wait to be freed.
LEMMA ArmedIsNotPending ==
  ASSUME IInv
  PROVE  PendingNeverArmed
  BY DEF IInv, FlagsOK, IsActive, DoomedStayOff, PendingNeverArmed, Pending

-----------------------------------------------------------------------------
\* Every action preserves the invariant.

\* At first there is no timer.
LEMMA InvInit == Init => IInv
<1> SUFFICES ASSUME Init PROVE IInv
  OBVIOUS
<1>1. TreeOK
  BY TimerUnitAssumption DEF Init, TreeOK, NoTimer, Items, Payloads, Ancestors, IsTemporary, IDs
<1>2. FlagsOK
  BY DEF Init, FlagsOK, IsActive
<1>3. QueuesOK
  BY ElementsEmpty, TimerUnitAssumption DEF Init, QueuesOK, NothingFreedInUse
<1>4. DoomedStayOff
  BY ElementsEmpty DEF Init, DoomedStayOff
<1>5. RestOK
  <2>1. installs \in 0..MaxInstalls
    BY TimerUnitAssumption DEF Init
  <2>2. {mInstalledPackages, mEmergencyStop, mResetProfile} \subseteq BOOLEAN
    BY Zenon DEF Init
  <2>3. QED
    BY <2>1, <2>2 DEF RestOK
<1>6. QED
  BY <1>1, <1>2, <1>3, <1>4, <1>5 DEF IInv

\* tempTimer(): the new timer's id is in no queue.
LEMMA InvTempTimer ==
  ASSUME IInv, NEW repeating \in BOOLEAN, TempTimer(repeating)
  PROVE  IInv'
<1> DEFINE new == mMaxID + 1
           item == [NoTimer EXCEPT !.temporary = TRUE, !.repeating = repeating,
                                   !.payload = "script"]
<1>1. item \in Items /\ item.ancestors = {}
  BY DEF NoTimer, Items, Payloads
<1>2. new \in IDs /\ Register(new, item)
  BY DEF TempTimer
<1>3. TreeOK'
  <2> HIDE DEF item
  <2>1. QED
    BY <1>1, <1>2, RegisteringKeepsTree DEF IInv
<1>4. new \notin mTimerMap /\ new \notin mCleanupSet /\ new \notin Elements(uninstallList)
  BY TimerUnitAssumption, NewIsFresh DEF IInv, TreeOK
<1>5. \A t \in IDs : t # new => items'[t] = items[t]
  BY <1>2 DEF Register, IInv, TreeOK
<1>6. FlagsOK'
  BY <1>2 DEF TempTimer, Register, IInv, FlagsOK, IsActive
<1>7. QueuesOK'
  BY <1>2 DEF TempTimer, Register, doomed, IInv, QueuesOK, NothingFreedInUse
<1>8. DoomedStayOff'
  <2>1. mCleanupSet \subseteq IDs
    BY TimersAreIDs
  <2>2. QED
    BY <1>4, <1>5, <2>1 DEF TempTimer, doomed, IInv, DoomedStayOff, IsTemporary
<1>9. RestOK'
  BY DEF TempTimer, packages, stops, IInv, RestOK
<1>10. QED
  BY <1>3, <1>6, <1>7, <1>8, <1>9 DEF IInv

\* permTimer(): a new timer is switched off.
LEMMA InvPermTimer ==
  ASSUME IInv, NEW parent \in mTimerMap \union {0}, NEW payload \in PermPayloads,
         PermTimer(parent, payload)
  PROVE  IInv'
<1> DEFINE new == mMaxID + 1
           ancestors == IF parent = 0 THEN {} ELSE {parent} \union Ancestors(parent)
           item == [NoTimer EXCEPT !.ancestors = ancestors, !.payload = payload]
<1>1. ancestors \subseteq mTimerMap /\ mTimerMap \subseteq IDs
  BY TimerUnitAssumption DEF IInv, TreeOK, IDs
<1>2. \A a \in ancestors : Ancestors(a) \subseteq ancestors
  BY DEF IInv, TreeOK
<1>3. item \in Items /\ item.ancestors = ancestors /\ ~item.temporary
  BY <1>1, TimerUnitAssumption DEF NoTimer, Items
<1>4. new \in IDs /\ Register(new, item)
  BY DEF PermTimer
<1>5. TreeOK'
  <2> HIDE DEF item, ancestors
  <2>1. QED
    BY <1>1, <1>2, <1>3, <1>4, RegisteringKeepsTree DEF IInv
<1>6. new \notin mTimerMap
  BY TimerUnitAssumption, NewIsFresh DEF IInv, TreeOK
<1>7. \A t \in IDs : t # new => items'[t] = items[t]
  BY <1>4 DEF Register, IInv, TreeOK
<1>8. FlagsOK'
  BY <1>4 DEF PermTimer, Register, flags, IInv, FlagsOK, IsActive
<1>9. QueuesOK'
  BY <1>4 DEF PermTimer, Register, doomed, IInv, QueuesOK, NothingFreedInUse
<1>10. DoomedStayOff'
  <2>1. mCleanupSet \subseteq mTimerMap
    BY TimersAreIDs
  <2>2. QED
    BY <1>1, <1>6, <1>7, <2>1 DEF PermTimer, doomed, flags, IInv, DoomedStayOff, IsTemporary
<1>11. RestOK'
  BY DEF PermTimer, packages, stops, IInv, RestOK
<1>12. QED
  BY <1>5, <1>8, <1>9, <1>10, <1>11 DEF IInv

\* enableTimer(name): it is not pending, and what it switches on in its group is
\* wanted and not at the top.
LEMMA InvEnableTimer ==
  ASSUME IInv, NEW t \in mTimerMap, EnableTimer(t)
  PROVE  IInv'
<1> DEFINE user == mUserActiveState \union {t}
           on == (IF IsFolder(t) /\ ~IsOffsetTimer(t) THEN Branch(t) ELSE {t})
                 \intersect Unlocked(user)
<1>1. /\ mUserActiveState' = user /\ ~Pending(t)
      /\ mActive' \subseteq mActive \union on \union {t}
      /\ mActive \union on \subseteq mActive'
      /\ IsOffsetTimer(t) \/ t \in mActive'
      /\ armed' \subseteq armed \union on \union {t}
      /\ t \in armed' => t \in on \/ (IsOffsetTimer(t) /\ t \in armed)
  BY DEF EnableTimer
<1>2. ASSUME NEW u \in on PROVE u \in mTimerMap /\ u \in user /\ ~Pending(u)
  <2>1. u \in mTimerMap /\ u \in user
    BY DEF Unlocked
  <2>2. u = t \/ (u \in Branch(t) /\ u \in mUserActiveState)
    BY <2>1
  <2>3. QED
    BY <1>1, <2>1, <2>2, WantedIsNotPending
<1>3. TreeOK'
  BY DEF EnableTimer, tree, IInv, TreeOK, Ancestors, IsTemporary
<1>4. FlagsOK'
  <2> HIDE DEF on
  <2>1. QED
    BY <1>1, <1>2 DEF EnableTimer, tree, IInv, FlagsOK, IsActive
<1>5. QueuesOK'
  BY DEF EnableTimer, tree, doomed, IInv, QueuesOK, NothingFreedInUse
<1>6. DoomedStayOff'
  <2> HIDE DEF on
  <2>1. QED
    BY <1>1, <1>2 DEF EnableTimer, tree, doomed, IInv, DoomedStayOff, IsTemporary, Pending
<1>7. RestOK'
  BY DEF EnableTimer, packages, stops, IInv, RestOK
<1>8. QED
  BY <1>3, <1>4, <1>5, <1>6, <1>7 DEF IInv

\* disableTimer(name).
LEMMA InvDisableTimer ==
  ASSUME IInv, NEW t \in mTimerMap, DisableTimer(t)
  PROVE  IInv'
<1>1. TreeOK'
  BY DEF DisableTimer, tree, IInv, TreeOK, Ancestors, IsTemporary
<1>2. FlagsOK'
  <2>1. t \in WithDescendants({t})
    BY DEF WithDescendants
  <2>2. QED
    BY <2>1 DEF DisableTimer, tree, IInv, FlagsOK, IsActive
<1>3. QueuesOK'
  BY DEF DisableTimer, tree, doomed, IInv, QueuesOK, NothingFreedInUse
<1>4. DoomedStayOff'
  BY DEF DisableTimer, tree, doomed, IInv, DoomedStayOff, IsTemporary
<1>5. RestOK'
  BY DEF DisableTimer, packages, stops, IInv, RestOK
<1>6. QED
  BY <1>1, <1>2, <1>3, <1>4, <1>5 DEF IInv

\* killTimer(): what is killed is temporary and switched off.
LEMMA InvKillTimer ==
  ASSUME IInv, NEW t \in mTimerMap, KillTimer(t)
  PROVE  IInv'
<1>1. TreeOK'
  BY DEF KillTimer, tree, IInv, TreeOK, Ancestors, IsTemporary
<1>2. FlagsOK'
  BY DEF KillTimer, tree, IInv, FlagsOK, IsActive
<1>3. QueuesOK'
  BY DEF KillTimer, tree, IInv, QueuesOK, NothingFreedInUse
<1>4. DoomedStayOff'
  BY DEF KillTimer, tree, IInv, DoomedStayOff, IsTemporary
<1>5. RestOK'
  BY DEF KillTimer, packages, stops, IInv, RestOK
<1>6. QED
  BY <1>1, <1>2, <1>3, <1>4, <1>5 DEF IInv

\* The stop of everything: of the flags, only mActive and the QTimers change.
LEMMA InvStopAllTriggers ==
  ASSUME IInv, StopAllTriggers
  PROVE  TreeOK' /\ FlagsOK' /\ QueuesOK' /\ DoomedStayOff'
<1>1. TreeOK'
  BY DEF StopAllTriggers, tree, IInv, TreeOK, Ancestors, IsTemporary
<1>2. FlagsOK'
  BY DEF StopAllTriggers, tree, IInv, FlagsOK, IsActive
<1>3. QueuesOK'
  BY DEF StopAllTriggers, tree, doomed, IInv, QueuesOK, NothingFreedInUse
<1>4. DoomedStayOff'
  BY DEF StopAllTriggers, tree, doomed, IInv, DoomedStayOff, IsTemporary
<1>5. QED
  BY <1>1, <1>2, <1>3, <1>4

\* The emergency stop.
LEMMA InvEmergencyStop ==
  ASSUME IInv, EmergencyStop
  PROVE  IInv'
<1>1. RestOK'
  <2>1. installs' \in 0..MaxInstalls
    BY DEF EmergencyStop, StopAllTriggers, packages, IInv, RestOK
  <2>2. {mInstalledPackages', mEmergencyStop', mResetProfile'} \subseteq BOOLEAN
    BY Zenon DEF EmergencyStop, StopAllTriggers, packages, IInv, RestOK
  <2>3. QED
    BY <2>1, <2>2 DEF RestOK
<1>2. QED
  BY <1>1, InvStopAllTriggers DEF EmergencyStop, IInv

\* The first half of a reset.
LEMMA InvResetProfile ==
  ASSUME IInv, ResetProfile
  PROVE  IInv'
<1>1. RestOK'
  <2>1. installs' \in 0..MaxInstalls
    BY DEF ResetProfile, StopAllTriggers, packages, IInv, RestOK
  <2>2. {mInstalledPackages', mEmergencyStop', mResetProfile'} \subseteq BOOLEAN
    BY Zenon DEF ResetProfile, StopAllTriggers, packages, IInv, RestOK
  <2>3. QED
    BY <2>1, <2>2 DEF RestOK
<1>2. QED
  BY <1>1, InvStopAllTriggers DEF ResetProfile, IInv

\* The resume passes over what waits to be freed.
LEMMA InvResume ==
  ASSUME IInv, Resume
  PROVE  IInv'
<1>1. \A u \in Resumed : u \in mTimerMap /\ u \in mUserActiveState /\ ~Pending(u)
  BY ResumedIsNotPending
<1>2. /\ mActive' = mActive \union Resumed
      /\ armed' \subseteq armed \union Resumed
  BY DEF Resume, Started
<1>3. TreeOK'
  BY DEF Resume, tree, IInv, TreeOK, Ancestors, IsTemporary
<1>4. FlagsOK'
  BY <1>1, <1>2 DEF Resume, tree, IInv, FlagsOK, IsActive
<1>5. QueuesOK'
  BY DEF Resume, tree, doomed, IInv, QueuesOK, NothingFreedInUse
<1>6. DoomedStayOff'
  BY <1>1, <1>2 DEF Resume, tree, doomed, IInv, DoomedStayOff, IsTemporary, Pending
<1>7. RestOK'
  <2>1. installs' \in 0..MaxInstalls
    BY DEF Resume, packages, IInv, RestOK
  <2>2. {mInstalledPackages', mEmergencyStop', mResetProfile'} \subseteq BOOLEAN
    BY Zenon DEF Resume, packages, IInv, RestOK
  <2>3. QED
    BY <2>1, <2>2 DEF RestOK
<1>8. QED
  BY <1>3, <1>4, <1>5, <1>6, <1>7 DEF IInv

\* doCleanup() at any other time.
LEMMA InvPurgeTemps ==
  ASSUME IInv, PurgeTemps
  PROVE  IInv'
<1>1. TreeOK' /\ FlagsOK' /\ QueuesOK' /\ DoomedStayOff'
  <2>1. /\ mActive \in SUBSET mTimerMap
        /\ armed \in SUBSET (mActive \intersect mUserActiveState)
        /\ mCleanupSet \in SUBSET mTimerMap
    BY TimersAreIDs DEF IInv, FlagsOK, IsActive
  <2>2. frames \in Seq(IDs) /\ Len(frames) <= MaxDepth /\ Elements(frames) \subseteq mTimerMap
    BY DEF IInv, QueuesOK, NothingFreedInUse
  <2>3. \A t \in mCleanupSet :
           IsTemporary(t) /\ (t \in mActive => ~items[t].repeating) /\ t \notin armed
    BY DEF IInv, DoomedStayOff
  <2>4. DoCleanup(mActive, armed, mCleanupSet, frames) /\ mMaxID' = mMaxID
    BY DEF PurgeTemps
  <2>5. QED
    BY <2>1, <2>2, <2>3, <2>4, CleanupKeeps DEF IInv
<1>2. RestOK'
  BY DEF PurgeTemps, packages, stops, IInv, RestOK
<1>3. QED
  BY <1>1, <1>2 DEF IInv

\* What is left of timerFired() arms t again only if it is active and wanted.  A
\* timer that became pending in its script is not, or does not repeat.
LEMMA InvAfterExecute ==
  ASSUME IInv, NEW t, mMaxID' = mMaxID,
         NEW active \in SUBSET mTimerMap,
         NEW running \in SUBSET (active \intersect mUserActiveState),
         NEW queued \in SUBSET mTimerMap,
         NEW below \in Seq(IDs), Len(below) <= MaxDepth, Elements(below) \subseteq mTimerMap,
         \A u \in queued : /\ IsTemporary(u)
                           /\ u \in active => ~items[u].repeating
                           /\ u \notin running,
         AfterExecute(t, active, running, queued, below)
  PROVE  TreeOK' /\ FlagsOK' /\ QueuesOK' /\ DoomedStayOff'
<1> DEFINE restarted == IF Restarts(t, active) THEN {t} ELSE {}
<1>1. running \union restarted \in SUBSET (active \intersect mUserActiveState)
  BY DEF Restarts
<1>2. \A u \in queued : u \notin restarted
  BY DEF Restarts
<1>3. DoCleanup(active, running \union restarted, queued, below)
  BY DEF AfterExecute
<1>4. QED
  <2> HIDE DEF restarted
  <2>1. \A u \in queued : /\ IsTemporary(u)
                          /\ u \in active => ~items[u].repeating
                          /\ u \notin running \union restarted
    BY <1>2
  <2>2. QED
    BY <1>1, <1>3, <2>1, CleanupKeeps DEF IInv

\* A timer fires: it is not pending, and neither are the offset timers it arms,
\* which are wanted and not at the top.
LEMMA InvTimerFires ==
  ASSUME IInv, NEW t \in mTimerMap, TimerFires(t)
  PROVE  IInv'
<1> DEFINE ringing == IF IsTemporary(t) THEN armed \ {t} ELSE armed
           self == IF IsOffsetTimer(t) THEN {t} ELSE {}
           offsets == IF IsTemporary(t) THEN {} ELSE OffsetsArmed(t)
           active == (mActive \union offsets) \ self
           running == (ringing \union Started(offsets)) \ self
<1>1. \A u \in offsets : u \in mTimerMap /\ u \in mUserActiveState /\ Ancestors(u) # {}
  BY OffsetsAreBelow
<1>2. active \in SUBSET mTimerMap /\ active \subseteq mActive \union offsets
  BY <1>1 DEF IInv, FlagsOK
<1>3. /\ running \in SUBSET (active \intersect mUserActiveState)
      /\ running \subseteq armed \union offsets
  BY <1>1 DEF IInv, FlagsOK, IsActive, Started
<1>4. \A u \in mCleanupSet : /\ IsTemporary(u)
                             /\ u \in active => ~items[u].repeating
                             /\ u \notin running
  <2>1. \A u \in mCleanupSet : u \notin offsets
    BY <1>1, TimersAreIDs DEF IInv, DoomedStayOff, TreeOK
  <2>2. QED
    BY <1>2, <1>3, <2>1 DEF IInv, DoomedStayOff
<1>5. t \in IDs /\ mCleanupSet \in SUBSET mTimerMap
  BY TimersAreIDs
<1>6. mMaxID' = mMaxID
  BY DEF TimerFires
<1>7. RestOK'
  BY DEF TimerFires, packages, stops, IInv, RestOK
<1>8. CASE /\ frames' = Append(frames, t)
           /\ mActive' = active
           /\ armed' = running
           /\ UNCHANGED <<mTimerMap, items, mUserActiveState, doomed>>
  <2> HIDE DEF active, running
  <2>1. TreeOK'
    BY <1>6, <1>8 DEF IInv, TreeOK, Ancestors, IsTemporary
  <2>2. FlagsOK'
    BY <1>2, <1>3, <1>8 DEF IInv, FlagsOK, IsActive
  <2>3. QueuesOK'
    <3>1. /\ Append(frames, t) \in Seq(IDs) /\ Len(Append(frames, t)) <= MaxDepth
          /\ Elements(Append(frames, t)) \subseteq Elements(frames) \union {t}
      BY <1>5, ElementsAppend, TimerUnitAssumption DEF TimerFires, IInv, QueuesOK
    <3>2. QED
      BY <1>8, <3>1 DEF doomed, IInv, QueuesOK, NothingFreedInUse
  <2>4. DoomedStayOff'
    BY <1>4, <1>8 DEF doomed, IInv, DoomedStayOff, IsTemporary
  <2>5. QED
    BY <1>7, <2>1, <2>2, <2>3, <2>4 DEF IInv
<1>9. CASE AfterExecute(t, active, running, mCleanupSet, frames)
  <2> HIDE DEF active, running
  <2>1. frames \in Seq(IDs) /\ Len(frames) <= MaxDepth /\ Elements(frames) \subseteq mTimerMap
    BY DEF IInv, QueuesOK, NothingFreedInUse
  <2>2. QED
    BY <1>2, <1>3, <1>4, <1>5, <1>6, <1>9, <1>7, <2>1, InvAfterExecute DEF IInv
<1>10. QED
  BY <1>8, <1>9 DEF TimerFires

\* A script returns, and its timer is spent if it was to fire once.
LEMMA InvScriptReturns ==
  ASSUME IInv, NEW fails \in BOOLEAN, ScriptReturns(fails)
  PROVE  IInv'
<1> DEFINE t == frames[Len(frames)]
           below == SubSeq(frames, 1, Len(frames) - 1)
           spent == IsTemporary(t) /\ ~items[t].repeating
           running == IF spent \/ fails THEN armed \ {t} ELSE armed
           queued == IF spent THEN mCleanupSet \union {t} ELSE mCleanupSet
<1>1. frames # <<>> /\ frames \in Seq(IDs) /\ Len(frames) \in Nat /\ Len(frames) <= MaxDepth
  BY DEF ScriptReturns, IInv, QueuesOK
<1>2. /\ t \in Elements(frames) /\ below \in Seq(IDs) /\ Len(below) = Len(frames) - 1
      /\ Elements(below) \subseteq Elements(frames)
  BY <1>1, ElementsFront
<1>3. t \in mTimerMap /\ Elements(below) \subseteq mTimerMap /\ Len(below) <= MaxDepth
  <2>1. Elements(frames) \subseteq mTimerMap
    BY DEF IInv, QueuesOK, NothingFreedInUse
  <2>2. Len(frames) - 1 <= MaxDepth
    BY <1>1, TimerUnitAssumption
  <2>3. QED
    BY <1>2, <2>1, <2>2
<1>4. AfterExecute(t, mActive, running, queued, below) /\ mMaxID' = mMaxID
  BY DEF ScriptReturns
<1> HIDE DEF t, below
<1>5. /\ mActive \in SUBSET mTimerMap
      /\ running \in SUBSET (mActive \intersect mUserActiveState)
      /\ queued \in SUBSET mTimerMap
  BY <1>3, TimersAreIDs DEF IInv, FlagsOK, IsActive
<1>6. \A u \in queued : /\ IsTemporary(u)
                        /\ u \in mActive => ~items[u].repeating
                        /\ u \notin running
  BY DEF IInv, DoomedStayOff
<1>7. TreeOK' /\ FlagsOK' /\ QueuesOK' /\ DoomedStayOff'
  <2> HIDE DEF running, queued
  <2>1. QED
    BY <1>2, <1>3, <1>4, <1>5, <1>6, InvAfterExecute
<1>8. RestOK'
  BY DEF ScriptReturns, packages, stops, IInv, RestOK
<1>9. QED
  BY <1>7, <1>8 DEF IInv

\* XMLimport: two new timers, one in the other.
LEMMA InvInstallPackage ==
  ASSUME IInv, NEW payload \in PackagePayloads, NEW isActive \in BOOLEAN,
         InstallPackage(payload, isActive)
  PROVE  IInv'
<1> DEFINE folder == mMaxID + 1
           timer == mMaxID + 2
           folderItem == [NoTimer EXCEPT !.payload = "folder", !.packaged = TRUE]
           timerItem == [NoTimer EXCEPT !.ancestors = {folder}, !.payload = payload]
<1>1. /\ mMaxID \in Nat /\ folder \in IDs /\ timer \in IDs /\ timer # folder
      /\ folder \in 1..(timer - 1) /\ timer <= MaxTimers
  BY TimerUnitAssumption DEF InstallPackage, IInv, TreeOK, IDs
<1>2. /\ folder \notin mTimerMap /\ timer \notin mTimerMap
      /\ folder \notin mCleanupSet /\ timer \notin mCleanupSet
      /\ folder \notin Elements(uninstallList) /\ timer \notin Elements(uninstallList)
  BY <1>1, NewIsFresh
<1>3. folderItem \in Items /\ folderItem.ancestors = {} /\ ~folderItem.temporary
  BY DEF NoTimer, Items, Payloads
<1>4. timerItem \in Items /\ timerItem.ancestors = {folder} /\ ~timerItem.temporary
  BY <1>1, TimerUnitAssumption DEF NoTimer, Items
<1>5. /\ items' = [items EXCEPT ![folder] = folderItem, ![timer] = timerItem]
      /\ mTimerMap' = mTimerMap \union {folder, timer} /\ mMaxID' = timer
  BY DEF InstallPackage
<1> HIDE DEF folderItem, timerItem
<1>6. /\ items' \in [IDs -> Items]
      /\ items'[folder] = folderItem /\ items'[timer] = timerItem
      /\ \A t \in IDs : t \notin {folder, timer} => items'[t] = items[t]
  BY <1>1, <1>3, <1>4, <1>5 DEF IInv, TreeOK
<1>7. mTimerMap \subseteq IDs /\ mCleanupSet \subseteq IDs
  BY TimersAreIDs
<1>8. TreeOK'
  <2>1. mMaxID' \in 0..MaxTimers /\ mTimerMap' \subseteq 1..mMaxID'
    BY <1>1, <1>5 DEF IInv, TreeOK
  <2>2. \A t \in mTimerMap :
           /\ items'[t] = items[t]
           /\ \A a \in items[t].ancestors : a \in mTimerMap /\ items'[a] = items[a]
    BY <1>2, <1>6, <1>7 DEF IInv, TreeOK, Ancestors
  <2>3. \A t \in mTimerMap' : items'[t].ancestors \subseteq mTimerMap' \intersect 1..(t - 1)
    <3>1. \A t \in mTimerMap : items'[t].ancestors \subseteq mTimerMap' \intersect 1..(t - 1)
      BY <1>5, <2>2 DEF IInv, TreeOK, Ancestors
    <3>2. items'[timer].ancestors \subseteq mTimerMap' \intersect 1..(timer - 1)
      BY <1>1, <1>4, <1>5, <1>6
    <3>3. items'[folder].ancestors = {}
      BY <1>3, <1>6
    <3>4. QED
      BY <1>5, <3>1, <3>2, <3>3
  <2>4. \A t \in mTimerMap' : \A a \in items'[t].ancestors :
            items'[a].ancestors \subseteq items'[t].ancestors
    <3>1. \A t \in mTimerMap : \A a \in items'[t].ancestors :
              items'[a].ancestors \subseteq items'[t].ancestors
      BY <2>2 DEF IInv, TreeOK, Ancestors
    <3>2. \A a \in items'[timer].ancestors : items'[a].ancestors = {}
      BY <1>3, <1>4, <1>6
    <3>3. items'[folder].ancestors = {}
      BY <1>3, <1>6
    <3>4. QED
      BY <1>5, <3>1, <3>2, <3>3
  <2>5. \A t \in IDs : items'[t].temporary => t \in mTimerMap' /\ items'[t].ancestors = {}
    BY <1>3, <1>4, <1>5, <1>6 DEF IInv, TreeOK, IsTemporary, Ancestors
  <2>6. QED
    BY <1>6, <2>1, <2>3, <2>4, <2>5 DEF TreeOK, Ancestors, IsTemporary
<1>9. FlagsOK'
  BY <1>1 DEF InstallPackage, IInv, FlagsOK, IsActive
<1>10. QueuesOK'
  BY <1>5 DEF InstallPackage, doomed, IInv, QueuesOK, NothingFreedInUse
<1>11. DoomedStayOff'
  BY <1>2, <1>6, <1>7 DEF InstallPackage, doomed, IInv, DoomedStayOff, IsTemporary
<1>12. RestOK'
  <2>1. installs' \in 0..MaxInstalls
    BY TimerUnitAssumption DEF InstallPackage, IInv, RestOK
  <2>2. {mInstalledPackages', mEmergencyStop', mResetProfile'} \subseteq BOOLEAN
    BY Zenon DEF InstallPackage, stops, IInv, RestOK
  <2>3. QED
    BY <2>1, <2>2 DEF RestOK
<1>13. QED
  BY <1>8, <1>9, <1>10, <1>11, <1>12 DEF IInv

\* uninstall(): what a script on the stack keeps from being freed is switched off.
LEMMA InvUninstallPackage ==
  ASSUME IInv, UninstallPackage
  PROVE  IInv'
<1> DEFINE packaged == {t \in Roots : items[t].packaged}
           gone == WithDescendants(packaged)
<1>1. gone \subseteq mTimerMap /\ gone \subseteq IDs
  BY TimersAreIDs DEF WithDescendants
<1>2. /\ mActive' = mActive \ gone /\ mUserActiveState' = mUserActiveState \ gone
      /\ armed' = armed \ gone /\ mCleanupSet' = mCleanupSet \ gone
      /\ mMaxID' = mMaxID /\ frames' = frames
  BY DEF UninstallPackage
<1>3. RestOK'
  <2>1. installs' \in 0..MaxInstalls
    BY DEF UninstallPackage, IInv, RestOK
  <2>2. {mInstalledPackages', mEmergencyStop', mResetProfile'} \subseteq BOOLEAN
    BY Zenon DEF UninstallPackage, stops, IInv, RestOK
  <2>3. QED
    BY <2>1, <2>2 DEF RestOK
<1>4. CASE frames # <<>>
  <2>1. PICK listed \in ChildrenFirst(gone) : uninstallList' = uninstallList \o listed
    BY <1>4 DEF UninstallPackage
  <2>2. mTimerMap' = mTimerMap /\ items' = items
    BY <1>4 DEF UninstallPackage
  <2>3. listed \in Seq(IDs) /\ Elements(listed) = gone
    <3>1. listed \in [1..Cardinality(gone) -> gone] /\ Elements(listed) = gone
      BY DEF ChildrenFirst
    <3>2. Cardinality(gone) \in Nat
      <4>1. mTimerMap \subseteq 1..mMaxID /\ mMaxID \in Nat
        BY TimerUnitAssumption DEF IInv, TreeOK
      <4>2. IsFiniteSet(1..mMaxID)
        BY <4>1, FS_Interval
      <4>3. IsFiniteSet(gone)
        BY <1>1, <4>1, <4>2, FS_Subset
      <4>4. QED
        BY <4>3, FS_CardinalityType
    <3>3. QED
      BY <1>1, <3>1, <3>2
  <2> HIDE DEF gone
  <2>4. /\ uninstallList' \in Seq(IDs)
        /\ Elements(uninstallList') = Elements(uninstallList) \union gone
    BY <2>1, <2>3, ElementsConcatenated DEF IInv, QueuesOK
  <2>5. TreeOK'
    BY <1>2, <2>2 DEF IInv, TreeOK, Ancestors, IsTemporary
  <2>6. FlagsOK'
    BY <1>2, <2>2 DEF IInv, FlagsOK, IsActive
  <2>7. QueuesOK'
    BY <1>1, <1>2, <2>2, <2>4 DEF IInv, QueuesOK, NothingFreedInUse
  <2>8. DoomedStayOff'
    BY <1>2, <2>2, <2>4 DEF IInv, DoomedStayOff, IsTemporary
  <2>9. QED
    BY <1>3, <2>5, <2>6, <2>7, <2>8 DEF IInv
<1>5. CASE frames = <<>>
  <2>1. /\ mTimerMap' = mTimerMap \ gone
        /\ items' = [t \in IDs |-> IF t \in gone THEN NoTimer ELSE items[t]]
        /\ uninstallList' = <<>>
    BY <1>5 DEF UninstallPackage
  <2> HIDE DEF packaged
  <2>2. TreeOK'
    BY <1>2, <2>1, FreeingKeepsTree DEF IInv
  <2> HIDE DEF gone
  <2>3. Elements(frames) = {} /\ Elements(uninstallList') = {} /\ uninstallList' \in Seq(IDs)
    BY <1>5, <2>1, ElementsEmpty
  <2>4. FlagsOK'
    BY <1>2, <2>1 DEF IInv, FlagsOK, IsActive
  <2>5. QueuesOK'
    BY <1>2, <2>1, <2>3 DEF IInv, QueuesOK, NothingFreedInUse
  <2>6. DoomedStayOff'
    <3>1. \A t \in mCleanupSet : t \notin gone => items'[t] = items[t]
      BY <2>1, TimersAreIDs
    <3>2. QED
      BY <1>2, <2>3, <3>1 DEF IInv, DoomedStayOff, IsTemporary
  <2>7. QED
    BY <1>3, <2>2, <2>4, <2>5, <2>6 DEF IInv
<1>6. QED
  BY <1>4, <1>5

\* The second half of a reset frees what is temporary or queued.
LEMMA InvResetProfileFinishes ==
  ASSUME IInv, ResetProfileFinishes
  PROVE  IInv'
<1> DEFINE ts == {t \in Roots : IsTemporary(t)} \union Elements(uninstallList)
           gone == WithDescendants(ts)
<1>1. /\ mTimerMap' = mTimerMap \ gone
      /\ items' = [t \in IDs |-> IF t \in gone THEN NoTimer ELSE items[t]]
      /\ mUserActiveState' = mUserActiveState \ gone
      /\ mActive' = (mActive \union Resumed) \ gone
      /\ armed' \subseteq (armed \union Resumed) \ gone
      /\ mCleanupSet' = {} /\ uninstallList' = <<>> /\ frames' = <<>> /\ mMaxID' = mMaxID
  BY DEF ResetProfileFinishes, Started
<1> HIDE DEF ts
<1>2. TreeOK'
  BY <1>1, FreeingKeepsTree DEF IInv
<1> HIDE DEF gone
<1>3. \A u \in Resumed : u \in mTimerMap /\ u \in mUserActiveState
  BY ResumedIsNotPending
<1>4. FlagsOK'
  BY <1>1, <1>3 DEF IInv, FlagsOK, IsActive
<1>5. Elements(frames') = {} /\ Elements(uninstallList') = {}
  BY <1>1, ElementsEmpty
<1>6. QueuesOK'
  <2>1. frames' \in Seq(IDs) /\ uninstallList' \in Seq(IDs) /\ Len(frames') <= MaxDepth
    BY <1>1, TimerUnitAssumption
  <2>2. NothingFreedInUse'
    BY <1>1, <1>5 DEF NothingFreedInUse, Elements
  <2>3. QED
    BY <2>1, <2>2 DEF QueuesOK
<1>7. DoomedStayOff'
  BY <1>1, <1>5 DEF DoomedStayOff, Elements
<1>8. RestOK'
  <2>1. installs' \in 0..MaxInstalls
    BY DEF ResetProfileFinishes, packages, IInv, RestOK
  <2>2. {mInstalledPackages', mEmergencyStop', mResetProfile'} \subseteq BOOLEAN
    BY Zenon DEF ResetProfileFinishes, packages, IInv, RestOK
  <2>3. QED
    BY <2>1, <2>2 DEF RestOK
<1>9. QED
  BY <1>2, <1>4, <1>6, <1>7, <1>8 DEF IInv

\* Every step, and no step.
LEMMA InvNext == IInv /\ [Next]_vars => IInv'
<1> SUFFICES ASSUME IInv, [Next]_vars PROVE IInv'
  OBVIOUS
<1>1. CASE \E repeating \in BOOLEAN : TempTimer(repeating)
  BY <1>1, InvTempTimer
<1>2. CASE \E parent \in mTimerMap \union {0}, payload \in PermPayloads :
              PermTimer(parent, payload)
  BY <1>2, InvPermTimer
<1>3. CASE \E t \in mTimerMap :
              EnableTimer(t) \/ DisableTimer(t) \/ KillTimer(t) \/ TimerFires(t)
  BY <1>3, InvEnableTimer, InvDisableTimer, InvKillTimer, InvTimerFires
<1>4. CASE \E fails \in BOOLEAN : ScriptReturns(fails)
  BY <1>4, InvScriptReturns
<1>5. CASE PurgeTemps
  BY <1>5, InvPurgeTemps
<1>6. CASE \E payload \in PackagePayloads, isActive \in BOOLEAN :
              InstallPackage(payload, isActive)
  BY <1>6, InvInstallPackage
<1>7. CASE UninstallPackage
  BY <1>7, InvUninstallPackage
<1>8. CASE EmergencyStop \/ Resume
  BY <1>8, InvEmergencyStop, InvResume
<1>9. CASE ResetProfile \/ ResetProfileFinishes
  BY <1>9, InvResetProfile, InvResetProfileFinishes
<1>10. CASE UNCHANGED vars
  <2>1. TreeOK' /\ FlagsOK'
    BY <1>10 DEF vars, tree, flags, IInv, TreeOK, FlagsOK, Ancestors, IsTemporary, IsActive
  <2>2. QueuesOK' /\ DoomedStayOff'
    BY <1>10 DEF vars, tree, flags, doomed, IInv, QueuesOK, NothingFreedInUse,
                 DoomedStayOff, IsTemporary
  <2>3. RestOK'
    BY <1>10 DEF vars, packages, stops, IInv, RestOK
  <2>4. QED
    BY <2>1, <2>2, <2>3 DEF IInv
<1>11. QED
  BY <1>1, <1>2, <1>3, <1>4, <1>5, <1>6, <1>7, <1>8, <1>9, <1>10 DEF Next

\* The invariant holds in every reachable state.
LEMMA Invariant == Spec => []IInv
  BY InvInit, InvNext, PTL DEF Spec

-----------------------------------------------------------------------------
\* Every variable keeps its type, a QTimer runs only for a timer that is active
\* and wanted, and a timer is younger than the groups it is in.
THEOREM TypeCorrect == Spec => []TypeOK
<1>1. IInv => TypeOK
  <2>1. SUFFICES ASSUME IInv PROVE TypeOK
    OBVIOUS
  <2>2. RestOK /\ mCleanupSet \subseteq IDs
    BY <2>1, TimersAreIDs DEF IInv
  <2>3. installs \in 0..MaxInstalls
    BY <2>2 DEF RestOK
  <2>4. {mInstalledPackages, mEmergencyStop, mResetProfile} \subseteq BOOLEAN
    BY <2>2, Zenon DEF RestOK
  <2>5. QED
    BY <2>1, <2>2, <2>3, <2>4 DEF IInv, TreeOK, FlagsOK, QueuesOK, TypeOK
<1>2. QED
  BY <1>1, Invariant, PTL

\* A timer that was killed, is spent or was uninstalled is never armed again,
\* whatever is switched on or resumed while it waits to be freed.
THEOREM DoomedTimersStaySilent == Spec => []PendingNeverArmed
<1>1. IInv => PendingNeverArmed
  BY ArmedIsNotPending
<1>2. QED
  BY <1>1, Invariant, PTL

\* No timer is freed while its script runs or while a queue holds it.
THEOREM NoTimerFreedInUse == Spec => []NothingFreedInUse
<1>1. IInv => NothingFreedInUse
  BY DEF IInv, QueuesOK
<1>2. QED
  BY <1>1, Invariant, PTL

-----------------------------------------------------------------------------
\* What is switched on counts.

\* Everything is stopped, or waits for a reset to go on.
Stopping == mEmergencyStop \/ mResetProfile

\* A timer that fires once is off its QTimer from then on, but active as long
\* as its script runs: that is what has one that repeats started again.
Counts(t) == t \in mActive /\ (t \in armed \/ (IsTemporary(t) /\ t \in Elements(frames)))

TemporaryAreScripts == \A t \in IDs : IsTemporary(t) => items[t].payload = "script"

WantedCount == Stopping \/ \A t \in Wanted : Counts(t)

LEMMA Least ==
  ASSUME NEW T, T \subseteq Nat, T # {}
  PROVE  \E n \in T : \A m \in T : n <= m
<1> DEFINE R == {ss \in Nat \X Nat : ss[1] < ss[2]}
<1>1. IsWellFoundedOn(R, Nat)
  BY NatLessThanWellFounded, Zenon DEF OpToRel
<1>2. \A x, y \in Nat : <<y, x>> \in R \/ x <= y
  OBVIOUS
<1> HIDE DEF R
<1>3. PICK x \in T : \A y \in T : ~(<<y, x>> \in R)
  BY <1>1, WFMin, Zenon
<1>4. QED
  BY <1>2, <1>3, Zenon

\* The parent of a timer is one of those that it is in.
LEMMA ParentIsAncestor ==
  ASSUME TreeOK, NEW t \in mTimerMap, Ancestors(t) # {}
  PROVE  Parent(t) \in Ancestors(t)
<1>1. Ancestors(t) \subseteq 1..(t - 1) /\ t \in Nat
  BY TimerUnitAssumption DEF TreeOK
<1> DEFINE above == {n \in Nat : \E a \in Ancestors(t) : n = t - a}
<1>2. above # {}
  <2>1. PICK a \in Ancestors(t) : TRUE
    OBVIOUS
  <2>2. t - a \in Nat
    BY <1>1
  <2>3. QED
    BY <2>2
<1>3. PICK n \in above : \A m \in above : n <= m
  BY <1>2, Least
<1>4. PICK p \in Ancestors(t) : n = t - p
  OBVIOUS
<1>5. ASSUME NEW a \in Ancestors(t) PROVE a <= p
  <2>1. t - a \in above
    BY <1>1
  <2>2. t - p <= t - a /\ p \in Int /\ a \in Int
    BY <1>1, <1>3, <1>4, <2>1
  <2>3. QED
    BY <1>1, <2>2
<1>6. \E p_1 \in Ancestors(t) : \A a \in Ancestors(t) : a <= p_1
  BY <1>5
<1>7. QED
  BY <1>6 DEF Parent

\* Each timer is at the top or in one that is.
LEMMA RootAbove ==
  ASSUME TreeOK, NEW t \in mTimerMap
  PROVE  \E r \in Roots : r \in {t} \union Ancestors(t)
<1>1. CASE Ancestors(t) = {}
  BY <1>1 DEF Roots
<1>2. CASE Ancestors(t) # {}
  <2>1. Ancestors(t) \subseteq mTimerMap /\ Ancestors(t) \subseteq Nat
    BY TimerUnitAssumption DEF TreeOK
  <2>2. PICK r \in Ancestors(t) : \A a \in Ancestors(t) : r <= a
    BY <1>2, <2>1, Least
  <2>3. Ancestors(r) \subseteq Ancestors(t) /\ Ancestors(r) \subseteq 1..(r - 1)
    BY <2>1, <2>2 DEF TreeOK
  <2>4. Ancestors(r) = {}
    <3>1. SUFFICES ASSUME NEW a \in Ancestors(r) PROVE FALSE
      OBVIOUS
    <3>2. r <= a /\ a \in 1..(r - 1) /\ r \in Nat
      BY <2>1, <2>2, <2>3
    <3>3. QED
      BY <3>2
  <2>5. QED
    BY <2>1, <2>2, <2>4 DEF Roots
<1>3. QED
  BY <1>1, <1>2

\* A timer that counts by itself is in folders only.
LEMMA InFoldersIsNoOffset ==
  ASSUME TreeOK, NEW t \in mTimerMap, \A a \in Ancestors(t) : IsFolder(a)
  PROVE  ~IsOffsetTimer(t)
  BY ParentIsAncestor DEF IsOffsetTimer

\* What is wanted, in the words of the variables.
LEMMA WantedAre ==
  \A t : t \in Wanted <=>
           /\ t \in mTimerMap /\ t \in mUserActiveState
           /\ items[t].ancestors \subseteq mUserActiveState
           /\ items[t].payload \in {"command", "script"}
           /\ t \notin mCleanupSet /\ t \notin Elements(uninstallList)
           /\ \A a \in items[t].ancestors : items[a].payload = "folder"
  BY DEF Wanted, Unlocked, HasPayload, Pending, Ancestors, IsFolder

LEMMA WantedAreNext ==
  (\A t : t \in Wanted <=>
           /\ t \in mTimerMap /\ t \in mUserActiveState
           /\ items[t].ancestors \subseteq mUserActiveState
           /\ items[t].payload \in {"command", "script"}
           /\ t \notin mCleanupSet /\ t \notin Elements(uninstallList)
           /\ \A a \in items[t].ancestors : items[a].payload = "folder")'
  BY WantedAre, PTL

\* What is wanted and not stopped is what a resume goes on with.
LEMMA WantedIsResumed ==
  ASSUME IInv, TemporaryAreScripts, NEW t \in Wanted
  PROVE  t \in Started(Resumed)
<1>1. /\ t \in mTimerMap /\ t \in Unlocked(mUserActiveState) /\ HasPayload(t) /\ ~Pending(t)
      /\ \A a \in Ancestors(t) : IsFolder(a)
      /\ {t} \union Ancestors(t) \subseteq mUserActiveState
  BY DEF Wanted, Unlocked
<1>2. PICK r \in Roots : r \in {t} \union Ancestors(t)
  BY <1>1, RootAbove DEF IInv
<1>3. r \in mTimerMap /\ r \in IDs
  BY <1>2, TimersAreIDs DEF Roots
<1>4. ~Pending(r)
  <2>1. CASE r = t
    BY <1>1, <2>1
  <2>2. CASE r # t
    <3>1. IsFolder(r) /\ r \in mUserActiveState
      BY <1>1, <1>2, <2>2
    <3>2. ~IsTemporary(r)
      BY <1>3, <3>1 DEF TemporaryAreScripts, IsFolder
    <3>3. r \notin mCleanupSet /\ r \notin Elements(uninstallList)
      BY <3>1, <3>2 DEF IInv, DoomedStayOff
    <3>4. QED
      BY <3>3 DEF Pending
  <2>3. QED
    BY <2>1, <2>2
<1>5. t \in Branch(r)
  BY <1>1, <1>2 DEF Branch, WithDescendants
<1>6. QED
  BY <1>1, <1>2, <1>4, <1>5 DEF Resumed, Started

-----------------------------------------------------------------------------
\* The timers that fire once have a script, and nothing gives one to another.
LEMMA TemporaryStayScripts ==
  ASSUME IInv, TemporaryAreScripts, [Next]_vars
  PROVE  TemporaryAreScripts'
<1>0. items \in [IDs -> Items] /\ mMaxID \in Nat
  BY TimerUnitAssumption DEF IInv, TreeOK
<1>1. CASE \/ items' = items
           \/ \E gone : items' = [t \in IDs |-> IF t \in gone THEN NoTimer ELSE items[t]]
  BY <1>1 DEF TemporaryAreScripts, IsTemporary, NoTimer
<1>2. CASE \E repeating \in BOOLEAN : TempTimer(repeating)
  <2>1. PICK repeating \in BOOLEAN :
          /\ mMaxID + 1 \in IDs
          /\ items' = [items EXCEPT ![mMaxID + 1] =
                         [NoTimer EXCEPT !.temporary = TRUE, !.repeating = repeating,
                                         !.payload = "script"]]
    BY <1>2 DEF TempTimer, Register
  <2>2. QED
    BY <1>0, <2>1 DEF TemporaryAreScripts, IsTemporary, NoTimer
<1>3. CASE \E parent \in mTimerMap \union {0}, payload \in PermPayloads :
             PermTimer(parent, payload)
  <2>1. PICK parent \in mTimerMap \union {0}, payload \in PermPayloads :
          PermTimer(parent, payload)
    BY <1>3
  <2> DEFINE item == [NoTimer EXCEPT
                        !.ancestors = IF parent = 0 THEN {} ELSE {parent} \union Ancestors(parent),
                        !.payload = payload]
  <2>2. items' = [items EXCEPT ![mMaxID + 1] = item]
    BY <2>1 DEF PermTimer, Register
  <2>3. ~item.temporary
    BY DEF NoTimer
  <2> HIDE DEF item
  <2>4. QED
    BY <1>0, <2>2, <2>3 DEF TemporaryAreScripts, IsTemporary
<1>4. CASE \E payload \in PackagePayloads, isActive \in BOOLEAN :
             InstallPackage(payload, isActive)
  <2>1. PICK payload \in PackagePayloads, isActive \in BOOLEAN :
          InstallPackage(payload, isActive)
    BY <1>4
  <2> DEFINE folder == [NoTimer EXCEPT !.payload = "folder", !.packaged = TRUE]
             timer == [NoTimer EXCEPT !.ancestors = {mMaxID + 1}, !.payload = payload]
  <2>2. items' = [items EXCEPT ![mMaxID + 1] = folder, ![mMaxID + 2] = timer]
    BY <2>1 DEF InstallPackage
  <2>3. ~folder.temporary /\ ~timer.temporary
    BY DEF NoTimer
  <2> HIDE DEF folder, timer
  <2>4. QED
    BY <1>0, <2>2, <2>3 DEF TemporaryAreScripts, IsTemporary
<1>5. CASE \/ \E t \in mTimerMap : EnableTimer(t) \/ DisableTimer(t) \/ KillTimer(t)
           \/ EmergencyStop \/ Resume \/ ResetProfile \/ UNCHANGED vars
  BY <1>1, <1>5 DEF EnableTimer, DisableTimer, KillTimer, EmergencyStop, Resume, ResetProfile,
    StopAllTriggers, tree, vars
<1>6. CASE UninstallPackage \/ ResetProfileFinishes
  BY <1>1, <1>6 DEF UninstallPackage, ResetProfileFinishes
<1>7. CASE \/ \E t \in mTimerMap : TimerFires(t)
           \/ \E fails \in BOOLEAN : ScriptReturns(fails)
           \/ PurgeTemps
  <2>1. \/ items' = items
        \/ \E active, running, queued, below : DoCleanup(active, running, queued, below)
    BY <1>7 DEF TimerFires, ScriptReturns, PurgeTemps, AfterExecute
  <2>2. QED
    BY <1>1, <2>1 DEF DoCleanup
<1>8. QED
  BY <1>2, <1>3, <1>4, <1>5, <1>6, <1>7 DEF Next

-----------------------------------------------------------------------------
\* No action loses a timer that is wanted.

\* doCleanup(): what is not freed goes on as the step before it left it.
LEMMA CleanupLosesNone ==
  ASSUME IInv, NEW active, NEW running, NEW queued, NEW below,
         DoCleanup(active, running, queued, below),
         \A t \in mTimerMap :
           /\ t \in mUserActiveState /\ items[t].ancestors \subseteq mUserActiveState
           /\ items[t].payload \in {"command", "script"}
           /\ t \notin queued /\ t \notin Elements(uninstallList)
           /\ \A a \in items[t].ancestors : items[a].payload = "folder"
           => t \in active /\ (t \in running \/ (IsTemporary(t) /\ t \in Elements(below)))
  PROVE  \A t \in Wanted' : Counts(t)'
<1> SUFFICES ASSUME NEW t \in Wanted'
             PROVE  /\ t \in mActive'
                    /\ t \in armed' \/ (items'[t].temporary /\ t \in Elements(frames'))
  BY DEF Counts, IsTemporary
<1>1. /\ t \in mTimerMap' /\ t \in mUserActiveState'
      /\ items'[t].ancestors \subseteq mUserActiveState'
      /\ items'[t].payload \in {"command", "script"}
      /\ t \notin mCleanupSet' /\ t \notin Elements(uninstallList')
      /\ \A a \in items'[t].ancestors : items'[a].payload = "folder"
  BY WantedAreNext
<1>2. CASE below # <<>>
  BY <1>1, <1>2 DEF DoCleanup, IsTemporary
<1>3. CASE below = <<>>
  <2> DEFINE gone == WithDescendants(queued \union Elements(uninstallList))
  <2>1. /\ mTimerMap' = mTimerMap \ gone
        /\ items' = [u \in IDs |-> IF u \in gone THEN NoTimer ELSE items[u]]
        /\ mActive' = active \ gone
        /\ mUserActiveState' = mUserActiveState \ gone
        /\ armed' = running \ gone
    BY <1>3 DEF DoCleanup
  <2>2. t \in mTimerMap /\ t \notin gone /\ t \in IDs
    BY <1>1, <2>1, TimersAreIDs
  <2>3. t \notin queued /\ t \notin Elements(uninstallList)
    BY <2>2 DEF WithDescendants
  <2> HIDE DEF gone
  <2>4. items'[t] = items[t]
    BY <2>1, <2>2
  <2>5. mTimerMap \subseteq IDs
    BY TimersAreIDs
  <2>6. \A a \in items[t].ancestors : items[a].payload = "folder"
    <3>1. SUFFICES ASSUME NEW a \in items[t].ancestors PROVE items[a].payload = "folder"
      OBVIOUS
    <3>2. a \in IDs
      BY <2>2, <2>5 DEF IInv, TreeOK, Ancestors
    <3>3. items'[a].payload = "folder"
      BY <1>1, <2>4
    <3>4. QED
      BY <2>1, <3>2, <3>3 DEF NoTimer
  <2>7. /\ t \in mUserActiveState /\ items[t].ancestors \subseteq mUserActiveState
        /\ items[t].payload \in {"command", "script"}
    BY <1>1, <2>1, <2>4
  <2>8. t \in active /\ (t \in running \/ (IsTemporary(t) /\ t \in Elements(below)))
    BY <2>2, <2>3, <2>6, <2>7
  <2>9. t \in active /\ t \in running
    BY <1>3, <2>8, ElementsEmpty
  <2>10. QED
    BY <2>1, <2>2, <2>9
<1>4. QED
  BY <1>2, <1>3

\* What counts, in the words of the variables.
LEMMA CountingIs ==
  ASSUME NEW t, t \in mActive', t \in armed'
  PROVE  Counts(t)'
  BY DEF Counts

\* tempTimer() arms its timer, and permTimer() makes one that is off.
LEMMA TempTimerLosesNone ==
  ASSUME IInv, WantedCount, NEW repeating \in BOOLEAN, TempTimer(repeating)
  PROVE  WantedCount'
<1> DEFINE new == mMaxID + 1
<1>1. /\ new \notin mTimerMap /\ mTimerMap' = mTimerMap \union {new}
      /\ mUserActiveState' = mUserActiveState \union {new}
      /\ mActive' = mActive \union {new} /\ armed' = armed \union {new}
      /\ \A t \in IDs : t # new => items'[t] = items[t]
      /\ mCleanupSet' = mCleanupSet /\ uninstallList' = uninstallList /\ frames' = frames
      /\ mEmergencyStop' = mEmergencyStop /\ mResetProfile' = mResetProfile
  BY TimerUnitAssumption, NewIsFresh DEF IInv, TreeOK, TempTimer, Register, doomed, stops
<1>2. mTimerMap \subseteq IDs
  BY TimersAreIDs
<1> HIDE DEF new
<1>3. ASSUME ~Stopping, NEW t \in Wanted' PROVE Counts(t)'
  <2>1. CASE t = new
    BY <1>1, <2>1, CountingIs
  <2>2. CASE t # new
    <3>1. t \in mTimerMap /\ items'[t] = items[t]
      BY <1>1, <1>2, <2>2, WantedAreNext
    <3>2. \A a \in items[t].ancestors : a \in mTimerMap /\ items'[a] = items[a]
      BY <1>1, <1>2, <3>1 DEF IInv, TreeOK, Ancestors
    <3>3. t \in Wanted
      BY <1>1, <3>1, <3>2, WantedAre, WantedAreNext DEF IInv, TreeOK, Ancestors
    <3>4. Counts(t)
      BY <1>3, <3>3 DEF WantedCount
    <3>5. QED
      BY <1>1, <3>1, <3>4 DEF Counts, IsTemporary
  <2>3. QED
    BY <2>1, <2>2
<1>4. QED
  BY <1>1, <1>3 DEF WantedCount, Stopping

LEMMA PermTimerLosesNone ==
  ASSUME IInv, WantedCount, NEW parent \in mTimerMap \union {0}, NEW payload \in PermPayloads,
         PermTimer(parent, payload)
  PROVE  WantedCount'
<1> DEFINE new == mMaxID + 1
<1>1. /\ new \notin mTimerMap /\ mTimerMap' = mTimerMap \union {new}
      /\ mUserActiveState' = mUserActiveState
      /\ mActive' = mActive /\ armed' = armed
      /\ \A t \in IDs : t # new => items'[t] = items[t]
      /\ mCleanupSet' = mCleanupSet /\ uninstallList' = uninstallList /\ frames' = frames
      /\ mEmergencyStop' = mEmergencyStop /\ mResetProfile' = mResetProfile
  BY TimerUnitAssumption, NewIsFresh DEF IInv, TreeOK, PermTimer, Register, flags, doomed, stops
<1>2. mTimerMap \subseteq IDs
  BY TimersAreIDs
<1> HIDE DEF new
<1>3. ASSUME ~Stopping, NEW t \in Wanted' PROVE Counts(t)'
  <2>1. t \in mTimerMap /\ items'[t] = items[t]
    BY <1>1, <1>2, WantedAreNext DEF IInv, FlagsOK
  <2>2. \A a \in items[t].ancestors : a \in mTimerMap /\ items'[a] = items[a]
    BY <1>1, <1>2, <2>1 DEF IInv, TreeOK, Ancestors
  <2>3. t \in Wanted
    BY <1>1, <2>1, <2>2, WantedAre, WantedAreNext
  <2>4. Counts(t)
    BY <1>3, <2>3 DEF WantedCount
  <2>5. QED
    BY <1>1, <2>1, <2>4 DEF Counts, IsTemporary
<1>4. QED
  BY <1>1, <1>3 DEF WantedCount, Stopping

\* An import arms the package's timer if it is on.
LEMMA InstallLosesNone ==
  ASSUME IInv, WantedCount, NEW payload \in PackagePayloads, NEW isActive \in BOOLEAN,
         InstallPackage(payload, isActive)
  PROVE  WantedCount'
<1> DEFINE folder == mMaxID + 1
           timer == mMaxID + 2
           on == {folder} \union (IF isActive THEN {timer} ELSE {})
<1>1. /\ mMaxID \in Nat /\ folder \in IDs /\ timer \in IDs /\ timer # folder
      /\ folder \notin mTimerMap /\ timer \notin mTimerMap
  BY TimerUnitAssumption, NewIsFresh DEF InstallPackage, IInv, TreeOK, IDs
<1>2. /\ items' = [items EXCEPT
            ![folder] = [NoTimer EXCEPT !.payload = "folder", !.packaged = TRUE],
            ![timer] = [NoTimer EXCEPT !.ancestors = {folder}, !.payload = payload]]
      /\ mTimerMap' = mTimerMap \union {folder, timer}
      /\ mUserActiveState' = mUserActiveState \union on
      /\ mActive' = mActive \union on
      /\ armed' = armed \union {t \in on \ {folder} : payload \in {"command", "script"}}
      /\ mCleanupSet' = mCleanupSet /\ uninstallList' = uninstallList /\ frames' = frames
      /\ mEmergencyStop' = mEmergencyStop /\ mResetProfile' = mResetProfile
  BY DEF InstallPackage, doomed, stops
<1>3. /\ items'[folder].payload = "folder" /\ items'[timer].payload = payload
      /\ \A t \in IDs : t \notin {folder, timer} => items'[t] = items[t]
  BY <1>1, <1>2 DEF IInv, TreeOK, NoTimer
<1>4. mTimerMap \subseteq IDs /\ mUserActiveState \subseteq mTimerMap
  BY TimersAreIDs DEF IInv, FlagsOK
<1>5. folder \in on /\ (timer \in on => timer \in on \ {folder}) /\ on \subseteq {folder, timer}
  BY <1>1
<1> HIDE DEF folder, timer, on
<1>6. ASSUME ~Stopping, NEW t \in Wanted' PROVE Counts(t)'
  <2>1. CASE t \in {folder, timer}
    <3>1. t = timer /\ payload \in {"command", "script"}
      BY <1>3, <2>1, WantedAreNext
    <3>2. t \in on
      BY <1>1, <1>2, <1>4, <3>1, WantedAreNext
    <3>3. t \in mActive' /\ t \in armed'
      BY <1>2, <1>5, <3>1, <3>2
    <3>4. QED
      BY <3>3, CountingIs
  <2>2. CASE t \notin {folder, timer}
    <3>1. t \in mTimerMap /\ items'[t] = items[t]
      BY <1>2, <1>3, <1>4, <2>2, WantedAreNext
    <3>2. \A a \in items[t].ancestors :
            a \in mTimerMap /\ items'[a] = items[a] /\ a \notin on
      <4>1. items[t].ancestors \subseteq mTimerMap
        BY <3>1 DEF IInv, TreeOK, Ancestors
      <4>2. QED
        BY <1>1, <1>3, <1>4, <1>5, <4>1
    <3>3. t \in mUserActiveState /\ items[t].ancestors \subseteq mUserActiveState
      BY <1>2, <1>5, <2>2, <3>1, <3>2, WantedAreNext
    <3>4. t \in Wanted
      <4>1. t \notin mCleanupSet /\ t \notin Elements(uninstallList)
            /\ items[t].payload \in {"command", "script"}
            /\ \A a \in items[t].ancestors : items'[a].payload = "folder"
        BY <1>2, <3>1, WantedAreNext
      <4>2. QED
        BY <3>1, <3>2, <3>3, <4>1, WantedAre
    <3>5. Counts(t)
      BY <1>6, <3>4 DEF WantedCount
    <3>6. QED
      BY <1>2, <3>1, <3>5 DEF Counts, IsTemporary
  <2>3. QED
    BY <2>1, <2>2
<1>7. QED
  BY <1>2, <1>6 DEF WantedCount, Stopping

\* What a step that leaves the timers as they are makes of what is wanted.
LEMMA SameTimersWanted ==
  ASSUME WantedCount, UNCHANGED <<mTimerMap, items, frames, stops>>,
         \A t \in Wanted' : IF t \in Wanted THEN Counts(t) => t \in mActive' /\ (t \in armed => t \in armed')
                            ELSE t \in mActive' /\ t \in armed'
  PROVE  WantedCount'
<1>1. ASSUME ~Stopping, NEW t \in Wanted' PROVE Counts(t)'
  <2>1. CASE t \in Wanted
    BY <1>1, <2>1 DEF WantedCount, Counts, IsTemporary
  <2>2. CASE t \notin Wanted
    BY <2>2, CountingIs
  <2>3. QED
    BY <2>1, <2>2
<1>2. QED
  BY <1>1 DEF WantedCount, Stopping, stops

\* enableTimer(name) arms what it is the last to switch on.
LEMMA EnableLosesNone ==
  ASSUME IInv, WantedCount, NEW t \in mTimerMap, EnableTimer(t)
  PROVE  WantedCount'
<1> DEFINE user == mUserActiveState \union {t}
           on == (IF IsFolder(t) /\ ~IsOffsetTimer(t) THEN Branch(t) ELSE {t})
                 \intersect Unlocked(user)
<1>1. /\ mUserActiveState' = user
      /\ mActive' = mActive \union on \union (IF IsOffsetTimer(t) THEN {} ELSE {t})
      /\ armed' = (IF t \in on \/ IsOffsetTimer(t) THEN armed ELSE armed \ {t})
                  \union {u \in on : IF IsOffsetTimer(u) THEN items[u].payload = "script"
                                     ELSE HasPayload(u) \/ (u = t /\ ~IsFolder(t))}
      /\ mTimerMap' = mTimerMap /\ items' = items
      /\ mCleanupSet' = mCleanupSet /\ uninstallList' = uninstallList
      /\ UNCHANGED <<mTimerMap, items, frames, stops>>
  BY DEF EnableTimer, tree, doomed
<1>2. ASSUME NEW u \in Wanted'
      PROVE  /\ u \in mTimerMap /\ {u} \union Ancestors(u) \subseteq user
             /\ HasPayload(u) /\ ~Pending(u)
             /\ \A a \in Ancestors(u) : IsFolder(a)
             /\ u \in Unlocked(user) /\ ~IsOffsetTimer(u)
  <2>1. /\ u \in mTimerMap /\ {u} \union Ancestors(u) \subseteq user
        /\ HasPayload(u) /\ ~Pending(u)
        /\ \A a \in Ancestors(u) : IsFolder(a)
    BY <1>1, WantedAreNext DEF HasPayload, Pending, Ancestors, IsFolder
  <2>2. u \in Unlocked(user)
    BY <2>1 DEF Unlocked
  <2>3. ~IsOffsetTimer(u)
    BY <2>1, InFoldersIsNoOffset DEF IInv
  <2>4. QED
    BY <2>1, <2>2, <2>3
<1> HIDE DEF user
<1>3. ASSUME NEW u \in Wanted', u = t \/ t \in Ancestors(u)
      PROVE  u \in mActive' /\ u \in armed'
  <2>1. u \in on
    <3>1. CASE u = t
      <4>1. ~IsFolder(u)
        BY <1>2 DEF HasPayload, IsFolder
      <4>2. QED
        BY <1>2, <3>1, <4>1
    <3>2. CASE t \in Ancestors(u)
      <4>1. IsFolder(t) /\ \A a \in Ancestors(t) : IsFolder(a)
        BY <1>2, <3>2 DEF IInv, TreeOK
      <4>2. ~IsOffsetTimer(t)
        BY <4>1, InFoldersIsNoOffset DEF IInv
      <4>3. u \in Branch(t)
        BY <1>2, <3>2 DEF Branch, WithDescendants
      <4>4. QED
        BY <1>2, <4>1, <4>2, <4>3
    <3>3. QED
      BY <1>3, <3>1, <3>2
  <2> HIDE DEF on
  <2>2. u \in armed'
    BY <1>1, <1>2, <2>1
  <2>3. QED
    BY <1>1, <2>1, <2>2
<1>4. ASSUME NEW u \in Wanted', u # t, t \notin Ancestors(u)
      PROVE  u \in Wanted /\ (u \in mActive => u \in mActive') /\ (u \in armed => u \in armed')
  <2>1. {u} \union Ancestors(u) \subseteq mUserActiveState
    BY <1>2, <1>4 DEF user
  <2>2. u \in Wanted
    BY <1>2, <2>1 DEF Wanted, Unlocked
  <2> HIDE DEF on
  <2>3. QED
    BY <1>1, <1>4, <2>2
<1>5. \A u \in Wanted' : IF u \in Wanted THEN Counts(u) => u \in mActive' /\ (u \in armed => u \in armed')
                         ELSE u \in mActive' /\ u \in armed'
  BY <1>3, <1>4 DEF Counts
<1>6. QED
  BY <1>1, <1>5, SameTimersWanted

\* disableTimer(name) stops only what is not wanted from then on, and
\* killTimer() what is pending.
LEMMA DisableLosesNone ==
  ASSUME IInv, WantedCount, NEW t \in mTimerMap, DisableTimer(t)
  PROVE  WantedCount'
<1>1. /\ mUserActiveState' = mUserActiveState \ {t}
      /\ mActive' = mActive \ WithDescendants({t}) /\ armed' = armed \ WithDescendants({t})
      /\ mTimerMap' = mTimerMap /\ items' = items
      /\ mCleanupSet' = mCleanupSet /\ uninstallList' = uninstallList
      /\ UNCHANGED <<mTimerMap, items, frames, stops>>
  BY DEF DisableTimer, tree, doomed
<1>2. ASSUME NEW u \in Wanted'
      PROVE  u \in Wanted /\ u \notin WithDescendants({t})
  BY <1>1, WantedAre, WantedAreNext DEF WithDescendants, Ancestors
<1>3. QED
  BY <1>1, <1>2, SameTimersWanted DEF Counts

LEMMA KillLosesNone ==
  ASSUME IInv, WantedCount, NEW t \in mTimerMap, KillTimer(t)
  PROVE  WantedCount'
<1>1. /\ mUserActiveState' = mUserActiveState
      /\ mActive' = mActive \ {t} /\ armed' = armed \ {t}
      /\ mTimerMap' = mTimerMap /\ items' = items
      /\ mCleanupSet' = mCleanupSet \union {t} /\ uninstallList' = uninstallList
      /\ UNCHANGED <<mTimerMap, items, frames, stops>>
  BY DEF KillTimer, tree
<1>2. ASSUME NEW u \in Wanted'
      PROVE  u \in Wanted /\ u # t
  BY <1>1, WantedAre, WantedAreNext
<1>3. QED
  BY <1>1, <1>2, SameTimersWanted DEF Counts

\* uninstall() switches off what it stops.
LEMMA UninstallLosesNone ==
  ASSUME IInv, WantedCount, UninstallPackage
  PROVE  WantedCount'
<1> DEFINE gone == WithDescendants({t \in Roots : items[t].packaged})
<1>1. /\ mActive' = mActive \ gone /\ mUserActiveState' = mUserActiveState \ gone
      /\ armed' = armed \ gone /\ mCleanupSet' = mCleanupSet \ gone
      /\ frames' = frames
      /\ mEmergencyStop' = mEmergencyStop /\ mResetProfile' = mResetProfile
  BY DEF UninstallPackage, stops
<1>2. \/ /\ mTimerMap' = mTimerMap /\ items' = items
         /\ \E listed \in ChildrenFirst(gone) : uninstallList' = uninstallList \o listed
      \/ /\ mTimerMap' = mTimerMap \ gone
         /\ items' = [t \in IDs |-> IF t \in gone THEN NoTimer ELSE items[t]]
         /\ uninstallList' = <<>>
  BY DEF UninstallPackage
<1>3. gone \subseteq mTimerMap /\ mTimerMap \subseteq IDs
  BY TimersAreIDs DEF WithDescendants
<1> HIDE DEF gone
<1>4. ASSUME ~Stopping, NEW t \in Wanted' PROVE Counts(t)'
  <2>1. /\ t \in mTimerMap /\ t \in mUserActiveState /\ t \notin gone
        /\ items'[t] = items[t] /\ items[t].ancestors \subseteq mUserActiveState
        /\ items[t].ancestors \subseteq mTimerMap \ gone
        /\ items[t].payload \in {"command", "script"}
    <3>1. t \in mTimerMap /\ t \in mUserActiveState /\ t \notin gone
      BY <1>1, <1>2, WantedAreNext
    <3>2. items'[t] = items[t]
      BY <1>2, <1>3, <3>1
    <3>3. /\ items[t].ancestors \subseteq mUserActiveState
          /\ items[t].ancestors \subseteq mTimerMap \ gone
          /\ items[t].payload \in {"command", "script"}
      BY <1>1, <3>1, <3>2, WantedAreNext DEF IInv, FlagsOK
    <3>4. QED
      BY <3>1, <3>2, <3>3
  <2>2. \A a \in items[t].ancestors : items[a].payload = "folder"
    <3>1. \A a \in items[t].ancestors : items'[a] = items[a]
      BY <1>2, <1>3, <2>1
    <3>2. QED
      BY <2>1, <3>1, WantedAreNext
  <2>3. t \notin mCleanupSet
    BY <1>1, <2>1, WantedAreNext
  <2>4. t \notin Elements(uninstallList)
    BY <2>1 DEF IInv, DoomedStayOff
  <2>5. Counts(t)
    BY <1>4, <2>1, <2>2, <2>3, <2>4, WantedAre DEF WantedCount
  <2>6. QED
    BY <1>1, <2>1, <2>5 DEF Counts, IsTemporary
<1>5. QED
  BY <1>1, <1>4 DEF WantedCount, Stopping

\* Whatever was stopped, a resume arms all that is wanted.
LEMMA ResumeLosesNone ==
  ASSUME IInv, TemporaryAreScripts, Resume
  PROVE  WantedCount'
<1>1. /\ mActive' = mActive \union Resumed /\ armed' = armed \union Started(Resumed)
      /\ mTimerMap' = mTimerMap /\ items' = items /\ mUserActiveState' = mUserActiveState
      /\ mCleanupSet' = mCleanupSet /\ uninstallList' = uninstallList
  BY DEF Resume, tree, doomed
<1>2. ASSUME NEW t \in Wanted' PROVE Counts(t)'
  <2>1. t \in Wanted
    BY <1>1, WantedAre, WantedAreNext
  <2>2. t \in Resumed /\ t \in Started(Resumed)
    BY <2>1, WantedIsResumed DEF Started
  <2>3. QED
    BY <1>1, <2>2, CountingIs
<1>3. QED
  BY <1>2 DEF WantedCount

LEMMA ResetLosesNone ==
  ASSUME IInv, TemporaryAreScripts, ResetProfileFinishes
  PROVE  WantedCount'
<1> DEFINE ts == {t \in Roots : IsTemporary(t)} \union Elements(uninstallList)
           gone == WithDescendants(ts)
<1>1. /\ mTimerMap' = mTimerMap \ gone
      /\ items' = [t \in IDs |-> IF t \in gone THEN NoTimer ELSE items[t]]
      /\ mUserActiveState' = mUserActiveState \ gone
      /\ mActive' = (mActive \union Resumed) \ gone
      /\ armed' = (armed \union Started(Resumed)) \ gone
  BY DEF ResetProfileFinishes
<1>2. \A t \in mTimerMap \ gone : t \notin mCleanupSet /\ t \notin Elements(uninstallList)
  <2>1. SUFFICES ASSUME NEW t \in mTimerMap, t \in mCleanupSet \/ t \in Elements(uninstallList)
                 PROVE  t \in gone
    OBVIOUS
  <2>2. t \in ts
    <3>1. t \in mCleanupSet => t \in Roots /\ IsTemporary(t)
      BY TimersAreIDs DEF IInv, DoomedStayOff, TreeOK, Roots
    <3>2. QED
      BY <2>1, <3>1
  <2> HIDE DEF ts
  <2>3. QED
    BY <2>1, <2>2 DEF WithDescendants
<1>3. gone \subseteq mTimerMap /\ mTimerMap \subseteq IDs
  BY TimersAreIDs DEF WithDescendants
<1> HIDE DEF gone
<1>4. ASSUME NEW t \in Wanted' PROVE Counts(t)'
  <2>1. t \in mTimerMap \ gone /\ items'[t] = items[t]
    BY <1>1, <1>3, WantedAreNext
  <2>2. \A a \in items[t].ancestors : items[a].payload = "folder"
    <3>1. SUFFICES ASSUME NEW a \in items[t].ancestors PROVE items[a].payload = "folder"
      OBVIOUS
    <3>2. a \in IDs
      BY <1>3, <2>1 DEF IInv, TreeOK, Ancestors
    <3>3. items'[a].payload = "folder"
      BY <2>1, WantedAreNext
    <3>4. QED
      BY <1>1, <3>2, <3>3 DEF NoTimer
  <2>3. /\ t \in mUserActiveState /\ items[t].ancestors \subseteq mUserActiveState
        /\ items[t].payload \in {"command", "script"}
    BY <1>1, <2>1, WantedAreNext
  <2>4. t \in Wanted
    BY <1>2, <2>1, <2>2, <2>3, WantedAre
  <2>5. t \in Resumed /\ t \in Started(Resumed)
    BY <2>4, WantedIsResumed DEF Started
  <2>6. t \in mActive' /\ t \in armed'
    BY <1>1, <2>1, <2>5
  <2>7. QED
    BY <2>6, CountingIs
<1>5. QED
  BY <1>4 DEF WantedCount

\* The stack above what is below.
LEMMA ElementsPushed ==
  ASSUME NEW S, NEW s \in Seq(S), NEW e \in S
  PROVE  Elements(s) \union {e} \subseteq Elements(Append(s, e))
<1>1. \A i \in DOMAIN s : i \in DOMAIN Append(s, e) /\ Append(s, e)[i] = s[i]
  OBVIOUS
<1>2. Len(s) + 1 \in DOMAIN Append(s, e) /\ Append(s, e)[Len(s) + 1] = e
  OBVIOUS
<1>3. QED
  BY <1>1, <1>2 DEF Elements

LEMMA ElementsPopped ==
  ASSUME NEW S, NEW s \in Seq(S), s # <<>>
  PROVE  Elements(s) \subseteq Elements(SubSeq(s, 1, Len(s) - 1)) \union {s[Len(s)]}
<1> DEFINE r == SubSeq(s, 1, Len(s) - 1)
<1>1. Len(s) \in Nat /\ Len(s) > 0 /\ DOMAIN s = 1..Len(s)
  OBVIOUS
<1>2. r \in Seq(S) /\ Len(r) = Len(s) - 1 /\ DOMAIN r = 1..(Len(s) - 1)
  BY <1>1
<1>3. ASSUME NEW i \in DOMAIN s, i # Len(s) PROVE i \in DOMAIN r /\ r[i] = s[i]
  BY <1>1, <1>2, <1>3
<1> HIDE DEF r
<1>4. \A i \in DOMAIN s : s[i] \in Elements(r) \union {s[Len(s)]}
  BY <1>3 DEF Elements
<1>5. Elements(s) \subseteq Elements(r) \union {s[Len(s)]}
  BY <1>4 DEF Elements
<1>6. QED
  BY <1>5 DEF r

\* doCleanup() at any other time.
LEMMA PurgeLosesNone ==
  ASSUME IInv, WantedCount, PurgeTemps
  PROVE  WantedCount'
<1>1. DoCleanup(mActive, armed, mCleanupSet, frames)
      /\ mEmergencyStop' = mEmergencyStop /\ mResetProfile' = mResetProfile
  BY DEF PurgeTemps, stops
<1>2. ASSUME ~Stopping PROVE \A t \in Wanted' : Counts(t)'
  <2>1. \A t \in mTimerMap :
           /\ t \in mUserActiveState /\ items[t].ancestors \subseteq mUserActiveState
           /\ items[t].payload \in {"command", "script"}
           /\ t \notin mCleanupSet /\ t \notin Elements(uninstallList)
           /\ \A a \in items[t].ancestors : items[a].payload = "folder"
           => t \in mActive /\ (t \in armed \/ (IsTemporary(t) /\ t \in Elements(frames)))
    BY <1>2, WantedAre DEF WantedCount, Counts
  <2>2. QED
    BY <1>1, <2>1, CleanupLosesNone
<1>3. QED
  BY <1>1, <1>2 DEF WantedCount, Stopping

\* A timer that fires stays armed, or it fires once and its script runs; only an
\* offset timer, which does not count by itself, goes off.
LEMMA FiringLosesNone ==
  ASSUME IInv, TemporaryAreScripts, WantedCount, NEW t \in mTimerMap, TimerFires(t)
  PROVE  WantedCount'
<1> DEFINE ringing == IF IsTemporary(t) THEN armed \ {t} ELSE armed
           self == IF IsOffsetTimer(t) THEN {t} ELSE {}
           offsets == IF IsTemporary(t) THEN {} ELSE OffsetsArmed(t)
           active == (mActive \union offsets) \ self
           running == (ringing \union Started(offsets)) \ self
           restarted == IF Restarts(t, active) THEN {t} ELSE {}
<1>1. \/ /\ items[t].payload = "script"
         /\ frames' = Append(frames, t) /\ mActive' = active /\ armed' = running
         /\ UNCHANGED <<mTimerMap, items, mUserActiveState, doomed>>
      \/ /\ items[t].payload # "script"
         /\ DoCleanup(active, running \union restarted, mCleanupSet, frames)
  BY DEF TimerFires, AfterExecute
<1>2. mEmergencyStop' = mEmergencyStop /\ mResetProfile' = mResetProfile
  BY DEF TimerFires, stops
<1>3. t \in IDs /\ frames \in Seq(IDs)
  BY TimersAreIDs DEF IInv, QueuesOK
<1>4. ASSUME ~Stopping, NEW u \in Wanted
      PROVE  /\ u \in active
             /\ u \in running \/ (IsTemporary(u) /\ u \in Elements(frames) \union {t})
  <2>1. u \in mActive /\ (u \in armed \/ (IsTemporary(u) /\ u \in Elements(frames)))
    BY <1>4 DEF WantedCount, Counts
  <2>2. u \notin self
    BY InFoldersIsNoOffset DEF Wanted, Unlocked, IInv
  <2>3. QED
    BY <2>1, <2>2
<1>5. CASE /\ items[t].payload = "script"
           /\ frames' = Append(frames, t) /\ mActive' = active /\ armed' = running
           /\ UNCHANGED <<mTimerMap, items, mUserActiveState, doomed>>
  <2> HIDE DEF active, running
  <2>1. Elements(frames) \union {t} \subseteq Elements(frames')
    BY <1>3, <1>5, ElementsPushed
  <2>2. \A u : u \in Wanted' => u \in Wanted
    BY <1>5, WantedAre, WantedAreNext DEF doomed
  <2>3. ~Stopping => \A u \in Wanted' : Counts(u)'
    BY <1>4, <1>5, <2>1, <2>2 DEF Counts, IsTemporary
  <2>4. QED
    BY <1>2, <2>3 DEF WantedCount, Stopping
<1>6. CASE /\ items[t].payload # "script"
           /\ DoCleanup(active, running \union restarted, mCleanupSet, frames)
  <2>1. ~IsTemporary(t)
    BY <1>3, <1>6 DEF TemporaryAreScripts
  <2> DEFINE started == running \union restarted
  <2>2. running \subseteq started
    OBVIOUS
  <2> HIDE DEF active, running, started
  <2>3. ASSUME ~Stopping PROVE \A u \in Wanted' : Counts(u)'
    <3>1. \A u \in mTimerMap :
             /\ u \in mUserActiveState /\ items[u].ancestors \subseteq mUserActiveState
             /\ items[u].payload \in {"command", "script"}
             /\ u \notin mCleanupSet /\ u \notin Elements(uninstallList)
             /\ \A a \in items[u].ancestors : items[a].payload = "folder"
             => u \in active /\ (u \in started \/ (IsTemporary(u) /\ u \in Elements(frames)))
      BY <1>4, <2>1, <2>2, <2>3, WantedAre
    <3>2. DoCleanup(active, started, mCleanupSet, frames)
      BY <1>6 DEF started
    <3>3. QED
      BY <3>1, <3>2, CleanupLosesNone
  <2>4. QED
    BY <1>2, <2>3 DEF WantedCount, Stopping
<1>7. QED
  BY <1>1, <1>5, <1>6

\* A script returns: what it leaves is started again, unless it is spent.
LEMMA ReturnLosesNone ==
  ASSUME IInv, TemporaryAreScripts, WantedCount, NEW fails \in BOOLEAN, ScriptReturns(fails)
  PROVE  WantedCount'
<1> DEFINE t == frames[Len(frames)]
           below == SubSeq(frames, 1, Len(frames) - 1)
           spent == IsTemporary(t) /\ ~items[t].repeating
           running == IF spent \/ fails THEN armed \ {t} ELSE armed
           queued == IF spent THEN mCleanupSet \union {t} ELSE mCleanupSet
           restarted == IF Restarts(t, mActive) THEN {t} ELSE {}
<1>1. frames # <<>> /\ frames \in Seq(IDs)
  BY DEF ScriptReturns, IInv, QueuesOK
<1>2. Elements(frames) \subseteq Elements(below) \union {t}
  BY <1>1, ElementsPopped
<1>3. /\ DoCleanup(mActive, running \union restarted, queued, below)
      /\ mEmergencyStop' = mEmergencyStop /\ mResetProfile' = mResetProfile
  BY DEF ScriptReturns, AfterExecute, stops
<1> HIDE DEF t, below
<1>4. ASSUME ~Stopping, NEW u \in Wanted, u \notin queued
      PROVE  /\ u \in mActive
             /\ u \in running \union restarted \/ (IsTemporary(u) /\ u \in Elements(below))
  <2>1. u \in mActive /\ (u \in armed \/ (IsTemporary(u) /\ u \in Elements(frames)))
    BY <1>4 DEF WantedCount, Counts
  <2>2. CASE u # t
    BY <1>2, <2>1, <2>2
  <2>3. CASE u = t
    <3>1. ~spent
      BY <1>4, <2>3
    <3>2. ~IsOffsetTimer(u) /\ ~IsFolder(u) /\ u \in mUserActiveState
      BY InFoldersIsNoOffset DEF Wanted, Unlocked, IInv, HasPayload, IsFolder
    <3>3. Restarts(t, mActive)
      BY <2>1, <2>3, <3>1, <3>2 DEF Restarts
    <3>4. QED
      BY <2>1, <2>3, <3>3
  <2>4. QED
    BY <2>2, <2>3
<1> DEFINE started == running \union restarted
<1>5. mCleanupSet \subseteq queued
  OBVIOUS
<1> HIDE DEF running, queued, restarted
<1>6. ASSUME ~Stopping PROVE \A u \in Wanted' : Counts(u)'
  <2>1. \A u \in mTimerMap :
           /\ u \in mUserActiveState /\ items[u].ancestors \subseteq mUserActiveState
           /\ items[u].payload \in {"command", "script"}
           /\ u \notin queued /\ u \notin Elements(uninstallList)
           /\ \A a \in items[u].ancestors : items[a].payload = "folder"
           => u \in mActive /\ (u \in started \/ (IsTemporary(u) /\ u \in Elements(below)))
    BY <1>4, <1>5, <1>6, WantedAre
  <2>2. DoCleanup(mActive, started, queued, below)
    BY <1>3
  <2> HIDE DEF started
  <2>3. QED
    BY <2>1, <2>2, CleanupLosesNone
<1>7. QED
  BY <1>3, <1>6 DEF WantedCount, Stopping

\* Every step, and no step.
LEMMA WantedStep ==
  ASSUME IInv, TemporaryAreScripts, WantedCount, [Next]_vars
  PROVE  WantedCount'
<1>1. CASE \E repeating \in BOOLEAN : TempTimer(repeating)
  BY <1>1, TempTimerLosesNone
<1>2. CASE \E parent \in mTimerMap \union {0}, payload \in PermPayloads :
              PermTimer(parent, payload)
  BY <1>2, PermTimerLosesNone
<1>3. CASE \E t \in mTimerMap :
              EnableTimer(t) \/ DisableTimer(t) \/ KillTimer(t) \/ TimerFires(t)
  BY <1>3, EnableLosesNone, DisableLosesNone, KillLosesNone, FiringLosesNone
<1>4. CASE \E fails \in BOOLEAN : ScriptReturns(fails)
  BY <1>4, ReturnLosesNone
<1>5. CASE PurgeTemps
  BY <1>5, PurgeLosesNone
<1>6. CASE \E payload \in PackagePayloads, isActive \in BOOLEAN :
              InstallPackage(payload, isActive)
  BY <1>6, InstallLosesNone
<1>7. CASE UninstallPackage
  BY <1>7, UninstallLosesNone
<1>8. CASE EmergencyStop \/ ResetProfile
  BY <1>8 DEF EmergencyStop, ResetProfile, WantedCount, Stopping
<1>9. CASE Resume \/ ResetProfileFinishes
  BY <1>9, ResumeLosesNone, ResetLosesNone
<1>10. CASE UNCHANGED vars
  <2>1. UNCHANGED <<mTimerMap, items, frames, stops>>
        /\ mActive' = mActive /\ armed' = armed
    BY <1>10 DEF vars, tree, flags
  <2>2. \A t : t \in Wanted' => t \in Wanted
    BY <1>10, WantedAre, WantedAreNext DEF vars, tree, flags, doomed
  <2>3. QED
    BY <2>1, <2>2, SameTimersWanted DEF Counts
<1>11. QED
  BY <1>1, <1>2, <1>3, <1>4, <1>5, <1>6, <1>7, <1>8, <1>9, <1>10 DEF Next

\* At first there is no timer.
LEMMA WantedInit == Init => TemporaryAreScripts /\ WantedCount
  BY DEF Init, TemporaryAreScripts, IsTemporary, NoTimer, WantedCount, Wanted, Unlocked

\* Unless everything was stopped, a timer that is switched on, with every group it
\* is in, counts or its script is running, for any number of timers, stops, resets,
\* installations and scripts that fail.
THEOREM NoTimerIsLost == Spec => []EnabledTimersRun
<1>1. Init => IInv /\ TemporaryAreScripts /\ WantedCount
  BY InvInit, WantedInit
<1>2. (IInv /\ TemporaryAreScripts /\ WantedCount) /\ [Next]_vars
        => (IInv /\ TemporaryAreScripts /\ WantedCount)'
  BY InvNext, TemporaryStayScripts, WantedStep
<1>3. IInv /\ TemporaryAreScripts /\ WantedCount => EnabledTimersRun
  BY DEF WantedCount, Stopping, Counts, EnabledTimersRun
<1>4. QED
  BY <1>1, <1>2, <1>3, PTL DEF Spec

-----------------------------------------------------------------------------
\* What is freed is freed once.

\* The timers that one is in are in one another.
ChainOK ==
    \A t \in mTimerMap : \A a, b \in Ancestors(t) :
        a = b \/ a \in Ancestors(b) \/ b \in Ancestors(a)

TemporaryAreLoose == \A t \in IDs : IsTemporary(t) => ~items[t].packaged

\* What was uninstalled is of a package.
ListedArePackaged ==
    \A u \in Elements(uninstallList) :
        \E p \in {u} \union Ancestors(u) : Ancestors(p) = {} /\ items[p].packaged

\* An uninstallation lists what is in a timer before it, and is the only one as
\* long as the package was not installed again.
ListedOnce ==
    installs <= 1 =>
        /\ mInstalledPackages \/ installs = 0 => uninstallList = <<>>
        /\ mInstalledPackages => installs = 1
        /\ \A j \in DOMAIN uninstallList : \A i \in 1..(j - 1) :
              uninstallList[i] \notin Ancestors(uninstallList[j])

QueueInv == ChainOK /\ TemporaryAreLoose /\ ListedArePackaged /\ ListedOnce

\* An uninstallation with nothing on the stack, doCleanup() and the end of a
\* reset leave nothing in the queue.
LEMMA FreeingKeepsQueues ==
  ASSUME IInv, QueueInv, NEW ts,
         mTimerMap' = mTimerMap \ WithDescendants(ts),
         items' = [t \in IDs |-> IF t \in WithDescendants(ts) THEN NoTimer ELSE items[t]],
         uninstallList' = <<>>, installs' = installs,
         mInstalledPackages' => mInstalledPackages
  PROVE  QueueInv'
<1> DEFINE gone == WithDescendants(ts)
<1>1. mTimerMap \subseteq IDs
  BY TimersAreIDs
<1>2. ASSUME NEW t \in mTimerMap'
      PROVE  /\ t \in mTimerMap /\ items'[t] = items[t]
             /\ \A a \in items[t].ancestors : items'[a] = items[a]
  <2>1. t \in mTimerMap /\ t \notin gone /\ items'[t] = items[t]
    BY <1>1
  <2>2. ASSUME NEW a \in items[t].ancestors PROVE a \in IDs /\ a \notin gone
    <3>1. a \in mTimerMap /\ Ancestors(a) \subseteq Ancestors(t) /\ a \in Ancestors(t)
      BY <2>1 DEF IInv, TreeOK, Ancestors
    <3>2. (({t} \union Ancestors(t)) \intersect ts) = {}
      BY <2>1 DEF WithDescendants
    <3>3. (({a} \union Ancestors(a)) \intersect ts) = {}
      BY <3>1, <3>2
    <3>4. QED
      BY <1>1, <3>1, <3>3 DEF WithDescendants
  <2>3. QED
    BY <2>1, <2>2
<1> HIDE DEF gone
<1>3. ChainOK'
  <2>1. \A t \in mTimerMap' : \A a, b \in items'[t].ancestors :
           a = b \/ a \in items'[b].ancestors \/ b \in items'[a].ancestors
    BY <1>2 DEF QueueInv, ChainOK, Ancestors
  <2>2. QED
    BY <2>1 DEF ChainOK, Ancestors
<1>4. TemporaryAreLoose'
  BY DEF QueueInv, TemporaryAreLoose, IsTemporary, NoTimer
<1>5. ListedArePackaged'
  BY ElementsEmpty DEF ListedArePackaged
<1>6. ListedOnce'
  BY DEF QueueInv, ListedOnce
<1>7. QED
  BY <1>3, <1>4, <1>5, <1>6 DEF QueueInv

\* Steps that leave the timers and what is to be uninstalled as they are.
LEMMA SameQueues ==
  ASSUME QueueInv, UNCHANGED <<mTimerMap, items, uninstallList, installs, mInstalledPackages>>
  PROVE  QueueInv'
<1>1. ChainOK' /\ TemporaryAreLoose'
  BY DEF QueueInv, ChainOK, TemporaryAreLoose, Ancestors, IsTemporary
<1>2. ListedArePackaged' /\ ListedOnce'
  BY DEF QueueInv, ListedArePackaged, ListedOnce, Ancestors
<1>3. QED
  BY <1>1, <1>2 DEF QueueInv

LEMMA CleanupKeepsQueues ==
  ASSUME IInv, QueueInv, NEW active, NEW running, NEW queued, NEW below,
         DoCleanup(active, running, queued, below), UNCHANGED packages
  PROVE  QueueInv'
<1>1. CASE below # <<>>
  BY <1>1, SameQueues DEF DoCleanup, packages
<1>2. CASE below = <<>>
  <2>1. PICK ts : /\ mTimerMap' = mTimerMap \ WithDescendants(ts)
                  /\ items' = [t \in IDs |-> IF t \in WithDescendants(ts) THEN NoTimer
                                             ELSE items[t]]
                  /\ uninstallList' = <<>>
    BY <1>2 DEF DoCleanup
  <2>2. QED
    BY <2>1, FreeingKeepsQueues DEF packages
<1>3. QED
  BY <1>1, <1>2

\* New timers, of which the queues hold none.
LEMMA NewTimersKeepQueues ==
  ASSUME IInv, QueueInv, NEW new \in SUBSET (IDs \ mTimerMap),
         mTimerMap' = mTimerMap \union new,
         \A t \in IDs \ new : items'[t] = items[t],
         \A t \in new : \A a, b \in items'[t].ancestors :
           a = b \/ a \in items'[b].ancestors \/ b \in items'[a].ancestors,
         \A t \in new : items'[t].temporary => ~items'[t].packaged,
         uninstallList' = uninstallList,
         \/ UNCHANGED <<installs, mInstalledPackages>>
         \/ ~mInstalledPackages /\ installs' = installs + 1 /\ mInstalledPackages'
  PROVE  QueueInv'
<1>1. mTimerMap \subseteq IDs /\ Elements(uninstallList) \subseteq mTimerMap
  BY TimersAreIDs
<1>2. ASSUME NEW t \in mTimerMap
      PROVE  /\ items'[t] = items[t]
             /\ \A a \in items[t].ancestors : a \in mTimerMap /\ items'[a] = items[a]
  <2>1. items[t].ancestors \subseteq mTimerMap
    BY DEF IInv, TreeOK, Ancestors
  <2>2. QED
    BY <1>1, <2>1
<1>3. ChainOK'
  <2>1. ASSUME NEW t \in mTimerMap
        PROVE  \A a, b \in items'[t].ancestors :
                 a = b \/ a \in items'[b].ancestors \/ b \in items'[a].ancestors
    BY <1>2 DEF QueueInv, ChainOK, Ancestors
  <2>2. QED
    BY <2>1 DEF ChainOK, Ancestors
<1>4. TemporaryAreLoose'
  BY DEF QueueInv, TemporaryAreLoose, IsTemporary
<1>5. ListedArePackaged'
  <2>1. ASSUME NEW u \in Elements(uninstallList)
        PROVE  \E p \in {u} \union items'[u].ancestors :
                 items'[p].ancestors = {} /\ items'[p].packaged
    <3>1. PICK p \in {u} \union items[u].ancestors : items[p].ancestors = {} /\ items[p].packaged
      BY <2>1 DEF QueueInv, ListedArePackaged, Ancestors
    <3>2. items'[u] = items[u] /\ items'[p] = items[p]
      BY <1>1, <1>2, <2>1, <3>1
    <3>3. QED
      BY <3>1, <3>2
  <2>2. QED
    BY <2>1 DEF ListedArePackaged, Ancestors
<1>6. ListedOnce'
  <2>1. installs \in Nat
    BY TimerUnitAssumption DEF IInv, RestOK
  <2>2. ASSUME installs' <= 1
        PROVE  /\ mInstalledPackages' \/ installs' = 0 => uninstallList' = <<>>
               /\ mInstalledPackages' => installs' = 1
               /\ installs <= 1
    BY <2>1, <2>2 DEF QueueInv, ListedOnce
  <2>3. ASSUME installs' <= 1
        PROVE  \A j \in DOMAIN uninstallList : \A i \in 1..(j - 1) :
                  uninstallList[i] \notin items'[uninstallList[j]].ancestors
    <3>1. \A j \in DOMAIN uninstallList : uninstallList[j] \in mTimerMap
      BY <1>1 DEF Elements
    <3>2. QED
      BY <1>2, <2>2, <2>3, <3>1 DEF QueueInv, ListedOnce, Ancestors
  <2>4. QED
    BY <2>2, <2>3 DEF ListedOnce, Ancestors
<1>7. QED
  BY <1>3, <1>4, <1>5, <1>6 DEF QueueInv

\* uninstall() under a script: what it lists is of the package, with what is in a
\* timer before it.
LEMMA UninstallKeepsQueues ==
  ASSUME IInv, QueueInv, UninstallPackage
  PROVE  QueueInv'
<1> DEFINE packaged == {t \in Roots : items[t].packaged}
           gone == WithDescendants(packaged)
<1>1. mInstalledPackages /\ ~mInstalledPackages' /\ installs' = installs
  BY DEF UninstallPackage
<1>2. CASE frames # <<>>
  <2>1. PICK listed \in ChildrenFirst(gone) : uninstallList' = uninstallList \o listed
    BY <1>2 DEF UninstallPackage
  <2>2. UNCHANGED <<mTimerMap, items>>
    BY <1>2 DEF UninstallPackage
  <2>3. /\ Elements(listed) = gone
        /\ \A i, j \in DOMAIN listed : i < j => listed[i] \notin Ancestors(listed[j])
    BY DEF ChildrenFirst
  <2>4. listed \in Seq(IDs)
    <3>1. gone \subseteq mTimerMap /\ gone \subseteq IDs
      BY TimersAreIDs DEF WithDescendants
    <3>2. Cardinality(gone) \in Nat
      <4>1. mTimerMap \subseteq 1..mMaxID /\ mMaxID \in Nat
        BY TimerUnitAssumption DEF IInv, TreeOK
      <4> HIDE DEF gone
      <4>2. IsFiniteSet(1..mMaxID)
        BY <4>1, FS_Interval
      <4>3. gone \subseteq 1..mMaxID
        BY <3>1, <4>1
      <4>4. IsFiniteSet(gone)
        BY <4>2, <4>3, FS_Subset
      <4>5. QED
        BY <4>4, FS_CardinalityType
    <3>3. listed \in [1..Cardinality(gone) -> gone]
      BY DEF ChildrenFirst
    <3>4. QED
      BY <3>1, <3>2, <3>3
  <2>5. ChainOK' /\ TemporaryAreLoose'
    BY <2>2 DEF QueueInv, ChainOK, TemporaryAreLoose, Ancestors, IsTemporary
  <2>6. ListedArePackaged'
    <3>1. \A u \in gone : \E p \in {u} \union Ancestors(u) : Ancestors(p) = {} /\ items[p].packaged
      BY DEF WithDescendants, Roots
    <3> HIDE DEF gone
    <3>2. Elements(uninstallList') = Elements(uninstallList) \union gone
      BY <2>1, <2>3, <2>4, ElementsConcatenated DEF IInv, QueuesOK
    <3>3. QED
      BY <2>2, <3>1, <3>2 DEF QueueInv, ListedArePackaged, Ancestors
  <2>7. ListedOnce'
    <3>1. SUFFICES ASSUME installs' <= 1 PROVE ListedOnce'
      BY DEF ListedOnce
    <3>2. installs = 1 /\ uninstallList = <<>>
      BY <1>1, <3>1 DEF QueueInv, ListedOnce
    <3> HIDE DEF gone
    <3>3. uninstallList' = listed /\ DOMAIN listed = 1..Len(listed) /\ Len(listed) \in Nat
      BY <2>1, <2>4, <3>2
    <3>4. \A j \in DOMAIN listed : \A i \in 1..(j - 1) : listed[i] \notin Ancestors(listed[j])
      <4>1. \A j \in DOMAIN listed : \A i \in 1..(j - 1) : i \in DOMAIN listed /\ i < j
        BY <3>3
      <4>2. QED
        BY <2>3, <4>1
    <3>5. QED
      BY <1>1, <2>2, <3>2, <3>3, <3>4 DEF ListedOnce, Ancestors
  <2>8. QED
    BY <2>5, <2>6, <2>7 DEF QueueInv
<1>3. CASE frames = <<>>
  <2>1. /\ mTimerMap' = mTimerMap \ gone
        /\ items' = [t \in IDs |-> IF t \in gone THEN NoTimer ELSE items[t]]
        /\ uninstallList' = <<>>
    BY <1>3 DEF UninstallPackage
  <2> HIDE DEF packaged
  <2>2. QED
    BY <1>1, <2>1, FreeingKeepsQueues
<1>4. QED
  BY <1>2, <1>3

LEMMA QueueStep ==
  ASSUME IInv, QueueInv, [Next]_vars
  PROVE  QueueInv'
<1> DEFINE new == mMaxID + 1
<1>1. ASSUME new \in IDs PROVE new \notin mTimerMap
  BY <1>1, TimerUnitAssumption DEF IInv, TreeOK
<1>2. items \in [IDs -> Items]
  BY DEF IInv, TreeOK
<1>3. ASSUME NEW repeating \in BOOLEAN, TempTimer(repeating) PROVE QueueInv'
  <2>1. /\ new \in IDs /\ mTimerMap' = mTimerMap \union {new}
        /\ items' = [items EXCEPT ![new] =
              [NoTimer EXCEPT !.temporary = TRUE, !.repeating = repeating, !.payload = "script"]]
        /\ UNCHANGED <<uninstallList, installs, mInstalledPackages>>
    BY <1>3 DEF TempTimer, Register, doomed, packages
  <2>2. items'[new].ancestors = {} /\ ~items'[new].packaged
    BY <1>2, <2>1 DEF NoTimer
  <2>3. \A t \in IDs \ {new} : items'[t] = items[t]
    BY <1>2, <2>1
  <2>4. {new} \in SUBSET (IDs \ mTimerMap)
    BY <1>1, <2>1
  <2> HIDE DEF new
  <2>5. QED
    BY <2>1, <2>2, <2>3, <2>4, NewTimersKeepQueues
<1>4. ASSUME NEW parent \in mTimerMap \union {0}, NEW payload \in PermPayloads,
             PermTimer(parent, payload)
      PROVE  QueueInv'
  <2> DEFINE above == IF parent = 0 THEN {} ELSE {parent} \union Ancestors(parent)
  <2>1. /\ new \in IDs /\ mTimerMap' = mTimerMap \union {new}
        /\ items' = [items EXCEPT
              ![new] = [NoTimer EXCEPT !.ancestors = above, !.payload = payload]]
        /\ UNCHANGED <<uninstallList, installs, mInstalledPackages>>
    BY <1>4 DEF PermTimer, Register, doomed, packages
  <2>2. items'[new].ancestors = above /\ ~items'[new].packaged
    BY <1>2, <2>1 DEF NoTimer
  <2>3. \A t \in IDs \ {new} : items'[t] = items[t]
    BY <1>2, <2>1
  <2>4. {new} \in SUBSET (IDs \ mTimerMap)
    BY <1>1, <2>1
  <2>5. above \subseteq mTimerMap
    BY DEF IInv, TreeOK
  <2>6. \A a, b \in above : a = b \/ a \in Ancestors(b) \/ b \in Ancestors(a)
    BY DEF QueueInv, ChainOK
  <2>7. \A a \in above : items'[a] = items[a]
    BY <2>3, <2>4, <2>5, TimersAreIDs
  <2>8. \A a, b \in items'[new].ancestors :
           a = b \/ a \in items'[b].ancestors \/ b \in items'[a].ancestors
    <3> HIDE DEF above
    <3>1. QED
      BY <2>2, <2>6, <2>7 DEF Ancestors
  <2> HIDE DEF new
  <2>9. QED
    BY <2>1, <2>2, <2>3, <2>4, <2>8, NewTimersKeepQueues
<1>5. ASSUME NEW payload \in PackagePayloads, NEW isActive \in BOOLEAN,
             InstallPackage(payload, isActive)
      PROVE  QueueInv'
  <2> DEFINE timer == mMaxID + 2
  <2>1. /\ timer \in IDs /\ mTimerMap' = mTimerMap \union {new, timer}
        /\ items' = [items EXCEPT
              ![new] = [NoTimer EXCEPT !.payload = "folder", !.packaged = TRUE],
              ![timer] = [NoTimer EXCEPT !.ancestors = {new}, !.payload = payload]]
        /\ ~mInstalledPackages /\ mInstalledPackages' = TRUE /\ installs' = installs + 1
        /\ uninstallList' = uninstallList
    BY <1>5 DEF InstallPackage, doomed
  <2>2. /\ new \in IDs /\ new # timer /\ new \notin mTimerMap /\ timer \notin mTimerMap
    BY <2>1, TimerUnitAssumption DEF IInv, TreeOK, IDs
  <2> HIDE DEF new, timer
  <2>3. /\ items'[new].ancestors = {} /\ items'[timer].ancestors = {new}
        /\ ~items'[new].temporary /\ ~items'[timer].temporary
        /\ \A t \in IDs \ {new, timer} : items'[t] = items[t]
    BY <1>2, <2>1, <2>2 DEF NoTimer
  <2>4. {new, timer} \in SUBSET (IDs \ mTimerMap)
    BY <2>1, <2>2
  <2>5. \A t \in {new, timer} : \A a, b \in items'[t].ancestors :
           a = b \/ a \in items'[b].ancestors \/ b \in items'[a].ancestors
    BY <2>3
  <2>6. \A t \in {new, timer} : items'[t].temporary => ~items'[t].packaged
    BY <2>3
  <2>7. /\ mTimerMap' = mTimerMap \union {new, timer} /\ uninstallList' = uninstallList
        /\ installs' = installs + 1
    BY <2>1
  <2>8. ~mInstalledPackages /\ mInstalledPackages'
    BY <2>1, Zenon
  <2>9. QED
    BY <2>3, <2>4, <2>5, <2>6, <2>7, <2>8, NewTimersKeepQueues
<1>6. CASE \/ \E t \in mTimerMap : EnableTimer(t) \/ DisableTimer(t) \/ KillTimer(t)
           \/ EmergencyStop \/ Resume \/ ResetProfile \/ UNCHANGED vars
  BY <1>6, SameQueues DEF EnableTimer, DisableTimer, KillTimer, EmergencyStop, Resume,
    ResetProfile, StopAllTriggers, tree, doomed, packages, vars
<1>7. CASE UninstallPackage
  BY <1>7, UninstallKeepsQueues
<1>8. CASE ResetProfileFinishes
  <2> DEFINE ts == {t \in Roots : IsTemporary(t)} \union Elements(uninstallList)
  <2>1. /\ mTimerMap' = mTimerMap \ WithDescendants(ts)
        /\ items' = [t \in IDs |-> IF t \in WithDescendants(ts) THEN NoTimer ELSE items[t]]
        /\ uninstallList' = <<>> /\ UNCHANGED <<installs, mInstalledPackages>>
    BY <1>8 DEF ResetProfileFinishes, packages
  <2> HIDE DEF ts
  <2>2. QED
    BY <2>1, FreeingKeepsQueues
<1>9. CASE PurgeTemps
  BY <1>9, CleanupKeepsQueues DEF PurgeTemps
<1>10. ASSUME NEW fails \in BOOLEAN, ScriptReturns(fails) PROVE QueueInv'
  BY <1>10, CleanupKeepsQueues DEF ScriptReturns, AfterExecute
<1>11. ASSUME NEW t \in mTimerMap, TimerFires(t) PROVE QueueInv'
  BY <1>11, CleanupKeepsQueues, SameQueues DEF TimerFires, AfterExecute, doomed, packages
<1>12. QED
  BY <1>3, <1>4, <1>5, <1>6, <1>7, <1>8, <1>9, <1>10, <1>11 DEF Next

LEMMA QueueInit == Init => QueueInv
<1> SUFFICES ASSUME Init PROVE QueueInv
  OBVIOUS
<1>1. ChainOK /\ TemporaryAreLoose /\ ListedOnce
  BY DEF Init, ChainOK, TemporaryAreLoose, ListedOnce, IsTemporary, NoTimer
<1>2. ListedArePackaged
  BY ElementsEmpty DEF Init, ListedArePackaged
<1>3. QED
  BY <1>1, <1>2 DEF QueueInv

\* Of the timers that one is in only one is at the top, and what was uninstalled
\* has there a timer of the package, which is never killed and never spent.
LEMMA QueuesApart ==
  ASSUME IInv, QueueInv, NEW u \in Elements(uninstallList)
  PROVE  Ancestors(u) \intersect mCleanupSet = {}
<1>1. SUFFICES ASSUME NEW a \in Ancestors(u), a \in mCleanupSet PROVE FALSE
  OBVIOUS
<1>2. PICK p \in {u} \union Ancestors(u) : Ancestors(p) = {} /\ items[p].packaged
  BY DEF QueueInv, ListedArePackaged
<1>3. a \in IDs /\ IsTemporary(a) /\ Ancestors(a) = {} /\ ~items[a].packaged
  BY <1>1, TimersAreIDs DEF IInv, DoomedStayOff, TreeOK, QueueInv, TemporaryAreLoose
<1>4. p # u /\ p # a
  BY <1>1, <1>2, <1>3
<1>5. u \in mTimerMap
  BY TimersAreIDs
<1>6. a = p \/ a \in Ancestors(p) \/ p \in Ancestors(a)
  BY <1>1, <1>2, <1>4, <1>5 DEF QueueInv, ChainOK
<1>7. QED
  BY <1>2, <1>3, <1>4, <1>6

\* As long as the package was not installed a second time, no timer is freed under
\* its script or a queue, nor again as a part of another.
THEOREM FreedOnceBeforeReinstall == Spec => [](installs <= 1 => FreedOnceAndLast)
<1>1. Init => IInv /\ QueueInv
  BY InvInit, QueueInit
<1>2. (IInv /\ QueueInv) /\ [Next]_vars => (IInv /\ QueueInv)'
  BY InvNext, QueueStep
<1>3. IInv /\ QueueInv => (installs <= 1 => FreedOnceAndLast)
  <2> SUFFICES ASSUME IInv, QueueInv, installs <= 1 PROVE FreedOnceAndLast
    OBVIOUS
  <2>1. NothingFreedInUse
    BY DEF IInv, QueuesOK
  <2>2. \A j \in DOMAIN uninstallList : Ancestors(uninstallList[j]) \intersect mCleanupSet = {}
    BY QueuesApart DEF Elements
  <2>3. QED
    BY <2>1, <2>2 DEF FreedOnceAndLast, NothingFreedInUse, QueueInv, ListedOnce
<1>4. QED
  BY <1>1, <1>2, <1>3, PTL DEF Spec

=============================================================================
