----------------------------- MODULE TriggerUnit -----------------------------
(***************************************************************************)
(* The triggers of one profile: how a line of game text is offered to them,*)
(* what their scripts may do to the very list being walked, and when a     *)
(* trigger that was killed, has expired or has lost its package is freed.  *)
(*                                                                         *)
(* TriggerUnit, TTrigger and Tree keep raw pointers to triggers in seven   *)
(* places.  While a line is matched nothing may be deleted, since the      *)
(* passes and match() frames on the C++ stack still hold such pointers, so *)
(* deletion is put off to the end of the outermost pass.  A script can     *)
(* start another pass (feedTriggers()), which makes passes nest.           *)
(*                                                                         *)
(* Triggers are named by their ID, which getNewID() never gives out twice. *)
(* Whether a pattern matches the line is any choice.                       *)
(***************************************************************************)
EXTENDS RootLists, Integers, FiniteSets

CONSTANTS
    MaxTriggers,          \* bound: how many IDs getNewID() may give out
    MaxInstalls,          \* bound: how often the package may be installed
    MaxProcessingDepth,   \* scmMaxProcessingDepth
    MaxSameLineGenerations,     \* scmMaxSameLineGenerations
    MaxSameLineCreationsPerLine,\* scmMaxSameLineCreationsPerLine
    ExpiryCounts          \* the expireAfter counts scripts ask for; -1 is none

ASSUME TriggerUnitAssumption ==
    /\ MaxTriggers \in Nat
    /\ MaxInstalls \in Nat
    /\ MaxProcessingDepth \in Nat \ {0}
    /\ MaxSameLineGenerations \in Nat
    /\ MaxSameLineCreationsPerLine \in Nat
    /\ ExpiryCounts \subseteq Nat \union {-1}

VARIABLES
    mMaxID,               \* the last ID given out
    mTriggerMap,          \* the IDs of the triggers that exist
    mAncestors,           \* the chain of mpParent above each trigger
    mTemporary,           \* the temporary triggers
    mPackageName,         \* the folders that carry the package's name
    mActive,
    mUserActiveState,
    mExpiryCount,
    mTriggerRootNodeList,
    mCleanupSet,
    uninstallList,
    mRootNodesAddedWhileProcessing, \* 0 is a slot that was nulled
    mSameLineChain,       \* [chain, generation] of each root
    mRunawayFeedStopped,
    mInstalledPackages,   \* Host: is the package installed
    passes                \* the processDataStream() calls on the stack

items   == <<mMaxID, mTriggerMap, mAncestors, mTemporary, mPackageName>>
actives == <<mActive, mUserActiveState>>
doomed  == <<mCleanupSet, uninstallList>>
lineage == <<mRootNodesAddedWhileProcessing, mSameLineChain>>
vars == <<items, actives, mExpiryCount, mTriggerRootNodeList, doomed, lineage,
          mRunawayFeedStopped, mInstalledPackages, passes>>

IDs == 1..MaxTriggers
NoChain == [chain |-> 0, generation |-> 0]

-----------------------------------------------------------------------------
(***************************************************************************)
(* The tree.  A parent exists before its children, so IDs grow downwards   *)
(* and a node's parent is the largest of its ancestors.  Children are      *)
(* appended, so a child list is in the order of the IDs.                   *)
(***************************************************************************)
IsRoot(t) == mAncestors[t] = {}
RootOf(t) == CHOOSE r \in mAncestors[t] \union {t} : mAncestors[r] = {}
Descendants(S) == {d \in mTriggerMap : mAncestors[d] \intersect S # {}}
Children(p) ==
    {c \in mTriggerMap : p \in mAncestors[c] /\ \A a \in mAncestors[c] : a <= p}

IsActive(t) == t \in mActive /\ t \in mUserActiveState

mProcessingDepth == Len(passes)
Pass == passes[Len(passes)]
Frame == Pass.frames[Len(Pass.frames)]

\* A trigger's script is running, at the top of the stack.
ScriptRuns == passes # <<>> /\ Pass.frames # <<>> /\ Frame.stage = "script"
\* Lua has control: a trigger's script, or, between lines, an alias, a timer
\* or an event handler.
LuaRuns == passes = <<>> \/ ScriptRuns

\* The lineage of the trigger whose script is running: see execute().
CurrentSameLineChain ==
    IF ScriptRuns THEN mSameLineChain[RootOf(Frame.trigger)] ELSE NoChain

PendingDeletion(t) ==
    (mAncestors[t] \union {t}) \intersect (mCleanupSet \union Elements(uninstallList)) # {}

-----------------------------------------------------------------------------
(***************************************************************************)
(* Creation.  A trigger created while a line is processed starts a lineage *)
(* when a script older than the line makes it, and else is one generation  *)
(* further down the lineage of its maker.  A lineage is named by its first *)
(* trigger's ID; only whether two names are equal matters.                 *)
(***************************************************************************)
SameLineChainOfNew(t) ==
    [chain |-> IF CurrentSameLineChain.chain = 0 THEN t ELSE CurrentSameLineChain.chain,
     generation |-> CurrentSameLineChain.generation + 1]

\* Mutant: a root registered while a line is processed is not remembered.
RegisterRootOnly(t) ==
    /\ mTriggerRootNodeList' = Append(mTriggerRootNodeList, t)
    /\ UNCHANGED lineage

\* registerTrigger(): a root joins the list, and is remembered if a line is
\* being processed; a child is only entered into the map.
RegisterRoot(t) ==
    /\ mTriggerRootNodeList' = Append(mTriggerRootNodeList, t)
    /\ IF mProcessingDepth > 0
       THEN /\ mRootNodesAddedWhileProcessing' = Append(mRootNodesAddedWhileProcessing, t)
            /\ mSameLineChain' = [mSameLineChain EXCEPT ![t] = SameLineChainOfNew(t)]
       ELSE UNCHANGED lineage

\* Mutant: the ID given out is not used up.
TempTriggerWithOldID(expireAfter) ==
    LET t == mMaxID + 1 IN
    /\ LuaRuns
    /\ t \in IDs \ mTriggerMap
    /\ mTriggerMap' = mTriggerMap \union {t}
    /\ mTemporary' = mTemporary \union {t}
    /\ mActive' = mActive \union {t}
    /\ mUserActiveState' = mUserActiveState \union {t}
    /\ mExpiryCount' = [mExpiryCount EXCEPT ![t] = expireAfter]
    /\ RegisterRoot(t)
    /\ UNCHANGED <<mMaxID, mAncestors, mPackageName, doomed, mRunawayFeedStopped,
                   mInstalledPackages, passes>>

\* tempTrigger() and friends.
TempTrigger(expireAfter) ==
    LET t == mMaxID + 1 IN
    /\ LuaRuns
    /\ t \in IDs
    /\ mMaxID' = t
    /\ mTriggerMap' = mTriggerMap \union {t}
    /\ mTemporary' = mTemporary \union {t}
    /\ mActive' = mActive \union {t}
    /\ mUserActiveState' = mUserActiveState \union {t}
    /\ mExpiryCount' = [mExpiryCount EXCEPT ![t] = expireAfter]
    /\ RegisterRoot(t)
    /\ UNCHANGED <<mAncestors, mPackageName, doomed, mRunawayFeedStopped,
                   mInstalledPackages, passes>>

\* permRegexTrigger() and friends: a permanent trigger, at the root (p = 0) or
\* under a trigger found by name.  findTrigger() also finds the ones that are
\* waiting to be freed.
PermTrigger(p) ==
    LET t == mMaxID + 1 IN
    /\ LuaRuns
    /\ t \in IDs
    /\ p \in mTriggerMap \union {0}
    /\ mMaxID' = t
    /\ mTriggerMap' = mTriggerMap \union {t}
    /\ mActive' = mActive \union {t}
    /\ mUserActiveState' = mUserActiveState \union {t}
    /\ IF p = 0
       THEN RegisterRoot(t) /\ UNCHANGED mAncestors
       ELSE /\ mAncestors' = [mAncestors EXCEPT ![t] = mAncestors[p] \union {p}]
            /\ UNCHANGED <<mTriggerRootNodeList, lineage>>
    /\ UNCHANGED <<mTemporary, mPackageName, mExpiryCount, doomed,
                   mRunawayFeedStopped, mInstalledPackages, passes>>

\* installPackage(): the importer registers a folder named after the package,
\* and reads the package's triggers in below it; then the permanent roots are
\* put ahead of the temporary ones.
InstallPackage ==
    LET folder == mMaxID + 1
        leaf == mMaxID + 2
    IN
    /\ LuaRuns
    /\ leaf \in IDs
    /\ Cardinality(mPackageName) < MaxInstalls
    /\ ~mInstalledPackages
    /\ mInstalledPackages' = TRUE
    /\ mMaxID' = leaf
    /\ mTriggerMap' = mTriggerMap \union {folder, leaf}
    /\ mAncestors' = [mAncestors EXCEPT ![leaf] = {folder}]
    /\ mPackageName' = mPackageName \union {folder}
    /\ mActive' = mActive \union {folder, leaf}
    /\ mUserActiveState' = mUserActiveState \union {folder, leaf}
    /\ mTriggerRootNodeList' =
           Without(mTriggerRootNodeList, mTemporary) \o <<folder>>
           \o Only(mTriggerRootNodeList, mTemporary)
    /\ IF mProcessingDepth > 0
       THEN /\ mRootNodesAddedWhileProcessing' =
                   Append(mRootNodesAddedWhileProcessing, folder)
            /\ mSameLineChain' = [mSameLineChain EXCEPT ![folder] = SameLineChainOfNew(folder)]
       ELSE UNCHANGED lineage
    /\ UNCHANGED <<mTemporary, mExpiryCount, doomed, mRunawayFeedStopped, passes>>

\* The same for a package without triggers: the folder is unregistered and
\* deleted at once, even while a line is processed.
InstallPackageWithoutTriggers ==
    LET folder == mMaxID + 1 IN
    /\ LuaRuns
    /\ folder \in IDs
    /\ Cardinality(mPackageName) < MaxInstalls
    /\ ~mInstalledPackages
    /\ mInstalledPackages' = TRUE
    /\ mMaxID' = folder
    /\ mPackageName' = mPackageName \union {folder}
    /\ mTriggerRootNodeList' =
           Without(mTriggerRootNodeList, mTemporary) \o Only(mTriggerRootNodeList, mTemporary)
    /\ mRootNodesAddedWhileProcessing' =
           IF mProcessingDepth > 0 THEN Append(mRootNodesAddedWhileProcessing, 0)
                                   ELSE mRootNodesAddedWhileProcessing
    /\ UNCHANGED <<mTriggerMap, mAncestors, mTemporary, actives, mExpiryCount, doomed,
                   mSameLineChain, mRunawayFeedStopped, passes>>

-----------------------------------------------------------------------------
(***************************************************************************)
(* What a script may do to the triggers there are.                         *)
(***************************************************************************)
\* Mutant: enableTrigger() before it skipped what is waiting to be freed.
EnableAnyTrigger(t) ==
    /\ LuaRuns
    /\ mActive' = mActive \union {t}
    /\ mUserActiveState' = mUserActiveState \union {t}
    /\ UNCHANGED <<items, mExpiryCount, mTriggerRootNodeList, doomed, lineage,
                   mRunawayFeedStopped, mInstalledPackages, passes>>

\* enableTrigger() skips what is waiting to be freed.
EnableTrigger(t) ==
    /\ LuaRuns
    /\ t \notin mCleanupSet /\ t \notin Elements(uninstallList)
    /\ mActive' = mActive \union {t}
    /\ mUserActiveState' = mUserActiveState \union {t}
    /\ UNCHANGED <<items, mExpiryCount, mTriggerRootNodeList, doomed, lineage,
                   mRunawayFeedStopped, mInstalledPackages, passes>>

DisableTrigger(t) ==
    /\ LuaRuns
    /\ mActive' = mActive \ {t}
    /\ mUserActiveState' = mUserActiveState \ {t}
    /\ UNCHANGED <<items, mExpiryCount, mTriggerRootNodeList, doomed, lineage,
                   mRunawayFeedStopped, mInstalledPackages, passes>>

\* killTrigger() is for temporary triggers that are not going away already.
KillTrigger(t) ==
    /\ LuaRuns
    /\ t \in mTemporary
    /\ ~PendingDeletion(t)
    /\ mActive' = mActive \ {t}
    /\ mUserActiveState' = mUserActiveState \ {t}
    /\ mCleanupSet' = mCleanupSet \union {t}
    /\ UNCHANGED <<items, mExpiryCount, mTriggerRootNodeList, uninstallList, lineage,
                   mRunawayFeedStopped, mInstalledPackages, passes>>

-----------------------------------------------------------------------------
(***************************************************************************)
(* Freeing.  A destructor unregisters its trigger from every container and *)
(* deletes the children.                                                   *)
(***************************************************************************)
\* What doCleanup() frees when it runs, children included.
Doomed ==
    LET named == mCleanupSet \union Elements(uninstallList)
    IN  named \union Descendants(named)

\* unregisterTrigger() of every trigger in freed, and the end of its subtree.
Free(freed) ==
    /\ mTriggerMap' = mTriggerMap \ freed
    /\ mTemporary' = mTemporary \ freed
    /\ mActive' = mActive \ freed
    /\ mUserActiveState' = mUserActiveState \ freed
    /\ mAncestors' = [t \in IDs |-> IF t \in freed THEN {} ELSE mAncestors[t]]
    /\ mExpiryCount' = [t \in IDs |-> IF t \in freed THEN -1 ELSE mExpiryCount[t]]
    /\ mTriggerRootNodeList' = Without(mTriggerRootNodeList, freed)

DoCleanup ==
    /\ Free(Doomed)
    /\ mCleanupSet' = {}
    /\ uninstallList' = <<>>

\* The depth-first walk of the root list, children before their parent, that
\* uninstall() appends: where two branches part, the older node comes first.
ListedBefore(a, b) ==
    LET pathA == mAncestors[a] \union {a}
        pathB == mAncestors[b] \union {b}
    IN  \/ b \in mAncestors[a]
        \/ \E x \in pathA \ pathB : \A y \in pathB \ pathA : x < y
\* Mutant: every parent is queued ahead of its children.
ParentsFirst(S) ==
    [i \in 1..Cardinality(S) |->
        CHOOSE t \in S : Cardinality({u \in S : u # t /\ ~ListedBefore(u, t)}) = i - 1]
ChildrenFirst(S) ==
    [i \in 1..Cardinality(S) |->
        CHOOSE t \in S : Cardinality({u \in S : u # t /\ ListedBefore(u, t)}) = i - 1]
PackageTriggers ==
    LET folders == mPackageName \intersect Elements(mTriggerRootNodeList)
    IN  folders \union Descendants(folders)

\* Mutant: the package's triggers are deleted at once, line or no line.
UninstallPackageAtOnce ==
    /\ LuaRuns
    /\ mInstalledPackages
    /\ mInstalledPackages' = FALSE
    /\ Free(PackageTriggers)
    /\ mCleanupSet' = mCleanupSet \ PackageTriggers
    /\ UNCHANGED <<mMaxID, mPackageName, uninstallList, lineage, mRunawayFeedStopped, passes>>

\* uninstallPackage() once the package is found installed.  Between lines its
\* triggers are deleted at once; while one is processed they are switched off
\* and queued.
UninstallPackage ==
    /\ LuaRuns
    /\ mInstalledPackages
    /\ mInstalledPackages' = FALSE
    /\ IF mProcessingDepth = 0
       THEN /\ Free(PackageTriggers)
            /\ mCleanupSet' = mCleanupSet \ PackageTriggers
            /\ UNCHANGED uninstallList
       ELSE /\ uninstallList' = uninstallList \o ChildrenFirst(PackageTriggers)
            /\ mActive' = mActive \ Elements(uninstallList')
            /\ mUserActiveState' = mUserActiveState \ Elements(uninstallList')
            /\ mCleanupSet' = mCleanupSet \ Elements(uninstallList')
            /\ UNCHANGED <<mTriggerMap, mAncestors, mTemporary, mExpiryCount,
                           mTriggerRootNodeList>>
    /\ UNCHANGED <<mMaxID, mPackageName, lineage, mRunawayFeedStopped, passes>>

\* slot_purgeTemps(): the periodic cleanup of an offline profile.
PurgeTemps ==
    /\ passes = <<>>
    /\ DoCleanup
    /\ UNCHANGED <<mMaxID, mPackageName, lineage, mRunawayFeedStopped,
                   mInstalledPackages, passes>>

\* resetProfile_phase2(): all temporary triggers go, and whatever the user has
\* switched on comes back on.
ResetProfile ==
    LET freed == Doomed \union mTemporary \union Descendants(mTemporary) IN
    /\ passes = <<>>
    /\ mTriggerMap' = mTriggerMap \ freed
    /\ mTemporary' = {}
    /\ mUserActiveState' = mUserActiveState \ freed
    /\ mActive' = mUserActiveState'
    /\ mAncestors' = [t \in IDs |-> IF t \in freed THEN {} ELSE mAncestors[t]]
    /\ mExpiryCount' = [t \in IDs |-> IF t \in freed THEN -1 ELSE mExpiryCount[t]]
    /\ mTriggerRootNodeList' = Without(mTriggerRootNodeList, freed)
    /\ mCleanupSet' = {}
    /\ uninstallList' = <<>>
    /\ UNCHANGED <<mMaxID, mPackageName, lineage, mRunawayFeedStopped,
                   mInstalledPackages, passes>>

-----------------------------------------------------------------------------
(***************************************************************************)
(* A pass: processDataStream().  It pins the root list as it is, offers    *)
(* the line to every root in it, then to the roots registered since.       *)
(*   pinned  the roots as they were, and position the place of the last of *)
(*           them that was visited                                         *)
(*   first   how many roots outer passes had added before this one began   *)
(*   next    0 while the pinned roots are visited, then the place in       *)
(*           mRootNodesAddedWhileProcessing                                *)
(*   frames  the match() calls of this pass, outermost first               *)
(* A root that is passed over does not match, or a filter has ruled it out.*)
(* A history field, which no guard reads:                                  *)
(*   offered the roots that have had their turn, in that order             *)
(***************************************************************************)
StartPass ==
    passes' = Append(passes, [pinned |-> mTriggerRootNodeList, position |-> 0,
                              first |-> Len(mRootNodesAddedWhileProcessing),
                              next |-> 0, frames |-> <<>>, offered |-> <<>>])

ReceiveLine ==
    /\ passes = <<>>
    /\ StartPass
    /\ UNCHANGED <<items, actives, mExpiryCount, mTriggerRootNodeList, doomed, lineage,
                   mRunawayFeedStopped, mInstalledPackages>>

\* Mutant: only the feeds at the limit are refused.
FeedTriggersBelowLimit ==
    /\ ScriptRuns
    /\ IF mProcessingDepth >= MaxProcessingDepth
       THEN mRunawayFeedStopped' = TRUE /\ UNCHANGED passes
       ELSE StartPass /\ UNCHANGED mRunawayFeedStopped
    /\ UNCHANGED <<items, actives, mExpiryCount, mTriggerRootNodeList, doomed, lineage,
                   mInstalledPackages>>

\* A script feeds a line, unless a runaway chain of feeds is being unwound; at
\* the depth limit it gets an error instead.
FeedTriggers ==
    /\ ScriptRuns
    /\ ~mRunawayFeedStopped
    /\ IF mProcessingDepth >= MaxProcessingDepth
       THEN mRunawayFeedStopped' = TRUE /\ UNCHANGED passes
       ELSE StartPass /\ UNCHANGED mRunawayFeedStopped
    /\ UNCHANGED <<items, actives, mExpiryCount, mTriggerRootNodeList, doomed, lineage,
                   mInstalledPackages>>

\* match(): a folder has no pattern and lets the line through to its children;
\* another trigger that matches runs its script first.
MatchCall(t) ==
    [trigger |-> t,
     stage |-> IF t \in mPackageName THEN "children" ELSE "script",
     at |-> 0,
     expires |-> mExpiryCount[t] > 0]

SetPass(p) == passes' = [passes EXCEPT ![Len(passes)] = p]
SetFrame(f) == SetPass([Pass EXCEPT !.frames[Len(Pass.frames)] = f])

BetweenRoots == passes # <<>> /\ Pass.frames = <<>> /\ Pass.next = 0
BetweenAdded == passes # <<>> /\ Pass.frames = <<>> /\ Pass.next > 0
\* Mutant: one root too many is offered the line.
AddedLoopEndsLate ==
    \/ Pass.next > Len(mRootNodesAddedWhileProcessing)
    \/ Pass.next - 1 - Pass.first > MaxSameLineCreationsPerLine
AddedLoopEnds ==
    \/ Pass.next > Len(mRootNodesAddedWhileProcessing)
    \/ Pass.next - 1 - Pass.first >= MaxSameLineCreationsPerLine

OfferedUpTo(i) == Pass.offered \o SubSeq(Pass.pinned, Pass.position + 1, i)

MatchRoot ==
    /\ BetweenRoots
    /\ \E i \in (Pass.position + 1)..Len(Pass.pinned) :
          /\ IsActive(Pass.pinned[i])
          /\ SetPass([Pass EXCEPT !.position = i, !.offered = OfferedUpTo(i),
                                  !.frames = <<MatchCall(Pass.pinned[i])>>])
    /\ UNCHANGED <<items, actives, mExpiryCount, mTriggerRootNodeList, doomed, lineage,
                   mRunawayFeedStopped, mInstalledPackages>>

\* Mutant: the added list is walked from its start, outer passes' roots included.
EndOfRootsFromTheStart ==
    /\ BetweenRoots
    /\ SetPass([Pass EXCEPT !.position = Len(Pass.pinned),
                            !.offered = OfferedUpTo(Len(Pass.pinned)), !.next = 1])
    /\ UNCHANGED <<items, actives, mExpiryCount, mTriggerRootNodeList, doomed, lineage,
                   mRunawayFeedStopped, mInstalledPackages>>

EndOfRoots ==
    /\ BetweenRoots
    /\ SetPass([Pass EXCEPT !.position = Len(Pass.pinned),
                            !.offered = OfferedUpTo(Len(Pass.pinned)),
                            !.next = Pass.first + 1])
    /\ UNCHANGED <<items, actives, mExpiryCount, mTriggerRootNodeList, doomed, lineage,
                   mRunawayFeedStopped, mInstalledPackages>>

Added == mRootNodesAddedWhileProcessing[Pass.next]
OfferedToAdded == IF Added = 0 THEN Pass.offered ELSE Append(Pass.offered, Added)
BeyondGenerations(t) == mSameLineChain[t].generation > MaxSameLineGenerations

PassOverAdded ==
    /\ BetweenAdded /\ ~AddedLoopEnds
    /\ ~(Added # 0 /\ IsActive(Added) /\ BeyondGenerations(Added))
    /\ SetPass([Pass EXCEPT !.next = @ + 1, !.offered = OfferedToAdded])
    /\ UNCHANGED <<items, actives, mExpiryCount, mTriggerRootNodeList, doomed, lineage,
                   mRunawayFeedStopped, mInstalledPackages>>

MatchAdded ==
    /\ BetweenAdded /\ ~AddedLoopEnds
    /\ Added # 0 /\ IsActive(Added) /\ ~BeyondGenerations(Added)
    /\ SetPass([Pass EXCEPT !.next = @ + 1, !.offered = OfferedToAdded,
                            !.frames = <<MatchCall(Added)>>])
    /\ UNCHANGED <<items, actives, mExpiryCount, mTriggerRootNodeList, doomed, lineage,
                   mRunawayFeedStopped, mInstalledPackages>>

\* stopSameLineCreationLoop(): the whole lineage is stopped, wherever in the
\* list its members are; a permanent trigger keeps its saved state.
StopSameLineCreationLoop ==
    LET members == {t \in Elements(mRootNodesAddedWhileProcessing) \ {0} :
                       mSameLineChain[t].chain = mSameLineChain[Added].chain}
    IN
    /\ BetweenAdded /\ ~AddedLoopEnds
    /\ Added # 0 /\ IsActive(Added) /\ BeyondGenerations(Added)
    /\ mActive' = mActive \ members
    /\ mUserActiveState' = mUserActiveState \ (members \intersect mTemporary)
    /\ mCleanupSet' = mCleanupSet \union (members \intersect mTemporary)
    /\ SetPass([Pass EXCEPT !.next = @ + 1, !.offered = OfferedToAdded])
    /\ UNCHANGED <<items, mExpiryCount, mTriggerRootNodeList, uninstallList, lineage,
                   mRunawayFeedStopped, mInstalledPackages>>

\* The script returns.  One that may expire asks for another go by returning
\* true; whether it may was read before the script ran.
ScriptReturns ==
    /\ ScriptRuns
    /\ SetFrame([Frame EXCEPT !.stage = "children"])
    /\ \/ UNCHANGED mExpiryCount
       \/ /\ Frame.expires
          /\ mExpiryCount' = [mExpiryCount EXCEPT ![Frame.trigger] = @ + 1]
    /\ UNCHANGED <<items, actives, mTriggerRootNodeList, doomed, lineage,
                   mRunawayFeedStopped, mInstalledPackages>>

InChildren == passes # <<>> /\ Pass.frames # <<>> /\ Frame.stage = "children"

\* enterChildren(): down the live child list, which scripts may be extending.
MatchChild ==
    /\ InChildren
    /\ \E c \in Children(Frame.trigger) :
          /\ c > Frame.at
          /\ IsActive(c)
          /\ SetPass([Pass EXCEPT !.frames =
                         Append([@ EXCEPT ![Len(@)].at = c], MatchCall(c))])
    /\ UNCHANGED <<items, actives, mExpiryCount, mTriggerRootNodeList, doomed, lineage,
                   mRunawayFeedStopped, mInstalledPackages>>

\* match() ends.  The last firing of a trigger that expires queues it.
MatchReturns ==
    LET t == Frame.trigger IN
    /\ InChildren
    /\ SetPass([Pass EXCEPT !.frames = SubSeq(@, 1, Len(@) - 1)])
    /\ mExpiryCount' = [mExpiryCount EXCEPT ![t] = IF @ > -1 THEN @ - 1 ELSE @]
    /\ IF mExpiryCount[t] = 1
       THEN /\ mActive' = mActive \ {t}
            /\ mUserActiveState' = mUserActiveState \ {t}
            /\ mCleanupSet' = mCleanupSet \union {t}
       ELSE UNCHANGED <<actives, mCleanupSet>>
    /\ UNCHANGED <<items, mTriggerRootNodeList, uninstallList, lineage,
                   mRunawayFeedStopped, mInstalledPackages>>

\* The guard of processDataStream(): the end of the outermost pass forgets the
\* lineages and frees what was queued.
EndPass ==
    /\ BetweenAdded /\ AddedLoopEnds
    /\ passes' = SubSeq(passes, 1, Len(passes) - 1)
    /\ mRunawayFeedStopped' = (mRunawayFeedStopped /\ Len(passes) > 2)
    /\ IF Len(passes) > 1
       THEN UNCHANGED <<mTriggerMap, mAncestors, mTemporary, actives, mExpiryCount,
                        mTriggerRootNodeList, doomed, lineage>>
       ELSE /\ mSameLineChain' = [t \in IDs |-> NoChain]
            /\ mRootNodesAddedWhileProcessing' = <<>>
            /\ DoCleanup
    /\ UNCHANGED <<mMaxID, mPackageName, mInstalledPackages>>

-----------------------------------------------------------------------------
Init ==
    /\ mMaxID = 0
    /\ mTriggerMap = {} /\ mTemporary = {} /\ mPackageName = {}
    /\ mActive = {} /\ mUserActiveState = {}
    /\ mAncestors = [t \in IDs |-> {}]
    /\ mExpiryCount = [t \in IDs |-> -1]
    /\ mTriggerRootNodeList = <<>>
    /\ mCleanupSet = {} /\ uninstallList = <<>>
    /\ mRootNodesAddedWhileProcessing = <<>>
    /\ mSameLineChain = [t \in IDs |-> NoChain]
    /\ mRunawayFeedStopped = FALSE
    /\ mInstalledPackages = FALSE
    /\ passes = <<>>

LuaCall ==
    \/ \E e \in ExpiryCounts : TempTrigger(e)
    \/ \E p \in mTriggerMap \union {0} : PermTrigger(p)
    \/ \E t \in mTriggerMap : EnableTrigger(t) \/ DisableTrigger(t) \/ KillTrigger(t)
    \/ InstallPackage \/ InstallPackageWithoutTriggers \/ UninstallPackage

MatchStep ==
    \/ ReceiveLine \/ FeedTriggers
    \/ MatchRoot \/ EndOfRoots
    \/ PassOverAdded \/ MatchAdded \/ StopSameLineCreationLoop
    \/ ScriptReturns \/ MatchChild \/ MatchReturns
    \/ EndPass

Next == LuaCall \/ MatchStep \/ PurgeTemps \/ ResetProfile

Spec == Init /\ [][Next]_vars

-----------------------------------------------------------------------------
TypeOK ==
    /\ mMaxID \in 0..MaxTriggers
    /\ mTriggerMap \subseteq 1..mMaxID
    /\ mAncestors \in [IDs -> SUBSET IDs]
    /\ mTemporary \subseteq mTriggerMap
    /\ mPackageName \subseteq 1..mMaxID
    /\ mActive \subseteq mTriggerMap
    /\ mUserActiveState \subseteq mTriggerMap
    /\ mExpiryCount \in [IDs -> Int]
    /\ mTriggerRootNodeList \in Seq(IDs)
    /\ mCleanupSet \subseteq IDs
    /\ uninstallList \in Seq(IDs)
    /\ mRootNodesAddedWhileProcessing \in Seq(IDs \union {0})
    /\ mSameLineChain \in [IDs -> [chain : Nat, generation : Nat]]
    /\ mRunawayFeedStopped \in BOOLEAN
    /\ mInstalledPackages \in BOOLEAN
    /\ passes \in Seq([pinned : Seq(IDs), position : Nat, first : Nat, next : Nat,
                       frames : Seq([trigger : IDs, stage : {"script", "children"},
                                     at : IDs \union {0}, expires : BOOLEAN]),
                       offered : Seq(IDs)])

\* No pointer outlives its trigger: the root list, the pinned snapshots and
\* match() calls of every pass on the stack, the added list and both queues of
\* deletions hold existing triggers only (TriggerUnit.cpp 88-94, 930-936).
NoDanglingPointers ==
    /\ Elements(mTriggerRootNodeList) \subseteq mTriggerMap
    /\ Elements(mRootNodesAddedWhileProcessing) \ {0} \subseteq mTriggerMap
    /\ mCleanupSet \subseteq mTriggerMap
    /\ Elements(uninstallList) \subseteq mTriggerMap
    /\ \A t \in mTriggerMap : mAncestors[t] \subseteq mTriggerMap
    /\ \A n \in DOMAIN passes :
          /\ Elements(passes[n].pinned) \subseteq mTriggerMap
          /\ \A k \in DOMAIN passes[n].frames : passes[n].frames[k].trigger \in mTriggerMap

\* Where the first of uninstallList's entries for t is.
FirstEntry(t) ==
    CHOOSE i \in DOMAIN uninstallList :
        uninstallList[i] = t /\ \A j \in 1..(i - 1) : uninstallList[j] # t

\* The triggers doCleanup() would delete although the delete of a parent has
\* freed them: it goes through mCleanupSet in any order, then through
\* uninstallList, and skips only what it has itself named before.
FreedTwice ==
    {t \in mCleanupSet : mAncestors[t] \intersect mCleanupSet # {}}
    \union
    {t \in Elements(uninstallList) \ mCleanupSet :
        \/ mAncestors[t] \intersect mCleanupSet # {}
        \/ \E a \in mAncestors[t] \intersect Elements(uninstallList) :
              FirstEntry(a) < FirstEntry(t)}

\* doCleanup() frees no trigger twice (TriggerUnit.cpp 1373-1387).
CleanupFreesOnce == FreedTwice = {}

\* A trigger that is waiting to be freed is switched off and stays off until it
\* is freed, so no later root, child or nested pass fires it again: nothing
\* brings back an expired, killed or uninstalled trigger (1210-1216, 2234-2245).
NothingPendingIsActive ==
    \A t \in mCleanupSet \union Elements(uninstallList) : ~IsActive(t)

\* The roots registered on the line after the top pass began, too many of them
\* to be offered that line.
BeyondCap ==
    LET added == mRootNodesAddedWhileProcessing
    IN  {added[i] : i \in {j \in DOMAIN added :
                                j > Pass.first + MaxSameLineCreationsPerLine}}

\* By the time a pass ends every root has had its turn on that pass's line,
\* whatever its scripts and the passes nested in it have registered, and none has
\* had it twice; only the roots registered beyond the cap, and all of those, are
\* not offered the line (TriggerUnit.cpp 963-970, 1095-1100).
EveryRootOfferedOnce ==
    [][Len(passes') < Len(passes) =>
          /\ Distinct(Pass.offered)
          /\ Elements(Pass.offered) \intersect BeyondCap = {}
          /\ Elements(mTriggerRootNodeList) \subseteq Elements(Pass.offered) \union BeyondCap]_vars

\* Once a runaway chain of feeds is stopped, passes only end until the outermost
\* one is back, and from there scripts may feed again (TriggerUnit.h 117-121).
RunawayUnwinds ==
    [][mRunawayFeedStopped =>
          /\ Len(passes') <= Len(passes)
          /\ mRunawayFeedStopped' <=> Len(passes') > 1]_vars

=============================================================================
