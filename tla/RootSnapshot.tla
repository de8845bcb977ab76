---------------------------- MODULE RootSnapshot ----------------------------
(***************************************************************************)
(* The snapshot of the root triggers that processDataStream() walks        *)
(* (TriggerUnit.cpp, TriggerUnit.h).  A pass pins the snapshot that is     *)
(* current when it begins.  Later changes to the root list are queued, and *)
(* the next pass to begin patches the snapshot with them, or builds a new  *)
(* one when a pass still pins it or positions have moved.                  *)
(*                                                                         *)
(* Beside each root the snapshot keeps a copy of what decides whether the  *)
(* root can match a line at all (its filter), so that most roots are       *)
(* passed over without being touched.  A change of what the copy was made  *)
(* from goes through refile(), which bumps mRootFilterEpoch; a pass that   *)
(* sees another epoch than at its start stops using the copies.  Here each *)
(* pass has the flag trusts for "the epoch is the one it started with".    *)
(*                                                                         *)
(* A trigger that is deleted gives its name back: the next trigger may get *)
(* its address.  Positions start at 1, and a slot holding None is a hole.  *)
(***************************************************************************)
EXTENDS RootLists, Integers, FiniteSets

CONSTANTS
    Triggers,
    None,                       \* nullptr
    Filters,                    \* the values of rootFilter()
    MinimumIndexedTriggers,     \* scmMinimumIndexedTriggers
    Visit,                      \* the filter that dismisses no line
    MaxProcessingDepth,         \* bound: nested passes
    MaxSlots,                   \* bound: slots that patching takes a snapshot to
    MaxNestedSlots              \* bound: the same, while a pass is nested in another

ASSUME RootSnapshotAssumption ==
    /\ None \notin Triggers
    /\ Visit \in Filters
    /\ MinimumIndexedTriggers \in Nat
    /\ MaxProcessingDepth \in Nat
    /\ MaxSlots \in Nat
    /\ MaxNestedSlots \in Nat

VARIABLES
    mTriggerRootNodeList,
    rootFilter,                 \* what rootFilter() returns for each trigger now
    mRootSnapshotPosition,
    snapshots,                  \* the RootNodeSnapshot objects, by address
    mpRootNodeSnapshot,         \* the address of the current one
    mRootNodeSnapshotStale,
    mRootNodeSnapshotNeedsRebuild,
    mRootNodesAppended,
    mRootNodesRemoved,
    mRootNodesRefiled,
    passes                      \* [snapshot, position, trusts], outermost first

queues == <<mRootNodeSnapshotStale, mRootNodeSnapshotNeedsRebuild,
            mRootNodesAppended, mRootNodesRemoved, mRootNodesRefiled>>
current == <<snapshots, mpRootNodeSnapshot>>
vars == <<mTriggerRootNodeList, rootFilter, mRootSnapshotPosition, current, queues, passes>>

NeverSnapshotted == -1          \* scmNeverSnapshotted
Dropped == -2                   \* scmSnapshotPositionDropped

\* One object more than there can be passes to pin one.
Addresses == 1..(MaxProcessingDepth + 1)
EmptySnapshot == [children |-> <<>>, filters |-> <<>>, holes |-> 0]

Largest(a, b) == IF a > b THEN a ELSE b

Snapshot == snapshots[mpRootNodeSnapshot]
Pinned(a) == \E n \in DOMAIN passes : passes[n].snapshot = a

-----------------------------------------------------------------------------
(***************************************************************************)
(* Changes to the root list.                                               *)
(***************************************************************************)
QueueAppended(t) ==
    /\ mRootNodeSnapshotStale' = TRUE
    /\ mRootNodesAppended' = IF mRootNodeSnapshotNeedsRebuild THEN mRootNodesAppended
                             ELSE Append(mRootNodesAppended, t)
    /\ UNCHANGED <<mRootNodeSnapshotNeedsRebuild, mRootNodesRemoved, mRootNodesRefiled>>

\* addTriggerRootNode() at the end of the list: a trigger that is created, or
\* moved out from under a parent.
AppendRoot(t) ==
    /\ t \notin Elements(mTriggerRootNodeList)
    /\ Len(Snapshot.children) + Len(mRootNodesAppended)
           < IF Len(passes) > 1 THEN MaxNestedSlots ELSE MaxSlots
    /\ mTriggerRootNodeList' = Append(mTriggerRootNodeList, t)
    /\ QueueAppended(t)
    /\ UNCHANGED <<rootFilter, mRootSnapshotPosition, current, passes>>

QueueReordered ==
    /\ mRootNodeSnapshotStale' = TRUE
    /\ mRootNodeSnapshotNeedsRebuild' = TRUE
    /\ UNCHANGED <<mRootNodesAppended, mRootNodesRemoved, mRootNodesRefiled>>

\* addTriggerRootNode() ahead of the root at position i.
InsertRoot(t, i) ==
    /\ t \notin Elements(mTriggerRootNodeList)
    /\ mTriggerRootNodeList' = SubSeq(mTriggerRootNodeList, 1, i - 1) \o <<t>>
                               \o SubSeq(mTriggerRootNodeList, i, Len(mTriggerRootNodeList))
    /\ QueueReordered
    /\ UNCHANGED <<rootFilter, mRootSnapshotPosition, current, passes>>

\* reorderTriggersAfterPackageImport(): the temporary triggers, a subset of the
\* roots, go to the end in the order they have.
ReorderRoots(temporary) ==
    /\ mTriggerRootNodeList' =
           Without(mTriggerRootNodeList, temporary) \o Only(mTriggerRootNodeList, temporary)
    /\ QueueReordered
    /\ UNCHANGED <<rootFilter, mRootSnapshotPosition, current, passes>>

\* markRootNodeRemoved().  after is the position left with the trigger.
QueueRemoved(t, after) ==
    /\ mRootNodeSnapshotStale' = TRUE
    /\ mRootSnapshotPosition' = [mRootSnapshotPosition EXCEPT ![t] = after]
    /\ IF mRootNodeSnapshotNeedsRebuild
       THEN UNCHANGED <<mRootNodesAppended, mRootNodesRemoved>>
       ELSE IF mRootSnapshotPosition[t] > 0
       THEN /\ mRootNodesRemoved' = mRootNodesRemoved \union {mRootSnapshotPosition[t]}
            /\ UNCHANGED mRootNodesAppended
       ELSE /\ mRootNodesAppended' = Without(mRootNodesAppended, {t})
            /\ UNCHANGED mRootNodesRemoved
    /\ UNCHANGED <<mRootNodeSnapshotNeedsRebuild, mRootNodesRefiled>>

\* reParentTrigger(): the root becomes a child, or is about to move elsewhere.
RemoveRoot(t) ==
    /\ t \in Elements(mTriggerRootNodeList)
    /\ mTriggerRootNodeList' = Without(mTriggerRootNodeList, {t})
    /\ QueueRemoved(t, Dropped)
    /\ UNCHANGED <<rootFilter, current, passes>>

\* The root is deleted, which happens only when no pass has it pinned, and
\* its address goes to a new trigger that no snapshot knows.
DeleteRoot(t) ==
    /\ t \in Elements(mTriggerRootNodeList)
    /\ \A n \in DOMAIN passes : t \notin Elements(snapshots[passes[n].snapshot].children)
    /\ mTriggerRootNodeList' = Without(mTriggerRootNodeList, {t})
    /\ QueueRemoved(t, NeverSnapshotted)
    /\ rootFilter' = [rootFilter EXCEPT ![t] = Visit]
    /\ UNCHANGED <<current, passes>>

\* The same for a child: only its address changes hands.
DeleteChild(t) ==
    /\ t \notin Elements(mTriggerRootNodeList)
    /\ \A n \in DOMAIN passes : t \notin Elements(snapshots[passes[n].snapshot].children)
    /\ mRootSnapshotPosition' = [mRootSnapshotPosition EXCEPT ![t] = NeverSnapshotted]
    /\ rootFilter' = [rootFilter EXCEPT ![t] = Visit]
    /\ UNCHANGED <<mTriggerRootNodeList, current, queues, passes>>

\* Mutant: a trigger that is no root at present is not refiled.
RefileListed(t, f) ==
    LET position == mRootSnapshotPosition[t] IN
    /\ rootFilter' = [rootFilter EXCEPT ![t] = f]
    /\ IF position < 0
       THEN UNCHANGED <<mRootNodeSnapshotStale, mRootNodesRefiled, passes>>
       ELSE /\ passes' = [n \in DOMAIN passes |-> [passes[n] EXCEPT !.trusts = FALSE]]
            /\ mRootNodeSnapshotStale' = TRUE
            /\ mRootNodesRefiled' = IF mRootNodeSnapshotNeedsRebuild THEN mRootNodesRefiled
                                    ELSE mRootNodesRefiled \union {position}
    /\ UNCHANGED <<mTriggerRootNodeList, mRootSnapshotPosition, current,
                   mRootNodeSnapshotNeedsRebuild, mRootNodesAppended, mRootNodesRemoved>>

\* refile(): something rootFilter() reads has changed, to f.
Refile(t, f) ==
    LET position == mRootSnapshotPosition[t] IN
    /\ rootFilter' = [rootFilter EXCEPT ![t] = f]
    /\ IF position = NeverSnapshotted
       THEN UNCHANGED <<mRootNodeSnapshotStale, mRootNodesRefiled, passes>>
       ELSE /\ passes' = [n \in DOMAIN passes |-> [passes[n] EXCEPT !.trusts = FALSE]]
            /\ IF position > 0
               THEN /\ mRootNodeSnapshotStale' = TRUE
                    /\ mRootNodesRefiled' =
                           IF mRootNodeSnapshotNeedsRebuild THEN mRootNodesRefiled
                           ELSE mRootNodesRefiled \union {position}
               ELSE UNCHANGED <<mRootNodeSnapshotStale, mRootNodesRefiled>>
    /\ UNCHANGED <<mTriggerRootNodeList, mRootSnapshotPosition, current,
                   mRootNodeSnapshotNeedsRebuild, mRootNodesAppended, mRootNodesRemoved>>

-----------------------------------------------------------------------------
(***************************************************************************)
(* refreshRootNodeSnapshot().                                              *)
(***************************************************************************)
\* Mutant: a snapshot is patched under the passes that pin it.
CanPatchPinned ==
    /\ ~mRootNodeSnapshotNeedsRebuild
    /\ Snapshot.holes < Largest(MinimumIndexedTriggers, Len(mTriggerRootNodeList))

CanPatch ==
    /\ ~Pinned(mpRootNodeSnapshot)
    /\ ~mRootNodeSnapshotNeedsRebuild
    /\ Snapshot.holes < Largest(MinimumIndexedTriggers, Len(mTriggerRootNodeList))

\* Mutant: what was queued for refiling is dropped.
PatchedWithoutRefiling ==
    [children |-> [i \in DOMAIN Snapshot.children |->
                      IF i \in mRootNodesRemoved THEN None ELSE Snapshot.children[i]]
                  \o mRootNodesAppended,
     filters |-> Snapshot.filters \o [i \in DOMAIN mRootNodesAppended |->
                                         rootFilter[mRootNodesAppended[i]]],
     holes |-> Snapshot.holes + Cardinality(mRootNodesRemoved)]

\* Removed slots become holes, refiled ones get a new copy of the filter, and
\* the appended triggers take new slots at the end.
PatchedSnapshot ==
    LET kept == [i \in DOMAIN Snapshot.children |->
                    IF i \in mRootNodesRemoved THEN None ELSE Snapshot.children[i]]
        filters == [i \in DOMAIN kept |->
                       IF i \in mRootNodesRemoved THEN Visit
                       ELSE IF i \in mRootNodesRefiled /\ kept[i] # None
                       THEN rootFilter[kept[i]]
                       ELSE Snapshot.filters[i]]
    IN  [children |-> kept \o mRootNodesAppended,
         filters |-> filters \o [i \in DOMAIN mRootNodesAppended |->
                                    rootFilter[mRootNodesAppended[i]]],
         holes |-> Snapshot.holes + Cardinality(mRootNodesRemoved)]

RebuiltSnapshot ==
    [children |-> mTriggerRootNodeList,
     filters |-> [i \in DOMAIN mTriggerRootNodeList |-> rootFilter[mTriggerRootNodeList[i]]],
     holes |-> 0]

\* Where each trigger of new, a sequence of slots, is filed.  A trigger the
\* slots do not hold keeps the position it has.
Filed(slots) ==
    [t \in Triggers |->
        IF t \in Elements(slots) THEN CHOOSE i \in DOMAIN slots : slots[i] = t
                                 ELSE mRootSnapshotPosition[t]]

\* A snapshot that is not pinned is patched, or refilled where it is; a pinned
\* one is left to its passes, and another object takes its place.
RefreshRootNodeSnapshot ==
    /\ mpRootNodeSnapshot' =
           IF Pinned(mpRootNodeSnapshot) /\ ~CanPatch
           THEN CHOOSE a \in Addresses : ~Pinned(a)
           ELSE mpRootNodeSnapshot
    /\ snapshots' = [snapshots EXCEPT ![mpRootNodeSnapshot'] =
                         IF CanPatch THEN PatchedSnapshot ELSE RebuiltSnapshot]
    /\ mRootSnapshotPosition' = Filed(snapshots'[mpRootNodeSnapshot'].children)
    /\ mRootNodesAppended' = <<>>
    /\ mRootNodesRemoved' = {}
    /\ mRootNodesRefiled' = {}
    /\ mRootNodeSnapshotNeedsRebuild' = FALSE
    /\ mRootNodeSnapshotStale' = FALSE

-----------------------------------------------------------------------------
(***************************************************************************)
(* processDataStream(), as far as it reads the snapshot.                   *)
(***************************************************************************)
BeginPass ==
    /\ Len(passes) < MaxProcessingDepth
    /\ passes # <<>> => Len(Snapshot.children) <= MaxNestedSlots
    /\ IF mRootNodeSnapshotStale
       THEN RefreshRootNodeSnapshot
       ELSE UNCHANGED <<mRootSnapshotPosition, current, queues>>
    /\ passes' = Append(passes, [snapshot |-> mpRootNodeSnapshot', position |-> 0,
                                 trusts |-> TRUE])
    /\ UNCHANGED <<mTriggerRootNodeList, rootFilter>>

\* The walk goes on to one of the slots that are left, passing over those a
\* filter or the tree index rules out.
VisitRoot ==
    /\ passes # <<>>
    /\ \E i \in DOMAIN snapshots[passes[Len(passes)].snapshot].children :
          /\ i > passes[Len(passes)].position
          /\ passes' = [passes EXCEPT ![Len(passes)].position = i]
    /\ UNCHANGED <<mTriggerRootNodeList, rootFilter, mRootSnapshotPosition, current, queues>>

\* An object nobody holds any more is freed.
EndPass ==
    /\ passes # <<>>
    /\ passes' = SubSeq(passes, 1, Len(passes) - 1)
    /\ snapshots' = [a \in Addresses |->
                        IF a = mpRootNodeSnapshot \/ Pinned(a)' THEN snapshots[a]
                                                               ELSE EmptySnapshot]
    /\ UNCHANGED <<mTriggerRootNodeList, rootFilter, mRootSnapshotPosition,
                   mpRootNodeSnapshot, queues>>

-----------------------------------------------------------------------------
Init ==
    /\ mTriggerRootNodeList = <<>>
    /\ rootFilter = [t \in Triggers |-> Visit]
    /\ mRootSnapshotPosition = [t \in Triggers |-> NeverSnapshotted]
    /\ snapshots = [a \in Addresses |-> EmptySnapshot]
    /\ mpRootNodeSnapshot = 1
    /\ mRootNodeSnapshotStale = TRUE
    /\ mRootNodeSnapshotNeedsRebuild = TRUE
    /\ mRootNodesAppended = <<>>
    /\ mRootNodesRemoved = {}
    /\ mRootNodesRefiled = {}
    /\ passes = <<>>

Mutation ==
    \/ \E t \in Triggers :
          \/ AppendRoot(t) \/ RemoveRoot(t) \/ DeleteRoot(t) \/ DeleteChild(t)
          \/ \E i \in DOMAIN mTriggerRootNodeList : InsertRoot(t, i)
          \/ \E f \in Filters : Refile(t, f)
    \/ \E temporary \in SUBSET Elements(mTriggerRootNodeList) : ReorderRoots(temporary)

Next == Mutation \/ BeginPass \/ VisitRoot \/ EndPass

Spec == Init /\ [][Next]_vars

-----------------------------------------------------------------------------
\* What a pass would pin now, were it to begin without a refresh, is the root
\* list in its order, each root filed where it knows it is and under a current
\* filter: patching comes to the same as rebuilding (TriggerUnit.cpp 830-897).
SnapshotIsRootList ==
    ~mRootNodeSnapshotStale =>
        /\ Without(Snapshot.children, {None}) = mTriggerRootNodeList
        /\ \A i \in DOMAIN Snapshot.children : Snapshot.children[i] # None =>
              /\ mRootSnapshotPosition[Snapshot.children[i]] = i
              /\ Snapshot.filters[i] = rootFilter[Snapshot.children[i]]

\* A pass that still trusts the filters it pinned is right to: no trigger it
\* has yet to visit has changed since (TriggerUnit.cpp 778-786, 1042-1052).
TrustedFiltersAreCurrent ==
    \A n \in DOMAIN passes :
        LET pinned == snapshots[passes[n].snapshot] IN
        passes[n].trusts =>
            \A i \in DOMAIN pinned.children :
                i > passes[n].position /\ pinned.children[i] # None =>
                    pinned.filters[i] = rootFilter[pinned.children[i]]

\* A pass walks what it pinned: no change to the root list, and no refresh by
\* a nested pass, edits a snapshot that is pinned (TriggerUnit.cpp 945-953).
PinnedIsNeverEdited ==
    [][\A n \in DOMAIN passes \intersect DOMAIN passes' :
          snapshots'[passes[n].snapshot] = snapshots[passes[n].snapshot]]_vars

=============================================================================
