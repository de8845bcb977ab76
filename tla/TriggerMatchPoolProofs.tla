----------------------- MODULE TriggerMatchPoolProofs -----------------------
(***************************************************************************)
(* Proofs about TriggerMatchPool, for any number of slots, any chunk sizes *)
(* and any number of batches: claims, chunks and the job, and that the     *)
(* pool keeps what ForkJoin promises, as far as it is safety.              *)
(***************************************************************************)
EXTENDS TriggerMatchPool, FiniteSetTheorems, TLAPS

(* A product of naturals compared: what nonlinear arithmetic needs.        *)
LEMMA ProductMonotone ==
  ASSUME NEW a \in Nat, NEW b \in Nat, NEW d \in Nat, a <= b
  PROVE  d * a <= d * b
<1>1. PICK k \in Nat : b = a + k
  <2>1. b - a \in Nat /\ b = a + (b - a)
    OBVIOUS
  <2> QED BY <2>1
<1>2. d * b = d * a + d * k
  BY <1>1
<1>3. d * k \in Nat /\ d * a \in Nat
  BY <1>1
<1> QED BY <1>2, <1>3

(* The least number of parts of size d that hold n things.                 *)
LEMMA CeilDivBounds ==
  ASSUME NEW n \in Nat, NEW d \in Nat \ {0}
  PROVE  /\ CeilDiv(n, d) \in Nat
         /\ n <= d * CeilDiv(n, d)
         /\ d * CeilDiv(n, d) <= n + d - 1
<1> DEFINE q == (n + d - 1) \div d
<1>1. q \in Int /\ d * q <= n + d - 1 /\ n + d - 1 < d * q + d
  OBVIOUS
<1>2. q >= 0
  OBVIOUS
<1> QED BY <1>1, <1>2 DEF CeilDiv

(* However long the line's trigger list, it makes at most kMaxChunks       *)
(* chunks.                                                                 *)
LEMMA ChunksFit ==
  ASSUME NEW n \in Nat \ {0}
  PROVE  /\ ChunkSizeFor(n) \in Nat \ {0}
         /\ ChunkCountFor(n) \in 1 .. KMaxChunks
         /\ n <= ChunkSizeFor(n) * ChunkCountFor(n)
<1> DEFINE K == KMaxChunks
           size == ChunkSizeFor(n)
           count == ChunkCountFor(n)
<1>1. K \in Nat \ {0} /\ KChunkSize \in Nat \ {0}
  BY PoolAssumption
<1>2. size \in Nat \ {0} /\ CeilDiv(n, K) <= size
  <2>1. CeilDiv(n, K) \in Nat
    BY <1>1, CeilDivBounds
  <2>2. size = IF CeilDiv(n, K) > KChunkSize THEN CeilDiv(n, K) ELSE KChunkSize
    BY DEF ChunkSizeFor
  <2> HIDE DEF size
  <2> QED BY <1>1, <2>1, <2>2
<1>3. n <= K * size
  <2>1. K * CeilDiv(n, K) <= K * size
    BY <1>1, <1>2, CeilDivBounds, ProductMonotone
  <2>2. n <= K * CeilDiv(n, K) /\ CeilDiv(n, K) \in Nat
    BY <1>1, CeilDivBounds
  <2> QED BY <1>1, <1>2, <2>1, <2>2
<1>4. count \in Nat /\ n <= size * count /\ size * count <= n + size - 1
  BY <1>2, CeilDivBounds DEF ChunkCountFor
<1>5. count <= K
  <2>1. SUFFICES ASSUME count > K PROVE FALSE
    BY <1>1, <1>4
  <2>2. size * (K + 1) <= size * count
    BY <1>1, <1>2, <1>4, <2>1, ProductMonotone
  <2>3. size * (K + 1) = K * size + size
    BY <1>1, <1>2
  <2> HIDE DEF size, count
  <2> QED BY <1>1, <1>2, <1>3, <1>4, <2>2, <2>3
<1>6. count # 0
  <2>1. SUFFICES ASSUME count = 0 PROVE FALSE
    OBVIOUS
  <2>2. size * 0 = 0
    BY <1>2
  <2> HIDE DEF size, count
  <2> QED BY <1>4, <2>1, <2>2
<1> QED BY <1>2, <1>4, <1>5, <1>6, <1>1

-----------------------------------------------------------------------------
LEMMA ChunksTyped ==
  ASSUME NEW n \in Nat
  PROVE  ChunkSizeFor(n) \in Nat \ {0} /\ ChunkCountFor(n) \in Nat
<1>1. KMaxChunks \in Nat \ {0} /\ KChunkSize \in Nat \ {0}
  BY PoolAssumption
<1>2. CeilDiv(n, KMaxChunks) \in Nat
  BY <1>1, CeilDivBounds
<1>3. ChunkSizeFor(n) \in Nat \ {0}
  BY <1>1, <1>2 DEF ChunkSizeFor
<1> QED BY <1>3, CeilDivBounds DEF ChunkCountFor

LEMMA BumpedTyped ==
  ASSUME NEW c \in Cursors
  PROVE  Bumped(c) \in Cursors
<1>1. c.epoch \in Nat /\ c.count + 1 \in Nat /\ c.next + 1 \in Nat
  BY DEF Cursors
<1>2. [c EXCEPT !.next = @ + 1] \in Cursors
  BY <1>1 DEF Cursors
<1>3. [epoch |-> c.epoch, count |-> c.count + 1, next |-> 0] \in Cursors
  BY <1>1 DEF Cursors
<1> QED BY <1>2, <1>3 DEF Bumped

(* The matches of a chunk can be counted.                                  *)
LEMMA HitsFinite ==
  ASSUME TypeOK, NEW c \in Nat
  PROVE  Cardinality(mJob.hits \cap TriggersOf(c, mJob)) \in Nat
<1>1. IsFiniteSet(Triggers)
  BY FS_Interval, PoolAssumption DEF Triggers
<1>2. mJob.hits \subseteq Triggers
  BY DEF TypeOK
<1>3. IsFiniteSet(mJob.hits \cap TriggersOf(c, mJob))
  BY <1>1, <1>2, FS_Subset
<1> QED BY <1>3, FS_CardinalityType

LEMMA TypeInit == Init => TypeOK
<1> SUFFICES ASSUME Init PROVE TypeOK
  OBVIOUS
<1>1. mCursor \in Cursors /\ word \in [Slots -> Cursors]
  BY DEF Init, Cursors
<1>2. mJob \in [count : 0 .. MaxCount, chunkSize : Nat \ {0}, hits : SUBSET Triggers]
  BY PoolAssumption DEF Init
<1>3. /\ pc \in [Slots -> MainLabels \cup HelperLabels]
      /\ \A s \in Slots : pc[s] \in IF s = 0 THEN MainLabels ELSE HelperLabels
  BY DEF Init, MainLabels, HelperLabels
<1>4. /\ seen \in [Slots -> Nat] /\ chunk \in [Slots -> Nat]
      /\ asked \in [Triggers -> Nat]
  BY DEF Init
<1> QED BY <1>1, <1>2, <1>3, <1>4 DEF Init, TypeOK

LEMMA TypeStep == TypeOK /\ [Next]_vars => TypeOK'
<1> SUFFICES ASSUME TypeOK, [Next]_vars PROVE TypeOK'
  OBVIOUS
<1> USE DEF TypeOK, Goto, helperVars, batchVars, MainLabels, HelperLabels, WorkLabels
<1>0. 0 \in Slots /\ Helpers \subseteq Slots /\ 0 \notin Helpers
  BY PoolAssumption DEF Slots, Helpers
<1>a. ASSUME NEW s \in Slots, RunChunks(s) PROVE TypeOK'
  <2>1. CASE Claim(s)
    <3>1. Bumped(mCursor) \in Cursors /\ mCursor.next \in Nat /\ mCursor.epoch \in Nat
      BY BumpedTyped DEF Cursors
    <3> QED BY <2>1, <3>1 DEF Claim
  <2>2. CASE Search(s)
    BY <2>2 DEF Search
  <2>3. CASE AddMatches(s)
    BY <2>3, HitsFinite DEF AddMatches
  <2>4. CASE AddDone(s)
    BY <2>4 DEF AddDone
  <2> QED BY <1>a, <2>1, <2>2, <2>3, <2>4 DEF RunChunks
<1>b. ASSUME NEW h \in Helpers, Helper(h) PROVE TypeOK'
  <2>1. CASE CheckStop(h)
    BY <1>0, <2>1 DEF CheckStop
  <2>2. CASE Load(h)
    BY <1>0, <2>2 DEF Load
  <2>3. CASE Wait(h)
    BY <1>0, <2>3 DEF Wait
  <2>4. CASE Return(h)
    BY <1>0, <2>4 DEF Return
  <2> QED BY <1>0, <1>a, <1>b, <2>1, <2>2, <2>3, <2>4 DEF Helper
<1>c. CASE MainBusy
  <2>1. CASE ResetCounts
    BY <1>0, <2>1 DEF ResetCounts
  <2>2. CASE PublishBatch
    <3>1. ChunkCountFor(mJob.count) \in Nat
      BY ChunksTyped, PoolAssumption
    <3> QED BY <1>0, <2>2, <3>1 DEF PublishBatch, Store, Cursors
  <2>3. CASE NotifyBatch
    BY <1>0, <2>3 DEF NotifyBatch, NotifyAll, Slots
  <2>4. CASE Join
    BY <1>0, <2>4 DEF Join
  <2>5. CASE Collect
    BY <1>0, <2>5 DEF Collect
  <2>6. CASE PublishStop
    BY <1>0, <2>6 DEF PublishStop, Store, Cursors
  <2>7. CASE NotifyStop
    BY <1>0, <2>7 DEF NotifyStop, NotifyAll, Slots
  <2>8. CASE JoinHelpers
    <3>1. \A s \in Slots : pc'[s] = IF s # 0 THEN "absent"
                                   ELSE IF Quitting THEN "idle" ELSE "start"
      BY <2>8 DEF JoinHelpers
    <3>2. DOMAIN pc' = Slots /\ pc' = [s \in Slots |-> pc'[s]]
      BY <2>8 DEF JoinHelpers
    <3>3. pc' \in [Slots -> MainLabels \cup HelperLabels]
      BY <3>1, <3>2
    <3>4. mShutDown' \in BOOLEAN
      BY <2>8 DEF JoinHelpers, Quitting
    <3> QED BY <2>8, <3>1, <3>3, <3>4 DEF JoinHelpers
  <2>9. ASSUME NEW n \in 0 .. NumSlots - 1, StartHelpers(n) PROVE TypeOK'
    <3>1. mThreads' \in SUBSET Helpers
      BY <2>9, PoolAssumption DEF StartHelpers, Helpers
    <3>2. seen' \in [Slots -> Nat]
      BY <2>9 DEF StartHelpers, Cursors
    <3>3. \A s \in Slots : pc'[s] = IF s = 0 THEN "idle"
                                   ELSE IF s \in 1 .. n THEN "top" ELSE "absent"
      BY <2>9 DEF StartHelpers
    <3>4. pc' \in [Slots -> MainLabels \cup HelperLabels]
      BY <2>9, <3>3 DEF StartHelpers
    <3> QED BY <2>9, <3>1, <3>2, <3>3, <3>4 DEF StartHelpers
  <2> QED BY <1>0, <1>a, <1>c, <2>1, <2>2, <2>3, <2>4, <2>5, <2>6, <2>7, <2>8, <2>9
          DEF MainBusy
<1>d. CASE MainCall
  <2>1. ASSUME NEW n \in 1 .. MaxCount, NEW hits \in HitSets, Prescan(n, hits \cap 0 .. n - 1)
        PROVE  TypeOK'
    <3>1. ChunkSizeFor(n) \in Nat \ {0} /\ n \in 0 .. MaxCount
      BY ChunksTyped, PoolAssumption
    <3>2. hits \cap 0 .. n - 1 \subseteq Triggers
      BY PoolAssumption DEF Triggers
    <3> QED BY <1>0, <2>1, <3>1, <3>2 DEF Prescan
  <2>2. CASE PrescanDeclined
    BY <2>2 DEF PrescanDeclined, vars
  <2>3. ASSUME NEW quit \in BOOLEAN, StopHelpers(quit) \/ NoHelpersToStop(quit)
        PROVE  TypeOK'
    BY <1>0, <2>3 DEF StopHelpers, NoHelpersToStop
  <2> QED BY <1>d, <2>1, <2>2, <2>3 DEF MainCall
<1>e. CASE UNCHANGED vars
  BY <1>e DEF vars
<1> QED BY <1>b, <1>c, <1>d, <1>e DEF Next

(* Every variable keeps its type, for every number of slots and batches.   *)
THEOREM TypeCorrect == Spec => []TypeOK
BY TypeInit, TypeStep, PTL DEF Spec

-----------------------------------------------------------------------------
(* The inductive invariant.                                                *)

LEMMA SlotsFinite ==
  /\ IsFiniteSet(Slots)
  /\ Cardinality(Slots) = NumSlots
  /\ 0 \in Slots /\ Helpers = Slots \ {0}
<1>1. IsFiniteSet(Slots) /\ Cardinality(Slots) = NumSlots
  BY FS_Interval, PoolAssumption DEF Slots
<1> QED BY <1>1, PoolAssumption DEF Slots, Helpers

LEMMA SomeSlots ==
  ASSUME NEW S, S \subseteq Slots
  PROVE  /\ IsFiniteSet(S)
         /\ Cardinality(S) \in 0 .. NumSlots
         /\ S = {} <=> Cardinality(S) = 0
         /\ \A s \in Slots \ S : /\ Cardinality(S \cup {s}) = Cardinality(S) + 1
                                /\ Cardinality(S) < NumSlots
         /\ \A s \in S : Cardinality(S \ {s}) = Cardinality(S) - 1
<1>1. IsFiniteSet(S) /\ Cardinality(S) <= NumSlots
  BY SlotsFinite, FS_Subset
<1>2. Cardinality(S) \in Nat /\ (S = {} <=> Cardinality(S) = 0)
  BY <1>1, FS_CardinalityType, FS_EmptySet
<1>3. \A s \in Slots \ S : Cardinality(S \cup {s}) = Cardinality(S) + 1
  BY <1>1, FS_AddElement
<1>4. ASSUME NEW s \in Slots \ S PROVE Cardinality(S) < NumSlots
  <2>1. Cardinality(S \cup {s}) <= NumSlots
    BY SlotsFinite, FS_Subset
  <2> QED BY <1>2, <1>3, <2>1, PoolAssumption
<1>5. \A s \in S : Cardinality(S \ {s}) = Cardinality(S) - 1
  BY <1>1, FS_RemoveElement
<1> QED BY <1>1, <1>2, <1>3, <1>4, <1>5, PoolAssumption

LEMMA IInvInit == Init => IInv
<1> SUFFICES ASSUME Init PROVE IInv
  OBVIOUS
<1>1. TypeOK
  BY TypeInit
<1>2. Holders = {} /\ ~Published /\ 0 \in Slots
  BY SlotsFinite DEF Init, Holders, Holds, Published
<1>3. \A s \in Slots : pc[s] \in {"start", "absent"} /\ seen[s] = 0
  BY DEF Init
<1>4. mCursor.epoch = 0 /\ mCursor.next = 0 /\ mCursor.count = 0 /\ pc[0] = "start"
  BY <1>2 DEF Init
<1>5. EpochsSeen
  BY <1>3, <1>4 DEF EpochsSeen, Working, Holds
<1>6. LateClaims
  <2>1. Cardinality(Late) \in Nat
    BY SomeSlots, PoolAssumption DEF Late
  <2> QED BY <1>4, <2>1, PoolAssumption DEF LateClaims
<1>7. Quiet /\ Accounting /\ ChunkExclusive
  BY <1>2, <1>3, <1>4 DEF Quiet, Accounting, ChunkExclusive, Holds, Published
<1> QED BY <1>1, <1>5, <1>6, <1>7 DEF IInv

(* A claim.  While chunks are left it takes a new one; after that it is    *)
(* the slot's last on this batch.                                          *)
LEMMA ClaimStep ==
  ASSUME IInv, TypeOK', NEW s \in Slots, Claim(s)
  PROVE  IInv'
<1> USE DEF IInv
<1>1. /\ mCursor.epoch \in Nat /\ mCursor.count \in Nat /\ mCursor.next \in Nat
      /\ mDone \in Nat /\ seen \in [Slots -> Nat] /\ chunk \in [Slots -> Nat]
      /\ pc \in [Slots -> MainLabels \cup HelperLabels]
      /\ NumSlots \in Nat /\ KMaxChunks \in Nat
      /\ mCursor \in Cursors
  BY PoolAssumption DEF TypeOK, Cursors
<1>2. pc[s] = "claim" /\ ~Holds(s) /\ seen[s] < mCursor.epoch /\ s \notin Late
  BY <1>1 DEF Claim, EpochsSeen, Working, Holds, Late
<1>3. Late \subseteq Slots /\ Holders \subseteq Slots
  BY DEF Late, Holders
<1>4. mCursor.next < mCursor.count + NumSlots
  <2>1. Cardinality(Late) < NumSlots /\ Cardinality(Late) \in Nat
    <3>1. s \in Slots \ Late
      BY <1>2
    <3>2. Cardinality(Late) \in 0 .. NumSlots
      BY <1>3, SomeSlots
    <3>3. Cardinality(Late) < NumSlots
      BY <1>3, <3>1, SomeSlots
    <3> QED BY <1>1, <3>2, <3>3
  <2> QED BY <1>1, <2>1 DEF LateClaims
<1>5. mCursor' = [mCursor EXCEPT !.next = @ + 1]
  BY <1>1, <1>4, PoolAssumption DEF Claim, Bumped, LateClaims
<1>6. /\ mCursor'.epoch = mCursor.epoch /\ mCursor'.count = mCursor.count
      /\ mCursor'.next = mCursor.next + 1
  BY <1>1, <1>5 DEF Cursors
<1>7. \A t \in Slots : t # s => pc'[t] = pc[t] /\ seen'[t] = seen[t] /\ chunk'[t] = chunk[t]
  BY <1>1 DEF Claim, Goto
<1>8. CASE mCursor.next < mCursor.count
  <2>1. /\ chunk'[s] = mCursor.next /\ pc'[s] = "chunk" /\ seen' = seen
        /\ mJob' = mJob /\ mDone' = mDone
    BY <1>1, <1>8 DEF Claim, Goto, batchVars
  <2>2. Published /\ Published' /\ (pc[0] = pc'[0] \/ s = 0)
    BY <1>7, <1>8, <2>1, SlotsFinite, <1>1 DEF Quiet, Published
  <2>3. Holders' = Holders \cup {s} /\ s \notin Holders /\ Late' = Late
    BY <1>2, <1>6, <1>7, <2>1 DEF Holders, Holds, Late
  <2>4. EpochsSeen'
    BY <1>2, <1>6, <1>7, <2>1 DEF EpochsSeen, Working, Holds
  <2>5. LateClaims'
    BY <1>1, <1>3, <1>6, <1>8, <2>3, SomeSlots DEF LateClaims
  <2>6. Quiet'
    BY <1>1, <1>6, <1>7, <2>1, <2>2 DEF Quiet
  <2>7. Taken = mCursor.next /\ Taken' = mCursor.next + 1
    BY <1>1, <1>6, <1>8 DEF Taken
  <2>8. Cardinality(Holders') = Cardinality(Holders) + 1 /\ Cardinality(Holders) \in Nat
    BY <1>3, <2>3, SomeSlots
  <2>9. \A t \in Slots : (Holds(t) => chunk[t] < Taken)'
    BY <1>1, <1>7, <2>1, <2>7 DEF Accounting, Holds
  <2>10. Accounting'
    BY <1>1, <1>6, <2>1, <2>2, <2>7, <2>8, <2>9 DEF Accounting, Published
  <2>11. ChunkExclusive'
    BY <1>1, <1>7, <2>1, <2>7 DEF ChunkExclusive, Holds, Accounting
  <2> QED BY <2>4, <2>5, <2>6, <2>10, <2>11
<1>9. CASE mCursor.next >= mCursor.count
  <2>1. /\ seen'[s] = mCursor.epoch /\ pc'[s] = (IF s = 0 THEN "join" ELSE "top")
        /\ chunk' = chunk /\ mJob' = mJob /\ mDone' = mDone
    BY <1>1, <1>9 DEF Claim, Goto, batchVars
  <2>2. Published' = Published
    BY <1>1, <1>2, <1>7, <2>1, SlotsFinite DEF Published
  <2>3. Holders' = Holders /\ Late' = Late \cup {s}
    BY <1>2, <1>6, <1>7, <2>1 DEF Holders, Holds, Late
  <2>4. EpochsSeen'
    BY <1>1, <1>2, <1>6, <1>7, <2>1 DEF EpochsSeen, Working, Holds
  <2>5. LateClaims'
    <3>1. Cardinality(Late \cup {s}) = Cardinality(Late) + 1 /\ Cardinality(Late) \in Nat
      BY <1>2, <1>3, SomeSlots
    <3> QED BY <1>1, <1>6, <2>3, <3>1 DEF LateClaims
  <2>6. Quiet'
    BY <1>1, <1>6, <1>9, <2>2, <2>3 DEF Quiet
  <2>7. Taken' = Taken
    BY <1>1, <1>6, <1>9 DEF Taken
  <2>8. (pc[0] = "publish" <=> pc'[0] = "publish") /\ (pc[0] = "write" <=> pc'[0] = "write")
    BY <1>2, <1>7, <2>1, SlotsFinite
  <2>9. Accounting'
    BY <1>1, <1>2, <1>6, <1>7, <2>1, <2>2, <2>3, <2>7, <2>8 DEF Accounting, Holds
  <2>10. ChunkExclusive'
    BY <1>2, <1>7, <2>1 DEF ChunkExclusive, Holds
  <2> QED BY <2>4, <2>5, <2>6, <2>9, <2>10
<1> QED BY <1>1, <1>8, <1>9

(* Steps that leave the word, the job and every claim alone: the labels    *)
(* that matter stay as they are.                                           *)
Undisturbed ==
  /\ mCursor' = mCursor /\ seen' = seen
  /\ \A s \in Slots : /\ Working(s)' => Working(s)
                      /\ Holds(s)' <=> Holds(s)
                      /\ Holds(s) => chunk'[s] = chunk[s]

LEMMA UndisturbedStep ==
  ASSUME IInv, Undisturbed
  PROVE  /\ EpochsSeen' /\ LateClaims' /\ ChunkExclusive'
         /\ Holders' = Holders /\ Taken' = Taken
         /\ (\A s \in Slots : Holds(s) => chunk[s] < Taken)'
<1>1. Holders' = Holders /\ Late' = Late /\ Taken' = Taken
  BY DEF Undisturbed, Holders, Late, Taken
<1>2. EpochsSeen'
  BY DEF IInv, Undisturbed, EpochsSeen
<1>3. LateClaims'
  BY <1>1 DEF IInv, Undisturbed, LateClaims
<1>4. ChunkExclusive'
  BY DEF IInv, Undisturbed, ChunkExclusive
<1>5. (\A s \in Slots : Holds(s) => chunk[s] < Taken)'
  BY <1>1 DEF IInv, Undisturbed, Accounting
<1> QED BY <1>1, <1>2, <1>3, <1>4, <1>5

(* A participant on its chunk, up to counting it done.                     *)
LEMMA ChunkStep ==
  ASSUME IInv, TypeOK', NEW s \in Slots, Search(s) \/ AddMatches(s)
  PROVE  IInv'
<1>1. pc \in [Slots -> MainLabels \cup HelperLabels]
  BY DEF IInv, TypeOK
<1>2. /\ Holds(s) /\ Holds(s)' /\ pc'[s] \in {"matches", "done"}
      /\ \A t \in Slots : t # s => pc'[t] = pc[t]
      /\ mCursor' = mCursor /\ seen' = seen /\ chunk' = chunk
      /\ mDone' = mDone /\ mJob' = mJob
  BY <1>1 DEF Search, AddMatches, Goto, Holds
<1>3. Undisturbed
  BY <1>2 DEF Undisturbed, Working, Holds
<1>4. Published' = Published /\ (pc'[0] = pc[0] \/ pc'[0] \in {"matches", "done"})
  BY <1>2, SlotsFinite DEF Published, Holds
<1>5. Quiet' /\ Accounting'
  BY <1>2, <1>3, <1>4, UndisturbedStep DEF IInv, Quiet, Accounting, Published
<1> QED BY <1>3, <1>5, UndisturbedStep DEF IInv

LEMMA DoneStep ==
  ASSUME IInv, TypeOK', NEW s \in Slots, AddDone(s)
  PROVE  IInv'
<1>1. /\ pc \in [Slots -> MainLabels \cup HelperLabels] /\ mDone \in Nat
      /\ chunk \in [Slots -> Nat]
  BY DEF IInv, TypeOK
<1>2. /\ Holds(s) /\ ~Holds(s)' /\ pc'[s] = "claim" /\ pc[s] = "done"
      /\ \A t \in Slots : t # s => pc'[t] = pc[t] /\ chunk'[t] = chunk[t]
      /\ mCursor' = mCursor /\ seen' = seen
      /\ mDone' = mDone + 1 /\ mJob' = mJob
  BY <1>1 DEF AddDone, Goto, Holds
<1>3. /\ Holders' = Holders \ {s} /\ s \in Holders /\ Holders \subseteq Slots
      /\ Late' = Late /\ Taken' = Taken
  BY <1>2 DEF Holders, Holds, Late, Taken
<1>4. Cardinality(Holders') = Cardinality(Holders) - 1 /\ Cardinality(Holders) \in Nat
  BY <1>3, SomeSlots, PoolAssumption
<1>5. EpochsSeen'
  BY <1>2 DEF IInv, EpochsSeen, Working, Holds
<1>6. LateClaims'
  BY <1>2, <1>3 DEF IInv, LateClaims
<1>7. ChunkExclusive'
  BY <1>2 DEF IInv, ChunkExclusive, Holds
<1>8. Published /\ Published' /\ (pc'[0] = pc[0] \/ pc'[0] = "claim")
  BY <1>2, <1>3, SlotsFinite DEF IInv, Quiet, Published
<1>9. Quiet'
  BY <1>2, <1>8 DEF IInv, Quiet
<1>10. \A t \in Slots : (Holds(t) => chunk[t] < Taken)'
  BY <1>2, <1>3 DEF IInv, Accounting, Holds
<1>11. Accounting'
  BY <1>1, <1>2, <1>3, <1>4, <1>8, <1>10 DEF IInv, Accounting, Published
<1> QED BY <1>5, <1>6, <1>7, <1>9, <1>11 DEF IInv

(* A helper between batches.                                               *)
LEMMA IdleHelperStep ==
  ASSUME IInv, TypeOK', NEW h \in Helpers,
         CheckStop(h) \/ Load(h) \/ Wait(h) \/ Return(h)
  PROVE  IInv'
<1>1. /\ pc \in [Slots -> MainLabels \cup HelperLabels]
      /\ seen \in [Slots -> Nat] /\ mCursor.epoch \in Nat
  BY DEF IInv, TypeOK, Cursors
<1>2. h \in Slots /\ h # 0 /\ 0 \in Slots
  BY SlotsFinite
<1>3. /\ ~Holds(h) /\ ~Holds(h)'
      /\ \A t \in Slots : t # h => pc'[t] = pc[t]
      /\ pc'[h] = "claim" => seen[h] # mCursor.epoch
      /\ mCursor' = mCursor /\ seen' = seen /\ chunk' = chunk
      /\ mDone' = mDone /\ mJob' = mJob
  BY <1>1, <1>2 DEF CheckStop, Load, Wait, Return, Goto, Holds, batchVars
<1>4. Holders' = Holders /\ Late' = Late /\ Taken' = Taken
  BY <1>3 DEF Holders, Holds, Late, Taken
<1>5. EpochsSeen'
  BY <1>1, <1>2, <1>3 DEF IInv, EpochsSeen, Working, Holds
<1>6. LateClaims'
  BY <1>3, <1>4 DEF IInv, LateClaims
<1>7. ChunkExclusive'
  BY <1>3 DEF IInv, ChunkExclusive, Holds
<1>8. pc'[0] = pc[0] /\ Published' = Published
  BY <1>2, <1>3 DEF Published
<1>9. Quiet' /\ Accounting'
  BY <1>3, <1>4, <1>8 DEF IInv, Quiet, Accounting, Holds
<1> QED BY <1>5, <1>6, <1>7, <1>9 DEF IInv

(* The main thread between two states of one call that disturb no claim.   *)
LEMMA MainQuietStep ==
  ASSUME IInv, TypeOK',
         \/ ResetCounts \/ NotifyBatch \/ Join \/ Collect \/ NotifyStop
         \/ \E quit \in BOOLEAN : StopHelpers(quit) \/ NoHelpersToStop(quit)
         \/ \E n \in 1 .. MaxCount : \E hits \in HitSets : Prescan(n, hits \cap 0 .. n - 1)
  PROVE  IInv'
<1>1. /\ pc \in [Slots -> MainLabels \cup HelperLabels] /\ mDone \in Nat
      /\ 0 \in Slots /\ mCursor.count \in Nat /\ mCursor.next \in Nat
  BY SlotsFinite DEF IInv, TypeOK, Cursors
<1>2. CASE NotifyBatch \/ NotifyStop
  <2>1. /\ \A s \in Slots : pc'[s] = IF s = 0 THEN pc'[0] ELSE
                                     IF pc[s] = "asleep" THEN "wait" ELSE pc[s]
        /\ \/ pc[0] = "notify" /\ pc'[0] = "claim"
           \/ pc[0] \in {"stopNotify", "quitNotify"} /\ pc'[0] \in {"stopJoin", "quitJoin"}
        /\ mCursor' = mCursor /\ seen' = seen /\ chunk' = chunk
        /\ mDone' = mDone /\ mJob' = mJob
    <3>1. CASE NotifyBatch
      BY <1>1, <3>1 DEF NotifyBatch, NotifyAll, batchVars
    <3>2. CASE NotifyStop
      BY <1>1, <3>2 DEF NotifyStop, NotifyAll, Quitting, batchVars
    <3> QED BY <1>2, <3>1, <3>2
  <2>2. Undisturbed
    BY <2>1 DEF Undisturbed, Working, Holds
  <2>3. Published' = Published
    BY <2>1 DEF Published
  <2>4. Quiet' /\ Accounting'
    BY <2>1, <2>2, <2>3, UndisturbedStep DEF IInv, Quiet, Accounting, Published
  <2> QED BY <2>2, <2>4, UndisturbedStep DEF IInv
<1>3. CASE Join
  <2>1. /\ pc[0] = "join" /\ pc'[0] = "collect" /\ mDone = ChunkCountFor(mJob.count)
        /\ \A s \in Slots : s # 0 => pc'[s] = pc[s]
        /\ mCursor' = mCursor /\ seen' = seen /\ chunk' = chunk
        /\ mDone' = mDone /\ mJob' = mJob
    BY <1>1, <1>3 DEF Join, Goto, batchVars
  <2>2. Undisturbed
    BY <2>1 DEF Undisturbed, Working, Holds
  <2>3. Published /\ ~Published'
    BY <2>1 DEF Published
  <2>4. Holders = {}
    <3>1. Holders \subseteq Slots
      BY DEF Holders
    <3>2. Cardinality(Holders) \in 0 .. NumSlots
      BY <3>1, SomeSlots
    <3>3. Cardinality(Holders) \in Nat
      BY <3>2, PoolAssumption
    <3>4. mDone + Cardinality(Holders) = mDone
      BY <1>1, <2>1, <2>3 DEF IInv, Accounting, Quiet, Taken
    <3> QED BY <1>1, <3>1, <3>3, <3>4, SomeSlots
  <2>5. Quiet' /\ Accounting'
    BY <2>1, <2>2, <2>3, <2>4, UndisturbedStep DEF IInv, Quiet, Accounting, Published
  <2> QED BY <2>2, <2>5, UndisturbedStep DEF IInv
<1>4. ASSUME \/ ResetCounts \/ Collect
             \/ \E quit \in BOOLEAN : StopHelpers(quit) \/ NoHelpersToStop(quit)
             \/ \E n \in 1 .. MaxCount : \E hits \in HitSets :
                    Prescan(n, hits \cap 0 .. n - 1)
      PROVE  IInv'
  <2>1. /\ pc[0] \in {"idle", "write", "collect"}
        /\ pc'[0] \in {"idle", "write", "publish", "stop", "quit", "start"}
        /\ \A s \in Slots : s # 0 => pc'[s] = pc[s]
        /\ mCursor' = mCursor /\ seen' = seen /\ chunk' = chunk
    BY <1>1, <1>4 DEF ResetCounts, Collect, StopHelpers, NoHelpersToStop, Prescan,
                      Goto, batchVars
  <2>2. Undisturbed
    BY <2>1 DEF Undisturbed, Working, Holds
  <2>3. ~Published /\ ~Published'
    BY <2>1 DEF Published
  <2>4. pc'[0] = "publish" => pc[0] = "write" /\ mDone' = 0 /\ mJob' = mJob
    BY <1>1, <1>4 DEF ResetCounts, Collect, StopHelpers, NoHelpersToStop, Prescan,
                      Goto, batchVars
  <2>5. pc'[0] = "write" => mJob'.count > 0
    BY <1>1, <1>4 DEF ResetCounts, Collect, StopHelpers, NoHelpersToStop, Prescan,
                      Goto, batchVars
  <2>6. Quiet' /\ Accounting'
    BY <2>1, <2>2, <2>3, <2>4, <2>5, UndisturbedStep DEF IInv, Quiet, Accounting
  <2> QED BY <2>2, <2>6, UndisturbedStep DEF IInv
<1> QED BY <1>2, <1>3, <1>4

(* A new word, while no slot works.                                        *)
LEMMA PublishStep ==
  ASSUME IInv, TypeOK', PublishBatch \/ PublishStop
  PROVE  IInv'
<1>1. /\ pc \in [Slots -> MainLabels \cup HelperLabels] /\ mDone \in Nat
      /\ seen \in [Slots -> Nat] /\ mCursor.epoch \in Nat /\ 0 \in Slots
      /\ mJob.count \in Nat
  BY SlotsFinite, PoolAssumption DEF IInv, TypeOK, Cursors
<1>2. /\ mCursor'.epoch = mCursor.epoch + 1 /\ mCursor'.next = 0
      /\ mCursor'.count \in 0 .. KMaxChunks
      /\ \A s \in Slots : s # 0 => pc'[s] = pc[s]
      /\ seen' = seen /\ chunk' = chunk /\ mDone' = mDone /\ mJob' = mJob
      /\ \/ /\ pc[0] = "publish" /\ pc'[0] = "notify"
            /\ mCursor'.count = ChunkCountFor(mJob.count)
         \/ /\ pc[0] \in {"stop", "quit"} /\ pc'[0] \in {"stopNotify", "quitNotify"}
            /\ mCursor'.count = 0
  <2>1. CASE PublishBatch
    <3>1. mJob.count \in Nat \ {0}
      BY <1>1, <2>1 DEF PublishBatch, IInv, Accounting
    <3>2. ChunkCountFor(mJob.count) \in 0 .. KMaxChunks
      BY <3>1, ChunksFit, PoolAssumption
    <3> QED BY <1>1, <2>1, <3>2 DEF PublishBatch, Store, Goto, batchVars
  <2>2. CASE PublishStop
    BY <1>1, <2>2, PoolAssumption DEF PublishStop, Store, Goto, batchVars
  <2> QED BY <2>1, <2>2
<1>3. ~Published /\ Holders = {} /\ Holders' = {}
  BY <1>2 DEF IInv, Quiet, Published, Holders, Holds
<1>4. \A s \in Slots : ~Holds(s) /\ ~Holds(s)'
  BY <1>3 DEF Holders
<1>5. EpochsSeen'
  BY <1>1, <1>2, <1>4 DEF IInv, EpochsSeen
<1>6. LateClaims'
  <2>1. Late' \subseteq Slots
    BY DEF Late
  <2>2. Cardinality(Late') \in 0 .. NumSlots
    BY <2>1, SomeSlots
  <2> QED BY <1>2, <2>2, PoolAssumption DEF LateClaims
<1>7. Quiet'
  BY <1>2, <1>3 DEF Quiet, Published
<1>8. Taken' = 0
  BY <1>2, PoolAssumption DEF Taken
<1>9. Cardinality(Holders') = 0
  BY <1>3, FS_EmptySet
<1>10. Accounting'
  BY <1>1, <1>2, <1>3, <1>4, <1>8, <1>9 DEF IInv, Accounting, Published
<1>11. ChunkExclusive'
  BY <1>4 DEF ChunkExclusive
<1> QED BY <1>5, <1>6, <1>7, <1>10, <1>11 DEF IInv

(* A generation of helpers ends or begins.                                 *)
LEMMA ThreadsStep ==
  ASSUME IInv, TypeOK', JoinHelpers \/ \E n \in 0 .. NumSlots - 1 : StartHelpers(n)
  PROVE  IInv'
<1>1. /\ pc \in [Slots -> MainLabels \cup HelperLabels] /\ 0 \in Slots
      /\ seen \in [Slots -> Nat] /\ mCursor.epoch \in Nat
      /\ mCursor.count \in Nat /\ mCursor.next \in Nat
  BY SlotsFinite DEF IInv, TypeOK, Cursors
<1>2. /\ mCursor' = mCursor /\ chunk' = chunk /\ mDone' = mDone /\ mJob' = mJob
      /\ pc[0] \in {"start", "stopJoin", "quitJoin"} /\ pc'[0] \in {"idle", "start"}
      /\ \A s \in Slots : s # 0 => pc'[s] \in {"absent", "top"}
      /\ \A s \in Slots : seen'[s] \in {seen[s], mCursor.epoch}
  BY <1>1 DEF JoinHelpers, StartHelpers, batchVars
<1>3. ~Published /\ ~Published' /\ Holders' = {} /\ Taken' = Taken
      /\ \A s \in Slots : ~Holds(s)' /\ ~Working(s)'
  BY <1>2 DEF Published, Holders, Holds, Taken, Working
<1>4. EpochsSeen'
  BY <1>1, <1>2, <1>3 DEF IInv, EpochsSeen
<1>5. LateClaims'
  <2>1. Late \subseteq Late' /\ Late \subseteq Slots /\ Late' \subseteq Slots
    BY <1>2 DEF Late
  <2>2. Cardinality(Late) <= Cardinality(Late')
    BY <2>1, SomeSlots, FS_Subset
  <2>3. Cardinality(Late) \in 0 .. NumSlots /\ Cardinality(Late') \in 0 .. NumSlots
    BY <2>1, SomeSlots
  <2> QED BY <1>1, <1>2, <2>2, <2>3, PoolAssumption DEF IInv, LateClaims
<1>6. Quiet' /\ Accounting' /\ ChunkExclusive'
  BY <1>2, <1>3 DEF IInv, Quiet, Accounting, ChunkExclusive
<1> QED BY <1>4, <1>5, <1>6 DEF IInv

LEMMA IInvStep == IInv /\ [Next]_vars => IInv'
<1> SUFFICES ASSUME IInv, [Next]_vars PROVE IInv'
  OBVIOUS
<1>1. TypeOK'
  BY TypeStep DEF IInv
<1>2. ASSUME NEW s \in Slots, RunChunks(s) PROVE IInv'
  BY <1>1, <1>2, ClaimStep, ChunkStep, DoneStep DEF RunChunks
<1>3. ASSUME NEW h \in Helpers, Helper(h) PROVE IInv'
  BY <1>1, <1>2, <1>3, IdleHelperStep, SlotsFinite DEF Helper
<1>4. CASE MainBusy
  BY <1>1, <1>2, <1>4, SlotsFinite, MainQuietStep, PublishStep, ThreadsStep DEF MainBusy
<1>5. CASE MainCall
  <2>1. CASE PrescanDeclined
    BY <2>1 DEF PrescanDeclined, vars, IInv, TypeOK, EpochsSeen, LateClaims, Quiet,
      Accounting, ChunkExclusive, Holders, Late, Taken, Working, Holds, Published
  <2> QED BY <1>1, <1>5, <2>1, MainQuietStep DEF MainCall
<1>6. CASE UNCHANGED vars
  BY <1>6 DEF vars, IInv, TypeOK, EpochsSeen, LateClaims, Quiet,
      Accounting, ChunkExclusive, Holders, Late, Taken, Working, Holds, Published
<1> QED BY <1>3, <1>4, <1>5, <1>6 DEF Next

LEMMA InvariantHolds == Spec => []IInv
BY IInvInit, IInvStep, PTL DEF Spec

-----------------------------------------------------------------------------
(* While the main thread is outside a batch no helper holds a chunk: the   *)
(* plain memory of mJob is never written under a reader.                   *)
THEOREM JobNeverRaced == Spec => []NoJobRace
<1>1. IInv => NoJobRace
  BY SlotsFinite DEF IInv, Quiet, NoJobRace, Published, Holders
<1> QED BY <1>1, InvariantHolds, PTL

(* Two participants never work on the same chunk.                          *)
THEOREM ChunksExclusive == Spec => []ChunkExclusive
<1>1. IInv => ChunkExclusive
  BY DEF IInv
<1> QED BY <1>1, InvariantHolds, PTL

LEMMA FitsField == IInv => ClaimsFitField
<1> SUFFICES ASSUME IInv PROVE ClaimsFitField
  OBVIOUS
<1>1. mCursor.count \in Nat /\ mCursor.next \in Nat /\ mCursor.epoch \in Nat
      /\ seen \in [Slots -> Nat]
  BY DEF IInv, TypeOK, Cursors
<1>2. Late \subseteq Slots
  BY DEF Late
<1>3. Cardinality(Late) \in 0 .. NumSlots
  BY <1>2, SomeSlots
<1>4. mCursor.next <= mCursor.count + NumSlots
  BY <1>1, <1>3, PoolAssumption DEF IInv, LateClaims
<1>5. ASSUME NEW s \in Slots, pc[s] = "claim"
      PROVE  mCursor.next < mCursor.count + NumSlots
  <2>1. s \in Slots \ Late
    BY <1>1, <1>5 DEF IInv, EpochsSeen, Working, Late
  <2>2. Cardinality(Late) < NumSlots
    BY <1>2, <2>1, SomeSlots
  <2> QED BY <1>1, <1>3, <2>2, PoolAssumption DEF IInv, LateClaims
<1> QED BY <1>4, <1>5 DEF ClaimsFitField, IInv, LateClaims

(* The chunk index never carries into the chunk count, however many late   *)
(* claims there are.                                                       *)
THEOREM ClaimsNeverCarry == Spec => []ClaimsFitField
BY FitsField, InvariantHolds, PTL

(* No helper, of this generation or the next, takes the batch it has seen, *)
(* or the stopping batch, for new work.                                    *)
THEOREM StaleWorkNever == Spec => []NoStaleWork
<1>1. IInv => NoStaleWork
  BY SlotsFinite DEF IInv, EpochsSeen, Working, NoStaleWork
<1> QED BY <1>1, InvariantHolds, PTL

(* A chunk in hand belongs to the batch the main thread is still joining.  *)
THEOREM HeldChunksCurrent == Spec => []HeldChunksAreCurrent
<1>1. IInv => HeldChunksAreCurrent
  <2> SUFFICES ASSUME IInv, NEW s \in Slots, Holds(s)
               PROVE  /\ chunk[s] < mCursor.count
                      /\ mCursor.count = ChunkCountFor(mJob.count)
                      /\ Published
    BY DEF HeldChunksAreCurrent
  <2>1. Published
    BY DEF IInv, Quiet, Holders
  <2>2. chunk[s] < Taken /\ chunk[s] \in Nat
        /\ mCursor.count \in Nat /\ mCursor.next \in Nat
    BY DEF IInv, Accounting, TypeOK, Cursors
  <2> QED BY <2>1, <2>2 DEF IInv, Accounting, Taken
<1> QED BY <1>1, InvariantHolds, PTL
-----------------------------------------------------------------------------
(* The promise of ForkJoin.                                                *)

Batch == 0 .. mJob.count - 1

(* The trigger is in a chunk that was taken, in one that a slot is about   *)
(* to search, in one whose matches a slot is about to add.                 *)
Cut(i)       == i < mJob.chunkSize * Taken
Searching(i) == \E s \in Slots : pc[s] = "chunk" /\ i \in TriggersOf(chunk[s], mJob)
Adding(i)    == \E s \in Slots : pc[s] = "matches" /\ i \in TriggersOf(chunk[s], mJob)

Counted == {i \in mJob.hits : Cut(i) /\ ~Searching(i) /\ ~Adding(i)}

(* A trigger of the batch has its verdict once its chunk was taken and     *)
(* searched, and the matches counted are those of the chunks whose slots   *)
(* are through with them.                                                  *)
Answers ==
  /\ mJob.hits \subseteq Batch
  /\ pc[0] \in {"write", "publish"} => \A i \in Triggers : asked[i] = 0
  /\ pc[0] = "publish" => mMatchesDone = 0
  /\ pc[0] \in {"write", "publish"} \/ Published =>
       mJob.chunkSize = ChunkSizeFor(mJob.count)
  /\ Published =>
       /\ \A i \in Triggers :
            asked[i] = IF i \in Batch /\ Cut(i) /\ ~Searching(i) THEN 1 ELSE 0
       /\ mMatchesDone = Cardinality(Counted)
  /\ pc[0] = "collect" => /\ \A i \in Batch : asked[i] = 1
                          /\ mMatchesDone = Cardinality(mJob.hits)

LEMMA JobTyped ==
  ASSUME TypeOK
  PROVE  /\ mJob.count \in Nat /\ mJob.count <= MaxCount
         /\ mJob.chunkSize \in Nat \ {0} /\ mJob.hits \subseteq Triggers
         /\ mCursor.count \in Nat /\ mCursor.next \in Nat /\ Taken \in Nat
         /\ \A i : i \in Batch <=> i \in Nat /\ i < mJob.count
<1>1. /\ mJob.count \in 0 .. MaxCount /\ mJob.chunkSize \in Nat \ {0}
      /\ mJob.hits \in SUBSET Triggers
      /\ mCursor.count \in Nat /\ mCursor.next \in Nat
  BY DEF TypeOK, Cursors
<1> QED BY <1>1, PoolAssumption DEF Taken, Batch

LEMMA InChunk ==
  ASSUME TypeOK, NEW c \in Nat, NEW i
  PROVE  i \in TriggersOf(c, mJob) <=>
           /\ i \in Batch
           /\ mJob.chunkSize * c <= i
           /\ i < mJob.chunkSize * (c + 1)
<1> DEFINE size == mJob.chunkSize
           count == mJob.count
           begin == size * c
<1>1. /\ size \in Nat \ {0} /\ count \in Nat
      /\ i \in Batch <=> i \in Nat /\ i < count
  BY JobTyped
<1>2. begin \in Nat /\ c * size = begin /\ size * (c + 1) = begin + size
  <2> HIDE DEF size
  <2>1. size * c \in Nat
    BY <1>1
  <2>2. c * size = size * c
    BY <1>1
  <2>3. size * (c + 1) = size * c + size
    BY <1>1
  <2> QED BY <2>1, <2>2, <2>3
<1>3. TriggersOf(c, mJob) =
        begin .. (IF begin + size < count THEN begin + size ELSE count) - 1
  BY <1>2 DEF TriggersOf
<1> HIDE DEF size, count, begin
<1>4. i \in TriggersOf(c, mJob) <=> i \in Nat /\ i < count /\ begin <= i /\ i < begin + size
  BY <1>1, <1>2, <1>3
<1>5. i \in TriggersOf(c, mJob) <=> i \in Batch /\ begin <= i /\ i < size * (c + 1)
  BY <1>1, <1>2, <1>4
<1> QED BY <1>5 DEF size, begin

(* The chunks of a batch have no trigger in common.                        *)
LEMMA ChunksApart ==
  ASSUME TypeOK, NEW c \in Nat, NEW d \in Nat, c # d,
         NEW i \in TriggersOf(c, mJob)
  PROVE  i \notin TriggersOf(d, mJob)
<1>1. \A a, b \in Nat : a < b =>
        ~(i \in TriggersOf(a, mJob) /\ i \in TriggersOf(b, mJob))
  <2> SUFFICES ASSUME NEW a \in Nat, NEW b \in Nat, a < b,
                      i \in TriggersOf(a, mJob), i \in TriggersOf(b, mJob)
               PROVE  FALSE
    OBVIOUS
  <2> DEFINE left == mJob.chunkSize * (a + 1)
             right == mJob.chunkSize * b
  <2>1. i < left /\ right <= i /\ i \in Batch
    BY InChunk
  <2>2. left <= right
    BY JobTyped, ProductMonotone
  <2>3. left \in Nat /\ right \in Nat /\ i \in Nat
    BY <2>1, JobTyped
  <2> HIDE DEF left, right
  <2> QED BY <2>1, <2>2, <2>3
<1> QED BY <1>1

(* A chunk that is held was taken.                                         *)
LEMMA HeldIsCut ==
  ASSUME IInv, NEW s \in Slots, Holds(s), NEW i \in TriggersOf(chunk[s], mJob)
  PROVE  i \in Batch /\ Cut(i)
<1>1. chunk[s] \in Nat /\ chunk[s] < Taken /\ TypeOK
  BY DEF IInv, TypeOK, Accounting
<1> DEFINE left == mJob.chunkSize * (chunk[s] + 1)
           right == mJob.chunkSize * Taken
<1>2. i \in Batch /\ i < left
  BY <1>1, InChunk
<1>3. left <= right
  BY <1>1, JobTyped, ProductMonotone
<1>4. left \in Nat /\ right \in Nat /\ i \in Nat
  BY <1>1, <1>2, JobTyped
<1>5. i < right
  <2> HIDE DEF left, right
  <2> QED BY <1>2, <1>3, <1>4
<1> QED BY <1>2, <1>5 DEF Cut

(* The next chunk is what taking it adds.                                  *)
LEMMA NextChunk ==
  ASSUME TypeOK, NEW i \in Batch
  PROVE  /\ i < mJob.chunkSize * (Taken + 1) <=> Cut(i) \/ i \in TriggersOf(Taken, mJob)
         /\ ~(Cut(i) /\ i \in TriggersOf(Taken, mJob))
<1> DEFINE left == mJob.chunkSize * Taken
           right == mJob.chunkSize * (Taken + 1)
<1>1. left <= right
  BY JobTyped, ProductMonotone
<1>2. left \in Nat /\ right \in Nat /\ i \in Nat
  BY JobTyped
<1>3. i \in TriggersOf(Taken, mJob) <=> left <= i /\ i < right
  BY JobTyped, InChunk
<1>4. Cut(i) <=> i < left
  BY DEF Cut
<1> HIDE DEF left, right
<1>5. /\ i < right <=> Cut(i) \/ i \in TriggersOf(Taken, mJob)
      /\ ~(Cut(i) /\ i \in TriggersOf(Taken, mJob))
  BY <1>1, <1>2, <1>3, <1>4
<1> QED BY <1>5 DEF right

(* The sets of matches are finite.                                         *)
LEMMA MatchesFinite ==
  ASSUME TypeOK, NEW S, S \subseteq mJob.hits
  PROVE  IsFiniteSet(S)
<1>1. IsFiniteSet(Triggers)
  BY FS_Interval, PoolAssumption DEF Triggers
<1> QED BY <1>1, FS_Subset DEF TypeOK

(* Steps that touch neither the batch nor a search of it.                  *)
Untouched ==
  /\ mJob' = mJob /\ asked' = asked /\ mMatchesDone' = mMatchesDone
  /\ Published' => Published
  /\ pc'[0] \in {"write", "publish", "collect"} => pc'[0] = pc[0]

SearchesUntouched ==
  \A s \in Slots :
    /\ pc'[s] = "chunk" <=> pc[s] = "chunk"
    /\ pc'[s] = "matches" <=> pc[s] = "matches"
    /\ pc[s] \in {"chunk", "matches"} => chunk'[s] = chunk[s]

LEMMA SearchesSame ==
  ASSUME mJob' = mJob, SearchesUntouched
  PROVE  \A i : (Searching(i)' <=> Searching(i)) /\ (Adding(i)' <=> Adding(i))
<1> SUFFICES ASSUME NEW i
             PROVE  (Searching(i)' <=> Searching(i)) /\ (Adding(i)' <=> Adding(i))
  OBVIOUS
<1>1. \A s \in Slots :
        (pc'[s] = "chunk" /\ i \in TriggersOf(chunk'[s], mJob')) <=>
        (pc[s] = "chunk" /\ i \in TriggersOf(chunk[s], mJob))
  BY DEF SearchesUntouched
<1>2. \A s \in Slots :
        (pc'[s] = "matches" /\ i \in TriggersOf(chunk'[s], mJob')) <=>
        (pc[s] = "matches" /\ i \in TriggersOf(chunk[s], mJob))
  BY DEF SearchesUntouched
<1>3. Searching(i)' <=> \E s \in Slots : pc'[s] = "chunk" /\ i \in TriggersOf(chunk'[s], mJob')
  BY DEF Searching, TriggersOf
<1>4. Adding(i)' <=> \E s \in Slots : pc'[s] = "matches" /\ i \in TriggersOf(chunk'[s], mJob')
  BY DEF Adding, TriggersOf
<1>5. Searching(i)' <=> Searching(i)
  BY <1>1, <1>3 DEF Searching
<1>6. Adding(i)' <=> Adding(i)
  BY <1>2, <1>4 DEF Adding
<1> QED BY <1>5, <1>6

LEMMA AnswersUntouched ==
  ASSUME Answers, Untouched, Published => Taken' = Taken /\ SearchesUntouched
  PROVE  Answers'
<1>1. Batch' = Batch
  BY DEF Untouched, Batch
<1>2. ASSUME Published'
      PROVE  /\ \A i \in Triggers :
                  asked'[i] = IF i \in Batch' /\ Cut(i)' /\ ~Searching(i)' THEN 1 ELSE 0
             /\ mMatchesDone' = Cardinality(Counted')
  <2>1. Published /\ Taken' = Taken /\ SearchesUntouched
    BY <1>2 DEF Untouched
  <2>2. \A i : (Searching(i)' <=> Searching(i)) /\ (Adding(i)' <=> Adding(i))
    BY <2>1, SearchesSame DEF Untouched
  <2>3. \A i : Cut(i)' <=> Cut(i)
    BY <2>1 DEF Cut, Untouched
  <2>4. Counted' = Counted
    BY <2>2, <2>3 DEF Counted, Untouched
  <2> QED BY <1>1, <2>1, <2>2, <2>3, <2>4 DEF Answers, Untouched
<1>3. (pc[0] \in {"write", "publish"} \/ Published)' =>
        pc[0] \in {"write", "publish"} \/ Published
  BY DEF Untouched
<1>4. mJob'.hits \subseteq Batch'
  BY <1>1 DEF Answers, Untouched
<1>5. pc'[0] \in {"write", "publish"} => \A i \in Triggers : asked'[i] = 0
  BY DEF Answers, Untouched
<1>6. pc'[0] = "publish" => mMatchesDone' = 0
  BY DEF Answers, Untouched
<1>7. (pc[0] \in {"write", "publish"} \/ Published)' =>
        mJob'.chunkSize = ChunkSizeFor(mJob'.count)
  BY <1>3 DEF Answers, Untouched
<1>8. pc'[0] = "collect" => /\ \A i \in Batch' : asked'[i] = 1
                            /\ mMatchesDone' = Cardinality(mJob'.hits)
  BY <1>1 DEF Answers, Untouched
<1> QED BY <1>2, <1>4, <1>5, <1>6, <1>7, <1>8 DEF Answers

(* A chunk that is claimed is cut and not searched yet: nothing new has    *)
(* its verdict.                                                            *)
LEMMA ClaimAnswers ==
  ASSUME IInv, Answers, NEW s \in Slots, Claim(s)
  PROVE  Answers'
<1>1. /\ TypeOK /\ pc \in [Slots -> MainLabels \cup HelperLabels]
      /\ chunk \in [Slots -> Nat] /\ mCursor \in Cursors /\ 0 \in Slots
      /\ mCursor.count \in Nat /\ mCursor.next \in Nat
  BY SlotsFinite, JobTyped DEF IInv, TypeOK
<1>2. ClaimsFitField
  BY FitsField
<1>3. /\ mCursor' = [mCursor EXCEPT !.next = @ + 1]
      /\ mCursor'.count = mCursor.count /\ mCursor'.next = mCursor.next + 1
  BY <1>1, <1>2, PoolAssumption DEF Claim, Bumped, ClaimsFitField, Cursors
<1>4. /\ pc[s] = "claim" /\ mJob' = mJob /\ asked' = asked
      /\ mMatchesDone' = mMatchesDone
      /\ \A t \in Slots : t # s => pc'[t] = pc[t] /\ chunk'[t] = chunk[t]
  BY <1>1 DEF Claim, Goto, batchVars
<1>5. CASE mCursor.next >= mCursor.count
  <2>1. pc'[s] = IF s = 0 THEN "join" ELSE "top"
    BY <1>1, <1>5 DEF Claim, Goto
  <2>2. SearchesUntouched
    BY <1>4, <2>1 DEF SearchesUntouched
  <2>3. Untouched
    BY <1>1, <1>4, <2>1 DEF Untouched, Published
  <2>4. Taken' = Taken
    BY <1>1, <1>3, <1>5 DEF Taken
  <2> QED BY <2>2, <2>3, <2>4, AnswersUntouched
<1>6. CASE mCursor.next < mCursor.count
  <2>1. /\ pc'[s] = "chunk" /\ chunk'[s] = Taken /\ Taken' = Taken + 1
        /\ Published /\ Published'
        /\ pc'[0] \notin {"write", "publish", "collect"}
    <3>1. pc'[s] = "chunk" /\ chunk'[s] = mCursor.next
      BY <1>1, <1>6 DEF Claim, Goto
    <3>2. Taken = mCursor.next /\ Taken' = mCursor.next + 1
      BY <1>1, <1>3, <1>6 DEF Taken
    <3>3. Published
      BY <1>1, <1>6 DEF IInv, Quiet
    <3> QED BY <1>1, <1>4, <3>1, <3>2, <3>3 DEF Published
  <2>2. Batch' = Batch
    BY <1>4 DEF Batch
  <2>3. ASSUME NEW i \in Batch
        PROVE  /\ Cut(i)' <=> Cut(i) \/ i \in TriggersOf(Taken, mJob)
               /\ ~(Cut(i) /\ i \in TriggersOf(Taken, mJob))
               /\ Searching(i)' <=> Searching(i) \/ i \in TriggersOf(Taken, mJob)
               /\ Adding(i)' <=> Adding(i)
    <3>1. Cut(i)' <=> i < mJob.chunkSize * (Taken + 1)
      BY <1>4, <2>1 DEF Cut
    <3>2. /\ Cut(i)' <=> Cut(i) \/ i \in TriggersOf(Taken, mJob)
          /\ ~(Cut(i) /\ i \in TriggersOf(Taken, mJob))
      BY <1>1, <3>1, NextChunk
    <3>3. Searching(i)' <=> \E t \in Slots : pc'[t] = "chunk" /\ i \in TriggersOf(chunk'[t], mJob)
      BY <1>4 DEF Searching, TriggersOf
    <3>4. Searching(i)' <=> Searching(i) \/ i \in TriggersOf(Taken, mJob)
      BY <1>4, <2>1, <3>3 DEF Searching
    <3>5. Adding(i)' <=> \E t \in Slots : pc'[t] = "matches" /\ i \in TriggersOf(chunk'[t], mJob)
      BY <1>4 DEF Adding, TriggersOf
    <3>6. Adding(i)' <=> Adding(i)
      BY <1>4, <2>1, <3>5 DEF Adding
    <3> QED BY <3>2, <3>4, <3>6
  <2>4. Counted' = Counted
    BY <1>4, <2>3 DEF Counted, Answers
  <2>5. \A i \in Triggers :
          asked'[i] = IF i \in Batch' /\ Cut(i)' /\ ~Searching(i)' THEN 1 ELSE 0
    BY <1>4, <2>1, <2>2, <2>3 DEF Answers
  <2>6. mMatchesDone' = Cardinality(Counted')
    BY <1>4, <2>1, <2>4 DEF Answers
  <2>7. mJob'.hits \subseteq Batch' /\ mJob'.chunkSize = ChunkSizeFor(mJob'.count)
    BY <1>4, <2>1, <2>2 DEF Answers
  <2> QED BY <2>1, <2>5, <2>6, <2>7 DEF Answers
<1> QED BY <1>1, <1>5, <1>6

(* The chunk that is searched was searched by nobody before.               *)
LEMMA SearchedOnce ==
  ASSUME IInv, Answers, NEW s \in Slots, Holds(s), NEW i \in TriggersOf(chunk[s], mJob)
  PROVE  \A t \in Slots \ {s} : ~(Holds(t) /\ i \in TriggersOf(chunk[t], mJob))
<1> SUFFICES ASSUME NEW t \in Slots \ {s}, Holds(t) PROVE i \notin TriggersOf(chunk[t], mJob)
  OBVIOUS
<1>1. chunk[s] # chunk[t] /\ chunk[s] \in Nat /\ chunk[t] \in Nat /\ TypeOK
  BY DEF IInv, TypeOK, ChunkExclusive
<1> QED BY <1>1, ChunksApart

(* The search gives each trigger of the chunk its verdict, and adds the    *)
(* matches of the chunk to those that are still to be counted.             *)
LEMMA SearchAnswers ==
  ASSUME IInv, Answers, NEW s \in Slots, Search(s)
  PROVE  Answers'
<1> DEFINE mine == TriggersOf(chunk[s], mJob)
<1>1. /\ TypeOK /\ pc \in [Slots -> MainLabels \cup HelperLabels]
      /\ 0 \in Slots /\ Holds(s) /\ pc[s] = "chunk"
  BY SlotsFinite DEF IInv, TypeOK, Search, Holds
<1>2. /\ mJob' = mJob /\ chunk' = chunk /\ mCursor' = mCursor
      /\ mMatchesDone' = mMatchesDone
      /\ \A t \in Slots : t # s => pc'[t] = pc[t]
      /\ pc'[s] = IF mJob.hits \cap mine = {} THEN "done" ELSE "matches"
  BY <1>1 DEF Search, Goto
<1>3. \A i \in Triggers : asked'[i] = asked[i] + IF i \in mine THEN 1 ELSE 0
  BY DEF Search
<1>4. Published /\ Published' /\ pc'[0] \notin {"write", "publish", "collect"}
  <2>1. Published
    BY <1>1 DEF IInv, Quiet, Holders
  <2> QED BY <1>1, <1>2, <2>1 DEF Published
<1>5. Batch' = Batch /\ \A i : Cut(i)' <=> Cut(i)
  BY <1>2 DEF Batch, Cut, Taken
<1>6. ASSUME NEW i
      PROVE  /\ Searching(i)' <=> Searching(i) /\ i \notin mine
             /\ i \in mine => Searching(i)
  <2>1. Searching(i)' <=> \E t \in Slots : pc'[t] = "chunk" /\ i \in TriggersOf(chunk[t], mJob)
    BY <1>2 DEF Searching, TriggersOf
  <2>2. i \in mine => Searching(i)
    BY <1>1 DEF Searching
  <2>3. i \in mine => \A t \in Slots \ {s} : ~(pc[t] = "chunk" /\ i \in TriggersOf(chunk[t], mJob))
    BY <1>1, SearchedOnce DEF Holds
  <2>4. pc'[s] # "chunk"
    BY <1>2
  <2>5. Searching(i)' => Searching(i) /\ i \notin mine
    BY <1>2, <2>1, <2>3, <2>4 DEF Searching
  <2>6. Searching(i) /\ i \notin mine => Searching(i)'
    BY <1>2, <2>1 DEF Searching
  <2> QED BY <2>2, <2>5, <2>6
<1>7. ASSUME NEW i \in mJob.hits
      PROVE  Adding(i)' <=> Adding(i) \/ i \in mine
  <2>1. Adding(i)' <=> \E t \in Slots : pc'[t] = "matches" /\ i \in TriggersOf(chunk[t], mJob)
    BY <1>2 DEF Adding, TriggersOf
  <2>2. i \in mine => pc'[s] = "matches"
    BY <1>2
  <2> QED BY <1>1, <1>2, <2>1, <2>2 DEF Adding
<1>8. Counted' = Counted
  BY <1>2, <1>5, <1>6, <1>7 DEF Counted
<1>9. ASSUME NEW i \in Triggers
      PROVE  asked'[i] = IF i \in Batch' /\ Cut(i)' /\ ~Searching(i)' THEN 1 ELSE 0
  <2>1. asked[i] = IF i \in Batch /\ Cut(i) /\ ~Searching(i) THEN 1 ELSE 0
    BY <1>4 DEF Answers
  <2>2. CASE i \in mine
    BY <1>1, <1>3, <1>5, <1>6, <2>1, <2>2, HeldIsCut
  <2>3. CASE i \notin mine
    BY <1>3, <1>5, <1>6, <2>1, <2>3
  <2> QED BY <2>2, <2>3
<1>10. mMatchesDone' = Cardinality(Counted')
  BY <1>2, <1>4, <1>8 DEF Answers
<1>11. mJob'.hits \subseteq Batch' /\ mJob'.chunkSize = ChunkSizeFor(mJob'.count)
  BY <1>2, <1>4, <1>5 DEF Answers
<1> QED BY <1>4, <1>9, <1>10, <1>11 DEF Answers

(* The matches that are added are those of one chunk, not counted before.  *)
LEMMA AddMatchesAnswers ==
  ASSUME IInv, Answers, NEW s \in Slots, AddMatches(s)
  PROVE  Answers'
<1> DEFINE mine == TriggersOf(chunk[s], mJob)
<1>1. /\ TypeOK /\ pc \in [Slots -> MainLabels \cup HelperLabels]
      /\ 0 \in Slots /\ Holds(s) /\ pc[s] = "matches"
  BY SlotsFinite DEF IInv, TypeOK, AddMatches, Holds
<1>2. /\ mJob' = mJob /\ chunk' = chunk /\ mCursor' = mCursor /\ asked' = asked
      /\ mMatchesDone' = mMatchesDone + Cardinality(mJob.hits \cap mine)
      /\ \A t \in Slots : t # s => pc'[t] = pc[t]
      /\ pc'[s] = "done"
  BY <1>1 DEF AddMatches, Goto
<1>3. Published /\ Published' /\ pc'[0] \notin {"write", "publish", "collect"}
  <2>1. Published
    BY <1>1 DEF IInv, Quiet, Holders
  <2> QED BY <1>1, <1>2, <2>1 DEF Published
<1>4. Batch' = Batch /\ \A i : Cut(i)' <=> Cut(i)
  BY <1>2 DEF Batch, Cut, Taken
<1>5. ASSUME NEW i
      PROVE  Searching(i)' <=> Searching(i)
  <2>1. Searching(i)' <=> \E t \in Slots : pc'[t] = "chunk" /\ i \in TriggersOf(chunk[t], mJob)
    BY <1>2 DEF Searching, TriggersOf
  <2> QED BY <1>1, <1>2, <2>1 DEF Searching
<1>6. ASSUME NEW i
      PROVE  /\ Adding(i)' <=> Adding(i) /\ i \notin mine
             /\ i \in mine => Adding(i) /\ ~Searching(i)
  <2>1. Adding(i)' <=> \E t \in Slots : pc'[t] = "matches" /\ i \in TriggersOf(chunk[t], mJob)
    BY <1>2 DEF Adding, TriggersOf
  <2>2. i \in mine => \A t \in Slots \ {s} : ~(Holds(t) /\ i \in TriggersOf(chunk[t], mJob))
    BY <1>1, SearchedOnce
  <2>3. i \in mine => Adding(i) /\ ~Searching(i)
    BY <1>1, <2>2 DEF Adding, Searching, Holds
  <2>4. Adding(i)' => Adding(i) /\ i \notin mine
    BY <1>2, <2>1, <2>2 DEF Adding, Holds
  <2>5. Adding(i) /\ i \notin mine => Adding(i)'
    BY <1>2, <2>1 DEF Adding
  <2> QED BY <2>3, <2>4, <2>5
<1>7. mMatchesDone' = Cardinality(Counted')
  <2>1. Counted' = Counted \cup (mJob.hits \cap mine)
    <3>1. \A i \in mine : Cut(i)
      BY <1>1, HeldIsCut DEF IInv
    <3> QED BY <1>2, <1>4, <1>5, <1>6, <3>1 DEF Counted
  <2>2. Counted \cap (mJob.hits \cap mine) = {}
    BY <1>6 DEF Counted
  <2>3. IsFiniteSet(Counted) /\ IsFiniteSet(mJob.hits \cap mine)
    BY <1>1, MatchesFinite DEF Counted
  <2>4. Cardinality(Counted \cup (mJob.hits \cap mine))
        = Cardinality(Counted) + Cardinality(mJob.hits \cap mine)
          - Cardinality(Counted \cap (mJob.hits \cap mine))
    BY <2>3, FS_Union
  <2>5. Cardinality(Counted) \in Nat /\ Cardinality(mJob.hits \cap mine) \in Nat
        /\ Cardinality(Counted \cap (mJob.hits \cap mine)) = 0
    BY <2>2, <2>3, FS_CardinalityType, FS_EmptySet
  <2>6. mMatchesDone = Cardinality(Counted)
    BY <1>3 DEF Answers
  <2> QED BY <1>2, <2>1, <2>4, <2>5, <2>6
<1>8. \A i \in Triggers :
        asked'[i] = IF i \in Batch' /\ Cut(i)' /\ ~Searching(i)' THEN 1 ELSE 0
  BY <1>2, <1>3, <1>4, <1>5 DEF Answers
<1>9. mJob'.hits \subseteq Batch' /\ mJob'.chunkSize = ChunkSizeFor(mJob'.count)
  BY <1>2, <1>3, <1>4 DEF Answers
<1> QED BY <1>3, <1>7, <1>8, <1>9 DEF Answers

(* A slot that is through with its chunk, a helper between batches, and    *)
(* the main thread outside of the batch change no verdict.                 *)
LEMMA DoneAnswers ==
  ASSUME IInv, Answers, NEW s \in Slots, AddDone(s)
  PROVE  Answers'
<1>1. /\ pc \in [Slots -> MainLabels \cup HelperLabels] /\ chunk \in [Slots -> Nat]
      /\ 0 \in Slots
  BY SlotsFinite DEF IInv, TypeOK
<1>2. /\ pc[s] = "done" /\ pc'[s] = "claim"
      /\ \A t \in Slots : t # s => pc'[t] = pc[t] /\ chunk'[t] = chunk[t]
      /\ mJob' = mJob /\ asked' = asked /\ mMatchesDone' = mMatchesDone
      /\ mCursor' = mCursor
  BY <1>1 DEF AddDone, Goto
<1>3. SearchesUntouched /\ Taken' = Taken
  BY <1>2 DEF SearchesUntouched, Taken
<1>4. Untouched
  BY <1>1, <1>2 DEF Untouched, Published
<1> QED BY <1>3, <1>4, AnswersUntouched

LEMMA IdleHelperAnswers ==
  ASSUME IInv, Answers, NEW h \in Helpers,
         CheckStop(h) \/ Load(h) \/ Wait(h) \/ Return(h)
  PROVE  Answers'
<1>1. /\ pc \in [Slots -> MainLabels \cup HelperLabels]
      /\ h \in Slots /\ h # 0 /\ 0 \in Slots
  BY SlotsFinite DEF IInv, TypeOK
<1>2. /\ pc[h] \notin {"chunk", "matches"} /\ pc'[h] \notin {"chunk", "matches"}
      /\ \A t \in Slots : t # h => pc'[t] = pc[t]
      /\ mJob' = mJob /\ asked' = asked /\ mMatchesDone' = mMatchesDone
      /\ mCursor' = mCursor /\ chunk' = chunk
  BY <1>1 DEF CheckStop, Load, Wait, Return, Goto, batchVars
<1>3. SearchesUntouched /\ Taken' = Taken
  BY <1>2 DEF SearchesUntouched, Taken
<1>4. Untouched
  BY <1>1, <1>2 DEF Untouched, Published
<1> QED BY <1>3, <1>4, AnswersUntouched

LEMMA MainQuietAnswers ==
  ASSUME IInv, Answers,
         \/ NotifyBatch \/ Collect \/ PublishStop \/ NotifyStop \/ JoinHelpers
         \/ \E n \in 0 .. NumSlots - 1 : StartHelpers(n)
         \/ \E quit \in BOOLEAN : StopHelpers(quit) \/ NoHelpersToStop(quit)
  PROVE  Answers'
<1>1. pc \in [Slots -> MainLabels \cup HelperLabels] /\ 0 \in Slots
  BY SlotsFinite DEF IInv, TypeOK
<1>2. CASE NotifyBatch
  <2>1. /\ pc[0] = "notify" /\ pc'[0] = "claim"
        /\ \A t \in Slots : t # 0 => pc'[t] = IF pc[t] = "asleep" THEN "wait" ELSE pc[t]
        /\ mJob' = mJob /\ asked' = asked /\ mMatchesDone' = mMatchesDone
        /\ mCursor' = mCursor /\ chunk' = chunk
    BY <1>1, <1>2 DEF NotifyBatch, NotifyAll, batchVars
  <2>2. SearchesUntouched /\ Taken' = Taken
    BY <2>1 DEF SearchesUntouched, Taken
  <2>3. Untouched
    BY <2>1 DEF Untouched, Published
  <2> QED BY <2>2, <2>3, AnswersUntouched
<1>3. ASSUME \/ Collect \/ PublishStop \/ NotifyStop \/ JoinHelpers
             \/ \E n \in 0 .. NumSlots - 1 : StartHelpers(n)
             \/ \E quit \in BOOLEAN : StopHelpers(quit) \/ NoHelpersToStop(quit)
      PROVE  Answers'
  <2>1. /\ pc[0] \notin {"notify", "claim", "chunk", "matches", "done", "join"}
        /\ pc'[0] \in {"idle", "stop", "stopNotify", "stopJoin", "quit", "quitNotify",
                       "quitJoin", "start"}
        /\ mJob' = mJob /\ asked' = asked /\ mMatchesDone' = mMatchesDone
    BY <1>1, <1>3 DEF Collect, PublishStop, NotifyStop, NotifyAll, JoinHelpers, StartHelpers,
      StopHelpers, NoHelpersToStop, Goto, batchVars
  <2>2. ~Published /\ Untouched
    BY <2>1 DEF Untouched, Published
  <2> QED BY <2>2, AnswersUntouched
<1> QED BY <1>2, <1>3

(* The call begins with no verdict given and ends with all of them.        *)
LEMMA PrescanAnswers ==
  ASSUME IInv, Answers, NEW n \in 1 .. MaxCount, NEW hits \in HitSets,
         Prescan(n, hits \cap 0 .. n - 1)
  PROVE  Answers'
<1>1. /\ pc \in [Slots -> MainLabels \cup HelperLabels] /\ 0 \in Slots
  BY SlotsFinite DEF IInv, TypeOK
<1>2. /\ pc'[0] = "write"
      /\ mJob' = [count |-> n, chunkSize |-> ChunkSizeFor(n), hits |-> hits \cap 0 .. n - 1]
      /\ \A i \in Triggers : asked'[i] = 0
  BY <1>1 DEF Prescan, Goto
<1>3. mJob'.hits \subseteq Batch' /\ mJob'.chunkSize = ChunkSizeFor(mJob'.count)
  BY <1>2 DEF Batch
<1> QED BY <1>2, <1>3 DEF Answers, Published

LEMMA ResetAnswers ==
  ASSUME IInv, Answers, ResetCounts
  PROVE  Answers'
<1>1. /\ pc \in [Slots -> MainLabels \cup HelperLabels] /\ 0 \in Slots
  BY SlotsFinite DEF IInv, TypeOK
<1>2. /\ pc[0] = "write" /\ pc'[0] = "publish" /\ mMatchesDone' = 0
      /\ mJob' = mJob /\ asked' = asked
  BY <1>1 DEF ResetCounts, Goto
<1>3. Batch' = Batch
  BY <1>2 DEF Batch
<1> QED BY <1>2, <1>3 DEF Answers, Published

LEMMA PublishAnswers ==
  ASSUME IInv, Answers, PublishBatch
  PROVE  Answers'
<1>1. /\ pc \in [Slots -> MainLabels \cup HelperLabels] /\ 0 \in Slots /\ TypeOK
  BY SlotsFinite DEF IInv, TypeOK
<1>2. /\ pc[0] = "publish" /\ pc'[0] = "notify" /\ mCursor'.next = 0
      /\ mCursor'.count = ChunkCountFor(mJob.count)
      /\ mJob' = mJob /\ asked' = asked /\ mMatchesDone' = mMatchesDone
  BY <1>1 DEF PublishBatch, Store, Goto, batchVars
<1>3. Taken' = 0
  <2>1. ChunkCountFor(mJob.count) \in Nat
    BY <1>1, JobTyped, ChunksTyped
  <2> QED BY <1>2, <2>1 DEF Taken
<1>4. Batch' = Batch /\ Batch \subseteq Nat
  BY <1>1, <1>2, JobTyped DEF Batch
<1>5. \A i \in Batch : ~Cut(i)'
  <2>1. mJob.chunkSize * 0 = 0
    BY <1>1, JobTyped
  <2> QED BY <1>2, <1>3, <1>4, <2>1 DEF Cut
<1>6. Counted' = {}
  BY <1>2, <1>5 DEF Counted, Answers
<1>7. mMatchesDone' = Cardinality(Counted')
  BY <1>2, <1>6, FS_EmptySet DEF Answers
<1>8. \A i \in Triggers :
        asked'[i] = IF i \in Batch' /\ Cut(i)' /\ ~Searching(i)' THEN 1 ELSE 0
  BY <1>2, <1>4, <1>5 DEF Answers
<1> QED BY <1>2, <1>4, <1>7, <1>8 DEF Answers, Published

LEMMA JoinAnswers ==
  ASSUME IInv, Answers, Join
  PROVE  Answers'
<1>1. /\ pc \in [Slots -> MainLabels \cup HelperLabels] /\ 0 \in Slots /\ TypeOK
      /\ mDone \in Nat
  BY SlotsFinite DEF IInv, TypeOK
<1>2. /\ pc[0] = "join" /\ pc'[0] = "collect" /\ mDone = ChunkCountFor(mJob.count)
      /\ mJob' = mJob /\ asked' = asked /\ mMatchesDone' = mMatchesDone
  BY <1>1 DEF Join, Goto, batchVars
<1>3. Published /\ ~Published'
  BY <1>2 DEF Published
<1>4. mCursor.next >= mCursor.count /\ mCursor.count = ChunkCountFor(mJob.count)
      /\ mDone + Cardinality(Holders) = Taken
      /\ mJob.count > 0 /\ mJob.chunkSize = ChunkSizeFor(mJob.count)
  BY <1>2, <1>3 DEF IInv, Quiet, Accounting, Answers
<1>5. Taken = mCursor.count /\ mCursor.count \in Nat
  BY <1>1, <1>4, JobTyped DEF Taken
<1>6. Holders = {}
  <2>1. Holders \subseteq Slots
    BY DEF Holders
  <2>2. Cardinality(Holders) \in 0 .. NumSlots
    BY <2>1, SomeSlots
  <2>3. Cardinality(Holders) = 0
    BY <1>1, <1>2, <1>4, <1>5, <2>2, PoolAssumption
  <2> QED BY <2>1, <2>3, SomeSlots
<1>7. \A i : ~Searching(i) /\ ~Adding(i)
  BY <1>6 DEF Holders, Holds, Searching, Adding
<1>8. \A i \in Batch : Cut(i) /\ i \in Triggers
  <2> DEFINE all == mJob.chunkSize * Taken
  <2>1. mJob.count \in Nat \ {0} /\ mJob.count <= MaxCount
    BY <1>1, <1>4, JobTyped
  <2>2. mJob.count <= all
    BY <1>4, <1>5, <2>1, ChunksFit
  <2>3. all \in Nat
    BY <1>1, JobTyped
  <2>4. \A i \in Batch : i \in Nat /\ i < mJob.count
    BY <1>1, JobTyped
  <2>5. \A i \in Batch : i < all /\ i \in Triggers
    <3> HIDE DEF all
    <3> QED BY <2>1, <2>2, <2>3, <2>4, PoolAssumption DEF Triggers
  <2> QED BY <2>5 DEF Cut
<1>9. Batch' = Batch
  BY <1>2 DEF Batch
<1>10. \A i \in Batch' : asked'[i] = 1
  BY <1>2, <1>3, <1>7, <1>8, <1>9 DEF Answers
<1>11. Counted = mJob.hits
  BY <1>7, <1>8 DEF Counted, Answers
<1>12. mMatchesDone' = Cardinality(mJob'.hits)
  BY <1>2, <1>3, <1>11 DEF Answers
<1> QED BY <1>2, <1>3, <1>9, <1>10, <1>12 DEF Answers

LEMMA AnswersInit == Init => Answers
<1> SUFFICES ASSUME Init PROVE Answers
  OBVIOUS
<1>1. pc[0] = "start" /\ mJob.hits = {}
  BY SlotsFinite DEF Init
<1> QED BY <1>1 DEF Answers, Published

LEMMA AnswersStep == IInv /\ Answers /\ [Next]_vars => Answers'
<1> SUFFICES ASSUME IInv, Answers, [Next]_vars PROVE Answers'
  OBVIOUS
<1>1. ASSUME NEW s \in Slots, RunChunks(s) PROVE Answers'
  BY <1>1, ClaimAnswers, SearchAnswers, AddMatchesAnswers, DoneAnswers DEF RunChunks
<1>2. ASSUME NEW h \in Helpers, Helper(h) PROVE Answers'
  BY <1>1, <1>2, IdleHelperAnswers, SlotsFinite DEF Helper
<1>3. CASE MainBusy
  BY <1>1, <1>3, SlotsFinite, MainQuietAnswers, ResetAnswers, PublishAnswers, JoinAnswers
  DEF MainBusy
<1>4. ASSUME UNCHANGED vars PROVE Answers'
  <2>1. Untouched
    BY <1>4 DEF vars, Untouched, Published
  <2>2. Taken' = Taken /\ SearchesUntouched
    BY <1>4 DEF vars, Taken, SearchesUntouched
  <2> QED BY <2>1, <2>2, AnswersUntouched
<1>5. CASE MainCall
  BY <1>4, <1>5, MainQuietAnswers, PrescanAnswers DEF MainCall, PrescanDeclined
<1> QED BY <1>2, <1>3, <1>4, <1>5 DEF Next

LEMMA AnswersHold == Spec => [](IInv /\ Answers)
<1>1. Init => IInv /\ Answers
  BY IInvInit, AnswersInit
<1>2. (IInv /\ Answers) /\ [Next]_vars => (IInv /\ Answers)'
  BY IInvStep, AnswersStep
<1> QED BY <1>1, <1>2, PTL DEF Spec

(* What ForkJoin sees of the pool.                                         *)
Open == pc[0] \in {"write", "publish", "collect"} \/ Published

LEMMA SameToForkJoin ==
  ASSUME Open' <=> Open, mJob' = mJob, asked' = asked,
         matchesInLastBatch' = matchesInLastBatch
  PROVE  UNCHANGED Abstract!vars
<1>1. (pc[0] \in {"write", "publish", "collect"} \/ Published)'
        = (pc[0] \in {"write", "publish", "collect"} \/ Published)
  BY Zenon DEF Open
<1> QED BY <1>1 DEF Abstract!vars

(* The search of a chunk answers its triggers, none of them answered yet.  *)
LEMMA SearchIsAnswer ==
  ASSUME IInv, Answers, NEW s \in Slots, Search(s)
  PROVE  [Abstract!Next]_Abstract!vars
<1> DEFINE mine == TriggersOf(chunk[s], mJob)
<1>1. /\ TypeOK /\ pc \in [Slots -> MainLabels \cup HelperLabels]
      /\ asked \in [Triggers -> Nat] /\ 0 \in Slots /\ Holds(s) /\ pc[s] = "chunk"
  BY SlotsFinite DEF IInv, TypeOK, Search, Holds
<1>2. /\ mJob' = mJob /\ matchesInLastBatch' = matchesInLastBatch
      /\ \A t \in Slots : t # s => pc'[t] = pc[t]
      /\ pc'[s] \in {"done", "matches"}
      /\ asked' = [i \in Triggers |-> asked[i] + IF i \in mine THEN 1 ELSE 0]
  BY <1>1 DEF Search, Goto
<1>3. Published /\ Published'
  <2>1. Published
    BY <1>1 DEF IInv, Quiet, Holders
  <2> QED BY <1>1, <1>2, <2>1 DEF Published
<1>4. Open /\ Open'
  BY <1>3 DEF Open
<1>5. CASE mine = {}
  <2>1. asked' = [i \in Triggers |-> asked[i]]
    BY <1>1, <1>2, <1>5
  <2>2. asked' = asked
    BY <1>1, <2>1
  <2> QED BY <1>2, <1>4, <2>2, SameToForkJoin
<1>6. CASE mine # {}
  <2>1. \A i \in mine : i \in Batch /\ i \in Triggers /\ asked[i] = 0
    <3> SUFFICES ASSUME NEW i \in mine PROVE i \in Batch /\ i \in Triggers /\ asked[i] = 0
      OBVIOUS
    <3>1. i \in Batch /\ Cut(i)
      BY <1>1, HeldIsCut
    <3>2. i \in Triggers
      BY <1>1, <3>1, JobTyped, PoolAssumption DEF Triggers
    <3>3. Searching(i)
      BY <1>1 DEF Searching
    <3> QED BY <1>3, <3>1, <3>2, <3>3 DEF Answers
  <2>2. asked' = [i \in Triggers |-> IF i \in mine THEN 1 ELSE asked[i]]
    BY <1>1, <1>2, <2>1
  <2>3. mine \in SUBSET (0 .. mJob.count - 1)
    BY <2>1 DEF Batch
  <2>4. Abstract!Answer(mine)
    <3>1. (pc[0] \in {"write", "publish", "collect"} \/ Published)'
            = (pc[0] \in {"write", "publish", "collect"} \/ Published)
      BY <1>4, Zenon DEF Open
    <3> QED BY <1>2, <1>4, <2>1, <2>2, <3>1 DEF Abstract!Answer, Open
  <2> QED BY <1>6, <2>3, <2>4 DEF Abstract!Next, Abstract!AnswerSome
<1> QED BY <1>5, <1>6

LEMMA PrescanIsFork ==
  ASSUME IInv, NEW n \in 1 .. MaxCount, NEW hits \in HitSets,
         Prescan(n, hits \cap 0 .. n - 1)
  PROVE  Abstract!Next
<1>1. /\ pc \in [Slots -> MainLabels \cup HelperLabels] /\ 0 \in Slots
  BY SlotsFinite DEF IInv, TypeOK
<1>2. /\ pc[0] = "idle" /\ pc'[0] = "write"
      /\ mJob' = [count |-> n, chunkSize |-> ChunkSizeFor(n), hits |-> hits \cap 0 .. n - 1]
      /\ asked' = [i \in Triggers |-> 0]
      /\ matchesInLastBatch' = matchesInLastBatch
  BY <1>1 DEF Prescan, Goto
<1>3. ~Open /\ Open'
  BY <1>2 DEF Open, Published
<1>4. mJob'.count = n /\ mJob'.hits = hits \cap 0 .. n - 1
  BY <1>2
<1>5. (pc[0] \in {"write", "publish", "collect"} \/ Published)' = TRUE
  BY <1>3, Zenon DEF Open
<1>6. Abstract!Fork(0 .. n - 1, hits \cap 0 .. n - 1)
  BY <1>2, <1>3, <1>4, <1>5 DEF Abstract!Fork, Open
<1>7. 0 .. n - 1 \in SUBSET Triggers
  BY PoolAssumption DEF Triggers
<1> QED BY <1>6, <1>7 DEF Abstract!Next

LEMMA CollectIsJoin ==
  ASSUME IInv, Answers, Collect
  PROVE  Abstract!Next
<1>1. /\ pc \in [Slots -> MainLabels \cup HelperLabels] /\ 0 \in Slots
  BY SlotsFinite DEF IInv, TypeOK
<1>2. /\ pc[0] = "collect" /\ pc'[0] = "idle" /\ matchesInLastBatch' = mMatchesDone
      /\ mJob' = mJob /\ asked' = asked
  BY <1>1 DEF Collect, Goto
<1>3. Open /\ ~Open'
  BY <1>2 DEF Open, Published
<1>4. (pc[0] \in {"write", "publish", "collect"} \/ Published)' = FALSE
  BY <1>3, Zenon DEF Open
<1>5. Abstract!Cardinality(mJob.hits) = Cardinality(mJob.hits)
  BY Zenon DEF Abstract!Cardinality, Cardinality
<1>6. Abstract!Join
  BY <1>2, <1>3, <1>4, <1>5 DEF Abstract!Join, Open, Answers, Batch
<1> QED BY <1>6 DEF Abstract!Next

(* Every other step is none of ForkJoin's business.                        *)
LEMMA OthersAreSilent ==
  ASSUME IInv, MainBusy \/ MainCall \/ \E h \in Helpers : Helper(h),
         \A s \in Slots : ~Search(s), ~Collect,
         \A n \in 1 .. MaxCount : \A hits \in HitSets : ~Prescan(n, hits \cap 0 .. n - 1)
  PROVE  UNCHANGED Abstract!vars
<1>1. /\ pc \in [Slots -> MainLabels \cup HelperLabels] /\ 0 \in Slots
      /\ Helpers = Slots \ {0}
  BY SlotsFinite DEF IInv, TypeOK
<1>2. ASSUME NEW s \in Slots, RunChunks(s)
      PROVE  /\ mJob' = mJob /\ asked' = asked /\ matchesInLastBatch' = matchesInLastBatch
             /\ Open' <=> Open
  <2>1. \/ pc[s] = "claim" /\ pc'[s] \in {"chunk", IF s = 0 THEN "join" ELSE "top"}
        \/ pc[s] \in {"matches", "done"} /\ pc'[s] \in {"done", "claim"}
    BY <1>1, <1>2 DEF RunChunks, Claim, AddMatches, AddDone, Goto
  <2>2. \A t \in Slots : t # s => pc'[t] = pc[t]
    BY <1>1, <1>2 DEF RunChunks, Claim, AddMatches, AddDone, Goto
  <2>3. Open' <=> Open
    BY <1>1, <2>1, <2>2 DEF Open, Published
  <2> QED BY <1>2, <2>3 DEF RunChunks, Claim, AddMatches, AddDone, batchVars
<1>3. ASSUME NEW h \in Helpers, Helper(h), ~RunChunks(h)
      PROVE  /\ mJob' = mJob /\ asked' = asked /\ matchesInLastBatch' = matchesInLastBatch
             /\ Open' <=> Open
  <2>1. pc'[0] = pc[0]
    BY <1>1, <1>3 DEF Helper, CheckStop, Load, Wait, Return, Goto
  <2> QED BY <1>3, <2>1 DEF Helper, CheckStop, Load, Wait, Return, batchVars, Open, Published
<1>4. ASSUME \/ ResetCounts \/ PublishBatch \/ NotifyBatch \/ Join
             \/ PublishStop \/ NotifyStop \/ JoinHelpers
             \/ \E n \in 0 .. NumSlots - 1 : StartHelpers(n)
             \/ \E quit \in BOOLEAN : StopHelpers(quit) \/ NoHelpersToStop(quit)
      PROVE  /\ mJob' = mJob /\ asked' = asked /\ matchesInLastBatch' = matchesInLastBatch
             /\ Open' <=> Open
  <2>1. mJob' = mJob /\ asked' = asked /\ matchesInLastBatch' = matchesInLastBatch
    BY <1>4 DEF ResetCounts, PublishBatch, NotifyBatch, Join, PublishStop, NotifyStop,
      JoinHelpers, StartHelpers, StopHelpers, NoHelpersToStop, batchVars
  <2>2. \/ /\ pc[0] \in {"write", "publish", "notify", "join"}
           /\ pc'[0] \in {"publish", "notify", "claim", "collect"}
        \/ /\ pc[0] \in {"stop", "quit", "stopNotify", "quitNotify", "stopJoin", "quitJoin",
                         "start", "idle"}
           /\ pc'[0] \in {"stop", "quit", "stopNotify", "quitNotify", "stopJoin", "quitJoin",
                          "start", "idle"}
    BY <1>1, <1>4 DEF ResetCounts, PublishBatch, NotifyBatch, NotifyAll, Join, PublishStop,
      NotifyStop, JoinHelpers, StartHelpers, StopHelpers, NoHelpersToStop, Goto
  <2>3. Open' <=> Open
    BY <2>2 DEF Open, Published
  <2> QED BY <2>1, <2>3
<1>5. CASE MainBusy
  BY <1>1, <1>2, <1>4, <1>5, SameToForkJoin DEF MainBusy
<1>6. CASE MainCall
  <2>1. CASE PrescanDeclined
    BY <2>1, SameToForkJoin DEF PrescanDeclined, vars, Open, Published
  <2> QED BY <1>4, <1>6, <2>1, SameToForkJoin DEF MainCall
<1>7. ASSUME NEW h \in Helpers, Helper(h) PROVE UNCHANGED Abstract!vars
  BY <1>1, <1>2, <1>3, <1>7, SameToForkJoin
<1> QED BY <1>5, <1>6, <1>7

LEMMA StepsAreForkJoin ==
  ASSUME IInv, Answers, [Next]_vars
  PROVE  [Abstract!Next]_Abstract!vars
<1>1. CASE \E s \in Slots : Search(s)
  BY <1>1, SearchIsAnswer
<1>2. CASE Collect
  BY <1>2, CollectIsJoin
<1>3. CASE \E n \in 1 .. MaxCount : \E hits \in HitSets : Prescan(n, hits \cap 0 .. n - 1)
  BY <1>3, PrescanIsFork
<1>4. CASE UNCHANGED vars
  BY <1>4, SameToForkJoin DEF vars, Open, Published
<1> QED BY <1>1, <1>2, <1>3, <1>4, OthersAreSilent DEF Next

LEMMA StartsAsForkJoin == Init => Abstract!Init
<1> SUFFICES ASSUME Init PROVE Abstract!Init
  OBVIOUS
<1>1. pc[0] = "start" /\ mJob.count = 0 /\ mJob.hits = {} /\ matchesInLastBatch = 0
      /\ asked = [i \in Triggers |-> 0]
  BY SlotsFinite DEF Init
<1>2. (pc[0] \in {"write", "publish", "collect"} \/ Published) = FALSE
  <2>1. ~(pc[0] \in {"write", "publish", "collect"} \/ Published)
    BY <1>1 DEF Published
  <2> QED BY <2>1, Zenon
<1>3. 0 .. mJob.count - 1 = {}
  BY <1>1
<1> QED BY <1>1, <1>2, <1>3 DEF Abstract!Init

(* The pool keeps ForkJoin's promise as far as it is safety: each trigger  *)
(* of a batch gets its verdict once, within the call, and the call returns *)
(* with all of them and with the number of matches, whatever the helpers   *)
(* do and whenever they wake.                                              *)
THEOREM PoolIsForkJoin == Spec => Abstract!Safe
<1>1. (IInv /\ Answers) /\ [Next]_vars => [Abstract!Next]_Abstract!vars
  BY StepsAreForkJoin
<1> QED BY <1>1, StartsAsForkJoin, AnswersHold, PTL DEF Spec, Abstract!Safe
=============================================================================
