------------------------- MODULE PackageChangesProofs -------------------------
(***************************************************************************)
(* PackageChanges for any packages and any depth of calls: types, what a   *)
(* save reads, and what an install event is about.                         *)
(*                                                                         *)
(* An event is about the copy that was read in last if nothing of that     *)
(* name was removed since, because a package is read in only after the     *)
(* copy before it was removed: copies and removals are counted in step.    *)
(* For that no package may be removed while it is read in, which is so     *)
(* because none is being read in below a call that removes it.             *)
(***************************************************************************)
EXTENDS PackageChanges, TLAPS

OnTheirOwn == {"importing", "uninstalling", "waiting"}
Drains == {"toDrain", "draining"}

FrameRecords ==
    [at : {"unpacking"} \union OnTheirOwn, package : Packages]
    \union [at : Announced, package : Packages, copy : Nat, removals : Nat]
    \union [at : Drains, requests : Seq(Packages), refused : Seq(Packages)]

LaterCalls ==
    [at : {"install"}, package : Packages]
    \union [at : {"drain"}, requests : Seq(Packages), refused : {<<>>}]

\* A stack: nothing on it removes or reads in what a call below is reading in,
\* and there is room for the removals of a drain.
Shape(fs) ==
    /\ fs \in Seq(FrameRecords)
    /\ Len(fs) <= MaxDepth + 1
    /\ \A i \in 1..Len(fs) : fs[i].at \in Drains => i <= MaxDepth
    /\ \A j \in 1..Len(fs) : \A i \in 1..(j - 1) :
          fs[i].at = "importing" /\ fs[j].at \in OnTheirOwn => fs[i].package # fs[j].package

Listed ==
    /\ items \subseteq mInstalledPackages /\ mInstalledPackages \subseteq Packages
    /\ mInstalledPackages \ items = PackagesAt("importing", frames)

\* Each copy but the one installed was removed.
Counted ==
    /\ copies \in [Packages -> Nat] /\ mRemovalsOf \in [Packages -> Nat]
    /\ \A p \in Packages :
          copies[p] = IF p \in mInstalledPackages THEN mRemovalsOf[p] + 1 ELSE mRemovalsOf[p]

\* What an announcement remembers of its copy, where removals have been counted
\* and the items of there are the profile's.
Remembers(a, removals, there) ==
    /\ a.package \in Packages /\ a.removals \in Nat
    /\ a.copy = a.removals + 1
    /\ a.removals <= removals[a.package]
    /\ a.removals = removals[a.package] => a.package \in there

Announcements(s, removals, there) ==
    \A i \in 1..Len(s) : s[i].at \in Announced => Remembers(s[i], removals, there)

CallsOK ==
    /\ mUninstallsDeferredByAnInstall \in Seq(Packages)
    /\ queue \in Seq(Calls)
    /\ waiting \in Seq(LaterCalls) /\ posted \in Seq(LaterCalls)

RestOK ==
    /\ currentlySavingProfile => saving[1] \subseteq Packages
    /\ saved \subseteq Packages
    /\ mDeferredSaveTimer \in BOOLEAN /\ installs \in 0..MaxInstalls
    /\ saves \in 0..MaxSaves /\ giveUps \in 0..MaxGiveUps

IInv ==
    /\ Shape(frames) /\ Announcements(frames, mRemovalsOf, items)
    /\ Listed /\ Counted
    /\ CallsOK /\ Announcements(queue, mRemovalsOf, items)
    /\ RestOK

-----------------------------------------------------------------------------
\* Sequences.
LEMMA Ends ==
  ASSUME NEW S, NEW s \in Seq(S), s # <<>>
  PROVE  /\ Len(s) \in Nat \ {0}
         /\ Last(s) \in S /\ Last(s) = s[Len(s)]
         /\ Front(s) \in Seq(S) /\ Len(Front(s)) = Len(s) - 1
         /\ \A i \in 1..Len(Front(s)) : Front(s)[i] = s[i]
         /\ Head(s) \in S /\ Head(s) = s[1]
         /\ Tail(s) \in Seq(S) /\ Len(Tail(s)) = Len(s) - 1
         /\ \A i \in 1..Len(Tail(s)) : Tail(s)[i] = s[i + 1]
<1>1. Len(s) \in Nat /\ Len(s) > 0 /\ DOMAIN s = 1..Len(s)
  OBVIOUS
<1>2. Last(s) \in S /\ Last(s) = s[Len(s)]
  BY <1>1 DEF Last
<1>3. Front(s) \in Seq(S) /\ Len(Front(s)) = Len(s) - 1
      /\ \A i \in 1..Len(Front(s)) : Front(s)[i] = s[i]
  <2> DEFINE r == SubSeq(s, 1, Len(s) - 1)
  <2>1. r \in Seq(S) /\ Len(r) = Len(s) - 1
    BY <1>1
  <2>2. ASSUME NEW i \in 1..Len(r) PROVE r[i] = s[i]
    BY <1>1, <2>1
  <2>3. QED
    BY <2>1, <2>2 DEF Front
<1>4. Head(s) \in S /\ Head(s) = s[1]
  BY <1>1
<1>5. Tail(s) \in Seq(S) /\ Len(Tail(s)) = Len(s) - 1
      /\ \A i \in 1..Len(Tail(s)) : Tail(s)[i] = s[i + 1]
  BY <1>1
<1>6. QED
  BY <1>1, <1>2, <1>3, <1>4, <1>5

LEMMA Appended ==
  ASSUME NEW S, NEW s \in Seq(S), NEW e \in S
  PROVE  /\ Append(s, e) \in Seq(S) /\ Append(s, e) # <<>>
         /\ Len(Append(s, e)) = Len(s) + 1
         /\ \A i \in 1..Len(s) : Append(s, e)[i] = s[i]
         /\ Append(s, e)[Len(s) + 1] = e
         /\ Last(Append(s, e)) = e
  BY DEF Last

LEMMA Places ==
  ASSUME NEW fs \in Seq(FrameRecords), NEW place
  PROVE  PackagesAt(place, fs) = {fs[i].package : i \in {j \in 1..Len(fs) : fs[j].at = place}}
  BY DEF PackagesAt

\* A call more on the stack.
LEMMA Push ==
  ASSUME PackageChangesAssumption, NEW fs, Shape(fs), NEW f \in FrameRecords,
         Len(fs) <= MaxDepth,
         f.at \in Drains => Len(fs) < MaxDepth,
         f.at \in OnTheirOwn => f.package \notin PackagesAt("importing", fs)
  PROVE  /\ Shape(Append(fs, f))
         /\ PackagesAt("importing", Append(fs, f)) =
               PackagesAt("importing", fs) \union
               (IF f.at = "importing" THEN {f.package} ELSE {})
<1> DEFINE gs == Append(fs, f)
<1>1. fs \in Seq(FrameRecords) /\ Len(fs) \in Nat /\ MaxDepth \in Nat
  BY DEF Shape, PackageChangesAssumption
<1>2. /\ gs \in Seq(FrameRecords) /\ Len(gs) = Len(fs) + 1
      /\ \A i \in 1..Len(fs) : gs[i] = fs[i]
      /\ gs[Len(fs) + 1] = f
  BY <1>1, Appended
<1> HIDE DEF gs
<1>3. PackagesAt("importing", fs) = {fs[i].package : i \in {j \in 1..Len(fs) : fs[j].at = "importing"}}
  BY <1>1, Places
<1>4. PackagesAt("importing", gs) = {gs[i].package : i \in {j \in 1..Len(gs) : gs[j].at = "importing"}}
  BY <1>2, Places
<1>5. \A i \in 1..Len(gs) : gs[i].at \in Drains => i <= MaxDepth
  BY <1>1, <1>2 DEF Shape
<1>6. ASSUME NEW j \in 1..Len(gs), NEW i \in 1..(j - 1), gs[i].at = "importing",
             gs[j].at \in OnTheirOwn
      PROVE  gs[i].package # gs[j].package
  <2>1. i \in 1..Len(fs) /\ gs[i] = fs[i]
    BY <1>1, <1>2
  <2>2. CASE j \in 1..Len(fs)
    BY <1>2, <1>6, <2>1, <2>2 DEF Shape
  <2>3. CASE j = Len(fs) + 1
    BY <1>2, <1>3, <1>6, <2>1, <2>3
  <2>4. QED
    BY <1>1, <1>2, <2>2, <2>3
<1>7. Shape(gs)
  BY <1>1, <1>2, <1>5, <1>6 DEF Shape
<1>8. PackagesAt("importing", gs) = PackagesAt("importing", fs) \union
               (IF f.at = "importing" THEN {f.package} ELSE {})
  BY <1>1, <1>2, <1>3, <1>4
<1>9. QED
  BY <1>7, <1>8 DEF gs

\* A call returns.
LEMMA Pop ==
  ASSUME PackageChangesAssumption, NEW fs, Shape(fs), fs # <<>>
  PROVE  /\ Shape(Front(fs)) /\ Last(fs) \in FrameRecords
         /\ Len(Front(fs)) \in Nat /\ Len(fs) = Len(Front(fs)) + 1
         /\ Len(Front(fs)) <= MaxDepth
         /\ Last(fs).at \in Drains => Len(Front(fs)) < MaxDepth
         /\ Last(fs).at \in OnTheirOwn =>
               Last(fs).package \notin PackagesAt("importing", Front(fs))
         /\ PackagesAt("importing", fs) = PackagesAt("importing", Front(fs)) \union
               (IF Last(fs).at = "importing" THEN {Last(fs).package} ELSE {})
<1> DEFINE gs == Front(fs)
           f == Last(fs)
<1>1. fs \in Seq(FrameRecords) /\ Len(fs) \in Nat /\ MaxDepth \in Nat
  BY DEF Shape, PackageChangesAssumption
<1>2. /\ gs \in Seq(FrameRecords) /\ Len(fs) = Len(gs) + 1 /\ Len(gs) \in Nat
      /\ \A i \in 1..Len(gs) : gs[i] = fs[i]
      /\ f \in FrameRecords /\ f = fs[Len(fs)]
  BY <1>1, Ends
<1> HIDE DEF gs, f
<1>3. PackagesAt("importing", fs) = {fs[i].package : i \in {j \in 1..Len(fs) : fs[j].at = "importing"}}
  BY <1>1, Places
<1>4. PackagesAt("importing", gs) = {gs[i].package : i \in {j \in 1..Len(gs) : gs[j].at = "importing"}}
  BY <1>2, Places
<1>5. Shape(gs)
  BY <1>1, <1>2 DEF Shape
<1>6. Len(gs) <= MaxDepth /\ (f.at \in Drains => Len(gs) < MaxDepth)
  BY <1>1, <1>2 DEF Shape
<1>7. f.at \in OnTheirOwn => f.package \notin PackagesAt("importing", gs)
  BY <1>1, <1>2, <1>4 DEF Shape
<1>8. PackagesAt("importing", fs) = PackagesAt("importing", gs) \union
               (IF f.at = "importing" THEN {f.package} ELSE {})
  BY <1>1, <1>2, <1>3, <1>4
<1>9. QED
  BY <1>2, <1>5, <1>6, <1>7, <1>8 DEF gs, f

\* Announcements on the stack and in the queue.
LEMMA AnnouncedPush ==
  ASSUME NEW S, NEW s \in Seq(S), NEW e \in S, NEW removals, NEW there,
         Announcements(s, removals, there),
         e.at \in Announced => Remembers(e, removals, there)
  PROVE  Announcements(Append(s, e), removals, there)
<1> DEFINE t == Append(s, e)
<1>1. Len(t) = Len(s) + 1 /\ Len(s) \in Nat /\ t[Len(s) + 1] = e
      /\ \A i \in 1..Len(s) : t[i] = s[i]
  BY Appended
<1> HIDE DEF t
<1>2. ASSUME NEW i \in 1..Len(t), t[i].at \in Announced
      PROVE  Remembers(t[i], removals, there)
  <2>1. CASE i \in 1..Len(s)
    BY <1>1, <1>2, <2>1 DEF Announcements
  <2>2. CASE i = Len(s) + 1
    BY <1>1, <1>2, <2>2
  <2>3. QED
    BY <1>1, <2>1, <2>2
<1>3. QED
  BY <1>2 DEF Announcements, t

LEMMA AnnouncedEnds ==
  ASSUME NEW S, NEW s \in Seq(S), s # <<>>, NEW removals, NEW there,
         Announcements(s, removals, there)
  PROVE  /\ Announcements(Front(s), removals, there)
         /\ Announcements(Tail(s), removals, there)
         /\ Last(s).at \in Announced => Remembers(Last(s), removals, there)
         /\ Head(s).at \in Announced => Remembers(Head(s), removals, there)
<1> DEFINE f == Front(s)
           t == Tail(s)
<1>1. /\ Len(s) \in Nat \ {0} /\ Len(f) = Len(s) - 1 /\ Len(t) = Len(s) - 1
      /\ \A i \in 1..Len(f) : f[i] = s[i]
      /\ \A i \in 1..Len(t) : t[i] = s[i + 1]
      /\ Last(s) = s[Len(s)] /\ Head(s) = s[1]
  BY Ends
<1> HIDE DEF f, t
<1>2. Announcements(f, removals, there)
  BY <1>1 DEF Announcements
<1>3. ASSUME NEW i \in 1..Len(t), t[i].at \in Announced
      PROVE  Remembers(t[i], removals, there)
  <2>1. i + 1 \in 1..Len(s) /\ t[i] = s[i + 1]
    BY <1>1
  <2>2. QED
    BY <1>3, <2>1 DEF Announcements
<1>4. Len(s) \in 1..Len(s) /\ 1 \in 1..Len(s)
  BY <1>1
<1>5. QED
  BY <1>1, <1>2, <1>3, <1>4 DEF Announcements, f, t

\* What else is removed or read in leaves an announcement true.
LEMMA AnnouncedStays ==
  ASSUME NEW s, NEW removals \in [Packages -> Nat], NEW removals2 \in [Packages -> Nat],
         NEW there, NEW there2, Announcements(s, removals, there),
         \A p \in Packages :
            /\ removals[p] <= removals2[p]
            /\ removals[p] = removals2[p] /\ p \in there => p \in there2
  PROVE  Announcements(s, removals2, there2)
<1>1. ASSUME NEW a, Remembers(a, removals, there) PROVE Remembers(a, removals2, there2)
  BY <1>1 DEF Remembers
<1>2. QED
  BY <1>1 DEF Announcements

-----------------------------------------------------------------------------
\* What a step that leaves the profile alone keeps of it.
LEMMA ProfileKept ==
  ASSUME IInv, UNCHANGED profile
  PROVE  /\ mRemovalsOf' = mRemovalsOf /\ items' = items
         /\ Counted'
         /\ PackagesAt("importing", frames') = PackagesAt("importing", frames) => Listed'
<1>1. UNCHANGED <<mInstalledPackages, items, copies, mRemovalsOf>>
  BY DEF profile
<1>2. Counted'
  BY <1>1 DEF IInv, Counted
<1>3. PackagesAt("importing", frames') = PackagesAt("importing", frames) => Listed'
  BY <1>1 DEF IInv, Listed
<1>4. QED
  BY <1>1, <1>2, <1>3

LEMMA InvInit == ASSUME PackageChangesAssumption, Init PROVE IInv
<1>1. /\ Shape(frames) /\ Announcements(frames, mRemovalsOf, items)
      /\ Announcements(queue, mRemovalsOf, items)
  BY DEF Init, Shape, Announcements, PackageChangesAssumption
<1>2. Listed
  BY DEF Init, Listed, PackagesAt
<1>3. Counted
  BY DEF Init, Counted
<1>4. CallsOK
  BY DEF Init, CallsOK
<1>5. RestOK
  <2>1. {MaxInstalls, MaxSaves, MaxGiveUps} \subseteq Nat
    BY DEF PackageChangesAssumption
  <2>2. ~currentlySavingProfile
    BY DEF Init, currentlySavingProfile
  <2>3. installs \in 0..MaxInstalls /\ saves \in 0..MaxSaves /\ giveUps \in 0..MaxGiveUps
    BY <2>1 DEF Init
  <2>4. QED
    BY <2>2, <2>3 DEF Init, RestOK
<1>6. QED
  BY <1>1, <1>2, <1>3, <1>4, <1>5 DEF IInv

\* Steps that leave the stack and the queue alone.
LEMMA InvQuiet ==
  ASSUME IInv, UNCHANGED <<profile, frames, queue>>, CallsOK', RestOK'
  PROVE  IInv'
<1>1. Shape(frames)
  BY DEF IInv
<1>2. Shape(frames)'
  BY <1>1 DEF Shape
<1>3. /\ Announcements(frames, mRemovalsOf, items)'
      /\ Announcements(queue, mRemovalsOf, items)'
  BY ProfileKept DEF IInv
<1>4. Listed' /\ Counted'
  BY ProfileKept
<1>5. QED
  BY <1>2, <1>3, <1>4 DEF IInv

LEMMA InvScriptSaves == ASSUME PackageChangesAssumption, IInv, ScriptSaves PROVE IInv'
<1>1. UNCHANGED <<profile, frames, queue, waiting, posted, mUninstallsDeferredByAnInstall>>
  BY DEF ScriptSaves, calls
<1>2. CallsOK'
  BY <1>1 DEF IInv, CallsOK
<1>3. RestOK'
  BY DEF ScriptSaves, SaveProfile, IInv, RestOK, Listed, currentlySavingProfile, NoSave,
         PackageChangesAssumption
<1>4. QED
  BY <1>1, <1>2, <1>3, InvQuiet

LEMMA InvSaveEnds == ASSUME IInv, SaveEnds PROVE IInv'
<1>1. UNCHANGED <<profile, frames, queue, mUninstallsDeferredByAnInstall>>
  BY DEF SaveEnds
<1>2. CallsOK'
  <2>1. posted \o waiting \in Seq(LaterCalls) /\ <<>> \in Seq(LaterCalls)
    BY DEF IInv, CallsOK
  <2>2. QED
    BY <1>1, <2>1 DEF SaveEnds, IInv, CallsOK
<1>3. RestOK'
  BY DEF SaveEnds, IInv, RestOK, currentlySavingProfile
<1>4. QED
  BY <1>1, <1>2, <1>3, InvQuiet

LEMMA InvSaveTimerFires == ASSUME IInv, SaveTimerFires PROVE IInv'
<1>1. UNCHANGED <<profile, frames, queue, waiting, posted, mUninstallsDeferredByAnInstall>>
  BY DEF SaveTimerFires, calls
<1>2. CallsOK'
  BY <1>1 DEF IInv, CallsOK
<1>3. RestOK'
  BY DEF SaveTimerFires, SaveProfile, IInv, RestOK, Listed, currentlySavingProfile, NoSave
<1>4. QED
  BY <1>1, <1>2, <1>3, InvQuiet

-----------------------------------------------------------------------------
\* Frames.
LEMMA FrameFields ==
  ASSUME NEW f \in FrameRecords
  PROVE  /\ f.at \in {"unpacking"} \union OnTheirOwn \union Announced \union Drains
         /\ f.at \notin Drains => f.package \in Packages
         /\ f.at \in Drains =>
               f \in [at : Drains, requests : Seq(Packages), refused : Seq(Packages)]
         /\ f.at \in Announced =>
               f \in [at : Announced, package : Packages, copy : Nat, removals : Nat]
         /\ f.at \in {"unpacking"} \union OnTheirOwn =>
               f \in [at : {"unpacking"} \union OnTheirOwn, package : Packages]
  BY DEF FrameRecords, OnTheirOwn, Announced, Drains

LEMMA FrameIsOne ==
  ASSUME NEW at \in {"unpacking"} \union OnTheirOwn, NEW p \in Packages
  PROVE  Frame(at, p) \in FrameRecords /\ Frame(at, p).at = at /\ Frame(at, p).package = p
  BY DEF Frame, FrameRecords

\* The stack below the innermost call.
LEMMA Under ==
  ASSUME PackageChangesAssumption, IInv, Innermost # "none"
  PROVE  /\ frames # <<>> /\ Innermost = Top.at
         /\ Shape(Below) /\ Announcements(Below, mRemovalsOf, items)
         /\ Below \in Seq(FrameRecords) /\ Top \in FrameRecords
         /\ Top.at \in Announced => Remembers(Top, mRemovalsOf, items)
         /\ Len(Below) \in Nat /\ Len(Below) <= MaxDepth /\ Len(frames) = Len(Below) + 1
         /\ Top.at \in Drains => Len(Below) < MaxDepth
         /\ Top.at \in OnTheirOwn => Top.package \notin PackagesAt("importing", Below)
         /\ PackagesAt("importing", frames) = PackagesAt("importing", Below) \union
               (IF Top.at = "importing" THEN {Top.package} ELSE {})
<1>1. frames # <<>> /\ Innermost = Top.at
  BY DEF Innermost
<1>2. Shape(frames) /\ Announcements(frames, mRemovalsOf, items)
      /\ frames \in Seq(FrameRecords)
  BY DEF IInv, Shape
<1>3. /\ Shape(Below) /\ Top \in FrameRecords
      /\ Len(Below) \in Nat /\ Len(Below) <= MaxDepth /\ Len(frames) = Len(Below) + 1
      /\ Top.at \in Drains => Len(Below) < MaxDepth
      /\ Top.at \in OnTheirOwn => Top.package \notin PackagesAt("importing", Below)
      /\ PackagesAt("importing", frames) = PackagesAt("importing", Below) \union
            (IF Top.at = "importing" THEN {Top.package} ELSE {})
  BY <1>1, <1>2, Pop DEF Top, Below
<1>4. /\ Announcements(Below, mRemovalsOf, items)
      /\ Top.at \in Announced => Remembers(Top, mRemovalsOf, items)
  BY <1>1, <1>2, AnnouncedEnds DEF Top, Below
<1>5. Below \in Seq(FrameRecords)
  BY <1>3 DEF Shape
<1>6. QED
  BY <1>1, <1>3, <1>4, <1>5

\* Steps that leave the profile alone and change the stack.
LEMMA InvStack ==
  ASSUME IInv, UNCHANGED profile, CallsOK', RestOK',
         Shape(frames'), Announcements(frames', mRemovalsOf, items),
         PackagesAt("importing", frames') = PackagesAt("importing", frames),
         Announcements(queue', mRemovalsOf, items)
  PROVE  IInv'
<1>1. Shape(frames)'
  BY DEF Shape
<1>2. /\ Announcements(frames, mRemovalsOf, items)'
      /\ Announcements(queue, mRemovalsOf, items)'
  BY ProfileKept
<1>3. Listed' /\ Counted'
  BY ProfileKept
<1>4. QED
  BY <1>1, <1>2, <1>3 DEF IInv

\* A call of any kind but an import is put on a stack.
LEMMA Called ==
  ASSUME PackageChangesAssumption, NEW fs, Shape(fs), NEW removals, NEW there,
         Announcements(fs, removals, there),
         NEW f \in FrameRecords, Len(fs) <= MaxDepth, f.at # "importing",
         f.at \in Drains => Len(fs) < MaxDepth,
         f.at \in OnTheirOwn => f.package \notin PackagesAt("importing", fs),
         f.at \in Announced => Remembers(f, removals, there)
  PROVE  /\ Shape(Append(fs, f)) /\ Announcements(Append(fs, f), removals, there)
         /\ PackagesAt("importing", Append(fs, f)) = PackagesAt("importing", fs)
<1>1. Shape(Append(fs, f)) /\ PackagesAt("importing", Append(fs, f)) = PackagesAt("importing", fs)
  BY Push
<1>2. fs \in Seq(FrameRecords)
  BY DEF Shape
<1>3. Announcements(Append(fs, f), removals, there)
  BY <1>2, AnnouncedPush
<1>4. QED
  BY <1>1, <1>3

\* A package begins to be read in, by a call made from below.
LEMMA ImportStarts ==
  ASSUME PackageChangesAssumption, IInv, NEW below, Shape(below),
         Announcements(below, mRemovalsOf, items), Len(below) <= MaxDepth,
         PackagesAt("importing", below) = PackagesAt("importing", frames),
         NEW p \in Packages, ~InUse(p), StartImport(p, below)
  PROVE  /\ Shape(frames') /\ Announcements(frames', mRemovalsOf', items')
         /\ Listed' /\ Counted'
         /\ mRemovalsOf' = mRemovalsOf /\ items' = items
<1> DEFINE f == Frame("importing", p)
<1>1. f \in FrameRecords /\ f.at = "importing" /\ f.package = p
  BY FrameIsOne DEF OnTheirOwn
<1>2. p \notin PackagesAt("importing", frames) /\ p \notin mInstalledPackages
  BY DEF InUse, mPackagesBeingInstalled
<1>3. frames' = Append(below, f) /\ mRemovalsOf' = mRemovalsOf /\ items' = items
      /\ mInstalledPackages' = mInstalledPackages \union {p}
      /\ copies' = [copies EXCEPT ![p] = @ + 1]
  BY DEF StartImport
<1> HIDE DEF f
<1>4. /\ Shape(frames')
      /\ PackagesAt("importing", frames') = PackagesAt("importing", frames) \union {p}
  BY <1>1, <1>2, <1>3, Push DEF Drains
<1>5. Announcements(frames', mRemovalsOf', items')
  <2>1. below \in Seq(FrameRecords)
    BY DEF Shape
  <2>2. QED
    BY <1>1, <1>3, <2>1, AnnouncedPush DEF Announced
<1>6. Listed'
  <2>1. (PackagesAt("importing", frames))' = PackagesAt("importing", frames')
    BY DEF PackagesAt
  <2>2. QED
    BY <1>2, <1>3, <1>4, <2>1 DEF IInv, Listed
<1>7. Counted'
  BY <1>2, <1>3 DEF IInv, Counted
<1>8. QED
  BY <1>3, <1>4, <1>5, <1>6, <1>7

LEMMA InvParts ==
  ASSUME Shape(frames'), Announcements(frames', mRemovalsOf', items'), Listed', Counted',
         CallsOK', Announcements(queue', mRemovalsOf', items'), RestOK'
  PROVE  IInv'
<1>1. Shape(frames)'
  BY DEF Shape
<1>2. QED
  BY <1>1 DEF IInv

LEMMA InstallBegins ==
  ASSUME PackageChangesAssumption, IInv, MayNest, NEW p \in Packages, ~InUse(p),
         NEW quick \in BOOLEAN, BeginInstall(p, quick)
  PROVE  /\ Shape(frames') /\ Announcements(frames', mRemovalsOf', items')
         /\ Listed' /\ Counted'
         /\ mRemovalsOf' = mRemovalsOf /\ items' = items
<1>1. Shape(frames) /\ Announcements(frames, mRemovalsOf, items)
      /\ Len(frames) \in Nat /\ MaxDepth \in Nat
  <2>1. Shape(frames) /\ Announcements(frames, mRemovalsOf, items)
    BY DEF IInv
  <2>2. Len(frames) \in Nat
    BY <2>1 DEF Shape
  <2>3. QED
    BY <2>1, <2>2 DEF PackageChangesAssumption
<1>2. Len(frames) < MaxDepth
  BY DEF MayNest
<1>3. CASE quick
  <2>1. StartImport(p, frames)
    BY <1>3 DEF BeginInstall
  <2>2. QED
    BY <1>1, <1>2, <2>1, ImportStarts
<1>4. CASE ~quick
  <2> DEFINE f == Frame("unpacking", p)
  <2>1. frames' = Append(frames, f) /\ UNCHANGED profile
    BY <1>4 DEF BeginInstall
  <2>2. f \in FrameRecords /\ f.at = "unpacking"
    BY FrameIsOne
  <2> HIDE DEF f
  <2>3. /\ Shape(frames') /\ Announcements(frames', mRemovalsOf, items)
        /\ PackagesAt("importing", frames') = PackagesAt("importing", frames)
    BY <1>1, <1>2, <2>1, <2>2, Called DEF Drains, OnTheirOwn, Announced
  <2>4. QED
    BY <2>1, <2>3, ProfileKept
<1>5. QED
  BY <1>3, <1>4

LEMMA InvInstallPackage ==
  ASSUME PackageChangesAssumption, IInv, NEW p \in Packages, NEW quick \in BOOLEAN,
         InstallPackage(p, quick)
  PROVE  IInv'
<1>1. RestOK'
  BY DEF InstallPackage, saveVars, IInv, RestOK, currentlySavingProfile,
         PackageChangesAssumption
<1>2. UNCHANGED <<queue, posted, mUninstallsDeferredByAnInstall>>
  BY DEF InstallPackage
<1>3. CASE MayNest /\ ~InUse(p) /\ BeginInstall(p, quick) /\ UNCHANGED waiting
  <2>1. /\ Shape(frames') /\ Announcements(frames', mRemovalsOf', items')
        /\ Listed' /\ Counted' /\ mRemovalsOf' = mRemovalsOf /\ items' = items
    BY <1>3, InstallBegins
  <2>2. CallsOK'
    BY <1>2, <1>3 DEF IInv, CallsOK
  <2>3. Announcements(queue', mRemovalsOf', items')
    BY <1>2, <2>1 DEF IInv
  <2>4. QED
    BY <1>1, <2>1, <2>2, <2>3, InvParts
<1>4. CASE waiting' = Append(waiting, Frame("install", p)) /\ UNCHANGED <<profile, frames>>
  <2>1. Frame("install", p) \in LaterCalls
    BY DEF Frame, LaterCalls
  <2>2. CallsOK'
    BY <1>2, <1>4, <2>1 DEF IInv, CallsOK
  <2>3. QED
    BY <1>1, <1>2, <1>4, <2>2, InvQuiet
<1>5. QED
  BY <1>3, <1>4 DEF InstallPackage

LEMMA InvUnpacked ==
  ASSUME PackageChangesAssumption, IInv, NEW succeeds \in BOOLEAN, Unpacked(succeeds)
  PROVE  IInv'
<1>1. UNCHANGED <<queue, waiting, posted, mUninstallsDeferredByAnInstall>> /\ CallsOK' /\ RestOK'
  BY DEF Unpacked, calls, saveVars, IInv, CallsOK, RestOK, currentlySavingProfile
<1>2. /\ frames # <<>> /\ Top.at = "unpacking"
      /\ Shape(Below) /\ Announcements(Below, mRemovalsOf, items)
      /\ Len(Below) <= MaxDepth /\ Top \in FrameRecords
      /\ PackagesAt("importing", Below) = PackagesAt("importing", frames)
  BY Under DEF Unpacked
<1>3. Top.package \in Packages
  BY <1>2, FrameFields DEF Drains
<1>4. CASE succeeds /\ ~InUse(Top.package)
  <2>1. StartImport(Top.package, Below)
    BY <1>4 DEF Unpacked
  <2>2. /\ Shape(frames') /\ Announcements(frames', mRemovalsOf', items')
        /\ Listed' /\ Counted' /\ mRemovalsOf' = mRemovalsOf /\ items' = items
    BY <1>2, <1>3, <1>4, <2>1, ImportStarts
  <2>3. Announcements(queue', mRemovalsOf', items')
    BY <1>1, <2>2 DEF IInv
  <2>4. QED
    BY <1>1, <2>2, <2>3, InvParts
<1>5. CASE ~(succeeds /\ ~InUse(Top.package))
  <2>1. frames' = Below /\ UNCHANGED profile
    BY <1>5 DEF Unpacked
  <2>2. Announcements(queue', mRemovalsOf, items)
    BY <1>1 DEF IInv
  <2>3. QED
    BY <1>1, <1>2, <2>1, <2>2, InvStack
<1>6. QED
  BY <1>4, <1>5

LEMMA InvInstallEnds == ASSUME PackageChangesAssumption, IInv, InstallEnds PROVE IInv'
<1> DEFINE p == Top.package
           a == Announcement(p)
           drains == PackagesAt("importing", Below) = {} /\ mUninstallsDeferredByAnInstall # <<>>
           d == Removals("drain", mUninstallsDeferredByAnInstall)
<1>1. /\ frames # <<>> /\ Top.at = "importing"
      /\ Shape(Below) /\ Announcements(Below, mRemovalsOf, items)
      /\ Len(Below) <= MaxDepth /\ Top \in FrameRecords
      /\ Top.package \notin PackagesAt("importing", Below)
      /\ PackagesAt("importing", frames) = PackagesAt("importing", Below) \union {p}
  BY Under DEF InstallEnds, OnTheirOwn
<1>2. p \in Packages
  BY <1>1, FrameFields DEF Drains
<1>3. /\ items' = items \union {p} /\ frames' = Below
      /\ queue' = Append(queue, a) \o (IF drains THEN <<d>> ELSE <<>>)
      /\ mUninstallsDeferredByAnInstall' = IF drains THEN <<>> ELSE mUninstallsDeferredByAnInstall
      /\ UNCHANGED <<mInstalledPackages, copies, mRemovalsOf, waiting, posted>>
  BY DEF InstallEnds
<1>4. RestOK'
  BY DEF InstallEnds, IInv, RestOK, currentlySavingProfile
<1>5. p \in mInstalledPackages /\ p \notin items
  BY <1>1 DEF IInv, Listed
<1>6. mRemovalsOf \in [Packages -> Nat] /\ copies[p] = mRemovalsOf[p] + 1
  BY <1>2, <1>5 DEF IInv, Counted
<1>7. a \in Calls /\ d \in Calls /\ a.at = "sysInstall" /\ d.at = "drain"
      /\ Remembers(a, mRemovalsOf, items')
  <2>1. a \in Calls /\ a.at = "sysInstall"
    BY <1>2, <1>6 DEF Calls, Announcement
  <2>2. d \in Calls /\ d.at = "drain"
    BY DEF Calls, Removals, IInv, CallsOK
  <2>3. Remembers(a, mRemovalsOf, items')
    BY <1>2, <1>3, <1>6 DEF Remembers, Announcement
  <2>4. QED
    BY <2>1, <2>2, <2>3
<1> HIDE DEF a, d, drains
<1>8. /\ queue \in Seq(Calls)
      /\ queue' = IF drains THEN Append(Append(queue, a), d) ELSE Append(queue, a)
  <2>1. queue \in Seq(Calls) /\ Append(queue, a) \in Seq(Calls)
    BY <1>7 DEF IInv, CallsOK
  <2>2. Append(queue, a) \o <<>> = Append(queue, a)
    BY <2>1
  <2>3. Append(queue, a) \o <<d>> = Append(Append(queue, a), d)
    BY <1>7, <2>1
  <2>4. QED
    BY <1>3, <2>1, <2>2, <2>3
<1>9. CallsOK'
  BY <1>3, <1>7, <1>8 DEF IInv, CallsOK
<1>10. /\ Announcements(queue, mRemovalsOf, items')
       /\ Announcements(Below, mRemovalsOf, items')
  <2>1. \A q \in Packages : mRemovalsOf[q] <= mRemovalsOf[q] /\ (q \in items => q \in items')
    BY <1>3, <1>6
  <2>2. Announcements(queue, mRemovalsOf, items)
    BY DEF IInv
  <2>3. QED
    BY <1>1, <1>6, <2>1, <2>2, AnnouncedStays
<1>11. Announcements(queue', mRemovalsOf', items')
  <2>1. Append(queue, a) \in Seq(Calls) /\ Announcements(Append(queue, a), mRemovalsOf, items')
    BY <1>7, <1>8, <1>10, AnnouncedPush
  <2>2. Announcements(Append(Append(queue, a), d), mRemovalsOf, items')
    BY <1>7, <2>1, AnnouncedPush DEF Announced
  <2>3. QED
    BY <1>3, <1>8, <2>1, <2>2
<1>12. Listed'
  <2>1. (PackagesAt("importing", frames))' = PackagesAt("importing", frames')
    BY DEF PackagesAt
  <2>2. QED
    BY <1>1, <1>3, <1>5, <2>1 DEF IInv, Listed
<1>13. Counted'
  BY <1>3 DEF IInv, Counted
<1>14. QED
  BY <1>1, <1>3, <1>4, <1>9, <1>10, <1>11, <1>12, <1>13, InvParts

LEMMA InvAnnouncementGoesOn ==
  ASSUME PackageChangesAssumption, IInv, AnnouncementGoesOn PROVE IInv'
<1>1. UNCHANGED <<profile, queue, waiting, posted, mUninstallsDeferredByAnInstall>>
      /\ CallsOK' /\ RestOK'
  BY DEF AnnouncementGoesOn, calls, saveVars, IInv, CallsOK, RestOK, currentlySavingProfile
<1>2. /\ frames # <<>> /\ Top.at \in Announced
      /\ Shape(Below) /\ Announcements(Below, mRemovalsOf, items)
      /\ Len(Below) <= MaxDepth /\ Top \in FrameRecords
      /\ Remembers(Top, mRemovalsOf, items)
      /\ PackagesAt("importing", Below) = PackagesAt("importing", frames)
  BY Under DEF AnnouncementGoesOn, Announced
<1> DEFINE f == [Top EXCEPT !.at = "sysInstallPackage"]
<1>3. /\ f \in FrameRecords /\ f.at = "sysInstallPackage"
      /\ Remembers(f, mRemovalsOf, items)
  <2>1. Top \in [at : Announced, package : Packages, copy : Nat, removals : Nat]
    BY <1>2, FrameFields
  <2>2. f \in [at : Announced, package : Packages, copy : Nat, removals : Nat]
    BY <2>1 DEF Announced
  <2>3. /\ f.at = "sysInstallPackage" /\ f.package = Top.package
        /\ f.copy = Top.copy /\ f.removals = Top.removals
    BY <2>1
  <2>4. QED
    BY <1>2, <2>2, <2>3 DEF FrameRecords, Remembers
<1> HIDE DEF f
<1>4. /\ Shape(Append(Below, f)) /\ Announcements(Append(Below, f), mRemovalsOf, items)
      /\ PackagesAt("importing", Append(Below, f)) = PackagesAt("importing", Below)
  BY <1>2, <1>3, Called DEF Drains, OnTheirOwn
<1>5. frames' = Below \/ frames' = Append(Below, f)
  BY DEF AnnouncementGoesOn, f
<1>6. Announcements(queue', mRemovalsOf, items)
  BY <1>1 DEF IInv
<1>7. QED
  BY <1>1, <1>2, <1>4, <1>5, <1>6, InvStack

-----------------------------------------------------------------------------
\* A removal returns, to a drain or another caller.
LEMMA Returned ==
  ASSUME PackageChangesAssumption, IInv, Innermost \in {"uninstalling", "waiting"},
         NEW removed \in BOOLEAN, Return(Below, removed)
  PROVE  /\ Shape(frames') /\ Announcements(frames', mRemovalsOf, items)
         /\ PackagesAt("importing", frames') = PackagesAt("importing", frames)
         /\ Top.package \in Packages /\ Top.package \notin PackagesAt("importing", frames)
<1>1. /\ Shape(Below) /\ Announcements(Below, mRemovalsOf, items)
      /\ Below \in Seq(FrameRecords) /\ Top \in FrameRecords
      /\ Top.at \in {"uninstalling", "waiting"}
      /\ Top.package \notin PackagesAt("importing", Below)
      /\ PackagesAt("importing", Below) = PackagesAt("importing", frames)
  BY Under DEF OnTheirOwn
<1>2. Top.package \in Packages
  BY <1>1, FrameFields DEF Drains
<1>3. CASE frames' = Below
  BY <1>1, <1>2, <1>3
<1>4. CASE frames' # Below
  <2> DEFINE g == Last(Below)
             f == [g EXCEPT !.refused = Append(@, Top.package)]
  <2>1. Below # <<>> /\ g.at = "draining" /\ frames' = Append(Front(Below), f)
    BY <1>4 DEF Return
  <2>2. /\ Shape(Front(Below)) /\ g \in FrameRecords
        /\ Len(Front(Below)) \in Nat /\ Len(Front(Below)) <= MaxDepth
        /\ g.at \in Drains => Len(Front(Below)) < MaxDepth
        /\ PackagesAt("importing", Below) = PackagesAt("importing", Front(Below)) \union
              (IF g.at = "importing" THEN {g.package} ELSE {})
    BY <1>1, <2>1, Pop
  <2>3. Announcements(Front(Below), mRemovalsOf, items)
    BY <1>1, <2>1, AnnouncedEnds
  <2>4. f \in FrameRecords /\ f.at = "draining"
    <3>1. g \in [at : Drains, requests : Seq(Packages), refused : Seq(Packages)]
      BY <2>1, <2>2, FrameFields DEF Drains
    <3>2. Append(g.refused, Top.package) \in Seq(Packages)
      BY <1>2, <3>1
    <3>3. f \in [at : Drains, requests : Seq(Packages), refused : Seq(Packages)]
          /\ f.at = g.at
      BY <3>1, <3>2
    <3>4. QED
      BY <2>1, <3>3 DEF FrameRecords
  <2> HIDE DEF f, g
  <2>5. /\ Shape(frames') /\ Announcements(frames', mRemovalsOf, items)
        /\ PackagesAt("importing", frames') = PackagesAt("importing", Front(Below))
    BY <2>1, <2>2, <2>3, <2>4, Called DEF Drains, OnTheirOwn, Announced
  <2>6. QED
    BY <1>1, <1>2, <2>1, <2>2, <2>5
<1>5. QED
  BY <1>3, <1>4

LEMMA Removed ==
  ASSUME PackageChangesAssumption, IInv, Innermost \in {"uninstalling", "waiting"},
         FinishRemoval(Top.package), CallsOK', RestOK', UNCHANGED queue
  PROVE  IInv'
<1> DEFINE p == Top.package
           removes == p \in mInstalledPackages /\ ~currentlySavingProfile
<1>1. Return(Below, removes \/ p \notin mInstalledPackages)
  BY DEF FinishRemoval
<1>2. /\ Shape(frames') /\ Announcements(frames', mRemovalsOf, items)
      /\ PackagesAt("importing", frames') = PackagesAt("importing", frames)
      /\ p \in Packages /\ p \notin PackagesAt("importing", frames)
  BY <1>1, Returned
<1>3. Announcements(queue, mRemovalsOf, items)
  BY DEF IInv
<1>4. CASE ~removes
  <2>1. UNCHANGED profile
    BY <1>4 DEF FinishRemoval
  <2>2. QED
    BY <1>2, <1>3, <2>1, InvStack
<1>5. CASE removes
  <2>1. /\ mInstalledPackages' = mInstalledPackages \ {p} /\ items' = items \ {p}
        /\ mRemovalsOf' = [mRemovalsOf EXCEPT ![p] = @ + 1] /\ copies' = copies
    BY <1>5 DEF FinishRemoval, TakeOut
  <2>2. mRemovalsOf \in [Packages -> Nat] /\ mRemovalsOf' \in [Packages -> Nat]
    BY <1>2, <2>1 DEF IInv, Counted
  <2>3. \A q \in Packages :
           /\ mRemovalsOf[q] <= mRemovalsOf'[q]
           /\ mRemovalsOf[q] = mRemovalsOf'[q] /\ q \in items => q \in items'
    BY <1>2, <2>1, <2>2
  <2>4. /\ Announcements(frames', mRemovalsOf', items')
        /\ Announcements(queue, mRemovalsOf', items')
    BY <1>2, <1>3, <2>2, <2>3, AnnouncedStays
  <2>5. Listed'
    <3>1. (PackagesAt("importing", frames))' = PackagesAt("importing", frames')
      BY DEF PackagesAt
    <3>2. QED
      BY <1>2, <2>1, <3>1 DEF IInv, Listed
  <2>6. Counted'
    BY <1>2, <1>5, <2>1, <2>2 DEF IInv, Counted
  <2>7. QED
    BY <1>2, <2>4, <2>5, <2>6, InvParts
<1>6. QED
  BY <1>4, <1>5

LEMMA InvUninstallPackage ==
  ASSUME PackageChangesAssumption, IInv, NEW p \in Packages, UninstallPackage(p)
  PROVE  IInv'
<1>1. UNCHANGED <<profile, queue, waiting, posted>> /\ RestOK'
  BY DEF UninstallPackage, calls, saveVars, IInv, RestOK, currentlySavingProfile
<1>2. CASE p \in mPackagesBeingInstalled
  <2>1. UNCHANGED frames /\ mUninstallsDeferredByAnInstall' \in Seq(Packages)
    <3>1. mUninstallsDeferredByAnInstall \in Seq(Packages)
      BY DEF IInv, CallsOK
    <3>2. Append(mUninstallsDeferredByAnInstall, p) \in Seq(Packages)
      BY <3>1
    <3>3. UNCHANGED frames
          /\ mUninstallsDeferredByAnInstall' \in
                {mUninstallsDeferredByAnInstall, Append(mUninstallsDeferredByAnInstall, p)}
      BY <1>2 DEF UninstallPackage, UninstallCall
    <3>4. QED
      BY <3>1, <3>2, <3>3
  <2>2. CallsOK'
    BY <1>1, <2>1 DEF IInv, CallsOK
  <2>3. QED
    BY <1>1, <2>1, <2>2, InvQuiet
<1>3. CASE p \notin mPackagesBeingInstalled
  <2> DEFINE f == Frame("uninstalling", p)
  <2>1. MayNest /\ frames' = Append(frames, f) /\ UNCHANGED mUninstallsDeferredByAnInstall
    BY <1>3 DEF UninstallPackage, UninstallCall
  <2>2. f \in FrameRecords /\ f.at = "uninstalling" /\ f.package = p
    BY FrameIsOne DEF OnTheirOwn
  <2> HIDE DEF f
  <2>3. Shape(frames) /\ Announcements(frames, mRemovalsOf, items)
        /\ Announcements(queue', mRemovalsOf, items)
    BY <1>1 DEF IInv
  <2>4. Len(frames) <= MaxDepth
    <3>1. Len(frames) \in Nat /\ MaxDepth \in Nat
      BY <2>3 DEF Shape, PackageChangesAssumption
    <3>2. QED
      BY <2>1, <3>1 DEF MayNest
  <2>5. /\ Shape(frames') /\ Announcements(frames', mRemovalsOf, items)
        /\ PackagesAt("importing", frames') = PackagesAt("importing", frames)
    BY <1>3, <2>1, <2>2, <2>3, <2>4, Called DEF Drains, Announced, mPackagesBeingInstalled
  <2>6. CallsOK'
    BY <1>1, <2>1 DEF IInv, CallsOK
  <2>7. QED
    BY <1>1, <2>3, <2>5, <2>6, InvStack
<1>4. QED
  BY <1>2, <1>3

LEMMA InvHandlersReturn ==
  ASSUME PackageChangesAssumption, IInv, HandlersReturn PROVE IInv'
<1>1. UNCHANGED <<queue, waiting, posted, mUninstallsDeferredByAnInstall>> /\ CallsOK'
  BY DEF HandlersReturn, calls, IInv, CallsOK
<1>2. RestOK'
  BY DEF HandlersReturn, FinishRemoval, TakeOut, IInv, RestOK, currentlySavingProfile
<1>3. Innermost = "uninstalling"
  BY DEF HandlersReturn
<1>4. CASE ~currentlySavingProfile
  <2>1. FinishRemoval(Top.package)
    BY <1>4 DEF HandlersReturn
  <2>2. QED
    BY <1>1, <1>2, <1>3, <2>1, Removed
<1>5. CASE currentlySavingProfile
  <2> DEFINE f == [Top EXCEPT !.at = "waiting"]
  <2>1. frames' = Append(Below, f) /\ UNCHANGED profile
    BY <1>5 DEF HandlersReturn
  <2>2. /\ Shape(Below) /\ Announcements(Below, mRemovalsOf, items)
        /\ Len(Below) <= MaxDepth /\ Top \in FrameRecords /\ Top.at = "uninstalling"
        /\ Top.package \notin PackagesAt("importing", Below)
        /\ PackagesAt("importing", Below) = PackagesAt("importing", frames)
    BY <1>3, Under DEF OnTheirOwn
  <2>3. f \in FrameRecords /\ f.at = "waiting" /\ f.package = Top.package
    <3>1. Top \in [at : {"unpacking"} \union OnTheirOwn, package : Packages]
      BY <2>2, FrameFields DEF OnTheirOwn
    <3>2. f \in [at : {"unpacking"} \union OnTheirOwn, package : Packages]
          /\ f.at = "waiting" /\ f.package = Top.package
      BY <3>1 DEF OnTheirOwn
    <3>3. QED
      BY <3>2 DEF FrameRecords
  <2> HIDE DEF f
  <2>4. /\ Shape(frames') /\ Announcements(frames', mRemovalsOf, items)
        /\ PackagesAt("importing", frames') = PackagesAt("importing", Below)
    BY <2>1, <2>2, <2>3, Called DEF Drains, Announced
  <2>5. Announcements(queue', mRemovalsOf, items)
    BY <1>1 DEF IInv
  <2>6. QED
    BY <1>1, <1>2, <2>1, <2>2, <2>4, <2>5, InvStack
<1>6. QED
  BY <1>4, <1>5

\* The bound on waits that are given up.
LEMMA WaitsCounted == ASSUME PackageChangesAssumption, IInv, Waited PROVE giveUps' \in 0..MaxGiveUps
<1>1. MaxGiveUps \in Nat /\ giveUps \in Nat
  BY DEF IInv, RestOK, PackageChangesAssumption
<1>2. giveUps' \in Nat
  BY <1>1 DEF Waited
<1>3. QED
  BY <1>1, <1>2 DEF Waited

LEMMA InvWaitEnds == ASSUME PackageChangesAssumption, IInv, WaitEnds PROVE IInv'
<1>1. UNCHANGED <<queue, waiting, posted, mUninstallsDeferredByAnInstall>> /\ CallsOK'
  BY DEF WaitEnds, calls, IInv, CallsOK
<1>2. RestOK'
  BY WaitsCounted DEF WaitEnds, FinishRemoval, TakeOut, IInv, RestOK, currentlySavingProfile
<1>3. QED
  BY <1>1, <1>2, Removed DEF WaitEnds

-----------------------------------------------------------------------------
\* Drains.
LEMMA DrainFields ==
  ASSUME NEW g \in FrameRecords, g.at \in Drains
  PROVE  g.requests \in Seq(Packages) /\ g.refused \in Seq(Packages)
  BY FrameFields

\* A drain is innermost on the stack with f on top of what is below it.
LEMMA DrainIs ==
  ASSUME PackageChangesAssumption, IInv, Innermost \in Drains,
         NEW f \in FrameRecords, f.at = "draining"
  PROVE  /\ Shape(Append(Below, f)) /\ Announcements(Append(Below, f), mRemovalsOf, items)
         /\ PackagesAt("importing", Append(Below, f)) = PackagesAt("importing", frames)
         /\ Append(Below, f) \in Seq(FrameRecords)
         /\ Len(Append(Below, f)) <= MaxDepth
<1>1. /\ Shape(Below) /\ Announcements(Below, mRemovalsOf, items)
      /\ Below \in Seq(FrameRecords) /\ Len(Below) \in Nat
      /\ Len(Below) < MaxDepth /\ MaxDepth \in Nat
      /\ PackagesAt("importing", Below) = PackagesAt("importing", frames)
  BY Under DEF Drains, PackageChangesAssumption
<1>2. /\ Shape(Append(Below, f)) /\ Announcements(Append(Below, f), mRemovalsOf, items)
      /\ PackagesAt("importing", Append(Below, f)) = PackagesAt("importing", Below)
  BY <1>1, Called DEF OnTheirOwn, Announced
<1>3. Append(Below, f) \in Seq(FrameRecords) /\ Len(Append(Below, f)) = Len(Below) + 1
  BY <1>1, Appended
<1>4. QED
  BY <1>1, <1>2, <1>3

LEMMA InvDrainWaitEnds == ASSUME PackageChangesAssumption, IInv, DrainWaitEnds PROVE IInv'
<1>1. UNCHANGED <<profile, queue, waiting, posted, mUninstallsDeferredByAnInstall>> /\ CallsOK'
  BY DEF DrainWaitEnds, calls, IInv, CallsOK
<1>2. RestOK'
  BY WaitsCounted DEF DrainWaitEnds, saveVars, IInv, RestOK, currentlySavingProfile
<1> DEFINE f == [Top EXCEPT !.at = "draining"]
<1>3. f \in FrameRecords /\ f.at = "draining"
  <2>1. Top \in [at : Drains, requests : Seq(Packages), refused : Seq(Packages)]
    BY Under, FrameFields DEF DrainWaitEnds, Drains
  <2>2. f \in [at : Drains, requests : Seq(Packages), refused : Seq(Packages)]
        /\ f.at = "draining"
    BY <2>1 DEF Drains
  <2>3. QED
    BY <2>2 DEF FrameRecords
<1>4. frames' = Append(Below, f) /\ Innermost \in Drains
  BY DEF DrainWaitEnds, Drains
<1> HIDE DEF f
<1>5. /\ Shape(frames') /\ Announcements(frames', mRemovalsOf, items)
      /\ PackagesAt("importing", frames') = PackagesAt("importing", frames)
  BY <1>3, <1>4, DrainIs
<1>6. Announcements(queue', mRemovalsOf, items)
  BY <1>1 DEF IInv
<1>7. QED
  BY <1>1, <1>2, <1>5, <1>6, InvStack

LEMMA InvDrainNext == ASSUME PackageChangesAssumption, IInv, DrainNext PROVE IInv'
<1> DEFINE p == Head(Top.requests)
           taken == [Top EXCEPT !.requests = Tail(@)]
           refused == [taken EXCEPT !.refused = Append(@, p)]
           u == Frame("uninstalling", p)
<1>1. /\ Innermost = "draining" /\ Top.requests # <<>>
      /\ UNCHANGED <<profile, queue, waiting, posted>>
  BY DEF DrainNext, calls
<1>2. RestOK'
  BY DEF DrainNext, saveVars, IInv, RestOK, currentlySavingProfile
<1>3. /\ taken \in FrameRecords /\ taken.at = "draining"
      /\ refused \in FrameRecords /\ refused.at = "draining"
      /\ p \in Packages
  <2>1. Top.at = "draining"
        /\ Top \in [at : Drains, requests : Seq(Packages), refused : Seq(Packages)]
    BY <1>1, Under, FrameFields DEF Drains
  <2>2. p \in Packages /\ Tail(Top.requests) \in Seq(Packages)
    BY <1>1, <2>1
  <2>3. taken \in [at : Drains, requests : Seq(Packages), refused : Seq(Packages)]
        /\ taken.at = "draining"
    BY <2>1, <2>2
  <2>4. taken.refused = Top.refused /\ Top.refused \in Seq(Packages)
    BY <2>1
  <2>5. Append(taken.refused, p) \in Seq(Packages)
    BY <2>2, <2>4
  <2>6. refused \in [at : Drains, requests : Seq(Packages), refused : Seq(Packages)]
        /\ refused.at = "draining"
    BY <2>3, <2>5
  <2>7. QED
    BY <2>2, <2>3, <2>6 DEF FrameRecords
<1>4. CASE /\ p \notin mPackagesBeingInstalled
           /\ frames' = Below \o <<taken, u>> /\ UNCHANGED mUninstallsDeferredByAnInstall
  <2> DEFINE fs == Append(Below, taken)
  <2> HIDE DEF taken, refused
  <2>1. /\ Shape(fs) /\ Announcements(fs, mRemovalsOf, items)
        /\ PackagesAt("importing", fs) = PackagesAt("importing", frames)
        /\ Len(fs) <= MaxDepth
    BY <1>1, <1>3, DrainIs DEF Drains
  <2>2. u \in FrameRecords /\ u.at = "uninstalling" /\ u.package = p
    BY <1>3, FrameIsOne DEF OnTheirOwn
  <2>3. frames' = Append(fs, u)
    <3>1. Below \in Seq(FrameRecords)
      BY <1>1, Under
    <3>2. Below \o <<taken, u>> = Append(Append(Below, taken), u)
      BY <1>3, <2>2, <3>1
    <3>3. QED
      BY <1>4, <3>2
  <2> HIDE DEF fs, u
  <2>4. /\ Shape(frames') /\ Announcements(frames', mRemovalsOf, items)
        /\ PackagesAt("importing", frames') = PackagesAt("importing", fs)
    BY <1>4, <2>1, <2>2, <2>3, Called DEF Drains, Announced, mPackagesBeingInstalled
  <2>5. CallsOK' /\ Announcements(queue', mRemovalsOf, items)
    BY <1>1, <1>4 DEF IInv, CallsOK
  <2>6. QED
    BY <1>1, <1>2, <2>1, <2>4, <2>5, InvStack
<1>5. CASE /\ frames' \in {Append(Below, taken), Append(Below, refused)}
           /\ mUninstallsDeferredByAnInstall' \in
                 {mUninstallsDeferredByAnInstall, Append(mUninstallsDeferredByAnInstall, p)}
  <2> HIDE DEF taken, refused
  <2>1. /\ Shape(frames') /\ Announcements(frames', mRemovalsOf, items)
        /\ PackagesAt("importing", frames') = PackagesAt("importing", frames)
    <3>1. Innermost \in Drains
      BY <1>1 DEF Drains
    <3>2. CASE frames' = Append(Below, taken)
      BY <1>3, <3>1, <3>2, DrainIs
    <3>3. CASE frames' = Append(Below, refused)
      BY <1>3, <3>1, <3>3, DrainIs
    <3>4. QED
      BY <1>5, <3>2, <3>3
  <2>2. mUninstallsDeferredByAnInstall \in Seq(Packages)
        /\ Append(mUninstallsDeferredByAnInstall, p) \in Seq(Packages)
    BY <1>3 DEF IInv, CallsOK
  <2>3. CallsOK' /\ Announcements(queue', mRemovalsOf, items)
    BY <1>1, <1>5, <2>2 DEF IInv, CallsOK
  <2>4. QED
    BY <1>1, <1>2, <2>1, <2>3, InvStack
<1>6. QED
  BY <1>4, <1>5 DEF DrainNext

LEMMA InvDrainEnds == ASSUME PackageChangesAssumption, IInv, DrainEnds PROVE IInv'
<1>1. UNCHANGED <<profile, queue, posted, mUninstallsDeferredByAnInstall>> /\ RestOK'
  BY DEF DrainEnds, saveVars, IInv, RestOK, currentlySavingProfile
<1>2. /\ Shape(Below) /\ Announcements(Below, mRemovalsOf, items)
      /\ Top \in FrameRecords /\ Top.at = "draining"
      /\ PackagesAt("importing", Below) = PackagesAt("importing", frames)
  BY Under DEF DrainEnds
<1>3. CallsOK'
  <2>1. Top.refused \in Seq(Packages)
    BY <1>2, DrainFields DEF Drains
  <2>2. Removals("drain", Top.refused) \in LaterCalls
    BY <2>1 DEF Removals, LaterCalls
  <2>3. waiting \in Seq(LaterCalls) /\ Append(waiting, Removals("drain", Top.refused)) \in Seq(LaterCalls)
    BY <2>2 DEF IInv, CallsOK
  <2>4. QED
    BY <1>1, <2>3 DEF DrainEnds, IInv, CallsOK
<1>4. frames' = Below
  BY DEF DrainEnds
<1>5. Announcements(queue', mRemovalsOf, items)
  BY <1>1 DEF IInv
<1>6. QED
  BY <1>1, <1>2, <1>3, <1>4, <1>5, InvStack

-----------------------------------------------------------------------------
\* The event loop makes a call.
LEMMA DrainCalled ==
  ASSUME PackageChangesAssumption, IInv, MayNest, NEW call,
         call \in [at : {"drain"}, requests : Seq(Packages), refused : {<<>>}], Drain(call)
  PROVE  /\ Shape(frames') /\ Announcements(frames', mRemovalsOf, items)
         /\ PackagesAt("importing", frames') = PackagesAt("importing", frames)
         /\ UNCHANGED profile
<1> DEFINE f == [call EXCEPT !.at = "toDrain"]
<1>1. frames' = Append(frames, f) /\ UNCHANGED profile
  BY DEF Drain
<1>2. f \in FrameRecords /\ f.at = "toDrain"
  <2>1. <<>> \in Seq(Packages)
    OBVIOUS
  <2>2. f \in [at : Drains, requests : Seq(Packages), refused : Seq(Packages)]
        /\ f.at = "toDrain"
    BY <2>1 DEF Drains
  <2>3. QED
    BY <2>2 DEF FrameRecords
<1> HIDE DEF f
<1>3. Shape(frames) /\ Announcements(frames, mRemovalsOf, items)
  BY DEF IInv
<1>4. Len(frames) < MaxDepth /\ Len(frames) \in Nat /\ MaxDepth \in Nat
  BY <1>3 DEF MayNest, Shape, PackageChangesAssumption
<1>5. QED
  BY <1>1, <1>2, <1>3, <1>4, Called DEF OnTheirOwn, Announced

LEMMA InvQueuedCall == ASSUME PackageChangesAssumption, IInv, QueuedCall PROVE IInv'
<1> DEFINE c == Head(queue)
<1>1. /\ MayNest /\ queue # <<>> /\ queue' = Tail(queue)
      /\ UNCHANGED <<waiting, posted, mUninstallsDeferredByAnInstall>>
  BY DEF QueuedCall
<1>2. RestOK'
  BY DEF QueuedCall, saveVars, IInv, RestOK, currentlySavingProfile
<1>3. queue \in Seq(Calls) /\ Announcements(queue, mRemovalsOf, items)
  BY DEF IInv, CallsOK
<1>4. /\ c \in Calls /\ queue' \in Seq(Calls)
      /\ Announcements(queue', mRemovalsOf, items)
      /\ c.at \in Announced => Remembers(c, mRemovalsOf, items)
  BY <1>1, <1>3, Ends, AnnouncedEnds
<1>5. CallsOK'
  BY <1>1, <1>4 DEF IInv, CallsOK
<1>6. CASE c.at = "drain" /\ Drain(c)
  <2>1. c \in [at : {"drain"}, requests : Seq(Packages), refused : {<<>>}]
    BY <1>4, <1>6 DEF Calls
  <2>2. QED
    BY <1>1, <1>2, <1>4, <1>5, <1>6, <2>1, DrainCalled, InvStack
<1>7. CASE c.at = "sysInstall" /\ UNCHANGED <<profile, frames>>
  <2>1. Shape(frames) /\ Announcements(frames, mRemovalsOf, items)
    BY DEF IInv
  <2>2. QED
    BY <1>2, <1>4, <1>5, <1>7, <2>1, InvStack
<1>8. CASE c.at = "sysInstall" /\ frames' = Append(frames, c) /\ UNCHANGED profile
  <2>1. c \in FrameRecords
    BY <1>4, <1>8 DEF Calls, FrameRecords, Announced
  <2>2. Shape(frames) /\ Announcements(frames, mRemovalsOf, items)
    BY DEF IInv
  <2>3. Len(frames) < MaxDepth /\ Len(frames) \in Nat /\ MaxDepth \in Nat
    BY <1>1, <2>2 DEF MayNest, Shape, PackageChangesAssumption
  <2>4. /\ Shape(frames') /\ Announcements(frames', mRemovalsOf, items)
        /\ PackagesAt("importing", frames') = PackagesAt("importing", frames)
    BY <1>4, <1>8, <2>1, <2>2, <2>3, Called DEF OnTheirOwn, Announced, Drains
  <2>5. QED
    BY <1>2, <1>4, <1>5, <1>8, <2>4, InvStack
<1>9. QED
  BY <1>6, <1>7, <1>8 DEF QueuedCall

LEMMA InvPostedCall == ASSUME PackageChangesAssumption, IInv, PostedCall PROVE IInv'
<1> DEFINE c == Head(posted)
<1>1. /\ MayNest /\ posted # <<>> /\ posted' = Tail(posted)
      /\ UNCHANGED <<queue, mUninstallsDeferredByAnInstall>>
  BY DEF PostedCall
<1>2. RestOK'
  BY DEF PostedCall, saveVars, IInv, RestOK, currentlySavingProfile
<1>3. posted \in Seq(LaterCalls) /\ waiting \in Seq(LaterCalls)
      /\ Announcements(queue', mRemovalsOf, items)
  BY <1>1 DEF IInv, CallsOK
<1>4. c \in LaterCalls /\ posted' \in Seq(LaterCalls)
  BY <1>1, <1>3, Ends
<1>5. CallsOK'
  <2>1. Append(waiting, c) \in Seq(LaterCalls)
    BY <1>3, <1>4
  <2>2. waiting' \in {waiting, Append(waiting, c)}
    BY DEF PostedCall
  <2>3. QED
    BY <1>1, <1>3, <1>4, <2>1, <2>2 DEF IInv, CallsOK
<1>6. CASE c.at = "drain" /\ Drain(c)
  <2>1. c \in [at : {"drain"}, requests : Seq(Packages), refused : {<<>>}]
    BY <1>4, <1>6 DEF LaterCalls
  <2>2. QED
    BY <1>1, <1>2, <1>3, <1>5, <1>6, <2>1, DrainCalled, InvStack
<1>7. CASE c.at = "install"
  <2>1. c.package \in Packages
    BY <1>4, <1>7 DEF LaterCalls
  <2>2. CASE UNCHANGED <<profile, frames>>
    BY <1>1, <1>2, <1>5, <2>2, InvQuiet
  <2>3. CASE ~InUse(c.package) /\ \E quick \in BOOLEAN : BeginInstall(c.package, quick)
    <3>1. /\ Shape(frames') /\ Announcements(frames', mRemovalsOf', items')
          /\ Listed' /\ Counted' /\ mRemovalsOf' = mRemovalsOf /\ items' = items
      BY <1>1, <2>1, <2>3, InstallBegins
    <3>2. QED
      BY <1>2, <1>3, <1>5, <3>1, InvParts
  <2>4. QED
    BY <1>7, <2>2, <2>3 DEF PostedCall
<1>8. QED
  BY <1>6, <1>7 DEF PostedCall

-----------------------------------------------------------------------------
LEMMA InvNext == ASSUME PackageChangesAssumption, IInv, [Next]_vars PROVE IInv'
<1>1. CASE ScriptSaves \/ SaveEnds \/ SaveTimerFires
  BY <1>1, InvScriptSaves, InvSaveEnds, InvSaveTimerFires
<1>2. CASE \E succeeds \in BOOLEAN : Unpacked(succeeds)
  BY <1>2, InvUnpacked
<1>3. CASE InstallEnds \/ AnnouncementGoesOn
  BY <1>3, InvInstallEnds, InvAnnouncementGoesOn
<1>4. CASE HandlersReturn \/ WaitEnds
  BY <1>4, InvHandlersReturn, InvWaitEnds
<1>5. CASE DrainWaitEnds \/ DrainNext \/ DrainEnds
  BY <1>5, InvDrainWaitEnds, InvDrainNext, InvDrainEnds
<1>6. CASE QueuedCall \/ PostedCall
  BY <1>6, InvQueuedCall, InvPostedCall
<1>7. CASE \E p \in Packages, quick \in BOOLEAN : InstallPackage(p, quick)
  BY <1>7, InvInstallPackage
<1>8. CASE \E p \in Packages : UninstallPackage(p)
  BY <1>8, InvUninstallPackage
<1>9. CASE UNCHANGED vars
  <2>1. UNCHANGED <<profile, frames, queue>> /\ CallsOK' /\ RestOK'
    BY <1>9 DEF vars, calls, saveVars, IInv, CallsOK, RestOK, currentlySavingProfile
  <2>2. QED
    BY <2>1, InvQuiet
<1>10. QED
  BY <1>1, <1>2, <1>3, <1>4, <1>5, <1>6, <1>7, <1>8, <1>9 DEF Next, Proceed

\* The invariant holds in every reachable state.
LEMMA Invariant == Spec => []IInv
<1>1. Init => IInv
  BY InvInit, PackageChangesAssumption
<1>2. IInv /\ [Next]_vars => IInv'
  BY InvNext, PackageChangesAssumption
<1>3. QED
  BY <1>1, <1>2, PTL DEF Spec

-----------------------------------------------------------------------------
\* Every variable keeps its type, what is listed without items is being read in,
\* and the stack keeps its bound.
THEOREM TypeCorrect == Spec => []TypeOK
<1>1. IInv => TypeOK
  <2>1. SUFFICES ASSUME IInv PROVE TypeOK
    OBVIOUS
  <2>2. /\ items \subseteq mInstalledPackages /\ mInstalledPackages \subseteq Packages
        /\ mInstalledPackages \ items = mPackagesBeingInstalled
    BY <2>1 DEF IInv, Listed, mPackagesBeingInstalled
  <2>3. /\ copies \in [Packages -> Nat] /\ mRemovalsOf \in [Packages -> Nat]
        /\ mUninstallsDeferredByAnInstall \in Seq(Packages) /\ queue \in Seq(Calls)
    BY <2>1 DEF IInv, Counted, CallsOK
  <2>4. Len(frames) <= MaxDepth + 1
    BY <2>1 DEF IInv, Shape
  <2>5. RestOK
    BY <2>1 DEF IInv
  <2>6. QED
    BY <2>2, <2>3, <2>4, <2>5, Zenon DEF RestOK, TypeOK
<1>2. QED
  BY <1>1, Invariant, PTL

-----------------------------------------------------------------------------
\* An announcement since which no removal was counted is of the copy there is.
LEMMA CurrentCopy ==
  ASSUME IInv, NEW a, Remembers(a, mRemovalsOf, items), StillInstalled(a)
  PROVE  a.package \in items /\ a.copy = copies[a.package]
<1>1. a.package \in Packages /\ a.copy = a.removals + 1 /\ a.removals = mRemovalsOf[a.package]
      /\ a.package \in items
  BY DEF Remembers, StillInstalled
<1>2. copies[a.package] = mRemovalsOf[a.package] + 1
  BY <1>1 DEF IInv, Listed, Counted
<1>3. QED
  BY <1>1, <1>2

\* AnnouncedIsInstalled, of a step.
EventIsCurrent ==
    frames' # frames /\ Len(frames') >= Len(frames) /\ Last(frames').at \in Announced
        => /\ Last(frames').package \in items'
           /\ Last(frames').copy = copies'[Last(frames').package]

LEMMA TopIs ==
  ASSUME NEW s \in Seq(FrameRecords), NEW f PROVE Last(Append(s, f)) = f
  BY DEF Last

\* A call of another kind is put on a stack, or a call returns.
LEMMA NoEvent ==
  ASSUME NEW s \in Seq(FrameRecords), NEW f, f.at \notin Announced, frames' = Append(s, f)
  PROVE  EventIsCurrent
  BY TopIs DEF EventIsCurrent

LEMMA OneLess ==
  ASSUME PackageChangesAssumption, IInv, Innermost # "none", frames' = Below
  PROVE  EventIsCurrent
  BY Under DEF EventIsCurrent

LEMMA TopAs ==
  ASSUME PackageChangesAssumption, IInv, Innermost # "none", NEW at
  PROVE  /\ [Top EXCEPT !.at = at].at = at
         /\ Top.at \in Announced =>
               /\ [Top EXCEPT !.at = at].package = Top.package
               /\ [Top EXCEPT !.at = at].copy = Top.copy
<1>1. Top \in FrameRecords
  BY Under
<1>2. QED
  BY <1>1 DEF FrameRecords, Announced, Drains, OnTheirOwn

LEMMA ImportIsNoEvent ==
  ASSUME NEW p, NEW fs \in Seq(FrameRecords), StartImport(p, fs) PROVE EventIsCurrent
<1>1. Frame("importing", p).at \notin Announced
  BY DEF Frame, Announced
<1>2. QED
  BY <1>1, NoEvent DEF StartImport

LEMMA InstallIsNoEvent ==
  ASSUME IInv, NEW p, NEW quick \in BOOLEAN, BeginInstall(p, quick) PROVE EventIsCurrent
<1>1. frames \in Seq(FrameRecords)
  BY DEF IInv, Shape
<1>2. Frame("unpacking", p).at \notin Announced
  BY DEF Frame, Announced
<1>3. QED
  BY <1>1, <1>2, ImportIsNoEvent, NoEvent DEF BeginInstall

LEMMA RemovalIsNoEvent ==
  ASSUME PackageChangesAssumption, IInv, Innermost \in {"uninstalling", "waiting"},
         FinishRemoval(Top.package)
  PROVE  EventIsCurrent
<1> DEFINE g == Last(Below)
           f == [g EXCEPT !.refused = Append(@, Top.package)]
<1>1. frames' = Below \/ (Below # <<>> /\ g.at = "draining" /\ frames' = Append(Front(Below), f))
  BY DEF FinishRemoval, Return
<1>2. CASE frames' = Below
  BY <1>2, OneLess
<1>3. CASE Below # <<>> /\ g.at = "draining" /\ frames' = Append(Front(Below), f)
  <2>1. Below \in Seq(FrameRecords)
    BY Under
  <2>2. Front(Below) \in Seq(FrameRecords) /\ g \in FrameRecords
    BY <1>3, <2>1, Ends
  <2>3. f.at = "draining"
    BY <1>3, <2>2 DEF FrameRecords, Drains
  <2>4. f.at \notin Announced
    BY <2>3 DEF Announced
  <2> HIDE DEF f, g
  <2>5. QED
    BY <1>3, <2>2, <2>4, NoEvent
<1>4. QED
  BY <1>1, <1>2, <1>3

LEMMA DrainIsNoEvent ==
  ASSUME PackageChangesAssumption, IInv, DrainNext PROVE EventIsCurrent
<1> DEFINE p == Head(Top.requests)
           taken == [Top EXCEPT !.requests = Tail(@)]
           refused == [taken EXCEPT !.refused = Append(@, p)]
           u == Frame("uninstalling", p)
<1>1. Below \in Seq(FrameRecords) /\ Top \in FrameRecords /\ Top.at = "draining"
  BY Under DEF DrainNext
<1>2. Top \in [at : Drains, requests : Seq(Packages), refused : Seq(Packages)]
  BY <1>1, FrameFields DEF Drains
<1>3. taken.at = "draining" /\ refused.at = "draining" /\ taken \in FrameRecords
  <2>1. Tail(Top.requests) \in Seq(Packages)
    BY <1>2, Ends DEF DrainNext
  <2>2. taken \in [at : Drains, requests : Seq(Packages), refused : Seq(Packages)]
        /\ taken.at = "draining"
    BY <1>1, <1>2, <2>1
  <2>3. refused.at = "draining"
    BY <2>2
  <2>4. QED
    BY <2>2, <2>3 DEF FrameRecords
<1>4. taken.at \notin Announced /\ refused.at \notin Announced /\ u.at \notin Announced
  BY <1>3 DEF Announced, Frame
<1>5. \/ frames' = Below \o <<taken, u>>
      \/ frames' = Append(Below, taken)
      \/ frames' = Append(Below, refused)
  BY DEF DrainNext
<1> HIDE DEF taken, refused, u, p
<1>6. CASE frames' = Below \o <<taken, u>>
  <2>1. Last(frames') = u
    BY <1>1, <1>6 DEF Last
  <2>2. QED
    BY <1>4, <2>1 DEF EventIsCurrent
<1>7. QED
  BY <1>1, <1>4, <1>5, <1>6, NoEvent

LEMMA DrainCallIsNoEvent ==
  ASSUME IInv, NEW call \in Calls \union LaterCalls, Drain(call) PROVE EventIsCurrent
<1> DEFINE f == [call EXCEPT !.at = "toDrain"]
<1>1. f.at = "toDrain"
  BY DEF Calls, LaterCalls
<1>2. f.at \notin Announced
  BY <1>1 DEF Announced
<1>3. frames \in Seq(FrameRecords) /\ frames' = Append(frames, f)
  BY DEF IInv, Shape, Drain
<1> HIDE DEF f
<1>4. QED
  BY <1>2, <1>3, NoEvent

LEMMA QueuedEvent == ASSUME IInv, QueuedCall PROVE EventIsCurrent
<1> DEFINE c == Head(queue)
<1>1. queue # <<>> /\ queue \in Seq(Calls) /\ Announcements(queue, mRemovalsOf, items)
  BY DEF QueuedCall, IInv, CallsOK
<1>2. c \in Calls /\ (c.at \in Announced => Remembers(c, mRemovalsOf, items))
  BY <1>1, Ends, AnnouncedEnds
<1>3. CASE Drain(c)
  BY <1>2, <1>3, DrainCallIsNoEvent
<1>4. CASE c.at = "sysInstall" /\ UNCHANGED profile /\ StillInstalled(c)
           /\ frames' = Append(frames, c)
  <2>1. frames \in Seq(FrameRecords)
    BY DEF IInv, Shape
  <2>2. Last(frames') = c
    BY <1>4, <2>1, TopIs
  <2>3. c.package \in items /\ c.copy = copies[c.package]
    BY <1>2, <1>4, CurrentCopy DEF Announced
  <2>4. QED
    BY <1>4, <2>2, <2>3 DEF EventIsCurrent, profile
<1>5. CASE UNCHANGED frames
  BY <1>5 DEF EventIsCurrent
<1>6. QED
  BY <1>3, <1>4, <1>5 DEF QueuedCall

LEMMA PostedIsNoEvent == ASSUME IInv, PostedCall PROVE EventIsCurrent
<1> DEFINE c == Head(posted)
<1>1. c \in LaterCalls
  BY Ends DEF PostedCall, IInv, CallsOK
<1>2. CASE Drain(c)
  BY <1>1, <1>2, DrainCallIsNoEvent
<1>3. CASE \E quick \in BOOLEAN : BeginInstall(c.package, quick)
  BY <1>3, InstallIsNoEvent
<1>4. CASE UNCHANGED frames
  BY <1>4 DEF EventIsCurrent
<1>5. QED
  BY <1>2, <1>3, <1>4 DEF PostedCall

LEMMA EventsOfNext ==
  ASSUME PackageChangesAssumption, IInv, Next PROVE EventIsCurrent
<1> USE PackageChangesAssumption
<1>1. frames \in Seq(FrameRecords)
  BY DEF IInv, Shape
<1>2. CASE UNCHANGED frames
  BY <1>2 DEF EventIsCurrent
<1>3. ASSUME NEW succeeds \in BOOLEAN, Unpacked(succeeds) PROVE EventIsCurrent
  <2>1. Below \in Seq(FrameRecords)
    BY <1>3, Under DEF Unpacked
  <2>2. QED
    BY <1>3, <2>1, OneLess, ImportIsNoEvent DEF Unpacked
<1>4. CASE InstallEnds \/ DrainEnds
  BY <1>4, OneLess DEF InstallEnds, DrainEnds
<1>5. CASE AnnouncementGoesOn
  <2> DEFINE f == [Top EXCEPT !.at = "sysInstallPackage"]
  <2>1. /\ Innermost # "none" /\ UNCHANGED profile
        /\ frames' = Below \/ (StillInstalled(Top) /\ frames' = Append(Below, f))
    BY <1>5 DEF AnnouncementGoesOn
  <2>2. CASE frames' = Below
    BY <2>1, <2>2, OneLess
  <2>3. CASE StillInstalled(Top) /\ frames' = Append(Below, f)
    <3>1. Below \in Seq(FrameRecords) /\ Top.at \in Announced
          /\ Remembers(Top, mRemovalsOf, items)
      BY <1>5, Under DEF AnnouncementGoesOn, Announced
    <3>2. Last(frames') = f
      BY <2>3, <3>1, TopIs
    <3>3. f.package = Top.package /\ f.copy = Top.copy
      BY <2>1, <3>1, TopAs
    <3>4. Top.package \in items /\ Top.copy = copies[Top.package]
      BY <2>3, <3>1, CurrentCopy
    <3> HIDE DEF f
    <3>5. QED
      BY <2>1, <3>2, <3>3, <3>4 DEF EventIsCurrent, profile
  <2>4. QED
    BY <2>1, <2>2, <2>3
<1>6. CASE HandlersReturn
  <2> DEFINE f == [Top EXCEPT !.at = "waiting"]
  <2>1. CASE currentlySavingProfile
    <3>1. Below \in Seq(FrameRecords) /\ frames' = Append(Below, f)
      BY <1>6, <2>1, Under DEF HandlersReturn
    <3>2. f.at \notin Announced
      BY <1>6, TopAs DEF HandlersReturn, Announced
    <3> HIDE DEF f
    <3>3. QED
      BY <3>1, <3>2, NoEvent
  <2>2. CASE ~currentlySavingProfile
    BY <1>6, <2>2, RemovalIsNoEvent DEF HandlersReturn
  <2>3. QED
    BY <2>1, <2>2
<1>7. CASE WaitEnds
  BY <1>7, RemovalIsNoEvent DEF WaitEnds
<1>8. CASE DrainWaitEnds
  <2> DEFINE f == [Top EXCEPT !.at = "draining"]
  <2>1. Below \in Seq(FrameRecords) /\ frames' = Append(Below, f)
    BY <1>8, Under DEF DrainWaitEnds
  <2>2. f.at \notin Announced
    BY <1>8, TopAs DEF DrainWaitEnds, Announced
  <2> HIDE DEF f
  <2>3. QED
    BY <2>1, <2>2, NoEvent
<1>9. CASE DrainNext
  BY <1>9, DrainIsNoEvent
<1>10. CASE QueuedCall
  BY <1>10, QueuedEvent
<1>11. CASE PostedCall
  BY <1>11, PostedIsNoEvent
<1>12. ASSUME NEW p \in Packages, NEW quick \in BOOLEAN, InstallPackage(p, quick)
       PROVE  EventIsCurrent
  BY <1>2, <1>12, InstallIsNoEvent DEF InstallPackage
<1>13. ASSUME NEW p \in Packages, UninstallPackage(p) PROVE EventIsCurrent
  <2>1. Frame("uninstalling", p).at \notin Announced
    BY DEF Frame, Announced
  <2>2. UNCHANGED frames \/ frames' = Append(frames, Frame("uninstalling", p))
    BY <1>13 DEF UninstallPackage, UninstallCall
  <2>3. QED
    BY <1>1, <1>2, <2>1, <2>2, NoEvent
<1>14. CASE ScriptSaves \/ SaveEnds \/ SaveTimerFires
  BY <1>2, <1>14 DEF ScriptSaves, SaveEnds, SaveTimerFires
<1>15. QED
  BY <1>3, <1>4, <1>5, <1>6, <1>7, <1>8, <1>9, <1>10, <1>11, <1>12, <1>13, <1>14
     DEF Next, Proceed

\* An install event is raised for the copy that it is about, while it is there.
THEOREM EventsAreCurrent == Spec => AnnouncedIsInstalled
<1> DEFINE B == frames' # frames /\ Len(frames') >= Len(frames) /\ Last(frames').at \in Announced
                => LET a == Last(frames') IN
                   a.package \in items' /\ a.copy = copies'[a.package]
<1>1. IInv /\ [Next]_vars => [B]_vars
  BY EventsOfNext, PackageChangesAssumption DEF EventIsCurrent
<1>2. QED
  BY <1>1, Invariant, PTL DEF Spec, AnnouncedIsInstalled

-----------------------------------------------------------------------------
\* No item is removed while a save runs, by any call from any depth.
THEOREM SavesReadWhatIsThere == Spec => NothingRemovedUnderASave
<1> DEFINE B == currentlySavingProfile /\ currentlySavingProfile' => items \subseteq items'
<1>1. ASSUME Next PROVE B
  <2>1. CASE UNCHANGED items
    BY <2>1
  <2>2. ASSUME NEW p, FinishRemoval(p) PROVE B
    BY <2>1, <2>2 DEF FinishRemoval, profile
  <2>3. ASSUME NEW p, NEW quick \in BOOLEAN, BeginInstall(p, quick) PROVE UNCHANGED items
    BY <2>3 DEF BeginInstall, StartImport, profile
  <2>4. CASE ScriptSaves \/ SaveEnds \/ SaveTimerFires
    BY <2>1, <2>4 DEF ScriptSaves, SaveEnds, SaveTimerFires, profile
  <2>5. ASSUME NEW succeeds \in BOOLEAN, Unpacked(succeeds) PROVE B
    BY <2>1, <2>5 DEF Unpacked, StartImport, profile
  <2>6. CASE InstallEnds
    BY <2>6 DEF InstallEnds
  <2>7. CASE AnnouncementGoesOn \/ DrainWaitEnds \/ DrainNext \/ DrainEnds \/ QueuedCall
    BY <2>1, <2>7 DEF AnnouncementGoesOn, DrainWaitEnds, DrainNext, DrainEnds, QueuedCall,
                      Drain, profile
  <2>8. CASE HandlersReturn \/ WaitEnds
    <3>1. UNCHANGED profile \/ \E p : FinishRemoval(p)
      BY <2>8 DEF HandlersReturn, WaitEnds
    <3>2. QED
      BY <2>1, <2>2, <3>1 DEF profile
  <2>9. CASE PostedCall
    <3>1. UNCHANGED profile \/ \E quick \in BOOLEAN : BeginInstall(Head(posted).package, quick)
      BY <2>9 DEF PostedCall, Drain
    <3>2. QED
      BY <2>1, <2>3, <3>1 DEF profile
  <2>10. ASSUME NEW p \in Packages, NEW quick \in BOOLEAN, InstallPackage(p, quick) PROVE B
    BY <2>1, <2>3, <2>10 DEF InstallPackage, profile
  <2>11. ASSUME NEW p \in Packages, UninstallPackage(p) PROVE B
    BY <2>1, <2>11 DEF UninstallPackage, profile
  <2>12. QED
    BY <1>1, <2>4, <2>5, <2>6, <2>7, <2>8, <2>9, <2>10, <2>11 DEF Next, Proceed
<1>2. [Next]_vars => [B]_vars
  BY <1>1
<1>3. QED
  BY <1>2, PTL DEF Spec, NothingRemovedUnderASave

=============================================================================
