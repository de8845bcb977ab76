---------------------------- MODULE PackageChanges ----------------------------
(***************************************************************************)
(* Installing, removing and saving a profile's packages (Host.cpp).        *)
(*                                                                         *)
(* Everything runs on the main thread, and nests: a package's scripts run  *)
(* while it is read in, handlers run while it is removed, and three waits  *)
(* run the event loop inside the function that waits (the unpacking        *)
(* dialog's and two for a save).  In each of them scripts install, remove  *)
(* and save again.  The C++ stack is the variable frames.                  *)
(*                                                                         *)
(* A save has the profile as it was when it began, is written by another   *)
(* thread, and is over when the event loop hears of it.  What must not be  *)
(* done during one is put off until then, and what must not be done in the *)
(* middle of another function is queued for the next pass of the loop.     *)
(*                                                                         *)
(* Modules, the profile's closing and saves that cannot be written are     *)
(* left out.                                                               *)
(***************************************************************************)
EXTENDS Naturals, Sequences, SequencesExt

CONSTANTS
    Packages,
    MaxInstalls, \* bound: installs begun or put off
    MaxSaves,    \* bound: saves a script starts
    MaxGiveUps,  \* bound: waits for a save that are given up
    MaxDepth     \* bound: calls on the stack from which further ones are made

ASSUME PackageChangesAssumption ==
    {MaxInstalls, MaxSaves, MaxGiveUps, MaxDepth} \subseteq Nat

VARIABLES
    mInstalledPackages,
    items,                          \* the packages whose items the profile has
    copies,                         \* how often each was read in
    mRemovalsOf,
    mUninstallsDeferredByAnInstall,
    frames,                         \* the calls on the stack, innermost last
    queue,                          \* calls queued by timers of no delay
    waiting,                        \* calls for when profileSaveFinished() is emitted
    posted,                         \* those of them posted since
    mDeferredSaveTimer,
    saving,                         \* what the save in progress writes
    saved,                          \* what the profile's file has
    installs,
    saves,
    giveUps

profile == <<mInstalledPackages, items, copies, mRemovalsOf>>
saveVars == <<saving, saved, saves, mDeferredSaveTimer>>
calls == <<queue, waiting, posted>>
vars == <<profile, mUninstallsDeferredByAnInstall, frames, calls, saveVars, installs, giveUps>>

NoSave == <<>>
currentlySavingProfile == saving # NoSave

Frame(at, p) == [at |-> at, package |-> p]
Announcement(p) == [at |-> "sysInstall", package |-> p, copy |-> copies[p],
                    removals |-> mRemovalsOf[p]]
Removals(at, requests) == [at |-> at, requests |-> requests, refused |-> <<>>]

Top == Last(frames)
Below == Front(frames)
PackagesAt(place, fs) == {fs[i].package : i \in {j \in DOMAIN fs : fs[j].at = place}}
mPackagesBeingInstalled == PackagesAt("importing", frames)
InstallInProgress == \E i \in DOMAIN frames : frames[i].at \in {"unpacking", "importing"}

\* Lua may have control everywhere but in the loop of
\* runUninstallsDeferredByAnInstall(), the event loop only where one is run.
Innermost == IF frames = <<>> THEN "none" ELSE Top.at
ScriptsRun == Innermost # "draining"
EventLoopRuns == Innermost \in {"none", "unpacking", "waiting", "toDrain"}
MayNest == Len(frames) < MaxDepth

-----------------------------------------------------------------------------
(***************************************************************************)
(* Saves.                                                                  *)
(***************************************************************************)
SaveProfile == saving' = <<items>> /\ UNCHANGED saved

ScriptSaves ==
    /\ ScriptsRun
    /\ ~currentlySavingProfile
    /\ saves < MaxSaves
    /\ saves' = saves + 1
    /\ SaveProfile
    /\ UNCHANGED <<profile, mUninstallsDeferredByAnInstall, frames, calls, mDeferredSaveTimer,
                   installs, giveUps>>

\* The event loop hears that the save is over, or a script's installPackage() or
\* uninstallPackage() does, which waits for that and nothing else.
SaveEnds ==
    /\ ScriptsRun
    /\ currentlySavingProfile
    /\ saved' = saving[1]
    /\ saving' = NoSave
    /\ posted' = posted \o waiting
    /\ waiting' = <<>>
    /\ UNCHANGED <<profile, mUninstallsDeferredByAnInstall, frames, queue, saves,
                   mDeferredSaveTimer, installs, giveUps>>

\* Mutant: the save that a change owes is not tried again.
SaveTimerFiresOnce ==
    /\ EventLoopRuns
    /\ mDeferredSaveTimer
    /\ mDeferredSaveTimer' = FALSE
    /\ IF currentlySavingProfile THEN UNCHANGED <<saving, saved>> ELSE SaveProfile
    /\ UNCHANGED <<profile, mUninstallsDeferredByAnInstall, frames, calls, installs, saves,
                   giveUps>>

\* slot_saveProfileAfterPackageChange().  During a save or an install it only
\* starts the timer again.
SaveTimerFires ==
    /\ EventLoopRuns
    /\ mDeferredSaveTimer
    /\ ~currentlySavingProfile /\ ~InstallInProgress
    /\ mDeferredSaveTimer' = FALSE
    /\ SaveProfile
    /\ UNCHANGED <<profile, mUninstallsDeferredByAnInstall, frames, calls, installs, saves,
                   giveUps>>

-----------------------------------------------------------------------------
(***************************************************************************)
(* Installing.                                                             *)
(***************************************************************************)
InUse(p) == p \in mPackagesBeingInstalled \union mInstalledPackages

StartImport(p, below) ==
    /\ mInstalledPackages' = mInstalledPackages \union {p}
    /\ copies' = [copies EXCEPT ![p] = @ + 1]
    /\ frames' = Append(below, Frame("importing", p))
    /\ UNCHANGED <<items, mRemovalsOf>>

\* A script's install, and one of a small archive, shows no unpacking dialog.
BeginInstall(p, quick) ==
    IF quick THEN StartImport(p, frames)
    ELSE frames' = Append(frames, Frame("unpacking", p)) /\ UNCHANGED profile

\* installPackage().  A script's waits a save out and so is not made during one;
\* it is quick.
InstallPackage(p, quick) ==
    /\ ScriptsRun /\ (quick \/ EventLoopRuns)
    /\ installs < MaxInstalls
    /\ installs' = installs + 1
    /\ \/ /\ ~currentlySavingProfile /\ ~InUse(p) /\ MayNest
          /\ BeginInstall(p, quick)
          /\ UNCHANGED waiting
       \/ /\ currentlySavingProfile /\ ~quick
          /\ waiting' = Append(waiting, Frame("install", p))
          /\ UNCHANGED <<profile, frames>>
    /\ UNCHANGED <<mUninstallsDeferredByAnInstall, queue, posted, saveVars, giveUps>>

\* The archive is unpacked, or cannot be; what may be read in is asked again.
Unpacked(succeeds) ==
    /\ Innermost = "unpacking"
    /\ IF succeeds /\ ~InUse(Top.package)
       THEN StartImport(Top.package, Below)
       ELSE frames' = Below /\ UNCHANGED profile
    /\ UNCHANGED <<mUninstallsDeferredByAnInstall, calls, saveVars, installs, giveUps>>

\* importPackage() returns; the install events, and the removals that scripts of
\* packages being read in have asked for, are queued in this order.
InstallEnds ==
    LET p == Top.package
        drains == PackagesAt("importing", Below) = {} /\ mUninstallsDeferredByAnInstall # <<>>
    IN
    /\ Innermost = "importing"
    /\ items' = items \union {p}
    /\ frames' = Below
    /\ queue' = Append(queue, Announcement(p)) \o
                (IF drains THEN <<Removals("drain", mUninstallsDeferredByAnInstall)>> ELSE <<>>)
    /\ mUninstallsDeferredByAnInstall' =
           IF drains THEN <<>> ELSE mUninstallsDeferredByAnInstall
    /\ mDeferredSaveTimer' = TRUE
    /\ UNCHANGED <<mInstalledPackages, copies, mRemovalsOf, waiting, posted, saving, saved,
                   saves, installs, giveUps>>

\* Mutant: the name alone is asked for.
StillListed(a) == a.package \in mInstalledPackages

StillInstalled(a) ==
    a.package \in mInstalledPackages /\ mRemovalsOf[a.package] = a.removals

\* sysInstall has been raised, then sysInstallPackage.
AnnouncementGoesOn ==
    /\ Innermost \in {"sysInstall", "sysInstallPackage"}
    /\ frames' = IF Top.at = "sysInstall" /\ StillInstalled(Top)
                 THEN Append(Below, [Top EXCEPT !.at = "sysInstallPackage"])
                 ELSE Below
    /\ UNCHANGED <<profile, mUninstallsDeferredByAnInstall, calls, saveVars, installs, giveUps>>

-----------------------------------------------------------------------------
(***************************************************************************)
(* Removing.                                                               *)
(***************************************************************************)
\* uninstallPackage() returns to the stack below.
Return(below, removed) ==
    frames' = IF below # <<>> /\ Last(below).at = "draining" /\ ~removed /\ currentlySavingProfile
              THEN Append(Front(below),
                          [Last(below) EXCEPT !.refused = Append(@, Top.package)])
              ELSE below

TakeOut(p) ==
    /\ mInstalledPackages' = mInstalledPackages \ {p}
    /\ items' = items \ {p}
    /\ mRemovalsOf' = [mRemovalsOf EXCEPT ![p] = @ + 1]
    /\ mDeferredSaveTimer' = TRUE
    /\ UNCHANGED copies

\* Mutant: what was found before the handlers and the wait is still taken to hold.
RemoveWithoutAsking(p) ==
    /\ Return(Below, TRUE)
    /\ TakeOut(p)

\* uninstallPackage() from where its events have been raised and waited for.
FinishRemoval(p) ==
    LET removes == p \in mInstalledPackages /\ ~currentlySavingProfile IN
    /\ Return(Below, removes \/ p \notin mInstalledPackages)
    /\ IF removes THEN TakeOut(p) ELSE UNCHANGED <<profile, mDeferredSaveTimer>>

\* Mutant: a package is taken from under its own import.
UninstallCallAtOnce(p) ==
    /\ p \in mInstalledPackages /\ ~currentlySavingProfile /\ MayNest
    /\ frames' = Append(frames, Frame("uninstalling", p))
    /\ UNCHANGED mUninstallsDeferredByAnInstall

\* uninstallPackage() up to its events, unless it is refused.
UninstallCall(p) ==
    /\ p \in mInstalledPackages
    /\ IF p \in mPackagesBeingInstalled
       THEN /\ mUninstallsDeferredByAnInstall' =
                   IF Contains(mUninstallsDeferredByAnInstall, p)
                   THEN mUninstallsDeferredByAnInstall
                   ELSE Append(mUninstallsDeferredByAnInstall, p)
            /\ UNCHANGED frames
       ELSE /\ ~currentlySavingProfile /\ MayNest
            /\ frames' = Append(frames, Frame("uninstalling", p))
            /\ UNCHANGED mUninstallsDeferredByAnInstall

UninstallPackage(p) ==
    /\ ScriptsRun
    /\ UninstallCall(p)
    /\ UNCHANGED <<profile, calls, saveVars, installs, giveUps>>

\* The handlers of sysUninstall have returned, and may have started a save.
HandlersReturn ==
    /\ Innermost = "uninstalling"
    /\ IF currentlySavingProfile
       THEN /\ frames' = Append(Below, [Top EXCEPT !.at = "waiting"])
            /\ UNCHANGED <<profile, mDeferredSaveTimer>>
       ELSE FinishRemoval(Top.package)
    /\ UNCHANGED <<mUninstallsDeferredByAnInstall, calls, saving, saved, saves, installs, giveUps>>

\* waitForProfileSave() returns, because no save runs or given up.
Waited ==
    /\ giveUps' = IF currentlySavingProfile THEN giveUps + 1 ELSE giveUps
    /\ giveUps' <= MaxGiveUps

WaitEnds ==
    /\ Innermost = "waiting"
    /\ Waited
    /\ FinishRemoval(Top.package)
    /\ UNCHANGED <<mUninstallsDeferredByAnInstall, calls, saving, saved, saves, installs>>

\* runUninstallsDeferredByAnInstall() waits a save out and then goes through the
\* requests; those a save refuses are made again when it has finished.
DrainWaitEnds ==
    /\ Innermost = "toDrain"
    /\ Waited
    /\ frames' = Append(Below, [Top EXCEPT !.at = "draining"])
    /\ UNCHANGED <<profile, mUninstallsDeferredByAnInstall, calls, saveVars, installs>>

DrainNext ==
    LET p == Head(Top.requests)
        taken == [Top EXCEPT !.requests = Tail(@)]
        blocked == p \notin mPackagesBeingInstalled /\ currentlySavingProfile
    IN
    /\ Innermost = "draining" /\ Top.requests # <<>>
    /\ IF p \in mInstalledPackages /\ ~blocked /\ p \notin mPackagesBeingInstalled
       THEN /\ frames' = Below \o <<taken, Frame("uninstalling", p)>>
            /\ UNCHANGED mUninstallsDeferredByAnInstall
       ELSE /\ frames' = Append(Below, IF blocked THEN [taken EXCEPT !.refused = Append(@, p)]
                                       ELSE taken)
            /\ mUninstallsDeferredByAnInstall' =
                   IF p \in mPackagesBeingInstalled
                      /\ ~Contains(mUninstallsDeferredByAnInstall, p)
                   THEN Append(mUninstallsDeferredByAnInstall, p)
                   ELSE mUninstallsDeferredByAnInstall
    /\ UNCHANGED <<profile, calls, saveVars, installs, giveUps>>

DrainEnds ==
    /\ Innermost = "draining" /\ Top.requests = <<>>
    /\ frames' = Below
    /\ waiting' = IF Top.refused = <<>> THEN waiting
                  ELSE Append(waiting, Removals("drain", Top.refused))
    /\ UNCHANGED <<profile, mUninstallsDeferredByAnInstall, queue, posted, saveVars, installs,
                   giveUps>>

-----------------------------------------------------------------------------
(***************************************************************************)
(* The event loop makes the calls that were queued.                        *)
(***************************************************************************)
Drain(call) ==
    /\ frames' = Append(frames, [call EXCEPT !.at = "toDrain"])
    /\ UNCHANGED profile

QueuedCall ==
    /\ EventLoopRuns /\ MayNest
    /\ queue # <<>>
    /\ queue' = Tail(queue)
    /\ \/ Head(queue).at = "drain" /\ Drain(Head(queue))
       \/ /\ Head(queue).at = "sysInstall"
          /\ frames' = IF StillInstalled(Head(queue)) THEN Append(frames, Head(queue)) ELSE frames
          /\ UNCHANGED profile
    /\ UNCHANGED <<mUninstallsDeferredByAnInstall, waiting, posted, saveVars, installs, giveUps>>

\* The handlers of profileSaveFinished().
PostedCall ==
    /\ EventLoopRuns /\ MayNest
    /\ posted # <<>>
    /\ posted' = Tail(posted)
    /\ \/ Head(posted).at = "drain" /\ Drain(Head(posted)) /\ UNCHANGED waiting
       \/ /\ Head(posted).at = "install"
          /\ waiting' = IF currentlySavingProfile THEN Append(waiting, Head(posted)) ELSE waiting
          /\ IF currentlySavingProfile \/ InUse(Head(posted).package)
             THEN UNCHANGED <<profile, frames>>
             ELSE \E quick \in BOOLEAN : BeginInstall(Head(posted).package, quick)
    /\ UNCHANGED <<mUninstallsDeferredByAnInstall, queue, saveVars, installs, giveUps>>

-----------------------------------------------------------------------------
Init ==
    /\ mInstalledPackages = {} /\ items = {}
    /\ copies = [p \in Packages |-> 0] /\ mRemovalsOf = [p \in Packages |-> 0]
    /\ mUninstallsDeferredByAnInstall = <<>>
    /\ frames = <<>> /\ queue = <<>> /\ waiting = <<>> /\ posted = <<>>
    /\ mDeferredSaveTimer = FALSE
    /\ saving = NoSave /\ saved = {}
    /\ installs = 0 /\ saves = 0 /\ giveUps = 0

\* What goes on by itself.
Proceed ==
    \/ SaveEnds \/ SaveTimerFires
    \/ \E succeeds \in BOOLEAN : Unpacked(succeeds)
    \/ InstallEnds \/ AnnouncementGoesOn
    \/ HandlersReturn \/ WaitEnds
    \/ DrainWaitEnds \/ DrainNext \/ DrainEnds
    \/ QueuedCall \/ PostedCall

Next ==
    \/ Proceed
    \/ ScriptSaves
    \/ \E p \in Packages, quick \in BOOLEAN : InstallPackage(p, quick)
    \/ \E p \in Packages : UninstallPackage(p)

\* Saves end, scripts return and the event loop runs; nobody has to call anything.
Spec == Init /\ [][Next]_vars /\ WF_vars(Proceed)

-----------------------------------------------------------------------------
Calls == [at : {"sysInstall"}, package : Packages, copy : Nat, removals : Nat]
         \union [at : {"drain"}, requests : Seq(Packages), refused : {<<>>}]

\* But for what is being read in, the packages listed are those that have items.
TypeOK ==
    /\ items \subseteq mInstalledPackages /\ mInstalledPackages \subseteq Packages
    /\ mInstalledPackages \ items = mPackagesBeingInstalled
    /\ copies \in [Packages -> Nat] /\ mRemovalsOf \in [Packages -> Nat]
    /\ mUninstallsDeferredByAnInstall \in Seq(Packages)
    /\ Len(frames) <= MaxDepth + 1
    /\ queue \in Seq(Calls)
    /\ currentlySavingProfile => saving[1] \subseteq Packages
    /\ saved \subseteq Packages
    /\ mDeferredSaveTimer \in BOOLEAN /\ installs \in 0..MaxInstalls
    /\ saves \in 0..MaxSaves /\ giveUps \in 0..MaxGiveUps

\* No item is removed while a save runs, whichever handler began one and whatever
\* was waited for ("Don't remove items from under a running profile save", 4800;
\* 4848-4862).
NothingRemovedUnderASave ==
    [][currentlySavingProfile /\ currentlySavingProfile' => items \subseteq items']_vars

Announced == {"sysInstall", "sysInstallPackage"}

\* An install event is raised for the copy that it is about, while that copy is
\* there: not for one removed since, not even if another has taken its place
\* (4483-4510).
AnnouncedIsInstalled ==
    [][frames' # frames /\ Len(frames') >= Len(frames) /\ Last(frames').at \in Announced
          => LET a == Last(frames') IN
             a.package \in items' /\ a.copy = copies'[a.package]]_vars

\* A removal that a package's own script asked for is carried out, and every
\* change is saved, whatever was refused or put off on the way (3336-3346,
\* 4986-5010).
ChangesSettle ==
    /\ \A p \in Packages :
          Contains(mUninstallsDeferredByAnInstall, p) ~> p \notin mInstalledPackages
    /\ (saved # items) ~> (saved = items)

=============================================================================
