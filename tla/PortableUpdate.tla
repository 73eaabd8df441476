------------------------------ MODULE PortableUpdate ------------------------------
(***************************************************************************)
(* The update of a portable Windows build (services/updates/portable.rs):  *)
(* the program writes a copy of itself and the new program into a stage    *)
(* beside it, starts the copy as a helper and, once the helper waits for   *)
(* it, shuts its work down and exits.  The helper then puts the new        *)
(* program in the place of the old one and starts it, or takes that back.  *)
(*                                                                         *)
(* Programs are numbered by version; Foreign is a file somebody else put   *)
(* in the program's place.  There is one stage per attempt.                *)
(***************************************************************************)
EXTENDS Naturals

CONSTANTS
    Attempts,   \* bounds of the instance: attempts to update,
    Faults,     \* calls that fail,
    Crashes,    \* losses of power,
    Foreign, None

VARIABLES
    target,     \* the program file
    app,        \* the program: whether it runs, which version, what it is doing
    twice,      \* whether a program was started beside a running one
    stages,     \* the directories of the attempts
    helpers,    \* where the helper of each attempt is
    attempts, failed, crashed, foreign
counts == <<attempts, failed, crashed, foreign>>
vars == <<target, app, twice, stages, helpers, counts>>

Versions == 1..(Attempts + 1)
Numbers == 1..Attempts
Stage == [there |-> FALSE, original |-> None, payload |-> None, backup |-> None, ready |-> FALSE,
          error |-> FALSE, completed |-> FALSE]

TypeOK ==
    /\ target \in Versions \cup {Foreign, None}
    /\ app.at \in {"down", "up", "installing", "stopping", "exiting"}
    /\ app.version \in Versions \cup {Foreign}
    /\ app.parent \in Numbers \cup {None} /\ app.told \in BOOLEAN
    /\ twice \in BOOLEAN
    /\ \A n \in Numbers : stages[n].backup \in Versions \cup {Foreign, None}
    /\ \A n \in Numbers : helpers[n] \in {"none", "starts", "waits", "checks", "aside", "moved",
           "placed", "back", "restore", "failed", "done", "gone"}

Up(v) == [at |-> "up", version |-> v, parent |-> None, told |-> FALSE]
Init ==
    /\ target = 1
    /\ app = Up(1)
    /\ twice = FALSE
    /\ stages = [n \in Numbers |-> Stage]
    /\ helpers = [n \in Numbers |-> "none"]
    /\ attempts = 0 /\ failed = 0 /\ crashed = 0 /\ foreign = 0

\* A call fails, within the bound of the instance.
Fault == failed < Faults /\ failed' = failed + 1
NoFault == failed' = failed
Kept == UNCHANGED <<attempts, crashed, foreign>>
Helper(n, at) == helpers' = [helpers EXCEPT ![n] = at]

\* Someone starts a program: beside a running one there are two.
Starts(v) ==
    IF app.at = "down" THEN app' = Up(v) /\ twice' = twice ELSE app' = app /\ twice' = TRUE

(***************************************************************************)
(* The program.                                                            *)
(***************************************************************************)

\* prepare and the spawn of install; whatever fails removes the stage.
Prepare ==
    /\ app.at = "up" /\ app.version # Foreign /\ attempts < Attempts
    /\ attempts' = attempts + 1
    /\ LET n == attempts + 1 IN
       \/ /\ target # None /\ NoFault
          /\ stages' = [stages EXCEPT ![n] =
                [Stage EXCEPT !.there = TRUE, !.original = target, !.payload = attempts + 2]]
          /\ Helper(n, "starts")
          /\ app' = [app EXCEPT !.at = "installing", !.parent = n, !.told = FALSE]
       \/ /\ Fault
          /\ app' = [app EXCEPT !.told = TRUE]
          /\ UNCHANGED <<stages, helpers>>
    /\ UNCHANGED <<target, twice, crashed, foreign>>

\* The helper is ready: shut the transfers and the sessions down.
SeesReady ==
    /\ app.at = "installing" /\ stages[app.parent].ready
    /\ app' = [app EXCEPT !.at = "stopping"]
    /\ UNCHANGED <<target, twice, stages, helpers, counts>>

\* PreparedUpdate is dropped without a commit: the helper is killed, its stage removed.
Drops ==
    /\ app' = [app EXCEPT !.at = "up", !.told = TRUE]
    /\ stages' = [stages EXCEPT ![app.parent] = Stage]
    /\ Helper(app.parent, "gone")

\* The helper ended or was not ready within five seconds, or the shutdown failed.
GivesUp ==
    /\ \/ app.at = "installing" /\ NoFault
       \/ app.at = "stopping" /\ Fault
    /\ Drops
    /\ Kept /\ UNCHANGED <<target, twice>>

\* The shutdown went well: commit and exit.
Commits ==
    /\ app.at = "stopping"
    /\ app' = [app EXCEPT !.at = "exiting"]
    /\ UNCHANGED <<target, twice, stages, helpers, counts>>

Exits ==
    /\ app.at = "exiting"
    /\ app' = [app EXCEPT !.at = "down"]
    /\ UNCHANGED <<target, twice, stages, helpers, counts>>

\* cleanup_completed.
Cleans(n) ==
    /\ app.at # "down" /\ stages[n].completed /\ helpers[n] = "gone"
    /\ stages' = [stages EXCEPT ![n] = Stage]
    /\ UNCHANGED <<target, app, twice, helpers, counts>>

\* previous_error: the first status reports the failure of an earlier update.
Reports(n) ==
    /\ app.at = "up" /\ stages[n].error
    /\ stages' = [stages EXCEPT ![n].error = FALSE]
    /\ app' = [app EXCEPT !.told = TRUE]
    /\ UNCHANGED <<target, twice, helpers, counts>>

\* The user starts the program again, once the helpers have ended.
UserStarts ==
    /\ app.at = "down" /\ target # None
    /\ \A n \in Numbers : helpers[n] \in {"none", "gone"}
    /\ Starts(target)
    /\ UNCHANGED <<target, stages, helpers, counts>>

(***************************************************************************)
(* The helper.                                                             *)
(***************************************************************************)

\* run_helper reads its transaction and opens the parent; then it is ready.
Ready(n) ==
    /\ helpers[n] = "starts"
    /\ \/ /\ NoFault /\ app.parent = n /\ app.at # "down"
          /\ stages' = [stages EXCEPT ![n].ready = TRUE]
          /\ Helper(n, "waits")
       \/ /\ Fault /\ stages' = stages
          /\ Helper(n, "gone")
    /\ Kept /\ UNCHANGED <<target, app, twice>>

\* wait_for_parent: the parent exited.
GoesOn(n) ==
    /\ helpers[n] = "waits"
    /\ app.at = "down" \/ app.parent # n
    /\ Helper(n, "checks")
    /\ UNCHANGED <<target, app, twice, stages, counts>>

\* The parent did not exit within a minute: the helper ends without a word.
WaitEnds(n) ==
    /\ helpers[n] = "waits" /\ app.parent = n /\ app.at # "down"
    /\ Helper(n, "gone")
    /\ UNCHANGED <<target, app, twice, stages, counts>>

\* replace_and_launch: both files are the ones that were prepared.
\* (the moment between this look and the renames is left out)
Unchanged(n) == target = stages[n].original

Checks(n) ==
    /\ helpers[n] = "checks"
    /\ \/ /\ NoFault
          /\ Helper(n, IF Unchanged(n) THEN "aside" ELSE "failed")
       \/ /\ Fault
          /\ Helper(n, "failed")
    /\ Kept /\ UNCHANGED <<target, app, twice, stages>>

Aside(n) ==
    /\ helpers[n] = "aside"
    /\ \/ /\ NoFault
          /\ target' = None
          /\ stages' = [stages EXCEPT ![n].backup = target]
          /\ Helper(n, "moved")
       \/ /\ Fault
          /\ Helper(n, "failed")
          /\ UNCHANGED <<target, stages>>
    /\ Kept /\ UNCHANGED <<app, twice>>

Place(n) ==
    /\ helpers[n] = "moved"
    /\ \/ /\ NoFault
          /\ target' = stages[n].payload
          /\ stages' = [stages EXCEPT ![n].payload = None]
          /\ Helper(n, "placed")
       \/ /\ Fault
          /\ Helper(n, "back")
          /\ UNCHANGED <<target, stages>>
    /\ Kept /\ UNCHANGED <<app, twice>>

Launch(n) ==
    /\ helpers[n] = "placed"
    /\ \/ /\ NoFault
          /\ Starts(target)
          /\ Helper(n, "done")
       \/ /\ Fault
          /\ Helper(n, "back")
          /\ UNCHANGED <<app, twice>>
    /\ Kept /\ UNCHANGED <<target, stages>>

\* Mistaken variant: the new program is put aside over the backup of the old one.
BackOverBackup(n) ==
    /\ helpers[n] = "back"
    /\ target' = None
    /\ stages' = [stages EXCEPT ![n].backup = IF target = None THEN @ ELSE target]
    /\ Helper(n, "restore")
    /\ UNCHANGED <<app, twice, counts>>

\* The rollback: the new program aside, if it is there.
Back(n) ==
    /\ helpers[n] = "back"
    /\ \/ /\ NoFault
          /\ target' = None
          /\ stages' = IF target = None THEN stages ELSE [stages EXCEPT ![n].payload = target]
          /\ Helper(n, "restore")
       \/ /\ target # None /\ Fault
          /\ Helper(n, "failed")
          /\ UNCHANGED <<target, stages>>
    /\ Kept /\ UNCHANGED <<app, twice>>

\* Mistaken variant: the rollback is begun again whatever came of it.
RestoreAgain(n) ==
    /\ helpers[n] = "restore"
    /\ Helper(n, "back")
    /\ UNCHANGED <<target, app, twice, stages, counts>>

Restore(n) ==
    /\ helpers[n] = "restore"
    /\ \/ /\ NoFault
          /\ target' = stages[n].backup
          /\ stages' = [stages EXCEPT ![n].backup = None]
       \/ /\ Fault
          /\ UNCHANGED <<target, stages>>
    /\ Helper(n, "failed")
    /\ Kept /\ UNCHANGED <<app, twice>>

\* The failure is written down; only the original program is started again.
Failed(n) ==
    /\ helpers[n] = "failed"
    /\ stages' = [stages EXCEPT ![n].error = TRUE]
    /\ \/ NoFault /\ IF target = stages[n].original THEN Starts(target) ELSE UNCHANGED <<app, twice>>
       \/ Fault /\ target = stages[n].original /\ UNCHANGED <<app, twice>>
    /\ Helper(n, "gone")
    /\ Kept /\ UNCHANGED target

Completes(n) ==
    /\ helpers[n] = "done"
    /\ stages' = [stages EXCEPT ![n].completed = TRUE]
    /\ Helper(n, "gone")
    /\ UNCHANGED <<target, app, twice, counts>>

(***************************************************************************)
(* The world.                                                              *)
(***************************************************************************)

\* Someone puts another program in the place while the update is under way.
Replaced ==
    /\ foreign = 0 /\ foreign' = 1
    /\ target # None /\ \A n \in Numbers : helpers[n] \in {"none", "starts", "waits", "gone"}
    /\ target' = Foreign
    /\ UNCHANGED <<app, twice, stages, helpers, attempts, failed, crashed>>

\* The power fails; the computer is started again.
PowerLoss ==
    /\ crashed < Crashes /\ crashed' = crashed + 1
    /\ app' = [app EXCEPT !.at = "down", !.parent = None, !.told = FALSE]
    /\ helpers' = [n \in Numbers |-> IF helpers[n] = "none" THEN "none" ELSE "gone"]
    /\ UNCHANGED <<target, twice, stages, attempts, failed, foreign>>

HelperStep(n) ==
    \/ Ready(n) \/ GoesOn(n) \/ WaitEnds(n) \/ Checks(n) \/ Aside(n) \/ Place(n) \/ Launch(n)
    \/ Back(n) \/ Restore(n) \/ Failed(n) \/ Completes(n)

AppStep == SeesReady \/ GivesUp \/ Commits \/ Exits

Next ==
    \/ Prepare \/ AppStep \/ UserStarts \/ Replaced \/ PowerLoss
    \/ \E n \in Numbers : HelperStep(n) \/ Cleans(n) \/ Reports(n)

Spec == Init /\ [][Next]_vars

\* Processes go on; nobody need ever update, start or replace the program.
FairSpec == Spec /\ WF_vars(AppStep) /\ \A n \in Numbers : WF_vars(HelperStep(n))

(***************************************************************************)
(* Properties.                                                             *)
(***************************************************************************)

\* The helper starts a program only when the one it updates has exited: no shutdown that
\* fails or takes too long leaves two programs on one directory.
OneProgram == ~twice

\* Up to two failing calls and a loss of power leave the program that was replaced in its
\* place or in the stage, until the new one was started.
OriginalKept ==
    \A n \in Numbers :
        /\ attempts = n /\ foreign = 0 /\ stages[n].there /\ ~stages[n].completed
        /\ helpers[n] \notin {"none", "done"}
        => stages[n].original \in {target, stages[n].backup}

\* With one failing call and no loss of power the update never leaves the user without
\* a program to start: it is replaced or restored.
ProgramStartable ==
    failed < 2 /\ crashed = 0 /\ (\A n \in Numbers : helpers[n] \in {"none", "gone"})
        => target # None

\* A file that somebody put in the program's place after the update was prepared is never
\* moved away: what a helper puts aside is the program it was prepared from.
OnlyOriginalMoved == \A n \in Numbers : stages[n].backup \in {None, stages[n].original}

\* The user always has one program: it can be started, and is not started twice.
ProgramSafe == OneProgram /\ OriginalKept /\ ProgramStartable /\ OnlyOriginalMoved

\* Every update ends: the helper is gone, and the program runs or has exited for good.
UpdatesEnd ==
    \A n \in Numbers : (helpers[n] = "starts")
        ~> (helpers[n] = "gone" /\ app.at \notin {"installing", "stopping", "exiting"})
=============================================================================
