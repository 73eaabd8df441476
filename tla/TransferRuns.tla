----------------------------- MODULE TransferRuns -----------------------------
(***************************************************************************)
(* Single-file transfers of FileTerm (services/transfers): the task list,  *)
(* the registry of runs and their generations, the operations serialized   *)
(* by the transfer_lifecycle mutex (create, pause, discard, resume, clear, *)
(* shutdown, cleanup retries), the worker calls that outlive the run that  *)
(* issued them, the journal, crashes and restarts.                         *)
(*                                                                         *)
(* A task is patched in memory and then persisted.  The two are one step   *)
(* here, with a failing journal write as an outcome of its own: the steps  *)
(* of the write itself are the subject of module TransferJournal.          *)
(***************************************************************************)
EXTENDS Naturals

CONSTANTS
    Tasks,      \* transfer ids, all of one profile and one SSH tab
    Uploads,    \* the uploads among them; the others are downloads
    MaxGen,     \* bound: run generations between two starts of the program
    MaxFaults   \* bound: crashes, lost sessions, failed writes, timeouts...

ASSUME TransferAssumption ==
    /\ Tasks # {} /\ Uploads \subseteq Tasks
    /\ MaxGen \in Nat
    /\ MaxFaults \in Nat

VARIABLES
    task,       \* WorkspaceState::transfers
    journal,    \* the task list a restart would load, as it would load it
    handle,     \* transfer_runs: generation registered for a task, 0 if none
    run,        \* the spawned run of each generation
    nextGen,    \* next_transfer_generation
    call,       \* the worker operation each run issued last
    op,         \* the operation holding transfer_lifecycle
    partial,    \* the .fileterm-part file of each task
    dest,       \* its destination file
    online,     \* is the session of the tab connected
    faults,     \* faults that happened so far
    excused     \* history: see Excuse below

vars == <<task, journal, handle, run, nextGen, call, op, partial, dest, online,
          faults, excused>>

-----------------------------------------------------------------------------
(***************************************************************************)
(* Data                                                                    *)
(***************************************************************************)

ActiveStatus   == {"queued", "running", "verifying", "finalizing"}
TerminalStatus == {"done", "failed", "canceled"}
\* "absent": not created yet; "cleared": removed from the list by the user.
Unlisted       == {"absent", "cleared"}
Status == ActiveStatus \cup TerminalStatus \cup Unlisted \cup
          {"paused", "interrupted"}

CanResumeFrom == {"paused", "interrupted", "failed"}

\* asked: the message says that the user asked to resume.
TaskRecord == [status : Status, resumable : BOOLEAN, cleanup : BOOLEAN,
               asked : BOOLEAN]

\* No task is active in a list that was just loaded.
LoadedRecord == {r \in TaskRecord : r.status \notin ActiveStatus}

NewTask == [status |-> "queued", resumable |-> TRUE, cleanup |-> FALSE,
            asked |-> FALSE]
NoTask  == [status |-> "absent", resumable |-> FALSE, cleanup |-> FALSE,
            asked |-> FALSE]

Gens == 1 .. MaxGen

RunPc == {"idle", "read", "begin", "clear", "plan", "send", "wait", "check",
          "verify", "commit", "replacing", "finish", "fail", "judge",
          "settled", "gone"}

\* resume: resume_requested.
RunRecord == [task : Tasks, pc : RunPc, cancel : BOOLEAN, resume : BOOLEAN]
NoRun     == [task |-> CHOOSE t \in Tasks : TRUE, pc |-> "idle",
              cancel |-> FALSE, resume |-> FALSE]

\* fresh: the data call starts at offset zero.
CallRecord == [pc : {"none", "open", "report", "io", "replace", "ok", "err"},
               fresh : BOOLEAN]
NoCall     == [pc |-> "none", fresh |-> FALSE]

OpRecord == [kind : {"none", "pause", "discard", "force", "shutdown", "retry"},
             todo : SUBSET Tasks, cur : SUBSET Tasks, wait : SUBSET Gens,
             pc : {"next", "wait", "apply", "clean"}]
NoOp == [kind |-> "none", todo |-> {}, cur |-> {}, wait |-> {}, pc |-> "next"]

Active(t)   == task[t].status \in ActiveStatus
Terminal(t) == task[t].status \in TerminalStatus
Listed(t)   == task[t].status \notin Unlisted

Settled(g) == run[g].pc \in {"idle", "settled", "gone"}
Live(g)    == ~Settled(g)

\* The token of a call is a child of the run's token, and a drop guard cancels
\* it when the caller stops waiting, whatever the reason.
Abandoned(g) == run[g].pc \notin {"wait", "replacing"}

InterruptStatus(r) == IF r.resumable THEN "paused" ELSE "canceled"

Interrupted(r) == [r EXCEPT !.status = InterruptStatus(r), !.asked = FALSE]

\* Mistaken variants of Loaded, for mutation runs: active tasks stay active;
\* the duty to clean up is not read back.
LoadedRaw(tasks) == tasks
\* What read_journal_at makes of a list: the tasks that were active when the
\* program died are interrupted.
Loaded(tasks) ==
    [t \in Tasks |-> IF tasks[t].status \in ActiveStatus
                     THEN Interrupted(tasks[t]) ELSE tasks[t]]

Fault == faults < MaxFaults /\ faults' = faults + 1

Save(tasks) ==
    /\ task' = tasks
    /\ journal' = Loaded(tasks)
    /\ UNCHANGED faults

SaveFails(tasks) ==
    /\ Fault
    /\ task' = tasks
    /\ UNCHANGED journal

\* Excused tasks are those that an event listed in the README took out of the
\* hands of their run and of the user's last operation: a report of an
\* abandoned call, a file it created, an operation that gave up half-way, a
\* forced discard.  The next complete operation on the task takes it back.
Excuse(ts) == excused' = excused \cup ts
Absolve(ts) == excused' = excused \ ts

\* patch_task: one task of the list is replaced.
Patched(t, r) == [task EXCEPT ![t] = r]

\* Most patches set the status and a message that asks for nothing.
Moved(t, status) ==
    Patched(t, [task[t] EXCEPT !.status = status, !.asked = FALSE])

-----------------------------------------------------------------------------
Init ==
    /\ task = [t \in Tasks |-> NoTask]
    /\ journal = [t \in Tasks |-> NoTask]
    /\ handle = [t \in Tasks |-> 0]
    /\ run = [g \in Gens |-> NoRun]
    /\ nextGen = 0
    /\ call = [g \in Gens |-> NoCall]
    /\ op = NoOp
    /\ partial = [t \in Tasks |-> "none"]
    /\ dest = [t \in Tasks |-> "old"]
    /\ online = TRUE
    /\ faults = 0
    /\ excused = {}

-----------------------------------------------------------------------------
(***************************************************************************)
(* The registry                                                            *)
(***************************************************************************)

\* start: a second run of a task is refused while the map holds one.
CanStart(t) == handle[t] = 0 /\ nextGen < MaxGen

Start(t) ==
    LET g == nextGen + 1 IN
    /\ CanStart(t)
    /\ nextGen' = g
    /\ handle' = [handle EXCEPT ![t] = g]
    /\ run' = [run EXCEPT ![g] = [task |-> t, pc |-> "read", cancel |-> FALSE,
                                  resume |-> FALSE]]

\* Mistaken variant: whatever run the map holds for the task is removed.
RemovedById(gs) ==
    [t \in Tasks |-> IF \E g \in gs : run[g].task = t THEN 0 ELSE handle[t]]

\* remove_transfer_run_if_generation
Removed(gs) == [t \in Tasks |-> IF handle[t] \in gs THEN 0 ELSE handle[t]]

CancelRuns(gs) ==
    run' = [g \in Gens |-> IF g \in gs THEN [run[g] EXCEPT !.cancel = TRUE]
                                       ELSE run[g]]

\* Mistaken variant: a task without a run is waited for as well.
HandlesOfUnchecked(ts) == {handle[t] : t \in ts}

HandlesOf(ts) == {handle[t] : t \in ts} \ {0}

-----------------------------------------------------------------------------
(***************************************************************************)
(* User operations                                                         *)
(***************************************************************************)

Free == op = NoOp

Create(t) ==
    /\ Free
    /\ task[t].status = "absent"
    /\ LET tasks == Patched(t, NewTask) IN
       \/ Save(tasks) /\ Start(t) /\ UNCHANGED excused
       \/ SaveFails(tasks) /\ Excuse({t}) /\ UNCHANGED <<run, handle, nextGen>>
    /\ UNCHANGED <<call, op, partial, dest, online>>

\* Mistaken variant: a task that still has a checkpoint to remove goes on.
ResumeAllowedUncleaned(t) ==
    /\ task[t].resumable
    /\ task[t].status \in CanResumeFrom
    /\ handle[t] = 0
    /\ online

ResumeAllowed(t) ==
    /\ task[t].resumable
    /\ task[t].status \in CanResumeFrom
    /\ ~task[t].cleanup
    /\ handle[t] = 0
    /\ online

Resume(t) ==
    /\ Free
    /\ ResumeAllowed(t)
    /\ LET tasks == Patched(t, [task[t] EXCEPT !.status = "queued",
                                               !.asked = TRUE]) IN
       \/ Save(tasks) /\ Start(t) /\ Absolve({t})
       \/ SaveFails(tasks) /\ Excuse({t}) /\ UNCHANGED <<run, handle, nextGen>>
    /\ UNCHANGED <<call, op, partial, dest, online>>

Pausable == {t \in Tasks : Active(t) /\ task[t].resumable}

BeginOp(kind, ts) ==
    /\ Free
    /\ ts # {}
    /\ op' = [NoOp EXCEPT !.kind = kind, !.todo = ts]
    /\ UNCHANGED <<task, journal, run, handle, nextGen, call, partial,
                   dest, online, faults, excused>>

Pause(t)    == t \in Pausable /\ BeginOp("pause", {t})
PauseForTab == BeginOp("pause", Pausable)
Discard(t)  == Listed(t) /\ BeginOp("discard", {t})
ForceDiscard(t) == Listed(t) /\ BeginOp("force", {t})

\* cancel_and_wait_transfer_run, first half: cancel the registered run.
StopNext(t) ==
    /\ op.kind \in {"pause", "discard", "force"}
    /\ op.pc = "next"
    /\ t \in op.todo
    /\ op' = [op EXCEPT !.cur = {t}, !.wait = HandlesOf({t}), !.pc = "wait"]
    /\ CancelRuns(HandlesOf({t}))
    /\ UNCHANGED <<task, journal, handle, nextGen, call, partial, dest,
                   online, faults, excused>>

\* shutdown: capture the active tasks, then cancel every registered run.
Shutdown ==
    /\ Free
    /\ LET active == {t \in Tasks : Active(t)} IN
       op' = [kind |-> "shutdown", todo |-> active, cur |-> active,
              wait |-> HandlesOf(Tasks), pc |-> "wait"]
    /\ CancelRuns(HandlesOf(Tasks))
    /\ UNCHANGED <<task, journal, handle, nextGen, call, partial, dest,
                   online, faults, excused>>

\* Mistaken variants: the runs are cancelled and not awaited; one is enough.
NoneStopped == TRUE
OneStopped  == op.wait # {} => \E g \in op.wait : Settled(g)

AllStopped == \A g \in op.wait : Settled(g)

\* The second half: every awaited run has settled.
StopDone ==
    /\ op.pc = "wait"
    /\ AllStopped
    /\ handle' = Removed(op.wait)
    /\ op' = [op EXCEPT !.pc = "apply"]
    /\ UNCHANGED <<task, journal, run, nextGen, call, partial, dest,
                   online, faults, excused>>

\* TRANSFER_STOP_TIMEOUT: the operation returns an error and changes nothing
\* more, but the run stays cancelled.
StopTimeout ==
    /\ op.pc = "wait"
    /\ \E g \in op.wait : Live(g)
    /\ Fault
    /\ Excuse({run[g].task : g \in op.wait} \cup op.cur)
    /\ op' = NoOp
    /\ UNCHANGED <<task, journal, run, handle, nextGen, call, partial,
                   dest, online>>

Proceed(t) ==
    op' = IF op.todo = {t} THEN NoOp
          ELSE [NoOp EXCEPT !.kind = op.kind, !.todo = op.todo \ {t}]

ApplyPause(t) ==
    /\ op.kind = "pause" /\ op.pc = "apply" /\ op.cur = {t}
    /\ LET tasks == Moved(t, "paused") IN
       \/ /\ Terminal(t)
          /\ Proceed(t)
          /\ UNCHANGED <<task, journal, faults, excused>>
       \/ ~Terminal(t) /\ Save(tasks) /\ Proceed(t) /\ Absolve({t})
       \/ ~Terminal(t) /\ SaveFails(tasks) /\ op' = NoOp /\ UNCHANGED excused
    /\ UNCHANGED <<run, handle, nextGen, call, partial, dest, online>>

Interruptible == {t \in op.cur : ~Terminal(t)}

ApplyShutdown ==
    /\ op.kind = "shutdown" /\ op.pc = "apply"
    /\ LET tasks == [t \in Tasks |-> IF t \in Interruptible
                                     THEN Interrupted(task[t]) ELSE task[t]] IN
       \/ Save(tasks)
       \/ SaveFails(tasks)
    /\ op' = NoOp
    /\ UNCHANGED <<run, handle, nextGen, call, partial, dest, online,
                   excused>>

Discarded == [status |-> "canceled", resumable |-> FALSE, cleanup |-> TRUE,
              asked |-> FALSE]

\* discard: a finished transfer is left alone; otherwise the cancellation and
\* the duty to clean up are durable before any file is touched.
ApplyDiscard(t) ==
    /\ op.kind \in {"discard", "force"} /\ op.pc = "apply" /\ op.cur = {t}
    /\ LET tasks == Patched(t, Discarded) IN
       \/ /\ task[t].status = "done"
          /\ op' = NoOp
          /\ UNCHANGED <<task, journal, faults, excused>>
       \/ /\ task[t].status # "done"
          /\ Save(tasks)
          /\ op' = [op EXCEPT !.pc = "clean"]
          /\ Absolve({t})
       \/ /\ task[t].status # "done"
          /\ SaveFails(tasks)
          /\ op' = NoOp
          /\ UNCHANGED excused
    /\ UNCHANGED <<run, handle, nextGen, call, partial, dest, online>>

\* cleanup_transfer_partial: an upload's file is out of reach while offline.
Cleanup(t, cleaned) ==
    /\ cleaned => (t \in Uploads => online)
    /\ partial' = IF cleaned THEN [partial EXCEPT ![t] = "none"] ELSE partial

\* Discard's last patch: force gives up on the artifact, else it stays due.
CleanDiscard(t) ==
    /\ op.kind \in {"discard", "force"} /\ op.pc = "clean" /\ op.cur = {t}
    /\ \E cleaned \in BOOLEAN :
         LET due   == ~cleaned /\ op.kind = "discard"
             tasks == Patched(t, [task[t] EXCEPT !.cleanup = due,
                        !.resumable = op.kind # "force" /\ @, !.asked = FALSE])
         IN /\ Cleanup(t, cleaned)
            /\ Save(tasks) \/ SaveFails(tasks)
            /\ IF cleaned \/ due THEN UNCHANGED excused ELSE Excuse({t})
    /\ op' = NoOp
    /\ UNCHANGED <<run, handle, nextGen, call, dest, online>>

\* clear: only settled history leaves the list.
Clearable(t) == Terminal(t) /\ ~task[t].resumable /\ ~task[t].cleanup

Clear(t) ==
    /\ Free
    /\ Clearable(t)
    /\ LET tasks == Patched(t, [NoTask EXCEPT !.status = "cleared"]) IN
       Save(tasks) \/ SaveFails(tasks)
    /\ UNCHANGED <<run, handle, nextGen, call, op, partial, dest, online,
                   excused>>

\* retry_pending_cleanup_for_tab, run when a session of the profile connects.
RetryOnConnect ==
    /\ online
    /\ BeginOp("retry", {t \in Uploads : task[t].cleanup})

CleanRetry(t) ==
    /\ op.kind = "retry" /\ t \in op.todo
    /\ \E cleaned \in BOOLEAN :
         LET tasks == Patched(t, [task[t] EXCEPT !.cleanup = ~cleaned,
                                                 !.asked = FALSE])
         IN /\ Cleanup(t, cleaned)
            /\ \/ Save(tasks) /\ Proceed(t)
               \/ SaveFails(tasks) /\ op' = NoOp
    /\ UNCHANGED <<run, handle, nextGen, call, dest, online, excused>>

-----------------------------------------------------------------------------
(***************************************************************************)
(* The run of generation g: run() stage by stage, then fail_if_running     *)
(***************************************************************************)

At(g, pc) == run[g].pc = pc
Goto(g, pc) == run' = [run EXCEPT ![g].pc = pc]

\* A patch the run persists; its error is the run's error.
RunSave(g, tasks, next) ==
    \/ Save(tasks) /\ Goto(g, next)
    \/ SaveFails(tasks) /\ Goto(g, "fail")

\* worker_call_with_cancel reaches the remote side only for a live token.
Reaches(g) == online /\ ~run[g].cancel

RunRead(g) ==
    LET t == run[g].task IN
    /\ At(g, "read")
    /\ \/ /\ Terminal(t) \/ task[t].status = "paused"
          /\ Goto(g, "settled")
       \/ /\ Active(t) /\ online
          /\ run' = [run EXCEPT ![g] = [@ EXCEPT !.pc = "begin",
                                                 !.resume = task[t].asked]]
       \/ /\ (Active(t) /\ ~online) \/ ~Listed(t)
          /\ Goto(g, "fail")
    /\ UNCHANGED <<task, journal, handle, nextGen, call, op, partial, dest,
                   online, faults, excused>>

\* The power lease is awaited here; a cancelled run returns without a patch.
RunBegin(g) ==
    LET t == run[g].task IN
    /\ At(g, "begin")
    /\ \/ /\ run[g].cancel
          /\ Goto(g, "settled")
          /\ UNCHANGED <<task, journal, faults>>
       \/ RunSave(g, Moved(t, "running"), "clear")
    /\ UNCHANGED <<handle, nextGen, call, op, partial, dest, online, excused>>

\* Mistaken variant: artifacts of an earlier run are always removed.
RunClearAlways(g) ==
    /\ At(g, "clear")
    /\ Reaches(g)
    /\ partial' = [partial EXCEPT ![run[g].task] = "none"]
    /\ run' = [run EXCEPT ![g] = [@ EXCEPT !.pc = "plan", !.resume = FALSE]]
    /\ UNCHANGED <<task, journal, handle, nextGen, call, op, dest, online,
                   faults, excused>>

\* Unless the user asked to resume, artifacts of an earlier run are removed;
\* whether a local one could be is not looked at.
RunClear(g) ==
    LET t == run[g].task IN
    /\ At(g, "clear")
    /\ (t \in Uploads /\ run[g].resume) \/ Reaches(g)
    /\ \/ ~run[g].resume /\ partial' = [partial EXCEPT ![t] = "none"]
       \/ (run[g].resume \/ t \notin Uploads) /\ UNCHANGED partial
    \* Its last use: the value read is dropped.
    /\ run' = [run EXCEPT ![g] = [@ EXCEPT !.pc = "plan", !.resume = FALSE]]
    /\ UNCHANGED <<task, journal, handle, nextGen, call, op, dest, online,
                   faults, excused>>

\* The offset is read and recorded; a complete upload is not sent again.
RunPlan(g) ==
    LET t == run[g].task
        sent == t \in Uploads /\ partial[t] = "full" IN
    /\ At(g, "plan")
    /\ t \in Uploads => Reaches(g)
    /\ RunSave(g, Patched(t, [task[t] EXCEPT !.resumable = TRUE,
                                             !.asked = FALSE]),
               IF sent THEN "check" ELSE "send")
    /\ call' = [call EXCEPT ![g].fresh = partial[t] = "none"]
    /\ UNCHANGED <<handle, nextGen, op, partial, dest, online, excused>>

\* The data call: from here on the worker owns a copy of the token.
RunSend(g) ==
    /\ At(g, "send")
    /\ Reaches(g)
    /\ Goto(g, "wait")
    /\ call' = [call EXCEPT ![g].pc = "open"]
    /\ UNCHANGED <<task, journal, handle, nextGen, op, partial, dest, online,
                   faults, excused>>

\* Mistaken variant: the refusal of a replacement is not looked at.
AnsweredIgnoringReplace(g) ==
    IF At(g, "replacing") THEN "finish"
    ELSE IF call[g].pc = "ok" THEN "check" ELSE "fail"

Answered(g) ==
    IF call[g].pc = "err" THEN "fail"
    ELSE IF At(g, "wait") THEN "check" ELSE "finish"

\* Mistaken variant: a timeout cancels the run, as the user would.
TimedOutForGood(g) ==
    Fault /\ run' = [run EXCEPT ![g].pc = "fail", ![g].cancel = TRUE]

\* The response timeout cancels the token of the call, not the run's.
TimedOut(g) == Fault /\ Goto(g, "fail")

\* dispatch_worker_command returns: a cancellation goes before the answer.
RunAnswer(g) ==
    /\ At(g, "wait") \/ At(g, "replacing")
    /\ \/ run[g].cancel /\ Goto(g, "fail") /\ UNCHANGED faults
       \/ /\ ~run[g].cancel
          /\ call[g].pc \in {"ok", "err"} /\ Goto(g, Answered(g))
          /\ UNCHANGED faults
       \/ ~run[g].cancel /\ call[g].pc \notin {"ok", "err"} /\ TimedOut(g)
    /\ call' = [call EXCEPT ![g].pc = IF @ \in {"ok", "err"} THEN "none" ELSE @]
    /\ UNCHANGED <<task, journal, handle, nextGen, op, partial, dest, online,
                   excused>>

\* The status is read again before anything is verified.
RunCheck(g) ==
    LET t == run[g].task IN
    /\ At(g, "check")
    /\ \/ /\ task[t].status \in {"paused", "canceled"} \/ run[g].cancel
          /\ Goto(g, "settled")
          /\ UNCHANGED <<task, journal, faults>>
       \/ /\ task[t].status \notin {"paused", "canceled"} /\ ~run[g].cancel
          /\ RunSave(g, Moved(t, "verifying"), "verify")
    /\ UNCHANGED <<handle, nextGen, call, op, partial, dest, online, excused>>

RunVerify(g) ==
    LET t == run[g].task IN
    /\ At(g, "verify")
    /\ t \in Uploads => Reaches(g)
    /\ partial[t] = "full"
    /\ RunSave(g, Moved(t, "finalizing"), "commit")
    /\ UNCHANGED <<handle, nextGen, call, op, partial, dest, online, excused>>

\* What renaming the checkpoint over the destination leaves there.
Placed(t) == IF partial[t] = "full" THEN "new" ELSE "broken"

\* finalize_remote_upload hands the replacement to the worker; replace_local_
\* file is done by the run itself, which does not look at its token meanwhile.
RunCommit(g) ==
    LET t == run[g].task IN
    /\ At(g, "commit")
    /\ \/ /\ t \in Uploads /\ Reaches(g)
          /\ Goto(g, "replacing")
          /\ call' = [call EXCEPT ![g].pc = "replace"]
          /\ UNCHANGED <<partial, dest>>
       \/ /\ t \notin Uploads /\ partial[t] # "none"
          /\ Goto(g, "finish")
          /\ dest' = [dest EXCEPT ![t] = Placed(t)]
          /\ partial' = [partial EXCEPT ![t] = "none"]
          /\ UNCHANGED call
    /\ UNCHANGED <<task, journal, handle, nextGen, op, online, faults, excused>>

RunFinish(g) ==
    LET t == run[g].task IN
    /\ At(g, "finish")
    /\ RunSave(g, Patched(t, [task[t] EXCEPT !.status = "done",
                                 !.resumable = FALSE, !.asked = FALSE]),
               "settled")
    /\ UNCHANGED <<handle, nextGen, call, op, partial, dest, online, excused>>

\* Any local or remote operation of these stages may fail, and a cancelled
\* token makes a worker call fail at once.
RunError(g) ==
    /\ run[g].pc \in {"clear", "plan", "send", "verify", "commit"}
    /\ Goto(g, "fail")
    /\ UNCHANGED <<task, journal, handle, nextGen, call, op, partial, dest,
                   online, faults, excused>>

\* Mistaken variant: a cancelled run does not announce that it settled.
AfterFailureLost(g) ==
    IF run[g].cancel THEN "fail"
    ELSE IF Active(run[g].task) THEN "judge" ELSE "settled"

AfterFailure(g) ==
    IF ~run[g].cancel /\ Active(run[g].task) THEN "judge" ELSE "settled"

\* fail_if_running, skipped for a cancelled run: the token and the task are
\* read here ...
RunFail(g) ==
    /\ At(g, "fail")
    /\ Goto(g, AfterFailure(g))
    /\ UNCHANGED <<task, journal, handle, nextGen, call, op, partial, dest,
                   online, faults, excused>>

\* The checkpoint counts if its size can be read: for an upload that is a
\* worker call, which may fail online and must fail offline.
Found(t, found) ==
    /\ found => partial[t] # "none" /\ (t \in Uploads => online)
    /\ (t \notin Uploads /\ partial[t] # "none") => found

\* ... and patched here, after the checkpoint was looked for.
RunJudge(g) ==
    LET t == run[g].task IN
    /\ At(g, "judge")
    /\ \E found \in BOOLEAN :
         LET tasks == Patched(t, [task[t] EXCEPT
                        !.status = IF found THEN "paused" ELSE "failed",
                        !.resumable = found, !.asked = FALSE])
         IN Found(t, found) /\ (Save(tasks) \/ SaveFails(tasks))
    /\ Goto(g, "settled")
    /\ UNCHANGED <<handle, nextGen, call, op, partial, dest, online, excused>>

\* The run that just settled leaves the registry, if it is still its own entry.
RunRemove(g) ==
    /\ At(g, "settled")
    /\ run' = [run EXCEPT ![g] = [@ EXCEPT !.pc = "gone", !.cancel = FALSE,
                                           !.resume = FALSE]]
    /\ handle' = Removed({g})
    /\ UNCHANGED <<task, journal, nextGen, call, op, partial, dest, online,
                   faults, excused>>

-----------------------------------------------------------------------------
(***************************************************************************)
(* The worker: the operation spawned for generation g.  The lock of the    *)
(* transfer channel orders some of them and not others (a failed one makes *)
(* later calls open a new channel), so no order is assumed.                *)
(***************************************************************************)

\* The answer to a caller that stopped waiting is dropped.
Answer(g, result) ==
    call' = [call EXCEPT ![g] = [pc |-> IF Abandoned(g) THEN "none" ELSE result,
                                 fresh |-> FALSE]]

\* acquire_transfer_sftp, then the file is opened: neither looks at the token.
CallOpen(g) ==
    LET t == run[g].task
        opened == IF call[g].fresh \/ partial[t] = "none" THEN "part"
                  ELSE partial[t] IN
    /\ call[g].pc = "open"
    /\ \/ /\ online
          /\ t \in Uploads \/ call[g].fresh \/ partial[t] # "none"
          /\ call' = [call EXCEPT ![g] = [pc |-> "report", fresh |-> FALSE]]
          /\ partial' = [partial EXCEPT ![t] = opened]
          /\ IF Abandoned(g) /\ opened # partial[t] THEN Excuse({t})
             ELSE UNCHANGED excused
       \/ Answer(g, "err") /\ UNCHANGED <<partial, excused>>
    /\ UNCHANGED <<task, journal, run, handle, nextGen, op, dest, online,
                   faults>>

\* report_progress: the patch does not look at the status it overwrites.
Progressed(t) == Patched(t, [task[t] EXCEPT !.status = "running",
                                !.resumable = TRUE, !.asked = FALSE])

CallReport(g) ==
    LET t == run[g].task IN
    /\ call[g].pc = "report"
    /\ call' = [call EXCEPT ![g].pc = "io"]
    /\ \/ /\ Listed(t)
          /\ task' = Progressed(t)
          /\ IF Abandoned(g) /\ task' # task THEN Excuse({t})
             ELSE UNCHANGED excused
       \/ UNCHANGED <<task, excused>>      \* throttled, or no such task
    /\ UNCHANGED <<journal, run, handle, nextGen, op, partial, dest, online,
                   faults>>

\* One chunk completes the file; a removed file takes the bytes with it.
CallChunk(g) ==
    LET t == run[g].task IN
    /\ call[g].pc = "io"
    /\ online
    /\ partial[t] = "part"
    /\ partial' = [partial EXCEPT ![t] = "full"]
    /\ call' = [call EXCEPT ![g].pc = "report"]
    /\ UNCHANGED <<task, journal, run, handle, nextGen, op, dest, online,
                   faults, excused>>

CallEof(g) ==
    /\ call[g].pc = "io"
    /\ online
    /\ partial[run[g].task] # "part"
    /\ Answer(g, "ok")
    /\ UNCHANGED <<task, journal, run, handle, nextGen, op, partial, dest,
                   online, faults, excused>>

\* Mistaken variant: the loss of the transport is not noticed.
CallStopOnline(g) ==
    /\ call[g].pc = "io"
    /\ online
    /\ Answer(g, "err")
    /\ UNCHANGED <<task, journal, run, handle, nextGen, op, partial, dest,
                   online, faults, excused>>

\* The token is observed, or the transport, the disk or the checksum fails.
CallStop(g) ==
    /\ call[g].pc = "io"
    /\ Answer(g, "err")
    /\ UNCHANGED <<task, journal, run, handle, nextGen, op, partial, dest,
                   online, faults, excused>>

\* replace_remote_file: done, and the answer perhaps lost to a cancellation;
\* or stopped, the destination as it was, left under its backup name, or
\* overwritten in place in part, or in full with the checkpoint still there.
CallReplace(g) ==
    LET t == run[g].task IN
    /\ call[g].pc = "replace"
    /\ \/ /\ online /\ partial[t] # "none"
          /\ dest' = [dest EXCEPT ![t] = Placed(t)]
          /\ partial' = [partial EXCEPT ![t] = "none"]
          /\ Answer(g, "ok") \/ Answer(g, "err")
       \/ /\ Answer(g, "err")
          /\ UNCHANGED <<partial, dest>>
       \/ /\ partial[t] # "none"
          /\ \E d \in {"broken", Placed(t)} : dest' = [dest EXCEPT ![t] = d]
          /\ Answer(g, "err")
          /\ UNCHANGED partial
    /\ UNCHANGED <<task, journal, run, handle, nextGen, op, online, faults,
                   excused>>

-----------------------------------------------------------------------------
(***************************************************************************)
(* The environment                                                         *)
(***************************************************************************)

SessionLost ==
    /\ online
    /\ Fault
    /\ online' = FALSE
    /\ UNCHANGED <<task, journal, run, handle, nextGen, call, op, partial,
                   dest, excused>>

SessionBack ==
    /\ ~online
    /\ online' = TRUE
    /\ UNCHANGED <<task, journal, run, handle, nextGen, call, op, partial,
                   dest, faults, excused>>

\* Somebody else deletes a checkpoint file.
Vanish(t) ==
    /\ partial[t] # "none"
    /\ Fault
    /\ partial' = [partial EXCEPT ![t] = "none"]
    /\ UNCHANGED <<task, journal, run, handle, nextGen, call, op, dest,
                   online, excused>>

\* The program dies and ensure_loaded runs: the normalised journal becomes the
\* task list and is written back, then due local cleanups are retried.
Restart ==
    LET due == {t \in Tasks \ Uploads : journal[t].cleanup} IN
    /\ Fault
    /\ task' = journal
    /\ handle' = [t \in Tasks |-> 0]
    /\ run' = [g \in Gens |-> NoRun]
    /\ nextGen' = 0
    /\ call' = [g \in Gens |-> NoCall]
    /\ op' = IF due = {} THEN NoOp
             ELSE [NoOp EXCEPT !.kind = "retry", !.todo = due]
    /\ online' = FALSE
    /\ UNCHANGED <<journal, partial, dest, excused>>

-----------------------------------------------------------------------------
UserStep ==
    \/ \E t \in Tasks : Create(t) \/ Resume(t) \/ Pause(t) \/ Discard(t)
                        \/ ForceDiscard(t) \/ Clear(t)
    \/ PauseForTab \/ Shutdown \/ RetryOnConnect

OpStep ==
    \/ \E t \in Tasks : StopNext(t) \/ ApplyPause(t) \/ ApplyDiscard(t)
                        \/ CleanDiscard(t) \/ CleanRetry(t)
    \/ StopDone \/ StopTimeout \/ ApplyShutdown

RunStep(g) ==
    \/ RunRead(g) \/ RunBegin(g) \/ RunClear(g) \/ RunPlan(g) \/ RunSend(g)
    \/ RunAnswer(g) \/ RunCheck(g) \/ RunVerify(g) \/ RunCommit(g)
    \/ RunFinish(g) \/ RunError(g) \/ RunFail(g) \/ RunJudge(g)
    \/ RunRemove(g)

CallStep(g) ==
    \/ CallOpen(g) \/ CallReport(g) \/ CallChunk(g) \/ CallEof(g)
    \/ CallStop(g) \/ CallReplace(g)

EnvStep == SessionLost \/ SessionBack \/ Restart \/ \E t \in Tasks : Vanish(t)

Next ==
    \/ UserStep
    \/ OpStep
    \/ \E g \in Gens : RunStep(g) \/ CallStep(g)
    \/ EnvStep

Spec == Init /\ [][Next]_vars

\* The async runtime polls every task that is ready, and each await of these
\* tasks ends: worker calls by an answer, a cancellation or a timeout, files by
\* the operating system.  Users, sessions and faults promise nothing.
Fairness ==
    /\ WF_vars(OpStep)
    /\ \A g \in Gens : WF_vars(RunStep(g)) /\ WF_vars(CallStep(g))

FairSpec == Spec /\ Fairness

-----------------------------------------------------------------------------
(***************************************************************************)
(* Properties                                                              *)
(***************************************************************************)

\* Every variable has its type; "cleared" and "absent" stand for no entry.
TypeOK ==
    /\ task \in [Tasks -> TaskRecord]
    /\ journal \in [Tasks -> LoadedRecord]
    /\ handle \in [Tasks -> Gens \cup {0}]
    /\ run \in [Gens -> RunRecord]
    /\ nextGen \in 0 .. MaxGen
    /\ call \in [Gens -> CallRecord]
    /\ op \in OpRecord
    /\ partial \in [Tasks -> {"none", "part", "full"}]
    /\ dest \in [Tasks -> {"old", "new", "broken"}]
    /\ online \in BOOLEAN
    /\ faults \in 0 .. MaxFaults
    /\ excused \in SUBSET Tasks

\* A run that has not settled is the one its task has registered: pause,
\* discard and shutdown can reach every run, and no task has two of them,
\* whatever run of an earlier generation is still being removed.
RunsReachable ==
    \A g \in Gens : Live(g) => handle[run[g].task] = g

\* Pause, discard and shutdown patch a task, and discard deletes its files,
\* only when no run of that task is still under way.
QuiescentApply ==
    op.pc \in {"apply", "clean"} =>
        \A g \in Gens : Live(g) => run[g].task \notin op.cur

\* An active task can always be resumed, so that pausing, leaving the program
\* or losing it never turns a transfer under way into a canceled one.
ActiveResumable ==
    \A t \in Tasks : Active(t) /\ t \notin excused => task[t].resumable

\* A task shown as active is in somebody's hands: its run, or the operation
\* that stopped its run and is about to patch it.
NoOrphan ==
    \A t \in Tasks : Active(t) /\ t \notin excused =>
        \/ \E g \in Gens : run[g].task = t /\ Live(g)
        \/ t \in op.cur

\* A transfer is reported done only with the complete file in place.
DoneMeansCommitted ==
    \A t \in Tasks : task[t].status = "done" /\ t \notin excused =>
        dest[t] = "new"

\* A checkpoint of a discarded task is never forgotten, neither by the running
\* program nor by the one that loads the journal after a crash.
DiscardTracked ==
    \A t \in Tasks : t \notin excused =>
        \A r \in {task[t], journal[t]} :
            r.status = "canceled" /\ ~r.cleanup =>
                partial[t] = "none"

\* What a task says of its files is true of the files.
FilesTracked == DoneMeansCommitted /\ DiscardTracked

\* A task that is not active becomes active only because the user created or
\* resumed it, which starts a run.
ExplicitRestart ==
    [][\A t \in Tasks : ~Active(t) /\ Active(t)' =>
           nextGen' > nextGen \/ t \in excused']_vars

\* A checkpoint disappears by discard, by a due cleanup, by taking the place
\* of the destination, or by somebody else's hand: resuming keeps it.
CheckpointKept ==
    [][\A t \in Tasks \ excused : partial[t] # "none" /\ partial'[t] = "none" =>
           \/ op.kind \in {"discard", "force", "retry"}
           \/ \E g \in Gens : run[g].task = t
                 /\ (run[g].pc = "commit" \/ call[g].pc = "replace")
           \/ Vanish(t)]_vars

\* Every operation comes to an end and lets the next one in.
OperationsEnd == op # NoOp ~> op = NoOp

\* A transfer under way does not stay so for ever without an excuse.
TransfersResolve ==
    \A t \in Tasks :
        Active(t) /\ t \notin excused ~> ~Active(t) \/ t \in excused

===============================================================================
