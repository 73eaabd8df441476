-------------------------- MODULE TransferRunsProofs --------------------------
(***************************************************************************)
(* Theorems of TransferRuns, for every set of tasks and every bound.       *)
(***************************************************************************)
EXTENDS TransferRuns, TLAPS

-----------------------------------------------------------------------------
(***************************************************************************)
(* Types                                                                   *)
(***************************************************************************)

\* The constants of the data types are in them.
LEMMA RecordTypes ==
    /\ NewTask \in TaskRecord /\ NoTask \in TaskRecord
    /\ NoRun \in RunRecord /\ NoCall \in CallRecord /\ NoOp \in OpRecord
    /\ [NoTask EXCEPT !.status = "cleared"] \in TaskRecord
    /\ Discarded \in TaskRecord
BY TransferAssumption
   DEF NewTask, NoTask, NoRun, NoCall, NoOp, Discarded, TaskRecord, RunRecord,
       RunPc, CallRecord, OpRecord, Status, ActiveStatus, TerminalStatus,
       Unlisted

\* Interrupting a task makes a task of it that is not active.
LEMMA InterruptedType ==
    ASSUME NEW r \in TaskRecord
    PROVE  /\ Interrupted(r) \in TaskRecord
           /\ Interrupted(r).status = InterruptStatus(r)
           /\ Interrupted(r).status \notin ActiveStatus
BY DEF Interrupted, InterruptStatus, TaskRecord, Status, ActiveStatus,
       TerminalStatus, Unlisted

\* What a restart loads is a task list without active tasks.
LEMMA LoadedType ==
    ASSUME NEW tasks \in [Tasks -> TaskRecord]
    PROVE  Loaded(tasks) \in [Tasks -> LoadedRecord]
BY InterruptedType DEF Loaded, LoadedRecord

\* A save, complete or not, keeps the types of the lists and the fault counter.
LEMMA SaveType ==
    ASSUME TypeOK, NEW tasks \in [Tasks -> TaskRecord],
           Save(tasks) \/ SaveFails(tasks)
    PROVE  /\ task' = tasks
           /\ task' \in [Tasks -> TaskRecord]
           /\ journal' \in [Tasks -> LoadedRecord]
           /\ faults' \in 0 .. MaxFaults
BY LoadedType, TransferAssumption DEF Save, SaveFails, Fault, TypeOK

\* RunSave, moreover, only moves the program counter of its run.
LEMMA RunSaveType ==
    ASSUME TypeOK, NEW g \in Gens, NEW tasks \in [Tasks -> TaskRecord],
           NEW next \in RunPc, RunSave(g, tasks, next)
    PROVE  /\ task' = tasks
           /\ task' \in [Tasks -> TaskRecord]
           /\ journal' \in [Tasks -> LoadedRecord]
           /\ faults' \in 0 .. MaxFaults
           /\ run' \in [Gens -> RunRecord]
BY SaveType DEF RunSave, Goto, TypeOK, RunRecord, RunPc

\* Moving a run's program counter keeps its record's type.
LEMMA GotoType ==
    ASSUME TypeOK, NEW g \in Gens, NEW pc \in RunPc, Goto(g, pc)
    PROVE  run' \in [Gens -> RunRecord]
BY DEF Goto, TypeOK, RunRecord

\* The members of the type sets the actions compute with.
LEMMA StatusValues ==
    /\ ActiveStatus \subseteq Status /\ TerminalStatus \subseteq Status
    /\ {"paused", "failed", "canceled", "cleared"} \subseteq Status
BY DEF Status, ActiveStatus, TerminalStatus, Unlisted

\* A start takes the next generation, within the bound.
LEMMA StartType ==
    ASSUME TypeOK, NEW t \in Tasks, Start(t)
    PROVE  /\ nextGen' \in 0 .. MaxGen
           /\ handle' \in [Tasks -> Gens \cup {0}]
           /\ run' \in [Gens -> RunRecord]
<1> DEFINE g == nextGen + 1
<1>1. g \in Gens
  BY TransferAssumption DEF Start, CanStart, TypeOK, Gens
<1>2. nextGen' \in 0 .. MaxGen
  BY <1>1 DEF Start, TypeOK, Gens
<1>3. handle' \in [Tasks -> Gens \cup {0}]
  BY <1>1 DEF Start, TypeOK
<1>4. run' \in [Gens -> RunRecord]
  BY <1>1 DEF Start, TypeOK, RunRecord, RunPc
<1> QED
  BY <1>2, <1>3, <1>4

\* Cancelling changes nothing in a run but its token, and none of another run.
LEMMA CancelType ==
    ASSUME TypeOK, NEW gs, CancelRuns(gs)
    PROVE  run' \in [Gens -> RunRecord]
BY DEF CancelRuns, TypeOK, RunRecord

\* What a set of tasks has registered is a set of generations.
LEMMA HandlesType ==
    ASSUME TypeOK, NEW ts \in SUBSET Tasks
    PROVE  HandlesOf(ts) \in SUBSET Gens
BY DEF HandlesOf, TypeOK

\* A task list in which one task was patched is a task list.
LEMMA PatchType ==
    ASSUME TypeOK, NEW t \in Tasks, NEW r \in TaskRecord
    PROVE  Patched(t, r) \in [Tasks -> TaskRecord]
BY DEF Patched, TypeOK

\* So is one in which a task was moved to another status.
LEMMA MovedType ==
    ASSUME TypeOK, NEW t \in Tasks, NEW status \in Status
    PROVE  Moved(t, status) \in [Tasks -> TaskRecord]
<1> DEFINE r == task[t]
<1>1. r \in TaskRecord
  BY DEF TypeOK
<1> HIDE DEF r
<1>2. [r EXCEPT !.status = status, !.asked = FALSE] \in TaskRecord
  BY <1>1 DEF TaskRecord
<1> QED
  BY <1>2, PatchType DEF Moved, r

\* The initial state has its types.
LEMMA InitTypeOK == Init => TypeOK
<1>1. NoTask \in LoadedRecord
  BY RecordTypes DEF LoadedRecord, NoTask, ActiveStatus
<1> QED
  BY <1>1, RecordTypes, TransferAssumption DEF Init, TypeOK, Gens

\* Users.
LEMMA UserTypeOK == TypeOK /\ UserStep => TypeOK'
<1> SUFFICES ASSUME TypeOK, UserStep PROVE TypeOK'
  OBVIOUS
<1> USE RecordTypes, TransferAssumption
<1>1. ASSUME NEW t \in Tasks, Create(t) PROVE TypeOK'
  <2>1. Patched(t, NewTask) \in [Tasks -> TaskRecord]
    BY PatchType
  <2>2. /\ task' \in [Tasks -> TaskRecord]
        /\ journal' \in [Tasks -> LoadedRecord]
        /\ faults' \in 0 .. MaxFaults
    BY <1>1, <2>1, SaveType DEF Create
  <2> QED
    BY <1>1, <2>2, StartType DEF Create, Excuse, TypeOK
<1>2. ASSUME NEW t \in Tasks, Resume(t) PROVE TypeOK'
  <2> DEFINE r == [task[t] EXCEPT !.status = "queued", !.asked = TRUE]
  <2>0. r \in TaskRecord
    BY DEF TypeOK, TaskRecord, Status, ActiveStatus
  <2>1. Patched(t, r) \in [Tasks -> TaskRecord]
    BY <2>0, PatchType
  <2>2. /\ task' \in [Tasks -> TaskRecord]
        /\ journal' \in [Tasks -> LoadedRecord]
        /\ faults' \in 0 .. MaxFaults
    BY <1>2, <2>1, SaveType DEF Resume
  <2> QED
    BY <1>2, <2>2, StartType DEF Resume, Excuse, Absolve, TypeOK
<1>3. ASSUME NEW t \in Tasks, Clear(t) PROVE TypeOK'
  <2>1. Patched(t, [NoTask EXCEPT !.status = "cleared"])
            \in [Tasks -> TaskRecord]
    BY PatchType
  <2> QED
    BY <1>3, <2>1, SaveType DEF Clear, TypeOK
<1>4. ASSUME NEW kind \in {"pause", "discard", "force", "retry"},
             NEW ts \in SUBSET Tasks, BeginOp(kind, ts)
      PROVE  TypeOK'
  BY <1>4 DEF BeginOp, TypeOK, OpRecord, NoOp
<1>5. CASE Shutdown
  <2>1. HandlesOf(Tasks) \in SUBSET Gens
    BY HandlesType
  <2>2. op' \in OpRecord
    BY <1>5, <2>1 DEF Shutdown, OpRecord
  <2>3. run' \in [Gens -> RunRecord]
    BY <1>5, CancelType DEF Shutdown
  <2> QED
    BY <1>5, <2>2, <2>3 DEF Shutdown, TypeOK
<1> QED
  BY <1>1, <1>2, <1>3, <1>4, <1>5
     DEF UserStep, Pause, PauseForTab, Discard, ForceDiscard, RetryOnConnect,
         Pausable

\* Operations.
LEMMA OpTypeOK == TypeOK /\ OpStep => TypeOK'
<1> SUFFICES ASSUME TypeOK, OpStep PROVE TypeOK'
  OBVIOUS
<1> USE RecordTypes, TransferAssumption
<1>1. ASSUME NEW t \in Tasks, StopNext(t) PROVE TypeOK'
  <2>1. HandlesOf({t}) \in SUBSET Gens
    BY HandlesType
  <2>2. op' \in OpRecord
    BY <1>1, <2>1 DEF StopNext, OpRecord, TypeOK
  <2>3. run' \in [Gens -> RunRecord]
    BY <1>1, CancelType DEF StopNext
  <2> QED
    BY <1>1, <2>2, <2>3 DEF StopNext, TypeOK
<1>2. ASSUME NEW t \in Tasks, Proceed(t) PROVE op' \in OpRecord
  BY <1>2 DEF Proceed, TypeOK, OpRecord, NoOp
<1>3. ASSUME NEW t \in Tasks, ApplyPause(t) PROVE TypeOK'
  <2> DEFINE tasks == Moved(t, "paused")
  <2>1. tasks \in [Tasks -> TaskRecord]
    BY MovedType, StatusValues
  <2>2. UNCHANGED <<task, journal, faults>> \/ Save(tasks) \/ SaveFails(tasks)
    BY <1>3 DEF ApplyPause
  <2> HIDE DEF tasks
  <2>3. /\ task' \in [Tasks -> TaskRecord]
        /\ journal' \in [Tasks -> LoadedRecord]
        /\ faults' \in 0 .. MaxFaults
    BY <2>1, <2>2, SaveType DEF TypeOK
  <2>4. op' \in OpRecord
    BY <1>2, <1>3 DEF ApplyPause
  <2> QED
    BY <1>3, <2>3, <2>4 DEF ApplyPause, Absolve, TypeOK
<1>4. ASSUME NEW t \in Tasks, ApplyDiscard(t) PROVE TypeOK'
  <2> DEFINE tasks == Patched(t, Discarded)
  <2>1. tasks \in [Tasks -> TaskRecord]
    BY PatchType
  <2>2. UNCHANGED <<task, journal, faults>> \/ Save(tasks) \/ SaveFails(tasks)
    BY <1>4 DEF ApplyDiscard
  <2> HIDE DEF tasks
  <2>3. /\ task' \in [Tasks -> TaskRecord]
        /\ journal' \in [Tasks -> LoadedRecord]
        /\ faults' \in 0 .. MaxFaults
    BY <2>1, <2>2, SaveType DEF TypeOK
  <2>4. op' \in OpRecord
    BY <1>4 DEF ApplyDiscard, OpRecord, TypeOK
  <2> QED
    BY <1>4, <2>3, <2>4 DEF ApplyDiscard, Absolve, TypeOK
<1>5. ASSUME NEW t \in Tasks, CleanDiscard(t) PROVE TypeOK'
  <2>1. PICK cleaned \in BOOLEAN :
          LET due   == ~cleaned /\ op.kind = "discard"
              tasks == Patched(t, [task[t] EXCEPT !.cleanup = due,
                         !.resumable = op.kind # "force" /\ @, !.asked = FALSE])
          IN /\ Cleanup(t, cleaned)
             /\ Save(tasks) \/ SaveFails(tasks)
             /\ IF cleaned \/ due THEN UNCHANGED excused ELSE Excuse({t})
    BY <1>5 DEF CleanDiscard
  <2> DEFINE due == ~cleaned /\ op.kind = "discard"
             r == [task[t] EXCEPT !.cleanup = due,
                     !.resumable = op.kind # "force" /\ @, !.asked = FALSE]
             tasks == Patched(t, r)
  <2>2. r \in TaskRecord
    BY DEF TypeOK, TaskRecord
  <2>3. tasks \in [Tasks -> TaskRecord]
    BY <2>2, PatchType
  <2>4. Save(tasks) \/ SaveFails(tasks)
    BY <2>1
  <2> HIDE DEF tasks
  <2>5. /\ task' \in [Tasks -> TaskRecord]
        /\ journal' \in [Tasks -> LoadedRecord]
        /\ faults' \in 0 .. MaxFaults
    BY <2>3, <2>4, SaveType
  <2>6. /\ partial' \in [Tasks -> {"none", "part", "full"}]
        /\ excused' \in SUBSET Tasks
    BY <2>1 DEF Cleanup, Excuse, TypeOK
  <2> QED
    BY <1>5, <2>5, <2>6 DEF CleanDiscard, TypeOK
<1>6. ASSUME NEW t \in Tasks, CleanRetry(t) PROVE TypeOK'
  <2>1. PICK cleaned \in BOOLEAN :
          LET tasks == Patched(t, [task[t] EXCEPT !.cleanup = ~cleaned,
                                                  !.asked = FALSE])
          IN /\ Cleanup(t, cleaned)
             /\ \/ Save(tasks) /\ Proceed(t)
                \/ SaveFails(tasks) /\ op' = NoOp
    BY <1>6 DEF CleanRetry
  <2> DEFINE r == [task[t] EXCEPT !.cleanup = ~cleaned, !.asked = FALSE]
             tasks == Patched(t, r)
  <2>2. r \in TaskRecord
    BY DEF TypeOK, TaskRecord
  <2>3. tasks \in [Tasks -> TaskRecord]
    BY <2>2, PatchType
  <2>4. (Save(tasks) \/ SaveFails(tasks)) /\ (Proceed(t) \/ op' = NoOp)
    BY <2>1
  <2> HIDE DEF tasks
  <2>5. /\ task' \in [Tasks -> TaskRecord]
        /\ journal' \in [Tasks -> LoadedRecord]
        /\ faults' \in 0 .. MaxFaults
    BY <2>3, <2>4, SaveType
  <2>6. /\ partial' \in [Tasks -> {"none", "part", "full"}]
        /\ op' \in OpRecord
    BY <1>2, <2>1, <2>4 DEF Cleanup, TypeOK
  <2> QED
    BY <1>6, <2>5, <2>6 DEF CleanRetry, TypeOK
<1>7. CASE StopDone
  BY <1>7 DEF StopDone, Removed, TypeOK, OpRecord
<1>8. CASE StopTimeout
  <2>1. /\ {run[g].task : g \in op.wait} \in SUBSET Tasks
        /\ op.cur \in SUBSET Tasks
    BY DEF TypeOK, OpRecord, RunRecord
  <2>2. faults' \in 0 .. MaxFaults
    BY <1>8 DEF StopTimeout, Fault, TypeOK
  <2> QED
    BY <1>8, <2>1, <2>2 DEF StopTimeout, Excuse, TypeOK
<1>9. CASE ApplyShutdown
  <2>1. [t \in Tasks |-> IF t \in Interruptible
                         THEN Interrupted(task[t]) ELSE task[t]]
            \in [Tasks -> TaskRecord]
    BY InterruptedType DEF TypeOK
  <2> QED
    BY <1>9, <2>1, SaveType DEF ApplyShutdown, TypeOK
<1> QED
  BY <1>1, <1>3, <1>4, <1>5, <1>6, <1>7, <1>8, <1>9 DEF OpStep

\* Runs.
LEMMA RunTypeOK == \A g \in Gens : TypeOK /\ RunStep(g) => TypeOK'
<1> SUFFICES ASSUME TypeOK, NEW g \in Gens, RunStep(g) PROVE TypeOK'
  OBVIOUS
<1> DEFINE t == run[g].task
           r == task[t]
<1>0. t \in Tasks /\ r \in TaskRecord
  BY DEF TypeOK, RunRecord
<1> HIDE DEF t, r
<1>1. CASE RunRead(g)
  <2> DEFINE begun == [run[g] EXCEPT !.pc = "begin", !.resume = r.asked]
  <2>0. r.asked \in BOOLEAN /\ run[g] \in RunRecord
    BY <1>0 DEF TypeOK, TaskRecord
  <2>1. begun \in RunRecord
    BY <2>0 DEF RunRecord, RunPc
  <2>2. \/ Goto(g, "settled") \/ Goto(g, "fail")
        \/ run' = [run EXCEPT ![g] = begun]
    BY <1>1 DEF RunRead, t, r
  <2> HIDE DEF begun
  <2>3. run' \in [Gens -> RunRecord]
    BY <2>1, <2>2, GotoType DEF RunPc, TypeOK
  <2> QED
    BY <1>1, <2>3 DEF RunRead, TypeOK
<1>2. CASE RunBegin(g)
  <2>1. Moved(t, "running") \in [Tasks -> TaskRecord]
    BY <1>0, MovedType DEF Status, ActiveStatus
  <2>2. \/ Goto(g, "settled") /\ UNCHANGED <<task, journal, faults>>
        \/ RunSave(g, Moved(t, "running"), "clear")
    BY <1>2 DEF RunBegin, t
  <2>3. /\ task' \in [Tasks -> TaskRecord]
        /\ journal' \in [Tasks -> LoadedRecord]
        /\ faults' \in 0 .. MaxFaults
        /\ run' \in [Gens -> RunRecord]
    BY <2>1, <2>2, RunSaveType, GotoType DEF RunPc, TypeOK
  <2> QED
    BY <1>2, <2>3 DEF RunBegin, TypeOK
<1>3. CASE RunClear(g)
  <2> DEFINE planning == [run[g] EXCEPT !.pc = "plan", !.resume = FALSE]
  <2>2. planning \in RunRecord
    BY DEF TypeOK, RunRecord, RunPc
  <2>3. run' = [run EXCEPT ![g] = planning]
    BY <1>3 DEF RunClear
  <2> HIDE DEF planning
  <2>1. run' \in [Gens -> RunRecord]
    BY <2>2, <2>3 DEF TypeOK
  <2> QED
    BY <1>3, <2>1 DEF RunClear, TypeOK
<1>4. CASE RunPlan(g)
  <2> DEFINE next == IF t \in Uploads /\ partial[t] = "full"
                     THEN "check" ELSE "send"
             tasks == Patched(t, [r EXCEPT !.resumable = TRUE, !.asked = FALSE])
  <2>1. [r EXCEPT !.resumable = TRUE, !.asked = FALSE] \in TaskRecord
    BY <1>0 DEF TaskRecord
  <2>2. tasks \in [Tasks -> TaskRecord]
    BY <1>0, <2>1, PatchType
  <2>3. next \in RunPc
    BY DEF RunPc
  <2>4. RunSave(g, tasks, next)
    BY <1>4 DEF RunPlan, t, r
  <2> HIDE DEF tasks, next
  <2>5. /\ task' \in [Tasks -> TaskRecord]
        /\ journal' \in [Tasks -> LoadedRecord]
        /\ faults' \in 0 .. MaxFaults
        /\ run' \in [Gens -> RunRecord]
    BY <2>2, <2>3, <2>4, RunSaveType
  <2> DEFINE fresh == partial[t] = "none"
  <2>7. call' = [call EXCEPT ![g].fresh = fresh] /\ fresh \in BOOLEAN
    BY <1>4 DEF RunPlan, t
  <2> HIDE DEF fresh
  <2>6. call' \in [Gens -> CallRecord]
    BY <2>7 DEF TypeOK, CallRecord
  <2> QED
    BY <1>4, <2>5, <2>6 DEF RunPlan, TypeOK
<1>5. CASE RunSend(g)
  <2>1. run' \in [Gens -> RunRecord]
    BY <1>5, GotoType DEF RunSend, RunPc
  <2>2. call' \in [Gens -> CallRecord]
    BY <1>5 DEF RunSend, TypeOK, CallRecord
  <2> QED
    BY <1>5, <2>1, <2>2 DEF RunSend, TypeOK
<1>6. CASE RunAnswer(g)
  <2>1. Answered(g) \in RunPc /\ "fail" \in RunPc
    BY DEF Answered, RunPc
  <2>2. run' \in [Gens -> RunRecord]
    BY <1>6, <2>1, GotoType DEF RunAnswer, TimedOut
  <2>3. call' \in [Gens -> CallRecord]
    BY <1>6 DEF RunAnswer, TypeOK, CallRecord
  <2>4. faults' \in 0 .. MaxFaults
    BY <1>6, TransferAssumption DEF RunAnswer, TimedOut, Fault, TypeOK
  <2> QED
    BY <1>6, <2>2, <2>3, <2>4 DEF RunAnswer, TypeOK
<1>7. CASE RunCheck(g)
  <2>1. Moved(t, "verifying") \in [Tasks -> TaskRecord]
    BY <1>0, MovedType DEF Status, ActiveStatus
  <2>2. \/ Goto(g, "settled") /\ UNCHANGED <<task, journal, faults>>
        \/ RunSave(g, Moved(t, "verifying"), "verify")
    BY <1>7 DEF RunCheck, t
  <2>3. /\ task' \in [Tasks -> TaskRecord]
        /\ journal' \in [Tasks -> LoadedRecord]
        /\ faults' \in 0 .. MaxFaults
        /\ run' \in [Gens -> RunRecord]
    BY <2>1, <2>2, RunSaveType, GotoType DEF RunPc, TypeOK
  <2> QED
    BY <1>7, <2>3 DEF RunCheck, TypeOK
<1>8. CASE RunVerify(g)
  <2>1. Moved(t, "finalizing") \in [Tasks -> TaskRecord]
    BY <1>0, MovedType DEF Status, ActiveStatus
  <2>2. RunSave(g, Moved(t, "finalizing"), "commit")
    BY <1>8 DEF RunVerify, t
  <2>3. /\ task' \in [Tasks -> TaskRecord]
        /\ journal' \in [Tasks -> LoadedRecord]
        /\ faults' \in 0 .. MaxFaults
        /\ run' \in [Gens -> RunRecord]
    BY <2>1, <2>2, RunSaveType DEF RunPc
  <2> QED
    BY <1>8, <2>3 DEF RunVerify, TypeOK
<1>9. CASE RunCommit(g)
  <2>1. run' \in [Gens -> RunRecord]
    BY <1>9, GotoType DEF RunCommit, RunPc
  <2>2. call' \in [Gens -> CallRecord]
    BY <1>9 DEF RunCommit, TypeOK, CallRecord
  <2>3. /\ partial' \in [Tasks -> {"none", "part", "full"}]
        /\ dest' \in [Tasks -> {"old", "new", "broken"}]
    BY <1>9 DEF RunCommit, Placed, TypeOK
  <2> QED
    BY <1>9, <2>1, <2>2, <2>3 DEF RunCommit, TypeOK
<1>10. CASE RunFinish(g)
  <2> DEFINE tasks == Patched(t, [r EXCEPT !.status = "done",
                                    !.resumable = FALSE, !.asked = FALSE])
  <2>1. [r EXCEPT !.status = "done", !.resumable = FALSE, !.asked = FALSE]
            \in TaskRecord
    BY <1>0 DEF TaskRecord, Status, TerminalStatus
  <2>2. tasks \in [Tasks -> TaskRecord]
    BY <1>0, <2>1, PatchType
  <2>3. RunSave(g, tasks, "settled")
    BY <1>10 DEF RunFinish, t, r
  <2> HIDE DEF tasks
  <2>4. /\ task' \in [Tasks -> TaskRecord]
        /\ journal' \in [Tasks -> LoadedRecord]
        /\ faults' \in 0 .. MaxFaults
        /\ run' \in [Gens -> RunRecord]
    BY <2>2, <2>3, RunSaveType DEF RunPc
  <2> QED
    BY <1>10, <2>4 DEF RunFinish, TypeOK
<1>11. CASE RunError(g)
  BY <1>11, GotoType DEF RunError, RunPc, TypeOK
<1>12. CASE RunFail(g)
  <2>1. AfterFailure(g) \in RunPc
    BY DEF AfterFailure, RunPc
  <2> QED
    BY <1>12, <2>1, GotoType DEF RunFail, TypeOK
<1>13. CASE RunJudge(g)
  <2>1. PICK found \in BOOLEAN :
          LET tasks == Patched(run[g].task, [task[run[g].task] EXCEPT
                         !.status = IF found THEN "paused" ELSE "failed",
                         !.resumable = found, !.asked = FALSE])
          IN Save(tasks) \/ SaveFails(tasks)
    BY <1>13 DEF RunJudge
  <2> DEFINE judged == [r EXCEPT
                          !.status = IF found THEN "paused" ELSE "failed",
                          !.resumable = found, !.asked = FALSE]
             tasks == Patched(t, judged)
  <2>2. judged \in TaskRecord
    BY <1>0 DEF TaskRecord, Status, TerminalStatus
  <2>3. tasks \in [Tasks -> TaskRecord]
    BY <1>0, <2>2, PatchType
  <2>4. Save(tasks) \/ SaveFails(tasks)
    BY <2>1 DEF t, r
  <2> HIDE DEF tasks
  <2>5. /\ task' \in [Tasks -> TaskRecord]
        /\ journal' \in [Tasks -> LoadedRecord]
        /\ faults' \in 0 .. MaxFaults
    BY <2>3, <2>4, SaveType
  <2>6. run' \in [Gens -> RunRecord]
    BY <1>13, GotoType DEF RunJudge, RunPc
  <2> QED
    BY <1>13, <2>5, <2>6 DEF RunJudge, TypeOK
<1>14. CASE RunRemove(g)
  <2> DEFINE gone == [run[g] EXCEPT !.pc = "gone", !.cancel = FALSE,
                                    !.resume = FALSE]
  <2>2. gone \in RunRecord
    BY DEF TypeOK, RunRecord, RunPc
  <2>3. run' = [run EXCEPT ![g] = gone]
    BY <1>14 DEF RunRemove
  <2> HIDE DEF gone
  <2>1. run' \in [Gens -> RunRecord]
    BY <2>2, <2>3 DEF TypeOK
  <2> QED
    BY <1>14, <2>1 DEF RunRemove, Removed, TypeOK
<1> QED
  BY <1>1, <1>2, <1>3, <1>4, <1>5, <1>6, <1>7, <1>8, <1>9, <1>10, <1>11, <1>12,
     <1>13, <1>14 DEF RunStep

\* Worker calls.
LEMMA CallTypeOK == \A g \in Gens : TypeOK /\ CallStep(g) => TypeOK'
<1> SUFFICES ASSUME TypeOK, NEW g \in Gens, CallStep(g) PROVE TypeOK'
  OBVIOUS
<1> DEFINE t == run[g].task
           r == task[t]
<1>0. t \in Tasks /\ r \in TaskRecord
  BY DEF TypeOK, RunRecord
<1>1. ASSUME NEW result \in {"ok", "err"}, Answer(g, result)
      PROVE  call' \in [Gens -> CallRecord]
  BY <1>1 DEF Answer, TypeOK, CallRecord
<1>2. CASE CallOpen(g)
  <2>3. \/ call' = [call EXCEPT ![g] = [pc |-> "report", fresh |-> FALSE]]
        \/ Answer(g, "err")
    BY <1>2 DEF CallOpen
  <2>8. [pc |-> "report", fresh |-> FALSE] \in CallRecord
    BY DEF CallRecord
  <2>1. call' \in [Gens -> CallRecord]
    BY <1>1, <2>3, <2>8 DEF TypeOK
  <2> DEFINE opened == IF call[g].fresh \/ partial[t] = "none" THEN "part"
                       ELSE partial[t]
  <2>4. opened \in {"none", "part", "full"}
    BY <1>0 DEF TypeOK
  <2>5. UNCHANGED partial \/ partial' = [partial EXCEPT ![t] = opened]
    BY <1>2 DEF CallOpen
  <2>6. UNCHANGED excused \/ Excuse({t})
    BY <1>2 DEF CallOpen
  <2> HIDE DEF t, opened
  <2>2. partial' \in [Tasks -> {"none", "part", "full"}]
    BY <2>4, <2>5 DEF TypeOK
  <2>7. excused' \in SUBSET Tasks
    BY <1>0, <2>6 DEF Excuse, TypeOK
  <2> QED
    BY <1>2, <2>1, <2>2, <2>7 DEF CallOpen, TypeOK
<1>3. CASE CallReport(g)
  <2> HIDE DEF t, r
  <2>1. [r EXCEPT !.status = "running", !.resumable = TRUE, !.asked = FALSE]
            \in TaskRecord
    BY <1>0 DEF TaskRecord, Status, ActiveStatus
  <2> USE DEF t, r
  <2>2. task' \in [Tasks -> TaskRecord]
    BY <1>0, <1>3, <2>1, PatchType DEF CallReport, Progressed, TypeOK
  <2>3. excused' \in SUBSET Tasks
    BY <1>0, <1>3 DEF CallReport, Excuse, TypeOK
  <2>4. call' \in [Gens -> CallRecord]
    BY <1>3 DEF CallReport, TypeOK, CallRecord
  <2> QED
    BY <1>3, <2>2, <2>3, <2>4 DEF CallReport, TypeOK
<1>4. CASE CallChunk(g)
  <2>1. call' \in [Gens -> CallRecord]
    BY <1>4 DEF CallChunk, TypeOK, CallRecord
  <2> QED
    BY <1>4, <2>1 DEF CallChunk, TypeOK
<1>5. CASE CallEof(g)
  BY <1>1, <1>5 DEF CallEof, TypeOK
<1>6. CASE CallStop(g)
  BY <1>1, <1>6 DEF CallStop, TypeOK
<1>7. CASE CallReplace(g)
  <2>1. call' \in [Gens -> CallRecord]
    BY <1>1, <1>7 DEF CallReplace
  <2>2. /\ partial' \in [Tasks -> {"none", "part", "full"}]
        /\ dest' \in [Tasks -> {"old", "new", "broken"}]
    BY <1>7 DEF CallReplace, Placed, TypeOK
  <2> QED
    BY <1>7, <2>1, <2>2 DEF CallReplace, TypeOK
<1> QED
  BY <1>2, <1>3, <1>4, <1>5, <1>6, <1>7 DEF CallStep

\* The environment.
LEMMA EnvTypeOK == TypeOK /\ EnvStep => TypeOK'
<1> SUFFICES ASSUME TypeOK, EnvStep PROVE TypeOK'
  OBVIOUS
<1>1. Fault => faults' \in 0 .. MaxFaults
  BY TransferAssumption DEF Fault, TypeOK
<1>2. CASE SessionLost
  BY <1>1, <1>2 DEF SessionLost, TypeOK
<1>3. CASE SessionBack
  BY <1>3 DEF SessionBack, TypeOK
<1>4. ASSUME NEW t \in Tasks, Vanish(t) PROVE TypeOK'
  BY <1>1, <1>4 DEF Vanish, TypeOK
<1>5. CASE Restart
  <2>1. op' \in OpRecord
    BY <1>5 DEF Restart, NoOp, OpRecord
  <2>2. nextGen' \in 0 .. MaxGen
    BY <1>5, TransferAssumption DEF Restart
  <2> QED
    BY <1>1, <1>5, <2>1, <2>2, RecordTypes DEF Restart, LoadedRecord, TypeOK
<1> QED
  BY <1>2, <1>3, <1>4, <1>5 DEF EnvStep

\* Every step keeps the types.
LEMMA NextTypeOK == TypeOK /\ [Next]_vars => TypeOK'
<1>1. TypeOK /\ UNCHANGED vars => TypeOK'
  BY DEF vars, TypeOK
<1> QED
  BY <1>1, UserTypeOK, OpTypeOK, RunTypeOK, CallTypeOK, EnvTypeOK DEF Next

\* The types hold in every behaviour, for every set of tasks and every bound.
THEOREM TypeCorrect == Spec => []TypeOK
BY InitTypeOK, NextTypeOK, PTL DEF Spec

-----------------------------------------------------------------------------
(***************************************************************************)
(* The registry.  A step starts a run of a task that has none, while no    *)
(* operation is under way; or restarts the program; or settles runs and    *)
(* removes entries of runs that have settled, and nothing else.            *)
(***************************************************************************)

\* A run that still transfers, as opposed to one that failed.
Working(g) == Live(g) /\ run[g].pc \notin {"fail", "judge"}

Starts == \E t \in Tasks : Start(t) /\ op = NoOp /\ UNCHANGED op

OnlySettles ==
    /\ UNCHANGED nextGen
    /\ \A g \in Gens :
         /\ run'[g].task = run[g].task
         /\ Live(g)' => Live(g)
         /\ Working(g)' => Working(g)
    /\ \A t \in Tasks :
         \/ handle'[t] = handle[t]
         \/ handle'[t] = 0 /\ \E g \in Gens : handle[t] = g /\ ~Live(g)'

\* A live run that moves on, and never back from its failure, settles at most.
LEMMA GotoSettles ==
    ASSUME TypeOK, NEW g \in Gens, Live(g), NEW pc, Goto(g, pc),
           Working(g) \/ pc \in {"judge", "settled"},
           UNCHANGED <<handle, nextGen>>
    PROVE  OnlySettles
BY DEF OnlySettles, Goto, TypeOK, RunRecord, Working, Live, Settled

\* So does any change of a live run that leaves it its task.
LEMMA ChangeSettles ==
    ASSUME TypeOK, NEW g \in Gens, Working(g), NEW r, r.task = run[g].task,
           run' = [run EXCEPT ![g] = r], UNCHANGED <<handle, nextGen>>
    PROVE  OnlySettles
BY DEF OnlySettles, TypeOK, RunRecord, Working, Live, Settled

\* A patch a run persists moves that run on, or to its failure.
LEMMA RunSaveSettles ==
    ASSUME TypeOK, NEW g \in Gens, Working(g), NEW tasks, NEW next,
           RunSave(g, tasks, next), UNCHANGED <<handle, nextGen>>
    PROVE  OnlySettles
BY GotoSettles DEF RunSave, Working

\* A step that leaves runs and registry alone settles none.
LEMMA UnchangedSettles ==
    ASSUME UNCHANGED <<run, handle, nextGen>>
    PROVE  OnlySettles
BY DEF OnlySettles, Working, Live, Settled

\* Cancelling runs settles none of them: they have to notice.
LEMMA CancelSettles ==
    ASSUME TypeOK, NEW gs, CancelRuns(gs), UNCHANGED <<handle, nextGen>>
    PROVE  OnlySettles
BY DEF OnlySettles, CancelRuns, TypeOK, RunRecord, Working, Live, Settled

\* A step of a run starts none, and its entry goes only once it has settled.
LEMMA RunSettles ==
    ASSUME TypeOK, NEW g \in Gens, RunStep(g)
    PROVE  OnlySettles
<1> DEFINE begun == [run[g] EXCEPT !.pc = "begin",
                                   !.resume = task[run[g].task].asked]
           planning == [run[g] EXCEPT !.pc = "plan", !.resume = FALSE]
           gone == [run[g] EXCEPT !.pc = "gone", !.cancel = FALSE,
                                  !.resume = FALSE]
<1>0. /\ run[g] \in RunRecord
      /\ begun.task = run[g].task
      /\ planning.task = run[g].task
      /\ gone.task = run[g].task /\ gone.pc = "gone"
  BY DEF TypeOK, RunRecord
<1>1. CASE RunRead(g)
  <2>1. Live(g) /\ Working(g) /\ UNCHANGED <<handle, nextGen>>
    BY <1>1 DEF RunRead, At, Working, Live, Settled
  <2>2. \/ Goto(g, "settled") \/ Goto(g, "fail")
        \/ run' = [run EXCEPT ![g] = begun]
    BY <1>1 DEF RunRead
  <2> HIDE DEF begun
  <2> QED
    BY <1>0, <2>1, <2>2, GotoSettles, ChangeSettles
<1>2. CASE RunClear(g)
  <2>1. Working(g) /\ UNCHANGED <<handle, nextGen>>
    BY <1>2 DEF RunClear, At, Working, Live, Settled
  <2>2. run' = [run EXCEPT ![g] = planning]
    BY <1>2 DEF RunClear
  <2> HIDE DEF planning
  <2> QED
    BY <1>0, <2>1, <2>2, ChangeSettles
<1>3. CASE RunRemove(g)
  <2>1. /\ run' = [run EXCEPT ![g] = gone] /\ handle' = Removed({g})
        /\ UNCHANGED nextGen
    BY <1>3 DEF RunRemove
  <2> HIDE DEF gone
  <2>2. \A h \in Gens : /\ run'[h].task = run[h].task
                        /\ Live(h)' => Live(h)
                        /\ Working(h)' => Working(h)
    BY <1>0, <2>1 DEF TypeOK, Working, Live, Settled
  <2>3. ~Live(g)'
    BY <1>0, <2>1 DEF TypeOK, Live, Settled
  <2> QED
    BY <2>1, <2>2, <2>3 DEF Removed, OnlySettles
<1>4. CASE RunBegin(g) \/ RunPlan(g) \/ RunCheck(g) \/ RunVerify(g)
           \/ RunFinish(g)
  BY <1>4, GotoSettles, RunSaveSettles
     DEF RunBegin, RunPlan, RunCheck, RunVerify, RunFinish, At, Working,
         Live, Settled
<1>5. CASE RunSend(g) \/ RunAnswer(g) \/ RunCommit(g) \/ RunError(g)
           \/ RunFail(g) \/ RunJudge(g)
  BY <1>5, GotoSettles
     DEF RunSend, RunAnswer, TimedOut, RunCommit, RunError, RunFail,
         RunJudge, AfterFailure, At, Working, Live, Settled
<1> QED
  BY <1>1, <1>2, <1>3, <1>4, <1>5 DEF RunStep

\* Every step is one of the three kinds this section is about.
LEMMA RegistryStep ==
    TypeOK /\ [Next]_vars => Starts \/ Restart \/ OnlySettles
<1> SUFFICES ASSUME TypeOK, [Next]_vars, ~Restart
             PROVE  Starts \/ OnlySettles
  OBVIOUS
<1>1. CASE UserStep
  <2>1. CASE \E t \in Tasks : Create(t) \/ Resume(t)
    BY <2>1, UnchangedSettles DEF Create, Resume, Starts, Free
  <2>2. CASE \E t \in Tasks : Clear(t)
    BY <2>2, UnchangedSettles DEF Clear
  <2>3. ASSUME NEW kind, NEW ts, BeginOp(kind, ts) PROVE OnlySettles
    BY <2>3, UnchangedSettles DEF BeginOp
  <2>4. CASE Shutdown
    BY <2>4, CancelSettles DEF Shutdown
  <2> QED
    BY <1>1, <2>1, <2>2, <2>3, <2>4
       DEF UserStep, Pause, PauseForTab, Discard, ForceDiscard, RetryOnConnect
<1>2. CASE OpStep
  <2>1. CASE \E t \in Tasks : StopNext(t)
    BY <2>1, CancelSettles DEF StopNext
  <2>2. CASE StopDone
    BY <2>2 DEF StopDone, AllStopped, Removed, OnlySettles, TypeOK, OpRecord,
                Working, Live, Settled
  <2>3. CASE UNCHANGED <<run, handle, nextGen>>
    BY <2>3, UnchangedSettles
  <2> QED
    BY <1>2, <2>1, <2>2, <2>3
       DEF OpStep, ApplyPause, ApplyDiscard, CleanDiscard, CleanRetry,
           StopTimeout, ApplyShutdown
<1>3. ASSUME NEW g \in Gens, RunStep(g) PROVE OnlySettles
  BY <1>3, RunSettles
<1>4. ASSUME NEW g \in Gens, CallStep(g) PROVE OnlySettles
  BY <1>4, UnchangedSettles
     DEF CallStep, CallOpen, CallReport, CallChunk, CallEof, CallStop,
         CallReplace
<1>5. CASE EnvStep
  BY <1>5, UnchangedSettles DEF EnvStep, SessionLost, SessionBack, Vanish
<1>6. CASE UNCHANGED vars
  BY <1>6, UnchangedSettles DEF vars
<1> QED
  BY <1>1, <1>2, <1>3, <1>4, <1>5, <1>6 DEF Next

\* A step keeps every live run registered: an entry goes only with its run, and
\* a run starts only where the map holds no entry.
LEMMA ReachableStep ==
    TypeOK /\ RunsReachable /\ [Next]_vars => RunsReachable'
<1> SUFFICES ASSUME TypeOK, RunsReachable, [Next]_vars,
                    NEW g \in Gens, Live(g)'
             PROVE  handle'[run'[g].task] = g
  BY DEF RunsReachable
<1>1. CASE Starts
  <2>1. PICK t \in Tasks : Start(t)
    BY <1>1 DEF Starts
  <2>2. CASE g = nextGen + 1
    BY <2>1, <2>2 DEF Start, TypeOK
  <2>3. CASE g # nextGen + 1
    <3>1. run'[g] = run[g]
      BY <2>1, <2>3 DEF Start, TypeOK
    <3>2. handle[run[g].task] = g
      BY <3>1 DEF RunsReachable, Live, Settled
    <3>3. run[g].task # t
      BY <2>1, <3>2, TransferAssumption DEF Start, CanStart, Gens
    <3> QED
      BY <2>1, <3>1, <3>2, <3>3 DEF Start, TypeOK, RunRecord
  <2> QED
    BY <2>2, <2>3
<1>2. CASE Restart
  BY <1>2 DEF Restart, NoRun, Live, Settled
<1>3. CASE OnlySettles
  <2>1. Live(g) /\ run'[g].task = run[g].task /\ run[g].task \in Tasks
    BY <1>3 DEF OnlySettles, TypeOK, RunRecord
  <2> QED
    BY <1>3, <2>1 DEF OnlySettles, RunsReachable
<1> QED
  BY <1>1, <1>2, <1>3, RegistryStep

\* Every run that has not settled is the one its task has registered, so that
\* a task never has two of them and every operation can cancel it.
THEOREM Reachable == Spec => []RunsReachable
<1>1. Init => RunsReachable
  BY DEF Init, NoRun, RunsReachable, Live, Settled
<1> QED
  BY <1>1, TypeCorrect, ReachableStep, PTL DEF Spec

-----------------------------------------------------------------------------
(***************************************************************************)
(* Quiescence.  While an operation waits, whatever its tasks have          *)
(* registered is among the runs it awaits: none can start behind its back. *)
(***************************************************************************)

Waits == op.pc = "wait" => \A t \in op.cur : handle[t] \in op.wait \cup {0}

\* What a step does to the operation under way.
OpEnds   == op'.pc = "next" /\ op'.cur = {}
OpCleans == op.pc = "apply" /\ op' = [op EXCEPT !.pc = "clean"]
OpStops  == /\ op.pc = "next"
            /\ \E ts \in SUBSET Tasks : op'.cur \subseteq ts
                                        /\ op'.wait = HandlesOf(ts)
            /\ op'.pc = "wait" /\ op'.kind # "retry"
            /\ UNCHANGED handle

\* With no operation under way, none waits and none has a task.
LEMMA NoOpEnds == NoOp.pc = "next" /\ NoOp.cur = {}
BY DEF NoOp

\* A restart ends the operation, or leaves due cleanups to be begun.
LEMMA RestartEnds == Restart => OpEnds
<1> DEFINE due == {t \in Tasks \ Uploads : journal[t].cleanup}
<1>1. Restart => \/ op' = NoOp
                 \/ op' = [NoOp EXCEPT !.kind = "retry", !.todo = due]
  BY DEF Restart
<1> HIDE DEF due
<1> QED
  BY <1>1, NoOpEnds, RecordTypes DEF OpEnds, OpRecord

\* Runs and calls leave the operation alone.
LEMMA OtherOps ==
    ASSUME NEW g \in Gens, RunStep(g) \/ CallStep(g)
    PROVE  UNCHANGED op
BY DEF RunStep, RunRead, RunBegin, RunClear, RunPlan, RunSend, RunAnswer,
       RunCheck, RunVerify, RunCommit, RunFinish, RunError, RunFail,
       RunJudge, RunRemove, CallStep, CallOpen, CallReport, CallChunk,
       CallEof, CallStop, CallReplace

\* The steps an operation can take.
LEMMA OpMoves ==
    TypeOK /\ [Next]_vars =>
        UNCHANGED op \/ OpEnds \/ OpCleans \/ OpStops \/ StopDone
<1> SUFFICES ASSUME TypeOK, [Next]_vars, ~UNCHANGED op, ~StopDone
             PROVE  OpEnds \/ OpCleans \/ OpStops
  OBVIOUS
<1>1. CASE UserStep
  <2>1. ASSUME NEW kind, NEW ts, BeginOp(kind, ts) PROVE OpEnds
    BY <2>1 DEF BeginOp, OpEnds, NoOp
  <2>2. CASE Shutdown
    BY <2>2, NoOpEnds DEF Shutdown, Free, OpStops
  <2> QED
    BY <1>1, <2>1, <2>2
       DEF UserStep, Create, Resume, Clear, Pause, PauseForTab, Discard,
           ForceDiscard, RetryOnConnect
<1>2. CASE OpStep
  <2>1. ASSUME NEW t \in Tasks, StopNext(t) PROVE OpStops
    <3>1. /\ op'.cur = {t} /\ op'.wait = HandlesOf({t}) /\ op'.pc = "wait"
          /\ op.pc = "next" /\ op'.kind # "retry" /\ UNCHANGED handle
      BY <2>1 DEF StopNext, TypeOK, OpRecord
    <3> QED
      BY <3>1 DEF OpStops
  <2>2. ASSUME NEW t \in Tasks, ApplyDiscard(t) PROVE OpEnds \/ OpCleans
    BY <2>2 DEF ApplyDiscard, OpEnds, OpCleans, NoOp, TypeOK, OpRecord
  <2>3. ASSUME NEW t \in Tasks, Proceed(t) PROVE OpEnds
    BY <2>3 DEF Proceed, OpEnds, NoOp
  <2>4. ASSUME NEW t \in Tasks,
               ApplyPause(t) \/ CleanDiscard(t) \/ CleanRetry(t)
        PROVE  OpEnds
    <3>1. op' = NoOp \/ Proceed(t)
      BY <2>4 DEF ApplyPause, CleanDiscard, CleanRetry
    <3> QED
      BY <2>3, <3>1, NoOpEnds DEF OpEnds
  <2>5. CASE StopTimeout \/ ApplyShutdown
    BY <2>5 DEF StopTimeout, ApplyShutdown, OpEnds, NoOp
  <2> QED
    BY <1>2, <2>1, <2>2, <2>4, <2>5 DEF OpStep
<1>3. ASSUME NEW g \in Gens, RunStep(g) \/ CallStep(g) PROVE UNCHANGED op
  BY <1>3, OtherOps
<1>4. CASE EnvStep
  BY <1>4, RestartEnds DEF EnvStep, SessionLost, SessionBack, Vanish
<1>5. CASE UNCHANGED vars
  BY <1>5 DEF vars
<1> QED
  BY <1>1, <1>2, <1>3, <1>4, <1>5 DEF Next

\* Waits is inductive: while the operation waits, no run starts.
LEMMA WaitsStep == TypeOK /\ Waits /\ [Next]_vars => Waits'
<1> SUFFICES ASSUME TypeOK, Waits, [Next]_vars, op'.pc = "wait",
                    NEW t \in op'.cur
             PROVE  handle'[t] \in op'.wait \cup {0}
  BY DEF Waits
<1>0. TypeOK' /\ t \in Tasks
  BY NextTypeOK DEF TypeOK, OpRecord
<1>1. CASE UNCHANGED op
  <2>1. op.pc = "wait" /\ handle[t] \in op.wait \cup {0}
    BY <1>1 DEF Waits
  <2>2. OnlySettles
    <3>1. ~Starts
      BY <2>1 DEF Starts, NoOp
    <3>2. ~Restart
      BY RestartEnds DEF OpEnds
    <3> QED
      BY <3>1, <3>2, RegistryStep
  <2> QED
    BY <1>0, <1>1, <2>1, <2>2 DEF OnlySettles
<1>2. CASE OpStops
  BY <1>0, <1>2 DEF OpStops, HandlesOf
<1> QED
  BY <1>1, <1>2, OpMoves DEF OpEnds, OpCleans, StopDone, TypeOK, OpRecord

\* An operation that is done waiting has only tasks without a live run.
LEMMA QuiescentStep ==
    TypeOK /\ RunsReachable /\ Waits /\ QuiescentApply /\ [Next]_vars
        => QuiescentApply'
<1> SUFFICES ASSUME TypeOK, RunsReachable, Waits, QuiescentApply, [Next]_vars,
                    op'.pc \in {"apply", "clean"},
                    NEW g \in Gens, Live(g)'
             PROVE  run'[g].task \notin op'.cur
  BY DEF QuiescentApply
<1>1. op # NoOp
  BY OpMoves DEF OpEnds, OpCleans, OpStops, StopDone, NoOp
<1>2. OnlySettles
  <2>1. ~Starts
    BY <1>1 DEF Starts
  <2>2. ~Restart
    BY RestartEnds DEF OpEnds
  <2> QED
    BY <2>1, <2>2, RegistryStep
<1>3. Live(g) /\ run'[g].task = run[g].task
  BY <1>2 DEF OnlySettles
<1>4. CASE UNCHANGED op \/ OpCleans
  BY <1>3, <1>4 DEF OpCleans, QuiescentApply, TypeOK, OpRecord
<1>5. CASE StopDone
  <2>1. op'.cur = op.cur /\ op.pc = "wait" /\ g \notin op.wait
    BY <1>3, <1>5 DEF StopDone, AllStopped, Live, TypeOK, OpRecord
  <2>2. handle[run[g].task] = g /\ g # 0
    BY <1>3, TransferAssumption DEF RunsReachable, Gens
  <2> QED
    BY <1>3, <2>1, <2>2 DEF Waits
<1> QED
  BY <1>4, <1>5, OpMoves DEF OpEnds, OpStops

\* Pause, discard and shutdown patch a task, and discard removes its files,
\* only when no run of that task is under way.
THEOREM Quiescent == Spec => []QuiescentApply
<1>1. Init => Waits /\ QuiescentApply
  BY DEF Init, Waits, QuiescentApply, NoOp
<1> QED
  BY <1>1, TypeCorrect, Reachable, WaitsStep, QuiescentStep, PTL DEF Spec

-----------------------------------------------------------------------------
(***************************************************************************)
(* The statuses.  A run that transfers has an active task that can be      *)
(* resumed; the patches of a run keep that so, and those of an operation   *)
(* meet no run.  What a discard leaves to clean up is active again only    *)
(* through the report of an abandoned call.                                *)
(***************************************************************************)

WorkingActive ==
    \A g \in Gens : Working(g) => /\ Active(run[g].task)
                                  /\ task[run[g].task].resumable

CleanExcused ==
    op.pc = "clean" => \A t \in op.cur : Active(t) => t \in excused

StatusInv == /\ TypeOK /\ RunsReachable /\ QuiescentApply
             /\ WorkingActive /\ CleanExcused

\* How a step may leave a task active: it was, and a run or an operation made it
\* no less resumable; or a run of it starts; or an event excuses it.
Activation(t) ==
    Active(t)' =>
        \/ Active(t) /\ (t \notin excused' /\ task[t].resumable
                            => task'[t].resumable)
        \/ task'[t].resumable /\ (Start(t) \/ t \in excused')

\* What a step may absolve.
Absolution(t) == t \in excused \ excused' /\ Active(t)' => ~Active(t)

TaskStep ==
    /\ \A t \in Tasks : Activation(t) /\ Absolution(t)
    /\ WorkingActive'
    /\ CleanExcused'

\* A patch changes its task and no other.
LEMMA PatchEffect ==
    ASSUME TypeOK, NEW t \in Tasks, NEW r
    PROVE  /\ Patched(t, r)[t] = r
           /\ \A u \in Tasks : u # t => Patched(t, r)[u] = task[u]
BY DEF Patched, TypeOK

\* So does moving a task, which keeps whether it can be resumed.
LEMMA MovedEffect ==
    ASSUME TypeOK, NEW t \in Tasks, NEW status
    PROVE  /\ Moved(t, status)[t].status = status
           /\ Moved(t, status)[t].resumable = task[t].resumable
           /\ \A u \in Tasks : u # t => Moved(t, status)[u] = task[u]
<1> DEFINE r == task[t]
<1>1. r \in TaskRecord
  BY DEF TypeOK
<1> HIDE DEF r
<1>2. /\ [r EXCEPT !.status = status, !.asked = FALSE].status = status
      /\ [r EXCEPT !.status = status, !.asked = FALSE].resumable = r.resumable
  BY <1>1 DEF TaskRecord
<1> DEFINE moved == [r EXCEPT !.status = status, !.asked = FALSE]
<1>3. Moved(t, status) = Patched(t, moved)
  BY DEF Moved, r
<1> HIDE DEF moved
<1>4. /\ Patched(t, moved)[t] = moved
      /\ \A u \in Tasks : u # t => Patched(t, moved)[u] = task[u]
  BY PatchEffect
<1> QED
  BY <1>2, <1>3, <1>4 DEF r, moved

\* Saved or not, the list in memory is the patched one.
LEMMA SaveEffect ==
    ASSUME NEW tasks, Save(tasks) \/ SaveFails(tasks)
    PROVE  task' = tasks
BY DEF Save, SaveFails

\* Steps that change no task.
LEMMA NoPatch ==
    ASSUME StatusInv, OnlySettles, UNCHANGED task, excused \subseteq excused',
           op'.pc = "clean" => UNCHANGED op
    PROVE  TaskStep
<1>1. ASSUME NEW t \in Tasks PROVE Activation(t) /\ Absolution(t)
  BY DEF Activation, Absolution, Active
<1>2. WorkingActive'
  BY DEF OnlySettles, WorkingActive, StatusInv, Active
<1>3. CleanExcused'
  BY DEF CleanExcused, StatusInv, Active
<1> QED
  BY <1>1, <1>2, <1>3 DEF TaskStep

\* Steps of a run or of a worker call that patch their task.
LEMMA RunPatch ==
    ASSUME StatusInv, OnlySettles, UNCHANGED op, excused \subseteq excused',
           NEW t \in Tasks,
           \A u \in Tasks : u # t => task'[u] = task[u],
           \/ /\ Active(t)' /\ task'[t].resumable
              /\ Active(t) \/ t \in excused'
           \/ /\ ~Active(t)'
              /\ \A g \in Gens : Working(g)' => run'[g].task # t
    PROVE  TaskStep
<1> USE DEF StatusInv, Active
<1>0. \A g \in Gens : run[g].task \in Tasks
  BY DEF TypeOK, RunRecord
<1>1. ASSUME NEW u \in Tasks PROVE Activation(u) /\ Absolution(u)
  BY DEF Activation, Absolution
<1>2. WorkingActive'
  BY <1>0 DEF OnlySettles, WorkingActive
<1>3. CleanExcused'
  BY DEF CleanExcused, TypeOK, OpRecord
<1> QED
  BY <1>1, <1>2, <1>3 DEF TaskStep

\* No other run of the task of a live run is live.
LEMMA OnlyRun ==
    ASSUME RunsReachable, NEW g \in Gens, NEW h \in Gens, Live(g), Live(h),
           run[g].task = run[h].task
    PROVE  g = h
BY DEF RunsReachable

\* What a step of a run does to the tasks.
LEMMA RunTaskStep == \A g \in Gens : StatusInv /\ RunStep(g) => TaskStep
<1> SUFFICES ASSUME StatusInv, NEW g \in Gens, RunStep(g) PROVE TaskStep
  OBVIOUS
<1>0. TypeOK
  BY DEF StatusInv
<1>t. PICK t \in Tasks, r \in TaskRecord : t = run[g].task /\ r = task[t]
  BY <1>0 DEF TypeOK, RunRecord
<1> USE <1>t
<1>1. OnlySettles /\ UNCHANGED op /\ UNCHANGED excused
  <2>1. UNCHANGED op /\ UNCHANGED excused
    BY DEF RunStep, RunRead, RunBegin, RunClear, RunPlan, RunSend, RunAnswer,
           RunCheck, RunVerify, RunCommit, RunFinish, RunError, RunFail,
           RunJudge, RunRemove
  <2>2. OnlySettles
    BY <1>0, RunSettles
  <2> QED
    BY <2>1, <2>2
<1>2. Working(g) => Active(t) /\ r.resumable
  BY DEF StatusInv, WorkingActive
<1>3. ASSUME NEW status \in ActiveStatus, Working(g), task' = Moved(t, status)
      PROVE  TaskStep
  <2>1. /\ Active(t)' /\ task'[t].resumable
        /\ \A u \in Tasks : u # t => task'[u] = task[u]
    BY <1>0, <1>2, <1>3, MovedEffect DEF Active
  <2> QED
    BY <1>0, <1>1, <1>2, <1>3, <2>1, RunPatch
<1>4. ASSUME NEW p, task' = Patched(t, p), p.status \notin ActiveStatus,
             Live(g), ~Working(g)'
      PROVE  TaskStep
  <2>1. \A h \in Gens : Working(h)' => run'[h].task # t
    BY <1>1, <1>4, OnlyRun DEF OnlySettles, Working, StatusInv
  <2>2. ~Active(t)' /\ \A u \in Tasks : u # t => task'[u] = task[u]
    BY <1>0, <1>4, PatchEffect DEF Active
  <2> QED
    BY <1>0, <1>1, <2>1, <2>2, RunPatch
<1>5. CASE UNCHANGED task
  BY <1>1, <1>5, NoPatch
<1>6. CASE RunBegin(g)
  <2>1. UNCHANGED task \/ RunSave(g, Moved(t, "running"), "clear")
    BY <1>6 DEF RunBegin
  <2>2. Working(g)
    BY <1>6 DEF RunBegin, At, Working, Live, Settled
  <2> QED
    BY <1>3, <1>5, <2>1, <2>2, SaveEffect DEF RunSave, ActiveStatus
<1>7. CASE RunCheck(g)
  <2>1. UNCHANGED task \/ RunSave(g, Moved(t, "verifying"), "verify")
    BY <1>7 DEF RunCheck
  <2>2. Working(g)
    BY <1>7 DEF RunCheck, At, Working, Live, Settled
  <2> QED
    BY <1>3, <1>5, <2>1, <2>2, SaveEffect DEF RunSave, ActiveStatus
<1>8. CASE RunVerify(g)
  <2>1. RunSave(g, Moved(t, "finalizing"), "commit")
    BY <1>8 DEF RunVerify
  <2>2. Working(g)
    BY <1>8 DEF RunVerify, At, Working, Live, Settled
  <2> QED
    BY <1>3, <2>1, <2>2, SaveEffect DEF RunSave, ActiveStatus
<1>9. CASE RunPlan(g)
  <2> DEFINE planned == [r EXCEPT !.resumable = TRUE, !.asked = FALSE]
             next == IF t \in Uploads /\ partial[t] = "full"
                     THEN "check" ELSE "send"
  <2>1. RunSave(g, Patched(t, planned), next)
    BY <1>9 DEF RunPlan
  <2>2. Working(g)
    BY <1>9 DEF RunPlan, At, Working, Live, Settled
  <2> HIDE DEF next
  <2>3. planned.status = r.status /\ planned.resumable
    BY <1>0 DEF TaskRecord
  <2> HIDE DEF planned
  <2>4. task' = Patched(t, planned)
    BY <2>1, SaveEffect DEF RunSave
  <2>5. /\ task'[t] = planned
        /\ \A u \in Tasks : u # t => task'[u] = task[u]
    BY <1>0, <2>4, PatchEffect
  <2>6. Active(t) /\ Active(t)' /\ task'[t].resumable
    BY <1>2, <2>2, <2>3, <2>5 DEF Active
  <2> QED
    BY <1>0, <1>1, <2>5, <2>6, RunPatch
<1>10. CASE RunFinish(g)
  <2> DEFINE finished == [r EXCEPT !.status = "done", !.resumable = FALSE,
                                   !.asked = FALSE]
  <2>1. RunSave(g, Patched(t, finished), "settled")
    BY <1>10 DEF RunFinish
  <2>2. Live(g)
    BY <1>10 DEF RunFinish, At, Live, Settled
  <2>3. ~Working(g)'
    <3>1. Goto(g, "settled") \/ Goto(g, "fail")
      BY <2>1 DEF RunSave
    <3> QED
      BY <1>0, <3>1 DEF Goto, Working, Live, Settled, TypeOK, RunRecord
  <2>4. finished.status \notin ActiveStatus
    BY <1>0 DEF TaskRecord, ActiveStatus
  <2> HIDE DEF finished
  <2> QED
    BY <1>4, <2>1, <2>2, <2>3, <2>4, SaveEffect DEF RunSave
<1>11. CASE RunJudge(g)
  <2>1. PICK found \in BOOLEAN :
          LET tasks == Patched(run[g].task, [task[run[g].task] EXCEPT
                         !.status = IF found THEN "paused" ELSE "failed",
                         !.resumable = found, !.asked = FALSE])
          IN Save(tasks) \/ SaveFails(tasks)
    BY <1>11 DEF RunJudge
  <2> DEFINE judged == [r EXCEPT
                          !.status = IF found THEN "paused" ELSE "failed",
                          !.resumable = found, !.asked = FALSE]
  <2>2. Save(Patched(t, judged)) \/ SaveFails(Patched(t, judged))
    BY <2>1
  <2>3. Live(g)
    BY <1>11 DEF RunJudge, At, Live, Settled
  <2>4. ~Working(g)'
    BY <1>0, <1>11 DEF RunJudge, Goto, Working, Live, Settled, TypeOK, RunRecord
  <2>5. judged.status \notin ActiveStatus
    BY <1>0 DEF TaskRecord, ActiveStatus
  <2> HIDE DEF judged
  <2> QED
    BY <1>4, <2>2, <2>3, <2>4, <2>5, SaveEffect
<1>12. CASE \/ RunRead(g) \/ RunClear(g) \/ RunSend(g) \/ RunAnswer(g)
            \/ RunCommit(g) \/ RunError(g) \/ RunFail(g) \/ RunRemove(g)
  BY <1>5, <1>12 DEF RunRead, RunClear, RunSend, RunAnswer, RunCommit, RunError,
                     RunFail, RunRemove
<1> QED
  BY <1>6, <1>7, <1>8, <1>9, <1>10, <1>11, <1>12 DEF RunStep

\* A call whose caller still waits reports on a task that is active; the report
\* of an abandoned call is one of the events that excuse a task.
LEMMA CallTaskStep == \A g \in Gens : StatusInv /\ CallStep(g) => TaskStep
<1> SUFFICES ASSUME StatusInv, NEW g \in Gens, CallStep(g) PROVE TaskStep
  OBVIOUS
<1>0. TypeOK
  BY DEF StatusInv
<1>t. PICK t \in Tasks, r \in TaskRecord : t = run[g].task /\ r = task[t]
  BY <1>0 DEF TypeOK, RunRecord
<1> USE <1>t
<1>1. OnlySettles /\ UNCHANGED op /\ excused \subseteq excused'
  <2>1. UNCHANGED op /\ UNCHANGED <<run, handle, nextGen>>
    BY DEF CallStep, CallOpen, CallReport, CallChunk, CallEof, CallStop,
           CallReplace
  <2>2. excused \subseteq excused'
    BY DEF CallStep, CallOpen, CallReport, CallChunk, CallEof, CallStop,
           CallReplace, Excuse
  <2> QED
    BY <2>1, <2>2, UnchangedSettles
<1>2. CASE UNCHANGED task
  BY <1>1, <1>2, NoPatch
<1>3. CASE CallReport(g) /\ ~UNCHANGED task
  <2> DEFINE reported == [r EXCEPT !.status = "running", !.resumable = TRUE,
                                   !.asked = FALSE]
  <2>1. task' = Patched(t, reported)
    BY <1>3 DEF CallReport, Progressed
  <2>2. Active(t) \/ t \in excused'
    <3>1. CASE Abandoned(g)
      BY <1>3, <3>1 DEF CallReport, Excuse
    <3>2. CASE ~Abandoned(g)
      BY <3>2 DEF Abandoned, StatusInv, WorkingActive, Working, Live, Settled
    <3> QED
      BY <3>1, <3>2
  <2>3. reported.status = "running" /\ reported.resumable
    BY <1>0 DEF TaskRecord
  <2> HIDE DEF reported
  <2>4. /\ Active(t)' /\ task'[t].resumable
        /\ \A u \in Tasks : u # t => task'[u] = task[u]
    BY <1>0, <2>1, <2>3, PatchEffect DEF Active, ActiveStatus
  <2> QED
    BY <1>0, <1>1, <2>2, <2>4, RunPatch
<1>4. CASE ~CallReport(g)
  BY <1>2, <1>4
     DEF CallStep, CallOpen, CallChunk, CallEof, CallStop, CallReplace
<1> QED
  BY <1>2, <1>3, <1>4

\* Steps of users and operations, which change no run: what they do to a task
\* that a run transfers is at most to patch what neither status nor resumable
\* depend on.
Untouched(u) == /\ task'[u].status = task[u].status
                /\ task'[u].resumable = task[u].resumable
Idle(u) == \A g \in Gens : Working(g) => run[g].task # u

\* A step that changes no run, and no status a run depends on.
LEMMA OpPatch ==
    ASSUME StatusInv, UNCHANGED run,
           op'.pc = "clean" => \A u \in op'.cur : ~Active(u)',
           \A u \in Tasks :
               \/ Untouched(u)
               \/ Idle(u) /\ ~Active(u)'
               \/ /\ Idle(u) /\ task'[u].status = task[u].status
                  /\ Active(u) => u \in excused',
           \A u \in excused \ excused' : ~Active(u)'
    PROVE  TaskStep
<1> USE DEF StatusInv, Active
<1>0. \A g \in Gens : run[g].task \in Tasks /\ (Working(g)' <=> Working(g))
  BY DEF TypeOK, RunRecord, Working, Live, Settled
<1>1. ASSUME NEW u \in Tasks PROVE Activation(u) /\ Absolution(u)
  BY DEF Activation, Absolution, Untouched
<1>2. WorkingActive'
  BY <1>0 DEF WorkingActive, Untouched, Idle
<1>3. CleanExcused'
  BY DEF CleanExcused
<1> QED
  BY <1>1, <1>2, <1>3 DEF TaskStep

\* A task that did not change kept its status and whether it can be resumed.
LEMMA SameUntouched ==
    ASSUME NEW u, task'[u] = task[u]
    PROVE  Untouched(u)
BY DEF Untouched

\* What an operation is about to patch has no run.
LEMMA OpIdle ==
    ASSUME StatusInv, op.pc \in {"apply", "clean"}, NEW t \in op.cur
    PROVE  Idle(t)
BY DEF StatusInv, QuiescentApply, Idle, Working

\* Create and resume.
LEMMA StartPatch ==
    ASSUME StatusInv, NEW t \in Tasks, ~Active(t),
           Active(t)', task'[t].resumable,
           \A u \in Tasks : u # t => task'[u] = task[u],
           Start(t) \/ (t \in excused' /\ UNCHANGED run),
           excused \ {t} \subseteq excused',
           op'.pc # "clean"
    PROVE  TaskStep
<1> USE DEF StatusInv, Active
<1>1. ASSUME NEW u \in Tasks PROVE Activation(u) /\ Absolution(u)
  BY DEF Activation, Absolution
<1>2. ASSUME NEW g \in Gens, Working(g)'
      PROVE  Active(run[g].task)' /\ task'[run'[g].task].resumable
  <2>1. \/ run'[g].task = t
        \/ run'[g] = run[g] /\ Working(g) /\ run[g].task \in Tasks
    <3>1. run'[g].task = t \/ run'[g] = run[g]
      <4>1. CASE Start(t)
        BY <4>1 DEF Start, TypeOK
      <4> QED
        BY <4>1
    <3>2. run[g].task \in Tasks
      BY DEF TypeOK, RunRecord
    <3> QED
      BY <1>2, <3>1, <3>2 DEF Working, Live, Settled
  <2> QED
    BY <2>1 DEF WorkingActive
<1>3. CleanExcused'
  BY DEF CleanExcused
<1> QED
  BY <1>1, <1>2, <1>3 DEF TaskStep, WorkingActive

\* What the users do to the tasks.
LEMMA UserTaskStep == StatusInv /\ UserStep => TaskStep
<1> SUFFICES ASSUME StatusInv, UserStep PROVE TaskStep
  OBVIOUS
<1>0. TypeOK
  BY DEF StatusInv
<1>1. ASSUME NEW t \in Tasks, Create(t) PROVE TaskStep
  <2>1. task' = Patched(t, NewTask)
    BY <1>1, SaveEffect DEF Create
  <2>2. /\ task'[t].status = "queued" /\ task'[t].resumable
        /\ \A u \in Tasks : u # t => task'[u] = task[u]
    BY <1>0, <2>1, PatchEffect DEF NewTask
  <2>3. /\ Start(t) \/ (t \in excused' /\ UNCHANGED run)
        /\ excused \ {t} \subseteq excused'
        /\ op'.pc # "clean" /\ task[t].status = "absent"
    BY <1>1, NoOpEnds DEF Create, Free, Excuse
  <2> QED
    BY <2>2, <2>3, StartPatch DEF Active, ActiveStatus
<1>2. ASSUME NEW t \in Tasks, Resume(t) PROVE TaskStep
  <2>0. PICK r \in TaskRecord : r = task[t]
    BY <1>0 DEF TypeOK
  <2> DEFINE resumed == [r EXCEPT !.status = "queued", !.asked = TRUE]
  <2>1. task' = Patched(t, resumed)
    BY <1>2, <2>0, SaveEffect DEF Resume
  <2>2. resumed.status = "queued" /\ resumed.resumable
    BY <1>2, <2>0 DEF Resume, ResumeAllowed, TaskRecord
  <2> HIDE DEF resumed
  <2>3. /\ task'[t].status = "queued" /\ task'[t].resumable
        /\ \A u \in Tasks : u # t => task'[u] = task[u]
    BY <1>0, <2>1, <2>2, PatchEffect
  <2>4. /\ Start(t) \/ (t \in excused' /\ UNCHANGED run)
        /\ excused \ {t} \subseteq excused'
        /\ op'.pc # "clean" /\ task[t].status \in CanResumeFrom
    BY <1>2, NoOpEnds DEF Resume, ResumeAllowed, Free, Excuse, Absolve
  <2> QED
    BY <2>3, <2>4, StartPatch DEF Active, ActiveStatus, CanResumeFrom
<1>3. ASSUME NEW t \in Tasks, Clear(t) PROVE TaskStep
  <2>1. task' = Patched(t, [NoTask EXCEPT !.status = "cleared"])
    BY <1>3, SaveEffect DEF Clear
  <2>2. task'[t].status = "cleared"
    BY <1>0, <2>1, PatchEffect, RecordTypes DEF NoTask
  <2>3. \A u \in Tasks : u # t => task'[u] = task[u]
    BY <1>0, <2>1, PatchEffect
  <2>4. /\ Idle(t) /\ ~Active(t)'
        /\ \A u \in Tasks : u # t => Untouched(u)
    BY <1>3, <2>2, <2>3, SameUntouched
       DEF Clear, Clearable, Terminal, TerminalStatus, Active, ActiveStatus,
           Idle, StatusInv, WorkingActive
  <2>5. UNCHANGED <<run, excused>> /\ op'.pc # "clean"
    BY <1>3, NoOpEnds DEF Clear, Free
  <2> QED
    BY <2>4, <2>5, OpPatch
<1>4. ASSUME NEW kind, NEW ts, BeginOp(kind, ts) PROVE TaskStep
  <2>1. op'.pc # "clean"
    BY <1>4, RecordTypes, NoOpEnds DEF BeginOp, OpRecord
  <2>2. OnlySettles /\ UNCHANGED task /\ UNCHANGED excused
    BY <1>4, UnchangedSettles DEF BeginOp
  <2> QED
    BY <2>1, <2>2, NoPatch
<1>5. CASE Shutdown
  <2>1. op'.pc = "wait" /\ UNCHANGED task /\ UNCHANGED excused
    BY <1>5 DEF Shutdown
  <2>2. OnlySettles
    BY <1>0, <1>5, CancelSettles DEF Shutdown
  <2> QED
    BY <2>1, <2>2, NoPatch
<1> QED
  BY <1>1, <1>2, <1>3, <1>4, <1>5
     DEF UserStep, Pause, PauseForTab, Discard, ForceDiscard, RetryOnConnect

\* What an operation does to the tasks.
LEMMA OpTaskStep == StatusInv /\ OpStep => TaskStep
<1> SUFFICES ASSUME StatusInv, OpStep PROVE TaskStep
  OBVIOUS
<1>0. TypeOK
  BY DEF StatusInv
<1>1. ASSUME NEW t \in Tasks, StopNext(t) PROVE TaskStep
  <2>1. OnlySettles
    BY <1>0, <1>1, CancelSettles DEF StopNext
  <2>2. op'.pc = "wait" /\ UNCHANGED task /\ UNCHANGED excused
    BY <1>0, <1>1 DEF StopNext, TypeOK, OpRecord
  <2> QED
    BY <2>1, <2>2, NoPatch
<1>2. CASE StopDone
  <2>1. op'.pc = "apply" /\ UNCHANGED task /\ UNCHANGED excused
    BY <1>0, <1>2 DEF StopDone, TypeOK, OpRecord
  <2>2. ~Starts
    BY <1>2, NoOpEnds DEF StopDone, Starts
  <2>3. ~Restart
    BY <2>1, RestartEnds DEF OpEnds
  <2>4. OnlySettles
    BY <1>0, <1>2, <2>2, <2>3, RegistryStep DEF Next, OpStep
  <2> QED
    BY <2>1, <2>4, NoPatch
<1>3. CASE StopTimeout
  <2>1. OnlySettles
    BY <1>3, UnchangedSettles DEF StopTimeout
  <2>2. op'.pc # "clean" /\ UNCHANGED task /\ excused \subseteq excused'
    BY <1>3, NoOpEnds DEF StopTimeout, Excuse
  <2> QED
    BY <2>1, <2>2, NoPatch
<1>4. ASSUME NEW t \in Tasks, ApplyPause(t) PROVE TaskStep
  <2>1. \/ UNCHANGED <<task, excused>>
        \/ task' = Moved(t, "paused") /\ (UNCHANGED excused \/ Absolve({t}))
    BY <1>4, SaveEffect DEF ApplyPause
  <2>2. OpEnds /\ UNCHANGED run
    <3>1. (Proceed(t) \/ op' = NoOp) /\ UNCHANGED run
      BY <1>4 DEF ApplyPause
    <3> QED
      BY <3>1, NoOpEnds DEF Proceed, OpEnds, NoOp
  <2>3. t \in op.cur /\ Idle(t)
    BY <1>4, OpIdle DEF ApplyPause
  <2>4. CASE UNCHANGED <<task, excused>>
    BY <2>2, <2>4, OpPatch, SameUntouched DEF OpEnds
  <2>5. CASE task' = Moved(t, "paused") /\ (UNCHANGED excused \/ Absolve({t}))
    <3>1. task'[t].status = "paused" /\ \A u \in Tasks : u # t => Untouched(u)
      BY <1>0, <2>5, MovedEffect, SameUntouched
    <3>2. ~Active(t)' /\ \A u \in excused \ excused' : u = t
      BY <2>5, <3>1 DEF Active, ActiveStatus, Absolve
    <3> QED
      BY <2>2, <2>3, <3>1, <3>2, OpPatch DEF OpEnds
  <2> QED
    BY <2>1, <2>4, <2>5
<1>5. ASSUME NEW t \in Tasks, ApplyDiscard(t) PROVE TaskStep
  <2>1. \/ UNCHANGED <<task, excused>> /\ op' = NoOp
        \/ /\ task' = Patched(t, Discarded)
           /\ UNCHANGED excused \/ Absolve({t})
           /\ op' = NoOp \/ op' = [op EXCEPT !.pc = "clean"]
    BY <1>5, SaveEffect DEF ApplyDiscard
  <2>2. UNCHANGED run /\ t \in op.cur /\ op.cur = {t} /\ Idle(t)
    BY <1>5, OpIdle DEF ApplyDiscard
  <2>3. CASE UNCHANGED <<task, excused>> /\ op' = NoOp
    BY <2>2, <2>3, OpPatch, SameUntouched, NoOpEnds
  <2>4. CASE /\ task' = Patched(t, Discarded)
             /\ UNCHANGED excused \/ Absolve({t})
             /\ op' = NoOp \/ op' = [op EXCEPT !.pc = "clean"]
    <3>1. /\ task'[t].status = "canceled"
          /\ \A u \in Tasks : u # t => Untouched(u)
      BY <1>0, <2>4, PatchEffect, SameUntouched DEF Discarded
    <3>2. ~Active(t)' /\ \A u \in excused \ excused' : u = t
      BY <2>4, <3>1 DEF Active, ActiveStatus, Absolve
    <3>3. op'.pc = "clean" => op'.cur = {t}
      BY <1>0, <2>2, <2>4, NoOpEnds DEF TypeOK, OpRecord
    <3> QED
      BY <2>2, <3>1, <3>2, <3>3, OpPatch
  <2> QED
    BY <2>1, <2>3, <2>4
<1>6. ASSUME NEW t \in Tasks, CleanDiscard(t) PROVE TaskStep
  <2>0. PICK r \in TaskRecord : r = task[t]
    BY <1>0 DEF TypeOK
  <2>1. PICK due \in BOOLEAN :
          LET tasks == Patched(t, [r EXCEPT !.cleanup = due,
                         !.resumable = op.kind # "force" /\ @, !.asked = FALSE])
          IN Save(tasks) \/ SaveFails(tasks)
    BY <1>6, <2>0 DEF CleanDiscard
  <2> DEFINE cleaned == [r EXCEPT !.cleanup = due,
                         !.resumable = op.kind # "force" /\ @, !.asked = FALSE]
  <2>2. task' = Patched(t, cleaned)
    BY <2>1, SaveEffect
  <2>3. cleaned.status = r.status
    BY DEF TaskRecord
  <2> HIDE DEF cleaned
  <2>4. /\ task'[t].status = task[t].status
        /\ \A u \in Tasks : u # t => Untouched(u)
    BY <1>0, <2>0, <2>2, <2>3, PatchEffect, SameUntouched
  <2>5. Idle(t) /\ (Active(t) => t \in excused)
    BY <1>6, OpIdle DEF CleanDiscard, StatusInv, CleanExcused
  <2>6. op' = NoOp /\ UNCHANGED run /\ excused \subseteq excused'
    BY <1>6 DEF CleanDiscard, Excuse
  <2> QED
    BY <2>4, <2>5, <2>6, OpPatch, NoOpEnds
<1>7. ASSUME NEW t \in Tasks, CleanRetry(t) PROVE TaskStep
  <2>0. PICK r \in TaskRecord : r = task[t]
    BY <1>0 DEF TypeOK
  <2>1. PICK due \in BOOLEAN :
          LET tasks == Patched(t, [r EXCEPT !.cleanup = due, !.asked = FALSE])
          IN \/ Save(tasks) /\ Proceed(t)
             \/ SaveFails(tasks) /\ op' = NoOp
    <3>1. PICK cleaned \in BOOLEAN :
            LET tasks == Patched(t, [r EXCEPT !.cleanup = ~cleaned,
                                              !.asked = FALSE])
            IN \/ Save(tasks) /\ Proceed(t)
               \/ SaveFails(tasks) /\ op' = NoOp
      BY <1>7, <2>0 DEF CleanRetry
    <3> QED
      BY <3>1
  <2> DEFINE retried == [r EXCEPT !.cleanup = due, !.asked = FALSE]
  <2>2. task' = Patched(t, retried)
    BY <2>1, SaveEffect
  <2>3. retried.status = r.status /\ retried.resumable = r.resumable
    BY DEF TaskRecord
  <2> HIDE DEF retried
  <2>4. \A u \in Tasks : Untouched(u)
    BY <1>0, <2>0, <2>2, <2>3, PatchEffect, SameUntouched DEF Untouched
  <2>5. OpEnds
    BY <2>1, NoOpEnds DEF Proceed, OpEnds, NoOp
  <2>6. UNCHANGED run /\ UNCHANGED excused
    BY <1>7 DEF CleanRetry
  <2> QED
    BY <2>4, <2>5, <2>6, OpPatch DEF OpEnds
<1>8. CASE ApplyShutdown
  <2>1. task' = [t \in Tasks |-> IF t \in Interruptible
                                 THEN Interrupted(task[t]) ELSE task[t]]
    BY <1>8, SaveEffect DEF ApplyShutdown
  <2>2. ASSUME NEW u \in Tasks
        PROVE  Untouched(u) \/ (Idle(u) /\ ~Active(u)')
    <3>1. CASE u \in Interruptible
      <4>1. Idle(u)
        BY <1>8, <3>1, OpIdle DEF ApplyShutdown, Interruptible
      <4>2. task'[u] = Interrupted(task[u]) /\ task[u] \in TaskRecord
        BY <1>0, <2>1, <3>1 DEF TypeOK
      <4> QED
        BY <4>1, <4>2, InterruptedType DEF Active
    <3>2. CASE u \notin Interruptible
      BY <2>1, <3>2 DEF Untouched
    <3> QED
      BY <3>1, <3>2
  <2>3. UNCHANGED <<run, excused>> /\ op'.pc # "clean"
    BY <1>8, NoOpEnds DEF ApplyShutdown
  <2> QED
    BY <2>2, <2>3, OpPatch
<1> QED
  BY <1>1, <1>2, <1>3, <1>4, <1>5, <1>6, <1>7, <1>8 DEF OpStep

\* What the environment does to the tasks: a restart leaves none active.
LEMMA EnvTaskStep == StatusInv /\ EnvStep => TaskStep
<1> SUFFICES ASSUME StatusInv, EnvStep PROVE TaskStep
  OBVIOUS
<1>1. CASE SessionLost \/ SessionBack \/ \E t \in Tasks : Vanish(t)
  BY <1>1, NoPatch, UnchangedSettles DEF SessionLost, SessionBack, Vanish
<1>2. CASE Restart
  <2>1. \A t \in Tasks : ~Active(t)'
    BY <1>2 DEF Restart, StatusInv, TypeOK, LoadedRecord, Active
  <2>2. \A g \in Gens : ~Working(g)'
    BY <1>2 DEF Restart, NoRun, Working, Live, Settled
  <2>3. op'.pc # "clean"
    BY <1>2, RestartEnds DEF OpEnds
  <2> QED
    BY <2>1, <2>2, <2>3
       DEF TaskStep, Activation, Absolution, WorkingActive, CleanExcused
<1> QED
  BY <1>1, <1>2 DEF EnvStep

\* What any step does to the tasks.
LEMMA StatusStep == StatusInv /\ [Next]_vars => TaskStep
<1> SUFFICES ASSUME StatusInv, [Next]_vars PROVE TaskStep
  OBVIOUS
<1>1. CASE UNCHANGED vars
  BY <1>1, NoPatch, UnchangedSettles DEF vars
<1>2. CASE Next
  BY <1>2, UserTaskStep, OpTaskStep, RunTaskStep, CallTaskStep, EnvTaskStep
     DEF Next
<1> QED
  BY <1>1, <1>2

\* The parts of StatusInv that are not theorems of their own.
LEMMA StatusCorrect == Spec => []StatusInv
<1>1. Init => WorkingActive /\ CleanExcused
  <2>1. Init => WorkingActive
    BY DEF Init, NoRun, WorkingActive, Working, Live, Settled
  <2>2. Init => CleanExcused
    BY NoOpEnds DEF Init, CleanExcused
  <2> QED
    BY <2>1, <2>2
<1>2. StatusInv /\ [Next]_vars => WorkingActive' /\ CleanExcused'
  BY StatusStep DEF TaskStep
<1> QED
  BY <1>1, <1>2, TypeCorrect, Reachable, Quiescent, PTL DEF Spec, StatusInv

\* A task that is active can be resumed: pausing it, leaving the program or
\* losing it never turns a transfer under way into a canceled one.
THEOREM Resumable == Spec => []ActiveResumable
<1>1. Init => ActiveResumable
  BY DEF Init, NoTask, ActiveResumable, Active, ActiveStatus
<1>2. ActiveResumable /\ TaskStep => ActiveResumable'
  BY DEF ActiveResumable, TaskStep, Activation, Absolution
<1>3. ActiveResumable /\ StatusInv /\ [Next]_vars => ActiveResumable'
  BY <1>2, StatusStep
<1> QED
  BY <1>1, <1>3, StatusCorrect, PTL DEF Spec

\* A task becomes active only by a start the user asked for, or through one of
\* the events that excuse it.
THEOREM StartedByUser == Spec => ExplicitRestart
<1>1. ASSUME StatusInv, [Next]_vars, NEW t \in Tasks, ~Active(t), Active(t)'
      PROVE  nextGen' > nextGen \/ t \in excused'
  <2>1. Start(t) \/ t \in excused'
    BY <1>1, StatusStep DEF TaskStep, Activation
  <2>2. nextGen \in Nat
    BY <1>1, TransferAssumption DEF StatusInv, TypeOK
  <2> QED
    BY <2>1, <2>2 DEF Start
<1>2. StatusInv /\ [Next]_vars =>
        [\A t \in Tasks : ~Active(t) /\ Active(t)' =>
             nextGen' > nextGen \/ t \in excused']_vars
  BY <1>1
<1> QED
  BY <1>2, StatusCorrect, PTL DEF Spec, ExplicitRestart

-----------------------------------------------------------------------------
(***************************************************************************)
(* Custody.  A run settles because its token was cancelled, and then the   *)
(* operation that did so still has the task, or because the task came to   *)
(* rest.  For the first, a cancelled run must belong to the operation,     *)
(* and an entry of the registry to the task it stands for.                 *)
(***************************************************************************)

EntriesFit ==
    \A t \in Tasks : handle[t] # 0 => /\ run[handle[t]].task = t
                                      /\ handle[t] <= nextGen

OpFit == /\ op.pc = "next" => op.cur = {}
         /\ op.kind = "retry" => op.pc = "next"

CancelOwned ==
    \A g \in Gens :
        Live(g) /\ run[g].cancel /\ Active(run[g].task) =>
            run[g].task \in excused \cup op.cur

CustodyInv == /\ StatusInv /\ EntriesFit /\ OpFit /\ CancelOwned /\ NoOrphan

\* Entries of the registry keep standing for their task.
LEMMA EntriesStep ==
    TypeOK /\ EntriesFit /\ [Next]_vars => EntriesFit'
<1> SUFFICES ASSUME TypeOK, EntriesFit, [Next]_vars,
                    NEW t \in Tasks, handle'[t] # 0
             PROVE  run'[handle'[t]].task = t /\ handle'[t] <= nextGen'
  BY DEF EntriesFit
<1>0. nextGen \in Nat /\ handle[t] \in Gens \cup {0} /\ Gens \subseteq Nat
  BY TransferAssumption DEF TypeOK, Gens
<1>1. CASE Starts
  <2>1. PICK u \in Tasks : Start(u)
    BY <1>1 DEF Starts
  <2>2. nextGen + 1 \in Gens
    BY <1>0, <2>1, TransferAssumption DEF Start, CanStart, TypeOK, Gens
  <2>3. CASE t = u
    BY <1>0, <2>1, <2>2, <2>3 DEF Start, TypeOK
  <2>4. CASE t # u
    <3>1. handle'[t] = handle[t] /\ nextGen' = nextGen + 1
      BY <2>1, <2>4 DEF Start, TypeOK
    <3>2. run[handle[t]].task = t /\ handle[t] <= nextGen /\ handle[t] \in Gens
      BY <1>0, <3>1 DEF EntriesFit
    <3>3. run'[handle[t]] = run[handle[t]]
      BY <1>0, <2>1, <3>2 DEF Start, TypeOK
    <3>4. handle[t] <= nextGen + 1
      <4>1. PICK h \in Nat, n \in Nat : h = handle[t] /\ n = nextGen
        BY <1>0, <3>2
      <4>2. h <= n => h <= n + 1
        OBVIOUS
      <4> QED
        BY <3>2, <4>1, <4>2
    <3>5. run'[handle'[t]].task = t
      BY <3>1, <3>2, <3>3
    <3> QED
      BY <3>1, <3>4, <3>5
  <2> QED
    BY <2>3, <2>4
<1>2. CASE Restart
  BY <1>2 DEF Restart
<1>3. CASE OnlySettles
  <2>1. handle'[t] = handle[t] /\ handle[t] \in Gens
    BY <1>0, <1>3 DEF OnlySettles
  <2> QED
    BY <1>3, <2>1 DEF OnlySettles, EntriesFit
<1> QED
  BY <1>1, <1>2, <1>3, RegistryStep

\* An operation about to take its next task has none.
LEMMA OpFitStep == TypeOK /\ OpFit /\ [Next]_vars => OpFit'
<1> SUFFICES ASSUME TypeOK, OpFit, [Next]_vars PROVE OpFit'
  OBVIOUS
<1>1. CASE UNCHANGED op
  BY <1>1 DEF OpFit
<1>2. CASE OpEnds
  BY <1>2 DEF OpFit, OpEnds
<1>3. CASE OpCleans
  BY <1>3 DEF OpFit, OpCleans, TypeOK, OpRecord
<1>4. CASE OpStops
  BY <1>4 DEF OpFit, OpStops
<1>5. CASE StopDone
  BY <1>5 DEF OpFit, StopDone, TypeOK, OpRecord
<1> QED
  BY <1>1, <1>2, <1>3, <1>4, <1>5, OpMoves

\* An operation lets go of a task only at rest, or excused.
LEMMA CurKept ==
    ASSUME StatusInv, OpFit, [Next]_vars, NEW t \in op.cur, Active(t)',
           t \notin excused'
    PROVE  t \in op'.cur
<1>0. TypeOK /\ t \in Tasks /\ op.pc # "next" /\ op # NoOp
  BY NoOpEnds DEF StatusInv, OpFit, TypeOK, OpRecord
<1>1. CASE UNCHANGED op \/ OpCleans \/ StopDone
  BY <1>0, <1>1 DEF OpCleans, StopDone, TypeOK, OpRecord
<1>2. ASSUME NEW u \in Tasks, ApplyPause(u) PROVE FALSE
  <2>1. u = t
    BY <1>2 DEF ApplyPause
  <2>2. \/ Terminal(u) /\ UNCHANGED task
        \/ task' = Moved(u, "paused")
    BY <1>2, SaveEffect DEF ApplyPause
  <2>3. task' = Moved(u, "paused") => task'[u].status = "paused"
    BY <1>0, MovedEffect
  <2> QED
    BY <2>1, <2>2, <2>3 DEF Active, ActiveStatus, Terminal, TerminalStatus
<1>3. ASSUME NEW u \in Tasks, ApplyDiscard(u) PROVE t \in op'.cur
  <2>1. u = t
    BY <1>3 DEF ApplyDiscard
  <2>2. \/ task[u].status = "done" /\ UNCHANGED task
        \/ task' = Patched(u, Discarded)
    BY <1>3, SaveEffect DEF ApplyDiscard
  <2>3. task' = Patched(u, Discarded) => task'[u].status = "canceled"
    BY <1>0, PatchEffect DEF Discarded
  <2> QED
    BY <2>1, <2>2, <2>3 DEF Active, ActiveStatus
<1>4. ASSUME NEW u \in Tasks, CleanDiscard(u) PROVE FALSE
  <2>1. op.pc = "clean" /\ excused \subseteq excused'
    BY <1>4 DEF CleanDiscard, Excuse
  <2>2. Activation(t) /\ ~Active(t)
    BY <1>0, <2>1, StatusStep DEF TaskStep, StatusInv, CleanExcused
  <2>3. UNCHANGED nextGen /\ nextGen \in Nat
    BY <1>0, <1>4, TransferAssumption DEF CleanDiscard, TypeOK
  <2>4. ~Start(t)
    BY <2>3 DEF Start
  <2> QED
    BY <2>2, <2>4 DEF Activation
<1>5. CASE ApplyShutdown
  <2>1. task' = [u \in Tasks |-> IF u \in Interruptible
                                 THEN Interrupted(task[u]) ELSE task[u]]
    BY <1>5, SaveEffect DEF ApplyShutdown
  <2>2. CASE Terminal(t)
    BY <1>0, <2>1, <2>2
       DEF Interruptible, Active, ActiveStatus, Terminal, TerminalStatus
  <2>3. CASE ~Terminal(t)
    <3>1. task'[t] = Interrupted(task[t]) /\ task[t] \in TaskRecord
      BY <1>0, <2>1, <2>3 DEF Interruptible, TypeOK
    <3> QED
      BY <3>1, InterruptedType DEF Active
  <2> QED
    BY <2>2, <2>3
<1>6. CASE StopTimeout
  BY <1>6 DEF StopTimeout, Excuse
<1>7. CASE Restart
  BY <1>0, <1>7 DEF Restart, TypeOK, LoadedRecord, Active
<1>8. CASE UserStep
  <2>1. UNCHANGED op
    BY <1>0, <1>8
       DEF UserStep, Create, Resume, Clear, Pause, PauseForTab, Discard,
           ForceDiscard, RetryOnConnect, BeginOp, Shutdown, Free
  <2> QED
    BY <1>1, <2>1
<1>9. ASSUME NEW u \in Tasks, StopNext(u) \/ CleanRetry(u) PROVE FALSE
  BY <1>0, <1>9 DEF StopNext, CleanRetry, OpFit
<1>10. ASSUME NEW g \in Gens, RunStep(g) \/ CallStep(g) PROVE UNCHANGED op
  BY <1>10, OtherOps
<1>11. CASE (EnvStep /\ ~Restart) \/ UNCHANGED vars
  BY <1>1, <1>11 DEF EnvStep, SessionLost, SessionBack, Vanish, vars
<1> QED
  BY <1>1, <1>2, <1>3, <1>4, <1>5, <1>6, <1>7, <1>8, <1>9, <1>10, <1>11
     DEF Next, OpStep

\* Why a run settles.
LEMMA SettleReason ==
    ASSUME TypeOK, NEW g \in Gens, RunStep(g), Live(g), ~Live(g)'
    PROVE  run[g].cancel \/ task'[run[g].task].status \notin ActiveStatus
<1> PICK t \in Tasks, r \in TaskRecord : t = run[g].task /\ r = task[t]
  BY DEF TypeOK, RunRecord
<1>1. ASSUME NEW pc, Goto(g, pc) PROVE pc \in {"idle", "settled", "gone"}
  BY <1>1 DEF Goto, TypeOK, RunRecord, Live, Settled
<1>2. ASSUME NEW tasks, NEW next, RunSave(g, tasks, next)
      PROVE  next \in {"idle", "settled", "gone"} /\ task' = tasks
  BY <1>1, <1>2, SaveEffect DEF RunSave
<1>3. CASE RunRead(g)
  <2>1. ASSUME ~Terminal(t), task[t].status # "paused" PROVE FALSE
    <3> DEFINE begun == [run[g] EXCEPT !.pc = "begin", !.resume = r.asked]
    <3>1. begun.pc = "begin"
      BY DEF TypeOK, RunRecord
    <3>2. Goto(g, "fail") \/ run' = [run EXCEPT ![g] = begun]
      BY <1>3, <2>1 DEF RunRead
    <3> HIDE DEF begun
    <3> QED
      BY <1>1, <3>1, <3>2 DEF TypeOK, Live, Settled
  <2>2. UNCHANGED task
    BY <1>3 DEF RunRead
  <2> QED
    BY <2>1, <2>2 DEF Terminal, TerminalStatus, ActiveStatus
<1>4. CASE RunBegin(g)
  BY <1>2, <1>4 DEF RunBegin
<1>5. CASE RunCheck(g)
  BY <1>2, <1>5 DEF RunCheck, ActiveStatus
<1>6. CASE RunFail(g)
  <2>1. AfterFailure(g) \in {"idle", "settled", "gone"} /\ UNCHANGED task
    BY <1>1, <1>6 DEF RunFail
  <2> QED
    BY <2>1 DEF AfterFailure, Active
<1>7. CASE RunFinish(g)
  <2> DEFINE finished == [r EXCEPT !.status = "done", !.resumable = FALSE,
                                   !.asked = FALSE]
  <2>1. task' = Patched(t, finished)
    BY <1>2, <1>7 DEF RunFinish
  <2>2. finished.status = "done"
    BY DEF TaskRecord
  <2> HIDE DEF finished
  <2> QED
    BY <2>1, <2>2, PatchEffect DEF ActiveStatus
<1>8. CASE RunJudge(g)
  <2>1. PICK found \in BOOLEAN :
          LET tasks == Patched(t, [r EXCEPT
                         !.status = IF found THEN "paused" ELSE "failed",
                         !.resumable = found, !.asked = FALSE])
          IN Save(tasks) \/ SaveFails(tasks)
    BY <1>8 DEF RunJudge
  <2> DEFINE judged == [r EXCEPT
                          !.status = IF found THEN "paused" ELSE "failed",
                          !.resumable = found, !.asked = FALSE]
  <2>2. task' = Patched(t, judged)
    BY <2>1, SaveEffect
  <2>3. judged.status \in {"paused", "failed"}
    BY DEF TaskRecord
  <2> HIDE DEF judged
  <2> QED
    BY <2>2, <2>3, PatchEffect DEF ActiveStatus
<1>9. ~(RunPlan(g) \/ RunVerify(g))
  BY <1>2 DEF RunPlan, RunVerify
<1>10. ~(RunSend(g) \/ RunError(g) \/ RunCommit(g))
  BY <1>1 DEF RunSend, RunError, RunCommit
<1>11. ~RunAnswer(g)
  BY <1>1 DEF RunAnswer, TimedOut, Answered
<1>12. ~RunClear(g)
  <2> DEFINE planning == [run[g] EXCEPT !.pc = "plan", !.resume = FALSE]
  <2>1. planning.pc = "plan"
    BY DEF TypeOK, RunRecord
  <2>2. RunClear(g) => run' = [run EXCEPT ![g] = planning]
    BY DEF RunClear
  <2> HIDE DEF planning
  <2> QED
    BY <2>1, <2>2 DEF TypeOK, Live, Settled
<1>13. ~RunRemove(g)
  BY DEF RunRemove, At, Live, Settled
<1> QED
  BY <1>3, <1>4, <1>5, <1>6, <1>7, <1>8, <1>9, <1>10, <1>11, <1>12, <1>13
     DEF RunStep

\* A step of another run.
LEMMA OtherRun ==
    ASSUME TypeOK, NEW g \in Gens, NEW h \in Gens, h # g, RunStep(h)
    PROVE  run'[g] = run[g]
BY DEF RunStep, RunRead, RunBegin, RunClear, RunPlan, RunSend, RunAnswer,
       TimedOut, RunCheck, RunVerify, RunCommit, RunFinish, RunError, RunFail,
       RunJudge, RunRemove, RunSave, Goto, TypeOK

\* What others do to a live run: at most cancel it, by an operation that then
\* has its task if that is active.
LEMMA OthersKeep ==
    ASSUME TypeOK, RunsReachable, EntriesFit, [Next]_vars,
           NEW g \in Gens, Live(g), ~RunStep(g), ~Restart,
           NEW t \in Tasks, t = run[g].task
    PROVE  \/ run'[g] = run[g]
           \/ /\ run'[g] = [run[g] EXCEPT !.cancel = TRUE]
              /\ Active(t) => t \in op'.cur
              /\ UNCHANGED <<task, excused>>
<1>0. /\ handle[t] = g /\ g # 0 /\ g <= nextGen
      /\ nextGen \in Nat /\ g \in Nat
  <2>1. handle[t] = g
    BY DEF RunsReachable
  <2>2. g \in Nat /\ g # 0 /\ nextGen \in Nat
    BY TransferAssumption DEF TypeOK, Gens
  <2>3. handle[t] <= nextGen
    BY <2>1, <2>2 DEF EntriesFit
  <2> QED
    BY <2>1, <2>2, <2>3
<1>1. ASSUME NEW u \in Tasks, Start(u) PROVE run'[g] = run[g]
  <2>1. g # nextGen + 1
    BY <1>0
  <2> QED
    BY <1>1, <2>1 DEF Start, TypeOK
<1>2. CASE UserStep
  <2>1. CASE Shutdown
    <3>1. /\ run'[g] = IF g \in HandlesOf(Tasks)
                       THEN [run[g] EXCEPT !.cancel = TRUE] ELSE run[g]
          /\ op'.cur = {u \in Tasks : Active(u)}
          /\ UNCHANGED <<task, excused>>
      BY <2>1 DEF Shutdown, CancelRuns
    <3> QED
      BY <3>1
  <2>2. CASE \E u \in Tasks : Create(u) \/ Resume(u)
    BY <1>1, <2>2 DEF Create, Resume
  <2> QED
    BY <1>2, <2>1, <2>2
       DEF UserStep, Clear, Pause, PauseForTab, Discard, ForceDiscard,
           RetryOnConnect, BeginOp
<1>3. CASE OpStep
  <2>1. ASSUME NEW u \in Tasks, StopNext(u)
        PROVE  \/ run'[g] = run[g]
               \/ /\ run'[g] = [run[g] EXCEPT !.cancel = TRUE]
                  /\ Active(t) => t \in op'.cur
                  /\ UNCHANGED <<task, excused>>
    <3>1. /\ run'[g] = IF g \in HandlesOf({u})
                       THEN [run[g] EXCEPT !.cancel = TRUE] ELSE run[g]
          /\ op'.cur = {u}
          /\ UNCHANGED <<task, excused>>
      BY <2>1 DEF StopNext, CancelRuns, TypeOK, OpRecord
    <3>2. g \in HandlesOf({u}) => t = u
      BY <1>0 DEF HandlesOf, EntriesFit
    <3> QED
      BY <3>1, <3>2
  <2>2. CASE UNCHANGED run
    BY <2>2
  <2> QED
    BY <1>3, <2>1, <2>2
       DEF OpStep, StopDone, StopTimeout, ApplyPause, ApplyDiscard,
           CleanDiscard, CleanRetry, ApplyShutdown
<1>4. ASSUME NEW h \in Gens, RunStep(h) PROVE run'[g] = run[g]
  BY <1>4, OtherRun
<1>5. ASSUME NEW h \in Gens, CallStep(h) PROVE run'[g] = run[g]
  BY <1>5 DEF CallStep, CallOpen, CallReport, CallChunk, CallEof, CallStop,
              CallReplace
<1>6. CASE EnvStep
  BY <1>6 DEF EnvStep, SessionLost, SessionBack, Vanish
<1>7. CASE UNCHANGED vars
  BY <1>7 DEF vars
<1> QED
  BY <1>2, <1>3, <1>4, <1>5, <1>6, <1>7 DEF Next

\* No run cancels itself.
LEMMA TokenKept ==
    ASSUME TypeOK, NEW g \in Gens, RunStep(g), run'[g].cancel
    PROVE  run[g].cancel
<1> DEFINE begun == [run[g] EXCEPT !.pc = "begin",
                                   !.resume = task[run[g].task].asked]
           planning == [run[g] EXCEPT !.pc = "plan", !.resume = FALSE]
           gone == [run[g] EXCEPT !.pc = "gone", !.cancel = FALSE,
                                  !.resume = FALSE]
<1>0. /\ run[g] \in RunRecord
      /\ begun.cancel = run[g].cancel
      /\ planning.cancel = run[g].cancel
      /\ gone.cancel = FALSE
  BY DEF TypeOK, RunRecord
<1>1. ASSUME NEW pc, Goto(g, pc) PROVE run[g].cancel
  BY <1>0, <1>1 DEF Goto, TypeOK, RunRecord
<1>2. ASSUME NEW r, run' = [run EXCEPT ![g] = r], r.cancel => run[g].cancel
      PROVE  run[g].cancel
  BY <1>2 DEF TypeOK
<1>3. CASE RunRead(g)
  <2>1. (\E pc : Goto(g, pc)) \/ run' = [run EXCEPT ![g] = begun]
    BY <1>3 DEF RunRead
  <2> HIDE DEF begun
  <2> QED
    BY <1>0, <1>1, <1>2, <2>1
<1>4. CASE RunClear(g)
  <2>1. run' = [run EXCEPT ![g] = planning]
    BY <1>4 DEF RunClear
  <2> HIDE DEF planning
  <2> QED
    BY <1>0, <1>2, <2>1
<1>5. CASE RunRemove(g)
  <2>1. run' = [run EXCEPT ![g] = gone]
    BY <1>5 DEF RunRemove
  <2> HIDE DEF gone
  <2> QED
    BY <1>0, <1>2, <2>1
<1>6. CASE ~RunRead(g) /\ ~RunClear(g) /\ ~RunRemove(g)
  <2>1. \E pc : Goto(g, pc)
    BY <1>6 DEF RunStep, RunBegin, RunPlan, RunSend, RunAnswer, TimedOut,
                RunCheck, RunVerify, RunCommit, RunFinish, RunError, RunFail,
                RunJudge, RunSave
  <2> QED
    BY <1>1, <2>1
<1> QED
  BY <1>3, <1>4, <1>5, <1>6

\* A task that a step leaves active and not excused was so before, or it is
\* started by the step.
LEMMA StayedActive ==
    ASSUME StatusInv, [Next]_vars,
           NEW t \in Tasks, Active(t)', t \notin excused'
    PROVE  Start(t) \/ (Active(t) /\ t \notin excused)
BY StatusStep DEF TaskStep, Activation, Absolution

\* A run stays cancelled only while an operation has its task.
LEMMA CancelOwnedStep == CustodyInv /\ [Next]_vars => CancelOwned'
<1> SUFFICES ASSUME CustodyInv, [Next]_vars,
                    NEW g \in Gens, Live(g)', run'[g].cancel,
                    Active(run[g].task)', run'[g].task \notin excused'
             PROVE  run'[g].task \in op'.cur
  BY DEF CancelOwned
<1>t. PICK t \in Tasks : t = run'[g].task
  BY NextTypeOK DEF CustodyInv, StatusInv, TypeOK, RunRecord
<1>a. Active(t)' /\ t \notin excused'
  BY <1>t DEF Active
<1> SUFFICES t \in op'.cur
  BY <1>t
<1> USE <1>t, <1>a
<1>0. StatusInv /\ TypeOK /\ RunsReachable /\ EntriesFit /\ OpFit
  BY DEF CustodyInv, StatusInv
<1>1. ~Restart
  BY DEF Restart, NoRun, Live, Settled
<1>2. Live(g) /\ run[g].task = t
  <2>1. CASE Starts
    BY <1>0, <2>1 DEF Starts, Start, TypeOK, Live, Settled
  <2>2. CASE OnlySettles
    BY <2>2 DEF OnlySettles
  <2> QED
    BY <1>0, <1>1, <2>1, <2>2, RegistryStep
<1>3. Active(t) /\ t \notin excused
  <2>1. handle[t] # 0
    BY <1>0, <1>2, TransferAssumption DEF RunsReachable, Gens
  <2> QED
    BY <1>0, <2>1, StayedActive DEF Start, CanStart
<1>4. CASE run[g].cancel
  <2>1. t \in op.cur
    BY <1>2, <1>3, <1>4 DEF CustodyInv, CancelOwned
  <2> QED
    BY <1>0, <2>1, CurKept
<1>5. CASE ~run[g].cancel
  BY <1>0, <1>1, <1>2, <1>3, <1>5, OthersKeep, TokenKept
<1> QED
  BY <1>4, <1>5

\* A run leaves its task at rest, or with the operation that cancelled it.
LEMMA NoOrphanStep == CustodyInv /\ [Next]_vars => NoOrphan'
<1> SUFFICES ASSUME CustodyInv, [Next]_vars,
                    NEW t \in Tasks, Active(t)', t \notin excused'
             PROVE  \/ \E g \in Gens : run'[g].task = t /\ Live(g)'
                    \/ t \in op'.cur
  BY DEF NoOrphan
<1>0. StatusInv /\ TypeOK /\ RunsReachable /\ EntriesFit /\ OpFit
  BY DEF CustodyInv, StatusInv
<1>1. ASSUME t \in op.cur PROVE t \in op'.cur
  BY <1>0, <1>1, CurKept
<1>2. ~Restart
  BY <1>0 DEF Restart, TypeOK, LoadedRecord, Active
<1>3. CASE Start(t)
  <2>1. nextGen + 1 \in Gens
    BY <1>0, <1>3, TransferAssumption DEF Start, CanStart, TypeOK, Gens
  <2> QED
    BY <1>0, <1>3, <2>1 DEF Start, TypeOK, Live, Settled
<1>4. CASE Active(t) /\ t \notin excused
  <2>1. CASE t \in op.cur
    BY <1>1, <2>1
  <2>2. CASE \E g \in Gens : run[g].task = t /\ Live(g)
    <3>1. PICK g \in Gens : run[g].task = t /\ Live(g)
      BY <2>2
    <3>2. CASE RunStep(g)
      <4>1. run'[g].task = t
        BY <1>0, <3>1, <3>2, RunSettles DEF OnlySettles
      <4>2. CASE ~Live(g)'
        <5>1. run[g].cancel
          BY <1>0, <3>1, <3>2, <4>2, SettleReason DEF Active
        <5> QED
          BY <1>1, <1>4, <3>1, <5>1 DEF CustodyInv, CancelOwned
      <4> QED
        BY <4>1, <4>2
    <3>3. CASE ~RunStep(g)
      <4>1. \/ run'[g] = run[g]
            \/ run'[g] = [run[g] EXCEPT !.cancel = TRUE]
        BY <1>0, <1>2, <3>1, <3>3, OthersKeep
      <4>2. run'[g].task = t /\ run'[g].pc = run[g].pc
        BY <1>0, <3>1, <4>1 DEF TypeOK, RunRecord
      <4> QED
        BY <3>1, <4>2 DEF Live, Settled
    <3> QED
      BY <3>2, <3>3
  <2> QED
    BY <1>4, <2>1, <2>2 DEF CustodyInv, NoOrphan
<1> QED
  BY <1>0, <1>3, <1>4, StayedActive

\* A task shown as active is in somebody's hands: its run has not settled, or
\* the operation that stopped its run is about to patch it.
THEOREM NeverOrphaned == Spec => []NoOrphan
<1>1. Init => EntriesFit /\ OpFit /\ CancelOwned /\ NoOrphan
  <2>1. Init => EntriesFit
    BY DEF Init, EntriesFit
  <2>2. Init => OpFit
    BY DEF Init, OpFit, NoOp
  <2>3. Init => CancelOwned
    BY DEF Init, CancelOwned, NoRun, Live, Settled
  <2>4. Init => NoOrphan
    BY DEF Init, NoTask, NoOrphan, Active, ActiveStatus
  <2> QED
    BY <2>1, <2>2, <2>3, <2>4
<1>2. CustodyInv /\ [Next]_vars => EntriesFit' /\ OpFit'
  BY EntriesStep, OpFitStep DEF CustodyInv, StatusInv
<1>3. CustodyInv /\ [Next]_vars => CancelOwned' /\ NoOrphan'
  BY CancelOwnedStep, NoOrphanStep
<1> QED
  BY <1>1, <1>2, <1>3, StatusCorrect, PTL DEF Spec, CustodyInv
-----------------------------------------------------------------------------
(***************************************************************************)
(* The files.  What a list says of a task has to stay true while somebody  *)
(* else writes its files.  Two facts keep it: a destination is replaced    *)
(* only while a checkpoint exists, which what is done and what is cleaned  *)
(* up no longer has; and a checkpoint is begun only by the call its run    *)
(* waits for, or by an abandoned one, which excuses the task.              *)
(***************************************************************************)

\* What an entry of a list promises of a checkpoint p and a destination d, and
\* of what interrupting the task would make of it.
Sound(r, p, d) ==
    /\ r.status = "done" => d = "new" /\ p = "none"
    /\ r.status = "canceled" /\ ~r.cleanup => p = "none"
    /\ r.status = "absent" => p = "none"
    /\ r.status \in ActiveStatus \cup {"paused", "interrupted"} => r.resumable

\* The journal may lag behind, but not say that a task has ended too early, nor
\* miss one that was created.
Follows(j, r) ==
    j.status \in {"done", "canceled", "absent"} =>
        r.status \in {j.status, "cleared"}

ListsTrue ==
    \A t \in Tasks \ excused :
        /\ Sound(task[t], partial[t], dest[t])
        /\ Sound(journal[t], partial[t], dest[t])
        /\ Follows(journal[t], task[t])

\* Where a run is in its replacement, its call is too.
CallFits ==
    \A g \in Gens :
        At(g, "replacing") => call[g].pc \in {"replace", "ok", "err"}

\* How far a run has come with the files of its task.
Replacing(g) == run[g].pc \in {"commit", "replacing"}
Replaced(g)  == At(g, "finish") \/ (At(g, "replacing") /\ call[g].pc = "ok")

Stages ==
    \A g \in Gens : run[g].task \notin excused =>
        /\ Replacing(g) => partial[run[g].task] # "part"
        /\ Replaced(g) => /\ dest[run[g].task] = "new"
                          /\ partial[run[g].task] = "none"
        /\ At(g, "judge") => Active(run[g].task)

\* What an operation still relies on of the tasks it was given.
OpHolds ==
    \A t \in op.todo \cup op.cur :
        /\ op.kind # "retry" => Listed(t)
        /\ op.kind = "pause" => task[t].resumable \/ Terminal(t)
        /\ op.pc = "clean" /\ t \in op.cur =>
               task[t].status = "canceled" \/ t \in excused

FilesInv == StatusInv /\ ListsTrue /\ CallFits /\ Stages /\ OpHolds

\* How a step may change the files of a task it does not excuse.
FileStep ==
    \A u \in Tasks \ excused' :
        /\ partial[u] = "none" => dest'[u] = dest[u]
        /\ partial[u] # "part" =>
             \/ partial'[u] \in {"none", partial[u]}
             \/ \E g \in Gens : run[g].task = u /\ At(g, "wait")

\* A call that opens a checkpoint is awaited, or it was abandoned.
LEMMA OpenAwaited ==
    ASSUME CallFits, NEW g \in Gens, call[g].pc = "open", ~Abandoned(g)
    PROVE  At(g, "wait")
BY DEF CallFits, Abandoned, At

\* Every step changes the files that way.
LEMMA FilesStep == TypeOK /\ CallFits /\ [Next]_vars => FileStep
<1> SUFFICES ASSUME TypeOK, CallFits, [Next]_vars PROVE FileStep
  OBVIOUS
<1> USE DEF TypeOK
<1>1. CASE UNCHANGED <<partial, dest>>
  BY <1>1 DEF FileStep
<1>2. ASSUME NEW t \in Tasks, UNCHANGED dest,
             partial' = [partial EXCEPT ![t] = "none"]
      PROVE  FileStep
  BY <1>2 DEF FileStep
<1>3. ASSUME NEW t \in Tasks, NEW cleaned \in BOOLEAN, Cleanup(t, cleaned),
             UNCHANGED dest
      PROVE  FileStep
  BY <1>1, <1>2, <1>3 DEF Cleanup
<1>4. ASSUME NEW t \in Tasks, CleanDiscard(t) \/ CleanRetry(t) PROVE FileStep
  BY <1>3, <1>4 DEF CleanDiscard, CleanRetry
<1>5. ASSUME NEW g \in Gens, RunStep(g) PROVE FileStep
  <2>0. run[g].task \in Tasks
    BY DEF RunRecord
  <2>1. CASE RunClear(g)
    BY <1>1, <1>2, <2>0, <2>1 DEF RunClear
  <2>2. CASE RunCommit(g)
    BY <1>1, <2>0, <2>2 DEF RunCommit, FileStep
  <2>3. CASE UNCHANGED <<partial, dest>>
    BY <1>1, <2>3
  <2> QED
    BY <1>5, <2>1, <2>2, <2>3
       DEF RunStep, RunRead, RunBegin, RunPlan, RunSend, RunAnswer, RunCheck,
           RunVerify, RunFinish, RunError, RunFail, RunJudge, RunRemove
<1>6. ASSUME NEW g \in Gens, CallStep(g) PROVE FileStep
  <2> DEFINE t == run[g].task
  <2>0. t \in Tasks
    BY DEF RunRecord
  <2>1. CASE CallOpen(g)
    <3>1. CASE UNCHANGED partial
      BY <1>1, <2>1, <3>1 DEF CallOpen
    <3>2. CASE t \in excused'
      BY <2>0, <2>1, <3>2 DEF CallOpen, FileStep
    <3>3. CASE ~Abandoned(g) /\ call[g].pc = "open"
      BY <2>0, <2>1, <3>3, OpenAwaited DEF CallOpen, FileStep
    <3>4. t \in excused' \/ ~Abandoned(g) \/ UNCHANGED partial
      BY <2>0, <2>1 DEF CallOpen, Excuse
    <3>5. call[g].pc = "open"
      BY <2>1 DEF CallOpen
    <3> QED
      BY <3>1, <3>2, <3>3, <3>4, <3>5
  <2>2. CASE CallChunk(g)
    BY <2>0, <2>2 DEF CallChunk, FileStep
  <2>3. CASE CallReplace(g)
    BY <2>0, <2>3 DEF CallReplace, FileStep
  <2>4. CASE UNCHANGED <<partial, dest>>
    BY <1>1, <2>4
  <2> QED
    BY <1>6, <2>1, <2>2, <2>3, <2>4 DEF CallStep, CallReport, CallEof, CallStop
<1>7. ASSUME NEW t \in Tasks, Vanish(t) PROVE FileStep
  BY <1>2, <1>7 DEF Vanish
<1>8. CASE UserStep
  BY <1>1, <1>8
     DEF UserStep, Create, Resume, Pause, PauseForTab, Discard, ForceDiscard,
         Clear, Shutdown, RetryOnConnect, BeginOp
<1>9. CASE OpStep
  BY <1>1, <1>4, <1>9
     DEF OpStep, StopNext, ApplyPause, ApplyDiscard, StopDone, StopTimeout,
         ApplyShutdown
<1>10. CASE SessionLost \/ SessionBack \/ Restart
  BY <1>1, <1>10 DEF SessionLost, SessionBack, Restart
<1>11. CASE UNCHANGED vars
  BY <1>1, <1>11 DEF vars
<1> QED
  BY <1>5, <1>6, <1>7, <1>8, <1>9, <1>10, <1>11 DEF Next, EnvStep

\* What a restart makes of an entry.
Entry(r) == IF r.status \in ActiveStatus THEN Interrupted(r) ELSE r

LEMMA EntrySound ==
    ASSUME NEW r \in TaskRecord, NEW p, NEW d, Sound(r, p, d)
    PROVE  Sound(Entry(r), p, d) /\ Follows(Entry(r), r)
<1>1. CASE r.status \in ActiveStatus
  <2>1. r.resumable
    BY <1>1 DEF Sound
  <2>2. /\ [r EXCEPT !.status = "paused", !.asked = FALSE].status = "paused"
        /\ [r EXCEPT !.status = "paused", !.asked = FALSE].resumable
    BY <2>1 DEF TaskRecord
  <2>3. Entry(r) = [r EXCEPT !.status = "paused", !.asked = FALSE]
    BY <1>1, <2>1 DEF Entry, Interrupted, InterruptStatus
  <2> QED
    BY <2>2, <2>3 DEF Sound, Follows
<1>2. CASE r.status \notin ActiveStatus
  BY <1>2 DEF Entry, Follows
<1> QED
  BY <1>1, <1>2

\* What is sound of the files stays so while they change that way.
LEMMA FilesKeep ==
    ASSUME StatusInv, ListsTrue, FileStep, NEW u \in Tasks, u \notin excused,
           u \notin excused'
    PROVE  /\ Sound(task[u], partial'[u], dest'[u])
           /\ Sound(journal[u], partial'[u], dest'[u])
<1>1. /\ Sound(task[u], partial[u], dest[u])
      /\ Sound(journal[u], partial[u], dest[u])
      /\ Follows(journal[u], task[u])
  BY DEF ListsTrue
<1>2. CASE \E g \in Gens : run[g].task = u /\ At(g, "wait")
  <2>1. Active(u)
    BY <1>2 DEF StatusInv, WorkingActive, Working, Live, Settled, At
  <2>2. /\ task[u].status \notin {"done", "canceled", "absent", "cleared"}
        /\ journal[u].status \notin {"done", "canceled", "absent"}
    BY <1>1, <2>1 DEF Active, ActiveStatus, Follows
  <2> QED
    BY <1>1, <2>2 DEF Sound
<1>3. CASE partial[u] = "none" /\ partial'[u] = "none" /\ dest'[u] = dest[u]
  BY <1>1, <1>3 DEF Sound
<1>4. CASE partial[u] # "none"
  BY <1>1, <1>4 DEF Sound
<1> QED
  BY <1>2, <1>3, <1>4 DEF FileStep

\* A step that patches one task, or none, and saves the list or does not.
LEMMA PatchLists ==
    ASSUME StatusInv, ListsTrue, FileStep, TypeOK',
           NEW t \in Tasks,
           \A u \in Tasks : u # t => task'[u] = task[u],
           journal' = Loaded(task') \/ UNCHANGED journal,
           excused \ {t} \subseteq excused',
           t \notin excused' => Sound(task'[t], partial'[t], dest'[t]),
           t \notin excused' /\ journal' # Loaded(task') =>
               t \notin excused /\ Follows(journal[t], task'[t])
    PROVE  ListsTrue'
<1> SUFFICES ASSUME NEW u \in Tasks, u \notin excused'
             PROVE  /\ Sound(task'[u], partial'[u], dest'[u])
                    /\ Sound(journal'[u], partial'[u], dest'[u])
                    /\ Follows(journal'[u], task'[u])
  BY DEF ListsTrue
<1>1. Sound(task'[u], partial'[u], dest'[u])
  <2>1. CASE u = t
    BY <2>1
  <2>2. CASE u # t
    BY <2>2, FilesKeep
  <2> QED
    BY <2>1, <2>2
<1>2. CASE journal' = Loaded(task')
  <2>1. journal'[u] = Entry(task'[u])
    BY <1>2 DEF Loaded, Entry
  <2>2. task'[u] \in TaskRecord
    BY DEF TypeOK
  <2> QED
    BY <1>1, <2>1, <2>2, EntrySound
<1>3. CASE UNCHANGED journal /\ journal' # Loaded(task')
  <2>1. u \notin excused
    BY <1>3
  <2>2. Sound(journal[u], partial'[u], dest'[u])
    BY <2>1, FilesKeep
  <2>3. Follows(journal[u], task'[u])
    BY <1>3, <2>1 DEF ListsTrue
  <2> QED
    BY <1>1, <1>3, <2>2, <2>3
<1> QED
  BY <1>2, <1>3

\* Steps that leave the lists alone.
LEMMA SameLists ==
    ASSUME StatusInv, ListsTrue, FileStep, UNCHANGED <<task, journal>>,
           excused \subseteq excused'
    PROVE  ListsTrue'
BY FilesKeep DEF ListsTrue

\* The operation under way goes on, or ends, or passes on to its next task.
LEMMA OpKept ==
    ASSUME StatusInv, OpHolds, NEW t \in Tasks,
           \A u \in Tasks : u # t => task'[u] = task[u],
           excused \subseteq excused',
           UNCHANGED op,
           Listed(t) => Listed(t)',
           task'[t].resumable \/ Terminal(t)',
           op.pc = "clean" /\ t \in op.cur => t \in excused'
    PROVE  OpHolds'
BY DEF OpHolds, Listed, Terminal, StatusInv, TypeOK, OpRecord

LEMMA OpSame ==
    ASSUME OpHolds, UNCHANGED <<op, task>>, excused \subseteq excused'
    PROVE  OpHolds'
BY DEF OpHolds, Listed, Terminal

LEMMA OpDone == ASSUME op' = NoOp PROVE OpHolds'
BY DEF OpHolds, NoOp

\* Of these records: the types of the patches, and what they say.
LEMMA PatchedRecord ==
    ASSUME NEW r \in TaskRecord, NEW status, NEW b
    PROVE  /\ [r EXCEPT !.status = status, !.asked = FALSE].status = status
           /\ [r EXCEPT !.status = status, !.asked = FALSE].resumable = r.resumable
           /\ [r EXCEPT !.status = status, !.asked = FALSE].cleanup = r.cleanup
           /\ [r EXCEPT !.resumable = TRUE, !.asked = FALSE].status = r.status
           /\ [r EXCEPT !.resumable = TRUE, !.asked = FALSE].resumable
           /\ [r EXCEPT !.resumable = TRUE, !.asked = FALSE].cleanup = r.cleanup
           /\ [r EXCEPT !.status = status, !.resumable = b,
                        !.asked = FALSE].cleanup = r.cleanup
           /\ [r EXCEPT !.status = status, !.resumable = b, !.asked = FALSE].status
                  = status
           /\ [r EXCEPT !.status = status, !.resumable = b,
                        !.asked = FALSE].resumable = b
BY DEF TaskRecord

\* An active task that can be resumed has nothing to say of its files.
LEMMA ActiveSound ==
    ASSUME NEW r, NEW p, NEW d, r.status \in ActiveStatus, r.resumable
    PROVE  Sound(r, p, d)
BY DEF Sound, ActiveStatus

\* The journal of an active task does not say that it has ended.
LEMMA ActiveFollows ==
    ASSUME ListsTrue, NEW t \in Tasks, t \notin excused, Active(t), NEW r
    PROVE  Follows(journal[t], r)
BY DEF ListsTrue, Follows, Active, ActiveStatus

\* Runs.
LEMMA RunLists ==
    ASSUME FilesInv, TypeOK', NEW g \in Gens, RunStep(g)
    PROVE  ListsTrue' /\ OpHolds'
<1>0. TypeOK /\ StatusInv /\ ListsTrue /\ OpHolds /\ FileStep
  <2>1. Next
    BY DEF Next
  <2> QED
    BY <2>1, FilesStep DEF FilesInv, StatusInv
<1>t. PICK t \in Tasks, r \in TaskRecord : t = run[g].task /\ r = task[t]
  BY <1>0 DEF TypeOK, RunRecord
<1> USE <1>t
<1>1. UNCHANGED op /\ UNCHANGED excused
  BY DEF RunStep, RunRead, RunBegin, RunClear, RunPlan, RunSend, RunAnswer,
         RunCheck, RunVerify, RunCommit, RunFinish, RunError, RunFail,
         RunJudge, RunRemove
<1>2. Working(g) => Active(t) /\ r.resumable
  BY <1>0 DEF StatusInv, WorkingActive
<1>3. Live(g) => ~(op.pc = "clean" /\ t \in op.cur)
  BY <1>0 DEF StatusInv, QuiescentApply
<1>4. Live(g) /\ t \notin excused /\ ~At(g, "fail") => Active(t)
  BY <1>0, <1>2 DEF FilesInv, Stages, Working, At
<1>5. ASSUME NEW p \in TaskRecord, task' = Patched(t, p), Live(g), ~At(g, "fail"),
             journal' = Loaded(task') \/ UNCHANGED journal,
             p.status \notin Unlisted,
             p.resumable \/ p.status \in TerminalStatus,
             t \notin excused => Sound(p, partial'[t], dest'[t]),
             t \notin excused /\ Active(t) => Follows(journal[t], p)
      PROVE  ListsTrue' /\ OpHolds'
  <2>1. task'[t] = p /\ \A u \in Tasks : u # t => task'[u] = task[u]
    BY <1>0, <1>5, PatchEffect
  <2>2. ListsTrue'
    BY <1>0, <1>1, <1>4, <1>5, <2>1, PatchLists
  <2>3. OpHolds'
    BY <1>0, <1>1, <1>3, <1>5, <2>1, OpKept DEF Listed, Terminal
  <2> QED
    BY <2>2, <2>3
<1>6. ASSUME UNCHANGED <<task, journal>> PROVE ListsTrue' /\ OpHolds'
  BY <1>0, <1>1, <1>6, SameLists, OpSame
<1>7. ASSUME NEW tasks, Save(tasks) \/ SaveFails(tasks)
      PROVE  task' = tasks /\ (journal' = Loaded(task') \/ UNCHANGED journal)
  BY <1>7 DEF Save, SaveFails
<1>8. ASSUME NEW p \in TaskRecord, NEW next, RunSave(g, Patched(t, p), next),
             Working(g), p.status \in ActiveStatus, p.resumable
      PROVE  ListsTrue' /\ OpHolds'
  <2>1. Live(g) /\ ~At(g, "fail")
    BY <1>8 DEF Working, At
  <2>2. p.status \notin Unlisted
    BY <1>8 DEF ActiveStatus, Unlisted
  <2>3. Sound(p, partial'[t], dest'[t])
    BY <1>8, ActiveSound
  <2>4. t \notin excused => Follows(journal[t], p)
    BY <1>0, <1>2, <1>8, ActiveFollows
  <2>5. task' = Patched(t, p) /\ (journal' = Loaded(task') \/ UNCHANGED journal)
    BY <1>7, <1>8 DEF RunSave
  <2> QED
    BY <1>5, <1>8, <2>1, <2>2, <2>3, <2>4, <2>5
<1>9. ASSUME NEW status \in ActiveStatus, NEW next, Working(g),
             RunSave(g, Moved(t, status), next)
      PROVE  ListsTrue' /\ OpHolds'
  <2> DEFINE p == [r EXCEPT !.status = status, !.asked = FALSE]
  <2>1. p \in TaskRecord
    BY <1>9, StatusValues DEF TaskRecord
  <2>2. p.status = status /\ p.resumable = r.resumable
    BY PatchedRecord
  <2>3. RunSave(g, Patched(t, p), next)
    BY <1>9 DEF Moved
  <2> HIDE DEF p
  <2> QED
    BY <1>2, <1>8, <1>9, <2>1, <2>2, <2>3
<1>10. CASE RunBegin(g) \/ RunCheck(g) \/ RunVerify(g)
  <2>1. \/ UNCHANGED <<task, journal>>
        \/ \E status \in ActiveStatus, next \in RunPc :
               RunSave(g, Moved(t, status), next)
    BY <1>10 DEF RunBegin, RunCheck, RunVerify, ActiveStatus, RunPc
  <2>2. Working(g)
    BY <1>10 DEF RunBegin, RunCheck, RunVerify, At, Working, Live, Settled
  <2> QED
    BY <1>6, <1>9, <2>1, <2>2
<1>11. CASE RunPlan(g)
  <2> DEFINE p == [r EXCEPT !.resumable = TRUE, !.asked = FALSE]
             next == IF t \in Uploads /\ partial[t] = "full"
                     THEN "check" ELSE "send"
  <2>1. RunSave(g, Patched(t, p), next)
    BY <1>11 DEF RunPlan
  <2>2. Working(g)
    BY <1>11 DEF RunPlan, At, Working, Live, Settled
  <2>3. p \in TaskRecord
    BY DEF TaskRecord
  <2>4. p.status = r.status /\ p.resumable
    BY PatchedRecord
  <2> HIDE DEF next, p
  <2> QED
    BY <1>2, <1>8, <2>1, <2>2, <2>3, <2>4 DEF Active
<1>12. CASE RunFinish(g)
  <2> DEFINE p == [r EXCEPT !.status = "done", !.resumable = FALSE,
                            !.asked = FALSE]
  <2>1. RunSave(g, Patched(t, p), "settled")
    BY <1>12 DEF RunFinish
  <2>2. Working(g) /\ Live(g) /\ ~At(g, "fail")
    BY <1>12 DEF RunFinish, At, Working, Live, Settled
  <2>3. p \in TaskRecord
    BY StatusValues DEF TaskRecord, TerminalStatus
  <2>4. p.status = "done"
    BY DEF TaskRecord
  <2>5. t \notin excused => dest'[t] = "new" /\ partial'[t] = "none"
    BY <1>12 DEF RunFinish, FilesInv, Stages, Replaced
  <2> HIDE DEF p
  <2>6. t \notin excused => Sound(p, partial'[t], dest'[t])
    BY <2>4, <2>5 DEF Sound, ActiveStatus
  <2>7. p.status \notin Unlisted /\ p.status \in TerminalStatus
    BY <2>4 DEF Unlisted, TerminalStatus
  <2>8. t \notin excused => Follows(journal[t], p)
    BY <1>0, <1>2, <2>2, ActiveFollows
  <2> QED
    BY <1>5, <1>7, <2>1, <2>2, <2>3, <2>6, <2>7, <2>8 DEF RunSave
<1>13. CASE RunJudge(g)
  <2>1. PICK found \in BOOLEAN :
          LET tasks == Patched(run[g].task, [task[run[g].task] EXCEPT
                         !.status = IF found THEN "paused" ELSE "failed",
                         !.resumable = found, !.asked = FALSE])
          IN Save(tasks) \/ SaveFails(tasks)
    BY <1>13 DEF RunJudge
  <2> DEFINE status == IF found THEN "paused" ELSE "failed"
             p == [r EXCEPT !.status = status, !.resumable = found,
                            !.asked = FALSE]
  <2>2. Save(Patched(t, p)) \/ SaveFails(Patched(t, p))
    BY <2>1
  <2>3. p \in TaskRecord
    BY StatusValues DEF TaskRecord
  <2>4. p.status = status /\ p.resumable = found
    BY PatchedRecord
  <2>5. Live(g) /\ ~At(g, "fail")
    BY <1>13 DEF RunJudge, At, Live, Settled
  <2> HIDE DEF p
  <2>6. /\ p.status \notin Unlisted
        /\ p.resumable \/ p.status \in TerminalStatus
        /\ Sound(p, partial'[t], dest'[t])
    BY <2>4 DEF Unlisted, TerminalStatus, Sound, ActiveStatus
  <2>7. t \notin excused /\ Active(t) => Follows(journal[t], p)
    BY <1>0, ActiveFollows
  <2> QED
    BY <1>5, <1>7, <2>2, <2>3, <2>5, <2>6, <2>7
<1>14. CASE \/ RunRead(g) \/ RunClear(g) \/ RunSend(g) \/ RunAnswer(g)
            \/ RunCommit(g) \/ RunError(g) \/ RunFail(g) \/ RunRemove(g)
  BY <1>6, <1>14 DEF RunRead, RunClear, RunSend, RunAnswer, RunCommit, RunError,
                     RunFail, RunRemove
<1> QED
  BY <1>10, <1>11, <1>12, <1>13, <1>14 DEF RunStep

\* Worker calls.
LEMMA CallLists ==
    ASSUME FilesInv, TypeOK', NEW g \in Gens, CallStep(g)
    PROVE  ListsTrue' /\ OpHolds'
<1>0. TypeOK /\ StatusInv /\ ListsTrue /\ OpHolds /\ FileStep
  <2>1. Next
    BY DEF Next
  <2> QED
    BY <2>1, FilesStep DEF FilesInv, StatusInv
<1>t. PICK t \in Tasks, r \in TaskRecord : t = run[g].task /\ r = task[t]
  BY <1>0 DEF TypeOK, RunRecord
<1> USE <1>t
<1>1. UNCHANGED <<op, journal>> /\ excused \subseteq excused'
  BY DEF CallStep, CallOpen, CallReport, CallChunk, CallEof, CallStop,
         CallReplace, Excuse
<1>2. CASE UNCHANGED task
  BY <1>0, <1>1, <1>2, SameLists, OpSame
<1>3. CASE CallReport(g) /\ ~UNCHANGED task
  <2> DEFINE p == [r EXCEPT !.status = "running", !.resumable = TRUE,
                            !.asked = FALSE]
  <2>1. task' = Patched(t, p)
    BY <1>3 DEF CallReport, Progressed
  <2>2. p.status = "running" /\ p.resumable
    BY PatchedRecord
  <2> HIDE DEF p
  <2>3. task'[t] = p /\ \A u \in Tasks : u # t => task'[u] = task[u]
    BY <1>0, <2>1, PatchEffect
  <2>4. t \in excused' \/ Working(g)
    <3>1. CASE Abandoned(g)
      BY <1>3, <3>1 DEF CallReport, Excuse
    <3>2. CASE ~Abandoned(g)
      BY <3>2 DEF Abandoned, Working, Live, Settled
    <3> QED
      BY <3>1, <3>2
  <2>5. t \notin excused' =>
            t \notin excused /\ Follows(journal[t], task'[t])
    BY <1>0, <1>1, <2>4, ActiveFollows DEF StatusInv, WorkingActive
  <2>6. Sound(task'[t], partial'[t], dest'[t])
    BY <2>2, <2>3, ActiveSound DEF ActiveStatus
  <2>7. ListsTrue'
    BY <1>0, <1>1, <2>3, <2>5, <2>6, PatchLists
  <2>8. op.pc = "clean" /\ t \in op.cur => t \in excused'
    BY <1>0, <2>4 DEF StatusInv, QuiescentApply, Working
  <2>9. Listed(t)'
    BY <2>2, <2>3 DEF Listed, Unlisted
  <2>10. OpHolds'
    BY <1>0, <1>1, <2>2, <2>3, <2>8, <2>9, OpKept
  <2> QED
    BY <2>7, <2>10
<1>4. CASE ~CallReport(g)
  BY <1>2, <1>4
     DEF CallStep, CallOpen, CallChunk, CallEof, CallStop, CallReplace
<1> QED
  BY <1>2, <1>3, <1>4

\* Users.
LEMMA UserLists ==
    ASSUME FilesInv, TypeOK', UserStep
    PROVE  ListsTrue' /\ OpHolds'
<1>0. TypeOK /\ StatusInv /\ ListsTrue /\ OpHolds /\ FileStep
  <2>1. Next
    BY DEF Next
  <2> QED
    BY <2>1, FilesStep DEF FilesInv, StatusInv
<1>1. ASSUME NEW tasks, Save(tasks) \/ SaveFails(tasks)
      PROVE  /\ task' = tasks /\ (journal' = Loaded(task') \/ UNCHANGED journal)
             /\ Save(tasks) => journal' = Loaded(task')
  BY <1>1 DEF Save, SaveFails
<1>2. ASSUME NEW t \in Tasks, NEW p \in TaskRecord,
             p.status \in ActiveStatus, p.resumable,
             \/ Save(Patched(t, p)) /\ excused \ {t} \subseteq excused'
             \/ SaveFails(Patched(t, p)) /\ Excuse({t}),
             op = NoOp, UNCHANGED op
      PROVE  ListsTrue' /\ OpHolds'
  <2>1. /\ task' = Patched(t, p)
        /\ journal' = Loaded(task') \/ UNCHANGED journal
        /\ journal' # Loaded(task') => t \in excused'
        /\ excused \ {t} \subseteq excused'
    BY <1>1, <1>2 DEF Excuse
  <2>2. task'[t] = p /\ \A u \in Tasks : u # t => task'[u] = task[u]
    BY <1>0, <2>1, PatchEffect
  <2>3. Sound(task'[t], partial'[t], dest'[t])
    BY <1>2, <2>2, ActiveSound
  <2> QED
    BY <1>0, <1>2, <2>1, <2>2, <2>3, PatchLists, OpDone
<1>3. ASSUME NEW t \in Tasks, Create(t) PROVE ListsTrue' /\ OpHolds'
  <2>1. NewTask.status \in ActiveStatus /\ NewTask.resumable
    BY DEF NewTask, ActiveStatus
  <2>2. /\ \/ Save(Patched(t, NewTask)) /\ excused \ {t} \subseteq excused'
           \/ SaveFails(Patched(t, NewTask)) /\ Excuse({t})
        /\ op = NoOp /\ UNCHANGED op
    BY <1>3 DEF Create, Free
  <2> QED
    BY <1>2, <2>1, <2>2, RecordTypes
<1>4. ASSUME NEW t \in Tasks, Resume(t) PROVE ListsTrue' /\ OpHolds'
  <2>0. PICK r \in TaskRecord : r = task[t]
    BY <1>0 DEF TypeOK
  <2> DEFINE p == [r EXCEPT !.status = "queued", !.asked = TRUE]
  <2>1. p \in TaskRecord /\ p.status = "queued" /\ p.resumable
    BY <1>4, <2>0, StatusValues DEF Resume, ResumeAllowed, TaskRecord, ActiveStatus
  <2>2. /\ \/ Save(Patched(t, p)) /\ excused \ {t} \subseteq excused'
           \/ SaveFails(Patched(t, p)) /\ Excuse({t})
        /\ op = NoOp /\ UNCHANGED op
    BY <1>4, <2>0 DEF Resume, Free, Absolve
  <2> HIDE DEF p
  <2>3. p.status \in ActiveStatus
    BY <2>1 DEF ActiveStatus
  <2> QED
    BY <1>2, <2>1, <2>2, <2>3
<1>5. ASSUME NEW t \in Tasks, Clear(t) PROVE ListsTrue' /\ OpHolds'
  <2> DEFINE p == [NoTask EXCEPT !.status = "cleared"]
  <2>1. p.status = "cleared"
    BY DEF NoTask
  <2>2. /\ Save(Patched(t, p)) \/ SaveFails(Patched(t, p))
        /\ op = NoOp /\ UNCHANGED <<op, excused>>
    BY <1>5 DEF Clear, Free
  <2> HIDE DEF p
  <2>3. task' = Patched(t, p) /\ (journal' = Loaded(task') \/ UNCHANGED journal)
    BY <1>1, <2>2
  <2>4. task'[t] = p /\ \A u \in Tasks : u # t => task'[u] = task[u]
    BY <1>0, <2>3, PatchEffect
  <2>5. /\ Sound(task'[t], partial'[t], dest'[t])
        /\ Follows(journal[t], task'[t])
    BY <2>1, <2>4 DEF Sound, Follows, ActiveStatus
  <2> QED
    BY <1>0, <2>2, <2>3, <2>4, <2>5, PatchLists, OpDone
<1>6. ASSUME NEW kind, NEW ts \in SUBSET Tasks, BeginOp(kind, ts),
             kind # "retry" => \A t \in ts : Listed(t),
             kind = "pause" => \A t \in ts : task[t].resumable
      PROVE  ListsTrue' /\ OpHolds'
  <2>1. UNCHANGED <<task, journal, excused>>
    BY <1>6 DEF BeginOp
  <2>2. op'.kind = kind /\ op'.todo = ts /\ op'.cur = {} /\ op'.pc = "next"
    BY <1>6 DEF BeginOp, NoOp
  <2>3. OpHolds'
    BY <1>6, <2>1, <2>2 DEF OpHolds, Listed
  <2> QED
    BY <1>0, <2>1, <2>3, SameLists
<1>7. CASE Shutdown
  <2>1. UNCHANGED <<task, journal, excused>>
    BY <1>7 DEF Shutdown
  <2>2. /\ op'.kind = "shutdown" /\ op'.pc = "wait"
        /\ \A t \in op'.todo \cup op'.cur : Active(t)
    BY <1>7 DEF Shutdown
  <2>3. OpHolds'
    BY <2>1, <2>2 DEF OpHolds, Listed, Active, ActiveStatus, Unlisted
  <2> QED
    BY <1>0, <2>1, <2>3, SameLists
<1>8. ASSUME NEW t \in Tasks, Pause(t) \/ Discard(t) \/ ForceDiscard(t)
      PROVE  ListsTrue' /\ OpHolds'
  <2>1. \/ BeginOp("pause", {t}) /\ Active(t) /\ task[t].resumable
        \/ BeginOp("discard", {t}) /\ Listed(t)
        \/ BeginOp("force", {t}) /\ Listed(t)
    BY <1>8 DEF Pause, Discard, ForceDiscard, Pausable
  <2>2. Active(t) => Listed(t)
    BY DEF Active, Listed, ActiveStatus, Unlisted
  <2> QED
    BY <1>6, <2>1, <2>2
<1>9. CASE PauseForTab
  <2>1. \A t \in Pausable : t \in Tasks /\ Listed(t) /\ task[t].resumable
    BY DEF Pausable, Active, Listed, ActiveStatus, Unlisted
  <2> QED
    BY <1>6, <1>9, <2>1 DEF PauseForTab, Pausable
<1>10. CASE RetryOnConnect
  <2>1. {t \in Uploads : task[t].cleanup} \in SUBSET Tasks
    BY TransferAssumption
  <2> QED
    BY <1>6, <1>10, <2>1 DEF RetryOnConnect
<1> QED
  BY <1>3, <1>4, <1>5, <1>7, <1>8, <1>9, <1>10 DEF UserStep

\* Operations.
LEMMA OpLists ==
    ASSUME FilesInv, TypeOK', OpStep
    PROVE  ListsTrue' /\ OpHolds'
<1>0. TypeOK /\ StatusInv /\ ListsTrue /\ OpHolds /\ FileStep
  <2>1. Next
    BY DEF Next
  <2> QED
    BY <2>1, FilesStep DEF FilesInv, StatusInv
<1>1. ASSUME NEW tasks, Save(tasks) \/ SaveFails(tasks)
      PROVE  /\ task' = tasks /\ (journal' = Loaded(task') \/ UNCHANGED journal)
             /\ Save(tasks) => journal' = Loaded(task')
  BY <1>1 DEF Save, SaveFails
<1>2. ASSUME NEW t \in Tasks, Proceed(t), \A u \in Tasks : u # t => task'[u] = task[u],
             excused \ {t} \subseteq excused'
      PROVE  OpHolds'
  <2>1. CASE op' = NoOp
    BY <2>1, OpDone
  <2>2. CASE op' = [NoOp EXCEPT !.kind = op.kind, !.todo = op.todo \ {t}]
    <3>1. /\ op'.kind = op.kind /\ op'.todo = op.todo \ {t}
          /\ op'.cur = {} /\ op'.pc = "next"
      BY <2>2 DEF NoOp
    <3>2. op.todo \in SUBSET Tasks
      BY <1>0 DEF TypeOK, OpRecord
    <3> QED
      BY <1>0, <1>2, <3>1, <3>2 DEF OpHolds, Listed, Terminal
  <2> QED
    BY <1>2, <2>1, <2>2 DEF Proceed
<1>3. ASSUME NEW t \in Tasks, StopNext(t) PROVE ListsTrue' /\ OpHolds'
  <2>1. UNCHANGED <<task, journal, excused>>
    BY <1>3 DEF StopNext
  <2>2. /\ op'.kind = op.kind /\ op'.todo = op.todo /\ op'.cur = {t}
        /\ op'.pc = "wait" /\ t \in op.todo
    BY <1>0, <1>3 DEF StopNext, TypeOK, OpRecord
  <2>3. OpHolds'
    BY <1>0, <2>1, <2>2 DEF OpHolds, Listed, Terminal
  <2> QED
    BY <1>0, <2>1, <2>3, SameLists
<1>4. CASE StopDone
  <2>1. UNCHANGED <<task, journal, excused>>
    BY <1>4 DEF StopDone
  <2>2. /\ op'.kind = op.kind /\ op'.todo = op.todo /\ op'.cur = op.cur
        /\ op'.pc = "apply"
    BY <1>0, <1>4 DEF StopDone, TypeOK, OpRecord
  <2>3. OpHolds'
    BY <1>0, <2>1, <2>2 DEF OpHolds, Listed, Terminal
  <2> QED
    BY <1>0, <2>1, <2>3, SameLists
<1>5. CASE StopTimeout
  <2>1. UNCHANGED <<task, journal>> /\ excused \subseteq excused' /\ op' = NoOp
    BY <1>5 DEF StopTimeout, Excuse
  <2> QED
    BY <1>0, <2>1, SameLists, OpDone
<1>6. ASSUME NEW t \in Tasks, ApplyPause(t) PROVE ListsTrue' /\ OpHolds'
  <2>0. PICK r \in TaskRecord : r = task[t]
    BY <1>0 DEF TypeOK
  <2> DEFINE p == [r EXCEPT !.status = "paused", !.asked = FALSE]
  <2>1. \/ UNCHANGED <<task, journal, excused>> /\ Proceed(t)
        \/ /\ ~Terminal(t)
           /\ \/ Save(Patched(t, p)) /\ Proceed(t) /\ Absolve({t})
              \/ SaveFails(Patched(t, p)) /\ op' = NoOp /\ UNCHANGED excused
    BY <1>6, <2>0 DEF ApplyPause, Moved
  <2>2. p.status = "paused" /\ p.resumable = r.resumable
    BY PatchedRecord
  <2> HIDE DEF p
  <2>3. CASE UNCHANGED <<task, journal, excused>> /\ Proceed(t)
    BY <1>0, <1>2, <2>3, SameLists
  <2>4. CASE /\ ~Terminal(t)
             /\ \/ Save(Patched(t, p)) /\ Proceed(t) /\ Absolve({t})
                \/ SaveFails(Patched(t, p)) /\ op' = NoOp /\ UNCHANGED excused
    <3>1. /\ task' = Patched(t, p)
          /\ journal' = Loaded(task') \/ UNCHANGED journal
          /\ excused \ {t} \subseteq excused'
          /\ journal' # Loaded(task') => UNCHANGED excused
      BY <1>1, <2>4 DEF Absolve
    <3>2. task'[t] = p /\ \A u \in Tasks : u # t => task'[u] = task[u]
      BY <1>0, <3>1, PatchEffect
    <3>3. p.resumable /\ Listed(t)
      BY <1>0, <1>6, <2>0, <2>2, <2>4 DEF ApplyPause, OpHolds
    <3>4. Sound(task'[t], partial'[t], dest'[t])
      BY <2>2, <3>2, <3>3 DEF Sound
    <3>5. t \notin excused => Follows(journal[t], task'[t])
      BY <1>0, <2>4, <3>3
         DEF ListsTrue, Follows, Terminal, TerminalStatus, Listed, Unlisted
    <3>6. ListsTrue'
      BY <1>0, <3>1, <3>2, <3>4, <3>5, PatchLists
    <3>7. OpHolds'
      BY <1>2, <2>4, <3>1, <3>2, OpDone
    <3> QED
      BY <3>6, <3>7
  <2> QED
    BY <2>1, <2>3, <2>4
<1>7. ASSUME NEW t \in Tasks, ApplyDiscard(t) PROVE ListsTrue' /\ OpHolds'
  <2>1. \/ UNCHANGED <<task, journal, excused>> /\ op' = NoOp
        \/ /\ Save(Patched(t, Discarded)) /\ Absolve({t})
           /\ op' = [op EXCEPT !.pc = "clean"]
        \/ /\ SaveFails(Patched(t, Discarded)) /\ UNCHANGED excused
           /\ op' = NoOp /\ task[t].status # "done"
    BY <1>7 DEF ApplyDiscard
  <2>2. CASE UNCHANGED <<task, journal, excused>> /\ op' = NoOp
    BY <1>0, <2>2, SameLists, OpDone
  <2>3. CASE Save(Patched(t, Discarded)) \/ SaveFails(Patched(t, Discarded))
    <3>1. /\ task' = Patched(t, Discarded)
          /\ journal' = Loaded(task') \/ UNCHANGED journal
          /\ excused \ {t} \subseteq excused'
          /\ journal' # Loaded(task') =>
                 UNCHANGED excused /\ task[t].status # "done"
      <4>1. CASE UNCHANGED <<task, journal, excused>> /\ op' = NoOp
                 /\ ~Save(Patched(t, Discarded)) /\ task[t].status = "done"
        BY <1>1, <2>3, <4>1
           DEF SaveFails, Patched, Discarded, TypeOK
      <4> QED
        BY <1>1, <1>7, <2>3, <4>1 DEF ApplyDiscard, Absolve
    <3>2. task'[t] = Discarded /\ \A u \in Tasks : u # t => task'[u] = task[u]
      BY <1>0, <3>1, PatchEffect
    <3>3. Sound(task'[t], partial'[t], dest'[t])
      BY <3>2 DEF Sound, Discarded, ActiveStatus
    <3>4. Listed(t) /\ t \in op.cur
      BY <1>0, <1>7 DEF ApplyDiscard, OpHolds
    <3>5. t \notin excused /\ task[t].status # "done" =>
              Follows(journal[t], task'[t])
      BY <1>0, <3>2, <3>4 DEF ListsTrue, Follows, Listed, Unlisted, Discarded
    <3>6. ListsTrue'
      BY <1>0, <3>1, <3>2, <3>3, <3>5, PatchLists
    <3>7. ASSUME op' = [op EXCEPT !.pc = "clean"] PROVE OpHolds'
      <4>1. /\ op'.kind = op.kind /\ op'.todo = op.todo /\ op'.cur = op.cur
            /\ op.cur = {t} /\ op.kind # "pause"
            /\ op.todo \cup op.cur \subseteq Tasks
        BY <1>0, <1>7, <3>7 DEF ApplyDiscard, TypeOK, OpRecord
      <4>2. task'[t].status = "canceled"
        BY <3>2 DEF Discarded
      <4> QED
        BY <1>0, <3>2, <4>1, <4>2 DEF OpHolds, Listed, Unlisted
    <3> QED
      BY <2>1, <3>6, <3>7, OpDone
  <2> QED
    BY <2>1, <2>2, <2>3
<1>8. ASSUME NEW t \in Tasks, CleanDiscard(t) PROVE ListsTrue' /\ OpHolds'
  <2>0. PICK r \in TaskRecord : r = task[t]
    BY <1>0 DEF TypeOK
  <2>1. PICK cleaned \in BOOLEAN :
          LET due   == ~cleaned /\ op.kind = "discard"
              tasks == Patched(t, [r EXCEPT !.cleanup = due,
                         !.resumable = op.kind # "force" /\ @, !.asked = FALSE])
          IN /\ Cleanup(t, cleaned)
             /\ Save(tasks) \/ SaveFails(tasks)
             /\ IF cleaned \/ due THEN UNCHANGED excused ELSE Excuse({t})
    BY <1>8, <2>0 DEF CleanDiscard
  <2> DEFINE due == ~cleaned /\ op.kind = "discard"
             p == [r EXCEPT !.cleanup = due,
                            !.resumable = op.kind # "force" /\ @, !.asked = FALSE]
  <2>2. /\ Save(Patched(t, p)) \/ SaveFails(Patched(t, p))
        /\ op' = NoOp /\ excused \subseteq excused'
        /\ cleaned \/ due \/ t \in excused'
    BY <1>8, <2>1 DEF CleanDiscard, Excuse
  <2>3. p.status = r.status /\ p.cleanup = due
    BY DEF TaskRecord
  <2>4. cleaned => partial'[t] = "none"
    BY <1>0, <2>1 DEF Cleanup, TypeOK
  <2> HIDE DEF p
  <2>5. task' = Patched(t, p) /\ (journal' = Loaded(task') \/ UNCHANGED journal)
    BY <1>1, <2>2
  <2>6. task'[t] = p /\ \A u \in Tasks : u # t => task'[u] = task[u]
    BY <1>0, <2>5, PatchEffect
  <2>7. t \notin excused' => p.status = "canceled" /\ (p.cleanup \/ cleaned)
    BY <1>0, <1>8, <2>0, <2>2, <2>3 DEF CleanDiscard, OpHolds
  <2>8. t \notin excused' => Sound(task'[t], partial'[t], dest'[t])
    BY <2>4, <2>6, <2>7 DEF Sound, ActiveStatus
  <2>9. t \notin excused => Follows(journal[t], task'[t])
    BY <1>0, <2>0, <2>3, <2>6 DEF ListsTrue, Follows
  <2> QED
    BY <1>0, <2>2, <2>5, <2>6, <2>8, <2>9, PatchLists, OpDone
<1>9. ASSUME NEW t \in Tasks, CleanRetry(t) PROVE ListsTrue' /\ OpHolds'
  <2>0. PICK r \in TaskRecord : r = task[t]
    BY <1>0 DEF TypeOK
  <2>1. PICK cleaned \in BOOLEAN :
          LET tasks == Patched(t, [r EXCEPT !.cleanup = ~cleaned,
                                            !.asked = FALSE])
          IN /\ Cleanup(t, cleaned)
             /\ \/ Save(tasks) /\ Proceed(t)
                \/ SaveFails(tasks) /\ op' = NoOp
    BY <1>9, <2>0 DEF CleanRetry
  <2> DEFINE p == [r EXCEPT !.cleanup = ~cleaned, !.asked = FALSE]
  <2>2. /\ Save(Patched(t, p)) \/ SaveFails(Patched(t, p))
        /\ Proceed(t) \/ op' = NoOp
        /\ UNCHANGED <<excused, dest>>
    BY <1>9, <2>1 DEF CleanRetry
  <2>3. p.status = r.status /\ p.cleanup = ~cleaned /\ p.resumable = r.resumable
    BY DEF TaskRecord
  <2>4. IF cleaned THEN partial'[t] = "none" ELSE partial'[t] = partial[t]
    BY <1>0, <2>1 DEF Cleanup, TypeOK
  <2> HIDE DEF p
  <2>5. task' = Patched(t, p) /\ (journal' = Loaded(task') \/ UNCHANGED journal)
    BY <1>1, <2>2
  <2>6. task'[t] = p /\ \A u \in Tasks : u # t => task'[u] = task[u]
    BY <1>0, <2>5, PatchEffect
  <2>7. t \notin excused =>
            /\ Sound(task'[t], partial'[t], dest'[t])
            /\ Follows(journal[t], task'[t])
    BY <1>0, <2>0, <2>2, <2>3, <2>4, <2>6 DEF ListsTrue, Sound, Follows
  <2>8. ListsTrue'
    BY <1>0, <2>2, <2>5, <2>6, <2>7, PatchLists
  <2>9. OpHolds'
    BY <1>2, <2>2, <2>6, OpDone
  <2> QED
    BY <2>8, <2>9
<1>10. CASE ApplyShutdown
  <2> DEFINE tasks == [t \in Tasks |-> IF t \in Interruptible
                                       THEN Interrupted(task[t]) ELSE task[t]]
  <2>1. /\ task' = tasks /\ (journal' = Loaded(task') \/ UNCHANGED journal)
        /\ op' = NoOp /\ UNCHANGED <<partial, dest, excused>>
    BY <1>1, <1>10 DEF ApplyShutdown
  <2>2. ASSUME NEW u \in Tasks, u \notin excused
        PROVE  /\ Sound(task'[u], partial[u], dest[u])
               /\ Sound(journal'[u], partial[u], dest[u])
               /\ Follows(journal'[u], task'[u])
    <3>1. /\ Sound(task[u], partial[u], dest[u])
          /\ Sound(journal[u], partial[u], dest[u])
          /\ Follows(journal[u], task[u])
      BY <1>0, <2>2 DEF ListsTrue
    <3>2. CASE u \in Interruptible
      <4>1. /\ Listed(u) /\ ~Terminal(u) /\ task[u] \in TaskRecord
            /\ task'[u] = Interrupted(task[u])
        BY <1>0, <1>10, <2>1, <3>2
           DEF ApplyShutdown, Interruptible, OpHolds, TypeOK
      <4>2. task[u].resumable
        BY <3>1, <4>1
           DEF Sound, Listed, Terminal, TaskRecord, Status, TerminalStatus,
               Unlisted
      <4>3. PICK r \in TaskRecord : r = task[u]
        BY <4>1
      <4>4. Interrupted(r) = [r EXCEPT !.status = "paused", !.asked = FALSE]
        BY <4>2, <4>3 DEF Interrupted, InterruptStatus
      <4>5. /\ Interrupted(r).status = "paused"
            /\ Interrupted(r).resumable = r.resumable
        BY <4>4, PatchedRecord
      <4>6. Sound(task'[u], partial[u], dest[u])
        BY <4>1, <4>2, <4>3, <4>5 DEF Sound
      <4>7. journal[u].status \notin {"done", "canceled", "absent"}
        BY <3>1, <4>1
           DEF Follows, Listed, Terminal, TerminalStatus, Unlisted
      <4>8. CASE UNCHANGED journal
        BY <3>1, <4>6, <4>7, <4>8 DEF Follows
      <4>9. CASE journal' = Loaded(task')
        <5>1. journal'[u] = Entry(task'[u])
          BY <4>9 DEF Loaded, Entry
        <5>2. task'[u] \in TaskRecord
          BY DEF TypeOK
        <5> QED
          BY <4>6, <5>1, <5>2, EntrySound
      <4> QED
        BY <2>1, <4>6, <4>8, <4>9
    <3>3. CASE u \notin Interruptible
      <4>1. task'[u] = task[u] /\ task[u] \in TaskRecord
        BY <1>0, <2>1, <3>3 DEF TypeOK
      <4>2. journal'[u] \in {journal[u], Entry(task[u])}
        BY <2>1, <4>1 DEF Loaded, Entry
      <4> QED
        BY <3>1, <4>1, <4>2, EntrySound
    <3> QED
      BY <3>2, <3>3
  <2>3. ListsTrue'
    BY <2>1, <2>2 DEF ListsTrue
  <2> QED
    BY <2>1, <2>3, OpDone
<1> QED
  BY <1>3, <1>4, <1>5, <1>6, <1>7, <1>8, <1>9, <1>10 DEF OpStep

\* The environment.
LEMMA EnvLists ==
    ASSUME FilesInv, TypeOK', EnvStep
    PROVE  ListsTrue' /\ OpHolds'
<1>0. TypeOK /\ StatusInv /\ ListsTrue /\ OpHolds /\ FileStep
  <2>1. Next
    BY DEF Next
  <2> QED
    BY <2>1, FilesStep DEF FilesInv, StatusInv
<1>1. CASE SessionLost \/ SessionBack \/ \E t \in Tasks : Vanish(t)
  BY <1>0, <1>1, SameLists, OpSame DEF SessionLost, SessionBack, Vanish
<1>2. CASE Restart
  <2> DEFINE due == {t \in Tasks \ Uploads : journal[t].cleanup}
  <2>1. \/ op' = NoOp
        \/ op' = [NoOp EXCEPT !.kind = "retry", !.todo = due]
    BY <1>2 DEF Restart
  <2> HIDE DEF due
  <2>2. OpHolds'
    BY <2>1, OpDone DEF OpHolds, NoOp
  <2>3. task' = journal /\ UNCHANGED <<journal, partial, dest, excused>>
    BY <1>2 DEF Restart
  <2>4. ListsTrue'
    BY <1>0, <2>3 DEF ListsTrue, Follows
  <2> QED
    BY <2>2, <2>4
<1> QED
  BY <1>1, <1>2 DEF EnvStep

LEMMA ListsStep ==
    ASSUME FilesInv, TypeOK', [Next]_vars
    PROVE  ListsTrue' /\ OpHolds'
<1>1. CASE UNCHANGED vars
  <2>1. StatusInv /\ ListsTrue /\ OpHolds /\ FileStep
    BY FilesStep DEF FilesInv, StatusInv
  <2> QED
    BY <1>1, <2>1, SameLists, OpSame DEF vars
<1>2. CASE Next
  BY <1>2, UserLists, OpLists, RunLists, CallLists, EnvLists DEF Next
<1> QED
  BY <1>1, <1>2

\* A run that takes no step of its own stays where it is, or is only started.
LEMMA Bystander ==
    ASSUME TypeOK, [Next]_vars, ~Restart, NEW g \in Gens, ~RunStep(g)
    PROVE  \/ run'[g].pc = run[g].pc /\ run'[g].task = run[g].task
           \/ run'[g].pc = "read"
<1>1. CASE run'[g] = run[g]
  BY <1>1
<1>2. ASSUME NEW gs, CancelRuns(gs)
      PROVE  run'[g].pc = run[g].pc /\ run'[g].task = run[g].task
  BY <1>2 DEF CancelRuns, TypeOK, RunRecord
<1>3. ASSUME NEW t \in Tasks, Start(t)
      PROVE  run'[g] = run[g] \/ run'[g].pc = "read"
  BY <1>3 DEF Start, TypeOK
<1>4. CASE UserStep
  BY <1>1, <1>2, <1>3, <1>4
     DEF UserStep, Create, Resume, Pause, PauseForTab, Discard, ForceDiscard,
         Clear, Shutdown, RetryOnConnect, BeginOp
<1>5. CASE OpStep
  BY <1>1, <1>2, <1>5
     DEF OpStep, StopNext, ApplyPause, ApplyDiscard, CleanDiscard, CleanRetry,
         StopDone, StopTimeout, ApplyShutdown
<1>6. ASSUME NEW h \in Gens, RunStep(h) PROVE run'[g] = run[g]
  BY <1>6, OtherRun
<1>7. ASSUME NEW h \in Gens, CallStep(h) PROVE run'[g] = run[g]
  BY <1>7 DEF CallStep, CallOpen, CallReport, CallChunk, CallEof, CallStop,
              CallReplace
<1>8. CASE EnvStep
  BY <1>8 DEF EnvStep, SessionLost, SessionBack, Vanish
<1>9. CASE UNCHANGED vars
  BY <1>9 DEF vars
<1> QED
  BY <1>1, <1>4, <1>5, <1>6, <1>7, <1>8, <1>9 DEF Next

\* A call changes by its own steps and those of its run.
LEMMA CallOthers ==
    ASSUME TypeOK, [Next]_vars, ~Restart, NEW g \in Gens, ~RunStep(g),
           ~CallStep(g)
    PROVE  call'[g] = call[g]
<1>1. CASE UserStep
  BY <1>1
     DEF UserStep, Create, Resume, Pause, PauseForTab, Discard, ForceDiscard,
         Clear, Shutdown, RetryOnConnect, BeginOp
<1>2. CASE OpStep
  BY <1>2
     DEF OpStep, StopNext, ApplyPause, ApplyDiscard, CleanDiscard, CleanRetry,
         StopDone, StopTimeout, ApplyShutdown
<1>3. ASSUME NEW h \in Gens, RunStep(h) PROVE call'[g] = call[g]
  BY <1>3 DEF TypeOK, RunStep, RunRead, RunBegin, RunClear, RunPlan, RunSend,
              RunAnswer, RunCheck, RunVerify, RunCommit, RunFinish, RunError,
              RunFail, RunJudge, RunRemove
<1>4. ASSUME NEW h \in Gens, CallStep(h) PROVE call'[g] = call[g]
  BY <1>4 DEF TypeOK, CallStep, CallOpen, CallReport, CallChunk, CallEof,
              CallStop, CallReplace, Answer
<1>5. CASE EnvStep
  BY <1>5 DEF EnvStep, SessionLost, SessionBack, Vanish
<1>6. CASE UNCHANGED vars
  BY <1>6 DEF vars
<1> QED
  BY <1>1, <1>2, <1>3, <1>4, <1>5, <1>6 DEF Next

\* The worker answers a replacement, whatever its outcome, with an answer.
LEMMA ReplaceAnswers ==
    ASSUME TypeOK, CallFits, NEW g \in Gens, At(g, "replacing"), CallStep(g)
    PROVE  CallReplace(g) /\ call'[g].pc \in {"ok", "err"}
<1>1. CallReplace(g)
  BY DEF CallFits, CallStep, CallOpen, CallReport, CallChunk, CallEof, CallStop
<1>2. ~Abandoned(g)
  BY DEF Abandoned, At
<1>3. Answer(g, "ok") \/ Answer(g, "err")
  BY <1>1 DEF CallReplace
<1> QED
  BY <1>1, <1>2, <1>3 DEF Answer, TypeOK

LEMMA CallFitsStep == TypeOK /\ CallFits /\ [Next]_vars => CallFits'
<1> SUFFICES ASSUME TypeOK, CallFits, [Next]_vars,
                    NEW g \in Gens, run'[g].pc = "replacing"
             PROVE  call'[g].pc \in {"replace", "ok", "err"}
  BY DEF CallFits, At
<1>1. CASE Restart
  BY <1>1 DEF Restart, NoRun
<1>2. CASE RunStep(g)
  <2>1. RunCommit(g)
    <3>1. ASSUME NEW pc, Goto(g, pc) PROVE pc = "replacing"
      BY <3>1 DEF Goto, TypeOK, RunRecord
    <3>2. ~RunRead(g) /\ ~RunClear(g) /\ ~RunRemove(g)
      <4> DEFINE begun == [run[g] EXCEPT !.pc = "begin",
                                         !.resume = task[run[g].task].asked]
                 planning == [run[g] EXCEPT !.pc = "plan", !.resume = FALSE]
                 gone == [run[g] EXCEPT !.pc = "gone", !.cancel = FALSE,
                                        !.resume = FALSE]
      <4>1. begun.pc = "begin" /\ planning.pc = "plan" /\ gone.pc = "gone"
        BY DEF TypeOK, RunRecord
      <4>2. /\ RunRead(g) => \/ Goto(g, "settled") \/ Goto(g, "fail")
                              \/ run' = [run EXCEPT ![g] = begun]
            /\ RunClear(g) => run' = [run EXCEPT ![g] = planning]
            /\ RunRemove(g) => run' = [run EXCEPT ![g] = gone]
        BY DEF RunRead, RunClear, RunRemove
      <4> HIDE DEF begun, planning, gone
      <4> QED
        BY <3>1, <4>1, <4>2 DEF TypeOK
    <3> QED
      BY <1>2, <3>1, <3>2
         DEF RunStep, RunBegin, RunPlan, RunSend, RunAnswer, TimedOut, Answered,
             RunCheck, RunVerify, RunFinish, RunError, RunFail, AfterFailure,
             RunJudge, RunSave
  <2>2. call' = [call EXCEPT ![g].pc = "replace"]
    <3>1. ASSUME Goto(g, "finish") PROVE FALSE
      BY <3>1 DEF Goto, TypeOK, RunRecord
    <3> QED
      BY <2>1, <3>1 DEF RunCommit
  <2> QED
    BY <2>2 DEF TypeOK, CallRecord
<1>3. CASE ~Restart /\ ~RunStep(g)
  <2>1. At(g, "replacing")
    BY <1>3, Bystander DEF At
  <2>2. CASE CallStep(g)
    BY <2>1, <2>2, ReplaceAnswers
  <2>3. CASE ~CallStep(g)
    BY <1>3, <2>1, <2>3, CallOthers DEF CallFits
  <2> QED
    BY <2>2, <2>3
<1> QED
  BY <1>1, <1>2, <1>3

\* A task is absolved only while it has no run.
LEMMA AbsolvedIdle ==
    ASSUME StatusInv, [Next]_vars, NEW t \in excused, t \notin excused',
           NEW g \in Gens, Live(g)
    PROVE  run[g].task # t
<1>0. TypeOK
  BY DEF StatusInv
<1>1. ASSUME NEW u \in Tasks, Resume(u) PROVE run[g].task # t
  BY <1>1 DEF Resume, ResumeAllowed, Excuse, Absolve, StatusInv, RunsReachable,
              Gens
<1>2. ASSUME NEW u \in Tasks, ApplyPause(u) \/ ApplyDiscard(u)
      PROVE  run[g].task # t
  BY <1>2 DEF ApplyPause, ApplyDiscard, Absolve, StatusInv, QuiescentApply
<1>3. CASE UserStep
  BY <1>1, <1>3
     DEF UserStep, Create, Excuse, Pause, PauseForTab, Discard, ForceDiscard,
         Clear, Shutdown, RetryOnConnect, BeginOp
<1>4. CASE OpStep
  BY <1>2, <1>4
     DEF OpStep, StopNext, CleanDiscard, CleanRetry, Excuse, StopDone,
         StopTimeout, ApplyShutdown
<1>5. ASSUME NEW h \in Gens, RunStep(h) PROVE FALSE
  BY <1>5 DEF RunStep, RunRead, RunBegin, RunClear, RunPlan, RunSend,
              RunAnswer, RunCheck, RunVerify, RunCommit, RunFinish, RunError,
              RunFail, RunJudge, RunRemove
<1>6. ASSUME NEW h \in Gens, CallStep(h) PROVE FALSE
  BY <1>6 DEF CallStep, CallOpen, CallReport, CallChunk, CallEof, CallStop,
              CallReplace, Excuse
<1>7. CASE EnvStep
  BY <1>7 DEF EnvStep, SessionLost, SessionBack, Vanish, Restart
<1>8. CASE UNCHANGED vars
  BY <1>8 DEF vars
<1> QED
  BY <1>3, <1>4, <1>5, <1>6, <1>7, <1>8 DEF Next

\* Nobody but a run itself ends its active task: operations wait for it.
LEMMA ActiveKept ==
    ASSUME StatusInv, [Next]_vars, ~Restart, NEW g \in Gens, Live(g),
           ~RunStep(g), NEW t \in Tasks, t = run[g].task, Active(t)
    PROVE  Active(t)'
<1>0. TypeOK
  BY DEF StatusInv
<1>1. CASE task'[t].status = task[t].status
  BY <1>1 DEF Active
<1>2. ASSUME NEW u \in Tasks, u # t, NEW p, task' = Patched(u, p)
      PROVE  task'[t].status = task[t].status
  BY <1>0, <1>2, PatchEffect
<1>3. CASE UNCHANGED task
  BY <1>1, <1>3
<1>4. CASE UserStep
  <2>1. ASSUME NEW u \in Tasks, Create(u) \/ Resume(u) \/ Clear(u)
        PROVE  Active(t)'
    <3>1. u # t
      BY <2>1 DEF Create, Resume, ResumeAllowed, Clear, Clearable, Terminal,
                  Active, ActiveStatus, TerminalStatus, CanResumeFrom
    <3>2. \E p : task' = Patched(u, p)
      BY <2>1, SaveEffect DEF Create, Resume, Clear
    <3> QED
      BY <1>1, <1>2, <3>1, <3>2
  <2> QED
    BY <1>3, <1>4, <2>1
       DEF UserStep, Pause, PauseForTab, Discard, ForceDiscard, Shutdown,
           RetryOnConnect, BeginOp
<1>5. CASE OpStep
  <2>1. op.pc \in {"apply", "clean"} => t \notin op.cur
    BY DEF StatusInv, QuiescentApply
  <2>2. ASSUME NEW u \in Tasks, ApplyPause(u) \/ ApplyDiscard(u) \/ CleanDiscard(u)
        PROVE  Active(t)'
    <3>1. u # t
      BY <2>1, <2>2 DEF ApplyPause, ApplyDiscard, CleanDiscard
    <3>2. UNCHANGED task \/ \E p : task' = Patched(u, p)
      BY <2>2, SaveEffect DEF ApplyPause, ApplyDiscard, CleanDiscard, Moved
    <3> QED
      BY <1>1, <1>2, <1>3, <3>1, <3>2
  <2>3. ASSUME NEW u \in Tasks, CleanRetry(u) PROVE Active(t)'
    <3>1. PICK r \in TaskRecord : r = task[u]
      BY <1>0 DEF TypeOK
    <3>2. PICK due \in BOOLEAN :
            task' = Patched(u, [r EXCEPT !.cleanup = due, !.asked = FALSE])
      BY <2>3, <3>1, SaveEffect DEF CleanRetry
    <3> DEFINE p == [r EXCEPT !.cleanup = due, !.asked = FALSE]
    <3>3. p.status = r.status
      BY DEF TaskRecord
    <3> HIDE DEF p
    <3>4. task' = Patched(u, p)
      BY <3>2 DEF p
    <3>5. task'[t].status = task[t].status
      BY <1>0, <1>2, <3>1, <3>3, <3>4, PatchEffect
    <3> QED
      BY <1>1, <3>5
  <2>4. CASE ApplyShutdown
    <3>1. t \notin Interruptible
      BY <2>1, <2>4 DEF ApplyShutdown, Interruptible
    <3>2. task'[t] = task[t]
      BY <2>4, <3>1, SaveEffect DEF ApplyShutdown
    <3> QED
      BY <1>1, <3>2
  <2> QED
    BY <1>3, <1>5, <2>2, <2>3, <2>4 DEF OpStep, StopNext, StopDone, StopTimeout
<1>6. ASSUME NEW h \in Gens, RunStep(h) PROVE Active(t)'
  <2>1. CASE run[h].task = t
    <3>1. ~Live(h)
      BY <1>6, <2>1, OnlyRun DEF StatusInv
    <3>2. RunRemove(h)
      BY <1>6, <3>1
         DEF RunStep, RunRead, RunBegin, RunClear, RunPlan, RunSend, RunAnswer,
             RunCheck, RunVerify, RunCommit, RunFinish, RunError, RunFail,
             RunJudge, At, Live, Settled
    <3> QED
      BY <1>3, <3>2 DEF RunRemove
  <2>2. CASE run[h].task # t
    <3>1. UNCHANGED task \/ \E p : task' = Patched(run[h].task, p)
      BY <1>6, SaveEffect
         DEF RunStep, RunRead, RunBegin, RunClear, RunPlan, RunSend, RunAnswer,
             RunCheck, RunVerify, RunCommit, RunFinish, RunError, RunFail,
             RunJudge, RunRemove, RunSave, Moved
    <3>2. run[h].task \in Tasks
      BY <1>0 DEF TypeOK, RunRecord
    <3> QED
      BY <1>1, <1>2, <1>3, <2>2, <3>1, <3>2
  <2> QED
    BY <2>1, <2>2
<1>7. ASSUME NEW h \in Gens, CallStep(h) PROVE Active(t)'
  <2>1. CASE UNCHANGED task
    BY <1>3, <2>1
  <2>2. CASE task' = Progressed(run[h].task)
    <3>1. PICK u \in Tasks, r \in TaskRecord : u = run[h].task /\ r = task[u]
      BY <1>0 DEF TypeOK, RunRecord
    <3> DEFINE p == [r EXCEPT !.status = "running", !.resumable = TRUE,
                              !.asked = FALSE]
    <3>2. task' = Patched(u, p) /\ p.status = "running"
      BY <2>2, <3>1, PatchedRecord DEF Progressed
    <3> HIDE DEF p
    <3> QED
      BY <1>0, <1>1, <1>2, <3>2, PatchEffect DEF Active, ActiveStatus
  <2> QED
    BY <1>7, <2>1, <2>2
       DEF CallStep, CallOpen, CallReport, CallChunk, CallEof, CallStop,
           CallReplace
<1>8. CASE EnvStep
  BY <1>3, <1>8 DEF EnvStep, SessionLost, SessionBack, Vanish
<1>9. CASE UNCHANGED vars
  BY <1>3, <1>9 DEF vars
<1> QED
  BY <1>4, <1>5, <1>6, <1>7, <1>8, <1>9 DEF Next

\* What a step of a run does to the stage it is in: it enters the replacement
\* with the checkpoint complete, and leaves it with the destination replaced.
LEMMA OwnStages ==
    ASSUME FilesInv, NEW g \in Gens, RunStep(g), NEW t \in Tasks,
           t = run[g].task, t \notin excused
    PROVE  /\ Replacing(g)' => partial'[t] # "part"
           /\ Replaced(g)' => dest'[t] = "new" /\ partial'[t] = "none"
           /\ At(g, "judge")' => Active(t)'
<1>0. TypeOK /\ CallFits /\ StatusInv
  BY DEF FilesInv, StatusInv
<1>1. /\ Replacing(g) => partial[t] # "part"
      /\ Replaced(g) => dest[t] = "new" /\ partial[t] = "none"
  BY DEF FilesInv, Stages
<1>2. ASSUME NEW pc, Goto(g, pc) PROVE run'[g].pc = pc
  BY <1>0, <1>2 DEF Goto, TypeOK, RunRecord
<1>3. CASE run'[g].pc \notin {"commit", "replacing", "finish", "judge"}
  BY <1>3 DEF Replacing, Replaced, At
<1>4. CASE RunRead(g) \/ RunClear(g) \/ RunRemove(g)
  <2> DEFINE begun == [run[g] EXCEPT !.pc = "begin",
                                     !.resume = task[run[g].task].asked]
             planning == [run[g] EXCEPT !.pc = "plan", !.resume = FALSE]
             gone == [run[g] EXCEPT !.pc = "gone", !.cancel = FALSE,
                                    !.resume = FALSE]
  <2>1. begun.pc = "begin" /\ planning.pc = "plan" /\ gone.pc = "gone"
    BY <1>0 DEF TypeOK, RunRecord
  <2>2. \/ Goto(g, "settled") \/ Goto(g, "fail")
        \/ run' = [run EXCEPT ![g] = begun]
        \/ run' = [run EXCEPT ![g] = planning]
        \/ run' = [run EXCEPT ![g] = gone]
    BY <1>4 DEF RunRead, RunClear, RunRemove
  <2> HIDE DEF begun, planning, gone
  <2>3. run'[g].pc \in {"begin", "plan", "gone", "settled", "fail"}
    BY <1>0, <1>2, <2>1, <2>2 DEF TypeOK
  <2> QED
    BY <1>3, <2>3
<1>5. CASE RunBegin(g) \/ RunPlan(g) \/ RunSend(g) \/ RunCheck(g) \/ RunFinish(g)
           \/ RunError(g) \/ RunJudge(g)
  <2>1. run'[g].pc \in {"settled", "clear", "check", "send", "wait", "verify",
                        "fail"}
    BY <1>2, <1>5 DEF RunBegin, RunPlan, RunSend, RunCheck, RunFinish, RunError,
                      RunJudge, RunSave
  <2> QED
    BY <1>3, <2>1
<1>6. CASE RunVerify(g)
  <2>1. run'[g].pc \in {"commit", "fail"} /\ partial'[t] = "full"
    BY <1>2, <1>6 DEF RunVerify, RunSave
  <2> QED
    BY <2>1 DEF Replacing, Replaced, At
<1>7. CASE RunCommit(g)
  <2>1. Replacing(g)
    BY <1>7 DEF RunCommit, At, Replacing
  <2>2. CASE /\ Goto(g, "replacing") /\ UNCHANGED <<partial, dest>>
             /\ call' = [call EXCEPT ![g].pc = "replace"]
    <3>1. run'[g].pc = "replacing" /\ call'[g].pc = "replace"
      BY <1>0, <1>2, <2>2 DEF TypeOK, CallRecord
    <3> QED
      BY <1>1, <2>1, <2>2, <3>1 DEF Replacing, Replaced, At
  <2>3. CASE /\ Goto(g, "finish") /\ partial[t] # "none"
             /\ dest' = [dest EXCEPT ![t] = Placed(t)]
             /\ partial' = [partial EXCEPT ![t] = "none"]
    <3>1. partial[t] = "full"
      BY <1>0, <1>1, <2>1, <2>3 DEF TypeOK
    <3>2. dest'[t] = "new" /\ partial'[t] = "none" /\ run'[g].pc = "finish"
      BY <1>0, <1>2, <2>3, <3>1 DEF Placed, TypeOK
    <3> QED
      BY <3>2 DEF Replacing, Replaced, At
  <2> QED
    BY <1>7, <2>2, <2>3 DEF RunCommit
<1>8. CASE RunAnswer(g)
  <2>1. UNCHANGED <<partial, dest>>
    BY <1>8 DEF RunAnswer
  <2>2. \/ run'[g].pc \in {"fail", "check"}
        \/ run'[g].pc = "finish" /\ At(g, "replacing") /\ call[g].pc = "ok"
    BY <1>2, <1>8 DEF RunAnswer, Answered, TimedOut, At
  <2> QED
    BY <1>1, <2>1, <2>2 DEF Replacing, Replaced, At
<1>9. CASE RunFail(g)
  <2>1. UNCHANGED task
    BY <1>9 DEF RunFail
  <2>2. run'[g].pc = "settled" \/ (run'[g].pc = "judge" /\ Active(t))
    BY <1>2, <1>9 DEF RunFail, AfterFailure
  <2> QED
    BY <2>1, <2>2 DEF Replacing, Replaced, At, Active
<1> QED
  BY <1>4, <1>5, <1>6, <1>7, <1>8, <1>9 DEF RunStep

\* What the steps of others do to it.
LEMMA OtherStages ==
    ASSUME FilesInv, [Next]_vars, ~Restart, NEW g \in Gens, ~RunStep(g),
           run'[g].pc = run[g].pc, NEW t \in Tasks,
           t = run[g].task, t \notin excused, t \notin excused'
    PROVE  /\ Replacing(g)' => partial'[t] # "part"
           /\ Replaced(g)' => dest'[t] = "new" /\ partial'[t] = "none"
           /\ At(g, "judge")' => Active(t)'
<1>0. TypeOK /\ CallFits /\ StatusInv /\ FileStep
  BY FilesStep DEF FilesInv, StatusInv
<1>1. /\ Replacing(g) => partial[t] # "part"
      /\ Replaced(g) => dest[t] = "new" /\ partial[t] = "none"
      /\ At(g, "judge") => Active(t)
  BY DEF FilesInv, Stages
<1>2. ASSUME NEW h \in Gens, run[h].task = t, At(h, "wait"), Live(g),
             ~At(g, "wait")
      PROVE  FALSE
  <2>1. Live(h) /\ g # h
    BY <1>2 DEF Live, Settled, At
  <2> QED
    BY <1>0, <1>2, <2>1, OnlyRun DEF StatusInv
<1>3. Replacing(g) \/ At(g, "finish") =>
          /\ partial[t] = "none" => dest'[t] = dest[t]
          /\ partial[t] # "part" => partial'[t] \in {"none", partial[t]}
  <2>1. Replacing(g) \/ At(g, "finish") => Live(g) /\ ~At(g, "wait")
    BY DEF Replacing, At, Live, Settled
  <2> QED
    BY <1>0, <1>2, <2>1 DEF FileStep
<1>4. Replacing(g)' => partial'[t] # "part"
  BY <1>1, <1>3 DEF Replacing
<1>5. ASSUME Replaced(g)' PROVE dest'[t] = "new" /\ partial'[t] = "none"
  <2>1. CASE Replaced(g)
    BY <1>1, <1>3, <2>1 DEF Replaced, Replacing, At
  <2>2. CASE ~Replaced(g)
    <3>1. At(g, "replacing") /\ call'[g].pc = "ok" /\ call[g].pc # "ok"
      BY <1>5, <2>2 DEF Replaced, At
    <3>2. CallStep(g)
      BY <1>0, <3>1, CallOthers
    <3>3. CallReplace(g)
      BY <1>0, <3>1, <3>2, ReplaceAnswers
    <3>4. ~Answer(g, "err")
      BY <1>0, <3>1 DEF Answer, TypeOK
    <3>5. /\ partial[t] # "none" /\ dest' = [dest EXCEPT ![t] = Placed(t)]
          /\ partial' = [partial EXCEPT ![t] = "none"]
      BY <3>3, <3>4 DEF CallReplace
    <3>6. partial[t] = "full"
      BY <1>0, <1>1, <3>1, <3>5 DEF Replacing, At, TypeOK
    <3> QED
      BY <1>0, <3>5, <3>6 DEF Placed, TypeOK
  <2> QED
    BY <2>1, <2>2
<1>6. ASSUME At(g, "judge")' PROVE Active(t)'
  <2>1. At(g, "judge") /\ Live(g)
    BY <1>6 DEF At, Live, Settled
  <2> QED
    BY <1>0, <1>1, <2>1, ActiveKept
<1> QED
  BY <1>4, <1>5, <1>6

LEMMA StagesStep == FilesInv /\ [Next]_vars => Stages'
<1> SUFFICES ASSUME FilesInv, [Next]_vars, NEW g \in Gens,
                    NEW t, t = run'[g].task, t \notin excused'
             PROVE  /\ Replacing(g)' => partial'[t] # "part"
                    /\ Replaced(g)' => dest'[t] = "new" /\ partial'[t] = "none"
                    /\ At(g, "judge")' => Active(t)'
  BY DEF Stages
<1>0. TypeOK /\ StatusInv
  BY DEF FilesInv, StatusInv
<1>1. CASE run'[g].pc \notin {"commit", "replacing", "finish", "judge"}
  BY <1>1 DEF Replacing, Replaced, At
<1>2. CASE Restart
  <2>1. run'[g].pc = "idle"
    BY <1>2 DEF Restart, NoRun
  <2> QED
    BY <1>1, <2>1
<1>3. CASE RunStep(g)
  <2>1. UNCHANGED excused
    BY <1>3 DEF RunStep, RunRead, RunBegin, RunClear, RunPlan, RunSend,
                RunAnswer, RunCheck, RunVerify, RunCommit, RunFinish, RunError,
                RunFail, RunJudge, RunRemove
  <2>2. t = run[g].task /\ t \in Tasks
    BY <1>0, <1>3, RunSettles DEF OnlySettles, TypeOK, RunRecord
  <2> QED
    BY <1>3, <2>1, <2>2, OwnStages
<1>4. CASE /\ ~Restart /\ ~RunStep(g)
           /\ run'[g].pc \in {"commit", "replacing", "finish", "judge"}
  <2>1. run'[g].pc = run[g].pc /\ run'[g].task = run[g].task
    BY <1>0, <1>4, Bystander
  <2>2. t = run[g].task /\ t \in Tasks /\ Live(g)
    BY <1>0, <1>4, <2>1 DEF TypeOK, RunRecord, Live, Settled
  <2>3. t \notin excused
    BY <1>0, <2>2, AbsolvedIdle
  <2> QED
    BY <1>4, <2>1, <2>2, <2>3, OtherStages
<1> QED
  BY <1>1, <1>2, <1>3, <1>4

LEMMA FilesCorrect == Spec => []FilesInv
<1>1. Init => ListsTrue /\ CallFits /\ Stages /\ OpHolds
  <2> SUFFICES ASSUME Init
               PROVE  ListsTrue /\ CallFits /\ Stages /\ OpHolds
    OBVIOUS
  <2>1. \A t \in Tasks : /\ task[t].status = "absent" /\ journal[t].status = "absent"
                          /\ partial[t] = "none"
    BY DEF Init, NoTask
  <2>2. ListsTrue
    BY <2>1 DEF ListsTrue, Sound, Follows, ActiveStatus
  <2>3. \A g \in Gens : run[g].pc = "idle"
    BY DEF Init, NoRun
  <2>4. CallFits /\ Stages
    BY <2>3 DEF CallFits, Stages, Replacing, Replaced, At
  <2>5. op.todo = {} /\ op.cur = {}
    BY DEF Init, NoOp
  <2>6. OpHolds
    BY <2>5 DEF OpHolds
  <2> QED
    BY <2>2, <2>4, <2>6
<1>2. FilesInv /\ [Next]_vars => ListsTrue' /\ CallFits' /\ Stages' /\ OpHolds'
  <2> SUFFICES ASSUME FilesInv, [Next]_vars
               PROVE  ListsTrue' /\ CallFits' /\ Stages' /\ OpHolds'
    OBVIOUS
  <2>1. TypeOK /\ TypeOK' /\ CallFits
    BY NextTypeOK DEF FilesInv, StatusInv
  <2> QED
    BY <2>1, ListsStep, CallFitsStep, StagesStep
<1> QED
  BY <1>1, <1>2, StatusCorrect, PTL DEF Spec, FilesInv

\* What a task says of its files is true of them, and of what a restart would
\* load: done means that the complete file is in place, and a discarded task
\* has no checkpoint left unless it says that one is due to be removed.
THEOREM FilesAreTracked == Spec => []FilesTracked
<1>1. FilesInv => FilesTracked
  BY DEF FilesInv, ListsTrue, Sound, FilesTracked, DoneMeansCommitted,
         DiscardTracked
<1> QED
  BY <1>1, FilesCorrect, PTL

-----------------------------------------------------------------------------
(***************************************************************************)
(* The checkpoints.  A run clears the artifacts of an earlier one, which   *)
(* must not be a checkpoint: the run of a task that was just created finds *)
(* none, and that of a task that was resumed is told to keep it.           *)
(***************************************************************************)

Clearing ==
    \A g \in Gens : Live(g) =>
        /\ ~task[run[g].task].cleanup
        /\ run[g].task \notin excused /\ partial[run[g].task] # "none" =>
               /\ At(g, "read") => task[run[g].task].asked
               /\ run[g].pc \in {"begin", "clear"} => run[g].resume

RetryDue == op.kind = "retry" => \A t \in op.todo : task[t].cleanup

KeptInv == FilesInv /\ Clearing /\ RetryDue

\* Runs and calls never change what a task has to clean up.
LEMMA CleanupKept ==
    ASSUME TypeOK, NEW g \in Gens, RunStep(g) \/ CallStep(g), NEW u \in Tasks
    PROVE  task'[u].cleanup = task[u].cleanup
<1>t. PICK t \in Tasks, r \in TaskRecord : t = run[g].task /\ r = task[t]
  BY DEF TypeOK, RunRecord
<1>1. CASE UNCHANGED task
  BY <1>1
<1>2. ASSUME NEW p, task' = Patched(t, p), p.cleanup = r.cleanup
      PROVE  task'[u].cleanup = task[u].cleanup
  BY <1>t, <1>2, PatchEffect
<1>3. ASSUME NEW status, NEW next, RunSave(g, Moved(t, status), next)
      PROVE  task'[u].cleanup = task[u].cleanup
  <2> DEFINE p == [r EXCEPT !.status = status, !.asked = FALSE]
  <2>1. task' = Patched(t, p) /\ p.cleanup = r.cleanup
    BY <1>t, <1>3, SaveEffect, PatchedRecord DEF RunSave, Moved
  <2> HIDE DEF p
  <2> QED
    BY <1>2, <2>1
<1>4. CASE RunBegin(g) \/ RunCheck(g) \/ RunVerify(g)
  BY <1>t, <1>1, <1>3, <1>4 DEF RunBegin, RunCheck, RunVerify
<1>5. CASE RunPlan(g)
  <2> DEFINE p == [r EXCEPT !.resumable = TRUE, !.asked = FALSE]
  <2>1. task' = Patched(t, p) /\ p.cleanup = r.cleanup
    BY <1>t, <1>5, SaveEffect, PatchedRecord DEF RunPlan, RunSave
  <2> HIDE DEF p
  <2> QED
    BY <1>2, <2>1
<1>6. ASSUME NEW status, NEW b,
             task' = Patched(t, [r EXCEPT !.status = status, !.resumable = b,
                                          !.asked = FALSE])
      PROVE  task'[u].cleanup = task[u].cleanup
  <2> DEFINE p == [r EXCEPT !.status = status, !.resumable = b, !.asked = FALSE]
  <2>1. task' = Patched(t, p) /\ p.cleanup = r.cleanup
    BY <1>6, PatchedRecord
  <2> HIDE DEF p
  <2> QED
    BY <1>2, <2>1
<1>7. CASE RunFinish(g)
  <2>1. task' = Patched(t, [r EXCEPT !.status = "done", !.resumable = FALSE,
                                     !.asked = FALSE])
    BY <1>t, <1>7, SaveEffect DEF RunFinish, RunSave
  <2> QED
    BY <1>6, <2>1
<1>8. CASE RunJudge(g)
  <2>1. \E found \in BOOLEAN :
          task' = Patched(t, [r EXCEPT
                    !.status = IF found THEN "paused" ELSE "failed",
                    !.resumable = found, !.asked = FALSE])
    BY <1>t, <1>8, SaveEffect DEF RunJudge
  <2> QED
    BY <1>6, <2>1
<1>9. CASE CallReport(g)
  <2>1. \/ UNCHANGED task
        \/ task' = Patched(t, [r EXCEPT !.status = "running",
                                        !.resumable = TRUE, !.asked = FALSE])
    BY <1>t, <1>9 DEF CallReport, Progressed
  <2> QED
    BY <1>1, <1>6, <2>1
<1> QED
  BY <1>1, <1>4, <1>5, <1>7, <1>8, <1>9
     DEF RunStep, RunRead, RunClear, RunSend, RunAnswer, RunCommit, RunError,
         RunFail, RunRemove, CallStep, CallOpen, CallChunk, CallEof, CallStop,
         CallReplace

\* What others do to the task of a live run: never leave it something to clean
\* up, and nothing at all while it begins.
LEMMA LiveTask ==
    ASSUME KeptInv, [Next]_vars, ~Restart, NEW g \in Gens, Live(g),
           NEW t \in Tasks, t = run[g].task
    PROVE  /\ ~task'[t].cleanup
           /\ /\ run[g].pc \in {"read", "begin", "clear"}
              /\ ~RunStep(g) /\ t \notin excused'
              => task'[t] = task[t]
<1>0. TypeOK /\ StatusInv /\ ~task[t].cleanup
  BY DEF KeptInv, FilesInv, StatusInv, Clearing
<1>1. CASE task'[t] = task[t]
  BY <1>0, <1>1
<1>2. ASSUME NEW u \in Tasks, u # t, NEW p, task' = Patched(u, p)
      PROVE  task'[t] = task[t]
  BY <1>0, <1>2, PatchEffect
<1>3. CASE UserStep
  <2>1. ASSUME NEW u \in Tasks, u = t, Create(u)
        PROVE  ~task'[t].cleanup /\ t \in excused'
    <3>1. handle[t] # 0
      BY <1>0 DEF StatusInv, RunsReachable, Gens
    <3>2. SaveFails(Patched(t, NewTask)) /\ Excuse({t})
      BY <2>1, <3>1 DEF Create, Start, CanStart
    <3>3. task'[t] = NewTask
      BY <1>0, <3>2, PatchEffect DEF SaveFails
    <3> QED
      BY <3>2, <3>3 DEF NewTask, Excuse
  <2>2. ASSUME NEW u \in Tasks, Resume(u) PROVE u # t
    BY <1>0, <2>2 DEF StatusInv, RunsReachable, Gens, Resume, ResumeAllowed
  <2>3. ASSUME NEW u \in Tasks, u = t, Clear(u)
        PROVE  ~task'[t].cleanup /\ run[g].pc \notin {"read", "begin", "clear"}
    <3> DEFINE p == [NoTask EXCEPT !.status = "cleared"]
    <3>1. ~p.cleanup
      BY DEF NoTask
    <3>2. task' = Patched(t, p)
      BY <2>3, SaveEffect DEF Clear
    <3> HIDE DEF p
    <3>3. task'[t] = p
      BY <1>0, <3>2, PatchEffect
    <3>4. ~Working(g)
      BY <1>0, <2>3 DEF Clear, Clearable, StatusInv, WorkingActive, Active,
                        Terminal, ActiveStatus, TerminalStatus
    <3> QED
      BY <3>1, <3>3, <3>4 DEF Working
  <2>4. ASSUME NEW u \in Tasks, Create(u) \/ Resume(u) \/ Clear(u)
        PROVE  \E p : task' = Patched(u, p)
    BY <2>4, SaveEffect DEF Create, Resume, Clear
  <2>5. UNCHANGED task \/ \E u \in Tasks : Create(u) \/ Resume(u) \/ Clear(u)
    BY <1>3 DEF UserStep, Pause, PauseForTab, Discard, ForceDiscard, Shutdown,
                RetryOnConnect, BeginOp
  <2> QED
    BY <1>0, <1>1, <1>2, <2>1, <2>2, <2>3, <2>4, <2>5
<1>4. CASE OpStep
  <2>1. op.pc \in {"apply", "clean"} => t \notin op.cur
    BY <1>0 DEF StatusInv, QuiescentApply
  <2>2. ASSUME NEW u \in Tasks, ApplyPause(u) \/ ApplyDiscard(u) \/ CleanDiscard(u)
        PROVE  task'[t] = task[t]
    <3>1. u # t
      BY <2>1, <2>2 DEF ApplyPause, ApplyDiscard, CleanDiscard
    <3>2. UNCHANGED task \/ \E p : task' = Patched(u, p)
      BY <2>2, SaveEffect DEF ApplyPause, ApplyDiscard, CleanDiscard, Moved
    <3> QED
      BY <1>2, <3>1, <3>2
  <2>3. ASSUME NEW u \in Tasks, CleanRetry(u) PROVE task'[t] = task[t]
    <3>1. u # t
      BY <1>0, <2>3 DEF CleanRetry, KeptInv, RetryDue
    <3>2. \E p : task' = Patched(u, p)
      BY <2>3, SaveEffect DEF CleanRetry
    <3> QED
      BY <1>2, <3>1, <3>2
  <2>4. CASE ApplyShutdown
    <3>1. t \notin Interruptible
      BY <2>1, <2>4 DEF ApplyShutdown, Interruptible
    <3> QED
      BY <1>1, <2>4, <3>1, SaveEffect DEF ApplyShutdown
  <2> QED
    BY <1>1, <1>4, <2>2, <2>3, <2>4 DEF OpStep, StopNext, StopDone, StopTimeout
<1>5. ASSUME NEW h \in Gens, RunStep(h), h # g PROVE task'[t] = task[t]
  <2>1. CASE run[h].task = t
    <3>1. ~Live(h)
      BY <1>0, <1>5, <2>1, OnlyRun DEF StatusInv
    <3>2. RunRemove(h)
      BY <1>5, <3>1
         DEF RunStep, RunRead, RunBegin, RunClear, RunPlan, RunSend, RunAnswer,
             RunCheck, RunVerify, RunCommit, RunFinish, RunError, RunFail,
             RunJudge, At, Live, Settled
    <3> QED
      BY <3>2 DEF RunRemove
  <2>2. CASE run[h].task # t
    <3>1. UNCHANGED task \/ \E p : task' = Patched(run[h].task, p)
      BY <1>5, SaveEffect
         DEF RunStep, RunRead, RunBegin, RunClear, RunPlan, RunSend, RunAnswer,
             RunCheck, RunVerify, RunCommit, RunFinish, RunError, RunFail,
             RunJudge, RunRemove, RunSave, Moved
    <3>2. run[h].task \in Tasks
      BY <1>0 DEF TypeOK, RunRecord
    <3> QED
      BY <1>2, <2>2, <3>1, <3>2
  <2> QED
    BY <2>1, <2>2
<1>6. ASSUME NEW h \in Gens, CallStep(h), task'[t] # task[t]
      PROVE  t \in excused' \/ run[g].pc \notin {"read", "begin", "clear"}
  <2>1. CallReport(h)
    BY <1>6 DEF CallStep, CallOpen, CallChunk, CallEof, CallStop, CallReplace
  <2>2. run[h].task = t
    <3>1. run[h].task \in Tasks /\ (task' = Progressed(run[h].task))
      BY <1>0, <1>6, <2>1 DEF CallReport, TypeOK, RunRecord
    <3>2. \E p : task' = Patched(run[h].task, p)
      BY <3>1 DEF Progressed
    <3> QED
      BY <1>2, <1>6, <3>1, <3>2
  <2>3. CASE Abandoned(h)
    BY <1>6, <2>1, <2>2, <2>3 DEF CallReport, Excuse
  <2>4. CASE ~Abandoned(h)
    <3>1. Live(h)
      BY <2>4 DEF Abandoned, Live, Settled
    <3>2. h = g
      BY <1>0, <2>2, <3>1, OnlyRun DEF StatusInv
    <3> QED
      BY <2>4, <3>2 DEF Abandoned
  <2> QED
    BY <2>3, <2>4
<1>7. CASE EnvStep
  BY <1>1, <1>7 DEF EnvStep, SessionLost, SessionBack, Vanish
<1>8. CASE UNCHANGED vars
  BY <1>1, <1>8 DEF vars
<1>9. ASSUME NEW h \in Gens, RunStep(h) \/ CallStep(h) PROVE ~task'[t].cleanup
  BY <1>0, <1>9, CleanupKept
<1> QED
  BY <1>1, <1>3, <1>4, <1>5, <1>6, <1>7, <1>8, <1>9 DEF Next

\* What a run passes on as it begins.
LEMMA BeginStep ==
    ASSUME TypeOK, NEW g \in Gens, RunStep(g), Live(g)',
           run'[g].pc \in {"read", "begin", "clear"}
    PROVE  /\ UNCHANGED partial
           /\ \/ /\ At(g, "read") /\ run'[g].pc = "begin"
                 /\ run'[g].resume = task[run[g].task].asked
              \/ /\ At(g, "begin") /\ run'[g].pc = "clear"
                 /\ run'[g].resume = run[g].resume
<1> DEFINE begun == [run[g] EXCEPT !.pc = "begin",
                                   !.resume = task[run[g].task].asked]
           planning == [run[g] EXCEPT !.pc = "plan", !.resume = FALSE]
           gone == [run[g] EXCEPT !.pc = "gone", !.cancel = FALSE,
                                  !.resume = FALSE]
<1>1. /\ begun.pc = "begin" /\ begun.resume = task[run[g].task].asked
      /\ planning.pc = "plan" /\ gone.pc = "gone"
  BY DEF TypeOK, RunRecord
<1>2. ASSUME NEW pc, Goto(g, pc)
      PROVE  run'[g].pc = pc /\ run'[g].resume = run[g].resume
  BY <1>2 DEF Goto, TypeOK, RunRecord
<1>3. CASE RunRead(g)
  <2>1. /\ UNCHANGED partial /\ At(g, "read")
        /\ \/ Goto(g, "settled") \/ Goto(g, "fail")
           \/ run' = [run EXCEPT ![g] = begun]
    BY <1>3 DEF RunRead
  <2> HIDE DEF begun
  <2>2. run' = [run EXCEPT ![g] = begun] => run'[g] = begun
    BY DEF TypeOK
  <2> QED
    BY <1>1, <1>2, <2>1, <2>2
<1>4. CASE RunClear(g) \/ RunRemove(g)
  <2>1. \/ run' = [run EXCEPT ![g] = planning]
        \/ run' = [run EXCEPT ![g] = gone]
    BY <1>4 DEF RunClear, RunRemove
  <2> HIDE DEF planning, gone
  <2> QED
    BY <1>1, <2>1 DEF TypeOK
<1>5. CASE RunBegin(g)
  <2>1. UNCHANGED partial /\ At(g, "begin")
    BY <1>5 DEF RunBegin
  <2>2. Goto(g, "settled") \/ Goto(g, "clear") \/ Goto(g, "fail")
    BY <1>5 DEF RunBegin, RunSave
  <2> QED
    BY <1>2, <2>1, <2>2
<1>6. CASE RunPlan(g) \/ RunSend(g) \/ RunAnswer(g) \/ RunCheck(g) \/ RunVerify(g)
           \/ RunCommit(g) \/ RunFinish(g) \/ RunError(g) \/ RunFail(g)
           \/ RunJudge(g)
  BY <1>2, <1>6
     DEF RunPlan, RunSend, RunAnswer, Answered, TimedOut, RunCheck, RunVerify,
         RunCommit, RunFinish, RunError, RunFail, AfterFailure, RunJudge, RunSave
<1> QED
  BY <1>3, <1>4, <1>5, <1>6 DEF RunStep

\* A run that takes no step of its own keeps what it was told, or is started,
\* for a task that was created or is to be resumed.
LEMMA Told ==
    ASSUME FilesInv, [Next]_vars, ~Restart, NEW g \in Gens, ~RunStep(g), Live(g)'
    PROVE  \/ /\ run'[g].pc = run[g].pc /\ run'[g].task = run[g].task
              /\ run'[g].resume = run[g].resume
           \/ /\ run'[g].pc = "read" /\ ~task'[run'[g].task].cleanup
              /\ UNCHANGED partial
              /\ run'[g].task \notin excused' =>
                     \/ task'[run'[g].task].asked
                     \/ partial[run'[g].task] = "none"
<1>0. TypeOK /\ StatusInv /\ ListsTrue
  BY DEF FilesInv, StatusInv
<1>1. CASE run'[g] = run[g]
  BY <1>1
<1>2. ASSUME NEW gs, CancelRuns(gs)
      PROVE  /\ run'[g].pc = run[g].pc /\ run'[g].task = run[g].task
             /\ run'[g].resume = run[g].resume
  BY <1>0, <1>2 DEF CancelRuns, TypeOK, RunRecord
<1>3. ASSUME NEW t \in Tasks, Start(t), run'[g] # run[g]
      PROVE  run'[g].pc = "read" /\ run'[g].task = t
  BY <1>0, <1>3 DEF Start, TypeOK
<1>4. ASSUME NEW t \in Tasks, Create(t), run'[g] # run[g]
      PROVE  /\ run'[g].pc = "read" /\ ~task'[run'[g].task].cleanup
             /\ UNCHANGED partial
             /\ run'[g].task \notin excused' => partial[run'[g].task] = "none"
  <2>1. /\ Start(t) /\ UNCHANGED <<partial, excused>>
        /\ task' = Patched(t, NewTask) /\ task[t].status = "absent"
    BY <1>4, SaveEffect DEF Create
  <2>2. task'[t] = NewTask
    BY <1>0, <2>1, PatchEffect
  <2>3. t \notin excused => partial[t] = "none"
    BY <1>0, <2>1 DEF ListsTrue, Sound
  <2> QED
    BY <1>3, <1>4, <2>1, <2>2, <2>3 DEF NewTask
<1>5. ASSUME NEW t \in Tasks, Resume(t), run'[g] # run[g]
      PROVE  /\ run'[g].pc = "read" /\ ~task'[run'[g].task].cleanup
             /\ UNCHANGED partial /\ task'[run'[g].task].asked
  <2>0. PICK r \in TaskRecord : r = task[t]
    BY <1>0 DEF TypeOK
  <2> DEFINE p == [r EXCEPT !.status = "queued", !.asked = TRUE]
  <2>1. Start(t) /\ UNCHANGED partial /\ task' = Patched(t, p) /\ ~r.cleanup
    BY <1>5, <2>0, SaveEffect DEF Resume, ResumeAllowed
  <2>2. p.asked /\ ~p.cleanup
    BY <2>1 DEF TaskRecord
  <2> HIDE DEF p
  <2>3. task'[t] = p
    BY <1>0, <2>1, PatchEffect
  <2> QED
    BY <1>3, <1>5, <2>1, <2>2, <2>3
<1>6. CASE UserStep
  BY <1>1, <1>2, <1>4, <1>5, <1>6
     DEF UserStep, Pause, PauseForTab, Discard, ForceDiscard, Clear, Shutdown,
         RetryOnConnect, BeginOp
<1>7. CASE OpStep
  BY <1>1, <1>2, <1>7
     DEF OpStep, StopNext, ApplyPause, ApplyDiscard, CleanDiscard, CleanRetry,
         StopDone, StopTimeout, ApplyShutdown
<1>8. ASSUME NEW h \in Gens, RunStep(h) PROVE run'[g] = run[g]
  BY <1>0, <1>8, OtherRun
<1>9. ASSUME NEW h \in Gens, CallStep(h) PROVE run'[g] = run[g]
  BY <1>9 DEF CallStep, CallOpen, CallReport, CallChunk, CallEof, CallStop,
              CallReplace
<1>10. CASE EnvStep
  BY <1>1, <1>10 DEF EnvStep, SessionLost, SessionBack, Vanish
<1>11. CASE UNCHANGED vars
  BY <1>1, <1>11 DEF vars
<1> QED
  BY <1>1, <1>6, <1>7, <1>8, <1>9, <1>10, <1>11 DEF Next

LEMMA ClearingStep == KeptInv /\ [Next]_vars => Clearing'
<1> SUFFICES ASSUME KeptInv, [Next]_vars, NEW g \in Gens, Live(g)',
                    NEW t, t = run'[g].task
             PROVE  /\ ~task'[t].cleanup
                    /\ t \notin excused' /\ partial'[t] # "none" =>
                         /\ run'[g].pc = "read" => task'[t].asked
                         /\ run'[g].pc \in {"begin", "clear"} => run'[g].resume
  BY DEF Clearing, At
<1>0. TypeOK /\ CallFits /\ StatusInv /\ FilesInv /\ FileStep
  BY FilesStep DEF KeptInv, FilesInv, StatusInv
<1>1. ~Restart
  BY DEF Restart, NoRun, Live, Settled
<1>2. CASE RunStep(g)
  <2>1. Live(g) /\ t = run[g].task /\ t \in Tasks
    BY <1>0, <1>2, RunSettles DEF OnlySettles, TypeOK, RunRecord
  <2>2. ~task'[t].cleanup
    BY <1>1, <2>1, LiveTask
  <2>3. UNCHANGED excused
    BY <1>2 DEF RunStep, RunRead, RunBegin, RunClear, RunPlan, RunSend,
                RunAnswer, RunCheck, RunVerify, RunCommit, RunFinish, RunError,
                RunFail, RunJudge, RunRemove
  <2>4. t \notin excused /\ partial[t] # "none" =>
            /\ At(g, "read") => task[t].asked
            /\ At(g, "begin") => run[g].resume
    BY <2>1 DEF KeptInv, Clearing, At
  <2> QED
    BY <1>0, <1>2, <2>1, <2>2, <2>3, <2>4, BeginStep
<1>3. CASE ~RunStep(g)
  <2>1. CASE /\ run'[g].pc = "read" /\ ~task'[t].cleanup /\ UNCHANGED partial
             /\ t \notin excused' => task'[t].asked \/ partial[t] = "none"
    BY <2>1
  <2>2. CASE /\ run'[g].pc = run[g].pc /\ run'[g].task = run[g].task
             /\ run'[g].resume = run[g].resume
    <3>1. Live(g) /\ t = run[g].task /\ t \in Tasks
      BY <1>0, <2>2 DEF Live, Settled, TypeOK, RunRecord
    <3>2. /\ ~task'[t].cleanup
          /\ run[g].pc \in {"read", "begin", "clear"} /\ t \notin excused' =>
                 task'[t] = task[t]
      BY <1>1, <1>3, <3>1, LiveTask
    <3>3. t \notin excused' => t \notin excused
      BY <1>0, <3>1, AbsolvedIdle
    <3>4. run[g].pc \in {"read", "begin", "clear"} /\ t \notin excused' =>
              partial'[t] = "none" \/ partial[t] # "none"
      <4>1. ASSUME NEW h \in Gens, run[h].task = t, At(h, "wait"),
                   run[g].pc \in {"read", "begin", "clear"}
            PROVE  FALSE
        <5>1. Live(h) /\ h # g
          BY <4>1 DEF Live, Settled, At
        <5> QED
          BY <1>0, <3>1, <4>1, <5>1, OnlyRun DEF StatusInv
      <4> QED
        BY <1>0, <3>1, <4>1 DEF FileStep
    <3>5. t \notin excused /\ partial[t] # "none" =>
            /\ At(g, "read") => task[t].asked
            /\ run[g].pc \in {"begin", "clear"} => run[g].resume
      BY <3>1 DEF KeptInv, Clearing
    <3> QED
      BY <2>2, <3>2, <3>3, <3>4, <3>5 DEF At
  <2> QED
    BY <1>0, <1>1, <1>3, <2>1, <2>2, Told
<1> QED
  BY <1>2, <1>3

LEMMA RetryDueStep == KeptInv /\ [Next]_vars => RetryDue'
<1> SUFFICES ASSUME KeptInv, [Next]_vars, op'.kind = "retry",
                    NEW t \in op'.todo
             PROVE  task'[t].cleanup
  BY DEF RetryDue
<1>0. TypeOK /\ op \in OpRecord
  BY DEF KeptInv, FilesInv, StatusInv, TypeOK
<1>1. op' # NoOp
  BY DEF NoOp
<1>2. CASE op'.kind = op.kind /\ op'.todo = op.todo /\ UNCHANGED task
  BY <1>2 DEF KeptInv, RetryDue
<1>3. ASSUME NEW kind, NEW ts, BeginOp(kind, ts), kind = "retry" =>
             \A u \in ts : task[u].cleanup
      PROVE  task'[t].cleanup
  <2>1. op'.kind = kind /\ op'.todo = ts /\ UNCHANGED task
    BY <1>3 DEF BeginOp, NoOp
  <2> QED
    BY <1>3, <2>1
<1>4. CASE UserStep
  <2>1. Shutdown => op'.kind = "shutdown"
    BY DEF Shutdown
  <2> QED
    BY <1>1, <1>3, <1>4, <2>1
       DEF UserStep, Create, Resume, Clear, Free, Pause, PauseForTab, Discard,
           ForceDiscard, RetryOnConnect
<1>5. CASE OpStep
  <2>1. ASSUME NEW u \in Tasks, StopNext(u) PROVE FALSE
    BY <1>0, <2>1 DEF StopNext, OpRecord
  <2>2. ASSUME NEW u \in Tasks, ApplyDiscard(u) \/ CleanDiscard(u) PROVE FALSE
    BY <1>0, <1>1, <2>2 DEF ApplyDiscard, CleanDiscard, OpRecord
  <2>3. ASSUME NEW u \in Tasks, Proceed(u)
        PROVE  op'.kind = op.kind /\ op'.todo = op.todo \ {u}
    BY <1>1, <2>3 DEF Proceed, NoOp
  <2>4. ASSUME NEW u \in Tasks, ApplyPause(u) PROVE FALSE
    BY <1>1, <2>3, <2>4 DEF ApplyPause
  <2>5. ASSUME NEW u \in Tasks, CleanRetry(u) PROVE task'[t].cleanup
    <3>1. Proceed(u) /\ op.kind = "retry"
      BY <1>1, <2>5 DEF CleanRetry
    <3>2. t # u /\ t \in op.todo /\ t \in Tasks
      BY <1>0, <2>3, <3>1 DEF OpRecord
    <3>3. \E p : task' = Patched(u, p)
      BY <2>5, SaveEffect DEF CleanRetry
    <3>4. task'[t] = task[t]
      BY <1>0, <3>2, <3>3, PatchEffect
    <3> QED
      BY <3>1, <3>2, <3>4 DEF KeptInv, RetryDue
  <2>6. CASE StopDone
    <3>1. op'.kind = op.kind /\ op'.todo = op.todo /\ UNCHANGED task
      BY <1>0, <2>6 DEF StopDone, OpRecord
    <3> QED
      BY <1>2, <3>1
  <2> QED
    BY <1>1, <1>5, <2>1, <2>2, <2>4, <2>5, <2>6
       DEF OpStep, StopTimeout, ApplyShutdown
<1>6. ASSUME NEW g \in Gens, RunStep(g) \/ CallStep(g) PROVE task'[t].cleanup
  <2>1. UNCHANGED op
    BY <1>6, OtherOps
  <2>2. t \in op.todo /\ t \in Tasks /\ op.kind = "retry"
    BY <1>0, <2>1 DEF OpRecord
  <2> QED
    BY <1>0, <1>6, <2>2, CleanupKept DEF KeptInv, RetryDue
<1>7. CASE Restart
  <2> DEFINE due == {u \in Tasks \ Uploads : journal[u].cleanup}
  <2>1. op' = [NoOp EXCEPT !.kind = "retry", !.todo = due] /\ task' = journal
    BY <1>1, <1>7 DEF Restart
  <2>2. \A u \in due : journal[u].cleanup
    OBVIOUS
  <2> HIDE DEF due
  <2>3. op'.todo = due
    BY <2>1 DEF NoOp
  <2> QED
    BY <2>1, <2>2, <2>3
<1>8. CASE SessionLost \/ SessionBack \/ \E u \in Tasks : Vanish(u)
  BY <1>2, <1>8 DEF SessionLost, SessionBack, Vanish
<1>9. CASE UNCHANGED vars
  BY <1>2, <1>9 DEF vars
<1> QED
  BY <1>4, <1>5, <1>6, <1>7, <1>8, <1>9 DEF Next, EnvStep

LEMMA KeptCorrect == Spec => []KeptInv
<1>1. Init => Clearing /\ RetryDue
  <2> SUFFICES ASSUME Init PROVE Clearing /\ RetryDue
    OBVIOUS
  <2>1. \A g \in Gens : ~Live(g)
    BY DEF Init, NoRun, Live, Settled
  <2>2. op.kind = "none"
    BY DEF Init, NoOp
  <2> QED
    BY <2>1, <2>2 DEF Clearing, RetryDue
<1>2. KeptInv /\ [Next]_vars => Clearing' /\ RetryDue'
  BY ClearingStep, RetryDueStep
<1> QED
  BY <1>1, <1>2, FilesCorrect, PTL DEF Spec, KeptInv

\* A checkpoint of a task disappears only by a discard or a cleanup that is due,
\* by taking the place of the destination, or by somebody else's hand: no run
\* removes the one it was asked to go on from.
THEOREM Kept == Spec => CheckpointKept
<1>1. ASSUME KeptInv, [Next]_vars, NEW t \in Tasks, t \notin excused,
             partial[t] # "none", partial'[t] = "none"
      PROVE  \/ op.kind \in {"discard", "force", "retry"}
             \/ \E g \in Gens : run[g].task = t
                   /\ (run[g].pc = "commit" \/ call[g].pc = "replace")
             \/ Vanish(t)
  <2>0. TypeOK
    BY <1>1 DEF KeptInv, FilesInv, StatusInv
  <2>1. ~UNCHANGED partial
    BY <1>1
  <2>2. ASSUME NEW u \in Tasks, CleanDiscard(u) \/ CleanRetry(u)
        PROVE  op.kind \in {"discard", "force", "retry"}
    BY <2>2 DEF CleanDiscard, CleanRetry
  <2>3. ASSUME NEW g \in Gens, RunClear(g) PROVE FALSE
    <3>1. run[g].task = t /\ ~run[g].resume
      BY <1>1, <2>0, <2>3 DEF RunClear, TypeOK
    <3>2. Live(g) /\ At(g, "clear")
      BY <2>3 DEF RunClear, Live, Settled, At
    <3> QED
      BY <1>1, <3>1, <3>2 DEF KeptInv, Clearing, At
  <2>4. ASSUME NEW g \in Gens, RunCommit(g)
        PROVE  run[g].task = t /\ run[g].pc = "commit"
    BY <1>1, <2>0, <2>4 DEF RunCommit, At, TypeOK
  <2>5. ASSUME NEW g \in Gens, CallOpen(g) \/ CallChunk(g) PROVE FALSE
    BY <1>1, <2>0, <2>5 DEF CallOpen, CallChunk, TypeOK
  <2>6. ASSUME NEW g \in Gens, CallReplace(g)
        PROVE  run[g].task = t /\ call[g].pc = "replace"
    BY <1>1, <2>0, <2>6 DEF CallReplace, TypeOK
  <2>7. ASSUME NEW u \in Tasks, Vanish(u) PROVE Vanish(t)
    BY <1>1, <2>0, <2>7 DEF Vanish, TypeOK
  <2>8. CASE UserStep
    BY <2>1, <2>8
       DEF UserStep, Create, Resume, Pause, PauseForTab, Discard, ForceDiscard,
           Clear, Shutdown, RetryOnConnect, BeginOp
  <2>9. CASE OpStep
    BY <2>1, <2>2, <2>9
       DEF OpStep, StopNext, ApplyPause, ApplyDiscard, StopDone, StopTimeout,
           ApplyShutdown
  <2>10. ASSUME NEW g \in Gens, RunStep(g)
         PROVE  run[g].task = t /\ run[g].pc = "commit"
    BY <2>1, <2>3, <2>4, <2>10
       DEF RunStep, RunRead, RunBegin, RunPlan, RunSend, RunAnswer, RunCheck,
           RunVerify, RunFinish, RunError, RunFail, RunJudge, RunRemove
  <2>11. ASSUME NEW g \in Gens, CallStep(g)
         PROVE  run[g].task = t /\ call[g].pc = "replace"
    BY <2>1, <2>5, <2>6, <2>11 DEF CallStep, CallReport, CallEof, CallStop
  <2>12. CASE EnvStep
    BY <2>1, <2>7, <2>12 DEF EnvStep, SessionLost, SessionBack, Restart
  <2>13. CASE UNCHANGED vars
    BY <2>1, <2>13 DEF vars
  <2> QED
    BY <1>1, <2>8, <2>9, <2>10, <2>11, <2>12, <2>13 DEF Next
<1>2. KeptInv /\ [Next]_vars =>
        [\A t \in Tasks \ excused : partial[t] # "none" /\ partial'[t] = "none" =>
             \/ op.kind \in {"discard", "force", "retry"}
             \/ \E g \in Gens : run[g].task = t
                   /\ (run[g].pc = "commit" \/ call[g].pc = "replace")
             \/ Vanish(t)]_vars
  BY <1>1
<1> QED
  BY <1>2, KeptCorrect, PTL DEF Spec, CheckpointKept
===============================================================================
