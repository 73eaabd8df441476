-------------------------- MODULE BackgroundCommands --------------------------
(***************************************************************************)
(* The registry of background remote commands (services/mcp/background.rs) *)
(* and the requests of the bridge that use it.  A command is started once  *)
(* on an exec channel of its own; a task collects its output until it      *)
(* ends, times out or is stopped, while clients read pages of the output,  *)
(* waiting for more, and terminate or close it.                            *)
(*                                                                         *)
(* Output is counted, not kept: a chunk is one unit, the cap is OutputCap. *)
(***************************************************************************)
EXTENDS Naturals, FiniteSets

CONSTANTS
    Commands,       \* command ids of the tab
    Readers,        \* requests that read a command's output
    Stoppers,       \* requests that terminate or close a command
    TabLimit,       \* MAX_ACTIVE_BACKGROUND_REMOTE_COMMANDS_PER_TAB
    TotalLimit,     \* MAX_BACKGROUND_REMOTE_COMMANDS
    OutputCap,      \* BACKGROUND_REMOTE_COMMAND_OUTPUT_CAP
    MaxChunks,      \* bound: chunks the remote command writes
    None

VARIABLES
    phase,      \* each command's task
    exited,     \* commands whose exit status or signal arrived
    chunks,     \* chunks of output received
    output,     \* chunks kept
    result,     \* how a finished command ended
    registry,   \* commands: the ids the map holds
    expired,    \* finished commands past the retention
    stop,       \* commands whose cancellation token is cancelled
    lifetime,   \* the connection's token is cancelled
    reader,     \* each read request: where it is, its command and offset
    stopper     \* each terminate or close request
vars == <<phase, exited, chunks, output, result, registry, expired, stop,
          lifetime, reader, stopper>>

taskVars == <<phase, exited, chunks, output, result>>
mapVars == <<registry, expired, stop, lifetime>>

Phases == {"none", "opening", "running", "leaving", "closing", "finished", "refused"}
Results == {None, "ended", "timedOut", "cancelled"}

TypeOK ==
    /\ phase \in [Commands -> Phases]
    /\ exited \subseteq Commands
    /\ chunks \in [Commands -> 0..MaxChunks]
    /\ output \in [Commands -> 0..OutputCap]
    /\ result \in [Commands -> Results]
    /\ registry \subseteq Commands /\ expired \subseteq Commands
    /\ stop \subseteq Commands /\ lifetime \in BOOLEAN
    /\ reader \in [Readers -> [at : {"idle", "armed", "looked", "waiting"},
                               cmd : Commands \cup {None}, offset : 0..OutputCap,
                               woken : BOOLEAN]]
    /\ stopper \in [Stoppers -> [at : {"idle", "cancel", "signal", "waiting", "remove", "done"},
                                 cmd : Commands \cup {None}, close : BOOLEAN,
                                 woken : BOOLEAN]]

Init ==
    /\ phase = [c \in Commands |-> "none"]
    /\ exited = {}
    /\ chunks = [c \in Commands |-> 0]
    /\ output = [c \in Commands |-> 0]
    /\ result = [c \in Commands |-> None]
    /\ registry = {} /\ expired = {} /\ stop = {}
    /\ lifetime = FALSE
    /\ reader = [r \in Readers |-> [at |-> "idle", cmd |-> None, offset |-> 0, woken |-> FALSE]]
    /\ stopper = [s \in Stoppers |-> [at |-> "idle", cmd |-> None, close |-> FALSE, woken |-> FALSE]]

\* The state's running flag, cleared when the task settles.
Running(c) == phase[c] \in {"running", "leaving"}

-------------------------------------------------------------------------------
(***************************************************************************)
(* Starting: ensure_capacity, the exec channel, register.  Both checks     *)
(* prune expired commands first; only the second is made under the lock    *)
(* the insertion holds.                                                    *)
(***************************************************************************)
Pruned == registry \ expired

HasCapacity ==
    /\ Cardinality(Pruned) < TotalLimit
    /\ Cardinality({c \in Pruned : Running(c)}) < TabLimit

EnsureCapacity(c) ==
    /\ phase[c] = "none" /\ ~lifetime
    /\ registry' = Pruned
    /\ phase' = [phase EXCEPT ![c] = IF HasCapacity THEN "opening" ELSE "refused"]
    /\ UNCHANGED <<exited, chunks, output, result, expired, stop, lifetime, reader, stopper>>

\* Mistaken variant: the check before the channel was opened is enough.
RegisterUnchecked(c) ==
    /\ phase[c] = "opening"
    /\ registry' = Pruned \cup {c}
    /\ phase' = [phase EXCEPT ![c] = "running"]
    /\ UNCHANGED <<exited, chunks, output, result, expired, stop, lifetime, reader, stopper>>

\* A command over the limits is terminated on its channel and never listed.
Register(c) ==
    /\ phase[c] = "opening"
    /\ IF HasCapacity
       THEN registry' = Pruned \cup {c} /\ phase' = [phase EXCEPT ![c] = "running"]
       ELSE registry' = Pruned /\ phase' = [phase EXCEPT ![c] = "refused"]
    /\ UNCHANGED <<exited, chunks, output, result, expired, stop, lifetime, reader, stopper>>

-------------------------------------------------------------------------------
(***************************************************************************)
(* run_background_remote_command.  notify_waiters wakes every future made  *)
(* by notified() before the call, awaited yet or not.                      *)
(***************************************************************************)
NotifyWaiters(c) ==
    /\ reader' = [r \in Readers |->
          IF reader[r].cmd = c THEN [reader[r] EXCEPT !.woken = TRUE] ELSE reader[r]]
    /\ stopper' = [s \in Stoppers |->
          IF stopper[s].cmd = c THEN [stopper[s] EXCEPT !.woken = TRUE] ELSE stopper[s]]

\* append_output: past the cap the chunk is dropped, but waiters are woken.
AppendOutput(c) ==
    /\ phase[c] = "running" /\ chunks[c] < MaxChunks
    /\ chunks' = [chunks EXCEPT ![c] = @ + 1]
    /\ output' = [output EXCEPT ![c] = IF @ < OutputCap THEN @ + 1 ELSE @]
    /\ NotifyWaiters(c)
    /\ UNCHANGED <<phase, exited, result, mapVars>>

\* The exit status or signal leaves a short time for the last output.
TakeExit(c) ==
    /\ phase[c] = "running" /\ c \notin exited
    /\ exited' = exited \cup {c}
    /\ UNCHANGED <<phase, chunks, output, result, mapVars, reader, stopper>>

\* The loop ends: end of the channel, a deadline, or one of two tokens.
Outcomes(c) ==
    {"ended"} \cup (IF c \in exited THEN {} ELSE {"timedOut"})
              \cup (IF c \in stop \/ lifetime THEN {"cancelled"} ELSE {})

LeaveLoop(c) ==
    /\ phase[c] = "running"
    /\ result' \in {[result EXCEPT ![c] = o] : o \in Outcomes(c)}
    /\ phase' = [phase EXCEPT ![c] = "leaving"]
    /\ UNCHANGED <<exited, chunks, output, mapVars, reader, stopper>>

\* The final state is written under the lock, before the channel is closed.
Settle(c) ==
    /\ phase[c] = "leaving"
    /\ phase' = [phase EXCEPT ![c] = "closing"]
    /\ UNCHANGED <<exited, chunks, output, result, mapVars, reader, stopper>>

FinishTask(c) ==
    /\ phase[c] = "closing"
    /\ phase' = [phase EXCEPT ![c] = "finished"]
    /\ NotifyWaiters(c)
    /\ UNCHANGED <<exited, chunks, output, result, mapVars>>

-------------------------------------------------------------------------------
(***************************************************************************)
(* read: take the notification, then look, then wait.                      *)
(***************************************************************************)
BeginRead(r) ==
    \E c \in registry :
        /\ reader[r].at = "idle"
        /\ reader[r].cmd \in {None, c}
        /\ reader' = [reader EXCEPT ![r].at = "armed", ![r].cmd = c, ![r].woken = FALSE]
        /\ UNCHANGED <<taskVars, mapVars, stopper>>

Progress(r) ==
    LET c == reader[r].cmd IN ~Running(c) \/ output[c] > reader[r].offset

\* snapshot_command under the state's lock; a page with news, or of a
\* finished command, is returned at once.
Look(r) ==
    /\ reader[r].at = "armed"
    /\ reader' = [reader EXCEPT
         ![r].at = IF Progress(r) THEN "idle" ELSE "looked",
         ![r].offset = output[reader[r].cmd]]
    /\ UNCHANGED <<taskVars, mapVars, stopper>>

\* Mistaken variant: the notification is taken when the wait begins.
AwaitLater(r) ==
    /\ reader[r].at = "looked"
    /\ reader' = [reader EXCEPT ![r].at = "waiting", ![r].woken = FALSE]
    /\ UNCHANGED <<taskVars, mapVars, stopper>>

\* The request starts to wait for the notification it took before.
AwaitNews(r) ==
    /\ reader[r].at = "looked"
    /\ reader' = [reader EXCEPT ![r].at = "waiting"]
    /\ UNCHANGED <<taskVars, mapVars, stopper>>

\* The notification came: a new one is taken before the next look.
Wake(r) ==
    /\ reader[r].at = "waiting" /\ reader[r].woken
    /\ reader' = [reader EXCEPT ![r].at = "armed", ![r].woken = FALSE]
    /\ UNCHANGED <<taskVars, mapVars, stopper>>

\* The request's deadline: it answers with the page it looked at.
ReadDeadline(r) ==
    /\ reader[r].at = "waiting"
    /\ reader' = [reader EXCEPT ![r].at = "idle"]
    /\ UNCHANGED <<taskVars, mapVars, stopper>>

-------------------------------------------------------------------------------
(***************************************************************************)
(* terminate and close: cancel, signal the channel, wait for a             *)
(* notification or two seconds; close then drops the entry.                *)
(***************************************************************************)
BeginStop(s) ==
    \E c \in registry, close \in BOOLEAN :
        /\ stopper[s].at = "idle"
        /\ stopper' = [stopper EXCEPT ![s] =
             [at |-> IF Running(c) \/ close THEN "cancel" ELSE "done",
              cmd |-> c, close |-> close, woken |-> FALSE]]
        /\ UNCHANGED <<taskVars, mapVars, reader>>

StopTo(s, l) == stopper' = [stopper EXCEPT ![s].at = l]

Cancel(s) ==
    /\ stopper[s].at = "cancel"
    /\ stop' = stop \cup {stopper[s].cmd}
    /\ StopTo(s, "signal")
    /\ UNCHANGED <<taskVars, registry, expired, lifetime, reader>>

Signal(s) ==
    /\ stopper[s].at = "signal"
    /\ StopTo(s, IF Running(stopper[s].cmd) THEN "waiting" ELSE "remove")
    /\ UNCHANGED <<taskVars, mapVars, reader>>

AwaitStop(s) ==
    /\ stopper[s].at = "waiting"
    /\ StopTo(s, "remove")
    /\ UNCHANGED <<taskVars, mapVars, reader>>

RemoveEntry(s) ==
    /\ stopper[s].at = "remove"
    /\ registry' = IF stopper[s].close THEN registry \ {stopper[s].cmd} ELSE registry
    /\ StopTo(s, "done")
    /\ UNCHANGED <<taskVars, expired, stop, lifetime, reader>>

\* Mistaken variant: the age of a command is counted from its start.
ExpireStarted(c) ==
    /\ phase[c] \in {"running", "closing", "finished"} /\ c \notin expired
    /\ expired' = expired \cup {c}
    /\ UNCHANGED <<taskVars, registry, stop, lifetime, reader, stopper>>

\* The retention of a finished command passes; the connection ends.
Expire(c) ==
    /\ phase[c] \in {"closing", "finished"} /\ c \notin expired
    /\ expired' = expired \cup {c}
    /\ UNCHANGED <<taskVars, registry, stop, lifetime, reader, stopper>>

EndConnection ==
    /\ ~lifetime /\ lifetime' = TRUE
    /\ UNCHANGED <<taskVars, registry, expired, stop, reader, stopper>>

-------------------------------------------------------------------------------
TaskStep(c) == LeaveLoop(c) \/ Settle(c) \/ FinishTask(c)
ReadStep(r) == Look(r) \/ AwaitNews(r) \/ Wake(r)
StopStep(s) == Cancel(s) \/ Signal(s) \/ AwaitStop(s) \/ RemoveEntry(s)

Next ==
    \/ \E c \in Commands :
         EnsureCapacity(c) \/ Register(c) \/ AppendOutput(c) \/ TakeExit(c)
           \/ TaskStep(c) \/ Expire(c)
    \/ \E r \in Readers : BeginRead(r) \/ ReadStep(r) \/ ReadDeadline(r)
    \/ \E s \in Stoppers : BeginStop(s) \/ StopStep(s)
    \/ EndConnection

Spec == Init /\ [][Next]_vars

\* Requests and tasks go on; a task whose token is cancelled leaves its loop.
\* A remote command need not end, and no reader is helped by its deadline.
FairSpec ==
    /\ Spec
    /\ \A c \in Commands :
         /\ WF_vars(LeaveLoop(c) /\ (c \in stop \/ lifetime))
         /\ WF_vars(Settle(c) \/ FinishTask(c))
    /\ \A r \in Readers : WF_vars(ReadStep(r))
    /\ \A s \in Stoppers : WF_vars(StopStep(s))

-------------------------------------------------------------------------------
(***************************************************************************)
(* Properties.                                                             *)
(***************************************************************************)

\* "One FileTerm tab must not fan out an unbounded number of detached exec
\* channels": however starts, closes and expiries meet, the commands of a
\* tab that run without having been told to stop stay within the limit,
\* whether the registry still lists them or not.
ActiveBounded ==
    Cardinality({c \in Commands : phase[c] = "running" /\ c \notin stop}) <= TabLimit

\* The registry drops a command only after it finished or was told to stop:
\* no job goes on that no client can read or stop.
NeverForgotten ==
    [][\A c \in registry \ registry' : ~Running(c) \/ c \in stop]_vars

\* A client that saw a result has seen the last of it: the result and the
\* output do not change once there is a result it can read.
FinishedIsFinal ==
    [][\A c \in Commands : (result[c] # None /\ ~(phase[c] = "leaving")) =>
         output'[c] = output[c] /\ result'[c] = result[c]]_vars

\* A command is in the registry while it runs, and what it says last is final.
CommandsTracked == NeverForgotten /\ FinishedIsFinal

\* No wake-up is lost: a request that waits for news gets it, without its
\* deadline, as soon as there is output it has not seen or the command ends.
ReadersWake ==
    \A r \in Readers :
        (reader[r].at = "waiting" /\ Progress(r)) ~> reader[r].at = "idle"

===============================================================================
