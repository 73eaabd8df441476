------------------------------ MODULE SessionTabs ------------------------------
(***************************************************************************)
(* Tabs, their sessions and the SSH workers behind them: the commands that *)
(* open, reconnect, disconnect and close a tab (commands/session_spawn.rs, *)
(* tab_lifecycle.rs, session_runtime.rs), the opens requested from outside *)
(* the window (services/mcp/connections.rs), and the supervisor of an SSH  *)
(* worker with its automatic reconnection (sessions/ssh/runtime.rs).       *)
(*                                                                         *)
(* The workspace is a handful of maps, each behind a lock of its own, and  *)
(* every command takes them one after the other.  An action is what one    *)
(* process does under one lock; between two actions any other process may  *)
(* run.  A supervisor that reconnects its tab calls app_reconnect_tab      *)
(* itself, so the actions of that command are run by commands and by       *)
(* workers alike.                                                          *)
(***************************************************************************)
EXTENDS ConnectionOperations

CONSTANTS
    Cmds,           \* commands of the user and of outside clients, one use each
    Workers,        \* worker incarnations
    AutoReconnect,  \* the profile's reconnectMode is "auto"
    MaxAttempts,    \* reconnectMaxAttempts, 0 for unlimited
    UnstableLimit,  \* MAX_UNSTABLE_RECONNECT_ATTEMPTS
    Kinds           \* the commands of this instance

VARIABLES
    reg,        \* connection_operations
    tabs,       \* status of each listed tab; "unused" before, "gone" after
    sessions,   \* sessions: "none", or whether the snapshot says connected
    noticed,    \* tabs whose session summary is the text of a disconnect
    chan,       \* workers: the worker whose command sender the map holds
    ctl,        \* worker_controls: the worker whose token the map holds
    attempts,   \* serial_reconnect_attempts
    pc,         \* where each command and worker is
    at,         \* the tab a command or worker works on
    kind,       \* what a command does; "reconnect" for a supervisor's call
    op,         \* the operation of an outside request
    child,      \* the worker a command is about to start
    cancelled,  \* workers whose token is cancelled
    exit,       \* how a worker's connection ended
    stable,     \* workers whose last connection outlived the stability window
    autoRuns    \* history: reconnections a tab set out for by itself since a
                \* command of the user or a stable connection

vars == <<reg, tabs, sessions, noticed, chan, ctl, attempts, pc, at, kind, op,
          child, cancelled, exit, stable, autoRuns>>

maps == <<reg, tabs, sessions, noticed, chan, ctl, attempts>>
workerVars == <<cancelled, exit, stable, autoRuns>>
cmdVars == <<at, kind, op, child>>

Actors == Cmds \cup Workers
Limit == IF MaxAttempts = 0 THEN UnstableLimit ELSE MaxAttempts

Listed == {"connecting", "connected", "error", "closed"}

CommandPC == {"idle", "failOp", "attach", "push", "insert", "launch", "read",
              "claim", "pause", "forget", "control", "sender", "reset",
              "forgetAttempts", "mark", "noticeTab", "noticeSession",
              "noticePublish", "remove", "done"}
WorkerPC == {"unused", "built", "starting", "snapshot", "markTab",
             "markSession", "markPublish", "up", "ended", "report", "policy",
             "delay", "recheck"}

Exits == {"none", "startup", "transport", "shell", "input", "limit"}

TypeOK ==
    /\ reg \in RegistryType
    /\ tabs \in [Tabs -> Listed \cup {"unused", "gone"}]
    /\ sessions \in [Tabs -> {"none", "down", "up"}]
    /\ noticed \subseteq Tabs
    /\ chan \in [Tabs -> Workers \cup {None}]
    /\ ctl \in [Tabs -> Workers \cup {None}]
    /\ attempts \in [Tabs -> 0..Limit]
    /\ pc \in [Actors -> CommandPC \cup WorkerPC]
    /\ at \in [Actors -> Tabs \cup {None}]
    /\ kind \in [Actors -> {None, "open", "request", "reconnect", "disconnect", "close"}]
    /\ op \in [Cmds -> Ops \cup {None}]
    /\ child \in [Actors -> Workers \cup {None}]
    /\ cancelled \subseteq Workers
    /\ exit \in [Workers -> Exits]
    /\ stable \subseteq Workers
    /\ autoRuns \in [Tabs -> Nat]

Init ==
    /\ reg = EmptyRegistry
    /\ tabs = [t \in Tabs |-> "unused"]
    /\ sessions = [t \in Tabs |-> "none"]
    /\ noticed = {}
    /\ chan = [t \in Tabs |-> None]
    /\ ctl = [t \in Tabs |-> None]
    /\ attempts = [t \in Tabs |-> 0]
    /\ pc = [a \in Actors |-> IF a \in Cmds THEN "idle" ELSE "unused"]
    /\ at = [a \in Actors |-> None]
    /\ kind = [a \in Actors |-> None]
    /\ op = [c \in Cmds |-> None]
    /\ child = [a \in Actors |-> None]
    /\ cancelled = {}
    /\ exit = [w \in Workers |-> "none"]
    /\ stable = {}
    /\ autoRuns = [t \in Tabs |-> 0]

Goto(a, l) == pc' = [pc EXCEPT ![a] = l]

\* Bound of the instance: a command or supervisor sets out to start a worker
\* only while one is left for it.
Bound ==
    Cardinality({w \in Workers : pc[w] = "unused"}) >
      Cardinality({a \in Actors : kind[a] \in {"open", "request", "reconnect"}
                                 /\ pc[a] \in CommandPC \ {"launch", "done", "failOp"}})

\* A worker whose sender left the map sees its command channel closed.
CutOff(w) == chan[at[w]] # w

-------------------------------------------------------------------------------
(***************************************************************************)
(* Opening a tab: app_open_profile for the user, open_connection for a     *)
(* client outside, which first gets or joins an operation.  Both continue  *)
(* in spawn_session_for_profile.                                           *)
(***************************************************************************)
BeginOpen(c) ==
    \E t \in Tabs :
        /\ Bound /\ "open" \in Kinds /\ pc[c] = "idle" /\ tabs[t] = "unused"
        /\ \A a \in Actors : at[a] # t
        /\ at' = [at EXCEPT ![c] = t]
        /\ kind' = [kind EXCEPT ![c] = "open"]
        /\ Goto(c, "push")
        /\ UNCHANGED <<maps, workerVars, op, child>>

\* begin_or_join; a joined request only waits.  The rest of the command is
\* the operation's, or an error before any tab exists (bad profile or port).
BeginRequest(c) ==
    \E p \in Profiles, o \in Ops, t \in Tabs :
        /\ Bound /\ "request" \in Kinds /\ pc[c] = "idle"
        /\ reg.state[o] = "unused"
        /\ tabs[t] = "unused" /\ \A a \in Actors : at[a] # t
        /\ reg' = BeginOrJoin(reg, p, o)
        /\ kind' = [kind EXCEPT ![c] = "request"]
        /\ IF Joined(reg, p) # None
           THEN /\ op' = [op EXCEPT ![c] = Joined(reg, p)]
                /\ Goto(c, "done")
                /\ UNCHANGED at
           ELSE /\ op' = [op EXCEPT ![c] = o]
                /\ at' = [at EXCEPT ![c] = t]
                /\ \E l \in {"attach", "failOp"} : Goto(c, l)
        /\ UNCHANGED <<tabs, sessions, noticed, chan, ctl, attempts, workerVars, child>>

FailOperation(c) ==
    /\ pc[c] = "failOp"
    /\ reg' = FailForOperation(reg, op[c])
    /\ Goto(c, "done")
    /\ UNCHANGED <<tabs, sessions, noticed, chan, ctl, attempts, workerVars, cmdVars>>

AttachOperation(c) ==
    /\ pc[c] = "attach"
    /\ IF CanAttach(reg, op[c])
       THEN reg' = AttachTab(reg, op[c], at[c]) /\ Goto(c, "push")
       ELSE reg' = PruneExpired(reg) /\ Goto(c, "failOp")
    /\ UNCHANGED <<tabs, sessions, noticed, chan, ctl, attempts, workerVars, cmdVars>>

\* The tab and its session are pushed while both locks are held.
PushTab(c) ==
    /\ pc[c] = "push"
    /\ tabs' = [tabs EXCEPT ![at[c]] = "connecting"]
    /\ sessions' = [sessions EXCEPT ![at[c]] = "down"]
    /\ Goto(c, "insert")
    /\ UNCHANGED <<reg, noticed, chan, ctl, attempts, workerVars, cmdVars>>

\* A fresh command channel: its sender replaces the one the map holds.
InsertSender(a) ==
    \E w \in Workers :
        /\ pc[a] = "insert" /\ pc[w] = "unused"
        /\ chan' = [chan EXCEPT ![at[a]] = w]
        /\ child' = [child EXCEPT ![a] = w]
        /\ at' = [at EXCEPT ![w] = at[a]]
        /\ pc' = [pc EXCEPT ![a] = "launch", ![w] = "built"]
        /\ UNCHANGED <<reg, tabs, sessions, noticed, ctl, attempts, workerVars, kind, op>>

\* The token enters worker_controls and start_session_worker spawns the task.
Launch(a) ==
    /\ pc[a] = "launch"
    /\ ctl' = [ctl EXCEPT ![at[a]] = child[a]]
    /\ pc' = [pc EXCEPT ![a] = "done", ![child[a]] = "starting"]
    /\ child' = [child EXCEPT ![a] = None]
    /\ UNCHANGED <<reg, tabs, sessions, noticed, chan, attempts, workerVars, at, kind, op>>

-------------------------------------------------------------------------------
(***************************************************************************)
(* Commands on a tab of the list.                                          *)
(***************************************************************************)
BeginOnTab(c) ==
    \E t \in Tabs, k \in Kinds \cap {"reconnect", "disconnect", "close"} :
        /\ pc[c] = "idle" /\ tabs[t] \in Listed
        /\ k = "reconnect" => Bound
        /\ at' = [at EXCEPT ![c] = t]
        /\ kind' = [kind EXCEPT ![c] = k]
        /\ Goto(c, IF k = "reconnect" THEN "read" ELSE "pause")
        /\ autoRuns' = [autoRuns EXCEPT ![t] = 0]
        /\ UNCHANGED <<maps, cancelled, exit, stable, op, child>>

\* app_reconnect_tab finds the tab, then reads and resolves the profile.
ReadTab(a) ==
    /\ pc[a] = "read"
    /\ Goto(a, IF tabs[at[a]] \in Listed THEN "claim" ELSE "done")
    /\ UNCHANGED <<maps, workerVars, cmdVars>>

\* claim_reconnect_tab
ClaimReconnect(a) ==
    /\ pc[a] = "claim"
    /\ IF tabs[at[a]] \in Listed \ {"connecting"}
       THEN tabs' = [tabs EXCEPT ![at[a]] = "connecting"] /\ Goto(a, "forget")
       ELSE Goto(a, "done") /\ UNCHANGED tabs
    /\ UNCHANGED <<reg, sessions, noticed, chan, ctl, attempts, workerVars, cmdVars>>

\* The tab's transfers are paused first; an error there ends the command.
PauseTransfers(c) ==
    /\ pc[c] = "pause"
    /\ \E l \in {"forget", "done"} : Goto(c, l)
    /\ UNCHANGED <<maps, workerVars, cmdVars>>

(***************************************************************************)
(* stop_session_worker: the operation is forgotten, the token cancelled,   *)
(* the sender taken out with a last Disconnect.                            *)
(***************************************************************************)
StopForget(a) ==
    /\ pc[a] = "forget"
    /\ reg' = ForgetTab(reg, at[a])
    /\ Goto(a, "control")
    /\ UNCHANGED <<tabs, sessions, noticed, chan, ctl, attempts, workerVars, cmdVars>>

StopControl(a) ==
    /\ pc[a] = "control"
    /\ cancelled' = cancelled \cup ({ctl[at[a]]} \ {None})
    /\ ctl' = [ctl EXCEPT ![at[a]] = None]
    /\ Goto(a, "sender")
    /\ UNCHANGED <<reg, tabs, sessions, noticed, chan, attempts, exit, stable,
                   autoRuns, cmdVars>>

StopSender(a) ==
    /\ pc[a] = "sender"
    /\ chan' = [chan EXCEPT ![at[a]] = None]
    /\ Goto(a, IF kind[a] = "reconnect" THEN "reset" ELSE "forgetAttempts")
    /\ UNCHANGED <<reg, tabs, sessions, noticed, ctl, attempts, workerVars, cmdVars>>

\* Reconnecting: the session, if it is still there, shows a connecting tab.
ResetSession(a) ==
    /\ pc[a] = "reset"
    /\ sessions' = [sessions EXCEPT ![at[a]] = IF @ = "none" THEN @ ELSE "down"]
    /\ Goto(a, "insert")
    /\ UNCHANGED <<reg, tabs, noticed, chan, ctl, attempts, workerVars, cmdVars>>

ForgetAttempts(c) ==
    /\ pc[c] = "forgetAttempts"
    /\ attempts' = [attempts EXCEPT ![at[c]] = 0]
    /\ Goto(c, IF kind[c] = "close" THEN "remove" ELSE "mark")
    /\ UNCHANGED <<reg, tabs, sessions, noticed, chan, ctl, workerVars, cmdVars>>

\* app_close_tab drops the tab and its session.
RemoveTab(c) ==
    /\ pc[c] = "remove"
    /\ tabs' = [tabs EXCEPT ![at[c]] = "gone"]
    /\ sessions' = [sessions EXCEPT ![at[c]] = "none"]
    /\ noticed' = noticed \ {at[c]}
    /\ Goto(c, "done")
    /\ UNCHANGED <<reg, chan, ctl, attempts, workerVars, cmdVars>>

ListedAs(t, status) == IF tabs[t] \in Listed THEN status ELSE tabs[t]
SeenAs(t, connected) ==
    IF sessions[t] = "none" THEN "none" ELSE IF connected THEN "up" ELSE "down"

\* app_disconnect_tab shows the tab closed, then set_terminal_state tells it.
MarkClosed(c) ==
    /\ pc[c] = "mark"
    /\ tabs' = [tabs EXCEPT ![at[c]] = ListedAs(at[c], "closed")]
    /\ sessions' = [sessions EXCEPT ![at[c]] = SeenAs(at[c], FALSE)]
    /\ Goto(c, "noticeTab")
    /\ UNCHANGED <<reg, noticed, chan, ctl, attempts, workerVars, cmdVars>>

NoticeTab(c) ==
    /\ pc[c] = "noticeTab"
    /\ tabs' = [tabs EXCEPT ![at[c]] = ListedAs(at[c], "closed")]
    /\ Goto(c, "noticeSession")
    /\ UNCHANGED <<reg, sessions, noticed, chan, ctl, attempts, workerVars, cmdVars>>

NoticeSession(c) ==
    /\ pc[c] = "noticeSession"
    /\ sessions' = [sessions EXCEPT ![at[c]] = SeenAs(at[c], FALSE)]
    /\ noticed' = noticed \cup {t \in {at[c]} : sessions[t] # "none"}
    /\ Goto(c, IF sessions[at[c]] = "none" THEN "done" ELSE "noticePublish")
    /\ UNCHANGED <<reg, tabs, chan, ctl, attempts, workerVars, cmdVars>>

NoticePublish(c) ==
    /\ pc[c] = "noticePublish"
    /\ reg' = PublishForTab(reg, at[c], "failed")
    /\ Goto(c, "done")
    /\ UNCHANGED <<tabs, sessions, noticed, chan, ctl, attempts, workerVars, cmdVars>>

-------------------------------------------------------------------------------
(***************************************************************************)
(* An SSH worker: run_worker_loop.  Opening a session can be cancelled at  *)
(* any time, may fail, and may succeed; then the session snapshot is       *)
(* written, the operation is connected, and the tab is marked connected.   *)
(***************************************************************************)
OpenSession(w) ==
    /\ pc[w] = "starting"
    /\ \/ w \notin cancelled /\ Goto(w, "snapshot") /\ UNCHANGED exit
       \/ exit' = [exit EXCEPT ![w] = "startup"] /\ Goto(w, "ended")
    /\ UNCHANGED <<maps, cmdVars, cancelled, stable, autoRuns>>

\* initialize_ssh_session_snapshot inserts a whole session, then publishes.
SnapshotSession(w) ==
    /\ pc[w] = "snapshot"
    /\ sessions' = [sessions EXCEPT ![at[w]] = "up"]
    /\ noticed' = noticed \ {at[w]}
    /\ reg' = PublishForTab(reg, at[w], "connected")
    /\ Goto(w, "markTab")
    /\ UNCHANGED <<tabs, chan, ctl, attempts, workerVars, cmdVars>>

\* run_worker_event_loop ends.  A lost transport is worth a reconnection; a
\* closed shell, a closed command channel and a Disconnect are not.
LeaveLoop(w) ==
    /\ pc[w] = "up"
    /\ \/ /\ w \in cancelled \/ CutOff(w)
          /\ exit' = [exit EXCEPT ![w] = "input"] /\ UNCHANGED <<stable, autoRuns>>
       \/ \E s \in BOOLEAN :
            /\ exit' \in {[exit EXCEPT ![w] = e] : e \in {"transport", "shell"}}
            /\ stable' = IF s THEN stable \cup {w} ELSE stable
            /\ autoRuns' = IF s THEN [autoRuns EXCEPT ![at[w]] = 0] ELSE autoRuns
    /\ Goto(w, "ended")
    /\ UNCHANGED <<maps, cmdVars, cancelled>>

(***************************************************************************)
(* The supervisor of start_ssh_worker, once its worker has ended.          *)
(***************************************************************************)
ShouldReconnect(w) == exit[w] \in {"startup", "transport"}

\* Mistaken variant: a connection that could not be opened is only logged.
JudgeExitSilently(w) ==
    /\ pc[w] = "ended"
    /\ attempts' = [attempts EXCEPT
                      ![at[w]] = IF w \in cancelled \cup stable THEN 0 ELSE @]
    /\ Goto(w, IF w \in cancelled \/ exit[w] = "startup" THEN "done" ELSE "markTab")
    /\ UNCHANGED <<reg, tabs, sessions, noticed, chan, ctl, workerVars, cmdVars>>

\* Mistaken variant: every connection that ends starts the count of attempts anew.
JudgeExitForgetting(w) ==
    /\ pc[w] = "ended"
    /\ attempts' = [attempts EXCEPT ![at[w]] = 0]
    /\ Goto(w, IF w \in cancelled THEN "done"
               ELSE IF exit[w] = "startup" THEN "report" ELSE "markTab")
    /\ UNCHANGED <<reg, tabs, sessions, noticed, chan, ctl, workerVars, cmdVars>>

\* A cancelled worker says nothing more; a stable connection starts the
\* count of attempts anew.
JudgeExit(w) ==
    /\ pc[w] = "ended"
    /\ attempts' = [attempts EXCEPT
                      ![at[w]] = IF w \in cancelled \cup stable THEN 0 ELSE @]
    /\ Goto(w, IF w \in cancelled THEN "done"
               ELSE IF exit[w] = "startup" THEN "report" ELSE "markTab")
    /\ UNCHANGED <<reg, tabs, sessions, noticed, chan, ctl, workerVars, cmdVars>>

\* fail_for_tab with the code of the startup error
ReportFailure(w) ==
    /\ pc[w] = "report"
    /\ reg' = PublishForTab(reg, at[w], "failed")
    /\ Goto(w, "markTab")
    /\ UNCHANGED <<tabs, sessions, noticed, chan, ctl, attempts, workerVars, cmdVars>>

(***************************************************************************)
(* update_tab_status_and_emit: the tab, then the session, then, unless it  *)
(* is connected, the operation.  It is called for a connection that is up, *)
(* for one that ended, and again when no attempt is left.                  *)
(***************************************************************************)
StatusOf(w) ==
    CASE exit[w] = "none" -> "connected"
      [] exit[w] \in {"startup", "limit"} -> "error"
      [] OTHER -> "closed"

MarkTab(w) ==
    /\ pc[w] = "markTab"
    /\ tabs' = [tabs EXCEPT ![at[w]] = ListedAs(at[w], StatusOf(w))]
    /\ Goto(w, "markSession")
    /\ UNCHANGED <<reg, sessions, noticed, chan, ctl, attempts, workerVars, cmdVars>>

MarkSession(w) ==
    /\ pc[w] = "markSession"
    /\ sessions' = [sessions EXCEPT ![at[w]] = SeenAs(at[w], exit[w] = "none")]
    /\ Goto(w, IF exit[w] = "none" THEN "up" ELSE "markPublish")
    /\ UNCHANGED <<reg, tabs, noticed, chan, ctl, attempts, workerVars, cmdVars>>

MarkPublish(w) ==
    /\ pc[w] = "markPublish"
    /\ reg' = PublishForTab(reg, at[w], "failed")
    /\ Goto(w, IF exit[w] = "limit" THEN "done" ELSE "policy")
    /\ UNCHANGED <<tabs, sessions, noticed, chan, ctl, attempts, workerVars, cmdVars>>

\* ReconnectPolicy::next_attempt_after_connection
NextAttempt(w) == attempts[at[w]] + 1
\* Mistaken variant: one attempt more than the limit.
AttemptLeftOneMore(w) ==
    IF MaxAttempts = 0 THEN w \in stable \/ NextAttempt(w) <= UnstableLimit + 1
    ELSE NextAttempt(w) <= MaxAttempts + 1

AttemptLeft(w) ==
    IF MaxAttempts = 0 THEN w \in stable \/ NextAttempt(w) <= UnstableLimit
    ELSE NextAttempt(w) <= MaxAttempts

ScheduleReconnect(w) ==
    /\ pc[w] = "policy"
    /\ IF ~(ShouldReconnect(w) /\ AutoReconnect)
       THEN Goto(w, "done") /\ UNCHANGED <<attempts, exit, autoRuns>>
       ELSE IF AttemptLeft(w)
       THEN /\ attempts' = [attempts EXCEPT ![at[w]] = NextAttempt(w)]
            /\ autoRuns' = [autoRuns EXCEPT ![at[w]] = @ + 1]
            /\ Goto(w, "delay") /\ UNCHANGED exit
       ELSE /\ exit' = [exit EXCEPT ![w] = "limit"]
            /\ Goto(w, "markTab") /\ UNCHANGED <<attempts, autoRuns>>
    /\ UNCHANGED <<reg, tabs, sessions, noticed, chan, ctl, cancelled, stable, cmdVars>>

\* The backoff delay passes, or the token is cancelled during it.
WaitDelay(w) ==
    /\ pc[w] = "delay"
    /\ Goto(w, IF w \in cancelled THEN "done" ELSE "recheck")
    /\ UNCHANGED <<maps, workerVars, cmdVars>>

\* Under the locks of tabs and sessions: is the tab still waiting for this?
StillWanted(w) ==
    /\ tabs[at[w]] \in Listed \ {"connecting"}
    /\ sessions[at[w]] = "down"
    /\ w \notin cancelled
    /\ at[w] \notin noticed

\* The supervisor calls app_reconnect_tab, and this worker's task does what
\* a command would.
Recheck(w) ==
    /\ pc[w] = "recheck" /\ Bound
    /\ IF StillWanted(w)
       THEN Goto(w, "read") /\ kind' = [kind EXCEPT ![w] = "reconnect"]
       ELSE Goto(w, "done") /\ UNCHANGED kind
    /\ UNCHANGED <<maps, workerVars, at, op, child>>

\* A finished operation ages until its record may be pruned.
AgeOperation(o) ==
    /\ IsTerminal(reg.state[o]) /\ o \notin reg.old
    /\ reg' = Age(reg, o)
    /\ UNCHANGED <<tabs, sessions, noticed, chan, ctl, attempts, pc, workerVars, cmdVars>>

-------------------------------------------------------------------------------
CommandStep(c) ==
    \/ FailOperation(c) \/ AttachOperation(c) \/ PushTab(c)
    \/ PauseTransfers(c) \/ ForgetAttempts(c) \/ RemoveTab(c) \/ MarkClosed(c)
    \/ NoticeTab(c) \/ NoticeSession(c) \/ NoticePublish(c)

ReconnectStep(a) ==
    \/ ReadTab(a) \/ ClaimReconnect(a) \/ StopForget(a) \/ StopControl(a)
    \/ StopSender(a) \/ ResetSession(a) \/ InsertSender(a) \/ Launch(a)

SupervisorStep(w) ==
    \/ OpenSession(w) \/ SnapshotSession(w) \/ JudgeExit(w) \/ ReportFailure(w)
    \/ MarkTab(w) \/ MarkSession(w) \/ MarkPublish(w) \/ ScheduleReconnect(w)
    \/ WaitDelay(w) \/ Recheck(w)

Next ==
    \/ \E c \in Cmds : BeginOpen(c) \/ BeginRequest(c) \/ BeginOnTab(c) \/ CommandStep(c)
    \/ \E a \in Actors : ReconnectStep(a)
    \/ \E w \in Workers : SupervisorStep(w) \/ LeaveLoop(w)
    \/ \E o \in Ops : AgeOperation(o)

Spec == Init /\ [][Next]_vars

\* Commands and workers are tasks of the runtime: a task that can go on does.
\* Opening a session ends by its timeouts, and the event loop ends once its
\* token is cancelled or its channel closed; a remote end need not close.
FairSpec ==
    /\ Spec
    /\ \A c \in Cmds : WF_vars(CommandStep(c))
    /\ \A a \in Actors : WF_vars(ReconnectStep(a))
    /\ \A w \in Workers : WF_vars(SupervisorStep(w))
                          /\ WF_vars(LeaveLoop(w) /\ (w \in cancelled \/ CutOff(w)))

-------------------------------------------------------------------------------
(***************************************************************************)
(* Properties.                                                             *)
(***************************************************************************)

\* Any number of concurrent requests for a profile have at most one
\* operation in flight, and with it one tab being opened.
SingleFlight ==
    \A o, q \in Ops :
        (reg.state[o] \in InFlight /\ reg.state[q] \in InFlight
           /\ reg.profile[o] = reg.profile[q]) => o = q

\* A request joins only an operation that can still serve it: the profile's
\* operation is in the records, for this profile, and has not failed,
\* whatever became of its tab in between.
ProfileServes ==
    \A p \in Profiles :
        LET o == reg.profOp[p]
        IN  o # None => /\ reg.state[o] \in InFlight \cup {"connected"}
                        /\ reg.profile[o] = p

\* Requests share one operation, and only one that can serve them.
OneFlightPerProfile == SingleFlight /\ ProfileServes

\* A host that keeps failing, or that accepts and drops every connection, is
\* not tried for ever: between two acts of the user or stable connections a
\* tab sets out to reconnect by itself at most as often as its limit says, "unlimited"
\* profiles included.
AutomaticRunsBounded == \A t \in Tabs : autoRuns[t] <= Limit

\* Every operation lands: a client waiting for it hears of a connection or a
\* failure, also when its tab is closed, disconnected or reconnected first.
FlightsLand ==
    \A o \in Ops : reg.state[o] \in InFlight ~> reg.state[o] \notin InFlight

\* No tab shows "connecting" for ever: whoever was connecting it says how it
\* ended, or was replaced by someone who will.
ConnectingSettles ==
    \A t \in Tabs : tabs[t] = "connecting" ~> tabs[t] # "connecting"

\* A worker that was replaced or whose tab was stopped leaves its connection,
\* even when its token was not in the map at the time.
ReplacedWorkersLeave ==
    \A w \in Workers : (pc[w] = "up" /\ CutOff(w)) ~> pc[w] # "up"

\* What connects or was replaced comes to an end.
ConnectionsSettle == ConnectingSettles /\ ReplacedWorkersLeave

(***************************************************************************)
(* What comments of the code say, and what it does not do.                 *)
(***************************************************************************)

\* cleanup_unattached_session's comment calls a worker whose tab is gone a
\* leak that "is no longer reachable from the UI": no worker stays up, neither
\* cancelled nor cut off, for a tab that was closed.
NoOrphanWorker ==
    \A w \in Workers :
        (pc[w] = "up" /\ w \notin cancelled /\ ~CutOff(w)) => tabs[at[w]] # "gone"
===============================================================================
