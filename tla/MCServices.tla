------------------------------ MODULE MCServices ------------------------------
(***************************************************************************)
(* Instances of the services of the application: those an outside client   *)
(* or the Copilot reaches a session through, the updates, and the runs of  *)
(* a transfer (MCTransferRuns has the larger instance).  They share        *)
(* no variable, so a behaviour drives one of them, which its initial state *)
(* chooses, and leaves the others as they begin: a run over Parts answers  *)
(* for each of them as a run of its own would.  The bridge's application   *)
(* does not hang here: that takes steps away and adds none, which matters  *)
(* to no safety property.                                                  *)
(***************************************************************************)
EXTENDS Naturals, Sequences, TLC

CONSTANTS
    Parts,                                              \* what this run drives
    BridgeCalls, Conns,                                 \* BridgeSession
    Requests, Ids, Workers, Jsonl,                      \* AgentStdio
    Copilot, External, Privileged, MaxRevision, MaxMode,    \* ActionApproval
    Commands, Readers, Stoppers,                        \* BackgroundCommands
    TabLimit, TotalLimit, OutputCap, MaxChunks,
    Windows, Changes,                                   \* UpdateService
    Attempts, Faults, Crashes, Foreign,                 \* PortableUpdate
    Downloads,                                          \* TransferRuns
    ExecModes,                                          \* RemoteExec
    TabWorkers, TheTab, TheCommand,                     \* SessionTabs
    None

VARIABLES
    driven,
    \* BridgeSession
    call, inbox, current, connecting, attempt, cooldown, conn, pending,
    delivering, missed, up, down, session, active, work, cancelled, told, hung,
    \* AgentStdio
    id, answer, open, flagged, acked, queue, worker, eof,
    \* ActionApproval
    tab, mode, revoked, action, approvals, reply, gate, handoff, prompt,
    password, appeared, ran,
    \* BackgroundCommands
    phase, exited, chunks, output, result, registry, expired, stop, lifetime,
    reader, stopper,
    \* UpdateService
    channel, status, package, checking, operating, calls, running, changed,
    \* PortableUpdate
    target, app, twice, stages, helpers, attempts, failed, crashed, foreign,
    \* TransferRuns
    task, journal, handle, run, nextGen, operation, op, partial, dest, online, faults,
    excused,
    \* RemoteExec
    order, server, store, meddled, caller, secret, token, waiting, abandoned, stage,
    openings, verdict, terminal, line, program, replies, heard, code, owed, typings, runs,
    turnedAway, outcome, probe, mishaps,
    \* SessionTabs
    reg, tabs, sessions, noticed, chan, ctl, counts, pc, at, kind, flight, child, quit,
    exit, stable, autoRuns

bridgeVars == <<call, inbox, current, connecting, attempt, cooldown, conn, pending,
                delivering, missed, up, down, session, active, work, cancelled,
                told, hung>>
stdioVars == <<id, answer, open, flagged, acked, queue, worker, eof>>
approvalVars == <<tab, mode, revoked, action, approvals, reply, gate, handoff,
                  prompt, password, appeared, ran>>
backgroundVars == <<phase, exited, chunks, output, result, registry, expired,
                    stop, lifetime, reader, stopper>>
updateVars == <<channel, status, package, checking, operating, calls, running, changed>>
portableVars == <<target, app, twice, stages, helpers, attempts, failed, crashed, foreign>>
runVars == <<task, journal, handle, run, nextGen, operation, op, partial, dest, online,
             faults, excused>>
execVars == <<order, server, store, meddled, caller, secret, token, waiting, abandoned, stage,
              openings, verdict, terminal, line, program, replies, heard, code, owed,
              typings, runs, turnedAway, outcome, probe, mishaps>>
tabVars == <<reg, tabs, sessions, noticed, chan, ctl, counts, pc, at, kind, flight, child,
             quit, exit, stable, autoRuns>>
vars == <<driven, bridgeVars, stdioVars, approvalVars, backgroundVars, updateVars,
          portableVars, runVars, execVars, tabVars>>

Bridge == INSTANCE BridgeSession WITH
              Calls <- BridgeCalls,
              UpCap <- 1, DownCap <- 1, EventCap <- 1, RequestLimit <- 1,
              Attempts <- 1, MaxMissed <- 0
Stdio == INSTANCE AgentStdio WITH QueueCap <- 1, active <- open
Approval == INSTANCE ActionApproval WITH
                cancelled <- revoked, call <- action, pending <- approvals
Background == INSTANCE BackgroundCommands
Update == INSTANCE UpdateService WITH Calls <- Windows, Portable <- TRUE
Helper == INSTANCE PortableUpdate
Runs == INSTANCE TransferRuns WITH
            Tasks <- Downloads, Uploads <- {}, MaxGen <- 1, MaxFaults <- 1, call <- operation

\* A command with its answer, in the background, or as a probe of the platform.  Bound
\* of the instance, in Init: one of su, or with a password of its own, can be cancelled.
Exec == INSTANCE RemoteExec WITH
            Modes <- ExecModes, Openings <- 2, Probes <- 2, Mishaps <- 1, inbox <- waiting

\* A tab that is opened, and the connections its supervisor sets out for by itself.
Reconnects == INSTANCE SessionTabs WITH
                  Cmds <- {TheCommand}, Workers <- TabWorkers, Tabs <- {TheTab}, Ops <- {},
                  Profiles <- {TheTab}, AutoReconnect <- TRUE, MaxAttempts <- 0,
                  UnstableLimit <- 1, Kinds <- {"open"},
                  attempts <- counts, op <- flight, cancelled <- quit

Init ==
    /\ driven \in Parts
    /\ Bridge!Init /\ Stdio!Init /\ Approval!Init /\ Background!Init
    /\ Update!Init /\ (driven = "update" \/ channel = "stable")
    /\ Helper!Init /\ Runs!Init /\ Exec!Init /\ Reconnects!Init
    /\ (order.kind = "su" \/ order.given # None) => order.cancellable
    /\ driven = "exec" \/ (order = Exec!PlainOrder /\ ~server.asks /\ ~server.ptyOnly)

\* What is not driven stays as it is.
BridgeAlone ==
    UNCHANGED <<driven, stdioVars, approvalVars, backgroundVars, updateVars, portableVars,
                runVars, execVars, tabVars>>
StdioAlone ==
    UNCHANGED <<driven, bridgeVars, approvalVars, backgroundVars, updateVars, portableVars,
                runVars, execVars, tabVars>>
ApprovalAlone ==
    UNCHANGED <<driven, bridgeVars, stdioVars, backgroundVars, updateVars, portableVars,
                runVars, execVars, tabVars>>
BackgroundAlone ==
    UNCHANGED <<driven, bridgeVars, stdioVars, approvalVars, updateVars, portableVars,
                runVars, execVars, tabVars>>
UpdateAlone ==
    UNCHANGED <<driven, bridgeVars, stdioVars, approvalVars, backgroundVars, portableVars,
                runVars, execVars, tabVars>>
HelperAlone ==
    UNCHANGED <<driven, bridgeVars, stdioVars, approvalVars, backgroundVars, updateVars,
                runVars, execVars, tabVars>>
RunsAlone ==
    UNCHANGED <<driven, bridgeVars, stdioVars, approvalVars, backgroundVars, updateVars,
                portableVars, execVars, tabVars>>
ExecAlone ==
    UNCHANGED <<driven, bridgeVars, stdioVars, approvalVars, backgroundVars, updateVars,
                portableVars, runVars, tabVars>>
ReconnectsAlone ==
    UNCHANGED <<driven, bridgeVars, stdioVars, approvalVars, backgroundVars, updateVars,
                portableVars, runVars, execVars>>

Next ==
    \/ driven = "bridge" /\ Bridge!Next /\ ~hung' /\ BridgeAlone
    \/ driven = "stdio" /\ Stdio!Next /\ StdioAlone
    \/ driven = "approval" /\ Approval!Next /\ ApprovalAlone
    \/ driven = "background" /\ Background!Next /\ BackgroundAlone
    \/ driven = "update" /\ Update!Next /\ UpdateAlone
    \/ driven = "helper" /\ Helper!Next /\ HelperAlone
    \/ driven = "runs" /\ Runs!Next /\ RunsAlone
    \/ driven = "exec" /\ Exec!Next /\ ExecAlone
    \/ driven = "reconnects" /\ Reconnects!Next /\ ReconnectsAlone

Spec == Init /\ [][Next]_vars

\* The fairness each component states of itself.
FairSpec ==
    /\ Spec
    /\ \A w \in Workers : WF_stdioVars(driven = "stdio" /\ Stdio!WorkerStep(w))
    /\ \A c \in Commands :
         /\ WF_backgroundVars(driven = "background" /\ Background!LeaveLoop(c)
                              /\ (c \in stop \/ lifetime))
         /\ WF_backgroundVars(driven = "background"
                              /\ (Background!Settle(c) \/ Background!FinishTask(c)))
    /\ \A r \in Readers : WF_backgroundVars(driven = "background" /\ Background!ReadStep(r))
    /\ \A s \in Stoppers : WF_backgroundVars(driven = "background" /\ Background!StopStep(s))
    /\ WF_portableVars(driven = "helper" /\ Helper!AppStep)
    /\ \A n \in Helper!Numbers : WF_portableVars(driven = "helper" /\ Helper!HelperStep(n))
    /\ WF_runVars(driven = "runs" /\ Runs!OpStep)
    /\ \A g \in Runs!Gens : /\ WF_runVars(driven = "runs" /\ Runs!RunStep(g))
                            /\ WF_runVars(driven = "runs" /\ Runs!CallStep(g))

\* Which call takes an action, and on which session, makes no difference.
Symmetry == Permutations(BridgeCalls) \cup Permutations(Conns)

-------------------------------------------------------------------------------
(***************************************************************************)
(* Properties: the component's module states what each of them is about.   *)
(***************************************************************************)

\* Every component keeps its types; the ones that are not driven never change.
TypeOK ==
    CASE driven = "bridge" -> Bridge!TypeOK
      [] driven = "stdio" -> Stdio!TypeOK
      [] driven = "approval" -> Approval!TypeOK
      [] driven = "background" -> Background!TypeOK
      [] driven = "update" -> Update!TypeOK
      [] driven = "helper" -> Helper!TypeOK
      [] driven = "runs" -> Runs!TypeOK
      [] driven = "exec" -> Exec!TypeOK
      [] driven = "reconnects" -> Reconnects!TypeOK

\* Racing calls share a session, a session takes its work with it, and no
\* call is started twice, whatever happens to its session.
SessionsAccounted ==
    /\ [](driven = "bridge" => Bridge!SessionsAccounted)
    /\ Bridge!NeverReplayed

\* Of the lines that wait no two have one id, and each gets one answer.
AnswersUnambiguous == driven = "stdio" => Stdio!AnswersUnambiguous

\* What was approved happens once, where it was approved, and as it is told;
\* a password is accepted only for the session its prompt named.
ApprovalsAreTrue ==
    /\ [](driven = "approval" => Approval!ApprovalsAreTrue)
    /\ Approval!PasswordsForTarget

\* The commands of a tab that nobody told to stop stay within the limit, the
\* registry does not forget a running command, and results are final.
CommandsTracked ==
    /\ [](driven = "background" => Background!ActiveBounded)
    /\ Background!CommandsTracked

\* A remote command runs once, under the password that was asked for, and is
\* not left behind.
CommandsRunOnce == driven = "exec" => Exec!CommandsRunOnce

\* No connection that keeps failing is repeated for ever.
AutomaticRunsBounded == driven = "reconnects" => Reconnects!AutomaticRunsBounded

\* The status names the release and the package that would be installed; the
\* user has one program, which can be started and runs once.
UpdatesAreTrue ==
    /\ driven = "update" => Update!StatusIsTrue
    /\ driven = "helper" => Helper!ProgramSafe

\* When stdin closes every line is answered and the process ends.
EofEnds == Stdio!EofEnds

\* A request that waits for output hears of it.
ReadersWake == Background!ReadersWake

\* Every portable update ends.
UpdatesEnd == Helper!UpdatesEnd

\* Every operation on the transfers ends.
OperationsEnd == Runs!OperationsEnd

\* Every transfer under way comes to rest, unless it has an excuse.
TransfersResolve == Runs!TransfersResolve
===============================================================================
