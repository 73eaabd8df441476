----------------------------- MODULE ActionApproval -----------------------------
(***************************************************************************)
(* From a question to the user to a command on the remote host             *)
(* (services/action_review/, the tool calls of services/ai/chat_runtime.rs *)
(* and the command route of services/mcp/policy.rs), for one SSH tab.      *)
(*                                                                         *)
(* A call of the Copilot is approved for one revision of the tab, and the  *)
(* user may hand its command to the visible terminal instead.  An external *)
(* call (MCP, CLI) is approved and then routed.  Approved commands may ask *)
(* for a sudo password, and run in an exec channel of the tab's worker.    *)
(*                                                                         *)
(* The revision of a tab moves when its connection or its directory does,  *)
(* a step after the change itself; the next change of the connection comes *)
(* later, since a reconnection starts with a disconnection that was noted. *)
(***************************************************************************)
EXTENDS Naturals, Sequences, FiniteSets

CONSTANTS
    Copilot,        \* calls of the Copilot, in its semi-automatic mode
    External,       \* calls of MCP and CLI clients
    Privileged,     \* calls whose command needs a password that is not saved
    MaxRevision,    \* bound of the instance on the tab's changes
    MaxMode,        \* bound of the instance on changes of the Copilot's mode
    None

Calls == Copilot \cup External

VARIABLES
    tab,        \* the connection: connected, its session, the revision, whether that is behind
    mode,       \* the generation of the Copilot's mode
    cancelled,  \* calls whose cancellation token is cancelled
    call,       \* each call: where it is, the revision it is bound to, its result
    pending,    \* pending_action_approvals
    reply,      \* the decision in each call's oneshot channel
    gate,       \* who holds the handoff gate of a call: its timer or a handoff
    handoff,    \* where the handoff of a call is
    prompt,     \* pending_sudo_passwords
    password,   \* the answer in each call's password channel
    appeared,   \* Copilot calls whose command's text the terminal has shown since they asked
    ran         \* where each command was started, in order
vars == <<tab, mode, cancelled, call, pending, reply, gate, handoff, prompt, password, appeared,
          ran>>

Decisions == {"Approved", "Rejected", "Dismissed", "TimedOut", "DelegatedToTerminal"}
NotStarted == {"rejected", "timedOut", "targetChanged", "modeChanged", "failed"}
Results == NotStarted \cup {"inTerminal", "executed", "cancelled"}

TypeOK ==
    /\ tab \in [connected : BOOLEAN, session : 0..MaxRevision, revision : 0..MaxRevision, behind : BOOLEAN]
    /\ mode \in 0..MaxMode
    /\ cancelled \subseteq Calls
    /\ call \in [Calls -> [at : {"idle", "wait", "timer", "expire", "receive", "clean", "decided", "bind",
                                  "watch", "prompt", "check", "send", "done"},
                           session : 0..MaxRevision, bound : 0..MaxRevision, mode : 0..MaxMode,
                           decision : Decisions \cup {None}, result : Results \cup {None}]]
    /\ pending \subseteq Calls /\ prompt \subseteq Calls
    /\ reply \in [Calls -> Decisions \cup {None}]
    /\ gate \in [Copilot -> {"free", "timer", "handoff"}]
    /\ handoff \in [Copilot -> {"none", "lock", "claim", "check", "send", "report"}]
    /\ password \in [Calls -> {"value", "refused", None}]
    /\ appeared \subseteq Copilot
    /\ \A c \in Calls : \A i \in DOMAIN ran[c] :
          ran[c][i] \in [via : {"terminal", "exec"}, session : 0..MaxRevision]

Init ==
    /\ tab = [connected |-> TRUE, session |-> 0, revision |-> 0, behind |-> FALSE]
    /\ mode = 0 /\ cancelled = {}
    /\ call = [c \in Calls |-> [at |-> "idle", session |-> 0, bound |-> 0, mode |-> 0,
                                decision |-> None, result |-> None]]
    /\ pending = {} /\ prompt = {}
    /\ reply = [c \in Calls |-> None]
    /\ gate = [c \in Copilot |-> "free"]
    /\ handoff = [c \in Copilot |-> "none"]
    /\ password = [c \in Calls |-> None]
    /\ appeared = {}
    /\ ran = [c \in Calls |-> <<>>]

At(c, l) == call[c].at = l
Goto(c, l) == call' = [call EXCEPT ![c].at = l]
End(c, r) == call' = [call EXCEPT ![c].at = "done", ![c].result = r]
Record(c, via) == ran' = [ran EXCEPT ![c] = Append(@, [via |-> via, session |-> tab.session])]

-------------------------------------------------------------------------------
(***************************************************************************)
(* The tab.                                                                *)
(***************************************************************************)

\* set_terminal_state: the flag first, the revision in touch.
ConnectionChanges ==
    /\ ~tab.behind /\ tab.revision < MaxRevision
    /\ tab' = [tab EXCEPT !.connected = ~@, !.behind = TRUE,
                          !.session = IF tab.connected THEN @ ELSE @ + 1]
    /\ UNCHANGED <<mode, cancelled, call, pending, reply, gate, handoff, prompt, password,
                   appeared, ran>>

\* touch_ai_session_revision; a change of the shell's directory does it too.
Touch ==
    /\ tab.revision < MaxRevision
    /\ tab' = [tab EXCEPT !.revision = @ + 1, !.behind = FALSE]
    /\ UNCHANGED <<mode, cancelled, call, pending, reply, gate, handoff, prompt, password,
                   appeared, ran>>

SetMode ==
    /\ mode < MaxMode /\ mode' = mode + 1
    /\ UNCHANGED <<tab, cancelled, call, pending, reply, gate, handoff, prompt, password,
                   appeared, ran>>

Cancel(c) ==
    /\ ~At(c, "idle") /\ ~At(c, "done") /\ c \notin cancelled
    /\ cancelled' = cancelled \cup {c}
    /\ UNCHANGED <<tab, mode, call, pending, reply, gate, handoff, prompt, password, appeared, ran>>

-------------------------------------------------------------------------------
(***************************************************************************)
(* The question: request_action_approval_with_id_and_target.               *)
(***************************************************************************)

\* The Copilot's target and mode are checked before the user is asked.
Ask(c) ==
    /\ At(c, "idle") /\ tab.connected
    /\ call' = [call EXCEPT ![c].at = "wait", ![c].session = tab.session,
                            ![c].bound = tab.revision, ![c].mode = mode]
    /\ pending' = pending \cup {c}
    /\ UNCHANGED <<tab, mode, cancelled, reply, gate, handoff, prompt, password, appeared, ran>>

\* resolve_action_approval_decision; an unknown request is a no-op.
Resolve(c, d) ==
    /\ c \in pending
    /\ pending' = pending \ {c}
    /\ reply' = [reply EXCEPT ![c] = d]
    /\ UNCHANGED <<tab, mode, cancelled, call, gate, handoff, prompt, password, appeared, ran>>

Answered(c) ==
    /\ At(c, "wait") \/ At(c, "receive")
    /\ reply[c] # None
    /\ call' = [call EXCEPT ![c].at = "clean", ![c].decision = reply[c]]
    /\ UNCHANGED <<tab, mode, cancelled, pending, reply, gate, handoff, prompt, password,
                   appeared, ran>>

\* Mistaken variant: no handoff can be under way when the timer fires.
TimerAlone(c) ==
    /\ At(c, "wait") /\ reply[c] = None
    /\ call' = [call EXCEPT ![c].at = "clean", ![c].decision = "TimedOut"]
    /\ UNCHANGED <<tab, mode, cancelled, pending, reply, gate, handoff, prompt, password,
                   appeared, ran>>

\* ACTION_APPROVAL_TIMEOUT; a Copilot's timer goes for the gate first.
Timer(c) ==
    /\ At(c, "wait") /\ reply[c] = None
    /\ call' = [call EXCEPT ![c].at = IF c \in Copilot THEN "timer" ELSE "clean",
                            ![c].decision = IF c \in Copilot THEN @ ELSE "TimedOut"]
    /\ UNCHANGED <<tab, mode, cancelled, pending, reply, gate, handoff, prompt, password,
                   appeared, ran>>

TimerLocks(c) ==
    /\ At(c, "timer") /\ gate[c] = "free"
    /\ gate' = [gate EXCEPT ![c] = "timer"]
    /\ Goto(c, "expire")
    /\ UNCHANGED <<tab, mode, cancelled, pending, reply, handoff, prompt, password, appeared, ran>>

\* Whoever removes the entry decides.
TimerClaims(c) ==
    /\ At(c, "expire")
    /\ gate' = [gate EXCEPT ![c] = "free"]
    /\ pending' = pending \ {c}
    /\ call' = IF c \in pending
               THEN [call EXCEPT ![c].at = "clean", ![c].decision = "TimedOut"]
               ELSE [call EXCEPT ![c].at = "receive"]
    /\ UNCHANGED <<tab, mode, cancelled, reply, handoff, prompt, password, appeared, ran>>

Clean(c) ==
    /\ At(c, "clean")
    /\ pending' = pending \ {c}
    /\ Goto(c, "decided")
    /\ UNCHANGED <<tab, mode, cancelled, reply, gate, handoff, prompt, password, appeared, ran>>

\* The reply was stopped: the wait is dropped, its question dismissed.
StopAsking(c) ==
    /\ c \in Copilot \cap cancelled
    /\ call[c].at \in {"wait", "timer", "expire", "receive", "clean"}
    /\ End(c, "cancelled")
    /\ gate' = IF At(c, "expire") THEN [gate EXCEPT ![c] = "free"] ELSE gate
    /\ pending' = pending \ {c}
    /\ UNCHANGED <<tab, mode, cancelled, reply, handoff, prompt, password, appeared, ran>>

\* run_bridge_request drops the dispatch of a cancelled external call two
\* seconds later: its question stays on the screen, and in the map.
Abandon(c) ==
    /\ c \in External \cap cancelled
    /\ call[c].at \in {"wait", "clean"}
    /\ End(c, "cancelled")
    /\ UNCHANGED <<tab, mode, cancelled, pending, reply, gate, handoff, prompt, password,
                   appeared, ran>>

-------------------------------------------------------------------------------
(***************************************************************************)
(* execute_ai_terminal_handoff: a click on the Copilot's card.             *)
(***************************************************************************)
HandoffStep(c, l) == handoff' = [handoff EXCEPT ![c] = l]

HandoffBegins(c) ==
    /\ handoff[c] = "none" /\ c \in pending
    /\ HandoffStep(c, "lock")
    /\ UNCHANGED <<tab, mode, cancelled, call, pending, reply, gate, prompt, password,
                   appeared, ran>>

HandoffLocks(c) ==
    /\ handoff[c] = "lock" /\ gate[c] = "free"
    /\ gate' = [gate EXCEPT ![c] = "handoff"]
    /\ HandoffStep(c, "claim")
    /\ UNCHANGED <<tab, mode, cancelled, call, pending, reply, prompt, password, appeared, ran>>

HandoffClaims(c) ==
    /\ handoff[c] = "claim"
    /\ pending' = pending \ {c}
    /\ IF c \in pending
       THEN HandoffStep(c, "check") /\ UNCHANGED gate
       ELSE HandoffStep(c, "none") /\ gate' = [gate EXCEPT ![c] = "free"]
    /\ UNCHANGED <<tab, mode, cancelled, call, reply, prompt, password, appeared, ran>>

\* The sender is used up by any outcome; the gate opens when it returns.
HandoffEnds(c, d) ==
    /\ HandoffStep(c, "none")
    /\ gate' = [gate EXCEPT ![c] = "free"]
    /\ reply' = [reply EXCEPT ![c] = d]

\* ensure_visible_terminal_session_active, then the revision of the binding.
HandoffChecks(c, active) ==
    /\ handoff[c] = "check"
    /\ IF active /\ tab.connected /\ tab.revision = call[c].bound
       THEN HandoffStep(c, "send") /\ UNCHANGED <<gate, reply>>
       ELSE HandoffEnds(c, "Rejected")
    /\ UNCHANGED <<tab, mode, cancelled, call, pending, prompt, password, appeared, ran>>

\* send_exact_active_terminal_input looks again, and holds the collections
\* until the command is in the worker's queue.
HandoffSends(c, active) ==
    /\ handoff[c] = "send"
    /\ IF active /\ tab.connected /\ tab.revision = call[c].bound
       THEN Record(c, "terminal") /\ HandoffStep(c, "report") /\ UNCHANGED <<gate, reply>>
       ELSE HandoffEnds(c, "Rejected") /\ UNCHANGED ran
    /\ UNCHANGED <<tab, mode, cancelled, call, pending, prompt, password, appeared>>

HandoffReports(c) ==
    /\ handoff[c] = "report"
    /\ HandoffEnds(c, "DelegatedToTerminal")
    /\ UNCHANGED <<tab, mode, cancelled, call, pending, prompt, password, appeared, ran>>

-------------------------------------------------------------------------------
(***************************************************************************)
(* The decision: execute_copilot_tool_call, request_mcp_approval.          *)
(***************************************************************************)

\* The terminal shows the text of a command: the user types it there, the
\* shell echoes what a handoff sent, or anything else prints it.
TextAppears(c) ==
    /\ c \in Copilot \ appeared /\ ~At(c, "idle") /\ ~At(c, "done")
    /\ appeared' = appeared \cup {c}
    /\ UNCHANGED <<tab, mode, cancelled, call, pending, reply, gate, handoff, prompt, password, ran>>

\* A Copilot's command that was declined counts as executed in the terminal
\* if its text is in the transcript (terminal_command_was_observed), which
\* is bounded and may have lost it again.
Declined(c) ==
    \/ c \in appeared /\ Goto(c, "watch")
    \/ End(c, IF call[c].decision = "TimedOut" THEN "timedOut" ELSE "rejected")

\* A cancelled external call is noticed by execute_remote_command.
Decided(c) ==
    /\ At(c, "decided")
    /\ IF c \in cancelled THEN End(c, "cancelled")
       ELSE IF call[c].decision = "DelegatedToTerminal" THEN Goto(c, "watch")
       ELSE IF call[c].decision # "Approved" THEN Declined(c)
       ELSE IF c \in Copilot /\ mode # call[c].mode THEN End(c, "modeChanged")
       ELSE IF c \in Copilot /\ tab.revision # call[c].bound THEN End(c, "targetChanged")
       ELSE Goto(c, "bind")
    /\ UNCHANGED <<tab, mode, cancelled, pending, reply, gate, handoff, prompt, password,
                   appeared, ran>>

\* wait_for_terminal_handoff_output: for the output, and not for long.
Watched(c) ==
    /\ At(c, "watch")
    /\ End(c, IF c \in cancelled THEN "cancelled" ELSE "inTerminal")
    /\ UNCHANGED <<tab, mode, cancelled, pending, reply, gate, handoff, prompt, password, appeared,
                   ran>>

-------------------------------------------------------------------------------
(***************************************************************************)
(* execute_remote_command_inner and the password prompt.                   *)
(***************************************************************************)

\* A Copilot call brings its revision, an external one takes the current.
\* The prompt needs the renderer of the main window.
Bind(c, renderer) ==
    /\ At(c, "bind")
    /\ LET bound == IF c \in Copilot THEN call[c].bound ELSE tab.revision
           ends(r) == [call EXCEPT ![c].at = "done", ![c].result = r]
       IN  call' = IF c \in cancelled THEN ends("cancelled")
                   ELSE IF tab.revision # bound THEN ends("targetChanged")
                   ELSE IF ~tab.connected \/ (c \in Privileged /\ ~renderer) THEN ends("failed")
                   ELSE [call EXCEPT ![c].bound = bound,
                                     ![c].at = IF c \in Privileged THEN "prompt" ELSE "check"]
    /\ prompt' = IF call'[c].at = "prompt" THEN prompt \cup {c} ELSE prompt
    /\ UNCHANGED <<tab, mode, cancelled, pending, reply, gate, handoff, password, appeared, ran>>

\* Mistaken variant: the password goes to whatever the tab shows now.
AnswerPromptBlindly(c, given) ==
    /\ c \in prompt
    /\ prompt' = prompt \ {c}
    /\ password' = [password EXCEPT ![c] = IF given THEN "value" ELSE "refused"]
    /\ UNCHANGED <<tab, mode, cancelled, call, pending, reply, gate, handoff, appeared, ran>>

\* app_resolve_sudo_password_prompt: refused when the target has changed.
AnswerPrompt(c, given) ==
    /\ c \in prompt
    /\ prompt' = prompt \ {c}
    /\ password' = [password EXCEPT ![c] =
          IF given /\ tab.connected /\ tab.revision = call[c].bound THEN "value" ELSE "refused"]
    /\ UNCHANGED <<tab, mode, cancelled, call, pending, reply, gate, handoff, appeared, ran>>

\* The renderer's teardown drops the sender: refused.
RendererGoes ==
    /\ prompt # {}
    /\ prompt' = {}
    /\ password' = [c \in Calls |-> IF c \in prompt THEN "refused" ELSE password[c]]
    /\ UNCHANGED <<tab, mode, cancelled, call, pending, reply, gate, handoff, appeared, ran>>

PromptReturns(c) ==
    /\ At(c, "prompt") /\ password[c] # None
    /\ IF c \in cancelled THEN End(c, "cancelled")
       ELSE IF password[c] = "refused" THEN End(c, "rejected")
       ELSE IF tab.revision # call[c].bound THEN End(c, "targetChanged")
       ELSE Goto(c, "check")
    /\ UNCHANGED <<tab, mode, cancelled, pending, reply, gate, handoff, prompt, password,
                   appeared, ran>>

\* Cancelled, or PRIVILEGED_PASSWORD_PROMPT_TIMEOUT.
PromptGivenUp(c) ==
    /\ At(c, "prompt") /\ (c \in cancelled \/ password[c] = None)
    /\ prompt' = prompt \ {c}
    /\ End(c, IF c \in cancelled THEN "cancelled" ELSE "rejected")
    /\ UNCHANGED <<tab, mode, cancelled, pending, reply, gate, handoff, password, appeared, ran>>

FinalCheck(c) ==
    /\ At(c, "check")
    /\ IF tab.revision # call[c].bound THEN End(c, "targetChanged") ELSE Goto(c, "send")
    /\ UNCHANGED <<tab, mode, cancelled, pending, reply, gate, handoff, prompt, password,
                   appeared, ran>>

\* send_worker_cmd: the worker of the tab at this point; the token is
\* looked at before the command is queued and before it is started.
Send(c) ==
    /\ At(c, "send")
    /\ IF c \in cancelled THEN End(c, "cancelled") /\ UNCHANGED ran
       ELSE IF tab.connected THEN Record(c, "exec") /\ End(c, "executed")
       ELSE End(c, "failed") /\ UNCHANGED ran
    /\ UNCHANGED <<tab, mode, cancelled, pending, reply, gate, handoff, prompt, password, appeared>>

-------------------------------------------------------------------------------
CallStep(c) ==
    \/ Answered(c) \/ Timer(c) \/ TimerLocks(c) \/ TimerClaims(c) \/ Clean(c)
    \/ StopAsking(c) \/ Abandon(c) \/ Decided(c) \/ Watched(c)
    \/ \E renderer \in BOOLEAN : Bind(c, renderer)
    \/ PromptReturns(c) \/ PromptGivenUp(c) \/ FinalCheck(c) \/ Send(c)

HandoffRuns(c) ==
    \/ HandoffLocks(c) \/ HandoffClaims(c) \/ HandoffReports(c)
    \/ \E active \in BOOLEAN : HandoffChecks(c, active) \/ HandoffSends(c, active)

Next ==
    \/ ConnectionChanges \/ Touch \/ SetMode \/ RendererGoes
    \/ \E c \in Calls :
          \/ Ask(c) \/ Cancel(c) \/ TextAppears(c) \/ CallStep(c)
          \/ \E d \in {"Approved", "Rejected", "Dismissed"} : Resolve(c, d)
          \/ \E given \in BOOLEAN : AnswerPrompt(c, given)
    \/ \E c \in Copilot : HandoffBegins(c) \/ HandoffRuns(c)

Spec == Init /\ [][Next]_vars

\* Timers fire and tasks go on; the user need not answer.
FairSpec ==
    /\ Spec
    /\ \A c \in Calls : WF_vars(CallStep(c))
    /\ \A c \in Copilot : WF_vars(HandoffRuns(c))

-------------------------------------------------------------------------------
(***************************************************************************)
(* Properties.                                                             *)
(***************************************************************************)

\* One approval starts one command: in the terminal or in an exec channel,
\* whatever the timer, the answer and the click of the handoff overlap with.
RunsOnce == \A c \in Calls : Len(ran[c]) <= 1

\* What a caller is told was not started is not started, then or later, in the
\* terminal by a handoff or in a channel.  What it is told was executed in the
\* terminal was handed to it, or was declined and its text seen there: by
\* whoever it was written, and whether or not it ran.
VerdictTrue ==
    \A c \in Calls :
       /\ call[c].result \in NotStarted => ran[c] = <<>>
       /\ call[c].result = "inTerminal" =>
             \/ \E i \in DOMAIN ran[c] : ran[c][i].via = "terminal"
             \/ c \in appeared /\ call[c].decision \in {"Rejected", "Dismissed", "TimedOut"}
                /\ ran[c] = <<>>

\* A command handed to the visible terminal goes to the session its
\* approval was asked for, though the tab may reconnect under its id.
TerminalIsTheOneApproved ==
    \A c \in Copilot : \A i \in DOMAIN ran[c] :
       ran[c][i].via = "terminal" => ran[c][i].session = call[c].session

\* The user is not asked about a Copilot call that has ended.
NoStaleQuestion == \A c \in Copilot : At(c, "done") => c \notin pending

\* What was approved happens once, where it was approved, and as it is told.
ApprovalsAreTrue == RunsOnce /\ VerdictTrue /\ TerminalIsTheOneApproved /\ NoStaleQuestion

\* A password is asked for a waiting command only, and accepted only for
\* the session the prompt named, as long as nothing has changed since.
PasswordsForTarget ==
    [][\A c \in Calls :
          (password[c] # "value" /\ password'[c] = "value")
             => (At(c, "prompt") /\ tab.connected /\ tab.revision = call[c].bound)]_vars

\* "a disconnect/reconnect while the command is waiting must not make it
\* run against a replacement session that happens to reuse the same tab ID".
CommandReachesItsSession ==
    \A c \in Calls : \A i \in DOMAIN ran[c] : ran[c][i].session = call[c].session
===============================================================================
