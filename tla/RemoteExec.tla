------------------------------ MODULE RemoteExec ------------------------------
(***************************************************************************)
(* One remote command from the request to its answer: the caller of        *)
(* execute_remote_command (services/action_review), who prepares the       *)
(* password of a sudo or su command, hands the command to the worker and   *)
(* waits; the task the worker spawns, which opens an exec channel of its   *)
(* own, starts the command and collects what it writes                     *)
(* (sessions/system_metrics/exec.rs); and the server.  A request of mode   *)
(* "probe" is the connecting worker that finds out the platform, with one  *)
(* command after the other over the same exec path.                        *)
(*                                                                         *)
(* Output is a set of words: what the collected text would be searched     *)
(* for.  Time is abstract: a deadline may pass at any moment.  The prompt  *)
(* for a missing password is ActionApproval's, what becomes of a command   *)
(* in the background BackgroundCommands'.                                  *)
(***************************************************************************)
EXTENDS Naturals, Sequences

CONSTANTS
    Modes,      \* the ways a command is asked for in this instance
    Openings,   \* EXEC_CHANNEL_OPEN_RETRY_ATTEMPTS
    Probes,     \* commands the platform probe has
    Mishaps,    \* bound: failures of the connection and of the store
    None

VARIABLES
    order,      \* what is asked for
    server,     \* whether it asks for passwords, and wants a terminal
    store,      \* the password saved with the profile
    meddled,    \* somebody else saved a password meanwhile
    caller,     \* where the caller is
    secret,     \* the password prepared, and whether it is the saved one
    token,      \* the request's cancellation
    inbox,      \* the command in the worker's queue
    abandoned,  \* the caller was gone while the command was still queued
    stage,      \* where the task is
    openings,   \* attempts to open the channel
    verdict,    \* what the task answers
    terminal,   \* the channel has a PTY
    line,       \* the exec channel
    program,    \* the remote command
    replies,    \* messages of the server on their way
    heard,      \* words of the output collected
    code,       \* the exit status received
    owed,       \* the password still waits for a prompt
    typings,    \* how often the password was written, and once unasked
    runs,       \* how often the command was started
    turnedAway, \* probes the server refused for want of a terminal
    outcome,    \* what the caller was told
    probe,      \* the platform probe: which command, and whether on a PTY
    mishaps
execVars == <<order, server, store, meddled, caller, secret, token, inbox, abandoned,
              stage, openings, verdict, terminal, line, program, replies, heard, code,
              owed, typings, runs, turnedAway, outcome, probe, mishaps>>

Passwords == {"good", "bad"}
Elevated == order.kind \in {"sudo", "su"}

orderVars == <<order, server>>
callerVars == <<store, meddled, caller, secret, outcome>>
channelVars == <<openings, terminal, line, program, replies, runs, turnedAway>>
collected == <<heard, code, owed, typings>>

TypeOK ==
    /\ order \in [mode : Modes, kind : {"plain", "sudo", "su"},
                  given : Passwords \cup {None}, save : BOOLEAN, cancellable : BOOLEAN]
    /\ server \in [asks : BOOLEAN, ptyOnly : BOOLEAN]
    /\ store \in Passwords \cup {None} /\ meddled \in BOOLEAN
    /\ caller \in {"prepares", "sends", "waits", "weighs", "done"}
    /\ secret \in [pw : Passwords \cup {None}, saved : BOOLEAN]
    /\ token \in BOOLEAN /\ abandoned \in BOOLEAN
    /\ inbox \in {"empty", "queued", "taken", "lost"}
    /\ stage \in {"off", "open", "pause", "pty", "exec", "data", "eof", "read", "password",
                  "veof", "drain", "hand", "kill", "over"}
    /\ openings \in 0..Openings
    /\ verdict \in {None, "result", "timedOut", "failed", "late", "cancelled", "started"}
    /\ terminal \in BOOLEAN
    /\ line \in {"none", "open", "closed", "stuck"}
    /\ program \in {"none", "asks", "works", "mute", "ended", "gone"}
    /\ replies \in Seq({"prompt", "mention", "refused", "nopty", "system", "menu",
                        "status", "eof"})
    /\ heard \subseteq {"prompt", "mention", "refused", "nopty", "system", "menu"}
    /\ code \in BOOLEAN /\ owed \in BOOLEAN
    /\ typings \in [times : 0..2, unasked : BOOLEAN]
    /\ runs \in 0..2 /\ turnedAway \in 0..Probes
    /\ outcome \in {None, "ok", "timedOut", "failed", "cancelled", "refused", "gaveUp",
                    "started", "known", "gateway", "unknown"}
    /\ probe \in [number : 1..Probes, pty : BOOLEAN]
    /\ mishaps \in 0..Mishaps

\* prepare_remote_exec refuses passwords without sudo or su, and saving a
\* password that is not given; a background command saves none.
Orders ==
    {o \in [mode : Modes, kind : {"plain", "sudo", "su"}, given : Passwords \cup {None},
            save : BOOLEAN, cancellable : BOOLEAN] :
        /\ o.save => o.given # None /\ o.mode = "sync"
        /\ o.given # None => o.kind # "plain"
        /\ o.mode = "probe" => o.kind = "plain" /\ ~o.cancellable}

\* A command without a password, as it is usually asked for.
PlainOrder == [mode |-> CHOOSE m \in Modes : TRUE, kind |-> "plain", given |-> None,
               save |-> FALSE, cancellable |-> FALSE]

Init ==
    /\ order \in Orders
    /\ server \in [asks : BOOLEAN, ptyOnly : BOOLEAN]
    /\ server.asks => Elevated
    /\ server.ptyOnly => order.mode = "probe"
    /\ store \in IF Elevated /\ order.given = None THEN Passwords \cup {None} ELSE {None}
    /\ meddled = FALSE
    /\ caller = IF order.mode = "probe" THEN "waits" ELSE "prepares"
    /\ secret = [pw |-> None, saved |-> FALSE]
    /\ token = FALSE /\ abandoned = FALSE
    /\ inbox = IF order.mode = "probe" THEN "taken" ELSE "empty"
    /\ stage = IF order.mode = "probe" THEN "open" ELSE "off"
    /\ openings = 0 /\ verdict = None /\ terminal = FALSE /\ line = "none"
    /\ program = "none" /\ replies = <<>> /\ heard = {} /\ code = FALSE
    /\ owed = FALSE
    /\ typings = [times |-> 0, unasked |-> FALSE]
    /\ runs = 0 /\ turnedAway = 0 /\ outcome = None
    /\ probe = [number |-> 1, pty |-> FALSE]
    /\ mishaps = 0

Mishap == mishaps < Mishaps /\ mishaps' = mishaps + 1

-------------------------------------------------------------------------------
(***************************************************************************)
(* The caller (execute_remote_command_inner and                            *)
(* send_worker_cmd_with_response_timeout_cancellable).                     *)
(***************************************************************************)
Told(what) ==
    /\ caller' = "done" /\ outcome' = what
    /\ abandoned' = (inbox = "queued")

taskVars == <<stage, verdict, collected, channelVars, probe>>

\* prepare_remote_exec: a given password comes before the saved one, and
\* without either the command is not sent.
Prepare ==
    /\ caller = "prepares"
    /\ LET pw == IF order.given # None THEN order.given ELSE store IN
         IF Elevated /\ pw = None
         THEN Told("failed") /\ UNCHANGED secret
         ELSE /\ secret' = IF Elevated THEN [pw |-> pw, saved |-> order.given = None]
                           ELSE secret
              /\ caller' = "sends"
              /\ UNCHANGED <<outcome, abandoned>>
    /\ UNCHANGED <<orderVars, store, meddled, token, inbox, taskVars, mishaps>>

\* The command enters the queue, and the caller waits; or the request was
\* cancelled before, and nothing is queued.
Send ==
    /\ caller = "sends"
    /\ \/ /\ ~token
          /\ inbox' = "queued" /\ caller' = "waits"
          /\ UNCHANGED <<outcome, abandoned, token, mishaps>>
       \/ /\ token /\ Told("cancelled")
          /\ UNCHANGED <<inbox, token, mishaps>>
       \/ /\ Mishap /\ Told("failed")
          /\ token' = (token \/ order.cancellable)
          /\ UNCHANGED inbox
    /\ UNCHANGED <<orderVars, store, meddled, secret, taskVars>>

\* Mistaken variant: nobody is told that the caller does not wait any more.
GiveUpQuietly ==
    /\ caller = "waits" /\ order.mode # "probe"
    /\ \/ token /\ Told("cancelled")
       \/ Told("gaveUp")
    /\ UNCHANGED <<orderVars, store, meddled, secret, token, inbox, taskVars, mishaps>>

\* Cancelled while waiting, or no answer within the response timeout, which
\* cancels the request.
GiveUp ==
    /\ caller = "waits" /\ order.mode # "probe"
    /\ \/ token /\ Told("cancelled") /\ UNCHANGED token
       \/ Told("gaveUp") /\ token' = (token \/ order.cancellable)
    /\ UNCHANGED <<orderVars, store, meddled, secret, inbox, taskVars, mishaps>>

\* The task's answer, or the news that no one will answer.
Receive ==
    /\ caller = "waits" /\ order.mode # "probe"
    /\ stage = "over" \/ inbox = "lost"
    /\ IF verdict \in {"result", "timedOut", "started"} /\ ~token
       THEN caller' = "weighs" /\ UNCHANGED <<outcome, abandoned>>
       ELSE Told(IF token \/ verdict = "cancelled" THEN "cancelled" ELSE "failed")
    /\ UNCHANGED <<orderVars, store, meddled, secret, token, inbox, taskVars, mishaps>>

\* Mistaken variant: only what a saved password met with is looked at.
WeighSaved ==
    /\ caller = "weighs"
    /\ IF secret.saved /\ "refused" \in heard
       THEN store' = None /\ Told("refused") /\ UNCHANGED mishaps
       ELSE /\ store' = IF order.save THEN secret.pw ELSE store
            /\ Told("ok") /\ UNCHANGED mishaps
    /\ UNCHANGED <<orderVars, meddled, secret, token, inbox, taskVars>>

\* detect_privileged_auth_failure: a refused password is removed if it was the
\* saved one, if that can be written; otherwise one to be saved is saved.
Weigh ==
    /\ caller = "weighs"
    /\ \/ /\ verdict = "started" /\ Told("started") /\ UNCHANGED <<store, mishaps>>
       \/ /\ verdict # "started" /\ Elevated /\ "refused" \in heard
          /\ Told("refused")
          /\ \/ store' = (IF secret.saved THEN None ELSE store) /\ UNCHANGED mishaps
             \/ secret.saved /\ Mishap /\ UNCHANGED store
       \/ /\ verdict # "started" /\ ~(Elevated /\ "refused" \in heard)
          /\ \/ /\ store' = IF order.save THEN secret.pw ELSE store
                /\ Told(IF verdict = "timedOut" THEN "timedOut" ELSE "ok")
                /\ UNCHANGED mishaps
             \/ order.save /\ Mishap /\ UNCHANGED store /\ Told("failed")
    /\ UNCHANGED <<orderVars, meddled, secret, token, inbox, taskVars>>

\* The user stops the request.
Cancel ==
    /\ order.cancellable /\ ~token /\ caller # "done"
    /\ token' = TRUE
    /\ UNCHANGED <<orderVars, callerVars, abandoned, inbox, taskVars, mishaps>>

\* Another command, or the user, saves a password for the same profile.
SaveOther ==
    /\ Elevated /\ ~meddled /\ caller = "waits"
    /\ meddled' = TRUE /\ store' \in Passwords
    /\ UNCHANGED <<orderVars, caller, secret, outcome, token, abandoned, inbox, taskVars,
                   mishaps>>

-------------------------------------------------------------------------------
(***************************************************************************)
(* The task (exec_command_internal; open_background_exec_channel stops     *)
(* before the reading).  Up to the reading every stage is awaited together *)
(* with the deadline and the cancellation (await_exec_stage).              *)
(***************************************************************************)
callerSide == <<orderVars, callerVars, token, abandoned, inbox>>

WantsPty == IF order.mode = "probe" THEN probe.pty ELSE order.kind = "su"
HasInput == order.mode = "sync" \/ secret.pw # None

\* Mistaken variant: a command that was cancelled in the queue is started.
TakeAny ==
    /\ inbox = "queued" /\ inbox' = "taken"
    /\ stage' = "exec" /\ line' = "open"
    /\ UNCHANGED <<orderVars, callerVars, token, abandoned, openings, terminal, program,
                   replies, runs, turnedAway, collected, verdict, probe, mishaps>>

\* The worker spawns the task, which first looks whether it is still wanted.
Take ==
    /\ inbox = "queued" /\ inbox' = "taken"
    /\ IF token THEN stage' = "over" /\ verdict' = "cancelled"
       ELSE stage' = "open" /\ UNCHANGED verdict
    /\ UNCHANGED <<orderVars, callerVars, token, abandoned, channelVars, collected,
                   probe, mishaps>>

\* The worker ends without the command.
WorkerEnds ==
    /\ inbox = "queued" /\ inbox' = "lost" /\ Mishap
    /\ UNCHANGED <<orderVars, callerVars, token, abandoned, taskVars>>

\* open_exec_channel_with_retry: nothing but the opening is tried again.
OpenChannel ==
    /\ stage = "open"
    /\ openings' = openings + 1
    /\ \/ /\ line' = "open"
          /\ stage' = IF WantsPty THEN "pty" ELSE "exec"
          /\ UNCHANGED verdict
       \/ /\ IF openings' < Openings THEN stage' = "pause" /\ UNCHANGED verdict
             ELSE stage' = "over" /\ verdict' = "failed"
          /\ UNCHANGED line
    /\ UNCHANGED <<callerSide, terminal, program, replies, runs, turnedAway, collected,
                   probe, mishaps>>

Pause ==
    /\ stage = "pause" /\ stage' = "open"
    /\ UNCHANGED <<callerSide, verdict, channelVars, collected, probe, mishaps>>

RequestPty ==
    /\ stage = "pty" /\ stage' = "exec" /\ terminal' = TRUE
    /\ UNCHANGED <<callerSide, verdict, openings, line, program, replies, runs, turnedAway,
                   collected, probe, mishaps>>

AfterInput == IF order.mode = "background" THEN "hand" ELSE "read"

\* The command goes to the server, which starts it or, without a terminal,
\* answers that it wants one.  On a terminal the password waits for a prompt.
Exec ==
    /\ stage = "exec"
    /\ IF server.ptyOnly /\ ~terminal
       THEN /\ turnedAway' = turnedAway + 1
            /\ replies' = <<"nopty", "eof">>
            /\ UNCHANGED <<program, runs>>
       ELSE /\ runs' = runs + 1
            /\ program' = IF server.asks THEN "asks" ELSE "works"
            /\ replies' = IF server.asks /\ terminal THEN <<"prompt">> ELSE <<>>
            /\ UNCHANGED turnedAway
    /\ owed' = (terminal /\ secret.pw # None)
    /\ stage' = IF ~terminal /\ HasInput THEN "data" ELSE AfterInput
    /\ UNCHANGED <<callerSide, verdict, openings, terminal, line, heard, code, typings,
                   probe, mishaps>>

\* Without a terminal the input, which a plain command has none of, is piped.
WriteInput ==
    /\ stage = "data" /\ stage' = "eof"
    /\ typings' = IF secret.pw = None THEN typings ELSE [typings EXCEPT !.times = @ + 1]
    /\ UNCHANGED <<callerSide, verdict, channelVars, heard, code, owed, probe,
                   mishaps>>

SendEof ==
    /\ stage = "eof" /\ stage' = AfterInput
    /\ UNCHANGED <<callerSide, verdict, channelVars, collected, probe, mishaps>>

\* The running command is given to the registry unless the start was cancelled.
HandOver ==
    /\ stage = "hand"
    /\ IF token THEN stage' = "kill" /\ verdict' = "cancelled"
       ELSE stage' = "over" /\ verdict' = "started"
    /\ UNCHANGED <<callerSide, channelVars, collected, probe, mishaps>>

Words == {"prompt", "mention", "refused", "nopty", "system", "menu"}

\* One message of the channel.  After the status or the end of the output only
\* what follows at once is read.
Read ==
    /\ stage \in {"read", "drain"} /\ replies # <<>>
    /\ replies' = Tail(replies)
    /\ LET m == Head(replies) IN
         /\ heard' = heard \cup ({m} \cap Words)
         /\ code' = (code \/ m = "status")
         /\ stage' = CASE m \in {"status", "eof"} -> "drain"
                       [] owed /\ m \in {"prompt", "mention"} -> "password"
                       [] OTHER -> stage
    /\ UNCHANGED <<callerSide, verdict, openings, terminal, line, program, runs, turnedAway,
                   owed, typings, probe, mishaps>>

\* The channel is gone, or nothing followed the end for a while.
ReadEnds ==
    /\ \/ stage \in {"read", "drain"} /\ replies = <<>> /\ line = "closed"
       \/ stage = "drain"
    /\ stage' = "over" /\ verdict' = "result"
    /\ UNCHANGED <<callerSide, channelVars, collected, probe, mishaps>>

Typed == [times |-> typings.times + 1,
          unasked |-> typings.unasked \/ heard \cap {"prompt", "mention"} = {}]

\* Mistaken variant: the password answers every prompt.
TypeAgain ==
    /\ stage = "password" /\ stage' = "veof"
    /\ typings' = Typed
    /\ UNCHANGED <<callerSide, verdict, channelVars, heard, code, owed, probe,
                   mishaps>>

\* The password, once, and then the terminal's end of input.
TypePassword ==
    /\ stage = "password" /\ stage' = "veof"
    /\ owed' = FALSE /\ typings' = Typed
    /\ UNCHANGED <<callerSide, verdict, channelVars, heard, code, probe, mishaps>>

TypeEnd ==
    /\ stage = "veof" /\ stage' = "read"
    /\ UNCHANGED <<callerSide, verdict, channelVars, collected, probe, mishaps>>

AtStage == {"pty", "exec", "data", "eof", "password", "veof"}

\* A stage fails, and the channel it failed on is given up.
StageFails ==
    /\ stage \in AtStage /\ stage' = "kill" /\ verdict' = "failed"
    /\ \/ line = "closed" /\ UNCHANGED mishaps
       \/ Mishap
    /\ UNCHANGED <<callerSide, channelVars, collected, probe>>

\* Mistaken variant: a channel on which nothing was read is dropped as it is.
InterruptLoosely ==
    /\ stage \in AtStage \cup {"open", "pause", "read", "drain"}
    /\ \E v \in {"cancelled", "late"} :
         /\ IF v = "late" THEN order.mode # "probe" ELSE token
         /\ verdict' = IF v = "late" /\ stage \in {"read", "drain"} THEN "timedOut" ELSE v
    /\ stage' = IF stage \in {"read", "drain"} THEN "kill" ELSE "over"
    /\ UNCHANGED <<callerSide, channelVars, collected, probe, mishaps>>

\* The deadline or the cancellation wins.  What was collected until the
\* deadline is the result; once a channel is open the command is ended on it.
Interrupt ==
    /\ stage \in AtStage \cup {"open", "pause", "read", "drain"}
    /\ \E v \in {"cancelled", "late"} :
         /\ IF v = "late" THEN order.mode # "probe" ELSE token
         /\ verdict' = IF v = "late" /\ stage \in {"read", "drain"} THEN "timedOut" ELSE v
    /\ stage' = IF stage \in {"open", "pause"} THEN "over" ELSE "kill"
    /\ UNCHANGED <<callerSide, channelVars, collected, probe, mishaps>>

\* terminate_remote_exec: INT, TERM, KILL and the closing of the channel, each
\* for a short while; a server that takes none of them keeps the channel.
Terminate ==
    /\ stage = "kill" /\ stage' = "over"
    /\ \/ line' = "closed" /\ UNCHANGED mishaps
       \/ line = "open" /\ line' = "stuck" /\ Mishap
    /\ UNCHANGED <<callerSide, verdict, openings, terminal, program, replies, runs,
                   turnedAway, collected, probe>>

-------------------------------------------------------------------------------
(***************************************************************************)
(* The server and the connection.                                          *)
(***************************************************************************)
serverFrame == <<callerSide, stage, verdict, openings, terminal, collected, probe,
                 runs, turnedAway>>

ServerChecks ==
    /\ program = "asks" /\ typings.times > 0 /\ line # "closed"
    /\ IF secret.pw = "good" THEN program' = "works" /\ UNCHANGED replies
       ELSE program' = "ended" /\ replies' = Append(replies, "refused")
    /\ UNCHANGED <<serverFrame, line, mishaps>>

\* The command writes: of a su that asks for nothing also what mentions a
\* password, and as a probe the system's name or a gateway's menu.
ServerWrites ==
    /\ program = "works" /\ line # "closed" /\ replies = <<>>
    /\ \E word \in (IF order.kind = "su" /\ ~server.asks THEN {"mention"} ELSE {})
                   \cup (IF order.mode = "probe" THEN {"system", "menu"} ELSE {}) :
         replies' = <<word>>
    /\ UNCHANGED <<serverFrame, program, line, mishaps>>

ServerEnds ==
    /\ program = "works" /\ program' = "ended"
    /\ UNCHANGED <<serverFrame, replies, line, mishaps>>

\* The output ends before the command: it was redirected, or the command
\* went on without it.
ServerMutes ==
    /\ program = "works" /\ program' = "mute" /\ line # "closed"
    /\ replies' = Append(replies, "eof")
    /\ UNCHANGED <<serverFrame, line, mishaps>>

\* The status and the end of the output, in either order.
ServerReports ==
    /\ program \in {"ended", "mute"} /\ program' = "gone" /\ line # "closed"
    /\ \E end \in IF program = "mute" THEN {<<"status">>}
                  ELSE {<<"status", "eof">>, <<"eof", "status">>} :
         replies' = replies \o end
    /\ UNCHANGED <<serverFrame, line, mishaps>>

ConnectionLost ==
    /\ line = "open" /\ line' = "closed" /\ Mishap
    /\ UNCHANGED <<serverFrame, program, replies>>

-------------------------------------------------------------------------------
(***************************************************************************)
(* probe_remote_platform: the commands in their order, each on a channel   *)
(* of its own (run_probe_command).                                         *)
(***************************************************************************)
NewChannel ==
    /\ stage' = "open" /\ verdict' = None
    /\ openings' = 0 /\ terminal' = FALSE /\ line' = "none" /\ program' = "none"
    /\ replies' = <<>> /\ heard' = {} /\ code' = FALSE /\ owed' = FALSE
    /\ UNCHANGED <<orderVars, callerVars, token, abandoned, inbox, typings, turnedAway, mishaps>>

Probed == order.mode = "probe" /\ caller = "waits" /\ stage = "over"
WantsTerminal == ~probe.pty /\ "nopty" \in heard

\* The server wants a terminal: the same command again, on one.
ProbeAgain ==
    /\ Probed /\ WantsTerminal
    /\ probe' = [probe EXCEPT !.pty = TRUE]
    /\ NewChannel /\ UNCHANGED runs

Recognised == verdict = "result" /\ heard \cap {"menu", "system"} # {}

\* Mistaken variant: every command asks again whether a terminal is wanted.
ProbeNextAnew ==
    /\ Probed /\ ~WantsTerminal /\ ~Recognised /\ probe.number < Probes
    /\ probe' = [number |-> probe.number + 1, pty |-> FALSE]
    /\ NewChannel /\ runs' = 0

\* What was not recognised is left to the next command, on a terminal if the
\* server wanted one.
ProbeNext ==
    /\ Probed /\ ~WantsTerminal /\ ~Recognised /\ probe.number < Probes
    /\ probe' = [probe EXCEPT !.number = @ + 1]
    /\ NewChannel /\ runs' = 0

ProbeEnds ==
    /\ Probed /\ ~WantsTerminal /\ (Recognised \/ probe.number = Probes)
    /\ Told(CASE ~Recognised -> "unknown"
              [] "menu" \in heard -> "gateway"
              [] OTHER -> "known")
    /\ UNCHANGED <<orderVars, store, meddled, secret, token, inbox, taskVars, mishaps>>

-------------------------------------------------------------------------------
Next ==
    \/ Prepare \/ Send \/ GiveUp \/ Receive \/ Weigh \/ Cancel \/ SaveOther
    \/ Take \/ WorkerEnds \/ OpenChannel \/ Pause \/ RequestPty \/ Exec \/ WriteInput
    \/ SendEof \/ HandOver \/ Read \/ ReadEnds \/ TypePassword \/ TypeEnd
    \/ StageFails \/ Interrupt \/ Terminate
    \/ ServerChecks \/ ServerWrites \/ ServerEnds \/ ServerMutes \/ ServerReports
    \/ ConnectionLost
    \/ ProbeAgain \/ ProbeNext \/ ProbeEnds

Spec == Init /\ [][Next]_execVars

-------------------------------------------------------------------------------
\* A command is started at most once, however often a channel is opened for it
\* or a probe repeated; and a server that wants a terminal is asked once without.
OneRun == runs <= 1 /\ turnedAway <= 1

\* The password is written once at most, for sudo or su alone, and on a terminal
\* never before the server wrote what asks for one.
PasswordAsked ==
    /\ typings.times <= 1 /\ ~typings.unasked
    /\ typings.times > 0 => Elevated

\* A task that was cancelled, failed or ran out of time has not left its command
\* running on a channel that could have been closed; one with a result has, if
\* at all, a command whose output had ended.  The registry of background
\* commands takes over the ones it was given.
NothingLeftRunning ==
    stage = "over" /\ verdict # "started" =>
        \/ line # "open"
        \/ program \in {"none", "ended", "gone"}
        \/ program = "mute" /\ verdict = "result"

\* A command whose caller was gone before the worker took it does not run, if it
\* could be cancelled.
AbandonedNeverRuns == abandoned /\ order.cancellable => runs = 0

\* A password the server asked for is saved only if it was not refused, and a
\* saved one that was refused is removed.
SavedIsTried ==
    /\ outcome = "ok" /\ order.save /\ server.asks /\ code /\ ~meddled => store = "good"
    /\ outcome = "refused" /\ secret.saved /\ ~meddled /\ mishaps = 0 => store = None

CommandsRunOnce ==
    /\ OneRun
    /\ PasswordAsked
    /\ NothingLeftRunning
    /\ AbandonedNeverRuns
    /\ SavedIsTried
===============================================================================
