------------------------------- MODULE Monitoring -------------------------------
(***************************************************************************)
(* Resource monitoring of an SSH tab (sessions/ssh/worker/metrics,         *)
(* services/workspace/monitoring.rs).  Every connection of the tab has a   *)
(* collector task of its own, with a channel on which a script of the      *)
(* server writes samples for ever.  A supervisor starts the collector      *)
(* again when it ends, a failed channel is opened again after a while and  *)
(* only so many times, the user stops, starts and retries monitoring, and  *)
(* the settings may forbid it.                                             *)
(*                                                                         *)
(* A collector works on a state of its own and publishes it: what the tab  *)
(* shows belongs to a generation, of which there is one to a connection.   *)
(***************************************************************************)
EXTENDS Naturals, FiniteSets

CONSTANTS
    Gens,           \* bound: connections, 1..n
    Calls,          \* the user's requests to stop or start, one use each
    MaxAttempts,    \* max_attempts: openings after the first one
    Sustain,        \* healthy samples that may restore the attempts
    Changes,        \* bound: changes of the settings
    Crashes         \* bound: collectors that panic

VARIABLES
    conn,           \* the tab's connection: its number, stage, and what it was told
    configured,     \* do the settings want monitoring
    shown,          \* the monitoring state of the tab; generation 0: none
    capable, points,\* its capability; has it samples
    control,        \* the generation whose control is installed
    enabled, settled, cancelled, clicks, \* the controls
    closed,         \* connections that are gone
    col,            \* the collectors
    asked, late, closing, \* openings awaited, openings given up, channels to close
    call,           \* the requests
    stopped,        \* history: a stop was confirmed, and no start accepted since
    forbidden,      \* history: the last connection in which the settings came to forbid it
    opened,         \* history: openings since the attempts were last restored
    torn, joined,   \* history: was collecting interrupted; was that not shown
    changes, crashes

tab == <<conn, configured, closed, changes>>
seen == <<shown, capable, points, settled>>
controls == <<control, enabled, cancelled>>
channels == <<asked, late, closing>>
past == <<stopped, forbidden, opened, torn, joined>>
vars == <<tab, seen, controls, clicks, col, channels, call, past, crashes>>

Nothing == [gen |-> 0, phase |-> "none", ssh |-> FALSE]
Fresh == [pc |-> "none", phase |-> "starting", attempt |-> 0, ssh |-> FALSE, gap |-> FALSE,
          fresh |-> FALSE, healthy |-> 0, stopping |-> FALSE, how |-> "none"]
Phases == {"starting", "healthy", "paused", "waiting", "recovering", "failed",
           "unsupported", "disconnected", "stopped"}
Final == {"stopped", "disconnected"}

TypeOK ==
    /\ conn.n \in {0} \cup Gens /\ conn.stage \in {"down", "connecting", "up", "running"}
    /\ shown.gen \in {0} \cup Gens /\ shown.phase \in Phases \cup {"none"}
    /\ {configured, capable, points, stopped, joined} \subseteq BOOLEAN
    /\ control \in {0} \cup Gens /\ cancelled \subseteq Gens /\ closed \subseteq Gens
    /\ enabled \subseteq Gens /\ torn \subseteq Gens /\ clicks \subseteq Gens
    /\ \A g \in Gens : /\ settled[g] \in {"none", "on", "off"}
                       /\ col[g].phase \in Phases /\ col[g].attempt \in 0..(MaxAttempts + 1)
                       /\ late[g] \in Nat /\ closing[g] \in Nat
    /\ changes \in 0..Changes /\ crashes \in 0..Crashes

Init ==
    /\ conn = [n |-> 0, stage |-> "down", told |-> FALSE, shut |-> FALSE]
    /\ configured = TRUE /\ shown = Nothing /\ capable = TRUE /\ points = FALSE
    /\ control = 0 /\ enabled = {} /\ cancelled = {} /\ clicks = {} /\ closed = {}
    /\ settled = [g \in Gens |-> "none"] /\ col = [g \in Gens |-> Fresh]
    /\ asked = {} /\ late = [g \in Gens |-> 0] /\ closing = [g \in Gens |-> 0]
    /\ call = [c \in Calls |-> [gen |-> 0, on |-> FALSE, answer |-> "none"]]
    /\ stopped = FALSE /\ forbidden = 0 /\ opened = [g \in Gens |-> 0] /\ torn = {} /\ joined = TRUE
    /\ changes = 0 /\ crashes = 0

-------------------------------------------------------------------------------
(***************************************************************************)
(* The connection                                                          *)
(***************************************************************************)
Connected == conn.stage \in {"up", "running"}

\* Bound: the collector of the last connection has left its work when the next
\* one is made.  It may still report its end, and remove its control.
LeftWork ==
    \A g \in Gens : /\ col[g].pc \in {"none", "childEnd", "remove", "ended"}
                   /\ late[g] + closing[g] = 0

\* app_connect_tab: a new attempt with the settings of now.
Connect ==
    /\ conn.stage = "down" /\ conn.n + 1 \in Gens /\ LeftWork
    /\ conn' = [n |-> conn.n + 1, stage |-> "connecting", told |-> configured, shut |-> FALSE]
    /\ capable' = configured /\ points' = FALSE
    /\ UNCHANGED <<configured, closed, changes, shown, settled, controls, clicks, col, channels,
                   call, past, crashes>>

\* Mistaken variant: only the settings it connected with count.
AllowedAsTold == conn.told

\* The shell is ready: the settings may have changed while it connected, and
\* a stop outlives the connection.
Allowed == conn.told /\ capable

Snapshot ==
    /\ conn.stage = "connecting" /\ conn' = [conn EXCEPT !.stage = "up"]
    /\ shown' = IF ~Allowed THEN Nothing
                ELSE [gen |-> conn.n, ssh |-> FALSE,
                      phase |-> IF shown.phase = "stopped" THEN "stopped" ELSE "starting"]
    /\ capable' = Allowed /\ points' = FALSE
    /\ UNCHANGED <<configured, closed, changes, settled, controls, clicks, col, channels, call,
                   past, crashes>>

\* spawn_metrics_collector, at the end of what is set up beside the terminal.
Spawn ==
    /\ conn.stage = "up" /\ conn' = [conn EXCEPT !.stage = "running"]
    /\ LET g == conn.n
       IN IF shown.gen # g \/ conn.shut THEN UNCHANGED <<controls, col>>
          ELSE /\ control' = g /\ col' = [col EXCEPT ![g].pc = "supervise"]
               /\ enabled' = (IF shown.phase = "stopped" THEN enabled ELSE enabled \cup {g})
               /\ cancelled' = cancelled \cup ({control} \ {0})
    /\ UNCHANGED <<configured, closed, changes, seen, clicks, channels, call, past, crashes>>

\* The transport is gone; metrics_shutdown; the worker has ended.
Lose ==
    /\ Connected /\ conn.n \notin closed /\ closed' = closed \cup {conn.n}
    /\ UNCHANGED <<conn, configured, changes, seen, controls, clicks, col, channels, call, past,
                   crashes>>
Shutdown ==
    /\ Connected /\ ~conn.shut /\ conn' = [conn EXCEPT !.shut = TRUE]
    /\ cancelled' = cancelled \cup {conn.n}
    /\ UNCHANGED <<configured, closed, changes, seen, control, enabled, clicks, col, channels,
                   call, past, crashes>>
Down ==
    /\ Connected /\ conn.shut /\ conn' = [conn EXCEPT !.stage = "down"]
    /\ closed' = closed \cup {conn.n}
    /\ UNCHANGED <<configured, changes, seen, controls, clicks, col, channels, call, past,
                   crashes>>

-------------------------------------------------------------------------------
(***************************************************************************)
(* What the user asks for                                                  *)
(***************************************************************************)

\* stop_monitoring_for_profile, when the settings come to forbid it.
Configure(on) ==
    /\ changes < Changes /\ changes' = changes + 1 /\ on # configured /\ configured' = on
    /\ IF on THEN UNCHANGED <<shown, capable, cancelled, stopped, forbidden>>
       ELSE /\ shown' = Nothing /\ capable' = FALSE /\ stopped' = FALSE /\ forbidden' = conn.n
            /\ cancelled' = cancelled \cup ({control} \ {0})
    /\ UNCHANGED <<conn, closed, points, settled, control, enabled, clicks, col, channels, call,
                   opened, torn, joined, crashes>>

\* retry_monitoring: one click is kept.
Retry(g) ==
    /\ control = g /\ g \in enabled \ cancelled /\ Connected /\ capable /\ shown.gen = g
    /\ shown.phase \in {"paused", "waiting", "failed", "disconnected"} /\ ~shown.ssh
    /\ g \notin clicks /\ clicks' = clicks \cup {g}
    /\ UNCHANGED <<tab, seen, controls, col, channels, call, past, crashes>>

Answered == [gen |-> 0, on |-> FALSE, answer |-> "given"]

\* set_monitoring_enabled: before there is a collector the intent is noted.
SetEnabled(c, g, on) ==
    /\ call[c].answer = "none" /\ Connected /\ capable /\ shown.gen = g
    /\ on => shown.phase = "stopped"
    /\ IF control = g
       THEN /\ g \notin cancelled /\ UNCHANGED shown
            /\ enabled' = IF on THEN enabled \cup {g} ELSE enabled \ {g}
            /\ call' = [call EXCEPT ![c] = [gen |-> g, on |-> on, answer |-> "waits"]]
            /\ stopped' = (stopped /\ ~on)
       ELSE /\ shown.phase \in {"starting", "stopped"} /\ UNCHANGED enabled
            /\ shown' = [shown EXCEPT !.phase = IF on THEN "starting" ELSE "stopped",
                                      !.ssh = FALSE]
            /\ call' = [call EXCEPT ![c] = Answered]
            /\ stopped' = ~on
    /\ UNCHANGED <<tab, capable, points, settled, control, cancelled, clicks, col, channels,
                   forbidden, opened, torn, joined, crashes>>

\* wait_for_monitoring_settled: confirmed, or the session or the time is over.
CallEnds(c) ==
    /\ call[c].answer = "waits"
    /\ LET g == call[c].gen
           done == settled[g] = (IF call[c].on THEN "on" ELSE "off")
       IN \/ /\ done /\ g \notin cancelled /\ call' = [call EXCEPT ![c] = Answered]
             /\ stopped' = (stopped \/ (~call[c].on /\ g \notin enabled /\ shown.phase = "stopped"))
          \/ /\ g \in cancelled \/ ~done
             /\ call' = [call EXCEPT ![c] = Answered] /\ UNCHANGED stopped
    /\ UNCHANGED <<tab, seen, controls, clicks, col, channels, forbidden, opened, torn, joined,
                   crashes>>

-------------------------------------------------------------------------------
(***************************************************************************)
(* A collector publishes what it does, unless it may no longer.            *)
(***************************************************************************)
Working == {"open", "opening", "setup", "read", "close", "after", "waiting", "failed"}

MayPublish(g, c) ==
    /\ shown.gen = g
    /\ c.phase \in Final \/ (g \notin cancelled /\ Connected /\ g \in enabled)

\* What is local to one stage is forgotten after it.
At(c, pc) ==
    IF pc \in {"childEnd", "remove", "ended"} THEN [Fresh EXCEPT !.pc = pc]
    ELSE [c EXCEPT !.pc = pc, !.fresh = @ /\ pc = "read",
                   !.how = IF pc \in {"read", "close", "after"} THEN @ ELSE "none",
                   !.stopping = @ /\ pc \in Working \cup {"workEnd"}]

Publish(g, c, then, otherwise) ==
    IF MayPublish(g, c)
    THEN /\ shown' = [gen |-> g, phase |-> c.phase, ssh |-> c.ssh]
         /\ settled' = CASE c.phase = "stopped" -> [settled EXCEPT ![g] = "off"]
                         [] c.phase = "starting" -> [settled EXCEPT ![g] = "on"]
                         [] OTHER -> settled
         /\ capable' = (capable /\ c.phase # "unsupported")
         /\ col' = [col EXCEPT ![g] = At(c, then)]
    ELSE UNCHANGED <<shown, settled, capable>> /\ col' = [col EXCEPT ![g] = At(c, otherwise)]

Goes(g, pc) == col' = [col EXCEPT ![g] = At(@, pc)] /\ UNCHANGED <<shown, settled, capable>>
Gone(g) == g \in cancelled \/ g \in closed
Cancelled(g) == col[g].stopping \/ g \in cancelled

\* Every step of a collector leaves these alone; the others it states.
Mine == UNCHANGED <<tab, controls, call, stopped, forbidden>>
NoSample == UNCHANGED <<points, joined>>
Torn(g) == torn' = torn \cup {g}

-------------------------------------------------------------------------------
(***************************************************************************)
(* supervise_attempt                                                       *)
(***************************************************************************)
Supervise(g) ==
    /\ col[g].pc = "supervise" /\ Goes(g, IF Gone(g) THEN "remove" ELSE "top")
    /\ Mine /\ NoSample /\ UNCHANGED <<clicks, channels, opened, torn, crashes>>

Top(g) ==
    /\ col[g].pc = "top"
    /\ \/ Gone(g) /\ Goes(g, "childEnd")
       \/ /\ ~Gone(g) /\ g \notin enabled
          /\ Publish(g, [col[g] EXCEPT !.phase = "stopped", !.ssh = FALSE, !.gap = TRUE,
                                       !.healthy = 0],
                     "idle", "childEnd")
    /\ Mine /\ NoSample /\ UNCHANGED <<clicks, channels, opened, torn, crashes>>

Begin(g) ==
    /\ \/ col[g].pc = "top" /\ ~Gone(g)
       \/ col[g].pc = "idle" /\ g \notin cancelled
    /\ g \in enabled
    /\ Publish(g, [col[g] EXCEPT !.phase = "starting", !.attempt = 0, !.ssh = FALSE,
                                 !.stopping = FALSE],
               "open", "childEnd")
    /\ clicks' = clicks \ {g} /\ opened' = [opened EXCEPT ![g] = 0]
    /\ Mine /\ NoSample /\ UNCHANGED <<channels, torn, crashes>>

LeaveIdle(g) ==
    /\ col[g].pc = "idle" /\ g \in cancelled /\ Goes(g, "childEnd")
    /\ Mine /\ NoSample /\ UNCHANGED <<clicks, channels, opened, torn, crashes>>

\* Mistaken variant: the work is told, and not awaited.
NoticeAndLeave(g) ==
    /\ col[g].pc \in Working /\ g \notin enabled /\ ~col[g].stopping
    /\ Publish(g, [col[g] EXCEPT !.phase = "stopped", !.stopping = TRUE], col[g].pc, col[g].pc)
    /\ Mine /\ NoSample /\ UNCHANGED <<clicks, channels, opened, torn, crashes>>

\* run_until_monitoring_disabled: the work is told, and awaited.
Notice(g) ==
    /\ col[g].pc \in Working /\ g \notin enabled /\ ~col[g].stopping
    /\ col' = [col EXCEPT ![g].stopping = TRUE]
    /\ Mine /\ NoSample
    /\ UNCHANGED <<shown, settled, capable, clicks, channels, opened, torn, crashes>>

WorkEnds(g) ==
    /\ col[g].pc = "workEnd" /\ Goes(g, IF g \in enabled THEN "childEnd" ELSE "top")
    /\ Mine /\ NoSample /\ UNCHANGED <<clicks, channels, opened, torn, crashes>>

-------------------------------------------------------------------------------
(***************************************************************************)
(* run_enabled: open a channel, read it, and open another one.             *)
(***************************************************************************)
Open(g) ==
    /\ col[g].pc = "open"
    /\ IF Cancelled(g) \/ g \in closed THEN Goes(g, "workEnd") /\ UNCHANGED opened
       ELSE Goes(g, "opening") /\ opened' = [opened EXCEPT ![g] = @ + 1]
    /\ Mine /\ NoSample /\ UNCHANGED <<clicks, channels, torn, crashes>>

\* open_metrics_channel: one unanswered opening at a time.
Asking(g) == col[g].pc = "opening" /\ g \notin asked

\* Mistaken variant: the next opening does not wait for the one given up.
AskFreely(g) ==
    /\ Asking(g) /\ asked' = asked \cup {g}
    /\ Mine /\ UNCHANGED <<seen, clicks, col, late, closing, opened, torn, joined, crashes>>

Ask(g) ==
    /\ Asking(g) /\ late[g] = 0 /\ closing[g] = 0 /\ asked' = asked \cup {g}
    /\ Mine /\ UNCHANGED <<seen, clicks, col, late, closing, opened, torn, joined, crashes>>

\* It is refused, or it is given up: too late or cancelled.
OpenFails(g) ==
    /\ col[g].pc = "opening"
    /\ col' = [col EXCEPT ![g].pc = "after", ![g].how = "startup", ![g].fresh = FALSE]
    /\ asked' = asked \ {g}
    /\ \/ UNCHANGED late
       \/ g \in asked /\ late' = [late EXCEPT ![g] = @ + 1]
    /\ Mine /\ NoSample
    /\ UNCHANGED <<shown, settled, capable, clicks, closing, opened, torn, crashes>>

Opened(g) ==
    /\ g \in asked /\ asked' = asked \ {g} /\ Goes(g, "setup")
    /\ Mine /\ NoSample /\ UNCHANGED <<clicks, late, closing, opened, torn, crashes>>

\* An opening nobody waits for is still answered, and its channel closed.
LateAnswer(g) ==
    /\ late[g] > 0 /\ late' = [late EXCEPT ![g] = @ - 1]
    /\ \/ g \notin closed /\ closing' = [closing EXCEPT ![g] = @ + 1]
       \/ UNCHANGED closing
    /\ Mine /\ UNCHANGED <<seen, clicks, col, asked, opened, torn, joined, crashes>>
LateClose(g) ==
    /\ closing[g] > 0 /\ closing' = [closing EXCEPT ![g] = @ - 1]
    /\ Mine /\ UNCHANGED <<seen, clicks, col, asked, late, opened, torn, joined, crashes>>

\* The pseudo-terminal, the command and the script: any of them may fail.
Setup(g) ==
    /\ col[g].pc = "setup"
    /\ \E pc \in {"read", "after"} :
          col' = [col EXCEPT ![g].pc = pc, ![g].fresh = FALSE, ![g].how = "startup"]
    /\ Mine /\ NoSample
    /\ UNCHANGED <<shown, settled, capable, clicks, channels, opened, torn, crashes>>

\* read_metrics_channel
ReadEnds(g, how) ==
    /\ col' = [col EXCEPT ![g].pc = "close", ![g].how = how] /\ Torn(g)
    /\ UNCHANGED <<shown, settled, capable>>

Sample(g) ==
    /\ col[g].pc = "read"
    /\ LET restored == col[g].healthy + 1 >= Sustain
           c == [col[g] EXCEPT !.healthy = IF restored THEN @ ELSE @ + 1, !.fresh = TRUE,
                               !.phase = "healthy", !.ssh = FALSE, !.gap = FALSE,
                               !.how = "replaced"]
       IN IF Cancelled(g) \/ g \notin enabled \/ ~MayPublish(g, c)
          THEN ReadEnds(g, "replaced") /\ NoSample /\ UNCHANGED <<clicks, opened>>
          ELSE /\ \/ Publish(g, c, "read", "close") /\ UNCHANGED opened
                  \/ /\ restored /\ opened' = [opened EXCEPT ![g] = 0]
                     /\ Publish(g, [c EXCEPT !.attempt = 0], "read", "close")
               /\ points' = TRUE /\ joined' = (joined /\ (points /\ g \in torn => col[g].gap))
               /\ torn' = torn \ {g} /\ clicks' = clicks \ {g}
    /\ Mine /\ UNCHANGED <<channels, crashes>>

\* No sample in time: pause first, and give the channel up later.
Stall(g) ==
    /\ col[g].pc = "read"
    /\ IF ~col[g].fresh \/ col[g].phase = "paused" THEN ReadEnds(g, "stalled")
       ELSE /\ Publish(g, [col[g] EXCEPT !.phase = "paused", !.gap = TRUE, !.healthy = 0,
                                         !.how = "stalled"],
                       "read", "close")
            /\ Torn(g)
    /\ Mine /\ NoSample /\ UNCHANGED <<clicks, channels, opened, crashes>>

ClickWhilePaused(g) ==
    /\ col[g].pc = "read" /\ col[g].phase = "paused" /\ g \in clicks
    /\ clicks' = clicks \ {g} /\ ReadEnds(g, "manual")
    /\ Mine /\ NoSample /\ UNCHANGED <<channels, opened, crashes>>

\* The first sample is not of the target, or a menu answers.
Unsupported(g) ==
    /\ col[g].pc = "read" /\ ~col[g].fresh /\ ~Cancelled(g)
    /\ Publish(g, [col[g] EXCEPT !.phase = "unsupported", !.how = "remote"], "close", "close")
    /\ Torn(g)
    /\ Mine /\ NoSample /\ UNCHANGED <<clicks, channels, opened, crashes>>

\* Cancelled, or ended by the server.
Ends(g) ==
    /\ col[g].pc = "read" /\ ReadEnds(g, "remote")
    /\ Mine /\ NoSample /\ UNCHANGED <<clicks, channels, opened, crashes>>

Close(g) ==
    /\ col[g].pc = "close"
    /\ IF Cancelled(g) \/ col[g].phase = "unsupported" THEN Goes(g, "after")
       ELSE Publish(g, [col[g] EXCEPT !.phase = "recovering"], "after", "after")
    /\ Mine /\ NoSample /\ UNCHANGED <<clicks, channels, opened, torn, crashes>>

\* What a failed channel leads to, with the attempts that are counted then.
Failing(g, attempt) ==
    LET spent == attempt >= MaxAttempts
        again == col[g].how = "manual" /\ spent
        c == [col[g] EXCEPT !.gap = TRUE, !.healthy = 0,
                            !.attempt = IF again THEN 0 ELSE attempt,
                            !.phase = IF spent /\ ~again THEN "failed" ELSE "waiting"]
    IN IF \/ Cancelled(g) \/ g \in closed
          \/ col[g].phase = "unsupported" \/ col[g].how = "replaced"
       THEN Goes(g, "workEnd")
       ELSE Publish(g, c, c.phase, "workEnd")

\* Mistaken variant: a failure after a sample begins to count again.
AfterForgetting(g) ==
    /\ col[g].pc = "after"
    /\ Failing(g, IF col[g].how = "startup" THEN col[g].attempt ELSE 0)
    /\ opened' = IF col[g].how = "manual" THEN [opened EXCEPT ![g] = 0] ELSE opened
    /\ Mine /\ NoSample /\ UNCHANGED <<clicks, channels, torn, crashes>>

After(g) ==
    /\ col[g].pc = "after" /\ Failing(g, col[g].attempt)
    /\ opened' = IF col[g].how = "manual" THEN [opened EXCEPT ![g] = 0] ELSE opened
    /\ Mine /\ NoSample /\ UNCHANGED <<clicks, channels, torn, crashes>>

\* After the delay or on a click; attempts that are spent need the click.
Resume(g) ==
    /\ col[g].pc \in {"waiting", "failed"} /\ ~Cancelled(g)
    /\ \/ col[g].pc = "waiting" /\ UNCHANGED opened
       \/ g \in clicks /\ opened' = [opened EXCEPT ![g] = 0]
    /\ Publish(g, [col[g] EXCEPT !.attempt = IF col[g].pc = "failed" THEN 1 ELSE @ + 1,
                                 !.phase = "recovering"],
               "open", "workEnd")
    /\ clicks' = clicks \ {g}
    /\ Mine /\ NoSample /\ UNCHANGED <<channels, torn, crashes>>

LeaveWait(g) ==
    /\ col[g].pc \in {"waiting", "failed"} /\ Cancelled(g) /\ Goes(g, "workEnd")
    /\ Mine /\ NoSample /\ UNCHANGED <<clicks, channels, opened, torn, crashes>>

\* A panic takes the collector and its channel, not its supervisor.
Panic(g) ==
    /\ col[g].pc = "read" /\ crashes < Crashes /\ crashes' = crashes + 1
    /\ Goes(g, "childEnd") /\ Torn(g)
    /\ Mine /\ NoSample /\ UNCHANGED <<clicks, channels, opened>>

-------------------------------------------------------------------------------
(***************************************************************************)
(* supervise                                                               *)
(***************************************************************************)
ChildEnds(g) ==
    /\ col[g].pc = "childEnd"
    /\ LET c == [col[g] EXCEPT !.phase = shown.phase, !.ssh = shown.ssh, !.gap = TRUE,
                               !.healthy = 0]
       IN CASE shown.gen # g -> Goes(g, "remove")
            [] shown.gen = g /\ (Gone(g) \/ ~Connected) ->
                 Publish(g, [c EXCEPT !.phase = IF g \in enabled THEN "disconnected" ELSE "stopped",
                                      !.ssh = g \in enabled],
                         "remove", "remove")
            [] OTHER ->
                 CASE shown.phase = "unsupported" -> Goes(g, "remove")
                   [] shown.phase # "unsupported" /\ g \notin enabled ->
                        /\ col' = [col EXCEPT ![g] = [c EXCEPT !.pc = "supervise"]]
                        /\ UNCHANGED <<shown, settled, capable>>
                   [] OTHER -> Publish(g, [c EXCEPT !.phase = "disconnected", !.ssh = FALSE],
                                       "rest", "supervise")
    /\ Mine /\ NoSample /\ UNCHANGED <<clicks, channels, opened, torn, crashes>>

Rest(g) ==
    /\ col[g].pc = "rest"
    /\ LET c == [col[g] EXCEPT !.attempt = 0, !.phase = "starting", !.ssh = FALSE]
       IN \/ g \in cancelled /\ Goes(g, "remove") /\ UNCHANGED clicks
          \/ /\ g \notin cancelled /\ g \in enabled /\ g \in clicks /\ clicks' = clicks \ {g}
             /\ Publish(g, c, "supervise", "supervise")
          \/ /\ g \notin cancelled /\ g \notin enabled /\ clicks' = clicks \ {g}
             /\ col' = [col EXCEPT ![g] = [c EXCEPT !.pc = "supervise"]]
             /\ UNCHANGED <<shown, settled, capable>>
    /\ Mine /\ NoSample /\ UNCHANGED <<channels, opened, torn, crashes>>

\* Mistaken variant: a collector removes whatever control there is.
RemoveAny(g) ==
    /\ col[g].pc = "remove" /\ control' = 0 /\ Goes(g, "ended")
    /\ UNCHANGED <<tab, points, enabled, cancelled, clicks, channels, call, past, crashes>>

Remove(g) ==
    /\ col[g].pc = "remove" /\ Goes(g, "ended")
    /\ control' = IF control = g THEN 0 ELSE control
    /\ enabled' = enabled \ {g} /\ clicks' = clicks \ {g}
    /\ opened' = [opened EXCEPT ![g] = 0] /\ torn' = torn \ {g}
    /\ UNCHANGED <<tab, points, cancelled, channels, call, stopped, forbidden, joined,
                   crashes>>

Next ==
    \/ Connect \/ Snapshot \/ Spawn \/ Lose \/ Shutdown \/ Down
    \/ \E on \in BOOLEAN : \/ Configure(on)
                           \/ \E c \in Calls, g \in Gens : SetEnabled(c, g, on)
    \/ \E c \in Calls : CallEnds(c)
    \/ \E g \in Gens :
          \/ Retry(g) \/ Supervise(g) \/ Top(g) \/ Begin(g) \/ LeaveIdle(g) \/ Notice(g)
          \/ WorkEnds(g) \/ Open(g) \/ Ask(g) \/ OpenFails(g) \/ Opened(g) \/ LateAnswer(g)
          \/ LateClose(g) \/ Setup(g) \/ Sample(g) \/ Stall(g) \/ ClickWhilePaused(g)
          \/ Unsupported(g) \/ Ends(g) \/ Close(g) \/ After(g) \/ Resume(g) \/ LeaveWait(g)
          \/ Panic(g) \/ ChildEnds(g) \/ Rest(g) \/ Remove(g)

Spec == Init /\ [][Next]_vars

-------------------------------------------------------------------------------
(***************************************************************************)
(* Properties                                                              *)
(***************************************************************************)
HasChannel(g) == col[g].pc \in {"setup", "read", "close"}
Alive(g) == col[g].pc \notin {"none", "remove", "ended"}

\* When a stop has been confirmed, nothing is collected until somebody starts
\* monitoring again, also after the connection was lost and made again.
StopKept ==
    stopped => \A g \in Gens : HasChannel(g) => g \in cancelled

\* A connection in whose time the settings came to forbid monitoring, also while
\* it was being made, has no collector that may go on.
OffIsOff ==
    \A g \in Gens : HasChannel(g) /\ g = forbidden => g \in cancelled

\* A channel that keeps failing is opened so many times, then the user is asked.
RetriesBounded == \A g \in Gens : opened[g] <= MaxAttempts + 1

\* The server never has two channels of one collector, those counted that
\* were confirmed after the collector had given them up.
OneChannel == \A g \in Gens : closing[g] + (IF HasChannel(g) THEN 1 ELSE 0) <= 1

\* A collector that may go on can be reached: its control is installed.
Reachable == \A g \in Gens : Alive(g) /\ g \notin cancelled => control = g

\* No line is drawn through a time in which nothing was collected.
MonitoringSound ==
    StopKept /\ OffIsOff /\ RetriesBounded /\ OneChannel /\ Reachable /\ joined
===============================================================================
