----------------------------- MODULE LocalTerminal -----------------------------
(***************************************************************************)
(* The local shells of one tab (sessions/local_terminal).  A start         *)
(* registers a new runtime with the tab, entry by entry, and spawns its    *)
(* shell, a reader thread, an output pump, a forwarder of commands and the *)
(* loop that watches over the shell.  Commands of the user may overlap     *)
(* each other and the end of an earlier runtime, which cleans up after     *)
(* itself.                                                                 *)
(*                                                                         *)
(* Runtimes are numbered as they are started.  Of the output only the      *)
(* order and the gaps count, of the input nothing: it passes two queues.   *)
(***************************************************************************)
EXTENDS Naturals, Sequences

CONSTANTS
    Runtimes,   \* shells started, 1..n
    Slots,      \* commands at work at a time
    Commands,   \* bound: commands after the opening of the tab
    Pieces,     \* bound: pieces of output of a shell
    Loud,       \* bound: the shells that write
    Capacity,   \* LOCAL_OUTPUT_CHANNEL_CAPACITY
    GiveUps,    \* bound: waits that run into their timeout
    None

VARIABLES
    \* The entries of the tab in the workspace's maps: the runtime they are of.
    owner,      \* local_terminal_runtime_ids
    gates,      \* local_terminal_runtime_gates
    senders,    \* workers
    inputs,     \* terminal_inputs
    controls,   \* worker_controls
    tabStatus, transcript,
    doing,      \* the commands: stage, runtime started, gate waited for
    commanded,
    \* Of each runtime:
    gateOpen, publishing,   \* the gate's flag, and whether its lock is held
    dismissed,  \* the token was cancelled
    shutdowns,  \* Shutdown is in the control queue
    process, made, reading, skipped, backlog, pump, batch, loop, startup,
    \* What happened
    hasty,      \* commands overlapped, or a wait was given up
    outdated,   \* a start that failed or an older runtime changed what was another's
    giveUps
localVars == <<owner, gates, senders, inputs, controls, tabStatus, transcript, doing,
               commanded, gateOpen, publishing, dismissed, shutdowns, process, made, reading,
               skipped, backlog, pump, batch, loop, startup, hasty, outdated, giveUps>>

entries == <<owner, gates, senders, inputs, controls>>
shown == <<tabStatus, transcript>>
gateVars == <<gateOpen, publishing>>
outputVars == <<process, made, reading, skipped, backlog, pump, batch>>
watching == <<dismissed, shutdowns, loop, startup>>
history == <<hasty, outdated, giveUps>>

Chunk == [n : 1..Pieces, gap : BOOLEAN] \cup [n : {0}, gap : {TRUE}]
Starting == {"workers", "inputs", "controls", "ids", "gate", "spawn"}
Stopping == {"forget", "takeGate", "await", "cancel", "unlink", "unsend"}

TypeOK ==
    /\ {owner, gates, senders, inputs, controls} \subseteq Runtimes \cup {None}
    /\ tabStatus \in {"connecting", "connected", "closed", "error"}
    /\ transcript \in Seq([of : Runtimes, n : 0..Pieces, what : {"start", "piece", "gap"}])
    /\ doing \in [Slots -> [at : {"idle", "claim", "banner", "failed", "mark"}
                                 \cup Starting \cup Stopping,
                            what : {"open", "disconnect", "reconnect"},
                            new : Runtimes \cup {None}, gate : Runtimes \cup {None}]]
    /\ commanded \in 0..Commands
    /\ gateOpen \in [Runtimes -> BOOLEAN] /\ publishing \in [Runtimes -> BOOLEAN]
    /\ dismissed \in [Runtimes -> BOOLEAN] /\ shutdowns \in [Runtimes -> BOOLEAN]
    /\ process \in [Runtimes -> {"none", "runs", "ended"}]
    /\ made \in [Runtimes -> 0..Pieces] /\ skipped \in [Runtimes -> BOOLEAN]
    /\ reading \in [Runtimes -> BOOLEAN]
    /\ backlog \in [Runtimes -> Seq(Chunk)] /\ batch \in [Runtimes -> Seq(Chunk)]
    /\ pump \in [Runtimes -> {"off", "receives", "locks", "checks", "publishes", "done"}]
    /\ loop \in [Runtimes -> {"off", "runs", "drains", "checks", "waits", "inputs", "senders",
                              "controls", "state", "done"}]
    /\ startup \in [Runtimes -> {"off", "checks", "sets", "done"}]
    /\ hasty \in BOOLEAN /\ outdated \in BOOLEAN /\ giveUps \in 0..GiveUps

First == CHOOSE s \in Slots : TRUE

\* The tab was just added, and its first shell is to be started.
Init ==
    /\ owner = None /\ gates = None /\ senders = None /\ inputs = None /\ controls = None
    /\ tabStatus = "connecting" /\ transcript = <<>>
    /\ doing = [s \in Slots |-> [at |-> IF s = First THEN "workers" ELSE "idle",
                                 what |-> "open", new |-> IF s = First THEN 1 ELSE None,
                                 gate |-> None]]
    /\ commanded = 0
    /\ gateOpen = [r \in Runtimes |-> TRUE] /\ publishing = [r \in Runtimes |-> FALSE]
    /\ dismissed = [r \in Runtimes |-> FALSE] /\ shutdowns = [r \in Runtimes |-> FALSE]
    /\ process = [r \in Runtimes |-> "none"] /\ made = [r \in Runtimes |-> 0]
    /\ reading = [r \in Runtimes |-> FALSE] /\ skipped = [r \in Runtimes |-> FALSE]
    /\ backlog = [r \in Runtimes |-> <<>>] /\ batch = [r \in Runtimes |-> <<>>]
    /\ pump = [r \in Runtimes |-> "off"] /\ loop = [r \in Runtimes |-> "off"]
    /\ startup = [r \in Runtimes |-> "off"]
    /\ hasty = FALSE /\ outdated = FALSE /\ giveUps = 0

-------------------------------------------------------------------------------
(***************************************************************************)
(* The commands: disconnect stops what runs, reconnect also starts anew    *)
(* (stop_session_worker, start_local_terminal_for_tab).  Every entry is    *)
(* changed under a lock of its own.                                        *)
(***************************************************************************)
At(s, stage) == doing[s].at = stage
Goes(s, stage) == doing' = [doing EXCEPT ![s].at = stage]
Used == {doing[s].new : s \in Slots} \cup {r \in Runtimes : loop[r] # "off"}

\* The stop at work is the one of a start that failed, and takes back its entries.
Failing(s) == doing[s].new # None
Others(s, removed) == Failing(s) /\ ~(removed \subseteq {doing[s].new, None})
OfNewer(entry, r) == entry # None /\ entry > r

Command(s) ==
    /\ At(s, "idle") /\ commanded < Commands
    /\ \E what \in {"disconnect", "reconnect"} :
         doing' = [doing EXCEPT ![s] = [at |-> IF what = "reconnect" THEN "claim" ELSE "forget",
                                        what |-> what, new |-> None, gate |-> None]]
    /\ commanded' = commanded + 1
    /\ hasty' = (hasty \/ \E t \in Slots : ~At(t, "idle"))
    /\ UNCHANGED <<entries, shown, gateVars, outputVars, watching, outdated, giveUps>>

\* claim_reconnect_tab: a tab that is being connected is left to that.
Claim(s) ==
    /\ At(s, "claim")
    /\ IF tabStatus = "connecting" THEN Goes(s, "idle") /\ UNCHANGED tabStatus
       ELSE Goes(s, "forget") /\ tabStatus' = "connecting"
    /\ UNCHANGED <<entries, transcript, commanded, gateVars, outputVars, watching, history>>

\* deactivate_local_terminal_runtime: first nobody owns the tab.
Forget(s) ==
    /\ At(s, "forget") /\ Goes(s, "takeGate") /\ owner' = None
    /\ outdated' = (outdated \/ Others(s, {owner}))
    /\ UNCHANGED <<gates, senders, inputs, controls, shown, commanded, gateVars, outputVars,
                   watching, hasty, giveUps>>

\* Then the gate is closed, and what is being published is waited for.
TakeGate(s) ==
    /\ At(s, "takeGate") /\ gates' = None
    /\ doing' = [doing EXCEPT ![s].at = IF gates = None THEN "cancel" ELSE "await",
                              ![s].gate = gates]
    /\ gateOpen' = [r \in Runtimes |-> gateOpen[r] /\ r # gates]
    /\ outdated' = (outdated \/ Others(s, {gates}))
    /\ UNCHANGED <<owner, senders, inputs, controls, shown, commanded, publishing, outputVars,
                   watching, hasty, giveUps>>

\* Mistaken variant: the closed gate is enough.
AwaitNobody(s) ==
    /\ At(s, "await") /\ Goes(s, "cancel")
    /\ UNCHANGED <<entries, shown, commanded, gateVars, outputVars, watching, history>>

\* The wait for the lock ends after a quarter of a second at most.
AwaitPublisher(s) ==
    /\ At(s, "await") /\ Goes(s, "cancel")
    /\ \/ ~publishing[doing[s].gate] /\ UNCHANGED history
       \/ /\ publishing[doing[s].gate] /\ giveUps < GiveUps
          /\ giveUps' = giveUps + 1 /\ hasty' = TRUE /\ UNCHANGED outdated
    /\ UNCHANGED <<entries, shown, commanded, gateVars, outputVars, watching>>

Cancel(s) ==
    /\ At(s, "cancel")
    /\ IF Failing(s) THEN Goes(s, "mark") /\ UNCHANGED <<controls, dismissed>>
       ELSE /\ Goes(s, "unlink") /\ controls' = None
            /\ dismissed' = [r \in Runtimes |-> dismissed[r] \/ r = controls]
    /\ UNCHANGED <<owner, gates, senders, inputs, shown, commanded, gateVars, outputVars,
                   shutdowns, loop, startup, history>>

Unlink(s) ==
    /\ At(s, "unlink") /\ Goes(s, "unsend") /\ owner' = None /\ inputs' = None
    /\ UNCHANGED <<gates, senders, controls, shown, commanded, gateVars, outputVars, watching,
                   history>>

Unsend(s) ==
    /\ At(s, "unsend") /\ senders' = None
    /\ Goes(s, IF doing[s].what = "reconnect" THEN "banner" ELSE "mark")
    /\ UNCHANGED <<owner, gates, inputs, controls, shown, commanded, gateVars, outputVars,
                   watching, history>>

\* The restart is noted in the transcript, and a new runtime made up.
Banner(s) ==
    /\ At(s, "banner")
    /\ \E r \in Runtimes :
         /\ \A u \in Runtimes : u < r <=> u \in Used
         /\ transcript' = Append(transcript, [of |-> r, n |-> 0, what |-> "start"])
         /\ doing' = [doing EXCEPT ![s].at = "workers", ![s].new = r]
    /\ UNCHANGED <<entries, tabStatus, commanded, gateVars, outputVars, watching, history>>

\* start_local_terminal_for_tab: one entry after the other.
Register(s) ==
    LET r == doing[s].new
        Over(entry) == outdated' = (outdated \/ OfNewer(entry, r)) IN
    /\ \/ At(s, "workers") /\ Goes(s, "inputs") /\ senders' = r /\ Over(senders)
          /\ UNCHANGED <<inputs, controls, owner, gates>>
       \/ At(s, "inputs") /\ Goes(s, "controls") /\ inputs' = r /\ Over(inputs)
          /\ UNCHANGED <<senders, controls, owner, gates>>
       \/ At(s, "controls") /\ Goes(s, "ids") /\ controls' = r /\ Over(controls)
          /\ UNCHANGED <<senders, inputs, owner, gates>>
       \/ At(s, "ids") /\ Goes(s, "gate") /\ owner' = r /\ Over(owner)
          /\ UNCHANGED <<senders, inputs, controls, gates>>
       \/ At(s, "gate") /\ Goes(s, "spawn") /\ gates' = r /\ Over(gates)
          /\ UNCHANGED <<senders, inputs, controls, owner>>
    /\ UNCHANGED <<shown, commanded, gateVars, outputVars, watching, hasty, giveUps>>

\* start_local_terminal_worker: the shell and its threads, or an error.
Spawn(s) ==
    LET r == doing[s].new IN
    /\ At(s, "spawn")
    /\ \/ /\ doing' = [doing EXCEPT ![s].at = "idle", ![s].new = None]
          /\ process' = [process EXCEPT ![r] = "runs"]
          /\ reading' = [reading EXCEPT ![r] = TRUE]
          /\ pump' = [pump EXCEPT ![r] = "receives"]
          /\ loop' = [loop EXCEPT ![r] = "runs"]
          /\ startup' = [startup EXCEPT ![r] = "checks"]
       \/ /\ Goes(s, "failed")
          /\ loop' = [loop EXCEPT ![r] = "done"]
          /\ UNCHANGED <<process, reading, pump, startup>>
    /\ UNCHANGED <<entries, shown, commanded, gateVars, made, skipped, backlog, batch,
                   dismissed, shutdowns, history>>

\* A start that failed takes its entries back, whosever they are (one after the
\* other in the code), and goes on to close the gate.
FailedStart(s) ==
    /\ At(s, "failed") /\ Goes(s, "forget")
    /\ senders' = None /\ inputs' = None /\ controls' = None /\ owner' = None
    /\ outdated' = (outdated \/ Others(s, {senders, inputs, controls, owner}))
    /\ UNCHANGED <<gates, shown, commanded, gateVars, outputVars, watching, hasty, giveUps>>

Mark(s) ==
    /\ At(s, "mark")
    /\ doing' = [doing EXCEPT ![s].at = "idle", ![s].new = None]
    /\ tabStatus' = IF Failing(s) THEN "error" ELSE "closed"
    /\ UNCHANGED <<entries, transcript, commanded, gateVars, outputVars, watching, history>>

-------------------------------------------------------------------------------
(***************************************************************************)
(* The output: the reader thread, a bounded queue that never blocks it,    *)
(* and the pump, which publishes under the gate's lock while the runtime   *)
(* owns the tab (emit_local_terminal_data).                                *)
(***************************************************************************)
outputFrame == <<entries, tabStatus, doing, commanded, watching, history>>

\* The shell writes a piece, and the reader queues or skips it
\* (queue_local_terminal_output).
ReadPiece(r) ==
    LET n == made[r] + 1 IN
    /\ process[r] = "runs" /\ reading[r] /\ made[r] < Pieces /\ r \in Loud
    /\ made' = [made EXCEPT ![r] = n]
    /\ IF ~gateOpen[r] \/ pump[r] = "done"
       THEN reading' = [reading EXCEPT ![r] = FALSE] /\ UNCHANGED <<skipped, backlog>>
       ELSE /\ UNCHANGED reading
            /\ IF Len(backlog[r]) < Capacity
               THEN /\ backlog' = [backlog EXCEPT ![r] = Append(@, [n |-> n, gap |-> skipped[r]])]
                    /\ skipped' = [skipped EXCEPT ![r] = FALSE]
               ELSE skipped' = [skipped EXCEPT ![r] = TRUE] /\ UNCHANGED backlog
    /\ UNCHANGED <<outputFrame, transcript, gateVars, process, pump, batch>>

\* At the end what was skipped is told if there is room.
ReadEnd(r) ==
    /\ reading[r] /\ process[r] = "ended"
    /\ reading' = [reading EXCEPT ![r] = FALSE]
    /\ backlog' = IF skipped[r] /\ Len(backlog[r]) < Capacity
                  THEN [backlog EXCEPT ![r] = Append(@, [n |-> 0, gap |-> TRUE])]
                  ELSE backlog
    /\ UNCHANGED <<outputFrame, transcript, gateVars, process, made, skipped, pump, batch>>

\* A batch: some of what is queued, in order.
Receive(r) ==
    /\ pump[r] = "receives"
    /\ \/ \E k \in 1..Len(backlog[r]) :
            /\ batch' = [batch EXCEPT ![r] = SubSeq(backlog[r], 1, k)]
            /\ backlog' = [backlog EXCEPT ![r] = SubSeq(@, k + 1, Len(@))]
            /\ pump' = [pump EXCEPT ![r] = "locks"]
       \/ /\ backlog[r] = <<>> /\ ~reading[r]
          /\ pump' = [pump EXCEPT ![r] = "done"] /\ UNCHANGED <<backlog, batch>>
    /\ UNCHANGED <<outputFrame, transcript, gateVars, process, made, reading, skipped>>

\* Mistaken variant: a gate that was closed while the pump waited goes unseen.
LockAnyway(r) ==
    /\ pump[r] = "locks" /\ ~publishing[r]
    /\ pump' = [pump EXCEPT ![r] = "publishes"]
    /\ publishing' = [publishing EXCEPT ![r] = TRUE]
    /\ UNCHANGED <<outputFrame, transcript, gateOpen, process, made, reading, skipped,
                   backlog, batch>>

Lock(r) ==
    /\ pump[r] = "locks" /\ ~publishing[r]
    /\ IF gateOpen[r]
       THEN /\ pump' = [pump EXCEPT ![r] = "checks"]
            /\ publishing' = [publishing EXCEPT ![r] = TRUE]
            /\ UNCHANGED batch
       ELSE /\ pump' = [pump EXCEPT ![r] = "done"] /\ batch' = [batch EXCEPT ![r] = <<>>]
            /\ UNCHANGED publishing
    /\ UNCHANGED <<outputFrame, transcript, gateOpen, process, made, reading, skipped,
                   backlog>>

CheckOwner(r) ==
    /\ pump[r] = "checks"
    /\ IF owner = r
       THEN pump' = [pump EXCEPT ![r] = "publishes"] /\ UNCHANGED <<publishing, batch>>
       ELSE /\ pump' = [pump EXCEPT ![r] = "done"] /\ batch' = [batch EXCEPT ![r] = <<>>]
            /\ publishing' = [publishing EXCEPT ![r] = FALSE]
    /\ UNCHANGED <<outputFrame, transcript, gateOpen, process, made, reading, skipped,
                   backlog>>

\* append_local_output_chunk: a gap is told before the piece that follows it.
Lines(r, chunk) ==
    (IF chunk.gap THEN <<[of |-> r, n |-> 0, what |-> "gap"]>> ELSE <<>>)
    \o (IF chunk.n > 0 THEN <<[of |-> r, n |-> chunk.n, what |-> "piece"]>> ELSE <<>>)

\* Mistaken variant: of a batch that starts after a gap nothing is told.
PublishPlainly(r) ==
    /\ pump[r] = "publishes"
    /\ transcript' = transcript \o [i \in 1..Len(batch[r]) |->
                         [of |-> r, n |-> batch[r][i].n, what |-> "piece"]]
    /\ batch' = [batch EXCEPT ![r] = <<>>]
    /\ pump' = [pump EXCEPT ![r] = "receives"]
    /\ publishing' = [publishing EXCEPT ![r] = FALSE]
    /\ UNCHANGED <<outputFrame, gateOpen, process, made, reading, skipped, backlog>>

Publish(r) ==
    /\ pump[r] = "publishes"
    /\ LET text[i \in 0..Len(batch[r])] ==
             IF i = 0 THEN transcript ELSE text[i - 1] \o Lines(r, batch[r][i])
       IN transcript' = text[Len(batch[r])]
    /\ batch' = [batch EXCEPT ![r] = <<>>]
    /\ pump' = [pump EXCEPT ![r] = "receives"]
    /\ publishing' = [publishing EXCEPT ![r] = FALSE]
    /\ UNCHANGED <<outputFrame, gateOpen, process, made, reading, skipped, backlog>>

-------------------------------------------------------------------------------
(***************************************************************************)
(* The shell, the forwarder and the loop (forward_terminal_commands,       *)
(* run_pty_loop, cleanup_local_terminal_runtime).                          *)
(***************************************************************************)
loopFrame == <<transcript, doing, commanded, publishing, made, reading, skipped, backlog,
               pump, batch>>

ShellExits(r) ==
    /\ process[r] = "runs" /\ process' = [process EXCEPT ![r] = "ended"]
    /\ UNCHANGED <<entries, tabStatus, loopFrame, gateOpen, watching, history>>

Released(r) == dismissed[r] \/ senders # r \/ inputs # r

\* The forwarder sends Shutdown once the token is cancelled or a sender is gone.
Forward(r) ==
    /\ loop[r] = "runs" /\ ~shutdowns[r] /\ Released(r)
    /\ shutdowns' = [shutdowns EXCEPT ![r] = TRUE]
    /\ UNCHANGED <<entries, tabStatus, loopFrame, gateOpen, process, dismissed, loop, startup,
                   history>>

\* The loop ends with the shell, or ends the shell.
EndLoop(r) ==
    /\ loop[r] = "runs" /\ (shutdowns[r] \/ process[r] = "ended")
    /\ loop' = [loop EXCEPT ![r] = "drains"]
    /\ process' = [process EXCEPT ![r] = "ended"]
    /\ UNCHANGED <<entries, tabStatus, loopFrame, gateOpen, dismissed, shutdowns, startup,
                   history>>

\* The pump is waited for, two seconds at most.
Drained(r) ==
    /\ loop[r] = "drains" /\ loop' = [loop EXCEPT ![r] = "checks"]
    /\ \/ pump[r] = "done" /\ UNCHANGED history
       \/ /\ pump[r] # "done" /\ giveUps < GiveUps
          /\ giveUps' = giveUps + 1 /\ hasty' = TRUE /\ UNCHANGED outdated
    /\ UNCHANGED <<entries, tabStatus, loopFrame, gateOpen, process, dismissed, shutdowns,
                   startup>>

\* Mistaken variant: a runtime that was replaced cleans up all the same.
CleanAnyway(r) ==
    /\ loop[r] = "checks"
    /\ loop' = [loop EXCEPT ![r] = "state"] /\ owner' = None /\ gates' = None
    /\ gateOpen' = [u \in Runtimes |-> gateOpen[u] /\ u # gates]
    /\ UNCHANGED <<senders, inputs, controls, tabStatus, loopFrame, process, dismissed,
                   shutdowns, startup, history>>

\* A runtime that still owns the tab gives it up, in one step, and closes its gate.
CleanOwn(r) ==
    /\ loop[r] = "checks"
    /\ IF owner = r
       THEN /\ loop' = [loop EXCEPT ![r] = "waits"] /\ owner' = None /\ gates' = None
            /\ gateOpen' = [u \in Runtimes |-> gateOpen[u] /\ u # gates]
       ELSE loop' = [loop EXCEPT ![r] = "done"] /\ UNCHANGED <<owner, gates, gateOpen>>
    /\ UNCHANGED <<senders, inputs, controls, tabStatus, loopFrame, process, dismissed,
                   shutdowns, startup, history>>

\* The other entries follow one by one, whosever they are by then.
CleanRest(r) ==
    LET Takes(entry) == outdated' = (outdated \/ OfNewer(entry, r)) IN
    /\ \/ /\ loop[r] = "waits" /\ loop' = [loop EXCEPT ![r] = "inputs"]
          /\ \/ ~publishing[r] /\ UNCHANGED <<hasty, giveUps>>
             \/ /\ publishing[r] /\ giveUps < GiveUps
                /\ giveUps' = giveUps + 1 /\ hasty' = TRUE
          /\ UNCHANGED <<inputs, senders, controls, outdated>>
       \/ /\ loop[r] = "inputs" /\ loop' = [loop EXCEPT ![r] = "senders"]
          /\ inputs' = None /\ Takes(inputs)
          /\ UNCHANGED <<senders, controls, hasty, giveUps>>
       \/ /\ loop[r] = "senders" /\ loop' = [loop EXCEPT ![r] = "controls"]
          /\ senders' = None /\ Takes(senders)
          /\ UNCHANGED <<inputs, controls, hasty, giveUps>>
       \/ /\ loop[r] = "controls" /\ loop' = [loop EXCEPT ![r] = "state"]
          /\ controls' = None /\ Takes(controls)
          /\ UNCHANGED <<inputs, senders, hasty, giveUps>>
    /\ UNCHANGED <<owner, gates, tabStatus, loopFrame, gateOpen, process, dismissed, shutdowns,
                   startup>>

CleanState(r) ==
    /\ loop[r] = "state" /\ loop' = [loop EXCEPT ![r] = "done"]
    /\ tabStatus' = "closed"
    /\ outdated' = (outdated \/ owner # None \/ \E s \in Slots : Failing(s) \/ At(s, "banner"))
    /\ UNCHANGED <<entries, loopFrame, gateOpen, process, dismissed, shutdowns, startup, hasty,
                   giveUps>>

\* finish_local_terminal_startup: the tab is connected if the runtime is its
\* own, which is looked at before.
FinishStartup(r) ==
    /\ \/ /\ startup[r] = "checks"
          /\ startup' = [startup EXCEPT ![r] = IF owner = r THEN "sets" ELSE "done"]
          /\ UNCHANGED <<tabStatus, outdated>>
       \/ /\ startup[r] = "sets" /\ startup' = [startup EXCEPT ![r] = "done"]
          /\ tabStatus' = "connected"
          /\ outdated' = (outdated \/ owner # r)
    /\ UNCHANGED <<entries, loopFrame, gateOpen, process, dismissed, shutdowns, loop, hasty,
                   giveUps>>

Next ==
    \/ \E s \in Slots :
         \/ Command(s) \/ Claim(s) \/ Forget(s) \/ TakeGate(s) \/ AwaitPublisher(s)
         \/ Cancel(s) \/ Unlink(s) \/ Unsend(s) \/ Banner(s) \/ Register(s) \/ Spawn(s)
         \/ FailedStart(s) \/ Mark(s)
    \/ \E r \in Runtimes :
         \/ ReadPiece(r) \/ ReadEnd(r) \/ Receive(r) \/ Lock(r) \/ CheckOwner(r) \/ Publish(r)
         \/ ShellExits(r) \/ Forward(r) \/ EndLoop(r) \/ Drained(r) \/ CleanOwn(r)
         \/ CleanRest(r) \/ CleanState(r) \/ FinishStartup(r)

Spec == Init /\ [][Next]_localVars

-------------------------------------------------------------------------------
\* Of one shell the transcript has the output in its order, each piece once, and
\* where pieces are missing between others it says so.
GapsAreTold ==
    \A i, j \in DOMAIN transcript :
        LET a == transcript[i]
            b == transcript[j] IN
        i < j /\ a.of = b.of /\ a.what = "piece" /\ b.what = "piece" =>
            /\ a.n < b.n
            /\ \/ b.n = a.n + 1
               \/ \E k \in (i + 1)..(j - 1) : transcript[k].of = a.of /\ transcript[k].what # "start"

\* Output of a shell never follows the start of a later one, unless commands
\* overlapped or the wait for what was being published was given up.
OldShellIsSilent ==
    ~hasty =>
        \A i, j \in DOMAIN transcript :
            i < j /\ transcript[i].what = "start" => transcript[j].of >= transcript[i].of

AtRest ==
    /\ \A s \in Slots : At(s, "idle")
    /\ \A r \in Runtimes :
         /\ loop[r] \in {"off", "runs", "done"}
         /\ loop[r] = "runs" => process[r] = "runs" /\ ~shutdowns[r] /\ ~Released(r)
         /\ startup[r] \in {"off", "done"}

\* However the commands and the ends of shells overlapped, unless a start that
\* failed or a replaced runtime interfered, at rest a shell that runs owns the
\* tab, with an open gate and a token, and can be written to; a tab without a
\* shell takes no input, and unless commands overlapped it has no entry left.
EntriesAgree ==
    AtRest /\ ~outdated =>
        /\ \A r \in Runtimes : loop[r] = "runs" =>
             owner = r /\ gates = r /\ gateOpen[r] /\ controls = r
        /\ (\A r \in Runtimes : loop[r] # "runs") =>
             /\ senders = None /\ inputs = None
             /\ hasty \/ (owner = None /\ gates = None /\ controls = None)

\* At rest the tab is shown as connected exactly while its shell runs, unless
\* commands overlapped or a state was set for a runtime replaced meanwhile.
StatusIsTrue ==
    AtRest /\ ~hasty /\ ~outdated =>
        (tabStatus = "connected" <=> \E r \in Runtimes : loop[r] = "runs")

\* The output of local shells is told in order and by the tab's own shell, and the
\* entries and the state of the tab agree with what runs.
LocalShellsSound == GapsAreTold /\ OldShellIsSilent /\ EntriesAgree /\ StatusIsTrue
===============================================================================
