# FileTerm: a verification project

FileTerm is a desktop terminal and file manager (Tauri: a Rust backend, a React
renderer). This directory holds TLA+ models of the parts of its backend that are
hard to get right and hard to test, the TLC configurations that check them on
small instances, and TLAPS proofs that hold for every instance. Paths below are
relative to `apps/tauri/src-tauri/src/` unless they start with `docs/`.

    tlc -config Terminal_safety.cfg MCTerminal.tla      # a run: PROJECT.json lists all
    tlapm TransferRunsProofs.tla                        # the proofs of a *Proofs module

`PROJECT.json` maps every definition to the lines it stands for, lists the
hazards of the code by line with the properties that answer for them, the
mutants that show that each property can be broken, and the theorems.

## 1. Inventory

| Component | State | Operations | What is hard |
|---|---|---|---|
| **Transfers** `services/transfers/{run_lifecycle,cleanup,runtime,creation}.rs` | task list, run registry (generation, token, settled flag), mutex `transfer_lifecycle` | create, pause, resume, discard, clear, shutdown, cleanup retries; the spawned run | cancellation is cooperative; worker operations outlive the run that asked for them |
| **Transfer worker** `sessions/ssh/worker/dispatch_transfer.rs` | the transfer channel, open files | stat, upload, download, replace, remove | late reports, lost answers, half-done replacements |
| **Journal** `services/transfers/{model,runtime}.rs` | journal, backup, temporary file | load, patch, persist | crashes between file operations, concurrent saves, files of a later version |
| **Directory transfers** `services/transfers/directory_*.rs` | manifest of a task | run over the entries, retry, replace | a manifest that disagrees with the files |
| **Bridge** `services/mcp/bridge/client.rs`, `runtime.rs` | session, pending calls, bounded queues | call, reconnect, heartbeat, cancel, close | threads share and replace a connection; every queue may be full |
| **Stdio process** `services/mcp/cli_runtime.rs` | registry of active ids, queue, workers | lines, cancellations, end of input | an id used again while its line waits |
| **Background commands** `services/mcp/background.rs` | registry of commands, outputs | start, read with a wait, stop, close, prune | limits under concurrency, lost wake-ups |
| **Connection operations** `services/connection_operations.rs` | records, indices by profile and tab | begin or join, attach, publish, fail, forget, prune | single flight over awaits |
| **Tabs and supervisors** `commands/{session_spawn,tab_lifecycle}.rs`, `sessions/ssh/runtime.rs` | tabs, sessions, senders, tokens | open, reconnect, disconnect, close; automatic reconnection | maps with a lock each, changed by several commands and by workers that end |
| **Approvals** `services/action_review/` | pending questions, hand-off gate, revision | ask, answer, hand off, time out, run | the timeout races the answer; the session behind a tab changes |
| **Remote commands** `services/action_review/remote_exec.rs`, `sessions/system_metrics/exec.rs` | prepared password, queue, exec channel | prepare, send, open with retries, type a password, collect, cancel | deadlines at any moment, a retry of what already ran |
| **SSH connections** `sessions/ssh/{transport,authentication}` | dialogs, accepted keys, passwords | connect, check key, authenticate, jump | dropped openings leave questions behind |
| **SSH terminals** `sessions/ssh/shell`, `worker/{shell_data,event_loop}.rs` | setup phase, deferred input, directory of the shell | type the setup, hide its echo, follow the directory | input of the user in between; stale listings |
| **Tunnels** `sessions/ssh/tunnels.rs` | listeners, targets, statuses | start, stop, edit, connect, end | an old worker's end overlaps the next worker |
| **Remote files** `sessions/ssh/` | SFTP channel, access mode, credentials | save, move, remove, switch to root | operations given up and carried out later |
| **FTP** `sessions/ftp` | control connection, uploads | replace, remove, upload, reconnect | a reply does not say what it answers |
| **Serial transfers** `sessions/serial/{transfer,kermit.rs}` | step, block number, retries | XMODEM, YMODEM, Kermit, both ends | lost, late and damaged frames |
| **Local terminals** `sessions/local_terminal` | five maps, gate, bounded output queue | start, replace, end, publish | the end of a shell meets its replacement |
| **Monitoring** `sessions/ssh/worker/metrics`, `services/workspace/monitoring.rs` | collectors, attempts, what the tab shows | open, repair, stop, switch off | a stopped collector that still publishes |
| **Connection library** `services/profile_ops` | three files | save, move, delete, read | two files and no lock for readers |
| **Storage and migration** `storage/` | stores, legacy data, marker | migrate, commit of several files | crashes between renames |
| **Backup** `services/{webdav,s3_backup}` | remote object, ETags | upload, merge, download | writes of other devices, lost answers |
| **Updates** `services/updates*` | shared status, package, helper | check, download, install, replace the program | windows race; the program is replaced by a helper |
| **Copilot** `services/ai` | conversations, requests, streams | ask, cancel, confirm, prune; decode three protocols | files, requests and deletions overlap |
| **Telnet** `sessions/telnet` | connection, options of both ends, parser, keep-alive | connect and reconnect, negotiate, encode input, end | bytes cut anywhere; option requests that cross; attempts counted |
| **Session logs** `services/session_logs.rs` | bounded queue, writer, file and its rotation | begin, write, rotate, stop, save | output never waits for the disk; a stopped writer meets the next log |
| Serial console, power lease, import plans, credentials, fonts, renderer | | | not modelled, see section 7 |

How they interact: commands of the renderer, of the Copilot and of outside
clients call the services. A tab has a worker task (its supervisor connects and
reconnects it) reached through a sender, an input channel and a cancellation
token, each in a map behind a lock of its own. Workers answer over one-shot
channels, report progress into the task list, and spawn a task per operation.
Outside clients reach the same services over the bridge: a process with a pool
of threads, a socket session with bounded queues, approvals by the user.
Transfers start runs, which send commands to the worker of a tab and go through
the journal for every lasting change.

What makes each part correct is the property of its module; section 4 states
them in a sentence each.

## 2. Modules

One module per component, named like it; `DurableList` is the abstract
specification of the journal. Every variable, constant and action carries the
name of what it models and, where that is not the function's own name, a comment
with it. `ConnectionOperations` is a module of pure operators (the registry is
changed under one lock), used by `SessionTabs`.

**Compositions.** The number of TLC runs is small and the components many, so
`MCTransferRuns`, `MCServices`, `MCStorage` and `MCTerminal` each hold instances
of several components. The parts of one composition share no variable. The
initial state chooses in `driven` which part this behaviour is about; only that
part takes steps, the others keep an initial state of theirs. The behaviours
with a given `driven` are exactly those of the part alone, so a run over `Parts`
answers for each as a run of its own would - no interleaving is lost, because
parts without common variables have none that a property could see. Components
that do interact are composed in the module itself: `SessionTabs` with
`ConnectionOperations`, `TransferRuns` with the journal's outcomes, both ends of
the bridge in `BridgeSession`, sender, line and receiver in the serial modules.

| Composition | Parts |
|---|---|
| `MCTransferRuns` | `TransferRuns`; `Monitoring` twice (one connection with a change of the setting, two connections) |
| `MCServices` | `BridgeSession`, `AgentStdio`, `ActionApproval`, `BackgroundCommands`, `UpdateService`, `PortableUpdate`, `RemoteExec`, `SessionTabs` (a tab that is opened and reconnects by itself), and a `TransferRuns` small enough for liveness |
| `MCStorage` | `TransferJournal`, `DirectoryTransfer` (uploads, downloads), `StorageMigration` (installed, portable), `BackupSync`, `ProfileLibrary`, `FtpSession` (operations, uploads), `RemoteFiles` (operations, changes of access), `ShellFollow` |
| `MCTerminal` | `ShellSetup`, `SshTunnels`, `AiChat` (two requests; one with commands), `AnswerStream`, `SshConnect` (one host, one behind a jump host), `BlockTransfer`, `KermitTransfer`, `LocalTerminal` (overlapping commands, output), `SessionLogs` (two logs one after the other; a serial one that is saved), `TelnetSession` (negotiation, data, connections that end) |
| `MCSessionTabs` | `SessionTabs` with symmetry |

The modules `TransferRunsProofs`, `SessionTabsProofs`, `AgentStdioProofs`,
`MonitoringProofs` and `MC*Proofs` hold the theorems of section 6.

### How state and actions correspond to the code

A variable stands for a map, a field or a channel of the program; the table names
the ones a reader needs to find the rest. An action is what the code does
between two awaits, or under one lock, with every write it makes there; its guard
is made of the conditions and early returns before them. Anything that may fail
(a rename, a write, an answer) has the failure as another outcome of the action.

| Module | Variables and the code | Left out or abstracted |
|---|---|---|
| `TransferRuns` | `task`, `journal`: the list and what a restart would load; `handle`, `nextGen`: `transfer_runs`; `run`: each spawned run (`pc`, token); `call`: the worker operation it sent last; `op`: the holder of `transfer_lifecycle`; `partial`, `dest`: the files | sizes are none, part, full; a patch with its journal write is one step; one tab; worker calls are not ordered among themselves; the local replacement is one step |
| `TransferJournal` | `mem`, `loaded`, `lock`, `snap`: list, first load, `transfer_journal_write`, the copy being written; `primary`, `backup`, `temporary`: the files | a list is its version |
| `DurableList` | `held`, `acked`: what memory holds, what was promised | |
| `DirectoryTransfer` | `task`, `journal`: manifest in memory and as saved; `run`; `dest`, `backup`, `part` per file; `linked`: destinations at a server that are links or belong to another user, which are emptied and copied over in place, without a backup | source files do not change; the persisted patch is one step; an error of an entry is retried 3 times as in the code |
| `BridgeSession` | `call`, `inbox`, `pending`: calls and their bounded queues; `conn`, `session`: both ends; `up`, `down`: writer queue and socket as one FIFO per direction; `work`, `active`: tasks in the application; `hung`: it does nothing any more | greeting and token; no call is helped by its deadline |
| `AgentStdio` | `id`, `active`, `flagged`, `queue`, `worker`, `answer`, `eof` | what a tool does |
| `ActionApproval` | `call`, `pending`, `reply`, `gate`, `handoff`, `prompt`, `tab` (its connection flag and revision are two writes); `appeared`: whose text the transcript shows since the question | one tab; access policy and grading, which only read; the raw route of network devices |
| `BackgroundCommands` | `phase`, `registry`, `stop`, `lifetime`, `reader`, `stopper` | text of the output |
| `UpdateService` | `status`, `package`, the mutexes `checking` and `operating`, `calls` | a version is the tag of its channel |
| `PortableUpdate` | `target`, `stages`, `helpers`, `app` | the moment between the check of the hash and the rename; users start the program only when the helpers have ended |
| `SessionTabs` | `reg`: the registry of `ConnectionOperations`; `tabs`, `sessions`, `chan`, `ctl`, `attempts`: the maps; `pc`, `at`, `kind`: commands and workers; `autoRuns`: history | what an opening does inside (`SshConnect`); delays; transfers of the tab |
| `Monitoring` | `conn`, `control`, `col`: the connection, the installed control, the collectors; `asked`, `late`, `closing`: channels; `shown`, `capable` | numbers; time; a panic drops its channel |
| `RemoteExec` | `order`, `secret`, `inbox`, `stage`, `line`, `program` (its output may end before it does), `replies`, `outcome` | words of the output other than those looked for; a deadline may pass at any moment; network devices |
| `AnswerStream` | `network`, `buffered`: lines on their way, of which a part may come before the rest; `data`: the event being read; `reader`, `text`, `gathered`, `reason`, `displayed` | length limits, UTF-8, usage numbers; an answer that is cut off ends between two lines |
| `AiChat` | `file`, `index`, `active`: conversations on disk, listed, in use; `req`, `cancelled`, `namer`: requests and title summaries; `mode`, `preview`, `revision`, `ran` | texts but whose they are; one preview at a time; the provider is a choice |
| `SshConnect` | `conn`: the profile at hand, its stage and the handle that is authenticated; `password`: whose password each profile holds; `kbi`, `handler`, `pending`, `dialogs`, `cleaners`, `trusted`; `sent`, `factor`: history, every password sent and the factors accepted | proxies, keep-alives, algorithms; prompts are counted; timeouts are failing stages |
| `SshTunnels` | `worker`, `status`, `stops`, `remote`, `busy`, `listening`, `bound`, `forwards` | bytes in the tunnel |
| `ShellSetup` | `echo`, `deferred`, `writes`, `pty`, `read`, `output`, `shown` | login shells only; failing terminal writes |
| `ShellFollow` | `shell`, `prompt`, `pending`, `wake`, `task`, `followed` | directories stand for paths; their contents do not change |
| `BlockTransfer`, `KermitTransfer` | `step`, `tries` (sender); `expected`, `staged`, `published` (receiver); `frames`/`packets`, `answers`: the line | two FileTerms on one line; a damaged one-byte answer is no other control byte; a damaged Kermit packet is a lost one; numbers count modulo 4 (256 and 64 in the code), more than there are blocks on the way |
| `FtpSession` | `conn`, `wire`: the control connection and what is on every one; `cur`, `queue`, `disk`, `up`, `flows` | one upload at a time; downloads; listing is one step |
| `RemoteFiles` | `ops`, `lock`, `wire`, `commands`, `file`, `moved`, `staging`, `backup`; `mode`, `method`, `password`, `saved`: the worker's access; `shell`: the account of the terminal's shell; `chosen`: history, who chose the mode | copy, mkdir, chmod, listing; how the terminal's bytes tell a prompt or a password |
| `LocalTerminal` | `owner`, `gates`, `senders`, `inputs`, `controls`: the five maps; `gateOpen`, `publishing`, `process`, `backlog`, `pump`, `batch`, `loop` per runtime | input, resizing; a batch is any prefix of the queue |
| `TelnetSession` | `parser`: `TelnetParser` with the options and half-read sequences; `worker`: its place, attempt, misses, login script; `inbox`, `down`, `up`, `server`; `meant`, `heard`: history | proxies, delays, encodings of characters; bytes are the few the parser tells apart |
| `SessionLogs` | `registered`: `session_log_writers`; `logs`: per log the queue, `dropped_chunks`, the writer's step, file and rotated file; `tab`, `saver`: who stops and who saves; `taken`, `dropped`: history | headers, formats; a file's length counts entries; the transcript saved for other sessions |
| `ProfileLibrary` | `public`, `store`, `folders`: the files; `act`: the holder of the lock and the unlocked reads; `accept`: history, what may be found | one credential per profile; flat folders |
| `StorageMigration` | `root`, `source`, `legacy`, `proc`, `gone` | two stores stand for all, one record per id |
| `BackupSync` | `remote`, `local`, `config`, `call`, `known`: history | encryption, signing |

**History variables** record what a property has to remember. They decide nothing the
program does; at most they end a behaviour that has reached its bound. Where a module
exempts something from a property, such a variable says exactly what: `excused` in
`TransferRuns`, `desync` in `FtpSession`, `hasty` and `outdated` in `LocalTerminal`,
`torn` and `beside` in `ProfileLibrary`, `meddled` in `RemoteExec`. What they stand for
are events of the code, they are all in the model, and section 5 says what they lead to.

`excused` is the most used of them. A report of an abandoned worker operation
that changes the task or a file, a `create` or `resume` whose journal write
failed, a stop that timed out and a forced discard that could not remove the file
take a task out of the hands of its run and of the user's last operation; the
next complete resume, pause or discard takes it back.

## 3. Runs

| Run | Instance | Question |
|---|---|---|
| `transfers` | one upload, 2 generations, 2 faults; two monitoring instances | do transfers stay reachable, tracked and truthful; is a stopped collector silent |
| `storage` | see below | do files survive failing calls, crashes, other writers and requests given up |
| `services` | 2 calls over 2 connections, 3 lines with one id, a Copilot call, 2 background commands of a tab with room for one, 3 windows, 2 update attempts, a remote command in each of its three modes | are calls, approvals, commands and updates accounted for |
| `terminal` | see below | is what a terminal shows, sends, connects and transfers right |
| `sessions` | 3 commands, 2 workers, 2 tabs, 2 operations, one profile | single flight of requests |
| `sessions_live` | 2 commands of any kind, 2 workers, one tab, automatic reconnection | do openings land and statuses settle |
| `services_live` | 2 lines, 2 ids; one command with a reader and a stopper; 2 attempts; one download; a tab with 2 connections and limit 1 | do the process, the readers, updates, operations and transfers end; are automatic reconnections bounded |
| `bridge_calls` | 2 calls, every queue of one frame, a hung application | does a call return without its deadline |
| `approval_session`, `tabs_orphan`, `migration_current`, `kermit_start` | small | each finds the statement of a comment or document violated (section 5) |

**Bounds, and why they are enough.** Faults and crashes are counted together with
small bounds (`MaxFaults`, `Faults`, `Crashes`, `Mishaps`): one lets each
of them happen at every moment, two let one hit the recovery from another, and the
journal has one because its promise does not survive two (section 5). Errors
that need no fault of the environment are never counted.

- Transfers: two generations are needed for every race between an old run, or its
  abandoned operation, and its successor; a third adds no new pair, and the proofs
  cover any number. Pausing, resuming, discarding are bounded only by that.
- Journal: 2 writers and 5 versions leave room for the load and overlapping saves
  of both. Directories: 2 files, of which one destination may exist, 2 attempts
  at each (one retry meets every state a retry can meet); uploads without and
  downloads with a crash between two runs.
- Library: 2 profiles, one credential, 2 names, 2 commands and a reader, one fault
  or crash. Migration: 2 ids, 3 starts. Backups: 2 devices that begin at one of
  2 locations.
- FTP: 2 operations, 2 control connections, one reconnection, and for uploads 2
  uploads of 2 pieces. Remote files: 2 operations, one change of mode; changes
  of access alone: 4, by the user or the terminal.
- Shell following: 2 prompts, one error, one command of the user beside the shell;
  setup: 3 pieces of input. Tunnels: 2 local rules at one address, one remote, 2
  workers one after the other, 3 commands. Reconnection: 2 connections, limit 1.
- Copilot: 2 requests with one call each, one edit, fault and restart; one request
  with 2 turns of 2 calls, one change of the tab and 2 of the mode. Streams: 2 texts,
  2 calls of 2 pieces, 2 lines on the way when the provider writes, one mishap.
- SSH: 2 authentication rounds; 1 with a jump host; 1 restart.
- Serial: files of 2 blocks and of 1, numbers modulo 4, 2 faults, 2 retries.
- Remote commands: 2 openings, 2 probes, one mishap; every kind of command, but those
  that cannot be cancelled only without `su` and without a password of their own. Local
  shells: 2 runtimes; 2 overlapping commands with little output, one command with 3
  pieces of output for a queue of one.
- Session logs: 2 logs, 4 pieces of output, a queue of 2, a file of one entry, one
  mishap; a saved one with 3 pieces and a queue of 1. Telnet: 3 requests for 2
  options (one supported, one not); 2 requests for binary mode with 2 pieces of
  data of every kind and one of input; one automatic reconnection, one missed
  keep-alive and one fault, with a login script; lines end as `cr` and a NUL (no run
  has another newline mode).

Where a component has no bound on users' actions, the bound is the number of
commands or calls, and the actions each may take are all enabled at every
moment the code allows.

Deadlock is checked where the system cannot stop (`transfers`); the others
end when their calls, commands or faults are used up, so they do not ask for it.

**Fairness.** Every fairness condition is one of the asynchronous runtime or of a
thread: a task that can go on goes on. `TransferRuns`: the operation in progress,
each run, each worker operation (every await there ends: a channel answers or
closes, a call has a timeout, a settled flag is sent by a task that ends itself).
`AgentStdio`: each worker's steps. `BackgroundCommands`: a command's loop once it was
told to stop, the end of its task, readers and stoppers. `BridgeSession`: callers,
readers, the heartbeat, the session and the end of accepted work, weakly; `Reply`
strongly, because waiters for a bounded queue are served in order. `PortableUpdate`:
the program and the helpers. `SessionTabs`: commands, supervisors, the end of an
opening (it has timeouts), and leaving the event loop once the token is cancelled
or the channel is closed. Nothing is assumed of users, faults, servers or peers: the
liveness properties hold with the connection gone for good.

## 4. Properties

| Property | States |
|---|---|
| `QuiescentApply`, `NoOrphan`, `FilesTracked` | pause, discard and shutdown change a task when none of its runs is under way; an active task is in somebody's hands; done means complete, discarded means the checkpoint is gone or known to be due |
| `ExplicitRestart`, `CheckpointKept` | only the user starts a transfer again; a checkpoint goes only by a discard, a due cleanup or by becoming the destination |
| `OperationsEnd`, `TransfersResolve` | operations release the mutex; transfers come to rest |
| `MonitoringSound` | a collector stopped by the user, the setting or a lost connection publishes nothing more, one at most opens a channel, a tab shown as stopped is |
| `JournalIsKept` | the journal implements `DurableList`; its files hold the newest saved list; lists of later versions stay |
| `RunsLeaveOrder` | however a directory run ends, files and entries agree; an old file is there until the new one is, and one written in place is given up for a whole partial file only, which stays until it was copied |
| `MigrationIsWhole` | as a whole or not at all, and deleted records do not return |
| `UploadsKeepOthers` | no upload takes away a version its device has not seen |
| `LibraryKept` | connections and credentials are found together as last saved |
| `FtpKeepsFiles`, `RemoteFilesSafe` | a replaced file is somewhere; an upload or save that succeeded is whole and stands; root mode needs a credential that was tried when the user chose it, and a shell of another account when the shell did |
| `SessionsAccounted`, `CallsReturn` | one session, its work ends with it, no call starts twice, calls return |
| `AnswersUnambiguous`, `EofEnds` | no two waiting lines with one id, one answer each; the end of input ends the process |
| `ApprovalsAreTrue` | what was approved happens once, where it was approved, as reported; what counts as executed in the terminal was handed to it or, declined, seen there; a password goes to the session its prompt named |
| `CommandsTracked`, `ReadersWake` | limits hold for what runs, running commands are not forgotten, results are final; readers wake |
| `UpdatesAreTrue`, `UpdatesEnd` | the status names what would be installed; there is one program, it starts, and runs once; updates end |
| `OneFlightPerProfile`, `FlightsLand`, `ConnectionsSettle` | requests share one attempt; attempts end; statuses settle |
| `AutomaticRunsBounded` | an unstable connection is not repeated for ever |
| `PaneSettles`, `InputIntact` | the pane ends where the shell is; input arrives once, in order, and never in the setup command |
| `TunnelsAccounted` | what listens can be stopped or is about to close and is shown |
| `ConnectsSafely` | passwords go to hosts that were accepted, each to its own, once by the password method and once into a prompt, never to a second factor; no dialog stays behind |
| `ConversationsSound` | stored conversations, index and requests agree; commands run where and while confirmed |
| `SerialFilesArrive` | what is published is what was sent |
| `CommandsRunOnce` | a remote command starts once, gets its password when asked, is saved only if tried, and is not left behind, unless its output ended before it did |
| `StreamsWhole` | a streamed answer is what the provider wrote, or an error; a local shell's output is shown whole, by its tab's own shell only; a Telnet server is shown and hears what was meant, and both ends agree on the options; a log holds what was printed, in order, and announces its gaps |

## 5. Findings

Four runs show that the program does not do what its own text says.

1. **A worker without a tab** (`tabs_orphan`). An open or a reconnect that has claimed
   its tab inserts the sender and starts the worker without looking whether the
   tab is still listed (`commands/tab_lifecycle.rs:177`); a close in between leaves
   the leak that `commands/session_runtime.rs:541` warns of.
2. **A command in the session after** (`approval_session`). The revision of an
   external command is taken after the wait for its approval
   (`services/action_review/remote_exec.rs:220`), against the comment at 215.
3. **A crash loses the current connections** (`migration_current`). Between two
   renames of `storage/json_io.rs:28` a store is missing; the next start takes it
   for empty (`docs/architecture.md:234` has the current data win).
4. **A repeated opening packet** (`kermit_start`). `sessions/serial/kermit.rs:200`
   answers it without parameters; sender and receiver then disagree about quoting,
   and both report success for another file (comment at 300: "is safe").

**Read in the code and not claimed by a run** - some were checked by TLC on the
side, some lie outside the abstraction of the modules; each is a place to look at.

- Transfers: a progress report sets running without looking at the status
  (`services/transfers/runtime.rs:175`); an upload whose connection is lost fails
  instead of pausing (`directory_execution.rs:565`, `docs/architecture.md:243`);
  two crashes lose the journal (`model.rs:379` removes the backup first).
- Library: accesses without the library lock beside a command lose data
  (`profile_ops/secrets.rs:139`); an import that fails half-way reports neither
  its failures nor keeps its plan (`services/connections.rs`).
- Monitoring: `app_reconnect` reads the profile before it resets the capability;
  after a lost transport a request to start is answered "queued" though nobody
  will serve it.
- Directory transfers: an upload onto a link or another user's file that breaks off
  leaves the file torn, and a later attempt that starts the entry anew truncates the
  partial file too (`sessions/ssh/transfer_io.rs:201`).
- Approvals: a command that was declined is answered "executed in the terminal" when
  its text is found anywhere in the transcript since, whoever wrote it
  (`services/ai/chat_runtime.rs:196`, `services/ai/tool_policy.rs:257`).
- Remote commands: when the output ends and the channel then stays silent, the read ends
  with a result while the command goes on, and nobody terminates it
  (`sessions/system_metrics/exec.rs:653`); a refusal seen by an older command clears a
  newer password; an unverified password is saved after a timeout or a lost connection;
  a program that prints "password" under a passwordless `su` gets the password as input;
  without one, `sudo -S` hands it to the program's standard input; a cancelled caller's
  background command goes on without the caller knowing its id.
- Streams: a stream that ends without its end marker counts as complete; calls are
  ordered by the text of their keys; a gateway that repeats a function's name in
  every fragment doubles it.
- Local shells: the clean-up of an ended shell takes the maps' entries of the one
  that replaced it (`sessions/local_terminal/worker.rs:650`); a start that fails late
  does the same; a stale "connected" may be published; waiting for the gate is
  given up after 250 ms and old output may follow.
- FTP: a cancelled operation leaves its reply on the connection; a server that
  accepts and drops is reconnected to for ever; a late RNTO may move a file away.
- Serial: a sender reports success though the receiver refused the last file at its very
  end, or could not publish it (both acknowledge the end first); XMODEM may publish a
  file cut short by CAN after the last block.
- Root access: a change of the shell's account switches the file operations to root mode
  with a password that may be absent and was not tried
  (`sessions/ssh/worker/shell_data.rs:138`); a half-typed password may be promoted to
  the cache by a prompt; an authentication failure clears one of three caches.
- Session logs: a rotation between the two reads of a save leaves a gap, or an
  answer without what was rotated away (`services/session_logs.rs:379`).
- Telnet: reconnections are not bounded by unstable connections as those of SSH
  are (`next_attempt` where the SSH supervisor has `next_attempt_after_connection`);
  the size of the window is 80x24 again after a reconnection until it changes;
  what is typed during an outage goes to the next connection.
- Backup: the configuration saved at the end of an upload undoes settings changed
  meanwhile.

## 6. Proofs

TLC answers for the instances of section 3; the `*Proofs` modules hold, for every
value of the constants, theorems that `tlapm` checks to the last leaf. Each has the
form `Hypotheses => (Spec => []Property)`. The hypotheses say that names that stand
for different things differ and that bounds are numbers; no theorem assumes
anything about the behaviour.

| Theorem | Property | Hypotheses on the constants |
|---|---|---|
| `TransferRunsProofs.TypeCorrect`, `Reachable`, `Quiescent`, `Resumable`, `StartedByUser`, `FilesAreTracked`, `Kept`, `NeverOrphaned` | `TypeOK`, `QuiescentApply`, `ExplicitRestart`, `FilesTracked`, `CheckpointKept`, `NoOrphan` and the lemmas of their own right | `TransferAssumption`, an ASSUME that TLC evaluates on every run: uploads are transfers, bounds are numbers |
| `SessionTabsProofs.OneFlight` | `OneFlightPerProfile` | "none" is no tab, profile or operation; commands are not workers |
| `SessionTabsProofs.AutomaticRuns`, `MCServicesProofs.ReconnectsBounded` | `AutomaticRunsBounded` | in addition commands only open tabs or ask for connections, and the limit is at least 1 |
| `AgentStdioProofs.Unambiguous`, `MCServicesProofs.AnswersAreUnambiguous` | `AnswersUnambiguous` | "none" is no id, the queue's bound is a number |
| `MonitoringProofs.Sound`, `MCTransferRunsProofs.MonitoringIsSound` | `MonitoringSound` | generations are positive numbers |
| `MCServicesProofs.UpdatesStayTrue` | `UpdatesAreTrue` | "none" and somebody else's program are nothing else |
| `MCServicesProofs.CommandsStayTracked` | `CommandsTracked` | finitely many commands |
| `MCServicesProofs.ApprovalsStayTrue` | `ApprovalsAreTrue` | the Copilot's calls are not outside clients'; "none" is no decision or result |
| `MCServicesProofs.SessionsStayAccounted` | `SessionsAccounted` | "none" is no call, session or result; queues of one frame (no step of the proof uses their length) |
| `MCStorageProofs.JournalPromiseKept` | `JournalIsKept`, the refinement of `DurableList` | a torn file and one of a later version are no lists; one mishap |
| `MCStorageProofs.BackupsKeepOthers` | `UploadsKeepOthers` | bounds are numbers |
| `MCStorageProofs.PaneFollows` | `PaneSettles` | "none" is no directory, request or user; two prompts, one error |
| `MCTerminalProofs.TunnelsStayAccounted` | `TunnelsAccounted` | local rules are not remote ones; two workers one after the other |

### Along which argument

Nearly no property is inductive as it stands: it speaks of what the user can see,
and a step from a state that is never reached, but that the property does not
exclude, would violate it. Each proof strengthens its property by an invariant
of named parts, checked by TLC on the run's instance (or a larger one) before it
was proved; one lemma per action shows that it keeps the parts it can disturb.

- **Transfers.** `TypeOK`; then `RunsReachable`: a run that has not settled is the
  registered one and its generation the newest; `Waits`: an operation that is past
  its wait has no run left, which is `QuiescentApply`; `StatusInv`: a task whose run
  works is active and resumable, and what is excused is excused by an event;
  `CustodyInv`: the registry, the operation and its cancellations fit, so every
  active task has a holder (`NoOrphan`); `FilesInv`: what the lists say is true of
  the files, call by call and stage by stage (`FilesTracked`); `KeptInv`: who removes
  a checkpoint has cleared its task before (`CheckpointKept`). `FilesTracked` needs the
  last three because what makes it true at the end of a run was decided stages
  earlier, by an answer that may have come late.
- **Sessions.** `OneFlightPerProfile` follows from the soundness of the registry (an
  index never names a finished or foreign operation) and from whom each command and
  worker holds an operation for. `RunsInv`: a tab is in one pair of hands, a token
  belongs to a worker of its tab, a worker's count starts anew exactly at a
  connection that held, so the automatic runs are at most the attempts counted. With
  disconnects and reconnects of the user among them the bound is false as stated:
  a command starts the count anew when it ends, after a run has already begun.
- **Stdio process.** A line in the queue or at a worker has its id in the registry
  as its own, so no second line gets past the check.
- **Monitoring.** What a collector may still publish depends on the generation
  installed, its token, the connection and the setting: `Held`, `Current`,
  `Showing`, `StoppedShown`, `Forbids`, `Counted`, `OneOpening`, `Marked`.
- **Updates.** `UpdateInv`: a call past its check holds the mutex, the answer it
  waits for is of its channel, the package is the one its call names. `HelperInv`:
  only the helper of the last attempt works, only when the program is down; what
  it put aside is the original; a missing program means that a helper is at work
  or that two mishaps happened.
- **Background commands.** `BackgroundInv`: what runs without having been told to
  stop is listed; what may be pruned does not run; a stopper is told before its
  command leaves the list; the limit is a statement about cardinalities, so each
  action that adds a command adds one to a set that had room.
- **Approvals.** `ApprovalInv`: whoever takes the question out of the list, the user's
  answer or the timer, goes on, and the others find it gone; the gate of the
  handoff decides between the timer and the click; a started command is the one
  that was decided; the session is fixed while the revision is the bound one; a
  prompt is answered once. What is reported as executed in the terminal has two ways
  there, and the invariant keeps them apart by the decision: handed over, the command
  is among those that ran; declined, it ran nowhere and is not going to.
- **Bridge.** `BridgeInv`: a call that was not sent has no work, and its request is in
  one queue once, so reading it starts the work once; who works serves a session
  that is there; a call that waits is registered, or its answer is on the way; who is
  told that its session is gone is told the truth, and so forgets no open session;
  hence, as long as no full queue refused a call, the open session is the client's
  and whoever connects finds none (`OneCurrent`).
- **Journal.** `JournalInv` says for every point of a write which of the three files
  is readable and holds which list; refinement then maps a step to the step of
  `DurableList` or to a stutter. With two mishaps the promise is false by the
  design of the code, which removes the backup first: that is why `MaxFaults` is 1.
- **Backups.** `BackupInv`: an ETag is given once, an absent object is empty, a merge
  begins with the content it will replace, and what a device has recorded as
  synchronised it knows.
- **File pane.** `FollowInv`: the session knows the shell's directory and user as far as
  they were reported (`Told`); a listing shown as under way is one (`LoadingEnds`); and
  as long as nobody disturbed the pane something still brings it to the shell
  (`Underway`): the event loop is not ready, a prompt is to be reported, a loud request
  waits, its listing is on the way, or the pane is there.
- **Tunnels.** `TunnelInv`: `Serves`, `Forwarded`, `OneListener`, `InOrder`: a worker that
  has not connected has nothing; what it can stop listens, unless an answer came
  late; an entry in the tab's table belongs to a rule that some worker has, and a
  worker loses one only to the other.

### From a part to its composition

The parts of a composition share no variable, so for every part `PartInv` is
`driven = "part" => Inv`. A step of the composition is a step of the driven part or
leaves its variables as they are; a lemma per composition says so, and the
theorem follows. Where the part has a proofs module of its own, the composition
has an instance of that module as well and proves that its initial states and
steps are those of the instance that TLC runs.

### What is only model-checked

- All liveness (`OperationsEnd`, `TransfersResolve`, `CallsReturn`, `EofEnds`,
  `ReadersWake`, `UpdatesEnd`, `FlightsLand`, `ConnectionsSettle`): fairness and ENABLED
  are beyond the prover.
- `InputIntact`, `StreamsWhole`, `SerialFilesArrive`: what is shown or published is
  compared with a whole sequence through a definition that recurs over it; the
  provers at hand cannot do induction over data.
- `RunsLeaveOrder`, `MigrationIsWhole`, `LibraryKept`, `FtpKeepsFiles`,
  `RemoteFilesSafe`, `CommandsRunOnce`, `ConversationsSound`, `ConnectsSafely`, and
  `TypeOK` of `MCStorage`, `MCServices` and `MCTerminal`: nothing forbids a proof; each
  needs an inductive invariant over the program counters of its component that has not
  been written.

## 7. Plan and what is not modelled

Done: the components above. Next, in this order: proofs of the safety properties that
are only model-checked (section 6 lists them); the serial console's worker; the
collection of the tree of a directory transfer; the recognition of prompts and passwords
in the terminal's bytes, which `RemoteFiles` takes for granted; import plans with
`ProfileLibrary`.

**Not modelled, and why.** The serial console moves bytes between a port and the
terminal under a worker much like Telnet's, with pacing and control lines of the
device. Import and export, fonts, preferences and windows have no concurrency of
their own. Cryptography is not a question about states. The renderer sends the
commands that are user steps here. The power lease is a count around a platform
call. What other programs do (the SSH library, servers, providers, the file
system) appears as the choices they leave to FileTerm, marked `external` in the map.
