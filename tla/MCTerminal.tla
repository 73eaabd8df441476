------------------------------ MODULE MCTerminal ------------------------------
(***************************************************************************)
(* Instances of what goes on behind a terminal tab, and of the Copilot     *)
(* beside it.  The components share no variable, so a behaviour drives one *)
(* of them, which its initial state chooses, and leaves the others as they *)
(* begin: a run over Parts answers for each of them as a run of its own    *)
(* would.                                                                  *)
(***************************************************************************)
EXTENDS Naturals, Sequences, TLC

CONSTANTS
    Parts,                                      \* what this run drives
    Chunks,                                     \* ShellSetup
    LocalRules, RemoteRules, SamePort,          \* SshTunnels
    Chats, ChatRequests,                        \* AiChat
    Authentications,                            \* SshConnect
    Protocols,                                  \* AnswerStream
    TabCommands,                                \* LocalTerminal
    None

VARIABLES
    driven,
    \* ShellSetup
    auxiliary, seen, started, waiting, echo, deferred, writes, pty, read, output,
    plain, typed, dropped, shown, gaveUp,
    \* SshTunnels
    worker, status, stops, remote, busy, listening, bound, forwards, taken,
    commands, faults,
    \* AiChat
    file, index, asking, aborted, request, namer, preview, revision, copilot, executed,
    edits, lapses, crashes,
    \* SshConnect
    conn, kbi, method, password, phrase, trusted, handler, questions, dialogs, cleaners,
    test, ended, accepted, sent, factor,
    \* BlockTransfer and KermitTransfer
    step, tries, awaiting, receiving, expected, name, asked, staged, stored, published,
    frames, answers, noise,
    ymodem, crc, part, size, eot, useCrc, held,
    content, quotes, quoted,
    \* AnswerStream
    protocol, provider, written, given, broken, network, buffered, data, reader, text,
    displayed, gathered, reason, closed, revoked, ending, failures,
    \* LocalTerminal
    owner, gates, senders, inputs, controls, tabStatus, transcript, doing, commanded,
    gateOpen, publishing, dismissed, shutdowns, process, made, reading, skipped, backlog,
    pump, batch, loop, startup, hasty, outdated, giveUps,
    \* SessionLogs
    serial, printed, registered, sink, logs, tab, saver, logged, lost, troubles,
    \* TelnetSession
    client, tabShown, parser, keyed, window, down, up, peer, meant, presented, keys,
    understood, breaks

setupVars == <<auxiliary, seen, started, waiting, echo, deferred, writes, pty, read,
               output, plain, typed, dropped, shown, gaveUp>>
tunnelVars == <<worker, status, stops, remote, busy, listening, bound, forwards, taken,
                commands, faults>>
chatVars == <<file, index, asking, aborted, request, namer, preview, revision, copilot,
              executed, edits, lapses, crashes>>
connectVars == <<conn, kbi, method, password, phrase, trusted, handler, questions, dialogs,
                 cleaners, test, ended, accepted, sent, factor>>
serialVars == <<step, tries, awaiting, receiving, expected, name, asked, staged, stored,
                published, frames, answers, noise, ymodem, crc, part, size, eot, useCrc,
                held, content, quotes, quoted>>
streamVars == <<protocol, provider, written, given, broken, network, buffered, data, reader,
                text, displayed, gathered, reason, closed, revoked, ending, failures>>
localVars == <<owner, gates, senders, inputs, controls, tabStatus, transcript, doing,
               commanded, gateOpen, publishing, dismissed, shutdowns, process, made, reading,
               skipped, backlog, pump, batch, loop, startup, hasty, outdated, giveUps>>
logVars == <<serial, printed, registered, sink, logs, tab, saver, logged, lost, troubles>>
telnetVars == <<client, tabShown, parser, keyed, window, down, up, peer, meant, presented,
                keys, understood, breaks>>
vars == <<driven, setupVars, tunnelVars, chatVars, connectVars,
          serialVars, streamVars, localVars, logVars, telnetVars>>

\* The rules of SamePort listen at one address, any other at its own.
Addresses == [r \in LocalRules \cup RemoteRules |-> IF r \in SamePort THEN None ELSE r]

Setup == INSTANCE ShellSetup
Tunnels == INSTANCE SshTunnels WITH
               address <- Addresses, Workers <- 1..2, Commands <- 3, Faults <- 1

\* Two requests of a conversation that is pruned and not always written, and
\* one request with its commands.
Chat == INSTANCE AiChat WITH
            Convs <- Chats, Requests <- ChatRequests, Turns <- 1, Calls <- 1, Permits <- 1,
            MaxRevision <- 0, MaxMode <- 0, Edits <- 1, Faults <- 1, Crashes <- 1,
            active <- asking, cancelled <- aborted, req <- request, mode <- copilot,
            ran <- executed, faults <- lapses
Tools == INSTANCE AiChat WITH
            Convs <- Chats, Requests <- {CHOOSE r \in ChatRequests : TRUE}, Turns <- 2, Calls <- 2,
            Permits <- 1, MaxRevision <- 1, MaxMode <- 2, Edits <- 0, Faults <- 0,
            Crashes <- 0, active <- asking, cancelled <- aborted, req <- request,
            mode <- copilot, ran <- executed, faults <- lapses

\* A host of any authentication, and one behind a jump host.
Connect == INSTANCE SshConnect WITH
               Hops <- 1, Methods <- Authentications, MaxRounds <- 2, MaxRestarts <- 1,
               Candidates <- 2, pending <- questions, cancelled <- ended
Jump == INSTANCE SshConnect WITH
            Hops <- 2, Methods <- {"password"}, MaxRounds <- 1, MaxRestarts <- 1,
            Candidates <- 0, pending <- questions, cancelled <- ended

\* A batch of two files, over a line that damages some of what it carries.
Blocks == INSTANCE BlockTransfer WITH
              Files <- <<2, 1>>, Modulus <- 4, StartTries <- 2, CrcTries <- 1,
              ReadyTries <- 2, MaxRetries <- 2, Faults <- 2,
              waiting <- awaiting, at <- receiving, phase <- part, attempts <- asked,
              faults <- noise
Kermit == INSTANCE KermitTransfer WITH
              Files <- <<2, 1>>, Modulus <- 4, MaxRetries <- 2, Faults <- 2,
              waiting <- awaiting, at <- receiving, file <- name,
              receiveRetries <- asked, packets <- frames, faults <- noise
blockOnly == <<ymodem, crc, part, size, eot, useCrc, held>>
kermitOnly == <<content, quotes, quoted>>

\* Answers of two pieces of text and two calls.
Stream == INSTANCE AnswerStream WITH
              Texts <- 2, Calls <- 2, Pieces <- 2, Window <- 2, Mishaps <- 1

\* Local shells of a tab whose commands overlap, and the output of one of them.
Local == INSTANCE LocalTerminal WITH
             Runtimes <- 1..2, Slots <- TabCommands, Commands <- 1, Pieces <- 1, Loud <- {1},
             Capacity <- 1, GiveUps <- 1
Output == INSTANCE LocalTerminal WITH
              Runtimes <- 1..2, Slots <- {CHOOSE s \in TabCommands : TRUE}, Commands <- 1,
              Pieces <- 3, Loud <- {1}, Capacity <- 1, GiveUps <- 0

\* Two logs of a tab, one after the other; and a serial one that is saved.
Log == INSTANCE SessionLogs WITH
           Logs <- 1..2, Capacity <- 2, Limit <- 1, Pieces <- 4, Mishaps <- 1,
           Kinds <- {FALSE}, taken <- logged, dropped <- lost, mishaps <- troubles
SaveLog == INSTANCE SessionLogs WITH
               Logs <- {1}, Capacity <- 1, Limit <- 1, Pieces <- 3, Mishaps <- 0,
               Kinds <- {TRUE}, taken <- logged, dropped <- lost, mishaps <- troubles

\* A Telnet server that asks for the window's size and for an option nobody has;
\* one that sends binary data; and one whose connection ends or breaks.
Negotiation == INSTANCE TelnetSession WITH
                   Options <- {31, 34}, Sent <- {}, Newline <- "cr", CrNul <- TRUE,
                   Script <- FALSE, Asks <- 3, Data <- 0, Typed <- 0, Sizes <- 1,
                   MaxAttempts <- 0, MaxMisses <- 0, InboxCap <- 1, Window <- 3, Faults <- 0,
                   worker <- client, status <- tabShown, inbox <- keyed, size <- window,
                   server <- peer, shown <- presented, typed <- keys, heard <- understood,
                   faults <- breaks
Telnet == INSTANCE TelnetSession WITH
              Options <- {0}, Sent <- {"iac", "return", "nul", "type"}, Newline <- "cr",
              CrNul <- TRUE, Script <- FALSE, Asks <- 2, Data <- 2, Typed <- 1, Sizes <- 0,
              MaxAttempts <- 0, MaxMisses <- 0, InboxCap <- 1, Window <- 3, Faults <- 0,
              worker <- client, status <- tabShown, inbox <- keyed, size <- window,
              server <- peer, shown <- presented, typed <- keys, heard <- understood,
              faults <- breaks
Hangup == INSTANCE TelnetSession WITH
              Options <- {0}, Sent <- {"return"}, Newline <- "cr", CrNul <- TRUE,
              Script <- TRUE, Asks <- 0, Data <- 1, Typed <- 2, Sizes <- 0, MaxAttempts <- 1,
              MaxMisses <- 1, InboxCap <- 1, Window <- 0, Faults <- 1,
              worker <- client, status <- tabShown, inbox <- keyed, size <- window,
              server <- peer, shown <- presented, typed <- keys, heard <- understood,
              faults <- breaks

Init ==
    /\ driven \in Parts
    /\ Setup!Init /\ (driven = "setup" \/ plain)
    /\ Tunnels!Init
    /\ IF driven = "tools" THEN Tools!Init ELSE Chat!Init
    /\ CASE driven = "connect" -> Connect!Init
         [] driven = "jump" -> Jump!Init
         [] OTHER -> /\ Connect!Init /\ ~test /\ method = <<"password">>
                     /\ password = <<0>> /\ trusted = <<"none">>
    /\ IF driven = "kermit"
       THEN /\ Kermit!Init
            /\ ymodem = FALSE /\ crc = FALSE /\ part = "header" /\ size = 0 /\ eot = FALSE
            /\ useCrc = FALSE /\ held = <<>>
       ELSE /\ Blocks!Init /\ (driven = "blocks" \/ ymodem)
            /\ content = "plain" /\ quotes = FALSE /\ quoted = FALSE
    /\ Stream!Init /\ (driven = "stream" \/ protocol = CHOOSE p \in Protocols : TRUE)
    /\ IF driven = "output" THEN Output!Init ELSE Local!Init
    /\ IF driven = "savelog" THEN SaveLog!Init ELSE Log!Init
    /\ Telnet!Init

Next ==
    /\ UNCHANGED driven
    /\ \/ /\ driven = "setup" /\ Setup!Next
          /\ UNCHANGED <<tunnelVars, chatVars, connectVars,
                         serialVars, streamVars, localVars, logVars, telnetVars>>
       \/ /\ driven = "tunnels" /\ Tunnels!Next
          /\ UNCHANGED <<setupVars, chatVars, connectVars,
                         serialVars, streamVars, localVars, logVars, telnetVars>>
       \/ /\ \/ driven = "chat" /\ Chat!Next
             \/ driven = "tools" /\ Tools!Next
          /\ UNCHANGED <<setupVars, tunnelVars, connectVars,
                         serialVars, streamVars, localVars, logVars, telnetVars>>
       \/ /\ \/ driven = "connect" /\ Connect!Next
             \/ driven = "jump" /\ Jump!Next
          /\ UNCHANGED <<setupVars, tunnelVars, chatVars,
                         serialVars, streamVars, localVars, logVars, telnetVars>>
       \/ /\ \/ driven = "blocks" /\ Blocks!Next /\ UNCHANGED kermitOnly
             \/ driven = "kermit" /\ Kermit!Next /\ UNCHANGED blockOnly
          /\ UNCHANGED <<setupVars, tunnelVars, chatVars,
                         connectVars, streamVars, localVars, logVars, telnetVars>>
       \/ /\ driven = "stream" /\ Stream!Next
          /\ UNCHANGED <<setupVars, tunnelVars, chatVars,
                         connectVars, serialVars, localVars, logVars, telnetVars>>
       \/ /\ \/ driven = "local" /\ Local!Next
             \/ driven = "output" /\ Output!Next
          /\ UNCHANGED <<setupVars, tunnelVars, chatVars,
                         connectVars, serialVars, streamVars, logVars,
                         telnetVars>>
       \/ /\ \/ driven = "log" /\ Log!Next
             \/ driven = "savelog" /\ SaveLog!Next
          /\ UNCHANGED <<setupVars, tunnelVars, chatVars,
                         connectVars, serialVars, streamVars, localVars,
                         telnetVars>>
       \/ /\ \/ driven = "options" /\ Negotiation!Next
             \/ driven = "telnet" /\ Telnet!Next
             \/ driven = "hangup" /\ Hangup!Next
          /\ UNCHANGED <<setupVars, tunnelVars, chatVars,
                         connectVars, serialVars, streamVars, localVars,
                         logVars>>

Spec == Init /\ [][Next]_vars

-------------------------------------------------------------------------------
(***************************************************************************)
(* Properties: the component's module states what each of them is about.   *)
(***************************************************************************)

\* Every component keeps its types; the ones that are not driven never change.
TypeOK ==
    CASE driven = "setup" -> Setup!TypeOK
      [] driven = "tunnels" -> Tunnels!TypeOK
      [] driven = "chat" -> Chat!TypeOK
      [] driven = "tools" -> Tools!TypeOK
      [] driven = "connect" -> Connect!TypeOK
      [] driven = "jump" -> Jump!TypeOK
      [] driven = "blocks" -> Blocks!TypeOK
      [] driven = "kermit" -> Kermit!TypeOK
      [] driven = "stream" -> Stream!TypeOK
      [] driven = "local" -> Local!TypeOK
      [] driven = "output" -> Output!TypeOK
      [] driven = "log" -> Log!TypeOK
      [] driven = "savelog" -> SaveLog!TypeOK
      [] driven = "options" -> Negotiation!TypeOK
      [] driven = "telnet" -> Telnet!TypeOK
      [] driven = "hangup" -> Hangup!TypeOK

\* Input reaches the shell in order and once, and the setup command alone.
InputIntact == driven = "setup" => Setup!InputIntact

\* A tunnel that listens can be stopped, and is shown as what it is.
TunnelsAccounted == driven = "tunnels" => Tunnels!TunnelsAccounted

\* What is stored of a conversation belongs together, and the commands of an
\* answer run where and while the user confirmed them.
ConversationsSound ==
    /\ driven = "chat" => Chat!ConversationsSound
    /\ driven = "tools" => Tools!CommandsConfirmed

\* Passwords go to hosts that were accepted, each to its own.
ConnectsSafely ==
    /\ driven = "connect" => Connect!ConnectsSafely
    /\ driven = "jump" => Jump!ConnectsSafely

\* What a serial transfer publishes is what was sent, whatever the line did.
SerialFilesArrive ==
    /\ driven = "blocks" => Blocks!FilesArrive
    /\ driven = "kermit" => Kermit!KermitDelivers

\* What is shown and kept of a streamed answer is what the provider wrote, of a
\* local shell what it wrote while the tab was its own, and of a Telnet server what
\* it meant; and the log of a tab is what was printed, each gap announced.
StreamsWhole ==
    /\ driven = "stream" => Stream!AnswersWhole
    /\ driven = "local" => Local!LocalShellsSound
    /\ driven = "output" => Output!LocalShellsSound
    /\ driven = "log" => Log!LogsTrue
    /\ driven = "savelog" => SaveLog!LogsTrue
    /\ driven = "options" => Negotiation!TelnetSound
    /\ driven = "telnet" => Telnet!TelnetSound
    /\ driven = "hangup" => Hangup!TelnetSound

\* A Kermit sender may repeat the packet that opens the session.
RepeatedStartIsSafe == driven = "kermit" => Kermit!RepeatedStartIsSafe
===============================================================================
