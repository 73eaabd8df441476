------------------------------- MODULE ShellSetup -------------------------------
(***************************************************************************)
(* The command an SSH worker types into the shell of the user to learn its *)
(* directory (sessions/ssh/shell/shell_setup.rs, worker/event_loop.rs,     *)
(* worker/shell_data.rs).  It may be typed only at a prompt nobody has     *)
(* typed at; what the user types until the shell has run it is held back;  *)
(* its echo and the prompt it redraws are not shown.  Two deadlines give   *)
(* up waiting for shells that never print what is waited for, and Ctrl+C   *)
(* passes at any time.  The repetition in a root shell is left out.        *)
(***************************************************************************)
EXTENDS Naturals, Sequences, SequencesExt

CONSTANTS
    Chunks,     \* bound: pieces of input of the user
    None

VARIABLES
    auxiliary,  \* the platform of the server is still being found out
    seen,       \* startup_prompt ends with a prompt
    started,    \* terminal_input_started
    waiting,    \* shell_setup_waiting_for_prompt
    echo,       \* pending_shell_setup_echo
    deferred,   \* deferred_terminal_input
    writes,     \* the queue of the terminal writer
    pty,        \* what the shell was given, in order
    read,       \* how much of it the shell has read
    output,     \* what the shell printed and the worker has not read
    plain,      \* the prompt of this shell looks like one
    typed,      \* the pieces the user typed, in order: interrupts or text
    dropped,    \* those an interrupt discarded
    shown,      \* prompts on the screen
    gaveUp      \* a deadline passed

vars == <<auxiliary, seen, started, waiting, echo, deferred, writes, pty, read,
          output, plain, typed, dropped, shown, gaveUp>>

Setup == 0      \* the command in the pty; the pieces of the user are 1, 2, ...
Echo == [marker : BOOLEAN, release : BOOLEAN]
Pieces == 1..Chunks

TypeOK ==
    /\ {auxiliary, seen, started, waiting, plain, gaveUp} \subseteq BOOLEAN
    /\ echo \in Echo \cup {None}
    /\ deferred \in Seq(Pieces) /\ writes \in Seq(Pieces)
    /\ pty \in Seq(Pieces \cup {Setup}) /\ read \in 0..Len(pty)
    /\ output \in Seq({"prompt", "ready"})
    /\ typed \in Seq({"text", "interrupt"}) /\ dropped \subseteq Pieces /\ shown \in Nat

Init ==
    /\ auxiliary = TRUE /\ seen = FALSE /\ started = FALSE /\ waiting = FALSE
    /\ echo = None /\ deferred = <<>> /\ writes = <<>> /\ pty = <<>> /\ read = 0
    /\ output = <<"prompt">> /\ plain \in BOOLEAN
    /\ typed = <<>> /\ dropped = {} /\ shown = 0 /\ gaveUp = FALSE

-------------------------------------------------------------------------------
\* write_shell_data of the setup command, past the queue of the writer.
Inject(e) == pty' = Append(pty, Setup) /\ echo' = e

\* flush_deferred_terminal_input
flush_deferred_terminal_input == writes' = writes \o deferred /\ deferred' = <<>>

\* Mistaken variant: the command is typed whether or not the user was faster.
AuxiliaryReadyAnyway(script, ok) ==
    /\ auxiliary /\ auxiliary' = FALSE /\ seen' = FALSE
    /\ waiting' = (script /\ ~seen)
    /\ IF script /\ seen /\ ok THEN Inject([marker |-> FALSE, release |-> FALSE])
                               ELSE UNCHANGED <<pty, echo>>
    /\ UNCHANGED <<started, deferred, writes, read, output, plain, typed, dropped, shown, gaveUp>>

\* The platform is known; script says whether there is a command for it.
AuxiliaryReady(script, ok) ==
    /\ auxiliary /\ auxiliary' = FALSE /\ seen' = FALSE
    /\ LET wanted == script /\ ~started IN
       /\ waiting' = (wanted /\ ~seen)
       /\ IF wanted /\ seen /\ ok
          THEN Inject([marker |-> FALSE, release |-> FALSE])
          ELSE UNCHANGED <<pty, echo>>
    /\ UNCHANGED <<started, deferred, writes, read, output, plain, typed, dropped, shown, gaveUp>>

\* The user types.
TypeText ==
    /\ Len(typed) < Chunks
    /\ typed' = Append(typed, "text") /\ started' = TRUE
    /\ IF waiting \/ echo # None
       THEN deferred' = Append(deferred, Len(typed')) /\ UNCHANGED writes
       ELSE writes' = Append(writes, Len(typed')) /\ UNCHANGED deferred
    /\ UNCHANGED <<auxiliary, seen, waiting, echo, pty, read, output, plain, dropped, shown, gaveUp>>

\* Ctrl+C is never held back, and discards what is.
TypeInterrupt ==
    /\ Len(typed) < Chunks
    /\ typed' = Append(typed, "interrupt") /\ started' = TRUE
    /\ dropped' = dropped \cup ToSet(deferred) /\ deferred' = <<>>
    /\ writes' = Append(writes, Len(typed'))
    /\ UNCHANGED <<auxiliary, seen, waiting, echo, pty, read, output, plain, shown, gaveUp>>

\* The terminal writer.
Write ==
    /\ writes # <<>>
    /\ pty' = Append(pty, Head(writes)) /\ writes' = Tail(writes)
    /\ UNCHANGED <<auxiliary, seen, started, waiting, echo, deferred, read, output, plain,
                   typed, dropped, shown, gaveUp>>

\* The shell reads a line and prompts again; the setup command announces
\* itself first, in a shell that understands it.
ShellRuns(understands) ==
    /\ read < Len(pty)
    /\ read' = read + 1
    /\ output' = output \o IF pty[read'] = Setup /\ understands THEN <<"ready", "prompt">>
                                                                ELSE <<"prompt">>
    /\ UNCHANGED <<auxiliary, seen, started, waiting, echo, deferred, writes, pty, plain,
                   typed, dropped, shown, gaveUp>>

-------------------------------------------------------------------------------
(***************************************************************************)
(* Output.  A prompt that does not look like one is text like any other.   *)
(***************************************************************************)

Looks == Head(output) = "prompt" /\ plain

\* suppress_shell_setup_echo: swallowed until the prompt after the marker.
Suppress ==
    /\ output # <<>> /\ echo # None
    /\ output' = Tail(output)
    /\ IF Looks /\ echo.marker
       THEN /\ echo' = None /\ flush_deferred_terminal_input
            /\ shown' = shown + IF echo.release THEN 1 ELSE 0
       ELSE /\ echo' = [echo EXCEPT !.marker = @ \/ Head(output) = "ready"]
            /\ UNCHANGED <<deferred, writes, shown>>
    /\ UNCHANGED <<auxiliary, seen, started, waiting, pty, read, plain, typed, dropped, gaveUp>>

\* The prompt that was waited for is kept back and the command is typed at it.
PromptArrives(ok) ==
    /\ output # <<>> /\ waiting /\ Looks
    /\ output' = Tail(output) /\ waiting' = FALSE
    /\ IF ok THEN /\ Inject([marker |-> FALSE, release |-> TRUE])
                  /\ UNCHANGED <<deferred, writes, shown>>
             ELSE /\ flush_deferred_terminal_input
                  /\ shown' = shown + 1
                  /\ UNCHANGED <<pty, echo>>
    /\ UNCHANGED <<auxiliary, seen, started, read, plain, typed, dropped, gaveUp>>

Show ==
    /\ output # <<>> /\ echo = None /\ ~(waiting /\ Looks)
    /\ output' = Tail(output)
    /\ seen' = (auxiliary /\ (IF started THEN seen ELSE Looks))
    /\ shown' = shown + IF Head(output) = "prompt" THEN 1 ELSE 0
    /\ UNCHANGED <<auxiliary, started, waiting, echo, deferred, writes, pty, read, plain,
                   typed, dropped, gaveUp>>

\* SHELL_SETUP_PROMPT_TIMEOUT
PromptTimeout ==
    /\ waiting /\ waiting' = FALSE /\ gaveUp' = TRUE
    /\ flush_deferred_terminal_input
    /\ UNCHANGED <<auxiliary, seen, started, echo, pty, read, output, plain, typed, dropped, shown>>

\* SHELL_SETUP_TIMEOUT, or the short delay after the marker.
EchoTimeout ==
    /\ echo # None /\ echo' = None /\ gaveUp' = TRUE
    /\ flush_deferred_terminal_input
    /\ UNCHANGED <<auxiliary, seen, started, waiting, pty, read, output, plain, typed, dropped, shown>>

Next ==
    \/ \E b, ok \in BOOLEAN : AuxiliaryReady(b, ok)
    \/ TypeText \/ TypeInterrupt \/ Write \/ Suppress \/ Show
    \/ \E b \in BOOLEAN : ShellRuns(b) \/ PromptArrives(b)
    \/ PromptTimeout \/ EchoTimeout

Spec == Init /\ [][Next]_vars

-------------------------------------------------------------------------------
(***************************************************************************)
(* Properties                                                              *)
(***************************************************************************)

\* Positions of the setup command in the pty.
Injected == {i \in DOMAIN pty : pty[i] = Setup}
UserInput == SelectSeq(pty, LAMBDA p : p # Setup) \o writes \o deferred

\* What the user types reaches the shell in its order and once, except what an
\* interrupt discarded, and is held back only while something will still let
\* it go.  The setup command is typed at most once, never after text of the
\* user, and no text enters the shell while its echo is awaited.  Without
\* input and without a deadline the user ends up with exactly one prompt.
InputIntact ==
    /\ \A i, j \in DOMAIN UserInput : i < j => UserInput[i] < UserInput[j]
    /\ ToSet(UserInput) \cup dropped = DOMAIN typed
    /\ \A p \in dropped : typed[p] = "text"
    /\ deferred # <<>> => waiting \/ echo # None
    /\ \A i, j \in Injected : i = j
    /\ \A i \in Injected, j \in DOMAIN pty :
         j < i \/ (j > i /\ echo # None) => typed[pty[j]] = "interrupt"
    /\ (/\ typed = <<>> /\ ~gaveUp /\ ~auxiliary /\ ~waiting /\ echo = None
        /\ output = <<>> /\ read = Len(pty)) => shown = 1
===============================================================================
