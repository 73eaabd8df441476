------------------------------- MODULE SshConnect -------------------------------
(***************************************************************************)
(* Opening an SSH session (sessions/ssh/transport, authentication,         *)
(* ClientHandler::check_server_key): credentials, transport, host key and  *)
(* authentication of a jump host and then of the target, with questions    *)
(* the user answers in a dialog.                                           *)
(*                                                                         *)
(* The host key is checked in the session's own task, which outlives the   *)
(* opening that waits for it.  A question is a sender in a map: whoever    *)
(* answers takes it out, whoever stops waiting takes it out too, and when  *)
(* the waiting future is dropped a task does so a little later.            *)
(*                                                                         *)
(* Three things a hop has are kept apart, since the code passes them       *)
(* around one by one: the profile the opening goes by, the password that   *)
(* profile holds, saved or typed and some host's, and the handle it        *)
(* authenticates on, which stays the jump host's until the target's is     *)
(* made.  A server's list of prompts is the number of those that ask for   *)
(* a password and of others.                                               *)
(***************************************************************************)
EXTENDS Naturals, Sequences, FiniteSets

CONSTANTS
    Hops,           \* 1 for the target alone, 2 with a jump host before it
    Methods,        \* the authentication configured for a hop is one of these
    MaxRounds,      \* MAX_KEYBOARD_INTERACTIVE_ROUNDS
    MaxRestarts,    \* MAX_KEYBOARD_INTERACTIVE_RESTARTS
    Candidates      \* identities of the agent and default keys

VARIABLES
    conn,       \* the opening: whose profile it goes by, on which handle, where it is
    kbi,        \* its keyboard-interactive exchange
    method, phrase,     \* configured and saved for each hop
    password,   \* the host whose password a hop's profile holds, 0 for none
    trusted,    \* the host key each profile on disk trusts
    handler,    \* the session task of each hop
    pending,    \* pending_interactions: the questions and their answers
    dialogs,    \* the questions the renderer shows
    cleaners,   \* removals a dropped wait has left to a task
    test,       \* a connection test, not a tab
    cancelled,  \* its cancellation token
    accepted,   \* history: hops whose key matched or was accepted
    sent,       \* history: the passwords sent: whose, to which host, and how
    factor      \* history: hosts that have accepted a first factor

vars == <<conn, kbi, method, password, phrase, trusted, handler, pending, dialogs,
          cleaners, test, cancelled, accepted, sent, factor>>
config == <<method, test>>

Hop == 1..Hops
Kinds == {"credentials", "passphrase", "keyboard", "host"}
Question == [hop : Hop, kind : Kinds, n : 0..MaxRounds]
Answers == {"none", "ok", "save", "incomplete", "cancel"}
Stages == {"credentials", "transport", "handshake", "primary", "keyboard", "shell",
           "open", "failed"}

NoKbi == [fill |-> FALSE, used |-> FALSE, round |-> 0, restarts |-> 0, left |-> 0,
          filled |-> 0, from |-> "server"]
Sent == [of : 0..Hops, to : 0..Hops, by : {"password", "fill"}, after : BOOLEAN]

TypeOK ==
    /\ conn \in [hop : Hop, line : 0..Hops, at : Stages, tried : 0..Candidates, asking : BOOLEAN]
    /\ kbi \in [fill : BOOLEAN, used : BOOLEAN, round : 0..MaxRounds,
                restarts : 0..MaxRestarts, left : 0..3, filled : 0..2,
                from : {"server", "user"}]
    /\ method \in [Hop -> Methods]
    /\ password \in [Hop -> 0..Hops]
    /\ phrase \in [Hop -> {"none", "right", "wrong"}]
    /\ trusted \in [Hop -> {"none", "this", "other"}]
    /\ handler \in [Hop -> {"none", "check", "asking", "save", "accepted", "refused"}]
    /\ \A q \in pending : q \in [hop : Hop, kind : Kinds, n : 0..MaxRounds, answer : Answers]
    /\ dialogs \subseteq Question /\ cleaners \subseteq Question
    /\ {test, cancelled} \subseteq BOOLEAN
    /\ accepted \subseteq Hop /\ factor \subseteq Hop
    /\ sent \in Seq(Sent)

Init ==
    /\ conn = [hop |-> 1, line |-> 0, at |-> "credentials", tried |-> 0, asking |-> FALSE]
    /\ kbi = NoKbi /\ method \in [Hop -> Methods] /\ test \in BOOLEAN
    /\ password \in [Hop -> 0..Hops] /\ \A h \in Hop : password[h] \in {0, h}
    /\ phrase \in [Hop -> {"none", "right", "wrong"}]
    /\ \A h \in Hop : method[h] # "key" => phrase[h] = "none"
    /\ trusted \in [Hop -> {"none", "this", "other"}]
    /\ handler = [h \in Hop |-> "none"] /\ pending = {} /\ dialogs = {} /\ cleaners = {}
    /\ cancelled = FALSE /\ accepted = {} /\ factor = {}
    /\ sent = <<>>

-------------------------------------------------------------------------------
(***************************************************************************)
(* Questions                                                               *)
(***************************************************************************)
Of(q) == [hop |-> q.hop, kind |-> q.kind, n |-> q.n]
Open(q) == [hop |-> q.hop, kind |-> q.kind, n |-> q.n, answer |-> "none"]
Asked(q) == \E p \in pending : Of(p) = q
Answer(q) == (CHOOSE p \in pending : Of(p) = q).answer
Without(q) == {p \in pending : Of(p) # q}

\* The question the opening waits for.
Mine == [hop |-> conn.hop, kind |-> CASE conn.at = "credentials" -> "credentials"
                                      [] conn.at = "primary" -> "passphrase"
                                      [] OTHER -> "keyboard",
         n |-> IF conn.at = "keyboard" THEN kbi.round ELSE 0]

\* The sender goes into the map, the dialog to the renderer.
Put(q) == pending' = pending \cup {Open(q)} /\ dialogs' = dialogs \cup {q}

\* app_resolve_ssh_interaction: an answer to a question nobody waits for any
\* more is refused.  What is sent is taken out of the map here; the model
\* leaves it there, answered, until the one who asked has seen it.
Resolve(q, a) ==
    /\ q \in dialogs /\ dialogs' = dialogs \ {q}
    /\ IF Open(q) \in pending
       THEN pending' = (pending \ {Open(q)}) \cup {[Open(q) EXCEPT !.answer = a]}
       ELSE UNCHANGED pending
    /\ UNCHANGED <<conn, kbi, config, password, phrase, trusted, handler, cleaners,
                   cancelled, accepted, sent, factor>>

\* The task that PendingSshInteractionGuard leaves behind.
Clean(q) ==
    /\ q \in cleaners /\ cleaners' = cleaners \ {q}
    /\ pending' = Without(q)
    /\ UNCHANGED <<conn, kbi, config, password, phrase, trusted, handler, dialogs,
                   cancelled, accepted, sent, factor>>

\* Mistaken variant: a dropped wait leaves its question.
DropsForgetting == UNCHANGED cleaners

\* The opening is dropped while it waits for an answer.
Drops == cleaners' = IF conn.asking THEN cleaners \cup {Mine} ELSE cleaners

-------------------------------------------------------------------------------
(***************************************************************************)
(* open_session                                                            *)
(***************************************************************************)
Live == conn.at \notin {"open", "failed"}
At(stage) == conn.at = stage /\ ~conn.asking
Goes(stage) == conn' = [conn EXCEPT !.at = stage, !.asking = FALSE]
\* A test cancels its questions when the opening has returned.
Fails == Goes("failed") /\ cancelled' = (cancelled \/ test)

Asks ==
    /\ conn' = [conn EXCEPT !.asking = TRUE] /\ Put(Mine)
    /\ UNCHANGED <<kbi, config, password, phrase, trusted, handler, cleaners, cancelled,
                   accepted, sent, factor>>

Needs == method[conn.hop] = "password" /\ password[conn.hop] = 0

\* ensure_password_credentials
AskCredentials == At("credentials") /\ Needs /\ Asks
Credentials ==
    /\ At("credentials") /\ ~Needs /\ Goes("transport")
    /\ UNCHANGED <<kbi, config, password, phrase, trusted, handler, pending, dialogs,
                   cleaners, cancelled, accepted, sent, factor>>

\* The answer, or none: what is asked for again is asked of no one.
Hears(a) ==
    /\ conn.asking /\ ~cancelled /\ Asked(Mine) /\ Answer(Mine) = a
    /\ pending' = Without(Mine)

\* The user types the password of the host the dialog names.
CredentialsGiven ==
    /\ conn.at = "credentials" /\ Hears("ok") /\ Goes("transport")
    /\ password' = [password EXCEPT ![conn.hop] = Mine.hop]
    /\ UNCHANGED <<kbi, config, phrase, trusted, handler, dialogs, cleaners, cancelled,
                   accepted, sent, factor>>

\* A dialog that is cancelled, left incomplete or not answered in time ends
\* the opening, at whatever stage.
Unanswered ==
    /\ conn.asking /\ Asked(Mine)
    /\ Answer(Mine) \in {"none", "incomplete", "cancel"}
    /\ pending' = Without(Mine) /\ Fails
    /\ UNCHANGED <<kbi, config, password, phrase, trusted, handler, dialogs, cleaners,
                   accepted, sent, factor>>

\* A stage that fails or times out; the session task goes on.
StageFails ==
    /\ Live /\ ~conn.asking /\ Fails
    /\ UNCHANGED <<kbi, config, password, phrase, trusted, handler, pending, dialogs,
                   cleaners, accepted, sent, factor>>

\* The tab is closed or disconnected: the worker drops the opening.
Cancel ==
    /\ ~test /\ ~cancelled /\ Live
    /\ cancelled' = TRUE /\ Goes("failed") /\ Drops
    /\ UNCHANGED <<kbi, config, password, phrase, trusted, handler, pending, dialogs,
                   accepted, sent, factor>>

Transport ==
    /\ At("transport") /\ Goes("handshake")
    /\ handler' = [handler EXCEPT ![conn.hop] = "check"]
    /\ UNCHANGED <<kbi, config, password, phrase, trusted, pending, dialogs, cleaners,
                   cancelled, accepted, sent, factor>>

\* Mistaken variant: the target is authenticated on the jump host's handle.
HandshakeKeepingHandle ==
    /\ At("handshake") /\ handler[conn.hop] = "accepted"
    /\ conn' = [conn EXCEPT !.at = "primary",
                            !.line = IF conn.hop = 1 THEN 1 ELSE conn.line]
    /\ UNCHANGED <<kbi, config, password, phrase, trusted, handler, pending, dialogs,
                   cleaners, cancelled, accepted, sent, factor>>

\* connect_stream, connect_target_through_jump: a handle of the hop's own.
Handshake ==
    /\ At("handshake") /\ handler[conn.hop] = "accepted"
    /\ conn' = [conn EXCEPT !.at = "primary", !.line = conn.hop]
    /\ UNCHANGED <<kbi, config, password, phrase, trusted, handler, pending, dialogs,
                   cleaners, cancelled, accepted, sent, factor>>

-------------------------------------------------------------------------------
(***************************************************************************)
(* check_server_key                                                        *)
(***************************************************************************)
HostQuestion(h) == [hop |-> h, kind |-> "host", n |-> 0]

CheckKey(h) ==
    /\ handler[h] = "check"
    /\ IF trusted[h] = "this"
       THEN /\ handler' = [handler EXCEPT ![h] = "accepted"] /\ accepted' = accepted \cup {h}
            /\ UNCHANGED <<pending, dialogs>>
       ELSE /\ handler' = [handler EXCEPT ![h] = "asking"] /\ Put(HostQuestion(h))
            /\ UNCHANGED accepted
    /\ UNCHANGED <<conn, kbi, config, password, phrase, trusted, cleaners, cancelled, sent, factor>>

\* An answer, a timeout or the end of the session.
KeyDecided(h) ==
    LET q == HostQuestion(h) IN
    /\ handler[h] = "asking"
    /\ pending' = Without(q)
    /\ LET decision == IF cancelled THEN "cancel" ELSE Answer(q) IN
       /\ handler' = [handler EXCEPT ![h] = CASE decision = "save" -> "save"
                                              [] decision = "ok" -> "accepted"
                                              [] OTHER -> "refused"]
       /\ accepted' = IF decision \in {"save", "ok"} THEN accepted \cup {h} ELSE accepted
    /\ UNCHANGED <<conn, kbi, config, password, phrase, trusted, dialogs, cleaners,
                   cancelled, sent, factor>>

\* accept-and-save, under the library's lock
SaveKey(h) ==
    /\ handler[h] = "save" /\ handler' = [handler EXCEPT ![h] = "accepted"]
    /\ trusted' = [trusted EXCEPT ![h] = "this"]
    /\ UNCHANGED <<conn, kbi, config, password, phrase, pending, dialogs, cleaners,
                   cancelled, accepted, sent, factor>>

-------------------------------------------------------------------------------
(***************************************************************************)
(* authenticate_session                                                    *)
(***************************************************************************)
\* The profile's password, on the handle, n times.
Sends(by, n) ==
    sent' = sent \o [i \in 1..n |-> [of |-> password[conn.hop], to |-> conn.line,
                                     by |-> by, after |-> conn.line \in factor]]

\* The jump host is followed by the target, the target by its shell.
Authenticated ==
    /\ IF conn.hop < Hops
       THEN conn' = [conn EXCEPT !.hop = @ + 1, !.at = "credentials", !.tried = 0]
       ELSE Goes("shell")
    /\ kbi' = NoKbi

\* Mistaken variant: the password is filled in after it was accepted, too.
ContinuesWithFill(partial) ==
    /\ Goes("keyboard")
    /\ kbi' = [NoKbi EXCEPT !.fill = TRUE]
    /\ factor' = IF partial THEN factor \cup {conn.line} ELSE factor

\* What the server answers to a method: success, the end, or that it goes on
\* with keyboard-interactive, for another factor or instead of the method.
ContinuesWith(partial) ==
    /\ Goes("keyboard")
    /\ kbi' = [NoKbi EXCEPT !.fill = ~partial]
    /\ factor' = IF partial THEN factor \cup {conn.line} ELSE factor

Answered ==
    \/ Authenticated /\ UNCHANGED <<factor, cancelled>>
    \/ \E partial \in BOOLEAN : ContinuesWith(partial) /\ UNCHANGED cancelled
    \/ Fails /\ UNCHANGED <<kbi, factor>>

\* authenticate_none, which some servers accept, and then the password.
TryPassword ==
    /\ At("primary") /\ method[conn.hop] = "password"
    /\ \/ Authenticated /\ UNCHANGED <<factor, cancelled, sent>>
       \/ Answered /\ Sends("password", 1)
    /\ UNCHANGED <<config, password, phrase, trusted, handler, pending, dialogs, cleaners,
                   accepted>>

\* resolve_managed_private_key: a saved passphrase that is wrong is forgotten.
AskPassphrase ==
    /\ At("primary") /\ method[conn.hop] = "key" /\ phrase[conn.hop] # "right"
    /\ phrase' = [phrase EXCEPT ![conn.hop] = "none"]
    /\ conn' = [conn EXCEPT !.asking = TRUE] /\ Put(Mine)
    /\ UNCHANGED <<kbi, config, password, trusted, handler, cleaners, cancelled,
                   accepted, sent, factor>>

\* A passphrase that is not the key's is an incomplete answer: Unanswered.
PassphraseGiven ==
    /\ conn.at = "primary" /\ \E a \in {"ok", "save"} :
         /\ Hears(a)
         /\ phrase' = IF a = "save" THEN [phrase EXCEPT ![conn.hop] = "right"] ELSE phrase
    /\ Answered
    /\ UNCHANGED <<config, password, trusted, handler, dialogs, cleaners, accepted, sent>>

TryKey ==
    /\ At("primary") /\ method[conn.hop] = "key" /\ phrase[conn.hop] = "right"
    /\ Answered
    /\ UNCHANGED <<config, password, phrase, trusted, handler, pending, dialogs, cleaners,
                   accepted, sent>>

\* try_system_authenticate: the agent's identities and the default keys, until
\* one is accepted or the server goes on.
TryNext ==
    /\ At("primary") /\ method[conn.hop] = "system"
    /\ \/ conn.tried < Candidates /\ Answered
       \/ /\ conn.tried < Candidates /\ conn' = [conn EXCEPT !.tried = @ + 1]
          /\ UNCHANGED <<kbi, factor, cancelled>>
    /\ UNCHANGED <<config, password, phrase, trusted, handler, pending, dialogs, cleaners,
                   accepted, sent>>

StartKeyboard ==
    /\ At("primary") /\ method[conn.hop] = "keyboard" /\ ContinuesWith(FALSE)
    /\ UNCHANGED <<config, password, phrase, trusted, handler, pending, dialogs, cleaners,
                   cancelled, accepted, sent>>

-------------------------------------------------------------------------------
(***************************************************************************)
(* try_keyboard_interactive_with_responder                                 *)
(***************************************************************************)
FromServer == At("keyboard") /\ kbi.from = "server"

KeyboardSucceeds ==
    /\ FromServer /\ Authenticated
    /\ UNCHANGED <<config, password, phrase, trusted, handler, pending, dialogs, cleaners,
                   cancelled, accepted, sent, factor>>

\* Mistaken variant: the next factor is filled in as the first one.
KeyboardNextFilled ==
    /\ FromServer /\ kbi.restarts < MaxRestarts
    /\ kbi' = [kbi EXCEPT !.restarts = @ + 1]
    /\ factor' = factor \cup {conn.line}
    /\ UNCHANGED <<conn, config, password, phrase, trusted, handler, pending, dialogs,
                   cleaners, cancelled, accepted, sent>>

\* A factor was accepted and keyboard-interactive remains.
KeyboardNext ==
    /\ FromServer /\ kbi.restarts < MaxRestarts
    /\ kbi' = [kbi EXCEPT !.restarts = @ + 1, !.fill = FALSE]
    /\ factor' = factor \cup {conn.line}
    /\ UNCHANGED <<conn, config, password, phrase, trusted, handler, pending, dialogs,
                   cleaners, cancelled, accepted, sent>>

\* The server asks; the prompts not filled in are the user's, and what is
\* filled in goes out with the user's answers.  After MaxRounds the exchange
\* is given up: StageFails.
PromptsWith(fills, passwords, others) ==
    LET left == passwords + others - fills IN
    /\ FromServer /\ kbi.round < MaxRounds
    /\ kbi' = [kbi EXCEPT !.round = @ + 1, !.used = @ \/ fills > 0, !.left = left,
                          !.filled = IF left = 0 THEN 0 ELSE fills,
                          !.from = IF left = 0 THEN "server" ELSE "user"]
    /\ IF left = 0 THEN Sends("fill", fills) ELSE UNCHANGED sent
    /\ UNCHANGED <<conn, config, password, phrase, trusted, handler, pending, dialogs,
                   cleaners, cancelled, accepted, factor>>

\* Mistaken variant: every prompt for a password is filled in.
PromptedForEach(passwords, others) ==
    PromptsWith(IF kbi.fill /\ password[conn.hop] # 0 THEN passwords ELSE 0, passwords, others)

\* One prompt for the password is filled in, in one round.
Prompted(passwords, others) ==
    LET fills == kbi.fill /\ ~kbi.used /\ password[conn.hop] # 0 /\ passwords > 0 IN
    PromptsWith(IF fills THEN 1 ELSE 0, passwords, others)

AskKeyboard == At("keyboard") /\ kbi.from = "user" /\ Asks

KeyboardGiven ==
    /\ conn.at = "keyboard" /\ Hears("ok")
    /\ conn' = [conn EXCEPT !.asking = FALSE]
    /\ kbi' = [kbi EXCEPT !.from = "server", !.left = 0, !.filled = 0]
    /\ Sends("fill", kbi.filled)
    /\ UNCHANGED <<config, password, phrase, trusted, handler, dialogs, cleaners, cancelled,
                   accepted, factor>>

\* Channel, terminal and shell; a test disconnects instead.
OpenShell ==
    /\ At("shell") /\ Goes("open") /\ cancelled' = (cancelled \/ test)
    /\ UNCHANGED <<kbi, config, password, phrase, trusted, handler, pending, dialogs,
                   cleaners, accepted, sent, factor>>

Next ==
    \/ \E q \in dialogs : \E a \in Answers \ {"none"} : Resolve(q, a)
    \/ \E q \in cleaners : Clean(q)
    \/ AskCredentials \/ Credentials \/ CredentialsGiven \/ Unanswered \/ StageFails \/ Cancel
    \/ Transport \/ Handshake
    \/ \E h \in Hop : CheckKey(h) \/ KeyDecided(h) \/ SaveKey(h)
    \/ TryPassword \/ AskPassphrase \/ PassphraseGiven \/ TryKey \/ TryNext \/ StartKeyboard
    \/ KeyboardSucceeds \/ KeyboardNext \/ AskKeyboard \/ KeyboardGiven
    \/ \E passwords \in 0..2, others \in 0..1 : Prompted(passwords, others)
    \/ OpenShell

Spec == Init /\ [][Next]_vars

-------------------------------------------------------------------------------
(***************************************************************************)
(* Properties                                                              *)
(***************************************************************************)

\* What goes out on a handle is the password of the host at its other end,
\* never before that host's key matched or the user accepted it, and at most
\* once by the password method and once into a prompt, over all rounds and
\* restarts; no prompt is filled in where a factor has been accepted.  When
\* everything has come to rest no question is left behind, and an open session
\* is one of hosts that were accepted.
ConnectsSafely ==
    /\ \A i \in DOMAIN sent :
         /\ sent[i].of = sent[i].to /\ sent[i].to \in accepted
         /\ sent[i].by = "fill" => ~sent[i].after
         /\ \A j \in DOMAIN sent :
              sent[i].to = sent[j].to /\ sent[i].by = sent[j].by => i = j
    /\ ~Live /\ cleaners = {} /\ (\A h \in Hop : handler[h] \notin {"check", "asking", "save"})
         => pending = {}
    /\ conn.at \in {"shell", "open"} => accepted = Hop
===============================================================================
