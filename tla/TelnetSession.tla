----------------------------- MODULE TelnetSession -----------------------------
(***************************************************************************)
(* A Telnet tab (sessions/telnet): the worker with its connections, and    *)
(* TelnetParser, which splits the bytes of the server, wherever the        *)
(* network cuts them, into what is shown and what is answered; the options *)
(* both ends agree on; the window's size and the user's input, encoded as  *)
(* the options require.                                                    *)
(*                                                                         *)
(* The server is external: it asks for an option, or against it, never     *)
(* twice in a row, offers binary data only after the client agreed, and    *)
(* may end the connection at any time.  Proxies, delays and the encodings  *)
(* of characters are left out.                                             *)
(***************************************************************************)
EXTENDS Naturals, Sequences, FiniteSets, SequencesExt

CONSTANTS
    Options,    \* the options that are asked for
    Sent,       \* what the server may send: of "x", "iac", "return", "nul", "type"
    Newline,    \* newlineMode
    CrNul,      \* crNul
    Script,     \* whether there is a loginScript
    Asks, Data, Typed, Sizes,  \* bounds, of a connection: requests, pieces of
                               \* data and of input, sizes of the window
    MaxAttempts,    \* reconnectMaxAttempts
    MaxMisses,      \* keepaliveMaxMisses
    InboxCap, Window,   \* bounds: commands on their way to the worker, bytes on
                        \* their way to the client when the server writes
    Faults,         \* bound: connections that fail or break
    None

VARIABLES
    worker,     \* where the worker is, its attempt, its misses, the login script
    status,     \* of the tab
    parser,     \* TelnetParser
    inbox,      \* commands
    size,       \* of the window, as the user sees it
    down, up,   \* bytes to the client, messages to the server
    server,     \* the server's end of the connection
    meant,      \* what the server's data stands for
    shown,      \* what was shown of it
    typed,      \* pieces of input so far
    heard,      \* what the server understood
    faults

telnetVars == <<worker, status, parser, inbox, size, down, up, server, meant, shown, typed,
                heard, faults>>

\* Bytes.  BINARY, the option, is the byte NUL as well.
IAC == 255
DONT == 254
DO == 253
WONT == 252
WILL == 251
SB == 250
SE == 240
BINARY == 0
ECHO == 1
GoAhead == 3
TypeOption == 24
NAWS == 31
NUL == 0
LF == 10
CR == 13
Letter == 120
Commands == {DO, DONT, WILL, WONT}

SupportsLocal(o) == o \in {BINARY, GoAhead, TypeOption, NAWS}
SupportsRemote(o) == o \in {BINARY, ECHO, GoAhead}

\* An end's options: those of the client (local) and those of the server.
NoOptions == [local |-> {}, remote |-> {}]
NewParser == [state |-> "data", command |-> 0, sub |-> <<>>, cr |-> FALSE, size |-> 0,
              on |-> NoOptions, refused |-> NoOptions]
NewServer == [asks |-> 0, data |-> 0, wants |-> NoOptions, open |-> NoOptions, on |-> NoOptions,
              size |-> None, types |-> 0, closed |-> FALSE]

\* The pieces of input: a line's end, the byte 255 and a letter in turn; the login
\* script is piece 0.
Key(n) == CASE n = 0 -> <<Letter, LF>> [] n % 3 = 1 -> <<CR>> [] n % 3 = 2 -> <<IAC>>
            [] OTHER -> <<Letter>>

TypeOK ==
    /\ worker.at \in {"connects", "runs", "waits", "over"}
    /\ worker.attempt \in 0..MaxAttempts /\ worker.misses \in 0..MaxMisses
    /\ status \in {"connecting", "connected", "closed", "error"}
    /\ parser.state \in {"data", "iac", "option", "sub", "subiac"}
    /\ parser.on.local \subseteq Options /\ parser.on.remote \subseteq Options
    /\ Len(inbox) <= InboxCap /\ size \in 0..Sizes
    /\ \A i \in DOMAIN down : down[i] \in 0..255
    /\ server.asks \in 0..Asks /\ server.data \in 0..Data
    /\ typed \in 0..Typed /\ faults \in 0..Faults

NewConnection ==
    /\ parser' = NewParser /\ server' = NewServer
    /\ down' = <<>> /\ up' = <<>> /\ meant' = <<>> /\ shown' = <<>>

Init ==
    /\ worker = [at |-> "connects", attempt |-> 0, misses |-> 0, login |-> FALSE]
    /\ status = "connecting"
    /\ parser = NewParser /\ server = NewServer
    /\ inbox = <<>> /\ size = 0
    /\ down = <<>> /\ up = <<>> /\ meant = <<>> /\ shown = <<>>
    /\ typed = 0 /\ heard = <<>> /\ faults = 0

Fault == faults < Faults /\ faults' = faults + 1
wire == <<parser, down, up, server, meant, shown, heard>>

-------------------------------------------------------------------------------
(***************************************************************************)
(* TelnetParser                                                            *)
(***************************************************************************)
Message(what, n) == [what |-> what, n |-> n, command |-> 0, bytes |-> <<>>]
Reply(command, o) == [Message("option", o) EXCEPT !.command = command]

\* naws: the size of the window.
Naws(p) == Message("size", p.size)

\* negotiate: the parser and its answers.  Only a change is answered.
Turn(p, side, o, set) ==
    [p EXCEPT !.on[side] = IF set THEN @ \cup {o} ELSE @ \ {o}]
Agrees(side) == IF side = "local" THEN WILL ELSE DO
Declines(side) == IF side = "local" THEN WONT ELSE DONT

Asked(p, side, o) ==
    LET supported == IF side = "local" THEN SupportsLocal(o) ELSE SupportsRemote(o)
        accepted == [Turn(p, side, o, TRUE) EXCEPT !.refused[side] = @ \ {o}]
    IN IF supported
       THEN [parser |-> accepted,
             writes |-> IF o \in p.on[side] THEN <<>>
                        ELSE <<Reply(Agrees(side), o)>>
                               \o IF side = "local" /\ o = NAWS THEN <<Naws(p)>> ELSE <<>>]
       ELSE [parser |-> [Turn(p, side, o, FALSE) EXCEPT !.refused[side] = @ \cup {o}],
             writes |-> IF o \in p.refused[side] THEN <<>> ELSE <<Reply(Declines(side), o)>>]

\* Mistaken variant: a refusal is never forgotten.
AskedOffStubborn(p, side, o) ==
    [parser |-> Turn(p, side, o, FALSE),
     writes |-> IF o \in p.on[side] THEN <<Reply(Declines(side), o)>> ELSE <<>>]

AskedOff(p, side, o) ==
    [parser |-> [Turn(p, side, o, FALSE) EXCEPT !.refused[side] = @ \ {o}],
     writes |-> IF o \in p.on[side] THEN <<Reply(Declines(side), o)>> ELSE <<>>]

Negotiate(p, command, o) ==
    CASE command = DO -> Asked(p, "local", o)
      [] command = DONT -> AskedOff(p, "local", o)
      [] command = WILL -> Asked(p, "remote", o)
      [] OTHER -> AskedOff(p, "remote", o)

\* receive_binary and transmit_binary
ReceiveBinary(p) == BINARY \in p.on.remote
TransmitBinary(p) == BINARY \in p.on.local

\* Mistaken variant: the carriage return is forgotten between two reads.
FeedDataAtOnce(a, byte) ==
    IF byte = IAC THEN [a EXCEPT !.p.cr = FALSE, !.p.state = "iac"]
    ELSE IF ~ReceiveBinary(a.p) /\ byte = NUL /\ a.out # <<>> /\ Last(a.out) = CR
         THEN [a EXCEPT !.p.cr = FALSE]
    ELSE [a EXCEPT !.out = Append(@, byte), !.p.cr = FALSE]

\* Data: the NUL behind a carriage return is none, unless the data is binary.
FeedData(a, byte) ==
    IF byte = IAC THEN [a EXCEPT !.p.cr = FALSE, !.p.state = "iac"]
    ELSE IF ~ReceiveBinary(a.p) /\ a.p.cr /\ byte = NUL THEN [a EXCEPT !.p.cr = FALSE]
    ELSE [a EXCEPT !.out = Append(@, byte), !.p.cr = ~ReceiveBinary(a.p) /\ byte = CR]

FeedIac(a, byte) ==
    CASE byte = IAC -> [a EXCEPT !.out = Append(@, IAC), !.p.state = "data"]
      [] byte \in Commands -> [a EXCEPT !.p.state = "option", !.p.command = byte]
      [] byte = SB -> [a EXCEPT !.p.sub = <<>>, !.p.state = "sub"]
      [] OTHER -> [a EXCEPT !.p.state = "data"]

FeedOption(a, byte) ==
    LET n == Negotiate(a.p, a.p.command, byte) IN
    [a EXCEPT !.p = [n.parser EXCEPT !.state = "data", !.command = 0], !.writes = @ \o n.writes]

FeedSub(a, byte) ==
    IF byte = IAC THEN [a EXCEPT !.p.state = "subiac"] ELSE [a EXCEPT !.p.sub = Append(@, byte)]

\* The end of a subnegotiation: the terminal's type is told if it is asked for.
FeedSubIac(a, byte) ==
    CASE byte = SE -> [a EXCEPT !.p.sub = <<>>, !.p.state = "data",
                         !.writes = IF Len(a.p.sub) > 1 /\ a.p.sub[1] = TypeOption /\ a.p.sub[2] = 1
                                    THEN Append(@, Message("type", 0)) ELSE @]
      [] byte = IAC -> [a EXCEPT !.p.sub = Append(@, IAC), !.p.state = "sub"]
      [] OTHER -> [a EXCEPT !.p.state = "sub"]

\* feed
FeedByte(a, byte) ==
    CASE a.p.state = "data" -> FeedData(a, byte)
      [] a.p.state = "iac" -> FeedIac(a, byte)
      [] a.p.state = "option" -> FeedOption(a, byte)
      [] a.p.state = "sub" -> FeedSub(a, byte)
      [] OTHER -> FeedSubIac(a, byte)
Feed(bytes) == FoldLeft(FeedByte, [p |-> parser, out |-> <<>>, writes |-> <<>>], bytes)

\* encode_telnet_input: binary data goes as it is, otherwise a line's end follows
\* the profile; 255 is always doubled.
EncodeByte(byte) ==
    IF byte \notin {CR, LF} \/ TransmitBinary(parser)
    THEN IF byte = IAC THEN <<IAC, IAC>> ELSE <<byte>>
    ELSE LET end == CASE Newline = "lf" -> <<LF>>
                      [] Newline = "crlf" -> <<CR, LF>>
                      [] Newline = "cr" -> <<CR>>
                      [] OTHER -> <<byte>>
         IN IF end = <<CR>> /\ CrNul THEN <<CR, NUL>> ELSE end
Encode(bytes) == FlattenSeq([i \in DOMAIN bytes |-> EncodeByte(bytes[i])])

-------------------------------------------------------------------------------
(***************************************************************************)
(* The server.                                                             *)
(***************************************************************************)
serverFrame == <<worker, status, parser, inbox, size, typed, faults>>
Up == worker.at = "runs" /\ ~server.closed /\ Len(down) <= Window

\* A request: for an option that was not asked for, or against one that was; an
\* answer is due if it is a change.  What the server itself does it stops at once.
Ask(side, o) ==
    LET wanted == o \notin server.wants[side]
        command == IF side = "local" THEN IF wanted THEN DO ELSE DONT
                   ELSE IF wanted THEN WILL ELSE WONT
    IN
    /\ Up /\ server.asks < Asks /\ o \notin server.open[side]
    /\ down' = down \o <<IAC, command, o>>
    /\ server' = [server EXCEPT
         !.asks = @ + 1,
         !.wants[side] = IF wanted THEN @ \cup {o} ELSE @ \ {o},
         !.open[side] = IF wanted \/ o \in server.on[side] THEN @ \cup {o} ELSE @,
         !.on[side] = IF wanted \/ side = "local" THEN @ ELSE @ \ {o}]
    /\ UNCHANGED <<serverFrame, up, meant, shown, heard>>

\* Data, its escapes, and what it stands for; the question for the type.
Wire(unit) ==
    CASE unit = "x" -> <<Letter>>
      [] unit = "iac" -> <<IAC, IAC>>
      [] unit = "return" -> IF BINARY \in server.on.remote THEN <<CR>> ELSE <<CR, NUL>>
      [] unit = "nul" -> <<NUL>>
      [] OTHER -> <<IAC, SB, TypeOption, 1, IAC, SE>>
Meaning(unit) ==
    CASE unit = "x" -> <<Letter>> [] unit = "iac" -> <<IAC>> [] unit = "return" -> <<CR>>
      [] unit = "nul" -> <<NUL>> [] OTHER -> <<>>

Send(unit) ==
    /\ Up /\ server.data < Data /\ unit \in Sent
    /\ BINARY \notin server.open.remote
    /\ unit = "nul" => BINARY \in server.on.remote
    /\ down' = down \o Wire(unit) /\ meant' = meant \o Meaning(unit)
    /\ server' = [server EXCEPT !.data = @ + 1, !.types = IF unit = "type" THEN @ + 1 ELSE @]
    /\ UNCHANGED <<serverFrame, up, shown, heard>>

\* The server decodes input: 255 is doubled, and a line ends with CR NUL, CR LF or
\* LF unless the data is binary.
Hears(bytes) ==
    LET single == IF bytes = <<IAC, IAC>> THEN <<IAC>> ELSE bytes
        ending(s, e) == Len(s) >= Len(e) /\ SubSeq(s, Len(s) - Len(e) + 1, Len(s)) = e
        cut(s, e) == SubSeq(s, 1, Len(s) - Len(e)) \o <<CR>>
    IN IF BINARY \in server.on.local THEN single
       ELSE IF ending(single, <<CR, NUL>>) THEN cut(single, <<CR, NUL>>)
       ELSE IF ending(single, <<CR, LF>>) THEN cut(single, <<CR, LF>>)
       ELSE IF ending(single, <<LF>>) THEN cut(single, <<LF>>) ELSE single

Hear ==
    LET m == Head(up)
        side == IF m.command \in {WILL, WONT} THEN "local" ELSE "remote"
    IN
    /\ up # <<>> /\ up' = Tail(up)
    /\ IF m.what = "option"
       THEN server' = [server EXCEPT
              !.on[side] = IF m.command \in {WILL, DO} THEN @ \cup {m.n} ELSE @ \ {m.n},
              !.open[side] = @ \ {m.n}]
       ELSE server' = [server EXCEPT !.size = IF m.what = "size" THEN m.n ELSE @,
                                     !.types = IF m.what = "type" THEN @ - 1 ELSE @]
    /\ heard' = IF m.what = "input" THEN Append(heard, [n |-> m.n, keys |-> Hears(m.bytes)])
                ELSE heard
    /\ UNCHANGED <<serverFrame, down, meant, shown>>

Close ==
    /\ Up /\ Fault
    /\ server' = [server EXCEPT !.closed = TRUE]
    /\ UNCHANGED <<worker, status, parser, inbox, size, down, up, meant, shown, typed, heard>>

-------------------------------------------------------------------------------
(***************************************************************************)
(* The user.                                                               *)
(***************************************************************************)
userFrame == <<worker, status, wire, faults>>

Command(what, n) == [what |-> what, n |-> n]
Give(command) == Len(inbox) < InboxCap /\ worker.at # "over" /\ inbox' = Append(inbox, command)

Type ==
    /\ typed < Typed /\ typed' = typed + 1 /\ Give(Command("write", typed + 1))
    /\ UNCHANGED <<userFrame, size>>

ResizeWindow ==
    /\ size < Sizes /\ size' = size + 1 /\ Give(Command("resize", size + 1))
    /\ UNCHANGED <<userFrame, typed>>

Disconnect ==
    /\ Give(Command("disconnect", 0))
    /\ UNCHANGED <<userFrame, size, typed>>

-------------------------------------------------------------------------------
(***************************************************************************)
(* The worker.                                                             *)
(***************************************************************************)

\* start_telnet_worker, when a connection ends with an error: another attempt, if
\* the profile still allows one.  A connection that was stable and that the server
\* closed begins to count anew.
Failed(stable) ==
    LET before == IF stable THEN 0 ELSE worker.attempt IN
    IF before < MaxAttempts
    THEN /\ worker' = [worker EXCEPT !.at = "waits", !.attempt = before + 1]
         /\ status' = "connecting"
    ELSE worker' = [worker EXCEPT !.at = "over"] /\ status' = "error"

\* The cancellation of the session ends the worker wherever it is.
Cancel ==
    /\ worker.at # "over"
    /\ worker' = [worker EXCEPT !.at = "over"]
    /\ UNCHANGED <<status, wire, inbox, size, typed, faults>>

Wait ==
    /\ worker.at = "waits"
    /\ worker' = [worker EXCEPT !.at = "connects"]
    /\ UNCHANGED <<status, wire, inbox, size, typed, faults>>

\* connect_transport
Connect ==
    /\ worker.at = "connects"
    /\ \/ /\ NewConnection
          /\ worker' = [worker EXCEPT !.at = "runs", !.misses = 0, !.login = FALSE]
          /\ status' = "connected" /\ UNCHANGED faults
       \/ Fault /\ Failed(FALSE) /\ UNCHANGED <<parser, down, up, server, meant, shown>>
    /\ UNCHANGED <<inbox, size, typed, heard>>

\* write_telnet; what follows in the same turn is lost if it fails.
Write(messages) ==
    \/ up' = up \o messages /\ UNCHANGED <<worker, status, faults>>
    \/ messages # <<>> /\ Fault /\ Failed(FALSE) /\ UNCHANGED up
Input(n) == [Message("input", n) EXCEPT !.bytes = Encode(Key(n))]

\* set_size: told to the server if it asked for sizes.
Resized(n) == [parser EXCEPT !.size = n]

HandleCommand ==
    LET c == Head(inbox) IN
    /\ worker.at = "runs" /\ inbox # <<>> /\ inbox' = Tail(inbox)
    /\ CASE c.what = "write" -> Write(<<Input(c.n)>>) /\ UNCHANGED parser
         [] c.what = "resize" ->
              /\ parser' = Resized(c.n)
              /\ Write(IF NAWS \in parser.on.local THEN <<Naws(Resized(c.n))>> ELSE <<>>)
         [] OTHER ->
              /\ worker' = [worker EXCEPT !.at = "over"] /\ status' = "closed"
              /\ UNCHANGED <<parser, up, faults>>
    /\ UNCHANGED <<size, down, server, meant, shown, typed, heard>>

\* A read takes some of the bytes there are.
Read ==
    /\ worker.at = "runs" /\ down # <<>>
    /\ \E m \in 1..Len(down) :
         LET a == Feed(SubSeq(down, 1, m)) IN
         /\ down' = SubSeq(down, m + 1, Len(down))
         /\ \/ /\ up' = up \o a.writes /\ shown' = shown \o a.out
               /\ worker' = [worker EXCEPT !.misses = 0]
               /\ UNCHANGED <<status, faults>>
            \/ a.writes # <<>> /\ Fault /\ Failed(FALSE) /\ UNCHANGED <<up, shown>>
         /\ parser' = a.p
    /\ UNCHANGED <<inbox, size, server, meant, typed, heard>>

\* The connection ends, or breaks.
EndOfStream ==
    /\ worker.at = "runs"
    /\ \/ down = <<>> /\ server.closed /\ (\E stable \in BOOLEAN : Failed(stable)) /\ UNCHANGED faults
       \/ Fault /\ Failed(FALSE)
    /\ UNCHANGED <<wire, inbox, size, typed>>

\* A tick of the keepalive: a question the server need not answer, unless too many
\* went without any answer.
Tick ==
    /\ worker.at = "runs"
    /\ IF worker.misses >= MaxMisses
       THEN Fault /\ Failed(FALSE)
       ELSE worker' = [worker EXCEPT !.misses = @ + 1] /\ UNCHANGED <<status, faults>>
    /\ UNCHANGED <<wire, inbox, size, typed>>

\* The login script, once in a connection.
Login ==
    /\ worker.at = "runs" /\ Script /\ ~worker.login
    /\ \/ /\ up' = Append(up, Input(0)) /\ worker' = [worker EXCEPT !.login = TRUE]
          /\ UNCHANGED <<status, faults>>
       \/ Fault /\ Failed(FALSE) /\ UNCHANGED up
    /\ UNCHANGED <<parser, inbox, size, down, server, meant, shown, typed, heard>>

-------------------------------------------------------------------------------
Next ==
    \/ \E side \in {"local", "remote"}, o \in Options : Ask(side, o)
    \/ (\E unit \in Sent : Send(unit)) \/ Hear \/ Close
    \/ Type \/ ResizeWindow \/ Disconnect
    \/ Cancel \/ Wait \/ Connect \/ HandleCommand \/ Read \/ EndOfStream \/ Tick \/ Login

Spec == Init /\ [][Next]_telnetVars

-------------------------------------------------------------------------------
(***************************************************************************)
(* Properties                                                              *)
(***************************************************************************)
AtRest == /\ worker.at = "runs" /\ ~server.closed
          /\ down = <<>> /\ up = <<>> /\ parser.state = "data"

\* What is shown is what the server meant, wherever the network cut its bytes, and
\* whatever options changed in between.
ShownAsMeant ==
    /\ IsPrefix(shown, meant)
    /\ worker.at = "runs" /\ down = <<>> => shown = meant

\* Input is understood as it was typed, in its order and no piece twice, in
\* whichever mode the connection is and across connections.
HeardAsTyped ==
    \A j \in DOMAIN heard : heard[j].n > 0 =>
        /\ heard[j].keys = Key(heard[j].n)
        /\ \A i \in 1..(j - 1) : heard[i].n < heard[j].n

\* Once everything has arrived, both ends agree on every option, no question of
\* the server is unanswered, and it knows the window's size if it asked for it.
EndsAgree ==
    AtRest =>
        /\ server.open = NoOptions /\ server.types = 0
        /\ server.on = parser.on
        /\ NAWS \in server.on.local => server.size = parser.size

TelnetSound == ShownAsMeant /\ HeardAsTyped /\ EndsAgree
===============================================================================
