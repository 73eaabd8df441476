------------------------------- MODULE FtpSession -------------------------------
(***************************************************************************)
(* The worker of an FTP session (sessions/ftp): it runs one file operation *)
(* at a time over its control connection, keeps that connection alive,     *)
(* connects again when it is lost, and gives every upload a connection of  *)
(* its own.                                                                *)
(*                                                                         *)
(* A reply of FTP does not say which command it answers: the client takes  *)
(* the next one.  An operation that times out gives the connection up; the *)
(* server may still execute what it was sent.  An operation that the user  *)
(* cancels is dropped wherever it is, and the connection is kept.          *)
(***************************************************************************)
EXTENDS Naturals, Sequences, FiniteSets

CONSTANTS
    Ops,            \* file operations, one use each; one names its own backup
    Total,          \* blocks of the local file that is uploaded
    Limit,          \* reconnectMaxAttempts, 0 without automatic reconnection
    MaxMisses,      \* keepalive misses that are borne
    Conns,          \* bound: control connections, 1..n
    Uploads,        \* bound: uploads, 1..n
    Faults,         \* bound: commands refused, timeouts, connections lost, operations cancelled
    None

VARIABLES
    state,          \* the worker
    shown,          \* what the tab shows: its status, and whether capabilities
    attempt, misses,
    conn,           \* the control connection in use
    wire,           \* of every one: commands, replies, the name RNFR gave
    queue, result,  \* operations that wait, and what became of each
    cur,            \* the operation under way
    disk,           \* the server's files
    had,            \* was there a file that an upload replaces
    up,             \* the upload under way
    flows,          \* the server's end of the data connections of uploads
    uploaded,       \* history: what the last upload that succeeded left
    desync,         \* history: an operation was cancelled with a reply to come
    misled,         \* history: a removal was reported of a file that is there
    faults

control == <<conn, wire>>
upload == <<up, flows, uploaded>>
vars == <<state, shown, attempt, misses, control, queue, result, cur, disk, upload,
          had, desync, misled, faults>>

Old == <<0>>
Source == [k \in 1..Total |-> k]
ServerFiles == {"dest", "part"} \cup Ops
Idle == [op |-> None, kind |-> "none", step |-> "none", sent |-> FALSE, moved |-> FALSE]
NoUpload == [id |-> 0, pc |-> "idle", base |-> 0, next |-> 0, rebuilt |-> FALSE]
NoFlow == [data |-> <<>>, at |-> 0, appends |-> FALSE, open |-> FALSE, lost |-> FALSE]
NoWire == [sent |-> <<>>, replies |-> <<>>, from |-> None]

TypeOK ==
    /\ state \in {"connecting", "listing", "up", "delay", "ended"}
    /\ shown \in {"connecting", "connected", "error", "closed"}
    /\ attempt \in 0..Limit /\ misses \in 0..MaxMisses /\ conn \in Conns \cup {0}
    /\ \A c \in Conns : /\ Len(wire[c].sent) <= 1 + Faults
                        /\ wire[c].from \in ServerFiles \cup {None}
    /\ \A i \in DOMAIN queue : queue[i].op \in Ops
    /\ result \in [Ops -> {"none", "waits", "ok", "error", "cancelled"}]
    /\ cur.op \in Ops \cup {None} /\ {cur.sent, cur.moved} \subseteq BOOLEAN
    /\ DOMAIN disk = ServerFiles
    /\ up.pc \in {"idle", "open", "stream", "size", "remove", "verify"}
    /\ {had, desync, misled} \subseteq BOOLEAN

Init ==
    /\ state = "connecting" /\ shown = "connecting" /\ attempt = 0 /\ misses = 0
    /\ conn = 0 /\ wire = [c \in Conns |-> NoWire]
    /\ queue = <<>> /\ result = [o \in Ops |-> "none"] /\ cur = Idle
    /\ had \in BOOLEAN
    /\ \E part \in {None, SubSeq(Source, 1, 1), Source} :
          disk = [f \in ServerFiles |-> CASE f = "dest" /\ had -> Old [] f = "part" -> part
                                    [] OTHER -> None]
    /\ up = NoUpload /\ flows = [i \in Uploads |-> NoFlow]
    /\ uploaded = None /\ desync = FALSE /\ misled = FALSE /\ faults = 0

-------------------------------------------------------------------------------
(***************************************************************************)
(* The server.  It executes the commands of a connection in order, also of *)
(* one the client has given up.                                            *)
(***************************************************************************)
Rename(from, to) == [disk EXCEPT ![to] = disk[from], ![from] = None]
\* What an abandoned upload has on its way does not outlive the partial's name.
Ends(f) ==
    IF f = "part"
    THEN [i \in Uploads |-> [flows[i] EXCEPT !.data = <<>>, !.lost = TRUE]]
    ELSE flows

Replies(c, code) ==
    wire' = [wire EXCEPT ![c].sent = Tail(@), ![c].replies = Append(@, code)]

Execute(c) ==
    LET cmd == Head(wire[c].sent)
        f == cmd.file IN
    /\ wire[c].sent # <<>>
    /\ \/ /\ cmd.verb = "RNFR" /\ UNCHANGED <<disk, flows, faults>>
          /\ wire' = [wire EXCEPT ![c].sent = Tail(@),
                        ![c].replies = Append(@, IF disk[f] = None THEN "missing" ELSE "350"),
                        ![c].from = IF disk[f] = None THEN None ELSE f]
       \/ /\ cmd.verb = "RNTO" /\ UNCHANGED faults
          /\ LET from == wire[c].from IN
             IF from # None /\ disk[from] # None
             THEN disk' = Rename(from, f) /\ flows' = Ends(from) /\ Replies(c, "250")
             ELSE Replies(c, "refused") /\ UNCHANGED <<disk, flows>>
       \/ /\ cmd.verb = "DELE" /\ UNCHANGED faults
          /\ Replies(c, IF disk[f] = None THEN "missing" ELSE "250")
          /\ disk' = [disk EXCEPT ![f] = None] /\ flows' = Ends(f)
       \/ /\ cmd.verb = "SIZE" /\ UNCHANGED <<disk, flows, faults>>
          /\ Replies(c, IF disk[f] = None THEN "missing" ELSE "213")
       \/ cmd.verb = "NOOP" /\ Replies(c, "200") /\ UNCHANGED <<disk, flows, faults>>
       \/ /\ faults < Faults /\ faults' = faults + 1 /\ Replies(c, "refused")
          /\ UNCHANGED <<disk, flows>>
    /\ UNCHANGED <<state, shown, attempt, misses, conn, queue, result, cur, up, uploaded,
                   had, desync, misled>>

\* A server may notice that the connection is gone before it gets there.
Forgets(c) ==
    /\ c # conn /\ wire[c] # NoWire /\ wire' = [wire EXCEPT ![c] = NoWire]
    /\ UNCHANGED <<state, shown, attempt, misses, conn, queue, result, cur, disk, upload,
                   had, desync, misled, faults>>

-------------------------------------------------------------------------------
(***************************************************************************)
(* start_ftp_worker: a run ends with an error, and maybe another follows.  *)
(***************************************************************************)
Fault == faults < Faults /\ faults' = faults + 1
Abandoned == [flows EXCEPT ![up.id].open = FALSE]

\* The uploads of a run end with it.
UploadsAbort ==
    /\ up' = NoUpload
    /\ flows' = IF up = NoUpload THEN flows ELSE Abandoned
    /\ UNCHANGED uploaded

\* Operations that wait for a worker that has ended are refused.
Refused == [o \in Ops |-> IF result[o] = "waits" THEN "error" ELSE result[o]]

RunEnds(outcome) ==
    /\ conn' = 0 /\ misses' = 0 /\ cur' = Idle /\ UploadsAbort
    /\ IF attempt < Limit
       THEN /\ attempt' = attempt + 1 /\ state' = "delay" /\ shown' = "connecting"
            /\ result' = outcome /\ UNCHANGED queue
       ELSE /\ state' = "ended" /\ shown' = "error" /\ queue' = <<>>
            /\ result' = [o \in Ops |-> IF outcome[o] = "waits" THEN "error" ELSE outcome[o]]
            /\ UNCHANGED attempt

Retry ==
    /\ state = "delay" /\ state' = "connecting"
    /\ UNCHANGED <<shown, attempt, misses, control, queue, result, cur, disk, upload, had,
                   desync, misled, faults>>

\* A connection: the count of attempts starts again before the first listing.
Connect ==
    /\ state = "connecting" /\ \E c \in Conns : wire[c] = NoWire /\ c # conn
    /\ conn' = CHOOSE c \in Conns : wire[c] = NoWire
    /\ state' = "listing" /\ attempt' = 0
    /\ UNCHANGED <<shown, misses, wire, queue, result, cur, disk, upload, had, desync, misled,
                   faults>>

\* The initial listing and the features follow; without features go defaults.
Listed ==
    /\ state = "listing" /\ state' = "up" /\ shown' = "connected"
    /\ UNCHANGED <<attempt, misses, control, queue, result, cur, disk, upload, had, desync, misled,
                   faults>>

\* No connection, no listing, a keepalive missed too often, a lost connection.
RunFails ==
    /\ \/ state \in {"connecting", "listing"} /\ Fault
       \/ state = "up" /\ cur = Idle /\ misses = MaxMisses /\ UNCHANGED faults
    /\ RunEnds(result)
    /\ UNCHANGED <<wire, disk, had, desync, misled>>

\* Disconnect, or the token of the session: the worker ends.
Disconnect ==
    /\ state # "ended" /\ state' = "ended" /\ shown' \in {"closed", shown}
    /\ conn' = 0 /\ cur' = Idle /\ queue' = <<>> /\ result' = Refused /\ UploadsAbort
    /\ UNCHANGED <<attempt, misses, wire, disk, had, desync, misled, faults>>

-------------------------------------------------------------------------------
(***************************************************************************)
(* run_ftp_worker: operations come through a channel and run one by one.   *)
(***************************************************************************)
Busy(kinds) == \/ cur.kind \in kinds
               \/ \E i \in DOMAIN queue : queue[i].kind \in kinds

\* A partial is committed when it is complete, removed when it is given up.
Request(o, kind) ==
    /\ state # "ended" /\ result[o] = "none" /\ result' = [result EXCEPT ![o] = "waits"]
    /\ queue' = Append(queue, [op |-> o, kind |-> kind])
    /\ kind # "stat" => up = NoUpload /\ ~Busy({"replace", "remove"})
    /\ kind = "replace" => disk["part"] = Source
    /\ UNCHANGED <<state, shown, attempt, misses, control, cur, disk, upload, had, desync, misled,
                   faults>>

First(kind) == CASE kind = "replace" -> "backup" [] OTHER -> kind

Take ==
    /\ state = "up" /\ cur = Idle /\ queue # <<>> /\ queue' = Tail(queue)
    /\ cur' = [Idle EXCEPT !.op = Head(queue).op, !.kind = Head(queue).kind,
                           !.step = First(Head(queue).kind)]
    /\ UNCHANGED <<state, shown, attempt, misses, control, result, disk, upload, had, desync,
                   misled, faults>>

\* The timer of keepalive is looked at between two operations.
Keepalive ==
    /\ state = "up" /\ cur = Idle /\ misses < MaxMisses
    /\ cur' = [Idle EXCEPT !.kind = "keepalive", !.step = "noop"]
    /\ UNCHANGED <<state, shown, attempt, misses, control, queue, result, disk, upload, had,
                   desync, misled, faults>>

Command(verb, file) == [verb |-> verb, file |-> file]
CommandOf ==
    CASE cur.step = "backup" -> Command("RNFR", "dest")
      [] cur.step = "backupTo" -> Command("RNTO", cur.op)
      [] cur.step = "exists" -> Command("SIZE", "dest")
      [] cur.step = "move" -> Command("RNFR", "part")
      [] cur.step = "moveTo" -> Command("RNTO", "dest")
      [] cur.step = "back" -> Command("RNFR", cur.op)
      [] cur.step = "backTo" -> Command("RNTO", "dest")
      [] cur.step = "drop" -> Command("DELE", cur.op)
      [] cur.step = "remove" -> Command("DELE", "part")
      [] cur.step = "stat" -> Command("SIZE", "part")
      [] cur.step = "noop" -> Command("NOOP", "part")

Send ==
    /\ cur # Idle /\ ~cur.sent /\ cur' = [cur EXCEPT !.sent = TRUE]
    /\ wire' = [wire EXCEPT ![conn].sent = Append(@, CommandOf)]
    /\ UNCHANGED <<state, shown, attempt, misses, conn, queue, result, disk, upload, had,
                   desync, misled, faults>>

Goes(step) == cur' = [cur EXCEPT !.step = step, !.sent = FALSE] /\ UNCHANGED <<result, misses>>
Settles(outcome) ==
    /\ cur' = Idle /\ result' = [result EXCEPT ![cur.op] = outcome] /\ UNCHANGED misses

\* replace_file: what is there is moved away, the partial takes its place; the
\* way back if it cannot.
Replacing(code) ==
    \/ /\ cur.step = "backup" /\ Goes(IF code = "350" THEN "backupTo" ELSE "exists")
    \/ /\ cur.step = "backupTo" /\ UNCHANGED <<result, misses>>
       /\ cur' = [cur EXCEPT !.sent = FALSE, !.moved = (code = "250"),
                             !.step = IF code = "250" THEN "move" ELSE "exists"]
    \/ cur.step = "exists" /\ IF code = "missing" THEN Goes("move") ELSE Settles("error")
    \/ /\ cur.step \in {"move", "moveTo"}
       /\ \/ cur.step = "move" /\ code = "350" /\ Goes("moveTo")
          \/ /\ cur.step = "moveTo" /\ code = "250"
             /\ IF cur.moved THEN Goes("drop") ELSE Settles("ok")
          \/ /\ code # (IF cur.step = "move" THEN "350" ELSE "250")
             /\ IF cur.moved THEN Goes("back") ELSE Settles("error")
    \/ cur.step = "back" /\ IF code = "350" THEN Goes("backTo") ELSE Settles("error")
    \/ cur.step = "backTo" /\ Settles("error")
    \/ cur.step = "drop" /\ Settles("ok")

\* The next reply is taken for the answer to the command that was sent last.
Hear ==
    LET code == Head(wire[conn].replies) IN
    /\ cur # Idle /\ cur.sent /\ wire[conn].replies # <<>>
    /\ wire' = [wire EXCEPT ![conn].replies = Tail(@)]
    /\ \/ Replacing(code)
       \/ /\ cur.step = "remove"
          /\ Settles(IF code \in {"250", "missing"} THEN "ok" ELSE "error")
       \/ cur.step = "stat" /\ Settles(IF code \in {"213", "missing"} THEN "ok" ELSE "error")
       \/ /\ cur.step = "noop" /\ cur' = Idle /\ UNCHANGED result
          /\ misses' = IF code = "200" THEN 0 ELSE misses + 1
    /\ misled' = (misled \/ (/\ cur.step = "remove" /\ code \in {"250", "missing"}
                             /\ disk["part"] # None))
    /\ UNCHANGED <<state, shown, attempt, conn, queue, disk, upload, had, desync, faults>>

Failed == IF cur.op = None THEN result ELSE [result EXCEPT ![cur.op] = "error"]

\* Mistaken variant: an operation that timed out leaves its connection in use.
TimesOutKeeping ==
    /\ cur # Idle /\ cur.op # None /\ Fault
    /\ cur' = Idle /\ result' = Failed
    /\ UNCHANGED <<state, shown, attempt, misses, control, queue, disk, upload, had, desync,
                   misled>>

\* No reply in time, or a connection that is gone: the run ends.
TimesOut ==
    /\ cur # Idle /\ Fault
    /\ RunEnds(Failed)
    /\ UNCHANGED <<wire, disk, had, desync, misled>>

\* ftp_with_cancellation drops the operation where it is.
Cancel ==
    /\ cur.op # None /\ Fault
    /\ Settles("cancelled") /\ desync' = (desync \/ cur.sent)
    /\ UNCHANGED <<state, shown, attempt, control, queue, disk, upload, had, misled>>

-------------------------------------------------------------------------------
(***************************************************************************)
(* upload_file, on a connection of its own.                                *)
(***************************************************************************)
Length == IF disk["part"] = None THEN 0 ELSE Len(disk["part"])
Spare == UNCHANGED <<state, shown, attempt, misses, control, queue, result, cur, had,
                     desync, misled>>

\* A resumed upload starts where the partial ended when it was measured.
Upload ==
    /\ state = "up" /\ up = NoUpload /\ ~Busy({"replace", "remove"}) /\ Length <= Total
    /\ \E i \in Uploads : flows[i] = NoFlow /\ up' = [NoUpload EXCEPT !.id = i, !.pc = "open",
                                                                     !.base = Length]
    /\ Spare /\ UNCHANGED <<disk, flows, uploaded, faults>>

\* APPE goes to the end of the file, REST and STOR to the offset, STOR alone
\* starts the file again.
Open ==
    /\ up.pc = "open" /\ up' = [up EXCEPT !.pc = "stream", !.next = up.base + 1]
    /\ \E append \in BOOLEAN : flows' = [flows EXCEPT ![up.id] =
                   [NoFlow EXCEPT !.at = up.base, !.appends = up.base > 0 /\ append,
                               !.open = TRUE]]
    /\ disk' = IF up.base = 0 THEN [disk EXCEPT !["part"] = <<>>] ELSE disk
    /\ Spare /\ UNCHANGED <<uploaded, faults>>

SendBlock ==
    /\ up.pc = "stream" /\ up.next <= Total /\ up' = [up EXCEPT !.next = @ + 1]
    /\ flows' = [flows EXCEPT ![up.id].data = IF flows[up.id].lost THEN @ ELSE Append(@, up.next)]
    /\ Spare /\ UNCHANGED <<disk, uploaded, faults>>

Written(file, flow) ==
    IF flow.appends \/ flow.at = Len(file) THEN Append(file, Head(flow.data))
    ELSE [file EXCEPT ![flow.at + 1] = Head(flow.data)]

\* The server stores what arrives, of an upload that was stopped, too.
Store(i) ==
    /\ flows[i].data # <<>> /\ disk["part"] # None /\ flows[i].at <= Length
    /\ disk' = [disk EXCEPT !["part"] = Written(disk["part"], flows[i])]
    /\ flows' = [flows EXCEPT ![i].data = Tail(@), ![i].at = @ + 1]
    /\ Spare /\ UNCHANGED <<up, uploaded, faults>>

Lose(i) ==
    /\ flows[i].data # <<>> /\ ~flows[i].open
    /\ flows' = [flows EXCEPT ![i].data = <<>>]
    /\ Spare /\ UNCHANGED <<disk, up, uploaded, faults>>

Finalize ==
    /\ up.pc = "stream" /\ up.next > Total /\ flows[up.id].data = <<>>
    /\ up' = [up EXCEPT !.pc = "size"] /\ flows' = Abandoned
    /\ Spare /\ UNCHANGED <<disk, uploaded, faults>>

Stops == up' = NoUpload /\ flows' = Abandoned

\* Assumed: what a stopped upload had on its way has arrived or is lost by now.
Settled == \A i \in Uploads : flows[i].data = <<>>

\* Mistaken variant: what the server has is not measured.
CheckSizeNever ==
    /\ up.pc = "size" /\ Settled /\ up' = [up EXCEPT !.pc = "verify"] /\ UNCHANGED flows
    /\ Spare /\ UNCHANGED <<disk, uploaded, faults>>

\* The size must be that of the source; a resumed upload may start over once.
CheckSize ==
    /\ up.pc = "size" /\ Settled
    /\ \/ Length = Total /\ up' = [up EXCEPT !.pc = "verify"] /\ UNCHANGED flows
       \/ Length # Total /\ (up.base = 0 \/ up.rebuilt) /\ Stops
       \/ /\ Length # Total /\ up.base > 0 /\ ~up.rebuilt
          /\ up' = [up EXCEPT !.pc = "remove"] /\ UNCHANGED flows
    /\ Spare /\ UNCHANGED <<disk, uploaded, faults>>

RemoveInvalid ==
    /\ up.pc = "remove" /\ disk' = [disk EXCEPT !["part"] = None] /\ flows' = Ends("part")
    /\ up' = [up EXCEPT !.pc = "open", !.base = 0, !.rebuilt = TRUE]
    /\ Spare /\ UNCHANGED <<uploaded, faults>>

\* The checksum, if the server has one.
Verify ==
    /\ up.pc = "verify" /\ up' = NoUpload
    /\ uploaded' \in {disk["part"]} \cup {u \in {uploaded} : disk["part"] # Source}
    /\ Spare /\ UNCHANGED <<disk, flows, faults>>

\* Cancelled, timed out, disconnected, refused.
UploadFails ==
    /\ up.pc \in {"open", "stream", "size", "remove", "verify"} /\ Fault /\ Stops
    /\ Spare /\ UNCHANGED <<disk, uploaded>>

Next ==
    \/ \E c \in Conns : Execute(c) \/ Forgets(c)
    \/ Retry \/ Connect \/ Listed \/ RunFails \/ Disconnect
    \/ \E o \in Ops, kind \in {"replace", "remove", "stat"} : Request(o, kind)
    \/ Take \/ Keepalive \/ Send \/ Hear \/ TimesOut \/ Cancel
    \/ Upload \/ Open \/ SendBlock \/ Finalize \/ CheckSize \/ RemoveInvalid \/ Verify
    \/ UploadFails
    \/ \E i \in Uploads : Store(i) \/ Lose(i)

Spec == Init /\ [][Next]_vars

-------------------------------------------------------------------------------
(***************************************************************************)
(* Properties                                                              *)
(***************************************************************************)

Somewhere(content) == \E f \in ServerFiles \ {"part"} : disk[f] = content

\* A file that is replaced is not lost: whatever is refused, times out or is
\* executed late, the server has the old one or the complete new one.  This is
\* said of sessions in which nobody cancelled an operation under way: after
\* that the replies are those to other commands.
FtpKeepsFiles ==
    /\ ~desync /\ had => Somewhere(Old) \/ Somewhere(Source)
    \* What is reported as removed is gone.
    /\ ~desync => ~misled
    \* An upload that reports success has left the file as it is here.
    /\ uploaded \in {None, Source}
===============================================================================
