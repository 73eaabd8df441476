------------------------------ MODULE SessionLogs ------------------------------
(***************************************************************************)
(* The log of a terminal tab (services/session_logs.rs): the bounded queue *)
(* that the session's output enters without waiting, the writer that       *)
(* empties it into a file and rotates the file, the next connection of the *)
(* tab, which stops the log and begins another one, and the user, who      *)
(* saves what a serial log holds.                                          *)
(*                                                                         *)
(* Output is a row of numbered pieces; a file's length is counted in       *)
(* entries, each of them a piece or a notice of pieces that were dropped.  *)
(* Headers, formats and the directory are left out, and so is the          *)
(* transcript that is saved for a session other than a serial one.         *)
(***************************************************************************)
EXTENDS Naturals, Sequences, FiniteSets, SequencesExt

CONSTANTS
    Logs,       \* bound: 1..n, the logs the tab begins
    Capacity,   \* LOG_QUEUE_CAPACITY
    Limit,      \* MAX_LOG_BYTES, in entries
    Pieces,     \* bound: pieces of output
    Mishaps,    \* bound: failures of the disk, and waits given up
    Kinds,      \* whether the session may be a serial one: a subset of BOOLEAN
    None

VARIABLES
    serial,     \* the session is a serial one
    printed,    \* pieces of output so far
    registered, \* session_log_writers, of this tab
    sink,       \* the log the serial transport writes to
    logs,       \* each log: its queue, its writer and its files
    tab,        \* the command that stops the log, and begins the next one
    saver,      \* save_current_session
    taken,      \* history, each log: the pieces its queue took
    dropped,    \* history, each log: the pieces it did not take
    mishaps

logVars == <<serial, printed, registered, sink, logs, tab, saver, taken, dropped, mishaps>>

Entries == [kind : {"piece", "notice"}, n : 1..Pieces]
Messages == [kind : {"piece", "sync", "flush"}, n : 0..Pieces]
Message(kind, n) == [kind |-> kind, n |-> n]

\* A log: what its writer does, the queue, dropped_chunks, the message in hand
\* and the drops it learned of with it, the file before the last rotation, the
\* file (None while it is renamed), what older rotations removed, and whether
\* all of the file has left the buffers.
NoLog == [at |-> "none", queue |-> <<>>, drops |-> 0, hand |-> None, told |-> 0,
          backup |-> <<>>, file |-> None, gone |-> <<>>, flushed |-> TRUE]
NoSave == [at |-> "idle", log |-> None, copy |-> <<>>, due |-> None]

TypeOK ==
    /\ serial \in Kinds /\ printed \in 0..Pieces
    /\ registered \in Logs \cup {None} /\ sink \in Logs \cup {None}
    /\ \A g \in Logs :
         /\ logs[g].at \in {"none", "reads", "notice", "message", "rename", "open", "ends", "ended"}
         /\ logs[g].queue \in Seq(Messages) /\ Len(logs[g].queue) <= Capacity
         /\ logs[g].drops \in 0..Pieces /\ logs[g].told \in 0..Pieces
         /\ logs[g].backup \in Seq(Entries) /\ logs[g].gone \in Seq(Entries)
         /\ logs[g].file = None \/ logs[g].file \in Seq(Entries)
    /\ tab.at \in {"idle", "flush", "wait", "open"} /\ tab.log \in Logs \cup {None}
    /\ saver.at \in {"idle", "sync", "wait", "backup", "file", "done", "failed"}
    /\ \A g \in Logs : taken[g] \in Seq(1..Pieces) /\ dropped[g] \subseteq 1..Pieces
    /\ mishaps \in 0..Mishaps

Init ==
    /\ serial \in Kinds
    /\ printed = 0 /\ registered = None /\ sink = None
    /\ logs = [g \in Logs |-> NoLog]
    /\ tab = [at |-> "idle", log |-> None, again |-> FALSE]
    /\ saver = NoSave
    /\ taken = [g \in Logs |-> <<>>] /\ dropped = [g \in Logs |-> {}]
    /\ mishaps = 0

Mishap == mishaps < Mishaps /\ mishaps' = mishaps + 1
Room(g) == Len(logs[g].queue) < Capacity
output == <<serial, printed, sink, taken, dropped>>

-------------------------------------------------------------------------------
(***************************************************************************)
(* Output.                                                                 *)
(***************************************************************************)

\* append_chunk and SerialLogSink, to the log g: what finds no room, or no writer,
\* is counted (enqueue_chunk).
AppendTo(g) ==
    /\ g # None /\ printed < Pieces
    /\ printed' = printed + 1
    /\ IF Room(g) /\ logs[g].at # "ended"
       THEN /\ logs' = [logs EXCEPT ![g].queue = Append(@, Message("piece", printed + 1))]
            /\ taken' = [taken EXCEPT ![g] = Append(@, printed + 1)]
            /\ UNCHANGED dropped
       ELSE /\ logs' = [logs EXCEPT ![g].drops = @ + 1]
            /\ dropped' = [dropped EXCEPT ![g] = @ \cup {printed + 1}]
            /\ UNCHANGED taken
    /\ UNCHANGED <<serial, registered, sink, tab, saver, mishaps>>

AppendOutput == AppendTo(IF serial THEN sink ELSE registered)

\* serial_log_sink, when the transport is opened; it may be closed at any time.
TakeSink ==
    /\ serial
    /\ \E s \in {registered, None} : sink # s /\ sink' = s
    /\ UNCHANGED <<serial, printed, registered, logs, tab, saver, taken, dropped, mishaps>>

-------------------------------------------------------------------------------
(***************************************************************************)
(* Logs begin and end.                                                     *)
(***************************************************************************)
lifeFrame == <<output, saver>>

\* stop_for_tab, by itself or as the first step of start_for_tab: the log is
\* taken from the tab first.
TakeHandle(again) ==
    /\ tab.at = "idle"
    /\ again \/ registered # None
    /\ tab' = [at |-> IF registered # None THEN "flush" ELSE "open",
               log |-> IF registered # None THEN registered ELSE tab.log, again |-> again]
    /\ registered' = None
    /\ UNCHANGED <<lifeFrame, logs, mishaps>>

Flushed == tab' = [tab EXCEPT !.at = IF tab.again THEN "open" ELSE "idle"]

\* flush_handle: the writer is told to end, and its answer awaited; each of the
\* two waits is given up after a time.
SendFlush ==
    /\ tab.at = "flush"
    /\ \/ /\ logs[tab.log].at # "ended" /\ Room(tab.log)
          /\ logs' = [logs EXCEPT ![tab.log].queue = Append(@, Message("flush", 0))]
          /\ tab' = [tab EXCEPT !.at = "wait"] /\ UNCHANGED mishaps
       \/ logs[tab.log].at = "ended" /\ Flushed /\ UNCHANGED <<logs, mishaps>>
       \/ Mishap /\ Flushed /\ UNCHANGED logs
    /\ UNCHANGED <<lifeFrame, registered>>

AwaitFlush ==
    /\ tab.at = "wait"
    /\ IF logs[tab.log].at \in {"ends", "ended"} THEN UNCHANGED mishaps ELSE Mishap
    /\ Flushed
    /\ UNCHANGED <<lifeFrame, registered, logs>>

\* The rest of start_for_tab: a file of a new name, and its writer; the profile may
\* ask for no log, and the file may not open.
Begin ==
    /\ tab.at = "open"
    /\ tab' = [tab EXCEPT !.at = "idle"]
    /\ \/ \E g \in Logs :
            /\ logs[g].at = "none" /\ \A h \in Logs : h < g => logs[h].at # "none"
            /\ logs' = [logs EXCEPT ![g].at = "reads", ![g].file = <<>>]
            /\ registered' = g
       \/ UNCHANGED <<logs, registered>>
    /\ UNCHANGED <<lifeFrame, mishaps>>

-------------------------------------------------------------------------------
(***************************************************************************)
(* run_writer                                                              *)
(***************************************************************************)
writerFrame == <<output, tab, saver>>

\* Mistaken variant: drops are only looked at when the queue is empty.
ReceiveLate(g) ==
    LET l == logs[g] IN
    /\ l.at = "reads" /\ l.queue # <<>>
    /\ LET told == IF Len(l.queue) = 1 THEN l.drops ELSE 0 IN
         logs' = [logs EXCEPT ![g].queue = Tail(@), ![g].hand = Head(l.queue),
                    ![g].told = told, ![g].drops = @ - told,
                    ![g].at = IF told > 0 THEN "notice" ELSE "message"]
    /\ UNCHANGED <<writerFrame, registered, mishaps>>

\* A message is taken from the queue, and with it the count of what was dropped.
Receive(g) ==
    LET l == logs[g] IN
    /\ l.at = "reads" /\ l.queue # <<>>
    /\ logs' = [logs EXCEPT ![g].queue = Tail(@), ![g].hand = Head(l.queue),
                  ![g].told = l.drops, ![g].drops = 0,
                  ![g].at = IF l.drops > 0 THEN "notice" ELSE "message"]
    /\ UNCHANGED <<writerFrame, registered, mishaps>>

\* Nobody can send any more: the tab, the transport, a stop and a save are over.
Forgotten(g) ==
    /\ logs[g].at = "reads" /\ logs[g].queue = <<>>
    /\ g \notin {registered, sink}
    /\ ~(tab.log = g /\ tab.at \in {"flush", "wait"})
    /\ ~(saver.log = g /\ saver.at \notin {"done", "failed"})
    /\ logs' = [logs EXCEPT ![g].at = "ends"]
    /\ UNCHANGED <<writerFrame, registered, mishaps>>

\* What is written next: the notice, or the piece in hand.
Entry(l) == IF l.at = "notice" THEN [kind |-> "notice", n |-> l.told]
            ELSE [kind |-> "piece", n |-> l.hand.n]
Writing(l) == l.at = "notice" \/ (l.at = "message" /\ l.hand.kind = "piece")

Write(g) ==
    LET l == logs[g] IN
    /\ Writing(l) /\ Len(l.file) < Limit
    /\ logs' = [logs EXCEPT ![g].file = Append(@, Entry(l)), ![g].flushed = FALSE,
                  ![g].at = IF @ = "notice" THEN "message" ELSE "reads",
                  ![g].told = 0,
                  ![g].hand = IF l.at = "notice" THEN @ ELSE None]
    /\ UNCHANGED <<writerFrame, registered, mishaps>>

\* rotate_log: the file becomes the backup, and what was the backup is removed.
Rotate(g) ==
    LET l == logs[g] IN
    /\ Writing(l) /\ Len(l.file) >= Limit
    /\ logs' = [logs EXCEPT ![g].at = "rename", ![g].gone = @ \o l.backup, ![g].backup = <<>>,
                  ![g].flushed = TRUE]
    /\ UNCHANGED <<writerFrame, registered, mishaps>>

Rename(g) ==
    /\ logs[g].at = "rename"
    /\ logs' = [logs EXCEPT ![g].at = "open", ![g].backup = logs[g].file, ![g].file = None]
    /\ UNCHANGED <<writerFrame, registered, mishaps>>

Reopen(g) ==
    LET l == logs[g] IN
    /\ l.at = "open"
    /\ logs' = [logs EXCEPT ![g].file = <<>>,
                  ![g].at = IF l.told > 0 THEN "notice" ELSE "message"]
    /\ UNCHANGED <<writerFrame, registered, mishaps>>

\* Sync and Flush: the file leaves the buffers and the sender is answered.  After a
\* Flush, the writer ends.
Answer(g) ==
    LET l == logs[g] IN
    /\ l.at = "message" /\ l.hand.kind \in {"sync", "flush"}
    /\ logs' = [logs EXCEPT ![g].at = IF l.hand.kind = "sync" THEN "reads" ELSE "ends",
                  ![g].hand = None, ![g].flushed = TRUE]
    /\ UNCHANGED <<output, tab, registered, mishaps>>
    /\ saver' = IF l.hand.kind = "sync" /\ saver.at = "wait" /\ saver.log = g
                THEN [saver EXCEPT !.at = "backup", !.due = l.backup \o l.file] ELSE saver

\* A failure of the disk ends the log; the terminal shows it
\* (notify_writer_failure).
WriterFails(g) ==
    /\ logs[g].at \in {"rename", "open"} \/ Writing(logs[g])
    /\ Mishap
    /\ logs' = [logs EXCEPT ![g].at = "ends"]
    /\ UNCHANGED <<writerFrame, registered>>

\* Mistaken variant: the writer that ends takes the tab's log away, whichever it is.
LeaveAnyway(g) ==
    /\ logs[g].at = "ends"
    /\ logs' = [logs EXCEPT ![g].at = "ended", ![g].flushed = TRUE]
    /\ registered' = None
    /\ UNCHANGED <<writerFrame, mishaps>>

\* The writer ends: only its own log is taken from the tab.
Leave(g) ==
    /\ logs[g].at = "ends"
    /\ logs' = [logs EXCEPT ![g].at = "ended", ![g].flushed = TRUE]
    /\ registered' = IF registered = g THEN None ELSE registered
    /\ UNCHANGED <<writerFrame, mishaps>>

-------------------------------------------------------------------------------
(***************************************************************************)
(* save_current_session, of a serial log                                   *)
(***************************************************************************)
saveFrame == <<output, registered, tab>>

Save ==
    /\ serial /\ registered # None /\ saver.at = "idle"
    /\ saver' = [NoSave EXCEPT !.at = "sync", !.log = registered]
    /\ UNCHANGED <<saveFrame, logs, mishaps>>

\* sync_handle; each wait is given up after a time.
SendSync ==
    LET g == saver.log IN
    /\ saver.at = "sync"
    /\ \/ /\ logs[g].at # "ended" /\ Room(g)
          /\ logs' = [logs EXCEPT ![g].queue = Append(@, Message("sync", 0))]
          /\ saver' = [saver EXCEPT !.at = "wait"] /\ UNCHANGED mishaps
       \/ /\ saver' = [saver EXCEPT !.at = "backup"] /\ UNCHANGED logs
          /\ IF logs[g].at = "ended" THEN UNCHANGED mishaps ELSE Mishap
    /\ UNCHANGED saveFrame

GiveUpSync ==
    /\ saver.at = "wait"
    /\ IF logs[saver.log].at = "ended" THEN UNCHANGED mishaps ELSE Mishap
    /\ saver' = [saver EXCEPT !.at = "backup"]
    /\ UNCHANGED <<saveFrame, logs>>

\* What is still in the writer's buffers is not read.
Visible(l) == IF l.flushed THEN {l.file} ELSE {l.file, Front(l.file)}

\* Mistaken variant: the file is read before the backup.
ReadBackupLast ==
    LET l == logs[saver.log] IN
    /\ saver.at = "backup" /\ l.file # None
    /\ \E seen \in Visible(l) : saver' = [saver EXCEPT !.at = "file", !.copy = seen]
    /\ UNCHANGED <<saveFrame, logs, mishaps>>

\* The backup is read first, if there is one,
ReadBackup ==
    /\ saver.at = "backup"
    /\ saver' = [saver EXCEPT !.at = "file", !.copy = logs[saver.log].backup]
    /\ UNCHANGED <<saveFrame, logs, mishaps>>

\* then the file, which may just be away; a rotation may come between.
ReadFile ==
    LET l == logs[saver.log] IN
    /\ saver.at = "file"
    /\ IF l.file = None THEN saver' = [saver EXCEPT !.at = "failed"]
       ELSE \E seen \in Visible(l) : saver' = [saver EXCEPT !.at = "done", !.copy = @ \o seen]
    /\ UNCHANGED <<saveFrame, logs, mishaps>>

-------------------------------------------------------------------------------
Next ==
    \/ AppendOutput \/ TakeSink
    \/ (\E b \in BOOLEAN : TakeHandle(b)) \/ SendFlush \/ AwaitFlush \/ Begin
    \/ \E g \in Logs :
         \/ Receive(g) \/ Forgotten(g) \/ Write(g) \/ Rotate(g) \/ Rename(g) \/ Reopen(g)
         \/ Answer(g) \/ WriterFails(g) \/ Leave(g)
    \/ Save \/ SendSync \/ GiveUpSync \/ ReadBackup \/ ReadFile

Spec == Init /\ [][Next]_logVars

-------------------------------------------------------------------------------
(***************************************************************************)
(* Properties                                                              *)
(***************************************************************************)
PiecesOf(s) == LET p == SelectSeq(s, LAMBDA e : e.kind = "piece") IN [i \in DOMAIN p |-> p[i].n]
Noticed(s) == FoldLeft(LAMBDA sum, e : sum + (IF e.kind = "notice" THEN e.n ELSE 0), 0, s)
FileOf(l) == IF l.file = None THEN <<>> ELSE l.file
Written(l) == l.gone \o l.backup \o FileOf(l)
InHand(l) == IF l.hand # None /\ l.hand.kind = "piece" THEN <<l.hand.n>> ELSE <<>>
Rising(s) == \A i, j \in DOMAIN s : i < j => s[i] < s[j]

\* What a log's queue took is in the log or on its way there, in the order in
\* which it was printed and each piece once, whatever was dropped, rotated or
\* given up in between; but for a log that ended, of which the log has a part.
NothingLost ==
    \A g \in Logs :
        LET l == logs[g]
            way == PiecesOf(Written(l)) \o InHand(l) \o PiecesOf(l.queue)
        IN /\ Rising(way) /\ Rising(taken[g])
           /\ IF l.at \in {"ends", "ended"} THEN IsPrefix(PiecesOf(Written(l)), taken[g])
              ELSE way = taken[g]

\* A gap in a log is announced before the piece behind it, and announcements are
\* true: together with the drops not announced yet they are all there are.
GapsAnnounced ==
    \A g \in Logs : LET l == logs[g]
                        w == Written(l) IN
        /\ \A i \in DOMAIN w : w[i].kind = "piece" =>
             Noticed(SubSeq(w, 1, i)) >= Cardinality({d \in dropped[g] : d < w[i].n})
        /\ Noticed(w) + l.told + l.drops = Cardinality(dropped[g])

\* The log a tab has is one that is written; and a log is the tab's until it is
\* stopped or ends, however late an older log's writer ends.
LogIsTheTabs ==
    \A g \in Logs :
        /\ registered = g => logs[g].at \notin {"none", "ended"}
        /\ logs[g].at \notin {"none", "ends", "ended"} /\ registered # g
             => tab.log = g \/ \E h \in Logs : h > g /\ logs[h].at # "none"

\* What is saved is in order and without repetition, although the log goes on; and
\* it is all the log held when it answered, unless it was rotated since.
SavedInOrder ==
    saver.at = "done" =>
        /\ Rising(PiecesOf(saver.copy))
        /\ saver.due # None /\ logs[saver.log].gone = <<>> /\ logs[saver.log].backup = <<>>
             => IsPrefix(saver.due, saver.copy)

LogsTrue == NothingLost /\ GapsAnnounced /\ LogIsTheTabs /\ SavedInOrder
===============================================================================
