----------------------------- MODULE DirectoryTransfer -----------------------------
(***************************************************************************)
(* One folder task (services/transfers/directory_execution.rs and          *)
(* directory_entry.rs): its files, the manifest the task and the journal   *)
(* keep of them, and the runs that copy file after file until the task is  *)
(* done, paused or failed.                                                 *)
(*                                                                         *)
(* A run works on a copy of the manifest and patches the task's.  A file   *)
(* is written to its .fileterm-part and then moved over its destination,   *)
(* or, where an upload's destination is a link or another user's file,     *)
(* copied into it.                                                         *)
(* A retry follows a transient error, a permanent one costs only its file; *)
(* an error outside a file, or one file failing three times, ends the run. *)
(*                                                                         *)
(* Uploads are those of the plain user mode; their session's worker is     *)
(* external, and so are the file systems.  The source files do not change. *)
(***************************************************************************)
EXTENDS Integers, FiniteSets

CONSTANTS
    Direction,      \* "upload" or "download"
    Files,          \* the number of files
    Size,           \* of each of them
    MaxAttempts,    \* attempts at a file: 3 in the code
    Resumes,        \* bound of the instance on resumed runs
    Crashes         \* bound of the instance on crashes

VARIABLES
    task,       \* the task in memory
    journal,    \* the task as it was last persisted
    run,        \* the run of the task
    pausing,    \* whether pause() waits for the run
    linked,     \* files whose destination is a link or another user's: written in place
    dest,       \* each destination: no file, the user's old one, the new one, one half copied
    backup,     \* files whose old destination lies under its backup name
    part,       \* each partial file: its size, or -1, and whether all of it is this task's
    resumed,    \* resumptions and crashes so far
    crashed
disk == <<linked, dest, backup, part>>
vars == <<task, journal, run, pausing, disk, resumed, crashed>>

File == 1..Files
Entry == [status : {"pending", "running", "done", "failed"}, bytes : 0..Size]
Manifest == [File -> Entry]
Fresh == [f \in File |-> [status |-> "pending", bytes |-> 0]]

\* waiting: the task's message says that it waits to be continued.
Task == [status : {"queued", "running", "paused", "failed", "done"}, waiting : BOOLEAN,
         resumable : BOOLEAN, entries : Manifest]

TypeOK ==
    /\ task \in Task /\ journal \in Task
    /\ run \in [at : {"idle", "begin", "reset", "dirs", "file", "entry", "data", "check", "backup",
                       "move", "clear", "copy", "copying", "unlink", "entryDone", "error", "finish", "failed"},
                entries : Manifest, file : 1..(Files + 1), attempt : 0..MaxAttempts,
                resume : BOOLEAN, cancel : BOOLEAN, permanent : BOOLEAN, start : 0..Size]
    /\ pausing \in BOOLEAN
    /\ linked \subseteq File
    /\ dest \in [File -> {"none", "old", "new", "mixed", "torn"}]
    /\ backup \subseteq File
    /\ part \in [File -> [size : -1..Size, own : BOOLEAN]]
    /\ resumed \in 0..Resumes /\ crashed \in 0..Crashes

NoPart == [size |-> -1, own |-> TRUE]
Idle == [at |-> "idle", entries |-> Fresh, file |-> 1, attempt |-> 0, resume |-> FALSE,
         cancel |-> FALSE, permanent |-> FALSE, start |-> 0]

(***************************************************************************)
(* A new task.  Files of the same names may be there, and partial files    *)
(* that an earlier task left under the same names.                         *)
(***************************************************************************)
Init ==
    /\ task = [status |-> "queued", waiting |-> FALSE, resumable |-> TRUE, entries |-> Fresh]
    /\ journal = task
    /\ run = [Idle EXCEPT !.at = "begin"]
    /\ pausing = FALSE
    /\ linked \in SUBSET (IF Direction = "upload" THEN File ELSE {})
    /\ dest \in [File -> {"none", "old"}] /\ backup = {}
    /\ part \in [File -> {NoPart, [size |-> 1, own |-> FALSE]}]
    /\ resumed = 0 /\ crashed = 0

-----------------------------------------------------------------------------
(***************************************************************************)
(* Patches of the task.  What is not persisted stays in memory; a patch    *)
(* whose journal cannot be written has changed the memory all the same.    *)
(***************************************************************************)
Patched(t) == task' = t /\ UNCHANGED journal
Persisted(t) == task' = t /\ journal' = t
MaybePersisted(t) == task' = t /\ journal' \in {journal, t}

\* sync_directory_manifest of the current file, with the status every step of a run sets.
Synced(entries) ==
    [task EXCEPT !.status = "running", !.waiting = FALSE, !.resumable = TRUE,
                 !.entries[run.file] = entries[run.file]]

Goes(at) == run' = [run EXCEPT !.at = at]
Stops == run' = Idle
Fails(permanent) == run' = [run EXCEPT !.at = "error", !.permanent = permanent]
NextFile(entries) ==
    run' = [run EXCEPT !.at = "file", !.entries = entries, !.file = run.file + 1, !.attempt = 0]

-----------------------------------------------------------------------------
\* run: the session is gone, or the task is running; a resumed one keeps its entries.
Begin ==
    /\ run.at = "begin"
    /\ \/ run.cancel /\ Stops /\ UNCHANGED <<task, journal>>
       \/ Goes("failed") /\ UNCHANGED <<task, journal>>
       \/ /\ Persisted([task EXCEPT !.status = "running", !.waiting = FALSE])
          /\ run' = [run EXCEPT !.at = IF task.waiting THEN "dirs" ELSE "reset",
                                !.resume = task.waiting, !.entries = task.entries]
    /\ UNCHANGED <<pausing, disk, resumed, crashed>>

\* Mistaken variant: the status of every entry is kept from an earlier run.
ResetBytesOnly ==
    /\ run.at = "reset"
    /\ LET kept == [f \in File |-> [run.entries[f] EXCEPT !.bytes = 0, !.status = "done"]]
       IN  /\ run' = [run EXCEPT !.at = "dirs", !.entries = kept]
           /\ Persisted([task EXCEPT !.entries = kept])
    /\ UNCHANGED <<pausing, disk, resumed, crashed>>

Reset ==
    /\ run.at = "reset"
    /\ \/ /\ run' = [run EXCEPT !.at = "dirs", !.entries = Fresh]
          /\ Persisted([task EXCEPT !.entries = Fresh, !.resumable = TRUE])
       \/ /\ run' = [run EXCEPT !.at = "failed", !.entries = Fresh]
          /\ Patched([task EXCEPT !.entries = Fresh, !.resumable = TRUE])
    /\ UNCHANGED <<pausing, disk, resumed, crashed>>

\* The directories of the destination, made with the same number of attempts.
Directories ==
    /\ run.at = "dirs"
    /\ \/ run.cancel /\ Stops
       \/ ~run.cancel /\ run' = [run EXCEPT !.at = "file", !.attempt = 0]
       \/ ~run.cancel /\ Goes("failed")
       \/ /\ ~run.cancel /\ run.attempt + 1 < MaxAttempts
          /\ run' = [run EXCEPT !.attempt = @ + 1]
    /\ UNCHANGED <<task, journal, pausing, disk, resumed, crashed>>

TakeFile ==
    /\ run.at = "file"
    /\ \/ /\ run.cancel /\ run.file <= Files /\ Stops
       \/ /\ ~run.cancel /\ run.file <= Files
          /\ run' = [run EXCEPT !.at = "entry", !.attempt = 1]
       \/ run.file > Files /\ Goes("finish")
    /\ UNCHANGED <<task, journal, pausing, disk, resumed, crashed>>

-----------------------------------------------------------------------------
(***************************************************************************)
(* transfer_directory_entry_once.                                          *)
(***************************************************************************)
PartSize(f) == IF part[f].size < 0 THEN 0 ELSE part[f].size

\* Where an attempt begins to write.
IsFresh(f) == ~run.resume \/ (run.entries[f].status = "pending" /\ run.entries[f].bytes = 0)
Offset(f) == IF IsFresh(f) THEN 0 ELSE PartSize(f)

\* An upload whose partial file is whole is not written again.
EntryBegins(f) ==
    LET begun == [run.entries EXCEPT ![f] = [status |-> "running", bytes |-> Offset(f)]]
        whole == Direction = "upload" /\ ~IsFresh(f) /\ part[f].size = Size
    IN  /\ Patched(Synced(begun))
        /\ run' = [run EXCEPT !.at = IF whole THEN "check" ELSE "data",
                              !.entries = begun, !.start = Offset(f)]

StartEntry ==
    /\ run.at = "entry"
    /\ LET f == run.file IN
       \/ /\ Fails(TRUE) \/ Fails(FALSE)                     \* no answer, or the source changed
          /\ UNCHANGED <<task, journal>>
       \/ /\ run.entries[f].status = "done" /\ dest[f] \in {"new", "mixed"}
          /\ NextFile(run.entries)                           \* AlreadyDone
          /\ UNCHANGED <<task, journal>>
       \/ /\ ~(run.entries[f].status = "done" /\ dest[f] \in {"new", "mixed"})
          /\ EntryBegins(f)
    /\ UNCHANGED <<pausing, disk, resumed, crashed>>

(***************************************************************************)
(* The data: offset 0 empties the partial file when it is opened, which an *)
(* operation that fails at once does not reach.  report_progress counts    *)
(* for the first running entry of the task's manifest.                     *)
(***************************************************************************)
Reported(n) ==
    LET running == {f \in File : task.entries[f].status = "running"}
    IN  IF running = {} THEN [task EXCEPT !.status = "running", !.resumable = TRUE]
        ELSE [task EXCEPT !.status = "running", !.resumable = TRUE,
                          !.entries[CHOOSE f \in running : \A g \in running : f <= g].bytes = n]

Written(f, n) == [size |-> n, own |-> run.start = 0 \/ part[f].own]

Data ==
    /\ run.at = "data"
    /\ LET f == run.file IN
       \/ /\ Fails(TRUE) \/ Fails(FALSE)
          /\ UNCHANGED <<task, journal, part>>
       \/ /\ Goes("check")
          /\ part' = [part EXCEPT ![f] = Written(f, Size)]
          /\ Patched(Reported(Size))
       \/ \E n \in run.start .. Size :
            /\ Fails(FALSE)
            /\ part' = [part EXCEPT ![f] = Written(f, n)]
            /\ Patched(Reported(n))
    /\ UNCHANGED <<pausing, linked, dest, backup, resumed, crashed>>

\* The sizes are compared, a download first looks whether it was cancelled.
CheckSize ==
    /\ run.at = "check"
    /\ \/ Fails(FALSE)
       \/ ~run.cancel /\ part[run.file].size = Size
          /\ Goes(CASE run.file \in linked -> "copy"
                    [] dest[run.file] = "none" -> "move"
                    [] OTHER -> "backup")
    /\ UNCHANGED <<task, journal, pausing, disk, resumed, crashed>>

(***************************************************************************)
(* replace_local_file, and its counterpart in the session's worker, which  *)
(* ends between two of its steps when it is cancelled or its session goes; *)
(* the server may have done what it was asked for last.                    *)
(***************************************************************************)
AnswerLost == Direction = "upload" /\ Fails(FALSE)

Backup ==
    /\ run.at = "backup"
    /\ \/ /\ dest' = [dest EXCEPT ![run.file] = "none"] /\ backup' = backup \cup {run.file}
          /\ Goes("move") \/ AnswerLost
       \/ Fails(FALSE) /\ UNCHANGED <<dest, backup>>
    /\ UNCHANGED <<task, journal, pausing, linked, part, resumed, crashed>>

Named(f) == dest' = [dest EXCEPT ![f] = IF part[f].own THEN "new" ELSE "mixed"]

\* Mistaken variant: the backup is removed before the new file has its name.
MoveAfterRemoval ==
    /\ run.at = "move"
    /\ backup' = backup \ {run.file}
    /\ \/ Fails(FALSE) /\ UNCHANGED <<dest, part>>
       \/ Named(run.file) /\ part' = [part EXCEPT ![run.file] = NoPart] /\ Goes("clear")
    /\ UNCHANGED <<task, journal, pausing, linked, resumed, crashed>>

Move ==
    /\ run.at = "move"
    /\ LET f == run.file IN
       \/ /\ Named(f) /\ part' = [part EXCEPT ![f] = NoPart]
          /\ Goes("clear") \/ AnswerLost
          /\ UNCHANGED <<linked, backup>>
       \/ /\ f \in backup                                    \* the first rename is undone
          /\ dest' = [dest EXCEPT ![f] = "old"] /\ backup' = backup \ {f}
          /\ Fails(FALSE) /\ UNCHANGED <<linked, part>>
       \/ /\ Fails(TRUE) \/ Fails(FALSE)                     \* that failed too, or there was none
          /\ UNCHANGED disk
    /\ UNCHANGED <<task, journal, pausing, resumed, crashed>>

ClearBackup ==
    /\ run.at = "clear"
    /\ backup' \in {backup, backup \ {run.file}}
    /\ Goes("entryDone") \/ AnswerLost
    /\ UNCHANGED <<task, journal, pausing, linked, dest, part, resumed, crashed>>

(***************************************************************************)
(* replace_remote_file of a link or of another user's file: it is emptied  *)
(* when it is opened, the partial file is copied into it, the sizes are    *)
(* compared, and the partial file is removed.  There is no backup.         *)
(***************************************************************************)
Truncate ==
    /\ run.at = "copy"
    /\ \/ Fails(TRUE) /\ UNCHANGED dest
       \/ Fails(FALSE) /\ UNCHANGED dest
       \/ /\ dest' = [dest EXCEPT ![run.file] = "torn"]
          /\ Goes("copying") \/ AnswerLost
    /\ UNCHANGED <<task, journal, pausing, linked, backup, part, resumed, crashed>>

CopyInPlace ==
    /\ run.at = "copying"
    /\ \/ Named(run.file) /\ (Goes("unlink") \/ AnswerLost)
       \/ (Fails(TRUE) \/ Fails(FALSE)) /\ UNCHANGED dest
    /\ UNCHANGED <<task, journal, pausing, linked, backup, part, resumed, crashed>>

Unlink ==
    /\ run.at = "unlink"
    /\ \/ /\ part' = [part EXCEPT ![run.file] = NoPart]
          /\ Goes("entryDone") \/ AnswerLost
       \/ (Fails(TRUE) \/ Fails(FALSE)) /\ UNCHANGED part
    /\ UNCHANGED <<task, journal, pausing, linked, dest, backup, resumed, crashed>>

\* The file is done, and now and then the journal says so.
EntryDone ==
    /\ run.at = "entryDone"
    /\ LET f == run.file
           done == [run.entries EXCEPT ![f] = [status |-> "done", bytes |-> Size]]
       IN  \/ MaybePersisted(Synced(done)) /\ NextFile(done)
           \/ Patched(Synced(done)) /\ run' = [run EXCEPT !.at = "failed", !.entries = done]
    /\ UNCHANGED <<pausing, disk, resumed, crashed>>

-----------------------------------------------------------------------------
\* What run_directory_transfer does about the error of an attempt.
EntryFailed ==
    /\ run.at = "error"
    /\ \/ run.cancel /\ Stops /\ UNCHANGED <<task, journal>>
       \/ /\ ~run.cancel /\ run.permanent
          /\ LET failed == [run.entries EXCEPT ![run.file].status = "failed"]
             IN  MaybePersisted(Synced(failed)) /\ NextFile(failed)
       \/ /\ ~run.cancel /\ ~run.permanent /\ run.attempt >= MaxAttempts
          /\ Goes("failed") /\ UNCHANGED <<task, journal>>
       \/ /\ ~run.cancel /\ ~run.permanent /\ run.attempt < MaxAttempts
          /\ Patched(Synced(run.entries))
          /\ run' = [run EXCEPT !.at = "entry", !.attempt = @ + 1]
    /\ UNCHANGED <<pausing, disk, resumed, crashed>>

\* All the files were taken: done, or paused with the failed ones left to retry.
Finish ==
    /\ run.at = "finish"
    /\ LET settled == [task EXCEPT !.entries = run.entries,
                         !.status = IF \E f \in File : run.entries[f].status = "failed"
                                    THEN "paused" ELSE "done",
                         !.resumable = \E f \in File : run.entries[f].status = "failed"]
       IN  \/ Persisted(settled) /\ Stops
           \/ Patched(settled) /\ Goes("failed")
    /\ UNCHANGED <<pausing, disk, resumed, crashed>>

(***************************************************************************)
(* fail_if_running: the running entry goes back to what its partial file   *)
(* holds; a size that nobody answers leaves the task failed.               *)
(***************************************************************************)
Running == {f \in File : task.entries[f].status = "running"}
First == CHOOSE f \in Running : \A g \in Running : f <= g

FailRun ==
    /\ run.at = "failed"
    /\ Stops
    /\ LET reset(n) == IF Running = {} THEN task.entries
                       ELSE [task.entries EXCEPT ![First] = [status |-> "pending", bytes |-> n]]
           settled(status, n) == [task EXCEPT !.entries = reset(n), !.status = status,
                                              !.waiting = FALSE, !.resumable = TRUE]
       IN  \/ task.status \in {"done", "paused"} /\ UNCHANGED <<task, journal>>
           \/ /\ task.status \notin {"done", "paused"}
              /\ \/ /\ Running # {} => part[First].size >= 0
                    /\ MaybePersisted(settled("paused", IF Running = {} THEN 0 ELSE PartSize(First)))
                 \/ /\ Running # {} /\ (part[First].size < 0 \/ Direction = "upload")
                    /\ MaybePersisted(settled("failed", 0))
    /\ UNCHANGED <<pausing, disk, resumed, crashed>>

-----------------------------------------------------------------------------
\* pause cancels the run, waits for it, and overwrites whatever status is not terminal.
Pause ==
    /\ task.status \in {"queued", "running"} /\ task.resumable /\ ~pausing
    /\ pausing' = TRUE
    /\ run' = [run EXCEPT !.cancel = run.at # "idle"]
    /\ UNCHANGED <<task, journal, disk, resumed, crashed>>

PauseEnds ==
    /\ pausing /\ run.at = "idle"
    /\ pausing' = FALSE
    /\ IF task.status = "done" THEN UNCHANGED <<task, journal>>
       ELSE Persisted([task EXCEPT !.status = "paused", !.waiting = FALSE])
    /\ UNCHANGED <<run, disk, resumed, crashed>>

Resume ==
    /\ run.at = "idle" /\ ~pausing /\ resumed < Resumes
    /\ task.resumable /\ task.status \in {"paused", "failed"}
    /\ Persisted([task EXCEPT !.status = "queued", !.waiting = TRUE])
    /\ run' = [Idle EXCEPT !.at = "begin"]
    /\ resumed' = resumed + 1
    /\ UNCHANGED <<pausing, disk, crashed>>

\* The application dies and is started again; read_journal_at interrupts what was active.
Crash ==
    /\ crashed < Crashes /\ crashed' = crashed + 1
    /\ LET read == [journal EXCEPT !.waiting = FALSE,
                      !.status = IF @ \in {"queued", "running"} THEN "paused" ELSE @]
       IN  Persisted(read)
    /\ Stops /\ pausing' = FALSE
    /\ UNCHANGED <<disk, resumed>>

Entries ==
    \/ StartEntry \/ Data \/ CheckSize \/ Backup \/ Move \/ ClearBackup
    \/ Truncate \/ CopyInPlace \/ Unlink \/ EntryDone \/ EntryFailed

RunStep ==
    \/ Begin \/ Reset \/ Directories \/ TakeFile \/ Entries \/ Finish \/ FailRun

Next == RunStep \/ Pause \/ PauseEnds \/ Resume \/ Crash

Spec == Init /\ [][Next]_vars

-----------------------------------------------------------------------------
(***************************************************************************)
(* Properties.                                                             *)
(***************************************************************************)
\* A file that the task, its journal or its run calls done has reached its
\* destination, and a task that is done has all of them there, through
\* every pause, failure, crash and resumption in between.
DoneIsOnDisk ==
    /\ \A f \in File :
         "done" \in {task.entries[f].status, journal.entries[f].status} => dest[f] \in {"new", "mixed"}
    /\ "done" \in {task.status, journal.status} => \A f \in File : dest[f] \in {"new", "mixed"}

\* Progress is counted for the first running entry of the task's manifest:
\* while a file's data moves that is the file, although a pause leaves the
\* entry it interrupted running in the manifest of the next run.
ProgressToItsFile == run.at \in {"data", "check"} => Running # {} /\ First = run.file

\* What the task shows of its files is true.
EntriesAreTrue == DoneIsOnDisk /\ ProgressToItsFile

\* A run that was not stopped leaves no file unsettled: when the task is
\* paused with its summary, every entry is done or failed and one is failed.
SummaryIsComplete ==
    [][run.at = "finish" /\ run'.at = "idle" /\ task'.status = "paused" /\ UNCHANGED crashed
         => /\ \A f \in File : task'.entries[f].status \in {"done", "failed"}
            /\ \E f \in File : task'.entries[f].status = "failed"]_vars

\* The user's old file is never lost before the new one has its name: it is
\* at the destination or under its backup name.  A file that is written in
\* place is given up for a whole partial file, which stays until it has been
\* copied; there is no old file to go back to when the copy breaks off.
OldFileSurvives ==
    [][\A f \in File :
         /\ f \notin linked /\ (dest[f] = "old" \/ f \in backup) /\ dest'[f] \notin {"new", "mixed"}
              => dest'[f] = "old" \/ f \in backup'
         /\ f \in linked /\ dest[f] = "old" /\ dest'[f] # "old"
              => part[f].size = Size /\ part'[f] = part[f]
         /\ f \in linked /\ part[f].size >= 0 /\ part'[f] = NoPart
              => dest[f] \in {"new", "mixed"}]_vars

\* A run that failed gives back the entry it was working on: the entry of a
\* file that the run has reached is not left running.
FailureSettlesEntry ==
    [][run.at = "failed" /\ run'.at = "idle" /\ UNCHANGED crashed
           /\ task.status = "running" /\ Running # {}
         => task'.entries[First].status = "pending"
            /\ task'.entries[First].bytes \in {0, PartSize(First)}]_vars

\* However a run ends, the old files and the entries are in order.
RunsLeaveOrder == SummaryIsComplete /\ OldFileSurvives /\ FailureSettlesEntry

===============================================================================
