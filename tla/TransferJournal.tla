--------------------------- MODULE TransferJournal ---------------------------
(***************************************************************************)
(* The transfer journal of FileTerm (services/transfers/model.rs and       *)
(* runtime.rs): the in-memory task list, the callers that persist it, the  *)
(* file operations of write_journal one by one, ensure_loaded, and crashes *)
(* between any two of them.                                                *)
(*                                                                         *)
(* A task list is represented by its version: every change of the list in  *)
(* memory makes the next one, and version 0 is the empty list.             *)
(***************************************************************************)
EXTENDS Naturals

CONSTANTS
    Writers,        \* callers of persist
    Loader,         \* the caller of ensure_loaded
    None,           \* no file, no writer, no answer
    Torn,           \* a file that does not parse
    Newer,          \* a journal of a later schema version
    MaxVersion,     \* bound: changes of the list
    MaxFaults       \* bound: crashes, failing file operations, damaged files

VARIABLES
    mem,            \* WorkspaceState::transfers
    loaded,         \* transfer_journal_loaded
    waiting,        \* the writers that asked for the lock
    lock,           \* the holder of transfer_journal_write
    step,           \* the next step of the holder
    snap,           \* the list it writes
    moved,          \* moved_current
    primary, backup, temporary,     \* the three files
    acked,          \* newest version a persist reported as saved
    faults

files == <<primary, backup, temporary>>
vars == <<mem, loaded, waiting, lock, step, snap, moved, files, acked, faults>>

Version == Nat
File    == Version \cup {None, Torn, Newer}
Steps   == {"idle", "read", "snapshot", "create", "write", "drop", "move",
            "commit", "clean"}

Fault == faults < MaxFaults /\ faults' = faults + 1

-----------------------------------------------------------------------------
\* Nothing was ever saved.
Init ==
    /\ mem = 0 /\ loaded = FALSE
    /\ waiting = {} /\ lock = None /\ step = "idle" /\ snap = 0 /\ moved = FALSE
    /\ primary = None /\ backup = None /\ temporary = None
    /\ acked = 0 /\ faults = 0

-----------------------------------------------------------------------------
(***************************************************************************)
(* read_journal_at                                                         *)
(***************************************************************************)

\* The first file that parses; None stands for an error.
Read ==
    IF primary \in Version THEN primary
    ELSE IF primary = Newer \/ backup = Newer THEN None
    ELSE IF backup \in Version THEN backup
    ELSE IF primary = None /\ backup = None THEN 0 ELSE None

-----------------------------------------------------------------------------
(***************************************************************************)
(* Callers                                                                 *)
(***************************************************************************)

\* Any patch of the list: it needs the list loaded and no journal lock.
Patch ==
    /\ loaded
    /\ mem < MaxVersion
    /\ mem' = mem + 1
    /\ UNCHANGED <<loaded, waiting, lock, step, snap, moved, files, acked,
                   faults>>

Persist(w) ==
    /\ loaded
    /\ w \notin waiting /\ lock # w
    /\ waiting' = waiting \cup {w}
    /\ UNCHANGED <<mem, loaded, lock, step, snap, moved, files, acked, faults>>

\* Once locked, the write runs to its end even if its caller goes away.
Lock(w) ==
    /\ lock = None
    /\ w \in waiting
    /\ lock' = w
    /\ waiting' = waiting \ {w}
    /\ step' = "snapshot"
    /\ UNCHANGED <<mem, loaded, snap, moved, files, acked, faults>>

\* ensure_loaded: reading and writing back are under the same lock.
Load ==
    /\ ~loaded
    /\ lock = None
    /\ lock' = Loader
    /\ step' = "read"
    /\ UNCHANGED <<mem, loaded, waiting, snap, moved, files, acked, faults>>

-----------------------------------------------------------------------------
(***************************************************************************)
(* The steps of the lock holder                                            *)
(***************************************************************************)

At(s) == lock # None /\ step = s

Release == lock' = None /\ step' = "idle" /\ moved' = FALSE

\* Mistaken variant: an error is passed on as if it were a list.
ReadFilesUnchecked ==
    /\ At("read")
    /\ mem' = Read /\ snap' = Read
    /\ step' = "create"
    /\ UNCHANGED <<lock, moved, loaded, waiting, files, acked, faults>>

ReadFiles ==
    /\ At("read")
    /\ \/ /\ Read = None
          /\ Release
          /\ UNCHANGED <<mem, snap>>
       \/ /\ Read # None
          /\ mem' = Read
          /\ snap' = Read
          /\ step' = "create"
          /\ UNCHANGED <<lock, moved>>
    /\ UNCHANGED <<loaded, waiting, files, acked, faults>>

\* Mistaken variant: the list was copied before the lock was granted.
SnapshotEarly ==
    /\ At("snapshot")
    /\ snap' \in 0 .. mem
    /\ step' = "create"
    /\ UNCHANGED <<mem, loaded, waiting, lock, moved, files, acked, faults>>

\* The list is copied under the lock: no later save can be overtaken.
Snapshot ==
    /\ At("snapshot")
    /\ snap' = mem
    /\ step' = "create"
    /\ UNCHANGED <<mem, loaded, waiting, lock, moved, files, acked, faults>>

\* File::create empties what an earlier crash left behind.
CreateTemporary ==
    /\ At("create")
    /\ \/ /\ temporary' = Torn
          /\ step' = "write"
          /\ UNCHANGED <<lock, moved, faults>>
       \/ Fault /\ Release /\ UNCHANGED temporary
    /\ UNCHANGED <<mem, loaded, waiting, snap, primary, backup, acked>>

\* write_all, flush and sync_data.
WriteTemporary ==
    /\ At("write")
    /\ \/ /\ temporary' = snap
          /\ step' = "drop"
          /\ UNCHANGED <<lock, moved, faults>>
       \/ Fault /\ Release /\ UNCHANGED temporary
    /\ UNCHANGED <<mem, loaded, waiting, snap, primary, backup, acked>>

\* Whether an old backup could be removed is not looked at, and a rename
\* replaces it in any case.
DropBackup ==
    /\ At("drop")
    /\ \/ backup' = None /\ UNCHANGED faults
       \/ Fault /\ UNCHANGED backup
    /\ step' = "move"
    /\ UNCHANGED <<mem, loaded, waiting, lock, snap, moved, primary, temporary,
                   acked>>

\* Mistaken variant: the current journal is removed, not kept as the backup.
RemoveCurrent ==
    /\ At("move")
    /\ primary' = None /\ moved' = (primary # None)
    /\ step' = "commit"
    /\ UNCHANGED <<mem, loaded, waiting, lock, snap, backup, temporary, acked,
                   faults>>

MoveCurrent ==
    /\ At("move")
    /\ \/ /\ primary # None
          /\ primary' = None /\ backup' = primary
          /\ moved' = TRUE /\ step' = "commit"
          /\ UNCHANGED <<lock, faults>>
       \/ /\ primary = None
          /\ moved' = FALSE /\ step' = "commit"
          /\ UNCHANGED <<lock, primary, backup, faults>>
       \/ primary # None /\ Fault /\ Release /\ UNCHANGED <<primary, backup>>
    /\ UNCHANGED <<mem, loaded, waiting, snap, temporary, acked>>

\* A rename that fails is rolled back, if that rename does not fail as well.
Rollback ==
    \/ moved /\ primary' = backup /\ backup' = None
    \/ UNCHANGED <<primary, backup>>

CommitTemporary ==
    /\ At("commit")
    /\ \/ /\ primary' = temporary /\ temporary' = None
          /\ step' = "clean"
          /\ UNCHANGED <<lock, moved, backup, faults>>
       \/ Fault /\ Rollback /\ Release /\ UNCHANGED temporary
    /\ UNCHANGED <<mem, loaded, waiting, snap, acked>>

\* The last clean-up, after which the caller is told that its list is saved.
Finish ==
    /\ At("clean")
    /\ \/ backup' = None /\ UNCHANGED faults
       \/ Fault /\ UNCHANGED backup
    /\ Release
    /\ acked' = IF snap > acked THEN snap ELSE acked
    /\ loaded' = TRUE
    /\ UNCHANGED <<mem, waiting, snap, primary, temporary>>

-----------------------------------------------------------------------------
(***************************************************************************)
(* The environment                                                         *)
(***************************************************************************)

Crash ==
    /\ Fault
    /\ loaded' = FALSE
    /\ waiting' = {}
    /\ Release
    /\ UNCHANGED <<mem, snap, files, acked>>

\* The program is left between two writes.
Quit ==
    /\ loaded /\ lock = None
    /\ loaded' = FALSE
    /\ waiting' = {}
    /\ UNCHANGED <<mem, lock, step, snap, moved, files, acked, faults>>

\* A file is damaged while the program is not running.
Damage ==
    /\ ~loaded /\ lock = None
    /\ primary \in Version
    /\ Fault
    /\ primary' = Torn
    /\ UNCHANGED <<mem, loaded, waiting, lock, step, snap, moved, backup,
                   temporary, acked>>

\* A later version of the program ran in between.
Upgrade ==
    /\ ~loaded /\ lock = None
    /\ primary' = Newer
    /\ UNCHANGED <<mem, loaded, waiting, lock, step, snap, moved, backup,
                   temporary, acked, faults>>

-----------------------------------------------------------------------------
CallerStep == Patch \/ Load \/ \E w \in Writers : Persist(w) \/ Lock(w)

HolderStep ==
    \/ ReadFiles \/ Snapshot \/ CreateTemporary \/ WriteTemporary \/ DropBackup
    \/ MoveCurrent \/ CommitTemporary \/ Finish

Next == CallerStep \/ HolderStep \/ Quit \/ Crash \/ Damage \/ Upgrade

Spec == Init /\ [][Next]_vars

-----------------------------------------------------------------------------
(***************************************************************************)
(* Properties                                                              *)
(***************************************************************************)

TypeOK ==
    /\ mem \in Version /\ snap \in Version /\ acked \in Version
    /\ loaded \in BOOLEAN /\ moved \in BOOLEAN
    /\ waiting \in SUBSET Writers
    /\ lock \in Writers \cup {Loader, None}
    /\ step \in Steps
    /\ primary \in File /\ backup \in File /\ temporary \in File
    /\ faults \in 0 .. MaxFaults

\* The journal keeps the promise of DurableList: no restart brings back a list
\* older than an acknowledged one, or one that was never held.
Promise == INSTANCE DurableList WITH held <- mem, acked <- acked
KeepsPromise == Promise!Spec

\* Between two writes of a program that has loaded its list, what a restart
\* would read is at least what was acknowledged.
SavedOnDisk ==
    loaded /\ lock = None => Read # None /\ Read >= acked

\* A journal written by a later version of the program is never touched.
NewerKept == [][primary = Newer => primary' = Newer]_vars

\* A journal keeps its promise, and lets alone what it cannot read.
JournalIsKept == KeepsPromise /\ NewerKept

\* Saving never puts an older list in place of a newer one, whatever the order
\* the callers asked in: the new journal is beside the one it replaced.
SavesInOrder ==
    At("clean") /\ moved /\ backup \in Version => primary >= backup

\* The files hold what was promised.
FilesAreCurrent == SavedOnDisk /\ SavesInOrder

===============================================================================
