----------------------------- MODULE StorageMigration -----------------------------
(***************************************************************************)
(* The files of the storage root and the migrations that fill it when the  *)
(* program starts (storage/migration/, storage/json_io.rs).                *)
(*                                                                         *)
(* A portable build first copies the files of the installed program into   *)
(* its empty config directory.  Any build then merges, once, the records   *)
(* of the old Electron program; a marker file says that this was done.     *)
(* Both stage what they write and commit the files one after the other,    *)
(* each with two renames, taking back what they did when one fails.        *)
(*                                                                         *)
(* Of the stores there are the profiles and the secrets that belong to     *)
(* them; a store maps ids to whose record it holds.                        *)
(***************************************************************************)
EXTENDS Naturals, Sequences

CONSTANTS
    Ids,            \* ids of records
    Portable,       \* whether this is a portable build
    Launches,       \* bounds of the instance: starts of the program,
    Faults,         \* calls of the file system that fail,
    Crashes,        \* crashes,
    None

VARIABLES
    root,       \* the files of the storage root
    logs,       \* whether it has the directory of the log
    exe,        \* the portable marker beside the executable
    source,     \* the files of the installed program: the root begins with them, or copies them
    legacy,     \* the files of the Electron program
    proc,       \* where the program is in its start
    gone,       \* ids the user deleted
    launched, failed, crashed
given == <<source, legacy>>
counts == <<launched, failed, crashed>>
vars == <<root, logs, exe, given, proc, gone, counts>>

Markers == {"legacyMarker", "portableMarker"}
Stores == {"profiles", "secrets"}
Owners == {"none", "current", "legacy"}
Reports == {"completed", "existing", "no-source"}
Typed(r) ==
    /\ DOMAIN r = Stores \cup Markers
    /\ \A s \in Stores : r[s] = None \/ r[s] \in [Ids -> Owners]
    /\ \A m \in Markers : r[m] \in Reports \cup {None}
Missing == [s \in Stores \cup Markers |-> None]

\* What a commit does next: pending files, those that were committed and the backups.
Stopped == [at |-> "down", pending |-> <<>>, next |-> 1, aside |-> FALSE, backup |-> Missing,
            before |-> Missing]

TypeOK ==
    /\ Typed(root) /\ Typed(source) /\ Typed(legacy)
    /\ logs \in BOOLEAN /\ exe \in BOOLEAN
    /\ proc.at \in {"down", "portable", "copy", "legacy", "merge", "rollback", "mark", "up", "saving"}
    /\ proc.next \in 0..(Len(proc.pending) + 1) /\ Typed(proc.backup) /\ Typed(proc.before)
    /\ gone \subseteq Ids

Some(ids, owner) == [i \in Ids |-> IF i \in ids THEN owner ELSE "none"]
Filled(ids, owner) == [Missing EXCEPT !.profiles = Some(ids, owner), !.secrets = Some(ids, owner)]

Init ==
    /\ \E theirs \in SUBSET Ids : legacy = Filled(theirs, "legacy")
    /\ \E ours \in SUBSET Ids :
         LET used == IF ours = {} THEN Missing ELSE Filled(ours, "current")
         IN  source = used /\ root = IF Portable THEN Missing ELSE used
    /\ logs = FALSE /\ exe = FALSE /\ gone = {}
    /\ proc = Stopped
    /\ launched = 0 /\ failed = 0 /\ crashed = 0

-----------------------------------------------------------------------------
(***************************************************************************)
(* Merging (merge_json_values, retain_nested_keys).                        *)
(***************************************************************************)
IdsOf(store) == IF store = None THEN {} ELSE {i \in Ids : store[i] # "none"}

Merged(current, old) ==
    [i \in Ids |-> IF i \in IdsOf(current) THEN current[i] ELSE old[i]]

Kept(store, ids) == [i \in Ids |-> IF i \in ids THEN store[i] ELSE "none"]

\* The files a migration of the old program stages, its marker last.
LegacyFiles ==
    LET profiles == Merged(root.profiles, legacy.profiles)
        secrets == Kept(Merged(root.secrets, legacy.secrets), IdsOf(profiles))
        changed(name, new) == IF root[name] = new THEN <<>> ELSE <<[name |-> name, new |-> new]>>
    IN  changed("profiles", profiles) \o changed("secrets", secrets)
          \o <<[name |-> "legacyMarker", new |-> "completed"]>>

\* The files of the installed program, and the marker of the copy.
CopiedFiles ==
    LET file(name) == IF source[name] = None THEN <<>> ELSE <<[name |-> name, new |-> source[name]]>>
    IN  file("profiles") \o file("secrets") \o file("legacyMarker")
          \o <<[name |-> "portableMarker", new |-> "completed"]>>

-----------------------------------------------------------------------------
(***************************************************************************)
(* The start.  The logger comes first, and its thread makes the directory  *)
(* of the log at some time after that.                                     *)
(***************************************************************************)
Begins(at, files) ==
    proc' = [Stopped EXCEPT !.at = at, !.pending = files, !.before = root]

\* Mistaken variant: the marker beside the executable is not looked at.
LaunchUnmarked ==
    /\ proc.at = "down" /\ launched < Launches
    /\ launched' = launched + 1
    /\ proc' = [Stopped EXCEPT !.at = IF Portable THEN "portable" ELSE "legacy"]
    /\ UNCHANGED <<root, logs, exe, given, gone, failed, crashed>>

Launch ==
    /\ proc.at = "down" /\ launched < Launches
    /\ launched' = launched + 1
    /\ proc' = [Stopped EXCEPT !.at = IF ~Portable THEN "legacy" ELSE IF exe THEN "mark" ELSE "portable"]
    /\ UNCHANGED <<root, logs, exe, given, gone, failed, crashed>>

LogWriter ==
    /\ proc.at # "down" /\ ~logs /\ logs' = TRUE
    /\ UNCHANGED <<root, exe, given, proc, gone, counts>>

\* migrate_portable_data_from_source: only an empty directory is filled.
PortableStarts ==
    /\ proc.at = "portable"
    /\ \/ /\ root.portableMarker # None
          /\ proc' = [proc EXCEPT !.at = "legacy"] /\ UNCHANGED root
       \/ /\ root.portableMarker = None
          /\ logs \/ root # Missing \/ source = Missing
          /\ root' = [root EXCEPT !.portableMarker =
                         IF logs \/ root # Missing THEN "existing" ELSE "no-source"]
          /\ proc' = [proc EXCEPT !.at = "legacy"]
       \/ /\ ~logs /\ root = Missing /\ source # Missing
          /\ Begins("copy", CopiedFiles) /\ UNCHANGED root
    /\ UNCHANGED <<logs, exe, given, gone, counts>>

\* migrate_legacy_store: the marker says whether it was done.
LegacyStarts ==
    /\ proc.at = "legacy"
    /\ IF root.legacyMarker # None THEN proc' = [proc EXCEPT !.at = "mark"]
       ELSE Begins("merge", LegacyFiles)
    /\ UNCHANGED <<root, logs, exe, given, gone, counts>>

(***************************************************************************)
(* commit_pending_files: the target goes to the transaction's backup, the  *)
(* staged file becomes the target.                                         *)
(***************************************************************************)
Committing == proc.at \in {"copy", "merge"} /\ proc.next <= Len(proc.pending)
This == proc.pending[proc.next]

Aside ==
    /\ Committing /\ ~proc.aside
    /\ root' = [root EXCEPT ![This.name] = None]
    /\ proc' = [proc EXCEPT !.aside = TRUE, !.backup[This.name] = root[This.name]]
    /\ UNCHANGED <<logs, exe, given, gone, counts>>

Place ==
    /\ Committing /\ proc.aside
    /\ root' = [root EXCEPT ![This.name] = This.new]
    /\ proc' = [proc EXCEPT !.aside = FALSE, !.next = @ + 1]
    /\ UNCHANGED <<logs, exe, given, gone, counts>>

\* A call failed: what was set aside and what was committed is taken back.
Fault ==
    /\ Committing /\ failed < Faults
    /\ failed' = failed + 1
    /\ root' = IF proc.aside THEN [root EXCEPT ![This.name] = proc.backup[This.name]] ELSE root
    /\ proc' = [proc EXCEPT !.at = "rollback", !.aside = FALSE, !.next = @ - 1]
    /\ UNCHANGED <<logs, exe, given, gone, launched, crashed>>

\* Mistaken variant: the file that was committed first is forgotten.
RollbackButFirst ==
    /\ proc.at = "rollback"
    /\ IF proc.next <= 1 THEN proc' = Stopped /\ UNCHANGED root
       ELSE /\ root' = [root EXCEPT ![This.name] = proc.backup[This.name]]
            /\ proc' = [proc EXCEPT !.next = @ - 1]
    /\ UNCHANGED <<logs, exe, given, gone, counts>>

\* rollback_committed, after which the start fails; also what it could not take back is gone.
Rollback ==
    /\ proc.at = "rollback"
    /\ IF proc.next = 0 THEN proc' = Stopped /\ UNCHANGED <<root, failed>>
       ELSE /\ proc' = [proc EXCEPT !.next = @ - 1]
            /\ \/ root' = [root EXCEPT ![This.name] = proc.backup[This.name]] /\ UNCHANGED failed
               \/ /\ failed < Faults /\ failed' = failed + 1
                  /\ root' = [root EXCEPT ![This.name] = None]
    /\ UNCHANGED <<logs, exe, given, gone, launched, crashed>>

\* The transaction is over; a directory of it that cannot be removed fails the start.
Committed ==
    /\ proc.at \in {"copy", "merge"} /\ proc.next > Len(proc.pending)
    /\ \/ proc' = [Stopped EXCEPT !.at = IF proc.at = "copy" THEN "legacy" ELSE "mark"] /\ UNCHANGED failed
       \/ failed < Faults /\ failed' = failed + 1 /\ proc' = Stopped
    /\ UNCHANGED <<root, logs, exe, given, gone, launched, crashed>>

\* ensure_portable_marker; a marker that cannot be written is only logged.
Mark ==
    /\ proc.at = "mark"
    /\ proc' = [proc EXCEPT !.at = "up"]
    /\ \/ exe' = Portable /\ UNCHANGED failed
       \/ Portable /\ ~exe /\ failed < Faults /\ failed' = failed + 1 /\ UNCHANGED exe
    /\ UNCHANGED <<root, logs, given, gone, launched, crashed>>

-----------------------------------------------------------------------------
(***************************************************************************)
(* The program is up: the user deletes a profile, which writes the store   *)
(* anew (write_json_array, replace_file_atomically), or clears config.     *)
(***************************************************************************)
Delete(i) ==
    /\ proc.at = "up" /\ i \in IdsOf(root.profiles)
    /\ proc' = [Stopped EXCEPT !.at = "saving", !.before = root,
                  !.pending = <<[name |-> "profiles", new |-> Kept(root.profiles, Ids \ {i})]>>]
    /\ root' = [root EXCEPT !.profiles = None]
    /\ gone' = gone \cup {i}
    /\ UNCHANGED <<logs, exe, given, counts>>

Saved ==
    /\ proc.at = "saving"
    /\ \/ root' = [root EXCEPT !.profiles = This.new] /\ UNCHANGED failed
       \/ failed < Faults /\ failed' = failed + 1 /\ root' = [root EXCEPT !.profiles = proc.before.profiles]
    /\ proc' = [Stopped EXCEPT !.at = "up"]
    /\ gone' = {i \in gone : i \notin IdsOf(root'.profiles)}
    /\ UNCHANGED <<logs, exe, given, launched, crashed>>

\* The user removes what is in config while the program is not running.
Clear ==
    /\ Portable /\ exe /\ proc.at = "down" /\ root # Missing
    /\ root' = Missing /\ logs' = FALSE /\ gone' = Ids
    /\ UNCHANGED <<exe, given, proc, counts>>

Quit == proc.at = "up" /\ proc' = Stopped /\ UNCHANGED <<root, logs, exe, given, gone, counts>>

\* The program dies; the transaction's directory stays, and nothing looks into it.
Crash ==
    /\ proc.at \notin {"down", "up"} /\ crashed < Crashes
    /\ crashed' = crashed + 1 /\ proc' = Stopped
    /\ UNCHANGED <<root, logs, exe, given, gone, launched, failed>>

Next ==
    \/ Launch \/ LogWriter \/ PortableStarts \/ LegacyStarts
    \/ Aside \/ Place \/ Fault \/ Rollback \/ Committed \/ Mark
    \/ (\E i \in Ids : Delete(i)) \/ Saved \/ Clear \/ Quit \/ Crash

Spec == Init /\ [][Next]_vars

-----------------------------------------------------------------------------
(***************************************************************************)
(* Properties.                                                             *)
(***************************************************************************)
\* A profile the user deleted, and a config directory the user cleared, do
\* not come back with a later start, whatever failed or crashed before.
DeletedStaysDeleted ==
    proc.at \in {"mark", "up"} => gone \cap IdsOf(root.profiles) = {}

\* A migration that fails leaves the files as they were when it began, and
\* no marker of its own: one call of the file system fails.
RollbackRestores ==
    [][proc.at = "rollback" /\ proc'.at = "down" /\ UNCHANGED crashed => root' = proc.before]_vars

\* A merge that ends has kept every current record and added every other
\* one of the old program.
MergeIsComplete ==
    [][proc.at = "merge" /\ proc'.at = "mark" =>
         /\ \A i \in IdsOf(proc.before.profiles) : root'.profiles[i] = proc.before.profiles[i]
         /\ IdsOf(root'.profiles) = IdsOf(proc.before.profiles) \cup IdsOf(legacy.profiles)]_vars

\* A migration takes place as a whole or not at all.
MigrationIsWhole == RollbackRestores /\ MergeIsComplete

-----------------------------------------------------------------------------
(***************************************************************************)
(* Refuted: what the documents say of the code.                            *)
(***************************************************************************)
\* The current data win: what was there before the first start is there
\* when the program is up, unless the user deleted it.
CurrentSurvives ==
    proc.at = "up" /\ gone = {} =>
        \A i \in IdsOf(source.profiles) : root.profiles # None /\ root.profiles[i] = "current"

===============================================================================
