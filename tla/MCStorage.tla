------------------------------- MODULE MCStorage -------------------------------
(***************************************************************************)
(* Instances of the components that keep files, here or on a server, and   *)
(* of the pane that shows them.  They share no variable, so a behaviour    *)
(* drives one of them, which its initial state chooses, and leaves the     *)
(* others in one of their initial states.                                  *)
(* Four of them have two instances: uploads and downloads of directories,  *)
(* the starts of an installed and of a portable program, operations and    *)
(* uploads of an FTP session, operations on remote files and changes of    *)
(* the access to them.                                                     *)
(***************************************************************************)
EXTENDS Naturals, Sequences, TLC

CONSTANTS
    Parts,                                      \* what this run drives
    Writers, Loader, Torn, Newer, MaxVersion,   \* TransferJournal
    Files,                                      \* DirectoryTransfer
    RecordIds,                                  \* StorageMigration
    Devices, Locations, Connections, S3,        \* BackupSync
    BackupEdits, BackupMoves, BackupPuts, BackupFaults,
    Profiles, Secrets, Names, Readers,          \* ProfileLibrary
    Default, NoFile, Absent, Keep,
    FtpOperations,                              \* FtpSession
    FileOperations,                             \* RemoteFiles
    Dirs, Home, PaneCommands,                   \* ShellFollow
    None

VARIABLES
    driven,
    \* TransferJournal
    mem, loaded, waiting, lock, step, snap, moved, primary, secondary, temporary,
    acked, harms,
    \* DirectoryTransfer
    task, journal, run, pausing, linked, dest, backup, part, resumed, losses,
    \* StorageMigration
    root, logs, exe, source, legacy, proc, gone, launched, failed, crashed,
    \* BackupSync
    remote, local, config, call, known, etags, edits, moves, faults,
    \* ProfileLibrary
    public, store, folders, act, accept, place, beside, torn, made, commands, broken, died,
    \* FtpSession
    state, display, attempt, misses, channel, wire, queue, result, cur, disk, had, up,
    flows, uploaded, desync, misled, refusals,
    \* RemoteFiles
    sftp, exec, foreign, sudoers, access, rootMethod, rootPassword, passwords, viewed,
    account, chosen,
    works, turn, requests, programs, target, aside, staging, kept, existed, last, late,
    switches, refused,
    \* ShellFollow
    shell, session, prompt, pending, wake, refresh, followed, start, ready, command,
    prompts, errors

journalVars == <<mem, loaded, waiting, lock, step, snap, moved, primary, secondary,
                 temporary, acked, harms>>
directoryVars == <<task, journal, run, pausing, linked, dest, backup, part, resumed, losses>>
migrationVars == <<root, logs, exe, source, legacy, proc, gone, launched, failed, crashed>>
backupVars == <<remote, local, config, call, known, etags, edits, moves, faults>>
libraryVars == <<public, store, folders, act, accept, place, beside, torn, made, commands,
                 broken, died>>
ftpVars == <<state, display, attempt, misses, channel, wire, queue, result, cur, disk, had,
             up, flows, uploaded, desync, misled, refusals>>
fileVars == <<sftp, exec, foreign, sudoers, access, rootMethod, rootPassword, passwords,
              viewed, account, chosen, works, turn, requests, programs, target, aside, staging, kept,
              existed, last, late, switches, refused>>
followVars == <<shell, session, prompt, pending, wake, refresh, followed, start, ready,
                command, prompts, errors>>
vars == <<driven, journalVars, directoryVars, migrationVars, backupVars, libraryVars,
          ftpVars, fileVars, followVars>>

Journal == INSTANCE TransferJournal WITH
               MaxFaults <- 1, backup <- secondary, faults <- harms
Upload == INSTANCE DirectoryTransfer WITH
              Direction <- "upload", Size <- 1, MaxAttempts <- 2, Resumes <- 1, Crashes <- 0,
              crashed <- losses
Download == INSTANCE DirectoryTransfer WITH
                Direction <- "download", Size <- 2, MaxAttempts <- 2, Resumes <- 1, Crashes <- 1,
                crashed <- losses
Installed == INSTANCE StorageMigration WITH
                 Ids <- RecordIds, Portable <- FALSE, Launches <- 3, Faults <- 1, Crashes <- 1
Portable == INSTANCE StorageMigration WITH
                Ids <- RecordIds, Portable <- TRUE, Launches <- 3, Faults <- 1, Crashes <- 1
Backup == INSTANCE BackupSync WITH
              Edits <- BackupEdits, Moves <- BackupMoves, Puts <- BackupPuts,
              Faults <- BackupFaults, Names <- TRUE
Library == INSTANCE ProfileLibrary WITH
               Missing <- NoFile, MaxFolders <- 1, Overlap <- FALSE, Commands <- 2,
               Faults <- 1, Crashes <- 1,
               faults <- broken, crashes <- died

\* File operations over the control connection, and uploads beside it.
Ftp == INSTANCE FtpSession WITH
           Ops <- FtpOperations, Total <- 2, Limit <- 1, MaxMisses <- 1, Conns <- {1, 2},
           Uploads <- {}, Faults <- 1, shown <- display, conn <- channel, faults <- refusals
FtpData == INSTANCE FtpSession WITH
               Ops <- {}, Total <- 2, Limit <- 1, MaxMisses <- 1, Conns <- {1, 2},
               Uploads <- {1, 2}, Faults <- 2, shown <- display, conn <- channel,
               faults <- refusals

\* Operations of which some are given up, and changes of the access between them.
Edits == INSTANCE RemoteFiles WITH
             Ops <- FileOperations, Switches <- 1, Faults <- 1,
             mode <- access, method <- rootMethod, password <- rootPassword,
             saved <- passwords, shown <- viewed, shell <- account, ops <- works, lock <- turn,
             wire <- requests, commands <- programs, file <- target, moved <- aside,
             backup <- kept, had <- existed, faults <- refused
Access == INSTANCE RemoteFiles WITH
              Ops <- {}, Switches <- 4, Faults <- 0,
              mode <- access, method <- rootMethod, password <- rootPassword,
              saved <- passwords, shown <- viewed, shell <- account, ops <- works, lock <- turn,
              wire <- requests, commands <- programs, file <- target, moved <- aside,
              backup <- kept, had <- existed, faults <- refused

Follow == INSTANCE ShellFollow WITH Prompts <- 2, ListErrors <- 1, task <- refresh

\* One file of a folder may be there before: the first one of an upload, the
\* last one of a download.  The same file may have a partial file of another
\* task: an upload when its destination is there, a download when it is not.
Earlier(f) ==
    CASE driven = "upload" /\ f = 1 -> dest[f] = "old" <=> part[f] # Upload!NoPart
      [] driven = "download" /\ f = Files -> dest[f] = "old" <=> part[f] = Upload!NoPart
      [] OTHER -> dest[f] = "none" /\ part[f] = Upload!NoPart

Init ==
    /\ driven \in Parts
    /\ Journal!Init
    /\ Upload!Init
    /\ \A f \in Upload!File : Earlier(f)
    /\ linked \subseteq (IF driven = "upload" THEN {f \in Upload!File : dest[f] = "old"} ELSE {})
    /\ \/ driven = "portable" /\ Portable!Init
       \/ driven # "portable" /\ Installed!Init
    /\ \/ driven \in {"installed", "portable"}
       \/ source = Installed!Missing /\ legacy = Installed!Filled({}, "legacy")
    /\ Backup!Init
    /\ \A d \in Devices : config[d].location = CHOOSE l \in Locations : TRUE
    /\ Library!Init
    /\ IF driven = "ftpdata" THEN FtpData!Init
       ELSE Ftp!Init /\ (driven = "ftp" \/ (had /\ disk["part"] = None))
    /\ IF driven = "access" THEN Access!Init
       ELSE /\ Edits!Init /\ passwords["su"] = None
            /\ account = "login"
            /\ driven = "files" \/ (sftp /\ exec /\ existed /\ ~foreign /\ sudoers)
    /\ Follow!Init /\ (driven = "follow" \/ session.follow)

Next ==
    /\ UNCHANGED driven
    /\ \/ /\ driven = "journal" /\ Journal!Next
          /\ UNCHANGED <<directoryVars, migrationVars, backupVars, libraryVars, ftpVars,
                         fileVars, followVars>>
       \/ /\ driven = "upload" /\ Upload!Next
          /\ UNCHANGED <<journalVars, migrationVars, backupVars, libraryVars, ftpVars,
                         fileVars, followVars>>
       \/ /\ driven = "download" /\ Download!Next
          /\ UNCHANGED <<journalVars, migrationVars, backupVars, libraryVars, ftpVars,
                         fileVars, followVars>>
       \/ /\ driven = "installed" /\ Installed!Next
          /\ UNCHANGED <<journalVars, directoryVars, backupVars, libraryVars, ftpVars,
                         fileVars, followVars>>
       \/ /\ driven = "portable" /\ Portable!Next
          /\ UNCHANGED <<journalVars, directoryVars, backupVars, libraryVars, ftpVars,
                         fileVars, followVars>>
       \/ /\ driven = "backup" /\ Backup!Next
          /\ UNCHANGED <<journalVars, directoryVars, migrationVars, libraryVars, ftpVars,
                         fileVars, followVars>>
       \/ /\ driven = "profiles" /\ Library!Next
          /\ UNCHANGED <<journalVars, directoryVars, migrationVars, backupVars, ftpVars,
                         fileVars, followVars>>
       \/ /\ \/ driven = "ftp" /\ Ftp!Next
             \/ driven = "ftpdata" /\ FtpData!Next
          /\ UNCHANGED <<journalVars, directoryVars, migrationVars, backupVars,
                         libraryVars, fileVars, followVars>>
       \/ /\ \/ driven = "files" /\ Edits!Next
             \/ driven = "access" /\ Access!Next
          /\ UNCHANGED <<journalVars, directoryVars, migrationVars, backupVars,
                         libraryVars, ftpVars, followVars>>
       \/ /\ driven = "follow" /\ Follow!Next
          /\ UNCHANGED <<journalVars, directoryVars, migrationVars, backupVars,
                         libraryVars, ftpVars, fileVars>>

Spec == Init /\ [][Next]_vars

-------------------------------------------------------------------------------
(***************************************************************************)
(* Properties: the component's module states what each of them is about.   *)
(***************************************************************************)

\* Every component keeps its types; the ones that are not driven never change.
TypeOK ==
    CASE driven = "journal" -> Journal!TypeOK
      [] driven \in {"upload", "download"} -> Download!TypeOK
      [] driven \in {"installed", "portable"} -> Installed!TypeOK
      [] driven = "backup" -> Backup!TypeOK
      [] driven = "profiles" -> Library!TypeOK
      [] driven = "ftp" -> Ftp!TypeOK
      [] driven = "ftpdata" -> FtpData!TypeOK
      [] driven = "files" -> Edits!TypeOK
      [] driven = "access" -> Access!TypeOK
      [] driven = "follow" -> Follow!TypeOK

\* The journal is a DurableList whose files hold what was saved last, and
\* leaves a newer one alone.
JournalIsKept ==
    /\ [](driven = "journal" => Journal!FilesAreCurrent)
    /\ Journal!JournalIsKept

\* What a directory transfer shows of its files is true, and however a run
\* ends, files and entries are in order.
RunsLeaveOrder ==
    /\ [](driven \in {"upload", "download"} => Upload!EntriesAreTrue)
    /\ Upload!RunsLeaveOrder

\* A migration takes place as a whole or not at all, and what the user
\* deleted does not come back with a later start.
MigrationIsWhole ==
    /\ [](driven \in {"installed", "portable"} => Installed!DeletedStaysDeleted)
    /\ Installed!MigrationIsWhole

\* No upload of a backup takes away what its device has not seen.
UploadsKeepOthers == Backup!UploadsKeepOthers

\* The connections are found as they were last saved.
LibraryKept == driven = "profiles" => Library!LibraryKept

\* A file that FTP replaces is not lost, and an upload that succeeds is whole.
FtpKeepsFiles ==
    /\ driven = "ftp" => Ftp!FtpKeepsFiles
    /\ driven = "ftpdata" => FtpData!FtpKeepsFiles

\* No version of a remote file is lost, a save that succeeded stands, and root
\* mode that the user switched to has credentials that were tried.
RemoteFilesSafe ==
    /\ driven = "files" => Edits!RemoteFilesSafe
    /\ driven = "access" => Access!RemoteFilesSafe

\* Once everything settled the pane shows the directory of the shell.
PaneSettles == driven = "follow" => Follow!PaneSettles
===============================================================================
