------------------------------ MODULE ShellFollow ------------------------------
(***************************************************************************)
(* The file pane of an SSH tab while it follows the directory of the       *)
(* shell.  The shell reports its directory and its user with every prompt, *)
(* in one packet or in two; the event loop of the worker turns reports     *)
(* into requests of a queue of one (sessions/ssh/worker/shell_data.rs,     *)
(* prompt_refresh.rs, cwd_refresh.rs); a task lists the directory and      *)
(* applies it if the session still agrees (shell/cwd.rs).  The listing of  *)
(* the start (sftp_startup.rs) and the commands of the user                *)
(* (commands/remote_file_commands.rs) change the same session.             *)
(*                                                                         *)
(* A path stands for the directory it names, in the namespace of the shell *)
(* or of SFTP; what a directory holds does not change.                     *)
(***************************************************************************)
EXTENDS Naturals

CONSTANTS
    Dirs, Home,         \* directories, and the one a session starts in
    PaneCommands,       \* commands of the user that list a directory
    Prompts,            \* bound: prompts of the shell
    ListErrors,         \* bound: listings that fail
    None

VARIABLES
    shell,      \* the remote shell: where it is, as whom, what it still reports
    session,    \* what the workspace knows of the tab
    prompt,     \* the tracker: command seen, directory that waits for its user
    pending,    \* CwdRefreshQueue: the latest request
    wake,       \* its wake-up
    task,       \* the task that lists
    followed,   \* the last confirmed mapping
    start,      \* the listing of the start
    ready,      \* the event loop has the SFTP session
    command,    \* the commands of the user
    prompts, errors

vars == <<shell, session, prompt, pending, wake, task, followed, start, ready,
          command, prompts, errors>>

Modes == {"user", "root"}
Users == {"login", "root"}
MaybeDir == Dirs \cup {None}
Listing == [dir : Dirs, mode : Modes]
Request == [cwd : Dirs, silent : BOOLEAN, mode : Modes]
NoTask == [at |-> "idle", req |-> None, path |-> None, files |-> None]
NoCommand == [at |-> "idle", kind |-> None, dir |-> None]

TypeOK ==
    /\ shell \in [dir : Dirs, user : Users, says : {"nothing", "both", "user"}]
    /\ session \in [cwd : MaybeDir, path : Dirs, files : Listing \cup {None}, loading : BOOLEAN,
                    follow : BOOLEAN, mode : Modes, user : Users \cup {None}]
    /\ prompt \in [command : BOOLEAN,
                   cwd : [dir : Dirs, changed : BOOLEAN] \cup {None}]
    /\ pending \in Request \cup {None} /\ wake \in BOOLEAN
    /\ task.at \in {"idle", "debounce", "list"} /\ task.req \in Request \cup {None}
    /\ followed \in Listing \cup {None}
    /\ start \in {"opening", "listing", "done"} /\ ready \in BOOLEAN
    /\ command \in [PaneCommands -> [at : {"idle", "list", "path", "done"},
                                     kind : {"open", "follow", None}, dir : MaybeDir]]
    /\ prompts \in 0..Prompts /\ errors \in 0..ListErrors

Init ==
    /\ shell = [dir |-> Home, user |-> "login", says |-> "both"]
    /\ session \in [cwd : {None}, path : {Home}, files : {None}, loading : {FALSE},
                    follow : BOOLEAN, mode : {"user"}, user : {None}]
    /\ prompt = [command |-> FALSE, cwd |-> None]
    /\ pending = None /\ wake = FALSE /\ task = NoTask /\ followed = None
    /\ start = "opening" /\ ready = FALSE
    /\ command = [c \in PaneCommands |-> NoCommand]
    /\ prompts = 0 /\ errors = 0

-------------------------------------------------------------------------------
(***************************************************************************)
(* The shell and its prompts.                                              *)
(***************************************************************************)

\* A command ends in directory d, as user u; an empty line ends where it began.
RunCommand(d, u) ==
    /\ shell.says = "nothing" /\ prompts < Prompts
    /\ shell' = [dir |-> d, user |-> u, says |-> "both"]
    /\ prompt' = [prompt EXCEPT !.command = TRUE]
    /\ prompts' = prompts + 1
    /\ UNCHANGED <<session, pending, wake, task, followed, start, ready, command, errors>>

EmptyLine ==
    /\ shell.says = "nothing" /\ prompts < Prompts
    /\ shell' = [shell EXCEPT !.says = "both"]
    /\ prompts' = prompts + 1
    /\ UNCHANGED <<session, prompt, pending, wake, task, followed, start, ready, command, errors>>

\* enqueue: a quiet request for what waits already leaves it as loud as it is.
enqueue(r) ==
    /\ pending' = [r EXCEPT !.silent =
                     r.silent /\ ~(/\ pending # None /\ ~pending.silent
                                   /\ pending.cwd = r.cwd /\ pending.mode = r.mode)]
    /\ wake' = TRUE

\* needs_realign: the pane was moved away from what this directory maps to.
NeedsRealign(d) ==
    /\ followed # None /\ followed.dir = d
    /\ followed.mode = session.mode /\ session.path # d

\* The directory alone: it waits for the user that belongs to it.
ReportCwd ==
    /\ shell.says = "both"
    /\ prompt' = [prompt EXCEPT !.cwd = [dir |-> shell.dir, changed |-> session.cwd # shell.dir]]
    /\ session' = [session EXCEPT !.cwd = shell.dir]
    /\ shell' = [shell EXCEPT !.says = "user"]
    /\ UNCHANGED <<pending, wake, task, followed, start, ready, command, prompts, errors>>

\* The user, with the directory of this packet or of the one before.
ReportUser ==
    /\ shell.says # "nothing"
    /\ LET place == IF shell.says = "both"
                    THEN [dir |-> shell.dir, changed |-> session.cwd # shell.dir]
                    ELSE prompt.cwd
           asked == session.follow /\ (place.changed \/ prompt.command)
           realign == session.follow /\ NeedsRealign(place.dir)
           target == IF shell.user = "login" THEN "user" ELSE "root"
           switched == session.user # shell.user /\ session.mode # target
       IN /\ session' = [session EXCEPT !.cwd = place.dir, !.user = shell.user,
                           !.mode = IF switched THEN target ELSE session.mode]
          /\ IF ready /\ (asked \/ realign \/ switched)
             THEN enqueue([cwd |-> place.dir, mode |-> session'.mode,
                           silent |-> ~place.changed /\ ~realign /\ ~switched])
             ELSE UNCHANGED <<pending, wake>>
    /\ prompt' = [command |-> FALSE, cwd |-> None]
    /\ shell' = [shell EXCEPT !.says = "nothing"]
    /\ UNCHANGED <<task, followed, start, ready, command, prompts, errors>>

-------------------------------------------------------------------------------
(***************************************************************************)
(* The start: the pane lists its first directory while the channels of the *)
(* worker are still being opened.                                          *)
(***************************************************************************)

StartListing ==
    /\ start = "opening"
    /\ start' = "listing"
    /\ session' = [session EXCEPT !.loading = TRUE]
    /\ UNCHANGED <<shell, prompt, pending, wake, task, followed, ready, command, prompts, errors>>

\* The result is applied if nobody has moved the pane or the shell.
StartListed(ok) ==
    /\ start = "listing"
    /\ IF ok THEN UNCHANGED errors ELSE errors < ListErrors /\ errors' = errors + 1
    /\ LET untouched == session.mode = "user" /\ session.path = Home
           current == untouched /\ (session.follow => session.cwd \in {None, Home})
           fallback == untouched /\ session.files = None
       IN session' = [session EXCEPT !.loading = FALSE,
                        !.files = IF ok /\ (current \/ fallback)
                                  THEN [dir |-> Home, mode |-> "user"] ELSE @]
    /\ start' = "done"
    /\ UNCHANGED <<shell, prompt, pending, wake, task, followed, ready, command, prompts>>

\* Mistaken variant: what was reported meanwhile is not asked for again.
AuxiliaryReadyAtRest ==
    /\ start # "opening" /\ ~ready
    /\ ready' = TRUE
    /\ UNCHANGED <<shell, session, prompt, pending, wake, task, followed, start, command,
                   prompts, errors>>

\* The event loop takes the SFTP session and repeats what it could not ask for.
AuxiliaryReady ==
    /\ start # "opening" /\ ~ready
    /\ ready' = TRUE
    /\ IF session.follow /\ session.cwd # None
       THEN enqueue([cwd |-> session.cwd, mode |-> session.mode, silent |-> FALSE])
       ELSE UNCHANGED <<pending, wake>>
    /\ UNCHANGED <<shell, session, prompt, task, followed, start, command, prompts, errors>>

-------------------------------------------------------------------------------
(***************************************************************************)
(* The task of the queue: at most one listing, for the latest request.     *)
(***************************************************************************)

Wake ==
    /\ task.at = "idle" /\ wake
    /\ wake' = FALSE /\ task' = [task EXCEPT !.at = "debounce"]
    /\ UNCHANGED <<shell, session, prompt, pending, followed, start, ready, command, prompts, errors>>

\* The session still is where the request was made.
Agrees(r) == session.cwd = r.cwd /\ session.follow /\ session.mode = r.mode

\* After the pause the request is taken; one that is out of date is dropped.
TakeRequest ==
    /\ task.at = "debounce"
    /\ IF pending # None /\ Agrees(pending) /\ ~(pending.silent /\ session.loading)
       THEN /\ task' = [at |-> "list", req |-> pending, path |-> session.path,
                        files |-> session.files]
            /\ session' = [session EXCEPT !.loading = @ \/ ~pending.silent]
       ELSE task' = NoTask /\ UNCHANGED session
    /\ pending' = None
    /\ UNCHANGED <<shell, prompt, wake, followed, start, ready, command, prompts, errors>>

\* The listing arrives, and is applied unless somebody was faster.
ApplyListing(ok) ==
    /\ task.at = "list"
    /\ IF ok THEN UNCHANGED errors ELSE errors < ListErrors /\ errors' = errors + 1
    /\ LET r == task.req
           listing == [dir |-> r.cwd, mode |-> r.mode]
           apply == /\ ok /\ Agrees(r) /\ session.path = task.path
                    /\ r.silent => ~session.loading /\ session.files = task.files
       IN /\ session' = [session EXCEPT !.loading = @ /\ r.silent,
                           !.path = IF apply THEN r.cwd ELSE @,
                           !.files = IF apply THEN listing ELSE @]
          /\ followed' = IF apply THEN listing ELSE followed
    /\ task' = NoTask
    /\ UNCHANGED <<shell, prompt, pending, wake, start, ready, command, prompts>>

-------------------------------------------------------------------------------
(***************************************************************************)
(* The commands of the user: list, then the files, then the path.          *)
(***************************************************************************)

\* app_open_remote_path
OpenPath(c, d) ==
    /\ command[c].at = "idle" /\ ready
    /\ command' = [command EXCEPT ![c] = [at |-> "list", kind |-> "open", dir |-> d]]
    /\ UNCHANGED <<shell, session, prompt, pending, wake, task, followed, start, ready, prompts, errors>>

\* app_set_follow_shell_cwd: switched on it catches up with the shell.
SetFollow(c) ==
    /\ command[c].at = "idle" /\ ready
    /\ session' = [session EXCEPT !.follow = ~@]
    /\ command' = [command EXCEPT ![c] =
                     IF ~session.follow /\ session.cwd \notin {None, session.path}
                     THEN [at |-> "list", kind |-> "follow", dir |-> session.cwd]
                     ELSE [at |-> "done", kind |-> None, dir |-> None]]
    /\ UNCHANGED <<shell, prompt, pending, wake, task, followed, start, ready, prompts, errors>>

\* refresh_remote_files replaces the files whatever the pane shows by then.
ListFiles(c, ok) ==
    /\ command[c].at = "list"
    /\ IF ok THEN /\ session' = [session EXCEPT !.files = [dir |-> command[c].dir, mode |-> session.mode]]
                  /\ command' = [command EXCEPT ![c].at = "path"]
                  /\ UNCHANGED errors
             ELSE /\ errors < ListErrors /\ errors' = errors + 1
                  /\ command' = [command EXCEPT ![c] = [NoCommand EXCEPT !.at = "done"]]
                  /\ UNCHANGED session
    /\ UNCHANGED <<shell, prompt, pending, wake, task, followed, start, ready, prompts>>

ShowPath(c) ==
    /\ command[c].at = "path"
    /\ session' = [session EXCEPT !.path =
                     IF command[c].kind = "open" \/ (session.follow /\ session.cwd = command[c].dir)
                     THEN command[c].dir ELSE @]
    /\ command' = [command EXCEPT ![c] = [NoCommand EXCEPT !.at = "done"]]
    /\ UNCHANGED <<shell, prompt, pending, wake, task, followed, start, ready, prompts, errors>>

Next ==
    \/ \E d \in Dirs, u \in Users : RunCommand(d, u)
    \/ EmptyLine \/ ReportCwd \/ ReportUser
    \/ StartListing \/ AuxiliaryReady
    \/ \E ok \in BOOLEAN : StartListed(ok) \/ ApplyListing(ok)
    \/ Wake \/ TakeRequest
    \/ \E c \in PaneCommands :
         \/ \E d \in Dirs : OpenPath(c, d)
         \/ SetFollow(c) \/ ShowPath(c)
         \/ \E ok \in BOOLEAN : ListFiles(c, ok)

Spec == Init /\ [][Next]_vars

-------------------------------------------------------------------------------
(***************************************************************************)
(* Properties                                                              *)
(***************************************************************************)

\* Nothing is on its way any more.
Settled ==
    /\ shell.says = "nothing" /\ pending = None /\ ~wake /\ task.at = "idle"
    /\ start = "done" /\ ready
    /\ \A c \in PaneCommands : command[c].at \in {"idle", "done"}

\* Once everything settled the pane does not show a listing as under way, and
\* a pane that follows shows the directory of the shell as the user of the
\* shell sees it, unless a listing failed or the user gave it a command:
\* however the start, the prompts and the requests they make interleave.
PaneSettles ==
    Settled => /\ ~session.loading
               /\ (/\ session.follow /\ errors = 0
                   /\ \A c \in PaneCommands : command[c].at = "idle")
                     => /\ session.path = shell.dir
                        /\ session.files = [dir |-> shell.dir, mode |-> session.mode]
                        /\ session.mode = "root" <=> shell.user # "login"
===============================================================================
