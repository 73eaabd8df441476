------------------------------ MODULE RemoteFiles ------------------------------
(***************************************************************************)
(* The file operations of an SSH session (sessions/ssh): the editor saves  *)
(* a file, the file pane moves and removes it.  In user mode a save and a  *)
(* move go through the one SFTP channel, which an operation keeps locked;  *)
(* a removal is a command of its own.  In root mode everything is a        *)
(* command behind sudo or su, run with the credentials the worker had when *)
(* it took the operation.  The user switches the mode, and so does the     *)
(* shell of the terminal when its prompt reports another account.          *)
(*                                                                         *)
(* Every operation is a task.  It is dropped where it is when it is        *)
(* cancelled or takes too long; what it has asked the server for may still *)
(* be done.                                                                *)
(***************************************************************************)
EXTENDS Naturals, Sequences, FiniteSets

CONSTANTS
    Ops,            \* operations, one use each; one names its own content and files
    Switches,       \* bound: changes of the access mode, passwords in the terminal
    Faults,         \* bound: requests refused or cut off, operations dropped
    None

VARIABLES
    sftp, exec,     \* does the session have the SFTP channel, may it run commands
    foreign,        \* does the file belong to somebody else
    sudoers,        \* does sudo ask for a password
    mode, method, password, saved, \* the worker's access: how, and the known passwords
    shown,          \* the mode the tab shows
    shell,          \* the account the prompt reported: none yet, the login's, another
    chosen,         \* history: why the mode is root, if it is
    ops,            \* of every operation: its kind, access, step and answer
    lock,           \* who has the SFTP channel
    wire,           \* requests on it, served in their order
    commands,       \* commands that run on the server, in channels of their own
    file, moved, staging, backup,  \* the server's files
    had,            \* was there a file
    last,           \* history: what the latest save that succeeded left, until another begins
    late,           \* history: a request was done after its operation was dropped
    switches, faults

access == <<mode, method, password, saved, shown, shell, chosen, switches>>
host == <<sftp, exec, foreign, sudoers, had>>
disk == <<file, moved, staging, backup>>
vars == <<host, access, ops, lock, wire, commands, disk, last, late, faults>>

Old == "old"
Cut == "cut"
Whole(content) == content \notin {None, Cut}
Kinds == {"save", "move", "remove"}
Methods == {"sudo", "su"}
Fresh == [kind |-> "none", root |-> FALSE, able |-> TRUE, pc |-> "none", exists |-> FALSE, answer |-> "none"]
Active(o) == ops[o].answer = "waits"

\* Credentials: each method has its password; sudo may do without.
Accepts(m, pw) == pw = m \/ (m = "sudo" /\ ~sudoers)

TypeOK ==
    /\ {sftp, exec, foreign, sudoers, had, late} \subseteq BOOLEAN
    /\ {mode, shown} \subseteq {"user", "root"} /\ method \in Methods
    /\ shell \in {"none", "login", "other"} /\ chosen \in {"none", "tried", "shell", "typed"}
    /\ password \in Methods \cup {"wrong", None}
    /\ saved \in [Methods -> Methods \cup {"wrong", None}]
    /\ \A o \in Ops : ops[o].answer \in {"none", "waits", "ok", "error"}
    /\ lock \in Ops \cup {None}
    /\ Len(wire) <= Cardinality(Ops) /\ commands \subseteq Ops
    /\ {file, moved, last} \subseteq Ops \cup {None, Cut, Old}
    /\ switches \in 0..Switches /\ faults \in 0..Faults

Init ==
    /\ sftp \in BOOLEAN /\ exec \in BOOLEAN /\ (sftp \/ exec)
    /\ foreign \in BOOLEAN /\ sudoers \in BOOLEAN
    /\ mode = "user" /\ shown = "user" /\ method = "sudo" /\ password = None
    /\ shell \in {"none", "login"} /\ chosen = "none"
    /\ \E pw \in {None, "wrong"} : saved = [m \in Methods |-> pw]
    /\ ops = [o \in Ops |-> Fresh] /\ lock = None /\ wire = <<>> /\ commands = {}
    /\ had \in BOOLEAN /\ (foreign => had)
    /\ file = (IF had THEN Old ELSE None) /\ moved = None
    /\ staging = [o \in Ops |-> None] /\ backup = [o \in Ops |-> None]
    /\ last = None /\ late = FALSE /\ switches = 0 /\ faults = 0

-------------------------------------------------------------------------------
(***************************************************************************)
(* SetRemoteFileAccessMode: what is asked for is tried before it is used.  *)
(***************************************************************************)
Known(m, pw, useSaved, reached) ==
    LET fromCache == IF reached /\ (useSaved \/ m # method \/ password = None)
                     THEN saved[m] ELSE password
    IN IF pw # None THEN pw ELSE fromCache

Chosen(next) == IF next = "root" THEN "tried" ELSE "none"

\* Mistaken variant: a switch that fails leaves the password it tried.
SetModeKeeping(next, m, pw, useSaved) ==
    /\ switches < Switches /\ switches' = switches + 1
    /\ sftp /\ exec
    /\ password' = Known(m, pw, useSaved, next = "root")
    /\ IF next = "root" /\ ~Accepts(m, password')
       THEN UNCHANGED <<mode, shown, method, saved, chosen>>
       ELSE /\ mode' = next /\ shown' = next /\ chosen' = Chosen(next)
            /\ method' = (IF next = "root" THEN m ELSE method)
            /\ saved' = IF pw # None THEN [saved EXCEPT ![m] = pw] ELSE saved
    /\ UNCHANGED <<shell, host, ops, lock, wire, commands, disk, last, late, faults>>

SetMode(next, m, pw, useSaved) ==
    /\ switches < Switches /\ switches' = switches + 1
    /\ UNCHANGED <<shell, host, ops, lock, wire, commands, disk, last, late, faults>>
    /\ LET new == Known(m, pw, useSaved, next = "root")
           refused == next = "root" /\ ~(sftp /\ exec /\ Accepts(m, new))
       IN \/ /\ refused \/ next = "root"          \* no answer in time, no such directory
             /\ UNCHANGED <<mode, shown, method, password, saved, chosen>>
          \/ /\ ~refused /\ mode' = next /\ shown' = next /\ chosen' = Chosen(next)
             /\ method' = (IF next = "root" THEN m ELSE method)
             /\ IF sftp THEN password' = new
                             /\ saved' = IF pw # None THEN [saved EXCEPT ![m] = pw] ELSE saved
                        ELSE UNCHANGED <<password, saved>>

(***************************************************************************)
(* The terminal's part in it.  The prompt reports the account of the       *)
(* shell: a change of account changes the mode at once, with the method    *)
(* that was seen in the terminal and the password known for it, neither of *)
(* them tried (another: from one account to a third).  A report of the     *)
(* same account keeps the mode; it may bring another method, or an account *)
(* other than the one that file operations use (renewed).                  *)
(***************************************************************************)
Terminal ==
    /\ switches < Switches /\ switches' = switches + 1
    /\ UNCHANGED <<host, ops, lock, wire, commands, disk, last, late, faults>>

Adopts(m) == method' = m /\ password' = saved[m]

ShellReports(user, m, renewed, another) ==
    /\ Terminal /\ exec /\ (shell = "none" => user = "login")
    /\ another => shell = "other" /\ user = "other"
    /\ shell' = user
    /\ LET target == IF user = "other" THEN "root" ELSE "user"
           turned == (shell # user \/ another) /\ mode # target
       IN \/ /\ turned /\ mode' = target /\ shown' = target
             /\ Adopts(IF user = "other" THEN m ELSE "sudo")
             /\ chosen' = IF user = "other" THEN "shell" ELSE "none"
          \/ /\ ~turned /\ user = "other" /\ (m # method \/ renewed) /\ Adopts(m)
             /\ chosen' = IF mode = "root" THEN "shell" ELSE "none"
             /\ UNCHANGED <<mode, shown>>
          \/ /\ ~turned /\ ~(user = "other" /\ (m # method \/ renewed))
             /\ UNCHANGED <<mode, shown, method, password, chosen>>
    /\ UNCHANGED saved

\* A password is typed, or filled from the saved ones, when sudo or su asks for it in
\* the terminal; a refusal there takes the worker's password away.
Exchanged(pw) ==
    /\ password' = pw
    /\ chosen' = IF chosen = "tried" /\ pw # password THEN "typed" ELSE chosen
    /\ UNCHANGED <<mode, shown, method, shell>>

TerminalPassword(m, pw) == Terminal /\ Exchanged(pw) /\ saved' = [saved EXCEPT ![m] = pw]

TerminalRefused == Terminal /\ password # None /\ Exchanged(None) /\ UNCHANGED saved

-------------------------------------------------------------------------------
(***************************************************************************)
(* Operations: the worker takes one with the access it has.                *)
(***************************************************************************)
First(kind) ==
    CASE mode = "root" /\ kind = "save" -> "rootWrite"
      [] mode = "root" \/ kind = "remove" -> "run"
      [] OTHER -> "lock"

Request(o, kind) ==
    /\ ops[o] = Fresh
    /\ ops' = [ops EXCEPT ![o] =
                 IF ~sftp THEN [Fresh EXCEPT !.kind = kind, !.answer = "error"]
                 ELSE [Fresh EXCEPT !.kind = kind, !.root = (mode = "root"),
                                    !.able = (mode = "root" => Accepts(method, password)),
                                    !.pc = First(kind), !.answer = "waits"]]
    /\ last' = None
    /\ UNCHANGED <<host, access, lock, wire, commands, disk, late, faults>>

Goes(o, pc) == ops' = [ops EXCEPT ![o].pc = pc] /\ UNCHANGED <<lock, last>>
Settles(o, answer, left) ==
    /\ ops' = [ops EXCEPT ![o].pc = "done", ![o].answer = answer]
    /\ lock' = IF lock = o THEN None ELSE lock
    /\ last' = IF answer = "ok" THEN left ELSE last
Fault == faults < Faults /\ faults' = faults + 1

\* Cancelled by the caller, or no answer in time: the task is gone, what it
\* asked for is not.
Drop(o) ==
    /\ Active(o) /\ Fault /\ Settles(o, "error", None)
    /\ UNCHANGED <<host, access, wire, commands, disk, late>>

Acquire(o) ==
    /\ Active(o) /\ ops[o].pc = "lock" /\ lock = None /\ lock' = o
    /\ ops' = [ops EXCEPT ![o].pc = IF ops[o].kind = "save" THEN "stat" ELSE "move"]
    /\ last' = None
    /\ UNCHANGED <<host, access, wire, commands, disk, late, faults>>

-------------------------------------------------------------------------------
(***************************************************************************)
(* User mode: write_file and replace_remote_file over the SFTP channel.    *)
(***************************************************************************)
Pending(o) == \E i \in DOMAIN wire : wire[i].op = o

Ask(o) ==
    /\ Active(o) /\ lock = o /\ ~Pending(o)
    /\ wire' = Append(wire, [op |-> o, pc |-> ops[o].pc])
    /\ UNCHANGED <<host, access, ops, lock, commands, disk, last, late, faults>>

\* What the server does to its files.
Effect(o, pc) ==
    CASE pc = "write" -> staging' = [staging EXCEPT ![o] = o] /\ UNCHANGED <<file, moved, backup>>
      [] pc = "clean" -> staging' = [staging EXCEPT ![o] = None] /\ UNCHANGED <<file, moved, backup>>
      [] pc = "truncate" -> file' = Cut /\ UNCHANGED <<staging, moved, backup>>
      [] pc = "inplace" -> file' = staging[o] /\ UNCHANGED <<staging, moved, backup>>
      [] pc = "unlink" -> staging' = [staging EXCEPT ![o] = None] /\ UNCHANGED <<file, moved, backup>>
      [] pc = "backup" -> /\ backup' = [backup EXCEPT ![o] = file] /\ file' = None
                          /\ UNCHANGED <<staging, moved>>
      [] pc = "commit" -> /\ file' = staging[o] /\ staging' = [staging EXCEPT ![o] = None]
                          /\ UNCHANGED <<backup, moved>>
      [] pc = "back" -> /\ file' = backup[o] /\ backup' = [backup EXCEPT ![o] = None]
                        /\ UNCHANGED <<staging, moved>>
      [] pc = "drop" -> backup' = [backup EXCEPT ![o] = None] /\ UNCHANGED <<file, staging, moved>>
      [] pc = "move" -> moved' = file /\ file' = None /\ UNCHANGED <<staging, backup>>
      [] OTHER -> UNCHANGED disk

\* Renaming needs the file, and a free name.
Possible(o, pc) ==
    CASE pc \in {"backup", "truncate", "open"} -> file # None
      [] pc \in {"commit", "back"} -> file = None
      [] pc = "move" -> file # None /\ moved = None
      [] pc = "size" -> staging[o] = o
      [] pc = "size2" -> file = o
      [] OTHER -> TRUE

\* Where an operation goes on after an answer.
Proceeds(o, pc) ==
    CASE pc = "stat" -> Goes(o, IF file = None THEN "write" ELSE "open")
      [] pc = "open" -> Goes(o, "write")
      [] pc = "write" -> Goes(o, "size")
      [] pc = "size" -> Goes(o, "stat2")
      [] pc = "stat2" ->
           /\ ops' = [ops EXCEPT ![o].exists = (file # None),
                        ![o].pc = CASE file = None -> "commit" [] foreign -> "truncate"
                                    [] OTHER -> "backup"]
           /\ UNCHANGED <<lock, last>>
      [] pc = "truncate" -> Goes(o, "inplace")
      [] pc = "inplace" -> Goes(o, "size2")
      [] pc = "size2" -> Goes(o, "unlink")
      [] pc = "unlink" -> Settles(o, "ok", o)
      [] pc = "backup" -> Goes(o, "commit")
      [] pc = "commit" -> IF ops[o].exists THEN Goes(o, "drop") ELSE Settles(o, "ok", o)
      [] pc = "drop" -> Settles(o, "ok", o)
      [] pc \in {"back", "clean"} -> Settles(o, "error", None)
      [] pc = "move" -> Settles(o, "ok", None)

\* Where it goes on after a refusal.
Retreats(o, pc) ==
    CASE pc \in {"write", "size"} -> Goes(o, "clean")
      [] pc = "commit" /\ ops[o].exists -> Goes(o, "back")
      [] pc = "drop" -> Settles(o, "ok", o)
      [] OTHER -> Settles(o, "error", None)

\* An operation that was given up takes no notice of the answer.
Continues(o, pc, allowed) ==
    IF Active(o) /\ ops[o].pc = pc
    THEN (allowed /\ Proceeds(o, pc)) \/ (~allowed /\ Retreats(o, pc))
    ELSE UNCHANGED <<ops, lock, last>>

Serve ==
    /\ wire # <<>> /\ wire' = Tail(wire)
    /\ LET o == Head(wire).op
           pc == Head(wire).pc
       IN \/ /\ Possible(o, pc) /\ Effect(o, pc) /\ Continues(o, pc, TRUE)
             /\ UNCHANGED faults
          \/ /\ ~Possible(o, pc) /\ UNCHANGED <<disk, faults>> /\ Continues(o, pc, FALSE)
          \/ /\ Fault /\ Continues(o, pc, FALSE)
             /\ IF pc = "write"
                THEN staging' = [staging EXCEPT ![o] = Cut] /\ UNCHANGED <<file, moved, backup>>
                ELSE UNCHANGED disk
    /\ late' = (late \/ ~Active(Head(wire).op))
    /\ UNCHANGED <<host, access, commands>>

-------------------------------------------------------------------------------
(***************************************************************************)
(* Root mode, and removals: commands in channels of their own.             *)
(***************************************************************************)
Start(o) ==
    /\ Active(o) /\ o \notin commands /\ ops[o].pc \in {"run", "rootWrite", "rootCommit", "rootSize"}
    /\ IF exec \/ ops[o].root
       THEN commands' = commands \cup {o} /\ UNCHANGED <<ops, lock, last>>
       ELSE Settles(o, "error", None) /\ UNCHANGED commands
    /\ UNCHANGED <<host, access, wire, disk, late, faults>>

\* sudo or su does not take the credentials the operation has.
Unable(o) == ~ops[o].able /\ UNCHANGED <<disk, faults>> /\ Settles(o, "error", None)

RunKind(o) ==
    IF ops[o].kind = "remove"
    THEN file' = None /\ UNCHANGED <<moved, staging, backup>>
    ELSE IF file # None THEN moved' = file /\ file' = None /\ UNCHANGED <<staging, backup>>
    ELSE UNCHANGED disk

RunCommand(o) ==
    /\ o \in commands /\ ops[o].pc = "run" /\ commands' = commands \ {o}
    /\ \/ Unable(o)
       \/ /\ ops[o].able
          /\ RunKind(o) /\ Settles(o, IF ops[o].kind = "move" /\ file = None THEN "error" ELSE "ok",
                                   None)
          /\ UNCHANGED faults
       \/ Fault /\ UNCHANGED disk /\ Settles(o, "error", None)
    /\ UNCHANGED <<host, access, wire, late>>

\* Mistaken variant: the length of what was written is not compared.
RootWriteLoosely(o) ==
    /\ o \in commands /\ ops[o].pc = "rootWrite" /\ commands' = commands \ {o}
    /\ \E content \in {o, Cut} : staging' = [staging EXCEPT ![o] = content]
    /\ Goes(o, "rootCommit")
    /\ UNCHANGED <<host, access, wire, file, moved, backup, late, faults>>

RootWrite(o) ==
    /\ o \in commands /\ ops[o].pc = "rootWrite" /\ commands' = commands \ {o}
    /\ \/ Unable(o)
       \/ /\ ops[o].able /\ staging' = [staging EXCEPT ![o] = o] /\ Goes(o, "rootCommit")
          /\ UNCHANGED faults
       \/ /\ ops[o].able /\ Fault /\ Settles(o, "error", None)
          /\ \E content \in {None, Cut} : staging' = [staging EXCEPT ![o] = content]
    /\ UNCHANGED <<host, access, wire, file, moved, backup, late>>

RootCommit(o) ==
    /\ o \in commands /\ ops[o].pc = "rootCommit" /\ commands' = commands \ {o}
    /\ \/ /\ file' = staging[o] /\ staging' = [staging EXCEPT ![o] = None]
          /\ Goes(o, "rootSize") /\ UNCHANGED faults
       \/ Fault /\ UNCHANGED <<file, staging>> /\ Settles(o, "error", None)
    /\ UNCHANGED <<host, access, wire, moved, backup, late>>

RootSize(o) ==
    /\ o \in commands /\ ops[o].pc = "rootSize" /\ commands' = commands \ {o}
    /\ \/ Settles(o, IF file = o THEN "ok" ELSE "error", o) /\ UNCHANGED faults
       \/ Fault /\ Settles(o, "error", None)
    /\ UNCHANGED <<host, access, wire, disk, late>>

\* A dropped operation's command may be done all the same, or not at all.
RunLate(o) ==
    /\ o \in commands /\ ~Active(o) /\ commands' = commands \ {o} /\ late' = TRUE
    /\ \/ UNCHANGED disk
       \/ ops[o].able /\ ops[o].kind # "save" /\ RunKind(o)
       \/ /\ ops[o].able /\ ops[o].kind = "save" /\ staging[o] = o
          /\ file' = o /\ staging' = [staging EXCEPT ![o] = None] /\ UNCHANGED <<moved, backup>>
       \/ /\ ops[o].able /\ ops[o].kind = "save" /\ staging[o] # o
          /\ \E content \in {o, Cut} : staging' = [staging EXCEPT ![o] = content]
          /\ UNCHANGED <<file, moved, backup>>
    /\ UNCHANGED <<host, access, ops, lock, wire, last, faults>>

Next ==
    \/ \E next \in {"user", "root"}, m \in Methods, useSaved \in BOOLEAN :
          \E pw \in {m, "wrong", None} : SetMode(next, m, pw, useSaved)
    \/ \E user \in {"login", "other"}, m \in Methods, renewed \in BOOLEAN, another \in BOOLEAN :
          ShellReports(user, m, renewed, another)
    \/ \E m \in Methods : \E pw \in {m, "wrong"} : TerminalPassword(m, pw)
    \/ TerminalRefused
    \/ \E o \in Ops : \/ \E kind \in Kinds : Request(o, kind)
                      \/ Drop(o) \/ Acquire(o) \/ Ask(o) \/ Start(o)
                      \/ RunCommand(o) \/ RootWrite(o) \/ RootCommit(o) \/ RootSize(o)
                      \/ RunLate(o)
    \/ Serve

Spec == Init /\ [][Next]_vars

-------------------------------------------------------------------------------
(***************************************************************************)
(* Properties                                                              *)
(***************************************************************************)

Everywhere == {file, moved} \cup {staging[o] : o \in Ops} \cup {backup[o] : o \in Ops}

\* A file that nobody removes is not lost: whatever is refused, cut off or
\* dropped, the server has a complete version of it under some name.
VersionStays ==
    had /\ (\A o \in Ops : ops[o].kind # "remove") => \E content \in Everywhere : Whole(content)

\* Once nothing is under way, the file is what the latest save that succeeded
\* made it.  The SFTP channel serves also what was given up, in its order; a
\* command may overtake one that was given up, so that this is said of root
\* mode only if nothing failed.  Nothing orders a save of one mode and a save
\* of the other.
Saving == \A o \in Ops : ops[o].kind \in {"none", "save"}
OneChannel == \A o \in Ops : ~ops[o].root
Untroubled == ~late /\ \A o \in Ops : ops[o] # Fresh => ops[o].root /\ ops[o].answer # "error"
SavesStand ==
    /\ last # None /\ Saving /\ (OneChannel \/ Untroubled)
    /\ commands = {} /\ wire = <<>> /\ \A o \in Ops : ~Active(o)
    => file = last

\* Root mode has a reason.  When the user switched to it, the worker has
\* credentials the server accepts, until the terminal exchanges others; when
\* the shell did, with whatever credentials were there, the shell still runs
\* as another account.  The tab shows the mode that the operations use.
AccessIsTried ==
    /\ mode = "root" <=> chosen # "none"
    /\ chosen = "tried" => Accepts(method, password)
    /\ chosen = "shell" => shell = "other"
    /\ shown = mode

RemoteFilesSafe == VersionStays /\ SavesStand /\ AccessIsTried
===============================================================================
