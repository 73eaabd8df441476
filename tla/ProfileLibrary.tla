----------------------------- MODULE ProfileLibrary -----------------------------
(***************************************************************************)
(* The connections on disk (services/profile_ops): profiles.json without   *)
(* credentials, profile-secrets.json with nothing else, folders.json.      *)
(* Commands change them under one lock.  Every access reads all three,     *)
(* rewrites the credentials for the profiles it read and heals the list;   *)
(* some accesses, such as opening a profile, read without the lock.  A     *)
(* file is replaced by two renames, between which it does not exist, and a *)
(* missing file reads as an empty one.                                     *)
(*                                                                         *)
(* A profile has one credential.  Folders are flat, their file is replaced *)
(* in one step; the order of the profiles is left out.                     *)
(***************************************************************************)
EXTENDS Naturals, Sequences, SequencesExt

CONSTANTS
    Profiles, Secrets,
    Names,              \* of folders
    Readers,            \* unlocked reads, one each
    MaxFolders, Commands, Faults, Crashes,      \* bounds
    Overlap,            \* accesses without the lock meet others
    Default,            \* the name of the group that is no folder
    Missing, Absent,    \* a file, and a profile, that is not there
    Keep,               \* an empty credential field
    None

VARIABLES
    public,     \* profiles.json
    store,      \* profile-secrets.json
    folders,    \* folders.json, the newest folder first
    act,        \* the command that holds the lock, and the unlocked reads
    accept,     \* what the user may find of each profile: see Begin
    place,      \* in which group
    beside,     \* two of them were at work at once
    torn,       \* a crash fell between the renames of a file
    made, commands, faults, crashes

vars == <<public, store, folders, act, accept, place, beside, torn, made, commands,
          faults, crashes>>

Groups == Names \cup {Default}
Ids == 1..MaxFolders
Entry == [group : Groups, parent : Ids \cup {None}]
List == [Profiles -> Entry \cup {Absent}]
Credentials == [Profiles -> Secrets \cup {None}]

Actors == {"command"} \cup Readers
Idle == [at |-> "idle", cmd |-> None, list |-> None, creds |-> None, known |-> None,
         dirty |-> FALSE, prev |-> None, next |-> None]
Steps == {"idle", "list", "creds", "folders", "reconcile", "storeOut", "storeIn", "listOut",
          "listIn", "heal", "apply", "folder", "done"}

TypeOK ==
    /\ public \in List \cup {Missing} /\ store \in Credentials \cup {Missing}
    /\ \A i \in DOMAIN folders : folders[i] \in [id : Ids, name : Names]
    /\ \A a \in Actors :
         /\ act[a].at \in Steps /\ act[a].list \in List \cup {None}
         /\ act[a].creds \in Credentials \cup {None}
    /\ accept \in [Profiles -> SUBSET (Secrets \cup {None, Absent})]
    /\ place \in [Profiles -> SUBSET Groups]
    /\ {beside, torn} \subseteq BOOLEAN
    /\ made \in 0..MaxFolders /\ commands \in 0..Commands
    /\ faults \in 0..Faults /\ crashes \in 0..Crashes

Init ==
    /\ public = Missing /\ store = Missing /\ folders = <<>>
    /\ act = [a \in Actors |-> Idle]
    /\ accept = [p \in Profiles |-> {Absent}] /\ place = [p \in Profiles |-> {Default}]
    /\ beside = FALSE /\ torn = FALSE /\ made = 0
    /\ commands = 0 /\ faults = 0 /\ crashes = 0

-------------------------------------------------------------------------------
Empty == [p \in Profiles |-> Absent]
Read(file, empty) == IF file = Missing THEN empty ELSE file
NoCreds == [p \in Profiles |-> None]
Listed(list) == {p \in Profiles : list[p] # Absent}

Named(fs, n) == {i \in DOMAIN fs : fs[i].name = n}
\* find takes the newest folder of a name, a map built of the list the oldest.
FirstNamed(fs, n) == IF Named(fs, n) = {} THEN None ELSE fs[CHOOSE i \in Named(fs, n) : \A j \in Named(fs, n) : i <= j].id
LastNamed(fs, n) == fs[CHOOSE i \in Named(fs, n) : \A j \in Named(fs, n) : i >= j].id
NameOf(fs, f) == LET I == {i \in DOMAIN fs : fs[i].id = f} IN
                 IF I = {} THEN Default ELSE fs[CHOOSE i \in I : TRUE].name

\* heal_profiles: the group is authoritative, then the parent.
Healed(e, fs) ==
    IF e = Absent THEN Absent
    ELSE IF e.group # Default
    THEN IF Named(fs, e.group) # {} THEN [e EXCEPT !.parent = LastNamed(fs, e.group)]
                                    ELSE [group |-> Default, parent |-> None]
    ELSE IF NameOf(fs, e.parent) # Default THEN [e EXCEPT !.group = NameOf(fs, e.parent)]
    ELSE [group |-> Default, parent |-> None]

Working(a) == act[a].at \notin {"idle", "done"}
Starts(a, cmd) ==
    /\ act[a].at = "idle" /\ (Overlap \/ \A b \in Actors : ~Working(b))
    /\ act' = [act EXCEPT ![a] = [Idle EXCEPT !.at = "list", !.cmd = cmd]]
    /\ beside' = (beside \/ \E b \in Actors \ {a} : Working(b))

-------------------------------------------------------------------------------
(***************************************************************************)
(* What the user asks for.  Until a command has succeeded its profile may  *)
(* be found as it was or as it was to become; the children of a folder may *)
(* also be found in no folder.                                             *)
(***************************************************************************)
Child(e, cmd) == cmd.op \in {"rename", "remove"} /\ e # Absent /\ e.parent = cmd.f

Begin(a, cmd) ==
    /\ commands < Commands /\ commands' = commands + 1
    /\ LET now(p) == Read(public, Empty)[p] IN
       /\ Starts(a, [cmd EXCEPT !.c = {p \in Profiles : /\ Child(now(p), cmd)
                                                               /\ Child(Healed(now(p), folders), cmd)}])
       /\ accept' = [p \in Profiles |->
            IF cmd.op \in {"create", "update", "delete"} /\ cmd.p = p
            THEN accept[p] \cup (CASE cmd.op = "delete" -> {Absent, None}
                                   [] cmd.s = Keep -> {}
                                   [] OTHER -> {cmd.s})
            ELSE accept[p]]
       /\ place' = [p \in Profiles |->
            IF cmd.op \in {"create", "move"} /\ cmd.p = p THEN place[p] \cup {cmd.g}
            ELSE IF \E e \in {now(p), Healed(now(p), folders)} : Child(e, cmd)
            THEN place[p] \cup {cmd.g, Default} ELSE place[p]]
    /\ UNCHANGED <<public, store, folders, torn, made, faults, crashes>>

NoArgs == [op |-> None, p |-> None, s |-> None, f |-> None, g |-> Default, c |-> {}]

CreateProfile(p, s, g) ==
    /\ accept[p] = {Absent} /\ g \in {Default} \cup {folders[i].name : i \in DOMAIN folders}
    /\ Begin("command", [NoArgs EXCEPT !.op = "create", !.p = p, !.s = s, !.g = g])
\* An empty field keeps the credential, null clears it.
UpdateProfile(p, s) ==
    Absent \notin accept[p] /\ Begin("command", [NoArgs EXCEPT !.op = "update", !.p = p, !.s = s])
\* The SSH worker saves the fingerprint of a host the user trusts.
SaveFingerprint(p) == UpdateProfile(p, Keep)
\* A command that ran with another user's rights saves the password that
\* worked, or clears the one that did not, without the lock.
SavePrivileged(r, p, s) ==
    Absent \notin accept[p] /\ Begin(r, [NoArgs EXCEPT !.op = "update", !.p = p, !.s = s])
DeleteProfile(p) ==
    Absent \notin accept[p] /\ Begin("command", [NoArgs EXCEPT !.op = "delete", !.p = p])
MoveProfile(p, i) ==
    /\ Absent \notin accept[p]
    /\ Begin("command", [NoArgs EXCEPT !.op = "move", !.p = p, !.f = folders[i].id, !.g = folders[i].name])
RenameFolder(i, n) ==
    n # folders[i].name /\ Begin("command", [NoArgs EXCEPT !.op = "rename", !.f = folders[i].id, !.g = n])
DeleteFolder(i) == Begin("command", [NoArgs EXCEPT !.op = "remove", !.f = folders[i].id])

\* create_folder reads and writes its own file only.
CreateFolder(n) ==
    /\ act["command"].at = "idle" /\ made < MaxFolders
    /\ made' = made + 1
    /\ folders' = <<[id |-> made', name |-> n]>> \o folders
    /\ UNCHANGED <<public, store, act, accept, place, beside, torn, commands, faults, crashes>>

\* resolve_profile_for_session, import plans and backups read without the lock.
ReadUnlocked(r) ==
    /\ Starts(r, None)
    /\ UNCHANGED <<public, store, folders, accept, place, torn, made, commands, faults, crashes>>

-------------------------------------------------------------------------------
(***************************************************************************)
(* read_and_heal_profiles                                                  *)
(***************************************************************************)
Moves(a, at) == act' = [act EXCEPT ![a].at = at]
quiet == <<folders, accept, place, beside, torn, made, commands, crashes>>

ReadList(a) ==
    /\ act[a].at = "list"
    /\ act' = [act EXCEPT ![a].at = "creds", ![a].list = Read(public, Empty)]
    /\ UNCHANGED <<public, store, faults, quiet>>

\* read_json_array already fills the credentials in, which the caller takes
\* for credentials in the public file: a list with one is always dirty.
ReadCreds(a) ==
    /\ act[a].at = "creds"
    /\ LET creds == [p \in Profiles |-> IF act[a].list[p] = Absent THEN None
                                        ELSE Read(store, NoCreds)[p]] IN
       act' = [act EXCEPT ![a].at = "folders", ![a].creds = creds, ![a].dirty = creds # NoCreds]
    /\ UNCHANGED <<public, store, faults, quiet>>

\* A dirty list is not healed.
ReadFolders(a) ==
    /\ act[a].at = "folders"
    /\ LET healed == [p \in Profiles |-> Healed(act[a].list[p], folders)] IN
       act' = [act EXCEPT ![a].at = "reconcile", ![a].known = folders,
                 ![a].list = IF act[a].dirty THEN @ ELSE healed,
                 ![a].dirty = @ \/ healed # act[a].list]
    /\ UNCHANGED <<public, store, faults, quiet>>

\* The end of the read for this actor.
AfterRead(a) == IF act[a].cmd = None THEN "done" ELSE "apply"

\* Mistaken variant: credentials of profiles that are not listed stay.
ReconcileKeeping(a) ==
    /\ act[a].at = "reconcile"
    /\ Moves(a, "heal")
    /\ UNCHANGED <<public, store, faults, quiet>>

\* reconcile_profile_secrets: the store is made of the listed profiles alone.
Reconcile(a) ==
    /\ act[a].at = "reconcile"
    /\ act' = [act EXCEPT ![a].at = IF Read(store, NoCreds) = act[a].creds THEN "heal" ELSE "storeOut",
                 ![a].next = "heal"]
    /\ UNCHANGED <<public, store, faults, quiet>>

Heal(a) ==
    /\ act[a].at = "heal"
    /\ act' = [act EXCEPT ![a].at = IF act[a].dirty THEN "listOut" ELSE AfterRead(a),
                 ![a].next = AfterRead(a)]
    /\ UNCHANGED <<public, store, faults, quiet>>

-------------------------------------------------------------------------------
(***************************************************************************)
(* Replacing a file: the old one is moved away, the new one takes its      *)
(* place.  A write that fails leaves the old one.                          *)
(***************************************************************************)
MoveAway(a) ==
    /\ \/ act[a].at = "storeOut" /\ store' = Missing /\ Moves(a, "storeIn") /\ UNCHANGED public
       \/ act[a].at = "listOut" /\ public' = Missing /\ Moves(a, "listIn") /\ UNCHANGED store
    /\ UNCHANGED <<faults, quiet>>

Ended(a) == [act[a] EXCEPT !.at = IF a = "command" THEN "idle" ELSE "done"]

\* What a command that succeeds leaves to be found.
Succeeds(a) ==
    LET cmd == act[a].cmd IN
    /\ accept' = [p \in Profiles |->
         IF cmd.op \in {"create", "update", "delete"} /\ cmd.p = p
         THEN CASE cmd.op = "delete" -> {Absent}
                [] cmd.s = Keep -> accept[p]
                [] OTHER -> {cmd.s}
         ELSE accept[p]]
    /\ place' = [p \in Profiles |->
         IF cmd.op \in {"create", "move"} /\ cmd.p = p THEN {cmd.g}
         ELSE IF p \in cmd.c THEN {cmd.g} ELSE place[p]]
    /\ act' = [act EXCEPT ![a] = Ended(a)]

TakePlace(a) ==
    /\ \/ act[a].at = "storeIn" /\ store' = act[a].creds /\ UNCHANGED public
       \/ act[a].at = "listIn" /\ public' = act[a].list /\ UNCHANGED store
    /\ CASE act[a].next = "success" -> Succeeds(a)
         [] act[a].next = "public" ->
              act' = [act EXCEPT ![a].at = "listOut", ![a].next = "success"] /\ UNCHANGED <<accept, place>>
         [] OTHER -> Moves(a, act[a].next) /\ UNCHANGED <<accept, place>>
    /\ UNCHANGED <<folders, beside, torn, made, commands, faults, crashes>>

\* persist_profiles: when the list cannot be written the credentials go back.
WriteFails(a) ==
    /\ act[a].at \in {"storeOut", "listOut"} /\ faults < Faults
    /\ faults' = faults + 1
    /\ act' = [act EXCEPT ![a] =
         IF act[a].at = "listOut" /\ act[a].prev # None
         THEN [act[a] EXCEPT !.at = "storeOut", !.creds = Read(act[a].prev, NoCreds),
                             !.prev = None, !.next = "idle"]
         ELSE Ended(a)]
    /\ UNCHANGED <<public, store, quiet>>

-------------------------------------------------------------------------------
(***************************************************************************)
(* The command itself, on what was read.                                   *)
(***************************************************************************)
Children(a) == {p \in Listed(act[a].list) : act[a].list[p].parent = act[a].cmd.f}

Changed(a) ==
    LET cmd == act[a].cmd
        fs == act[a].known
        list == act[a].list IN
    [p \in Profiles |->
       CASE cmd.op = "create" /\ p = cmd.p -> [group |-> cmd.g, parent |-> FirstNamed(fs, cmd.g)]
         [] cmd.op = "delete" /\ p = cmd.p -> Absent
         [] cmd.op = "move" /\ p = cmd.p /\ list[p] # Absent ->
              [group |-> NameOf(fs, cmd.f), parent |-> cmd.f]
         [] cmd.op = "rename" /\ p \in Children(a) -> [list[p] EXCEPT !.group = cmd.g]
         [] cmd.op = "remove" /\ p \in Children(a) -> [group |-> Default, parent |-> None]
         [] OTHER -> list[p]]

Apply(a) ==
    LET cmd == act[a].cmd IN
    /\ act[a].at = "apply"
    /\ act' = [act EXCEPT ![a].list = Changed(a),
         ![a].creds = [p \in Profiles |->
             IF p # cmd.p \/ cmd.op = "move" \/ cmd.s = Keep THEN act[a].creds[p]
             ELSE IF cmd.op = "delete" THEN None ELSE cmd.s],
         ![a].prev = IF cmd.op \in {"create", "update", "delete"} THEN store ELSE None,
         ![a].at = CASE cmd.op \in {"rename", "remove"} -> "folder"
                     [] cmd.op = "move" -> "listOut"
                     [] cmd.op = "update" /\ act[a].list[cmd.p] = Absent -> "idle"
                     [] OTHER -> "storeOut",
         ![a].next = CASE cmd.op = "move" -> "success"
                       [] cmd.op \in {"rename", "remove"} ->
                            IF Children(a) = {} THEN "idle" ELSE "success"
                       [] OTHER -> "public"]
    /\ UNCHANGED <<public, store, faults, quiet>>

\* update_folder and delete_folder: the folders first, then their children if
\* there are any.
WriteFolder(a) ==
    LET cmd == act[a].cmd IN
    /\ act[a].at = "folder"
    /\ folders' = IF cmd.op = "remove" THEN SelectSeq(act[a].known, LAMBDA e : e.id # cmd.f)
                  ELSE [i \in DOMAIN act[a].known |->
                          IF act[a].known[i].id = cmd.f THEN [act[a].known[i] EXCEPT !.name = cmd.g]
                                                        ELSE act[a].known[i]]
    /\ IF act[a].next = "success"
       THEN Moves(a, "listOut") /\ UNCHANGED <<accept, place>>
       ELSE Succeeds(a)
    /\ UNCHANGED <<public, store,  beside, torn, made, commands, faults, crashes>>

\* Only the files are left, under the names they have at that moment.
Crash ==
    /\ crashes < Crashes /\ crashes' = crashes + 1
    /\ torn' = (torn \/ \E a \in Actors : act[a].at \in {"storeIn", "listIn"})
    /\ act' = [a \in Actors |-> [Idle EXCEPT !.at = IF a = "command" \/ act[a].at = "idle" THEN "idle" ELSE "done"]]
    /\ UNCHANGED <<public, store, folders, accept, place, beside, made, commands, faults>>

Step(a) ==
    \/ ReadList(a) \/ ReadCreds(a) \/ ReadFolders(a) \/ Reconcile(a) \/ Heal(a)
    \/ MoveAway(a) \/ TakePlace(a) \/ WriteFails(a) \/ Apply(a) \/ WriteFolder(a)

Next ==
    \/ \E a \in Actors : Step(a)
    \/ \E r \in Readers : ReadUnlocked(r)
    \/ \E n \in Names : CreateFolder(n)
    \/ \E p \in Profiles :
         \/ \E s \in Secrets \cup {None}, g \in Groups : CreateProfile(p, s, g)
         \/ \E s \in Secrets \cup {None, Keep} : UpdateProfile(p, s)
         \/ SaveFingerprint(p) \/ DeleteProfile(p)
         \/ \E r \in Readers, s \in Secrets \cup {None} : SavePrivileged(r, p, s)
         \/ \E i \in DOMAIN folders : MoveProfile(p, i)
    \/ \E i \in DOMAIN folders : DeleteFolder(i) \/ \E n \in Names : RenameFolder(i, n)
    \/ Crash

Spec == Init /\ [][Next]_vars

-------------------------------------------------------------------------------
(***************************************************************************)
(* Properties                                                              *)
(***************************************************************************)

AtRest == \A a \in Actors : ~Working(a)
Found(p) == IF Read(public, Empty)[p] = Absent THEN Absent ELSE Read(store, NoCreds)[p]

\* Whatever fails or is cut off between the files, every profile is found
\* with the credential last saved for it and in the group it was put in, or
\* as the interrupted command would have left it; a deleted one is not found,
\* and a read leaves no credential of a profile that is not listed.  It takes
\* a crash between the two renames of a file, or an access without the lock
\* beside another one (Overlap), to lose more.
LibraryKept ==
    ~torn /\ ~beside =>
        /\ AtRest => \A p \in Profiles : Found(p) \in accept[p]
        /\ AtRest => \A p \in Profiles : Found(p) # Absent =>
             {public[p].group, Healed(public[p], folders).group} \subseteq place[p]
        /\ \A a \in Actors : act[a].at = "apply" =>
             \A p \in Profiles : act[a].list[p] = Absent => Read(store, NoCreds)[p] = None

\* The documentation of profile_ops says that the group and the parent of a
\* profile "are kept in sync on every read": a read ends with every profile
\* in the folder its group names.
KeptInSync ==
    \A a \in Actors : act[a].at = "apply" =>
        \A p \in Listed(act[a].list) :
            LET e == act[a].list[p] IN
            IF e.group = Default THEN e.parent = None
            ELSE \E i \in Named(act[a].known, e.group) : act[a].known[i].id = e.parent
===============================================================================
