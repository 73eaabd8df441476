------------------------------ MODULE BackupSync ------------------------------
(***************************************************************************)
(* The remote backup of the connections (services/webdav/ and              *)
(* services/s3_backup/): devices upload all their connections to one       *)
(* object, or merge them into it, and download it over their own or into   *)
(* them.                                                                   *)
(*                                                                         *)
(* The server gives each content of the object a new ETag.  A device keeps *)
(* the ETag of its last synchronisation in its configuration, refuses to   *)
(* upload when the object has another one, and makes the write conditional *)
(* on the version it prepared the content for.                             *)
(***************************************************************************)
EXTENDS Naturals

CONSTANTS
    Devices,
    Locations,      \* objects a configuration can name
    Connections,    \* identities of connections: kind, name, host, port and user
    S3,             \* whether this is S3, which compares versions before a merge downloads
    Names,          \* whether the answer to a PUT has an ETag
    Edits, Moves, Puts, Faults  \* bounds: changes of a connection, of a location, writes,
                                \* calls that fail

VARIABLES
    remote,     \* the object at each location, with its ETag
    local,      \* the connections of each device
    config,     \* location and last ETag in the configuration of each device
    call,       \* what the synchronisation of each device has read
    known,      \* the versions of each location that a device wrote or downloaded
    etags, edits, moves, faults
counts == <<etags, edits, moves, faults>>
vars == <<remote, local, config, call, known, counts>>

NoTag == 0
Contents == [Connections -> 0..Edits]       \* which change each connection is at; 0: none
Empty == [c \in Connections |-> 0]
Rest == [at |-> "idle", mode |-> "none", location |-> CHOOSE l \in Locations : TRUE,
         last |-> NoTag, head |-> NoTag, tag |-> NoTag, content |-> Empty]

TypeOK ==
    /\ \A l \in Locations : remote[l].tag \in 0..etags /\ remote[l].content \in Contents
    /\ local \in [Devices -> Contents]
    /\ \A d \in Devices :
           /\ config[d].location \in Locations /\ config[d].last \in 0..etags
           /\ call[d].tag \in 0..etags /\ call[d].content \in Contents
    /\ \A d \in Devices : known[d] \in SUBSET (1..etags)

Init ==
    /\ remote = [l \in Locations |-> [tag |-> NoTag, content |-> Empty]]
    /\ local = [d \in Devices |-> Empty]
    /\ config \in [Devices -> [location : Locations, last : {NoTag}]]
    /\ \A d, e \in Devices : config[d] = config[e]
    /\ call = [d \in Devices |-> Rest]
    /\ known = [d \in Devices |-> {}]
    /\ etags = 0 /\ edits = 0 /\ moves = 0 /\ faults = 0

Ends(d) == call' = [call EXCEPT ![d] = Rest]

(***************************************************************************)
(* The user.                                                               *)
(***************************************************************************)

\* A connection is made, changed or deleted.
Edit(d, c) ==
    /\ edits < Edits /\ edits' = edits + 1
    /\ \E new \in {0, edits + 1} : local' = [local EXCEPT ![d][c] = new]
    /\ UNCHANGED <<remote, config, call, known, etags, moves, faults>>

\* save_config: another location; the last ETag is kept.
SaveConfig(d, l) ==
    /\ moves < Moves /\ moves' = moves + 1
    /\ config[d].location # l
    /\ config' = [config EXCEPT ![d].location = l]
    /\ UNCHANGED <<remote, local, call, known, etags, edits, faults>>

(***************************************************************************)
(* Uploading.                                                              *)
(***************************************************************************)

\* upload_inner reads the configuration once; HEAD tells whether there is an object.
Upload(d, mode) ==
    /\ call[d].at = "idle"
    /\ LET l == config[d].location IN
       call' = [call EXCEPT ![d] =
           [at |-> IF mode = "merge" /\ remote[l].tag # NoTag THEN "gets" ELSE "exports",
            mode |-> mode, location |-> l, last |-> config[d].last,
            head |-> remote[l].tag, tag |-> remote[l].tag, content |-> Empty]]
    /\ UNCHANGED <<remote, local, config, known, counts>>

\* Mistaken variant: what the device does not have is not uploaded again.
MergedOfDevice(theirs, ours) == ours

\* merge_bundle_with_local: both sides' connections, the fields of this device.
Merged(theirs, ours) == [c \in Connections |-> IF ours[c] # 0 THEN ours[c] ELSE theirs[c]]

\* The version of a merge is the one that was downloaded for it.
Get(d) ==
    /\ call[d].at = "gets"
    /\ LET object == remote[call[d].location] IN
       call' = [call EXCEPT ![d].at = "puts", ![d].tag = object.tag,
                            ![d].content = Merged(object.content, local[d])]
    /\ UNCHANGED <<remote, local, config, known, counts>>

Export(d) ==
    /\ call[d].at = "exports"
    /\ call' = [call EXCEPT ![d].at = "puts", ![d].content = local[d]]
    /\ UNCHANGED <<remote, local, config, known, counts>>

\* The object is not the one of the last synchronisation.
Refuses(d) ==
    /\ call[d].last # NoTag
    /\ call[d].last # IF S3 THEN call[d].head ELSE call[d].tag

\* The error tells the user to download first.
Refused(d) ==
    /\ call[d].at = "puts" /\ Refuses(d)
    /\ Ends(d)
    /\ UNCHANGED <<remote, local, config, known, counts>>

\* If-Match, or If-None-Match for an object that was not there.
Matches(d) == remote[call[d].location].tag = call[d].tag

Conflict(d) ==
    /\ call[d].at = "puts" /\ ~Refuses(d) /\ ~Matches(d)
    /\ Ends(d)
    /\ UNCHANGED <<remote, local, config, known, counts>>

\* The server stores the object; its answer may be lost, or not name the new version.
Put(d) ==
    /\ call[d].at = "puts" /\ ~Refuses(d) /\ Matches(d)
    /\ etags < Puts /\ etags' = etags + 1
    /\ remote' = [remote EXCEPT ![call[d].location] =
                     [tag |-> etags + 1, content |-> call[d].content]]
    /\ known' = [known EXCEPT ![d] = @ \cup {etags + 1}]
    /\ \/ /\ call' = [call EXCEPT ![d].at = "saves", ![d].tag = IF Names THEN etags + 1 ELSE NoTag]
          /\ faults' = faults
       \/ /\ faults < Faults /\ faults' = faults + 1
          /\ Ends(d)
    /\ UNCHANGED <<local, config, edits, moves>>

(***************************************************************************)
(* Downloading.                                                            *)
(***************************************************************************)

Download(d, mode) ==
    /\ call[d].at = "idle"
    /\ LET l == config[d].location IN
       /\ remote[l].tag # NoTag
       /\ call' = [call EXCEPT ![d] =
              [at |-> "imports", mode |-> mode, location |-> l, last |-> config[d].last,
               head |-> NoTag, tag |-> remote[l].tag, content |-> remote[l].content]]
    /\ UNCHANGED <<remote, local, config, known, counts>>

\* import_bundle: the connections replace the local ones, or they are added and updated one
\* by one, and an error on the way keeps the ones before it.
Import(d) ==
    /\ call[d].at = "imports"
    /\ \/ /\ local' = [local EXCEPT ![d] =
                 IF call[d].mode = "overwrite" THEN call[d].content
                 ELSE Merged(local[d], call[d].content)]
          /\ known' = [known EXCEPT ![d] = @ \cup {call[d].tag}]
          /\ call' = [call EXCEPT ![d].at = "saves"]
          /\ faults' = faults
       \/ /\ faults < Faults /\ faults' = faults + 1
          /\ call[d].mode = "merge"
          /\ \E cs \in SUBSET Connections :
                local' = [local EXCEPT ![d] = [c \in Connections |->
                    IF c \in cs THEN Merged(local[d], call[d].content)[c] ELSE local[d][c]]]
          /\ Ends(d)
          /\ known' = known
    /\ UNCHANGED <<remote, config, etags, edits, moves>>

\* write_config writes all of the configuration that was read at the start.
Save(d) ==
    /\ call[d].at = "saves"
    /\ \/ /\ config' = [config EXCEPT ![d] = [location |-> call[d].location, last |-> call[d].tag]]
          /\ faults' = faults
       \/ /\ faults < Faults /\ faults' = faults + 1
          /\ config' = config
    /\ Ends(d)
    /\ UNCHANGED <<remote, local, known, etags, edits, moves>>

Modes == {"overwrite", "merge"}
Next ==
    \E d \in Devices :
        \/ \E c \in Connections : Edit(d, c)
        \/ \E l \in Locations : SaveConfig(d, l)
        \/ \E m \in Modes : Upload(d, m) \/ Download(d, m)
        \/ Get(d) \/ Export(d) \/ Refused(d) \/ Conflict(d) \/ Put(d) \/ Import(d) \/ Save(d)

Spec == Init /\ [][Next]_vars

(***************************************************************************)
(* Properties.                                                             *)
(***************************************************************************)

\* d replaces the object at the location of its call.
Writes(d) == call[d].at = "puts" /\ call'[d] # call[d] /\ remote' # remote

\* A merging upload keeps every connection of the object it replaces, whoever wrote it and
\* however long ago this one downloaded it.
MergeKeepsTheirs ==
    [][\A d \in Devices : call[d].mode = "merge" /\ Writes(d)
           => \A c \in Connections :
                  remote[call[d].location].content[c] # 0
                      => remote'[call[d].location].content[c] # 0]_vars

\* An overwriting upload of a device that has its last synchronisation recorded replaces
\* only what the device wrote or downloaded whole, through conflicts, lost answers and
\* configurations that were not saved.
RecordedIsReplaced ==
    [][\A d \in Devices : call[d].mode = "overwrite" /\ call[d].last # NoTag /\ Writes(d)
           => remote[call[d].location].tag \in known[d]]_vars

\* No upload takes away what its device has not seen.
UploadsKeepOthers == MergeKeepsTheirs /\ RecordedIsReplaced

=============================================================================
