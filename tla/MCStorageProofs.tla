---------------------------- MODULE MCStorageProofs ----------------------------
(***************************************************************************)
(* Proofs about the components that keep files and the pane that shows     *)
(* them, of the instances the composition drives.                          *)
(***************************************************************************)
EXTENDS MCStorage, TLAPS

-------------------------------------------------------------------------------
(***************************************************************************)
(* The transfer journal.                                                   *)
(***************************************************************************)
JournalConstants ==
    /\ None \notin Nat /\ Torn \notin Nat /\ Newer \notin Nat
    /\ None # Torn /\ None # Newer /\ Torn # Newer
    /\ None \notin Writers /\ Loader # None

\* What a start of the program would take for its list is nothing older than was acknowledged.
Readable == Journal!Read \in Nat /\ acked <= Journal!Read /\ Journal!Read <= mem
Bounded == mem \in Nat /\ acked \in Nat /\ acked <= mem /\ snap \in Nat
Held ==
    /\ lock = None <=> step = "idle"
    /\ waiting # {} => loaded
    /\ step = "read" => ~loaded
    /\ primary \in Nat => primary <= mem
    /\ primary = Newer => ~loaded /\ step \in {"idle", "read"}
    /\ step \in {"create", "write", "drop", "move", "commit", "clean"} => acked <= snap /\ snap <= mem
    /\ step \in {"create", "write", "drop", "move"} /\ primary \in Nat => primary <= snap
    /\ step \in {"drop", "move", "commit"} => temporary = snap
    /\ step = "commit" /\ moved /\ secondary \in Nat => secondary <= snap
    /\ step = "clean" => primary = snap /\ (moved /\ secondary \in Nat => secondary <= snap)

\* As long as nothing failed there is one file, or the one being replaced beside the new one.
Intact ==
    /\ primary = None \/ primary = Newer \/ (primary \in Nat /\ acked <= primary /\ primary <= mem)
    /\ step \notin {"commit", "clean"} => secondary = None /\ (primary = None => acked = 0)
    /\ step = "commit" =>
         /\ primary = None
         /\ IF moved THEN secondary \in Nat /\ acked <= secondary /\ secondary <= mem
            ELSE secondary = None /\ acked = 0
    /\ step = "clean" => primary \in Nat /\ secondary \in Nat \cup {None}

JournalInv ==
    /\ Journal!TypeOK /\ Bounded /\ Held
    /\ harms = 0 => Intact
    /\ step \in {"idle", "read"} => Readable \/ (Journal!Read = None /\ (step = "idle" => ~loaded))

LEMMA JournalInit == JournalConstants /\ Journal!Init => JournalInv
<1> SUFFICES ASSUME JournalConstants, Journal!Init PROVE JournalInv
  OBVIOUS
<1> USE DEF Journal!Init
<1>1. Journal!TypeOK
  <2>1. waiting \in SUBSET Writers /\ lock \in Writers \cup {Loader, None} /\ harms \in 0..1
    OBVIOUS
  <2>2. mem \in Nat /\ snap \in Nat /\ acked \in Nat /\ loaded \in BOOLEAN /\ moved \in BOOLEAN
    OBVIOUS
  <2>3. step \in Journal!Steps
    BY DEF Journal!Steps
  <2>4. primary \in Journal!File /\ secondary \in Journal!File /\ temporary \in Journal!File
    BY DEF Journal!File
  <2> QED
    BY <2>1, <2>2, <2>3, <2>4 DEF Journal!TypeOK, Journal!Version
<1>2. Journal!Read = 0
  BY DEF Journal!Read, Journal!Version, JournalConstants
<1>3. Bounded /\ Held /\ Intact
  BY DEF Bounded, Held, Intact, JournalConstants
<1> QED
  BY <1>1, <1>2, <1>3 DEF JournalInv, Readable

\* What a start would read, of files that are whole.
LEMMA Reads ==
    ASSUME JournalConstants
    PROVE  /\ primary \in Nat => Journal!Read = primary
           /\ primary = None /\ secondary \in Nat => Journal!Read = secondary
           /\ primary = None /\ secondary = None => Journal!Read = 0
           /\ primary = Newer => Journal!Read = None
           /\ primary = Torn /\ secondary = None => Journal!Read = None
           /\ Journal!Read # None => primary # Newer
           /\ Journal!Read \in Nat \cup {None}
           /\ primary' \in Nat => Journal!Read' = primary'
           /\ primary' = None /\ secondary' \in Nat => Journal!Read' = secondary'
           /\ primary' = None /\ secondary' = None => Journal!Read' = 0
           /\ primary' = Newer => Journal!Read' = None
           /\ primary' = Torn /\ secondary' = None => Journal!Read' = None
           /\ UNCHANGED <<primary, secondary>> => UNCHANGED Journal!Read
  BY DEF Journal!Read, Journal!Version, JournalConstants

\* Before anything failed a start reads a list that is new enough, whatever is under way.
LEMMA IntactReads ==
    ASSUME JournalConstants, JournalInv, harms = 0, step \notin {"idle", "read"}
    PROVE  Readable
<1>1. CASE step = "commit"
  BY <1>1, Reads DEF JournalInv, Intact, Readable, Bounded
<1>2. CASE step = "clean"
  BY <1>2, Reads DEF JournalInv, Intact, Readable, Bounded, Held
<1>3. CASE step \notin {"commit", "clean"}
  BY <1>3, Reads DEF JournalInv, Intact, Readable, Bounded, Held
<1> QED
  BY <1>1, <1>2, <1>3

\* The caller of a persist, the program's end, and the lock.
LEMMA CallersInv ==
    ASSUME JournalConstants, JournalInv, Journal!CallerStep \/ Journal!Quit \/ UNCHANGED journalVars
    PROVE  JournalInv'
<1>1. UNCHANGED <<primary, secondary, temporary, acked, harms, snap, moved>>
      /\ (mem' = mem \/ mem' = mem + 1)
  BY DEF Journal!CallerStep, Journal!Quit, Journal!Patch, Journal!Load, Journal!Persist,
     Journal!Lock, Journal!files, journalVars
<1>2. Journal!Read' = Journal!Read
  BY <1>1, Reads
<1>3. Journal!TypeOK'
  <2> USE DEF Journal!CallerStep, Journal!Quit, Journal!Patch, Journal!Load, Journal!Persist,
          Journal!Lock, journalVars
  <2>1. Journal!TypeOK
    BY DEF JournalInv
  <2>2. waiting' \subseteq waiting \cup Writers
    OBVIOUS
  <2>3. lock' \in {lock, Loader} \cup Writers
    OBVIOUS
  <2>4. step' \in {step, "snapshot", "read"}
    OBVIOUS
  <2>5. loaded' = loaded \/ loaded' = FALSE
    OBVIOUS
  <2>6. loaded' \in BOOLEAN /\ moved' \in BOOLEAN
    BY <1>1, <2>1, <2>5 DEF Journal!TypeOK
  <2>7. waiting' \in SUBSET Writers /\ lock' \in Writers \cup {Loader, None} /\ step' \in Journal!Steps
    BY <2>1, <2>2, <2>3, <2>4 DEF Journal!TypeOK, Journal!Steps
  <2> QED
    BY <1>1, <2>1, <2>6, <2>7 DEF Journal!TypeOK, Journal!Version, Journal!Steps
<1>4. Bounded'
  BY <1>1 DEF JournalInv, Bounded
<1>5. /\ step' = step \/ (lock = None /\ lock' # None /\ step' = IF loaded THEN "snapshot" ELSE "read")
      /\ step' = step => lock' = lock
      /\ loaded' => loaded
      /\ loaded' = loaded \/ step' = "idle"
      /\ waiting' # {} => loaded'
  BY DEF JournalInv, Held, Journal!TypeOK, JournalConstants, Journal!CallerStep, Journal!Quit, Journal!Patch, Journal!Load,
     Journal!Persist, Journal!Lock, journalVars
<1>6. Held'
  BY <1>1, <1>5 DEF JournalInv, Held, Bounded
<1>7. harms' = 0 => Intact'
  BY <1>1, <1>5 DEF JournalInv, Held, Intact, Bounded
<1>8. step' \in {"idle", "read"} => Readable' \/ (Journal!Read' = None /\ (step' = "idle" => ~loaded'))
  BY <1>1, <1>2, <1>5 DEF JournalInv, Held, Readable, Bounded
<1> QED
  BY <1>3, <1>4, <1>6, <1>7, <1>8 DEF JournalInv


\* The types of what a step of the holder of the lock leaves.
LEMMA HolderTyped ==
    ASSUME Journal!TypeOK, mem' \in Nat, snap' \in Nat, acked' \in Nat, loaded' \in {loaded, TRUE},
           moved' \in {moved, TRUE, FALSE}, waiting' = waiting, lock' \in {lock, None},
           step' \in Journal!Steps, harms' \in {harms, 1},
           primary' \in Journal!File, secondary' \in Journal!File, temporary' \in Journal!File
    PROVE  Journal!TypeOK'
<1>1. loaded' \in BOOLEAN /\ moved' \in BOOLEAN
  BY DEF Journal!TypeOK
<1>2. lock' \in Writers \cup {Loader, None} /\ harms' \in 0..1
  BY DEF Journal!TypeOK
<1> QED
  BY <1>1, <1>2 DEF Journal!TypeOK, Journal!Version

\* The caller that reads the journal and the one that is about to write it.
LEMMA HolderInv ==
    ASSUME JournalConstants, JournalInv, Journal!HolderStep
    PROVE  JournalInv'
<1>1. Journal!TypeOK /\ Bounded /\ Held /\ lock # None /\ step \in Journal!Steps
  BY DEF JournalInv, Journal!TypeOK, Journal!HolderStep, Journal!At, Journal!ReadFiles,
     Journal!Snapshot, Journal!CreateTemporary, Journal!WriteTemporary, Journal!DropBackup,
     Journal!MoveCurrent, Journal!CommitTemporary, Journal!Finish
<1>2. Journal!Fault => harms = 0 /\ harms' = 1
  BY <1>1 DEF Journal!Fault, Journal!TypeOK
<1> USE DEF Journal!Release
<1>21. /\ primary \in Journal!File /\ secondary \in Journal!File /\ temporary \in Journal!File
       /\ None \in Journal!File /\ Torn \in Journal!File /\ Nat \subseteq Journal!File
       /\ mem \in Nat /\ snap \in Nat /\ acked \in Nat
  BY <1>1 DEF Journal!TypeOK, Journal!File, Journal!Version
<1>22. {"idle", "create", "write", "drop", "move", "commit", "clean"} \subseteq Journal!Steps
  BY DEF Journal!Steps
<1>3. CASE Journal!ReadFiles
  <2>1. waiting' = waiting /\ step = "read"
    BY <1>3 DEF Journal!ReadFiles, Journal!At
  <2>2. ASSUME Journal!Read = None,
              UNCHANGED <<mem, snap, loaded, acked, primary, secondary, temporary, harms>>,
              lock' = None /\ step' = "idle" /\ moved' = FALSE
       PROVE  JournalInv'
    <3>1. Journal!TypeOK'
      BY <1>1, <1>21, <1>22, <2>1, <2>2, Reads, HolderTyped
    <3>2. Bounded'
      BY <1>1, <1>21, <1>22, <2>1, <2>2, Reads DEF JournalInv, Bounded, Held, Readable
    <3>3. Held'
      BY <1>1, <1>21, <1>22, <2>1, <2>2, Reads DEF JournalInv, Bounded, Held, Readable, Intact, JournalConstants
    <3>4. harms' = 0 => Intact'
      BY <1>1, <1>21, <1>22, <2>1, <2>2, Reads DEF JournalInv, Bounded, Held, Readable, Intact
    <3>5. step' \in {"idle", "read"} => Readable' \/ (Journal!Read' = None /\ (step' = "idle" => ~loaded'))
      <4>1. harms = 0 /\ step # "read" => Readable
        BY <2>1, IntactReads
      <4> QED
        BY <1>1, <1>21, <1>22, <2>1, <2>2, <4>1, Reads DEF Bounded, Held, Readable, Intact, JournalInv
    <3> QED
      BY <3>1, <3>2, <3>3, <3>4, <3>5 DEF JournalInv
  <2>3. ASSUME Journal!Read # None,
              mem' = Journal!Read /\ snap' = Journal!Read /\ step' = "create",
              UNCHANGED <<lock, moved, loaded, acked, primary, secondary, temporary, harms>>
       PROVE  JournalInv'
    <3>1. Journal!TypeOK'
      BY <1>1, <1>21, <1>22, <2>1, <2>3, Reads, HolderTyped
    <3>2. Bounded'
      BY <1>1, <1>21, <1>22, <2>1, <2>3, Reads DEF JournalInv, Bounded, Held, Readable
    <3>3. Held'
      BY <1>1, <1>21, <1>22, <2>1, <2>3, Reads DEF JournalInv, Bounded, Held, Readable, Intact, JournalConstants
    <3>4. harms' = 0 => Intact'
      BY <1>1, <1>21, <1>22, <2>1, <2>3, Reads DEF JournalInv, Bounded, Held, Readable, Intact
    <3>5. step' \in {"idle", "read"} => Readable' \/ (Journal!Read' = None /\ (step' = "idle" => ~loaded'))
      <4>1. harms = 0 /\ step # "read" => Readable
        BY <2>1, IntactReads
      <4> QED
        BY <1>1, <1>21, <1>22, <2>1, <2>3, <4>1, Reads DEF Bounded, Held, Readable, Intact, JournalInv
    <3> QED
      BY <3>1, <3>2, <3>3, <3>4, <3>5 DEF JournalInv
  <2> QED
    BY <1>2, <1>3, <2>1, <2>2, <2>3 DEF Journal!ReadFiles, Journal!At, Journal!files
<1>4. CASE Journal!Snapshot
  <2>1. waiting' = waiting /\ step = "snapshot"
    BY <1>4 DEF Journal!Snapshot, Journal!At
  <2>2. ASSUME snap' = mem /\ step' = "create",
              UNCHANGED <<mem, lock, moved, loaded, acked, primary, secondary, temporary, harms>>
       PROVE  JournalInv'
    <3>1. Journal!TypeOK'
      BY <1>1, <1>21, <1>22, <2>1, <2>2, Reads, HolderTyped
    <3>2. Bounded'
      BY <1>1, <1>21, <1>22, <2>1, <2>2, Reads DEF JournalInv, Bounded, Held, Readable
    <3>3. Held'
      BY <1>1, <1>21, <1>22, <2>1, <2>2, Reads DEF JournalInv, Bounded, Held, Readable, Intact, JournalConstants
    <3>4. harms' = 0 => Intact'
      BY <1>1, <1>21, <1>22, <2>1, <2>2, Reads DEF JournalInv, Bounded, Held, Readable, Intact
    <3>5. step' \in {"idle", "read"} => Readable' \/ (Journal!Read' = None /\ (step' = "idle" => ~loaded'))
      <4>1. harms = 0 /\ step # "read" => Readable
        BY <2>1, IntactReads
      <4> QED
        BY <1>1, <1>21, <1>22, <2>1, <2>2, <4>1, Reads DEF Bounded, Held, Readable, Intact, JournalInv
    <3> QED
      BY <3>1, <3>2, <3>3, <3>4, <3>5 DEF JournalInv
  <2> QED
    BY <1>2, <1>4, <2>1, <2>2 DEF Journal!Snapshot, Journal!At, Journal!files
<1>5. CASE Journal!CreateTemporary
  <2>1. waiting' = waiting /\ step = "create"
    BY <1>5 DEF Journal!CreateTemporary, Journal!At
  <2>2. ASSUME temporary' = Torn /\ step' = "write",
              UNCHANGED <<mem, snap, lock, moved, loaded, acked, primary, secondary, harms>>
       PROVE  JournalInv'
    <3>1. Journal!TypeOK'
      BY <1>1, <1>21, <1>22, <2>1, <2>2, Reads, HolderTyped
    <3>2. Bounded'
      BY <1>1, <1>21, <1>22, <2>1, <2>2, Reads DEF JournalInv, Bounded, Held, Readable
    <3>3. Held'
      BY <1>1, <1>21, <1>22, <2>1, <2>2, Reads DEF JournalInv, Bounded, Held, Readable, Intact, JournalConstants
    <3>4. harms' = 0 => Intact'
      BY <1>1, <1>21, <1>22, <2>1, <2>2, Reads DEF JournalInv, Bounded, Held, Readable, Intact
    <3>5. step' \in {"idle", "read"} => Readable' \/ (Journal!Read' = None /\ (step' = "idle" => ~loaded'))
      <4>1. harms = 0 /\ step # "read" => Readable
        BY <2>1, IntactReads
      <4> QED
        BY <1>1, <1>21, <1>22, <2>1, <2>2, <4>1, Reads DEF Bounded, Held, Readable, Intact, JournalInv
    <3> QED
      BY <3>1, <3>2, <3>3, <3>4, <3>5 DEF JournalInv
  <2>3. ASSUME harms = 0 /\ harms' = 1,
              lock' = None /\ step' = "idle" /\ moved' = FALSE,
              UNCHANGED <<mem, snap, loaded, acked, primary, secondary, temporary>>
       PROVE  JournalInv'
    <3>1. Journal!TypeOK'
      BY <1>1, <1>21, <1>22, <2>1, <2>3, Reads, HolderTyped
    <3>2. Bounded'
      BY <1>1, <1>21, <1>22, <2>1, <2>3, Reads DEF JournalInv, Bounded, Held, Readable
    <3>3. Held'
      BY <1>1, <1>21, <1>22, <2>1, <2>3, Reads DEF JournalInv, Bounded, Held, Readable, Intact, JournalConstants
    <3>4. harms' = 0 => Intact'
      BY <1>1, <1>21, <1>22, <2>1, <2>3, Reads DEF JournalInv, Bounded, Held, Readable, Intact
    <3>5. step' \in {"idle", "read"} => Readable' \/ (Journal!Read' = None /\ (step' = "idle" => ~loaded'))
      <4>1. harms = 0 /\ step # "read" => Readable
        BY <2>1, IntactReads
      <4> QED
        BY <1>1, <1>21, <1>22, <2>1, <2>3, <4>1, Reads DEF Bounded, Held, Readable, Intact, JournalInv
    <3> QED
      BY <3>1, <3>2, <3>3, <3>4, <3>5 DEF JournalInv
  <2> QED
    BY <1>2, <1>5, <2>1, <2>2, <2>3 DEF Journal!CreateTemporary, Journal!At
<1>6. CASE Journal!WriteTemporary
  <2>1. waiting' = waiting /\ step = "write"
    BY <1>6 DEF Journal!WriteTemporary, Journal!At
  <2>2. ASSUME temporary' = snap /\ step' = "drop",
              UNCHANGED <<mem, snap, lock, moved, loaded, acked, primary, secondary, harms>>
       PROVE  JournalInv'
    <3>1. Journal!TypeOK'
      BY <1>1, <1>21, <1>22, <2>1, <2>2, Reads, HolderTyped
    <3>2. Bounded'
      BY <1>1, <1>21, <1>22, <2>1, <2>2, Reads DEF JournalInv, Bounded, Held, Readable
    <3>3. Held'
      BY <1>1, <1>21, <1>22, <2>1, <2>2, Reads DEF JournalInv, Bounded, Held, Readable, Intact, JournalConstants
    <3>4. harms' = 0 => Intact'
      BY <1>1, <1>21, <1>22, <2>1, <2>2, Reads DEF JournalInv, Bounded, Held, Readable, Intact
    <3>5. step' \in {"idle", "read"} => Readable' \/ (Journal!Read' = None /\ (step' = "idle" => ~loaded'))
      <4>1. harms = 0 /\ step # "read" => Readable
        BY <2>1, IntactReads
      <4> QED
        BY <1>1, <1>21, <1>22, <2>1, <2>2, <4>1, Reads DEF Bounded, Held, Readable, Intact, JournalInv
    <3> QED
      BY <3>1, <3>2, <3>3, <3>4, <3>5 DEF JournalInv
  <2>3. ASSUME harms = 0 /\ harms' = 1,
              lock' = None /\ step' = "idle" /\ moved' = FALSE,
              UNCHANGED <<mem, snap, loaded, acked, primary, secondary, temporary>>
       PROVE  JournalInv'
    <3>1. Journal!TypeOK'
      BY <1>1, <1>21, <1>22, <2>1, <2>3, Reads, HolderTyped
    <3>2. Bounded'
      BY <1>1, <1>21, <1>22, <2>1, <2>3, Reads DEF JournalInv, Bounded, Held, Readable
    <3>3. Held'
      BY <1>1, <1>21, <1>22, <2>1, <2>3, Reads DEF JournalInv, Bounded, Held, Readable, Intact, JournalConstants
    <3>4. harms' = 0 => Intact'
      BY <1>1, <1>21, <1>22, <2>1, <2>3, Reads DEF JournalInv, Bounded, Held, Readable, Intact
    <3>5. step' \in {"idle", "read"} => Readable' \/ (Journal!Read' = None /\ (step' = "idle" => ~loaded'))
      <4>1. harms = 0 /\ step # "read" => Readable
        BY <2>1, IntactReads
      <4> QED
        BY <1>1, <1>21, <1>22, <2>1, <2>3, <4>1, Reads DEF Bounded, Held, Readable, Intact, JournalInv
    <3> QED
      BY <3>1, <3>2, <3>3, <3>4, <3>5 DEF JournalInv
  <2> QED
    BY <1>2, <1>6, <2>1, <2>2, <2>3 DEF Journal!WriteTemporary, Journal!At
<1>7. CASE Journal!DropBackup
  <2>1. waiting' = waiting /\ step = "drop"
    BY <1>7 DEF Journal!DropBackup, Journal!At
  <2>2. ASSUME secondary' = None /\ step' = "move",
              UNCHANGED <<mem, snap, lock, moved, loaded, acked, primary, temporary, harms>>
       PROVE  JournalInv'
    <3>1. Journal!TypeOK'
      BY <1>1, <1>21, <1>22, <2>1, <2>2, Reads, HolderTyped
    <3>2. Bounded'
      BY <1>1, <1>21, <1>22, <2>1, <2>2, Reads DEF JournalInv, Bounded, Held, Readable
    <3>3. Held'
      BY <1>1, <1>21, <1>22, <2>1, <2>2, Reads DEF JournalInv, Bounded, Held, Readable, Intact, JournalConstants
    <3>4. harms' = 0 => Intact'
      BY <1>1, <1>21, <1>22, <2>1, <2>2, Reads DEF JournalInv, Bounded, Held, Readable, Intact
    <3>5. step' \in {"idle", "read"} => Readable' \/ (Journal!Read' = None /\ (step' = "idle" => ~loaded'))
      <4>1. harms = 0 /\ step # "read" => Readable
        BY <2>1, IntactReads
      <4> QED
        BY <1>1, <1>21, <1>22, <2>1, <2>2, <4>1, Reads DEF Bounded, Held, Readable, Intact, JournalInv
    <3> QED
      BY <3>1, <3>2, <3>3, <3>4, <3>5 DEF JournalInv
  <2>3. ASSUME harms = 0 /\ harms' = 1,
              step' = "move",
              UNCHANGED <<mem, snap, lock, moved, loaded, acked, primary, secondary, temporary>>
       PROVE  JournalInv'
    <3>1. Journal!TypeOK'
      BY <1>1, <1>21, <1>22, <2>1, <2>3, Reads, HolderTyped
    <3>2. Bounded'
      BY <1>1, <1>21, <1>22, <2>1, <2>3, Reads DEF JournalInv, Bounded, Held, Readable
    <3>3. Held'
      BY <1>1, <1>21, <1>22, <2>1, <2>3, Reads DEF JournalInv, Bounded, Held, Readable, Intact, JournalConstants
    <3>4. harms' = 0 => Intact'
      BY <1>1, <1>21, <1>22, <2>1, <2>3, Reads DEF JournalInv, Bounded, Held, Readable, Intact
    <3>5. step' \in {"idle", "read"} => Readable' \/ (Journal!Read' = None /\ (step' = "idle" => ~loaded'))
      <4>1. harms = 0 /\ step # "read" => Readable
        BY <2>1, IntactReads
      <4> QED
        BY <1>1, <1>21, <1>22, <2>1, <2>3, <4>1, Reads DEF Bounded, Held, Readable, Intact, JournalInv
    <3> QED
      BY <3>1, <3>2, <3>3, <3>4, <3>5 DEF JournalInv
  <2> QED
    BY <1>2, <1>7, <2>1, <2>2, <2>3 DEF Journal!DropBackup, Journal!At
<1>8. CASE Journal!MoveCurrent
  <2>1. waiting' = waiting /\ step = "move"
    BY <1>8 DEF Journal!MoveCurrent, Journal!At
  <2>2. ASSUME primary # None,
              primary' = None /\ secondary' = primary /\ moved' = TRUE /\ step' = "commit",
              UNCHANGED <<mem, snap, lock, loaded, acked, temporary, harms>>
       PROVE  JournalInv'
    <3>1. Journal!TypeOK'
      BY <1>1, <1>21, <1>22, <2>1, <2>2, Reads, HolderTyped
    <3>2. Bounded'
      BY <1>1, <1>21, <1>22, <2>1, <2>2, Reads DEF JournalInv, Bounded, Held, Readable
    <3>3. Held'
      BY <1>1, <1>21, <1>22, <2>1, <2>2, Reads DEF JournalInv, Bounded, Held, Readable, Intact, JournalConstants
    <3>4. harms' = 0 => Intact'
      BY <1>1, <1>21, <1>22, <2>1, <2>2, Reads DEF JournalInv, Bounded, Held, Readable, Intact
    <3>5. step' \in {"idle", "read"} => Readable' \/ (Journal!Read' = None /\ (step' = "idle" => ~loaded'))
      <4>1. harms = 0 /\ step # "read" => Readable
        BY <2>1, IntactReads
      <4> QED
        BY <1>1, <1>21, <1>22, <2>1, <2>2, <4>1, Reads DEF Bounded, Held, Readable, Intact, JournalInv
    <3> QED
      BY <3>1, <3>2, <3>3, <3>4, <3>5 DEF JournalInv
  <2>3. ASSUME primary = None,
              moved' = FALSE /\ step' = "commit",
              UNCHANGED <<mem, snap, lock, loaded, acked, primary, secondary, temporary, harms>>
       PROVE  JournalInv'
    <3>1. Journal!TypeOK'
      BY <1>1, <1>21, <1>22, <2>1, <2>3, Reads, HolderTyped
    <3>2. Bounded'
      BY <1>1, <1>21, <1>22, <2>1, <2>3, Reads DEF JournalInv, Bounded, Held, Readable
    <3>3. Held'
      BY <1>1, <1>21, <1>22, <2>1, <2>3, Reads DEF JournalInv, Bounded, Held, Readable, Intact, JournalConstants
    <3>4. harms' = 0 => Intact'
      BY <1>1, <1>21, <1>22, <2>1, <2>3, Reads DEF JournalInv, Bounded, Held, Readable, Intact
    <3>5. step' \in {"idle", "read"} => Readable' \/ (Journal!Read' = None /\ (step' = "idle" => ~loaded'))
      <4>1. harms = 0 /\ step # "read" => Readable
        BY <2>1, IntactReads
      <4> QED
        BY <1>1, <1>21, <1>22, <2>1, <2>3, <4>1, Reads DEF Bounded, Held, Readable, Intact, JournalInv
    <3> QED
      BY <3>1, <3>2, <3>3, <3>4, <3>5 DEF JournalInv
  <2>4. ASSUME primary # None,
              harms = 0 /\ harms' = 1,
              lock' = None /\ step' = "idle" /\ moved' = FALSE,
              UNCHANGED <<mem, snap, loaded, acked, primary, secondary, temporary>>
       PROVE  JournalInv'
    <3>1. Journal!TypeOK'
      BY <1>1, <1>21, <1>22, <2>1, <2>4, Reads, HolderTyped
    <3>2. Bounded'
      BY <1>1, <1>21, <1>22, <2>1, <2>4, Reads DEF JournalInv, Bounded, Held, Readable
    <3>3. Held'
      BY <1>1, <1>21, <1>22, <2>1, <2>4, Reads DEF JournalInv, Bounded, Held, Readable, Intact, JournalConstants
    <3>4. harms' = 0 => Intact'
      BY <1>1, <1>21, <1>22, <2>1, <2>4, Reads DEF JournalInv, Bounded, Held, Readable, Intact
    <3>5. step' \in {"idle", "read"} => Readable' \/ (Journal!Read' = None /\ (step' = "idle" => ~loaded'))
      <4>1. harms = 0 /\ step # "read" => Readable
        BY <2>1, IntactReads
      <4> QED
        BY <1>1, <1>21, <1>22, <2>1, <2>4, <4>1, Reads DEF Bounded, Held, Readable, Intact, JournalInv
    <3> QED
      BY <3>1, <3>2, <3>3, <3>4, <3>5 DEF JournalInv
  <2> QED
    BY <1>2, <1>8, <2>1, <2>2, <2>3, <2>4 DEF Journal!MoveCurrent, Journal!At
<1>9. CASE Journal!CommitTemporary
  <2>1. waiting' = waiting /\ step = "commit"
    BY <1>9 DEF Journal!CommitTemporary, Journal!At
  <2>2. ASSUME primary' = temporary /\ temporary' = None /\ step' = "clean",
              UNCHANGED <<mem, snap, lock, moved, loaded, acked, secondary, harms>>
       PROVE  JournalInv'
    <3>1. Journal!TypeOK'
      BY <1>1, <1>21, <1>22, <2>1, <2>2, Reads, HolderTyped
    <3>2. Bounded'
      BY <1>1, <1>21, <1>22, <2>1, <2>2, Reads DEF JournalInv, Bounded, Held, Readable
    <3>3. Held'
      BY <1>1, <1>21, <1>22, <2>1, <2>2, Reads DEF JournalInv, Bounded, Held, Readable, Intact, JournalConstants
    <3>4. harms' = 0 => Intact'
      BY <1>1, <1>21, <1>22, <2>1, <2>2, Reads DEF JournalInv, Bounded, Held, Readable, Intact
    <3>5. step' \in {"idle", "read"} => Readable' \/ (Journal!Read' = None /\ (step' = "idle" => ~loaded'))
      <4>1. harms = 0 /\ step # "read" => Readable
        BY <2>1, IntactReads
      <4> QED
        BY <1>1, <1>21, <1>22, <2>1, <2>2, <4>1, Reads DEF Bounded, Held, Readable, Intact, JournalInv
    <3> QED
      BY <3>1, <3>2, <3>3, <3>4, <3>5 DEF JournalInv
  <2>3. ASSUME moved = TRUE,
              primary' = secondary /\ secondary' = None,
              harms = 0 /\ harms' = 1,
              lock' = None /\ step' = "idle" /\ moved' = FALSE,
              UNCHANGED <<mem, snap, loaded, acked, temporary>>
       PROVE  JournalInv'
    <3>1. Journal!TypeOK'
      BY <1>1, <1>21, <1>22, <2>1, <2>3, Reads, HolderTyped
    <3>2. Bounded'
      BY <1>1, <1>21, <1>22, <2>1, <2>3, Reads DEF JournalInv, Bounded, Held, Readable
    <3>3. Held'
      BY <1>1, <1>21, <1>22, <2>1, <2>3, Reads DEF JournalInv, Bounded, Held, Readable, Intact, JournalConstants
    <3>4. harms' = 0 => Intact'
      BY <1>1, <1>21, <1>22, <2>1, <2>3, Reads DEF JournalInv, Bounded, Held, Readable, Intact
    <3>5. step' \in {"idle", "read"} => Readable' \/ (Journal!Read' = None /\ (step' = "idle" => ~loaded'))
      <4>1. harms = 0 /\ step # "read" => Readable
        BY <2>1, IntactReads
      <4> QED
        BY <1>1, <1>21, <1>22, <2>1, <2>3, <4>1, Reads DEF Bounded, Held, Readable, Intact, JournalInv
    <3> QED
      BY <3>1, <3>2, <3>3, <3>4, <3>5 DEF JournalInv
  <2>4. ASSUME harms = 0 /\ harms' = 1,
              lock' = None /\ step' = "idle" /\ moved' = FALSE,
              UNCHANGED <<mem, snap, loaded, acked, primary, secondary, temporary>>
       PROVE  JournalInv'
    <3>1. Journal!TypeOK'
      BY <1>1, <1>21, <1>22, <2>1, <2>4, Reads, HolderTyped
    <3>2. Bounded'
      BY <1>1, <1>21, <1>22, <2>1, <2>4, Reads DEF JournalInv, Bounded, Held, Readable
    <3>3. Held'
      BY <1>1, <1>21, <1>22, <2>1, <2>4, Reads DEF JournalInv, Bounded, Held, Readable, Intact, JournalConstants
    <3>4. harms' = 0 => Intact'
      BY <1>1, <1>21, <1>22, <2>1, <2>4, Reads DEF JournalInv, Bounded, Held, Readable, Intact
    <3>5. step' \in {"idle", "read"} => Readable' \/ (Journal!Read' = None /\ (step' = "idle" => ~loaded'))
      <4>1. harms = 0 /\ step # "read" => Readable
        BY <2>1, IntactReads
      <4> QED
        BY <1>1, <1>21, <1>22, <2>1, <2>4, <4>1, Reads DEF Bounded, Held, Readable, Intact, JournalInv
    <3> QED
      BY <3>1, <3>2, <3>3, <3>4, <3>5 DEF JournalInv
  <2> QED
    BY <1>2, <1>9, <2>1, <2>2, <2>3, <2>4 DEF Journal!CommitTemporary, Journal!At, Journal!Rollback
<1>10. CASE Journal!Finish
  <2>1. waiting' = waiting /\ step = "clean"
    BY <1>10 DEF Journal!Finish, Journal!At
  <2>2. ASSUME secondary' = None,
              lock' = None /\ step' = "idle" /\ moved' = FALSE,
              acked' = IF snap > acked THEN snap ELSE acked,
              loaded' = TRUE,
              UNCHANGED <<mem, snap, primary, temporary, harms>>
       PROVE  JournalInv'
    <3>1. Journal!TypeOK'
      BY <1>1, <1>21, <1>22, <2>1, <2>2, Reads, HolderTyped
    <3>2. Bounded'
      BY <1>1, <1>21, <1>22, <2>1, <2>2, Reads DEF JournalInv, Bounded, Held, Readable
    <3>3. Held'
      BY <1>1, <1>21, <1>22, <2>1, <2>2, Reads DEF JournalInv, Bounded, Held, Readable, Intact, JournalConstants
    <3>4. harms' = 0 => Intact'
      BY <1>1, <1>21, <1>22, <2>1, <2>2, Reads DEF JournalInv, Bounded, Held, Readable, Intact
    <3>5. step' \in {"idle", "read"} => Readable' \/ (Journal!Read' = None /\ (step' = "idle" => ~loaded'))
      <4>1. harms = 0 /\ step # "read" => Readable
        BY <2>1, IntactReads
      <4> QED
        BY <1>1, <1>21, <1>22, <2>1, <2>2, <4>1, Reads DEF Bounded, Held, Readable, Intact, JournalInv
    <3> QED
      BY <3>1, <3>2, <3>3, <3>4, <3>5 DEF JournalInv
  <2>3. ASSUME harms = 0 /\ harms' = 1,
              lock' = None /\ step' = "idle" /\ moved' = FALSE,
              acked' = IF snap > acked THEN snap ELSE acked,
              loaded' = TRUE,
              UNCHANGED <<mem, snap, primary, secondary, temporary>>
       PROVE  JournalInv'
    <3>1. Journal!TypeOK'
      BY <1>1, <1>21, <1>22, <2>1, <2>3, Reads, HolderTyped
    <3>2. Bounded'
      BY <1>1, <1>21, <1>22, <2>1, <2>3, Reads DEF JournalInv, Bounded, Held, Readable
    <3>3. Held'
      BY <1>1, <1>21, <1>22, <2>1, <2>3, Reads DEF JournalInv, Bounded, Held, Readable, Intact, JournalConstants
    <3>4. harms' = 0 => Intact'
      BY <1>1, <1>21, <1>22, <2>1, <2>3, Reads DEF JournalInv, Bounded, Held, Readable, Intact
    <3>5. step' \in {"idle", "read"} => Readable' \/ (Journal!Read' = None /\ (step' = "idle" => ~loaded'))
      <4>1. harms = 0 /\ step # "read" => Readable
        BY <2>1, IntactReads
      <4> QED
        BY <1>1, <1>21, <1>22, <2>1, <2>3, <4>1, Reads DEF Bounded, Held, Readable, Intact, JournalInv
    <3> QED
      BY <3>1, <3>2, <3>3, <3>4, <3>5 DEF JournalInv
  <2> QED
    BY <1>2, <1>10, <2>1, <2>2, <2>3 DEF Journal!Finish, Journal!At
<1> QED
  BY <1>3, <1>4, <1>5, <1>6, <1>7, <1>8, <1>9, <1>10 DEF Journal!HolderStep

\* A crash, a damaged file and a later version of the program.
LEMMA WorldInv ==
    ASSUME JournalConstants, JournalInv, Journal!Crash \/ Journal!Damage \/ Journal!Upgrade
    PROVE  JournalInv'
<1>1. /\ Journal!TypeOK /\ Bounded /\ Held /\ harms \in 0..1 /\ mem \in Nat /\ acked \in Nat
      /\ UNCHANGED <<mem, snap, secondary, temporary, acked>>
  BY DEF JournalInv, Journal!TypeOK, Bounded, Journal!Crash, Journal!Damage, Journal!Upgrade, Journal!files
<1>2. Journal!TypeOK' 
  <2>1. waiting' \in SUBSET Writers /\ lock' \in Writers \cup {Loader, None} /\ step' \in Journal!Steps
    BY <1>1 DEF Journal!TypeOK, Journal!Crash, Journal!Damage, Journal!Upgrade, Journal!Release, Journal!Steps
  <2>2. primary' \in Journal!File /\ secondary' \in Journal!File /\ temporary' \in Journal!File
    BY <1>1 DEF Journal!TypeOK, Journal!Crash, Journal!Damage, Journal!Upgrade, Journal!files, Journal!File
  <2>3. /\ loaded' = loaded \/ loaded' = FALSE
        /\ moved' = moved \/ moved' = FALSE
    BY DEF Journal!Crash, Journal!Damage, Journal!Upgrade, Journal!Release
  <2>4. harms' = harms \/ (harms = 0 /\ harms' = 1)
    BY <1>1 DEF Journal!Crash, Journal!Damage, Journal!Upgrade, Journal!Fault
  <2>5. loaded' \in BOOLEAN /\ moved' \in BOOLEAN
    BY <1>1, <2>3 DEF Journal!TypeOK
  <2> QED
    BY <1>1, <2>1, <2>2, <2>4, <2>5 DEF Journal!TypeOK, Journal!Version
<1>3. CASE Journal!Crash
  <2>1. /\ harms = 0 /\ harms' = 1 /\ loaded' = FALSE /\ waiting' = {} /\ lock' = None
        /\ step' = "idle" /\ UNCHANGED primary
    BY <1>1, <1>3 DEF Journal!Crash, Journal!Fault, Journal!Release, Journal!files
  <2>2. Journal!Read' = Journal!Read
    BY <1>1, <2>1, Reads
  <2>3. Readable \/ Journal!Read = None
    BY <2>1, IntactReads DEF JournalInv
  <2> QED
    BY <1>1, <1>2, <2>1, <2>2, <2>3 DEF JournalInv, Bounded, Held, Readable
<1>4. CASE Journal!Damage
  <2>1. /\ harms = 0 /\ harms' = 1 /\ lock = None /\ ~loaded /\ primary' = Torn
        /\ UNCHANGED <<loaded, waiting, lock, step, moved>>
    BY <1>1, <1>4 DEF Journal!Damage, Journal!Fault
  <2>2. step = "idle" /\ secondary = None
    BY <2>1 DEF JournalInv, Held, Intact
  <2>3. Journal!Read' = None
    BY <1>1, <2>1, <2>2, Reads
  <2> QED
    BY <1>1, <1>2, <2>1, <2>2, <2>3 DEF JournalInv, Bounded, Held, JournalConstants
<1>5. CASE Journal!Upgrade
  <2>1. /\ lock = None /\ ~loaded /\ primary' = Newer
        /\ UNCHANGED <<loaded, waiting, lock, step, moved, harms>>
    BY <1>1, <1>5 DEF Journal!Upgrade
  <2>2. step = "idle"
    BY <2>1 DEF JournalInv, Held
  <2>3. Journal!Read' = None
    BY <1>1, <2>1, Reads
  <2>4. harms' = 0 => Intact'
    BY <1>1, <2>1, <2>2 DEF JournalInv, Intact, JournalConstants
  <2> QED
    BY <1>1, <1>2, <2>1, <2>2, <2>3, <2>4 DEF JournalInv, Bounded, Held, JournalConstants
<1> QED
  BY <1>3, <1>4, <1>5

LEMMA JournalNext ==
    ASSUME JournalConstants, JournalInv, Journal!Next \/ UNCHANGED journalVars
    PROVE  JournalInv'
BY CallersInv, HolderInv, WorldInv DEF Journal!Next

\* What the files promise, and that a step keeps the promise of DurableList.
LEMMA JournalCurrent == JournalConstants /\ JournalInv => Journal!FilesAreCurrent
<1> SUFFICES ASSUME JournalConstants, JournalInv PROVE Journal!FilesAreCurrent
  OBVIOUS
<1>1. Journal!SavedOnDisk
  BY DEF JournalInv, Journal!SavedOnDisk, Held, Readable, JournalConstants
<1>2. Journal!SavesInOrder
  BY DEF JournalInv, Journal!SavesInOrder, Journal!At, Journal!Version, Held
<1> QED
  BY <1>1, <1>2 DEF Journal!FilesAreCurrent

LEMMA JournalPromises ==
    ASSUME JournalConstants, JournalInv, Journal!Next \/ UNCHANGED journalVars
    PROVE  /\ [Journal!Promise!Next]_(Journal!Promise!vars)
           /\ primary = Newer => primary' = Newer
<1>1. Bounded /\ Held
  BY DEF JournalInv
<1>2. CASE Journal!Patch
  BY <1>2 DEF Journal!Patch, Journal!Promise!Next, Journal!Promise!Change, Journal!files
<1>3. CASE Journal!Finish
  <2>1. acked' \in acked..mem /\ mem' = mem /\ primary' = primary
    BY <1>1, <1>3 DEF Journal!Finish, Journal!At, Bounded, Held
  <2> QED
    BY <2>1 DEF Journal!Promise!Next, Journal!Promise!Acknowledge
<1>4. CASE Journal!ReadFiles
  <2>1. acked' = acked /\ (mem' = mem \/ mem' \in acked..mem) /\ primary' = primary
    BY <1>1, <1>4, Reads DEF Journal!ReadFiles, Journal!At, Bounded, Journal!files, JournalInv, Readable
  <2> QED
    BY <2>1 DEF Journal!Promise!Next, Journal!Promise!Restart, Journal!Promise!vars
<1>5. CASE UNCHANGED <<mem, acked>> /\ (primary = Newer => primary' = Newer)
  BY <1>5 DEF Journal!Promise!vars
<1>6. ~Journal!Patch /\ ~Journal!Finish /\ ~Journal!ReadFiles => UNCHANGED <<mem, acked>>
  BY DEF Journal!Next, Journal!CallerStep, Journal!HolderStep, Journal!Quit, Journal!Crash,
     Journal!Damage, Journal!Upgrade, Journal!Load, Journal!Persist, Journal!Lock, Journal!Snapshot,
     Journal!CreateTemporary, Journal!WriteTemporary, Journal!DropBackup, Journal!MoveCurrent,
     Journal!CommitTemporary, journalVars
<1>7. ~Journal!Patch /\ ~Journal!Finish /\ ~Journal!ReadFiles => (primary = Newer => primary' = Newer)
  BY <1>1 DEF Held, JournalConstants, Journal!Version, Journal!Next, Journal!CallerStep, Journal!HolderStep, Journal!Quit, Journal!Crash,
     Journal!Damage, Journal!Upgrade, Journal!Load, Journal!Persist, Journal!Lock, Journal!Snapshot,
     Journal!CreateTemporary, Journal!WriteTemporary, Journal!DropBackup, Journal!MoveCurrent,
     Journal!CommitTemporary, journalVars, Journal!At, Journal!files
<1> QED
  BY <1>2, <1>3, <1>4, <1>5, <1>6, <1>7

-------------------------------------------------------------------------------
(***************************************************************************)
(* The components beside each other.                                       *)
(***************************************************************************)
PartInv == driven = "journal" => JournalInv

LEMMA PartsNext ==
    ASSUME JournalConstants, PartInv, [Next]_vars
    PROVE  /\ PartInv' /\ driven' = driven
           /\ driven = "journal" => Journal!Next \/ UNCHANGED journalVars
           /\ driven # "journal" => UNCHANGED journalVars
<1>1. driven' = driven
  BY DEF Next, vars
<1>2. driven = "journal" => Journal!Next \/ UNCHANGED journalVars
  BY DEF Next, vars
<1>3. driven # "journal" => UNCHANGED journalVars
  BY DEF Next, vars
<1> QED
  BY <1>1, <1>2, <1>3, JournalNext DEF PartInv

\* The journal implements DurableList: no restart brings back a list older than one that was
\* acknowledged, or one that was never held, although a call fails, the program crashes or a
\* file is damaged, once; between writes the files hold what was acknowledged, and the journal
\* of a later version is left alone.  For any number of writers and changes.
THEOREM JournalPromiseKept == JournalConstants => (Spec => JournalIsKept)
<1> SUFFICES ASSUME JournalConstants PROVE Spec => JournalIsKept
  OBVIOUS
<1>1. Init => PartInv
  BY JournalInit DEF Init, PartInv
<1>2. Init => Journal!Promise!Init
  BY DEF Init, Journal!Init, Journal!Promise!Init
<1>3. PartInv /\ [Next]_vars => PartInv'
  BY PartsNext
<1>4. PartInv /\ [Next]_vars => [Journal!Promise!Next]_(Journal!Promise!vars)
  BY PartsNext, JournalPromises DEF PartInv, journalVars, Journal!Promise!vars
<1>5. PartInv /\ [Next]_vars => [primary = Newer => primary' = Newer]_(Journal!vars)
  BY PartsNext, JournalPromises DEF PartInv, journalVars
<1>6. PartInv => (driven = "journal" => Journal!FilesAreCurrent)
  BY JournalCurrent DEF PartInv
<1> QED
  BY <1>1, <1>2, <1>3, <1>4, <1>5, <1>6, PTL
     DEF Spec, JournalIsKept, Journal!JournalIsKept, Journal!KeepsPromise, Journal!NewerKept,
         Journal!Promise!Spec

-------------------------------------------------------------------------------
(***************************************************************************)
(* Backups.                                                                *)
(***************************************************************************)
BackupConstants == {BackupEdits, BackupMoves, BackupPuts, BackupFaults} \subseteq Nat

Steps == {"idle", "gets", "exports", "puts", "imports", "saves"}
Synchronisations ==
    [at : Steps, mode : {"none"} \cup Backup!Modes, location : Locations, last : Nat,
     head : Nat, tag : Nat, content : Backup!Contents]

BackupTypes ==
    /\ remote \in [Locations -> [tag : Nat, content : Backup!Contents]]
    /\ local \in [Devices -> Backup!Contents]
    /\ config \in [Devices -> [location : Locations, last : Nat]]
    /\ call \in [Devices -> Synchronisations]
    /\ known \in [Devices -> SUBSET Nat]
    /\ etags \in Nat /\ edits \in 0..BackupEdits /\ moves \in Nat /\ faults \in Nat

\* ETags are given out once, and nothing names one that was not given out.
TagsGiven ==
    /\ \A l \in Locations : remote[l].tag <= etags
    /\ \A d \in Devices : /\ call[d].tag <= etags /\ call[d].head <= etags
                          /\ call[d].last <= etags /\ config[d].last <= etags
                          /\ \A t \in known[d] : 1 <= t /\ t <= etags

\* A location without an object has no connections.
AbsentIsEmpty == \A l \in Locations : remote[l].tag = 0 => remote[l].content = Backup!Empty

\* A merge begins with the content of the version it will replace.
MergePrepared ==
    \A d \in Devices : call[d].mode = "merge" =>
        /\ call[d].at = "exports" => call[d].tag = 0
        /\ call[d].at = "puts" /\ remote[call[d].location].tag = call[d].tag =>
             \A c \in Connections :
                 remote[call[d].location].content[c] # 0 => call[d].content[c] # 0

\* What a device records as its last synchronisation it wrote or downloaded.
RecordedIsKnown ==
    \A d \in Devices :
        /\ config[d].last # 0 => config[d].last \in known[d]
        /\ call[d].last # 0 => call[d].last \in known[d]
        /\ call[d].at = "saves" /\ call[d].tag # 0 => call[d].tag \in known[d]
        /\ call[d].at = "gets" => call[d].mode = "merge"
        /\ call[d].at = "imports" => call[d].tag # 0
        /\ call[d].at \in {"exports", "puts"} /\ call[d].mode = "overwrite" =>
             call[d].head = call[d].tag

BackupInv == BackupTypes /\ TagsGiven /\ AbsentIsEmpty /\ MergePrepared /\ RecordedIsKnown

LEMMA BackupInit == BackupConstants /\ Backup!Init => BackupInv
<1> SUFFICES ASSUME BackupConstants, Backup!Init PROVE BackupInv
  OBVIOUS
<1> USE DEF Backup!Init, Backup!NoTag, Backup!Empty, Backup!Rest
<1>1. Backup!Empty \in Backup!Contents /\ 0 \in 0..BackupEdits
  BY DEF BackupConstants, Backup!Contents
<1>2. \A d \in Devices : Backup!Rest \in Synchronisations
  <2> TAKE d \in Devices
  <2>1. config[d].location \in Locations
    OBVIOUS
  <2>2. (CHOOSE l \in Locations : TRUE) \in Locations
    BY <2>1
  <2> QED
    BY <1>1, <2>2 DEF Synchronisations, Steps
<1>3. BackupTypes
  BY <1>1, <1>2 DEF BackupTypes
<1>4. TagsGiven /\ AbsentIsEmpty /\ MergePrepared /\ RecordedIsKnown
  BY DEF TagsGiven, AbsentIsEmpty, MergePrepared, RecordedIsKnown
<1> QED
  BY <1>3, <1>4 DEF BackupInv

LEMMA MergedContents ==
    ASSUME NEW a \in Backup!Contents, NEW b \in Backup!Contents
    PROVE  /\ Backup!Merged(a, b) \in Backup!Contents
           /\ \A c \in Connections : a[c] # 0 => Backup!Merged(a, b)[c] # 0
BY DEF Backup!Merged, Backup!Contents

LEMMA EmptyContents == BackupConstants => Backup!Empty \in Backup!Contents
BY DEF BackupConstants, Backup!Contents, Backup!Empty

LEMMA RestTyped ==
    ASSUME BackupConstants, NEW d \in Devices, config[d].location \in Locations
    PROVE  Backup!Rest \in Synchronisations
<1>1. (CHOOSE l \in Locations : TRUE) \in Locations
  OBVIOUS
<1> QED
  BY <1>1, EmptyContents DEF Synchronisations, Steps, Backup!Rest, Backup!NoTag

LEMMA BackupKeepsTypes ==
    ASSUME BackupConstants, BackupTypes, Backup!Next
    PROVE  BackupTypes'
<1> USE DEF BackupTypes
<1> PICK d \in Devices :
        \/ \E c \in Connections : Backup!Edit(d, c)
        \/ \E l \in Locations : Backup!SaveConfig(d, l)
        \/ \E m \in Backup!Modes : Backup!Upload(d, m) \/ Backup!Download(d, m)
        \/ Backup!Get(d) \/ Backup!Export(d) \/ Backup!Refused(d) \/ Backup!Conflict(d)
        \/ Backup!Put(d) \/ Backup!Import(d) \/ Backup!Save(d)
  BY DEF Backup!Next
<1>0. Backup!Rest \in Synchronisations
  BY RestTyped
<1>1. ASSUME NEW c \in Connections, Backup!Edit(d, c) PROVE BackupTypes'
  <2> PICK new \in {0, edits + 1} : local' = [local EXCEPT ![d][c] = new]
    BY <1>1 DEF Backup!Edit
  <2>1. new \in 0..BackupEdits /\ edits' \in 0..BackupEdits
    BY <1>1 DEF Backup!Edit, BackupConstants
  <2>2. local' \in [Devices -> Backup!Contents]
    BY <2>1 DEF Backup!Contents
  <2> QED
    BY <1>1, <2>1, <2>2 DEF Backup!Edit
<1>2. ASSUME NEW l \in Locations, Backup!SaveConfig(d, l) PROVE BackupTypes'
  BY <1>2 DEF Backup!SaveConfig
<1>3. ASSUME NEW m \in Backup!Modes, Backup!Upload(d, m) PROVE BackupTypes'
  <2>1. call'[d] \in Synchronisations /\ call' \in [Devices -> Synchronisations]
    BY <1>3, EmptyContents DEF Backup!Upload, Synchronisations, Steps
  <2> QED
    BY <1>3, <2>1 DEF Backup!Upload, Backup!counts
<1>4. ASSUME NEW m \in Backup!Modes, Backup!Download(d, m) PROVE BackupTypes'
  <2>1. call' \in [Devices -> Synchronisations]
    BY <1>4 DEF Backup!Download, Synchronisations, Steps, Backup!NoTag
  <2> QED
    BY <1>4, <2>1 DEF Backup!Download, Backup!counts
<1>5. CASE Backup!Get(d)
  <2>1. call[d].location \in Locations
    BY DEF Synchronisations
  <2>2. Backup!Merged(remote[call[d].location].content, local[d]) \in Backup!Contents
    BY <2>1, MergedContents
  <2>3. LET r1 == [call[d] EXCEPT !.at = "puts"]
            r2 == [r1 EXCEPT !.tag = remote[call[d].location].tag]
            r3 == [r2 EXCEPT !.content =
                       Backup!Merged(remote[call[d].location].content, local[d])]
        IN  r3 \in Synchronisations /\ call'[d] = r3
    <3> DEFINE r1 == [call[d] EXCEPT !.at = "puts"]
               r2 == [r1 EXCEPT !.tag = remote[call[d].location].tag]
               r3 == [r2 EXCEPT !.content =
                          Backup!Merged(remote[call[d].location].content, local[d])]
    <3>1. r1 \in Synchronisations
      BY DEF Synchronisations, Steps
    <3>2. r2 \in Synchronisations
      BY <2>1, <3>1 DEF Synchronisations
    <3>3. r3 \in Synchronisations
      BY <2>2, <3>2 DEF Synchronisations
    <3>4. call'[d] = r3
      BY <1>5 DEF Backup!Get
    <3> QED
      BY <3>3, <3>4
  <2>4. call' \in [Devices -> Synchronisations]
    BY <1>5, <2>3 DEF Backup!Get
  <2> QED
    BY <1>5, <2>4 DEF Backup!Get, Backup!counts
<1>6. CASE Backup!Export(d)
  <2>1. call' \in [Devices -> Synchronisations]
    BY <1>6 DEF Backup!Export, Synchronisations, Steps
  <2> QED
    BY <1>6, <2>1 DEF Backup!Export, Backup!counts
<1>7. CASE Backup!Refused(d) \/ Backup!Conflict(d)
  BY <1>0, <1>7 DEF Backup!Refused, Backup!Conflict, Backup!Ends, Backup!counts
<1>8. CASE Backup!Put(d)
  <2>1. call[d].location \in Locations /\ call[d].content \in Backup!Contents
    BY DEF Synchronisations
  <2>2. etags + 1 \in Nat
    OBVIOUS
  <2>3. call' \in [Devices -> Synchronisations]
    <3>1. CASE Backup!Ends(d)
      BY <1>0, <3>1 DEF Backup!Ends
    <3>2. CASE call' = [call EXCEPT ![d].at = "saves", ![d].tag = etags + 1]
      <4> DEFINE r1 == [call[d] EXCEPT !.at = "saves"]
                 r2 == [r1 EXCEPT !.tag = etags + 1]
      <4>1. r1 \in Synchronisations
        BY DEF Synchronisations, Steps
      <4>2. r2 \in Synchronisations
        BY <2>2, <4>1 DEF Synchronisations
      <4>3. call'[d] = r2
        BY <3>2
      <4> QED
        BY <3>2, <4>2, <4>3
    <3> QED
      BY <1>8, <3>1, <3>2 DEF Backup!Put
  <2>4. remote' \in [Locations -> [tag : Nat, content : Backup!Contents]]
    BY <1>8, <2>1, <2>2 DEF Backup!Put
  <2>5. known' \in [Devices -> SUBSET Nat]
    BY <1>8, <2>2 DEF Backup!Put
  <2>6. faults' \in Nat /\ etags' \in Nat /\ UNCHANGED <<local, config, edits, moves>>
    BY <1>8 DEF Backup!Put
  <2> QED
    BY <2>3, <2>4, <2>5, <2>6
<1>9. CASE Backup!Import(d)
  <2>1. call[d].tag \in Nat /\ call[d].content \in Backup!Contents
    BY DEF Synchronisations
  <2>2. Backup!Merged(local[d], call[d].content) \in Backup!Contents
    BY <2>1, MergedContents
  <2>3. call' \in [Devices -> Synchronisations]
    <3>1. CASE Backup!Ends(d)
      BY <1>0, <3>1 DEF Backup!Ends
    <3>2. CASE call' = [call EXCEPT ![d].at = "saves"]
      BY <3>2 DEF Synchronisations, Steps
    <3> QED
      BY <1>9, <3>1, <3>2 DEF Backup!Import
  <2>4. known' \in [Devices -> SUBSET Nat]
    BY <1>9, <2>1 DEF Backup!Import
  <2>5. local' \in [Devices -> Backup!Contents]
    <3>1. \A cs \in SUBSET Connections :
             [c \in Connections |-> IF c \in cs THEN Backup!Merged(local[d], call[d].content)[c]
                                    ELSE local[d][c]] \in Backup!Contents
      BY <2>2 DEF Backup!Contents
    <3> QED
      BY <1>9, <2>1, <2>2, <3>1 DEF Backup!Import
  <2>6. faults' \in Nat /\ UNCHANGED <<remote, config, etags, edits, moves>>
    BY <1>9 DEF Backup!Import
  <2> QED
    BY <2>3, <2>4, <2>5, <2>6
<1>10. CASE Backup!Save(d)
  <2>1. config' \in [Devices -> [location : Locations, last : Nat]]
    BY <1>10 DEF Backup!Save, Synchronisations
  <2>2. faults' \in Nat /\ UNCHANGED <<remote, local, known, etags, edits, moves>>
    BY <1>10 DEF Backup!Save
  <2>3. call' \in [Devices -> Synchronisations]
    BY <1>0, <1>10 DEF Backup!Save, Backup!Ends
  <2> QED
    BY <2>1, <2>2, <2>3
<1> QED
  BY <1>1, <1>2, <1>3, <1>4, <1>5, <1>6, <1>7, <1>8, <1>9, <1>10

\* What a step of one device leaves of the others.
LEMMA Others ==
    ASSUME BackupTypes, NEW d \in Devices, NEW e \in Devices, e # d,
           \/ \E m \in Backup!Modes : Backup!Upload(d, m) \/ Backup!Download(d, m)
           \/ Backup!Get(d) \/ Backup!Export(d) \/ Backup!Refused(d) \/ Backup!Conflict(d)
           \/ Backup!Put(d) \/ Backup!Import(d) \/ Backup!Save(d)
    PROVE  call'[e] = call[e] /\ config'[e] = config[e] /\ known'[e] = known[e]
BY DEF BackupTypes, Backup!Upload, Backup!Download, Backup!Get, Backup!Export, Backup!Refused,
       Backup!Conflict, Backup!Put, Backup!Import, Backup!Save, Backup!Ends

\* After its step a device's call and configuration are sound, when the object stays.
CallSound(d) ==
    /\ call'[d].tag <= etags /\ call'[d].head <= etags /\ call'[d].last <= etags
    /\ config'[d].last <= etags /\ \A t \in known'[d] : 1 <= t /\ t <= etags
    /\ (call'[d].mode = "merge" =>
        /\ call'[d].at = "exports" => call'[d].tag = 0
        /\ call'[d].at = "puts" /\ remote[call'[d].location].tag = call'[d].tag =>
             \A c \in Connections :
                 remote[call'[d].location].content[c] # 0 => call'[d].content[c] # 0)
    /\ config'[d].last # 0 => config'[d].last \in known'[d]
    /\ call'[d].last # 0 => call'[d].last \in known'[d]
    /\ call'[d].at = "saves" /\ call'[d].tag # 0 => call'[d].tag \in known'[d]
    /\ call'[d].at = "gets" => call'[d].mode = "merge"
    /\ call'[d].at = "imports" => call'[d].tag # 0
    /\ call'[d].at \in {"exports", "puts"} /\ call'[d].mode = "overwrite" =>
         call'[d].head = call'[d].tag

LEMMA BackupKeeps ==
    ASSUME BackupConstants, BackupInv, Backup!Next
    PROVE  (TagsGiven /\ AbsentIsEmpty /\ MergePrepared /\ RecordedIsKnown)'
<1> USE DEF BackupInv, BackupTypes
<1> PICK d \in Devices :
        \/ \E c \in Connections : Backup!Edit(d, c)
        \/ \E l \in Locations : Backup!SaveConfig(d, l)
        \/ \E m \in Backup!Modes : Backup!Upload(d, m) \/ Backup!Download(d, m)
        \/ Backup!Get(d) \/ Backup!Export(d) \/ Backup!Refused(d) \/ Backup!Conflict(d)
        \/ Backup!Put(d) \/ Backup!Import(d) \/ Backup!Save(d)
  BY DEF Backup!Next
<1>t. BackupTypes'
  BY BackupKeepsTypes
<1>i. /\ call[d].location \in Locations /\ config[d].location \in Locations
      /\ call[d].tag \in Nat /\ call[d].last \in Nat /\ call[d].head \in Nat
      /\ config[d].last \in Nat /\ etags \in Nat /\ known[d] \subseteq Nat
      /\ call[d].content \in Backup!Contents /\ call[d].at \in Steps
      /\ \A l \in Locations : remote[l].tag \in Nat /\ remote[l].content \in Backup!Contents
  BY DEF Synchronisations
<1>1. ASSUME NEW c \in Connections, Backup!Edit(d, c)
      PROVE (TagsGiven /\ AbsentIsEmpty /\ MergePrepared /\ RecordedIsKnown)'
  BY <1>1 DEF Backup!Edit, TagsGiven, AbsentIsEmpty, MergePrepared, RecordedIsKnown
<1>2. ASSUME NEW l \in Locations, Backup!SaveConfig(d, l)
      PROVE (TagsGiven /\ AbsentIsEmpty /\ MergePrepared /\ RecordedIsKnown)'
  <2>1. \A e \in Devices : config'[e].last = config[e].last
    BY <1>2 DEF Backup!SaveConfig
  <2> QED
    BY <1>2, <2>1 DEF Backup!SaveConfig, TagsGiven, AbsentIsEmpty, MergePrepared, RecordedIsKnown
\* The calls of this device, when the object stays.
<1>a. ASSUME UNCHANGED <<remote, etags>>,
             \A e \in Devices \ {d} : /\ call'[e] = call[e] /\ config'[e] = config[e]
                                       /\ known'[e] = known[e],
             CallSound(d)
      PROVE (TagsGiven /\ AbsentIsEmpty /\ MergePrepared /\ RecordedIsKnown)'
  <2>1. TagsGiven'
    BY <1>a DEF CallSound, TagsGiven
  <2>2. AbsentIsEmpty'
    BY <1>a DEF AbsentIsEmpty
  <2>3. MergePrepared'
    BY <1>a DEF CallSound, MergePrepared
  <2>4. RecordedIsKnown'
    <3>1. \A e \in Devices \ {d} :
             /\ config'[e].last # 0 => config'[e].last \in known'[e]
             /\ call'[e].last # 0 => call'[e].last \in known'[e]
             /\ call'[e].at = "saves" /\ call'[e].tag # 0 => call'[e].tag \in known'[e]
             /\ call'[e].at = "gets" => call'[e].mode = "merge"
             /\ call'[e].at = "imports" => call'[e].tag # 0
             /\ call'[e].at \in {"exports", "puts"} /\ call'[e].mode = "overwrite" =>
                  call'[e].head = call'[e].tag
      BY <1>a DEF RecordedIsKnown
    <3>2. \A e \in Devices : e = d \/ e \in Devices \ {d}
      OBVIOUS
    <3> QED
      BY <1>a, <3>1, <3>2 DEF CallSound, RecordedIsKnown
  <2> QED
    BY <2>1, <2>2, <2>3, <2>4
<1>r. /\ TagsGiven => /\ call[d].tag <= etags /\ call[d].head <= etags /\ call[d].last <= etags
                       /\ config[d].last <= etags /\ \A t \in known[d] : 1 <= t /\ t <= etags
                       /\ \A l \in Locations : remote[l].tag <= etags
      /\ MergePrepared => (call[d].mode = "merge" =>
            /\ call[d].at = "exports" => call[d].tag = 0
            /\ call[d].at = "puts" /\ remote[call[d].location].tag = call[d].tag =>
                 \A c \in Connections :
                     remote[call[d].location].content[c] # 0 => call[d].content[c] # 0)
      /\ RecordedIsKnown =>
            /\ config[d].last # 0 => config[d].last \in known[d]
            /\ call[d].last # 0 => call[d].last \in known[d]
            /\ call[d].at = "saves" /\ call[d].tag # 0 => call[d].tag \in known[d]
            /\ call[d].at = "gets" => call[d].mode = "merge"
            /\ call[d].at = "imports" => call[d].tag # 0
            /\ call[d].at \in {"exports", "puts"} /\ call[d].mode = "overwrite" =>
                 call[d].head = call[d].tag
  BY DEF TagsGiven, MergePrepared, RecordedIsKnown
<1>l. /\ remote[config[d].location].tag \in Nat /\ remote[call[d].location].tag \in Nat
      /\ remote[config[d].location].tag <= etags /\ remote[call[d].location].tag <= etags
      /\ 0 <= etags
  BY <1>i DEF TagsGiven
<1>e. Backup!Rest.at = "idle" /\ Backup!Rest.mode = "none" /\ Backup!Rest.last = 0
      /\ Backup!Rest.head = 0 /\ Backup!Rest.tag = 0
  BY DEF Backup!Rest, Backup!NoTag
<1>3. ASSUME NEW m \in Backup!Modes, Backup!Upload(d, m)
      PROVE (TagsGiven /\ AbsentIsEmpty /\ MergePrepared /\ RecordedIsKnown)'
  <2>1. UNCHANGED <<remote, local, config, known, etags>>
    BY <1>3 DEF Backup!Upload, Backup!counts
  <2>2. /\ call'[d].at = (IF m = "merge" /\ remote[config[d].location].tag # 0 THEN "gets" ELSE "exports")
        /\ call'[d].mode = m /\ call'[d].last = config[d].last
        /\ call'[d].head = remote[config[d].location].tag
        /\ call'[d].tag = remote[config[d].location].tag
    BY <1>3 DEF Backup!Upload, Backup!NoTag
  <2>3. \A e \in Devices \ {d} : call'[e] = call[e]
    BY <1>3, Others
  <2>s. CallSound(d)
    <3>1. call'[d].tag <= etags /\ call'[d].head <= etags /\ call'[d].last <= etags
      BY <1>l, <1>i, <1>r, <2>1, <2>2, <2>3
    <3>2. config'[d].last <= etags /\ \A t \in known'[d] : 1 <= t /\ t <= etags
      BY <1>i, <1>r, <2>1, <2>2, <2>3
    <3>3. call'[d].mode = "merge" /\ call'[d].at = "exports" => call'[d].tag = 0
      BY <1>i, <1>r, <2>1, <2>2, <2>3
    <3>4. call'[d].mode = "merge" /\ call'[d].at = "puts" => \A c \in Connections :
           remote[call'[d].location].content[c] # 0 => call'[d].content[c] # 0
      BY <1>i, <1>r, <2>1, <2>2, <2>3
    <3>5. config'[d].last # 0 => config'[d].last \in known'[d]
      BY <1>i, <1>r, <2>1, <2>2, <2>3
    <3>6. call'[d].last # 0 => call'[d].last \in known'[d]
      BY <1>i, <1>r, <2>1, <2>2, <2>3
    <3>7. call'[d].at = "saves" /\ call'[d].tag # 0 => call'[d].tag \in known'[d]
      BY <1>i, <1>r, <2>1, <2>2, <2>3
    <3>8. call'[d].at = "gets" => call'[d].mode = "merge"
      BY <1>i, <1>r, <2>1, <2>2, <2>3
    <3>9. call'[d].at = "imports" => call'[d].tag # 0
      BY <1>i, <1>r, <2>1, <2>2, <2>3
    <3>10. call'[d].at \in {"exports", "puts"} /\ call'[d].mode = "overwrite" => call'[d].head = call'[d].tag
      BY <1>i, <1>r, <2>1, <2>2, <2>3
    <3> QED
      BY <3>1, <3>2, <3>3, <3>4, <3>5, <3>6, <3>7, <3>8, <3>9, <3>10 DEF CallSound
  <2> QED
    BY <1>a, <2>s, <2>1, <2>3
<1>4. ASSUME NEW m \in Backup!Modes, Backup!Download(d, m)
      PROVE (TagsGiven /\ AbsentIsEmpty /\ MergePrepared /\ RecordedIsKnown)'
  <2>1. UNCHANGED <<remote, local, config, known, etags>>
    BY <1>4 DEF Backup!Download, Backup!counts
  <2>2. /\ call'[d].at = "imports" /\ call'[d].last = config[d].last /\ call'[d].head = 0
        /\ call'[d].tag = remote[config[d].location].tag /\ call'[d].tag # 0
    BY <1>4 DEF Backup!Download, Backup!NoTag
  <2>3. \A e \in Devices \ {d} : call'[e] = call[e]
    BY <1>4, Others
  <2>s. CallSound(d)
    <3>1. call'[d].tag <= etags /\ call'[d].head <= etags /\ call'[d].last <= etags
      BY <1>l, <1>i, <1>r, <2>1, <2>2, <2>3
    <3>2. config'[d].last <= etags /\ \A t \in known'[d] : 1 <= t /\ t <= etags
      BY <1>i, <1>r, <2>1, <2>2, <2>3
    <3>3. call'[d].mode = "merge" /\ call'[d].at = "exports" => call'[d].tag = 0
      BY <1>i, <1>r, <2>1, <2>2, <2>3
    <3>4. call'[d].mode = "merge" /\ call'[d].at = "puts" => \A c \in Connections :
           remote[call'[d].location].content[c] # 0 => call'[d].content[c] # 0
      BY <1>i, <1>r, <2>1, <2>2, <2>3
    <3>5. config'[d].last # 0 => config'[d].last \in known'[d]
      BY <1>i, <1>r, <2>1, <2>2, <2>3
    <3>6. call'[d].last # 0 => call'[d].last \in known'[d]
      BY <1>i, <1>r, <2>1, <2>2, <2>3
    <3>7. call'[d].at = "saves" /\ call'[d].tag # 0 => call'[d].tag \in known'[d]
      BY <1>i, <1>r, <2>1, <2>2, <2>3
    <3>8. call'[d].at = "gets" => call'[d].mode = "merge"
      BY <1>i, <1>r, <2>1, <2>2, <2>3
    <3>9. call'[d].at = "imports" => call'[d].tag # 0
      BY <1>i, <1>r, <2>1, <2>2, <2>3
    <3>10. call'[d].at \in {"exports", "puts"} /\ call'[d].mode = "overwrite" => call'[d].head = call'[d].tag
      BY <1>i, <1>r, <2>1, <2>2, <2>3
    <3> QED
      BY <3>1, <3>2, <3>3, <3>4, <3>5, <3>6, <3>7, <3>8, <3>9, <3>10 DEF CallSound
  <2> QED
    BY <1>a, <2>s, <2>1, <2>3
<1>5. CASE Backup!Get(d)
  <2>1. UNCHANGED <<remote, local, config, known, etags>>
    BY <1>5 DEF Backup!Get, Backup!counts
  <2>2. /\ call[d].at = "gets"
        /\ call'[d].at = "puts" /\ call'[d].last = call[d].last /\ call'[d].head = call[d].head
        /\ call'[d].mode = call[d].mode /\ call'[d].location = call[d].location
        /\ call'[d].tag = remote[call[d].location].tag
        /\ call'[d].content = Backup!Merged(remote[call[d].location].content, local[d])
    BY <1>5 DEF Backup!Get, Synchronisations
  <2>3. \A e \in Devices \ {d} : call'[e] = call[e]
    BY <1>5, Others
  <2>4. \A c \in Connections :
           remote[call[d].location].content[c] # 0 => call'[d].content[c] # 0
    BY <1>i, <2>2, MergedContents
  <2>5. call[d].mode # "overwrite"
    BY <2>2, <1>r DEF BackupInv
  <2>s. CallSound(d)
    <3>1. call'[d].tag <= etags /\ call'[d].head <= etags /\ call'[d].last <= etags
      BY <1>l, <1>i, <1>r, <2>1, <2>2, <2>3, <2>4, <2>5
    <3>2. config'[d].last <= etags /\ \A t \in known'[d] : 1 <= t /\ t <= etags
      BY <1>i, <1>r, <2>1, <2>2, <2>3, <2>4, <2>5
    <3>3. call'[d].mode = "merge" /\ call'[d].at = "exports" => call'[d].tag = 0
      BY <1>i, <1>r, <2>1, <2>2, <2>3, <2>4, <2>5
    <3>4. call'[d].mode = "merge" /\ call'[d].at = "puts" => \A c \in Connections :
           remote[call'[d].location].content[c] # 0 => call'[d].content[c] # 0
      BY <1>i, <1>r, <2>1, <2>2, <2>3, <2>4, <2>5
    <3>5. config'[d].last # 0 => config'[d].last \in known'[d]
      BY <1>i, <1>r, <2>1, <2>2, <2>3, <2>4, <2>5
    <3>6. call'[d].last # 0 => call'[d].last \in known'[d]
      BY <1>i, <1>r, <2>1, <2>2, <2>3, <2>4, <2>5
    <3>7. call'[d].at = "saves" /\ call'[d].tag # 0 => call'[d].tag \in known'[d]
      BY <1>i, <1>r, <2>1, <2>2, <2>3, <2>4, <2>5
    <3>8. call'[d].at = "gets" => call'[d].mode = "merge"
      BY <1>i, <1>r, <2>1, <2>2, <2>3, <2>4, <2>5
    <3>9. call'[d].at = "imports" => call'[d].tag # 0
      BY <1>i, <1>r, <2>1, <2>2, <2>3, <2>4, <2>5
    <3>10. call'[d].at \in {"exports", "puts"} /\ call'[d].mode = "overwrite" => call'[d].head = call'[d].tag
      BY <1>i, <1>r, <2>1, <2>2, <2>3, <2>4, <2>5
    <3> QED
      BY <3>1, <3>2, <3>3, <3>4, <3>5, <3>6, <3>7, <3>8, <3>9, <3>10 DEF CallSound
  <2> QED
    BY <1>a, <2>s, <2>1, <2>3
<1>6. CASE Backup!Export(d)
  <2>1. UNCHANGED <<remote, local, config, known, etags>>
    BY <1>6 DEF Backup!Export, Backup!counts
  <2>2. /\ call[d].at = "exports"
        /\ call'[d].at = "puts" /\ call'[d].last = call[d].last /\ call'[d].head = call[d].head
        /\ call'[d].mode = call[d].mode /\ call'[d].location = call[d].location
        /\ call'[d].tag = call[d].tag
    BY <1>6 DEF Backup!Export, Synchronisations
  <2>3. \A e \in Devices \ {d} : call'[e] = call[e]
    BY <1>6, Others
  <2>4. remote[call[d].location].tag = 0 =>
           \A c \in Connections : remote[call[d].location].content[c] = 0
    BY <1>i DEF AbsentIsEmpty, Backup!Empty
  <2>s. CallSound(d)
    BY <1>e, <1>i, <1>r, <2>1, <2>2, <2>3, <2>4 DEF CallSound
  <2> QED
    BY <1>a, <2>s, <2>1, <2>3
<1>7. CASE Backup!Refused(d) \/ Backup!Conflict(d)
  <2>1. UNCHANGED <<remote, local, config, known, etags>> /\ call'[d] = Backup!Rest
    BY <1>7 DEF Backup!Refused, Backup!Conflict, Backup!Ends, Backup!counts
  <2>3. \A e \in Devices \ {d} : call'[e] = call[e]
    BY <1>7, Others
  <2>s. CallSound(d)
    BY <1>e, <1>i, <1>r, <2>1, <2>3 DEF CallSound
  <2> QED
    BY <1>a, <2>s, <2>1, <2>3
<1>8. CASE Backup!Put(d)
  <2>1. /\ call[d].at = "puts" /\ remote[call[d].location].tag = call[d].tag
        /\ etags' = etags + 1 /\ config' = config
        /\ known' = [known EXCEPT ![d] = @ \cup {etags + 1}]
        /\ remote' = [remote EXCEPT ![call[d].location] =
                         [tag |-> etags + 1, content |-> call[d].content]]
    BY <1>8 DEF Backup!Put, Backup!Matches
  <2>2. \/ call'[d] = Backup!Rest
        \/ /\ call'[d].at = "saves" /\ call'[d].tag = etags + 1 /\ call'[d].last = call[d].last
           /\ call'[d].head = call[d].head /\ call'[d].mode = call[d].mode
    BY <1>8 DEF Backup!Put, Backup!Ends, Synchronisations
  <2>3. \A e \in Devices \ {d} : call'[e] = call[e] /\ known'[e] = known[e]
    BY <1>8, Others
  <2>4. known'[d] = known[d] \cup {etags + 1}
    BY <2>1
  <2>5. \A e \in Devices : /\ call[e].tag <= etags /\ call[e].head <= etags
                            /\ call[e].last <= etags /\ config[e].last <= etags
                            /\ call[e].location \in Locations
                            /\ call[e].tag \in Nat /\ call[e].head \in Nat
                            /\ call[e].last \in Nat /\ config[e].last \in Nat
    BY DEF TagsGiven, Synchronisations
  <2>6. TagsGiven'
    <3>1. \A l \in Locations : remote'[l].tag <= etags + 1
      BY <1>i, <2>1 DEF TagsGiven
    <3>2. \A e \in Devices : /\ call'[e].tag <= etags + 1 /\ call'[e].head <= etags + 1
                              /\ call'[e].last <= etags + 1 /\ config'[e].last <= etags + 1
      BY <1>e, <2>1, <2>2, <2>3, <2>5
    <3>3. \A e \in Devices : \A t \in known'[e] : 1 <= t /\ t <= etags + 1
      <4> TAKE e \in Devices
      <4>1. \A t \in known[e] : t \in Nat /\ 1 <= t /\ t <= etags
        BY DEF TagsGiven
      <4>2. \A t \in known'[e] : t \in known[e] \/ t = etags + 1
        BY <2>3, <2>4
      <4> QED
        BY <1>i, <4>1, <4>2
    <3> QED
      BY <2>1, <3>1, <3>2, <3>3 DEF TagsGiven
  <2>7. AbsentIsEmpty'
    BY <1>i, <2>1 DEF AbsentIsEmpty
  <2>8. MergePrepared'
    <3> SUFFICES ASSUME NEW e \in Devices, call'[e].mode = "merge"
                 PROVE  /\ call'[e].at = "exports" => call'[e].tag = 0
                        /\ call'[e].at = "puts" /\ remote'[call'[e].location].tag = call'[e].tag =>
                             \A c \in Connections :
                                 remote'[call'[e].location].content[c] # 0 => call'[e].content[c] # 0
      BY DEF MergePrepared
    <3>1. CASE e = d
      BY <1>e, <2>2, <3>1
    <3>2. CASE e # d
      <4>1. call'[e] = call[e] /\ call[e].location \in Locations
        BY <2>3, <2>5, <3>2
      <4>2. CASE call[e].location = call[d].location
        <5>1. remote'[call[e].location].tag = etags + 1
          BY <1>i, <2>1, <4>2
        <5> QED
          BY <2>5, <4>1, <5>1 DEF MergePrepared
      <4>3. CASE call[e].location # call[d].location
        <5>1. remote'[call[e].location] = remote[call[e].location]
          BY <2>1, <4>1, <4>3
        <5> QED
          BY <4>1, <5>1 DEF MergePrepared
      <4> QED
        BY <4>2, <4>3
    <3> QED
      BY <3>1, <3>2
  <2>9. RecordedIsKnown'
    BY <1>e, <2>1, <2>2, <2>3, <2>4 DEF RecordedIsKnown
  <2> QED
    BY <2>6, <2>7, <2>8, <2>9
<1>9. CASE Backup!Import(d)
  <2>1. UNCHANGED <<remote, config, etags>>
    BY <1>9 DEF Backup!Import
  <2>2. \/ call'[d] = Backup!Rest /\ known' = known
        \/ /\ call'[d].at = "saves" /\ call'[d].tag = call[d].tag /\ call'[d].last = call[d].last
           /\ call'[d].head = call[d].head /\ call'[d].mode = call[d].mode
           /\ known'[d] = known[d] \cup {call[d].tag} /\ call[d].tag # 0
    <3>1. call[d].tag # 0
      BY <1>9, <1>r DEF Backup!Import
    <3> QED
      BY <1>9, <3>1 DEF Backup!Import, Backup!Ends, Synchronisations
  <2>3. \A e \in Devices \ {d} : call'[e] = call[e] /\ known'[e] = known[e]
    BY <1>9, Others
  <2>s. CallSound(d)
    BY <1>e, <1>i, <1>r, <2>1, <2>2, <2>3 DEF CallSound
  <2> QED
    BY <1>a, <2>s, <2>1, <2>3
<1>10. CASE Backup!Save(d)
  <2>1. UNCHANGED <<remote, known, etags>> /\ call'[d] = Backup!Rest
    BY <1>10 DEF Backup!Save, Backup!Ends
  <2>2. \/ config'[d].last = config[d].last
        \/ config'[d].last = call[d].tag /\ call[d].at = "saves"
    BY <1>10 DEF Backup!Save
  <2>3. \A e \in Devices \ {d} : call'[e] = call[e] /\ config'[e] = config[e]
    BY <1>10, Others
  <2>s. CallSound(d)
    BY <1>e, <1>i, <1>r, <2>1, <2>2, <2>3 DEF CallSound
  <2> QED
    BY <1>a, <2>s, <2>1, <2>3
<1> QED
  BY <1>1, <1>2, <1>3, <1>4, <1>5, <1>6, <1>7, <1>8, <1>9, <1>10

\* Only a Put writes, and it replaces the version that its device prepared for.
LEMMA BackupWrites ==
    ASSUME BackupInv, Backup!Next, NEW d \in Devices, Backup!Writes(d)
    PROVE  /\ call[d].at = "puts" /\ ~Backup!Refuses(d)
           /\ call[d].location \in Locations
           /\ remote[call[d].location].tag = call[d].tag
           /\ remote'[call[d].location].content = call[d].content
<1> USE DEF BackupInv, BackupTypes
<1> PICK e \in Devices :
        \/ \E c \in Connections : Backup!Edit(e, c)
        \/ \E l \in Locations : Backup!SaveConfig(e, l)
        \/ \E m \in Backup!Modes : Backup!Upload(e, m) \/ Backup!Download(e, m)
        \/ Backup!Get(e) \/ Backup!Export(e) \/ Backup!Refused(e) \/ Backup!Conflict(e)
        \/ Backup!Put(e) \/ Backup!Import(e) \/ Backup!Save(e)
  BY DEF Backup!Next
<1>1. Backup!Put(e)
  <2>1. remote' # remote
    BY DEF Backup!Writes
  <2> QED
    BY <2>1 DEF Backup!Edit, Backup!SaveConfig, Backup!Upload, Backup!Download, Backup!Get,
                Backup!Export, Backup!Refused, Backup!Conflict, Backup!Import, Backup!Save
<1>2. e = d
  <2>1. call'[d] # call[d]
    BY DEF Backup!Writes
  <2> QED
    BY <1>1, <2>1, Others
<1>3. call[d].location \in Locations
  BY DEF Synchronisations
<1> QED
  BY <1>1, <1>2, <1>3 DEF Backup!Put, Backup!Matches

LEMMA BackupKeepsOthers ==
    ASSUME BackupInv, Backup!Next, NEW d \in Devices, Backup!Writes(d)
    PROVE  /\ call[d].mode = "merge" =>
                \A c \in Connections :
                    remote[call[d].location].content[c] # 0
                        => remote'[call[d].location].content[c] # 0
           /\ call[d].mode = "overwrite" /\ call[d].last # Backup!NoTag =>
                remote[call[d].location].tag \in known[d]
<1>1. /\ call[d].at = "puts" /\ ~Backup!Refuses(d)
      /\ remote[call[d].location].tag = call[d].tag
      /\ remote'[call[d].location].content = call[d].content
  BY BackupWrites
<1>2. ASSUME call[d].mode = "merge"
      PROVE  \A c \in Connections :
                    remote[call[d].location].content[c] # 0
                        => remote'[call[d].location].content[c] # 0
  BY <1>1, <1>2 DEF BackupInv, MergePrepared
<1>3. ASSUME call[d].mode = "overwrite", call[d].last # 0
      PROVE  remote[call[d].location].tag \in known[d]
  <2>1. call[d].last = call[d].head \/ call[d].last = call[d].tag
    BY <1>1, <1>3 DEF Backup!Refuses, Backup!NoTag
  <2>2. call[d].head = call[d].tag /\ call[d].last \in known[d]
    BY <1>1, <1>3 DEF BackupInv, RecordedIsKnown
  <2> QED
    BY <1>1, <2>1, <2>2
<1> QED
  BY <1>2, <1>3 DEF Backup!NoTag

LEMMA BackupNext ==
    ASSUME BackupConstants, BackupInv, Backup!Next \/ UNCHANGED backupVars PROVE BackupInv'
<1>1. CASE Backup!Next
  BY <1>1, BackupKeepsTypes, BackupKeeps DEF BackupInv
<1>2. CASE UNCHANGED backupVars
  BY <1>2 DEF backupVars, BackupInv, BackupTypes, TagsGiven, AbsentIsEmpty, MergePrepared,
              RecordedIsKnown
<1> QED
  BY <1>1, <1>2

BackupPart == driven = "backup" => BackupInv

LEMMA BackupPartNext ==
    ASSUME BackupConstants, BackupPart, [Next]_vars
    PROVE  /\ BackupPart' /\ driven' = driven
           /\ driven = "backup" => Backup!Next \/ UNCHANGED backupVars
           /\ driven # "backup" => UNCHANGED backupVars
<1>1. driven' = driven
  BY DEF Next, vars
<1>2. driven = "backup" => Backup!Next \/ UNCHANGED backupVars
  BY DEF Next, vars
<1>3. driven # "backup" => UNCHANGED backupVars
  BY DEF Next, vars
<1> QED
  BY <1>1, <1>2, <1>3, BackupNext DEF BackupPart

\* No upload of a backup takes away what its device has not seen: a merge keeps every
\* connection of the object it replaces, and an overwriting upload of a device with a recorded
\* synchronisation replaces only what that device wrote or downloaded.  For any number of
\* devices, locations, connections, changes, writes and failing calls.
THEOREM BackupsKeepOthers == BackupConstants => (Spec => UploadsKeepOthers)
<1> SUFFICES ASSUME BackupConstants PROVE Spec => UploadsKeepOthers
  OBVIOUS
<1>1. Init => BackupPart
  BY BackupInit DEF Init, BackupPart
<1>2. BackupPart /\ [Next]_vars => BackupPart'
  BY BackupPartNext
<1>u. ASSUME UNCHANGED backupVars PROVE UNCHANGED Backup!vars
  BY <1>u DEF backupVars, Backup!vars, Backup!counts
<1>3. BackupPart /\ [Next]_vars =>
        [\A d \in Devices : call[d].mode = "merge" /\ Backup!Writes(d)
            => \A c \in Connections :
                   remote[call[d].location].content[c] # 0
                       => remote'[call[d].location].content[c] # 0]_(Backup!vars)
  <2> SUFFICES ASSUME BackupPart, [Next]_vars, ~(UNCHANGED Backup!vars)
               PROVE  \A d \in Devices : call[d].mode = "merge" /\ Backup!Writes(d)
                         => \A c \in Connections :
                                remote[call[d].location].content[c] # 0
                                    => remote'[call[d].location].content[c] # 0
    OBVIOUS
  <2>1. BackupInv /\ Backup!Next
    BY <1>u, BackupPartNext DEF BackupPart
  <2> QED
    BY <2>1, BackupKeepsOthers
<1>4. BackupPart /\ [Next]_vars =>
        [\A d \in Devices : call[d].mode = "overwrite" /\ call[d].last # Backup!NoTag
                               /\ Backup!Writes(d)
            => remote[call[d].location].tag \in known[d]]_(Backup!vars)
  <2> SUFFICES ASSUME BackupPart, [Next]_vars, ~(UNCHANGED Backup!vars)
               PROVE  \A d \in Devices : call[d].mode = "overwrite" /\ call[d].last # Backup!NoTag
                                            /\ Backup!Writes(d)
                         => remote[call[d].location].tag \in known[d]
    OBVIOUS
  <2>1. BackupInv /\ Backup!Next
    BY <1>u, BackupPartNext DEF BackupPart
  <2> QED
    BY <2>1, BackupKeepsOthers
<1> QED
  BY <1>1, <1>2, <1>3, <1>4, PTL
     DEF Spec, UploadsKeepOthers, Backup!UploadsKeepOthers, Backup!MergeKeepsTheirs,
         Backup!RecordedIsReplaced

-------------------------------------------------------------------------------
(***************************************************************************)
(* The pane that follows the shell.                                        *)
(***************************************************************************)
FollowConstants ==
    /\ Home \in Dirs /\ None \notin Dirs \cup {"login", "root"}
    /\ None \notin Follow!Request \cup [dir : Dirs, changed : BOOLEAN]

ModeOf(user) == IF user = "root" THEN "root" ELSE "user"

PaneTypes ==
    /\ Follow!TypeOK
    /\ refresh \in [at : {"idle", "debounce", "list"}, req : Follow!Request \cup {None},
                 path : Dirs \cup {None}, files : Follow!Listing \cup {None}]
    /\ refresh.at = "list" => refresh.req # None
    /\ \A c \in PaneCommands : command[c].at \in {"list", "path"} => command[c].dir \in Dirs

\* After a prompt the session knows the shell's directory and its user; its mode is always that
\* of the user it knows.
Told ==
    /\ session.mode = ModeOf(session.user)
    /\ shell.says = "nothing" => session.user = shell.user
    /\ shell.says # "both" => session.cwd = shell.dir
    /\ shell.says = "user" => prompt.cwd # None /\ prompt.cwd.dir = shell.dir

LoadingEnds == session.loading => start = "listing" \/ (refresh.at = "list" /\ ~refresh.req.silent)

Undisturbed == errors = 0 /\ \A c \in PaneCommands : command[c].at = "idle"

\* What brings the pane to the shell: a prompt that is still to be reported and changes
\* something, the event loop when it gets ready, a request or a listing that cannot be dropped
\* unless another prompt comes; or the pane is there.
Reports ==
    \/ shell.says = "both" /\ session.cwd # shell.dir
    \/ shell.says = "user" /\ prompt.cwd.changed
    \/ shell.says # "nothing" /\ session.mode # ModeOf(shell.user)
Asks ==
    /\ pending # None /\ pending.cwd = session.cwd /\ pending.mode = session.mode
    /\ ~pending.silent /\ (wake \/ refresh.at = "debounce")
Lists ==
    /\ refresh.at = "list" /\ ~refresh.req.silent /\ refresh.path = session.path
    /\ refresh.req.cwd = session.cwd /\ refresh.req.mode = session.mode
Shows ==
    /\ session.path = session.cwd
    /\ session.files = [dir |-> session.cwd, mode |-> session.mode]

Underway == ~ready \/ Reports \/ Asks \/ Lists \/ Shows

FollowInv ==
    /\ PaneTypes /\ Told /\ LoadingEnds
    /\ Undisturbed /\ session.follow => Underway

LEMMA FollowInit == FollowConstants /\ Follow!Init => FollowInv
<1> SUFFICES ASSUME FollowConstants, Follow!Init PROVE FollowInv
  OBVIOUS
<1>1. PaneTypes
  <2>1. /\ shell \in [dir : Dirs, user : Follow!Users, says : {"nothing", "both", "user"}]
        /\ session \in [cwd : Follow!MaybeDir, path : Dirs, files : Follow!Listing \cup {None},
                        loading : BOOLEAN, follow : BOOLEAN, mode : Follow!Modes,
                        user : Follow!Users \cup {None}]
    BY DEF FollowConstants, Follow!Init, Follow!Users, Follow!Modes, Follow!MaybeDir
  <2>2. /\ prompt \in [command : BOOLEAN, cwd : [dir : Dirs, changed : BOOLEAN] \cup {None}]
        /\ command \in [PaneCommands -> [at : {"idle", "list", "path", "done"},
                                         kind : {"open", "follow", None}, dir : Follow!MaybeDir]]
    BY DEF Follow!Init, Follow!MaybeDir, Follow!NoCommand
  <2>3. /\ refresh \in [at : {"idle", "debounce", "list"}, req : Follow!Request \cup {None},
                     path : Dirs \cup {None}, files : Follow!Listing \cup {None}]
        /\ refresh.at = "idle" /\ refresh.req = None
    BY DEF Follow!Init, Follow!NoTask
  <2>4. /\ pending = None /\ wake = FALSE /\ followed = None /\ start = "opening"
        /\ ready = FALSE /\ prompts = 0 /\ errors = 0
    BY DEF Follow!Init
  <2>5. prompts \in 0..2 /\ errors \in 0..1
    BY <2>4
  <2>6. \A c \in PaneCommands : command[c].at = "idle"
    BY DEF Follow!Init, Follow!NoCommand
  <2> QED
    BY <2>1, <2>2, <2>3, <2>4, <2>5, <2>6 DEF PaneTypes, Follow!TypeOK
<1>2. Told /\ LoadingEnds /\ Underway
  BY DEF FollowConstants, Follow!Init, Told, ModeOf, LoadingEnds, Underway
<1> QED
  BY <1>1, <1>2 DEF FollowInv

\* A step that only lets the shell go on.
LEMMA ShellSteps ==
    ASSUME FollowConstants, FollowInv,
           Follow!EmptyLine \/ \E d \in Dirs, u \in Follow!Users : Follow!RunCommand(d, u)
    PROVE  FollowInv'
<1> USE DEF Follow!EmptyLine, Follow!RunCommand
<1>1. PaneTypes'
  <2>1. shell' \in [dir : Dirs, user : Follow!Users, says : {"nothing", "both", "user"}]
    BY DEF FollowInv, PaneTypes, Follow!TypeOK
  <2>2. prompt' \in [command : BOOLEAN, cwd : [dir : Dirs, changed : BOOLEAN] \cup {None}]
    BY DEF FollowInv, PaneTypes, Follow!TypeOK
  <2>3. prompts' \in 0..2
    BY DEF FollowInv, PaneTypes, Follow!TypeOK
  <2> QED
    BY <2>1, <2>2, <2>3 DEF FollowInv, PaneTypes, Follow!TypeOK
<1>2. Told' /\ LoadingEnds'
  BY DEF FollowInv, Told, LoadingEnds, PaneTypes, Follow!TypeOK
<1>3. UNCHANGED <<session, pending, wake, refresh, ready, command, errors>> /\ shell.says = "nothing"
  OBVIOUS
<1>4. Asks' = Asks /\ Lists' = Lists /\ Shows' = Shows /\ Undisturbed' = Undisturbed
  BY <1>3 DEF Asks, Lists, Shows, Undisturbed
<1>5. Undisturbed' /\ session'.follow => Underway'
  BY <1>3, <1>4 DEF FollowInv, Underway, Reports
<1> QED
  BY <1>1, <1>2, <1>5 DEF FollowInv

LEMMA ReportCwdStep == ASSUME FollowConstants, FollowInv, Follow!ReportCwd PROVE FollowInv'
<1>1. /\ shell.says = "both" /\ shell' = [shell EXCEPT !.says = "user"]
      /\ prompt' = [prompt EXCEPT !.cwd = [dir |-> shell.dir, changed |-> session.cwd # shell.dir]]
      /\ session' = [session EXCEPT !.cwd = shell.dir]
      /\ UNCHANGED <<pending, wake, refresh, followed, start, ready, command, prompts, errors>>
  BY DEF Follow!ReportCwd
<1>2. PaneTypes'
  <2>1. shell' \in [dir : Dirs, user : Follow!Users, says : {"nothing", "both", "user"}]
    BY <1>1 DEF FollowInv, PaneTypes, Follow!TypeOK
  <2>2. prompt' \in [command : BOOLEAN, cwd : [dir : Dirs, changed : BOOLEAN] \cup {None}]
    BY <1>1 DEF FollowInv, PaneTypes, Follow!TypeOK
  <2>3. session' \in [cwd : Follow!MaybeDir, path : Dirs, files : Follow!Listing \cup {None},
                      loading : BOOLEAN, follow : BOOLEAN, mode : Follow!Modes,
                      user : Follow!Users \cup {None}]
    BY <1>1 DEF FollowInv, PaneTypes, Follow!TypeOK, Follow!MaybeDir
  <2> QED
    BY <1>1, <2>1, <2>2, <2>3 DEF FollowInv, PaneTypes, Follow!TypeOK
<1>3. Told'
  <2>1. /\ session'.mode = session.mode /\ session'.user = session.user
        /\ session'.cwd = shell.dir /\ shell'.dir = shell.dir /\ shell'.says = "user"
        /\ prompt'.cwd = [dir |-> shell.dir, changed |-> session.cwd # shell.dir]
        /\ shell.dir \in Dirs
    BY <1>1 DEF FollowInv, PaneTypes, Follow!TypeOK
  <2>2. prompt'.cwd # None
    <3>1. prompt'.cwd \in [dir : Dirs, changed : BOOLEAN]
      BY <2>1
    <3> QED
      BY <3>1 DEF FollowConstants
  <2> QED
    BY <2>1, <2>2 DEF FollowInv, Told
<1>6. LoadingEnds'
  BY <1>1 DEF FollowInv, LoadingEnds, PaneTypes, Follow!TypeOK
<1>4. CASE session.cwd # shell.dir
  <2>1. prompt'.cwd.changed /\ shell'.says = "user"
    BY <1>1, <1>4 DEF FollowInv, PaneTypes, Follow!TypeOK
  <2> QED
    BY <1>2, <1>3, <1>6, <2>1 DEF FollowInv, Underway, Reports
<1>5. CASE session.cwd = shell.dir
  <2>1. session' = session
    BY <1>1, <1>5 DEF FollowInv, PaneTypes, Follow!TypeOK
  <2>2. Reports => Reports'
    BY <1>1, <1>5, <2>1 DEF Reports, FollowInv, PaneTypes, Follow!TypeOK
  <2>3. Asks' = Asks /\ Lists' = Lists /\ Shows' = Shows /\ Undisturbed' = Undisturbed
    BY <1>1, <2>1 DEF Asks, Lists, Shows, Undisturbed
  <2> QED
    BY <1>1, <1>2, <1>3, <1>6, <2>1, <2>2, <2>3 DEF FollowInv, Underway
<1> QED
  BY <1>4, <1>5

LEMMA ReportUserStep == ASSUME FollowConstants, FollowInv, Follow!ReportUser PROVE FollowInv'
<1> DEFINE spot == IF shell.says = "both"
                    THEN [dir |-> shell.dir, changed |-> session.cwd # shell.dir]
                    ELSE prompt.cwd
           aim == IF shell.user = "login" THEN "user" ELSE "root"
           switched == session.user # shell.user /\ session.mode # aim
           realign == session.follow /\ Follow!NeedsRealign(spot.dir)
           asked == session.follow /\ (spot.changed \/ prompt.command)
           silent == ~spot.changed /\ ~realign /\ ~switched
           mode == IF switched THEN aim ELSE session.mode
<1>1. /\ shell.says # "nothing" /\ shell' = [shell EXCEPT !.says = "nothing"]
      /\ prompt' = [command |-> FALSE, cwd |-> None]
      /\ session' = [session EXCEPT !.cwd = spot.dir, !.user = shell.user, !.mode = mode]
      /\ UNCHANGED <<refresh, followed, start, ready, command, prompts, errors>>
  BY DEF Follow!ReportUser
<1>2. /\ session \in [cwd : Follow!MaybeDir, path : Dirs, files : Follow!Listing \cup {None},
                      loading : BOOLEAN, follow : BOOLEAN, mode : Follow!Modes,
                      user : Follow!Users \cup {None}]
      /\ shell \in [dir : Dirs, user : Follow!Users, says : {"nothing", "both", "user"}]
      /\ prompt \in [command : BOOLEAN, cwd : [dir : Dirs, changed : BOOLEAN] \cup {None}]
  BY DEF FollowInv, PaneTypes, Follow!TypeOK
<1>3. spot.dir = shell.dir /\ spot.changed \in BOOLEAN
  <2>1. CASE shell.says = "both"
    BY <2>1
  <2>2. CASE shell.says # "both"
    <3>1. prompt.cwd # None /\ prompt.cwd.dir = shell.dir
      BY <1>1, <1>2, <2>2 DEF FollowInv, Told
    <3> QED
      BY <1>2, <2>2, <3>1
  <2> QED
    BY <2>1, <2>2
<1>4. aim = ModeOf(shell.user) /\ mode = ModeOf(shell.user)
  <2>1. aim = ModeOf(shell.user)
    BY <1>2 DEF ModeOf, Follow!Users
  <2>2. session.mode = ModeOf(session.user)
    BY DEF FollowInv, Told
  <2> QED
    BY <2>1, <2>2
<1>5. Reports => spot.changed \/ switched
  <2>1. session.mode = ModeOf(session.user)
    BY DEF FollowInv, Told
  <2>2. session.mode # ModeOf(shell.user) => switched
    BY <1>4, <2>1
  <2> QED
    BY <2>2 DEF Reports
<1>6. spot.changed \/ switched \/ (session.cwd = shell.dir /\ session.mode = mode)
  <2>1. CASE shell.says = "both"
    BY <2>1
  <2>2. CASE shell.says # "both"
    BY <2>2 DEF FollowInv, Told
  <2> QED
    BY <2>1, <2>2
<1>7. ready => IF asked \/ realign \/ switched
               THEN Follow!enqueue([cwd |-> spot.dir, mode |-> session'.mode, silent |-> silent])
               ELSE UNCHANGED <<pending, wake>>
  BY DEF Follow!ReportUser
<1>8. ~ready => UNCHANGED <<pending, wake>>
  BY DEF Follow!ReportUser
<1> HIDE DEF spot, aim, switched, realign, asked, mode
<1>9. session'.cwd = shell.dir /\ session'.user = shell.user /\ session'.mode = mode
      /\ session'.path = session.path /\ session'.files = session.files
      /\ session'.follow = session.follow /\ session'.loading = session.loading
  BY <1>1, <1>2, <1>3
<1>10. mode \in Follow!Modes /\ shell.dir \in Dirs
  BY <1>2, <1>4 DEF Follow!Modes, ModeOf
<1>11. \/ UNCHANGED <<pending, wake>>
       \/ /\ wake' = TRUE /\ pending' \in Follow!Request
          /\ pending'.cwd = shell.dir /\ pending'.mode = mode
          /\ pending'.silent =
               (silent /\ ~(/\ pending # None /\ ~pending.silent
                            /\ pending.cwd = shell.dir /\ pending.mode = mode))
  <2>1. CASE ready /\ (asked \/ realign \/ switched)
    <3> DEFINE quiet == silent /\ ~(/\ pending # None /\ ~pending.silent
                                    /\ pending.cwd = shell.dir /\ pending.mode = mode)
    <3>1. /\ wake' = TRUE
          /\ pending' = [[cwd |-> shell.dir, mode |-> mode, silent |-> silent]
                           EXCEPT !.silent = quiet]
      BY <1>3, <1>7, <1>9, <2>1 DEF Follow!enqueue
    <3>2. quiet \in BOOLEAN
      OBVIOUS
    <3> HIDE DEF quiet, silent
    <3>3. pending' = [cwd |-> shell.dir, mode |-> mode, silent |-> quiet]
      BY <3>1
    <3> QED
      BY <3>1, <3>2, <3>3, <1>10 DEF Follow!Request, quiet
  <2>2. CASE ~(ready /\ (asked \/ realign \/ switched))
    BY <1>7, <1>8, <2>2
  <2> QED
    BY <2>1, <2>2
<1>12. PaneTypes'
  <2>1. session' \in [cwd : Follow!MaybeDir, path : Dirs, files : Follow!Listing \cup {None},
                      loading : BOOLEAN, follow : BOOLEAN, mode : Follow!Modes,
                      user : Follow!Users \cup {None}]
    BY <1>1, <1>2, <1>3, <1>10 DEF Follow!MaybeDir
  <2>2. shell' \in [dir : Dirs, user : Follow!Users, says : {"nothing", "both", "user"}]
        /\ prompt' \in [command : BOOLEAN, cwd : [dir : Dirs, changed : BOOLEAN] \cup {None}]
    BY <1>1, <1>2
  <2>3. pending' \in Follow!Request \cup {None} /\ wake' \in BOOLEAN
    BY <1>11 DEF FollowInv, PaneTypes, Follow!TypeOK
  <2> QED
    BY <1>1, <2>1, <2>2, <2>3 DEF FollowInv, PaneTypes, Follow!TypeOK
<1>13. Told'
  BY <1>1, <1>2, <1>4, <1>9 DEF Told
<1>14. LoadingEnds'
  BY <1>1, <1>9 DEF FollowInv, LoadingEnds
<1>15. ASSUME Undisturbed', session'.follow PROVE Underway'
  <2>1. Undisturbed /\ session.follow
    BY <1>1, <1>9, <1>15 DEF Undisturbed
  <2>2. Underway
    BY <2>1 DEF FollowInv
  <2>3. CASE ~ready
    BY <1>1, <2>3 DEF Underway
  <2>4. CASE ready /\ (spot.changed \/ switched)
    <3>1. asked \/ switched
      BY <2>1, <2>4 DEF asked
    <3>2. wake' = TRUE /\ \E b \in {FALSE} : pending' =
             [[cwd |-> shell.dir, mode |-> mode, silent |-> silent] EXCEPT !.silent = b]
      BY <1>3, <1>7, <1>9, <2>4, <3>1 DEF Follow!enqueue
    <3>3. pending'.cwd = shell.dir /\ pending'.mode = mode /\ pending'.silent = FALSE
      BY <3>2
    <3>4. pending' \in Follow!Request
      <4>1. pending' = [cwd |-> shell.dir, mode |-> mode, silent |-> FALSE]
        BY <3>2
      <4> QED
        BY <4>1, <1>10 DEF Follow!Request
    <3>5. Asks'
      BY <1>9, <3>2, <3>3, <3>4 DEF Asks, FollowConstants
    <3> QED
      BY <3>5 DEF Underway
  <2>5. CASE ready /\ ~spot.changed /\ ~switched
    <3>1. ~Reports /\ session.cwd = shell.dir /\ session.mode = mode
      BY <1>5, <1>6, <2>5
    <3>2. Lists => Lists'
      BY <1>1, <1>9, <3>1 DEF Lists
    <3>3. Shows => Shows'
      BY <1>9, <3>1 DEF Shows
    <3>4. Asks => Asks'
      BY <1>1, <1>9, <1>11, <3>1 DEF Asks, FollowConstants
    <3> QED
      BY <2>2, <2>5, <3>1, <3>2, <3>3, <3>4 DEF Underway
  <2> QED
    BY <2>3, <2>4, <2>5
<1> QED
  BY <1>12, <1>13, <1>14, <1>15 DEF FollowInv

\* What the steps below see of the session.
SessionTypes ==
    [cwd : Follow!MaybeDir, path : Dirs, files : Follow!Listing \cup {None}, loading : BOOLEAN,
     follow : BOOLEAN, mode : Follow!Modes, user : Follow!Users \cup {None}]

LEMMA StartSteps ==
    ASSUME FollowConstants, FollowInv,
           \/ Follow!StartListing \/ Follow!AuxiliaryReady
           \/ \E ok \in BOOLEAN : Follow!StartListed(ok)
    PROVE  FollowInv'
<1>1. session \in SessionTypes /\ errors \in 0..1
  BY DEF FollowInv, PaneTypes, Follow!TypeOK, SessionTypes
<1>2. CASE Follow!StartListing
  <2>1. /\ start' = "listing" /\ session' = [session EXCEPT !.loading = TRUE]
        /\ UNCHANGED <<shell, prompt, pending, wake, refresh, followed, ready, command, prompts, errors>>
    BY <1>2 DEF Follow!StartListing
  <2>2. /\ session' \in SessionTypes
        /\ session'.cwd = session.cwd /\ session'.path = session.path
        /\ session'.files = session.files /\ session'.mode = session.mode
        /\ session'.user = session.user /\ session'.follow = session.follow
    BY <1>1, <2>1 DEF SessionTypes
  <2>3. PaneTypes' /\ Told' /\ LoadingEnds'
    BY <2>1, <2>2 DEF FollowInv, PaneTypes, Follow!TypeOK, SessionTypes, Told, LoadingEnds
  <2>4. Underway' = Underway /\ Undisturbed' = Undisturbed
    BY <2>1, <2>2 DEF Underway, Reports, Asks, Lists, Shows, Undisturbed
  <2> QED
    BY <2>2, <2>3, <2>4 DEF FollowInv
<1>3. CASE Follow!AuxiliaryReady
  <2>1. /\ ready' = TRUE
        /\ UNCHANGED <<shell, session, prompt, refresh, followed, start, command, prompts, errors>>
    BY <1>3 DEF Follow!AuxiliaryReady
  <2>2. CASE session.follow /\ session.cwd # None
    <3> DEFINE r == [cwd |-> session.cwd, mode |-> session.mode, silent |-> FALSE]
    <3>1. r \in Follow!Request
      BY <1>1, <2>2 DEF SessionTypes, Follow!MaybeDir, Follow!Request
    <3>2. wake' = TRUE /\ pending' = [r EXCEPT !.silent = FALSE]
      BY <1>3, <2>2 DEF Follow!AuxiliaryReady, Follow!enqueue
    <3>3. pending' = r
      BY <3>2
    <3>4. PaneTypes'
      <4>1. pending' \in Follow!Request \cup {None} /\ wake' \in BOOLEAN /\ ready' \in BOOLEAN
        BY <2>1, <3>1, <3>2, <3>3
      <4> HIDE DEF r
      <4> QED
        BY <2>1, <4>1 DEF FollowInv, PaneTypes, Follow!TypeOK
    <3>5. Told' /\ LoadingEnds'
      BY <2>1 DEF FollowInv, Told, LoadingEnds
    <3>6. Asks'
      BY <2>1, <3>1, <3>2, <3>3 DEF Asks, FollowConstants
    <3> QED
      BY <3>4, <3>5, <3>6 DEF FollowInv, Underway
  <2>3. CASE ~(session.follow /\ session.cwd # None)
    <3>1. UNCHANGED <<pending, wake>>
      BY <1>3, <2>3 DEF Follow!AuxiliaryReady
    <3>2. PaneTypes' /\ Told' /\ LoadingEnds'
      BY <2>1, <3>1 DEF FollowInv, PaneTypes, Follow!TypeOK, Told, LoadingEnds
    <3>3. ASSUME session'.follow PROVE Underway'
      <4>1. session.cwd = None
        BY <2>1, <2>3, <3>3
      <4>2. shell.dir \in Dirs /\ shell.says \in {"nothing", "both", "user"}
        BY DEF FollowInv, PaneTypes, Follow!TypeOK
      <4>3. shell.says = "both" /\ session.cwd # shell.dir
        BY <4>1, <4>2 DEF FollowInv, Told, FollowConstants
      <4> QED
        BY <2>1, <4>3 DEF Underway, Reports
    <3> QED
      BY <3>2, <3>3 DEF FollowInv
  <2> QED
    BY <2>2, <2>3
<1>4. ASSUME NEW ok \in BOOLEAN, Follow!StartListed(ok) PROVE FollowInv'
  <2> DEFINE untouched == session.mode = "user" /\ session.path = Home
             current == untouched /\ (session.follow => session.cwd \in {None, Home})
             fallback == untouched /\ session.files = None
             found == [dir |-> Home, mode |-> "user"]
  <2>1. /\ start' = "done"
        /\ session' = [session EXCEPT !.loading = FALSE,
                         !.files = IF ok /\ (current \/ fallback) THEN found ELSE @]
        /\ UNCHANGED <<shell, prompt, pending, wake, refresh, followed, ready, command, prompts>>
        /\ IF ok THEN UNCHANGED errors ELSE errors < 1 /\ errors' = errors + 1
    BY <1>4 DEF Follow!StartListed
  <2>2. found \in Follow!Listing
    BY DEF FollowConstants, Follow!Listing, Follow!Modes
  <2>3. /\ session'.cwd = session.cwd /\ session'.path = session.path
        /\ session'.mode = session.mode /\ session'.user = session.user
        /\ session'.follow = session.follow /\ session'.loading = FALSE
        /\ session'.files = IF ok /\ (current \/ fallback) THEN found ELSE session.files
    BY <1>1, <2>1 DEF SessionTypes
  <2> HIDE DEF found
  <2>4. session' \in SessionTypes
    BY <1>1, <2>1, <2>2 DEF SessionTypes
  <2>5. errors' \in 0..1
    BY <1>1, <2>1
  <2>6. PaneTypes' /\ Told' /\ LoadingEnds'
    BY <2>1, <2>3, <2>4, <2>5 DEF FollowInv, PaneTypes, Follow!TypeOK, SessionTypes, Told, LoadingEnds
  <2>7. ASSUME Undisturbed', session'.follow PROVE Underway'
    <3>1. Undisturbed /\ session.follow
      BY <1>1, <2>1, <2>3, <2>7 DEF Undisturbed
    <3>2. Underway
      BY <3>1 DEF FollowInv
    <3>3. (Reports => Reports') /\ (Asks => Asks') /\ (Lists => Lists') /\ (~ready => ~ready')
      BY <2>1, <2>3 DEF Reports, Asks, Lists
    <3>4. Shows => Shows'
      <4> SUFFICES ASSUME Shows PROVE Shows'
        OBVIOUS
      <4>1. CASE ok /\ (current \/ fallback)
        <5>1. session.path = Home /\ session.mode = "user"
          BY <4>1
        <5> QED
          BY <2>3, <4>1, <5>1 DEF Shows, found
      <4>2. CASE ~(ok /\ (current \/ fallback))
        BY <2>3, <4>2 DEF Shows
      <4> QED
        BY <4>1, <4>2
    <3> QED
      BY <3>2, <3>3, <3>4 DEF Underway
  <2> QED
    BY <2>6, <2>7 DEF FollowInv
<1> QED
  BY <1>2, <1>3, <1>4

LEMMA TaskSteps ==
    ASSUME FollowConstants, FollowInv,
           \/ Follow!Wake \/ Follow!TakeRequest
           \/ \E ok \in BOOLEAN : Follow!ApplyListing(ok)
    PROVE  FollowInv'
<1> DEFINE Tasks == [at : {"idle", "debounce", "list"}, req : Follow!Request \cup {None},
                     path : Dirs \cup {None}, files : Follow!Listing \cup {None}]
<1>1. /\ session \in SessionTypes /\ errors \in 0..1 /\ refresh \in Tasks
      /\ pending \in Follow!Request \cup {None} /\ (refresh.at = "list" => refresh.req # None)
  BY DEF FollowInv, PaneTypes, Follow!TypeOK, SessionTypes
<1>2. CASE Follow!Wake
  <2>1. /\ refresh.at = "idle" /\ wake /\ wake' = FALSE /\ refresh' = [refresh EXCEPT !.at = "debounce"]
        /\ UNCHANGED <<shell, session, prompt, pending, followed, start, ready, command, prompts, errors>>
    BY <1>2 DEF Follow!Wake
  <2>2. refresh' \in Tasks /\ refresh'.at = "debounce"
    BY <1>1, <2>1
  <2>3. PaneTypes'
    <3>1. /\ refresh'.at \in {"idle", "debounce", "list"} /\ refresh'.req \in Follow!Request \cup {None}
          /\ wake' \in BOOLEAN /\ refresh'.at # "list"
      BY <2>1, <2>2
    <3> QED
      BY <2>1, <2>2, <3>1 DEF FollowInv, PaneTypes, Follow!TypeOK
  <2>4. Told' /\ LoadingEnds'
    BY <2>1 DEF FollowInv, Told, LoadingEnds
  <2>5. ~Lists /\ (Asks => Asks') /\ Reports' = Reports /\ Shows' = Shows
        /\ Undisturbed' = Undisturbed
    BY <2>1, <2>2 DEF Lists, Asks, Reports, Shows, Undisturbed
  <2> QED
    BY <2>1, <2>3, <2>4, <2>5 DEF FollowInv, Underway
<1>3. CASE Follow!TakeRequest
  <2>1. /\ refresh.at = "debounce" /\ pending' = None
        /\ UNCHANGED <<shell, prompt, wake, followed, start, ready, command, prompts, errors>>
    BY <1>3 DEF Follow!TakeRequest
  <2>2. CASE pending # None /\ Follow!Agrees(pending) /\ ~(pending.silent /\ session.loading)
    <3>1. /\ refresh' = [at |-> "list", req |-> pending, path |-> session.path,
                      files |-> session.files]
          /\ session' = [session EXCEPT !.loading = @ \/ ~pending.silent]
      BY <1>3, <2>2 DEF Follow!TakeRequest
    <3>2. pending \in Follow!Request /\ pending.silent \in BOOLEAN
      BY <1>1, <2>2 DEF Follow!Request
    <3>3. /\ refresh' \in Tasks /\ refresh'.at = "list" /\ refresh'.req = pending
          /\ refresh'.path = session.path
      BY <1>1, <3>1, <3>2 DEF SessionTypes
    <3>4. /\ session' \in SessionTypes
          /\ session'.cwd = session.cwd /\ session'.path = session.path
          /\ session'.files = session.files /\ session'.mode = session.mode
          /\ session'.user = session.user /\ session'.follow = session.follow
          /\ session'.loading = (session.loading \/ ~pending.silent)
      BY <1>1, <3>1, <3>2 DEF SessionTypes
    <3>5. PaneTypes'
      BY <2>1, <2>2, <3>3, <3>4 DEF FollowInv, PaneTypes, Follow!TypeOK, SessionTypes
    <3>6. Told' /\ LoadingEnds'
      BY <2>1, <3>3, <3>4 DEF FollowInv, Told, LoadingEnds
    <3>7. Reports' = Reports /\ Shows' = Shows /\ ~Lists /\ Undisturbed' = Undisturbed
      BY <2>1, <3>4 DEF Reports, Shows, Lists, Undisturbed
    <3>8. Asks => Lists'
      BY <3>3, <3>4 DEF Asks, Lists
    <3> QED
      BY <2>1, <3>4, <3>5, <3>6, <3>7, <3>8 DEF FollowInv, Underway
  <2>3. CASE ~(pending # None /\ Follow!Agrees(pending) /\ ~(pending.silent /\ session.loading))
    <3>1. refresh' = Follow!NoTask /\ session' = session
      BY <1>3, <2>3 DEF Follow!TakeRequest
    <3>2. refresh' \in Tasks /\ refresh'.at = "idle"
      BY <3>1 DEF Follow!NoTask
    <3>3. PaneTypes'
      BY <2>1, <3>1, <3>2 DEF FollowInv, PaneTypes, Follow!TypeOK
    <3>4. Told' /\ LoadingEnds'
      BY <2>1, <3>1 DEF FollowInv, Told, LoadingEnds
    <3>5. Reports' = Reports /\ Shows' = Shows /\ ~Lists /\ Undisturbed' = Undisturbed
      BY <2>1, <3>1 DEF Reports, Shows, Lists, Undisturbed
    <3>6. session.follow => ~Asks
      BY <2>3 DEF Asks, Follow!Agrees
    <3> QED
      BY <2>1, <3>1, <3>3, <3>4, <3>5, <3>6 DEF FollowInv, Underway
  <2> QED
    BY <2>2, <2>3
<1>4. ASSUME NEW ok \in BOOLEAN, Follow!ApplyListing(ok) PROVE FollowInv'
  <2> DEFINE r == refresh.req
             found == [dir |-> r.cwd, mode |-> r.mode]
             apply == /\ ok /\ Follow!Agrees(r) /\ session.path = refresh.path
                      /\ r.silent => ~session.loading /\ session.files = refresh.files
  <2>1. /\ refresh.at = "list" /\ refresh' = Follow!NoTask
        /\ session' = [session EXCEPT !.loading = @ /\ r.silent,
                         !.path = IF apply THEN r.cwd ELSE @,
                         !.files = IF apply THEN found ELSE @]
        /\ followed' = IF apply THEN found ELSE followed
        /\ IF ok THEN UNCHANGED errors ELSE errors < 1 /\ errors' = errors + 1
        /\ UNCHANGED <<shell, prompt, pending, wake, start, ready, command, prompts>>
    BY <1>4 DEF Follow!ApplyListing
  <2>2. r \in Follow!Request
    BY <1>1, <2>1
  <2>3. /\ r.cwd \in Dirs /\ r.mode \in Follow!Modes /\ r.silent \in BOOLEAN
        /\ found \in Follow!Listing
    BY <2>2 DEF Follow!Request, Follow!Listing
  <2>4. refresh' \in Tasks /\ refresh'.at = "idle"
    BY <2>1 DEF Follow!NoTask
  <2> HIDE DEF apply, found, r
  <2>5. /\ session' \in SessionTypes
        /\ session'.cwd = session.cwd /\ session'.mode = session.mode
        /\ session'.user = session.user /\ session'.follow = session.follow
        /\ session'.loading = (session.loading /\ r.silent)
        /\ session'.path = (IF apply THEN r.cwd ELSE session.path)
        /\ session'.files = (IF apply THEN found ELSE session.files)
    BY <1>1, <2>1, <2>3 DEF SessionTypes
  <2>6. errors' \in 0..1 /\ followed' \in Follow!Listing \cup {None}
    BY <1>1, <2>1, <2>3 DEF FollowInv, PaneTypes, Follow!TypeOK
  <2>7. PaneTypes'
    BY <2>1, <2>4, <2>5, <2>6 DEF FollowInv, PaneTypes, Follow!TypeOK, SessionTypes
  <2>8. Told' /\ LoadingEnds'
    BY <2>1, <2>5 DEF FollowInv, Told, LoadingEnds, r
  <2>9. ASSUME Undisturbed', session'.follow PROVE Underway'
    <3>1. Undisturbed /\ session.follow /\ ok
      BY <1>1, <2>1, <2>5, <2>9 DEF Undisturbed
    <3>2. Underway
      BY <3>1 DEF FollowInv
    <3>3. Reports' = Reports /\ (~ready => ~ready') /\ (Asks => Asks')
      BY <2>1, <2>5 DEF Reports, Asks
    <3>4. Lists => Shows'
      <4> SUFFICES ASSUME Lists PROVE Shows'
        OBVIOUS
      <4>1. apply
        BY <3>1 DEF apply, r, Lists, Follow!Agrees
      <4> QED
        BY <2>5, <4>1 DEF Lists, Shows, found, r
    <3>5. Shows => Shows'
      <4> SUFFICES ASSUME Shows PROVE Shows'
        OBVIOUS
      <4>1. CASE apply
        <5>1. r.cwd = session.cwd /\ r.mode = session.mode
          BY <4>1 DEF apply, Follow!Agrees
        <5> QED
          BY <2>5, <4>1, <5>1 DEF Shows, found
      <4>2. CASE ~apply
        BY <2>5, <4>2 DEF Shows
      <4> QED
        BY <4>1, <4>2
    <3> QED
      BY <3>2, <3>3, <3>4, <3>5 DEF Underway
  <2> QED
    BY <2>7, <2>8, <2>9 DEF FollowInv
<1> QED
  BY <1>2, <1>3, <1>4

\* A command of the user disturbs the pane for good.
LEMMA CommandSteps ==
    ASSUME FollowConstants, FollowInv, NEW c \in PaneCommands,
           \/ \E d \in Dirs : Follow!OpenPath(c, d)
           \/ Follow!SetFollow(c) \/ Follow!ShowPath(c)
           \/ \E ok \in BOOLEAN : Follow!ListFiles(c, ok)
    PROVE  FollowInv'
<1> DEFINE Command == [at : {"idle", "list", "path", "done"}, kind : {"open", "follow", None},
                       dir : Follow!MaybeDir]
           Named(k) == k \in Command /\ k.at # "idle" /\ (k.at \in {"list", "path"} => k.dir \in Dirs)
           Kept == /\ session' \in SessionTypes /\ errors' \in 0..1
                   /\ session'.cwd = session.cwd /\ session'.mode = session.mode
                   /\ session'.user = session.user /\ session'.loading = session.loading
<1>1. /\ session \in SessionTypes /\ errors \in 0..1 /\ command \in [PaneCommands -> Command]
      /\ command[c].at \in {"list", "path"} => command[c].dir \in Dirs
  BY DEF FollowInv, PaneTypes, Follow!TypeOK, SessionTypes
<1>2. UNCHANGED <<shell, prompt, pending, wake, refresh, followed, start, ready, prompts>>
  BY DEF Follow!OpenPath, Follow!SetFollow, Follow!ShowPath, Follow!ListFiles
<1>3. Kept /\ \E k : Named(k) /\ command' = [command EXCEPT ![c] = k]
  <2> DEFINE finished == [at |-> "done", kind |-> None, dir |-> None]
  <2>0. Named(finished) /\ [Follow!NoCommand EXCEPT !.at = "done"] = finished
    BY DEF Follow!MaybeDir, Follow!NoCommand
  <2>1. ASSUME NEW d \in Dirs, Follow!OpenPath(c, d)
        PROVE  Kept /\ \E k : Named(k) /\ command' = [command EXCEPT ![c] = k]
    <3> DEFINE k == [at |-> "list", kind |-> "open", dir |-> d]
    <3>1. session' = session /\ errors' = errors /\ command' = [command EXCEPT ![c] = k]
      BY <2>1 DEF Follow!OpenPath
    <3>2. Named(k)
      BY DEF Follow!MaybeDir
    <3> QED
      BY <1>1, <3>1, <3>2
  <2>2. CASE Follow!SetFollow(c)
    <3> DEFINE k == [at |-> "list", kind |-> "follow", dir |-> session.cwd]
    <3>1. session' = [session EXCEPT !.follow = ~@] /\ errors' = errors
      BY <2>2 DEF Follow!SetFollow
    <3>2. \/ session.cwd # None /\ command' = [command EXCEPT ![c] = k]
          \/ command' = [command EXCEPT ![c] = finished]
      BY <2>2 DEF Follow!SetFollow
    <3>3. session.cwd # None => Named(k)
      BY <1>1 DEF SessionTypes, Follow!MaybeDir
    <3>4. Kept
      BY <1>1, <3>1 DEF SessionTypes
    <3> HIDE DEF k, finished, Named
    <3> QED
      BY <2>0, <3>2, <3>3, <3>4
  <2>3. CASE Follow!ShowPath(c)
    <3>1. /\ command[c].at = "path" /\ errors' = errors
          /\ session' = [session EXCEPT !.path =
                           IF \/ command[c].kind = "open"
                              \/ session.follow /\ session.cwd = command[c].dir
                           THEN command[c].dir ELSE @]
          /\ command' = [command EXCEPT ![c] = finished]
      BY <2>0, <2>3 DEF Follow!ShowPath
    <3>2. Kept
      BY <1>1, <3>1 DEF SessionTypes
    <3> HIDE DEF finished, Named
    <3> QED
      BY <2>0, <3>1, <3>2
  <2>4. ASSUME NEW ok \in BOOLEAN, Follow!ListFiles(c, ok)
        PROVE  Kept /\ \E k : Named(k) /\ command' = [command EXCEPT ![c] = k]
    <3>0. command[c].at = "list" /\ command[c] \in Command
      BY <1>1, <2>4 DEF Follow!ListFiles
    <3>1. CASE ok
      <4> DEFINE k == [command[c] EXCEPT !.at = "path"]
                 found == [dir |-> command[c].dir, mode |-> session.mode]
      <4>1. /\ session' = [session EXCEPT !.files = found] /\ errors' = errors
            /\ command' = [command EXCEPT ![c] = k]
        BY <1>1, <2>4, <3>1 DEF Follow!ListFiles
      <4>2. Named(k)
        BY <1>1, <3>0
      <4>3. found \in Follow!Listing
        BY <1>1, <3>0 DEF SessionTypes, Follow!Listing
      <4>4. Kept
        BY <1>1, <4>1, <4>3 DEF SessionTypes
      <4> HIDE DEF k, Named
      <4> QED
        BY <4>1, <4>2, <4>4
    <3>2. CASE ~ok
      <4>1. /\ session' = session /\ errors < 1 /\ errors' = errors + 1
            /\ command' = [command EXCEPT ![c] = finished]
        BY <2>0, <2>4, <3>2 DEF Follow!ListFiles
      <4>2. Kept
        BY <1>1, <4>1
      <4> HIDE DEF finished, Named
      <4> QED
        BY <2>0, <4>1, <4>2
    <3> QED
      BY <3>1, <3>2
  <2> QED
    BY <2>1, <2>2, <2>3, <2>4
<1>4. PICK k : Named(k) /\ command' = [command EXCEPT ![c] = k]
  BY <1>3
<1>5. /\ command' \in [PaneCommands -> Command] /\ command'[c] = k
      /\ \A o \in PaneCommands : o # c => command'[o] = command[o]
  BY <1>1, <1>4
<1>6. PaneTypes'
  <2>1. \A o \in PaneCommands : command'[o].at \in {"list", "path"} => command'[o].dir \in Dirs
    BY <1>4, <1>5 DEF FollowInv, PaneTypes
  <2> QED
    BY <1>2, <1>3, <1>5, <2>1 DEF FollowInv, PaneTypes, Follow!TypeOK, SessionTypes
<1>7. Told' /\ LoadingEnds'
  BY <1>2, <1>3 DEF FollowInv, Told, LoadingEnds
<1>8. ~Undisturbed'
  BY <1>4, <1>5 DEF Undisturbed
<1> QED
  BY <1>6, <1>7, <1>8 DEF FollowInv

LEMMA FollowNext ==
    ASSUME FollowConstants, FollowInv, Follow!Next \/ UNCHANGED followVars PROVE FollowInv'
<1>1. CASE Follow!Next
  BY <1>1, ShellSteps, ReportCwdStep, ReportUserStep, StartSteps, TaskSteps, CommandSteps
     DEF Follow!Next
<1>2. CASE UNCHANGED followVars
  <2>1. /\ PaneTypes' = PaneTypes /\ Told' = Told /\ LoadingEnds' = LoadingEnds
        /\ Undisturbed' = Undisturbed /\ session' = session
    BY <1>2 DEF followVars, PaneTypes, Follow!TypeOK, Told, LoadingEnds, Undisturbed
  <2>2. Underway' = Underway
    BY <1>2 DEF followVars, Underway, Reports, Asks, Lists, Shows
  <2> QED
    BY <2>1, <2>2 DEF FollowInv
<1> QED
  BY <1>1, <1>2

LEMMA PaneIsThere == FollowConstants /\ FollowInv => Follow!PaneSettles
<1> SUFFICES ASSUME FollowConstants, FollowInv, Follow!Settled
             PROVE  /\ ~session.loading
                    /\ session.follow /\ Undisturbed =>
                         /\ session.path = shell.dir
                         /\ session.files = [dir |-> shell.dir, mode |-> session.mode]
                         /\ session.mode = "root" <=> shell.user # "login"
  BY DEF Follow!PaneSettles, Undisturbed
<1>1. ~session.loading
  BY DEF FollowInv, LoadingEnds, Follow!Settled
<1>2. session.cwd = shell.dir /\ (session.mode = "root" <=> shell.user # "login")
  BY DEF FollowInv, Told, ModeOf, PaneTypes, Follow!TypeOK, Follow!Users, Follow!Settled
<1>3. session.follow /\ Undisturbed => Shows
  BY DEF FollowInv, Underway, Reports, Asks, Lists, Follow!Settled
<1> QED
  BY <1>1, <1>2, <1>3 DEF Shows

FollowPart == driven = "follow" => FollowInv

LEMMA FollowPartNext ==
    ASSUME FollowConstants, FollowPart, [Next]_vars PROVE FollowPart'
<1>1. driven' = driven
  BY DEF Next, vars
<1>2. driven = "follow" => Follow!Next \/ UNCHANGED followVars
  BY DEF Next, vars
<1> QED
  BY <1>1, <1>2, FollowNext DEF FollowPart

\* Once everything settled the pane shows no listing as under way, and where the shell is, as
\* its user sees it, unless a listing failed or the user gave it a command; for any directories
\* and commands, two prompts after the first and one listing that fails.
THEOREM PaneFollows == FollowConstants => (Spec => []PaneSettles)
<1> SUFFICES ASSUME FollowConstants PROVE Spec => []PaneSettles
  OBVIOUS
<1>1. Init => FollowPart
  BY FollowInit DEF Init, FollowPart
<1>2. FollowPart /\ [Next]_vars => FollowPart'
  BY FollowPartNext
<1>3. FollowPart => PaneSettles
  BY PaneIsThere DEF FollowPart, PaneSettles
<1> QED
  BY <1>1, <1>2, <1>3, PTL DEF Spec
===============================================================================
