---------------------------- MODULE MonitoringProofs ----------------------------
(***************************************************************************)
(* Proofs about the monitoring of an SSH tab, for any number of            *)
(* connections, requests, attempts, changes of the settings and panics.    *)
(***************************************************************************)
EXTENDS Monitoring, TLAPS

\* Connections are numbered from 1.
Constants ==
    /\ Gens \subseteq Nat \ {0} /\ MaxAttempts \in Nat /\ Sustain \in Nat
    /\ Changes \in Nat /\ Crashes \in Nat

(***************************************************************************)
(* Types                                                                   *)
(***************************************************************************)
Busy == Working \cup {"workEnd"}
PCs == Busy \cup {"none", "supervise", "top", "idle", "childEnd", "rest", "remove", "ended"}
Hows == {"none", "startup", "replaced", "stalled", "manual", "remote"}
Collector ==
    [pc : PCs, phase : Phases, attempt : 0..(MaxAttempts + 1), ssh : BOOLEAN, gap : BOOLEAN,
     fresh : BOOLEAN, healthy : Nat, stopping : BOOLEAN, how : Hows]
Stages == {"down", "connecting", "up", "running"}

TabTypes ==
    /\ conn \in [n : {0} \cup Gens, stage : Stages, told : BOOLEAN, shut : BOOLEAN]
    /\ configured \in BOOLEAN /\ closed \subseteq Gens /\ changes \in 0..Changes
    /\ control \in {0} \cup Gens /\ enabled \subseteq Gens /\ cancelled \subseteq Gens
    /\ call \in [Calls -> [gen : {0} \cup Gens, on : BOOLEAN, answer : {"none", "waits", "given"}]]
    /\ \A c \in Calls : call[c].answer = "waits" => call[c].gen \in Gens
    /\ stopped \in BOOLEAN /\ forbidden \in 0..conn.n

SeenTypes ==
    /\ shown \in [gen : {0} \cup Gens, phase : Phases \cup {"none"}, ssh : BOOLEAN]
    /\ shown.gen = 0 <=> shown.phase = "none"
    /\ capable \in BOOLEAN /\ settled \in [Gens -> {"none", "on", "off"}]

ColTypes ==
    /\ points \in BOOLEAN /\ joined = TRUE
    /\ clicks \subseteq Gens /\ col \in [Gens -> Collector]
    /\ asked \subseteq Gens /\ late \in [Gens -> Nat] /\ closing \in [Gens -> Nat]
    /\ opened \in [Gens -> Nat] /\ torn \subseteq Gens /\ crashes \in 0..Crashes

(***************************************************************************)
(* What holds of every collector                                           *)
(***************************************************************************)

\* An opening is awaited by a collector that opens, and one given up excludes
\* another one.
OneOpening(g) ==
    /\ g \in asked => col[g].pc = "opening"
    /\ late[g] + closing[g] <= 1
    /\ g \in asked \/ HasChannel(g) => late[g] = 0 /\ closing[g] = 0

\* The attempts a collector counts bound its openings.
Channeled == {"opening", "setup", "read", "close", "after"}
Counted(g) ==
    /\ opened[g] <= MaxAttempts + 1
    /\ col[g].pc = "open" => opened[g] <= col[g].attempt /\ opened[g] <= MaxAttempts
    /\ col[g].pc \in Channeled => opened[g] <= col[g].attempt + 1
    /\ col[g].pc = "waiting" => /\ opened[g] <= MaxAttempts /\ col[g].attempt <= MaxAttempts
                                /\ opened[g] <= col[g].attempt + 1

\* Who may go on has its control installed, is of the last connection, and came
\* to be after that was shown.
Held(g) == Alive(g) /\ g \notin cancelled => control = g
Current(g) ==
    col[g].pc \notin {"none", "childEnd", "remove", "ended"} =>
        g = conn.n /\ conn.stage \notin {"connecting", "up"}
Unspawned(g) ==
    g > conn.n \/ (g = conn.n /\ conn.stage \in {"connecting", "up"}) =>
        col[g].pc = "none" /\ control # g /\ g \notin enabled \cup torn /\ settled[g] = "none"
Past(g) == g < conn.n => g \in cancelled
Controlled(g) == g \in enabled /\ g = conn.n => control = g

\* A confirmed stop is of a collector at rest; one at work is not shown as stopped.
Settled(g) == settled[g] = "off" => col[g].pc \notin Busy
Showing(g) == col[g].pc \in Busy /\ g \notin cancelled => shown.gen = g /\ shown.phase # "stopped"

\* What was interrupted leaves a gap before the next sample.
Marked(g) ==
    /\ col[g].pc \in {"supervise", "idle", "open", "opening", "setup", "read", "waiting",
                      "failed", "rest"} /\ g \in torn => col[g].gap
    /\ col[g].pc = "top" /\ g \in torn /\ ~col[g].gap =>
         g \notin enabled /\ (g \in cancelled \/ (shown.gen = g /\ shown.phase # "stopped"))

Ordered(g) ==
    /\ OneOpening(g) /\ Counted(g) /\ Held(g) /\ Current(g) /\ Unspawned(g) /\ Past(g)
    /\ Controlled(g) /\ Settled(g) /\ Showing(g) /\ Marked(g)

(***************************************************************************)
(* What holds of the tab                                                   *)
(***************************************************************************)
Begun ==
    /\ conn.stage # "down" => conn.n # 0
    /\ (conn.shut \/ conn.stage = "down") /\ conn.n # 0 => conn.n \in cancelled
Shows == Connected => shown.gen \in {0, conn.n}
Wanted ==
    /\ capable => configured
    /\ shown.gen # 0 => configured
    /\ conn.stage = "connecting" /\ shown.gen # 0 => conn.told /\ capable
StoppedShown == stopped => shown.phase = "stopped" /\ shown.gen \notin enabled
Forbids ==
    forbidden = conn.n /\ conn.n # 0 =>
        /\ shown.gen # conn.n
        /\ conn.stage = "connecting" => ~capable
        /\ Alive(conn.n) => conn.n \in cancelled

IInv ==
    /\ TabTypes /\ SeenTypes /\ ColTypes
    /\ Begun /\ Shows /\ Wanted /\ StoppedShown /\ Forbids
    /\ \A g \in Gens : Ordered(g)

-------------------------------------------------------------------------------

LEMMA FreshType == MaxAttempts \in Nat => Fresh \in Collector
BY DEF Fresh, Collector, PCs, Busy, Phases, Hows

LEMMA InitInv == Constants => (Init => IInv)
<1> SUFFICES ASSUME Constants, Init PROVE IInv
  OBVIOUS
<1> USE DEF Init, Constants
<1>1. TabTypes /\ SeenTypes
  <2>1. conn = [n |-> 0, stage |-> "down", told |-> FALSE, shut |-> FALSE]
        /\ call = [c \in Calls |-> [gen |-> 0, on |-> FALSE, answer |-> "none"]]
    OBVIOUS
  <2>2. conn \in [n : {0} \cup Gens, stage : Stages, told : BOOLEAN, shut : BOOLEAN]
        /\ call \in [Calls -> [gen : {0} \cup Gens, on : BOOLEAN,
                                answer : {"none", "waits", "given"}]]
        /\ \A c \in Calls : call[c].answer # "waits"
    BY <2>1 DEF Stages
  <2>3. SeenTypes
    BY DEF SeenTypes, Nothing, Phases
  <2>4. /\ configured \in BOOLEAN /\ stopped \in BOOLEAN /\ forbidden = 0
        /\ control \in {0} \cup Gens
    OBVIOUS
  <2>7. changes \in 0..Changes
    OBVIOUS
  <2>6. closed \subseteq Gens /\ enabled \subseteq Gens /\ cancelled \subseteq Gens
    OBVIOUS
  <2>5. conn.n = 0
    BY <2>1
  <2> QED
    BY <2>2, <2>3, <2>4, <2>5, <2>6, <2>7 DEF TabTypes
<1>2. ColTypes
  <2>1. Fresh \in Collector
    BY FreshType
  <2>2. col \in [Gens -> Collector]
    BY <2>1
  <2>3. late \in [Gens -> Nat] /\ closing \in [Gens -> Nat] /\ opened \in [Gens -> Nat]
    OBVIOUS
  <2>4. crashes \in 0..Crashes
    OBVIOUS
  <2> QED
    BY <2>2, <2>3, <2>4 DEF ColTypes
<1>3. Begun /\ Shows /\ Wanted /\ StoppedShown /\ Forbids
  BY DEF Begun, Shows, Wanted, StoppedShown, Forbids, Connected, Nothing
<1>4. ASSUME NEW g \in Gens PROVE Ordered(g)
  BY DEF Ordered, OneOpening, HasChannel, Counted, Channeled, Held, Alive, Current, Unspawned, Past,
         Controlled, Settled, Showing, Marked, Busy, Working, Fresh
<1> QED
  BY <1>1, <1>2, <1>3, <1>4 DEF IInv

-------------------------------------------------------------------------------
(***************************************************************************)
(* Steps of a collector: what they have in common.                         *)
(***************************************************************************)

\* The other collectors and what is counted for them.
Others(g) ==
    \A h \in Gens \ {g} :
        /\ col'[h] = col[h] /\ settled'[h] = settled[h] /\ opened'[h] = opened[h]
        /\ late'[h] = late[h] /\ closing'[h] = closing[h]
        /\ (h \in asked' <=> h \in asked) /\ (h \in torn' <=> h \in torn)

LEMMA CollectorStep ==
    ASSUME Constants, IInv, NEW g \in Gens, Mine, Others(g), SeenTypes', ColTypes',
           \/ shown' = shown
           \/ shown.gen = g /\ shown'.gen = g /\ (g \in enabled \/ shown'.phase = "stopped"),
           capable' = capable \/ (Connected /\ ~capable'),
           Alive(g)' => Alive(g),
           Ordered(g)'
    PROVE  IInv'
<1> USE DEF Constants
<1>1. UNCHANGED <<conn, configured, closed, changes, control, enabled, cancelled, call, stopped,
                  forbidden>>
  BY DEF Mine, tab, controls
<1>2. TabTypes'
  BY <1>1 DEF IInv, TabTypes
<1>3. ASSUME NEW h \in Gens, h # g PROVE Ordered(h)'
  <2>1. col'[h] = col[h] /\ settled'[h] = settled[h] /\ opened'[h] = opened[h]
        /\ late'[h] = late[h] /\ closing'[h] = closing[h]
        /\ (h \in asked' <=> h \in asked) /\ (h \in torn' <=> h \in torn)
    BY <1>3 DEF Others
  <2>2. shown.gen = h => shown' = shown
    BY <1>3
  <2>3. Ordered(h)
    BY DEF IInv
  <2>4. OneOpening(h)' /\ Counted(h)' /\ Held(h)' /\ Current(h)' /\ Unspawned(h)' /\ Past(h)'
        /\ Controlled(h)' /\ Settled(h)'
    BY <1>1, <2>1, <2>3 DEF Ordered, OneOpening, HasChannel, Counted, Held, Alive, Current,
                           Unspawned, Past, Controlled, Settled
  <2>5. Showing(h)' /\ Marked(h)'
    BY <1>1, <2>1, <2>2, <2>3 DEF Ordered, Showing, Marked
  <2> QED
    BY <2>4, <2>5 DEF Ordered
<1>4. Begun' /\ Shows'
  BY <1>1 DEF IInv, Begun, Shows, Connected
<1>5. Wanted'
  BY <1>1 DEF IInv, Wanted, Connected, SeenTypes
<1>6. StoppedShown'
  BY <1>1 DEF IInv, StoppedShown
<1>7. Forbids'
  <2> SUFFICES ASSUME forbidden = conn.n, conn.n # 0
               PROVE  /\ shown'.gen # conn.n
                      /\ conn.stage = "connecting" => ~capable'
                      /\ Alive(conn.n)' => conn.n \in cancelled
    BY <1>1 DEF Forbids
  <2>1. conn.n \in Gens
    BY DEF IInv, TabTypes
  <2>2. /\ shown.gen # conn.n /\ (conn.stage = "connecting" => ~capable)
        /\ Alive(conn.n) => conn.n \in cancelled
    BY DEF IInv, Forbids
  <2>3. Alive(conn.n)' => Alive(conn.n)
    <3>1. conn.n # g => col'[conn.n] = col[conn.n]
      BY <2>1 DEF Others
    <3> QED
      BY <1>1, <3>1 DEF Alive
  <2> QED
    BY <2>2, <2>3 DEF Connected
<1> QED
  BY <1>2, <1>3, <1>4, <1>5, <1>6, <1>7 DEF IInv

LEMMA AtType ==
    ASSUME NEW c \in Collector, NEW pc \in PCs, MaxAttempts \in Nat
    PROVE  /\ At(c, pc) \in Collector /\ At(c, pc).pc = pc
           /\ pc \notin {"childEnd", "remove", "ended"} =>
                At(c, pc).gap = c.gap /\ At(c, pc).attempt = c.attempt
<1>1. CASE pc \in {"childEnd", "remove", "ended"}
  <2>1. At(c, pc) = [Fresh EXCEPT !.pc = pc]
    BY <1>1 DEF At
  <2> QED
    BY <1>1, <2>1, FreshType DEF Collector
<1>2. CASE pc \notin {"childEnd", "remove", "ended"}
  <2>1. PICK f \in BOOLEAN, s \in BOOLEAN, h \in Hows :
           At(c, pc) = [c EXCEPT !.pc = pc, !.fresh = f, !.how = h, !.stopping = s]
    BY <1>2 DEF At, Collector, Hows
  <2> QED
    BY <1>2, <2>1 DEF Collector
<1> QED
  BY <1>1, <1>2

\* Going on without a word.
LEMMA GoesTo ==
    ASSUME Constants, IInv, NEW g \in Gens, NEW pc \in PCs, Goes(g, pc)
    PROVE  /\ UNCHANGED <<shown, settled, capable>> /\ col' \in [Gens -> Collector]
           /\ col'[g] = At(col[g], pc) /\ \A h \in Gens \ {g} : col'[h] = col[h]
<1>1. col \in [Gens -> Collector] /\ MaxAttempts \in Nat
  BY DEF IInv, ColTypes, Constants
<1>2. At(col[g], pc) \in Collector
  BY <1>1, AtType
<1> QED
  BY <1>1, <1>2 DEF Goes

\* A collector goes on with what a step gave it.
Becomes(g, c, pc) ==
    /\ col'[g].pc = pc
    /\ pc \notin {"childEnd", "remove", "ended"} =>
         col'[g].gap = c.gap /\ col'[g].attempt = c.attempt

\* Publishing, if it may still.
LEMMA Publishes ==
    ASSUME Constants, IInv, NEW g \in Gens, NEW c \in Collector, NEW then \in PCs,
           NEW otherwise \in PCs, Publish(g, c, then, otherwise)
    PROVE  /\ SeenTypes' /\ col' \in [Gens -> Collector]
           /\ \A h \in Gens \ {g} : col'[h] = col[h] /\ settled'[h] = settled[h]
           /\ \/ /\ MayPublish(g, c) /\ shown'.gen = g /\ shown'.phase = c.phase
                 /\ settled'[g] = CASE c.phase = "stopped" -> "off" [] c.phase = "starting" -> "on"
                                    [] OTHER -> settled[g]
                 /\ capable' = capable \/ (c.phase = "unsupported" /\ ~capable')
                 /\ Becomes(g, c, then)
              \/ /\ UNCHANGED <<shown, settled, capable>>
                 /\ Becomes(g, c, otherwise)
<1>1. col \in [Gens -> Collector] /\ MaxAttempts \in Nat /\ g # 0
  BY DEF IInv, ColTypes, Constants
<1>2. At(c, then) \in Collector /\ At(c, otherwise) \in Collector
  BY <1>1, AtType
<1>7. (col'[g] = At(c, then) => Becomes(g, c, then))
      /\ (col'[g] = At(c, otherwise) => Becomes(g, c, otherwise))
  BY <1>1, AtType DEF Becomes
<1>3. c.phase \in Phases /\ c.phase # "none" /\ c.ssh \in BOOLEAN
  BY DEF Collector, Phases
<1>4. settled \in [Gens -> {"none", "on", "off"}] /\ capable \in BOOLEAN /\ SeenTypes
  BY DEF IInv, SeenTypes
<1>5. CASE MayPublish(g, c)
  <2>1. /\ shown' = [gen |-> g, phase |-> c.phase, ssh |-> c.ssh]
        /\ settled' = CASE c.phase = "stopped" -> [settled EXCEPT ![g] = "off"]
                        [] c.phase = "starting" -> [settled EXCEPT ![g] = "on"]
                        [] OTHER -> settled
        /\ capable' = (capable /\ c.phase # "unsupported")
        /\ col' = [col EXCEPT ![g] = At(c, then)]
    BY <1>5 DEF Publish
  <2>2. settled' \in [Gens -> {"none", "on", "off"}]
        /\ \A h \in Gens \ {g} : settled'[h] = settled[h]
        /\ settled'[g] = CASE c.phase = "stopped" -> "off" [] c.phase = "starting" -> "on"
                           [] OTHER -> settled[g]
    BY <1>4, <2>1
  <2>3. SeenTypes'
    BY <1>1, <1>3, <1>4, <2>1, <2>2 DEF SeenTypes
  <2> QED
    BY <1>1, <1>2, <1>4, <1>5, <1>7, <2>1, <2>2, <2>3
<1>6. CASE ~MayPublish(g, c)
  <2>1. UNCHANGED <<shown, settled, capable>> /\ col' = [col EXCEPT ![g] = At(c, otherwise)]
    BY <1>6 DEF Publish
  <2> QED
    BY <1>1, <1>2, <1>4, <1>7, <2>1 DEF SeenTypes
<1> QED
  BY <1>5, <1>6

\* What a step of a collector leaves of it: all that the invariant tells apart.
LEMMA Quiet ==
    ASSUME Constants, IInv, NEW g \in Gens, Mine, Others(g), ColTypes',
           UNCHANGED <<shown, settled, capable>>, Alive(g)' => Alive(g), Ordered(g)'
    PROVE  IInv'
<1>1. SeenTypes'
  BY DEF IInv, SeenTypes
<1> QED
  BY <1>1, CollectorStep

LEMMA Published ==
    ASSUME Constants, IInv, NEW g \in Gens, NEW c \in Collector, NEW then \in PCs,
           NEW otherwise \in PCs, Publish(g, c, then, otherwise), Mine, Others(g), ColTypes',
           c.phase \notin Final \/ c.phase = "stopped" \/ g \in enabled,
           Alive(g), Ordered(g)'
    PROVE  IInv'
<1>1. SeenTypes'
  BY Publishes
<1>2. \/ UNCHANGED <<shown, settled, capable>>
      \/ /\ MayPublish(g, c) /\ shown'.gen = g /\ shown'.phase = c.phase
         /\ capable' = capable \/ (c.phase = "unsupported" /\ ~capable')
  BY Publishes
<1>3. \/ shown' = shown
      \/ shown.gen = g /\ shown'.gen = g /\ (g \in enabled \/ shown'.phase = "stopped")
  BY <1>2 DEF MayPublish, Final
<1>4. capable' = capable \/ (Connected /\ ~capable')
  BY <1>2 DEF MayPublish, Final
<1> QED
  BY <1>1, <1>3, <1>4, CollectorStep

-------------------------------------------------------------------------------
(***************************************************************************)
(* Steps that say nothing                                                  *)
(***************************************************************************)

LEMMA SuperviseInv == ASSUME Constants, IInv, NEW g \in Gens, Supervise(g) PROVE IInv'
<1>1. PICK pc \in {"remove", "top"} : Goes(g, pc)
  BY DEF Supervise
<1>2. /\ UNCHANGED <<shown, settled, capable>> /\ col' \in [Gens -> Collector]
      /\ col'[g] = At(col[g], pc) /\ \A h \in Gens \ {g} : col'[h] = col[h]
  BY <1>1, GoesTo DEF PCs, Busy, Working
<1>3. /\ col'[g].pc = pc
      /\ pc \notin {"childEnd", "remove", "ended"} =>
            col'[g].gap = col[g].gap /\ col'[g].attempt = col[g].attempt
  BY <1>1, <1>2, AtType DEF IInv, ColTypes, Constants, PCs, Busy, Working
<1>4. Mine /\ UNCHANGED <<clicks, channels, opened, torn, crashes, points, joined>>
      /\ col[g].pc = "supervise"
  BY <1>1 DEF Supervise, NoSample, Goes
<1>5. ColTypes' /\ Others(g)
  BY <1>2, <1>4 DEF IInv, ColTypes, Others, channels
<1>6. Ordered(g)'
  BY <1>1, <1>2, <1>3, <1>4 DEF IInv, Ordered, OneOpening, HasChannel, Counted, Channeled, Held, Alive,
       Current, Unspawned, Past, Controlled, Settled, Showing, Marked, Busy, Working,
       ColTypes, Collector, Constants, Mine, tab, controls, channels
<1>7. Alive(g)' => Alive(g)
  BY <1>3, <1>4 DEF Alive
<1> QED
  BY <1>2, <1>4, <1>5, <1>6, <1>7, Quiet

LEMMA LeaveIdleInv == ASSUME Constants, IInv, NEW g \in Gens, LeaveIdle(g) PROVE IInv'
<1>1. PICK pc \in {"childEnd"} : Goes(g, pc)
  BY DEF LeaveIdle
<1>2. /\ UNCHANGED <<shown, settled, capable>> /\ col' \in [Gens -> Collector]
      /\ col'[g] = At(col[g], pc) /\ \A h \in Gens \ {g} : col'[h] = col[h]
  BY <1>1, GoesTo DEF PCs, Busy, Working
<1>3. /\ col'[g].pc = pc
      /\ pc \notin {"childEnd", "remove", "ended"} =>
            col'[g].gap = col[g].gap /\ col'[g].attempt = col[g].attempt
  BY <1>1, <1>2, AtType DEF IInv, ColTypes, Constants, PCs, Busy, Working
<1>4. Mine /\ UNCHANGED <<clicks, channels, opened, torn, crashes, points, joined>>
      /\ col[g].pc = "idle"
  BY <1>1 DEF LeaveIdle, NoSample, Goes
<1>5. ColTypes' /\ Others(g)
  BY <1>2, <1>4 DEF IInv, ColTypes, Others, channels
<1>6. Ordered(g)'
  BY <1>1, <1>2, <1>3, <1>4 DEF IInv, Ordered, OneOpening, HasChannel, Counted, Channeled, Held, Alive,
       Current, Unspawned, Past, Controlled, Settled, Showing, Marked, Busy, Working,
       ColTypes, Collector, Constants, Mine, tab, controls, channels
<1>7. Alive(g)' => Alive(g)
  BY <1>3, <1>4 DEF Alive
<1> QED
  BY <1>2, <1>4, <1>5, <1>6, <1>7, Quiet

LEMMA WorkEndsInv == ASSUME Constants, IInv, NEW g \in Gens, WorkEnds(g) PROVE IInv'
<1>1. PICK pc \in {"childEnd", "top"} : Goes(g, pc) /\ (pc = "top" => g \notin enabled)
  BY DEF WorkEnds
<1>2. /\ UNCHANGED <<shown, settled, capable>> /\ col' \in [Gens -> Collector]
      /\ col'[g] = At(col[g], pc) /\ \A h \in Gens \ {g} : col'[h] = col[h]
  BY <1>1, GoesTo DEF PCs, Busy, Working
<1>3. /\ col'[g].pc = pc
      /\ pc \notin {"childEnd", "remove", "ended"} =>
            col'[g].gap = col[g].gap /\ col'[g].attempt = col[g].attempt
  BY <1>1, <1>2, AtType DEF IInv, ColTypes, Constants, PCs, Busy, Working
<1>4. Mine /\ UNCHANGED <<clicks, channels, opened, torn, crashes, points, joined>>
      /\ col[g].pc = "workEnd" /\ (pc = "top" => g \notin enabled)
  BY <1>1 DEF WorkEnds, NoSample, Goes
<1>5. ColTypes' /\ Others(g)
  BY <1>2, <1>4 DEF IInv, ColTypes, Others, channels
<1>6. Ordered(g)'
  BY <1>1, <1>2, <1>3, <1>4 DEF IInv, Ordered, OneOpening, HasChannel, Counted, Channeled, Held, Alive,
       Current, Unspawned, Past, Controlled, Settled, Showing, Marked, Busy, Working,
       ColTypes, Collector, Constants, Mine, tab, controls, channels
<1>7. Alive(g)' => Alive(g)
  BY <1>3, <1>4 DEF Alive
<1> QED
  BY <1>2, <1>4, <1>5, <1>6, <1>7, Quiet

LEMMA LeaveWaitInv == ASSUME Constants, IInv, NEW g \in Gens, LeaveWait(g) PROVE IInv'
<1>1. PICK pc \in {"workEnd"} : Goes(g, pc)
  BY DEF LeaveWait
<1>2. /\ UNCHANGED <<shown, settled, capable>> /\ col' \in [Gens -> Collector]
      /\ col'[g] = At(col[g], pc) /\ \A h \in Gens \ {g} : col'[h] = col[h]
  BY <1>1, GoesTo DEF PCs, Busy, Working
<1>3. /\ col'[g].pc = pc
      /\ pc \notin {"childEnd", "remove", "ended"} =>
            col'[g].gap = col[g].gap /\ col'[g].attempt = col[g].attempt
  BY <1>1, <1>2, AtType DEF IInv, ColTypes, Constants, PCs, Busy, Working
<1>4. Mine /\ UNCHANGED <<clicks, channels, opened, torn, crashes, points, joined>>
      /\ col[g].pc \in {"waiting", "failed"}
  BY <1>1 DEF LeaveWait, NoSample, Goes
<1>5. ColTypes' /\ Others(g)
  BY <1>2, <1>4 DEF IInv, ColTypes, Others, channels
<1>6. Ordered(g)'
  BY <1>1, <1>2, <1>3, <1>4 DEF IInv, Ordered, OneOpening, HasChannel, Counted, Channeled, Held, Alive,
       Current, Unspawned, Past, Controlled, Settled, Showing, Marked, Busy, Working,
       ColTypes, Collector, Constants, Mine, tab, controls, channels
<1>7. Alive(g)' => Alive(g)
  BY <1>3, <1>4 DEF Alive
<1> QED
  BY <1>2, <1>4, <1>5, <1>6, <1>7, Quiet

LEMMA OpenInv == ASSUME Constants, IInv, NEW g \in Gens, Open(g) PROVE IInv'
<1>1. PICK pc \in {"workEnd", "opening"} : Goes(g, pc)
           /\ \/ opened' = opened
              \/ pc = "opening" /\ opened' = [opened EXCEPT ![g] = @ + 1]
  BY DEF Open
<1>2. /\ UNCHANGED <<shown, settled, capable>> /\ col' \in [Gens -> Collector]
      /\ col'[g] = At(col[g], pc) /\ \A h \in Gens \ {g} : col'[h] = col[h]
  BY <1>1, GoesTo DEF PCs, Busy, Working
<1>3. /\ col'[g].pc = pc
      /\ pc \notin {"childEnd", "remove", "ended"} =>
            col'[g].gap = col[g].gap /\ col'[g].attempt = col[g].attempt
  BY <1>1, <1>2, AtType DEF IInv, ColTypes, Constants, PCs, Busy, Working
<1>4. Mine /\ UNCHANGED <<clicks, channels, torn, crashes, points, joined>>
      /\ col[g].pc = "open" /\ opened' \in [Gens -> Nat]
      /\ \A h \in Gens \ {g} : opened'[h] = opened[h]
      /\ \/ opened'[g] = opened[g]
         \/ (pc = "opening" /\ opened'[g] = opened[g] + 1)
  BY <1>1 DEF Open, NoSample, IInv, ColTypes
<1>5. ColTypes' /\ Others(g)
  BY <1>2, <1>4 DEF IInv, ColTypes, Others, channels
<1>6. Ordered(g)'
  BY <1>1, <1>2, <1>3, <1>4 DEF IInv, Ordered, OneOpening, HasChannel, Counted, Channeled, Held, Alive,
       Current, Unspawned, Past, Controlled, Settled, Showing, Marked, Busy, Working,
       ColTypes, Collector, Constants, Mine, tab, controls, channels
<1>7. Alive(g)' => Alive(g)
  BY <1>3, <1>4 DEF Alive
<1> QED
  BY <1>2, <1>4, <1>5, <1>6, <1>7, Quiet

LEMMA OpenedInv == ASSUME Constants, IInv, NEW g \in Gens, Opened(g) PROVE IInv'
<1>1. PICK pc \in {"setup"} : Goes(g, pc)
  BY DEF Opened
<1>2. /\ UNCHANGED <<shown, settled, capable>> /\ col' \in [Gens -> Collector]
      /\ col'[g] = At(col[g], pc) /\ \A h \in Gens \ {g} : col'[h] = col[h]
  BY <1>1, GoesTo DEF PCs, Busy, Working
<1>3. /\ col'[g].pc = pc
      /\ pc \notin {"childEnd", "remove", "ended"} =>
            col'[g].gap = col[g].gap /\ col'[g].attempt = col[g].attempt
  BY <1>1, <1>2, AtType DEF IInv, ColTypes, Constants, PCs, Busy, Working
<1>4. Mine /\ UNCHANGED <<clicks, late, closing, opened, torn, crashes, points, joined>>
      /\ g \in asked /\ asked' = asked \ {g}
  BY <1>1 DEF Opened, NoSample, Goes
<1>5. ColTypes' /\ Others(g)
  BY <1>2, <1>4 DEF IInv, ColTypes, Others, channels
<1>6. Ordered(g)'
  BY <1>1, <1>2, <1>3, <1>4 DEF IInv, Ordered, OneOpening, HasChannel, Counted, Channeled, Held, Alive,
       Current, Unspawned, Past, Controlled, Settled, Showing, Marked, Busy, Working,
       ColTypes, Collector, Constants, Mine, tab, controls, channels
<1>7. Alive(g)' => Alive(g)
  BY <1>3, <1>4 DEF IInv, Ordered, OneOpening, Alive
<1> QED
  BY <1>2, <1>4, <1>5, <1>6, <1>7, Quiet

LEMMA PanicInv == ASSUME Constants, IInv, NEW g \in Gens, Panic(g) PROVE IInv'
<1>1. PICK pc \in {"childEnd"} : Goes(g, pc)
  BY DEF Panic
<1>2. /\ UNCHANGED <<shown, settled, capable>> /\ col' \in [Gens -> Collector]
      /\ col'[g] = At(col[g], pc) /\ \A h \in Gens \ {g} : col'[h] = col[h]
  BY <1>1, GoesTo DEF PCs, Busy, Working
<1>3. /\ col'[g].pc = pc
      /\ pc \notin {"childEnd", "remove", "ended"} =>
            col'[g].gap = col[g].gap /\ col'[g].attempt = col[g].attempt
  BY <1>1, <1>2, AtType DEF IInv, ColTypes, Constants, PCs, Busy, Working
<1>4. Mine /\ UNCHANGED <<clicks, channels, opened, points, joined>>
      /\ crashes' \in 0..Crashes /\ torn' = torn \cup {g} /\ col[g].pc = "read"
  BY <1>1 DEF Panic, NoSample, Goes, Torn, IInv, ColTypes, Constants
<1>5. ColTypes' /\ Others(g)
  BY <1>2, <1>4 DEF IInv, ColTypes, Others, channels
<1>6. Ordered(g)'
  BY <1>1, <1>2, <1>3, <1>4 DEF IInv, Ordered, OneOpening, HasChannel, Counted, Channeled, Held, Alive,
       Current, Unspawned, Past, Controlled, Settled, Showing, Marked, Busy, Working,
       ColTypes, Collector, Constants, Mine, tab, controls, channels
<1>7. Alive(g)' => Alive(g)
  BY <1>3, <1>4 DEF Alive
<1> QED
  BY <1>2, <1>4, <1>5, <1>6, <1>7, Quiet

LEMMA NoticeInv == ASSUME Constants, IInv, NEW g \in Gens, Notice(g) PROVE IInv'
<1>1. PICK c \in Collector : /\ col' = [col EXCEPT ![g] = c]
                             /\ c.pc = col[g].pc /\ c.gap = col[g].gap /\ c.attempt = col[g].attempt
  <2> DEFINE r == [col[g] EXCEPT !.stopping = TRUE]
  <2>1. col[g] \in Collector
    BY DEF IInv, ColTypes
  <2>2. r \in Collector /\ r.pc = col[g].pc /\ r.gap = col[g].gap /\ r.attempt = col[g].attempt
    BY <2>1 DEF Collector, PCs, Busy, Working, Hows
  <2>3. col' = [col EXCEPT ![g] = r]
    BY DEF Notice
  <2> QED
    BY <2>2, <2>3
<1>2. /\ UNCHANGED <<shown, settled, capable>> /\ col' \in [Gens -> Collector]
      /\ col'[g] = c /\ \A h \in Gens \ {g} : col'[h] = col[h]
  BY <1>1 DEF Notice, IInv, ColTypes
<1>3. col'[g].pc = col[g].pc /\ col'[g].gap = col[g].gap /\ col'[g].attempt = col[g].attempt
  BY <1>1, <1>2
<1>4. Mine /\ UNCHANGED <<clicks, channels, opened, torn, crashes, points, joined>>
  BY <1>1 DEF Notice, NoSample, Goes
<1>5. ColTypes' /\ Others(g)
  BY <1>2, <1>4 DEF IInv, ColTypes, Others, channels
<1>6. Ordered(g)'
  BY <1>1, <1>2, <1>3, <1>4 DEF IInv, Ordered, OneOpening, HasChannel, Counted, Channeled, Held, Alive,
       Current, Unspawned, Past, Controlled, Settled, Showing, Marked, Busy, Working,
       ColTypes, Collector, Constants, Mine, tab, controls, channels
<1>7. Alive(g)' => Alive(g)
  BY <1>3, <1>4 DEF Alive
<1> QED
  BY <1>2, <1>4, <1>5, <1>6, <1>7, Quiet

LEMMA AskInv == ASSUME Constants, IInv, NEW g \in Gens, Ask(g) PROVE IInv'
<1>2. /\ UNCHANGED <<shown, settled, capable>> /\ col' \in [Gens -> Collector]
      /\ \A h \in Gens \ {g} : col'[h] = col[h]
  BY DEF Ask, IInv, ColTypes, seen, Asking
<1>3. col' = col
  BY DEF Ask, IInv, ColTypes, Asking
<1>4. Mine /\ UNCHANGED <<clicks, late, closing, opened, torn, crashes, points, joined>>
      /\ late[g] = 0 /\ closing[g] = 0 /\ asked' = asked \cup {g} /\ col[g].pc = "opening"
  BY DEF Ask, seen, NoSample, Goes, Asking
<1>5. ColTypes' /\ Others(g)
  BY <1>2, <1>4 DEF IInv, ColTypes, Others, channels
<1>6. Ordered(g)'
  BY <1>2, <1>3, <1>4 DEF IInv, Ordered, OneOpening, HasChannel, Counted, Channeled, Held, Alive,
       Current, Unspawned, Past, Controlled, Settled, Showing, Marked, Busy, Working,
       ColTypes, Collector, Constants, Mine, tab, controls, channels
<1>7. Alive(g)' => Alive(g)
  BY <1>3, <1>4 DEF Alive
<1> QED
  BY <1>2, <1>4, <1>5, <1>6, <1>7, Quiet

LEMMA OpenFailsInv == ASSUME Constants, IInv, NEW g \in Gens, OpenFails(g) PROVE IInv'
<1>1. PICK c \in Collector : /\ col' = [col EXCEPT ![g] = c]
                             /\ c.pc = "after" /\ c.gap = col[g].gap /\ c.attempt = col[g].attempt
  <2> DEFINE r == [col[g] EXCEPT !.pc = "after", !.how = "startup", !.fresh = FALSE]
  <2>1. col[g] \in Collector
    BY DEF IInv, ColTypes
  <2>2. r \in Collector /\ r.pc = "after" /\ r.gap = col[g].gap /\ r.attempt = col[g].attempt
    BY <2>1 DEF Collector, PCs, Busy, Working, Hows
  <2>3. col' = [col EXCEPT ![g] = r]
    BY DEF OpenFails
  <2> QED
    BY <2>2, <2>3
<1>2. /\ UNCHANGED <<shown, settled, capable>> /\ col' \in [Gens -> Collector]
      /\ col'[g] = c /\ \A h \in Gens \ {g} : col'[h] = col[h]
  BY <1>1 DEF OpenFails, IInv, ColTypes
<1>3. col'[g].pc = "after" /\ col'[g].gap = col[g].gap /\ col'[g].attempt = col[g].attempt
  BY <1>1, <1>2
<1>4. Mine /\ UNCHANGED <<clicks, closing, opened, torn, crashes, points, joined>>
      /\ col[g].pc = "opening" /\ asked' = asked \ {g}
      /\ \A h \in Gens \ {g} : late'[h] = late[h]
      /\ \/ late'[g] = late[g]
         \/ (g \in asked /\ late'[g] = late[g] + 1)
  BY <1>1 DEF OpenFails, NoSample, IInv, ColTypes
<1>8. late' \in [Gens -> Nat] /\ closing' \in [Gens -> Nat]
  BY DEF OpenFails, IInv, ColTypes
<1>5. ColTypes' /\ Others(g)
  BY <1>2, <1>4, <1>8 DEF IInv, ColTypes, Others, channels
<1>6. Ordered(g)'
  <2>1. Ordered(g) /\ late[g] \in Nat /\ closing[g] \in Nat
    BY DEF IInv, ColTypes
  <2>2. OneOpening(g)'
    <3>1. /\ g \in asked => col[g].pc = "opening"
          /\ late[g] + closing[g] <= 1
          /\ g \in asked \/ HasChannel(g) => late[g] = 0 /\ closing[g] = 0
      BY <2>1 DEF Ordered, OneOpening
    <3>0. /\ \/ late'[g] = late[g]
             \/ g \in asked /\ late'[g] = late[g] + 1
          /\ closing'[g] = closing[g]
      BY DEF OpenFails, IInv, ColTypes
    <3>2. late'[g] + closing'[g] <= 1
      BY <2>1, <3>0, <3>1
    <3>3. g \in asked' => col'[g].pc = "opening"
      BY <1>3, <1>4, <3>1
    <3>4. g \in asked' \/ HasChannel(g)' => late'[g] = 0 /\ closing'[g] = 0
      BY <1>3, <1>4 DEF HasChannel
    <3> QED
      BY <3>2, <3>3, <3>4 DEF OneOpening
  <2>3. Counted(g)' /\ Held(g)' /\ Current(g)' /\ Unspawned(g)' /\ Past(g)' /\ Controlled(g)'
        /\ Settled(g)' /\ Showing(g)' /\ Marked(g)'
    BY <1>1, <1>2, <1>3, <1>4, <2>1 DEF Ordered, Counted, Channeled, Held, Alive, Current, Unspawned, Past,
         Controlled, Settled, Showing, Marked, Busy, Working, Mine, tab, controls
  <2> QED
    BY <2>2, <2>3 DEF Ordered
<1>7. Alive(g)' => Alive(g)
  BY <1>3, <1>4 DEF Alive
<1> QED
  BY <1>2, <1>4, <1>5, <1>6, <1>7, Quiet

LEMMA LateAnswerInv == ASSUME Constants, IInv, NEW g \in Gens, LateAnswer(g) PROVE IInv'
<1>2. /\ UNCHANGED <<shown, settled, capable>> /\ col' \in [Gens -> Collector]
      /\ \A h \in Gens \ {g} : col'[h] = col[h]
  BY DEF LateAnswer, IInv, ColTypes, seen
<1>3. col' = col
  BY DEF LateAnswer, IInv, ColTypes
<1>4. Mine /\ UNCHANGED <<clicks, asked, opened, torn, crashes, points, joined>>
      /\ \A h \in Gens \ {g} : late'[h] = late[h] /\ closing'[h] = closing[h]
      /\ late[g] > 0 /\ late'[g] = late[g] - 1 /\ closing'[g] \in {closing[g], closing[g] + 1}
  BY DEF LateAnswer, seen, IInv, ColTypes
<1>8. late' \in [Gens -> Nat] /\ closing' \in [Gens -> Nat]
  BY DEF LateAnswer, IInv, ColTypes
<1>5. ColTypes' /\ Others(g)
  BY <1>2, <1>4, <1>8 DEF IInv, ColTypes, Others, channels
<1>6. Ordered(g)'
  <2>1. Ordered(g) /\ late[g] \in Nat /\ closing[g] \in Nat
    BY DEF IInv, ColTypes
  <2>2. OneOpening(g)'
    <3>1. /\ g \in asked => col[g].pc = "opening"
          /\ late[g] + closing[g] <= 1
          /\ g \in asked \/ HasChannel(g) => late[g] = 0 /\ closing[g] = 0
      BY <2>1 DEF Ordered, OneOpening
    <3>0. /\ late[g] > 0 /\ late'[g] = late[g] - 1
          /\ closing'[g] = closing[g] \/ closing'[g] = closing[g] + 1
      BY DEF LateAnswer, IInv, ColTypes
    <3>2. late'[g] + closing'[g] <= 1
      BY <2>1, <3>0, <3>1
    <3>3. g \in asked' => col'[g].pc = "opening"
      BY <1>3, <1>4, <3>1
    <3>4. g \in asked' \/ HasChannel(g)' => late'[g] = 0 /\ closing'[g] = 0
      <4>1. g \in asked' \/ HasChannel(g)' => g \in asked \/ HasChannel(g)
        BY <1>3, <1>4 DEF HasChannel
      <4> QED
        BY <2>1, <3>0, <3>1, <4>1
    <3> QED
      BY <3>2, <3>3, <3>4 DEF OneOpening
  <2>3. Counted(g)' /\ Held(g)' /\ Current(g)' /\ Unspawned(g)' /\ Past(g)' /\ Controlled(g)'
        /\ Settled(g)' /\ Showing(g)' /\ Marked(g)'
    BY <1>2, <1>3, <1>4, <2>1 DEF Ordered, Counted, Channeled, Held, Alive, Current, Unspawned, Past,
         Controlled, Settled, Showing, Marked, Busy, Working, Mine, tab, controls
  <2> QED
    BY <2>2, <2>3 DEF Ordered
<1>7. Alive(g)' => Alive(g)
  BY <1>3, <1>4 DEF Alive
<1> QED
  BY <1>2, <1>4, <1>5, <1>6, <1>7, Quiet

LEMMA LateCloseInv == ASSUME Constants, IInv, NEW g \in Gens, LateClose(g) PROVE IInv'
<1>2. /\ UNCHANGED <<shown, settled, capable>> /\ col' \in [Gens -> Collector]
      /\ \A h \in Gens \ {g} : col'[h] = col[h]
  BY DEF LateClose, IInv, ColTypes, seen
<1>3. col' = col
  BY DEF LateClose, IInv, ColTypes
<1>4. Mine /\ UNCHANGED <<clicks, asked, late, opened, torn, crashes, points, joined>>
      /\ \A h \in Gens \ {g} : closing'[h] = closing[h]
      /\ closing[g] > 0 /\ closing'[g] = closing[g] - 1
  BY DEF LateClose, seen, IInv, ColTypes
<1>8. late' \in [Gens -> Nat] /\ closing' \in [Gens -> Nat]
  BY DEF LateClose, IInv, ColTypes
<1>5. ColTypes' /\ Others(g)
  BY <1>2, <1>4, <1>8 DEF IInv, ColTypes, Others, channels
<1>6. Ordered(g)'
  <2>1. Ordered(g) /\ late[g] \in Nat /\ closing[g] \in Nat
    BY DEF IInv, ColTypes
  <2>2. OneOpening(g)'
    <3>1. /\ g \in asked => col[g].pc = "opening"
          /\ late[g] + closing[g] <= 1
          /\ g \in asked \/ HasChannel(g) => late[g] = 0 /\ closing[g] = 0
      BY <2>1 DEF Ordered, OneOpening
    <3>0. closing[g] > 0 /\ closing'[g] = closing[g] - 1 /\ late'[g] = late[g]
      BY DEF LateClose, IInv, ColTypes
    <3>2. late'[g] + closing'[g] <= 1
      BY <2>1, <3>0, <3>1
    <3>3. g \in asked' => col'[g].pc = "opening"
      BY <1>3, <1>4, <3>1
    <3>4. g \in asked' \/ HasChannel(g)' => late'[g] = 0 /\ closing'[g] = 0
      <4>1. g \in asked' \/ HasChannel(g)' => g \in asked \/ HasChannel(g)
        BY <1>3, <1>4 DEF HasChannel
      <4> QED
        BY <2>1, <3>0, <3>1, <4>1
    <3> QED
      BY <3>2, <3>3, <3>4 DEF OneOpening
  <2>3. Counted(g)' /\ Held(g)' /\ Current(g)' /\ Unspawned(g)' /\ Past(g)' /\ Controlled(g)'
        /\ Settled(g)' /\ Showing(g)' /\ Marked(g)'
    BY <1>2, <1>3, <1>4, <2>1 DEF Ordered, Counted, Channeled, Held, Alive, Current, Unspawned, Past,
         Controlled, Settled, Showing, Marked, Busy, Working, Mine, tab, controls
  <2> QED
    BY <2>2, <2>3 DEF Ordered
<1>7. Alive(g)' => Alive(g)
  BY <1>3, <1>4 DEF Alive
<1> QED
  BY <1>2, <1>4, <1>5, <1>6, <1>7, Quiet

LEMMA SetupInv == ASSUME Constants, IInv, NEW g \in Gens, Setup(g) PROVE IInv'
<1>1. PICK c \in Collector : /\ col' = [col EXCEPT ![g] = c]
                             /\ c.pc \in {"read", "after"} /\ c.gap = col[g].gap /\ c.attempt = col[g].attempt
  <2>1. PICK pc \in {"read", "after"} : col' = [col EXCEPT ![g].pc = pc, ![g].fresh = FALSE, ![g].how = "startup"]
    BY DEF Setup
  <2> DEFINE r == [col[g] EXCEPT !.pc = pc, !.fresh = FALSE, !.how = "startup"]
  <2>2. col[g] \in Collector
    BY DEF IInv, ColTypes
  <2>3. r \in Collector /\ r.pc = pc /\ r.gap = col[g].gap /\ r.attempt = col[g].attempt
    BY <2>2 DEF Collector, PCs, Busy, Working, Hows
  <2>4. col' = [col EXCEPT ![g] = r]
    BY <2>1
  <2> QED
    BY <2>3, <2>4
<1>2. /\ UNCHANGED <<shown, settled, capable>> /\ col' \in [Gens -> Collector]
      /\ col'[g] = c /\ \A h \in Gens \ {g} : col'[h] = col[h]
  BY <1>1 DEF Setup, IInv, ColTypes
<1>3. col'[g].pc \in {"read", "after"} /\ col'[g].gap = col[g].gap /\ col'[g].attempt = col[g].attempt
  BY <1>1, <1>2
<1>4. Mine /\ UNCHANGED <<clicks, channels, opened, torn, crashes, points, joined>> /\ col[g].pc = "setup"
  BY <1>1 DEF Setup, NoSample, Goes
<1>5. ColTypes' /\ Others(g)
  BY <1>2, <1>4 DEF IInv, ColTypes, Others, channels
<1>6. Ordered(g)'
  BY <1>1, <1>2, <1>3, <1>4 DEF IInv, Ordered, OneOpening, HasChannel, Counted, Channeled, Held, Alive,
       Current, Unspawned, Past, Controlled, Settled, Showing, Marked, Busy, Working,
       ColTypes, Collector, Constants, Mine, tab, controls, channels
<1>7. Alive(g)' => Alive(g)
  BY <1>3, <1>4 DEF Alive
<1> QED
  BY <1>2, <1>4, <1>5, <1>6, <1>7, Quiet

LEMMA EndsInv == ASSUME Constants, IInv, NEW g \in Gens, Ends(g) PROVE IInv'
<1>1. PICK c \in Collector : /\ col' = [col EXCEPT ![g] = c]
                             /\ c.pc = "close" /\ c.gap = col[g].gap /\ c.attempt = col[g].attempt
  <2>1. PICK how \in Hows : col' = [col EXCEPT ![g].pc = "close", ![g].how = how]
    BY DEF Ends, ReadEnds, Hows
  <2> DEFINE r == [col[g] EXCEPT !.pc = "close", !.how = how]
  <2>2. col[g] \in Collector
    BY DEF IInv, ColTypes
  <2>3. r \in Collector /\ r.pc = "close" /\ r.gap = col[g].gap /\ r.attempt = col[g].attempt
    BY <2>2 DEF Collector, PCs, Busy, Working, Hows
  <2>4. col' = [col EXCEPT ![g] = r]
    BY <2>1
  <2> QED
    BY <2>3, <2>4
<1>2. /\ UNCHANGED <<shown, settled, capable>> /\ col' \in [Gens -> Collector]
      /\ col'[g] = c /\ \A h \in Gens \ {g} : col'[h] = col[h]
  BY <1>1 DEF Ends, IInv, ColTypes, ReadEnds, Torn, Hows
<1>3. col'[g].pc = "close" /\ col'[g].gap = col[g].gap /\ col'[g].attempt = col[g].attempt
  BY <1>1, <1>2
<1>4. Mine /\ UNCHANGED <<clicks, channels, opened, crashes, points, joined>>
      /\ torn' = torn \cup {g} /\ col[g].pc = "read"
  BY <1>1 DEF Ends, NoSample, Goes, ReadEnds, Torn, Hows
<1>5. ColTypes' /\ Others(g)
  BY <1>2, <1>4 DEF IInv, ColTypes, Others, channels
<1>6. Ordered(g)'
  BY <1>1, <1>2, <1>3, <1>4 DEF IInv, Ordered, OneOpening, HasChannel, Counted, Channeled, Held, Alive,
       Current, Unspawned, Past, Controlled, Settled, Showing, Marked, Busy, Working,
       ColTypes, Collector, Constants, Mine, tab, controls, channels
<1>7. Alive(g)' => Alive(g)
  BY <1>3, <1>4 DEF Alive
<1> QED
  BY <1>2, <1>4, <1>5, <1>6, <1>7, Quiet

LEMMA ClickWhilePausedInv == ASSUME Constants, IInv, NEW g \in Gens, ClickWhilePaused(g) PROVE IInv'
<1>1. PICK c \in Collector : /\ col' = [col EXCEPT ![g] = c]
                             /\ c.pc = "close" /\ c.gap = col[g].gap /\ c.attempt = col[g].attempt
  <2>1. PICK how \in Hows : col' = [col EXCEPT ![g].pc = "close", ![g].how = how]
    BY DEF ClickWhilePaused, ReadEnds, Hows
  <2> DEFINE r == [col[g] EXCEPT !.pc = "close", !.how = how]
  <2>2. col[g] \in Collector
    BY DEF IInv, ColTypes
  <2>3. r \in Collector /\ r.pc = "close" /\ r.gap = col[g].gap /\ r.attempt = col[g].attempt
    BY <2>2 DEF Collector, PCs, Busy, Working, Hows
  <2>4. col' = [col EXCEPT ![g] = r]
    BY <2>1
  <2> QED
    BY <2>3, <2>4
<1>2. /\ UNCHANGED <<shown, settled, capable>> /\ col' \in [Gens -> Collector]
      /\ col'[g] = c /\ \A h \in Gens \ {g} : col'[h] = col[h]
  BY <1>1 DEF ClickWhilePaused, IInv, ColTypes, ReadEnds, Torn, Hows
<1>3. col'[g].pc = "close" /\ col'[g].gap = col[g].gap /\ col'[g].attempt = col[g].attempt
  BY <1>1, <1>2
<1>4. Mine /\ UNCHANGED <<channels, opened, crashes, points, joined>>
      /\ torn' = torn \cup {g} /\ clicks' = clicks \ {g}
      /\ col[g].pc = "read"
  BY <1>1 DEF ClickWhilePaused, NoSample, Goes, ReadEnds, Torn, Hows
<1>5. ColTypes' /\ Others(g)
  BY <1>2, <1>4 DEF IInv, ColTypes, Others, channels
<1>6. Ordered(g)'
  BY <1>1, <1>2, <1>3, <1>4 DEF IInv, Ordered, OneOpening, HasChannel, Counted, Channeled, Held, Alive,
       Current, Unspawned, Past, Controlled, Settled, Showing, Marked, Busy, Working,
       ColTypes, Collector, Constants, Mine, tab, controls, channels
<1>7. Alive(g)' => Alive(g)
  BY <1>3, <1>4 DEF Alive
<1> QED
  BY <1>2, <1>4, <1>5, <1>6, <1>7, Quiet

-------------------------------------------------------------------------------
(***************************************************************************)
(* Steps that publish                                                      *)
(***************************************************************************)

LEMMA Zero == Constants => MaxAttempts \in Nat /\ 0 \in 0..(MaxAttempts + 1)
BY DEF Constants

LEMMA TopInv == ASSUME Constants, IInv, NEW g \in Gens, Top(g) PROVE IInv'
<1>1. CASE Gone(g) /\ Goes(g, "childEnd")
  <2>1. /\ UNCHANGED <<shown, settled, capable>> /\ col' \in [Gens -> Collector]
        /\ col'[g] = At(col[g], "childEnd") /\ \A h \in Gens \ {g} : col'[h] = col[h]
    BY <1>1, GoesTo DEF PCs
  <2>2. col'[g].pc = "childEnd"
    BY <2>1, AtType DEF IInv, ColTypes, Constants, PCs
  <2>3. Mine /\ UNCHANGED <<clicks, channels, opened, torn, crashes, points, joined>>
        /\ col[g].pc = "top"
    BY DEF Top, NoSample
  <2>4. ColTypes' /\ Others(g)
    BY <2>1, <2>3 DEF IInv, ColTypes, Others, channels
  <2>5. Ordered(g)'
    BY <2>1, <2>2, <2>3 DEF IInv, Ordered, OneOpening, HasChannel, Counted, Channeled, Held, Alive,
         Current, Unspawned, Past, Controlled, Settled, Showing, Marked, Busy, Working, Becomes,
         MayPublish, Final, Gone, ColTypes, Collector, Constants, Mine, tab, controls, channels
  <2>6. Alive(g)' => Alive(g)
    BY <2>3 DEF Alive
  <2> QED
    BY <2>1, <2>3, <2>4, <2>5, <2>6, Quiet
<1>2. CASE /\ ~Gone(g) /\ g \notin enabled
           /\ Publish(g, [col[g] EXCEPT !.phase = "stopped", !.ssh = FALSE, !.gap = TRUE,
                                        !.healthy = 0],
                      "idle", "childEnd")
  <2> DEFINE c == [col[g] EXCEPT !.phase = "stopped", !.ssh = FALSE, !.gap = TRUE, !.healthy = 0]
  <2>1. Publish(g, c, "idle", "childEnd")
    BY <1>2 DEF Top
  <2>2. Mine /\ UNCHANGED <<clicks, channels, opened, torn, crashes, points, joined>>
        /\ col[g].pc = "top"
    BY <1>2 DEF Top, NoSample
  <2>3. c \in Collector /\ c.phase = "stopped" /\ c.gap /\ c.attempt = col[g].attempt
    <3>1. col[g] \in Collector
      BY DEF IInv, ColTypes
    <3> QED
      BY <2>2, <3>1 DEF Collector, Phases, Constants
  <2> HIDE DEF c
  <2>4. /\ SeenTypes' /\ col' \in [Gens -> Collector]
        /\ \A h \in Gens \ {g} : col'[h] = col[h] /\ settled'[h] = settled[h]
        /\ \/ /\ MayPublish(g, c) /\ shown'.gen = g /\ shown'.phase = c.phase
              /\ settled'[g] = CASE c.phase = "stopped" -> "off" [] c.phase = "starting" -> "on"
                                 [] OTHER -> settled[g]
              /\ Becomes(g, c, "idle")
           \/ UNCHANGED <<shown, settled, capable>> /\ Becomes(g, c, "childEnd")
    BY <2>1, <2>3, Publishes DEF PCs, Busy, Working
  <2>5. ColTypes' /\ Others(g)
    BY <2>2, <2>4 DEF IInv, ColTypes, Others, channels
  <2>6. Ordered(g)'
    BY <2>2, <2>3, <2>4 DEF IInv, Ordered, OneOpening, HasChannel, Counted, Channeled, Held, Alive,
           Current, Unspawned, Past, Controlled, Settled, Showing, Marked, Busy, Working, Becomes,
           MayPublish, Final, Gone, ColTypes, Collector, Constants, Mine, tab, controls, channels
  <2>7. Alive(g) /\ (c.phase = "stopped")
    BY <2>2, <2>3 DEF Alive, Final, Phases
  <2> QED
    BY <2>1, <2>2, <2>3, <2>5, <2>6, <2>7, Published DEF PCs, Busy, Working

<1> QED
  BY <1>1, <1>2 DEF Top

LEMMA BeginInv == ASSUME Constants, IInv, NEW g \in Gens, Begin(g) PROVE IInv'
<1> DEFINE c == [col[g] EXCEPT !.phase = "starting", !.attempt = 0, !.ssh = FALSE, !.stopping = FALSE]
<1>1. Publish(g, c, "open", "childEnd")
  BY DEF Begin, Gone, IInv, ColTypes
<1>2. Mine /\ UNCHANGED <<channels, torn, crashes, points, joined>>
      /\ col[g].pc \in {"top", "idle"} /\ g \in enabled /\ g \notin cancelled
      /\ clicks' \subseteq clicks /\ opened' \in [Gens -> Nat] /\ opened'[g] = 0
      /\ \A h \in Gens \ {g} : opened'[h] = opened[h]
  BY DEF Begin, NoSample, Gone, IInv, ColTypes
<1>3. c \in Collector /\ c.phase = "starting" /\ c.gap = col[g].gap /\ c.attempt = 0
  <2>1. col[g] \in Collector
    BY DEF IInv, ColTypes
  <2> QED
    BY <2>1, Zero DEF Collector, Phases
<1> HIDE DEF c
<1>4. /\ SeenTypes' /\ col' \in [Gens -> Collector]
      /\ \A h \in Gens \ {g} : col'[h] = col[h] /\ settled'[h] = settled[h]
      /\ \/ /\ MayPublish(g, c) /\ shown'.gen = g /\ shown'.phase = c.phase
            /\ settled'[g] = CASE c.phase = "stopped" -> "off" [] c.phase = "starting" -> "on"
                               [] OTHER -> settled[g]
            /\ Becomes(g, c, "open")
         \/ UNCHANGED <<shown, settled, capable>> /\ Becomes(g, c, "childEnd")
  BY <1>1, <1>3, Publishes DEF PCs, Busy, Working
<1>5. ColTypes' /\ Others(g)
  BY <1>2, <1>4 DEF IInv, ColTypes, Others, channels
<1>6. Ordered(g)'
  BY <1>2, <1>3, <1>4 DEF IInv, Ordered, OneOpening, HasChannel, Counted, Channeled, Held, Alive,
         Current, Unspawned, Past, Controlled, Settled, Showing, Marked, Busy, Working, Becomes,
         MayPublish, Final, Gone, ColTypes, Collector, Constants, Mine, tab, controls, channels
<1>7. Alive(g) /\ (c.phase \notin Final)
  BY <1>2, <1>3 DEF Alive, Final, Phases
<1> QED
  BY <1>1, <1>2, <1>3, <1>5, <1>6, <1>7, Published DEF PCs, Busy, Working

LEMMA UnsupportedInv == ASSUME Constants, IInv, NEW g \in Gens, Unsupported(g) PROVE IInv'
<1> DEFINE c == [col[g] EXCEPT !.phase = "unsupported", !.how = "remote"]
<1>1. Publish(g, c, "close", "close")
  BY DEF Unsupported, Torn
<1>2. Mine /\ UNCHANGED <<clicks, channels, opened, crashes, points, joined>>
      /\ col[g].pc = "read" /\ torn' = torn \cup {g}
  BY DEF Unsupported, NoSample, Torn
<1>3. c \in Collector /\ c.phase = "unsupported" /\ c.gap = col[g].gap /\ c.attempt = col[g].attempt
  <2>1. col[g] \in Collector
    BY DEF IInv, ColTypes
  <2> QED
    BY <1>2, <2>1 DEF Collector, Phases, Constants, Hows
<1> HIDE DEF c
<1>4. /\ SeenTypes' /\ col' \in [Gens -> Collector]
      /\ \A h \in Gens \ {g} : col'[h] = col[h] /\ settled'[h] = settled[h]
      /\ \/ /\ MayPublish(g, c) /\ shown'.gen = g /\ shown'.phase = c.phase
            /\ settled'[g] = CASE c.phase = "stopped" -> "off" [] c.phase = "starting" -> "on"
                               [] OTHER -> settled[g]
            /\ Becomes(g, c, "close")
         \/ UNCHANGED <<shown, settled, capable>> /\ Becomes(g, c, "close")
  BY <1>1, <1>3, Publishes DEF PCs, Busy, Working
<1>5. ColTypes' /\ Others(g)
  BY <1>2, <1>4 DEF IInv, ColTypes, Others, channels
<1>6. Ordered(g)'
  BY <1>2, <1>3, <1>4 DEF IInv, Ordered, OneOpening, HasChannel, Counted, Channeled, Held, Alive,
         Current, Unspawned, Past, Controlled, Settled, Showing, Marked, Busy, Working, Becomes,
         MayPublish, Final, Gone, ColTypes, Collector, Constants, Mine, tab, controls, channels
<1>7. Alive(g) /\ (c.phase \notin Final)
  BY <1>2, <1>3 DEF Alive, Final, Phases
<1> QED
  BY <1>1, <1>2, <1>3, <1>5, <1>6, <1>7, Published DEF PCs, Busy, Working

LEMMA CloseInv == ASSUME Constants, IInv, NEW g \in Gens, Close(g) PROVE IInv'
<1>1. CASE Goes(g, "after")
  <2>1. /\ UNCHANGED <<shown, settled, capable>> /\ col' \in [Gens -> Collector]
        /\ col'[g] = At(col[g], "after") /\ \A h \in Gens \ {g} : col'[h] = col[h]
    BY <1>1, GoesTo DEF PCs, Busy, Working
  <2>2. col'[g].pc = "after" /\ col'[g].gap = col[g].gap /\ col'[g].attempt = col[g].attempt
    BY <2>1, AtType DEF IInv, ColTypes, Constants, PCs, Busy, Working
  <2>3. Mine /\ UNCHANGED <<clicks, channels, opened, torn, crashes, points, joined>>
        /\ col[g].pc = "close"
    BY DEF Close, NoSample
  <2>4. ColTypes' /\ Others(g)
    BY <2>1, <2>3 DEF IInv, ColTypes, Others, channels
  <2>5. Ordered(g)'
    BY <2>1, <2>2, <2>3 DEF IInv, Ordered, OneOpening, HasChannel, Counted, Channeled, Held, Alive,
         Current, Unspawned, Past, Controlled, Settled, Showing, Marked, Busy, Working, Becomes,
         MayPublish, Final, Gone, ColTypes, Collector, Constants, Mine, tab, controls, channels
  <2>6. Alive(g)' => Alive(g)
    BY <2>3 DEF Alive
  <2> QED
    BY <2>1, <2>3, <2>4, <2>5, <2>6, Quiet
<1>2. CASE Publish(g, [col[g] EXCEPT !.phase = "recovering"], "after", "after")
  <2> DEFINE c == [col[g] EXCEPT !.phase = "recovering"]
  <2>1. Publish(g, c, "after", "after")
    BY <1>2 DEF Close
  <2>2. Mine /\ UNCHANGED <<clicks, channels, opened, torn, crashes, points, joined>>
        /\ col[g].pc = "close"
    BY <1>2 DEF Close, NoSample
  <2>3. c \in Collector /\ c.phase = "recovering" /\ c.gap = col[g].gap /\ c.attempt = col[g].attempt
    <3>1. col[g] \in Collector
      BY DEF IInv, ColTypes
    <3> QED
      BY <2>2, <3>1 DEF Collector, Phases, Constants
  <2> HIDE DEF c
  <2>4. /\ SeenTypes' /\ col' \in [Gens -> Collector]
        /\ \A h \in Gens \ {g} : col'[h] = col[h] /\ settled'[h] = settled[h]
        /\ \/ /\ MayPublish(g, c) /\ shown'.gen = g /\ shown'.phase = c.phase
              /\ settled'[g] = CASE c.phase = "stopped" -> "off" [] c.phase = "starting" -> "on"
                                 [] OTHER -> settled[g]
              /\ Becomes(g, c, "after")
           \/ UNCHANGED <<shown, settled, capable>> /\ Becomes(g, c, "after")
    BY <2>1, <2>3, Publishes DEF PCs, Busy, Working
  <2>5. ColTypes' /\ Others(g)
    BY <2>2, <2>4 DEF IInv, ColTypes, Others, channels
  <2>6. Ordered(g)'
    BY <2>2, <2>3, <2>4 DEF IInv, Ordered, OneOpening, HasChannel, Counted, Channeled, Held, Alive,
           Current, Unspawned, Past, Controlled, Settled, Showing, Marked, Busy, Working, Becomes,
           MayPublish, Final, Gone, ColTypes, Collector, Constants, Mine, tab, controls, channels
  <2>7. Alive(g) /\ (c.phase \notin Final)
    BY <2>2, <2>3 DEF Alive, Final, Phases
  <2> QED
    BY <2>1, <2>2, <2>3, <2>5, <2>6, <2>7, Published DEF PCs, Busy, Working

<1> QED
  BY <1>1, <1>2 DEF Close

LEMMA ResumeInv == ASSUME Constants, IInv, NEW g \in Gens, Resume(g) PROVE IInv'
<1> DEFINE a == IF col[g].pc = "failed" THEN 1 ELSE col[g].attempt + 1
<1>1. /\ col[g].pc = "waiting" => a = col[g].attempt + 1 /\ opened[g] <= a /\ opened[g] <= MaxAttempts
      /\ col[g].pc = "failed" => a = 1
      /\ col[g].pc \in {"waiting", "failed"} => a \in 1..(MaxAttempts + 1)
      /\ opened[g] \in Nat /\ MaxAttempts \in Nat
  BY DEF IInv, Ordered, Counted, ColTypes, Collector, Constants
<1> DEFINE c == [col[g] EXCEPT !.attempt = a, !.phase = "recovering"]
<1>9. Publish(g, c, "open", "workEnd")
  BY DEF Resume, IInv, ColTypes
<1>2. Mine /\ UNCHANGED <<channels, torn, crashes, points, joined>>
      /\ col[g].pc \in {"waiting", "failed"} /\ clicks' \subseteq clicks
      /\ opened' \in [Gens -> Nat] /\ \A h \in Gens \ {g} : opened'[h] = opened[h]
      /\ \/ col[g].pc = "waiting" /\ opened'[g] = opened[g] /\ a = col[g].attempt + 1
         \/ opened'[g] = 0
  BY DEF Resume, NoSample, IInv, ColTypes
<1>3. c \in Collector /\ c.phase = "recovering" /\ c.gap = col[g].gap /\ c.attempt = a
  <2>1. col[g] \in Collector
    BY DEF IInv, ColTypes
  <2>2. a \in 0..(MaxAttempts + 1)
    <3>1. a \in 1..(MaxAttempts + 1)
      BY <1>1, <1>2
    <3> HIDE DEF a
    <3> QED
      BY <3>1, Zero
  <2> QED
    BY <2>1, <2>2 DEF Collector, Phases
<1> HIDE DEF c, a
<1>4. /\ SeenTypes' /\ col' \in [Gens -> Collector]
      /\ \A h \in Gens \ {g} : col'[h] = col[h] /\ settled'[h] = settled[h]
      /\ \/ /\ MayPublish(g, c) /\ shown'.gen = g /\ shown'.phase = c.phase
            /\ settled'[g] = CASE c.phase = "stopped" -> "off" [] c.phase = "starting" -> "on"
                               [] OTHER -> settled[g]
            /\ Becomes(g, c, "open")
         \/ UNCHANGED <<shown, settled, capable>> /\ Becomes(g, c, "workEnd")
  BY <1>9, <1>3, Publishes DEF PCs, Busy, Working
<1>5. ColTypes' /\ Others(g)
  BY <1>2, <1>4 DEF IInv, ColTypes, Others, channels
<1>6. Ordered(g)'
  <2>1. Counted(g)'
    <3>3. col'[g].pc = "workEnd" \/ (col'[g].pc = "open" /\ col'[g].attempt = a)
      BY <1>3, <1>4 DEF Becomes
    <3>0. a \in 1..(MaxAttempts + 1) /\ opened[g] \in Nat /\ MaxAttempts \in Nat
      BY <1>1, <1>2
    <3>1. CASE col[g].pc = "waiting" /\ opened'[g] = opened[g]
      <4>1. opened[g] <= a /\ opened[g] <= MaxAttempts
        BY <1>1, <3>1
      <4> QED
        BY <3>0, <3>1, <3>3, <4>1 DEF Counted, Channeled
    <3>2. CASE opened'[g] = 0
      BY <3>0, <3>2, <3>3 DEF Counted, Channeled
    <3>4. \/ col[g].pc = "waiting" /\ opened'[g] = opened[g]
          \/ opened'[g] = 0
      BY DEF Resume, IInv, ColTypes
    <3> QED
      BY <3>1, <3>2, <3>4
  <2>2. /\ OneOpening(g)' /\ Held(g)' /\ Current(g)' /\ Unspawned(g)' /\ Past(g)'
        /\ Controlled(g)' /\ Settled(g)' /\ Showing(g)' /\ Marked(g)'
    BY <1>2, <1>3, <1>4 DEF IInv, Ordered, OneOpening, HasChannel, Counted, Channeled, Held, Alive,
         Current, Unspawned, Past, Controlled, Settled, Showing, Marked, Busy, Working, Becomes,
         MayPublish, Final, Gone, ColTypes, Collector, Constants, Mine, tab, controls, channels
  <2> QED
    BY <2>1, <2>2 DEF Ordered
<1>7. Alive(g) /\ (c.phase \notin Final)
  BY <1>2, <1>3 DEF Alive, Final, Phases
<1> QED
  BY <1>9, <1>2, <1>3, <1>5, <1>6, <1>7, Published DEF PCs, Busy, Working

LEMMA Sampled ==
    ASSUME Constants, IInv, NEW g \in Gens, NEW c \in Collector, Publish(g, c, "read", "close"),
           Mine, col[g].pc = "read", c.phase = "healthy", channels' = channels, crashes' = crashes,
           points' = TRUE, joined' = joined, clicks' = clicks \ {g}, torn' = torn \ {g},
           \/ opened' = opened /\ c.attempt = col[g].attempt
           \/ opened' = [opened EXCEPT ![g] = 0] /\ c.attempt = 0
    PROVE  IInv'
<1>1. /\ SeenTypes' /\ col' \in [Gens -> Collector]
      /\ \A h \in Gens \ {g} : col'[h] = col[h] /\ settled'[h] = settled[h]
      /\ \/ /\ MayPublish(g, c) /\ shown'.gen = g /\ shown'.phase = c.phase
            /\ settled'[g] = CASE c.phase = "stopped" -> "off" [] c.phase = "starting" -> "on"
                               [] OTHER -> settled[g]
            /\ Becomes(g, c, "read")
         \/ UNCHANGED <<shown, settled, capable>> /\ Becomes(g, c, "close")
  BY Publishes DEF PCs, Busy, Working
<1>2. ColTypes' /\ Others(g)
  BY <1>1 DEF IInv, ColTypes, Others, channels
<1>3. Ordered(g)'
  <2>1. Ordered(g) /\ opened[g] \in Nat /\ MaxAttempts \in Nat /\ col[g] \in Collector
    BY DEF IInv, ColTypes, Constants
  <2>2. Counted(g)'
    <3>1. /\ opened[g] <= MaxAttempts + 1 /\ opened[g] <= col[g].attempt + 1
      BY <2>1 DEF Ordered, Counted, Channeled
    <3>2. col'[g].pc \in {"read", "close"} /\ col'[g].attempt = c.attempt
      BY <1>1 DEF Becomes
    <3>3. CASE opened' = opened /\ c.attempt = col[g].attempt
      BY <3>1, <3>2, <3>3 DEF Counted, Channeled
    <3>4. CASE opened' = [opened EXCEPT ![g] = 0] /\ c.attempt = 0
      <4>1. opened'[g] = 0
        BY <3>4 DEF IInv, ColTypes
      <4> QED
        BY <2>1, <3>2, <3>4, <4>1 DEF Counted, Channeled
    <3> QED
      BY <3>3, <3>4
  <2>3. /\ OneOpening(g)' /\ Held(g)' /\ Current(g)' /\ Unspawned(g)' /\ Past(g)'
        /\ Controlled(g)' /\ Settled(g)' /\ Showing(g)' /\ Marked(g)'
    BY <1>1, <2>1 DEF IInv, Ordered, OneOpening, HasChannel, Counted, Channeled, Held, Alive,
         Current, Unspawned, Past, Controlled, Settled, Showing, Marked, Busy, Working, Becomes,
         MayPublish, Final, Gone, ColTypes, Collector, Constants, Mine, tab, controls, channels
  <2> QED
    BY <2>2, <2>3 DEF Ordered
<1>4. Alive(g) /\ (c.phase \notin Final)
  BY DEF Alive, Final, Phases
<1> QED
  BY <1>1, <1>2, <1>3, <1>4, Published DEF PCs, Busy, Working

LEMMA ReadInv ==
    ASSUME Constants, IInv, NEW g \in Gens, col[g].pc = "read", NEW how \in Hows,
           ReadEnds(g, how), Mine, UNCHANGED <<clicks, channels, opened, crashes, points, joined>>
    PROVE  IInv'
<1> DEFINE r == [col[g] EXCEPT !.pc = "close", !.how = how]
<1>1. col' = [col EXCEPT ![g] = r] /\ torn' = torn \cup {g}
      /\ UNCHANGED <<shown, settled, capable>>
  BY DEF ReadEnds, Torn
<1>2. col[g] \in Collector
  BY DEF IInv, ColTypes
<1>3. r \in Collector /\ r.pc = "close" /\ r.gap = col[g].gap /\ r.attempt = col[g].attempt
  BY <1>2 DEF Collector, PCs, Busy, Working
<1> HIDE DEF r
<1>4. /\ col' \in [Gens -> Collector] /\ \A h \in Gens \ {g} : col'[h] = col[h]
      /\ col'[g].pc = "close" /\ col'[g].gap = col[g].gap /\ col'[g].attempt = col[g].attempt
  BY <1>1, <1>3 DEF IInv, ColTypes
<1>5. ColTypes' /\ Others(g)
  BY <1>1, <1>4 DEF IInv, ColTypes, Others, channels
<1>6. Ordered(g)'
  BY <1>1, <1>4 DEF IInv, Ordered, OneOpening, HasChannel, Counted, Channeled, Held, Alive,
         Current, Unspawned, Past, Controlled, Settled, Showing, Marked, Busy, Working, Becomes,
         MayPublish, Final, Gone, ColTypes, Collector, Constants, Mine, tab, controls, channels
<1>7. Alive(g)
  BY DEF Alive
<1> QED
  BY <1>1, <1>5, <1>6, <1>7, Quiet

LEMMA SampleInv == ASSUME Constants, IInv, NEW g \in Gens, Sample(g) PROVE IInv'
<1>1. col[g].pc = "read" /\ Mine /\ channels' = channels /\ crashes' = crashes
  BY DEF Sample
<1>2. col[g] \in Collector /\ joined = TRUE
  BY DEF IInv, ColTypes
<1> DEFINE restored == col[g].healthy + 1 >= Sustain
           c == [col[g] EXCEPT !.healthy = IF restored THEN @ ELSE @ + 1, !.fresh = TRUE,
                               !.phase = "healthy", !.ssh = FALSE, !.gap = FALSE,
                               !.how = "replaced"]
           ends == ReadEnds(g, "replaced") /\ NoSample /\ UNCHANGED <<clicks, opened>>
           goes == /\ \/ Publish(g, c, "read", "close") /\ UNCHANGED opened
                      \/ /\ restored /\ opened' = [opened EXCEPT ![g] = 0]
                         /\ Publish(g, [c EXCEPT !.attempt = 0], "read", "close")
                   /\ points' = TRUE /\ joined' = (joined /\ (points /\ g \in torn => col[g].gap))
                   /\ torn' = torn \ {g} /\ clicks' = clicks \ {g}
<1>3. ends \/ goes
  BY DEF Sample
<1>4. CASE ends
  BY <1>1, <1>4, ReadInv DEF NoSample, Hows
<1>5. CASE goes
  <2>1. joined' = joined
    BY <1>1, <1>2, <1>5 DEF IInv, Ordered, Marked
  <2>2. c \in Collector /\ c.phase = "healthy" /\ c.attempt = col[g].attempt
    <3>1. col[g].healthy \in Nat /\ (IF restored THEN col[g].healthy ELSE col[g].healthy + 1) \in Nat
      BY <1>2 DEF Collector
    <3> QED
      BY <1>2, <3>1 DEF Collector, Phases, Hows
  <2> HIDE DEF c
  <2>3. [c EXCEPT !.attempt = 0] \in Collector /\ [c EXCEPT !.attempt = 0].phase = "healthy"
        /\ [c EXCEPT !.attempt = 0].attempt = 0
    BY <2>2, Zero DEF Collector
  <2>4. CASE Publish(g, c, "read", "close") /\ UNCHANGED opened
    BY <1>1, <1>5, <2>1, <2>2, <2>4, Sampled
  <2>5. CASE /\ opened' = [opened EXCEPT ![g] = 0]
             /\ Publish(g, [c EXCEPT !.attempt = 0], "read", "close")
    BY <1>1, <1>5, <2>1, <2>3, <2>5, Sampled
  <2> QED
    BY <1>5, <2>4, <2>5
<1> QED
  BY <1>3, <1>4, <1>5

LEMMA Stalled ==
    ASSUME Constants, IInv, NEW g \in Gens, NEW c \in Collector, Publish(g, c, "read", "close"),
           Mine, col[g].pc = "read", c.phase = "paused", c.gap = TRUE, c.attempt = col[g].attempt,
           UNCHANGED <<clicks, channels, opened, crashes, points, joined>>,
           torn' = torn \cup {g}
    PROVE  IInv'
<1>1. /\ SeenTypes' /\ col' \in [Gens -> Collector]
      /\ \A h \in Gens \ {g} : col'[h] = col[h] /\ settled'[h] = settled[h]
      /\ \/ /\ MayPublish(g, c) /\ shown'.gen = g /\ shown'.phase = c.phase
            /\ settled'[g] = CASE c.phase = "stopped" -> "off" [] c.phase = "starting" -> "on"
                               [] OTHER -> settled[g]
            /\ Becomes(g, c, "read")
         \/ UNCHANGED <<shown, settled, capable>> /\ Becomes(g, c, "close")
  BY Publishes DEF PCs, Busy, Working
<1>2. ColTypes' /\ Others(g)
  BY <1>1 DEF IInv, ColTypes, Others, channels
<1>3. Ordered(g)'
  <2>1. Ordered(g) /\ opened[g] \in Nat /\ MaxAttempts \in Nat /\ col[g] \in Collector
    BY DEF IInv, ColTypes, Constants
  <2>2. Counted(g)'
    BY <1>1, <2>1 DEF Ordered, Counted, Channeled, Becomes, Collector
  <2>3. /\ OneOpening(g)' /\ Held(g)' /\ Current(g)' /\ Unspawned(g)' /\ Past(g)'
        /\ Controlled(g)' /\ Settled(g)' /\ Showing(g)' /\ Marked(g)'
    BY <1>1, <2>1 DEF IInv, Ordered, OneOpening, HasChannel, Counted, Channeled, Held, Alive,
         Current, Unspawned, Past, Controlled, Settled, Showing, Marked, Busy, Working, Becomes,
         MayPublish, Final, Gone, ColTypes, Collector, Constants, Mine, tab, controls, channels
  <2> QED
    BY <2>2, <2>3 DEF Ordered
<1>4. Alive(g) /\ (c.phase \notin Final)
  BY DEF Alive, Final, Phases
<1> QED
  BY <1>1, <1>2, <1>3, <1>4, Published DEF PCs, Busy, Working

LEMMA StallInv == ASSUME Constants, IInv, NEW g \in Gens, Stall(g) PROVE IInv'
<1>1. col[g].pc = "read" /\ Mine /\ UNCHANGED <<clicks, channels, opened, crashes, points, joined>>
  BY DEF Stall, NoSample
<1> DEFINE c == [col[g] EXCEPT !.phase = "paused", !.gap = TRUE, !.healthy = 0,
                               !.how = "stalled"]
<1>2. \/ ReadEnds(g, "stalled")
      \/ Publish(g, c, "read", "close") /\ torn' = torn \cup {g}
  BY DEF Stall, Torn
<1>3. CASE ReadEnds(g, "stalled")
  BY <1>1, <1>3, ReadInv DEF Hows
<1>4. CASE Publish(g, c, "read", "close") /\ torn' = torn \cup {g}
  <2>1. col[g] \in Collector
    BY DEF IInv, ColTypes
  <2>2. c \in Collector /\ c.phase = "paused" /\ c.gap = TRUE /\ c.attempt = col[g].attempt
    BY <2>1 DEF Collector, Phases, Hows
  <2> QED
    BY <1>1, <1>4, <2>2, Stalled
<1> QED
  BY <1>2, <1>3, <1>4

\* A failed channel, with the attempts that are counted then.
LEMMA AfterInv == ASSUME Constants, IInv, NEW g \in Gens, After(g) PROVE IInv'
<1> DEFINE attempt == col[g].attempt
           spent == attempt >= MaxAttempts
           again == col[g].how = "manual" /\ spent
           c == [col[g] EXCEPT !.gap = TRUE, !.healthy = 0,
                               !.attempt = IF again THEN 0 ELSE attempt,
                               !.phase = IF spent /\ ~again THEN "failed" ELSE "waiting"]
<1>1. /\ col[g].pc = "after" /\ Mine
      /\ UNCHANGED <<clicks, channels, torn, crashes, points, joined>>
  BY DEF After, NoSample
<1>2. Goes(g, "workEnd") \/ Publish(g, c, c.phase, "workEnd")
  BY DEF After, Failing
<1>3. col[g] \in Collector /\ opened \in [Gens -> Nat] /\ MaxAttempts \in Nat /\ attempt \in Nat
      /\ Ordered(g)
  BY DEF IInv, ColTypes, Constants, Collector
<1>4. /\ opened' \in [Gens -> Nat] /\ \A h \in Gens \ {g} : opened'[h] = opened[h]
      /\ \/ opened' = opened /\ ~again
         \/ opened' = [opened EXCEPT ![g] = 0]
  BY <1>3 DEF After
<1>5. opened[g] <= MaxAttempts + 1 /\ opened[g] <= attempt + 1
  BY <1>1, <1>3 DEF Ordered, Counted, Channeled
<1>6. opened'[g] = opened[g] \/ opened'[g] = 0
  BY <1>3, <1>4
<1>7. opened'[g] <= MaxAttempts + 1 /\ opened'[g] <= attempt + 1
  BY <1>3, <1>5, <1>6
<1>8. CASE Goes(g, "workEnd")
  <2>1. /\ UNCHANGED <<shown, settled, capable>> /\ col' \in [Gens -> Collector]
        /\ col'[g] = At(col[g], "workEnd") /\ \A h \in Gens \ {g} : col'[h] = col[h]
    BY <1>8, GoesTo DEF PCs, Busy
  <2>2. col'[g].pc = "workEnd"
    BY <1>3, <2>1, AtType DEF PCs, Busy
  <2>3. ColTypes' /\ Others(g)
    BY <1>1, <1>4, <2>1 DEF IInv, ColTypes, Others, channels
  <2>4. Counted(g)'
    BY <1>7, <2>2 DEF Counted, Channeled
  <2>5. /\ OneOpening(g)' /\ Held(g)' /\ Current(g)' /\ Unspawned(g)' /\ Past(g)'
        /\ Controlled(g)' /\ Settled(g)' /\ Showing(g)' /\ Marked(g)'
    BY <1>1, <2>1, <2>2 DEF IInv, Ordered, OneOpening, HasChannel, Counted, Channeled, Held, Alive,
         Current, Unspawned, Past, Controlled, Settled, Showing, Marked, Busy, Working, Becomes,
         MayPublish, Final, Gone, ColTypes, Collector, Constants, Mine, tab, controls, channels
  <2>6. Ordered(g)'
    BY <2>4, <2>5 DEF Ordered
  <2>7. Alive(g)
    BY <1>1 DEF Alive
  <2> QED
    BY <1>1, <2>1, <2>3, <2>6, <2>7, Quiet
<1>9. CASE Publish(g, c, c.phase, "workEnd")
  <2>1. /\ (IF again THEN 0 ELSE attempt) \in 0..(MaxAttempts + 1)
        /\ (IF spent /\ ~again THEN "failed" ELSE "waiting") \in {"failed", "waiting"}
    BY <1>3, Zero DEF Collector
  <2>2. /\ c \in Collector /\ c.gap = TRUE /\ c.phase \in {"failed", "waiting"}
        /\ c.attempt = (IF again THEN 0 ELSE attempt)
        /\ c.phase = "waiting" => again \/ ~spent
    BY <1>3, <2>1 DEF Collector, Phases
  <2>3. c.phase = "waiting" => /\ opened'[g] <= MaxAttempts /\ c.attempt <= MaxAttempts
                               /\ opened'[g] <= c.attempt + 1
    <3>1. CASE again
      <4>1. opened'[g] = 0
        BY <1>3, <1>4, <3>1
      <4> QED
        BY <1>3, <2>2, <3>1, <4>1
    <3>2. CASE ~spent
      <4>1. attempt + 1 <= MaxAttempts /\ c.attempt = attempt
        BY <1>3, <2>2, <3>2
      <4>2. opened'[g] \in Nat /\ opened'[g] <= attempt + 1
        BY <1>4, <1>7
      <4> QED
        BY <1>3, <4>1, <4>2
    <3> QED
      BY <2>2, <3>1, <3>2
  <2> HIDE DEF c
  <2>4. c.phase \in PCs /\ "workEnd" \in PCs
    BY <2>2 DEF PCs, Busy, Working
  <2>5. /\ SeenTypes' /\ col' \in [Gens -> Collector]
        /\ \A h \in Gens \ {g} : col'[h] = col[h] /\ settled'[h] = settled[h]
        /\ \/ /\ MayPublish(g, c) /\ shown'.gen = g /\ shown'.phase = c.phase
              /\ settled'[g] = CASE c.phase = "stopped" -> "off" [] c.phase = "starting" -> "on"
                                 [] OTHER -> settled[g]
              /\ Becomes(g, c, c.phase)
           \/ UNCHANGED <<shown, settled, capable>> /\ Becomes(g, c, "workEnd")
    BY <1>9, <2>2, <2>4, Publishes
  <2>6. ColTypes' /\ Others(g)
    BY <1>1, <1>4, <2>5 DEF IInv, ColTypes, Others, channels
  <2>7. Counted(g)'
    <3>1. /\ col'[g].pc \in {"waiting", "failed", "workEnd"}
          /\ col'[g].pc = "waiting" => c.phase = "waiting" /\ col'[g].attempt = c.attempt
      BY <2>2, <2>5 DEF Becomes
    <3> QED
      BY <1>7, <2>3, <3>1 DEF Counted, Channeled
  <2>8. /\ OneOpening(g)' /\ Held(g)' /\ Current(g)' /\ Unspawned(g)' /\ Past(g)'
        /\ Controlled(g)' /\ Settled(g)' /\ Showing(g)' /\ Marked(g)'
    BY <1>1, <2>2, <2>5 DEF IInv, Ordered, OneOpening, HasChannel, Counted, Channeled, Held, Alive,
         Current, Unspawned, Past, Controlled, Settled, Showing, Marked, Busy, Working, Becomes,
         MayPublish, Final, Gone, ColTypes, Collector, Constants, Mine, tab, controls, channels
  <2>9. Ordered(g)'
    BY <2>7, <2>8 DEF Ordered
  <2>10. Alive(g) /\ c.phase \notin Final
    BY <1>1, <2>2 DEF Alive, Final
  <2> QED
    BY <1>1, <1>9, <2>2, <2>4, <2>6, <2>9, <2>10, Published
<1> QED
  BY <1>2, <1>8, <1>9

-------------------------------------------------------------------------------
(***************************************************************************)
(* The supervisor                                                          *)
(***************************************************************************)

\* It goes to another stage of its own, with no word and no news.
LEMMA MovesOn ==
    ASSUME Constants, IInv, NEW g \in Gens, NEW c \in Collector, col' = [col EXCEPT ![g] = c],
           UNCHANGED <<shown, settled, capable>>, Mine, clicks' \subseteq clicks,
           UNCHANGED <<channels, opened, torn, crashes, points, joined>>,
           \/ col[g].pc \in {"childEnd", "rest"} /\ c.pc = "remove"
           \/ /\ c.pc = "supervise" /\ (g \in torn => c.gap = TRUE)
              /\ col[g].pc \in {"childEnd", "rest"} /\ g = conn.n
              /\ conn.stage \notin {"connecting", "up"}
    PROVE  IInv'
<1>1. /\ col' \in [Gens -> Collector] /\ \A h \in Gens \ {g} : col'[h] = col[h]
      /\ col'[g] = c
  BY DEF IInv, ColTypes
<1>2. ColTypes' /\ Others(g)
  BY <1>1 DEF IInv, ColTypes, Others, channels
<1>3. Ordered(g)'
  BY <1>1 DEF IInv, Ordered, OneOpening, HasChannel, Counted, Channeled, Held, Alive,
         Current, Unspawned, Past, Controlled, Settled, Showing, Marked, Busy, Working, Becomes,
         MayPublish, Final, Gone, ColTypes, Collector, Constants, Mine, tab, controls, channels
<1>4. Alive(g)
  BY DEF Alive
<1> QED
  BY <1>2, <1>3, <1>4, Quiet

\* A supervisor with something to go on for is of the connection that runs.
LEMMA OfNow ==
    ASSUME Constants, IInv, NEW g \in Gens, col[g].pc \in {"childEnd", "rest"}, shown.gen = g,
           Connected
    PROVE  g = conn.n /\ conn.stage \notin {"connecting", "up"}
<1>1. g = conn.n
  BY DEF IInv, Shows, Constants
<1>2. col[g].pc # "none"
  OBVIOUS
<1> QED
  BY <1>1, <1>2 DEF IInv, Ordered, Unspawned, Connected

LEMMA ToldEnd ==
    ASSUME Constants, IInv, NEW g \in Gens, NEW c \in Collector,
           Publish(g, c, "remove", "remove"), Mine, col[g].pc = "childEnd",
           c.phase = "stopped" \/ (c.phase = "disconnected" /\ g \in enabled),
           UNCHANGED <<clicks, channels, opened, torn, crashes, points, joined>>
    PROVE  IInv'
<1>1. /\ SeenTypes' /\ col' \in [Gens -> Collector]
      /\ \A h \in Gens \ {g} : col'[h] = col[h] /\ settled'[h] = settled[h]
      /\ col'[g].pc = "remove"
      /\ UNCHANGED <<shown, settled, capable>> \/ MayPublish(g, c)
  <2>1. /\ SeenTypes' /\ col' \in [Gens -> Collector]
        /\ \A h \in Gens \ {g} : col'[h] = col[h] /\ settled'[h] = settled[h]
    BY Publishes DEF PCs
  <2>2. /\ Becomes(g, c, "remove")
        /\ UNCHANGED <<shown, settled, capable>> \/ MayPublish(g, c)
    BY Publishes DEF PCs
  <2>3. col'[g].pc = "remove"
    BY <2>2 DEF Becomes
  <2> QED
    BY <2>1, <2>2, <2>3
<1>2. ColTypes' /\ Others(g)
  BY <1>1 DEF IInv, ColTypes, Others, channels
<1>3. Ordered(g)'
  BY <1>1 DEF IInv, Ordered, OneOpening, HasChannel, Counted, Channeled, Held, Alive,
         Current, Unspawned, Past, Controlled, Settled, Showing, Marked, Busy, Working, Becomes,
         MayPublish, Final, Gone, ColTypes, Collector, Constants, Mine, tab, controls, channels
<1>4. Alive(g) /\ (c.phase \notin Final \/ c.phase = "stopped" \/ g \in enabled)
  BY DEF Alive
<1> QED
  BY <1>1, <1>2, <1>3, <1>4, Published DEF PCs

LEMMA ToldOn ==
    ASSUME Constants, IInv, NEW g \in Gens, NEW c \in Collector, NEW pc \in {"rest", "supervise"},
           Publish(g, c, pc, "supervise"), Mine, col[g].pc \in {"childEnd", "rest"}, g \in torn => c.gap = TRUE,
           c.phase = "starting" \/ (c.phase = "disconnected" /\ g \in enabled),
           g = conn.n, conn.stage \notin {"connecting", "up"}, clicks' \subseteq clicks,
           UNCHANGED <<channels, opened, torn, crashes, points, joined>>
    PROVE  IInv'
<1>5. \/ /\ MayPublish(g, c) /\ Becomes(g, c, pc)
         /\ settled'[g] = IF c.phase = "starting" THEN "on" ELSE settled[g]
      \/ UNCHANGED <<shown, settled, capable>> /\ Becomes(g, c, "supervise")
  BY Publishes DEF PCs
<1>1. /\ SeenTypes' /\ col' \in [Gens -> Collector]
      /\ \A h \in Gens \ {g} : col'[h] = col[h] /\ settled'[h] = settled[h]
      /\ col'[g].pc \in {"rest", "supervise"} /\ (g \in torn => col'[g].gap = TRUE)
      /\ settled'[g] \in {"on", settled[g]}
      /\ UNCHANGED <<shown, settled, capable>> \/ MayPublish(g, c)
  <2>1. /\ SeenTypes' /\ col' \in [Gens -> Collector]
        /\ \A h \in Gens \ {g} : col'[h] = col[h] /\ settled'[h] = settled[h]
    BY Publishes DEF PCs
  <2>2. col'[g].pc \in {"rest", "supervise"} /\ (g \in torn => col'[g].gap = TRUE)
    BY <1>5 DEF Becomes
  <2>3. /\ settled'[g] \in {"on", settled[g]}
        /\ UNCHANGED <<shown, settled, capable>> \/ MayPublish(g, c)
    BY <1>5
  <2> QED
    BY <2>1, <2>2, <2>3
<1>2. ColTypes' /\ Others(g)
  BY <1>1 DEF IInv, ColTypes, Others, channels
<1>3. Ordered(g)'
  BY <1>1 DEF IInv, Ordered, OneOpening, HasChannel, Counted, Channeled, Held, Alive,
         Current, Unspawned, Past, Controlled, Settled, Showing, Marked, Busy, Working, Becomes,
         MayPublish, Final, Gone, ColTypes, Collector, Constants, Mine, tab, controls, channels
<1>4. Alive(g) /\ (c.phase \notin Final \/ c.phase = "stopped" \/ g \in enabled)
  BY DEF Alive, Final
<1> QED
  BY <1>1, <1>2, <1>3, <1>4, Published DEF PCs

LEMMA ChildEndsInv == ASSUME Constants, IInv, NEW g \in Gens, ChildEnds(g) PROVE IInv'
<1>1. /\ col[g].pc = "childEnd" /\ Mine
      /\ UNCHANGED <<clicks, channels, opened, torn, crashes, points, joined>>
  BY DEF ChildEnds, NoSample
<1>2. col[g] \in Collector /\ col \in [Gens -> Collector] /\ MaxAttempts \in Nat
  BY DEF IInv, ColTypes, Constants
<1> DEFINE c == [col[g] EXCEPT !.phase = shown.phase, !.ssh = shown.ssh, !.gap = TRUE,
                               !.healthy = 0]
           ended == [c EXCEPT !.phase = IF g \in enabled THEN "disconnected" ELSE "stopped",
                              !.ssh = g \in enabled]
           rests == [c EXCEPT !.phase = "disconnected", !.ssh = FALSE]
<1>3. \/ Goes(g, "remove")
      \/ shown.gen = g /\ Publish(g, ended, "remove", "remove")
      \/ /\ shown.gen = g /\ Connected /\ g \notin enabled
         /\ col' = [col EXCEPT ![g] = [c EXCEPT !.pc = "supervise"]]
         /\ UNCHANGED <<shown, settled, capable>>
      \/ /\ shown.gen = g /\ Connected /\ g \in enabled
         /\ Publish(g, rests, "rest", "supervise")
  BY DEF ChildEnds
<1>4. shown.gen = g => c \in Collector /\ c.gap = TRUE
  <2>1. shown.gen = g => shown.phase \in Phases /\ shown.ssh \in BOOLEAN
    BY DEF IInv, SeenTypes, Constants
  <2> QED
    BY <1>2, <2>1 DEF Collector
<1> HIDE DEF c
<1>5. CASE Goes(g, "remove")
  <2>1. At(col[g], "remove") \in Collector /\ At(col[g], "remove").pc = "remove"
    BY <1>2, AtType DEF PCs
  <2> QED
    BY <1>1, <1>5, <2>1, MovesOn DEF Goes
<1>6. CASE shown.gen = g /\ Publish(g, ended, "remove", "remove")
  <2>1. /\ ended \in Collector
        /\ ended.phase = "stopped" \/ (ended.phase = "disconnected" /\ g \in enabled)
    <3>2. CASE g \in enabled
      <4>1. ended = [c EXCEPT !.phase = "disconnected", !.ssh = TRUE]
        BY <3>2
      <4> QED
        BY <1>4, <1>6, <3>2, <4>1 DEF Collector, Phases
    <3>3. CASE g \notin enabled
      <4>0. (g \in enabled) = FALSE
        BY <3>3
      <4>1. ended = [c EXCEPT !.phase = "stopped", !.ssh = FALSE]
        BY <3>3, <4>0, Zenon
      <4> QED
        BY <1>4, <1>6, <4>1 DEF Collector, Phases
    <3> QED
      BY <3>2, <3>3
  <2> HIDE DEF ended
  <2> QED
    BY <1>1, <1>6, <2>1, ToldEnd
<1>7. CASE /\ shown.gen = g /\ Connected /\ g \notin enabled
           /\ col' = [col EXCEPT ![g] = [c EXCEPT !.pc = "supervise"]]
           /\ UNCHANGED <<shown, settled, capable>>
  <2> DEFINE d == [c EXCEPT !.pc = "supervise"]
  <2>1. d \in Collector /\ d.pc = "supervise" /\ d.gap = TRUE
    BY <1>4, <1>7 DEF Collector, PCs
  <2>2. g = conn.n /\ conn.stage \notin {"connecting", "up"}
    BY <1>1, <1>7, OfNow
  <2>3. col' = [col EXCEPT ![g] = d]
    BY <1>7
  <2> HIDE DEF d
  <2> QED
    BY <1>1, <1>7, <2>1, <2>2, <2>3, MovesOn
<1>8. CASE /\ shown.gen = g /\ Connected /\ g \in enabled
           /\ Publish(g, rests, "rest", "supervise")
  <2>1. rests \in Collector /\ rests.gap = TRUE /\ rests.phase = "disconnected"
    BY <1>4, <1>8 DEF Collector, Phases
  <2>2. g = conn.n /\ conn.stage \notin {"connecting", "up"}
    BY <1>1, <1>8, OfNow
  <2> HIDE DEF rests
  <2> QED
    BY <1>1, <1>8, <2>1, <2>2, ToldOn
<1> QED
  BY <1>3, <1>5, <1>6, <1>7, <1>8

LEMMA RestInv == ASSUME Constants, IInv, NEW g \in Gens, Rest(g) PROVE IInv'
<1>1. /\ col[g].pc = "rest" /\ Mine /\ clicks' \subseteq clicks
      /\ UNCHANGED <<channels, opened, torn, crashes, points, joined>>
  BY DEF Rest, NoSample
<1>2. col[g] \in Collector /\ col \in [Gens -> Collector] /\ MaxAttempts \in Nat
  BY DEF IInv, ColTypes, Constants
<1>3. g = conn.n /\ conn.stage \notin {"connecting", "up"}
  BY <1>1 DEF IInv, Ordered, Current
<1> DEFINE c == [col[g] EXCEPT !.attempt = 0, !.phase = "starting", !.ssh = FALSE]
<1>4. \/ Goes(g, "remove")
      \/ Publish(g, c, "supervise", "supervise")
      \/ /\ col' = [col EXCEPT ![g] = [c EXCEPT !.pc = "supervise"]]
         /\ UNCHANGED <<shown, settled, capable>>
  BY DEF Rest
<1>5. c \in Collector /\ c.phase = "starting" /\ (g \in torn => c.gap = TRUE)
  <2>1. g \in torn => col[g].gap = TRUE
    BY <1>1, <1>2 DEF IInv, Ordered, Marked, Collector
  <2> QED
    BY <1>2, <2>1, Zero DEF Collector, Phases
<1> HIDE DEF c
<1>6. CASE Goes(g, "remove")
  <2>1. At(col[g], "remove") \in Collector /\ At(col[g], "remove").pc = "remove"
    BY <1>2, AtType DEF PCs
  <2> QED
    BY <1>1, <1>6, <2>1, MovesOn DEF Goes
<1>7. CASE Publish(g, c, "supervise", "supervise")
  BY <1>1, <1>3, <1>5, <1>7, ToldOn
<1>8. CASE /\ col' = [col EXCEPT ![g] = [c EXCEPT !.pc = "supervise"]]
           /\ UNCHANGED <<shown, settled, capable>>
  <2> DEFINE d == [c EXCEPT !.pc = "supervise"]
  <2>1. d \in Collector /\ d.pc = "supervise" /\ (g \in torn => d.gap = TRUE)
    BY <1>5 DEF Collector, PCs
  <2>2. col' = [col EXCEPT ![g] = d]
    BY <1>8
  <2> HIDE DEF d
  <2> QED
    BY <1>1, <1>3, <1>8, <2>1, <2>2, MovesOn
<1> QED
  BY <1>4, <1>6, <1>7, <1>8

LEMMA RemoveInv == ASSUME Constants, IInv, NEW g \in Gens, Remove(g) PROVE IInv'
<1>1. /\ col[g].pc = "remove"
      /\ UNCHANGED <<shown, settled, capable, tab, points, cancelled, channels, call, stopped,
                     forbidden, joined, crashes>>
      /\ control' = (IF control = g THEN 0 ELSE control)
      /\ enabled' = enabled \ {g} /\ clicks' = clicks \ {g} /\ torn' = torn \ {g}
  BY DEF Remove, Goes
<1>2. opened' \in [Gens -> Nat] /\ opened'[g] = 0 /\ \A h \in Gens \ {g} : opened'[h] = opened[h]
  BY DEF Remove, IInv, ColTypes
<1>3. /\ col' \in [Gens -> Collector] /\ \A h \in Gens \ {g} : col'[h] = col[h]
      /\ col'[g].pc = "ended"
  <2>1. col[g] \in Collector /\ col \in [Gens -> Collector] /\ MaxAttempts \in Nat
    BY DEF IInv, ColTypes, Constants
  <2>2. At(col[g], "ended") \in Collector /\ At(col[g], "ended").pc = "ended"
    BY <2>1, AtType DEF PCs
  <2>3. col' = [col EXCEPT ![g] = At(col[g], "ended")]
    BY DEF Remove, Goes
  <2> QED
    BY <2>1, <2>2, <2>3
<1>4. TabTypes' /\ SeenTypes'
  BY <1>1 DEF IInv, TabTypes, SeenTypes, tab
<1>5. ColTypes'
  BY <1>1, <1>2, <1>3 DEF IInv, ColTypes, channels
<1>6. Begun' /\ Shows' /\ Wanted' /\ StoppedShown'
  BY <1>1 DEF IInv, Begun, Shows, Connected, Wanted, StoppedShown, tab
<1>7. Forbids'
  <2>1. \A h \in Gens : Alive(h)' => Alive(h)
    BY <1>1, <1>3 DEF Alive
  <2>2. conn.n # 0 => conn.n \in Gens
    BY DEF IInv, TabTypes
  <2>3. Alive(conn.n)' /\ conn.n # 0 => Alive(conn.n)
    BY <1>1, <2>1, <2>2 DEF tab, Alive
  <2> QED
    BY <1>1, <2>3 DEF IInv, Forbids, tab
<1>8. ASSUME NEW h \in Gens PROVE Ordered(h)'
  <2>1. Ordered(h) /\ Ordered(g) /\ h # 0 /\ MaxAttempts \in Nat
    BY DEF IInv, Constants
  <2>2. CASE h = g
    BY <1>1, <1>2, <1>3, <2>1, <2>2 DEF Ordered, OneOpening, HasChannel, Counted, Held, Alive, Current, Unspawned,
         Past, Controlled, Settled, Showing, Marked, Busy, Working, Channeled, tab, channels
  <2>3. CASE h # g
    <3>1. /\ col'[h] = col[h] /\ opened'[h] = opened[h] /\ (h \in enabled' <=> h \in enabled)
          /\ (h \in torn' <=> h \in torn) /\ (control' = h <=> control = h)
      BY <1>1, <1>2, <1>3, <2>1, <2>3
    <3> QED
      BY <1>1, <2>1, <3>1 DEF Ordered, OneOpening, HasChannel, Counted, Held, Alive, Current, Unspawned,
         Past, Controlled, Settled, Showing, Marked, Busy, Working, tab, channels
  <2> QED
    BY <2>2, <2>3
<1> QED
  BY <1>4, <1>5, <1>6, <1>7, <1>8 DEF IInv

-------------------------------------------------------------------------------
(***************************************************************************)
(* The tab and the user                                                    *)
(***************************************************************************)

LEMMA Numbers == Constants /\ IInv => conn.n \in Nat /\ \A g \in Gens : g \in Nat /\ g # 0
<1> SUFFICES ASSUME Constants, IInv PROVE conn.n \in Nat /\ \A g \in Gens : g \in Nat /\ g # 0
  OBVIOUS
<1>1. \A g \in Gens : g \in Nat /\ g # 0
  BY DEF Constants
<1>2. conn.n = 0 \/ conn.n \in Gens
  BY DEF IInv, TabTypes
<1>3. 0 \in Nat
  OBVIOUS
<1> QED
  BY <1>1, <1>2, <1>3

LEMMA ConnectInv == ASSUME Constants, IInv, Connect PROVE IInv'
<1>1. /\ conn.stage = "down" /\ conn.n + 1 \in Gens /\ LeftWork
      /\ conn' = [n |-> conn.n + 1, stage |-> "connecting", told |-> configured, shut |-> FALSE]
      /\ capable' = configured /\ points' = FALSE
      /\ UNCHANGED <<configured, closed, changes, shown, settled, controls, clicks, col, channels,
                     call, past, crashes>>
  BY DEF Connect
<1>2. /\ conn'.n = conn.n + 1 /\ conn'.stage = "connecting" /\ conn'.told = configured
      /\ conn'.shut = FALSE
  BY <1>1
<1>3. conn.n \in Nat /\ configured \in BOOLEAN /\ Gens \subseteq Nat
  <2>1. configured \in BOOLEAN
    BY DEF IInv, TabTypes
  <2>2. Gens \subseteq Nat
    BY DEF Constants
  <2> QED
    BY <2>1, <2>2, Numbers
<1>4. TabTypes'
  <2>1. conn' \in [n : {0} \cup Gens, stage : Stages, told : BOOLEAN, shut : BOOLEAN]
    BY <1>1, <1>3 DEF Stages
  <2>2. forbidden' \in 0..conn'.n
    BY <1>1, <1>2, <1>3 DEF IInv, TabTypes, past
  <2> QED
    BY <1>1, <2>1, <2>2 DEF IInv, TabTypes, controls, past
<1>5. SeenTypes' /\ ColTypes'
  BY <1>1, <1>3 DEF IInv, SeenTypes, ColTypes, channels, past
<1>6. Begun' /\ Shows' /\ Wanted' /\ StoppedShown'
  BY <1>1, <1>2, <1>3 DEF IInv, Begun, Shows, Connected, Wanted, StoppedShown, controls, past
<1>7. Forbids'
  BY <1>1, <1>2, <1>3 DEF IInv, TabTypes, Forbids, past
<1>8. ASSUME NEW g \in Gens PROVE Ordered(g)'
  <2>1. Ordered(g) /\ col[g].pc \in {"none", "childEnd", "remove", "ended"}
    BY <1>1 DEF IInv, LeftWork
  <2>2. g \in Nat
    BY <1>3
  <2>3. Unspawned(g)'
    BY <1>1, <1>2, <1>3, <2>1, <2>2 DEF Ordered, Unspawned, controls, past
  <2>4. Past(g)'
    <3>1. conn.n # 0 => conn.n \in cancelled
      BY <1>1 DEF IInv, Begun
    <3>2. g # 0
      BY DEF Constants
    <3>3. g < conn'.n => g < conn.n \/ (g = conn.n /\ conn.n # 0)
      BY <1>2, <1>3, <2>2, <3>2
    <3> QED
      BY <1>1, <2>1, <3>1, <3>3 DEF Ordered, Past, controls
  <2>5. Controlled(g)'
    BY <1>1, <1>2, <1>3, <2>1, <2>2 DEF Ordered, Unspawned, Controlled, controls
  <2>6. Current(g)'
    BY <1>1, <2>1 DEF Current
  <2>7. OneOpening(g)' /\ Counted(g)' /\ Held(g)' /\ Settled(g)' /\ Showing(g)' /\ Marked(g)'
    BY <1>1, <2>1 DEF Ordered, OneOpening, HasChannel, Counted, Held, Alive, Settled, Showing,
       Marked, Busy, Working, controls, channels, past
  <2> QED
    BY <2>3, <2>4, <2>5, <2>6, <2>7 DEF Ordered
<1> QED
  BY <1>4, <1>5, <1>6, <1>7, <1>8 DEF IInv

LEMMA SnapshotInv == ASSUME Constants, IInv, Snapshot PROVE IInv'
<1>1. /\ conn.stage = "connecting" /\ conn' = [conn EXCEPT !.stage = "up"]
      /\ capable' = Allowed /\ points' = FALSE
      /\ UNCHANGED <<configured, closed, changes, settled, controls, clicks, col, channels, call,
                     past, crashes>>
  BY DEF Snapshot
<1>2. /\ conn \in [n : {0} \cup Gens, stage : Stages, told : BOOLEAN, shut : BOOLEAN]
      /\ shown \in [gen : {0} \cup Gens, phase : Phases \cup {"none"}, ssh : BOOLEAN]
      /\ capable \in BOOLEAN /\ SeenTypes /\ TabTypes
  BY DEF IInv, TabTypes, SeenTypes
<1>3. conn'.n = conn.n /\ conn'.stage = "up" /\ conn'.told = conn.told /\ conn'.shut = conn.shut
  BY <1>1, <1>2
<1>4. conn.n \in Gens /\ conn.n # 0
  BY <1>1, <1>2 DEF IInv, Begun
<1>5. /\ ~Allowed => shown'.gen = 0 /\ shown'.phase = "none" /\ shown'.ssh = FALSE
      /\ Allowed => /\ shown'.gen = conn.n /\ shown'.ssh = FALSE
                    /\ shown'.phase = IF shown.phase = "stopped" THEN "stopped" ELSE "starting"
  BY DEF Snapshot, Nothing
<1>6. SeenTypes'
  <2>1. shown' \in [gen : {0} \cup Gens, phase : Phases \cup {"none"}, ssh : BOOLEAN]
    BY <1>4 DEF Snapshot, Nothing, Phases
  <2>2. shown'.gen = 0 <=> shown'.phase = "none"
    BY <1>4, <1>5
  <2>3. capable' \in BOOLEAN
    BY <1>1, <1>2 DEF Allowed
  <2> QED
    BY <1>1, <1>2, <2>1, <2>2, <2>3 DEF SeenTypes
<1>7. TabTypes' /\ ColTypes'
  <2>1. conn' \in [n : {0} \cup Gens, stage : Stages, told : BOOLEAN, shut : BOOLEAN]
    BY <1>1, <1>2 DEF Stages
  <2> QED
    BY <1>1, <1>3, <2>1 DEF IInv, TabTypes, ColTypes, controls, channels, past
<1>8. Begun' /\ Shows'
  BY <1>1, <1>3, <1>5 DEF IInv, Begun, Shows, controls
<1>9. Wanted'
  BY <1>1, <1>3, <1>5 DEF IInv, Wanted, Allowed
<1>10. StoppedShown'
  <2>1. SUFFICES ASSUME stopped PROVE shown'.phase = "stopped" /\ shown'.gen \notin enabled
    BY <1>1 DEF StoppedShown, past, controls
  <2>2. shown.phase = "stopped" /\ shown.gen # 0
    BY <1>2, <2>1 DEF IInv, StoppedShown, SeenTypes
  <2>3. Allowed
    BY <1>1, <2>2 DEF IInv, Wanted, Allowed
  <2>4. conn.n \notin enabled
    BY <1>1, <1>4 DEF IInv, Ordered, Unspawned
  <2> QED
    BY <1>5, <2>2, <2>3, <2>4
<1>11. Forbids'
  <2>1. col[conn.n].pc = "none"
    BY <1>1, <1>4 DEF IInv, Ordered, Unspawned
  <2>2. forbidden = conn.n => ~Allowed
    BY <1>1, <1>4 DEF IInv, Forbids, Allowed
  <2> QED
    BY <1>1, <1>3, <1>4, <1>5, <2>1, <2>2 DEF Forbids, Alive, past
<1>12. ASSUME NEW g \in Gens PROVE Ordered(g)'
  <2>1. Ordered(g)
    BY DEF IInv
  <2>2. col[g].pc \in {"none", "childEnd", "remove", "ended"}
    BY <1>1, <2>1 DEF Ordered, Current
  <2> QED
    BY <1>1, <1>3, <2>1, <2>2 DEF Ordered, OneOpening, HasChannel, Counted, Held, Alive, Current, Unspawned,
         Past, Controlled, Settled, Showing, Marked, Busy, Working, Channeled, controls, channels, past
<1> QED
  BY <1>6, <1>7, <1>8, <1>9, <1>10, <1>11, <1>12 DEF IInv

LEMMA SpawnInv == ASSUME Constants, IInv, Spawn PROVE IInv'
<1>1. /\ conn.stage = "up" /\ conn' = [conn EXCEPT !.stage = "running"]
      /\ UNCHANGED <<configured, closed, changes, seen, clicks, channels, call, past, crashes>>
  BY DEF Spawn
<1>2. /\ conn \in [n : {0} \cup Gens, stage : Stages, told : BOOLEAN, shut : BOOLEAN]
      /\ Gens \subseteq Nat /\ 0 \notin Gens /\ col \in [Gens -> Collector]
  BY DEF IInv, TabTypes, ColTypes, Constants
<1>3. conn'.n = conn.n /\ conn'.stage = "running" /\ conn'.told = conn.told
      /\ conn'.shut = conn.shut
  BY <1>1, <1>2
<1>4. conn.n \in Gens
  BY <1>1, <1>2 DEF IInv, Begun
<1>5. conn' \in [n : {0} \cup Gens, stage : Stages, told : BOOLEAN, shut : BOOLEAN]
  BY <1>1, <1>2 DEF Stages
<1>6. /\ col[conn.n].pc = "none" /\ control # conn.n /\ conn.n \notin torn
      /\ conn.n \notin enabled
  BY <1>1, <1>4 DEF IInv, Ordered, Unspawned
<1>7. SeenTypes' /\ Shows' /\ Wanted'
  BY <1>1, <1>3 DEF IInv, SeenTypes, Shows, Connected, Wanted, seen
<1>8. CASE UNCHANGED <<controls, col>>
  <2>1. TabTypes' /\ ColTypes'
    BY <1>1, <1>3, <1>5, <1>8 DEF IInv, TabTypes, ColTypes, seen, controls, channels, past
  <2>2. Begun' /\ StoppedShown' /\ Forbids'
    BY <1>1, <1>3, <1>8 DEF IInv, Begun, StoppedShown, Forbids, Alive, seen, controls, past
  <2>3. ASSUME NEW g \in Gens PROVE Ordered(g)'
    <3>1. Ordered(g)
      BY DEF IInv
    <3> QED
      BY <1>1, <1>3, <1>8, <3>1 DEF Ordered, OneOpening, HasChannel, Counted, Held, Alive, Current, Unspawned,
         Past, Controlled, Settled, Showing, Marked, Busy, Working, Channeled, seen, controls, channels, past
  <2> QED
    BY <1>7, <2>1, <2>2, <2>3 DEF IInv
<1>9. CASE /\ shown.gen = conn.n /\ ~conn.shut /\ control' = conn.n
           /\ col' = [col EXCEPT ![conn.n].pc = "supervise"]
           /\ enabled' = (IF shown.phase = "stopped" THEN enabled ELSE enabled \cup {conn.n})
           /\ cancelled' = cancelled \cup ({control} \ {0})
  <2>1. /\ col' \in [Gens -> Collector] /\ \A h \in Gens \ {conn.n} : col'[h] = col[h]
        /\ col'[conn.n].pc = "supervise"
    <3>1. [col[conn.n] EXCEPT !.pc = "supervise"] \in Collector
          /\ [col[conn.n] EXCEPT !.pc = "supervise"].pc = "supervise"
      BY <1>2, <1>4 DEF Collector, PCs
    <3>2. col' = [col EXCEPT ![conn.n] = [col[conn.n] EXCEPT !.pc = "supervise"]]
      BY <1>9
    <3> QED
      BY <1>2, <1>4, <3>1, <3>2
  <2>2. TabTypes'
    BY <1>1, <1>3, <1>4, <1>5, <1>9 DEF IInv, TabTypes, past
  <2>3. ColTypes'
    BY <1>1, <2>1 DEF IInv, ColTypes, seen, channels, past
  <2>4. Begun' /\ StoppedShown'
    BY <1>1, <1>3, <1>9 DEF IInv, Begun, StoppedShown, seen, past
  <2>5. Forbids'
    BY <1>1, <1>3, <1>9 DEF IInv, Forbids, seen, past
  <2>6. ASSUME NEW g \in Gens PROVE Ordered(g)'
    <3>1. Ordered(g) /\ g # 0
      BY <1>2 DEF IInv
    <3>2. CASE g = conn.n
      BY <1>1, <1>2, <1>3, <1>6, <1>9, <2>1, <3>1, <3>2 DEF Ordered, OneOpening, HasChannel, Counted, Held, Alive, Current, Unspawned,
         Past, Controlled, Settled, Showing, Marked, Busy, Working, Channeled, seen, channels, past
    <3>3. CASE g # conn.n
      <4>1. col'[g] = col[g] /\ (g \in enabled' <=> g \in enabled) /\ control' # g
            /\ (g \in cancelled => g \in cancelled')
            /\ (control = g => g \in cancelled')
        BY <1>9, <2>1, <3>1, <3>3
      <4>2. col[g].pc \in {"none", "childEnd", "remove", "ended"}
        BY <1>1, <3>1 DEF Ordered, Current
      <4> QED
        BY <1>1, <1>3, <3>1, <3>3, <4>1, <4>2 DEF Ordered, OneOpening, HasChannel, Counted, Held, Alive, Current, Unspawned,
         Past, Controlled, Settled, Showing, Marked, Busy, Working, seen, channels, past
    <3> QED
      BY <3>2, <3>3
  <2> QED
    BY <1>7, <2>2, <2>3, <2>4, <2>5, <2>6 DEF IInv
<1> QED
  BY <1>8, <1>9 DEF Spawn

LEMMA LoseInv == ASSUME Constants, IInv, Lose PROVE IInv'
<1>1. /\ closed' = closed \cup {conn.n} /\ conn.n \in Gens
      /\ UNCHANGED <<conn, configured, changes, seen, controls, clicks, col, channels, call, past,
                     crashes>>
  BY DEF Lose, Connected, IInv, Begun, TabTypes
<1>2. TabTypes' /\ SeenTypes' /\ ColTypes'
  BY <1>1 DEF IInv, TabTypes, SeenTypes, ColTypes, seen, controls, channels, past
<1>3. Begun' /\ Shows' /\ Wanted' /\ StoppedShown' /\ Forbids'
  BY <1>1 DEF IInv, Begun, Shows, Connected, Wanted, StoppedShown, Forbids, Alive, seen, controls, past
<1>4. ASSUME NEW g \in Gens PROVE Ordered(g)'
  <2>1. Ordered(g)
    BY DEF IInv
  <2> QED
    BY <1>1, <2>1 DEF Ordered, OneOpening, HasChannel, Counted, Held, Alive, Current, Unspawned,
         Past, Controlled, Settled, Showing, Marked, Busy, Working, Channeled, seen, controls, channels, past
<1> QED
  BY <1>2, <1>3, <1>4 DEF IInv

LEMMA ShutdownInv == ASSUME Constants, IInv, Shutdown PROVE IInv'
<1>1. /\ conn' = [conn EXCEPT !.shut = TRUE] /\ cancelled' = cancelled \cup {conn.n} /\ Connected
      /\ UNCHANGED <<configured, closed, changes, seen, control, enabled, clicks, col, channels,
                     call, past, crashes>>
  BY DEF Shutdown
<1>2. /\ conn \in [n : {0} \cup Gens, stage : Stages, told : BOOLEAN, shut : BOOLEAN]
      /\ 0 \notin Gens
  BY DEF IInv, TabTypes, Constants
<1>3. conn'.n = conn.n /\ conn'.stage = conn.stage /\ conn'.told = conn.told /\ conn'.shut = TRUE
  BY <1>1, <1>2
<1>4. conn' \in [n : {0} \cup Gens, stage : Stages, told : BOOLEAN, shut : BOOLEAN]
      /\ conn.n \in Gens
  BY <1>1, <1>2 DEF IInv, Begun, Connected
<1>5. TabTypes' /\ SeenTypes' /\ ColTypes'
  BY <1>1, <1>3, <1>4 DEF IInv, TabTypes, SeenTypes, ColTypes, seen, channels, past
<1>6. Begun' /\ Shows' /\ Wanted' /\ StoppedShown' /\ Forbids'
  BY <1>1, <1>3 DEF IInv, Begun, Shows, Connected, Wanted, StoppedShown, Forbids, Alive, seen, past
<1>7. ASSUME NEW g \in Gens PROVE Ordered(g)'
  <2>1. Ordered(g) /\ (g \in cancelled => g \in cancelled')
    BY <1>1 DEF IInv
  <2> QED
    BY <1>1, <1>3, <2>1 DEF Ordered, OneOpening, HasChannel, Counted, Held, Alive, Current, Unspawned,
         Past, Controlled, Settled, Showing, Marked, Busy, Working, Channeled, seen, channels, past
<1> QED
  BY <1>5, <1>6, <1>7 DEF IInv

LEMMA DownInv == ASSUME Constants, IInv, Down PROVE IInv'
<1>1. /\ conn' = [conn EXCEPT !.stage = "down"] /\ closed' = closed \cup {conn.n} /\ Connected
      /\ conn.shut
      /\ UNCHANGED <<configured, changes, seen, controls, clicks, col, channels, call, past,
                     crashes>>
  BY DEF Down
<1>2. /\ conn \in [n : {0} \cup Gens, stage : Stages, told : BOOLEAN, shut : BOOLEAN]
      /\ 0 \notin Gens
  BY DEF IInv, TabTypes, Constants
<1>3. conn'.n = conn.n /\ conn'.stage = "down" /\ conn'.told = conn.told /\ conn'.shut = conn.shut
  BY <1>1, <1>2
<1>4. conn' \in [n : {0} \cup Gens, stage : Stages, told : BOOLEAN, shut : BOOLEAN]
      /\ conn.n \in Gens
  BY <1>1, <1>2 DEF IInv, Begun, Connected, Stages
<1>5. TabTypes' /\ SeenTypes' /\ ColTypes'
  BY <1>1, <1>3, <1>4 DEF IInv, TabTypes, SeenTypes, ColTypes, seen, controls, channels, past
<1>6. Begun' /\ Shows' /\ Wanted' /\ StoppedShown' /\ Forbids'
  BY <1>1, <1>3 DEF IInv, Begun, Shows, Connected, Wanted, StoppedShown, Forbids, Alive, seen, controls,
                    past
<1>7. ASSUME NEW g \in Gens PROVE Ordered(g)'
  <2>1. Ordered(g)
    BY DEF IInv
  <2> QED
    BY <1>1, <1>3, <2>1 DEF Ordered, OneOpening, HasChannel, Counted, Held, Alive, Current, Unspawned,
         Past, Controlled, Settled, Showing, Marked, Busy, Working, Channeled, Connected, seen, controls, channels, past
<1> QED
  BY <1>5, <1>6, <1>7 DEF IInv

\* Forbidding it cancels the collector that is installed, and no other may go on.
LEMMA ConfigureInv == ASSUME Constants, IInv, NEW on \in BOOLEAN, Configure(on) PROVE IInv'
<1>1. /\ configured' = on /\ changes' \in 0..Changes
      /\ UNCHANGED <<conn, closed, points, settled, control, enabled, clicks, col, channels, call,
                     opened, torn, joined, crashes>>
  <2>1. changes' = changes + 1 /\ changes < Changes /\ changes \in 0..Changes /\ Changes \in Nat
    BY DEF Configure, IInv, TabTypes, Constants
  <2>2. changes' \in 0..Changes
    BY <2>1
  <2> QED
    BY <2>2 DEF Configure
<1>2. /\ conn \in [n : {0} \cup Gens, stage : Stages, told : BOOLEAN, shut : BOOLEAN]
      /\ 0 \notin Gens
  BY DEF IInv, TabTypes, Constants
<1>3. CASE on
  <2>1. UNCHANGED <<shown, capable, cancelled, stopped, forbidden>>
    BY <1>3 DEF Configure
  <2>2. TabTypes' /\ SeenTypes' /\ ColTypes'
    BY <1>1, <2>1 DEF IInv, TabTypes, SeenTypes, ColTypes, channels
  <2>3. Begun' /\ Shows' /\ Wanted' /\ StoppedShown' /\ Forbids'
    BY <1>1, <1>3, <2>1 DEF IInv, Begun, Shows, Connected, Wanted, StoppedShown, Forbids, Alive
  <2>4. ASSUME NEW g \in Gens PROVE Ordered(g)'
    <3>1. Ordered(g)
      BY DEF IInv
    <3> QED
      BY <1>1, <2>1, <3>1 DEF Ordered, OneOpening, HasChannel, Counted, Held, Alive, Current, Unspawned,
         Past, Controlled, Settled, Showing, Marked, Busy, Working, Channeled, channels
  <2> QED
    BY <2>2, <2>3, <2>4 DEF IInv
<1>4. CASE ~on
  <2>1. /\ shown' = Nothing /\ capable' = FALSE /\ stopped' = FALSE /\ forbidden' = conn.n
        /\ cancelled' = cancelled \cup ({control} \ {0})
    BY <1>4 DEF Configure
  <2>2. shown'.gen = 0 /\ shown'.phase = "none"
    BY <2>1 DEF Nothing
  <2>3. SeenTypes'
    BY <1>1, <2>1 DEF IInv, SeenTypes, Nothing, Phases
  <2>4. TabTypes'
    <3>1. forbidden' \in 0..conn.n
      <4>1. conn.n \in Nat
        BY Numbers
      <4> QED
        BY <2>1, <4>1
    <3>2. cancelled' \subseteq Gens
      BY <2>1 DEF IInv, TabTypes
    <3> QED
      BY <1>1, <2>1, <3>1, <3>2 DEF IInv, TabTypes
  <2>5. ColTypes'
    BY <1>1 DEF IInv, ColTypes, channels
  <2>6. \A g \in Gens : Alive(g) => g \in cancelled'
    BY <1>2, <2>1 DEF IInv, Ordered, Held
  <2>7. Begun' /\ Shows' /\ Wanted' /\ StoppedShown'
    BY <1>1, <2>1, <2>2 DEF IInv, Begun, Shows, Connected, Wanted, StoppedShown
  <2>8. Forbids'
    <3>1. conn.n # 0 => conn.n \in Gens
      BY <1>2
    <3>2. conn.n # 0 /\ Alive(conn.n) => conn.n \in cancelled'
      BY <2>6, <3>1
    <3> QED
      BY <1>1, <2>1, <2>2, <3>2 DEF Forbids, Alive
  <2>9. ASSUME NEW g \in Gens PROVE Ordered(g)'
    <3>1. Ordered(g) /\ (g \in cancelled => g \in cancelled') /\ (Alive(g) => g \in cancelled')
      BY <2>1, <2>6 DEF IInv
    <3> QED
      BY <1>1, <3>1 DEF Ordered, OneOpening, HasChannel, Counted, Held, Alive, Current, Unspawned,
         Past, Controlled, Settled, Showing, Marked, Busy, Working, Channeled, channels
  <2> QED
    BY <2>3, <2>4, <2>5, <2>7, <2>8, <2>9 DEF IInv
<1> QED
  BY <1>3, <1>4

LEMMA RetryInv == ASSUME Constants, IInv, NEW g \in Gens, Retry(g) PROVE IInv'
<1>1. /\ clicks' = clicks \cup {g}
      /\ UNCHANGED <<tab, seen, controls, col, channels, call, past, crashes>>
  BY DEF Retry
<1>2. TabTypes' /\ SeenTypes' /\ ColTypes'
  BY <1>1 DEF IInv, TabTypes, SeenTypes, ColTypes, tab, seen, controls, channels, past
<1>3. Begun' /\ Shows' /\ Wanted' /\ StoppedShown' /\ Forbids'
  BY <1>1 DEF IInv, Begun, Shows, Connected, Wanted, StoppedShown, Forbids, Alive, tab, seen, controls,
              past
<1>4. ASSUME NEW h \in Gens PROVE Ordered(h)'
  <2>1. Ordered(h)
    BY DEF IInv
  <2> QED
    BY <1>1, <2>1 DEF Ordered, OneOpening, HasChannel, Counted, Held, Alive, Current, Unspawned,
         Past, Controlled, Settled, Showing, Marked, Busy, Working, Channeled, tab, seen, controls, channels, past
<1> QED
  BY <1>2, <1>3, <1>4 DEF IInv

\* Requests: only the state that is shown and the intent change.
LEMMA Asked ==
    ASSUME IInv, NEW c \in Calls, NEW r \in [gen : {0} \cup Gens, on : BOOLEAN,
                                             answer : {"none", "waits", "given"}],
           r.answer = "waits" => r.gen \in Gens, call' = [call EXCEPT ![c] = r]
    PROVE  /\ call' \in [Calls -> [gen : {0} \cup Gens, on : BOOLEAN,
                                   answer : {"none", "waits", "given"}]]
           /\ \A d \in Calls : call'[d].answer = "waits" => call'[d].gen \in Gens
BY DEF IInv, TabTypes

LEMMA SetEnabledInv ==
    ASSUME Constants, IInv, NEW c \in Calls, NEW g \in Gens, NEW on \in BOOLEAN,
           SetEnabled(c, g, on)
    PROVE  IInv'
<1>1. /\ Connected /\ capable /\ shown.gen = g /\ (on => shown.phase = "stopped")
      /\ UNCHANGED <<tab, capable, points, settled, control, cancelled, clicks, col, channels,
                     forbidden, opened, torn, joined, crashes>>
  BY DEF SetEnabled
<1>2. g = conn.n /\ g # 0
  BY <1>1 DEF IInv, Shows, Constants
<1>3. stopped \in BOOLEAN /\ shown \in [gen : {0} \cup Gens, phase : Phases \cup {"none"}, ssh : BOOLEAN]
  BY DEF IInv, TabTypes, SeenTypes
<1>4. ColTypes'
  BY <1>1 DEF IInv, ColTypes, channels
<1>5. CASE /\ control = g /\ g \notin cancelled /\ UNCHANGED shown
           /\ enabled' = (IF on THEN enabled \cup {g} ELSE enabled \ {g})
           /\ call' = [call EXCEPT ![c] = [gen |-> g, on |-> on, answer |-> "waits"]]
           /\ stopped' = (stopped /\ ~on)
  <2>1. /\ call' \in [Calls -> [gen : {0} \cup Gens, on : BOOLEAN,
                                answer : {"none", "waits", "given"}]]
        /\ \A d \in Calls : call'[d].answer = "waits" => call'[d].gen \in Gens
    BY <1>5, Asked
  <2>2. TabTypes' /\ SeenTypes'
    BY <1>1, <1>3, <1>5, <2>1 DEF IInv, TabTypes, SeenTypes, tab
  <2>3. Begun' /\ Shows' /\ Wanted' /\ Forbids'
    BY <1>1, <1>5 DEF IInv, Begun, Shows, Connected, Wanted, Forbids, Alive, tab
  <2>4. StoppedShown'
    BY <1>5 DEF IInv, StoppedShown
  <2>5. ASSUME NEW h \in Gens PROVE Ordered(h)'
    <3>1. Ordered(h)
      BY DEF IInv
    <3>2. CASE h # g
      <4>1. h \in enabled' <=> h \in enabled
        BY <1>5, <3>2
      <4> QED
        BY <1>1, <1>5, <3>1, <4>1 DEF Ordered, OneOpening, HasChannel, Counted, Held, Alive, Current, Unspawned,
         Past, Controlled, Settled, Showing, Marked, Busy, Working, Channeled, tab, channels
    <3>3. CASE h = g
      <4>1. /\ OneOpening(h)' /\ Counted(h)' /\ Held(h)' /\ Current(h)' /\ Past(h)'
            /\ Settled(h)' /\ Showing(h)'
        BY <1>1, <1>5, <3>1 DEF Ordered, OneOpening, HasChannel, Counted, Held, Alive, Current, Unspawned,
         Past, Controlled, Settled, Showing, Marked, Busy, Working, Channeled, tab, channels
      <4>2. Unspawned(h)' /\ Controlled(h)'
        BY <1>1, <1>2, <1>5, <3>1, <3>3 DEF Ordered, Unspawned, Controlled, tab
      <4>3. Marked(h)'
        BY <1>1, <1>5, <3>1, <3>3 DEF Ordered, Marked
      <4> QED
        BY <4>1, <4>2, <4>3 DEF Ordered
    <3> QED
      BY <3>2, <3>3
  <2> QED
    BY <1>4, <2>2, <2>3, <2>4, <2>5 DEF IInv
<1>6. CASE /\ control # g /\ shown.phase \in {"starting", "stopped"} /\ UNCHANGED enabled
           /\ shown' = [shown EXCEPT !.phase = IF on THEN "starting" ELSE "stopped",
                                     !.ssh = FALSE]
           /\ call' = [call EXCEPT ![c] = Answered]
           /\ stopped' = ~on
  <2>1. /\ call' \in [Calls -> [gen : {0} \cup Gens, on : BOOLEAN,
                                answer : {"none", "waits", "given"}]]
        /\ \A d \in Calls : call'[d].answer = "waits" => call'[d].gen \in Gens
    BY <1>6, Asked DEF Answered
  <2>2. /\ shown'.gen = g /\ shown'.phase = (IF on THEN "starting" ELSE "stopped")
        /\ shown' \in [gen : {0} \cup Gens, phase : Phases \cup {"none"}, ssh : BOOLEAN]
    BY <1>1, <1>3, <1>6 DEF Phases
  <2>3. TabTypes' /\ SeenTypes'
    BY <1>1, <1>2, <1>6, <2>1, <2>2 DEF IInv, TabTypes, SeenTypes, tab
  <2>4. Begun' /\ Shows' /\ Wanted' /\ Forbids'
    BY <1>1, <1>2, <1>6, <2>2 DEF IInv, Begun, Shows, Connected, Wanted, Forbids, Alive, tab
  <2>5. StoppedShown'
    <3>1. g \notin enabled
      BY <1>2, <1>6 DEF IInv, Ordered, Controlled
    <3> QED
      BY <1>6, <2>2, <3>1 DEF StoppedShown
  <2>6. ASSUME NEW h \in Gens PROVE Ordered(h)'
    <3>1. Ordered(h)
      BY DEF IInv
    <3>2. col[h].pc \in Busy \cup {"top"} => h \in cancelled
      <4>1. SUFFICES ASSUME col[h].pc \in Busy \cup {"top"}, h \notin cancelled PROVE FALSE
        OBVIOUS
      <4>2. control = h
        BY <3>1, <4>1 DEF Ordered, Held, Alive, Busy, Working
      <4>3. h = conn.n
        BY <3>1, <4>1 DEF Ordered, Current, Busy, Working
      <4> QED
        BY <1>2, <1>6, <4>2, <4>3
    <3> QED
      BY <1>1, <1>6, <3>1, <3>2 DEF Ordered, OneOpening, HasChannel, Counted, Held, Alive, Current, Unspawned,
         Past, Controlled, Settled, Showing, Marked, Busy, Working, Channeled, tab, channels
  <2> QED
    BY <1>4, <2>3, <2>4, <2>5, <2>6 DEF IInv
<1> QED
  BY <1>5, <1>6 DEF SetEnabled

\* A confirmed stop is of the collector that is shown.
LEMMA CallEndsInv == ASSUME Constants, IInv, NEW c \in Calls, CallEnds(c) PROVE IInv'
<1> DEFINE g == call[c].gen
<1>1. /\ call[c].answer = "waits" /\ call' = [call EXCEPT ![c] = Answered]
      /\ UNCHANGED <<tab, seen, controls, clicks, col, channels, forbidden, opened, torn, joined,
                     crashes>>
  BY DEF CallEnds
<1>2. g \in Gens /\ stopped \in BOOLEAN
  BY <1>1 DEF IInv, TabTypes
<1>3. \/ UNCHANGED stopped
      \/ /\ settled[g] = (IF call[c].on THEN "on" ELSE "off") /\ g \notin cancelled
         /\ stopped' = (stopped \/ (~call[c].on /\ g \notin enabled /\ shown.phase = "stopped"))
  BY DEF CallEnds
<1>4. /\ call' \in [Calls -> [gen : {0} \cup Gens, on : BOOLEAN,
                              answer : {"none", "waits", "given"}]]
      /\ \A d \in Calls : call'[d].answer = "waits" => call'[d].gen \in Gens
  BY <1>1, Asked DEF Answered
<1>5. TabTypes' /\ SeenTypes' /\ ColTypes'
  BY <1>1, <1>2, <1>3, <1>4 DEF IInv, TabTypes, SeenTypes, ColTypes, tab, seen, controls, channels
<1>6. Begun' /\ Shows' /\ Wanted' /\ Forbids'
  BY <1>1 DEF IInv, Begun, Shows, Connected, Wanted, Forbids, Alive, tab, seen, controls
<1>7. StoppedShown'
  <2>1. CASE stopped' = stopped
    BY <1>1, <2>1 DEF IInv, StoppedShown, seen, controls
  <2>2. CASE /\ stopped' # stopped /\ settled[g] = "off" /\ g \notin cancelled
             /\ g \notin enabled /\ shown.phase = "stopped"
    <3>1. Ordered(g) /\ g \in Nat /\ conn.n \in Nat /\ g # 0
      BY <1>2, Numbers DEF IInv
    <3>2. ~(g < conn.n) /\ ~(g > conn.n)
      BY <2>2, <3>1 DEF Ordered, Past, Unspawned
    <3>3. g = conn.n
      BY <3>1, <3>2
    <3>4. conn.stage = "running"
      BY <2>2, <3>1, <3>3 DEF IInv, TabTypes, Stages, Begun, Ordered, Unspawned
    <3>5. shown.gen = g
      BY <2>2, <3>3, <3>4 DEF IInv, Shows, Connected, SeenTypes
    <3> QED
      BY <1>1, <2>2, <3>5 DEF StoppedShown, seen, controls
  <2> QED
    BY <1>2, <1>3, <2>1, <2>2
<1>8. ASSUME NEW h \in Gens PROVE Ordered(h)'
  <2>1. Ordered(h)
    BY DEF IInv
  <2> QED
    BY <1>1, <2>1 DEF Ordered, OneOpening, HasChannel, Counted, Held, Alive, Current, Unspawned,
         Past, Controlled, Settled, Showing, Marked, Busy, Working, Channeled, tab, seen, controls, channels
<1> QED
  BY <1>5, <1>6, <1>7, <1>8 DEF IInv

-------------------------------------------------------------------------------

LEMMA NextInv == Constants /\ IInv /\ [Next]_vars => IInv'
<1> SUFFICES ASSUME Constants, IInv, [Next]_vars PROVE IInv'
  OBVIOUS
<1>1. CASE Next
  <2>1. ASSUME NEW g \in Gens,
               \/ Retry(g) \/ Supervise(g) \/ Top(g) \/ Begin(g) \/ LeaveIdle(g) \/ Notice(g)
               \/ WorkEnds(g) \/ Open(g) \/ Ask(g) \/ OpenFails(g) \/ Opened(g) \/ LateAnswer(g)
               \/ LateClose(g) \/ Setup(g)
        PROVE  IInv'
    BY <2>1, RetryInv, SuperviseInv, TopInv, BeginInv, LeaveIdleInv, NoticeInv, WorkEndsInv,
       OpenInv, AskInv, OpenFailsInv, OpenedInv, LateAnswerInv, LateCloseInv, SetupInv
  <2>2. ASSUME NEW g \in Gens,
               \/ Sample(g) \/ Stall(g) \/ ClickWhilePaused(g) \/ Unsupported(g) \/ Ends(g)
               \/ Close(g) \/ After(g) \/ Resume(g) \/ LeaveWait(g) \/ Panic(g) \/ ChildEnds(g)
               \/ Rest(g) \/ Remove(g)
        PROVE  IInv'
    BY <2>2, SampleInv, StallInv, ClickWhilePausedInv, UnsupportedInv, EndsInv, CloseInv, AfterInv,
       ResumeInv, LeaveWaitInv, PanicInv, ChildEndsInv, RestInv, RemoveInv
  <2>3. ASSUME Connect \/ Snapshot \/ Spawn \/ Lose \/ Shutdown \/ Down PROVE IInv'
    BY <2>3, ConnectInv, SnapshotInv, SpawnInv, LoseInv, ShutdownInv, DownInv
  <2>4. ASSUME NEW on \in BOOLEAN,
               Configure(on) \/ \E c \in Calls, g \in Gens : SetEnabled(c, g, on)
        PROVE  IInv'
    BY <2>4, ConfigureInv, SetEnabledInv
  <2>5. ASSUME NEW c \in Calls, CallEnds(c) PROVE IInv'
    BY <2>5, CallEndsInv
  <2> QED
    BY <1>1, <2>1, <2>2, <2>3, <2>4, <2>5 DEF Next
<1>2. CASE UNCHANGED vars
  <2>1. TabTypes' /\ SeenTypes' /\ ColTypes'
    BY <1>2 DEF IInv, TabTypes, SeenTypes, ColTypes, vars, tab, seen, controls, channels, past
  <2>2. Begun' /\ Shows' /\ Wanted' /\ StoppedShown' /\ Forbids'
    BY <1>2 DEF IInv, Begun, Shows, Connected, Wanted, StoppedShown, Forbids, Alive, vars, tab, seen,
                controls, past
  <2>3. ASSUME NEW h \in Gens PROVE Ordered(h)'
    <3>1. Ordered(h)
      BY DEF IInv
    <3> QED
      BY <1>2, <3>1 DEF Ordered, OneOpening, HasChannel, Counted, Held, Alive, Current, Unspawned,
         Past, Controlled, Settled, Showing, Marked, Busy, Working, Channeled, vars, tab, seen, controls, channels, past
  <2> QED
    BY <2>1, <2>2, <2>3 DEF IInv
<1> QED
  BY <1>1, <1>2

LEMMA Sufficient == Constants /\ IInv => TypeOK /\ MonitoringSound
<1> SUFFICES ASSUME Constants, IInv PROVE TypeOK /\ MonitoringSound
  OBVIOUS
<1>1. TypeOK
  <2>1. ASSUME NEW g \in Gens
        PROVE  /\ settled[g] \in {"none", "on", "off"}
               /\ col[g].phase \in Phases /\ col[g].attempt \in 0..(MaxAttempts + 1)
               /\ late[g] \in Nat /\ closing[g] \in Nat
    <3>1. col[g] \in Collector
      BY DEF IInv, ColTypes
    <3> QED
      BY <3>1 DEF IInv, SeenTypes, ColTypes, Collector
  <2>2. /\ conn.n \in {0} \cup Gens /\ conn.stage \in {"down", "connecting", "up", "running"}
        /\ shown.gen \in {0} \cup Gens /\ shown.phase \in Phases \cup {"none"}
    BY DEF IInv, TabTypes, SeenTypes, Stages
  <2> QED
    BY <2>1, <2>2 DEF IInv, TabTypes, SeenTypes, ColTypes, TypeOK
<1>2. StopKept
  BY DEF IInv, Ordered, Showing, StoppedShown, StopKept, HasChannel, Busy, Working
<1>3. OffIsOff
  <2> SUFFICES ASSUME NEW g \in Gens, HasChannel(g), g = forbidden PROVE g \in cancelled
    BY DEF OffIsOff
  <2>1. g = conn.n /\ Alive(g) /\ g # 0
    BY DEF IInv, Ordered, Current, HasChannel, Alive, Constants
  <2> QED
    BY <2>1 DEF IInv, Forbids
<1>4. RetriesBounded
  BY DEF IInv, Ordered, Counted, RetriesBounded
<1>5. OneChannel
  <2> SUFFICES ASSUME NEW g \in Gens
               PROVE  closing[g] + (IF HasChannel(g) THEN 1 ELSE 0) <= 1
    BY DEF OneChannel
  <2>1. OneOpening(g) /\ late[g] \in Nat /\ closing[g] \in Nat
    BY DEF IInv, Ordered, ColTypes
  <2> QED
    BY <2>1 DEF OneOpening
<1>6. Reachable
  BY DEF IInv, Ordered, Held, Reachable
<1>7. joined
  BY DEF IInv, ColTypes
<1> QED
  BY <1>1, <1>2, <1>3, <1>4, <1>5, <1>6, <1>7 DEF MonitoringSound

\* However the connections, the user, the settings and the collectors interleave:
\* what was stopped or forbidden collects nothing, a channel is retried so many
\* times, the server has one channel of a collector, every collector that may go on
\* can be reached, and no line is drawn through an interruption.
THEOREM Sound == Constants => (Spec => [](TypeOK /\ MonitoringSound))
<1> SUFFICES ASSUME Constants PROVE Spec => [](TypeOK /\ MonitoringSound)
  OBVIOUS
<1>1. Init => IInv
  BY InitInv
<1>2. IInv /\ [Next]_vars => IInv'
  BY NextInv
<1>3. IInv => TypeOK /\ MonitoringSound
  BY Sufficient
<1> QED
  BY <1>1, <1>2, <1>3, PTL DEF Spec

===============================================================================
