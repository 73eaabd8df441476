---------------------------- MODULE MCTerminalProofs ----------------------------
(***************************************************************************)
(* Proofs about what goes on behind a terminal tab, of the instances the   *)
(* composition drives.                                                     *)
(***************************************************************************)
EXTENDS MCTerminal, TLAPS

-------------------------------------------------------------------------------
(***************************************************************************)
(* The tunnels.                                                            *)
(***************************************************************************)
TunnelConstants ==
    /\ LocalRules \cap RemoteRules = {}
    /\ None \notin {"start", "cancel", "delete"}

TunnelWorkers == 1..2

\* A worker: before it connects it has nothing; what it starts is not there yet, what it stops
\* still is; what the server forwards to it is a rule of its own, unless an answer was late.
Serves(w) ==
    /\ worker[w] = "none" =>
         /\ stops[w] = {} /\ remote[w] = {} /\ bound[w] = {} /\ listening[w] = {}
         /\ busy[w] = Tunnels!Idle
    /\ busy[w].op = "start" => busy[w].rule \in RemoteRules \ remote[w]
    /\ busy[w].op \in {"cancel", "delete"} => busy[w].rule \in remote[w]
    /\ \A r \in bound[w] : r \in remote[w] \/ faults > 0
    /\ \A r \in stops[w] : r \in listening[w] \/ faults > 0
    /\ \A r \in stops[w] \cup remote[w] : status[w][r] \in {"running", "stopping"}
    /\ \A r \in Tunnels!Rules : status[w][r] = "running" => r \in stops[w] \cup remote[w]

\* The table of the tab: it has an entry of a rule that somebody has, and a worker has lost one
\* only to another.
Forwarded(r) ==
    /\ \A w \in TunnelWorkers : r \in remote[w] => forwards[r] > 0 \/ r \in taken
    /\ forwards[r] > 0 => \E w \in TunnelWorkers : r \in remote[w]

OneListener ==
    \A v, w \in TunnelWorkers : \A r \in listening[v], o \in listening[w] :
        Addresses[r] = Addresses[o] => v = w /\ r = o

InOrder ==
    /\ worker[2] # "none" => worker[1] # "none"
    /\ taken # {} => worker[2] # "none"

TunnelInv ==
    /\ Tunnels!TypeOK
    /\ \A w \in TunnelWorkers : Serves(w)
    /\ \A r \in RemoteRules : Forwarded(r)
    /\ OneListener /\ InOrder

LEMMA TunnelInit == TunnelConstants /\ Tunnels!Init => TunnelInv
<1> SUFFICES ASSUME TunnelConstants, Tunnels!Init PROVE TunnelInv
  OBVIOUS
<1> USE DEF Tunnels!Init, TunnelWorkers
<1>1. Tunnels!TypeOK
  <2>1. worker \in [1..2 -> {"none", "up", "closing", "gone"}]
        /\ status \in [1..2 -> [Tunnels!Rules -> Tunnels!Statuses]]
    BY DEF Tunnels!Statuses
  <2>2. /\ stops \in [1..2 -> SUBSET LocalRules] /\ listening \in [1..2 -> SUBSET LocalRules]
        /\ remote \in [1..2 -> SUBSET RemoteRules] /\ bound \in [1..2 -> SUBSET RemoteRules]
    OBVIOUS
  <2>3. busy \in [1..2 -> [op : {"start", "cancel", "delete", None}, rule : Tunnels!Rules \cup {None}]]
    BY DEF Tunnels!Idle
  <2>4. /\ forwards \in [RemoteRules -> Nat] /\ taken \subseteq RemoteRules
        /\ commands \in 0..3 /\ faults \in 0..1
    OBVIOUS
  <2> QED
    BY <2>1, <2>2, <2>3, <2>4 DEF Tunnels!TypeOK
<1>2. ASSUME NEW w \in TunnelWorkers PROVE Serves(w)
  BY DEF Serves, Tunnels!Idle, TunnelConstants
<1>3. OneListener /\ InOrder
  BY DEF OneListener, InOrder
<1> QED
  BY <1>1, <1>2, <1>3 DEF TunnelInv, Forwarded

\* What the steps need of the invariant for a worker.
TunnelFacts(w) ==
    /\ worker \in [TunnelWorkers -> {"none", "up", "closing", "gone"}]
    /\ status \in [TunnelWorkers -> [Tunnels!Rules -> Tunnels!Statuses]]
    /\ stops \in [TunnelWorkers -> SUBSET LocalRules]
    /\ listening \in [TunnelWorkers -> SUBSET LocalRules]
    /\ remote \in [TunnelWorkers -> SUBSET RemoteRules]
    /\ bound \in [TunnelWorkers -> SUBSET RemoteRules]
    /\ busy \in [TunnelWorkers -> [op : {"start", "cancel", "delete", None},
                                   rule : Tunnels!Rules \cup {None}]]
    /\ forwards \in [RemoteRules -> Nat] /\ taken \subseteq RemoteRules
    /\ commands \in 0..3 /\ faults \in 0..1 /\ faults \in Nat
    /\ Serves(w) /\ OneListener /\ InOrder /\ \A r \in RemoteRules : Forwarded(r)
    /\ LocalRules \subseteq Tunnels!Rules /\ RemoteRules \subseteq Tunnels!Rules

LEMMA TunnelTypes ==
    ASSUME TunnelInv, NEW w \in TunnelWorkers
    PROVE  TunnelFacts(w)
  BY DEF TunnelInv, Tunnels!TypeOK, TunnelWorkers, Tunnels!Rules, TunnelFacts

\* What a step of one worker leaves to the others.
OthersStay(w) ==
    \A v \in TunnelWorkers : v # w =>
      /\ worker'[v] = worker[v] /\ status'[v] = status[v] /\ stops'[v] = stops[v]
      /\ remote'[v] = remote[v] /\ busy'[v] = busy[v] /\ listening'[v] = listening[v]
      /\ bound'[v] = bound[v]

LEMMA WorkerStays ==
    ASSUME TunnelConstants, TunnelInv, NEW w \in TunnelWorkers, OthersStay(w),
           faults' \in Nat, faults' >= faults
    PROVE  \A v \in TunnelWorkers : v # w => Serves(v)'
<1> SUFFICES ASSUME NEW v \in TunnelWorkers, v # w PROVE Serves(v)'
  OBVIOUS
<1>1. Serves(v) /\ faults \in Nat
  BY TunnelTypes DEF TunnelFacts
<1>2. /\ worker'[v] = worker[v] /\ status'[v] = status[v] /\ stops'[v] = stops[v]
      /\ remote'[v] = remote[v] /\ busy'[v] = busy[v] /\ listening'[v] = listening[v]
      /\ bound'[v] = bound[v]
  BY DEF OthersStay
<1>3. faults > 0 => faults' > 0
  BY <1>1
<1> QED
  BY <1>1, <1>2, <1>3 DEF Serves, Tunnels!Idle

\* The status of one rule, and the request of one worker.
OneStatus(w, r, s) ==
    /\ status' \in [TunnelWorkers -> [Tunnels!Rules -> Tunnels!Statuses]]
    /\ status'[w][r] = s
    /\ \A o \in Tunnels!Rules : o # r => status'[w][o] = status[w][o]
    /\ \A v \in TunnelWorkers : v # w => status'[v] = status[v]

LEMMA StatusIsSet ==
    ASSUME TunnelInv, NEW w \in TunnelWorkers, NEW r \in Tunnels!Rules, NEW s \in Tunnels!Statuses,
           Tunnels!SetStatus(w, r, s)
    PROVE  OneStatus(w, r, s)
<1>1. status \in [TunnelWorkers -> [Tunnels!Rules -> Tunnels!Statuses]]
  BY TunnelTypes DEF TunnelFacts
<1>2. status' = [status EXCEPT ![w][r] = s]
  BY DEF Tunnels!SetStatus
<1> QED
  BY <1>1, <1>2 DEF OneStatus

Requests(w, ask, r) ==
    /\ busy' \in [TunnelWorkers -> [op : {"start", "cancel", "delete", None},
                                    rule : Tunnels!Rules \cup {None}]]
    /\ busy'[w] = [op |-> ask, rule |-> r]
    /\ \A v \in TunnelWorkers : v # w => busy'[v] = busy[v]

LEMMA RequestIsMade ==
    ASSUME TunnelInv, NEW w \in TunnelWorkers, NEW ask \in {"start", "cancel", "delete", None},
           NEW r \in Tunnels!Rules \cup {None},
           busy' = [busy EXCEPT ![w] = [op |-> ask, rule |-> r]]
    PROVE  Requests(w, ask, r)
<1>1. busy \in [TunnelWorkers -> [op : {"start", "cancel", "delete", None},
                                 rule : Tunnels!Rules \cup {None}]]
  BY TunnelTypes DEF TunnelFacts
<1> QED
  BY <1>1 DEF Requests

LEMMA TunnelEnds ==
    ASSUME TunnelConstants, TunnelInv, NEW w \in TunnelWorkers, NEW r \in Tunnels!Rules,
           NEW ask \in {"cancel", "delete"}, Tunnels!Free(w), worker[w] \in {"up", "closing"},
           Tunnels!EndRule(w, r, ask), commands' \in 0..3,
           UNCHANGED <<worker, remote, listening, bound, forwards, taken, faults>>
    PROVE  TunnelInv'
<1>0. TunnelFacts(w)
  BY TunnelTypes
<1>1. /\ stops' \in [TunnelWorkers -> SUBSET LocalRules] /\ stops'[w] = stops[w] \ {r}
      /\ \A v \in TunnelWorkers : v # w => stops'[v] = stops[v]
  BY <1>0 DEF Tunnels!EndRule, TunnelFacts
<1>2. OneListener' /\ InOrder' /\ \A o \in RemoteRules : Forwarded(o)'
  BY <1>0 DEF OneListener, InOrder, Forwarded, TunnelFacts
<1>3. /\ worker' = worker /\ remote' = remote /\ listening' = listening /\ bound' = bound
      /\ faults' = faults /\ faults \in Nat /\ busy[w] = Tunnels!Idle
  BY <1>0 DEF Tunnels!Free, TunnelFacts
<1>4. CASE r \in remote[w]
  <2>1. OneStatus(w, r, "stopping")
    <3>1. Tunnels!SetStatus(w, r, "stopping")
      BY <1>4 DEF Tunnels!EndRule
    <3>2. "stopping" \in Tunnels!Statuses
      BY DEF Tunnels!Statuses
    <3> QED
      BY <3>1, <3>2, StatusIsSet
  <2>2. Requests(w, ask, r)
    <3>1. busy' = [busy EXCEPT ![w] = [op |-> ask, rule |-> r]]
      BY <1>4 DEF Tunnels!EndRule
    <3> QED
      BY <3>1, RequestIsMade
  <2>3. Tunnels!TypeOK'
    BY <1>0, <1>1, <2>1, <2>2 DEF Tunnels!TypeOK, TunnelWorkers, OneStatus, Requests, TunnelFacts
  <2>4. Serves(w)'
    BY <1>0, <1>1, <1>3, <1>4, <2>1, <2>2 DEF Serves, OneStatus, Requests, TunnelFacts
  <2>5. OthersStay(w)
    BY <1>1, <1>3, <2>1, <2>2 DEF OthersStay, OneStatus, Requests
  <2>6. \A v \in TunnelWorkers : v # w => Serves(v)'
    BY <1>3, <2>5, WorkerStays
  <2> QED
    BY <1>2, <2>3, <2>4, <2>6 DEF TunnelInv
<1>5. CASE r \notin remote[w]
  <2>1. PICK s \in {"stopped", "unknown"} : OneStatus(w, r, s)
    <3>1. \E s \in {"stopped", "unknown"} : Tunnels!SetStatus(w, r, s)
      BY <1>5 DEF Tunnels!EndRule
    <3>2. {"stopped", "unknown"} \subseteq Tunnels!Statuses
      BY DEF Tunnels!Statuses
    <3> QED
      BY <3>1, <3>2, StatusIsSet
  <2>2. busy' = busy
    BY <1>5 DEF Tunnels!EndRule
  <2>3. Tunnels!TypeOK'
    BY <1>0, <1>1, <2>1, <2>2 DEF Tunnels!TypeOK, TunnelWorkers, OneStatus, TunnelFacts
  <2>4. Serves(w)'
    BY <1>0, <1>1, <1>3, <1>5, <2>1, <2>2 DEF Serves, OneStatus, TunnelFacts
  <2>5. OthersStay(w)
    BY <1>1, <1>3, <2>1, <2>2 DEF OthersStay, OneStatus
  <2>6. \A v \in TunnelWorkers : v # w => Serves(v)'
    BY <1>3, <2>5, WorkerStays
  <2> QED
    BY <1>2, <2>3, <2>4, <2>6 DEF TunnelInv
<1> QED
  BY <1>4, <1>5

LEMMA TunnelStarts ==
    ASSUME TunnelConstants, TunnelInv, NEW w \in TunnelWorkers, NEW r \in Tunnels!Rules,
           Tunnels!Start(w, r)
    PROVE  TunnelInv'
<1>0. TunnelFacts(w)
  BY TunnelTypes
<1>1. /\ worker' = worker /\ remote' = remote /\ bound' = bound /\ forwards' = forwards
      /\ taken' = taken /\ faults' = faults /\ faults \in Nat
      /\ worker[w] = "up" /\ r \notin stops[w] \cup remote[w] /\ busy[w] = Tunnels!Idle
  BY <1>0 DEF TunnelFacts, Tunnels!Start, Tunnels!Free
<1>2. commands' \in 0..3
  BY <1>0 DEF TunnelFacts, Tunnels!Start
<1>3. InOrder' /\ \A o \in RemoteRules : Forwarded(o)'
  BY <1>0, <1>1 DEF InOrder, Forwarded, TunnelFacts
<1>4. {"running", "error", "starting"} \subseteq Tunnels!Statuses
  BY DEF Tunnels!Statuses
<1>5. CASE r \in LocalRules /\ Tunnels!Bindable(r)
  <2>1. /\ listening' \in [TunnelWorkers -> SUBSET LocalRules] /\ listening'[w] = listening[w] \cup {r}
        /\ stops' \in [TunnelWorkers -> SUBSET LocalRules] /\ stops'[w] = stops[w] \cup {r}
        /\ \A v \in TunnelWorkers : v # w => stops'[v] = stops[v] /\ listening'[v] = listening[v]
        /\ busy' = busy
    <3>1. /\ listening' = [listening EXCEPT ![w] = @ \cup {r}]
          /\ stops' = [stops EXCEPT ![w] = @ \cup {r}] /\ busy' = busy
      BY <1>5 DEF Tunnels!Start, Tunnels!Begin, Tunnels!StartLocal
    <3> QED
      BY <1>0, <1>5, <3>1 DEF TunnelFacts
  <2>2. OneStatus(w, r, "running")
    <3>1. Tunnels!SetStatus(w, r, "running")
      BY <1>5 DEF Tunnels!Start, Tunnels!Begin, Tunnels!StartLocal
    <3> QED
      BY <1>4, <3>1, StatusIsSet
  <2>3. Tunnels!TypeOK'
    BY <1>0, <1>1, <1>2, <2>1, <2>2 DEF Tunnels!TypeOK, TunnelWorkers, OneStatus, TunnelFacts
  <2>4. Serves(w)'
    BY <1>0, <1>1, <2>1, <2>2 DEF Serves, OneStatus, TunnelFacts
  <2>5. OthersStay(w)
    BY <1>1, <2>1, <2>2 DEF OthersStay, OneStatus
  <2>6. \A v \in TunnelWorkers : v # w => Serves(v)'
    BY <1>1, <2>5, WorkerStays
  <2>7. OneListener'
    <3>1. \A v \in TunnelWorkers : \A o \in listening[v] : Addresses[o] # Addresses[r]
      BY <1>5 DEF Tunnels!Bindable, TunnelWorkers
    <3>2. OneListener
      BY <1>0 DEF TunnelFacts
    <3>3. \A v \in TunnelWorkers : \A o \in listening'[v] : o \in listening[v] \/ (v = w /\ o = r)
      BY <2>1
    <3> QED
      BY <3>1, <3>2, <3>3 DEF OneListener
  <2> QED
    BY <1>3, <2>3, <2>4, <2>6, <2>7 DEF TunnelInv
<1>6. CASE r \in LocalRules /\ ~Tunnels!Bindable(r)
  <2>1. listening' = listening /\ stops' = stops /\ busy' = busy
    BY <1>6 DEF Tunnels!Start, Tunnels!Begin, Tunnels!StartLocal
  <2>2. OneStatus(w, r, "error")
    <3>1. Tunnels!SetStatus(w, r, "error")
      BY <1>6 DEF Tunnels!Start, Tunnels!Begin, Tunnels!StartLocal
    <3> QED
      BY <1>4, <3>1, StatusIsSet
  <2>3. Tunnels!TypeOK'
    BY <1>0, <1>1, <1>2, <2>1, <2>2 DEF Tunnels!TypeOK, TunnelWorkers, OneStatus, TunnelFacts
  <2>4. Serves(w)'
    BY <1>0, <1>1, <2>1, <2>2 DEF Serves, OneStatus, TunnelFacts
  <2>5. OthersStay(w)
    BY <1>1, <2>1, <2>2 DEF OthersStay, OneStatus
  <2>6. \A v \in TunnelWorkers : v # w => Serves(v)'
    BY <1>1, <2>5, WorkerStays
  <2>7. OneListener'
    BY <1>0, <2>1 DEF OneListener, TunnelFacts
  <2> QED
    BY <1>3, <2>3, <2>4, <2>6, <2>7 DEF TunnelInv
<1>7. CASE r \notin LocalRules
  <2>1. listening' = listening /\ stops' = stops
    BY <1>7 DEF Tunnels!Start, Tunnels!Begin
  <2>2. OneStatus(w, r, "starting")
    <3>1. Tunnels!SetStatus(w, r, "starting")
      BY <1>7 DEF Tunnels!Start, Tunnels!Begin
    <3> QED
      BY <1>4, <3>1, StatusIsSet
  <2>3. Requests(w, "start", r)
    <3>1. busy' = [busy EXCEPT ![w] = [op |-> "start", rule |-> r]]
      BY <1>7 DEF Tunnels!Start, Tunnels!Begin
    <3> QED
      BY <3>1, RequestIsMade
  <2>4. Tunnels!TypeOK'
    BY <1>0, <1>1, <1>2, <2>1, <2>2, <2>3
       DEF Tunnels!TypeOK, TunnelWorkers, OneStatus, Requests, TunnelFacts
  <2>5. r \in RemoteRules
    BY <1>7 DEF Tunnels!Rules
  <2>6. Serves(w)'
    <3>1. busy'[w].op = "start" /\ busy'[w].rule = r
      BY <2>3 DEF Requests
    <3>2. worker'[w] # "none" /\ Serves(w)
      BY <1>0, <1>1 DEF TunnelFacts
    <3>3. busy'[w].op \notin {"cancel", "delete"} /\ busy'[w].rule \in RemoteRules \ remote'[w]
      BY <1>1, <2>5, <3>1
    <3>4. \A o \in Tunnels!Rules : status'[w][o] = IF o = r THEN "starting" ELSE status[w][o]
      BY <2>2 DEF OneStatus
    <3>5. \A o \in stops'[w] \cup remote'[w] : status'[w][o] \in {"running", "stopping"}
      BY <1>0, <1>1, <2>1, <3>2, <3>4 DEF Serves, TunnelFacts
    <3>6. \A o \in Tunnels!Rules : status'[w][o] = "running" => o \in stops'[w] \cup remote'[w]
      BY <1>1, <2>1, <3>2, <3>4 DEF Serves
    <3> QED
      BY <1>1, <2>1, <3>2, <3>3, <3>5, <3>6 DEF Serves
  <2>7. OthersStay(w)
    BY <1>1, <2>1, <2>2, <2>3 DEF OthersStay, OneStatus, Requests
  <2>8. \A v \in TunnelWorkers : v # w => Serves(v)'
    BY <1>1, <2>7, WorkerStays
  <2>9. OneListener'
    BY <1>0, <2>1 DEF OneListener, TunnelFacts
  <2> QED
    BY <1>3, <2>4, <2>6, <2>8, <2>9 DEF TunnelInv
<1> QED
  BY <1>5, <1>6, <1>7

\* The server answers a request to forward.
LEMMA TunnelServerStarts ==
    ASSUME TunnelConstants, TunnelInv, NEW w \in TunnelWorkers, NEW binds \in BOOLEAN,
           NEW intime \in BOOLEAN, Tunnels!ServerStarts(w, binds, intime)
    PROVE  TunnelInv'
<1>0. TunnelFacts(w)
  BY TunnelTypes
<1>1. PICK r \in RemoteRules \ remote[w] : r = busy[w].rule /\ busy[w].op = "start"
  BY <1>0 DEF Tunnels!ServerStarts, Serves, TunnelFacts
<1>2. /\ worker' = worker /\ stops' = stops /\ listening' = listening /\ commands' = commands
      /\ r \in Tunnels!Rules /\ r \notin stops[w] /\ worker[w] # "none" /\ faults \in Nat
  <2>1. r \in Tunnels!Rules /\ r \notin stops[w] /\ faults \in Nat
    BY <1>0, <1>1 DEF TunnelFacts, TunnelConstants
  <2>2. worker[w] # "none"
    BY <1>0, <1>1 DEF TunnelFacts, Serves, Tunnels!Idle, TunnelConstants
  <2> QED
    BY <2>1, <2>2 DEF Tunnels!ServerStarts
<1>3. Requests(w, None, None)
  <2>1. busy' = [busy EXCEPT ![w] = [op |-> None, rule |-> None]]
    BY DEF Tunnels!ServerStarts, Tunnels!Idle
  <2> QED
    BY <2>1, RequestIsMade
<1>4. busy'[w].op \notin {"start", "cancel", "delete"}
  BY <1>3 DEF Requests, TunnelConstants
<1>5. /\ bound' \in [TunnelWorkers -> SUBSET RemoteRules] /\ bound'[w] \subseteq bound[w] \cup {r}
      /\ \A v \in TunnelWorkers : v # w => bound'[v] = bound[v]
  <2>1. bound' = [bound EXCEPT ![w] = IF binds THEN bound[w] \cup {r} ELSE bound[w]]
    BY <1>0, <1>1 DEF Tunnels!ServerStarts, TunnelFacts
  <2> QED
    BY <1>0, <1>1, <2>1 DEF TunnelFacts
<1>6. {"running", "error"} \subseteq Tunnels!Statuses
  BY DEF Tunnels!Statuses
<1>7. OneListener'
  BY <1>0, <1>2 DEF OneListener, TunnelFacts
<1>8. CASE binds /\ intime
  <2>1. /\ remote' = [remote EXCEPT ![w] = remote[w] \cup {r}] /\ taken' = taken \ {r}
        /\ forwards' = [forwards EXCEPT ![r] = forwards[r] + 1] /\ faults' = faults
        /\ Tunnels!SetStatus(w, r, "running")
    BY <1>0, <1>1, <1>8 DEF Tunnels!ServerStarts, TunnelFacts
  <2>2. /\ remote' \in [TunnelWorkers -> SUBSET RemoteRules] /\ remote'[w] = remote[w] \cup {r}
        /\ \A v \in TunnelWorkers : v # w => remote'[v] = remote[v]
    BY <1>0, <2>1 DEF TunnelFacts
  <2>3. /\ forwards' \in [RemoteRules -> Nat] /\ forwards'[r] > 0
        /\ \A o \in RemoteRules : o # r => forwards'[o] = forwards[o]
    BY <1>0, <2>1 DEF TunnelFacts
  <2>4. OneStatus(w, r, "running")
    BY <1>2, <1>6, <2>1, StatusIsSet
  <2>5. Tunnels!TypeOK'
    BY <1>0, <1>2, <1>3, <1>5, <2>1, <2>2, <2>3, <2>4
       DEF Tunnels!TypeOK, TunnelWorkers, TunnelFacts, OneStatus, Requests
  <2>6. Serves(w)'
    BY <1>0, <1>2, <1>4, <1>5, <2>1, <2>2, <2>4 DEF Serves, TunnelFacts, OneStatus
  <2>7. OthersStay(w)
    BY <1>2, <1>3, <1>5, <2>2, <2>4 DEF OthersStay, OneStatus, Requests
  <2>8. \A v \in TunnelWorkers : v # w => Serves(v)'
    BY <1>2, <2>1, <2>7, WorkerStays
  <2>9. ASSUME NEW o \in RemoteRules PROVE Forwarded(o)'
    <3>1. Forwarded(o)
      BY <1>0 DEF TunnelFacts
    <3>2. CASE o = r
      BY <2>2, <2>3, <3>2 DEF Forwarded
    <3>3. CASE o # r
      BY <2>1, <2>2, <2>3, <3>1, <3>3 DEF Forwarded
    <3> QED
      BY <3>2, <3>3
  <2>10. InOrder'
    BY <1>0, <1>2, <2>1 DEF InOrder, TunnelFacts
  <2> QED
    BY <1>7, <2>5, <2>6, <2>8, <2>9, <2>10 DEF TunnelInv
<1>9. CASE ~(binds /\ intime)
  <2>1. /\ remote' = remote /\ forwards' = forwards /\ taken' = taken /\ faults' = faults + 1
        /\ faults + 1 <= 1 /\ Tunnels!SetStatus(w, r, "error")
    BY <1>1, <1>9 DEF Tunnels!ServerStarts
  <2>2. OneStatus(w, r, "error")
    BY <1>2, <1>6, <2>1, StatusIsSet
  <2>3. faults' \in 0..1 /\ faults' \in Nat /\ faults' > 0 /\ faults' >= faults
    BY <1>2, <2>1
  <2>4. Tunnels!TypeOK'
    BY <1>0, <1>2, <1>3, <1>5, <2>1, <2>2, <2>3
       DEF Tunnels!TypeOK, TunnelWorkers, TunnelFacts, OneStatus, Requests
  <2>5. Serves(w)'
    BY <1>0, <1>1, <1>2, <1>4, <1>5, <2>1, <2>2, <2>3 DEF Serves, TunnelFacts, OneStatus
  <2>6. OthersStay(w)
    BY <1>2, <1>3, <1>5, <2>1, <2>2 DEF OthersStay, OneStatus, Requests
  <2>7. \A v \in TunnelWorkers : v # w => Serves(v)'
    BY <2>3, <2>6, WorkerStays
  <2>8. InOrder' /\ \A o \in RemoteRules : Forwarded(o)'
    BY <1>0, <1>2, <2>1 DEF InOrder, Forwarded, TunnelFacts
  <2> QED
    BY <1>7, <2>4, <2>5, <2>7, <2>8 DEF TunnelInv
<1> QED
  BY <1>8, <1>9

\* The server answers a request to stop, or does not.
LEMMA TunnelServerStops ==
    ASSUME TunnelConstants, TunnelInv, NEW w \in TunnelWorkers, NEW answered \in BOOLEAN,
           Tunnels!ServerStops(w, answered)
    PROVE  TunnelInv'
<1>0. TunnelFacts(w)
  BY TunnelTypes
<1>1. PICK r \in remote[w] : r = busy[w].rule /\ busy[w].op \in {"cancel", "delete"}
  BY <1>0 DEF Tunnels!ServerStops, Serves, TunnelFacts
<1>2. /\ worker' = worker /\ stops' = stops /\ listening' = listening /\ commands' = commands
      /\ r \in Tunnels!Rules /\ r \in RemoteRules /\ r \notin stops[w] /\ worker[w] # "none"
      /\ faults \in Nat
  <2>1. r \in Tunnels!Rules /\ r \in RemoteRules /\ r \notin stops[w] /\ faults \in Nat
    BY <1>0, <1>1 DEF TunnelFacts, TunnelConstants
  <2>2. worker[w] # "none"
    BY <1>0, <1>1 DEF TunnelFacts, Serves
  <2> QED
    BY <2>1, <2>2 DEF Tunnels!ServerStops
<1>3. Requests(w, None, None)
  <2>1. busy' = [busy EXCEPT ![w] = [op |-> None, rule |-> None]]
    BY DEF Tunnels!ServerStops, Tunnels!Idle
  <2> QED
    BY <2>1, RequestIsMade
<1>4. busy'[w].op \notin {"start", "cancel", "delete"}
  BY <1>3 DEF Requests, TunnelConstants
<1>5. /\ bound' \in [TunnelWorkers -> SUBSET RemoteRules]
      /\ bound'[w] = IF answered THEN bound[w] \ {r} ELSE bound[w]
      /\ \A v \in TunnelWorkers : v # w => bound'[v] = bound[v]
  <2>1. bound' = [bound EXCEPT ![w] = IF answered THEN bound[w] \ {r} ELSE bound[w]]
    BY <1>0, <1>1 DEF Tunnels!ServerStops, TunnelFacts
  <2> QED
    BY <1>0, <2>1 DEF TunnelFacts
<1>6. /\ remote' \in [TunnelWorkers -> SUBSET RemoteRules] /\ remote'[w] = remote[w] \ {r}
      /\ \A v \in TunnelWorkers : v # w => remote'[v] = remote[v]
  <2>1. remote' = [remote EXCEPT ![w] = remote[w] \ {r}]
    BY <1>0, <1>1 DEF Tunnels!ServerStops, TunnelFacts
  <2> QED
    BY <1>0, <2>1 DEF TunnelFacts
<1>7. /\ forwards' \in [RemoteRules -> Nat] /\ forwards'[r] = 0
      /\ \A o \in RemoteRules : o # r => forwards'[o] = forwards[o]
  <2>1. forwards' = [forwards EXCEPT ![r] = 0]
    BY <1>1 DEF Tunnels!ServerStops
  <2> QED
    BY <1>0, <1>2, <2>1 DEF TunnelFacts
<1>8. PICK s \in {"stopped", "unknown"} : OneStatus(w, r, s)
  <2>1. \E s \in {"stopped", "unknown"} : Tunnels!SetStatus(w, r, s)
    BY <1>1 DEF Tunnels!ServerStops
  <2>2. {"stopped", "unknown"} \subseteq Tunnels!Statuses
    BY DEF Tunnels!Statuses
  <2> QED
    BY <1>2, <2>1, <2>2, StatusIsSet
<1>9. faults' \in 0..1 /\ faults' >= faults /\ (~answered => faults' > 0) /\ faults' \in Nat
  BY <1>2 DEF Tunnels!ServerStops
<1>10. /\ taken' = taken \/ taken' = taken \cup {r}
       /\ \A v \in TunnelWorkers : v # w /\ r \in remote[v] => r \in taken'
       /\ taken' # taken => \E v \in TunnelWorkers : v # w /\ r \in remote[v]
  <2>1. taken' = IF \E v \in TunnelWorkers \ {w} : r \in remote[v] THEN taken \cup {r} ELSE taken
    BY <1>1 DEF Tunnels!ServerStops, TunnelWorkers
  <2> QED
    BY <2>1
<1>11. Tunnels!TypeOK'
  <2>1. taken' \subseteq RemoteRules
    BY <1>0, <1>2, <1>10 DEF TunnelFacts
  <2> QED
    BY <1>0, <1>2, <1>3, <1>5, <1>6, <1>7, <1>8, <1>9, <2>1
       DEF Tunnels!TypeOK, TunnelWorkers, TunnelFacts, OneStatus, Requests
<1>12. Serves(w)'
  <2>1. Serves(w) /\ stops[w] \subseteq LocalRules /\ remote[w] \subseteq Tunnels!Rules
        /\ stops[w] \subseteq Tunnels!Rules
    BY <1>0 DEF TunnelFacts
  <2>2. \A o \in Tunnels!Rules : status'[w][o] = IF o = r THEN s ELSE status[w][o]
    BY <1>8 DEF OneStatus
  <2>3. \A o \in bound'[w] : o \in remote'[w] \/ faults' > 0
    BY <1>2, <1>5, <1>6, <1>9, <2>1 DEF Serves
  <2>4. \A o \in stops'[w] : o \in listening'[w] \/ faults' > 0
    BY <1>2, <1>9, <2>1 DEF Serves
  <2>5. \A o \in stops'[w] \cup remote'[w] : status'[w][o] \in {"running", "stopping"}
    BY <1>2, <1>6, <2>1, <2>2 DEF Serves
  <2>6. \A o \in Tunnels!Rules : status'[w][o] = "running" => o \in stops'[w] \cup remote'[w]
    BY <1>2, <1>6, <2>1, <2>2 DEF Serves
  <2> QED
    BY <1>2, <1>4, <2>3, <2>4, <2>5, <2>6 DEF Serves
<1>13. \A v \in TunnelWorkers : v # w => Serves(v)'
  <2>1. OthersStay(w)
    BY <1>2, <1>3, <1>5, <1>6, <1>8 DEF OthersStay, OneStatus, Requests
  <2> QED
    BY <1>9, <2>1, WorkerStays
<1>14. ASSUME NEW o \in RemoteRules PROVE Forwarded(o)'
  <2>1. Forwarded(o)
    BY <1>0 DEF TunnelFacts
  <2>2. CASE o = r
    BY <1>6, <1>7, <1>10, <2>2 DEF Forwarded
  <2>3. CASE o # r
    BY <1>6, <1>7, <1>10, <2>1, <2>3 DEF Forwarded
  <2> QED
    BY <2>2, <2>3
<1>15. InOrder'
  <2>1. InOrder
    BY <1>0 DEF TunnelFacts
  <2>2. CASE taken' = taken
    BY <1>2, <2>1, <2>2 DEF InOrder
  <2>3. CASE taken' # taken
    <3>1. PICK v \in TunnelWorkers : v # w /\ r \in remote[v]
      BY <1>10, <2>3
    <3>2. worker[v] # "none"
      BY <3>1, TunnelTypes DEF TunnelFacts, Serves
    <3> QED
      BY <1>2, <3>1, <3>2 DEF InOrder, TunnelWorkers
  <2> QED
    BY <2>2, <2>3
<1>16. OneListener'
  BY <1>0, <1>2 DEF OneListener, TunnelFacts
<1> QED
  BY <1>11, <1>12, <1>13, <1>14, <1>15, <1>16 DEF TunnelInv

\* A worker comes or goes, and a listener closes.
LEMMA TunnelOthers ==
    ASSUME TunnelConstants, TunnelInv, NEW w \in TunnelWorkers,
           \/ Tunnels!Connect(w) \/ Tunnels!Disconnect(w) \/ Tunnels!Leave(w)
           \/ \E r \in Tunnels!Rules : Tunnels!CloseListener(w, r) \/ Tunnels!ListenerFails(w, r)
    PROVE  TunnelInv'
<1>0. TunnelFacts(w)
  BY TunnelTypes
<1>1. CASE Tunnels!Connect(w)
  <2>1. /\ worker[w] = "none" /\ taken' = {} /\ (w = 2 => worker[1] # "none")
        /\ worker' = [worker EXCEPT ![w] = "up"]
        /\ stops' = stops /\ remote' = remote /\ busy' = busy /\ listening' = listening
        /\ bound' = bound /\ forwards' = forwards /\ commands' = commands /\ faults' = faults
        /\ faults \in Nat
    BY <1>0, <1>1 DEF Tunnels!Connect, TunnelWorkers, TunnelFacts
  <2>2. /\ worker' \in [TunnelWorkers -> {"none", "up", "closing", "gone"}] /\ worker'[w] = "up"
        /\ \A v \in TunnelWorkers : v # w => worker'[v] = worker[v]
    BY <1>0, <2>1 DEF TunnelFacts
  <2>3. /\ status' \in [TunnelWorkers -> [Tunnels!Rules -> Tunnels!Statuses]]
        /\ \A o \in Tunnels!Rules : status'[w][o] \in {"stopped", "unknown"}
        /\ \A v \in TunnelWorkers : v # w => status'[v] = status[v]
    <3>1. PICK R \in SUBSET Tunnels!Rules :
             status' = [status EXCEPT ![w] = [o \in Tunnels!Rules |-> IF o \in R THEN "stopped" ELSE "unknown"]]
      BY <1>1 DEF Tunnels!Connect
    <3>2. [o \in Tunnels!Rules |-> IF o \in R THEN "stopped" ELSE "unknown"]
            \in [Tunnels!Rules -> Tunnels!Statuses]
      BY DEF Tunnels!Statuses
    <3> QED
      BY <1>0, <3>1, <3>2 DEF TunnelFacts
  <2>4. taken = {}
    BY <1>0, <2>1 DEF InOrder, TunnelWorkers, TunnelFacts
  <2>5. Tunnels!TypeOK'
    BY <1>0, <2>1, <2>2, <2>3 DEF Tunnels!TypeOK, TunnelWorkers, TunnelFacts
  <2>6. Serves(w)'
    <3>1. /\ stops[w] = {} /\ remote[w] = {} /\ bound[w] = {} /\ busy[w] = Tunnels!Idle
      BY <1>0, <2>1 DEF TunnelFacts, Serves
    <3>2. busy'[w].op \notin {"start", "cancel", "delete"}
      BY <2>1, <3>1 DEF Tunnels!Idle, TunnelConstants
    <3> QED
      BY <2>1, <2>2, <2>3, <3>1, <3>2 DEF Serves
  <2>7. \A v \in TunnelWorkers : v # w => Serves(v)'
    <3>1. OthersStay(w)
      BY <2>1, <2>2, <2>3 DEF OthersStay
    <3> QED
      BY <2>1, <3>1, WorkerStays
  <2>8. OneListener' /\ \A o \in RemoteRules : Forwarded(o)'
    BY <1>0, <2>1, <2>4 DEF OneListener, Forwarded, TunnelFacts
  <2>9. InOrder'
    BY <2>1, <2>2 DEF InOrder, TunnelWorkers
  <2> QED
    BY <2>5, <2>6, <2>7, <2>8, <2>9 DEF TunnelInv
<1>2. CASE Tunnels!Disconnect(w) \/ Tunnels!Leave(w)
  <2>1. /\ worker[w] # "none" /\ worker' \in [TunnelWorkers -> {"none", "up", "closing", "gone"}]
        /\ worker'[w] # "none" /\ \A v \in TunnelWorkers : v # w => worker'[v] = worker[v]
    BY <1>0, <1>2 DEF Tunnels!Disconnect, Tunnels!Leave, TunnelFacts
  <2>2. /\ bound' \in [TunnelWorkers -> SUBSET RemoteRules] /\ bound'[w] \subseteq bound[w]
        /\ \A v \in TunnelWorkers : v # w => bound'[v] = bound[v]
    BY <1>0, <1>2 DEF Tunnels!Disconnect, Tunnels!Leave, TunnelFacts
  <2>3. /\ stops' = stops /\ remote' = remote /\ busy' = busy /\ listening' = listening
        /\ status' = status /\ forwards' = forwards /\ commands' = commands /\ faults' = faults
        /\ taken' = taken /\ faults \in Nat
    BY <1>0, <1>2 DEF Tunnels!Disconnect, Tunnels!Leave, TunnelFacts
  <2>4. Tunnels!TypeOK'
    BY <1>0, <2>1, <2>2, <2>3 DEF Tunnels!TypeOK, TunnelWorkers, TunnelFacts
  <2>5. Serves(w)'
    BY <1>0, <2>1, <2>2, <2>3 DEF Serves, TunnelFacts
  <2>6. \A v \in TunnelWorkers : v # w => Serves(v)'
    <3>1. OthersStay(w)
      BY <2>1, <2>2, <2>3 DEF OthersStay
    <3> QED
      BY <2>3, <3>1, WorkerStays
  <2>7. InOrder'
    BY <1>0, <2>1, <2>3 DEF InOrder, TunnelWorkers, TunnelFacts
  <2>8. OneListener' /\ \A o \in RemoteRules : Forwarded(o)'
    BY <1>0, <2>3 DEF OneListener, Forwarded, TunnelFacts
  <2> QED
    BY <2>4, <2>5, <2>6, <2>7, <2>8 DEF TunnelInv
<1>3. ASSUME NEW r \in Tunnels!Rules, Tunnels!CloseListener(w, r) \/ Tunnels!ListenerFails(w, r)
      PROVE  TunnelInv'
  <2>1. /\ worker' = worker /\ status' = status /\ stops' = stops /\ remote' = remote
        /\ busy' = busy /\ bound' = bound /\ forwards' = forwards /\ taken' = taken
        /\ commands' = commands /\ listening' = [listening EXCEPT ![w] = listening[w] \ {r}]
    BY <1>0, <1>3 DEF Tunnels!CloseListener, Tunnels!ListenerFails, TunnelFacts
  <2>2. /\ listening' \in [TunnelWorkers -> SUBSET LocalRules] /\ listening'[w] = listening[w] \ {r}
        /\ \A v \in TunnelWorkers : v # w => listening'[v] = listening[v]
    BY <1>0, <2>1 DEF TunnelFacts
  <2>3. /\ faults' \in 0..1 /\ faults' \in Nat /\ faults' >= faults /\ faults \in Nat
        /\ (r \in stops[w] => faults' > 0)
    <3>1. CASE Tunnels!CloseListener(w, r)
      BY <1>0, <3>1 DEF Tunnels!CloseListener, TunnelFacts
    <3>2. CASE Tunnels!ListenerFails(w, r)
      BY <1>0, <3>2 DEF Tunnels!ListenerFails, TunnelFacts
    <3> QED
      BY <1>3, <3>1, <3>2
  <2>4. Tunnels!TypeOK'
    BY <1>0, <2>1, <2>2, <2>3 DEF Tunnels!TypeOK, TunnelWorkers, TunnelFacts
  <2>5. Serves(w)'
    BY <1>0, <2>1, <2>2, <2>3 DEF Serves, TunnelFacts
  <2>6. \A v \in TunnelWorkers : v # w => Serves(v)'
    <3>1. OthersStay(w)
      BY <2>1, <2>2 DEF OthersStay
    <3> QED
      BY <2>3, <3>1, WorkerStays
  <2>7. InOrder' /\ \A o \in RemoteRules : Forwarded(o)'
    BY <1>0, <2>1 DEF InOrder, Forwarded, TunnelFacts
  <2>8. OneListener'
    <3>1. \A v \in TunnelWorkers : listening'[v] \subseteq listening[v]
      BY <2>2
    <3> QED
      BY <1>0, <3>1 DEF OneListener, TunnelFacts
  <2> QED
    BY <2>4, <2>5, <2>6, <2>7, <2>8 DEF TunnelInv
<1> QED
  BY <1>1, <1>2, <1>3

LEMMA TunnelNext ==
    ASSUME TunnelConstants, TunnelInv, Tunnels!Next \/ UNCHANGED tunnelVars
    PROVE  TunnelInv'
<1>1. CASE UNCHANGED tunnelVars
  BY <1>1 DEF tunnelVars, TunnelInv, Tunnels!TypeOK, Serves, Forwarded, OneListener, InOrder
<1>2. ASSUME NEW w \in TunnelWorkers, NEW r \in Tunnels!Rules, Tunnels!StopNext(w, r)
      PROVE  TunnelInv'
  <2>1. /\ worker[w] \in {"up", "closing"} /\ Tunnels!Free(w) /\ Tunnels!EndRule(w, r, "cancel")
        /\ UNCHANGED <<worker, remote, listening, bound, forwards, taken, faults>>
        /\ commands' = commands
    BY <1>2 DEF Tunnels!StopNext
  <2>2. commands' \in 0..3
    BY <2>1, TunnelTypes DEF TunnelFacts
  <2> QED
    BY <2>1, <2>2, TunnelEnds
<1>3. ASSUME NEW w \in TunnelWorkers, NEW r \in Tunnels!Rules, NEW ask \in {"cancel", "delete"},
             Tunnels!Stop(w, r, ask)
      PROVE  TunnelInv'
  <2>1. /\ worker[w] \in {"up", "closing"} /\ Tunnels!Free(w) /\ Tunnels!EndRule(w, r, ask)
        /\ UNCHANGED <<worker, remote, listening, bound, forwards, taken, faults>>
        /\ commands' = commands + 1 /\ commands < 3
    BY <1>3 DEF Tunnels!Stop
  <2>2. commands \in 0..3
    BY TunnelTypes DEF TunnelFacts
  <2>3. commands' \in 0..3
    BY <2>1, <2>2
  <2> QED
    BY <2>1, <2>3, TunnelEnds
<1>4. CASE Tunnels!Next
  <2>1. PICK w \in TunnelWorkers :
          \/ Tunnels!Connect(w) \/ Tunnels!Disconnect(w) \/ Tunnels!Leave(w)
          \/ \E r \in Tunnels!Rules :
               \/ Tunnels!Start(w, r) \/ Tunnels!StopNext(w, r) \/ Tunnels!CloseListener(w, r)
               \/ Tunnels!ListenerFails(w, r)
               \/ \E ask \in {"cancel", "delete"} : Tunnels!Stop(w, r, ask)
          \/ \E b, intime \in BOOLEAN : Tunnels!ServerStarts(w, b, intime)
          \/ \E b \in BOOLEAN : Tunnels!ServerStops(w, b)
    BY <1>4 DEF Tunnels!Next, TunnelWorkers
  <2>2. CASE \E b, intime \in BOOLEAN : Tunnels!ServerStarts(w, b, intime)
    BY <2>2, TunnelServerStarts
  <2>3. CASE \E b \in BOOLEAN : Tunnels!ServerStops(w, b)
    BY <2>3, TunnelServerStops
  <2>4. ASSUME NEW r \in Tunnels!Rules,
               \/ Tunnels!Start(w, r) \/ Tunnels!StopNext(w, r)
               \/ \E ask \in {"cancel", "delete"} : Tunnels!Stop(w, r, ask)
        PROVE  TunnelInv'
    BY <1>2, <1>3, <2>4, TunnelStarts
  <2>5. CASE \/ Tunnels!Connect(w) \/ Tunnels!Disconnect(w) \/ Tunnels!Leave(w)
             \/ \E r \in Tunnels!Rules : Tunnels!CloseListener(w, r) \/ Tunnels!ListenerFails(w, r)
    BY <2>5, TunnelOthers
  <2> QED
    BY <2>1, <2>2, <2>3, <2>4, <2>5
<1> QED
  BY <1>1, <1>4

LEMMA TunnelsAreAccounted == TunnelConstants /\ TunnelInv => Tunnels!TunnelsAccounted
<1> SUFFICES ASSUME TunnelConstants, TunnelInv PROVE Tunnels!TunnelsAccounted
  OBVIOUS
<1>1. ASSUME NEW w \in TunnelWorkers, NEW r \in Tunnels!Rules
      PROVE  /\ r \in stops[w] \cup remote[w] => status[w][r] \in {"running", "stopping"}
             /\ status[w][r] = "running" => r \in stops[w] \cup remote[w]
             /\ (r \in stops[w] /\ r \notin listening[w]) => faults > 0
             /\ (r \in bound[w] /\ status[w][r] = "stopped") => faults > 0
  <2>1. Serves(w)
    BY TunnelTypes DEF TunnelFacts
  <2> QED
    BY <2>1 DEF Serves
<1>2. ASSUME NEW r \in RemoteRules, NEW w \in TunnelWorkers, status[w][r] = "running"
      PROVE  forwards[r] > 0 \/ r \in taken
  <2>1. Serves(w) /\ Forwarded(r) /\ stops[w] \subseteq LocalRules /\ r \in Tunnels!Rules
    BY TunnelTypes DEF TunnelFacts
  <2>2. r \in remote[w]
    BY <1>2, <2>1 DEF Serves, TunnelConstants
  <2> QED
    BY <2>1, <2>2 DEF Forwarded
<1>3. ASSUME NEW r \in RemoteRules, forwards[r] > 0
      PROVE  \E w \in TunnelWorkers : r \in remote[w]
  BY <1>3 DEF TunnelInv, Forwarded
<1>4. OneListener
  BY DEF TunnelInv
<1> QED
  BY <1>1, <1>2, <1>3, <1>4 DEF Tunnels!TunnelsAccounted, TunnelWorkers, OneListener

-------------------------------------------------------------------------------
(***************************************************************************)
(* The components beside each other.                                       *)
(***************************************************************************)
PartInv == driven = "tunnels" => TunnelInv

LEMMA PartsKept == TunnelConstants => (Spec => []PartInv)
<1> SUFFICES ASSUME TunnelConstants PROVE Spec => []PartInv
  OBVIOUS
<1>1. Init => PartInv
  BY TunnelInit DEF Init, PartInv
<1>2. PartInv /\ [Next]_vars => PartInv'
  <2> SUFFICES ASSUME PartInv, [Next]_vars PROVE PartInv'
    OBVIOUS
  <2>1. driven' = driven
    BY DEF Next, vars
  <2>2. driven = "tunnels" => Tunnels!Next \/ UNCHANGED tunnelVars
    BY DEF Next, vars
  <2> QED
    BY <2>1, <2>2, TunnelNext DEF PartInv
<1> QED
  BY <1>1, <1>2, PTL DEF Spec

\* A tunnel that listens can be stopped, one that is shown as running has its listener or its
\* target, and no two listen at one address; for any rules and addresses, with two workers of a
\* tab of which the first may still stop its rules while the second starts its own.
THEOREM TunnelsStayAccounted == TunnelConstants => (Spec => []TunnelsAccounted)
<1> SUFFICES ASSUME TunnelConstants PROVE Spec => []TunnelsAccounted
  OBVIOUS
<1>1. PartInv => TunnelsAccounted
  BY TunnelsAreAccounted DEF PartInv, TunnelsAccounted
<1> QED
  BY <1>1, PartsKept, PTL
===============================================================================
