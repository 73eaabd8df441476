------------------------------- MODULE SshTunnels -------------------------------
(***************************************************************************)
(* The tunnels of an SSH tab (sessions/ssh/tunnels.rs).  A task of its own *)
(* owns the rules of one worker and takes commands in their order; when    *)
(* the worker ends it stops every rule, which may last as long as the      *)
(* server is silent, while the next worker of the tab already runs.  Local *)
(* rules listen on this machine, remote ones on the server; the table of   *)
(* the targets of remote rules belongs to the tab and outlives its workers.*)
(***************************************************************************)
EXTENDS Naturals, FiniteSets

CONSTANTS
    LocalRules, RemoteRules,
    address,        \* address[rule]: where a rule listens
    Workers,        \* bound: the workers of the tab, 1..n in their order
    Commands,       \* bound: commands of the user
    Faults,         \* bound: requests the server refuses or is late for
    None

Rules == LocalRules \cup RemoteRules

VARIABLES
    worker,     \* "none", "up", "closing": sender dropped, "gone": all stopped
    status,     \* status[w][r] of the registered rules
    stops,      \* stops[w]: the rules of local_stops
    remote,     \* remote[w]: the rules of remote_rules
    busy,       \* busy[w]: the request the task awaits
    listening,  \* listening[w]: local listeners that are open
    bound,      \* bound[w]: what the server forwards to this connection
    forwards,   \* forwards[r]: entries in the table of the tab
    taken,      \* rules whose entry an earlier worker removed
    commands, faults

vars == <<worker, status, stops, remote, busy, listening, bound, forwards, taken, commands, faults>>

Statuses == {"unknown", "stopped", "starting", "running", "stopping", "error"}
Idle == [op |-> None, rule |-> None]

TypeOK ==
    /\ worker \in [Workers -> {"none", "up", "closing", "gone"}]
    /\ status \in [Workers -> [Rules -> Statuses]]
    /\ stops \in [Workers -> SUBSET LocalRules] /\ listening \in [Workers -> SUBSET LocalRules]
    /\ remote \in [Workers -> SUBSET RemoteRules] /\ bound \in [Workers -> SUBSET RemoteRules]
    /\ busy \in [Workers -> [op : {"start", "cancel", "delete", None}, rule : Rules \cup {None}]]
    /\ forwards \in [RemoteRules -> Nat] /\ taken \subseteq RemoteRules
    /\ commands \in 0..Commands /\ faults \in 0..Faults

Init ==
    /\ worker = [w \in Workers |-> "none"]
    /\ status = [w \in Workers |-> [r \in Rules |-> "unknown"]]
    /\ stops = [w \in Workers |-> {}] /\ listening = [w \in Workers |-> {}]
    /\ remote = [w \in Workers |-> {}] /\ bound = [w \in Workers |-> {}]
    /\ busy = [w \in Workers |-> Idle]
    /\ forwards = [r \in RemoteRules |-> 0] /\ taken = {}
    /\ commands = 0 /\ faults = 0

-------------------------------------------------------------------------------
SetStatus(w, r, s) == status' = [status EXCEPT ![w][r] = s]
Free(w) == busy[w] = Idle
\* Nobody on this machine listens where the rule would.
Bindable(r) == \A v \in Workers : \A o \in listening[v] : address[o] # address[r]
Known(w, r) == status[w][r] # "unknown"

\* register: no running rule of this id, no other rule of this address.
CanRegister(w, r) ==
    /\ status[w][r] \notin {"running", "starting"}
    /\ \A o \in Rules \ {r} : Known(w, o) /\ (o \in RemoteRules <=> r \in RemoteRules)
                              => address[o] # address[r]

\* start_local_or_dynamic: the listener is open or the start failed.
StartLocal(w, r) ==
    /\ IF Bindable(r)
       THEN /\ listening' = [listening EXCEPT ![w] = @ \cup {r}]
            /\ stops' = [stops EXCEPT ![w] = @ \cup {r}]
            /\ SetStatus(w, r, "running")
       ELSE SetStatus(w, r, "error") /\ UNCHANGED <<listening, stops>>
    /\ UNCHANGED busy

Begin(w, r) ==
    IF r \in LocalRules THEN StartLocal(w, r)
    ELSE /\ SetStatus(w, r, "starting")
         /\ busy' = [busy EXCEPT ![w] = [op |-> "start", rule |-> r]]
         /\ UNCHANGED <<listening, stops>>

\* Stopping closes the listener soon, and asks the server before it answers.
EndRule(w, r, op) ==
    /\ stops' = [stops EXCEPT ![w] = @ \ {r}]
    /\ IF r \in remote[w]
       THEN /\ SetStatus(w, r, "stopping")
            /\ busy' = [busy EXCEPT ![w] = [op |-> op, rule |-> r]]
       ELSE /\ SetStatus(w, r, IF op = "delete" THEN "unknown" ELSE "stopped")
            /\ UNCHANGED busy

-------------------------------------------------------------------------------
\* A worker connects: its rules are registered, and those of autoStart started.
Connect(w) ==
    /\ worker[w] = "none"
    /\ \A v \in Workers : v < w => worker[v] \in {"closing", "gone"}
    /\ worker' = [worker EXCEPT ![w] = "up"]
    /\ \E R \in SUBSET Rules :
         /\ \A r, o \in R : r = o \/ address[r] # address[o]
                            \/ (r \in RemoteRules <=> o \in LocalRules)
         /\ status' = [status EXCEPT ![w] = [r \in Rules |-> IF r \in R THEN "stopped" ELSE "unknown"]]
    /\ taken' = {}
    /\ UNCHANGED <<stops, remote, busy, listening, bound, forwards, commands, faults>>

\* create and start; a rule that already runs is left alone.
Start(w, r) ==
    /\ worker[w] = "up" /\ Free(w) /\ commands < Commands
    /\ commands' = commands + 1
    /\ r \notin stops[w] \cup remote[w]
    /\ Known(w, r) \/ CanRegister(w, r)
    /\ Begin(w, r)
    /\ UNCHANGED <<worker, remote, bound, forwards, taken, faults>>

\* tcpip_forward: the server binds, and the answer comes in time or not.
ServerStarts(w, binds, intime) ==
    /\ busy[w].op = "start" /\ faults + (IF binds /\ intime THEN 0 ELSE 1) <= Faults
    /\ LET r == busy[w].rule IN
       /\ bound' = [bound EXCEPT ![w] = IF binds THEN @ \cup {r} ELSE @]
       /\ IF binds /\ intime
          THEN /\ remote' = [remote EXCEPT ![w] = @ \cup {r}]
               /\ forwards' = [forwards EXCEPT ![r] = @ + 1]
               /\ taken' = taken \ {r}
               /\ SetStatus(w, r, "running")
               /\ UNCHANGED faults
          ELSE /\ SetStatus(w, r, "error") /\ faults' = faults + 1
               /\ UNCHANGED <<remote, forwards, taken>>
    /\ busy' = [busy EXCEPT ![w] = Idle]
    /\ UNCHANGED <<worker, stops, listening, commands>>

Stop(w, r, op) ==
    /\ worker[w] = "up" /\ Free(w) /\ Known(w, r) /\ commands < Commands
    /\ commands' = commands + 1
    /\ EndRule(w, r, op)
    /\ UNCHANGED <<worker, remote, listening, bound, forwards, taken, faults>>

\* Mistaken variant: without an answer of the server the target stays.
ServerStopsIfAnswered(w, answers) ==
    /\ busy[w].op \in {"cancel", "delete"} /\ faults + (IF answers THEN 0 ELSE 1) <= Faults
    /\ LET r == busy[w].rule IN
       /\ bound' = [bound EXCEPT ![w] = IF answers THEN @ \ {r} ELSE @]
       /\ remote' = [remote EXCEPT ![w] = @ \ {r}]
       /\ forwards' = [forwards EXCEPT ![r] = IF answers THEN 0 ELSE @]
       /\ SetStatus(w, r, "stopped")
    /\ faults' = faults + (IF answers THEN 0 ELSE 1)
    /\ busy' = [busy EXCEPT ![w] = Idle]
    /\ UNCHANGED <<worker, stops, listening, taken, commands>>

\* cancel_tcpip_forward, answered or not: the entries of the table go, those
\* of another worker of the tab with them.
ServerStops(w, answers) ==
    /\ busy[w].op \in {"cancel", "delete"} /\ faults + (IF answers THEN 0 ELSE 1) <= Faults
    /\ LET r == busy[w].rule IN
       /\ bound' = [bound EXCEPT ![w] = IF answers THEN @ \ {r} ELSE @]
       /\ remote' = [remote EXCEPT ![w] = @ \ {r}]
       /\ forwards' = [forwards EXCEPT ![r] = 0]
       /\ taken' = IF \E v \in Workers \ {w} : r \in remote[v] THEN taken \cup {r} ELSE taken
       /\ SetStatus(w, r, IF busy[w].op = "delete" THEN "unknown" ELSE "stopped")
    /\ faults' = faults + (IF answers THEN 0 ELSE 1)
    /\ busy' = [busy EXCEPT ![w] = Idle]
    /\ UNCHANGED <<worker, stops, listening, commands>>

\* The task of a listener sees that its stop was sent or dropped.
CloseListener(w, r) ==
    /\ r \in listening[w] \ stops[w]
    /\ listening' = [listening EXCEPT ![w] = @ \ {r}]
    /\ UNCHANGED <<worker, status, stops, remote, busy, bound, forwards, taken, commands, faults>>

\* accept fails: the listener closes, and nobody is told.
ListenerFails(w, r) ==
    /\ r \in listening[w] /\ faults < Faults
    /\ faults' = faults + 1
    /\ listening' = [listening EXCEPT ![w] = @ \ {r}]
    /\ UNCHANGED <<worker, status, stops, remote, busy, bound, forwards, taken, commands>>

\* The event loop ends and drops the sender; with the connection everything
\* goes that the server forwards to it.
Disconnect(w) ==
    /\ worker[w] = "up"
    /\ worker' = [worker EXCEPT ![w] = "closing"]
    /\ bound' = [bound EXCEPT ![w] = {}]
    /\ UNCHANGED <<status, stops, remote, busy, listening, forwards, taken, commands, faults>>

\* stop_all: one registered rule after the other.
StopNext(w, r) ==
    /\ worker[w] = "closing" /\ Free(w)
    /\ r \in stops[w] \cup remote[w]
    /\ EndRule(w, r, "cancel")
    /\ UNCHANGED <<worker, remote, listening, bound, forwards, taken, commands, faults>>

Leave(w) ==
    /\ worker[w] = "closing" /\ Free(w) /\ stops[w] \cup remote[w] = {}
    /\ worker' = [worker EXCEPT ![w] = "gone"]
    /\ UNCHANGED <<status, stops, remote, busy, listening, bound, forwards, taken, commands, faults>>

Next ==
    \E w \in Workers :
      \/ Connect(w) \/ Disconnect(w) \/ Leave(w)
      \/ \E r \in Rules :
           \/ Start(w, r) \/ StopNext(w, r) \/ CloseListener(w, r) \/ ListenerFails(w, r)
           \/ \E op \in {"cancel", "delete"} : Stop(w, r, op)
      \/ \E b, intime \in BOOLEAN : ServerStarts(w, b, intime)
      \/ \E b \in BOOLEAN : ServerStops(w, b)

Spec == Init /\ [][Next]_vars

-------------------------------------------------------------------------------
(***************************************************************************)
(* Properties                                                              *)
(***************************************************************************)

\* Whatever listens can still be stopped or is about to close; a tunnel shown
\* as stopped does not listen once its listener has closed, unless the server
\* was late; a remote tunnel shown as running has a target, unless an earlier
\* worker of the tab, which stopped later, took it away; and a worker that
\* ended leaves neither a target nor a listener that nobody closes.
TunnelsAccounted ==
    /\ \A w \in Workers : \A r \in Rules :
         /\ r \in stops[w] \cup remote[w] => status[w][r] \in {"running", "stopping"}
         /\ status[w][r] = "running" => r \in stops[w] \cup remote[w]
         /\ (r \in stops[w] /\ r \notin listening[w]) => faults > 0
         /\ (r \in bound[w] /\ status[w][r] = "stopped") => faults > 0
    /\ \A r \in RemoteRules :
         /\ \A w \in Workers :
              status[w][r] = "running" => forwards[r] > 0 \/ r \in taken
         /\ forwards[r] > 0 => \E w \in Workers : r \in remote[w]
    /\ \A v, w \in Workers : \A r \in listening[v], o \in listening[w] :
         address[r] = address[o] => v = w /\ r = o
===============================================================================
