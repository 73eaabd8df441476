----------------------------- MODULE BridgeSession -----------------------------
(***************************************************************************)
(* The bridge between an MCP or CLI process and the desktop application:   *)
(* services/mcp/bridge/client.rs (threads that share one session) and the  *)
(* session loop of services/mcp/runtime.rs.  Every queue is bounded: the   *)
(* client's writer and a call's events, the server's writer, the permits   *)
(* of the server's requests.                                               *)
(*                                                                         *)
(* A frame is a record of its type and request; what it carries, the hello *)
(* and its token are left out.  The writer's queue and the socket behind   *)
(* it are one FIFO per direction.  Time is a heartbeat tick or a deadline  *)
(* that may come at any moment.                                            *)
(***************************************************************************)
EXTENDS Naturals, Sequences, FiniteSets

CONSTANTS
    Calls,          \* calls of the worker threads; the ids are never reused
    Conns,          \* bound: sessions ever opened
    None,
    UpCap,          \* BRIDGE_WRITER_QUEUE_SIZE of the client
    DownCap,        \* MCP_BRIDGE_WRITER_QUEUE_SIZE of the server
    EventCap,       \* BRIDGE_PENDING_EVENT_QUEUE_SIZE
    RequestLimit,   \* the server's request permits
    Attempts,       \* length of BRIDGE_RECONNECT_DELAYS
    MaxMissed       \* heartbeats without a pong before the session is dead

ASSUME BridgeAssumption ==
    /\ None \notin Calls \cup Conns
    /\ {UpCap, DownCap, EventCap, RequestLimit, Attempts} \subseteq Nat \ {0}
    /\ MaxMissed \in Nat

VARIABLES
    call,       \* each call: where it is, its session, its result
    inbox,      \* each call's event queue
    current,    \* the client's session
    connecting, \* the call that holds reconnect_lock while it connects
    attempt,    \* its attempts so far
    cooldown,   \* the circuit breaker is on
    conn,       \* the client's end of each session
    pending,    \* each session's registered calls
    delivering, \* the response the reader hands over
    missed,     \* heartbeats since the last pong
    up, down,   \* frames to and from the application
    session,    \* the server's end of each session
    active,     \* the server's active_requests
    work,       \* the server's task of each call
    cancelled,  \* calls whose token is cancelled
    told,       \* calls that reported progress
    hung        \* the application does nothing any more
clientVars == <<call, inbox, current, connecting, attempt, cooldown>>
connVars == <<conn, pending, delivering, missed>>
serverVars == <<session, active, work, cancelled, told, hung>>
vars == <<clientVars, connVars, up, down, serverVars>>

Results == {None, "answered", "cancelled", "disconnected", "backpressure", "unavailable"}
Frame(t, k) == [type |-> t, id |-> k]
Frames == [type : {"request", "cancel", "ping", "close", "progress", "response", "pong"},
           id : Calls \cup {None}]

TypeOK ==
    /\ call \in [Calls -> [at : {"idle", "lock", "connecting", "register", "send", "wait", "done"},
                           conn : Conns \cup {None}, result : Results]]
    /\ \A k \in Calls : Len(inbox[k]) <= EventCap
    /\ current \in Conns \cup {None} /\ connecting \in Calls \cup {None}
    /\ attempt \in 0..Attempts /\ cooldown \in BOOLEAN /\ hung \in BOOLEAN
    /\ conn \in [Conns -> {"unused", "open", "closed", "drained"}]
    /\ pending \in [Conns -> SUBSET Calls] /\ active \in [Conns -> SUBSET Calls]
    /\ delivering \in [Conns -> Calls \cup {None}]
    /\ missed \in [Conns -> 0..MaxMissed]
    /\ \A c \in Conns : /\ up[c] \in Seq(Frames) /\ Len(up[c]) <= UpCap
                        /\ down[c] \in Seq(Frames) /\ Len(down[c]) <= DownCap
    /\ session \in [Conns -> {"none", "open", "draining", "closed"}]
    /\ work \in [Calls -> {"none", "running", "replying", "done", "aborted"}]
    /\ cancelled \subseteq Calls /\ told \subseteq Calls

Init ==
    /\ call = [k \in Calls |-> [at |-> "idle", conn |-> None, result |-> None]]
    /\ inbox = [k \in Calls |-> <<>>]
    /\ current = None /\ connecting = None /\ attempt = 0 /\ cooldown = FALSE
    /\ conn = [c \in Conns |-> "unused"]
    /\ pending = [c \in Conns |-> {}]
    /\ delivering = [c \in Conns |-> None]
    /\ missed = [c \in Conns |-> 0]
    /\ up = [c \in Conns |-> <<>>] /\ down = [c \in Conns |-> <<>>]
    /\ session = [c \in Conns |-> "none"]
    /\ active = [c \in Conns |-> {}]
    /\ work = [k \in Calls |-> "none"]
    /\ cancelled = {} /\ told = {} /\ hung = FALSE

IsOpen(c) == c # None /\ conn[c] = "open"
Goto(k, l) == call' = [call EXCEPT ![k].at = l]
Return(k, r) == call' = [call EXCEPT ![k].at = "done", ![k].result = r]
\* clear_connection_if_current
ClearCurrent(c) == current' = IF current = c THEN None ELSE current
RemovePending(k) == pending' = [c \in Conns |-> pending[c] \ {k}]

-------------------------------------------------------------------------------
(***************************************************************************)
(* ensure_connection: one call at a time connects, and the calls that      *)
(* waited for it look again before they connect themselves.                *)
(***************************************************************************)
TakeCurrent(k) ==
    /\ call[k].at = "idle"
    /\ call' = IF IsOpen(current) THEN [call EXCEPT ![k].at = "register", ![k].conn = current]
                                  ELSE [call EXCEPT ![k].at = "lock"]
    /\ UNCHANGED <<inbox, current, connecting, attempt, cooldown, connVars, up, down, serverVars>>

\* Mistaken variant: the session found missing before the lock is not looked
\* for again under it.
LockStale(k) ==
    /\ call[k].at = "lock" /\ connecting = None
    /\ IF cooldown THEN Return(k, "unavailable") /\ UNCHANGED <<connecting, attempt>>
                   ELSE Goto(k, "connecting") /\ connecting' = k /\ attempt' = 0
    /\ UNCHANGED <<inbox, current, cooldown, connVars, up, down, serverVars>>

LockReconnect(k) ==
    /\ call[k].at = "lock" /\ connecting = None
    /\ \/ /\ IsOpen(current)
          /\ call' = [call EXCEPT ![k].at = "register", ![k].conn = current]
          /\ UNCHANGED <<connecting, attempt>>
       \/ /\ ~IsOpen(current) /\ cooldown
          /\ Return(k, "unavailable")
          /\ UNCHANGED <<connecting, attempt>>
       \/ /\ ~IsOpen(current) /\ ~cooldown
          /\ Goto(k, "connecting")
          /\ connecting' = k /\ attempt' = 0
    /\ UNCHANGED <<inbox, current, cooldown, connVars, up, down, serverVars>>

\* connect_bridge: both ends of a new session, its threads and its queues.
Connect(k) ==
    \E c \in Conns :
        /\ connecting = k /\ attempt < Attempts /\ ~hung /\ conn[c] = "unused"
        /\ conn' = [conn EXCEPT ![c] = "open"]
        /\ session' = [session EXCEPT ![c] = "open"]
        /\ current' = c /\ cooldown' = FALSE /\ connecting' = None /\ attempt' = 0
        /\ call' = [call EXCEPT ![k].at = "register", ![k].conn = c]
        /\ UNCHANGED <<inbox, pending, delivering, missed, up, down, active, work,
                       cancelled, told, hung>>

\* The application is away, busy or refuses the hello.
ConnectFails(k) ==
    /\ connecting = k
    /\ IF attempt + 1 < Attempts
       THEN attempt' = attempt + 1 /\ UNCHANGED <<call, connecting, cooldown>>
       ELSE /\ attempt' = 0 /\ connecting' = None /\ cooldown' = TRUE
            /\ Return(k, "unavailable")
    /\ UNCHANGED <<inbox, current, connVars, up, down, serverVars>>

CooldownEnds ==
    /\ cooldown /\ cooldown' = FALSE
    /\ UNCHANGED <<call, inbox, current, connecting, attempt, connVars, up, down, serverVars>>

-------------------------------------------------------------------------------
(***************************************************************************)
(* call: register, send, wait.                                             *)
(***************************************************************************)
RegisterPending(k) ==
    /\ call[k].at = "register"
    /\ LET c == call[k].conn IN
       IF IsOpen(c) THEN pending' = [pending EXCEPT ![c] = @ \cup {k}] /\ Goto(k, "send")
                    ELSE Return(k, "disconnected") /\ UNCHANGED pending
    /\ UNCHANGED <<inbox, current, connecting, attempt, cooldown, conn, delivering, missed,
                   up, down, serverVars>>

\* Mistaken variant: the queue takes every request.
SendUnbounded(k) ==
    /\ call[k].at = "send"
    /\ LET c == call[k].conn IN
       \/ /\ IsOpen(c)
          /\ up' = [up EXCEPT ![c] = Append(@, Frame("request", k))]
          /\ Goto(k, "wait")
          /\ UNCHANGED <<current, pending>>
       \/ /\ ~IsOpen(c)
          /\ Return(k, "disconnected") /\ ClearCurrent(c) /\ RemovePending(k)
          /\ UNCHANGED up
    /\ UNCHANGED <<inbox, connecting, attempt, cooldown, conn, delivering, missed, down, serverVars>>

\* try_send: a full queue refuses, and like a closed session it makes the
\* client forget the session.
SendRequest(k) ==
    /\ call[k].at = "send"
    /\ LET c == call[k].conn IN
       \/ /\ IsOpen(c) /\ Len(up[c]) < UpCap
          /\ up' = [up EXCEPT ![c] = Append(@, Frame("request", k))]
          /\ Goto(k, "wait")
          /\ UNCHANGED <<current, pending>>
       \/ /\ ~IsOpen(c) \/ Len(up[c]) = UpCap
          /\ Return(k, IF IsOpen(c) THEN "backpressure" ELSE "disconnected")
          /\ ClearCurrent(c) /\ RemovePending(k)
          /\ UNCHANGED up
    /\ UNCHANGED <<inbox, connecting, attempt, cooldown, conn, delivering, missed, down, serverVars>>

Waiting(k) == call[k].at = "wait"

\* Mistaken variant: a call that lost its session is sent again on the next.
ReceiveRetrying(k) ==
    /\ Waiting(k) /\ inbox[k] # <<>>
    /\ inbox' = [inbox EXCEPT ![k] = Tail(@)]
    /\ CASE Head(inbox[k]) = "response" -> Return(k, "answered") /\ UNCHANGED current
         [] Head(inbox[k]) = "disconnected" -> Goto(k, "idle") /\ ClearCurrent(call[k].conn)
         [] OTHER -> UNCHANGED <<call, current>>
    /\ UNCHANGED <<connecting, attempt, cooldown, connVars, up, down, serverVars>>

ReceiveEvent(k) ==
    /\ Waiting(k) /\ inbox[k] # <<>>
    /\ inbox' = [inbox EXCEPT ![k] = Tail(@)]
    /\ CASE Head(inbox[k]) = "response" -> Return(k, "answered") /\ UNCHANGED current
         [] Head(inbox[k]) = "disconnected" -> Return(k, "disconnected") /\ ClearCurrent(call[k].conn)
         [] OTHER -> UNCHANGED <<call, current>>
    /\ UNCHANGED <<connecting, attempt, cooldown, connVars, up, down, serverVars>>

\* Nothing to receive: the sender is gone, or a poll sees the session closed.
ReceiveNothing(k) ==
    LET c == call[k].conn IN
    /\ Waiting(k) /\ inbox[k] = <<>>
    /\ ~IsOpen(c) \/ (k \notin pending[c] /\ delivering[c] # k)
    /\ Return(k, "disconnected") /\ ClearCurrent(c) /\ RemovePending(k)
    /\ UNCHANGED <<inbox, connecting, attempt, cooldown, conn, delivering, missed, up, down,
                   serverVars>>

\* The agent cancels, or the call's deadline passes: the cancel frame goes
\* the way of every frame, and is lost if the queue is full.
GiveUp(k) ==
    LET c == call[k].conn IN
    /\ Waiting(k)
    /\ up' = [up EXCEPT ![c] = IF IsOpen(c) /\ Len(@) < UpCap
                               THEN Append(@, Frame("cancel", k)) ELSE @]
    /\ RemovePending(k) /\ Return(k, "cancelled")
    /\ UNCHANGED <<inbox, current, connecting, attempt, cooldown, conn, delivering, missed, down,
                   serverVars>>

-------------------------------------------------------------------------------
(***************************************************************************)
(* The session's threads: reader, heartbeat, and mark_disconnected, which  *)
(* sets closed at once and then empties the pending calls.                 *)
(***************************************************************************)
Close(c) == conn' = [conn EXCEPT ![c] = "closed"]

\* An event that does not fit is lost; its sender goes with the entry.
DrainPending(c) ==
    /\ conn[c] = "closed"
    /\ conn' = [conn EXCEPT ![c] = "drained"]
    /\ inbox' = [k \in Calls |-> IF k \in pending[c] /\ Len(inbox[k]) < EventCap
                                 THEN Append(inbox[k], "disconnected") ELSE inbox[k]]
    /\ pending' = [pending EXCEPT ![c] = {}]
    /\ UNCHANGED <<call, current, connecting, attempt, cooldown, delivering, missed, up, down,
                   serverVars>>

ReadProgress(c, k) ==
    /\ inbox' = IF k \in pending[c] /\ Len(inbox[k]) < EventCap
                THEN [inbox EXCEPT ![k] = Append(@, "progress")] ELSE inbox
    /\ UNCHANGED <<pending, delivering, missed>>

ReadResponse(c, k) ==
    /\ IF k \in pending[c]
       THEN pending' = [pending EXCEPT ![c] = @ \ {k}] /\ delivering' = [delivering EXCEPT ![c] = k]
       ELSE UNCHANGED <<pending, delivering>>
    /\ UNCHANGED <<inbox, missed>>

ReadPong(c) ==
    /\ missed' = [missed EXCEPT ![c] = 0]
    /\ UNCHANGED <<inbox, pending, delivering>>

\* The reader is one thread: a response it cannot hand over holds it up.
ReadFrame(c) ==
    /\ IsOpen(c) /\ delivering[c] = None /\ down[c] # <<>>
    /\ LET f == Head(down[c]) IN
       CASE f.type = "progress" -> ReadProgress(c, f.id)
         [] f.type = "response" -> ReadResponse(c, f.id)
         [] f.type = "pong" -> ReadPong(c)
    /\ down' = [down EXCEPT ![c] = Tail(@)]
    /\ UNCHANGED <<call, current, connecting, attempt, cooldown, conn, up, serverVars>>

Deliver(c) ==
    LET k == delivering[c] IN
    /\ k # None
    /\ \/ call[k].at = "done" /\ UNCHANGED inbox
       \/ Len(inbox[k]) < EventCap /\ inbox' = [inbox EXCEPT ![k] = Append(@, "response")]
    /\ delivering' = [delivering EXCEPT ![c] = None]
    /\ UNCHANGED <<call, current, connecting, attempt, cooldown, conn, pending, missed, up, down,
                   serverVars>>

ReadEof(c) ==
    /\ IsOpen(c) /\ delivering[c] = None /\ session[c] = "closed" /\ down[c] = <<>>
    /\ Close(c)
    /\ UNCHANGED <<clientVars, pending, delivering, missed, up, down, serverVars>>

\* Mistaken variant: a silent application is pinged for ever.
HeartbeatPatient(c) ==
    /\ IsOpen(c) /\ missed[c] < MaxMissed
    /\ missed' = [missed EXCEPT ![c] = @ + 1]
    /\ up' = [up EXCEPT ![c] = IF Len(@) < UpCap THEN Append(@, Frame("ping", None)) ELSE @]
    /\ UNCHANGED <<clientVars, conn, pending, delivering, down, serverVars>>

\* A full queue is no reason to give up the session, a missing pong is.
Heartbeat(c) ==
    /\ IsOpen(c)
    /\ IF missed[c] = MaxMissed
       THEN Close(c) /\ UNCHANGED <<missed, up>>
       ELSE /\ missed' = [missed EXCEPT ![c] = @ + 1]
            /\ up' = [up EXCEPT ![c] = IF Len(@) < UpCap THEN Append(@, Frame("ping", None)) ELSE @]
            /\ UNCHANGED conn
    /\ UNCHANGED <<clientVars, pending, delivering, down, serverVars>>

\* BridgeClient is dropped when no call is left.
CloseClient ==
    /\ \A k \in Calls : call[k].at = "done"
    /\ IsOpen(current)
    /\ up' = [up EXCEPT ![current] = IF Len(@) < UpCap THEN Append(@, Frame("close", None)) ELSE @]
    /\ Close(current) /\ current' = None
    /\ UNCHANGED <<call, inbox, connecting, attempt, cooldown, pending, delivering, missed, down,
                   serverVars>>

-------------------------------------------------------------------------------
(***************************************************************************)
(* handle_runtime_connection: the loop that reads a session's frames.      *)
(***************************************************************************)
Serving(c, t) == session[c] = "open" /\ ~hung /\ up[c] # <<>> /\ Head(up[c]).type = t
NextUp(c) == up' = [up EXCEPT ![c] = Tail(@)]
\* The server's writer takes a frame; once the client is gone it takes any.
Room(c) == Len(down[c]) < DownCap \/ ~IsOpen(c)
Put(c, f) == down' = [down EXCEPT ![c] = IF IsOpen(c) THEN Append(@, f) ELSE @]
Working(k) == work[k] \in {"running", "replying"}

\* Without a permit the answer is "busy", and the loop waits to send it.
ServeRequest(c) ==
    /\ Serving(c, "request")
    /\ LET k == Head(up[c]).id IN
       \/ /\ Cardinality({j \in Calls : Working(j)}) < RequestLimit
          /\ work' = [work EXCEPT ![k] = "running"]
          /\ active' = [active EXCEPT ![c] = @ \cup {k}]
          /\ UNCHANGED down
       \/ /\ Cardinality({j \in Calls : Working(j)}) >= RequestLimit
          /\ Room(c) /\ Put(c, Frame("response", k))
          /\ UNCHANGED <<work, active>>
    /\ NextUp(c)
    /\ UNCHANGED <<clientVars, connVars, session, cancelled, told, hung>>

ServeCancel(c) ==
    /\ Serving(c, "cancel")
    /\ cancelled' = cancelled \cup ({Head(up[c]).id} \cap active[c])
    /\ NextUp(c)
    /\ UNCHANGED <<clientVars, connVars, down, session, active, work, told, hung>>

\* The session's tasks die with it.
Aborted(c) == [k \in Calls |-> IF call[k].conn = c /\ Working(k) THEN "aborted" ELSE work[k]]

\* try_send of the pong: a full queue ends the function, and with it the
\* tasks, without the cancellation that ends an orderly session.
ServePing(c) ==
    /\ Serving(c, "ping")
    /\ IF Room(c)
       THEN Put(c, Frame("pong", None)) /\ UNCHANGED <<session, active, work>>
       ELSE /\ session' = [session EXCEPT ![c] = "closed"]
            /\ work' = Aborted(c) /\ active' = [active EXCEPT ![c] = {}]
            /\ UNCHANGED down
    /\ NextUp(c)
    /\ UNCHANGED <<clientVars, connVars, cancelled, told, hung>>

\* A close frame or the end of the stream; what the client's writer had not
\* sent is lost.
EndSession(c) ==
    /\ session[c] = "open" /\ ~hung
    /\ Serving(c, "close") \/ (conn[c] \in {"closed", "drained"})
    /\ session' = [session EXCEPT ![c] = "draining"]
    /\ cancelled' = cancelled \cup active[c]
    /\ UNCHANGED <<clientVars, connVars, up, down, active, work, told, hung>>

\* The tasks are gone by themselves, or are aborted when the time is up.
CloseSession(c) ==
    /\ session[c] = "draining" /\ ~hung
    /\ session' = [session EXCEPT ![c] = "closed"]
    /\ work' = Aborted(c) /\ active' = [active EXCEPT ![c] = {}]
    /\ UNCHANGED <<clientVars, connVars, up, down, cancelled, told, hung>>

-------------------------------------------------------------------------------
(***************************************************************************)
(* run_bridge_request.                                                     *)
(***************************************************************************)
ReportProgress(k) ==
    LET c == call[k].conn IN
    /\ work[k] = "running" /\ k \notin told /\ ~hung
    /\ told' = told \cup {k}
    /\ IF Len(down[c]) < DownCap THEN Put(c, Frame("progress", k)) ELSE UNCHANGED down
    /\ UNCHANGED <<clientVars, connVars, up, session, active, work, cancelled, hung>>

\* The action answers, its own time is up, or its token is cancelled.
FinishWork(k) ==
    /\ work[k] = "running" /\ ~hung
    /\ work' = [work EXCEPT ![k] = "replying"]
    /\ UNCHANGED <<clientVars, connVars, up, down, session, active, cancelled, told, hung>>

Reply(k) ==
    LET c == call[k].conn IN
    /\ work[k] = "replying" /\ Room(c) /\ ~hung
    /\ Put(c, Frame("response", k))
    /\ work' = [work EXCEPT ![k] = "done"]
    /\ active' = [active EXCEPT ![c] = @ \ {k}]
    /\ UNCHANGED <<clientVars, connVars, up, session, cancelled, told, hung>>

Hang ==
    /\ ~hung /\ hung' = TRUE
    /\ UNCHANGED <<clientVars, connVars, up, down, session, active, work, cancelled, told>>

-------------------------------------------------------------------------------
CallerStep(k) ==
    \/ LockReconnect(k) \/ Connect(k) \/ ConnectFails(k) \/ RegisterPending(k)
    \/ SendRequest(k) \/ ReceiveEvent(k) \/ ReceiveNothing(k)
ReaderStep(c) == ReadFrame(c) \/ Deliver(c) \/ ReadEof(c) \/ DrainPending(c)
SessionStep(c) ==
    ServeRequest(c) \/ ServeCancel(c) \/ ServePing(c) \/ EndSession(c) \/ CloseSession(c)

Next ==
    \/ \E k \in Calls : TakeCurrent(k) \/ CallerStep(k) \/ GiveUp(k)
                          \/ ReportProgress(k) \/ FinishWork(k) \/ Reply(k)
    \/ \E c \in Conns : ReaderStep(c) \/ Heartbeat(c) \/ SessionStep(c)
    \/ CooldownEnds \/ CloseClient \/ Hang

Spec == Init /\ [][Next]_vars

\* Threads and tasks are scheduled, heartbeats tick, and a cancelled action
\* ends.  A task that waits for room in the server's writer queue gets it in
\* its turn, before later frames.  No call is helped by its deadline.
StopSpec ==
    /\ Spec
    /\ \A k \in Calls : WF_vars(CallerStep(k)) /\ SF_vars(Reply(k))
                          /\ WF_vars(FinishWork(k) /\ k \in cancelled)
    /\ \A c \in Conns : WF_vars(ReaderStep(c)) /\ WF_vars(Heartbeat(c)) /\ WF_vars(SessionStep(c))

\* Moreover every action answers within its own time.
FairSpec == StopSpec /\ \A k \in Calls : WF_vars(FinishWork(k))

-------------------------------------------------------------------------------
(***************************************************************************)
(* Properties.                                                             *)
(***************************************************************************)

Live == {c \in Conns : conn[c] = "open"}

\* "The client owns at most one live TCP session": the comment on
\* BridgeClient.
OneLiveSession == Cardinality(Live) <= 1

\* Calls that find no session at the same time open one, not one each; only
\* a call refused by a full queue makes the client open a second session.
RacersShareSession ==
    ~OneLiveSession => \E k \in Calls : call[k].result = "backpressure"

\* "A failed in-flight call is never replayed": the application starts the
\* action of a call at most once, whatever happened to its session.
NeverReplayed ==
    [][\A k \in Calls : (work[k] # "none" /\ work'[k] # work[k]) => work'[k] # "running"]_vars

\* A session that is over leaves no task that works on, holds a permit or
\* answers into nothing.
SessionTakesItsWork ==
    \A k \in Calls : Working(k) => session[call[k].conn] \in {"open", "draining"}

\* Neither end loses count of its sessions and of what they are working on.
SessionsAccounted == RacersShareSession /\ SessionTakesItsWork

\* Every call returns without its deadline: answered, refused, or told that
\* the session is gone, be the queues full, the session dead or the
\* application hung.
CallsReturn == \A k \in Calls : call[k].at # "idle" ~> call[k].at = "done"

===============================================================================
