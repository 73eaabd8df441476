------------------------------- MODULE AgentStdio -------------------------------
(***************************************************************************)
(* The persistent process behind `fileterm mcp` and `fileterm cli --jsonl` *)
(* (services/mcp/cli_runtime.rs, types.rs): one thread reads lines from    *)
(* stdin, a bounded queue feeds the workers, and every worker calls the    *)
(* bridge and writes the answer.  The registry of active ids holds one     *)
(* cancellation flag each, shared with the call of the bridge.             *)
(*                                                                         *)
(* A request is a line; the client may use an id again for a later line.   *)
(* What the bridge answers is "ok" or "error", or "cancelled" once the     *)
(* flag is set; malformed lines are left out.                              *)
(***************************************************************************)
EXTENDS Naturals, Sequences, FiniteSets

CONSTANTS
    Requests,   \* request lines
    Ids,        \* ids the client uses
    Workers,
    QueueCap,   \* MCP_MAX_QUEUED_REQUESTS
    Jsonl,      \* the JSONL process, else the MCP process
    None

VARIABLES
    id,         \* the id of each line read
    answer,     \* what was written for it, in order
    active,     \* the registry: the request that holds each id
    flagged,    \* requests whose cancellation flag is set
    acked,      \* requests whose cancellation was answered "cancelled: true"
    queue,
    worker,     \* each worker: where it is, its request, the answer it built
    eof         \* stdin is closed
vars == <<id, answer, active, flagged, acked, queue, worker, eof>>

Answers == {"ok", "error", "cancelled", "busy", "duplicate"}

TypeOK ==
    /\ id \in [Requests -> Ids \cup {None}]
    /\ answer \in [Requests -> Seq(Answers)]
    /\ active \in [Ids -> Requests \cup {None}]
    /\ flagged \subseteq Requests /\ acked \subseteq flagged
    /\ queue \in Seq(Requests) /\ Len(queue) <= QueueCap
    /\ worker \in [Workers -> [at : {"idle", "check", "call", "judge", "write", "remove", "gone"},
                               req : Requests \cup {None}, out : Answers \cup {None}]]
    /\ eof \in BOOLEAN

Init ==
    /\ id = [r \in Requests |-> None]
    /\ answer = [r \in Requests |-> <<>>]
    /\ active = [i \in Ids |-> None]
    /\ flagged = {} /\ acked = {}
    /\ queue = <<>>
    /\ worker = [w \in Workers |-> [at |-> "idle", req |-> None, out |-> None]]
    /\ eof = FALSE

Write(r, a) == answer' = [answer EXCEPT ![r] = Append(@, a)]

-------------------------------------------------------------------------------
(***************************************************************************)
(* The thread that reads stdin.                                            *)
(***************************************************************************)

\* Mistaken variant: a registration replaces the one of the same id.
ReadReplacing(r, i) ==
    /\ ~eof /\ id[r] = None
    /\ id' = [id EXCEPT ![r] = i]
    /\ \/ /\ Len(queue) < QueueCap
          /\ active' = [active EXCEPT ![i] = r] /\ queue' = Append(queue, r)
          /\ UNCHANGED answer
       \/ /\ Len(queue) = QueueCap
          /\ Write(r, "busy") /\ UNCHANGED <<active, queue>>
    /\ UNCHANGED <<flagged, acked, worker, eof>>

\* register, then try_send; a full queue takes the registration back.
ReadRequest(r, i) ==
    /\ ~eof /\ id[r] = None
    /\ id' = [id EXCEPT ![r] = i]
    /\ \/ /\ active[i] # None
          /\ Write(r, "duplicate") /\ UNCHANGED <<active, queue>>
       \/ /\ active[i] = None /\ Len(queue) < QueueCap
          /\ active' = [active EXCEPT ![i] = r] /\ queue' = Append(queue, r)
          /\ UNCHANGED answer
       \/ /\ active[i] = None /\ Len(queue) = QueueCap
          /\ Write(r, "busy") /\ UNCHANGED <<active, queue>>
    /\ UNCHANGED <<flagged, acked, worker, eof>>

\* cancel_request, or the notification of MCP, which gets no answer.
ReadCancel(i) ==
    /\ ~eof /\ active[i] # None /\ active[i] \notin flagged
    /\ flagged' = flagged \cup {active[i]}
    /\ acked' = IF Jsonl THEN acked \cup {active[i]} ELSE acked
    /\ UNCHANGED <<id, answer, active, queue, worker, eof>>

\* Mistaken variant: the process waits for the calls it has made.
ReadEofWaiting ==
    /\ ~eof /\ eof' = TRUE
    /\ UNCHANGED <<id, answer, active, flagged, acked, queue, worker>>

\* cancel_all before the workers are joined.
ReadEof ==
    /\ ~eof /\ eof' = TRUE
    /\ flagged' = flagged \cup ({active[i] : i \in Ids} \ {None})
    /\ UNCHANGED <<id, answer, active, acked, queue, worker>>

-------------------------------------------------------------------------------
(***************************************************************************)
(* process_cli_jsonl_request and process_mcp_stdio_request.                *)
(***************************************************************************)
Step(w, l, o) == worker' = [worker EXCEPT ![w].at = l, ![w].out = o]

Take(w) ==
    /\ worker[w].at = "idle" /\ queue # <<>>
    /\ worker' = [worker EXCEPT ![w] = [at |-> "check", req |-> Head(queue), out |-> None]]
    /\ queue' = Tail(queue)
    /\ UNCHANGED <<id, answer, active, flagged, acked, eof>>

\* The sender is dropped, and the queue was served to its end.
Leave(w) ==
    /\ worker[w].at = "idle" /\ eof /\ queue = <<>>
    /\ Step(w, "gone", None)
    /\ UNCHANGED <<id, answer, active, flagged, acked, queue, eof>>

CheckFlag(w) ==
    /\ worker[w].at = "check"
    /\ IF worker[w].req \in flagged THEN Step(w, "write", "cancelled") ELSE Step(w, "call", None)
    /\ UNCHANGED <<id, answer, active, flagged, acked, queue, eof>>

\* BridgeClient::call: answered by the application, or left when it sees
\* the flag.
CallReturns(w, o) ==
    /\ worker[w].at = "call"
    /\ o = "cancelled" => worker[w].req \in flagged
    /\ Step(w, IF Jsonl THEN "judge" ELSE "write", o)
    /\ UNCHANGED <<id, answer, active, flagged, acked, queue, eof>>

\* The JSONL process looks at the flag again before it builds the answer.
Judge(w) ==
    /\ worker[w].at = "judge"
    /\ Step(w, "write", IF worker[w].req \in flagged THEN "cancelled" ELSE worker[w].out)
    /\ UNCHANGED <<id, answer, active, flagged, acked, queue, eof>>

WriteAnswer(w) ==
    /\ worker[w].at = "write"
    /\ Write(worker[w].req, worker[w].out)
    /\ Step(w, "remove", worker[w].out)
    /\ UNCHANGED <<id, active, flagged, acked, queue, eof>>

RemoveId(w) ==
    /\ worker[w].at = "remove"
    /\ active' = [active EXCEPT ![id[worker[w].req]] = None]
    /\ worker' = [worker EXCEPT ![w] = [at |-> "idle", req |-> None, out |-> None]]
    /\ UNCHANGED <<id, answer, flagged, acked, queue, eof>>

WorkerStep(w) ==
    \/ Take(w) \/ Leave(w) \/ CheckFlag(w) \/ Judge(w) \/ WriteAnswer(w) \/ RemoveId(w)
    \/ CallReturns(w, "cancelled")

Next ==
    \/ \E r \in Requests, i \in Ids : ReadRequest(r, i)
    \/ \E i \in Ids : ReadCancel(i)
    \/ ReadEof
    \/ \E w \in Workers : WorkerStep(w) \/ \E o \in {"ok", "error"} : CallReturns(w, o)

Spec == Init /\ [][Next]_vars

\* Workers run, and a flagged call polls its flag; the application need not
\* answer.
FairSpec == Spec /\ \A w \in Workers : WF_vars(WorkerStep(w))

-------------------------------------------------------------------------------
(***************************************************************************)
(* Properties.                                                             *)
(***************************************************************************)

Open(r) == id[r] # None /\ answer[r] = <<>>

\* A client tells answers apart by their id alone: of the lines that wait
\* for an answer no two have the same id, and none gets a second answer.
AnswersUnambiguous ==
    /\ \A r, s \in Requests : (r # s /\ Open(r) /\ Open(s)) => id[r] # id[s]
    /\ \A r \in Requests : Len(answer[r]) <= 1

\* When stdin closes every line still gets its answer and the process ends,
\* though the application never answers; and a cancelled line is answered.
EofEnds ==
    /\ eof ~> \A w \in Workers : worker[w].at = "gone"
    /\ \A r \in Requests : (r \in flagged) ~> answer[r] # <<>>

===============================================================================
