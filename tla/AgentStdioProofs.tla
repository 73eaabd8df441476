---------------------------- MODULE AgentStdioProofs ----------------------------
(***************************************************************************)
(* Proofs about the process behind `fileterm mcp` and `fileterm cli`.      *)
(***************************************************************************)
EXTENDS AgentStdio, SequenceTheorems, TLAPS

\* The one thing asked of the constants: "none" is no line and no id.
NoneIsNone == None \notin Requests /\ None \notin Ids

Busy == {"check", "call", "judge", "write"}

\* A line that is registered and has no answer yet.
Waits(r) == r \in Requests /\ id[r] \in Ids /\ answer[r] = <<>> /\ active[id[r]] = r

\* Who has a line: the queue, once, or one worker.
QueueWaits == \A k \in 1..Len(queue) : Waits(queue[k])
QueuedOnce == \A j, k \in 1..Len(queue) : queue[j] = queue[k] => j = k
Holds(w) ==
    LET r == worker[w].req
    IN  /\ worker[w].at \in Busy => Waits(r)
        /\ worker[w].at \in {"judge", "write"} => worker[w].out \in Answers
        /\ worker[w].at = "remove" =>
             r \in Requests /\ id[r] \in Ids /\ answer[r] # <<>> /\ active[id[r]] = r
WorkersHold == \A w \in Workers : Holds(w)
HeldOnce ==
    \A w, v \in Workers :
        worker[w].at \in Busy \cup {"remove"} /\ worker[v].at \in Busy \cup {"remove"}
        /\ worker[w].req = worker[v].req => w = v
HeldOrQueued ==
    \A w \in Workers, k \in 1..Len(queue) :
        worker[w].at \in Busy \cup {"remove"} => worker[w].req # queue[k]
Registered == \A r \in Requests : Open(r) => active[id[r]] = r
OneAnswer == \A r \in Requests : Len(answer[r]) <= 1
Unread == \A r \in Requests : id[r] = None => answer[r] = <<>>

IInv ==
    /\ TypeOK
    /\ QueueWaits /\ QueuedOnce /\ WorkersHold /\ HeldOnce /\ HeldOrQueued
    /\ Registered /\ OneAnswer /\ Unread

Constants == NoneIsNone /\ QueueCap \in Nat

-------------------------------------------------------------------------------

\* What Take sees of the queue.
LEMMA TakenQueue ==
    ASSUME TypeOK, queue # <<>>
    PROVE  /\ Len(queue) \in Nat \ {0} /\ Head(queue) = queue[1] /\ Head(queue) \in Requests
           /\ Tail(queue) \in Seq(Requests) /\ Len(Tail(queue)) = Len(queue) - 1
           /\ \A k \in 1..Len(Tail(queue)) : Tail(queue)[k] = queue[k + 1]
<1>1. queue \in Seq(Requests)
  BY DEF TypeOK
<1>2. /\ Head(queue) \in Requests /\ Tail(queue) \in Seq(Requests)
      /\ Len(Tail(queue)) = Len(queue) - 1
      /\ \A k \in 1..Len(Tail(queue)) : Tail(queue)[k] = queue[k + 1]
  BY <1>1, HeadTailProperties
<1>3. Len(queue) \in Nat \ {0}
  BY <1>1, EmptySeq
<1> QED
  BY <1>1, <1>2, <1>3

LEMMA InitInv == Constants => (Init => IInv)
<1> SUFFICES ASSUME Constants, Init PROVE IInv
  OBVIOUS
<1>1. <<>> \in Seq(Answers) /\ <<>> \in Seq(Requests) /\ Len(<<>>) = 0
  OBVIOUS
<1>2. TypeOK
  <2>1. id \in [Requests -> Ids \cup {None}] /\ answer \in [Requests -> Seq(Answers)]
        /\ active \in [Ids -> Requests \cup {None}]
    BY <1>1 DEF Init
  <2>2. worker \in [Workers -> [at : {"idle", "check", "call", "judge", "write", "remove", "gone"},
                                req : Requests \cup {None}, out : Answers \cup {None}]]
    BY DEF Init
  <2>3. flagged \subseteq Requests /\ acked \subseteq flagged /\ eof \in BOOLEAN
    BY DEF Init
  <2>4. queue \in Seq(Requests) /\ Len(queue) <= QueueCap
    BY <1>1 DEF Init, Constants
  <2> QED
    BY <2>1, <2>2, <2>3, <2>4 DEF TypeOK
<1>3. QueueWaits /\ QueuedOnce /\ HeldOrQueued
  BY <1>1 DEF Init, QueueWaits, QueuedOnce, HeldOrQueued
<1>4. WorkersHold /\ HeldOnce
  BY DEF Init, WorkersHold, Holds, HeldOnce, Busy
<1>5. Registered /\ OneAnswer /\ Unread
  BY <1>1 DEF Init, Registered, OneAnswer, Unread, Open
<1> QED
  BY <1>2, <1>3, <1>4, <1>5 DEF IInv

\* A line that is answered as it is read was not known before, so nobody has it.
LEMMA ReadRequestInv ==
    ASSUME Constants, IInv, NEW r \in Requests, NEW i \in Ids, ReadRequest(r, i)
    PROVE  IInv'
<1> USE DEF Constants, NoneIsNone
<1>0. TypeOK
  BY DEF IInv
<1>1. id[r] = None /\ id' = [id EXCEPT ![r] = i] /\ UNCHANGED <<flagged, acked, worker, eof>>
  BY DEF ReadRequest
<1>2. \A s : Waits(s) => s # r
  BY <1>1 DEF Waits
<1>3. id'[r] = i /\ id' \in [Requests -> Ids \cup {None}]
      /\ \A s \in Requests : s # r => id'[s] = id[s]
  BY <1>0, <1>1 DEF TypeOK
<1>4. answer[r] = <<>>
  BY <1>1 DEF IInv, Unread
<1>5. CASE active[i] # None \/ Len(queue) = QueueCap
  <2>1. UNCHANGED <<active, queue>> /\ \E a \in Answers : Write(r, a)
    BY <1>0, <1>5 DEF ReadRequest, TypeOK, Answers
  <2>2. PICK a \in Answers : answer' = [answer EXCEPT ![r] = Append(@, a)]
    BY <2>1 DEF Write
  <2>3. Append(answer[r], a) = <<a>> /\ <<a>> \in Seq(Answers) /\ Len(<<a>>) = 1 /\ <<a>> # <<>>
    BY <1>4
  <2>4. answer' \in [Requests -> Seq(Answers)] /\ answer'[r] = <<a>>
        /\ \A s \in Requests : s # r => answer'[s] = answer[s]
    BY <1>0, <2>2, <2>3 DEF TypeOK
  <2>5. TypeOK'
    BY <1>0, <1>1, <1>3, <2>1, <2>4 DEF TypeOK
  <2>6. \A s : Waits(s) => Waits(s)'
    BY <1>2, <1>3, <2>1, <2>4 DEF Waits
  <2>7. QueueWaits' /\ QueuedOnce' /\ HeldOrQueued' /\ HeldOnce'
    BY <1>1, <2>1, <2>6 DEF IInv, QueueWaits, QueuedOnce, HeldOrQueued, HeldOnce
  <2>8. WorkersHold'
    <3> SUFFICES ASSUME NEW v \in Workers PROVE Holds(v)'
      BY DEF WorkersHold
    <3>1. Holds(v) /\ worker'[v] = worker[v]
      BY <1>1 DEF IInv, WorkersHold
    <3>2. worker[v].at \in Busy \cup {"remove"} => worker[v].req # r
      BY <1>1, <1>4, <3>1 DEF Holds, Waits, Busy
    <3> QED
      BY <1>1, <1>3, <2>1, <2>4, <3>1, <3>2 DEF Holds, Waits, Busy
  <2>9. Registered' /\ OneAnswer' /\ Unread'
    <3>1. ASSUME NEW s \in Requests PROVE Len(answer'[s]) <= 1
      <4>1. Len(answer[s]) <= 1
        BY DEF IInv, OneAnswer
      <4>2. answer'[s] = <<a>> \/ answer'[s] = answer[s]
        BY <2>4
      <4>3. Len(<<a>>) <= 1
        OBVIOUS
      <4> QED
        BY <4>1, <4>2, <4>3
    <3>2. Unread'
      BY <1>0, <1>3, <2>4 DEF IInv, Unread
    <3>3. Registered'
      BY <1>3, <2>1, <2>3, <2>4 DEF IInv, Registered, Open
    <3> QED
      BY <3>1, <3>2, <3>3 DEF OneAnswer
  <2> QED
    BY <2>5, <2>7, <2>8, <2>9 DEF IInv
<1>6. CASE active[i] = None /\ Len(queue) < QueueCap
  <2>1. UNCHANGED answer /\ active' = [active EXCEPT ![i] = r] /\ queue' = Append(queue, r)
    BY <1>0, <1>6 DEF ReadRequest, TypeOK
  <2>2. queue \in Seq(Requests) /\ Len(queue) \in Nat
    BY <1>0 DEF TypeOK
  <2>3. queue' \in Seq(Requests) /\ Len(queue') = Len(queue) + 1 /\ queue'[Len(queue) + 1] = r
        /\ \A k \in 1..Len(queue) : queue'[k] = queue[k]
    BY <2>1, <2>2, AppendProperties
  <2>4. active' \in [Ids -> Requests \cup {None}] /\ active'[i] = r
        /\ \A j \in Ids : j # i => active'[j] = active[j]
    BY <1>0, <2>1 DEF TypeOK
  <2>5. TypeOK'
    BY <1>0, <1>1, <1>3, <1>6, <2>1, <2>2, <2>3, <2>4 DEF TypeOK
  <2>6. \A s : Waits(s) => Waits(s)'
    BY <1>2, <1>3, <1>6, <2>1, <2>4 DEF Waits
  <2>7. Waits(r)'
    BY <1>3, <1>4, <2>1, <2>4 DEF Waits
  <2>8. \A k \in 1..Len(queue') : k = Len(queue) + 1 \/ k \in 1..Len(queue)
    BY <2>2, <2>3
  <2>9. QueueWaits' /\ QueuedOnce'
    BY <1>2, <2>2, <2>3, <2>6, <2>7, <2>8 DEF IInv, QueueWaits, QueuedOnce
  <2>10. \A w \in Workers : worker[w].at \in Busy \cup {"remove"} => worker[w].req # r
    BY <1>1, <1>2 DEF IInv, WorkersHold, Holds, Waits
  <2>11. HeldOrQueued' /\ HeldOnce'
    BY <1>1, <2>3, <2>8, <2>10 DEF IInv, HeldOrQueued, HeldOnce
  <2>12. WorkersHold'
    BY <1>1, <1>3, <1>6, <2>1, <2>4, <2>6 DEF IInv, WorkersHold, Holds, Waits
  <2>13. Registered' /\ OneAnswer' /\ Unread'
    <3>1. \A s \in Requests : s # r /\ Open(s) => id[s] # i
      BY <1>0, <1>6 DEF IInv, Registered, TypeOK
    <3> QED
      BY <1>0, <1>1, <1>3, <2>1, <2>4, <3>1 DEF IInv, Registered, OneAnswer, Unread, Open, TypeOK
  <2> QED
    BY <2>5, <2>9, <2>11, <2>12, <2>13 DEF IInv
<1> QED
  BY <1>0, <1>5, <1>6 DEF TypeOK, ReadRequest

\* Reading a cancellation or the end of stdin flags lines, and no more.
LEMMA ReadCancelInv ==
    ASSUME Constants, IInv, (\E i \in Ids : ReadCancel(i)) \/ ReadEof
    PROVE  IInv'
<1> USE DEF Constants, NoneIsNone
<1>1. UNCHANGED <<id, answer, active, queue, worker>>
  BY DEF ReadCancel, ReadEof
<1>2. TypeOK'
  BY DEF IInv, TypeOK, ReadCancel, ReadEof
<1> QED
  BY <1>1, <1>2 DEF IInv, QueueWaits, QueuedOnce, WorkersHold, Holds, HeldOnce, HeldOrQueued,
                    Registered, OneAnswer, Unread, Open, Waits

LEMMA TakeInv ==
    ASSUME Constants, IInv, NEW w \in Workers, Take(w)
    PROVE  IInv'
<1>0. TypeOK
  BY DEF IInv
<1>1. UNCHANGED <<id, answer, active, flagged, acked, eof>> /\ queue # <<>>
      /\ worker[w].at = "idle" /\ queue' = Tail(queue)
      /\ worker' = [worker EXCEPT ![w] = [at |-> "check", req |-> Head(queue), out |-> None]]
  BY DEF Take
<1>2. /\ Len(queue) \in Nat \ {0} /\ Head(queue) = queue[1] /\ Head(queue) \in Requests
      /\ queue' \in Seq(Requests) /\ Len(queue') = Len(queue) - 1
      /\ \A k \in 1..Len(queue') : queue'[k] = queue[k + 1]
  BY <1>0, <1>1, TakenQueue
<1>3. /\ worker' \in [Workers -> [at : {"idle", "check", "call", "judge", "write", "remove", "gone"},
                                  req : Requests \cup {None}, out : Answers \cup {None}]]
      /\ worker'[w] = [at |-> "check", req |-> queue[1], out |-> None]
      /\ \A v \in Workers : v # w => worker'[v] = worker[v]
  BY <1>0, <1>1, <1>2 DEF TypeOK
<1>4. TypeOK'
  BY <1>0, <1>1, <1>2, <1>3 DEF TypeOK, Constants
<1>5. \A s : Waits(s)' <=> Waits(s)
  BY <1>1 DEF Waits
<1>6. \A k \in 1..Len(queue') : k + 1 \in 1..Len(queue) /\ k + 1 # 1
  BY <1>2
<1>7. 1 \in 1..Len(queue)
  BY <1>2
<1>8. QueueWaits' /\ QueuedOnce'
  BY <1>2, <1>5, <1>6 DEF IInv, QueueWaits, QueuedOnce
<1>9. WorkersHold'
  BY <1>1, <1>3, <1>5, <1>7 DEF IInv, WorkersHold, Holds, QueueWaits, Waits, Busy
<1>10. HeldOnce' /\ HeldOrQueued'
  <2>1. HeldOnce'
    BY <1>2, <1>3, <1>7 DEF IInv, HeldOnce, HeldOrQueued, Busy
  <2>2. HeldOrQueued'
    BY <1>2, <1>3, <1>6, <1>7 DEF IInv, HeldOrQueued, QueuedOnce, Busy
  <2> QED
    BY <2>1, <2>2
<1>11. Registered' /\ OneAnswer' /\ Unread'
  BY <1>1 DEF IInv, Registered, OneAnswer, Unread, Open
<1> QED
  BY <1>4, <1>8, <1>9, <1>10, <1>11 DEF IInv

\* A step of a worker that keeps its line, and touches nothing else.
LEMMA KeepsLine ==
    ASSUME Constants, IInv, NEW w \in Workers, NEW l, NEW o, Step(w, l, o),
           UNCHANGED <<id, answer, active, queue, flagged, acked, eof>>,
           \/ l = "gone" /\ o = None
           \/ l \in {"call", "judge", "write"} /\ worker[w].at \in Busy /\ o \in Answers \cup {None}
              /\ (l \in {"judge", "write"} => o \in Answers)
    PROVE  IInv'
<1>0. TypeOK
  BY DEF IInv
<1>1. /\ worker' \in [Workers -> [at : {"idle", "check", "call", "judge", "write", "remove", "gone"},
                                  req : Requests \cup {None}, out : Answers \cup {None}]]
      /\ worker'[w].at = l /\ worker'[w].out = o /\ worker'[w].req = worker[w].req
      /\ \A v \in Workers : v # w => worker'[v] = worker[v]
  BY <1>0 DEF TypeOK, Step
<1>2. TypeOK'
  BY <1>0, <1>1 DEF TypeOK
<1>3. \A s : Waits(s)' <=> Waits(s)
  BY DEF Waits
<1>4. QueueWaits' /\ QueuedOnce' /\ Registered' /\ OneAnswer' /\ Unread'
  BY DEF IInv, QueueWaits, QueuedOnce, Registered, OneAnswer, Unread, Open, Waits
<1>5. WorkersHold'
  BY <1>1, <1>3 DEF IInv, WorkersHold, Holds, Waits, Busy
<1>6. HeldOnce' /\ HeldOrQueued'
  BY <1>1 DEF IInv, HeldOnce, HeldOrQueued, Busy
<1> QED
  BY <1>2, <1>4, <1>5, <1>6 DEF IInv

LEMMA WriteAnswerInv ==
    ASSUME Constants, IInv, NEW w \in Workers, WriteAnswer(w)
    PROVE  IInv'
<1> DEFINE r == worker[w].req
<1> DEFINE a == worker[w].out
<1>0. TypeOK
  BY DEF IInv
<1>1. UNCHANGED <<id, active, flagged, acked, queue, eof>> /\ worker[w].at = "write"
      /\ answer' = [answer EXCEPT ![r] = Append(@, a)]
      /\ worker' = [worker EXCEPT ![w].at = "remove", ![w].out = a]
  BY DEF WriteAnswer, Write, Step
<1>2. Waits(r) /\ a \in Answers
  BY <1>1 DEF IInv, WorkersHold, Holds, Waits, Busy
<1>3. Append(answer[r], a) = <<a>> /\ <<a>> \in Seq(Answers) /\ Len(<<a>>) = 1 /\ <<a>> # <<>>
  BY <1>2 DEF Waits
<1>4. answer' \in [Requests -> Seq(Answers)] /\ answer'[r] = <<a>>
      /\ \A s \in Requests : s # r => answer'[s] = answer[s]
  BY <1>0, <1>1, <1>2, <1>3 DEF TypeOK, Waits
<1>5. /\ worker' \in [Workers -> [at : {"idle", "check", "call", "judge", "write", "remove", "gone"},
                                  req : Requests \cup {None}, out : Answers \cup {None}]]
      /\ worker'[w].at = "remove" /\ worker'[w].req = r
      /\ \A v \in Workers : v # w => worker'[v] = worker[v]
  BY <1>0, <1>1 DEF TypeOK
<1>6. TypeOK'
  BY <1>0, <1>1, <1>4, <1>5 DEF TypeOK
<1>7. \A s : s # r /\ Waits(s) => Waits(s)'
  BY <1>1, <1>4 DEF Waits
<1>8. \A k \in 1..Len(queue) : queue[k] # r
  BY <1>1 DEF IInv, HeldOrQueued, Busy
<1>9. \A v \in Workers : v # w /\ worker[v].at \in Busy \cup {"remove"} => worker[v].req # r
  BY <1>1 DEF IInv, HeldOnce, Busy
<1>10. QueueWaits' /\ QueuedOnce'
  BY <1>1, <1>7, <1>8 DEF IInv, QueueWaits, QueuedOnce
<1>11. HeldOnce' /\ HeldOrQueued'
  BY <1>1, <1>5, <1>8, <1>9 DEF IInv, HeldOnce, HeldOrQueued, Busy
<1>12. WorkersHold'
  <2> SUFFICES ASSUME NEW v \in Workers PROVE Holds(v)'
    BY DEF WorkersHold
  <2>1. CASE v = w
    BY <1>1, <1>2, <1>3, <1>4, <1>5, <2>1 DEF Holds, Waits, Busy
  <2>2. CASE v # w
    <3>1. worker'[v] = worker[v]
      BY <1>5, <2>2
    <3>2. CASE worker[v].at \in Busy
      BY <1>7, <1>9, <2>2, <3>1, <3>2 DEF IInv, WorkersHold, Holds, Waits, Busy
    <3>3. CASE worker[v].at = "remove"
      BY <1>1, <1>4, <1>9, <2>2, <3>1, <3>3 DEF IInv, WorkersHold, Holds, Waits, Busy
    <3> QED
      BY <3>1, <3>2, <3>3 DEF Holds, Busy
  <2> QED
    BY <2>1, <2>2
<1>13. Registered' /\ OneAnswer' /\ Unread'
  BY <1>0, <1>1, <1>2, <1>3, <1>4 DEF IInv, Registered, OneAnswer, Unread, Open, Waits, TypeOK,
                                     Constants, NoneIsNone
<1> QED
  BY <1>6, <1>10, <1>11, <1>12, <1>13 DEF IInv

\* The registration that goes is the one of the line that was answered.
LEMMA RemoveIdInv ==
    ASSUME Constants, IInv, NEW w \in Workers, RemoveId(w)
    PROVE  IInv'
<1> DEFINE r == worker[w].req
<1>0. TypeOK
  BY DEF IInv
<1>1. UNCHANGED <<id, answer, flagged, acked, queue, eof>> /\ worker[w].at = "remove"
      /\ active' = [active EXCEPT ![id[r]] = None]
      /\ worker' = [worker EXCEPT ![w] = [at |-> "idle", req |-> None, out |-> None]]
  BY DEF RemoveId
<1>2. r \in Requests /\ id[r] \in Ids /\ answer[r] # <<>> /\ active[id[r]] = r
  BY <1>1 DEF IInv, WorkersHold, Holds, Waits
<1>3. active' \in [Ids -> Requests \cup {None}]
      /\ \A i \in Ids : i # id[r] => active'[i] = active[i]
  BY <1>0, <1>1, <1>2 DEF TypeOK
<1>4. /\ worker' \in [Workers -> [at : {"idle", "check", "call", "judge", "write", "remove", "gone"},
                                  req : Requests \cup {None}, out : Answers \cup {None}]]
      /\ worker'[w].at = "idle"
      /\ \A v \in Workers : v # w => worker'[v] = worker[v]
  BY <1>0, <1>1 DEF TypeOK
<1>5. TypeOK'
  BY <1>0, <1>1, <1>3, <1>4 DEF TypeOK
<1>6. \A s : Waits(s) => Waits(s)'
  BY <1>1, <1>2, <1>3 DEF Waits
<1>7. QueueWaits' /\ QueuedOnce'
  BY <1>1, <1>6 DEF IInv, QueueWaits, QueuedOnce
<1>8. HeldOnce' /\ HeldOrQueued'
  BY <1>1, <1>4 DEF IInv, HeldOnce, HeldOrQueued, Busy
<1>9. WorkersHold'
  <2> SUFFICES ASSUME NEW v \in Workers PROVE Holds(v)'
    BY DEF WorkersHold
  <2>1. CASE v = w
    BY <1>4, <2>1 DEF Holds, Busy
  <2>2. CASE v # w
    <3>1. worker'[v] = worker[v]
      BY <1>4, <2>2
    <3>2. CASE worker[v].at \in Busy
      BY <1>6, <3>1, <3>2 DEF IInv, WorkersHold, Holds, Waits, Busy
    <3>3. CASE worker[v].at = "remove"
      BY <1>1, <1>2, <1>3, <2>2, <3>1, <3>3 DEF IInv, WorkersHold, HeldOnce, Holds, Waits, Busy
    <3> QED
      BY <3>1, <3>2, <3>3 DEF Holds, Busy
  <2> QED
    BY <2>1, <2>2
<1>10. Registered' /\ OneAnswer' /\ Unread'
  BY <1>0, <1>1, <1>2, <1>3 DEF IInv, Registered, OneAnswer, Unread, Open, TypeOK
<1> QED
  BY <1>5, <1>7, <1>8, <1>9, <1>10 DEF IInv

LEMMA NextInv == Constants => (IInv /\ [Next]_vars => IInv')
<1> SUFFICES ASSUME Constants, IInv, [Next]_vars PROVE IInv'
  OBVIOUS
<1>1. CASE UNCHANGED vars
  BY <1>1 DEF IInv, vars, TypeOK, QueueWaits, QueuedOnce, WorkersHold, Holds, HeldOnce,
              HeldOrQueued, Registered, OneAnswer, Unread, Open, Waits
<1>2. CASE \E r \in Requests, i \in Ids : ReadRequest(r, i)
  BY <1>2, ReadRequestInv
<1>3. CASE (\E i \in Ids : ReadCancel(i)) \/ ReadEof
  BY <1>3, ReadCancelInv
<1>4. ASSUME NEW w \in Workers, WorkerStep(w) \/ \E o \in {"ok", "error"} : CallReturns(w, o)
      PROVE  IInv'
  <2>1. CASE Take(w)
    BY <2>1, TakeInv
  <2>2. CASE Leave(w)
    BY <2>2, KeepsLine DEF Leave
  <2>3. CASE CheckFlag(w)
    BY <2>3, KeepsLine DEF CheckFlag, Busy, Answers
  <2>4. CASE Judge(w)
    <3>1. worker[w].out \in Answers
      BY <2>4 DEF Judge, IInv, WorkersHold, Holds
    <3> QED
      BY <2>4, <3>1, KeepsLine DEF Judge, Busy, Answers
  <2>5. CASE WriteAnswer(w)
    BY <2>5, WriteAnswerInv
  <2>6. CASE RemoveId(w)
    BY <2>6, RemoveIdInv
  <2>7. CASE \E o \in {"cancelled", "ok", "error"} : CallReturns(w, o)
    BY <2>7, KeepsLine DEF CallReturns, Busy, Answers
  <2> QED
    BY <1>4, <2>1, <2>2, <2>3, <2>4, <2>5, <2>6, <2>7 DEF WorkerStep
<1> QED
  BY <1>1, <1>2, <1>3, <1>4 DEF Next

LEMMA Sufficient == Constants /\ IInv => AnswersUnambiguous
  BY DEF IInv, Registered, OneAnswer, AnswersUnambiguous, Open, TypeOK, Constants, NoneIsNone

\* Of the lines that wait for an answer no two have the same id, and no line is
\* answered twice, however many lines, workers and ids there are.
THEOREM Unambiguous == Constants => (Spec => []AnswersUnambiguous)
<1> SUFFICES ASSUME Constants PROVE Spec => []AnswersUnambiguous
  OBVIOUS
<1>1. Init => IInv
  BY InitInv
<1>2. IInv /\ [Next]_vars => IInv'
  BY NextInv
<1>3. IInv => AnswersUnambiguous
  BY Sufficient
<1> QED
  BY <1>1, <1>2, <1>3, PTL DEF Spec
===============================================================================
