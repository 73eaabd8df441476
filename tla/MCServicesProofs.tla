---------------------------- MODULE MCServicesProofs ----------------------------
(***************************************************************************)
(* Proofs about the services: what an outside client is answered, what a   *)
(* window shows of an update, what the update of a portable build leaves   *)
(* the user, that no background command runs unseen, that what the user    *)
(* approves happens once and as it is told, that no connection is repeated *)
(* for ever, and that the bridge keeps count of its sessions and of what   *)
(* they work on.  AgentStdioProofs proves the first of them and            *)
(* SessionTabsProofs the last but one; the others are proved here, of the  *)
(* instances the composition drives.                                       *)
(***************************************************************************)
EXTENDS MCServices, TLAPS, FiniteSetTheorems

\* "none" is nothing else, nor is the program that somebody else put there.
Distinct ==
    /\ None \notin Requests \cup Ids \cup Windows \cup Nat /\ None # Foreign
    /\ Foreign \notin Nat /\ Attempts \in Nat

-------------------------------------------------------------------------------
(***************************************************************************)
(* The lines of an outside client.                                         *)
(***************************************************************************)
StdioProofs == INSTANCE AgentStdioProofs WITH QueueCap <- 1, active <- open

LEMMA StdioSame ==
    /\ Stdio!Init => StdioProofs!Init
    /\ Stdio!Next => StdioProofs!Next
    /\ StdioProofs!AnswersUnambiguous => Stdio!AnswersUnambiguous
<1>1. Stdio!Init => StdioProofs!Init
  BY DEF Stdio!Init, StdioProofs!Init
<1>2. Stdio!Next => StdioProofs!Next
  BY DEF Stdio!Answers, StdioProofs!Answers, Stdio!Write, StdioProofs!Write, Stdio!ReadRequest,
     StdioProofs!ReadRequest, Stdio!ReadCancel, StdioProofs!ReadCancel, Stdio!ReadEof,
     StdioProofs!ReadEof, Stdio!Step, StdioProofs!Step, Stdio!Take, StdioProofs!Take,
     Stdio!Leave, StdioProofs!Leave, Stdio!CheckFlag, StdioProofs!CheckFlag, Stdio!CallReturns,
     StdioProofs!CallReturns, Stdio!Judge, StdioProofs!Judge, Stdio!WriteAnswer,
     StdioProofs!WriteAnswer, Stdio!RemoveId, StdioProofs!RemoveId, Stdio!WorkerStep,
     StdioProofs!WorkerStep, Stdio!Next, StdioProofs!Next
<1>3. StdioProofs!AnswersUnambiguous => Stdio!AnswersUnambiguous
  BY DEF Stdio!AnswersUnambiguous, StdioProofs!AnswersUnambiguous, Stdio!Open, StdioProofs!Open
<1> QED
  BY <1>1, <1>2, <1>3

-------------------------------------------------------------------------------
(***************************************************************************)
(* The update service.                                                     *)
(***************************************************************************)
Operates == {"selects", "rechecks", "loads", "loaded", "edits", "installs"}
Knows == {"asked", "rechecks", "loads", "loaded"}
CallTypes ==
    [at : Operates \cup {"idle", "took", "waits", "drops", "asks", "asked", "done", "download",
                         "install"},
     channel : Update!Channels \cup {None}, tag : Update!Tags \cup {None}]

\* What a call knows is of one release, and only the call that holds the operation has loaded
\* a package: it is still the one that call names.
Call(c) ==
    /\ calls[c].at \in Operates => operating = c
    /\ calls[c].at \in Knows \cup {"selects"} => calls[c].channel \in Update!Channels
    /\ calls[c].at \in Knows => calls[c].tag \in Update!Tags
    /\ calls[c].at = "asked" => calls[c].tag = Update!select_release(calls[c].channel)
    /\ calls[c].at = "loaded" =>
         package \in {None, [channel |-> calls[c].channel, tag |-> calls[c].tag]}

UpdateInv ==
    /\ Update!TypeOK /\ Update!StatusIsTrue
    /\ calls \in [Windows -> CallTypes]
    /\ \A c \in Windows : Call(c)

LEMMA UpdateInit == Update!Init => UpdateInv
<1> SUFFICES ASSUME Update!Init PROVE UpdateInv
  OBVIOUS
<1> USE DEF Update!Init, Update!Status, Update!Idle
<1>1. calls \in [Windows -> CallTypes] /\ \A c \in Windows : calls[c].at = "idle"
  BY DEF CallTypes
<1>2. Update!TypeOK
  BY DEF Update!TypeOK, Update!States
<1>3. Update!StatusIsTrue
  BY DEF Update!StatusIsTrue, Update!CheckKeepsToChannel, Update!PackageIsTheOneShown
<1> QED
  BY <1>1, <1>2, <1>3 DEF UpdateInv, Call, Operates, Knows

\* What a step of one call may do to the call, to the mutex and to the package.
Moves(c, r) ==
    /\ r \in CallTypes /\ calls' = [calls EXCEPT ![c] = r]
    /\ UNCHANGED channel /\ running' \in BOOLEAN /\ checking' \in {checking, c, None}
    /\ \/ UNCHANGED operating
       \/ operating = None /\ operating' = c
       \/ operating = c /\ operating' = None /\ r.at \notin Operates
    /\ r.at \in Operates => operating' = c
    /\ r.at \in Knows \cup {"selects"} => r.channel \in Update!Channels
    /\ r.at \in Knows => r.tag \in Update!Tags
    /\ r.at = "asked" => r.tag = Update!select_release(r.channel)
    /\ \/ package' \in {package, None} /\ r.at # "loaded"
       \/ operating = c /\ r.at = "loaded" /\ package' = [channel |-> r.channel, tag |-> r.tag]

\* What it may tell: no release of another channel, and a package only if it has that one.
Shows(c) ==
    \/ UNCHANGED status /\ calls[c].at # "loaded"
    \/ /\ status' \in [state : Update!States, channel : Update!Channels \cup {None},
                       tag : Update!Tags \cup {None}]
       /\ status'.state = "available" => status'.tag = Update!select_release(status'.channel)
       /\ \/ status'.state # "downloaded" /\ calls[c].at # "loaded"
          \/ /\ operating = c /\ UNCHANGED package
             /\ package \in {None, [channel |-> status'.channel, tag |-> status'.tag]}

LEMMA CallMoves ==
    ASSUME Distinct, UpdateInv, NEW c \in Windows, NEW r, Moves(c, r), Shows(c)
    PROVE  UpdateInv'
<1>1. /\ calls' \in [Windows -> CallTypes] /\ calls'[c] = r
      /\ \A d \in Windows : d # c => calls'[d] = calls[d]
  BY DEF UpdateInv, Moves
<1>2. \A d \in Windows : d # c /\ calls[d].at \in Operates => operating = d /\ operating # None
  BY DEF UpdateInv, Call, Distinct
<1>3. ASSUME NEW d \in Windows PROVE Call(d)'
  <2>1. CASE d = c
    BY <1>1, <2>1 DEF Call, Moves
  <2>2. CASE d # c
    <3>1. Call(d) /\ calls'[d] = calls[d]
      BY <1>1, <2>2 DEF UpdateInv
    <3>2. calls[d].at \in Operates => operating' = d
      BY <1>2, <2>2, <3>1 DEF Call, Moves
    <3>3. calls[d].at = "loaded" => operating = d
      BY <3>1 DEF Call, Operates
    <3>4. calls[d].at = "loaded" =>
            package' \in {None, [channel |-> calls[d].channel, tag |-> calls[d].tag]}
      BY <2>2, <3>1, <3>3 DEF Call, Moves, Distinct
    <3> QED
      BY <3>1, <3>2, <3>4 DEF Call
  <2> QED
    BY <2>1, <2>2
<1>4. package' = None \/ package' \in [channel : Update!Channels, tag : Update!Tags]
  BY DEF UpdateInv, Update!TypeOK, Knows, Moves
<1>5. Update!TypeOK'
  BY <1>1, <1>4 DEF UpdateInv, Update!TypeOK, Distinct, Moves, Shows
<1>6. Update!CheckKeepsToChannel'
  BY DEF UpdateInv, Update!StatusIsTrue, Update!CheckKeepsToChannel, Shows
<1>7. Update!PackageIsTheOneShown'
  <2> SUFFICES ASSUME status'.state = "downloaded", package' # None,
                      \A d \in Windows : calls'[d].at # "loaded"
               PROVE  package' = [channel |-> status'.channel, tag |-> status'.tag]
    BY DEF Update!PackageIsTheOneShown
  <2>1. UNCHANGED package /\ r.at # "loaded"
    BY <1>1 DEF Moves
  <2>2. CASE UNCHANGED status /\ calls[c].at # "loaded"
    <3>1. \A d \in Windows : calls[d].at # "loaded"
      BY <1>1, <2>2
    <3> QED
      BY <2>1, <2>2, <3>1 DEF UpdateInv, Update!StatusIsTrue, Update!PackageIsTheOneShown
  <2> QED
    BY <2>1, <2>2 DEF Shows
<1> QED
  BY <1>1, <1>3, <1>5, <1>6, <1>7 DEF UpdateInv, Update!StatusIsTrue

\* The record of a call that goes on, with what it knows.
LEMMA Going ==
    ASSUME UpdateInv, NEW c \in Windows, NEW a, Update!Goto(c, a),
           [at |-> a, channel |-> calls[c].channel, tag |-> calls[c].tag] \in CallTypes
    PROVE  /\ calls' = [calls EXCEPT ![c] =
                 [at |-> a, channel |-> calls[c].channel, tag |-> calls[c].tag]]
<1>1. calls[c] \in CallTypes
  BY DEF UpdateInv
<1>2. [calls[c] EXCEPT !.at = a] = [at |-> a, channel |-> calls[c].channel, tag |-> calls[c].tag]
  BY <1>1 DEF CallTypes
<1> QED
  BY <1>2 DEF Update!Goto

LEMMA UpdateNext ==
    ASSUME Distinct, UpdateInv, Update!Next \/ UNCHANGED updateVars
    PROVE  UpdateInv'
<1>1. CASE UNCHANGED updateVars
  BY <1>1 DEF UpdateInv, updateVars, Update!TypeOK, Update!StatusIsTrue,
              Update!CheckKeepsToChannel, Update!PackageIsTheOneShown, Call
<1>2. CASE Update!ChangeChannel
  BY <1>2 DEF UpdateInv, Update!ChangeChannel, Update!TypeOK, Update!StatusIsTrue,
              Update!CheckKeepsToChannel, Update!PackageIsTheOneShown, Call, Update!locks
<1>3. ASSUME NEW c \in Windows,
             Update!Check(c) \/ Update!Queue(c) \/ Update!Progress(c) \/ Update!CallStep(c)
      PROVE  UpdateInv'
  <2> DEFINE Places == Operates \cup {"idle", "took", "waits", "drops", "asks", "asked", "done",
                                      "download", "install"}
  <2> DEFINE At(a) == [at |-> a, channel |-> calls[c].channel, tag |-> calls[c].tag]
  <2> USE DEF Update!locks
  <2>1. /\ calls[c] \in CallTypes /\ Call(c) /\ running \in BOOLEAN /\ channel \in Update!Channels
        /\ status.tag \in Update!Tags \cup {None}
    BY DEF UpdateInv, Update!TypeOK
  <2>2. \A a \in Places : At(a) \in CallTypes
    BY <2>1 DEF CallTypes
  <2>3. \A a \in Places : Update!Goto(c, a) => calls' = [calls EXCEPT ![c] = At(a)]
    BY <2>2, Going
  <2>4. \A a : At(a).at = a /\ At(a).channel = calls[c].channel /\ At(a).tag = calls[c].tag
    OBVIOUS
  <2> HIDE DEF At
  <2>5. \A ch \in Update!Channels : Update!select_release(ch) \in Update!Tags
    BY DEF Update!Channels, Update!select_release, Update!Tags
  <2>23. ASSUME Update!Fails(c), UNCHANGED <<channel, package, checking, running>>,
                calls[c].at \in {"selects", "rechecks", "loads"}
         PROVE  Moves(c, At("done")) /\ Shows(c)
    <3>1. operating = c /\ operating' = None /\ calls' = [calls EXCEPT ![c] = At("done")]
      BY <2>1, <2>3, <2>23 DEF Update!Fails, Update!Releases, Call, Operates, Places
    <3>2. /\ status'.state = "error"
          /\ status' \in [state : Update!States, channel : Update!Channels \cup {None},
                          tag : Update!Tags \cup {None}]
      <4>1. calls[c].channel \in Update!Channels \cup {None} /\ calls[c].tag \in Update!Tags \cup {None}
        BY <2>1 DEF CallTypes
      <4>2. PICK t \in Update!Tags \cup {None} :
                 status' = [state |-> "error", channel |-> calls[c].channel, tag |-> t]
        BY <4>1, <2>23 DEF Update!Fails, Update!Status
      <4> QED
        BY <4>1, <4>2 DEF Update!States
    <3>3. Moves(c, At("done"))
      BY <2>1, <2>2, <2>4, <2>23, <3>1 DEF Moves, Places, Operates, Knows
    <3> QED
      BY <2>23, <3>2, <3>3 DEF Shows
  <2>6. CASE Update!Shared(c)
    <3>1. Moves(c, At("done")) /\ Shows(c)
      BY <2>1, <2>2, <2>3, <2>4, <2>5, <2>6 DEF Update!Shared, Moves, Shows, Places, Operates,
         Knows, Call, Distinct
    <3> QED
      BY <3>1, CallMoves
  <2>7. CASE Update!Drops(c)
    <3>1. Moves(c, At("drops")) /\ Shows(c)
      BY <2>1, <2>2, <2>3, <2>4, <2>5, <2>7 DEF Update!Drops, Moves, Shows, Places, Operates,
         Knows, Call, Distinct
    <3> QED
      BY <3>1, CallMoves
  <2>8. CASE Update!Announces(c)
    <3>1. Moves(c, At("asks")) /\ Shows(c)
      BY <2>1, <2>2, <2>3, <2>4, <2>5, <2>8 DEF Update!Announces, Update!Status, Update!States,
         Moves, Shows, Places, Operates, Knows, Call, Distinct
    <3> QED
      BY <3>1, CallMoves
  <2>9. CASE Update!Answers(c)
    <3>1. Moves(c, At("done")) /\ Shows(c)
      BY <2>1, <2>2, <2>3, <2>4, <2>5, <2>9 DEF Update!Answers, Update!Status, Update!States,
         Moves, Shows, Places, Operates, Knows, Call, Distinct
    <3> QED
      BY <3>1, CallMoves
  <2>10. CASE Update!Check(c)
    <3>1. (Moves(c, At("took")) /\ Shows(c)) \/ (Moves(c, At("waits")) /\ Shows(c))
      BY <2>1, <2>2, <2>3, <2>4, <2>5, <2>10 DEF Update!Check, Moves, Shows, Places, Operates,
         Knows, Call, Distinct
    <3> QED
      BY <3>1, CallMoves
  <2>11. CASE Update!Queue(c)
    <3>1. (Moves(c, At("download")) /\ Shows(c)) \/ (Moves(c, At("install")) /\ Shows(c))
      BY <2>1, <2>2, <2>3, <2>4, <2>5, <2>11 DEF Update!Queue, Moves, Shows, Places, Operates,
         Knows, Call, Distinct
    <3> QED
      BY <3>1, CallMoves
  <2>12. CASE Update!Progress(c)
    <3>1. calls[c].at = "loads" /\ calls' = calls
      BY <2>12 DEF Update!Progress
    <3>2. At("loads") = calls[c]
      BY <2>1, <3>1 DEF At, CallTypes
    <3>3. calls' = [calls EXCEPT ![c] = At("loads")]
      BY <3>1, <3>2 DEF UpdateInv
    <3>4. Moves(c, At("loads")) /\ Shows(c)
      BY <2>1, <2>2, <2>4, <2>12, <3>1, <3>3
         DEF Update!Progress, Update!Status, Update!States, Moves, Shows, Places, Operates, Knows,
             Call, Distinct
    <3> QED
      BY <3>4, CallMoves
  <2>13. CASE Update!Rechecks(c)
    <3>1. (Moves(c, At("loads")) /\ Shows(c)) \/ (Moves(c, At("done")) /\ Shows(c))
      BY <2>1, <2>2, <2>3, <2>4, <2>5, <2>13 DEF Update!Rechecks, Update!Fails, Update!Releases,
         Update!Status, Update!States, Moves, Shows, Places, Operates, Knows, Call, Distinct
    <3> QED
      BY <3>1, CallMoves
  <2>14. CASE Update!Tells(c)
    <3>1. Moves(c, At("done")) /\ Shows(c)
      BY <2>1, <2>2, <2>3, <2>4, <2>5, <2>14 DEF Update!Tells, Update!Releases, Update!Status,
         Update!States, Moves, Shows, Places, Operates, Knows, Call, Distinct
    <3> QED
      BY <3>1, CallMoves
  <2>15. CASE Update!Install(c)
    <3>1. Moves(c, At("edits")) /\ Shows(c)
      BY <2>1, <2>2, <2>3, <2>4, <2>5, <2>15 DEF Update!Install, Update!Acquire, Moves, Shows,
         Places, Operates, Knows, Call, Distinct
    <3> QED
      BY <3>1, CallMoves
  <2>16. CASE Update!Refused(c)
    <3>1. Moves(c, At("done")) /\ Shows(c)
      BY <2>1, <2>2, <2>3, <2>4, <2>5, <2>16 DEF Update!Refused, Update!Releases, Moves, Shows,
         Places, Operates, Knows, Call, Distinct
    <3> QED
      BY <3>1, CallMoves
  <2>17. CASE Update!Takes(c)
    <3>1. (Moves(c, At("done")) /\ Shows(c)) \/ (Moves(c, At("installs")) /\ Shows(c))
      BY <2>1, <2>2, <2>3, <2>4, <2>5, <2>17 DEF Update!Takes, Update!Releases, Update!Status,
         Update!States, Moves, Shows, Places, Operates, Knows, Call, Distinct
    <3> QED
      BY <3>1, CallMoves
  <2>18. CASE Update!Installs(c)
    <3>1. calls[c].at = "installs" /\ UNCHANGED <<channel, package, checking>>
          /\ operating' = None /\ calls' = [calls EXCEPT ![c] = At("done")]
      BY <2>3, <2>18 DEF Update!Installs, Update!Releases, Places
    <3>2. running' \in BOOLEAN
      BY <2>1, <2>18 DEF Update!Installs
    <3>3. status' = status \/ status' = [state |-> "error", channel |-> None, tag |-> None]
      BY <2>18 DEF Update!Installs, Update!Status
    <3>4. Moves(c, At("done"))
      BY <2>1, <2>2, <2>4, <3>1, <3>2 DEF Moves, Places, Operates, Knows, Call
    <3>5. Shows(c)
      BY <3>1, <3>3 DEF Shows, Update!States
    <3> QED
      BY <3>4, <3>5, CallMoves
  <2>19. CASE Update!Asks(c)
    <3> DEFINE r == [at |-> "asked", channel |-> channel, tag |-> Update!select_release(channel)]
    <3>1. Moves(c, r) /\ Shows(c)
      BY <2>1, <2>5, <2>19 DEF Update!Asks, Update!Chose, Moves, Shows, CallTypes, Operates, Knows
    <3> QED
      BY <3>1, CallMoves
  <2>20. CASE Update!Download(c)
    <3> DEFINE r == [at |-> IF Update!StatusTag = None THEN "selects" ELSE "rechecks",
                     channel |-> channel, tag |-> Update!StatusTag]
    <3>1. Update!StatusTag \in Update!Tags \cup {None}
      BY <2>1 DEF Update!StatusTag
    <3>2. Moves(c, r) /\ Shows(c)
      BY <2>1, <2>20, <3>1 DEF Update!Download, Update!Acquire, Update!Chose, Moves, Shows,
         CallTypes, Operates, Knows
    <3> QED
      BY <3>2, CallMoves
  <2>21. CASE Update!Selects(c)
    <3>1. CASE Update!Fails(c)
      <4>1. Moves(c, At("done")) /\ Shows(c)
        BY <2>21, <2>23, <3>1 DEF Update!Selects
      <4> QED
        BY <4>1, CallMoves
    <3>2. CASE ~Update!Fails(c)
      <4> DEFINE r == [at |-> "rechecks", channel |-> calls[c].channel,
                       tag |-> Update!select_release(channel)]
      <4>1. calls[c].at = "selects" /\ UNCHANGED <<status, operating, channel, package, checking, running>>
            /\ calls' = [calls EXCEPT ![c].at = "rechecks", ![c].tag = Update!select_release(channel)]
        BY <2>21, <3>2 DEF Update!Selects
      <4>2. calls' = [calls EXCEPT ![c] = r]
        <5>1. calls' \in [Windows -> CallTypes]
          BY <2>1, <2>5, <4>1 DEF CallTypes, UpdateInv, Operates
        <5>2. calls'[c] = r
          BY <2>1, <4>1 DEF CallTypes, UpdateInv
        <5>3. \A d \in Windows : d # c => calls'[d] = calls[d]
          BY <4>1 DEF UpdateInv
        <5>4. DOMAIN calls' = Windows /\ DOMAIN calls = Windows
          BY <5>1 DEF UpdateInv
        <5> QED
          BY <4>1, <5>2, <5>3, <5>4 DEF UpdateInv
      <4>3. r \in CallTypes
        BY <2>1, <2>5 DEF CallTypes, Operates
      <4>4. Moves(c, r) /\ Shows(c)
        BY <2>1, <2>5, <4>1, <4>2, <4>3 DEF Moves, Shows, Operates, Knows, Call
      <4> QED
        BY <4>4, CallMoves
    <3> QED
      BY <3>1, <3>2
  <2>22. CASE Update!Loaded(c)
    <3>1. CASE Update!Fails(c) /\ UNCHANGED package
      <4>1. Moves(c, At("done")) /\ Shows(c)
        BY <2>22, <2>23, <3>1 DEF Update!Loaded
      <4> QED
        BY <4>1, CallMoves
    <3>2. CASE ~(Update!Fails(c) /\ UNCHANGED package)
      <4>1. Moves(c, At("loaded")) /\ Shows(c)
        BY <2>1, <2>2, <2>3, <2>4, <2>22, <3>2 DEF Update!Loaded, Moves, Shows, Places, Operates,
           Knows, Call
      <4> QED
        BY <4>1, CallMoves
    <3> QED
      BY <3>1, <3>2
  <2> QED
    BY <1>3, <2>6, <2>7, <2>8, <2>9, <2>10, <2>11, <2>12, <2>13, <2>14, <2>15, <2>16, <2>17,
       <2>18, <2>19, <2>20, <2>21, <2>22 DEF Update!CallStep
<1> QED
  BY <1>1, <1>2, <1>3 DEF Update!Next

-------------------------------------------------------------------------------
(***************************************************************************)
(* The update of a portable build.                                         *)
(***************************************************************************)
Programs == Helper!Versions \cup {Foreign}
Files == Programs \cup {None}
StageTypes ==
    [there : BOOLEAN, original : Files, payload : Files, backup : Files, ready : BOOLEAN,
     error : BOOLEAN, completed : BOOLEAN]
AppTypes ==
    [at : {"down", "up", "installing", "stopping", "exiting"}, version : Programs,
     parent : Helper!Numbers \cup {None}, told : BOOLEAN]
Works == {"checks", "aside", "moved", "placed", "back", "restore", "failed"}
Ends == {"none", "done", "gone"}

\* Only the helper of the last attempt is at work, and only once its program has exited; what
\* it put aside is the program it was prepared from.
Fits(n) ==
    /\ n > attempts => helpers[n] = "none" /\ stages[n] = Helper!Stage
    /\ helpers[n] \notin Ends => n = attempts
    /\ helpers[n] \notin {"none", "gone"} => stages[n].there
    /\ helpers[n] = "starts" => app.at = "installing" /\ ~stages[n].ready
    /\ helpers[n] = "waits" => app.parent = n /\ app.at # "up"
    /\ helpers[n] \in Works => app.at = "down"
    /\ helpers[n] = "aside" => target = stages[n].original
    /\ helpers[n] \in {"moved", "placed", "back", "restore"} => stages[n].backup = stages[n].original
    /\ helpers[n] \in {"starts", "waits", "checks", "aside", "moved"} => stages[n].payload # None
    /\ helpers[n] = "placed" => target # None
    /\ helpers[n] \in {"back", "restore"} => failed > 0
    /\ stages[n].there => stages[n].original # None
    /\ stages[n].backup \in {None, stages[n].original}
    /\ n = attempts /\ foreign = 0 /\ stages[n].there => stages[n].original \in {target, stages[n].backup}

Typed ==
    /\ target \in Files /\ app \in AppTypes
    /\ stages \in [Helper!Numbers -> StageTypes]
    /\ helpers \in [Helper!Numbers -> Works \cup Ends \cup {"starts", "waits"}]
    /\ attempts \in 0..Attempts /\ failed \in Nat /\ crashed \in Nat

\* A program is missing only while a helper puts one there, or after two mishaps.
Missing ==
    target = None =>
        \/ failed > 1 \/ crashed > 0
        \/ \E n \in Helper!Numbers : helpers[n] \in {"moved", "back", "restore"}

HelperInv ==
    /\ Typed /\ twice = FALSE
    /\ app.at \in {"installing", "stopping", "exiting"} => app.parent = attempts
    /\ \A n \in Helper!Numbers : Fits(n)
    /\ Missing

LEMMA HelperInit == Distinct /\ Helper!Init => HelperInv
<1> SUFFICES ASSUME Distinct, Helper!Init PROVE HelperInv
  OBVIOUS
<1> USE DEF Helper!Init, Helper!Up, Helper!Numbers, Helper!Versions, Distinct
<1>1. Helper!Stage \in StageTypes
  BY DEF Helper!Stage, StageTypes, Files
<1>2. Typed
  BY <1>1 DEF Typed, Files, Programs, AppTypes, Ends
<1>3. ASSUME NEW n \in Helper!Numbers PROVE Fits(n)
  BY DEF Fits, Ends, Works, Helper!Stage
<1> QED
  BY <1>2, <1>3 DEF HelperInv, Missing

\* What a program is, and a stage: their fields.
LEMMA Fields ==
    ASSUME HelperInv, Distinct
    PROVE  /\ target \in Files /\ app \in AppTypes
           /\ app.at \in {"down", "up", "installing", "stopping", "exiting"} /\ app.version \in Programs
           /\ app.parent \in Helper!Numbers \cup {None} /\ app.told \in BOOLEAN
           /\ \A n \in Helper!Numbers :
                /\ stages[n] \in StageTypes
                /\ stages[n].original \in Files /\ stages[n].payload \in Files
                /\ stages[n].backup \in Files
                /\ helpers[n] \in Works \cup Ends \cup {"starts", "waits"}
           /\ attempts \in Nat /\ attempts <= Attempts /\ failed \in Nat /\ crashed \in Nat
           /\ Attempts \in Nat
           /\ \A n \in Helper!Numbers : n \in Nat /\ n >= 1 /\ n <= Attempts
           /\ None \notin Programs
  BY DEF HelperInv, Typed, AppTypes, StageTypes, Helper!Numbers, Distinct, Programs, Helper!Versions

\* A step of one helper leaves the stages of the others and where they are.
Goes(m, h, s) ==
    /\ helpers' = [helpers EXCEPT ![m] = h] /\ stages' = [stages EXCEPT ![m] = s]
    /\ h \in Works \cup Ends \cup {"starts", "waits"} /\ s \in StageTypes
    /\ UNCHANGED <<attempts, crashed, foreign>> /\ failed' \in Nat /\ failed' >= failed
    /\ helpers[m] \notin Ends /\ target' \in Files /\ UNCHANGED twice
    /\ \/ UNCHANGED app
       \/ app.at = "down" /\ h \in Ends /\ app' \in AppTypes /\ app'.at = "up"

LEMMA HelperMoves ==
    ASSUME Distinct, HelperInv, NEW m \in Helper!Numbers, NEW h, NEW s,
           Goes(m, h, s), Fits(m)', Missing'
    PROVE  HelperInv'
<1> USE DEF Goes
<1>1. /\ helpers'[m] = h /\ stages'[m] = s
      /\ \A n \in Helper!Numbers : n # m => helpers'[n] = helpers[n] /\ stages'[n] = stages[n]
  BY DEF HelperInv, Typed
<1>2. Typed'
  BY DEF HelperInv, Typed
<1>3. m = attempts
  BY DEF HelperInv, Fits
<1>4. ASSUME NEW n \in Helper!Numbers, n # m PROVE Fits(n)'
  <2>1. Fits(n) /\ helpers[n] \in Ends
    BY <1>3, <1>4 DEF HelperInv, Fits
  <2> QED
    BY <1>1, <1>3, <1>4, <2>1 DEF Fits, Works, Ends
<1>5. app'.at \in {"installing", "stopping", "exiting"} => app'.parent = attempts'
  BY DEF HelperInv
<1> QED
  BY <1>2, <1>4, <1>5 DEF HelperInv

LEMMA HelperStepInv ==
    ASSUME Distinct, HelperInv, NEW m \in Helper!Numbers, Helper!HelperStep(m), helpers[m] # "done"
    PROVE  HelperInv'
<1> DEFINE old == stages[m]
<1>1. /\ old \in StageTypes /\ Fits(m) /\ twice = FALSE /\ Missing
      /\ stages \in [Helper!Numbers -> StageTypes]
      /\ helpers \in [Helper!Numbers -> Works \cup Ends \cup {"starts", "waits"}]
  BY DEF HelperInv, Typed
<1>2. stages = [stages EXCEPT ![m] = old]
  BY <1>1
<1>3. \A a : Helper!Helper(m, a) =>
        helpers' = [helpers EXCEPT ![m] = a] /\ helpers'[m] = a
        /\ \A n \in Helper!Numbers : n # m => helpers'[n] = helpers[n]
  BY <1>1 DEF Helper!Helper
<1>4. \A a : stages' = [stages EXCEPT ![m] = a] => stages'[m] = a
  BY <1>1
<1>5. (Helper!Fault \/ Helper!NoFault \/ UNCHANGED failed) => failed' \in Nat /\ failed' >= failed
  BY Fields DEF Helper!Fault, Helper!NoFault
<1>6. Helper!Fault => failed' > 0 /\ (failed > 0 => failed' > 1)
  BY Fields DEF Helper!Fault
<1>7. Helper!Kept \/ UNCHANGED Helper!counts => UNCHANGED <<attempts, crashed, foreign>>
  BY DEF Helper!Kept, Helper!counts
<1>8. helpers[m] \in {"moved", "back", "restore"} /\ helpers'[m] \in {"moved", "back", "restore"} 
      => Missing'
  BY DEF Missing
<1>9. helpers[m] \notin {"moved", "back", "restore"} /\ UNCHANGED <<target, crashed>>
      /\ failed' >= failed /\ failed' \in Nat /\ (\A n \in Helper!Numbers : n # m => helpers'[n] = helpers[n])
      => Missing'
  BY <1>1, Fields DEF Missing
<1>10. m = attempts \/ helpers[m] \in Ends
  BY <1>1 DEF Fits
<1>11. \A n \in Helper!Numbers : n # m /\ helpers[m] \notin Ends => helpers[n] \notin {"moved", "back", "restore"}
  BY <1>10 DEF HelperInv, Fits, Ends
<1>22. ASSUME app.at = "down", target # None, Helper!Starts(target)
       PROVE  app' \in AppTypes /\ app'.at = "up" /\ UNCHANGED twice
  <2>1. app' = [at |-> "up", version |-> target, parent |-> None, told |-> FALSE] /\ twice' = twice
    BY <1>22 DEF Helper!Starts, Helper!Up
  <2> QED
    BY <1>22, <2>1, Fields DEF AppTypes, Files
<1>12. CASE Helper!Ready(m)
  <2>1. CASE Helper!NoFault /\ Helper!Helper(m, "waits") /\ stages' = [stages EXCEPT ![m].ready = TRUE]
             /\ app.parent = m /\ app.at # "down"
    <3> DEFINE p == [old EXCEPT !.ready = TRUE]
    <3>1. /\ p \in StageTypes /\ stages' = [stages EXCEPT ![m] = p]
          /\ p.ready = TRUE
          /\ p.there = old.there /\ p.original = old.original /\ p.payload = old.payload
          /\ p.backup = old.backup /\ p.error = old.error
      BY <1>1, <2>1, Fields DEF StageTypes, Files
    <3> HIDE DEF p
    <3>2. Missing'
      BY <1>3, <1>5, <1>7, <1>9, <1>12, <2>1 DEF Helper!Ready, Missing
    <3>3. Fits(m)'
      BY <1>1, <1>3, <1>4, <1>5, <1>6, <1>7, <1>12, <2>1, <3>1, Fields
         DEF Fits, Helper!Ready, Works, Ends
    <3>4. Goes(m, "waits", p)
      BY <1>1, <1>3, <1>5, <1>7, <1>12, <2>1, <3>1, Fields
         DEF Goes, Helper!Ready, Works, Ends, Files
    <3> QED
      BY <3>2, <3>3, <3>4, HelperMoves
  <2>2. CASE Helper!Fault /\ Helper!Helper(m, "gone") /\ UNCHANGED stages
    <3>2. Missing'
      BY <1>3, <1>5, <1>7, <1>9, <1>12, <2>2 DEF Helper!Ready, Missing
    <3>3. Fits(m)'
      BY <1>1, <1>3, <1>4, <1>5, <1>6, <1>7, <1>12, <2>2, <1>2, Fields
         DEF Fits, Helper!Ready, Works, Ends
    <3>4. Goes(m, "gone", old)
      BY <1>1, <1>3, <1>5, <1>7, <1>12, <2>2, <1>2, Fields
         DEF Goes, Helper!Ready, Works, Ends, Files
    <3> QED
      BY <3>2, <3>3, <3>4, HelperMoves
  <2> QED
    BY <1>12, <2>1, <2>2 DEF Helper!Ready
<1>13. CASE Helper!GoesOn(m)
  <2>1. Missing'
    BY <1>3, <1>5, <1>7, <1>9, <1>13 DEF Helper!GoesOn, Helper!counts
  <2>2. Fits(m)'
    BY <1>1, <1>3, <1>7, <1>13 DEF Fits, Helper!GoesOn, Works, Ends, Helper!counts
  <2>3. Goes(m, "checks", old)
    BY <1>1, <1>2, <1>3, <1>5, <1>7, <1>13, Fields DEF Goes, Helper!GoesOn, Works, Ends, Helper!counts
  <2> QED
    BY <2>1, <2>2, <2>3, HelperMoves
<1>14. CASE Helper!WaitEnds(m)
  <2>1. Missing'
    BY <1>3, <1>5, <1>7, <1>9, <1>14 DEF Helper!WaitEnds, Helper!counts
  <2>2. Fits(m)'
    BY <1>1, <1>3, <1>7, <1>14 DEF Fits, Helper!WaitEnds, Works, Ends, Helper!counts
  <2>3. Goes(m, "gone", old)
    BY <1>1, <1>2, <1>3, <1>5, <1>7, <1>14, Fields DEF Goes, Helper!WaitEnds, Works, Ends, Helper!counts
  <2> QED
    BY <2>1, <2>2, <2>3, HelperMoves
<1>15. CASE Helper!Checks(m)
  <2>1. CASE Helper!Helper(m, "aside") /\ target = stages[m].original
    <3>2. Missing'
      BY <1>3, <1>5, <1>7, <1>9, <1>15, <2>1 DEF Helper!Checks, Missing
    <3>3. Fits(m)'
      BY <1>1, <1>3, <1>4, <1>5, <1>6, <1>7, <1>15, <2>1, <1>2, Fields
         DEF Fits, Helper!Checks, Works, Ends
    <3>4. Goes(m, "aside", old)
      BY <1>1, <1>3, <1>5, <1>7, <1>15, <2>1, <1>2, Fields
         DEF Goes, Helper!Checks, Works, Ends, Files
    <3> QED
      BY <3>2, <3>3, <3>4, HelperMoves
  <2>2. CASE Helper!Helper(m, "failed")
    <3>2. Missing'
      BY <1>3, <1>5, <1>7, <1>9, <1>15, <2>2 DEF Helper!Checks, Missing
    <3>3. Fits(m)'
      BY <1>1, <1>3, <1>4, <1>5, <1>6, <1>7, <1>15, <2>2, <1>2, Fields
         DEF Fits, Helper!Checks, Works, Ends
    <3>4. Goes(m, "failed", old)
      BY <1>1, <1>3, <1>5, <1>7, <1>15, <2>2, <1>2, Fields
         DEF Goes, Helper!Checks, Works, Ends, Files
    <3> QED
      BY <3>2, <3>3, <3>4, HelperMoves
  <2> QED
    BY <1>15, <2>1, <2>2 DEF Helper!Checks, Helper!Unchanged
<1>16. CASE Helper!Aside(m)
  <2>1. CASE Helper!NoFault /\ target' = None /\ Helper!Helper(m, "moved")
             /\ stages' = [stages EXCEPT ![m].backup = target]
    <3> DEFINE p == [old EXCEPT !.backup = target]
    <3>1. /\ p \in StageTypes /\ stages' = [stages EXCEPT ![m] = p]
          /\ p.backup = target
          /\ p.there = old.there /\ p.original = old.original /\ p.payload = old.payload
          /\ p.ready = old.ready /\ p.error = old.error
      BY <1>1, <2>1, Fields DEF StageTypes, Files
    <3> HIDE DEF p
    <3>2. Missing'
      BY <1>1, <1>3, <1>16, <2>1 DEF Helper!Aside, Missing, Fits
    <3>3. Fits(m)'
      BY <1>1, <1>3, <1>4, <1>5, <1>6, <1>7, <1>16, <2>1, <3>1, Fields
         DEF Fits, Helper!Aside, Works, Ends
    <3>4. Goes(m, "moved", p)
      BY <1>1, <1>3, <1>5, <1>7, <1>16, <2>1, <3>1, Fields
         DEF Goes, Helper!Aside, Works, Ends, Files
    <3> QED
      BY <3>2, <3>3, <3>4, HelperMoves
  <2>2. CASE Helper!Fault /\ Helper!Helper(m, "failed") /\ UNCHANGED <<target, stages>>
    <3>2. Missing'
      BY <1>3, <1>5, <1>7, <1>9, <1>16, <2>2 DEF Helper!Aside, Missing
    <3>3. Fits(m)'
      BY <1>1, <1>3, <1>4, <1>5, <1>6, <1>7, <1>16, <2>2, <1>2, Fields
         DEF Fits, Helper!Aside, Works, Ends
    <3>4. Goes(m, "failed", old)
      BY <1>1, <1>3, <1>5, <1>7, <1>16, <2>2, <1>2, Fields
         DEF Goes, Helper!Aside, Works, Ends, Files
    <3> QED
      BY <3>2, <3>3, <3>4, HelperMoves
  <2> QED
    BY <1>16, <2>1, <2>2 DEF Helper!Aside
<1>17. CASE Helper!Place(m)
  <2>1. CASE Helper!NoFault /\ target' = stages[m].payload /\ Helper!Helper(m, "placed")
             /\ stages' = [stages EXCEPT ![m].payload = None]
    <3> DEFINE p == [old EXCEPT !.payload = None]
    <3>1. /\ p \in StageTypes /\ stages' = [stages EXCEPT ![m] = p]
          /\ p.payload = None
          /\ p.there = old.there /\ p.original = old.original /\ p.backup = old.backup
          /\ p.ready = old.ready /\ p.error = old.error
      BY <1>1, <2>1, Fields DEF StageTypes, Files
    <3> HIDE DEF p
    <3>2. Missing'
      BY <1>1, <1>3, <1>5, <1>6, <1>7, <1>17, <2>1, <3>1, Fields
         DEF Helper!Place, Missing, Fits, Ends
    <3>3. Fits(m)'
      BY <1>1, <1>3, <1>4, <1>5, <1>6, <1>7, <1>17, <2>1, <3>1, Fields
         DEF Fits, Helper!Place, Works, Ends
    <3>4. Goes(m, "placed", p)
      BY <1>1, <1>3, <1>5, <1>7, <1>17, <2>1, <3>1, Fields
         DEF Goes, Helper!Place, Works, Ends, Files
    <3> QED
      BY <3>2, <3>3, <3>4, HelperMoves
  <2>2. CASE Helper!Fault /\ Helper!Helper(m, "back") /\ UNCHANGED <<target, stages>>
    <3>2. Missing'
      BY <1>1, <1>3, <1>17, <2>2 DEF Helper!Place, Missing, Fits
    <3>3. Fits(m)'
      BY <1>1, <1>3, <1>4, <1>5, <1>6, <1>7, <1>17, <2>2, <1>2, Fields
         DEF Fits, Helper!Place, Works, Ends
    <3>4. Goes(m, "back", old)
      BY <1>1, <1>3, <1>5, <1>7, <1>17, <2>2, <1>2, Fields
         DEF Goes, Helper!Place, Works, Ends, Files
    <3> QED
      BY <3>2, <3>3, <3>4, HelperMoves
  <2> QED
    BY <1>17, <2>1, <2>2 DEF Helper!Place
<1>18. CASE Helper!Launch(m)
  <2>1. CASE Helper!NoFault /\ Helper!Helper(m, "done") /\ Helper!Starts(target) /\ UNCHANGED <<target, stages>>
    <3>2. Missing'
      BY <1>3, <1>5, <1>7, <1>9, <1>18, <2>1 DEF Helper!Launch, Missing
    <3>3. Fits(m)'
      BY <1>1, <1>3, <1>4, <1>5, <1>6, <1>7, <1>18, <2>1, <1>2, Fields
         DEF Fits, Helper!Launch, Works, Ends
    <3>4. Goes(m, "done", old)
      BY <1>1, <1>3, <1>5, <1>7, <1>18, <2>1, <1>22, <1>2, Fields
         DEF Goes, Fits, Helper!Launch, Works, Ends, Files
    <3> QED
      BY <3>2, <3>3, <3>4, HelperMoves
  <2>2. CASE Helper!Fault /\ Helper!Helper(m, "back") /\ UNCHANGED <<target, app, twice, stages>>
    <3>2. Missing'
      BY <1>1, <1>3, <1>18, <2>2 DEF Helper!Launch, Missing, Fits
    <3>3. Fits(m)'
      BY <1>1, <1>3, <1>4, <1>5, <1>6, <1>7, <1>18, <2>2, <1>2, Fields
         DEF Fits, Helper!Launch, Works, Ends
    <3>4. Goes(m, "back", old)
      BY <1>1, <1>3, <1>5, <1>7, <1>18, <2>2, <1>2, Fields
         DEF Goes, Helper!Launch, Works, Ends, Files
    <3> QED
      BY <3>2, <3>3, <3>4, HelperMoves
  <2> QED
    BY <1>18, <2>1, <2>2 DEF Helper!Launch
<1>19. CASE Helper!Back(m)
  <2>1. CASE Helper!NoFault /\ Helper!Helper(m, "restore") /\ target = None /\ UNCHANGED <<target, stages>>
    <3>2. Missing'
      BY <1>1, <1>3, <1>19, <2>1 DEF Helper!Back, Missing, Fits
    <3>3. Fits(m)'
      BY <1>1, <1>3, <1>4, <1>5, <1>6, <1>7, <1>19, <2>1, <1>2, Fields
         DEF Fits, Helper!Back, Works, Ends
    <3>4. Goes(m, "restore", old)
      BY <1>1, <1>3, <1>5, <1>7, <1>19, <2>1, <1>2, Fields
         DEF Goes, Helper!Back, Works, Ends, Files
    <3> QED
      BY <3>2, <3>3, <3>4, HelperMoves
  <2>2. CASE Helper!NoFault /\ Helper!Helper(m, "restore") /\ target # None /\ target' = None
             /\ stages' = [stages EXCEPT ![m].payload = target]
    <3> DEFINE p == [old EXCEPT !.payload = target]
    <3>1. /\ p \in StageTypes /\ stages' = [stages EXCEPT ![m] = p]
          /\ p.payload = target
          /\ p.there = old.there /\ p.original = old.original /\ p.backup = old.backup
          /\ p.ready = old.ready /\ p.error = old.error
      BY <1>1, <2>2, Fields DEF StageTypes, Files
    <3> HIDE DEF p
    <3>2. Missing'
      BY <1>1, <1>3, <1>19, <2>2 DEF Helper!Back, Missing, Fits
    <3>3. Fits(m)'
      BY <1>1, <1>3, <1>4, <1>5, <1>6, <1>7, <1>19, <2>2, <3>1, Fields
         DEF Fits, Helper!Back, Works, Ends
    <3>4. Goes(m, "restore", p)
      BY <1>1, <1>3, <1>5, <1>7, <1>19, <2>2, <3>1, Fields
         DEF Goes, Helper!Back, Works, Ends, Files
    <3> QED
      BY <3>2, <3>3, <3>4, HelperMoves
  <2>3. CASE Helper!Fault /\ Helper!Helper(m, "failed") /\ target # None /\ UNCHANGED <<target, stages>>
    <3>2. Missing'
      BY <1>1, <1>3, <1>5, <1>6, <1>7, <1>19, <2>3, <1>2, Fields
         DEF Helper!Back, Missing, Fits, Ends
    <3>3. Fits(m)'
      BY <1>1, <1>3, <1>4, <1>5, <1>6, <1>7, <1>19, <2>3, <1>2, Fields
         DEF Fits, Helper!Back, Works, Ends
    <3>4. Goes(m, "failed", old)
      BY <1>1, <1>3, <1>5, <1>7, <1>19, <2>3, <1>2, Fields
         DEF Goes, Helper!Back, Works, Ends, Files
    <3> QED
      BY <3>2, <3>3, <3>4, HelperMoves
  <2> QED
    BY <1>19, <2>1, <2>2, <2>3 DEF Helper!Back
<1>20. CASE Helper!Restore(m)
  <2>1. CASE Helper!NoFault /\ Helper!Helper(m, "failed") /\ target' = stages[m].backup
             /\ stages' = [stages EXCEPT ![m].backup = None]
    <3> DEFINE p == [old EXCEPT !.backup = None]
    <3>1. /\ p \in StageTypes /\ stages' = [stages EXCEPT ![m] = p]
          /\ p.backup = None
          /\ p.there = old.there /\ p.original = old.original /\ p.payload = old.payload
          /\ p.ready = old.ready /\ p.error = old.error
      BY <1>1, <2>1, Fields DEF StageTypes, Files
    <3> HIDE DEF p
    <3>2. Missing'
      BY <1>1, <1>3, <1>5, <1>6, <1>7, <1>20, <2>1, <3>1, Fields
         DEF Helper!Restore, Missing, Fits, Ends
    <3>3. Fits(m)'
      BY <1>1, <1>3, <1>4, <1>5, <1>6, <1>7, <1>20, <2>1, <3>1, Fields
         DEF Fits, Helper!Restore, Works, Ends
    <3>4. Goes(m, "failed", p)
      BY <1>1, <1>3, <1>5, <1>7, <1>20, <2>1, <3>1, Fields
         DEF Goes, Helper!Restore, Works, Ends, Files
    <3> QED
      BY <3>2, <3>3, <3>4, HelperMoves
  <2>2. CASE Helper!Fault /\ Helper!Helper(m, "failed") /\ UNCHANGED <<target, stages>>
    <3>2. Missing'
      BY <1>1, <1>3, <1>5, <1>6, <1>7, <1>20, <2>2, <1>2, Fields
         DEF Helper!Restore, Missing, Fits, Ends
    <3>3. Fits(m)'
      BY <1>1, <1>3, <1>4, <1>5, <1>6, <1>7, <1>20, <2>2, <1>2, Fields
         DEF Fits, Helper!Restore, Works, Ends
    <3>4. Goes(m, "failed", old)
      BY <1>1, <1>3, <1>5, <1>7, <1>20, <2>2, <1>2, Fields
         DEF Goes, Helper!Restore, Works, Ends, Files
    <3> QED
      BY <3>2, <3>3, <3>4, HelperMoves
  <2> QED
    BY <1>20, <2>1, <2>2 DEF Helper!Restore
<1>21. CASE Helper!Failed(m)
  <2>1. CASE target = stages[m].original /\ Helper!Starts(target) /\ Helper!Helper(m, "gone")
             /\ stages' = [stages EXCEPT ![m].error = TRUE]
    <3> DEFINE p == [old EXCEPT !.error = TRUE]
    <3>1. /\ p \in StageTypes /\ stages' = [stages EXCEPT ![m] = p]
          /\ p.error = TRUE
          /\ p.there = old.there /\ p.original = old.original /\ p.payload = old.payload
          /\ p.backup = old.backup /\ p.ready = old.ready
      BY <1>1, <2>1, Fields DEF StageTypes, Files
    <3> HIDE DEF p
    <3>2. Missing'
      BY <1>3, <1>5, <1>7, <1>9, <1>21, <2>1 DEF Helper!Failed, Missing
    <3>3. Fits(m)'
      BY <1>1, <1>3, <1>4, <1>5, <1>6, <1>7, <1>21, <2>1, <3>1, Fields
         DEF Fits, Helper!Failed, Works, Ends
    <3>4. Goes(m, "gone", p)
      BY <1>1, <1>3, <1>5, <1>7, <1>21, <2>1, <1>22, <3>1, Fields
         DEF Goes, Fits, Helper!Failed, Works, Ends, Files
    <3> QED
      BY <3>2, <3>3, <3>4, HelperMoves
  <2>2. CASE UNCHANGED <<app, twice>> /\ Helper!Helper(m, "gone") /\ stages' = [stages EXCEPT ![m].error = TRUE]
    <3> DEFINE p == [old EXCEPT !.error = TRUE]
    <3>1. /\ p \in StageTypes /\ stages' = [stages EXCEPT ![m] = p]
          /\ p.error = TRUE
          /\ p.there = old.there /\ p.original = old.original /\ p.payload = old.payload
          /\ p.backup = old.backup /\ p.ready = old.ready
      BY <1>1, <2>2, Fields DEF StageTypes, Files
    <3> HIDE DEF p
    <3>2. Missing'
      BY <1>3, <1>5, <1>7, <1>9, <1>21, <2>2 DEF Helper!Failed, Missing
    <3>3. Fits(m)'
      BY <1>1, <1>3, <1>4, <1>5, <1>6, <1>7, <1>21, <2>2, <3>1, Fields
         DEF Fits, Helper!Failed, Works, Ends
    <3>4. Goes(m, "gone", p)
      BY <1>1, <1>3, <1>5, <1>7, <1>21, <2>2, <3>1, Fields
         DEF Goes, Helper!Failed, Works, Ends, Files
    <3> QED
      BY <3>2, <3>3, <3>4, HelperMoves
  <2> QED
    BY <1>21, <2>1, <2>2 DEF Helper!Failed
<1> QED
  BY <1>12, <1>13, <1>14, <1>15, <1>16, <1>17, <1>18, <1>19, <1>20, <1>21
     DEF Helper!HelperStep, Helper!Completes

\* What changes none of the programs, nor who is at work.
LEMMA QuietInv ==
    ASSUME Distinct, HelperInv, NEW m \in Helper!Numbers,
           Helper!Completes(m) \/ Helper!Cleans(m) \/ Helper!Reports(m)
    PROVE  HelperInv'
<1>1. UNCHANGED <<target, twice, attempts, failed, crashed, foreign>>
  BY DEF Helper!Completes, Helper!Cleans, Helper!Reports, Helper!counts
<1>2. /\ stages \in [Helper!Numbers -> StageTypes] /\ stages[m] \in StageTypes
      /\ helpers \in [Helper!Numbers -> Works \cup Ends \cup {"starts", "waits"}]
  BY DEF HelperInv, Typed
<1>3. PICK s \in StageTypes :
        /\ stages' = [stages EXCEPT ![m] = s]
        /\ \/ s = Helper!Stage /\ helpers[m] = "gone"
           \/ /\ s.there = stages[m].there /\ s.original = stages[m].original
              /\ s.payload = stages[m].payload /\ s.backup = stages[m].backup
              /\ s.ready = stages[m].ready
              /\ stages[m] # Helper!Stage
  <2>1. CASE Helper!Cleans(m)
    <3>1. Helper!Stage \in StageTypes
      BY DEF Helper!Stage, StageTypes, Files
    <3> QED
      BY <2>1, <3>1 DEF Helper!Cleans
  <2>2. CASE Helper!Completes(m)
    <3> DEFINE s == [stages[m] EXCEPT !.completed = TRUE]
    <3>1. /\ s \in StageTypes /\ s.there = stages[m].there /\ s.original = stages[m].original
          /\ s.payload = stages[m].payload /\ s.backup = stages[m].backup /\ s.ready = stages[m].ready
      BY <1>2 DEF StageTypes
    <3>2. stages[m] # Helper!Stage
      BY <2>2 DEF Helper!Completes, HelperInv, Fits, Helper!Stage
    <3> QED
      BY <1>2, <2>2, <3>1, <3>2 DEF Helper!Completes
  <2>3. CASE Helper!Reports(m)
    <3> DEFINE s == [stages[m] EXCEPT !.error = FALSE]
    <3>1. /\ s \in StageTypes /\ s.there = stages[m].there /\ s.original = stages[m].original
          /\ s.payload = stages[m].payload /\ s.backup = stages[m].backup /\ s.ready = stages[m].ready
      BY <1>2 DEF StageTypes
    <3>2. stages[m] # Helper!Stage
      BY <2>3 DEF Helper!Reports, Helper!Stage
    <3> QED
      BY <1>2, <2>3, <3>1, <3>2 DEF Helper!Reports
  <2> QED
    BY <2>1, <2>2, <2>3
<1>4. stages'[m] = s /\ \A n \in Helper!Numbers : n # m => stages'[n] = stages[n]
  BY <1>2, <1>3
<1>5. /\ helpers' \in [Helper!Numbers -> Works \cup Ends \cup {"starts", "waits"}]
      /\ \A n \in Helper!Numbers :
           helpers'[n] = helpers[n] \/ (helpers[n] = "done" /\ helpers'[n] = "gone")
  <2>1. CASE Helper!Completes(m)
    BY <1>2, <2>1 DEF Helper!Completes, Helper!Helper, Ends
  <2>2. CASE Helper!Cleans(m) \/ Helper!Reports(m)
    BY <1>2, <2>2 DEF Helper!Cleans, Helper!Reports
  <2> QED
    BY <2>1, <2>2
<1>6. app' \in AppTypes /\ app'.at = app.at /\ app'.parent = app.parent
  <2>1. app' = app \/ app' = [app EXCEPT !.told = TRUE]
    BY DEF Helper!Completes, Helper!Cleans, Helper!Reports
  <2> QED
    BY <2>1, Fields DEF AppTypes
<1>7. ASSUME NEW n \in Helper!Numbers PROVE Fits(n)'
  <2>1. Fits(n)
    BY DEF HelperInv
  <2>2. CASE n = m
    <3>1. \/ s.there = FALSE /\ s.backup = None
          \/ /\ s.there = stages[m].there /\ s.original = stages[m].original
             /\ s.payload = stages[m].payload /\ s.backup = stages[m].backup
             /\ s.ready = stages[m].ready
      BY <1>3 DEF Helper!Stage
    <3>4. s.there = FALSE => helpers'[m] \in {"none", "gone"}
      BY <1>3, <1>5, <2>1, <2>2 DEF Fits
    <3>5. n <= attempts
      BY <1>3, <2>1, <2>2, Fields DEF Fits
    <3> QED
      BY <1>1, <1>4, <1>5, <1>6, <2>1, <2>2, <3>1, <3>4, <3>5, Fields DEF Fits, Works, Ends
  <2>3. CASE n # m
    BY <1>1, <1>4, <1>5, <1>6, <2>1, <2>3 DEF Fits, Works, Ends
  <2> QED
    BY <2>2, <2>3
<1>8. Typed'
  BY <1>1, <1>2, <1>3, <1>5, <1>6 DEF HelperInv, Typed
<1>9. Missing'
  BY <1>1, <1>5 DEF HelperInv, Missing
<1> QED
  BY <1>1, <1>6, <1>7, <1>8, <1>9 DEF HelperInv

\* The program prepares an update: the helpers of the earlier ones have ended.
LEMMA PrepareInv == ASSUME Distinct, HelperInv, Helper!Prepare PROVE HelperInv'
<1> DEFINE n == attempts + 1
<1>0. /\ attempts \in Nat /\ attempts <= Attempts /\ Attempts \in Nat /\ failed \in Nat
      /\ \A k \in Helper!Numbers : Fits(k) /\ k \in Nat
  BY Fields DEF HelperInv
<1>1. /\ app.at = "up" /\ n \in Helper!Numbers /\ attempts' = n
      /\ UNCHANGED <<target, twice, crashed, foreign>>
  BY Fields DEF Helper!Prepare, Helper!Numbers
<1>2. \A k \in Helper!Numbers : helpers[k] \in Ends
  BY <1>1, Fields DEF HelperInv, Fits, Works, Ends
<1>3. helpers[n] = "none" /\ stages[n] = Helper!Stage
  BY <1>0, <1>1 DEF Fits
<1>4. /\ stages \in [Helper!Numbers -> StageTypes]
      /\ helpers \in [Helper!Numbers -> Works \cup Ends \cup {"starts", "waits"}]
  BY DEF HelperInv, Typed
<1>5. CASE Helper!Fault /\ UNCHANGED <<stages, helpers>> /\ app' = [app EXCEPT !.told = TRUE]
  <2>1. failed' \in Nat /\ failed' >= failed
    BY <1>5, Fields DEF Helper!Fault
  <2>2. app' \in AppTypes /\ app'.at = "up"
    BY <1>1, <1>5, Fields DEF AppTypes
  <2>3. Typed'
    BY <1>1, <1>4, <1>5, <2>1, <2>2, Fields DEF HelperInv, Typed, Helper!Numbers
  <2>4. ASSUME NEW k \in Helper!Numbers PROVE Fits(k)'
    <3>1. Fits(k) /\ helpers[k] \in Ends /\ (k > n => k > attempts)
      BY <1>0, <1>1, <1>2
    <3>2. stages[n].there = FALSE
      BY <1>3 DEF Helper!Stage
    <3> QED
      BY <1>1, <1>3, <1>5, <3>1, <3>2 DEF Fits, Works, Ends
  <2>5. Missing'
    BY <1>0, <1>1, <1>5, <2>1 DEF HelperInv, Missing
  <2> QED
    BY <1>1, <2>2, <2>3, <2>4, <2>5 DEF HelperInv
<1>6. CASE ~(Helper!Fault /\ UNCHANGED <<stages, helpers>> /\ app' = [app EXCEPT !.told = TRUE])
  <2> DEFINE s == [there |-> TRUE, original |-> target, payload |-> attempts + 2, backup |-> None,
                   ready |-> FALSE, error |-> FALSE, completed |-> FALSE]
  <2>1. /\ target # None /\ failed' = failed
        /\ stages' = [stages EXCEPT ![n] = s]
        /\ helpers' = [helpers EXCEPT ![n] = "starts"]
        /\ app' = [app EXCEPT !.at = "installing", !.parent = n, !.told = FALSE]
    BY <1>6 DEF Helper!Prepare, Helper!NoFault, Helper!Helper, Helper!Stage
  <2>2. s \in StageTypes
    BY Fields, <1>1 DEF StageTypes, Files, Programs, Helper!Versions, Helper!Numbers
  <2>3. app' \in AppTypes /\ app'.at = "installing" /\ app'.parent = n
    BY <1>1, <2>1, Fields DEF AppTypes
  <2>4. /\ stages'[n] = s /\ helpers'[n] = "starts"
        /\ \A k \in Helper!Numbers : k # n => stages'[k] = stages[k] /\ helpers'[k] = helpers[k]
    BY <1>1, <1>4, <2>1
  <2>5. Typed'
    BY <1>1, <1>4, <2>1, <2>2, <2>3, Fields DEF HelperInv, Typed, Helper!Numbers, Works, Ends
  <2>6. ASSUME NEW k \in Helper!Numbers PROVE Fits(k)'
    <3>1. CASE k = n
      BY <1>1, <2>1, <2>3, <2>4, <3>1, Fields DEF Fits, Works, Ends, Distinct
    <3>2. CASE k # n
      <4>1. Fits(k) /\ helpers[k] \in Ends /\ (k > n => k > attempts)
        BY <1>0, <1>1, <1>2
      <4> QED
        BY <1>1, <2>4, <3>2, <4>1 DEF Fits, Works, Ends
    <3> QED
      BY <3>1, <3>2
  <2>7. Missing'
    BY <1>1, <2>1 DEF Missing
  <2> QED
    BY <1>1, <2>3, <2>5, <2>6, <2>7 DEF HelperInv
<1> QED
  BY <1>5, <1>6

\* The program goes on with an update, or gives it up: then its helper ends with it.
LEMMA AppStepInv == ASSUME Distinct, HelperInv, Helper!AppStep PROVE HelperInv'
<1>1. UNCHANGED <<target, twice, attempts, crashed, foreign>> /\ failed' \in Nat /\ failed' >= failed
  BY Fields DEF Helper!AppStep, Helper!SeesReady, Helper!GivesUp, Helper!Commits, Helper!Exits,
     Helper!Kept, Helper!counts, Helper!Fault, Helper!NoFault
<1>2. /\ stages \in [Helper!Numbers -> StageTypes]
      /\ helpers \in [Helper!Numbers -> Works \cup Ends \cup {"starts", "waits"}]
      /\ \A n \in Helper!Numbers : Fits(n)
      /\ app.at \in {"installing", "stopping", "exiting"} => app.parent = attempts
      /\ Missing /\ Typed /\ twice = FALSE
  BY DEF HelperInv, Typed
<1>3. app.at \in {"installing", "stopping", "exiting"}
  BY DEF Helper!AppStep, Helper!SeesReady, Helper!GivesUp, Helper!Commits, Helper!Exits
<1>4. app.parent = attempts /\ attempts \in Helper!Numbers
  BY <1>2, <1>3, Fields DEF Distinct
<1>5. CASE Helper!GivesUp
  <2>1. /\ app' = [app EXCEPT !.at = "up", !.told = TRUE]
        /\ stages' = [stages EXCEPT ![attempts] = Helper!Stage]
        /\ helpers' = [helpers EXCEPT ![attempts] = "gone"]
    BY <1>4, <1>5 DEF Helper!GivesUp, Helper!Drops, Helper!Helper
  <2>2. app' \in AppTypes /\ app'.at = "up"
    BY <2>1, Fields DEF AppTypes
  <2>3. Helper!Stage \in StageTypes /\ Helper!Stage.there = FALSE /\ Helper!Stage.backup = None
    BY DEF Helper!Stage, StageTypes, Files
  <2>4. Typed'
    BY <1>1, <1>2, <2>1, <2>2, <2>3 DEF Typed, Ends
  <2>5. ASSUME NEW n \in Helper!Numbers PROVE Fits(n)'
    <3>1. CASE n = attempts
      <4>1. helpers'[n] = "gone" /\ stages'[n] = Helper!Stage /\ ~(n > attempts')
        BY <1>1, <1>2, <2>1, <3>1, Fields
      <4> QED
        BY <2>3, <4>1 DEF Fits, Works, Ends
    <3>2. CASE n # attempts
      BY <1>1, <1>2, <2>1, <2>2, <3>2 DEF Fits, Works, Ends
    <3> QED
      BY <3>1, <3>2
  <2>6. \A n \in Helper!Numbers : helpers[n] \notin {"moved", "back", "restore"}
    BY <1>2, <1>3 DEF Fits, Works
  <2>7. Missing'
    BY <1>1, <1>2, <2>6, Fields DEF Missing
  <2> QED
    BY <1>1, <1>2, <2>2, <2>4, <2>5, <2>7 DEF HelperInv
<1>6. CASE Helper!SeesReady \/ Helper!Commits \/ Helper!Exits
  <2>1. PICK a \in {"stopping", "exiting", "down"} : app' = [app EXCEPT !.at = a]
    BY <1>6 DEF Helper!SeesReady, Helper!Commits, Helper!Exits
  <2>2. app' \in AppTypes /\ app'.at = a /\ app'.parent = app.parent
    BY <2>1, Fields DEF AppTypes
  <2>3. UNCHANGED <<stages, helpers>> /\ UNCHANGED failed
    BY <1>6 DEF Helper!SeesReady, Helper!Commits, Helper!Exits, Helper!counts
  <2>4. \A n \in Helper!Numbers : helpers[n] # "starts"
    <3> SUFFICES ASSUME NEW n \in Helper!Numbers, helpers[n] = "starts" PROVE FALSE
      OBVIOUS
    <3>1. n = attempts /\ app.at = "installing" /\ ~stages[n].ready
      BY <1>2 DEF Fits, Ends
    <3> QED
      BY <1>4, <1>6, <3>1 DEF Helper!SeesReady, Helper!Commits, Helper!Exits
  <2>5. ASSUME NEW n \in Helper!Numbers PROVE Fits(n)'
    <3>1. helpers[n] \notin Works
      BY <1>2, <1>3 DEF Fits
    <3> QED
      BY <1>1, <1>2, <2>2, <2>3, <2>4, <3>1 DEF Fits, Works, Ends
  <2>6. Typed' /\ Missing'
    BY <1>1, <1>2, <2>2, <2>3 DEF Typed, Missing
  <2> QED
    BY <1>1, <1>2, <1>3, <2>2, <2>5, <2>6 DEF HelperInv
<1> QED
  BY <1>5, <1>6 DEF Helper!AppStep

\* What the user, somebody else and the power do.
LEMMA WorldInv ==
    ASSUME Distinct, HelperInv, Helper!UserStarts \/ Helper!Replaced \/ Helper!PowerLoss
    PROVE  HelperInv'
<1>1. /\ stages \in [Helper!Numbers -> StageTypes]
      /\ helpers \in [Helper!Numbers -> Works \cup Ends \cup {"starts", "waits"}]
      /\ \A n \in Helper!Numbers : Fits(n)
      /\ Missing /\ Typed /\ twice = FALSE
      /\ app.at \in {"installing", "stopping", "exiting"} => app.parent = attempts
  BY DEF HelperInv, Typed
<1>2. CASE Helper!UserStarts
  <2>1. /\ app' = [at |-> "up", version |-> target, parent |-> None, told |-> FALSE]
        /\ twice' = twice /\ target # None
        /\ UNCHANGED <<target, stages, helpers, attempts, failed, crashed, foreign>>
        /\ \A n \in Helper!Numbers : helpers[n] \in Ends
    BY <1>2 DEF Helper!UserStarts, Helper!Starts, Helper!Up, Helper!counts, Ends
  <2>2. app' \in AppTypes /\ app'.at = "up"
    BY <2>1, Fields DEF AppTypes, Files
  <2>3. Typed' /\ Missing'
    BY <1>1, <2>1, <2>2 DEF Typed, Missing
  <2>4. ASSUME NEW n \in Helper!Numbers PROVE Fits(n)'
    BY <1>1, <2>1, <2>2 DEF Fits, Works, Ends
  <2> QED
    BY <1>1, <2>1, <2>2, <2>3, <2>4 DEF HelperInv
<1>3. CASE Helper!Replaced
  <2>1. /\ target' = Foreign /\ foreign' = 1
        /\ UNCHANGED <<app, twice, stages, helpers, attempts, failed, crashed>>
        /\ \A n \in Helper!Numbers : helpers[n] \in {"none", "starts", "waits", "gone"}
    BY <1>3 DEF Helper!Replaced
  <2>2. Typed' /\ Missing'
    BY <1>1, <2>1, Fields DEF Typed, Missing, Distinct, Files, Programs
  <2>3. ASSUME NEW n \in Helper!Numbers PROVE Fits(n)'
    BY <1>1, <2>1 DEF Fits, Works, Ends
  <2> QED
    BY <1>1, <2>1, <2>2, <2>3 DEF HelperInv
<1>4. CASE Helper!PowerLoss
  <2>1. /\ app' = [app EXCEPT !.at = "down", !.parent = None, !.told = FALSE]
        /\ helpers' = [n \in Helper!Numbers |-> IF helpers[n] = "none" THEN "none" ELSE "gone"]
        /\ UNCHANGED <<target, twice, stages, attempts, failed, foreign>>
        /\ crashed' \in Nat /\ crashed' > 0
    BY <1>4, Fields DEF Helper!PowerLoss
  <2>2. app' \in AppTypes /\ app'.at = "down"
    BY <2>1, Fields DEF AppTypes
  <2>3. helpers' \in [Helper!Numbers -> Works \cup Ends \cup {"starts", "waits"}]
    BY <2>1 DEF Ends
  <2>4. Typed' /\ Missing'
    BY <1>1, <2>1, <2>2, <2>3 DEF Typed, Missing
  <2>5. ASSUME NEW n \in Helper!Numbers PROVE Fits(n)'
    <3>1. Fits(n) /\ helpers'[n] = IF helpers[n] = "none" THEN "none" ELSE "gone"
      BY <1>1, <2>1
    <3> QED
      BY <2>1, <2>2, <3>1 DEF Fits, Works, Ends
  <2> QED
    BY <1>1, <2>1, <2>2, <2>4, <2>5 DEF HelperInv
<1> QED
  BY <1>2, <1>3, <1>4

LEMMA HelperNext ==
    ASSUME Distinct, HelperInv, Helper!Next \/ UNCHANGED portableVars
    PROVE  HelperInv'
<1>1. CASE UNCHANGED portableVars
  BY <1>1 DEF HelperInv, portableVars, Typed, Missing, Fits
<1>2. ASSUME NEW n \in Helper!Numbers, Helper!HelperStep(n) \/ Helper!Cleans(n) \/ Helper!Reports(n)
      PROVE  HelperInv'
  <2>1. CASE Helper!HelperStep(n) /\ helpers[n] # "done"
    BY <2>1, HelperStepInv
  <2>2. CASE Helper!HelperStep(n) /\ helpers[n] = "done"
    BY <2>2, QuietInv DEF Helper!HelperStep, Helper!Ready, Helper!GoesOn, Helper!WaitEnds,
       Helper!Checks, Helper!Aside, Helper!Place, Helper!Launch, Helper!Back, Helper!Restore,
       Helper!Failed
  <2> QED
    BY <1>2, <2>1, <2>2, QuietInv
<1> QED
  BY <1>1, <1>2, PrepareInv, AppStepInv, WorldInv DEF Helper!Next

LEMMA HelperSafe == HelperInv => Helper!ProgramSafe
<1> SUFFICES ASSUME HelperInv PROVE Helper!ProgramSafe
  OBVIOUS
<1>1. Helper!OriginalKept
  BY DEF HelperInv, Fits, Helper!OriginalKept
<1>2. Helper!ProgramStartable
  BY DEF HelperInv, Typed, Missing, Helper!ProgramStartable
<1>3. Helper!OneProgram /\ Helper!OnlyOriginalMoved
  BY DEF HelperInv, Fits, Helper!OneProgram, Helper!OnlyOriginalMoved
<1> QED
  BY <1>1, <1>2, <1>3 DEF Helper!ProgramSafe

-------------------------------------------------------------------------------
(***************************************************************************)
(* The services beside each other.                                         *)
(***************************************************************************)

\* Each part keeps its own invariant; the others stay as they begin.
PartInv ==
    /\ driven = "stdio" => StdioProofs!IInv
    /\ driven = "update" => UpdateInv
    /\ driven = "helper" => HelperInv

LEMMA PartsKept == Distinct => (Spec => []PartInv)
<1> SUFFICES ASSUME Distinct PROVE Spec => []PartInv
  OBVIOUS
<1>1. StdioProofs!Constants
  BY DEF StdioProofs!Constants, StdioProofs!NoneIsNone, Distinct
<1>2. Init => PartInv
  BY <1>1, StdioSame, StdioProofs!InitInv, UpdateInit, HelperInit DEF Init, PartInv
<1>3. PartInv /\ [Next]_vars => PartInv'
  <2> SUFFICES ASSUME PartInv, [Next]_vars PROVE PartInv'
    OBVIOUS
  <2>1. driven' = driven
    BY DEF Next, vars, BridgeAlone, StdioAlone, ApprovalAlone, BackgroundAlone, UpdateAlone,
           HelperAlone, RunsAlone, ExecAlone, ReconnectsAlone
  <2>2. driven = "stdio" => Stdio!Next \/ UNCHANGED stdioVars
    BY DEF Next, vars
  <2>3. driven = "update" => Update!Next \/ UNCHANGED updateVars
    BY DEF Next, vars
  <2>4. driven = "helper" => Helper!Next \/ UNCHANGED portableVars
    BY DEF Next, vars
  <2>5. UNCHANGED stdioVars => UNCHANGED StdioProofs!vars
    BY DEF stdioVars, StdioProofs!vars
  <2>6. driven = "stdio" => StdioProofs!IInv'
    BY <1>1, <2>2, <2>5, StdioSame, StdioProofs!NextInv DEF PartInv
  <2>7. driven = "update" => UpdateInv'
    BY <2>3, UpdateNext DEF PartInv
  <2>8. driven = "helper" => HelperInv'
    BY <2>4, HelperNext DEF PartInv
  <2> QED
    BY <2>1, <2>6, <2>7, <2>8 DEF PartInv
<1> QED
  BY <1>2, <1>3, PTL DEF Spec

\* Of the lines of an outside client that wait for an answer no two have the same id, and no
\* line is answered twice, whatever the number of lines, ids and workers.
THEOREM AnswersAreUnambiguous == Distinct => (Spec => []AnswersUnambiguous)
<1> SUFFICES ASSUME Distinct PROVE Spec => []AnswersUnambiguous
  OBVIOUS
<1>1. PartInv => AnswersUnambiguous
  BY StdioSame, StdioProofs!Sufficient
     DEF PartInv, AnswersUnambiguous, StdioProofs!Constants, StdioProofs!NoneIsNone, Distinct
<1> QED
  BY <1>1, PartsKept, PTL

\* A check offers the release of the channel its status names, the package that is shown is the
\* one that would be installed, and a portable update leaves the user one program: it can be
\* started, is not started twice, and nobody else's file is moved away.  For any number of
\* windows, changes of the channel, attempts, faults and losses of power.
THEOREM UpdatesStayTrue == Distinct => (Spec => []UpdatesAreTrue)
<1> SUFFICES ASSUME Distinct PROVE Spec => []UpdatesAreTrue
  OBVIOUS
<1>1. PartInv => UpdatesAreTrue
  BY HelperSafe DEF PartInv, UpdatesAreTrue, UpdateInv
<1> QED
  BY <1>1, PartsKept, PTL

-------------------------------------------------------------------------------
(***************************************************************************)
(* Background commands.                                                    *)
(***************************************************************************)
BackgroundConstants ==
    /\ IsFiniteSet(Commands) /\ None \notin Commands
    /\ TabLimit \in Nat /\ OutputCap \in Nat /\ MaxChunks \in Nat

Unstopped == {c \in Commands : phase[c] = "running" /\ c \notin stop}

\* What runs untold is listed, and what the registry may prune does not run.
Listed ==
    /\ Unstopped \subseteq registry
    /\ \A c \in expired : phase[c] \in {"closing", "finished"}
    /\ \A c \in Commands : result[c] # None => phase[c] \in {"leaving", "closing", "finished"}

\* A request that acts on a command has one, and told it to stop before it drops it.
Requested ==
    /\ \A r \in Readers : reader[r].at # "idle" => reader[r].cmd \in Commands
    /\ \A s \in Stoppers : /\ stopper[s].at # "idle" => stopper[s].cmd \in Commands
                           /\ stopper[s].at \in {"signal", "waiting", "remove"} =>
                                stopper[s].cmd \in stop

Limited == Cardinality(Unstopped) <= TabLimit

BackgroundInv == Background!TypeOK /\ Listed /\ Requested /\ Limited

LEMMA BackgroundInit == BackgroundConstants /\ Background!Init => BackgroundInv
<1> SUFFICES ASSUME BackgroundConstants, Background!Init PROVE BackgroundInv
  OBVIOUS
<1> USE DEF Background!Init
<1>1. Background!TypeOK
  <2>1. 0 \in 0..MaxChunks /\ 0 \in 0..OutputCap
    BY DEF BackgroundConstants
  <2>2. reader \in [Readers -> [at : {"idle", "armed", "looked", "waiting"},
                                cmd : Commands \cup {None}, offset : 0..OutputCap,
                                woken : BOOLEAN]]
    BY <2>1
  <2>3. stopper \in [Stoppers -> [at : {"idle", "cancel", "signal", "waiting", "remove", "done"},
                                 cmd : Commands \cup {None}, close : BOOLEAN,
                                 woken : BOOLEAN]]
    OBVIOUS
  <2>4. result \in [Commands -> Background!Results] /\ phase \in [Commands -> Background!Phases]
    BY DEF Background!Phases, Background!Results
  <2> QED
    BY <2>1, <2>2, <2>3, <2>4 DEF Background!TypeOK
<1>2. Unstopped = {}
  BY DEF Unstopped
<1>3. Listed /\ Requested
  BY <1>2 DEF Listed, Requested
<1>4. Limited
  BY <1>2, FS_EmptySet DEF Limited, BackgroundConstants
<1> QED
  BY <1>1, <1>3, <1>4 DEF BackgroundInv

\* The component's Cardinality is the one of the library's theorems.
LEMMA SameCardinality == \A S : Background!Cardinality(S) = Cardinality(S)
BY Zenon DEF Background!Cardinality, Cardinality

LEMMA FewerLimited ==
    ASSUME BackgroundConstants, Limited, Unstopped' \subseteq Unstopped
    PROVE  Limited'
<1>1. IsFiniteSet(Unstopped)
  BY FS_Subset DEF Unstopped, BackgroundConstants
<1>2. Cardinality(Unstopped') <= Cardinality(Unstopped)
  BY <1>1, FS_Subset
<1>3. Cardinality(Unstopped) \in Nat /\ Cardinality(Unstopped') \in Nat
  BY <1>1, FS_Subset, FS_CardinalityType
<1> QED
  BY <1>2, <1>3 DEF Limited, BackgroundConstants

\* Steps of the commands.
LEMMA CommandStepInv ==
    ASSUME BackgroundConstants, BackgroundInv, NEW c \in Commands,
           \/ Background!EnsureCapacity(c) \/ Background!Register(c) \/ Background!AppendOutput(c)
           \/ Background!TakeExit(c) \/ Background!TaskStep(c) \/ Background!Expire(c)
    PROVE  BackgroundInv'
<1> USE DEF BackgroundInv, Background!TypeOK, Background!mapVars
<1>n. ASSUME Background!NotifyWaiters(c)
      PROVE  /\ reader' \in [Readers -> [at : {"idle", "armed", "looked", "waiting"},
                                         cmd : Commands \cup {None}, offset : 0..OutputCap,
                                         woken : BOOLEAN]]
             /\ stopper' \in [Stoppers -> [at : {"idle", "cancel", "signal", "waiting", "remove", "done"},
                                           cmd : Commands \cup {None}, close : BOOLEAN,
                                           woken : BOOLEAN]]
             /\ \A r \in Readers : reader'[r].at = reader[r].at /\ reader'[r].cmd = reader[r].cmd
             /\ \A s \in Stoppers : stopper'[s].at = stopper[s].at /\ stopper'[s].cmd = stopper[s].cmd
  <2> USE <1>n DEF Background!NotifyWaiters
  <2>1. \A r \in Readers :
           /\ reader'[r] \in [at : {"idle", "armed", "looked", "waiting"},
                              cmd : Commands \cup {None}, offset : 0..OutputCap, woken : BOOLEAN]
           /\ reader'[r].at = reader[r].at /\ reader'[r].cmd = reader[r].cmd
    OBVIOUS
  <2>2. \A s \in Stoppers :
           /\ stopper'[s] \in [at : {"idle", "cancel", "signal", "waiting", "remove", "done"},
                               cmd : Commands \cup {None}, close : BOOLEAN, woken : BOOLEAN]
           /\ stopper'[s].at = stopper[s].at /\ stopper'[s].cmd = stopper[s].cmd
    OBVIOUS
  <2>3. reader' = [r \in Readers |-> reader'[r]] /\ stopper' = [s \in Stoppers |-> stopper'[s]]
    OBVIOUS
  <2> QED
    BY <2>1, <2>2, <2>3
<1>1. CASE Background!EnsureCapacity(c)
  <2>1. Background!TypeOK'
    BY <1>1 DEF Background!EnsureCapacity, Background!Pruned, Background!Phases
  <2>2. Unstopped' = Unstopped
    BY <1>1 DEF Background!EnsureCapacity, Unstopped
  <2>3. Unstopped \cap expired = {}
    BY DEF Unstopped, Listed
  <2>4. Listed'
    BY <1>1, <2>2, <2>3 DEF Background!EnsureCapacity, Listed, Background!Pruned
  <2>5. Requested'
    BY <1>1 DEF Background!EnsureCapacity, Requested
  <2> QED
    BY <2>1, <2>2, <2>4, <2>5, FewerLimited
<1>2. CASE Background!Register(c)
  <2>1. Background!TypeOK'
    BY <1>2 DEF Background!Register, Background!Pruned, Background!Phases
  <2>2. Unstopped \cap expired = {}
    BY DEF Unstopped, Listed
  <2>3. Requested'
    BY <1>2 DEF Background!Register, Requested
  <2>4. CASE Background!HasCapacity
    <3>1. Unstopped' \subseteq Unstopped \cup {c}
      BY <1>2 DEF Background!Register, Unstopped
    <3>2. Listed'
      BY <1>2, <2>2, <2>4, <3>1 DEF Background!Register, Listed, Background!Pruned
    <3> DEFINE R == {x \in Background!Pruned : Background!Running(x)}
    <3>3. R \subseteq Commands /\ IsFiniteSet(R)
      BY FS_Subset DEF BackgroundConstants, Background!Pruned
    <3>4. Unstopped \subseteq R
      BY <2>2 DEF Listed, Unstopped, Background!Pruned, Background!Running
    <3>5. Unstopped' \subseteq R \cup {c}
      BY <3>1, <3>4
    <3>6. /\ IsFiniteSet(R \cup {c}) /\ Cardinality(R) \in Nat
          /\ Cardinality(R \cup {c}) = Cardinality(R)
               \/ Cardinality(R \cup {c}) = Cardinality(R) + 1
      BY <3>3, FS_AddElement, FS_CardinalityType
    <3>7. Cardinality(R) < TabLimit
      BY <2>4, SameCardinality DEF Background!HasCapacity
    <3>8. Cardinality(Unstopped') <= Cardinality(R \cup {c}) /\ Cardinality(Unstopped') \in Nat
      BY <3>5, <3>6, FS_Subset, FS_CardinalityType
    <3>9. Limited'
      BY <3>6, <3>7, <3>8 DEF Limited, BackgroundConstants
    <3> QED
      BY <2>1, <2>3, <3>2, <3>9
  <2>5. CASE ~Background!HasCapacity
    <3>1. Unstopped' = Unstopped
      BY <1>2, <2>5 DEF Background!Register, Unstopped
    <3>2. Listed'
      BY <1>2, <2>2, <2>5, <3>1 DEF Background!Register, Listed, Background!Pruned
    <3> QED
      BY <2>1, <2>3, <3>1, <3>2, FewerLimited
  <2> QED
    BY <2>4, <2>5
<1>3. CASE Background!AppendOutput(c)
  <2>1. Background!TypeOK'
    <3>1. chunks' \in [Commands -> 0..MaxChunks]
      BY <1>3 DEF Background!AppendOutput, BackgroundConstants
    <3>2. output' \in [Commands -> 0..OutputCap]
      BY <1>3 DEF Background!AppendOutput, BackgroundConstants
    <3> QED
      BY <1>3, <1>n, <3>1, <3>2 DEF Background!AppendOutput
  <2>2. Unstopped' = Unstopped
    BY <1>3 DEF Background!AppendOutput, Unstopped
  <2>3. Listed' /\ Requested'
    BY <1>3, <1>n, <2>2 DEF Background!AppendOutput, Listed, Requested
  <2> QED
    BY <2>1, <2>2, <2>3, FewerLimited
<1>4. CASE Background!TakeExit(c)
  <2>2. Unstopped' = Unstopped
    BY <1>4 DEF Background!TakeExit, Unstopped
  <2>3. Background!TypeOK' /\ Listed' /\ Requested'
    BY <1>4, <2>2 DEF Background!TakeExit, Listed, Requested
  <2> QED
    BY <2>2, <2>3, FewerLimited
<1>5. CASE Background!LeaveLoop(c)
  <2> PICK o \in Background!Outcomes(c) : result' = [result EXCEPT ![c] = o]
    BY <1>5 DEF Background!LeaveLoop
  <2>1. Background!TypeOK'
    BY <1>5 DEF Background!LeaveLoop, Background!Outcomes, Background!Phases, Background!Results
  <2>2. Unstopped' \subseteq Unstopped
    BY <1>5 DEF Background!LeaveLoop, Unstopped
  <2>3. Listed' /\ Requested'
    BY <1>5, <2>2 DEF Background!LeaveLoop, Listed, Requested
  <2> QED
    BY <2>1, <2>2, <2>3, FewerLimited
<1>6. CASE Background!Settle(c)
  <2>1. Background!TypeOK'
    BY <1>6 DEF Background!Settle, Background!Phases
  <2>2. Unstopped' \subseteq Unstopped
    BY <1>6 DEF Background!Settle, Unstopped
  <2>3. Listed' /\ Requested'
    BY <1>6, <2>2 DEF Background!Settle, Listed, Requested
  <2> QED
    BY <2>1, <2>2, <2>3, FewerLimited
<1>7. CASE Background!FinishTask(c)
  <2>1. Background!TypeOK'
    BY <1>7, <1>n DEF Background!FinishTask, Background!Phases
  <2>2. Unstopped' \subseteq Unstopped
    BY <1>7 DEF Background!FinishTask, Unstopped
  <2>3. Listed' /\ Requested'
    BY <1>7, <1>n, <2>2 DEF Background!FinishTask, Listed, Requested
  <2> QED
    BY <2>1, <2>2, <2>3, FewerLimited
<1>8. CASE Background!Expire(c)
  <2>1. Unstopped' = Unstopped
    BY <1>8 DEF Background!Expire, Background!taskVars, Unstopped
  <2>2. Background!TypeOK' /\ Listed' /\ Requested'
    BY <1>8, <2>1 DEF Background!Expire, Background!taskVars, Listed, Requested
  <2> QED
    BY <2>1, <2>2, FewerLimited
<1> QED
  BY <1>1, <1>2, <1>3, <1>4, <1>5, <1>6, <1>7, <1>8 DEF Background!TaskStep

\* Steps of the requests, and the end of the connection.
LEMMA RequestStepInv ==
    ASSUME BackgroundConstants, BackgroundInv,
           \/ \E r \in Readers : \/ Background!BeginRead(r) \/ Background!ReadStep(r)
                                 \/ Background!ReadDeadline(r)
           \/ \E s \in Stoppers : Background!BeginStop(s) \/ Background!StopStep(s)
           \/ Background!EndConnection
    PROVE  BackgroundInv'
<1> USE DEF BackgroundInv, Background!TypeOK, Background!mapVars, Background!taskVars
<1>1. ASSUME NEW r \in Readers,
             \/ Background!BeginRead(r) \/ Background!ReadStep(r) \/ Background!ReadDeadline(r)
      PROVE  BackgroundInv'
  <2>0. UNCHANGED <<phase, exited, chunks, output, result, registry, expired, stop, lifetime,
                    stopper>>
    BY <1>1 DEF Background!BeginRead, Background!ReadStep, Background!ReadDeadline, Background!Look,
                Background!AwaitNews, Background!Wake
  <2>1. /\ reader' \in [Readers -> [at : {"idle", "armed", "looked", "waiting"},
                                    cmd : Commands \cup {None}, offset : 0..OutputCap,
                                    woken : BOOLEAN]]
        /\ \A x \in Readers : reader'[x].at # "idle" => reader'[x].cmd \in Commands
    <3>1. CASE Background!BeginRead(r)
      <4> PICK c \in registry :
              reader' = [reader EXCEPT ![r].at = "armed", ![r].cmd = c, ![r].woken = FALSE]
        BY <3>1 DEF Background!BeginRead
      <4>1. c \in Commands
        OBVIOUS
      <4> DEFINE a == [reader[r] EXCEPT !.at = "armed"]
                 b == [a EXCEPT !.cmd = c]
                 d == [b EXCEPT !.woken = FALSE]
      <4>2. d \in [at : {"idle", "armed", "looked", "waiting"}, cmd : Commands \cup {None},
                   offset : 0..OutputCap, woken : BOOLEAN] /\ d.cmd = c
        <5>1. a \in [at : {"idle", "armed", "looked", "waiting"}, cmd : Commands \cup {None},
                     offset : 0..OutputCap, woken : BOOLEAN] /\ a.cmd = reader[r].cmd
          OBVIOUS
        <5>2. b \in [at : {"idle", "armed", "looked", "waiting"}, cmd : Commands \cup {None},
                     offset : 0..OutputCap, woken : BOOLEAN] /\ b.cmd = c
          BY <4>1, <5>1
        <5> HIDE DEF b
        <5> QED
          BY <5>2
      <4>3. reader'[r] = d /\ \A x \in Readers \ {r} : reader'[x] = reader[x]
        OBVIOUS
      <4> HIDE DEF d
      <4> QED
        BY <4>1, <4>2, <4>3 DEF Requested
    <3>2. CASE Background!Look(r)
      <4>1. reader[r].cmd \in Commands /\ output[reader[r].cmd] \in 0..OutputCap
        BY <3>2 DEF Background!Look, Requested
      <4> DEFINE l == IF Background!Progress(r) THEN "idle" ELSE "looked"
                 a == [reader[r] EXCEPT !.at = l]
                 d == [a EXCEPT !.offset = output[reader[r].cmd]]
      <4>2. d \in [at : {"idle", "armed", "looked", "waiting"}, cmd : Commands \cup {None},
                   offset : 0..OutputCap, woken : BOOLEAN] /\ d.cmd = reader[r].cmd
        <5>1. a \in [at : {"idle", "armed", "looked", "waiting"}, cmd : Commands \cup {None},
                     offset : 0..OutputCap, woken : BOOLEAN] /\ a.cmd = reader[r].cmd
          OBVIOUS
        <5> HIDE DEF a
        <5> QED
          BY <4>1, <5>1
      <4>3. reader'[r] = d /\ \A x \in Readers \ {r} : reader'[x] = reader[x]
        BY <3>2 DEF Background!Look
      <4>4. reader' = [reader EXCEPT ![r] = reader'[r]]
        BY <3>2 DEF Background!Look
      <4> HIDE DEF d
      <4> QED
        BY <4>1, <4>2, <4>3, <4>4 DEF Requested
    <3>3. CASE Background!AwaitNews(r) \/ Background!ReadDeadline(r)
      BY <3>3 DEF Background!AwaitNews, Background!ReadDeadline, Requested
    <3>4. CASE Background!Wake(r)
      <4> DEFINE a == [reader[r] EXCEPT !.at = "armed"]
                 d == [a EXCEPT !.woken = FALSE]
      <4>1. d \in [at : {"idle", "armed", "looked", "waiting"}, cmd : Commands \cup {None},
                   offset : 0..OutputCap, woken : BOOLEAN] /\ d.cmd = reader[r].cmd
        OBVIOUS
      <4>2. reader[r].cmd \in Commands
        BY <3>4 DEF Background!Wake, Requested
      <4>3. reader'[r] = d /\ \A x \in Readers \ {r} : reader'[x] = reader[x]
        BY <3>4 DEF Background!Wake
      <4>4. reader' = [reader EXCEPT ![r] = reader'[r]]
        BY <3>4 DEF Background!Wake
      <4> HIDE DEF d
      <4> QED
        BY <4>1, <4>2, <4>3, <4>4 DEF Requested
    <3> QED
      BY <1>1, <3>1, <3>2, <3>3, <3>4 DEF Background!ReadStep
  <2>2. Unstopped' = Unstopped
    BY <2>0 DEF Unstopped
  <2>3. Listed' /\ Requested'
    BY <2>0, <2>1, <2>2 DEF Listed, Requested
  <2>4. Background!TypeOK'
    BY <2>0, <2>1
  <2> QED
    BY <2>2, <2>3, <2>4, FewerLimited
<1>2. ASSUME NEW s \in Stoppers, Background!BeginStop(s) \/ Background!StopStep(s)
      PROVE  BackgroundInv'
  <2>1. UNCHANGED <<phase, exited, chunks, output, result, expired, lifetime, reader>>
    BY <1>2 DEF Background!BeginStop, Background!StopStep, Background!Cancel, Background!Signal,
                Background!AwaitStop, Background!RemoveEntry
  <2>2. CASE Background!BeginStop(s)
    <3> PICK c \in registry, close \in BOOLEAN :
            stopper' = [stopper EXCEPT ![s] =
                           [at |-> IF Background!Running(c) \/ close THEN "cancel" ELSE "done",
                            cmd |-> c, close |-> close, woken |-> FALSE]]
      BY <2>2 DEF Background!BeginStop
    <3>1. registry' = registry /\ stop' = stop
      BY <2>2 DEF Background!BeginStop
    <3>2. c \in Commands
      OBVIOUS
    <3>3. Background!TypeOK'
      BY <2>1, <3>1, <3>2
    <3>4. Unstopped' = Unstopped
      BY <2>1, <3>1 DEF Unstopped
    <3>5. Listed' /\ Requested'
      BY <2>1, <3>1, <3>2, <3>4 DEF Listed, Requested
    <3> QED
      BY <3>3, <3>4, <3>5, FewerLimited
  <2>3. CASE Background!Cancel(s)
    <3>1. stopper[s].cmd \in Commands
      BY <2>3 DEF Background!Cancel, Requested
    <3>2. Background!TypeOK'
      <4>1. registry' = registry /\ stop' = stop \cup {stopper[s].cmd}
        BY <2>3 DEF Background!Cancel
      <4>2. stopper' = [stopper EXCEPT ![s].at = "signal"]
        BY <2>3 DEF Background!Cancel, Background!StopTo
      <4> QED
        BY <2>1, <3>1, <4>1, <4>2
    <3>3. Unstopped' \subseteq Unstopped
      BY <2>1, <2>3 DEF Background!Cancel, Unstopped
    <3>4. Listed' /\ Requested'
      BY <2>1, <2>3, <3>1, <3>3 DEF Background!Cancel, Background!StopTo, Listed, Requested
    <3> QED
      BY <3>2, <3>3, <3>4, FewerLimited
  <2>4. CASE Background!Signal(s) \/ Background!AwaitStop(s)
    <3>1. registry' = registry /\ stop' = stop
      BY <2>4 DEF Background!Signal, Background!AwaitStop
    <3>2. Background!TypeOK'
      <4>1. \E l \in {"waiting", "remove"} : stopper' = [stopper EXCEPT ![s].at = l]
        BY <2>4 DEF Background!Signal, Background!AwaitStop, Background!StopTo
      <4> QED
        BY <2>1, <3>1, <4>1
    <3>3. Unstopped' = Unstopped
      BY <2>1, <3>1 DEF Unstopped
    <3>4. stopper[s].at \in {"signal", "waiting"}
          /\ \E l \in {"waiting", "remove"} : stopper' = [stopper EXCEPT ![s].at = l]
      BY <2>4 DEF Background!Signal, Background!AwaitStop, Background!StopTo
    <3>5. Listed'
      BY <2>1, <3>1, <3>3 DEF Listed
    <3>6. Requested'
      BY <2>1, <3>1, <3>4 DEF Requested
    <3> QED
      BY <3>2, <3>3, <3>5, <3>6, FewerLimited
  <2>5. CASE Background!RemoveEntry(s)
    <3>1. stop' = stop /\ stopper[s].cmd \in stop
      BY <2>5 DEF Background!RemoveEntry, Requested
    <3>2. Background!TypeOK'
      <4>1. registry' \subseteq registry
        BY <2>5 DEF Background!RemoveEntry
      <4>2. stopper' = [stopper EXCEPT ![s].at = "done"]
        BY <2>5 DEF Background!RemoveEntry, Background!StopTo
      <4> QED
        BY <2>1, <3>1, <4>1, <4>2
    <3>3. Unstopped' = Unstopped
      BY <2>1, <3>1 DEF Unstopped
    <3>4. Unstopped' \subseteq registry'
      BY <2>5, <3>1, <3>3 DEF Background!RemoveEntry, Listed, Unstopped
    <3>5. Listed' /\ Requested'
      BY <2>1, <2>5, <3>1, <3>4 DEF Background!RemoveEntry, Background!StopTo, Listed, Requested
    <3> QED
      BY <3>2, <3>3, <3>5, FewerLimited
  <2> QED
    BY <1>2, <2>2, <2>3, <2>4, <2>5 DEF Background!StopStep
<1>3. CASE Background!EndConnection
  <2>1. Unstopped' = Unstopped
    BY <1>3 DEF Background!EndConnection, Unstopped
  <2>2. Background!TypeOK' /\ Listed' /\ Requested'
    BY <1>3, <2>1 DEF Background!EndConnection, Listed, Requested
  <2> QED
    BY <2>1, <2>2, FewerLimited
<1> QED
  BY <1>1, <1>2, <1>3

LEMMA BackgroundNext ==
    ASSUME BackgroundConstants, BackgroundInv, Background!Next \/ UNCHANGED backgroundVars
    PROVE  BackgroundInv'
<1>1. CASE Background!Next
  BY <1>1, CommandStepInv, RequestStepInv DEF Background!Next
<1>2. CASE UNCHANGED backgroundVars
  BY <1>2 DEF backgroundVars, BackgroundInv, Background!TypeOK, Listed, Requested, Limited, Unstopped
<1> QED
  BY <1>1, <1>2

\* No step of a command or a request drops what runs untold or changes what was said last.
LEMMA BackgroundTracks ==
    ASSUME BackgroundInv, Background!Next
    PROVE  /\ \A c \in registry \ registry' : ~Background!Running(c) \/ c \in stop
           /\ \A c \in Commands : (result[c] # None /\ ~(phase[c] = "leaving")) =>
                output'[c] = output[c] /\ result'[c] = result[c]
<1> USE DEF BackgroundInv, Background!TypeOK, Background!taskVars, Background!mapVars
<1>1. \A c \in registry \ registry' : ~Background!Running(c) \/ c \in stop
  <2>1. \A c \in registry \ Background!Pruned : ~Background!Running(c)
    BY DEF Background!Pruned, Background!Running, Listed
  <2>2. \A c \in Commands : Background!EnsureCapacity(c) \/ Background!Register(c) =>
            Background!Pruned \subseteq registry'
    BY DEF Background!EnsureCapacity, Background!Register
  <2>3. \A s \in Stoppers : Background!RemoveEntry(s) =>
            \A c \in registry \ registry' : c \in stop
    BY DEF Background!RemoveEntry, Requested
  <2>4. \/ registry' = registry
        \/ \E c \in Commands : Background!EnsureCapacity(c) \/ Background!Register(c)
        \/ \E s \in Stoppers : Background!RemoveEntry(s)
    BY DEF Background!Next, Background!TaskStep, Background!ReadStep, Background!StopStep,
           Background!AppendOutput, Background!TakeExit, Background!LeaveLoop, Background!Settle,
           Background!FinishTask, Background!Expire, Background!BeginRead, Background!Look,
           Background!AwaitNews, Background!Wake, Background!ReadDeadline, Background!BeginStop,
           Background!Cancel, Background!Signal, Background!AwaitStop, Background!EndConnection
  <2> QED
    BY <2>1, <2>2, <2>3, <2>4
<1>2. ASSUME NEW c \in Commands, result[c] # None, phase[c] # "leaving"
      PROVE  output'[c] = output[c] /\ result'[c] = result[c]
  <2>1. phase[c] # "running"
    BY <1>2 DEF Listed
  <2>2. \A x \in Commands : Background!AppendOutput(x) \/ Background!LeaveLoop(x) => x # c
    BY <2>1 DEF Background!AppendOutput, Background!LeaveLoop
  <2>3. \A x \in Commands \ {c} : Background!AppendOutput(x) \/ Background!LeaveLoop(x) =>
            output'[c] = output[c] /\ result'[c] = result[c]
    BY DEF Background!AppendOutput, Background!LeaveLoop
  <2>4. \/ UNCHANGED <<output, result>>
        \/ \E x \in Commands : Background!AppendOutput(x) \/ Background!LeaveLoop(x)
    BY DEF Background!Next, Background!TaskStep, Background!ReadStep, Background!StopStep,
           Background!EnsureCapacity, Background!Register, Background!TakeExit, Background!Settle,
           Background!FinishTask, Background!Expire, Background!BeginRead, Background!Look,
           Background!AwaitNews, Background!Wake, Background!ReadDeadline, Background!BeginStop,
           Background!Cancel, Background!Signal, Background!AwaitStop, Background!RemoveEntry,
           Background!EndConnection
  <2> QED
    BY <2>2, <2>3, <2>4
<1> QED
  BY <1>1, <1>2

BackgroundPart == driven = "background" => BackgroundInv

LEMMA BackgroundPartNext ==
    ASSUME BackgroundConstants, BackgroundPart, [Next]_vars
    PROVE  /\ BackgroundPart' /\ driven' = driven
           /\ driven = "background" => Background!Next \/ UNCHANGED backgroundVars
           /\ driven # "background" => UNCHANGED backgroundVars
<1> USE DEF Next, vars, BridgeAlone, StdioAlone, ApprovalAlone, BackgroundAlone, UpdateAlone,
            HelperAlone, RunsAlone, ExecAlone, ReconnectsAlone
<1>1. driven' = driven
  OBVIOUS
<1>2. driven = "background" => Background!Next \/ UNCHANGED backgroundVars
  OBVIOUS
<1>3. driven # "background" => UNCHANGED backgroundVars
  OBVIOUS
<1> QED
  BY <1>1, <1>2, <1>3, BackgroundNext DEF BackgroundPart

\* The background commands of a tab that nobody told to stop stay within the limit, the
\* registry never drops one of them, and neither the output nor the result of a command
\* changes once its result can be read.  For any number of commands, readers and requests to
\* stop, and any limits.
THEOREM CommandsStayTracked == BackgroundConstants => (Spec => CommandsTracked)
<1> SUFFICES ASSUME BackgroundConstants PROVE Spec => CommandsTracked
  OBVIOUS
<1>1. Init => BackgroundPart
  BY BackgroundInit DEF Init, BackgroundPart
<1>2. BackgroundPart /\ [Next]_vars => BackgroundPart'
  BY BackgroundPartNext
<1>3. BackgroundPart => (driven = "background" => Background!ActiveBounded)
  BY SameCardinality DEF BackgroundPart, BackgroundInv, Limited, Unstopped, Background!ActiveBounded
<1>u. ASSUME UNCHANGED backgroundVars PROVE UNCHANGED Background!vars
  BY <1>u DEF backgroundVars, Background!vars
<1>4. BackgroundPart /\ [Next]_vars =>
        [\A c \in registry \ registry' : ~Background!Running(c) \/ c \in stop]_(Background!vars)
  <2> SUFFICES ASSUME BackgroundPart, [Next]_vars, ~(UNCHANGED Background!vars)
               PROVE  \A c \in registry \ registry' : ~Background!Running(c) \/ c \in stop
    OBVIOUS
  <2>1. BackgroundInv /\ Background!Next
    BY <1>u, BackgroundPartNext DEF BackgroundPart
  <2> QED
    BY <2>1, BackgroundTracks
<1>5. BackgroundPart /\ [Next]_vars =>
        [\A c \in Commands : (result[c] # None /\ ~(phase[c] = "leaving")) =>
             output'[c] = output[c] /\ result'[c] = result[c]]_(Background!vars)
  <2> SUFFICES ASSUME BackgroundPart, [Next]_vars, ~(UNCHANGED Background!vars)
               PROVE  \A c \in Commands : (result[c] # None /\ ~(phase[c] = "leaving")) =>
                         output'[c] = output[c] /\ result'[c] = result[c]
    OBVIOUS
  <2>1. BackgroundInv /\ Background!Next
    BY <1>u, BackgroundPartNext DEF BackgroundPart
  <2> QED
    BY <2>1, BackgroundTracks
<1> QED
  BY <1>1, <1>2, <1>3, <1>4, <1>5, PTL
     DEF Spec, CommandsTracked, Background!CommandsTracked, Background!NeverForgotten,
         Background!FinishedIsFinal
-------------------------------------------------------------------------------
(***************************************************************************)
(* Approvals.                                                              *)
(***************************************************************************)

\* A call is the Copilot's or an outside client's; "none" is no answer.
ApprovalConstants ==
    /\ Copilot \cap External = {} /\ MaxRevision \in Nat /\ MaxMode \in Nat
    /\ None \notin Approval!Decisions \cup Approval!Results \cup {"value", "refused"}

\* A question is open only while nobody answered it, and an answer is one of the
\* user's or of a handoff; a call that has not begun has none.
Asked(c) ==
    /\ action[c].at = "idle" => /\ c \notin approvals /\ reply[c] = None /\ ran[c] = <<>>
                                /\ action[c].decision = None
    /\ action[c].result = None <=> action[c].at # "done"
    /\ c \in approvals => reply[c] = None
    /\ reply[c] # "TimedOut"
    /\ c \notin Copilot => /\ reply[c] # "DelegatedToTerminal"
                           /\ action[c].at \notin {"timer", "expire", "receive"}

\* A call that was declined, with the decision v, and whose text the terminal showed.
Observed(c, v) ==
    /\ c \in Copilot \cap appeared
    /\ v \in {"Rejected", "Dismissed", "TimedOut"} /\ (v = "TimedOut" \/ v = reply[c])

\* A decision is the answer, or that none came in time; and a result follows it.
Followed(c) ==
    /\ action[c].at \in {"clean", "decided"} \/ action[c].result \in Approval!NotStarted
         => /\ action[c].decision # None
            /\ action[c].decision = "TimedOut" \/ action[c].decision = reply[c]
    /\ action[c].result \in Approval!NotStarted => action[c].decision # "DelegatedToTerminal"
    /\ action[c].at \in {"bind", "prompt", "check", "send"} \/ action[c].result = "executed"
         => reply[c] = "Approved"
    /\ action[c].at \in {"bind", "prompt", "check", "send"} => action[c].decision = "Approved"
    /\ action[c].at = "watch" \/ action[c].result = "inTerminal"
         => reply[c] = "DelegatedToTerminal" \/ Observed(c, action[c].decision)

\* What was started, and by whom: a handoff, whose answer says so or is about to,
\* or the call itself, which is over.
InTerminal(c) ==
    /\ c \in Copilot /\ (handoff[c] = "report" \/ reply[c] = "DelegatedToTerminal")
    /\ Len(ran[c]) = 1 /\ ran[c][1].via = "terminal"
    /\ ran[c][1].session = action[c].session
Executed(c) ==
    action[c].result = "executed" /\ Len(ran[c]) = 1 /\ ran[c][1].via = "exec"
StartedBy(c) ==
    /\ ran[c] = <<>> \/ InTerminal(c) \/ Executed(c)
    /\ reply[c] = "DelegatedToTerminal" => ran[c] # <<>>

\* A call of the Copilot: the timer and the handoff take turns, and only who took
\* the question from the list goes on.
Handed(c) ==
    /\ handoff[c] \in {"claim", "check", "send", "report"} <=> gate[c] = "handoff"
    /\ action[c].at = "expire" <=> gate[c] = "timer"
    /\ handoff[c] # "none" => action[c].at # "idle"
    /\ handoff[c] \in {"check", "send", "report"} => c \notin approvals /\ reply[c] = None
    /\ handoff[c] = "report" => ran[c] # <<>>
    /\ action[c].decision = "TimedOut"
         => /\ c \notin approvals /\ reply[c] = None
            /\ handoff[c] \notin {"check", "send", "report"}
    /\ action[c].at \in {"decided", "watch", "bind", "prompt", "check", "send", "done"}
         => c \notin approvals

\* While the revision is the one of the approval, so is the session.
BoundTo(c) ==
    action[c].at # "idle" =>
        /\ action[c].bound <= tab.revision
        /\ action[c].bound = tab.revision
             => tab.session = action[c].session /\ (tab.connected \/ tab.behind)

\* A password is asked for while the call waits for it, and once.
Prompted(c) ==
    /\ c \in prompt => action[c].at = "prompt" /\ password[c] = None
    /\ password[c] # None => action[c].at \in {"prompt", "check", "send", "done"}

CallInv(c) ==
    /\ Asked(c) /\ Followed(c) /\ StartedBy(c) /\ Prompted(c)
    /\ c \in Copilot => Handed(c) /\ BoundTo(c)

Places == {"idle", "wait", "timer", "expire", "receive", "clean", "decided", "watch",
           "bind", "prompt", "check", "send", "done"}
CallStates ==
    [at : Places, session : 0..MaxRevision, bound : 0..MaxRevision, mode : 0..MaxMode,
     decision : Approval!Decisions \cup {None}, result : Approval!Results \cup {None}]
Starts == [via : {"terminal", "exec"}, session : 0..MaxRevision]

\* A disconnection that was noted moved the revision, a reconnection moves the session.
ApprovalTypes ==
    /\ tab \in [connected : BOOLEAN, session : 0..MaxRevision, revision : 0..MaxRevision,
                behind : BOOLEAN]
    /\ tab.session <= tab.revision
    /\ ~tab.connected /\ ~tab.behind => tab.session < tab.revision
    /\ mode \in 0..MaxMode
    /\ action \in [Approval!Calls -> CallStates]
    /\ reply \in [Approval!Calls -> Approval!Decisions \cup {None}]
    /\ gate \in [Copilot -> {"free", "timer", "handoff"}]
    /\ handoff \in [Copilot -> {"none", "lock", "claim", "check", "send", "report"}]
    /\ password \in [Approval!Calls -> {"value", "refused", None}]
    /\ appeared \subseteq Copilot
    /\ ran \in [Approval!Calls -> Seq(Starts)]

ApprovalInv == ApprovalTypes /\ \A c \in Approval!Calls : CallInv(c)

LEMMA ApprovalInit == ApprovalConstants /\ Approval!Init => ApprovalInv
<1> SUFFICES ASSUME ApprovalConstants, Approval!Init PROVE ApprovalInv
  OBVIOUS
<1> USE DEF Approval!Init
<1>1. 0 \in 0..MaxRevision /\ 0 \in 0..MaxMode
  BY DEF ApprovalConstants
<1>2. ApprovalTypes
  <2>1. action \in [Approval!Calls -> CallStates]
    BY <1>1 DEF CallStates, Places
  <2>2. ran \in [Approval!Calls -> Seq(Starts)]
    OBVIOUS
  <2> QED
    BY <1>1, <2>1, <2>2 DEF ApprovalTypes
<1>3. ASSUME NEW c \in Approval!Calls PROVE CallInv(c)
  <2>1. Asked(c) /\ Followed(c) /\ StartedBy(c) /\ Prompted(c)
    BY DEF Asked, Followed, Observed, StartedBy, Prompted, ApprovalConstants, Approval!NotStarted,
           Approval!Decisions, Approval!Results
  <2>2. c \in Copilot => Handed(c) /\ BoundTo(c)
    BY DEF Handed, BoundTo, ApprovalConstants, Approval!Decisions
  <2> QED
    BY <2>1, <2>2 DEF CallInv
<1> QED
  BY <1>2, <1>3 DEF ApprovalInv

\* A step moves one call; another one, of a tab that stays as it is, keeps its own.
Same(d) ==
    /\ action'[d] = action[d] /\ (d \in approvals' <=> d \in approvals)
    /\ reply'[d] = reply[d] /\ (d \in prompt' <=> d \in prompt)
    /\ password'[d] = password[d] /\ ran'[d] = ran[d]
    /\ d \in appeared => d \in appeared'
    /\ d \in Copilot => gate'[d] = gate[d] /\ handoff'[d] = handoff[d]

LEMMA SameKept ==
    ASSUME NEW d \in Approval!Calls, CallInv(d), Same(d), tab' = tab
    PROVE  CallInv(d)'
BY DEF CallInv, Same, Asked, Followed, Observed, StartedBy, InTerminal, Executed, Prompted, Handed, BoundTo

LEMMA OneMoves ==
    ASSUME ApprovalInv, NEW c \in Approval!Calls, tab' = tab,
           \A d \in Approval!Calls \ {c} : Same(d), ApprovalTypes', CallInv(c)'
    PROVE  ApprovalInv'
<1>1. \A d \in Approval!Calls \ {c} : CallInv(d)'
  BY SameKept DEF ApprovalInv
<1> QED
  BY <1>1 DEF ApprovalInv

\* What the updates of a call's record leave alone.
Becomes(c, l, s, b, m, v, r) ==
    /\ action' \in [Approval!Calls -> CallStates]
    /\ \A d \in Approval!Calls \ {c} : action'[d] = action[d]
    /\ action'[c].at = l /\ action'[c].session = s /\ action'[c].bound = b
    /\ action'[c].mode = m /\ action'[c].decision = v /\ action'[c].result = r

\* The record of one call is replaced by another.
LEMMA Replaced ==
    ASSUME ApprovalTypes, NEW c \in Approval!Calls, NEW r \in CallStates,
           action' = [action EXCEPT ![c] = r]
    PROVE  Becomes(c, r.at, r.session, r.bound, r.mode, r.decision, r.result)
<1>1. action \in [Approval!Calls -> CallStates]
  BY DEF ApprovalTypes
<1>2. action' \in [Approval!Calls -> CallStates] /\ action'[c] = r
  BY <1>1
<1>3. \A d \in Approval!Calls \ {c} : action'[d] = action[d]
  BY <1>1
<1> QED
  BY <1>2, <1>3 DEF Becomes

LEMMA GotoFields ==
    ASSUME ApprovalTypes, NEW c \in Approval!Calls, NEW l \in Places, Approval!Goto(c, l)
    PROVE  Becomes(c, l, action[c].session, action[c].bound, action[c].mode,
                  action[c].decision, action[c].result)
<1> DEFINE r1 == [action[c] EXCEPT !.at = l]
<1>0. action[c] \in CallStates
  BY DEF ApprovalTypes
<1>1. r1 \in CallStates
  BY <1>0 DEF CallStates
<1>2. action' = [action EXCEPT ![c] = r1]
  BY DEF Approval!Goto
<1>3. /\ r1.at = l /\ r1.session = action[c].session /\ r1.bound = action[c].bound
      /\ r1.mode = action[c].mode /\ r1.decision = action[c].decision
      /\ r1.result = action[c].result
  BY <1>0 DEF CallStates
<1> HIDE DEF r1
<1> QED
  BY <1>1, <1>2, <1>3, Replaced

LEMMA EndFields ==
    ASSUME ApprovalTypes, NEW c \in Approval!Calls, NEW r \in Approval!Results,
           Approval!End(c, r)
    PROVE  Becomes(c, "done", action[c].session, action[c].bound, action[c].mode,
                  action[c].decision, r)
<1> DEFINE r1 == [action[c] EXCEPT !.at = "done"]
           r2 == [r1 EXCEPT !.result = r]
<1>0. action[c] \in CallStates
  BY DEF ApprovalTypes
<1>1. r1 \in CallStates /\ r2 \in CallStates
  BY <1>0 DEF CallStates, Places, ApprovalTypes
<1>2. action' = [action EXCEPT ![c] = r2]
  BY <1>0 DEF ApprovalTypes, Approval!End, CallStates
<1>3. /\ r2.at = "done" /\ r2.session = action[c].session /\ r2.bound = action[c].bound
      /\ r2.mode = action[c].mode /\ r2.decision = action[c].decision /\ r2.result = r
  BY <1>0 DEF CallStates
<1> HIDE DEF r2
<1> QED
  BY <1>1, <1>2, <1>3, Replaced

LEMMA DecideFields ==
    ASSUME ApprovalTypes, NEW c \in Approval!Calls, NEW l \in Places,
           NEW v \in Approval!Decisions \cup {None},
           action' = [action EXCEPT ![c].at = l, ![c].decision = v]
    PROVE  Becomes(c, l, action[c].session, action[c].bound, action[c].mode, v,
                  action[c].result)
<1> DEFINE r1 == [action[c] EXCEPT !.at = l]
           r2 == [r1 EXCEPT !.decision = v]
<1>0. action[c] \in CallStates
  BY DEF ApprovalTypes
<1>1. r1 \in CallStates /\ r2 \in CallStates
  BY <1>0 DEF CallStates, Places, ApprovalTypes
<1>2. action' = [action EXCEPT ![c] = r2]
  BY <1>0 DEF ApprovalTypes, CallStates
<1>3. /\ r2.at = l /\ r2.session = action[c].session /\ r2.bound = action[c].bound
      /\ r2.mode = action[c].mode /\ r2.decision = v /\ r2.result = action[c].result
  BY <1>0 DEF CallStates
<1> HIDE DEF r2
<1> QED
  BY <1>1, <1>2, <1>3, Replaced

LEMMA AskFields ==
    ASSUME ApprovalTypes, NEW c \in Approval!Calls, Approval!Ask(c)
    PROVE  Becomes(c, "wait", tab.session, tab.revision, mode, action[c].decision,
                  action[c].result)
<1> DEFINE r1 == [action[c] EXCEPT !.at = "wait"]
           r2 == [r1 EXCEPT !.session = tab.session]
           r3 == [r2 EXCEPT !.bound = tab.revision]
           r4 == [r3 EXCEPT !.mode = mode]
<1>0. action[c] \in CallStates
  BY DEF ApprovalTypes
<1>1. r1 \in CallStates /\ r2 \in CallStates /\ r3 \in CallStates /\ r4 \in CallStates
  BY <1>0 DEF CallStates, Places, ApprovalTypes
<1>2. action' = [action EXCEPT ![c] = r4]
  BY <1>0 DEF ApprovalTypes, CallStates, Approval!Ask
<1>3. /\ r4.at = "wait" /\ r4.session = tab.session /\ r4.bound = tab.revision
      /\ r4.mode = mode /\ r4.decision = action[c].decision /\ r4.result = action[c].result
  BY <1>0 DEF CallStates
<1> HIDE DEF r4
<1> QED
  BY <1>1, <1>2, <1>3, Replaced

LEMMA BindFields ==
    ASSUME ApprovalTypes, NEW c \in Approval!Calls, NEW l \in Places, NEW b \in 0..MaxRevision,
           action' = [action EXCEPT ![c].bound = b, ![c].at = l]
    PROVE  Becomes(c, l, action[c].session, b, action[c].mode, action[c].decision,
                  action[c].result)
<1> DEFINE r1 == [action[c] EXCEPT !.bound = b]
           r2 == [r1 EXCEPT !.at = l]
<1>0. action[c] \in CallStates
  BY DEF ApprovalTypes
<1>1. r1 \in CallStates /\ r2 \in CallStates
  BY <1>0 DEF CallStates, Places, ApprovalTypes
<1>2. action' = [action EXCEPT ![c] = r2]
  BY <1>0 DEF ApprovalTypes, CallStates
<1>3. /\ r2.at = l /\ r2.session = action[c].session /\ r2.bound = b
      /\ r2.mode = action[c].mode /\ r2.decision = action[c].decision
      /\ r2.result = action[c].result
  BY <1>0 DEF CallStates
<1> HIDE DEF r2
<1> QED
  BY <1>1, <1>2, <1>3, Replaced

\* A step of a call that begins and answers nothing: it goes to l, with the decision v
\* and the result r, and may take its question from the list or free the gate.
Proceeds(c, l, b, v, r) ==
    /\ Becomes(c, l, action[c].session, b, action[c].mode, v, r)
    /\ action[c].at \notin {"idle", "done"} /\ l # "idle"
    /\ b = action[c].bound \/ c \notin Copilot
    /\ r = None <=> l # "done"
    /\ r # "executed"
    /\ c \notin Copilot => l \notin {"timer", "expire", "receive"}
    /\ l \in {"clean", "decided"} \/ r \in Approval!NotStarted
         => v # None /\ (v = "TimedOut" \/ v = reply[c])
    /\ r \in Approval!NotStarted => v # "DelegatedToTerminal"
    /\ l \in {"bind", "prompt", "check", "send"} => reply[c] = "Approved" /\ v = "Approved"
    /\ l = "watch" \/ r = "inTerminal" => reply[c] = "DelegatedToTerminal" \/ Observed(c, v)
    /\ UNCHANGED <<tab, mode, reply, handoff, password, appeared, ran>>

Leaves(c, l, v) ==
    /\ approvals' \subseteq approvals /\ approvals \ {c} \subseteq approvals'
    /\ gate' \in [Copilot -> {"free", "timer", "handoff"}]
    /\ \A d \in Copilot \ {c} : gate'[d] = gate[d]
    /\ c \in Copilot =>
         /\ gate'[c] = "timer" <=> l = "expire"
         /\ gate'[c] = "handoff" <=> gate[c] = "handoff"
         /\ v = "TimedOut" => /\ c \notin approvals' /\ reply[c] = None
                              /\ handoff[c] \notin {"check", "send", "report"}
         /\ l \in {"decided", "watch", "bind", "prompt", "check", "send", "done"}
              => c \notin approvals'
    /\ \A d \in Approval!Calls \ {c} : d \in prompt' <=> d \in prompt
    /\ c \in prompt' => l = "prompt" /\ password[c] = None
    /\ password[c] # None => l \in {"prompt", "check", "send", "done"}

LEMMA ProceedsInv ==
    ASSUME ApprovalConstants, ApprovalInv, NEW c \in Approval!Calls, NEW l, NEW b, NEW v, NEW r,
           Proceeds(c, l, b, v, r), Leaves(c, l, v)
    PROVE  ApprovalInv'
<1> CallInv(c)
  BY DEF ApprovalInv
<1>1. ApprovalTypes'
  BY DEF ApprovalInv, ApprovalTypes, Proceeds, Leaves, Becomes
<1>2. ASSUME NEW d \in Approval!Calls \ {c} PROVE Same(d)
  BY DEF Same, Proceeds, Leaves, Becomes
<1>f. /\ action'[c].at = l /\ action'[c].session = action[c].session /\ action'[c].bound = b
      /\ action'[c].decision = v /\ action'[c].result = r
      /\ reply' = reply /\ handoff' = handoff /\ password' = password /\ ran' = ran
      /\ tab' = tab /\ appeared' = appeared
  BY DEF Proceeds, Becomes
<1>3. Asked(c)'
  BY <1>f DEF CallInv, Asked, Proceeds, Leaves
<1>4. Followed(c)'
  BY <1>f DEF CallInv, Followed, Observed, Proceeds
<1>5. StartedBy(c)'
  <2>1. action[c].result # "executed"
    BY DEF CallInv, Asked, Proceeds, ApprovalConstants, Approval!Results
  <2> QED
    BY <1>f, <2>1 DEF CallInv, StartedBy, InTerminal, Executed
<1>6. Prompted(c)'
  BY <1>f DEF Prompted, Leaves
<1>7. c \in Copilot => Handed(c)'
  BY <1>f DEF CallInv, Handed, Proceeds, Leaves
<1>8. c \in Copilot => BoundTo(c)'
  BY <1>f DEF CallInv, BoundTo, Proceeds
<1> QED
  BY <1>1, <1>2, <1>3, <1>4, <1>5, <1>6, <1>7, <1>8, <1>f, OneMoves DEF CallInv

LEMMA AnsweredInv ==
    ASSUME ApprovalConstants, ApprovalInv, NEW c \in Approval!Calls, Approval!Answered(c)
    PROVE  ApprovalInv'
<1> ApprovalTypes /\ CallInv(c)
  BY DEF ApprovalInv
<1> USE DEF Approval!At, Approval!Answered
<1>1. Becomes(c, "clean", action[c].session, action[c].bound, action[c].mode, reply[c],
          action[c].result)
  <2>1. reply[c] \in Approval!Decisions \cup {None} /\ "clean" \in Places
    BY DEF ApprovalTypes, Places
  <2>2. action' = [action EXCEPT ![c].at = "clean", ![c].decision = reply[c]]
    OBVIOUS
  <2> QED
    BY <2>1, <2>2, DecideFields
<1>2. Proceeds(c, "clean", action[c].bound, reply[c], action[c].result)
  BY <1>1 DEF Proceeds, Asked, Followed, Observed, Handed, Prompted, CallInv, ApprovalConstants,
     Approval!Decisions, Approval!Results, Approval!NotStarted
<1>3. Leaves(c, "clean", reply[c])
  BY DEF Leaves, ApprovalTypes, Asked, Followed, Observed, Handed, Prompted, CallInv, ApprovalConstants,
     Approval!Decisions, Approval!Results, Approval!NotStarted
<1> QED
  BY <1>2, <1>3, ProceedsInv

LEMMA TimerLocksInv ==
    ASSUME ApprovalConstants, ApprovalInv, NEW c \in Approval!Calls, Approval!TimerLocks(c)
    PROVE  ApprovalInv'
<1> ApprovalTypes /\ CallInv(c)
  BY DEF ApprovalInv
<1> USE DEF Approval!At, Approval!TimerLocks
<1>1. Becomes(c, "expire", action[c].session, action[c].bound, action[c].mode,
          action[c].decision, action[c].result)
  BY GotoFields DEF Places
<1>2. Proceeds(c, "expire", action[c].bound, action[c].decision, action[c].result)
  BY <1>1 DEF Proceeds, Asked, Followed, Observed, Handed, Prompted, CallInv, ApprovalConstants,
     Approval!Decisions, Approval!Results, Approval!NotStarted
<1>3. Leaves(c, "expire", action[c].decision)
  BY DEF Leaves, ApprovalTypes, Asked, Followed, Observed, Handed, Prompted, CallInv, ApprovalConstants,
     Approval!Decisions, Approval!Results, Approval!NotStarted
<1> QED
  BY <1>2, <1>3, ProceedsInv

LEMMA CleanInv ==
    ASSUME ApprovalConstants, ApprovalInv, NEW c \in Approval!Calls, Approval!Clean(c)
    PROVE  ApprovalInv'
<1> ApprovalTypes /\ CallInv(c)
  BY DEF ApprovalInv
<1> USE DEF Approval!At, Approval!Clean
<1>1. Becomes(c, "decided", action[c].session, action[c].bound, action[c].mode,
          action[c].decision, action[c].result)
  BY GotoFields DEF Places
<1>2. Proceeds(c, "decided", action[c].bound, action[c].decision, action[c].result)
  BY <1>1 DEF Proceeds, Asked, Followed, Observed, Handed, Prompted, CallInv, ApprovalConstants,
     Approval!Decisions, Approval!Results, Approval!NotStarted
<1>3. Leaves(c, "decided", action[c].decision)
  BY DEF Leaves, ApprovalTypes, Asked, Followed, Observed, Handed, Prompted, CallInv, ApprovalConstants,
     Approval!Decisions, Approval!Results, Approval!NotStarted
<1> QED
  BY <1>2, <1>3, ProceedsInv

LEMMA StopAskingInv ==
    ASSUME ApprovalConstants, ApprovalInv, NEW c \in Approval!Calls, Approval!StopAsking(c)
    PROVE  ApprovalInv'
<1> ApprovalTypes /\ CallInv(c)
  BY DEF ApprovalInv
<1> USE DEF Approval!At, Approval!StopAsking
<1>1. Becomes(c, "done", action[c].session, action[c].bound, action[c].mode,
          action[c].decision, "cancelled")
  BY EndFields DEF Approval!Results
<1>2. Proceeds(c, "done", action[c].bound, action[c].decision, "cancelled")
  BY <1>1 DEF Proceeds, Asked, Followed, Observed, Handed, Prompted, CallInv, ApprovalConstants,
     Approval!Decisions, Approval!Results, Approval!NotStarted
<1>3. Leaves(c, "done", action[c].decision)
  BY DEF Leaves, ApprovalTypes, Asked, Followed, Observed, Handed, Prompted, CallInv, ApprovalConstants,
     Approval!Decisions, Approval!Results, Approval!NotStarted
<1> QED
  BY <1>2, <1>3, ProceedsInv

LEMMA AbandonInv ==
    ASSUME ApprovalConstants, ApprovalInv, NEW c \in Approval!Calls, Approval!Abandon(c)
    PROVE  ApprovalInv'
<1> ApprovalTypes /\ CallInv(c)
  BY DEF ApprovalInv
<1> USE DEF Approval!At, Approval!Abandon
<1>1. Becomes(c, "done", action[c].session, action[c].bound, action[c].mode,
          action[c].decision, "cancelled")
  BY EndFields DEF Approval!Results
<1>2. Proceeds(c, "done", action[c].bound, action[c].decision, "cancelled")
  BY <1>1 DEF Proceeds, Asked, Followed, Observed, Handed, Prompted, CallInv, ApprovalConstants,
     Approval!Decisions, Approval!Results, Approval!NotStarted
<1>3. Leaves(c, "done", action[c].decision)
  BY DEF Leaves, ApprovalTypes, Asked, Followed, Observed, Handed, Prompted, CallInv, ApprovalConstants,
     Approval!Decisions, Approval!Results, Approval!NotStarted
<1> QED
  BY <1>2, <1>3, ProceedsInv

LEMMA TimerInv ==
    ASSUME ApprovalConstants, ApprovalInv, NEW c \in Approval!Calls, Approval!Timer(c)
    PROVE  ApprovalInv'
<1> ApprovalTypes /\ CallInv(c)
  BY DEF ApprovalInv
<1> USE DEF Approval!At, Approval!Timer
<1>1. CASE c \in Copilot
  <2>1. Becomes(c, "timer", action[c].session, action[c].bound, action[c].mode,
            action[c].decision, action[c].result)
    <3>1. action[c].decision \in Approval!Decisions \cup {None} /\ "timer" \in Places
      BY DEF ApprovalTypes, CallStates, Places, Approval!Decisions
    <3>2. action' = [action EXCEPT ![c].at = "timer", ![c].decision = action[c].decision]
      BY <1>1 DEF ApprovalTypes
    <3> QED
      BY <3>1, <3>2, DecideFields
  <2>2. Proceeds(c, "timer", action[c].bound, action[c].decision, action[c].result)
    BY <1>1, <2>1 DEF Proceeds, Asked, Followed, Observed, Handed, Prompted, CallInv,
       ApprovalConstants,
       Approval!Decisions, Approval!Results, Approval!NotStarted
  <2>3. Leaves(c, "timer", action[c].decision)
    BY <1>1 DEF Leaves, ApprovalTypes, Asked, Followed, Observed, Handed, Prompted, CallInv,
       ApprovalConstants, Approval!Decisions, Approval!Results, Approval!NotStarted
  <2> QED
    BY <2>2, <2>3, ProceedsInv
<1>2. CASE c \notin Copilot
  <2>1. Becomes(c, "clean", action[c].session, action[c].bound, action[c].mode, "TimedOut",
            action[c].result)
    <3>1. "TimedOut" \in Approval!Decisions \cup {None} /\ "clean" \in Places
      BY DEF ApprovalTypes, CallStates, Places, Approval!Decisions
    <3>2. action' = [action EXCEPT ![c].at = "clean", ![c].decision = "TimedOut"]
      BY <1>2 DEF ApprovalTypes
    <3> QED
      BY <3>1, <3>2, DecideFields
  <2>2. Proceeds(c, "clean", action[c].bound, "TimedOut", action[c].result)
    BY <1>2, <2>1 DEF Proceeds, Asked, Followed, Observed, Handed, Prompted, CallInv, ApprovalConstants,
       Approval!Decisions, Approval!Results, Approval!NotStarted
  <2>3. Leaves(c, "clean", "TimedOut")
    BY <1>2 DEF Leaves, ApprovalTypes, Asked, Followed, Observed, Handed, Prompted, CallInv,
       ApprovalConstants, Approval!Decisions, Approval!Results, Approval!NotStarted
  <2> QED
    BY <2>2, <2>3, ProceedsInv
<1> QED
  BY <1>1, <1>2

LEMMA TimerClaimsInv ==
    ASSUME ApprovalConstants, ApprovalInv, NEW c \in Approval!Calls, Approval!TimerClaims(c)
    PROVE  ApprovalInv'
<1> ApprovalTypes /\ CallInv(c)
  BY DEF ApprovalInv
<1> USE DEF Approval!At, Approval!TimerClaims
<1>1. CASE c \in approvals
  <2>1. Becomes(c, "clean", action[c].session, action[c].bound, action[c].mode, "TimedOut",
            action[c].result)
    <3>1. "TimedOut" \in Approval!Decisions \cup {None} /\ "clean" \in Places
      BY DEF ApprovalTypes, CallStates, Places, Approval!Decisions
    <3>2. action' = [action EXCEPT ![c].at = "clean", ![c].decision = "TimedOut"]
      BY <1>1 DEF ApprovalTypes
    <3> QED
      BY <3>1, <3>2, DecideFields
  <2>2. Proceeds(c, "clean", action[c].bound, "TimedOut", action[c].result)
    BY <1>1, <2>1 DEF Proceeds, Asked, Followed, Observed, Handed, Prompted, CallInv,
       ApprovalConstants,
       Approval!Decisions, Approval!Results, Approval!NotStarted
  <2>3. Leaves(c, "clean", "TimedOut")
    BY <1>1 DEF Leaves, ApprovalTypes, Asked, Followed, Observed, Handed, Prompted, CallInv,
       ApprovalConstants, Approval!Decisions, Approval!Results, Approval!NotStarted
  <2> QED
    BY <2>2, <2>3, ProceedsInv
<1>2. CASE c \notin approvals
  <2>1. Becomes(c, "receive", action[c].session, action[c].bound, action[c].mode,
            action[c].decision, action[c].result)
    BY <1>2, GotoFields DEF Approval!Goto, Places
  <2>2. Proceeds(c, "receive", action[c].bound, action[c].decision, action[c].result)
    BY <1>2, <2>1 DEF Proceeds, Asked, Followed, Observed, Handed, Prompted, CallInv, ApprovalConstants,
       Approval!Decisions, Approval!Results, Approval!NotStarted
  <2>3. Leaves(c, "receive", action[c].decision)
    BY <1>2 DEF Leaves, ApprovalTypes, Asked, Followed, Observed, Handed, Prompted, CallInv,
       ApprovalConstants, Approval!Decisions, Approval!Results, Approval!NotStarted
  <2> QED
    BY <2>2, <2>3, ProceedsInv
<1> QED
  BY <1>1, <1>2

LEMMA DecidedInv ==
    ASSUME ApprovalConstants, ApprovalInv, NEW c \in Approval!Calls, Approval!Decided(c)
    PROVE  ApprovalInv'
<1> ApprovalTypes /\ CallInv(c)
  BY DEF ApprovalInv
<1> USE DEF Approval!At, Approval!Decided
<1>1. CASE Approval!End(c, "cancelled")
  <2>1. Becomes(c, "done", action[c].session, action[c].bound, action[c].mode,
            action[c].decision, "cancelled")
    BY <1>1, EndFields DEF Approval!Results, Approval!NotStarted
  <2>2. Proceeds(c, "done", action[c].bound, action[c].decision, "cancelled")
    BY <1>1, <2>1 DEF Proceeds, Asked, Followed, Observed, Handed, Prompted, CallInv,
       ApprovalConstants,
       Approval!Decisions, Approval!Results, Approval!NotStarted
  <2>3. Leaves(c, "done", action[c].decision)
    BY <1>1 DEF Leaves, ApprovalTypes, Asked, Followed, Observed, Handed, Prompted, CallInv,
       ApprovalConstants, Approval!Decisions, Approval!Results, Approval!NotStarted
  <2> QED
    BY <2>2, <2>3, ProceedsInv
<1>2. CASE Approval!Goto(c, "watch") /\ action[c].decision = "DelegatedToTerminal"
  <2>1. Becomes(c, "watch", action[c].session, action[c].bound, action[c].mode,
            action[c].decision, action[c].result)
    BY <1>2, GotoFields DEF Places
  <2>2. Proceeds(c, "watch", action[c].bound, action[c].decision, action[c].result)
    BY <1>2, <2>1 DEF Proceeds, Asked, Followed, Observed, Handed, Prompted, CallInv,
       ApprovalConstants, ApprovalTypes, CallStates, Approval!Decisions, Approval!Results,
       Approval!NotStarted
  <2>3. Leaves(c, "watch", action[c].decision)
    BY <1>2 DEF Leaves, ApprovalTypes, Asked, Followed, Observed, Handed, Prompted, CallInv,
       ApprovalConstants, Approval!Decisions, Approval!Results, Approval!NotStarted
  <2> QED
    BY <2>2, <2>3, ProceedsInv
<1>3. CASE /\ c \in appeared /\ Approval!Goto(c, "watch")
         /\ action[c].decision \notin {"DelegatedToTerminal", "Approved"}
  <2>1. Becomes(c, "watch", action[c].session, action[c].bound, action[c].mode,
            action[c].decision, action[c].result)
    BY <1>3, GotoFields DEF Places
  <2>2. Proceeds(c, "watch", action[c].bound, action[c].decision, action[c].result)
    BY <1>3, <2>1 DEF Proceeds, Asked, Followed, Observed, Handed, Prompted, CallInv,
       ApprovalConstants, ApprovalTypes, CallStates, Approval!Decisions, Approval!Results,
       Approval!NotStarted
  <2>3. Leaves(c, "watch", action[c].decision)
    BY <1>3 DEF Leaves, ApprovalTypes, Asked, Followed, Observed, Handed, Prompted, CallInv,
       ApprovalConstants, Approval!Decisions, Approval!Results, Approval!NotStarted
  <2> QED
    BY <2>2, <2>3, ProceedsInv
<1>4. CASE Approval!End(c, "timedOut") /\ action[c].decision = "TimedOut"
  <2>1. Becomes(c, "done", action[c].session, action[c].bound, action[c].mode,
            action[c].decision, "timedOut")
    BY <1>4, EndFields DEF Approval!Results, Approval!NotStarted
  <2>2. Proceeds(c, "done", action[c].bound, action[c].decision, "timedOut")
    BY <1>4, <2>1 DEF Proceeds, Asked, Followed, Observed, Handed, Prompted, CallInv,
       ApprovalConstants, ApprovalTypes, CallStates, Approval!Decisions, Approval!Results,
       Approval!NotStarted
  <2>3. Leaves(c, "done", action[c].decision)
    BY <1>4 DEF Leaves, ApprovalTypes, Asked, Followed, Observed, Handed, Prompted, CallInv,
       ApprovalConstants, Approval!Decisions, Approval!Results, Approval!NotStarted
  <2> QED
    BY <2>2, <2>3, ProceedsInv
<1>5. CASE Approval!End(c, "rejected") /\ action[c].decision # "DelegatedToTerminal"
  <2>1. Becomes(c, "done", action[c].session, action[c].bound, action[c].mode,
            action[c].decision, "rejected")
    BY <1>5, EndFields DEF Approval!Results, Approval!NotStarted
  <2>2. Proceeds(c, "done", action[c].bound, action[c].decision, "rejected")
    BY <1>5, <2>1 DEF Proceeds, Asked, Followed, Observed, Handed, Prompted, CallInv,
       ApprovalConstants, ApprovalTypes, CallStates, Approval!Decisions, Approval!Results,
       Approval!NotStarted
  <2>3. Leaves(c, "done", action[c].decision)
    BY <1>5 DEF Leaves, ApprovalTypes, Asked, Followed, Observed, Handed, Prompted, CallInv,
       ApprovalConstants, Approval!Decisions, Approval!Results, Approval!NotStarted
  <2> QED
    BY <2>2, <2>3, ProceedsInv
<1>6. CASE Approval!End(c, "modeChanged") /\ action[c].decision = "Approved"
  <2>1. Becomes(c, "done", action[c].session, action[c].bound, action[c].mode,
            action[c].decision, "modeChanged")
    BY <1>6, EndFields DEF Approval!Results, Approval!NotStarted
  <2>2. Proceeds(c, "done", action[c].bound, action[c].decision, "modeChanged")
    BY <1>6, <2>1 DEF Proceeds, Asked, Followed, Observed, Handed, Prompted, CallInv, ApprovalConstants,
       Approval!Decisions, Approval!Results, Approval!NotStarted
  <2>3. Leaves(c, "done", action[c].decision)
    BY <1>6 DEF Leaves, ApprovalTypes, Asked, Followed, Observed, Handed, Prompted, CallInv,
       ApprovalConstants, Approval!Decisions, Approval!Results, Approval!NotStarted
  <2> QED
    BY <2>2, <2>3, ProceedsInv
<1>7. CASE Approval!End(c, "targetChanged") /\ action[c].decision = "Approved"
  <2>1. Becomes(c, "done", action[c].session, action[c].bound, action[c].mode,
            action[c].decision, "targetChanged")
    BY <1>7, EndFields DEF Approval!Results, Approval!NotStarted
  <2>2. Proceeds(c, "done", action[c].bound, action[c].decision, "targetChanged")
    BY <1>7, <2>1 DEF Proceeds, Asked, Followed, Observed, Handed, Prompted, CallInv, ApprovalConstants,
       Approval!Decisions, Approval!Results, Approval!NotStarted
  <2>3. Leaves(c, "done", action[c].decision)
    BY <1>7 DEF Leaves, ApprovalTypes, Asked, Followed, Observed, Handed, Prompted, CallInv,
       ApprovalConstants, Approval!Decisions, Approval!Results, Approval!NotStarted
  <2> QED
    BY <2>2, <2>3, ProceedsInv
<1>8. CASE Approval!Goto(c, "bind") /\ action[c].decision = "Approved"
  <2>1. Becomes(c, "bind", action[c].session, action[c].bound, action[c].mode,
            action[c].decision, action[c].result)
    BY <1>8, GotoFields DEF Places
  <2>2. Proceeds(c, "bind", action[c].bound, action[c].decision, action[c].result)
    BY <1>8, <2>1 DEF Proceeds, Asked, Followed, Observed, Handed, Prompted, CallInv, ApprovalConstants,
       Approval!Decisions, Approval!Results, Approval!NotStarted
  <2>3. Leaves(c, "bind", action[c].decision)
    BY <1>8 DEF Leaves, ApprovalTypes, Asked, Followed, Observed, Handed, Prompted, CallInv,
       ApprovalConstants, Approval!Decisions, Approval!Results, Approval!NotStarted
  <2> QED
    BY <2>2, <2>3, ProceedsInv
<1> QED
  BY <1>1, <1>2, <1>3, <1>4, <1>5, <1>6, <1>7, <1>8 DEF Approval!Declined

LEMMA WatchedInv ==
    ASSUME ApprovalConstants, ApprovalInv, NEW c \in Approval!Calls, Approval!Watched(c)
    PROVE  ApprovalInv'
<1> ApprovalTypes /\ CallInv(c)
  BY DEF ApprovalInv
<1> USE DEF Approval!At, Approval!Watched
<1>1. CASE Approval!End(c, "cancelled")
  <2>1. Becomes(c, "done", action[c].session, action[c].bound, action[c].mode,
            action[c].decision, "cancelled")
    BY <1>1, EndFields DEF Approval!Results, Approval!NotStarted
  <2>2. Proceeds(c, "done", action[c].bound, action[c].decision, "cancelled")
    BY <1>1, <2>1 DEF Proceeds, Asked, Followed, Observed, Handed, Prompted, CallInv,
       ApprovalConstants, ApprovalTypes, CallStates, Approval!Decisions, Approval!Results,
       Approval!NotStarted
  <2>3. Leaves(c, "done", action[c].decision)
    BY <1>1 DEF Leaves, ApprovalTypes, Asked, Followed, Observed, Handed, Prompted, CallInv,
       ApprovalConstants, Approval!Decisions, Approval!Results, Approval!NotStarted
  <2> QED
    BY <2>2, <2>3, ProceedsInv
<1>2. CASE Approval!End(c, "inTerminal")
  <2>1. Becomes(c, "done", action[c].session, action[c].bound, action[c].mode,
            action[c].decision, "inTerminal")
    BY <1>2, EndFields DEF Approval!Results, Approval!NotStarted
  <2>2. Proceeds(c, "done", action[c].bound, action[c].decision, "inTerminal")
    BY <1>2, <2>1 DEF Proceeds, Asked, Followed, Observed, Handed, Prompted, CallInv,
       ApprovalConstants, ApprovalTypes, CallStates, Approval!Decisions, Approval!Results,
       Approval!NotStarted
  <2>3. Leaves(c, "done", action[c].decision)
    BY <1>2 DEF Leaves, ApprovalTypes, Asked, Followed, Observed, Handed, Prompted, CallInv,
       ApprovalConstants, Approval!Decisions, Approval!Results, Approval!NotStarted
  <2> QED
    BY <2>2, <2>3, ProceedsInv
<1> QED
  BY <1>1, <1>2

LEMMA PromptReturnsInv ==
    ASSUME ApprovalConstants, ApprovalInv, NEW c \in Approval!Calls, Approval!PromptReturns(c)
    PROVE  ApprovalInv'
<1> ApprovalTypes /\ CallInv(c)
  BY DEF ApprovalInv
<1> USE DEF Approval!At, Approval!PromptReturns
<1>1. CASE Approval!End(c, "cancelled")
  <2>1. Becomes(c, "done", action[c].session, action[c].bound, action[c].mode,
            action[c].decision, "cancelled")
    BY <1>1, EndFields DEF Approval!Results, Approval!NotStarted
  <2>2. Proceeds(c, "done", action[c].bound, action[c].decision, "cancelled")
    BY <1>1, <2>1 DEF Proceeds, Asked, Followed, Observed, Handed, Prompted, CallInv,
       ApprovalConstants,
       Approval!Decisions, Approval!Results, Approval!NotStarted
  <2>3. Leaves(c, "done", action[c].decision)
    BY <1>1 DEF Leaves, ApprovalTypes, Asked, Followed, Observed, Handed, Prompted, CallInv,
       ApprovalConstants, Approval!Decisions, Approval!Results, Approval!NotStarted
  <2> QED
    BY <2>2, <2>3, ProceedsInv
<1>2. CASE Approval!End(c, "rejected")
  <2>1. Becomes(c, "done", action[c].session, action[c].bound, action[c].mode,
            action[c].decision, "rejected")
    BY <1>2, EndFields DEF Approval!Results, Approval!NotStarted
  <2>2. Proceeds(c, "done", action[c].bound, action[c].decision, "rejected")
    BY <1>2, <2>1 DEF Proceeds, Asked, Followed, Observed, Handed, Prompted, CallInv, ApprovalConstants,
       Approval!Decisions, Approval!Results, Approval!NotStarted
  <2>3. Leaves(c, "done", action[c].decision)
    BY <1>2 DEF Leaves, ApprovalTypes, Asked, Followed, Observed, Handed, Prompted, CallInv,
       ApprovalConstants, Approval!Decisions, Approval!Results, Approval!NotStarted
  <2> QED
    BY <2>2, <2>3, ProceedsInv
<1>3. CASE Approval!End(c, "targetChanged")
  <2>1. Becomes(c, "done", action[c].session, action[c].bound, action[c].mode,
            action[c].decision, "targetChanged")
    BY <1>3, EndFields DEF Approval!Results, Approval!NotStarted
  <2>2. Proceeds(c, "done", action[c].bound, action[c].decision, "targetChanged")
    BY <1>3, <2>1 DEF Proceeds, Asked, Followed, Observed, Handed, Prompted, CallInv, ApprovalConstants,
       Approval!Decisions, Approval!Results, Approval!NotStarted
  <2>3. Leaves(c, "done", action[c].decision)
    BY <1>3 DEF Leaves, ApprovalTypes, Asked, Followed, Observed, Handed, Prompted, CallInv,
       ApprovalConstants, Approval!Decisions, Approval!Results, Approval!NotStarted
  <2> QED
    BY <2>2, <2>3, ProceedsInv
<1>4. CASE Approval!Goto(c, "check") /\ password[c] # None
  <2>1. Becomes(c, "check", action[c].session, action[c].bound, action[c].mode,
            action[c].decision, action[c].result)
    BY <1>4, GotoFields DEF Places
  <2>2. Proceeds(c, "check", action[c].bound, action[c].decision, action[c].result)
    BY <1>4, <2>1 DEF Proceeds, Asked, Followed, Observed, Handed, Prompted, CallInv, ApprovalConstants,
       Approval!Decisions, Approval!Results, Approval!NotStarted
  <2>3. Leaves(c, "check", action[c].decision)
    BY <1>4 DEF Leaves, ApprovalTypes, Asked, Followed, Observed, Handed, Prompted, CallInv,
       ApprovalConstants, Approval!Decisions, Approval!Results, Approval!NotStarted
  <2> QED
    BY <2>2, <2>3, ProceedsInv
<1> QED
  BY <1>1, <1>2, <1>3, <1>4

LEMMA PromptGivenUpInv ==
    ASSUME ApprovalConstants, ApprovalInv, NEW c \in Approval!Calls, Approval!PromptGivenUp(c)
    PROVE  ApprovalInv'
<1> ApprovalTypes /\ CallInv(c)
  BY DEF ApprovalInv
<1> USE DEF Approval!At, Approval!PromptGivenUp
<1>1. CASE Approval!End(c, "cancelled")
  <2>1. Becomes(c, "done", action[c].session, action[c].bound, action[c].mode,
            action[c].decision, "cancelled")
    BY <1>1, EndFields DEF Approval!Results, Approval!NotStarted
  <2>2. Proceeds(c, "done", action[c].bound, action[c].decision, "cancelled")
    BY <1>1, <2>1 DEF Proceeds, Asked, Followed, Observed, Handed, Prompted, CallInv,
       ApprovalConstants,
       Approval!Decisions, Approval!Results, Approval!NotStarted
  <2>3. Leaves(c, "done", action[c].decision)
    BY <1>1 DEF Leaves, ApprovalTypes, Asked, Followed, Observed, Handed, Prompted, CallInv,
       ApprovalConstants, Approval!Decisions, Approval!Results, Approval!NotStarted
  <2> QED
    BY <2>2, <2>3, ProceedsInv
<1>2. CASE Approval!End(c, "rejected")
  <2>1. Becomes(c, "done", action[c].session, action[c].bound, action[c].mode,
            action[c].decision, "rejected")
    BY <1>2, EndFields DEF Approval!Results, Approval!NotStarted
  <2>2. Proceeds(c, "done", action[c].bound, action[c].decision, "rejected")
    BY <1>2, <2>1 DEF Proceeds, Asked, Followed, Observed, Handed, Prompted, CallInv, ApprovalConstants,
       Approval!Decisions, Approval!Results, Approval!NotStarted
  <2>3. Leaves(c, "done", action[c].decision)
    BY <1>2 DEF Leaves, ApprovalTypes, Asked, Followed, Observed, Handed, Prompted, CallInv,
       ApprovalConstants, Approval!Decisions, Approval!Results, Approval!NotStarted
  <2> QED
    BY <2>2, <2>3, ProceedsInv
<1> QED
  BY <1>1, <1>2

LEMMA FinalCheckInv ==
    ASSUME ApprovalConstants, ApprovalInv, NEW c \in Approval!Calls, Approval!FinalCheck(c)
    PROVE  ApprovalInv'
<1> ApprovalTypes /\ CallInv(c)
  BY DEF ApprovalInv
<1> USE DEF Approval!At, Approval!FinalCheck
<1>1. CASE Approval!End(c, "targetChanged")
  <2>1. Becomes(c, "done", action[c].session, action[c].bound, action[c].mode,
            action[c].decision, "targetChanged")
    BY <1>1, EndFields DEF Approval!Results, Approval!NotStarted
  <2>2. Proceeds(c, "done", action[c].bound, action[c].decision, "targetChanged")
    BY <1>1, <2>1 DEF Proceeds, Asked, Followed, Observed, Handed, Prompted, CallInv,
       ApprovalConstants,
       Approval!Decisions, Approval!Results, Approval!NotStarted
  <2>3. Leaves(c, "done", action[c].decision)
    BY <1>1 DEF Leaves, ApprovalTypes, Asked, Followed, Observed, Handed, Prompted, CallInv,
       ApprovalConstants, Approval!Decisions, Approval!Results, Approval!NotStarted
  <2> QED
    BY <2>2, <2>3, ProceedsInv
<1>2. CASE Approval!Goto(c, "send")
  <2>1. Becomes(c, "send", action[c].session, action[c].bound, action[c].mode,
            action[c].decision, action[c].result)
    BY <1>2, GotoFields DEF Places
  <2>2. Proceeds(c, "send", action[c].bound, action[c].decision, action[c].result)
    BY <1>2, <2>1 DEF Proceeds, Asked, Followed, Observed, Handed, Prompted, CallInv, ApprovalConstants,
       Approval!Decisions, Approval!Results, Approval!NotStarted
  <2>3. Leaves(c, "send", action[c].decision)
    BY <1>2 DEF Leaves, ApprovalTypes, Asked, Followed, Observed, Handed, Prompted, CallInv,
       ApprovalConstants, Approval!Decisions, Approval!Results, Approval!NotStarted
  <2> QED
    BY <2>2, <2>3, ProceedsInv
<1> QED
  BY <1>1, <1>2

LEMMA BindInv ==
    ASSUME ApprovalConstants, ApprovalInv, NEW c \in Approval!Calls, NEW renderer \in BOOLEAN,
           Approval!Bind(c, renderer)
    PROVE  ApprovalInv'
<1> ApprovalTypes /\ CallInv(c)
  BY DEF ApprovalInv
<1> DEFINE bound == IF c \in Copilot THEN action[c].bound ELSE tab.revision
           l == IF c \in Privileged THEN "prompt" ELSE "check"
<1>1. /\ action[c].at = "bind"
      /\ \/ \E r \in {"cancelled", "targetChanged", "failed"} : Approval!End(c, r)
         \/ action' = [action EXCEPT ![c].bound = bound, ![c].at = l]
      /\ prompt' = IF action'[c].at = "prompt" THEN prompt \cup {c} ELSE prompt
      /\ UNCHANGED <<tab, mode, revoked, approvals, reply, gate, handoff, password, appeared, ran>>
  BY DEF Approval!Bind, Approval!At, Approval!End
<1>2. ASSUME NEW r \in {"cancelled", "targetChanged", "failed"}, Approval!End(c, r)
      PROVE  ApprovalInv'
  <2>1. Becomes(c, "done", action[c].session, action[c].bound, action[c].mode,
                action[c].decision, r)
    BY <1>2, EndFields DEF Approval!Results, Approval!NotStarted
  <2>2. prompt' = prompt
    BY <1>1, <2>1 DEF Becomes
  <2>3. Proceeds(c, "done", action[c].bound, action[c].decision, r)
    BY <1>1, <1>2, <2>1 DEF Proceeds, Asked, Followed, Observed, CallInv, ApprovalConstants,
       Approval!Decisions, Approval!Results, Approval!NotStarted
  <2>4. Leaves(c, "done", action[c].decision)
    BY <1>1, <2>2 DEF Leaves, ApprovalTypes, Asked, Followed, Observed, Handed, Prompted, CallInv,
       ApprovalConstants, Approval!Decisions
  <2> QED
    BY <2>3, <2>4, ProceedsInv
<1>3. CASE action' = [action EXCEPT ![c].bound = bound, ![c].at = l]
  <2>0. bound \in 0..MaxRevision /\ l \in Places /\ (l = "prompt" \/ l = "check")
    BY DEF ApprovalTypes, CallStates, Places
  <2> HIDE DEF l
  <2>1. Becomes(c, l, action[c].session, bound, action[c].mode, action[c].decision,
                action[c].result)
    BY <1>3, <2>0, BindFields
  <2>2. prompt' = IF l = "prompt" THEN prompt \cup {c} ELSE prompt
    BY <1>1, <2>1 DEF Becomes
  <2>3. Proceeds(c, l, bound, action[c].decision, action[c].result)
    BY <1>1, <2>0, <2>1 DEF Proceeds, Asked, Followed, Observed, CallInv, ApprovalConstants,
       Approval!Decisions, Approval!Results, Approval!NotStarted
  <2>4. Leaves(c, l, action[c].decision)
    BY <1>1, <2>0, <2>2 DEF Leaves, ApprovalTypes, Asked, Followed, Observed, Handed, Prompted, CallInv,
       ApprovalConstants, Approval!Decisions
  <2> QED
    BY <2>3, <2>4, ProceedsInv
<1> QED
  BY <1>1, <1>2, <1>3

\* A command is put behind the ones a call started.
LEMMA RecordOne ==
    ASSUME ApprovalTypes, NEW c \in Approval!Calls, NEW via \in {"terminal", "exec"},
           ran[c] = <<>>, Approval!Record(c, via)
    PROVE  /\ ran' \in [Approval!Calls -> Seq(Starts)]
           /\ \A d \in Approval!Calls \ {c} : ran'[d] = ran[d]
           /\ Len(ran'[c]) = 1 /\ ran'[c][1].via = via /\ ran'[c][1].session = tab.session
           /\ ran'[c] # <<>>
<1> DEFINE s == [via |-> via, session |-> tab.session]
<1>1. s \in Starts /\ s.via = via /\ s.session = tab.session
  BY DEF ApprovalTypes, Starts
<1>2. ran \in [Approval!Calls -> Seq(Starts)]
  BY DEF ApprovalTypes
<1>3. ran' = [ran EXCEPT ![c] = Append(ran[c], s)]
  BY <1>2 DEF Approval!Record
<1> HIDE DEF s
<1>4. /\ Append(ran[c], s) \in Seq(Starts) /\ Len(Append(ran[c], s)) = 1
      /\ Append(ran[c], s)[1] = s
  BY <1>1, <1>2
<1> QED
  BY <1>1, <1>2, <1>3, <1>4

LEMMA SendInv ==
    ASSUME ApprovalConstants, ApprovalInv, NEW c \in Approval!Calls, Approval!Send(c)
    PROVE  ApprovalInv'
<1> ApprovalTypes /\ CallInv(c)
  BY DEF ApprovalInv
<1> USE DEF Approval!Send, Approval!At
<1>1. ASSUME NEW r \in {"cancelled", "failed"}, Approval!End(c, r), UNCHANGED ran
      PROVE  ApprovalInv'
  <2>1. Becomes(c, "done", action[c].session, action[c].bound, action[c].mode,
                action[c].decision, r)
    BY <1>1, EndFields DEF Approval!Results, Approval!NotStarted
  <2>2. Proceeds(c, "done", action[c].bound, action[c].decision, r)
    BY <1>1, <2>1 DEF Proceeds, Asked, Followed, Observed, CallInv, ApprovalConstants,
       Approval!Decisions, Approval!Results, Approval!NotStarted
  <2>3. Leaves(c, "done", action[c].decision)
    BY DEF Leaves, ApprovalTypes, Asked, Followed, Observed, Handed, Prompted, CallInv,
       ApprovalConstants, Approval!Decisions
  <2> QED
    BY <2>2, <2>3, ProceedsInv
<1>2. ASSUME Approval!Record(c, "exec"), Approval!End(c, "executed")
      PROVE  ApprovalInv'
  <2>1. Becomes(c, "done", action[c].session, action[c].bound, action[c].mode,
                action[c].decision, "executed")
    BY <1>2, EndFields DEF Approval!Results
  <2>2. reply[c] = "Approved" /\ action[c].result = None /\ action[c].decision = "Approved"
    BY DEF CallInv, Asked, Followed, Observed
  <2>3. ran[c] = <<>>
    BY <2>2 DEF CallInv, StartedBy, InTerminal, Executed, Handed, ApprovalConstants,
       Approval!Results, Approval!Decisions
  <2>4. /\ ran' \in [Approval!Calls -> Seq(Starts)]
        /\ \A d \in Approval!Calls \ {c} : ran'[d] = ran[d]
        /\ Len(ran'[c]) = 1 /\ ran'[c][1].via = "exec"
    BY <1>2, <2>3, RecordOne
  <2>5. ApprovalTypes'
    BY <2>1, <2>4 DEF ApprovalTypes, Becomes
  <2>6. \A d \in Approval!Calls \ {c} : Same(d)
    BY <2>1, <2>4 DEF Same, Becomes
  <2>f. /\ action'[c].at = "done" /\ action'[c].session = action[c].session
        /\ action'[c].bound = action[c].bound /\ action'[c].decision = "Approved"
        /\ action'[c].result = "executed" /\ tab' = tab
        /\ UNCHANGED <<approvals, reply, gate, handoff, prompt, password, appeared>>
    BY <2>1, <2>2 DEF Becomes
  <2>7. Asked(c)' /\ Followed(c)' /\ Prompted(c)'
    BY <2>2, <2>f DEF CallInv, Asked, Followed, Observed, Prompted, ApprovalConstants, Approval!Results,
       Approval!NotStarted, Approval!Decisions
  <2>8. StartedBy(c)'
    BY <2>2, <2>4, <2>f DEF StartedBy, Executed
  <2>9. c \in Copilot => Handed(c)' /\ BoundTo(c)'
    BY <2>2, <2>f DEF CallInv, Handed, BoundTo, ApprovalConstants, Approval!Decisions
  <2> QED
    BY <2>5, <2>6, <2>7, <2>8, <2>9, <2>f, OneMoves DEF CallInv
<1> QED
  BY <1>1, <1>2

LEMMA AskInv ==
    ASSUME ApprovalConstants, ApprovalInv, NEW c \in Approval!Calls, Approval!Ask(c)
    PROVE  ApprovalInv'
<1> ApprovalTypes /\ CallInv(c)
  BY DEF ApprovalInv
<1>1. Becomes(c, "wait", tab.session, tab.revision, mode, action[c].decision, action[c].result)
  BY AskFields
<1>2. ApprovalTypes'
  BY <1>1 DEF ApprovalTypes, Becomes, Approval!Ask
<1>3. \A d \in Approval!Calls \ {c} : Same(d)
  BY <1>1 DEF Same, Becomes, Approval!Ask
<1>f. /\ action[c].at = "idle" /\ action'[c].at = "wait" /\ action'[c].session = tab.session
      /\ action'[c].bound = tab.revision /\ action'[c].decision = action[c].decision
      /\ action'[c].result = action[c].result /\ approvals' = approvals \cup {c}
      /\ tab' = tab /\ tab.connected /\ UNCHANGED <<reply, gate, handoff, prompt, password, appeared, ran>>
  BY <1>1 DEF Becomes, Approval!Ask, Approval!At
<1>4. Asked(c)' /\ Followed(c)' /\ Prompted(c)'
  BY <1>f DEF CallInv, Asked, Followed, Observed, Prompted, ApprovalConstants, Approval!Results,
     Approval!NotStarted
<1>5. StartedBy(c)'
  BY <1>f DEF CallInv, Asked, StartedBy, ApprovalConstants, Approval!Decisions
<1>6. ASSUME c \in Copilot PROVE Handed(c)' /\ BoundTo(c)'
  <2>1. Handed(c)'
    BY <1>6, <1>f DEF CallInv, Asked, Handed, ApprovalConstants, Approval!Decisions
  <2>2. tab.revision \in Nat
    BY DEF ApprovalTypes, ApprovalConstants
  <2>3. BoundTo(c)'
    BY <1>6, <1>f, <2>2 DEF BoundTo
  <2> QED
    BY <2>1, <2>3
<1> QED
  BY <1>2, <1>3, <1>4, <1>5, <1>6, <1>f, OneMoves DEF CallInv

LEMMA ResolveInv ==
    ASSUME ApprovalConstants, ApprovalInv, NEW c \in Approval!Calls,
           NEW d \in {"Approved", "Rejected", "Dismissed"}, Approval!Resolve(c, d)
    PROVE  ApprovalInv'
<1> ApprovalTypes /\ CallInv(c)
  BY DEF ApprovalInv
<1>1. ApprovalTypes'
  BY DEF ApprovalTypes, Approval!Resolve, Approval!Decisions
<1>2. \A e \in Approval!Calls \ {c} : Same(e)
  BY DEF ApprovalTypes, Same, Approval!Resolve
<1>f. /\ c \in approvals /\ c \notin approvals' /\ reply[c] = None /\ reply'[c] = d
      /\ tab' = tab /\ UNCHANGED <<action, gate, handoff, prompt, password, appeared, ran>>
      /\ action[c].at # "idle"
  BY DEF ApprovalTypes, Approval!Resolve, CallInv, Asked
<1>3. Asked(c)' /\ Prompted(c)'
  BY <1>f DEF CallInv, Asked, Prompted, ApprovalConstants
<1>4. Followed(c)'
  BY <1>f DEF CallInv, Followed, Observed, ApprovalConstants, Approval!Decisions
<1>5. StartedBy(c)'
  BY <1>f DEF CallInv, StartedBy, InTerminal, Executed, Handed, ApprovalConstants,
     Approval!Decisions
<1>6. c \in Copilot => Handed(c)' /\ BoundTo(c)'
  BY <1>f DEF CallInv, Handed, BoundTo, ApprovalConstants
<1> QED
  BY <1>1, <1>2, <1>3, <1>4, <1>5, <1>6, <1>f, OneMoves DEF CallInv

LEMMA AnswerPromptInv ==
    ASSUME ApprovalConstants, ApprovalInv, NEW c \in Approval!Calls, NEW given \in BOOLEAN,
           Approval!AnswerPrompt(c, given)
    PROVE  ApprovalInv'
<1> ApprovalTypes /\ CallInv(c)
  BY DEF ApprovalInv
<1> USE DEF Approval!AnswerPrompt
<1>1. ApprovalTypes'
  BY DEF ApprovalTypes
<1>2. \A e \in Approval!Calls \ {c} : Same(e)
  BY DEF ApprovalTypes, Same
<1>3. Asked(c)' /\ Followed(c)' /\ StartedBy(c)'
  BY DEF CallInv, Asked, Followed, Observed, StartedBy, InTerminal, Executed
<1>4. Prompted(c)'
  BY DEF CallInv, Prompted
<1>5. c \in Copilot => Handed(c)' /\ BoundTo(c)'
  BY DEF CallInv, Handed, BoundTo
<1> QED
  BY <1>1, <1>2, <1>3, <1>4, <1>5, OneMoves DEF CallInv

\* A handoff that has ended answered, unless it found no question.
LEMMA HandoffInv ==
    ASSUME ApprovalConstants, ApprovalInv, NEW c \in Copilot,
           Approval!HandoffBegins(c) \/ Approval!HandoffRuns(c)
    PROVE  ApprovalInv'
<1>0. c \in Approval!Calls /\ ApprovalTypes /\ CallInv(c)
  BY DEF ApprovalInv, Approval!Calls
<1> USE <1>0 DEF Approval!HandoffStep
<1>1. CASE Approval!HandoffBegins(c) \/ Approval!HandoffLocks(c) \/ Approval!HandoffClaims(c)
  <2> USE <1>1 DEF Approval!HandoffBegins, Approval!HandoffLocks, Approval!HandoffClaims
  <2>1. ApprovalTypes'
    BY DEF ApprovalTypes
  <2>2. \A d \in Approval!Calls \ {c} : Same(d)
    BY DEF ApprovalTypes, Same
  <2>f. /\ UNCHANGED <<tab, action, reply, prompt, password, appeared, ran>>
        /\ handoff[c] \in {"none", "lock", "claim"} /\ (c \in approvals' => c \in approvals)
        /\ handoff'[c] \in {"none", "lock", "claim", "check"}
    BY DEF ApprovalTypes
  <2>3. Asked(c)' /\ Followed(c)' /\ Prompted(c)'
    BY <2>f DEF CallInv, Asked, Followed, Observed, Prompted
  <2>4. StartedBy(c)'
    BY <2>f DEF CallInv, StartedBy, InTerminal, Executed
  <2>5. Handed(c)'
    BY DEF CallInv, Handed, Asked, ApprovalTypes, ApprovalConstants, Approval!Decisions
  <2>6. BoundTo(c)'
    BY <2>f DEF CallInv, BoundTo
  <2> QED
    BY <2>1, <2>2, <2>3, <2>4, <2>5, <2>6, <2>f, OneMoves DEF CallInv
<1>e. ASSUME NEW d \in {"Rejected", "DelegatedToTerminal"}, Approval!HandoffEnds(c, d),
             handoff[c] \in {"check", "send"} => d = "Rejected",
             handoff[c] = "report" => d = "DelegatedToTerminal",
             handoff[c] \in {"check", "send", "report"},
             UNCHANGED <<tab, mode, action, approvals, prompt, password, appeared, ran>>
      PROVE  ApprovalInv'
  <2> USE <1>e DEF Approval!HandoffEnds
  <2>1. ApprovalTypes'
    BY DEF ApprovalTypes, Approval!Decisions
  <2>2. \A e \in Approval!Calls \ {c} : Same(e)
    BY DEF ApprovalTypes, Same
  <2>f. /\ handoff'[c] = "none" /\ gate'[c] = "free" /\ reply'[c] = d /\ reply[c] = None
        /\ c \notin approvals /\ action[c].at # "idle" /\ gate[c] = "handoff"
        /\ action[c].at # "expire"
    BY DEF ApprovalTypes, CallInv, Handed
  <2>3. Asked(c)'
    BY <2>f DEF CallInv, Asked, ApprovalConstants
  <2>4. Followed(c)'
    BY <2>f DEF CallInv, Followed, Observed, ApprovalConstants, Approval!Decisions
  <2>5. Prompted(c)'
    BY DEF CallInv, Prompted
  <2>6. StartedBy(c)'
    BY <2>f DEF CallInv, StartedBy, InTerminal, Executed, Handed, Followed, Observed, ApprovalConstants,
       Approval!Decisions
  <2>7. Handed(c)'
    BY <2>f DEF CallInv, Handed, ApprovalConstants
  <2>8. BoundTo(c)'
    BY DEF CallInv, BoundTo
  <2> QED
    BY <2>1, <2>2, <2>3, <2>4, <2>5, <2>6, <2>7, <2>8, OneMoves DEF CallInv
<1>2. ASSUME NEW shown \in BOOLEAN, Approval!HandoffChecks(c, shown) PROVE ApprovalInv'
  <2> USE <1>2 DEF Approval!HandoffChecks
  <2>1. CASE Approval!HandoffEnds(c, "Rejected")
    BY <2>1, <1>e
  <2>2. CASE handoff' = [handoff EXCEPT ![c] = "send"] /\ UNCHANGED <<gate, reply>>
    <3> USE <2>2
    <3>1. ApprovalTypes'
      BY DEF ApprovalTypes
    <3>2. \A d \in Approval!Calls \ {c} : Same(d)
      BY DEF ApprovalTypes, Same
    <3>3. CallInv(c)'
      BY DEF ApprovalTypes, CallInv, Asked, Followed, Observed, StartedBy, InTerminal, Executed, Prompted,
             Handed, BoundTo
    <3> QED
      BY <3>1, <3>2, <3>3, OneMoves
  <2> QED
    BY <2>1, <2>2
<1>3. ASSUME NEW shown \in BOOLEAN, Approval!HandoffSends(c, shown) PROVE ApprovalInv'
  <2> USE <1>3 DEF Approval!HandoffSends
  <2>1. CASE Approval!HandoffEnds(c, "Rejected") /\ UNCHANGED ran
    BY <2>1, <1>e
  <2>2. CASE /\ Approval!Record(c, "terminal") /\ handoff' = [handoff EXCEPT ![c] = "report"]
             /\ tab.connected /\ tab.revision = action[c].bound /\ UNCHANGED <<gate, reply>>
    <3> USE <2>2
    <3>1. /\ reply[c] = None /\ c \notin approvals /\ action[c].at # "idle"
          /\ handoff[c] = "send"
      BY DEF CallInv, Handed
    <3>2. ran[c] = <<>>
      BY <3>1 DEF CallInv, StartedBy, InTerminal, Executed, Followed, Observed, ApprovalConstants,
         Approval!Decisions
    <3>3. /\ ran' \in [Approval!Calls -> Seq(Starts)]
          /\ \A d \in Approval!Calls \ {c} : ran'[d] = ran[d]
          /\ Len(ran'[c]) = 1 /\ ran'[c][1].via = "terminal" /\ ran'[c] # <<>>
          /\ ran'[c][1].session = action[c].session
      <4>1. tab.session = action[c].session
        BY <3>1 DEF CallInv, BoundTo
      <4> QED
        BY <4>1, <3>2, RecordOne
    <3>4. ApprovalTypes'
      BY <3>3 DEF ApprovalTypes
    <3>5. \A d \in Approval!Calls \ {c} : Same(d)
      BY <3>3 DEF ApprovalTypes, Same
    <3>f. /\ handoff'[c] = "report"
          /\ UNCHANGED <<tab, action, approvals, reply, gate, prompt, password, appeared>>
      BY DEF ApprovalTypes
    <3>6. Asked(c)' /\ Followed(c)' /\ Prompted(c)' /\ BoundTo(c)'
      BY <3>f, <3>1 DEF CallInv, Asked, Followed, Observed, Prompted, BoundTo
    <3>7. StartedBy(c)'
      BY <3>f, <3>1, <3>3 DEF StartedBy, InTerminal
    <3>8. Handed(c)'
      BY <3>f, <3>1, <3>3 DEF CallInv, Handed
    <3> QED
      BY <3>4, <3>5, <3>6, <3>7, <3>8, OneMoves DEF CallInv
  <2> QED
    BY <2>1, <2>2
<1>4. CASE Approval!HandoffReports(c)
  BY <1>4, <1>e DEF Approval!HandoffReports
<1> QED
  BY <1>1, <1>2, <1>3, <1>4 DEF Approval!HandoffRuns

\* The tab, the Copilot's mode, the tokens and the renderer.
LEMMA AroundInv ==
    ASSUME ApprovalConstants, ApprovalInv,
           \/ Approval!ConnectionChanges \/ Approval!Touch \/ Approval!SetMode
           \/ Approval!RendererGoes
           \/ \E c \in Approval!Calls : Approval!Cancel(c) \/ Approval!TextAppears(c)
    PROVE  ApprovalInv'
<1> USE DEF ApprovalInv
<1>1. CASE Approval!ConnectionChanges \/ Approval!Touch
  <2> USE <1>1 DEF Approval!ConnectionChanges, Approval!Touch
  <2>1. UNCHANGED <<mode, action, approvals, reply, gate, handoff, prompt, password, appeared, ran>>
    OBVIOUS
  <2>2. /\ tab' \in [connected : BOOLEAN, session : 0..MaxRevision, revision : 0..MaxRevision,
                     behind : BOOLEAN]
        /\ tab'.session <= tab'.revision
        /\ ~tab'.connected /\ ~tab'.behind => tab'.session < tab'.revision
    <3>0. /\ tab \in [connected : BOOLEAN, session : 0..MaxRevision, revision : 0..MaxRevision,
                      behind : BOOLEAN]
          /\ tab.session <= tab.revision /\ tab.revision < MaxRevision
          /\ ~tab.connected /\ ~tab.behind => tab.session < tab.revision
      BY DEF ApprovalTypes
    <3>1. tab.revision + 1 \in 0..MaxRevision /\ tab.session < tab.revision + 1
      BY <3>0 DEF ApprovalConstants
    <3>2. ~tab.connected /\ ~tab.behind
            => tab.session + 1 \in 0..MaxRevision /\ tab.session + 1 <= tab.revision
      BY <3>0 DEF ApprovalConstants
    <3>3. CASE Approval!ConnectionChanges
      <4>1. CASE tab.connected
        <5>1. /\ tab'.connected = FALSE /\ tab'.session = tab.session
              /\ tab'.revision = tab.revision /\ tab'.behind = TRUE
              /\ tab' \in [connected : BOOLEAN, session : 0..MaxRevision,
                            revision : 0..MaxRevision, behind : BOOLEAN]
          BY <3>0, <3>3, <4>1
        <5> QED
          BY <3>0, <5>1
      <4>2. CASE ~tab.connected
        <5>1. /\ tab'.connected = TRUE /\ tab'.session = tab.session + 1
              /\ tab'.revision = tab.revision /\ tab'.behind = TRUE
              /\ tab' \in [connected : BOOLEAN, session : 0..MaxRevision,
                            revision : 0..MaxRevision, behind : BOOLEAN]
          BY <3>0, <3>2, <3>3, <4>2
        <5> QED
          BY <3>2, <3>3, <4>2, <5>1
      <4> QED
        BY <4>1, <4>2
    <3>4. CASE Approval!Touch
      <4>1. /\ tab'.connected = tab.connected /\ tab'.session = tab.session
            /\ tab'.revision = tab.revision + 1 /\ tab'.behind = FALSE
            /\ tab' \in [connected : BOOLEAN, session : 0..MaxRevision,
                          revision : 0..MaxRevision, behind : BOOLEAN]
        BY <3>0, <3>1, <3>4
      <4> QED
        BY <3>0, <3>1, <4>1
    <3> QED
      BY <3>3, <3>4
  <2>3. ApprovalTypes'
    BY <2>1, <2>2 DEF ApprovalTypes
  <2>4. ASSUME NEW c \in Approval!Calls PROVE CallInv(c)'
    <3>1. Asked(c)' /\ Followed(c)' /\ StartedBy(c)' /\ Prompted(c)'
      BY <2>1 DEF CallInv, Asked, Followed, Observed, StartedBy, InTerminal, Executed, Prompted
    <3>2. c \in Copilot => Handed(c)'
      BY <2>1 DEF CallInv, Handed
    <3>3. ASSUME c \in Copilot, action[c].at # "idle" PROVE BoundTo(c)'
      <4>1. /\ action[c].bound \in Nat /\ tab.revision \in Nat /\ action[c].bound <= tab.revision
            /\ action[c].bound = tab.revision
                 => tab.session = action[c].session /\ (tab.connected \/ tab.behind)
        BY <3>3 DEF CallInv, BoundTo, ApprovalTypes, CallStates, ApprovalConstants
      <4>2. CASE Approval!ConnectionChanges
        <5>1. /\ tab'.revision = tab.revision /\ tab'.behind
              /\ tab.connected => tab'.session = tab.session
              /\ ~tab.behind
          BY <4>2 DEF ApprovalTypes
        <5> QED
          BY <2>1, <4>1, <5>1 DEF BoundTo
      <4>3. CASE Approval!Touch
        <5>1. tab'.revision = tab.revision + 1
          BY <4>3 DEF ApprovalTypes
        <5> QED
          BY <2>1, <4>1, <5>1 DEF BoundTo
      <4> QED
        BY <4>2, <4>3
    <3>4. c \in Copilot => BoundTo(c)'
      BY <2>1, <3>3 DEF BoundTo
    <3> QED
      BY <3>1, <3>2, <3>4 DEF CallInv
  <2> QED
    BY <2>3, <2>4
<1>2. CASE Approval!SetMode \/ \E c \in Approval!Calls : Approval!Cancel(c)
  <2> USE <1>2 DEF Approval!SetMode, Approval!Cancel
  <2>1. UNCHANGED <<tab, action, approvals, reply, gate, handoff, prompt, password, appeared, ran>>
    OBVIOUS
  <2>2. mode' \in 0..MaxMode
    BY DEF ApprovalTypes, ApprovalConstants
  <2>3. ApprovalTypes'
    BY <2>1, <2>2 DEF ApprovalTypes
  <2>4. \A c \in Approval!Calls : Same(c)
    BY <2>1 DEF Same
  <2> QED
    BY <2>1, <2>3, <2>4, SameKept
<1>3. CASE Approval!RendererGoes
  <2> USE <1>3 DEF Approval!RendererGoes
  <2>1. ApprovalTypes'
    BY DEF ApprovalTypes
  <2>2. ASSUME NEW c \in Approval!Calls PROVE CallInv(c)'
    <3>1. Asked(c)' /\ Followed(c)' /\ StartedBy(c)'
      BY DEF CallInv, Asked, Followed, Observed, StartedBy, InTerminal, Executed
    <3>2. c \in Copilot => Handed(c)' /\ BoundTo(c)'
      BY DEF CallInv, Handed, BoundTo
    <3>3. Prompted(c)'
      BY DEF CallInv, Prompted, ApprovalTypes
    <3> QED
      BY <3>1, <3>2, <3>3 DEF CallInv
  <2> QED
    BY <2>1, <2>2
<1>4. CASE \E c \in Approval!Calls : Approval!TextAppears(c)
  <2> USE <1>4 DEF Approval!TextAppears
  <2>1. ApprovalTypes'
    BY DEF ApprovalTypes
  <2>2. tab' = tab /\ \A c \in Approval!Calls : Same(c)
    BY DEF Same
  <2> QED
    BY <2>1, <2>2, SameKept
<1> QED
  BY <1>1, <1>2, <1>3, <1>4

LEMMA ApprovalNext ==
    ASSUME ApprovalConstants, ApprovalInv, Approval!Next \/ UNCHANGED approvalVars
    PROVE  ApprovalInv'
<1>1. CASE UNCHANGED approvalVars
  <2>1. ApprovalTypes'
    BY <1>1 DEF approvalVars, ApprovalInv, ApprovalTypes
  <2>2. \A c \in Approval!Calls : Same(c)
    BY <1>1 DEF approvalVars, Same
  <2> QED
    BY <1>1, <2>1, <2>2, SameKept DEF approvalVars, ApprovalInv
<1>2. ASSUME NEW c \in Approval!Calls, Approval!CallStep(c) PROVE ApprovalInv'
  BY <1>2, AnsweredInv, TimerInv, TimerLocksInv, TimerClaimsInv, CleanInv, StopAskingInv,
     AbandonInv, DecidedInv, WatchedInv, BindInv, PromptReturnsInv, PromptGivenUpInv, FinalCheckInv, SendInv
     DEF Approval!CallStep
<1> QED
  BY <1>1, <1>2, AskInv, ResolveInv, AnswerPromptInv, HandoffInv, AroundInv DEF Approval!Next

LEMMA ApprovalHolds == ApprovalConstants /\ ApprovalInv => Approval!ApprovalsAreTrue
<1> SUFFICES ASSUME ApprovalConstants, ApprovalInv PROVE Approval!ApprovalsAreTrue
  OBVIOUS
<1>1. ASSUME NEW c \in Approval!Calls
      PROVE  /\ Len(ran[c]) <= 1
             /\ action[c].result \in Approval!NotStarted => ran[c] = <<>>
             /\ action[c].result = "inTerminal" =>
                  \/ \E i \in DOMAIN ran[c] : ran[c][i].via = "terminal"
                  \/ /\ c \in appeared /\ ran[c] = <<>>
                     /\ action[c].decision \in {"Rejected", "Dismissed", "TimedOut"}
  <2>0. CallInv(c) /\ ran[c] \in Seq(Starts)
    BY DEF ApprovalInv, ApprovalTypes
  <2>1. Len(ran[c]) <= 1
    <3>1. ran[c] = <<>> \/ Len(ran[c]) = 1
      BY <2>0 DEF CallInv, StartedBy, InTerminal, Executed
    <3>2. Len(ran[c]) \in {0, 1}
      BY <2>0, <3>1
    <3>3. \A n \in {0, 1} : n <= 1
      OBVIOUS
    <3> QED
      BY <3>2, <3>3
  <2>2. action[c].result \in Approval!NotStarted => ran[c] = <<>>
    BY <2>0 DEF CallInv, StartedBy, InTerminal, Executed, Followed, Observed, Handed,
       Approval!NotStarted, ApprovalConstants, Approval!Decisions
  <2>3. ASSUME action[c].result = "inTerminal", ~Observed(c, action[c].decision)
        PROVE  \E i \in DOMAIN ran[c] : ran[c][i].via = "terminal"
    <3>1. InTerminal(c)
      BY <2>0, <2>3 DEF CallInv, StartedBy, Executed, Followed
    <3>2. 1 \in DOMAIN ran[c]
      BY <2>0, <3>1 DEF InTerminal
    <3> QED
      BY <3>1, <3>2 DEF InTerminal
  <2>4. ASSUME action[c].result = "inTerminal", Observed(c, action[c].decision)
        PROVE  /\ c \in appeared /\ ran[c] = <<>>
               /\ action[c].decision \in {"Rejected", "Dismissed", "TimedOut"}
    BY <2>0, <2>4 DEF CallInv, StartedBy, InTerminal, Executed, Observed, Handed,
       ApprovalConstants, Approval!Decisions
  <2> QED
    BY <2>1, <2>2, <2>3, <2>4
<1>2. ASSUME NEW c \in Copilot
      PROVE  /\ \A i \in DOMAIN ran[c] :
                   ran[c][i].via = "terminal" => ran[c][i].session = action[c].session
             /\ action[c].at = "done" => c \notin approvals
  <2>0. c \in Approval!Calls /\ CallInv(c) /\ ran[c] \in Seq(Starts)
    BY DEF ApprovalInv, ApprovalTypes, Approval!Calls
  <2>1. action[c].at = "done" => c \notin approvals
    BY <2>0 DEF CallInv, Handed
  <2>2. ASSUME NEW i \in DOMAIN ran[c], ran[c][i].via = "terminal"
        PROVE  ran[c][i].session = action[c].session
    <3>1. Len(ran[c]) = 1
      BY <2>0, <2>2 DEF CallInv, StartedBy, InTerminal, Executed
    <3>2. i = 1
      BY <2>0, <3>1
    <3> QED
      BY <2>0, <2>2, <3>2 DEF CallInv, StartedBy, InTerminal, Executed
  <2> QED
    BY <2>1, <2>2
<1> QED
  BY <1>1, <1>2 DEF Approval!ApprovalsAreTrue, Approval!RunsOnce, Approval!VerdictTrue,
     Approval!TerminalIsTheOneApproved, Approval!NoStaleQuestion, Approval!At

\* Only an answer to the prompt gives a password.
LEMMA PasswordGiven ==
    ASSUME ApprovalInv, Approval!Next
    PROVE  \A c \in Approval!Calls :
              (password[c] # "value" /\ password'[c] = "value")
                 => (Approval!At(c, "prompt") /\ tab.connected /\ tab.revision = action[c].bound)
<1> SUFFICES ASSUME NEW c \in Approval!Calls, password[c] # "value", password'[c] = "value"
             PROVE  Approval!At(c, "prompt") /\ tab.connected /\ tab.revision = action[c].bound
  OBVIOUS
<1>1. password \in [Approval!Calls -> {"value", "refused", None}] /\ CallInv(c)
  BY DEF ApprovalInv, ApprovalTypes
<1>2. \E d \in Approval!Calls, given \in BOOLEAN : Approval!AnswerPrompt(d, given)
  <2>1. ~UNCHANGED password
    OBVIOUS
  <2>2. ~Approval!RendererGoes
    BY DEF Approval!RendererGoes
  <2>3. ASSUME NEW d \in Approval!Calls, Approval!CallStep(d) PROVE FALSE
    <3>1. ASSUME NEW renderer \in BOOLEAN, Approval!Bind(d, renderer) PROVE FALSE
      BY <2>1, <3>1 DEF Approval!Bind
    <3>2. CASE \/ Approval!Answered(d) \/ Approval!Timer(d) \/ Approval!TimerLocks(d)
               \/ Approval!TimerClaims(d) \/ Approval!Clean(d) \/ Approval!StopAsking(d)
               \/ Approval!Abandon(d) \/ Approval!Decided(d) \/ Approval!Watched(d)
      BY <2>1, <3>2 DEF Approval!Answered, Approval!Timer, Approval!TimerLocks,
         Approval!TimerClaims, Approval!Clean, Approval!StopAsking, Approval!Abandon,
         Approval!Decided, Approval!Watched
    <3>3. CASE \/ Approval!PromptReturns(d) \/ Approval!PromptGivenUp(d)
               \/ Approval!FinalCheck(d) \/ Approval!Send(d)
      BY <2>1, <3>3 DEF Approval!PromptReturns, Approval!PromptGivenUp, Approval!FinalCheck,
         Approval!Send
    <3> QED
      BY <2>3, <3>1, <3>2, <3>3 DEF Approval!CallStep
  <2>4. ASSUME NEW d \in Copilot, Approval!HandoffBegins(d) \/ Approval!HandoffRuns(d)
        PROVE  FALSE
    BY <2>1, <2>4 DEF Approval!HandoffRuns, Approval!HandoffBegins, Approval!HandoffLocks,
       Approval!HandoffClaims, Approval!HandoffReports, Approval!HandoffChecks,
       Approval!HandoffSends
  <2> QED
    BY <2>1, <2>2, <2>3, <2>4 DEF Approval!Next, Approval!ConnectionChanges, Approval!Touch,
       Approval!SetMode, Approval!Ask, Approval!Cancel, Approval!TextAppears, Approval!Resolve
<1>3. PICK d \in Approval!Calls, given \in BOOLEAN : Approval!AnswerPrompt(d, given)
  BY <1>2
<1>4. d = c /\ c \in prompt /\ given /\ tab.connected /\ tab.revision = action[c].bound
  BY <1>1, <1>3 DEF Approval!AnswerPrompt
<1> QED
  BY <1>1, <1>4 DEF CallInv, Prompted, Approval!At

ApprovalPart == driven = "approval" => ApprovalInv

LEMMA ApprovalPartNext ==
    ASSUME ApprovalConstants, ApprovalPart, [Next]_vars
    PROVE  /\ ApprovalPart' /\ driven' = driven
           /\ driven = "approval" => Approval!Next \/ UNCHANGED approvalVars
           /\ driven # "approval" => UNCHANGED approvalVars
<1> USE DEF Next, vars, BridgeAlone, StdioAlone, ApprovalAlone, BackgroundAlone, UpdateAlone,
            HelperAlone, RunsAlone, ExecAlone, ReconnectsAlone
<1>1. driven' = driven
  OBVIOUS
<1>2. driven = "approval" => Approval!Next \/ UNCHANGED approvalVars
  OBVIOUS
<1>3. driven # "approval" => UNCHANGED approvalVars
  OBVIOUS
<1> QED
  BY <1>1, <1>2, <1>3, ApprovalNext DEF ApprovalPart

\* One approval starts one command, whatever the timer, the answer and the click of a
\* handoff overlap with; a caller is told the truth about it; a command handed to the visible
\* terminal reaches the session it was approved for; and a password is accepted only for the
\* target its prompt named.  For any number of calls of the Copilot and of outside clients,
\* and of changes of the tab and of the mode.
THEOREM ApprovalsStayTrue == ApprovalConstants => (Spec => ApprovalsAreTrue)
<1> SUFFICES ASSUME ApprovalConstants PROVE Spec => ApprovalsAreTrue
  OBVIOUS
<1>1. Init => ApprovalPart
  BY ApprovalInit DEF Init, ApprovalPart
<1>2. ApprovalPart /\ [Next]_vars => ApprovalPart'
  BY ApprovalPartNext
<1>3. ApprovalPart => (driven = "approval" => Approval!ApprovalsAreTrue)
  BY ApprovalHolds DEF ApprovalPart
<1>u. ASSUME UNCHANGED approvalVars PROVE UNCHANGED Approval!vars
  BY <1>u DEF approvalVars, Approval!vars
<1>4. ApprovalPart /\ [Next]_vars =>
        [\A c \in Approval!Calls :
            (password[c] # "value" /\ password'[c] = "value")
               => (Approval!At(c, "prompt") /\ tab.connected
                     /\ tab.revision = action[c].bound)]_(Approval!vars)
  <2> SUFFICES ASSUME ApprovalPart, [Next]_vars, ~(UNCHANGED Approval!vars)
               PROVE  \A c \in Approval!Calls :
                         (password[c] # "value" /\ password'[c] = "value")
                            => (Approval!At(c, "prompt") /\ tab.connected
                                  /\ tab.revision = action[c].bound)
    OBVIOUS
  <2>1. ApprovalInv /\ Approval!Next
    BY <1>u, ApprovalPartNext DEF ApprovalPart
  <2> QED
    BY <2>1, PasswordGiven
<1> QED
  BY <1>1, <1>2, <1>3, <1>4, PTL
     DEF Spec, ApprovalsAreTrue, Approval!PasswordsForTarget

-------------------------------------------------------------------------------
(***************************************************************************)
(* Automatic reconnections: what SessionTabsProofs shows for any tabs and  *)
(* workers, of the tab that is driven here.                                *)
(***************************************************************************)
TabConstants == None # TheTab /\ TheCommand \notin TabWorkers

TabProofs == INSTANCE SessionTabsProofs WITH
                 Cmds <- {TheCommand}, Workers <- TabWorkers, Tabs <- {TheTab}, Ops <- {},
                 Profiles <- {TheTab}, AutoReconnect <- TRUE, MaxAttempts <- 0,
                 UnstableLimit <- 1, Kinds <- {"open"},
                 attempts <- counts, op <- flight, cancelled <- quit

\* The registry's methods, of the two instances.
LEMMA RegistrySame ==
    ASSUME NEW r, NEW t
    PROVE  /\ Reconnects!PruneExpired(r) = TabProofs!PruneExpired(r)
           /\ Reconnects!ForgetTab(r, t) = TabProofs!ForgetTab(r, t)
           /\ \A next : Reconnects!PublishForTab(r, t, next) = TabProofs!PublishForTab(r, t, next)
<1>1. \A s : Reconnects!PruneExpired(s) = TabProofs!PruneExpired(s)
  BY Zenon DEF Reconnects!PruneExpired, TabProofs!PruneExpired
<1>2. \A s, o : /\ Reconnects!DropProfile(s, o) = TabProofs!DropProfile(s, o)
               /\ Reconnects!Recorded(s, o) = TabProofs!Recorded(s, o)
  BY Zenon DEF Reconnects!DropProfile, TabProofs!DropProfile, Reconnects!Recorded, TabProofs!Recorded
<1>3. \A x : Reconnects!IsTerminal(x) = TabProofs!IsTerminal(x)
  BY Zenon DEF Reconnects!IsTerminal, TabProofs!IsTerminal
<1>4. \A s, o, next : Reconnects!Settle(s, o, next) = TabProofs!Settle(s, o, next)
  BY <1>2, Zenon DEF Reconnects!Settle, TabProofs!Settle
<1> DEFINE s == Reconnects!PruneExpired(r)
           o == s.tabOp[t]
           u == [s EXCEPT !.tabOp[t] = None]
           f == [u EXCEPT !.state[o] = "failed"]
           v == IF Reconnects!IsTerminal(s.state[o]) THEN u ELSE f
<1> DEFINE s2 == TabProofs!PruneExpired(r)
           o2 == s2.tabOp[t]
           u2 == [s2 EXCEPT !.tabOp[t] = None]
           f2 == [u2 EXCEPT !.state[o2] = "failed"]
           v2 == IF TabProofs!IsTerminal(s2.state[o2]) THEN u2 ELSE f2
<1>5. s2 = s
  BY <1>1
<1>6. Reconnects!ForgetTab(r, t) =
        IF o = None \/ ~Reconnects!Recorded(s, o) THEN u ELSE Reconnects!DropProfile(v, o)
  BY Zenon DEF Reconnects!ForgetTab
<1>7. TabProofs!ForgetTab(r, t) =
        IF o2 = None \/ ~TabProofs!Recorded(s2, o2) THEN u2 ELSE TabProofs!DropProfile(v2, o2)
  BY Zenon DEF TabProofs!ForgetTab
<1>8. \A next : Reconnects!PublishForTab(r, t, next) =
        IF o = None THEN s
        ELSE IF ~Reconnects!Recorded(s, o) THEN u
        ELSE IF Reconnects!IsTerminal(s.state[o]) THEN s ELSE Reconnects!Settle(s, o, next)
  BY Zenon DEF Reconnects!PublishForTab
<1>9. \A next : TabProofs!PublishForTab(r, t, next) =
        IF o2 = None THEN s2
        ELSE IF ~TabProofs!Recorded(s2, o2) THEN u2
        ELSE IF TabProofs!IsTerminal(s2.state[o2]) THEN s2 ELSE TabProofs!Settle(s2, o2, next)
  BY Zenon DEF TabProofs!PublishForTab
<1> HIDE DEF s, s2
<1>10. o2 = o /\ u2 = u
  BY <1>5, Zenon
<1>11. f2 = f
  BY <1>10, Zenon
<1>12. Reconnects!IsTerminal(s.state[o]) = TabProofs!IsTerminal(s2.state[o2])
  BY <1>3, <1>5, <1>10, Zenon
<1> HIDE DEF o, u, f, o2, u2, f2
<1>13. v2 = v
  BY <1>10, <1>11, <1>12, Zenon
<1> HIDE DEF v, v2
<1>14. Reconnects!ForgetTab(r, t) = TabProofs!ForgetTab(r, t)
  <2>1. TabProofs!Recorded(s2, o2) = Reconnects!Recorded(s, o)
    BY <1>2, <1>5, <1>10, Zenon
  <2>2. TabProofs!DropProfile(v2, o2) = Reconnects!DropProfile(v, o)
    BY <1>2, <1>10, <1>13, Zenon
  <2>3. CASE o = None \/ ~Reconnects!Recorded(s, o)
    <3>1. Reconnects!ForgetTab(r, t) = u
      BY <1>6, <2>3, Zenon
    <3>2. TabProofs!ForgetTab(r, t) = u2
      BY <1>7, <1>10, <2>1, <2>3, Zenon
    <3> QED
      BY <1>10, <3>1, <3>2, Zenon
  <2>4. CASE ~(o = None \/ ~Reconnects!Recorded(s, o))
    <3>1. Reconnects!ForgetTab(r, t) = Reconnects!DropProfile(v, o)
      BY <1>6, <2>4, Zenon
    <3>2. TabProofs!ForgetTab(r, t) = TabProofs!DropProfile(v2, o2)
      BY <1>7, <1>10, <2>1, <2>4, Zenon
    <3> QED
      BY <2>2, <3>1, <3>2, Zenon
  <2> QED
    BY <2>3, <2>4, Zenon
<1>15. \A next : Reconnects!PublishForTab(r, t, next) = TabProofs!PublishForTab(r, t, next)
  BY <1>2, <1>4, <1>5, <1>8, <1>9, <1>10, <1>12, Zenon
<1> QED
  BY <1>1, <1>14, <1>15

LEMMA TabsSame ==
    /\ Reconnects!Init => TabProofs!Init
    /\ Reconnects!Next => TabProofs!Next
    /\ TabProofs!AutomaticRunsBounded => Reconnects!AutomaticRunsBounded
<1>1. Reconnects!Init => TabProofs!Init
  BY DEF Reconnects!Init, TabProofs!Init, Reconnects!EmptyRegistry, TabProofs!EmptyRegistry,
     Reconnects!Actors, TabProofs!Actors
<1>2. TabProofs!AutomaticRunsBounded => Reconnects!AutomaticRunsBounded
  BY DEF Reconnects!AutomaticRunsBounded, TabProofs!AutomaticRunsBounded, Reconnects!Limit,
     TabProofs!Limit
<1>3. \A a, l : Reconnects!Goto(a, l) <=> TabProofs!Goto(a, l)
  BY DEF Reconnects!Goto, TabProofs!Goto
<1>4. /\ Reconnects!Actors = TabProofs!Actors
      /\ Reconnects!CommandPC = TabProofs!CommandPC
      /\ Reconnects!Listed = TabProofs!Listed
  BY DEF Reconnects!Actors, TabProofs!Actors, Reconnects!CommandPC, TabProofs!CommandPC,
     Reconnects!Listed, TabProofs!Listed
<1>5. Reconnects!Bound => TabProofs!Bound
  <2>1. \A S : Reconnects!Cardinality(S) = TabProofs!Cardinality(S)
    BY Zenon DEF Reconnects!Cardinality, TabProofs!Cardinality
  <2> QED
    BY <1>4, <2>1 DEF Reconnects!Bound, TabProofs!Bound
<1>6. \A t, next : /\ Reconnects!ForgetTab(reg, t) = TabProofs!ForgetTab(reg, t)
                  /\ Reconnects!PublishForTab(reg, t, next) = TabProofs!PublishForTab(reg, t, next)
  BY RegistrySame
<1>7. ASSUME NEW c
      PROVE  Reconnects!CommandStep(c) => TabProofs!CommandStep(c)
  <2>1. Reconnects!FailOperation(c) => TabProofs!FailOperation(c)
    BY <1>3 DEF Reconnects!FailOperation, TabProofs!FailOperation,
       Reconnects!FailForOperation, TabProofs!FailForOperation, Reconnects!PruneExpired,
       TabProofs!PruneExpired, Reconnects!Recorded, TabProofs!Recorded, Reconnects!IsTerminal,
       TabProofs!IsTerminal, Reconnects!Settle, TabProofs!Settle, Reconnects!DropProfile,
       TabProofs!DropProfile, Reconnects!workerVars, TabProofs!workerVars, Reconnects!cmdVars,
       TabProofs!cmdVars
  <2>2. Reconnects!AttachOperation(c) => TabProofs!AttachOperation(c)
    BY <1>3 DEF Reconnects!AttachOperation, TabProofs!AttachOperation, Reconnects!CanAttach,
       TabProofs!CanAttach, Reconnects!AttachTab, TabProofs!AttachTab,
       Reconnects!PruneExpired, TabProofs!PruneExpired, Reconnects!Recorded,
       TabProofs!Recorded, Reconnects!workerVars, TabProofs!workerVars, Reconnects!cmdVars,
       TabProofs!cmdVars
  <2>3. Reconnects!PushTab(c) => TabProofs!PushTab(c)
    BY <1>3 DEF Reconnects!PushTab, TabProofs!PushTab, Reconnects!workerVars,
       TabProofs!workerVars, Reconnects!cmdVars, TabProofs!cmdVars
  <2>4. Reconnects!PauseTransfers(c) => TabProofs!PauseTransfers(c)
    BY <1>3 DEF Reconnects!PauseTransfers, TabProofs!PauseTransfers, Reconnects!maps,
       TabProofs!maps, Reconnects!workerVars, TabProofs!workerVars, Reconnects!cmdVars,
       TabProofs!cmdVars
  <2>5. Reconnects!ForgetAttempts(c) => TabProofs!ForgetAttempts(c)
    BY <1>3 DEF Reconnects!ForgetAttempts, TabProofs!ForgetAttempts, Reconnects!workerVars,
       TabProofs!workerVars, Reconnects!cmdVars, TabProofs!cmdVars
  <2>6. Reconnects!RemoveTab(c) => TabProofs!RemoveTab(c)
    BY <1>3 DEF Reconnects!RemoveTab, TabProofs!RemoveTab, Reconnects!workerVars,
       TabProofs!workerVars, Reconnects!cmdVars, TabProofs!cmdVars
  <2>7. Reconnects!MarkClosed(c) => TabProofs!MarkClosed(c)
    BY <1>3, <1>4 DEF Reconnects!MarkClosed, TabProofs!MarkClosed, Reconnects!ListedAs,
       TabProofs!ListedAs, Reconnects!SeenAs, TabProofs!SeenAs, Reconnects!workerVars,
       TabProofs!workerVars, Reconnects!cmdVars, TabProofs!cmdVars
  <2>8. Reconnects!NoticeTab(c) => TabProofs!NoticeTab(c)
    BY <1>3, <1>4 DEF Reconnects!NoticeTab, TabProofs!NoticeTab, Reconnects!ListedAs,
       TabProofs!ListedAs, Reconnects!workerVars, TabProofs!workerVars, Reconnects!cmdVars,
       TabProofs!cmdVars
  <2>9. Reconnects!NoticeSession(c) => TabProofs!NoticeSession(c)
    BY <1>3 DEF Reconnects!NoticeSession, TabProofs!NoticeSession, Reconnects!SeenAs,
       TabProofs!SeenAs, Reconnects!workerVars, TabProofs!workerVars, Reconnects!cmdVars,
       TabProofs!cmdVars
  <2>10. Reconnects!NoticePublish(c) => TabProofs!NoticePublish(c)
    BY <1>3, <1>6 DEF Reconnects!NoticePublish, TabProofs!NoticePublish,
       Reconnects!workerVars, TabProofs!workerVars, Reconnects!cmdVars, TabProofs!cmdVars
  <2> QED
    BY <2>1, <2>2, <2>3, <2>4, <2>5, <2>6, <2>7, <2>8, <2>9, <2>10 DEF Reconnects!CommandStep,
       TabProofs!CommandStep
<1>8. ASSUME NEW a
      PROVE  Reconnects!ReconnectStep(a) => TabProofs!ReconnectStep(a)
  <2>1. Reconnects!ReadTab(a) => TabProofs!ReadTab(a)
    BY <1>3, <1>4 DEF Reconnects!ReadTab, TabProofs!ReadTab, Reconnects!maps, TabProofs!maps,
       Reconnects!workerVars, TabProofs!workerVars, Reconnects!cmdVars, TabProofs!cmdVars
  <2>2. Reconnects!ClaimReconnect(a) => TabProofs!ClaimReconnect(a)
    BY <1>3, <1>4 DEF Reconnects!ClaimReconnect, TabProofs!ClaimReconnect,
       Reconnects!workerVars, TabProofs!workerVars, Reconnects!cmdVars, TabProofs!cmdVars
  <2>3. Reconnects!StopForget(a) => TabProofs!StopForget(a)
    BY <1>3, <1>6 DEF Reconnects!StopForget, TabProofs!StopForget, Reconnects!workerVars,
       TabProofs!workerVars, Reconnects!cmdVars, TabProofs!cmdVars
  <2>4. Reconnects!StopControl(a) => TabProofs!StopControl(a)
    BY <1>3 DEF Reconnects!StopControl, TabProofs!StopControl, Reconnects!cmdVars,
       TabProofs!cmdVars
  <2>5. Reconnects!StopSender(a) => TabProofs!StopSender(a)
    BY <1>3 DEF Reconnects!StopSender, TabProofs!StopSender, Reconnects!workerVars,
       TabProofs!workerVars, Reconnects!cmdVars, TabProofs!cmdVars
  <2>6. Reconnects!ResetSession(a) => TabProofs!ResetSession(a)
    BY <1>3 DEF Reconnects!ResetSession, TabProofs!ResetSession, Reconnects!workerVars,
       TabProofs!workerVars, Reconnects!cmdVars, TabProofs!cmdVars
  <2>7. Reconnects!InsertSender(a) => TabProofs!InsertSender(a)
    BY Zenon DEF Reconnects!InsertSender, TabProofs!InsertSender, Reconnects!workerVars,
       TabProofs!workerVars
  <2>8. Reconnects!Launch(a) => TabProofs!Launch(a)
    BY DEF Reconnects!Launch, TabProofs!Launch, Reconnects!workerVars, TabProofs!workerVars
  <2> QED
    BY <2>1, <2>2, <2>3, <2>4, <2>5, <2>6, <2>7, <2>8 DEF Reconnects!ReconnectStep,
       TabProofs!ReconnectStep
<1>9. ASSUME NEW w
      PROVE  Reconnects!SupervisorStep(w) => TabProofs!SupervisorStep(w)
  <2>1. Reconnects!OpenSession(w) => TabProofs!OpenSession(w)
    BY <1>3 DEF Reconnects!OpenSession, TabProofs!OpenSession, Reconnects!maps,
       TabProofs!maps, Reconnects!cmdVars, TabProofs!cmdVars
  <2>2. Reconnects!SnapshotSession(w) => TabProofs!SnapshotSession(w)
    BY <1>3, <1>6 DEF Reconnects!SnapshotSession, TabProofs!SnapshotSession,
       Reconnects!workerVars, TabProofs!workerVars, Reconnects!cmdVars, TabProofs!cmdVars
  <2>3. Reconnects!JudgeExit(w) => TabProofs!JudgeExit(w)
    BY <1>3 DEF Reconnects!JudgeExit, TabProofs!JudgeExit, Reconnects!workerVars,
       TabProofs!workerVars, Reconnects!cmdVars, TabProofs!cmdVars
  <2>4. Reconnects!ReportFailure(w) => TabProofs!ReportFailure(w)
    BY <1>3, <1>6 DEF Reconnects!ReportFailure, TabProofs!ReportFailure,
       Reconnects!workerVars, TabProofs!workerVars, Reconnects!cmdVars, TabProofs!cmdVars
  <2>5. Reconnects!MarkTab(w) => TabProofs!MarkTab(w)
    BY <1>3, <1>4 DEF Reconnects!MarkTab, TabProofs!MarkTab, Reconnects!ListedAs,
       TabProofs!ListedAs, Reconnects!StatusOf, TabProofs!StatusOf, Reconnects!workerVars,
       TabProofs!workerVars, Reconnects!cmdVars, TabProofs!cmdVars
  <2>6. Reconnects!MarkSession(w) => TabProofs!MarkSession(w)
    BY <1>3 DEF Reconnects!MarkSession, TabProofs!MarkSession, Reconnects!SeenAs,
       TabProofs!SeenAs, Reconnects!workerVars, TabProofs!workerVars, Reconnects!cmdVars,
       TabProofs!cmdVars
  <2>7. Reconnects!MarkPublish(w) => TabProofs!MarkPublish(w)
    BY <1>3, <1>6 DEF Reconnects!MarkPublish, TabProofs!MarkPublish, Reconnects!workerVars,
       TabProofs!workerVars, Reconnects!cmdVars, TabProofs!cmdVars
  <2>8. Reconnects!ScheduleReconnect(w) => TabProofs!ScheduleReconnect(w)
    BY <1>3 DEF Reconnects!ScheduleReconnect, TabProofs!ScheduleReconnect,
       Reconnects!ShouldReconnect, TabProofs!ShouldReconnect, Reconnects!AttemptLeft,
       TabProofs!AttemptLeft, Reconnects!NextAttempt, TabProofs!NextAttempt,
       Reconnects!cmdVars, TabProofs!cmdVars
  <2>9. Reconnects!WaitDelay(w) => TabProofs!WaitDelay(w)
    BY <1>3 DEF Reconnects!WaitDelay, TabProofs!WaitDelay, Reconnects!maps, TabProofs!maps,
       Reconnects!workerVars, TabProofs!workerVars, Reconnects!cmdVars, TabProofs!cmdVars
  <2>10. Reconnects!Recheck(w) => TabProofs!Recheck(w)
    BY <1>3, <1>4, <1>5 DEF Reconnects!Recheck, TabProofs!Recheck, Reconnects!StillWanted,
       TabProofs!StillWanted, Reconnects!maps, TabProofs!maps, Reconnects!workerVars,
       TabProofs!workerVars
  <2> QED
    BY <2>1, <2>2, <2>3, <2>4, <2>5, <2>6, <2>7, <2>8, <2>9, <2>10 DEF
       Reconnects!SupervisorStep, TabProofs!SupervisorStep
<1>10. ASSUME NEW c
      PROVE  /\ Reconnects!BeginOpen(c) => TabProofs!BeginOpen(c)
             /\ Reconnects!BeginRequest(c) => TabProofs!BeginRequest(c)
             /\ Reconnects!BeginOnTab(c) => TabProofs!BeginOnTab(c)
             /\ Reconnects!LeaveLoop(c) => TabProofs!LeaveLoop(c)
  <2>1. Reconnects!BeginOpen(c) => TabProofs!BeginOpen(c)
    BY <1>3, <1>4, <1>5 DEF Reconnects!BeginOpen, TabProofs!BeginOpen, Reconnects!maps,
       TabProofs!maps, Reconnects!workerVars, TabProofs!workerVars
  <2>2. Reconnects!BeginRequest(c) => TabProofs!BeginRequest(c)
    BY DEF Reconnects!BeginRequest, TabProofs!BeginRequest
  <2>3. Reconnects!BeginOnTab(c) => TabProofs!BeginOnTab(c)
    BY DEF Reconnects!BeginOnTab, TabProofs!BeginOnTab
  <2>4. Reconnects!LeaveLoop(c) => TabProofs!LeaveLoop(c)
    BY <1>3 DEF Reconnects!LeaveLoop, TabProofs!LeaveLoop, Reconnects!CutOff,
       TabProofs!CutOff, Reconnects!maps, TabProofs!maps, Reconnects!cmdVars,
       TabProofs!cmdVars
  <2> QED
    BY <2>1, <2>2, <2>3, <2>4
<1>11. Reconnects!Next => TabProofs!Next
  BY <1>4, <1>7, <1>8, <1>9, <1>10 DEF Reconnects!Next, TabProofs!Next
<1> QED
  BY <1>1, <1>2, <1>11

LEMMA TabConstantsFit == TabConstants => TabProofs!Constants /\ TabProofs!OnlyOpening
BY DEF TabConstants, TabProofs!Constants, TabProofs!NoneIsNone, TabProofs!OnlyOpening

LEMMA TabsInit ==
    TabConstants /\ Reconnects!Init => TabProofs!IInv /\ TabProofs!RunsInv
<1> SUFFICES ASSUME TabConstants, Reconnects!Init PROVE TabProofs!IInv /\ TabProofs!RunsInv
  OBVIOUS
<1>1. TabProofs!Init
  BY TabsSame
<1> QED
  BY <1>1, TabConstantsFit, TabProofs!InitInv, TabProofs!RunsInit

LEMMA TabsNext ==
    ASSUME TabConstants, TabProofs!IInv, TabProofs!RunsInv, Reconnects!Next \/ UNCHANGED tabVars
    PROVE  TabProofs!IInv' /\ TabProofs!RunsInv'
<1>1. TabProofs!Next \/ UNCHANGED TabProofs!vars
  BY TabsSame DEF tabVars, TabProofs!vars
<1>2. [TabProofs!Next]_(TabProofs!vars)
  BY <1>1
<1> QED
  BY <1>2, TabConstantsFit, TabProofs!NextInv, TabProofs!RunsNext

LEMMA TabsSufficient ==
    TabConstants /\ TabProofs!RunsInv => Reconnects!AutomaticRunsBounded
BY TabConstantsFit, TabProofs!RunsSufficient, TabsSame

TabPart == driven = "reconnects" => TabProofs!IInv /\ TabProofs!RunsInv

\* A host that keeps failing, or accepts and drops every connection, is not tried for ever: the
\* tab of a profile without a limit of its own sets out by itself no more often than the limit
\* of unstable connections says, whatever its workers.  SessionTabsProofs!AutomaticRuns says so
\* of any limits, tabs and commands that open them.
THEOREM ReconnectsBounded == TabConstants => (Spec => []AutomaticRunsBounded)
<1> SUFFICES ASSUME TabConstants PROVE Spec => []AutomaticRunsBounded
  OBVIOUS
<1>1. Init => TabPart
  BY TabsInit DEF Init, TabPart
<1>2. TabPart /\ [Next]_vars => TabPart'
  <2> SUFFICES ASSUME TabPart, [Next]_vars PROVE TabPart'
    OBVIOUS
  <2>1. driven' = driven
    BY DEF Next, vars, BridgeAlone, StdioAlone, ApprovalAlone, BackgroundAlone, UpdateAlone,
           HelperAlone, RunsAlone, ExecAlone, ReconnectsAlone
  <2>2. driven = "reconnects" => Reconnects!Next \/ UNCHANGED tabVars
    BY DEF Next, vars
  <2>3. driven = "reconnects" => TabProofs!IInv' /\ TabProofs!RunsInv'
    BY <2>2, TabsNext DEF TabPart
  <2> QED
    BY <2>1, <2>3 DEF TabPart
<1>3. TabPart => AutomaticRunsBounded
  BY TabsSufficient DEF TabPart, AutomaticRunsBounded
<1> QED
  BY <1>1, <1>2, <1>3, PTL DEF Spec

-------------------------------------------------------------------------------
(***************************************************************************)
(* The sessions of the bridge.                                             *)
(***************************************************************************)
BridgeConstants == None \notin BridgeCalls \cup Conns \cup {"backpressure"}

Events == {"progress", "response", "disconnected"}
CallRecords == [at : {"idle", "lock", "connecting", "register", "send", "wait", "done"},
                conn : Conns \cup {None}, result : Bridge!Results]
DownFrames == [type : {"progress", "response", "pong"}, id : BridgeCalls \cup {None}]
BridgeTypes ==
    /\ call \in [BridgeCalls -> CallRecords]
    /\ inbox \in [BridgeCalls -> Seq(Events)]
    /\ connecting \in BridgeCalls \cup {None} /\ current \in Conns \cup {None}
    /\ conn \in [Conns -> {"unused", "open", "closed", "drained"}]
    /\ pending \in [Conns -> SUBSET BridgeCalls]
    /\ delivering \in [Conns -> BridgeCalls \cup {None}]
    /\ up \in [Conns -> Seq(Bridge!Frames)] /\ down \in [Conns -> Seq(DownFrames)]
    /\ session \in [Conns -> {"none", "open", "draining", "closed"}]
    /\ work \in [BridgeCalls -> {"none", "running", "replying", "done", "aborted"}]

Says(s, event) == \E i \in DOMAIN s : s[i] = event
Has(s, k) == \E i \in DOMAIN s : s[i].type = "request" /\ s[i].id = k
Once(s, k) ==
    \A i, j \in DOMAIN s : s[i].type = "request" /\ s[i].id = k /\ s[j].type = "request" /\ s[j].id = k
        => i = j

\* A call that was not sent has no work, and its request is read once; whoever works serves a
\* session that is there; who is told that a session is gone was told the truth; and a call that
\* waits is registered, or its answer is on the way.
Tracked(k) ==
    /\ call[k].at # "done" => call[k].result = None
    /\ call[k].at \in {"register", "send", "wait"} => call[k].conn \in Conns
    /\ call[k].conn \in Conns => conn[call[k].conn] # "unused"
    /\ connecting = k => call[k].at = "connecting"
    /\ call[k].at \notin {"wait", "done"} => work[k] = "none"
    /\ Bridge!Working(k) => call[k].conn \in Conns /\ session[call[k].conn] \in {"open", "draining"}
    /\ Says(inbox[k], "disconnected") =>
         /\ call[k].at \in {"send", "wait", "done"} /\ call[k].conn \in Conns
         /\ conn[call[k].conn] \in {"closed", "drained"}
    /\ call[k].at \in {"send", "wait"} /\ conn[call[k].conn] = "open" =>
         k \in pending[call[k].conn] \/ delivering[call[k].conn] = k \/ Says(inbox[k], "response")
    /\ \A c \in Conns :
         /\ k \in pending[c] => call[k].conn = c /\ call[k].at \in {"send", "wait", "done"}
         /\ Has(up[c], k) => call[k].conn = c /\ call[k].at \in {"wait", "done"} /\ work[k] = "none"
         /\ Once(up[c], k)

\* As long as no full queue refused a call, the session that is open is the client's, and nobody
\* connects beside it.
OneCurrent ==
    (\A k \in BridgeCalls : call[k].result # "backpressure") =>
        /\ \A c \in Conns : conn[c] = "open" => current = c
        /\ connecting # None => ~Bridge!IsOpen(current)

BridgeInv == BridgeTypes /\ (\A k \in BridgeCalls : Tracked(k)) /\ OneCurrent

LEMMA QueueTail ==
    ASSUME NEW S, NEW s \in Seq(S), s # <<>>
    PROVE  /\ Tail(s) \in Seq(S) /\ Head(s) \in S /\ Head(s) = s[1] /\ 1 \in DOMAIN s
           /\ \A i \in DOMAIN Tail(s) : i \in Nat /\ i >= 1 /\ i + 1 \in DOMAIN s /\ Tail(s)[i] = s[i + 1]
           /\ \A i \in DOMAIN s : i # 1 => i \in Nat /\ i - 1 \in DOMAIN Tail(s) /\ Tail(s)[i - 1] = s[i]
OBVIOUS

LEMMA QueueAppend ==
    ASSUME NEW S, NEW s \in Seq(S), NEW x \in S
    PROVE  /\ Append(s, x) \in Seq(S)
           /\ \A i \in DOMAIN s : i \in DOMAIN Append(s, x) /\ Append(s, x)[i] = s[i] /\ i # Len(s) + 1
           /\ \A i \in DOMAIN Append(s, x) : i \in DOMAIN s \/ i = Len(s) + 1
           /\ Len(s) + 1 \in DOMAIN Append(s, x) /\ Append(s, x)[Len(s) + 1] = x
OBVIOUS

LEMMA SaysTail ==
    ASSUME NEW s \in Seq(Events), s # <<>>, NEW e
    PROVE  /\ Tail(s) \in Seq(Events) /\ Head(s) \in Events
           /\ Says(s, e) <=> Head(s) = e \/ Says(Tail(s), e)
<1>1. /\ Tail(s) \in Seq(Events) /\ Head(s) \in Events /\ Head(s) = s[1] /\ 1 \in DOMAIN s
      /\ \A i \in DOMAIN Tail(s) : i + 1 \in DOMAIN s /\ Tail(s)[i] = s[i + 1]
      /\ \A i \in DOMAIN s : i # 1 => i - 1 \in DOMAIN Tail(s) /\ Tail(s)[i - 1] = s[i]
  BY QueueTail
<1>2. Says(s, e) => Head(s) = e \/ Says(Tail(s), e)
  BY <1>1 DEF Says
<1>3. Head(s) = e \/ Says(Tail(s), e) => Says(s, e)
  BY <1>1 DEF Says
<1> QED
  BY <1>1, <1>2, <1>3

LEMMA SaysAppend ==
    ASSUME NEW s \in Seq(Events), NEW x \in Events, NEW e
    PROVE  Append(s, x) \in Seq(Events) /\ (Says(Append(s, x), e) <=> Says(s, e) \/ x = e)
BY QueueAppend DEF Says

LEMMA HasTail ==
    ASSUME NEW s \in Seq(Bridge!Frames), s # <<>>, NEW k
    PROVE  /\ Tail(s) \in Seq(Bridge!Frames)
           /\ Has(Tail(s), k) => Has(s, k)
           /\ Once(s, k) => Once(Tail(s), k)
           /\ Once(s, k) /\ Head(s).type = "request" /\ Head(s).id = k => Has(s, k) /\ ~Has(Tail(s), k)
<1>1. /\ Tail(s) \in Seq(Bridge!Frames) /\ Head(s) = s[1] /\ 1 \in DOMAIN s
      /\ \A i \in DOMAIN Tail(s) : i \in Nat /\ i >= 1 /\ i + 1 \in DOMAIN s /\ Tail(s)[i] = s[i + 1]
  BY QueueTail
<1>2. Has(Tail(s), k) => Has(s, k)
  BY <1>1 DEF Has
<1>3. Once(s, k) => Once(Tail(s), k)
  <2> SUFFICES ASSUME Once(s, k), NEW i \in DOMAIN Tail(s), NEW j \in DOMAIN Tail(s),
                      Tail(s)[i].type = "request" /\ Tail(s)[i].id = k,
                      Tail(s)[j].type = "request" /\ Tail(s)[j].id = k
               PROVE  i = j
    BY DEF Once
  <2>1. i + 1 = j + 1
    BY <1>1 DEF Once
  <2> QED
    BY <1>1, <2>1
<1>4. Once(s, k) /\ Head(s).type = "request" /\ Head(s).id = k => Has(s, k) /\ ~Has(Tail(s), k)
  <2> SUFFICES ASSUME Once(s, k), s[1].type = "request", s[1].id = k PROVE Has(s, k) /\ ~Has(Tail(s), k)
    BY <1>1
  <2>1. Has(s, k)
    BY <1>1 DEF Has
  <2>2. ASSUME NEW i \in DOMAIN Tail(s), Tail(s)[i].type = "request", Tail(s)[i].id = k PROVE FALSE
    <3>1. i + 1 = 1
      BY <1>1, <2>2 DEF Once
    <3> QED
      BY <1>1, <3>1
  <2> QED
    BY <2>1, <2>2 DEF Has
<1> QED
  BY <1>1, <1>2, <1>3, <1>4

LEMMA HasAppend ==
    ASSUME NEW s \in Seq(Bridge!Frames), NEW x \in Bridge!Frames, NEW k
    PROVE  /\ Append(s, x) \in Seq(Bridge!Frames)
           /\ ~(x.type = "request" /\ x.id = k) =>
                (Has(Append(s, x), k) => Has(s, k)) /\ (Once(s, k) => Once(Append(s, x), k))
           /\ ~Has(s, k) => Once(Append(s, x), k)
<1>1. /\ Append(s, x) \in Seq(Bridge!Frames)
      /\ \A i \in DOMAIN s : i \in DOMAIN Append(s, x) /\ Append(s, x)[i] = s[i] /\ i # Len(s) + 1
      /\ \A i \in DOMAIN Append(s, x) : i \in DOMAIN s \/ i = Len(s) + 1
      /\ Len(s) + 1 \in DOMAIN Append(s, x) /\ Append(s, x)[Len(s) + 1] = x
  BY QueueAppend
<1> HIDE DEF Bridge!Frames
<1>2. ~(x.type = "request" /\ x.id = k) => (Has(Append(s, x), k) => Has(s, k))
  BY <1>1 DEF Has
<1>3. ~(x.type = "request" /\ x.id = k) => (Once(s, k) => Once(Append(s, x), k))
  BY <1>1 DEF Once
<1>4. ~Has(s, k) => Once(Append(s, x), k)
  BY <1>1 DEF Has, Once
<1> QED
  BY <1>1, <1>2, <1>3, <1>4

LEMMA BridgeInit == BridgeConstants /\ Bridge!Init => BridgeInv
<1> SUFFICES ASSUME BridgeConstants, Bridge!Init PROVE BridgeInv
  OBVIOUS
<1>1. BridgeTypes
  BY DEF Bridge!Init, BridgeTypes, CallRecords, Bridge!Results
<1>2. ASSUME NEW k \in BridgeCalls PROVE Tracked(k)
  BY <1>2 DEF Bridge!Init, BridgeConstants, Tracked, Says, Has, Once, Bridge!Working
<1>3. OneCurrent
  BY DEF Bridge!Init, OneCurrent
<1> QED
  BY <1>1, <1>2, <1>3 DEF BridgeInv

\* A step that does nothing to call j, nor to the session it is on, keeps what is said of it.
Untouched(j) ==
    /\ call'[j] = call[j] /\ work'[j] = work[j] /\ inbox'[j] = inbox[j]
    /\ connecting' = j => connecting = j
    /\ \A c \in Conns :
         /\ j \in pending'[c] <=> j \in pending[c]
         /\ delivering[c] = j => delivering'[c] = j
         /\ Has(up'[c], j) => Has(up[c], j)
         /\ Once(up[c], j) => Once(up'[c], j)
SessionsGoOn ==
    \A c \in Conns :
        /\ conn'[c] = "open" => conn[c] \in {"open", "unused"}
        /\ conn[c] \in {"closed", "drained"} => conn'[c] \in {"closed", "drained"}
        /\ conn'[c] = "unused" => conn[c] = "unused"
        /\ session[c] \in {"open", "draining"} => session'[c] \in {"open", "draining"}

LEMMA UntouchedKept ==
    ASSUME BridgeInv, NEW j \in BridgeCalls, Untouched(j), SessionsGoOn PROVE Tracked(j)'
<1>1. Tracked(j)
  BY DEF BridgeInv
<1>2. \A e : Says(inbox[j], e)' = Says(inbox[j], e)
  BY DEF Untouched, Says
<1>3. \A c \in Conns : Has(up'[c], j) = Has(up[c], j)' /\ Once(up'[c], j) = Once(up[c], j)'
  BY DEF Has, Once
<1> QED
  BY <1>1, <1>2 DEF Tracked, Untouched, SessionsGoOn, Bridge!Working

\* Call k may change, no other does.
Caller(k) ==
    /\ call' \in [BridgeCalls -> CallRecords]
    /\ \A j \in BridgeCalls \ {k} : call'[j] = call[j]
Moved(k, l) == Caller(k) /\ call'[k] = [call[k] EXCEPT !.at = l]
Returned(k, r) == Caller(k) /\ call'[k] = [call[k] EXCEPT !.at = "done", !.result = r]
Joined(k, p) == Caller(k) /\ call'[k] = [call[k] EXCEPT !.at = "register", !.conn = p]

LEMMA CallerMoves ==
    ASSUME BridgeInv, NEW k \in BridgeCalls
    PROVE  /\ call[k] \in CallRecords
           /\ \A l \in {"lock", "connecting", "send", "wait"} : Bridge!Goto(k, l) => Moved(k, l)
           /\ \A r \in Bridge!Results : Bridge!Return(k, r) => Returned(k, r)
           /\ \A p \in Conns : call' = [call EXCEPT ![k].at = "register", ![k].conn = p]
                => Joined(k, p)
<1>1. call \in [BridgeCalls -> CallRecords] /\ call[k] \in CallRecords
  BY DEF BridgeInv, BridgeTypes
<1>2. ASSUME NEW l \in {"lock", "connecting", "send", "wait"}, Bridge!Goto(k, l)
      PROVE  Moved(k, l)
  BY <1>1, <1>2 DEF Bridge!Goto, Moved, Caller, CallRecords
<1>3. ASSUME NEW r \in Bridge!Results, Bridge!Return(k, r) PROVE Returned(k, r)
  <2> HIDE DEF Bridge!Results
  <2> QED
    BY <1>1, <1>3 DEF Bridge!Return, Returned, Caller, CallRecords
<1>4. ASSUME NEW p \in Conns, call' = [call EXCEPT ![k].at = "register", ![k].conn = p]
      PROVE  Joined(k, p)
  BY <1>1, <1>4 DEF Joined, Caller, CallRecords
<1> QED
  BY <1>1, <1>2, <1>3, <1>4

\* A call that does not end with a refusal by a full queue leaves it to the session to be the
\* client's.
LEMMA OneCurrentKept ==
    ASSUME BridgeConstants, BridgeInv, NEW k \in BridgeCalls, Caller(k), conn' = conn,
           call[k].at # "done",
           \/ call'[k].result = "backpressure" \/ current' = current
           \/ ~Bridge!IsOpen(call[k].conn)
                /\ current' = IF current = call[k].conn THEN None ELSE current,
           connecting' # None => connecting # None \/ ~Bridge!IsOpen(current)
    PROVE  OneCurrent'
<1> SUFFICES ASSUME \A j \in BridgeCalls : call'[j].result # "backpressure"
             PROVE  /\ \A c \in Conns : conn[c] = "open" => current' = c
                    /\ connecting' # None => ~Bridge!IsOpen(current')
  BY DEF OneCurrent, Bridge!IsOpen
<1>1. call'[k].result # "backpressure" /\ Tracked(k)
  BY DEF BridgeInv
<1>2. \A j \in BridgeCalls : call[j].result # "backpressure"
  BY <1>1 DEF Caller, BridgeConstants, Tracked
<1>3. /\ \A c \in Conns : conn[c] = "open" => current = c
      /\ connecting # None => ~Bridge!IsOpen(current)
  BY <1>2 DEF BridgeInv, OneCurrent
<1>4. CASE current' = current
  BY <1>3, <1>4
<1>5. CASE ~Bridge!IsOpen(call[k].conn) /\ current' = IF current = call[k].conn THEN None ELSE current
  BY <1>3, <1>5 DEF Bridge!IsOpen, BridgeConstants
<1> QED
  BY <1>1, <1>4, <1>5

\* The steps to a session.
LEMMA ConnectingSteps ==
    ASSUME BridgeConstants, BridgeInv, NEW k \in BridgeCalls,
           Bridge!TakeCurrent(k) \/ Bridge!LockReconnect(k) \/ Bridge!ConnectFails(k)
    PROVE  BridgeInv'
<1>1. /\ UNCHANGED <<inbox, current, conn, pending, delivering, up, down, session, work>>
      /\ Tracked(k) /\ call[k] \in CallRecords /\ current \in Conns \cup {None}
      /\ connecting \in BridgeCalls \cup {None} /\ k # None
  BY CallerMoves DEF Bridge!TakeCurrent, Bridge!LockReconnect, Bridge!ConnectFails, BridgeInv,
     Bridge!connVars, Bridge!serverVars, BridgeTypes, BridgeConstants
<1>2. call[k].at \in {"idle", "lock", "connecting"}
  BY <1>1 DEF Bridge!TakeCurrent, Bridge!LockReconnect, Bridge!ConnectFails, Tracked
<1>3. \/ call' = call /\ connecting' = connecting
      \/ Joined(k, current) /\ Bridge!IsOpen(current) /\ connecting' = connecting
           /\ call[k].at # "connecting"
      \/ Moved(k, "lock") /\ connecting' = connecting /\ call[k].at = "idle"
      \/ Returned(k, "unavailable") /\ connecting' \in {connecting, None} /\ connecting' # k
      \/ Moved(k, "connecting") /\ connecting' = k /\ ~Bridge!IsOpen(current)
  <2>1. CASE Bridge!TakeCurrent(k)
    BY <1>1, <2>1, CallerMoves DEF Bridge!TakeCurrent, Bridge!IsOpen, Bridge!Goto
  <2>2. CASE Bridge!LockReconnect(k)
    BY <1>1, <2>2, CallerMoves DEF Bridge!LockReconnect, Bridge!IsOpen, Bridge!Results
  <2>3. CASE Bridge!ConnectFails(k)
    BY <1>1, <2>3, CallerMoves DEF Bridge!ConnectFails, Bridge!Results
  <2> QED
    BY <2>1, <2>2, <2>3
<1>4. CASE call' = call /\ connecting' = connecting
  BY <1>1, <1>4 DEF BridgeInv, BridgeTypes, Tracked, Bridge!Working, Says, Has, Once, OneCurrent, Bridge!IsOpen
<1>5. ASSUME Caller(k), call'[k].result = None \/ call'[k].at = "done",
             call'[k].at \in {"register", "lock", "connecting", "done"},
             call'[k].at = "register" => Bridge!IsOpen(call'[k].conn) /\ call'[k].conn \in Conns,
             call'[k].at # "register" => call'[k].conn = call[k].conn,
             connecting' \in {connecting, None} \/ (connecting' = k /\ ~Bridge!IsOpen(current)),
             connecting' = k => call'[k].at = "connecting"
      PROVE  BridgeInv'
  <2>1. BridgeTypes'
    BY <1>1, <1>5 DEF BridgeInv, BridgeTypes, Caller
  <2>2. SessionsGoOn
    BY <1>1 DEF SessionsGoOn
  <2>3. ASSUME NEW j \in BridgeCalls, j # k PROVE Tracked(j)'
    BY <1>1, <1>5, <2>2, <2>3, UntouchedKept DEF Untouched, Caller, BridgeConstants
  <2>4. Tracked(k)'
    <3>2. ~Says(inbox[k], "disconnected") /\ work[k] = "none"
      BY <1>1, <1>2 DEF Tracked
    <3>3. \A c \in Conns : k \notin pending[c] /\ ~Has(up[c], k) /\ Once(up[c], k)
      BY <1>1, <1>2 DEF Tracked
    <3>4. ~Says(inbox[k], "disconnected")' /\ ~Bridge!Working(k)'
      BY <1>1, <3>2 DEF Says, Bridge!Working
    <3>5. \A c \in Conns : k \notin pending'[c] /\ ~(Has(up[c], k)') /\ Once(up[c], k)'
      BY <1>1, <3>3 DEF Has, Once
    <3>6. call'[k].conn \in Conns => conn'[call'[k].conn] # "unused"
      BY <1>1, <1>5 DEF Tracked, Bridge!IsOpen
    <3> QED
      BY <1>1, <1>5, <3>2, <3>4, <3>5, <3>6 DEF Tracked
  <2>5. OneCurrent'
    BY <1>1, <1>2, <1>5, OneCurrentKept
  <2> QED
    BY <2>1, <2>3, <2>4, <2>5 DEF BridgeInv
<1>6. call[k].result = None /\ None # "backpressure"
  BY <1>1, <1>2 DEF Tracked, BridgeConstants
<1>7. CASE call' # call \/ connecting' # connecting
  <2>1. CASE Joined(k, current) /\ Bridge!IsOpen(current)
               /\ connecting' = connecting /\ call[k].at # "connecting"
    <3>1. current \in Conns /\ connecting' # k
      BY <1>1, <2>1 DEF Bridge!IsOpen, Tracked
    <3>2. call'[k].at = "register" /\ call'[k].conn = current /\ call'[k].result = None /\ Caller(k)
      BY <1>1, <1>6, <2>1 DEF Joined, CallRecords
    <3> QED
      BY <1>5, <2>1, <3>1, <3>2
  <2>2. CASE Moved(k, "lock") /\ connecting' = connecting /\ call[k].at = "idle"
    <3>1. connecting' # k
      BY <1>1, <2>2 DEF Tracked
    <3>2. call'[k].at = "lock" /\ call'[k].conn = call[k].conn /\ call'[k].result = None /\ Caller(k)
      BY <1>1, <1>6, <2>2 DEF Moved, CallRecords
    <3> QED
      BY <1>5, <2>2, <3>1, <3>2
  <2>3. CASE Returned(k, "unavailable") /\ connecting' \in {connecting, None}
               /\ connecting' # k
    <3>2. call'[k].at = "done" /\ call'[k].conn = call[k].conn /\ Caller(k)
      BY <1>1, <2>3 DEF Returned, CallRecords
    <3> QED
      BY <1>5, <2>3, <3>2
  <2>4. CASE Moved(k, "connecting") /\ connecting' = k /\ ~Bridge!IsOpen(current)
    <3>2. /\ call'[k].at = "connecting" /\ call'[k].conn = call[k].conn /\ call'[k].result = None
          /\ Caller(k)
      BY <1>1, <1>6, <2>4 DEF Moved, CallRecords
    <3> QED
      BY <1>5, <2>4, <3>2
  <2> QED
    BY <1>3, <1>7, <2>1, <2>2, <2>3, <2>4
<1> QED
  BY <1>4, <1>7

LEMMA ConnectStep ==
    ASSUME BridgeConstants, BridgeInv, NEW k \in BridgeCalls, Bridge!Connect(k) PROVE BridgeInv'
<1>1. PICK c \in Conns :
        /\ connecting = k /\ conn[c] = "unused"
        /\ conn' = [conn EXCEPT ![c] = "open"] /\ session' = [session EXCEPT ![c] = "open"]
        /\ current' = c /\ connecting' = None
        /\ call' = [call EXCEPT ![k].at = "register", ![k].conn = c]
        /\ UNCHANGED <<inbox, pending, delivering, up, down, work>>
  BY DEF Bridge!Connect
<1>2. Joined(k, c) /\ call[k] \in CallRecords /\ Tracked(k) /\ k # None /\ c # None
  BY <1>1, CallerMoves DEF BridgeInv, BridgeConstants
<1>3. Caller(k) /\ call'[k].at = "register" /\ call'[k].conn = c /\ call'[k].result = call[k].result
  BY <1>2 DEF Joined, CallRecords
<1>4. BridgeTypes'
  BY <1>1, <1>3 DEF BridgeInv, BridgeTypes, Caller
<1>5. conn'[c] = "open" /\ session'[c] = "open" /\ \A d \in Conns : d # c => conn'[d] = conn[d] /\ session'[d] = session[d]
  BY <1>1 DEF BridgeInv, BridgeTypes
<1>6. SessionsGoOn
  BY <1>1, <1>5 DEF SessionsGoOn
<1>7. ASSUME NEW j \in BridgeCalls, j # k PROVE Tracked(j)'
  BY <1>1, <1>2, <1>3, <1>6, <1>7, UntouchedKept DEF Untouched, Caller, BridgeConstants
<1>8. Tracked(k)'
  <2>1. call[k].at = "connecting" /\ call[k].result = None
    BY <1>1, <1>2 DEF Tracked
  <2>2. ~Says(inbox[k], "disconnected") /\ work[k] = "none"
    BY <1>2, <2>1 DEF Tracked
  <2>3. \A d \in Conns : k \notin pending[d] /\ ~Has(up[d], k) /\ Once(up[d], k)
    BY <1>2, <2>1 DEF Tracked
  <2>4. ~Says(inbox[k], "disconnected")' /\ ~Bridge!Working(k)'
    BY <1>1, <2>2 DEF Says, Bridge!Working
  <2>5. \A d \in Conns : k \notin pending'[d] /\ ~(Has(up[d], k)') /\ Once(up[d], k)'
    BY <1>1, <2>3 DEF Has, Once
  <2> QED
    BY <1>1, <1>2, <1>3, <1>5, <2>1, <2>2, <2>4, <2>5 DEF Tracked
<1>9. OneCurrent'
  <2> SUFFICES ASSUME \A j \in BridgeCalls : call'[j].result # "backpressure", NEW d \in Conns, conn'[d] = "open"
               PROVE  d = c
    BY <1>1 DEF OneCurrent
  <2>1. \A j \in BridgeCalls : call[j].result # "backpressure"
    BY <1>3 DEF Caller
  <2>2. ~Bridge!IsOpen(current) /\ (conn[d] = "open" => current = d)
    BY <1>1, <1>2, <2>1 DEF BridgeInv, OneCurrent
  <2> QED
    BY <1>5, <2>2 DEF Bridge!IsOpen, BridgeConstants
<1> QED
  BY <1>4, <1>7, <1>8, <1>9 DEF BridgeInv

\* A step of a call that has its session.
LEMMA CallKept ==
    ASSUME BridgeConstants, BridgeInv, NEW k \in BridgeCalls, Caller(k),
           call[k].at \in {"register", "send", "wait"}, call'[k].at \in {"send", "wait", "done"},
           call[k].at = "wait" => call'[k].at # "send", call'[k].conn = call[k].conn,
           call'[k].at # "done" => call'[k].result = None,
           UNCHANGED <<connecting, conn, delivering, down, session, work>>,
           inbox' \in [BridgeCalls -> Seq(Events)], pending' \in [Conns -> SUBSET BridgeCalls],
           up' \in [Conns -> Seq(Bridge!Frames)],
           \/ current' = current
           \/ call'[k].result = "backpressure" /\ current' \in Conns \cup {None}
           \/ ~Bridge!IsOpen(call[k].conn)
                /\ current' = IF current = call[k].conn THEN None ELSE current,
           \A j \in BridgeCalls \ {k} : inbox'[j] = inbox[j],
           Says(inbox'[k], "disconnected") => Says(inbox[k], "disconnected"),
           call'[k].at \in {"send", "wait"} /\ conn[call[k].conn] = "open" =>
             \/ k \in pending'[call[k].conn] \/ delivering[call[k].conn] = k
             \/ Says(inbox'[k], "response"),
           \A c \in Conns :
             /\ \A j \in BridgeCalls \ {k} : /\ j \in pending'[c] <=> j \in pending[c]
                                             /\ Has(up'[c], j) => Has(up[c], j)
                                             /\ Once(up[c], j) => Once(up'[c], j)
             /\ k \in pending'[c] => k \in pending[c] \/ c = call[k].conn
             /\ Has(up'[c], k) => \/ Has(up[c], k)
                                  \/ call[k].at = "send" /\ call'[k].at = "wait" /\ c = call[k].conn
             /\ Once(up'[c], k)
    PROVE  BridgeInv'
<1>1. Tracked(k) /\ k # None
  BY DEF BridgeInv, BridgeConstants
<1>2. BridgeTypes'
  BY DEF BridgeInv, BridgeTypes, Caller
<1>3. ASSUME NEW j \in BridgeCalls, j # k PROVE Tracked(j)'
  <2>1. SessionsGoOn
    BY DEF SessionsGoOn
  <2> QED
    BY <1>3, <2>1, UntouchedKept DEF Untouched, Caller
<1>4. Tracked(k)'
  <2>1. /\ (Says(inbox[k], "disconnected"))' => Says(inbox[k], "disconnected")
        /\ (Says(inbox[k], "response"))' <=> Says(inbox'[k], "response")
        /\ Bridge!Working(k)' <=> Bridge!Working(k)
    BY DEF Says, Bridge!Working
  <2>2. \A c \in Conns :
          /\ (Has(up[c], k))' => \/ Has(up[c], k)
                                 \/ call[k].at = "send" /\ call'[k].at = "wait" /\ c = call[k].conn
          /\ (Once(up[c], k))'
    BY DEF Has, Once
  <2> QED
    BY <1>1, <2>1, <2>2 DEF Tracked
<1>5. OneCurrent'
  BY OneCurrentKept DEF BridgeInv
<1> QED
  BY <1>2, <1>3, <1>4, <1>5 DEF BridgeInv

LEMMA RegisterPending ==
    ASSUME BridgeConstants, BridgeInv, NEW k \in BridgeCalls, Bridge!RegisterPending(k) PROVE BridgeInv'
<1>1. /\ BridgeTypes /\ Tracked(k) /\ call[k] \in CallRecords /\ call[k].at = "register"
      /\ call[k].conn \in Conns /\ call[k].result = None /\ k # None
  BY CallerMoves DEF BridgeInv, Bridge!RegisterPending, Tracked, BridgeConstants
<1>2. /\ UNCHANGED <<inbox, current, connecting, conn, delivering, up, down, session, work>>
      /\ \/ /\ pending' = [pending EXCEPT ![call[k].conn] = @ \cup {k}]
            /\ Moved(k, "send")
         \/ pending' = pending /\ Returned(k, "disconnected") /\ ~Bridge!IsOpen(call[k].conn)
  BY <1>1, CallerMoves DEF Bridge!RegisterPending, Bridge!serverVars, Bridge!Results
<1>3. /\ Caller(k) /\ call'[k].at \in {"send", "done"} /\ call'[k].conn = call[k].conn
      /\ call'[k].at # "done" => call'[k].result = None
      /\ \/ pending' = pending /\ call'[k].at = "done"
         \/ pending' = [pending EXCEPT ![call[k].conn] = @ \cup {k}]
  BY <1>1, <1>2 DEF Moved, Returned, CallRecords
<1>4. /\ pending' \in [Conns -> SUBSET BridgeCalls]
      /\ call'[k].at = "send" => k \in pending'[call[k].conn]
      /\ \A c \in Conns : /\ \A j \in BridgeCalls \ {k} : j \in pending'[c] <=> j \in pending[c]
                          /\ k \in pending'[c] => k \in pending[c] \/ c = call[k].conn
  <2>1. CASE pending' = pending /\ call'[k].at = "done"
    BY <1>1, <2>1 DEF BridgeTypes
  <2>2. CASE pending' = [pending EXCEPT ![call[k].conn] = @ \cup {k}]
    <3>1. /\ pending \in [Conns -> SUBSET BridgeCalls] /\ call[k].conn \in Conns
          /\ pending' \in [Conns -> SUBSET BridgeCalls]
      BY <1>1, <2>2 DEF BridgeTypes
    <3>2. \A c \in Conns : pending'[c] = IF c = call[k].conn THEN pending[c] \cup {k} ELSE pending[c]
      BY <2>2, <3>1
    <3> QED
      BY <3>1, <3>2
  <2> QED
    BY <1>3, <2>1, <2>2
<1>5. inbox' \in [BridgeCalls -> Seq(Events)] /\ up' \in [Conns -> Seq(Bridge!Frames)]
  BY <1>1, <1>2 DEF BridgeTypes
<1>6. \A c \in Conns : Once(up'[c], k)
  BY <1>1, <1>2 DEF Tracked
<1> QED
  BY <1>1, <1>2, <1>3, <1>4, <1>5, <1>6, CallKept

LEMMA SendRequest ==
    ASSUME BridgeConstants, BridgeInv, NEW k \in BridgeCalls, Bridge!SendRequest(k) PROVE BridgeInv'
<1> DEFINE c == call[k].conn
<1>1. /\ BridgeTypes /\ Tracked(k) /\ call[k] \in CallRecords /\ call[k].at = "send"
      /\ c \in Conns /\ call[k].result = None /\ k # None
  BY CallerMoves DEF BridgeInv, Bridge!SendRequest, Tracked, BridgeConstants
<1>2. UNCHANGED <<inbox, connecting, conn, delivering, down, session, work>>
  BY DEF Bridge!SendRequest, Bridge!serverVars
<1>3. inbox' \in [BridgeCalls -> Seq(Events)] /\ \A d \in Conns : ~Has(up[d], k)
  BY <1>1, <1>2 DEF BridgeTypes, Tracked
<1>4. CASE /\ up' = [up EXCEPT ![c] = Append(@, Bridge!Frame("request", k))]
           /\ Bridge!Goto(k, "wait") /\ UNCHANGED <<current, pending>>
  <2>1. Caller(k) /\ call'[k].at = "wait" /\ call'[k].conn = c /\ call'[k].result = None
    BY <1>1, <1>4, CallerMoves DEF Moved, CallRecords
  <2>2. /\ Bridge!Frame("request", k) \in Bridge!Frames
        /\ Bridge!Frame("request", k).type = "request" /\ Bridge!Frame("request", k).id = k
    BY DEF Bridge!Frame, Bridge!Frames
  <2>3. up[c] \in Seq(Bridge!Frames) /\ up'[c] = Append(up[c], Bridge!Frame("request", k))
    BY <1>1, <1>4 DEF BridgeTypes
  <2>4. /\ Append(up[c], Bridge!Frame("request", k)) \in Seq(Bridge!Frames)
        /\ \A j \in BridgeCalls \ {k} : /\ Has(up'[c], j) => Has(up[c], j)
                                        /\ Once(up[c], j) => Once(up'[c], j)
        /\ Once(up'[c], k)
    BY <1>3, <2>2, <2>3, <1>1, HasAppend
  <2>5. up' \in [Conns -> Seq(Bridge!Frames)] /\ \A d \in Conns : d # c => up'[d] = up[d]
    BY <1>1, <1>4, <2>4 DEF BridgeTypes
  <2>6. \A d \in Conns :
          /\ \A j \in BridgeCalls \ {k} : /\ Has(up'[d], j) => Has(up[d], j)
                                          /\ Once(up[d], j) => Once(up'[d], j)
          /\ Has(up'[d], k) => d = c
          /\ Once(up'[d], k)
    BY <1>1, <1>3, <2>4, <2>5 DEF Tracked
  <2>7. pending' \in [Conns -> SUBSET BridgeCalls]
    BY <1>1, <1>4 DEF BridgeTypes
  <2>8. conn[c] = "open" => k \in pending'[c] \/ delivering[c] = k \/ Says(inbox'[k], "response")
    BY <1>1, <1>2, <1>4 DEF Tracked
  <2> QED
    BY <1>1, <1>2, <1>3, <1>4, <2>1, <2>5, <2>6, <2>7, <2>8, CallKept
<1>5. CASE /\ Bridge!Return(k, IF Bridge!IsOpen(c) THEN "backpressure" ELSE "disconnected")
           /\ Bridge!ClearCurrent(c) /\ Bridge!RemovePending(k) /\ up' = up
  <2>1. /\ Caller(k) /\ call'[k].at = "done" /\ call'[k].conn = c
        /\ call'[k].result = "backpressure" \/ ~Bridge!IsOpen(c)
    <3>1. Returned(k, IF Bridge!IsOpen(c) THEN "backpressure" ELSE "disconnected")
      BY <1>5, CallerMoves DEF Bridge!Results
    <3> QED
      BY <1>1, <3>1 DEF Returned, CallRecords
  <2>2. /\ current' = IF current = c THEN None ELSE current
        /\ current' \in Conns \cup {None}
    BY <1>1, <1>5 DEF Bridge!ClearCurrent, BridgeTypes
  <2>3. /\ pending' \in [Conns -> SUBSET BridgeCalls] /\ up' \in [Conns -> Seq(Bridge!Frames)]
        /\ \A d \in Conns : pending'[d] = pending[d] \ {k}
    BY <1>1, <1>5 DEF Bridge!RemovePending, BridgeTypes
  <2>4. \A d \in Conns : Once(up[d], k)
    BY <1>1 DEF Tracked
  <2> QED
    BY <1>1, <1>2, <1>3, <1>5, <2>1, <2>2, <2>3, <2>4, CallKept
<1> QED
  BY <1>4, <1>5 DEF Bridge!SendRequest

LEMMA ReceiveEvent ==
    ASSUME BridgeConstants, BridgeInv, NEW k \in BridgeCalls, Bridge!ReceiveEvent(k) PROVE BridgeInv'
<1>1. /\ BridgeTypes /\ Tracked(k) /\ call[k] \in CallRecords /\ call[k].at = "wait"
      /\ call[k].conn \in Conns /\ call[k].result = None /\ k # None /\ inbox[k] \in Seq(Events)
  BY CallerMoves DEF BridgeInv, Bridge!ReceiveEvent, Bridge!Waiting, Tracked, BridgeConstants, BridgeTypes
<1>2. /\ UNCHANGED <<connecting, conn, delivering, pending, up, down, session, work>>
      /\ inbox' = [inbox EXCEPT ![k] = Tail(@)] /\ inbox[k] # <<>>
  BY DEF Bridge!ReceiveEvent, Bridge!connVars, Bridge!serverVars
<1>3. /\ \A e : Says(inbox[k], e) <=> Head(inbox[k]) = e \/ Says(Tail(inbox[k]), e)
      /\ Tail(inbox[k]) \in Seq(Events)
  BY <1>1, <1>2, SaysTail
<1>4. /\ inbox'[k] = Tail(inbox[k]) /\ inbox' \in [BridgeCalls -> Seq(Events)]
      /\ \A j \in BridgeCalls \ {k} : inbox'[j] = inbox[j]
  BY <1>1, <1>2, <1>3 DEF BridgeTypes
<1>5. pending' \in [Conns -> SUBSET BridgeCalls] /\ up' \in [Conns -> Seq(Bridge!Frames)]
  BY <1>1, <1>2 DEF BridgeTypes
<1>6. \A c \in Conns : Once(up'[c], k) /\ up'[c] = up[c] /\ pending'[c] = pending[c]
  BY <1>1, <1>2 DEF Tracked
<1>7. CASE Head(inbox[k]) = "response"
  <2>1. Returned(k, "answered") /\ current' = current
    BY <1>7, CallerMoves DEF Bridge!ReceiveEvent, Bridge!Results
  <2>2. Caller(k) /\ call'[k].at = "done" /\ call'[k].conn = call[k].conn
    BY <1>1, <2>1 DEF Returned, CallRecords
  <2> QED
    BY <1>1, <1>2, <1>3, <1>4, <1>5, <1>6, <2>1, <2>2, CallKept
<1>8. CASE Head(inbox[k]) = "disconnected"
  <2>1. Returned(k, "disconnected") /\ current' = IF current = call[k].conn THEN None ELSE current
    BY <1>8, CallerMoves DEF Bridge!ReceiveEvent, Bridge!Results, Bridge!ClearCurrent
  <2>2. Caller(k) /\ call'[k].at = "done" /\ call'[k].conn = call[k].conn
    BY <1>1, <2>1 DEF Returned, CallRecords
  <2>3. ~Bridge!IsOpen(call[k].conn)
    BY <1>1, <1>3, <1>8 DEF Tracked, Bridge!IsOpen
  <2> QED
    BY <1>1, <1>2, <1>3, <1>4, <1>5, <1>6, <2>1, <2>2, <2>3, CallKept
<1>9. CASE Head(inbox[k]) \notin {"response", "disconnected"}
  <2>1. call' = call /\ current' = current
    BY <1>9 DEF Bridge!ReceiveEvent
  <2>2. /\ Caller(k) /\ call'[k].at = "wait" /\ call'[k].conn = call[k].conn
        /\ call'[k].result = None
    BY <1>1, <2>1 DEF Caller, BridgeTypes
  <2>3. conn[call[k].conn] = "open" =>
          \/ k \in pending'[call[k].conn] \/ delivering[call[k].conn] = k
          \/ Says(inbox'[k], "response")
    BY <1>1, <1>2, <1>3, <1>4, <1>9 DEF Tracked
  <2> QED
    BY <1>1, <1>2, <1>3, <1>4, <1>5, <1>6, <2>1, <2>2, <2>3, CallKept
<1> QED
  BY <1>7, <1>8, <1>9

\* Nothing is left to receive only when the session is not open: a registered call is in its
\* session's pending calls, or its answer is on the way.
LEMMA ReceiveNothing ==
    ASSUME BridgeConstants, BridgeInv, NEW k \in BridgeCalls, Bridge!ReceiveNothing(k) PROVE BridgeInv'
<1>1. /\ BridgeTypes /\ Tracked(k) /\ call[k] \in CallRecords /\ call[k].at = "wait"
      /\ call[k].conn \in Conns /\ call[k].result = None /\ k # None /\ inbox[k] = <<>>
  BY CallerMoves DEF BridgeInv, Bridge!ReceiveNothing, Bridge!Waiting, Tracked, BridgeConstants, BridgeTypes
<1>2. /\ UNCHANGED <<connecting, conn, delivering, up, down, session, work, inbox>>
      /\ current' = IF current = call[k].conn THEN None ELSE current
      /\ Returned(k, "disconnected") /\ pending' = [c \in Conns |-> pending[c] \ {k}]
  BY CallerMoves DEF Bridge!ReceiveNothing, Bridge!serverVars, Bridge!ClearCurrent, Bridge!RemovePending,
     Bridge!Results
<1>3. ~Bridge!IsOpen(call[k].conn)
  <2>1. ~Says(inbox[k], "response")
    BY <1>1 DEF Says
  <2> QED
    BY <1>1, <2>1 DEF Tracked, Bridge!IsOpen, Bridge!ReceiveNothing
<1>4. Caller(k) /\ call'[k].at = "done" /\ call'[k].conn = call[k].conn
  BY <1>1, <1>2 DEF Returned, CallRecords
<1>5. /\ pending' \in [Conns -> SUBSET BridgeCalls] /\ up' \in [Conns -> Seq(Bridge!Frames)]
      /\ inbox' \in [BridgeCalls -> Seq(Events)]
      /\ \A c \in Conns : pending'[c] = pending[c] \ {k} /\ up'[c] = up[c]
  BY <1>1, <1>2 DEF BridgeTypes
<1>6. \A c \in Conns : Once(up'[c], k)
  BY <1>1, <1>2 DEF Tracked
<1> QED
  BY <1>1, <1>2, <1>3, <1>4, <1>5, <1>6, CallKept

LEMMA GiveUp ==
    ASSUME BridgeConstants, BridgeInv, NEW k \in BridgeCalls, Bridge!GiveUp(k) PROVE BridgeInv'
<1> DEFINE c == call[k].conn
<1>1. /\ BridgeTypes /\ Tracked(k) /\ call[k] \in CallRecords /\ call[k].at = "wait"
      /\ c \in Conns /\ call[k].result = None /\ k # None
  BY CallerMoves DEF BridgeInv, Bridge!GiveUp, Bridge!Waiting, Tracked, BridgeConstants
<1>2. /\ UNCHANGED <<connecting, conn, current, delivering, down, session, work, inbox>>
      /\ Returned(k, "cancelled") /\ pending' = [d \in Conns |-> pending[d] \ {k}]
      /\ \/ up' = [up EXCEPT ![c] = Append(@, Bridge!Frame("cancel", k))]
         \/ up' = [up EXCEPT ![c] = @]
  BY CallerMoves DEF Bridge!GiveUp, Bridge!serverVars, Bridge!RemovePending, Bridge!Results
<1>4. Caller(k) /\ call'[k].at = "done" /\ call'[k].conn = c
  BY <1>1, <1>2 DEF Returned, CallRecords
<1>5. /\ pending' \in [Conns -> SUBSET BridgeCalls] /\ inbox' \in [BridgeCalls -> Seq(Events)]
      /\ \A d \in Conns : pending'[d] = pending[d] \ {k}
  BY <1>1, <1>2 DEF BridgeTypes
<1>6. /\ Bridge!Frame("cancel", k) \in Bridge!Frames /\ Bridge!Frame("cancel", k).type # "request"
      /\ up[c] \in Seq(Bridge!Frames)
  BY <1>1 DEF Bridge!Frame, Bridge!Frames, BridgeTypes
<1>7. /\ Append(up[c], Bridge!Frame("cancel", k)) \in Seq(Bridge!Frames)
      /\ \A j : /\ Has(Append(up[c], Bridge!Frame("cancel", k)), j) => Has(up[c], j)
                /\ Once(up[c], j) => Once(Append(up[c], Bridge!Frame("cancel", k)), j)
  BY <1>6, HasAppend
<1>8. /\ up' \in [Conns -> Seq(Bridge!Frames)]
      /\ \A d \in Conns : up'[d] = up[d] \/ (d = c /\ up'[d] = Append(up[c], Bridge!Frame("cancel", k)))
  <2> HIDE DEF Bridge!Frames, Bridge!Frame
  <2> QED
    BY <1>1, <1>2, <1>6, <1>7 DEF BridgeTypes
<1>9. \A d \in Conns, j \in BridgeCalls : /\ Has(up'[d], j) => Has(up[d], j)
                                          /\ Once(up[d], j) => Once(up'[d], j)
  BY <1>7, <1>8
<1>10. \A d \in Conns : Once(up'[d], k)
  BY <1>1, <1>9 DEF Tracked
<1> QED
  BY <1>1, <1>2, <1>4, <1>5, <1>8, <1>9, <1>10, CallKept

\* A step of the session's threads or of the application leaves the calls where they are, and the
\* client forgets at most a session that is not open.
Resting ==
    /\ UNCHANGED <<call, connecting>>
    /\ \/ current' = current
       \/ current' = None /\ \A c \in Conns : conn'[c] = "open" => c # current

\* With the calls at rest and no session opened, the open session stays the client's.
LEMMA RestingKept ==
    ASSUME BridgeInv, Resting, \A c \in Conns : conn'[c] = "open" => conn[c] = "open"
    PROVE  OneCurrent'
<1> SUFFICES ASSUME \A k \in BridgeCalls : call'[k].result # "backpressure"
             PROVE  /\ \A c \in Conns : conn'[c] = "open" => current' = c
                    /\ connecting' # None => ~(current' # None /\ conn'[current'] = "open")
  BY DEF OneCurrent, Bridge!IsOpen
<1>1. /\ \A c \in Conns : conn[c] = "open" => current = c
      /\ connecting # None => ~Bridge!IsOpen(current)
      /\ current \in Conns \cup {None}
  BY DEF Resting, BridgeInv, BridgeTypes, OneCurrent
<1> QED
  BY <1>1 DEF Resting, Bridge!IsOpen

ConnsGoOn ==
    \A c \in Conns :
        /\ conn'[c] = "open" => conn[c] = "open"
        /\ conn[c] \in {"closed", "drained"} => conn'[c] \in {"closed", "drained"}
        /\ conn'[c] = "unused" => conn[c] = "unused"
QueuesKept ==
    /\ up' \in [Conns -> Seq(Bridge!Frames)]
    /\ \A c \in Conns, j \in BridgeCalls : /\ Has(up'[c], j) => Has(up[c], j)
                                           /\ Once(up[c], j) => Once(up'[c], j)

LEMMA QueuesRest == ASSUME BridgeInv, up' = up PROVE QueuesKept
BY DEF BridgeInv, BridgeTypes, QueuesKept

LEMMA FrameTaken ==
    ASSUME BridgeInv, NEW c \in Conns, up[c] # <<>>, up' = [up EXCEPT ![c] = Tail(@)] PROVE QueuesKept
<1>1. up \in [Conns -> Seq(Bridge!Frames)]
  BY DEF BridgeInv, BridgeTypes
<1>2. /\ Tail(up[c]) \in Seq(Bridge!Frames)
      /\ \A j : /\ Has(Tail(up[c]), j) => Has(up[c], j)
                /\ Once(up[c], j) => Once(Tail(up[c]), j)
  BY <1>1, HasTail
<1> HIDE DEF Bridge!Frames
<1>3. up' \in [Conns -> Seq(Bridge!Frames)] /\ \A d \in Conns : up'[d] = IF d = c THEN Tail(up[c]) ELSE up[d]
  BY <1>1, <1>2
<1> QED
  BY <1>2, <1>3 DEF QueuesKept

LEMMA FramePut ==
    ASSUME BridgeInv, NEW c \in Conns, NEW t \in {"cancel", "ping", "close"}, NEW n \in BridgeCalls \cup {None},
           \/ up' = [up EXCEPT ![c] = Append(@, Bridge!Frame(t, n))]
           \/ up' = [up EXCEPT ![c] = @]
    PROVE  QueuesKept
<1> DEFINE f == Bridge!Frame(t, n)
<1>1. up \in [Conns -> Seq(Bridge!Frames)]
  BY DEF BridgeInv, BridgeTypes
<1>2. f \in Bridge!Frames /\ f.type # "request"
  BY DEF Bridge!Frame, Bridge!Frames
<1> HIDE DEF f, Bridge!Frames
<1>3. /\ Append(up[c], f) \in Seq(Bridge!Frames)
      /\ \A j : /\ Has(Append(up[c], f), j) => Has(up[c], j)
                /\ Once(up[c], j) => Once(Append(up[c], f), j)
  BY <1>1, <1>2, HasAppend
<1>4. /\ up' \in [Conns -> Seq(Bridge!Frames)]
      /\ \A d \in Conns : up'[d] = up[d] \/ (d = c /\ up'[d] = Append(up[c], f))
  BY <1>1, <1>3 DEF f
<1> QED
  BY <1>3, <1>4 DEF QueuesKept

LEMMA Answered ==
    ASSUME BridgeInv, NEW c \in Conns, NEW t \in {"progress", "response", "pong"},
           NEW n \in BridgeCalls \cup {None}, Bridge!Put(c, Bridge!Frame(t, n))
    PROVE  down' \in [Conns -> Seq(DownFrames)]
<1>1. down \in [Conns -> Seq(DownFrames)] /\ Bridge!Frame(t, n) \in DownFrames
  BY DEF BridgeInv, BridgeTypes, Bridge!Frame, DownFrames
<1> HIDE DEF Bridge!Frame, DownFrames
<1>2. Append(down[c], Bridge!Frame(t, n)) \in Seq(DownFrames)
  BY <1>1
<1> QED
  BY <1>1, <1>2 DEF Bridge!Put

\* What a step that leaves the calls at rest must keep of call k.
LEMMA SessionCall ==
    ASSUME BridgeInv, NEW k \in BridgeCalls, Resting, ConnsGoOn, QueuesKept,
           work'[k] # work[k] => call[k].at \in {"wait", "done"},
           work'[k] \in {"running", "replying"} =>
             call[k].conn \in Conns /\ session'[call[k].conn] \in {"open", "draining"},
           Says(inbox'[k], "disconnected") =>
             \/ Says(inbox[k], "disconnected")
             \/ \E c \in Conns : k \in pending[c] /\ conn'[c] \in {"closed", "drained"},
           call[k].at \in {"send", "wait"} /\ conn'[call[k].conn] = "open" =>
             \/ k \in pending'[call[k].conn] \/ delivering'[call[k].conn] = k
             \/ Says(inbox'[k], "response"),
           \A c \in Conns : /\ k \in pending'[c] => k \in pending[c]
                            /\ Has(up'[c], k) => work'[k] = "none"
    PROVE  Tracked(k)'
<1>1. Tracked(k) /\ call' = call /\ connecting' = connecting
  BY DEF BridgeInv, Resting
<1>2. \A e : (Says(inbox[k], e))' <=> Says(inbox'[k], e)
  BY DEF Says
<1>3. (Bridge!Working(k))' <=> work'[k] \in {"running", "replying"}
  BY DEF Bridge!Working
<1>4. \A c \in Conns : /\ (Has(up[c], k))' => Has(up[c], k) /\ work'[k] = "none"
                       /\ (Once(up[c], k))'
  <2>1. \A c \in Conns : /\ Has(up'[c], k) => Has(up[c], k) /\ work'[k] = "none"
                         /\ Once(up'[c], k)
    BY <1>1 DEF QueuesKept, Tracked
  <2> QED
    BY <2>1 DEF Has, Once
<1>5. /\ call'[k].at # "done" => call'[k].result = None
      /\ call'[k].at \in {"register", "send", "wait"} => call'[k].conn \in Conns
      /\ call'[k].conn \in Conns => conn'[call'[k].conn] # "unused"
      /\ connecting' = k => call'[k].at = "connecting"
      /\ call'[k].at \notin {"wait", "done"} => work'[k] = "none"
      /\ Bridge!Working(k)' => call'[k].conn \in Conns /\ session'[call'[k].conn] \in {"open", "draining"}
  BY <1>1, <1>3 DEF Tracked, ConnsGoOn
<1>6. (Says(inbox[k], "disconnected"))' =>
         /\ call'[k].at \in {"send", "wait", "done"} /\ call'[k].conn \in Conns
         /\ conn'[call'[k].conn] \in {"closed", "drained"}
  BY <1>1, <1>2 DEF Tracked, ConnsGoOn
<1>7. call'[k].at \in {"send", "wait"} /\ conn'[call'[k].conn] = "open" =>
         k \in pending'[call'[k].conn] \/ delivering'[call'[k].conn] = k \/ (Says(inbox[k], "response"))'
  BY <1>1, <1>2
<1>8. \A c \in Conns :
         /\ k \in pending'[c] => call'[k].conn = c /\ call'[k].at \in {"send", "wait", "done"}
         /\ (Has(up[c], k))' => call'[k].conn = c /\ call'[k].at \in {"wait", "done"} /\ work'[k] = "none"
         /\ (Once(up[c], k))'
  BY <1>1, <1>4 DEF Tracked
<1> QED
  BY <1>5, <1>6, <1>7, <1>8 DEF Tracked

BridgeRangesKept ==
    /\ inbox' \in [BridgeCalls -> Seq(Events)]
    /\ conn' \in [Conns -> {"unused", "open", "closed", "drained"}]
    /\ pending' \in [Conns -> SUBSET BridgeCalls]
    /\ delivering' \in [Conns -> BridgeCalls \cup {None}]
    /\ down' \in [Conns -> Seq(DownFrames)]
    /\ session' \in [Conns -> {"none", "open", "draining", "closed"}]
    /\ work' \in [BridgeCalls -> {"none", "running", "replying", "done", "aborted"}]

LEMMA SessionKept ==
    ASSUME BridgeInv, Resting, ConnsGoOn, QueuesKept, BridgeRangesKept,
           \A k \in BridgeCalls : Tracked(k)'
    PROVE  BridgeInv'
<1>1. BridgeTypes'
  BY DEF BridgeInv, BridgeTypes, Resting, QueuesKept, BridgeRangesKept
<1>2. OneCurrent'
  BY RestingKept DEF ConnsGoOn
<1> QED
  BY <1>1, <1>2 DEF BridgeInv

\* A step that moves frames, or an end of a session, and nothing of a call.
LEMMA FramesKept ==
    ASSUME BridgeInv, Resting, ConnsGoOn, QueuesKept, UNCHANGED <<inbox, pending, delivering, work>>,
           conn' \in [Conns -> {"unused", "open", "closed", "drained"}],
           down' \in [Conns -> Seq(DownFrames)],
           session' \in [Conns -> {"none", "open", "draining", "closed"}],
           \A c \in Conns : session[c] \in {"open", "draining"} => session'[c] \in {"open", "draining"}
    PROVE  BridgeInv'
<1>1. BridgeRangesKept
  BY DEF BridgeInv, BridgeTypes, BridgeRangesKept
<1>2. ASSUME NEW k \in BridgeCalls PROVE Tracked(k)'
  <2>1. Tracked(k)
    BY DEF BridgeInv
  <2>2. work'[k] \in {"running", "replying"} =>
             call[k].conn \in Conns /\ session'[call[k].conn] \in {"open", "draining"}
    BY <2>1 DEF Tracked, Bridge!Working
  <2>3. call[k].at \in {"send", "wait"} /\ conn'[call[k].conn] = "open" =>
             \/ k \in pending'[call[k].conn] \/ delivering'[call[k].conn] = k
             \/ Says(inbox'[k], "response")
    BY <2>1 DEF Tracked, ConnsGoOn
  <2>4. \A c \in Conns : Has(up'[c], k) => work'[k] = "none"
    BY <2>1 DEF Tracked, QueuesKept
  <2> QED
    BY <2>2, <2>3, <2>4, SessionCall
<1> QED
  BY <1>1, <1>2, SessionKept

LEMMA HeartbeatStep ==
    ASSUME BridgeConstants, BridgeInv, NEW c \in Conns, Bridge!Heartbeat(c) PROVE BridgeInv'
<1>1. /\ Resting /\ UNCHANGED <<inbox, pending, delivering, work, down, session>>
      /\ conn[c] = "open"
      /\ conn' = conn \/ conn' = [conn EXCEPT ![c] = "closed"]
  BY DEF Bridge!Heartbeat, Bridge!clientVars, Bridge!serverVars, Bridge!Close, Bridge!IsOpen, Resting
<1>2. QueuesKept
  BY QueuesRest, FramePut DEF Bridge!Heartbeat
<1>3. /\ ConnsGoOn /\ conn' \in [Conns -> {"unused", "open", "closed", "drained"}]
      /\ down' \in [Conns -> Seq(DownFrames)]
      /\ session' \in [Conns -> {"none", "open", "draining", "closed"}]
  BY <1>1 DEF BridgeInv, BridgeTypes, ConnsGoOn
<1> QED
  BY <1>1, <1>2, <1>3, FramesKept

LEMMA ReadEofStep ==
    ASSUME BridgeConstants, BridgeInv, NEW c \in Conns, Bridge!ReadEof(c) PROVE BridgeInv'
<1>1. /\ Resting /\ UNCHANGED <<inbox, pending, delivering, work, up, down, session>>
      /\ conn[c] = "open" /\ conn' = [conn EXCEPT ![c] = "closed"]
  BY DEF Bridge!ReadEof, Bridge!clientVars, Bridge!serverVars, Bridge!Close, Bridge!IsOpen, Resting
<1>3. /\ ConnsGoOn /\ conn' \in [Conns -> {"unused", "open", "closed", "drained"}]
      /\ down' \in [Conns -> Seq(DownFrames)]
      /\ session' \in [Conns -> {"none", "open", "draining", "closed"}]
  BY <1>1 DEF BridgeInv, BridgeTypes, ConnsGoOn
<1> QED
  BY <1>1, <1>3, QueuesRest, FramesKept

\* What only the application does to a session, with its tasks at work.
LEMMA ServingSteps ==
    ASSUME BridgeConstants, BridgeInv, NEW c \in Conns,
           Bridge!ServeCancel(c) \/ Bridge!EndSession(c) \/ (Bridge!ServePing(c) /\ Bridge!Room(c))
    PROVE  BridgeInv'
<1>1. /\ Resting /\ UNCHANGED <<inbox, pending, delivering, work, conn>>
      /\ session' = session \/ session' = [session EXCEPT ![c] = "draining"]
      /\ down' = down \/ Bridge!Put(c, Bridge!Frame("pong", None))
      /\ up' = up \/ (up[c] # <<>> /\ up' = [up EXCEPT ![c] = Tail(@)])
  BY DEF Bridge!ServeCancel, Bridge!EndSession, Bridge!ServePing, Bridge!Serving, Bridge!NextUp,
     Bridge!clientVars, Bridge!connVars, Resting
<1>2. QueuesKept
  BY <1>1, QueuesRest, FrameTaken
<1>3. down' \in [Conns -> Seq(DownFrames)]
  BY <1>1, Answered DEF BridgeInv, BridgeTypes
<1>4. /\ ConnsGoOn /\ conn' \in [Conns -> {"unused", "open", "closed", "drained"}]
      /\ session' \in [Conns -> {"none", "open", "draining", "closed"}]
      /\ \A d \in Conns : session[d] \in {"open", "draining"} => session'[d] \in {"open", "draining"}
  BY <1>1 DEF BridgeInv, BridgeTypes, ConnsGoOn
<1> QED
  BY <1>1, <1>2, <1>3, <1>4, FramesKept

LEMMA ProgressStep ==
    ASSUME BridgeConstants, BridgeInv, NEW k \in BridgeCalls, Bridge!ReportProgress(k) PROVE BridgeInv'
<1>1. /\ Resting /\ UNCHANGED <<inbox, pending, delivering, work, conn, up, session>>
      /\ down' = down \/ Bridge!Put(call[k].conn, Bridge!Frame("progress", k))
  BY DEF Bridge!ReportProgress, Bridge!clientVars, Bridge!connVars, Resting
<1>2. call[k].conn \in Conns
  BY DEF Bridge!ReportProgress, BridgeInv, Tracked, Bridge!Working
<1>3. down' \in [Conns -> Seq(DownFrames)]
  BY <1>1, <1>2, Answered DEF BridgeInv, BridgeTypes
<1>4. /\ ConnsGoOn /\ conn' \in [Conns -> {"unused", "open", "closed", "drained"}]
      /\ session' \in [Conns -> {"none", "open", "draining", "closed"}]
  BY <1>1 DEF BridgeInv, BridgeTypes, ConnsGoOn
<1> QED
  BY <1>1, <1>3, <1>4, QueuesRest, FramesKept

LEMMA TimeSteps == ASSUME BridgeInv, Bridge!CooldownEnds \/ Bridge!Hang PROVE BridgeInv'
<1>1. Resting /\ UNCHANGED <<inbox, pending, delivering, work, conn, up, down, session>>
  BY DEF Bridge!CooldownEnds, Bridge!Hang, Bridge!clientVars, Bridge!connVars, Bridge!serverVars, Resting
<1>2. /\ ConnsGoOn /\ conn' \in [Conns -> {"unused", "open", "closed", "drained"}]
      /\ session' \in [Conns -> {"none", "open", "draining", "closed"}]
      /\ down' \in [Conns -> Seq(DownFrames)]
  BY <1>1 DEF BridgeInv, BridgeTypes, ConnsGoOn
<1> QED
  BY <1>1, <1>2, QueuesRest, FramesKept

LEMMA CloseClientStep == ASSUME BridgeConstants, BridgeInv, Bridge!CloseClient PROVE BridgeInv'
<1>1. /\ current # None /\ current \in Conns /\ conn[current] = "open"
      /\ conn' = [conn EXCEPT ![current] = "closed"] /\ current' = None
      /\ UNCHANGED <<call, connecting, inbox, pending, delivering, work, down, session>>
  BY DEF Bridge!CloseClient, Bridge!serverVars, Bridge!Close, Bridge!IsOpen, BridgeInv, BridgeTypes
<1>2. QueuesKept
  BY <1>1, FramePut DEF Bridge!CloseClient
<1>3. /\ ConnsGoOn /\ Resting /\ conn' \in [Conns -> {"unused", "open", "closed", "drained"}]
      /\ down' \in [Conns -> Seq(DownFrames)]
      /\ session' \in [Conns -> {"none", "open", "draining", "closed"}]
  BY <1>1 DEF BridgeInv, BridgeTypes, ConnsGoOn, Resting
<1> QED
  BY <1>1, <1>2, <1>3, FramesKept

\* Pending calls are told that a closed session is gone.
LEMMA DrainStep ==
    ASSUME BridgeConstants, BridgeInv, NEW c \in Conns, Bridge!DrainPending(c) PROVE BridgeInv'
<1>1. /\ Resting /\ UNCHANGED <<delivering, work, up, down, session>>
      /\ conn[c] = "closed" /\ conn' = [conn EXCEPT ![c] = "drained"]
      /\ pending' = [pending EXCEPT ![c] = {}] /\ BridgeTypes
  BY DEF Bridge!DrainPending, Bridge!clientVars, Bridge!serverVars, Resting, BridgeInv
<1>2. ASSUME NEW k \in BridgeCalls
      PROVE  /\ inbox'[k] \in Seq(Events)
             /\ Says(inbox'[k], "disconnected") => Says(inbox[k], "disconnected") \/ k \in pending[c]
             /\ Says(inbox[k], "response") => Says(inbox'[k], "response")
  <2>1. /\ inbox[k] \in Seq(Events)
        /\ \/ inbox'[k] = inbox[k]
           \/ inbox'[k] = Append(inbox[k], "disconnected") /\ k \in pending[c]
    BY <1>1 DEF Bridge!DrainPending, BridgeTypes
  <2>2. /\ Append(inbox[k], "disconnected") \in Seq(Events)
        /\ Says(inbox[k], "response") => Says(Append(inbox[k], "disconnected"), "response")
    BY <2>1, SaysAppend DEF Events
  <2> QED
    BY <2>1, <2>2
<1>3. inbox' \in [BridgeCalls -> Seq(Events)]
  <2>1. inbox' = [k \in BridgeCalls |-> inbox'[k]]
    BY DEF Bridge!DrainPending
  <2> QED
    BY <1>2, <2>1
<1>4. /\ ConnsGoOn /\ QueuesKept /\ conn'[c] = "drained" /\ \A d \in Conns : d # c => pending'[d] = pending[d]
      /\ \A d \in Conns : pending'[d] \subseteq pending[d]
  BY <1>1, QueuesRest DEF BridgeTypes, ConnsGoOn
<1>5. BridgeRangesKept
  BY <1>1, <1>3 DEF BridgeTypes, BridgeRangesKept
<1>6. ASSUME NEW k \in BridgeCalls PROVE Tracked(k)'
  <2>1. Tracked(k)
    BY DEF BridgeInv
  <2>2. work'[k] \in {"running", "replying"} =>
             call[k].conn \in Conns /\ session'[call[k].conn] \in {"open", "draining"}
    BY <1>1, <2>1 DEF Tracked, Bridge!Working
  <2>3. call[k].at \in {"send", "wait"} /\ conn'[call[k].conn] = "open" =>
             \/ k \in pending'[call[k].conn] \/ delivering'[call[k].conn] = k
             \/ Says(inbox'[k], "response")
    BY <1>1, <1>2, <1>4, <2>1 DEF Tracked, ConnsGoOn
  <2>4. \A d \in Conns : Has(up'[d], k) => work'[k] = "none"
    BY <1>1, <2>1 DEF Tracked
  <2>5. Says(inbox'[k], "disconnected") =>
             \/ Says(inbox[k], "disconnected")
             \/ \E d \in Conns : k \in pending[d] /\ conn'[d] \in {"closed", "drained"}
    BY <1>2, <1>4
  <2> QED
    BY <1>1, <1>4, <2>2, <2>3, <2>4, <2>5, SessionCall
<1> QED
  BY <1>1, <1>4, <1>5, <1>6, SessionKept

\* The reader and the hand-over of a response: events come, and a call leaves its session's pending
\* calls for the hand of the reader, and the hand for its own queue.
LEMMA ReaderKept ==
    ASSUME BridgeInv, Resting, UNCHANGED <<conn, up, session, work>>,
           down' \in [Conns -> Seq(DownFrames)], inbox' \in [BridgeCalls -> Seq(Events)],
           pending' \in [Conns -> SUBSET BridgeCalls], delivering' \in [Conns -> BridgeCalls \cup {None}],
           \A k \in BridgeCalls :
             /\ Says(inbox'[k], "disconnected") => Says(inbox[k], "disconnected")
             /\ Says(inbox[k], "response") => Says(inbox'[k], "response")
             /\ \A c \in Conns :
                  /\ k \in pending'[c] => k \in pending[c]
                  /\ k \in pending[c] => k \in pending'[c] \/ delivering'[c] = k
                  /\ delivering[c] = k => \/ delivering'[c] = k \/ call[k].at = "done"
                                          \/ Says(inbox'[k], "response")
    PROVE  BridgeInv'
<1>1. ConnsGoOn /\ QueuesKept /\ BridgeRangesKept
  BY QueuesRest DEF BridgeInv, BridgeTypes, ConnsGoOn, BridgeRangesKept
<1>2. ASSUME NEW k \in BridgeCalls PROVE Tracked(k)'
  <2>1. Tracked(k)
    BY DEF BridgeInv
  <2>2. work'[k] \in {"running", "replying"} =>
             call[k].conn \in Conns /\ session'[call[k].conn] \in {"open", "draining"}
    BY <2>1 DEF Tracked, Bridge!Working
  <2>3. call[k].at \in {"send", "wait"} /\ conn'[call[k].conn] = "open" =>
             \/ k \in pending'[call[k].conn] \/ delivering'[call[k].conn] = k
             \/ Says(inbox'[k], "response")
    BY <2>1 DEF Tracked
  <2>4. \A d \in Conns : Has(up'[d], k) => work'[k] = "none"
    BY <2>1 DEF Tracked
  <2> QED
    BY <1>1, <2>2, <2>3, <2>4, SessionCall
<1> QED
  BY <1>1, <1>2, SessionKept

LEMMA DeliverStep ==
    ASSUME BridgeConstants, BridgeInv, NEW c \in Conns, Bridge!Deliver(c) PROVE BridgeInv'
<1> DEFINE k == delivering[c]
<1>1. /\ Resting /\ UNCHANGED <<conn, pending, up, down, session, work>> /\ BridgeTypes
      /\ k \in BridgeCalls /\ inbox[k] \in Seq(Events)
      /\ \/ call[k].at = "done" /\ inbox' = inbox
         \/ inbox' = [inbox EXCEPT ![k] = Append(@, "response")]
      /\ delivering' = [delivering EXCEPT ![c] = None]
  BY DEF Bridge!Deliver, Bridge!serverVars, Resting, BridgeInv, BridgeTypes
<1>2. /\ Append(inbox[k], "response") \in Seq(Events) /\ Says(Append(inbox[k], "response"), "response")
      /\ Says(Append(inbox[k], "response"), "disconnected") <=> Says(inbox[k], "disconnected")
  BY <1>1, SaysAppend DEF Events
<1>3. /\ inbox' \in [BridgeCalls -> Seq(Events)]
      /\ \A j \in BridgeCalls : j # k => inbox'[j] = inbox[j]
      /\ \/ call[k].at = "done" /\ inbox'[k] = inbox[k]
         \/ inbox'[k] = Append(inbox[k], "response")
  BY <1>1, <1>2 DEF BridgeTypes
<1>4. /\ delivering' \in [Conns -> BridgeCalls \cup {None}]
      /\ \A d \in Conns : d # c => delivering'[d] = delivering[d]
      /\ down' \in [Conns -> Seq(DownFrames)] /\ pending' \in [Conns -> SUBSET BridgeCalls]
  BY <1>1 DEF BridgeTypes
<1>5. ASSUME NEW j \in BridgeCalls
      PROVE  /\ Says(inbox'[j], "disconnected") => Says(inbox[j], "disconnected")
             /\ Says(inbox[j], "response") => Says(inbox'[j], "response")
             /\ \A d \in Conns :
                  delivering[d] = j => \/ delivering'[d] = j \/ call[j].at = "done"
                                       \/ Says(inbox'[j], "response")
  BY <1>2, <1>3, <1>4
<1> QED
  BY <1>1, <1>3, <1>4, <1>5, ReaderKept

LEMMA ReadFrameStep ==
    ASSUME BridgeConstants, BridgeInv, NEW c \in Conns, Bridge!ReadFrame(c) PROVE BridgeInv'
<1> DEFINE f == Head(down[c])
           n == f.id
<1>1. /\ Resting /\ UNCHANGED <<conn, up, session, work>> /\ BridgeTypes
      /\ delivering[c] = None /\ down[c] \in Seq(DownFrames) /\ down[c] # <<>>
      /\ down' = [down EXCEPT ![c] = Tail(@)]
      /\ \A k \in BridgeCalls : inbox[k] \in Seq(Events) /\ k # None
  BY DEF Bridge!ReadFrame, Bridge!serverVars, Resting, BridgeInv, BridgeTypes, BridgeConstants
<1>2. f \in DownFrames /\ down' \in [Conns -> Seq(DownFrames)]
  <2>1. Head(down[c]) \in DownFrames /\ Tail(down[c]) \in Seq(DownFrames)
    BY <1>1, QueueTail
  <2> HIDE DEF DownFrames
  <2> QED
    BY <1>1, <2>1 DEF BridgeTypes
<1>3. CASE f.type = "progress"
  <2>1. /\ pending' = pending /\ delivering' = delivering
        /\ \/ inbox' = inbox
           \/ n \in pending[c] /\ inbox' = [inbox EXCEPT ![n] = Append(@, "progress")]
    BY <1>3 DEF Bridge!ReadFrame, Bridge!ReadProgress
  <2>2. \A k \in BridgeCalls :
          /\ Append(inbox[k], "progress") \in Seq(Events)
          /\ Says(Append(inbox[k], "progress"), "disconnected") <=> Says(inbox[k], "disconnected")
          /\ Says(Append(inbox[k], "progress"), "response") <=> Says(inbox[k], "response")
    BY <1>1, SaysAppend DEF Events
  <2>3. /\ inbox' \in [BridgeCalls -> Seq(Events)]
        /\ \A k \in BridgeCalls : inbox'[k] \in {inbox[k], Append(inbox[k], "progress")}
    <3>1. inbox \in [BridgeCalls -> Seq(Events)] /\ pending[c] \subseteq BridgeCalls
      BY <1>1 DEF BridgeTypes
    <3>2. CASE n \in BridgeCalls /\ inbox' = [inbox EXCEPT ![n] = Append(@, "progress")]
      <4>1. Append(inbox[n], "progress") \in Seq(Events)
        BY <2>2, <3>2
      <4> HIDE DEF n
      <4> QED
        BY <3>1, <3>2, <4>1
    <3> QED
      BY <2>1, <3>1, <3>2
  <2>4. pending' \in [Conns -> SUBSET BridgeCalls] /\ delivering' \in [Conns -> BridgeCalls \cup {None}]
    BY <1>1, <2>1 DEF BridgeTypes
  <2>5. \A k \in BridgeCalls :
          /\ Says(inbox'[k], "disconnected") => Says(inbox[k], "disconnected")
          /\ Says(inbox[k], "response") => Says(inbox'[k], "response")
    BY <2>2, <2>3
  <2> QED
    BY <1>1, <1>2, <2>1, <2>3, <2>4, <2>5, ReaderKept
<1>4. CASE f.type = "response" /\ n \in pending[c]
  <2>1. /\ pending' = [pending EXCEPT ![c] = @ \ {n}] /\ delivering' = [delivering EXCEPT ![c] = n]
        /\ inbox' = inbox
    BY <1>4 DEF Bridge!ReadFrame, Bridge!ReadResponse
  <2>2. /\ pending' \in [Conns -> SUBSET BridgeCalls] /\ delivering' \in [Conns -> BridgeCalls \cup {None}]
        /\ inbox' \in [BridgeCalls -> Seq(Events)]
        /\ delivering'[c] = n /\ pending'[c] = pending[c] \ {n}
        /\ \A d \in Conns : d # c => pending'[d] = pending[d] /\ delivering'[d] = delivering[d]
    BY <1>1, <1>4, <2>1 DEF BridgeTypes
  <2> QED
    BY <1>1, <1>2, <2>1, <2>2, ReaderKept
<1>5. CASE f.type = "pong" \/ (f.type = "response" /\ n \notin pending[c])
  <2>1. pending' = pending /\ delivering' = delivering /\ inbox' = inbox
    BY <1>5 DEF Bridge!ReadFrame, Bridge!ReadResponse, Bridge!ReadPong
  <2>2. /\ pending' \in [Conns -> SUBSET BridgeCalls] /\ delivering' \in [Conns -> BridgeCalls \cup {None}]
        /\ inbox' \in [BridgeCalls -> Seq(Events)]
    BY <1>1, <2>1 DEF BridgeTypes
  <2> QED
    BY <1>1, <1>2, <2>1, <2>2, ReaderKept
<1> QED
  BY <1>2, <1>3, <1>4, <1>5 DEF DownFrames

\* A step of the application that works on the calls.
LEMMA WorkKept ==
    ASSUME BridgeInv, Resting, QueuesKept, UNCHANGED <<conn, inbox, pending, delivering>>,
           down' \in [Conns -> Seq(DownFrames)],
           session' \in [Conns -> {"none", "open", "draining", "closed"}],
           work' \in [BridgeCalls -> {"none", "running", "replying", "done", "aborted"}],
           \A k \in BridgeCalls :
             /\ work'[k] # work[k] => call[k].at \in {"wait", "done"}
             /\ work'[k] \in {"running", "replying"} =>
                  call[k].conn \in Conns /\ session'[call[k].conn] \in {"open", "draining"}
             /\ \A c \in Conns : Has(up'[c], k) => work'[k] = "none"
    PROVE  BridgeInv'
<1>1. ConnsGoOn /\ BridgeRangesKept
  BY DEF BridgeInv, BridgeTypes, ConnsGoOn, BridgeRangesKept
<1>2. ASSUME NEW k \in BridgeCalls PROVE Tracked(k)'
  <2>1. Tracked(k)
    BY DEF BridgeInv
  <2>2. call[k].at \in {"send", "wait"} /\ conn'[call[k].conn] = "open" =>
             \/ k \in pending'[call[k].conn] \/ delivering'[call[k].conn] = k
             \/ Says(inbox'[k], "response")
    BY <2>1 DEF Tracked
  <2> QED
    BY <1>1, <2>2, SessionCall
<1> QED
  BY <1>1, <1>2, SessionKept

LEMMA FinishStep ==
    ASSUME BridgeConstants, BridgeInv, NEW k \in BridgeCalls, Bridge!FinishWork(k) \/ Bridge!Reply(k)
    PROVE  BridgeInv'
<1>1. /\ Resting /\ UNCHANGED <<conn, inbox, pending, delivering, up, session>> /\ BridgeTypes
      /\ work[k] \in {"running", "replying"}
      /\ \E w \in {"replying", "done"} : work' = [work EXCEPT ![k] = w]
      /\ down' = down \/ Bridge!Put(call[k].conn, Bridge!Frame("response", k))
  BY DEF Bridge!FinishWork, Bridge!Reply, Bridge!clientVars, Bridge!connVars, Resting, BridgeInv
<1>2. \A j \in BridgeCalls : Tracked(j)
  BY DEF BridgeInv
<1>3. /\ call[k].conn \in Conns /\ session[call[k].conn] \in {"open", "draining"}
      /\ call[k].at \in {"wait", "done"} /\ \A c \in Conns : ~Has(up[c], k)
  BY <1>1, <1>2 DEF Tracked, Bridge!Working
<1>4. /\ work' \in [BridgeCalls -> {"none", "running", "replying", "done", "aborted"}]
      /\ \A j \in BridgeCalls : j # k => work'[j] = work[j]
      /\ session' \in [Conns -> {"none", "open", "draining", "closed"}]
  BY <1>1 DEF BridgeTypes
<1>5. down' \in [Conns -> Seq(DownFrames)]
  BY <1>1, <1>3, Answered DEF BridgeTypes
<1>6. ASSUME NEW j \in BridgeCalls
      PROVE  /\ work'[j] # work[j] => call[j].at \in {"wait", "done"}
             /\ work'[j] \in {"running", "replying"} =>
                  call[j].conn \in Conns /\ session'[call[j].conn] \in {"open", "draining"}
             /\ \A c \in Conns : Has(up'[c], j) => work'[j] = "none"
  <2>1. CASE j = k
    BY <1>1, <1>3, <2>1
  <2>2. CASE j # k
    BY <1>1, <1>2, <1>4, <2>2 DEF Tracked, Bridge!Working
  <2> QED
    BY <2>1, <2>2
<1> QED
  BY <1>1, <1>4, <1>5, <1>6, QueuesRest, WorkKept

\* A session that ends takes its tasks with it.
LEMMA AbortSteps ==
    ASSUME BridgeConstants, BridgeInv, NEW c \in Conns,
           Bridge!CloseSession(c) \/ (Bridge!ServePing(c) /\ ~Bridge!Room(c))
    PROVE  BridgeInv'
<1>1. /\ Resting /\ UNCHANGED <<conn, inbox, pending, delivering, down>> /\ BridgeTypes
      /\ session' = [session EXCEPT ![c] = "closed"] /\ work' = Bridge!Aborted(c)
      /\ up' = up \/ (up[c] # <<>> /\ up' = [up EXCEPT ![c] = Tail(@)])
  BY DEF Bridge!CloseSession, Bridge!ServePing, Bridge!Serving, Bridge!NextUp, Bridge!clientVars,
     Bridge!connVars, Resting, BridgeInv
<1>2. QueuesKept
  BY <1>1, QueuesRest, FrameTaken
<1>3. /\ work' \in [BridgeCalls -> {"none", "running", "replying", "done", "aborted"}]
      /\ session' \in [Conns -> {"none", "open", "draining", "closed"}]
      /\ down' \in [Conns -> Seq(DownFrames)]
      /\ \A d \in Conns : d # c => session'[d] = session[d]
  BY <1>1 DEF BridgeTypes, Bridge!Aborted
<1>4. ASSUME NEW j \in BridgeCalls
      PROVE  /\ work'[j] # work[j] => call[j].at \in {"wait", "done"}
             /\ work'[j] \in {"running", "replying"} =>
                  call[j].conn \in Conns /\ session'[call[j].conn] \in {"open", "draining"}
             /\ \A d \in Conns : Has(up'[d], j) => work'[j] = "none"
  <2>1. Tracked(j)
    BY DEF BridgeInv
  <2>2. /\ work'[j] = IF call[j].conn = c /\ Bridge!Working(j) THEN "aborted" ELSE work[j]
        /\ Bridge!Working(j) <=> work[j] \in {"running", "replying"}
    BY <1>1 DEF Bridge!Aborted, Bridge!Working
  <2>3. \A d \in Conns : Has(up'[d], j) => Has(up[d], j)
    BY <1>2 DEF QueuesKept
  <2> QED
    BY <1>3, <2>1, <2>2, <2>3 DEF Tracked
<1> QED
  BY <1>1, <1>2, <1>3, <1>4, WorkKept

\* The one step that starts the work of a call takes its only request from the queue.
LEMMA ServeRequestStep ==
    ASSUME BridgeConstants, BridgeInv, NEW c \in Conns, Bridge!ServeRequest(c) PROVE BridgeInv'
<1> DEFINE n == Head(up[c]).id
<1>1. /\ Resting /\ UNCHANGED <<conn, inbox, pending, delivering, session>> /\ BridgeTypes
      /\ session[c] = "open" /\ up[c] # <<>> /\ Head(up[c]).type = "request"
      /\ up' = [up EXCEPT ![c] = Tail(@)]
      /\ \/ work' = [work EXCEPT ![n] = "running"] /\ down' = down
         \/ work' = work /\ Bridge!Put(c, Bridge!Frame("response", n))
  BY DEF Bridge!ServeRequest, Bridge!Serving, Bridge!NextUp, Bridge!clientVars, Bridge!connVars, Resting,
     BridgeInv
<1>2. QueuesKept /\ up[c] \in Seq(Bridge!Frames) /\ up'[c] = Tail(up[c])
  BY <1>1, FrameTaken DEF BridgeTypes
<1>3. n \in BridgeCalls \cup {None}
  <2>1. Head(up[c]) \in Bridge!Frames
    BY <1>1, <1>2, QueueTail
  <2> QED
    BY <2>1 DEF Bridge!Frames
<1>4. down' \in [Conns -> Seq(DownFrames)]
  <2>1. CASE Bridge!Put(c, Bridge!Frame("response", n))
    BY <1>3, <2>1, Answered
  <2>2. CASE down' = down
    BY <1>1, <2>2 DEF BridgeTypes
  <2> QED
    BY <1>1, <2>1, <2>2
<1>5. /\ work' \in [BridgeCalls -> {"none", "running", "replying", "done", "aborted"}]
      /\ session' \in [Conns -> {"none", "open", "draining", "closed"}]
      /\ \A j \in BridgeCalls : j # n => work'[j] = work[j]
      /\ \A j \in BridgeCalls : work'[j] \in {work[j], "running"}
  <2> HIDE DEF n
  <2>1. /\ work \in [BridgeCalls -> {"none", "running", "replying", "done", "aborted"}]
        /\ session' \in [Conns -> {"none", "open", "draining", "closed"}]
    BY <1>1 DEF BridgeTypes
  <2>2. CASE work' = [work EXCEPT ![n] = "running"]
    BY <2>1, <2>2
  <2>3. CASE work' = work
    BY <2>1, <2>3
  <2> QED
    BY <1>1, <2>2, <2>3
<1>6. ASSUME NEW j \in BridgeCalls
      PROVE  /\ work'[j] # work[j] => call[j].at \in {"wait", "done"} /\ work[j] = "none"
             /\ work'[j] \in {"running", "replying"} =>
                  call[j].conn \in Conns /\ session'[call[j].conn] \in {"open", "draining"}
             /\ \A d \in Conns : Has(up'[d], j) => work'[j] = "none"
  <2>1. Tracked(j)
    BY DEF BridgeInv
  <2>2. \A d \in Conns : Has(up'[d], j) => Has(up[d], j)
    BY <1>2 DEF QueuesKept
  <2>3. CASE j = n
    <3>1. Has(up[c], j) /\ ~Has(up'[c], j)
      BY <1>1, <1>2, <2>1, <2>3, HasTail DEF Tracked
    <3>2. call[j].conn = c /\ call[j].at \in {"wait", "done"} /\ work[j] = "none"
      BY <2>1, <3>1 DEF Tracked
    <3>3. \A d \in Conns : ~Has(up'[d], j)
      BY <2>1, <2>2, <3>1, <3>2 DEF Tracked
    <3> QED
      BY <1>1, <3>2, <3>3
  <2>4. CASE j # n
    BY <1>1, <1>5, <2>1, <2>2, <2>4 DEF Tracked, Bridge!Working
  <2> QED
    BY <2>3, <2>4
<1> HIDE DEF n
<1> QED
  BY <1>1, <1>2, <1>4, <1>5, <1>6, WorkKept

LEMMA BridgeNext ==
    ASSUME BridgeConstants, BridgeInv, Bridge!Next \/ UNCHANGED bridgeVars PROVE BridgeInv'
<1>1. ASSUME NEW k \in BridgeCalls,
             \/ Bridge!TakeCurrent(k) \/ Bridge!CallerStep(k) \/ Bridge!GiveUp(k)
             \/ Bridge!ReportProgress(k) \/ Bridge!FinishWork(k) \/ Bridge!Reply(k)
      PROVE  BridgeInv'
  <2>1. CASE Bridge!TakeCurrent(k) \/ Bridge!LockReconnect(k) \/ Bridge!ConnectFails(k)
    BY <2>1, ConnectingSteps
  <2>2. CASE Bridge!Connect(k)
    BY <2>2, ConnectStep
  <2>3. CASE Bridge!RegisterPending(k)
    BY <2>3, RegisterPending
  <2>4. CASE Bridge!SendRequest(k)
    BY <2>4, SendRequest
  <2>5. CASE Bridge!ReceiveEvent(k)
    BY <2>5, ReceiveEvent
  <2>6. CASE Bridge!ReceiveNothing(k)
    BY <2>6, ReceiveNothing
  <2>7. CASE Bridge!GiveUp(k)
    BY <2>7, GiveUp
  <2>8. CASE Bridge!ReportProgress(k)
    BY <2>8, ProgressStep
  <2>9. CASE Bridge!FinishWork(k) \/ Bridge!Reply(k)
    BY <2>9, FinishStep
  <2> QED
    BY <1>1, <2>1, <2>2, <2>3, <2>4, <2>5, <2>6, <2>7, <2>8, <2>9 DEF Bridge!CallerStep
<1>2. ASSUME NEW c \in Conns, Bridge!ReaderStep(c) \/ Bridge!Heartbeat(c) \/ Bridge!SessionStep(c)
      PROVE  BridgeInv'
  <2>1. CASE Bridge!ReadFrame(c)
    BY <2>1, ReadFrameStep
  <2>2. CASE Bridge!Deliver(c)
    BY <2>2, DeliverStep
  <2>3. CASE Bridge!ReadEof(c)
    BY <2>3, ReadEofStep
  <2>4. CASE Bridge!DrainPending(c)
    BY <2>4, DrainStep
  <2>5. CASE Bridge!Heartbeat(c)
    BY <2>5, HeartbeatStep
  <2>6. CASE Bridge!ServeRequest(c)
    BY <2>6, ServeRequestStep
  <2>7. CASE Bridge!ServeCancel(c) \/ Bridge!EndSession(c) \/ (Bridge!ServePing(c) /\ Bridge!Room(c))
    BY <2>7, ServingSteps
  <2>8. CASE Bridge!CloseSession(c) \/ (Bridge!ServePing(c) /\ ~Bridge!Room(c))
    BY <2>8, AbortSteps
  <2> QED
    BY <1>2, <2>1, <2>2, <2>3, <2>4, <2>5, <2>6, <2>7, <2>8 DEF Bridge!ReaderStep, Bridge!SessionStep
<1>3. ASSUME UNCHANGED bridgeVars PROVE BridgeInv'
  <2>1. Resting /\ UNCHANGED <<inbox, pending, delivering, work, conn, up, down, session>>
    BY <1>3 DEF bridgeVars, Resting
  <2>2. /\ ConnsGoOn /\ conn' \in [Conns -> {"unused", "open", "closed", "drained"}]
        /\ session' \in [Conns -> {"none", "open", "draining", "closed"}]
        /\ down' \in [Conns -> Seq(DownFrames)]
    BY <2>1 DEF BridgeInv, BridgeTypes, ConnsGoOn
  <2> QED
    BY <2>1, <2>2, QueuesRest, FramesKept
<1> QED
  BY <1>1, <1>2, <1>3, CloseClientStep, TimeSteps DEF Bridge!Next

LEMMA BridgeHolds == ASSUME BridgeInv PROVE Bridge!SessionsAccounted
<1>1. Bridge!RacersShareSession
  <2> SUFFICES ASSUME \A k \in BridgeCalls : call[k].result # "backpressure"
               PROVE  Bridge!OneLiveSession
    BY DEF Bridge!RacersShareSession
  <2>1. Bridge!Live \subseteq {current}
    BY DEF BridgeInv, OneCurrent, Bridge!Live
  <2>2. Cardinality({}) = 0 /\ Cardinality({current}) = 1
    BY FS_EmptySet, FS_Singleton
  <2>3. Bridge!Live = {} \/ Bridge!Live = {current}
    BY <2>1
  <2>4. Bridge!Cardinality(Bridge!Live) = Cardinality(Bridge!Live)
    BY Zenon DEF Bridge!Cardinality, Cardinality
  <2>5. Cardinality(Bridge!Live) = 0 \/ Cardinality(Bridge!Live) = 1
    BY <2>2, <2>3
  <2> QED
    BY <2>4, <2>5 DEF Bridge!OneLiveSession
<1>2. Bridge!SessionTakesItsWork
  BY DEF BridgeInv, Tracked, Bridge!SessionTakesItsWork
<1> QED
  BY <1>1, <1>2 DEF Bridge!SessionsAccounted

\* The application starts the work of a call when it reads its request, and never afterwards.
LEMMA WorkStartsOnce ==
    ASSUME BridgeInv, Bridge!Next
    PROVE  \A k \in BridgeCalls :
              (work[k] # "none" /\ work'[k] # work[k]) => work'[k] # "running"
<1> SUFFICES ASSUME NEW k \in BridgeCalls, work[k] # "none", work'[k] # work[k], work'[k] = "running"
             PROVE  FALSE
  OBVIOUS
<1>1. BridgeTypes /\ Tracked(k)
  BY DEF BridgeInv
<1>2. \/ \E c \in Conns : \/ Bridge!ServeRequest(c) \/ Bridge!ServePing(c) \/ Bridge!CloseSession(c)
      \/ \E j \in BridgeCalls : Bridge!FinishWork(j) \/ Bridge!Reply(j)
  <2>1. ~UNCHANGED work
    OBVIOUS
  <2> QED
    BY <2>1 DEF Bridge!Next, Bridge!CallerStep, Bridge!ReaderStep, Bridge!SessionStep, Bridge!serverVars,
       Bridge!TakeCurrent, Bridge!LockReconnect, Bridge!Connect, Bridge!ConnectFails,
       Bridge!CooldownEnds, Bridge!RegisterPending, Bridge!SendRequest, Bridge!ReceiveEvent,
       Bridge!ReceiveNothing, Bridge!GiveUp, Bridge!DrainPending, Bridge!ReadFrame, Bridge!Deliver,
       Bridge!ReadEof, Bridge!Heartbeat, Bridge!CloseClient, Bridge!ServeCancel, Bridge!EndSession,
       Bridge!ReportProgress, Bridge!Hang
<1>3. ASSUME NEW c \in Conns, Bridge!ServePing(c) \/ Bridge!CloseSession(c) PROVE FALSE
  <2>1. work' = work \/ work' = Bridge!Aborted(c)
    BY <1>3 DEF Bridge!ServePing, Bridge!CloseSession
  <2> QED
    BY <2>1 DEF Bridge!Aborted
<1>4. ASSUME NEW j \in BridgeCalls, Bridge!FinishWork(j) \/ Bridge!Reply(j) PROVE FALSE
  BY <1>1, <1>4 DEF Bridge!FinishWork, Bridge!Reply, BridgeTypes
<1>5. ASSUME NEW c \in Conns, Bridge!ServeRequest(c) PROVE FALSE
  <2>1. /\ up[c] # <<>> /\ up[c] \in Seq(Bridge!Frames) /\ Head(up[c]).type = "request"
        /\ work' = [work EXCEPT ![Head(up[c]).id] = "running"]
    BY <1>1, <1>5 DEF Bridge!ServeRequest, Bridge!Serving, BridgeTypes
  <2>2. Head(up[c]).id = k
    BY <1>1, <2>1 DEF BridgeTypes
  <2> QED
    BY <1>1, <2>1, <2>2, HasTail DEF Tracked
<1> QED
  BY <1>2, <1>3, <1>4, <1>5

BridgePart == driven = "bridge" => BridgeInv

LEMMA BridgePartNext ==
    ASSUME BridgeConstants, BridgePart, [Next]_vars
    PROVE  /\ BridgePart' /\ driven' = driven
           /\ driven = "bridge" => Bridge!Next \/ UNCHANGED bridgeVars
           /\ driven # "bridge" => UNCHANGED bridgeVars
<1> USE DEF Next, vars, BridgeAlone, StdioAlone, ApprovalAlone, BackgroundAlone, UpdateAlone,
            HelperAlone, RunsAlone, ExecAlone, ReconnectsAlone
<1>1. driven' = driven
  OBVIOUS
<1>2. driven = "bridge" => Bridge!Next \/ UNCHANGED bridgeVars
  OBVIOUS
<1>3. driven # "bridge" => UNCHANGED bridgeVars
  OBVIOUS
<1> QED
  BY <1>1, <1>2, <1>3, BridgeNext DEF BridgePart

\* As long as no full queue refused a call, calls that race for a session share one; a session
\* that is over leaves no task at work; and no call is started twice, whatever happens to its
\* session.  For any number of calls and of sessions.
THEOREM SessionsStayAccounted == BridgeConstants => (Spec => SessionsAccounted)
<1> SUFFICES ASSUME BridgeConstants PROVE Spec => SessionsAccounted
  OBVIOUS
<1>1. Init => BridgePart
  BY BridgeInit DEF Init, BridgePart
<1>2. BridgePart /\ [Next]_vars => BridgePart'
  BY BridgePartNext
<1>3. BridgePart => (driven = "bridge" => Bridge!SessionsAccounted)
  BY BridgeHolds DEF BridgePart
<1>u. ASSUME UNCHANGED bridgeVars PROVE UNCHANGED Bridge!vars
  BY <1>u DEF bridgeVars, Bridge!vars, Bridge!clientVars, Bridge!connVars, Bridge!serverVars
<1>4. BridgePart /\ [Next]_vars =>
        [\A k \in BridgeCalls : (work[k] # "none" /\ work'[k] # work[k])
            => work'[k] # "running"]_(Bridge!vars)
  <2> SUFFICES ASSUME BridgePart, [Next]_vars, ~(UNCHANGED Bridge!vars)
               PROVE  \A k \in BridgeCalls : (work[k] # "none" /\ work'[k] # work[k])
                         => work'[k] # "running"
    OBVIOUS
  <2>1. BridgeInv /\ Bridge!Next
    BY <1>u, BridgePartNext DEF BridgePart
  <2> QED
    BY <2>1, WorkStartsOnce
<1> QED
  BY <1>1, <1>2, <1>3, <1>4, PTL DEF Spec, SessionsAccounted, Bridge!NeverReplayed
===============================================================================
