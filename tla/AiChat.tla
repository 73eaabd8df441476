--------------------------------- MODULE AiChat ---------------------------------
(***************************************************************************)
(* The conversations of the Copilot (services/ai): the requests that       *)
(* generate an answer, with the commands the model asks for in between     *)
(* (chat_lifecycle.rs, chat_runtime.rs), and the conversations on disk,    *)
(* which the user renames, prunes and deletes meanwhile (store.rs,         *)
(* conversations.rs).  A conversation has at most one request; requests    *)
(* and title summaries share the permits of one semaphore.                 *)
(*                                                                         *)
(* A question is known by the request that asked it, and so is the title   *)
(* made of it; a target is a revision of the tab's session; one preview of *)
(* it is open at a time.  Providers, texts and what the visible terminal   *)
(* shows are left out, and so are conversations of older versions.         *)
(***************************************************************************)
EXTENDS Naturals, Sequences, FiniteSets, SequencesExt

CONSTANTS
    Convs, Requests,
    Turns,          \* MAX_COPILOT_TOOL_ITERATIONS
    Calls,          \* MAX_COPILOT_TOOL_CALLS_PER_TURN
    Permits,        \* MAX_CONCURRENT_CHAT_REQUESTS
    MaxRevision, MaxMode,   \* bounds: changes of the tab and of the mode
    Edits,          \* bound: titles given, messages and conversations deleted
    Faults, Crashes,        \* bounds: failing writes, restarts
    None

VARIABLES
    file,       \* the conversations on disk
    index,      \* the conversations the index lists
    active,     \* by_conversation
    cancelled,  \* requests whose token is cancelled
    req,        \* the requests
    namer,      \* title summaries
    preview,    \* the confirmed context: a revision of the tab
    revision,   \* of the tab
    mode,       \* Copilot mode and its generation
    ran,        \* the commands each request has run
    edits, faults, crashes

vars == <<file, index, active, cancelled, req, namer, preview, revision, mode, ran,
          edits, faults, crashes>>

Modes == {"pure", "semi", "full"}
Titles == {"new", "user", "model"} \cup Requests
Message == [kind : {"question", "answer"}, of : Requests, by : Requests]
Idle == [at |-> "idle", conv |-> None, retry |-> FALSE, question |-> None, mode |-> "pure",
         generation |-> 0, target |-> None, turn |-> 0, calls |-> 0, follow |-> FALSE,
         drafts |-> 0, kept |-> FALSE, text |-> FALSE]
NoSummary == [at |-> "idle", from |-> None]

Streaming == {"turn", "call", "approve", "authorize", "exec", "running", "append"}
Busy == {"prepare", "persist", "queued"} \cup Streaming

TypeOK ==
    /\ file \in [Convs -> [at : {"never", "kept", "gone"}, title : Titles,
                           messages : Seq(Message)]]
    /\ index \subseteq Convs
    /\ active \in [Convs -> Requests \cup {None}] /\ cancelled \subseteq Requests
    /\ \A r \in Requests :
         /\ req[r].at \in Busy \cup {"idle", "done"} /\ req[r].conv \in Convs \cup {None}
         /\ req[r].question \in Requests \cup {None} /\ req[r].mode \in Modes
         /\ req[r].turn \in 0..Turns /\ req[r].calls \in 0..Calls /\ req[r].drafts \in 0..Turns
    /\ namer \in [Convs -> [at : {"idle", "waits", "asks"}, from : Titles \cup {None}]]
    /\ preview \in 0..MaxRevision \cup {None} /\ revision \in 0..MaxRevision
    /\ mode \in [kind : Modes, generation : 0..MaxMode]
    /\ faults \in 0..Faults /\ crashes \in 0..Crashes /\ edits \in 0..Edits

Init ==
    /\ file = [c \in Convs |-> [at |-> "never", title |-> "new", messages |-> <<>>]]
    /\ index = {}
    /\ active = [c \in Convs |-> None]
    /\ cancelled = {} /\ req = [r \in Requests |-> Idle]
    /\ namer = [c \in Convs |-> NoSummary]
    /\ preview = None /\ revision = 0 /\ mode = [kind |-> "pure", generation |-> 0]
    /\ ran = [r \in Requests |-> <<>>]
    /\ edits = 0 /\ faults = 0 /\ crashes = 0

-------------------------------------------------------------------------------
(***************************************************************************)
(* The conversations on disk.                                              *)
(***************************************************************************)
disk == <<file, index>>
chats == <<active, cancelled, req, ran>>
around == <<namer, preview, revision, mode, edits, crashes>>
rest == <<preview, revision, mode, crashes>>

\* require_indexed_conversation and read_stored_conversation
Stored(c) == c \in index /\ file[c].at = "kept"
Messages(c) == file[c].messages

\* persist_conversation: the file, then the index; either write may fail.
Persist(c, conversation, outcome) ==
    /\ file' = IF outcome = "body" THEN file ELSE [file EXCEPT ![c] = conversation]
    /\ index' = IF outcome = "ok" THEN index \cup {c} ELSE index
    /\ IF outcome = "ok" THEN UNCHANGED faults ELSE faults < Faults /\ faults' = faults + 1

Outcomes == {"ok", "body", "index"}

\* create_conversation; ids are never used again.
Create(c, outcome) ==
    /\ file[c].at = "never"
    /\ Persist(c, [at |-> "kept", title |-> "new", messages |-> <<>>], outcome)
    /\ UNCHANGED <<chats, around>>

Edit == edits < Edits /\ edits' = edits + 1

\* rename_conversation, at any time
Rename(c, outcome) ==
    /\ Stored(c) /\ Edit
    /\ Persist(c, [file[c] EXCEPT !.title = "user"], outcome)
    /\ UNCHANGED <<chats, namer, rest>>

\* delete_message, never while an answer is generated
DeleteMessage(c, i, outcome) ==
    /\ active[c] = None /\ Stored(c) /\ i \in DOMAIN Messages(c) /\ Edit
    /\ Persist(c, [file[c] EXCEPT !.messages = RemoveAt(@, i)], outcome)
    /\ UNCHANGED <<chats, namer, rest>>

\* The index, then the file; either write may fail.
RemoveFile(c, outcome) ==
    /\ index' = IF outcome = "index" THEN index ELSE index \ {c}
    /\ file' = IF outcome = "ok"
               THEN [file EXCEPT ![c] = [at |-> "gone", title |-> "new", messages |-> <<>>]]
               ELSE file
    /\ IF outcome = "ok" THEN UNCHANGED faults ELSE faults < Faults /\ faults' = faults + 1

\* Mistaken variant: a conversation is deleted under its answer.
DeleteConversationAnyway(c, outcome) ==
    /\ c \in index /\ Edit
    /\ RemoveFile(c, outcome)
    /\ UNCHANGED <<chats, namer, rest>>

\* delete_conversation, never while an answer is generated
DeleteConversation(c, outcome) ==
    /\ active[c] = None /\ c \in index /\ Edit
    /\ RemoveFile(c, outcome)
    /\ UNCHANGED <<chats, namer, rest>>

\* A permit of CHAT_REQUEST_SEMAPHORE is held while an answer or a title is made.
Held == Cardinality({r \in Requests : req[r].at \in Streaming})
          + Cardinality({c \in Convs : namer[c].at = "asks"})

\* summarize_conversation_title: the conversation is read first,
Summarize(c) ==
    /\ Stored(c) /\ Messages(c) # <<>> /\ namer[c].at = "idle"
    /\ namer' = [namer EXCEPT ![c] = [at |-> "waits", from |-> file[c].title]]
    /\ UNCHANGED <<disk, chats, rest, edits, faults>>

\* then a permit is awaited and the model asked,
AskTitle(c) ==
    /\ namer[c].at = "waits" /\ Held < Permits
    /\ namer' = [namer EXCEPT ![c].at = "asks"]
    /\ UNCHANGED <<disk, chats, rest, edits, faults>>

\* and a title that somebody changed meanwhile stays.
Summarized(c, answered, outcome) ==
    /\ namer[c].at = "asks"
    /\ namer' = [namer EXCEPT ![c] = NoSummary]
    /\ IF answered /\ Stored(c) /\ file[c].title = namer[c].from
       THEN Persist(c, [file[c] EXCEPT !.title = "model"], outcome)
       ELSE outcome = "ok" /\ UNCHANGED <<disk, faults>>
    /\ UNCHANGED <<chats, rest, edits>>

-------------------------------------------------------------------------------
(***************************************************************************)
(* What happens around a request.                                          *)
(***************************************************************************)

\* create_context_preview, and its expiry (prune_expired_context_snapshots)
SetPreview(p) ==
    /\ p \in {None, revision} /\ preview # p /\ preview' = p
    /\ UNCHANGED <<disk, chats, namer, revision, mode, edits, faults, crashes>>

\* The tab gets another session (touch_ai_session_revision).
ChangeTab ==
    /\ revision < MaxRevision /\ revision' = revision + 1
    /\ UNCHANGED <<disk, chats, namer, preview, mode, edits, faults, crashes>>

\* set_copilot_mode
SetMode(m) ==
    /\ m # mode.kind /\ mode.generation < MaxMode
    /\ mode' = [kind |-> m, generation |-> mode.generation + 1]
    /\ UNCHANGED <<disk, chats, namer, preview, revision, edits, faults, crashes>>

\* cancel_chat: the window learns of a request when it is launched.
Cancel(r) ==
    /\ req[r].at \in Busy \ {"prepare", "persist"} /\ r \notin cancelled
    /\ cancelled' = cancelled \cup {r}
    /\ UNCHANGED <<disk, active, req, ran, faults, around>>

\* Only what is on disk survives the process.
Crash ==
    /\ crashes < Crashes /\ crashes' = crashes + 1
    /\ active' = [c \in Convs |-> None]
    /\ req' = [r \in Requests |-> IF req[r].at \in Busy THEN [req[r] EXCEPT !.at = "done"] ELSE req[r]]
    /\ namer' = [c \in Convs |-> NoSummary]
    /\ preview' = None /\ mode' = [kind |-> "pure", generation |-> 0]
    /\ UNCHANGED <<disk, cancelled, revision, ran, edits, faults>>

-------------------------------------------------------------------------------
(***************************************************************************)
(* A request.                                                              *)
(***************************************************************************)
Goes(r, at) == req' = [req EXCEPT ![r].at = at]

\* unregister_chat_request: however it ends, the conversation is free again.
Ends(r) ==
    /\ Goes(r, "done")
    /\ active' = [active EXCEPT ![req[r].conv] = IF @ = r THEN None ELSE @]

\* take_context_snapshot: a preview serves one request.
TakePreview(attach) ==
    /\ attach => preview # None
    /\ preview' = IF attach THEN None ELSE preview

\* start_chat and retry_chat: the request is registered, then the mode and the
\* preview are read.
Start(r, c, retry, attach) ==
    /\ req[r].at = "idle" /\ active[c] = None
    /\ active' = [active EXCEPT ![c] = r]
    /\ TakePreview(attach)
    /\ req' = [req EXCEPT ![r] = [Idle EXCEPT !.at = "prepare", !.conv = c, !.retry = retry,
                 !.mode = mode.kind, !.generation = mode.generation,
                 !.target = IF attach THEN preview ELSE None, !.follow = mode.kind # "pure"]]
    /\ UNCHANGED <<disk, cancelled, ran, namer, revision, mode, edits, faults, crashes>>

\* resolve_context_target, compared with the target that was confirmed
SameTarget(r) == req[r].target \in {None, revision}

\* consume_context_snapshot and validate_context_for_mode; the request may be
\* refused for other reasons as well.
CheckContext(r) ==
    /\ req[r].at = "prepare"
    /\ \/ /\ SameTarget(r) /\ (req[r].mode # "pure" => req[r].target # None)
          /\ Goes(r, "persist") /\ UNCHANGED active
       \/ Ends(r)
    /\ UNCHANGED <<disk, cancelled, ran, faults, around>>

Launch(r, question) ==
    req' = [req EXCEPT ![r].at = "queued", ![r].question = question] /\ UNCHANGED active

\* prepare_start_chat: the question is stored; the first one gives the title.
StoreQuestion(r, outcome) ==
    LET c == req[r].conv IN
    /\ req[r].at = "persist" /\ ~req[r].retry
    /\ IF Stored(c)
       THEN Persist(c, [at |-> "kept",
                        title |-> IF Messages(c) = <<>> THEN r ELSE file[c].title,
                        messages |-> Append(Messages(c),
                                            [kind |-> "question", of |-> r, by |-> r])], outcome)
       ELSE outcome = "ok" /\ UNCHANGED <<disk, faults>>
    /\ IF Stored(c) /\ outcome = "ok" THEN Launch(r, r) ELSE Ends(r)
    /\ UNCHANGED <<cancelled, ran, around>>

\* prepare_retry_chat: the last question, unless it is answered; it is stored again
\* with the context, or another provider, that comes with the retry.
RetryQuestion(r, outcome) ==
    LET c == req[r].conv
        open == Stored(c) /\ Messages(c) # <<>> /\ Last(Messages(c)).kind = "question"
    IN
    /\ req[r].at = "persist" /\ req[r].retry
    /\ \/ open /\ Persist(c, file[c], outcome)
       \/ /\ ~open \/ req[r].target = None
          /\ outcome = "ok" /\ UNCHANGED <<disk, faults>>
    /\ IF open /\ outcome = "ok" THEN Launch(r, Last(Messages(c)).of) ELSE Ends(r)
    /\ UNCHANGED <<cancelled, ran, around>>

\* run_chat_request: a permit first, unless it is cancelled or its window is gone
Acquire(r) ==
    /\ req[r].at = "queued"
    /\ \/ Ends(r)
       \/ Held < Permits /\ Goes(r, "turn") /\ UNCHANGED active
    /\ UNCHANGED <<disk, cancelled, ran, faults, around>>

\* A turn of the model: an error, its last text, or calls of tools.  Later turns
\* read the terminal again, which must still be the same
\* (refresh_copilot_prompt_context).
Turn(r) ==
    /\ req[r].at = "turn"
    /\ \/ Ends(r)
       \/ /\ r \notin cancelled /\ (req[r].turn > 0 => SameTarget(r))
          /\ \E text \in BOOLEAN :
               \/ req' = [req EXCEPT ![r].at = "append", ![r].text = @ \/ text,
                            ![r].drafts = @ + IF text THEN 1 ELSE 0]
               \/ /\ req[r].follow
                  /\ \E n \in 1..Calls :
                       req' = [req EXCEPT ![r].at = "call", ![r].calls = n, ![r].kept = text,
                                 ![r].text = @ \/ text]
          /\ UNCHANGED active
    /\ UNCHANGED <<disk, cancelled, ran, faults, around>>

\* copilot_mode_state_is_current
ModeIsCurrent(r) ==
    mode = [kind |-> req[r].mode, generation |-> req[r].generation] /\ mode.kind # "pure"

\* Mistaken variant: a call that did not succeed does not stop the next ones.
ResultKeepsGoing(r, executed, valid) ==
    \/ Ends(r)
    \/ /\ req[r].calls > 1
       /\ req' = [req EXCEPT ![r].at = "call", ![r].calls = @ - 1, ![r].kept = @ \/ valid]
       /\ UNCHANGED active
    \/ /\ req[r].calls = 1 /\ req[r].turn + 1 < Turns
       /\ req' = [req EXCEPT ![r].at = "turn", ![r].calls = 0, ![r].turn = @ + 1,
                    ![r].kept = FALSE, ![r].drafts = @ + IF req[r].kept \/ valid THEN 1 ELSE 0]
       /\ UNCHANGED active

\* The result of a call, kept with the message if the call was a valid one.  After
\* a call that was not executed no other one follows; the turn ends with its last
\* call.  The request ends if the last turn ends in calls, and if there is no
\* window to tell the result to.
Result(r, executed, valid) ==
    \/ Ends(r)
    \/ /\ req[r].calls > 1
       /\ req' = [req EXCEPT ![r].at = "call", ![r].calls = @ - 1, ![r].kept = @ \/ valid,
                    ![r].follow = @ /\ executed]
       /\ UNCHANGED active
    \/ /\ req[r].calls = 1 /\ req[r].turn + 1 < Turns
       /\ req' = [req EXCEPT ![r].at = "turn", ![r].calls = 0, ![r].turn = @ + 1,
                    ![r].kept = FALSE, ![r].drafts = @ + IF req[r].kept \/ valid THEN 1 ELSE 0,
                    ![r].follow = @ /\ executed]
       /\ UNCHANGED active

\* execute_copilot_tool_call up to the approval.  A call that is not valid, whose
\* target or mode is no longer the confirmed one, or that follows one that was not
\* executed, has its result at once.
CheckCall(r) ==
    /\ req[r].at = "call"
    /\ \/ r \in cancelled /\ Ends(r)
       \/ r \notin cancelled /\ \E valid \in BOOLEAN : Result(r, FALSE, valid)
       \/ /\ r \notin cancelled /\ req[r].follow /\ SameTarget(r) /\ ModeIsCurrent(r)
          /\ Goes(r, IF req[r].mode = "semi" THEN "approve" ELSE "authorize")
          /\ UNCHANGED active
    /\ UNCHANGED <<disk, cancelled, ran, faults, around>>

\* The user approves, rejects, or hands the command to the visible terminal.
Decide(r) ==
    /\ req[r].at = "approve"
    /\ \/ r \in cancelled /\ Ends(r)
       \/ r \notin cancelled /\ Goes(r, "authorize") /\ UNCHANGED active
       \/ r \notin cancelled /\ Result(r, FALSE, TRUE)
    /\ UNCHANGED <<disk, cancelled, ran, faults, around>>

\* The mode and the guardrails once more.
Authorize(r) ==
    /\ req[r].at = "authorize"
    /\ \/ r \in cancelled /\ Ends(r)
       \/ /\ r \notin cancelled /\ ModeIsCurrent(r) /\ SameTarget(r)
          /\ Goes(r, "exec") /\ UNCHANGED active
       \/ r \notin cancelled /\ Result(r, FALSE, TRUE)
    /\ UNCHANGED <<disk, cancelled, ran, faults, around>>

\* execute_remote_command_cancellable, with the session that is expected
Execute(r) ==
    /\ req[r].at = "exec"
    /\ \/ r \in cancelled /\ Ends(r) /\ UNCHANGED ran
       \/ r \notin cancelled /\ Result(r, FALSE, TRUE) /\ UNCHANGED ran
       \/ /\ r \notin cancelled /\ SameTarget(r)
          /\ ran' = [ran EXCEPT ![r] = Append(@, [revision |-> revision, current |-> ModeIsCurrent(r),
                                                  result |-> "none"])]
          /\ Goes(r, "running") /\ UNCHANGED active
    /\ UNCHANGED <<disk, cancelled, faults, around>>

\* Only a command that exited with 0 counts as executed.
Executed(r, ok) ==
    /\ req[r].at = "running"
    /\ IF r \in cancelled THEN Ends(r) ELSE Result(r, ok, TRUE)
    /\ ran' = [ran EXCEPT ![r][Len(ran[r])].result = IF ok THEN "ok" ELSE "failed"]
    /\ UNCHANGED <<disk, cancelled, faults, around>>

\* append_assistant_messages: the question must still be the last message.
AppendAnswer(r, outcome) ==
    LET c == req[r].conv
        drafts == [i \in 1..req[r].drafts |-> [kind |-> "answer", of |-> req[r].question, by |-> r]]
        fits == /\ req[r].text /\ Stored(c) /\ Messages(c) # <<>>
                /\ Last(Messages(c)).kind = "question" /\ Last(Messages(c)).of = req[r].question
    IN
    /\ req[r].at = "append"
    /\ IF fits THEN Persist(c, [file[c] EXCEPT !.messages = @ \o drafts], outcome)
               ELSE outcome = "ok" /\ UNCHANGED <<disk, faults>>
    /\ Ends(r)
    /\ UNCHANGED <<cancelled, ran, around>>

Next ==
    \/ \E c \in Convs, o \in Outcomes :
         \/ Create(c, o) \/ Rename(c, o) \/ DeleteConversation(c, o)
         \/ \E i \in 1..Len(Messages(c)) : DeleteMessage(c, i, o)
         \/ \E b \in BOOLEAN : Summarized(c, b, o)
    \/ \E c \in Convs : Summarize(c) \/ AskTitle(c)
    \/ \E r \in Requests :
         \/ \E c \in Convs, retry, attach \in BOOLEAN : Start(r, c, retry, attach)
         \/ CheckContext(r) \/ Acquire(r) \/ Turn(r)
         \/ CheckCall(r) \/ Decide(r) \/ Authorize(r) \/ Execute(r) \/ Cancel(r)
         \/ \E ok \in BOOLEAN : Executed(r, ok)
         \/ \E o \in Outcomes : StoreQuestion(r, o) \/ RetryQuestion(r, o) \/ AppendAnswer(r, o)
    \/ \E p \in 0..MaxRevision \cup {None} : SetPreview(p)
    \/ \E m \in Modes : SetMode(m)
    \/ ChangeTab \/ Crash

Spec == Init /\ [][Next]_vars

-------------------------------------------------------------------------------
(***************************************************************************)
(* Properties                                                              *)
(***************************************************************************)

\* The index names only conversations that can be read, and none disappears
\* while an answer is generated in it.  An answer stands behind its question
\* with nothing in between, and a question has the answer of one request:
\* whatever is retried, cancelled, pruned, not written or cut off.
ConversationsSound ==
    /\ \A c \in index : file[c].at = "kept"
    /\ \A c \in Convs : active[c] # None /\ req[active[c]].question # None => c \in index
    /\ \A c \in Convs : LET m == Messages(c) IN
         \A i, j \in DOMAIN m : i < j /\ m[i].of = m[j].of =>
           /\ m[j].kind = "answer"
           /\ m[i].kind = "answer" => m[i].by = m[j].by
           /\ \A k \in i..j : m[k].of = m[i].of

\* The commands of one answer all run on the terminal the user confirmed, and
\* end with the first that does not succeed or that a change of the mode
\* overtook after its last check.
CommandsConfirmed ==
    \A r \in Requests : \A i \in DOMAIN ran[r] :
        /\ ran[r][i].revision = req[r].target
        /\ i < Len(ran[r]) => ran[r][i].result = "ok" /\ ran[r][i].current
===============================================================================
