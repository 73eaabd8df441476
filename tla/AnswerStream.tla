----------------------------- MODULE AnswerStream -----------------------------
(***************************************************************************)
(* One streamed answer of an AI provider (services/ai/stream.rs): the      *)
(* request, the lines of server-sent events, which the network cuts        *)
(* anywhere, their decoding, and what the payloads of the three protocols  *)
(* make of the text, which is shown as it comes, and of the tool calls.    *)
(*                                                                         *)
(* Text is a row of numbered pieces, and so are the arguments of a call.   *)
(* The provider keeps to its protocol: an event names its call, and        *)
(* repeats of a call repeat it truly.  Usage, limits of length and events  *)
(* of types the client does not know are left out.                         *)
(***************************************************************************)
EXTENDS Naturals, Sequences, SequencesExt

CONSTANTS
    Protocols,  \* of "chat", "responses" and "anthropic"
    Texts,      \* bound: pieces of text
    Calls,      \* bound: tool calls of one answer
    Pieces,     \* fragments of a call's arguments
    Window,     \* bound: lines on their way when another event is written
    Mishaps,    \* bound: failures
    None

VARIABLES
    protocol,
    provider,   \* where the provider is in its answer
    written,    \* pieces of text it wrote
    given,      \* each call: events of it written
    broken,     \* the provider reported an error, or wrote what is no event
    network,    \* lines on their way
    buffered,   \* line_buffer: a part of the next line arrived
    data,       \* data_lines of the event that is read
    reader,     \* where the request is
    text,       \* the text put together
    displayed,  \* the text the window was sent
    gathered,   \* tool_call_accumulators
    reason,     \* a finish reason was read
    closed,     \* the window is gone
    revoked,    \* the request was cancelled
    ending,     \* how the request ended
    failures
streamVars == <<protocol, provider, written, given, broken, network, buffered, data, reader,
                text, displayed, gathered, reason, closed, revoked, ending, failures>>

CallIds == 1..Calls
Whole == [k \in 1..Pieces |-> k]
NoCall == [named |-> 0, arguments |-> <<>>]

\* The lines of a stream: a payload in a data line, the field that names its
\* type, and the blank line that ends an event.
Event(what, call, n) == [what |-> what, call |-> call, n |-> n]
Plain(what) == Event(what, 0, 0)
Payloads == {"text", "begin", "part", "told", "whole", "all", "object", "finish", "stop",
             "done", "error", "junk"}
Lines(event) == IF protocol = "chat" THEN <<event, Plain("blank")>>
                ELSE <<Plain("field"), event, Plain("blank")>>

\* Events of a call: begun, its fragments, and in Responses two repeats.
Complete(c) == given[c] = IF protocol = "responses" THEN Pieces + 3 ELSE Pieces + 1

TypeOK ==
    /\ protocol \in Protocols
    /\ provider \in {"silent", "answering", "object", "finished", "closed", "cut"}
    /\ written \in 0..Texts
    /\ given \in [CallIds -> 0..(Pieces + 3)]
    /\ broken \in BOOLEAN
    /\ \A i \in 1..Len(network) :
         network[i] \in [what : Payloads \cup {"field", "blank"}, call : 0..Calls,
                         n : 0..(Texts + Pieces)]
    /\ buffered \in BOOLEAN /\ \A i \in DOMAIN data : data[i].what \in Payloads
    /\ reader \in {"asks", "reads", "body", "done"}
    /\ text \in Seq(1..Texts) /\ displayed \in Seq(1..Texts)
    /\ gathered \in [CallIds -> [named : 0..1, arguments : Seq(1..Pieces)]]
    /\ reason \in BOOLEAN /\ closed \in BOOLEAN /\ revoked \in BOOLEAN
    /\ ending \in {None, "ok", "failed", "cancelled"}
    /\ failures \in 0..Mishaps

Init ==
    /\ protocol \in Protocols
    /\ provider = "silent" /\ written = 0 /\ given = [c \in CallIds |-> 0]
    /\ broken = FALSE
    /\ network = <<>> /\ buffered = FALSE /\ data = <<>>
    /\ reader = "asks"
    /\ text = <<>> /\ displayed = <<>>
    /\ gathered = [c \in CallIds |-> NoCall]
    /\ reason = FALSE /\ closed = FALSE /\ revoked = FALSE /\ ending = None
    /\ failures = 0

Failure == failures < Mishaps /\ failures' = failures + 1

providerVars == <<provider, written, given, broken>>
decoder == <<buffered, data>>
answerVars == <<text, displayed, gathered, reason>>

-------------------------------------------------------------------------------
(***************************************************************************)
(* The provider.                                                           *)
(***************************************************************************)
providerFrame == <<protocol, decoder, reader, answerVars, closed, revoked, ending>>

\* What the provider does once nobody reads is of no interest.
Writing == provider = "answering" /\ reader = "reads" /\ Len(network) < Window

Write(event) == network' = network \o Lines(event)

WriteText ==
    /\ Writing /\ written < Texts
    /\ written' = written + 1 /\ Write(Event("text", 0, written + 1))
    /\ UNCHANGED <<providerFrame, provider, given, broken, failures>>

\* Calls begin in their order; their fragments may alternate.
WriteCall(c) ==
    /\ Writing /\ ~Complete(c)
    /\ c > 1 => given[c - 1] > 0
    /\ given' = [given EXCEPT ![c] = @ + 1]
    /\ Write(CASE given[c] = 0 -> Event("begin", c, 0)
               [] given[c] \in 1..Pieces -> Event("part", c, given[c])
               [] given[c] = Pieces + 1 -> Event("told", c, 0)
               [] OTHER -> Event("whole", c, 0))
    /\ UNCHANGED <<providerFrame, provider, written, broken, failures>>

Settled == \A c \in CallIds : given[c] = 0 \/ Complete(c)

\* Chat ends with a marker, Responses with the answer as a whole; the last blank
\* line may be missing.
Finish ==
    /\ Writing /\ Settled
    /\ provider' = "finished"
    /\ LET last == CASE protocol = "chat" -> Lines(Plain("finish")) \o Lines(Plain("done"))
                     [] protocol = "responses" -> Lines(Plain("all"))
                     [] OTHER -> Lines(Plain("finish")) \o Lines(Plain("stop"))
       IN \E n \in {Len(last) - 1, Len(last)} : network' = network \o SubSeq(last, 1, n)
    /\ UNCHANGED <<providerFrame, written, given, broken, failures>>

\* The body ends: after the answer, or without it.
Close ==
    /\ reader = "reads"
    /\ \/ provider = "finished" /\ provider' = "closed" /\ UNCHANGED failures
       \/ provider = "answering" /\ provider' = "cut" /\ Failure
    /\ UNCHANGED <<providerFrame, written, given, broken, network>>

WriteWrong ==
    /\ Writing /\ ~broken /\ Failure
    /\ broken' = TRUE
    /\ \E what \in {"error", "junk"} : Write(Plain(what))
    /\ UNCHANGED <<providerFrame, provider, written, given>>

-------------------------------------------------------------------------------
(***************************************************************************)
(* The request.                                                            *)
(***************************************************************************)
Ends(how) == reader' = "done" /\ ending' = how

\* send_streaming_request; a gateway may answer with one JSON object, as if no
\* stream had been asked for.
Respond ==
    /\ reader = "asks" /\ ~revoked
    /\ \/ /\ reader' = "reads" /\ provider' = "answering"
          /\ UNCHANGED <<written, given, network, ending, failures>>
       \/ /\ reader' = "body" /\ provider' = "object"
          /\ written' \in 0..Texts
          /\ given' \in {[c \in CallIds |-> IF c <= n THEN Pieces + 1 ELSE 0] : n \in 0..Calls}
          /\ network' = <<Plain("object")>>
          /\ UNCHANGED <<ending, failures>>
       \/ /\ Failure /\ Ends("failed")
          /\ UNCHANGED <<provider, written, given, network>>
    /\ UNCHANGED <<protocol, broken, decoder, answerVars, closed, revoked>>

\* The user stops the answer, or closes the window.
Revoke ==
    /\ ~revoked /\ reader # "done"
    /\ revoked' = TRUE
    /\ UNCHANGED <<protocol, providerVars, network, decoder, reader, answerVars, closed, ending,
                   failures>>

CloseWindow ==
    /\ ~closed /\ reader # "done" /\ Failure
    /\ closed' = TRUE
    /\ UNCHANGED <<protocol, providerVars, network, decoder, reader, answerVars, revoked, ending>>

\* Whatever is awaited is awaited together with the cancellation.
RevokedSeen ==
    /\ reader # "done" /\ revoked
    /\ Ends("cancelled")
    /\ UNCHANGED <<protocol, providerVars, network, decoder, answerVars, closed, revoked, failures>>

\* Mistaken variant: what breaks off is an error of the provider.
FailsPlainly ==
    /\ reader # "done" /\ Failure
    /\ Ends("failed")
    /\ UNCHANGED <<protocol, providerVars, network, decoder, answerVars, closed, revoked>>

\* cancellation_or_request_error: the connection breaks off, by itself or
\* because the request is being cancelled.
Fails ==
    /\ reader # "done" /\ Failure
    /\ Ends(IF revoked THEN "cancelled" ELSE "failed")
    /\ UNCHANGED <<protocol, providerVars, network, decoder, answerVars, closed, revoked>>

-------------------------------------------------------------------------------
(***************************************************************************)
(* What a payload makes of the answer.                                     *)
(***************************************************************************)
Answer == [text |-> text, shown |-> displayed, calls |-> gathered, reason |-> reason,
           over |-> FALSE, failed |-> FALSE]

\* What the provider tells when it tells everything.
AllText == [n \in 1..written |-> n]
Begun == {c \in CallIds : given[c] > 0}
Told == [named |-> 1, arguments |-> Whole]

\* append_stream_text: nothing is sent for no text, and without a window the
\* answer fails.
AppendText(a, pieces) ==
    IF pieces = <<>> THEN a
    ELSE [a EXCEPT !.text = @ \o pieces,
                   !.shown = IF closed THEN @ ELSE @ \o pieces,
                   !.failed = closed]

\* append_tool_call_fragment adds to what is known of a call,
AppendFragment(a, c, names, arguments) ==
    [a EXCEPT !.calls[c] = [named |-> @.named + names, arguments |-> @.arguments \o arguments]]

\* append_complete_tool_call replaces it.
AppendComplete(a, c, arguments) ==
    [a EXCEPT !.calls[c] = [named |-> 1, arguments |-> arguments]]
AppendAll(a) ==
    [a EXCEPT !.calls = [c \in CallIds |-> IF c \in Begun THEN Told ELSE @[c]]]

\* process_openai_payload
ProcessOpenai(a, e) ==
    CASE e.what = "text" -> AppendText(a, <<e.n>>)
      [] e.what = "begin" -> AppendFragment(a, e.call, 1, <<>>)
      [] e.what = "part" -> AppendFragment(a, e.call, 0, <<e.n>>)
      [] e.what = "finish" -> [a EXCEPT !.reason = TRUE]
      [] e.what = "object" -> AppendText([AppendAll(a) EXCEPT !.reason = TRUE], AllText)
      [] OTHER -> [a EXCEPT !.failed = TRUE]

\* Mistaken variant: the answer told in whole is added to what was collected.
ProcessResponsesAdding(a, e) ==
    CASE e.what = "text" -> AppendText(a, <<e.n>>)
      [] e.what = "begin" -> AppendComplete(a, e.call, <<>>)
      [] e.what = "part" -> AppendFragment(a, e.call, 0, <<e.n>>)
      [] e.what \in {"told", "whole"} -> AppendComplete(a, e.call, Whole)
      [] e.what = "all" -> LET b == AppendText([a EXCEPT !.reason = TRUE], AllText) IN
                           IF b.failed THEN b ELSE AppendAll(b)
      [] e.what = "object" -> AppendText([a EXCEPT !.reason = TRUE], AllText)
      [] OTHER -> [a EXCEPT !.failed = TRUE]

\* process_openai_responses_payload: the answer told in whole adds its text only
\* if none was collected; of a plain object the text alone is taken.
ProcessResponses(a, e) ==
    CASE e.what = "text" -> AppendText(a, <<e.n>>)
      [] e.what = "begin" -> AppendComplete(a, e.call, <<>>)
      [] e.what = "part" -> AppendFragment(a, e.call, 0, <<e.n>>)
      [] e.what \in {"told", "whole"} -> AppendComplete(a, e.call, Whole)
      [] e.what = "all" ->
           LET b == AppendText([a EXCEPT !.reason = TRUE], IF a.text = <<>> THEN AllText ELSE <<>>)
           IN IF b.failed THEN b ELSE AppendAll(b)
      [] e.what = "object" ->
           IF a.text = <<>> THEN AppendText([a EXCEPT !.reason = TRUE], AllText) ELSE a
      [] OTHER -> [a EXCEPT !.failed = TRUE]

\* process_anthropic_payload: a call that begins has a name and no arguments yet.
ProcessAnthropic(a, e) ==
    CASE e.what = "text" -> AppendText(a, <<e.n>>)
      [] e.what = "begin" -> AppendComplete(a, e.call, a.calls[e.call].arguments)
      [] e.what = "part" -> AppendFragment(a, e.call, 0, <<e.n>>)
      [] e.what \in {"finish", "stop"} -> [a EXCEPT !.reason = TRUE]
      [] e.what = "object" ->
           LET b == IF a.text = <<>> THEN AppendText([a EXCEPT !.reason = TRUE], AllText) ELSE a
           IN IF b.failed THEN b ELSE AppendAll(b)
      [] OTHER -> [a EXCEPT !.failed = TRUE]

\* The events of a chunk, in order, until the end marker or an error.
Process(a, e) ==
    IF a.over \/ a.failed THEN a
    ELSE IF e.what = "done" THEN [a EXCEPT !.over = TRUE]
    ELSE CASE protocol = "chat" -> ProcessOpenai(a, e)
           [] protocol = "responses" -> ProcessResponses(a, e)
           [] OTHER -> ProcessAnthropic(a, e)
ProcessAll(events) == FoldLeft(Process, Answer, events)

Keep(a) ==
    /\ text' = a.text /\ displayed' = a.shown /\ gathered' = a.calls /\ reason' = a.reason

-------------------------------------------------------------------------------
(***************************************************************************)
(* SseDecoder.                                                             *)
(***************************************************************************)

\* consume_line: a blank line ends an event, fields other than data are ignored.
ConsumeLine(d, line) ==
    CASE line.what = "blank" ->
           IF d.data = <<>> THEN d
           ELSE [data |-> <<>>,
                 events |-> Append(d.events, IF Len(d.data) = 1 THEN d.data[1] ELSE Plain("junk"))]
      [] line.what = "field" -> d
      [] OTHER -> [d EXCEPT !.data = Append(@, line)]

\* Mistaken variant: the part of a line that came with the chunk before is lost.
PushForgets(lines) ==
    FoldLeft(ConsumeLine, [data |-> data, events |-> <<>>],
             IF buffered /\ lines # <<>> THEN Tail(lines) ELSE lines)

\* push: the lines that are complete; the first one may have begun before.
Push(lines) == FoldLeft(ConsumeLine, [data |-> data, events |-> <<>>], lines)

\* finish: a line without its end still counts, and data without a blank line is
\* an event.  Of a line that was cut off nothing may be left, or what is no event.
Flush(lines) ==
    LET d == Push(lines) IN d.events \o (IF d.data = <<>> THEN <<>> ELSE <<d.data[1]>>)
LastLines ==
    IF ~buffered THEN {<<>>}
    ELSE {network} \cup (IF provider = "closed" THEN {}
                         ELSE {<<>>} \cup IF network[1].what \in Payloads
                                          THEN {<<Plain("junk")>>} ELSE {})

-------------------------------------------------------------------------------
(***************************************************************************)
(* consume_streaming_response.                                             *)
(***************************************************************************)

\* A chunk: some lines in whole, and perhaps a part of the next one.
Chunk ==
    /\ reader = "reads" /\ ~revoked /\ network # <<>>
    /\ \E m \in 0..Len(network), part \in BOOLEAN :
         /\ m > 0 \/ (part /\ ~buffered)
         /\ part => m < Len(network)
         /\ LET d == Push(SubSeq(network, 1, m))
                a == ProcessAll(d.events) IN
              /\ Keep(a)
              /\ data' = d.data
              /\ IF a.failed THEN Ends("failed")
                 ELSE IF a.over THEN Ends("ok") ELSE UNCHANGED <<reader, ending>>
         /\ network' = SubSeq(network, m + 1, Len(network))
         /\ buffered' = part
    /\ UNCHANGED <<protocol, providerVars, closed, revoked, failures>>

\* The body ended.
EndOfBody ==
    /\ reader = "reads" /\ ~revoked /\ provider \in {"closed", "cut"}
    /\ Len(network) = IF buffered THEN 1 ELSE 0
    /\ \E lines \in LastLines :
         LET a == ProcessAll(Flush(lines)) IN
           /\ Keep(a)
           /\ IF a.failed THEN Ends("failed") ELSE Ends("ok")
    /\ network' = <<>> /\ buffered' = FALSE /\ data' = <<>>
    /\ UNCHANGED <<protocol, providerVars, closed, revoked, failures>>

\* The answer as one JSON object.
Body ==
    /\ reader = "body" /\ ~revoked
    /\ LET a == ProcessAll(network) IN
         /\ Keep(a)
         /\ IF a.failed THEN Ends("failed") ELSE Ends("ok")
    /\ network' = <<>>
    /\ UNCHANGED <<protocol, providerVars, decoder, closed, revoked, failures>>

-------------------------------------------------------------------------------
Next ==
    \/ WriteText \/ (\E c \in CallIds : WriteCall(c)) \/ Finish \/ Close \/ WriteWrong
    \/ Respond \/ Revoke \/ CloseWindow \/ RevokedSeen \/ Fails \/ Chunk \/ EndOfBody \/ Body

Spec == Init /\ [][Next]_streamVars

-------------------------------------------------------------------------------
\* finalize_tool_calls: what has a name.
ToolCalls == {c \in CallIds : gathered[c].named > 0}

\* What the window shows is what is kept, in the provider's order, each piece
\* once, wherever the network cut the stream; but for what came after the window
\* was closed, which ends the answer.
ShownInOrder ==
    /\ displayed = text \/ (closed /\ ending # "ok" /\ IsPrefix(displayed, text))
    /\ text = [n \in 1..Len(text) |-> n] /\ Len(text) <= written

\* An answer the provider finished is kept in whole, with every tool call once
\* and its arguments in order; but for the calls of a plain Responses object.
WholeAnswer ==
    ending = "ok" /\ provider \in {"object", "finished", "closed"} =>
        /\ Len(text) = written
        /\ ~(protocol = "responses" /\ provider = "object") =>
             ToolCalls = Begun /\ \A c \in Begun : gathered[c] = Told

\* An answer with an error in it is no answer, and a cancelled request ends as
\* cancelled, whatever breaks off with it.
EndsAreTrue ==
    /\ broken => ending # "ok"
    /\ revoked /\ reader = "done" => ending = "cancelled"

AnswersWhole == ShownInOrder /\ WholeAnswer /\ EndsAreTrue
===============================================================================
