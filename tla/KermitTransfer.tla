----------------------------- MODULE KermitTransfer ----------------------------
(***************************************************************************)
(* Kermit's stop-and-wait core (sessions/serial/kermit.rs) between a       *)
(* sender and a receiver that both run this code: S opens the session,     *)
(* F, D and Z carry a file, B ends it; Y and N answer a sequence number.   *)
(*                                                                         *)
(* A character with its high bit set is sent behind '&' when the answer to *)
(* S says so, and '&' itself is then quoted; a packet says nowhere which   *)
(* of the two it does.                                                     *)
(***************************************************************************)
EXTENDS Naturals, Sequences, SequencesExt

CONSTANTS
    Files,          \* the number of packets of each file, in order
    Modulus,        \* sequence numbers: 64 in the code
    MaxRetries,     \* MAX_RETRIES
    Faults          \* bound: packets the line loses or damages

VARIABLES
    content,        \* what the files hold: "plain", "&" or "high" characters
    step, tries, waiting, quotes,                       \* the sender
    at, expected, receiveRetries, quoted, file,         \* the receiver
    staged, stored, published,                          \* its files
    packets, answers, faults                            \* the line

sender == <<step, tries, waiting, quotes>>
receiver == <<at, expected, receiveRetries, quoted, file>>
disk == <<staged, stored, published>>
vars == <<content, sender, receiver, disk, packets, answers, faults>>

\* What send goes through, one packet after the other.
Packet(kind, i, j) == [kind |-> kind, file |-> i, index |-> j]
FileScript(i) ==
    <<Packet("F", i, 0)>> \o [j \in 1..Files[i] |-> Packet("D", i, j)] \o <<Packet("Z", i, 0)>>
Script ==
    <<Packet("S", 0, 0)>> \o FlattenSeq([i \in DOMAIN Files |-> FileScript(i)])
      \o <<Packet("B", 0, 0)>>
Source(i) == [j \in 1..Files[i] |-> <<i, j>>]

TypeOK ==
    /\ content \in {"plain", "&", "high"}
    /\ {waiting, quotes, quoted, staged} \subseteq BOOLEAN
    /\ step \in 0..Len(Script) + 1 /\ tries \in 0..MaxRetries
    /\ at \in {"start", "read", "done", "failed"} /\ expected \in 0..Modulus - 1
    /\ receiveRetries \in 0..MaxRetries /\ file \in 0..Len(Files)
    /\ \A p \in published : p.file \in DOMAIN Files
    /\ \A k \in DOMAIN answers : answers[k].kind \in {"Y", "N"}

Init ==
    /\ content \in {"plain", "&", "high"}
    /\ step = 1 /\ tries = 0 /\ waiting = FALSE /\ quotes = FALSE
    /\ at = "start" /\ expected = 0 /\ receiveRetries = 0 /\ quoted = FALSE /\ file = 0
    /\ staged = FALSE /\ stored = <<>> /\ published = {}
    /\ packets = <<>> /\ answers = <<>> /\ faults = 0

-------------------------------------------------------------------------------
(***************************************************************************)
(* The line: a packet arrives, or is lost; what is damaged is told by its  *)
(* checksum and read as nothing.                                           *)
(***************************************************************************)
Transmits(p) ==
    \/ packets' = Append(packets, p) /\ UNCHANGED faults
    \/ faults < Faults /\ faults' = faults + 1 /\ UNCHANGED packets

Says(a) ==
    \/ answers' = Append(answers, a) /\ UNCHANGED faults
    \/ faults < Faults /\ faults' = faults + 1 /\ UNCHANGED answers

Yes(seq) == [kind |-> "Y", seq |-> seq, init |-> FALSE]
No(seq) == [kind |-> "N", seq |-> seq, init |-> FALSE]
\* The answer to S names the character for high bits.
YesInit(seq) == [kind |-> "Y", seq |-> seq, init |-> TRUE]

-------------------------------------------------------------------------------
(***************************************************************************)
(* send, send_and_wait_ack                                                 *)
(***************************************************************************)
Now == Script[step]
Sending == step \in 1..Len(Script)
Sequence == (step - 1) % Modulus

\* High characters cannot be sent unless they are quoted.
Encodes == Now.kind = "D" /\ content = "high" => quotes

SendPacket ==
    /\ Sending /\ ~waiting /\ Encodes
    /\ waiting' = TRUE
    /\ Transmits([kind |-> Now.kind, file |-> Now.file, index |-> Now.index,
                  seq |-> Sequence, quotes |-> quotes])
    /\ UNCHANGED <<content, step, tries, quotes, receiver, disk, answers>>

Hears == Sending /\ waiting /\ answers # <<>> /\ answers' = Tail(answers)
Answered == Head(answers).kind = "Y" /\ Head(answers).seq = Sequence

Acknowledged ==
    /\ Hears /\ Answered
    /\ step' = step + 1 /\ tries' = 0 /\ waiting' = FALSE
    /\ quotes' = IF Now.kind = "S" THEN Head(answers).init ELSE quotes
    /\ UNCHANGED <<content, receiver, disk, packets, faults>>

\* No answer in time, or another one.
SendAgain ==
    /\ Sending /\ waiting /\ tries + 1 < MaxRetries
    /\ tries' = tries + 1 /\ waiting' = FALSE
    /\ \/ UNCHANGED answers
       \/ Hears /\ ~Answered
    /\ UNCHANGED <<content, step, quotes, receiver, disk, packets, faults>>

\* Cancelled, a file that cannot be read, a packet that cannot be encoded, an
\* answer that was waited for too often.
SenderFails ==
    /\ Sending
    /\ step' = 0 /\ tries' = 0 /\ waiting' = FALSE
    /\ UNCHANGED <<content, quotes, receiver, disk, packets, answers, faults>>

-------------------------------------------------------------------------------
(***************************************************************************)
(* receive                                                                 *)
(***************************************************************************)
NextSeq(seq) == (seq + 1) % Modulus
PreviousSeq(seq) == (seq + Modulus - 1) % Modulus
Reads == packets # <<>> /\ packets' = Tail(packets)

\* Anything but S is refused.
Opened ==
    LET p == Head(packets) IN
    /\ at = "start" /\ Reads /\ p.kind = "S"
    /\ at' = "read" /\ quoted' = TRUE /\ expected' = NextSeq(p.seq) /\ Says(YesInit(p.seq))
    /\ UNCHANGED <<content, sender, receiveRetries, file, disk>>

NotOpened ==
    /\ at = "start" /\ Reads /\ Head(packets).kind # "S"
    /\ Says(No(Head(packets).seq))
    /\ UNCHANGED <<content, sender, receiver, disk>>

\* Nothing readable in time: what is expected is asked for.
NothingRead ==
    /\ at = "read" /\ receiveRetries + 1 < MaxRetries
    /\ receiveRetries' = receiveRetries + 1 /\ Says(No(expected))
    /\ UNCHANGED <<content, sender, at, expected, quoted, file, disk, packets>>

\* The packet before comes again, S as any other, or one from further away.
Repeated ==
    LET p == Head(packets) IN
    /\ at = "read" /\ Reads /\ p.seq # expected /\ receiveRetries' = 0
    /\ Says(IF p.seq = PreviousSeq(expected) THEN Yes(p.seq) ELSE No(expected))
    /\ UNCHANGED <<content, sender, at, expected, quoted, file, disk>>

\* Mistaken variant: a packet is taken whatever its number.
ExpectedLoosely(kind) ==
    /\ at = "read" /\ Reads /\ Head(packets).kind = kind
    /\ expected' = NextSeq(Head(packets).seq) /\ receiveRetries' = 0
    /\ Says(Yes(Head(packets).seq))

Expected(kind) ==
    /\ at = "read" /\ Reads /\ Head(packets).kind = kind /\ Head(packets).seq = expected
    /\ expected' = NextSeq(expected) /\ receiveRetries' = 0
    /\ Says(Yes(expected))

\* A target that exists already fails the session.
FileHeader ==
    /\ Expected("F") /\ ~staged /\ \A p \in published : p.file # Head(packets).file
    /\ file' = Head(packets).file /\ staged' = TRUE /\ stored' = <<>>
    /\ UNCHANGED <<content, sender, at, quoted, published>>

Mangled == content = "&" /\ Head(packets).quotes # quoted
Data ==
    /\ Expected("D") /\ staged
    /\ stored' = Append(stored, IF Mangled THEN <<0, 0>>
                                ELSE <<Head(packets).file, Head(packets).index>>)
    /\ UNCHANGED <<content, sender, at, quoted, file, staged, published>>

\* The file is published before its end is confirmed.
FileEnd ==
    /\ Expected("Z") /\ staged
    /\ published' = published \cup {[file |-> file, blocks |-> stored]}
    /\ staged' = FALSE /\ stored' = <<>>
    /\ UNCHANGED <<content, sender, at, quoted, file>>

Broken ==
    /\ Expected("B") /\ ~staged /\ at' = "done"
    /\ UNCHANGED <<content, sender, quoted, file, disk>>

\* Cancelled, a disk that is full, a limit, a target that exists, a packet out
\* of place.  The staged file goes with it, unless it was an answer that could
\* not be written.
ReceiverFails ==
    /\ at \in {"start", "read"} /\ at' = "failed"
    /\ staged' \in {FALSE, staged} /\ stored' = <<>>
    /\ UNCHANGED <<content, sender, expected, receiveRetries, quoted, file, published,
                   packets, answers, faults>>

Next ==
    \/ SendPacket \/ Acknowledged \/ SendAgain \/ SenderFails
    \/ Opened \/ NotOpened \/ NothingRead \/ Repeated \/ FileHeader \/ Data \/ FileEnd
    \/ Broken \/ ReceiverFails

Spec == Init /\ [][Next]_vars

-------------------------------------------------------------------------------
(***************************************************************************)
(* Properties                                                              *)
(***************************************************************************)

\* A file is published with all its packets, in order and each of them once;
\* a sender that reports success has had every one of its files published.
KermitDelivers ==
    /\ \A p \in published :
         /\ Len(p.blocks) = Files[p.file]
         /\ \A k \in DOMAIN p.blocks : p.blocks[k] \in {<<p.file, k>>, <<0, 0>>}
    /\ step = Len(Script) + 1 => \A i \in DOMAIN Files : \E p \in published : p.file = i

\* "A lost ACK can make the sender repeat S.  Answering it again is safe":
\* what arrives is what was sent.
RepeatedStartIsSafe == \A p \in published : p.blocks = Source(p.file)
===============================================================================
