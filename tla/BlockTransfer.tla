----------------------------- MODULE BlockTransfer -----------------------------
(***************************************************************************)
(* XMODEM and YMODEM over a serial line (sessions/serial/transfer), from a *)
(* sender to a receiver that both run this code.  A line loses frames and  *)
(* answers, damages them, and delivers them late: either side may time out *)
(* while an answer is on its way.                                          *)
(*                                                                         *)
(* The sender works through a script: wait for the receiver to be ready,   *)
(* a header, a block, the end of a file.  An answer is one byte and does   *)
(* not say which frame it is for.                                          *)
(***************************************************************************)
EXTENDS Naturals, Sequences, SequencesExt

CONSTANTS
    Files,          \* the number of blocks of each file, in order
    Modulus,        \* sequence numbers of a frame: 256 in the code
    StartTries,     \* how often a receiver announces itself
    CrcTries,       \* how many of them ask for CRC
    ReadyTries,     \* bytes a sender reads for a receiver that is ready
    MaxRetries,     \* MAX_RETRIES
    Faults          \* bound: frames and answers the line loses or damages

VARIABLES
    ymodem,         \* the mode: XMODEM sends the first file alone
    step, tries, waiting, crc,      \* the sender, at 0 when it has failed
    at, phase, name, expected, size, eot, attempts, useCrc,     \* the receiver
    held,           \* the block XMODEM holds back, for its padding
    staged, stored, \* its staged file: whether there is one, and its blocks
    published,      \* the files under their own names
    frames, answers,    \* the line, in either direction
    faults

sender == <<step, tries, waiting, crc>>
receiver == <<at, phase, name, expected, size, eot, attempts, useCrc, held>>
disk == <<staged, stored, published>>
vars == <<ymodem, sender, receiver, disk, frames, answers, faults>>

Frame(kind, i, j) ==
    [kind |-> kind, file |-> i, index |-> j, seq |-> j % Modulus, ok |-> TRUE, crc |-> FALSE]
FileScript(i) == [j \in 1..Files[i] |-> Frame("block", i, j)] \o <<Frame("eot", i, 0)>>
Ready == <<Frame("ready", 0, 0)>>
Header(i) == Ready \o <<Frame("header", i, 0)>>
Script ==
    IF ymodem
    THEN FlattenSeq([i \in DOMAIN Files |-> Header(i) \o Ready \o FileScript(i)]) \o Header(0)
    ELSE Ready \o FileScript(1)

Source(i) == [j \in 1..Files[i] |-> <<i, j>>]

TypeOK ==
    /\ {ymodem, waiting, crc, eot, useCrc, staged} \subseteq BOOLEAN
    /\ step \in 0..Len(Script) + 1 /\ tries \in 0..MaxRetries
    /\ at \in {"ask", "wait", "read", "done", "failed"}
    /\ phase \in {"header", "data", "next"}
    /\ name \in 0..Len(Files) /\ expected \in 0..Modulus - 1 /\ attempts \in 0..StartTries
    /\ \A s \in {held, stored} : \A k \in DOMAIN s : s[k][1] \in DOMAIN Files
    /\ \A p \in published : p.file \in DOMAIN Files
    /\ \A k \in DOMAIN answers : answers[k] \in {"C", "NAK", "ACK", "CAN"}

Init ==
    /\ ymodem \in BOOLEAN
    /\ step = 1 /\ tries = 0 /\ waiting = FALSE /\ crc = FALSE
    /\ at = "ask" /\ phase = "header" /\ name = 0 /\ expected = 0 /\ size = 0 /\ eot = FALSE
    /\ attempts = 0 /\ useCrc = FALSE /\ held = <<>>
    /\ staged = FALSE /\ stored = <<>> /\ published = {}
    /\ frames = <<>> /\ answers = <<>> /\ faults = 0

-------------------------------------------------------------------------------
(***************************************************************************)
(* The line                                                                *)
(***************************************************************************)

\* A frame arrives, is lost, arrives damaged, or loses its marker, so that a
\* byte of what it carries is read as the end of the file.
Transmits(f) ==
    \/ frames' = Append(frames, f) /\ UNCHANGED faults
    \/ /\ faults < Faults /\ faults' = faults + 1
       /\ \/ UNCHANGED frames
          \/ frames' = Append(frames, [f EXCEPT !.ok = FALSE])
          \/ f.kind = "block" /\ frames' = Append(frames, Frame("eot", 0, 0))

\* An answer arrives, or one of its bytes does not.
Says(bytes) ==
    \/ answers' = answers \o bytes /\ UNCHANGED faults
    \/ /\ faults < Faults /\ faults' = faults + 1
       /\ \E k \in DOMAIN bytes : answers' = answers \o RemoveAt(bytes, k)

-------------------------------------------------------------------------------
(***************************************************************************)
(* send_xmodem, send_ymodem, send_blocks                                   *)
(***************************************************************************)
Now == Script[step]
Sending == step \in 1..Len(Script)
Goes == step' = step + 1 /\ tries' = 0 /\ waiting' = FALSE
Hears == answers # <<>> /\ answers' = Tail(answers)

\* cancel_protocol tells the other side, too.
SenderFails ==
    /\ Sending
    /\ step' = 0 /\ tries' = 0 /\ waiting' = FALSE /\ Transmits(Frame("can", 0, 0))
    /\ UNCHANGED <<ymodem, crc, receiver, disk, answers>>

\* Mistaken variant: nobody counts the tries.
TriesAgainForEver(limit) ==
    /\ tries' = tries + 1 /\ waiting' = FALSE
    /\ UNCHANGED <<ymodem, step, crc, receiver, disk, frames, faults>>

TriesAgain(limit) ==
    /\ tries + 1 < limit
    /\ tries' = tries + 1 /\ waiting' = FALSE
    /\ UNCHANGED <<ymodem, step, crc, receiver, disk, frames, faults>>

\* wait_for_sender_start: only C and NAK say that the receiver is ready; after
\* ReadyTries other bytes or timeouts the sender fails.
ReceiverReady ==
    /\ Sending /\ Now.kind = "ready" /\ Hears
    /\ \/ /\ Head(answers) \in {"C", "NAK"} /\ Goes /\ crc' = (Head(answers) = "C")
          /\ UNCHANGED <<ymodem, receiver, disk, frames, faults>>
       \/ Head(answers) = "ACK" /\ TriesAgain(ReadyTries)
ReadyTimeout ==
    Sending /\ Now.kind = "ready" /\ TriesAgain(ReadyTries) /\ UNCHANGED answers

\* send_packet and send_eot
SendFrame ==
    /\ Sending /\ Now.kind # "ready" /\ ~waiting
    /\ waiting' = TRUE /\ Transmits([Now EXCEPT !.crc = crc])
    /\ UNCHANGED <<ymodem, step, tries, crc, receiver, disk, answers>>

Acknowledged ==
    /\ Sending /\ waiting /\ Hears /\ Head(answers) = "ACK" /\ Goes
    /\ UNCHANGED <<ymodem, crc, receiver, disk, frames, faults>>

Refused == Sending /\ waiting /\ Hears /\ Head(answers) \in {"C", "NAK"} /\ TriesAgain(MaxRetries)

ReplyTimeout == Sending /\ waiting /\ TriesAgain(MaxRetries) /\ UNCHANGED answers

-------------------------------------------------------------------------------
(***************************************************************************)
(* receive_xmodem, receive_ymodem, receive_ymodem_file                     *)
(***************************************************************************)
Announces == IF useCrc THEN "C" ELSE "NAK"
Reads == frames # <<>> /\ frames' = Tail(frames)

\* Cancelled, a disk that is full, a limit, a line that is gone, a wait that is
\* too long, and all that no other action takes: the other side cancels, an
\* announcement too many, a block out of sequence, a file that is there
\* already.  The staged file goes, and the other side hears of it.
ReceiverFails ==
    /\ at \in {"ask", "wait", "read"}
    /\ at' = "failed" /\ staged' = FALSE /\ stored' = <<>> /\ Says(<<"CAN">>)
    /\ UNCHANGED <<ymodem, sender, phase, name, expected, size, eot, attempts, useCrc, held,
                   published, frames>>

\* receive_protocol_start: with CRC first.
Announce ==
    /\ at = "ask" /\ attempts < StartTries
    /\ at' = "wait" /\ useCrc' = (attempts < CrcTries)
    /\ Says(<<IF attempts < CrcTries THEN "C" ELSE "NAK">>)
    /\ UNCHANGED <<ymodem, sender, phase, name, expected, size, eot, attempts, held, disk,
                   frames>>

NoStart ==
    /\ at = "wait" /\ at' = "ask" /\ attempts' = attempts + 1
    /\ \/ UNCHANGED frames
       \/ Reads /\ Head(frames).kind = "eot"
    /\ UNCHANGED <<ymodem, sender, phase, name, expected, size, eot, useCrc, held, disk,
                   answers, faults>>

\* XMODEM starts its file with the first frame, YMODEM wants a header.
Start ==
    /\ at = "wait" /\ frames # <<>>
    /\ Head(frames).kind \in (IF ymodem THEN {"header"} ELSE {"block"})
    /\ at' = "read"
    /\ IF ymodem
       THEN phase' = "header" /\ UNCHANGED <<name, expected, staged>>
       ELSE phase' = "data" /\ name' = 1 /\ expected' = 1 % Modulus /\ staged' = TRUE
    /\ UNCHANGED <<ymodem, sender, size, eot, attempts, useCrc, held, stored, published,
                   frames, answers, faults>>

Good(f) == f.ok /\ f.crc = useCrc
Reading == at = "read" /\ Reads

\* What is damaged is asked for again.
Damaged ==
    /\ Reading
    /\ \/ phase = "data" /\ Head(frames).kind \in {"header", "block"} /\ ~Good(Head(frames))
       \/ phase \in {"header", "next"} /\ Head(frames).kind = "header" /\ ~Good(Head(frames))
       \/ phase = "header" /\ Head(frames).kind \in {"block", "eot"}
    /\ phase' = (IF phase = "next" THEN "header" ELSE phase) /\ Says(<<"NAK">>)
    /\ UNCHANGED <<ymodem, sender, at, name, expected, size, eot, attempts, useCrc, held, disk>>

\* A header: the file it names must not be there yet.
HeaderRead ==
    LET f == Head(frames) IN
    /\ Reading /\ phase \in {"header", "next"} /\ f.kind = "header" /\ Good(f) /\ f.file # 0
    /\ \A p \in published : p.file # f.file
    /\ staged' = TRUE /\ Says(<<"ACK", Announces>>)
    /\ phase' = "data" /\ name' = f.file /\ size' = Files[f.file]
    /\ expected' = 1 % Modulus /\ eot' = FALSE
    /\ UNCHANGED <<ymodem, sender, at, attempts, useCrc, held, stored, published>>

\* The empty header ends the batch; a sender that says nothing more does, too.
BatchEnds ==
    /\ at = "read" /\ at' = "done"
    /\ \/ /\ Reads /\ phase \in {"header", "next"} /\ Head(frames).kind = "header"
          /\ Good(Head(frames)) /\ Head(frames).file = 0 /\ Says(<<"ACK">>)
       \/ phase = "next" /\ UNCHANGED <<frames, answers, faults>>
    /\ UNCHANGED <<ymodem, sender, phase, name, expected, size, eot, attempts, useCrc, held, disk>>

Commits(blocks) ==
    /\ staged' = FALSE /\ stored' = <<>>
    /\ published' = published \cup {[file |-> name, blocks |-> blocks]}

\* The first end of a file is refused.
FirstEnd ==
    /\ Reading /\ phase = "data" /\ Head(frames).kind = "eot" /\ ~eot
    /\ eot' = TRUE /\ Says(<<"NAK">>)
    /\ UNCHANGED <<ymodem, sender, at, phase, name, expected, size, attempts, useCrc, held, disk>>

\* Mistaken variant: what the header said of the size is not looked at.
FileEndsAnyway ==
    /\ Reading /\ phase = "data" /\ Head(frames).kind = "eot" /\ eot
    /\ Commits(stored \o held)
    /\ IF ymodem THEN phase' = "next" /\ Says(<<"ACK", "ACK", Announces>>) /\ UNCHANGED at
                 ELSE at' = "done" /\ Says(<<"ACK">>) /\ UNCHANGED phase
    /\ UNCHANGED <<ymodem, sender, name, expected, size, eot, attempts, useCrc, held>>

\* The second one is acknowledged before the file is published: YMODEM knows
\* how much is missing, and the disk may refuse it.
FileEnds ==
    /\ Reading /\ phase = "data" /\ Head(frames).kind = "eot" /\ eot
    /\ \/ /\ at' = "failed" /\ staged' = FALSE /\ stored' = <<>> /\ Says(<<"ACK", "CAN">>)
          /\ UNCHANGED <<phase, published>>
       \/ /\ ymodem => size = 0
          /\ Commits(stored \o held)
          /\ IF ymodem
             THEN phase' = "next" /\ Says(<<"ACK", "ACK", Announces>>) /\ UNCHANGED at
             ELSE at' = "done" /\ Says(<<"ACK">>) /\ UNCHANGED phase
    /\ UNCHANGED <<ymodem, sender, name, expected, size, eot, attempts, useCrc, held>>

\* The next block; XMODEM stores the one before it.
BlockRead ==
    LET f == Head(frames)
        block == <<<<f.file, f.index>>>> IN
    /\ Reading /\ phase = "data" /\ f.kind = "block" /\ Good(f) /\ f.seq = expected
    /\ ymodem => size > 0
    /\ IF ymodem
       THEN stored' = stored \o block /\ size' = size - 1 /\ UNCHANGED held
       ELSE stored' = stored \o held /\ held' = block /\ UNCHANGED size
    /\ expected' = (expected + 1) % Modulus /\ Says(<<"ACK">>)
    /\ UNCHANGED <<ymodem, sender, at, phase, name, eot, attempts, useCrc, staged, published>>

\* Mistaken variant: a block that comes again is stored again.
RepeatReadStored ==
    LET f == Head(frames)
        block == <<<<f.file, f.index>>>> IN
    /\ Reading /\ phase = "data" /\ f.kind = "block" /\ Good(f)
    /\ f.seq = (expected + Modulus - 1) % Modulus
    /\ IF ymodem THEN stored' = stored \o block /\ UNCHANGED held
                 ELSE stored' = stored \o held /\ held' = block
    /\ Says(<<"ACK">>)
    /\ UNCHANGED <<ymodem, sender, at, phase, name, expected, size, eot, attempts, useCrc,
                   staged, published>>

\* The one before it comes again when the answer to it was lost or late.
RepeatRead ==
    /\ Reading /\ phase = "data" /\ Head(frames).kind \in {"header", "block"}
    /\ Good(Head(frames)) /\ Head(frames).seq = (expected + Modulus - 1) % Modulus
    /\ Says(<<"ACK">>)
    /\ UNCHANGED <<ymodem, sender, at, phase, name, expected, size, eot, attempts, useCrc,
                   held, disk>>

Next ==
    \/ SenderFails \/ ReceiverReady \/ ReadyTimeout \/ SendFrame \/ Acknowledged \/ Refused
    \/ ReplyTimeout
    \/ ReceiverFails \/ Announce \/ NoStart \/ Start \/ Damaged \/ HeaderRead \/ BatchEnds
    \/ FirstEnd \/ FileEnds \/ BlockRead \/ RepeatRead

Spec == Init /\ [][Next]_vars

-------------------------------------------------------------------------------
(***************************************************************************)
(* Properties                                                              *)
(***************************************************************************)

\* Whatever the line does, what is published are blocks of the source in their
\* order, none twice and none left out before the last: of YMODEM, which knows
\* the size, all of them.  A receiver that ended leaves no staged file.
FilesArrive ==
    /\ \A p \in published :
         IF ymodem THEN p.blocks = Source(p.file) ELSE IsPrefix(p.blocks, Source(p.file))
    /\ at \in {"done", "failed"} => ~staged
===============================================================================
