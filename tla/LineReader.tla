----------------------------- MODULE LineReader -----------------------------
(***************************************************************************)
(* How handler_read turns the packets of a connection into lines: the       *)
(* vector user_context.buffer, the search for "\r\n" (util.c) and what      *)
(* stays in the buffer for the next packet.  The session is two modes, for  *)
(* a line that is a command is always answered, and a line of a letter only *)
(* if it is the dot.  One worker reads a connection at a time (Server), so  *)
(* nothing else touches the buffer.                                         *)
(*                                                                         *)
(* A NUL byte, which would cut a line short, is not among the bytes.        *)
(***************************************************************************)
EXTENDS Naturals, Sequences, SequencesExt, FiniteSetsExt

CONSTANTS
    MaxPacket,    \* TEMPORARY_BUFFER_SIZE: the bytes that one recv returns
    MaxSent       \* bound of the bytes sent between two replies

ASSUME LineReaderAssumption == MaxPacket \in Nat \ {0} /\ MaxSent \in Nat

VARIABLES
    mode,         \* "data" while the session reads a letter, else "command"
    phase,        \* a read is registered, handler_read scans, or a reply is sent
    buffer,       \* user_context.buffer, up to its size
    allocated,    \* the bytes allocated for it
    end,          \* itr.end: the bytes of the buffer that are processed
    letter,       \* the lines of the letter that smtp_parse has got
    sent          \* the bytes received since the last reply

vars == <<mode, phase, buffer, allocated, end, letter, sent>>

Bytes == {"CR", "LF", "dot", "x"}
CRLF == <<"CR", "LF">>
DataEnd == <<"dot", "CR", "LF">>

(* VECTOR_INIT *)
InitialSize == 5

-----------------------------------------------------------------------------
(* Wrong: the array grows only when there is no room for the next byte.     *)
GrownWhenFull(a, from, to) ==
    LET cap[n \in from .. to] ==
          IF n = from THEN a
          ELSE IF n - 1 = cap[n - 1] THEN (cap[n - 1] * 3) \div 2 ELSE cap[n - 1]
    IN cap[to]

(* The capacity after VECTOR_PUSH_BACK has taken the size to "to".          *)
Grown(a, from, to) ==
    LET cap[n \in from .. to] ==
          IF n = from THEN a
          ELSE IF n = cap[n - 1] THEN (cap[n - 1] * 3) \div 2 ELSE cap[n - 1]
    IN cap[to]

(* Wrong: a line ends at any LF.                                            *)
FirstLF(s) == {i \in 1 .. Len(s) : s[i] = "LF"}

(* find_first_entry_str: seq_i counts the matched bytes of "\r\n"; a byte   *)
(* that does not match resets it and is not compared again, so the second   *)
(* CR of "\r\r\n" is lost.  The result is where matches would end.          *)
find_first_entry_str(s) ==
    LET seq_i[i \in 0 .. Len(s)] ==
          IF i = 0 THEN 0
          ELSE IF seq_i[i - 1] < 2 /\ s[i] = CRLF[seq_i[i - 1] + 1] THEN seq_i[i - 1] + 1
          ELSE 0
    IN {i \in 1 .. Len(s) : seq_i[i] = 2}

(* sub_str_iterate: the next piece of the buffer, [end + 1, Next end].      *)
Rest == SubSeq(buffer, end + 1, Len(buffer))

sub_str_iterate ==
    LET found == find_first_entry_str(Rest)
    IN IF found = {} THEN Len(buffer) ELSE end + Min(found)

Line == SubSeq(buffer, end + 1, sub_str_iterate)

(* The two bytes before the end, even if the piece does not hold both.  In  *)
(* front of the array is the last byte of the chunk's size, which is 0.     *)
is_line_and ==
    sub_str_iterate >= 2 /\ SubSeq(buffer, sub_str_iterate - 1, sub_str_iterate) = CRLF

-----------------------------------------------------------------------------
(* A user of a new connection, to whom the greeting is sent.                *)
Init ==
    /\ mode = "command" /\ phase = "reply"
    /\ buffer = <<>> /\ allocated = InitialSize /\ end = 0
    /\ letter = <<>> /\ sent = <<>>

(* The bytes of a packet are pushed to the vector one by one.               *)
Receive ==
    /\ phase = "read"
    /\ \E n \in 1 .. MaxPacket : \E packet \in [1 .. n -> Bytes] :
         /\ Len(sent) + n <= MaxSent
         /\ buffer' = buffer \o packet
         /\ allocated' = Grown(allocated, Len(buffer), Len(buffer) + n)
         /\ sent' = sent \o packet
    /\ phase' = "scan"
    /\ UNCHANGED <<mode, end, letter>>

(* Wrong: the end of the line before is kept.                               *)
AnswerOnly ==
    /\ phase' = "reply"
    /\ buffer' = <<>>
    /\ letter' = <<>> /\ sent' = <<>>
    /\ UNCHANGED <<allocated, end>>

(* VECTOR_CLEAR: what is behind the answered line is thrown away.           *)
Answer ==
    /\ phase' = "reply"
    /\ buffer' = <<>> /\ end' = 0
    /\ letter' = <<>> /\ sent' = <<>>
    /\ UNCHANGED allocated

(* A reply of 354 begins a letter.                                          *)
CommandLine ==
    /\ phase = "scan" /\ mode = "command" /\ is_line_and
    /\ mode' \in {"command", "data"}
    /\ Answer

(* Wrong: a line that begins with a dot ends the letter.                    *)
BeginsWithDot == Head(Line) = "dot"

(* smtp_parse compares the line with SMTP_DATA_END.                         *)
IsDataEnd == Line = DataEnd

(* Nothing to answer: the next line, if there is more in the buffer.        *)
LetterLine ==
    /\ phase = "scan" /\ mode = "data" /\ is_line_and /\ ~IsDataEnd
    /\ letter' = Append(letter, Line)
    /\ IF sub_str_iterate # Len(buffer)
       THEN end' = sub_str_iterate /\ UNCHANGED <<phase, buffer>>
       ELSE end' = 0 /\ phase' = "read" /\ buffer' = <<>>
    /\ UNCHANGED <<mode, allocated, sent>>

LetterEnd ==
    /\ phase = "scan" /\ mode = "data" /\ is_line_and /\ IsDataEnd
    /\ mode' = "command"
    /\ Answer

(* Wrong: the beginning of a line is forgotten.                             *)
ForgetPartial ==
    /\ phase = "scan" /\ ~is_line_and
    /\ phase' = "read"
    /\ buffer' = IF end = 0 THEN buffer ELSE <<>>
    /\ end' = 0
    /\ UNCHANGED <<mode, allocated, letter, sent>>

(* The beginning of a line moves to the front of the buffer.                *)
KeepPartial ==
    /\ phase = "scan" /\ ~is_line_and
    /\ phase' = "read"
    /\ buffer' = Line
    /\ end' = 0
    /\ UNCHANGED <<mode, allocated, letter, sent>>

(* handler_write, or handler_hello_write of the next connection.            *)
ReplySent ==
    /\ phase = "reply"
    /\ phase' = "read"
    /\ UNCHANGED <<mode, buffer, allocated, end, letter, sent>>

(* The peer is gone: user_disconnected, and handler_accept of another.      *)
Reconnect ==
    /\ phase \in {"read", "reply"}
    /\ mode' = "command" /\ phase' = "reply"
    /\ buffer' = <<>> /\ allocated' = InitialSize /\ end' = 0
    /\ letter' = <<>> /\ sent' = <<>>

Next ==
    \/ Receive \/ ReplySent \/ Reconnect
    \/ CommandLine \/ LetterLine \/ LetterEnd \/ KeepPartial

Spec == Init /\ [][Next]_vars

-----------------------------------------------------------------------------
(* What was sent, split as the text of RFC 5321 and the report do: a line   *)
(* ends at each CRLF.  It does not know of packets.                         *)
LineEnds(s) == {i \in 2 .. Len(s) : SubSeq(s, i - 1, i) = CRLF}

LastEnd(s, i) == Max({0} \cup {e \in LineEnds(s) : e < i})

LinesOf(s) ==
    LET lines[i \in 0 .. Len(s)] ==
          IF i = 0 THEN <<>>
          ELSE IF i \in LineEnds(s) THEN Append(lines[i - 1], SubSeq(s, LastEnd(s, i) + 1, i))
          ELSE lines[i - 1]
    IN lines[Len(s)]

SentLines == LinesOf(sent)

DoubleCR == \E i \in 2 .. Len(sent) : sent[i - 1] = "CR" /\ sent[i] = "CR"

(* The variables have their types.                                          *)
TypeOK ==
    /\ mode \in {"command", "data"} /\ phase \in {"read", "scan", "reply"}
    /\ buffer \in Seq(Bytes) /\ sent \in Seq(Bytes)
    /\ allocated \in Nat /\ end \in 0 .. Len(buffer)
    /\ letter \in Seq(Seq(Bytes))

(* Every byte of a letter is in a line that the session has got or still in *)
(* the buffer, in the order in which it was sent: handler_read neither      *)
(* loses, repeats nor reorders any, wherever recv cuts the text.            *)
NothingLost ==
    mode = "data" => FlattenSeq(letter) \o Rest = sent

(* How recv cuts the text makes no difference: while the server waits for   *)
(* more, the session has got exactly the lines that were sent, and the      *)
(* buffer holds what is behind the last one.  Text with two CR in a row is  *)
(* left out: find_first_entry_str misses "\r\r\n" in the middle of a        *)
(* buffer and finds it at its end.                                          *)
LinesAsSent ==
    mode = "data" /\ phase = "read" /\ ~DoubleCR =>
        /\ letter = SentLines
        /\ LineEnds(buffer) = {}

(* A letter ends with a dot and CRLF and has all that was sent before them: *)
(* no byte of it is thrown away with the answer.  That the dot is the first *)
(* line of its own, so no dot is missed and what follows it is not taken    *)
(* for text, is claimed of text without two CR in a row only: behind        *)
(* "\r\r\n" find_first_entry_str misses the line of the dot                 *)
(* (util.c:287-307), and the letter goes on, against the report             *)
(* (main.tex:110-112).                                                      *)
EndsAtDot ==
    [][mode = "data" /\ phase = "scan" /\ mode' = "command" =>
         /\ IsPrefix(FlattenSeq(letter) \o DataEnd, sent)
         /\ ~DoubleCR => \A k \in 1 .. Len(letter) : letter[k] = SentLines[k] /\ letter[k] # DataEnd]_vars

(* handler_read ends a line with '\0' at buffer[itr.end], which must be     *)
(* inside the array even if the line ends where the vector ends.            *)
TerminatorFits == Len(buffer) < allocated
===============================================================================
