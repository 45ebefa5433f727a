---------------------------- MODULE ClientSession -----------------------------
(***************************************************************************)
(* How the SMTP client sends the letters of one foreign domain: a thread's  *)
(* loop in start_thread (context.c), the handlers of its connection and the *)
(* files it reads and removes, with a peer that is any SMTP server.  When   *)
(* pselect times out, the thread lists the domain's directory and connects; *)
(* as long as the socket is ready, it calls the handler of the connection's *)
(* state, which reads one reply and sends one command or one line of text.  *)
(*                                                                         *)
(* There is one thread and one domain, so at most one multiplex_context.    *)
(* The peer answers each command with one line, as the server does.         *)
(***************************************************************************)
EXTENDS Naturals, SequencesExt

CONSTANTS
    Letters,      \* the files of the domain
    Recipients,   \* to_size, of every letter
    TextLines,    \* strings_size, of each letter
    NULL

ASSUME ClientSessionAssumption ==
    /\ Recipients \in Nat \ {0} /\ TextLines \in [Letters -> Nat]
    /\ NULL \notin Letters \cup {"cut"}

VARIABLES
    file,         \* of each letter: not there yet, stored, or why it was removed
    context,      \* the multiplex_context
    sock,         \* the client's socket
    replies,      \* the lines that the client has not read yet
    mutex,        \* server_thread_mutex
    peer,         \* the transaction as the peer has it
    accepted,     \* the letters that the peer has taken over
    calm          \* from now on nothing fails

vars == <<file, context, sock, replies, mutex, peer, accepted, calm>>

-----------------------------------------------------------------------------
(* The handlers tell apart these replies, and the code UNDEFINED_ERROR of a *)
(* reply that could not be read.                                            *)
Codes == {"success", "4xx", "5xx", "550"}
Status == Codes \cup {"NOT_ANSWER", "UNDEFINED_ERROR"}

is_smtp_success(status) == status = "success"
is_smtp_5xx_error(status) == status \in {"5xx", "550"}

(* The states of a connection, named for the command that was sent last.    *)
Waiting == {"CONNECT", "HELO", "MAIL", "RCPT", "DATA", "END_MESSAGE"}
States == Waiting \cup {"MESSAGE", "INVALID"}

Context == [state : States, status : Status, messages : Seq(Letters),
            select : Letters \cup {NULL}, iteration : Nat]

NoContext == [state |-> "INVALID", status |-> "NOT_ANSWER", messages |-> <<>>,
              select |-> NULL, iteration |-> 0]

(* A recipient or a line of a letter is its number in the file.  The lines  *)
(* in `cut' came as beginnings of themselves (see Send).                    *)
Transaction == [from : Letters \cup {NULL}, rcpts : Seq(Letters \X (1 .. Recipients)),
                text : Seq(Letters \X Nat), cut : SUBSET Nat]
Empty == [from |-> NULL, rcpts |-> <<>>, text |-> <<>>, cut |-> {}]

(* asked: the command that the peer has not answered.                       *)
Idle == [asked |-> NULL, got |-> Empty]

Stored == {l \in Letters : file[l] = "stored"}

Init ==
    /\ file = [l \in Letters |-> "none"]
    /\ context = NoContext /\ sock = "none" /\ replies = <<>> /\ mutex = "free"
    /\ peer = Idle /\ accepted = {} /\ calm = FALSE

-----------------------------------------------------------------------------
(* pselect: writable unless the connection is being made or its buffer is   *)
(* full, readable if there is a line or the end of the connection.          *)
is_ready_for_write == sock \in {"open", "closed"}
is_ready_for_read == replies # <<>> \/ sock = "closed"

(* receive_line fails at the end of the connection, and also if the socket, *)
(* which does not block, has only the beginning of a line.                  *)
get_smtp_response ==
    (IF replies = <<>> THEN {} ELSE {[status |-> Head(replies).code, rest |-> Tail(replies)]})
    \cup
    (IF replies # <<>> /\ calm THEN {} ELSE {[status |-> "UNDEFINED_ERROR", rest |-> replies]})

(* Without anything to read the status of the last time is the status.      *)
get_response_to_context ==
    IF is_ready_for_read
    THEN get_smtp_response
    ELSE {[status |-> context.status, rest |-> replies]}

(* get_first_message: the message of the first name in the list.            *)
Selected ==
    IF context.select = NULL
    THEN [context EXCEPT !.select = Head(context.messages)]
    ELSE context

(* The smtp_send_ functions: if send_line fails the connection is INVALID,  *)
(* else it has the state of what was sent.  send_line fails when the socket *)
(* takes no more.  When it took a part of the line and has room again, what *)
(* goes out next is the line's beginning again, not its rest (ptr moves,    *)
(* but message is sent): in place of `got' the peer has `part'.  Nothing    *)
(* arrives at a peer that has closed the connection.                        *)
Send(c, state, got, part) ==
    \/ /\ sock = "open"
       /\ context' = [c EXCEPT !.state = state]
       /\ peer' \in {got} \cup (IF calm THEN {} ELSE {part})
       /\ sock' \in {"open"} \cup (IF calm THEN {} ELSE {"full"})
    \/ /\ sock = "closed"
       /\ \E s \in {state, "INVALID"} : context' = [c EXCEPT !.state = s]
       /\ UNCHANGED <<peer, sock>>
    \/ /\ sock \in {"full"} \cup (IF calm THEN {} ELSE {"open"})
       /\ context' = [c EXCEPT !.state = "INVALID"]
       /\ sock' = "full"
       /\ UNCHANGED peer

Ask(command) == [peer EXCEPT !.asked = command]

(* Beginnings of a command never have its end, and the peer waits for it.   *)
(* (Those of the dot's may: "\r\n." and then "\r\n".)                       *)
Command(c, state, got) == Send(c, state, got, Ask("cut"))

(* remove_multiplex_context, after a QUIT whose answer nobody reads.        *)
remove_multiplex_context ==
    /\ context' = NoContext
    /\ sock' = "none" /\ replies' = <<>> /\ peer' = Idle

(* remove_message_server: the file, and its name in the list.               *)
remove_message_server(l, why) == file' = [file EXCEPT ![l] = why]

(* A success that comes when the socket is not ready for writing is kept.   *)
Keep(r) ==
    /\ ~is_ready_for_write
    /\ context' = [Selected EXCEPT !.status = r.status]
    /\ replies' = r.rest
    /\ UNCHANGED <<file, sock, peer>>

(* What every handler does with a reply that is not a success.              *)
Failed(r) ==
    \/ /\ r.status \in {"4xx", "UNDEFINED_ERROR"}
       /\ remove_multiplex_context
       /\ UNCHANGED file
    \/ /\ is_smtp_5xx_error(r.status)
       /\ remove_message_server(Selected.select, "refused")
       /\ remove_multiplex_context

(* ... and with one that is: it goes on to what it sends.                   *)
GoesOn(r) ==
    /\ is_smtp_success(r.status) /\ is_ready_for_write
    /\ replies' = r.rest
    /\ UNCHANGED file

-----------------------------------------------------------------------------
(* pselect has found the socket ready.                                      *)
Ready ==
    /\ sock # "none" /\ mutex # "hung"
    /\ is_ready_for_read \/ is_ready_for_write

Handler(state) == Ready /\ context.state = state

(* Wrong: the greeting is taken for the answer to HELO, too.                *)
SendHeloKeeping == Command([Selected EXCEPT !.status = "success"], "HELO", Ask("HELO"))

SendHelo == Command([Selected EXCEPT !.status = "NOT_ANSWER"], "HELO", Ask("HELO"))

(* The greeting: connect_handler returns if there is nothing new.           *)
connect_handler ==
    /\ Handler("CONNECT")
    /\ \E r \in get_response_to_context :
         /\ r.status \notin {"NOT_ANSWER", context.status}
         /\ \/ GoesOn(r) /\ SendHelo
            \/ is_smtp_success(r.status) /\ Keep(r)
            \/ Failed(r)
    /\ UNCHANGED <<mutex, accepted, calm>>

SendMail ==
    Command([Selected EXCEPT !.status = "NOT_ANSWER", !.iteration = @ + 1], "MAIL",
            [asked |-> "MAIL", got |-> [Empty EXCEPT !.from = Selected.select]])

helo_handler ==
    /\ Handler("HELO")
    /\ \E r \in get_response_to_context :
         /\ r.status # "NOT_ANSWER"
         /\ \/ GoesOn(r) /\ SendMail
            \/ is_smtp_success(r.status) /\ Keep(r)
            \/ Failed(r)
    /\ UNCHANGED <<mutex, accepted, calm>>

(* smtp_send_rcpt: the n-th recipient of the letter.                        *)
SendRcpt(n, iteration) ==
    Command([context EXCEPT !.status = "NOT_ANSWER", !.iteration = iteration], "RCPT",
            [Ask("RCPT") EXCEPT !.got.rcpts = Append(@, <<context.select, n>>)])

(* Wrong: goes on counting where helo_handler stopped.                      *)
FirstRcptOfOld == SendRcpt(1, context.iteration + 1)

FirstRcpt == SendRcpt(1, 1)

mail_handler ==
    /\ Handler("MAIL")
    /\ \E r \in get_response_to_context :
         /\ r.status # "NOT_ANSWER"
         /\ \/ GoesOn(r) /\ FirstRcpt
            \/ is_smtp_success(r.status) /\ Keep(r)
            \/ Failed(r)
    /\ UNCHANGED <<mutex, accepted, calm>>

SendData ==
    Command([context EXCEPT !.status = "NOT_ANSWER", !.iteration = 0], "DATA", Ask("DATA"))

(* Wrong: one recipient too many.                                           *)
NextRcptInclusive ==
    IF context.iteration <= Recipients
    THEN SendRcpt(context.iteration + 1, context.iteration + 1)
    ELSE SendData

NextRcpt ==
    IF context.iteration < Recipients
    THEN SendRcpt(context.iteration + 1, context.iteration + 1)
    ELSE SendData

(* A mailbox that does not exist (550) is passed over.                      *)
Passed(r) == IF r.status = "550" THEN [r EXCEPT !.status = "success"] ELSE r

rcpt_handler ==
    /\ Handler("RCPT")
    /\ \E r \in {Passed(answer) : answer \in get_response_to_context} :
         /\ r.status # "NOT_ANSWER"
         /\ \/ GoesOn(r) /\ NextRcpt
            \/ is_smtp_success(r.status) /\ Keep(r)
            \/ Failed(r)
    /\ UNCHANGED <<mutex, accepted, calm>>

(* smtp_send_message: the next line.  No answer is waited for, and the      *)
(* status stays the 354 that began the text.                                *)
SendLine ==
    LET n == context.iteration + 1
        line == [peer EXCEPT !.got.text = Append(@, <<context.select, n>>)]
    IN Send([context EXCEPT !.status = "success", !.iteration = n], "MESSAGE",
            line, [line EXCEPT !.got.cut = @ \cup {n}])

(* It sends strings[0], which was never written if the letter has no lines  *)
(* (strings_size is 0): something is sent, or the process dies              *)
(* (ReadUnwritten).                                                         *)
data_handler ==
    /\ Handler("DATA")
    /\ \E r \in get_response_to_context :
         /\ r.status # "NOT_ANSWER"
         /\ \/ GoesOn(r) /\ SendLine
            \/ is_smtp_success(r.status) /\ Keep(r)
            \/ Failed(r)
    /\ UNCHANGED <<mutex, accepted, calm>>

(* Wrong: the 354 stays, and is taken for the answer to the dot.            *)
SendEndKeeping ==
    Command([context EXCEPT !.iteration = 0], "END_MESSAGE", Ask("END_MESSAGE"))

SendEnd ==
    Command([context EXCEPT !.status = "NOT_ANSWER", !.iteration = 0],
            "END_MESSAGE", Ask("END_MESSAGE"))

(* This handler does not ask whether the socket is ready for writing, so a  *)
(* full buffer makes the connection INVALID.                                *)
message_handler ==
    /\ Handler("MESSAGE")
    /\ \E r \in get_response_to_context :
         /\ r.status # "NOT_ANSWER"
         /\ \/ /\ is_smtp_success(r.status)
               /\ IF context.iteration < TextLines[context.select] THEN SendLine ELSE SendEnd
               /\ replies' = r.rest
               /\ UNCHANGED file
            \/ Failed(r)
    /\ UNCHANGED <<mutex, accepted, calm>>

(* Wrong: the next letter waits for one more answer.                        *)
NextLetterWaits(rest) ==
    context' = [context EXCEPT !.state = "HELO", !.status = "NOT_ANSWER",
                               !.select = NULL, !.messages = rest]

(* The next letter goes on from the state HELO, and the status of this one  *)
(* is taken for the answer to it.                                           *)
NextLetter(rest) ==
    context' = [context EXCEPT !.state = "HELO", !.status = "success",
                               !.select = NULL, !.messages = rest]

(* The letter's name in the list is the first that is equal.                *)
IsNameOf(i, l) ==
    /\ context.messages[i] = l
    /\ \A j \in 1 .. (i - 1) : context.messages[j] # l

Sent(r) ==
    /\ remove_message_server(context.select, "sent")
    /\ \E i \in DOMAIN context.messages :
         /\ IsNameOf(i, context.select)
         /\ LET rest == RemoveAt(context.messages, i)
            IN IF rest # <<>>
               THEN NextLetter(rest) /\ UNCHANGED <<sock, peer>> /\ replies' = r.rest
               ELSE remove_multiplex_context

end_message_handler ==
    /\ Handler("END_MESSAGE")
    /\ \E r \in get_response_to_context :
         /\ r.status # "NOT_ANSWER"
         /\ \/ is_smtp_success(r.status) /\ is_ready_for_write /\ Sent(r)
            \/ is_smtp_success(r.status) /\ Keep(r)
            \/ Failed(r)
    /\ UNCHANGED <<mutex, accepted, calm>>

(* A send has failed before.                                                *)
InvalidState ==
    /\ Handler("INVALID")
    /\ remove_multiplex_context
    /\ UNCHANGED <<file, mutex, accepted, calm>>

(* get_first_message returns NULL: the file cannot be opened or has no      *)
(* header lines.                                                            *)
Unreadable ==
    /\ ~calm /\ Ready /\ context.select = NULL
    /\ remove_multiplex_context
    /\ UNCHANGED <<file, mutex, accepted, calm>>

-----------------------------------------------------------------------------
(* pselect times out, and read_maildir_servers lists the letters, in any    *)
(* order.                                                                   *)
Timeout ==
    /\ mutex # "hung" /\ Stored # {}
    /\ sock = "none" \/ (~Ready /\ ~calm)

(* There is no connection: is_contains looks and unlocks the mutex.         *)
Scan == Timeout /\ sock = "none" /\ mutex = "free"

smtp_connect ==
    /\ Scan
    /\ sock' = "connecting"
    /\ \E order \in SetToSeqs(Stored) :
         /\ context' = [NoContext EXCEPT !.state = "CONNECT", !.messages = order]
    /\ peer' = Ask("CONNECT")
    /\ UNCHANGED <<file, replies, mutex, accepted, calm>>

(* There is no MX record, no name server, or connect fails at once:         *)
(* remove_all_message_server.                                               *)
Unreachable ==
    /\ ~calm /\ Scan
    /\ file' = [l \in Letters |-> IF l \in Stored THEN "unreachable" ELSE file[l]]
    /\ UNCHANGED <<context, sock, replies, mutex, peer, accepted, calm>>

(* The connection is still there: is_contains finds it, and returns without *)
(* unlocking the mutex.                                                     *)
is_contains ==
    /\ Timeout /\ sock # "none" /\ mutex = "free"
    /\ mutex' = "kept"
    /\ UNCHANGED <<file, context, sock, replies, peer, accepted, calm>>

(* So the next call of is_contains does not return.                         *)
Hang ==
    /\ Timeout /\ mutex = "kept"
    /\ mutex' = "hung"
    /\ UNCHANGED <<file, context, sock, replies, peer, accepted, calm>>

-----------------------------------------------------------------------------
(* The server renames a letter into the domain's directory.                 *)
Arrive ==
    /\ \E l \in Letters : file[l] = "none" /\ file' = [file EXCEPT ![l] = "stored"]
    /\ UNCHANGED <<context, sock, replies, mutex, peer, accepted, calm>>

(* The connection is made, or its buffer has room again.                    *)
BecomesReady ==
    /\ sock \in {"connecting", "full"} /\ sock' = "open"
    /\ UNCHANGED <<file, context, replies, mutex, peer, accepted, calm>>

(* The peer may refuse anything, even mailboxes only, and takes over a      *)
(* letter when it answers the dot with a success.                           *)
Answers(asked) ==
    IF calm THEN {"success"}
    ELSE {"success", "4xx", "5xx"} \cup IF asked = "RCPT" THEN {"550"} ELSE {}

PeerAnswers ==
    /\ sock \in {"open", "full"} /\ peer.asked \notin {NULL, "cut"}
    /\ \E code \in Answers(peer.asked) :
         /\ replies' = Append(replies, [to |-> peer.asked, code |-> code])
         /\ accepted' = IF peer.asked = "END_MESSAGE" /\ code = "success"
                        THEN accepted \cup {peer.got} ELSE accepted
    /\ peer' = [peer EXCEPT !.asked = NULL]
    /\ UNCHANGED <<file, context, sock, mutex, calm>>

(* A 421 that nobody asked for, or none, and the end of the connection;     *)
(* what the client has not read may be lost.  A peer that gets beginnings   *)
(* of a command may only go.                                                *)
PeerCloses ==
    /\ ~calm \/ peer.asked = "cut"
    /\ sock \in {"connecting", "open", "full"}
    /\ sock' = "closed"
    /\ replies' \in {replies, <<>>} \cup
         IF sock = "connecting" THEN {} ELSE {Append(replies, [to |-> "any", code |-> "4xx"])}
    /\ peer' = Idle
    /\ UNCHANGED <<file, context, mutex, accepted, calm>>

(* The process is started again.                                            *)
Restart ==
    /\ remove_multiplex_context /\ mutex' = "free"
    /\ UNCHANGED <<file, accepted, calm>>

(* The client is killed.                                                    *)
Kill == ~calm /\ Restart

(* strlen of a pointer that was never written.                              *)
ReadUnwritten ==
    /\ Handler("DATA") /\ TextLines[context.select] = 0
    /\ is_ready_for_write
    /\ \E r \in get_response_to_context : is_smtp_success(r.status)
    /\ Restart

CalmDown ==
    /\ calm' = TRUE
    /\ UNCHANGED <<file, context, sock, replies, mutex, peer, accepted>>

Iteration ==
    \/ connect_handler \/ helo_handler \/ mail_handler \/ rcpt_handler
    \/ data_handler \/ message_handler \/ end_message_handler
    \/ InvalidState \/ Unreadable \/ ReadUnwritten
    \/ smtp_connect \/ Unreachable \/ is_contains \/ Hang

Next ==
    \/ Iteration
    \/ Arrive \/ BecomesReady \/ PeerAnswers \/ PeerCloses \/ Kill \/ CalmDown

Spec == Init /\ [][Next]_vars

(* The thread runs, and a peer answers; one that waits for the rest of a    *)
(* command gives up.                                                        *)
FairSpec ==
    /\ Spec
    /\ WF_vars(Iteration) /\ WF_vars(PeerAnswers) /\ WF_vars(BecomesReady)
    /\ WF_vars(peer.asked = "cut" /\ PeerCloses)

-----------------------------------------------------------------------------
(* The variables have their types.                                          *)
TypeOK ==
    /\ file \in [Letters -> {"none", "stored", "sent", "refused", "unreachable"}]
    /\ context \in Context
    /\ sock \in {"none", "connecting", "open", "full", "closed"}
    /\ replies \in Seq([to : Waiting \cup {"any"}, code : Codes])
    /\ mutex \in {"free", "kept", "hung"}
    /\ peer \in [asked : Waiting \cup {NULL, "cut"}, got : Transaction]
    /\ accepted \subseteq Transaction /\ calm \in BOOLEAN

(* A file is removed as sent only if the peer has taken over the letter     *)
(* ("the file of a delivered message may be removed",                       *)
(* src/client/report/tex/main.tex:110), however connections, replies and    *)
(* the process were lost meanwhile.                                         *)
SentIsAccepted ==
    \A l \in Letters : file[l] = "sent" => \E t \in accepted : t.from = l

Whole(l, n) == [k \in 1 .. n |-> <<l, k>>]

(* What data_handler and message_handler send of a letter: strings[0] also  *)
(* if there is none.                                                        *)
Lines(l) == IF TextLines[l] = 0 THEN 1 ELSE TextLines[l]

(* What the peer takes over as a letter was sent from it, all of it in      *)
(* order: each recipient once, each line once, and nothing of another       *)
(* letter of the same connection or of an attempt before.  The lines in cut *)
(* came damaged (send_line, network.c:55), and the line of a letter that    *)
(* has none is whatever strings[0] points to (context.c:193): that every    *)
(* line comes as it is stored is not what the code does.                    *)
AcceptedInOrder ==
    \A t \in accepted :
        /\ t.from \in Letters
        /\ t.rcpts = Whole(t.from, Recipients)
        /\ t.text = Whole(t.from, Lines(t.from)) /\ t.cut \subseteq 1 .. Lines(t.from)

(* The client and an open peer are in step: a reply is read by the handler  *)
(* of the command it answers, and a command is sent only when the last one  *)
(* is answered.                                                             *)
InStep ==
    sock = "open" /\ context.state # "INVALID" =>
        /\ peer.asked \in {NULL, "cut", context.state}
        /\ peer.asked # NULL => replies = <<>> /\ context.status = "NOT_ANSWER"
        /\ Len(replies) <= 1
        /\ \A i \in DOMAIN replies : replies[i].to = context.state /\ context.status = "NOT_ANSWER"

(* When nothing fails any more every stored letter is sent and removed,     *)
(* whatever failed before, unless is_contains has left the mutex locked or  *)
(* a stored letter without lines ends the process again and again.          *)
Faulting == \E e \in Stored : TextLines[e] = 0
Settled ==
    \A l \in Letters : calm /\ file[l] = "stored" ~> file[l] # "stored" \/ mutex # "free" \/ Faulting
=============================================================================
