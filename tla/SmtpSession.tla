----------------------------- MODULE SmtpSession -----------------------------
(***************************************************************************)
(* One SMTP session of the server: smtp_parse and the handlers of commands  *)
(* (smtp/state.c), the automaton generated from smtp-states.def, and the    *)
(* part of server.c that feeds it lines and sends its replies.              *)
(*                                                                         *)
(* A line is what pr_smtp_command_parse makes of it: a command with its     *)
(* argument, or something else.  While a letter is read every line but      *)
(* ".\r\n" is a line of the letter, whatever it would be as a command.      *)
(***************************************************************************)
EXTENDS Naturals, Sequences, SequencesExt

CONSTANTS
    Mailboxes,    \* addresses of senders and recipients
    MaxRcpts,     \* bound of the recipients of a transaction
    MaxLines,     \* bound of the lines of a letter
    MaxBatch,     \* bound of the lines that one recv returns
    NULL

ASSUME SmtpAssumption ==
    /\ NULL \notin Mailboxes
    /\ MaxRcpts \in Nat /\ MaxLines \in Nat /\ MaxBatch \in Nat

VARIABLES
    state,        \* pr_fsm_state; "CLOSED" while there is no session
    from,         \* pr_mail_from
    rcpts,        \* pr_rcpt_list
    data,         \* pr_mail_data
    input,        \* the lines in the user's buffer that are not processed yet
    reply,        \* the reply being sent, NULL while the server reads
    letter,       \* the letter that send_mail got with the ".\r\n" being answered
    agreed        \* the transaction as the replies of the server describe it

vars == <<state, from, rcpts, data, input, reply, letter, agreed>>
smtp == <<from, rcpts, data>>

States == {"INIT", "CLIENT_INIT", "BEGIN_TRANSACTION", "TRANSACTION", "READ_DATA", "DONE"}
Replies == {"221", "250", "354", "451", "500", "501", "502", "503"}

-----------------------------------------------------------------------------
(* Lines.                                                                   *)

(* ok: the argument has the form that the command expects.  MAIL FROM:<>    *)
(* is correct and has no address.                                           *)
Bare == {"RSET", "DATA", "QUIT", "NOOP", "VRFY"}

Lines ==
    [cmd : {"HELO"}, ok : BOOLEAN, arg : {NULL}]
      \cup [cmd : {"MAIL"}, ok : {TRUE}, arg : Mailboxes \cup {NULL}]
      \cup [cmd : {"RCPT"}, ok : {TRUE}, arg : Mailboxes]
      \cup [cmd : {"MAIL", "RCPT"}, ok : {FALSE}, arg : {NULL}]
      \cup [cmd : Bare \cup {"dot", "unknown"}, ok : {TRUE}, arg : {NULL}]

(* The event of a command; VRFY stands for EXPN and HELP too.               *)
EventOf(cmd) == IF cmd \in {"NOOP", "VRFY"} THEN "TEST" ELSE cmd

(* The table of the automaton, autofsm_trans_table.                         *)
Commanding == {"INIT", "CLIENT_INIT", "BEGIN_TRANSACTION", "TRANSACTION"}

autofsm_step(s, ev) ==
    CASE ev = "TEST" /\ s \in Commanding -> s
      [] ev = "RSET" /\ s \in Commanding -> "INIT"
      [] ev = "HELO" /\ s \in Commanding -> "CLIENT_INIT"
      [] ev = "QUIT" /\ s \in Commanding -> "DONE"
      [] ev = "MAIL" /\ s = "CLIENT_INIT" -> "BEGIN_TRANSACTION"
      [] ev = "RCPT" /\ s \in {"BEGIN_TRANSACTION", "TRANSACTION"} -> "TRANSACTION"
      [] ev = "DATA" /\ s = "TRANSACTION" -> "READ_DATA"
      [] ev = "READ" /\ s = "READ_DATA" -> "READ_DATA"
      [] ev = "END" /\ s = "READ_DATA" -> "CLIENT_INIT"
      [] OTHER -> "INVALID"

-----------------------------------------------------------------------------
(* What the two sides agreed on: a MAIL answered 250 opens a transaction,   *)
(* a RCPT answered 250 adds a recipient, a line after 354 is a line of the  *)
(* letter.  It is what a client knows, not a variable of the program.       *)
Transactions == [open : BOOLEAN, from : Mailboxes \cup {NULL},
                 rcpts : Seq(Mailboxes), data : Seq(Lines)]

NoTransaction == [open |-> FALSE, from |-> NULL, rcpts |-> <<>>, data |-> <<>>]

Init ==
    /\ state = "CLOSED" /\ from = NULL /\ rcpts = <<>> /\ data = <<>>
    /\ input = <<>> /\ reply = NULL /\ letter = NULL
    /\ agreed = NoTransaction

(* smtp_init, for the user_context of a new connection.                     *)
Connect ==
    /\ state = "CLOSED"
    /\ state' = "INIT"
    /\ from' = NULL /\ rcpts' = <<>> /\ data' = <<>>
    /\ agreed' = NoTransaction
    /\ UNCHANGED <<input, reply, letter>>

(* The connection is over: smtp_free.                                       *)
Close ==
    /\ state' = "CLOSED"
    /\ from' = NULL /\ rcpts' = <<>> /\ data' = <<>>
    /\ input' = <<>> /\ reply' = NULL /\ letter' = NULL
    /\ agreed' = NoTransaction

Disconnect ==
    /\ state \notin {"CLOSED", "FAULT"}
    /\ input = <<>>
    /\ Close

(* handler_read appends what was received to the user's buffer.             *)
Receive ==
    /\ state \in States \ {"DONE"}
    /\ input = <<>> /\ reply = NULL
    /\ \E lines \in UNION {[1 .. n -> Lines] : n \in 1 .. MaxBatch} : input' = lines
    /\ UNCHANGED <<state, smtp, reply, letter, agreed>>

(* A reply is registered for sending; the lines behind the one it answers   *)
(* are thrown away, for the headers are read one line at a time             *)
(* (server.c:239).                                                          *)
Reply(code) == reply' = code /\ input' = <<>>

(* handler_write: after the reply to QUIT the connection is closed.         *)
ReplySent ==
    /\ reply # NULL
    /\ IF state = "DONE" THEN Close
       ELSE reply' = NULL /\ letter' = NULL /\ UNCHANGED <<state, smtp, input, agreed>>

-----------------------------------------------------------------------------
(* smtp_parse of a line that is a command.                                  *)
Line == Head(input)
Has(cmd) == input # <<>> /\ state \in Commanding /\ Line.cmd = cmd
NextState == autofsm_step(state, EventOf(Line.cmd))

(* The state moves on, whether the argument was accepted or not.            *)
Takes(cmd) == Has(cmd) /\ NextState # "INVALID" /\ state' = NextState

Unrecognised ==
    /\ Has("dot") \/ Has("unknown")
    /\ Reply("500")
    /\ UNCHANGED <<state, smtp, letter, agreed>>

(* Wrong: the session takes the state the automaton returned.               *)
InvalidSequenceMoves ==
    /\ \E cmd \in {"HELO", "MAIL", "RCPT"} \cup Bare : Has(cmd)
    /\ NextState = "INVALID"
    /\ state' = NextState
    /\ Reply("503")
    /\ UNCHANGED <<smtp, letter, agreed>>

InvalidSequence ==
    /\ \E cmd \in {"HELO", "MAIL", "RCPT"} \cup Bare : Has(cmd)
    /\ NextState = "INVALID"
    /\ Reply("503")
    /\ UNCHANGED <<state, smtp, letter, agreed>>

pr_smtp_command_hello ==
    /\ Takes("HELO")
    /\ Reply(IF Line.ok THEN "250" ELSE "501")
    /\ agreed' = NoTransaction
    /\ UNCHANGED <<smtp, letter>>

(* The previous transaction is reset here, if the argument is correct.      *)
pr_smtp_command_mailfrom ==
    /\ Takes("MAIL")
    /\ \/ /\ Line.ok
          /\ from' = Line.arg /\ rcpts' = <<>> /\ data' = <<>>
          /\ Reply("250")
          /\ agreed' = [open |-> TRUE, from |-> Line.arg, rcpts |-> <<>>, data |-> <<>>]
       \/ /\ ~Line.ok
          /\ Reply("501")
          /\ agreed' = NoTransaction
          /\ UNCHANGED smtp
    /\ UNCHANGED letter

(* Wrong: the new recipient replaces the others.                            *)
RcptReplaces ==
    /\ Takes("RCPT")
    /\ \/ /\ Line.ok /\ Len(rcpts) < MaxRcpts
          /\ rcpts' = <<Line.arg>>
          /\ Reply("250")
          /\ agreed' = [agreed EXCEPT !.rcpts = Append(@, Line.arg)]
       \/ /\ ~Line.ok
          /\ Reply("501")
          /\ UNCHANGED <<rcpts, agreed>>
    /\ UNCHANGED <<from, data, letter>>

pr_smtp_command_rcpto ==
    /\ Takes("RCPT")
    /\ \/ /\ Line.ok /\ Len(rcpts) < MaxRcpts
          /\ rcpts' = Append(rcpts, Line.arg)
          /\ Reply("250")
          /\ agreed' = [agreed EXCEPT !.rcpts = Append(@, Line.arg)]
       \/ /\ ~Line.ok
          /\ Reply("501")
          /\ UNCHANGED <<rcpts, agreed>>
    /\ UNCHANGED <<from, data, letter>>

pr_smtp_command_data ==
    /\ Takes("DATA")
    /\ Reply("354")
    /\ UNCHANGED <<smtp, letter, agreed>>

pr_smtp_command_rset ==
    /\ Takes("RSET")
    /\ from' = NULL /\ rcpts' = <<>> /\ data' = <<>>
    /\ Reply("250")
    /\ agreed' = NoTransaction
    /\ UNCHANGED letter

Test ==
    /\ Takes("NOOP") \/ Takes("VRFY")
    /\ Reply(IF Line.cmd = "NOOP" THEN "250" ELSE "502")
    /\ UNCHANGED <<smtp, letter, agreed>>

Quit ==
    /\ Takes("QUIT")
    /\ Reply("221")
    /\ UNCHANGED <<smtp, letter, agreed>>

-----------------------------------------------------------------------------
(* smtp_parse while a letter is read.                                       *)

DataLine ==
    /\ input # <<>> /\ state = "READ_DATA" /\ Line.cmd # "dot"
    /\ Len(data) < MaxLines
    /\ data' = Append(data, Line)
    /\ agreed' = [agreed EXCEPT !.data = Append(@, Line)]
    /\ input' = Tail(input)
    /\ UNCHANGED <<state, from, rcpts, reply, letter>>

(* ".\r\n": handler_smtp logs the sender's name, without asking whether     *)
(* there is a sender, and calls send_mail, which takes the data away.       *)
(* Delivering may fail, and fails if there are no recipients.               *)
DataEnd ==
    /\ input # <<>> /\ state = "READ_DATA" /\ Line.cmd = "dot"
    /\ IF from = NULL
       THEN /\ state' = "FAULT" /\ input' = <<>>
            /\ UNCHANGED <<smtp, reply, letter, agreed>>
       ELSE /\ state' = autofsm_step(state, "END")
            /\ data' = <<>>
            /\ \/ rcpts # <<>> /\ Reply("250")
               \/ Reply("451")
            /\ letter' = [from |-> from, rcpts |-> rcpts, data |-> data]
            /\ agreed' = NoTransaction
            /\ UNCHANGED <<from, rcpts>>

-----------------------------------------------------------------------------
Command ==
    \/ Unrecognised \/ InvalidSequence
    \/ pr_smtp_command_hello \/ pr_smtp_command_mailfrom \/ pr_smtp_command_rcpto
    \/ pr_smtp_command_data \/ pr_smtp_command_rset \/ Test \/ Quit

Next ==
    \/ Connect \/ Disconnect
    \/ Receive \/ ReplySent
    \/ Command \/ DataLine \/ DataEnd

Spec == Init /\ [][Next]_vars

-----------------------------------------------------------------------------
(* Properties.                                                              *)

Letter == [from : Mailboxes, rcpts : Seq(Mailboxes), data : Seq(Lines)]

(* The variables have their types.                                          *)
TypeOK ==
    /\ state \in States \cup {"CLOSED", "FAULT"}
    /\ from \in Mailboxes \cup {NULL}
    /\ rcpts \in Seq(Mailboxes)
    /\ data \in Seq(Lines)
    /\ input \in Seq(Lines)
    /\ reply \in Replies \cup {NULL}
    /\ letter \in Letter \cup {NULL}
    /\ agreed \in Transactions

(* The inductive invariant: while a transaction is open the server has the  *)
(* sender, the recipients and the lines that were agreed on.                *)
Agreement ==
    agreed.open => from = agreed.from /\ rcpts = agreed.rcpts /\ data = agreed.data

IInv == TypeOK /\ Agreement

(* The letter that is delivered has the sender, the recipients and the      *)
(* lines that the client was promised since its MAIL was answered 250: of   *)
(* an earlier transaction of the session, finished, reset or abandoned,     *)
(* nothing is left, and no line was taken for a command or lost.            *)
LetterAsAgreed ==
    [][DataEnd /\ letter' # NULL /\ state' # "FAULT" /\ agreed.open =>
         letter' = [from |-> agreed.from, rcpts |-> agreed.rcpts, data |-> agreed.data]]_vars

(* "The return address may be empty" (main.tex:94; state.c:174 has the      *)
(* form in its grammar): a letter without a sender is processed like any    *)
(* other.                                                                   *)
EmptySenderWorks == state # "FAULT"
===============================================================================
