--------------------------- MODULE SmtpSessionProofs ---------------------------
(***************************************************************************)
(* Proofs about one SMTP session, for any addresses and for letters,        *)
(* recipient lists and reads of any size.                                   *)
(***************************************************************************)
EXTENDS SmtpSession, TLAPS

(* The line that is processed.                                              *)
LEMMA LineTyped ==
    ASSUME IInv, input # <<>>
    PROVE  /\ Line \in Lines /\ Tail(input) \in Seq(Lines)
           /\ Line.arg \in Mailboxes \cup {NULL} /\ Line.ok \in BOOLEAN
           /\ Line.cmd = "RCPT" /\ Line.ok => Line.arg \in Mailboxes
<1>1. Line \in Lines /\ Tail(input) \in Seq(Lines)
  BY DEF IInv, TypeOK, Line
<1> QED BY <1>1 DEF Lines, Bare

(* The automaton stays among its states.                                    *)
LEMMA StepTyped ==
    ASSUME NEW s \in States, NEW ev, autofsm_step(s, ev) # "INVALID"
    PROVE  autofsm_step(s, ev) \in States
BY DEF autofsm_step, States, Commanding

(* A command that leaves the transaction as it is, or abandons it.          *)
LEMMA TakesTyped ==
    ASSUME IInv, NEW cmd, Takes(cmd)
    PROVE  state' \in States /\ input # <<>> /\ state \in States /\ Line.cmd = cmd
<1>1. state \in States /\ state' = NextState /\ NextState # "INVALID" /\ input # <<>>
      /\ Line.cmd = cmd
  BY DEF Takes, Has, Commanding, States
<1> QED BY <1>1, StepTyped DEF NextState

(* No transaction is a transaction.                                         *)
LEMMA NoTransactionTyped ==
    /\ NoTransaction \in Transactions
    /\ NoTransaction.open = FALSE
    /\ NoTransaction.rcpts = <<>> /\ NoTransaction.data = <<>>
BY DEF NoTransaction, Transactions

(* Before the connection nothing is agreed on.                              *)
LEMMA InitIInv == Init => IInv
BY NoTransactionTyped DEF Init, IInv, TypeOK, Agreement

(* Connecting, disconnecting, receiving and sending.                        *)
LEMMA ConnectionIInv ==
    ASSUME IInv, Connect \/ Disconnect \/ Receive \/ ReplySent \/ UNCHANGED vars
    PROVE  IInv'
<1>1. CASE Connect
  BY <1>1, NoTransactionTyped DEF Connect, IInv, TypeOK, Agreement, States
<1>2. CASE Close
  BY <1>2, NoTransactionTyped DEF Close, IInv, TypeOK, Agreement
<1>3. CASE Receive
  <2>1. PICK n \in 1 .. MaxBatch : input' \in [1 .. n -> Lines]
    BY <1>3 DEF Receive
  <2>2. input' \in Seq(Lines)
    BY <2>1, SmtpAssumption
  <2> QED BY <2>2, <1>3 DEF Receive, smtp, IInv, TypeOK, Agreement
<1>4. CASE ReplySent /\ ~Close
  BY <1>4 DEF ReplySent, smtp, IInv, TypeOK, Agreement
<1>5. CASE UNCHANGED vars
  BY <1>5 DEF vars, IInv, TypeOK, Agreement
<1> QED BY <1>1, <1>2, <1>3, <1>4, <1>5 DEF Disconnect

(* Commands that do not touch the transaction.                              *)
LEMMA NeutralIInv ==
    ASSUME IInv, NEW code \in Replies, Reply(code),
           state' \in States, UNCHANGED <<smtp, letter>>,
           agreed' \in {agreed, NoTransaction}
    PROVE  IInv'
BY NoTransactionTyped DEF Reply, smtp, IInv, TypeOK, Agreement

(* Every command changes both sides of the agreement alike.                 *)
LEMMA CommandIInv ==
    ASSUME IInv, Command
    PROVE  IInv'
<1> USE DEF Replies
<1>1. CASE Unrecognised \/ InvalidSequence
  <2>1. state \in States
    BY <1>1 DEF Unrecognised, InvalidSequence, Has, Commanding, States
  <2>2. \E code \in {"500", "503"} : Reply(code)
    BY <1>1 DEF Unrecognised, InvalidSequence
  <2>3. UNCHANGED <<state, smtp, letter, agreed>>
    BY <1>1 DEF Unrecognised, InvalidSequence
  <2> QED BY <2>1, <2>2, <2>3, NeutralIInv
<1>2. CASE pr_smtp_command_hello
  <2>1. state' \in States
    BY <1>2, TakesTyped DEF pr_smtp_command_hello
  <2>2. \E code \in {"250", "501"} : Reply(code)
    BY <1>2 DEF pr_smtp_command_hello
  <2> QED BY <2>1, <2>2, <1>2, NeutralIInv DEF pr_smtp_command_hello
<1>3. CASE pr_smtp_command_data \/ Test \/ Quit
  <2>1. state' \in States
    BY <1>3, TakesTyped DEF pr_smtp_command_data, Test, Quit
  <2>2. \E code \in {"354", "250", "502", "221"} : Reply(code)
    BY <1>3 DEF pr_smtp_command_data, Test, Quit
  <2>3. UNCHANGED <<smtp, letter, agreed>>
    BY <1>3 DEF pr_smtp_command_data, Test, Quit
  <2> QED BY <2>1, <2>2, <2>3, NeutralIInv
<1>4. CASE pr_smtp_command_mailfrom
  <2>1. state' \in States /\ Line.arg \in Mailboxes \cup {NULL}
    BY <1>4, TakesTyped, LineTyped DEF pr_smtp_command_mailfrom
  <2>2. CASE Line.ok
    <3>1. /\ from' = Line.arg /\ rcpts' = <<>> /\ data' = <<>> /\ Reply("250")
          /\ agreed' = [open |-> TRUE, from |-> Line.arg, rcpts |-> <<>>, data |-> <<>>]
          /\ UNCHANGED letter
      BY <1>4, <2>2 DEF pr_smtp_command_mailfrom
    <3>2. /\ agreed' \in Transactions
          /\ agreed'.from = Line.arg /\ agreed'.rcpts = <<>> /\ agreed'.data = <<>>
      BY <2>1, <3>1 DEF Transactions
    <3> QED BY <2>1, <3>1, <3>2 DEF Reply, IInv, TypeOK, Agreement
  <2>3. CASE ~Line.ok
    BY <1>4, <2>1, <2>3, NeutralIInv DEF pr_smtp_command_mailfrom
  <2> QED BY <2>2, <2>3
<1>5. CASE pr_smtp_command_rcpto
  <2>1. state' \in States
    BY <1>5, TakesTyped DEF pr_smtp_command_rcpto
  <2>2. CASE Line.ok
    <3>1. Line.arg \in Mailboxes
      BY <1>5, <2>2, TakesTyped, LineTyped DEF pr_smtp_command_rcpto
    <3>2. /\ rcpts' = Append(rcpts, Line.arg) /\ Reply("250")
          /\ agreed' = [agreed EXCEPT !.rcpts = Append(agreed.rcpts, Line.arg)]
          /\ UNCHANGED <<from, data, letter>>
      BY <1>5, <2>2 DEF pr_smtp_command_rcpto
    <3>3. /\ agreed' \in Transactions
          /\ agreed'.rcpts = Append(agreed.rcpts, Line.arg)
          /\ agreed'.from = agreed.from /\ agreed'.data = agreed.data
          /\ agreed'.open = agreed.open
      <4>1. agreed \in Transactions /\ Append(agreed.rcpts, Line.arg) \in Seq(Mailboxes)
        BY <3>1 DEF IInv, TypeOK, Transactions
      <4> QED BY <4>1, <3>2 DEF Transactions
    <3>4. rcpts' \in Seq(Mailboxes)
      BY <3>1, <3>2 DEF IInv, TypeOK
    <3> QED BY <2>1, <3>2, <3>3, <3>4 DEF Reply, IInv, TypeOK, Agreement
  <2>3. CASE ~Line.ok
    <3>1. Reply("501") /\ UNCHANGED <<smtp, letter, agreed>>
      BY <1>5, <2>3 DEF pr_smtp_command_rcpto, smtp
    <3> QED BY <2>1, <3>1, NeutralIInv
  <2> QED BY <2>2, <2>3
<1>6. CASE pr_smtp_command_rset
  <2>1. state' \in States
    BY <1>6, TakesTyped DEF pr_smtp_command_rset
  <2> QED BY <2>1, <1>6, NoTransactionTyped
       DEF pr_smtp_command_rset, Reply, IInv, TypeOK, Agreement
<1> QED BY <1>1, <1>2, <1>3, <1>4, <1>5, <1>6 DEF Command

(* A line of the letter is added on both sides.                             *)
LEMMA DataLineIInv ==
    ASSUME IInv, DataLine
    PROVE  IInv'
<1>1. Line \in Lines /\ Tail(input) \in Seq(Lines)
  BY LineTyped DEF DataLine
<1>2. /\ data' = Append(data, Line) /\ input' = Tail(input)
      /\ agreed' = [agreed EXCEPT !.data = Append(agreed.data, Line)]
      /\ UNCHANGED <<state, from, rcpts, reply, letter>>
  BY DEF DataLine
<1>3. /\ agreed' \in Transactions
      /\ agreed'.data = Append(agreed.data, Line)
      /\ agreed'.from = agreed.from /\ agreed'.rcpts = agreed.rcpts
      /\ agreed'.open = agreed.open
  <2>1. agreed \in Transactions /\ Append(agreed.data, Line) \in Seq(Lines)
    BY <1>1 DEF IInv, TypeOK, Transactions
  <2> QED BY <2>1, <1>2 DEF Transactions
<1>4. data' \in Seq(Lines)
  BY <1>1, <1>2 DEF IInv, TypeOK
<1> QED BY <1>1, <1>2, <1>3, <1>4 DEF IInv, TypeOK, Agreement

(* The letter is delivered and the agreement is over.                       *)
LEMMA DataEndIInv ==
    ASSUME IInv, DataEnd
    PROVE  IInv'
<1>1. CASE from = NULL
  BY <1>1 DEF DataEnd, smtp, IInv, TypeOK, Agreement
<1>2. CASE from # NULL
  <2>1. /\ state' = "CLIENT_INIT" /\ data' = <<>> /\ agreed' = NoTransaction
        /\ letter' = [from |-> from, rcpts |-> rcpts, data |-> data]
        /\ Reply("250") \/ Reply("451")
        /\ UNCHANGED <<from, rcpts>>
    BY <1>2 DEF DataEnd, autofsm_step
  <2>2. letter' \in Letter
    BY <1>2, <2>1 DEF Letter, IInv, TypeOK
  <2>3. reply' \in Replies /\ input' = <<>> /\ state' \in States
    BY <2>1 DEF Reply, Replies, States
  <2>4. TypeOK'
    BY <2>1, <2>2, <2>3, NoTransactionTyped DEF IInv, TypeOK
  <2>5. Agreement'
    BY <2>1, NoTransactionTyped DEF Agreement
  <2> QED BY <2>4, <2>5 DEF IInv
<1> QED BY <1>1, <1>2

(* In every reachable state the server has the transaction that its replies *)
(* promised.                                                                *)
THEOREM InductiveInvariant == Spec => []IInv
<1>1. Init => IInv
  BY InitIInv
<1>2. IInv /\ [Next]_vars => IInv'
  BY ConnectionIInv, CommandIInv, DataLineIInv, DataEndIInv DEF Next
<1> QED BY <1>1, <1>2, PTL DEF Spec

(* The variables always have their types.                                   *)
THEOREM TypeCorrect == Spec => []TypeOK
<1>1. IInv => TypeOK
  BY DEF IInv
<1> QED BY <1>1, InductiveInvariant, PTL

(* A letter that is delivered is the one the client was promised, however   *)
(* its lines came and whatever the session did before.                      *)
THEOREM DeliversAsAgreed == Spec => LetterAsAgreed
<1>1. IInv /\ [Next]_vars =>
        [DataEnd /\ letter' # NULL /\ state' # "FAULT" /\ agreed.open =>
           letter' = [from |-> agreed.from, rcpts |-> agreed.rcpts, data |-> agreed.data]]_vars
  BY DEF DataEnd, IInv, Agreement
<1> QED BY <1>1, InductiveInvariant, PTL DEF Spec, LetterAsAgreed
===============================================================================
