-------------------------- MODULE ClientSessionProofs --------------------------
(***************************************************************************)
(* Proofs about the SMTP dialogue of the client, for any letters, recipients *)
(* and lines: whatever fails, and whenever, the client and its peer stay in *)
(* step, what the peer takes over as a letter was sent from it, each        *)
(* recipient and each line once and in order, and a letter is removed as    *)
(* sent only if the peer took it over.                                      *)
(***************************************************************************)
EXTENDS ClientSession, SequenceTheorems, FiniteSetTheorems, TLAPS

(* The states of a connection in which a letter is on its way.              *)
Sending == {"MAIL", "RCPT", "DATA", "MESSAGE", "END_MESSAGE"}

(* Without a socket there is no connection at either end; with one there is *)
(* a letter to send, and the thread never finds the list empty.             *)
Connected ==
    /\ IF sock = "none"
       THEN context = NoContext /\ replies = <<>> /\ peer = Idle
       ELSE context.select = NULL => context.messages # <<>>
    /\ sock = "connecting" => context.state = "CONNECT"

(* iteration counts the recipients or the lines that were sent.             *)
Counted(state, l, n) ==
    /\ state \in {"CONNECT", "HELO", "DATA", "END_MESSAGE"} => n = 0
    /\ state = "MAIL" => n = 1
    /\ state = "RCPT" => n \in 1 .. Recipients
    /\ state = "MESSAGE" => n \in 1 .. Lines(l)

Counts ==
    /\ Counted(context.state, context.select, context.iteration)
    /\ context.state \in Sending => context.select \in Letters

(* A command is answered once, by the reply that is read in the state of    *)
(* the command; beyond that a peer that went away may have said so.         *)
Replied ==
    /\ context.status \in {"NOT_ANSWER", "success"}
    /\ sock = "closed" => peer = Idle
    /\ context.state = "INVALID" => peer.asked = NULL
    /\ context.state # "INVALID" => peer.asked \in {NULL, "cut", context.state}
    /\ peer.asked # NULL => replies = <<>> /\ context.status = "NOT_ANSWER"
    /\ context.state # "INVALID" => \A i \in DOMAIN replies :
         \/ i = 1 /\ replies[i].to = context.state /\ context.status = "NOT_ANSWER"
         \/ replies[i].code = "4xx" /\ sock = "closed"

(* What the peer has of the letter is what the client has sent, unless the  *)
(* last command came without its end.                                       *)
Named(state, n) ==
    IF state = "MAIL" THEN 0 ELSE IF state = "RCPT" THEN n ELSE Recipients

Written(state, l, n) ==
    IF state = "MESSAGE" THEN n ELSE IF state = "END_MESSAGE" THEN Lines(l) ELSE 0

Has(got, state, l, n) ==
    /\ got.from = l
    /\ got.rcpts = Whole(l, Named(state, n))
    /\ got.text = Whole(l, Written(state, l, n))
    /\ got.cut \subseteq 1 .. Written(state, l, n)

Contents ==
    sock \in {"open", "full"} /\ context.state \in Sending /\ peer.asked # "cut" =>
        Has(peer.got, context.state, context.select, context.iteration)

(* The client sees a success for a letter only if the peer took it over.    *)
Taken ==
    /\ context.state = "END_MESSAGE"
    /\ \/ context.status = "success"
       \/ \E i \in DOMAIN replies : replies[i].to = "END_MESSAGE" /\ replies[i].code = "success"
    => \E t \in accepted : t.from = context.select

(* What has become of the letters.                                          *)
Files ==
    /\ file \in [Letters -> {"none", "stored", "sent", "refused", "unreachable"}]
    /\ IsFiniteSet(Stored)
    /\ SentIsAccepted

IInv == TypeOK /\ Connected /\ Counts /\ Replied /\ Contents /\ Taken /\ Files /\ AcceptedInOrder

-----------------------------------------------------------------------------
(* Numbers and sequences.                                                   *)

(* The numbers of lines.                                                    *)
LEMMA LinesCounted ==
    ASSUME NEW l \in Letters
    PROVE  /\ Lines(l) \in Nat /\ 1 <= Lines(l) /\ TextLines[l] \in Nat
           /\ TextLines[l] <= Lines(l)
           /\ \A n \in 1 .. Lines(l) : ~(n < TextLines[l]) => n = Lines(l)
<1>1. TextLines[l] \in Nat
  BY ClientSessionAssumption
<1>2. CASE TextLines[l] = 0
  <2>1. Lines(l) = 1
    BY <1>2 DEF Lines
  <2> QED BY <1>2, <2>1
<1>3. CASE TextLines[l] # 0
  <2>1. Lines(l) = TextLines[l]
    BY <1>3 DEF Lines
  <2> QED BY <1>1, <1>3, <2>1
<1> QED BY <1>2, <1>3

(* The parts of a letter, one by one.                                       *)
LEMMA WholeGrows ==
    ASSUME NEW l \in Letters
    PROVE  /\ Whole(l, 0) = <<>>
           /\ \A n \in Nat : Append(Whole(l, n), <<l, n + 1>>) = Whole(l, n + 1)
<1>1. Whole(l, 0) = <<>>
  BY DEF Whole
<1>2. ASSUME NEW n \in Nat  PROVE Append(Whole(l, n), <<l, n + 1>>) = Whole(l, n + 1)
  BY DEF Whole
<1> QED BY <1>1, <1>2

(* The tail of a nonempty sequence is the sequence shifted by one.          *)
LEMMA TailShifts ==
    ASSUME NEW S, NEW s \in Seq(S), s # <<>>
    PROVE  /\ Tail(s) \in Seq(S) /\ Head(s) \in S
           /\ \A i \in DOMAIN Tail(s) : i + 1 \in DOMAIN s /\ i + 1 # 1 /\ Tail(s)[i] = s[i + 1]
           /\ 1 \in DOMAIN s /\ Head(s) = s[1]
OBVIOUS

(* Removing an element of a sequence.                                       *)
LEMMA RemoveAtTyped ==
    ASSUME NEW S, NEW s \in Seq(S), NEW i \in DOMAIN s
    PROVE  RemoveAt(s, i) \in Seq(S)
<1> DEFINE n == Len(s)
<1>1. i \in 1 .. n /\ n \in Nat
  OBVIOUS
<1>2. SubSeq(s, 1, i - 1) \in Seq(S) /\ SubSeq(s, i + 1, n) \in Seq(S)
  BY <1>1, SubSeqProperties
<1>3. RemoveAt(s, i) = SubSeq(s, 1, i - 1) \o SubSeq(s, i + 1, n)
  BY DEF RemoveAt
<1> HIDE DEF n
<1> QED BY <1>2, <1>3, ConcatProperties

-----------------------------------------------------------------------------
(* The connection.                                                          *)

Reply == [to : Waiting \cup {"any"}, code : Codes]
Peer == [asked : Waiting \cup {NULL, "cut"}, got : Transaction]

(* The message of a handler.                                                *)
LEMMA SelectedTyped ==
    ASSUME IInv, sock # "none"
    PROVE  /\ Selected \in Context /\ Selected.select \in Letters
           /\ Selected.state = context.state /\ Selected.status = context.status
           /\ Selected.iteration = context.iteration /\ Selected.messages = context.messages
           /\ context.select # NULL => Selected = context
<1>1. context \in Context /\ (context.select = NULL => context.messages # <<>>)
  BY DEF IInv, TypeOK, Connected
<1>2. CASE context.select # NULL
  BY <1>1, <1>2 DEF Selected, Context
<1>3. CASE context.select = NULL
  <2> DEFINE h == Head(context.messages)
  <2>1. h \in Letters
    BY <1>1, <1>3 DEF Context
  <2> HIDE DEF h
  <2>2. Selected = [context EXCEPT !.select = h]
    BY <1>3 DEF Selected, h
  <2> QED BY <1>1, <1>3, <2>1, <2>2 DEF Context
<1> QED BY <1>2, <1>3

(* The reply a handler acts on.                                             *)
Answered(r) ==
    /\ r.rest \in Seq(Reply)
    /\ r.status \in {"success", "4xx", "5xx", "550", "UNDEFINED_ERROR"}
    /\ r.status # "UNDEFINED_ERROR" =>
         peer.asked = NULL /\ \A i \in DOMAIN r.rest : r.rest[i].code = "4xx" /\ sock = "closed"
    /\ r.status = "success" /\ context.state = "END_MESSAGE" =>
         \E t \in accepted : t.from = context.select

(* It is the answer to the command of the state.                            *)
LEMMA ResponseAnswers ==
    ASSUME IInv, sock # "none", context.state # "INVALID",
           NEW r \in get_response_to_context, r.status # "NOT_ANSWER"
    PROVE  Answered(r)
<1>1. /\ replies \in Seq(Reply) /\ context \in Context
      /\ context.status \in {"NOT_ANSWER", "success"}
      /\ peer.asked # NULL => replies = <<>> /\ context.status = "NOT_ANSWER"
      /\ \A i \in DOMAIN replies :
         \/ i = 1 /\ replies[i].to = context.state /\ context.status = "NOT_ANSWER"
         \/ replies[i].code = "4xx" /\ sock = "closed"
  BY DEF IInv, TypeOK, Replied, Reply
<1>2. CASE r = [status |-> "UNDEFINED_ERROR", rest |-> replies]
  BY <1>1, <1>2 DEF Answered
<1>3. CASE r = [status |-> context.status, rest |-> replies]
  BY <1>1, <1>3 DEF Answered, IInv, Taken
<1>4. CASE replies # <<>> /\ r = [status |-> Head(replies).code, rest |-> Tail(replies)]
  <2> HIDE DEF Reply
  <2>1. /\ Tail(replies) \in Seq(Reply) /\ Head(replies) \in Reply
        /\ \A i \in DOMAIN Tail(replies) :
             i + 1 \in DOMAIN replies /\ i + 1 # 1 /\ Tail(replies)[i] = replies[i + 1]
        /\ 1 \in DOMAIN replies /\ Head(replies) = replies[1]
    BY <1>1, <1>4, TailShifts
  <2>2. Head(replies).code \in Codes
    BY <2>1 DEF Reply
  <2>3. \A i \in DOMAIN Tail(replies) : Tail(replies)[i].code = "4xx" /\ sock = "closed"
    BY <2>1, <1>1
  <2>4. ASSUME Head(replies).code = "success", context.state = "END_MESSAGE"
        PROVE  \E t \in accepted : t.from = context.select
    <3>1. replies[1].to = "END_MESSAGE" /\ replies[1].code = "success"
      BY <2>1, <2>4, <1>1
    <3> QED BY <3>1, <2>1, <2>4 DEF IInv, Taken
  <2> QED BY <1>1, <1>4, <2>1, <2>2, <2>3, <2>4 DEF Answered, Codes
<1> QED BY <1>2, <1>3, <1>4 DEF get_response_to_context, get_smtp_response

(* Stored files that are left as they are, or removed.                      *)
LEMMA FilesKept ==
    ASSUME Files, UNCHANGED file, accepted \subseteq accepted'
    PROVE  Files'
BY DEF Files, Stored, SentIsAccepted

LEMMA FilesRemoved ==
    ASSUME Files, NEW l \in Letters, NEW why \in {"refused", "sent"},
           remove_message_server(l, why), UNCHANGED accepted,
           why = "sent" => \E t \in accepted : t.from = l
    PROVE  Files'
<1>1. /\ file' \in [Letters -> {"none", "stored", "sent", "refused", "unreachable"}]
      /\ file'[l] = why /\ \A k \in Letters : k # l => file'[k] = file[k]
  BY DEF Files, remove_message_server
<1>2. Stored' \subseteq Stored
  BY <1>1 DEF Stored
<1>3. IsFiniteSet(Stored')
  BY <1>2, FS_Subset DEF Files
<1>4. SentIsAccepted'
  BY <1>1 DEF Files, SentIsAccepted
<1> QED BY <1>1, <1>3, <1>4 DEF Files

(* The connection is given up.                                              *)
LEMMA RemovedKeeps ==
    ASSUME IInv, remove_multiplex_context, Files', UNCHANGED <<accepted, calm>>,
           mutex' \in {"free", "kept", "hung"}
    PROVE  IInv'
<1>1. context' = NoContext /\ sock' = "none" /\ replies' = <<>> /\ peer' = Idle
  BY DEF remove_multiplex_context
<1>2. NoContext \in Context /\ Idle \in Peer
  BY DEF NoContext, Context, States, Waiting, Status, Idle, Empty, Transaction, Peer
<1>3. TypeOK'
  BY <1>1, <1>2 DEF IInv, TypeOK, Files, Peer
<1>4. Connected' /\ Counts'
  BY <1>1 DEF Connected, Counts, Counted, NoContext, Sending
<1>5. Replied' /\ Contents' /\ Taken'
  BY <1>1 DEF Replied, Contents, Taken, NoContext, Idle
<1>6. AcceptedInOrder'
  BY DEF IInv, AcceptedInOrder
<1> QED BY <1>3, <1>4, <1>5, <1>6 DEF IInv

(* What the peer may have when c was sent in full, or beginnings of it.     *)
Fits(p, c, state) ==
    /\ p \in Peer
    /\ p.asked \in {"cut", IF state = "MESSAGE" THEN NULL ELSE state}
    /\ state = "MESSAGE" => p.asked # "cut"
    /\ sock = "open" /\ state \in Sending /\ p.asked # "cut" =>
         Has(p.got, state, c.select, c.iteration)

(* A command, or a line of text, is sent or is not.                         *)
LEMMA SendKeeps ==
    ASSUME IInv, sock # "none", UNCHANGED <<file, mutex, accepted, calm>>,
           NEW c \in Context, NEW state \in Sending \cup {"HELO"}, NEW got, NEW part,
           Send(c, state, got, part), c.select \in Letters, Counted(state, c.select, c.iteration),
           peer.asked = NULL,
           replies' \in Seq(Reply),
           \A i \in DOMAIN replies' : replies'[i].code = "4xx" /\ sock = "closed",
           c.status = IF state = "MESSAGE" THEN "success" ELSE "NOT_ANSWER",
           Fits(got, c, state), Fits(part, c, state)
    PROVE  IInv'
<1> DEFINE said(s) == [c EXCEPT !.state = s]
<1>1. /\ state \in States /\ state # "INVALID" /\ "INVALID" \in States
      /\ "INVALID" \notin Sending /\ "INVALID" # "CONNECT"
  BY DEF Sending, States, Waiting
<1>2. \A s \in States : /\ said(s) \in Context /\ said(s).state = s /\ said(s).status = c.status
                        /\ said(s).select = c.select /\ said(s).iteration = c.iteration
  BY DEF Context
<1>3. c.status \in {"NOT_ANSWER", "success"} /\ c.select # NULL
  BY ClientSessionAssumption
<1>4. PICK s \in {state, "INVALID"} :
        /\ context' = said(s)
        /\ \/ /\ sock = "open" /\ s = state /\ peer' \in {got, part}
              /\ sock' \in {"open", "full"} /\ replies' = <<>>
           \/ sock = "closed" /\ sock' = "closed" /\ peer' = Idle
           \/ s = "INVALID" /\ sock' = "full" /\ peer' = peer
  <2>1. sock = "closed" => peer = Idle
    BY DEF IInv, Replied
  <2>2. sock = "open" => replies' = <<>>
    <3> SUFFICES ASSUME sock = "open"  PROVE replies' = <<>>
      OBVIOUS
    <3>1. DOMAIN replies' = {}
      OBVIOUS
    <3> HIDE DEF Reply
    <3> QED BY <3>1
  <2> HIDE DEF said
  <2> QED BY <2>1, <2>2 DEF Send, said
<1> HIDE DEF said
<1>5. /\ context' \in Context /\ context'.state = s /\ context'.status = c.status
      /\ context'.select = c.select /\ context'.iteration = c.iteration
  BY <1>1, <1>2, <1>4
<1>6. /\ peer' \in Peer /\ sock' \in {"open", "full", "closed"}
      /\ Idle.asked = NULL
  <2>1. Idle \in Peer
    BY DEF Idle, Empty, Transaction, Peer
  <2>2. peer \in Peer
    BY DEF IInv, TypeOK, Peer
  <2>3. got \in Peer /\ part \in Peer
    BY DEF Fits
  <2> QED BY <1>4, <2>1, <2>2, <2>3 DEF Idle
<1>7. TypeOK'
  BY <1>5, <1>6 DEF IInv, TypeOK, Peer, Reply
<1>8. Connected'
  BY <1>3, <1>5, <1>6 DEF Connected
<1>9. Counts'
  BY <1>1, <1>5 DEF Counts, Counted
<1>10. Replied'
  <2>1. CASE /\ sock = "open" /\ s = state /\ peer' \in {got, part}
             /\ sock' \in {"open", "full"} /\ replies' = <<>>
    <3>1. state = "MESSAGE" => peer'.asked = NULL
      BY <2>1 DEF Fits
    <3>2. state # "MESSAGE" => peer'.asked \in {"cut", state} /\ c.status = "NOT_ANSWER"
      BY <2>1 DEF Fits
    <3> QED BY <1>1, <1>3, <1>5, <2>1, <3>1, <3>2 DEF Replied
  <2>2. CASE sock = "closed" /\ sock' = "closed" /\ peer' = Idle
    BY <1>3, <1>5, <1>6, <2>2 DEF Replied
  <2>3. CASE s = "INVALID" /\ sock' = "full" /\ peer' = peer
    BY <1>3, <1>5, <2>3 DEF Replied
  <2> QED BY <1>4, <2>1, <2>2, <2>3
<1>11. Contents'
  <2> SUFFICES ASSUME sock' \in {"open", "full"}, context'.state \in Sending, peer'.asked # "cut"
               PROVE  Has(peer'.got, context'.state, context'.select, context'.iteration)
    BY DEF Contents
  <2>1. sock = "open" /\ s = state /\ peer' \in {got, part} /\ state \in Sending
    BY <1>1, <1>4, <1>5
  <2> QED BY <1>5, <2>1 DEF Fits
<1>12. Taken'
  BY <1>1, <1>5 DEF Taken
<1>13. Files' /\ AcceptedInOrder'
  BY FilesKept DEF IInv, AcceptedInOrder
<1> QED BY <1>7, <1>8, <1>9, <1>10, <1>11, <1>12, <1>13 DEF IInv

(* A success is kept.                                                       *)
LEMMA KeepKeeps ==
    ASSUME IInv, sock # "none", context.state # "INVALID", UNCHANGED <<mutex, accepted, calm>>,
           NEW r, Answered(r), r.status = "success", Keep(r)
    PROVE  IInv'
<1> DEFINE c == [Selected EXCEPT !.status = r.status]
<1>1. /\ c \in Context /\ c.select \in Letters /\ c.state = context.state /\ c.status = "success"
      /\ c.iteration = context.iteration /\ (context.select # NULL => c.select = context.select)
      /\ c.select # NULL
  BY SelectedTyped, ClientSessionAssumption DEF Context, Status, Codes
<1>2. /\ context' = c /\ replies' = r.rest /\ UNCHANGED <<file, sock, peer>>
      /\ sock \notin {"open", "closed"} /\ peer.asked = NULL
  BY DEF Keep, is_ready_for_write, Answered
<1> HIDE DEF c
<1>3. TypeOK'
  BY <1>1, <1>2 DEF IInv, TypeOK, Answered, Reply
<1>4. context.state \in Sending => c.select = context.select
  BY <1>1, ClientSessionAssumption DEF IInv, Counts
<1>5. Connected' /\ Counts' /\ Replied'
  <2>1. Connected'
    BY <1>1, <1>2 DEF IInv, Connected
  <2>2. Counts'
    <3>1. "MESSAGE" \in Sending
      BY DEF Sending
    <3> QED BY <1>1, <1>2, <1>4, <3>1 DEF IInv, Counts, Counted
  <2>3. Replied'
    BY <1>1, <1>2 DEF IInv, Replied, Answered
  <2> QED BY <2>1, <2>2, <2>3
<1>6. Contents' /\ Taken'
  <2>1. "END_MESSAGE" \in Sending
    BY DEF Sending
  <2> QED BY <1>1, <1>2, <1>4, <2>1 DEF IInv, Contents, Taken, Answered
<1>7. Files' /\ AcceptedInOrder'
  BY <1>2, FilesKept DEF IInv, AcceptedInOrder
<1> QED BY <1>3, <1>4, <1>5, <1>6, <1>7 DEF IInv

(* Another reply ends the connection.                                       *)
LEMMA FailedKeeps ==
    ASSUME IInv, sock # "none", UNCHANGED <<mutex, accepted, calm>>, NEW r, Failed(r)
    PROVE  IInv'
<1>1. remove_multiplex_context /\ mutex' \in {"free", "kept", "hung"}
  BY DEF Failed, IInv, TypeOK
<1>2. Files'
  BY SelectedTyped, FilesKept, FilesRemoved DEF Failed, IInv
<1> QED BY <1>1, <1>2, RemovedKeeps

-----------------------------------------------------------------------------
(* The handlers.                                                            *)

(* A command to the peer.                                                   *)
LEMMA AskTyped ==
    ASSUME IInv, NEW command \in Waiting
    PROVE  /\ Ask(command) \in Peer /\ Ask(command).asked = command
           /\ Ask(command).got = peer.got
BY DEF Ask, IInv, TypeOK, Peer

LEMMA ContextFields ==
    Context = [state : States, status : Status, messages : Seq(Letters),
               select : Letters \cup {NULL}, iteration : Nat]
BY DEF Context

(* Beginnings of a command.                                                 *)
LEMMA CutFits ==
    ASSUME IInv, NEW c, NEW state \in Waiting
    PROVE  Fits(Ask("cut"), c, state)
BY DEF Ask, IInv, TypeOK, Peer, Fits, Waiting

(* What the peer has, with one more part.                                   *)
LEMMA Extended ==
    ASSUME NEW p \in Peer, NEW part
    PROVE  /\ part \in Letters \X (1 .. Recipients) =>
              \E q \in Peer : /\ q = [p EXCEPT !.got.rcpts = Append(@, part)]
                             /\ q.asked = p.asked /\ q.got.from = p.got.from
                             /\ q.got.rcpts = Append(p.got.rcpts, part) /\ q.got.text = p.got.text
                             /\ q.got.cut = p.got.cut
           /\ part \in Letters \X Nat =>
              \E q \in Peer : /\ q = [p EXCEPT !.got.text = Append(@, part)]
                             /\ q.asked = p.asked /\ q.got.from = p.got.from
                             /\ q.got.text = Append(p.got.text, part) /\ q.got.rcpts = p.got.rcpts
                             /\ q.got.cut = p.got.cut
<1> DEFINE R == Letters \X (1 .. Recipients)
           T == Letters \X Nat
           C == SUBSET Nat
<1>1. Peer = [asked : Waiting \cup {NULL, "cut"},
              got : [from : Letters \cup {NULL}, rcpts : Seq(R), text : Seq(T), cut : C]]
  BY DEF Peer, Transaction
<1> HIDE DEF R, T, C
<1>2. ASSUME part \in R
      PROVE  \E q \in Peer : /\ q = [p EXCEPT !.got.rcpts = Append(@, part)]
                            /\ q.asked = p.asked /\ q.got.from = p.got.from
                            /\ q.got.rcpts = Append(p.got.rcpts, part) /\ q.got.text = p.got.text
                            /\ q.got.cut = p.got.cut
  <2> DEFINE s == Append(p.got.rcpts, part)
             g == [p.got EXCEPT !.rcpts = s]
             q == [p EXCEPT !.got = g]
  <2>1. s \in Seq(R)
    BY <1>1, <1>2
  <2> HIDE DEF s
  <2>2. /\ g \in [from : Letters \cup {NULL}, rcpts : Seq(R), text : Seq(T), cut : C]
        /\ g.from = p.got.from /\ g.rcpts = s /\ g.text = p.got.text /\ g.cut = p.got.cut
    BY <1>1, <2>1
  <2> HIDE DEF g
  <2>3. q \in Peer /\ q.asked = p.asked /\ q.got = g
    BY <1>1, <2>2
  <2>4. q = [p EXCEPT !.got.rcpts = Append(@, part)]
    BY <1>1 DEF g, s
  <2> HIDE DEF q
  <2> QED BY <2>2, <2>3, <2>4 DEF s
<1>3. ASSUME part \in T
      PROVE  \E q \in Peer : /\ q = [p EXCEPT !.got.text = Append(@, part)]
                            /\ q.asked = p.asked /\ q.got.from = p.got.from
                            /\ q.got.text = Append(p.got.text, part) /\ q.got.rcpts = p.got.rcpts
                            /\ q.got.cut = p.got.cut
  <2> DEFINE s == Append(p.got.text, part)
             g == [p.got EXCEPT !.text = s]
             q == [p EXCEPT !.got = g]
  <2>1. s \in Seq(T)
    BY <1>1, <1>3
  <2> HIDE DEF s
  <2>2. /\ g \in [from : Letters \cup {NULL}, rcpts : Seq(R), text : Seq(T), cut : C]
        /\ g.from = p.got.from /\ g.text = s /\ g.rcpts = p.got.rcpts /\ g.cut = p.got.cut
    BY <1>1, <2>1
  <2> HIDE DEF g
  <2>3. q \in Peer /\ q.asked = p.asked /\ q.got = g
    BY <1>1, <2>2
  <2>4. q = [p EXCEPT !.got.text = Append(@, part)]
    BY <1>1 DEF g, s
  <2> HIDE DEF q
  <2> QED BY <2>2, <2>3, <2>4 DEF s
<1> QED BY <1>2, <1>3 DEF R, T

(* ... which came as beginnings of itself.                                  *)
LEMMA CutTyped ==
    ASSUME NEW p \in Peer, NEW n \in Nat
    PROVE  \E q \in Peer : /\ q = [p EXCEPT !.got.cut = @ \cup {n}]
                          /\ q.asked = p.asked /\ q.got.from = p.got.from
                          /\ q.got.text = p.got.text /\ q.got.rcpts = p.got.rcpts
                          /\ q.got.cut = p.got.cut \cup {n}
<1> DEFINE R == Letters \X (1 .. Recipients)
           T == Letters \X Nat
           cut == p.got.cut \cup {n}
           g == [p.got EXCEPT !.cut = cut]
           q == [p EXCEPT !.got = g]
<1>1. Peer = [asked : Waiting \cup {NULL, "cut"},
              got : [from : Letters \cup {NULL}, rcpts : Seq(R), text : Seq(T), cut : SUBSET Nat]]
  BY DEF Peer, Transaction
<1> HIDE DEF R, T
<1>2. cut \in SUBSET Nat
  BY <1>1
<1> HIDE DEF cut
<1>3. /\ g \in [from : Letters \cup {NULL}, rcpts : Seq(R), text : Seq(T), cut : SUBSET Nat]
      /\ g.from = p.got.from /\ g.text = p.got.text /\ g.rcpts = p.got.rcpts /\ g.cut = cut
  BY <1>1, <1>2
<1> HIDE DEF g
<1>4. q \in Peer /\ q.asked = p.asked /\ q.got = g
  BY <1>1, <1>3
<1>5. q = [p EXCEPT !.got.cut = @ \cup {n}]
  BY <1>1 DEF g, cut
<1> HIDE DEF q
<1> QED BY <1>3, <1>4, <1>5 DEF cut

(* What a handler does with a reply that is not a success, or that it       *)
(* keeps.                                                                   *)
LEMMA HandlerKeeps ==
    ASSUME IInv, sock # "none", context.state # "INVALID", UNCHANGED <<mutex, accepted, calm>>,
           NEW r, Answered(r),
           (is_smtp_success(r.status) /\ Keep(r)) \/ Failed(r)
    PROVE  IInv'
BY KeepKeeps, FailedKeeps DEF is_smtp_success

(* What holds when a handler goes on to what it sends.                      *)
Going(r) ==
    /\ peer.asked = NULL /\ replies' \in Seq(Reply)
    /\ \A i \in DOMAIN replies' : replies'[i].code = "4xx" /\ sock = "closed"

LEMMA GoingOn ==
    ASSUME NEW r, Answered(r), is_smtp_success(r.status), replies' = r.rest
    PROVE  Going(r)
BY DEF is_smtp_success, Answered, Going

LEMMA ConnectKeeps == ASSUME IInv, connect_handler PROVE IInv'
<1>1. /\ sock # "none" /\ context.state = "CONNECT" /\ UNCHANGED <<mutex, accepted, calm>>
  BY DEF connect_handler, Handler, Ready
<1>2. PICK r \in get_response_to_context :
        /\ r.status # "NOT_ANSWER"
        /\ \/ GoesOn(r) /\ SendHelo
           \/ (is_smtp_success(r.status) /\ Keep(r)) \/ Failed(r)
  BY DEF connect_handler
<1>3. Answered(r)
  BY <1>1, <1>2, ResponseAnswers
<1>4. ASSUME GoesOn(r), SendHelo  PROVE IInv'
  <2> DEFINE c == [Selected EXCEPT !.status = "NOT_ANSWER"]
  <2>1. /\ c \in Context /\ c.select \in Letters /\ c.status = "NOT_ANSWER" /\ c.iteration = 0
    BY <1>1, SelectedTyped DEF Context, Status, IInv, Counts, Counted
  <2>2. Going(r) /\ UNCHANGED file
    BY <1>3, <1>4, GoingOn DEF GoesOn
  <2>3. Ask("HELO") \in Peer /\ Ask("HELO").asked = "HELO"
    BY AskTyped DEF Waiting
  <2>4. /\ Send(c, "HELO", Ask("HELO"), Ask("cut")) /\ Counted("HELO", c.select, c.iteration)
        /\ "HELO" \notin Sending
    BY <1>4, <2>1 DEF SendHelo, Command, Counted, Sending
  <2> HIDE DEF c
  <2>5. Fits(Ask("HELO"), c, "HELO") /\ Fits(Ask("cut"), c, "HELO")
    BY <2>3, <2>4, CutFits DEF Fits, Waiting
  <2> QED BY <1>1, <2>1, <2>2, <2>4, <2>5, SendKeeps DEF Going
<1> QED BY <1>1, <1>2, <1>3, <1>4, HandlerKeeps

LEMMA HeloKeeps == ASSUME IInv, helo_handler PROVE IInv'
<1>1. /\ sock # "none" /\ context.state = "HELO" /\ UNCHANGED <<mutex, accepted, calm>>
  BY DEF helo_handler, Handler, Ready
<1>2. PICK r \in get_response_to_context :
        /\ r.status # "NOT_ANSWER"
        /\ \/ GoesOn(r) /\ SendMail
           \/ (is_smtp_success(r.status) /\ Keep(r)) \/ Failed(r)
  BY DEF helo_handler
<1>3. Answered(r)
  BY <1>1, <1>2, ResponseAnswers
<1>4. ASSUME GoesOn(r), SendMail  PROVE IInv'
  <2> DEFINE c == [Selected EXCEPT !.status = "NOT_ANSWER", !.iteration = @ + 1]
             g == [Empty EXCEPT !.from = Selected.select]
             got == [asked |-> "MAIL", got |-> g]
  <2>1. Selected.iteration = 0
    BY <1>1, SelectedTyped DEF IInv, Counts, Counted
  <2>2. /\ c \in Context /\ c.select = Selected.select /\ c.select \in Letters
        /\ c.status = "NOT_ANSWER" /\ c.iteration = 1
    <3>1. c = [Selected EXCEPT !.status = "NOT_ANSWER", !.iteration = 1]
      BY <1>1, <2>1, SelectedTyped
    <3>2. "NOT_ANSWER" \in Status /\ Selected \in Context /\ Selected.select \in Letters
      BY <1>1, SelectedTyped DEF Status
    <3> HIDE DEF c
    <3> QED BY <2>1, <3>1, <3>2, ContextFields
  <2>3. Going(r) /\ UNCHANGED file
    BY <1>3, <1>4, GoingOn DEF GoesOn
  <2>4. g \in Transaction /\ g.from = Selected.select /\ g.rcpts = <<>> /\ g.text = <<>> /\ g.cut = {}
    <3> DEFINE R == Letters \X (1 .. Recipients)
               T == Letters \X Nat
    <3>1. Transaction = [from : Letters \cup {NULL}, rcpts : Seq(R), text : Seq(T), cut : SUBSET Nat]
      BY DEF Transaction
    <3> HIDE DEF R, T
    <3>2. /\ Empty \in Transaction
          /\ Empty.rcpts = <<>> /\ Empty.text = <<>> /\ Empty.cut = {}
      BY <3>1 DEF Empty
    <3>3. Selected.select \in Letters
      BY <1>1, SelectedTyped
    <3>4. g = [Empty EXCEPT !.from = Selected.select]
      OBVIOUS
    <3> HIDE DEF g
    <3> QED BY <3>1, <3>2, <3>3, <3>4
  <2> HIDE DEF g
  <2>5. got \in Peer /\ got.asked = "MAIL" /\ got.got = g
    BY <2>4 DEF Peer, Waiting
  <2>6. Has(g, "MAIL", c.select, c.iteration)
    BY <2>2, <2>4, WholeGrows DEF Has, Named, Written
  <2>7. /\ Send(c, "MAIL", got, Ask("cut")) /\ Counted("MAIL", c.select, c.iteration)
        /\ "MAIL" \in Sending
    BY <1>4, <2>2 DEF SendMail, Command, Counted, Sending, g
  <2> HIDE DEF c, got
  <2>8. Fits(got, c, "MAIL") /\ Fits(Ask("cut"), c, "MAIL")
    BY <2>5, <2>6, CutFits DEF Fits, Waiting
  <2> QED BY <1>1, <2>2, <2>3, <2>7, <2>8, SendKeeps DEF Going
<1> QED BY <1>1, <1>2, <1>3, <1>4, HandlerKeeps

(* The next recipient is the one the peer has not.                          *)
LEMMA SendRcptKeeps ==
    ASSUME IInv, sock # "none", UNCHANGED <<file, mutex, accepted, calm>>,
           context.state \in {"MAIL", "RCPT"}, NEW r, Going(r),
           NEW n \in 1 .. Recipients, SendRcpt(n, n),
           Named(context.state, context.iteration) = n - 1
    PROVE  IInv'
<1> DEFINE c == [context EXCEPT !.status = "NOT_ANSWER", !.iteration = n]
           got == [Ask("RCPT") EXCEPT !.got.rcpts = Append(@, <<context.select, n>>)]
           l == context.select
<1>1. Recipients \in Nat /\ n \in Nat
  BY ClientSessionAssumption
<1>2. c \in Context /\ c.select = l /\ c.status = "NOT_ANSWER" /\ c.iteration = n /\ l \in Letters
  <2>1. context \in Context /\ (context.state = "RCPT" \/ context.state = "MAIL" => l \in Letters)
    BY DEF IInv, TypeOK, Counts, Sending
  <2>2. "NOT_ANSWER" \in Status
    BY DEF Status
  <2> QED BY <1>1, <2>1, <2>2, ContextFields
<1>3. /\ Ask("RCPT") \in Peer /\ Ask("RCPT").asked = "RCPT" /\ Ask("RCPT").got = peer.got
  BY AskTyped DEF Waiting
<1>4. <<l, n>> \in Letters \X (1 .. Recipients)
  BY <1>2
<1>5. /\ got \in Peer /\ got.asked = "RCPT" /\ got.got.from = peer.got.from
      /\ got.got.rcpts = Append(peer.got.rcpts, <<l, n>>) /\ got.got.text = peer.got.text
      /\ got.got.cut = peer.got.cut
  <2>1. \E q \in Peer : /\ q = [Ask("RCPT") EXCEPT !.got.rcpts = Append(@, <<l, n>>)]
                       /\ q.asked = Ask("RCPT").asked /\ q.got.from = Ask("RCPT").got.from
                       /\ q.got.rcpts = Append(Ask("RCPT").got.rcpts, <<l, n>>)
                       /\ q.got.text = Ask("RCPT").got.text
                       /\ q.got.cut = Ask("RCPT").got.cut
    BY <1>3, <1>4, Extended
  <2>2. got = [Ask("RCPT") EXCEPT !.got.rcpts = Append(@, <<l, n>>)]
    OBVIOUS
  <2> HIDE DEF got, l
  <2> QED BY <1>3, <2>1, <2>2
<1>6. sock = "open" => Has(got.got, "RCPT", l, n)
  <2> SUFFICES ASSUME sock = "open"  PROVE Has(got.got, "RCPT", l, n)
    OBVIOUS
  <2>1. Has(peer.got, context.state, l, context.iteration)
    <3>1. peer.asked # "cut"
      BY ClientSessionAssumption DEF Going
    <3> QED BY <3>1 DEF IInv, Contents, Sending
  <2>2. Append(Whole(l, n - 1), <<l, n>>) = Whole(l, n)
    <3>1. n - 1 \in Nat /\ (n - 1) + 1 = n
      BY <1>1
    <3> QED BY <1>2, <3>1, WholeGrows
  <2> QED BY <2>1, <2>2, <1>5 DEF Has, Named, Written
<1>7. /\ Send(c, "RCPT", got, Ask("cut")) /\ Counted("RCPT", c.select, c.iteration)
      /\ "RCPT" \in Sending
  BY <1>2 DEF SendRcpt, Command, Counted, Sending
<1> HIDE DEF c, got, l
<1>8. Fits(got, c, "RCPT") /\ Fits(Ask("cut"), c, "RCPT")
  BY <1>2, <1>5, <1>6, CutFits DEF Fits, Waiting
<1> QED BY <1>2, <1>7, <1>8, SendKeeps DEF Going

LEMMA MailKeeps == ASSUME IInv, mail_handler PROVE IInv'
<1>1. /\ sock # "none" /\ context.state = "MAIL" /\ UNCHANGED <<mutex, accepted, calm>>
  BY DEF mail_handler, Handler, Ready
<1>2. PICK r \in get_response_to_context :
        /\ r.status # "NOT_ANSWER"
        /\ \/ GoesOn(r) /\ FirstRcpt
           \/ (is_smtp_success(r.status) /\ Keep(r)) \/ Failed(r)
  BY DEF mail_handler
<1>3. Answered(r)
  BY <1>1, <1>2, ResponseAnswers
<1>4. ASSUME GoesOn(r), FirstRcpt  PROVE IInv'
  <2>1. Going(r) /\ UNCHANGED file
    BY <1>3, <1>4, GoingOn DEF GoesOn
  <2>2. 1 \in 1 .. Recipients /\ SendRcpt(1, 1) /\ Named("MAIL", context.iteration) = 0
    BY <1>4, ClientSessionAssumption DEF FirstRcpt, Named
  <2> QED BY <1>1, <2>1, <2>2, SendRcptKeeps
<1> QED BY <1>1, <1>2, <1>3, <1>4, HandlerKeeps

LEMMA RcptKeeps == ASSUME IInv, rcpt_handler PROVE IInv'
<1>1. /\ sock # "none" /\ context.state = "RCPT" /\ UNCHANGED <<mutex, accepted, calm>>
  BY DEF rcpt_handler, Handler, Ready
<1>2. PICK a \in get_response_to_context :
        /\ Passed(a).status # "NOT_ANSWER"
        /\ \/ GoesOn(Passed(a)) /\ NextRcpt
           \/ (is_smtp_success(Passed(a).status) /\ Keep(Passed(a))) \/ Failed(Passed(a))
  BY DEF rcpt_handler
<1> DEFINE r == Passed(a)
<1>3. Answered(r)
  <2>1. a.status = "NOT_ANSWER" => Passed(a).status = "NOT_ANSWER"
    BY DEF Passed
  <2>2. Answered(a)
    BY <1>1, <1>2, <2>1, ResponseAnswers
  <2>3. /\ r.rest = a.rest /\ (r.status = "success" \/ r.status = a.status)
        /\ r.status = "success" => a.status # "UNDEFINED_ERROR"
    <3>1. "status" \in DOMAIN a /\ "rest" \in DOMAIN a
      BY DEF get_response_to_context, get_smtp_response
    <3>2. CASE a.status = "550"
      BY <3>1, <3>2 DEF Passed
    <3>3. CASE a.status # "550"
      BY <3>3 DEF Passed
    <3> QED BY <3>2, <3>3
  <2> HIDE DEF r
  <2> QED BY <1>1, <2>2, <2>3 DEF Answered
<1>4. ASSUME GoesOn(r), NextRcpt  PROVE IInv'
  <2>1. Going(r) /\ UNCHANGED file
    BY <1>3, <1>4, GoingOn DEF GoesOn
  <2> HIDE DEF r
  <2>2. context.iteration \in 1 .. Recipients /\ Recipients \in Nat
        /\ Named("RCPT", context.iteration) = context.iteration
    BY <1>1, ClientSessionAssumption DEF IInv, Counts, Counted, Named
  <2>3. CASE context.iteration < Recipients
    <3> DEFINE n == context.iteration + 1
    <3>1. n \in 1 .. Recipients /\ n - 1 = context.iteration /\ SendRcpt(n, n)
      BY <1>4, <2>2, <2>3 DEF NextRcpt
    <3> HIDE DEF n
    <3> QED BY <1>1, <2>1, <2>2, <3>1, SendRcptKeeps
  <2>4. CASE ~(context.iteration < Recipients)
    <3> DEFINE c == [context EXCEPT !.status = "NOT_ANSWER", !.iteration = 0]
    <3>1. context.iteration = Recipients
      BY <2>2, <2>4
    <3>2. /\ c \in Context /\ c.select = context.select /\ c.select \in Letters
          /\ c.status = "NOT_ANSWER" /\ c.iteration = 0
      <4>1. context \in Context /\ context.select \in Letters
        BY <1>1 DEF IInv, TypeOK, Counts, Sending
      <4>2. "NOT_ANSWER" \in Status
        BY DEF Status
      <4> QED BY <4>1, <4>2, ContextFields
    <3>3. Ask("DATA") \in Peer /\ Ask("DATA").asked = "DATA" /\ Ask("DATA").got = peer.got
      BY AskTyped DEF Waiting
    <3>4. sock = "open" => Has(peer.got, "DATA", context.select, 0)
      <4>1. peer.asked # "cut"
        BY <2>1, ClientSessionAssumption DEF Going
      <4> QED BY <1>1, <3>1, <4>1 DEF IInv, Contents, Sending, Has, Named, Written
    <3>5. /\ Send(c, "DATA", Ask("DATA"), Ask("cut")) /\ Counted("DATA", c.select, c.iteration)
          /\ "DATA" \in Sending
      BY <1>4, <2>4, <3>2 DEF NextRcpt, SendData, Command, Counted, Sending
    <3> HIDE DEF c
    <3>6. Fits(Ask("DATA"), c, "DATA") /\ Fits(Ask("cut"), c, "DATA")
      BY <3>2, <3>3, <3>4, CutFits DEF Fits, Waiting
    <3> QED BY <1>1, <2>1, <3>2, <3>5, <3>6, SendKeeps DEF Going
  <2> QED BY <2>3, <2>4
<1> QED BY <1>1, <1>2, <1>3, <1>4, HandlerKeeps

(* The next line is the one the peer has not.                               *)
LEMMA SendLineKeeps ==
    ASSUME IInv, sock # "none", UNCHANGED <<file, mutex, accepted, calm>>,
           context.state \in {"DATA", "MESSAGE"}, NEW r, Going(r),
           context.iteration < Lines(context.select), SendLine
    PROVE  IInv'
<1> DEFINE i == context.iteration
           n == i + 1
           l == context.select
           c == [context EXCEPT !.status = "success", !.iteration = n]
           got == [peer EXCEPT !.got.text = Append(@, <<l, n>>)]
           part == [got EXCEPT !.got.cut = @ \cup {n}]
<1>1. /\ context \in Context /\ l \in Letters /\ peer \in Peer /\ peer.asked = NULL
      /\ Written(context.state, l, i) = i
  BY DEF IInv, TypeOK, Counts, Counted, Sending, Peer, Going, Written
<1>2. i \in Nat /\ n \in 1 .. Lines(l) /\ n \in Nat /\ n - 1 = i
  <2>1. i \in Nat
    BY <1>1, ContextFields
  <2>2. Lines(l) \in Nat
    BY <1>1, LinesCounted
  <2> QED BY <2>1, <2>2
<1>3. c \in Context /\ c.select = l /\ c.status = "success" /\ c.iteration = n
  <2>1. "success" \in Status
    BY DEF Status, Codes
  <2> QED BY <1>1, <1>2, <2>1, ContextFields
<1>4. /\ got \in Peer /\ got.asked = NULL /\ got.got.from = peer.got.from
      /\ got.got.text = Append(peer.got.text, <<l, n>>) /\ got.got.rcpts = peer.got.rcpts
      /\ got.got.cut = peer.got.cut
  <2>1. <<l, n>> \in Letters \X Nat
    BY <1>1, <1>2
  <2>2. \E q \in Peer : /\ q = [peer EXCEPT !.got.text = Append(@, <<l, n>>)]
                       /\ q.asked = peer.asked /\ q.got.from = peer.got.from
                       /\ q.got.text = Append(peer.got.text, <<l, n>>)
                       /\ q.got.rcpts = peer.got.rcpts /\ q.got.cut = peer.got.cut
    BY <1>1, <2>1, Extended
  <2>3. got = [peer EXCEPT !.got.text = Append(@, <<l, n>>)]
    OBVIOUS
  <2> HIDE DEF got, l, n
  <2> QED BY <1>1, <2>2, <2>3
<1>5. /\ part \in Peer /\ part.asked = NULL /\ part.got.from = got.got.from
      /\ part.got.text = got.got.text /\ part.got.rcpts = got.got.rcpts
      /\ part.got.cut = got.got.cut \cup {n}
  <2> HIDE DEF got, n
  <2>1. \E q \in Peer : /\ q = [got EXCEPT !.got.cut = @ \cup {n}]
                       /\ q.asked = got.asked /\ q.got.from = got.got.from
                       /\ q.got.text = got.got.text /\ q.got.rcpts = got.got.rcpts
                       /\ q.got.cut = got.got.cut \cup {n}
    BY <1>2, <1>4, CutTyped
  <2>2. part = [got EXCEPT !.got.cut = @ \cup {n}]
    OBVIOUS
  <2> HIDE DEF part
  <2> QED BY <1>4, <2>1, <2>2
<1>6. sock = "open" => Has(got.got, "MESSAGE", l, n) /\ Has(part.got, "MESSAGE", l, n)
  <2> SUFFICES ASSUME sock = "open"
               PROVE  Has(got.got, "MESSAGE", l, n) /\ Has(part.got, "MESSAGE", l, n)
    OBVIOUS
  <2>1. Has(peer.got, context.state, l, i)
    <3>1. peer.asked # "cut"
      BY ClientSessionAssumption DEF Going
    <3> QED BY <3>1 DEF IInv, Contents, Sending
  <2>2. Append(Whole(l, i), <<l, n>>) = Whole(l, n)
    BY <1>1, <1>2, WholeGrows
  <2>3. Named(context.state, i) = Recipients
    BY DEF Named
  <2>4. peer.got.cut \subseteq 1 .. n
    <3>1. peer.got.cut \subseteq 1 .. i
      BY <1>1, <2>1 DEF Has
    <3> QED BY <1>2, <3>1
  <2>5. peer.got.cut \cup {n} \subseteq 1 .. n
    BY <1>2, <2>4
  <2>6. /\ peer.got.from = l /\ peer.got.rcpts = Whole(l, Recipients)
        /\ Append(peer.got.text, <<l, n>>) = Whole(l, n)
    BY <1>1, <2>1, <2>2, <2>3 DEF Has
  <2>7. Written("MESSAGE", l, n) = n /\ Named("MESSAGE", n) = Recipients
    BY DEF Written, Named
  <2> HIDE DEF got, part, l, n, i
  <2>8. Has(got.got, "MESSAGE", l, n)
    BY <1>4, <2>4, <2>6, <2>7 DEF Has
  <2>9. Has(part.got, "MESSAGE", l, n)
    BY <1>4, <1>5, <2>5, <2>6, <2>7 DEF Has
  <2> QED BY <2>8, <2>9
<1>7. /\ Send(c, "MESSAGE", got, part) /\ Counted("MESSAGE", c.select, c.iteration)
      /\ "MESSAGE" \in Sending
  BY <1>2, <1>3 DEF SendLine, Counted, Sending
<1> HIDE DEF c, got, part, l, n, i
<1>8. Fits(got, c, "MESSAGE") /\ Fits(part, c, "MESSAGE")
  BY <1>3, <1>4, <1>5, <1>6, ClientSessionAssumption DEF Fits
<1> QED BY <1>1, <1>3, <1>7, <1>8, SendKeeps DEF Going

LEMMA DataKeeps == ASSUME IInv, data_handler PROVE IInv'
<1>1. /\ sock # "none" /\ context.state = "DATA" /\ UNCHANGED <<mutex, accepted, calm>>
  BY DEF data_handler, Handler, Ready
<1>2. PICK r \in get_response_to_context :
        /\ r.status # "NOT_ANSWER"
        /\ \/ GoesOn(r) /\ SendLine
           \/ (is_smtp_success(r.status) /\ Keep(r)) \/ Failed(r)
  BY DEF data_handler
<1>3. Answered(r)
  BY <1>1, <1>2, ResponseAnswers
<1>4. ASSUME GoesOn(r), SendLine  PROVE IInv'
  <2>1. Going(r) /\ UNCHANGED file
    BY <1>3, <1>4, GoingOn DEF GoesOn
  <2>2. context.iteration < Lines(context.select)
    <3>1. context.iteration = 0 /\ context.select \in Letters
      BY <1>1 DEF IInv, Counts, Counted, Sending
    <3> QED BY <3>1, LinesCounted
  <2> QED BY <1>1, <1>4, <2>1, <2>2, SendLineKeeps
<1> QED BY <1>1, <1>2, <1>3, <1>4, HandlerKeeps

LEMMA MessageKeeps == ASSUME IInv, message_handler PROVE IInv'
<1>1. /\ sock # "none" /\ context.state = "MESSAGE" /\ UNCHANGED <<mutex, accepted, calm>>
  BY DEF message_handler, Handler, Ready
<1>2. PICK r \in get_response_to_context :
        /\ r.status # "NOT_ANSWER"
        /\ \/ /\ is_smtp_success(r.status) /\ replies' = r.rest /\ UNCHANGED file
              /\ IF context.iteration < TextLines[context.select] THEN SendLine ELSE SendEnd
           \/ Failed(r)
  BY DEF message_handler
<1>3. Answered(r)
  BY <1>1, <1>2, ResponseAnswers
<1>4. ASSUME is_smtp_success(r.status), replies' = r.rest, UNCHANGED file,
             IF context.iteration < TextLines[context.select] THEN SendLine ELSE SendEnd
      PROVE  IInv'
  <2>1. Going(r)
    BY <1>3, <1>4, GoingOn
  <2>2. /\ context \in Context /\ context.select \in Letters
        /\ context.iteration \in 1 .. Lines(context.select)
    BY <1>1 DEF IInv, TypeOK, Counts, Counted, Sending
  <2>3. CASE context.iteration < TextLines[context.select]
    <3>1. context.iteration < Lines(context.select)
      <4>1. /\ TextLines[context.select] \in Nat /\ Lines(context.select) \in Nat
            /\ TextLines[context.select] <= Lines(context.select) /\ context.iteration \in Nat
        BY <2>2, LinesCounted
      <4> QED BY <2>3, <4>1
    <3> QED BY <1>1, <1>4, <2>1, <2>3, <3>1, SendLineKeeps
  <2>4. CASE ~(context.iteration < TextLines[context.select])
    <3> DEFINE c == [context EXCEPT !.status = "NOT_ANSWER", !.iteration = 0]
    <3>1. context.iteration = Lines(context.select)
      BY <2>2, <2>4, LinesCounted
    <3>2. /\ c \in Context /\ c.select = context.select
          /\ c.status = "NOT_ANSWER" /\ c.iteration = 0
      <4>1. "NOT_ANSWER" \in Status
        BY DEF Status
      <4> QED BY <2>2, <4>1, ContextFields
    <3>3. /\ Ask("END_MESSAGE") \in Peer /\ Ask("END_MESSAGE").asked = "END_MESSAGE"
          /\ Ask("END_MESSAGE").got = peer.got
      BY AskTyped DEF Waiting
    <3>4. sock = "open" => Has(peer.got, "END_MESSAGE", context.select, 0)
      <4>1. peer.asked # "cut"
        BY <2>1, ClientSessionAssumption DEF Going
      <4> QED BY <1>1, <3>1, <4>1 DEF IInv, Contents, Sending, Has, Named, Written
    <3>5. /\ Send(c, "END_MESSAGE", Ask("END_MESSAGE"), Ask("cut"))
          /\ Counted("END_MESSAGE", c.select, c.iteration) /\ "END_MESSAGE" \in Sending
      BY <1>4, <2>4, <3>2 DEF SendEnd, Command, Counted, Sending
    <3> HIDE DEF c
    <3>6. Fits(Ask("END_MESSAGE"), c, "END_MESSAGE") /\ Fits(Ask("cut"), c, "END_MESSAGE")
      BY <3>2, <3>3, <3>4, CutFits DEF Fits, Waiting
    <3> QED BY <1>1, <1>4, <2>1, <2>2, <3>2, <3>5, <3>6, SendKeeps DEF Going
  <2> QED BY <2>3, <2>4
<1> QED BY <1>1, <1>2, <1>3, <1>4, FailedKeeps

(* A letter that the peer took over is removed as sent.                     *)
LEMMA SentKeeps ==
    ASSUME IInv, sock # "none", context.state = "END_MESSAGE",
           UNCHANGED <<mutex, accepted, calm>>,
           NEW r, Answered(r), is_smtp_success(r.status), is_ready_for_write, Sent(r)
    PROVE  IInv'
<1>1. /\ context \in Context /\ context.select \in Letters /\ context.iteration = 0
      /\ peer.asked = NULL /\ r.rest \in Seq(Reply)
      /\ \A i \in DOMAIN r.rest : r.rest[i].code = "4xx" /\ sock = "closed"
      /\ \E t \in accepted : t.from = context.select
  <2>1. "END_MESSAGE" \in Sending
    BY DEF Sending
  <2> QED BY <2>1 DEF IInv, TypeOK, Counts, Counted, Answered, is_smtp_success
<1>2. Files'
  <2>1. Files /\ remove_message_server(context.select, "sent")
    BY DEF Sent, IInv
  <2> QED BY <1>1, <2>1, FilesRemoved
<1>3. PICK i \in DOMAIN context.messages :
        IF RemoveAt(context.messages, i) # <<>>
        THEN /\ NextLetter(RemoveAt(context.messages, i)) /\ UNCHANGED <<sock, peer>>
             /\ replies' = r.rest
        ELSE remove_multiplex_context
  BY DEF Sent
<1> DEFINE rest == RemoveAt(context.messages, i)
<1>4. rest \in Seq(Letters)
  <2>1. context.messages \in Seq(Letters)
    BY <1>1 DEF Context
  <2> QED BY <2>1, RemoveAtTyped
<1> HIDE DEF rest
<1>5. CASE rest # <<>> /\ NextLetter(rest) /\ UNCHANGED <<sock, peer>> /\ replies' = r.rest
  <2>1. /\ context' \in Context /\ context'.state = "HELO" /\ context'.status = "success"
        /\ context'.select = NULL /\ context'.messages = rest /\ context'.iteration = 0
    <3>1. /\ "HELO" \in States /\ "success" \in Status /\ NULL \in Letters \cup {NULL}
      BY DEF States, Waiting, Status, Codes
    <3>2. context' = [context EXCEPT !.state = "HELO", !.status = "success",
                                     !.select = NULL, !.messages = rest]
      BY <1>5 DEF NextLetter
    <3> QED BY <1>1, <1>4, <3>1, <3>2, ContextFields
  <2>2. "HELO" \notin Sending
    BY DEF Sending
  <2>3. TypeOK'
    BY <1>1, <1>2, <1>5, <2>1 DEF IInv, TypeOK, Files, Reply
  <2>4. Connected'
    BY <1>5, <2>1 DEF Connected, is_ready_for_write
  <2>5. Counts'
    BY <2>1, <2>2 DEF Counts, Counted
  <2>6. Replied'
    BY <1>1, <1>5, <2>1 DEF IInv, Replied
  <2>7. Contents' /\ Taken'
    BY <2>1, <2>2 DEF Contents, Taken
  <2>8. AcceptedInOrder'
    BY DEF IInv, AcceptedInOrder
  <2> QED BY <1>2, <2>3, <2>4, <2>5, <2>6, <2>7, <2>8 DEF IInv
<1>6. CASE remove_multiplex_context
  <2>1. mutex' \in {"free", "kept", "hung"}
    BY DEF IInv, TypeOK
  <2> QED BY <1>2, <1>6, <2>1, RemovedKeeps
<1> QED BY <1>3, <1>5, <1>6 DEF rest

LEMMA EndMessageKeeps == ASSUME IInv, end_message_handler PROVE IInv'
<1>1. /\ sock # "none" /\ context.state = "END_MESSAGE" /\ UNCHANGED <<mutex, accepted, calm>>
  BY DEF end_message_handler, Handler, Ready
<1>2. PICK r \in get_response_to_context :
        /\ r.status # "NOT_ANSWER"
        /\ \/ is_smtp_success(r.status) /\ is_ready_for_write /\ Sent(r)
           \/ (is_smtp_success(r.status) /\ Keep(r)) \/ Failed(r)
  BY DEF end_message_handler
<1>3. Answered(r)
  BY <1>1, <1>2, ResponseAnswers
<1> QED BY <1>1, <1>2, <1>3, HandlerKeeps, SentKeeps

-----------------------------------------------------------------------------
(* The rest of the thread's loop.                                           *)

LEMMA GivenUpKeeps == ASSUME IInv, InvalidState \/ Unreadable PROVE IInv'
<1>1. remove_multiplex_context /\ UNCHANGED <<file, mutex, accepted, calm>>
  BY DEF InvalidState, Unreadable
<1>2. Files' /\ mutex' \in {"free", "kept", "hung"}
  BY <1>1, FilesKept DEF IInv, TypeOK
<1> QED BY <1>1, <1>2, RemovedKeeps

(* The letters that are listed.                                             *)
LEMMA OrdersTyped ==
    ASSUME IsFiniteSet(Stored), Stored # {}, NEW order \in SetToSeqs(Stored)
    PROVE  order \in Seq(Letters) /\ order # <<>>
<1> DEFINE n == Cardinality(Stored)
<1>1. n \in Nat /\ n # 0
  BY FS_CardinalityType, FS_EmptySet
<1>2. order \in [1 .. n -> Stored]
  BY DEF SetToSeqs
<1> HIDE DEF n
<1>3. Stored \subseteq Letters
  BY DEF Stored
<1>4. order \in Seq(Letters)
  BY <1>1, <1>2, <1>3
<1>5. 1 \in DOMAIN order
  BY <1>1, <1>2
<1> QED BY <1>4, <1>5

LEMMA SmtpConnectKeeps == ASSUME IInv, smtp_connect PROVE IInv'
<1>1. /\ sock = "none" /\ sock' = "connecting" /\ peer' = Ask("CONNECT") /\ Stored # {}
      /\ UNCHANGED <<file, replies, mutex, accepted, calm>>
  BY DEF smtp_connect, Scan, Timeout
<1>2. PICK order \in SetToSeqs(Stored) :
        context' = [NoContext EXCEPT !.state = "CONNECT", !.messages = order]
  BY DEF smtp_connect
<1>3. order \in Seq(Letters) /\ order # <<>>
  BY <1>1, OrdersTyped DEF IInv, Files
<1>4. /\ context' \in Context /\ context'.state = "CONNECT" /\ context'.status = "NOT_ANSWER"
      /\ context'.iteration = 0 /\ context'.select = NULL /\ context'.messages = order
  <2>1. /\ "NOT_ANSWER" \in Status /\ "CONNECT" \in States
        /\ NULL \in Letters \cup {NULL}
    BY DEF Status, States, Waiting
  <2>2. context' = [state |-> "CONNECT", status |-> "NOT_ANSWER", messages |-> order,
                    select |-> NULL, iteration |-> 0]
    BY <1>2 DEF NoContext
  <2> QED BY <1>3, <2>1, <2>2, ContextFields
<1>5. peer' \in Peer /\ peer'.asked = "CONNECT"
  BY <1>1, AskTyped DEF Waiting
<1>6. replies = <<>> /\ "CONNECT" \notin Sending
  BY <1>1 DEF IInv, Connected, Sending
<1>7. TypeOK'
  BY <1>1, <1>4, <1>5 DEF IInv, TypeOK, Peer
<1>8. Connected' /\ Counts'
  BY <1>1, <1>3, <1>4, <1>6 DEF Connected, Counts, Counted
<1>9. Replied'
  BY <1>1, <1>4, <1>5, <1>6 DEF Replied
<1>10. Contents' /\ Taken'
  BY <1>4, <1>6 DEF Contents, Taken
<1>11. Files' /\ AcceptedInOrder'
  BY <1>1, FilesKept DEF IInv, AcceptedInOrder
<1> QED BY <1>7, <1>8, <1>9, <1>10, <1>11 DEF IInv

(* Steps that change the files or the mutex only.                           *)
LEMMA OthersKeep ==
    ASSUME IInv, UNCHANGED <<context, sock, replies, peer, accepted>>, Files',
           mutex' \in {"free", "kept", "hung"}, calm' \in BOOLEAN
    PROVE  IInv'
<1>1. TypeOK'
  BY DEF IInv, TypeOK, Files
<1>2. Connected' /\ Counts' /\ Replied'
  BY DEF IInv, Connected, Counts, Counted, Replied
<1>3. Contents' /\ Taken' /\ AcceptedInOrder'
  BY DEF IInv, Contents, Taken, AcceptedInOrder
<1> QED BY <1>1, <1>2, <1>3 DEF IInv

LEMMA UnreachableKeeps == ASSUME IInv, Unreachable PROVE IInv'
<1>1. /\ file' = [l \in Letters |-> IF l \in Stored THEN "unreachable" ELSE file[l]]
      /\ UNCHANGED <<context, sock, replies, mutex, peer, accepted, calm>>
  BY DEF Unreachable
<1>2. Stored' = {}
  BY <1>1 DEF Stored
<1>3. Files'
  <2>1. IsFiniteSet(Stored')
    BY <1>2, FS_EmptySet
  <2>2. \A l \in Letters : file'[l] = "sent" => file[l] = "sent"
    BY <1>1
  <2>3. file' \in [Letters -> {"none", "stored", "sent", "refused", "unreachable"}]
    BY <1>1 DEF IInv, Files
  <2> QED BY <1>1, <2>1, <2>2, <2>3 DEF IInv, Files, SentIsAccepted
<1>4. mutex' \in {"free", "kept", "hung"} /\ calm' \in BOOLEAN
  BY <1>1 DEF IInv, TypeOK
<1> QED BY <1>1, <1>3, <1>4, OthersKeep

LEMMA ArriveKeeps == ASSUME IInv, Arrive PROVE IInv'
<1>1. UNCHANGED <<context, sock, replies, mutex, peer, accepted, calm>>
  BY DEF Arrive
<1>2. PICK l \in Letters : file' = [file EXCEPT ![l] = "stored"]
  BY DEF Arrive
<1>3. Files'
  <2>1. Stored' = Stored \cup {l}
    BY <1>2 DEF IInv, Files, Stored
  <2>2. IsFiniteSet(Stored')
    BY <2>1, FS_AddElement DEF IInv, Files
  <2>3. \A k \in Letters : file'[k] = "sent" => file[k] = "sent"
    BY <1>2 DEF IInv, Files
  <2>4. file' \in [Letters -> {"none", "stored", "sent", "refused", "unreachable"}]
    BY <1>2 DEF IInv, Files
  <2> QED BY <1>1, <2>2, <2>3, <2>4 DEF IInv, Files, SentIsAccepted
<1>4. mutex' \in {"free", "kept", "hung"} /\ calm' \in BOOLEAN
  BY <1>1 DEF IInv, TypeOK
<1> QED BY <1>1, <1>3, <1>4, OthersKeep

LEMMA MutexKeeps == ASSUME IInv, is_contains \/ Hang \/ CalmDown PROVE IInv'
<1>1. /\ UNCHANGED <<file, context, sock, replies, peer, accepted>>
      /\ mutex' \in {"free", "kept", "hung"} /\ calm' \in BOOLEAN
  BY DEF is_contains, Hang, CalmDown, IInv, TypeOK
<1>2. Files'
  BY <1>1, FilesKept DEF IInv
<1> QED BY <1>1, <1>2, OthersKeep

-----------------------------------------------------------------------------
(* The peer.                                                                *)

LEMMA BecomesReadyKeeps == ASSUME IInv, BecomesReady PROVE IInv'
<1>1. /\ sock \in {"connecting", "full"} /\ sock' = "open"
      /\ UNCHANGED <<file, context, replies, mutex, peer, accepted, calm>>
  BY DEF BecomesReady
<1>2. TypeOK' /\ Connected' /\ Counts'
  BY <1>1 DEF IInv, TypeOK, Connected, Counts, Counted
<1>3. Replied' /\ Taken' /\ AcceptedInOrder'
  BY <1>1 DEF IInv, Replied, Taken, AcceptedInOrder
<1>4. Contents'
  <2>1. sock = "connecting" => context.state \notin Sending
    BY DEF IInv, Connected, Sending
  <2> QED BY <1>1, <2>1 DEF IInv, Contents
<1>5. Files'
  BY <1>1, FilesKept DEF IInv
<1> QED BY <1>2, <1>3, <1>4, <1>5 DEF IInv

(* The peer answers the command of the state, and takes over what it has    *)
(* got if that is a whole letter.                                           *)
LEMMA PeerAnswersKeeps == ASSUME IInv, PeerAnswers PROVE IInv'
<1>1. /\ sock \in {"open", "full"} /\ peer.asked \notin {NULL, "cut"}
      /\ UNCHANGED <<file, context, sock, mutex, calm>>
      /\ peer' = [peer EXCEPT !.asked = NULL]
  BY DEF PeerAnswers
<1>2. PICK code \in Answers(peer.asked) :
        /\ replies' = Append(replies, [to |-> peer.asked, code |-> code])
        /\ accepted' = IF peer.asked = "END_MESSAGE" /\ code = "success"
                       THEN accepted \cup {peer.got} ELSE accepted
  BY DEF PeerAnswers
<1>3. /\ context.state # "INVALID" /\ peer.asked = context.state /\ replies = <<>>
      /\ context.status = "NOT_ANSWER" /\ peer \in Peer /\ peer.asked \in Waiting
  BY <1>1 DEF IInv, TypeOK, Replied, Peer
<1>4. code \in Codes
  BY <1>2 DEF Answers, Codes
<1> DEFINE reply == [to |-> context.state, code |-> code]
<1>5. reply \in Reply /\ reply.to = context.state /\ reply.code = code
  BY <1>3, <1>4 DEF Reply
<1>6. replies' = <<reply>>
  BY <1>2, <1>3
<1> HIDE DEF reply
<1>7. /\ replies' \in Seq(Reply) /\ DOMAIN replies' = {1} /\ replies'[1] = reply
  BY <1>5, <1>6
<1>8. peer' \in Peer /\ peer'.asked = NULL /\ peer'.got = peer.got /\ peer.got \in Transaction
  BY <1>1, <1>3 DEF Peer
<1>9. accepted \subseteq accepted' /\ accepted' \subseteq Transaction
  BY <1>2, <1>8 DEF IInv, TypeOK
<1>10. peer.asked = "END_MESSAGE" =>
         Has(peer.got, "END_MESSAGE", context.select, context.iteration) /\ context.select \in Letters
  BY <1>1, <1>3 DEF IInv, Contents, Counts, Sending
<1>11. TypeOK'
  BY <1>1, <1>7, <1>8, <1>9 DEF IInv, TypeOK, Peer, Reply
<1>12. Connected' /\ Counts'
  BY <1>1 DEF IInv, Connected, Counts, Counted
<1>13. Replied'
  BY <1>1, <1>3, <1>5, <1>7, <1>8 DEF IInv, Replied
<1>14. Contents'
  BY <1>1, <1>8 DEF IInv, Contents
<1>15. Taken'
  BY <1>1, <1>2, <1>3, <1>5, <1>7, <1>10 DEF Taken, Has
<1>16. Files'
  BY <1>1, <1>9, FilesKept DEF IInv
<1>17. AcceptedInOrder'
  BY <1>2, <1>10 DEF IInv, AcceptedInOrder, Has, Named, Written
<1> QED BY <1>11, <1>12, <1>13, <1>14, <1>15, <1>16, <1>17 DEF IInv

LEMMA PeerClosesKeeps == ASSUME IInv, PeerCloses PROVE IInv'
<1>1. /\ sock \in {"connecting", "open", "full"} /\ sock' = "closed" /\ peer' = Idle
      /\ UNCHANGED <<file, context, mutex, accepted, calm>>
  BY DEF PeerCloses
<1> DEFINE reply == [to |-> "any", code |-> "4xx"]
<1>2. replies' = replies \/ replies' = <<>> \/ replies' = Append(replies, reply)
  BY DEF PeerCloses
<1>3. reply \in Reply /\ reply.to = "any" /\ reply.code = "4xx" /\ replies \in Seq(Reply)
  BY DEF Reply, Codes, IInv, TypeOK
<1> HIDE DEF reply
<1>4. /\ replies' \in Seq(Reply)
      /\ \A i \in DOMAIN replies' :
           \/ i \in DOMAIN replies /\ replies'[i] = replies[i]
           \/ replies'[i] = reply
  <2> HIDE DEF Reply
  <2>1. CASE replies' = Append(replies, reply)
    BY <1>3, <2>1
  <2>2. CASE replies' = <<>>
    BY <2>2
  <2> QED BY <1>2, <1>3, <2>1, <2>2
<1>5. Idle \in Peer /\ Idle.asked = NULL
  BY DEF Idle, Empty, Transaction, Peer
<1>6. TypeOK'
  BY <1>1, <1>4, <1>5 DEF IInv, TypeOK, Peer, Reply
<1>7. Connected' /\ Counts'
  BY <1>1 DEF IInv, Connected, Counts, Counted
<1>8. Replied'
  BY <1>1, <1>3, <1>4, <1>5 DEF IInv, Replied
<1>9. Contents'
  BY <1>1 DEF Contents
<1>10. Taken'
  BY <1>1, <1>3, <1>4 DEF IInv, Taken
<1>11. Files' /\ AcceptedInOrder'
  BY <1>1, FilesKept DEF IInv, AcceptedInOrder
<1> QED BY <1>6, <1>7, <1>8, <1>9, <1>10, <1>11 DEF IInv

(* Nothing of the connection outlives the process; the files do.            *)
LEMMA KillKeeps == ASSUME IInv, Kill \/ ReadUnwritten PROVE IInv'
<1>1. remove_multiplex_context /\ mutex' = "free" /\ UNCHANGED <<file, accepted, calm>>
  BY DEF Kill, ReadUnwritten, Restart
<1>2. Files'
  BY <1>1, FilesKept DEF IInv
<1> QED BY <1>1, <1>2, RemovedKeeps

-----------------------------------------------------------------------------
(* The theorems.                                                            *)

LEMMA InitHolds == Init => IInv
<1> SUFFICES ASSUME Init  PROVE IInv
  OBVIOUS
<1>1. /\ file = [l \in Letters |-> "none"] /\ context = NoContext /\ sock = "none"
      /\ replies = <<>> /\ mutex = "free" /\ peer = Idle /\ accepted = {} /\ calm = FALSE
  BY DEF Init
<1>2. NoContext \in Context /\ Idle \in Peer
  BY DEF NoContext, Context, States, Waiting, Status, Idle, Empty, Transaction, Peer
<1>3. TypeOK
  <2>1. replies \in Seq(Reply)
    BY <1>1
  <2>2. file \in [Letters -> {"none", "stored", "sent", "refused", "unreachable"}]
    BY <1>1
  <2> QED BY <1>1, <1>2, <2>1, <2>2 DEF TypeOK, Peer, Reply
<1>4. Connected /\ Counts /\ Replied
  BY <1>1 DEF Connected, Counts, Counted, Replied, NoContext, Idle, Sending
<1>5. Contents /\ Taken /\ AcceptedInOrder
  BY <1>1 DEF Contents, Taken, AcceptedInOrder, NoContext
<1>6. Files
  <2>1. Stored = {}
    BY <1>1 DEF Stored
  <2> QED BY <1>1, <2>1, FS_EmptySet DEF Files, SentIsAccepted
<1> QED BY <1>3, <1>4, <1>5, <1>6 DEF IInv

LEMMA IterationKeeps == ASSUME IInv, Iteration PROVE IInv'
BY ConnectKeeps, HeloKeeps, MailKeeps, RcptKeeps, DataKeeps, MessageKeeps, EndMessageKeeps,
   GivenUpKeeps, KillKeeps, SmtpConnectKeeps, UnreachableKeeps, MutexKeeps DEF Iteration

LEMMA NextKeeps == IInv /\ [Next]_vars => IInv'
<1> SUFFICES ASSUME IInv, [Next]_vars  PROVE IInv'
  OBVIOUS
<1>1. CASE UNCHANGED vars
  <2>1. /\ UNCHANGED <<file, context, sock, replies, mutex, peer, accepted, calm>>
        /\ mutex' \in {"free", "kept", "hung"} /\ calm' \in BOOLEAN
    BY <1>1 DEF vars, IInv, TypeOK
  <2>2. Files'
    BY <2>1, FilesKept DEF IInv
  <2> QED BY <2>1, <2>2, OthersKeep
<1> QED BY <1>1, IterationKeeps, ArriveKeeps, BecomesReadyKeeps, PeerAnswersKeeps,
           PeerClosesKeeps, KillKeeps, MutexKeeps DEF Next

LEMMA Invariance == Spec => []IInv
BY InitHolds, NextKeeps, PTL DEF Spec

(* The variables of the client and of its peer have their types in every    *)
(* state.                                                                   *)
THEOREM TypeCorrect == Spec => []TypeOK
<1>1. IInv => TypeOK
  BY DEF IInv
<1> QED BY <1>1, Invariance, PTL

(* A reply is read by the handler of the command it answers, and a command  *)
(* is sent only when the last one is answered: the client's handlers        *)
(* (smtp_handlers) and an open peer are in step.                            *)
THEOREM InStepCorrect == Spec => []InStep
<1>1. IInv => InStep
  <2> SUFFICES ASSUME IInv, sock = "open", context.state # "INVALID"  PROVE InStep
    BY DEF InStep
  <2>1. \A i \in DOMAIN replies :
          i = 1 /\ replies[i].to = context.state /\ context.status = "NOT_ANSWER"
    BY DEF IInv, Replied
  <2>2. replies \in Seq(Reply)
    BY DEF IInv, TypeOK, Reply
  <2>3. Len(replies) <= 1
    <3> HIDE DEF Reply
    <3>1. Len(replies) \in Nat /\ (Len(replies) > 1 => 2 \in DOMAIN replies)
      BY <2>2
    <3> QED BY <2>1, <3>1
  <2> QED BY <2>1, <2>3 DEF IInv, Replied, InStep
<1> QED BY <1>1, Invariance, PTL

(* Whatever connections, replies and processes are lost, what the peer      *)
(* takes over as a letter was sent from one letter: each of its recipients  *)
(* and each of its lines once, in order, and nothing else.  It says of      *)
(* which lines only beginnings may have come (cut), not that none has.      *)
THEOREM AcceptedCorrect == Spec => []AcceptedInOrder
<1>1. IInv => AcceptedInOrder
  BY DEF IInv
<1> QED BY <1>1, Invariance, PTL

(* The client removes the file of a letter as sent (end_message_handler)    *)
(* only if the peer has taken the letter over.                              *)
THEOREM SentCorrect == Spec => []SentIsAccepted
<1>1. IInv => SentIsAccepted
  BY DEF IInv, Files
<1> QED BY <1>1, Invariance, PTL
================================================================================
