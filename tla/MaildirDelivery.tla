---------------------------- MODULE MaildirDelivery ---------------------------
(***************************************************************************)
(* Delivery into the maildir: send_mail (server.c) on the maildir library,  *)
(* called by several worker threads at once, each for the letter of its     *)
(* session, on one directory tree that no lock protects.  A letter gets one *)
(* copy per recipient of this server and one per foreign domain.  A copy is *)
(* written to a file in the box's tmp directory and then renamed: to new    *)
(* for a user, to the domain's root directory for a domain, where the       *)
(* client process (postman's other half) finds it, sends it on and removes  *)
(* it.  Missing directories are made on the way.  Calls may fail and the    *)
(* process may die anywhere; the files stay.                                *)
(*                                                                         *)
(* File names are taken to be unique (timestamp_random).                    *)
(***************************************************************************)
EXTENDS Naturals, Sequences, SequencesExt

CONSTANTS
    Workers,      \* the threads that call send_mail
    Letters,
    Users,        \* mailboxes of this server
    Domains,      \* foreign servers
    Existing,     \* the boxes whose directories exist from the beginning
    Failures,     \* what may go wrong in this instance
    MaxCopies,    \* bound of the copies of one letter
    NULL

Faults == {"opendir", "mkdir", "fopen", "write", "short", "rename", "kill"}

ASSUME MaildirAssumption ==
    /\ Users \cap Domains = {}
    /\ Existing \subseteq Users \cup Domains
    /\ Failures \subseteq Faults
    /\ MaxCopies \in Nat
    /\ NULL \notin Letters

VARIABLES
    dirs,       \* the directories that exist: <<box, part>>
    boxes,      \* the boxes of a letter, this server's users first
    file,       \* where the n-th copy of a letter is, and whether it is complete
    answer,     \* what the client was told about a letter
    worker,     \* where each worker is in send_mail
    process     \* "up", or how the server's process ended

vars == <<dirs, boxes, file, answer, worker, process>>

Boxes == Users \cup Domains
Copies == Letters \X (1 .. MaxCopies)

(* The directories of a box in the order they are made, and the one that    *)
(* readers look into.                                                       *)
Parts(b) == IF b \in Users THEN <<"root", "tmp", "cur", "new">> ELSE <<"root", "tmp">>
Target(b) == IF b \in Users THEN "new" ELSE "root"

PartNames == {"root", "tmp", "cur", "new"}

(* "tmp": the file is in tmp.  "box": in the target.  "relayed": the client *)
(* process has sent it and removed it.                                      *)
File == [place : {"none", "tmp", "box", "relayed"}, whole : BOOLEAN]

Answers == {"none", "sent", "250", "451"}
Control == {"idle", "find", "make", "create", "write", "close", "rename", "answer"}

(* copy: the number of the copy at hand.  make: the directories still to    *)
(* make.  ok: the variable `status' of send_mail.                           *)
WorkerState == [pc : Control, letter : Letters \cup {NULL}, copy : Nat,
                make : Seq(PartNames), ok : BOOLEAN]

Idle == [pc |-> "idle", letter |-> NULL, copy |-> 1, make |-> <<>>, ok |-> TRUE]

Init ==
    /\ dirs = {d \in Existing \X PartNames : d[2] \in ToSet(Parts(d[1]))}
    /\ boxes = [l \in Letters |-> <<>>]
    /\ file = [c \in Copies |-> [place |-> "none", whole |-> FALSE]]
    /\ answer = [l \in Letters |-> "none"]
    /\ worker = [w \in Workers |-> Idle]
    /\ process = "up"

-----------------------------------------------------------------------------
At(w, pc) == process = "up" /\ worker[w].pc = pc
Goto(w, pc) == worker' = [worker EXCEPT ![w].pc = pc]

Current(w) == <<worker[w].letter, worker[w].copy>>
Box(w) == boxes[worker[w].letter][worker[w].copy]
LastCopy(w) == worker[w].copy = Len(boxes[worker[w].letter])

(* On to the next copy, with what is left of `status'.                      *)
NextCopy(w, ok) ==
    worker' = [worker EXCEPT ![w] =
                 [pc |-> IF LastCopy(w) THEN "answer" ELSE "find",
                  letter |-> worker[w].letter, copy |-> worker[w].copy + 1,
                  make |-> <<>>, ok |-> worker[w].ok /\ ok]]

(* Wrong: the error is logged, `status' stays as it is.                     *)
FailUnnoticed(w) ==
    IF Box(w) \in Users
    THEN worker' = [worker EXCEPT ![w] = [worker[w] EXCEPT !.pc = "answer", !.make = <<>>]]
    ELSE NextCopy(w, FALSE)

(* ERROR_LOG_AND_CLEANUP.  After an error with a recipient of this server   *)
(* send_mail gives up; after one with a domain it goes on.  The file that   *)
(* was begun stays in tmp.                                                  *)
Fail(w) ==
    IF Box(w) \in Users
    THEN worker' = [worker EXCEPT ![w] = [worker[w] EXCEPT !.pc = "answer", !.make = <<>>, !.ok = FALSE]]
    ELSE NextCopy(w, FALSE)

(* The process is gone, its threads with it.                                *)
Stop(how) ==
    /\ process' = how
    /\ worker' = [w \in Workers |-> Idle]

-----------------------------------------------------------------------------
(* self_recipients: the recipients of this server, in the order of the RCPT *)
(* commands, come before any foreign one.                                   *)
OwnFirst(bs) ==
    \A i, j \in DOMAIN bs : i < j /\ bs[j] \in Users => bs[i] \in Users

(* table_push, table_keys: each foreign domain is one key of the table.     *)
OncePerDomain(bs) ==
    \A i, j \in DOMAIN bs : i < j /\ bs[i] \in Domains => bs[i] # bs[j]

(* Wrong: a letter that is sent again after 451 gets the same file names.   *)
SendMailAgain(w, l, bs) ==
    /\ At(w, "idle")
    /\ answer[l] \in {"none", "451"}
    /\ OwnFirst(bs) /\ OncePerDomain(bs)
    /\ boxes' = [boxes EXCEPT ![l] = bs]
    /\ answer' = [answer EXCEPT ![l] = "sent"]
    /\ worker' = [worker EXCEPT ![w] =
                    [pc |-> IF bs = <<>> THEN "answer" ELSE "find", letter |-> l, copy |-> 1,
                     make |-> <<>>, ok |-> (bs # <<>>)]]
    /\ UNCHANGED <<dirs, file, process>>

SendMail(w, l, bs) ==
    /\ At(w, "idle")
    /\ answer[l] = "none"
    /\ OwnFirst(bs) /\ OncePerDomain(bs)
    /\ boxes' = [boxes EXCEPT ![l] = bs]
    /\ answer' = [answer EXCEPT ![l] = "sent"]
    /\ worker' = [worker EXCEPT ![w] =
                    [pc |-> IF bs = <<>> THEN "answer" ELSE "find", letter |-> l, copy |-> 1,
                     make |-> <<>>, ok |-> (bs # <<>>)]]
    /\ UNCHANGED <<dirs, file, process>>

(* maildir_server_user, maildir_get_server: is there a directory?           *)
FindBox(w) ==
    /\ At(w, "find")
    /\ \/ /\ <<Box(w), "root">> \in dirs
          /\ Goto(w, "create")
       \/ /\ <<Box(w), "root">> \notin dirs
          /\ worker' = [worker EXCEPT ![w] = [worker[w] EXCEPT !.pc = "make", !.make = Parts(Box(w))]]
       \/ "opendir" \in Failures /\ Fail(w)
    /\ UNCHANGED <<dirs, boxes, file, answer, process>>

(* One mkdir of maildir_server_create_user or maildir_create_server.  It    *)
(* fails if the directory exists.  send_mail does not look at the result of *)
(* the second function, and the server object it leaves has no maildir: its *)
(* next use dereferences a null pointer.                                    *)
MakeDirectory(w) ==
    /\ At(w, "make")
    /\ LET d == <<Box(w), Head(worker[w].make)>>
       IN  \/ /\ d \notin dirs
              /\ dirs' = dirs \cup {d}
              /\ worker' = [worker EXCEPT ![w] =
                    [worker[w] EXCEPT !.make = Tail(@),
                                      !.pc = IF Tail(worker[w].make) = <<>> THEN "create" ELSE "make"]]
              /\ UNCHANGED process
           \/ /\ d \in dirs \/ "mkdir" \in Failures
              /\ IF Box(w) \in Users THEN Fail(w) /\ UNCHANGED process ELSE Stop("fault")
              /\ UNCHANGED dirs
    /\ UNCHANGED <<boxes, file, answer>>

(* Wrong: the file is written where readers look.                           *)
CreateInBox(w) ==
    /\ At(w, "create")
    /\ \/ /\ <<Box(w), Target(Box(w))>> \in dirs
          /\ file' = [file EXCEPT ![Current(w)] = [place |-> "box", whole |-> FALSE]]
          /\ Goto(w, "write")
       \/ /\ <<Box(w), Target(Box(w))>> \notin dirs \/ "fopen" \in Failures
          /\ Fail(w)
          /\ UNCHANGED file
    /\ UNCHANGED <<dirs, boxes, answer, process>>

(* maildir_user_create_message: fopen in tmp.                               *)
CreateMessage(w) ==
    /\ At(w, "create")
    /\ \/ /\ <<Box(w), "tmp">> \in dirs
          /\ file' = [file EXCEPT ![Current(w)] = [place |-> "tmp", whole |-> FALSE]]
          /\ Goto(w, "write")
       \/ /\ <<Box(w), "tmp">> \notin dirs \/ "fopen" \in Failures
          /\ Fail(w)
          /\ UNCHANGED file
    /\ UNCHANGED <<dirs, boxes, answer, process>>

(* maildir_message_write of the headers and of the text, into the stdio     *)
(* buffer.                                                                  *)
WriteMessage(w) ==
    /\ At(w, "write")
    /\ \/ Goto(w, "close")
       \/ "write" \in Failures /\ Fail(w)
    /\ UNCHANGED <<dirs, boxes, file, answer, process>>

(* fclose in maildir_message_finalize.  If it cannot write the rest, or a   *)
(* fwrite took only a part, nobody notices.                                 *)
CloseFile(w) ==
    /\ At(w, "close")
    /\ \/ file' = [file EXCEPT ![Current(w)].whole = TRUE]
       \/ "short" \in Failures /\ UNCHANGED file
    /\ Goto(w, "rename")
    /\ UNCHANGED <<dirs, boxes, answer, process>>

(* rename in maildir_message_finalize, whose error is looked at for a       *)
(* domain only.                                                             *)
RenameFile(w) ==
    /\ At(w, "rename")
    /\ \/ /\ <<Box(w), Target(Box(w))>> \in dirs
          /\ file' = [file EXCEPT ![Current(w)].place = "box"]
          /\ NextCopy(w, TRUE)
       \/ /\ <<Box(w), Target(Box(w))>> \notin dirs \/ "rename" \in Failures
          /\ NextCopy(w, Box(w) \in Users)
          /\ UNCHANGED file
    /\ UNCHANGED <<dirs, boxes, answer, process>>

(* handler_smtp makes the reply from the status.                            *)
Answer(w) ==
    /\ At(w, "answer")
    /\ answer' = [answer EXCEPT ![worker[w].letter] = IF worker[w].ok THEN "250" ELSE "451"]
    /\ worker' = [worker EXCEPT ![w] = Idle]
    /\ UNCHANGED <<dirs, boxes, file, process>>

-----------------------------------------------------------------------------
(* The client process finds the file, has sent it, and removes it.          *)
Relay(c) ==
    /\ file[c].place = "box"
    /\ boxes[c[1]][c[2]] \in Domains
    /\ file' = [file EXCEPT ![c].place = "relayed"]
    /\ UNCHANGED <<dirs, boxes, answer, worker, process>>

(* The server's process is killed, and started again after any end.         *)
Kill ==
    /\ "kill" \in Failures
    /\ process = "up"
    /\ Stop("killed")
    /\ UNCHANGED <<dirs, boxes, file, answer>>

Restart ==
    /\ process # "up"
    /\ process' = "up"
    /\ UNCHANGED <<dirs, boxes, file, answer, worker>>

Deliver(w) ==
    \/ \E l \in Letters, bs \in UNION {[1 .. n -> Boxes] : n \in 0 .. MaxCopies} :
         SendMail(w, l, bs)
    \/ FindBox(w) \/ MakeDirectory(w) \/ CreateMessage(w) \/ WriteMessage(w)
    \/ CloseFile(w) \/ RenameFile(w) \/ Answer(w)

Next ==
    \/ \E w \in Workers : Deliver(w)
    \/ \E c \in Copies : Relay(c)
    \/ Kill \/ Restart

Spec == Init /\ [][Next]_vars

-----------------------------------------------------------------------------
(* Properties.                                                              *)

(* The variables have their types.                                          *)
TypeOK ==
    /\ dirs \subseteq Boxes \X PartNames
    /\ boxes \in [Letters -> Seq(Boxes)]
    /\ \A l \in Letters : Len(boxes[l]) <= MaxCopies
    /\ file \in [Copies -> File]
    /\ answer \in [Letters -> Answers]
    /\ worker \in [Workers -> WorkerState]
    /\ process \in {"up", "killed", "fault"}

Placed(c) == file[c].place \in {"box", "relayed"}

(* A reader of a mailbox, and the client process, never see a letter that   *)
(* is not completely written (main.tex:274), whenever they look, also if    *)
(* the server died in the middle of it, whatever call failed and said so.   *)
(* The errors that message.c:107 does not look at, of fclose and of an      *)
(* fwrite that takes a part, are assumed not to happen: with "short" in     *)
(* Failures it is false.                                                    *)
VisibleIsWhole == \A c \in Copies : Placed(c) => file[c].whole

(* What was answered 250 is not lost: every copy of the letter exists as a  *)
(* complete file, in its box or still in tmp, or has been relayed, although *)
(* the errors of finalizing are ignored (server.c:505), other workers make  *)
(* the same directories, and the process may die and start again.  Like     *)
(* VisibleIsWhole it assumes that no write is short.                        *)
Kept(c) == file[c].place # "none" /\ file[c].whole

AcknowledgedIsKept ==
    \A l \in Letters : answer[l] = "250" => \A i \in DOMAIN boxes[l] : Kept(<<l, i>>)

(* What a reader of the copy's box, or of its tmp, can say of a file.       *)
StageAt == [none |-> "none", tmp |-> "kept", box |-> "shown", relayed |-> "taken"]
StageOf(f) == IF f.whole THEN StageAt[f.place] ELSE "none"

Store == INSTANCE MailStore WITH stage <- [c \in Copies |-> StageOf(file[c])]

(* The workers keep what MailStore promises: a copy is only made, shown and *)
(* taken in this order and while its letter is not answered, nothing that   *)
(* was kept is lost or written again, and 250 says that every copy is kept, *)
(* if no write is short.                                                    *)
ImplementsMailStore == Store!StoreSpec

-----------------------------------------------------------------------------
(* The inductive invariant behind VisibleIsWhole and AcknowledgedIsKept.    *)

(* The file is whole as far as the code can know.                           *)
Sound(f) == f.whole \/ "short" \in Failures

Made(c) == file[c].place # "none" /\ Sound(file[c])

Busy(w) == worker[w].pc # "idle"

(* A worker sends a letter that has no answer yet, and has it alone.        *)
OneSender ==
    /\ \A w \in Workers : Busy(w) => worker[w].letter # NULL /\ answer[worker[w].letter] = "sent"
    /\ \A v, w \in Workers : Busy(v) /\ Busy(w) /\ worker[v].letter = worker[w].letter => v = w
    /\ \A l \in Letters, i \in 1 .. MaxCopies :
         answer[l] = "none" => file[<<l, i>>].place = "none"

(* It is at one of the letter's copies until all are done.                  *)
InRange ==
    \A w \in Workers :
        /\ worker[w].pc \notin {"idle", "answer"} => worker[w].copy \in DOMAIN boxes[worker[w].letter]
        /\ worker[w].pc = "make" => worker[w].make # <<>>
        /\ worker[w].pc = "answer" /\ worker[w].ok => worker[w].copy = Len(boxes[worker[w].letter]) + 1

(* As long as the status is good, the copies behind it are made,            *)
(* and the file it has begun is in tmp.                                     *)
BehindIsMade(w) ==
    Busy(w) /\ worker[w].ok =>
        \A i \in DOMAIN boxes[worker[w].letter] :
            i < worker[w].copy => Made(<<worker[w].letter, i>>)

BegunIsInTmp(w) ==
    /\ worker[w].pc \in {"write", "close", "rename"} => file[Current(w)].place = "tmp"
    /\ worker[w].pc = "rename" => Sound(file[Current(w)])

VisibleIsSound == \A c \in Copies : Placed(c) => Sound(file[c])

AcknowledgedIsMade ==
    \A l \in Letters : answer[l] = "250" => \A i \in DOMAIN boxes[l] : Made(<<l, i>>)

Progress == \A w \in Workers : BehindIsMade(w) /\ BegunIsInTmp(w)

IInv ==
    /\ TypeOK /\ OneSender /\ InRange
    /\ Progress /\ VisibleIsSound /\ AcknowledgedIsMade
===============================================================================
