----------------------------- MODULE MaildirProofs -----------------------------
(***************************************************************************)
(* Proofs about the delivery into the maildir, for any number of workers,   *)
(* letters and boxes, whichever of the considered failures happen.  That no *)
(* letter is cut needs that stdio loses no bytes unnoticed.  The second     *)
(* part shows that the delivery implements the mail store that MailStore    *)
(* describes.                                                               *)
(***************************************************************************)
EXTENDS MaildirDelivery, TLAPS

-----------------------------------------------------------------------------
(* Copies and workers.                                                      *)

(* A copy a busy worker is at, or has behind it.                            *)
LEMMA CopyTyped ==
    ASSUME TypeOK, NEW l \in Letters, NEW i \in DOMAIN boxes[l]
    PROVE  <<l, i>> \in Copies /\ boxes[l][i] \in Boxes /\ i \in Nat /\ Len(boxes[l]) \in Nat
<1>1. boxes[l] \in Seq(Boxes) /\ Len(boxes[l]) <= MaxCopies
  BY DEF TypeOK
<1>2. i \in 1 .. Len(boxes[l]) /\ Len(boxes[l]) \in Nat
  BY <1>1
<1>3. i \in 1 .. MaxCopies
  BY <1>1, <1>2, MaildirAssumption
<1> QED BY <1>1, <1>2, <1>3 DEF Copies

(* A worker that is delivering stands at a copy of its letter.              *)
LEMMA CurrentTyped ==
    ASSUME IInv, NEW w \in Workers, worker[w].pc \notin {"idle", "answer"}
    PROVE  /\ worker[w].letter \in Letters /\ answer[worker[w].letter] = "sent"
           /\ worker[w].copy \in DOMAIN boxes[worker[w].letter]
           /\ worker[w].copy \in Nat /\ Len(boxes[worker[w].letter]) \in Nat
           /\ worker[w].copy <= Len(boxes[worker[w].letter])
           /\ Current(w) \in Copies /\ Current(w) = <<worker[w].letter, worker[w].copy>>
           /\ Box(w) \in Boxes
<1>1. worker[w] \in WorkerState
  BY DEF IInv, TypeOK
<1>2. worker[w].letter \in Letters /\ answer[worker[w].letter] = "sent"
  BY <1>1 DEF IInv, OneSender, Busy, WorkerState
<1>3. worker[w].copy \in DOMAIN boxes[worker[w].letter]
  BY DEF IInv, InRange
<1>4. boxes[worker[w].letter] \in Seq(Boxes)
  BY <1>2 DEF IInv, TypeOK
<1> QED BY <1>2, <1>3, <1>4, CopyTyped DEF IInv, Current, Box

(* A worker goes on with its letter: its record becomes r, and the copy it  *)
(* was at becomes f.  Every call of send_mail between the first and the     *)
(* answer is such a step.                                                   *)
LEMMA GoingOn ==
    ASSUME IInv, NEW w \in Workers, worker[w].pc \notin {"idle", "answer"},
           NEW r \in WorkerState, NEW f \in File,
           worker' = [worker EXCEPT ![w] = r],
           file' = [file EXCEPT ![Current(w)] = f],
           UNCHANGED <<boxes, answer>>,
           dirs' \subseteq Boxes \X PartNames, process' \in {"up", "killed", "fault"},
           r.letter = worker[w].letter, r.pc # "idle", r.ok => worker[w].ok,
           r.pc # "answer" => r.copy \in DOMAIN boxes[worker[w].letter],
           r.pc = "make" => r.make # <<>>,
           r.pc = "answer" /\ r.ok => r.copy = Len(boxes[worker[w].letter]) + 1,
           \/ r.copy = worker[w].copy
           \/ r.copy = worker[w].copy + 1 /\ (r.ok => f.place # "none" /\ Sound(f)),
           r.pc \in {"write", "close", "rename"} => r.copy = worker[w].copy /\ f.place = "tmp",
           r.pc = "rename" => Sound(f),
           f.place \in {"box", "relayed"} => Sound(f)
    PROVE  IInv'
<1> DEFINE l == worker[w].letter
           c == worker[w].copy
<1>1. /\ l \in Letters /\ answer[l] = "sent" /\ c \in DOMAIN boxes[l] /\ c \in Nat
      /\ Current(w) \in Copies /\ Current(w) = <<l, c>>
  BY CurrentTyped
<1>2. file \in [Copies -> File] /\ worker \in [Workers -> WorkerState]
  BY DEF IInv, TypeOK
<1>3. worker'[w] = r /\ \A v \in Workers : v # w => worker'[v] = worker[v]
  BY <1>2
<1>4. file'[<<l, c>>] = f /\ \A d \in Copies : d # <<l, c>> => file'[d] = file[d]
  BY <1>1, <1>2
<1>5. Busy(w) /\ \A v \in Workers : Busy(v) /\ v # w => worker[v].letter # l
  BY DEF IInv, OneSender, Busy
<1>6. TypeOK'
  BY <1>1, <1>2 DEF IInv, TypeOK
<1>7. OneSender'
  <2>1. \A v \in Workers : Busy(v)' => Busy(v) /\ worker'[v].letter = worker[v].letter
    BY <1>3, <1>5 DEF Busy
  <2>2. \A m \in Letters, i \in 1 .. MaxCopies :
          answer[m] = "none" => file'[<<m, i>>].place = "none"
    <3> SUFFICES ASSUME NEW m \in Letters, NEW i \in 1 .. MaxCopies, answer[m] = "none"
                 PROVE  file'[<<m, i>>].place = "none"
      OBVIOUS
    <3>1. file[<<m, i>>].place = "none" /\ <<m, i>> \in Copies /\ m # l
      BY <1>1 DEF IInv, OneSender, Copies
    <3> QED BY <3>1, <1>4
  <2> QED BY <2>1, <2>2 DEF IInv, OneSender
<1>8. InRange'
  BY <1>3 DEF IInv, InRange
<1>9. ASSUME NEW m \in Letters, NEW i \in DOMAIN boxes[m], m # l
      PROVE  file'[<<m, i>>] = file[<<m, i>>]
  BY <1>4, <1>9, CopyTyped DEF IInv
<1>10. Progress'
  <2> SUFFICES ASSUME NEW v \in Workers
               PROVE  BehindIsMade(v)' /\ BegunIsInTmp(v)'
    BY DEF Progress
  <2>1. CASE v = w
    <3>1. ASSUME r.ok, NEW i \in DOMAIN boxes[l], i < r.copy
          PROVE  Made(<<l, i>>)'
      <4>1. <<l, i>> \in Copies /\ i \in Nat
        BY <1>1, CopyTyped DEF IInv
      <4>2. CASE i < c
        <5>1. Made(<<l, i>>)
          BY <3>1, <4>2, <1>5 DEF IInv, Progress, BehindIsMade
        <5> QED BY <5>1, <4>1, <4>2, <1>1, <1>4 DEF Made
      <4>3. CASE i = c
        BY <4>3, <3>1, <1>1, <1>4 DEF Made
      <4> QED BY <4>1, <4>2, <4>3, <3>1, <1>1
    <3>2. BehindIsMade(v)'
      BY <2>1, <3>1, <1>3 DEF BehindIsMade
    <3>3. BegunIsInTmp(v)'
      BY <2>1, <1>1, <1>3, <1>4 DEF BegunIsInTmp, Current
    <3> QED BY <3>2, <3>3
  <2>2. CASE v # w /\ worker[v].pc # "idle"
    <3>1. worker'[v] = worker[v] /\ worker[v].letter \in Letters /\ worker[v].letter # l
      BY <2>2, <1>2, <1>3, <1>5 DEF IInv, OneSender, Busy, WorkerState
    <3>2. BehindIsMade(v) /\ BegunIsInTmp(v)
          /\ (worker[v].pc # "answer" => worker[v].copy \in DOMAIN boxes[worker[v].letter])
      BY <2>2 DEF IInv, Progress, InRange
    <3>3. BehindIsMade(v)'
      BY <3>1, <3>2, <1>9 DEF BehindIsMade, Made, Busy
    <3>4. BegunIsInTmp(v)'
      BY <3>1, <3>2, <1>9 DEF BegunIsInTmp, Current
    <3> QED BY <3>3, <3>4
  <2>3. CASE v # w /\ worker[v].pc = "idle"
    BY <2>3, <1>3 DEF Busy, BehindIsMade, BegunIsInTmp
  <2> QED BY <2>1, <2>2, <2>3
<1>11. VisibleIsSound'
  BY <1>4 DEF IInv, VisibleIsSound, Placed
<1>12. AcknowledgedIsMade'
  BY <1>1, <1>9 DEF IInv, AcknowledgedIsMade, Made
<1> QED BY <1>6, <1>7, <1>8, <1>10, <1>11, <1>12 DEF IInv

(* What a worker knows of the file of the copy at hand.                     *)
LEMMA FileTyped ==
    ASSUME IInv, NEW w \in Workers, worker[w].pc \notin {"idle", "answer"}
    PROVE  /\ file[Current(w)] \in File
           /\ file = [file EXCEPT ![Current(w)] = file[Current(w)]]
           /\ file[Current(w)].place \in {"box", "relayed"} => Sound(file[Current(w)])
           /\ worker[w].pc \in {"write", "close", "rename"} => file[Current(w)].place = "tmp"
           /\ worker[w].pc = "rename" => Sound(file[Current(w)])
<1>1. Current(w) \in Copies /\ file \in [Copies -> File]
  BY CurrentTyped DEF IInv, TypeOK
<1>2. BegunIsInTmp(w) /\ VisibleIsSound
  BY DEF IInv, Progress
<1> QED BY <1>1, <1>2 DEF BegunIsInTmp, VisibleIsSound, Placed

(* The directories that make holds are those of the box.                    *)
LEMMA PartsTyped ==
    ASSUME NEW b \in Boxes
    PROVE  Parts(b) \in Seq(PartNames) /\ Parts(b) # <<>> /\ Target(b) \in PartNames
<1>1. CASE b \in Users
  <2>1. Parts(b) = <<"root", "tmp", "cur", "new">> /\ Target(b) = "new"
    BY <1>1 DEF Parts, Target
  <2>2. <<"root", "tmp", "cur", "new">> \in Seq(PartNames) /\ "new" \in PartNames
    BY DEF PartNames
  <2> QED BY <2>1, <2>2
<1>2. CASE b \notin Users
  <2>1. Parts(b) = <<"root", "tmp">> /\ Target(b) = "root"
    BY <1>2 DEF Parts, Target
  <2>2. <<"root", "tmp">> \in Seq(PartNames) /\ "root" \in PartNames
    BY DEF PartNames
  <2> QED BY <2>1, <2>2
<1> QED BY <1>1, <1>2

(* The record of a worker that has no directories to make.                  *)
LEMMA RecordTyped ==
    ASSUME NEW pc \in Control, NEW l \in Letters \cup {NULL}, NEW n \in Nat, NEW ok \in BOOLEAN
    PROVE  [pc |-> pc, letter |-> l, copy |-> n, make |-> <<>>, ok |-> ok] \in WorkerState
<1>1. <<>> \in Seq(PartNames)
  OBVIOUS
<1> QED BY <1>1 DEF WorkerState

(* On to the next copy: what NextCopy leaves, the copy at hand being f now. *)
LEMMA NextCopyKeeps ==
    ASSUME IInv, NEW w \in Workers, worker[w].pc \notin {"idle", "answer"},
           NEW ok \in BOOLEAN, NextCopy(w, ok), NEW f \in File,
           file' = [file EXCEPT ![Current(w)] = f],
           f.place \in {"box", "relayed"} => Sound(f),
           ok => f.place # "none" /\ Sound(f),
           UNCHANGED <<dirs, boxes, answer, process>>
    PROVE  IInv'
<1> DEFINE r == [pc |-> IF LastCopy(w) THEN "answer" ELSE "find",
                 letter |-> worker[w].letter, copy |-> worker[w].copy + 1,
                 make |-> <<>>, ok |-> worker[w].ok /\ ok]
           n == Len(boxes[worker[w].letter])
<1>1. worker[w] \in WorkerState /\ worker \in [Workers -> WorkerState]
      /\ dirs \subseteq Boxes \X PartNames /\ process \in {"up", "killed", "fault"}
  BY DEF IInv, TypeOK
<1>2. worker[w].copy \in Nat /\ n \in Nat /\ worker[w].copy <= n
      /\ worker[w].copy \in DOMAIN boxes[worker[w].letter]
      /\ boxes[worker[w].letter] \in Seq(Boxes)
  BY CurrentTyped DEF IInv, TypeOK
<1>3. worker' = [worker EXCEPT ![w] = r]
  BY DEF NextCopy
<1>4. /\ r.pc = IF LastCopy(w) THEN "answer" ELSE "find"
      /\ r.copy = worker[w].copy + 1 /\ r.make = <<>> /\ r.letter = worker[w].letter
      /\ r.ok = (worker[w].ok /\ ok)
  BY <1>1 DEF WorkerState
<1>5. r \in WorkerState
  <2>1. (IF LastCopy(w) THEN "answer" ELSE "find") \in Control /\ (worker[w].ok /\ ok) \in BOOLEAN
        /\ worker[w].copy + 1 \in Nat /\ worker[w].letter \in Letters \cup {NULL}
    BY <1>1, <1>2 DEF Control, WorkerState
  <2> QED BY <2>1, RecordTyped
<1>6. r.pc # "answer" => r.copy \in DOMAIN boxes[worker[w].letter]
  <2>1. ASSUME r.pc # "answer" PROVE worker[w].copy + 1 \in 1 .. n
    BY <2>1, <1>2, <1>4 DEF LastCopy
  <2>2. DOMAIN boxes[worker[w].letter] = 1 .. n
    BY <1>2
  <2> QED BY <2>1, <2>2, <1>4
<1>7. r.pc = "answer" => r.copy = n + 1
  BY <1>4 DEF LastCopy
<1>8. r.pc \in {"answer", "find"}
  BY <1>4
<1>9. r.ok => worker[w].ok /\ f.place # "none" /\ Sound(f)
  BY <1>4
<1> HIDE DEF r
<1> QED BY <1>1, <1>3, <1>4, <1>5, <1>6, <1>7, <1>8, <1>9, GoingOn

(* A failed call: the letter is given up, or the copy.                      *)
LEMMA FailKeeps ==
    ASSUME IInv, NEW w \in Workers, worker[w].pc \notin {"idle", "answer"},
           Fail(w), UNCHANGED <<dirs, boxes, file, answer, process>>
    PROVE  IInv'
<1>1. CASE Box(w) \in Users
  <2> DEFINE r == [pc |-> "answer", letter |-> worker[w].letter, copy |-> worker[w].copy,
                   make |-> <<>>, ok |-> FALSE]
  <2>1. worker[w] \in WorkerState /\ dirs \subseteq Boxes \X PartNames
        /\ process \in {"up", "killed", "fault"}
    BY DEF IInv, TypeOK
  <2>2. worker' = [worker EXCEPT ![w] = r]
    BY <1>1, <2>1 DEF Fail, WorkerState
  <2>3. r \in WorkerState
    <3>1. "answer" \in Control /\ worker[w].copy \in Nat /\ worker[w].letter \in Letters \cup {NULL}
      BY <2>1 DEF Control, WorkerState
    <3> QED BY <3>1, RecordTyped
  <2>4. r.pc = "answer" /\ ~r.ok /\ r.copy = worker[w].copy /\ r.letter = worker[w].letter
    OBVIOUS
  <2> HIDE DEF r
  <2> QED BY <2>1, <2>2, <2>3, <2>4, FileTyped, GoingOn
<1>2. CASE Box(w) \notin Users
  BY <1>2, FileTyped, NextCopyKeeps DEF Fail
<1> QED BY <1>1, <1>2

(* To the next call for the same copy, which becomes f.                     *)
LEMMA GotoKeeps ==
    ASSUME IInv, NEW w \in Workers, worker[w].pc \notin {"idle", "answer"},
           NEW p \in {"create", "write", "close", "rename"}, Goto(w, p), NEW f \in File,
           file' = [file EXCEPT ![Current(w)] = f],
           p # "create" => f.place = "tmp",
           p = "rename" => Sound(f),
           f.place \in {"box", "relayed"} => Sound(f),
           UNCHANGED <<dirs, boxes, answer, process>>
    PROVE  IInv'
<1> DEFINE r == [worker[w] EXCEPT !.pc = p]
<1>1. worker[w] \in WorkerState /\ worker \in [Workers -> WorkerState]
      /\ dirs \subseteq Boxes \X PartNames /\ process \in {"up", "killed", "fault"}
  BY DEF IInv, TypeOK
<1>2. worker' = [worker EXCEPT ![w] = r]
  BY <1>1 DEF Goto
<1>3. r \in WorkerState /\ r.pc = p /\ r.copy = worker[w].copy /\ r.letter = worker[w].letter
      /\ r.ok = worker[w].ok
  BY <1>1 DEF WorkerState, Control
<1>4. worker[w].copy \in DOMAIN boxes[worker[w].letter]
  BY CurrentTyped
<1> HIDE DEF r
<1> QED BY <1>1, <1>2, <1>3, <1>4, GoingOn

-----------------------------------------------------------------------------
(* The calls of send_mail, one after the other.                             *)

(* The box is looked for, and found, missing or unreadable.                 *)
LEMMA FindBoxKeeps == ASSUME IInv, NEW w \in Workers, FindBox(w) PROVE IInv'
<1>1. worker[w].pc \notin {"idle", "answer"} /\ UNCHANGED <<dirs, boxes, file, answer, process>>
  BY DEF FindBox, At
<1>2. CASE Goto(w, "create")
  BY <1>1, <1>2, FileTyped, GotoKeeps
<1>3. CASE worker' = [worker EXCEPT ![w] =
                        [worker[w] EXCEPT !.pc = "make", !.make = Parts(Box(w))]]
  <2> DEFINE r == [worker[w] EXCEPT !.pc = "make", !.make = Parts(Box(w))]
  <2>1. worker[w] \in WorkerState /\ dirs \subseteq Boxes \X PartNames
        /\ process \in {"up", "killed", "fault"}
    BY DEF IInv, TypeOK
  <2>2. Parts(Box(w)) \in Seq(PartNames) /\ Parts(Box(w)) # <<>>
        /\ worker[w].copy \in DOMAIN boxes[worker[w].letter]
    BY <1>1, CurrentTyped, PartsTyped
  <2>3. r \in WorkerState /\ r.pc = "make" /\ r.make # <<>> /\ r.copy = worker[w].copy
        /\ r.letter = worker[w].letter /\ r.ok = worker[w].ok
    BY <2>1, <2>2 DEF WorkerState, Control
  <2>4. worker' = [worker EXCEPT ![w] = r]
    BY <1>3
  <2> HIDE DEF r
  <2> QED BY <1>1, <2>1, <2>2, <2>3, <2>4, FileTyped, GoingOn
<1>4. CASE Fail(w)
  BY <1>1, <1>4, FailKeeps
<1> QED BY <1>2, <1>3, <1>4 DEF FindBox

(* The threads are gone: nobody sends, and what was answered is kept.       *)
LEMMA StopKeeps ==
    ASSUME IInv, NEW how \in {"killed", "fault"}, Stop(how),
           UNCHANGED <<dirs, boxes, file, answer>>
    PROVE  IInv'
<1>1. \A w \in Workers : worker'[w] = Idle /\ Idle.pc = "idle"
  BY DEF Stop, Idle
<1>2. Idle \in WorkerState
  <2>1. <<>> \in Seq(PartNames)
    OBVIOUS
  <2> QED BY <2>1 DEF Idle, WorkerState, Control
<1>3. TypeOK'
  BY <1>2 DEF IInv, TypeOK, Stop
<1>4. OneSender'
  BY <1>1 DEF IInv, OneSender, Busy
<1>5. InRange'
  BY <1>1 DEF InRange
<1>6. Progress'
  BY <1>1 DEF Progress, BehindIsMade, BegunIsInTmp, Busy
<1>7. VisibleIsSound' /\ AcknowledgedIsMade'
  BY DEF IInv, VisibleIsSound, AcknowledgedIsMade, Placed, Made
<1> QED BY <1>3, <1>4, <1>5, <1>6, <1>7 DEF IInv

(* One directory more, or the end of the delivery or of the process.        *)
LEMMA MakeDirectoryKeeps == ASSUME IInv, NEW w \in Workers, MakeDirectory(w) PROVE IInv'
<1> DEFINE d == <<Box(w), Head(worker[w].make)>>
           r == [worker[w] EXCEPT !.make = Tail(@),
                   !.pc = IF Tail(worker[w].make) = <<>> THEN "create" ELSE "make"]
<1>1. worker[w].pc = "make" /\ UNCHANGED <<boxes, file, answer>>
  BY DEF MakeDirectory, At
<1>2. CASE /\ dirs' = dirs \cup {d}
           /\ worker' = [worker EXCEPT ![w] = r]
           /\ UNCHANGED process
  <2>1. worker[w] \in WorkerState /\ dirs \subseteq Boxes \X PartNames
        /\ process \in {"up", "killed", "fault"} /\ worker[w].make # <<>>
    BY <1>1 DEF IInv, TypeOK, InRange
  <2>2. worker[w].make \in Seq(PartNames)
    BY <2>1 DEF WorkerState
  <2>3. Head(worker[w].make) \in PartNames /\ Tail(worker[w].make) \in Seq(PartNames)
    BY <2>1, <2>2
  <2>4. Box(w) \in Boxes /\ worker[w].copy \in DOMAIN boxes[worker[w].letter]
    BY <1>1, CurrentTyped
  <2>5. dirs' \subseteq Boxes \X PartNames
    BY <1>2, <2>1, <2>3, <2>4
  <2>6. r \in WorkerState /\ r.pc \in {"create", "make"} /\ r.copy = worker[w].copy
        /\ r.letter = worker[w].letter /\ r.ok = worker[w].ok
        /\ (r.pc = "make" => r.make # <<>>)
    BY <2>1, <2>3 DEF WorkerState, Control
  <2>7. process' \in {"up", "killed", "fault"} /\ worker' = [worker EXCEPT ![w] = r]
    BY <1>2, <2>1
  <2> HIDE DEF r, d
  <2> QED BY <1>1, <2>4, <2>5, <2>6, <2>7, FileTyped, GoingOn
<1>3. CASE Fail(w) /\ UNCHANGED <<process, dirs>>
  BY <1>1, <1>3, FailKeeps
<1>4. CASE Stop("fault") /\ UNCHANGED dirs
  BY <1>1, <1>4, StopKeeps
<1> QED BY <1>2, <1>3, <1>4 DEF MakeDirectory

(* The file of the copy at hand is begun in tmp.                            *)
LEMMA CreateMessageKeeps == ASSUME IInv, NEW w \in Workers, CreateMessage(w) PROVE IInv'
<1>1. worker[w].pc \notin {"idle", "answer"} /\ UNCHANGED <<dirs, boxes, answer, process>>
  BY DEF CreateMessage, At
<1> DEFINE f == [place |-> "tmp", whole |-> FALSE]
<1>2. CASE file' = [file EXCEPT ![Current(w)] = f] /\ Goto(w, "write")
  <2>1. f \in File /\ f.place = "tmp"
    BY DEF File
  <2> HIDE DEF f
  <2> QED BY <1>1, <1>2, <2>1, GotoKeeps
<1>3. CASE Fail(w) /\ UNCHANGED file
  BY <1>1, <1>3, FailKeeps
<1> QED BY <1>2, <1>3 DEF CreateMessage

(* The text goes into the stdio buffer; the file is as before.              *)
LEMMA WriteMessageKeeps == ASSUME IInv, NEW w \in Workers, WriteMessage(w) PROVE IInv'
<1>1. worker[w].pc = "write" /\ UNCHANGED <<dirs, boxes, file, answer, process>>
  BY DEF WriteMessage, At
<1>2. CASE Goto(w, "close")
  BY <1>1, <1>2, FileTyped, GotoKeeps
<1>3. CASE Fail(w)
  BY <1>1, <1>3, FailKeeps
<1> QED BY <1>2, <1>3 DEF WriteMessage

(* The file in tmp is complete, or stdio has lost some of it unnoticed.     *)
LEMMA CloseFileKeeps == ASSUME IInv, NEW w \in Workers, CloseFile(w) PROVE IInv'
<1>1. worker[w].pc = "close" /\ UNCHANGED <<dirs, boxes, answer, process>> /\ Goto(w, "rename")
  BY DEF CloseFile, At
<1>2. file[Current(w)] \in File /\ file[Current(w)].place = "tmp"
  BY <1>1, FileTyped
<1>3. CASE file' = [file EXCEPT ![Current(w)].whole = TRUE]
  <2> DEFINE f == [file[Current(w)] EXCEPT !.whole = TRUE]
  <2>1. f \in File /\ Sound(f) /\ f.place = "tmp"
    BY <1>2 DEF File, Sound
  <2>2. file' = [file EXCEPT ![Current(w)] = f]
    BY <1>3
  <2> HIDE DEF f
  <2> QED BY <1>1, <2>1, <2>2, GotoKeeps
<1>4. CASE "short" \in Failures /\ UNCHANGED file
  <2>1. Sound(file[Current(w)])
    BY <1>4 DEF Sound
  <2>2. file' = [file EXCEPT ![Current(w)] = file[Current(w)]]
    BY <1>1, <1>4, FileTyped
  <2> QED BY <1>1, <1>2, <2>1, <2>2, GotoKeeps
<1> QED BY <1>3, <1>4 DEF CloseFile

(* A complete file moves to its box, or stays where it is.                  *)
LEMMA RenameFileKeeps == ASSUME IInv, NEW w \in Workers, RenameFile(w) PROVE IInv'
<1>1. worker[w].pc = "rename" /\ UNCHANGED <<dirs, boxes, answer, process>>
  BY DEF RenameFile, At
<1> DEFINE f == [file[Current(w)] EXCEPT !.place = "box"]
<1>2. file[Current(w)] \in File /\ file[Current(w)].place = "tmp" /\ Sound(file[Current(w)])
  BY <1>1, FileTyped
<1>3. CASE file' = [file EXCEPT ![Current(w)].place = "box"] /\ NextCopy(w, TRUE)
  <2>1. f \in File /\ Sound(f) /\ f.place = "box"
    BY <1>2 DEF File, Sound
  <2>2. file' = [file EXCEPT ![Current(w)] = f]
    BY <1>3
  <2> HIDE DEF f
  <2> QED BY <1>1, <1>3, <2>1, <2>2, NextCopyKeeps
<1>4. CASE NextCopy(w, Box(w) \in Users) /\ UNCHANGED file
  <2>1. (Box(w) \in Users) \in BOOLEAN
    OBVIOUS
  <2>2. file' = [file EXCEPT ![Current(w)] = file[Current(w)]]
    BY <1>1, <1>4, FileTyped
  <2> QED BY <1>1, <1>2, <1>4, <2>1, <2>2, NextCopyKeeps
<1> QED BY <1>3, <1>4 DEF RenameFile

-----------------------------------------------------------------------------
(* The beginning and the end of send_mail.                                  *)

(* A worker gets a letter that nobody has, with no copy begun.              *)
LEMMA SendMailKeeps ==
    ASSUME IInv, NEW w \in Workers, NEW l \in Letters, NEW n \in 0 .. MaxCopies,
           NEW bs \in [1 .. n -> Boxes], SendMail(w, l, bs)
    PROVE  IInv'
<1> DEFINE r == [pc |-> IF bs = <<>> THEN "answer" ELSE "find", letter |-> l, copy |-> 1,
                 make |-> <<>>, ok |-> (bs # <<>>)]
<1>1. /\ worker[w].pc = "idle" /\ answer[l] = "none"
      /\ boxes' = [boxes EXCEPT ![l] = bs] /\ answer' = [answer EXCEPT ![l] = "sent"]
      /\ worker' = [worker EXCEPT ![w] = r]
      /\ UNCHANGED <<dirs, file, process>>
  BY DEF SendMail, At
<1>2. /\ boxes \in [Letters -> Seq(Boxes)] /\ answer \in [Letters -> Answers]
      /\ worker \in [Workers -> WorkerState] /\ file \in [Copies -> File]
  BY DEF IInv, TypeOK
<1>3. n \in Nat /\ n <= MaxCopies
  BY MaildirAssumption
<1>4. bs \in Seq(Boxes) /\ Len(bs) = n /\ DOMAIN bs = 1 .. n
  BY <1>3
<1>5. bs # <<>> => 1 \in DOMAIN bs
  BY <1>3, <1>4
<1>6. /\ r.letter = l /\ r.copy = 1 /\ r.make = <<>>
      /\ r.pc \in {"answer", "find"}
      /\ r.pc = "find" => bs # <<>>
      /\ r.pc = "answer" => ~r.ok
  OBVIOUS
<1>7. r \in WorkerState
  <2>1. <<>> \in Seq(PartNames) /\ (bs # <<>>) \in BOOLEAN
    OBVIOUS
  <2>2. (IF bs = <<>> THEN "answer" ELSE "find") \in Control /\ l \in Letters \cup {NULL} /\ 1 \in Nat
    BY DEF Control
  <2> QED BY <2>1, <2>2, RecordTyped
<1> HIDE DEF r
<1>8. worker'[w] = r /\ \A v \in Workers : v # w => worker'[v] = worker[v]
  BY <1>1, <1>2
<1>9. /\ boxes'[l] = bs /\ answer'[l] = "sent"
      /\ \A m \in Letters : m # l => boxes'[m] = boxes[m] /\ answer'[m] = answer[m]
  BY <1>1, <1>2
<1>10. \A v \in Workers : worker[v].pc # "idle" =>
          v # w /\ worker[v].letter \in Letters /\ worker[v].letter # l
  <2> SUFFICES ASSUME NEW v \in Workers, worker[v].pc # "idle"
               PROVE  v # w /\ worker[v].letter \in Letters /\ worker[v].letter # l
    OBVIOUS
  <2>1. worker[v].letter # NULL /\ answer[worker[v].letter] = "sent"
    BY DEF IInv, OneSender, Busy
  <2> QED BY <2>1, <1>1, <1>2 DEF WorkerState
<1>11. TypeOK'
  <2>1. \A m \in Letters : Len(boxes'[m]) <= MaxCopies
    BY <1>3, <1>4, <1>9 DEF IInv, TypeOK
  <2> QED BY <1>1, <1>2, <1>4, <1>7, <2>1 DEF IInv, TypeOK, Answers
<1>12. OneSender'
  <2>1. \A v \in Workers : Busy(v)' =>
          worker'[v].letter # NULL /\ answer'[worker'[v].letter] = "sent"
    BY <1>6, <1>8, <1>9, <1>10, MaildirAssumption DEF IInv, OneSender, Busy
  <2>2. \A u, v \in Workers :
          Busy(u)' /\ Busy(v)' /\ worker'[u].letter = worker'[v].letter => u = v
    BY <1>6, <1>8, <1>10 DEF IInv, OneSender, Busy
  <2>3. \A m \in Letters, i \in 1 .. MaxCopies :
          answer'[m] = "none" => file'[<<m, i>>].place = "none"
    BY <1>1, <1>9 DEF IInv, OneSender
  <2> QED BY <2>1, <2>2, <2>3 DEF OneSender
<1>13. InRange'
  <2> SUFFICES ASSUME NEW v \in Workers
               PROVE  /\ worker'[v].pc \notin {"idle", "answer"} =>
                           worker'[v].copy \in DOMAIN boxes'[worker'[v].letter]
                      /\ worker'[v].pc = "make" => worker'[v].make # <<>>
                      /\ worker'[v].pc = "answer" /\ worker'[v].ok =>
                           worker'[v].copy = Len(boxes'[worker'[v].letter]) + 1
    BY DEF InRange
  <2>1. CASE v = w
    BY <2>1, <1>5, <1>6, <1>8, <1>9
  <2>2. CASE v # w
    <3>1. worker'[v] = worker[v]
      BY <2>2, <1>8
    <3>2. worker[v].pc # "idle" => boxes'[worker[v].letter] = boxes[worker[v].letter]
      BY <1>9, <1>10
    <3> QED BY <3>1, <3>2 DEF IInv, InRange
  <2> QED BY <2>1, <2>2
<1>14. Progress'
  <2> SUFFICES ASSUME NEW v \in Workers PROVE BehindIsMade(v)' /\ BegunIsInTmp(v)'
    BY DEF Progress
  <2>1. CASE v = w
    <3>1. \A i \in DOMAIN bs : ~(i < 1)
      BY <1>4, <1>3
    <3>2. BehindIsMade(v)'
      BY <2>1, <3>1, <1>6, <1>8, <1>9 DEF BehindIsMade
    <3>3. BegunIsInTmp(v)'
      BY <2>1, <1>6, <1>8 DEF BegunIsInTmp
    <3> QED BY <3>2, <3>3
  <2>2. CASE v # w
    <3>1. BehindIsMade(v) /\ BegunIsInTmp(v)
      BY DEF IInv, Progress
    <3>2. BehindIsMade(v)'
      BY <2>2, <3>1, <1>1, <1>8, <1>9, <1>10 DEF BehindIsMade, Busy, Made
    <3>3. BegunIsInTmp(v)'
      BY <2>2, <3>1, <1>1, <1>8 DEF BegunIsInTmp, Current
    <3> QED BY <3>2, <3>3
  <2> QED BY <2>1, <2>2
<1>15. VisibleIsSound' /\ AcknowledgedIsMade'
  BY <1>1, <1>9 DEF IInv, VisibleIsSound, AcknowledgedIsMade, Placed, Made
<1> QED BY <1>11, <1>12, <1>13, <1>14, <1>15 DEF IInv

(* The last copy is done, so a good status speaks for all of them.          *)
LEMMA AnswerKeeps == ASSUME IInv, NEW w \in Workers, Answer(w) PROVE IInv'
<1> DEFINE l == worker[w].letter
<1>1. /\ worker[w].pc = "answer"
      /\ answer' = [answer EXCEPT ![l] = IF worker[w].ok THEN "250" ELSE "451"]
      /\ worker' = [worker EXCEPT ![w] = Idle]
      /\ UNCHANGED <<dirs, boxes, file, process>>
  BY DEF Answer, At
<1>2. /\ answer \in [Letters -> Answers] /\ worker \in [Workers -> WorkerState]
      /\ \A m \in Letters : boxes[m] \in Seq(Boxes)
  BY DEF IInv, TypeOK
<1>3. l \in Letters /\ answer[l] = "sent"
  BY <1>1, <1>2 DEF IInv, OneSender, Busy, WorkerState
<1>4. Idle \in WorkerState /\ Idle.pc = "idle"
  <2>1. <<>> \in Seq(PartNames)
    OBVIOUS
  <2> QED BY <2>1 DEF Idle, WorkerState, Control
<1>5. /\ worker'[w].pc = "idle"
      /\ \A v \in Workers : v # w => worker'[v] = worker[v]
  BY <1>1, <1>2, <1>4
<1>6. /\ answer'[l] \in {"250", "451"} /\ (answer'[l] = "250" => worker[w].ok)
      /\ \A m \in Letters : m # l => answer'[m] = answer[m]
  BY <1>1, <1>2, <1>3
<1>7. \A v \in Workers : v # w /\ worker[v].pc # "idle" => worker[v].letter # l
  BY <1>1 DEF IInv, OneSender, Busy
<1>8. TypeOK'
  BY <1>1, <1>4 DEF IInv, TypeOK, Answers
<1>9. OneSender'
  <2>1. \A v \in Workers : Busy(v)' =>
          worker'[v].letter # NULL /\ answer'[worker'[v].letter] = "sent"
    <3> SUFFICES ASSUME NEW v \in Workers, worker'[v].pc # "idle"
                 PROVE  worker'[v].letter # NULL /\ answer'[worker'[v].letter] = "sent"
      BY DEF Busy
    <3>1. v # w /\ worker'[v] = worker[v] /\ worker[v].pc # "idle"
      BY <1>5
    <3>2. worker[v].letter # NULL /\ answer[worker[v].letter] = "sent" /\ worker[v].letter # l
      BY <3>1, <1>7 DEF IInv, OneSender, Busy
    <3>3. worker[v].letter \in Letters
      BY <3>2, <1>2 DEF WorkerState
    <3> QED BY <3>1, <3>2, <3>3, <1>6
  <2>2. \A u, v \in Workers :
          Busy(u)' /\ Busy(v)' /\ worker'[u].letter = worker'[v].letter => u = v
    BY <1>5 DEF IInv, OneSender, Busy
  <2>3. \A m \in Letters, i \in 1 .. MaxCopies :
          answer'[m] = "none" => file'[<<m, i>>].place = "none"
    BY <1>1, <1>6 DEF IInv, OneSender
  <2> QED BY <2>1, <2>2, <2>3 DEF OneSender
<1>10. InRange'
  BY <1>1, <1>5 DEF IInv, InRange
<1>11. Progress'
  BY <1>1, <1>5 DEF IInv, Progress, BehindIsMade, BegunIsInTmp, Busy, Made, Current
<1>12. VisibleIsSound'
  BY <1>1 DEF IInv, VisibleIsSound, Placed
<1>13. AcknowledgedIsMade'
  <2>1. ASSUME worker[w].ok, NEW i \in DOMAIN boxes[l] PROVE Made(<<l, i>>)
    <3>1. worker[w].copy = Len(boxes[l]) + 1
      BY <1>1, <2>1 DEF IInv, InRange
    <3>2. i \in 1 .. Len(boxes[l]) /\ Len(boxes[l]) \in Nat
      BY <1>2, <1>3, <2>1
    <3>3. i < worker[w].copy
      BY <3>1, <3>2
    <3> QED BY <1>1, <2>1, <3>3 DEF IInv, Progress, BehindIsMade, Busy
  <2> QED BY <2>1, <1>1, <1>6 DEF IInv, AcknowledgedIsMade, Made
<1> QED BY <1>8, <1>9, <1>10, <1>11, <1>12, <1>13 DEF IInv

-----------------------------------------------------------------------------
(* The rest of the world.                                                   *)

(* The client process takes a visible, hence complete, file.                *)
LEMMA RelayKeeps == ASSUME IInv, NEW c \in Copies, Relay(c) PROVE IInv'
<1>1. file[c].place = "box" /\ file' = [file EXCEPT ![c].place = "relayed"]
      /\ UNCHANGED <<dirs, boxes, answer, worker, process>>
  BY DEF Relay
<1>2. file \in [Copies -> File] /\ Sound(file[c])
  BY <1>1 DEF IInv, TypeOK, VisibleIsSound, Placed
<1>3. /\ file'[c] \in File /\ file'[c].place = "relayed" /\ Sound(file'[c])
      /\ \A d \in Copies : d # c => file'[d] = file[d]
  BY <1>1, <1>2 DEF File, Sound
<1>4. TypeOK'
  <2>1. file' \in [Copies -> File]
    BY <1>1, <1>2, <1>3
  <2> QED BY <1>1, <2>1 DEF IInv, TypeOK
<1>5. \A d \in Copies : Made(d) => Made(d)'
  BY <1>3 DEF Made
<1>6. OneSender'
  <2>1. \A m \in Letters, i \in 1 .. MaxCopies :
          answer[m] = "none" => file'[<<m, i>>].place = "none"
    <3> SUFFICES ASSUME NEW m \in Letters, NEW i \in 1 .. MaxCopies, answer[m] = "none"
                 PROVE  file'[<<m, i>>].place = "none"
      OBVIOUS
    <3>1. <<m, i>> \in Copies /\ file[<<m, i>>].place = "none"
      BY DEF IInv, OneSender, Copies
    <3> QED BY <3>1, <1>1, <1>3
  <2> QED BY <1>1, <2>1 DEF IInv, OneSender, Busy
<1>7. InRange'
  BY <1>1 DEF IInv, InRange
<1>8. Progress'
  <2> SUFFICES ASSUME NEW v \in Workers PROVE BehindIsMade(v)' /\ BegunIsInTmp(v)'
    BY DEF Progress
  <2>1. BehindIsMade(v) /\ BegunIsInTmp(v) /\ worker[v] \in WorkerState
    BY DEF IInv, Progress, TypeOK
  <2>2. worker[v].pc # "idle" => worker[v].letter \in Letters
    BY <2>1 DEF IInv, OneSender, Busy, WorkerState
  <2>3. BehindIsMade(v)'
    BY <2>1, <2>2, <1>1, <1>5, CopyTyped DEF IInv, BehindIsMade, Busy
  <2>4. BegunIsInTmp(v)'
    <3>1. ASSUME worker[v].pc \in {"write", "close", "rename"}
          PROVE  file'[Current(v)] = file[Current(v)]
      <4>1. Current(v) \in Copies /\ file[Current(v)].place = "tmp"
        BY <3>1, CurrentTyped, FileTyped
      <4> QED BY <4>1, <1>1, <1>3
    <3> QED BY <3>1, <2>1, <1>1 DEF BegunIsInTmp, Current
  <2> QED BY <2>3, <2>4
<1>9. VisibleIsSound'
  BY <1>1, <1>3 DEF IInv, VisibleIsSound, Placed
<1>10. AcknowledgedIsMade'
  BY <1>1, <1>5, CopyTyped DEF IInv, AcknowledgedIsMade
<1> QED BY <1>4, <1>6, <1>7, <1>8, <1>9, <1>10 DEF IInv

(* A step that leaves everything but the state of the process.              *)
LEMMA ProcessKeeps ==
    ASSUME IInv, UNCHANGED <<dirs, boxes, file, answer, worker>>,
           process' \in {"up", "killed", "fault"}
    PROVE  IInv'
<1>1. TypeOK' /\ OneSender' /\ InRange'
  BY DEF IInv, TypeOK, OneSender, InRange, Busy
<1>2. Progress'
  BY DEF IInv, Progress, BehindIsMade, BegunIsInTmp, Busy, Made, Current
<1>3. VisibleIsSound' /\ AcknowledgedIsMade'
  BY DEF IInv, VisibleIsSound, AcknowledgedIsMade, Placed, Made
<1> QED BY <1>1, <1>2, <1>3 DEF IInv

-----------------------------------------------------------------------------
(* The theorems.                                                            *)

(* In the beginning nobody sends and there are no files.                    *)
LEMMA InitIInv == Init => IInv
<1> SUFFICES ASSUME Init PROVE IInv
  OBVIOUS
<1>1. Idle \in WorkerState /\ Idle.pc = "idle" /\ <<>> \in Seq(Boxes) /\ Len(<<>>) = 0
  <2>1. <<>> \in Seq(PartNames) /\ <<>> \in Seq(Boxes) /\ Len(<<>>) = 0
    OBVIOUS
  <2> QED BY <2>1 DEF Idle, WorkerState, Control
<1>2. [place |-> "none", whole |-> FALSE] \in File
  BY DEF File
<1>3. TypeOK
  <2>1. dirs \subseteq Boxes \X PartNames
    BY MaildirAssumption DEF Init, Boxes
  <2>2. \A l \in Letters : Len(boxes[l]) <= MaxCopies
    BY <1>1, MaildirAssumption DEF Init
  <2> QED BY <1>1, <1>2, <2>1, <2>2 DEF Init, TypeOK, Answers
<1>4. \A w \in Workers : worker[w].pc = "idle"
  BY <1>1 DEF Init
<1>5. \A c \in Copies : file[c].place = "none"
  BY DEF Init
<1>6. OneSender
  <2>1. \A l \in Letters, i \in 1 .. MaxCopies : <<l, i>> \in Copies
    BY DEF Copies
  <2> QED BY <2>1, <1>4, <1>5 DEF OneSender, Busy
<1>7. InRange /\ Progress
  BY <1>4 DEF InRange, Progress, BehindIsMade, BegunIsInTmp, Busy
<1>8. VisibleIsSound
  BY <1>5 DEF VisibleIsSound, Placed
<1>9. AcknowledgedIsMade
  BY DEF Init, AcknowledgedIsMade
<1> QED BY <1>3, <1>6, <1>7, <1>8, <1>9 DEF IInv

(* Every step keeps the invariant.                                          *)
LEMMA NextIInv == ASSUME IInv, [Next]_vars PROVE IInv'
<1>1. ASSUME NEW w \in Workers, Deliver(w) PROVE IInv'
  <2>1. ASSUME NEW l \in Letters, NEW n \in 0 .. MaxCopies, NEW bs \in [1 .. n -> Boxes],
               SendMail(w, l, bs)
        PROVE  IInv'
    BY <2>1, SendMailKeeps
  <2>2. CASE FindBox(w)
    BY <2>2, FindBoxKeeps
  <2>3. CASE MakeDirectory(w)
    BY <2>3, MakeDirectoryKeeps
  <2>4. CASE CreateMessage(w)
    BY <2>4, CreateMessageKeeps
  <2>5. CASE WriteMessage(w)
    BY <2>5, WriteMessageKeeps
  <2>6. CASE CloseFile(w)
    BY <2>6, CloseFileKeeps
  <2>7. CASE RenameFile(w)
    BY <2>7, RenameFileKeeps
  <2>8. CASE Answer(w)
    BY <2>8, AnswerKeeps
  <2> QED BY <1>1, <2>1, <2>2, <2>3, <2>4, <2>5, <2>6, <2>7, <2>8 DEF Deliver
<1>2. ASSUME NEW c \in Copies, Relay(c) PROVE IInv'
  BY <1>2, RelayKeeps
<1>3. CASE Kill
  BY <1>3, StopKeeps DEF Kill
<1>4. CASE Restart
  BY <1>4, ProcessKeeps DEF Restart
<1>5. CASE UNCHANGED vars
  BY <1>5, ProcessKeeps DEF vars, IInv, TypeOK
<1> QED BY <1>1, <1>2, <1>3, <1>4, <1>5 DEF Next

(* The invariant holds whatever calls fail and whenever the process dies.   *)
THEOREM InductiveInvariant == Spec => []IInv
<1>1. Init => IInv
  BY InitIInv
<1>2. IInv /\ [Next]_vars => IInv'
  BY NextIInv
<1> QED BY <1>1, <1>2, PTL DEF Spec

(* The variables have their types.                                          *)
THEOREM TypeCorrect == Spec => []TypeOK
<1>1. IInv => TypeOK
  BY DEF IInv
<1> QED BY InductiveInvariant, <1>1, PTL

(* No reader of a mailbox, and not the client process either, ever sees an  *)
(* incomplete letter: what maildir_message_finalize moves out of tmp has    *)
(* been written and closed, if stdio loses no byte unnoticed.               *)
THEOREM NothingPartialIsVisible ==
    ASSUME "short" \notin Failures PROVE Spec => []VisibleIsWhole
<1>1. IInv => VisibleIsWhole
  BY DEF IInv, VisibleIsSound, VisibleIsWhole, Sound
<1> QED BY InductiveInvariant, <1>1, PTL

(* A letter that was answered 250 is never lost: send_mail reports success  *)
(* only after it has written a complete file for every copy, which no later *)
(* step, crash or restart takes away.                                       *)
THEOREM NothingAcknowledgedIsLost ==
    ASSUME "short" \notin Failures PROVE Spec => []AcknowledgedIsKept
<1>1. IInv => AcknowledgedIsKept
  BY DEF IInv, AcknowledgedIsMade, AcknowledgedIsKept, Made, Kept, Sound
<1> QED BY InductiveInvariant, <1>1, PTL

(* Also with bytes that stdio loses: every copy of a letter that was        *)
(* answered 250 has a file, in tmp, in its box or taken by the client.      *)
AcknowledgedHasFiles ==
    \A l \in Letters : answer[l] = "250" =>
        \A i \in DOMAIN boxes[l] : file[<<l, i>>].place # "none"

(* Whatever calls fail, send_mail answers 250 only when it has made a file  *)
(* for every recipient and domain, and files do not go away.                *)
THEOREM EveryCopyHasFile == Spec => []AcknowledgedHasFiles
<1>1. IInv => AcknowledgedHasFiles
  BY DEF IInv, AcknowledgedIsMade, AcknowledgedHasFiles, Made
<1> QED BY InductiveInvariant, <1>1, PTL

-----------------------------------------------------------------------------
(* The mail store.                                                          *)

(* One more invariant: the copies that a worker has still before it have no *)
(* file yet, so that creating one never overwrites a copy that is kept.     *)

Before(w, i) ==
    \/ i > worker[w].copy
    \/ i = worker[w].copy /\ worker[w].pc \in {"find", "make", "create"}

Unbegun ==
    \A w \in Workers, i \in 1 .. MaxCopies :
        Busy(w) /\ Before(w, i) => file[<<worker[w].letter, i>>].place = "none"

(* A worker goes on with its letter, as in GoingOn.                         *)
LEMMA GoingOnUnbegun ==
    ASSUME IInv, Unbegun, NEW w \in Workers, worker[w].pc \notin {"idle", "answer"},
           NEW r, NEW f,
           worker' = [worker EXCEPT ![w] = r],
           file' = [file EXCEPT ![Current(w)] = f],
           r.letter = worker[w].letter,
           \/ r.copy = worker[w].copy /\ (r.pc \in {"find", "make", "create"} => f.place = "none")
           \/ r.copy = worker[w].copy + 1
    PROVE  Unbegun'
<1> DEFINE l == worker[w].letter
           c == worker[w].copy
<1>1. /\ l \in Letters /\ c \in Nat
      /\ Current(w) \in Copies /\ Current(w) = <<l, c>>
  BY CurrentTyped
<1>2. file \in [Copies -> File] /\ worker \in [Workers -> WorkerState]
  BY DEF IInv, TypeOK
<1>3. worker'[w] = r /\ \A v \in Workers : v # w => worker'[v] = worker[v]
  BY <1>2
<1>4. file'[<<l, c>>] = f /\ \A d \in Copies : d # <<l, c>> => file'[d] = file[d]
  BY <1>1, <1>2
<1>5. Busy(w) /\ \A v \in Workers : Busy(v) /\ v # w =>
        worker[v].letter # l /\ worker[v].letter \in Letters
  BY <1>2 DEF IInv, OneSender, Busy, WorkerState
<1> SUFFICES ASSUME NEW v \in Workers, NEW i \in 1 .. MaxCopies, Busy(v)', Before(v, i)'
             PROVE  file'[<<worker'[v].letter, i>>].place = "none"
  BY DEF Unbegun
<1>6. CASE v = w
  <2>1. i \in Nat /\ <<l, i>> \in Copies
    BY <1>1, MaildirAssumption DEF Copies
  <2>2. CASE i = c
    BY <1>6, <2>2, <1>1, <1>3, <1>4 DEF Before
  <2>3. CASE i # c
    <3>1. i > c
      BY <1>6, <2>1, <2>3, <1>1, <1>3 DEF Before
    <3>2. file[<<l, i>>].place = "none"
      BY <3>1, <1>5 DEF Unbegun, Before
    <3> QED BY <1>6, <3>2, <2>1, <2>3, <1>3, <1>4
  <2> QED BY <2>2, <2>3
<1>7. CASE v # w
  <2>1. worker'[v] = worker[v] /\ Busy(v) /\ Before(v, i)
    BY <1>7, <1>3 DEF Busy, Before
  <2>2. file[<<worker[v].letter, i>>].place = "none"
    BY <2>1 DEF Unbegun
  <2>3. <<worker[v].letter, i>> \in Copies /\ worker[v].letter # l
    BY <1>5, <1>7, <2>1 DEF Copies
  <2> QED BY <2>1, <2>2, <2>3, <1>4
<1> QED BY <1>6, <1>7

(* The failed calls, and those that lead to the next one.                   *)
LEMMA NextCopyUnbegun ==
    ASSUME IInv, Unbegun, NEW w \in Workers, worker[w].pc \notin {"idle", "answer"},
           NEW ok, NextCopy(w, ok), NEW f, file' = [file EXCEPT ![Current(w)] = f]
    PROVE  Unbegun'
<1> DEFINE r == [pc |-> IF LastCopy(w) THEN "answer" ELSE "find",
                 letter |-> worker[w].letter, copy |-> worker[w].copy + 1,
                 make |-> <<>>, ok |-> worker[w].ok /\ ok]
<1>1. worker' = [worker EXCEPT ![w] = r] /\ r.letter = worker[w].letter
      /\ r.copy = worker[w].copy + 1
  BY DEF NextCopy
<1> HIDE DEF r
<1> QED BY <1>1, GoingOnUnbegun

LEMMA FailUnbegun ==
    ASSUME IInv, Unbegun, NEW w \in Workers, worker[w].pc \notin {"idle", "answer"},
           Fail(w), UNCHANGED file
    PROVE  Unbegun'
<1> DEFINE r == [worker[w] EXCEPT !.pc = "answer", !.make = <<>>, !.ok = FALSE]
<1>1. file' = [file EXCEPT ![Current(w)] = file[Current(w)]]
  BY FileTyped
<1>2. CASE Box(w) \in Users
  <2>1. worker[w] \in WorkerState
    BY DEF IInv, TypeOK
  <2>2. worker' = [worker EXCEPT ![w] = r] /\ r.letter = worker[w].letter
        /\ r.copy = worker[w].copy /\ r.pc = "answer"
    BY <1>2, <2>1 DEF Fail, WorkerState
  <2> HIDE DEF r
  <2> QED BY <1>1, <2>2, GoingOnUnbegun
<1>3. CASE Box(w) \notin Users
  BY <1>1, <1>3, NextCopyUnbegun DEF Fail
<1> QED BY <1>2, <1>3

LEMMA GotoUnbegun ==
    ASSUME IInv, Unbegun, NEW w \in Workers, worker[w].pc \notin {"idle", "answer"},
           NEW p \in {"create", "write", "close", "rename"}, Goto(w, p),
           NEW f, file' = [file EXCEPT ![Current(w)] = f],
           p = "create" => f.place = "none"
    PROVE  Unbegun'
<1> DEFINE r == [worker[w] EXCEPT !.pc = p]
<1>1. worker[w] \in WorkerState
  BY DEF IInv, TypeOK
<1>2. worker' = [worker EXCEPT ![w] = r] /\ r.letter = worker[w].letter
      /\ r.copy = worker[w].copy /\ r.pc = p
  BY <1>1 DEF Goto, WorkerState
<1> HIDE DEF r
<1> QED BY <1>2, GoingOnUnbegun

(* A worker that has not begun the copy at hand finds no file of it.        *)
LEMMA NothingBegun ==
    ASSUME IInv, Unbegun, NEW w \in Workers, worker[w].pc \in {"find", "make", "create"}
    PROVE  file[Current(w)].place = "none"
<1>1. Current(w) \in Copies /\ Current(w) = <<worker[w].letter, worker[w].copy>>
  BY CurrentTyped
<1>2. worker[w].copy \in 1 .. MaxCopies
  BY <1>1 DEF Copies
<1> QED BY <1>1, <1>2 DEF Unbegun, Before, Busy

-----------------------------------------------------------------------------
(* Every step keeps Unbegun.                                                *)

(* The directories of a box.                                                *)
LEMMA MakeDirectoryUnbegun ==
    ASSUME IInv, Unbegun, NEW w \in Workers, MakeDirectory(w) PROVE Unbegun'
<1> DEFINE r == [worker[w] EXCEPT !.make = Tail(@),
                   !.pc = IF Tail(worker[w].make) = <<>> THEN "create" ELSE "make"]
<1>1. worker[w].pc = "make" /\ UNCHANGED file
  BY DEF MakeDirectory, At
<1>2. file' = [file EXCEPT ![Current(w)] = file[Current(w)]] /\ file[Current(w)].place = "none"
  BY <1>1, FileTyped, NothingBegun
<1>3. CASE worker' = [worker EXCEPT ![w] = r]
  <2>1. worker[w] \in WorkerState
    BY DEF IInv, TypeOK
  <2>2. r.letter = worker[w].letter /\ r.copy = worker[w].copy
    BY <2>1 DEF WorkerState
  <2> HIDE DEF r
  <2> QED BY <1>1, <1>2, <1>3, <2>2, GoingOnUnbegun
<1>4. CASE Fail(w)
  BY <1>1, <1>4, FailUnbegun
<1>5. CASE Stop("fault")
  BY <1>5 DEF Stop, Idle, Unbegun, Busy
<1> QED BY <1>3, <1>4, <1>5 DEF MakeDirectory

(* A letter that is begun has no files.                                     *)
LEMMA SendMailUnbegun ==
    ASSUME IInv, Unbegun, NEW w \in Workers, NEW l \in Letters, NEW bs, SendMail(w, l, bs)
    PROVE  Unbegun'
<1>1. worker \in [Workers -> WorkerState] /\ answer[l] = "none" /\ UNCHANGED file
  BY DEF IInv, TypeOK, SendMail
<1>2. worker'[w].letter = l /\ \A v \in Workers : v # w => worker'[v] = worker[v]
  BY <1>1 DEF SendMail
<1>3. \A i \in 1 .. MaxCopies : file[<<l, i>>].place = "none"
  BY <1>1 DEF IInv, OneSender
<1> QED BY <1>1, <1>2, <1>3 DEF Unbegun, Busy, Before

(* Files only get on.                                                       *)
LEMMA RelayUnbegun == ASSUME IInv, Unbegun, NEW c \in Copies, Relay(c) PROVE Unbegun'
<1>1. file \in [Copies -> File] /\ UNCHANGED worker /\ file[c].place = "box"
      /\ file' = [file EXCEPT ![c].place = "relayed"]
  BY DEF IInv, TypeOK, Relay
<1> SUFFICES ASSUME NEW w \in Workers, NEW i \in 1 .. MaxCopies, Busy(w), Before(w, i)
             PROVE  file'[<<worker[w].letter, i>>].place = "none"
  BY <1>1 DEF Unbegun, Busy, Before
<1>2. file[<<worker[w].letter, i>>].place = "none"
  BY DEF Unbegun
<1>3. worker[w].letter \in Letters
  BY DEF IInv, TypeOK, OneSender, Busy, WorkerState
<1>4. <<worker[w].letter, i>> \in Copies /\ <<worker[w].letter, i>> # c
  BY <1>1, <1>2, <1>3 DEF Copies
<1> QED BY <1>1, <1>2, <1>4

LEMMA NextUnbegun == ASSUME IInv, Unbegun, [Next]_vars PROVE Unbegun'
<1>1. ASSUME NEW w \in Workers, Deliver(w) PROVE Unbegun'
  <2>1. ASSUME NEW l \in Letters, NEW bs, SendMail(w, l, bs) PROVE Unbegun'
    BY <2>1, SendMailUnbegun
  <2>2. CASE FindBox(w)
    <3> DEFINE r == [worker[w] EXCEPT !.pc = "make", !.make = Parts(Box(w))]
    <3>1. worker[w].pc = "find" /\ UNCHANGED file /\ worker[w] \in WorkerState
      BY <2>2 DEF FindBox, At, IInv, TypeOK
    <3>2. file' = [file EXCEPT ![Current(w)] = file[Current(w)]] /\ file[Current(w)].place = "none"
      BY <3>1, FileTyped, NothingBegun
    <3>3. CASE Goto(w, "create")
      BY <3>1, <3>2, <3>3, GotoUnbegun
    <3>4. CASE worker' = [worker EXCEPT ![w] = r]
      <4>1. r.letter = worker[w].letter /\ r.copy = worker[w].copy
        BY <3>1 DEF WorkerState
      <4> HIDE DEF r
      <4> QED BY <3>1, <3>2, <3>4, <4>1, GoingOnUnbegun
    <3>5. CASE Fail(w)
      BY <3>1, <3>5, FailUnbegun
    <3> QED BY <2>2, <3>3, <3>4, <3>5 DEF FindBox
  <2>3. CASE MakeDirectory(w)
    BY <2>3, MakeDirectoryUnbegun
  <2>4. CASE CreateMessage(w)
    <3>1. worker[w].pc = "create"
      BY <2>4 DEF CreateMessage, At
    <3>2. CASE /\ file' = [file EXCEPT ![Current(w)] = [place |-> "tmp", whole |-> FALSE]]
               /\ Goto(w, "write")
      BY <3>1, <3>2, GotoUnbegun
    <3>3. CASE Fail(w) /\ UNCHANGED file
      BY <3>1, <3>3, FailUnbegun
    <3> QED BY <2>4, <3>2, <3>3 DEF CreateMessage
  <2>5. CASE WriteMessage(w)
    <3>1. worker[w].pc = "write" /\ UNCHANGED file
      BY <2>5 DEF WriteMessage, At
    <3>2. file' = [file EXCEPT ![Current(w)] = file[Current(w)]]
      BY <3>1, FileTyped
    <3> QED BY <2>5, <3>1, <3>2, GotoUnbegun, FailUnbegun DEF WriteMessage
  <2>6. CASE CloseFile(w)
    <3>1. worker[w].pc = "close" /\ Goto(w, "rename")
      BY <2>6 DEF CloseFile, At
    <3>2. file' = [file EXCEPT ![Current(w)].whole = TRUE] \/ UNCHANGED file
      BY <2>6 DEF CloseFile
    <3>3. PICK f : file' = [file EXCEPT ![Current(w)] = f]
      BY <3>1, <3>2, FileTyped
    <3> QED BY <3>1, <3>3, GotoUnbegun
  <2>7. CASE RenameFile(w)
    <3>1. worker[w].pc = "rename"
      BY <2>7 DEF RenameFile, At
    <3>2. file' = [file EXCEPT ![Current(w)].place = "box"] \/ UNCHANGED file
      BY <2>7 DEF RenameFile
    <3>3. PICK f : file' = [file EXCEPT ![Current(w)] = f]
      BY <3>1, <3>2, FileTyped
    <3> QED BY <2>7, <3>1, <3>3, NextCopyUnbegun DEF RenameFile
  <2>8. CASE Answer(w)
    <3>1. worker \in [Workers -> WorkerState] /\ worker' = [worker EXCEPT ![w] = Idle]
          /\ UNCHANGED file /\ Idle.pc = "idle"
      BY <2>8 DEF Answer, IInv, TypeOK, Idle
    <3>2. \A v \in Workers : Busy(v)' => worker'[v] = worker[v]
      BY <3>1 DEF Busy
    <3> QED BY <3>1, <3>2 DEF Unbegun, Busy, Before
  <2> QED BY <1>1, <2>1, <2>2, <2>3, <2>4, <2>5, <2>6, <2>7, <2>8 DEF Deliver
<1>2. ASSUME NEW c \in Copies, Relay(c) PROVE Unbegun'
  BY <1>2, RelayUnbegun
<1>3. CASE Kill
  BY <1>3 DEF Kill, Stop, Idle, Unbegun, Busy
<1>4. CASE Restart \/ UNCHANGED vars
  BY <1>4 DEF Restart, vars, Unbegun, Busy, Before
<1> QED BY <1>1, <1>2, <1>3, <1>4 DEF Next

-----------------------------------------------------------------------------
(* The steps of the delivery as steps of the mail store.                    *)

stage == [c \in Copies |-> StageOf(file[c])]

(* The four places, and a file that is not whole.                           *)
LEMMA Stages ==
    ASSUME NEW f \in File
    PROVE  /\ ~f.whole \/ f.place = "none" => StageOf(f) = "none"
           /\ f.whole /\ f.place = "tmp" => StageOf(f) = "kept"
           /\ f.whole /\ f.place = "box" => StageOf(f) = "shown"
           /\ f.whole /\ f.place = "relayed" => StageOf(f) = "taken"
BY DEF StageOf, StageAt, File

(* One file changes: so does one stage, or nothing.                         *)
LEMMA OneStage ==
    ASSUME IInv, NEW c \in Copies, NEW f, file' = [file EXCEPT ![c] = f]
    PROVE  /\ stage[c] = StageOf(file[c])
           /\ stage' = [stage EXCEPT ![c] = StageOf(f)]
           /\ StageOf(f) = StageOf(file[c]) => stage' = stage
<1>1. file \in [Copies -> File]
  BY DEF IInv, TypeOK
<1>2. file'[c] = f /\ \A d \in Copies : d # c => file'[d] = file[d]
  BY <1>1
<1>3. stage[c] = StageOf(file[c])
  BY DEF stage
<1>4. stage' = [d \in Copies |-> StageOf(file'[d])]
  BY DEF stage
<1>5. \A d \in Copies : d # c => StageOf(file'[d]) = StageOf(file[d])
  BY <1>2
<1>6. stage' = [stage EXCEPT ![c] = StageOf(f)]
  <2>1. [stage EXCEPT ![c] = StageOf(f)] =
          [d \in Copies |-> IF d = c THEN StageOf(f) ELSE StageOf(file[d])]
    BY DEF stage
  <2> QED BY <2>1, <1>2, <1>4, <1>5
<1>7. ASSUME StageOf(f) = StageOf(file[c]) PROVE stage' = stage
  <2>1. stage = [d \in Copies |-> StageOf(file[d])]
    BY DEF stage
  <2>2. \A d \in Copies : StageOf(file'[d]) = StageOf(file[d])
    BY <1>2, <1>5, <1>7
  <2> QED BY <1>4, <2>1, <2>2
<1> QED BY <1>3, <1>6, <1>7

(* A file begun in tmp counts for nothing yet.                              *)
LEMMA CreateIsStutter ==
    ASSUME IInv, Unbegun, NEW w \in Workers, CreateMessage(w)
    PROVE  UNCHANGED <<boxes, stage, answer>>
<1>1. worker[w].pc = "create" /\ UNCHANGED <<boxes, answer>>
  BY DEF CreateMessage, At
<1>2. Current(w) \in Copies /\ file[Current(w)] \in File /\ file[Current(w)].place = "none"
  BY <1>1, CurrentTyped, FileTyped, NothingBegun
<1>3. CASE file' = [file EXCEPT ![Current(w)] = [place |-> "tmp", whole |-> FALSE]]
  <2> DEFINE f == [place |-> "tmp", whole |-> FALSE]
  <2>1. PICK c \in Copies : c = Current(w)
    BY <1>2
  <2>2. f \in File /\ ~f.whole
    BY DEF File
  <2>3. StageOf(f) = "none" /\ StageOf(file[c]) = "none"
    BY <1>2, <2>1, <2>2, Stages
  <2>4. file' = [file EXCEPT ![c] = f]
    BY <1>3, <2>1
  <2> HIDE DEF f
  <2> QED BY <1>1, <2>3, <2>4, OneStage
<1>4. CASE UNCHANGED file
  BY <1>1, <1>4 DEF stage
<1> QED BY <1>3, <1>4 DEF CreateMessage

(* The closed file is kept.                                                 *)
LEMMA CloseKeeps ==
    ASSUME IInv, "short" \notin Failures, NEW w \in Workers, CloseFile(w)
    PROVE  (\E c \in Copies : Store!Keep(c)) \/ UNCHANGED <<boxes, stage, answer>>
<1>1. worker[w].pc = "close" /\ UNCHANGED <<boxes, answer>>
      /\ file' = [file EXCEPT ![Current(w)].whole = TRUE]
  BY DEF CloseFile, At
<1>2. PICK c \in Copies : c = Current(w)
  BY <1>1, CurrentTyped
<1>3. /\ file[c] \in File /\ file[c].place = "tmp"
      /\ answer[c[1]] = "sent" /\ c[2] \in DOMAIN boxes[c[1]]
  BY <1>1, <1>2, CurrentTyped, FileTyped
<1> DEFINE f == [file[c] EXCEPT !.whole = TRUE]
<1>4. f \in File /\ f.place = "tmp" /\ f.whole /\ file' = [file EXCEPT ![c] = f]
  BY <1>1, <1>2, <1>3 DEF File
<1> HIDE DEF f
<1>5. StageOf(f) = "kept" /\ StageOf(file[c]) \in {"none", "kept"}
  BY <1>3, <1>4, Stages DEF File
<1>6. CASE StageOf(file[c]) = "none"
  <2>1. stage[c] = "none" /\ stage' = [stage EXCEPT ![c] = "kept"]
    <3>1. stage[c] = StageOf(file[c]) /\ stage' = [stage EXCEPT ![c] = StageOf(f)]
      BY <1>4, OneStage
    <3> QED BY <3>1, <1>5, <1>6
  <2>2. Store!Keep(c)
    BY <2>1, <1>1, <1>3 DEF Store!Keep, stage
  <2> QED BY <2>2
<1>7. CASE StageOf(file[c]) = "kept"
  <2>1. stage' = stage
    BY <1>4, <1>5, <1>7, OneStage
  <2> QED BY <1>1, <2>1
<1> QED BY <1>5, <1>6, <1>7

(* The renamed file is shown.                                               *)
LEMMA RenameShows ==
    ASSUME IInv, "short" \notin Failures, NEW w \in Workers, RenameFile(w)
    PROVE  (\E c \in Copies : Store!Show(c)) \/ UNCHANGED <<boxes, stage, answer>>
<1>1. worker[w].pc = "rename" /\ UNCHANGED <<boxes, answer>>
      /\ (file' = [file EXCEPT ![Current(w)].place = "box"] \/ UNCHANGED file)
  BY DEF RenameFile, At
<1>2. PICK c \in Copies : c = Current(w)
  BY <1>1, CurrentTyped
<1>3. file[c] \in File /\ file[c].place = "tmp" /\ file[c].whole /\ answer[c[1]] = "sent"
  BY <1>1, <1>2, CurrentTyped, FileTyped DEF Sound
<1>4. CASE file' = [file EXCEPT ![Current(w)].place = "box"]
  <2> DEFINE f == [file[c] EXCEPT !.place = "box"]
  <2>1. f \in File /\ f.place = "box" /\ f.whole /\ file' = [file EXCEPT ![c] = f]
    BY <1>2, <1>3, <1>4 DEF File
  <2> HIDE DEF f
  <2>2. StageOf(f) = "shown" /\ StageOf(file[c]) = "kept"
    BY <1>3, <2>1, Stages
  <2>3. stage[c] = "kept" /\ stage' = [stage EXCEPT ![c] = "shown"]
    <3>1. stage[c] = StageOf(file[c]) /\ stage' = [stage EXCEPT ![c] = StageOf(f)]
      BY <2>1, OneStage
    <3> QED BY <2>2, <3>1
  <2>4. Store!Show(c)
    BY <2>3, <1>1, <1>3 DEF Store!Show, stage
  <2> QED BY <2>4
<1>5. CASE UNCHANGED file
  BY <1>1, <1>5 DEF stage
<1> QED BY <1>1, <1>4, <1>5

(* The relayed file is taken.                                               *)
LEMMA RelayTakes == ASSUME IInv, "short" \notin Failures, NEW c \in Copies, Relay(c) PROVE Store!Take(c)
<1>1. /\ file[c].place = "box" /\ boxes[c[1]][c[2]] \in Domains
      /\ file' = [file EXCEPT ![c].place = "relayed"] /\ UNCHANGED <<boxes, answer>>
  BY DEF Relay
<1>2. file[c] \in File /\ file[c].whole
  BY <1>1 DEF IInv, TypeOK, VisibleIsSound, Placed, Sound
<1> DEFINE f == [file[c] EXCEPT !.place = "relayed"]
<1>3. f \in File /\ f.place = "relayed" /\ f.whole /\ file' = [file EXCEPT ![c] = f]
  BY <1>1, <1>2 DEF File
<1> HIDE DEF f
<1>4. StageOf(f) = "taken" /\ StageOf(file[c]) = "shown"
  BY <1>1, <1>2, <1>3, Stages
<1>5. stage[c] = "shown" /\ stage' = [stage EXCEPT ![c] = "taken"]
  <2>1. stage[c] = StageOf(file[c]) /\ stage' = [stage EXCEPT ![c] = StageOf(f)]
    BY <1>3, OneStage
  <2> QED BY <1>4, <2>1
<1> QED BY <1>1, <1>5 DEF Store!Take, stage

(* 250 is said when every copy is kept.                                     *)
LEMMA AnswerSettles ==
    ASSUME IInv, "short" \notin Failures, NEW w \in Workers, Answer(w)
    PROVE  \E l \in Letters : Store!Acknowledge(l) \/ Store!Refuse(l)
<1>1. /\ worker[w].pc = "answer" /\ UNCHANGED <<boxes, file>>
      /\ answer' = [answer EXCEPT ![worker[w].letter] = IF worker[w].ok THEN "250" ELSE "451"]
  BY DEF Answer, At
<1>2. worker[w].letter \in Letters /\ answer[worker[w].letter] = "sent"
  BY <1>1 DEF IInv, TypeOK, OneSender, Busy, WorkerState
<1>3. PICK l \in Letters : l = worker[w].letter
  BY <1>2
<1>4. answer[l] = "sent" /\ stage' = stage
  BY <1>1, <1>2, <1>3 DEF stage
<1>5. CASE worker[w].ok
  <2>1. answer' = [answer EXCEPT ![l] = "250"]
    BY <1>1, <1>3, <1>5
  <2>2. answer'[l] = "250" /\ AcknowledgedIsMade'
    BY <2>1, AnswerKeeps DEF IInv, TypeOK
  <2>3. ASSUME NEW i \in DOMAIN boxes[l] PROVE stage[<<l, i>>] # "none"
    <3>1. <<l, i>> \in Copies /\ file[<<l, i>>] \in File
      BY CopyTyped DEF IInv, TypeOK
    <3>2. file[<<l, i>>].place # "none" /\ file[<<l, i>>].whole
      BY <1>1, <2>2 DEF AcknowledgedIsMade, Made, Sound
    <3>3. StageOf(file[<<l, i>>]) \in {"kept", "shown", "taken"}
      BY <3>1, <3>2, Stages DEF File
    <3> QED BY <3>1, <3>3 DEF stage
  <2>4. Store!Acknowledge(l)
    BY <2>1, <2>3, <1>1, <1>4 DEF Store!Acknowledge, stage
  <2> QED BY <2>4
<1>6. CASE ~worker[w].ok
  <2>1. answer' = [answer EXCEPT ![l] = "451"]
    BY <1>1, <1>3, <1>6
  <2>2. Store!Refuse(l)
    BY <2>1, <1>1, <1>4 DEF Store!Refuse, stage
  <2> QED BY <2>2
<1> QED BY <1>5, <1>6

(* A letter comes with its boxes.                                           *)
LEMMA SendMailAccepts ==
    ASSUME NEW w \in Workers, NEW l \in Letters, NEW bs, SendMail(w, l, bs)
    PROVE  Store!Accept(l, bs)
BY DEF SendMail, Store!Accept, stage

LEMMA NextStore ==
    ASSUME "short" \notin Failures, IInv, Unbegun, [Next]_vars
    PROVE  Store!StoreNext \/ UNCHANGED <<boxes, stage, answer>>
<1> USE DEF Store!StoreNext
<1>1. ASSUME NEW w \in Workers, Deliver(w)
      PROVE  Store!StoreNext \/ UNCHANGED <<boxes, stage, answer>>
  <2>1. ASSUME NEW l \in Letters, NEW n \in 0 .. MaxCopies, NEW bs \in [1 .. n -> Boxes],
               SendMail(w, l, bs)
        PROVE  Store!StoreNext
    <3>1. Store!Accept(l, bs) /\ bs \in [1 .. n -> Users \cup Domains]
      BY <2>1, SendMailAccepts DEF Boxes
    <3> QED BY <3>1
  <2>2. CASE FindBox(w) \/ MakeDirectory(w) \/ WriteMessage(w)
    BY <2>2 DEF FindBox, MakeDirectory, WriteMessage, stage
  <2>3. CASE CreateMessage(w)
    BY <2>3, CreateIsStutter
  <2>4. CASE CloseFile(w)
    BY <2>4, CloseKeeps DEF Copies, Store!Copies
  <2>5. CASE RenameFile(w)
    BY <2>5, RenameShows DEF Copies, Store!Copies
  <2>6. CASE Answer(w)
    BY <2>6, AnswerSettles
  <2> QED BY <1>1, <2>1, <2>2, <2>3, <2>4, <2>5, <2>6 DEF Deliver
<1>2. ASSUME NEW c \in Copies, Relay(c) PROVE Store!StoreNext
  BY <1>2, RelayTakes DEF Copies, Store!Copies
<1>3. CASE Kill \/ Restart \/ UNCHANGED vars
  BY <1>3 DEF Kill, Restart, vars, stage
<1> QED BY <1>1, <1>2, <1>3 DEF Next

(* send_mail, whatever fails on the way and whenever the process dies, does *)
(* what MailStore promises: copies are made, shown and taken in order and   *)
(* never lost, and 250 is only said of a letter with all its copies.        *)
THEOREM DeliveryImplementsMailStore ==
    ASSUME "short" \notin Failures PROVE Spec => ImplementsMailStore
<1>1. Init => Unbegun
  BY DEF Init, Unbegun, Busy, Idle
<1>2. Init => Store!StoreInit
  <2> SUFFICES ASSUME Init PROVE Store!StoreInit
    OBVIOUS
  <2>1. \A c \in Copies : StageOf(file[c]) = "none"
    BY DEF Init, StageOf
  <2> QED BY <2>1 DEF Init, Store!StoreInit, Copies, Store!Copies
<1>3. IInv /\ Unbegun /\ [Next]_vars => Unbegun'
  BY NextUnbegun
<1>4. IInv /\ Unbegun /\ [Next]_vars => [Store!StoreNext]_(Store!svars)
  BY NextStore DEF Store!svars, stage
<1> QED BY InductiveInvariant, <1>1, <1>2, <1>3, <1>4, PTL
        DEF Spec, ImplementsMailStore, Store!StoreSpec
===============================================================================
