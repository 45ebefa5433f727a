----------------------------- MODULE ShutdownProofs ----------------------------
(***************************************************************************)
(* Proofs about the life of the server's process, for any number of workers, *)
(* of signals and of messages, and whatever thread a signal interrupts: what *)
(* el_close and log_free free nobody else uses, nothing that was logged is  *)
(* lost, and only a handler that asks for what its own thread holds waits   *)
(* for ever.                                                                *)
(***************************************************************************)
EXTENDS Shutdown, SequenceTheorems, TLAPS

-----------------------------------------------------------------------------
(* The invariant.                                                           *)

(* The steps that only main takes, in the order of its text.  Any other     *)
(* step may come at any time and has the rank 0.                            *)
Rank(s) ==
    IF s = "config" THEN 1
    ELSE IF s = "socket" THEN 2
    ELSE IF s \in {"open", "opening", "create"} THEN 3
    ELSE IF s = "spawn" THEN 4
    ELSE IF s = "join" THEN 5
    ELSE IF s = "free_queues" THEN 6
    ELSE IF s \in {"join_manager", "join_nobody"} THEN 7
    ELSE IF s = "free_logger" THEN 8
    ELSE IF s = "return_from_main" THEN 9
    ELSE 0

(* Ranks go up, but the steps of el_open's call have one; a message that is *)
(* being written is written before the next step that has a rank.           *)
Follows(s, r) ==
    Rank(s) > 0 =>
        /\ r # "write"
        /\ Rank(r) > 0 => Rank(s) < Rank(r) \/ (s = "opening" /\ r = "create")

Ordered(text) == \A i, j \in DOMAIN text : i < j => Follows(text[i], text[j])

(* What has a rank and is still to come.                                    *)
Ranked(text) == {s \in ToSet(text) : Rank(s) > 0}
Plan == Ranked(todo["main"])

Beyond(k) == \A s \in Plan : Rank(s) >= k

Texts ==
    /\ todo \in [Threads -> Seq(Steps)]
    /\ Ordered(todo["main"])

(* Whoever runs will be joined, and threads that are still to be made do    *)
(* not run.                                                                 *)
Joined ==
    /\ \A w \in Workers : todo[w] # <<>> => "join" \in Plan /\ Beyond(5)
    /\ todo["manager"] # <<>> => "join_manager" \in Plan /\ Beyond(4)
    /\ Beyond(5) \/ "join" \in Plan
    /\ Beyond(4) \/ "join_manager" \in Plan

(* What is freed, and what main has still to do then.                       *)
Freed ==
    /\ loop \in {"closed", "freed"} => Beyond(7)
    /\ loop = "freed" => Beyond(8)
    /\ logger = "freed" => Beyond(9) /\ "write" \notin ToSet(todo["main"])
    /\ "return_from_main" \in Plan => "free_logger" \in Plan \/ logger = "freed"
    /\ process = "ended" => logger = "freed"
    /\ logger \in {"gone", "freed"} => todo["logger"] = <<>>

(* Every message is in the queue, with the logger's thread, or printed.     *)
Kept ==
    /\ \A t \in Threads : \A n \in 1 .. written[t] : <<t, n>> \in messages \cup batch \cup printed
    /\ logger # "print" => batch = {}
    /\ logger = "freed" => messages = {}

(* The types of everything but the texts.                                   *)
Typed ==
    /\ messages \subseteq Message /\ batch \subseteq Message /\ printed \subseteq Message
    /\ written \in [Threads -> Nat]
    /\ logger \in LoggerControl /\ log_is_run \in BOOLEAN
    /\ mutex_messages \in Threads \cup {NULL}
    /\ mutex \in [Mutexes -> Threads \cup {NULL}]
    /\ destroyed \subseteq Mutexes
    /\ is_run \in BOOLEAN /\ loop \in LoopStates
    /\ signals \in 0 .. MaxSignals /\ process \in Ends

IInv == Typed /\ Texts /\ Joined /\ Freed /\ Kept

-----------------------------------------------------------------------------
(* Texts.                                                                   *)

(* The steps of a text that is put before another.                          *)
LEMMA Concatenated ==
    ASSUME NEW S, NEW a \in Seq(S), NEW b \in Seq(S)
    PROVE  /\ a \o b \in Seq(S) /\ ToSet(a \o b) = ToSet(a) \cup ToSet(b)
           /\ \A i \in DOMAIN (a \o b) :
                \/ i \in DOMAIN a /\ (a \o b)[i] = a[i]
                \/ i - Len(a) \in DOMAIN b /\ (a \o b)[i] = b[i - Len(a)] /\ i > Len(a)
<1> DEFINE c == a \o b
<1>1. /\ c \in Seq(S) /\ Len(a) \in Nat /\ Len(b) \in Nat /\ Len(c) = Len(a) + Len(b)
      /\ DOMAIN a = 1 .. Len(a) /\ DOMAIN b = 1 .. Len(b) /\ DOMAIN c = 1 .. Len(c)
      /\ \A i \in 1 .. Len(c) : c[i] = IF i <= Len(a) THEN a[i] ELSE b[i - Len(a)]
  BY ConcatProperties
<1> HIDE DEF c
<1>2. \A i \in DOMAIN c :
         \/ i \in DOMAIN a /\ c[i] = a[i]
         \/ i - Len(a) \in DOMAIN b /\ c[i] = b[i - Len(a)] /\ i > Len(a)
  BY <1>1
<1>3. \A i \in DOMAIN a : i \in DOMAIN c /\ c[i] = a[i]
  BY <1>1
<1>4. \A i \in DOMAIN b : Len(a) + i \in DOMAIN c /\ c[Len(a) + i] = b[i]
  BY <1>1
<1>5. ToSet(c) = ToSet(a) \cup ToSet(b)
  BY <1>2, <1>3, <1>4 DEF ToSet
<1> QED BY <1>1, <1>2, <1>5 DEF c

LEMMA StepsBefore ==
    \A a, b \in Seq(Steps) :
        a \o b \in Seq(Steps) /\ ToSet(a \o b) = ToSet(a) \cup ToSet(b)
BY Concatenated

(* The steps of a text after the first.                                     *)
LEMMA TailOf ==
    ASSUME NEW S, NEW a \in Seq(S), a # <<>>
    PROVE  /\ Tail(a) \in Seq(S) /\ Head(a) \in S /\ ToSet(a) = {Head(a)} \cup ToSet(Tail(a))
           /\ 1 \in DOMAIN a /\ Head(a) = a[1]
           /\ \A i \in DOMAIN Tail(a) : i + 1 \in DOMAIN a /\ Tail(a)[i] = a[i + 1] /\ 1 < i + 1
<1> DEFINE b == Tail(a)
<1>1. /\ b \in Seq(S) /\ Head(a) \in S /\ 1 \in DOMAIN a /\ Head(a) = a[1]
      /\ Len(a) \in Nat /\ DOMAIN a = 1 .. Len(a) /\ DOMAIN b = 1 .. (Len(a) - 1)
      /\ \A i \in DOMAIN b : b[i] = a[i + 1]
  OBVIOUS
<1> HIDE DEF b
<1>2. \A i \in DOMAIN b : i + 1 \in DOMAIN a /\ b[i] = a[i + 1] /\ 1 < i + 1
  BY <1>1
<1>3. \A i \in DOMAIN a : i = 1 \/ (i - 1 \in DOMAIN b /\ b[i - 1] = a[i])
  BY <1>1
<1>4. ToSet(a) = {Head(a)} \cup ToSet(b)
  BY <1>1, <1>2, <1>3 DEF ToSet
<1> QED BY <1>1, <1>2, <1>4 DEF b

(* An order survives that the first step is done ...                        *)
LEMMA OrderOfTail ==
    ASSUME NEW S, NEW a \in Seq(S), a # <<>>, Ordered(a)
    PROVE  Ordered(Tail(a)) /\ \A s \in ToSet(Tail(a)) : Follows(Head(a), s)
<1>1. /\ Tail(a) \in Seq(S) /\ 1 \in DOMAIN a /\ Head(a) = a[1]
      /\ \A i \in DOMAIN Tail(a) : i + 1 \in DOMAIN a /\ Tail(a)[i] = a[i + 1] /\ 1 < i + 1
  BY TailOf
<1> DEFINE b == Tail(a)
<1>2. \A i, j \in DOMAIN b : i < j => i + 1 < j + 1
  BY <1>1
<1> HIDE DEF b
<1>3. Ordered(b)
  BY <1>1, <1>2 DEF Ordered, b
<1>4. \A s \in ToSet(b) : Follows(Head(a), s)
  BY <1>1 DEF Ordered, ToSet, b
<1> QED BY <1>3, <1>4 DEF b

(* ... and that steps come before it which allow all of it.                 *)
LEMMA OrderOfConcatenated ==
    ASSUME NEW S, NEW a \in Seq(S), NEW b \in Seq(S), Ordered(a), Ordered(b),
           \A s \in ToSet(a), r \in ToSet(b) : Follows(s, r)
    PROVE  Ordered(a \o b)
<1> DEFINE c == a \o b
<1> SUFFICES ASSUME NEW i \in DOMAIN c, NEW j \in DOMAIN c, i < j  PROVE Follows(c[i], c[j])
  BY DEF Ordered
<1>1. \A k \in DOMAIN c :
         \/ k \in DOMAIN a /\ c[k] = a[k]
         \/ k - Len(a) \in DOMAIN b /\ c[k] = b[k - Len(a)] /\ k > Len(a)
  BY Concatenated
<1>2. /\ Len(a) \in Nat /\ i \in Nat /\ j \in Nat /\ DOMAIN a = 1 .. Len(a)
  <2>1. c \in Seq(S)
    BY Concatenated
  <2> HIDE DEF c
  <2> QED BY <2>1
<1> HIDE DEF c
<1>3. CASE i \in DOMAIN a /\ c[i] = a[i] /\ j \in DOMAIN a /\ c[j] = a[j]
  BY <1>3 DEF Ordered
<1>4. CASE i \in DOMAIN a /\ c[i] = a[i] /\ j - Len(a) \in DOMAIN b /\ c[j] = b[j - Len(a)]
  BY <1>4 DEF ToSet
<1>5. CASE /\ i - Len(a) \in DOMAIN b /\ c[i] = b[i - Len(a)]
           /\ j - Len(a) \in DOMAIN b /\ c[j] = b[j - Len(a)]
  <2>1. i - Len(a) < j - Len(a)
    BY <1>2
  <2> QED BY <1>5, <2>1 DEF Ordered
<1>6. CASE i > Len(a) /\ j \in DOMAIN a
  BY <1>2, <1>6
<1> QED BY <1>1, <1>3, <1>4, <1>5, <1>6

(* The program's texts.                                                     *)
Scripts ==
    {Main, Exit("join_manager"), Exit("join_nobody"), worker_thread, loop_thread,
     posix_signal_handler, Turn("manager"), Turn("main"),
     <<"write", "test", "opening", "create", "stopping", "walk", "eintr", "give_up">>}

LEMMA ScriptsTyped == \A s \in Scripts : s \in Seq(Steps) /\ ToSet(s) \subseteq Steps
<1>1. Steps = UNION {ToSet(s) : s \in Scripts}
  BY DEF Steps, Scripts
<1> DEFINE A == {"config", "socket", "log", "open", "spawn", "check", "join", "stop", "destroy",
                 "free_queues", "join_manager", "join_nobody", "stop_logger", "free_logger",
                 "return_from_main", "set_is_run", "return", "build", "poll", "serve", "el_run",
                 "write", "test", "opening", "create", "stopping", "walk", "eintr", "give_up"}
<1>2. \A s \in Scripts : s \in Seq(A)
  <2>1. Main \in Seq(A)
    <3>1. /\ <<"config", "socket", "log", "open", "spawn">> \in Seq(A)
          /\ <<"log", "check", "log">> \in Seq(A)
      OBVIOUS
    <3> QED BY <3>1, ConcatProperties DEF Main, worker_thread
  <2>2. \A join \in {"join_manager", "join_nobody"} : Exit(join) \in Seq(A)
    BY DEF Exit
  <2>3. worker_thread \in Seq(A) /\ loop_thread \in Seq(A)
    BY DEF worker_thread, loop_thread
  <2>4. posix_signal_handler \in Seq(A)
    BY DEF posix_signal_handler
  <2>5. Turn("manager") \in Seq(A) /\ Turn("main") \in Seq(A)
    BY DEF Turn
  <2>6. <<"write", "test", "opening", "create", "stopping", "walk", "eintr", "give_up">> \in Seq(A)
    OBVIOUS
  <2> QED BY <2>1, <2>2, <2>3, <2>4, <2>5, <2>6 DEF Scripts
<1>3. \A s \in Scripts : ToSet(s) \subseteq Steps
  BY <1>1
<1>4. ASSUME NEW s \in Scripts  PROVE s \in Seq(Steps)
  <2>1. s \in Seq(A) /\ \A i \in DOMAIN s : s[i] \in Steps
    BY <1>2, <1>3 DEF ToSet
  <2> QED BY <2>1
<1> QED BY <1>3, <1>4

(* A text without ranks.                                                    *)
Free(text) == \A s \in ToSet(text) : Rank(s) = 0

LEMMA FreeOrdered == ASSUME NEW text, Free(text) PROVE Ordered(text) /\ Ranked(text) = {}
BY DEF Free, Ordered, Follows, Ranked, ToSet

(* The texts that come before others.                                       *)
LEMMA TextsTyped ==
    /\ \A s \in {<<>>, <<"write">>, <<"test">>, <<"log">>, <<"stopping">>, <<"walk">>, <<"eintr">>,
                 <<"log", "give_up">>, Turn("manager"), Turn("main"), posix_signal_handler,
                 loop_thread, worker_thread} :
         s \in Seq(Steps) /\ Free(s)
    /\ \A s \in {<<>>, <<"test">>, <<"log">>, <<"stopping">>, <<"walk">>, <<"eintr">>,
                 <<"log", "give_up">>, Turn("manager"), Turn("main"), posix_signal_handler,
                 loop_thread, worker_thread} :
         "write" \notin ToSet(s)
    /\ <<"opening", "create">> \in Seq(Steps)
    /\ \A join \in {"join_manager", "join_nobody"} : <<"log">> \o Exit(join) \in Seq(Steps)
<1>1. {"write", "test", "opening", "create", "stopping", "walk", "eintr", "give_up", "log"} \subseteq Steps
  <2> DEFINE s == <<"write", "test", "opening", "create", "stopping", "walk", "eintr", "give_up">>
  <2>1. ToSet(s) \subseteq Steps /\ ToSet(worker_thread) \subseteq Steps
    BY ScriptsTyped DEF Scripts
  <2>2. {"write", "test", "opening", "create", "stopping", "walk", "eintr", "give_up"} \subseteq ToSet(s)
    <3>1. DOMAIN s = 1 .. 8
      OBVIOUS
    <3>2. /\ "write" = s[1] /\ "test" = s[2] /\ "opening" = s[3] /\ "create" = s[4]
          /\ "stopping" = s[5] /\ "walk" = s[6] /\ "eintr" = s[7] /\ "give_up" = s[8]
      OBVIOUS
    <3> HIDE DEF s
    <3> QED BY <3>1, <3>2 DEF ToSet
  <2>3. "log" \in ToSet(worker_thread)
    <3>1. 1 \in DOMAIN worker_thread /\ worker_thread[1] = "log"
      BY DEF worker_thread
    <3> QED BY <3>1 DEF ToSet
  <2> HIDE DEF s
  <2> QED BY <2>1, <2>2, <2>3
<1> HIDE DEF Steps
<1>2. \A x \in Steps : <<x>> \in Seq(Steps) /\ ToSet(<<x>>) = {x}
  BY DEF ToSet
<1>3. <<>> \in Seq(Steps) /\ ToSet(<<>>) = {}
  BY DEF ToSet
<1>4. \A x, y \in Steps : <<x, y>> \in Seq(Steps) /\ ToSet(<<x, y>>) = {x, y}
  <2> SUFFICES ASSUME NEW x \in Steps, NEW y \in Steps
               PROVE  <<x, y>> \in Seq(Steps) /\ ToSet(<<x, y>>) = {x, y}
    OBVIOUS
  <2>1. <<x, y>> \in Seq(Steps) /\ DOMAIN <<x, y>> = {1, 2}
    OBVIOUS
  <2> QED BY <2>1 DEF ToSet
<1>5. /\ Turn("manager") \in Seq(Steps) /\ Turn("main") \in Seq(Steps)
      /\ posix_signal_handler \in Seq(Steps) /\ loop_thread \in Seq(Steps)
      /\ worker_thread \in Seq(Steps)
      /\ \A join \in {"join_manager", "join_nobody"} : Exit(join) \in Seq(Steps)
  BY ScriptsTyped DEF Scripts
<1>6. /\ ToSet(Turn("manager")) \subseteq {"build", "poll", "serve", "check"}
      /\ ToSet(Turn("main")) \subseteq {"el_run", "check"}
      /\ ToSet(posix_signal_handler) \subseteq {"log", "stop", "return"}
      /\ ToSet(loop_thread) \subseteq {"set_is_run", "check"}
      /\ ToSet(worker_thread) \subseteq {"check", "log"}
  BY DEF Turn, posix_signal_handler, loop_thread, worker_thread, ToSet
<1>7. \A join \in {"join_manager", "join_nobody"} : <<"log">> \o Exit(join) \in Seq(Steps)
  BY <1>1, <1>2, <1>5, ConcatProperties
<1>8. \A s \in {"write", "test", "log", "stopping", "walk", "eintr", "give_up", "build", "poll", "serve",
                "check", "el_run", "stop", "return", "set_is_run"} : Rank(s) = 0
  BY DEF Rank
<1>9. \A s \in {<<>>, <<"write">>, <<"test">>, <<"log">>, <<"stopping">>, <<"walk">>, <<"eintr">>,
                <<"log", "give_up">>} : s \in Seq(Steps) /\ Free(s)
  <2>1. \A x \in {"write", "test", "log", "stopping", "walk", "eintr"} :
          <<x>> \in Seq(Steps) /\ Free(<<x>>)
    BY <1>1, <1>2, <1>8 DEF Free
  <2>2. <<>> \in Seq(Steps) /\ Free(<<>>)
    BY <1>3 DEF Free
  <2>3. <<"log", "give_up">> \in Seq(Steps) /\ Free(<<"log", "give_up">>)
    BY <1>1, <1>4, <1>8 DEF Free
  <2> QED BY <2>1, <2>2, <2>3
<1>10. \A s \in {Turn("manager"), Turn("main"), posix_signal_handler, loop_thread, worker_thread} :
         s \in Seq(Steps) /\ Free(s) /\ "write" \notin ToSet(s)
  <2>1. \A s \in {Turn("manager"), Turn("main"), posix_signal_handler, loop_thread, worker_thread} :
          \A x \in ToSet(s) : Rank(x) = 0 /\ x # "write"
    BY <1>6, <1>8
  <2> QED BY <1>5, <2>1 DEF Free
<1>11. \A s \in {<<>>, <<"test">>, <<"log">>, <<"stopping">>, <<"walk">>, <<"eintr">>,
                 <<"log", "give_up">>} : "write" \notin ToSet(s)
  <2>1. \A x \in {"test", "log", "stopping", "walk", "eintr"} : "write" \notin ToSet(<<x>>)
    BY <1>1, <1>2
  <2>2. "write" \notin ToSet(<<>>) /\ "write" \notin ToSet(<<"log", "give_up">>)
    BY <1>1, <1>3, <1>4
  <2> QED BY <2>1, <2>2
<1>12. <<"opening", "create">> \in Seq(Steps)
  BY <1>1, <1>4
<1> QED BY <1>7, <1>9, <1>10, <1>11, <1>12

-----------------------------------------------------------------------------
(* Steps that change texts.                                                 *)

LEMMA ThreadsApart ==
    /\ "main" \in Threads /\ "manager" \in Threads /\ "logger" \in Threads
    /\ \A w \in Workers : w \in Threads /\ w \notin {"main", "manager", "logger"}
    /\ \A t \in Threads : t # NULL
BY ShutdownAssumption DEF Threads

(* A thread that runs does or begins something that has no rank.            *)
LEMMA Goes ==
    ASSUME Texts, Joined, Freed,
           NEW t \in Threads, todo[t] # <<>> \/ (t = "logger" /\ logger \notin {"gone", "freed"}),
           NEW text \in Seq(Steps), Free(text), NEW rest \in Seq(Steps),
           todo' = [todo EXCEPT ![t] = text \o rest],
           t = "main" => rest = todo[t] \/ (rest = Tail(todo[t]) /\ Rank(Head(todo[t])) = 0),
           logger = "freed" => "write" \notin ToSet(text),
           UNCHANGED <<loop, logger>>, process' = "ended" => process = "ended"
    PROVE  Texts' /\ Joined' /\ Freed'
<1>1. /\ todo' \in [Threads -> Seq(Steps)] /\ \A u \in Threads : u # t => todo'[u] = todo[u]
      /\ todo[t] \in Seq(Steps) /\ todo'[t] = text \o rest
  BY Concatenated DEF Texts
<1>2. /\ Ordered(todo'["main"]) /\ Plan' = Plan
      /\ "write" \in ToSet(todo'["main"]) => "write" \in ToSet(text) \cup ToSet(todo["main"])
  <2>1. CASE t # "main"
    BY <1>1, <2>1, ThreadsApart DEF Texts, Plan, Ranked
  <2>2. CASE t = "main"
    <3>1. /\ Ordered(rest) /\ Ranked(rest) = Plan /\ ToSet(rest) \subseteq ToSet(todo["main"])
      <4>1. CASE rest = todo["main"]
        BY <4>1 DEF Texts, Plan
      <4>2. CASE rest = Tail(todo["main"]) /\ Rank(Head(todo["main"])) = 0
        <5>1. todo["main"] # <<>> /\ Ordered(todo["main"])
          BY <2>2, ThreadsApart DEF Texts
        <5>2. Ordered(rest) /\ ToSet(todo["main"]) = {Head(todo["main"])} \cup ToSet(rest)
          BY <1>1, <2>2, <4>2, <5>1, OrderOfTail, TailOf
        <5> QED BY <4>2, <5>2 DEF Plan, Ranked
      <4> QED BY <2>2, <4>1, <4>2
    <3>2. Ordered(text \o rest)
      <4>1. \A s \in ToSet(text), r \in ToSet(rest) : Follows(s, r)
        BY DEF Free, Follows
      <4> QED BY <3>1, <4>1, FreeOrdered, OrderOfConcatenated
    <3>3. ToSet(text \o rest) = ToSet(text) \cup ToSet(rest)
      BY Concatenated
    <3>4. todo'["main"] = text \o rest
      BY <1>1, <2>2
    <3>5. Plan' = Ranked(todo'["main"])
      BY DEF Plan
    <3>6. Ranked(text \o rest) = Ranked(rest)
      BY <3>3 DEF Ranked, Free
    <3> QED BY <3>1, <3>2, <3>3, <3>4, <3>5, <3>6
  <2> QED BY <2>1, <2>2
<1>3. Texts'
  BY <1>1, <1>2 DEF Texts
<1>4. \A k : Beyond(k)' <=> Beyond(k)
  BY <1>2 DEF Beyond
<1>5. Joined'
  <2>1. \A w \in Workers : todo'[w] # <<>> => todo[w] # <<>>
    BY <1>1, ThreadsApart
  <2>2. todo'["manager"] # <<>> => todo["manager"] # <<>>
    BY <1>1, ThreadsApart
  <2> QED BY <1>2, <2>1, <2>2 DEF Joined, Beyond
<1>6. Freed'
  <2>1. logger \in {"gone", "freed"} => todo'["logger"] = <<>>
    BY <1>1, ThreadsApart DEF Freed
  <2> QED BY <1>2, <2>1 DEF Freed, Beyond
<1> QED BY <1>3, <1>5, <1>6

(* The first step of a thread, and what Goes says of it.                    *)
LEMMA ThenGoes ==
    ASSUME IInv, NEW t \in Threads, NEW step, At(t, step), Rank(step) = 0,
           NEW text \in Seq(Steps), Free(text), Then(t, text),
           logger = "freed" => "write" \notin ToSet(text),
           UNCHANGED <<loop, logger>>, process' = "ended" => process = "ended"
    PROVE  Texts' /\ Joined' /\ Freed'
<1>1. todo[t] \in Seq(Steps) /\ todo[t] # <<>> /\ Head(todo[t]) = step
  BY DEF At, IInv, Texts
<1>2. Tail(todo[t]) \in Seq(Steps)
  BY <1>1, TailOf
<1>3. todo' = [todo EXCEPT ![t] = text \o Tail(todo[t])]
  BY <1>1 DEF Then, IInv, Texts
<1> QED BY <1>1, <1>2, <1>3, Goes DEF IInv

LEMMA DoneGoes ==
    ASSUME IInv, NEW t \in Threads, NEW step, At(t, step), Rank(step) = 0, Done(t),
           UNCHANGED <<loop, logger>>, process' = "ended" => process = "ended"
    PROVE  Texts' /\ Joined' /\ Freed'
<1>1. <<>> \in Seq(Steps) /\ Free(<<>>) /\ "write" \notin ToSet(<<>>)
  BY TextsTyped
<1> QED BY <1>1, ThenGoes DEF Done

(* Main does a step that has a rank.                                        *)
LEMMA Advances ==
    ASSUME IInv, NEW step, At("main", step), Rank(step) > 0
    PROVE  /\ todo["main"] \in Seq(Steps) /\ Tail(todo["main"]) \in Seq(Steps) /\ todo["main"] # <<>>
           /\ Ordered(Tail(todo["main"])) /\ step \in Plan
           /\ Plan = {step} \cup Ranked(Tail(todo["main"]))
           /\ \A s \in ToSet(Tail(todo["main"])) : Follows(step, s)
           /\ "write" \notin ToSet(Tail(todo["main"]))
<1> DEFINE m == todo["main"]
<1>1. m \in Seq(Steps) /\ m # <<>> /\ Head(m) = step /\ Ordered(m)
  BY ThreadsApart DEF At, IInv, Texts
<1>2. /\ Tail(m) \in Seq(Steps) /\ ToSet(m) = {step} \cup ToSet(Tail(m))
      /\ Ordered(Tail(m)) /\ \A s \in ToSet(Tail(m)) : Follows(step, s)
  BY <1>1, TailOf, OrderOfTail
<1>3. Plan = Ranked(m)
  BY DEF Plan
<1> HIDE DEF m
<1>4. Ranked(m) = {step} \cup Ranked(Tail(m))
  BY <1>2 DEF Ranked
<1>5. "write" \notin ToSet(Tail(m))
  BY <1>2 DEF Follows
<1> QED BY <1>1, <1>2, <1>3, <1>4, <1>5 DEF m

LEMMA MainDone ==
    ASSUME IInv, NEW step, At("main", step), Rank(step) > 0, Done("main")
    PROVE  /\ Texts' /\ step \in Plan
           /\ Plan' \subseteq Plan /\ Plan \subseteq Plan' \cup {step}
           /\ \A s \in Plan' : Rank(s) > Rank(step) \/ (step = "opening" /\ s = "create")
           /\ "write" \notin ToSet(todo'["main"])
           /\ \A t \in Threads : t # "main" => todo'[t] = todo[t]
<1> DEFINE rest == Tail(todo["main"])
<1>1. /\ rest \in Seq(Steps) /\ Ordered(rest) /\ step \in Plan /\ Plan = {step} \cup Ranked(rest)
      /\ \A s \in ToSet(rest) : Follows(step, s)
      /\ "write" \notin ToSet(rest)
  BY Advances
<1>2. todo \in [Threads -> Seq(Steps)] /\ todo' = [todo EXCEPT !["main"] = <<>> \o rest]
  BY DEF IInv, Texts, Done, Then
<1>3. <<>> \o rest = rest
  BY <1>1, ConcatEmptySeq
<1> HIDE DEF rest
<1>4. /\ todo'["main"] = rest /\ todo' \in [Threads -> Seq(Steps)]
      /\ \A t \in Threads : t # "main" => todo'[t] = todo[t]
  BY <1>1, <1>2, <1>3, ThreadsApart
<1>5. Plan' = Ranked(rest)
  BY <1>4 DEF Plan
<1>6. \A s \in Ranked(rest) : Rank(s) > Rank(step) \/ (step = "opening" /\ s = "create")
  BY <1>1 DEF Follows, Ranked
<1>7. Texts'
  BY <1>1, <1>4 DEF Texts
<1> QED BY <1>1, <1>4, <1>5, <1>6, <1>7

-----------------------------------------------------------------------------
(* The steps of any thread.                                                 *)

(* A step that is not the logger's or a message's.                          *)
LEMMA LoggerSame ==
    ASSUME IInv, UNCHANGED logVars
    PROVE  /\ Kept' /\ UNCHANGED logger
           /\ (/\ mutex' \in [Mutexes -> Threads \cup {NULL}] /\ destroyed' \subseteq Mutexes
               /\ is_run' \in BOOLEAN /\ loop' \in LoopStates
               /\ signals' \in 0 .. MaxSignals /\ process' \in Ends) => Typed'
BY DEF logVars, IInv, Kept, Typed

(* A process that ends in a fault.                                          *)
LEMMA FaultKeeps ==
    ASSUME IInv, Fault, UNCHANGED <<todo, logVars>>, loop' = loop,
           mutex' \in [Mutexes -> Threads \cup {NULL}],
           UNCHANGED <<destroyed, is_run, signals>>
    PROVE  IInv'
<1>1. Texts' /\ Joined'
  BY DEF IInv, Texts, Joined, Plan, Beyond
<1>2. Freed'
  BY DEF IInv, Freed, Plan, Beyond, Fault, logVars
<1>3. Kept' /\ Typed'
  <2>1. process' \in Ends
    BY DEF Fault, Ends
  <2> QED BY <2>1, LoggerSame DEF IInv, Typed
<1> QED BY <1>1, <1>2, <1>3 DEF IInv

LEMMA LockTyped ==
    ASSUME Typed, NEW t \in Threads, NEW m \in Mutexes
    PROVE  /\ Locks(t, m) => mutex' \in [Mutexes -> Threads \cup {NULL}]
           /\ Unlocks(m) => mutex' \in [Mutexes -> Threads \cup {NULL}]
BY DEF Typed, Locks, Unlocks

LEMMA LogKeeps == ASSUME IInv, NEW t \in Threads, Log(t) PROVE IInv'
<1>1. CASE logger # "freed" /\ LockMessages(t) /\ Then(t, <<"write">>) /\ UNCHANGED process
  <2>1. At(t, "log") /\ Rank("log") = 0 /\ <<"write">> \in Seq(Steps) /\ Free(<<"write">>)
    BY TextsTyped DEF Log, Rank
  <2>2. /\ UNCHANGED <<messages, batch, printed, written, logger, log_is_run, mutex, destroyed,
                       is_run, loop, signals, process>>
        /\ mutex_messages' = t
    BY <1>1 DEF Log, LockMessages, loopVars
  <2>3. Texts' /\ Joined' /\ Freed'
    BY <1>1, <2>1, <2>2, ThenGoes
  <2>4. Typed' /\ Kept'
    BY <2>2 DEF IInv, Typed, Kept
  <2> QED BY <2>3, <2>4 DEF IInv
<1>2. CASE Fault /\ UNCHANGED <<logVars, todo>>
  BY <1>2, FaultKeeps DEF Log, loopVars, IInv, Typed
<1> QED BY <1>1, <1>2 DEF Log

(* No message is written when the logger is freed.                          *)
LEMMA WriteKeeps == ASSUME IInv, NEW t \in Threads, Write(t) PROVE IInv'
<1>1. /\ At(t, "write") /\ Rank("write") = 0 /\ log_write(t) /\ Done(t)
      /\ UNCHANGED <<mutex, destroyed, is_run, loop, signals, process>>
  BY DEF Write, Rank, loopVars
<1>2. Texts' /\ Joined' /\ Freed'
  BY <1>1, DoneGoes DEF log_write
<1>3. logger # "freed"
  <2> SUFFICES ASSUME logger = "freed"  PROVE FALSE
    OBVIOUS
  <2>1. Beyond(9) /\ "write" \notin ToSet(todo["main"]) /\ todo["logger"] = <<>>
    BY DEF IInv, Freed
  <2>2. "join" \notin Plan /\ "join_manager" \notin Plan
    BY <2>1 DEF Beyond, Rank
  <2>3. todo["manager"] = <<>> /\ \A w \in Workers : todo[w] = <<>>
    BY <2>2 DEF IInv, Joined
  <2>4. t = "main"
    BY <1>1, <2>1, <2>3 DEF At, Threads
  <2>5. todo[t] \in Seq(Steps) /\ todo[t] # <<>> /\ Head(todo[t]) = "write"
    BY <1>1 DEF At, IInv, Texts
  <2>6. "write" \in ToSet(todo[t])
    BY <2>5, TailOf
  <2> QED BY <2>1, <2>4, <2>6
<1>4. /\ written \in [Threads -> Nat] /\ written[t] + 1 \in Nat \ {0}
      /\ written' = [written EXCEPT ![t] = @ + 1]
      /\ messages' = messages \cup {<<t, written[t] + 1>>} /\ mutex_messages' = NULL
      /\ UNCHANGED <<batch, printed, logger, log_is_run>>
  BY <1>1 DEF log_write, IInv, Typed
<1>5. Kept'
  <2>1. ASSUME NEW u \in Threads, NEW n \in 1 .. written'[u]
        PROVE  <<u, n>> \in messages' \cup batch' \cup printed'
    <3>1. CASE u = t /\ n = written[t] + 1
      BY <1>4, <3>1
    <3>2. CASE ~(u = t /\ n = written[t] + 1)
      <4>1. n \in 1 .. written[u]
        BY <1>4, <3>2
      <4> QED BY <1>4, <4>1 DEF IInv, Kept
    <3> QED BY <3>1, <3>2
  <2> QED BY <1>3, <1>4, <2>1 DEF IInv, Kept
<1>6. Typed'
  <2>1. <<t, written[t] + 1>> \in Message
    BY <1>4 DEF Message
  <2>2. messages' \subseteq Message /\ written' \in [Threads -> Nat]
    BY <1>4, <2>1 DEF IInv, Typed
  <2> QED BY <1>1, <1>4, <2>2 DEF IInv, Typed
<1> QED BY <1>2, <1>5, <1>6 DEF IInv

LEMMA CheckKeeps == ASSUME IInv, NEW t \in Threads, Check(t) PROVE IInv'
<1>1. /\ At(t, "check") /\ Rank("check") = 0
      /\ UNCHANGED <<logVars, destroyed, is_run, loop, signals, process>>
  BY DEF Check, Rank
<1>2. Texts' /\ Joined' /\ Freed'
  BY <1>1, ThenGoes, DoneGoes, TextsTyped DEF Check, logVars
<1>3. mutex' \in [Mutexes -> Threads \cup {NULL}]
  BY LockTyped DEF Check, Mutexes, IInv, Typed
<1>4. Kept' /\ Typed'
  BY <1>1, <1>3, LoggerSame DEF IInv, Typed
<1> QED BY <1>2, <1>4 DEF IInv

LEMMA TestKeeps == ASSUME IInv, NEW t \in Threads, Test(t) PROVE IInv'
<1>1. /\ At(t, "test") /\ Rank("test") = 0 /\ Then(t, IF is_run THEN Turn(t) ELSE <<>>)
      /\ UNCHANGED <<logVars, destroyed, is_run, loop, signals, process>>
  BY DEF Test, Rank
<1>2. PICK text \in {<<>>, Turn("manager"), Turn("main")} : Then(t, text)
  BY <1>1 DEF Turn
<1>3. Texts' /\ Joined' /\ Freed'
  BY <1>1, <1>2, ThenGoes, TextsTyped DEF logVars
<1>4. mutex' \in [Mutexes -> Threads \cup {NULL}]
  BY LockTyped DEF Test, Mutexes, IInv
<1>5. Kept' /\ Typed'
  BY <1>1, <1>4, LoggerSame DEF IInv, Typed
<1> QED BY <1>3, <1>5 DEF IInv

LEMMA ElRunKeeps == ASSUME IInv, NEW t \in Threads, ElRun(t) PROVE IInv'
<1>1. /\ At(t, "el_run") /\ Rank("el_run") = 0
      /\ UNCHANGED <<logVars, mutex, destroyed, is_run, loop, signals, process>>
      /\ Done(t) \/ Then(t, <<"log">>)
  BY DEF ElRun, Rank, loopVars
<1>2. Texts' /\ Joined' /\ Freed'
  BY <1>1, ThenGoes, DoneGoes, TextsTyped DEF logVars
<1>3. Kept' /\ Typed'
  BY <1>1, LoggerSame DEF IInv, Typed
<1> QED BY <1>2, <1>3 DEF IInv

LEMMA StopKeeps == ASSUME IInv, NEW t \in Threads, Stop(t) PROVE IInv'
<1>1. /\ At(t, "stop") /\ Rank("stop") = 0 /\ UNCHANGED <<logVars, destroyed, is_run, loop, signals>>
  BY DEF Stop, Rank
<1>2. CASE Fault /\ UNCHANGED <<todo, mutex>>
  BY <1>1, <1>2, FaultKeeps DEF IInv, Typed
<1>3. CASE /\ (Locks(t, "is_run") /\ Then(t, <<"stopping">>)) \/ (Then(t, <<"log">>) /\ UNCHANGED mutex)
           /\ UNCHANGED process
  <2>1. Texts' /\ Joined' /\ Freed'
    BY <1>1, <1>3, ThenGoes, TextsTyped DEF logVars
  <2>2. mutex' \in [Mutexes -> Threads \cup {NULL}]
    BY <1>3, LockTyped DEF Mutexes, IInv, Typed
  <2>3. Kept' /\ Typed'
    BY <1>1, <1>3, <2>2, LoggerSame DEF IInv, Typed
  <2> QED BY <2>1, <2>3 DEF IInv
<1> QED BY <1>2, <1>3 DEF Stop

LEMMA StoppingKeeps == ASSUME IInv, NEW t \in Threads, Stopping(t) PROVE IInv'
<1>1. /\ At(t, "stopping") /\ Rank("stopping") = 0 /\ Done(t) /\ is_run' = FALSE
      /\ UNCHANGED <<logVars, destroyed, loop, signals, process>>
  BY DEF Stopping, Rank
<1>2. Texts' /\ Joined' /\ Freed'
  BY <1>1, DoneGoes DEF logVars
<1>3. mutex' \in [Mutexes -> Threads \cup {NULL}]
  BY LockTyped DEF Stopping, Mutexes, IInv
<1>4. Kept' /\ Typed'
  BY <1>1, <1>3, LoggerSame DEF IInv, Typed
<1> QED BY <1>2, <1>4 DEF IInv

LEMMA ReturnFromHandlerKeeps == ASSUME IInv, NEW t \in Threads, ReturnFromHandler(t) PROVE IInv'
<1>1. /\ At(t, "return") /\ Rank("return") = 0 /\ Done(t)
      /\ UNCHANGED <<logVars, mutex, destroyed, is_run, loop, signals, process>>
  BY DEF ReturnFromHandler, Rank, loopVars
<1>2. Texts' /\ Joined' /\ Freed'
  BY <1>1, DoneGoes DEF logVars
<1>3. Kept' /\ Typed'
  BY <1>1, LoggerSame DEF IInv, Typed
<1> QED BY <1>2, <1>3 DEF IInv

(* The handler comes before whatever the thread was doing.                  *)
LEMMA SignalKeeps == ASSUME IInv, NEW t \in Threads, Signal(t) PROVE IInv'
<1>1. /\ process = "up" /\ Alive(t) /\ signals' = signals - 1 /\ signals > 0
      /\ UNCHANGED <<logVars, mutex, destroyed, is_run, loop, process>>
  BY DEF Signal, loopVars
<1>2. /\ todo[t] \in Seq(Steps) /\ todo \in [Threads -> Seq(Steps)]
      /\ posix_signal_handler \in Seq(Steps) /\ <<"eintr">> \in Seq(Steps)
      /\ Free(posix_signal_handler) /\ Free(<<"eintr">>)
      /\ "write" \notin ToSet(posix_signal_handler) /\ "write" \notin ToSet(<<"eintr">>)
  BY TextsTyped DEF IInv, Texts
<1>3. PICK text \in Seq(Steps) :
        /\ Free(text) /\ "write" \notin ToSet(text)
        /\ todo' = [todo EXCEPT ![t] = text \o todo[t]]
  <2>1. CASE ~At(t, "poll")
    <3>1. todo' = [todo EXCEPT ![t] = posix_signal_handler \o todo[t]]
      BY <1>2, <2>1 DEF Signal
    <3> QED BY <1>2, <3>1
  <2>2. CASE At(t, "poll")
    <3> DEFINE text == posix_signal_handler \o <<"eintr">>
    <3>1. text \in Seq(Steps) /\ ToSet(text) = ToSet(posix_signal_handler) \cup ToSet(<<"eintr">>)
      BY <1>2, StepsBefore, Zenon
    <3>2. posix_signal_handler \o (<<"eintr">> \o todo[t]) = text \o todo[t]
      BY <1>2, ConcatAssociative
    <3>3. todo' = [todo EXCEPT ![t] = posix_signal_handler \o (<<"eintr">> \o todo[t])]
      BY <1>2, <2>2 DEF Signal
    <3>4. Free(text) /\ "write" \notin ToSet(text)
      BY <1>2, <3>1 DEF Free
    <3> HIDE DEF text
    <3> QED BY <3>1, <3>2, <3>3, <3>4
  <2> QED BY <2>1, <2>2
<1>4. Texts' /\ Joined' /\ Freed'
  BY <1>1, <1>2, <1>3, Goes DEF Alive, IInv, logVars
<1>5. signals' \in 0 .. MaxSignals
  BY <1>1, ShutdownAssumption DEF IInv, Typed
<1>6. Kept' /\ Typed'
  BY <1>1, <1>5, LoggerSame DEF IInv, Typed
<1> QED BY <1>4, <1>6 DEF IInv

LEMMA ThreadKeeps == ASSUME IInv, NEW t \in Threads, ThreadStep(t) \/ Signal(t) PROVE IInv'
BY LogKeeps, WriteKeeps, CheckKeeps, TestKeeps, ElRunKeeps, StopKeeps, StoppingKeeps,
   ReturnFromHandlerKeeps, SignalKeeps DEF ThreadStep

-----------------------------------------------------------------------------
(* The manager, whose text has no ranks.                                    *)

LEMMA ManagerGoes ==
    ASSUME IInv, todo["manager"] # <<>>, NEW rest \in Seq(Steps),
           todo' = [todo EXCEPT !["manager"] = rest],
           UNCHANGED <<logVars, loop, process>>
    PROVE  Texts' /\ Joined' /\ Freed'
<1>1. <<>> \in Seq(Steps) /\ Free(<<>>) /\ "write" \notin ToSet(<<>>) /\ <<>> \o rest = rest
  BY TextsTyped, ConcatEmptySeq
<1>2. todo' = [todo EXCEPT !["manager"] = <<>> \o rest]
  BY <1>1
<1> QED BY <1>1, <1>2, ThreadsApart, Goes DEF IInv, logVars

LEMMA ManagerKeeps == ASSUME IInv, ManagerStep PROVE IInv'
<1>1. ASSUME At("manager", "walk"), Fault, UNCHANGED <<todo, mutex, logVars, destroyed, is_run, loop, signals>>
      PROVE  IInv'
  BY <1>1, FaultKeeps DEF IInv, Typed
<1>2. ASSUME NEW step, At("manager", step), Rank(step) = 0, UNCHANGED <<logVars, destroyed, loop, signals, process>>,
             mutex' \in [Mutexes -> Threads \cup {NULL}], is_run' \in BOOLEAN,
             \/ Done("manager") \/ Then("manager", <<"walk">>)
             \/ \E rest \in Seq(Steps) : todo' = [todo EXCEPT !["manager"] = rest]
      PROVE  IInv'
  <2>1. todo["manager"] # <<>>
    BY <1>2 DEF At
  <2>2. UNCHANGED <<loop, logger, process>>
    BY <1>2 DEF logVars
  <2>3. Texts' /\ Joined' /\ Freed'
    <3>1. CASE Done("manager")
      BY <1>2, <2>2, <3>1, DoneGoes, ThreadsApart
    <3>2. CASE Then("manager", <<"walk">>)
      BY <1>2, <2>2, <3>2, ThenGoes, ThreadsApart, TextsTyped
    <3>3. CASE \E rest \in Seq(Steps) : todo' = [todo EXCEPT !["manager"] = rest]
      BY <1>2, <2>1, <3>3, ManagerGoes
    <3> QED BY <1>2, <3>1, <3>2, <3>3
  <2>4. Kept' /\ Typed'
    BY <1>2, LoggerSame DEF IInv, Typed
  <2> QED BY <2>3, <2>4 DEF IInv
<1>3. \A s \in {"set_is_run", "build", "serve", "walk", "poll", "eintr"} : Rank(s) = 0
  BY DEF Rank
<1>4. /\ <<>> \in Seq(Steps) /\ <<"check">> \in Seq(Steps)
      /\ mutex \in [Mutexes -> Threads \cup {NULL}] /\ is_run \in BOOLEAN
      /\ todo["manager"] \in Seq(Steps) /\ todo \in [Threads -> Seq(Steps)]
  <2>1. "check" \in ToSet(worker_thread) /\ ToSet(worker_thread) \subseteq Steps
    <3>1. 2 \in DOMAIN worker_thread /\ worker_thread[2] = "check"
      BY DEF worker_thread
    <3> QED BY <3>1, ScriptsTyped DEF Scripts, ToSet
  <2>2. <<"check">> \in Seq(Steps)
    BY <2>1
  <2> QED BY <2>2, TextsTyped, ThreadsApart DEF IInv, Texts, Typed
<1>5. CASE SetIsRun
  BY <1>2, <1>3, <1>4, <1>5 DEF SetIsRun
<1>6. ASSUME NEW step \in {"build", "serve"}, LockRegistered(step)  PROVE IInv'
  <2>1. CASE Locks("manager", "registered") /\ Then("manager", <<"walk">>)
    <3>1. mutex' \in [Mutexes -> Threads \cup {NULL}]
      BY <2>1, LockTyped, ThreadsApart DEF Mutexes, IInv
    <3> QED BY <1>2, <1>3, <1>4, <1>6, <2>1, <3>1 DEF LockRegistered
  <2>2. CASE /\ todo' = [todo EXCEPT !["manager"] = IF step = "build" THEN Tail(@) ELSE <<>>]
             /\ UNCHANGED mutex
    <3>1. Tail(todo["manager"]) \in Seq(Steps)
      BY <1>4, <1>6, TailOf DEF LockRegistered, At
    <3>2. \E rest \in Seq(Steps) : todo' = [todo EXCEPT !["manager"] = rest]
      BY <1>4, <2>2, <3>1
    <3> QED BY <1>2, <1>3, <1>4, <1>6, <2>2, <3>2 DEF LockRegistered
  <2> QED BY <1>6, <2>1, <2>2 DEF LockRegistered
<1>7. CASE Walk
  <2>1. CASE Unlocks("registered") /\ Done("manager") /\ UNCHANGED process
    <3>1. mutex' \in [Mutexes -> Threads \cup {NULL}]
      BY <2>1, LockTyped, ThreadsApart DEF Mutexes, IInv
    <3> QED BY <1>2, <1>3, <1>4, <1>7, <2>1, <3>1 DEF Walk
  <2>2. CASE Fault /\ UNCHANGED <<todo, mutex>>
    BY <1>1, <1>7, <2>2 DEF Walk
  <2> QED BY <1>7, <2>1, <2>2 DEF Walk
<1>8. CASE Poll
  BY <1>2, <1>3, <1>4, <1>8 DEF Poll, loopVars
<1>9. CASE Interrupted
  BY <1>2, <1>3, <1>4, <1>9 DEF Interrupted, loopVars
<1> QED BY <1>5, <1>6, <1>7, <1>8, <1>9 DEF ManagerStep

-----------------------------------------------------------------------------
(* The logger's thread.                                                     *)

LEMMA LoggerKeeps == ASSUME IInv, RunLogger PROVE IInv'
<1>1. /\ process = "up" /\ todo["logger"] = <<>> /\ LoggerStep
      /\ UNCHANGED <<todo, mutex, destroyed, is_run, loop, signals, process>>
  BY DEF RunLogger, loopVars
<1>2. logger # "freed" /\ logger' # "freed" /\ UNCHANGED <<written, log_is_run>>
  BY <1>1 DEF LoggerStep, LockQueue, Extract, TimedWait, Awake, PrintBatch
<1>3. Texts' /\ Joined' /\ Freed'
  <2>1. Texts' /\ Joined'
    BY <1>1 DEF IInv, Texts, Joined, Plan, Beyond
  <2>2. Freed'
    BY <1>1, <1>2 DEF IInv, Freed, Plan, Beyond
  <2> QED BY <2>1, <2>2
<1>4. Typed'
  <2>1. /\ messages' \subseteq Message /\ batch' \subseteq Message /\ printed' \subseteq Message
    BY <1>1 DEF LoggerStep, LockQueue, Extract, TimedWait, Awake, PrintBatch, IInv, Typed
  <2>2. logger' \in LoggerControl /\ mutex_messages' \in Threads \cup {NULL}
    BY <1>1, ThreadsApart
       DEF LoggerStep, LockQueue, Extract, TimedWait, Awake, PrintBatch, LoggerControl, IInv, Typed
  <2> QED BY <1>1, <1>2, <2>1, <2>2 DEF IInv, Typed
<1>5. Kept'
  <2>1. messages \cup batch \cup printed \subseteq messages' \cup batch' \cup printed'
    BY <1>1 DEF LoggerStep, LockQueue, Extract, TimedWait, Awake, PrintBatch, IInv, Kept
  <2>2. logger' # "print" => batch' = {}
    BY <1>1 DEF LoggerStep, LockQueue, Extract, TimedWait, Awake, PrintBatch, IInv, Kept
  <2> QED BY <1>2, <2>1, <2>2 DEF IInv, Kept
<1> QED BY <1>3, <1>4, <1>5 DEF IInv

-----------------------------------------------------------------------------
(* Main.                                                                    *)

(* A step of main that only takes the step away.                            *)
LEMMA MainMoves ==
    ASSUME IInv, NEW step \in {"config", "socket", "opening", "free_queues", "join"},
           At("main", step), Done("main"), UNCHANGED logger, process' = process,
           loop' \in {"none", "made"} \/ (loop' = loop) \/ (step = "free_queues" /\ loop' = "closed"),
           step = "join" => \A w \in Workers : todo[w] = <<>>
    PROVE  Texts' /\ Joined' /\ Freed'
<1>1. Rank(step) > 0 /\ step \notin {"join_manager", "free_logger", "return_from_main"}
  BY DEF Rank
<1>2. /\ Texts' /\ step \in Plan
      /\ Plan' \subseteq Plan /\ Plan \subseteq Plan' \cup {step}
      /\ \A s \in Plan' : Rank(s) > Rank(step) \/ (step = "opening" /\ s = "create")
      /\ "write" \notin ToSet(todo'["main"])
      /\ \A t \in Threads : t # "main" => todo'[t] = todo[t]
  BY <1>1, MainDone
<1>3. todo'["manager"] = todo["manager"] /\ todo'["logger"] = todo["logger"]
      /\ \A w \in Workers : todo'[w] = todo[w]
  BY <1>2, ThreadsApart
<1>4. \A k \in Nat : Beyond(k) => Beyond(k)'
  BY <1>2 DEF Beyond
<1>5. /\ step = "free_queues" => Beyond(7)' /\ Rank(step) = 6
      /\ step = "join" => Beyond(5)' /\ Rank(step) = 5
      /\ step \in {"config", "socket", "opening"} => Rank(step) <= 3
  <2>1. /\ step = "free_queues" => Rank(step) = 6
        /\ step = "join" => Rank(step) = 5
        /\ step \in {"config", "socket", "opening"} => Rank(step) <= 3
    BY DEF Rank
  <2>2. \A s \in Plan' : Rank(s) \in Nat
    BY DEF Rank
  <2> QED BY <1>2, <2>1, <2>2 DEF Beyond
<1>6. Joined'
  <2>1. \A w \in Workers : todo'[w] # <<>> => "join" \in Plan' /\ Beyond(5)'
    BY <1>2, <1>3, <1>4 DEF IInv, Joined
  <2>2. todo'["manager"] # <<>> => "join_manager" \in Plan' /\ Beyond(4)'
    BY <1>1, <1>2, <1>3, <1>4 DEF IInv, Joined
  <2>3. Beyond(5)' \/ "join" \in Plan'
    BY <1>2, <1>4, <1>5 DEF IInv, Joined
  <2>4. Beyond(4)' \/ "join_manager" \in Plan'
    BY <1>1, <1>2, <1>4 DEF IInv, Joined
  <2> QED BY <2>1, <2>2, <2>3, <2>4 DEF Joined
<1>7. Freed'
  <2>1. loop' = "closed" => Beyond(7)'
    BY <1>4, <1>5 DEF IInv, Freed
  <2>2. loop' = "freed" => Beyond(7)' /\ Beyond(8)'
    BY <1>4 DEF IInv, Freed
  <2>3. logger' = "freed" => Beyond(9)' /\ "write" \notin ToSet(todo'["main"])
    BY <1>2, <1>4 DEF IInv, Freed
  <2>4. "return_from_main" \in Plan' => "free_logger" \in Plan' \/ logger' = "freed"
    BY <1>1, <1>2 DEF IInv, Freed
  <2>5. /\ process' = "ended" => logger' = "freed"
        /\ logger' \in {"gone", "freed"} => todo'["logger"] = <<>>
    BY <1>3 DEF IInv, Freed
  <2> QED BY <2>1, <2>2, <2>3, <2>4, <2>5 DEF Freed
<1> QED BY <1>2, <1>6, <1>7

(* Main goes to another text, when no thread has been made.                 *)
LEMMA MainTurns ==
    ASSUME IInv, NEW step \in {"config", "socket"}, At("main", step),
           NEW text \in Seq(Steps), Ordered(text), todo' = [todo EXCEPT !["main"] = text],
           UNCHANGED <<logger, process>>, loop' \in {"none", loop},
           \A s \in Ranked(text) : Rank(s) >= 5,
           "return_from_main" \in Ranked(text) => "free_logger" \in Ranked(text)
    PROVE  Texts' /\ Joined' /\ Freed'
<1>1. step \in Plan /\ Rank(step) \in {1, 2}
  <2>1. Rank(step) \in {1, 2}
    BY DEF Rank
  <2> QED BY <2>1, Advances
<1>2. /\ todo'["main"] = text /\ todo' \in [Threads -> Seq(Steps)] /\ Plan' = Ranked(text)
      /\ todo'["manager"] = todo["manager"] /\ todo'["logger"] = todo["logger"]
      /\ \A w \in Workers : todo'[w] = todo[w]
  BY ThreadsApart DEF IInv, Texts, Plan
<1>3. Texts'
  BY <1>2 DEF Texts
<1>4. \A k \in {3, 4, 5, 7, 8, 9} : ~Beyond(k)
  BY <1>1 DEF Beyond
<1>5. Beyond(3)' /\ Beyond(4)' /\ Beyond(5)'
  <2>1. \A s \in Ranked(text) : Rank(s) \in Nat
    BY DEF Rank
  <2> QED BY <1>2, <2>1 DEF Beyond
<1>6. Joined'
  BY <1>2, <1>4, <1>5 DEF IInv, Joined
<1>7. Freed'
  BY <1>2, <1>4 DEF IInv, Freed
<1> QED BY <1>3, <1>6, <1>7

LEMMA ConfigKeeps == ASSUME IInv, server_config_init PROVE IInv'
<1>1. /\ At("main", "config") /\ UNCHANGED <<logVars, mutex, destroyed, is_run, signals, process>>
      /\ loop' \in {"none", "made"}
  BY DEF server_config_init
<1>2. CASE Done("main")
  <2>1. Texts' /\ Joined' /\ Freed'
    BY <1>1, <1>2, MainMoves DEF logVars
  <2>2. Kept' /\ Typed'
    BY <1>1, LoggerSame DEF IInv, Typed, LoopStates
  <2> QED BY <2>1, <2>2 DEF IInv
<1>3. CASE loop' = "none" /\ todo' = [todo EXCEPT !["main"] = <<"log", "give_up">>]
  <2> DEFINE text == <<"log", "give_up">>
  <2>1. text \in Seq(Steps) /\ Ordered(text) /\ Ranked(text) = {}
    BY TextsTyped, FreeOrdered
  <2> HIDE DEF text
  <2>2. todo' = [todo EXCEPT !["main"] = text]
    BY <1>3 DEF text
  <2>3. Texts' /\ Joined' /\ Freed'
    BY <1>1, <1>3, <2>1, <2>2, MainTurns DEF logVars
  <2>4. Kept' /\ Typed'
    BY <1>1, LoggerSame DEF IInv, Typed, LoopStates
  <2> QED BY <2>3, <2>4 DEF IInv
<1> QED BY <1>2, <1>3 DEF server_config_init

(* The text of the exit is in order.                                        *)
LEMMA ExitOrdered ==
    ASSUME NEW join \in {"join_manager", "join_nobody"}
    PROVE  /\ Ordered(Exit(join))
           /\ Ranked(Exit(join)) = {"join", "free_queues", join, "free_logger", "return_from_main"}
<1> DEFINE e == Exit(join)
<1>1. /\ DOMAIN e = 1 .. 9
      /\ e[1] = "join" /\ e[2] = "stop" /\ e[3] = "destroy" /\ e[4] = "free_queues" /\ e[5] = join
      /\ e[6] = "log" /\ e[7] = "stop_logger" /\ e[8] = "free_logger" /\ e[9] = "return_from_main"
  BY DEF Exit
<1> HIDE DEF e
<1>2. /\ Rank(e[1]) = 5 /\ Rank(e[2]) = 0 /\ Rank(e[3]) = 0 /\ Rank(e[4]) = 6 /\ Rank(e[5]) = 7
      /\ Rank(e[6]) = 0 /\ Rank(e[7]) = 0 /\ Rank(e[8]) = 8 /\ Rank(e[9]) = 9
  BY <1>1 DEF Rank
<1>3. ASSUME NEW i \in DOMAIN e, NEW j \in DOMAIN e, i < j  PROVE Follows(e[i], e[j])
  <2>1. e[j] # "write"
    BY <1>1
  <2>2. Rank(e[i]) > 0 /\ Rank(e[j]) > 0 => Rank(e[i]) < Rank(e[j])
    <3>1. i \in 1 .. 9 /\ j \in 1 .. 9
      BY <1>1
    <3> QED BY <1>2, <1>3, <3>1
  <2> QED BY <2>1, <2>2 DEF Follows
<1>4. Ranked(e) = {"join", "free_queues", join, "free_logger", "return_from_main"}
  <2>1. ToSet(e) = {"join", "stop", "destroy", "free_queues", join, "log", "stop_logger",
                    "free_logger", "return_from_main"}
    <3>1. ToSet(e) = {e[1], e[2], e[3], e[4], e[5], e[6], e[7], e[8], e[9]}
      BY <1>1 DEF ToSet
    <3> QED BY <1>1, <3>1
  <2>2. /\ Rank("join") > 0 /\ Rank("free_queues") > 0 /\ Rank(join) > 0 /\ Rank("free_logger") > 0
        /\ Rank("return_from_main") > 0 /\ Rank("stop") = 0 /\ Rank("destroy") = 0
        /\ Rank("log") = 0 /\ Rank("stop_logger") = 0
    BY DEF Rank
  <2> QED BY <2>1, <2>2 DEF Ranked
<1> QED BY <1>3, <1>4 DEF Ordered, e

LEMMA SocketKeeps == ASSUME IInv, make_server_socket PROVE IInv'
<1>1. At("main", "socket") /\ UNCHANGED <<logVars, mutex, destroyed, is_run, loop, signals, process>>
  BY DEF make_server_socket, loopVars
<1>2. Kept' /\ Typed' /\ UNCHANGED logger
  BY <1>1, LoggerSame DEF IInv, Typed
<1>3. CASE Done("main")
  <2>1. Texts' /\ Joined' /\ Freed'
    BY <1>1, <1>2, <1>3, MainMoves
  <2> QED BY <1>2, <2>1 DEF IInv
<1>4. CASE todo' = [todo EXCEPT !["main"] = <<"log">> \o Exit("join_nobody")]
  <2> DEFINE e == Exit("join_nobody")
             text == <<"log">> \o e
  <2>1. text \in Seq(Steps) /\ <<"log">> \in Seq(Steps) /\ Free(<<"log">>) /\ e \in Seq(Steps)
    BY TextsTyped, ScriptsTyped DEF Scripts
  <2>2. /\ Ordered(e)
        /\ Ranked(e) = {"join", "free_queues", "join_nobody", "free_logger", "return_from_main"}
    BY ExitOrdered
  <2>3. todo' = [todo EXCEPT !["main"] = text]
    BY <1>4
  <2> HIDE DEF e
  <2>4. Ordered(text)
    <3>1. \A s \in ToSet(<<"log">>), r \in ToSet(e) : Follows(s, r)
      BY <2>1 DEF Free, Follows
    <3> QED BY <2>1, <2>2, <3>1, FreeOrdered, OrderOfConcatenated
  <2>5. Ranked(text) = Ranked(e)
    <3>1. ToSet(text) = ToSet(<<"log">>) \cup ToSet(e)
      BY <2>1, StepsBefore, Zenon
    <3> QED BY <2>1, <3>1 DEF Ranked, Free
  <2> HIDE DEF text
  <2>6. \A s \in Ranked(text) : Rank(s) >= 5
    BY <2>2, <2>5 DEF Rank
  <2>7. Texts' /\ Joined' /\ Freed'
    BY <1>1, <1>2, <2>1, <2>2, <2>3, <2>4, <2>5, <2>6, MainTurns
  <2> QED BY <1>2, <2>7 DEF IInv
<1> QED BY <1>3, <1>4 DEF make_server_socket

(* Steps of main that have no rank, or do no more than to go on.            *)
LEMMA PlainKeeps ==
    ASSUME IInv, GiveUp \/ Opening \/ thread_pool_free \/ DestroyMutexes \/ FreeQueues
    PROVE  IInv'
<1>1. UNCHANGED logVars /\ Done("main")
  BY DEF GiveUp, Opening, thread_pool_free, DestroyMutexes, FreeQueues
<1>2. Kept' /\ Typed' /\ UNCHANGED logger
  <2>1. /\ mutex' \in [Mutexes -> Threads \cup {NULL}] /\ destroyed' \subseteq Mutexes
        /\ is_run' \in BOOLEAN /\ loop' \in LoopStates /\ signals' = signals /\ process' \in Ends
    <3>1. mutex' \in [Mutexes -> Threads \cup {NULL}]
      BY LockTyped, ThreadsApart
         DEF GiveUp, Opening, thread_pool_free, DestroyMutexes, FreeQueues, loopVars, Mutexes, IInv, Typed
    <3> QED BY <3>1
         DEF GiveUp, Opening, thread_pool_free, DestroyMutexes, FreeQueues, loopVars, LoopStates, Ends,
             IInv, Typed
  <2> QED BY <1>1, <2>1, LoggerSame DEF IInv, Typed
<1>3. CASE GiveUp
  <2>1. At("main", "give_up") /\ Rank("give_up") = 0 /\ loop' = loop /\ process' = "failed"
    BY <1>3 DEF GiveUp, loopVars, Rank
  <2> QED BY <1>1, <1>2, <2>1, DoneGoes, ThreadsApart DEF IInv
<1>4. CASE DestroyMutexes
  <2>1. At("main", "destroy") /\ Rank("destroy") = 0 /\ UNCHANGED <<loop, process>>
    BY <1>4 DEF DestroyMutexes, Rank
  <2> QED BY <1>1, <1>2, <2>1, DoneGoes, ThreadsApart DEF IInv
<1>5. CASE Opening
  <2>1. At("main", "opening") /\ UNCHANGED <<loop, process>>
    BY <1>5 DEF Opening
  <2> QED BY <1>1, <1>2, <2>1, MainMoves DEF IInv
<1>6. CASE thread_pool_free
  <2>1. At("main", "join") /\ UNCHANGED <<loop, process>> /\ \A w \in Workers : todo[w] = <<>>
    BY <1>6 DEF thread_pool_free, loopVars
  <2> QED BY <1>1, <1>2, <2>1, MainMoves DEF IInv
<1>7. CASE FreeQueues
  <2>1. At("main", "free_queues") /\ loop' = "closed" /\ process' = process
    BY <1>7 DEF FreeQueues
  <2> QED BY <1>1, <1>2, <2>1, MainMoves DEF IInv
<1> QED BY <1>3, <1>4, <1>5, <1>6, <1>7

(* el_open takes the mutex, and then has two more steps.                    *)
LEMMA OpenKeeps == ASSUME IInv, el_open PROVE IInv'
<1>1. /\ At("main", "open") /\ Rank("open") = 3 /\ Locks("main", "is_run")
      /\ UNCHANGED <<logVars, destroyed, is_run, loop, signals, process>>
  BY DEF el_open, Rank
<1> DEFINE rest == Tail(todo["main"])
           steps == <<"opening", "create">>
           text == steps \o rest
<1>2. /\ rest \in Seq(Steps) /\ Ordered(rest) /\ Plan = {"open"} \cup Ranked(rest)
      /\ \A s \in ToSet(rest) : Follows("open", s)
  BY <1>1, Advances
<1>3. /\ steps \in Seq(Steps) /\ Ordered(steps) /\ Ranked(steps) = {"opening", "create"}
      /\ ToSet(steps) = {"opening", "create"}
  <2>1. /\ DOMAIN steps = {1, 2} /\ steps[1] = "opening" /\ steps[2] = "create"
    OBVIOUS
  <2>2. Rank("opening") = 3 /\ Rank("create") = 3
    BY DEF Rank
  <2>3. steps \in Seq(Steps)
    BY TextsTyped
  <2> HIDE DEF steps
  <2>4. ToSet(steps) = {"opening", "create"}
    BY <2>1 DEF ToSet
  <2>5. Ranked(steps) = {"opening", "create"}
    BY <2>2, <2>4 DEF Ranked
  <2>6. Ordered(steps)
    BY <2>1, <2>2 DEF Ordered, Follows
  <2> QED BY <2>3, <2>4, <2>5, <2>6
<1>4. todo["main"] \in Seq(Steps) /\ todo' = [todo EXCEPT !["main"] = text]
  BY ThreadsApart DEF el_open, Then, IInv, Texts
<1> HIDE DEF rest, steps
<1>5. /\ text \in Seq(Steps) /\ Ordered(text) /\ Ranked(text) = {"opening", "create"} \cup Ranked(rest)
      /\ ToSet(text) = {"opening", "create"} \cup ToSet(rest)
  <2>1. \A s \in ToSet(steps), r \in ToSet(rest) : Follows(s, r)
    BY <1>2, <1>3 DEF Follows, Rank
  <2>2. text \in Seq(Steps) /\ ToSet(text) = ToSet(steps) \cup ToSet(rest)
    BY <1>2, <1>3, Concatenated
  <2>3. Ranked(text) = Ranked(steps) \cup Ranked(rest)
    BY <2>2 DEF Ranked
  <2> QED BY <1>2, <1>3, <2>1, <2>2, <2>3, OrderOfConcatenated
<1> HIDE DEF text
<1>6. /\ todo'["main"] = text /\ todo' \in [Threads -> Seq(Steps)] /\ Plan' = Ranked(text)
      /\ todo'["manager"] = todo["manager"] /\ todo'["logger"] = todo["logger"]
      /\ \A w \in Workers : todo'[w] = todo[w]
  BY <1>4, <1>5, ThreadsApart DEF IInv, Texts, Plan
<1>7. Texts'
  BY <1>5, <1>6 DEF Texts
<1>8. /\ Plan' = {"opening", "create"} \cup Ranked(rest) /\ Plan = {"open"} \cup Ranked(rest)
      /\ \A k \in {4, 5, 7, 8, 9} : ~Beyond(k)
      /\ Beyond(3) => Beyond(3)'
  <2>1. /\ Plan' = {"opening", "create"} \cup Ranked(rest) /\ Plan = {"open"} \cup Ranked(rest)
    BY <1>2, <1>5, <1>6
  <2>2. \A k \in {4, 5, 7, 8, 9} : ~Beyond(k)
    BY <1>1, <2>1 DEF Beyond
  <2>3. Rank("opening") = 3 /\ Rank("create") = 3
    BY DEF Rank
  <2>4. Beyond(3) => Beyond(3)'
    BY <2>1, <2>3 DEF Beyond
  <2> QED BY <2>1, <2>2, <2>4
<1>9. Joined'
  <2>1. "join" \in Plan /\ "join_manager" \in Plan
    BY <1>8 DEF IInv, Joined
  <2> QED BY <1>6, <1>8, <2>1 DEF IInv, Joined
<1>10. Freed'
  BY <1>1, <1>6, <1>8 DEF IInv, Freed, logVars
<1>11. Kept' /\ Typed'
  <2>1. mutex' \in [Mutexes -> Threads \cup {NULL}]
    BY <1>1, LockTyped, ThreadsApart DEF Mutexes, IInv
  <2> QED BY <1>1, <2>1, LoggerSame DEF IInv, Typed
<1> QED BY <1>7, <1>9, <1>10, <1>11 DEF IInv

(* Threads that main makes will be joined.                                  *)
LEMMA CreateKeeps == ASSUME IInv, CreateManager PROVE IInv'
<1> DEFINE rest == Tail(todo["main"])
<1>1. /\ At("main", "create") /\ Rank("create") = 3
      /\ todo' = [todo EXCEPT !["manager"] = loop_thread, !["main"] = Tail(@)]
      /\ UNCHANGED <<logVars, mutex, destroyed, is_run, loop, signals, process>>
  BY DEF CreateManager, loopVars, Rank
<1>2. /\ rest \in Seq(Steps) /\ Ordered(rest) /\ Plan = {"create"} \cup Ranked(rest)
      /\ \A s \in ToSet(rest) : Follows("create", s)
  BY <1>1, Advances
<1>3. loop_thread \in Seq(Steps)
  BY TextsTyped
<1>4. /\ todo'["main"] = rest /\ todo' \in [Threads -> Seq(Steps)] /\ todo'["logger"] = todo["logger"]
      /\ \A w \in Workers : todo'[w] = todo[w]
  BY <1>1, <1>2, <1>3, ThreadsApart DEF IInv, Texts
<1> HIDE DEF rest
<1>5. Plan' = Ranked(rest)
  BY <1>4 DEF Plan
<1>6. /\ \A k \in {4, 5, 7, 8, 9} : ~Beyond(k)
      /\ Beyond(4)'
  <2>1. \A s \in Ranked(rest) : Rank(s) >= 4
    <3>1. \A s \in Ranked(rest) : Rank(s) \in Nat
      BY DEF Rank
    <3> QED BY <1>1, <1>2, <3>1 DEF Follows, Ranked
  <2> QED BY <1>1, <1>2, <1>5, <2>1 DEF Beyond
<1>7. "join" \in Plan' /\ "join_manager" \in Plan'
  <2>1. "join" \in Plan /\ "join_manager" \in Plan
    BY <1>6 DEF IInv, Joined
  <2> QED BY <1>2, <1>5, <2>1
<1>8. Joined'
  BY <1>4, <1>6, <1>7 DEF IInv, Joined
<1>9. Freed'
  <2>1. "free_logger" \in Plan \/ logger = "freed" \/ "return_from_main" \notin Plan
    BY DEF IInv, Freed
  <2> QED BY <1>1, <1>2, <1>4, <1>5, <1>6, <2>1 DEF IInv, Freed, logVars
<1>10. Texts'
  BY <1>2, <1>4 DEF Texts
<1>11. Kept' /\ Typed'
  BY <1>1, LoggerSame DEF IInv, Typed
<1> QED BY <1>8, <1>9, <1>10, <1>11 DEF IInv

LEMMA PushKeeps == ASSUME IInv, thread_pool_push PROVE IInv'
<1> DEFINE rest == Tail(todo["main"])
<1>1. /\ At("main", "spawn") /\ Rank("spawn") = 4
      /\ todo' = [t \in Threads |-> IF t \in Workers THEN worker_thread
                                    ELSE IF t = "main" THEN Tail(todo[t]) ELSE todo[t]]
      /\ UNCHANGED <<logVars, mutex, destroyed, is_run, loop, signals, process>>
  BY DEF thread_pool_push, loopVars, Rank
<1>2. /\ rest \in Seq(Steps) /\ Ordered(rest) /\ Plan = {"spawn"} \cup Ranked(rest)
      /\ \A s \in ToSet(rest) : Follows("spawn", s)
  BY <1>1, Advances
<1>3. worker_thread \in Seq(Steps)
  BY TextsTyped
<1>4. /\ todo'["main"] = rest /\ todo' \in [Threads -> Seq(Steps)]
      /\ todo'["logger"] = todo["logger"] /\ todo'["manager"] = todo["manager"]
  BY <1>1, <1>2, <1>3, ThreadsApart DEF IInv, Texts
<1> HIDE DEF rest
<1>5. Plan' = Ranked(rest)
  BY <1>4 DEF Plan
<1>6. /\ \A k \in {5, 7, 8, 9} : ~Beyond(k)
      /\ Beyond(3)' /\ Beyond(4)' /\ Beyond(5)'
  <2>1. ASSUME NEW s \in Ranked(rest)  PROVE Rank(s) >= 5
    <3>1. Rank(s) \in Nat
      BY DEF Rank
    <3>2. Follows("spawn", s) /\ Rank(s) > 0
      BY <1>2 DEF Ranked
    <3> QED BY <1>1, <3>1, <3>2 DEF Follows
  <2>2. \A k \in {5, 7, 8, 9} : ~Beyond(k)
    BY <1>1, <1>2 DEF Beyond
  <2>3. \A s \in Plan' : Rank(s) \in Nat /\ Rank(s) >= 5
    BY <1>5, <2>1 DEF Rank
  <2>4. Beyond(3)' /\ Beyond(4)' /\ Beyond(5)'
    BY <2>3 DEF Beyond
  <2> QED BY <2>2, <2>4
<1>7. "join" \in Plan' /\ ("join_manager" \in Plan => "join_manager" \in Plan')
  <2>1. "join" \in Plan
    BY <1>6 DEF IInv, Joined
  <2> QED BY <1>2, <1>5, <2>1
<1>8. Joined'
  BY <1>4, <1>6, <1>7 DEF IInv, Joined
<1>9. Freed'
  <2>1. "free_logger" \in Plan \/ logger = "freed" \/ "return_from_main" \notin Plan
    BY DEF IInv, Freed
  <2> QED BY <1>1, <1>2, <1>4, <1>5, <1>6, <2>1 DEF IInv, Freed, logVars
<1>10. Texts'
  BY <1>2, <1>4 DEF Texts
<1>11. Kept' /\ Typed'
  BY <1>1, LoggerSame DEF IInv, Typed
<1> QED BY <1>8, <1>9, <1>10, <1>11 DEF IInv

(* The loop is freed when no thread is left that uses it.                   *)
LEMMA JoinManagerKeeps == ASSUME IInv, JoinManager \/ JoinNobody PROVE IInv'
<1>1. PICK step \in {"join_manager", "join_nobody"} :
        At("main", step) /\ (step = "join_manager" => todo["manager"] = <<>>)
  BY DEF JoinManager, JoinNobody
<1>2. /\ UNCHANGED <<logVars, mutex, destroyed, is_run, signals>> /\ Rank(step) = 7
      /\ \/ loop' = "freed" /\ Done("main") /\ UNCHANGED process
         \/ Fault /\ UNCHANGED <<todo, loop>>
  BY DEF JoinManager, JoinNobody, Rank
<1>3. CASE Fault /\ UNCHANGED <<todo, loop>>
  BY <1>2, <1>3, FaultKeeps DEF IInv, Typed
<1>4. CASE loop' = "freed" /\ Done("main") /\ UNCHANGED process
  <2>1. /\ Texts' /\ step \in Plan
        /\ Plan' \subseteq Plan /\ Plan \subseteq Plan' \cup {step}
        /\ \A s \in Plan' : Rank(s) > 7
        /\ "write" \notin ToSet(todo'["main"])
        /\ \A t \in Threads : t # "main" => todo'[t] = todo[t]
    BY <1>1, <1>2, <1>4, MainDone
  <2>2. /\ todo'["manager"] = todo["manager"] /\ todo'["logger"] = todo["logger"]
        /\ \A w \in Workers : todo'[w] = todo[w]
    BY <2>1, ThreadsApart
  <2>3. /\ Rank("join") = 5 /\ Rank("join_manager") = 7 /\ \A s \in Plan' : Rank(s) \in Nat
    BY DEF Rank
  <2>4. \A k \in {3, 4, 5, 7, 8} : Beyond(k)'
    BY <2>1, <2>3 DEF Beyond
  <2>5. "join" \notin Plan /\ todo["manager"] = <<>>
    <3>1. "join" \notin Plan' /\ "join_manager" \notin Plan'
      BY <2>1, <2>3
    <3>2. "join" \notin Plan /\ (step = "join_manager" \/ "join_manager" \notin Plan)
      BY <2>1, <3>1, <1>1
    <3> QED BY <1>1, <3>2 DEF IInv, Joined
  <2>6. Joined'
    BY <2>2, <2>4, <2>5 DEF IInv, Joined
  <2>7. Freed'
    <3>1. logger = "freed" => Beyond(9)'
      BY <2>1 DEF IInv, Freed, Beyond
    <3>2. "return_from_main" \in Plan' => "free_logger" \in Plan' \/ logger = "freed"
      BY <2>1 DEF IInv, Freed
    <3> QED BY <1>2, <1>4, <2>1, <2>2, <2>4, <3>1, <3>2 DEF IInv, Freed, logVars
  <2>8. Kept' /\ Typed'
    BY <1>2, <1>4, LoggerSame DEF IInv, Typed, LoopStates
  <2> QED BY <2>1, <2>6, <2>7, <2>8 DEF IInv
<1> QED BY <1>2, <1>3, <1>4

(* The logger is freed when no other thread is left and all is printed.     *)
LEMMA LogFreeKeeps == ASSUME IInv, log_free PROVE IInv'
<1>1. CASE At("main", "stop_logger") /\ StopLogger /\ Done("main") /\ UNCHANGED <<loopVars, signals, process>>
  <2>1. /\ Rank("stop_logger") = 0 /\ log_is_run' = FALSE
        /\ UNCHANGED <<messages, batch, printed, written, logger, mutex_messages,
                       mutex, destroyed, is_run, loop, signals, process>>
    BY <1>1 DEF Rank, StopLogger, loopVars
  <2>2. Texts' /\ Joined' /\ Freed'
    BY <1>1, <2>1, DoneGoes, ThreadsApart
  <2>3. Kept' /\ Typed'
    BY <2>1 DEF IInv, Kept, Typed
  <2> QED BY <2>2, <2>3 DEF IInv
<1>2. CASE At("main", "free_logger") /\ FreeLogger /\ Done("main") /\ UNCHANGED <<loopVars, signals, process>>
  <2>1. /\ Rank("free_logger") = 8 /\ logger = "gone" /\ logger' = "freed"
        /\ printed' = printed \cup messages /\ messages' = {}
        /\ UNCHANGED <<batch, written, log_is_run, mutex_messages,
                       mutex, destroyed, is_run, loop, signals, process>>
    BY <1>2 DEF Rank, FreeLogger, loopVars
  <2>2. /\ Texts' /\ "free_logger" \in Plan
        /\ Plan' \subseteq Plan /\ Plan \subseteq Plan' \cup {"free_logger"}
        /\ \A s \in Plan' : Rank(s) > 8
        /\ "write" \notin ToSet(todo'["main"])
        /\ \A t \in Threads : t # "main" => todo'[t] = todo[t]
    BY <1>2, <2>1, MainDone
  <2>3. /\ todo'["manager"] = todo["manager"] /\ todo'["logger"] = todo["logger"]
        /\ \A w \in Workers : todo'[w] = todo[w]
    BY <2>2, ThreadsApart
  <2>4. /\ Rank("join") = 5 /\ Rank("join_manager") = 7 /\ \A s \in Plan' : Rank(s) \in Nat
    BY DEF Rank
  <2>5. \A k \in {3, 4, 5, 7, 8, 9} : Beyond(k)'
    BY <2>2, <2>4 DEF Beyond
  <2>6. Joined'
    <3>1. "join" \notin Plan /\ "join_manager" \notin Plan
      BY <2>2, <2>4
    <3> QED BY <2>3, <2>5, <3>1 DEF IInv, Joined
  <2>7. Freed'
    BY <2>1, <2>2, <2>3, <2>5 DEF IInv, Freed
  <2>8. Kept'
    BY <2>1 DEF IInv, Kept
  <2>9. Typed'
    BY <2>1 DEF IInv, Typed, LoggerControl
  <2> QED BY <2>2, <2>6, <2>7, <2>8, <2>9 DEF IInv
<1> QED BY <1>1, <1>2 DEF log_free

LEMMA ReturnKeeps == ASSUME IInv, Return PROVE IInv'
<1>1. /\ At("main", "return_from_main") /\ Rank("return_from_main") = 9 /\ Rank("free_logger") = 8
      /\ Done("main") /\ process' = "ended"
      /\ UNCHANGED <<logVars, mutex, destroyed, is_run, loop, signals>>
  BY DEF Return, Rank, loopVars
<1>2. /\ Texts' /\ "return_from_main" \in Plan
      /\ Plan' \subseteq Plan /\ Plan \subseteq Plan' \cup {"return_from_main"}
      /\ \A s \in Plan' : Rank(s) > 9
      /\ "write" \notin ToSet(todo'["main"])
      /\ \A t \in Threads : t # "main" => todo'[t] = todo[t]
  BY <1>1, MainDone
<1>3. /\ todo'["manager"] = todo["manager"] /\ todo'["logger"] = todo["logger"]
      /\ \A w \in Workers : todo'[w] = todo[w]
  BY <1>2, ThreadsApart
<1>4. Plan' = {}
  BY <1>2 DEF Rank
<1>5. logger = "freed"
  <2>1. "free_logger" \notin Plan
    BY <1>1, <1>2, <1>4
  <2> QED BY <1>2, <2>1 DEF IInv, Freed
<1>6. Joined'
  <2>1. "join" \notin Plan /\ "join_manager" \notin Plan
    BY <1>2, <1>4
  <2> QED BY <1>3, <1>4, <2>1 DEF IInv, Joined, Beyond
<1>7. Freed'
  BY <1>1, <1>2, <1>3, <1>4, <1>5 DEF IInv, Freed, Beyond, logVars
<1>8. Kept' /\ Typed'
  BY <1>1, LoggerSame DEF IInv, Typed, Ends
<1> QED BY <1>2, <1>6, <1>7, <1>8 DEF IInv

-----------------------------------------------------------------------------
(* The theorems.                                                            *)

LEMMA InitHolds == Init => IInv
<1> SUFFICES ASSUME Init  PROVE IInv
  OBVIOUS
<1> DEFINE start == <<"config", "socket", "log", "open", "spawn">>
           exit == Exit("join_manager")
           rest == worker_thread \o exit
<1>1. /\ todo = [t \in Threads |-> IF t = "main" THEN Main \o exit ELSE <<>>]
      /\ mutex = [m \in Mutexes |-> NULL] /\ destroyed = {}
      /\ is_run = FALSE /\ loop = "none" /\ signals = MaxSignals /\ process = "up"
      /\ messages = {} /\ batch = {} /\ printed = {} /\ written = [t \in Threads |-> 0]
      /\ logger = "lock" /\ log_is_run = TRUE /\ mutex_messages = NULL
  BY DEF Init, log_init
<1>2. /\ Main \in Seq(Steps) /\ exit \in Seq(Steps) /\ worker_thread \in Seq(Steps)
      /\ <<>> \in Seq(Steps) /\ Free(worker_thread)
  BY ScriptsTyped, TextsTyped DEF Scripts
<1>3. Ordered(exit) /\ Ranked(exit) = {"join", "free_queues", "join_manager", "free_logger", "return_from_main"}
  BY ExitOrdered
<1> HIDE DEF exit
<1>4. /\ Ordered(rest) /\ rest \in Seq(Steps) /\ Ranked(rest) = Ranked(exit)
      /\ "write" \notin ToSet(rest)
  <2>1. \A s \in ToSet(worker_thread), r \in ToSet(exit) : Follows(s, r)
    BY <1>2 DEF Free, Follows
  <2>2. rest \in Seq(Steps) /\ ToSet(rest) = ToSet(worker_thread) \cup ToSet(exit)
    BY <1>2, Concatenated
  <2>3. Ordered(rest)
    BY <1>2, <1>3, <2>1, FreeOrdered, OrderOfConcatenated
  <2>4. "write" \notin ToSet(worker_thread)
    BY TextsTyped
  <2>5. "write" \notin ToSet(exit)
    BY DEF exit, Exit, ToSet
  <2>6. Ranked(rest) = Ranked(exit)
    BY <1>2, <2>2 DEF Ranked, Free
  <2> QED BY <2>2, <2>3, <2>4, <2>5, <2>6
<1> HIDE DEF rest
<1>5. /\ start \in Seq(Steps) /\ Ordered(start) /\ ToSet(start) = {"config", "socket", "log", "open", "spawn"}
  <2>1. /\ DOMAIN start = 1 .. 5 /\ start[1] = "config" /\ start[2] = "socket" /\ start[3] = "log"
        /\ start[4] = "open" /\ start[5] = "spawn"
    OBVIOUS
  <2>2. start \in Seq({"config", "socket", "log", "open", "spawn"})
    OBVIOUS
  <2> HIDE DEF start
  <2>3. ToSet(start) = {"config", "socket", "log", "open", "spawn"}
    <3>1. ToSet(start) = {start[1], start[2], start[3], start[4], start[5]}
      BY <2>1 DEF ToSet
    <3> QED BY <2>1, <3>1
  <2>4. Ordered(start)
    <3> SUFFICES ASSUME NEW i \in DOMAIN start, NEW j \in DOMAIN start, i < j
                 PROVE  Follows(start[i], start[j])
      BY DEF Ordered
    <3>1. /\ Rank(start[1]) = 1 /\ Rank(start[2]) = 2 /\ Rank(start[3]) = 0 /\ Rank(start[4]) = 3
          /\ Rank(start[5]) = 4
      BY <2>1 DEF Rank
    <3>2. i \in 1 .. 5 /\ j \in 1 .. 5
      BY <2>1
    <3>3. Rank(start[i]) > 0 /\ Rank(start[j]) > 0 => Rank(start[i]) < Rank(start[j])
      BY <3>1, <3>2
    <3>4. start[j] # "write"
      BY <2>1, <3>2
    <3> QED BY <3>3, <3>4 DEF Follows
  <2>5. start \in Seq(Steps)
    <3>1. ToSet(Main) \subseteq Steps
      BY ScriptsTyped DEF Scripts
    <3>2. ToSet(Main) = ToSet(start) \cup ToSet(worker_thread)
      <4>1. /\ start \in Seq({"config", "socket", "log", "open", "spawn"} \cup Steps)
            /\ worker_thread \in Seq({"config", "socket", "log", "open", "spawn"} \cup Steps)
        BY <2>2, <1>2
      <4>2. Main = start \o worker_thread
        BY DEF Main, start
      <4> QED BY <4>1, <4>2, Concatenated
    <3>3. \A i \in DOMAIN start : start[i] \in Steps
      BY <3>1, <3>2 DEF ToSet
    <3> QED BY <2>2, <3>3
  <2> QED BY <2>3, <2>4, <2>5
<1>6. Main \o exit = start \o rest
  BY <1>2, <1>5, ConcatAssociative DEF Main, rest
<1> HIDE DEF start
<1> DEFINE text == start \o rest
<1>7. /\ text \in Seq(Steps) /\ ToSet(text) = ToSet(start) \cup ToSet(rest) /\ Ordered(text)
  <2>1. \A s \in ToSet(start), r \in ToSet(rest) : Follows(s, r)
    <3> SUFFICES ASSUME NEW s \in ToSet(start), NEW r \in ToSet(rest), Rank(s) > 0
                 PROVE  Follows(s, r)
      BY DEF Follows
    <3>1. r # "write" /\ (Rank(r) > 0 => r \in Ranked(rest))
      BY <1>4 DEF Ranked
    <3>2. Rank(r) > 0 => Rank(r) >= 5
      BY <3>1, <1>3, <1>4 DEF Rank
    <3>3. Rank(s) \in 0 .. 4 /\ Rank(r) \in Nat
      BY <1>5 DEF Rank
    <3> QED BY <3>1, <3>2, <3>3 DEF Follows
  <2> QED BY <1>4, <1>5, <2>1, Concatenated, OrderOfConcatenated
<1> HIDE DEF text
<1>8. /\ todo \in [Threads -> Seq(Steps)] /\ todo["main"] = text
      /\ \A t \in Threads : t # "main" => todo[t] = <<>>
  BY <1>1, <1>2, <1>6, <1>7, ThreadsApart DEF text
<1>9. Texts
  BY <1>7, <1>8 DEF Texts
<1>10. {"join", "join_manager", "free_logger"} \subseteq Plan
  BY <1>3, <1>4, <1>7, <1>8 DEF Plan, Ranked
<1>11. Joined
  BY <1>8, <1>10, ThreadsApart DEF Joined
<1>12. Freed
  BY <1>1, <1>8, <1>10, ThreadsApart DEF Freed
<1>13. Kept
  BY <1>1 DEF Kept
<1>14. Typed
  <2>1. 0 \in Nat /\ signals \in 0 .. MaxSignals
    BY <1>1, ShutdownAssumption
  <2>2. written \in [Threads -> Nat] /\ mutex \in [Mutexes -> Threads \cup {NULL}]
    BY <1>1
  <2> QED BY <1>1, <2>1, <2>2 DEF Typed, LoggerControl, LoopStates, Ends
<1> QED BY <1>9, <1>11, <1>12, <1>13, <1>14 DEF IInv

LEMMA NextKeeps == IInv /\ [Next]_vars => IInv'
<1> SUFFICES ASSUME IInv, [Next]_vars  PROVE IInv'
  OBVIOUS
<1>1. CASE UNCHANGED vars
  <2>1. UNCHANGED <<logVars, todo, mutex, destroyed, is_run, loop, signals, process>>
    BY <1>1 DEF vars
  <2>2. Texts' /\ Joined' /\ Freed'
    BY <2>1 DEF IInv, Texts, Joined, Freed, Plan, Beyond, logVars
  <2>3. Kept' /\ Typed'
    BY <2>1, LoggerSame DEF IInv, Typed
  <2> QED BY <2>2, <2>3 DEF IInv
<1>2. CASE MainStep
  BY <1>2, ConfigKeeps, SocketKeeps, PlainKeeps, OpenKeeps, CreateKeeps, PushKeeps,
     JoinManagerKeeps, LogFreeKeeps, ReturnKeeps DEF MainStep
<1> QED BY <1>1, <1>2, ThreadKeeps, ManagerKeeps, LoggerKeeps DEF Next

(* The texts of the threads, what main has freed and where the messages are *)
(* agree in every reachable state.                                          *)
THEOREM InductiveInvariant == Spec => []IInv
BY InitHolds, NextKeeps, PTL DEF Spec

(* The variables have their types.                                          *)
THEOREM TypeCorrect == Spec => []TypeOK
<1>1. IInv => TypeOK
  BY DEF IInv, Typed, Texts, TypeOK
<1> QED BY <1>1, InductiveInvariant, PTL

(* el_close frees the queues and the loop, and log_free the logger, when    *)
(* the threads that use them have ended, whichever way main came to the     *)
(* exit and whatever signals arrive meanwhile.                              *)
THEOREM FreedCorrect == Spec => []FreedWhenUnused
<1>1. IInv => FreedWhenUnused
  <2> SUFFICES ASSUME IInv  PROVE FreedWhenUnused
    OBVIOUS
  <2>1. Rank("join") = 5 /\ Rank("join_manager") = 7
    BY DEF Rank
  <2>2. ASSUME loop \in {"closed", "freed"} \/ logger = "freed"
        PROVE  \A w \in Workers : todo[w] = <<>>
    <3>1. "join" \notin Plan
      BY <2>1, <2>2 DEF IInv, Freed, Beyond
    <3> QED BY <3>1 DEF IInv, Joined
  <2>3. ASSUME loop = "freed" \/ logger = "freed"
        PROVE  todo["manager"] = <<>>
    <3>1. "join_manager" \notin Plan
      BY <2>1, <2>3 DEF IInv, Freed, Beyond
    <3> QED BY <3>1 DEF IInv, Joined
  <2>4. logger = "freed" => todo["logger"] = <<>>
    BY DEF IInv, Freed
  <2> QED BY <2>2, <2>3, <2>4 DEF FreedWhenUnused, Threads
<1> QED BY <1>1, InductiveInvariant, PTL

(* When main returns through log_free, all messages of all threads have     *)
(* been printed, however the logger's thread ended.                         *)
THEOREM LoggedCorrect == Spec => []NothingLoggedIsLost
<1>1. IInv => NothingLoggedIsLost
  <2> SUFFICES ASSUME IInv, process = "ended", NEW t \in Threads, NEW n \in 1 .. written[t]
               PROVE  <<t, n>> \in printed
    BY DEF NothingLoggedIsLost
  <2>1. logger = "freed"
    BY DEF IInv, Freed
  <2>2. messages = {} /\ batch = {}
    BY <2>1 DEF IInv, Kept
  <2> QED BY <2>2 DEF IInv, Kept
<1> QED BY <1>1, InductiveInvariant, PTL

-----------------------------------------------------------------------------
(* Who holds a mutex.                                                       *)

(* What a handler does, whichever step it interrupts.                       *)
Handler == {"log", "write", "stop", "stopping", "return"}

(* The steps that give a mutex back.                                        *)
Gives(m) == IF m = "is_run" THEN {"test", "stopping", "opening"} ELSE {"walk"}

(* The text begins with one of these steps, or a handler comes before it.   *)
Leads(text, steps) ==
    \E i \in DOMAIN text : text[i] \in steps /\ \A j \in 1 .. i - 1 : text[j] \in Handler

(* Who holds mutex_messages writes, or a handler asks for it once more; the *)
(* logger's thread looks at the queue.                                      *)
HoldsMessages(t) ==
    mutex_messages = t =>
        \/ todo[t] # <<>> /\ Head(todo[t]) \in {"write", "log"}
        \/ t = "logger" /\ todo[t] = <<>> /\ logger = "look"

(* Who holds a mutex of the loop gives it back as soon as no handler is in  *)
(* its way.                                                                 *)
HoldsMutexes(t) == \A m \in Mutexes : mutex[m] = t => Leads(todo[t], Gives(m))

Held == \A t \in Threads : HoldsMessages(t) /\ HoldsMutexes(t)

(* The first step of a text that leads to others.                           *)
LEMMA LeadsHead ==
    ASSUME NEW text \in Seq(Steps), NEW steps, Leads(text, steps)
    PROVE  /\ text # <<>>
           /\ Head(text) \in steps \/ (Head(text) \in Handler /\ Leads(Tail(text), steps))
<1>1. PICK i \in DOMAIN text : text[i] \in steps /\ \A j \in 1 .. i - 1 : text[j] \in Handler
  BY DEF Leads
<1>2. DOMAIN text = 1 .. Len(text) /\ Len(text) \in Nat /\ i \in Nat /\ text # <<>>
  BY <1>1
<1>3. /\ Head(text) = text[1] /\ Tail(text) \in Seq(Steps)
      /\ DOMAIN Tail(text) = 1 .. (Len(text) - 1)
      /\ \A j \in 1 .. (Len(text) - 1) : Tail(text)[j] = text[j + 1]
  BY <1>2
<1>4. CASE i = 1
  BY <1>1, <1>2, <1>3, <1>4
<1>5. CASE i # 1
  <2>1. Head(text) \in Handler
    BY <1>1, <1>2, <1>3, <1>5
  <2>2. i - 1 \in 1 .. (Len(text) - 1) /\ (i - 1) + 1 = i
    BY <1>1, <1>2, <1>5
  <2>3. \A j \in 1 .. (i - 1) - 1 : j \in 1 .. (Len(text) - 1) /\ j + 1 \in 1 .. i - 1
    BY <1>1, <1>2
  <2>4. Leads(Tail(text), steps)
    BY <1>1, <1>3, <2>2, <2>3 DEF Leads
  <2> QED BY <1>2, <2>1, <2>4
<1> QED BY <1>4, <1>5

(* A text that begins with one of the steps.                                *)
LEMMA LeadsFirst ==
    ASSUME NEW text \in Seq(Steps), text # <<>>, NEW steps, Head(text) \in steps
    PROVE  Leads(text, steps)
<1>1. 1 \in DOMAIN text /\ Head(text) = text[1] /\ 1 .. 1 - 1 = {}
  OBVIOUS
<1> QED BY <1>1 DEF Leads

(* A handler does not change where a text leads.                            *)
LEMMA LeadsOver ==
    ASSUME NEW a \in Seq(Steps), NEW b \in Seq(Steps), NEW steps,
           ToSet(a) \subseteq Handler, Leads(b, steps)
    PROVE  Leads(a \o b, steps)
<1> DEFINE c == a \o b
           n == Len(a)
<1>1. PICK i \in DOMAIN b : b[i] \in steps /\ \A j \in 1 .. i - 1 : b[j] \in Handler
  BY DEF Leads
<1>2. /\ c \in Seq(Steps) /\ n \in Nat /\ Len(b) \in Nat /\ Len(c) = n + Len(b)
      /\ DOMAIN a = 1 .. n /\ DOMAIN b = 1 .. Len(b) /\ DOMAIN c = 1 .. Len(c)
      /\ \A j \in 1 .. Len(c) : c[j] = IF j <= n THEN a[j] ELSE b[j - n]
  BY ConcatProperties
<1>3. \A j \in 1 .. n : a[j] \in Handler
  BY <1>2 DEF ToSet
<1> HIDE DEF c, n
<1>4. n + i \in DOMAIN c /\ c[n + i] = b[i] /\ i \in Nat
  BY <1>1, <1>2
<1>5. ASSUME NEW j \in 1 .. (n + i) - 1  PROVE c[j] \in Handler
  <2>1. j \in 1 .. Len(c) /\ (j \in 1 .. n \/ (j > n /\ j - n \in 1 .. i - 1))
    BY <1>1, <1>2, <1>4
  <2>2. CASE j \in 1 .. n
    BY <1>2, <1>3, <2>1, <2>2
  <2>3. CASE j > n /\ j - n \in 1 .. i - 1
    BY <1>1, <1>2, <2>1, <2>3
  <2> QED BY <2>1, <2>2, <2>3
<1>6. \A j \in 1 .. (n + i) - 1 : c[j] \in Handler
  BY <1>5
<1> QED BY <1>1, <1>4, <1>6 DEF Leads, c

(* Steps of one thread: only what it holds, and what it gets, matters.      *)
LEMMA OneSteps ==
    ASSUME Held, NEW t \in Threads,
           \A u \in Threads : u # t => todo'[u] = todo[u],
           mutex_messages' \in {mutex_messages, NULL, t},
           logger' = logger \/ logger # "look",
           \A m \in Mutexes : mutex'[m] \in {mutex[m], NULL, t},
           HoldsMessages(t)', HoldsMutexes(t)'
    PROVE  Held'
<1> SUFFICES ASSUME NEW u \in Threads, u # t PROVE HoldsMessages(u)' /\ HoldsMutexes(u)'
  BY DEF Held
<1>1. todo'[u] = todo[u] /\ u # NULL /\ HoldsMessages(u) /\ HoldsMutexes(u)
  BY ThreadsApart DEF Held
<1>2. HoldsMessages(u)'
  BY <1>1 DEF HoldsMessages
<1>3. HoldsMutexes(u)'
  <2> SUFFICES ASSUME NEW m \in Mutexes, mutex'[m] = u PROVE Leads(todo'[u], Gives(m))
    BY DEF HoldsMutexes
  <2> QED BY <1>1 DEF HoldsMutexes
<1> QED BY <1>2, <1>3

(* A thread does a step and goes on with a text.                            *)
LEMMA ThenHeld ==
    ASSUME IInv, Held, NEW t \in Threads, NEW step, At(t, step),
           NEW text \in Seq(Steps), Then(t, text),
           step \in Handler => ToSet(text) \subseteq Handler,
           \/ mutex_messages' = NULL
           \/ mutex_messages' = t /\ text # <<>> /\ Head(text) = "write"
           \/ mutex_messages' = mutex_messages /\ step \notin {"write", "log"},
           logger' = logger \/ logger # "look",
           \A m \in Mutexes :
               \/ mutex'[m] = NULL
               \/ mutex'[m] = mutex[m] /\ step \notin Gives(m)
               \/ mutex'[m] = t /\ text # <<>> /\ Head(text) \in Gives(m)
    PROVE  Held'
<1> DEFINE rest == Tail(todo[t])
           new == text \o rest
<1>1. /\ todo \in [Threads -> Seq(Steps)] /\ todo[t] \in Seq(Steps) /\ todo[t] # <<>>
      /\ Head(todo[t]) = step /\ rest \in Seq(Steps) /\ t # NULL
  BY TailOf, ThreadsApart DEF IInv, Texts, At
<1>2. todo' = [todo EXCEPT ![t] = new]
  BY <1>1 DEF Then
<1>3. new \in Seq(Steps) /\ (text # <<>> => new # <<>> /\ Head(new) = Head(text))
  BY <1>1
<1> HIDE DEF rest, new
<1>4. todo'[t] = new /\ \A u \in Threads : u # t => todo'[u] = todo[u]
  BY <1>1, <1>2, <1>3
<1>5. HoldsMessages(t)'
  <2>1. HoldsMessages(t)
    BY DEF Held
  <2> QED BY <1>1, <1>3, <1>4, <2>1 DEF HoldsMessages
<1>6. HoldsMutexes(t)'
  <2> SUFFICES ASSUME NEW m \in Mutexes, mutex'[m] = t PROVE Leads(new, Gives(m))
    BY <1>4 DEF HoldsMutexes
  <2>1. CASE mutex[m] = t /\ step \notin Gives(m)
    <3>1. Leads(todo[t], Gives(m))
      BY <2>1 DEF Held, HoldsMutexes
    <3>2. step \in Handler /\ Leads(rest, Gives(m))
      BY <1>1, <2>1, <3>1, LeadsHead DEF rest
    <3> QED BY <1>1, <3>2, LeadsOver DEF new
  <2>2. CASE text # <<>> /\ Head(text) \in Gives(m)
    BY <1>3, <2>2, LeadsFirst
  <2> QED BY <1>1, <2>1, <2>2
<1>7. \A m \in Mutexes : mutex'[m] \in {mutex[m], NULL, t}
  OBVIOUS
<1> QED BY <1>4, <1>5, <1>6, <1>7, OneSteps

(* ... and with what follows.                                               *)
LEMMA DoneHeld ==
    ASSUME IInv, Held, NEW t \in Threads, NEW step, At(t, step), Done(t),
           \/ mutex_messages' = NULL
           \/ mutex_messages' = mutex_messages /\ step \notin {"write", "log"},
           logger' = logger \/ logger # "look",
           \A m \in Mutexes :
               mutex'[m] = NULL \/ (mutex'[m] = mutex[m] /\ step \notin Gives(m))
    PROVE  Held'
<1>1. <<>> \in Seq(Steps) /\ ToSet(<<>>) \subseteq Handler
  BY TextsTyped DEF ToSet
<1> QED BY <1>1, ThenHeld DEF Done

(* Who has nothing to do holds nothing, but for the logger's thread.        *)
LEMMA IdleHoldsNothing ==
    ASSUME Held, NEW t \in Threads, t # "logger", todo[t] = <<>>
    PROVE  mutex_messages # t /\ \A m \in Mutexes : mutex[m] # t
<1>1. <<>> \in Seq(Steps) /\ HoldsMessages(t) /\ HoldsMutexes(t)
  BY DEF Held
<1> QED BY <1>1, LeadsHead DEF HoldsMessages, HoldsMutexes

(* A thread that holds nothing goes on with another text, and threads may   *)
(* begin.                                                                   *)
LEMMA TurnsHeld ==
    ASSUME IInv, Held, NEW t \in Threads, NEW step, At(t, step),
           step \notin Handler, \A m \in Mutexes : step \notin Gives(m),
           \A u \in Threads :
               u # t => todo'[u] = todo[u] \/ (todo[u] = <<>> /\ u # "logger"),
           UNCHANGED <<mutex_messages, logger, mutex>>
    PROVE  Held'
<1>1. todo[t] \in Seq(Steps) /\ todo[t] # <<>> /\ Head(todo[t]) = step
  BY DEF IInv, Texts, At
<1>2. mutex_messages # t
  BY <1>1 DEF Held, HoldsMessages, Handler
<1>3. ASSUME NEW m \in Mutexes PROVE mutex[m] # t
  BY <1>1, <1>3, LeadsHead DEF Held, HoldsMutexes
<1> SUFFICES ASSUME NEW u \in Threads PROVE HoldsMessages(u)' /\ HoldsMutexes(u)'
  BY DEF Held
<1>4. CASE todo'[u] = todo[u]
  BY <1>4 DEF Held, HoldsMessages, HoldsMutexes
<1>5. CASE mutex_messages # u /\ \A m \in Mutexes : mutex[m] # u
  BY <1>5 DEF HoldsMessages, HoldsMutexes
<1> QED BY <1>2, <1>3, <1>4, <1>5, IdleHoldsNothing

LEMMA SameHeld ==
    ASSUME Held, UNCHANGED <<todo, mutex, mutex_messages, logger>>
    PROVE  Held'
BY DEF Held, HoldsMessages, HoldsMutexes

(* What a step does to the loop's mutexes.                                  *)
LEMMA MutexChanges ==
    ASSUME IInv, NEW t \in Threads, NEW m \in Mutexes
    PROVE  /\ Locks(t, m) => mutex'[m] = t /\ \A o \in Mutexes : o # m => mutex'[o] = mutex[o]
           /\ Unlocks(m) => mutex'[m] = NULL /\ \A o \in Mutexes : o # m => mutex'[o] = mutex[o]
BY DEF IInv, Typed, Locks, Unlocks

(* The steps that handlers do and that give mutexes back.                   *)
LEMMA StepsApart ==
    /\ "is_run" \in Mutexes /\ "registered" \in Mutexes
    /\ \A m \in Mutexes : m = "is_run" \/ m = "registered"
    /\ Gives("is_run") = {"test", "stopping", "opening"} /\ Gives("registered") = {"walk"}
    /\ \A m \in Mutexes, s \in Steps :
           s \in Gives(m) => s \in {"test", "stopping", "opening", "walk"}
    /\ Head(<<"write">>) = "write" /\ <<"write">> # <<>> /\ ToSet(<<"write">>) \subseteq Handler
    /\ ToSet(<<"stopping">>) \subseteq Handler /\ ToSet(<<"log">>) \subseteq Handler
    /\ ToSet(posix_signal_handler) \subseteq Handler
    /\ posix_signal_handler # <<>> /\ Head(posix_signal_handler) = "log"
BY DEF Mutexes, Gives, Handler, ToSet, posix_signal_handler

-----------------------------------------------------------------------------
(* The steps of any thread.                                                 *)

LEMMA LogHeld == ASSUME IInv, Held, NEW t \in Threads, Log(t) PROVE Held'
<1>1. At(t, "log") /\ UNCHANGED mutex
  BY DEF Log, loopVars
<1>2. CASE logger # "freed" /\ LockMessages(t) /\ Then(t, <<"write">>)
  <2>1. UNCHANGED logger /\ mutex_messages' = t
    BY <1>2 DEF LockMessages
  <2>2. <<"write">> \in Seq(Steps)
    BY TextsTyped
  <2>3. \A m \in Mutexes : "log" \notin Gives(m)
    BY DEF Gives
  <2> QED BY <1>1, <1>2, <2>1, <2>2, <2>3, StepsApart, ThenHeld
<1>3. CASE UNCHANGED <<logVars, todo>>
  BY <1>1, <1>3, SameHeld DEF logVars
<1> QED BY <1>2, <1>3 DEF Log

LEMMA WriteHeld == ASSUME IInv, Held, NEW t \in Threads, Write(t) PROVE Held'
<1>1. At(t, "write") /\ Done(t) /\ UNCHANGED mutex /\ UNCHANGED logger /\ mutex_messages' = NULL
  BY DEF Write, log_write, loopVars
<1>2. \A m \in Mutexes : "write" \notin Gives(m)
  BY DEF Gives
<1> QED BY <1>1, <1>2, DoneHeld

LEMMA CheckHeld == ASSUME IInv, Held, NEW t \in Threads, Check(t) PROVE Held'
<1>1. At(t, "check") /\ UNCHANGED <<mutex_messages, logger>>
  BY DEF Check, logVars
<1>2. "check" \notin Handler /\ \A m \in Mutexes : "check" \notin Gives(m)
  BY DEF Handler, Gives
<1>3. CASE Locks(t, "is_run") /\ Then(t, <<"test">>)
  <2>1. <<"test">> \in Seq(Steps) /\ <<"test">> # <<>> /\ Head(<<"test">>) \in Gives("is_run")
    BY TextsTyped DEF Gives
  <2>2. \A m \in Mutexes : mutex'[m] = mutex[m] \/ (mutex'[m] = t /\ m = "is_run")
    BY <1>3, StepsApart, MutexChanges
  <2>3. \A m \in Mutexes :
           \/ mutex'[m] = mutex[m] /\ "check" \notin Gives(m)
           \/ mutex'[m] = t /\ <<"test">> # <<>> /\ Head(<<"test">>) \in Gives(m)
    BY <1>2, <2>1, <2>2
  <2>4. "check" \notin {"write", "log"}
    OBVIOUS
  <2> QED BY <1>1, <1>2, <1>3, <2>1, <2>3, <2>4, ThenHeld
<1>4. CASE Done(t) /\ UNCHANGED mutex
  BY <1>1, <1>2, <1>4, DoneHeld
<1> QED BY <1>3, <1>4 DEF Check

LEMMA TestHeld == ASSUME IInv, Held, NEW t \in Threads, Test(t) PROVE Held'
<1>1. /\ At(t, "test") /\ Unlocks("is_run") /\ UNCHANGED <<mutex_messages, logger>>
      /\ \E text \in {Turn(t), <<>>} : Then(t, text)
  BY DEF Test, logVars
<1>2. PICK text \in {Turn(t), <<>>} : Then(t, text)
  BY <1>1
<1>3. Turn(t) \in {Turn("manager"), Turn("main")}
  BY DEF Turn
<1>4. text \in Seq(Steps)
  BY <1>2, <1>3, TextsTyped
<1>5. \A m \in Mutexes : mutex'[m] = NULL \/ (mutex'[m] = mutex[m] /\ m = "registered")
  BY <1>1, StepsApart, MutexChanges
<1>6. "test" \notin Handler /\ "test" \notin Gives("registered")
  BY DEF Handler, Gives
<1> HIDE DEF Handler
<1> QED BY <1>1, <1>2, <1>4, <1>5, <1>6, ThenHeld

LEMMA StopHeld == ASSUME IInv, Held, NEW t \in Threads, Stop(t) PROVE Held'
<1>1. At(t, "stop") /\ UNCHANGED <<mutex_messages, logger>>
  BY DEF Stop, logVars
<1>2. \A m \in Mutexes : "stop" \notin Gives(m)
  BY DEF Gives
<1>3. <<"stopping">> \in Seq(Steps) /\ <<"log">> \in Seq(Steps)
  BY TextsTyped
<1>4. CASE Locks(t, "is_run") /\ Then(t, <<"stopping">>)
  <2>1. \A m \in Mutexes : mutex'[m] = mutex[m] \/ (mutex'[m] = t /\ m = "is_run")
    BY <1>4, StepsApart, MutexChanges
  <2>2. <<"stopping">> # <<>> /\ Head(<<"stopping">>) \in Gives("is_run")
    BY DEF Gives
  <2>3. \A m \in Mutexes :
           \/ mutex'[m] = mutex[m] /\ "stop" \notin Gives(m)
           \/ mutex'[m] = t /\ <<"stopping">> # <<>> /\ Head(<<"stopping">>) \in Gives(m)
    BY <1>2, <2>1, <2>2
  <2>4. "stop" \notin {"write", "log"} /\ ToSet(<<"stopping">>) \subseteq Handler
    BY StepsApart
  <2> QED BY <1>1, <1>3, <1>4, <2>3, <2>4, ThenHeld
<1>5. CASE Then(t, <<"log">>) /\ UNCHANGED mutex
  <2>1. \A m \in Mutexes : mutex'[m] = mutex[m] /\ "stop" \notin Gives(m)
    BY <1>2, <1>5
  <2>2. "stop" \notin {"write", "log"} /\ ToSet(<<"log">>) \subseteq Handler
    BY StepsApart
  <2> QED BY <1>1, <1>3, <1>5, <2>1, <2>2, ThenHeld
<1>6. CASE UNCHANGED <<todo, mutex>>
  BY <1>1, <1>6, SameHeld
<1> QED BY <1>4, <1>5, <1>6 DEF Stop

LEMMA StoppingHeld == ASSUME IInv, Held, NEW t \in Threads, Stopping(t) PROVE Held'
<1>1. /\ At(t, "stopping") /\ Unlocks("is_run") /\ Done(t)
      /\ UNCHANGED <<mutex_messages, logger>>
  BY DEF Stopping, logVars
<1>2. \A m \in Mutexes : mutex'[m] = NULL \/ (mutex'[m] = mutex[m] /\ m = "registered")
  BY <1>1, StepsApart, MutexChanges
<1>3. "stopping" \notin Gives("registered")
  BY DEF Gives
<1> QED BY <1>1, <1>2, <1>3, DoneHeld

(* Steps that end and touch no mutex.                                       *)
LEMMA PlainHeld ==
    ASSUME IInv, Held, NEW t \in Threads, NEW step, At(t, step), Done(t),
           step \notin {"write", "log"}, \A m \in Mutexes : step \notin Gives(m),
           UNCHANGED <<mutex, mutex_messages>>, logger' = logger \/ logger # "look"
    PROVE  Held'
BY DoneHeld

LEMMA RunHeld == ASSUME IInv, Held, NEW t \in Threads, ElRun(t) \/ ReturnFromHandler(t) PROVE Held'
<1>1. \A m \in Mutexes : "el_run" \notin Gives(m) /\ "return" \notin Gives(m)
  BY DEF Gives
<1>2. UNCHANGED <<mutex, mutex_messages, logger>>
  BY DEF ElRun, ReturnFromHandler, logVars, loopVars
<1>3. CASE At(t, "el_run") /\ Then(t, <<"log">>)
  <2>1. <<"log">> \in Seq(Steps) /\ "el_run" \notin Handler
    BY TextsTyped DEF Handler
  <2> QED BY <1>1, <1>2, <1>3, <2>1, ThenHeld
<1>4. CASE (At(t, "el_run") \/ At(t, "return")) /\ Done(t)
  BY <1>1, <1>2, <1>4, PlainHeld
<1> QED BY <1>3, <1>4 DEF ElRun, ReturnFromHandler

(* A signal puts a handler before whatever the thread holds.                *)
LEMMA SignalHeld == ASSUME IInv, Held, NEW t \in Threads, Signal(t) PROVE Held'
<1> DEFINE h == posix_signal_handler
           rest == IF At(t, "poll") THEN <<"eintr">> \o todo[t] ELSE todo[t]
           new == h \o rest
<1>1. todo \in [Threads -> Seq(Steps)] /\ todo[t] \in Seq(Steps)
  BY DEF IInv, Texts
<1>2. todo' = [todo EXCEPT ![t] = new] /\ UNCHANGED <<mutex, mutex_messages, logger>>
  BY <1>1 DEF Signal, logVars, loopVars
<1>3. h \in Seq(Steps) /\ <<"eintr">> \in Seq(Steps)
  BY TextsTyped
<1>4. rest \in Seq(Steps)
  BY <1>1, <1>3, StepsBefore, Zenon
<1>5. h # <<>> /\ Head(h) = "log" /\ ToSet(h) \subseteq Handler
  BY StepsApart
<1> HIDE DEF h
<1>6. new \in Seq(Steps) /\ new # <<>> /\ Head(new) = "log"
  <2> HIDE DEF rest
  <2> QED BY <1>3, <1>4, <1>5
<1>7. ASSUME NEW m \in Mutexes, mutex[m] = t PROVE Leads(new, Gives(m))
  <2>1. Leads(todo[t], Gives(m))
    BY <1>7 DEF Held, HoldsMutexes
  <2>2. ~At(t, "poll")
    <3>1. "poll" \notin Handler /\ "poll" \notin Gives(m)
      BY DEF Handler, Gives
    <3> QED BY <1>1, <2>1, <3>1, LeadsHead DEF At
  <2> QED BY <1>1, <1>3, <1>5, <2>1, <2>2, LeadsOver
<1> HIDE DEF new
<1>8. todo'[t] = new /\ \A u \in Threads : u # t => todo'[u] = todo[u]
  BY <1>1, <1>2, <1>6
<1>9. HoldsMessages(t)'
  BY <1>6, <1>8 DEF HoldsMessages
<1>10. HoldsMutexes(t)'
  BY <1>2, <1>7, <1>8 DEF HoldsMutexes
<1> QED BY <1>2, <1>8, <1>9, <1>10, OneSteps

-----------------------------------------------------------------------------
(* The steps of the manager, of main and of the logger.                     *)

LEMMA ManagerHeld == ASSUME IInv, Held, ManagerStep PROVE Held'
<1>1. "manager" \in Threads
  BY ThreadsApart
<1>2. \A s \in {"set_is_run", "build", "serve", "poll", "eintr"} :
         s \notin Handler /\ \A m \in Mutexes : s \notin Gives(m)
  BY DEF Handler, Gives
<1>3. UNCHANGED <<mutex_messages, logger>>
  BY DEF ManagerStep, SetIsRun, LockRegistered, Walk, Poll, Interrupted, logVars
<1>4. todo \in [Threads -> Seq(Steps)]
  BY DEF IInv, Texts
<1>5. CASE SetIsRun
  <2>1. At("manager", "set_is_run") /\ Done("manager") /\ UNCHANGED mutex
    BY <1>5 DEF SetIsRun
  <2> QED BY <1>1, <1>2, <1>3, <2>1, PlainHeld DEF Handler
<1>6. ASSUME NEW step \in {"build", "serve"}, LockRegistered(step) PROVE Held'
  <2>1. At("manager", step)
    BY <1>6 DEF LockRegistered
  <2>2. CASE Locks("manager", "registered") /\ Then("manager", <<"walk">>)
    <3>1. <<"walk">> \in Seq(Steps) /\ <<"walk">> # <<>> /\ Head(<<"walk">>) \in Gives("registered")
      BY TextsTyped DEF Gives
    <3>2. \A m \in Mutexes : mutex'[m] = mutex[m] \/ (mutex'[m] = "manager" /\ m = "registered")
      BY <1>1, <2>2, StepsApart, MutexChanges
    <3>3. step \notin {"write", "log"}
      BY <1>2 DEF Handler
    <3> QED BY <1>1, <1>2, <1>3, <2>1, <2>2, <3>1, <3>2, <3>3, ThenHeld
  <2>3. CASE UNCHANGED mutex /\ \A u \in Threads : u # "manager" => todo'[u] = todo[u]
    BY <1>1, <1>2, <1>3, <2>1, <2>3, TurnsHeld
  <2>4. (\E text : todo' = [todo EXCEPT !["manager"] = text]) =>
            \A u \in Threads : u # "manager" => todo'[u] = todo[u]
    BY <1>4
  <2> QED BY <1>6, <2>2, <2>3, <2>4 DEF LockRegistered
<1>7. CASE Walk
  <2>1. At("manager", "walk")
    BY <1>7 DEF Walk
  <2>2. CASE Unlocks("registered") /\ Done("manager")
    <3>1. \A m \in Mutexes : mutex'[m] = NULL \/ (mutex'[m] = mutex[m] /\ m = "is_run")
      BY <1>1, <2>2, StepsApart, MutexChanges
    <3>2. "walk" \notin Gives("is_run")
      BY DEF Gives
    <3> QED BY <1>1, <1>3, <2>1, <2>2, <3>1, <3>2, DoneHeld
  <2>3. CASE UNCHANGED <<todo, mutex>>
    BY <1>3, <2>3, SameHeld
  <2> QED BY <1>7, <2>2, <2>3 DEF Walk
<1>8. CASE Poll
  <2>1. At("manager", "poll") /\ UNCHANGED mutex
    BY <1>8 DEF Poll, loopVars
  <2>2. CASE Done("manager")
    BY <1>1, <1>2, <1>3, <2>1, <2>2, PlainHeld DEF Handler
  <2>3. CASE todo' = [todo EXCEPT !["manager"] = <<"check">>]
    <3>1. \A u \in Threads : u # "manager" => todo'[u] = todo[u]
      BY <1>4, <2>3
    <3> QED BY <1>1, <1>2, <1>3, <2>1, <3>1, TurnsHeld
  <2> QED BY <1>8, <2>2, <2>3 DEF Poll
<1>9. CASE Interrupted
  <2>1. At("manager", "eintr") /\ UNCHANGED mutex /\ todo' = [todo EXCEPT !["manager"] = <<>>]
    BY <1>9 DEF Interrupted, loopVars
  <2>2. \A u \in Threads : u # "manager" => todo'[u] = todo[u]
    BY <1>4, <2>1
  <2> QED BY <1>1, <1>2, <1>3, <2>1, <2>2, TurnsHeld
<1> QED BY <1>5, <1>6, <1>7, <1>8, <1>9 DEF ManagerStep

LEMMA MainHeld == ASSUME IInv, Held, MainStep PROVE Held'
<1>1. "main" \in Threads
  BY ThreadsApart
<1>2. \A s \in {"config", "socket", "open", "create", "spawn", "join", "destroy", "free_queues",
                 "join_manager", "join_nobody", "stop_logger", "free_logger", "return_from_main",
                 "give_up"} :
         s \notin Handler /\ s \notin {"write", "log"} /\ \A m \in Mutexes : s \notin Gives(m)
  BY DEF Handler, Gives
<1>3. todo \in [Threads -> Seq(Steps)]
  BY DEF IInv, Texts
<1>4. ASSUME NEW text, todo' = [todo EXCEPT !["main"] = text]
      PROVE  \A u \in Threads : u # "main" => todo'[u] = todo[u]
  BY <1>3, <1>4
<1>5. CASE server_config_init \/ make_server_socket \/ GiveUp \/ Return
  <2>1. UNCHANGED <<mutex_messages, logger, mutex>>
    BY <1>5 DEF server_config_init, make_server_socket, GiveUp, Return, logVars, loopVars
  <2>2. PICK step \in {"config", "socket", "give_up", "return_from_main"} : At("main", step)
    BY <1>5 DEF server_config_init, make_server_socket, GiveUp, Return
  <2>3. Done("main") \/ \E text : todo' = [todo EXCEPT !["main"] = text]
    BY <1>5 DEF server_config_init, make_server_socket, GiveUp, Return
  <2>4. CASE Done("main")
    BY <1>1, <1>2, <2>1, <2>2, <2>4, PlainHeld
  <2>5. CASE \E text : todo' = [todo EXCEPT !["main"] = text]
    <3>1. \A u \in Threads : u # "main" => todo'[u] = todo[u]
      BY <1>4, <2>5
    <3> QED BY <1>1, <1>2, <2>1, <2>2, <3>1, TurnsHeld
  <2> QED BY <2>3, <2>4, <2>5
<1>6. CASE thread_pool_free \/ DestroyMutexes \/ FreeQueues \/ JoinManager \/ log_free
  <2>1. UNCHANGED <<mutex_messages, mutex>> /\ (logger' = logger \/ logger # "look")
    BY <1>6 DEF thread_pool_free, DestroyMutexes, FreeQueues, JoinManager, log_free,
       StopLogger, FreeLogger, logVars, loopVars
  <2>2. PICK step \in {"join", "destroy", "free_queues", "join_manager", "stop_logger", "free_logger"} :
          At("main", step)
    BY <1>6 DEF thread_pool_free, DestroyMutexes, FreeQueues, JoinManager, log_free
  <2>3. Done("main")
    BY <1>6 DEF thread_pool_free, DestroyMutexes, FreeQueues, JoinManager, log_free
  <2> QED BY <1>1, <1>2, <2>1, <2>2, <2>3, PlainHeld
<1>7. CASE JoinNobody
  <2>1. At("main", "join_nobody") /\ UNCHANGED <<mutex_messages, logger, mutex>>
    BY <1>7 DEF JoinNobody, logVars
  <2>2. CASE Done("main")
    BY <1>1, <1>2, <2>1, <2>2, PlainHeld
  <2>3. CASE UNCHANGED todo
    BY <2>1, <2>3, SameHeld
  <2> QED BY <1>7, <2>2, <2>3 DEF JoinNobody
<1>8. CASE el_open
  <2>1. /\ At("main", "open") /\ Locks("main", "is_run") /\ Then("main", <<"opening", "create">>)
        /\ UNCHANGED <<mutex_messages, logger>>
    BY <1>8 DEF el_open, logVars
  <2>2. /\ <<"opening", "create">> \in Seq(Steps) /\ <<"opening", "create">> # <<>>
        /\ Head(<<"opening", "create">>) \in Gives("is_run")
    BY TextsTyped DEF Gives
  <2>3. \A m \in Mutexes : mutex'[m] = mutex[m] \/ (mutex'[m] = "main" /\ m = "is_run")
    BY <1>1, <2>1, StepsApart, MutexChanges
  <2>4. \A m \in Mutexes :
           \/ mutex'[m] = mutex[m] /\ "open" \notin Gives(m)
           \/ /\ mutex'[m] = "main" /\ <<"opening", "create">> # <<>>
              /\ Head(<<"opening", "create">>) \in Gives(m)
    BY <1>2, <2>2, <2>3
  <2>5. "open" \notin Handler /\ "open" \notin {"write", "log"}
    BY <1>2
  <2> HIDE DEF Handler, Gives
  <2> QED BY <1>1, <2>1, <2>2, <2>4, <2>5, ThenHeld
<1>9. CASE Opening
  <2>1. /\ At("main", "opening") /\ Unlocks("is_run") /\ Done("main")
        /\ UNCHANGED <<mutex_messages, logger>>
    BY <1>9 DEF Opening, logVars
  <2>2. \A m \in Mutexes : mutex'[m] = NULL \/ (mutex'[m] = mutex[m] /\ m = "registered")
    BY <1>1, <2>1, StepsApart, MutexChanges
  <2>3. "opening" \notin Gives("registered")
    BY DEF Gives
  <2> QED BY <1>1, <2>1, <2>2, <2>3, DoneHeld
<1>10. CASE CreateManager
  <2>1. /\ At("main", "create") /\ UNCHANGED <<mutex_messages, logger, mutex>>
        /\ todo' = [todo EXCEPT !["manager"] = loop_thread, !["main"] = Tail(@)]
    BY <1>10 DEF CreateManager, logVars, loopVars
  <2>2. todo["manager"] = <<>>
    <3>1. Rank("create") = 3
      BY DEF Rank
    <3>2. "create" \in Plan
      BY <2>1, <3>1, Advances
    <3>3. ~Beyond(4)
      BY <3>1, <3>2 DEF Beyond
    <3> QED BY <3>3 DEF IInv, Joined
  <2>3. \A u \in Threads : u # "main" => todo'[u] = todo[u] \/ u = "manager"
    BY <1>3, <2>1
  <2> QED BY <1>1, <1>2, <2>1, <2>2, <2>3, TurnsHeld
<1>11. CASE thread_pool_push
  <2>1. /\ At("main", "spawn") /\ UNCHANGED <<mutex_messages, logger, mutex>>
        /\ todo' = [t \in Threads |-> IF t \in Workers THEN worker_thread
                                      ELSE IF t = "main" THEN Tail(todo[t]) ELSE todo[t]]
    BY <1>11 DEF thread_pool_push, logVars, loopVars
  <2>2. \A w \in Workers : todo[w] = <<>>
    <3>1. Rank("spawn") = 4
      BY DEF Rank
    <3>2. "spawn" \in Plan
      BY <2>1, <3>1, Advances
    <3>3. ~Beyond(5)
      BY <3>1, <3>2 DEF Beyond
    <3> QED BY <3>3 DEF IInv, Joined
  <2>3. \A u \in Threads : u # "main" => todo'[u] = todo[u] \/ u \in Workers
    BY <2>1
  <2> QED BY <1>1, <1>2, <2>1, <2>2, <2>3, ThreadsApart, TurnsHeld
<1> QED BY <1>5, <1>6, <1>7, <1>8, <1>9, <1>10, <1>11 DEF MainStep

(* The logger's thread itself takes the mutex only to look at the queue.    *)
LEMMA LoggerHeld == ASSUME IInv, Held, RunLogger PROVE Held'
<1>1. todo["logger"] = <<>> /\ LoggerStep /\ UNCHANGED <<todo, mutex>>
  BY DEF RunLogger, loopVars
<1>2. /\ mutex_messages' \in {mutex_messages, NULL, "logger"}
      /\ mutex_messages' = "logger" =>
             logger' = "look" \/ (mutex_messages = "logger" /\ logger \in {"wait", "print"})
  BY <1>1, ThreadsApart DEF LoggerStep, LockQueue, Extract, TimedWait, Awake, PrintBatch
<1>3. mutex_messages = "logger" => logger = "look"
  BY <1>1, ThreadsApart DEF Held, HoldsMessages
<1> SUFFICES ASSUME NEW u \in Threads PROVE HoldsMessages(u)' /\ HoldsMutexes(u)'
  BY DEF Held
<1>4. HoldsMutexes(u)'
  BY <1>1 DEF Held, HoldsMutexes
<1>5. HoldsMessages(u)'
  <2>1. CASE u = "logger"
    BY <1>1, <1>2, <1>3, <2>1 DEF HoldsMessages
  <2>2. CASE u # "logger"
    <3>1. HoldsMessages(u) /\ u # NULL
      BY ThreadsApart DEF Held
    <3> QED BY <1>1, <1>2, <2>2, <3>1 DEF HoldsMessages
  <2> QED BY <2>1, <2>2
<1> QED BY <1>4, <1>5

LEMMA NextHeld == IInv /\ Held /\ [Next]_vars => Held'
<1> SUFFICES ASSUME IInv, Held, [Next]_vars  PROVE Held'
  OBVIOUS
<1>1. CASE UNCHANGED vars
  BY <1>1, SameHeld DEF vars, logVars
<1>2. ASSUME NEW t \in Threads, ThreadStep(t) \/ Signal(t)  PROVE Held'
  BY <1>2, LogHeld, WriteHeld, CheckHeld, TestHeld, RunHeld, StopHeld, StoppingHeld, SignalHeld
     DEF ThreadStep
<1> QED BY <1>1, <1>2, ManagerHeld, MainHeld, LoggerHeld DEF Next

LEMMA InitHeld == Init => Held
BY ThreadsApart, StepsApart DEF Init, log_init, Held, HoldsMessages, HoldsMutexes

-----------------------------------------------------------------------------
(* Waits go one way: for the registered events only the manager waits, and  *)
(* its mutex goes first; who holds is_run waits for no other mutex of the   *)
(* loop, and who holds mutex_messages for nothing.  Only a handler that     *)
(* asks for what its own thread holds closes a circle.                      *)

(* The steps at which a thread waits.                                       *)
Waiting(t) ==
    todo[t] # <<>> /\ Head(todo[t]) \in {"log", "check", "stop", "open", "build", "serve",
                                        "join", "join_manager", "free_logger"}

LEMMA WaitsSomewhere ==
    ASSUME NEW t \in Threads, NEW u, WaitsFor(t, u)
    PROVE  /\ process = "up"
           /\ Waiting(t) \/ (t = "logger" /\ todo[t] = <<>> /\ logger \in {"lock", "wait"})
BY DEF WaitsFor, At, Waiting

LEMMA HeldFrees ==
    ASSUME IInv, Held
    PROVE  NoDeadlock
<1> SUFFICES ASSUME NEW S \in SUBSET Threads, S # {},
                    \A t \in S : \E u \in Threads : WaitsFor(t, u) /\ (u \in S \/ ~Alive(u)),
                    \A t \in S : ~SelfLocked(t)
             PROVE  FALSE
  BY DEF NoDeadlock
<1>1. \A t \in S : /\ process = "up"
                   /\ Waiting(t) \/ (t = "logger" /\ todo[t] = <<>> /\ logger \in {"lock", "wait"})
  BY WaitsSomewhere
<1>2. \A t \in Threads : todo[t] \in Seq(Steps)
  BY DEF IInv, Texts
(* Who holds mutex_messages waits for nobody, ...                           *)
<1>3. ASSUME NEW u \in Threads, mutex_messages = u PROVE u \notin S /\ Alive(u)
  <2>1. \/ todo[u] # <<>> /\ Head(todo[u]) \in {"write", "log"}
        \/ u = "logger" /\ todo[u] = <<>> /\ logger = "look"
    BY <1>3 DEF Held, HoldsMessages
  <2>2. Alive(u)
    BY <2>1 DEF Alive
  <2>3. u \notin S
    BY <1>1, <1>3, <2>1 DEF Waiting, SelfLocked, At
  <2> QED BY <2>2, <2>3
(* ... so that nobody of them waits for it ...                              *)
<1>4. \A t \in S : Waiting(t) /\ Head(todo[t]) # "log"
  <2> SUFFICES ASSUME NEW t \in S PROVE Waiting(t) /\ Head(todo[t]) # "log"
    OBVIOUS
  <2>1. PICK u \in Threads : WaitsFor(t, u) /\ (u \in S \/ ~Alive(u))
    OBVIOUS
  <2>2. mutex_messages # u
    BY <1>3, <2>1
  <2> QED BY <1>1, <2>1, <2>2 DEF WaitsFor, At, Waiting
(* ... nor for is_run ...                                                   *)
<1>5. ASSUME NEW u \in Threads, mutex["is_run"] = u PROVE u \notin S /\ Alive(u)
  <2>1. Leads(todo[u], Gives("is_run"))
    BY <1>5, StepsApart DEF Held, HoldsMutexes
  <2>2. todo[u] # <<>> /\ Head(todo[u]) \in Gives("is_run") \cup Handler
    BY <1>2, <2>1, LeadsHead
  <2>3. u \notin S
    <3> SUFFICES ASSUME u \in S PROVE FALSE
      OBVIOUS
    <3>1. Head(todo[u]) = "stop" /\ process = "up"
      BY <1>1, <1>4, <2>2 DEF Waiting, Handler, Gives
    <3> QED BY <1>5, <2>2, <3>1 DEF SelfLocked, At
  <2> QED BY <2>2, <2>3 DEF Alive
<1>6. \A t \in S : Head(todo[t]) \in {"build", "serve", "join", "join_manager", "free_logger"}
  <2> SUFFICES ASSUME NEW t \in S, Head(todo[t]) \in {"check", "stop", "open"} PROVE FALSE
    BY <1>4 DEF Waiting
  <2>1. PICK u \in Threads : WaitsFor(t, u) /\ (u \in S \/ ~Alive(u))
    OBVIOUS
  <2>2. mutex["is_run"] = u
    BY <1>4, <2>1 DEF WaitsFor, At, Waiting
  <2> QED BY <1>5, <2>1, <2>2
(* ... nor for the registered events.                                       *)
<1>7. ASSUME NEW u \in Threads, mutex["registered"] = u PROVE u \notin S /\ Alive(u)
  <2>1. Leads(todo[u], Gives("registered"))
    BY <1>7, StepsApart DEF Held, HoldsMutexes
  <2>2. todo[u] # <<>> /\ Head(todo[u]) \in Gives("registered") \cup Handler
    BY <1>2, <2>1, LeadsHead
  <2>3. u \notin S
    BY <1>6, <2>2 DEF Handler, Gives
  <2> QED BY <2>2, <2>3 DEF Alive
<1>8. \A t \in S : Head(todo[t]) \in {"join", "join_manager", "free_logger"}
  <2> SUFFICES ASSUME NEW t \in S, Head(todo[t]) \in {"build", "serve"} PROVE FALSE
    BY <1>6
  <2>1. PICK u \in Threads : WaitsFor(t, u) /\ (u \in S \/ ~Alive(u))
    OBVIOUS
  <2>2. mutex["registered"] = u
    BY <1>4, <2>1 DEF WaitsFor, At, Waiting
  <2> QED BY <1>7, <2>1, <2>2
(* What is left are the joins, for others than main that still run.         *)
<1>9. PICK t \in S : TRUE
  OBVIOUS
<1>10. PICK u \in Threads : WaitsFor(t, u) /\ (u \in S \/ ~Alive(u))
  OBVIOUS
<1>11. t = "main" /\ u # "main" /\ Alive(u)
  <2>1. /\ t = "main"
        /\ \/ u \in Workers /\ todo[u] # <<>>
           \/ u = "manager" /\ todo[u] # <<>>
           \/ u = "logger" /\ logger \notin {"gone", "freed"}
    BY <1>4, <1>8, <1>10 DEF WaitsFor, At, Waiting
  <2> QED BY <2>1, ThreadsApart DEF Alive
<1>12. u \in S
  BY <1>10, <1>11
<1>13. PICK v \in Threads : WaitsFor(u, v) /\ (v \in S \/ ~Alive(v))
  BY <1>12
<1>14. u = "main"
  BY <1>4, <1>8, <1>12, <1>13 DEF WaitsFor, At, Waiting
<1> QED BY <1>11, <1>14

(* Whatever thread a signal interrupts and whichever mutex that holds:      *)
(* threads and joins never wait for each other in a circle or for a mutex   *)
(* that nobody gives back, but where a handler locks what its own thread    *)
(* holds.                                                                   *)
THEOREM DeadlockCorrect == Spec => []NoDeadlock
<1>1. Init => IInv /\ Held
  BY InitHolds, InitHeld
<1>2. (IInv /\ Held) /\ [Next]_vars => (IInv /\ Held)'
  BY NextKeeps, NextHeld
<1>3. IInv /\ Held => NoDeadlock
  BY HeldFrees
<1> QED BY <1>1, <1>2, <1>3, PTL DEF Spec
===============================================================================
