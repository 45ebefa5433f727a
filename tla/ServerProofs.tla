---------------------------- MODULE ServerProofs -----------------------------
(***************************************************************************)
(* Proofs about the connections of the server, for any number of workers,   *)
(* descriptors and users.  With and without timeouts, a user_context is     *)
(* never in two hands.  The second part is about what holds as long as no   *)
(* session times out: a connection has one turn, which passes from a        *)
(* registered event to the handler and from the handler to the next event   *)
(* it registers, and one seat in the list of users.                         *)
(***************************************************************************)
EXTENDS Server, SequenceTheorems, TLAPS

WorkersOK == worker \in [Workers -> WorkerState] /\ TodoInv

(* No worker gets a user, or an address to allocate, that it had not.       *)
Quiet ==
    \A v \in Workers, u \in Users :
        (Holds(v, u)' => Holds(v, u)) /\ (Adds(v, u)' => Adds(v, u))

(* Calls that neither give up a user nor add one.                           *)
Plain(rest) == \A i \in DOMAIN rest : rest[i] \notin UserCalls

(* What a step may leave to be done in a handler: at most one call that     *)
(* concerns a user, and a user for it.                                      *)
GoodTodo(rest, u) ==
    /\ \A i, j \in DOMAIN rest : rest[i] \in UserCalls /\ rest[j] \in UserCalls => i = j
    /\ \A i \in DOMAIN rest : rest[i] \in UserCalls => u # NULL

-----------------------------------------------------------------------------
(* Sequences.                                                               *)

(* The tail of a nonempty sequence is the sequence shifted by one.          *)
LEMMA TailShifts ==
    ASSUME NEW S, NEW s \in Seq(S), s # <<>>
    PROVE  /\ Tail(s) \in Seq(S)
           /\ \A i \in DOMAIN Tail(s) : i + 1 \in DOMAIN s /\ Tail(s)[i] = s[i + 1]
           /\ 1 \in DOMAIN s /\ Head(s) = s[1]
           /\ \A i \in DOMAIN s : i # 1 => i - 1 \in DOMAIN Tail(s) /\ Tail(s)[i - 1] = s[i]
OBVIOUS

(* Appending keeps what was there and adds one element behind it.           *)
LEMMA AppendAdds ==
    ASSUME NEW S, NEW s \in Seq(S), NEW x \in S
    PROVE  /\ Append(s, x) \in Seq(S)
           /\ DOMAIN Append(s, x) = 1 .. (Len(s) + 1)
           /\ DOMAIN s = 1 .. Len(s) /\ Len(s) \in Nat
           /\ \A i \in DOMAIN s : i \in DOMAIN Append(s, x) /\ Append(s, x)[i] = s[i]
           /\ Append(s, x)[Len(s) + 1] = x
OBVIOUS

(* Removing the i-th element keeps the others, in their order.              *)
LEMMA RemoveAtShifts ==
    ASSUME NEW S, NEW s \in Seq(S), NEW i \in DOMAIN s
    PROVE  /\ RemoveAt(s, i) \in Seq(S)
           /\ DOMAIN RemoveAt(s, i) = 1 .. (Len(s) - 1)
           /\ \A j \in DOMAIN RemoveAt(s, i) :
                LET k == IF j < i THEN j ELSE j + 1
                IN  k \in DOMAIN s /\ k # i /\ RemoveAt(s, i)[j] = s[k]
<1> DEFINE n == Len(s)
           a == SubSeq(s, 1, i - 1)
           b == SubSeq(s, i + 1, n)
<1>1. i \in 1 .. n /\ n \in Nat /\ DOMAIN s = 1 .. n
  OBVIOUS
<1>2. a \in Seq(S) /\ Len(a) = i - 1 /\ \A j \in 1 .. (i - 1) : a[j] = s[j]
  BY <1>1, SubSeqProperties
<1>3. b \in Seq(S) /\ Len(b) = n - i /\ \A j \in 1 .. (n - i) : b[j] = s[i + j]
  BY <1>1, SubSeqProperties
<1>4. RemoveAt(s, i) = a \o b
  BY DEF RemoveAt
<1> HIDE DEF a, b, n
<1>5. /\ a \o b \in Seq(S)
      /\ Len(a \o b) = n - 1
      /\ \A j \in 1 .. (n - 1) :
           (a \o b)[j] = IF j <= i - 1 THEN a[j] ELSE b[j - (i - 1)]
  BY <1>1, <1>2, <1>3, ConcatProperties
<1>6. DOMAIN (a \o b) = 1 .. (n - 1)
  BY <1>5
<1>7. ASSUME NEW j \in 1 .. (n - 1)
      PROVE  LET k == IF j < i THEN j ELSE j + 1
             IN  k \in DOMAIN s /\ k # i /\ (a \o b)[j] = s[k]
  <2>1. CASE j < i
    <3>1. j \in 1 .. (i - 1) /\ j <= i - 1
      BY <2>1, <1>1
    <3>2. (a \o b)[j] = s[j]
      BY <3>1, <1>2, <1>5
    <3> QED BY <3>2, <2>1, <1>1
  <2>2. CASE ~(j < i)
    <3>1. j - (i - 1) \in 1 .. (n - i) /\ i + (j - (i - 1)) = j + 1 /\ ~(j <= i - 1)
      BY <2>2, <1>1
    <3>2. (a \o b)[j] = s[j + 1]
      BY <3>1, <1>3, <1>5
    <3> QED BY <3>2, <2>2, <1>1
  <2> QED BY <2>1, <2>2
<1>8. RemoveAt(s, i) \in Seq(S) /\ DOMAIN RemoveAt(s, i) = 1 .. (Len(s) - 1)
  BY <1>4, <1>5, <1>6 DEF n
<1>9. \A j \in DOMAIN RemoveAt(s, i) :
        LET k == IF j < i THEN j ELSE j + 1
        IN  k \in DOMAIN s /\ k # i /\ RemoveAt(s, i)[j] = s[k]
  BY <1>4, <1>6, <1>7
<1> QED BY <1>8, <1>9

-----------------------------------------------------------------------------
(* Workers.                                                                 *)

(* One worker's record changes.                                             *)
LEMMA WorkerChanges ==
    ASSUME IInv, NEW w \in Workers, NEW r \in WorkerState,
           worker' = [worker EXCEPT ![w] = r],
           GoodTodo(r.todo, r.user), r.todo # <<>> => r.sock # NULL
    PROVE  /\ WorkersOK'
           /\ worker'[w] = r
           /\ \A v \in Workers : v # w => worker'[v] = worker[v]
<1>1. /\ worker' \in [Workers -> WorkerState]
      /\ worker'[w] = r
      /\ \A v \in Workers : v # w => worker'[v] = worker[v]
  BY DEF IInv, TypeOK
<1>2. TodoInv'
  BY <1>1 DEF IInv, TodoInv, GoodTodo, WillCall
<1> QED BY <1>1, <1>2 DEF WorkersOK

(* A handler goes on with calls that do not concern users.                  *)
LEMMA ThenPlain ==
    ASSUME IInv, NEW w \in Workers, worker[w].sock # NULL,
           NEW rest \in Seq(Calls), Plain(rest), Then(w, rest)
    PROVE  /\ WorkersOK' /\ Quiet
           /\ \A u \in Users : ~Holds(w, u)' /\ ~Adds(w, u)'
           /\ \A v \in Workers : v # w => worker'[v] = worker[v]
<1> DEFINE r == IF rest = <<>> THEN Idle ELSE [worker[w] EXCEPT !.todo = rest]
<1>1. worker' = [worker EXCEPT ![w] = r]
  BY DEF Then, IInv, TypeOK
<1>2. worker[w] \in WorkerState
  BY DEF IInv, TypeOK
<1>3. r \in WorkerState /\ (r.todo = rest) /\ (r.todo # <<>> => r.sock # NULL)
  BY <1>2 DEF WorkerState, Idle
<1> HIDE DEF r
<1>4. GoodTodo(r.todo, r.user)
  BY <1>3 DEF GoodTodo, Plain
<1>5. /\ WorkersOK' /\ worker'[w] = r
      /\ \A v \in Workers : v # w => worker'[v] = worker[v]
  BY <1>1, <1>3, <1>4, WorkerChanges
<1>6. \A u \in Users : ~Holds(w, u)' /\ ~Adds(w, u)'
  BY <1>3, <1>5 DEF Holds, Adds, WillCall, Plain, UserCalls
<1>7. Quiet
  BY <1>5, <1>6 DEF Quiet, Holds, Adds, WillCall
<1> QED BY <1>5, <1>6, <1>7

(* A worker has made the call at the head of its todo.                      *)
LEMMA ContinueQuiet ==
    ASSUME IInv, NEW w \in Workers, worker[w].todo # <<>>, Continue(w)
    PROVE  /\ WorkersOK' /\ Quiet
           /\ \A v \in Workers : v # w => worker'[v] = worker[v]
           /\ Head(worker[w].todo) \in HoldCalls => \A u \in Users : ~Holds(w, u)'
           /\ \A u \in Users : Holds(w, u) /\ Head(worker[w].todo) \notin HoldCalls
                                 => Holds(w, u)'
<1> DEFINE t == worker[w].todo
           r == IF Tail(t) = <<>> THEN Idle ELSE [worker[w] EXCEPT !.todo = Tail(t)]
<1>1. worker' = [worker EXCEPT ![w] = r]
  BY DEF Continue, Then, IInv, TypeOK
<1>2. worker[w] \in WorkerState /\ t \in Seq(Calls) /\ t # <<>> /\ worker[w].sock # NULL
  BY DEF IInv, TypeOK, WorkerState, TodoInv
<1> HIDE DEF t
<1>3. /\ Tail(t) \in Seq(Calls)
      /\ \A i \in DOMAIN Tail(t) : i + 1 \in DOMAIN t /\ Tail(t)[i] = t[i + 1]
      /\ 1 \in DOMAIN t /\ Head(t) = t[1]
      /\ \A i \in DOMAIN t : i # 1 => i - 1 \in DOMAIN Tail(t) /\ Tail(t)[i - 1] = t[i]
  BY <1>2, TailShifts
<1>4. /\ r \in WorkerState /\ r.todo = Tail(t) /\ (r.todo # <<>> => r.sock # NULL)
      /\ r.todo # <<>> => r.user = worker[w].user
  BY <1>2, <1>3 DEF WorkerState, Idle, t
<1> HIDE DEF r
<1>5. /\ \A i, j \in DOMAIN t : t[i] \in UserCalls /\ t[j] \in UserCalls => i = j
      /\ \A i \in DOMAIN t : t[i] \in UserCalls => worker[w].user # NULL
  BY DEF IInv, TodoInv, WillCall, t
<1>6. DOMAIN t \subseteq Int /\ DOMAIN Tail(t) \subseteq Int
  BY <1>2, <1>3
<1>7. GoodTodo(r.todo, r.user)
  <2>1. \A i, j \in DOMAIN Tail(t) :
          Tail(t)[i] \in UserCalls /\ Tail(t)[j] \in UserCalls => i = j
    BY <1>3, <1>5, <1>6
  <2>2. \A i \in DOMAIN Tail(t) : r.user = worker[w].user
    BY <1>3, <1>4
  <2>3. \A i \in DOMAIN Tail(t) : Tail(t)[i] \in UserCalls => r.user # NULL
    BY <1>3, <1>5, <2>2
  <2> QED BY <2>1, <2>3, <1>4 DEF GoodTodo
<1>8. /\ WorkersOK' /\ worker'[w] = r
      /\ \A v \in Workers : v # w => worker'[v] = worker[v]
  BY <1>1, <1>4, <1>7, WorkerChanges
<1>9. ASSUME NEW C, WillCall(w, C)'
      PROVE  WillCall(w, C) /\ worker'[w].user = worker[w].user
  <2>1. PICK i \in DOMAIN Tail(t) : Tail(t)[i] \in C
    BY <1>4, <1>8, <1>9 DEF WillCall
  <2>2. i + 1 \in DOMAIN t /\ t[i + 1] \in C
    BY <2>1, <1>3
  <2>3. r.todo # <<>>
    BY <2>1, <1>4
  <2> QED BY <2>2, <2>3, <1>4, <1>8 DEF WillCall, t
<1>10. Quiet
  BY <1>8, <1>9 DEF Quiet, Holds, Adds, WillCall
<1>11. ASSUME Head(t) \in HoldCalls, NEW u \in Users
       PROVE  ~Holds(w, u)'
  <2>1. \A i \in DOMAIN Tail(t) : Tail(t)[i] \notin HoldCalls
    BY <1>3, <1>5, <1>6, <1>11 DEF UserCalls
  <2> QED BY <2>1, <1>4, <1>8 DEF Holds, WillCall
<1>12. ASSUME NEW u \in Users, Holds(w, u), Head(t) \notin HoldCalls
       PROVE  Holds(w, u)'
  <2>1. PICK i \in DOMAIN t : t[i] \in HoldCalls
    BY <1>12 DEF Holds, WillCall, t
  <2>2. i # 1 /\ i - 1 \in DOMAIN Tail(t) /\ Tail(t)[i - 1] \in HoldCalls
    BY <2>1, <1>3, <1>12
  <2>3. Tail(t) # <<>>
    BY <2>2
  <2> QED BY <2>2, <2>3, <1>4, <1>8, <1>12 DEF Holds, WillCall
<1> QED BY <1>8, <1>10, <1>11, <1>12 DEF t

-----------------------------------------------------------------------------
(* Steps that give no worker a user.                                        *)

(* If the list and the allocation stay as they are, users stay exclusive.   *)
LEMMA QuietExclusive ==
    ASSUME IInv, Quiet, UNCHANGED <<owned, users>>
    PROVE  UserExclusive'
BY DEF IInv, UserExclusive, Quiet

(* If no accept event appears and nothing is allocated, the addresses       *)
(* announced to handler_accept stay reserved.                               *)
NothingAnnounced ==
    /\ \A i \in DOMAIN occurred' : occurred'[i].kind = "accept" =>
         i \in DOMAIN occurred /\ occurred'[i] = occurred[i]
    /\ \A e \in registered' : e.kind # "accept"
    /\ held' # NULL => held'.kind # "accept"
    /\ \A u \in Users : owned[u] = NULL => owned'[u] = NULL

(* If no accept event and no user moves, the announced addresses stay.      *)
LEMMA QuietReserved ==
    ASSUME IInv, Quiet, NothingAnnounced
    PROVE  ReservedInv'
<1>1. \A i \in DOMAIN occurred', u \in Users :
        Announced(i, u)' => i \in DOMAIN occurred /\ Announced(i, u)
  BY DEF NothingAnnounced, Announced
<1>2. \A i \in DOMAIN occurred' : occurred'[i].kind = "accept" => occurred'[i].user # NULL
  BY DEF NothingAnnounced, IInv, ReservedInv
<1>3. \A u \in Users :
        /\ \A i, j \in DOMAIN occurred' : Announced(i, u)' /\ Announced(j, u)' => i = j
        /\ \A v, w \in Workers : Adds(v, u)' /\ Adds(w, u)' => v = w
        /\ \A i \in DOMAIN occurred' : Announced(i, u)' =>
             owned'[u] = NULL /\ \A w \in Workers : ~Adds(w, u)'
        /\ \A w \in Workers : Adds(w, u)' => owned'[u] = NULL
  BY <1>1 DEF NothingAnnounced, Quiet, IInv, ReservedInv
<1> QED BY <1>2, <1>3 DEF NothingAnnounced, ReservedInv

(* An event that is not an accept event is appended.                        *)
LEMMA AppendAnnouncesNothing ==
    ASSUME IInv, NEW e \in Event, e.kind # "accept", occurred' = Append(occurred, e)
    PROVE  /\ occurred' \in Seq(Event)
           /\ \A i \in DOMAIN occurred' : occurred'[i].kind = "accept" =>
                i \in DOMAIN occurred /\ occurred'[i] = occurred[i]
<1>1. occurred \in Seq(Event)
  BY DEF IInv, TypeOK
<1> QED BY <1>1, AppendAdds

(* The workers are as they were.                                            *)
LEMMA WorkersUnchanged ==
    ASSUME IInv, UNCHANGED worker
    PROVE  WorkersOK' /\ Quiet
BY DEF IInv, TypeOK, TodoInv, WorkersOK, Quiet, Holds, Adds, WillCall

(* Registering an event.                                                    *)
LEMMA RegisterTyped ==
    ASSUME IInv, NEW kind \in Kinds \ {"accept"}, NEW s \in Descriptors,
           NEW u \in Users \cup {NULL}, Register(NewEvent(kind, s, u))
    PROVE  registered' \subseteq Event /\ \A e \in registered' : e.kind # "accept"
<1>1. NewEvent(kind, s, u) \in Event /\ NewEvent(kind, s, u).kind = kind
  BY DEF NewEvent, Event
<1>2. registered' \subseteq registered \cup {NewEvent(kind, s, u)}
  BY DEF Register
<1> QED BY <1>1, <1>2 DEF IInv, TypeOK, ReservedInv

(* Marking a timer elapsed or not.                                          *)
LEMMA TimerSet ==
    ASSUME IInv, NEW i \in DOMAIN timers, NEW b \in BOOLEAN
    PROVE  [timers EXCEPT ![i].elapsed = b] \in Seq([sock : Descriptors, elapsed : BOOLEAN])
<1> DEFINE T == [sock : Descriptors, elapsed : BOOLEAN]
           r == [timers[i] EXCEPT !.elapsed = b]
<1>1. timers \in Seq(T) /\ i \in 1 .. Len(timers) /\ timers[i] \in T
  <2>1. timers \in Seq(T)
    BY DEF IInv, TypeOK
  <2> HIDE DEF T
  <2> QED BY <2>1
<1>2. r \in T
  BY <1>1
<1>3. [timers EXCEPT ![i].elapsed = b] = [timers EXCEPT ![i] = r]
  OBVIOUS
<1> HIDE DEF r, T
<1>4. [timers EXCEPT ![i] = r] \in Seq(T)
  BY <1>1, <1>2, ExceptSeq
<1> QED BY <1>3, <1>4 DEF T

(* A worker with something to do knows its socket.                          *)
LEMMA SockTyped ==
    ASSUME IInv, NEW w \in Workers, worker[w].todo # <<>>
    PROVE  Sock(w) \in Descriptors /\ worker[w] \in WorkerState
BY DEF IInv, TypeOK, WorkerState, TodoInv, Sock

-----------------------------------------------------------------------------
(* The steps of the loop.                                                   *)

(* In the beginning there are no users and no handlers run.                 *)
LEMMA InitIInv == Init => IInv
<1> SUFFICES ASSUME Init PROVE IInv
  OBVIOUS
<1>1. TypeOK
  BY DEF Init, TypeOK, Idle, WorkerState
<1>2. TodoInv
  BY DEF Init, TodoInv, Idle, WillCall
<1>3. ReservedInv
  BY DEF Init, ReservedInv, Idle, Adds, WillCall
<1>4. UserExclusive
  BY DEF Init, UserExclusive, Idle, Holds, WillCall
<1> QED BY <1>1, <1>2, <1>3, <1>4 DEF IInv

(* The manager's I/O moves events that announce nothing.                    *)
LEMMA LoopIInv ==
    ASSUME IInv, (\E e \in registered : StartIO(e)) \/ FinishIO \/ Elapse \/ UNCHANGED vars
    PROVE  IInv'
<1>1. WorkersOK' /\ Quiet /\ UNCHANGED <<owned, users, done, worker>>
  BY WorkersUnchanged DEF StartIO, FinishIO, Elapse, vars
<1>2. CASE \E e \in registered : StartIO(e)
  <2>1. /\ registered' \subseteq registered /\ held' \in registered
        /\ UNCHANGED <<timers, alarms, occurred, open>>
    BY <1>2 DEF StartIO
  <2>2. TypeOK'
    BY <1>1, <2>1 DEF IInv, TypeOK, WorkersOK
  <2>3. NothingAnnounced
    BY <1>1, <2>1 DEF NothingAnnounced, IInv, ReservedInv
  <2> QED BY <1>1, <2>2, <2>3, QuietExclusive, QuietReserved DEF IInv, WorkersOK
<1>3. CASE FinishIO
  <2>1. PICK gone \in BOOLEAN : occurred' = Append(occurred, [held EXCEPT !.gone = gone])
    BY <1>3 DEF FinishIO
  <2>2. held \in Event /\ held.kind # "accept"
    BY <1>3 DEF FinishIO, IInv, TypeOK, ReservedInv
  <2>3. [held EXCEPT !.gone = gone] \in Event /\ [held EXCEPT !.gone = gone].kind # "accept"
    BY <2>2 DEF Event
  <2>4. /\ occurred' \in Seq(Event)
        /\ \A i \in DOMAIN occurred' : occurred'[i].kind = "accept" =>
                i \in DOMAIN occurred /\ occurred'[i] = occurred[i]
    BY <2>1, <2>3, AppendAnnouncesNothing
  <2>5. TypeOK'
    BY <1>1, <1>3, <2>4 DEF FinishIO, IInv, TypeOK, WorkersOK
  <2>6. NothingAnnounced
    BY <1>1, <1>3, <2>4 DEF FinishIO, NothingAnnounced, IInv, ReservedInv
  <2> QED BY <1>1, <2>5, <2>6, QuietExclusive, QuietReserved DEF IInv, WorkersOK
<1>4. CASE Elapse \/ UNCHANGED vars
  <2>1. timers' \in Seq([sock : Descriptors, elapsed : BOOLEAN])
    <3>1. CASE UNCHANGED timers
      BY <3>1 DEF IInv, TypeOK
    <3>2. CASE \E i \in DOMAIN timers : timers' = [timers EXCEPT ![i].elapsed = TRUE]
      BY <3>2, TimerSet DEF IInv, TypeOK
    <3> QED BY <1>4, <3>1, <3>2 DEF Elapse, vars
  <2>2. UNCHANGED <<alarms, registered, held, occurred, open>>
    BY <1>4 DEF Elapse, vars
  <2>3. TypeOK'
    BY <1>1, <2>1, <2>2 DEF IInv, TypeOK, WorkersOK
  <2>4. NothingAnnounced
    BY <1>1, <2>2 DEF NothingAnnounced, IInv, ReservedInv
  <2> QED BY <1>1, <2>3, <2>4, QuietExclusive, QuietReserved DEF IInv, WorkersOK
<1> QED BY <1>2, <1>3, <1>4

(* An accepted connection announces an address nobody uses.                 *)
LEMMA AcceptIInv ==
    ASSUME IInv, NEW s \in Descriptors, NEW u \in Users, Accept(s, u)
    PROVE  IInv'
<1> DEFINE e == NewEvent("accept", s, u)
           n == Len(occurred)
<1>1. e \in Event /\ e.kind = "accept" /\ e.user = u
  BY DEF NewEvent, Event, Kinds
<1>2. /\ occurred' = Append(occurred, e)
      /\ UNCHANGED <<owned, users, done, timers, alarms, registered, held, worker>>
      /\ open' \subseteq Sockets
  BY DEF Accept, IInv, TypeOK, Descriptors
<1>3. WorkersOK' /\ Quiet
  BY <1>2, WorkersUnchanged
<1> HIDE DEF e
<1>4. /\ occurred \in Seq(Event) /\ occurred' \in Seq(Event)
      /\ n \in Nat /\ DOMAIN occurred = 1 .. n /\ DOMAIN occurred' = 1 .. (n + 1)
      /\ \A i \in 1 .. n : occurred'[i] = occurred[i]
      /\ occurred'[n + 1] = e
  BY <1>1, <1>2, AppendAdds DEF IInv, TypeOK
<1> HIDE DEF n
<1>5. /\ owned[u] = NULL
      /\ \A i \in 1 .. n : occurred[i].user # u
      /\ \A w \in Workers : worker[w].user # u
  BY <1>4 DEF Accept, Unused, ToSet
<1>6. TypeOK'
  BY <1>2, <1>3, <1>4 DEF IInv, TypeOK, WorkersOK
<1>7. ReservedInv'
  <2>1. \A i \in 1 .. (n + 1), v \in Users :
          Announced(i, v)' => (i = n + 1 /\ v = u) \/ (i \in 1 .. n /\ Announced(i, v) /\ v # u)
    BY <1>1, <1>4, <1>5 DEF Announced
  <2>2. \A w \in Workers : ~Adds(w, u)
    BY <1>5 DEF Adds
  <2>3. \A w \in Workers, v \in Users : Adds(w, v)' => Adds(w, v)
    BY <1>3 DEF Quiet
  <2>4. \A i \in DOMAIN occurred' : occurred'[i].kind = "accept" => occurred'[i].user # NULL
    BY <1>1, <1>4, ServerAssumption DEF IInv, ReservedInv
  <2>5. ASSUME NEW v \in Users
        PROVE  /\ \A i, j \in DOMAIN occurred' : Announced(i, v)' /\ Announced(j, v)' => i = j
               /\ \A w, x \in Workers : Adds(w, v)' /\ Adds(x, v)' => w = x
               /\ \A i \in DOMAIN occurred' : Announced(i, v)' =>
                    owned'[v] = NULL /\ \A w \in Workers : ~Adds(w, v)'
               /\ \A w \in Workers : Adds(w, v)' => owned'[v] = NULL
    <3>1. \A i, j \in DOMAIN occurred' : Announced(i, v)' /\ Announced(j, v)' => i = j
      BY <1>4, <2>1 DEF IInv, ReservedInv
    <3>2. \A i \in DOMAIN occurred' : Announced(i, v)' =>
                    owned'[v] = NULL /\ \A w \in Workers : ~Adds(w, v)'
      BY <1>2, <1>4, <1>5, <2>1, <2>2, <2>3 DEF IInv, ReservedInv
    <3>3. /\ \A w, x \in Workers : Adds(w, v)' /\ Adds(x, v)' => w = x
          /\ \A w \in Workers : Adds(w, v)' => owned'[v] = NULL
      BY <1>2, <2>3 DEF IInv, ReservedInv
    <3> QED BY <3>1, <3>2, <3>3
  <2> QED BY <1>2, <2>4, <2>5 DEF IInv, ReservedInv
<1> QED BY <1>2, <1>3, <1>6, <1>7, QuietExclusive DEF IInv, WorkersOK

-----------------------------------------------------------------------------
(* Calls that leave the users alone.                                        *)

(* Such a call keeps the invariant.                                         *)
LEMMA QuietIInv ==
    ASSUME IInv, WorkersOK', Quiet, NothingAnnounced, UNCHANGED <<owned, users, done>>,
           timers' \in Seq([sock : Descriptors, elapsed : BOOLEAN]),
           alarms' \in [Descriptors -> Nat], registered' \subseteq Event,
           held' \in Event \cup {NULL}, occurred' \in Seq(Event), open' \subseteq Sockets
    PROVE  IInv'
<1>1. TypeOK'
  BY DEF IInv, TypeOK, WorkersOK
<1> QED BY <1>1, QuietExclusive, QuietReserved DEF IInv, WorkersOK

(* Registering an event leaves users alone.                                 *)
LEMMA RegisteringIInv ==
    ASSUME IInv, NEW w \in Workers, AsyncWrite(w) \/ AsyncRead(w)
    PROVE  IInv'
<1>1. worker[w].todo # <<>> /\ Continue(w)
  BY DEF AsyncWrite, AsyncRead, Doing
<1>2. WorkersOK' /\ Quiet
  BY <1>1, ContinueQuiet
<1>3. Sock(w) \in Descriptors /\ worker[w].user \in Users \cup {NULL}
  BY <1>1, SockTyped DEF WorkerState
<1>4. registered' \subseteq Event /\ \A e \in registered' : e.kind # "accept"
  <2>1. CASE AsyncRead(w)
    BY <2>1, <1>3, RegisterTyped DEF AsyncRead, Kinds
  <2>2. CASE AsyncWrite(w)
    <3>1. PICK call \in DOMAIN CallKind : Register(NewEvent(CallKind[call], Sock(w), NULL))
      BY <2>2 DEF AsyncWrite
    <3>2. CallKind[call] \in Kinds \ {"accept"}
      BY DEF CallKind, Kinds, Writes
    <3> QED BY <3>1, <3>2, <1>3, RegisterTyped
  <2> QED BY <2>1, <2>2
<1>5. UNCHANGED <<owned, users, done, timers, alarms, held, occurred, open>>
  BY DEF AsyncRead, AsyncWrite
<1>6. NothingAnnounced
  BY <1>4, <1>5 DEF NothingAnnounced, IInv, ReservedInv
<1> QED BY <1>2, <1>4, <1>5, <1>6, QuietIInv DEF IInv, TypeOK

(* The calls of timers.c leave users alone.                                 *)
LEMMA TimersIInv ==
    ASSUME IInv, NEW w \in Workers,
           timers_make_for_socket(w) \/ timers_update_by_socket(w)
             \/ timers_remove_for_socket(w) \/ el_timer(w)
    PROVE  IInv'
<1> DEFINE T == [sock : Descriptors, elapsed : BOOLEAN]
<1> USE DEF timers_make_for_socket, timers_update_by_socket, timers_remove_for_socket, el_timer
<1>1. /\ worker[w].todo # <<>> /\ Continue(w)
      /\ UNCHANGED <<owned, users, done, registered, held, occurred, open>>
  BY DEF Doing
<1>2. WorkersOK' /\ Quiet /\ Sock(w) \in Descriptors
  BY <1>1, ContinueQuiet, SockTyped
<1>3. timers \in Seq(T) /\ alarms \in [Descriptors -> Nat]
  BY DEF IInv, TypeOK
<1>4. timers' \in Seq(T)
  <2>1. CASE timers_make_for_socket(w)
    BY <2>1, <1>2, <1>3
  <2>2. CASE timers_update_by_socket(w)
    BY <2>2, <1>3, TimerSet
  <2>3. CASE timers_remove_for_socket(w)
    BY <2>3, <1>3, RemoveAtShifts
  <2>4. CASE el_timer(w)
    BY <2>4, <1>3
  <2> QED BY <2>1, <2>2, <2>3, <2>4
<1>5. alarms' \in [Descriptors -> Nat]
  BY <1>2, <1>3
<1>6. NothingAnnounced
  BY <1>1 DEF NothingAnnounced, IInv, ReservedInv
<1> QED BY <1>1, <1>2, <1>4, <1>5, <1>6, QuietIInv DEF IInv, TypeOK

(* The steps of closing a descriptor leave users alone.                     *)
LEMMA ClosingIInv ==
    ASSUME IInv, NEW w \in Workers, CloseDescriptor(w) \/ Unregister(w) \/ EnqueueClose(w)
    PROVE  IInv'
<1>1. worker[w].todo # <<>> /\ Continue(w)
  BY DEF CloseDescriptor, Unregister, EnqueueClose, Doing
<1>2. WorkersOK' /\ Quiet /\ Sock(w) \in Descriptors
  BY <1>1, ContinueQuiet, SockTyped
<1>3. /\ UNCHANGED <<owned, users, done, timers, alarms, held>>
      /\ registered' \subseteq registered /\ open' \subseteq open
  BY DEF CloseDescriptor, Unregister, EnqueueClose
<1>4. /\ occurred' \in Seq(Event)
      /\ \A i \in DOMAIN occurred' : occurred'[i].kind = "accept" =>
           i \in DOMAIN occurred /\ occurred'[i] = occurred[i]
  <2>1. CASE UNCHANGED occurred
    BY <2>1 DEF IInv, TypeOK
  <2>2. CASE EnqueueClose(w)
    <3>1. /\ NewEvent("close", Sock(w), NULL) \in Event
          /\ NewEvent("close", Sock(w), NULL).kind # "accept"
      BY <1>2 DEF NewEvent, Event, Kinds
    <3> QED BY <3>1, <2>2, AppendAnnouncesNothing DEF EnqueueClose
  <2> QED BY <2>1, <2>2 DEF CloseDescriptor, Unregister
<1>5. NothingAnnounced
  BY <1>3, <1>4 DEF NothingAnnounced, IInv, ReservedInv
<1> QED BY <1>2, <1>3, <1>4, <1>5, QuietIInv DEF IInv, TypeOK

-----------------------------------------------------------------------------
(* Handlers begin.                                                          *)

(* The calls a handler starts with.                                         *)
LEMMA HandlerTodo ==
    ASSUME NEW e \in Event
    PROVE  /\ Handler(e) \in Seq(Calls) /\ Handler(e) # <<>>
           /\ e.kind # "accept" => Plain(Handler(e))
           /\ \A i \in DOMAIN Handler(e) : Handler(e)[i] \in UserCalls =>
                e.kind = "accept" /\ i = 1 /\ Handler(e)[i] = "add"
<1>1. CASE e.kind = "accept"
  <2>1. Handler(e) = <<"add", "hello", "make_timer", "el_timer">>
    BY <1>1 DEF Handler
  <2> QED BY <1>1, <2>1 DEF Calls, UserCalls, HoldCalls
<1>2. CASE e.kind = "timeout"
  BY <1>2 DEF Handler, Calls, UserCalls, HoldCalls, Plain
<1>3. CASE e.kind \notin {"accept", "timeout"} /\ (e.kind = "close" \/ e.gone)
  <2>1. Handler(e) = <<"disconnect">>
    BY <1>3 DEF Handler, Event, Kinds, Writes
  <2> QED BY <1>3, <2>1 DEF Calls, UserCalls, HoldCalls, Plain
<1>4. CASE e.kind \notin {"accept", "timeout", "close"} /\ ~e.gone
  <2>1. Handler(e) = <<"update", "find">>
    BY <1>4 DEF Handler
  <2> QED BY <1>4, <2>1 DEF Calls, UserCalls, HoldCalls, Plain
<1> QED BY <1>1, <1>2, <1>3, <1>4

(* A worker starts the handler of the oldest event.                         *)
LEMMA RunEventIInv ==
    ASSUME IInv, NEW w \in Workers, RunEvent(w)
    PROVE  IInv'
<1> DEFINE e == Head(occurred)
           r == [handler |-> e.kind, sock |-> e.sock,
                 user |-> IF e.kind = "accept" THEN e.user ELSE NULL,
                 todo |-> Handler(e)]
<1>1. /\ worker[w].todo = <<>> /\ occurred # <<>>
      /\ occurred' = Tail(occurred)
      /\ worker' = [worker EXCEPT ![w] = r]
      /\ UNCHANGED <<owned, users, done, timers, alarms, registered, held, open>>
  BY DEF RunEvent
<1>2. /\ occurred' \in Seq(Event)
      /\ \A i \in DOMAIN occurred' : i + 1 \in DOMAIN occurred /\ occurred'[i] = occurred[i + 1]
      /\ 1 \in DOMAIN occurred /\ e = occurred[1]
      /\ DOMAIN occurred \subseteq Int /\ DOMAIN occurred' \subseteq Nat \ {0}
  BY <1>1, TailShifts DEF IInv, TypeOK
<1>3. e \in Event /\ (e.kind = "accept" => e.user # NULL)
  BY <1>2 DEF IInv, TypeOK, ReservedInv
<1> HIDE DEF e
<1>4. /\ Handler(e) \in Seq(Calls) /\ Handler(e) # <<>>
      /\ e.kind # "accept" => Plain(Handler(e))
      /\ \A i \in DOMAIN Handler(e) : Handler(e)[i] \in UserCalls =>
           e.kind = "accept" /\ i = 1 /\ Handler(e)[i] = "add"
  BY <1>3, HandlerTodo
<1>5. /\ r \in WorkerState /\ r.sock # NULL /\ r.todo = Handler(e)
      /\ r.user = IF e.kind = "accept" THEN e.user ELSE NULL
  BY <1>3, <1>4, ServerAssumption DEF WorkerState, Event, Descriptors
<1> HIDE DEF r
<1>6. GoodTodo(r.todo, r.user)
  BY <1>3, <1>4, <1>5 DEF GoodTodo, Plain
<1>7. /\ WorkersOK' /\ worker'[w] = r
      /\ \A v \in Workers : v # w => worker'[v] = worker[v]
  BY <1>1, <1>5, <1>6, WorkerChanges
<1>8. TypeOK'
  BY <1>1, <1>2, <1>7 DEF IInv, TypeOK, WorkersOK
<1>9. \A v \in Workers, u \in Users : Holds(v, u)' => Holds(v, u)
  BY <1>4, <1>5, <1>7 DEF Holds, WillCall, UserCalls, HoldCalls
<1>10. UserExclusive'
  BY <1>1, <1>9 DEF IInv, UserExclusive
<1>11. \A v \in Workers, u \in Users :
         Adds(v, u)' => (v # w /\ Adds(v, u)) \/ (v = w /\ e.kind = "accept" /\ e.user = u)
  BY <1>4, <1>5, <1>7 DEF Adds, WillCall, UserCalls
<1>12. /\ \A i \in DOMAIN occurred', u \in Users : Announced(i, u)' => Announced(i + 1, u)
       /\ \A u \in Users : e.kind = "accept" /\ e.user = u => Announced(1, u)
  BY <1>2 DEF Announced
<1>13. ReservedInv'
  <2>1. \A i \in DOMAIN occurred' : occurred'[i].kind = "accept" => occurred'[i].user # NULL
    BY <1>2 DEF IInv, ReservedInv
  <2>2. ASSUME NEW u \in Users
        PROVE  \A i, j \in DOMAIN occurred' : Announced(i, u)' /\ Announced(j, u)' => i = j
    <3> SUFFICES ASSUME NEW i \in DOMAIN occurred', NEW j \in DOMAIN occurred',
                        Announced(i, u)', Announced(j, u)'
                 PROVE  i = j
      OBVIOUS
    <3>1. i + 1 = j + 1
      BY <1>2, <1>12 DEF IInv, ReservedInv
    <3> QED BY <3>1, <1>2
  <2>3. ASSUME NEW u \in Users
        PROVE  \A v, x \in Workers : Adds(v, u)' /\ Adds(x, u)' => v = x
    BY <1>2, <1>11, <1>12 DEF IInv, ReservedInv
  <2>4. ASSUME NEW u \in Users, NEW i \in DOMAIN occurred', Announced(i, u)'
        PROVE  owned'[u] = NULL /\ \A v \in Workers : ~Adds(v, u)'
    <3>1. i + 1 \in DOMAIN occurred /\ i + 1 # 1 /\ Announced(i + 1, u)
      BY <1>2, <1>12, <2>4
    <3>2. ~(e.kind = "accept" /\ e.user = u)
      BY <3>1, <1>2, <1>12 DEF IInv, ReservedInv
    <3> QED BY <3>1, <3>2, <1>1, <1>11 DEF IInv, ReservedInv
  <2>5. ASSUME NEW u \in Users, NEW v \in Workers, Adds(v, u)'
        PROVE  owned'[u] = NULL
    BY <2>5, <1>1, <1>2, <1>11, <1>12 DEF IInv, ReservedInv
  <2> QED BY <1>1, <2>1, <2>2, <2>3, <2>4, <2>5 DEF IInv, ReservedInv
<1> QED BY <1>7, <1>8, <1>10, <1>13 DEF IInv, WorkersOK

(* A worker starts handler_timer.                                           *)
LEMMA RunTimerIInv ==
    ASSUME IInv, NEW w \in Workers, NEW s \in Descriptors, RunTimer(w, s)
    PROVE  IInv'
<1> DEFINE r == [handler |-> "timer", sock |-> s, user |-> NULL, todo |-> <<"is_exist">>]
<1>1. /\ worker' = [worker EXCEPT ![w] = r]
      /\ UNCHANGED <<owned, users, done, timers, registered, held, occurred, open>>
      /\ alarms' \in [Descriptors -> Nat]
  BY DEF RunTimer, IInv, TypeOK
<1>2. r \in WorkerState /\ r.sock # NULL /\ GoodTodo(r.todo, r.user) /\ Plain(r.todo)
  BY ServerAssumption DEF WorkerState, Descriptors, Calls, GoodTodo, UserCalls, HoldCalls, Plain
<1> HIDE DEF r
<1>3. /\ WorkersOK' /\ worker'[w] = r
      /\ \A v \in Workers : v # w => worker'[v] = worker[v]
  BY <1>1, <1>2, WorkerChanges
<1>4. Quiet
  BY <1>2, <1>3 DEF Quiet, Holds, Adds, WillCall, Plain, UserCalls
<1>5. NothingAnnounced
  BY <1>1 DEF NothingAnnounced, IInv, ReservedInv
<1> QED BY <1>1, <1>3, <1>4, <1>5, QuietIInv DEF IInv, TypeOK

(* handler_timer looks at the lists and changes neither.                    *)
LEMMA HandlerTimerIInv ==
    ASSUME IInv, NEW w \in Workers, handler_timer(w)
    PROVE  IInv'
<1>1. /\ worker[w].todo # <<>>
      /\ UNCHANGED <<owned, users, done, timers, registered, held, occurred, open>>
  BY DEF handler_timer, Doing
<1>2. Sock(w) \in Descriptors /\ worker[w].sock # NULL
  BY <1>1, SockTyped DEF IInv, TodoInv
<1>3. /\ WorkersOK' /\ Quiet
      /\ alarms' \in [Descriptors -> Nat]
  <2>1. alarms' \in [Descriptors -> Nat]
    BY <1>2 DEF handler_timer, Rearm, Proceed, IInv, TypeOK
  <2>2. CASE Continue(w)
    BY <2>1, <2>2, <1>1, ContinueQuiet
  <2>3. ASSUME NEW rest \in {<<>>, <<"el_timer_free">>, <<"is_elapsed">>, <<"is_present">>,
                             <<"el_timer_free", "say_timeout">>},
               Then(w, rest)
        PROVE  WorkersOK' /\ Quiet
    <3>1. rest \in Seq(Calls) /\ Plain(rest)
      <4>1. CASE rest = <<>>
        BY <4>1 DEF Plain
      <4>2. CASE rest = <<"el_timer_free">>
        BY <4>2 DEF Calls, Plain, UserCalls, HoldCalls
      <4>3. CASE rest = <<"is_elapsed">>
        BY <4>3 DEF Calls, Plain, UserCalls, HoldCalls
      <4>4. CASE rest = <<"is_present">>
        BY <4>4 DEF Calls, Plain, UserCalls, HoldCalls
      <4>5. CASE rest = <<"el_timer_free", "say_timeout">>
        BY <4>5 DEF Calls, Plain, UserCalls, HoldCalls
      <4> QED BY <4>1, <4>2, <4>3, <4>4, <4>5
    <3> QED BY <2>3, <3>1, <1>2, ThenPlain
  <2> QED BY <2>1, <2>2, <2>3 DEF handler_timer, Rearm, Proceed, Continue
<1>4. NothingAnnounced
  BY <1>1 DEF NothingAnnounced, IInv, ReservedInv
<1> QED BY <1>1, <1>3, <1>4, QuietIInv DEF IInv, TypeOK

-----------------------------------------------------------------------------
(* Users change hands.                                                      *)

(* The announced address becomes a user of the list.                        *)
LEMMA AddUserIInv ==
    ASSUME IInv, NEW w \in Workers, AddUser(w)
    PROVE  IInv'
<1> DEFINE u == worker[w].user
           n == Len(users)
           t == worker[w].todo
           r == [worker[w] EXCEPT !.user = NULL, !.todo = Tail(t)]
<1>1. /\ t # <<>> /\ Head(t) = "add"
      /\ owned' = [owned EXCEPT ![u] = Sock(w)]
      /\ users' = Append(users, u)
      /\ worker' = [worker EXCEPT ![w] = r]
      /\ UNCHANGED <<done, timers, alarms, registered, held, occurred, open>>
  BY DEF AddUser, Doing, IInv, TypeOK, WorkerState
<1>2. /\ t \in Seq(Calls) /\ worker[w] \in WorkerState /\ Sock(w) \in Descriptors
      /\ worker[w].sock # NULL
  BY <1>1, SockTyped DEF IInv, TodoInv, WorkerState
<1>3. /\ 1 \in DOMAIN t /\ Head(t) = t[1] /\ Tail(t) \in Seq(Calls)
      /\ \A i \in DOMAIN Tail(t) : i + 1 \in DOMAIN t /\ i + 1 # 1 /\ Tail(t)[i] = t[i + 1]
  BY <1>1, <1>2, TailShifts
<1>4. WillCall(w, {"add"}) /\ WillCall(w, UserCalls) /\ u \in Users
  BY <1>1, <1>2, <1>3 DEF WillCall, IInv, TodoInv, WorkerState, UserCalls
<1>5. /\ Adds(w, u) /\ owned[u] = NULL
      /\ \A v \in Workers : Adds(v, u) => v = w
      /\ \A i \in DOMAIN occurred : ~Announced(i, u)
  BY <1>4 DEF Adds, IInv, ReservedInv
<1>6. Plain(Tail(t))
  BY <1>1, <1>3 DEF Plain, IInv, TodoInv, UserCalls
<1>7. r \in WorkerState /\ r.user = NULL /\ r.todo = Tail(t) /\ r.sock # NULL
  BY <1>2, <1>3 DEF WorkerState
<1> HIDE DEF r, t
<1>8. /\ WorkersOK' /\ worker'[w] = r
      /\ \A v \in Workers : v # w => worker'[v] = worker[v]
  <2>1. GoodTodo(r.todo, r.user)
    BY <1>6, <1>7 DEF GoodTodo, Plain
  <2> QED BY <2>1, <1>1, <1>7, WorkerChanges
<1>9. Quiet /\ \A v \in Users : ~Adds(w, v)' /\ ~Holds(w, v)'
  BY <1>6, <1>7, <1>8 DEF Quiet, Holds, Adds, WillCall, Plain, UserCalls
<1>10. /\ users' \in Seq(Users) /\ n \in Nat
       /\ DOMAIN users' = 1 .. (n + 1) /\ DOMAIN users = 1 .. n
       /\ \A i \in 1 .. n : users'[i] = users[i]
       /\ users'[n + 1] = u
  BY <1>1, <1>4, AppendAdds DEF IInv, TypeOK
<1> HIDE DEF n
<1>11. /\ owned' \in [Users -> Descriptors \cup {NULL}]
       /\ owned'[u] # NULL
       /\ \A v \in Users : v # u => owned'[v] = owned[v]
  BY <1>1, <1>2, <1>4 DEF IInv, TypeOK, Sock
<1>12. /\ \A i \in 1 .. n : users[i] # u /\ users[i] \in Users /\ owned[users[i]] # NULL
       /\ \A v \in Workers : ~Holds(v, u)
  <2>1. \A i \in 1 .. n : users[i] \in Users
    BY <1>10 DEF IInv, TypeOK
  <2>2. \A i \in 1 .. n : owned[users[i]] # NULL
    BY <1>10 DEF IInv, UserExclusive
  <2>3. \A v \in Workers : Holds(v, u) => owned[u] # NULL
    BY <1>4 DEF IInv, UserExclusive
  <2> QED BY <2>1, <2>2, <2>3, <1>5
<1>13. TypeOK'
  BY <1>1, <1>8, <1>10, <1>11 DEF IInv, TypeOK, WorkersOK
<1>14. ReservedInv'
  <2>1. \A i \in DOMAIN occurred, v \in Users : Announced(i, v)' => Announced(i, v) /\ v # u
    BY <1>1, <1>5 DEF Announced
  <2>2. \A v \in Workers, x \in Users : Adds(v, x)' => Adds(v, x) /\ x # u
    BY <1>5, <1>9 DEF Quiet
  <2> QED BY <1>1, <1>11, <2>1, <2>2 DEF IInv, ReservedInv
<1>15. UserExclusive'
  <2>1. \A i, j \in 1 .. n : users[i] = users[j] => i = j
    BY <1>10 DEF IInv, UserExclusive
  <2>2. \A i, j \in DOMAIN users' : users'[i] = users'[j] => i = j
    BY <2>1, <1>10, <1>12
  <2>3. \A i \in DOMAIN users' : owned'[users'[i]] # NULL
    BY <1>10, <1>11, <1>12
  <2>4. \A v \in Workers, x \in Users : Holds(v, x)' => Holds(v, x) /\ x # u
    BY <1>9, <1>12 DEF Quiet
  <2>5. ASSUME NEW v \in Workers, NEW x \in Users, Holds(v, x)'
        PROVE  /\ owned'[x] # NULL
               /\ \A i \in DOMAIN users' : users'[i] # x
               /\ \A y \in Workers : Holds(y, x)' => y = v
    BY <2>4, <2>5, <1>10, <1>11 DEF IInv, UserExclusive
  <2> QED BY <2>2, <2>3, <2>5 DEF UserExclusive
<1> QED BY <1>8, <1>13, <1>14, <1>15 DEF IInv, WorkersOK

(* A user is taken out of the list: it is not in it any more, the others    *)
(* are, and no worker had it.                                               *)
LEMMA UserLeavesList ==
    ASSUME IInv, NEW i \in DOMAIN users, users' = RemoveAt(users, i)
    PROVE  /\ users' \in Seq(Users) /\ users[i] \in Users
           /\ \A j, k \in DOMAIN users' : users'[j] = users'[k] => j = k
           /\ \A j \in DOMAIN users' : users'[j] # users[i] /\ owned[users'[j]] # NULL
           /\ \A u \in Users : (\A j \in DOMAIN users : users[j] # u)
                => \A j \in DOMAIN users' : users'[j] # u
           /\ \A v \in Workers : ~Holds(v, users[i])
<1>1. users \in Seq(Users) /\ users[i] \in Users
  BY DEF IInv, TypeOK
<1>2. /\ \A j, k \in DOMAIN users : users[j] = users[k] => j = k
      /\ \A j \in DOMAIN users : owned[users[j]] # NULL
  BY DEF IInv, UserExclusive
<1>3. /\ users' \in Seq(Users)
      /\ \A j \in DOMAIN users' :
           LET k == IF j < i THEN j ELSE j + 1
           IN  k \in DOMAIN users /\ k # i /\ users'[j] = users[k]
  BY <1>1, RemoveAtShifts
<1>4. i \in Int /\ DOMAIN users' \subseteq Int
  BY <1>1, <1>3
<1>5. \A j, k \in DOMAIN users' : users'[j] = users'[k] => j = k
  <2> SUFFICES ASSUME NEW j \in DOMAIN users', NEW k \in DOMAIN users',
                      users'[j] = users'[k]
               PROVE  j = k
    OBVIOUS
  <2> DEFINE a == IF j < i THEN j ELSE j + 1
             b == IF k < i THEN k ELSE k + 1
  <2>1. a \in DOMAIN users /\ b \in DOMAIN users /\ users[a] = users[b]
    BY <1>3
  <2>2. a = b
    BY <2>1, <1>2
  <2> QED BY <2>2, <1>4
<1>6. \A j \in DOMAIN users' : users'[j] # users[i] /\ owned[users'[j]] # NULL
  BY <1>2, <1>3
<1>7. \A u \in Users : (\A j \in DOMAIN users : users[j] # u)
        => \A j \in DOMAIN users' : users'[j] # u
  BY <1>3
<1>8. \A v \in Workers : ~Holds(v, users[i])
  BY <1>1 DEF IInv, UserExclusive
<1> QED BY <1>1, <1>3, <1>5, <1>6, <1>7, <1>8

(* The worker takes the user out of the list, or its handler ends without.  *)
LEMMA FindIInv ==
    ASSUME IInv, NEW w \in Workers, users_list__user_find_by_sock(w)
    PROVE  IInv'
<1>1. /\ worker[w].todo # <<>>
      /\ UNCHANGED <<owned, done, timers, alarms, registered, held, occurred, open>>
  BY DEF users_list__user_find_by_sock, Doing
<1>2. worker[w].sock # NULL /\ worker[w] \in WorkerState
  BY <1>1, SockTyped DEF IInv, TodoInv
<1>3. NothingAnnounced
  BY <1>1 DEF NothingAnnounced, IInv, ReservedInv
<1>4. ASSUME NEW i \in DOMAIN users,
             worker' = [worker EXCEPT ![w] = [@ EXCEPT !.user = users[i],
                            !.todo = WithUser(worker[w].handler, users[i])]],
             users' = RemoveAt(users, i)
      PROVE  IInv'
  <2> DEFINE rest == WithUser(worker[w].handler, users[i])
             r == [worker[w] EXCEPT !.user = users[i], !.todo = rest]
  <2>1. /\ users' \in Seq(Users) /\ users[i] \in Users
        /\ \A j, k \in DOMAIN users' : users'[j] = users'[k] => j = k
        /\ \A j \in DOMAIN users' : users'[j] # users[i] /\ owned[users'[j]] # NULL
        /\ \A u \in Users : (\A j \in DOMAIN users : users[j] # u)
             => \A j \in DOMAIN users' : users'[j] # u
        /\ \A v \in Workers : ~Holds(v, users[i])
    BY <1>4, UserLeavesList
  <2>2. rest \in {<<"listen", "release", "update">>, <<"parse">>,
                  <<"release", "listen", "update">>,
                  <<"close_quit", "free", "remove_timer", "update">>}
    BY DEF WithUser
  <2>3. /\ rest \in Seq(Calls)
        /\ \A j, k \in DOMAIN rest : rest[j] \in UserCalls /\ rest[k] \in UserCalls => j = k
        /\ \A j \in DOMAIN rest : rest[j] # "add"
    <3> HIDE DEF rest
    <3>1. CASE rest = <<"listen", "release", "update">>
      BY <3>1 DEF Calls, UserCalls, HoldCalls
    <3>2. CASE rest = <<"parse">>
      BY <3>2 DEF Calls, UserCalls, HoldCalls
    <3>3. CASE rest = <<"release", "listen", "update">>
      BY <3>3 DEF Calls, UserCalls, HoldCalls
    <3>4. CASE rest = <<"close_quit", "free", "remove_timer", "update">>
      BY <3>4 DEF Calls, UserCalls, HoldCalls
    <3> QED BY <2>2, <3>1, <3>2, <3>3, <3>4
  <2>4. worker' = [worker EXCEPT ![w] = r]
    BY <1>4 DEF IInv, TypeOK
  <2> HIDE DEF rest
  <2>5. r \in WorkerState /\ r.todo = rest /\ r.user = users[i] /\ r.sock # NULL
    BY <1>2, <2>1, <2>3 DEF WorkerState
  <2> HIDE DEF r
  <2>6. GoodTodo(r.todo, r.user)
    BY <2>1, <2>3, <2>5, ServerAssumption DEF GoodTodo
  <2>7. /\ WorkersOK' /\ worker'[w] = r
        /\ \A v \in Workers : v # w => worker'[v] = worker[v]
    BY <2>4, <2>5, <2>6, WorkerChanges
  <2>8. \A v \in Workers, u \in Users :
          Holds(v, u)' => (v = w /\ u = users[i]) \/ (v # w /\ Holds(v, u))
    BY <2>5, <2>7 DEF Holds, WillCall
  <2>9. \A v \in Workers, u \in Users : Adds(v, u)' => Adds(v, u)
    BY <2>3, <2>5, <2>7 DEF Adds, WillCall
  <2>10. TypeOK'
    BY <1>1, <2>1, <2>7 DEF IInv, TypeOK, WorkersOK
  <2>11. ReservedInv'
    BY <1>1, <2>9 DEF IInv, ReservedInv, Announced
  <2>12. ASSUME NEW v \in Workers, NEW u \in Users, Holds(v, u)'
         PROVE  /\ owned'[u] # NULL
                /\ \A j \in DOMAIN users' : users'[j] # u
                /\ \A y \in Workers : Holds(y, u)' => y = v
    <3>1. CASE u = users[i]
      BY <3>1, <1>1, <2>1, <2>8, <2>12 DEF IInv, UserExclusive
    <3>2. CASE u # users[i]
      BY <3>2, <1>1, <2>1, <2>8, <2>12 DEF IInv, UserExclusive
    <3> QED BY <3>1, <3>2
  <2>13. UserExclusive'
    BY <1>1, <2>1, <2>12 DEF UserExclusive
  <2> QED BY <2>7, <2>10, <2>11, <2>13 DEF IInv, WorkersOK
<1>5. CASE Then(w, WithoutUser(worker[w].handler)) /\ UNCHANGED users
  <2> DEFINE rest == WithoutUser(worker[w].handler)
  <2>1. rest = <<>> \/ rest = <<"update">>
    BY DEF WithoutUser
  <2>2. rest \in Seq(Calls) /\ Plain(rest)
    <3> HIDE DEF rest
    <3>1. CASE rest = <<>>
      BY <3>1 DEF Plain
    <3>2. CASE rest = <<"update">>
      BY <3>2 DEF Plain, Calls, UserCalls, HoldCalls
    <3> QED BY <2>1, <3>1, <3>2
  <2>3. WorkersOK' /\ Quiet
    BY <1>2, <1>5, <2>2, ThenPlain
  <2> QED BY <1>1, <1>3, <1>5, <2>3, QuietIInv DEF IInv, TypeOK
<1> QED BY <1>4, <1>5 DEF users_list__user_find_by_sock

(* The worker keeps the user it has, to release it.                         *)
LEMMA ParseIInv ==
    ASSUME IInv, NEW w \in Workers, Parse(w)
    PROVE  IInv'
<1>1. /\ worker[w].todo # <<>> /\ Head(worker[w].todo) = "parse"
      /\ UNCHANGED <<owned, users, timers, alarms, registered, held, occurred, open>>
      /\ done' \subseteq done \cup {worker[w].user}
  BY DEF Parse, Doing
<1>2. worker[w].sock # NULL /\ worker[w] \in WorkerState
  BY <1>1, SockTyped DEF IInv, TodoInv
<1>3. /\ 1 \in DOMAIN worker[w].todo /\ worker[w].todo[1] = "parse"
  BY <1>1, <1>2, TailShifts DEF WorkerState
<1>4. /\ worker[w].user \in Users /\ Holds(w, worker[w].user)
  BY <1>2, <1>3 DEF Holds, WillCall, UserCalls, HoldCalls, IInv, TodoInv, WorkerState
<1>5. PICK rest \in {<<"release", "reply", "update">>, <<"release", "listen", "update">>} :
        Then(w, rest)
  BY DEF Parse
<1>6. /\ rest \in Seq(Calls) /\ rest # <<>>
      /\ \A i, j \in DOMAIN rest : rest[i] \in UserCalls /\ rest[j] \in UserCalls => i = j
      /\ \A i \in DOMAIN rest : rest[i] # "add"
  <2>1. CASE rest = <<"release", "reply", "update">>
    BY <2>1 DEF Calls, UserCalls, HoldCalls
  <2>2. CASE rest = <<"release", "listen", "update">>
    BY <2>2 DEF Calls, UserCalls, HoldCalls
  <2> QED BY <2>1, <2>2
<1> DEFINE r == [worker[w] EXCEPT !.todo = rest]
<1>7. worker' = [worker EXCEPT ![w] = r]
  BY <1>5, <1>6 DEF Then, IInv, TypeOK
<1>8. r \in WorkerState /\ r.todo = rest /\ r.user = worker[w].user /\ r.sock # NULL
  BY <1>2, <1>6 DEF WorkerState
<1> HIDE DEF r
<1>9. GoodTodo(r.todo, r.user)
  BY <1>4, <1>6, <1>8, ServerAssumption DEF GoodTodo
<1>10. /\ WorkersOK' /\ worker'[w] = r
       /\ \A v \in Workers : v # w => worker'[v] = worker[v]
  BY <1>7, <1>8, <1>9, WorkerChanges
<1>11. Quiet
  BY <1>4, <1>6, <1>8, <1>10 DEF Quiet, Holds, Adds, WillCall
<1>12. NothingAnnounced
  BY <1>1 DEF NothingAnnounced, IInv, ReservedInv
<1>13. TypeOK'
  BY <1>1, <1>4, <1>10 DEF IInv, TypeOK, WorkersOK
<1> QED BY <1>1, <1>10, <1>11, <1>12, <1>13, QuietExclusive, QuietReserved DEF IInv, WorkersOK

(* A worker that gives up its user: it was the only one with that user, and *)
(* the user was not in the list.                                            *)
LEMMA HolderHolds ==
    ASSUME IInv, NEW w \in Workers, Doing(w, "release") \/ Doing(w, "free"), Continue(w)
    PROVE  \E u \in Users :
             /\ u = worker[w].user
             /\ WorkersOK' /\ Quiet
             /\ \A v \in Workers : ~Holds(v, u)'
             /\ owned[u] # NULL
             /\ \A i \in DOMAIN users : users[i] # u
<1>1. worker[w].todo # <<>> /\ Head(worker[w].todo) \in HoldCalls
  BY DEF Doing, HoldCalls
<1>2. worker[w] \in WorkerState
  BY <1>1, SockTyped
<1>3. 1 \in DOMAIN worker[w].todo /\ worker[w].todo[1] \in HoldCalls
  BY <1>1, <1>2, TailShifts DEF WorkerState
<1>4. worker[w].user \in Users
  BY <1>2, <1>3 DEF WillCall, UserCalls, IInv, TodoInv, WorkerState
<1>5. PICK u \in Users : u = worker[w].user
  BY <1>4
<1>6. Holds(w, u)
  BY <1>3, <1>5 DEF Holds, WillCall
<1>7. WorkersOK' /\ Quiet /\ ~Holds(w, u)'
  BY <1>1, ContinueQuiet
<1>8. \A v \in Workers : Holds(v, u) => v = w
  BY <1>6 DEF IInv, UserExclusive
<1>9. \A v \in Workers : ~Holds(v, u)'
  BY <1>7, <1>8 DEF Quiet
<1>10. owned[u] # NULL /\ \A i \in DOMAIN users : users[i] # u
  BY <1>6 DEF IInv, UserExclusive
<1> QED BY <1>5, <1>7, <1>9, <1>10

(* The user goes back to the end of the list.                               *)
LEMMA ReleaseIInv ==
    ASSUME IInv, NEW w \in Workers, user_accessor_release(w)
    PROVE  IInv'
<1> DEFINE n == Len(users)
<1>1. /\ Doing(w, "release") /\ Continue(w) /\ users' = Append(users, worker[w].user)
      /\ UNCHANGED <<owned, done, timers, alarms, registered, held, occurred, open>>
  BY DEF user_accessor_release
<1>2. PICK u \in Users :
        /\ u = worker[w].user /\ WorkersOK' /\ Quiet
        /\ \A v \in Workers : ~Holds(v, u)'
        /\ owned[u] # NULL
        /\ \A i \in DOMAIN users : users[i] # u
  BY <1>1, HolderHolds
<1>3. /\ users' \in Seq(Users) /\ n \in Nat
      /\ DOMAIN users' = 1 .. (n + 1) /\ DOMAIN users = 1 .. n
      /\ \A i \in 1 .. n : users'[i] = users[i]
      /\ users'[n + 1] = u
  BY <1>1, <1>2, AppendAdds DEF IInv, TypeOK
<1> HIDE DEF n
<1>4. NothingAnnounced
  BY <1>1 DEF NothingAnnounced, IInv, ReservedInv
<1>5. TypeOK'
  BY <1>1, <1>2, <1>3 DEF IInv, TypeOK, WorkersOK
<1>6. UserExclusive'
  <2>1. /\ \A i, j \in 1 .. n : users[i] = users[j] => i = j
        /\ \A i \in 1 .. n : owned[users[i]] # NULL
    BY <1>3 DEF IInv, UserExclusive
  <2>2. \A i, j \in DOMAIN users' : users'[i] = users'[j] => i = j
    BY <2>1, <1>2, <1>3
  <2>3. \A i \in DOMAIN users' : owned'[users'[i]] # NULL
    BY <2>1, <1>1, <1>2, <1>3
  <2>4. \A v \in Workers, x \in Users : Holds(v, x)' => Holds(v, x) /\ x # u
    BY <1>2 DEF Quiet
  <2>5. ASSUME NEW v \in Workers, NEW x \in Users, Holds(v, x)'
        PROVE  /\ owned'[x] # NULL
               /\ \A i \in DOMAIN users' : users'[i] # x
               /\ \A y \in Workers : Holds(y, x)' => y = v
    BY <2>4, <2>5, <1>1, <1>3 DEF IInv, UserExclusive
  <2> QED BY <2>2, <2>3, <2>5 DEF UserExclusive
<1> QED BY <1>2, <1>4, <1>5, <1>6, QuietReserved DEF IInv, WorkersOK

(* A user nobody has any more is freed.                                     *)
LEMMA FreedIInv ==
    ASSUME IInv, NEW u \in Users, Freed(u), WorkersOK', Quiet, users' \in Seq(Users),
           \A v \in Workers : ~Holds(v, u)',
           \A j, k \in DOMAIN users' : users'[j] = users'[k] => j = k,
           \A j \in DOMAIN users' : users'[j] # u /\ owned[users'[j]] # NULL,
           \A x \in Users : (\A j \in DOMAIN users : users[j] # x)
                => \A j \in DOMAIN users' : users'[j] # x,
           UNCHANGED <<timers, alarms, registered, held, occurred, open>>
    PROVE  IInv'
<1>1. /\ owned' \in [Users -> Descriptors \cup {NULL}]
      /\ owned'[u] = NULL /\ done' \subseteq Users
      /\ \A x \in Users : x # u => owned'[x] = owned[x]
  BY DEF Freed, IInv, TypeOK
<1>2. TypeOK'
  BY <1>1 DEF IInv, TypeOK, WorkersOK
<1>3. NothingAnnounced
  BY <1>1 DEF NothingAnnounced, IInv, ReservedInv
<1>4. UserExclusive'
  <2>1. \A j \in DOMAIN users' : users'[j] \in Users
    OBVIOUS
  <2>2. \A j \in DOMAIN users' : owned'[users'[j]] # NULL
    BY <1>1, <2>1
  <2>3. \A v \in Workers, x \in Users : Holds(v, x)' => Holds(v, x) /\ x # u
    BY DEF Quiet
  <2>4. ASSUME NEW v \in Workers, NEW x \in Users, Holds(v, x)'
        PROVE  /\ owned'[x] # NULL
               /\ \A i \in DOMAIN users' : users'[i] # x
               /\ \A y \in Workers : Holds(y, x)' => y = v
    BY <2>3, <2>4, <1>1 DEF IInv, UserExclusive
  <2> QED BY <2>2, <2>4 DEF UserExclusive
<1> QED BY <1>2, <1>3, <1>4, QuietReserved DEF IInv, WorkersOK

(* handler_write frees the user it has taken out, after QUIT.               *)
LEMMA FreeUserIInv ==
    ASSUME IInv, NEW w \in Workers, FreeUser(w)
    PROVE  IInv'
<1>1. /\ Doing(w, "free") /\ Continue(w) /\ Freed(worker[w].user)
      /\ UNCHANGED <<users, timers, alarms, registered, held, occurred, open>>
  BY DEF FreeUser
<1>2. PICK u \in Users :
        /\ u = worker[w].user /\ WorkersOK' /\ Quiet
        /\ \A v \in Workers : ~Holds(v, u)'
        /\ \A i \in DOMAIN users : users[i] # u
  BY <1>1, HolderHolds
<1>3. /\ users \in Seq(Users)
      /\ \A j, k \in DOMAIN users : users[j] = users[k] => j = k
      /\ \A j \in DOMAIN users : owned[users[j]] # NULL
  BY DEF IInv, TypeOK, UserExclusive
<1> QED BY <1>1, <1>2, <1>3, FreedIInv

(* user_disconnected takes a user out of the list and frees it.             *)
LEMMA DisconnectedIInv ==
    ASSUME IInv, NEW w \in Workers, user_disconnected(w)
    PROVE  IInv'
<1>1. /\ worker[w].todo # <<>>
      /\ UNCHANGED <<timers, alarms, registered, held, occurred, open>>
  BY DEF user_disconnected, Doing
<1>2. worker[w].sock # NULL
  BY <1>1 DEF IInv, TodoInv
<1>3. /\ <<>> \in Seq(Calls) /\ Plain(<<>>)
      /\ <<"remove_timer">> \in Seq(Calls) /\ Plain(<<"remove_timer">>)
  BY DEF Plain, Calls, UserCalls, HoldCalls
<1>4. ASSUME NEW i \in DOMAIN users, users' = RemoveAt(users, i), Freed(users[i]),
             Then(w, <<"remove_timer">>)
      PROVE  IInv'
  <2>1. WorkersOK' /\ Quiet
    BY <1>2, <1>3, <1>4, ThenPlain
  <2>2. /\ users' \in Seq(Users) /\ users[i] \in Users
        /\ \A j, k \in DOMAIN users' : users'[j] = users'[k] => j = k
        /\ \A j \in DOMAIN users' : users'[j] # users[i] /\ owned[users'[j]] # NULL
        /\ \A u \in Users : (\A j \in DOMAIN users : users[j] # u)
             => \A j \in DOMAIN users' : users'[j] # u
        /\ \A v \in Workers : ~Holds(v, users[i])
    BY <1>4, UserLeavesList
  <2>3. PICK u \in Users : u = users[i]
    BY <2>2
  <2>4. Freed(u) /\ \A v \in Workers : ~Holds(v, u)'
    BY <1>4, <2>1, <2>2, <2>3 DEF Quiet
  <2> QED BY <1>1, <2>1, <2>2, <2>3, <2>4, FreedIInv
<1>5. CASE Then(w, <<>>) /\ UNCHANGED <<users, owned, done>>
  <2>1. WorkersOK' /\ Quiet
    BY <1>2, <1>3, <1>5, ThenPlain
  <2>2. NothingAnnounced
    BY <1>1, <1>5 DEF NothingAnnounced, IInv, ReservedInv
  <2> QED BY <1>1, <1>5, <2>1, <2>2, QuietIInv DEF IInv, TypeOK
<1> QED BY <1>4, <1>5 DEF user_disconnected

-----------------------------------------------------------------------------
(* The theorems.                                                            *)

(* The invariant holds in every reachable state: every call of every        *)
(* handler keeps it, in whatever order the workers make them.               *)
THEOREM InductiveInvariant == Spec => []IInv
<1>1. Init => IInv
  BY InitIInv
<1>2. IInv /\ [Next]_vars => IInv'
  <2> SUFFICES ASSUME IInv, [Next]_vars PROVE IInv'
    OBVIOUS
  <2>1. CASE \E s \in Descriptors, u \in Users : Accept(s, u)
    BY <2>1, AcceptIInv
  <2>2. CASE (\E e \in registered : StartIO(e)) \/ FinishIO \/ Elapse \/ UNCHANGED vars
    BY <2>2, LoopIInv
  <2>3. ASSUME NEW w \in Workers, Work(w)
        PROVE  IInv'
    BY <2>3, RunEventIInv, AddUserIInv, RegisteringIInv, TimersIInv, FindIInv, ParseIInv,
       ReleaseIInv, FreeUserIInv, DisconnectedIInv, ClosingIInv, HandlerTimerIInv DEF Work
  <2>4. ASSUME NEW w \in Workers, NEW s \in Descriptors, RunTimer(w, s)
        PROVE  IInv'
    BY <2>4, RunTimerIInv
  <2> QED BY <2>1, <2>2, <2>3, <2>4 DEF Next, Loop
<1> QED BY <1>1, <1>2, PTL DEF Spec

(* The variables always have their types.                                   *)
THEOREM TypeCorrect == Spec => []TypeOK
<1>1. IInv => TypeOK
  BY DEF IInv
<1> QED BY <1>1, InductiveInvariant, PTL

(* No two workers ever touch one user_context, none touches one that is in  *)
(* the list, and none touches a freed one: taking a user out of the list    *)
(* while it is processed (users_list.c) is enough for that, whatever the    *)
(* timeouts do.                                                             *)
THEOREM UsersAreExclusive == Spec => []UserExclusive
<1>1. IInv => UserExclusive
  BY DEF IInv
<1> QED BY <1>1, InductiveInvariant, PTL

-----------------------------------------------------------------------------
(* Without timeouts.                                                        *)

(* The calls a worker has still to make.                                    *)
Rem(w) == ToSet(worker[w].todo)

(* The turn of a connection passes from an event to the handler that will   *)
(* make one of these calls, and from the call to the event it registers, or *)
(* it ends.                                                                 *)
TurnCalls == {"hello", "find", "parse", "listen", "reply", "close_quit", "disconnect"}

(* The place of a connection's user in the list is empty, but taken, while  *)
(* a worker is to make one of these calls.                                  *)
SeatCalls == {"add", "parse", "release", "close_quit"}

(* Calls only a timeout leads to.                                           *)
TimeoutCalls == {"is_present", "say_timeout", "unregister", "close", "enqueue"}

(* Calls that concern a connection; the others concern timers only.         *)
Matters == TurnCalls \cup SeatCalls \cup TimeoutCalls \cup HoldCalls

(* Handlers, as long as nothing times out.                                  *)
HandlersInv ==
    \A w \in Workers :
        /\ \A i, j \in DOMAIN worker[w].todo : worker[w].todo[i] = worker[w].todo[j] => i = j
        /\ \A c, d \in Rem(w) \cap TurnCalls : c = d
        /\ \A c, d \in Rem(w) \cap SeatCalls : c = d
        /\ Rem(w) \cap TimeoutCalls = {}
        /\ Rem(w) \cap {"is_exist", "is_elapsed"} # {} => Rem(w) \cap Matters = {}
        /\ "find" \in Rem(w) => worker[w].handler \in {"hello", "write", "read"}
        /\ Rem(w) \cap {"find", "disconnect", "parse"} # {} => Sock(w) \in Sockets
        /\ "parse" \in Rem(w) => worker[w].handler = "read"
        /\ "free" \in Rem(w) => worker[w].handler = "write"
        /\ Rem(w) \cap (HoldCalls \cup {"listen"}) # {} =>
             worker[w].user \in Users /\ owned[worker[w].user] = Sock(w)

EventsInv ==
    /\ \A i \in DOMAIN timers : ~timers[i].elapsed
    /\ \A e \in Pending : e.kind \in {"accept", "hello", "write", "read"}
    /\ \A e \in Pending : e.kind # "accept" => e.sock \in Sockets

Lone(A) == \A x, y \in A : x = y
Apart(A, B) == A = {} \/ B = {}

(* Who has the turn of a connection.                                        *)
RegTurn(s) == {e \in registered : e.sock = s}
IOTurn(s) == {e \in {held} \ {NULL} : e.sock = s}
QueueTurn(s) == {i \in DOMAIN occurred : occurred[i].sock = s}
WorkTurn(s) == {w \in Workers : Sock(w) = s /\ Rem(w) \cap TurnCalls # {}}

TurnInv ==
    \A s \in Sockets :
        /\ Lone(RegTurn(s)) /\ Lone(QueueTurn(s)) /\ Lone(WorkTurn(s))
        /\ Apart(RegTurn(s), IOTurn(s)) /\ Apart(RegTurn(s), QueueTurn(s))
        /\ Apart(RegTurn(s), WorkTurn(s)) /\ Apart(IOTurn(s), QueueTurn(s))
        /\ Apart(IOTurn(s), WorkTurn(s)) /\ Apart(QueueTurn(s), WorkTurn(s))
        /\ RegTurn(s) \cup IOTurn(s) \cup QueueTurn(s) \cup WorkTurn(s) # {} => s \in open

(* Who has the user of a connection.                                        *)
ListSeat(s) == {i \in DOMAIN users : owned[users[i]] = s}
NewSeat(s) == {i \in DOMAIN occurred : occurred[i].kind = "accept" /\ occurred[i].sock = s}
WorkSeat(s) == {w \in Workers : Sock(w) = s /\ Rem(w) \cap SeatCalls # {}}

SeatInv ==
    \A s \in Sockets :
        /\ Lone(ListSeat(s)) /\ Lone(NewSeat(s)) /\ Lone(WorkSeat(s))
        /\ Apart(ListSeat(s), NewSeat(s)) /\ Apart(ListSeat(s), WorkSeat(s))
        /\ Apart(NewSeat(s), WorkSeat(s))
        /\ ListSeat(s) \cup NewSeat(s) \cup WorkSeat(s) # {} => s \in open

(* The user whose buffer a read fills, or will fill, is not about to be     *)
(* freed.                                                                   *)
Doomed(u) == \E v \in Workers : "free" \in Rem(v) /\ worker[v].user = u

ReadsInv ==
    /\ \A e \in Pending : e.kind = "read" =>
         e.user \in Users /\ owned[e.user] = e.sock /\ ~Doomed(e.user)
    /\ \A w \in Workers : "listen" \in Rem(w) => ~Doomed(worker[w].user)

(* The user is in the list when its read is handled, or handler_hello_write *)
(* still has it.                                                            *)
Greets(v, u) == worker[v].handler = "hello" /\ Holds(v, u)

InList(u) == \E i \in DOMAIN users : users[i] = u

Present(s) == \E u \in Users : owned[u] = s /\ (InList(u) \/ \E v \in Workers : Greets(v, u))

ReadDue(s) ==
    \/ \E e \in Pending : e.kind = "read" /\ e.sock = s
    \/ \E w \in Workers : worker[w].handler = "read" /\ "find" \in Rem(w) /\ Sock(w) = s

PresentInv ==
    /\ \A s \in Sockets : ReadDue(s) => Present(s)
    /\ \A w \in Workers : "listen" \in Rem(w) =>
         "release" \in Rem(w) \/ InList(worker[w].user)
    /\ \A w \in Workers : "listen" \in Rem(w) /\ "release" \in Rem(w) =>
         worker[w].handler = "hello" \/ Head(worker[w].todo) = "release"

ConnectionInv ==
    HandlersInv /\ EventsInv /\ TurnInv /\ SeatInv /\ ReadsInv /\ PresentInv

-----------------------------------------------------------------------------
(* The calls a worker has still to make.                                    *)

(* The calls of a sequence without repetition, when the first is made.      *)
LEMMA RestOfCalls ==
    ASSUME NEW S, NEW t \in Seq(S), t # <<>>,
           \A i, j \in DOMAIN t : t[i] = t[j] => i = j
    PROVE  /\ Head(t) \in ToSet(t)
           /\ ToSet(Tail(t)) = ToSet(t) \ {Head(t)}
           /\ \A i, j \in DOMAIN Tail(t) : Tail(t)[i] = Tail(t)[j] => i = j
<1>1. /\ Tail(t) \in Seq(S)
      /\ \A i \in DOMAIN Tail(t) : i + 1 \in DOMAIN t /\ Tail(t)[i] = t[i + 1]
      /\ 1 \in DOMAIN t /\ Head(t) = t[1]
      /\ \A i \in DOMAIN t : i # 1 => i - 1 \in DOMAIN Tail(t) /\ Tail(t)[i - 1] = t[i]
  BY TailShifts
<1>2. DOMAIN t \subseteq Int /\ DOMAIN Tail(t) \subseteq Nat \ {0}
  BY <1>1
<1>3. ToSet(Tail(t)) \subseteq ToSet(t) \ {Head(t)}
  BY <1>1, <1>2 DEF ToSet
<1>4. ASSUME NEW c \in ToSet(t) \ {Head(t)}  PROVE c \in ToSet(Tail(t))
  <2>1. PICK i \in DOMAIN t : t[i] = c
    BY DEF ToSet
  <2>2. i - 1 \in DOMAIN Tail(t) /\ Tail(t)[i - 1] = c
    BY <2>1, <1>1
  <2> QED BY <2>2 DEF ToSet
<1>5. \A i, j \in DOMAIN Tail(t) : Tail(t)[i] = Tail(t)[j] => i = j
  <2> SUFFICES ASSUME NEW i \in DOMAIN Tail(t), NEW j \in DOMAIN Tail(t), Tail(t)[i] = Tail(t)[j]
               PROVE  i = j
    OBVIOUS
  <2>1. i + 1 = j + 1
    BY <1>1
  <2> QED BY <2>1, <1>2
<1> QED BY <1>1, <1>3, <1>4, <1>5 DEF ToSet

(* What a step of one worker leaves of its handler, in terms of calls.      *)
Leaves(w, calls) ==
    /\ Rem(w)' = calls
    /\ calls # {} =>
         worker'[w].sock = worker[w].sock /\ worker'[w].handler = worker[w].handler
    /\ \A i, j \in DOMAIN worker'[w].todo : worker'[w].todo[i] = worker'[w].todo[j] => i = j
    /\ \A v \in Workers \ {w} : worker'[v] = worker[v]

(* A worker makes the call at the head of its todo.                         *)
LEMMA Continues ==
    ASSUME IInv, HandlersInv, NEW w \in Workers, NEW c, Doing(w, c), Continue(w)
    PROVE  /\ c \in Rem(w) /\ Leaves(w, Rem(w) \ {c})
           /\ Rem(w) \ {c} # {} => worker'[w].user = worker[w].user
<1> DEFINE t == worker[w].todo
           r == IF Tail(t) = <<>> THEN Idle ELSE [worker[w] EXCEPT !.todo = Tail(t)]
<1>1. worker' = [worker EXCEPT ![w] = r]
  BY DEF Continue, Then, IInv, TypeOK
<1>2. worker[w] \in WorkerState /\ t \in Seq(Calls) /\ t # <<>> /\ Head(t) = c
      /\ \A i, j \in DOMAIN t : t[i] = t[j] => i = j
  BY DEF IInv, TypeOK, WorkerState, Doing, HandlersInv
<1> HIDE DEF t
<1>3. /\ Head(t) \in ToSet(t) /\ ToSet(Tail(t)) = ToSet(t) \ {c}
      /\ \A i, j \in DOMAIN Tail(t) : Tail(t)[i] = Tail(t)[j] => i = j
  BY <1>2, RestOfCalls
<1>4. /\ r.todo = Tail(t)
      /\ Tail(t) # <<>> => r.sock = worker[w].sock /\ r.handler = worker[w].handler
                           /\ r.user = worker[w].user
  BY <1>2 DEF WorkerState, Idle, t
<1> HIDE DEF r
<1>5. worker'[w] = r /\ \A v \in Workers \ {w} : worker'[v] = worker[v]
  BY <1>1 DEF IInv, TypeOK
<1>6. Rem(w)' = ToSet(t) \ {c} /\ Rem(w) = ToSet(t)
  BY <1>3, <1>4, <1>5 DEF Rem, t
<1>7. ToSet(t) \ {c} # {} => Tail(t) # <<>>
  BY <1>3 DEF ToSet
<1> QED BY <1>2, <1>3, <1>4, <1>5, <1>6, <1>7 DEF Leaves

(* A worker goes on with other calls.                                       *)
LEMMA GoesOn ==
    ASSUME IInv, NEW w \in Workers, NEW rest \in Seq(Calls), Then(w, rest),
           \A i, j \in DOMAIN rest : rest[i] = rest[j] => i = j
    PROVE  /\ Leaves(w, ToSet(rest))
           /\ ToSet(rest) # {} => worker'[w].user = worker[w].user /\ worker'[w].todo = rest
<1> DEFINE r == IF rest = <<>> THEN Idle ELSE [worker[w] EXCEPT !.todo = rest]
<1>1. worker' = [worker EXCEPT ![w] = r] /\ worker[w] \in WorkerState
  BY DEF Then, IInv, TypeOK
<1>2. /\ r.todo = rest
      /\ rest # <<>> => r.sock = worker[w].sock /\ r.handler = worker[w].handler
                        /\ r.user = worker[w].user
  BY <1>1 DEF WorkerState, Idle
<1> HIDE DEF r
<1>3. worker'[w] = r /\ \A v \in Workers \ {w} : worker'[v] = worker[v]
  BY <1>1 DEF IInv, TypeOK
<1>4. Rem(w)' = ToSet(rest)
  BY <1>2, <1>3 DEF Rem
<1>5. ToSet(rest) # {} => rest # <<>>
  BY DEF ToSet
<1> QED BY <1>2, <1>3, <1>4, <1>5 DEF Leaves

(* Calls, as sets.                                                          *)
LEMMA CallsOfRest ==
    /\ ToSet(<<>>) = {}
    /\ \A a : ToSet(<<a>>) = {a}
    /\ \A a, b : ToSet(<<a, b>>) = {a, b}
    /\ \A a, b, c : ToSet(<<a, b, c>>) = {a, b, c}
    /\ \A a, b, c, d : ToSet(<<a, b, c, d>>) = {a, b, c, d}
<1>1. ToSet(<<>>) = {}
  BY DEF ToSet
<1>2. ASSUME NEW a  PROVE ToSet(<<a>>) = {a}
  BY DEF ToSet
<1>3. ASSUME NEW a, NEW b  PROVE ToSet(<<a, b>>) = {a, b}
  BY DEF ToSet
<1>4. ASSUME NEW a, NEW b, NEW c  PROVE ToSet(<<a, b, c>>) = {a, b, c}
  BY DEF ToSet
<1>5. ASSUME NEW a, NEW b, NEW c, NEW d  PROVE ToSet(<<a, b, c, d>>) = {a, b, c, d}
  BY DEF ToSet
<1> QED BY <1>1, <1>2, <1>3, <1>4, <1>5

-----------------------------------------------------------------------------
(* Steps that change no call that matters here.                             *)

(* A worker that still has the same calls to make, of those.                *)
Alike(v) ==
    /\ Rem(v)' \cap Matters = Rem(v) \cap Matters
    /\ Rem(v) \cap Matters # {} =>
         /\ worker'[v].sock = worker[v].sock /\ worker'[v].handler = worker[v].handler
         /\ worker'[v].user = worker[v].user
    /\ \A i, j \in DOMAIN worker'[v].todo : worker'[v].todo[i] = worker'[v].todo[j] => i = j
    /\ {"listen", "release"} \subseteq Rem(v) =>
         worker[v].handler = "hello" \/ worker'[v] = worker[v]
    /\ Rem(v)' \cap {"is_exist", "is_elapsed"} # {} => Rem(v)' \cap Matters = {}

(* Workers that did not move are alike.                                     *)
LEMMA StillAlike ==
    ASSUME HandlersInv, NEW v \in Workers, worker'[v] = worker[v]
    PROVE  Alike(v)
BY DEF Alike, Rem, HandlersInv

(* A worker makes a call that does not matter here.                         *)
LEMMA ContinuesAlike ==
    ASSUME IInv, HandlersInv, PresentInv, NEW w \in Workers, NEW c, c \notin Matters,
           Doing(w, c), Continue(w)
    PROVE  \A v \in Workers : Alike(v)
<1>1. /\ c \in Rem(w) /\ Leaves(w, Rem(w) \ {c})
      /\ Rem(w) \ {c} # {} => worker'[w].user = worker[w].user
  BY Continues
<1>2. {"listen", "release"} \subseteq Rem(w) => worker[w].handler = "hello"
  BY DEF PresentInv, Doing, Matters, HoldCalls
<1>3. Alike(w)
  BY <1>1, <1>2 DEF Leaves, Alike, HandlersInv
<1> QED BY <1>1, <1>3, StillAlike DEF Leaves

(* A handler of a timer moves among the calls that do not matter here.      *)
LEMMA GoesOnAlike ==
    ASSUME IInv, HandlersInv, NEW w \in Workers, NEW rest \in Seq(Calls), Then(w, rest),
           \A i, j \in DOMAIN rest : rest[i] = rest[j] => i = j,
           ToSet(rest) \cap Matters = {}, Rem(w) \cap Matters = {}
    PROVE  \A v \in Workers : Alike(v)
<1>1. Leaves(w, ToSet(rest))
  BY GoesOn
<1>2. Alike(w)
  BY <1>1 DEF Leaves, Alike, Matters, TurnCalls
<1> QED BY <1>1, <1>2, StillAlike DEF Leaves

(* What is said of alike workers stays true.                                *)
LEMMA AlikeWorkers ==
    ASSUME IInv, HandlersInv, \A v \in Workers : Alike(v), UNCHANGED owned
    PROVE  /\ HandlersInv'
           /\ \A s \in Sockets : WorkTurn(s)' = WorkTurn(s) /\ WorkSeat(s)' = WorkSeat(s)
           /\ \A u : Doomed(u)' <=> Doomed(u)
           /\ \A v \in Workers, u \in Users : Greets(v, u) => Greets(v, u)'
           /\ \A v \in Workers :
                /\ "listen" \in Rem(v)' => "listen" \in Rem(v) /\ worker'[v].user = worker[v].user
                /\ "release" \in Rem(v) <=> "release" \in Rem(v)'
                /\ "find" \in Rem(v)' => "find" \in Rem(v) /\ worker'[v].sock = worker[v].sock
                                         /\ worker'[v].handler = worker[v].handler
<1>1. \A v \in Workers, C \in SUBSET Matters :
        Rem(v)' \cap C = Rem(v) \cap C
  BY DEF Alike
<1>2. /\ TurnCalls \subseteq Matters /\ SeatCalls \subseteq Matters
      /\ TimeoutCalls \subseteq Matters /\ HoldCalls \subseteq Matters
      /\ HoldCalls \cup {"listen"} \subseteq Matters
      /\ "listen" \in Matters /\ "release" \in Matters /\ "find" \in Matters
      /\ "free" \in Matters /\ "parse" \in Matters /\ "disconnect" \in Matters
  BY DEF Matters, TurnCalls, HoldCalls
<1>3. \A v \in Workers, c \in Matters :
        /\ c \in Rem(v)' <=> c \in Rem(v)
        /\ c \in Rem(v) => worker'[v].sock = worker[v].sock /\ worker'[v].handler = worker[v].handler
                           /\ worker'[v].user = worker[v].user
  BY DEF Alike
<1>4. HandlersInv'
  <2> SUFFICES ASSUME NEW w \in Workers
      PROVE
        /\ \A i, j \in DOMAIN worker'[w].todo : worker'[w].todo[i] = worker'[w].todo[j] => i = j
        /\ \A c, d \in Rem(w)' \cap TurnCalls : c = d
        /\ \A c, d \in Rem(w)' \cap SeatCalls : c = d
        /\ Rem(w)' \cap TimeoutCalls = {}
        /\ Rem(w)' \cap {"is_exist", "is_elapsed"} # {} => Rem(w)' \cap Matters = {}
        /\ "find" \in Rem(w)' => worker'[w].handler \in {"hello", "write", "read"}
        /\ Rem(w)' \cap {"find", "disconnect", "parse"} # {} => Sock(w)' \in Sockets
        /\ "parse" \in Rem(w)' => worker'[w].handler = "read"
        /\ "free" \in Rem(w)' => worker'[w].handler = "write"
        /\ Rem(w)' \cap (HoldCalls \cup {"listen"}) # {} =>
             worker'[w].user \in Users /\ owned'[worker'[w].user] = Sock(w)'
    BY DEF HandlersInv
  <2>1. /\ \A i, j \in DOMAIN worker'[w].todo : worker'[w].todo[i] = worker'[w].todo[j] => i = j
        /\ Rem(w)' \cap {"is_exist", "is_elapsed"} # {} => Rem(w)' \cap Matters = {}
    BY DEF Alike
  <2>2. /\ \A c, d \in Rem(w)' \cap TurnCalls : c = d
        /\ \A c, d \in Rem(w)' \cap SeatCalls : c = d
        /\ Rem(w)' \cap TimeoutCalls = {}
    BY <1>1, <1>2 DEF HandlersInv
  <2>3. /\ "find" \in Rem(w)' => worker'[w].handler \in {"hello", "write", "read"}
        /\ Rem(w)' \cap {"find", "disconnect", "parse"} # {} => Sock(w)' \in Sockets
        /\ "parse" \in Rem(w)' => worker'[w].handler = "read"
        /\ "free" \in Rem(w)' => worker'[w].handler = "write"
    BY <1>2, <1>3 DEF HandlersInv, Sock
  <2>4. Rem(w)' \cap (HoldCalls \cup {"listen"}) # {} =>
             worker'[w].user \in Users /\ owned'[worker'[w].user] = Sock(w)'
    BY <1>2, <1>3 DEF HandlersInv, Sock
  <2> QED BY <2>1, <2>2, <2>3, <2>4
<1>5. \A s \in Sockets : WorkTurn(s)' = WorkTurn(s) /\ WorkSeat(s)' = WorkSeat(s)
  BY <1>2, <1>3 DEF WorkTurn, WorkSeat, Sock
<1>6. \A u : Doomed(u)' <=> Doomed(u)
  BY <1>2, <1>3 DEF Doomed
<1>7. \A v \in Workers, u \in Users : Greets(v, u) => Greets(v, u)'
  <2>1. \A v \in Workers : WillCall(v, HoldCalls) <=> Rem(v) \cap HoldCalls # {}
    BY DEF WillCall, Rem, ToSet
  <2>2. \A v \in Workers : WillCall(v, HoldCalls)' <=> Rem(v)' \cap HoldCalls # {}
    BY DEF WillCall, Rem, ToSet
  <2> QED BY <2>1, <2>2, <1>2, <1>3 DEF Greets, Holds
<1> QED BY <1>2, <1>3, <1>4, <1>5, <1>6, <1>7

(* A step of a handler that does not matter here.                           *)
LEMMA AlikeConnection ==
    ASSUME IInv, ConnectionInv, \A v \in Workers : Alike(v),
           UNCHANGED <<owned, users, registered, held, occurred, open>>,
           \A i \in DOMAIN timers' : ~timers'[i].elapsed
    PROVE  ConnectionInv'
<1> USE AlikeWorkers DEF ConnectionInv
<1>1. Pending' = Pending
  BY DEF Pending
<1>2. HandlersInv' /\ EventsInv'
  BY <1>1 DEF EventsInv
<1>3. TurnInv'
  BY DEF TurnInv, RegTurn, IOTurn, QueueTurn, Lone, Apart
<1>4. SeatInv'
  BY DEF SeatInv, ListSeat, NewSeat, Lone, Apart
<1>5. ReadsInv'
  BY <1>1 DEF ReadsInv
<1>6. PresentInv'
  <2>1. \A s \in Sockets : ReadDue(s)' => ReadDue(s)
    BY <1>1 DEF ReadDue, Sock
  <2>2. \A s \in Sockets : Present(s) => Present(s)'
    BY DEF Present, InList
  <2>3. ASSUME NEW w \in Workers, "listen" \in Rem(w)'
        PROVE  "release" \in Rem(w)' \/ InList(worker[w].user)'
    BY <2>3 DEF PresentInv, InList
  <2>4. ASSUME NEW w \in Workers, "listen" \in Rem(w)', "release" \in Rem(w)'
        PROVE  worker'[w].handler = "hello" \/ Head(worker'[w].todo) = "release"
    BY <2>4 DEF PresentInv, Alike, Matters, HoldCalls
  <2> QED BY <2>1, <2>2, <2>3, <2>4 DEF PresentInv, InList
<1> QED BY <1>2, <1>3, <1>4, <1>5, <1>6

(* The calls of timers.c and the event loop's timers.                       *)
LEMMA TimerCallsConnection ==
    ASSUME IInv, ConnectionInv, NEW w \in Workers,
           timers_make_for_socket(w) \/ timers_update_by_socket(w)
             \/ timers_remove_for_socket(w) \/ el_timer(w)
    PROVE  ConnectionInv'
<1> DEFINE T == [sock : Descriptors, elapsed : BOOLEAN]
<1> USE DEF timers_make_for_socket, timers_update_by_socket, timers_remove_for_socket, el_timer
<1>1. PICK c \in {"make_timer", "update", "remove_timer", "el_timer"} : Doing(w, c)
  OBVIOUS
<1>2. /\ Continue(w) /\ c \notin Matters /\ worker[w].todo # <<>>
      /\ UNCHANGED <<owned, users, registered, held, occurred, open>>
  BY <1>1 DEF Matters, TurnCalls, SeatCalls, TimeoutCalls, HoldCalls, Doing
<1>3. \A v \in Workers : Alike(v)
  BY <1>1, <1>2, ContinuesAlike DEF ConnectionInv
<1>4. /\ timers \in Seq(T) /\ Sock(w) \in Descriptors
      /\ \A i \in DOMAIN timers : timers[i] \in T /\ ~timers[i].elapsed
  <2>1. timers \in Seq(T)
    BY DEF IInv, TypeOK
  <2> HIDE DEF T
  <2>2. \A i \in DOMAIN timers : timers[i] \in T
    BY <2>1
  <2> QED BY <2>1, <2>2, <1>2, SockTyped DEF ConnectionInv, EventsInv
<1>5. \A i \in DOMAIN timers' : ~timers'[i].elapsed
  <2>1. CASE timers' = Append(timers, [sock |-> Sock(w), elapsed |-> FALSE])
    <3> DEFINE x == [sock |-> Sock(w), elapsed |-> FALSE]
    <3>1. x \in T /\ ~x.elapsed
      BY <1>4
    <3> HIDE DEF x, T
    <3> QED BY <3>1, <1>4, <2>1, AppendAdds DEF x
  <2>2. ASSUME NEW i \in DOMAIN timers, timers' = [timers EXCEPT ![i].elapsed = FALSE]
        PROVE  \A j \in DOMAIN timers' : ~timers'[j].elapsed
    BY <2>2, <1>4
  <2>3. ASSUME NEW i \in DOMAIN timers, timers' = RemoveAt(timers, i)
        PROVE  \A j \in DOMAIN timers' : ~timers'[j].elapsed
    <3> HIDE DEF T
    <3>1. ASSUME NEW j \in DOMAIN timers'
          PROVE  \E k \in DOMAIN timers : timers'[j] = timers[k]
      <4>1. \A m \in DOMAIN RemoveAt(timers, i) :
              LET k == IF m < i THEN m ELSE m + 1
              IN  k \in DOMAIN timers /\ k # i /\ RemoveAt(timers, i)[m] = timers[k]
        BY <1>4, RemoveAtShifts
      <4> DEFINE k == IF j < i THEN j ELSE j + 1
      <4>2. k \in DOMAIN timers /\ timers'[j] = timers[k]
        BY <2>3, <4>1
      <4> QED BY <4>2
    <3> QED BY <3>1, <1>4
  <2> QED BY <2>1, <2>2, <2>3, <1>4
<1> QED BY <1>2, <1>3, <1>5, AlikeConnection

(* handler_timer finds no entry elapsed, so it frees the event loop's timer *)
(* or leaves it armed.                                                      *)
LEMMA HandlerTimerConnection ==
    ASSUME IInv, ConnectionInv, NEW w \in Workers, handler_timer(w)
    PROVE  ConnectionInv'
<1>1. UNCHANGED <<owned, users, timers, registered, held, occurred, open>>
  BY DEF handler_timer
<1>2. PICK c \in {"is_exist", "is_elapsed", "is_present", "el_timer_free"} : Doing(w, c)
  BY DEF handler_timer
<1>3. /\ worker[w].todo \in Seq(Calls) /\ worker[w].todo # <<>> /\ Head(worker[w].todo) = c
  BY <1>2 DEF Doing, IInv, TypeOK, WorkerState
<1>4. c \in Rem(w)
  BY <1>3, TailShifts DEF Rem, ToSet
<1>5. c # "is_present"
  BY <1>4 DEF ConnectionInv, HandlersInv, TimeoutCalls
<1>6. c \notin Matters
  BY <1>2, <1>5 DEF Matters, TurnCalls, SeatCalls, TimeoutCalls, HoldCalls
<1>7. ~Elapsed(Sock(w))
  BY DEF Elapsed, ConnectionInv, EventsInv
<1>8. \/ Continue(w)
      \/ \E rest \in {<<>>, <<"el_timer_free">>, <<"is_elapsed">>} :
           Then(w, rest) /\ c \in {"is_exist", "is_elapsed"}
  BY <1>3, <1>5, <1>7 DEF handler_timer, Doing, Rearm, Proceed, Continue
<1>9. CASE Continue(w)
  <2>1. \A v \in Workers : Alike(v)
    BY <1>2, <1>6, <1>9, ContinuesAlike DEF ConnectionInv
  <2> QED BY <2>1, <1>1, AlikeConnection DEF ConnectionInv, EventsInv
<1>10. ASSUME NEW rest \in {<<>>, <<"el_timer_free">>, <<"is_elapsed">>}, Then(w, rest),
              c \in {"is_exist", "is_elapsed"}
       PROVE  ConnectionInv'
  <2>1. /\ rest \in Seq(Calls) /\ \A i, j \in DOMAIN rest : rest[i] = rest[j] => i = j
        /\ ToSet(rest) \cap Matters = {}
    <3>1. CASE rest = <<>>
      BY <3>1, CallsOfRest
    <3>2. CASE rest = <<"el_timer_free">>
      BY <3>2, CallsOfRest DEF Calls, Matters, TurnCalls, SeatCalls, TimeoutCalls, HoldCalls
    <3>3. CASE rest = <<"is_elapsed">>
      BY <3>3, CallsOfRest DEF Calls, Matters, TurnCalls, SeatCalls, TimeoutCalls, HoldCalls
    <3> QED BY <3>1, <3>2, <3>3
  <2>2. Rem(w) \cap Matters = {}
    BY <1>4, <1>10 DEF ConnectionInv, HandlersInv
  <2>3. \A v \in Workers : Alike(v)
    BY <1>10, <2>1, <2>2, GoesOnAlike DEF ConnectionInv
  <2> QED BY <2>3, <1>1, AlikeConnection DEF ConnectionInv, EventsInv
<1> QED BY <1>8, <1>9, <1>10

(* A worker starts handler_timer.                                           *)
LEMMA RunTimerConnection ==
    ASSUME IInv, ConnectionInv, NEW w \in Workers, NEW s \in Descriptors, RunTimer(w, s)
    PROVE  ConnectionInv'
<1> DEFINE r == [handler |-> "timer", sock |-> s, user |-> NULL, todo |-> <<"is_exist">>]
<1>1. /\ worker[w].todo = <<>> /\ worker' = [worker EXCEPT ![w] = r]
      /\ UNCHANGED <<owned, users, timers, registered, held, occurred, open>>
  BY DEF RunTimer
<1>2. r.todo = <<"is_exist">>
  OBVIOUS
<1> HIDE DEF r
<1>3. worker'[w] = r /\ \A v \in Workers \ {w} : worker'[v] = worker[v]
  BY <1>1 DEF IInv, TypeOK
<1>4. Rem(w)' = {"is_exist"} /\ Rem(w) = {}
  BY <1>1, <1>2, <1>3, CallsOfRest DEF Rem
<1>5. Alike(w)
  BY <1>2, <1>3, <1>4 DEF Alike, Matters, TurnCalls, SeatCalls, TimeoutCalls, HoldCalls
<1>6. \A v \in Workers : Alike(v)
  BY <1>3, <1>5, StillAlike DEF ConnectionInv
<1> QED BY <1>1, <1>6, AlikeConnection DEF ConnectionInv, EventsInv

-----------------------------------------------------------------------------
(* The steps of the loop.                                                   *)

(* What an event that is appended changes.                                  *)
LEMMA AppendedTurn ==
    ASSUME NEW x \in Event, occurred \in Seq(Event), occurred' = Append(occurred, x)
    PROVE  /\ ToSet(occurred') = ToSet(occurred) \cup {x}
           /\ \A s : QueueTurn(s)' = QueueTurn(s) \cup (IF x.sock = s THEN {Len(occurred) + 1} ELSE {})
           /\ \A s : NewSeat(s)' = NewSeat(s) \cup
                (IF x.kind = "accept" /\ x.sock = s THEN {Len(occurred) + 1} ELSE {})
<1> DEFINE n == Len(occurred)
<1>1. /\ DOMAIN occurred' = DOMAIN occurred \cup {n + 1}
      /\ \A i \in DOMAIN occurred : occurred'[i] = occurred[i] /\ i # n + 1
      /\ occurred'[n + 1] = x
  <2>1. /\ DOMAIN occurred' = 1 .. (n + 1) /\ DOMAIN occurred = 1 .. n /\ n \in Nat
        /\ \A i \in DOMAIN occurred : occurred'[i] = occurred[i]
        /\ occurred'[n + 1] = x
    BY AppendAdds
  <2> HIDE DEF n
  <2> QED BY <2>1
<1> HIDE DEF n
<1>2. ToSet(occurred') = ToSet(occurred) \cup {x}
  BY <1>1 DEF ToSet
<1>3. \A s : QueueTurn(s)' = QueueTurn(s) \cup (IF x.sock = s THEN {n + 1} ELSE {})
  BY <1>1 DEF QueueTurn
<1>4. \A s : NewSeat(s)' = NewSeat(s) \cup
                (IF x.kind = "accept" /\ x.sock = s THEN {n + 1} ELSE {})
  BY <1>1 DEF NewSeat
<1> QED BY <1>2, <1>3, <1>4 DEF n

(* If no read appears, the users of the reads are where they were.          *)
LEMMA NoNewRead ==
    ASSUME IInv, ConnectionInv, \A v \in Workers : Alike(v), UNCHANGED <<owned, users>>,
           \A e \in Pending' : e.kind = "read" =>
               \E f \in Pending : f.kind = "read" /\ f.sock = e.sock /\ f.user = e.user
    PROVE  HandlersInv' /\ ReadsInv' /\ PresentInv'
<1> USE AlikeWorkers DEF ConnectionInv
<1>1. ReadsInv'
  BY DEF ReadsInv
<1>2. PresentInv'
  <2>1. \A s \in Sockets : ReadDue(s)' => ReadDue(s)
    BY DEF ReadDue, Sock
  <2>2. \A s \in Sockets : Present(s) => Present(s)'
    BY DEF Present, InList
  <2>3. ASSUME NEW w \in Workers, "listen" \in Rem(w)'
        PROVE  "release" \in Rem(w)' \/ InList(worker[w].user)'
    BY <2>3 DEF PresentInv, InList
  <2>4. ASSUME NEW w \in Workers, "listen" \in Rem(w)', "release" \in Rem(w)'
        PROVE  worker'[w].handler = "hello" \/ Head(worker'[w].todo) = "release"
    BY <2>4 DEF PresentInv, Alike, Matters, HoldCalls
  <2> QED BY <2>1, <2>2, <2>3, <2>4 DEF PresentInv, InList
<1> QED BY <1>1, <1>2

(* A descriptor accept returns has no turn and no seat.                     *)
LEMMA AcceptConnection ==
    ASSUME IInv, ConnectionInv, NEW s \in Descriptors, NEW u \in Users, Accept(s, u)
    PROVE  ConnectionInv'
<1> DEFINE x == NewEvent("accept", s, u)
<1> USE DEF ConnectionInv
<1>1. x \in Event /\ x.kind = "accept" /\ x.sock = s
  BY DEF NewEvent, Event, Kinds
<1>2. /\ occurred \in Seq(Event) /\ occurred' = Append(occurred, x)
      /\ UNCHANGED <<owned, users, timers, registered, held, worker>>
      /\ s \notin open /\ open' = open \cup ({s} \ {NoSocket})
  BY DEF Accept, IInv, TypeOK
<1> HIDE DEF x
<1>3. /\ ToSet(occurred') = ToSet(occurred) \cup {x}
      /\ \A d : QueueTurn(d)' = QueueTurn(d) \cup (IF s = d THEN {Len(occurred) + 1} ELSE {})
      /\ \A d : NewSeat(d)' = NewSeat(d) \cup (IF s = d THEN {Len(occurred) + 1} ELSE {})
  BY <1>1, <1>2, AppendedTurn
<1>4. \A v \in Workers : Alike(v)
  BY <1>2, StillAlike
<1>5. Pending' = Pending \cup {x}
  BY <1>2, <1>3 DEF Pending
<1>6. HandlersInv' /\ ReadsInv' /\ PresentInv'
  BY <1>1, <1>2, <1>4, <1>5, NoNewRead
<1>7. EventsInv'
  BY <1>1, <1>2, <1>5 DEF EventsInv
<1>8. /\ \A d \in Sockets : WorkTurn(d)' = WorkTurn(d) /\ WorkSeat(d)' = WorkSeat(d)
      /\ \A d \in Sockets : RegTurn(d)' = RegTurn(d) /\ IOTurn(d)' = IOTurn(d)
      /\ \A d \in Sockets : ListSeat(d)' = ListSeat(d)
  BY <1>2, <1>4, AlikeWorkers DEF RegTurn, IOTurn, ListSeat
<1>9. TurnInv'
  BY <1>2, <1>3, <1>8, ServerAssumption DEF TurnInv, Lone, Apart
<1>10. SeatInv'
  BY <1>2, <1>3, <1>8, ServerAssumption DEF SeatInv, Lone, Apart
<1> QED BY <1>6, <1>7, <1>9, <1>10

(* The manager passes the turn of a connection on.                          *)
LEMMA IOConnection ==
    ASSUME IInv, ConnectionInv, (\E e \in registered : StartIO(e)) \/ FinishIO
    PROVE  ConnectionInv'
<1> USE DEF ConnectionInv
<1>1. UNCHANGED <<owned, users, timers, worker, open>>
  BY DEF StartIO, FinishIO
<1>2. \A v \in Workers : Alike(v)
  BY <1>1, StillAlike
<1>3. \A d \in Sockets :
        /\ WorkTurn(d)' = WorkTurn(d) /\ WorkSeat(d)' = WorkSeat(d)
        /\ ListSeat(d)' = ListSeat(d)
  BY <1>1, <1>2, AlikeWorkers DEF ListSeat
<1>4. ASSUME NEW e \in registered, StartIO(e)  PROVE ConnectionInv'
  <2>1. /\ held = NULL /\ held' = e /\ registered' = registered \ {e}
        /\ UNCHANGED occurred
    BY <1>4 DEF StartIO
  <2>2. Pending' \subseteq Pending
    BY <2>1 DEF Pending
  <2>3. HandlersInv' /\ ReadsInv' /\ PresentInv' /\ EventsInv'
    BY <1>1, <1>2, <2>2, NoNewRead DEF EventsInv
  <2>4. \A d \in Sockets :
          /\ RegTurn(d)' = RegTurn(d) \ {e} /\ IOTurn(d)' \subseteq {f \in {e} : f.sock = d}
          /\ IOTurn(d) = {} /\ (e.sock = d => e \in RegTurn(d))
          /\ QueueTurn(d)' = QueueTurn(d) /\ NewSeat(d)' = NewSeat(d)
    BY <2>1 DEF RegTurn, IOTurn, QueueTurn, NewSeat
  <2>5. TurnInv'
    BY <1>1, <1>3, <2>4 DEF TurnInv, Lone, Apart
  <2>6. SeatInv'
    BY <1>1, <1>3, <2>4 DEF SeatInv, Lone, Apart
  <2> QED BY <2>3, <2>5, <2>6
<1>5. CASE FinishIO
  <2>1. PICK gone \in BOOLEAN : occurred' = Append(occurred, [held EXCEPT !.gone = gone])
    BY <1>5 DEF FinishIO
  <2> DEFINE x == [held EXCEPT !.gone = gone]
  <2>2. /\ held # NULL /\ held' = NULL /\ held \in Event /\ held.kind # "accept"
        /\ UNCHANGED registered /\ held \in Pending /\ occurred \in Seq(Event)
    BY <1>5 DEF FinishIO, IInv, TypeOK, ReservedInv, Pending
  <2>3. x \in Event /\ x.kind = held.kind /\ x.sock = held.sock /\ x.user = held.user
    BY <2>2 DEF Event
  <2> HIDE DEF x
  <2>4. occurred' = Append(occurred, x)
    BY <2>1 DEF x
  <2>5. /\ ToSet(occurred') = ToSet(occurred) \cup {x}
        /\ \A d : QueueTurn(d)' = QueueTurn(d)
                    \cup (IF x.sock = d THEN {Len(occurred) + 1} ELSE {})
        /\ \A d : NewSeat(d)' = NewSeat(d)
                    \cup (IF x.kind = "accept" /\ x.sock = d THEN {Len(occurred) + 1} ELSE {})
    BY <2>2, <2>3, <2>4, AppendedTurn
  <2>6. Pending' \subseteq Pending \cup {x}
    BY <2>2, <2>5 DEF Pending
  <2>7. HandlersInv' /\ ReadsInv' /\ PresentInv'
    BY <1>1, <1>2, <2>2, <2>3, <2>6, NoNewRead
  <2>8. EventsInv'
    BY <1>1, <2>2, <2>3, <2>6 DEF EventsInv
  <2>9. \A d \in Sockets :
          /\ RegTurn(d)' = RegTurn(d) /\ IOTurn(d)' = {}
          /\ x.sock = d => IOTurn(d) # {}
    BY <2>2, <2>3 DEF RegTurn, IOTurn
  <2>10. TurnInv'
    BY <1>1, <1>3, <2>5, <2>9 DEF TurnInv, Lone, Apart
  <2>11. SeatInv'
    BY <1>1, <1>3, <2>2, <2>3, <2>5 DEF SeatInv, Lone, Apart
  <2> QED BY <2>7, <2>8, <2>10, <2>11
<1> QED BY <1>4, <1>5

-----------------------------------------------------------------------------
(* Handlers.                                                                *)

(* One worker's handler changes.                                            *)
LEMMA HandlerChanges ==
    ASSUME HandlersInv, NEW w \in Workers,
           \A v \in Workers \ {w} : worker'[v] = worker[v],
           \A i, j \in DOMAIN worker'[w].todo :
               worker'[w].todo[i] = worker'[w].todo[j] => i = j,
           \A c, d \in Rem(w)' \cap TurnCalls : c = d,
           \A c, d \in Rem(w)' \cap SeatCalls : c = d,
           Rem(w)' \cap TimeoutCalls = {},
           Rem(w)' \cap {"is_exist", "is_elapsed"} # {} => Rem(w)' \cap Matters = {},
           "find" \in Rem(w)' => worker'[w].handler \in {"hello", "write", "read"},
           Rem(w)' \cap {"find", "disconnect", "parse"} # {} => worker'[w].sock \in Sockets,
           "parse" \in Rem(w)' => worker'[w].handler = "read",
           "free" \in Rem(w)' => worker'[w].handler = "write",
           Rem(w)' \cap (HoldCalls \cup {"listen"}) # {} =>
               worker'[w].user \in Users /\ owned'[worker'[w].user] = worker'[w].sock,
           \A v \in Workers \ {w} : Rem(v) \cap (HoldCalls \cup {"listen"}) # {} =>
               owned'[worker[v].user] = owned[worker[v].user]
    PROVE  HandlersInv'
<1> SUFFICES ASSUME NEW v \in Workers
    PROVE
      /\ \A i, j \in DOMAIN worker'[v].todo : worker'[v].todo[i] = worker'[v].todo[j] => i = j
      /\ \A c, d \in Rem(v)' \cap TurnCalls : c = d
      /\ \A c, d \in Rem(v)' \cap SeatCalls : c = d
      /\ Rem(v)' \cap TimeoutCalls = {}
      /\ Rem(v)' \cap {"is_exist", "is_elapsed"} # {} => Rem(v)' \cap Matters = {}
      /\ "find" \in Rem(v)' => worker'[v].handler \in {"hello", "write", "read"}
      /\ Rem(v)' \cap {"find", "disconnect", "parse"} # {} => Sock(v)' \in Sockets
      /\ "parse" \in Rem(v)' => worker'[v].handler = "read"
      /\ "free" \in Rem(v)' => worker'[v].handler = "write"
      /\ Rem(v)' \cap (HoldCalls \cup {"listen"}) # {} =>
           worker'[v].user \in Users /\ owned'[worker'[v].user] = Sock(v)'
  BY DEF HandlersInv
<1>1. CASE v = w
  BY <1>1 DEF Sock
<1>2. CASE v # w
  <2>1. worker'[v] = worker[v] /\ Rem(v)' = Rem(v) /\ Sock(v)' = Sock(v)
    BY <1>2 DEF Rem, Sock
  <2> QED BY <1>2, <2>1 DEF HandlersInv
<1> QED BY <1>1, <1>2

(* Whose turn it is and whose seat it is when one worker's handler changes. *)
LEMMA TurnChanges ==
    ASSUME NEW w \in Workers, \A v \in Workers \ {w} : worker'[v] = worker[v],
           Rem(w)' # {} /\ Rem(w) # {} => worker'[w].sock = worker[w].sock
    PROVE  \A s \in Sockets :
             /\ Rem(w)' \cap TurnCalls = {} => WorkTurn(s)' = WorkTurn(s) \ {w}
             /\ Rem(w)' \cap SeatCalls = {} => WorkSeat(s)' = WorkSeat(s) \ {w}
             /\ Rem(w)' \cap TurnCalls # {} /\ Rem(w) \cap TurnCalls # {}
                  => WorkTurn(s)' = WorkTurn(s)
             /\ Rem(w)' \cap SeatCalls # {} /\ Rem(w) \cap SeatCalls # {}
                  => WorkSeat(s)' = WorkSeat(s)
             /\ Rem(w)' \cap TurnCalls # {}
                  => WorkTurn(s)' \subseteq WorkTurn(s) \cup {v \in {w} : worker'[w].sock = s}
             /\ Rem(w)' \cap SeatCalls # {}
                  => WorkSeat(s)' \subseteq WorkSeat(s) \cup {v \in {w} : worker'[w].sock = s}
             /\ Rem(w) \cap TurnCalls # {} /\ worker[w].sock = s => w \in WorkTurn(s)
             /\ Rem(w) \cap SeatCalls # {} /\ worker[w].sock = s => w \in WorkSeat(s)
<1>1. \A v \in Workers \ {w} : Rem(v)' = Rem(v) /\ Sock(v)' = Sock(v)
  BY DEF Rem, Sock
<1>2. Sock(w)' = worker'[w].sock /\ Sock(w) = worker[w].sock
  BY DEF Sock
<1>3. \A s : WorkTurn(s)' = {v \in Workers : Sock(v)' = s /\ Rem(v)' \cap TurnCalls # {}}
  BY DEF WorkTurn
<1>4. \A s : WorkSeat(s)' = {v \in Workers : Sock(v)' = s /\ Rem(v)' \cap SeatCalls # {}}
  BY DEF WorkSeat
<1>5. \A s \in Sockets, v \in Workers :
        /\ v \in WorkTurn(s)' <=> Sock(v)' = s /\ Rem(v)' \cap TurnCalls # {}
        /\ v \in WorkTurn(s) <=> Sock(v) = s /\ Rem(v) \cap TurnCalls # {}
        /\ v \in WorkSeat(s)' <=> Sock(v)' = s /\ Rem(v)' \cap SeatCalls # {}
        /\ v \in WorkSeat(s) <=> Sock(v) = s /\ Rem(v) \cap SeatCalls # {}
        /\ WorkTurn(s) \subseteq Workers /\ WorkTurn(s)' \subseteq Workers
        /\ WorkSeat(s) \subseteq Workers /\ WorkSeat(s)' \subseteq Workers
  BY <1>3, <1>4 DEF WorkTurn, WorkSeat
<1>6. ASSUME NEW s \in Sockets, NEW v \in Workers \ {w}
      PROVE  (v \in WorkTurn(s)' <=> v \in WorkTurn(s)) /\ (v \in WorkSeat(s)' <=> v \in WorkSeat(s))
  BY <1>1, <1>5
<1> SUFFICES ASSUME NEW s \in Sockets
             PROVE
             /\ Rem(w)' \cap TurnCalls = {} => WorkTurn(s)' = WorkTurn(s) \ {w}
             /\ Rem(w)' \cap SeatCalls = {} => WorkSeat(s)' = WorkSeat(s) \ {w}
             /\ Rem(w)' \cap TurnCalls # {} /\ Rem(w) \cap TurnCalls # {}
                  => WorkTurn(s)' = WorkTurn(s)
             /\ Rem(w)' \cap SeatCalls # {} /\ Rem(w) \cap SeatCalls # {}
                  => WorkSeat(s)' = WorkSeat(s)
             /\ Rem(w)' \cap TurnCalls # {}
                  => WorkTurn(s)' \subseteq WorkTurn(s) \cup {v \in {w} : worker'[w].sock = s}
             /\ Rem(w)' \cap SeatCalls # {}
                  => WorkSeat(s)' \subseteq WorkSeat(s) \cup {v \in {w} : worker'[w].sock = s}
             /\ Rem(w) \cap TurnCalls # {} /\ worker[w].sock = s => w \in WorkTurn(s)
             /\ Rem(w) \cap SeatCalls # {} /\ worker[w].sock = s => w \in WorkSeat(s)
  OBVIOUS
<1>7. Rem(w)' \cap TurnCalls = {} => WorkTurn(s)' = WorkTurn(s) \ {w}
  BY <1>2, <1>5, <1>6
<1>8. Rem(w)' \cap SeatCalls = {} => WorkSeat(s)' = WorkSeat(s) \ {w}
  BY <1>2, <1>5, <1>6
<1>9. ASSUME Rem(w)' \cap TurnCalls # {}, Rem(w) \cap TurnCalls # {}
      PROVE  WorkTurn(s)' = WorkTurn(s)
  <2>1. Sock(w)' = Sock(w)
    BY <1>2, <1>9
  <2>2. w \in WorkTurn(s)' <=> w \in WorkTurn(s)
    BY <1>5, <1>9, <2>1
  <2>3. \A v \in Workers : v \in WorkTurn(s)' <=> v \in WorkTurn(s)
    BY <1>6, <2>2
  <2>4. WorkTurn(s)' \subseteq Workers /\ WorkTurn(s) \subseteq Workers
    BY <1>5
  <2> QED BY <2>3, <2>4
<1>10. ASSUME Rem(w)' \cap SeatCalls # {}, Rem(w) \cap SeatCalls # {}
       PROVE  WorkSeat(s)' = WorkSeat(s)
  <2>1. Sock(w)' = Sock(w)
    BY <1>2, <1>10
  <2>2. w \in WorkSeat(s)' <=> w \in WorkSeat(s)
    BY <1>5, <1>10, <2>1
  <2>3. \A v \in Workers : v \in WorkSeat(s)' <=> v \in WorkSeat(s)
    BY <1>6, <2>2
  <2>4. WorkSeat(s)' \subseteq Workers /\ WorkSeat(s) \subseteq Workers
    BY <1>5
  <2> QED BY <2>3, <2>4
<1>11. /\ WorkTurn(s)' \subseteq WorkTurn(s) \cup {v \in {w} : worker'[w].sock = s}
       /\ WorkSeat(s)' \subseteq WorkSeat(s) \cup {v \in {w} : worker'[w].sock = s}
       /\ Rem(w) \cap TurnCalls # {} /\ worker[w].sock = s => w \in WorkTurn(s)
       /\ Rem(w) \cap SeatCalls # {} /\ worker[w].sock = s => w \in WorkSeat(s)
  BY <1>2, <1>5, <1>6
<1> QED BY <1>7, <1>8, <1>9, <1>10, <1>11

(* A worker makes the call at the head of its todo.                         *)
LEMMA ContinueConnection ==
    ASSUME IInv, HandlersInv, PresentInv, NEW w \in Workers, NEW c, Doing(w, c), Continue(w)
    PROVE  /\ c \in Rem(w) /\ Rem(w)' = Rem(w) \ {c}
           /\ \A v \in Workers \ {w} : worker'[v] = worker[v]
           /\ \A v \in Workers : Rem(v)' # {} =>
                /\ worker'[v].sock = worker[v].sock /\ worker'[v].handler = worker[v].handler
                /\ worker'[v].user = worker[v].user
           /\ (\A v \in Workers : Rem(v)' \cap (HoldCalls \cup {"listen"}) # {} =>
                 owned'[worker[v].user] = owned[worker[v].user]) => HandlersInv'
           /\ \A s \in Sockets :
                /\ WorkTurn(s)' = IF c \in TurnCalls THEN WorkTurn(s) \ {w} ELSE WorkTurn(s)
                /\ WorkSeat(s)' = IF c \in SeatCalls THEN WorkSeat(s) \ {w} ELSE WorkSeat(s)
                /\ c \in TurnCalls /\ Sock(w) = s => w \in WorkTurn(s)
                /\ c \in SeatCalls /\ Sock(w) = s => w \in WorkSeat(s)
           /\ \A u : Doomed(u)' => Doomed(u)
           /\ \A v \in Workers, u \in Users :
                Greets(v, u) /\ (v = w => c \notin HoldCalls) => Greets(v, u)'
           /\ \A v \in Workers : "listen" \in Rem(v)' /\ "release" \in Rem(v)' =>
                worker'[v].handler = "hello" \/ Head(worker'[v].todo) = "release"
<1>1. /\ c \in Rem(w) /\ Leaves(w, Rem(w) \ {c})
      /\ Rem(w) \ {c} # {} => worker'[w].user = worker[w].user
  BY Continues
<1>2. /\ Rem(w)' = Rem(w) \ {c}
      /\ \A v \in Workers \ {w} : worker'[v] = worker[v] /\ Rem(v)' = Rem(v)
  BY <1>1 DEF Leaves, Rem
<1>3. \A v \in Workers : Rem(v)' # {} =>
         /\ worker'[v].sock = worker[v].sock /\ worker'[v].handler = worker[v].handler
         /\ worker'[v].user = worker[v].user
  BY <1>1, <1>2 DEF Leaves
<1>4. ASSUME \A v \in Workers : Rem(v)' \cap (HoldCalls \cup {"listen"}) # {} =>
                 owned'[worker[v].user] = owned[worker[v].user]
      PROVE  HandlersInv'
  <2>1. \A i, j \in DOMAIN worker'[w].todo :
               worker'[w].todo[i] = worker'[w].todo[j] => i = j
    BY <1>1 DEF Leaves
  <2>2. Rem(w)' \subseteq Rem(w)
    BY <1>2
  <2>3. /\ \A a, b \in Rem(w)' \cap TurnCalls : a = b
        /\ \A a, b \in Rem(w)' \cap SeatCalls : a = b
        /\ Rem(w)' \cap TimeoutCalls = {}
        /\ Rem(w)' \cap {"is_exist", "is_elapsed"} # {} => Rem(w)' \cap Matters = {}
    BY <2>2 DEF HandlersInv
  <2>4. /\ "find" \in Rem(w)' => worker'[w].handler \in {"hello", "write", "read"}
        /\ Rem(w)' \cap {"find", "disconnect", "parse"} # {} => worker'[w].sock \in Sockets
        /\ "parse" \in Rem(w)' => worker'[w].handler = "read"
        /\ "free" \in Rem(w)' => worker'[w].handler = "write"
    BY <2>2, <1>3 DEF HandlersInv, Sock
  <2>5. Rem(w)' \cap (HoldCalls \cup {"listen"}) # {} =>
               worker'[w].user \in Users /\ owned'[worker'[w].user] = worker'[w].sock
    BY <2>2, <1>3, <1>4 DEF HandlersInv, Sock
  <2>6. \A v \in Workers \ {w} : Rem(v) \cap (HoldCalls \cup {"listen"}) # {} =>
               owned'[worker[v].user] = owned[worker[v].user]
    BY <1>2, <1>4
  <2> QED BY <1>2, <2>1, <2>3, <2>4, <2>5, <2>6, HandlerChanges
<1>5. \A s \in Sockets :
        /\ WorkTurn(s)' = IF c \in TurnCalls THEN WorkTurn(s) \ {w} ELSE WorkTurn(s)
        /\ WorkSeat(s)' = IF c \in SeatCalls THEN WorkSeat(s) \ {w} ELSE WorkSeat(s)
        /\ c \in TurnCalls /\ Sock(w) = s => w \in WorkTurn(s)
        /\ c \in SeatCalls /\ Sock(w) = s => w \in WorkSeat(s)
  <2>1. Rem(w)' # {} /\ Rem(w) # {} => worker'[w].sock = worker[w].sock
    BY <1>3
  <2>2. c \in TurnCalls => Rem(w)' \cap TurnCalls = {} /\ Rem(w) \cap TurnCalls # {}
    BY <1>1, <1>2 DEF HandlersInv
  <2>3. c \in SeatCalls => Rem(w)' \cap SeatCalls = {} /\ Rem(w) \cap SeatCalls # {}
    BY <1>1, <1>2 DEF HandlersInv
  <2>4. /\ c \notin TurnCalls => Rem(w)' \cap TurnCalls = Rem(w) \cap TurnCalls
        /\ c \notin SeatCalls => Rem(w)' \cap SeatCalls = Rem(w) \cap SeatCalls
    BY <1>2
  <2>5. \A s : /\ Rem(w) \cap TurnCalls = {} => w \notin WorkTurn(s)
               /\ Rem(w) \cap SeatCalls = {} => w \notin WorkSeat(s)
    BY DEF WorkTurn, WorkSeat
  <2> TAKE s \in Sockets
  <2>6. ASSUME c \in TurnCalls
        PROVE  WorkTurn(s)' = WorkTurn(s) \ {w} /\ (Sock(w) = s => w \in WorkTurn(s))
    BY <1>2, <2>1, <2>2, <2>6, TurnChanges DEF Sock
  <2>7. ASSUME c \in SeatCalls
        PROVE  WorkSeat(s)' = WorkSeat(s) \ {w} /\ (Sock(w) = s => w \in WorkSeat(s))
    BY <1>2, <2>1, <2>3, <2>7, TurnChanges DEF Sock
  <2>8. ASSUME c \notin TurnCalls  PROVE WorkTurn(s)' = WorkTurn(s)
    <3>1. CASE Rem(w) \cap TurnCalls = {}
      <4>1. WorkTurn(s)' = WorkTurn(s) \ {w}
        BY <1>2, <2>1, <2>4, <2>8, <3>1, TurnChanges
      <4> QED BY <4>1, <2>5, <3>1
    <3>2. CASE Rem(w) \cap TurnCalls # {}
      BY <1>2, <2>1, <2>4, <2>8, <3>2, TurnChanges
    <3> QED BY <3>1, <3>2
  <2>9. ASSUME c \notin SeatCalls  PROVE WorkSeat(s)' = WorkSeat(s)
    <3>1. CASE Rem(w) \cap SeatCalls = {}
      <4>1. WorkSeat(s)' = WorkSeat(s) \ {w}
        BY <1>2, <2>1, <2>4, <2>9, <3>1, TurnChanges
      <4> QED BY <4>1, <2>5, <3>1
    <3>2. CASE Rem(w) \cap SeatCalls # {}
      BY <1>2, <2>1, <2>4, <2>9, <3>2, TurnChanges
    <3> QED BY <3>1, <3>2
  <2> DEFINE tt == WorkTurn(s)' = IF c \in TurnCalls THEN WorkTurn(s) \ {w} ELSE WorkTurn(s)
             st == WorkSeat(s)' = IF c \in SeatCalls THEN WorkSeat(s) \ {w} ELSE WorkSeat(s)
  <2>10. tt /\ (c \in TurnCalls /\ Sock(w) = s => w \in WorkTurn(s))
    BY <2>6, <2>8
  <2>11. st /\ (c \in SeatCalls /\ Sock(w) = s => w \in WorkSeat(s))
    BY <2>7, <2>9
  <2> QED BY <2>10, <2>11
<1>6. \A u : Doomed(u)' => Doomed(u)
  BY <1>2, <1>3 DEF Doomed
<1>7. ASSUME NEW v \in Workers, NEW u \in Users, Greets(v, u), v = w => c \notin HoldCalls
      PROVE  Greets(v, u)'
  <2>1. (WillCall(v, HoldCalls) <=> Rem(v) \cap HoldCalls # {})
        /\ (WillCall(v, HoldCalls)' <=> Rem(v)' \cap HoldCalls # {})
    BY DEF WillCall, Rem, ToSet
  <2>2. Rem(v)' \cap HoldCalls # {}
    BY <1>2, <1>7, <2>1 DEF Greets, Holds
  <2> QED BY <1>3, <1>7, <2>1, <2>2 DEF Greets, Holds
<1>8. ASSUME NEW v \in Workers, "listen" \in Rem(v)', "release" \in Rem(v)'
      PROVE  worker'[v].handler = "hello" \/ Head(worker'[v].todo) = "release"
  <2>1. CASE v = w
    BY <1>2, <1>3, <1>8, <2>1 DEF PresentInv, Doing
  <2>2. CASE v # w
    BY <1>2, <1>8, <2>2 DEF PresentInv
  <2> QED BY <2>1, <2>2
<1> QED BY <1>1, <1>2, <1>3, <1>4, <1>5, <1>6, <1>7, <1>8

(* A call passes the turn of its connection on to the event it registers,   *)
(* or the registration fails and the turn is over.                          *)
LEMMA TurnToEvent ==
    ASSUME IInv, ConnectionInv, NEW w \in Workers, NEW c \in TurnCalls, Doing(w, c), Continue(w),
           c \notin SeatCalls,
           NEW x, x.sock = Sock(w), x.kind # "accept", Register(x),
           UNCHANGED <<owned, users, held, occurred, open>>
    PROVE  /\ TurnInv' /\ SeatInv' /\ HandlersInv'
           /\ registered' = registered \/ (registered' = registered \cup {x} /\ x.sock \in Sockets)
           /\ Pending' \subseteq Pending \cup {x}
<1> USE DEF ConnectionInv
<1>1. Sock(w) \in Descriptors
  BY SockTyped DEF Doing
<1>2. registered' = registered \/ (registered' = registered \cup {x} /\ x.sock \in Sockets)
  BY <1>1 DEF Register, Descriptors
<1>3. Pending' \subseteq Pending \cup {x}
  BY <1>2 DEF Pending
<1>4. \A s \in Sockets :
        /\ WorkTurn(s)' = WorkTurn(s) \ {w} /\ (Sock(w) = s => w \in WorkTurn(s))
        /\ WorkSeat(s)' = WorkSeat(s)
  BY ContinueConnection
<1>5. HandlersInv'
  BY ContinueConnection
<1>6. \A s \in Sockets :
        /\ RegTurn(s)' \subseteq RegTurn(s) \cup {e \in {x} : Sock(w) = s}
        /\ IOTurn(s)' = IOTurn(s) /\ QueueTurn(s)' = QueueTurn(s)
        /\ ListSeat(s)' = ListSeat(s) /\ NewSeat(s)' = NewSeat(s)
  BY <1>2 DEF RegTurn, IOTurn, QueueTurn, ListSeat, NewSeat
<1>7. TurnInv'
  BY <1>4, <1>6 DEF TurnInv, Lone, Apart
<1>8. SeatInv'
  BY <1>4, <1>6 DEF SeatInv, Lone, Apart
<1> QED BY <1>2, <1>3, <1>5, <1>7, <1>8

(* A read that may be registered.                                           *)
Readable(e) ==
    /\ e.user \in Users /\ owned[e.user] = e.sock /\ ~Doomed(e.user)
    /\ Present(e.sock)

(* A call that frees nobody leaves the users of reads where they can be     *)
(* found.                                                                   *)
LEMMA ContinueUsers ==
    ASSUME IInv, ConnectionInv, NEW w \in Workers, NEW c, Doing(w, c), Continue(w),
           UNCHANGED owned, \A u \in Users : InList(u) => InList(u)',
           c \in HoldCalls => c = "release" /\ \E i \in DOMAIN users' : users'[i] = worker[w].user,
           \A e \in Pending' : e.kind = "read" =>
               \/ \E f \in Pending : f.kind = "read" /\ f.sock = e.sock /\ f.user = e.user
               \/ Readable(e)
    PROVE  ReadsInv' /\ PresentInv'
<1> USE DEF ConnectionInv
<1>1. /\ \A v \in Workers : Rem(v)' \subseteq Rem(v)
      /\ \A v \in Workers : Rem(v)' # {} =>
            /\ worker'[v].sock = worker[v].sock /\ worker'[v].handler = worker[v].handler
            /\ worker'[v].user = worker[v].user
      /\ \A v \in Workers : "release" \in Rem(v) /\ "release" \notin Rem(v)' => v = w /\ c = "release"
  <2>1. /\ Rem(w)' = Rem(w) \ {c}
        /\ \A v \in Workers \ {w} : worker'[v] = worker[v]
        /\ \A v \in Workers : Rem(v)' # {} =>
            /\ worker'[v].sock = worker[v].sock /\ worker'[v].handler = worker[v].handler
            /\ worker'[v].user = worker[v].user
    BY ContinueConnection
  <2>2. \A v \in Workers \ {w} : Rem(v)' = Rem(v)
    BY <2>1 DEF Rem
  <2> QED BY <2>1, <2>2
<1>2. \A u : Doomed(u)' => Doomed(u)
  BY ContinueConnection
<1>3. ASSUME NEW v \in Workers, NEW u \in Users, Greets(v, u)
      PROVE  Greets(v, u)' \/ InList(u)'
  <2>1. CASE v = w /\ c \in HoldCalls
    BY <1>3, <2>1 DEF Greets, Holds, InList
  <2>2. CASE v = w => c \notin HoldCalls
    BY <1>3, <2>2, ContinueConnection
  <2> QED BY <2>1, <2>2
<1>4. \A s : Present(s) => Present(s)'
  BY <1>3 DEF Present
<1>5. ASSUME NEW e \in Pending', e.kind = "read"
      PROVE  e.user \in Users /\ owned'[e.user] = e.sock /\ ~Doomed(e.user)'
             /\ (e.sock \in Sockets => Present(e.sock)')
  <2>1. CASE Readable(e)
    BY <2>1, <1>2, <1>4 DEF Readable
  <2>2. ASSUME NEW f \in Pending, f.kind = "read", f.sock = e.sock, f.user = e.user
        PROVE  e.user \in Users /\ owned'[e.user] = e.sock /\ ~Doomed(e.user)'
               /\ (e.sock \in Sockets => Present(e.sock)')
    <3>1. f.user \in Users /\ owned[f.user] = f.sock /\ ~Doomed(f.user)
      BY <2>2 DEF ReadsInv
    <3>2. f.sock \in Sockets => Present(f.sock)
      BY <2>2 DEF PresentInv, ReadDue
    <3> QED BY <3>1, <3>2, <2>2, <1>2, <1>4
  <2> QED BY <1>5, <2>1, <2>2
<1>6. \A v \in Workers : "listen" \in Rem(v)' =>
        "listen" \in Rem(v) /\ worker'[v].user = worker[v].user
  BY <1>1
<1>7. ReadsInv'
  <2>1. \A v \in Workers : "listen" \in Rem(v)' => ~Doomed(worker[v].user)'
    <3> SUFFICES ASSUME NEW v \in Workers, "listen" \in Rem(v)'
                 PROVE  ~Doomed(worker[v].user)'
      OBVIOUS
    <3>1. "listen" \in Rem(v) /\ worker'[v].user = worker[v].user
      BY <1>6
    <3>2. PICK u \in Users : u = worker[v].user /\ ~Doomed(u)
      BY <3>1 DEF ReadsInv, HandlersInv
    <3>3. ~Doomed(u)' /\ worker'[v].user = u
      BY <1>2, <3>1, <3>2
    <3> QED BY <3>3 DEF Doomed
  <2> QED BY <1>5, <2>1 DEF ReadsInv
<1>8. \A s \in Sockets : ReadDue(s)' => Present(s)'
  <2> SUFFICES ASSUME NEW s \in Sockets, ReadDue(s)'  PROVE Present(s)'
    OBVIOUS
  <2>1. CASE \E e \in Pending' : e.kind = "read" /\ e.sock = s
    BY <2>1, <1>5
  <2>2. ASSUME NEW v \in Workers, worker'[v].handler = "read", "find" \in Rem(v)', Sock(v)' = s
        PROVE  Present(s)'
    <3>1. "find" \in Rem(v) /\ worker[v].handler = "read" /\ Sock(v) = s
      BY <1>1, <2>2 DEF Sock
    <3>2. ReadDue(s)
      BY <3>1 DEF ReadDue
    <3> QED BY <3>2, <1>4 DEF PresentInv
  <2> QED BY <2>1, <2>2 DEF ReadDue
<1>9. ASSUME NEW v \in Workers, "listen" \in Rem(v)'
      PROVE  "release" \in Rem(v)' \/ InList(worker[v].user)'
  <2>1. "listen" \in Rem(v) /\ worker'[v].user = worker[v].user
    BY <1>6, <1>9
  <2>2. PICK u \in Users : u = worker[v].user
    BY <2>1 DEF HandlersInv
  <2>3. "release" \in Rem(v)' \/ InList(u)'
    <3>1. CASE "release" \in Rem(v) /\ "release" \notin Rem(v)'
      <4>1. v = w /\ c = "release"
        BY <3>1, <1>1
      <4>2. \E i \in DOMAIN users' : users'[i] = worker[w].user
        BY <4>1 DEF HoldCalls
      <4> QED BY <4>1, <4>2, <2>2 DEF InList
    <3>2. CASE InList(u)
      BY <3>2
    <3> QED BY <2>1, <2>2, <3>1, <3>2 DEF PresentInv
  <2> QED BY <2>1, <2>2, <2>3 DEF InList
<1>10. \A v \in Workers : "listen" \in Rem(v)' /\ "release" \in Rem(v)' =>
                worker'[v].handler = "hello" \/ Head(worker'[v].todo) = "release"
  BY ContinueConnection
<1> QED BY <1>7, <1>8, <1>9, <1>10 DEF PresentInv

(* The greeting or a reply is registered.                                   *)
LEMMA AsyncWriteConnection ==
    ASSUME IInv, ConnectionInv, NEW w \in Workers, AsyncWrite(w)
    PROVE  ConnectionInv'
<1> USE DEF ConnectionInv
<1>1. PICK c \in DOMAIN CallKind :
        /\ Doing(w, c) /\ Register(NewEvent(CallKind[c], Sock(w), NULL))
        /\ Continue(w) /\ UNCHANGED <<owned, users, timers, held, occurred, open>>
  BY DEF AsyncWrite
<1> DEFINE x == NewEvent(CallKind[c], Sock(w), NULL)
<1>2. c \in {"hello", "reply"}
  <2>1. c \in Rem(w)
    BY <1>1, ContinueConnection
  <2> QED BY <2>1 DEF HandlersInv, TimeoutCalls, CallKind
<1>3. /\ x.kind \in {"hello", "write"} /\ x.sock = Sock(w)
      /\ c \in TurnCalls /\ c \notin SeatCalls /\ c \notin HoldCalls
  BY <1>2 DEF NewEvent, CallKind, TurnCalls, SeatCalls, HoldCalls
<1> HIDE DEF x
<1>4. /\ TurnInv' /\ SeatInv' /\ HandlersInv'
      /\ registered' = registered \/ (registered' = registered \cup {x} /\ x.sock \in Sockets)
      /\ Pending' \subseteq Pending \cup {x}
  BY <1>1, <1>3, TurnToEvent DEF x
<1>5. EventsInv'
  <2>1. registered' = registered => Pending' = Pending
    BY <1>1 DEF Pending
  <2> QED BY <1>1, <1>3, <1>4, <2>1 DEF EventsInv
<1>6. ReadsInv' /\ PresentInv'
  <2>1. \A e \in Pending' : e.kind = "read" => e \in Pending
    BY <1>3, <1>4
  <2>2. \A u \in Users : InList(u) => InList(u)'
    BY <1>1 DEF InList
  <2> QED BY <1>1, <1>3, <2>1, <2>2, ContinueUsers
<1> QED BY <1>4, <1>5, <1>6

(* A read into the buffer of the worker's user is registered.               *)
LEMMA AsyncReadConnection ==
    ASSUME IInv, ConnectionInv, NEW w \in Workers, AsyncRead(w)
    PROVE  ConnectionInv'
<1> USE DEF ConnectionInv
<1> DEFINE x == NewEvent("read", Sock(w), worker[w].user)
<1>1. /\ Doing(w, "listen") /\ Register(x)
      /\ Continue(w) /\ UNCHANGED <<owned, users, timers, held, occurred, open>>
  BY DEF AsyncRead
<1>2. /\ x.kind = "read" /\ x.sock = Sock(w) /\ x.user = worker[w].user
      /\ "listen" \in TurnCalls /\ "listen" \notin SeatCalls /\ "listen" \notin HoldCalls
  BY DEF NewEvent, TurnCalls, SeatCalls, HoldCalls
<1> HIDE DEF x
<1>3. /\ TurnInv' /\ SeatInv' /\ HandlersInv'
      /\ registered' = registered \/ (registered' = registered \cup {x} /\ x.sock \in Sockets)
      /\ Pending' \subseteq Pending \cup {x}
  BY <1>1, <1>2, TurnToEvent
<1>4. EventsInv'
  <2>1. registered' = registered => Pending' = Pending
    BY <1>1 DEF Pending
  <2> QED BY <1>1, <1>2, <1>3, <2>1 DEF EventsInv
<1>5. /\ "listen" \in Rem(w)
      /\ worker[w].user \in Users /\ owned[worker[w].user] = Sock(w) /\ ~Doomed(worker[w].user)
  BY <1>1, ContinueConnection DEF HandlersInv, ReadsInv
<1>6. Present(Sock(w))
  <2>1. CASE InList(worker[w].user)
    BY <2>1, <1>5 DEF Present
  <2>2. CASE "release" \in Rem(w)
    <3>1. worker[w].handler = "hello"
      BY <1>1, <1>5, <2>2 DEF PresentInv, Doing
    <3>2. WillCall(w, HoldCalls)
      BY <2>2 DEF Rem, WillCall, ToSet, HoldCalls
    <3>3. Greets(w, worker[w].user)
      BY <3>1, <3>2 DEF Greets, Holds
    <3> QED BY <3>3, <1>5 DEF Present
  <2> QED BY <1>5, <2>1, <2>2 DEF PresentInv
<1>7. ReadsInv' /\ PresentInv'
  <2>1. Readable(x)
    BY <1>2, <1>5, <1>6 DEF Readable
  <2>2. \A u \in Users : InList(u) => InList(u)'
    BY <1>1 DEF InList
  <2>3. \A e \in Pending' : e \in Pending \/ Readable(e)
    BY <1>3, <2>1
  <2> QED BY <1>1, <1>2, <2>2, <2>3, ContinueUsers
<1> QED BY <1>3, <1>4, <1>7

(* A worker puts its user back at the end of the list.                      *)
LEMMA ReleaseConnection ==
    ASSUME IInv, ConnectionInv, NEW w \in Workers, user_accessor_release(w)
    PROVE  ConnectionInv'
<1> USE DEF ConnectionInv
<1>1. /\ Doing(w, "release") /\ Continue(w) /\ users' = Append(users, worker[w].user)
      /\ UNCHANGED <<owned, timers, registered, held, occurred, open>>
      /\ users \in Seq(Users)
  BY DEF user_accessor_release, IInv, TypeOK
<1>2. /\ "release" \in Rem(w) /\ worker[w].user \in Users /\ owned[worker[w].user] = Sock(w)
  BY <1>1, ContinueConnection DEF HandlersInv, HoldCalls
<1> DEFINE n == Len(users)
<1>3. /\ DOMAIN users' = DOMAIN users \cup {n + 1}
      /\ \A i \in DOMAIN users : users'[i] = users[i] /\ i # n + 1
      /\ users'[n + 1] = worker[w].user
  <2>1. /\ DOMAIN users' = 1 .. (n + 1) /\ DOMAIN users = 1 .. n /\ n \in Nat
        /\ \A i \in DOMAIN users : users'[i] = users[i]
        /\ users'[n + 1] = worker[w].user
    BY <1>1, <1>2, AppendAdds
  <2> HIDE DEF n
  <2> QED BY <2>1
<1> HIDE DEF n
<1>4. HandlersInv'
  BY <1>1, ContinueConnection
<1>5. EventsInv'
  BY <1>1 DEF EventsInv, Pending
<1>6. ReadsInv' /\ PresentInv'
  <2>1. \A u \in Users : InList(u) => InList(u)'
    BY <1>3 DEF InList
  <2>2. Pending' = Pending
    BY <1>1 DEF Pending
  <2> QED BY <1>1, <1>3, <2>1, <2>2, ContinueUsers
<1>7. \A s \in Sockets :
        /\ WorkTurn(s)' = WorkTurn(s)
        /\ WorkSeat(s)' = WorkSeat(s) \ {w} /\ (Sock(w) = s => w \in WorkSeat(s))
  BY <1>1, ContinueConnection DEF TurnCalls, SeatCalls
<1>8. TurnInv'
  BY <1>1, <1>7 DEF TurnInv, RegTurn, IOTurn, QueueTurn
<1>9. \A s \in Sockets :
        /\ ListSeat(s)' \subseteq ListSeat(s) \cup {i \in {n + 1} : Sock(w) = s}
        /\ NewSeat(s)' = NewSeat(s)
  BY <1>1, <1>2, <1>3 DEF ListSeat, NewSeat
<1>10. SeatInv'
  BY <1>1, <1>7, <1>9 DEF SeatInv, Lone, Apart
<1> QED BY <1>4, <1>5, <1>6, <1>8, <1>10

(* The descriptor of a session that is over is closed: the connection has   *)
(* no turn and no seat left.                                                *)
LEMMA CloseConnection ==
    ASSUME IInv, ConnectionInv, NEW w \in Workers, CloseDescriptor(w)
    PROVE  ConnectionInv'
<1> USE DEF ConnectionInv
<1>1. /\ UNCHANGED <<owned, users, timers, registered, held, occurred>>
      /\ Continue(w) /\ open' = open \ {Sock(w)}
  BY DEF CloseDescriptor
<1>2. Doing(w, "close_quit")
  <2>1. ~Doing(w, "close")
    BY <1>1, ContinueConnection DEF HandlersInv, TimeoutCalls
  <2> QED BY <2>1 DEF CloseDescriptor
<1>3. "close_quit" \in TurnCalls /\ "close_quit" \in SeatCalls /\ "close_quit" \notin HoldCalls
  BY DEF TurnCalls, SeatCalls, HoldCalls
<1>4. HandlersInv'
  BY <1>1, <1>2, ContinueConnection
<1>5. EventsInv'
  BY <1>1 DEF EventsInv, Pending
<1>6. ReadsInv' /\ PresentInv'
  <2>1. \A u \in Users : InList(u) => InList(u)'
    BY <1>1 DEF InList
  <2>2. Pending' = Pending
    BY <1>1 DEF Pending
  <2> QED BY <1>1, <1>2, <1>3, <2>1, <2>2, ContinueUsers
<1>7. \A s \in Sockets :
        /\ WorkTurn(s)' = WorkTurn(s) \ {w} /\ (Sock(w) = s => w \in WorkTurn(s))
        /\ WorkSeat(s)' = WorkSeat(s) \ {w} /\ (Sock(w) = s => w \in WorkSeat(s))
  BY <1>1, <1>2, <1>3, ContinueConnection
<1>8. \A s \in Sockets :
        /\ RegTurn(s)' = RegTurn(s) /\ IOTurn(s)' = IOTurn(s) /\ QueueTurn(s)' = QueueTurn(s)
        /\ ListSeat(s)' = ListSeat(s) /\ NewSeat(s)' = NewSeat(s)
  BY <1>1 DEF RegTurn, IOTurn, QueueTurn, ListSeat, NewSeat
<1>9. TurnInv'
  BY <1>1, <1>7, <1>8 DEF TurnInv, Lone, Apart
<1>10. SeatInv'
  BY <1>1, <1>7, <1>8 DEF SeatInv, Lone, Apart
<1> QED BY <1>4, <1>5, <1>6, <1>9, <1>10

-----------------------------------------------------------------------------
(* Users that move.                                                         *)

(* A worker will make calls of a set if they are among those it has still   *)
(* to make.                                                                 *)
LEMMA WillCallRem ==
    \A w, C : (WillCall(w, C) <=> Rem(w) \cap C # {}) /\ (WillCall(w, C)' <=> Rem(w)' \cap C # {})
BY DEF WillCall, Rem, ToSet

(* A user that leaves the list is the only one that does.                   *)
LEMMA ListAfter ==
    ASSUME IInv, NEW i \in DOMAIN users, users' = RemoveAt(users, i)
    PROVE  /\ \A x : InList(x)' <=> InList(x) /\ x # users[i]
           /\ \A j, k \in DOMAIN users' : users'[j] = users'[k] => j = k
           /\ users[i] \in Users
<1> DEFINE n == Len(users)
           old(j) == IF j < i THEN j ELSE j + 1
<1>1. /\ users \in Seq(Users) /\ \A j, k \in DOMAIN users : users[j] = users[k] => j = k
  BY DEF IInv, TypeOK, UserExclusive
<1>2. /\ DOMAIN users' = 1 .. (n - 1)
      /\ \A j \in DOMAIN users' : old(j) \in DOMAIN users /\ old(j) # i /\ users'[j] = users[old(j)]
  BY <1>1, RemoveAtShifts
<1>3. DOMAIN users = 1 .. n /\ n \in Nat /\ i \in 1 .. n /\ users[i] \in Users
  BY <1>1
<1> HIDE DEF n
<1>4. ASSUME NEW x, InList(x)'  PROVE InList(x) /\ x # users[i]
  <2>1. PICK j \in DOMAIN users' : users'[j] = x
    BY <1>4 DEF InList
  <2>2. old(j) \in DOMAIN users /\ old(j) # i /\ x = users[old(j)]
    BY <1>2, <2>1
  <2> HIDE DEF old
  <2> QED BY <1>1, <2>2 DEF InList
<1>5. ASSUME NEW x, InList(x), x # users[i]  PROVE InList(x)'
  <2>1. PICK k \in DOMAIN users : users[k] = x
    BY <1>5 DEF InList
  <2> DEFINE j == IF k < i THEN k ELSE k - 1
  <2>2. k # i
    BY <1>5, <2>1
  <2>3. j \in 1 .. (n - 1) /\ old(j) = k
    BY <1>3, <2>2
  <2> HIDE DEF j, old
  <2> QED BY <1>2, <2>1, <2>3 DEF InList
<1>6. ASSUME NEW j \in DOMAIN users', NEW k \in DOMAIN users', users'[j] = users'[k]
      PROVE  j = k
  <2>1. old(j) = old(k)
    <3> HIDE DEF old
    <3> QED BY <1>1, <1>2, <1>6
  <2> QED BY <1>2, <1>3, <2>1
<1> QED BY <1>3, <1>4, <1>5, <1>6

(* The seat of a connection whose user left the list is free, the others    *)
(* are as they were.                                                        *)
LEMMA SeatsAfter ==
    ASSUME IInv, SeatInv, NEW i \in DOMAIN users, users' = RemoveAt(users, i),
           \A u \in Users : u # users[i] => owned'[u] = owned[u]
    PROVE  \A s \in Sockets :
             /\ Lone(ListSeat(s)') /\ (ListSeat(s) = {} => ListSeat(s)' = {})
             /\ owned[users[i]] = s => ListSeat(s)' = {} /\ ListSeat(s) # {}
<1>1. /\ \A x : InList(x)' <=> InList(x) /\ x # users[i]
      /\ \A j, k \in DOMAIN users' : users'[j] = users'[k] => j = k
      /\ \A j \in DOMAIN users : users[j] \in Users
  BY ListAfter DEF IInv, TypeOK
<1>2. ASSUME NEW s \in Sockets, NEW j \in ListSeat(s)'
      PROVE  \E k \in ListSeat(s) : users[k] = users'[j] /\ k # i
  <2>1. j \in DOMAIN users' /\ owned'[users'[j]] = s
    BY <1>2 DEF ListSeat
  <2>2. PICK k \in DOMAIN users : users[k] = users'[j] /\ users'[j] # users[i]
    BY <1>1, <2>1 DEF InList
  <2>3. owned[users[k]] = s
    BY <1>1, <2>1, <2>2
  <2> QED BY <2>2, <2>3 DEF ListSeat
<1>3. ASSUME NEW s \in Sockets  PROVE Lone(ListSeat(s)')
  <2> SUFFICES ASSUME NEW j \in ListSeat(s)', NEW k \in ListSeat(s)'  PROVE j = k
    BY DEF Lone
  <2>1. users'[j] = users'[k]
    BY <1>2 DEF SeatInv, Lone
  <2> QED BY <1>1, <2>1 DEF ListSeat
<1>4. ASSUME NEW s \in Sockets, owned[users[i]] = s
      PROVE  ListSeat(s)' = {} /\ ListSeat(s) # {}
  <2>1. i \in ListSeat(s)
    BY <1>4 DEF ListSeat
  <2> QED BY <1>2, <2>1 DEF SeatInv, Lone
<1> QED BY <1>2, <1>3, <1>4

(* A worker that has the turn of a connection is the only one concerned     *)
(* with it: no event of it is pending.                                      *)
LEMMA MyTurn ==
    ASSUME ConnectionInv, NEW s \in Sockets, NEW w \in WorkTurn(s)
    PROVE  /\ \A e \in Pending : e.sock # s
           /\ \A v \in WorkTurn(s) : v = w
           /\ s \in open
<1>1. RegTurn(s) = {} /\ IOTurn(s) = {} /\ QueueTurn(s) = {} /\ Lone(WorkTurn(s)) /\ s \in open
  BY DEF ConnectionInv, TurnInv, Apart
<1>2. \A e \in ToSet(occurred) : e.sock # s
  BY <1>1 DEF QueueTurn, ToSet
<1> QED BY <1>1, <1>2 DEF Pending, RegTurn, IOTurn, Lone

(* A worker that has the turn of a connection may do with its user as it    *)
(* likes: the users of the others stay where reads find them.               *)
LEMMA UsersMove ==
    ASSUME IInv, ConnectionInv, NEW s \in Sockets, NEW w \in WorkTurn(s),
           UNCHANGED <<registered, held, occurred>>,
           \A v \in Workers \ {w} : worker'[v] = worker[v],
           \A x \in Users : owned[x] # s => owned'[x] = owned[x] /\ (InList(x) => InList(x)'),
           "find" \notin Rem(w)',
           "free" \in Rem(w)' => owned[worker'[w].user] = s,
           "listen" \in Rem(w)' => /\ "release" \in Rem(w)' /\ ~Doomed(worker[w].user)'
                                   /\ worker'[w].handler = "hello" \/ Head(worker'[w].todo) = "release"
    PROVE  ReadsInv' /\ PresentInv'
<1> USE DEF ConnectionInv
<1>1. /\ w \in Workers /\ Sock(w) = s
      /\ \A v \in Workers \ {w} : Rem(v)' = Rem(v) /\ Sock(v)' = Sock(v)
  BY DEF WorkTurn, Rem, Sock
<1>2. Pending' = Pending /\ \A e \in Pending : e.sock # s
  BY MyTurn DEF Pending
<1>3. \A v \in Workers \ {w} : Rem(v) \cap TurnCalls # {} => Sock(v) # s
  BY MyTurn DEF WorkTurn
<1>4. ASSUME NEW x, Doomed(x)', owned[x] # s  PROVE Doomed(x)
  <2>1. PICK v \in Workers : "free" \in Rem(v)' /\ worker'[v].user = x
    BY <1>4 DEF Doomed
  <2>2. v # w
    BY <1>4, <2>1
  <2> QED BY <1>1, <2>1, <2>2 DEF Doomed
<1>5. ASSUME NEW d \in Sockets, d # s, Present(d)  PROVE Present(d)'
  <2>1. PICK x \in Users : owned[x] = d /\ (InList(x) \/ \E v \in Workers : Greets(v, x))
    BY <1>5 DEF Present
  <2>2. owned'[x] = d /\ (InList(x) => InList(x)')
    BY <1>5, <2>1
  <2>3. ASSUME NEW v \in Workers, Greets(v, x)  PROVE Greets(v, x)'
    <3>1. Rem(v) \cap HoldCalls # {} /\ worker[v].user = x
      BY <2>3, WillCallRem DEF Greets, Holds
    <3>2. v # w
      BY <3>1, <1>1, <1>5, <2>1 DEF HandlersInv
    <3> QED BY <3>2, <2>3 DEF Greets, Holds, WillCall
  <2> QED BY <2>1, <2>2, <2>3 DEF Present
<1>6. ASSUME NEW e \in Pending, e.kind = "read"
      PROVE  e.user \in Users /\ owned'[e.user] = e.sock /\ ~Doomed(e.user)'
  <2>1. e.user \in Users /\ owned[e.user] = e.sock /\ ~Doomed(e.user)
    BY <1>6 DEF ReadsInv
  <2> QED BY <1>2, <1>4, <2>1
<1>7. ASSUME NEW v \in Workers \ {w}, "listen" \in Rem(v)'
      PROVE  \E y \in Users :
               /\ y = worker[v].user /\ worker'[v].user = y /\ "listen" \in Rem(v)
               /\ owned[y] # s /\ ~Doomed(y)
  <2>1. "listen" \in Rem(v) /\ worker'[v].user = worker[v].user
    BY <1>1, <1>7
  <2>2. worker[v].user \in Users /\ owned[worker[v].user] = Sock(v) /\ ~Doomed(worker[v].user)
    BY <2>1 DEF HandlersInv, ReadsInv
  <2>3. Sock(v) # s
    BY <2>1, <1>3 DEF TurnCalls
  <2> QED BY <2>1, <2>2, <2>3
<1>8. ReadsInv'
  <2>1. ASSUME NEW v \in Workers, "listen" \in Rem(v)'  PROVE ~Doomed(worker[v].user)'
    <3>1. CASE v = w
      BY <2>1, <3>1
    <3>2. CASE v # w
      <4>1. PICK y \in Users : worker'[v].user = y /\ owned[y] # s /\ ~Doomed(y)
        BY <2>1, <3>2, <1>7
      <4>2. ~Doomed(y)'
        BY <4>1, <1>4
      <4> QED BY <4>1, <4>2 DEF Doomed
    <3> QED BY <3>1, <3>2
  <2> QED BY <2>1, <1>2, <1>6 DEF ReadsInv
<1>9. ASSUME NEW d \in Sockets, ReadDue(d)'  PROVE Present(d)'
  <2>1. ReadDue(d) /\ d # s
    <3>1. ASSUME NEW v \in Workers, worker'[v].handler = "read", "find" \in Rem(v)', Sock(v)' = d
          PROVE  ReadDue(d) /\ d # s
      <4>1. v # w
        BY <3>1
      <4>2. worker[v].handler = "read" /\ "find" \in Rem(v) /\ Sock(v) = d
        BY <4>1, <3>1, <1>1
      <4> QED BY <4>1, <4>2, <1>3 DEF ReadDue, TurnCalls
    <3>2. ASSUME NEW e \in Pending, e.kind = "read", e.sock = d
          PROVE  ReadDue(d) /\ d # s
      BY <3>2, <1>2 DEF ReadDue
    <3> QED BY <3>1, <3>2, <1>2, <1>9 DEF ReadDue
  <2> QED BY <2>1, <1>5 DEF PresentInv
<1>10. ASSUME NEW v \in Workers, "listen" \in Rem(v)'
       PROVE  "release" \in Rem(v)' \/ InList(worker[v].user)'
  <2>1. CASE v = w
    BY <2>1, <1>10
  <2>2. CASE v # w
    <3>1. PICK y \in Users : y = worker[v].user /\ worker'[v].user = y /\ "listen" \in Rem(v) /\ owned[y] # s
      BY <2>2, <1>7, <1>10
    <3>2. "release" \in Rem(v)' \/ InList(y)'
      BY <3>1, <2>2, <1>1 DEF PresentInv
    <3> QED BY <3>1, <3>2 DEF InList
  <2> QED BY <2>1, <2>2
<1>11. ASSUME NEW v \in Workers, "listen" \in Rem(v)', "release" \in Rem(v)'
       PROVE  worker'[v].handler = "hello" \/ Head(worker'[v].todo) = "release"
  <2>1. CASE v = w
    BY <2>1, <1>11
  <2>2. CASE v # w
    BY <2>2, <1>1, <1>11 DEF PresentInv
  <2> QED BY <2>1, <2>2
<1> QED BY <1>8, <1>9, <1>10, <1>11 DEF PresentInv

(* handler_read has taken the input in.                                     *)
LEMMA ParseConnection ==
    ASSUME IInv, ConnectionInv, NEW w \in Workers, Parse(w)
    PROVE  ConnectionInv'
<1> USE DEF ConnectionInv
<1>1. PICK rest \in {<<"release", "reply", "update">>, <<"release", "listen", "update">>} :
        Then(w, rest)
  BY DEF Parse
<1>2. /\ Doing(w, "parse") /\ UNCHANGED <<owned, users, timers, registered, held, occurred, open>>
  BY DEF Parse
<1>3. /\ rest \in Seq(Calls) /\ Head(rest) = "release"
      /\ \A i, j \in DOMAIN rest : rest[i] = rest[j] => i = j
      /\ ToSet(rest) \in {{"release", "reply", "update"}, {"release", "listen", "update"}}
  <2>1. CASE rest = <<"release", "reply", "update">>
    <3>1. ToSet(rest) = {"release", "reply", "update"}
      BY <2>1, CallsOfRest
    <3>2. /\ rest \in Seq(Calls) /\ Head(rest) = "release"
          /\ \A i, j \in DOMAIN rest : rest[i] = rest[j] => i = j
      BY <2>1 DEF Calls
    <3> QED BY <3>1, <3>2
  <2>2. CASE rest = <<"release", "listen", "update">>
    <3>1. ToSet(rest) = {"release", "listen", "update"}
      BY <2>2, CallsOfRest
    <3>2. /\ rest \in Seq(Calls) /\ Head(rest) = "release"
          /\ \A i, j \in DOMAIN rest : rest[i] = rest[j] => i = j
      BY <2>2 DEF Calls
    <3> QED BY <3>1, <3>2
  <2> QED BY <2>1, <2>2
<1>4. /\ Leaves(w, ToSet(rest)) /\ Rem(w)' = ToSet(rest)
      /\ worker'[w].user = worker[w].user /\ worker'[w].todo = rest
      /\ worker'[w].sock = worker[w].sock /\ worker'[w].handler = worker[w].handler
      /\ \A v \in Workers \ {w} : worker'[v] = worker[v]
  BY <1>1, <1>3, GoesOn DEF Leaves
<1>5. "parse" \in Rem(w)
  BY <1>2, TailShifts DEF Doing, Rem, ToSet, IInv, TypeOK, WorkerState
<1>6. /\ worker[w].handler = "read"
      /\ worker[w].user \in Users /\ owned[worker[w].user] = Sock(w)
      /\ Holds(w, worker[w].user)
  BY <1>5, WillCallRem DEF HandlersInv, HoldCalls, Holds
<1>7. /\ Rem(w)' \cap TurnCalls \in {{"reply"}, {"listen"}} /\ Rem(w)' \cap SeatCalls = {"release"}
      /\ Rem(w)' \cap TimeoutCalls = {} /\ "find" \notin Rem(w)' /\ "parse" \notin Rem(w)'
      /\ "free" \notin Rem(w)' /\ "release" \in Rem(w)' /\ "disconnect" \notin Rem(w)'
      /\ Rem(w)' \cap {"is_exist", "is_elapsed"} = {}
      /\ Rem(w) \cap TurnCalls # {} /\ Rem(w) \cap SeatCalls # {}
  BY <1>3, <1>4, <1>5 DEF TurnCalls, SeatCalls, TimeoutCalls
<1>8. HandlersInv'
  BY <1>2, <1>4, <1>6, <1>7, HandlerChanges DEF Leaves, Sock
<1>9. \A s \in Sockets : WorkTurn(s)' = WorkTurn(s) /\ WorkSeat(s)' = WorkSeat(s)
  BY <1>4, <1>7, TurnChanges
<1>10. EventsInv' /\ TurnInv' /\ SeatInv'
  BY <1>2, <1>9 DEF EventsInv, Pending, TurnInv, RegTurn, IOTurn, QueueTurn,
                    SeatInv, ListSeat, NewSeat
<1>11. ReadsInv' /\ PresentInv'
  <2>1. ~Doomed(worker[w].user)'
    <3>1. ASSUME NEW v \in Workers, "free" \in Rem(v)', worker'[v].user = worker'[w].user
          PROVE  FALSE
      <4>1. v # w /\ "free" \in Rem(v) /\ worker[v].user = worker[w].user
        BY <1>4, <1>7, <3>1 DEF Rem
      <4>2. Holds(v, worker[w].user)
        BY <4>1, WillCallRem DEF Holds, HoldCalls
      <4> QED BY <4>1, <4>2, <1>6 DEF IInv, UserExclusive
    <3> QED BY <3>1 DEF Doomed
  <2>2. Sock(w) \in Sockets /\ w \in WorkTurn(Sock(w))
    BY <1>5, <1>7 DEF HandlersInv, WorkTurn
  <2>3. \A x \in Users : InList(x) => InList(x)'
    BY <1>2 DEF InList
  <2> QED BY <1>2, <1>3, <1>4, <1>7, <2>1, <2>2, <2>3, UsersMove
<1> QED BY <1>8, <1>10, <1>11

(* The user of a session that is over is freed: nobody is to read into it.  *)
LEMMA FreeConnection ==
    ASSUME IInv, ConnectionInv, NEW w \in Workers, FreeUser(w)
    PROVE  ConnectionInv'
<1> USE DEF ConnectionInv
<1>1. /\ Doing(w, "free") /\ Continue(w) /\ owned' = [owned EXCEPT ![worker[w].user] = NULL]
      /\ UNCHANGED <<users, timers, registered, held, occurred, open>>
  BY DEF FreeUser, Freed
<1>2. /\ "free" \in Rem(w) /\ Rem(w)' = Rem(w) \ {"free"}
      /\ \A v \in Workers \ {w} : worker'[v] = worker[v]
      /\ \A v \in Workers : Rem(v)' # {} => worker'[v].user = worker[v].user
      /\ \A x : Doomed(x)' => Doomed(x)
  BY <1>1, ContinueConnection
<1>3. PICK u \in Users : u = worker[w].user /\ Holds(w, u) /\ Doomed(u) /\ worker[w].handler = "write"
  BY <1>2, WillCallRem DEF HandlersInv, HoldCalls, Holds, Doomed
<1>4. /\ owned' = [owned EXCEPT ![u] = NULL] /\ owned \in [Users -> Descriptors \cup {NULL}]
      /\ \A x \in Users : x # u => owned'[x] = owned[x]
  BY <1>1, <1>3 DEF IInv, TypeOK
<1>5. Rem(w)' \cap HoldCalls = {}
  BY <1>1, WillCallRem, HolderHolds, ContinueQuiet, <1>3, <1>2 DEF Holds, Doing, HoldCalls
<1>6. \A v \in Workers : Rem(v)' \cap (HoldCalls \cup {"listen"}) # {} => worker[v].user # u
  <2> SUFFICES ASSUME NEW v \in Workers, Rem(v)' \cap (HoldCalls \cup {"listen"}) # {},
                      worker[v].user = u
               PROVE  FALSE
    OBVIOUS
  <2>1. "listen" \notin Rem(v)
    BY <1>3 DEF ReadsInv
  <2>2. v # w
    BY <1>2, <1>5, <2>1
  <2>3. Holds(v, u)
    BY <1>2, <2>1, <2>2, WillCallRem DEF Rem, Holds
  <2> QED BY <1>3, <2>2, <2>3 DEF IInv, UserExclusive
<1>7. \A v \in Workers : Rem(v)' \cap (HoldCalls \cup {"listen"}) # {} =>
        owned'[worker[v].user] = owned[worker[v].user]
  <2> SUFFICES ASSUME NEW v \in Workers, Rem(v)' \cap (HoldCalls \cup {"listen"}) # {}
               PROVE  owned'[worker[v].user] = owned[worker[v].user]
    OBVIOUS
  <2>1. Rem(v) \cap (HoldCalls \cup {"listen"}) # {}
    BY <1>2 DEF Rem
  <2>2. worker[v].user \in Users
    BY <2>1 DEF HandlersInv
  <2> QED BY <2>2, <1>4, <1>6
<1>8. HandlersInv'
  BY <1>1, <1>7, ContinueConnection
<1>9. Pending' = Pending /\ EventsInv'
  BY <1>1 DEF EventsInv, Pending
<1>10. \A s \in Sockets : WorkTurn(s)' = WorkTurn(s) /\ WorkSeat(s)' = WorkSeat(s)
  BY <1>1, ContinueConnection DEF TurnCalls, SeatCalls
<1>11. ~InList(u)
  BY <1>3 DEF IInv, UserExclusive, InList
<1>12. \A s \in Sockets : ListSeat(s)' = ListSeat(s)
  BY <1>1, <1>4, <1>11 DEF ListSeat, InList, IInv, TypeOK
<1>13. TurnInv' /\ SeatInv'
  BY <1>1, <1>10, <1>12 DEF TurnInv, RegTurn, IOTurn, QueueTurn, SeatInv, NewSeat
<1>14. ReadsInv'
  <2>1. ASSUME NEW e \in Pending, e.kind = "read"
        PROVE  e.user \in Users /\ owned'[e.user] = e.sock /\ ~Doomed(e.user)'
    <3>1. e.user \in Users /\ owned[e.user] = e.sock /\ ~Doomed(e.user)
      BY <2>1 DEF ReadsInv
    <3> QED BY <3>1, <1>2, <1>3, <1>4
  <2>2. ASSUME NEW v \in Workers, "listen" \in Rem(v)'
        PROVE  ~Doomed(worker[v].user)'
    <3>1. "listen" \in Rem(v) /\ worker'[v].user = worker[v].user
      BY <1>2, <2>2 DEF Rem
    <3>2. PICK x : x = worker[v].user /\ ~Doomed(x)
      BY <3>1 DEF ReadsInv
    <3>3. ~Doomed(x)'
      BY <3>2, <1>2
    <3> QED BY <3>1, <3>2, <3>3 DEF Doomed
  <2> QED BY <2>1, <2>2, <1>9 DEF ReadsInv
<1>15. PresentInv'
  <2>1. ASSUME NEW s \in Sockets, Present(s)  PROVE Present(s)'
    <3>1. PICK x \in Users : owned[x] = s /\ (InList(x) \/ \E v \in Workers : Greets(v, x))
      BY <2>1 DEF Present
    <3>2. ASSUME NEW v \in Workers, Greets(v, x)  PROVE x # u /\ Greets(v, x)'
      <4>1. v # w
        BY <3>2, <1>3 DEF Greets
      <4> QED BY <4>1, <3>2, <1>2, <1>3 DEF Greets, Holds, WillCall, IInv, UserExclusive
    <3>3. x # u
      BY <3>1, <3>2, <1>11
    <3>4. InList(x) => InList(x)'
      BY <1>1 DEF InList
    <3> QED BY <3>1, <3>2, <3>3, <3>4, <1>4 DEF Present
  <2>2. ASSUME NEW v \in Workers
        PROVE  /\ Rem(v)' \subseteq Rem(v) /\ ("release" \in Rem(v) => "release" \in Rem(v)')
               /\ Rem(v)' # {} => worker'[v].handler = worker[v].handler /\ Sock(v)' = Sock(v)
                                  /\ worker'[v].user = worker[v].user
    BY <1>1, <1>2, ContinueConnection DEF Rem, Sock
  <2>3. \A s \in Sockets : ReadDue(s)' => ReadDue(s)
    BY <1>9, <2>2 DEF ReadDue
  <2>4. \A v \in Workers : "listen" \in Rem(v)' => "release" \in Rem(v)' \/ InList(worker[v].user)'
    BY <1>1, <2>2 DEF PresentInv, InList
  <2>5. \A v \in Workers : "listen" \in Rem(v)' /\ "release" \in Rem(v)' =>
          worker'[v].handler = "hello" \/ Head(worker'[v].todo) = "release"
    BY <1>1, ContinueConnection
  <2> QED BY <2>1, <2>3, <2>4, <2>5 DEF PresentInv
<1> QED BY <1>8, <1>9, <1>13, <1>14, <1>15

(* The user handler_accept made takes the connection's seat in the list.    *)
LEMMA AddConnection ==
    ASSUME IInv, ConnectionInv, NEW w \in Workers, AddUser(w)
    PROVE  ConnectionInv'
<1> USE DEF ConnectionInv
<1> DEFINE t == worker[w].todo
           r == [worker[w] EXCEPT !.user = NULL, !.todo = Tail(t)]
           n == Len(users)
<1>1. /\ t # <<>> /\ Head(t) = "add" /\ worker[w] \in WorkerState /\ t \in Seq(Calls)
      /\ owned' = [owned EXCEPT ![worker[w].user] = Sock(w)]
      /\ users' = Append(users, worker[w].user)
      /\ worker' = [worker EXCEPT ![w] = r]
      /\ UNCHANGED <<timers, registered, held, occurred, open>>
  BY DEF AddUser, Doing, IInv, TypeOK, WorkerState
<1>2. /\ r.todo = Tail(t) /\ r.sock = worker[w].sock /\ r.handler = worker[w].handler
  BY <1>1 DEF WorkerState
<1>3. /\ "add" \in Rem(w) /\ ToSet(Tail(t)) = Rem(w) \ {"add"}
      /\ \A i, j \in DOMAIN Tail(t) : Tail(t)[i] = Tail(t)[j] => i = j
  <2>1. \A i, j \in DOMAIN t : t[i] = t[j] => i = j
    BY DEF HandlersInv
  <2> HIDE DEF t
  <2>2. Head(t) \in ToSet(t) /\ ToSet(Tail(t)) = ToSet(t) \ {Head(t)}
        /\ \A i, j \in DOMAIN Tail(t) : Tail(t)[i] = Tail(t)[j] => i = j
    BY <1>1, <2>1, RestOfCalls
  <2> QED BY <1>1, <2>2 DEF Rem, t
<1> HIDE DEF r
<1>4. /\ worker'[w] = r /\ \A v \in Workers \ {w} : worker'[v] = worker[v]
      /\ Rem(w)' = Rem(w) \ {"add"} /\ worker'[w].sock = Sock(w)
  BY <1>1, <1>2, <1>3 DEF IInv, TypeOK, Rem, Sock
<1>5. PICK u \in Users : u = worker[w].user /\ Adds(w, u) /\ owned[u] = NULL
  <2>1. WillCall(w, {"add"}) /\ WillCall(w, UserCalls)
    BY <1>3, WillCallRem DEF UserCalls
  <2>2. worker[w].user \in Users
    BY <1>1, <2>1 DEF IInv, TodoInv, WorkerState
  <2> QED BY <2>1, <2>2 DEF Adds, IInv, ReservedInv
<1>6. /\ owned' = [owned EXCEPT ![u] = Sock(w)] /\ users' = Append(users, u)
      /\ Sock(w) \in Descriptors /\ Sock(w) # NULL /\ users \in Seq(Users)
      /\ owned \in [Users -> Descriptors \cup {NULL}]
  BY <1>1, <1>5, SockTyped DEF IInv, TypeOK, TodoInv, Sock
<1>7. owned'[u] = Sock(w) /\ \A x \in Users : x # u => owned'[x] = owned[x]
  BY <1>6
<1>8. \A x \in Users : owned[x] # NULL => x # u /\ owned'[x] = owned[x]
  BY <1>5, <1>7
<1>9. Rem(w) \cap HoldCalls = {} /\ "listen" \notin Rem(w)
  <2>1. \A c, d \in Rem(w) \cap UserCalls : c = d
    BY DEF Rem, ToSet, IInv, TodoInv
  <2>2. Rem(w) \cap HoldCalls = {}
    BY <1>3, <2>1 DEF UserCalls, HoldCalls
  <2> QED BY <2>2, <1>5, <1>6 DEF HandlersInv
<1>10. \A v \in Workers : Rem(v) # {} => Sock(v) # NULL /\ Sock(v) \in Descriptors
  BY SockTyped, CallsOfRest DEF Rem, IInv, TodoInv, Sock
<1>11. \A v \in Workers : Rem(v) \cap (HoldCalls \cup {"listen"}) # {} =>
         worker[v].user \in Users /\ owned[worker[v].user] = Sock(v)
         /\ owned'[worker[v].user] = Sock(v)
  BY <1>8, <1>10 DEF HandlersInv
<1>12. HandlersInv'
  <2>1. Rem(w)' \cap (HoldCalls \cup {"listen"}) = {} /\ Rem(w)' \subseteq Rem(w)
    BY <1>4, <1>9
  <2>2. \A i, j \in DOMAIN worker'[w].todo : worker'[w].todo[i] = worker'[w].todo[j] => i = j
    BY <1>2, <1>3, <1>4
  <2>3. /\ \A a, b \in Rem(w)' \cap TurnCalls : a = b
        /\ \A a, b \in Rem(w)' \cap SeatCalls : a = b
        /\ Rem(w)' \cap TimeoutCalls = {}
        /\ Rem(w)' \cap {"is_exist", "is_elapsed"} # {} => Rem(w)' \cap Matters = {}
    BY <2>1 DEF HandlersInv
  <2>4. /\ "find" \in Rem(w)' => worker'[w].handler \in {"hello", "write", "read"}
        /\ Rem(w)' \cap {"find", "disconnect", "parse"} # {} => worker'[w].sock \in Sockets
        /\ "parse" \in Rem(w)' => worker'[w].handler = "read"
        /\ "free" \in Rem(w)' => worker'[w].handler = "write"
    BY <2>1, <1>2, <1>4 DEF HandlersInv
  <2>5. \A v \in Workers \ {w} : Rem(v) \cap (HoldCalls \cup {"listen"}) # {} =>
               owned'[worker[v].user] = owned[worker[v].user]
    BY <1>11
  <2> QED BY <1>4, <2>1, <2>2, <2>3, <2>4, <2>5, HandlerChanges
<1>13. Pending' = Pending /\ EventsInv'
  BY <1>1 DEF EventsInv, Pending
<1>14. \A s \in Sockets :
         /\ WorkTurn(s)' = WorkTurn(s) /\ WorkSeat(s)' = WorkSeat(s) \ {w}
         /\ Sock(w) = s => w \in WorkSeat(s)
  <2>1. /\ Rem(w)' \cap SeatCalls = {} /\ Rem(w) \cap SeatCalls # {}
        /\ Rem(w)' \cap TurnCalls = Rem(w) \cap TurnCalls
    BY <1>3, <1>4 DEF HandlersInv, SeatCalls, TurnCalls
  <2>2. \A s \in Sockets : WorkSeat(s)' = WorkSeat(s) \ {w} /\ (Sock(w) = s => w \in WorkSeat(s))
    BY <1>4, <2>1, TurnChanges DEF Sock
  <2>3. \A s \in Sockets : WorkTurn(s)' = WorkTurn(s)
    BY <1>4, <2>1 DEF WorkTurn, Sock, Rem
  <2> QED BY <2>2, <2>3
<1>15. /\ DOMAIN users' = DOMAIN users \cup {n + 1}
       /\ \A i \in DOMAIN users : users'[i] = users[i] /\ i # n + 1 /\ users[i] \in Users
       /\ users'[n + 1] = u
  <2>1. /\ DOMAIN users' = 1 .. (n + 1) /\ DOMAIN users = 1 .. n /\ n \in Nat
        /\ \A i \in DOMAIN users : users'[i] = users[i] /\ users[i] \in Users
        /\ users'[n + 1] = u
    BY <1>6, AppendAdds
  <2> HIDE DEF n
  <2> QED BY <2>1
<1> HIDE DEF n
<1>16. \A s \in Sockets :
         /\ ListSeat(s)' \subseteq ListSeat(s) \cup {i \in {n + 1} : Sock(w) = s}
         /\ NewSeat(s)' = NewSeat(s)
  BY <1>1, <1>7, <1>8, <1>15 DEF ListSeat, NewSeat, IInv, UserExclusive
<1>17. TurnInv'
  BY <1>1, <1>14 DEF TurnInv, RegTurn, IOTurn, QueueTurn
<1>18. SeatInv'
  BY <1>1, <1>14, <1>16 DEF SeatInv, Lone, Apart
<1>19. \A v \in Workers : Rem(v)' \cap (HoldCalls \cup {"listen"}) # {} =>
         v # w /\ Rem(v)' = Rem(v) /\ worker'[v] = worker[v]
  BY <1>4, <1>9 DEF Rem
<1>20. \A x : Doomed(x)' => Doomed(x)
  BY <1>19 DEF Doomed, HoldCalls
<1>21. ReadsInv'
  <2>1. ASSUME NEW e \in Pending, e.kind = "read"
        PROVE  e.user \in Users /\ owned'[e.user] = e.sock /\ ~Doomed(e.user)'
    <3>1. e.user \in Users /\ owned[e.user] = e.sock /\ ~Doomed(e.user)
      BY <2>1 DEF ReadsInv
    <3>2. e.sock # NULL
      BY <2>1, ServerAssumption DEF EventsInv
    <3> QED BY <3>1, <3>2, <1>8, <1>20
  <2>2. ASSUME NEW v \in Workers, "listen" \in Rem(v)'
        PROVE  ~Doomed(worker[v].user)'
    <3>1. "listen" \in Rem(v) /\ worker'[v] = worker[v]
      BY <1>19, <2>2
    <3>2. PICK x : x = worker[v].user /\ ~Doomed(x)
      BY <3>1 DEF ReadsInv
    <3>3. ~Doomed(x)'
      BY <3>2, <1>20
    <3> QED BY <3>1, <3>2, <3>3 DEF Doomed
  <2> QED BY <2>1, <2>2, <1>13 DEF ReadsInv
<1>22. PresentInv'
  <2>1. ASSUME NEW s \in Sockets, Present(s)  PROVE Present(s)'
    <3>1. PICK x \in Users : owned[x] = s /\ (InList(x) \/ \E v \in Workers : Greets(v, x))
      BY <2>1 DEF Present
    <3>2. owned'[x] = s
      BY <3>1, <1>8, ServerAssumption
    <3>3. ASSUME NEW v \in Workers, Greets(v, x)  PROVE Greets(v, x)'
      <4>1. v # w
        BY <3>3, <1>9, WillCallRem DEF Greets, Holds
      <4> QED BY <4>1, <3>3, <1>4 DEF Greets, Holds, WillCall
    <3>4. InList(x) => InList(x)'
      BY <1>15 DEF InList
    <3> QED BY <3>1, <3>2, <3>3, <3>4 DEF Present
  <2>2. \A s \in Sockets : ReadDue(s)' => ReadDue(s)
    <3>1. \A v \in Workers :
            "find" \in Rem(v)' => "find" \in Rem(v) /\ Sock(v)' = Sock(v)
                                  /\ worker'[v].handler = worker[v].handler
      BY <1>2, <1>4 DEF Rem, Sock
    <3> QED BY <3>1, <1>13 DEF ReadDue
  <2>3. \A v \in Workers : "listen" \in Rem(v)' => "release" \in Rem(v)' \/ InList(worker[v].user)'
    BY <1>15, <1>19 DEF PresentInv, InList
  <2>4. \A v \in Workers : "listen" \in Rem(v)' /\ "release" \in Rem(v)' =>
          worker'[v].handler = "hello" \/ Head(worker'[v].todo) = "release"
    BY <1>19 DEF PresentInv
  <2> QED BY <2>1, <2>2, <2>3, <2>4 DEF PresentInv
<1> QED BY <1>12, <1>13, <1>17, <1>18, <1>21, <1>22

(* What a handler does with the user it found.                              *)
LEMMA WithUserCalls ==
    ASSUME NEW handler \in {"hello", "write", "read"}, NEW u
    PROVE  LET rest == WithUser(handler, u)
           IN  /\ rest \in Seq(Calls)
               /\ \A i, j \in DOMAIN rest : rest[i] = rest[j] => i = j
               /\ ToSet(rest) \in {{"parse"}, {"release", "listen", "update"},
                                   {"close_quit", "free", "remove_timer", "update"}}
               /\ "parse" \in ToSet(rest) => handler = "read"
               /\ "free" \in ToSet(rest) => handler = "write"
               /\ "listen" \in ToSet(rest) => handler = "hello" \/ Head(rest) = "release"
<1> DEFINE rest == WithUser(handler, u)
<1>1. CASE handler = "read"
  <2>1. rest = <<"parse">>
    BY <1>1 DEF WithUser
  <2> HIDE DEF rest
  <2>2. ToSet(rest) = {"parse"}
    BY <2>1, CallsOfRest
  <2>3. rest \in Seq(Calls) /\ \A i, j \in DOMAIN rest : rest[i] = rest[j] => i = j
    BY <2>1 DEF Calls
  <2> QED BY <1>1, <2>2, <2>3 DEF rest
<1>2. CASE handler = "write" /\ u \notin done
  <2>1. rest = <<"release", "listen", "update">>
    BY <1>2 DEF WithUser
  <2> HIDE DEF rest
  <2>2. ToSet(rest) = {"release", "listen", "update"}
    BY <2>1, CallsOfRest
  <2>3. /\ rest \in Seq(Calls) /\ Head(rest) = "release"
        /\ \A i, j \in DOMAIN rest : rest[i] = rest[j] => i = j
    BY <2>1 DEF Calls
  <2> QED BY <2>2, <2>3 DEF rest
<1>3. CASE handler = "write" /\ u \in done
  <2>1. rest = <<"close_quit", "free", "remove_timer", "update">>
    BY <1>3 DEF WithUser
  <2> HIDE DEF rest
  <2>2. ToSet(rest) = {"close_quit", "free", "remove_timer", "update"}
    BY <2>1, CallsOfRest
  <2>3. rest \in Seq(Calls) /\ \A i, j \in DOMAIN rest : rest[i] = rest[j] => i = j
    BY <2>1 DEF Calls
  <2> QED BY <1>3, <2>2, <2>3 DEF rest
<1>4. CASE handler = "hello"
  <2>1. rest = <<"listen", "release", "update">>
    BY <1>4 DEF WithUser
  <2> HIDE DEF rest
  <2>2. ToSet(rest) = {"release", "listen", "update"}
    BY <2>1, CallsOfRest
  <2>3. rest \in Seq(Calls) /\ \A i, j \in DOMAIN rest : rest[i] = rest[j] => i = j
    BY <2>1 DEF Calls
  <2> QED BY <1>4, <2>2, <2>3 DEF rest
<1> QED BY <1>1, <1>2, <1>3, <1>4

(* A worker whose turn it is, and that has no user, loses the turn.         *)
LEMMA TurnIsOver ==
    ASSUME IInv, ConnectionInv, NEW w \in Workers, NEW s \in Sockets, w \in WorkTurn(s),
           NEW rest \in {<<>>, <<"update">>, <<"remove_timer">>}, Then(w, rest),
           UNCHANGED <<timers, registered, held, occurred, open>>,
           \A x \in Users : owned[x] # s => owned'[x] = owned[x] /\ (InList(x) => InList(x)'),
           \A v \in Workers \ {w} : Rem(v) \cap (HoldCalls \cup {"listen"}) # {} =>
               owned'[worker[v].user] = owned[worker[v].user],
           \A d \in Sockets : Lone(ListSeat(d)') /\ (ListSeat(d) = {} => ListSeat(d)' = {})
    PROVE  ConnectionInv'
<1> USE DEF ConnectionInv
<1>1. /\ rest \in Seq(Calls) /\ \A i, j \in DOMAIN rest : rest[i] = rest[j] => i = j
      /\ ToSet(rest) \subseteq {"update", "remove_timer"}
  <2>1. CASE rest = <<>>
    BY <2>1, CallsOfRest
  <2>2. CASE rest = <<"update">>
    BY <2>2, CallsOfRest DEF Calls
  <2>3. CASE rest = <<"remove_timer">>
    BY <2>3, CallsOfRest DEF Calls
  <2> QED BY <2>1, <2>2, <2>3
<1>2. /\ Rem(w)' \subseteq {"update", "remove_timer"}
      /\ \A i, j \in DOMAIN worker'[w].todo : worker'[w].todo[i] = worker'[w].todo[j] => i = j
      /\ Rem(w)' # {} => worker'[w].sock = worker[w].sock
      /\ \A v \in Workers \ {w} : worker'[v] = worker[v]
  BY <1>1, GoesOn DEF Leaves
<1>3. /\ Rem(w)' \cap TurnCalls = {} /\ Rem(w)' \cap SeatCalls = {}
      /\ Rem(w)' \cap TimeoutCalls = {} /\ Rem(w)' \cap (HoldCalls \cup {"listen"}) = {}
      /\ Rem(w)' \cap {"is_exist", "is_elapsed"} = {}
      /\ Rem(w)' \cap {"find", "disconnect", "parse"} = {}
      /\ "find" \notin Rem(w)' /\ "parse" \notin Rem(w)' /\ "free" \notin Rem(w)'
      /\ "listen" \notin Rem(w)'
  BY <1>2 DEF TurnCalls, SeatCalls, TimeoutCalls, HoldCalls
<1>4. HandlersInv'
  BY <1>2, <1>3, HandlerChanges
<1>5. EventsInv'
  BY DEF EventsInv, Pending
<1>6. \A d \in Sockets :
        WorkTurn(d)' = WorkTurn(d) \ {w} /\ WorkSeat(d)' = WorkSeat(d) \ {w}
  BY <1>2, <1>3, TurnChanges
<1>7. TurnInv'
  BY <1>6 DEF TurnInv, RegTurn, IOTurn, QueueTurn, Lone, Apart
<1>8. SeatInv'
  <2>1. \A d \in Sockets : NewSeat(d)' = NewSeat(d)
    BY DEF NewSeat
  <2> QED BY <1>6, <2>1 DEF SeatInv, Lone, Apart
<1>9. ReadsInv' /\ PresentInv'
  BY <1>2, <1>3, UsersMove
<1> QED BY <1>4, <1>5, <1>7, <1>8, <1>9

(* A handler takes its user out of the list, or there is none.              *)
LEMMA FindConnection ==
    ASSUME IInv, ConnectionInv, NEW w \in Workers, users_list__user_find_by_sock(w)
    PROVE  ConnectionInv'
<1> USE DEF ConnectionInv
<1>1. /\ Doing(w, "find")
      /\ UNCHANGED <<owned, timers, registered, held, occurred, open>>
  BY DEF users_list__user_find_by_sock
<1>2. "find" \in Rem(w)
  BY <1>1, TailShifts DEF Doing, Rem, ToSet, IInv, TypeOK, WorkerState
<1> DEFINE s == Sock(w)
<1>3. /\ s \in Sockets /\ worker[w].handler \in {"hello", "write", "read"}
      /\ w \in WorkTurn(s) /\ worker[w] \in WorkerState /\ worker[w].sock = s
  BY <1>2 DEF HandlersInv, WorkTurn, TurnCalls, IInv, TypeOK, Sock
<1> HIDE DEF s
<1>4. CASE NoUser(Sock(w)) /\ Then(w, WithoutUser(worker[w].handler)) /\ UNCHANGED users
  <2>1. WithoutUser(worker[w].handler) \in {<<>>, <<"update">>}
    BY DEF WithoutUser
  <2>2. \A x \in Users : InList(x) => InList(x)'
    BY <1>4 DEF InList
  <2>3. \A d \in Sockets : ListSeat(d)' = ListSeat(d) /\ Lone(ListSeat(d))
    BY <1>1, <1>4 DEF ListSeat, SeatInv
  <2> QED BY <1>1, <1>3, <1>4, <2>1, <2>2, <2>3, TurnIsOver
<1>5. ASSUME NEW i \in DOMAIN users, IsUserOf(i, Sock(w)),
             worker' = [worker EXCEPT ![w] =
                    [@ EXCEPT !.user = users[i],
                              !.todo = WithUser(worker[w].handler, users[i])]],
             users' = RemoveAt(users, i)
      PROVE  ConnectionInv'
  <2> DEFINE u == users[i]
             rest == WithUser(worker[w].handler, u)
             r == [worker[w] EXCEPT !.user = u, !.todo = rest]
  <2>1. worker' = [worker EXCEPT ![w] = r] /\ owned[u] = s /\ u \in Users
    BY <1>5, ListAfter DEF IsUserOf, s
  <2>2. r.user = u /\ r.todo = rest /\ r.sock = s /\ r.handler = worker[w].handler
    BY <1>3 DEF WorkerState
  <2> HIDE DEF r
  <2>3. /\ rest \in Seq(Calls)
        /\ \A a, b \in DOMAIN rest : rest[a] = rest[b] => a = b
        /\ ToSet(rest) \in {{"parse"}, {"release", "listen", "update"},
                            {"close_quit", "free", "remove_timer", "update"}}
        /\ "parse" \in ToSet(rest) => worker[w].handler = "read"
        /\ "free" \in ToSet(rest) => worker[w].handler = "write"
        /\ "listen" \in ToSet(rest) => worker[w].handler = "hello" \/ Head(rest) = "release"
    BY <1>3, WithUserCalls
  <2> HIDE DEF rest
  <2>4. /\ worker'[w] = r /\ \A v \in Workers \ {w} : worker'[v] = worker[v]
        /\ Rem(w)' = ToSet(rest)
    BY <2>1, <2>2 DEF IInv, TypeOK, Rem
  <2>5. /\ \A c, d \in Rem(w)' \cap TurnCalls : c = d
        /\ \A c, d \in Rem(w)' \cap SeatCalls : c = d
        /\ Rem(w)' \cap TurnCalls # {} /\ Rem(w)' \cap SeatCalls # {}
        /\ Rem(w)' \cap TimeoutCalls = {} /\ "find" \notin Rem(w)'
        /\ Rem(w)' \cap {"is_exist", "is_elapsed"} = {}
        /\ "listen" \in Rem(w)' => "release" \in Rem(w)' /\ "free" \notin Rem(w)'
    <3>1. CASE ToSet(rest) = {"parse"}
      BY <2>4, <3>1 DEF TurnCalls, SeatCalls, TimeoutCalls
    <3>2. CASE ToSet(rest) = {"release", "listen", "update"}
      BY <2>4, <3>2 DEF TurnCalls, SeatCalls, TimeoutCalls
    <3>3. CASE ToSet(rest) = {"close_quit", "free", "remove_timer", "update"}
      BY <2>4, <3>3 DEF TurnCalls, SeatCalls, TimeoutCalls
    <3> QED BY <2>3, <3>1, <3>2, <3>3
  <2>6. Rem(w) \cap TurnCalls # {} /\ Rem(w) # {}
    BY <1>2 DEF TurnCalls
  <2>7. HandlersInv'
    <3>1. Rem(w)' \cap (HoldCalls \cup {"listen"}) # {} =>
               worker'[w].user \in Users /\ owned'[worker'[w].user] = worker'[w].sock
      BY <1>1, <2>1, <2>2, <2>4
    <3>2. \A a, b \in DOMAIN worker'[w].todo : worker'[w].todo[a] = worker'[w].todo[b] => a = b
      BY <2>2, <2>3, <2>4
    <3>3. /\ "find" \in Rem(w)' => worker'[w].handler \in {"hello", "write", "read"}
          /\ Rem(w)' \cap {"find", "disconnect", "parse"} # {} => worker'[w].sock \in Sockets
          /\ "parse" \in Rem(w)' => worker'[w].handler = "read"
          /\ "free" \in Rem(w)' => worker'[w].handler = "write"
      BY <1>3, <2>2, <2>3, <2>4
    <3> QED BY <1>1, <2>4, <2>5, <3>1, <3>2, <3>3, HandlerChanges
  <2>8. EventsInv'
    BY <1>1 DEF EventsInv, Pending
  <2>9. \A d \in Sockets :
          /\ WorkTurn(d)' = WorkTurn(d)
          /\ WorkSeat(d)' \subseteq WorkSeat(d) \cup {v \in {w} : s = d}
    BY <1>3, <2>2, <2>4, <2>5, <2>6, TurnChanges
  <2>10. TurnInv'
    BY <1>1, <2>9 DEF TurnInv, RegTurn, IOTurn, QueueTurn
  <2>11. \A d \in Sockets :
           /\ Lone(ListSeat(d)') /\ (ListSeat(d) = {} => ListSeat(d)' = {})
           /\ s = d => ListSeat(d)' = {} /\ ListSeat(d) # {}
           /\ NewSeat(d)' = NewSeat(d)
    BY <1>1, <1>5, <2>1, SeatsAfter DEF NewSeat
  <2>12. SeatInv'
    BY <1>1, <2>9, <2>11 DEF SeatInv, Lone, Apart
  <2>13. ReadsInv' /\ PresentInv'
    <3>1. \A x \in Users : owned[x] # s => owned'[x] = owned[x] /\ (InList(x) => InList(x)')
      BY <1>1, <1>5, <2>1, ListAfter
    <3>2. ASSUME "listen" \in Rem(w)'  PROVE ~Doomed(worker[w].user)'
      <4>1. ASSUME NEW v \in Workers, "free" \in Rem(v)', worker'[v].user = u  PROVE FALSE
        <5>1. v # w /\ "free" \in Rem(v) /\ worker[v].user = u
          BY <2>4, <2>5, <3>2, <4>1 DEF Rem
        <5>2. Holds(v, u)
          BY <5>1, WillCallRem DEF Holds, HoldCalls
        <5> QED BY <1>5, <2>1, <5>2 DEF IInv, UserExclusive
      <4>2. worker'[w].user = u
        BY <2>2, <2>4
      <4> QED BY <4>1, <4>2 DEF Doomed
    <3>3. "free" \in Rem(w)' => owned[worker'[w].user] = s
      BY <2>1, <2>2, <2>4
    <3>4. "listen" \in Rem(w)' => worker'[w].handler = "hello" \/ Head(worker'[w].todo) = "release"
      BY <2>2, <2>3, <2>4
    <3> QED BY <1>1, <1>3, <2>4, <2>5, <3>1, <3>2, <3>3, <3>4, UsersMove
  <2> QED BY <2>7, <2>8, <2>10, <2>12, <2>13
<1> QED BY <1>4, <1>5 DEF users_list__user_find_by_sock

(* The peer went away: its user is taken out of the list and freed.         *)
LEMMA DisconnectedConnection ==
    ASSUME IInv, ConnectionInv, NEW w \in Workers, user_disconnected(w)
    PROVE  ConnectionInv'
<1> USE DEF ConnectionInv
<1>1. Doing(w, "disconnect") /\ UNCHANGED <<timers, registered, held, occurred, open>>
  BY DEF user_disconnected
<1>2. "disconnect" \in Rem(w)
  BY <1>1, TailShifts DEF Doing, Rem, ToSet, IInv, TypeOK, WorkerState
<1> DEFINE s == Sock(w)
<1>3. s \in Sockets /\ w \in WorkTurn(s)
  BY <1>2 DEF HandlersInv, WorkTurn, TurnCalls
<1> HIDE DEF s
<1>4. CASE NoUser(Sock(w)) /\ Then(w, <<>>) /\ UNCHANGED <<users, owned>>
  <2>1. \A x \in Users : InList(x) => InList(x)'
    BY <1>4 DEF InList
  <2>2. \A d \in Sockets : ListSeat(d)' = ListSeat(d) /\ Lone(ListSeat(d))
    BY <1>4 DEF ListSeat, SeatInv
  <2> QED BY <1>1, <1>3, <1>4, <2>1, <2>2, TurnIsOver
<1>5. ASSUME NEW i \in DOMAIN users, IsUserOf(i, Sock(w)), users' = RemoveAt(users, i),
             Freed(users[i]), Then(w, <<"remove_timer">>)
      PROVE  ConnectionInv'
  <2> DEFINE u == users[i]
  <2>1. /\ owned[u] = s /\ u \in Users /\ owned' = [owned EXCEPT ![u] = NULL]
        /\ \A x \in Users : x # u => owned'[x] = owned[x]
    BY <1>5, ListAfter DEF IsUserOf, s, Freed, IInv, TypeOK
  <2>2. \A x \in Users : owned[x] # s => owned'[x] = owned[x] /\ (InList(x) => InList(x)')
    BY <1>5, <2>1, ListAfter
  <2>3. \A d \in Sockets : Lone(ListSeat(d)') /\ (ListSeat(d) = {} => ListSeat(d)' = {})
    BY <1>5, <2>1, SeatsAfter
  <2>4. ASSUME NEW v \in Workers \ {w}, Rem(v) \cap (HoldCalls \cup {"listen"}) # {}
        PROVE  owned'[worker[v].user] = owned[worker[v].user]
    <3>1. worker[v].user \in Users /\ owned[worker[v].user] = Sock(v)
      BY <2>4 DEF HandlersInv
    <3>2. worker[v].user # u
      <4>1. CASE "listen" \in Rem(v)
        <5>1. Sock(v) # s
          BY <1>3, <2>4, <4>1, MyTurn DEF WorkTurn, TurnCalls
        <5> QED BY <5>1, <3>1, <2>1
      <4>2. CASE Rem(v) \cap HoldCalls # {}
        <5>1. Holds(v, worker[v].user)
          BY <4>2, WillCallRem DEF Holds
        <5> QED BY <5>1, <3>1 DEF IInv, UserExclusive
      <4> QED BY <2>4, <4>1, <4>2
    <3> QED BY <3>1, <3>2, <2>1
  <2> HIDE DEF u
  <2> QED BY <1>1, <1>3, <1>5, <2>2, <2>3, <2>4, TurnIsOver
<1> QED BY <1>4, <1>5 DEF user_disconnected

-----------------------------------------------------------------------------
(* The step from an event to its handler.                                   *)

(* The calls of the handlers of the events that occur.                      *)
LEMMA HandlerCalls ==
    ASSUME NEW e, e.kind \in {"accept", "hello", "write", "read"}
    PROVE  LET rest == Handler(e)
           IN  /\ \A i, j \in DOMAIN rest : rest[i] = rest[j] => i = j
               /\ \/ e.kind = "accept" /\ ToSet(rest) = {"add", "hello", "make_timer", "el_timer"}
                  \/ e.kind # "accept" /\ ToSet(rest) \in {{"disconnect"}, {"update", "find"}}
<1> DEFINE rest == Handler(e)
<1>1. CASE e.kind = "accept"
  <2>1. rest = <<"add", "hello", "make_timer", "el_timer">>
    BY <1>1 DEF Handler
  <2> HIDE DEF rest
  <2>2. ToSet(rest) = {"add", "hello", "make_timer", "el_timer"}
    BY <2>1, CallsOfRest
  <2>3. \A i, j \in DOMAIN rest : rest[i] = rest[j] => i = j
    BY <2>1
  <2> QED BY <1>1, <2>2, <2>3 DEF rest
<1>2. CASE e.kind # "accept" /\ e.gone
  <2>1. rest = <<"disconnect">>
    BY <1>2 DEF Handler
  <2> HIDE DEF rest
  <2>2. ToSet(rest) = {"disconnect"}
    BY <2>1, CallsOfRest
  <2>3. \A i, j \in DOMAIN rest : rest[i] = rest[j] => i = j
    BY <2>1
  <2> QED BY <1>2, <2>2, <2>3 DEF rest
<1>3. CASE e.kind # "accept" /\ ~e.gone
  <2>1. rest = <<"update", "find">>
    BY <1>3 DEF Handler
  <2> HIDE DEF rest
  <2>2. ToSet(rest) = {"update", "find"}
    BY <2>1, CallsOfRest
  <2>3. \A i, j \in DOMAIN rest : rest[i] = rest[j] => i = j
    BY <2>1
  <2> QED BY <1>3, <2>2, <2>3 DEF rest
<1> QED BY <1>1, <1>2, <1>3

(* The turn of a connection, and the seat of a new one, pass from the event *)
(* to the worker that runs its handler.                                     *)
LEMMA RunEventConnection ==
    ASSUME IInv, ConnectionInv, NEW w \in Workers, RunEvent(w)
    PROVE  ConnectionInv'
<1> USE DEF ConnectionInv
<1> DEFINE e == Head(occurred)
           rest == Handler(e)
           r == [handler |-> e.kind, sock |-> e.sock,
                 user |-> IF e.kind = "accept" THEN e.user ELSE NULL, todo |-> rest]
<1>1. /\ worker[w].todo = <<>> /\ occurred \in Seq(Event) /\ occurred # <<>>
      /\ worker' = [worker EXCEPT ![w] = r] /\ occurred' = Tail(occurred)
      /\ UNCHANGED <<owned, users, timers, registered, held, open>>
  BY DEF RunEvent, IInv, TypeOK
<1>2. r.handler = e.kind /\ r.sock = e.sock /\ r.todo = rest
  OBVIOUS
<1>3. /\ \A i \in DOMAIN Tail(occurred) : i + 1 \in DOMAIN occurred
                                          /\ Tail(occurred)[i] = occurred[i + 1]
      /\ 1 \in DOMAIN occurred /\ e = occurred[1]
      /\ \A i \in DOMAIN occurred : i # 1 => i - 1 \in DOMAIN Tail(occurred)
                                             /\ Tail(occurred)[i - 1] = occurred[i]
      /\ DOMAIN Tail(occurred) \subseteq Nat \ {0} /\ DOMAIN occurred \subseteq Int
  BY <1>1, TailShifts
<1>4. e \in Pending /\ e.kind \in {"accept", "hello", "write", "read"}
      /\ (e.kind # "accept" => e.sock \in Sockets)
  <2>1. e \in ToSet(occurred)
    BY <1>3 DEF ToSet
  <2> HIDE DEF e
  <2> QED BY <2>1 DEF Pending, EventsInv
<1> HIDE DEF r, e
<1>5. /\ \A i, j \in DOMAIN rest : rest[i] = rest[j] => i = j
      /\ \/ e.kind = "accept" /\ ToSet(rest) = {"add", "hello", "make_timer", "el_timer"}
         \/ e.kind # "accept" /\ ToSet(rest) \in {{"disconnect"}, {"update", "find"}}
  BY <1>4, HandlerCalls
<1> HIDE DEF rest
<1>6. /\ worker'[w] = r /\ \A v \in Workers \ {w} : worker'[v] = worker[v]
      /\ Rem(w) = {} /\ Rem(w)' = ToSet(rest)
  BY <1>1, <1>2, CallsOfRest DEF IInv, TypeOK, Rem
<1>7. /\ \A c, d \in Rem(w)' \cap TurnCalls : c = d
      /\ \A c, d \in Rem(w)' \cap SeatCalls : c = d
      /\ Rem(w)' \cap TimeoutCalls = {} /\ Rem(w)' \cap (HoldCalls \cup {"listen"}) = {}
      /\ Rem(w)' \cap {"is_exist", "is_elapsed"} = {}
      /\ Rem(w)' \cap TurnCalls # {}
      /\ Rem(w)' \cap SeatCalls # {} => e.kind = "accept"
      /\ Rem(w)' \cap {"find", "disconnect", "parse"} # {} => e.kind # "accept"
      /\ "find" \in Rem(w)' => e.kind # "accept"
      /\ "parse" \notin Rem(w)' /\ "free" \notin Rem(w)' /\ "listen" \notin Rem(w)'
  <2>1. CASE ToSet(rest) = {"add", "hello", "make_timer", "el_timer"}
    BY <1>5, <1>6, <2>1 DEF TurnCalls, SeatCalls, TimeoutCalls, HoldCalls
  <2>2. CASE ToSet(rest) = {"disconnect"} /\ e.kind # "accept"
    BY <1>6, <2>2 DEF TurnCalls, SeatCalls, TimeoutCalls, HoldCalls
  <2>3. CASE ToSet(rest) = {"update", "find"} /\ e.kind # "accept"
    BY <1>6, <2>3 DEF TurnCalls, SeatCalls, TimeoutCalls, HoldCalls
  <2> QED BY <1>5, <2>1, <2>2, <2>3
<1>8. HandlersInv'
  <2>1. /\ "find" \in Rem(w)' => worker'[w].handler \in {"hello", "write", "read"}
        /\ Rem(w)' \cap {"find", "disconnect", "parse"} # {} => worker'[w].sock \in Sockets
    BY <1>2, <1>4, <1>6, <1>7
  <2>2. \A i, j \in DOMAIN worker'[w].todo : worker'[w].todo[i] = worker'[w].todo[j] => i = j
    BY <1>2, <1>5, <1>6
  <2> QED BY <1>1, <1>6, <1>7, <2>1, <2>2, HandlerChanges
<1>9. Pending' \subseteq Pending
  <2>1. ToSet(occurred') \subseteq ToSet(occurred)
    BY <1>1, <1>3 DEF ToSet
  <2> QED BY <1>1, <2>1 DEF Pending
<1>10. EventsInv'
  BY <1>1, <1>9 DEF EventsInv
<1>11. \A s \in Sockets :
         /\ WorkTurn(s)' \subseteq WorkTurn(s) \cup {v \in {w} : e.sock = s}
         /\ WorkSeat(s)' \subseteq WorkSeat(s) \cup {v \in {w} : e.sock = s /\ e.kind = "accept"}
  <2>1. \A s \in Sockets :
          WorkTurn(s)' \subseteq WorkTurn(s) \cup {v \in {w} : e.sock = s}
    BY <1>2, <1>6, <1>7, TurnChanges
  <2>2. \A s \in Sockets :
         WorkSeat(s)' \subseteq WorkSeat(s) \cup {v \in {w} : e.sock = s /\ e.kind = "accept"}
    BY <1>2, <1>6, <1>7, TurnChanges
  <2> QED BY <2>1, <2>2
<1>12. ASSUME NEW s \in Sockets
       PROVE  /\ \A i \in QueueTurn(s)' : i + 1 \in QueueTurn(s) /\ i \in Nat \ {0}
              /\ \A i \in NewSeat(s)' : i + 1 \in NewSeat(s) /\ i \in Nat \ {0}
              /\ e.sock = s => 1 \in QueueTurn(s)
              /\ e.sock = s /\ e.kind = "accept" => 1 \in NewSeat(s)
  BY <1>1, <1>3 DEF QueueTurn, NewSeat
<1>13. ASSUME NEW s \in Sockets
       PROVE  /\ Lone(QueueTurn(s)') /\ (QueueTurn(s) = {} => QueueTurn(s)' = {})
              /\ Lone(NewSeat(s)') /\ (NewSeat(s) = {} => NewSeat(s)' = {})
              /\ e.sock = s => QueueTurn(s)' = {} /\ QueueTurn(s) # {}
              /\ e.sock = s /\ e.kind = "accept" => NewSeat(s)' = {} /\ NewSeat(s) # {}
  <2>1. Lone(QueueTurn(s)) /\ Lone(NewSeat(s))
    BY DEF TurnInv, SeatInv
  <2>2. Lone(QueueTurn(s)') /\ (QueueTurn(s) = {} => QueueTurn(s)' = {})
        /\ (e.sock = s => QueueTurn(s)' = {} /\ QueueTurn(s) # {})
    BY <1>12, <2>1 DEF Lone
  <2>3. Lone(NewSeat(s)') /\ (NewSeat(s) = {} => NewSeat(s)' = {})
        /\ (e.sock = s /\ e.kind = "accept" => NewSeat(s)' = {} /\ NewSeat(s) # {})
    BY <1>12, <2>1 DEF Lone
  <2> QED BY <2>2, <2>3
<1>14. TurnInv'
  <2>1. \A s \in Sockets : RegTurn(s)' = RegTurn(s) /\ IOTurn(s)' = IOTurn(s)
    BY <1>1 DEF RegTurn, IOTurn
  <2> QED BY <1>1, <1>11, <1>13, <2>1 DEF TurnInv, Lone, Apart
<1>15. SeatInv'
  <2>1. \A s \in Sockets : ListSeat(s)' = ListSeat(s)
    BY <1>1 DEF ListSeat
  <2> QED BY <1>1, <1>11, <1>13, <2>1 DEF SeatInv, Lone, Apart
<1>16. \A v \in Workers : Rem(v)' \cap (HoldCalls \cup {"listen"}) # {} =>
         v # w /\ Rem(v)' = Rem(v) /\ worker'[v] = worker[v]
  BY <1>6, <1>7 DEF Rem
<1>17. \A x : Doomed(x)' => Doomed(x)
  BY <1>16 DEF Doomed, HoldCalls
<1>18. ReadsInv'
  <2>1. ASSUME NEW f \in Pending, f.kind = "read"
        PROVE  f.user \in Users /\ owned'[f.user] = f.sock /\ ~Doomed(f.user)'
    <3>1. f.user \in Users /\ owned[f.user] = f.sock /\ ~Doomed(f.user)
      BY <2>1 DEF ReadsInv
    <3> QED BY <3>1, <1>1, <1>17
  <2>2. ASSUME NEW v \in Workers, "listen" \in Rem(v)'
        PROVE  ~Doomed(worker[v].user)'
    <3>1. "listen" \in Rem(v) /\ worker'[v] = worker[v]
      BY <1>16, <2>2
    <3>2. PICK x : x = worker[v].user /\ ~Doomed(x)
      BY <3>1 DEF ReadsInv
    <3>3. ~Doomed(x)'
      BY <3>2, <1>17
    <3> QED BY <3>1, <3>2, <3>3 DEF Doomed
  <2> QED BY <2>1, <2>2, <1>9 DEF ReadsInv
<1>19. PresentInv'
  <2>1. ASSUME NEW s \in Sockets, Present(s)  PROVE Present(s)'
    <3>1. PICK x \in Users : owned[x] = s /\ (InList(x) \/ \E v \in Workers : Greets(v, x))
      BY <2>1 DEF Present
    <3>2. ASSUME NEW v \in Workers, Greets(v, x)  PROVE Greets(v, x)'
      <4>1. v # w
        BY <3>2, <1>6, WillCallRem DEF Greets, Holds
      <4> QED BY <4>1, <3>2, <1>6 DEF Greets, Holds, WillCall
    <3>3. InList(x) => InList(x)'
      BY <1>1 DEF InList
    <3> QED BY <3>1, <3>2, <3>3, <1>1 DEF Present
  <2>2. ASSUME NEW s \in Sockets, ReadDue(s)'  PROVE ReadDue(s)
    <3>1. ASSUME NEW v \in Workers, worker'[v].handler = "read", "find" \in Rem(v)', Sock(v)' = s
          PROVE  ReadDue(s)
      <4>1. CASE v = w
        BY <4>1, <3>1, <1>2, <1>4, <1>6 DEF ReadDue, Sock
      <4>2. CASE v # w
        BY <4>2, <3>1, <1>6 DEF ReadDue, Sock, Rem
      <4> QED BY <4>1, <4>2
    <3> QED BY <2>2, <3>1, <1>9 DEF ReadDue
  <2>3. \A v \in Workers : "listen" \in Rem(v)' => "release" \in Rem(v)' \/ InList(worker[v].user)'
    BY <1>1, <1>16 DEF PresentInv, InList
  <2>4. \A v \in Workers : "listen" \in Rem(v)' /\ "release" \in Rem(v)' =>
          worker'[v].handler = "hello" \/ Head(worker'[v].todo) = "release"
    BY <1>16 DEF PresentInv
  <2> QED BY <2>1, <2>2, <2>3, <2>4 DEF PresentInv
<1> QED BY <1>8, <1>10, <1>14, <1>15, <1>18, <1>19

-----------------------------------------------------------------------------
(* The invariant.                                                           *)

(* In the beginning there are no connections.                               *)
LEMMA InitConnection == Init => ConnectionInv
<1> SUFFICES ASSUME Init PROVE ConnectionInv
  OBVIOUS
<1>1. /\ users = <<>> /\ timers = <<>> /\ registered = {} /\ held = NULL /\ occurred = <<>>
      /\ \A w \in Workers : worker[w] = Idle
  BY DEF Init
<1>2. \A w \in Workers : Rem(w) = {} /\ worker[w].todo = <<>>
  BY <1>1, CallsOfRest DEF Rem, Idle
<1>3. Pending = {}
  BY <1>1, CallsOfRest DEF Pending
<1>4. HandlersInv
  BY <1>2 DEF HandlersInv
<1>5. EventsInv
  BY <1>1, <1>3 DEF EventsInv
<1>6. TurnInv
  BY <1>1, <1>2 DEF TurnInv, RegTurn, IOTurn, QueueTurn, WorkTurn, Lone, Apart
<1>7. SeatInv
  BY <1>1, <1>2 DEF SeatInv, ListSeat, NewSeat, WorkSeat, Lone, Apart
<1>8. ReadsInv
  BY <1>2, <1>3 DEF ReadsInv
<1>9. PresentInv
  BY <1>2, <1>3 DEF PresentInv, ReadDue
<1> QED BY <1>4, <1>5, <1>6, <1>7, <1>8, <1>9 DEF ConnectionInv

(* Handlers make no call that only a timeout leads to.                      *)
LEMMA NoTimeoutCalls ==
    ASSUME IInv, ConnectionInv, NEW w \in Workers
    PROVE  ~Unregister(w) /\ ~EnqueueClose(w)
<1>1. ASSUME NEW c \in TimeoutCalls, Doing(w, c)  PROVE FALSE
  <2>1. c \in Rem(w)
    BY <1>1, TailShifts DEF Doing, Rem, ToSet, IInv, TypeOK, WorkerState
  <2> QED BY <2>1 DEF ConnectionInv, HandlersInv
<1> QED BY <1>1 DEF Unregister, EnqueueClose, TimeoutCalls

(* Every step keeps the invariant.                                          *)
LEMMA NextConnection ==
    ASSUME IInv, ConnectionInv, [Next]_vars, [~Elapse]_vars
    PROVE  ConnectionInv'
<1>1. CASE UNCHANGED vars
  <2>1. UNCHANGED <<owned, users, timers, registered, held, occurred, worker, open>>
    BY <1>1 DEF vars
  <2>2. \A v \in Workers : Alike(v)
    BY <2>1, StillAlike DEF ConnectionInv
  <2> QED BY <2>1, <2>2, AlikeConnection DEF ConnectionInv, EventsInv
<1>2. CASE Loop
  BY <1>2, AcceptConnection, IOConnection DEF Loop
<1>3. CASE Elapse
  BY <1>1, <1>3
<1>4. ASSUME NEW w \in Workers, Work(w)  PROVE ConnectionInv'
  <2>1. CASE RunEvent(w)
    BY <2>1, RunEventConnection
  <2>2. CASE AddUser(w) \/ AsyncWrite(w) \/ AsyncRead(w)
    BY <2>2, AddConnection, AsyncWriteConnection, AsyncReadConnection
  <2>3. CASE timers_make_for_socket(w) \/ timers_update_by_socket(w)
             \/ timers_remove_for_socket(w) \/ el_timer(w)
    BY <2>3, TimerCallsConnection
  <2>4. CASE users_list__user_find_by_sock(w) \/ Parse(w) \/ user_accessor_release(w)
    BY <2>4, FindConnection, ParseConnection, ReleaseConnection
  <2>5. CASE FreeUser(w) \/ user_disconnected(w)
    BY <2>5, FreeConnection, DisconnectedConnection
  <2>6. CASE CloseDescriptor(w) \/ Unregister(w) \/ EnqueueClose(w)
    BY <2>6, CloseConnection, NoTimeoutCalls
  <2>7. CASE handler_timer(w)
    BY <2>7, HandlerTimerConnection
  <2> QED BY <1>4, <2>1, <2>2, <2>3, <2>4, <2>5, <2>6, <2>7 DEF Work
<1>5. ASSUME NEW w \in Workers, NEW s \in Descriptors, RunTimer(w, s)  PROVE ConnectionInv'
  BY <1>5, RunTimerConnection
<1> QED BY <1>1, <1>2, <1>3, <1>4, <1>5 DEF Next

(* Between its steps no session of the behaviour is idle for timer_period.  *)
NoTimeout == [][~Elapse]_vars

(* In the instances where none ever is, this is every behaviour.            *)
LEMMA WithoutTimeouts == ASSUME Timeouts = FALSE PROVE Spec => NoTimeout
<1>1. [Next]_vars => [~Elapse]_vars
  BY DEF Elapse
<1> QED BY <1>1, PTL DEF Spec, NoTimeout

(* What holds in every state as long as no session times out.               *)
THEOREM ConnectionInvariant == Spec /\ NoTimeout => []ConnectionInv
<1>1. Init => ConnectionInv
  BY InitConnection
<1>2. IInv /\ ConnectionInv /\ [Next]_vars /\ [~Elapse]_vars => ConnectionInv'
  BY NextConnection
<1>3. Spec => []IInv
  BY InductiveInvariant
<1> QED BY <1>1, <1>2, <1>3, PTL DEF Spec, NoTimeout

-----------------------------------------------------------------------------
(* What follows from it.                                                    *)

(* Of the events of a connection only one is pending.                       *)
LEMMA TurnIsOne ==
    ASSUME ConnectionInv
    PROVE  OneOutstanding
<1> SUFFICES ASSUME NEW e \in Pending, NEW f \in Pending, e.kind # "accept", f.kind # "accept",
                    e.sock = f.sock
             PROVE  e = f
  BY DEF OneOutstanding
<1> DEFINE s == e.sock
<1>1. s \in Sockets
  BY DEF ConnectionInv, EventsInv
<1> HIDE DEF s
<1>2. /\ Lone(RegTurn(s)) /\ Lone(QueueTurn(s)) /\ Lone(IOTurn(s))
      /\ Apart(RegTurn(s), IOTurn(s)) /\ Apart(RegTurn(s), QueueTurn(s))
      /\ Apart(IOTurn(s), QueueTurn(s))
  BY <1>1 DEF ConnectionInv, TurnInv, Lone, IOTurn
<1>3. ASSUME NEW g \in Pending, g.sock = s
      PROVE  \/ g \in RegTurn(s) \/ g \in IOTurn(s)
             \/ \E i \in QueueTurn(s) : occurred[i] = g
  BY <1>3 DEF Pending, RegTurn, IOTurn, QueueTurn, ToSet
<1>4. /\ e \in RegTurn(s) \/ e \in IOTurn(s) \/ \E i \in QueueTurn(s) : occurred[i] = e
      /\ f \in RegTurn(s) \/ f \in IOTurn(s) \/ \E i \in QueueTurn(s) : occurred[i] = f
  BY <1>3 DEF s
<1> QED BY <1>2, <1>4 DEF Lone, Apart

(* A connection has at most one outstanding read or write, whoever has it.  *)
(* Registering the next event of a connection never fails with EXISTS.      *)
THEOREM OneOutstandingCorrect == Spec /\ NoTimeout => []OneOutstanding
<1>1. ConnectionInv => OneOutstanding
  BY TurnIsOne
<1> QED BY <1>1, ConnectionInvariant, PTL

(* The buffer a read fills, or will fill, is one of a user that is still    *)
(* allocated: no handler frees a user while a read into it is outstanding.  *)
THEOREM BuffersCorrect == Spec /\ NoTimeout => []BuffersAlive
<1>1. ConnectionInv => BuffersAlive
  <2> SUFFICES ASSUME ConnectionInv, NEW e \in Pending, e.kind = "read"
               PROVE  owned[e.user] # NULL
    BY DEF BuffersAlive
  <2>1. owned[e.user] = e.sock /\ e.sock \in Sockets
    BY DEF ConnectionInv, ReadsInv, EventsInv
  <2> QED BY <2>1, ServerAssumption
<1> QED BY <1>1, ConnectionInvariant, PTL

(* The list never has two users of one descriptor: users_list__             *)
(* user_find_by_sock, which takes the first, takes the connection's own.    *)
THEOREM SessionsCorrect == Spec /\ NoTimeout => []OneSessionPerSocket
<1>1. ConnectionInv => OneSessionPerSocket
  BY DEF ConnectionInv, SeatInv, ListSeat, Lone, OneSessionPerSocket
<1> QED BY <1>1, ConnectionInvariant, PTL

(* Input is dropped because its user is not in the list only while          *)
(* handler_hello_write of the same connection still has the user: every     *)
(* other handler puts it back before it registers what comes next.          *)
THEOREM ReadLostCorrect == Spec /\ NoTimeout => ReadLostOnlyToHello
<1> DEFINE A == \A w \in Workers :
         Doing(w, "find") /\ worker[w].handler = "read" /\ NoUser(Sock(w))
         /\ worker'[w] # worker[w]
         => \E v \in Workers : worker[v].handler = "hello" /\ Holds(v, worker[v].user)
                                /\ Sock(v) = Sock(w)
<1>1. IInv /\ ConnectionInv => A
  <2> SUFFICES ASSUME IInv, ConnectionInv, NEW w \in Workers,
                      Doing(w, "find"), worker[w].handler = "read", NoUser(Sock(w))
               PROVE  \E v \in Workers : worker[v].handler = "hello" /\ Holds(v, worker[v].user)
                                         /\ Sock(v) = Sock(w)
    OBVIOUS
  <2>1. "find" \in Rem(w)
    BY TailShifts DEF Doing, Rem, ToSet, IInv, TypeOK, WorkerState
  <2>2. Sock(w) \in Sockets /\ ReadDue(Sock(w))
    BY <2>1 DEF ConnectionInv, HandlersInv, ReadDue
  <2>3. PICK x \in Users : /\ owned[x] = Sock(w)
                           /\ InList(x) \/ \E v \in Workers : Greets(v, x)
    BY <2>2 DEF ConnectionInv, PresentInv, Present
  <2>4. PICK v \in Workers : Greets(v, x)
    BY <2>3 DEF NoUser, InList
  <2>5. worker[v].handler = "hello" /\ Holds(v, x) /\ worker[v].user = x
    BY <2>4 DEF Greets, Holds
  <2>6. Sock(v) = owned[x]
    BY <2>5, WillCallRem DEF Holds, ConnectionInv, HandlersInv
  <2> QED BY <2>3, <2>5, <2>6
<1>2. IInv /\ ConnectionInv => [A]_vars
  BY <1>1
<1>3. Spec /\ NoTimeout => []IInv /\ []ConnectionInv
  BY InductiveInvariant, ConnectionInvariant
<1> QED BY <1>2, <1>3, PTL DEF ReadLostOnlyToHello
================================================================================
