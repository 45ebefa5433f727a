---------------------------- MODULE EventLoopProofs ----------------------------
(***************************************************************************)
(* Proofs about the event loop, for any number of workers, descriptors and  *)
(* event objects.                                                           *)
(***************************************************************************)
EXTENDS EventLoop, TLAPS

(* The manager holds an object exactly between taking it out and queueing   *)
(* it or registering it again, and does the I/O the object asks for.        *)
ManagerHolds ==
    /\ held = NULL <=> manager \notin {"io", "queue", "again"}
    /\ manager = "io" => event[held].type \in IOTypes
    /\ manager = "again" => event[held].type = "write"

(* A worker that looks for an event has none, and remembers a descriptor    *)
(* exactly inside el_socket_close.                                          *)
WorkerHolds ==
    \A w \in Workers :
        /\ worker[w].pc \in {"idle", "take"} => worker[w].ev = NULL
        /\ worker[w].pc \in {"close", "enqueue"} <=> worker[w].sock # NULL

Typed == TypeOK /\ ManagerHolds /\ WorkerHolds

-----------------------------------------------------------------------------
(* Sequences.                                                               *)

In(s, e) == \E i \in DOMAIN s : s[i] = e
Distinct(s) == \A i, j \in DOMAIN s : s[i] = s[j] => i = j

(* What an appended sequence contains.                                      *)
LEMMA InAppend ==
    ASSUME NEW S, NEW s \in Seq(S), NEW x \in S
    PROVE  /\ Append(s, x) \in Seq(S)
           /\ \A e : In(Append(s, x), e) <=> In(s, e) \/ e = x
           /\ Distinct(s) /\ ~In(s, x) => Distinct(Append(s, x))
<1>1. /\ Append(s, x) \in Seq(S)
      /\ DOMAIN Append(s, x) = 1 .. Len(s) + 1 /\ DOMAIN s = 1 .. Len(s) /\ Len(s) \in Nat
      /\ \A i \in 1 .. Len(s) : Append(s, x)[i] = s[i]
      /\ Append(s, x)[Len(s) + 1] = x
  OBVIOUS
<1>2. 1 .. Len(s) + 1 = 1 .. Len(s) \cup {Len(s) + 1}
  BY <1>1
<1> QED BY <1>1, <1>2 DEF In, Distinct

(* What is left when the first element is taken.                            *)
LEMMA InTail ==
    ASSUME NEW S, NEW s \in Seq(S), s # <<>>
    PROVE  /\ Head(s) \in S /\ Tail(s) \in Seq(S) /\ In(s, Head(s))
           /\ \A e : In(s, e) <=> In(Tail(s), e) \/ e = Head(s)
           /\ Distinct(s) => Distinct(Tail(s)) /\ ~In(Tail(s), Head(s))
<1>1. /\ Head(s) = s[1] /\ Tail(s) \in Seq(S) /\ Len(s) \in Nat \ {0}
      /\ DOMAIN s = 1 .. Len(s) /\ DOMAIN Tail(s) = 1 .. Len(s) - 1
      /\ \A i \in 1 .. Len(s) - 1 : Tail(s)[i] = s[i + 1]
      /\ Head(s) \in S
  OBVIOUS
<1>2. ASSUME NEW e, In(s, e), e # Head(s)  PROVE In(Tail(s), e)
  <2>1. PICK i \in 1 .. Len(s) : s[i] = e
    BY <1>1, <1>2 DEF In
  <2>2. i - 1 \in 1 .. Len(s) - 1 /\ i = (i - 1) + 1
    BY <2>1, <1>1, <1>2
  <2>3. Tail(s)[i - 1] = s[i]
    BY <2>2, <1>1
  <2> QED BY <2>1, <2>2, <2>3, <1>1 DEF In
<1>3. ASSUME NEW i \in DOMAIN Tail(s)
      PROVE  i + 1 \in DOMAIN s /\ Tail(s)[i] = s[i + 1] /\ i + 1 # 1 /\ i \in Nat
  BY <1>1
<1>4. \A e : In(Tail(s), e) => In(s, e)
  BY <1>3 DEF In
<1>5. 1 \in DOMAIN s /\ In(s, Head(s))
  BY <1>1 DEF In
<1>6. ASSUME Distinct(s)  PROVE Distinct(Tail(s)) /\ ~In(Tail(s), Head(s))
  <2>1. ~In(Tail(s), Head(s))
    BY <1>3, <1>5, <1>6, <1>1 DEF In, Distinct
  <2>2. ASSUME NEW i \in DOMAIN Tail(s), NEW j \in DOMAIN Tail(s), Tail(s)[i] = Tail(s)[j]
        PROVE  i = j
    <3>1. i + 1 = j + 1
      BY <2>2, <1>3, <1>6 DEF Distinct
    <3> QED BY <3>1, <1>3
  <2> QED BY <2>1, <2>2 DEF Distinct
<1> QED BY <1>1, <1>2, <1>4, <1>5, <1>6

(* SingleOwner, in terms of what the queue contains.                        *)
Owners ==
    /\ \A e \in registered : e # held /\ ~In(occurred, e) /\ ~Handled(e)
    /\ Distinct(occurred)
    /\ \A e : In(occurred, e) => e # held /\ ~Handled(e)
    /\ \A v, w \in Workers :
         worker[v].ev # NULL => worker[v].ev # held /\ (worker[v].ev = worker[w].ev => v = w)

LEMMA SingleOwnerForm ==
    /\ SingleOwner <=> Owners
    /\ \A e : Queued(e) <=> In(occurred, e)
BY DEF Queued, In, SingleOwner, Distinct, Owners

(* The inductive invariant.                                                 *)
IInv == Typed /\ Owners /\ OneTypePerSocket /\ PopMissesOnlyClosed

-----------------------------------------------------------------------------
(* Types and control.                                                       *)

(* A new event object is an event.                                          *)
LEMMA NewEventTyped ==
    /\ \A s \in Descriptors, type \in EventTypes :
         /\ NewEvent(s, type) \in Event
         /\ NewEvent(s, type).sock = s /\ NewEvent(s, type).type = type
    /\ Blank \in Event
    /\ \A s \in Sockets : s \in Descriptors /\ s # NULL /\ s # Listener
    /\ Listener \in Descriptors
    /\ IOTypes \subseteq EventTypes
    /\ \A e \in Events : e # NULL
BY EventLoopAssumption DEF NewEvent, Event, Blank, Descriptors, EventTypes, IOTypes

(* Nothing holds before the first step.                                     *)
LEMMA InitTyped == Init => Typed
BY NewEventTyped DEF Init, Typed, TypeOK, ManagerHolds, WorkerHolds, IdleWorker,
   WorkerState, WorkerControl, ManagerControl

(* The steps of the kernel and of the manager.                              *)
LEMMA ManagerTyped ==
    ASSUME Typed, SockReady \/ Manager
    PROVE  Typed'
<1> USE DEF Typed, TypeOK, ManagerHolds, WorkerHolds, ManagerControl
<1>1. CASE SockReady
  <2>1. \A s \in open, type \in IOTypes : <<s, type>> \in Descriptors \X EventTypes
    BY NewEventTyped
  <2> QED BY <1>1, <2>1 DEF SockReady, Descriptors, EventTypes
<1>2. CASE pr_create_pollfd
  <2>1. polled' \subseteq Descriptors \X EventTypes
    BY <1>2 DEF pr_create_pollfd, Event, Descriptors, EventTypes
  <2> QED BY <1>2, <2>1 DEF pr_create_pollfd
<1>3. CASE Poll
  BY <1>3 DEF Poll
<1>4. CASE Recv
  BY <1>4 DEF Recv
<1>5. CASE Send
  BY <1>5 DEF Send
<1>6. CASE PushOccurred
  <2>1. held \in Events
    BY <1>6 DEF PushOccurred
  <2> QED BY <1>6, <2>1, InAppend DEF PushOccurred
<1>7. CASE PushAgain
  BY <1>7 DEF PushAgain
<1>8. CASE EndOfStep
  BY <1>8 DEF EndOfStep
<1>9. ASSUME NEW e \in Events, AcceptClient(e)  PROVE Typed'
  BY <1>9, NewEventTyped DEF AcceptClient, EventTypes
<1>10. ASSUME NEW s \in Sockets, NEW type \in IOTypes, PopNothing(s, type)  PROVE Typed'
  BY <1>10 DEF PopNothing
<1>11. ASSUME NEW s \in Sockets, NEW type \in IOTypes, NEW e \in Events,
              PopRegistered(s, type, e)
       PROVE  Typed'
  BY <1>11, NewEventTyped DEF PopRegistered, IsFor
<1> QED
  BY <1>1, <1>2, <1>3, <1>4, <1>5, <1>6, <1>7, <1>8, <1>9, <1>10, <1>11 DEF Manager

(* The steps of a worker, by itself or as its handlers ask.                 *)
LEMMA WorkerTyped ==
    ASSUME Typed, Owners, NEW w \in Workers, Run(w) \/ TimerHandlers(w) \/ HandlerCalls(w)
    PROVE  Typed'
<1> USE DEF Typed, TypeOK, ManagerHolds, WorkerHolds
<1>1. CASE TakeOccurred(w)
  <2>1. Head(occurred) \in Events /\ Tail(occurred) \in Seq(Events)
    BY <1>1, InTail DEF TakeOccurred
  <2> QED BY <1>1, <2>1 DEF TakeOccurred, WorkerState, WorkerControl
<1>2. CASE NothingOccurred(w)
  BY <1>2 DEF NothingOccurred, WorkerState, WorkerControl
<1>3. CASE HandlerReturns(w)
  <2>1. event' \in [Events -> Event]
    BY <1>3, NewEventTyped DEF HandlerReturns
  <2>2. held # NULL => event'[held] = event[held]
    BY <1>3 DEF HandlerReturns, Owners, Handled
  <2>3. worker' \in [Workers -> WorkerState] /\ WorkerHolds'
    <3> DEFINE r == [IdleWorker EXCEPT !.pc = IF worker[w].ev = NULL THEN "take" ELSE "idle"]
    <3>1. r \in WorkerState /\ r.pc \in {"idle", "take"} /\ r.ev = NULL /\ r.sock = NULL
      BY DEF IdleWorker, WorkerState, WorkerControl
    <3>2. worker' = [worker EXCEPT ![w] = r]
      BY <1>3 DEF HandlerReturns
    <3> HIDE DEF r
    <3> QED BY <3>1, <3>2
  <2> QED BY <1>3, <2>1, <2>2, <2>3, NewEventTyped DEF HandlerReturns
<1>4. CASE CloseDescriptor(w)
  BY <1>4 DEF CloseDescriptor, WorkerState, WorkerControl
<1>5. ASSUME NEW e \in Events, CloseEnqueue(w, e)  PROVE Typed'
  <2>1. worker[w].sock \in Sockets
    BY <1>5 DEF CloseEnqueue, WorkerState
  <2>2. event' \in [Events -> Event]
    BY <1>5, <2>1, NewEventTyped DEF CloseEnqueue, EventTypes
  <2>3. held # NULL => event'[held] = event[held]
    BY <1>5 DEF CloseEnqueue, Free
  <2>4. occurred' \in Seq(Events)
    BY <1>5, InAppend DEF CloseEnqueue
  <2>5. worker' \in [Workers -> WorkerState] /\ WorkerHolds'
    BY <1>5 DEF CloseEnqueue, WorkerState, WorkerControl
  <2> QED BY <1>5, <2>2, <2>3, <2>4, <2>5 DEF CloseEnqueue
<1>6. CASE TimerHandlers(w)
  BY <1>6 DEF TimerHandlers, WorkerState, WorkerControl
<1>7. ASSUME NEW s \in Sockets, CloseUnregister(w, s)  PROVE Typed'
  <2>1. event' \in [Events -> Event]
    BY <1>7, NewEventTyped DEF CloseUnregister
  <2>2. held # NULL => event'[held] = event[held]
    BY <1>7 DEF CloseUnregister, Owners
  <2>3. dropped' \subseteq Descriptors \X EventTypes
    <3>1. \A e \in registered : <<s, event[e].type>> \in Descriptors \X EventTypes
      BY NewEventTyped DEF Event
    <3> QED BY <1>7, <3>1 DEF CloseUnregister
  <2>4. worker' \in [Workers -> WorkerState] /\ WorkerHolds'
    <3> DEFINE r == [worker[w] EXCEPT !.pc = "close", !.sock = s]
    <3>0. worker[w] \in WorkerState /\ s # NULL
      BY NewEventTyped
    <3>1. r \in WorkerState /\ r.pc = "close" /\ r.sock # NULL
      BY <3>0 DEF WorkerState, WorkerControl
    <3>2. worker' = [worker EXCEPT ![w] = r]
      BY <1>7 DEF CloseUnregister
    <3> HIDE DEF r
    <3> QED BY <3>1, <3>2
  <2> QED BY <1>7, <2>1, <2>2, <2>3, <2>4 DEF CloseUnregister
<1>8. ASSUME NEW s \in Sockets, CloseDirectly(w, s)  PROVE Typed'
  BY <1>8 DEF CloseDirectly
<1>9. ASSUME NEW s \in Sockets, NEW type \in IOTypes, NEW e \in Events, el_async(w, s, type, e)
      PROVE  Typed'
  <2>1. event' \in [Events -> Event]
    BY <1>9, NewEventTyped DEF el_async
  <2>2. held # NULL => event'[held] = event[held]
    BY <1>9 DEF el_async, Free
  <2> QED BY <1>9, <2>1, <2>2 DEF el_async
<1> QED
  BY <1>1, <1>2, <1>3, <1>4, <1>5, <1>6, <1>7, <1>8, <1>9 DEF Run, HandlerCalls

-----------------------------------------------------------------------------
(* Ownership.                                                               *)

(* Steps after which the workers have the objects they had.                 *)
LEMMA SameHandled ==
    ASSUME \A v \in Workers : worker'[v].ev = worker[v].ev
    PROVE  \A e : Handled(e)' <=> Handled(e)
BY DEF Handled

(* An object nobody owns.                                                   *)
LEMMA FreeUnowned ==
    ASSUME NEW e \in Free
    PROVE  /\ e \in Events /\ e # NULL
           /\ e \notin registered /\ e # held /\ ~In(occurred, e) /\ ~Handled(e)
BY EventLoopAssumption DEF Free, Queued, In

(* The manager and the kernel.                                              *)
LEMMA ManagerOwners ==
    ASSUME Typed, Owners, SockReady \/ Manager
    PROVE  Owners'
<1> USE DEF Typed, TypeOK, ManagerHolds
<1>1. CASE SockReady
  BY <1>1 DEF SockReady, Owners, Handled
<1>2. CASE pr_create_pollfd
  BY <1>2 DEF pr_create_pollfd, Owners, Handled
<1>3. CASE Poll
  BY <1>3 DEF Poll, Owners, Handled
<1>4. CASE Recv
  BY <1>4 DEF Recv, Owners, Handled
<1>5. CASE Send
  BY <1>5 DEF Send, Owners, Handled
<1>6. CASE PushOccurred
  <2>1. held \in Events /\ held # NULL /\ ~In(occurred, held)
    BY <1>6 DEF PushOccurred, Owners
  <2>2. /\ Distinct(occurred')
        /\ \A e : In(occurred', e) <=> In(occurred, e) \/ e = held
    BY <1>6, <2>1, InAppend DEF PushOccurred, Owners
  <2>3. ~Handled(held) /\ held \notin registered /\ held' = NULL
    BY <1>6, <2>1 DEF PushOccurred, Owners, Handled
  <2>4. ~In(occurred, NULL) /\ NULL \notin registered
    BY EventLoopAssumption DEF In
  <2> QED BY <1>6, <2>1, <2>2, <2>3, <2>4, EventLoopAssumption DEF PushOccurred, Owners, Handled
<1>7. CASE PushAgain
  BY <1>7, EventLoopAssumption DEF PushAgain, Owners, Handled, In
<1>8. CASE EndOfStep
  BY <1>8 DEF EndOfStep, Owners, Handled
<1>9. ASSUME NEW e \in Events, AcceptClient(e)  PROVE Owners'
  BY <1>9, FreeUnowned DEF AcceptClient, Owners, Handled
<1>10. ASSUME NEW s \in Sockets, NEW type \in IOTypes, PopNothing(s, type)  PROVE Owners'
  BY <1>10 DEF PopNothing, Owners, Handled
<1>11. ASSUME NEW s \in Sockets, NEW type \in IOTypes, NEW e \in Events,
              PopRegistered(s, type, e)
       PROVE  Owners'
  BY <1>11 DEF PopRegistered, Owners, Handled
<1> QED
  BY <1>1, <1>2, <1>3, <1>4, <1>5, <1>6, <1>7, <1>8, <1>9, <1>10, <1>11 DEF Manager

(* The workers.                                                             *)
LEMMA WorkerOwners ==
    ASSUME Typed, Owners, NEW w \in Workers, Run(w) \/ TimerHandlers(w) \/ HandlerCalls(w)
    PROVE  Owners'
<1> USE DEF Typed, TypeOK, WorkerHolds
<1>1. CASE TakeOccurred(w)
  <2>1. /\ Head(occurred) \in Events /\ Head(occurred) # NULL /\ In(occurred, Head(occurred))
        /\ \A e : In(occurred, e) <=> In(occurred', e) \/ e = Head(occurred)
        /\ Distinct(occurred') /\ ~In(occurred', Head(occurred))
    BY <1>1, InTail, EventLoopAssumption DEF TakeOccurred, Owners
  <2>2. /\ worker[w].ev = NULL /\ worker'[w].ev = Head(occurred)
        /\ \A v \in Workers \ {w} : worker'[v] = worker[v]
    BY <1>1 DEF TakeOccurred, WorkerState
  <2>3. \A e : Handled(e)' => Handled(e) \/ e = Head(occurred)
    BY <2>2 DEF Handled
  <2>4. Head(occurred) # held /\ ~Handled(Head(occurred)) /\ Head(occurred) \notin registered
    BY <2>1 DEF Owners
  <2>5. UNCHANGED <<registered, held>>
    BY <1>1 DEF TakeOccurred
  <2>6. ASSUME NEW v \in Workers, NEW u \in Workers, worker'[v].ev # NULL
        PROVE  worker'[v].ev # held /\ (worker'[v].ev = worker'[u].ev => v = u)
    BY <2>1, <2>2, <2>4, <2>6 DEF Owners, Handled
  <2> QED BY <2>1, <2>3, <2>4, <2>5, <2>6 DEF Owners
<1>2. CASE NothingOccurred(w)
  BY <1>2 DEF NothingOccurred, Owners, Handled, WorkerState
<1>3. CASE HandlerReturns(w)
  <2>1. /\ worker'[w].ev = NULL /\ \A v \in Workers \ {w} : worker'[v] = worker[v]
        /\ UNCHANGED <<registered, held, occurred>>
    BY <1>3 DEF HandlerReturns, IdleWorker
  <2>2. \A e : Handled(e)' => Handled(e) \/ e = NULL
    BY <2>1 DEF Handled
  <2>3. NULL \notin registered /\ ~In(occurred, NULL)
    BY EventLoopAssumption DEF In
  <2>4. ASSUME NEW v \in Workers, NEW u \in Workers, worker'[v].ev # NULL
        PROVE  worker'[v].ev # held /\ (worker'[v].ev = worker'[u].ev => v = u)
    BY <2>1, <2>4 DEF Owners
  <2> QED BY <2>1, <2>2, <2>3, <2>4 DEF Owners
<1>4. CASE CloseDescriptor(w)
  BY <1>4 DEF CloseDescriptor, Owners, Handled, WorkerState
<1>5. ASSUME NEW e \in Events, CloseEnqueue(w, e)  PROVE Owners'
  <2>1. /\ e # NULL /\ e # held /\ e \notin registered /\ ~In(occurred, e) /\ ~Handled(e)
        /\ occurred' = Append(occurred, e)
    BY <1>5, FreeUnowned DEF CloseEnqueue
  <2>2. /\ Distinct(occurred')
        /\ \A f : In(occurred', f) <=> In(occurred, f) \/ f = e
    BY <2>1, InAppend DEF Owners
  <2>3. /\ \A v \in Workers : worker'[v].ev = worker[v].ev
        /\ UNCHANGED <<registered, held>>
    BY <1>5 DEF CloseEnqueue, WorkerState
  <2> QED BY <2>1, <2>2, <2>3, SameHandled DEF Owners
<1>6. CASE TimerHandlers(w)
  BY <1>6 DEF TimerHandlers, Owners, Handled, WorkerState
<1>7. ASSUME NEW s \in Sockets, CloseUnregister(w, s)  PROVE Owners'
  <2>1. /\ \A v \in Workers : worker'[v].ev = worker[v].ev
        /\ UNCHANGED <<occurred, held>> /\ registered' \subseteq registered
    BY <1>7 DEF CloseUnregister, WorkerState
  <2> QED BY <2>1, SameHandled DEF Owners
<1>8. ASSUME NEW s \in Sockets, CloseDirectly(w, s)  PROVE Owners'
  BY <1>8 DEF CloseDirectly, Owners, Handled
<1>9. ASSUME NEW s \in Sockets, NEW type \in IOTypes, NEW e \in Events, el_async(w, s, type, e)
      PROVE  Owners'
  BY <1>9, FreeUnowned DEF el_async, Owners, Handled
<1> QED
  BY <1>1, <1>2, <1>3, <1>4, <1>5, <1>6, <1>7, <1>8, <1>9 DEF Run, HandlerCalls

-----------------------------------------------------------------------------
(* The registered events and the manager's snapshot of them.                *)

(* Every registered object keeps its fields while it stays registered.      *)
LEMMA SameFields ==
    ASSUME Typed, Owners, [Next]_vars
    PROVE  \A e \in registered \cup {held} :
               e \in registered' \cup {held'} /\ e # NULL => event'[e] = event[e]
<1> USE DEF Typed, TypeOK
<1>1. ASSUME NEW e \in Events, AcceptClient(e)
      PROVE  \A f \in registered \cup {held} : f # NULL => event'[f] = event[f]
  BY <1>1, FreeUnowned DEF AcceptClient
<1>2. ASSUME NEW s \in Sockets, NEW type \in IOTypes, NEW e \in Events,
             PopRegistered(s, type, e) \/ PopNothing(s, type)
      PROVE  UNCHANGED event
  BY <1>2 DEF PopRegistered, PopNothing
<1>3. ASSUME NEW w \in Workers, HandlerReturns(w)
      PROVE  \A f \in registered \cup {held} : f # NULL => event'[f] = event[f]
  BY <1>3 DEF HandlerReturns, Owners, Handled
<1>4. ASSUME NEW w \in Workers, NEW e \in Events, CloseEnqueue(w, e)
      PROVE  \A f \in registered \cup {held} : f # NULL => event'[f] = event[f]
  BY <1>4, FreeUnowned DEF CloseEnqueue
<1>5. ASSUME NEW w \in Workers, NEW s \in Sockets, CloseUnregister(w, s)
      PROVE  \A f \in registered' \cup {held} : f # NULL => event'[f] = event[f]
  BY <1>5 DEF CloseUnregister, Owners
<1>6. ASSUME NEW w \in Workers, NEW s \in Sockets, NEW type \in IOTypes, NEW e \in Events,
             el_async(w, s, type, e)
      PROVE  \A f \in registered \cup {held} : f # NULL => event'[f] = event[f]
  BY <1>6, FreeUnowned DEF el_async
<1>7. ASSUME NEW w \in Workers, NEW s \in Sockets, CloseUnregister(w, s)
      PROVE  UNCHANGED held
  BY <1>7 DEF CloseUnregister
<1> QED
  BY <1>1, <1>2, <1>3, <1>4, <1>5, <1>6, <1>7
  DEF Next, Manager, Run, HandlerCalls, vars, SockReady, pr_create_pollfd, Poll, Recv, Send,
      PushOccurred, PushAgain, EndOfStep, TakeOccurred, NothingOccurred, CloseDescriptor,
      TimerHandlers, CloseDirectly

(* Steps that register nothing.                                             *)
LEMMA NothingNew ==
    ASSUME Typed, Owners, [Next]_vars,
           ~PushAgain,
           \A w \in Workers, s \in Sockets, type \in IOTypes, e \in Events :
               ~el_async(w, s, type, e)
    PROVE  registered' \subseteq registered
BY DEF Next, Manager, Run, HandlerCalls, vars, SockReady, pr_create_pollfd, Poll, Recv, Send,
       PushOccurred, EndOfStep, TakeOccurred, NothingOccurred, CloseDescriptor,
       TimerHandlers, CloseDirectly, AcceptClient, PopRegistered, PopNothing, HandlerReturns,
       CloseEnqueue, CloseUnregister

(* Only a pair that is not registered is registered.                        *)
LEMMA OneTypeKept ==
    ASSUME Typed, Owners, OneTypePerSocket, [Next]_vars
    PROVE  OneTypePerSocket'
<1> USE DEF Typed, TypeOK
<1>1. \A e \in registered : e \in registered' => event'[e] = event[e]
  BY SameFields, EventLoopAssumption
<1>2. CASE registered' \subseteq registered
  BY <1>1, <1>2 DEF OneTypePerSocket
<1>3. ASSUME NEW w \in Workers, NEW s \in Sockets, NEW type \in IOTypes, NEW e \in Events,
             el_async(w, s, type, e)
      PROVE  OneTypePerSocket'
  <2>1. /\ registered' = registered \cup {e} /\ e \notin registered
        /\ event'[e].sock = s /\ event'[e].type = type
        /\ \A f \in registered : event[f].sock = s => event[f].type # type
    BY <1>3, FreeUnowned, NewEventTyped DEF el_async, Registered, IsFor
  <2> QED BY <1>1, <2>1 DEF OneTypePerSocket
<1>4. CASE PushAgain
  <2>1. UNCHANGED event /\ event[held].type = "write"
    BY <1>4 DEF PushAgain, ManagerHolds
  <2> QED BY <1>4, <2>1 DEF PushAgain, OneTypePerSocket, Registered, IsFor
<1> QED BY <1>2, <1>3, <1>4, NothingNew

(* A pair is registered no more only if its event was popped or taken back. *)
LEMMA RegisteredKept ==
    ASSUME Typed, Owners, OneTypePerSocket, [Next]_vars,
           NEW s \in Sockets, NEW type \in IOTypes, Registered(s, type), ~Registered(s, type)'
    PROVE  \/ \E e \in Events : PopRegistered(s, type, e)
           \/ \E w \in Workers : CloseUnregister(w, s) /\ <<s, type>> \in dropped'
<1> USE DEF Typed, TypeOK
<1>1. PICK e \in registered : IsFor(e, s, type)
  BY DEF Registered
<1>2. e \in Events /\ e \notin registered'
  BY <1>1, SameFields, EventLoopAssumption DEF Registered, IsFor
<1>3. \/ \E t \in Sockets, y \in IOTypes, f \in Events : PopRegistered(t, y, f)
      \/ \E w \in Workers, t \in Sockets : CloseUnregister(w, t)
  BY <1>2 DEF Next, Manager, Run, HandlerCalls, vars, SockReady, pr_create_pollfd, Poll, Recv,
       Send, PushOccurred, PushAgain, EndOfStep, TakeOccurred, NothingOccurred, CloseDescriptor,
       TimerHandlers, CloseDirectly, AcceptClient, PopNothing, HandlerReturns,
       CloseEnqueue, el_async
<1>4. ASSUME NEW t \in Sockets, NEW y \in IOTypes, NEW f \in Events, PopRegistered(t, y, f)
      PROVE  PopRegistered(s, type, f)
  <2>1. f = e /\ t = s /\ y = type
    BY <1>1, <1>2, <1>4 DEF PopRegistered, IsFor
  <2> QED BY <1>4, <2>1
<1>5. ASSUME NEW w \in Workers, NEW t \in Sockets, CloseUnregister(w, t)
      PROVE  t = s /\ <<s, type>> \in dropped'
  BY <1>1, <1>2, <1>5 DEF CloseUnregister, IsFor
<1> QED BY <1>3, <1>4, <1>5

(* A polled pair whose event is gone was taken back since the snapshot.     *)
LEMMA PopMissesKept ==
    ASSUME Typed, Owners, OneTypePerSocket, PopMissesOnlyClosed, [Next]_vars
    PROVE  PopMissesOnlyClosed'
<1> USE DEF Typed, TypeOK, ManagerHolds
<1> DEFINE Busy == {"poll", "serve", "io", "queue", "again"}
<1>1. CASE pr_create_pollfd
  <2>1. \A s \in Sockets, type \in IOTypes : <<s, type>> \in polled' => Registered(s, type)'
    BY <1>1, EventLoopAssumption DEF pr_create_pollfd, Registered, IsFor
  <2> QED BY <1>1, <2>1 DEF PopMissesOnlyClosed, pr_create_pollfd
<1>2. CASE ~pr_create_pollfd
  <2>1. /\ dropped \subseteq dropped'
        /\ manager' \in Busy => manager \in Busy /\ polled' \subseteq polled
    <3>1. CASE Manager
      BY <1>2, <3>1 DEF Manager, Poll, Recv, Send, PushOccurred, PushAgain, EndOfStep,
         PopNothing, PopRegistered, AcceptClient
    <3>2. ASSUME NEW w \in Workers, Run(w) \/ TimerHandlers(w) \/ HandlerCalls(w)
          PROVE  dropped \subseteq dropped' /\ UNCHANGED <<manager, polled>>
      BY <3>2 DEF Run, HandlerCalls, TakeOccurred, NothingOccurred, CloseDescriptor,
         TimerHandlers, CloseDirectly, HandlerReturns, CloseEnqueue, CloseUnregister,
         el_async
    <3>3. CASE UNCHANGED vars \/ SockReady
      BY <3>3 DEF vars, SockReady
    <3> QED BY <3>1, <3>2, <3>3 DEF Next
  <2>2. ASSUME NEW s \in Sockets, NEW type \in IOTypes,
               manager' \in Busy, <<s, type>> \in polled'
        PROVE  Registered(s, type)' \/ <<s, type>> \in dropped'
    <3>1. Registered(s, type) \/ <<s, type>> \in dropped
      BY <2>1, <2>2 DEF PopMissesOnlyClosed
    <3>2. \A e \in Events : ~PopRegistered(s, type, e)
      BY <2>2 DEF PopRegistered
    <3> QED BY <2>1, <3>1, <3>2, RegisteredKept
  <2>3. ASSUME manager' = "fault"  PROVE dropped' # {}
    <3>1. CASE manager = "fault"
      BY <2>1, <3>1 DEF PopMissesOnlyClosed
    <3>2. CASE \E s \in Sockets, type \in IOTypes : PopNothing(s, type)
      BY <2>1, <3>2 DEF PopNothing, PopMissesOnlyClosed
    <3> QED
      BY <2>3, <3>1, <3>2 DEF Next, Manager, Run, HandlerCalls, vars, SockReady,
         pr_create_pollfd, Poll, Recv, Send, PushOccurred, PushAgain, EndOfStep, TakeOccurred,
         NothingOccurred, CloseDescriptor, TimerHandlers, CloseDirectly, AcceptClient,
         PopRegistered, HandlerReturns, CloseEnqueue, CloseUnregister, el_async
  <2> QED BY <2>2, <2>3 DEF PopMissesOnlyClosed
<1> QED BY <1>1, <1>2

-----------------------------------------------------------------------------
(* The inductive invariant.                                                 *)

LEMMA InitIInv == Init => IInv
<1> SUFFICES ASSUME Init PROVE IInv
  OBVIOUS
<1>1. Typed
  BY InitTyped
<1>2. Owners
  BY DEF Init, Owners, In, Distinct, Handled, IdleWorker
<1>3. OneTypePerSocket /\ PopMissesOnlyClosed
  BY DEF Init, OneTypePerSocket, PopMissesOnlyClosed
<1> QED BY <1>1, <1>2, <1>3 DEF IInv

LEMMA NextIInv == IInv /\ [Next]_vars => IInv'
<1> SUFFICES ASSUME IInv, [Next]_vars PROVE IInv'
  OBVIOUS
<1>1. Typed' /\ Owners'
  <2>1. CASE UNCHANGED vars
    BY <2>1 DEF vars, IInv, Typed, TypeOK, ManagerHolds, WorkerHolds, Owners, Handled
  <2> QED BY <2>1, ManagerTyped, ManagerOwners, WorkerTyped, WorkerOwners DEF Next, IInv
<1>2. OneTypePerSocket' /\ PopMissesOnlyClosed'
  BY OneTypeKept, PopMissesKept DEF IInv
<1> QED BY <1>1, <1>2 DEF IInv

LEMMA Invariance == Spec => []IInv
BY InitIInv, NextIInv, PTL DEF Spec

(* The variables of the event loop have their types.                        *)
THEOREM TypeCorrect == Spec => []TypeOK
<1>1. IInv => TypeOK
  BY DEF IInv, Typed
<1> QED BY <1>1, Invariance, PTL

(* Every event object has one owner, so none is freed or handled twice and  *)
(* el_socket_close frees none that the manager or a worker uses.            *)
THEOREM OwnersCorrect == Spec => []SingleOwner
<1>1. IInv => SingleOwner
  BY SingleOwnerForm DEF IInv
<1> QED BY <1>1, Invariance, PTL

(* No two events of one type are registered for a socket, although req_push *)
(* and the manager's second registration race.                              *)
THEOREM OneTypeCorrect == Spec => []OneTypePerSocket
<1>1. IInv => OneTypePerSocket
  BY DEF IInv
<1> QED BY <1>1, Invariance, PTL

(* The pop of the manager misses an event, which kills the server, only if  *)
(* el_socket_close took events back since the snapshot was made.            *)
THEOREM PopCorrect == Spec => []PopMissesOnlyClosed
<1>1. IInv => PopMissesOnlyClosed
  BY DEF IInv
<1> QED BY <1>1, Invariance, PTL

-----------------------------------------------------------------------------
(* No write is forgotten.                                                   *)

(* Where an object goes that the manager gives up or that is registered no  *)
(* more.                                                                    *)
LEMMA Leaves ==
    ASSUME IInv, [Next]_vars, NEW e \in Events,
           e \in registered \cup {held}, e \notin registered' \cup {held'}
    PROVE  \/ /\ PushOccurred
              /\ e = held
           \/ /\ PushAgain
              /\ e = held /\ Registered(event[held].sock, "write")
           \/ \E w \in Workers, s \in Sockets :
                /\ CloseUnregister(w, s)
                /\ event[e].sock = s
<1> USE DEF IInv, Typed, TypeOK, ManagerHolds
<1>1. ASSUME NEW f \in Events, AcceptClient(f)  PROVE FALSE
  BY <1>1, EventLoopAssumption DEF AcceptClient
<1>2. ASSUME NEW s \in Sockets, NEW type \in IOTypes, NEW f \in Events, PopRegistered(s, type, f)
      PROVE  FALSE
  BY <1>2, EventLoopAssumption DEF PopRegistered
<1>3. CASE PushOccurred
  BY <1>3 DEF PushOccurred
<1>4. CASE PushAgain
  BY <1>4 DEF PushAgain
<1>5. ASSUME NEW w \in Workers, NEW s \in Sockets, CloseUnregister(w, s)
      PROVE  event[e].sock = s
  BY <1>5 DEF CloseUnregister
<1> QED
  BY <1>1, <1>2, <1>3, <1>4, <1>5
  DEF Next, Manager, Run, HandlerCalls, vars, SockReady, pr_create_pollfd, Poll, Recv, Send,
      EndOfStep, TakeOccurred, NothingOccurred, CloseDescriptor, TimerHandlers, CloseDirectly,
      PopNothing, HandlerReturns, CloseEnqueue, el_async

(* An unfinished write leaves the loop only for the occurred events, for a  *)
(* newer write of its socket, or when its socket is closed: the write of a  *)
(* reply is not lost between the manager's send and its req_push.           *)
THEOREM WritesKept == Spec => WriteNotForgotten
<1> DEFINE Gone(e) == /\ e \in registered \cup {held} /\ event[e].type = "write"
                      /\ e \notin registered' \cup {held'} /\ ~Queued(e)'
<1> DEFINE Excused(e) ==
      \/ Registered(event[e].sock, "write")'
      \/ \E w \in Workers : worker'[w].pc = "close" /\ worker'[w].sock = event[e].sock
<1>1. ASSUME IInv, [Next]_vars  PROVE \A e \in Events : Gone(e) => Excused(e)
  <2> SUFFICES ASSUME NEW e \in Events, Gone(e)  PROVE Excused(e)
    OBVIOUS
  <2> USE <1>1 DEF IInv, Typed, TypeOK
  <2>1. CASE PushOccurred /\ e = held
    <3>1. In(occurred', e)
      BY <2>1, InAppend DEF PushOccurred
    <3> QED BY <3>1 DEF In, Queued
  <2>2. CASE PushAgain /\ e = held /\ Registered(event[held].sock, "write")
    BY <2>2 DEF PushAgain, Registered, IsFor
  <2>3. ASSUME NEW w \in Workers, NEW s \in Sockets, CloseUnregister(w, s), event[e].sock = s
        PROVE  Excused(e)
    BY <2>3 DEF CloseUnregister
  <2> QED BY <2>1, <2>2, <2>3, Leaves
<1>2. IInv /\ [Next]_vars => [\A e \in Events : Gone(e) => Excused(e)]_vars
  BY <1>1
<1> QED BY <1>2, Invariance, PTL DEF Spec, WriteNotForgotten

-----------------------------------------------------------------------------
(* The loop implements EventDelivery.                                       *)

(* The phase of an object says where it is.                                 *)
Phased ==
    \A e \in Events :
        /\ PhaseOf(e) = "handled" <=> Handled(e)
        /\ PhaseOf(e) = "arrived" <=> In(occurred, e)
        /\ PhaseOf(e) = "waiting" <=> e \in registered \cup {held}
        /\ PhaseOf(e) \in {"handled", "arrived", "waiting", "free"}

LEMMA PhaseIs == Owners => Phased
<1> SUFFICES ASSUME Owners, NEW e \in Events
             PROVE  /\ PhaseOf(e) = "handled" <=> Handled(e)
                    /\ PhaseOf(e) = "arrived" <=> In(occurred, e)
                    /\ PhaseOf(e) = "waiting" <=> e \in registered \cup {held}
                    /\ PhaseOf(e) \in {"handled", "arrived", "waiting", "free"}
  BY DEF Phased
<1>1. ~(Handled(e) /\ In(occurred, e)) /\ ~(Handled(e) /\ e \in registered \cup {held})
      /\ ~(In(occurred, e) /\ e \in registered \cup {held})
  BY EventLoopAssumption DEF Owners, Handled
<1> QED BY <1>1, SingleOwnerForm DEF PhaseOf

(* Objects whose owners are the same have the same phase.                   *)
LEMMA SamePhase ==
    ASSUME Phased, Phased', NEW e \in Events,
           Handled(e)' <=> Handled(e),
           In(occurred, e)' <=> In(occurred, e),
           e \in registered' \cup {held'} <=> e \in registered \cup {held}
    PROVE  PhaseOf(e)' = PhaseOf(e)
BY DEF Phased

(* A step that moves no object is a stutter.                                *)
LEMMA Stutters ==
    ASSUME Phased, Phased', UNCHANGED occurred,
           \A v \in Workers : worker'[v].ev = worker[v].ev,
           \A e \in Events : e \in registered' \cup {held'} <=> e \in registered \cup {held}
    PROVE  UNCHANGED Delivery!dvars
<1>1. ASSUME NEW e \in Events  PROVE PhaseOf(e)' = PhaseOf(e)
  BY SamePhase, SameHandled
<1> QED BY <1>1 DEF Delivery!dvars

(* A step after which the objects of a set are owned by nobody cancels      *)
(* them.                                                                    *)
LEMMA Cancels ==
    ASSUME Phased, Phased', UNCHANGED occurred,
           \A v \in Workers : worker'[v].ev = worker[v].ev,
           NEW S \in SUBSET (registered \cup {held}), S \subseteq Events,
           S \cap (registered' \cup {held'}) = {},
           \A e \in Events \ S :
               e \in registered' \cup {held'} <=> e \in registered \cup {held}
    PROVE  Delivery!Cancel(S)
<1>1. ASSUME NEW e \in Events \ S  PROVE PhaseOf(e)' = PhaseOf(e)
  BY <1>1, SamePhase, SameHandled
<1>2. ASSUME NEW e \in S  PROVE PhaseOf(e) = "waiting" /\ PhaseOf(e)' = "free"
  BY <1>2, SameHandled DEF Phased
<1> QED BY <1>1, <1>2 DEF Delivery!Cancel

(* A free object that is registered, or taken by the manager, waits.        *)
LEMMA Registers ==
    ASSUME Phased, Phased', UNCHANGED occurred,
           \A v \in Workers : worker'[v].ev = worker[v].ev,
           NEW e \in Free, e \in registered' \cup {held'},
           \A f \in Events \ {e} :
               f \in registered' \cup {held'} <=> f \in registered \cup {held}
    PROVE  Delivery!Register(e)
<1>1. ASSUME NEW f \in Events \ {e}  PROVE PhaseOf(f)' = PhaseOf(f)
  BY <1>1, SamePhase, SameHandled
<1>2. PhaseOf(e) = "free" /\ PhaseOf(e)' = "waiting" /\ e \in Events
  BY FreeUnowned DEF Phased
<1> QED BY <1>1, <1>2 DEF Delivery!Register

(* An object that is appended to the occurred events occurs.                *)
LEMMA Occurs ==
    ASSUME Phased, Phased', occurred \in Seq(Events),
           \A v \in Workers : worker'[v].ev = worker[v].ev,
           NEW e \in Events, occurred' = Append(occurred, e),
           ~In(occurred, e), ~Handled(e),
           \A f \in Events \ {e} :
               f \in registered' \cup {held'} <=> f \in registered \cup {held}
    PROVE  Delivery!Occur(e)
<1>1. \A f : In(occurred', f) <=> In(occurred, f) \/ f = e
  BY InAppend
<1>2. ASSUME NEW f \in Events \ {e}  PROVE PhaseOf(f)' = PhaseOf(f)
  BY <1>1, <1>2, SamePhase, SameHandled
<1>3. PhaseOf(e) \in {"waiting", "free"} /\ PhaseOf(e)' = "arrived"
  BY <1>1 DEF Phased
<1> QED BY <1>2, <1>3 DEF Delivery!Occur

(* Every step of the manager is a step of EventDelivery or a stutter.       *)
LEMMA ManagerDelivers ==
    ASSUME IInv, IInv', Phased, Phased', SockReady \/ Manager
    PROVE  [Delivery!DeliveryNext]_(Delivery!dvars)
<1> USE DEF IInv, Typed, TypeOK, ManagerHolds
<1>1. CASE SockReady \/ pr_create_pollfd \/ Poll \/ Recv \/ Send \/ EndOfStep
  BY <1>1, Stutters DEF SockReady, pr_create_pollfd, Poll, Recv, Send, EndOfStep
<1>2. CASE PushOccurred
  <2>1. held \in Events /\ ~In(occurred, held) /\ ~Handled(held)
    BY <1>2, EventLoopAssumption DEF PushOccurred, Owners, Handled
  <2>2. Delivery!Occur(held)
    BY <1>2, <2>1, Occurs, EventLoopAssumption DEF PushOccurred
  <2> QED BY <2>1, <2>2 DEF Delivery!DeliveryNext
<1>3. CASE PushAgain
  <2>1. CASE registered' = registered
    <3>1. {held} \subseteq Events /\ {held} \cap (registered' \cup {held'}) = {}
      BY <1>3, <2>1, EventLoopAssumption DEF PushAgain, Owners
    <3>2. Delivery!Cancel({held})
      BY <1>3, <2>1, <3>1, Cancels, EventLoopAssumption DEF PushAgain
    <3> QED BY <3>1, <3>2 DEF Delivery!DeliveryNext
  <2>2. CASE registered' = registered \cup {held}
    BY <1>3, <2>2, Stutters, EventLoopAssumption DEF PushAgain
  <2> QED BY <1>3, <2>1, <2>2 DEF PushAgain
<1>4. ASSUME NEW e \in Events, AcceptClient(e)
      PROVE  Delivery!DeliveryNext
  <2>1. Delivery!Register(e)
    BY <1>4, Registers, EventLoopAssumption DEF AcceptClient
  <2> QED BY <2>1 DEF Delivery!DeliveryNext
<1>5. ASSUME NEW s \in Sockets, NEW type \in IOTypes, PopNothing(s, type)
      PROVE  UNCHANGED Delivery!dvars
  BY <1>5, Stutters DEF PopNothing
<1>6. ASSUME NEW s \in Sockets, NEW type \in IOTypes, NEW e \in Events, PopRegistered(s, type, e)
      PROVE  UNCHANGED Delivery!dvars
  BY <1>6, Stutters, EventLoopAssumption DEF PopRegistered
<1> QED BY <1>1, <1>2, <1>3, <1>4, <1>5, <1>6 DEF Manager

(* Every step of a worker is.                                               *)
LEMMA WorkerDelivers ==
    ASSUME IInv, IInv', Phased, Phased', NEW w \in Workers,
           Run(w) \/ TimerHandlers(w) \/ HandlerCalls(w)
    PROVE  [Delivery!DeliveryNext]_(Delivery!dvars)
<1> USE DEF IInv, Typed, TypeOK, WorkerHolds
<1>1. CASE TakeOccurred(w)
  <2>0. PICK h \in Events : h = Head(occurred)
    BY <1>1, InTail DEF TakeOccurred
  <2>1. /\ occurred # <<>> /\ h \in Events /\ h # NULL /\ occurred' = Tail(occurred)
        /\ \A e : In(occurred, e) <=> In(occurred', e) \/ e = h
    BY <1>1, <2>0, InTail, EventLoopAssumption DEF TakeOccurred
  <2>2. /\ worker[w].ev = NULL /\ worker'[w].ev = h
        /\ \A v \in Workers \ {w} : worker'[v] = worker[v]
        /\ UNCHANGED <<registered, held>>
    BY <1>1, <2>0 DEF TakeOccurred, WorkerState
  <2>3. \A e \in Events : Handled(e)' <=> Handled(e) \/ e = h
    <3>1. \A e \in Events, v \in Workers \ {w} : worker'[v].ev = e <=> worker[v].ev = e
      BY <2>2
    <3>2. \A e \in Events : worker'[w].ev = e <=> e = h
      BY <2>2
    <3>3. \A e \in Events : worker[w].ev # e
      BY <2>2, EventLoopAssumption
    <3> QED BY <3>1, <3>2, <3>3 DEF Handled
  <2>4. ASSUME NEW e \in Events \ {h}  PROVE PhaseOf(e)' = PhaseOf(e)
    BY <2>1, <2>2, <2>3, <2>4, SamePhase
  <2>5. PhaseOf(h)' = "handled"
    BY <2>1, <2>3 DEF Phased
  <2>6. Delivery!Handle
    BY <2>0, <2>1, <2>4, <2>5 DEF Delivery!Handle
  <2> QED BY <2>6 DEF Delivery!DeliveryNext
<1>2. CASE NothingOccurred(w) \/ TimerHandlers(w) \/ CloseDescriptor(w)
  <2>1. PICK pc : worker' = [worker EXCEPT ![w].pc = pc]
    BY <1>2 DEF NothingOccurred, TimerHandlers, CloseDescriptor
  <2>2. \A v \in Workers : worker'[v].ev = worker[v].ev
    BY <2>1 DEF WorkerState
  <2>3. UNCHANGED <<occurred, registered, held>>
    BY <1>2 DEF NothingOccurred, TimerHandlers, CloseDescriptor
  <2> QED BY <2>2, <2>3, Stutters
<1>3. CASE HandlerReturns(w)
  <2>1. /\ worker'[w].ev = NULL /\ \A v \in Workers \ {w} : worker'[v] = worker[v]
        /\ UNCHANGED <<registered, held, occurred>>
    BY <1>3 DEF HandlerReturns, IdleWorker
  <2>2. CASE worker[w].ev = NULL
    <3>1. \A v \in Workers : worker'[v].ev = worker[v].ev
      BY <2>1, <2>2
    <3> QED BY <2>1, <3>1, Stutters
  <2>3. CASE worker[w].ev # NULL
    <3> DEFINE e == worker[w].ev
    <3>1. e \in Events /\ e # NULL /\ Handled(e)
      BY <2>3 DEF WorkerState, Handled
    <3>2. \A f \in Events : Handled(f)' <=> Handled(f) /\ f # e
      BY <2>1, <2>3, EventLoopAssumption DEF Handled, Owners
    <3>3. ASSUME NEW f \in Events \ {e}  PROVE PhaseOf(f)' = PhaseOf(f)
      BY <2>1, <3>2, <3>3, SamePhase
    <3>4. PICK h \in Events : h = e
      BY <3>1
    <3>5. PhaseOf(h) = "handled" /\ PhaseOf(h)' = "free"
      BY <2>1, <3>1, <3>2, <3>4 DEF Phased
    <3>6. Delivery!Finish(h)
      BY <2>1, <3>3, <3>4, <3>5 DEF Delivery!Finish
    <3> QED BY <3>6 DEF Delivery!DeliveryNext
  <2> QED BY <2>2, <2>3
<1>4. ASSUME NEW e \in Events, CloseEnqueue(w, e)  PROVE Delivery!DeliveryNext
  <2>1. ~In(occurred, e) /\ ~Handled(e) /\ occurred' = Append(occurred, e)
        /\ UNCHANGED <<registered, held>>
    BY <1>4, FreeUnowned DEF CloseEnqueue
  <2>2. \A v \in Workers : worker'[v].ev = worker[v].ev
    BY <1>4 DEF CloseEnqueue, WorkerState
  <2>3. Delivery!Occur(e)
    BY <2>1, <2>2, Occurs
  <2> QED BY <2>3 DEF Delivery!DeliveryNext
<1>5. ASSUME NEW s \in Sockets, CloseUnregister(w, s)  PROVE Delivery!DeliveryNext
  <2>1. PICK S \in SUBSET registered : S = {e \in registered : event[e].sock = s}
    OBVIOUS
  <2>2. /\ registered' = registered \ S /\ UNCHANGED <<occurred, held>>
        /\ \A v \in Workers : worker'[v].ev = worker[v].ev
    BY <1>5, <2>1 DEF CloseUnregister, WorkerState
  <2>3. S \cap (registered' \cup {held'}) = {} /\ S \subseteq Events
    BY <2>1, <2>2 DEF Owners
  <2>4. Delivery!Cancel(S)
    BY <2>2, <2>3, Cancels
  <2> QED BY <2>3, <2>4 DEF Delivery!DeliveryNext
<1>6. ASSUME NEW s \in Sockets, CloseDirectly(w, s)  PROVE UNCHANGED Delivery!dvars
  BY <1>6, Stutters DEF CloseDirectly
<1>7. ASSUME NEW s \in Sockets, NEW type \in IOTypes, NEW e \in Events, el_async(w, s, type, e)
      PROVE  Delivery!DeliveryNext
  <2>1. Delivery!Register(e)
    BY <1>7, Registers DEF el_async
  <2> QED BY <1>7, <2>1 DEF Delivery!DeliveryNext
<1> QED BY <1>1, <1>2, <1>3, <1>4, <1>5, <1>6, <1>7 DEF Run, HandlerCalls

(* Handlers are called once per registration, in the order in which the     *)
(* events occurred, whatever closes and registrations race with the         *)
(* manager: the event loop implements EventDelivery.                        *)
THEOREM LoopImplementsDelivery == Spec => ImplementsDelivery
<1>1. Init => Delivery!DeliveryInit
  BY SingleOwnerForm, EventLoopAssumption
  DEF Init, Delivery!DeliveryInit, PhaseOf, Handled, In, IdleWorker
<1>2. IInv => Phased
  BY PhaseIs DEF IInv
<1>3. IInv /\ IInv' /\ Phased /\ Phased' /\ [Next]_vars => [Delivery!DeliveryNext]_(Delivery!dvars)
  <2>1. ASSUME Phased, Phased', UNCHANGED vars  PROVE UNCHANGED Delivery!dvars
    BY <2>1, Stutters DEF vars
  <2> QED BY <2>1, ManagerDelivers, WorkerDelivers DEF Next
<1> QED BY <1>1, <1>2, <1>3, Invariance, PTL DEF Spec, ImplementsDelivery, Delivery!DeliverySpec
================================================================================
