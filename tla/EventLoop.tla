------------------------------- MODULE EventLoop ------------------------------
(***************************************************************************)
(* The socket events of the server's event loop (event_loop.c and its two   *)
(* queues).  The manager thread snapshots the registered events into an     *)
(* array for poll, and for every ready descriptor takes the event out of    *)
(* the registered events, performs the I/O and appends the event to the     *)
(* occurred events.  Worker threads take occurred events from the front     *)
(* and call their handlers, which register further events, and close        *)
(* sockets, while the manager works on its older snapshot.                  *)
(***************************************************************************)
EXTENDS Naturals, Sequences, FiniteSets

CONSTANTS
    Workers,    \* the threads that call el_run
    Sockets,    \* the descriptors accept can return
    Listener,   \* the listening descriptor given to el_async_accept
    Events,     \* the addresses malloc can return for an event object
    NULL        \* the null pointer, also an invalid descriptor

ASSUME EventLoopAssumption ==
    /\ Listener \notin Sockets
    /\ NULL \notin Events \cup Sockets \cup {Listener}

VARIABLES
    event,       \* the fields of every event object
    registered,  \* _registered_events: the objects in it
    occurred,    \* _occurred_events, oldest first
    polled,      \* the manager's array: the (descriptor, type) pairs left to serve
    manager,     \* where the manager thread is
    held,        \* the object the manager has taken out and not yet queued
    worker,      \* where each worker is, and the object it handles
    open,        \* the client descriptors the process has open
    ready,       \* the (descriptor, type) pairs on which I/O would not block
    dropped      \* history: the pairs el_socket_close took back since the snapshot

vars == <<event, registered, occurred, polled, manager, held, worker,
          open, ready, dropped>>

Descriptors == Sockets \cup {Listener}
EventTypes == {"accept", "read", "write", "close"}
IOTypes == {"read", "write"}

(* The buffer, the status and the error of an event are left out: they go   *)
(* to the handler, and no step of the loop looks at them.                   *)
Event == [type : EventTypes, sock : Descriptors]

NewEvent(s, type) == [type |-> type, sock |-> s]

Blank == NewEvent(Listener, "accept")

(* "build": pr_create_pollfd.  "poll": in poll.  "serve": the loop over the *)
(* array.  "io": an event is taken out, recv or send comes next.  "queue":  *)
(* about to append it to the occurred events.  "again": about to register   *)
(* it again.  "fault": it dereferenced a null event; the process is dead.   *)
ManagerControl == {"build", "poll", "serve", "io", "queue", "again", "fault"}

(* "idle": at the start of el_run.  "take": past the timers, about to look  *)
(* at the occurred events.  "handle": in the handler of an event, or of the *)
(* due timers if there is no event.                                         *)
(* "close", "enqueue": inside el_socket_close, before close(sock), before   *)
(* the close event is queued.                                               *)
WorkerControl == {"idle", "take", "handle", "close", "enqueue"}

WorkerState == [pc : WorkerControl, ev : Events \cup {NULL}, sock : Sockets \cup {NULL}]

IdleWorker == [pc |-> "idle", ev |-> NULL, sock |-> NULL]

-----------------------------------------------------------------------------
(* Where an event object is.                                                *)

Queued(e) == \E i \in DOMAIN occurred : occurred[i] = e
Handled(e) == \E w \in Workers : worker[w].ev = e

(* An object that is leaked keeps its address for ever; reusing its name    *)
(* instead keeps the instances small and changes nothing the threads see.   *)
Free == {e \in Events : e \notin registered /\ e # held /\ ~Queued(e) /\ ~Handled(e)}

(* Bound of the instances: malloc never fails, so a worker already inside   *)
(* el_socket_close must be left an object.                                  *)
Spare == Cardinality(Free) > Cardinality({w \in Workers : worker[w].pc \in {"close", "enqueue"}})

(* The registered object of a pair, the one pr_req_pop takes out.           *)
IsFor(e, s, type) == event[e].sock = s /\ event[e].type = type
Registered(s, type) == \E e \in registered : IsFor(e, s, type)

Init ==
    /\ event = [e \in Events |-> Blank]
    /\ registered = {}
    /\ occurred = <<>>
    /\ polled = {}
    /\ manager = "build"
    /\ held = NULL
    /\ worker = [w \in Workers |-> IdleWorker]
    /\ open = {}
    /\ ready = {}
    /\ dropped = {}

-----------------------------------------------------------------------------
(* The kernel: a descriptor becomes readable (data, end of file, an error   *)
(* or a pending connection) or writable.                                    *)
SockReady ==
    /\ \/ \E s \in open, type \in IOTypes : ready' = ready \cup {<<s, type>>}
       \/ ready' = ready \cup {<<Listener, "accept">>}
    /\ UNCHANGED <<event, registered, occurred, polled, manager, held, worker,
                   open, dropped>>

-----------------------------------------------------------------------------
(* The manager thread: pr_manager_step.                                     *)

(* Wrong: every descriptor is polled for reading and for writing.           *)
PollBothWays ==
    /\ manager = "build"
    /\ manager' = "poll"
    /\ polled' = {event[e].sock : e \in registered} \X IOTypes \cup {<<Listener, "accept">>}
    /\ dropped' = {}
    /\ UNCHANGED <<event, registered, occurred, held, worker, open, ready>>

(* pr_create_pollfd, under _mutex_registered_events.                        *)
pr_create_pollfd ==
    /\ manager = "build"
    /\ manager' = "poll"
    /\ polled' = {<<event[e].sock, event[e].type>> : e \in registered}
                    \cup {<<Listener, "accept">>}
    /\ dropped' = {}
    /\ UNCHANGED <<event, registered, occurred, held, worker, open, ready>>

(* Wrong: a descriptor both readable and writable is only written to.       *)
PollWriteFirst ==
    /\ manager = "poll"
    /\ manager' = "serve"
    /\ LET revents == polled \cap ready
       IN  polled' = {p \in revents : p[2] = "read" => <<p[1], "write">> \notin revents}
    /\ UNCHANGED <<event, registered, occurred, held, worker, open, ready, dropped>>

(* poll with a timeout.  POLLNVAL of a closed descriptor is ignored, and a  *)
(* descriptor both readable and writable is only read from.                 *)
Poll ==
    /\ manager = "poll"
    /\ manager' = "serve"
    /\ LET revents == polled \cap ready
       IN  polled' = {p \in revents : p[2] = "write" => <<p[1], "read">> \notin revents}
    /\ UNCHANGED <<event, registered, occurred, held, worker, open, ready, dropped>>

(* pr_create_pollin_event for the listening descriptor, the last of the     *)
(* array: accept a connection, or fail; either way an accept event is made. *)
AcceptClient(e) ==
    /\ manager = "serve"
    /\ polled = {<<Listener, "accept">>}
    /\ Spare
    /\ e \in Free
    /\ polled' = {}
    /\ ready' = ready \ {<<Listener, "accept">>}
    /\ event' = [event EXCEPT ![e] = NewEvent(Listener, "accept")]
    /\ \/ \E c \in Sockets \ open : open' = open \cup {c}
       \/ UNCHANGED open
    /\ held' = e
    /\ manager' = "queue"
    /\ UNCHANGED <<registered, occurred, worker, dropped>>

(* Wrong: the object is found and left in the registered events.            *)
PeekRegistered(s, type, e) ==
    /\ manager = "serve"
    /\ <<s, type>> \in polled
    /\ type \in IOTypes
    /\ polled' = polled \ {<<s, type>>}
    /\ e \in registered
    /\ IsFor(e, s, type)
    /\ held' = e
    /\ manager' = "io"
    /\ UNCHANGED <<registered, event, occurred, worker, open, ready, dropped>>

(* req_pop_read or req_pop_write for a ready pair: the object leaves the    *)
(* registered events, under the mutex.                                      *)
PopRegistered(s, type, e) ==
    /\ manager = "serve"
    /\ <<s, type>> \in polled
    /\ type \in IOTypes
    /\ polled' = polled \ {<<s, type>>}
    /\ e \in registered
    /\ IsFor(e, s, type)
    /\ registered' = registered \ {e}
    /\ held' = e
    /\ manager' = "io"
    /\ UNCHANGED <<event, occurred, worker, open, ready, dropped>>

(* The pop returned NULL and the manager uses it: ptr->offset.              *)
PopNothing(s, type) ==
    /\ manager = "serve"
    /\ <<s, type>> \in polled
    /\ type \in IOTypes
    /\ ~Registered(s, type)
    /\ manager' = "fault"
    /\ UNCHANGED <<event, registered, occurred, polled, held, worker, open, ready, dropped>>

(* recv until the buffer is full or it would block, or until it fails: in   *)
(* every case the event occurs, and input may be left.                      *)
Recv ==
    /\ manager = "io"
    /\ event[held].type = "read"
    /\ \/ ready' = ready \ {<<event[held].sock, "read">>}
       \/ ready' = ready
    /\ manager' = "queue"
    /\ UNCHANGED <<event, registered, occurred, polled, held, worker, open, dropped>>

(* Wrong: a write that would block is given up.                             *)
SendOnce ==
    /\ manager = "io"
    /\ event[held].type = "write"
    /\ LET s == event[held].sock
       IN  \/ /\ s \in open => <<s, "write">> \in ready
              /\ manager' = "queue"
              /\ UNCHANGED <<ready, held>>
           \/ /\ s \in open
              /\ ready' = ready \ {<<s, "write">>}
              /\ manager' = "serve"
              /\ held' = NULL
    /\ UNCHANGED <<event, registered, occurred, polled, worker, open, dropped>>

(* send until everything is written or it fails: the event occurs.  On an   *)
(* open descriptor it may also stop because it would block.                 *)
Send ==
    /\ manager = "io"
    /\ event[held].type = "write"
    /\ LET s == event[held].sock
       IN  \/ /\ s \in open => <<s, "write">> \in ready
              /\ manager' = "queue"
              /\ UNCHANGED ready
           \/ /\ s \in open
              /\ ready' = ready \ {<<s, "write">>}
              /\ manager' = "again"
    /\ UNCHANGED <<event, registered, occurred, polled, held, worker, open, dropped>>

(* Wrong: the event goes to the front of the occurred events.               *)
PushFront ==
    /\ manager = "queue"
    /\ occurred' = <<held>> \o occurred
    /\ held' = NULL
    /\ manager' = "serve"
    /\ UNCHANGED <<event, registered, polled, worker, open, ready, dropped>>

(* oeq_push_back, under _mutex_occurred_events.                             *)
PushOccurred ==
    /\ manager = "queue"
    /\ occurred' = Append(occurred, held)
    /\ held' = NULL
    /\ manager' = "serve"
    /\ UNCHANGED <<event, registered, polled, worker, open, ready, dropped>>

(* Wrong: the unfinished write is registered beside a newer one.            *)
PushBeside ==
    /\ manager = "again"
    /\ registered' = registered \cup {held}
    /\ held' = NULL
    /\ manager' = "serve"
    /\ UNCHANGED <<event, occurred, polled, worker, open, ready, dropped>>

(* req_push_write of an unfinished write.  If somebody registered another   *)
(* write for the socket meanwhile, the push fails and the object is leaked. *)
PushAgain ==
    /\ manager = "again"
    /\ registered' = IF Registered(event[held].sock, "write")
                     THEN registered ELSE registered \cup {held}
    /\ held' = NULL
    /\ manager' = "serve"
    /\ UNCHANGED <<event, occurred, polled, worker, open, ready, dropped>>

EndOfStep ==
    /\ manager = "serve"
    /\ polled = {}
    /\ manager' = "build"
    /\ UNCHANGED <<event, registered, occurred, polled, held, worker, open, ready, dropped>>

Manager ==
    \/ pr_create_pollfd \/ Poll \/ Recv \/ Send \/ PushOccurred \/ PushAgain \/ EndOfStep
    \/ \E e \in Events : AcceptClient(e)
    \/ \E s \in Sockets, type \in IOTypes :
        \/ PopNothing(s, type)
        \/ \E e \in Events : PopRegistered(s, type, e)

-----------------------------------------------------------------------------
(* The worker threads: el_run and the calls made by handlers.               *)

(* The timer pass comes first; the handlers it runs use the same calls,     *)
(* for any socket they remember.                                            *)
TimerHandlers(w) ==
    /\ worker[w].pc = "idle"
    /\ worker' = [worker EXCEPT ![w].pc = "handle"]
    /\ UNCHANGED <<event, registered, occurred, polled, manager, held, open, ready, dropped>>

(* Wrong: the event that occurred last is taken.                            *)
TakeLast(w) ==
    /\ worker[w].pc \in {"idle", "take"}
    /\ occurred # <<>>
    /\ worker' = [worker EXCEPT ![w] =
                    [@ EXCEPT !.pc = "handle", !.ev = occurred[Len(occurred)]]]
    /\ occurred' = SubSeq(occurred, 1, Len(occurred) - 1)
    /\ UNCHANGED <<event, registered, polled, manager, held, open, ready, dropped>>

(* oeq_pop_begin and the call of the handler.                               *)
TakeOccurred(w) ==
    /\ worker[w].pc \in {"idle", "take"}
    /\ occurred # <<>>
    /\ worker' = [worker EXCEPT ![w] = [@ EXCEPT !.pc = "handle", !.ev = Head(occurred)]]
    /\ occurred' = Tail(occurred)
    /\ UNCHANGED <<event, registered, polled, manager, held, open, ready, dropped>>

(* el_run returns NOT_FOUND.                                                *)
NothingOccurred(w) ==
    /\ worker[w].pc = "take"
    /\ occurred = <<>>
    /\ worker' = [worker EXCEPT ![w].pc = "idle"]
    /\ UNCHANGED <<event, registered, occurred, polled, manager, held, open, ready, dropped>>

(* The handler returns; the event object, if there is one, is freed.        *)
HandlerReturns(w) ==
    /\ worker[w].pc = "handle"
    /\ worker' = [worker EXCEPT ![w] =
                    [IdleWorker EXCEPT !.pc = IF worker[w].ev = NULL THEN "take" ELSE "idle"]]
    /\ event' = [e \in Events |-> IF e = worker[w].ev THEN Blank ELSE event[e]]
    /\ UNCHANGED <<registered, occurred, polled, manager, held, open, ready, dropped>>

(* el_async_read and el_async_write: allocate, fill, register.  A second    *)
(* registration of the same type fails: the caller gets EXISTS and the      *)
(* object is leaked, the loop is as before.                                 *)
el_async(w, s, type, e) ==
    /\ worker[w].pc = "handle"
    /\ ~Registered(s, type)
    /\ Spare
    /\ e \in Free
    /\ event' = [event EXCEPT ![e] = NewEvent(s, type)]
    /\ registered' = registered \cup {e}
    /\ UNCHANGED <<occurred, polled, manager, held, worker, open, ready, dropped>>

(* Wrong: the closing forgets which descriptor it closes.                   *)
UnregisterOnly(w, s) ==
    /\ worker[w].pc = "handle"
    /\ Spare
    /\ LET mine == {e \in registered : event[e].sock = s}
       IN  /\ registered' = registered \ mine
           /\ event' = [e \in Events |-> IF e \in mine THEN Blank ELSE event[e]]
           /\ dropped' = dropped \cup {<<s, event[e].type>> : e \in mine}
    /\ worker' = [worker EXCEPT ![w].pc = "close"]
    /\ UNCHANGED <<occurred, polled, manager, held, open, ready>>

(* el_socket_close in its three steps: take the registered events back and  *)
(* free them, close the descriptor, queue the close event.                  *)
CloseUnregister(w, s) ==
    /\ worker[w].pc = "handle"
    /\ Spare
    /\ LET mine == {e \in registered : event[e].sock = s}
       IN  /\ registered' = registered \ mine
           /\ event' = [e \in Events |-> IF e \in mine THEN Blank ELSE event[e]]
           /\ dropped' = dropped \cup {<<s, event[e].type>> : e \in mine}
    /\ worker' = [worker EXCEPT ![w] = [@ EXCEPT !.pc = "close", !.sock = s]]
    /\ UNCHANGED <<occurred, polled, manager, held, open, ready>>

CloseDescriptor(w) ==
    /\ worker[w].pc = "close"
    /\ open' = open \ {worker[w].sock}
    /\ ready' = {p \in ready : p[1] # worker[w].sock}
    /\ worker' = [worker EXCEPT ![w].pc = "enqueue"]
    /\ UNCHANGED <<event, registered, occurred, polled, manager, held, dropped>>

CloseEnqueue(w, e) ==
    /\ worker[w].pc = "enqueue"
    /\ e \in Free
    /\ event' = [event EXCEPT ![e] = NewEvent(worker[w].sock, "close")]
    /\ occurred' = Append(occurred, e)
    /\ worker' = [worker EXCEPT ![w] = [@ EXCEPT !.pc = "handle", !.sock = NULL]]
    /\ UNCHANGED <<registered, polled, manager, held, open, ready, dropped>>

(* A handler closes the descriptor without the loop (handler_write, QUIT).  *)
CloseDirectly(w, s) ==
    /\ worker[w].pc = "handle"
    /\ s \in open
    /\ open' = open \ {s}
    /\ ready' = {p \in ready : p[1] # s}
    /\ UNCHANGED <<event, registered, occurred, polled, manager, held, worker, dropped>>

(* What a worker does by itself; a handler's calls are its own choice.      *)
Run(w) ==
    \/ TakeOccurred(w) \/ NothingOccurred(w) \/ HandlerReturns(w) \/ CloseDescriptor(w)
    \/ \E e \in Events : CloseEnqueue(w, e)

HandlerCalls(w) ==
    \E s \in Sockets :
        \/ CloseUnregister(w, s)
        \/ CloseDirectly(w, s)
        \/ \E type \in IOTypes, e \in Events : el_async(w, s, type, e)

Alive == manager # "fault"

Next ==
    /\ Alive
    /\ \/ SockReady
       \/ Manager
       \/ \E w \in Workers : Run(w) \/ TimerHandlers(w) \/ HandlerCalls(w)

Spec == Init /\ [][Next]_vars

(* The manager and the workers keep running, and a handler does not make    *)
(* calls for ever: it returns.                                              *)
FairSpec ==
    /\ Spec
    /\ WF_vars(Alive /\ Manager)
    /\ \A w \in Workers : /\ WF_vars(Alive /\ Run(w))
                          /\ SF_vars(Alive /\ HandlerReturns(w))

-----------------------------------------------------------------------------
(* Properties.                                                              *)

(* The variables have their types.                                          *)
TypeOK ==
    /\ event \in [Events -> Event]
    /\ registered \subseteq Events
    /\ occurred \in Seq(Events)
    /\ polled \subseteq Descriptors \X EventTypes
    /\ manager \in ManagerControl
    /\ held \in Events \cup {NULL}
    /\ worker \in [Workers -> WorkerState]
    /\ open \subseteq Sockets
    /\ ready \subseteq Descriptors \X EventTypes
    /\ dropped \subseteq Descriptors \X EventTypes

(* Every event object has one owner: the registered events, the manager,    *)
(* one place of the occurred events or one worker.  Nothing is freed twice, *)
(* handled twice, or freed by el_socket_close while the manager uses it.    *)
SingleOwner ==
    /\ \A e \in registered : e # held /\ ~Queued(e) /\ ~Handled(e)
    /\ \A i, j \in DOMAIN occurred : occurred[i] = occurred[j] => i = j
    /\ \A i \in DOMAIN occurred : occurred[i] # held /\ ~Handled(occurred[i])
    /\ \A v, w \in Workers :
         worker[v].ev # NULL => worker[v].ev # held /\ (worker[v].ev = worker[w].ev => v = w)

(* At most one event of a type is registered for a socket                   *)
(* (registered_events_queue.h:44), although a worker may register one while *)
(* the manager is about to put an unfinished write back.                    *)
OneTypePerSocket ==
    \A e, f \in registered :
        event[e].sock = event[f].sock /\ event[e].type = event[f].type => e = f

(* The manager serves a snapshot that other threads have outdated, and does *)
(* not check what the pop returns.  Only el_socket_close makes a polled     *)
(* event disappear: for every other pair the pop finds an event.            *)
PopMissesOnlyClosed ==
    /\ \A s \in Sockets, type \in IOTypes :
         /\ manager \in {"poll", "serve", "io", "queue", "again"}
         /\ <<s, type>> \in polled
         => Registered(s, type) \/ <<s, type>> \in dropped
    /\ manager = "fault" => dropped # {}

(* An unfinished write leaves the loop without its handler being called     *)
(* only if el_socket_close takes it, or a newer write of the same socket    *)
(* is registered in its place: a socket is never left without the write     *)
(* that was asked for.                                                      *)
WriteNotForgotten ==
    [][\A e \in Events :
         /\ e \in registered \cup {held} /\ event[e].type = "write"
         /\ e \notin registered' \cup {held'} /\ ~Queued(e)'
         => \/ Registered(event[e].sock, "write")'
            \/ \E w \in Workers : worker'[w].pc = "close" /\ worker'[w].sock = event[e].sock]_vars

(* The registered read of a socket that has input is served or taken back:  *)
(* the manager cannot be kept from it by traffic on other descriptors.      *)
ReadServed ==
    \A s \in Sockets :
        Registered(s, "read") /\ <<s, "read">> \in ready
            ~> ~Registered(s, "read") \/ <<s, "read">> \notin ready \/ ~Alive

(* An event that occurred is handled, although the workers also run timers  *)
(* and the queue may be found empty at any time (event_loop.c:382-414).     *)
OccurredHandled ==
    \A e \in Events : Queued(e) ~> Handled(e) \/ ~Alive

-----------------------------------------------------------------------------
(* The loop implements EventDelivery.                                       *)

PhaseOf(e) ==
    CASE Handled(e) -> "handled"
      [] Queued(e) -> "arrived"
      [] e \in registered \cup {held} -> "waiting"
      [] OTHER -> "free"

Delivery == INSTANCE EventDelivery
                WITH phase <- [e \in Events |-> PhaseOf(e)], arrived <- occurred

(* Handlers are called once per registration, in the order of occurrence    *)
(* (the registration is one-shot, as the design says).                      *)
ImplementsDelivery == Delivery!DeliverySpec
===============================================================================
