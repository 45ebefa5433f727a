-------------------------------- MODULE Server --------------------------------
(***************************************************************************)
(* The connections of the SMTP server: server.c with its list of users     *)
(* (users_list.c) and its list of timers (timers.c), above the event loop. *)
(* Worker threads run the handlers of the events that occurred and of the   *)
(* event loop's timers.  A handler is a sequence of calls, each atomic      *)
(* under some mutex; between two of them the other workers and the manager  *)
(* thread go on.  A worker gets a user by taking it OUT of the list, which  *)
(* is the only thing that keeps other workers off it.                       *)
(*                                                                         *)
(* The event loop is EventLoop seen from a handler: one-shot events, one    *)
(* registered event of a type per socket, handlers called in the order of   *)
(* occurrence.                                                              *)
(***************************************************************************)
EXTENDS Naturals, Sequences, FiniteSets, SequencesExt

CONSTANTS
    Workers,      \* the threads that call el_run
    Sockets,      \* the descriptors accept can return
    NoSocket,     \* what accept returns when it fails
    Users,        \* the addresses malloc can return for a user_context
    Timeouts,     \* whether timer_period ever elapses in this instance
    MaxTimers,    \* bound of the timers of either kind left from a descriptor's
                  \* earlier connections when it is accepted again
    NULL

ASSUME ServerAssumption ==
    /\ NoSocket \notin Sockets
    /\ NULL \notin Users \cup Sockets \cup {NoSocket}
    /\ Timeouts \in BOOLEAN
    /\ MaxTimers \in Nat

VARIABLES
    owned,        \* the socket of every allocated user_context, NULL if it is free
    users,        \* server_config.users, oldest first
    done,         \* the users whose SMTP session has seen QUIT
    timers,       \* server_config.timers: socket, and whether timer_period elapsed
    alarms,       \* how many timers of a socket the event loop has and no handler runs
    registered,   \* the registered events
    held,         \* the event the manager thread does the I/O of
    occurred,     \* the events that occurred, oldest first
    worker,       \* every worker's handler and the calls it has still to make
    open          \* the client descriptors the process has open

vars == <<owned, users, done, timers, alarms, registered, held, occurred, worker, open>>

Descriptors == Sockets \cup {NoSocket}

(* A kind of event is named for its handler: "hello" handler_hello_write,   *)
(* "timeout" handler_write_msg_of_close_connection_by_timeout.              *)
Writes == {"hello", "write", "timeout"}
Kinds == Writes \cup {"accept", "read", "close"}

(* user: the user_context whose read_buffer a read fills, or that an accept *)
(* will allocate.  gone: the status is DISCONNECTED.                        *)
Event == [kind : Kinds, sock : Descriptors, user : Users \cup {NULL}, gone : BOOLEAN]

NewEvent(kind, s, u) == [kind |-> kind, sock |-> s, user |-> u, gone |-> FALSE]

Idle == [handler |-> "none", sock |-> NULL, user |-> NULL, todo |-> <<>>]

Calls == {"add", "hello", "make_timer", "el_timer", "update", "find", "parse", "listen",
          "release", "reply", "close_quit", "free", "disconnect", "remove_timer", "is_exist",
          "is_elapsed", "is_present", "el_timer_free", "say_timeout", "unregister",
          "close", "enqueue"}

WorkerState == [handler : Kinds \cup {"none", "timer"}, sock : Descriptors \cup {NULL},
                user : Users \cup {NULL}, todo : Seq(Calls)]

Init ==
    /\ owned = [u \in Users |-> NULL]
    /\ users = <<>>
    /\ done = {}
    /\ timers = <<>>
    /\ alarms = [s \in Descriptors |-> 0]
    /\ registered = {}
    /\ held = NULL
    /\ occurred = <<>>
    /\ worker = [w \in Workers |-> Idle]
    /\ open = {}

-----------------------------------------------------------------------------
(* The event loop.                                                          *)

(* The type of an event: one event of a type may be registered per socket.  *)
TypeOf(kind) == IF kind \in Writes THEN "write" ELSE kind

(* el_async_read, el_async_write: EXISTS if there is one of the type, an    *)
(* error for the socket -1.                                                 *)
Register(e) ==
    IF e.sock = NoSocket
       \/ \E f \in registered : f.sock = e.sock /\ TypeOf(f.kind) = TypeOf(e.kind)
    THEN UNCHANGED registered
    ELSE registered' = registered \cup {e}

(* Nobody refers to the object at this address any more.                    *)
Unused(u) ==
    /\ owned[u] = NULL
    /\ \A e \in registered \cup ToSet(occurred) \cup ({held} \ {NULL}) : e.user # u
    /\ \A w \in Workers : worker[w].user # u

(* Bound of the instances: an earlier connection of the descriptor may have *)
(* left timers behind, or a handler that is going to make one.              *)
FewTimers(s) ==
    LET making == {w \in Workers : worker[w].sock = s /\ worker[w].handler \in {"accept", "timer"}}
    IN  /\ alarms[s] + Cardinality(making) < MaxTimers
        /\ Cardinality({i \in DOMAIN timers : timers[i].sock = s}) < MaxTimers

(* A client connects, or accept fails; the accept event occurs.  The        *)
(* address its handler will get from malloc is chosen here.                 *)
Accept(s, u) ==
    /\ held = NULL
    /\ s \notin open
    /\ Unused(u)
    /\ FewTimers(s)
    /\ open' = open \cup ({s} \ {NoSocket})
    /\ occurred' = Append(occurred, NewEvent("accept", s, u))
    /\ UNCHANGED <<owned, users, done, timers, alarms, registered, held, worker>>

(* The manager finds the descriptor ready and takes the event out.          *)
StartIO(e) ==
    /\ held = NULL
    /\ e \in registered
    /\ e.sock \in open
    /\ registered' = registered \ {e}
    /\ held' = e
    /\ UNCHANGED <<owned, users, done, timers, alarms, occurred, worker, open>>

(* recv or send is over, with or without a peer at the other end.           *)
FinishIO ==
    /\ held # NULL
    /\ \E gone \in BOOLEAN : occurred' = Append(occurred, [held EXCEPT !.gone = gone])
    /\ held' = NULL
    /\ UNCHANGED <<owned, users, done, timers, alarms, registered, worker, open>>

(* The calls each handler starts with.  On DISCONNECTED the handlers of     *)
(* reads and writes call user_disconnected and nothing else, as does        *)
(* handler_close_socket.                                                    *)
Handler(e) ==
    CASE e.kind = "accept" -> <<"add", "hello", "make_timer", "el_timer">>
      [] e.kind = "timeout" -> <<"unregister", "close", "enqueue">>
      [] e.kind = "close" \/ (e.gone /\ e.kind \in {"hello", "write", "read"}) -> <<"disconnect">>
      [] OTHER -> <<"update", "find">>

(* el_run takes the event that occurred first and calls its handler.        *)
RunEvent(w) ==
    /\ worker[w].todo = <<>>
    /\ occurred # <<>>
    /\ LET e == Head(occurred)
       IN  worker' = [worker EXCEPT ![w] = [handler |-> e.kind, sock |-> e.sock,
                        user |-> IF e.kind = "accept" THEN e.user ELSE NULL,
                        todo |-> Handler(e)]]
    /\ occurred' = Tail(occurred)
    /\ UNCHANGED <<owned, users, done, timers, alarms, registered, held, open>>

(* el_run calls handler_timer.  The timer stays in the list, but no other   *)
(* worker can run it meanwhile (ElTimers): it is with its worker until the  *)
(* handler frees it or returns.                                             *)
RunTimer(w, s) ==
    /\ worker[w].todo = <<>>
    /\ alarms[s] > 0
    /\ alarms' = [alarms EXCEPT ![s] = @ - 1]
    /\ worker' = [worker EXCEPT ![w] = [handler |-> "timer", sock |-> s, user |-> NULL,
                                        todo |-> <<"is_exist">>]]
    /\ UNCHANGED <<owned, users, done, timers, registered, held, occurred, open>>

-----------------------------------------------------------------------------
(* The calls of handlers.  A worker makes the call at the head of its todo; *)
(* `rest' is what it has to do afterwards.                                  *)

Doing(w, call) == worker[w].todo # <<>> /\ Head(worker[w].todo) = call
Sock(w) == worker[w].sock

(* A handler with nothing left to do has returned.                          *)
Then(w, rest) ==
    worker' = [worker EXCEPT ![w] = IF rest = <<>> THEN Idle ELSE [@ EXCEPT !.todo = rest]]

Continue(w) == Then(w, Tail(worker[w].todo))

(* users_list__add of the user_context that handler_accept made.            *)
AddUser(w) ==
    /\ Doing(w, "add")
    /\ owned' = [owned EXCEPT ![worker[w].user] = Sock(w)]
    /\ users' = Append(users, worker[w].user)
    /\ worker' = [worker EXCEPT ![w].user = NULL, ![w].todo = Tail(@)]
    /\ UNCHANGED <<done, timers, alarms, registered, held, occurred, open>>

(* el_async_write of the greeting, of a reply, of the 421 reply.            *)
CallKind == [hello |-> "hello", reply |-> "write", say_timeout |-> "timeout"]

AsyncWrite(w) ==
    /\ \E call \in DOMAIN CallKind :
        /\ Doing(w, call)
        /\ Register(NewEvent(CallKind[call], Sock(w), NULL))
    /\ Continue(w)
    /\ UNCHANGED <<owned, users, done, timers, alarms, held, occurred, open>>

(* el_async_read into the user's read_buffer.                               *)
AsyncRead(w) ==
    /\ Doing(w, "listen")
    /\ Register(NewEvent("read", Sock(w), worker[w].user))
    /\ Continue(w)
    /\ UNCHANGED <<owned, users, done, timers, alarms, held, occurred, open>>

timers_make_for_socket(w) ==
    /\ Doing(w, "make_timer")
    /\ timers' = Append(timers, [sock |-> Sock(w), elapsed |-> FALSE])
    /\ Continue(w)
    /\ UNCHANGED <<owned, users, done, alarms, registered, held, occurred, open>>

(* pr_timers_get_by_sock: the first entry of the socket, or none.           *)
IsTimerOf(i, s) ==
    /\ timers[i].sock = s
    /\ \A j \in 1 .. (i - 1) : timers[j].sock # s

NoTimer(s) == \A i \in DOMAIN timers : timers[i].sock # s

timers_update_by_socket(w) ==
    /\ Doing(w, "update")
    /\ \/ \E i \in DOMAIN timers :
            IsTimerOf(i, Sock(w)) /\ timers' = [timers EXCEPT ![i].elapsed = FALSE]
       \/ NoTimer(Sock(w)) /\ UNCHANGED timers
    /\ Continue(w)
    /\ UNCHANGED <<owned, users, done, alarms, registered, held, occurred, open>>

timers_remove_for_socket(w) ==
    /\ Doing(w, "remove_timer")
    /\ \/ \E i \in DOMAIN timers : IsTimerOf(i, Sock(w)) /\ timers' = RemoveAt(timers, i)
       \/ NoTimer(Sock(w)) /\ UNCHANGED timers
    /\ Continue(w)
    /\ UNCHANGED <<owned, users, done, alarms, registered, held, occurred, open>>

el_timer(w) ==
    /\ Doing(w, "el_timer")
    /\ alarms' = [alarms EXCEPT ![Sock(w)] = @ + 1]
    /\ Continue(w)
    /\ UNCHANGED <<owned, users, done, timers, registered, held, occurred, open>>

-----------------------------------------------------------------------------
(* Users.                                                                   *)

(* The first user in the list with that socket, or none.                    *)
IsUserOf(i, s) ==
    /\ owned[users[i]] = s
    /\ \A j \in 1 .. (i - 1) : owned[users[j]] # s

NoUser(s) == \A i \in DOMAIN users : owned[users[i]] # s

(* Wrong: the next read is registered although the session is over;         *)
WithUserListens(handler, u) ==
    CASE handler = "read" -> <<"parse">>
      [] handler = "write" /\ u \notin done -> <<"release", "listen", "update">>
      [] handler = "write" /\ u \in done -> <<"listen", "close_quit", "free", "remove_timer", "update">>
      [] OTHER -> <<"listen", "release", "update">>

(* the user of a session that is over is put back and not freed;            *)
WithUserKept(handler, u) ==
    CASE handler = "read" -> <<"parse">>
      [] handler = "write" /\ u \notin done -> <<"release", "listen", "update">>
      [] handler = "write" /\ u \in done -> <<"close_quit", "release", "remove_timer", "update">>
      [] OTHER -> <<"listen", "release", "update">>

(* the read is registered before the user is put back;                      *)
WithUserEarly(handler, u) ==
    CASE handler = "read" -> <<"parse">>
      [] handler = "write" /\ u \in done -> <<"close_quit", "free", "remove_timer", "update">>
      [] OTHER -> <<"listen", "release", "update">>

(* QUIT is not looked for.                                                  *)
WithUserForEver(handler, u) ==
    IF handler = "read" THEN <<"parse">>
    ELSE IF handler = "write" THEN <<"release", "listen", "update">>
    ELSE <<"listen", "release", "update">>

(* What a handler goes on with once it has the user (the last case is       *)
(* handler_hello_write), or has no user.                                    *)
WithUser(handler, u) ==
    CASE handler = "read" -> <<"parse">>
      [] handler = "write" /\ u \notin done -> <<"release", "listen", "update">>
      [] handler = "write" /\ u \in done -> <<"close_quit", "free", "remove_timer", "update">>
      [] OTHER -> <<"listen", "release", "update">>

(* Wrong: a handler that has no user puts one back.                         *)
WithoutUserReleases(handler) == IF handler = "read" THEN <<>> ELSE <<"release", "update">>

WithoutUser(handler) == IF handler = "read" THEN <<>> ELSE <<"update">>

(* Wrong: the user is found and stays in the list.                          *)
FindAndLeave(w) ==
    /\ Doing(w, "find")
    /\ \/ \E i \in DOMAIN users :
            /\ IsUserOf(i, Sock(w))
            /\ worker' = [worker EXCEPT ![w] =
                    [@ EXCEPT !.user = users[i],
                              !.todo = WithUser(worker[w].handler, users[i])]]
       \/ NoUser(Sock(w)) /\ Then(w, WithoutUser(worker[w].handler))
    /\ UNCHANGED <<owned, users, done, timers, alarms, registered, held, occurred, open>>

(* users_list__user_find_by_sock: found means taken out of the list.        *)
users_list__user_find_by_sock(w) ==
    /\ Doing(w, "find")
    /\ \/ \E i \in DOMAIN users :
            /\ IsUserOf(i, Sock(w))
            /\ worker' = [worker EXCEPT ![w] =
                    [@ EXCEPT !.user = users[i],
                              !.todo = WithUser(worker[w].handler, users[i])]]
            /\ users' = RemoveAt(users, i)
       \/ /\ NoUser(Sock(w))
          /\ Then(w, WithoutUser(worker[w].handler))
          /\ UNCHANGED users
    /\ UNCHANGED <<owned, done, timers, alarms, registered, held, occurred, open>>

(* Wrong: the next read is registered along with the reply.                 *)
ParseAndListen(w) ==
    /\ Doing(w, "parse")
    /\ \/ Then(w, <<"release", "reply", "listen", "update">>) /\ UNCHANGED done
       \/ /\ Then(w, <<"release", "reply", "listen", "update">>)
          /\ done' = done \cup {worker[w].user}
       \/ Then(w, <<"release", "listen", "update">>) /\ UNCHANGED done
    /\ UNCHANGED <<owned, users, timers, alarms, registered, held, occurred, open>>

(* handler_read: the input completes a command that is answered (QUIT sets  *)
(* the session's state), or it does not (a line of a letter, half a line).  *)
Parse(w) ==
    /\ Doing(w, "parse")
    /\ \/ Then(w, <<"release", "reply", "update">>) /\ UNCHANGED done
       \/ Then(w, <<"release", "reply", "update">>) /\ done' = done \cup {worker[w].user}
       \/ Then(w, <<"release", "listen", "update">>) /\ UNCHANGED done
    /\ UNCHANGED <<owned, users, timers, alarms, registered, held, occurred, open>>

user_accessor_release(w) ==
    /\ Doing(w, "release")
    /\ users' = Append(users, worker[w].user)
    /\ Continue(w)
    /\ UNCHANGED <<owned, done, timers, alarms, registered, held, occurred, open>>

(* user_free and free, of a user that is out of the list.                   *)
Freed(u) == owned' = [owned EXCEPT ![u] = NULL] /\ done' = done \ {u}

FreeUser(w) ==
    /\ Doing(w, "free")
    /\ Freed(worker[w].user)
    /\ Continue(w)
    /\ UNCHANGED <<users, timers, alarms, registered, held, occurred, open>>

(* user_disconnected: the user, if it is in the list, is taken out and      *)
(* freed, then its timer is removed.  The descriptor stays open.            *)
user_disconnected(w) ==
    /\ Doing(w, "disconnect")
    /\ \/ \E i \in DOMAIN users :
            /\ IsUserOf(i, Sock(w))
            /\ users' = RemoveAt(users, i)
            /\ Freed(users[i])
            /\ Then(w, <<"remove_timer">>)
       \/ /\ NoUser(Sock(w))
          /\ Then(w, <<>>)
          /\ UNCHANGED <<users, owned, done>>
    /\ UNCHANGED <<timers, alarms, registered, held, occurred, open>>

-----------------------------------------------------------------------------
(* Closing and timeouts.                                                    *)

(* close(): in handler_write after QUIT, and inside el_socket_close.        *)
CloseDescriptor(w) ==
    /\ Doing(w, "close_quit") \/ Doing(w, "close")
    /\ open' = open \ {Sock(w)}
    /\ Continue(w)
    /\ UNCHANGED <<owned, users, done, timers, alarms, registered, held, occurred>>

(* The first and the last step of el_socket_close.                          *)
Unregister(w) ==
    /\ Doing(w, "unregister")
    /\ registered' = {e \in registered : e.sock # Sock(w)}
    /\ Continue(w)
    /\ UNCHANGED <<owned, users, done, timers, alarms, held, occurred, open>>

EnqueueClose(w) ==
    /\ Doing(w, "enqueue")
    /\ occurred' = Append(occurred, NewEvent("close", Sock(w), NULL))
    /\ Continue(w)
    /\ UNCHANGED <<owned, users, done, timers, alarms, registered, held, open>>

(* timer_period has passed since the last update of an entry.               *)
Elapse ==
    /\ Timeouts
    /\ \E i \in DOMAIN timers : timers' = [timers EXCEPT ![i].elapsed = TRUE]
    /\ UNCHANGED <<owned, users, done, alarms, registered, held, occurred, worker, open>>

(* handler_timer.  It reads the list of timers twice, then the list of      *)
(* users, and acts on what it saw.  A handler that does not free the event  *)
(* loop's timer leaves it armed.                                            *)
Rearm(w) == alarms' = [alarms EXCEPT ![Sock(w)] = @ + 1] /\ Then(w, <<>>)
Proceed(w, rest) == Then(w, rest) /\ UNCHANGED alarms

Elapsed(s) == \E i \in DOMAIN timers : IsTimerOf(i, s) /\ timers[i].elapsed

(* Wrong: the event loop's timer is not freed with the server's.            *)
TimerStaysArmed(w) ==
    /\ \/ /\ Doing(w, "is_exist")
          /\ IF NoTimer(Sock(w)) THEN Rearm(w) ELSE Proceed(w, <<"is_elapsed">>)
       \/ /\ Doing(w, "is_elapsed")
          /\ IF Elapsed(Sock(w)) THEN Proceed(w, <<"is_present">>) ELSE Rearm(w)
       \/ /\ Doing(w, "is_present")
          /\ IF NoUser(Sock(w)) THEN Rearm(w)
             ELSE Proceed(w, <<"el_timer_free", "say_timeout">>)
       \/ /\ Doing(w, "el_timer_free")
          /\ Proceed(w, Tail(worker[w].todo))
    /\ UNCHANGED <<owned, users, done, timers, registered, held, occurred, open>>

handler_timer(w) ==
    /\ \/ /\ Doing(w, "is_exist")
          /\ Proceed(w, IF NoTimer(Sock(w)) THEN <<"el_timer_free">> ELSE <<"is_elapsed">>)
       \/ /\ Doing(w, "is_elapsed")
          /\ IF Elapsed(Sock(w)) THEN Proceed(w, <<"is_present">>) ELSE Rearm(w)
       \/ /\ Doing(w, "is_present")
          /\ IF NoUser(Sock(w)) THEN Rearm(w)
             ELSE Proceed(w, <<"el_timer_free", "say_timeout">>)
       \/ /\ Doing(w, "el_timer_free")
          /\ Proceed(w, Tail(worker[w].todo))
    /\ UNCHANGED <<owned, users, done, timers, registered, held, occurred, open>>

-----------------------------------------------------------------------------
Loop ==
    \/ \E s \in Descriptors, u \in Users : Accept(s, u)
    \/ \E e \in registered : StartIO(e)
    \/ FinishIO

Work(w) ==
    \/ RunEvent(w)
    \/ AddUser(w) \/ AsyncWrite(w) \/ AsyncRead(w)
    \/ timers_make_for_socket(w) \/ timers_update_by_socket(w) \/ timers_remove_for_socket(w)
    \/ el_timer(w)
    \/ users_list__user_find_by_sock(w) \/ Parse(w) \/ user_accessor_release(w)
    \/ FreeUser(w) \/ user_disconnected(w)
    \/ CloseDescriptor(w) \/ Unregister(w) \/ EnqueueClose(w)
    \/ handler_timer(w)

Next ==
    \/ Loop
    \/ Elapse
    \/ \E w \in Workers : Work(w) \/ (\E s \in Descriptors : RunTimer(w, s))

Spec == Init /\ [][Next]_vars

(* Workers and the manager keep running; every el_run makes one timer pass  *)
(* and then takes one event, so neither keeps the other from running for    *)
(* ever; the peer reads what it is sent or goes away, so a write ends.      *)
FairSpec ==
    /\ Spec
    /\ WF_vars(FinishIO)
    /\ \A s \in Sockets :
         SF_vars(\E e \in registered : e.sock = s /\ e.kind \in Writes /\ StartIO(e))
    /\ \A w \in Workers : WF_vars(Work(w))
    /\ SF_vars(\E w \in Workers : RunEvent(w))
    /\ \A s \in Sockets : SF_vars(\E w \in Workers : RunTimer(w, s))

-----------------------------------------------------------------------------
(* Properties.                                                              *)

(* The variables have their types.                                          *)
TypeOK ==
    /\ owned \in [Users -> Descriptors \cup {NULL}]
    /\ users \in Seq(Users)
    /\ done \subseteq Users
    /\ timers \in Seq([sock : Descriptors, elapsed : BOOLEAN])
    /\ alarms \in [Descriptors -> Nat]
    /\ registered \subseteq Event
    /\ held \in Event \cup {NULL}
    /\ occurred \in Seq(Event)
    /\ worker \in [Workers -> WorkerState]
    /\ open \subseteq Sockets

(* A worker has a user to itself while it still has to release or free it.  *)
HoldCalls == {"parse", "release", "free"}

WillCall(w, calls) == \E i \in DOMAIN worker[w].todo : worker[w].todo[i] \in calls

Holds(w, u) == worker[w].user = u /\ WillCall(w, HoldCalls)

(* A user is in the list once or with one worker, never both, and it is     *)
(* allocated while it is: no two threads touch one SMTP session             *)
(* (main.tex:359) and none touches a freed one.                             *)
UserExclusive ==
    /\ \A i, j \in DOMAIN users : users[i] = users[j] => i = j
    /\ \A i \in DOMAIN users : owned[users[i]] # NULL
    /\ \A w \in Workers, u \in Users : Holds(w, u) =>
         /\ owned[u] # NULL
         /\ \A i \in DOMAIN users : users[i] # u
         /\ \A v \in Workers : Holds(v, u) => v = w

(* The inductive invariant behind UserExclusive.  A handler adds or gives   *)
(* up a user in one call of its todo, has the user when it comes to it, and *)
(* knows its socket;                                                        *)
UserCalls == HoldCalls \cup {"add"}

TodoInv ==
    \A w \in Workers :
        /\ \A i, j \in DOMAIN worker[w].todo :
             worker[w].todo[i] \in UserCalls /\ worker[w].todo[j] \in UserCalls => i = j
        /\ WillCall(w, UserCalls) => worker[w].user # NULL
        /\ worker[w].todo # <<>> => worker[w].sock # NULL

(* and the address a handler_accept will get from malloc is still free, and *)
(* for that handler alone.                                                  *)
Adds(w, u) == worker[w].user = u /\ WillCall(w, {"add"})
Announced(i, u) == occurred[i].kind = "accept" /\ occurred[i].user = u

ReservedInv ==
    /\ \A e \in registered : e.kind # "accept"
    /\ held # NULL => held.kind # "accept"
    /\ \A i \in DOMAIN occurred : occurred[i].kind = "accept" => occurred[i].user # NULL
    /\ \A u \in Users :
        /\ \A i, j \in DOMAIN occurred : Announced(i, u) /\ Announced(j, u) => i = j
        /\ \A v, w \in Workers : Adds(v, u) /\ Adds(w, u) => v = w
        /\ \A i \in DOMAIN occurred : Announced(i, u) =>
             owned[u] = NULL /\ \A w \in Workers : ~Adds(w, u)
        /\ \A w \in Workers : Adds(w, u) => owned[u] = NULL

IInv == TypeOK /\ TodoInv /\ ReservedInv /\ UserExclusive

Pending == registered \cup ToSet(occurred) \cup ({held} \ {NULL})

(* A read that is registered, in progress or not yet handled fills the      *)
(* buffer of a user that is still allocated.                                *)
BuffersAlive == \A e \in Pending : e.kind = "read" => owned[e.user] # NULL

(* The list never has two users of one descriptor, of which every handler   *)
(* would take the first: a client's commands reach its own session.         *)
OneSessionPerSocket ==
    \A i, j \in DOMAIN users :
        owned[users[i]] = owned[users[j]] /\ owned[users[i]] \in Sockets => i = j

(* A connection has one outstanding read or write, so registering the next  *)
(* never fails with EXISTS.                                                 *)
OneOutstanding ==
    \A e, f \in {g \in Pending : g.kind # "accept"} : e.sock = f.sock => e = f

(* handler_hello_write registers the read before it puts the user back, so  *)
(* input that comes quickly may not find its user and is dropped            *)
(* (server.c:166-169).  This is the only way: every other handler puts the  *)
(* user back first.                                                         *)
ReadLostOnlyToHello ==
    [][\A w \in Workers :
         Doing(w, "find") /\ worker[w].handler = "read" /\ NoUser(Sock(w))
         /\ worker'[w] # worker[w]
         => \E v \in Workers : worker[v].handler = "hello" /\ Holds(v, worker[v].user)
                                /\ Sock(v) = Sock(w)]_vars

Connecting(s) == \E e \in Pending : e.kind = "accept" /\ e.sock = s

(* The session that saw QUIT ends: its user is freed, by the handler of the *)
(* reply or because the peer went first.                                    *)
QuitEndsSession == \A u \in Users : u \in done ~> owned[u] = NULL

(* An alarm is the event loop's until el_timer_free, also while its handler  *)
(* runs, which may only go back to arm it again.                            *)
Armed(s) ==
    alarms[s] + Cardinality({w \in Workers :
        /\ worker[w].handler = "timer" /\ Sock(w) = s
        /\ WillCall(w, {"is_exist", "is_elapsed", "is_present", "el_timer_free"})})

(* Nothing of a connection is left, and none is being accepted.             *)
Ended(s) ==
    /\ \A u \in Users : owned[u] # s
    /\ ~Connecting(s)
    /\ \A w \in Workers : worker[w].handler = "accept" => Sock(w) # s

(* handler_accept makes the entry of server_config.timers last              *)
(* (server.c:75-77): of a connection that is over by then nobody removes it *)
(* and handler_timer finds no user to say goodbye to, for ever.             *)
Orphan(s) == ~NoTimer(s) /\ \A w \in Workers : Sock(w) = s => ~WillCall(w, {"remove_timer"})

(* Every event loop timer of a connection that is over is freed, although   *)
(* the handlers that end connections leave it alone (handler_timer finds    *)
(* out by itself), unless the descriptor serves a new connection meanwhile  *)
(* or the connection left an orphan: its timer the code arms again for ever.*)
AlarmFreed ==
    \A s \in Sockets : Ended(s) /\ Armed(s) > 0 ~> Armed(s) = 0 \/ ~Ended(s) \/ Orphan(s)
===============================================================================
