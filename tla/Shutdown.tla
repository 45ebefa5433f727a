------------------------------- MODULE Shutdown --------------------------------
(***************************************************************************)
(* The life of the server's process: main (main.c), the threads it makes    *)
(* (thread_pool.c, the manager of event_loop.c, the logger), the handler of *)
(* SIGTERM and SIGINT (config.c) and the way down: el_stop, the joins,      *)
(* el_close, log_free.                                                      *)
(*                                                                         *)
(* A thread is the text it has still to run.  A signal puts the text of the *)
(* handler in front of the text of the thread that it interrupts, whatever  *)
(* mutex that thread holds.                                                 *)
(***************************************************************************)
EXTENDS Logger, SequencesExt

CONSTANTS
    MaxSignals,   \* how many signals are sent
    MaxWritten    \* bound of the messages that a worker's handlers write

ASSUME ShutdownAssumption ==
    /\ Workers \cap {"main", "manager", "logger"} = {}
    /\ NULL \notin Threads
    /\ MaxSignals \in Nat /\ MaxWritten \in Nat

VARIABLES
    todo,        \* of each thread, what it has still to do
    mutex,       \* who holds the event loop's mutexes
    destroyed,   \* which of them are destroyed
    is_run,      \* event_loop._is_run
    loop,        \* the memory of the event loop
    signals,     \* how many signals may still be sent
    process      \* "up", or how it ended

vars == <<logVars, todo, mutex, destroyed, is_run, loop, signals, process>>
loopVars == <<mutex, destroyed, is_run, loop>>

(* _mutex_is_run and _mutex_registered_events.  The others of the loop are  *)
(* held by threads that no handler and no el_close waits for.               *)
Mutexes == {"is_run", "registered"}

(* "closed": queues and timers are freed.  "freed": the event_loop, too.    *)
LoopStates == {"none", "made", "closed", "freed"}
Ends == {"up", "failed", "ended", "fault"}

-----------------------------------------------------------------------------
(* The texts.  "log" is a LOG_INFO or LOG_ERROR, or several in a row; of    *)
(* those the start writes the last one before the threads is kept.          *)
worker_thread == <<"log", "check", "log">>
Main == <<"config", "socket", "log", "open", "spawn">> \o worker_thread
Exit(join) == <<"join", "stop", "destroy", "free_queues", join, "log",
                "stop_logger", "free_logger", "return_from_main">>

loop_thread == <<"set_is_run", "check">>
posix_signal_handler == <<"log", "stop", "return">>

(* One turn of the loop that the thread's "check" guards.                   *)
Turn(t) ==
    IF t = "manager" THEN <<"build", "poll", "serve", "check">> ELSE <<"el_run", "check">>

Steps == UNION {ToSet(s) : s \in
    {Main, Exit("join_manager"), Exit("join_nobody"), worker_thread, loop_thread,
     posix_signal_handler, Turn("manager"), Turn("main"),
     <<"write", "test", "opening", "create", "stopping", "walk", "eintr", "give_up">>}}

Init ==
    /\ log_init
    /\ todo = [t \in Threads |-> IF t = "main" THEN Main \o Exit("join_manager") ELSE <<>>]
    /\ mutex = [m \in Mutexes |-> NULL] /\ destroyed = {}
    /\ is_run = FALSE /\ loop = "none"
    /\ signals = MaxSignals /\ process = "up"

-----------------------------------------------------------------------------
At(t, step) == process = "up" /\ todo[t] # <<>> /\ Head(todo[t]) = step

(* The step is done, and `text' comes next.                                 *)
Then(t, text) == todo' = [todo EXCEPT ![t] = text \o Tail(@)]
Done(t) == Then(t, <<>>)

Fault == process' = "fault"

Locks(t, m) == mutex[m] = NULL /\ mutex' = [mutex EXCEPT ![m] = t]
Unlocks(m) == mutex' = [mutex EXCEPT ![m] = NULL]

(* LOG_INFO: into the queue, unless the logger is freed.                    *)
Log(t) ==
    /\ At(t, "log")
    /\ \/ /\ logger # "freed"
          /\ LockMessages(t) /\ Then(t, <<"write">>)
          /\ UNCHANGED process
       \/ /\ logger = "freed"
          /\ Fault
          /\ UNCHANGED <<logVars, todo>>
    /\ UNCHANGED <<loopVars, signals>>

Write(t) ==
    /\ At(t, "write")
    /\ log_write(t) /\ Done(t)
    /\ UNCHANGED <<loopVars, signals, process>>

(* loop_is_started: lock, read, unlock.  A destroyed mutex is not locked    *)
(* and counts as "no" (PTHREAD_CHECK).                                      *)
Check(t) ==
    /\ At(t, "check")
    /\ \/ "is_run" \notin destroyed /\ Locks(t, "is_run") /\ Then(t, <<"test">>)
       \/ "is_run" \in destroyed /\ Done(t) /\ UNCHANGED mutex
    /\ UNCHANGED <<logVars, destroyed, is_run, loop, signals, process>>

Test(t) ==
    /\ At(t, "test")
    /\ Unlocks("is_run")
    /\ Then(t, IF is_run THEN Turn(t) ELSE <<>>)
    /\ UNCHANGED <<logVars, destroyed, is_run, loop, signals, process>>

(* el_run, for what it means here: a handler may write a message.  The      *)
(* errors that would end the thread (main.c:23-26), of a destroyed mutex    *)
(* and of an empty queue, do not come: the mutexes are destroyed when the   *)
(* workers are joined, and the queue is looked at under its lock.           *)
ElRun(t) ==
    /\ At(t, "el_run")
    /\ \/ Done(t)
       \/ written[t] < MaxWritten /\ Then(t, <<"log">>)
    /\ UNCHANGED <<logVars, loopVars, signals, process>>

(* el_stop: lock, write, unlock.                                            *)
Stop(t) ==
    /\ At(t, "stop")
    /\ \/ /\ loop # "freed" /\ "is_run" \notin destroyed
          /\ Locks(t, "is_run") /\ Then(t, <<"stopping">>)
          /\ UNCHANGED process
       \/ /\ loop # "freed" /\ "is_run" \in destroyed
          /\ Then(t, <<"log">>)
          /\ UNCHANGED <<mutex, process>>
       \/ loop = "freed" /\ Fault /\ UNCHANGED <<todo, mutex>>
    /\ UNCHANGED <<logVars, destroyed, is_run, loop, signals>>

(* Wrong: returns without giving the mutex back.                            *)
StoppingKeepsLock(t) ==
    /\ At(t, "stopping")
    /\ is_run' = FALSE
    /\ Done(t)
    /\ UNCHANGED <<logVars, mutex, destroyed, loop, signals, process>>

Stopping(t) ==
    /\ At(t, "stopping")
    /\ is_run' = FALSE
    /\ Unlocks("is_run") /\ Done(t)
    /\ UNCHANGED <<logVars, destroyed, loop, signals, process>>

-----------------------------------------------------------------------------
(* The manager.  When the thread begins it sets the flag once more, without *)
(* the mutex.                                                               *)
SetIsRun ==
    /\ At("manager", "set_is_run")
    /\ is_run' = TRUE /\ Done("manager")
    /\ UNCHANGED <<logVars, mutex, destroyed, loop, signals, process>>

(* pr_create_pollfd, or the pop of pr_create_pollin_event, locks the        *)
(* registered events.  If their mutex is destroyed the array is empty, and  *)
(* the pop ends the thread with an error.                                   *)
LockRegistered(step) ==
    /\ At("manager", step)
    /\ \/ /\ "registered" \notin destroyed
          /\ Locks("manager", "registered")
          /\ Then("manager", <<"walk">>)
       \/ /\ "registered" \in destroyed
          /\ todo' = [todo EXCEPT !["manager"] = IF step = "build" THEN Tail(@) ELSE <<>>]
          /\ UNCHANGED mutex
    /\ UNCHANGED <<logVars, destroyed, is_run, loop, signals, process>>

(* Wrong: does not give the mutex back.                                     *)
WalkKeepsLock ==
    /\ At("manager", "walk")
    /\ Done("manager")
    /\ UNCHANGED <<logVars, mutex, destroyed, is_run, loop, signals, process>>

(* It walks the queue and unlocks.  If the queue is freed it may still find *)
(* the old contents.                                                        *)
Walk ==
    /\ At("manager", "walk")
    /\ \/ Unlocks("registered") /\ Done("manager") /\ UNCHANGED process
       \/ loop = "closed" /\ Fault /\ UNCHANGED <<todo, mutex>>
    /\ UNCHANGED <<logVars, destroyed, is_run, loop, signals>>

(* poll: something is ready, or the time is up and nothing is served.       *)
Poll ==
    /\ At("manager", "poll")
    /\ \/ Done("manager")
       \/ todo' = [todo EXCEPT !["manager"] = <<"check">>]
    /\ UNCHANGED <<logVars, loopVars, signals, process>>

(* poll was interrupted: the error ends the thread.                         *)
Interrupted ==
    /\ At("manager", "eintr")
    /\ todo' = [todo EXCEPT !["manager"] = <<>>]
    /\ UNCHANGED <<logVars, loopVars, signals, process>>

-----------------------------------------------------------------------------
(* main.  server_config_init makes the loop, reads the file and installs    *)
(* the handler; if it fails main returns at once, and the logger does not   *)
(* get to print.                                                            *)
server_config_init ==
    /\ At("main", "config")
    /\ \/ loop' = "made" /\ Done("main")
       \/ loop' = "none" /\ todo' = [todo EXCEPT !["main"] = <<"log", "give_up">>]
    /\ UNCHANGED <<logVars, mutex, destroyed, is_run, signals, process>>

GiveUp ==
    /\ At("main", "give_up")
    /\ process' = "failed" /\ Done("main")
    /\ UNCHANGED <<logVars, loopVars, signals>>

(* Without a socket main goes to the exit, where it will join a manager     *)
(* that was never made.                                                     *)
make_server_socket ==
    /\ At("main", "socket")
    /\ \/ Done("main")
       \/ todo' = [todo EXCEPT !["main"] = <<"log">> \o Exit("join_nobody")]
    /\ UNCHANGED <<logVars, loopVars, signals, process>>

el_open ==
    /\ At("main", "open")
    /\ Locks("main", "is_run") /\ Then("main", <<"opening", "create">>)
    /\ UNCHANGED <<logVars, destroyed, is_run, loop, signals, process>>

Opening ==
    /\ At("main", "opening")
    /\ is_run' = TRUE /\ Unlocks("is_run") /\ Done("main")
    /\ UNCHANGED <<logVars, destroyed, loop, signals, process>>

CreateManager ==
    /\ At("main", "create")
    /\ todo' = [todo EXCEPT !["manager"] = loop_thread, !["main"] = Tail(@)]
    /\ UNCHANGED <<logVars, loopVars, signals, process>>

(* thread_pool_push, for all workers but main itself.                       *)
thread_pool_push ==
    /\ At("main", "spawn")
    /\ todo' = [t \in Threads |-> IF t \in Workers THEN worker_thread
                                  ELSE IF t = "main" THEN Tail(todo[t]) ELSE todo[t]]
    /\ UNCHANGED <<logVars, loopVars, signals, process>>

(* Wrong: frees the pool and joins nobody.                                  *)
FreePoolUnjoined ==
    /\ At("main", "join")
    /\ Done("main")
    /\ UNCHANGED <<logVars, loopVars, signals, process>>

thread_pool_free ==
    /\ At("main", "join")
    /\ \A w \in Workers : todo[w] = <<>>
    /\ Done("main")
    /\ UNCHANGED <<logVars, loopVars, signals, process>>

(* pr_el_close.  Destroying a mutex fails while it is held.                 *)
DestroyMutexes ==
    /\ At("main", "destroy")
    /\ destroyed' = {m \in Mutexes : mutex[m] = NULL}
    /\ Done("main")
    /\ UNCHANGED <<logVars, mutex, is_run, loop, signals, process>>

FreeQueues ==
    /\ At("main", "free_queues")
    /\ loop' = "closed" /\ Done("main")
    /\ UNCHANGED <<logVars, mutex, destroyed, is_run, signals, process>>

JoinManager ==
    /\ At("main", "join_manager")
    /\ todo["manager"] = <<>>
    /\ loop' = "freed" /\ Done("main")
    /\ UNCHANGED <<logVars, mutex, destroyed, is_run, signals, process>>

(* The thread to join was never made: the call fails or the process does.   *)
JoinNobody ==
    /\ At("main", "join_nobody")
    /\ \/ loop' = "freed" /\ Done("main") /\ UNCHANGED process
       \/ Fault /\ UNCHANGED <<todo, loop>>
    /\ UNCHANGED <<logVars, mutex, destroyed, is_run, signals>>

log_free ==
    \/ /\ At("main", "stop_logger")
       /\ StopLogger /\ Done("main")
       /\ UNCHANGED <<loopVars, signals, process>>
    \/ /\ At("main", "free_logger")
       /\ FreeLogger /\ Done("main")
       /\ UNCHANGED <<loopVars, signals, process>>

Return ==
    /\ At("main", "return_from_main")
    /\ process' = "ended" /\ Done("main")
    /\ UNCHANGED <<logVars, loopVars, signals>>

-----------------------------------------------------------------------------
(* The logger's thread goes on unless a handler runs on it.                 *)
RunLogger ==
    /\ process = "up" /\ todo["logger"] = <<>>
    /\ LoggerStep
    /\ UNCHANGED <<todo, loopVars, signals, process>>

Alive(t) == todo[t] # <<>> \/ (t = "logger" /\ logger \notin {"gone", "freed"})

(* A signal is handled by any thread that is not handling one already       *)
(* (sa_mask).  It interrupts poll.                                          *)
Signal(t) ==
    /\ process = "up" /\ signals > 0
    /\ loop # "none"
    /\ Alive(t) /\ "return" \notin ToSet(todo[t])
    /\ signals' = signals - 1
    /\ todo' = [todo EXCEPT ![t] =
         posix_signal_handler \o (IF At(t, "poll") THEN <<"eintr">> \o @ ELSE @)]
    /\ UNCHANGED <<logVars, loopVars, process>>

ReturnFromHandler(t) ==
    /\ At(t, "return")
    /\ Done(t)
    /\ UNCHANGED <<logVars, loopVars, signals, process>>

ThreadStep(t) ==
    Log(t) \/ Write(t) \/ Check(t) \/ Test(t) \/ ElRun(t) \/ Stop(t) \/ Stopping(t)
    \/ ReturnFromHandler(t)

ManagerStep ==
    SetIsRun \/ LockRegistered("build") \/ LockRegistered("serve") \/ Walk \/ Poll \/ Interrupted

MainStep ==
    \/ server_config_init \/ GiveUp \/ make_server_socket
    \/ el_open \/ Opening \/ CreateManager \/ thread_pool_push
    \/ thread_pool_free \/ DestroyMutexes \/ FreeQueues \/ JoinManager \/ JoinNobody
    \/ log_free \/ Return

Next ==
    \/ \E t \in Threads : ThreadStep(t) \/ Signal(t)
    \/ ManagerStep \/ MainStep \/ RunLogger

Spec == Init /\ [][Next]_vars

(* The kernel runs every thread, and a thread that waits for a mutex gets   *)
(* it although the logger takes it again and again.                         *)
FairSpec ==
    /\ Spec
    /\ SF_vars(ThreadStep("main") \/ MainStep)
    /\ SF_vars(ThreadStep("manager") \/ ManagerStep)
    /\ SF_vars(ThreadStep("logger") \/ RunLogger)
    /\ \A w \in Workers : SF_vars(ThreadStep(w))

-----------------------------------------------------------------------------
(* Properties.                                                              *)

(* The variables have their types.                                          *)
TypeOK ==
    /\ messages \subseteq Message /\ batch \subseteq Message /\ printed \subseteq Message
    /\ written \in [Threads -> Nat]
    /\ logger \in LoggerControl /\ log_is_run \in BOOLEAN
    /\ mutex_messages \in Threads \cup {NULL}
    /\ todo \in [Threads -> Seq(Steps)]
    /\ mutex \in [Mutexes -> Threads \cup {NULL}]
    /\ destroyed \subseteq Mutexes
    /\ is_run \in BOOLEAN /\ loop \in LoopStates
    /\ signals \in 0 .. MaxSignals /\ process \in Ends

(* Nothing that is logged is lost: when main returns through log_free, all  *)
(* messages of all threads have been printed, although the logger's thread  *)
(* may end with messages in the queue (log/context.c:104).                  *)
NothingLoggedIsLost ==
    process = "ended" => \A t \in Threads : \A n \in 1 .. written[t] : <<t, n>> \in printed

(* Nobody but the manager is left to use what el_close frees, and nobody at *)
(* all when log_free frees the logger, whichever way main came to the exit. *)
FreedWhenUnused ==
    /\ loop \in {"closed", "freed"} => \A w \in Workers : todo[w] = <<>>
    /\ loop = "freed" => todo["manager"] = <<>>
    /\ logger = "freed" => \A t \in Threads \ {"main"} : todo[t] = <<>>

(* A step that sets the flag to true is still to come.                      *)
Opens ==
    \E t \in Threads : ToSet(todo[t]) \cap {"config", "open", "opening", "create", "set_is_run"} # {}

(* A handler waits for the mutex that the thread it interrupted holds.      *)
SelfLocked(t) ==
    \/ At(t, "log") /\ mutex_messages = t
    \/ At(t, "stop") /\ mutex["is_run"] = t

(* A thread waits for the thread that has the mutex it is to lock, and main *)
(* for the one it is to join.                                               *)
WaitsFor(t, u) ==
    \/ At(t, "log") /\ mutex_messages = u
    \/ \E step \in {"check", "stop", "open"} : At(t, step) /\ mutex["is_run"] = u
    \/ \E step \in {"build", "serve"} : At(t, step) /\ mutex["registered"] = u
    \/ /\ process = "up" /\ t = "logger" /\ todo[t] = <<>> /\ logger \in {"lock", "wait"}
       /\ mutex_messages = u
    \/ t = "main" /\ At(t, "join") /\ u \in Workers /\ todo[u] # <<>>
    \/ t = "main" /\ At(t, "join_manager") /\ u = "manager" /\ todo[u] # <<>>
    \/ t = "main" /\ At(t, "free_logger") /\ u = "logger" /\ logger \notin {"gone", "freed"}

(* Threads, handlers that run on them and joins never wait for each other   *)
(* in a circle, nor for a mutex whose owner has ended, whatever a signal    *)
(* interrupts: the one way to a deadlock is a handler that waits for its    *)
(* own thread (config.c:10).                                                *)
NoDeadlock ==
    \A S \in (SUBSET Threads) \ {{}} :
        (\A t \in S : \E u \in Threads : WaitsFor(t, u) /\ (u \in S \/ ~Alive(u)))
            => \E t \in S : SelfLocked(t)

(* Once the flag is down and nothing raises it again, all threads leave     *)
(* their loops and main returns (main.tex:215), unless a handler locks      *)
(* itself out or a fault ends the process.                                  *)
StopEnds ==
    (loop # "none" /\ ~is_run /\ ~Opens) ~> (process # "up" \/ \E t \in Threads : SelfLocked(t))
===============================================================================
