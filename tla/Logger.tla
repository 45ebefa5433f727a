-------------------------------- MODULE Logger ---------------------------------
(***************************************************************************)
(* The server's logger (log/context.c): threads append messages to a queue  *)
(* under mutex_messages, a thread of its own takes the whole queue, sorts   *)
(* what it took and prints it, and log_free ends that thread and prints     *)
(* what is left.  This module has the logger's state and its operations;    *)
(* Shutdown composes them with the threads that call them.                  *)
(*                                                                         *)
(* A message is its author and its number among the author's.  Levels, the  *)
(* list of printers and the mutex that guards it are left out: a message is *)
(* printed when the printers have been given it.  The timeout of            *)
(* pthread_cond_timedwait lies in the past (tv_sec is 0), and nothing       *)
(* signals the condition, so a wait gives the mutex away and asks for it    *)
(* again.                                                                   *)
(***************************************************************************)
EXTENDS Naturals, Sequences

CONSTANTS
    Workers,      \* the threads of the pool
    NULL

(* "main" calls log_free, "logger" is the log_context's own thread.         *)
Threads == Workers \cup {"main", "manager", "logger"}

VARIABLES
    messages,        \* the queue
    batch,           \* what the logger's thread took out to print
    printed,         \* what has been printed
    written,         \* how many messages each thread has written
    logger,          \* where the logger's thread is
    log_is_run,      \* log_context.is_run
    mutex_messages   \* who holds the mutex

logVars == <<messages, batch, printed, written, logger, log_is_run, mutex_messages>>

Message == Threads \X (Nat \ {0})

(* "freed": log_free is through.                                            *)
LoggerControl == {"lock", "look", "wait", "print", "gone", "freed"}

log_init ==
    /\ messages = {} /\ batch = {} /\ printed = {}
    /\ written = [t \in Threads |-> 0]
    /\ logger = "lock" /\ log_is_run = TRUE /\ mutex_messages = NULL

-----------------------------------------------------------------------------
(* log_write, which a signal may interrupt between lock and unlock.         *)
LockMessages(t) ==
    /\ mutex_messages = NULL
    /\ mutex_messages' = t
    /\ UNCHANGED <<messages, batch, printed, written, logger, log_is_run>>

log_write(t) ==
    /\ mutex_messages = t
    /\ messages' = messages \cup {<<t, written[t] + 1>>}
    /\ written' = [written EXCEPT ![t] = @ + 1]
    /\ mutex_messages' = NULL
    /\ UNCHANGED <<batch, printed, logger, log_is_run>>

-----------------------------------------------------------------------------
(* The loop of pr_log_thread.                                               *)
LockQueue ==
    /\ logger = "lock" /\ mutex_messages = NULL
    /\ mutex_messages' = "logger" /\ logger' = "look"
    /\ UNCHANGED <<messages, batch, printed, written, log_is_run>>

(* pr_log_wait_and_extract_messages puts an empty queue in its place.       *)
Extract ==
    /\ logger = "look" /\ messages # {}
    /\ batch' = messages /\ messages' = {}
    /\ mutex_messages' = NULL /\ logger' = "print"
    /\ UNCHANGED <<printed, written, log_is_run>>

(* pthread_cond_timedwait gives the mutex away ...                          *)
TimedWait ==
    /\ logger = "look" /\ messages = {}
    /\ mutex_messages' = NULL /\ logger' = "wait"
    /\ UNCHANGED <<messages, batch, printed, written, log_is_run>>

(* ... and has it again.  Then a logger that was stopped ends, also if      *)
(* there are messages now.                                                  *)
Awake ==
    /\ logger = "wait" /\ mutex_messages = NULL
    /\ \/ log_is_run /\ mutex_messages' = "logger" /\ logger' = "look"
       \/ ~log_is_run /\ logger' = "gone" /\ UNCHANGED mutex_messages
    /\ UNCHANGED <<messages, batch, printed, written, log_is_run>>

(* pr_messages_print and pr_log_free_msgq; then the loop looks whether it is *)
(* to go on (pr_log_is_run).                                                *)
PrintBatch ==
    /\ logger = "print"
    /\ printed' = printed \cup batch /\ batch' = {}
    /\ logger' = IF log_is_run THEN "lock" ELSE "gone"
    /\ UNCHANGED <<messages, written, log_is_run, mutex_messages>>

LoggerStep ==
    LockQueue \/ Extract \/ TimedWait \/ Awake \/ PrintBatch

-----------------------------------------------------------------------------
(* log_free: the flag, without a mutex; then the thread is joined, and what *)
(* it left is printed and everything freed.                                 *)
StopLogger ==
    /\ log_is_run' = FALSE
    /\ UNCHANGED <<messages, batch, printed, written, logger, mutex_messages>>

(* Wrong: does not print what the thread left.                              *)
FreeUnprinted ==
    /\ logger = "gone"
    /\ messages' = {}
    /\ logger' = "freed"
    /\ UNCHANGED <<batch, printed, written, log_is_run, mutex_messages>>

FreeLogger ==
    /\ logger = "gone"
    /\ printed' = printed \cup messages
    /\ messages' = {}
    /\ logger' = "freed"
    /\ UNCHANGED <<batch, written, log_is_run, mutex_messages>>
===============================================================================
