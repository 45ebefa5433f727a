------------------------------- MODULE ElTimers -------------------------------
(***************************************************************************)
(* The timers of the server's event loop (event_loop.c).  The list         *)
(* _timer_events is scanned by every worker thread at the start of el_run. *)
(* A worker that finds a due timer marks it is_processed, RELEASES the      *)
(* mutex, calls the handler, takes the mutex again and goes on from the     *)
(* entry it stopped at, while other workers scan, fire and free entries of  *)
(* the same list.  el_timer_free only marks an entry has_delete; the scan   *)
(* of some worker collects it and frees it at the end of its pass.          *)
(***************************************************************************)
EXTENDS Integers, Sequences

CONSTANTS
    Workers,    \* the threads that call el_run
    Timers,     \* the addresses malloc can return for a timer_event_entry
    Periods,    \* the periods callers pass to el_timer, in seconds
    MaxTime,    \* bound of the clock in a model-checked instance
    NULL        \* the null pointer, also "no thread" for the mutex

ASSUME TimersAssumption ==
    /\ Periods \subseteq Nat
    /\ MaxTime \in Nat
    /\ NULL \notin Timers
    /\ NULL \notin Workers

VARIABLES
    now,            \* time(NULL)
    _timer_events,  \* the list of live descriptors, in insertion order
    entry,          \* the fields of every descriptor
    mutex,          \* the holder of _mutex_registered_events, or NULL
    pc,             \* where each worker is in el_run
    ptr,            \* the worker's list cursor
    removed         \* removed_timers_list, local to el_run

vars == <<now, _timer_events, entry, mutex, pc, ptr, removed>>

Entry == [time_start : Nat, period : Nat, is_processed : BOOLEAN, has_delete : BOOLEAN]

(* "idle": between two calls of el_run.  "scan": at the top of the loop     *)
(* body, for the entry at the cursor.  "run": inside the handler of that    *)
(* entry, mutex released.  "collect": after the handler part of the loop    *)
(* body.  "purge": after the loop.  "events": past the timers, where el_run *)
(* dispatches one socket event.                                             *)
Control == {"idle", "scan", "run", "collect", "purge", "events"}

-----------------------------------------------------------------------------
(* The list.                                                                *)

InList(t) == \E i \in DOMAIN _timer_events : _timer_events[i] = t

(* Wrong: the scan begins with the second entry.                            *)
SecondOfList == IF Len(_timer_events) < 2 THEN NULL ELSE _timer_events[2]

First == IF _timer_events = <<>> THEN NULL ELSE _timer_events[1]

(* TAILQ_NEXT: the cursor moves to whatever follows the entry now.          *)
Following(t) ==
    LET i == CHOOSE i \in DOMAIN _timer_events : _timer_events[i] = t
    IN  IF i = Len(_timer_events) THEN NULL ELSE _timer_events[i + 1]

(* TAILQ_REMOVE of the i-th entry.                                          *)
Without(i) ==
    [j \in 1 .. (Len(_timer_events) - 1) |->
        IF j < i THEN _timer_events[j] ELSE _timer_events[j + 1]]

-----------------------------------------------------------------------------
Init ==
    /\ now = 0
    /\ _timer_events = <<>>
    /\ entry = [t \in Timers |-> [time_start |-> 0, period |-> 0,
                                  is_processed |-> FALSE, has_delete |-> FALSE]]
    /\ mutex = NULL
    /\ pc = [w \in Workers |-> "idle"]
    /\ ptr = [w \in Workers |-> NULL]
    /\ removed = [w \in Workers |-> {}]

Tick ==
    /\ now < MaxTime
    /\ now' = now + 1
    /\ UNCHANGED <<_timer_events, entry, mutex, pc, ptr, removed>>

(* A worker is free to call the timer API: it is inside a handler.          *)
InHandler(w) == pc[w] \in {"run", "events"}

(* Wrong: the first period is already over when the timer is made.          *)
el_timer_elapsed(w, t, period) ==
    /\ InHandler(w)
    /\ mutex = NULL
    /\ ~InList(t)
    /\ entry' = [entry EXCEPT ![t] = [time_start |-> now - period, period |-> period,
                                      is_processed |-> FALSE, has_delete |-> FALSE]]
    /\ _timer_events' = Append(_timer_events, t)
    /\ UNCHANGED <<now, mutex, pc, ptr, removed>>

(* el_timer: allocate, fill and append under the mutex.                     *)
el_timer(w, t, period) ==
    /\ InHandler(w)
    /\ mutex = NULL
    /\ ~InList(t)
    /\ entry' = [entry EXCEPT ![t] = [time_start |-> now, period |-> period,
                                      is_processed |-> FALSE, has_delete |-> FALSE]]
    /\ _timer_events' = Append(_timer_events, t)
    /\ UNCHANGED <<now, mutex, pc, ptr, removed>>

(* el_timer_free: the program calls it from the timer's own handler.        *)
el_timer_free(w) ==
    /\ pc[w] = "run"
    /\ mutex = NULL
    /\ entry' = [entry EXCEPT ![ptr[w]].has_delete = TRUE]
    /\ UNCHANGED <<now, _timer_events, mutex, pc, ptr, removed>>

-----------------------------------------------------------------------------
(* The timer pass of el_run.                                                *)

StartScan(w) ==
    /\ pc[w] = "idle"
    /\ mutex = NULL
    /\ mutex' = w
    /\ ptr' = [ptr EXCEPT ![w] = First]
    /\ pc' = [pc EXCEPT ![w] = IF First = NULL THEN "purge" ELSE "scan"]
    /\ UNCHANGED <<now, _timer_events, entry, removed>>

Due(t) ==
    /\ entry[t].time_start + entry[t].period <= now
    /\ ~entry[t].is_processed
    /\ ~entry[t].has_delete

(* Wrong: the handler is called without marking the entry.                  *)
FireUnmarked(w) ==
    /\ pc[w] = "scan"
    /\ Due(ptr[w])
    /\ mutex' = NULL
    /\ pc' = [pc EXCEPT ![w] = "run"]
    /\ UNCHANGED <<now, entry, _timer_events, ptr, removed>>

FireTimer(w) ==
    /\ pc[w] = "scan"
    /\ Due(ptr[w])
    /\ entry' = [entry EXCEPT ![ptr[w]].is_processed = TRUE]
    /\ mutex' = NULL
    /\ pc' = [pc EXCEPT ![w] = "run"]
    /\ UNCHANGED <<now, _timer_events, ptr, removed>>

(* Wrong: the entry stays marked after its handler.                         *)
HandlerReturnsMarked(w) ==
    /\ pc[w] = "run"
    /\ mutex = NULL
    /\ mutex' = w
    /\ entry' = [entry EXCEPT ![ptr[w]].time_start = now]
    /\ pc' = [pc EXCEPT ![w] = "collect"]
    /\ UNCHANGED <<now, _timer_events, ptr, removed>>

HandlerReturns(w) ==
    /\ pc[w] = "run"
    /\ mutex = NULL
    /\ mutex' = w
    /\ entry' = [entry EXCEPT ![ptr[w]].is_processed = FALSE,
                              ![ptr[w]].time_start = now]
    /\ pc' = [pc EXCEPT ![w] = "collect"]
    /\ UNCHANGED <<now, _timer_events, ptr, removed>>

SkipTimer(w) ==
    /\ pc[w] = "scan"
    /\ ~Due(ptr[w])
    /\ pc' = [pc EXCEPT ![w] = "collect"]
    /\ UNCHANGED <<now, _timer_events, entry, mutex, ptr, removed>>

(* Wrong: a deleted entry is collected while its handler runs.              *)
CollectableThoughProcessed(t) == entry[t].has_delete

Collectable(t) == entry[t].has_delete /\ ~entry[t].is_processed

(* The end of the loop body: collect the entry if it is deleted and idle,   *)
(* then advance the cursor.                                                 *)
Advance(w) ==
    /\ pc[w] = "collect"
    /\ IF Collectable(ptr[w])
       THEN /\ entry' = [entry EXCEPT ![ptr[w]].is_processed = TRUE]
            /\ removed' = [removed EXCEPT ![w] = @ \cup {ptr[w]}]
       ELSE UNCHANGED <<entry, removed>>
    /\ ptr' = [ptr EXCEPT ![w] = Following(ptr[w])]
    /\ pc' = [pc EXCEPT ![w] = IF Following(ptr[w]) = NULL THEN "purge" ELSE "scan"]
    /\ UNCHANGED <<now, _timer_events, mutex>>

(* One round of the removal loop: unlink a collected entry and free it.     *)
Purge(w) ==
    /\ pc[w] = "purge"
    /\ \E i \in DOMAIN _timer_events :
        /\ _timer_events[i] \in removed[w]
        /\ removed' = [removed EXCEPT ![w] = @ \ {_timer_events[i]}]
        /\ _timer_events' = Without(i)
    /\ UNCHANGED <<now, entry, mutex, pc, ptr>>

EndScan(w) ==
    /\ pc[w] = "purge"
    /\ removed[w] = {}
    /\ mutex' = NULL
    /\ pc' = [pc EXCEPT ![w] = "events"]
    /\ UNCHANGED <<now, _timer_events, entry, ptr, removed>>

(* el_run returns; the worker's loop calls it again.                        *)
el_run_returns(w) ==
    /\ pc[w] = "events"
    /\ pc' = [pc EXCEPT ![w] = "idle"]
    /\ UNCHANGED <<now, _timer_events, entry, mutex, ptr, removed>>

Scan(w) ==
    \/ StartScan(w) \/ FireTimer(w) \/ HandlerReturns(w) \/ SkipTimer(w)
    \/ Advance(w) \/ Purge(w) \/ EndScan(w) \/ el_run_returns(w)

Next ==
    \/ Tick
    \/ \E w \in Workers :
        \/ Scan(w)
        \/ el_timer_free(w)
        \/ \E t \in Timers, period \in Periods : el_timer(w, t, period)

Spec == Init /\ [][Next]_vars

(* A worker keeps running and gets the mutex back after a handler: without  *)
(* the second part two workers could hand the mutex to each other forever.  *)
FairSpec ==
    /\ Spec
    /\ \A w \in Workers : WF_vars(Scan(w)) /\ SF_vars(HandlerReturns(w))

-----------------------------------------------------------------------------
(* Properties.                                                              *)

(* The variables have their types.                                          *)
TypeOK ==
    /\ now \in Nat
    /\ _timer_events \in Seq(Timers)
    /\ entry \in [Timers -> Entry]
    /\ mutex \in Workers \cup {NULL}
    /\ pc \in [Workers -> Control]
    /\ ptr \in [Workers -> Timers \cup {NULL}]
    /\ removed \in [Workers -> SUBSET Timers]

(* A worker owns the entry whose handler it runs and the entries it has     *)
(* collected for removal.                                                   *)
Owns(w, t) == (pc[w] = "run" /\ ptr[w] = t) \/ t \in removed[w]

(* No entry is handled by two workers, handled by one while another frees   *)
(* it, or freed by two: the flag is_processed hands an entry to one worker  *)
(* across the unlocked handler call (event_loop.c:345-365).                 *)
HandlerExclusive ==
    \A v, w \in Workers : \A t \in Timers : Owns(v, t) /\ Owns(w, t) => v = w

(* The entry a worker stands on or is about to free is still allocated and  *)
(* in the list, although other workers remove entries while the mutex is    *)
(* released: TAILQ_FOREACH never follows a freed entry.                     *)
NoDanglingPtr ==
    \A w \in Workers :
        /\ pc[w] \in {"scan", "run", "collect"} => InList(ptr[w])
        /\ \A t \in removed[w] : InList(t)

(* Timers stop being created at some point.  While they are, a pass may     *)
(* never end: the handler of every new entry at the end of the list can     *)
(* take longer than the period of the next one.                             *)
NoMoreTimers ==
    <>[][\A w \in Workers, t \in Timers, period \in Periods : ~el_timer(w, t, period)]_vars

(* A timer whose period has elapsed is eventually handled, although the     *)
(* workers that could fire it may be inside other timers' handlers.         *)
DueIsFired ==
    NoMoreTimers => \A t \in Timers :
        InList(t) /\ Due(t) ~> \E w \in Workers : pc[w] = "run" /\ ptr[w] = t

(* A deleted timer is eventually freed, whichever worker's pass it was in   *)
(* when its handler asked for the deletion (el_timer_free promises to free  *)
(* the memory).                                                             *)
DeletedIsFreed ==
    NoMoreTimers => \A t \in Timers : InList(t) /\ entry[t].has_delete ~> ~InList(t)

-----------------------------------------------------------------------------
(* The inductive invariant behind HandlerExclusive and NoDanglingPtr.       *)

NoDuplicates ==
    \A i, j \in DOMAIN _timer_events : _timer_events[i] = _timer_events[j] => i = j

MutexHeld ==
    \A w \in Workers : pc[w] \in {"scan", "collect", "purge"} <=> mutex = w

OwnedIsProcessed ==
    \A w \in Workers : \A t \in Timers : Owns(w, t) => entry[t].is_processed

NotOwnedTwice ==
    \A w \in Workers : pc[w] = "run" => ptr[w] \notin removed[w]

(* The fields, the list, the mutex and the workers' private lists agree: an *)
(* entry that some worker handles or has collected is marked is_processed   *)
(* and linked, and only the holder of the mutex is inside the scan.         *)
IInv ==
    /\ TypeOK
    /\ NoDuplicates
    /\ MutexHeld
    /\ OwnedIsProcessed
    /\ NotOwnedTwice
    /\ NoDanglingPtr
    /\ HandlerExclusive
===============================================================================
