--------------------------- MODULE ElTimersProofs ----------------------------
(***************************************************************************)
(* Proofs about the timers of the event loop, for any number of workers,    *)
(* timers and periods and an unbounded clock bound.                         *)
(***************************************************************************)
EXTENDS ElTimers, TLAPS

(* Facts about the list operations.                                         *)

(* The first entry is in the list.                                          *)
LEMMA FirstInList ==
    ASSUME _timer_events \in Seq(Timers), First # NULL
    PROVE  First \in Timers /\ InList(First)
BY DEF First, InList

(* The successor of a linked entry is linked, or there is none.             *)
LEMMA FollowingInList ==
    ASSUME _timer_events \in Seq(Timers), NEW t, InList(t), Following(t) # NULL
    PROVE  Following(t) \in Timers /\ InList(Following(t))
<1> DEFINE i == CHOOSE k \in DOMAIN _timer_events : _timer_events[k] = t
<1>1. i \in DOMAIN _timer_events
  BY DEF InList
<1>2. Following(t) = IF i = Len(_timer_events) THEN NULL ELSE _timer_events[i + 1]
  BY DEF Following
<1>3. i + 1 \in DOMAIN _timer_events /\ Following(t) = _timer_events[i + 1]
  <2> HIDE DEF i
  <2> QED BY <1>1, <1>2
<1> HIDE DEF i
<1> QED BY <1>3 DEF InList

(* Appending an unlinked entry links it and makes no duplicate.             *)
LEMMA AppendLinks ==
    ASSUME _timer_events \in Seq(Timers), NoDuplicates,
           NEW t \in Timers, ~InList(t), _timer_events' = Append(_timer_events, t)
    PROVE  /\ _timer_events' \in Seq(Timers)
           /\ NoDuplicates'
           /\ \A u \in Timers : InList(u) => InList(u)'
<1> DEFINE n == Len(_timer_events)
<1>1. n \in Nat /\ DOMAIN _timer_events = 1 .. n
  OBVIOUS
<1>2. /\ _timer_events' \in Seq(Timers)
      /\ DOMAIN _timer_events' = 1 .. (n + 1)
      /\ \A j \in 1 .. n : _timer_events'[j] = _timer_events[j]
      /\ _timer_events'[n + 1] = t
  OBVIOUS
<1> HIDE DEF n
<1>3. \A j \in 1 .. n : _timer_events[j] # t
  BY <1>1 DEF InList
<1>4. NoDuplicates'
  <2> SUFFICES ASSUME NEW j \in 1 .. (n + 1), NEW k \in 1 .. (n + 1),
                      _timer_events'[j] = _timer_events'[k]
               PROVE  j = k
    BY <1>2 DEF NoDuplicates
  <2>1. \A a, b \in 1 .. n : _timer_events[a] = _timer_events[b] => a = b
    BY <1>1 DEF NoDuplicates
  <2> QED BY <2>1, <1>1, <1>2, <1>3
<1>5. ASSUME NEW u \in Timers, InList(u)
      PROVE  InList(u)'
  <2>1. PICK j \in 1 .. n : _timer_events[j] = u
    BY <1>1, <1>5 DEF InList
  <2>2. j \in 1 .. (n + 1) /\ _timer_events'[j] = u
    BY <2>1, <1>1, <1>2
  <2> QED BY <2>2, <1>2 DEF InList
<1> QED BY <1>2, <1>4, <1>5

(* Unlinking the i-th entry of a list without duplicates removes that entry *)
(* and no other, and leaves no duplicates.                                  *)
LEMMA WithoutRemoves ==
    ASSUME _timer_events \in Seq(Timers), NoDuplicates,
           NEW i \in DOMAIN _timer_events, _timer_events' = Without(i)
    PROVE  /\ _timer_events' \in Seq(Timers)
           /\ NoDuplicates'
           /\ \A t \in Timers : InList(t)' <=> InList(t) /\ t # _timer_events[i]
<1> DEFINE n == Len(_timer_events)
<1>1. n \in Nat /\ n - 1 \in Nat /\ i \in 1 .. n
  BY DEF Without
<1>2. _timer_events' = [j \in 1 .. (n - 1) |->
                          IF j < i THEN _timer_events[j] ELSE _timer_events[j + 1]]
  BY DEF Without
<1>3. \A j \in 1 .. (n - 1) :
        _timer_events'[j] = IF j < i THEN _timer_events[j] ELSE _timer_events[j + 1]
  BY <1>2
<1>4. DOMAIN _timer_events = 1 .. n
  OBVIOUS
<1>4b. DOMAIN _timer_events' = 1 .. (n - 1)
  BY <1>2
<1>5. _timer_events' \in Seq(Timers)
  <2>1. \A j \in 1 .. (n - 1) : _timer_events'[j] \in Timers
    BY <1>1, <1>3
  <2> QED BY <1>1, <1>2, <2>1
<1> HIDE DEF n
<1>6. NoDuplicates'
  <2> SUFFICES ASSUME NEW j \in 1 .. (n - 1), NEW k \in 1 .. (n - 1),
                      _timer_events'[j] = _timer_events'[k]
               PROVE  j = k
    BY <1>4b DEF NoDuplicates
  <2>1. \A a, b \in 1 .. n : _timer_events[a] = _timer_events[b] => a = b
    BY <1>4 DEF NoDuplicates
  <2> QED BY <1>1, <1>3, <2>1
<1>7. ASSUME NEW t \in Timers
      PROVE  InList(t)' <=> InList(t) /\ t # _timer_events[i]
  <2>1. \A a, b \in 1 .. n : _timer_events[a] = _timer_events[b] => a = b
    BY <1>4 DEF NoDuplicates
  <2>2. InList(t)' => InList(t) /\ t # _timer_events[i]
    <3> SUFFICES ASSUME NEW j \in 1 .. (n - 1), _timer_events'[j] = t
                 PROVE  InList(t) /\ t # _timer_events[i]
      BY <1>4b DEF InList
    <3>1. CASE j < i
      BY <3>1, <1>1, <1>3, <1>4, <2>1 DEF InList
    <3>2. CASE ~(j < i)
      BY <3>2, <1>1, <1>3, <1>4, <2>1 DEF InList
    <3> QED BY <3>1, <3>2
  <2>3. InList(t) /\ t # _timer_events[i] => InList(t)'
    <3> SUFFICES ASSUME NEW j \in 1 .. n, _timer_events[j] = t, j # i
                 PROVE  \E k \in 1 .. (n - 1) : _timer_events'[k] = t
      BY <1>4, <1>4b DEF InList
    <3>1. CASE j < i
      BY <3>1, <1>1, <1>3
    <3>2. CASE j > i
      <4>1. j - 1 \in 1 .. (n - 1) /\ ~(j - 1 < i) /\ (j - 1) + 1 = j
        BY <3>2, <1>1
      <4> QED BY <4>1, <1>3
    <3> QED BY <3>1, <3>2, <1>1
  <2> QED BY <2>2, <2>3
<1> QED BY <1>5, <1>6, <1>7

-----------------------------------------------------------------------------
(* The inductive invariant.                                                 *)

(* The initial state: no timers, every worker between two calls.            *)
LEMMA InitIInv == Init => IInv
<1> SUFFICES ASSUME Init PROVE IInv
  OBVIOUS
<1> USE DEF Init
<1>1. TypeOK
  BY TimersAssumption DEF TypeOK, Entry, Control
<1>2. NoDuplicates
  BY DEF NoDuplicates
<1>3. MutexHeld /\ OwnedIsProcessed /\ NotOwnedTwice /\ NoDanglingPtr /\ HandlerExclusive
  BY TimersAssumption
  DEF MutexHeld, OwnedIsProcessed, NotOwnedTwice, NoDanglingPtr, HandlerExclusive, Owns
<1> QED BY <1>1, <1>2, <1>3 DEF IInv

(* el_timer links a fresh entry: entries already owned are other ones.      *)
LEMMA ElTimerIInv ==
    ASSUME IInv, NEW w \in Workers, NEW t \in Timers, NEW period \in Periods,
           el_timer(w, t, period)
    PROVE  IInv'
<1> USE DEF IInv, el_timer
<1>1. /\ _timer_events' \in Seq(Timers)
      /\ NoDuplicates'
      /\ \A u \in Timers : InList(u) => InList(u)'
  BY AppendLinks DEF TypeOK
<1>2. TypeOK'
  BY <1>1, TimersAssumption DEF TypeOK, Entry
<1>3. \A v \in Workers, u \in Timers : Owns(v, u)' <=> Owns(v, u)
  BY DEF Owns
<1>4. \A v \in Workers : ~Owns(v, t)
  BY DEF NoDanglingPtr, Owns
<1>5. OwnedIsProcessed'
  BY <1>3, <1>4 DEF OwnedIsProcessed, TypeOK
<1>6. MutexHeld' /\ NotOwnedTwice'
  BY DEF MutexHeld, NotOwnedTwice
<1>7. NoDanglingPtr'
  <2>1. ASSUME NEW v \in Workers, pc[v] \in {"scan", "run", "collect"}
        PROVE  InList(ptr[v])'
    <3>1. InList(ptr[v])
      BY <2>1 DEF NoDanglingPtr
    <3>2. ptr[v] \in Timers
      BY <3>1 DEF InList, TypeOK
    <3> QED BY <3>1, <3>2, <1>1 DEF InList
  <2>2. ASSUME NEW v \in Workers, NEW u \in removed[v]
        PROVE  InList(u)'
    BY <2>2, <1>1 DEF NoDanglingPtr, TypeOK
  <2> QED BY <2>1, <2>2 DEF NoDanglingPtr, InList
<1>8. HandlerExclusive'
  BY <1>3 DEF HandlerExclusive
<1> QED BY <1>1, <1>2, <1>5, <1>6, <1>7, <1>8

(* A step that leaves the list alone leaves the linked entries alone.       *)
LEMMA ListUnchanged ==
    ASSUME UNCHANGED _timer_events
    PROVE  /\ NoDuplicates' <=> NoDuplicates
           /\ \A t : InList(t)' <=> InList(t)
BY DEF NoDuplicates, InList

(* el_timer_free marks the entry whose handler the worker runs.             *)
LEMMA ElTimerFreeIInv ==
    ASSUME IInv, NEW w \in Workers, el_timer_free(w)
    PROVE  IInv'
<1> USE DEF IInv, el_timer_free
<1>1. ptr[w] \in Timers
  BY DEF NoDanglingPtr, InList, TypeOK
<1>2. TypeOK'
  BY <1>1 DEF TypeOK, Entry
<1>3. \A u \in Timers : entry'[u].is_processed = entry[u].is_processed
  BY <1>1 DEF TypeOK, Entry
<1>4. OwnedIsProcessed'
  BY <1>3 DEF OwnedIsProcessed, Owns
<1>5. NoDuplicates' /\ MutexHeld' /\ NotOwnedTwice' /\ HandlerExclusive'
  BY ListUnchanged DEF MutexHeld, NotOwnedTwice, HandlerExclusive, Owns
<1>6. NoDanglingPtr'
  BY DEF NoDanglingPtr, InList
<1> QED BY <1>2, <1>4, <1>5, <1>6

(* A worker takes the mutex and starts at the head of the list.             *)
LEMMA StartScanIInv ==
    ASSUME IInv, NEW w \in Workers, StartScan(w)
    PROVE  IInv'
<1> USE DEF IInv, StartScan
<1>1. First # NULL => First \in Timers /\ InList(First)
  BY FirstInList DEF TypeOK
<1>2. TypeOK'
  BY <1>1 DEF TypeOK, Control
<1>3. \A v \in Workers, u \in Timers : Owns(v, u)' => Owns(v, u)
  BY DEF Owns, TypeOK
<1>4. OwnedIsProcessed' /\ HandlerExclusive'
  BY <1>3 DEF OwnedIsProcessed, HandlerExclusive
<1>5. MutexHeld'
  BY TimersAssumption DEF MutexHeld, TypeOK
<1>6. NotOwnedTwice' /\ NoDuplicates'
  BY ListUnchanged DEF NotOwnedTwice, TypeOK
<1>7. NoDanglingPtr'
  <2>1. ASSUME NEW v \in Workers, pc'[v] \in {"scan", "run", "collect"}
        PROVE  InList(ptr[v])'
    BY <2>1, <1>1, ListUnchanged DEF NoDanglingPtr, TypeOK, InList
  <2>2. ASSUME NEW v \in Workers, NEW u \in removed'[v]
        PROVE  InList(u)'
    BY <2>2, ListUnchanged DEF NoDanglingPtr
  <2> QED BY <2>1, <2>2 DEF NoDanglingPtr
<1> QED BY <1>2, <1>4, <1>5, <1>6, <1>7

(* A worker claims a due entry: it was not processed, so nobody owned it.   *)
LEMMA FireTimerIInv ==
    ASSUME IInv, NEW w \in Workers, FireTimer(w)
    PROVE  IInv'
<1> USE DEF IInv, FireTimer
<1>1. ptr[w] \in Timers
  BY DEF NoDanglingPtr, InList, TypeOK
<1>2. \A v \in Workers : ~Owns(v, ptr[w])
  BY <1>1 DEF OwnedIsProcessed, Due
<1>3. TypeOK'
  BY <1>1, TimersAssumption DEF TypeOK, Entry, Control
<1>4. \A v \in Workers, u \in Timers :
        Owns(v, u)' <=> (Owns(v, u) \/ (v = w /\ u = ptr[w]))
  BY DEF Owns, TypeOK
<1>5. OwnedIsProcessed' /\ HandlerExclusive'
  BY <1>1, <1>2, <1>4 DEF OwnedIsProcessed, HandlerExclusive, TypeOK, Entry
<1>6. MutexHeld'
  BY TimersAssumption DEF MutexHeld, TypeOK
<1>7. NotOwnedTwice' /\ NoDuplicates'
  BY <1>2, ListUnchanged DEF NotOwnedTwice, TypeOK, Owns
<1>8. NoDanglingPtr'
  BY ListUnchanged DEF NoDanglingPtr, TypeOK, InList
<1> QED BY <1>3, <1>5, <1>6, <1>7, <1>8

(* The handler returns and its worker gives the entry back.                 *)
LEMMA HandlerReturnsIInv ==
    ASSUME IInv, NEW w \in Workers, HandlerReturns(w)
    PROVE  IInv'
<1> USE DEF IInv, HandlerReturns
<1>1. ptr[w] \in Timers /\ Owns(w, ptr[w])
  BY DEF NoDanglingPtr, InList, TypeOK, Owns
<1>2. TypeOK'
  <2> DEFINE e == [entry[ptr[w]] EXCEPT !.is_processed = FALSE, !.time_start = now]
  <2>1. e \in Entry
    BY <1>1 DEF TypeOK, Entry
  <2>2. entry' = [entry EXCEPT ![ptr[w]] = e]
    BY <1>1 DEF TypeOK
  <2>3. pc' \in [Workers -> Control] /\ mutex' \in Workers \cup {NULL}
    BY DEF TypeOK, Control
  <2> HIDE DEF e
  <2>4. entry' \in [Timers -> Entry]
    BY <1>1, <2>1, <2>2 DEF TypeOK
  <2> QED BY <2>3, <2>4 DEF TypeOK
<1>3. \A v \in Workers, u \in Timers :
        Owns(v, u)' <=> (Owns(v, u) /\ ~(v = w /\ u = ptr[w]))
  BY DEF Owns, TypeOK, NotOwnedTwice
<1>4. OwnedIsProcessed'
  <2> SUFFICES ASSUME NEW v \in Workers, NEW u \in Timers, Owns(v, u)'
               PROVE  entry'[u].is_processed
    BY DEF OwnedIsProcessed
  <2>1. Owns(v, u) /\ ~(v = w /\ u = ptr[w])
    BY <1>3
  <2>2. u # ptr[w]
    BY <2>1, <1>1 DEF HandlerExclusive
  <2>3. entry[u].is_processed
    BY <2>1 DEF OwnedIsProcessed
  <2>4. entry'[u] = entry[u]
    BY <2>2 DEF TypeOK
  <2> QED BY <2>3, <2>4
<1>5. HandlerExclusive'
  BY <1>3 DEF HandlerExclusive
<1>6. MutexHeld'
  BY TimersAssumption DEF MutexHeld, TypeOK
<1>7. NotOwnedTwice' /\ NoDuplicates'
  BY ListUnchanged DEF NotOwnedTwice, TypeOK
<1>8. NoDanglingPtr'
  BY ListUnchanged DEF NoDanglingPtr, TypeOK, InList
<1> QED BY <1>2, <1>4, <1>5, <1>6, <1>7, <1>8

(* An entry that is not due is passed over.                                 *)
LEMMA SkipTimerIInv ==
    ASSUME IInv, NEW w \in Workers, SkipTimer(w)
    PROVE  IInv'
<1> USE DEF IInv, SkipTimer
<1>1. \A v \in Workers, u \in Timers : Owns(v, u)' <=> Owns(v, u)
  BY DEF Owns, TypeOK
<1>2. TypeOK'
  BY DEF TypeOK, Control
<1>3. OwnedIsProcessed' /\ HandlerExclusive'
  BY <1>1 DEF OwnedIsProcessed, HandlerExclusive
<1>4. MutexHeld' /\ NotOwnedTwice' /\ NoDuplicates'
  BY ListUnchanged DEF MutexHeld, NotOwnedTwice, TypeOK
<1>5. NoDanglingPtr'
  BY ListUnchanged DEF NoDanglingPtr, TypeOK, InList
<1> QED BY <1>2, <1>3, <1>4, <1>5

(* The scan collects a deleted idle entry and moves on.                     *)
LEMMA AdvanceIInv ==
    ASSUME IInv, NEW w \in Workers, Advance(w)
    PROVE  IInv'
<1> USE DEF IInv, Advance
<1>1. ptr[w] \in Timers /\ InList(ptr[w])
  BY DEF NoDanglingPtr, InList, TypeOK
<1>2. Following(ptr[w]) # NULL =>
        Following(ptr[w]) \in Timers /\ InList(Following(ptr[w]))
  BY <1>1, FollowingInList DEF TypeOK
<1>3. TypeOK'
  <2>1. entry' \in [Timers -> Entry] /\ removed' \in [Workers -> SUBSET Timers]
    <3>1. CASE Collectable(ptr[w])
      <4>1. entry' = [entry EXCEPT ![ptr[w]].is_processed = TRUE]
        BY <3>1
      <4>2. removed' = [removed EXCEPT ![w] = @ \cup {ptr[w]}]
        BY <3>1
      <4> QED BY <4>1, <4>2, <1>1 DEF TypeOK, Entry
    <3>2. CASE ~Collectable(ptr[w])
      BY <3>2 DEF TypeOK
    <3> QED BY <3>1, <3>2
  <2>2. ptr' \in [Workers -> Timers \cup {NULL}] /\ pc' \in [Workers -> Control]
    BY <1>2 DEF TypeOK, Control
  <2> QED BY <2>1, <2>2 DEF TypeOK
<1>4. OwnedIsProcessed' /\ HandlerExclusive'
  <2>1. CASE Collectable(ptr[w])
    <3>1. \A v \in Workers : ~Owns(v, ptr[w])
      BY <2>1, <1>1 DEF OwnedIsProcessed, Collectable
    <3>2. \A v \in Workers, u \in Timers :
            Owns(v, u)' => (Owns(v, u) \/ (v = w /\ u = ptr[w]))
      BY <2>1 DEF Owns, TypeOK
    <3>3. \A u \in Timers : u = ptr[w] \/ entry[u].is_processed => entry'[u].is_processed
      <4>1. entry' = [entry EXCEPT ![ptr[w]].is_processed = TRUE]
        BY <2>1
      <4> QED BY <4>1, <1>1 DEF TypeOK, Entry
    <3>4. OwnedIsProcessed'
      BY <3>2, <3>3 DEF OwnedIsProcessed
    <3>5. HandlerExclusive'
      BY <3>1, <3>2 DEF HandlerExclusive
    <3> QED BY <3>4, <3>5
  <2>2. CASE ~Collectable(ptr[w])
    <3>1. \A v \in Workers, u \in Timers : Owns(v, u)' => Owns(v, u)
      BY <2>2 DEF Owns, TypeOK
    <3> QED BY <2>2, <3>1 DEF OwnedIsProcessed, HandlerExclusive
  <2> QED BY <2>1, <2>2
<1>5. MutexHeld'
  BY DEF MutexHeld, TypeOK
<1>6. NotOwnedTwice' /\ NoDuplicates'
  BY ListUnchanged DEF NotOwnedTwice, TypeOK
<1>7. NoDanglingPtr'
  <2>1. ASSUME NEW v \in Workers, pc'[v] \in {"scan", "run", "collect"}
        PROVE  InList(ptr[v])'
    BY <2>1, <1>2, ListUnchanged DEF NoDanglingPtr, TypeOK, InList
  <2>2. ASSUME NEW v \in Workers, NEW u \in removed'[v]
        PROVE  InList(u)'
    BY <2>2, <1>1, ListUnchanged DEF NoDanglingPtr, TypeOK
  <2> QED BY <2>1, <2>2 DEF NoDanglingPtr
<1> QED BY <1>3, <1>4, <1>5, <1>6, <1>7

(* The collecting worker unlinks an entry nobody else stands on.            *)
LEMMA PurgeIInv ==
    ASSUME IInv, NEW w \in Workers, Purge(w)
    PROVE  IInv'
<1> USE DEF IInv, Purge
<1>1. PICK i \in DOMAIN _timer_events :
        /\ _timer_events[i] \in removed[w]
        /\ removed' = [removed EXCEPT ![w] = @ \ {_timer_events[i]}]
        /\ _timer_events' = Without(i)
  OBVIOUS
<1> DEFINE t == _timer_events[i]
<1>2. t \in Timers /\ Owns(w, t)
  BY <1>1 DEF TypeOK, Owns
<1>3. /\ _timer_events' \in Seq(Timers)
      /\ NoDuplicates'
      /\ \A u \in Timers : InList(u)' <=> InList(u) /\ u # t
  BY <1>1, WithoutRemoves DEF TypeOK
<1> HIDE DEF t
<1>4. TypeOK'
  BY <1>1, <1>3 DEF TypeOK
<1>5. \A v \in Workers, u \in Timers : Owns(v, u)' => Owns(v, u)
  BY <1>1 DEF Owns, TypeOK
<1>6. OwnedIsProcessed' /\ HandlerExclusive'
  BY <1>5 DEF OwnedIsProcessed, HandlerExclusive
<1>7. MutexHeld' /\ NotOwnedTwice'
  BY <1>1 DEF MutexHeld, NotOwnedTwice, TypeOK
<1>8. NoDanglingPtr'
  <2>1. ASSUME NEW v \in Workers, pc[v] \in {"scan", "run", "collect"}
        PROVE  InList(ptr[v])'
    <3>1. v # w /\ pc[v] = "run"
      BY <2>1 DEF MutexHeld
    <3>2. ptr[v] \in Timers /\ InList(ptr[v]) /\ Owns(v, ptr[v])
      BY <2>1, <3>1 DEF NoDanglingPtr, InList, TypeOK, Owns
    <3>3. ptr[v] # t
      BY <3>1, <3>2, <1>2 DEF HandlerExclusive
    <3> QED BY <3>2, <3>3, <1>3 DEF InList
  <2>2. ASSUME NEW v \in Workers, NEW u \in removed'[v]
        PROVE  InList(u)'
    <3>1. u \in removed[v] /\ u \in Timers /\ (v = w => u # t)
      BY <2>2, <1>1 DEF TypeOK, t
    <3>2. u # t
      BY <3>1, <1>2 DEF HandlerExclusive, Owns
    <3> QED BY <3>1, <3>2, <1>3 DEF NoDanglingPtr
  <2> QED BY <2>1, <2>2 DEF NoDanglingPtr, InList
<1> QED BY <1>3, <1>4, <1>6, <1>7, <1>8

(* The pass ends, the worker goes on to socket events or returns.           *)
LEMMA LeaveScanIInv ==
    ASSUME IInv, NEW w \in Workers, EndScan(w) \/ el_run_returns(w)
    PROVE  IInv'
<1> USE DEF IInv, EndScan, el_run_returns
<1>1. \A v \in Workers, u \in Timers : Owns(v, u)' <=> Owns(v, u)
  BY DEF Owns, TypeOK
<1>2. TypeOK'
  BY DEF TypeOK, Control
<1>3. OwnedIsProcessed' /\ HandlerExclusive'
  BY <1>1 DEF OwnedIsProcessed, HandlerExclusive
<1>4. MutexHeld' /\ NotOwnedTwice' /\ NoDuplicates'
  BY ListUnchanged, TimersAssumption DEF MutexHeld, NotOwnedTwice, TypeOK
<1>5. NoDanglingPtr'
  BY ListUnchanged DEF NoDanglingPtr, TypeOK, InList
<1> QED BY <1>2, <1>3, <1>4, <1>5

(* Only the clock moves, or nothing does.                                   *)
LEMMA IdleIInv ==
    ASSUME IInv, Tick \/ UNCHANGED vars
    PROVE  IInv'
<1> USE DEF IInv, Tick, vars
<1>1. TypeOK'
  BY DEF TypeOK
<1>2. NoDuplicates' /\ MutexHeld' /\ NotOwnedTwice'
  BY ListUnchanged DEF MutexHeld, NotOwnedTwice
<1>3. OwnedIsProcessed' /\ HandlerExclusive'
  BY DEF OwnedIsProcessed, HandlerExclusive, Owns
<1>4. NoDanglingPtr'
  BY DEF NoDanglingPtr, InList
<1> QED BY <1>1, <1>2, <1>3, <1>4

-----------------------------------------------------------------------------
(* The theorems.                                                            *)

(* The strengthened invariant is inductive: whatever the workers interleave *)
(* between the unlock and the relock around a timer's handler               *)
(* (event_loop.c:346-350), flags, list and private lists stay consistent.   *)
THEOREM InductiveInvariant == Spec => []IInv
<1>1. ASSUME IInv, [Next]_vars
      PROVE  IInv'
  <2>1. CASE Tick \/ UNCHANGED vars
    BY <2>1, <1>1, IdleIInv
  <2>2. ASSUME NEW w \in Workers, Scan(w)
        PROVE  IInv'
    BY <2>2, <1>1, StartScanIInv, FireTimerIInv, HandlerReturnsIInv, SkipTimerIInv,
       AdvanceIInv, PurgeIInv, LeaveScanIInv
    DEF Scan
  <2>3. ASSUME NEW w \in Workers, el_timer_free(w)
        PROVE  IInv'
    BY <2>3, <1>1, ElTimerFreeIInv
  <2>4. ASSUME NEW w \in Workers, NEW t \in Timers, NEW period \in Periods,
               el_timer(w, t, period)
        PROVE  IInv'
    BY <2>4, <1>1, ElTimerIInv
  <2> QED BY <1>1, <2>1, <2>2, <2>3, <2>4 DEF Next
<1> QED BY <1>1, InitIInv, PTL DEF Spec

(* The variables keep their types.                                          *)
THEOREM TypeCorrect == Spec => []TypeOK
BY InductiveInvariant, PTL DEF IInv

(* A timer entry is never in the hands of two workers: el_run runs its      *)
(* handler in one thread, and frees it once and never under a handler.      *)
THEOREM HandlerIsExclusive == Spec => []HandlerExclusive
BY InductiveInvariant, PTL DEF IInv

(* No worker stands on, or is about to free, an entry that is already freed.*)
THEOREM NoUseAfterFree == Spec => []NoDanglingPtr
BY InductiveInvariant, PTL DEF IInv
===============================================================================
