----------------------------- MODULE ClientThreads -----------------------------
(***************************************************************************)
(* The client's threads and their connections (context.c): each thread has *)
(* an array of multiplex_contexts, watches their sockets with pselect and, *)
(* when nothing is ready in time, looks for domains with letters that no   *)
(* thread has a connection for.  What is said on a connection is           *)
(* ClientSession; here it goes on for a while and ends.                    *)
(*                                                                         *)
(* The end of the threads by a signal is left out.                         *)
(***************************************************************************)
EXTENDS Naturals, Sequences

CONSTANTS
    NumThreads,    \* app_context.threads_size
    DomainList,    \* the domains in the order of the directory
    Descriptors,   \* the numbers that sockets can have
    NULL

Threads == 0 .. NumThreads - 1
Domains == {DomainList[k] : k \in DOMAIN DomainList}

VARIABLES
    letters,   \* the domains with letters
    slots,     \* the memory of each thread's array of contexts
    thread,    \* where each thread is, with its variables
    mutex,     \* who holds server_thread_mutex
    open,      \* the open sockets
    ready,     \* those with an answer, or with room to write
    process    \* "up", or "fault"

vars == <<letters, slots, thread, mutex, open, ready, process>>

(* freed: the strings and names of this context are freed.                  *)
Slot(d, fd) == [domain |-> d, fd |-> fd, freed |-> FALSE]

(* list: the domains that had letters when the scan began.  size and fdmax  *)
(* are multiplex_context_size and fdmax; i and j are start_thread's.        *)
Init ==
    /\ letters = {} /\ open = {} /\ ready = {}
    /\ slots = [t \in Threads |-> <<>>]
    /\ thread = [t \in Threads |->
                   [pc |-> "select", i |-> 0, j |-> 0, list |-> {}, size |-> 0, fdmax |-> 0]]
    /\ mutex = NULL /\ process = "up"

-----------------------------------------------------------------------------
At(t, pc) == process = "up" /\ thread[t].pc = pc

(* The contexts of a thread, and the sockets that pselect watches for it.   *)
Contexts(t) == 1 .. thread[t].size
Watched(t) == {fd \in {slots[t][n].fd : n \in Contexts(t)} : fd < thread[t].fdmax}

(* More contexts are counted than the array has: reset_socket_to_context    *)
(* reads what is behind it.                                                 *)
Overrun(t) == thread[t].size > Len(slots[t])

UseOverrun(t) ==
    /\ At(t, "select") /\ Overrun(t)
    /\ process' = "fault"
    /\ UNCHANGED <<letters, slots, thread, mutex, open, ready>>

(* pselect times out, and read_maildir_servers lists the directory.         *)
Timeout(t) ==
    /\ At(t, "select") /\ ~Overrun(t)
    /\ Watched(t) \cap ready = {}
    /\ thread' = [thread EXCEPT ![t] = [@ EXCEPT !.pc = "scan", !.i = 0, !.j = 0, !.list = letters]]
    /\ UNCHANGED <<letters, slots, mutex, open, ready, process>>

Domain(t) == DomainList[thread[t].j + 1]

(* The domain has letters and is one for this thread; i counts the          *)
(* connections of this scan.                                                *)
IsMine(t) ==
    Domain(t) \in thread[t].list /\ (thread[t].i + thread[t].j) % NumThreads = t

NextDomain(t) ==
    /\ At(t, "scan")
    /\ \/ /\ thread[t].j = Len(DomainList)
          /\ thread' = [thread EXCEPT ![t].pc = "select"]
       \/ /\ thread[t].j < Len(DomainList) /\ ~IsMine(t)
          /\ thread' = [thread EXCEPT ![t].j = @ + 1]
    /\ UNCHANGED <<letters, slots, mutex, open, ready, process>>

(* is_contains compares with the contexts of all threads.  If it finds the  *)
(* domain it returns without unlocking the mutex.  A name that is freed may *)
(* still read as it was.                                                    *)
is_contains(t) ==
    /\ At(t, "scan")
    /\ thread[t].j < Len(DomainList) /\ IsMine(t)
    /\ mutex = NULL
    /\ LET Same == {<<s, n>> \in Threads \X (1 .. Len(DomainList)) :
                      /\ n \in Contexts(s) \cap DOMAIN slots[s]
                      /\ slots[s][n].domain = Domain(t)}
           Found == mutex' = t /\ thread' = [thread EXCEPT ![t].j = @ + 1]
       IN \/ Same # {} /\ Found
          \/ /\ \A c \in Same : slots[c[1]][c[2]].freed
             /\ thread' = [thread EXCEPT ![t].pc = "connect"]
             /\ UNCHANGED mutex
    /\ UNCHANGED <<letters, slots, open, ready, process>>

(* fdmax is set by the socket that came last.                               *)
add_socket_to_context(thr, fd) == [thr EXCEPT !.fdmax = fd + 1]

(* The new context gets the i-th place of an array that is copied up to     *)
(* there, whatever the thread had before.                                   *)
smtp_connect(t) ==
    /\ At(t, "connect")
    /\ \E fd \in Descriptors \ open :
         /\ \A other \in Descriptors \ open : fd <= other
         /\ open' = open \cup {fd}
         /\ slots' = [slots EXCEPT ![t] = SubSeq(@, 1, thread[t].i) \o <<Slot(Domain(t), fd)>>]
         /\ thread' = [thread EXCEPT ![t] =
              add_socket_to_context([@ EXCEPT !.pc = "scan", !.i = @ + 1, !.j = @ + 1, !.size = @ + 1], fd)]
    /\ UNCHANGED <<letters, mutex, ready, process>>

(* The connection is refused at once, or there is no descriptor left: the   *)
(* domain's letters are removed and the scan is over.                       *)
Unreachable(t) ==
    /\ At(t, "connect")
    /\ letters' = letters \ {Domain(t)}
    /\ thread' = [thread EXCEPT ![t].pc = "select"]
    /\ UNCHANGED <<slots, mutex, open, ready, process>>

-----------------------------------------------------------------------------
(* pselect has found the socket of the n-th context ready.                  *)
Serves(t, n) ==
    /\ At(t, "select") /\ ~Overrun(t)
    /\ slots[t][n].fd \in Watched(t) \cap ready

(* A handler reads an answer and sends the next command.                    *)
Handle(t, n) ==
    /\ Serves(t, n)
    /\ ready' = ready \ {slots[t][n].fd}
    /\ UNCHANGED <<letters, slots, thread, mutex, open, process>>

(* Its names are freed, and the handler uses them.                          *)
UseFreed(t, n) ==
    /\ Serves(t, n) /\ slots[t][n].freed
    /\ process' = "fault"
    /\ UNCHANGED <<letters, slots, thread, mutex, open, ready>>

(* ... and counted down by every socket that goes, whichever it is.         *)
remove_socket_from_context(thr) == [thr EXCEPT !.fdmax = @ - 1]

(* remove_multiplex_context moves the contexts behind the n-th one place    *)
(* down and then frees the strings of the n-th: those of the next context.  *)
remove_multiplex_context(t, n) ==
    /\ slots' = [slots EXCEPT ![t] =
         [k \in DOMAIN @ |->
            LET moved == IF k >= n /\ k < thread[t].size THEN @[k + 1] ELSE @[k]
            IN  IF k = n THEN [moved EXCEPT !.freed = TRUE] ELSE moved]]
    /\ thread' = [thread EXCEPT ![t] = remove_socket_from_context([@ EXCEPT !.size = @ - 1])]
    /\ open' = open \ {slots[t][n].fd}
    /\ ready' = ready \ {slots[t][n].fd}

(* The session is over, and its letters are removed or kept for later.      *)
EndSession(t, n) ==
    /\ Serves(t, n)
    /\ remove_multiplex_context(t, n)
    /\ letters' \in {letters, letters \ {slots[t][n].domain}}
    /\ UNCHANGED <<mutex, process>>

-----------------------------------------------------------------------------
(* The server stores a letter for a foreign domain.                         *)
Arrive(d) ==
    /\ process = "up" /\ d \notin letters
    /\ letters' = letters \cup {d}
    /\ UNCHANGED <<slots, thread, mutex, open, ready, process>>

(* The peer answers, or the socket has room.                                *)
BecomesReady(fd) ==
    /\ process = "up" /\ fd \in open \ ready
    /\ ready' = ready \cup {fd}
    /\ UNCHANGED <<letters, slots, thread, mutex, open, process>>

ThreadStep(t) ==
    \/ UseOverrun(t) \/ Timeout(t) \/ NextDomain(t) \/ is_contains(t)
    \/ smtp_connect(t) \/ Unreachable(t)
    \/ \E n \in Contexts(t) : Handle(t, n) \/ UseFreed(t, n) \/ EndSession(t, n)

Next ==
    \/ \E t \in Threads : ThreadStep(t)
    \/ \E d \in Domains : Arrive(d)
    \/ \E fd \in Descriptors : BecomesReady(fd)

Spec == Init /\ [][Next]_vars

-----------------------------------------------------------------------------
(* "The client [is to] process several outgoing connections in one thread   *)
(* of execution" by pselect (client report, main.tex:128), which waits for  *)
(* any of the sockets it is given (main.tex:125): pselect watches all the   *)
(* connections of its thread.                                               *)
ConnectionsWatched ==
    \A t \in Threads : At(t, "select") /\ ~Overrun(t) =>
        \A n \in Contexts(t) : slots[t][n].fd \in Watched(t)
===============================================================================
