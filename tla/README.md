# postman: a TLA+ model of the mail server

postman is an SMTP server and an SMTP client, both written in C, that share a
maildir. The server receives mail over SMTP. Letters for its own users go to
the users' mailboxes; letters for other servers go to a directory per foreign
domain, where the client finds them, sends them on and removes them. This
directory models the server, with its event loop, its connections, its SMTP
sessions, its delivery, its logger and its way up and down, and the client, with its
session with another server and its threads.

Paths below are relative to `src/server/src/lib/` unless they say otherwise.

## 1. Inventory

| Part | State | Operations | Works with |
|---|---|---|---|
| Event loop (`event_loop/`) | registered events, occurred events, acceptors, `_is_run` | `el_async_read`, `el_async_write`, `el_async_accept`, `el_socket_close`, `el_run`; the manager thread's `pr_manager_step` | the kernel below, handlers above |
| Event-loop timers (`event_loop/event_loop.c`) | `_timer_events`, each with `is_processed`, `has_delete`, `time_start`, `period` | `el_timer`, `el_timer_free`, the timer pass of `el_run` | called by handlers, calls `handler_timer` |
| Connections (`server/server.c`, `users_list.c`, `timers.c`) | the list of users, the list of `(socket, last_update)` timers, the descriptors | `handler_accept`, `handler_hello_write`, `handler_read`, `handler_write`, `handler_timer`, `handler_close_socket`, `user_disconnected` | event loop, SMTP session |
| SMTP session (`smtp/state.c`, `smtp/generated/`) | automaton state, sender, recipients, text, reply | `smtp_init`, `smtp_parse` and one function per command, `smtp_move_buffer` | `handler_read` feeds lines, `handler_smtp` calls `send_mail` |
| Delivery (`server/server.c: send_mail`, `maildir/`, `server/table.c`) | directories and files | find or make a box, create, write, finalize a message | several workers at once, the client process |
| Line assembly (`handler_read`, `util.c`, `vector.h`) | the user's byte buffer | append a packet, search `\r\n`, keep the rest | between event loop and session |
| Start and shutdown (`src/server/src/main.c`, `thread_pool.c`, `server/config.c`) | the threads, `_is_run`, which of the loop's mutexes and queues still exist | `main`, `el_open`, `thread_pool_push`, the signal handler, `el_stop`, `thread_pool_free`, `el_close` | event loop, logger |
| Logger (`log/context.c`) | message queue, `is_run`, the mutex of the queue | `log_write`, the logging thread, `log_free` | called by every thread and by the signal handler |
| Containers (`vector.h`, `table.c`) | buffers | push, remove, grow | everything |
| Client's session (`src/client/src/context/`, `smtp/`, `maildir/`) | a `multiplex_context`: state, last status, letters, counters | scan the directory, connect, one handler per state, remove a file | the maildir, an SMTP server |
| Client's threads (`src/client/src/context/`) | threads, the list of contexts of each, `server_thread_mutex` | divide the domains, poll, stop | several sessions |
| Unused (`protocol/`, `sockets_queue.c` mostly) | - | - | older versions |

### How the parts interact

One manager thread owns `poll`. It builds an array from the registered events
under a mutex, polls it without the mutex, and for each ready descriptor pops
the registered event, does the I/O and appends the event to the occurred
events. Several worker threads call `el_run`: each call runs the due timers,
then takes one occurred event and calls its handler. Handlers register the next
event. Registration is one-shot. A worker that handles an event of a connection
takes the connection's `user_context` *out* of the list of users and puts it
back when it is done; there is no other lock on a session. A complete letter is
delivered by the worker that parsed the final dot; several workers do this at
once in one directory tree, without a lock, and rely on the file system.

### What is hard

* The manager works on a snapshot that workers make stale.
* Timer handlers run with the timer list unlocked, in the middle of a scan.
* A handler is a sequence of calls, each atomic by itself and not together;
  the order of "register the next event" and "put the user back" matters.
* A descriptor number is used again while timers, events or handlers of the
  previous connection still exist.
* The session's transaction is spread over many commands, some of which change
  the automaton's state although they are refused.
* A line or the final dot may be cut anywhere by `recv`.
* The client counts recipients and lines in one variable and keeps the last
  status in another; both outlive commands, letters and connections.
* Delivery is several system calls, any of which may fail, overlap with another
  worker's, or be the last before the process dies.
* A signal may interrupt any thread anywhere, and its handler takes mutexes.
* On the way down, what threads use is destroyed before they are joined.
* The client's threads share one mutex, and each keeps its contexts in an array
  whose length, size and highest descriptor are three numbers.

### What makes each part correct

| Part | Properties |
|---|---|
| Event loop | an event object has one owner; a handler is called once per registration, in the order of occurrence; a pending write is not forgotten; what is ready is served |
| Timers | an entry is handled or freed by one thread, none is touched after it is freed; due timers fire, deleted ones are freed |
| Connections | a session belongs to one thread; reads fill live buffers; one session and one outstanding event per descriptor; sessions end, and their timers are freed, but where the code forgets one |
| Line assembly | no byte is lost; the lines do not depend on how the text is cut, and a letter ends at its first dot, if no CR follows another |
| Session | the letter delivered is the one the replies promised |
| Delivery | no partial letter is visible; no acknowledged letter is lost, across a crash and all failures that the code is told of; to its users it is a store in which copies only get on |
| Start and shutdown | a stop that nothing takes back ends the process; what is freed has no user left; threads, handlers and joins wait for each other in no circle |
| Logger | every message logged is printed before the process ends |
| Client's threads | every connection of a thread is watched |
| Client's session | a file is removed as sent only if the peer accepted it; what is accepted has the recipients and lines of one letter, in order; client and peer keep in step; every letter is settled once failures stop |

`PROJECT.json` lists the hazards at their lines, with the properties that cover
them or the reason why none does.

## 2. Plan

1. `ElTimers`, proved. Done.
2. `EventLoop` with the abstract `EventDelivery`; the safety properties and the
   refinement are checked and proved. Done.
3. `Server`, proved for `UserExclusive` with timeouts and for the other safety
   properties while none elapses. Done; left is a liveness property of timeouts (which the code
   does not have when the 421 reply meets a registered write, server.c:316-323).
4. `SmtpSession`, proved. Done; next the run that refutes "RCPT before a
   transaction is answered 503" (server report, main.tex:102) after a MAIL
   answered 501.
5. `MaildirDelivery`, proved, with the abstract `MailStore`; the refinement is
   checked and proved. Done.
6. `LineReader`: the buffer of `handler_read`, `sub_str_iterate` and the growth
   of the vector, proved. Done.
7. `ClientSession`: the client's dialogue with one server, proved. Done; left is
   `SmtpSession` as its peer.
8. `ClientThreads`: several domains, threads and connections. Done, as a run that
   shows what goes wrong; the end of the threads by a signal is left.
9. `Logger`, and 10. `Shutdown`, which composes it with the threads that log,
   proved. Done.

Compositions: `Server` uses `ElTimers` and `EventLoop` through what they are
shown to promise (a timer's handler runs on one worker at a time; one-shot
events, handled in order). `SmtpSession` is the content of `Server`'s `Parse`.
`MaildirDelivery` is the `send_mail` inside `SmtpSession`'s `DataEnd`.
`LineReader` is the loop of `handler_read` around `smtp_parse`, for bytes where
`SmtpSession` has lines. `ClientSession` is what happens inside
`MaildirDelivery`'s `Relay`, and its `Arrive` is that module's rename.
`ClientThreads` is around several `ClientSession`s: a session is its `Handle` and
`EndSession`. `Shutdown` extends `Logger`, and its `ElRun` and the turns of the
manager are what `EventLoop` has in detail.

## 3. Modules

### ElTimers

The list `_timer_events`, its entries' flags and the mutex
`_mutex_registered_events`. Every worker runs the loop of `el_run`
(event_loop.c:337-376): `StartScan` locks and goes to the first entry;
`FireTimer` marks a due entry, unlocks and calls the handler; `HandlerReturns`
locks again and unmarks it; `Advance` collects a deleted entry into the
worker's private list and follows the *current* next pointer; `Purge` unlinks
and frees what was collected. Inside handlers, and while a worker handles socket
events, it may call `el_timer`; the handler of a timer may call
`el_timer_free` on its own entry, which is the only way the program uses it.
Names of entries are addresses: `el_timer` may reuse one that was freed, which
is what makes a dangling pointer visible.

### EventLoop and EventDelivery

`EventLoop` has the two queues, the manager thread as a program counter
(`build`, `poll`, `serve`, `io`, `queue`, `again`), the workers, and the kernel
as sets of open descriptors and of ready (descriptor, type) pairs.
`el_socket_close` is its three steps (unregister, close, enqueue the close
event), since it holds the mutex only for the first. `polled` is the manager's
array; `dropped` is a history variable that remembers what `el_socket_close`
took back since the snapshot. The manager dereferences the result of a pop:
`PopNothing` is that step and ends in `fault`. An event's buffer, offset, status
and handler are left out: no decision of the loop depends on them. A failed registration (EXISTS)
leaks the object and changes nothing else; its address is then not used again,
which the model does not distinguish from being unused.

`EventDelivery` is what handlers rely on: free, waiting, arrived, handled, free
again; arrived events are handled in order. The refinement mapping `PhaseOf`
reads the phase of an object off the place where it is.

### Server

Every handler of server.c is the list of calls it makes (`todo`); a worker makes
the call at the head, and in between the manager and the other workers go on.
`find` is `users_list__user_find_by_sock`, which takes the user out of the list
and decides how the handler goes on (`WithUser`, `WithoutUser`). `Parse` is the
part of `handler_read` that works on the user: it ends in a reply, a reply to
QUIT, or no reply. `handler_timer` makes three separate reads before it acts.
The event loop is `registered`, `held` (the event whose I/O is being done) and
`occurred`; the event loop's timers are a number per descriptor (`alarms`), and one whose
`handler_timer` runs is with its worker until the handler frees it or returns (`Armed` counts
both). A
`user_context` is an address that malloc may return again after free; the
address that a `handler_accept` will get is chosen when the accept event
occurs, so that freed and reused memory is told apart. `accept` may fail and
then hands the handler descriptor -1 (`NoSocket`), which the code treats as a
client.

Not distinguished from the code: the manager's null dereference (shown in
`EventLoop`) cannot happen here, because `StartIO` takes a registered event;
an unfinished write that is registered again is one longer `held`, so the
EXISTS of that second registration is `EventLoop`'s subject alone;
`timers_is_exist_for_socket`, which reads without the mutex, is one atomic
read.

### SmtpSession

A line is the command and the argument that the regular expressions extract
from it, and whether the argument has the right form. `autofsm_step` is the
generated table. As in `smtp_parse`, the automaton moves on when it allows the
command even if the command's argument is refused with 501. `handler_read`'s
rule is kept: after a line that is answered, the rest of the packet is dropped;
a line of the letter is followed by the next. `DataEnd` is handler_smtp's use of
the sender (absent after `MAIL FROM:<>`: `FAULT`) and the call of `send_mail`.
`agreed` is what a client knows from the replies; it is not a variable of the
program. `HELO` and a refused `MAIL` end what was agreed.

Left out: the comparison of the HELO name with the peer's address, which only
adds a header line, and the texts of replies.

### MaildirDelivery

`SendMail` sorts the recipients as `send_mail` does: its own users first, in
order, then each foreign domain once. For each copy: find the box, else make
its directories one `mkdir` at a time, create the file in `tmp`, write, close,
rename. `Fail` is `ERROR_LOG_AND_CLEANUP`: the loop over users ends at the
first error, the loop over domains continues with a bad status. The error of
`maildir_message_finalize` is ignored for users (server.c:505) and respected
for domains. The result of `maildir_create_server` is ignored
(server.c:548), which leaves a server object without a maildir and ends the
process (`fault`). `Kill` ends it anywhere; directories and files stay, and
`Restart` starts again. The sender of an unanswered letter does not send it
again in the model: a retry is a new letter. `Relay` is the client process.
`Failures` says which calls may fail in an instance. `MaxCopies` bounds the
copies of one letter.

`MailStore` is what this amounts to for the sender of a letter and for the
readers: a copy is kept, shown, and taken if it is for a foreign domain; that
happens while the letter is not answered (`taken` may come later); 250 is
said when every copy is kept, and nothing goes back. It knows neither
workers nor directories nor failures. The mapping `StageOf` reads the stage of a copy
off its file: a file that is not complete counts for nothing.

### LineReader

One connection's buffer. `Receive` pushes a packet; `CommandLine`, `LetterLine`,
`LetterEnd` and `KeepPartial` are one turn each of handler_read's loop
(server.c:217-286): a line of a command is always answered and whatever is behind
it is thrown away, a line of a letter goes to the session and the loop goes on,
the dot ends the letter, and a piece without line end moves to the front of
the buffer. That a turn is one step is justified by `UserExclusive` and
`OneOutstanding` of `Server`: no other thread touches the buffer meanwhile, and no
read is registered. `find_first_entry_str` is the code's search, which does not
look again at a byte that did not match; so "\r\r\n" is a line end only if it
stands at the end of the buffer, and what the session gets of such a text depends on the
packets (a dot behind it may be missed). `LinesAsSent` leaves those
texts out, and so does `EndsAtDot` where it says that a letter ends at its first
dot; the lines of both are those of `LinesOf`, which reads the whole text once from the
front, as no packet cuts it. The piece before the first two bytes (`buffer[-1]`, server.c:222) is
never a line end, as the byte in front of the array is part of the size of an
allocated chunk and 0 for small sizes. A NUL byte, at which `smtp_parse` would stop,
is not among the bytes.

### Logger and Shutdown

`Logger` has the queue of messages, what the logging thread took out of it, and what
was printed. A message is its author and its number. The thread takes the
whole queue (`Extract`), prints it without the mutex, and looks at `is_run` after
printing and after a wait, so it may leave messages behind; `FreeLogger` prints
them. The wait's timeout is a time long past and nothing signals the condition, so a
wait gives the mutex away and asks for it again.

`Shutdown` gives every thread the text it still has to run (`todo`), a sequence
of named steps. `Main` and `Exit` are main's; `Turn` is what a loop puts in front
of its next check of `_is_run`. A signal puts `posix_signal_handler` (log,
`el_stop`) in front of the text of any living thread, in the middle of whatever
it does and with whatever it holds; if it interrupts `poll`, the manager's loop
ends with an error afterwards. `_is_run` and the registered events have their
mutexes; `DestroyMutexes` destroys those that are free, and locking a destroyed
one is the error return of `PTHREAD_CHECK`: a check of the flag reads "no", the
manager's array is empty, its pop ends it.

`WaitsFor` says who waits for whom: for the owner of the mutex that the next step is
to lock, or for the thread that main is to join. `SelfLocked` is a handler that waits
for the thread it interrupted, which the code does not prevent (config.c:10).
`NoDeadlock` says that this is the only deadlock: in every set of threads that wait
for each other, or for a mutex whose owner has ended, one has locked itself.

What the code does with memory that is gone ends the process as `fault`:
`el_stop` on a freed event loop or `LOG_INFO` after `log_free`, both from a late
signal; the manager walking a queue that `el_close` has freed before it joins
the manager (or still finding the old contents, as freed memory may); and the join of
a manager that was never made, when there is no socket. If the configuration
cannot be read main returns without `LOG_FREE`, and messages may stay unprinted
(`failed`). What `el_run` does to timers and events is not repeated: for this
module it is a handler that may write a message. Its error, which would end the thread
(main.c:23-26), does not come: the loop's mutexes are destroyed only after the workers are
joined, and the queue was seen to have an event under the lock that it is taken out with.

### ClientThreads

The threads of the client, each with its array of `multiplex_context`s
(`slots`), the number of contexts it counts (`size`), and `fdmax`. `Timeout` is a
pselect without a ready socket, after which the directory is listed and
`NextDomain`, `is_contains` and `smtp_connect` (or `Unreachable`) go through the list:
a thread takes the domains with `(i + j) % threads = t`, where `i` counts the
connections of this scan. `server_thread_mutex` is held during `is_contains`, and kept if
the domain is found. The new context gets the `i`-th place of an array that is
reallocated with `i + 1` places, whatever connections the thread has; a thread that
counts more than the array has reads behind it (`Overrun`).
`remove_multiplex_context` moves the contexts behind the removed one down and
then frees the strings of that place, which are the next context's (`freed`);
their use is `UseFreed`. `fdmax` is the last socket plus one, counted down by every
socket that goes. A session is that it is served and that it ends; the rest is
`ClientSession`.

Left out: the end of the threads by a signal, and main's wait for them.

### ClientSession

`context` is the thread's only `multiplex_context`: `state` is
`smtp_context.state_code`, `status` is `response.status_code`, `messages` and `select`
are the list of the last scan and the letter at hand, `iteration` counts
recipients and then lines. A handler is one action: get a status (`Head` of the
unread replies, the status kept from before, or `UNDEFINED_ERROR`), then go on
and send, keep the status, or give up. Giving up after 4xx or a lost reply keeps the file
for the next scan, after 5xx it removes it; 550 to RCPT is passed over. After a
letter is sent the context goes back to the state HELO with the 250 still in
`status`, which `helo_handler` takes for its answer. `sock` says what pselect
would: "connecting" and "full" are not ready for writing. `Send` is
`send_line`: it may fail, leave the buffer full, or take a part of the line, after which the
loop sends the line's beginning again and not its rest (network.c:55). A command that went out
like that never has its end, and the peer waits for it until it gives up (`"cut"`); a line of
text arrives damaged, and `cut` of the peer's transaction remembers its number. A letter
without lines (`TextLines` 0), which the server stores (server.c:564), makes `data_handler`
read `strings[0]` that was never written (context.c:193): something is sent as a
line, or the process ends (`ReadUnwritten`). The peer gets a command at once and answers
later, with anything. `PeerCloses` may lose what is not read; `Kill` may happen between two
iterations. `calm` is a history variable: when it is set, the environment stops
failing. `file[l]` says why a file was removed.

`is_contains` returns without unlocking when it finds the domain
(context.c:268-279). That needs a scan during a connection, which is a pselect
that times out on a slow or full socket; the mutex is then "kept", and the next
scan hangs. `Settled` excepts it, and a stored letter without lines (`Faulting`), which may
end the process again and again: until that is mended the client does not promise
more. `Unreachable` is the code's answer to any failure to resolve or connect: it
removes all letters of the domain (context.c:347-351).

Left out: several domains and threads (in `ClientThreads`); replies of several lines,
which the code reads as several replies; a letter without recipients, which the server
does not store; a `remove` that fails.

## 4. Runs

| Run | Instance | Distinct states | Shows |
|---|---|---|---|
| `ElTimers` | 2 workers, 3 timers, periods 0 and 1, time to 1 | 142 thousand | `HandlerExclusive`, `NoDanglingPtr`; under `FairSpec` `DeletedIsFreed` and `DueIsFired` |
| `EventLoop` | 2 workers, 1 client socket and the listener, 3 event objects | symmetric | `SingleOwner`, `OneTypePerSocket`, `PopMissesOnlyClosed`; `WriteNotForgotten`; `ImplementsDelivery` |
| `EventLoopLive` | 1 worker, otherwise the same | no symmetry | `ReadServed`, `OccurredHandled` |
| `Server` | 2 workers, 1 descriptor and -1, 2 user addresses, no timeout elapses | 82 thousand | `BuffersAlive`, `OneSessionPerSocket`, `OneOutstanding`, `ReadLostOnlyToHello`; liveness `QuitEndsSession`, `AlarmFreed` (an orphan excepted) |
| `ServerTimeouts` | 2 workers, 1 user address, timeouts | 1.6 million | `UserExclusive` |
| `SmtpSession` | 2 addresses, 2 recipients, 2 lines, 2 lines to a packet | 2.4 million | `LetterAsAgreed` |
| `MaildirDelivery` | 2 workers, 2 letters, 2 users, 2 domains, 2 copies, every fault but a short write (`"short"`) | 176 thousand | `VisibleIsWhole`, `AcknowledgedIsKept`; `ImplementsMailStore` |
| `LineReader` | packets of up to 6 bytes, 7 bytes between two replies | 133 thousand | `NothingLost`, `TerminatorFits`, and of texts in which no CR follows another `LinesAsSent` and that `EndsAtDot` is the first dot |
| `ClientSession` | 2 letters of 2 recipients, with 2 lines and none, every failure | 684 thousand | `SentIsAccepted`, `AcceptedInOrder`, `InStep`; liveness `Settled` |
| `Shutdown` | main, 1 more worker, the manager, the logger, 1 signal, 1 message of a worker's handler | 304 thousand | `NothingLoggedIsLost`, `FreedWhenUnused`, `NoDeadlock`; liveness `StopEnds` |

Two runs end in a violation, each of something the repository states:

| Run | Statement | What the code does |
|---|---|---|
| `SmtpEmptySender` | the return address may be empty (main.tex:94) | `handler_smtp` dereferences the sender (server.c:651) |
| `ClientThreads` | one thread processes several connections, by a pselect on all their sockets (src/client/report/tex/main.tex:125, 128) | `fdmax` is counted down by one for every socket that goes (src/client/src/context/context.c:465): with connections on descriptors 3 and 4, the end of the first leaves the second unwatched |

`main.tex` is `src/server/report/tex/main.tex` where no path is given.

`OneOutstanding`, `BuffersAlive` and `OneSessionPerSocket` are checked without
timeouts on purpose: `handler_timer` writes to a connection that may have a
read registered and closes it while a worker may be using it, so with timeouts
they do not hold. What survives timeouts is `UserExclusive`.

`LetterAsAgreed` speaks of letters in a transaction that the client was told
is open. After a refused MAIL the code still accepts RCPT and DATA; such a letter
has no agreed content.

### Bounds

* Two workers are the fewest between which every race of two handlers can
  happen; every property compares at most two.
* `ElTimers`: three timers give a deleted entry between two others, and a freed
  address that is used again. `MaxTime` 1 with periods 0 and 1 gives entries
  that are due at once, later, and again while others are handled.
* `EventLoop`: with three objects a socket can have a registered event, one held by
  the manager and a close event, or both types registered and an accept.
  `Spare` keeps an object for a worker inside `el_socket_close`, since malloc
  does not fail in the code.
* `Server`: one descriptor that is accepted again and again is the case in which
  connections disturb each other; `FewTimers`/`MaxTimers` limits the timers that earlier
  connections of the descriptor have left, and `Unused` keeps the address for
  an accept event free until its handler runs.
* `SmtpSession`: two lines in a packet show the dropping of pipelined commands;
  two recipients show that neither the order nor an old one is wrong.
  `MaxLines` and `MaxRcpts` only stop a session that could go on for ever.
* `MaildirDelivery`: two letters of up to two copies let two workers make the
  same box, or boxes in the opposite order. `Existing` is empty, so every box is made.

* `LineReader`: a packet of 6 bytes holds "x CR LF . CR LF", so two lines may come
  at once, and shorter ones cut the text at every place; 7 bytes between two
  replies make the vector grow twice (5, 7, 10). All texts over CR, LF, dot and
  another byte are tried.
* `ClientSession`: two letters are enough for one to follow another in a
  connection, to be left behind by a failure, or to be mixed up with; two
  recipients and two lines give a first, a next and a last of each, and a letter
  without lines the read of what was never written.
* `Shutdown`: a worker next to main is a thread that main waits for and that waits
  for main's mutexes; another would do the same. `MaxSignals` 1: one signal, at any
  moment and on any thread, reaches every branch, a handler that interrupts the
  start, a held mutex, `poll`, and one that comes after `el_close` or
  `log_free`; the handlers of two signals do nothing but lock the mutexes and
  lower the flag, as one does. `MaxWritten` 1 lets a worker's handler write once; messages
  of the signal handler and of main are not counted by it.
* `ClientThreads`: two threads, two domains and two descriptors give one thread two
  connections, or each thread one of the same domain.

Symmetry is used in safety runs only. Deadlock checking is off where the system may
really stop: after a fault (`EventLoop*`, `Smtp*`), when every connection is
gone and its descriptor leaked (`Server*`), when all letters are answered
(`MaildirDelivery`), when all letters
are removed or the thread hangs (`ClientSession`, `ClientThreads`), and when the
process has ended or a handler waits for its own thread (`Shutdown`);
`ElTimers` and `LineReader` are checked for deadlock.

### Fairness

* Workers: `worker_thread` calls `el_run` in a loop, so every worker's own
  steps are weakly fair. The mutex is a `pthread_mutex`; that a worker gets it
  back after a handler although others lock it again and again is the strong
  fairness of `HandlerReturns` in `ElTimers`.
* Handlers return: `HandlerReturns` in `EventLoop` is strongly fair, as no
  handler of server.c loops over calls of the event loop.
* The manager thread loops without a pause and polls with a timeout: weakly
  fair.
* `Server`: an `el_run` makes one pass over the timers and then takes one
  event, so neither keeps the other from running for ever (strong fairness of
  both); `FinishIO` is fair and a registered write of a descriptor is
  eventually started, because a peer reads or goes away. Nothing makes a peer
  send, a connection arrive or time pass.
* `ClientSession`: the thread loops for ever (weak fairness of `Iteration`), and a
  peer answers and reads, or gives up waiting for the rest of a command; only when
  `calm` is set is it bound not to fail.
* `Shutdown`: each of the four threads is run by the kernel, and one that waits for
  a mutex gets it although the logging thread or the manager take it again and
  again: one strong fairness per thread, over all its steps. It does not say
  which way a step goes: no poll has to be interrupted and no configuration read.
* `NoMoreTimers`: `DueIsFired` and `DeletedIsFreed` assume that timers stop being
  made. Without it the code does not promise them: a pass over the list does not
  end while entries are appended to it faster than their handlers return.

## 5. Proofs

TLAPS checks the following for every value of the constants that satisfies
the modules' assumptions. Each argument is an inductive invariant, `IInv`
(for `Server` a second one, `ConnectionInv`, and for `Shutdown` `Held`), shown to hold initially and to be
preserved action by action. It is defined at the end of the component's module or
at the beginning of its proofs. The runs check the properties that follow from it;
that it holds in their instances was found with TLC before it was proved, and
needs no run any more. Every invariant and every action property of a passing run,
and both refinements, are stated by a theorem.

| Module | Theorems | Argument |
|---|---|---|
| `ElTimersProofs` | `InductiveInvariant`, `TypeCorrect`, `HandlerIsExclusive`, `NoUseAfterFree` | An entry that a worker handles or has collected is marked `is_processed` and linked (`OwnedIsProcessed`, `NoDanglingPtr`); only unmarked ones are fired or collected, and only under the mutex (`MutexHeld`). So ownership passes to one worker and removal never hits an entry another worker stands on. That the list has no duplicates is needed for the removal step. |
| `EventLoopProofs` | `TypeCorrect`, `OwnersCorrect`, `OneTypeCorrect`, `PopCorrect` | The manager holds an object exactly between taking it out and queueing it, and a worker a descriptor exactly inside `el_socket_close` (`Typed`); no object is in two places of the queues or with two threads (`Owners`, which is `SingleOwner` in a form that steps are easier compared in). An object moves from one place to the next under the mutex of a queue, so that no second place appears, and only `el_socket_close` takes one out that the manager has seen in its snapshot. |
| | `WritesKept` | From the same invariant: the steps that drop an unfinished write are those of a close and the registration of a newer one. |
| | `LoopImplementsDelivery` | Each object has a phase, which is what `EventDelivery` sees of it; a step of the loop moves one object to a next phase, closes a descriptor, or moves none. |
| `ServerProofs` | `InductiveInvariant`, `TypeCorrect`, `UsersAreExclusive` | A handler has at most one call left that adds, returns or frees its user (`TodoInv`), and an address announced to a `handler_accept` is free and announced once (`ReservedInv`). Then every call keeps "in the list once, or with one worker". |
| | `ConnectionInvariant`, `OneOutstandingCorrect`, `BuffersCorrect`, `SessionsCorrect`, `ReadLostCorrect` | A connection has one turn: one registered event, one that occurred, or one handler with a call left that registers the next (`TurnInv`), and one seat: a place in the list or a worker that will return it (`SeatInv`). The calls a handler has left come in the order of its code (`HandlersInv`), so that a read is registered only for an allocated user (`ReadsInv`) that is in the list when the read occurs, or is in the hands of `handler_hello_write` (`PresentInv`). |
| `SmtpSessionProofs` | `InductiveInvariant`, `TypeCorrect`, `DeliversAsAgreed` | While a transaction is open, sender, recipients and text equal those agreed on; a letter is made only from them. |
| `MaildirProofs` | `InductiveInvariant`, `TypeCorrect`, `NothingPartialIsVisible`, `NothingAcknowledgedIsLost`, `EveryCopyHasFile` | A letter has one sender (`OneSender`) at one copy (`InRange`); as long as the status is good, the copies behind have files that are complete as far as the code can know and the current one is in `tmp` (`Progress`). The status reaches 250 only past the last copy. |
| | `DeliveryImplementsMailStore` | `IInv`, and that the copies a worker has before it have no file (`Unbegun`), so that creating one never takes back a kept one. Then every step is one of the store (closing keeps, renaming shows, the client takes, the answer settles) or changes nothing it sees. |
| `LineReaderProofs` | `InductiveInvariant`, `TypeCorrect`, `TerminatorCorrect`, `NothingLostCorrect`, `LinesCorrect`, `EndCorrect` | The array has room for one byte behind the buffer (`Room`, from `GrownFits`: growth step by step reaches enough); a turn begins behind a line's end or at the front (`Scans`); the search stops at the first CRLF, if no CR follows another (`FirstIsFound`; `LinesCorrect` and the half of `EndCorrect` about the first dot depend on it); the lines taken and what is in the buffer are together what was sent (`NothingLost`), and the lines are those of the text they make up (`Parsed`, `LinesGrow`). |
| `ClientSessionProofs` | `TypeCorrect`, `InStepCorrect`, `AcceptedCorrect`, `SentCorrect` | A command or its reply is under way, never both (`Replied`); what the peer has of the letter is its recipients and lines from the first on, as many as the client's state and counter say (`Counts`, `Contents`), some lines perhaps damaged (`cut`, `Fits`). So what it takes over at the dot has all of them, and the client sees a success, and removes the file, only behind that (`Taken`, `Files`). |
| `ShutdownProofs` | `InductiveInvariant`, `TypeCorrect`, `FreedCorrect`, `LoggedCorrect` | What a thread has left to do is a rest of its code (`Texts`). The steps of main are ranked and come in the order of their ranks on every way to the exit, so that the joins are behind it when it frees (`Joined`, `Freed`); a written message is in the logger's queue, with its thread, or printed, and the logger is freed only with an empty queue (`Kept`). |
| | `DeadlockCorrect` | A second invariant, `Held`: the text of whoever holds a mutex begins with the step that gives it back, or with handlers that come before it. So who holds `mutex_messages` waits for nothing, who holds `_is_run` at most for `mutex_messages`, and the manager with the registered events at most for those two, unless a handler asks for its own thread's mutex; the joins are left, of main for others. |

`NothingPartialIsVisible`, `NothingAcknowledgedIsLost` and
`DeliveryImplementsMailStore` assume `"short" \notin Failures`: the
code checks neither `fclose` nor a short `fwrite` (maildir/message.c:107), and
with that failure all three are false. The invariant has the failure as a
case (`Sound`: whole, as far as the code can know) and needs no assumption; what is left
of a 250 then is that every copy has a file, `EveryCopyHasFile`.

The theorems of the second `ServerProofs` row are about the behaviours in which no
timer elapses (`NoTimeout`): all those of the run `Server` (`WithoutTimeouts`), and of
any other instance those in which every session goes on in time. The timer checks once
whether the user is busy and registers its 421 later (server.c:309-323), and
a connection has then two events. With timeouts only `UserExclusive` is left, which the
first row proves and `ServerTimeouts` checks.

The prover cannot use a theorem that takes a predicate as its parameter, induction
over the naturals or over sequences among them. `LineReaderProofs` does its
inductions over sets instead: the set of the numbers that violate the claim has
a least element, by the library's `WFMin`. So what the recursive
functions of `LineReader` compute (the search, the growth, the lines of a text) is
proved for all texts.

Only model-checked: the liveness properties `DueIsFired`, `DeletedIsFreed`,
`ReadServed`, `OccurredHandled`, `QuitEndsSession`, `AlarmFreed`, `Settled` and
`StopEnds`, since fairness and ENABLED are beyond the prover. `ClientThreads` has
no theorem: after the first session that ends next to another, its
threads use freed names, and what is left would not be worth a proof.

## 6. Not modelled

* `timers_is_exist_for_socket` without the mutex (server/timers.c:64) is a data
  race; the model takes it as atomic.
* A file name's uniqueness is checked before the file is opened
  (maildir/user.c:149-175); names are taken as unique.
* The containers but for a vector's growth and the grouping of recipients;
  the reading of the configuration and of the command line, which is over before the
  first thread starts.
* Of the logger: levels and printers. Of the shutdown: the other mutexes of the
  event loop, which no signal handler takes; what the freed timers and users
  held.
* The client's configuration, its logger, the end of its threads by a signal, and
  its network helpers beyond what `ClientSession` needs of them.
* What the code does otherwise than the repository says, and no run refutes:
  * a pop returns NULL if there is no event (registered_events_queue.h:62), and the
    manager uses the result unchecked (event_loop.c:737, 791): `fault` in
    `EventLoop`;
  * a written letter is moved to `new` (main.tex:274), but a failed rename is ignored for
    the server's own users and 250 is answered (server.c:505): in
    `MaildirDelivery`, whose `AcknowledgedIsKept` is content with `tmp`;
  * SIGTERM and SIGINT stop the server (main.tex:215), but a signal before the
    threads run is forgotten, as `el_open` and `loop_thread` raise the flag
    after it (event_loop.c:277, 137), and the handler may wait for a mutex that its own
    thread holds (config.c:10): in `Shutdown`, excepted by `StopEnds`;
  * two threads of the client may connect to one domain, since the check of
    `is_contains` and the connection are two steps and the division by
    `(i + j) % threads` overlaps: in `ClientThreads`;
  * a peer that goes away leaves its descriptor open (server.c:138, against
    main.tex:355), and the timer checks whether the user is busy once and closes the
    socket later (server.c:309-323): in `Server`;
  * the connection may end before `handler_accept` makes its entry in the list of timers
    (server.c:75-77): nobody removes the entry, `handler_timer` finds it and no user, and arms
    itself again for ever: in `Server`, excepted by `AlarmFreed` (`Orphan`), without which
    TLC refutes that property;
  * a letter ends at a dot on a line of its own (main.tex:110-112), but the dot behind
    `\r\r\n` may be missed (util.c:287-307): in `LineReader`, excepted by `EndsAtDot`;
  * a letter is in `new` only when it is written (main.tex:274), but neither `fclose` nor a
    short `fwrite` is checked (maildir/message.c:107): the failure `"short"` of
    `MaildirDelivery`, which no run has and with which `VisibleIsWhole` is false;
  * the client removes letters on temporary failures (against
    src/client/report/tex/main.tex:110), damages lines that `send` takes in parts
    (src/client/src/util/network.c:55), and reads a line of a letter that has none
    (src/client/src/context/context.c:193): in `ClientSession`.
* `protocol/` and the timer iterators of `server/timers.c`, which nothing
  calls.

The hazards of these parts are listed in `PROJECT.json` with their lines.
