# Verification of the unpvol1 servers

The repository collects the programs of *Unix Network Programming* (`1chp` … `30chp`) and of a book on
high-performance Linux servers (`highperformenceserver`): small C and C++ programs, each a server
architecture of its own. This directory holds TLA+ models of the ones that have state worth reasoning about,
TLC configurations that check them on small instances, and TLAPS proofs for every instance.

Paths below are relative to `src/`; `HP` is `highperformenceserver/examples`.

## Inventory

| Part | Source | State | Operations | Interacts by | Hard part |
|---|---|---|---|---|---|
| serv08 | `30chp/serv08.c` | ring `clifd`, `iget`, `iput`, mutex, condition variable | accept loop, `thread_main`, `sig_int` | shared memory | lost wake-ups, overflow, spurious wake-ups |
| preforked servers | `30chp/serv02.c`, `03`, `04`, `serv07.c` | a lock of four kinds around `accept` | `child_main`, `sig_int` | file lock, shared mutex | a holder that dies |
| per-connection servers | `30chp/serv00.c`, `01`, `06`, `5chp`, `26chp`, `30chp/client.c` | the accepted descriptor, children | accept, fork or thread, `sig_chld` | copies of a descriptor, SIGCHLD | zombies, failing forks, descriptors left open |
| select server | `6chp/tcpservselect01.c` | `client[]`, `allset`, `maxfd`, `maxi` | accept, echo | select | reused entries, `nready` |
| echo clients | `16chp/strclinonb.c`, `strclifork.c`, `6chp/tcpcli05.c`, `26chp/v1/tcpcli01.c` | two buffers, four pointers, `stdineof` | `str_cli` | select, pipes, threads | the end of input behind bytes that wait |
| thread pool | `HP/15/15-3threadpool.h`, `HP/14/14-2locker.h` | list, mutex, semaphore, `m_stop` | `append`, `run`, destructor | shared memory | post after unlock, interrupted waits |
| springsnail session | `HP/springsnail/conn.cpp`, `mgr.cpp`, `fdwrapper.cpp` | two buffers with two indexes each, `m_srv_closed`, epoll interest | `read_*`, `write_*`, `process`, `free_conn` | sockets, edge-triggered epoll | interest switched by both directions; closes |
| springsnail pool of connections | `HP/springsnail/mgr.cpp` | `m_conns`, `m_used`, `m_freed` | `pick_conn`, `free_conn`, `recycle_conns` | descriptors | descriptors reused within a batch of events |
| springsnail processes | `HP/springsnail/processpool.h` | `m_pid`, `m_busy_ratio`, pipes, signal pipes | `run_parent`, `run_child` | pipes, signals | merging events and signals, deaths, start-up |
| process pools | `HP/15/15-1processpool.h`, `15-2pool_cgi.cpp` | as above, round robin | as above | pipes, signals | dead children in the round; copies of a pipe's end |
| HTTP server | `HP/15/15-4…15-6` | a table of `http_conn` by descriptor, the thread pool | `read`, `process`, `write`, `close_conn` | one-shot epoll, the pool | objects shared without a lock; refused requests |
| HTTP parser | `HP/8/8-3httpparser.cpp` | three indexes and two state machines | `parse_line`, `parse_content` | – | requests cut anywhere |
| timers | `HP/11/11-2lst_timer.h`, `11-5tw_timer.h`, `11-6time_heap.h` | sorted list, wheel, heap | add, adjust, delete, tick | callbacks | boundary of slots, of the list's ends, of the array |
| idle connections | `HP/11/11-3nonactive_conn.cpp` | users by descriptor with a timer each | accept, receive, tick | signal pipe, epoll | pointers to timers that have fired |
| signals as events | `HP/10/10-1unievent.cpp` | the pipe | handler, loop | socket pair, epoll | signals that share an event |
| shared-memory chat | `HP/13/13-4shm_talk_server.cpp` | `users`, `sub_process`, segments | accept, relay, SIGCHLD, SIGTERM | shared memory, pipes | users moved in the table |
| group chat | `highperformenceserver/group_chat/server_poll.c`, `client_poll.c`, `HP/9/9-6`, `9-7` | `pfd`, `clients` with a pending pointer | accept, receive, send, close | poll | entries moved while the table is walked |
| epoll servers | `highperformenceserver/epoll/*.c`, `epoll/epoll-example-server.c`, `HP/9/9-3`, `9-4`, `9-8` | registrations, one-shot or not | accept, read, re-arm | epoll | edges during handling; close against reuse |
| connect with a timeout | `14chp/connect_timeo.c`, `HP/9/9-5`, `HP/11/11-1` | the alarm, its handler, the socket | one call | SIGALRM, select | a late answer, a late alarm |

What makes each part correct: the hand-over structures (serv08, thread pool) lose nothing, give nothing
twice, and leave no work while a worker sleeps; a relay delivers what it was sent and ends when an end closes;
a pool of objects keeps each object in one place and each descriptor open exactly as long as it is used; a
parent ends after its children and signals only them; a timer fires once, at its time, unless deleted; a
table whose entries move still names each connection once; a connection that has an event is eventually
served, by exactly one thread.

## Modules

One module models one part, or several variants of one; a variant is a value of `kind`, `how` or `app` that
`Init` chooses. Actions bear the names of the functions they stand for, or say what a branch does.

**Handoff** states what the hand-over structures promise: a bounded FIFO that may be closed. **Serv08** and
**ThreadPool** are each shown to implement it (property `ImplementsHandoff`, checked and proved).

**Serv08.** One program counter per thread; one action per mutex, condition-variable or ring operation of
`main` and `thread_main`. `pthread_cond_wait` is three steps: give up the mutex and sleep (`Check`), be woken
(by `Signal` or for no reason), take the mutex again (`Relock`) and test again. `accept` may return an error,
which the code does not notice; a bad request and SIGINT end the process. A descriptor is named by the call of
accept that returned it.

**ThreadPool.** `append` in four steps and `run` in five, at the grain of the mutex and the semaphore. The
failure of `sem_wait` (a signal) is ignored by the code and modelled. After the destructor nothing is modelled.

**PerConnection.** Seven servers: main's accept, fork or `pthread_create` and their failures, the parent's
close, the three ways of treating SIGCHLD, and who serves, request by request. A connection is open as long as
some process has it. Where `accept` fails, the forking servers exit, with children still serving
(`AcceptFailsExit`); serv00 and those with threads pass −1 on (`AcceptFails`), and who reads from it ends the
process (`NoFdEndsAll`) or, in serv00, tries for ever. **Preforked.** Four servers: making the children, the lock's three states around accept,
what the death of a holder does to each lock, SIGINT and the waiting that follows. A child whose fork fails is
the parent itself, as in the code. An accept that fails is served like another, until a read of −1 ends the child. **SelectServer.** The pass over the table with its indexes and sets.

**EchoClient.** Four clients and the echo server. A round of `strclinonb.c` is five steps, one for each
descriptor select may have found ready; the buffers are their pointers; reads and writes take any part.

**SpringsnailRelay.** One session: two ends, four kernel queues of bounded size, the session's two buffers,
the registered interest and epoll's ready list. Handling an event is one action, since a child is a single
thread: `ReadClt`, `WriteClt`, `ReadSrv`, `WriteSrv` and the failing writes are the branches of
`mgr::process`. The kernel's part (`EpollWait`, `PeerSends`, `PeerReceives`, `PeerCloses`) is the environment.

**SpringsnailMgr.** Many sessions, without their bytes: the three maps, the descriptors in use, and the batch
of events that `epoll_wait` returned. The kernel hands out the lowest free descriptor, so that descriptors
come back within a batch. Not modelled: `m_stop` in the child, and descriptors of other files.

**SpringsnailPool.** Parent and children. A pipe or a listening socket has a content and an event flag, as
edge-triggered descriptors do: arrivals set the flag, the handler clears it and takes one item. A process
before its handlers are installed dies of SIGTERM. A batch of events is not kept as such: handling them in any
order, each with the current state, covers the orders of a batch, as each handler looks only at what it reads
itself. **ProcessPool.** 15-1 and 15-2 in the same way; in addition a child's loop is its test, its entry into
`epoll_wait`, its waiting and its batch, since a handler that sets a flag (15-2) may run before or after each.
Copies of a pipe's end are counted (`Held`): the end of a pipe is an event only when no process has one left.

**HttpServer.** The main thread's batch of events, the workers, and an `http_conn` per descriptor. `close_conn`
of a worker is four steps, as main may accept in between; `m_user_count` is read and written separately on both
sides. The thread pool is used by what `ThreadPool` is shown to implement, a FIFO of `MAX_REQUESTS + 1`
places. Of a request only what decides about it is kept: pieces that do or do not complete it, keep-alive, an
empty file, a bad line. Two histories say when the code has left what it can keep: `reused`, once a number was
accepted whose closer is not done with the object, and `torn`, once a change of `m_user_count` fell between another's
read and write. **HttpParser.** `parse_line` by characters, with `recv` cutting anywhere.

**Alarms** states what the three timer containers promise: a callback runs in the first tick at or after its
time, once, and not if the timer was deleted. Each of the three is shown to implement it
(`ImplementsAlarms`, `OthersImplementAlarms`), by TLC and by proof. A tick is a step that reads the clock,
a step for each timer it visits, and a step that ends it.

**TimeWheel.** Ticks are the time. Slots are sets; what matters is the arithmetic that splits a timeout into
slot and rotation. **SortTimerList.** The list link by link, with the four cases of deleting and the two of
adjusting; time is a clock that also moves while a tick is under way. **TimeHeap.** The array cell by cell,
percolating by index arithmetic, with its growth, the lazily deleted timers, and the freed pointers left in
the cells past the end.

**IdleConns.** The server of 11-3 on top of the list, by what the list is shown to keep. A timer counts down
instead of comparing with a clock, which makes the state space finite without ending time. One action for each
branch of the loop over a batch of events; data, ends and signals set an edge, which `epoll_wait` reports
once. A receive takes any number of the sends that wait, so the next event may find nothing (`ReadNothing`). Not modelled: a failing `accept`, whose result (−1) the code uses as an index.

**Unievent.** The handler, the pipe, the edge, and batches in any order. **EpollServers.** Seven servers that
differ in four respects (`Servers`): level or edge, one-shot or not, one actor or several, and whether accept and
read are called until nothing is left. Of a one-shot event, EAGAIN and EPOLL_CTL_MOD are two steps (`ReadNone` or
`AcceptNone`, then `Rearms`), and clients and texts come in between. 9-8 echoes what it reads (`Echo`). `spoilt` notes what the code does not mend: an accept that fails inside
the loop, a descriptor removed from epoll after its number was given away (one-shot), a thread that reads the
argument of the next one (9-4), SIGPIPE from an echo to a client that has gone (9-8, `EchoKills`).

**ShmTalk.** The parent's tables, the children from their fork on (at first with the parent's handler and
pipe), SIGCHLD, SIGTERM and the indexes that travel through the pipes. **GroupChat.** The walk over `pfd` of both
poll servers, entry by entry. `wb` is modelled as what it is, a pointer into the `rb` of the client that wrote: the
copy of a whole entry when a client leaves (`Replaced`) and the next receive may change what it names; a text is its
number in the order of receiving. A `send` to a client that has gone ends the server (`SendKills`). **ChatClient.** Both clients. **ConnectTimeout.** Three ways to give up a
connect.

There are eight `MC…` modules, one for each family of programs. Each composes the parts that one run checks: it EXTENDS one of them, makes the others
instances, and lets `which`, chosen in its `MCInit`, say whose behaviour it is, while the others' variables
keep their first values. The parts are independent programs, so the union of their behaviours is what there is
to check; a fairness condition is guarded by `which`. A property of an MC module with a name of its own is
the conjunction of the parts' properties, as its comment says. Parts that do depend on one another are
composed through what they are shown to promise: HttpServer uses ThreadPool's FIFO, IdleConns what
SortTimerList keeps.

## Runs, bounds and fairness

| Run | Instance | Shows |
|---|---|---|
| `unp` | serv08: 2 threads, ring of 3, 4 connections of which one is an accept error; PerConnection: 2 clients; EchoClient: buffers of 2, up to 6 characters typed | `OneOwner`, `NoStrandedWork`, FIFO of two places, `WorkIsTaken`; no zombie and no descriptor left, no byte dropped (`NothingKept`); `EachIsAnswered` |
| `threadpool` | 2 workers, 1 producer, `max_requests` 1, 5 calls of `append`, one interrupted wait | `NoStrandedRequest`, FIFO of two places (the code lets one more than `max_requests` in), `RequestIsTaken` |
| `prefork` | 3 children, 2 clients, one killed, one failing accept; pools of 2 children, 2 clients, one death | `OneAccepter`, `IsAccepted`, `SignalEnds`, `ArrivalServed`, `OrphansEnd` |
| `springsnail` | session: buffers and sockets of 2 bytes, 3 bytes each way, in turns or with either end closing; 2 conn objects, 5 descriptors, batches of 3; 2 children of one connection, 2 clients, one crash | `NothingLostInRelay`, `CloseEndsSession`, `EverythingArrives`; `OnePlace`, `UsedIsOwn`, `NoFdLeak`; `ParentKnows`, `AcceptsAreTold`, `TermStops`, `ArrivalWakes` |
| `relay_full` | the same session, full duplex, no closes | violation: see below |
| `mgr_found` | the same pool of connections | violation: see below |
| `http` | 2 descriptors, 2 workers, 3 clients, 2 pieces of requests, a buffer that two pieces do not fill; texts of three lines | `OneHand`, `CountIsOpen`, `EachIsHeard`; `CutsDoNotMatter` |
| `timers` | wheel: 2 timers, 3 slots, timeouts up to two turns and a tick, three turns; list: 4 timers up to 2 ahead, 3 units of time; heap: 5 timers up to symmetry, made from up to 4 in an array of 4, grown by the fifth | `OnTime`, `Structures`, `ImplementsAlarms`, `OthersImplementAlarms` |
| `events` | IdleConns: 2 connections, 2 timers, 2 receives of data; SelectServer: 3 descriptors, a table of 2; Unievent: a pipe of 2, 4 signals, 2 clients; EpollServers: 2 threads, 2 descriptors, 2 clients, 2 texts | `OneTimerEach`, `NoStaleEvent`, `OnlyIdleAreClosed`, `AbandonedAreClosed`, `NobodyLeftBehind`, `EachIsServed` |
| `chat` | ShmTalk: 2 pids, 2 users, a text; GroupChat: 4 clients in turn, a table of 3, 2 texts, descriptors up to symmetry; ChatClient: a pipe of one line, 2 lines, 2 texts; ConnectTimeout | `TableTrue`, `NothingGoesAstray` |
| `own_text` | GroupChat: 3 clients, a table of 3, 2 texts | violation: see below |
| `cgi_kill` | 15-2 with 2 children, one death or failed fork | violation: see below |

The bounds are chosen so that each structure is full, empty and wraps, and so that numbers come back: a ring of
three slots overflows on the third waiting connection; a socket of two bytes that its reader has not emptied
gives partial sends; three events in a batch hold both ends of a session and the pipe, which closes and
re-uses a descriptor before its event; four timers give a list an inside and a heap a third level; three
clients for two descriptors let main give a number away that a worker is still closing; a table of three lets
the last entry move into the place of the first while the pass is at it; two children of a pool let the
second hold a copy of the first one's pipe.

Fairness, always of the program's own steps and never of what clients, signals or crashes do:

* `serv08`, `threadpool`: each thread runs, and `process` returns. Nothing is said of which thread a mutex
  goes to.
* `PerConnection`: each process and thread runs, and a client sends and reads. `EchoClient`: the same, and
  strong fairness of `Shows` and `Takes`: a terminal and a socket that may take a part, or nothing, take something
  in time.
* `Preforked`: somebody gets a lock that is free; whoever is in accept with a client waiting returns. Serving a
  client is not fair: a client may stay.
* `SpringsnailRelay`: the child's loop runs, and an end that has not closed keeps reading.
  `SpringsnailPool`: `epoll_wait` returns every ready descriptor of a process, so no handler waits for ever.
  `ProcessPool`: the same, stated as strong fairness of the handlers, since a batch ends and begins again.
* `EpollServers`: a thread goes on with what it has taken, and of those who wait while there is an event somebody
  takes one; nothing is said of which.
* `HttpServer`: main and the workers run, a peer that is sent a reply reads it, and (strong fairness of `WriteAll`)
  a socket that is reported writable does in time take what the code takes for the whole reply: writable means
  a third of the send buffer is free.
* `IdleConns`: the process runs, time goes on and an alarm that is due arrives.

`CHECK_DEADLOCK FALSE` stands where the program or the bounded environment may really stop: the process exits,
the clients have all come.

What the properties except, because the code does not give it:

* `EachIsAnswered`: the client of 6chp writes without asking for room (`tcpcli05.c:78`), and when more is typed
  than the buffers between it and the server hold, each waits for the other to read. For it the property is asked up
  to that amount; the other three clients are checked beyond it. Nor is anybody promised an answer once
  a request was bad or a fork failed (`trouble`).
* `NothingKept`: when the server's end arrives, `strclinonb` returns without showing what waits for stdout
  (`strclinonb.c:76`); the property counts those bytes. Only 5chp's `do_it` is asked to leave no zombie: the servers
  before it in the book are there to show them.
* `IsAccepted`: a child of serv04 killed with the mutex leaves it locked.
* A worker's `close_conn` gives the descriptor back before it forgets it (`15-5http_conn.cpp:57`), so main may give the
  same number, and with it the same object, to the next client. From then on (`reused`) `OneHand`, `CountIsOpen` and
  `EachIsHeard` ask nothing; up to then they cover workers that close while main and the other workers accept, read, write
  and close. `CountIsOpen` also stops where a change of the plain counter falls between another's read and write
  (`torn`): the update is lost. `EachIsHeard` also needs a list with a place for every connection, since a refused
  request is forgotten (`15-6main.cpp:132`).
* `NothingGoesAstray` promises no text that another has replaced: a client that has not got one yet gets the newest
  (`server_poll.c:234`), and `client_poll` keeps one line, over which it reads the next if the first could not be sent. It stops at a pending pointer whose text a copied entry has overwritten (`overwritten`, see
  `own_text` below).
* `TableTrue` asks that a child reads the segment of its entry until the first user is moved
  (`13-4shm_talk_server.cpp:329`): a moved child keeps the index it was made with.
* `OrphansEnd`: a notification that shares its event with the end of the pipe hides the end.
* `ArrivalWakes` is asked while no child has ended: the busy ratio of a dead child stays, and may be the lowest.
* `EachIsServed`: 9-3 and 9-4 call accept once for an edge, and what `spoilt` notes. Clients are promised nothing by
  a server that an echo's SIGPIPE has ended.

Every property has a mutant, a definition with a plausible bug, under which its run finds it violated; mutants
stand next to what they mutate.

### Four violations

* `relay_full`: `write_srv`'s `BUFFER_EMPTY` registers the client's descriptor for reading (`mgr.cpp:274`)
  although a full `m_srv_buf` waits for room there. Unless the client speaks again, the bytes stay: the log
  line in `conn.cpp:91` says "let client write". Traffic in turns never meets it (`EverythingArrives`).
* `mgr_found`: `m_used[ fd ]` (`mgr.cpp:152`) leaves a null entry for a descriptor without a session, and
  `insert` does not replace it when the descriptor is used again (`mgr.cpp:104`): the new session is not
  found under that descriptor.
* `cgi_kill`: on SIGTERM the parent of 15-2 calls `kill` for every entry (`15-2pool_cgi.cpp:371`). In TLC's trace
  the fork of the first child has failed, so that its entry holds −1 (264), the parent runs, SIGTERM comes, and
  `kill( -1, SIGTERM )` goes to every process. The entry of a child that was reaped holds −1 too (350). 15-1 tests for −1.
* `own_text`: "prepare send message to other clients" (`server_poll.c:223`), but a client may be sent its own. Two
  clients have each the other's text coming, by a pointer into the other's `rb`. The first leaves; `clients[fd] =
  clients[last]` (193) copies the second's `rb` over the one its own pointer names.

## Proofs

Eight modules, one for each family of programs, so mostly one for each `MC…` module, which they EXTEND: what
a theorem states is then the very definition that the run checks. A theorem about a part is one of the part's
own specification (`Mgr!Spec`, `Parser!Spec`): a behaviour of `MCSpec` is one of each part's, with the other
parts at rest. Every safety property and every refinement that a passing run checks is proved, for all values
of the constants that the assumptions allow. In each module an invariant is shown to hold at first and to be
kept by every action, one lemma for an action where it is not short, and the properties follow.

### Assumptions

Each is named and stands with its constants: `ThreadsAssumption`, `ConnsAssumption` and `MAXNCLIAssumption`
(Serv08), `PoolAssumption` (ThreadPool), `NAssumption` (Preforked), `RelayAssumption`, `HttpAssumption`,
`ConnsAssumption` (IdleConns), `WheelAssumption`, `PidAssumption` and `LimitAssumption` (ShmTalk). Those of a
part that is an instance stand in the MC module: `MgrAssumption` and `PoolAssumption` (MCSpringsnail),
`LoopsAssumption` (MCEventServers), `ParserAssumption` (MCHttp), `TimersAssumption` (MCTimers),
`ChatAssumption` (MCChat), `EchoAssumption` (MCUnp). They say that a constant is a number or a finite set,
and that what stands for nothing (`NULL`, `NotSet`) is not something. Five say more:

* a ring has at least two slots: `serv08.c` fixes `MAXNCLI` at 32, and with one slot no `put` could be told from
  overflow;
* there are descriptors for both ends of every session, and one more (`NFD > 2 * Cardinality(Conns)`): the pool of
  connections is modelled up to the limit of descriptors, not at it;
* `MAX_REQUESTS`, `BUF_SIZE`, `TIMESLOT`, `TI`, the wheel's `N` and the number of springsnail's children are not 0;
* a heap is made with room for one (`Cap`): `resize` doubles, and twice nothing is nothing;
* select's clients have numbers above those of the standard streams and the listening socket.

### Unp_proofs

*serv08*: `TypeCorrect`, `OneOwnerHolds`, `NoneLostHolds`, `NoStrandedWorkHolds`, and `Refinement`, that the ring
implements the FIFO. The inductive invariant adds to `TypeOK`: the mutex is held exactly by the thread whose
counter is inside the critical section, a thread about to take has found the ring non-empty and nothing has
changed since, and each accepted connection is in exactly one place. For the refinement the stretch of the ring
from `iget` to `iput`, cut at the end of the array and put together, is the FIFO; a put appends to it and a
take removes its head, which is arithmetic of `Advance`.

*`NothingKeptHolds`*, of the servers with a process or a thread for a connection and of the clients that echo. `ConnInv`
adds to the property which worker can be in which state at which step of main (`Busy`) and that what a thread could
not be made for was closed by nobody. `EchoInv`: what was typed is at stdin, in one of the two buffers, on its way,
at the server, in the hands of the one that shows, or shown, and the sum of these is the total (`NothingLost`); and
what select has found is still so when the loop comes to it (`Found`).

### ThreadPool_proofs

`TypeCorrect`, `NoStrandedRequestHolds`, and `Refinement`. `NoStrandedRequest` is inductive with the types: the
tokens of the semaphore, the workers between wait and lock, and the producers between unlock and post cover
the list.

### Springsnail_proofs

*The relay*: `RelayTypeCorrect` and `NothingLostInRelayHolds`. `RelayInv` numbers the bytes of one direction through
all places that they pass: what the receiver has, the send queue, the buffer from its write index, the receive
queue (`Ordered`). A read or a write moves a boundary between two places; the reset of the two indexes when
the buffer is empty does not move one.

*The pool of connections*: `MgrTypeCorrect`, `OnePlaceHolds`, `UsedIsOwnHolds`, `NoFdLeakHolds`. `MgrInv`: an idle
connection is under its own open descriptor and bound to nobody, a freed one is under the descriptor it had
(`PlacedInv`); the two ends of a session are open and are no other session's (`SessionInv`); nothing else is open
(`OwnedInv`); and an entry of `m_used` that is not null is under an end of its own session (`UsedInv`), also while a
batch holds events of descriptors that were closed and handed out again. `recycle_conns` takes the lowest free
descriptors, by rank; that each of them is free, and each another one, is shown by a least counterexample.

*The processes*: `ParentKnowsHolds` and `AcceptsAreToldHolds`. `PoolInv` ties the parent's record (`m_pid`) to what has
been reaped, and `m_stop` to an empty record: since a reaped child stays reaped, the parent may leave its loop at
any later time. `ToldInv` counts the children that have been told and have not accepted yet: no more than the
backlog holds, and fewer while a new arrival is still to be reported.

### EventServers_proofs

*Idle connections*: `OneTimerEachHolds`, `NoStaleEventHolds`, `AlarmGoesOnHolds`, `OnlyIdleAreClosedHolds` (an action
property). `OneTimerEach` and `NoStaleEvent` need each other; `OnlyIdleAreClosed` follows from `IdleIsLeft`: what a
timer has left and how long its connection has been idle make up the timeout.

*`NobodyLeftBehindHolds`*, of the select server and the loop on signals: `SelectInv` adds to the property, that
`nready` counts the entries from `i` on whose descriptor is in `rset` and that `client` names each open descriptor once
and not beyond `maxi`, what `accept` finds; `PipeInv` says that a byte in the pipe has an edge or an event of its own.

### Http_proofs

*The server*: `OneHandHolds` and `CountIsOpenHolds`, also while workers close. Until a number is accepted whose closer is
not done (`Before`) each of the four hands, a worker, the list, the batch and epoll, holds its connections once and
apart from the others (`Hands`); an object has the number of its descriptor while that is open or its closer has yet to
forget it (`Own`); and, until a change is torn, the count is that of the open connections and of the workers inside
`close_conn`, less the one that main has accepted and not counted (`Counted`). A worker that stores has the count as it
read it, or the change is torn by definition; so is main's. Once `reused` is set nothing is left to show.

*The parser*: `CutsDoNotMatterHolds`. What is claimed compares two runs, the one that was cut and the one that was
not; `ParserInv` says what the first has made of the text up to `checked_index` (`LinesOk`, `Heard`): the lines that
have ended, where the one under way begins, and what each was judged to be, none of which mentions a cut.

### Timers_proofs

*The wheel*: `OnTimeHolds` and `Refinement`. `OnTime` is inductive with `TypeOK`: the gap to a timer's slot, plus N for
each turn left, is always what is left until its tick; placing a timer makes it so, and a step of the wheel
takes one from every gap but that of the slot it leaves, which becomes N − 1 in exchange for a turn.

*The list* (`ListInv`): there is a sequence of the timers, sorted by expiry, that `next` and `prev` follow from `head`
to `tail`, and freed nodes have no links. Each operation takes a node out of the sequence, puts one in, or both.
`Cut` and `Spliced` say what that does to the links at those places and that it does nothing elsewhere, and the
lemmas `Unlinking` and `Linking` that a chain with a node less, or one more, results. `WalkIs`: the walk of the private
`add_timer` ends at the last node that does not expire later.

*The heap* (`HeapInv`): the first `cur_size` cells hold different timers, and no cell expires before its parent.
Percolating keeps that, one step of the hole at a time (`UpStop`, `UpGo`, `DownStop`, `DownGo`), and the constructor's
loop makes it of any array (`HeapifyHeap`).

`StructuresHold` is the two together. `OthersRefine`: both implement `Alarms`. A sorted list's head and a heap's
root are the first to expire (`RootFirst`), so that a tick that stops there leaves nothing that is due; the timers
in the heap after an add or a pop are those before and the new one, or without the first, since the cells are as many
and all different (`CellsCover`). To pop a timer that was deleted lazily is a stuttering step.

The recursive functions of these models (`AddAfter`'s walk, `Nth`, the percolations, `Heapify`) are given to the
provers by their equations. That there is a function which satisfies them, and what it computes, is induction; the
library's induction theorems take an operator as parameter, which the installed provers cannot instantiate, so the
proofs use that a set of numbers that is not empty has a least member (`LeastMember`, from the well-foundedness of
`<`) and take the least counterexample.

### Preforked_proofs, Chat_proofs

`OneAccepterHolds`, for any number of children and each kind of lock, whoever dies when. `OneAccepter` is not
inductive; `HolderAccepts`, that whoever is in accept holds the lock, is: a holder's death frees a file's lock only
if the holder is among the dead.

`TableTrueHolds`, for any number of users and pids. The tables are inverses of one another on the first `user_count`
entries; deleting one entry keeps that because the last entry moves into it, in both, and the lemma has the
case that it is its own.

`NothingGoesAstrayHolds` is the conjunction of four: `NoChildLeft` (once `stop_server` is set every child was waited for,
but for those made after that in the same batch); `ChatInv` (the entries that the walk has yet to come to are exactly
those whose events are due, also after the last was moved down, and no descriptor has two; a pointer that nothing
has overwritten names the newest text of others, because a receive replaces the pointers of all the others
and a copied entry marks those that named what it lies over); `ClientInv` (what was sent, what is in the pipe
and what waits at stdin follow one another); and `CallInv` (the timer, the handler and the socket agree on whether an
answer may still come).

### Only model-checked

* Liveness and whatever rests on fairness: `WorkIsTaken`, `RequestIsTaken`, `EachIsAnswered`, `CloseEndsSession`,
  `EverythingArrives`, `TermStops`, `ArrivalWakes`, `AbandonedAreClosed`, `EachIsHeard`, `IsAccepted`, `SignalEnds`,
  `ArrivalServed`, `OrphansEnd`, `EachIsServed`: ENABLED and fairness are outside the prover's reach.
* EpollServers and ProcessPool, whose properties are all of that kind.
* The violations: a counterexample is its own proof.

## Not modelled

* springsnail's configuration file and log, the Qt user interface of the group chat: scanning of XML, formatted output,
  widgets.
* Descriptor passing and the Unix-domain examples, name resolution, socket options, interface lists, daemonising:
  sequences of system calls without a state of their own.
* `HP/14`'s demonstrations of locks, fork and signal masks: programs of a few lines that show one call each.
* Widths of counters in `readn` and `writen` (`serv08.c:127` compares a `size_t` with 0): the models keep lengths, not
  widths.
* Contents: of requests, replies and texts only what a property tells apart.
* Programs of `26chp`, `6chp`, `5chp` and `8chp` that repeat a modelled one with other calls.
