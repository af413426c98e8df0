# Verification of the programs of this repository

The repository holds several small, independent C and C++ programs: exercises
in concurrent queues, pools, reactors and allocators. They share no code, there
is no build file for them and no test. This directory models them in TLA+, checks
the models with TLC on small instances and proves the most important properties
for all instances with TLAPS.

## 1. Inventory

| Part | Source | State it keeps | Operations | What is hard |
|---|---|---|---|---|
| Connection pool `CDBPool` | `connectpool/mysql_pool/DBPool.{h,cpp}` | free list, used list, connection count, abort flag | `init`, `GetDBConn`, `RelDBConn`, destructor | waiting with and without time-out, destruction while callers wait, a search loop that assigns |
| Database connection `CDBConn` | same files | one MySQL session, its transaction | `Execute*`, `StartTransaction`, `Commit`, `Rollback` | `mysql_ping` may replace the session in the middle of a transaction |
| `Threadpool` | `connectpool/mysql_pool/Threadpool.h`, `Threadpoll.cpp` | task queue, threads, `_bTerminate`, `_atomic` | `init`, `start`, `stop`, `run`/`get`, `waitForAllDone` | one condition variable for workers and clients; a counter outside the lock |
| Locked ring buffer | `circular_queue/ring_buffer.{h,c}` | array, `in`, `out` | `put`, `get`, `reset`, `len` | positions that wrap at 2^32, sizes that do not divide it |
| Lock-free ring buffer | `circular_queue/ringbuf.h` | array, `write_pos`, `read_pos` | `rb_write`, `rb_read`, `rb_readline`, `rb_clear` | two threads without a lock, order of accesses |
| Deadlock detector | `deadlock_success.c` | table of locks and owners, wait-for graph | hooked lock and unlock, periodic search for cycles | the table is changed by all threads without a lock |
| Echo reactor | `reactor_singlecb_server.c` | an event record per descriptor, the epoll set | accept, receive, send callbacks | short sends, reused descriptors, blocks that grow |
| WebSocket server | `websocket_server.c` | the same, with a handshake state per connection | handshake, decode, echo | fragments of requests and frames |
| Road-side unit session | `websocketserver/Protocal_Demo/` | the global `wsi`, registration data | libwebsockets callbacks, sending thread | two threads and one global |
| Memory pool | `mempool/*.c` | list of nodes, list of large blocks | create, alloc, free, reset, destroy | alignment, sizes at the limit |
| Leak tracers | `memleak/*.c` | a file per live allocation | malloc, free | demonstrations |
| ARP/UDP echo | `net_family.c` | none between packets | one reply per packet | - |
| Vendored | cJSON, `websocketserver/include`, `mysql/` | | | third-party code |

The parts interact only where one is built on another: the thread pool and the
connection pool are made to be used together (a task borrows a connection), the
WebSocket server is the echo reactor with different callbacks.

**What makes each part correct**

- *CDBPool*: a connection has one user; nobody who could be served sleeps on;
  the pool never exceeds its limit; destruction ends every wait; nothing that
  exists is forgotten.
- *CDBConn*: what `Commit` reports as committed is what the transaction wrote; a
  connection goes back to the pool without an open transaction.
- *Threadpool*: tasks are run exactly once; `stop` returns; nobody sleeps through
  the event it waits for; `waitForAllDone` means what it says.
- *Ring buffers*: first in, first out, across every wrap; the producer never
  writes where the consumer may read.
- *Deadlock detector*: the graph is the wait-for relation; every cycle is found;
  the table does not run over.
- *Reactors*: every descriptor in the epoll set is open and has the callback that
  fits its state; bytes are echoed once and in order; every connection that ends is closed once.
- *Memory pool*: live blocks do not overlap and lie inside their node's page.
- *Road-side unit session*: `wsi`, when used, is a live connection.

`PROJECT.json` lists the hazards at their lines, and the properties that cover them.

## 2. Modules

| Module | Models | Extends / instantiates |
|---|---|---|
| `ConnLease` | what a connection pool promises, its limit included (abstract) | |
| `DBPool` | `CDBPool` | refines `ConnLease` |
| `DBConn` | `CDBConn`: sessions and transactions on the pool's connections | extends `DBPool` |
| `DBPool_proofs` | theorems about the two | `DBConn` |
| `Threadpool` | `Threadpool` | |
| `Threadpool_proofs` | theorems about it | `Threadpool` |
| `ByteFifo` | what a bounded byte buffer promises (abstract) | |
| `RingBuffer` | `ring_buffer.{h,c}` | refines `ByteFifo` |
| `RbSpsc` | `ringbuf.h` | refines `ByteFifo` |
| `EchoChannel` | what an echo service promises its clients (abstract) | |
| `Reactor` | `reactor_singlecb_server.c` | refines `EchoChannel` |
| `WebSocket` | `websocket_server.c` | extends `Reactor` |
| `MemPool` | both versions of the pool in `mempool/` | |
| `MemPool_proofs` | theorems about it | `MemPool`, `ModArith` |
| `WaitGraph` | the graph of `deadlock_success.c`: its two variables and the operators on its lists | |
| `CycleSearch` | the search for a cycle | extends `WaitGraph` |
| `LockHooks` | the hooks and their table of locks | extends `WaitGraph` |
| `Detector_proofs` | theorems about both, one by one and together | `CycleSearch`, `LockHooks` |
| `RsuSession` | the two threads of `Protocal_Demo` | |
| `Servers_proofs` | theorems about the three servers | `WebSocket`, `RsuSession` |
| `ModArith` | lemmas on remainders and positions that wrap | |
| `RingBuffer_proofs`, `RbSpsc_proofs` | theorems about the two | `ModArith` |
| `MC*` | the instances for TLC | |

### DBPool

One step is one critical section of `m_mutex`. `GetDBConn` is split where the
mutex is not held: `CallGet` (called, not yet in), `EnterGet` (from the lock to a
return or to the wait), then `Wake`, `Timeout` or `SpuriousWakeup`. `pc[t]` is the
thread's place in its call, `conn[t]` the connection it has; both exist only in the
model, together with `opened`, the set of connection objects that are allocated.
`RelDBConn` is translated as it is compiled: `if(*it = pConn)` overwrites the
first entry of a free list that is not empty, prints an error and does not notify.
`Destroy` is the body of the destructor. The contract assumed of callers is that of
the class: they start calls on a pool that is up, and release a connection once.
`ConnLease` gives out a lease only while there are fewer than `Limit`; the pool's limit takes its place.

### DBConn

`DBConn` adds sessions to the pool: its steps are the pool's, and the statements of threads that hold a connection.
`session[c]` is what the server has open for a connection (a transaction, and the writes in it), `db` what is there for
good. Each method sends `mysql_ping`, whose answer it ignores, and a query; so a statement is done, refused, or lost with
its session before or after it ran (`Query`), and what the caller learns is `Returned`. libmysqlclient, which replaces a
lost session (`MYSQL_OPT_RECONNECT`), and the server are external; a lost session and the fresh one in its place
are one state, for the caller is not told. `believes` are the threads that were told of an open transaction, which is what a
careful caller goes by: it ends the transaction before it releases the connection. The rest are histories: `intact`
the threads whose session has not been replaced since, `mine` what they have written in it, `fates` what became of the writes
of each transaction. The hazard is the combination: a statement that failed after it ran, a session replaced in the middle, a
connection passed on. (`DBPool.cpp` defines `ExecuteUpdate` without a declaration in the class; it is modelled as written.)

### Threadpool

Workers are split where they run without the mutex: after `get` ("popped"),
inside the task ("running"), between `--_atomic` and the lock ("done"). `owner`
is the one thread that calls `start` and `stop`. `timed` and `promised` (the tasks
unfinished when a client called) belong to `waitForAllDone`. The class has no
function to submit a task; `Submit` is the one it is made for (push and
`notify_one` under the mutex) and is marked external. `waitForAllDone(-1)` falls off
its end without a return: the caller may see either value.
The source does not compile as it stands: line 55 of `Threadpoll.cpp` decrements `atomic`, a name that nothing declares, and the handler
of `catch(...)` prints an `e` at line 53. Line 55 is modelled as `--_atomic`, the counterpart of line 40.

### RingBuffer, RbSpsc, ByteFifo

`Wrap` stands for 2^32. In `RingBuffer` a call is a step, for `*f_lock` is held
throughout. In `RbSpsc` a call is a sequence of steps: the check and the sample of
the other's position, one step per byte copied, and the move of the own position.
The order is the one the barriers of `USE_BARRIER` enforce. `rb_readline` has none; its order is
the program's, which the compiler has to keep (`buf` is a `char *` and may point into the ring, so its stores do not move past
those to `read_pos`) and x86 keeps, too. `rb_read` evaluates its `min` macro, which reads
`write_pos` for the comparison and again for the result (`ReadCall`, `ReadSample`).
`Init` leaves any bytes in the array, newlines included, as `malloc` does, and `rb_clear` leaves those that are there.
`AnyTime` is part of the contract of `rb_readline`: if it is FALSE the function is called only while a line is stored, or where there is no
newline in the whole array and the stream will never have one (`NoNewline`): there it must fail and take nothing. It cannot be called
more freely than that: with a newline left over in a slot that holds no stored byte it goes wrong, as told in section 3.

### Reactor, EchoChannel

The program has one thread, so a callback is a step; clients, the network and
`epoll_wait` act between any two callbacks, also between those of one batch. `ev` are
the event records, `interest` the epoll set, `open` the connection behind
each descriptor, `batch` the events `epoll_wait` returned and the loop has not got to.
`nty_event_set/add/del` are functions on a record; `TurnAround` (del, set, add)
and `CloseFd` (del and close) are how the callbacks use them. `AfterAdd` keeps the choice between
`EPOLL_CTL_ADD` and `EPOLL_CTL_MOD`, and that the wrong one fails. The field `of` of
an event is a history: the connection the event is about. The kernel is
external and modelled as the code uses it: the lowest free descriptor is given
out, `close` removes a descriptor from the epoll set, epoll is level-triggered, data that
arrived before a reset can still be read, and `send` to a peer that closed
first and then reset raises SIGPIPE (`alive` becomes FALSE). The hundred
listening sockets are one descriptor, 0. `send` may
always take a part of the bytes only; `cut` is a history of the connections to which that has happened. `full` are the connections whose
socket has no room left because the client does not read: any `send` may fill it, a short one always does, and then
`EPOLLOUT` stays away until the client reads (`Drain`) or the connection is reset (`Writable`). Nothing times out: the code
that would close idle connections is commented out (lines 364 to 379).
`EchoChannel` knows only what each client is owed and has got, and which connections have lost bytes.

### WebSocket

The program is the echo reactor with two callbacks changed, so the module extends `Reactor`: `accept_cb`, `send_cb`, the
event functions and `epoll_wait` are its actions, `ws_recv_cb` replaces `recv_cb`, and two variables are added:
`status_machine`, one per record (hence shared by the connections that have the descriptor in turn), and `reads`, a history of where each
connection's reads ended. A buffer holds cells: a unit of a client's stream and its fate. `handshark` leaves
the answer in place of the request, or, without a key, the request, which is then sent back; `umask` clears the
units behind a header (`Changed`: a range of a buffer has another fate); `transmission` gives the set of what the buffer may become, because a read
that does not begin with a frame has its first bytes taken for a header all the same. A stream is a request
and frames; the key's line is two units, so that a read may end in the middle of the key. `ZeroDigest` are the
clients whose digest has a zero byte: `base64_encode` gets `strlen` of the binary digest for a length, so those (one in
thirteen) get a wrong accept. A client sends frames only when it has been accepted, which is what a browser does.
`WellMadeAssumption` says what a stream is made of, as far as the code tells it apart: the rest of a key comes behind its beginning, and
behind a short frame's header comes the payload it announces.

### MemPool

One module for both versions: `HeadGap` is what `mp_create_pool` leaves for the first node (its
size in `mmpool注释版本.c`, the size of a `size_t` in `yzx_mempool.c`) and `ResetsHead` says whether
`mp_reset_pool` resets it. An address is a node and an offset; `End(i)` is `end` of a node, which no step
changes, `last` and `failed` are its fields, `large` the list of headers as the blocks they name (`None` once
freed), `blocks` a history of the small blocks that are in use. `Grant(r)` is the search, a set with the one
block it finds; `Fits` keeps the unsigned difference; `Carve` is the rest of `mp_alloc`
and `mp_alloc_block`. `NoHeader` is the only failing allocation that undoes something; the
others return before they change anything; in `yzx_mempool.c` it is no action but a crash (lines 134 to 137 use the header without a test).
`MaxOffset` bounds how far blocks are followed, since behind a page's end
nothing in the code stops them. `RoomForAny` is not an assumption of the module: it names what is true of the sizes of
`mmpool注释版本.c` and false of those of `yzx_mempool.c`, where the first node has 8 bytes for a structure of 32
(so its first block lies over it: with `HeadGap = 1` in `MCMemPool.cfg` `InsideOrBehind` fails), and a new node, of 8 + 4096 bytes, is too small for a request of 4095 behind its structure.

### CycleSearch

`ids` is the list of vertices, `next[a]` the list that hangs on `a`'s, `waits` a history of the waits
the hooks have entered and not taken away: the lists are searched by hand, so that they agree is a property.
`Blocks(a, b)` is the body of the loop in `lock_before` for one entry of the lock table, `Unblocks(a, b)` the branch of
`lock_after` that finds the lock; which `b` the table names is left open, so any thread may wait for any other at any time.
A step of the search is a call of `DFS`, a return (with the caller's `k--`), or the end of one `search_for_cycle`.
`path` is `path[0]` to `path[k - 1]`, `todo` the stack of the calls: for each the neighbours its loop has
still to visit. `visited` and `path` keep what the last check left in them. An edge from a vertex to itself is never
added, because `verify_edge` begins its walk at the vertex itself.
The graph is at rest during a check: that is so once there is a deadlock among all running
threads, and is otherwise a data race.

### LockHooks

A call of the hooked lock is `lock_before`, the real lock (`Acquire`) and `lock_after`; a call of unlock the real unlock (`Release`)
and `unlock_after`. `lock_after` is split where another thread's step tells: it scans the table, then inserts an
entry (`Insert`) and counts it (`Inc`, the locked addition), or takes over an entry it has found (`Adopt`).
A scan and an operation on the lists are one step each; races inside them are left out. `Scan` is the loop of `lock_before`, entry
after entry, and ends with the graph it leaves. `malloc` does not clear `locklist`, so `Junk` holds the tables it may leave. `JunkAssumption` is
that such memory names no mutex of now and has no negative `degress`; the owner in it is arbitrary, for it is stored before it is read. (With a negative
`degress` an entry would be cleared under a waiter, whose edge would then stay.) `lockidx` is never lowered and is raised for an entry that is used again, too, so
the table overflows after `MAX` insertions; `calls` bounds them, and what happens behind the end is not modelled.
`overlapped` is a history: hooks of two threads have raced for one entry. That is: a thread has come into `lock_before` while the one that
has the mutex had not finished its `lock_after`; or has got the mutex before the last holder had done `unlock_after`, which
`Release` allows because it frees the mutex first; or two threads insert in the same place. From then on the table may have two entries for a
mutex or none: that is in the design of a table without a lock.
`overtaken` is another history, and no race: the threads that have waited for a mutex while another got it. For those the
logic itself fails. The one that gets the mutex becomes the entry's owner (line 477) and gives up its own
edge (lines 457 to 466); the others keep their edge to the owner before, are given none to the new owner, and when one's turn comes it looks for an
edge to the owner of then, does not find it, and keeps the stale edge after its wait is over.
So the graph is right about a thread for as long as it has never been overtaken, and `EdgesAreBlocks` says that and no more.

### RsuSession

The service thread runs libwebsockets' callbacks (`Established`, `ConnectionClosed`, `Register` with its `Reply`), the application thread the
senders (`Sender`, `Test`, `Load`, `SendToRsu`): `send2rsu` tests `wsi` and then reads it again for the call. A message is its length and a number;
`sendbuffer` says whose byte is at each place, so that a frame shows which messages it is made of. Messages fit the buffer. `platcontrol2rsu` does not
set `sendnlen`, hence `control`. `rsu2plantcontrol` fails whatever it is given. `lws_callback_recv` deletes a cJSON tree its parser has deleted already (`DeleteAgain`):
the heap may notice or not. Histories: `crowded` (two connections were open at once), `spoiled` (threads whose message another copied over before it went out),
`gone` (a connection closed between the application's test and its use of it).

## 3. What the runs check

| Run | Instance | Result |
|---|---|---|
| `dbpool` | 4 threads, 3 connection objects, limit 2, fairness | `ExclusiveUse`, `NoLostWakeup` hold; the pool implements `ConnLease`; `AbortEndsEveryCall`, `IdleConnIsHandedOut` hold |
| `dbpool_lost_connection` | 3 threads, 2 connections | `NoConnLost` is violated (the finding below) |
| `dbconn` | 2 threads, 2 connections, 3 updates | `SessionsAreTheirs`, `TransactionsAreKept` hold |
| `threadpool` | 2 workers, 1 client, 3 tasks, fairness | three invariants and `StopReturns`, `EveryTaskRuns`, `WaitReturns` hold |
| `ringbuffer` | size 4, modulus 8, 2 byte values | `OneByteASlot`; the buffer implements `ByteFifo` |
| `rbspsc` | 3 bytes asked for, modulus 8, requests of 1 and 2, streams with and without lines, any bytes in the array at the start | `WriterKeepsOff`; the buffer implements `ByteFifo` |
| `reactor` | 2 connections, 2 descriptors in 2 blocks, sockets that fill, fairness | `WatchedAsRecorded`, `EventsAreCurrent`, `OwnBytesInOrder`; the server implements `EchoChannel`; `EveryByteAnswered`, `DescriptorsAreFreed` hold |
| `websocket` | 2 clients, 1 descriptor, streams of 6 and 3 units, reads of at most 4 | `OneRequestEach`, `AnswerThenBytes`, `MessagesAreAnswered` |
| `mempool` | in units of 8 bytes: alignment 4, structures of 3, 4 and 2, pages of 8 and the node's structure; 4 nodes, 3 large blocks | `BlocksDisjoint`, `InsideOrBehind`, `LargeIsListed` |
| `cyclesearch` | 3 threads, every graph, fairness of the checking thread | `EdgesAreWaits`, `FindsEveryCycle`, `NoFalseAlarm`, `PathFits`, `CheckEnds` hold |
| `lockhooks` | 3 threads, 2 mutexes, a table of 5: clean, full of old entries, or with one | `EveryEntryIsReached`, `OwnersAreListed`, `EdgesAreBlocks` hold |
| `rsusession` | 2 connections, 4 messages of up to 3 bytes | `WsiIsTheUnit`, `FramesAreMessages`, `DiesOnlyInTheGap` hold |

The type invariants (`TypeOK`, `WsTypeOK`, `HooksTypeOK`) are in no run because they are theorems (section 4).

**Why the bounds are enough.** In the connection pool the interesting cases need
one holder of each connection, one waiter and one more thread that comes in
between a notification and the wake-up: four threads and two connections; the third
connection object lets a new one be opened after a failure or a loss. In the thread
pool two workers are what it takes to finish together, and a client must be there to be woken in
a worker's place; three tasks keep the queue from being empty while both
workers are busy. In the ring buffers a modulus of twice the size lets every
position and every length occur on both sides of the wrap; requests longer
than the size meet the "too much" branch. In the reactor the second connection
takes the first one's descriptor when that is closed, within one batch too, and the second descriptor is in a second block; two bytes a client
and a buffer of two give full, partial and empty reads. In `websocket` one descriptor for two connections makes every
record be reused, 4 units a read let a read hold a whole request and more, a frame, or
a part of each, and both frame formats that the code tells apart occur. In the pool
the structures and the alignment have their real sizes and the page is, as the real one, a multiple of the alignment: so the first page ends in
a gap before the next multiple (15 of 16 units; 4152 of 4160 bytes in the program) and the others do not. A request may be as long as the page
(4095 bytes, rounded up to units, are 4096), or leave a gap, or be unaligned; `MaxOffset` lets one such request and more go behind the first
page's end. `FailLimit` is 0 and `Probes` 2, so that
pages fill, nodes are passed over and the search for a free header gives up within four nodes. Three vertices give the cycles of two and of three, two that share a vertex, vertices behind a cycle, and two
branches that meet; `MaxWaits` 9 is every possible wait. In `dbconn` two threads are a user and the next
borrower of a connection, the second connection keeps them apart or lets the pool forget one, and three updates are one before, in and after a transaction.
In `lockhooks` two mutexes close a cycle of two threads, the third is a second waiter or disturbs them; five calls
use an entry again and fill the table. In `rsusession` two connections follow or overlap each other, and four messages
let either thread copy over a message of the other and go on. The theorems of section 4 remove these bounds for the safety properties.
Bounds that exist only in the model: `MaxRequest` (longest request), the finite
sets of threads, connections and tasks (a task is submitted once), `Wrap`, `MaxSend`
(bytes a client sends), `MaxFd`, `MaxNodes`, `MaxOffset`, `MaxWaits`, `MaxWrites` (calls of `ExecuteUpdate`), `MaxLen` and `MaxMessages`
(of the road-side unit), and `MAX` as the number of calls of lock; a client connects once.

**Fairness.** Only what the program itself keeps doing is fair. `DBPool`: a thread
inside a call goes on (`EnterGet`, `Wake`, `RelDBConn`), because the mutex is held
for finite sections only. Time-outs, spurious wake-ups, new calls, releases and
the destructor are never required. `Threadpool`: workers, notified clients and the
owner inside `stop` go on and tasks end. Weak fairness is enough since none of these actions is
disabled by others for ever. The ring buffers and the memory pool have no liveness property: nobody waits in them.
`Reactor`: the loop goes on (`EpollWait`, `Dispatch`), and a descriptor that is ready again and again is
returned some day (strong fairness): the kernel keeps a list of the ready descriptors and goes round it.
The properties themselves have one premise about the outside, per connection: its own client goes on reading (`[]<>Writable(c)`). A client that
reads no more has its connection open and its bytes unanswered for ever, as in the program; the others are served none the less, and are themselves required
to do nothing. The premise stands in the property and not in `Fairness` so that it binds only the connection that the property is about.
`CycleSearch`: the checking thread goes on with a check it has begun; hooks and new checks are never required.
`DBConn`, `LockHooks` and `RsuSession` have safety properties only: a thread there waits in the pool, which has its own
liveness, in a mutex, which may be a deadlock the detector is to find, or not at all.

### Disagreements between the code and what it says of itself

One has a run of its own, `dbpool_lost_connection`. `DBPool.cpp:249`: releasing to a free list that is not empty loses a connection.
What still holds is as telling: use stays exclusive, nobody waits for ever because of it, the count stays exact (the last two as theorems).

Five more are stated in the modules and are found when the property is checked:

- `Threadpoll.cpp:86`: `waitForAllDone` answers "done" when the queue is
  empty although popped tasks may still run, or may not have begun. `INVARIANT AllDoneMeansDone` in `MCThreadpool.cfg`, with 2 tasks.
- `ringbuf.h:124`: `rb_readline` without a stored line reads slots that hold no stored byte, long consumed or never written, and if there is a newline
  in one sets `read_pos` past `write_pos`. `AnyTime = TRUE` and `INVARIANT ReadBehindWrite` in `MCRbSpsc.cfg`.
- `ringbuf.h:100`: `rb_read` may return more than `sz` bytes, and write behind the caller's buffer: the producer stores more between the two
  reads of `write_pos` in `min`. `PROPERTY NoMoreThanAsked` in `MCRbSpsc.cfg`. The ring itself stays a FIFO.
- `mmpool注释版本.c:222` (and `yzx_mempool.c:148`): when a page has fewer than `MP_ALIGNMENT` bytes left,
  the aligned start may lie behind its end, and the unsigned difference lets the block be cut off there, and all the later ones behind it.
  `INVARIANT LastWithinEnd` in `MCMemPool.cfg`. With the real sizes
  (24 and 32 bytes of structures, 4096 bytes a page, alignment 32) the first page ends at 4152, 24 bytes after a multiple of
  32, and headers of 16 bytes alone lead into that gap; all later pages end at 4128, a multiple, and are never overrun
  (`OnlyTheFirstPageOverruns` in section 4). What `InsideOrBehind` leaves is that no block straddles the end, and that none is behind it but in that case.
- `deadlock_success.c:457`: the second of two waiters keeps its edge to the old owner and gets none to the new one (`overtaken`, above), so the search misses
  deadlocks and reports false ones. `INVARIANT EdgesFollowTheOwner` in `MCLockHooks.cfg`.

Others come from a constant or a premise. `ring_buffer.c:45`: the check that `size` is a power of two (line 47 demands it) is compiled out; with
`size = 3` and `Wrap = 8` in `MCRingBuffer.cfg`, `OneByteASlot` fails. `websocket_server.c:245`: the comment at
line 213 has the whole digest encoded, the code stops at its first zero byte; without its exception `MessagesAreAnswered` fails.
`LockHooks` and `RsuSession`: the premises `~overlapped`, `~crowded` and `frame.sound`, and the consequent `gone`, are the exact
cases in which the unlocked sharing goes wrong; without them the properties fail. What happens inside those cases no property covers;
`PROJECT.json` says so at each hazard (`note`). The same goes for `stop` and tasks: `EveryTaskRuns` and `WaitReturns` end with `_bTerminate`, because
after it tasks do stay in the queue and a client without a time-out does sleep on.

## 4. What is proved

All theorems are for arbitrary constants under the assumptions named in the
modules (`tlapm` checks them to the last leaf).

- **DBPool_proofs.** `IInv == TypeOK /\ OneIdle /\ Support /\ ExclusiveUse /\ NoLostWakeup`
  is inductive. `OneIdle` is the surprising part: because of the
  assignment in `RelDBConn` the free list never has more than one entry, which is why the
  missing notification strands nobody. `Support` says that sleepers exist only while the pool is at
  its limit and somebody else can end their wait; `NobodyWaitsInVain` follows from it. From the invariant:
  type correctness, exclusive use, no lost wake-up, waiters have suppliers, exact
  count (by its own inductive step on cardinalities), and the refinement of `ConnLease`: the connections in use are no more than those
  counted, so there is a lease to be had whenever the pool gives one out (`LeaseFits`).
  For `DBConn`: every step of it is a step of the pool or none (`PoolAtWork`), so the pool's invariants are at hand, and
  a step of the pool takes no connection from a thread in a transaction (`HeldConnStays`). `SInv` then says, per connection, that its session has exactly the
  transaction of the thread that holds it, and each statement is one of four kinds (opens, writes inside, writes outside, closes) for which
  it is kept: `SessionsAreNotShared`, `CommitTellsTheTruth`.
- **Threadpool_proofs.** `IInv == TypeOK /\ Hands /\ CountInv /\ ClientWillBeTold /\ QueueIsServed`.
  `Hands` ties each worker's place to what it holds and whether the pool is up, `CountInv` ties
  `_atomic` to the number of workers inside a task. `QueueIsServed` is inductive
  because a worker goes to sleep only on an empty queue, so a
  notification that wakes a client instead of a worker finds another worker awake.
  `TasksAreConserved` has an induction of its own on top of `IInv`.
- **ModArith.** Distances of two positions on a circle of `W`, how they change
  when one moves, and that positions closer than `size` have different slots when `size` divides `W`.
- **RingBuffer_proofs.** Type correctness and one-byte-a-slot follow from the
  arithmetic. The refinement of `ByteFifo` rests on `StoredIsBytes` (the stored bytes
  as a sequence) and on two lemmas: a put appends, a get takes from the front.
- **RbSpsc_proofs.** `IInv == TypeOK /\ WriterInv /\ ReaderInv`. `WriterInv`: there is
  still room for the whole request, and its first `wr.i` bytes are in place.
  `ReaderInv`: the copy is a prefix of what is stored, and a line being searched for
  ends beyond it, or else there is no newline anywhere. Each mentions only what the other thread cannot take away (the producer only adds
  stored bytes, the consumer only adds room), which is why the stale samples are harmless.
  Proved: type correctness, `WriterKeepsOff`, `WrittenIsStored`, the refinement of `ByteFifo`.

- **Servers_proofs**, the reactor. `IInv == TypeOK /\ WatchedAsRecorded /\ EventsAreCurrent /\ ListenerInv /\ EventsAreOpen`.
  A callback changes the record, the interest and the owner of its own descriptor only, and takes its own event out of
  the batch; `accept` gives out a descriptor that was closed, and `EventsAreOpen` says that no event is
  left for those. Proved: type correctness, agreement of records, their blocks, epoll set and
  descriptors, and that events reach the connection they are about. On top of it `OrderInv`: `OnePlace` (a connection is
  in the backlog once, or behind one descriptor, or nowhere), and for each connection that what its client got back, what its
  record has to send (`Flight`, nothing unless the callback is `send_cb`) and what has arrived are increasing one after the other (`InOrder`): no byte comes
  twice or out of order. The refinement of `EchoChannel` needs what a connection is owed by the place where it is (`OwedByPlace`), and that
  nothing has arrived on a connection that does not exist yet (`Silent`); then `recv` owes what it did, a whole or short `send` is one `Echo`, a close is
  a `Finish`, and `accept` and `epoll_wait` stutter.
- **Servers_proofs**, the WebSocket server. It has the reactor's event loop with other things in its buffers, so what is proved of records, epoll set and
  events is stated once, for buffers of any kind (`Structure(B)`: `IInv` is `Structure(Bytes)`). `WsInv == Structure(Cells) /\ OnePlace /\ MarksOK`, with `ConnInv` for each
  connection (its reads end where the next one begins, and what has arrived is its stream from there on) and `FdInv` for each open
  descriptor. `FdInv` is the hard part: the record is in the handshake exactly as long as its present connection has not been read from (`RequestOf`), though the
  status outlives the connections that had the descriptor before; and `Chain`: what was sent back together with what waits in the record is the answer to the first read and
  then every unit in order. From it `OneRequestEach` and `AnswerThenBytes`. `MsgInv` adds `MeantOf` for connections whose reads were a message each
  (`FramesLater`: before the first read there is no frame), from which `MessagesAreAnswered`. Only that proof uses `WellMadeAssumption`.
- **Servers_proofs**, the road-side unit. `SessionInv == RsuTypes /\ OneUnit /\ Buffered /\ Lengths /\ InTheGap /\ FramesAreMessages /\ DiesOnlyInTheGap`.
  `OneUnit`: while units connect one at a time, `wsi` is the connection there is and the one whose registration is under way. `Buffered`: a message that nobody has copied over is the
  front of the buffer to its end, since numbers in the buffer have all been given out before. `InTheGap`: what the application thread
  has tested or loaded is live unless a connection has closed since.
- **MemPool_proofs.** `IInv == TypeOK /\ BelowLast /\ BlocksDisjoint`: blocks do not overlap, for any sizes, because every
  block ends at or before `last` and the next begins at or after it; that also holds where the
  page's end is overrun. `EndInv` adds `NodesOffGap`: `last` of a node is within its page, or at or behind the next multiple of the alignment if
  the page does not end on one: never in the gap between (`OffGap`). A block that is cut off behind the end therefore begins behind the gap, and one
  that begins within the page was tested with a true difference (`GrantedOffGap`). From it
  `NoneStraddlesTheEnd` (`InsideOrBehind`), and, where pages but the first end on a multiple, `OnlyTheFirstPageOverruns`. Both ask `RoomForAny` of the
  sizes, the second that the alignment divides `PageSize`; both are true of `mmpool注释版本.c`, with any requests.
  `LargeBlocksAreFreed` needs only the types besides: each operation
  adds or clears one header together with its block, and reset and destroy clear them all.
- **Detector_proofs**, the search. `Base == TypeOK /\ Stack /\ NoRepeats /\ EdgesAreWaits`. `Stack` says that each active call is for a
  neighbour of the one before; `NoRepeats`, that `remove_edge`, which stops at the first match, takes the edge away. On top
  of it three invariants. `Explored`: while nothing is reported, each neighbour of an active call is still to come, active, or
  safe (no cycle can be reached from it); a vertex seen twice would have been reported, so marks that are not reset cost no cycle: `FindsEveryCycle`.
  `Distinct`: the path has no vertex twice, so it fits (`NotLonger` counts): `PathFits`. `Chain`: where nobody waits for two
  others, what is marked is the path, so the vertex met again closes a cycle: `NoFalseAlarm`. With two waits of a thread
  it need not: two branches that meet again are reported, too.
- **Detector_proofs**, the hooks. `HooksInv == TableInv /\ (~overlapped => OrderlyInv)`. `TableInv` holds however the hooks interleave: types, a graph whose
  lists name nobody twice, `TableSuffices` (calls that have not counted their entry yet find room, by counting those threads), `HaveOwners`,
  and `EveryEntryIsReached`. `OrderlyInv` is what the table is meant to be: a mutex has one entry at most and a holder that is done has one
  (`OneEntry`, `Owned`); of the threads in the hooks of one mutex all but one wait, and beside a waiter that was never overtaken there is only
  the one that gives the mutex back (`Apart`, `Freed`); threads insert in
  different places (`OwnSlots`, `Inserting`); an entry stays while its mutex is free or somebody is to take it over, for each of those has counted itself in
  `degress` (`InTurn`, `Idle`, `Counted`); and a thread in `lock` that was never overtaken has the edge
  to whom its mutex's entry names, and no other (`Pointing`). The loop of `lock_before` is followed over entries 1 to `lockidx` (`LoopRuns`, `Scanned`), by the
  least entry at which it would go wrong. From it `OwnersAreListed` and `EdgesAreBlocks`.
- **Detector_proofs**, both. `DeadlocksAreCycles`: until hooks have raced, a set of blocked threads that were never overtaken is a deadlock (each waits for a
  mutex that one of them holds) exactly if it is a cycle of the graph in the sense of `FindsEveryCycle` (`CycleSet`). So the detector is complete for
  deadlocks of such threads that have come to rest, and what it reports among them is one. Of overtaken threads it is neither, and nothing is claimed.
  A thread that has its mutex and has not come to `lock_after` yet still has its edge: a check in that moment may report a cycle that is about to dissolve.

Assumptions. `RoomForAny` for the two theorems about pages, and `PageSize % MP_ALIGNMENT = 0` for the second, as above. `SizeDividesWrap`: a power of two below 2^32 divides 2^32, and
`rb_init` rounds up to one; the rounding itself is checked by TLC only.
`AnyTime = FALSE` for all theorems of `RbSpsc_proofs` (`ringbuf.h:124` in section 3 is the other case). The modules' own: bounds are natural numbers, values that stand
for "none" (`NoConn`, `Nobody`, `NULL`, `None`) are none of the things they are told apart from, a message fits its buffer (`ReplyFits`),
streams are well made (`StreamAssumption`, `WellMadeAssumption`), and memory from `malloc` names no mutex (`JunkAssumption`).
The sets of threads, connections and mutexes may be infinite where no assumption says otherwise.

**Only model-checked:** the liveness properties (fairness and ENABLED are beyond
the prover) and the effect of `rb_init`'s rounding. Every invariant and every action property that a passing run checks is a theorem.

## 5. Not modelled

- `CDBPool`: the end of the members' lifetime after the destructor's body; used-list
  order (the list is a set: no code depends on the order).
- `Threadpool`: clocks (a time-out may expire at any moment, a task may or may not have
  expired; so the milliseconds that are used as microseconds are out of sight), exceptions other than a task's.
- Ring buffers: failing allocations, `ring_buffer_free` and `rb_free` (they end the object's life), the
  build without `USE_BARRIER` (a data race), the caller's destination buffer, processors with a weaker order than x86's in `rb_readline`.
- `Reactor`: failing `malloc`, `fcntl` and socket calls at the start; `ntyreactor_destory`, which
  the endless loop never reaches; `last_active` (its only reader is commented out); what the byte
  after a full buffer is (the terminator falls on the low byte of `length`, 4096, which is zero already).
- `WebSocket`: reads that end within a frame's header or before the end of the words `Sec-WebSocket-Key`; SHA-1 and base64; header
  lines longer than `linebuf`; what `umask` changes behind the bytes received, which are never sent; fragmented messages and control frames (the code looks at no
  opcode); liveness, which is `Reactor`'s.
- `MemPool`: the contents of memory; the return statements missing from `yzx_mempool.c` and its
  header requests of the pool structure's size, and its crash without memory for a header; `head->next`, which `mmpool注释版本.c` leaves uninitialised, is
  NULL as in the other version; an `mp_alloc_block` that fails for a small request (nothing changes).
- `CycleSearch`: a check while threads run (above); the types of vertices; more than `MAX` threads.
- `LockHooks`: two threads inside one list operation or one scan, insertions behind the table's end, mutexes that are
  destroyed.
- `DBConn`: `CResultSet`, which only walks through a stored result, and `GetInsertId`, which reads a number; an update that changes no row.
- `RsuSession`: the fields of messages and the decoding of JSON; what no thread reads again; messages longer than the buffer.
- The leak tracers (`memleak/`): each call works on a file of its own, named after the address; a model would restate the file system.
- ARP and UDP echo (`net_family.c`): one reply per packet, computed from the packet alone; no state.
- Vendored code: cJSON, and the headers of libwebsockets, OpenSSL, MySQL and a message standard. They are about 95 % of the
  repository's lines, declarations and constants that no program here defines, so the modelled share of all lines is small by nature.

## 6. What is left

The repository's own programs are modelled, but for the parts above, and their safety properties are proved. Worth doing next:

- `LockHooks` together with `CycleSearch`'s check, every access to a list a step, to find what a check reports while threads run.
- That `rb_init`'s rounding ends at a power of two; it is a loop over data, so it needs a formulation without induction on it.
