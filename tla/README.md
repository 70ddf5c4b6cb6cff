# Verification of the select-mode network framework

The repository is a small TCP framework in C++11: a library (`src/CommonLib`) with
clients and servers built on `select`, message queues and memory pools, and programs
that use it (`src/ClientTest`, `src/ServerTest`). It has no tests; its programs are load
generators. This directory holds TLA+ models of the framework, TLC configurations that
check them on small instances, and theorems about them that TLAPS proves for all
instances. Paths below are relative to `src/CommonLib` unless they say otherwise.

## 1. Inventory

How a message travels: a client copies it into a unit of its `VarMemPool` and pushes it
onto its `SafeQueue`; the send path gathers queued messages in `_sendBuf` and hands the
bytes to the kernel; the server's handler thread `recv`s bytes into `_recvBuf`, cuts them
into packages and calls `OnMsgHandle`, which answers through the same send path, or
broadcasts to the clients of all handlers.

| Part | State | Operations | Talks to | What is hard |
|---|---|---|---|---|
| `MemoryPool`, `MemoryBlock`, `SafeMemPool` | doubly linked list of blocks; per block a free list whose links lie in the free units | `Alloc`, `Free`, `FreeAll`, dispose | all users of pools | long call sequences; callers overwrite the links; growing, deleting and moving blocks |
| `VarMemPool` | seven pools, unit sizes 16 to 1024, and the system allocator | `Alloc(size)`, `Free(p, size)`, `getPool` | `MemoryPool` | `Alloc` and `Free` choose the pool independently; boundaries of sizes |
| `MyQueue`, `SafeQueue` | list of pool units, `_size`, a mutex, an iterator | `push`, `pop`, `front`, `hasData`, `begin`/`getVal`/`next`/`manualSize`/`clear` | sockets, handlers | `front`, `hasData`, `size` do not lock |
| `IOBuffer`, `OBuffer` | a byte buffer, read and write positions | `readBytes`, `writeBytes`, `moveReadPos`, `moveDataToFront` | sockets | assertions on room |
| `ClientSocket` (server side) | socket, receive buffer and kept size, send buffer, message being copied, queue | `ProcessorRecv`, `ProcessorSend`, `SendData`, `Close` | `SafeQueue`, `VarMemPool`, kernel | packages cut anywhere; partial sends; senders in other threads; `Close` half way |
| `SelectServer_Thread` | listening socket; handlers, each with a queue of new connections, a client list, a `select` set | `InitServer`, `OnRun` (accept, choose a handler), `HandleThread`, `Broadcast`, `Close` | `ClientSocket`, `SafeQueue` | one thread per handler; sets rebuilt on a flag; reused descriptors; deletion while others look |
| `SelectClient_Thread`, `src/ClientTest/Client01.cpp` | socket and its mutex, two queues, three buffers | `Connect`, `RecvThread`, `SendThread`, `OnRun`, `SendData`, `Close` | `SafeQueue`, `VarMemPool` | four threads on one object, a lock in `Close` only |
| `SelectServer`, `src/ServerTest/Server01.cpp` | listening socket, one list of clients, the set for `select` and its maximum | `Bind`, `Listen`, `OnRun`, `Close`; a handler that answers one or all | `ClientSocket` | one thread for everything, on blocking sockets; the set rebuilt on a flag; `accept` may block the loop |
| `SelectClient`, `src/ClientTest/Client02.cpp` | an array of clients, each a socket and a receive buffer | `Connect`, `OnRun`, `SendData`, `Close` | kernel | one thread sends and receives; a send that blocks; the array is not initialised |
| `src/ServerTest/Server02.cpp` | as `Server01`, over `SelectServer_Thread` | echo, broadcast | `SelectServer_Thread` | lengths added up in 16 bits |
| `src/ClientTest/Client04.cpp` | managers with clients, a pool and a detached thread each | `Init`, `Start`, `HandleThread`, destructors | `SelectClient_Thread` | two plain bools between a thread and the destructor that frees what it uses |
| `src/EasyTcpServer` (`CellServer`, `EasyTcpServer`, `server.cpp`) | listening socket, count of clients; per cell a vector of clients, a vector of new ones, each client's message buffer | `Accept`, `addClientToCellServer`, `OnRun`, `RecvData`, `OnNetMsg`, `SendData`, `Close` | kernel; not linked with `CommonLib` | threads that share vectors, counts without locks, erasing on the way, a `select` without time limit |
| `src/EasyTcpClient` (`EasyTcpClient`, `client.cpp`) | clients, send threads, `g_bRun` | `Connect`, `OnRun`, `SendData`, `Close` | kernel | blocking sends, `main` does not wait for its threads |
| messages, factory, configuration, clock, dumps | plain data | constructors, parsing | | nothing concurrent |

What makes each part correct:

* pools: a unit is handed out to one caller at a time, is large enough, goes back to where
  it came from, and no block is deleted under a caller;
* queues: FIFO, no loss or repetition, for the threads that use them; what is seen without
  the lock stays true as long as its reader relies on it;
* receive path: each package whole, in order, once, as soon as it is complete; `recv` always
  has room;
* send path: the byte stream is the concatenation of the queued messages; each unit is freed
  once, and not before it was copied; a reading peer gets everything, a peer that does not
  read is cut off;
* threaded server: a descriptor belongs to one connection, a connection to one handler, the
  `select` set to the current clients; nothing deleted is used; `Close` closes what
  was taken over; new connections are taken over and `Close` terminates, unless a client
  that does not read keeps the handler in a send;
* single-threaded server: the list, the descriptors and the set are those of the open
  connections; only `send` may block; nobody waits for ever but where both ends do;
* `EasyTcpServer`: the count of clients is right, no client is skipped or read twice in a
  pass, the message buffer never overflows, new clients are taken over;
* `Client04`: nothing is freed under a manager's thread, and the program ends when stopped;
* threaded client: closed once, units accounted for, order kept under a concurrent `Close`,
  the program ends.

The hazards, with their lines and the properties that cover them, are in `PROJECT.json`.

## 2. Modules

```
Allocator        <--refined by--  MemoryPool   <- VarMemPool (a pool per size)
MessageChannel   <--refined by--  SafeQueue    <- ClientSocketSend, ServerThreads, SelectClient_Thread
                 <--refined by--  ClientSocketRecv

Sockets  <-  SelectServer   (Server01)  \
         <-  SelectClient   (Client02)  /  composed in  EchoSystem
         <-  EasyTcpServer              \
         <-  EasyTcpClient              /  composed in  EasyTcpSystem
Client04                                   (over the contract of SelectClient_Thread)
```

An arrow to the right means that the module uses the contract shown on the left instead of
the detail; a module whose name begins with `MC_` gives TLC its constants, one that ends in
`_proofs` holds theorems. Operators that begin a comment with "Mistake:" are plausible bugs;
each checked property is violated when one of them replaces the definition it imitates.

**`Allocator`** and **`MessageChannel`** are the two abstract specifications: a set of
addresses in use, and a sender's and a receiver's sequence of which the second follows the
first.

**`MemoryPool`** (`MemoryPool.cpp/.h`). `mem[b]` is the administration of a block:
`nFree`, `nFirst` and the links, which are USHORTs in the free units. `pBlock`, `pPre`,
`pNext` are the block list, `live` the blocks not deleted. Actions: `AllocFromHead`,
`AllocGrow`, `Free` (with deletion of an emptied block, moving to the front), `FreeAll`,
`dispose`, and `Write`, by which the owner of a unit overwrites the two bytes that were
its link. `SafeMemPool` takes a mutex in `Alloc`, `Free` and `GetInfo`, so
these are atomic. `FreeAll` and `dispose` do not take it: `FreeAll` is called only by
`MyQueue::clear` (`MyQueue.h:31`), on a queue's own plain `MemoryPool`, and `dispose` only by
the destructor, when nobody else has the pool.

**`VarMemPool`** (`VarMemPool.cpp/.h`). A call of `Alloc` or `Free` is a search over the
table of unit sizes, one halving per step (`Narrow`), then a unit is taken from or given
back to the pool found, or to the system. A pool is the set of its units in use, the
contract `Allocator`.

**`ClientSocketRecv`** (`ClientSocket.cpp` 99-156, `IOBuffer.h`). The peer sends messages,
the network delivers any number of bytes at a time, `ProcessorRecv` takes any part into the
room behind the `retainSize` kept bytes; `recvBuf` holds stream positions, so that moving
bytes wrongly is visible. The parse loop is a step per package, as each is
handed to `OnMsgHandle`, code of the application, before the next is looked at; no
`OnMsgHandle` of the repository closes the client, and the module has none that does. A head
is read from the buffer's content, never from the
message that ought to be there. Messages longer than `PACKAGE_MAX` close the connection.

**`SafeQueue`** (`SafeQueue.h`, `MyQueue.h`). Each operation is split at every access other
threads can see: `push` counts (`PushCount`), allocates and fills a node whose link is
junk (`PushAlloc`), links it (`PushLink`), seals the end (`PushSeal`). `front` reads the
head twice without the mutex.

**`ClientSocketSend`** (`ClientSocket.cpp` 42-75, 158-273). One handler thread runs
`ProcessorSend`, a step per test, copy or system call, with its stale local `canWrite`;
other threads push between any two of them. The kernel accepts a prefix of the buffer,
nothing, or fails. A byte is `<<message, index>>`.

**`ServerThreads`** (`SelectServer_Thread.cpp`). The main thread creates the handlers, whose
threads run before there is a socket, binds and listens; then it accepts a connection,
reads the handlers' numbers one by one without locks, queues the connection, and at any
time closes the server; each handler drains its queue, rebuilds its set, selects, serves
its clients by position, erases those that failed, and may broadcast over all lists.
The sockets are blocking and `select` promises only some room, so serving a client may keep
the thread in `send` until that client reads (`SendWaits`).
Descriptors are reused at once. A use of a deleted object sets `undefined` and ends the
run of the model.

**`SelectClient_Thread`** (`SelectClient_Thread.cpp`, `src/ClientTest/Client01.cpp`). The
main, input, receive and send threads of `Client01`, a step per access of shared state.
`Close` runs under its mutex, called from any of them: `closesocket`, then
`_sock = INVALID_SOCKET`, then the two queues, then the buffers that the other threads
may be reading. Undefined behaviour (a null pointer, `FD_SET(-1)`, the deleted client) and
a failed assertion end the run of the model, in `crash`.

**`Sockets`** is the kernel as the two compositions below use it, and external to the
repository: connections with an end on each side (`none`, `backlog`, `open`, `closed`) and
a bounded number of units on their way in each direction; what makes a `recv` or a `send`
return at once; and what closing an end takes with it.

**`SelectServer`** (`SelectServer.cpp`, `src/ServerTest/Server01.cpp`). `OnRun` is a step
for the rebuilding of the set with `select`, one for `accept`, and for the client at the
iterator (`pos`) the receiving with the handler's answers (`ProcessorRecv`), the sending
(`SendBegin`, a `SendUnit` per unit that the kernel takes, `SendEnd`) and the deletion.
`Selected` keeps the quirk of the first round: with `_maxSock = -1`, `select` is told to
look at no descriptor and leaves the listening socket in the set, so `accept` waits.

**`SelectClient`** (`SelectClient.cpp`, `src/ClientTest/Client02.cpp`). The main thread
connects its clients one after the other, then visits each in every pass: `OnRun`
(`OnRunReceives`, `OnRunIdle`, `OnRunFails`), `SendData` (`SendSome` per part the kernel
takes), and deletion of those that failed; `inputThread` clears `_runing`.

**`EchoSystem`** composes both over the same sockets: a step of the server, of the client's
main thread, or of the user.

**`EasyTcpServer`** (`EasyTcpServer.hpp`, `server.cpp`). The main thread accepts, chooses
the cell with the fewest clients from counts it reads without their locks (any outcome
while a cell changes its vectors), puts the client into that cell's buffer, and only then
counts it. A cell's thread takes the new clients over, waits in `select`, visits its
clients by a descending index, adds what it receives to the client's message buffer,
answers, and erases those that left.

**`EasyTcpClient`** (`EasyTcpClient.hpp`, `client.cpp`). Send threads with a part of the
clients each; `main` returns when the user says so, without waiting for them.
**`EasyTcpSystem`** composes the two.

**`Client04`** (`src/ClientTest/Client04.cpp`). The main thread creates managers, starts
their threads, and after the user's word runs the destructors: clear `_runing`, spin on
`_threadStop`, free the clients. A manager's thread goes through its clients; what a client
does is open, closed, or waiting in a send.

### Abstractions

* `std::list` and `int` members shared without locks are read and written in one piece;
  plain flags are seen by other threads (the makefiles do not optimise).
* A unit private to one thread is written and freed in the same step in which it is taken
  from a queue: nobody else can see the steps between.
* Counters for debugging, `GetInfo`, `dump` and logging are left out.
* `ServerThreads` leaves what a client does with its bytes to the `ClientSocket` modules;
  `SelectClient_Thread` copies and parses whole messages for the same reason. Its
  `clearBuffer` step stands for three `setBuffer` calls; a thread that meets a half-reset
  buffer crashes on the null pointer where the model fails the assertion.
* `EchoSystem` and `EasyTcpSystem` count units, not bytes, and all messages have one length:
  what is cut or mixed is the subject of the byte-level modules. A `recv` of the
  servers or of `Client02` may take any part of what has come; one of `EasyTcpClient` takes
  all of it, as what it would leave only comes in a later pass. What the clients receive is
  only printed, so its parsing is left out.
* A `send` to a closed peer is an error, or raises SIGPIPE, which nothing in the programs
  handles, and ends the process: both are choices of the model.
* `select` given a closed descriptor fails (EBADF); here it closes the whole server, which is
  what `Registered` excludes. A `select` that fails for other reasons is a choice too.
* In `EasyTcpServer`, closed descriptors are not reused: the second close of the listening
  socket (by the destructor, or by the other cells) is not modelled. A client that leaves is
  deleted without closing its descriptor, and its connection stays open on the server's
  side, as in the code.
* Plain flags read in a loop (`Client04`) are read again every time: the makefile sets no
  optimisation.
* Locals that are dead are reset (`canWrite`, `sendLen`, `back` in `SelectClient_Thread`).

## 3. What the runs show

Deadlock is checked in `queue`; the other systems may really stop, or a user do nothing. Distinct
states in parentheses.

| Run | Instance | Shows |
|---|---|---|
| `pool` (174,002) | 3 blocks, 2 units each, with `FreeAll` | free lists, block list, held blocks live, no grown block without a used unit until `FreeAll`, refinement of `Allocator` |
| `pool_full_head` (violation) | 3 blocks | the comment at `MemoryPool.cpp:98` is wrong, see section 6 |
| `var_pool` (10,433) | the seven sizes of `VarMemPool.h`, every size at a limit and next to it | `BestFit`, `InUseIsHeld`, the search ends |
| `recv` (33,235) | head 2, package at most 4, buffer 5, messages of 2, 4, 6, stream of 10 bytes | room for `recv`, complete packages delivered, refinement of `MessageChannel`, what arrives is delivered |
| `queue` (108,348) | 2 producers, 1 consumer, 3 nodes, 4 pushes | `front` and `hasData` without the mutex, refinement of `MessageChannel` |
| `send` (287,671) | buffer 2, messages of 1 and 3 bytes, 3 messages, 2 threads besides the handler, limit 1 | order of the stream, the unit freed is the one copied, none lost, backlog bounded, everything sent |
| `server` (178,996) | 2 handlers, 3 connections, 2 descriptors, broadcasting | ownership of descriptors and connections, the `select` set, which lists are safe to walk, connections are taken over and `Close` ends, unless the handler is kept in a send |
| `client` (367,469) | 2 messages each way, buffer of 1, limits 1 | closed once, units, order, the program ends, even if a send waits for ever |
| `client_asserts` (violation) | as `client` | an assertion of `IOBuffer.h` fails, see section 6 |
| `echo` (535,569) | 2 clients, 2 units in the kernel per direction, messages of 2, a client's send of 4, buffer 3, limit 1 | `accept` and `recv` never wait (but for the first `accept`), list, descriptors and set agree with the open connections, the only standstill is both sides waiting in `send` |
| `easy_tcp` (635,396) | 2 cells, 2 clients of 1 send thread, message 2, message buffer 3 | the count of clients, the descending pass, room in the message buffer, new clients are taken over or which wait keeps them out |
| `client04` (9,830) | 5 clients for 2 managers (one is left over) | nothing freed under a thread, a stopped program ends unless a thread waits in `send` |

Why the bounds are enough: three blocks give a head, a middle and an end of the list, with
every way to unlink and move one, and four let a block fall behind two others; a buffer of
two bytes against messages of one and three makes a message fit beside another, fill the
buffer and span two fillings; a package of four in a buffer of five can be cut before, in
and after its head and leave every kept size; three connections over two descriptors force
reuse while a third waits; three nodes and four pushes empty the queue and reuse a node;
two threads besides the handler contend for the queue's mutex while it counts one message.
Two messages each way fill the client's buffer and exceed both limits. In `echo` a client's
send and a buffer of the server are both longer than what the kernel holds, so each side
can wait in the middle of a send; two clients make a list with a client before and behind
the one deleted, two descriptors force their reuse, and a broadcast fills the queue of a
client whose turn is over. `UShortMax` is above the length sent in this instance, so that
sends are not cut short by the conversion to `unsigned short`; the theorems have any value.
In `easy_tcp` a message fits the buffer together with a full `recv` but not twice, and two
cells can share or split the clients.

Fairness, and why the code justifies it:

* `var_pool`: a running call is executed. `queue`, `pool`, and the safety runs need none.
* `recv`: `ProcessorRecv` runs again while bytes wait: `select` reports a readable socket
  in every round of the handler.
* `send`: threads are scheduled (weak fairness of the handler's steps, of `Close`'s, of each
  sender); the kernel accepts bytes again and again (strong fairness of the step that does),
  which is what a peer that reads means. It is assumed for `QueuedIsSent` only.
* `server`: each handler's thread is scheduled unless it is in a send that waits. `select`
  has a zero or 10 microsecond timeout and `recv` and `accept` are called when there is
  something to take, so `send` is the one call that waits for a peer; `OnMsgHandle` is taken
  to return. A handler that stays in `ProcessorSend` because others push as fast as it sends
  counts as one that waits. `JoinIsServed` and `CloseEnds` name the exception, for the
  handler concerned; without it both are violated. `OnRun` and `Close` of the main thread are
  executed once begun; nothing forces it to accept or close.
* `client`: the main, send and receive threads, and a `SendData` or `Close` that the input
  thread has begun, are scheduled, but for a send that waits for the server to read; nothing
  obliges the user to type.
* `echo`: the server's thread and the client's main thread are scheduled while they can go
  on; a thread in a blocking call can go on only when the kernel lets it. The user may never
  stop the clients. The liveness property therefore names the one way to stand still,
  `MutualWait`, which the model does reach.
* `easy_tcp`: the server's main thread, each cell and each send thread are scheduled; the
  ends of the programs and failures of `select` may happen and need not. The exceptions of
  `NewClientsTaken` (the cell's thread has ended; it waits in `select`, or in a send, while
  the send thread waits too) are both reached.
* `client04`: the main thread and each manager's thread are scheduled; neither the server,
  whose receiving lets a blocked send go on, nor the user has to act.

## 4. What is proved

TLAPS proves these for all values of the constants under each module's named assumption
(finite sets, positive sizes, increasing unit sizes, a package fits the buffer, the longest
message and a full `recv` fit a client's message buffer).

| Module | Theorems | Inductive invariant |
|---|---|---|
| `Pools_proofs` (of `MemoryPool`) | `PoolTypeOK`, `PoolFreeLists`, `PoolBlockList`, `PoolHeldBlocksLive`, `PoolImplementsAllocator`, `PoolNoIdleGrowBlock` | `TypeOK`, `FreeListOK`, the block list with its layout named, `HeldBlocksLive` |
| `Pools_proofs` (of `VarMemPool`) | `VarPoolTypeOK`, `VarPoolBestFit`, `VarPoolInUseIsHeld` | `VarTypeOK`, `BestFit`, `InUseIsHeld`, the bounds of the search, each unit held once |
| `ClientSocketRecv_proofs` | `RecvTypeOK`, `RecvRoom`, `RecvCompleteDelivered`, `RecvImplementsChannel` | types; the messages sent tile the stream; those delivered are a prefix of them; the buffer holds the bytes after them; room; completeness |
| `ClientSocketSend_proofs` | `StreamStaysInOrder`, `FrontIsCopied`, `UnitsAreAccounted`, `BacklogStaysBounded`, `FreedOnceCopied` | types; a message is in one sender's hands or was linked, and is queued once; the queued messages follow one another in the stream; the bytes copied are those of their places in it, up to where the handler reads; where the handler is; the backlog in each place |
| `SafeQueue_proofs` | `QueueTypeOK`, `QueueListOK`, `QueueImplementsChannel`, `QueueFrontIsNext`, `QueuePopAfterHasData` | types, lock, the list and `_size` in every phase of the operation that holds the lock, pool units, values pushed and popped; for the last two, what the sole consumer knows |
| `ServerThreads_proofs` | `DescriptorsOwned`, `ConnectionHasOnePlace`, `SelectSetIsClients`, `CloseClosesTaken`, `OwnListIsSafe` | types; where the main thread is with each handler; a handler's lock, queue and count against its place in the loop; a connection is in one entry of one queue or once in one list, open while it waits, and only the list's own thread closes it; the kept set is that of the clients unless it is to be rebuilt; the client a Broadcast is at is in the list it walks or was deleted from it, and not from its own thread's list |
| `EchoSystem_proofs` | `EchoInvariant`, `EchoOnlySendBlocks`, `EchoRegistered` | types; the list is the open connections, each once, with descriptors of their own; `select`'s set; what `select` named and the loop has yet to visit is readable; a send in progress is that of the client at the iterator; connections begin in order |
| `EasyTcpSystem_proofs` | `ClientsAreCounted`, `PassReceivesSafely` | types; a client is in one cell's vectors, once, and open there; each send thread has its own part of the clients, and those yet to be connected are new; what `select` has named and the pass has yet to visit can be read; only the client whose messages are being cut may have a whole one in its buffer |
| `ClientThreads_proofs` (of `Client04`) | `Client04Typing`, `Client04ThreadsOwnClients` | types; where the main thread is with each manager, against where that manager's thread is; how many clients a thread has counted as gone |
| `ClientThreads_proofs` (of `SelectClient_Thread`) | `ClientClosedOnce`, `ClientUnitsOwned`, `ClientKeepsOrder` | the holder of the mutex is the only thread in `Close`; queues hold messages in ascending order, `_oRecv` later ones than the receive queue; for the order, while the descriptor is open: what is on the wire, in the buffers and in the hands of the send and receive threads numbers the messages without a gap |

Why strengthenings are needed: a free list is right after `Free` only if the links of the
other free units were right although their neighbours' owners wrote into theirs, hence a
layout function per block; that the block list stays a list when a block is deleted and its
successor moved needs both directions of the links; that the send path keeps the order of
bytes needs to know how far the handler has read the message at the front, and that this is
where the bytes copied so far end, which no other thread's push can move;
completeness of delivery needs that a
head in the buffer is the head of the next message, hence the stream invariant; a pop
removes one unit from the set in use only if no unit is twice in the queues, hence their
order. That `recv` does not wait in `SelectServer` needs that nobody but the visit itself takes
from a connection that `select` has named, and that erasing a client moves exactly the
unvisited ones; that `accept` finds a descriptor and that every client has its own needs
that there are as many descriptors as connections. In `ServerThreads` a descriptor is
reused as soon as it is closed, so that every client has its own needs that nobody closes
a connection that is waiting in a queue or in the acceptor's hand, and that the place of a
connection is passed on in one step; that a handler never meets a deleted object in its own
list needs that lists of different handlers share no client. In `EasyTcpSystem` the kept
part of a message belongs to a client and the pass goes by index: the room behind it needs
that no other cell has the client, which needs that a connection enters the backlog once,
hence the parts of the send threads, which do not overlap (`OwnShare`). In `Client04` a pass
whose count is that of the clients it has visited has found each of them gone, so a thread
that gives up has none left. `QueueFrontIsNext` and `QueuePopAfterHasData` assume a single
consumer: with two they are false, and `SelectClient_Thread`, whose `Close` is a second
consumer, shows where that leads. `QueueImplementsChannel` holds for any number of either.

`QueueListOK` (the links thread the nodes whenever the mutex is free) and the type
invariants of the modules with proofs are proved and not in the runs.

Every invariant and every action property that a run checks is proved. Only model-checked:
the liveness properties, which are out of the prover's reach with their fairness.

## 5. What is not modelled, and why

* `Connect` of a client already used: no program does it.
* The handler of `Server02`: its answers are those of `Server01`, its threads are the subject
  of `ServerThreads`; the rate counters of all programs.
* `src/HelloSocket`, `src/EasyTcpServer/TcpServerV1.cpp`, `src/EasyTcpClient/TcpClientV1.cpp`:
  first drafts of the programs above, not used by them.
* Configuration, clock, crash dumps, message layouts, timing experiments
  (`src/ClientTest/Client03.cpp`): no state of the framework.

## 6. Findings and observations

* `pool_full_head`: the comment at `MemoryPool.cpp:98` says that a full first block means
  that no block has space, since blocks with space are always moved to the front. `Free`
  moves a block only when the head is full at that moment, so the pool may grow while an
  older block has free units.
* `client_asserts`: `IOBuffer.h:159` asserts that two bytes can be read; `ProcessorRecv`
  (`SelectClient_Thread.cpp:149`) looked five lines before, but `Close` in another thread
  resets `_oRecv` (`:378-382`) under a mutex that `ProcessorRecv` does not take.

The models also show, and no property forbids: `OnRun`, `ClearQueue` and `SendThread` may
pop or read the front of a queue that another thread has emptied since `hasData`, and use a
null pointer (`SelectClient_Thread.cpp:109`, `:314`, `:98`); `Client01` deletes the client while
its detached threads may be inside it; `Broadcast` may walk lists of handlers that are being
changed or deleted (its comment says "MayBe Unsafe"); connections still queued for a handler
when the server closes stay open; a message pushed after `Close` has cleared the queue
keeps its unit until the pool is destroyed.

In the single-threaded pair, the server sends a whole buffer as soon as `select` finds some
room, and the client sends and receives in one thread: with both kernel buffers full each
waits for the other for ever, and with them every other client (`MutualWait`).

The threaded server sends in the same way (`SelectServer_Thread.cpp:178`,
`ClientSocket.cpp:199`): a client that does not read can keep its handler in `send`. The
handler's other clients are not served meanwhile, new connections given to it stay in its
queue, and `Close` spins on `_isHandleStop` (`SelectServer_Thread.cpp:48`). The limit on the
queue does not help: it is looked at only where `select` finds no room.

In `EasyTcpServer` a cell waits in `select` for its old clients and does not look at new ones,
while the client program sends for its clients in turn: a new client that has sent more than
the kernel holds is never read, and the old ones stay silent behind it. `Client02` deletes
array entries that it never set, when the user stops it while it connects
(`src/ClientTest/Client02.cpp:128`, `:201`). `EasyTcpServer` closes its listening socket twice
(`src/EasyTcpServer/EasyTcpServer.hpp:452`, `:140`) and never the descriptors of clients that leave.
The comments that `OnNetLeave` is safe with one cell only
(`src/EasyTcpServer/EasyTcpServer.hpp:524`, `src/EasyTcpServer/server.cpp:34`) are out of
date: the count is a `std::atomic_int`, and `CountOK` holds with two cells. When `socket`
fails after `InitServer`
(`SelectServer_Thread.cpp:228`), `Close` does nothing without a socket, in the destructor
neither, and the handlers' threads run on until the process ends.

## 7. Plan

Done: the pools, the queue, receive and send paths, the threaded server and client, the
single-threaded server and client together, the cell server and its client together,
`Client04`, and the proofs listed above. Next, in this order:

1. A byte-level receive module of the client with `Connect`, for the `_retainSize` that a
   reconnect would inherit (`SelectClient_Thread.cpp:132`, `:150`).

As properties are added, the weaker of the present ones make room for stronger ones.
