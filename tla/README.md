# A verification development of alter

`alter` is a C/C++ network toolkit: a library of thread-safe building blocks
(`src/src/lib/frl_*`), a worker built on them (`src/src/worker`), a supervisor
stub and the remains of an older program (`src/src/old`). This directory holds
TLA+ models of its concurrent core, the TLC configurations that check them on
small instances, and TLAPS proofs of what matters most for every size. Paths
below are relative to the repository.

Contents: 1 the system; 2 the plan; 3 the modules and the code; 4 the runs and
their bounds; 5 fairness; 6 the proofs; 7 disagreements found; 8 what is not
modelled.

## 1. The system

| Component | State it keeps | Operations | What makes it hard |
|---|---|---|---|
| Slab pool (`lib/frl_slab_pool.c`) | a ring of blocks; per block an arena, a usage stack and its stack pointer; `max_capacity`; a header (block, occupied, refcount) before each chunk | create, palloc, pcalloc, pfree, ref, unref, clear, destroy, stat, safe; each of palloc and pfree in a mutex variant and a compare-and-swap variant | two threads that grow the pool at once, stale stack pointers and stale entries, malloc failing with the lock held, references dropped by several users |
| Queue (`lib/frl_queue.c`) | a linked list with a dummy head, `nelts`, `empty_waiters`, a mutex and a condition variable; entries from a slab pool | create, push, trypush, pop, trypop, destroy, in a mutex variant and a lock-free variant | wakeups, the retirement of the dummy, recycling of entries, destroy with poppers asleep |
| Thread pool (`lib/frl_util_threads.cpp`) | a task queue, `waiters`, `open`; leader/follower: `leader->no`, its mutex and condition; consumer/producer: a queue of idle consumers, a pointer and a condition per consumer | spawn, assign, the bodies of leaders, consumers and the producer | signals sent without the mutex, counters read without the mutex, growth on demand |
| Socket pipe (`lib/frl_util_socket_pipe.cpp`) | a send and a receive state per connection, a queue of packets to send, the number of connections and of idle ones | send, and the loops of the sender and the receiver: connect, send, reply, reconnect | connections lost half way through a packet, retries over another one, EAGAIN taken for a whole message |
| Server event (`lib/frl_util_server_event.cpp`) | a listener, handlers with a pollset each, `balance` per handler, a state per connection | accept, dispatch, receive, process, send, close, and the signal of an application that answers later | counters shared without a lock, interrupted connections, new handlers under load, signals that come after the connection is gone |
| Multi sock (`lib/frl_util_multi_sock.cpp`) | an accept thread, reader threads and the queue of idle readers | accept, hand over, read | a reader that crashes while it is registered as idle |
| Radix tree (`lib/frl_radix_tree.c`) | a tree of key segments | add, get, remove | sequences of adds and removes |
| List and hash (`lib/frl_list.c`, `lib/frl_hash.c`) | linked elements; buckets | add, get, set, remove | links in both directions; the hash does not compile as it stands |
| Managed memory (`lib/frl_managed_mem.c`) | a reference count | ref, unref | as in the slab pool |
| Hash functions (`lib/frl_hash_func.c`) | none | hashword, hashlittle, hashbig and their two-seed forms | three ways to read a key, one case per length |
| MD5, logging, configuration | none | coding, output | – |
| Worker (`worker/alter.cpp`) | reflectors, references to remote objects | invoke, retain, release | unfinished |
| Supervisor, old sources | – | – | an empty class; not built |

How they interact. The queue takes its entries from a slab pool of the same
locking variant. The thread pool keeps its tasks in a queue, and idle consumers
in an `apr_queue`. The socket pipe, the server and the multi-sock server are
built from slab pools (packets, connections), queues (between threads) and
thread pools. The components share memory: a chunk goes from hand to hand and
the reference count in its header is what ends its life. Nothing is persisted,
so there is no recovery after a crash; the hard behaviours are interleavings,
wakeups, stale reads, refused memory and, in the network parts, lost
connections.

What makes each component correct:

- slab pool: no chunk has two uses at once; none is lost; a header tells the
  truth while the chunk is in use; stacks stay inside their arrays; the ring
  reaches every block, or `clear` and `destroy` forget some; calls return;
- queue: it is a linearizable FIFO; no entry is freed while it is in the list;
  no wakeup is lost; a pop returns while there are values;
- thread pool: one leader at a time; each task is executed exactly once; tasks
  do not wait while workers sleep; a worker is opened once, at most `max`;
- socket pipe: no packet is lost or under way twice at a time; what is handed on is
  what was sent; what is reported as sent has arrived;
- hash functions: the hash depends on the key alone, not on where it lies or on
  the machine;
- server event: `balance` is the number of connections of a handler; each
  connection is in one pollset until it is closed once; a request is answered
  when its answer is there;
- multi sock: each accepted socket has one reader, and is served by it;
- radix tree: it behaves as a finite map.

`PROJECT.json` lists the components with their status, and under `hazards` each
place of the code where one of these could break in a way that is hard to test.

## 2. The plan

In this order; every step is done.

1. `ChunkPool` (what a slab pool promises), `SlabPool` (what both variants
   share), `SlabPoolLockWith`, `SlabPoolLockFree`, shown to implement
   `ChunkPool`: everything else allocates from it.
2. `Fifo` (what a queue promises) and `QueueLockWith`, shown to implement it.
3. `ThreadPool`, `LeaderFollower`, `ConsumerProducer` on top of the promise of
   the queue.
4. `QueueLockFree`: the compare-and-swap list with its entries recycled, shown to
   implement `Fifo` until an entry is pushed again under a pointer to it, and that to be
   impossible while only one side is in use, or one thread pushes and one pops.
5. `KeyTable` (what the radix tree promises) and `RadixTree`.
6. `SocketPipe` over a network that loses connections, with `HashFunc`, the
   fingerprints it relies on.
7. `ServerEvent` with its listener, handlers and the life of a connection;
   `MultiSock` with its queue of idle readers.
8. Proofs, for every size, of the safety of each of these and of the
   refinements of `ChunkPool`, `Fifo` and `KeyTable`.

The runs of section 4 are kept few, one to a question: each checks the safety
of a module on one instance and, where there is one, its liveness on the same.

Composition: `SlabPoolLockWith` and `SlabPoolLockFree` EXTEND `SlabPool`, which INSTANCEs
`ChunkPool`; `LeaderFollower` and `ConsumerProducer` EXTEND `ThreadPool`, whose task queue
is the queue of `Fifo`; `QueueLockWith` and `QueueLockFree` INSTANCE `Fifo`, `RadixTree`
INSTANCEs `KeyTable`, and `MCSocketPipe` joins `SocketPipe` with `HashFunc`. The send queue
of `SocketPipe` is the queue of `Fifo`, its slab pools those of `SlabPool`. The MC modules
add symmetry, views, the crews of the lock-free queue and the contents of packets for TLC;
proofs are in modules of their own. No module declares a RECURSIVE operator: walks along
pointers are functions on `0 .. n`, or closures (`Ring`).

The modules carry, next to some definitions, a variant named `X_Something`
whose comment begins with "Mutant": a plausible slip in that piece of code. No
action uses it. `PROJECT.json` pairs each checked property with the variant that
breaks it, so that it is known of each property that it can fail.

## 3. The modules and the code

**`ChunkPool`** – what a slab pool promises its clients: `palloc` gives a chunk that
has no user and that nobody is giving back, each user may share it or let it go,
the last one to do so gives it back, and `clear` and `destroy` take every chunk away.
Each call takes effect in one instant before it returns. `SlabPool` maps the code's
state to it (`Abstract`): `users` are the holders of references, and a chunk is
given back (`BackOf`) from the `unref` that found the count 0 until it is on its stack.

**`SlabPool`** – a chunk is a pair of a block and a place in it. `slot[b]` and
`sp[b]` are `usage_stack` and `stack_pointer`, entries above the pointer
included, since `pfree` of the lock-free variant reads one. `home`, `occupied`
and `refcount` are the header. `owners` is history: the threads that hold a
reference, which is what the header is compared with. The clients keep to the
interface: they free what they alone own, count a reference before they pass
the chunk on, and clear or destroy the pool while no call is under way. `malloc`
gives blocks in the order of their numbers and reuses none while it is mapped,
except that a block destroyed by the loser of a race may come back, address and
all. `MallocMayFail` says whether it may refuse at any time or only when
`MaxBlocks` are mapped or a block is larger than `MaxCapacity`. `pcalloc` is
`palloc` followed by a `memset` of a chunk only its caller knows. `Ring` is what a walk along `next`
from `pool->block` meets, as `clear`, `destroy` and `stat` do: the least set with that block and,
with a block, the next one.

**`SlabPoolLockWith`** – `frl_slab_palloc_lock_with` and `_pfree_lock_with`: one
action per stretch between synchronisation points. Lock, look at one block,
advance, grow or fail; `pfree` reads the block of its chunk before it takes the mutex
(`PfreeStart`, `PfreeLock`). `PallocFail` keeps `mutex`, because the code returns from
line 182 without an unlock.

**`SlabPoolLockFree`** – one action per access to shared memory: read the stack
pointer, claim the stack by swapping the pointer for `FRL_BUSY`, pop, store,
follow `next`, read `max_capacity`, create, link by compare-and-swap, double
`max_capacity`, swap `pool->block`. The pointer that is BUSY is the flag
`busy[b]`; `sp[b]` keeps the height from before the claim, as a value only the
claimer knows (`attempt`). Loops that spin on BUSY read the pointer anew each
time; in the source the field is not volatile, so a compiler might hoist that
read, which the model does not follow. "Lock free" therefore means without a
mutex: a thread that stops while it has a stack claimed stops the others.
`PrivateUntilLinked` leaves out threads that are idle or about to start over, whose locals are
the blocks of their last call and are written before they are read.

**`Fifo`** – what a queue promises its clients: each push and pop takes effect
in one instant between its call and its return; a blocking pop comes back
without a value only from a destroyed queue.

**`QueueLockWith`** – `frl_queue` with FRL_LOCK_WITH. The slab pool is its
promise, `free`. `waiting` is the set of threads blocked on `not_empty`; a
signal removes one of them, and so may a spurious wakeup. `trypush` appends
without a signal, as in the code. `Destroy` wakes everybody; the poppers
find the queue as it was left (in the program its memory is freed by then) and
the first of them returns with the mutex held, as in line 111.

**`QueueLockFree`** – `frl_queue` with FRL_LOCK_FREE, one action per access to
`head`, `tail` or the `next` of an entry. `hd`, `tl` and `nx` are the locals of
the loops, `elts` the entry a push has filled. A failed compare-and-swap is
the branch that leaves the pointer alone and reads again. An entry that `pop`
gives back is free at once, and any push may take it while other threads still
hold its address, as in the code. `pop` looks for `next != 0` before it claims the
head, `trypop` does not (`PopNext`). The pop counts itself in `empty_waiters`
and waits without another look at the queue, and the push, after it has counted its
entry and looked at `empty_waiters` (`PushCount`, `PushLook`, `PushSignal`, a step each),
signals without the mutex, so a wakeup can be lost; the mutex has no other use. `Crews`
are the sets of threads that may push and pop during one period, any sets the user of the
module likes; the clients change over while no call is under way. `reused` is history: it
turns TRUE when a push is given an entry that another thread is going to follow or to
compare by its address (`Refs`). From that step on the code keeps no promise (section 7),
and the properties end there; they say nothing of it and exclude no thread before it.

**`KeyTable`**, **`RadixTree`** – a table of pointers under keys, and
`frl_radix_tree` that implements it. Create always chooses the variant with
`tree->rwlock`, whatever its argument, so `add` and `remove` are one step each
and `get` is the operator `Get`. `Path(k)` is the walk of all three functions.
The key of the root, which create leaves unwritten and `add` reads, is any key.
The table is a bag: `add` puts a key it does not recognise in a second time. An
entry is removed by the caller that has just got it; what happens to a
pointer kept over somebody else's `remove` is not followed (the entry may have been
freed). `Remove` is therefore `get` and `remove` in one step, although the code releases
the lock between the two: it stands for one caller at a time per key. `tree->nelts`, which
nothing reads, is left out. What `add` refuses is part of the promise: a key that
differs in one byte at most from a key in the table or from that of the root (`Alike`).

**`ThreadPool`**, **`LeaderFollower`**, **`ConsumerProducer`** – `frl_threads` with either
thread model. `ThreadPool` has `assign`: queue the task, look at `waiters` and then at
`open` without the mutex (`LookAtWaiters`, `LookAtOpen`), look again with it, create a
worker, offer it if it is a consumer (`OfferNew`), count it; `blocked` are the workers
asleep on a condition. `LeaderFollower` has the worker's loop, one action per access to
`leader->no`, its mutex, its condition or `waiters`; the test of `leader->no` and the wait
are two steps, because the resigning leader takes no mutex. `waiters` is unsigned and wraps
at `WaiterMod`. The actions of `ConsumerProducer` bear the name of their thread
(`ConsumerSleep`, `ProducerHand`); it has the consumer's and the producer's loop; the first
action of a consumer covers the lock and the wait, which no other thread can tell apart.
Tasks are model values; `NullTask` is one whose pointer is NULL. The task queue is taken as
a FIFO whose pop waits, which `QueueLockWith` justifies for a queue created with
FRL_LOCK_WITH.

**`SocketPipe`** – the sender and the receiver of `frl_socket_pipe`, one action
per ready socket and thread: what the loop does between two looks at the poll
result is one step, since only the two threads and the network share a
connection. `snd[c]` and `rcv[c]` are the `frl_pipe_state_t` of either end, `up`
and `down` the bytes on their way. A packet is a header, and for each block a header
and a content; the network cuts between any two of these, and a send or a receive
takes as many of them as it likes. `Digest` is what a fingerprint stands for: two
contents with the same fingerprint are the same. The same operator tells the size,
which the header carries as well. Each of the four places that take EAGAIN for a
complete message may do so, as often as `MaxSpurious` and `MaxBlind` allow;
the rest of the message is then what the buffer held. `popping` is the
sender blocked in `frl_queue_pop` (line 277). `Reconnect` is the error event with
neither POLLIN nor POLLOUT; its test (line 433) is true for every value, so the new
socket goes into the pollset whether it is connected or not. `send` and the
callbacks never fail for want of memory. A reply is read as one unit: the reads of lines
366-373 that get a part of it are not there. The copy of a block into the packet with the
size the block's header names (line 108), before the fingerprint is looked at, is left
out of `BlockRead`: the sizes are taken to agree.

**`HashFunc`** – the functions as they compute, on 32-bit words that are pairs of
halves. `Digested` is the shape they share: add and mix a block at a
time, add what is left, finish. What differs is how a block is read: `Read32`
with masks, `Read16` by halfwords and single bytes, `Read8` by bytes, and the
big-endian forms, chosen by the byte order and the address of the key. The
operators were compared with the values the compiled functions return.

**`ServerEvent`** – the listener and the handlers of `frl_server_event` after
`spawn`. An increment or a decrement of `balance` is two steps, a read and a write,
because two threads do it without a lock. `state`, `events` and `room`
(something of the buffer is left) are the `frl_eventinfo_t` of a connection; what its
peer does is any readiness at any time. `waiters` are the pointers to
`notify.state` that the application holds after FRL_PROGRESS_WAIT_SIGNAL; it
clears the state before it returns that value and sets it once, later, whatever has
become of the connection by then. An eventinfo that was freed is reused with the `notify.state`
it had. `strays`, `struck` and `early` are history.

**`MultiSock`** – the accept thread and the readers of `frl_multi_sock`. The mutex
of a reader's task covers each access to `status`, so a critical section is one
step. `apr_queue` is a sequence whose pop waits.

**`MC...`** – symmetry sets, the crews of the lock-free queue, and the contents
of packets. Some have `LiveView`, the state without what nothing is going to read:
reference counts and headers of free chunks, which `palloc` writes anew; in the mutex
variant what lies above a stack pointer (the lock-free `pfree` reads that, and its view keeps
it); in the lock-free queue the locals a thread will overwrite, and entries in the pool that
no thread refers to. Two states that differ in such a thing alone behave the same and satisfy
the same properties, so that one stands for both.

## 4. The runs and their bounds

| Run | Instance | What it shows |
|---|---|---|
| `slab_lock_with` | 2 threads with 2 references each, up to 3 blocks of 1, 2 and 4 chunks, malloc may fail | `UsageExact`, `GrowsWhenFull`, and the invariant of the proofs, `IInv`, which contains `Exclusive` and `HeaderTrue` and implies `RingCovers`; `ImplementsChunkPool`, the refinement |
| `slab_lock_free` | 3 threads with 1 reference each, up to 3 blocks | `BusyOwned`, `PushInBounds`, `PrivateUntilLinked`, `Exclusive`, `Conserved`, `RingCovers`, `MaxCapacityTracks`; `ImplementsChunkPool`, the refinement |
| `slab_lock_free_live` | 2 threads, 2 blocks, malloc may fail | `Progress`: calls keep returning |
| `queue_lock_with` | a pusher that calls push, 2 poppers that call pop and trypop, 3 entries, 2 values | `NodesAccounted`, `NoLostWakeup`; `ImplementsFifo`, the refinement; `PopReturns` |
| `queue_lock_free` | 3 threads: one pushes and one pops, two push, two pop, two push beside one that pops, or two pop beside one that pushes, in turn; all four calls, 3 entries, 2 values; up to the reuse of an entry under a pointer | `NodesAccounted`, `TailListed`; `ReusedOnlyCrowded`, what such a reuse takes; `ImplementsFifo`, the refinement |
| `leader_follower` | 1 worker that may become 3, 3 tasks, one of them NULL | `OneLeader`, `WaitersExact`, `EachTaskOnce`, `TasksHandled` |
| `consumer_producer` | 0 workers that may become 2, 2 clients, 4 tasks, one of them NULL, 2 spurious wakeups | `OpenExact`, `AtMostOnce`, `OfferedOnce` |
| `consumer_producer_lost` | 2 consumers, 2 tasks | violation: a task is never executed (section 7) |
| `radix_tree` | keys of 3 bytes of 2 values, 2 pointers, up to 4 entries | `TreeShape`, `GetFinds`; `ImplementsTable`, the refinement |
| `socket_pipe` | 2 connections and a third socket, packets of 1 and 2 blocks, 1 reset, 1 callback that refuses, 1 + 1 times EAGAIN; keys of 0 to 26 bytes | `Accounted`, `Intact`, `ConfirmedArrived`; `SameFingerprint` |
| `server_event` | 1 handler that may become 3, 3 connections, 3 eventinfos, `balance` modulo 8 | `Registered`, `BalanceAccounts`, `EarlyOnlyIfStruck` |
| `multi_sock` | 3 readers that may crash, 4 connections | `EachConnectionOnce`, `AcceptedServed` |

The type invariant of a module is the first conjunct of one of its invariants, or
of `IInv`; the three network modules have theirs in the modules of the proofs
(`Types` and `SockTypes` of `ServerProofs`, `SenderTypes` and `NetTypes` of
`SocketPipeProofs`).

Why the bounds are enough to be interesting:

- Three blocks: linking a second block next to the only one, where
  `last_block` and `pool->block` coincide, differs from linking a third one into
  a ring. Four chunks in the third block let two threads with two references
  each work across blocks; the stack of a block then has free and taken
  chunks in any order.
- `slab_lock_with` does not list `Conserved`: a lost chunk would show in `UsageExact` and
  `GrowsWhenFull`. The other variant lists it, and the proofs state it for both.
- Three threads in the lock-free variant: two race to grow while the third
  returns a chunk or takes the one just linked. Capacities stop at 2 there;
  a larger malloc is refused, so that `palloc` returns NULL as well.
- Three entries in the queue: one dummy, and two values, so that an entry is
  recycled as soon as two values have passed; with two, a push would always fail
  while one value is in the queue.
- `queue_lock_with` leaves `trypush` out: it appends without a signal, so that
  `NoLostWakeup` and `PopReturns` do not hold with it (nothing in the repository calls it). It
  is one of the calls of `queue_lock_free`.
- Crews in the lock-free queue: two that push race for the tail, two that pop for the
  head, one of each recycles entries under the other, and three threads on both sides do
  what the hundred pushers and poppers of `src/src/test/queue_test.cpp` do. `BeforeReuse`
  cuts off the states after `reused`, where each property holds by its first disjunct; the
  steps that set `reused` are generated and checked, as `ReusedOnlyCrowded` needs.
- Keys of three bytes and four entries: a chain of three entries and one beside
  it, so that `remove` moves an entry up over two levels and chooses between
  children with and without children of their own.
- Three workers: a leader, one worker between its test and its sleep, and one
  asleep or executing. One may start and two be opened, so that `waiters` wraps.
- `WaiterMod = 8` stands for 2^32: it is more than `MaxOpen`, as the assumption
  demands, so the counter wraps below zero and never runs around.
- `MaxSpurious` bounds spurious wakeups of consumers, which the code turns into
  further offers, and `AtMostOnce` and `OfferedOnce` are stated for behaviours without any:
  they do not say that the code survives a spurious wakeup, which it does not (section 7).
  `HandedOnce`, that the producer gives a task to one consumer, holds in spite of them and
  is proved (`HandsOnce`); no run spends time on it.
- In the socket pipe, two connections and two packets let one packet travel
  while the other fails, is queued again and goes out over the socket that
  replaces a broken one; the packet of two blocks can be cut between blocks,
  and the two packets can follow each other on one connection. `MaxBreaks`,
  `MaxInterrupts`, `MaxSpurious` and `MaxBlind` bound what the environment does;
  one of each in one behaviour, because the ways they combine are what a test
  would hardly reach. `MaxSocket` bounds the sockets ever opened.
- Keys of 0 to 26 bytes have 0, 1 or 2 blocks before the last and every length of the
  last, at each of the four alignments, in memory whose following bytes vary.
- Three connections and three eventinfos in the server: with a late signal one is
  needed to leave, one to reuse its eventinfo, and one to make the listener
  open a handler. `Width = 8` stands for 2^32: it is more than the connections,
  as the assumption demands, and lost updates carry a balance below 0 all the same.
- Four connections for three readers: a reader serves a second connection, and one
  that crashed is given another.
- `MaxHeld` bounds what a client collects: past it, no new case arises.

Deadlock is checked where the system cannot stop. It is not where it can: a
slab pool whose mutex was left locked, a destroyed queue or one that nobody
feeds, a consumer asleep for ever, a pipe whose packets are confirmed or stuck, a
server whose connections have all come and gone, readers that have all crashed.

## 5. Fairness

- A thread inside a call keeps running (weak fairness of its steps): the
  library is used with preemptive threads.
- A mutex is given in the end to each thread that keeps asking for it (strong
  fairness of the acquiring action). POSIX does not promise it; without it no
  call of the mutex queue could be shown to return.
- Nothing makes a client call, a sleeper wake without a signal, or malloc
  succeed: spurious wakeups are allowed and never forced.
- A task ends (`FairSpec` of the thread pools). `TasksHandled` of the leaders
  needs it: a leader resigns and signals without `leader->mutex`
  (`frl_util_threads.cpp:26-28`), so that the signal may fall between another
  worker's test and its wait; the workers then sleep until the one that resigned
  returns from its task.
- `AcceptedServed` assumes that the accept thread and each reader go on when they can,
  and that `proc` ends. It allows that the reader has crashed, or all have: the
  crashed ones go back into the queue of idle readers first (section 7).
- No liveness is claimed of the socket pipe and the server. A packet need not be
  confirmed in the end: the receiver stops reading a connection after it has
  answered on it, and the sender may wait in `frl_queue_pop` with replies
  outstanding (section 7).
- `Progress` of the lock-free pool asks for weak fairness only. It says that calls
  keep returning, not that each one does: a thread may lose every race.
- `PopReturns` allows that another pop takes the value first. Without that
  clause it fails with two poppers, since one may find the queue empty every time.

## 6. The proofs

All theorems hold for every value of the constants that satisfies the named assumptions of
the modules. `SlabAssumption`: there are finitely many threads, and the first block has a
chunk and is not larger than the largest. `NoThreadAssumption`: the marker for "nobody" is
no thread. `QueueAssumption`: the calls are those of the code, the markers are no entry and
no thread, and in the lock-free queue there are finitely many entries and threads.
`RadixAssumption`: keys of 1 to 32 bytes. `ThreadsAssumption`: `min` is at most `max`, and
`NoTask` is no task. `WaiterAssumption` and `ServerAssumption`: a counter of the code is
wide enough for the workers or the connections there are. `MultiSockAssumption`: there is a
reader. `SocketPipeAssumption`: each packet has a block at least. `SpuriousAssumption` only
says that the bound is a number. The bounds that serve TLC (`MaxBlocks`, `MaxSocket`,
`MaxBreaks` and the like) are constants as well, so a theorem holds for any of them.

Each proof has one lemma per action, or per kind of action, and in it one step per
conjunct that the action disturbs.

**`SlabPoolLockWithProofs`.** `NoDoubleUse` is not inductive by itself. A pfree pushes on
the block it reads from the header, so the header must be true while a chunk is in use
(`HeaderTrue`). A palloc hands out the entry at the top of the stack, so the stack must not
hold an entry twice and must hold entries of its own block only (`PoolSafe`). A push must
not run over another push, so only the holder of the mutex may be between lock and unlock
(`MutexHeld`), and the chunk brought back must lie inside the block found (`Inside`).
Together they are `ChunkInv`. `RingInv` adds that no part of the mapped blocks is closed
under `next` but the whole, which says without a walk that the ring is one, that palloc
stands on mapped blocks, and that `max_capacity` is the largest capacity. `WalkInv` says
what a walk of palloc has seen: there is a set of blocks it found empty, which begins with
`pool->block`, and `next` leads from each to another of them or to the block palloc stands
on. When the walk has come round, the set is closed under `next` and therefore the whole
ring; since the mutex is held, the stacks are still empty, and so `GrowsOnlyWhenFull`
(`GrowsWhenFull`) follows with `Conserved`. `IInv` is the three, inductive, and an invariant
of the run `slab_lock_with`. That a push finds room (`RoomToPush`) is a counting argument:
the stack holds different chunks of the block, the chunk brought back is one more, so the
height is below the capacity; `StacksStayInArena` follows from it. `NothingLost`
(`Conserved`) is inductive relative to `IInv`. `UsageIsTrue` (`UsageExact`) follows from
both: with nobody inside, the chunks below the stack pointers are just those without users,
so that the counts agree. `Implements` shows the refinement of `ChunkPool`. Of its
conjuncts, two are more than rewriting: that the chunk on top of a stack has no user and is
not being given back (`Exclusive`), and that the count in the header is 0 after `unref` just
when the set of users is empty (`HeaderTrue`).

**`SlabPoolLockFreeProofs`.** Between two accesses of a thread anything may happen, so the
invariant says what each local is worth at each step of its thread (`Walks`, `Holds`):
palloc stands on blocks that are linked in, the chunk that pfree has in its hands fits the
block it came from, the height it has read leaves room. A height read from a stack that
others change meanwhile is worth nothing, until the compare-and-swap claims the stack at
that height; `BusyOwned` is that claim. `Linked` are the mapped blocks but for those a
thread has created and not linked yet. Nobody else knows these, whence `PrivateUntilLinked`:
the loser of the race to grow may destroy its block. A thread that could lose the race to
double `max_capacity` finds it doubled already (`ReadsMax`). The whole is `IInv` of that
module; TLC has checked it on the instance of `slab_lock_free`, where it is not a run of its
own. The theorems state every safety invariant of that run. `Implements` is the refinement
of `ChunkPool`: a palloc that has popped an entry holds a chunk that no other thread holds
or uses (`Exclusive`), whatever the stack pointers others have read, and all steps before
that, the claims and the lost races among them, leave the abstract pool unchanged.

**`QueueLockWithProofs`.** `CallInv` says what a thread holds at each step of a call,
`ListInv` that there is a path from `head` to `tail` of `nelts` links, which passes just the
entries that are neither free nor in the hands of a push. `Walk`, `Length` and `Contents`,
which follow `next`, are shown to find that path (`WalkIs`, `ContentsIs`) by induction over
the steps of a path, made from the least element of a set of numbers, since an induction
theorem cannot be instantiated. `Implements` is the refinement: each step of the list is a
step of `Fifo` under the mapping that reads the contents off the list, or leaves it
unchanged. `EntriesAccounted` follows from the path. `NoSignalLost` assumes `PushOps
\subseteq {"push"}`: with `trypush`, which signals nobody, it is false.

**`QueueLockFreeProofs`.** Nothing is assumed of `Crews`: the theorems hold for any number
of threads on each side, a hundred of each as well. What they say ends with `reused`, an
event of the behaviour and not a choice of the constants: until a push is given an entry
that a thread still refers to, the list is a FIFO that loses nothing (`Implements`,
`EntriesAccounted`, `TailInList`). `ReuseNeedsThree` (`ReusedOnlyCrowded`) says when that
event cannot occur: while nobody pops, nobody pushes, or one thread does each, so that for
such clients the three hold for good. `IInv` is the types, what a thread holds in each call
(`CallInv`), that `empty_waiters` counts the sleepers (`CountInv`), and, until `reused`,
`ListInv`: a path from `head` to the last entry, and what the pointers that threads hold
are worth. The `tail` may lag by one entry (`TailOK`). A push that found nothing behind the
tail it read stands on the tail still, since the entry could have left the list only to
come back through `PushAlloc`, which would have set `reused` (`PushHolds`). The head that a
pop has read is the head still, or has left the list, so that its compare-and-swap fails
(`PopHolds`); if it were pushed again, `reused` would be set. `EntriesAccounted` counts the
entries in the hands of threads by those threads (`HandsCount`).

**`RadixTreeProofs`.** `TreeShape` and `GetFinds` are about paths from the root; `TreeInv`
is about neighbours: an entry in use is the child of its parent in the direction its key
names, is one byte deeper, and agrees with the parent in all bytes before (`Placed`), and a
child is in use and knows its parent (`Hangs`). That an entry on the path of a key agrees
with it so far (`PathComesTo`), and that the path of an entry's own key meets it
(`PathReaches`), follow by induction over the depth. A leaf that `remove` moves up agrees
with the entry it replaces in the bytes above, so that the children of that entry keep their
place; that `LeafOf` ends at an entry without children needs that the depth is bounded by
the size of the keys. `Implements` is the refinement of `KeyTable`: the bag of pairs changes
by one pair at most, although `remove` frees another entry than the one it found. A key
that `add` refuses is like one on its path (`RefusedIsLike`): the entry at which `add`
breaks off agrees with it in the bytes that led there and in those behind the next, and
`add` breaks off at an entry whenever it finds no place (`RefusedBreaksOff`).

**`ThreadPoolProofs`**, leaders. `AtMostOneLeader` rests on `LeaderNamed`: a worker that
leads is the one named by `leader->no`, and only the holder of `leader->mutex` decides to
lead. That a leader resigns without the mutex does no harm, since it is the only one that
may write the field while it is not -1. `OpensEachWorkerOnce` rests on `GrowsInRoom`:
between the second look at `open` and its increment there is room below `max`, because only
the holder of `frl_threads::mutex` changes `open`, and what other threads do to `waiters`
meanwhile does not matter. `WaitersCounted` is a statement modulo the width of the counter
(`CountInv`), since it passes below zero when workers opened later are busy. `NoTaskTwice`
says where a task is (`PlaceInv`) and what has been done with it by then (`OutcomeInv`).

Consumers. `HandInv` follows a task from `todo` over the queue and the producer to the
pointer of one consumer. A consumer never clears its pointer, so a task stays there when it
has been executed; that it is not executed again (`ExecutesOnce`) needs that a consumer is
woken once for each time it is offered (`OfferedInv`), and that a pointer whose task has run
belongs to a consumer that is not awake (`FreshInv`). Both hold only while `spurious` is 0,
as the two properties say.

**`ServerProofs`**, server event. `RegInv` says where a connection can be: with the
listener, or in the pollset of one handler, with an eventinfo nobody else has, and polled
for what its state needs. `BalanceInv` extends `BalanceAccounts` to the moments in which a
change is half done: what a handler or the listener has read and not yet written is in it
(`Told`), and what a lost update makes of the difference is what `strays` records, so that
the sum holds modulo `Width`. `EarlyInv` says that only a pointer held for an earlier
request on the same eventinfo can mislead a handler (`Misled`).

Multi sock. `ServedOnce` (`EachConnectionOnce`) needs to know that a
reader in the queue, or one that the accept thread has taken from it, has no
connection and is not working on one, and is in the queue once (`IdleQueued`). The
queue changes at both ends, so the proof has lemmas about the members of `Tail`
and `Append` and about sequences without repetition. With the types (`SockTypes`) the
conjunction `SockInv` is inductive.

**`SocketPipeProofs`.** `LosesNoPacket` (`Accounted`) is about sets of places; inductive is
`PacketInv`, which says the same without counting, with the rest of what the sender does
(`Opened`, `BlockInv`). `HandsOnWhatWasSent` (`Intact`) is the hard one: after EAGAIN, a
receiver takes what its buffer held for a message, and could take the header of a block for
the header of a packet, whose content would then be that block. For it to pass both tests it
must meet that header twice, once in each place. `IntakeInv` excludes this: what a receiver
has heard and what is on the way to it (`Heard`) has no header of a block twice (`Once`),
and each is one that the sender has passed for good on that connection (`Past`: closed,
confirmed, or further on with the same packet), so that it does not send it there again.
`VerifiedIsWhole` draws the conclusion. `ReplyInv` says that a reply is for data that were
handed over; with it `ConfirmsWhatArrived` (`ConfirmedArrived`) is a matter of what one step
confirms (`ConfirmedStep`). `IInv` was checked by TLC on the instance of `socket_pipe`
first.

Model-checked only:

- liveness: `Progress`, `PopReturns`, `TasksHandled`, `AcceptedServed`, which the provers
  used cannot treat under fairness;
- `SameFingerprint`: the hash functions work on bits, which the provers do not know.

## 7. Disagreements between the code and what is said of it

One is a run:

- `consumer_producer_lost`: a consumer waits without a predicate
  (`frl_util_threads.cpp:50`) although it is already in the queue of idle
  consumers. The producer's signal may come first and is lost, and the task
  with it; `src/src/test/thread_test.cpp:29-31` expects each task to be executed.

The others are in the models, and follow from their actions:

- Two threads that push beside one that pops, or two that pop beside one that pushes, may
  break the lock-free queue (`PopClaim`, `frl_queue.c:59`, and `PushLink`, line 15). A
  popper holds the head n1 and its next n2; another pops n1, which goes back to the pool,
  is pushed again, and is popped up to, so that n1 is the head once more. The
  compare-and-swap of the first then succeeds and makes the head an entry that has left the
  list: two pushes, three pops, and `nelts` is -1. A push likewise links its entry
  behind one that was popped and freed since it read `tail`. TLC finds the first with the
  crews `MixedCrews` and no constraint, as a violation of "at rest, `nelts` is the length of
  the list". `src/src/test/queue_test.cpp:40-47` starts a hundred of each on a queue created
  with FRL_LOCK_FREE and expects each pop to return a pushed number.
- A consumer that is woken without a signal executes the pointer it finds, which may be that
  of the task before, and offers itself a second time (`frl_util_threads.cpp:52`); a task may
  then be executed twice, or overwritten. POSIX allows such wakeups. `AtMostOnce` and
  `OfferedOnce` are about behaviours without any.
- `frl_slab_palloc_lock_with` returns at `src/src/lib/frl_slab_pool.c:182` without
  unlocking `pool->mutex` when malloc fails (`PallocFail`). The comment at line 54
  calls both variants thread safe; every other thread then blocks for ever.
- `frl_radix_tree_add_lock_with` compares the rest of the key with the entry it
  stands on, not with the child it is about to enter
  (`src/src/lib/frl_radix_tree.c:97`, `BreaksOff`), and so never looks at the byte that
  tells the two keys apart; at the root it compares with a key that was never
  written. It refuses keys that are not in the tree (`AddRefused`), although
  `src/src/test/radix_tree_test.cpp:35-37` calls it unexpected when an added key is not found
  (its keys are digests, which hardly ever agree in so many bytes). How far it goes is in
  `ImplementsTable`: the key refused differs in one byte at most from one that is there.
  With bytes 0 and 1: after 000, which hangs from the root, and 011, which hangs from 000,
  the key 010 is refused, since it agrees with 000 in its first and its last byte.
- After its reply the receiver of a socket pipe sets the state of the connection to
  FRL_PIPE_DISABLED (`frl_util_socket_pipe.cpp:191`), where the comment at line 186 says
  "complete, return to listen state". Input in that state is read 0 bytes at a time
  and handled by nobody (`Ignore`), while the sender regards the connection as idle and
  sends its next packet there. A packet is delivered only on a connection that
  has carried none before.
- The sender counts a replaced socket as one more idle connection (line 443) although
  it may have been counted; with `write_available` at `success_conn` it blocks in
  `frl_queue_pop` (line 277) while replies and failures wait.
- `balance` of a handler passes below 0: the connection that makes the listener open a
  handler is counted there (line 44 of `frl_util_server_event.cpp`) and put into the pollset
  selected before (line 54), whose handler counts it down when it closes. At 2^32 - 1 it
  looks like the busiest of all and gets no connection any more. `BalanceAccounts`
  states by how much each slip shifts it (`strays` records the slips as they happen); it
  forbids a miscount that is none of these, and not these.
- A signal through the pointer that `recv_send` gave the application (line 120) may
  come when the connection is gone and its eventinfo serves another one, which is then
  answered before its answer is there. `EarlyOnlyIfStruck` says that this is the only way,
  on one condition: the application clears `notify.state` before `recv_send` returns
  FRL_PROGRESS_WAIT_SIGNAL. The handler does not do it (it resets only `notify.timeout`,
  line 119), so that without it a state left from an earlier request answers at once.
- A connection in WAIT_RESPONSE is polled for output at once. What lies between the
  end of the request and the end of the buffer is sent meanwhile (line 176).
- A reader that crashed goes back into the queue of idle readers before it ends
  (`frl_util_multi_sock.cpp:116`), and the next connection given to it is never served.

## 8. What is not modelled

- Whether a pop of the lock-free queue returns: its wakeups may be lost. No property says
  anything of that queue after an entry was reused under a pointer (sections 3 and 7).
- That the mutex of a slab pool is released: it is not when malloc fails (section 7). The
  properties say that the chunks stay accounted for all the same.
- `frl_list.c`: each call holds `list->rwlock`, so that nothing interleaves, and `add` sets
  the link of one neighbour only (lines 87-98): an entry added before the tail, as
  the test does, is never found by `get`. A model would say no more than that.
- `frl_hash.c` does not compile as it stands; logging and configuration are macros.
- `frl_managed_mem.c`: a reference count as in `frl_slab_ref` and `_unref`.
- `frl_util_md5.cpp`: `apr_md5`, and a base64 coding without state, whose
  `base64_index` takes `_` for 62 and `-` for 63 although `base64table` has them the other
  way round.
- The worker is unfinished and does not compile, the supervisor is an empty
  class, and `src/src/old` is not built.
- Server event: the listener is started before `balance` and the pollsets are filled
  (`frl_util_server_event.cpp:257`); the model begins when `spawn` is done. The result
  of `apr_pollset_add` is not looked at in the code; a pollset that is full is not modelled.
- Socket pipe: a listening socket that cannot be opened, `shutdown`, which ends both
  threads wherever they are, and block sizes that contradict the packet's.
- Hash functions: the branches for VALGRIND, which avoid reading behind the key.
- Within the other parts: a leak inside `frl_slab_block_create` when its second
  malloc fails; an entry that `frl_radix_tree_add` writes to when the pool gave none;
  memory that is read after it was freed by `frl_queue_destroy`;
  statistics other than `usage`; weak memory models, since every modelled access
  is taken as atomic and in program order.
