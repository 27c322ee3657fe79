# Verification of VPP's thread, shared-memory and BFD machinery

TLA+ models of the parts of VPP on which every multi-threaded feature rests:
the worker barrier, the sync a worker can ask for and the handoff of packets
between threads; of what VPP shares with applications in other processes: the
message queue, the byte fifo and the allocator of its chunks; and of a protocol
with timers and an unreliable network, BFD. TLC checks them on small instances;
TLAPS proves the safety properties of five of them (the barrier, the sync, the
handoff, and the message queue and the fifo with their refinements) and the type
correctness of BFD for every size.

Paths are relative to the repository; `PROJECT.json` maps every definition to
its lines.

## The system

VPP runs one main thread (thread 0) and a number of workers. Each spins in
`vlib_main_or_worker_loop` (`src/vlib/main.c`): it dispatches the nodes of a
packet-processing graph, of which every worker has its own clone. The main
thread also serves the CLI, the binary API and cooperative "processes", and
changes the graph and the shared tables, which it may do only while the workers
are stopped at the barrier.

| Component | State | Operations | Interacts with | What is hard | What makes it correct |
|---|---|---|---|---|---|
| Worker barrier (`src/vlib/threads.c`, `threads.h`) | `wait_at_barrier`, `workers_at_barrier`, `node_reforks_required`, nesting depth | sync, release, refork, initial sync, wait-one-loop, the worker's check | everything that changes shared state | plain flags and counters polled by spinning threads; reuse of the barrier while workers leave; panic on a deadline | workers are parked while main holds it; nobody runs on an old graph; every call returns |
| Workers sync (`vlib_workers_sync`, `vlib_workers_continue`) | three more counters and flags, the RPC vectors | sync, continue, the RPC | the barrier, the RPC queue, `pool_get_aligned_safe` of the session layer | two counters read separately; a wait nested in a wait; a second call in the same loop | no worker dispatches beside the caller's work that has not been through the pair itself; the pair returns |
| Handoff frame queues (`src/vlib/buffer_funcs.c`) | per thread: a ring of elements, `head`, `tail`, `check_frame_queues`, a poll counter | enqueue to thread, dequeue, poll | all handoff nodes (reassembly, NAT, IPsec, WireGuard) | lock-free multi-producer claim, partial copies, congestion | packets conserved and in order, rings drained |
| Message queue (`src/svm/message_queue.c`) | a queue and rings in shared memory, a robust mutex, a condvar | lock and allocate, add, sub, batch sub, free, waits | session layer, VCL, applications in other processes | a consumer without lock, lost wake-ups, death of a process | bounded FIFO of intact messages, sent ones are received, sleeping producers are woken |
| Main loop (`src/vlib/main.c`) | node states, pending frames, interrupts, timers | dispatch | all of the above | re-entrance, interrupts raised by other threads | every interrupt and frame is dispatched |
| Binary API and RPC (`src/vlibmemory`) | client registrations, queues, RPC vectors | connect, message, RPC, dead-client scan | barrier, workers | clients that die or are slow | RPCs run once, under the barrier |
| svm fifo (`src/svm/svm_fifo.c`) | a list of chunks, head and tail, out-of-order segments, cached chunks and lookup trees | enqueue in and out of order, grow, dequeue, peek, drop | session layer, VCL, the segment | one side extends the list that the other shortens, without lock; positions wrap | a bounded byte stream; no chunk used after it was given back |
| fifo segment (`src/svm/fifo_segment.c`) | stacks of free chunks by size, a count of their bytes, the end of the carved memory | allocate one or several chunks, carve, collect | fifos of both processes | lock-free stacks, a count that lags behind them | chunks conserved, allocations large enough, calls return |
| BFD (`src/vnet/bfd`) | per session: state, discriminators, configured, effective and remote intervals, detection time, poll state, echo | packet input, periodic transmission, timeouts, commands | the timer wheel, the process node, the FIB | lost, repeated and late packets; timers; parameters that change in two steps | sessions settle, polls end, the detection time covers the peer's rate |
| Session layer and TCP (`src/vnet/session`, `src/vnet/tcp`) | sessions, connections, timers | connect, accept, close, reset, migrate | message queue, fifos | close handshakes from both sides | no use after free, every session ends |
| bihash, locks, timer wheels, pools (`src/vppinfra`) | hash pages, lock words, wheels | add/del/search, lock, start/stop/expire | all features | lock-free readers, wrap of the wheel | readers see old or new value, timers fire once |
| Statistics segment (`src/vlib/stats`) | directory, epoch, in-progress flag | add, remove, resize, read | external readers | optimistic reads | a reader that sees one epoch saw one state |
| FIB, adjacencies, load balancing (`src/vnet/fib`, `adj`, `dpo`) | graph of forwarding objects | add/remove routes, back-walk | barrier, wait-one-loop | recursion loops | forwarding state resolves |
| Protocols and features (VRRP, LACP, DHCP, IKEv2, WireGuard, NAT, reassembly, memif ...) | sessions and timers each | packets, timers, API | all of the above | timers racing packets | per protocol |

`PROJECT.json` lists all of them with their status, and under `hazards` the
places in the modelled code that are hard to test.

## Modules

| Module | Models |
|---|---|
| `WorkerBarrier` | the barrier, the refork, start-up, wait-one-loop |
| `WorkerBarrierProofs` | its inductive invariant and theorems |
| `WorkersSync` | composes the barrier with `vlib_workers_sync`/`continue` and the RPC path |
| `WorkersSyncProofs` | its inductive invariant, on top of the barrier's, and theorems |
| `FrameQueue`, `MCFrameQueue` | the handoff rings and the poll; the instances |
| `FrameQueueProofs` | inductive invariants of the claims and of the order, and theorems |
| `FrameConservedProofs` | on top of those, that no packet is lost or duplicated |
| `MsgFifo` | what the message queue promises |
| `MsgQueue`, `MCMsgQueue` | the message queue, with its refinement of `MsgFifo`; the instances |
| `MsgQueueProofs` | the counts: inductive invariant and theorems, crashes included |
| `MsgFifoProofs` | the line of messages: frees in order, and the refinement of `MsgFifo` |
| `ByteStream` | what the svm fifo promises |
| `SvmFifo`, `MCSvmFifo` | the svm fifo, with its refinement of `ByteStream`; the instance |
| `SvmFifoProofs` | its inductive invariant, theorems, and the refinement of `ByteStream` |
| `FifoSegment`, `MCFifoSegment` | the chunk allocator below it; the instances |
| `Bfd`, `MCBfd` | two BFD peers and the network between them; the instances |
| `BfdProofs` | type correctness of a session |

`WorkersSync` composes with `WorkerBarrier`. `SvmFifo` takes from the segment
what `FifoSegment` shows of it: an allocation returns free chunks that together
are large enough, or nothing, or, for a request above the largest size, one chunk
of that size, which is too small.

In all modules but `Bfd` an action is one access to memory that another thread
reads or writes; code between two such accesses is part of the action before or
after it. Memory is sequentially consistent: the code uses volatile accesses and atomics, and the
places where it relies on weaker orders (relaxed loads) are treated as atomic
accesses in program order. Operators whose comment begins with "Mutant" are wrong variants of
the definition that follows them. They are in no specification; each is the
bug that one property must catch when it takes the definition's place.

### WorkerBarrier

Thread 0 is `main_pc`, with its locals; each worker is `wpc[w]`. Main calls
sync (also nested), changes the graph (`NodeRuntimeUpdate`), releases, or waits
one loop, in any order its callers may choose. `stale` is the set of workers
whose clone of the graph is older than the one main published; it stands for
the data `vlib_worker_thread_node_refork` copies. `looped` is the comparison of
loop counters in `vlib_worker_wait_one_loop`. `phase` follows start-up:
`start_workers` with its barrier, the other main-loop-enter functions, the
initial sync and release, and service. `Init` is the process in service, with
every worker at the top of its loop; `InitBoot` is the moment when
`start_workers` has created the threads.

The hold-down timer only delays a sync. The panics after `BARRIER_SYNC_TIMEOUT`
are what `SyncCompletes` and `ReleaseCompletes` exclude.

### WorkersSync

Extends the barrier's variables with the counters of the pair, the length of
each RPC vector (all RPCs here are `vlib_worker_sync_rpc`) and the place of a
worker inside the pair, which it enters in the middle of its dispatch.
`MainOther` and `WorkerOther` are the steps of `WorkerBarrier` with the rest
unchanged. The two-counter sum of the rendezvous is two reads. A worker may call
the pair up to `MaxSyncs` times in one loop, as one that grows two pools does
(`tcp.c:298`, `session.c:208`).

Several workers can be between sync and continue at the same time; the pair keeps
workers from dispatching, not from doing this work together. With several calls in
a loop `SyncRendezvous` is what is left of it: beside the work of one, another
worker is at the barrier, counted before it, or has been through the pair in its
current loop. `SyncIsolates` drops the last case and is what the comment in the
code says; it is false with two calls (`SyncTwice.cfg`).

### FrameQueue

Each thread is a producer on all rings its `Routes` allow and the consumer of
its own. A packet is `<<source, k>>`, an element is its four fields, and the
frame the dequeue fills is its free space. `Mask` and `Compress` are the bit mask
and `clib_compress_u32`, by which one enqueue takes the packets of one target out
of a frame; the loop over the targets is a loop of the model. `freed` and `delivered` record where
packets end. `Dropping` are the threads whose callers pass
`drop_on_congestion` 1, as all in the repository do; the others wait for a
slot. With routes in a circle two waiting threads with full rings, or one
with its own ring full, would wait for ever; the routes of the run are a chain.

### MsgQueue

The mutex is its holder, `Free`, or `Dead` after the holder died. `waiting` is
the set of threads asleep on the condvar; a broadcast empties it, and a thread
that left it still has to get the mutex. Producers lock, test, sleep or
allocate, fill, publish, signal and unlock; the consumer dequeues and frees
without the mutex. `Modes` are the ways a consumer waits, `Spurious` are the waits
(a producer's, the consumer's untimed or timed one) in which `pthread_cond_wait`
may return without a signal, `MaxCrashes` lets producers die with the mutex, also
between the two updates of a ring in an allocation. Deaths are followed only where nobody sleeps on the condvar,
because `pthread_cond_wait` has an `EOWNERDEAD` of its own that the code does
not look at.

`MsgFifo` is a queue of at most `Maxsize` messages and an inbox of messages
received but not freed. The mapping reads the data of each message from its
slot at every state: it fails if a slot is overwritten while its message is
queued or held, if an entry is lost, duplicated or reordered, or if a count and
the entries it stands for disagree.

### SvmFifo

The producer owns `tail`, `tail_chunk`, the out-of-order segments and the tree
for enqueues; the consumer owns `head`, `head_chunk` and the tree for peeks; the
list of chunks belongs to both. An action is the load of the other side's index
(with the decision that follows), an allocation, a copy, an unlink, or the store
of the own index. The consumer's load and copy are one action, because a tail
that has moved meanwhile only offers more. The byte at position p has the value
p, and a chunk that goes back to the segment is filled with junk: a copy from a
stale chunk or to a wrong place shows as a wrong byte. A fifo is created for one
of two roles, as the session layer uses it: in `rx` the transport enqueues, also
out of order, and the application dequeues; in `tx` the application enqueues and
the transport peeks, reads in place and drops (an application that reads in
place and drops does the same). `svm_fifo_dequeue_drop_all` is called when the
transport goes away (`session.c`), and nobody peeks after it. An application that
peeks and then dequeues the same fifo (`vppcom.c:2067`) is outside the two roles.

A peek may be for any offset up to the size and any length, none included. Exactly
at the tail `svm_fifo_peek` copies nothing, but still looks for the chunk of the
position. When the tail is at the end of the list there is none, and the copy
reads through a null pointer: the consumer is then `crashed` and takes no more
steps (`PeekAtEnd.cfg`). Everywhere else `CopyInBounds` demands that the chunk is
found, also for a peek of no bytes.

`LargestSize` is the size of the largest chunks of the segment. `fsh_alloc_chunk`
answers a request above it with one such chunk (`Allocs`), and the fifo copies past
it (`LargestChunk.cfg`). A fifo never asks for more than `FirstAlloc` at its
creation and `Size` later, so that a fifo no larger than the largest chunk (`Fits`)
is safe from it.

`ByteStream` is a window of bytes that grows at one end and shrinks at the
other. The mapping looks every byte up in the list of chunks, at every state.

A cell `<<c, k>>` is byte k of chunk c; `At` and `CellAt` say which cell comes
after how many bytes of a list, so that a copy over several chunks is one
definition instead of a loop. `FifoAssumption` says that the positions in use,
with a chunk at either end that is only partly used, span less than half of the
position space. The comparisons of `svm_fifo.h` cast a difference to `i32` and
need exactly this. Sessions use fifos of kilobytes to megabytes;
`FIFO_SEGMENT_MAX_FIFO_SIZE` (`fifo_segment.h:35`) would allow 2^31, for which
the comparisons do not work. `FirstAlloc` is `min_size` of `fs_try_alloc_fifo`
(`fifo_segment.c:736`), `MinAlloc` is set by `svm_fifo_init` (`svm_fifo.c:385`).

### FifoSegment

VPP and the application each write one fifo and read the other's. An action is
one access to a head of a free list, to the next pointer of a chunk, to the
count of free bytes or to the end of the carved memory. A head is a chunk and a
tag. `asks` are the sizes a process asks for. Sizes, the header and the widths
of integers are small numbers that keep the relations of the source: sizes are
powers of two, and the wrap of the word is a multiple of that of the 32-bit
batch.

### Bfd

`bs[p]` is the `bfd_session_t` of peer p, `net[p]` the packets on the way to p,
`changed[p]` a configuration event that the process node has not handled yet.
All handlers run under `bfd_lock`, so each is one action. Time is abstract: a
timer may fire whenever the code allows it to. An expiry of the detection time
is a fault, and counts as one, unless packets of the peer went by that this end
had to refuse (`silent`). Intervals are numbers, because the property about
the detection time compares them.

A peer takes the place of a VPP too: both ends run the same code. Recreating a
session gives it a new discriminator, while packets with the old one are still
on the way.

## Runs

| Run | Expect | Shows |
|---|---|---|
| `barrier` | pass | start-up completes; from there on exclusion, refork before dispatch and before return, every call returns; 3 workers, nesting 2 |
| `workers_sync` | pass | no worker dispatches beside a caller's work that has not been through the pair itself, one RPC per raised flag, both rendezvous of the pair complete; 2 workers, up to two calls per loop |
| `sync_returns` | violation | the RPC is never sent while its author spins |
| `msg_queue` | pass | refinement of `MsgFifo`, no dequeue from an empty queue, frees in order, what is sent is received; every mode of waiting and dequeueing |
| `msg_queue_crash` | pass | no overrun of queue or rings when a producer dies anywhere with the mutex |
| `ring_wakeup` | violation | a producer asleep on a full ring is not woken |
| `frame_queue` | pass | two producers race for one ring, one dropping and one waiting: conservation, order, exclusive claims, rings drained, handoffs return |
| `svm_fifo` | pass | refinement of `ByteStream`, copies within their chunks, no stale chunk, out-of-order segments apart; both roles |
| `fifo_segment` | pass | chunks conserved, allocations large enough, the byte count settles, calls return |
| `empty_batch` | violation | two processes at the end of the memory: a batch of zero chunks |
| `bfd` | pass | with three faults or commands of any kind: detection times cover the peer's rate, sessions settle, polls end |
| `bfd_detection` | violation | the detection time does not follow the peer's transmit interval |

The violations are described, with the lines they contradict, under `findings`
in `PROJECT.json`.

Further configurations show limits of the code. Each violates its property:

- `BootThenRun.cfg` (`WorkerBarrier`, `BarrierExclusion`):
  `vlib_worker_thread_initial_barrier_sync_and_release` does not wait for the
  workers to leave (`threads.c:1275`, unlike the release at line 1447), so a sync
  right after it may count a worker that is on its way out. The distance between
  the two calls makes it improbable; nothing excludes it.
- `SyncTwice.cfg` (`WorkersSync`, `SyncIsolates`): `vlib_workers_continue`
  decrements `workers_before_barrier` last (`threads.c:1543`); a worker that calls
  `vlib_workers_sync` again in the same loop may add itself to a sum that still
  includes one about to leave, against the comment at `threads.c:1521`.
- `BatchWakeup.cfg` (`MCMsgQueue`, `ProducerWakes`): `svm_msg_q_sub_raw_batch`
  decides on the signal with the size it read before the copy
  (`message_queue.c:448`): the loss of `ring_wakeup`, at the queue. `ring_wakeup`
  has a ring no larger than the queue and single dequeues, `BatchWakeup.cfg` larger
  rings and batches, so that each shows only one of the two.
- `PeekAtEnd.cfg` (`MCSvmFifo`, `PeekReturns`): a peek at the tail
  (`svm_fifo.c:1152` lets it pass) when the tail is at the end of the list and no
  earlier peek has left a chunk. `svm_fifo_test.c:457` makes such a call and
  expects 0; its tail is in the middle of a chunk.
- `LargestChunk.cfg` (`MCSvmFifo`, `CopyInBounds`): a fifo larger than the largest
  chunk asks for more than one holds and is given one (`fifo_segment.c:471`).
- `FrameQueueAux.cfg` (`MCFrameQueue`, `Conserved`): with aux data and no free
  element, the aux values overwrite the buffer indices in the drop list
  (`buffer_funcs.c:312`), so that the packets are neither handed off nor freed.
- `BfdPolls.cfg` (`MCBfd`, `DetectionCovers`): two polls cross. The final that
  answers the peer's poll also clears the own one (`bfd_main.c:1091`), without
  putting the new required min rx into effect as the end of a poll would.

So do other values of the constants, or other properties in the same
configuration:

- `WaitOneLoopReturns` fails in `WorkersSync`: thread 0 waits for a worker's
  loop to end (`threads.c:1574`, without a deadline) while that worker waits for
  thread 0 to ask for the barrier (`threads.c:1518`).
- `"timed"` in `Spurious` breaks `SubNotEmpty`:
  `svm_msg_q_timedwait` does not test the queue again after it was woken
  (`message_queue.c:625`), so `svm_msg_q_sub` and `vpp_echo.c:849` may dequeue
  from an empty queue.
- `MaxCrashes = 1` breaks `FreesInOrder`: a producer that dies between its
  allocation and its enqueue leaves a slot that nobody frees, and the later
  frees of the ring trip the assertion of `message_queue.c:309`.
- A request larger than the largest size of chunk breaks `AllocsFit`:
  `fs_freelist_for_size` clamps the list (`fifo_segment.c:471`) and the first
  chunk of that list is returned although it is too small. The run asks for sizes
  up to the largest.
- `TagMod = 1`, a tag that has wrapped when a pop resumes, breaks
  `ChunksConserved`; the code accepts this for 2^16 (`fifo_segment.c:202`).

### Bounds

- Workers: three are enough for one that is early, one that is late and one in
  between. `WorkersSync` has two, each of which may be in the pair while the other
  is early, late or in the pair as well; three pass its safety properties too. The
  theorems of `WorkerBarrierProofs` and `WorkersSyncProofs` remove the bound.
- Fifo: four bytes, and positions modulo 20, just above twice what a full fifo,
  `MinAlloc` and a chunk of two bytes at either end take, so that head and tail
  wrap in every combination with the chunks; an allocation is of at most two of the
  three chunks (`MaxAlloc`); chunks of one and two bytes end at,
  before and after the places where copies do; three chunks leave allocations
  that fail. `LargestSize` is 4, the size of the fifo, with no chunk that large in
  stock, so that larger requests are met with several chunks. Chunks of equal length are symmetric; the symmetry is used with
  safety properties only.
- Segment: five calls of two processes from five starts (all carved, nothing
  carved, memory for small chunks only, for one direction, and too tight for the
  headers); three sizes are enough for one that is smaller and one that is larger
  than the request. Tags do not wrap within five calls.
- BFD: three disturbances of any kind are enough for a loss during a poll after a
  change, or a recreation at both ends with a duplicate between them. At most two
  packets are on the way, in both directions together, a final in the place of the
  poll it answers: an old frame and a newer one behind it, which may overtake it,
  or one in each direction. Three, with two disturbances, give the same results.
  Parameters change at one end between two values of the required min rx; a
  required min rx of zero, which stops the peer's transmission, is not explored.
- `MaxRecursion` 2: an outer and an inner sync; deeper ones only count.
- `MaxSyncs` 2: calls of the pair in one loop of a worker, a growth of two pools.
- Message queue: two entries and two rings, of two and one slots, so that the
  queue and each ring can be full independently; two messages per producer, in all,
  four, make every index wrap. `MaxHeld` 2 lets the consumer hold messages
  while it dequeues more.
- Frame queues: rings of two elements (one usable) are full after one element
  and wrap after two; elements of at most two packets leave remainders; the
  ring with two producers sees up to five packets. `CheckLimit` 1
  stands for 100: the shortest time after which an owner stops polling is the
  worst case. Vectors, sizes and limits keep the relations of the source
  (`vector_threshold` is twice the frame size).
- `CHECK_DEADLOCK FALSE` is set for the message queue, where producers stop
  after `MaxMsgs` messages and may sleep, for `WorkersSync`, where the process
  can really come to a halt (`sync_returns`), and for `FifoSegment`, whose
  processes stop after `MaxCalls`.

### Fairness

Threads run on cores of their own and poll: a thread whose next step is
enabled takes it (weak fairness). Strong fairness is assumed for

- main's calls, in `WorkerBarrier` and `WorkersSync`: who holds the barrier
  releases it although it may first nest syncs, start-up ends, and RPCs are
  served although main may first do other things;
- `EndLoop` of a worker: a handoff that polls the barrier ends;
- the mutex: a thread to which it becomes free again and again gets it;
- receiving and freeing: the consumer's loop does both.

In `FifoSegment` each process goes on with a call it has begun (weak fairness),
no more: that calls return is a property of the compare-and-swap loops.

In `Bfd` the process node wakes for every timer and event, and a packet that is
not lost arrives (weak fairness). A session that refuses its peer's packets runs
into its detection timeout. `Settles` and `PollsEnd` assume `Prompt` as well: from
some time on a periodic frame is sent when no packet is on the way. Delays are far
below the transmit interval (it is at least the second of
`BFD_DEFAULT_DESIRED_MIN_TX_USEC` while a session is not up), and
`bfd_calc_next_tx` adds jitter, so that the peers do not stay in step. Without it,
two peers whose packets always cross can repeat the same states for ever.

Nothing is assumed about whether producers send, about spurious wake-ups, or
about timeouts coming late.

## Proofs

| Module | Theorem | States | Assumes, besides the `ASSUME`s of the modules |
|---|---|---|---|
| `WorkerBarrierProofs` | `TypeCorrect` | `TypeOK` | |
| | `Exclusion` | `BarrierExclusion` | |
| | `Refork` | `NoStaleDispatch` | |
| | `ReforkComplete` | `ReforkBeforeReturn` | |
| | `StartUp` | all four, from the creation of the threads on | main's first sync comes after the workers left the initial barrier |
| `WorkersSyncProofs` | `SyncTypeCorrect` | `SyncTypeOK` | |
| | `OneRpc` | `OneSyncRpc` | |
| | `Rendezvous` | `SyncRendezvous` | |
| | `BarrierUnderSync` | that it implements `WorkerBarrier`; `BarrierExclusion`, `NoStaleDispatch` | |
| `FrameQueueProofs` | `TypeCorrect` | `TypeOK` | |
| | `ClaimsExclusive` | `ClaimExclusive` | |
| | `Order` | `InOrder` | |
| `FrameConservedProofs` | `Conservation` | `Conserved` | no aux data |
| `MsgQueueProofs` | `NoOverrunCorrect` | `NoOverrun` | no timed wait woken spuriously |
| | `SubNotEmptyCorrect` | `SubNotEmpty` | the same |
| `MsgFifoProofs` | `TypeCorrect` | `TypeOK` | no crash, no timed wait woken spuriously |
| | `FreesCorrect` | `FreesInOrder` | the same |
| | `FifoCorrect` | `FifoRefinement` | the same |
| `SvmFifoProofs` | `TypeCorrect` | `TypeOK` | `Fits`: no request is for more than the largest chunk |
| | `Ownership` | `ChunksOwned` | the same |
| | `SegmentsCorrect` | `SegmentsApart` | the same |
| | `CopiesInBounds` | `CopyInBounds` | the same |
| | `StreamCorrect` | `StreamRefinement` | the same |
| `BfdProofs` | `TypeCorrect` | `TypeOK` | |

Without what the last column names, `BarrierExclusion` at start-up, `Conserved`,
`SubNotEmpty`, `FreesInOrder` and `CopyInBounds` are false: the section on runs says
how. The other theorems about the message queue and the fifo share the inductive
invariants of these. The `ASSUME`s of the
modules are evaluated by TLC in every run. The specifications proved about are
those without fairness; each fair one implies it.

Most of these invariants are not inductive, and each proof is about what must be
added. Every inductive invariant was an invariant of a TLC run before it was
proved.

**WorkerBarrier.** That every worker is parked when main goes on follows only
from the fact that `workers_at_barrier` is exactly the number of workers in the
places where they are counted. `IInv` has four parts: types; the flag and main's
locals by where main is; where a worker can be by where main is (nobody is
leaving while main syncs, because the last release waited for all); and the two
counters as cardinalities of sets of workers, the second equal to the workers
whose clone is stale. `CountedSets` gives what the provers need about these
cardinalities. There is one lemma for the steps of main and one for those of a
worker. These are about `Spec`, the process in service. `StartUp` is about
`BootSpec`, the specification of the run `barrier`. The initial release does not
wait for the workers to leave, so that they may still be counted, and parked or
leaving, when main is back in its loop; `BootInv` differs from `IInv` there and
in the places of start-up. `BootNext` assumes that main's first sync comes after
they have left; without the assumption exclusion fails (`BootThenRun.cfg`).

**WorkersSync.** Every step of the composition is a step of the barrier or leaves
it alone (`BarrierStep`), so the composition implements `WorkerBarrier`: `IInv`
and the barrier's theorems carry over (`BarrierKept`, `BarrierUnderSync`). `PairInv` adds the two
counters of the pair as cardinalities, where its members can be (a worker that
counts itself in does so while main waits in its sync, which therefore cannot
complete), and that the flag `wait_before_barrier` is the number of requests on
their way, wherever they are. `Rendezvous` needs `RoundInv` as well: from the
moment one worker has passed the gathering until it is out of the pair, everyone is
stopped or has been through the pair in its loop. The sum that lets it pass counts
every worker, each as parked or as before the barrier; those who go on
afterwards have called the pair, and those who call it again are the ones who left.

**FrameQueue.** `IInv`: positions `head + 1` to `tail` are claimed, all other
elements are clear; what a producer has found (room, its claim) and what the owner
has found at its head stay true until they act. `OrderInv`: packets of one thread
increase in number within an element, from an older claim to a newer one, from
what a node has to what is still held, and from there to what is still pending in
the thread's frame. The lemmas about `Nth` and `Compress` say that compressing
takes each masked element once, in order. `ConsInv`: every packet ever handed off
has exactly one spot (frame, drop list, freed, one element of one ring, one
node). It rests on `OrderInv`: that numbers increase makes what a step takes
different from what it leaves. `PlacesSpots` relates spots to the places that
`Conserved` counts.

**MsgQueue.** `MsgQueueProofs` is rely-guarantee: the counts grow only in the
hands of the mutex's holder and shrink only in the consumer's, so that what
either has found stays true until it acts, whoever dies. `MsgFifoProofs` adds
`LineInv`, about the line of live messages: those the consumer holds, then the
entries of the queue, then the one being sent. The line lies in the queue from
`qhead` on, and the messages of each ring are in the line in the order of their
slots, from the ring's head to its tail, one for each slot in use. Hence a free
finds its message at the head, and a slot is not given away while its message is
alive. The step simulation of `FifoCorrect`: `Publish` is a `Send`, `SubRaw` and
`SubRawBatch` are `Receive`, `FreeMsg` is a `Free`, everything else a stutter. A
producer that dies between its allocation and its enqueue leaves a slot in use
that no message of the line has, which is why crashes are excluded here.

**SvmFifo.** None of the properties is inductive: whether a copy is in bounds
depends on the cached chunk or tree it starts from, that on what the other side
has unlinked or appended since, and that on what both calls in progress have
found out. Positions wrap, so they have no order of their own: `FifoInv` speaks
of offsets from the head (`Off`), integers that the half-turn of `FifoAssumption`
makes unique. Its parts: the list of chunks has each chunk once, is contiguous
and begins with the chunk of what is consumed next (`ChainInv`); consumed, tail
and produced are in order and within the list and the size (`OrderInv`);
`tail_chunk` and `head_chunk` hold the position they are for, or there is none
(`TailInv`, `HeadInv`); what a call has found stays true until it acts
(`ProdInv`, `ConsInv`), or the consumer has crashed at the end of the list; segments are in order behind what is produced (`SegInv`);
the producer's tree is an interval of the list from the chunk of the tail on, and
the consumer's tree an initial part of the list (`EnqInv`, `DeqInv`), which is
what makes `f_find_node_rbtree` find the right chunk; and every offset that holds
a byte of the stream or of a segment holds the right one (`DataInv`). The lemmas
say what the operators return in terms of offsets: `Includes`, `FindAt`,
`LastChunkIs`, `CopyToIs`, `CopyFromIs`, `UpdateIs` for the tree,
`SegmentAdd` and `CollectIs` for segments. Then there is one lemma per action.
`DequeueStore` moves the head, from which all offsets count, so that all of them
shift (`Shift`); the actions that unlink share `CutInv`. In the refinement
`EnqueueStore` is a `Write`, `DequeueUnlink`, `Drop` and `DropAll` are `Consume`,
everything else is a stutter. `Fits` enters only where a call allocates: what it
gets is then as large as what it asked for.

That a list is walked needs induction over it. `Least` and `UpTo` get it from the
library's theorem that the order of the naturals is well-founded, stated for sets
and not for operators: the set of counterexamples has a least element. `BeforeDef`
shows in this way that the recursive function `Before` exists.

**Bfd.** `TypeOK` says among the rest that a session in init or up knows its
peer's discriminator. For that no packet on the way may carry a zero one, and the
handler of the timeout, which forgets the peer, must leave init and up; the
recalculations in between (`Keeps`) touch neither.

Only model-checked:

- all liveness, under the fairness above, which TLAPS does not handle;
- `FifoSegment`: `ChunksConserved` needs that a stack has not changed while its
  tag has not, which tags modulo `TagMod` give only for a bounded number of
  calls, so that it is false for large ones (and in general: `EmptyBatch.cfg`).
  `AllocsFit` and `BytesSettle` rest on it, and the bound on carved chunks in
  `TypeOK` on the memory of the run's starts;
- `DetectionCovers` of `Bfd`: it holds for the parameter choices of the run and
  not in general (`BfdDetection.cfg`, `BfdPolls.cfg`).

## Not modelled

In the modelled files: the event-fd variant of the message queue and
`svm_msg_q_add`; timing (hold-down, deadlines); counters, traces and event logs;
thread placement and configuration. `svm_msg_q_add` with `nowait` returns with
the mutex held when the queue is full; only a unit test calls it. In the frame
queues, aux data is followed only into the drop list;
`vlib_frame_queue_main_init` looks up the node before it stores its index, so
the aux variant of the dequeue is chosen by node 0, which the model does not
show.

In the fifo: `svm_fifo_fill_chunk_list`, `svm_fifo_overwrite_head`,
`svm_fifo_clone`, `svm_fifo_init_pointers`, the linear search used without a
tree, the event flag and the dequeue notifications. In the segment: fifo headers
and lists of active fifos (one thread of VPP uses them), attach and detach,
memory pressure, `n_cached_bytes`. In BFD: authentication, diagnostics, counters,
listeners and their RPCs, demand mode, which VPP respects but never asks for, and
the timer wheel. A final that answers an earlier poll may end a later one; that is
in the model, and its only effect is on timing.

The rest of the repository, by far the largest part, is packet processing and
configuration in vector code without shared mutable state of its own, and
protocols and features; `PROJECT.json` lists them. The readers of bihash and of
the forwarding tables rely on the time a worker needs for one loop, or on
`vlib_worker_wait_one_loop`, rather than on an order of accesses, so that a model
without time has little to say about them.

## Plan

Order of the next modules, and what each is for:

1. The event-fd variant of `MsgQueue`, and its availability after a crash; the
   dequeue notifications of `SvmFifo` over `MsgQueue`.
2. `RwLock` and `SvmQueue`, both short and provable.
3. `StatSegment`: optimistic readers.
4. `NodeDispatch`: interrupts, pending frames and processes of the main loop.
5. `SessionClose`: the close handshake over `MsgQueue` and `SvmFifo`;
   `ApiClient`: dead clients and RPCs.
6. `TimerWheel`; authentication and demand mode of `Bfd`.

Theorems to come: conservation of `FifoSegment` with tags that do not wrap, and
mutual exclusion of `RwLock`.
