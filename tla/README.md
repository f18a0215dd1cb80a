# AXIOM EVI NIC: models and proofs

TLA+ models of the Linux driver and the user library for the AXIOM network
interface (`src/axiom_netdev_driver`, `src/axiom_user_library`, `src/include`),
model-checked with TLC and, but for liveness, proved with TLAPS. `PROJECT.json` lists the
components, the runs, the source lines behind every definition, the hazards the
properties are for with notes where one does go wrong, and the theorems. What was found to
disagree with documentation is in section 4.

## 1. The system

The NIC exchanges three kinds of messages between the nodes of a network: RAW
messages (up to 248 bytes, through FIFOs of the NIC), RDMA requests (the NIC
copies memory between nodes and acknowledges) and LONG messages (an RDMA write
into a buffer that the receiving NIC picks, up to 65528 bytes). Processes use the
library, the library uses character devices of the driver, the driver shares the
NIC among the processes by *ports*.

| Component | State | Operations | Interacts with |
|---|---|---|---|
| EVI queue manager, `evi_queue.h` | FIFO queues and a free list as index chains in one array | init, free push/pop, enqueue, dequeue | every software queue of the driver, under its spinlock |
| RAW receive, `axiom_netdev_common.c` 280-460 | software queue with one FIFO per port, mutex and wait queue per port | interrupt, kthread dequeue, recv, flush | interrupt handler, kthread_raw, watchdog, readers |
| RAW transmit, 170-280 and `axiom_kernel_api_arm64.c` | mutex, wait queue, message id counter, TX FIFO | send | interrupt handler, watchdog, senders |
| RDMA requests, 460-930 | message ids (slots) with status, counters for tokens, TX and RX FIFO | tx, check, wait, kthread dequeue with retries | interrupt handler, kthread_rdma, watchdog, network, LONG transmit by callback |
| LONG transmit, 1040-1140 | queue of send buffers, mutex, wait queue | send, completion callback | RDMA requests |
| LONG receive, 930-1010 and 1140-1320 | buffers shared with the NIC, software queue per port | kthread dequeue, recv, flush | NIC, kthread_rdma, readers |
| Open, bind, close, 1834-1960 and 2560-2700 | count of open files, ports in use per kind, port of each file | open, bind, unbind, release | `axiom_open`, `axiom_bind`, `axiom_close`, exit |
| kthreads and watchdog, `axiom_kthread.c`, 1320-1400 | the flag that work is due | wake, worker loop, periodic wake of everybody | receive and transmit paths |
| Routing and node id, 2437-2525 | routing table and id in registers, and copies in the driver | set and get ioctls | tests in the send paths, sysfs, `axiom_next_hop`, `axiom_get_num_nodes` |
| Library, messages, `axiom_user_api.c` 240-1250 | flags, poll results in `axiom_dev_t` | send, recv, flush, flags | poll and the RAW and LONG ioctls |
| Library, RDMA, 1250-1510 | tokens of the caller | read, write, check, wait | RDMA ioctls |
| Probe and removal, 1400-1830 and 2710-2899, `axiom_netdev_arm64.c`, sysfs | what is acquired: mappings, interrupt, devices, rings, kthreads, files of sysfs | load, probe, remove, unload | everything, while it is made or taken away |

What is hard here: the interrupt handler, two kthreads, the watchdog and any number
of user threads share queues under several mutexes and spinlocks, and wait for each
other through wait queues whose wake-ups are conditional; signals end most waits;
results are tested under one lock and used under another; requests are retried and
answered out of order; message ids and tokens are reused; sizes, counters and
register values change width between the layers; a call of the library is several
system calls.

What makes each component correct: no slot, buffer, port or message id is lost or
owned twice; messages arrive whole, once and in order, or are discarded for a stated
reason; no waiter sleeps while what it waits for is there; what the code marks
impossible is; and what a call reports is what happened.

## 2. Modules

| Module | Models | Uses |
|---|---|---|
| `SlotQueues` | abstract specification of the queue manager | |
| `EviQueue`, `QueueProofs` | the index chains of `evi_queue.h` | implements `SlotQueues` |
| `RawRx`, `RawRxProofs` | RAW receive, kthread_raw, watchdog | client of `SlotQueues` |
| `RawTx`, `QueueProofs` | RAW transmit down to the words written to the FIFO | |
| `RdmaService` | abstract specification of RDMA requests | |
| `RdmaTx`, `RdmaTxProofs` | RDMA requests, kthread_rdma, watchdog, network | implements `RdmaService` |
| `LongTx`, `LongTxProofs` | LONG transmit | client of `RdmaService` |
| `LongRx`, `LongRxProofs` | LONG receive | |
| `PortBind`, `DeviceProofs` | open, bind, close and exit, library and driver | |
| `UserMsg`, `LibraryProofs` | `axiom_send`, `axiom_recv` and the calls of one kind, poll | stands above the four message paths |
| `UserRdma`, `UserRdmaProofs` | RDMA calls and arrays of tokens | stands above `RdmaTx` |
| `Routing`, `LibraryProofs` | registers and copies of routes and node id | |
| `Lifecycle`, `DeviceProofs` | loading, probe with every error path, removal, unloading | what every other module takes to be there |
| `MC*` | instances for TLC: symmetry sets, views, sets of masks | |

**How the code maps.** A variable has the name of the field it stands for where
there is one (`free`, `fifo`, `rdma_status`, `port_used`, `bind_port`, `routing_table`,
`next_raw_id`); `tpc`, `kpc` or `pc` say where a thread or a kthread is. An action is
what one actor does between two points where another one can see its effects: a
section under a spinlock, a test of a wait condition, one register access, one
wake-up. A function of the code is the disjunction of its steps under its own name
(`axiomnet_raw_recv`, `axiom_rdma_rx_dequeue`, `axiom_recv`, ...). Waits are three
steps as in `wait_event_interruptible`: the test, the sleep, and being woken, which
tests again; a signal may end them. Payloads, addresses and nodes are values without
structure; sizes and counters keep their width where a property depends on it.

**Composition.** `RawRx` is shown to follow `SlotQueues`, which `EviQueue` is shown to
implement, so that the receive path may be read with sets and sequences in place of
chains. `LongTx` sends through `RdmaService`, which `RdmaTx` is shown to implement.
`UserMsg` and `UserRdma` take from the driver what its modules establish: queues in
order, and a counter per slot that is incremented once per answer.

**External parts**, marked so in the map: FIFOs, interrupt bits and DMA of the NIC, the
network with answers in any order, the kernel's poll and wait queues. They are modelled
from how the driver uses them. The interrupt handler reads the pending bits first and
acknowledges at its end, so an event in between is lost; that is a step of the models.

**Particular abstractions.**
- `RawTx`: the tests that refuse a call before the first lock change nothing and are
  left out (`Routing` has the one for reachability).
- `LongRx`: when the kthread runs is left to `RdmaTx`; its condition is a FIFO that is
  not empty, which does not depend on the LONG queue.
- `UserMsg`: iovec variants only copy differently and are the same calls. Threads share
  one `axiom_dev_t` or have a copy each (fork), and share the files in both cases.
- `UserRdma`: read and write are the same call; translation of addresses by the
  allocator driver is one of the reasons a call fails. `axiom_rdma_wait` is called with
  tokens that a read or write returned: with others its loop need not end.
- `Lifecycle`: the order of acquisition and the labels of every error path are sequences of
  resource names in the order of the code, and one loading thread walks along them. A kthread,
  the handler, a sysfs call or an open file is reduced to what it uses while it runs.
- `Routing`: the registers start with anything (`Found`), since they survive a reload of the
  driver whose copies start from zero. A register that holds the number of no interface is
  shifted out of the mask when it is read. With the 256 nodes of the NIC the 8 bits of an id
  are always one of them.
- `Lifecycle`: `axiom_hw_check_version` reads a register and always succeeds, so the early
  return behind its call in `axiomnet_probe` is not a step that may fail.

## 3. Runs

Every run passes. Deadlock is checked in all of them but `lifecycle`, where a module that is
not loaded, or a loading thread that crashed in a missing mapping, may rest. A property that
is a conjunction has named parts in its module.

| Run | Properties | What it shows |
|---|---|---|
| `evi_queue` | `Coupled`, `ImplementsSlotQueues` | chains are well formed, lose and share no element, and implement the slot queues |
| `raw_rx` | `MessagesKept`, `ImpossibleNeverHappens`, `NoLostWakeup`, `FollowsSlotProtocol`, `NothingStuck` | slots, messages and order are safe under interrupts, flushes and signals; nothing stays in the NIC and readers are served although an interrupt may be lost |
| `raw_tx` | `PacketsWhole`, `WaitsEnd` | the FIFO is never overrun although space is tested in another lock section; packets are whole and numbered in order; both waits for space end |
| `rdma` | `IdNotReused`, `LostOnlyBySignal`, `AnswersExact`, `ImplementsService` | two ids with answers in any order, errors, retries and signals; to its callers the path is the service |
| `rdma_live` | `Answered`, `WaitsEnd` | requests are answered and nobody sleeps for ever, the kthread included when it waits with the mutex held for space in the FIFO |
| `long_tx` | `OneOwner`, `PayloadStable`, `NoLostWakeup`, `SenderWoken` | a buffer is not changed while the NIC may read it, retries included; senders are woken without a watchdog |
| `long_rx` | `PayloadIntact`, `EnoughSlots`, `LeaksKnown`, `NoLostWakeup` | payloads are intact until copied; a slot is there for every buffer; each of the two is lost in one way only |
| `port_bind` | `Exclusive`, `UsedExact`, `OpenCount`, `BoundTogether` | ports are exclusive, none leaks, files are counted, also with exits in the middle of a call |
| `user_msg` | `SleepJustified`, `SizeVerdict`, `ErrorHasReason` | a call that begins non-blocking does not wait and poll misses no message; sizes decide what is refused and dropped, not their conversions; errors have reasons |
| `user_rdma` | `TokensExact`, `WaitCompletes`, `WaitNotInVain` | tokens are exact although slots are reused; nobody waits for an answer that has gone |
| `routing` | `CopiesCurrent`, `NumNodesBounded` | copies follow the registers unless an ioctl was overtaken; a count that overlaps changes is between the two bounds that make sense |
| `lifecycle` | `HandlerSafe`, `KthreadSafe`, `ClientsSafe`, `Balanced`, `LoaderEnds` | with any step failing and everybody running meanwhile: handler, kthreads and clients use only what exists, each error path gives back what was acquired, once, and probe and removal end |

The type invariants are not in the runs: each is proved, for every instance of its module (that
of `PortBind` where no device is shared; the types of `UserRdma` are a part of the invariant in
`UserRdmaProofs`).

**Bounds, and why they are enough.** Two slots (or buffers, ids) are the least number with which
one is in use while another is free, and all of them in use is reached. `rdma_live` has one
thread that may leave a request in the FIFO of one place and go on: the kthread then waits for
that place with the mutex held. Two threads suffice for a race between callers of one kind,
since all of them run the same code and wait on the same queue; three are used where one holds
the mutex, one waits for it and one sleeps (`long_tx`). `MaxMsgs` exceeds the number of slots in
`long_rx`, and `MaxReqs` in `long_tx`, so that a resource is used again after it was exhausted.
Two further instances do this where it would be too large with the rest: `MCRawFull.cfg` has one
slot for three messages, so that messages wait in the NIC for a slot (with one slot alone, order
and the test whether the queue was empty would say little, hence the two of `raw_rx`), and
`MCRdmaReuse.cfg` one id that carries three requests. They check the properties of `raw_rx` and
`rdma_live`, and pass (246,390 and 200,691 states). The FIFO of `raw_tx` has three words for
packets of one, two and three: full, too small for the larger packets and empty all occur. Four
elements and two queues let `evi_queue` have middle elements in chains, empty chains and an
empty free list. Three devices on two ports let `port_bind` exhaust the ports. Retries use the
real 1000 and the real 8 bits. Sizes of `user_msg` are the real limits of the kinds and their
neighbours and one that `axiom_send` cuts to 16 bits, with one buffer at the limit of RAW and
one above 16 bits; `user_rdma` takes the largest size that is accepted and the smallest that is
not. `lifecycle` lets each of its steps fail, has one open file, and covers all orders of
loading, binding, unbinding and unloading (434,056 states); a second file adds nothing, since
files do not meet there. Three nodes let the count of `routing` see a change behind it and one
in front of it; its registers start with a route, with none, with the loopback interface, which
is not counted, or with a number that is no interface. Symmetry is over interchangeable slots,
buffers, threads and devices, only in runs without liveness; views hide what a free slot still
contains, a finished call has returned or a copy holds that no property speaks of, and each `MC`
module says why that is never read.

**Fairness.** Weak fairness of every step of a kthread, of the interrupt handler, and of a
thread that is inside a call: the kernel schedules what can run. Weak fairness of the
NIC's transmission and of the network's answers in `RdmaTx`, `LongTx` and `RawTx`. The
watchdog's period is a parameter and 0 disables it; the liveness properties of `RawRx`,
`RdmaTx` and `RawTx` assume it enabled, and the mutants in which it does nothing show that
they need it. In `Lifecycle` the loading thread, the workers, the handler and the readers of
sysfs run; that removal ends is stated under the condition that the network is silent in the
end, because a worker function reads until its FIFO is empty and does not test
`kthread_should_stop`. Nobody is assumed to make a call, no message is assumed to arrive, and
signals are never required.

**Reading some properties.**
- `ErrorHasReason` speaks of threads with a device of their own. With a shared
  `axiom_dev_t` the poll results are overwritten by other threads, and an error without a
  reason does occur.
- `SizeVerdict` is about what becomes of a message: refused, taken or dropped. It holds for all
  sizes, but a message that `axiom_send` has cut is one that it did not refuse; that it then
  sends fewer bytes than it was given is in section 4.
- `NothingStuck`, `Answered` and `WaitsEnd` have the watchdog behind them, which would hide a
  single missing notification: of the RAW readers `NoLostWakeup` excludes one, and of the RDMA
  senders one is missing, see section 4.
- `CopiesCurrent` excludes what an overtaken ioctl wrote. A read of a row stores it in the
  driver's copy without a lock; a set that falls in between is undone there, for good.
- `LostOnlyBySignal` and `LeaksKnown` state precisely the leaks that exist, so that a new one
  would be noticed. The former has two halves: who has each id that is not free, and that an id
  nobody has was given up by a synchronous call that a signal ended while the kthread stood
  between its test of `ack_waiting` and its store of `ack_received`.
- `PacketsWhole` says with `CutByLengths` that places exist which cut the FIFO into packets as
  the written lengths do, rather than computing them: a fold over the lengths would say the same
  and could not be proved about.
- `ClientsSafe` and `HandlerSafe` name the windows that the code leaves open: a device node or a
  sysfs file that is used before the probe is complete, a file that is still open after an
  unbind, a shared interrupt line. Outside of them, nothing is used before it exists or after
  it is gone.

## 4. Findings

Places where the code and its documentation or comments disagree. Each has a
formula, in the last section of its module or among its properties, and a configuration
under which TLC gives a counterexample; the runs above check what holds in its place.

| Configuration (module) | Violated | What happens | What holds |
|---|---|---|---|
| `MCRdmaLeak` (`MCRdmaTx`) | `NoSlotLost` | a signal between the kthread's test of `ack_waiting` (`axiom_netdev_common.c:895`) and its store of `ack_received` loses a message id for ever | `LostOnlyBySignal` |
| `MCRdmaRetry` (`MCRdmaTx`) | `RetryLimit` | the kthread compares `retries`, an `uint8_t` (`axiom_netdev.h:111`), with 1000 (845): the retries of a request that the remote node refuses never end ("max number of retry to send RDMA request", `axiom_netdev.h:91`) | `Answered`, if the refusals end |
| `MCRdmaWake` (`MCRdmaTx`) | `NoLostWakeup` | the kthread notifies senders only if an id was free before (916), which is when nobody waits; the watchdog hides it | `WaitsEnd` |
| `MCPortShared` (`MCPortBind`) | `UsedExact` | `axiomnet_bind` tests `bind_port` outside the lock (1852); two binds of one file leak a port | `UsedExact` with `Shared = FALSE` |
| `MCPortAny` (`MCPortBind`) | `AnyServed` | `AXIOM_PORT_ANY` fails while a port is free for both kinds (`axiom_user_api.c:357`) | `BoundTogether` |
| `MCRawNonblock` (`MCRawTx`) | `NonBlocking` | a non-blocking RAW send waits in `axiom_hw_raw_tx` with the mutex held (`axiom_kernel_api_arm64.c:103`) | `WaitsEnd` |
| `MCLongBuf` (`MCLongRx`) | `BuffersReturned` | discarded LONG messages keep their buffer for ever (982) | `LeaksKnown` |
| `MCUserStranded` (`MCUserMsg`) | `Responsive` | `axiom_recv` blocks for the kind poll reported, although another thread took that message and one of the other kind waits (`axiom_user_api.c:480`) | `SleepJustified` |
| `MCUserTruncated` (`MCUserMsg`) | `SentWhole` | `axiom_send` of more than 65535 bytes is cut to 16 bits and succeeds (412), so less than the "size of data to be sent" (`axiom_nic_api_user.h:131`) is sent | `SizeVerdict` |
| `MCUserIntr` (`MCUserMsg`) | `InterruptReported` | a signal during poll is reported as a generic error (463) | `ErrorHasReason` |
| `MCUserRdmaWait` (`MCUserRdma`) | `WaitMeansDone` | `axiom_rdma_wait` returns `AXIOM_RET_OK` after a failed wait (1504) | `WaitCompletes` |

Probing and removal, as `Lifecycle` models them from the code; the resources that its
properties exempt by name are these:

- A missing BRAM is not noticed: the test of the error against a mask
  (`axiom_netdev_arm64.c:316`) is never true, and the probe goes on without the mapping; the
  missing LONG mapping ends in an oops in `axiomnet_rdma_init`, the missing routing mapping in
  the first access (`Unchecked`). `of_parse_phandle` returns NULL and is tested as an error
  pointer; the result of `ioremap` is not tested (`axiom_netdev_common.c:1629`), that of
  `vmalloc` is written before it is (`axiom_kernel_api_arm64.c:39`).
- `unregister_chrdev_region` is called with a count of 0 (2857, 2874) and releases nothing;
  the class is unregistered and then destroyed (2868).
- `axiom_sysfs_init` returns 0 when a folder below its root cannot be created
  (`axiom_netdev_sysfs.c:218`): all of sysfs is rolled back and the probe goes on without it, while
  a folder whose attributes cannot be created fails the probe.
- The handler of the shared interrupt is registered before `axiomnet_probe`
  (`axiom_netdev_arm64.c:376`); device nodes and sysfs files exist before `chrdev.drvdata`, the
  rings and the kthreads; an unbind leaves open files behind that their release then follows
  into freed memory.

## 5. Proofs

Theorems hold for every value of the constants that satisfies the named assumption of
the module (`EviQueue`: at least the elements of the free list; the others: bounds
are natural numbers and the special values are none of the slots, threads or ports; in `Routing` masks have 8 bits and registers hold numbers; in
`UserRdma` arrays of tokens are not empty; in `LongRx` there are at least as many slots as
buffers, both finitely many; in `RawTx` every packet fits into an empty FIFO). `Lifecycle`
assumes nothing. `QueueProofs`, `LibraryProofs` and `DeviceProofs` extend two modules each, whose
specifications have nothing to do with each other; so that they can, the formulas that every
module has are called `eviq_init`, `EviqNext`, `EviqSpec`, ... in `EviQueue`, `RouteInit`,
`RouteNext`, `RouteSpec`, ... in `Routing`, and `LifeInit`, `LifeNext`, `LifeSpec`, ... in
`Lifecycle`.

- **`QueueProofs`**, `EviQueue`: `TypeCorrect`, `ChainsCorrect`, `Implementation`. The invariant is
  `EviqTypeOK /\ Coupled`: every chain of indexes spells out the sequence that the operations
  should have produced, and the sequences and the held elements partition the array. It is
  inductive: `TakeFirst` and `Give` say what removing and adding an element does to
  a chain and that it leaves the others alone (`Apart`). The refinement maps the chains to
  those sequences, and the abstract step follows from the invariant for each operation.
- **`RawRxProofs`**: `TypeCorrect`, `ImpossibleBranches`, `WakeupsSuffice`, `NothingLost`,
  `SlotProtocol`. Neither of the
  second and the third is inductive: a branch is impossible because the tester still has the
  mutex, or is the only kthread, and nobody else removes what it saw. The invariant `IInv ==
  TypeOK /\ Control` states who holds the mutex at which step and what is still true of the queue
  there; `NoLostWakeup` needs the step at which the kthread has enqueued and not yet woken.
  `NothingLost` (`MessagesKept`) rests on two more invariants: `Owners`, every slot is free, in
  one queue at one place, or in the hands of the kthread or of one reader; and `Messages`, every
  message that arrived is in one place, with the order in the FIFO of the NIC and in
  the queues that of arrival. With `Owners`, each step is one of `SlotQueues` or leaves its
  variables alone (`SlotProtocol`).
- **`RdmaTxProofs`**: `TypeCorrect`, `IdsUnique`, `SlotsKept`, `SyncAnswered`, `Answers`,
  `Implementation`. The invariant says who owns the mutex and an id at each step (`Once`: a
  request is in the TX FIFO, at the network, answered in the RX FIFO or with the kthread, and
  only once), and `BookInv` keeps the books of each id: who has it, which request it was given
  to, how its status, its `ack_waiting` and the step of its caller fit together. From it, an
  id is not given out while a request carries it (`IdsUnique`), what is not accounted for was lost
  by a signal (`SlotsKept`), and a synchronous call that succeeds was answered
  (`SyncAnswered`). For tokens (`TokenInv`) the counter of an id is above every token's number
  from that id that was answered and not above the others, so a check reports the truth, as long
  as the counter does not come round: `Answers` has the hypothesis `MaxReqs < CounterMod`, fewer
  calls than the 2^32 values of `msg_id_counter`. `Implementation`: the phases of the
  requests are those of `RdmaService`, and each step is one of the service or a stutter.
- **`DeviceProofs`**, `PortBind`: `TypeCorrect`, `PortsExclusive`, `PortTableExact`, `OpenFilesCounted`,
  `PairBound`, assuming `Shared = FALSE`: no device is used by two threads at once. `IInv ==
  TypeOK /\ Control /\ Safe`, where `Control` relates the step of every call to the files it has
  opened or bound so far; ports that were cleared in the table and are not yet reset in
  the file are counted on the way.
- **`LongTxProofs`**: `TypeCorrect`, `SlotsHaveOneOwner`, `PayloadsStable`, `ImpossibleBranch`,
  `WakeupsSuffice`. `IInv == TypeOK /\ OneOwner /\ Payloads /\ Control`: the phase of a
  request in the service and the step of its sender determine the owner of a buffer, and the
  owner is the only one that writes it.
- **`QueueProofs`**, `RawTx`: `RawTypeCorrect`, `PacketsAreWhole`. The thread between its test of
  the space and the writing of the length has the mutex, so nobody else adds words, the NIC only
  removes them, and `Progress` holds: what is left to write still fits. `RoomFits` is the
  arithmetic behind it: a number of free locations, of 1, 2, 4 or 8 bytes, that is at least the
  bytes of header and payload leaves room for the words, although the last word is filled up and
  the register rounds down. `Numbered` relates the counter to the ids of the sender and of
  the last word. `CutInv` is `CutByLengths` with a witness: each step gives the new places from
  the old ones (one more at the end, one less at the beginning, all moved by one), and keeps that
  every complete packet has a word left in the FIFO.
- **`LibraryProofs`**, `Routing`: `TypeCorrect`, `CopiesAreCurrent`, `CountsBounded`. The lemmas on
  conversions (`LowestBit`, `RoundTrip`, `HopRange`) say that what is written for a mask leads to
  its first interface, and so does the mask that is read from any register. `IInv` adds to the properties what each ioctl between its
  register access and its store knows (`Fresh`: what it will store is in the register, unless it
  was overtaken), and how far a count is (`Count`: between the nodes below the loop index that
  were routed throughout and those that were routed at some time).
- **`UserRdmaProofs`**: `TokensAreExact`, `WaitsComplete`, `WaitsNotInVain`. `IInv == Types /\
  Requests /\ AllKnown /\ Places`: a request in a slot and its token describe each other, a
  pending token without its request in the slot is older than the slot's counter, and the check
  loop has counted the acked tokens below its index and missed none that was answered before it
  began. That the loop of `axiom_rdma_wait` finds a pending token when not all are acked
  (`PendingFound`) is a counting argument on finite sets.
- **`LibraryProofs`**, `UserMsg`: `MsgTypeCorrect`, `SleepsJustified`, `SizesDecide`,
  `ErrorsHaveReasons`. `MsgInv` says that the queues hold only what the prepare functions let
  pass (`Queued`, `Accepted`), that a call's arguments are kept until it returns (`Argument`),
  that one begun without blocking sleeps only if the flags were unset meanwhile (`Unblocked`), that
  poll has registered for each queue it found empty before it looked, so that what arrives later
  wakes it (`Registered`), and that the loop over `recv_fds` finds a file that poll reported
  (`Scanning`), if no other thread overwrites the results. `SizesDecide` has no
  hypothesis on the sizes: cutting one makes it no larger, so that what is refused was too large
  (`MsgRefused`).
- **`LongRxProofs`**: `TypeCorrect`, `PayloadsIntact`, `LeaksAreKnown`, `SlotsSuffice`,
  `WakeupsKept`. `IInv == TypeOK /\ Messages /\ SlotsOK /\ Straight /\ Control /\ EnoughSlots`.
  `Messages` numbers the descriptors, so that no two undecided ones have one id
  (`Numbered`), and ties the buffer of each to its payload; the buffer that a reader is about
  to give back is that of a decided message (`Handed`), hence not one that another still needs.
  `SlotsSuffice` is a pigeonhole argument (`SlotLeft`): a slot in use is that of a message with a
  buffer of its own, or its reader still has that buffer, because it frees the slot first; with
  the message that asks for a slot there would be more buffers than the NIC has. The number of
  slots is assumed to be at least that of buffers, as the constants of the driver have it.

- **`DeviceProofs`**, `Lifecycle`: `LifeTypeCorrect`, `HandlerAlwaysSafe`, `KthreadsAlwaysSafe`,
  `ClientsAlwaysSafe`, `AlwaysBalanced`, for any number of open files and any set of steps that may
  fail. What the code has to get right is an order: each label must release what was acquired
  before its `goto`, and nobody may still use what is released. Two numberings make this a fact
  about numbers. `ProbeNum` counts the steps of loading and probing through all nested functions
  (`ProbeNumbered`), and `Rank` is one order of all releases that every error path, the rollback of
  sysfs, the removal and the unloading turn out to follow (`Order`), so that a pending list
  is its set of releases (`ErrorOps`, `RemoveOps`, `LoadErrorOps`). The invariant `LifeInv`
  then bounds what is held from both sides: `AtMost`, nothing is held that is neither behind the
  step of the thread nor given back by a pending release, and `AtLeast`, everything behind the step
  is held, and so is what a pending release gives back without a test. A failing step turns the
  first kind of bound into the second: what was passed is what the list gives back
  (`Balanced`). `Runners` and `Sysfs` say who may be running: a kthread, a handler and a reader only
  while the resource that ends them is held. Since `kthread_stop`, `free_irq` and the removal of a
  folder come before the release of what these use in `Rank`, and wait, the handler, the kthreads
  and the clients find it (`ReleaseOthers`).

**Only model-checked**: the liveness properties (`NothingStuck`, `WaitsEnd`, `Answered`,
`SenderWoken`, `LoaderEnds`), which the prover does not handle. Every invariant of every run, and
every refinement, is also proved, those of `PortBind` for devices that are not shared, and
`AnswersExact` under the hypothesis of `Answers` named there.

## 6. Not modelled

- The platform files of x86 and of the emulated NIC: other registers, the same paths.
- Formatting and parsing of the numbers in sysfs files.
- POLLOUT and `axiomnet_poll_rdma`; failures to copy the arguments of an ioctl.
- Read-only calls (`*_avail`, status, statistics, interface information), debug output.
- Memory mapping: the state is the kernel's.
- `evi_alloc.h` is not used in this repository; the pseudo code under `axiom_docs` is
  documentation.

## 7. Plan

Done: the modules above, in the order queue manager, RAW receive, RDMA, ports, LONG,
RAW transmit, library, routing, lifecycle.

Next, models:
1. POLLOUT and `axiomnet_poll_rdma`, as steps of `UserMsg` and `UserRdma`.
2. `evi_alloc.h` as an algorithm against a reference definition.

Their invariants would join `LibraryProofs` and `UserRdmaProofs`, and `QueueProofs`.
