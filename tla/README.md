# Verification of libpop / BoogiePop

TLA+ models of the library `lib/`, the kernel module `kmod/` and the traffic and
benchmark programs `apps/`, with TLC configurations and TLAPS proofs.  Paths
below are relative to the repository's source tree.

## The system

BoogiePop lets PCIe devices exchange data through *pop memory*: p2pmem of a PCI
device, or hugepages.

| part | state | operations | what is hard |
|---|---|---|---|
| kernel module, `kmod/boogiepop.c` | `dev_list` of `pop_dev`, misc device nodes, p2pmem pools, references on `pci_dev`, open files | ioctls REG and UNREG, open, mmap, fault, release, module load and unload | ioctls that interleave without a lock, one of several steps failing, files that outlive a registration |
| pop memory, `lib/libpop.c` | `pop_mem_t`, descriptors, mapping | `pop_mem_init`, `pop_mem_exit`, `pop_virt_to_phys` | ioctl, open and mmap are not atomic; error paths; two users of a device |
| page allocator, `lib/libpop.c` | `alloced_pages`, `mutex`, `pop_buf_t` | `pop_buf_alloc`, `pop_buf_free` | concurrent callers, the limit of the region, rounding |
| buffer cursors, `lib/libpop.c`, `lib/pop_netmap.c` | `offset`, `length` | put, trim, pull, push, len, `pop_nm_set_buf` | long call sequences, unsigned arithmetic |
| nvgen, `apps/nvgen.c` | ring of slots between an unvme and a netmap thread | read into slots, send slots, cancel, join | two threads and two devices on one ring, timeouts, termination |
| generator, `apps/generator.c` | netmap tx ring, batches of reads; ports, threads and counters | read, poll, fill, sync; open, spawn, count, join, close | a tx ring that is almost full, late completions; a set-up that fails half-way, rings shared by the ports |
| store, `apps/store.c`, `apps/pkt_desc.h` | packets on the NVMe device | write batches of packets | layout written with one batch and block size, read with another |
| bench-nvme, `apps/bench-nvme.c` | threads with batches of commands, counters | issue, poll, report, join | unlocked counters, the order of shut-down |
| nmgen, `apps/nmgen.c` | netmap rings, cancel flags, IP headers | send, receive, cancel, join | shut-down while packets flow, carries of the checksum |
| rx ring on pop memory, `lib/pop_netmap.c` | rx ring, descriptors of the NIC | `pop_nm_rxring_init` | packets that arrive while the descriptors are replaced, failing syncs |
| block walk, the three NVMe programs | `lba` and its range per thread | `next_lba` | the end of a range |

They interact as follows: a program calls `pop_mem_init`, which registers the
device with the module and maps it; its threads allocate buffers from the
region (receivers all of an rx ring at once), give their addresses to UNVMe
commands and to netmap slots, and at the end `main` joins the threads and calls `pop_mem_exit`.  UNVMe and netmap are
submodules without source here; they are modelled from how the programs use
them and marked external.

## Modules

| module | models | notes |
|---|---|---|
| `PageAllocator` | what the allocator promises | atomic bump allocator: a call is granted the next pages or refused; pages never come back |
| `PopBufAlloc` | `pop_buf_alloc`, `pop_buf_free` | one action per step between lock and unlock; the rounding loop turns one by one; refines `PageAllocator` |
| `PopBufAllocProofs` | | proofs for `PopBufAlloc` |
| `PopBuf` | the cursor operations and `pop_nm_set_buf` | `size_t` modulo `WORD`, slot length modulo `SLOT_WORD` |
| `PopMem` | `pop_mem_init`, `pop_mem_exit`, `virt_to_phys`, `pop_virt_to_phys` | one action per system call; the registry as the library sees it |
| `Boogiepop`, `BoogiepopProofs`, `BoogiepopPoolProofs` | the kernel module | tasks whose ioctls interleave, one action per step that other tasks or files can observe |
| `NvgenRing`, `NvgenRingProofs` | nvgen, tx mode, one CPU | `U...` actions: unvme thread, `N...`: netmap thread |
| `LbaWalk` | thread ranges and `next_lba` of bench-nvme, nvgen, generator | program, walk and length of a command are chosen in `Init` |
| `PacketStore` | store, and what the commands of generator read | extends `LbaWalk`: store writes, then the walk reads |
| `Generator` | `thread_body` of generator and the end of `main` | with the user and the kernel side of the netmap ring |
| `GeneratorMain`, `GeneratorMainProofs` | `main`, `count_thread` and all threads of generator | an iteration of a thread is reduced to the steps the others can tell apart |
| `BenchNvme` | bench-nvme | threads, reporter, signal, `main` |
| `LibpopProofs` | | proofs for `PopMem`, `PopBuf` and `BenchNvme` |
| `GeneratorProofs` | | proofs for `LbaWalk`, `Generator` and `PacketStore` |
| `RxRing` | an rx ring, its driver and its NIC, the steps of `pop_nm_rxring_init` | functions on ring records, used by `Nmgen` |
| `InetChecksum` | `checksum` and the IP header of nmgen | functions on sequences of bytes in a small base |
| `Nmgen`, `NmgenProofs` | nmgen, senders or receivers (`tx`); the receiver of nvgen | threads, `count_thread`, signal, ports, `main`, composed with `RxRing` and `InetChecksum` |
| `MC...` | | constants for TLC |

Actions carry the names of the functions they model, or of the step of it
(`CheckRoom`, `RegMisc`, `InitOpenDev`).  `PROJECT.json` gives the source lines
of every definition.  A definition introduced by "Mutant of" is not part of a
specification; it is a plausible mistake that the named property detects when it
takes the place of the definition it changes.

### Abstractions

- Memory is counted in pages, blocks and slots; packet contents are left out
  except for whether a slot of nvgen holds an unsent packet, where the packets of
  store begin, and the words of nmgen's IP header.
- Command-line options and builds that matter are variables that `Init` chooses
  and nothing changes: `opt` of `LbaWalk`, `geo` of `PacketStore`, `fake` of
  `Generator`, `ncpus` of `GeneratorMain`, `tx` of `Nmgen`, `seq` and `reload` of
  `NvgenRing`.  A run covers all of them.
- Loads and stores of shared variables are sequentially consistent and take
  effect in program order.  The one departure is `reload` of `NvgenRing`:
  `th->cancel` is a plain `int`, and in the waiting loops nothing forces the
  compiler to load it again after `continue`.  gcc 12 with the flags of
  `apps/Makefile` (`-O1`) does not, while it does load head and tail.
  `reload = FALSE` is that build, `TRUE` one that loads it.
- `unvme_apoll` may give a command up at any time (the code waits a minute).  A
  command that was given up moves to `late` and completes whenever the device
  likes; properties about commands on their way speak of the others, since the
  programs do nothing about a timeout.
- `faulted` (`Boogiepop`), `wrapped` and `expired` (`NvgenRing`), `lap` and `err`
  of a thread of `Nmgen` and `shown` (`GeneratorMain`) are histories: no action is
  guarded by them, properties use them to say how far a promise goes.
- The ioctls of `Boogiepop` take no lock.  Some of their interleavings are
  undefined behaviour: a change of `dev_list` during another one, or during a
  search in it (by an ioctl or an open); two UNREGs that have found the same
  `pop_dev`; and an UNREG that frees the `pop_dev` whose size a REG is about to
  read.  A search is one step, a change of the list an interval: the two overlap
  when the search falls into the interval.  The model reaches these states, sets
  `raced` and goes no further; the properties hold in all behaviours up to that
  point, among them every interleaving in which two REGs both find the device
  unregistered.
- A freed `pop_dev` behind an open file may hold anything: such a file is `Stale`,
  can only be closed, and the properties about files end at the `kfree`.
- What NIOCRXSYNC does to the descriptors is taken from the comment in
  `pop_nm_rxring_init`: a descriptor gets the address of its slot when the sync
  finds that head has passed the slot.
- `nm_open` of the first port of generator maps the rings, the others are opened
  with `NM_OPEN_NO_MMAP` and share the mapping, and `nm_close` of the first one
  unmaps it.
- In `PopMem` the REG ioctl may return 0 without a registration, as the module
  does.  `virt_to_phys` finds the page of the first address, or fails in any of
  its calls; `pop_mem_init` then goes on with the physical address 0.
- A thread of generator reads its tx ring through the mapping from its first
  statement on, before it allocates buffers; `Alloc` of `GeneratorMain` is that
  part of it.
- Block numbers are `unsigned long` and wide enough, except that the unvme thread
  of nvgen assigns them to an `unsigned int`: `lba_var` takes them modulo
  `LBA_WORD`.  `rand()` is any number, as if `RAND_MAX` were larger than a range.
- A TXSYNC may fail wherever its result is looked at; a failing one in the loops
  that drain the ring leaves the ring as it was.

## Runs

Eleven runs must pass: they check the properties below on all reachable states of
the instance.

| run | instance | distinct states | shows |
|---|---|---|---|
| `alloc` | 2 threads, 3 pages, 2 structures, sizes 0 to more than the region, with fairness | 176,939 | `BuffersDisjoint`, `RoundsUp`, `ImplementsPageAllocator`, `MutexReleased` |
| `popbuf` | buffer of 6 bytes, lengths 0 to 7 | 1,568 | `DataInside`, `OneEndMoves`, `SlotInside` |
| `boogiepop` | 2 tasks, 2 devices with p2pmem of 2 pages, 1 without, 2 structures, 1 file, everything may fail | 1,596,766 | `PoolAccounting`, `NodesMatchList`, `ListedPinned`, `FaultsInside`, `UnloadClean` |
| `popmem` | 2 handles, 1 device and hugepages, 3 descriptors | 252,938 | `PagesMapped`, `FailedInitClosesAll` |
| `generator_main` | 1 to 3 threads, memory for 1 to 3 of them, 1 packet of each, with fairness | 144,124 | `ReleasedAtRest`, `MappedUntilJoin`, `RatesAddUp`, `SignalEnds` |
| `nvgen` | 8 slots, tx ring of 5, batches of 3 packets and 2 blocks, no read given up | 5,683,850 | `DmaInBuffer`, `TxRingHolds`, `NoDmaAfterRelease`, `FirstLapSendsLoaded` |
| `nvgen_stop` | 4 slots, tx ring of 4, one block at a time, one read given up, with fairness | 297,764 | `CancelEndsProgram` |
| `lba` | 2 threads, blocks 2 to 19, for nvgen also 30 with an `unsigned int` of 20 values, commands of 1 to 4 blocks, blocks of half a packet or two packets, batches of 1 to 4 | 1,200,621 | `StartInRange`, `CommandInRange`, `ThreadsApart`, `StoreCoversRange`, `ReadsPackets` |
| `generator` | ring of 8, 3 batches of 2, with fairness | 425,420 | `SpaceIsFree`, `FillFits`, `NoReadAfterClose`, `SignalEnds` |
| `bench` | 2 threads, batches of 2, with fairness | 141,460 | `BufferIdleAtIssue`, `NoCommandAfterRelease`, `IntervalNotNegative`, `SignalEnds` |
| `nmgen` | 2 threads, rx rings of 3, tx rings of 4, batches of 2, memory for 2 pages, headers of 4 words, bytes in base 3, with fairness | 617,788 | `MemoryOutlivesThreads`, `HeaderVerifies`, `RxTakesFromPop`, `SignalEnds` |

One run expects a violation and shows a disagreement between the code and a
comment, quoted in the findings of `PROJECT.json`: `nvgen_loaded`, `SendsLoaded`.
Once the head has wrapped, the unsigned difference of `ring_read_avail` is huge,
and slots that nothing was read into are sent.

The types of the variables are stated as `TypeOK` in the components' modules.  They
hold in the runs' instances, say little about the code, and are not listed as
properties.

### Other disagreements

The modules state more of what comments, headers and usage texts say.  The
following does not hold of the code; put in place of the properties of the
named run's cfg (with its SYMMETRY line removed) it gives a counterexample.

| property | run | what the code does |
|---|---|---|
| `SlotIsData` | `popbuf` | `pop_buf_len` subtracts the offset from a length that does not include it: a slot is too short after a pull, and wraps around when more was pulled than is left.  `SlotInside` is what remains, and `SlotIsDataTheorem` for an offset of 0 |
| `RegSuccessMeansRegistered` | `boogiepop` | a failed registration makes the ioctl return 0 |
| `ReturnsAllocatedSize` | `boogiepop`, with `INT = 8` and `Tasks = {t1}` | the allocated size is returned as an `int`.  With `INT = 64` and one task it holds |
| `RegionStaysAllocated` | `popmem` | `pop_mem_exit` unregisters the device although another `pop_mem_t` uses it; `test/test_mem.c:92` has two at once.  With one at a time it holds (`RegionStaysTheorem`) |
| `ExitReturnsZero` | `popmem` | `pop_mem_exit` and the hugepage count leave descriptors open until an exit cannot open the module; an exit also fails when another `pop_mem_t` has unregistered the device.  Without either it holds (`ExitReturnsZeroTheorem`) |
| `ZeroMeansAll` | `popmem` | size 0 on hugepages maps a quarter of them |
| `PaddrIsPhysical` | `popmem` | physical addresses are computed as if hugepages were contiguous, and from 0 on when `virt_to_phys` has failed, which `pop_mem_init` does not notice.  Once `virt_to_phys` has succeeded it holds on registered devices and within one hugepage (`AddressesRightTheorem`) |
| `VirtToPhysCovers` | `popmem` | `pop_virt_to_phys` refuses the end of a region that was rounded up, which only hugepages are; it translates the rest (`AddressesRightTheorem`) |
| `QueueKeepsPackets` | `nvgen` | `ring_write_avail` takes a full ring for an empty one |
| `MemoryOutlivesThreads` | `nvgen` | the second `pthread_create` overwrites the netmap thread's tid, and it is not joined |
| `AllInRange` | `lba` | sequential walks of nvgen (a longer command than the one before) and generator (the last one of a lap) cross the end of the range; a thread of nvgen whose range ("LBA range for this thread", `nvgen.c:103`) lies beyond an `unsigned int` reads elsewhere |
| `StartLbaRespected` | `lba` | generator's ranges start at 0 whatever the start block is |
| `BuildsInBuffer` | `lba` | store rounds the blocks of a batch down, to 0 if a block is larger: unless the batch fills its blocks the packets are built past the end of the buffer |
| `ReadCoversBatch` | `lba` | so does generator, and the read does not cover all slots of such a batch |
| `UsesRest` | `generator` | when the space is a multiple of the batch and holds not all batches, one batch too many is filled |
| `PollsIssued` | `generator` | with fake packets, commands that were never issued are polled; without them it holds (`PollsIssuedTheorem`) |
| `RingMapped` | `generator_main` | `main` closes port 0, and with it the rings of all ports, before the other threads are joined |
| `RxInitReturns` | `nmgen` | `pop_nm_rxring_init` uses a NULL buffer before it tests for it |

Conditions in properties that hold mark the same kind of boundary.

- `StartInRange`, `CommandInRange` and `ThreadsApart` speak of the threads whose
  variable holds all of their range (`HoldsRange`): all of bench-nvme and
  generator, and those of nvgen whose range ends at or below 2^32.  The last two
  leave out `CrossesEnd`.
- `DmaInBuffer` leaves out the sequential walk, whose one command over the end of
  the ring runs past the buffer.
- `CancelEndsProgram` leaves out builds that do not load `cancel` again, where a
  waiting thread never sees it.
- `FirstLapSendsLoaded` leaves out what comes after a read was given up, since its
  slots are published all the same.
- `ListedPinned` leaves out devices for which `copy_to_user` failed after the
  registration, where the ioctl gives the reference back and the device stays
  listed.
- `FaultsInside` ends at the `kfree` of the `pop_dev`, and all properties of
  `Boogiepop` at the first undefined interleaving.
- `NoDmaAfterRelease`, `NoCommandAfterRelease`, `NoReadAfterClose` and
  `BufferIdleAtIssue` leave out commands that were given up.
- `MappedUntilJoin` ends when the thread of CPU 0 is joined (`RingMapped` above).
- `RxTakesFromPop` leaves out rings whose lap was cut short: the first sync or the
  `malloc` failed, or the ring was full before it, so that the flush finds it empty
  and the last descriptor keeps its buffer.
- `ReadsPackets` leaves out walks that do not go from packet to packet: blocks
  smaller than a packet with a random walk, or with a range that starts inside a
  packet.

### Bounds

Two threads, tasks or handles are enough for every pairwise race; `generator_main`
has three, so that a thread can be late while others are joined.  Regions, rings
and pools have two to eight entries:
each is larger than one request or batch and smaller than two or three, so that
"fits", "fits in part" and "full" all occur, and wrap-around happens within a
few steps.  Counters that grow for ever stop at a named bound: `MaxRefs` in
`Boogiepop`, `MaxRegs` in `PopMem`, `MaxCount` in `BenchNvme`, `MaxPkts` in
`GeneratorMain`, `MaxLate` in
`NvgenRing` (reads that were given up and are still on their way).  nvgen has two
instances: one with room for odd tails and several reads at once, and a smaller
one in which reads are given up and liveness is checked.  In `lba` nvgen has an
end at which both threads' ranges fit into its `unsigned int`, and one at which
only the first one's does; the range is no multiple of a command, and a block is half a packet or two packets, so that
batches fill their blocks in some cases and not in others.  Bytes of the
IP header have base 3 instead of 256, which gives one and two carries in every
position.  `PopMem` may stop
(failed exits leave a `pop_mem_t` that nobody can use), so deadlock is not
checked there; in the programs the end is a state that stutters.

Some preconditions come from arithmetic and are named assumptions:
`SizesAssumption` (a size above `WORD - PAGE_SIZE` never leaves the rounding
loop of `pop_buf_alloc`) and `LensAssumption` (the sum in `pop_buf_put` does not
wrap).  `RangeAssumption` says that a command is shorter than a thread's range;
otherwise `rand() % 0` is evaluated.

### Fairness

Weak fairness of each thread's body and of `main`: the scheduler runs them.  The
devices are not assumed to complete commands in `Generator` and `BenchNvme`,
since `unvme_apoll` returns after a minute in any case.  In `NvgenRing` they are,
because the bound `MaxLate` keeps the model from giving up any number of reads.
In `NvgenRing` and `Nmgen` the NIC transmits what it was given, since both
programs drain their rings before they end, and the TXSYNCs of the loops that
drain do not fail for ever: a loop ends with the ring empty, whatever the syncs
return, and a sync that fails moves nothing.  (A failing one is a step that
changes nothing, so weak fairness of the thread says just this.) `Generator` needs no such
assumption.  In `GeneratorMain` an iteration of a thread always comes to an end,
as `unvme_apoll` has a timeout, and so does the sleep of `count_thread`.  Signals,
cancellation by a timeout and arriving packets are never
assumed.  In `PopBufAlloc` each thread goes on while it holds the mutex.

## Proofs

Proved by TLAPS for all values of the constants that satisfy the named
assumptions:

- `PopBufAllocProofs`.  `BuffersDisjoint` is not inductive: it needs that only the
  owner of the mutex is between lock and unlock, that every buffer lies below
  `alloced_pages`, except the one whose structure is filled in but whose pages
  are not yet taken (it starts exactly there), and that buffers are ordered.
  `AllocInv` says this; `TypeAndAlloc` proves `TypeOK /\ AllocInv` and
  `BuffersDisjointTheorem` follows.  `RoundsUpTheorem` adds an invariant on the
  rounding loop.  `Refinement` shows that a step of `PopBufAlloc` is a step of
  `PageAllocator` or a stutter: a grant is `Bump`, a refusal the failing check or
  `malloc`.
- `LibpopProofs`, cursors.  `DataInsideTheorem`, `OneEndMovesTheorem`,
  `SlotInsideTheorem`: with `LensAssumption` no operation wraps, each of the four
  moves one end, and a slot filled while the offset is at most the length stays
  within the data.  `SlotIsDataTheorem`: with offset 0 it is all of the data.
- `LibpopProofs`, pop memory.  `PagesMappedTheorem` and
  `FailedInitClosesAllTheorem`, for any number of `pop_mem_t`, devices, sizes and
  limits.  Other threads register and unregister between any two system calls of
  `pop_mem_init`.  `RegStep` says all that such a step can do to a device: end its
  registration, or make one with a number that no mapping has.  So the fact that
  the mapped registration has the pages of the mapping (`MapInv`) survives every
  step of the others.  `FdsInv` counts the descriptors that are open at each step.
  Three more theorems say how far promises of `libpop.h` go that do not hold in
  general.  `RegionStaysTheorem` and `ExitReturnsZeroTheorem` have hypotheses on
  the caller, as `[]OnePerDevice` (from init to exit a device has one `pop_mem_t`)
  and `[]CanOpen`.  Their invariant is `Held`: from the open of the device file to
  the UNREG ioctl the registration of the file is the current one.  A step of
  another thread touches no registration but that of its own device (`HeldStep`).
  `AddressesRightTheorem` has no hypothesis on the caller; its conditions are on
  the state, that `virt_to_phys` has succeeded, and that the device is still
  registered or the region lies in one hugepage.  Then the address computed from
  the first page is the physical one, for every page and for every byte.
- `LibpopProofs`, bench-nvme.  `NoCommandAfterReleaseTheorem`,
  `BufferIdleAtIssueTheorem` and `IntervalNotNegativeTheorem`, for any threads and
  batch.  `CmdInv` says that the commands of a thread are those its two loops have
  given and not yet polled.  The third one compares two sums of counters that are
  read one by one while the threads count.  `SumInv` keeps a witness `P`: the
  prefixes of the first sum, each thread's share not above its counter.  The
  second sum has passed `P[n]` when it has read `n` threads.
- `GeneratorProofs`, walk.  `StartInRangeTheorem`, `CommandInRangeTheorem` and
  `ThreadsApartTheorem`, for any number of threads, any ranges and lengths that
  satisfy `RangeAssumption`, any `LBA_WORD`, and all programs and walks at once.
  They speak of each thread that can hold its range (`HoldsRange`); what the
  other threads of nvgen do is left open.  The inductive
  invariant adds `RoomForCommand`: where a command starts, one more fits.  The
  sequential walks of nvgen and generator (`CrossesEnd`) only satisfy the first
  one; `AllInRange` above shows that they have to be left out of the others.
- `GeneratorProofs`, thread.  `SpaceIsFreeTheorem`, `FillFitsTheorem` and
  `NoReadAfterCloseTheorem`, for any ring and batches.  `RingOrder`: going round
  from the slot that is transmitted next one comes to the head the kernel knows,
  to cur and to tail, so that the space after cur is not larger than the one after
  head.  `head` itself may leave this order, where an iteration filled more than its
  space; the next sync puts it back.  `FillInv` bounds the packets of the commands
  polled so far, and `OutInv` is what `CmdInv` is for bench-nvme.
  `PollsIssuedTheorem`, without fake packets: the loop that reads has assigned all
  the iods that the loop that polls goes over (`IssuedInv`).
- `GeneratorProofs`, store.  `StoreCoversRangeTheorem` and `ReadsPacketsTheorem`,
  for any range, batches and block sizes.  `StoreInv`: up to its lba store has left
  packets one after the other, from the start of its range.  `WalkInv`: where a
  packet is several blocks, the sequential walk goes from packet to packet, if it
  starts at one.  `StoreAssumption` has that blocks and packets divide one another
  one way or the other: the packet's 2048 bytes and the block sizes of NVMe are
  powers of two.
- `BoogiepopProofs`.  `FaultsInsideTheorem` and `NodesMatchListTheorem`, for any
  devices, tasks and files.  Between two steps of an ioctl neither property is
  inductive.  The invariant follows what each task has in hand: it is allocated,
  no two tasks have the same (`TaskInv`), listed structures are allocated and
  listed once (`ListInv`), a node exists from its registration to its removal,
  and names are unique because `misc_register` refuses a second one (`MiscInv`).
  `FileInv` bounds the mapping and the page of a file by the size of its
  `pop_dev`.  The first three speak of states in which no undefined
  interleaving has happened.
- `BoogiepopPoolProofs`.  `PoolAccountingTheorem`, `UnloadCleanTheorem` and
  `ListedPinnedTheorem`, for any devices, tasks and loads.  The first two need that
  each page of a pool is accounted for once: by the task that has allocated and
  not yet listed it, or by a listed `pop_dev` (`Pool`).  A sum over tasks would be
  an induction over data, so a sum is the number of pairs of a task and a number
  below its pages; `SumChange` says what one task's step does to it.
  `ListedPinnedTheorem` counts references the same way: one for each task inside an
  ioctl, and one for each listed `pop_dev` whose ioctl has returned (`Pinned`).  It
  has a hypothesis, that the pool of a device is less than an `int` can count.
  Without it the size that `pop_register_p2pmem` returns is negative, the ioctl
  takes it for an error and puts the reference of a listed `pop_dev`.
- `NvgenRingProofs`.  `DmaInBufferTheorem`, `TxRingHoldsTheorem` and
  `NoDmaAfterReleaseTheorem`, for any even number of slots, tx ring and batches.
  `Aligned`: the head stays even when it goes round, so that a block of two slots
  never straddles the end.  `Fits`: what is left of a batch fits behind what is on
  the tx ring.  `Polled` and `Joined`: a read not given up is one the loop has
  still to poll, and `main` joins the thread that polls.
  `FirstLapSendsLoadedTheorem`, for the same rings.  `LapInv` speaks of the states
  before the head has gone round: `Sender`, the slots from the one to be sent next
  up to the head are loaded, and the netmap thread has counted no more than those;
  `Reader`, counted as if the ring had no end, the commands stay less than one
  round ahead of the tail, and the slots from the head to where the next command
  goes are loaded or on their way.  A command then lies from the head on, or, past
  the end of the ring, before the tail: it meets no slot that is still to be sent.
- `GeneratorMainProofs`.  `ReleasedAtRestTheorem`, `MappedUntilJoinTheorem` and
  `RatesAddUpTheorem`, for
  any number of CPUs.  The invariant says for each place of `main` which ports are
  open, which threads may run and whether `count_thread` has ended, also after a
  port could not be opened.  `RatesAddUpTheorem`: every packet that a printed rate
  has counted is a pair of a CPU and a number below its counter, and no pair is
  counted twice (`Printed`), because an interval starts where the counters were
  read after the last one ended.
- `NmgenProofs`.  `MemoryOutlivesThreadsTheorem` and `RxTakesFromPopTheorem`, for any
  threads, ring sizes and arrivals.  The second needs the order of the four
  indices of a ring seen from the kernel's (`Ordered`), and that after the lap at
  most the last descriptor has a buffer of netmap, which the NIC does not reach
  before the next sync replaces it (`LastOnly`).
  `AllVerifyTheorem` and `HeaderVerifiesTheorem`, for headers of any length and bytes
  of any size.  `checksum` adds the words one by one with a conditional
  subtraction, and what is proved of it is an induction over the words (`UpTo`, from
  the least element of a set of numbers): the running sum stays a word of 16 bits
  and is congruent modulo 0xFFFF to the plain sum (`ChecksumLoop`, `TotalLoop`).
  The header's own word is 0 while the sum is taken.  Storing the complement there
  adds it to the plain sum (`TotalGrows`), which becomes a multiple of 0xFFFF.

Only model-checked: liveness (`MutexReleased`, `CancelEndsProgram`, and
`SignalEnds` of four programs), which is out of the prover's reach.  Every other
property of a passing run is proved.

## Not modelled

- `put_packet.c` (writes one packet, once), `mb.c` (a timing loop without shared
  state), the tools and tests, the logging macros.
- `pop_nm_rxring_exit`, which only a test calls.
- Option parsing, parsing of slot names, hexdumps, printed statistics other than
  the sums behind generator's and bench-nvme's rates.
- Fields of the packets other than the IP header of nmgen; the contents of
  generator's fake packet.
- What happens after tasks have met in `dev_list` or on one `pop_dev`: the code
  leaves it undefined.
- What the NIC sends when a buffer is read into again before it was transmitted.

Read in the code, and outside what the properties speak of: each UNREG and each
REG of a registered device leaves a reference on the `pci_dev`; a failing
`misc_register` leaves the `pop_dev` allocated; a failing open or mmap in
`pop_mem_init` leaves the device registered; `2097152 * (nr_pages / 4)` overflows
an `int` from 4096 hugepages on; nvgen ignores a failing
`nvgen_init_thread_body`, and its threads then work on a NULL buffer (`NvgenRing`
starts from threads that have theirs); `bufs[]` of generator has one entry less than its loop
may fill; generator joins threads it never created when `nm_open` fails
(`JoinClose` models that as an error or a crash); a
bench-nvme thread without memory calls `exit(0)` and leaves the device
registered; store does not end when a block is larger than its batch, since it
then writes 0 blocks.
