-------------------------------- MODULE PopMem --------------------------------
(***************************************************************************)
(* lib/libpop.c: pop_mem_init() and pop_mem_exit(), for several pop_mem_t  *)
(* that threads of one process set up and tear down, one step per system   *)
(* call, over the registry of kmod/boogiepop.c.                            *)
(*                                                                         *)
(* The registry is reduced to what the library can see of it between two   *)
(* system calls (module Boogiepop has its inside): a device is registered  *)
(* or not, with a size, and a registration that was freed and made again   *)
(* is another one.  A mapping is never undone: pop_mem_exit() has no       *)
(* munmap().                                                               *)
(***************************************************************************)
EXTENDS Integers, Sequences

CONSTANTS Handles,      \* the pop_mem_t, each used by one thread at a time
          Devs,         \* PCI devices
          HUGE,         \* dev = NULL: hugepages
          Sizes,        \* the size argument, in bytes
          PAGE_SIZE,    \* 1 << PAGE_SHIFT
          HugePages,    \* pages of PAGE_SIZE in a hugepage
          NrHuge,       \* nr_hugepages of the system
          PoolPages,    \* pages of p2pmem of a device
          FdLimit,      \* file descriptors the process may have open
          MaxRegs       \* bound on the registrations made

ASSUME PopMemAssumption ==
    /\ HUGE \notin Devs
    /\ Sizes \subseteq Nat
    /\ {PAGE_SIZE, HugePages} \subseteq Nat \ {0}
    /\ {NrHuge, PoolPages, FdLimit, MaxRegs} \subseteq Nat

VARIABLES reg,   \* reg[d]: the current registration of d, and its pages
          regs,  \* registrations made so far
          nfds,  \* file descriptors open in the process
          mem    \* the pop_mem_t, and where its thread is

memvars == <<reg, regs, nfds, mem>>

None == [id |-> 0, pages |-> 0]

\* pc: "free" before init, "ready" after it, "gone" after a failing exit.
\* arg, size: in bytes; num_pages; id: registration its fd was opened on;
\* fds: descriptors opened for it since its init started, and not closed;
\* frame: frame[i] is the first physical page of the i-th extent of the
\* mapping, a hugepage or the p2pmem of the device; paddr: the physical page of
\* the first page, 0 if it is not known; ret: result of the last call.
Blank == [pc |-> "free", dev |-> HUGE, arg |-> 0, size |-> 0, num_pages |-> 0,
          id |-> 0, fds |-> 0, frame |-> <<>>, paddr |-> 0, ret |-> "none"]

Labels == {"free", "huge", "open", "ioctl", "close", "opendev", "mmap", "phys", "read",
           "ready", "xopen", "xioctl", "xclose", "gone"}

MemTypeOK ==
    /\ \A d \in Devs : reg[d].id \in 0 .. MaxRegs /\ reg[d].pages \in 0 .. PoolPages
    /\ regs \in 0 .. MaxRegs
    /\ nfds \in 0 .. FdLimit
    /\ \A h \in Handles : mem[h].pc \in Labels /\ mem[h].fds \in 0 .. 2

MemInit ==
    /\ reg = [d \in Devs |-> None]
    /\ regs = 0
    /\ nfds = 0
    /\ mem = [h \in Handles |-> Blank]

PagesFor(bytes) == (bytes + PAGE_SIZE - 1) \div PAGE_SIZE
HugesFor(bytes) == (PagesFor(bytes) + HugePages - 1) \div HugePages

Registered(d) == reg[d].id # 0

\* Thread h returns NULL from pop_mem_init().
Fail(h, fds) ==
    mem' = [mem EXCEPT ![h] = [Blank EXCEPT !.ret = "NULL", !.dev = mem[h].dev,
                                            !.fds = fds]]

CanOpen == nfds < FdLimit

------------------------------------------------------------------------------
InitStart(h, dev, bytes) ==
    /\ mem[h].pc = "free"
    /\ mem' = [mem EXCEPT ![h] = [Blank EXCEPT !.dev = dev, !.arg = bytes,
                 !.pc = IF dev = HUGE THEN "huge" ELSE "open"]]
    /\ UNCHANGED <<reg, regs, nfds>>

\* get_nr_hugepages() leaves its descriptor open.
InitHuge(h) ==
    LET size == IF mem[h].arg # 0 THEN mem[h].arg
                ELSE HugePages * PAGE_SIZE * (NrHuge \div 4)
    IN  /\ mem[h].pc = "huge"
        /\ IF CanOpen
           THEN /\ nfds' = nfds + 1
                /\ mem' = [mem EXCEPT ![h].pc = "mmap", ![h].size = size,
                                      ![h].num_pages = PagesFor(size),
                                      ![h].fds = @ + 1]
           ELSE Fail(h, mem[h].fds) /\ UNCHANGED nfds
        /\ UNCHANGED <<reg, regs>>

InitOpen(h) ==
    /\ mem[h].pc = "open"
    /\ IF CanOpen
       THEN /\ nfds' = nfds + 1
            /\ mem' = [mem EXCEPT ![h].pc = "ioctl", ![h].fds = @ + 1]
       ELSE Fail(h, mem[h].fds) /\ UNCHANGED nfds
    /\ UNCHANGED <<reg, regs>>

\* POP_P2PMEM_REG: the device is, or becomes, registered and its size comes
\* back; or nothing is registered and the result is 0 all the same; or the
\* result is an error.
InitIoctl(h) ==
    LET d == mem[h].dev
        n == IF mem[h].arg = 0 THEN PoolPages ELSE PagesFor(mem[h].arg)
    IN  /\ mem[h].pc = "ioctl"
        /\ \/ /\ Registered(d)
              /\ mem' = [mem EXCEPT ![h].pc = "close",
                                    ![h].size = reg[d].pages * PAGE_SIZE]
              /\ UNCHANGED <<reg, regs, nfds>>
           \/ /\ ~Registered(d) /\ n <= PoolPages /\ regs < MaxRegs
              /\ reg' = [reg EXCEPT ![d] = [id |-> regs + 1, pages |-> n]]
              /\ regs' = regs + 1
              /\ mem' = [mem EXCEPT ![h].pc = "close", ![h].size = n * PAGE_SIZE]
              /\ UNCHANGED nfds
           \/ /\ ~Registered(d)
              /\ mem' = [mem EXCEPT ![h].pc = "close", ![h].size = mem[h].arg]
              /\ UNCHANGED <<reg, regs, nfds>>
           \/ /\ Fail(h, mem[h].fds - 1)
              /\ nfds' = nfds - 1
              /\ UNCHANGED <<reg, regs>>

InitClose(h) ==
    /\ mem[h].pc = "close"
    /\ nfds' = nfds - 1
    /\ mem' = [mem EXCEPT ![h].pc = "opendev", ![h].fds = @ - 1]
    /\ UNCHANGED <<reg, regs>>

\* open() of /dev/pop/DEVICE, then size and num_pages of the pop_mem_t.
InitOpenDev(h) ==
    /\ mem[h].pc = "opendev"
    /\ IF CanOpen /\ Registered(mem[h].dev)
       THEN /\ nfds' = nfds + 1
            /\ mem' = [mem EXCEPT ![h].pc = "mmap", ![h].fds = @ + 1,
                                  ![h].id = reg[mem[h].dev].id,
                                  ![h].num_pages = mem[h].size \div PAGE_SIZE]
       ELSE Fail(h, mem[h].fds) /\ UNCHANGED nfds
    /\ UNCHANGED <<reg, regs>>

\* Mutant of MmapOk: the size of the registration is not compared.
MmapOkAlways(h) ==
    /\ mem[h].size > 0
    /\ mem[h].dev = HUGE => HugesFor(mem[h].size) <= NrHuge

\* The kernel can grant the mapping: pop_dev_mmap() compares it with the size
\* of the registration (a freed one may hold any size); enough hugepages.
MmapOk(h) ==
    LET d == mem[h].dev
    IN  /\ mem[h].size > 0
        /\ d # HUGE /\ reg[d].id = mem[h].id =>
              PagesFor(mem[h].size) <= reg[d].pages
        /\ d = HUGE => HugesFor(mem[h].size) <= NrHuge

\* Physical pages of the mapping: one extent of p2pmem, or any hugepages.
Frames(h) ==
    IF mem[h].dev # HUGE THEN {<<1>>}
    ELSE {f \in [1 .. HugesFor(mem[h].size) -> {HugePages * k : k \in 1 .. NrHuge}] :
            \A i, j \in DOMAIN f : f[i] = f[j] => i = j}

\* Mutant of InitMmap: a failing mmap() leaves the device file open.
InitMmapKeepsFd(h) ==
    /\ mem[h].pc = "mmap"
    /\ \/ /\ MmapOk(h)
          /\ \E f \in Frames(h) : mem' = [mem EXCEPT ![h].pc = "phys", ![h].frame = f]
       \/ Fail(h, mem[h].fds)
    /\ UNCHANGED <<reg, regs, nfds>>

InitMmap(h) ==
    /\ mem[h].pc = "mmap"
    /\ \/ /\ MmapOk(h)
          /\ \E f \in Frames(h) : mem' = [mem EXCEPT ![h].pc = "phys", ![h].frame = f]
          /\ UNCHANGED nfds
       \/ /\ mem[h].dev = HUGE
          /\ Fail(h, mem[h].fds) /\ UNCHANGED nfds
       \/ /\ mem[h].dev # HUGE
          /\ Fail(h, mem[h].fds - 1) /\ nfds' = nfds - 1
    /\ UNCHANGED <<reg, regs>>

\* pop_mem_init() returns the pop_mem_t, whatever virt_to_phys() came to.
InitReturn(h, paddr, fds) ==
    mem' = [mem EXCEPT ![h].pc = "ready", ![h].ret = "ok", ![h].paddr = paddr, ![h].fds = fds]

\* virt_to_phys() of the first page: open() of /proc/self/pagemap.
VirtToPhysOpen(h) ==
    /\ mem[h].pc = "phys"
    /\ IF CanOpen
       THEN nfds' = nfds + 1 /\ mem' = [mem EXCEPT ![h].pc = "read", ![h].fds = @ + 1]
       ELSE UNCHANGED nfds /\ InitReturn(h, 0, mem[h].fds)
    /\ UNCHANGED <<reg, regs>>

\* Then lseek(), read() and close(): the page, or 0.
VirtToPhysRead(h) ==
    /\ mem[h].pc = "read"
    /\ \E paddr \in {0, mem[h].frame[1]} : InitReturn(h, paddr, mem[h].fds - 1)
    /\ nfds' = nfds - 1
    /\ UNCHANGED <<reg, regs>>

------------------------------------------------------------------------------
\* pop_mem_exit(): for hugepages only free(mem).
ExitStart(h) ==
    /\ mem[h].pc = "ready"
    /\ mem' = IF mem[h].dev = HUGE
              THEN [mem EXCEPT ![h] = [Blank EXCEPT !.ret = "0"]]
              ELSE [mem EXCEPT ![h].pc = "xopen"]
    /\ UNCHANGED <<reg, regs, nfds>>

ExitOpen(h) ==
    /\ mem[h].pc = "xopen"
    /\ IF CanOpen
       THEN nfds' = nfds + 1 /\ mem' = [mem EXCEPT ![h].pc = "xioctl", ![h].fds = @ + 1]
       ELSE UNCHANGED nfds /\ mem' = [mem EXCEPT ![h].pc = "gone", ![h].ret = "-1"]
    /\ UNCHANGED <<reg, regs>>

\* POP_P2PMEM_UNREG: whoever registered the device, it is unregistered.
ExitIoctl(h) ==
    LET d == mem[h].dev
    IN  /\ mem[h].pc = "xioctl"
        /\ IF Registered(d)
           THEN reg' = [reg EXCEPT ![d] = None] /\ mem' = [mem EXCEPT ![h].pc = "xclose"]
           ELSE UNCHANGED reg /\ mem' = [mem EXCEPT ![h].pc = "gone", ![h].ret = "-1"]
        /\ UNCHANGED <<regs, nfds>>

\* close(mem->fd); the descriptor of /dev/boogiepop stays open.
ExitClose(h) ==
    /\ mem[h].pc = "xclose"
    /\ nfds' = nfds - 1
    /\ mem' = [mem EXCEPT ![h] = [Blank EXCEPT !.ret = "0", !.fds = mem[h].fds - 1]]
    /\ UNCHANGED <<reg, regs>>

Step(h) ==
    \/ \E dev \in Devs \cup {HUGE}, bytes \in Sizes : InitStart(h, dev, bytes)
    \/ InitHuge(h) \/ InitOpen(h) \/ InitIoctl(h) \/ InitClose(h)
    \/ InitOpenDev(h) \/ InitMmap(h) \/ VirtToPhysOpen(h) \/ VirtToPhysRead(h)
    \/ ExitStart(h) \/ ExitOpen(h) \/ ExitIoctl(h) \/ ExitClose(h)

MemNext == \E h \in Handles : Step(h)

MemSpec == MemInit /\ [][MemNext]_memvars

------------------------------------------------------------------------------
Ready(h) == mem[h].pc = "ready"
OnDev(h) == mem[h].dev # HUGE

(***************************************************************************)
(* The pages pop_buf_alloc() will hand out of a pop_mem_t are mapped: they *)
(* lie in the registration the mapping was made on, as long as that is the *)
(* current one, whatever other threads register and unregister between the *)
(* ioctl, the open and the mmap; and in the hugepages of the mapping.      *)
(***************************************************************************)
PagesMapped ==
    \A h \in Handles : Ready(h) =>
        /\ OnDev(h) /\ reg[mem[h].dev].id = mem[h].id =>
              mem[h].num_pages <= reg[mem[h].dev].pages
        /\ ~OnDev(h) => mem[h].num_pages <= HugePages * Len(mem[h].frame)

(***************************************************************************)
(* When pop_mem_init() on a device returns NULL, whatever step failed, it  *)
(* has closed every descriptor it opened.                                  *)
(***************************************************************************)
FailedInitClosesAll ==
    \A h \in Handles : mem[h].ret = "NULL" /\ OnDev(h) => mem[h].fds = 0

(***************************************************************************)
(* libpop.h: mem->size is the "size of allocated region".  The region of a *)
(* pop_mem_t in use stays allocated for it; test_mem.c creates two on one  *)
(* device and exits the first.                                             *)
(***************************************************************************)
RegionStaysAllocated ==
    \A h \in Handles : Ready(h) /\ OnDev(h) => reg[mem[h].dev].id = mem[h].id

(***************************************************************************)
(* test_mem.c asserts that pop_mem_exit() of a pop_mem_t in use returns 0. *)
(***************************************************************************)
ExitReturnsZero == \A h \in Handles : mem[h].ret # "-1"

(***************************************************************************)
(* libpop.h: "size of allocated memory in byte, 0 means all".              *)
(***************************************************************************)
ZeroMeansAll ==
    \A h \in Handles :
        Ready(h) /\ mem[h].arg = 0 /\ ~OnDev(h) =>
            mem[h].size = HugePages * PAGE_SIZE * NrHuge

\* The physical page behind page i of the mapping, and the physical address of
\* the byte at offset o: pages are contiguous in a hugepage, and in a pool.
PhysPage(h, i) ==
    LET n == IF OnDev(h) THEN PoolPages ELSE HugePages
    IN  mem[h].frame[1 + (i \div n)] + (i % n)

PhysByte(h, o) == PhysPage(h, o \div PAGE_SIZE) * PAGE_SIZE + (o % PAGE_SIZE)

(***************************************************************************)
(* libpop.h: pbuf->paddr is the "physical addres of the vaddr".  Page i of *)
(* a pop_mem_t has physical page paddr + i for pop_buf_alloc(), and the    *)
(* page of its own hugepage for the processor.                             *)
(***************************************************************************)
PaddrIsPhysical ==
    \A h \in Handles : Ready(h) =>
        \A i \in 0 .. mem[h].num_pages - 1 : mem[h].paddr + i = PhysPage(h, i)

\* The byte at offset o is "not a pop memory region!" for pop_virt_to_phys().
Refused(h, o) == o < 0 \/ o > mem[h].size

pop_virt_to_phys(h, o) == IF Refused(h, o) THEN 0 ELSE mem[h].paddr * PAGE_SIZE + o

(***************************************************************************)
(* pop_virt_to_phys() "returns physical addr of vaddr in pop memory        *)
(* region": it does so for every byte of the pages pop_buf_alloc() gives   *)
(* out.                                                                    *)
(***************************************************************************)
VirtToPhysCovers ==
    \A h \in Handles : Ready(h) =>
        \A o \in 0 .. mem[h].num_pages * PAGE_SIZE - 1 : ~Refused(h, o)

\* How a caller keeps the first two of these: from pop_mem_init() to the end
\* of pop_mem_exit() a device has one pop_mem_t, and another file can be opened.
InUse(h) == mem[h].pc \notin {"free", "gone"}

OnePerDevice ==
    \A g, h \in Handles :
        g # h /\ InUse(g) /\ InUse(h) /\ OnDev(g) => mem[g].dev # mem[h].dev

(***************************************************************************)
(* What of PaddrIsPhysical and VirtToPhysCovers holds, once virt_to_phys() *)
(* has found the first page: in a region of a device that is registered as *)
(* it was mapped, and in one that fits a hugepage, pop_buf_alloc() gives   *)
(* every page its physical address, and pop_virt_to_phys() every byte up   *)
(* to mem->size; on a device that is every byte of the pages.              *)
(***************************************************************************)
AddressesRight ==
    \A h \in Handles :
        /\ Ready(h) /\ mem[h].paddr # 0
        /\ IF OnDev(h) THEN reg[mem[h].dev].id = mem[h].id
           ELSE mem[h].num_pages <= HugePages
        => /\ \A i \in 0 .. mem[h].num_pages - 1 : mem[h].paddr + i = PhysPage(h, i)
           /\ \A o \in 0 .. mem[h].num_pages * PAGE_SIZE - 1 :
                 OnDev(h) \/ o <= mem[h].size => pop_virt_to_phys(h, o) = PhysByte(h, o)
==============================================================================
