------------------------------ MODULE Boogiepop ------------------------------
(***************************************************************************)
(* kmod/boogiepop.c: the registry of p2pmem devices.                       *)
(*                                                                         *)
(* Tasks issue ioctls on /dev/boogiepop; pop_ioctl() takes no lock, and    *)
(* the steps of the ioctls interleave.  Some of these interleavings are    *)
(* undefined: a change of dev_list during another one or during a search   *)
(* in it, two UNREGs that have found the same pop_dev, and an UNREG that   *)
(* frees the pop_dev a REG is about to read.  The model notes that one of  *)
(* them happened, and goes no further.  Meanwhile other tasks open, map,   *)
(* fault and close the files of registered devices, and the module is      *)
(* unloaded when nobody uses it.                                           *)
(*                                                                         *)
(* External, from the way the module uses them: gen_pool (pci_alloc_p2pmem *)
(* and pci_free_p2pmem, with one allocation per device it never            *)
(* fragments), kmalloc, misc_register/deregister/open, reference counts of *)
(* pci_dev, copy_from_user and copy_to_user.                               *)
(***************************************************************************)
EXTENDS Integers, Sequences, FiniteSets, FiniteSetsExt, Functions

CONSTANTS Devs,        \* PCI devices
          P2pDevs,     \* those for which pci_has_p2pmem() holds
          Tasks,       \* tasks that have /dev/boogiepop open
          Objs,        \* addresses kmalloc() has for a struct pop_dev
          Files,       \* struct file of opened /dev/pop/DEVICE
          ReqSizes,    \* values of reg.size in a POP_P2PMEM_REG
          PAGE_SIZE,   \* 1 << PAGE_SHIFT
          PoolPages,   \* pages of p2pmem of a device
          INT,         \* an int counts from -INT/2 to INT/2 - 1
          MaxRefs,     \* bound on the references taken on a pci_dev
          NULL

ASSUME BoogiepopAssumption ==
    /\ P2pDevs \subseteq Devs
    /\ PAGE_SIZE \in Nat \ {0} /\ PoolPages \in Nat
    /\ INT \in Nat \ {0} /\ INT % 2 = 0
    /\ ReqSizes \subseteq Nat /\ MaxRefs \in Nat
    /\ NULL \notin Devs \cup Objs

VARIABLES loaded,    \* between pop_init() and pop_exit()
          dev_list,  \* pop.dev_list
          ppdev,     \* the struct pop_dev at each address
          misc,      \* pop_devs whose mdev is registered: /dev/pop/DEVICE
          used,      \* pages taken from the pool of each device
          pciref,    \* references on each pci_dev the module took, less
                     \* those it gave back
          io,        \* the ioctl each task is in: where it is, and its locals
          file,      \* the opened device files
          faulted,   \* history: devices for which copy_to_user() failed after
                     \* pop_register_p2pmem() had succeeded
          raced      \* history: two tasks have met where a lock is missing

registry == <<dev_list, ppdev, misc>>
history == <<faulted, raced>>
vars == <<loaded, registry, used, pciref, io, file, history>>

\* live: kmalloc'ed and not kfree'd; pdev, and size in pages.  (refcnt counts
\* the open files; nothing reads it.)
NoDev == [live |-> FALSE, pdev |-> NULL, size |-> 0]

\* pc, pdev, obj: locals of the ioctl; reg: reg.size in bytes; size: what
\* pop_register_p2pmem() returned.
Idle == [pc |-> "idle", pdev |-> NULL, obj |-> NULL, reg |-> 0, size |-> 0]

\* obj: private_data; dev: the device of its name; map: first page and number
\* of pages of its vm_area (none: 0 pages); page: the page offset faulted in
\* last; fresh: the pop_dev it opened has not been freed since.
NoFile == [open |-> FALSE, dev |-> NULL, obj |-> NULL,
           map |-> <<0, 0>>, page |-> -1, fresh |-> FALSE]
Stale == [NoFile EXCEPT !.open = TRUE]

Labels == {"idle", "find", "size", "alloc", "fill", "misc", "list", "ret",
           "unfind", "unmisc", "unfree", "undel"}

TypeOK ==
    /\ loaded \in BOOLEAN
    /\ dev_list \in Seq(Objs)
    /\ \A o \in Objs : /\ ppdev[o].pdev \in Devs \cup {NULL}
                       /\ ppdev[o].size \in 0 .. PoolPages
    /\ misc \subseteq Objs
    /\ used \in [Devs -> 0 .. PoolPages]
    /\ pciref \in [Devs -> -MaxRefs .. MaxRefs]
    /\ faulted \subseteq Devs
    /\ raced \in BOOLEAN
    /\ \A t \in Tasks : io[t].pc \in Labels
    /\ \A f \in Files : /\ file[f].obj \in Objs \cup {NULL}
                        /\ file[f].page \in -1 .. 2 * PoolPages

Init ==
    /\ loaded = TRUE
    /\ dev_list = <<>>
    /\ ppdev = [o \in Objs |-> NoDev]
    /\ misc = {}
    /\ used = [d \in Devs |-> 0]
    /\ pciref = [d \in Devs |-> 0]
    /\ io = [t \in Tasks |-> Idle]
    /\ file = [f \in Files |-> NoFile]
    /\ faulted = {} /\ raced = FALSE

------------------------------------------------------------------------------
\* The first pop_dev of the list with this pci_dev, or NULL.
pop_find_dev(d) ==
    LET at == {i \in DOMAIN dev_list : ppdev[dev_list[i]].pdev = d}
    IN  IF at = {} THEN NULL ELSE dev_list[Min(at)]

\* A size in bytes to whole pages.
PagesFor(bytes) == (bytes + PAGE_SIZE - 1) \div PAGE_SIZE

\* The conversion of a size_t to the int that pop_register_p2pmem() returns.
ToInt(x) == LET m == x % INT IN IF m < INT \div 2 THEN m ELSE m - INT

Goto(t, l) == io' = [io EXCEPT ![t].pc = l]
Return(t) == io' = [io EXCEPT ![t] = Idle]

\* A task goes on at label l, as long as nothing undefined has happened.
At(t, l) == ~raced /\ io[t].pc = l

\* One of the tasks S is in list_add_tail() or list_del(), which no lock protects.
InListOp(S) == \E s \in S : io[s].pc \in {"list", "undel"}

\* Bound: counts beyond MaxRefs, up or down, are not explored.
RefRoom(d) == pciref[d] \in 1 - MaxRefs .. MaxRefs - 1

\* The ioctl starts with pci_get_...(), or returns at once: copy_from_user()
\* fails, or the device has no p2pmem.
RegStart(t, d, bytes) ==
    /\ loaded /\ At(t, "idle") /\ RefRoom(d)
    /\ \/ /\ d \in P2pDevs
          /\ pciref' = [pciref EXCEPT ![d] = @ + 1]
          /\ io' = [io EXCEPT ![t] = [Idle EXCEPT !.pc = "find", !.pdev = d, !.reg = bytes]]
       \/ UNCHANGED <<pciref, io>>
    /\ UNCHANGED <<loaded, registry, used, file, history>>

\* pop_register_p2pmem(): already registered, or go on.
RegFind(t) ==
    /\ At(t, "find")
    /\ LET o == pop_find_dev(io[t].pdev)
       IN  IF o # NULL
           THEN io' = [io EXCEPT ![t].pc = "size", ![t].obj = o]
           ELSE Goto(t, "alloc")
    /\ raced' = InListOp(Tasks \ {t})
    /\ UNCHANGED <<loaded, registry, used, pciref, file, faulted>>

\* return ppdev->size
RegSize(t) ==
    /\ At(t, "size")
    /\ io' = [io EXCEPT ![t].pc = "ret", ![t].obj = NULL,
                        ![t].size = ToInt(ppdev[io[t].obj].size * PAGE_SIZE)]
    /\ UNCHANGED <<loaded, registry, used, pciref, file, history>>

\* pci_alloc_p2pmem() of the requested size, or of the whole pool for 0.
RegAlloc(t) ==
    LET n == IF io[t].reg = 0 THEN PoolPages ELSE PagesFor(io[t].reg)
    IN  /\ At(t, "alloc")
        /\ IF used[io[t].pdev] + n <= PoolPages
           THEN /\ used' = [used EXCEPT ![io[t].pdev] = @ + n]
                /\ io' = [io EXCEPT ![t].pc = "fill", ![t].size = n, ![t].reg = 0]
           ELSE /\ io' = [io EXCEPT ![t].pc = "ret", ![t].size = -1]
                /\ UNCHANGED used
        /\ UNCHANGED <<loaded, registry, pciref, file, history>>

\* Mutant of FreeAndFail: the caller frees the p2pmem once more.
FreeAndFailTwice(t) ==
    /\ used' = [used EXCEPT ![io[t].pdev] = @ - 2 * io[t].size]
    /\ io' = [io EXCEPT ![t].pc = "ret", ![t].size = -1]

\* pci_free_p2pmem() on an error path; io[t].size pages were allocated.
FreeAndFail(t) ==
    /\ used' = [used EXCEPT ![io[t].pdev] = @ - io[t].size]
    /\ io' = [io EXCEPT ![t].pc = "ret", ![t].size = -1]

\* kmalloc() fails, or the pop_dev is filled in.
RegFill(t) ==
    /\ At(t, "fill")
    /\ \/ FreeAndFail(t) /\ UNCHANGED ppdev
       \/ \E o \in Objs :
            /\ ~ppdev[o].live
            /\ ppdev' = [ppdev EXCEPT ![o] = [live |-> TRUE, pdev |-> io[t].pdev,
                                              size |-> io[t].size]]
            /\ io' = [io EXCEPT ![t].pc = "misc", ![t].obj = o]
            /\ UNCHANGED used
    /\ UNCHANGED <<loaded, dev_list, misc, pciref, file, history>>

\* /dev/pop/DEVICE exists; the name cannot be registered a second time.
Named(d) == \E o \in misc : ppdev[o].pdev = d

\* misc_register() fails (the pop_dev is not freed), or the file exists.
RegMisc(t) ==
    /\ At(t, "misc")
    /\ \/ FreeAndFail(t) /\ UNCHANGED <<misc, raced>>
       \/ /\ ~Named(io[t].pdev)
          /\ misc' = misc \cup {io[t].obj}
          /\ Goto(t, "list") /\ raced' = InListOp(Tasks \ {t})
          /\ UNCHANGED used
    /\ UNCHANGED <<loaded, dev_list, ppdev, pciref, file, faulted>>

RegList(t) ==
    /\ At(t, "list")
    /\ dev_list' = Append(dev_list, io[t].obj)
    /\ io' = [io EXCEPT ![t].pc = "ret", ![t].size = ToInt(io[t].size * PAGE_SIZE)]
    /\ UNCHANGED <<loaded, ppdev, misc, used, pciref, file, history>>

PutDev(t) == pciref' = [pciref EXCEPT ![io[t].pdev] = @ - 1]

\* Back in pop_ioctl(): a negative size gives the reference back and leaves
\* ret = 0; a failing copy_to_user() gives it back and leaves the device
\* registered; success keeps the reference.
RegReturn(t) ==
    /\ At(t, "ret")
    /\ \/ io[t].size < 0 /\ PutDev(t) /\ Return(t) /\ UNCHANGED faulted
       \/ /\ io[t].size >= 0 /\ PutDev(t) /\ Return(t)
          /\ faulted' = faulted \cup {io[t].pdev}
       \/ io[t].size >= 0 /\ Return(t) /\ UNCHANGED <<pciref, faulted>>
    /\ UNCHANGED <<loaded, registry, used, file, raced>>

UnregStart(t, d) ==
    /\ loaded /\ At(t, "idle") /\ RefRoom(d)
    /\ \/ /\ pciref' = [pciref EXCEPT ![d] = @ + 1]
          /\ io' = [io EXCEPT ![t] = [Idle EXCEPT !.pc = "unfind", !.pdev = d]]
       \/ UNCHANGED <<pciref, io>>
    /\ UNCHANGED <<loaded, registry, used, file, history>>

UnregFind(t) ==
    /\ At(t, "unfind")
    /\ LET o == pop_find_dev(io[t].pdev)
       IN  IF o = NULL
           THEN PutDev(t) /\ Return(t) /\ raced' = InListOp(Tasks \ {t})
           ELSE /\ io' = [io EXCEPT ![t].pc = "unmisc", ![t].obj = o]
                /\ raced' = \/ InListOp(Tasks \ {t})
                            \/ \E s \in Tasks \ {t} :
                                 io[s].obj = o /\ io[s].pc \in {"unmisc", "unfree", "undel"}
                /\ UNCHANGED pciref
    /\ UNCHANGED <<loaded, registry, used, file, faulted>>

\* pop_unregister_p2pmem(), one step per call that others can observe.
UnregMisc(t) ==
    /\ At(t, "unmisc")
    /\ misc' = misc \ {io[t].obj}
    /\ Goto(t, "unfree")
    /\ UNCHANGED <<loaded, dev_list, ppdev, used, pciref, file, history>>

\* Mutant of UnregFree: pop_ioctl() gives its own reference back as well.
UnregFreePutsTwice(t) ==
    /\ At(t, "unfree")
    /\ used' = [used EXCEPT ![io[t].pdev] = @ - ppdev[io[t].obj].size]
    /\ pciref' = [pciref EXCEPT ![io[t].pdev] = @ - 2]
    /\ Goto(t, "undel")
    /\ UNCHANGED <<loaded, registry, file, history>>

UnregFree(t) ==
    /\ At(t, "unfree")
    /\ used' = [used EXCEPT ![io[t].pdev] = @ - ppdev[io[t].obj].size]
    /\ PutDev(t)
    /\ Goto(t, "undel") /\ raced' = InListOp(Tasks \ {t})
    /\ UNCHANGED <<loaded, registry, file, faulted>>

\* kfree(o): what points at o dangles from here on.
Dangle(o) ==
    file' = [f \in Files |-> IF file[f].obj = o THEN Stale ELSE file[f]]

\* The list without its i-th node.
list_del(s, i) == SubSeq(s, 1, i - 1) \o SubSeq(s, i + 1, Len(s))

\* Mutant of UnregDel: list_del() is forgotten.
UnregDelKeeps(t) ==
    /\ At(t, "undel")
    /\ ppdev' = [ppdev EXCEPT ![io[t].obj] = NoDev]
    /\ Dangle(io[t].obj)
    /\ Return(t)
    /\ UNCHANGED <<loaded, dev_list, misc, used, pciref, history>>

UnregDel(t) ==
    /\ At(t, "undel")
    /\ \E i \in DOMAIN dev_list :
          dev_list[i] = io[t].obj /\ dev_list' = list_del(dev_list, i)
    /\ ppdev' = [ppdev EXCEPT ![io[t].obj] = NoDev]
    /\ raced' = \E s \in Tasks : io[s].pc = "size" /\ io[s].obj = io[t].obj
    /\ Dangle(io[t].obj)
    /\ Return(t)
    /\ UNCHANGED <<loaded, misc, used, pciref, faulted>>

------------------------------------------------------------------------------
\* misc_open() finds the node, pop_dev_open() the pop_dev in the list.
pop_dev_open(f, d) ==
    /\ ~raced /\ loaded /\ ~file[f].open /\ Named(d)
    /\ LET o == pop_find_dev(d)
       IN  /\ o # NULL
           /\ file' = [file EXCEPT ![f] = [NoFile EXCEPT !.open = TRUE, !.obj = o,
                                           !.dev = d, !.fresh = TRUE]]
    /\ raced' = InListOp(Tasks)
    /\ UNCHANGED <<loaded, registry, used, pciref, io, faulted>>

\* The kernel calls release when the last mapping of the file is gone too.
pop_dev_release(f) ==
    /\ ~raced /\ file[f].open
    /\ file' = [file EXCEPT ![f] = NoFile]
    /\ UNCHANGED <<loaded, registry, used, pciref, io, history>>

\* Mutant of pop_dev_mmap: the offset is not part of the test.
pop_dev_mmap_no_offset(f, off, n) ==
    /\ ~raced /\ file[f].fresh /\ file[f].map[2] = 0
    /\ n <= ppdev[file[f].obj].size
    /\ file' = [file EXCEPT ![f].map = <<off, n>>]
    /\ UNCHANGED <<loaded, registry, used, pciref, io, history>>

\* n pages from page off.  A file whose pop_dev was freed is not followed: what
\* it finds there is undefined.
pop_dev_mmap(f, off, n) ==
    /\ ~raced /\ file[f].fresh /\ file[f].map[2] = 0
    /\ off + n <= ppdev[file[f].obj].size
    /\ file' = [file EXCEPT ![f].map = <<off, n>>]
    /\ UNCHANGED <<loaded, registry, used, pciref, io, history>>

\* A touch of the i-th page of the mapping maps page pgoff of the p2pmem.
pop_dev_mem_fault(f, i) ==
    /\ ~raced /\ i < file[f].map[2]
    /\ file' = [file EXCEPT ![f].page = file[f].map[1] + i]
    /\ UNCHANGED <<loaded, registry, used, pciref, io, history>>

------------------------------------------------------------------------------
Quiet == \A t \in Tasks : At(t, "idle")
Listed == Range(dev_list)
ListedOf(d) == {o \in Listed : ppdev[o].pdev = d}
SizeOf(S) == MapThenSumSet(LAMBDA o : ppdev[o].size, S)

\* Mutant of pop_exit: the devices stay registered.
pop_exit_keeps ==
    /\ loaded /\ Quiet /\ \A f \in Files : ~file[f].open
    /\ loaded' = FALSE
    /\ UNCHANGED <<registry, used, pciref, io, file, history>>

\* The module can only be unloaded while none of its files is open; every
\* listed device goes through pop_unregister_p2pmem().
pop_exit ==
    /\ loaded /\ Quiet /\ \A f \in Files : ~file[f].open
    /\ loaded' = FALSE
    /\ misc' = misc \ Listed
    /\ used' = [d \in Devs |-> used[d] - SizeOf(ListedOf(d))]
    /\ pciref' = [d \in Devs |-> pciref[d] - Cardinality(ListedOf(d))]
    /\ ppdev' = [o \in Objs |-> IF o \in Listed THEN NoDev ELSE ppdev[o]]
    /\ dev_list' = <<>>
    /\ UNCHANGED <<io, file, history>>

pop_init ==
    /\ ~loaded
    /\ loaded' = TRUE
    /\ dev_list' = <<>>
    /\ UNCHANGED <<ppdev, misc, used, pciref, io, file, history>>

Ioctl(t) ==
    \/ \E d \in Devs, bytes \in ReqSizes : RegStart(t, d, bytes)
    \/ RegFind(t) \/ RegSize(t) \/ RegAlloc(t) \/ RegFill(t) \/ RegMisc(t) \/ RegList(t)
    \/ RegReturn(t)
    \/ \E d \in Devs : UnregStart(t, d)
    \/ UnregFind(t) \/ UnregMisc(t) \/ UnregFree(t) \/ UnregDel(t)

FileOp(f) ==
    \/ \E d \in Devs : pop_dev_open(f, d)
    \/ pop_dev_release(f)
    \/ \E off \in 0 .. PoolPages, n \in 1 .. PoolPages : pop_dev_mmap(f, off, n)
    \/ \E i \in 0 .. PoolPages - 1 : pop_dev_mem_fault(f, i)

Undefined == raced /\ UNCHANGED vars

Next ==
    \/ \E t \in Tasks : Ioctl(t)
    \/ \E f \in Files : FileOp(f)
    \/ pop_exit \/ pop_init \/ Undefined

Spec == Init /\ [][Next]_vars

------------------------------------------------------------------------------
(***************************************************************************)
(* When no ioctl is in progress the pages taken from a device's pool are   *)
(* those of the listed pop_devs, whichever of kmalloc, misc_register and   *)
(* copy_to_user failed on the way and however the ioctls interleaved: no   *)
(* error path loses p2pmem, none frees it twice.                           *)
(***************************************************************************)
PoolAccounting ==
    Quiet => \A d \in Devs : used[d] = SizeOf(ListedOf(d))

(***************************************************************************)
(* When no ioctl is in progress a device has one pop_dev at most, also if  *)
(* several tasks were registering it; it is allocated, and listed exactly  *)
(* when its node /dev/pop/DEVICE exists.                                   *)
(***************************************************************************)
NodesMatchList ==
    Quiet =>
        /\ misc = Listed
        /\ \A o \in Listed : ppdev[o].live /\ ListedOf(ppdev[o].pdev) = {o}
        /\ Len(dev_list) = Cardinality(Listed)

(***************************************************************************)
(* The module holds a reference on the pci_dev of every listed pop_dev, so *)
(* the device and its pool cannot go away under it, through any sequence   *)
(* of ioctls in which no copy_to_user() failed for the device.             *)
(***************************************************************************)
ListedPinned ==
    \A o \in Listed : ppdev[o].pdev \notin faulted => pciref[ppdev[o].pdev] >= 1

(***************************************************************************)
(* As long as the pop_dev behind an open file has not been freed, the file *)
(* belongs to the device it was opened for, and every page faulted in      *)
(* through it lies in the p2pmem allocated for that device.                *)
(***************************************************************************)
FaultsInside ==
    \A f \in Files :
        file[f].fresh =>
            /\ ppdev[file[f].obj].live
            /\ ppdev[file[f].obj].pdev = file[f].dev
            /\ file[f].page < ppdev[file[f].obj].size

(***************************************************************************)
(* After pop_exit() no node, no list entry and no p2pmem is left behind.   *)
(***************************************************************************)
UnloadClean ==
    ~loaded => dev_list = <<>> /\ misc = {} /\ \A d \in Devs : used[d] = 0

(***************************************************************************)
(* libpop.c:121 takes any result of POP_P2PMEM_REG but 0 for a failure:    *)
(* when the ioctl returns 0, which it does from here unless copy_to_user() *)
(* fails, the device is registered.                                        *)
(***************************************************************************)
RegSuccessMeansRegistered ==
    \A t \in Tasks : io[t].pc = "ret" => ListedOf(io[t].pdev) # {}

(***************************************************************************)
(* pop_register_p2pmem() says "Return value is allocated size": what it    *)
(* returns for a registered device is the size of its p2pmem.              *)
(***************************************************************************)
ReturnsAllocatedSize ==
    \A t \in Tasks : io[t].pc = "ret" =>
        \A o \in ListedOf(io[t].pdev) : io[t].size = ppdev[o].size * PAGE_SIZE
==============================================================================
