---------------------------- MODULE LibpopProofs ----------------------------
(***************************************************************************)
(* Proofs about the pop_mem_t and the pop_buf_t of lib/libpop.c (modules   *)
(* PopMem and PopBuf), and about the program that measures it with a disk, *)
(* apps/bench-nvme.c (BenchNvme).  The three share no state.               *)
(***************************************************************************)
EXTENDS PopMem, PopBuf, BenchNvme, TLAPS

------------------------------------------------------------------------------
(* pop_mem_t.                                                              *)

MemRec ==
    [pc : Labels, dev : Devs \cup {HUGE}, arg : Nat, size : Nat, num_pages : Nat,
     id : Nat, fds : Int, frame : Seq(Nat), paddr : Nat,
     ret : {"none", "ok", "NULL", "0", "-1"}]

\* A registration has a number of its own, not above regs.
MemTypes ==
    /\ reg \in [Devs -> [id : Nat, pages : 0 .. PoolPages]]
    /\ regs \in Nat /\ \A d \in Devs : reg[d].id <= regs
    /\ nfds \in Int
    /\ mem \in [Handles -> MemRec]

InitOnDev == {"open", "ioctl", "close", "opendev"}
ExitOnDev == {"xopen", "xioctl", "xclose", "gone"}
Mapped == {"phys", "read", "ready"}

\* The descriptors that pop_mem_init() on a device holds at each step; NULL
\* is the result until the next call.
FdsInv(h) ==
    /\ mem[h].ret = "NULL" => mem[h].pc = "free" /\ (OnDev(h) => mem[h].fds = 0)
    /\ OnDev(h) /\ mem[h].pc \in {"open", "opendev"} => mem[h].fds = 0
    /\ OnDev(h) /\ mem[h].pc \in {"ioctl", "close", "mmap"} => mem[h].fds = 1

\* What the size of a pop_mem_t says about its pages: a registration that
\* was made after the mapping has a higher number than the mapping's.  And what
\* virt_to_phys() says of the first page.
MapInv(h) ==
    /\ mem[h].pc = "huge" => ~OnDev(h)
    /\ mem[h].pc \in InitOnDev \cup ExitOnDev => OnDev(h)
    /\ mem[h].pc = "mmap" \/ mem[h].pc \in Mapped =>
          IF OnDev(h)
          THEN /\ mem[h].id \in 1 .. regs
               /\ mem[h].num_pages = mem[h].size \div PAGE_SIZE
          ELSE mem[h].num_pages = PagesFor(mem[h].size)
    /\ mem[h].pc \in Mapped =>
          /\ mem[h].frame[1] \in Nat
          /\ IF OnDev(h)
             THEN reg[mem[h].dev].id = mem[h].id =>
                    PagesFor(mem[h].size) <= reg[mem[h].dev].pages
             ELSE Len(mem[h].frame) = HugesFor(mem[h].size)
    /\ mem[h].pc = "ready" => mem[h].paddr \in {0, mem[h].frame[1]}

MemInv == MemTypes /\ \A h \in Handles : FdsInv(h) /\ MapInv(h)

LEMMA MemBasics ==
    /\ HUGE \notin Devs /\ Sizes \subseteq Nat /\ NrHuge \in Nat /\ PoolPages \in Nat
    /\ PAGE_SIZE \in Nat /\ PAGE_SIZE > 0 /\ HugePages \in Nat /\ HugePages > 0
BY PopMemAssumption

\* Division of a natural number rounds down.
LEMMA Division ==
    ASSUME NEW a \in Nat, NEW b \in Nat, b > 0
    PROVE  /\ a \div b \in Nat
           /\ b * (a \div b) <= a /\ a < b * (a \div b) + b
OBVIOUS

\* Rounding up: what PagesFor() and HugesFor() compute.
LEMMA RoundUp ==
    ASSUME NEW a \in Nat, NEW b \in Nat, b > 0
    PROVE  /\ (a + b - 1) \div b \in Nat
           /\ a <= b * ((a + b - 1) \div b)
           /\ a \div b <= (a + b - 1) \div b
<1>1. a + b - 1 \in Nat OBVIOUS
<1> DEFINE q == a \div b
           r == (a + b - 1) \div b
<1>2. q \in Nat /\ r \in Nat /\ b * q <= a /\ a + b - 1 < b * r + b
    BY <1>1, Division
<1>3. q <= r
  <2> SUFFICES ASSUME r + 1 <= q PROVE FALSE BY <1>2
  <2>1. b * (r + 1) <= b * q BY <1>2
  <2>2. b * (r + 1) = b * r + b BY <1>2
  <2> HIDE DEF q, r
  <2> QED BY <1>2, <2>1, <2>2
<1> QED BY <1>2, <1>3

\* Sizes in pages and in hugepages.
LEMMA Rounding ==
    ASSUME NEW bytes \in Nat
    PROVE  /\ PagesFor(bytes) \in Nat /\ HugesFor(bytes) \in Nat
           /\ bytes \div PAGE_SIZE \in Nat
           /\ bytes \div PAGE_SIZE <= PagesFor(bytes)
           /\ PagesFor(bytes) <= HugePages * HugesFor(bytes)
           /\ bytes > 0 => HugesFor(bytes) > 0
<1>1. /\ PagesFor(bytes) \in Nat /\ bytes \div PAGE_SIZE <= PagesFor(bytes)
      /\ bytes <= PAGE_SIZE * PagesFor(bytes)
    BY MemBasics, RoundUp DEF PagesFor
<1>2. HugesFor(bytes) \in Nat /\ PagesFor(bytes) <= HugePages * HugesFor(bytes)
    BY <1>1, MemBasics, RoundUp DEF HugesFor
<1>3. ASSUME HugesFor(bytes) = 0 PROVE bytes = 0
  <2>1. HugePages * HugesFor(bytes) = 0 BY <1>3, MemBasics
  <2>2. PagesFor(bytes) = 0 BY <1>1, <1>2, <2>1
  <2>3. PAGE_SIZE * PagesFor(bytes) = 0 BY <2>2, MemBasics
  <2> QED BY <1>1, <2>3
<1> QED BY <1>1, <1>2, <1>3, MemBasics, Division

\* What a step does to the registrations: one may end, and one may be made,
\* with a number that none had before.
RegStep ==
    /\ reg' \in [Devs -> [id : Nat, pages : 0 .. PoolPages]]
    /\ regs' \in Nat /\ regs <= regs'
    /\ \A d \in Devs : \/ reg'[d] = reg[d]
                       \/ reg'[d].id = 0
                       \/ reg'[d].id \in regs + 1 .. regs'

\* The thread of one handle takes a step.
LEMMA MemFrame ==
    ASSUME MemInv, NEW h \in Handles, RegStep, nfds' \in Int,
           mem' \in [Handles -> MemRec], \A g \in Handles \ {h} : mem'[g] = mem[g],
           FdsInv(h)', MapInv(h)'
    PROVE  MemInv'
<1>1. MemTypes'
  <2>1. \A d \in Devs : reg'[d].id <= regs' BY DEF RegStep, MemInv, MemTypes
  <2> QED BY <2>1 DEF RegStep, MemTypes
<1>2. ASSUME NEW g \in Handles, g # h PROVE FdsInv(g)' /\ MapInv(g)'
  <2>1. mem'[g] = mem[g] /\ FdsInv(g) /\ MapInv(g) BY <1>2 DEF MemInv
  <2>2. OnDev(g)' <=> OnDev(g) BY <2>1 DEF OnDev
  <2>3. FdsInv(g)' BY <2>1, <2>2, Zenon DEF FdsInv
  <2>4. CASE mem[g].pc \notin {"mmap"} \cup Mapped
      BY <2>1, <2>2, <2>3, <2>4 DEF MapInv, Mapped
  <2>5. CASE mem[g].pc \in {"mmap"} \cup Mapped /\ ~OnDev(g)
      BY <2>1, <2>2, <2>3, <2>5 DEF MapInv, InitOnDev, ExitOnDev, Mapped
  <2>6. CASE mem[g].pc \in {"mmap"} \cup Mapped /\ OnDev(g)
    <3>1. /\ mem[g].dev \in Devs /\ mem[g].id \in Nat /\ regs \in Nat
          /\ reg[mem[g].dev].id \in Nat
        BY <2>6, Zenon DEF MemInv, MemTypes, MemRec, OnDev
    <3>2. mem[g].id \in 1 .. regs /\ mem[g].num_pages = mem[g].size \div PAGE_SIZE
        BY <2>1, <2>6 DEF MapInv, Mapped
    <3>3. mem[g].id \in 1 .. regs' BY <3>1, <3>2 DEF RegStep
    <3>4. reg'[mem[g].dev].id = mem[g].id => reg'[mem[g].dev] = reg[mem[g].dev]
        BY <3>1, <3>2 DEF RegStep
    <3>5. /\ mem[g].pc \in Mapped
          /\ reg'[mem[g].dev].id = mem[g].id
          => PagesFor(mem[g].size) <= reg'[mem[g].dev].pages
        BY <2>1, <2>6, <3>4 DEF MapInv, Mapped
    <3> QED
        BY <2>1, <2>2, <2>3, <2>6, <3>2, <3>3, <3>5 DEF MapInv, InitOnDev, ExitOnDev, Mapped
  <2> QED BY <2>4, <2>5, <2>6
<1> QED BY <1>1, <1>2 DEF MemInv

\* The registrations stay.
LEMMA SameRegs == ASSUME MemInv, reg' = reg, regs' = regs PROVE RegStep
BY DEF MemInv, MemTypes, RegStep

LEMMA BlankRec ==
    /\ Blank \in MemRec
    /\ \A h \in Handles : MemInv => mem[h] \in MemRec /\ mem[h].fds \in Int
BY MemBasics DEF Blank, MemRec, Labels, MemInv, MemTypes

\* The thread of handle h goes on, with r as its pop_mem_t.
LEMMA MemUpdate ==
    ASSUME MemInv, NEW h \in Handles, NEW r \in MemRec, mem' = [mem EXCEPT ![h] = r]
    PROVE  /\ mem' \in [Handles -> MemRec] /\ \A g \in Handles \ {h} : mem'[g] = mem[g]
           /\ mem'[h] = r /\ (OnDev(h)' <=> r.dev # HUGE)
BY DEF MemInv, MemTypes, OnDev

LEMMA MemOf ==
    ASSUME MemInv, NEW h \in Handles
    PROVE  /\ mem \in [Handles -> MemRec] /\ mem[h] \in MemRec
           /\ mem[h].fds \in Int /\ mem[h].fds + 1 \in Int /\ mem[h].fds - 1 \in Int
           /\ mem[h].arg \in Nat /\ mem[h].size \in Nat /\ mem[h].id \in Nat
           /\ mem[h].dev \in Devs \cup {HUGE}
           /\ nfds \in Int /\ nfds + 1 \in Int /\ nfds - 1 \in Int
<1>1. mem[h] \in MemRec /\ mem \in [Handles -> MemRec] /\ nfds \in Int BY DEF MemInv, MemTypes
<1>2. /\ mem[h].fds \in Int /\ mem[h].arg \in Nat /\ mem[h].size \in Nat /\ mem[h].id \in Nat
      /\ mem[h].dev \in Devs \cup {HUGE}
    BY <1>1 DEF MemRec
<1> QED BY <1>1, <1>2

\* pop_mem_init() fails, with the device's descriptors closed.
LEMMA MemFail ==
    ASSUME MemInv, NEW h \in Handles, NEW fds \in Int, Fail(h, fds), OnDev(h) => fds = 0,
           reg' = reg, regs' = regs, nfds' \in Int
    PROVE  MemInv'
<1>1. /\ mem' \in [Handles -> MemRec] /\ \A g \in Handles \ {h} : mem'[g] = mem[g]
      /\ mem'[h].pc = "free" /\ mem'[h].fds = fds /\ mem'[h].dev = mem[h].dev
    BY BlankRec, Zenon DEF Fail, Blank, MemRec, MemInv, MemTypes
<1>2. OnDev(h)' <=> OnDev(h) BY <1>1 DEF OnDev
<1>3. FdsInv(h)' BY <1>1, <1>2 DEF FdsInv
<1>4. MapInv(h)' BY <1>1, <1>2 DEF MapInv, InitOnDev, ExitOnDev, Mapped
<1> QED BY <1>1, <1>3, <1>4, SameRegs, MemFrame

LEMMA InitStartStep ==
    ASSUME MemInv, NEW h \in Handles, NEW d \in Devs \cup {HUGE}, NEW bytes \in Sizes,
           InitStart(h, d, bytes)
    PROVE  MemInv'
<1>1. /\ mem' \in [Handles -> MemRec] /\ \A g \in Handles \ {h} : mem'[g] = mem[g]
      /\ mem'[h].pc = (IF d = HUGE THEN "huge" ELSE "open") /\ mem'[h].dev = d
      /\ mem'[h].fds = 0 /\ mem'[h].ret = "none"
  <2> DEFINE r == [Blank EXCEPT !.dev = d, !.arg = bytes,
                                !.pc = IF d = HUGE THEN "huge" ELSE "open"]
  <2>1. /\ r \in MemRec /\ r.pc = (IF d = HUGE THEN "huge" ELSE "open") /\ r.dev = d
        /\ r.fds = 0 /\ r.ret = "none"
    <3>1. (IF d = HUGE THEN "huge" ELSE "open") \in Labels BY DEF Labels
    <3>2. bytes \in Nat /\ Blank \in MemRec BY BlankRec, MemBasics
    <3>3. Blank.fds = 0 /\ Blank.ret = "none" BY DEF Blank
    <3> QED BY <3>1, <3>2, <3>3, Zenon DEF MemRec
  <2>2. mem' = [mem EXCEPT ![h] = r] BY Zenon DEF InitStart
  <2> HIDE DEF r
  <2> QED BY <2>1, <2>2, MemUpdate, Zenon
<1>2. OnDev(h)' <=> d # HUGE BY <1>1 DEF OnDev
<1>3. FdsInv(h)' BY <1>1, <1>2 DEF FdsInv
<1>4. MapInv(h)' BY <1>1, <1>2 DEF MapInv, InitOnDev, ExitOnDev, Mapped
<1> QED BY <1>1, <1>3, <1>4, SameRegs, MemFrame DEF InitStart, MemInv, MemTypes

LEMMA InitHugeStep ==
    ASSUME MemInv, NEW h \in Handles, InitHuge(h)
    PROVE  MemInv'
<1> DEFINE size == IF mem[h].arg # 0 THEN mem[h].arg
                   ELSE HugePages * PAGE_SIZE * (NrHuge \div 4)
           n == mem[h].fds + 1
           r == [mem[h] EXCEPT !.pc = "mmap", !.size = size, !.num_pages = PagesFor(size),
                               !.fds = n]
<1>1. size \in Nat /\ n \in Int
  <2>1. NrHuge \div 4 \in Nat /\ HugePages * PAGE_SIZE \in Nat BY MemBasics
  <2> QED BY <2>1, MemOf
<1> HIDE DEF size
<1>2. ~OnDev(h) /\ mem[h].ret # "NULL" BY DEF InitHuge, MemInv, FdsInv, MapInv
<1>3. CASE /\ nfds' = nfds + 1
           /\ mem' = [mem EXCEPT ![h].pc = "mmap", ![h].size = size,
                                 ![h].num_pages = PagesFor(size), ![h].fds = @ + 1]
  <2>1. mem' = [mem EXCEPT ![h] = r] BY <1>3, MemOf, Zenon DEF MemRec
  <2> HIDE DEF n
  <2>2. "mmap" \in Labels /\ PagesFor(size) \in Nat BY <1>1, Rounding DEF Labels
  <2>3. /\ r \in MemRec /\ r.pc = "mmap" /\ r.dev = mem[h].dev /\ r.ret = mem[h].ret
        /\ r.size = size /\ r.num_pages = PagesFor(size)
      BY <1>1, <2>2, MemOf, Zenon DEF MemRec
  <2> HIDE DEF r
  <2>4. mem'[h] = r /\ ~OnDev(h)' BY <1>2, <2>1, <2>3, MemUpdate, Zenon DEF OnDev
  <2>5. FdsInv(h)' BY <1>2, <2>3, <2>4 DEF FdsInv
  <2>6. MapInv(h)' BY <2>3, <2>4 DEF MapInv, InitOnDev, ExitOnDev, Mapped
  <2>7. RegStep BY SameRegs, Zenon DEF InitHuge
  <2>8. nfds' \in Int BY <1>3, MemOf
  <2>9. mem' \in [Handles -> MemRec] /\ \A g \in Handles \ {h} : mem'[g] = mem[g]
      BY <2>1, <2>3, MemUpdate, Zenon
  <2> QED BY <2>5, <2>6, <2>7, <2>8, <2>9, MemFrame, Zenon
<1>4. CASE Fail(h, mem[h].fds) /\ nfds' = nfds
    BY <1>2, <1>4, MemFail, MemOf DEF InitHuge
<1> QED BY <1>3, <1>4 DEF InitHuge, size

LEMMA InitOpenStep ==
    ASSUME MemInv, NEW h \in Handles, InitOpen(h)
    PROVE  MemInv'
<1>1. OnDev(h) /\ mem[h].ret # "NULL" /\ mem[h].fds = 0
    BY DEF InitOpen, MemInv, FdsInv, MapInv, InitOnDev
<1> DEFINE n == mem[h].fds + 1
           r == [mem[h] EXCEPT !.pc = "ioctl", !.fds = n]
<1>2. CASE nfds' = nfds + 1 /\ mem' = [mem EXCEPT ![h].pc = "ioctl", ![h].fds = @ + 1]
  <2>1. mem' = [mem EXCEPT ![h] = r] BY <1>2, MemOf, Zenon DEF MemRec
  <2>2. "ioctl" \in Labels /\ n \in Int /\ n = 1 BY <1>1 DEF Labels
  <2> HIDE DEF n
  <2>3. /\ r \in MemRec /\ r.pc = "ioctl" /\ r.dev = mem[h].dev /\ r.ret = mem[h].ret
        /\ r.fds = n
      BY <2>2, MemOf, Zenon DEF MemRec
  <2> HIDE DEF r
  <2>4. mem'[h] = r /\ OnDev(h)' BY <1>1, <2>1, <2>3, MemUpdate, Zenon DEF OnDev
  <2>5. FdsInv(h)' BY <1>1, <2>2, <2>3, <2>4 DEF FdsInv
  <2>6. MapInv(h)' BY <2>3, <2>4 DEF MapInv, Mapped
  <2> QED BY <1>2, <2>1, <2>3, <2>5, <2>6, MemUpdate, MemOf, SameRegs, MemFrame, Zenon DEF InitOpen
<1>3. CASE Fail(h, mem[h].fds) /\ nfds' = nfds
    BY <1>1, <1>3, MemFail, MemOf DEF InitOpen
<1> QED BY <1>2, <1>3 DEF InitOpen

\* POP_P2PMEM_REG returns: the descriptor of /dev/boogiepop is to be closed.
LEMMA IoctlReturns ==
    ASSUME MemInv, NEW h \in Handles, mem[h].pc = "ioctl", RegStep, NEW size \in Nat,
           mem' = [mem EXCEPT ![h].pc = "close", ![h].size = size], nfds' = nfds
    PROVE  MemInv'
<1>1. OnDev(h) /\ mem[h].ret # "NULL" /\ mem[h].fds = 1
    BY DEF MemInv, FdsInv, MapInv, InitOnDev
<1> DEFINE r == [mem[h] EXCEPT !.pc = "close", !.size = size]
<1>2. mem' = [mem EXCEPT ![h] = r] BY MemOf, Zenon DEF MemRec
<1>3. "close" \in Labels BY DEF Labels
<1>4. /\ r \in MemRec /\ r.pc = "close" /\ r.dev = mem[h].dev /\ r.ret = mem[h].ret
      /\ r.fds = mem[h].fds
    BY <1>3, MemOf, Zenon DEF MemRec
<1> HIDE DEF r
<1>5. mem'[h] = r /\ OnDev(h)' BY <1>1, <1>2, <1>4, MemUpdate, Zenon DEF OnDev
<1>6. FdsInv(h)' BY <1>1, <1>4, <1>5 DEF FdsInv
<1>7. MapInv(h)' BY <1>4, <1>5 DEF MapInv, Mapped
<1> QED BY <1>2, <1>4, <1>6, <1>7, MemUpdate, MemOf, MemFrame, Zenon

LEMMA InitIoctlStep ==
    ASSUME MemInv, NEW h \in Handles, InitIoctl(h)
    PROVE  MemInv'
<1> DEFINE d == mem[h].dev
           n == IF mem[h].arg = 0 THEN PoolPages ELSE PagesFor(mem[h].arg)
<1>1. OnDev(h) /\ mem[h].fds = 1 /\ d \in Devs /\ mem[h].pc = "ioctl"
    BY MemOf DEF InitIoctl, MemInv, FdsInv, MapInv, InitOnDev, OnDev
<1>2. n \in Nat /\ n * PAGE_SIZE \in Nat
  <2>1. n \in Nat BY MemBasics, MemOf, Rounding
  <2> HIDE DEF n
  <2> QED BY <2>1, MemBasics
<1>3. reg \in [Devs -> [id : Nat, pages : 0 .. PoolPages]] /\ regs \in Nat BY DEF MemInv, MemTypes
<1>4. CASE /\ mem' = [mem EXCEPT ![h].pc = "close", ![h].size = reg[d].pages * PAGE_SIZE]
           /\ UNCHANGED <<reg, regs, nfds>>
  <2>1. reg[d].pages * PAGE_SIZE \in Nat BY <1>1, <1>3, MemBasics
  <2> QED BY <1>1, <1>4, <2>1, SameRegs, IoctlReturns, Zenon
<1>5. CASE /\ n <= PoolPages
           /\ reg' = [reg EXCEPT ![d] = [id |-> regs + 1, pages |-> n]]
           /\ regs' = regs + 1 /\ nfds' = nfds
           /\ mem' = [mem EXCEPT ![h].pc = "close", ![h].size = n * PAGE_SIZE]
  <2> HIDE DEF n
  <2>1. RegStep
    <3> DEFINE e == [id |-> regs + 1, pages |-> n]
    <3>0. n \in 0 .. PoolPages /\ regs + 1 \in Nat BY <1>2, <1>3, <1>5, MemBasics
    <3>1. /\ e \in [id : Nat, pages : 0 .. PoolPages] /\ e.id = regs + 1
          /\ reg' = [reg EXCEPT ![d] = e]
        BY <1>5, <3>0, Zenon
    <3> HIDE DEF e
    <3>2. \A c \in Devs : reg'[c] = reg[c] \/ reg'[c] = e BY <1>1, <1>3, <3>1
    <3>3. reg' \in [Devs -> [id : Nat, pages : 0 .. PoolPages]] BY <1>3, <3>1, Zenon
    <3> QED BY <1>3, <1>5, <3>1, <3>2, <3>3 DEF RegStep
  <2> QED BY <1>1, <1>2, <1>5, <2>1, IoctlReturns, Zenon
<1>6. CASE /\ mem' = [mem EXCEPT ![h].pc = "close", ![h].size = mem[h].arg]
           /\ UNCHANGED <<reg, regs, nfds>>
    BY <1>1, <1>6, MemOf, SameRegs, IoctlReturns, Zenon
<1>7. CASE /\ Fail(h, mem[h].fds - 1) /\ nfds' = nfds - 1 /\ UNCHANGED <<reg, regs>>
    BY <1>1, <1>7, MemOf, MemFail
<1> QED BY <1>4, <1>5, <1>6, <1>7 DEF InitIoctl

LEMMA InitCloseStep ==
    ASSUME MemInv, NEW h \in Handles, InitClose(h)
    PROVE  MemInv'
<1>1. OnDev(h) /\ mem[h].ret # "NULL" /\ mem[h].fds = 1
    BY DEF InitClose, MemInv, FdsInv, MapInv, InitOnDev
<1> DEFINE n == mem[h].fds - 1
           r == [mem[h] EXCEPT !.pc = "opendev", !.fds = n]
<1>2. mem' = [mem EXCEPT ![h] = r] BY MemOf, Zenon DEF InitClose, MemRec
<1>3. "opendev" \in Labels /\ n \in Int /\ n = 0 BY <1>1 DEF Labels
<1> HIDE DEF n
<1>4. /\ r \in MemRec /\ r.pc = "opendev" /\ r.dev = mem[h].dev /\ r.ret = mem[h].ret
      /\ r.fds = n
    BY <1>3, MemOf, Zenon DEF MemRec
<1> HIDE DEF r
<1>5. mem'[h] = r /\ OnDev(h)' BY <1>1, <1>2, <1>4, MemUpdate, Zenon DEF OnDev
<1>6. FdsInv(h)' BY <1>1, <1>3, <1>4, <1>5 DEF FdsInv
<1>7. MapInv(h)' BY <1>4, <1>5 DEF MapInv, Mapped
<1> QED BY <1>2, <1>4, <1>6, <1>7, MemUpdate, MemOf, SameRegs, MemFrame DEF InitClose

LEMMA InitOpenDevStep ==
    ASSUME MemInv, NEW h \in Handles, InitOpenDev(h)
    PROVE  MemInv'
<1>1. OnDev(h) /\ mem[h].ret # "NULL" /\ mem[h].fds = 0 /\ mem[h].dev \in Devs
    BY MemOf DEF InitOpenDev, MemInv, FdsInv, MapInv, InitOnDev, OnDev
<1> DEFINE n == mem[h].fds + 1
           i == reg[mem[h].dev].id
           k == mem[h].size \div PAGE_SIZE
           r == [mem[h] EXCEPT !.pc = "mmap", !.fds = n, !.id = i, !.num_pages = k]
<1>2. CASE /\ Registered(mem[h].dev) /\ nfds' = nfds + 1
           /\ mem' = [mem EXCEPT ![h].pc = "mmap", ![h].fds = @ + 1,
                                 ![h].id = reg[mem[h].dev].id,
                                 ![h].num_pages = mem[h].size \div PAGE_SIZE]
  <2>1. mem' = [mem EXCEPT ![h] = r] BY <1>2, MemOf, Zenon DEF MemRec
  <2>2. i \in Nat /\ i \in 1 .. regs BY <1>1, <1>2 DEF Registered, MemInv, MemTypes
  <2>3. "mmap" \in Labels /\ n \in Int /\ n = 1 /\ k \in Nat
      BY <1>1, MemOf, Rounding DEF Labels
  <2>4. k = mem[h].size \div PAGE_SIZE OBVIOUS
  <2> HIDE DEF n, i, k
  <2>5. /\ r \in MemRec /\ r.pc = "mmap" /\ r.dev = mem[h].dev /\ r.ret = mem[h].ret
        /\ r.fds = n /\ r.id = i /\ r.num_pages = k /\ r.size = mem[h].size
      BY <2>2, <2>3, MemOf, Zenon DEF MemRec
  <2> HIDE DEF r
  <2>6. mem'[h] = r /\ OnDev(h)' BY <1>1, <2>1, <2>5, MemUpdate, Zenon DEF OnDev
  <2>7. FdsInv(h)' BY <1>1, <2>3, <2>5, <2>6 DEF FdsInv
  <2>8. MapInv(h)' BY <2>2, <2>4, <2>5, <2>6 DEF MapInv, InitOpenDev, Mapped
  <2>9. RegStep BY SameRegs, Zenon DEF InitOpenDev
  <2>10. nfds' \in Int BY <1>2, MemOf
  <2>11. mem' \in [Handles -> MemRec] /\ \A g \in Handles \ {h} : mem'[g] = mem[g]
      BY <2>1, <2>5, MemUpdate, Zenon
  <2> QED BY <2>7, <2>8, <2>9, <2>10, <2>11, MemFrame, Zenon
<1>3. CASE Fail(h, mem[h].fds) /\ nfds' = nfds
    BY <1>1, <1>3, MemFail, MemOf DEF InitOpenDev
<1> QED BY <1>2, <1>3 DEF InitOpenDev

\* The frames of a mapping: as many hugepages as its size needs.
LEMMA FramesSeq ==
    ASSUME MemInv, NEW h \in Handles, NEW f \in Frames(h), MmapOk(h)
    PROVE  /\ f \in Seq(Nat) /\ f[1] \in Nat
           /\ ~OnDev(h) => Len(f) = HugesFor(mem[h].size)
<1>1. CASE OnDev(h)
  <2>1. f = <<1>> BY <1>1, Zenon DEF Frames, OnDev
  <2> QED BY <1>1, <2>1
<1>2. CASE ~OnDev(h)
  <2>1. HugesFor(mem[h].size) \in Nat /\ HugesFor(mem[h].size) > 0
      BY MemOf, Rounding DEF MmapOk
  <2>2. f \in [1 .. HugesFor(mem[h].size) -> {HugePages * k : k \in 1 .. NrHuge}]
      BY <1>2, Zenon DEF Frames, OnDev
  <2>3. {HugePages * k : k \in 1 .. NrHuge} \subseteq Nat BY MemBasics
  <2>4. f \in [1 .. HugesFor(mem[h].size) -> Nat] BY <2>2, <2>3
  <2> QED BY <1>2, <2>1, <2>4
<1> QED BY <1>1, <1>2

LEMMA InitMmapStep ==
    ASSUME MemInv, NEW h \in Handles, InitMmap(h)
    PROVE  MemInv'
<1>1. mem[h].pc = "mmap" /\ mem[h].ret # "NULL" /\ FdsInv(h) /\ MapInv(h)
    BY DEF InitMmap, MemInv, FdsInv
<1>2. ASSUME NEW f \in Frames(h), MmapOk(h), UNCHANGED <<reg, regs, nfds>>,
             mem' = [mem EXCEPT ![h].pc = "phys", ![h].frame = f]
      PROVE  MemInv'
  <2> DEFINE r == [mem[h] EXCEPT !.pc = "phys", !.frame = f]
  <2>1. mem' = [mem EXCEPT ![h] = r] BY <1>2, MemOf, Zenon DEF MemRec
  <2>2. "phys" \in Labels /\ f \in Seq(Nat) /\ f[1] \in Nat BY <1>2, FramesSeq DEF Labels
  <2>3. /\ r \in MemRec /\ r.pc = "phys" /\ r.dev = mem[h].dev /\ r.ret = mem[h].ret
        /\ r.id = mem[h].id /\ r.num_pages = mem[h].num_pages /\ r.size = mem[h].size
        /\ r.frame = f
      BY <2>2, MemOf, Zenon DEF MemRec
  <2> HIDE DEF r
  <2>4. mem'[h] = r /\ (OnDev(h)' <=> OnDev(h)) BY <2>1, <2>3, MemUpdate, Zenon DEF OnDev
  <2>5. FdsInv(h)' BY <1>1, <2>3, <2>4 DEF FdsInv
  <2>6. MapInv(h)'
    <3>1. CASE OnDev(h)
      <4>1. mem[h].id \in 1 .. regs' /\ mem[h].num_pages = mem[h].size \div PAGE_SIZE
          BY <1>1, <1>2, <3>1 DEF MapInv, Mapped
      <4>2. reg'[mem[h].dev].id = mem[h].id
              => PagesFor(mem[h].size) <= reg'[mem[h].dev].pages
          BY <1>2, <3>1 DEF MmapOk, OnDev
      <4> QED BY <2>2, <2>3, <2>4, <3>1, <4>1, <4>2 DEF MapInv, InitOnDev, ExitOnDev, Mapped
    <3>2. CASE ~OnDev(h)
      <4>1. mem[h].num_pages = PagesFor(mem[h].size) BY <1>1, <3>2 DEF MapInv, Mapped
      <4>2. Len(f) = HugesFor(mem[h].size) BY <1>2, <3>2, FramesSeq
      <4> QED BY <2>2, <2>3, <2>4, <3>2, <4>1, <4>2 DEF MapInv, InitOnDev, ExitOnDev, Mapped
    <3> QED BY <3>1, <3>2
  <2> QED BY <1>2, <2>1, <2>3, <2>5, <2>6, MemUpdate, MemOf, SameRegs, MemFrame, Zenon
<1>3. CASE /\ ~OnDev(h) /\ Fail(h, mem[h].fds) /\ UNCHANGED <<reg, regs, nfds>>
    BY <1>3, MemFail, MemOf
<1>4. CASE /\ OnDev(h) /\ Fail(h, mem[h].fds - 1) /\ nfds' = nfds - 1
           /\ UNCHANGED <<reg, regs>>
  <2>1. mem[h].fds = 1 BY <1>1, <1>4 DEF FdsInv
  <2> QED BY <1>4, <2>1, MemFail, MemOf
<1> QED BY <1>2, <1>3, <1>4 DEF InitMmap, OnDev

\* virt_to_phys(): the mapping stays, and paddr becomes 0 or its first page.
LEMMA PhysFrame ==
    ASSUME MemInv, NEW h \in Handles, mem[h].pc \in Mapped, NEW r \in MemRec,
           mem' = [mem EXCEPT ![h] = r], UNCHANGED <<reg, regs>>, nfds' \in Int,
           r.pc \in {"read", "ready"}, r.ret \in {mem[h].ret, "ok"}, r.dev = mem[h].dev,
           r.id = mem[h].id, r.num_pages = mem[h].num_pages, r.size = mem[h].size,
           r.frame = mem[h].frame, r.pc = "ready" => r.paddr \in {0, r.frame[1]}
    PROVE  MemInv'
<1>1. mem'[h] = r /\ (OnDev(h)' <=> OnDev(h)) BY MemUpdate, Zenon DEF OnDev
<1>2. FdsInv(h) /\ MapInv(h) BY DEF MemInv
<1>3. FdsInv(h)' BY <1>1, <1>2 DEF FdsInv, Mapped
<1>4. MapInv(h)' BY <1>1, <1>2 DEF MapInv, InitOnDev, ExitOnDev, Mapped
<1> QED BY <1>3, <1>4, MemUpdate, SameRegs, MemFrame, Zenon

LEMMA PhysReturn ==
    ASSUME MemInv, NEW h \in Handles, mem[h].pc \in Mapped, NEW n \in Int,
           NEW a \in {0, mem[h].frame[1]}, InitReturn(h, a, n),
           UNCHANGED <<reg, regs>>, nfds' \in Int
    PROVE  MemInv'
<1> DEFINE r == [mem[h] EXCEPT !.pc = "ready", !.ret = "ok", !.paddr = a, !.fds = n]
<1>1. mem' = [mem EXCEPT ![h] = r] BY MemOf, Zenon DEF InitReturn, MemRec
<1>2. "ready" \in Labels /\ a \in Nat BY DEF Labels, MemInv, MapInv
<1>3. /\ r \in MemRec /\ r.pc = "ready" /\ r.dev = mem[h].dev /\ r.ret = "ok"
      /\ r.id = mem[h].id /\ r.num_pages = mem[h].num_pages /\ r.size = mem[h].size
      /\ r.frame = mem[h].frame /\ r.paddr = a
    BY <1>2, MemOf, Zenon DEF MemRec
<1> HIDE DEF r
<1> QED BY <1>1, <1>3, PhysFrame, Zenon

LEMMA VirtToPhysStep ==
    ASSUME MemInv, NEW h \in Handles, VirtToPhysOpen(h) \/ VirtToPhysRead(h)
    PROVE  MemInv'
<1>1. mem[h].pc \in Mapped BY DEF VirtToPhysOpen, VirtToPhysRead, Mapped
<1>2. UNCHANGED <<reg, regs>> /\ nfds' \in Int BY MemOf DEF VirtToPhysOpen, VirtToPhysRead
<1> DEFINE n == mem[h].fds + 1
           r == [mem[h] EXCEPT !.pc = "read", !.fds = n]
<1>3. CASE mem' = [mem EXCEPT ![h].pc = "read", ![h].fds = @ + 1]
  <2>1. mem' = [mem EXCEPT ![h] = r] BY <1>3, MemOf, Zenon DEF MemRec
  <2>2. "read" \in Labels /\ n \in Int BY MemOf DEF Labels
  <2> HIDE DEF n
  <2>3. /\ r \in MemRec /\ r.pc = "read" /\ r.dev = mem[h].dev /\ r.ret = mem[h].ret
        /\ r.id = mem[h].id /\ r.num_pages = mem[h].num_pages /\ r.size = mem[h].size
        /\ r.frame = mem[h].frame
      BY <2>2, MemOf, Zenon DEF MemRec
  <2> HIDE DEF r
  <2>4. r.pc # "ready" BY <2>3
  <2> QED BY <1>1, <1>2, <2>1, <2>3, <2>4, PhysFrame, Zenon
<1>4. ASSUME NEW k \in Int, NEW a \in {0, mem[h].frame[1]}, InitReturn(h, a, k) PROVE MemInv'
    BY <1>1, <1>2, <1>4, PhysReturn
<1> QED BY <1>3, <1>4, MemOf DEF VirtToPhysOpen, VirtToPhysRead

\* A step of pop_mem_exit(): the mapping is not looked at again.
LEMMA ExitFrame ==
    ASSUME MemInv, NEW h \in Handles, NEW r \in MemRec, mem' = [mem EXCEPT ![h] = r],
           r.ret # "NULL", RegStep, nfds' \in Int,
           r.pc = "free" \/ (r.pc \in ExitOnDev /\ r.dev # HUGE)
    PROVE  MemInv'
<1>1. mem'[h] = r /\ (OnDev(h)' <=> r.dev # HUGE) BY MemUpdate, Zenon
<1>2. FdsInv(h)' BY <1>1 DEF FdsInv, ExitOnDev
<1>3. MapInv(h)' BY <1>1 DEF MapInv, InitOnDev, ExitOnDev, Mapped
<1> QED BY <1>2, <1>3, MemUpdate, MemFrame, Zenon

LEMMA ExitLabels ==
    ExitOnDev \subseteq Labels /\ "free" \in Labels /\ \A l \in ExitOnDev : l # "free"
BY DEF ExitOnDev, Labels

\* The next label of pop_mem_exit(), with other descriptors and result.
LEMMA ExitGoOn ==
    ASSUME MemInv, NEW h \in Handles, OnDev(h), NEW l \in ExitOnDev, NEW n \in Int,
           NEW ret1 \in {"ok", "0", "-1", "none"},
           mem' = [mem EXCEPT ![h].pc = l, ![h].fds = n, ![h].ret = ret1],
           RegStep, nfds' \in Int
    PROVE  MemInv'
<1> DEFINE r == [mem[h] EXCEPT !.pc = l, !.fds = n, !.ret = ret1]
<1>1. mem' = [mem EXCEPT ![h] = r] BY MemOf, Zenon DEF MemRec
<1>2. r \in MemRec /\ r.pc = l /\ r.dev = mem[h].dev /\ r.ret = ret1
    BY MemOf, ExitLabels, Zenon DEF MemRec
<1>3. ret1 # "NULL" OBVIOUS
<1> HIDE DEF r
<1> QED BY <1>1, <1>2, <1>3, ExitFrame, Zenon DEF OnDev

\* pop_mem_exit() is through, and the handle can be used again.
LEMMA ExitReturns ==
    ASSUME MemInv, NEW h \in Handles, NEW n \in Int,
           mem' = [mem EXCEPT ![h] = [Blank EXCEPT !.ret = "0", !.fds = n]],
           RegStep, nfds' \in Int
    PROVE  MemInv'
<1> DEFINE r == [Blank EXCEPT !.ret = "0", !.fds = n]
<1>1. r \in MemRec /\ r.pc = "free" /\ r.ret = "0" BY BlankRec, Zenon DEF MemRec, Blank
<1>2. mem' = [mem EXCEPT ![h] = r] OBVIOUS
<1> HIDE DEF r
<1> QED BY <1>1, <1>2, ExitFrame, Zenon

LEMMA ExitStep ==
    ASSUME MemInv, NEW h \in Handles,
           ExitStart(h) \/ ExitOpen(h) \/ ExitIoctl(h) \/ ExitClose(h)
    PROVE  MemInv'
<1>1. mem[h].pc # "free" => mem[h].ret # "NULL" BY DEF MemInv, FdsInv
<1>2. mem[h].ret \in {"none", "ok", "NULL", "0", "-1"} BY MemOf DEF MemRec
<1>3. mem[h].pc \in ExitOnDev => OnDev(h) BY DEF MemInv, MapInv
<1>4. {"xopen", "xioctl", "xclose", "gone"} = ExitOnDev BY DEF ExitOnDev
<1>5. CASE ExitStart(h)
  <2>1. RegStep /\ nfds' \in Int BY <1>5, SameRegs, MemOf DEF ExitStart
  <2>2. CASE ~OnDev(h)
    <3> DEFINE n == Blank.fds
    <3>1. n \in Int BY DEF Blank
    <3>2. [Blank EXCEPT !.ret = "0"] = [Blank EXCEPT !.ret = "0", !.fds = n] BY Zenon DEF Blank
    <3>3. mem' = [mem EXCEPT ![h] = [Blank EXCEPT !.ret = "0", !.fds = n]]
        BY <1>5, <2>2, <3>2, Zenon DEF ExitStart, OnDev
    <3> HIDE DEF n
    <3> QED BY <2>1, <3>1, <3>3, ExitReturns, Zenon
  <2>3. CASE OnDev(h)
    <3>1. /\ mem' = [mem EXCEPT ![h].pc = "xopen", ![h].fds = mem[h].fds, ![h].ret = mem[h].ret]
          /\ mem[h].ret \in {"ok", "0", "-1", "none"}
        BY <1>1, <1>2, <1>5, <2>3, MemOf, Zenon DEF ExitStart, OnDev, MemRec
    <3> QED BY <1>4, <2>1, <2>3, <3>1, ExitGoOn, MemOf, Zenon
  <2> QED BY <2>2, <2>3
<1>6. CASE ExitOpen(h)
  <2>1. RegStep /\ nfds' \in Int /\ OnDev(h)
      BY <1>3, <1>4, <1>6, SameRegs, MemOf DEF ExitOpen
  <2>2. CASE mem' = [mem EXCEPT ![h].pc = "xioctl", ![h].fds = @ + 1]
    <3> DEFINE n == mem[h].fds + 1
    <3>1. mem' = [mem EXCEPT ![h].pc = "xioctl", ![h].fds = n, ![h].ret = mem[h].ret]
        BY <2>2, MemOf, Zenon DEF MemRec
    <3>2. mem[h].ret \in {"ok", "0", "-1", "none"} /\ n \in Int
        BY <1>1, <1>2, <1>6, MemOf DEF ExitOpen
    <3> HIDE DEF n
    <3> QED BY <1>4, <2>1, <3>1, <3>2, ExitGoOn, Zenon
  <2>3. CASE mem' = [mem EXCEPT ![h].pc = "gone", ![h].ret = "-1"]
    <3>1. mem' = [mem EXCEPT ![h].pc = "gone", ![h].fds = mem[h].fds, ![h].ret = "-1"]
        BY <2>3, MemOf, Zenon DEF MemRec
    <3> QED BY <1>4, <2>1, <3>1, MemOf, ExitGoOn, Zenon
  <2> QED BY <1>6, <2>2, <2>3 DEF ExitOpen
<1>7. CASE ExitIoctl(h)
  <2>1. nfds' \in Int /\ OnDev(h) BY <1>3, <1>4, <1>7, MemOf DEF ExitIoctl
  <2>2. CASE reg' = [reg EXCEPT ![mem[h].dev] = None] /\ mem' = [mem EXCEPT ![h].pc = "xclose"]
    <3>1. reg \in [Devs -> [id : Nat, pages : 0 .. PoolPages]] /\ regs \in Nat /\ regs' = regs
        BY <1>7 DEF ExitIoctl, MemInv, MemTypes
    <3>2. None \in [id : Nat, pages : 0 .. PoolPages] /\ None.id = 0
        BY MemBasics DEF None
    <3>3. RegStep
      <4>1. reg' \in [Devs -> [id : Nat, pages : 0 .. PoolPages]] BY <2>2, <3>1, <3>2, Zenon
      <4>2. \A d \in Devs : reg'[d] = reg[d] \/ reg'[d] = None BY <2>2, <3>1
      <4> QED BY <3>1, <3>2, <4>1, <4>2 DEF RegStep
    <3>4. /\ mem' = [mem EXCEPT ![h].pc = "xclose", ![h].fds = mem[h].fds, ![h].ret = mem[h].ret]
          /\ mem[h].ret \in {"ok", "0", "-1", "none"}
        BY <1>1, <1>2, <1>7, <2>2, MemOf, Zenon DEF ExitIoctl, MemRec
    <3> QED BY <1>4, <2>1, <3>3, <3>4, MemOf, ExitGoOn, Zenon
  <2>3. CASE reg' = reg /\ mem' = [mem EXCEPT ![h].pc = "gone", ![h].ret = "-1"]
    <3>1. mem' = [mem EXCEPT ![h].pc = "gone", ![h].fds = mem[h].fds, ![h].ret = "-1"]
        BY <2>3, MemOf, Zenon DEF MemRec
    <3>2. RegStep BY <1>7, <2>3, SameRegs DEF ExitIoctl
    <3> QED BY <1>4, <2>1, <3>1, <3>2, MemOf, ExitGoOn, Zenon
  <2> QED BY <1>7, <2>2, <2>3 DEF ExitIoctl
<1>8. CASE ExitClose(h)
  <2> DEFINE n == mem[h].fds - 1
  <2>1. RegStep /\ nfds' \in Int /\ n \in Int BY <1>8, SameRegs, MemOf DEF ExitClose
  <2>2. mem' = [mem EXCEPT ![h] = [Blank EXCEPT !.ret = "0", !.fds = n]]
      BY <1>8 DEF ExitClose
  <2> HIDE DEF n
  <2> QED BY <2>1, <2>2, ExitReturns, Zenon
<1> QED BY <1>5, <1>6, <1>7, <1>8

\* MemInv is an invariant.
LEMMA MemInvariant == MemSpec => []MemInv
<1>1. MemInit => MemInv
  <2> SUFFICES ASSUME MemInit PROVE MemInv OBVIOUS
  <2>1. MemTypes BY BlankRec, MemBasics DEF MemInit, MemTypes, None
  <2>2. \A h \in Handles : mem[h] = Blank BY Zenon DEF MemInit
  <2>3. ASSUME NEW h \in Handles PROVE FdsInv(h) /\ MapInv(h)
    <3>1. mem[h].pc = "free" /\ mem[h].ret = "none" BY <2>2 DEF Blank
    <3> QED BY <3>1 DEF FdsInv, MapInv, InitOnDev, ExitOnDev, Mapped
  <2> QED BY <2>1, <2>3 DEF MemInv
<1>2. MemInv /\ [MemNext]_memvars => MemInv'
  <2> SUFFICES ASSUME MemInv, [MemNext]_memvars PROVE MemInv' OBVIOUS
  <2>1. CASE UNCHANGED memvars
      BY <2>1 DEF memvars, MemInv, MemTypes, FdsInv, MapInv, OnDev
  <2>2. ASSUME NEW h \in Handles, Step(h) PROVE MemInv'
      BY <2>2, InitStartStep, InitHugeStep, InitOpenStep, InitIoctlStep, InitCloseStep,
         InitOpenDevStep, InitMmapStep, VirtToPhysStep, ExitStep DEF Step
  <2> QED BY <2>1, <2>2 DEF MemNext
<1> QED BY <1>1, <1>2, PTL DEF MemSpec

(***************************************************************************)
(* For any number of pop_mem_t, any devices, sizes and limits: whatever    *)
(* other threads register and unregister between the ioctl, the open and   *)
(* the mmap of pop_mem_init(), the pages pop_buf_alloc() hands out lie in  *)
(* the registration that was mapped, or in the hugepages of the mapping.   *)
(***************************************************************************)
THEOREM PagesMappedTheorem == MemSpec => []PagesMapped
<1>1. MemInv => PagesMapped
  <2> SUFFICES ASSUME MemInv, NEW h \in Handles, Ready(h)
               PROVE  /\ OnDev(h) /\ reg[mem[h].dev].id = mem[h].id =>
                            mem[h].num_pages <= reg[mem[h].dev].pages
                      /\ ~OnDev(h) => mem[h].num_pages <= HugePages * Len(mem[h].frame)
      BY DEF PagesMapped
  <2>1. mem[h].pc = "ready" /\ MapInv(h) BY DEF Ready, MemInv
  <2>2. mem[h].size \in Nat /\ mem[h].dev \in Devs \cup {HUGE} BY MemOf
  <2>3. ASSUME OnDev(h), reg[mem[h].dev].id = mem[h].id
        PROVE  mem[h].num_pages <= reg[mem[h].dev].pages
    <3>1. /\ mem[h].num_pages = mem[h].size \div PAGE_SIZE
          /\ PagesFor(mem[h].size) <= reg[mem[h].dev].pages
        BY <2>1, <2>3 DEF MapInv, Mapped
    <3>2. reg[mem[h].dev].pages \in Nat BY <2>2, <2>3 DEF OnDev, MemInv, MemTypes
    <3> QED BY <2>2, <3>1, <3>2, Rounding
  <2>4. ASSUME ~OnDev(h) PROVE mem[h].num_pages <= HugePages * Len(mem[h].frame)
      BY <2>1, <2>2, <2>4, Rounding, Zenon DEF MapInv, Mapped
  <2> QED BY <2>3, <2>4
<1> QED BY <1>1, MemInvariant, PTL

(***************************************************************************)
(* Under the same conditions: when pop_mem_init() on a device returns      *)
(* NULL, whichever call failed, it has closed every descriptor it opened.  *)
(***************************************************************************)
THEOREM FailedInitClosesAllTheorem == MemSpec => []FailedInitClosesAll
<1>1. MemInv => FailedInitClosesAll BY DEF MemInv, FdsInv, FailedInitClosesAll
<1> QED BY <1>1, MemInvariant, PTL

\* While the mapping of a device is used, its registration is the current one.
HeldAt == {"mmap", "phys", "read", "ready", "xopen", "xioctl"}

Held(h) ==
    mem[h].pc \in HeldAt /\ OnDev(h) =>
        reg[mem[h].dev].id = mem[h].id /\ mem[h].id # 0

\* What a step of h leaves alone: the other pop_mem_t, and all registrations
\* but that of its own device; and pop_mem_exit() fails for want of a descriptor.
HeldStep(h) ==
    /\ \A g \in Handles \ {h} : mem'[g] = mem[g]
    /\ \A d \in Devs : \/ reg'[d] = reg[d]
                       \/ d = mem[h].dev /\ mem[h].pc \in {"ioctl", "xioctl"}
    /\ Held(h)'
    /\ mem'[h].ret = "-1" => mem[h].ret = "-1" \/ ~CanOpen

LEMMA HeldFail ==
    ASSUME MemInv, NEW h \in Handles, NEW fds, Fail(h, fds), reg' = reg
    PROVE  HeldStep(h)
<1>1. /\ \A g \in Handles \ {h} : mem'[g] = mem[g]
      /\ mem'[h].pc = "free" /\ mem'[h].ret = "NULL"
    BY MemOf, Zenon DEF Fail, Blank
<1>2. Held(h)' BY <1>1 DEF Held, HeldAt
<1> QED BY <1>1, <1>2 DEF HeldStep

\* A step of h that leads to no mapping, or keeps the one it has.
LEMMA HeldSame ==
    ASSUME NEW h \in Handles, Held(h), reg' = reg,
           \A g \in Handles \ {h} : mem'[g] = mem[g],
           \/ mem'[h].pc \notin HeldAt \/ mem'[h].dev = HUGE
           \/ /\ mem[h].pc \in HeldAt
              /\ mem'[h].dev = mem[h].dev /\ mem'[h].id = mem[h].id,
           mem'[h].ret = "-1" => mem[h].ret = "-1" \/ ~CanOpen
    PROVE  HeldStep(h)
<1>1. Held(h)' BY DEF Held, OnDev
<1> QED BY <1>1 DEF HeldStep

LEMMA HeldInit ==
    ASSUME MemInv, NEW h \in Handles, Held(h),
           \/ \E d \in Devs \cup {HUGE}, bytes \in Sizes : InitStart(h, d, bytes)
           \/ InitHuge(h) \/ InitOpen(h) \/ InitClose(h)
    PROVE  HeldStep(h)
<1> USE MemOf
<1>1. ASSUME NEW d \in Devs \cup {HUGE}, NEW bytes \in Sizes, InitStart(h, d, bytes)
      PROVE  HeldStep(h)
  <2>1. /\ \A g \in Handles \ {h} : mem'[g] = mem[g]
        /\ mem'[h].pc = (IF d = HUGE THEN "huge" ELSE "open") /\ mem'[h].ret = "none"
        /\ reg' = reg
      BY <1>1, Zenon DEF InitStart, Blank
  <2>2. mem'[h].pc \notin HeldAt BY <2>1 DEF HeldAt
  <2> QED BY <2>1, <2>2, HeldSame
<1>2. CASE InitHuge(h)
  <2>1. ~OnDev(h) BY <1>2 DEF InitHuge, MemInv, MapInv
  <2>2. CASE Fail(h, mem[h].fds) BY <1>2, <2>2, HeldFail DEF InitHuge
  <2> DEFINE size == IF mem[h].arg # 0 THEN mem[h].arg
                     ELSE HugePages * PAGE_SIZE * (NrHuge \div 4)
             n == PagesFor(size)
  <2>3. CASE mem' = [mem EXCEPT ![h].pc = "mmap", ![h].size = size,
                                ![h].num_pages = n, ![h].fds = @ + 1]
    <3> HIDE DEF n, size
    <3>1. /\ \A g \in Handles \ {h} : mem'[g] = mem[g]
          /\ mem'[h].dev = mem[h].dev /\ mem'[h].ret = mem[h].ret
        BY <2>3 DEF MemRec
    <3>2. reg' = reg BY <1>2 DEF InitHuge
    <3> QED BY <2>1, <3>1, <3>2, HeldSame DEF OnDev
  <2> QED BY <1>2, <2>2, <2>3 DEF InitHuge
<1>3. CASE InitOpen(h)
  <2>1. CASE Fail(h, mem[h].fds) BY <1>3, <2>1, HeldFail DEF InitOpen
  <2>2. CASE mem' = [mem EXCEPT ![h].pc = "ioctl", ![h].fds = @ + 1]
    <3>1. /\ \A g \in Handles \ {h} : mem'[g] = mem[g]
          /\ mem'[h].pc = "ioctl" /\ mem'[h].ret = mem[h].ret
        BY <2>2 DEF MemRec
    <3>2. reg' = reg BY <1>3 DEF InitOpen
    <3> QED BY <3>1, <3>2, HeldSame DEF HeldAt
  <2> QED BY <1>3, <2>1, <2>2 DEF InitOpen
<1>4. CASE InitClose(h)
  <2>1. /\ \A g \in Handles \ {h} : mem'[g] = mem[g]
        /\ mem'[h].pc = "opendev" /\ mem'[h].ret = mem[h].ret /\ reg' = reg
      BY <1>4 DEF InitClose, MemRec
  <2> QED BY <2>1, HeldSame DEF HeldAt
<1> QED BY <1>1, <1>2, <1>3, <1>4, Zenon

LEMMA HeldIoctl == ASSUME MemInv, NEW h \in Handles, InitIoctl(h) PROVE HeldStep(h)
<1>1. CASE Fail(h, mem[h].fds - 1) /\ reg' = reg BY <1>1, HeldFail
<1>2. CASE \E size : mem' = [mem EXCEPT ![h].pc = "close", ![h].size = size]
  <2> PICK size : mem' = [mem EXCEPT ![h].pc = "close", ![h].size = size]
      BY <1>2, Zenon
  <2>1. /\ \A g \in Handles \ {h} : mem'[g] = mem[g]
        /\ mem'[h].pc = "close" /\ mem'[h].ret = mem[h].ret
      BY MemOf DEF MemRec
  <2>2. Held(h)' BY <2>1 DEF Held, HeldAt
  <2>3. \A d \in Devs : reg'[d] = reg[d] \/ d = mem[h].dev
      BY DEF InitIoctl, MemInv, MemTypes, Fail
  <2>4. mem[h].pc = "ioctl" BY DEF InitIoctl
  <2> QED BY <2>1, <2>2, <2>3, <2>4, Zenon DEF HeldStep
<1> QED BY <1>1, <1>2, Zenon DEF InitIoctl

LEMMA HeldMap ==
    ASSUME MemInv, NEW h \in Handles, Held(h),
           InitOpenDev(h) \/ InitMmap(h) \/ VirtToPhysOpen(h) \/ VirtToPhysRead(h)
    PROVE  HeldStep(h)
<1>1. CASE InitOpenDev(h)
  <2>1. CASE Fail(h, mem[h].fds) BY <1>1, <2>1, HeldFail DEF InitOpenDev
  <2>2. ASSUME NEW id, NEW n, id = reg[mem[h].dev].id, Registered(mem[h].dev),
               mem' = [mem EXCEPT ![h].pc = "mmap", ![h].fds = @ + 1, ![h].id = id,
                                  ![h].num_pages = n]
        PROVE  HeldStep(h)
    <3>1. /\ \A g \in Handles \ {h} : mem'[g] = mem[g]
          /\ mem'[h].dev = mem[h].dev /\ mem'[h].ret = mem[h].ret /\ mem'[h].id = id
        BY <2>2, MemOf DEF MemRec
    <3>2. reg' = reg BY <1>1 DEF InitOpenDev
    <3>3. Held(h)' BY <2>2, <3>1, <3>2 DEF Held, Registered
    <3> QED BY <3>1, <3>2, <3>3 DEF HeldStep
  <2> QED BY <1>1, <2>1, <2>2, Zenon DEF InitOpenDev
<1>2. CASE InitMmap(h)
  <2>1. mem[h].pc = "mmap" /\ reg' = reg BY <1>2 DEF InitMmap
  <2>2. CASE \E n : Fail(h, n) BY <2>1, <2>2, HeldFail
  <2>3. ASSUME NEW f, mem' = [mem EXCEPT ![h].pc = "phys", ![h].frame = f]
        PROVE  HeldStep(h)
    <3>1. /\ \A g \in Handles \ {h} : mem'[g] = mem[g]
          /\ mem'[h].dev = mem[h].dev /\ mem'[h].ret = mem[h].ret /\ mem'[h].id = mem[h].id
        BY <2>3, MemOf, Zenon DEF MemRec
    <3> QED BY <2>1, <3>1, HeldSame DEF HeldAt
  <2> QED BY <1>2, <2>2, <2>3, Zenon DEF InitMmap
<1>3. CASE VirtToPhysOpen(h) \/ VirtToPhysRead(h)
  <2>1. mem[h].pc \in {"phys", "read"} /\ reg' = reg
      BY <1>3 DEF VirtToPhysOpen, VirtToPhysRead
  <2>2. /\ \A g \in Handles \ {h} : mem'[g] = mem[g]
        /\ mem'[h].dev = mem[h].dev /\ mem'[h].ret \in {mem[h].ret, "ok"}
        /\ mem'[h].id = mem[h].id
    <3>1. CASE mem' = [mem EXCEPT ![h].pc = "read", ![h].fds = @ + 1]
        BY <3>1, MemOf, Zenon DEF MemRec
    <3>2. ASSUME NEW a, NEW n, InitReturn(h, a, n)
          PROVE  /\ \A g \in Handles \ {h} : mem'[g] = mem[g]
                 /\ mem'[h].dev = mem[h].dev /\ mem'[h].ret = "ok" /\ mem'[h].id = mem[h].id
        BY <3>2, MemOf, Zenon DEF InitReturn, MemRec
    <3> QED BY <1>3, <3>1, <3>2 DEF VirtToPhysOpen, VirtToPhysRead
  <2> QED BY <2>1, <2>2, HeldSame DEF HeldAt
<1> QED BY <1>1, <1>2, <1>3

LEMMA HeldExit ==
    ASSUME MemInv, NEW h \in Handles, Held(h),
           ExitStart(h) \/ ExitOpen(h) \/ ExitIoctl(h) \/ ExitClose(h)
    PROVE  HeldStep(h)
<1> USE MemOf
<1>1. ASSUME NEW r, r = [Blank EXCEPT !.ret = "0"]
                       \/ r = [Blank EXCEPT !.ret = "0", !.fds = mem[h].fds - 1],
             mem' = [mem EXCEPT ![h] = r], reg' = reg
      PROVE  HeldStep(h)
  <2>1. mem'[h] = r /\ \A g \in Handles \ {h} : mem'[g] = mem[g] BY <1>1, Zenon
  <2>2. r.pc = "free" /\ r.ret = "0" BY <1>1, Zenon DEF Blank
  <2> QED BY <1>1, <2>1, <2>2, HeldSame DEF HeldAt
<1>2. CASE ExitStart(h) /\ OnDev(h)
  <2>1. /\ \A g \in Handles \ {h} : mem'[g] = mem[g]
        /\ mem'[h].dev = mem[h].dev /\ mem'[h].id = mem[h].id /\ mem'[h].ret = mem[h].ret
        /\ reg' = reg /\ mem[h].pc = "ready"
      BY <1>2, Zenon DEF ExitStart, OnDev, MemRec
  <2> QED BY <2>1, HeldSame DEF HeldAt
<1>3. CASE ExitStart(h) /\ ~OnDev(h) BY <1>1, <1>3 DEF ExitStart, OnDev
<1>4. CASE ExitClose(h) BY <1>1, <1>4, Zenon DEF ExitClose
<1>5. CASE ExitOpen(h)
  <2>1. reg' = reg /\ mem[h].pc = "xopen" BY <1>5 DEF ExitOpen
  <2>2. CASE CanOpen /\ mem' = [mem EXCEPT ![h].pc = "xioctl", ![h].fds = @ + 1]
    <3>1. /\ \A g \in Handles \ {h} : mem'[g] = mem[g]
          /\ mem'[h].dev = mem[h].dev /\ mem'[h].id = mem[h].id
          /\ mem'[h].ret = mem[h].ret
        BY <2>2 DEF MemRec
    <3> QED BY <2>1, <3>1, HeldSame DEF HeldAt
  <2>3. CASE ~CanOpen /\ mem' = [mem EXCEPT ![h].pc = "gone", ![h].ret = "-1"]
    <3>1. /\ \A g \in Handles \ {h} : mem'[g] = mem[g]
          /\ mem'[h].dev = mem[h].dev /\ mem'[h].id = mem[h].id
        BY <2>3, ZenonT(40) DEF MemRec
    <3> QED BY <2>1, <2>3, <3>1, HeldSame DEF HeldAt
  <2> QED BY <1>5, <2>2, <2>3 DEF ExitOpen
<1>6. CASE ExitIoctl(h)
  <2>1. OnDev(h) /\ Registered(mem[h].dev)
      BY <1>6 DEF ExitIoctl, Held, HeldAt, MemInv, MapInv, ExitOnDev, Registered
  <2>2. /\ \A g \in Handles \ {h} : mem'[g] = mem[g]
        /\ mem'[h].pc = "xclose" /\ mem'[h].ret = mem[h].ret
        /\ mem[h].pc = "xioctl" /\ reg' = [reg EXCEPT ![mem[h].dev] = None]
      BY <1>6, <2>1, ZenonT(40) DEF ExitIoctl, MemRec
  <2>3. Held(h)' BY <2>2 DEF Held, HeldAt
  <2>4. \A d \in Devs : reg'[d] = reg[d] \/ d = mem[h].dev
      BY <2>2 DEF MemInv, MemTypes
  <2> QED BY <2>2, <2>3, <2>4 DEF HeldStep
<1> QED BY <1>2, <1>3, <1>4, <1>5, <1>6

\* The registrations of the pop_mem_t in use stay, and only a missing
\* descriptor makes pop_mem_exit() fail.
LEMMA HeldNext ==
    ASSUME MemInv, OnePerDevice, \A h \in Handles : Held(h), [MemNext]_memvars
    PROVE  /\ \A h \in Handles : Held(h)'
           /\ ExitReturnsZero /\ CanOpen => ExitReturnsZero'
<1>1. CASE UNCHANGED memvars BY <1>1 DEF memvars, Held, OnDev, ExitReturnsZero
<1>2. ASSUME NEW h \in Handles, Step(h)
      PROVE  /\ \A g \in Handles : Held(g)'
             /\ ExitReturnsZero /\ CanOpen => ExitReturnsZero'
  <2>1. HeldStep(h)
      BY <1>2, HeldInit, HeldIoctl, HeldMap, HeldExit DEF Step
  <2>2. ASSUME NEW g \in Handles, g # h PROVE Held(g)'
    <3>1. mem'[g] = mem[g] /\ Held(g) BY <2>1, <2>2 DEF HeldStep
    <3>2. SUFFICES ASSUME mem[g].pc \in HeldAt, OnDev(g)
                   PROVE  reg'[mem[g].dev] = reg[mem[g].dev]
        BY <3>1 DEF Held, OnDev
    <3>3. InUse(g) /\ mem[g].dev \in Devs BY <3>2, MemOf DEF InUse, HeldAt, OnDev
    <3>4. CASE mem[h].pc \in {"ioctl", "xioctl"}
      <4>1. InUse(h) BY <3>4 DEF InUse
      <4>2. mem[g].dev # mem[h].dev BY <2>2, <3>2, <3>3, <4>1 DEF OnePerDevice
      <4> QED BY <2>1, <3>3, <4>2 DEF HeldStep
    <3>5. CASE mem[h].pc \notin {"ioctl", "xioctl"} BY <2>1, <3>3, <3>5 DEF HeldStep
    <3> QED BY <3>4, <3>5
  <2>3. Held(h)' BY <2>1 DEF HeldStep
  <2>4. ExitReturnsZero /\ CanOpen => ExitReturnsZero'
      BY <2>1 DEF HeldStep, ExitReturnsZero
  <2> QED BY <2>2, <2>3, <2>4
<1> QED BY <1>1, <1>2 DEF MemNext

(***************************************************************************)
(* What libpop.h says of a region, for a caller that has one pop_mem_t on  *)
(* a device at a time: the region stays allocated until its own            *)
(* pop_mem_exit(), whatever the threads of other devices do between the    *)
(* calls, and although an ioctl that failed may have returned 0.           *)
(***************************************************************************)
THEOREM RegionStaysTheorem == MemSpec /\ []OnePerDevice => []RegionStaysAllocated
<1> DEFINE AllHeld == \A h \in Handles : Held(h)
<1>1. MemInit => AllHeld BY DEF MemInit, Blank, Held, HeldAt
<1>2. MemInv /\ OnePerDevice /\ AllHeld /\ [MemNext]_memvars => AllHeld' BY HeldNext
<1>3. AllHeld => RegionStaysAllocated
    BY DEF Held, HeldAt, RegionStaysAllocated, Ready
<1> QED BY <1>1, <1>2, <1>3, MemInvariant, PTL DEF MemSpec

(***************************************************************************)
(* And what test_mem.c asserts of such a caller: pop_mem_exit() returns 0, *)
(* as long as the process may open one more file.                          *)
(***************************************************************************)
THEOREM ExitReturnsZeroTheorem ==
    MemSpec /\ []OnePerDevice /\ []CanOpen => []ExitReturnsZero
<1> DEFINE AllHeld == \A h \in Handles : Held(h)
<1>1. MemInit => AllHeld /\ ExitReturnsZero
    BY DEF MemInit, Blank, Held, HeldAt, ExitReturnsZero
<1>2. /\ MemInv /\ OnePerDevice /\ CanOpen /\ AllHeld /\ ExitReturnsZero
      /\ [MemNext]_memvars
      => AllHeld' /\ ExitReturnsZero'
    BY HeldNext
<1> QED BY <1>1, <1>2, MemInvariant, PTL DEF MemSpec

(***************************************************************************)
(* For any sizes and limits, once virt_to_phys() has found the first page: *)
(* in a region of a device that is registered as it was mapped, and in one *)
(* that fits a hugepage, every page pop_buf_alloc() gives out and every    *)
(* byte pop_virt_to_phys() translates has its physical address, and no     *)
(* byte of the pages of a device is refused.  The paddr of the first page  *)
(* is enough because the pages lie in one extent: on a device because      *)
(* pop_dev_mmap() compared the mapping with the registration.              *)
(***************************************************************************)
THEOREM AddressesRightTheorem == MemSpec => []AddressesRight
<1>1. MemInv => AddressesRight
  <2> SUFFICES ASSUME MemInv, NEW h \in Handles, Ready(h), mem[h].paddr # 0,
                      IF OnDev(h) THEN reg[mem[h].dev].id = mem[h].id
                      ELSE mem[h].num_pages <= HugePages
               PROVE  /\ \A i \in 0 .. mem[h].num_pages - 1 :
                            mem[h].paddr + i = PhysPage(h, i)
                      /\ \A o \in 0 .. mem[h].num_pages * PAGE_SIZE - 1 :
                            OnDev(h) \/ o <= mem[h].size =>
                                pop_virt_to_phys(h, o) = PhysByte(h, o)
      BY DEF AddressesRight
  <2>1. PICK n \in Nat, size \in Nat : n = mem[h].num_pages /\ size = mem[h].size
      BY MemOf DEF MemRec
  <2>2. PICK a \in Nat : a = mem[h].paddr /\ a = mem[h].frame[1]
      BY DEF Ready, MemInv, MapInv, Mapped
  <2>3. PICK x \in Nat : x = (IF OnDev(h) THEN PoolPages ELSE HugePages) /\ n <= x
    <3>1. CASE OnDev(h)
      <4>1. /\ mem[h].num_pages = mem[h].size \div PAGE_SIZE
            /\ PagesFor(mem[h].size) <= reg[mem[h].dev].pages
          BY <3>1 DEF Ready, MemInv, MapInv, Mapped
      <4>2. mem[h].dev \in Devs BY <3>1, MemOf DEF OnDev
      <4>3. reg[mem[h].dev].pages \in 0 .. PoolPages BY <4>2 DEF MemInv, MemTypes
      <4>4. size \div PAGE_SIZE \in Nat /\ size \div PAGE_SIZE <= PagesFor(size)
            /\ PagesFor(size) \in Nat
          BY Rounding
      <4>5. n <= PoolPages BY <2>1, <4>1, <4>3, <4>4, MemBasics
      <4> QED BY <3>1, <4>5, MemBasics
    <3>2. CASE ~OnDev(h) BY <2>1, <3>2, MemBasics
    <3> QED BY <3>1, <3>2
  <2>4. ASSUME NEW i \in 0 .. n - 1 PROVE a + i = PhysPage(h, i)
    <3>1. i \in Nat /\ i < x BY <2>3
    <3>2. i \div x = 0 /\ i % x = i BY <3>1
    <3>3. PhysPage(h, i) = mem[h].frame[1 + (i \div x)] + (i % x) BY <2>3, Zenon DEF PhysPage
    <3> QED BY <2>2, <3>2, <3>3
  <2>5. ASSUME NEW o \in 0 .. n * PAGE_SIZE - 1, OnDev(h) \/ o <= mem[h].size
        PROVE  pop_virt_to_phys(h, o) = PhysByte(h, o)
    <3>1. o \in Nat /\ o < n * PAGE_SIZE
      <4>1. n * PAGE_SIZE \in Int BY MemBasics
      <4> QED BY <2>5, <4>1
    <3>2. pop_virt_to_phys(h, o) = a * PAGE_SIZE + o
      <4>1. o <= size
        <5>1. CASE OnDev(h)
          <6>1. n = size \div PAGE_SIZE BY <2>1, <5>1 DEF Ready, MemInv, MapInv, Mapped
          <6>2. PAGE_SIZE * n <= size BY <6>1, MemBasics, Division
          <6> QED BY <3>1, <6>2, MemBasics
        <5> QED BY <2>1, <2>5, <5>1
      <4> QED BY <2>1, <2>2, <3>1, <4>1 DEF pop_virt_to_phys, Refused
    <3>3. PICK q \in Nat, r \in Nat :
            /\ q = o \div PAGE_SIZE /\ r = o % PAGE_SIZE
            /\ o = PAGE_SIZE * q + r /\ r < PAGE_SIZE
        BY <3>1, MemBasics
    <3>4. q < n
      <4> SUFFICES ASSUME n <= q PROVE FALSE OBVIOUS
      <4>1. PAGE_SIZE * n <= PAGE_SIZE * q BY MemBasics
      <4> QED BY <3>1, <3>3, <4>1, MemBasics
    <3>5. a + q = PhysPage(h, q) BY <2>4, <3>4
    <3>6. PhysByte(h, o) = (a + q) * PAGE_SIZE + r BY <3>3, <3>5, Zenon DEF PhysByte
    <3>7. (a + q) * PAGE_SIZE + r = a * PAGE_SIZE + (PAGE_SIZE * q + r) BY MemBasics
    <3> QED BY <3>2, <3>3, <3>6, <3>7
  <2> QED BY <2>1, <2>2, <2>4, <2>5
<1> QED BY <1>1, MemInvariant, PTL

------------------------------------------------------------------------------
(* pop_buf_t.                                                              *)

\* Values below WORD are themselves.
LEMMA WordSmall == \A x \in 0 .. WORD - 1 : Word(x) = x
  BY LensAssumption DEF Word

BufInv == BufTypeOK /\ DataInside

\* The four operations on a cursor inside the buffer, without wrap-around.
LEMMA Exact ==
    ASSUME BufInv, NEW len \in Lens
    PROVE  /\ Word(offset + length + len) = offset + length + len
           /\ offset + length + len <= Size => Word(length + len) = length + len
           /\ Word(offset) = offset
           /\ len <= length => /\ Word(length - len) = length - len
                               /\ Word(offset + len) = offset + len
           /\ len <= offset => /\ Word(length + len) = length + len
                               /\ Word(offset - len) = offset - len
  BY LensAssumption, WordSmall DEF BufInv, BufTypeOK, DataInside

\* What one operation does to the two ends of the data.
LEMMA Cursor ==
    ASSUME BufInv, NEW len \in Lens,
           pop_buf_put(len) \/ pop_buf_trim(len) \/ pop_buf_pull(len)
                            \/ pop_buf_push(len)
    PROVE  /\ BufInv'
           /\ offset' = offset \/ offset' + length' = offset + length
  <1> USE LensAssumption, Exact DEF BufInv, BufTypeOK, DataInside, Refuse, Move, NULL
  <1>1. CASE pop_buf_put(len)
    BY <1>1 DEF pop_buf_put
  <1>2. CASE pop_buf_trim(len)
    BY <1>2 DEF pop_buf_trim
  <1>3. CASE pop_buf_pull(len)
    BY <1>3 DEF pop_buf_pull
  <1>4. CASE pop_buf_push(len)
    BY <1>4 DEF pop_buf_push
  <1> QED
    BY <1>1, <1>2, <1>3, <1>4

\* pop_nm_set_buf() writes the slot only: the cursors and BufInv stay.
LEMMA SetBuf ==
    ASSUME BufInv, pop_nm_set_buf
    PROVE  BufInv' /\ offset' = offset /\ length' = length
  <1>1. pop_buf_len % SLOT_WORD \in 0 .. SLOT_WORD - 1
    <2>1. pop_buf_len \in Int
      BY LensAssumption DEF pop_buf_len, Word, BufInv, BufTypeOK
    <2> QED
      BY <2>1, LensAssumption
  <1> QED
    BY <1>1 DEF pop_nm_set_buf, BufInv, BufTypeOK, DataInside

(***************************************************************************)
(* For every buffer size and every sequence of calls whose lengths do not  *)
(* wrap a size_t, the data stays inside the buffer.                        *)
(***************************************************************************)
THEOREM DataInsideTheorem == BufSpec => [](BufTypeOK /\ DataInside)
  <1>1. BufInit => BufInv
    BY LensAssumption DEF BufInit, BufInv, BufTypeOK, DataInside, NULL
  <1>2. BufInv /\ [BufNext]_bufvars => BufInv'
    <2>1. BufInv /\ BufNext => BufInv'
      BY Cursor, SetBuf DEF BufNext
    <2>2. BufInv /\ UNCHANGED bufvars => BufInv'
      BY DEF BufInv, BufTypeOK, DataInside, bufvars
    <2> QED
      BY <2>1, <2>2
  <1>3. BufInv => BufTypeOK /\ DataInside
    BY DEF BufInv
  <1> QED
    BY <1>1, <1>2, <1>3, PTL DEF BufSpec

(***************************************************************************)
(* Under the same conditions no call moves both ends of the data.          *)
(***************************************************************************)
THEOREM OneEndMovesTheorem == BufSpec => OneEndMoves
  <1>1. BufInv /\ [BufNext]_bufvars => [Start' = Start \/ End' = End]_bufvars
    <2> SUFFICES ASSUME BufInv, BufNext PROVE Start' = Start \/ End' = End
      OBVIOUS
    <2>1. offset' = offset \/ offset' + length' = offset + length
      BY Cursor, SetBuf DEF BufNext
    <2> QED
      BY <2>1 DEF Start, End
  <1>2. BufSpec => []BufInv
    BY DataInsideTheorem, PTL DEF BufInv
  <1> QED
    BY <1>1, <1>2, PTL DEF BufSpec, OneEndMoves

(***************************************************************************)
(* For every buffer size and every width of the slot's length: a slot      *)
(* filled before more was pulled than is left stays within the data.       *)
(***************************************************************************)
THEOREM SlotInsideTheorem == BufSpec => SlotInside
  <1> DEFINE Inside == slot' # slot /\ offset <= length
                         => Start <= slot'.ptr /\ slot'.ptr + slot'.len <= End
  <1>1. BufInv /\ [BufNext]_bufvars => [Inside]_bufvars
    <2> SUFFICES ASSUME BufInv, BufNext, slot' # slot, offset <= length
                 PROVE  Start <= slot'.ptr /\ slot'.ptr + slot'.len <= End
      OBVIOUS
    <2>1. pop_nm_set_buf
      BY DEF BufNext, pop_buf_put, pop_buf_trim, pop_buf_pull, pop_buf_push,
             Refuse, Move
    <2>2. offset \in Nat /\ length \in Nat /\ length - offset \in 0 .. length
      BY LensAssumption DEF BufInv, BufTypeOK
    <2>3. pop_buf_len % SLOT_WORD \in 0 .. length
      <3>1. length < WORD
        BY LensAssumption DEF BufInv, BufTypeOK
      <3>2. pop_buf_len = length - offset
        BY <2>2, <3>1, WordSmall, LensAssumption DEF pop_buf_len
      <3> QED
        BY <2>2, <3>2, LensAssumption
    <2> QED
      BY <2>1, <2>2, <2>3 DEF pop_nm_set_buf, Start, End
  <1>2. BufSpec => []BufInv
    BY DataInsideTheorem, PTL DEF BufInv
  <1> QED
    BY <1>1, <1>2, PTL DEF BufSpec, SlotInside

(***************************************************************************)
(* What libpop.h says of "length" and the slot, for buffers as the         *)
(* programs use them: as long as nothing is pulled from the front of a     *)
(* buffer, a slot describes all of its data, if a slot's length holds it.  *)
(***************************************************************************)
THEOREM SlotIsDataTheorem ==
    BufSpec => [][slot' # slot /\ offset = 0 /\ length < SLOT_WORD
                    => slot' = [ptr |-> offset, len |-> length]]_bufvars
  <1> DEFINE Whole == slot' # slot /\ offset = 0 /\ length < SLOT_WORD
                        => slot' = [ptr |-> offset, len |-> length]
  <1>1. BufInv /\ [BufNext]_bufvars => [Whole]_bufvars
    <2> SUFFICES ASSUME BufInv, BufNext, slot' # slot, offset = 0, length < SLOT_WORD
                 PROVE  slot' = [ptr |-> offset, len |-> length]
      OBVIOUS
    <2>1. pop_nm_set_buf
      BY DEF BufNext, pop_buf_put, pop_buf_trim, pop_buf_pull, pop_buf_push,
             Refuse, Move
    <2>2. length \in Nat /\ length < WORD /\ length - offset = length
      BY LensAssumption DEF BufInv, BufTypeOK
    <2>3. pop_buf_len = length
      BY <2>2, WordSmall, LensAssumption DEF pop_buf_len
    <2>4. pop_buf_len % SLOT_WORD = length
      BY <2>2, <2>3, LensAssumption
    <2> QED
      BY <2>1, <2>4 DEF pop_nm_set_buf
  <1>2. BufSpec => []BufInv
    BY DataInsideTheorem, PTL DEF BufInv
  <1> QED
    BY <1>1, <1>2, PTL DEF BufSpec

------------------------------------------------------------------------------
(* bench-nvme.                                                             *)

ThRec == [pc : {"off", "alloc", "issue", "poll", "done"}, b : Bufs, count : 0 .. MaxCount]

\* The types of what the proof is about; the sums of the reporter are not.
BenchTypes ==
    /\ th \in [Threads -> ThRec] /\ out \subseteq Threads \X Bufs
    /\ main \in [pc : {"create", "join", "rjoin", "close", "released", "exited"}, n : Threads]

\* The commands of a thread are those that its loops have given and not yet
\* polled: below b in the first loop, from b on in the second.
CmdInv ==
    \A t \in Threads, b \in Bufs :
        <<t, b>> \in out => \/ th[t].pc = "issue" /\ b < th[t].b
                            \/ th[t].pc = "poll" /\ th[t].b <= b

\* Which threads exist, and which of them main() has joined.
MainInv ==
    /\ main.pc = "create" => \A t \in Threads : main.n <= t => th[t].pc = "off"
    /\ main.pc = "join" => \A t \in Threads : t < main.n => th[t].pc = "done"
    /\ main.pc \in {"rjoin", "close", "released"} => \A t \in Threads : th[t].pc = "done"

BenchInv == BenchTypes /\ CmdInv /\ MainInv

LEMMA BenchBasics ==
    /\ ncpus \in Nat /\ ncpus > 0 /\ Batch \in Nat /\ Batch > 0 /\ MaxCount \in Nat
    /\ Threads \subseteq Nat /\ 0 \in Threads /\ \A t \in Threads : t < ncpus
    /\ Bufs \subseteq Nat /\ 0 \in Bufs /\ \A b \in Bufs : b < Batch
BY BenchAssumption DEF Threads, Bufs

LEMMA BenchInit == Init => BenchInv
<1> USE BenchBasics
<1> QED BY DEF Init, BenchInv, BenchTypes, ThRec, CmdInv, MainInv

\* A step of one thread.
LEMMA ThreadFrame ==
    ASSUME BenchInv, NEW t \in Threads, Alive, th[t].pc \notin {"off", "done"}, main' = main,
           th' \in [Threads -> ThRec], \A s \in Threads \ {t} : th'[s] = th[s],
           out' \subseteq Threads \X Bufs,
           \A s \in Threads \ {t}, b \in Bufs : <<s, b>> \in out' => <<s, b>> \in out,
           \A b \in Bufs : <<t, b>> \in out' => \/ th'[t].pc = "issue" /\ b < th'[t].b
                                                \/ th'[t].pc = "poll" /\ th'[t].b <= b
    PROVE  BenchInv'
<1> USE BenchBasics DEF BenchInv
<1>1. BenchTypes' BY DEF BenchTypes
<1>2. CmdInv' BY Zenon DEF CmdInv
<1>3. MainInv' BY DEF MainInv, Alive, BenchTypes
<1> QED BY <1>1, <1>2, <1>3

\* b of a thread goes on, or starts again after the last buffer.
LEMMA NextBuf ==
    ASSUME NEW b \in Bufs
    PROVE  /\ b + 1 # Batch => b + 1 \in Bufs
           /\ \A c \in Bufs : c <= b \/ b + 1 <= c
           /\ b + 1 = Batch => \A c \in Bufs : c <= b
BY BenchBasics DEF Bufs

LEMMA AllocStep ==
    ASSUME BenchInv, NEW t \in Threads, Alloc(t)
    PROVE  BenchInv'
<1> USE BenchBasics
<1>1. CASE /\ main' = main
           /\ th' = [th EXCEPT ![t].pc = IF caught THEN "done" ELSE "issue"]
  <2>1. th' \in [Threads -> ThRec] /\ \A s \in Threads \ {t} : th'[s] = th[s]
      BY <1>1 DEF BenchInv, BenchTypes, ThRec
  <2>2. \A b \in Bufs : <<t, b>> \notin out BY DEF Alloc, BenchInv, CmdInv
  <2> QED BY <1>1, <2>1, <2>2, ThreadFrame DEF Alloc, dev, BenchInv, BenchTypes
<1>2. CASE main' = [main EXCEPT !.pc = "exited"] /\ th' = th
    BY <1>2 DEF Alloc, dev, BenchInv, BenchTypes, CmdInv, MainInv
<1> QED BY <1>1, <1>2 DEF Alloc

LEMMA IssueStep ==
    ASSUME BenchInv, NEW t \in Threads, Issue(t)
    PROVE  BenchInv'
<1> USE BenchBasics
<1>1. th[t].b \in Bufs /\ th[t].pc = "issue" BY DEF BenchInv, BenchTypes, ThRec, Issue
<1>2. /\ th' \in [Threads -> ThRec] /\ \A s \in Threads \ {t} : th'[s] = th[s]
      /\ IF LastBuf(t) THEN th'[t].pc = "poll" /\ th'[t].b = 0
                       ELSE th'[t].pc = "issue" /\ th'[t].b = th[t].b + 1
  <2>1. th \in [Threads -> ThRec] BY Zenon DEF BenchInv, BenchTypes
  <2>2. PICK b \in Bufs : b = IF LastBuf(t) THEN 0 ELSE th[t].b + 1
    <3>1. CASE LastBuf(t) BY <3>1, Zenon
    <3>2. CASE ~LastBuf(t)
      <4>1. th[t].b + 1 \in Bufs BY <1>1, <3>2, NextBuf, Zenon DEF LastBuf
      <4> QED BY <3>2, <4>1, Zenon
    <3> QED BY <3>1, <3>2, Zenon
  <2>3. PICK p \in {"issue", "poll"} : p = IF LastBuf(t) THEN "poll" ELSE "issue" OBVIOUS
  <2> DEFINE r == [th[t] EXCEPT !.b = b, !.pc = p]
  <2>4. th' = [th EXCEPT ![t] = r] BY <1>1, <2>1, <2>2, <2>3, Zenon DEF Issue, ThRec
  <2>5. th[t] \in ThRec BY <2>1, Zenon
  <2>6. r \in ThRec /\ r.pc = p /\ r.b = b BY <2>5, Zenon DEF ThRec
  <2> HIDE DEF r
  <2>7. th' \in [Threads -> ThRec] /\ th'[t] = r /\ \A s \in Threads \ {t} : th'[s] = th[s]
      BY <2>1, <2>4, <2>6, Zenon
  <2> QED BY <2>2, <2>3, <2>6, <2>7, Zenon
<1>3. out' = out \cup {<<t, th[t].b>>} BY DEF Issue
<1>4. \A b \in Bufs : <<t, b>> \in out' => b <= th[t].b
  <2> SUFFICES ASSUME NEW b \in Bufs, <<t, b>> \in out' PROVE b <= th[t].b OBVIOUS
  <2>1. b = th[t].b \/ <<t, b>> \in out BY <1>3
  <2>2. <<t, b>> \in out => b < th[t].b BY <1>1, Zenon DEF BenchInv, CmdInv
  <2> QED BY <1>1, <2>1, <2>2 DEF Bufs
<1>5. \A b \in Bufs : <<t, b>> \in out' => \/ th'[t].pc = "issue" /\ b < th'[t].b
                                           \/ th'[t].pc = "poll" /\ th'[t].b <= b
  <2> SUFFICES ASSUME NEW b \in Bufs, <<t, b>> \in out'
               PROVE  \/ th'[t].pc = "issue" /\ b < th'[t].b
                      \/ th'[t].pc = "poll" /\ th'[t].b <= b
      BY Zenon
  <2>1. b <= th[t].b BY <1>4
  <2> QED BY <1>1, <1>2, <2>1 DEF Bufs
<1>6. out' \subseteq Threads \X Bufs BY <1>1, <1>3 DEF BenchInv, BenchTypes
<1> QED BY <1>1, <1>2, <1>3, <1>5, <1>6, ThreadFrame DEF Issue

LEMMA PollStep ==
    ASSUME BenchInv, NEW t \in Threads, Poll(t)
    PROVE  BenchInv'
<1> USE BenchBasics
<1>1. th[t].b \in Bufs /\ th[t].pc = "poll" /\ th[t].count \in 0 .. MaxCount
    BY DEF BenchInv, BenchTypes, ThRec, Poll
<1>2. PICK ok \in BOOLEAN :
        th' = [th EXCEPT ![t].count = IF ok /\ @ < MaxCount THEN @ + 1 ELSE @,
                         ![t].b = IF LastBuf(t) THEN 0 ELSE @ + 1,
                         ![t].pc = AfterPoll(t)]
    BY Zenon DEF Poll
<1> DEFINE n == IF ok /\ th[t].count < MaxCount THEN th[t].count + 1 ELSE th[t].count
<1>n. n \in 0 .. MaxCount BY <1>1
<1>3. IF LastBuf(t) THEN AfterPoll(t) \in {"done", "issue"} ELSE AfterPoll(t) = "poll"
    BY DEF AfterPoll
<1>4. (IF LastBuf(t) THEN 0 ELSE th[t].b + 1) \in Bufs
    BY <1>1, NextBuf, Zenon DEF LastBuf
<1>5. /\ th' \in [Threads -> ThRec] /\ \A s \in Threads \ {t} : th'[s] = th[s]
      /\ th'[t].pc = AfterPoll(t) /\ th'[t].b = IF LastBuf(t) THEN 0 ELSE th[t].b + 1
    BY <1>1, <1>2, <1>n, <1>3, <1>4 DEF BenchInv, BenchTypes, ThRec
<1>6. out' = out \ {<<t, th[t].b>>} BY DEF Poll
<1>7. \A b \in Bufs : <<t, b>> \in out' => th[t].b <= b /\ b # th[t].b
    BY <1>1, <1>6, Zenon DEF BenchInv, CmdInv
<1>8. \A b \in Bufs : <<t, b>> \in out' => th'[t].pc = "poll" /\ th'[t].b <= b
  <2> SUFFICES ASSUME NEW b \in Bufs, <<t, b>> \in out'
               PROVE  th'[t].pc = "poll" /\ th'[t].b <= b
      OBVIOUS
  <2>0. th[t].b <= b /\ b # th[t].b BY <1>7
  <2>1. CASE LastBuf(t) BY <1>1, <2>0, <2>1 DEF LastBuf, Bufs
  <2>2. CASE ~LastBuf(t) BY <1>1, <1>3, <1>5, <2>0, <2>2 DEF Bufs
  <2> QED BY <2>1, <2>2
<1> QED BY <1>1, <1>5, <1>6, <1>8, ThreadFrame DEF Poll, BenchInv, BenchTypes

LEMMA OtherSteps ==
    ASSUME BenchInv,
           main_body \/ Signal \/ report_interval \/ Ended
             \/ \E c \in Threads \X Bufs : Complete(c)
    PROVE  BenchInv'
<1> USE BenchBasics
<1>1. main.n \in Threads BY DEF BenchInv, BenchTypes
<1>2. NextThread \in Threads /\ (LastThread => NextThread = 0)
      /\ (~LastThread => NextThread = main.n + 1)
    BY <1>1 DEF NextThread, LastThread, Threads
<1>3. \A t \in Threads : LastThread /\ t # main.n => t < main.n
    BY <1>1 DEF LastThread, Threads
<1>4. CASE Create
  <2>1. /\ th' \in [Threads -> ThRec] /\ th'[main.n].pc = "alloc"
        /\ \A t \in Threads : t # main.n => th'[t] = th[t]
      BY <1>1, <1>4 DEF Create, BenchInv, BenchTypes, ThRec
  <2>2. th[main.n].pc = "off" BY <1>1, <1>4 DEF Create, BenchInv, MainInv
  <2>3. BenchTypes' BY <1>2, <1>4, <2>1 DEF Create, dev, BenchInv, BenchTypes
  <2>4. CmdInv' BY <1>1, <1>4, <2>1, <2>2 DEF Create, dev, BenchInv, CmdInv
  <2>5. MainInv' BY <1>1, <1>2, <1>4, <2>1 DEF Create, BenchInv, MainInv
  <2> QED BY <2>3, <2>4, <2>5 DEF BenchInv
<1>5. CASE Join
  <2>1. BenchTypes' BY <1>2, <1>5 DEF Join, dev, BenchInv, BenchTypes
  <2>2. CmdInv' BY <1>5 DEF Join, dev, BenchInv, CmdInv
  <2>3. \A t \in Threads : t <= main.n => th[t].pc = "done"
      BY <1>1, <1>5 DEF Join, BenchInv, MainInv, Threads
  <2>4. CASE LastThread
    <3>1. main'.pc = "rjoin" /\ th' = th BY <1>5, <2>4 DEF Join
    <3>2. \A t \in Threads : t <= main.n BY <1>1, <2>4 DEF LastThread, Threads
    <3>3. \A t \in Threads : th'[t].pc = "done" BY <2>3, <3>1, <3>2
    <3> QED BY <2>1, <2>2, <3>1, <3>3 DEF BenchInv, MainInv
  <2>5. CASE ~LastThread
    <3>1. main'.pc = "join" /\ main'.n = main.n + 1 /\ th' = th
        BY <1>2, <1>5, <2>5 DEF Join
    <3>2. \A t \in Threads : t < main.n + 1 => t <= main.n BY <1>1 DEF Threads
    <3>3. \A t \in Threads : t < main'.n => th'[t].pc = "done" BY <2>3, <3>1, <3>2
    <3> QED BY <2>1, <2>2, <3>1, <3>3 DEF BenchInv, MainInv
  <2> QED BY <2>4, <2>5
<1>6. CASE JoinReport \/ Release
    BY <1>6 DEF JoinReport, Release, dev, BenchInv, BenchTypes, CmdInv, MainInv
<1>7. CASE Signal \/ report_interval \/ Ended
    BY <1>7 DEF Signal, report_interval, ReportTop, Report, Ended, vars, dev, BenchInv, BenchTypes,
                CmdInv, MainInv
<1>8. CASE \E c \in Threads \X Bufs : Complete(c)
    BY <1>8 DEF Complete, BenchInv, BenchTypes, CmdInv, MainInv
<1> QED BY <1>4, <1>5, <1>6, <1>7, <1>8 DEF main_body

------------------------------------------------------------------------------
\* BenchInv is an invariant.
LEMMA BenchInvariant == Spec => []BenchInv
<1>1. BenchInv /\ [Next]_vars => BenchInv'
  <2> SUFFICES ASSUME BenchInv, [Next]_vars PROVE BenchInv' OBVIOUS
  <2>1. CASE \E t \in Threads : bench_start(t)
      BY <2>1, AllocStep, IssueStep, PollStep DEF bench_start
  <2>2. CASE UNCHANGED vars BY <2>2 DEF vars, dev, BenchInv, BenchTypes, CmdInv, MainInv
  <2> QED BY <2>1, <2>2, OtherSteps DEF Next
<1> QED BY <1>1, BenchInit, PTL DEF Spec

(***************************************************************************)
(* For any number of threads and any batch: when bench-nvme releases the   *)
(* memory no command is left but those that were given up.                 *)
(***************************************************************************)
THEOREM NoCommandAfterReleaseTheorem == Spec => []NoCommandAfterRelease
<1>1. BenchInv => NoCommandAfterRelease
  <2> SUFFICES ASSUME BenchInv, main.pc = "released", NEW c \in out PROVE FALSE
      BY DEF NoCommandAfterRelease
  <2>1. PICK t \in Threads, b \in Bufs : c = <<t, b>> BY DEF BenchInv, BenchTypes
  <2> QED BY <2>1 DEF BenchInv, MainInv, CmdInv
<1> QED BY <1>1, BenchInvariant, PTL

(***************************************************************************)
(* For any number of threads and any batch: a thread gives no command on a *)
(* buffer that the device still has a command on, unless that one was      *)
(* given up.                                                               *)
(***************************************************************************)
THEOREM BufferIdleAtIssueTheorem == Spec => BufferIdleAtIssue
<1>1. BenchInv => \A t \in Threads : th[t].pc = "issue" => <<t, th[t].b>> \notin out
  <2> SUFFICES ASSUME BenchInv, NEW t \in Threads, th[t].pc = "issue", <<t, th[t].b>> \in out
               PROVE  FALSE
      OBVIOUS
  <2>1. th[t].b \in Bufs BY DEF BenchInv, BenchTypes, ThRec
  <2>2. th[t].b < th[t].b BY <2>1 DEF BenchInv, CmdInv
  <2> QED BY <2>1, <2>2 DEF Bufs
<1>2. BenchInv => [\A t \in Threads : th[t].pc = "issue" /\ th'[t] # th[t]
                                    => <<t, th[t].b>> \notin out]_vars
    BY <1>1
<1> QED BY <1>2, BenchInvariant, PTL DEF BufferIdleAtIssue
------------------------------------------------------------------------------
(* The two sums of the reporter.                                           *)

\* P[k] is what the first k threads have put into the first sum: each of the
\* first n threads put no more into it than its counter has come to since.
Sums == [0 .. ncpus -> Nat]
Counted(P, n) == \A k \in Threads : k < n => P[k + 1] <= P[k] + th[k].count

\* The first sum is that of some P, and the second one has passed P[n] when n
\* threads are read.
SumInv ==
    /\ rep \in [pc : {"off", "top", "start", "end", "done"}, n : Threads,
                start : Nat, end : Nat]
    /\ main.pc = "create" => rep.pc = "off"
    /\ rep.pc \in {"off", "top", "done"} => rep.end >= rep.start /\ rep.n = 0
    /\ rep.pc = "start" =>
          /\ rep.end = 0
          /\ \E P \in Sums : P[0] = 0 /\ P[rep.n] = rep.start /\ Counted(P, rep.n)
    /\ rep.pc = "end" =>
          \E P \in Sums : P[ncpus] = rep.start /\ P[rep.n] <= rep.end /\ Counted(P, ncpus)

\* No counter goes back.
CountersGrow ==
    \A t \in Threads : /\ th[t].count \in Nat /\ th'[t].count \in Nat
                       /\ th[t].count <= th'[t].count

LEMMA CountersGrowOn == ASSUME BenchInv, BenchInv', [Next]_vars PROVE CountersGrow
<1>1. th \in [Threads -> ThRec] /\ th' \in [Threads -> ThRec] BY DEF BenchInv, BenchTypes
<1>2. \A t \in Threads : th[t].count \in Nat /\ th'[t].count \in Nat
    BY <1>1, BenchBasics DEF ThRec
<1>3. CASE th' = th BY <1>2, <1>3 DEF CountersGrow
<1>4. ASSUME NEW t \in Threads, NEW l, th' = [th EXCEPT ![t].pc = l] PROVE CountersGrow
    BY <1>1, <1>2, <1>4 DEF CountersGrow, ThRec
<1>5. ASSUME NEW t \in Threads, Issue(t) PROVE CountersGrow
    BY <1>1, <1>2, <1>5 DEF CountersGrow, ThRec, Issue
<1>6. ASSUME NEW t \in Threads, Poll(t) PROVE CountersGrow
  <2>1. \A s \in Threads \ {t} : th'[s] = th[s] BY <1>1, <1>6, SMTT(30) DEF Poll
  <2>2. th[t].count <= th'[t].count BY <1>1, <1>2, <1>6, SMTT(30) DEF Poll, ThRec
  <2> QED BY <1>2, <2>1, <2>2 DEF CountersGrow
<1>7. CASE Create
  <2>1. main.n \in Threads BY DEF BenchInv, BenchTypes
  <2> QED BY <1>4, <1>7, <2>1, Zenon DEF Create
<1>8. ASSUME NEW t \in Threads, Alloc(t) PROVE CountersGrow
    BY <1>3, <1>4, <1>8 DEF Alloc
<1>9. CASE Join \/ JoinReport \/ Release \/ Signal \/ report_interval \/ Ended
             \/ UNCHANGED vars \/ \E c \in Threads \X Bufs : Complete(c)
    BY <1>3, <1>9 DEF Join, JoinReport, Release, Signal, report_interval, ReportTop, Report,
                      Ended, vars, Complete
<1> QED BY <1>5, <1>6, <1>7, <1>8, <1>9 DEF Next, main_body, bench_start

\* What the counters come to does not lower what they put into a sum.
LEMMA CountedOn ==
    ASSUME CountersGrow, NEW P \in Sums, NEW n \in Nat, Counted(P, n)
    PROVE  Counted(P, n)'
<1> SUFFICES ASSUME NEW k \in Threads, k < n PROVE P[k + 1] <= P[k] + th'[k].count
    BY DEF Counted
<1>1. P[k] \in Nat /\ P[k + 1] \in Nat BY BenchBasics DEF Sums, Threads
<1>2. P[k + 1] <= P[k] + th[k].count BY DEF Counted
<1> QED BY <1>1, <1>2 DEF CountersGrow

\* The reporter does not move.
LEMMA SumKeep ==
    ASSUME SumInv, CountersGrow, rep' = rep, main'.pc = "create" => main.pc = "create"
    PROVE  SumInv'
<1>1. rep.n \in Nat /\ ncpus \in Nat BY BenchBasics, Zenon DEF SumInv
<1>2. CASE rep.pc = "start"
  <2>1. PICK P \in Sums : P[0] = 0 /\ P[rep.n] = rep.start /\ Counted(P, rep.n)
      BY <1>2 DEF SumInv
  <2>2. Counted(P, rep.n)' BY <1>1, <2>1, CountedOn
  <2> QED BY <1>2, <2>1, <2>2 DEF SumInv
<1>3. CASE rep.pc = "end"
  <2>1. PICK P \in Sums : P[ncpus] = rep.start /\ P[rep.n] <= rep.end /\ Counted(P, ncpus)
      BY <1>3 DEF SumInv
  <2>2. Counted(P, ncpus)' BY <1>1, <2>1, CountedOn
  <2> QED BY <1>3, <2>1, <2>2 DEF SumInv
<1>4. CASE rep.pc \notin {"start", "end"} BY <1>4 DEF SumInv
<1> QED BY <1>2, <1>3, <1>4
\* The counter of thread n goes into the first sum.
LEMMA FirstSum ==
    ASSUME SumInv, CountersGrow, rep.pc = "start", NEW m \in Nat, m = rep.n + 1, m <= ncpus
    PROVE  \E P \in Sums : P[0] = 0 /\ P[m] = rep.start + th[rep.n].count /\ Counted(P, m)
<1>1. rep.n \in Threads /\ rep.n \in Nat /\ rep.start \in Nat BY BenchBasics, Zenon DEF SumInv
<1>2. th[rep.n].count \in Nat BY <1>1 DEF CountersGrow
<1>3. PICK Q \in Sums : Q[0] = 0 /\ Q[rep.n] = rep.start /\ Counted(Q, rep.n) BY DEF SumInv
<1> DEFINE P == [Q EXCEPT ![m] = rep.start + th[rep.n].count]
<1>4. P \in Sums /\ P[m] = rep.start + th[rep.n].count /\ \A k \in 0 .. ncpus : k # m => P[k] = Q[k]
  <2>1. rep.start + th[rep.n].count \in Nat BY <1>1, <1>2
  <2>2. m \in 0 .. ncpus /\ Q \in [0 .. ncpus -> Nat] BY <1>3, BenchBasics DEF Sums
  <2> QED BY <2>1, <2>2, Zenon DEF Sums
<1> HIDE DEF P
<1>5. P[0] = 0 BY <1>1, <1>3, <1>4, BenchBasics
<1>6. ASSUME NEW k \in Threads, k < m PROVE P[k + 1] <= P[k] + th[k].count
  <2>1. k \in 0 .. ncpus /\ k + 1 \in 0 .. ncpus /\ k # m BY <1>6, BenchBasics DEF Threads
  <2>2. P[k] = Q[k] BY <1>4, <2>1
  <2>3. CASE k = rep.n BY <1>1, <1>2, <1>3, <1>4, <2>2, <2>3
  <2>4. CASE k # rep.n
    <3>1. k < rep.n /\ k + 1 # m BY <1>1, <1>6, <2>1, <2>4
    <3>2. Q[k + 1] <= Q[k] + th[k].count BY <1>3, <3>1 DEF Counted
    <3> QED BY <1>4, <2>1, <2>2, <3>1, <3>2
  <2> QED BY <2>3, <2>4
<1>7. Counted(P, m) BY <1>6 DEF Counted
<1> QED BY <1>4, <1>5, <1>7

LEMMA SumReport == ASSUME SumInv, CountersGrow, Report PROVE SumInv'
<1> DEFINE sum == th[rep.n].count
           last == rep.n + 1 = ncpus
           n == IF last THEN 0 ELSE rep.n + 1
<1>1. /\ rep.n \in Threads /\ rep.n \in Nat /\ rep.start \in Nat /\ rep.end \in Nat
      /\ ncpus \in Nat
    BY BenchBasics, Zenon DEF SumInv
<1>2. sum \in Nat /\ n \in Threads /\ rep.n + 1 <= ncpus
    BY <1>1, BenchBasics DEF CountersGrow, Threads
<1>3. th' = th /\ main' = main /\ main.pc # "create" BY DEF Report, SumInv
<1>4. CASE /\ rep.pc = "start"
           /\ rep' = [rep EXCEPT !.start = @ + sum, !.n = n, !.pc = IF last THEN "end" ELSE @]
  <2>1. PICK m \in Nat : m = rep.n + 1 BY <1>1
  <2>2. PICK P \in Sums : P[0] = 0 /\ P[m] = rep.start + sum /\ Counted(P, m)
      BY <1>1, <1>2, <1>4, <2>1, FirstSum
  <2>3. Counted(P, m)' BY <2>2, CountedOn
  <2>4. rep.start + sum \in Nat /\ rep.end = 0 BY <1>1, <1>2, <1>4 DEF SumInv
  <2> HIDE DEF sum, n
  <2>5. /\ rep' \in [pc : {"off", "top", "start", "end", "done"}, n : Threads,
                     start : Nat, end : Nat]
        /\ rep'.start = rep.start + sum /\ rep'.n = n /\ rep'.end = rep.end
        /\ rep'.pc = IF last THEN "end" ELSE "start"
      BY <1>1, <1>2, <1>4, <2>4, Zenon DEF SumInv
  <2>6. CASE last
    <3>1. rep'.pc = "end" /\ rep'.n = 0 /\ m = ncpus BY <2>1, <2>5, <2>6 DEF n
    <3>2. P[ncpus] = rep'.start /\ P[0] <= rep'.end BY <2>2, <2>4, <2>5, <3>1
    <3>3. Counted(P, ncpus)' BY <2>3, <3>1 DEF Counted
    <3> QED BY <1>3, <2>2, <2>5, <3>1, <3>2, <3>3 DEF SumInv
  <2>7. CASE ~last
    <3>1. rep'.pc = "start" /\ rep'.n = m BY <2>1, <2>5, <2>7 DEF n
    <3>2. P[rep'.n] = rep'.start /\ rep'.end = 0 BY <2>2, <2>4, <2>5, <3>1
    <3>3. Counted(P, rep.n)' BY <2>3, <3>1 DEF Counted
    <3> QED BY <1>3, <2>2, <2>5, <3>1, <3>2, <3>3 DEF SumInv
  <2> QED BY <2>6, <2>7
<1>5. CASE /\ rep.pc = "end"
           /\ rep' = [rep EXCEPT !.end = @ + sum, !.n = n, !.pc = IF last THEN "top" ELSE @]
  <2>1. PICK P \in Sums : P[ncpus] = rep.start /\ P[rep.n] <= rep.end /\ Counted(P, ncpus)
      BY <1>5 DEF SumInv
  <2>a. rep.end + sum \in Nat BY <1>1, <1>2
  <2>2. /\ rep' \in [pc : {"off", "top", "start", "end", "done"}, n : Threads,
                     start : Nat, end : Nat]
        /\ rep'.start = rep.start /\ rep'.n = n /\ rep'.end = rep.end + sum
        /\ rep'.pc = IF last THEN "top" ELSE "end"
    <3> HIDE DEF sum, n
    <3> QED BY <1>1, <1>2, <1>5, <2>a, Zenon DEF SumInv
  <2>3. P[rep.n + 1] <= P[rep.n] + sum BY <1>1, <1>2, <2>1 DEF Counted
  <2>4. P[rep.n] \in Nat /\ P[rep.n + 1] \in Nat BY <1>1, <1>2 DEF Sums
  <2>5. P[rep.n + 1] <= rep.end + sum BY <1>1, <1>2, <2>1, <2>3, <2>4
  <2>6. CASE last
    <3>1. rep'.pc = "top" /\ rep'.n = 0 /\ rep'.end >= rep'.start
        BY <2>1, <2>2, <2>5, <2>6
    <3> QED BY <1>3, <2>2, <3>1 DEF SumInv
  <2>7. CASE ~last
    <3>1. rep'.pc = "end" /\ P[rep'.n] <= rep'.end /\ P[ncpus] = rep'.start
        BY <2>1, <2>2, <2>5, <2>7
    <3>2. Counted(P, ncpus)' BY <1>1, <2>1, CountedOn
    <3> QED BY <1>3, <2>2, <3>1, <3>2 DEF SumInv
  <2> QED BY <2>6, <2>7
<1> QED BY <1>4, <1>5 DEF Report

LEMMA SumInvariant == Spec => []SumInv
<1>1. Init => SumInv BY BenchBasics, SMTT(30) DEF Init, SumInv
<1>2. ASSUME BenchInv, BenchInv', SumInv, [Next]_vars PROVE SumInv'
  <2>1. CountersGrow BY <1>2, CountersGrowOn
  <2>2. CASE rep' = rep /\ (main'.pc = "create" => main.pc = "create")
      BY <1>2, <2>1, <2>2, SumKeep
  <2>3. CASE Report BY <1>2, <2>1, <2>3, SumReport
  <2>4. CASE ReportTop
    <3>1. /\ rep' \in [pc : {"off", "top", "start", "end", "done"}, n : Threads,
                       start : Nat, end : Nat]
          /\ rep'.start = 0 /\ rep'.end = 0 /\ rep'.n = 0 /\ rep'.pc \in {"start", "done"}
          /\ main' = main /\ main.pc # "create"
        BY <1>2, <2>4, Zenon DEF ReportTop, SumInv
    <3> DEFINE P == [k \in 0 .. ncpus |-> 0]
    <3>2. P \in Sums /\ P[0] = 0 /\ Counted(P, 0)'
        BY BenchBasics DEF Sums, Counted, Threads
    <3> HIDE DEF P
    <3> QED BY <3>1, <3>2 DEF SumInv
  <2>5. CASE Create
    <3>1. main.pc = "create" /\ rep.pc = "off" BY <1>2, <2>5 DEF Create, SumInv
    <3>2. rep' = [rep EXCEPT !.pc = IF LastThread THEN "top" ELSE "off"]
        BY <2>5, <3>1 DEF Create
    <3>3. main'.pc = "create" => ~LastThread BY <2>5 DEF Create
    <3> QED BY <1>2, <3>1, <3>2, <3>3 DEF SumInv
  <2>6. CASE \/ Join \/ JoinReport \/ Release \/ Signal \/ Ended \/ UNCHANGED vars
             \/ \E c \in Threads \X Bufs : Complete(c)
      BY <1>2, <2>2, <2>6 DEF Join, JoinReport, Release, Signal, Ended, vars, Complete,
                              BenchInv, BenchTypes
  <2>7. ASSUME NEW t \in Threads, bench_start(t) PROVE SumInv'
      BY <1>2, <2>2, <2>7, Zenon DEF bench_start, Alloc, Issue, Poll, BenchInv, BenchTypes
  <2> QED BY <1>2, <2>3, <2>4, <2>5, <2>6, <2>7 DEF Next, main_body, report_interval
<1> QED BY <1>1, <1>2, BenchInvariant, PTL DEF Spec

(***************************************************************************)
(* For any number of threads: although the reporter of bench-nvme reads    *)
(* the counters one by one while the threads count on, the second sum of   *)
(* an interval is never below the first, from which it is subtracted.      *)
(***************************************************************************)
THEOREM IntervalNotNegativeTheorem == Spec => []IntervalNotNegative
<1>1. SumInv => IntervalNotNegative BY DEF SumInv, IntervalNotNegative
<1> QED BY <1>1, SumInvariant, PTL
==============================================================================
