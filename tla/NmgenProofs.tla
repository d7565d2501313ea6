----------------------------- MODULE NmgenProofs -----------------------------
(***************************************************************************)
(* Proofs about Nmgen and RxRing, for any number of threads and any sizes  *)
(* of rings, batches and memory, and about the IP header of InetChecksum,  *)
(* for any number of words and any size of a byte.                         *)
(***************************************************************************)
EXTENDS Nmgen, WellFoundedInduction, TLAPS

\* How far slot i is ahead of slot h.
Pos(h, i) == IF i >= h THEN i - h ELSE i - h + Slots

\* From hwcur on, head comes before tail and tail before nxt.
Ordered(r) ==
    /\ Pos(r.hwcur, r.head) <= Pos(r.hwcur, r.tail)
    /\ Pos(r.hwcur, r.tail) <= Pos(r.hwcur, r.nxt)

\* After the lap at most the last descriptor has a buffer of netmap, and the NIC
\* does not get there before the next sync.
LastOnly(r) ==
    r.dram # {} => /\ r.dram = {Slots - 1} /\ r.hwcur = Slots - 1
                   /\ r.tail # Slots - 1 /\ r.nxt # Slots - 1

\* What arrived from slot f on is in pop memory.
Lapped(r, f) == Ordered(r) /\ LastOnly(r) /\ Between(f, r.nxt) \subseteq r.held

LEMMA SlotBasics ==
    Slots \in Nat /\ Slots > 1 /\ Slot \subseteq Nat /\ \A i \in Slot : i < Slots
BY SlotsAssumption DEF Slot

\* What it means for a slot to be between two others.
LEMMA InBetween ==
    ASSUME NEW i \in Slot, NEW j \in Slot, NEW x
    PROVE  x \in Between(i, j) <=>
             x \in Slot /\ IF i <= j THEN i <= x /\ x < j ELSE i <= x \/ x < j
BY SlotBasics DEF Between, Slot

LEMMA BetweenSelf ==
    ASSUME NEW i \in Slot
    PROVE  Between(i, i) = {}
<1>1. i \in Int BY SlotBasics
<1> QED BY <1>1 DEF Between

\* Distances from h.
LEMMA Distance ==
    ASSUME NEW h \in Slot, NEW i \in Slot
    PROVE  /\ Pos(h, i) \in Nat /\ Pos(h, h) = 0
           /\ nm_ring_next(i) \in Slot
           /\ nm_ring_next(i) # h => Pos(h, nm_ring_next(i)) = Pos(h, i) + 1
<1>1. h \in Int /\ i \in Int /\ Slots \in Int /\ 0 <= h /\ h < Slots /\ 0 <= i /\ i < Slots
    BY SlotBasics DEF Slot
<1> QED BY <1>1 DEF Pos, nm_ring_next, Slot

\* One slot more.
LEMMA BetweenNext ==
    ASSUME NEW i \in Slot, NEW j \in Slot, NEW x \in Between(i, nm_ring_next(j))
    PROVE  x \in Between(i, j) \/ x = j
<1>1. i \in Int /\ j \in Int /\ Slots \in Int /\ 0 <= i /\ i < Slots /\ 0 <= j /\ j < Slots
    BY SlotBasics DEF Slot
<1>2. nm_ring_next(j) \in Slot BY Distance
<1>3. /\ x \in Slot /\ x \in Int /\ 0 <= x /\ x < Slots
      /\ IF i <= nm_ring_next(j) THEN i <= x /\ x < nm_ring_next(j)
                                 ELSE i <= x \/ x < nm_ring_next(j)
    BY <1>2, InBetween, SlotBasics DEF Slot
<1>4. (IF i <= j THEN i <= x /\ x < j ELSE i <= x \/ x < j) \/ x = j
    BY <1>1, <1>3 DEF nm_ring_next
<1> QED BY <1>3, <1>4, InBetween

\* With a, b and d in this order from h on, b cuts the slots from a to d in two.
LEMMA Cut ==
    ASSUME NEW h \in Slot, NEW a \in Slot, NEW b \in Slot, NEW d \in Slot, NEW x,
           Pos(h, a) <= Pos(h, b), Pos(h, b) <= Pos(h, d)
    PROVE  /\ x \in Between(a, b) \/ x \in Between(b, d) => x \in Between(a, d)
           /\ ~(x \in Between(a, b) /\ x \in Between(b, d))
<1>1. /\ h \in Int /\ a \in Int /\ b \in Int /\ d \in Int /\ Slots \in Int
      /\ 0 <= h /\ h < Slots /\ 0 <= a /\ a < Slots
      /\ 0 <= b /\ b < Slots /\ 0 <= d /\ d < Slots
    BY SlotBasics DEF Slot
<1>2. CASE x \notin Slot BY <1>2, InBetween
<1>3. CASE x \in Slot
  <2>1. x \in Int /\ 0 <= x /\ x < Slots BY <1>3, SlotBasics DEF Slot
  <2> DEFINE B(i, j) == IF i <= j THEN i <= x /\ x < j ELSE i <= x \/ x < j
  <2>2. (B(a, b) \/ B(b, d) => B(a, d)) /\ ~(B(a, b) /\ B(b, d))
      BY <1>1, <2>1 DEF Pos
  <2>3. /\ x \in Between(a, b) <=> B(a, b)
        /\ x \in Between(b, d) <=> B(b, d)
        /\ x \in Between(a, d) <=> B(a, d)
      BY <1>3, InBetween
  <2> QED BY <2>2, <2>3
<1> QED BY <1>2, <1>3

\* The ring after a packet has arrived.
LEMMA ArriveLapped ==
    ASSUME NEW r \in Rings, NEW f \in Slot, Lapped(r, f), HasRoom(r)
    PROVE  arrive(r) \in Rings /\ Lapped(arrive(r), f)
<1> USE SlotBasics
<1> DEFINE q == arrive(r)
<1>1. /\ r.head \in Slot /\ r.tail \in Slot /\ r.hwcur \in Slot /\ r.nxt \in Slot
      /\ r.dram \subseteq Slot /\ r.held \subseteq Slot
    BY DEF Rings
<1>2. nm_ring_next(r.nxt) \in Slot BY <1>1, Distance
<1>3. /\ q.head = r.head /\ q.tail = r.tail /\ q.hwcur = r.hwcur /\ q.dram = r.dram
      /\ q.nxt = nm_ring_next(r.nxt)
      /\ q.held = IF r.nxt \in r.dram THEN r.held \ {r.nxt} ELSE r.held \cup {r.nxt}
      /\ q \in Rings
    BY <1>1, <1>2, Zenon DEF arrive, Rings
<1>4. q.nxt # r.hwcur BY <1>3 DEF HasRoom
<1>5. Ordered(q)
  <2>1. Pos(r.hwcur, q.nxt) = Pos(r.hwcur, r.nxt) + 1
      BY <1>1, <1>3, <1>4, Distance, Zenon
  <2>2. Pos(r.hwcur, r.tail) \in Nat /\ Pos(r.hwcur, r.nxt) \in Nat
      BY <1>1, Distance, Zenon
  <2> QED BY <1>3, <2>1, <2>2 DEF Ordered, Lapped
<1>6. LastOnly(q)
    BY <1>1, <1>3, <1>4 DEF LastOnly, Lapped
<1>7. r.nxt \notin r.dram BY <1>1 DEF LastOnly, Lapped
<1>8. Between(f, q.nxt) \subseteq Between(f, r.nxt) \cup {r.nxt}
    BY <1>1, <1>3, BetweenNext
<1> QED BY <1>3, <1>5, <1>6, <1>7, <1>8 DEF Lapped

\* The ring after a sync, unless head waits on the slot of the last descriptor.
LEMMA SyncLapped ==
    ASSUME NEW r \in Rings, Lapped(r, r.head), r.dram # {} => r.head # Slots - 1
    PROVE  rxsync(r) \in Rings /\ Lapped(rxsync(r), r.head) /\ rxsync(r).dram = {}
           /\ rxsync(r).head = r.head
<1> USE SlotBasics
<1> DEFINE q == rxsync(r)
<1>1. /\ r.head \in Slot /\ r.tail \in Slot /\ r.hwcur \in Slot /\ r.nxt \in Slot
      /\ r.dram \subseteq Slot /\ r.held \subseteq Slot
    BY DEF Rings
<1>2. /\ q.head = r.head /\ q.tail = r.nxt /\ q.hwcur = r.head /\ q.nxt = r.nxt
      /\ q.dram = r.dram \ Between(r.hwcur, r.head) /\ q.held = r.held /\ q \in Rings
    BY <1>1, Zenon DEF rxsync, Rings
<1>3. q.dram = {}
  <2>1. CASE r.dram = {} BY <1>2, <2>1
  <2>2. CASE r.dram # {}
    <3>1. Slots - 1 \in Between(Slots - 1, r.head)
        BY <1>1, <2>2, InBetween DEF Slot
    <3> QED BY <1>2, <2>2, <3>1 DEF Lapped, LastOnly
  <2> QED BY <2>1, <2>2
<1>4. Ordered(q)
  <2>1. Pos(r.head, r.head) = 0 /\ Pos(r.head, r.nxt) \in Nat BY <1>1, Distance, Zenon
  <2> QED BY <1>2, <2>1 DEF Ordered
<1> QED BY <1>2, <1>3, <1>4 DEF Lapped, LastOnly

\* The ring after the slots up to tail were passed.
LEMMA FlushLapped ==
    ASSUME NEW r \in Rings, Ordered(r), LastOnly(r), Between(r.tail, r.nxt) \subseteq r.held
    PROVE  flush(r) \in Rings /\ Lapped(flush(r), r.tail) /\ flush(r).head = r.tail
           /\ flush(r).dram = r.dram
<1> USE SlotBasics
<1> DEFINE q == flush(r)
<1>1. /\ r.head \in Slot /\ r.tail \in Slot /\ r.hwcur \in Slot /\ r.nxt \in Slot
      /\ r.dram \subseteq Slot /\ r.held \subseteq Slot
    BY DEF Rings
<1>2. /\ q.head = r.tail /\ q.tail = r.tail /\ q.hwcur = r.hwcur /\ q.nxt = r.nxt
      /\ q.dram = r.dram /\ q.held = r.held \ Between(r.head, r.tail) /\ q \in Rings
    BY <1>1, Zenon DEF flush, Rings
<1>3. Ordered(q)
  <2>1. Pos(r.hwcur, r.tail) \in Nat BY <1>1, Distance, Zenon
  <2> QED BY <1>2, <2>1 DEF Ordered
<1>4. ASSUME NEW x, x \in Between(r.tail, r.nxt), x \in Between(r.head, r.tail)
      PROVE  FALSE
  <2>1. /\ Pos(r.hwcur, r.head) <= Pos(r.hwcur, r.tail)
        /\ Pos(r.hwcur, r.tail) <= Pos(r.hwcur, r.nxt)
      BY DEF Ordered
  <2> DEFINE h == r.hwcur  a == r.head  b == r.tail  d == r.nxt
  <2>2. /\ h \in Slot /\ a \in Slot /\ b \in Slot /\ d \in Slot
        /\ Pos(h, a) <= Pos(h, b) /\ Pos(h, b) <= Pos(h, d)
        /\ x \in Between(a, b) /\ x \in Between(b, d)
      BY <1>1, <1>4, <2>1
  <2> HIDE DEF h, a, b, d
  <2> QED BY ONLY <2>2, Cut, SMT
<1> QED BY <1>2, <1>3, <1>4 DEF Lapped, LastOnly

\* Of what arrived from head on, what the sync has shown.
LEMMA TailWithin ==
    ASSUME NEW r \in Rings, Lapped(r, r.head)
    PROVE  Between(r.head, r.tail) \subseteq r.held /\ Between(r.tail, r.nxt) \subseteq r.held
<1> USE SlotBasics
<1>1. r.head \in Slot /\ r.tail \in Slot /\ r.hwcur \in Slot /\ r.nxt \in Slot
    BY DEF Rings
<1>2. ASSUME NEW x, x \in Between(r.head, r.tail) \/ x \in Between(r.tail, r.nxt)
      PROVE  x \in Between(r.head, r.nxt)
  <2>1. /\ Pos(r.hwcur, r.head) <= Pos(r.hwcur, r.tail)
        /\ Pos(r.hwcur, r.tail) <= Pos(r.hwcur, r.nxt)
      BY DEF Lapped, Ordered
  <2> DEFINE h == r.hwcur  a == r.head  b == r.tail  d == r.nxt
  <2>2. /\ h \in Slot /\ a \in Slot /\ b \in Slot /\ d \in Slot
        /\ Pos(h, a) <= Pos(h, b) /\ Pos(h, b) <= Pos(h, d)
        /\ x \in Between(a, b) \/ x \in Between(b, d)
      BY <1>1, <1>2, <2>1
  <2> HIDE DEF h, a, b, d
  <2>3. x \in Between(a, d) BY ONLY <2>2, Cut, SMT
  <2> QED BY <2>3 DEF a, d
<1> QED BY <1>2 DEF Lapped

------------------------------------------------------------------------------
ThRec == [pc : {"off", "init", "around", "flush", "resync", "top", "sync", "loop",
                "drain", "done"},
          batch : 0 .. Batch, cancel : BOOLEAN, err : BOOLEAN, lap : BOOLEAN]
NicRec == [used : 0 .. TxSlots - 1, synced : 0 .. TxSlots - 1]

\* A sender fills what is free, and ends with an empty ring unless a sync failed.
Sender(t) ==
    /\ th[t].pc \notin {"around", "flush", "resync"}
    /\ nic[t].synced <= nic[t].used
    /\ th[t].pc \in {"off", "init"} => nic[t].used = 0
    /\ th[t].pc = "loop" => nic[t].used + th[t].batch <= TxSlots - 1
    /\ th[t].pc = "done" /\ ~th[t].err => nic[t].used = 0

\* The ring of a receiver before, during and after the lap.
Receiver(t) ==
    /\ th[t].pc # "drain"
    /\ th[t].pc \in {"off", "init", "around"} =>
          /\ ~th[t].lap
          /\ rx[t].hwcur = 0 /\ rx[t].tail = 0 /\ rx[t].dram = Slot
    /\ th[t].pc = "around" => rx[t].head = Slots - 1
    /\ th[t].pc = "flush" /\ th[t].lap =>
          /\ Lapped(rx[t], rx[t].tail) /\ rx[t].dram # {}
    /\ th[t].pc \in {"resync", "top", "sync", "loop"} /\ th[t].lap =>
          /\ Lapped(rx[t], rx[t].head)
          /\ rx[t].dram # {} => rx[t].head # Slots - 1

LocalInv(t) == (tx => Sender(t)) /\ (~tx => Receiver(t))

\* Which threads exist, and which of them main() has joined.
MainInv ==
    /\ main.pc = "open" => \A t \in Threads : th[t].pc = "off"
    /\ main.pc = "create" => \A t \in Threads : main.n <= t => th[t].pc = "off"
    /\ main.pc = "cjoin" => main.n = 0
    /\ main.pc = "join" => \A t \in Threads : t < main.n => th[t].pc = "done"
    /\ main.pc = "released" => \A t \in Threads : th[t].pc = "done"

IInv == TypeOK /\ MainInv /\ \A t \in Threads : LocalInv(t)

LEMMA Basics ==
    /\ ncpus \in Nat /\ ncpus > 0 /\ TxSlots \in Nat /\ TxSlots > 0 /\ Batch \in Nat /\ Batch > 0
    /\ Pages \in Nat /\ Threads \subseteq Nat /\ 0 \in Threads
    /\ \A t \in Threads : t < ncpus
BY NmgenAssumption DEF Threads

LEMMA Types ==
    TypeOK <=> /\ tx \in BOOLEAN /\ pages \in 0 .. Pages
               /\ th \in [Threads -> ThRec] /\ nic \in [Threads -> NicRec]
               /\ rx \in [Threads -> Rings]
               /\ caught \in BOOLEAN /\ cnt \in -1 .. ncpus
               /\ main \in [pc : {"open", "create", "cjoin", "join", "released", "failed",
                                 "crashed"}, n : Threads]
BY DEF TypeOK, ThRec, NicRec

LEMMA InitInv == Init => IInv
<1> SUFFICES ASSUME Init PROVE IInv OBVIOUS
<1> USE Basics, SlotBasics
<1>1. Opened \in Rings BY DEF Opened, Rings, Slot
<1>2. TypeOK
  <2>1. th \in [Threads -> ThRec] BY DEF Init, ThRec
  <2>2. nic \in [Threads -> NicRec] BY DEF Init, NicRec
  <2>3. rx \in [Threads -> Rings] BY <1>1 DEF Init
  <2>4. main \in [pc : {"open", "create", "cjoin", "join", "released", "failed", "crashed"},
                  n : Threads]
      BY DEF Init
  <2>5. pages \in 0 .. Pages /\ cnt \in -1 .. ncpus BY DEF Init
  <2>6. tx \in BOOLEAN /\ caught \in BOOLEAN BY Zenon DEF Init
  <2> QED BY <2>1, <2>2, <2>3, <2>4, <2>5, <2>6, Types
<1>3. MainInv BY DEF Init, MainInv
<1>4. \A t \in Threads : Sender(t) /\ Receiver(t) BY DEF Init, Sender, Receiver, Opened
<1> QED BY <1>2, <1>3, <1>4 DEF IInv, LocalInv

\* A step of one thread, of its ring or of its NIC leaves the others alone.
LEMMA Frame ==
    ASSUME IInv, NEW t \in Threads,
           UNCHANGED <<tx, caught, cnt, main>>, pages' \in 0 .. Pages,
           th' \in [Threads -> ThRec], nic' \in [Threads -> NicRec], rx' \in [Threads -> Rings],
           \A s \in Threads \ {t} : th'[s] = th[s] /\ nic'[s] = nic[s] /\ rx'[s] = rx[s],
           th'[t].pc = th[t].pc \/ (Alive /\ th[t].pc \notin {"off", "done"}),
           LocalInv(t)'
    PROVE  IInv'
<1> USE Basics DEF IInv
<1>1. TypeOK' BY Types DEF TypeOK, ThRec, NicRec
<1>2. \A s \in Threads : LocalInv(s)'
    BY DEF LocalInv, Sender, Receiver
<1>3. MainInv' BY DEF MainInv, Alive, TypeOK
<1> QED BY <1>1, <1>2, <1>3

\* The steps of a sender, and its NIC.
LEMMA SenderSteps ==
    ASSUME IInv, NEW t \in Threads, tx,
           Top(t) \/ TxSync(t) \/ TxFill(t) \/ Drain(t) \/ Transmit(t)
    PROVE  IInv'
<1> USE Basics
<1>1. /\ th \in [Threads -> ThRec] /\ nic \in [Threads -> NicRec] /\ rx \in [Threads -> Rings]
      /\ pages \in 0 .. Pages /\ Sender(t) /\ th[t] \in ThRec /\ nic[t] \in NicRec
    BY Types DEF IInv, LocalInv
<1>2. /\ nic[t].used \in Nat /\ nic[t].synced \in Nat /\ nic[t].used <= TxSlots - 1
      /\ nic[t].synced <= nic[t].used /\ th[t].batch \in Nat
    BY <1>1 DEF NicRec, ThRec, Sender
<1>3. CASE Top(t)
  <2>1. PICK l \in {"sync", "drain"} : th' = [th EXCEPT ![t].pc = l]
      BY <1>3, Zenon DEF Top
  <2>2. th' \in [Threads -> ThRec] /\ th'[t].pc \in {"sync", "drain"}
      /\ \A s \in Threads \ {t} : th'[s] = th[s]
      BY <1>1, <2>1 DEF ThRec
  <2>3. LocalInv(t)' BY <1>1, <1>3, <2>2 DEF Top, LocalInv, Sender
  <2> QED BY <1>1, <1>3, <2>2, <2>3, Frame DEF Top, At
<1>4. CASE TxSync(t)
  <2>1. CASE th' = [th EXCEPT ![t].pc = "done", ![t].err = TRUE] /\ nic' = nic
    <3>1. th' \in [Threads -> ThRec] /\ th'[t].pc = "done" /\ th'[t].err
          /\ \A s \in Threads \ {t} : th'[s] = th[s]
        BY <1>1, <2>1, Zenon DEF ThRec
    <3>2. LocalInv(t)' BY <1>1, <1>4, <2>1, <3>1 DEF TxSync, LocalInv, Sender
    <3> QED BY <1>1, <1>4, <2>1, <3>1, <3>2, Frame DEF TxSync, At
  <2>2. CASE /\ th' = [th EXCEPT ![t].pc = IF nm_ring_space(t) = 0 THEN "top" ELSE "loop",
                                 ![t].batch = Least(nm_ring_space(t), Batch)]
             /\ nic' = [nic EXCEPT ![t].synced = nic[t].used]
    <3>1. nm_ring_space(t) \in Nat /\ nm_ring_space(t) = TxSlots - 1 - nic[t].used
        BY <1>2 DEF nm_ring_space
    <3>2. /\ Least(nm_ring_space(t), Batch) \in 0 .. Batch
          /\ Least(nm_ring_space(t), Batch) <= nm_ring_space(t)
        BY <3>1 DEF Least
    <3>3. /\ th' \in [Threads -> ThRec] /\ th'[t].pc \in {"top", "loop"}
          /\ th'[t].batch = Least(nm_ring_space(t), Batch)
          /\ \A s \in Threads \ {t} : th'[s] = th[s]
        BY <1>1, <2>2, <3>2, Zenon DEF ThRec
    <3>4. /\ nic' \in [Threads -> NicRec]
          /\ nic'[t].used = nic[t].used /\ nic'[t].synced = nic[t].used
          /\ \A s \in Threads \ {t} : nic'[s] = nic[s]
        BY <1>1, <1>2, <2>2 DEF NicRec
    <3>5. nic'[t].used + th'[t].batch <= TxSlots - 1
        BY <1>2, <3>1, <3>2, <3>3, <3>4
    <3>6. LocalInv(t)'
        BY <1>2, <1>4, <3>3, <3>4, <3>5 DEF TxSync, LocalInv, Sender
    <3> QED BY <1>1, <1>4, <3>3, <3>4, <3>6, Frame DEF TxSync, At
  <2> QED BY <1>4, <2>1, <2>2 DEF TxSync
<1>5. CASE TxFill(t)
  <2>1. /\ th' \in [Threads -> ThRec] /\ th'[t].pc = "top"
        /\ \A s \in Threads \ {t} : th'[s] = th[s]
      BY <1>1, <1>5 DEF TxFill, ThRec
  <2>2. nic[t].used + th[t].batch <= TxSlots - 1 BY <1>1, <1>5 DEF TxFill, At, Sender
  <2>3. /\ nic' \in [Threads -> NicRec]
        /\ nic'[t].used = nic[t].used + th[t].batch /\ nic'[t].synced = nic[t].synced
        /\ \A s \in Threads \ {t} : nic'[s] = nic[s]
      BY <1>1, <1>2, <1>5, <2>2 DEF TxFill, NicRec
  <2>4. LocalInv(t)' BY <1>2, <1>5, <2>1, <2>3 DEF TxFill, LocalInv, Sender
  <2> QED BY <1>1, <1>5, <2>1, <2>3, <2>4, Frame DEF TxFill, At
<1>6. CASE Drain(t)
  <2>1. /\ nic' \in [Threads -> NicRec]
        /\ nic'[t].used = nic[t].used /\ nic'[t].synced \in {nic[t].synced, nic[t].used}
        /\ \A s \in Threads \ {t} : nic'[s] = nic[s]
    <3>1. nic' = nic \/ nic' = [nic EXCEPT ![t].synced = nic[t].used] BY <1>6 DEF Drain
    <3> QED BY <1>1, <1>2, <3>1 DEF NicRec
  <2>2. /\ th' \in [Threads -> ThRec] /\ \A s \in Threads \ {t} : th'[s] = th[s]
        /\ IF nic[t].used = 0 THEN th'[t].pc = "done" ELSE th'[t].pc = "drain"
    <3>1. th[t].pc = "drain" BY <1>6 DEF Drain, At
    <3>2. CASE nic[t].used = 0
      <4>1. th' = [th EXCEPT ![t].pc = "done"] BY <1>6, <3>2 DEF Drain
      <4> QED BY <1>1, <3>2, <4>1 DEF ThRec
    <3>3. CASE nic[t].used # 0
      <4>1. th' = th BY <1>6, <3>3 DEF Drain
      <4> QED BY <1>1, <3>1, <3>3, <4>1
    <3> QED BY <3>2, <3>3
  <2>3. LocalInv(t)' BY <1>2, <1>6, <2>1, <2>2 DEF Drain, LocalInv, Sender
  <2> QED BY <1>1, <1>6, <2>1, <2>2, <2>3, Frame DEF Drain, At
<1>7. CASE Transmit(t)
  <2>1. /\ nic' \in [Threads -> NicRec]
        /\ nic'[t].used = nic[t].used - 1 /\ nic'[t].synced = nic[t].synced - 1
        /\ \A s \in Threads \ {t} : nic'[s] = nic[s]
      BY <1>1, <1>2, <1>7 DEF Transmit, NicRec
  <2>2. LocalInv(t)' BY <1>1, <1>2, <1>7, <2>1 DEF Transmit, LocalInv, Sender
  <2> QED BY <1>1, <1>7, <2>1, <2>2, Frame DEF Transmit
<1> QED BY <1>3, <1>4, <1>5, <1>6, <1>7

\* The steps of a receiver, and the packets that arrive.
LEMMA ReceiverSteps ==
    ASSUME IInv, NEW t \in Threads, ~tx, Top(t) \/ receiver_body(t) \/ Receive(t)
    PROVE  IInv'
<1> USE Basics, SlotBasics
<1>1. /\ th \in [Threads -> ThRec] /\ nic \in [Threads -> NicRec] /\ rx \in [Threads -> Rings]
      /\ pages \in 0 .. Pages /\ Receiver(t) /\ th[t] \in ThRec /\ rx[t] \in Rings
    BY Types DEF IInv, LocalInv
<1>2. /\ rx[t].head \in Slot /\ rx[t].tail \in Slot /\ rx[t].hwcur \in Slot
      /\ rx[t].nxt \in Slot /\ rx[t].dram \subseteq Slot /\ rx[t].held \subseteq Slot
    BY <1>1 DEF Rings
<1>3. CASE Top(t)
  <2>1. PICK l \in {"sync", "done"} : th' = [th EXCEPT ![t].pc = l]
      BY <1>3, Zenon DEF Top
  <2>2. /\ th' \in [Threads -> ThRec] /\ th'[t].pc \in {"sync", "done"} /\ th'[t].lap = th[t].lap
        /\ \A s \in Threads \ {t} : th'[s] = th[s]
      BY <1>1, <2>1 DEF ThRec
  <2>3. LocalInv(t)' BY <1>1, <1>3, <2>2 DEF Top, At, LocalInv, Receiver
  <2> QED BY <1>1, <1>3, <2>2, <2>3, Frame DEF Top, At
<1>4. CASE RxAround(t)
  <2>0. th[t].pc = "around" /\ ~th[t].lap BY <1>1, <1>4 DEF RxAround, At, Receiver
  <2>1. CASE /\ rx' = [rx EXCEPT ![t] = rxsync(@)]
             /\ th' = [th EXCEPT ![t].pc = "flush", ![t].lap = LapComplete(rx'[t])]
    <3> DEFINE q == rxsync(rx[t])
    <3>1. /\ q.head = Slots - 1 /\ q.tail = rx[t].nxt /\ q.hwcur = Slots - 1 /\ q.nxt = rx[t].nxt
          /\ q.dram = Slot \ Between(0, Slots - 1) /\ q.held = rx[t].held /\ q \in Rings
        BY <1>1, <1>2, <2>0, Zenon DEF rxsync, Receiver, Rings
    <3>2. q.dram = {Slots - 1} BY <3>1 DEF Between, Slot
    <3>3. Between(q.tail, q.nxt) \subseteq q.held
      <4>1. Between(rx[t].nxt, rx[t].nxt) = {} BY <1>2, BetweenSelf, Zenon
      <4> QED BY <3>1, <4>1
    <3>4. Ordered(q)
      <4>1. /\ Pos(q.hwcur, q.head) = 0 /\ Pos(q.hwcur, q.tail) \in Nat
            /\ Pos(q.hwcur, q.nxt) = Pos(q.hwcur, q.tail)
          BY <1>2, <3>1, Distance, Zenon DEF Rings
      <4> QED BY <4>1 DEF Ordered
    <3>5. /\ rx' \in [Threads -> Rings] /\ rx'[t] = q /\ \A s \in Threads \ {t} : rx'[s] = rx[s]
        BY <1>1, <2>1, <3>1
    <3>6. /\ th' \in [Threads -> ThRec] /\ th'[t].pc = "flush" /\ th'[t].lap = (q.head # q.tail)
          /\ \A s \in Threads \ {t} : th'[s] = th[s]
        BY <1>1, <2>1, <3>5, Zenon DEF ThRec, LapComplete
    <3>7. th'[t].lap => Lapped(q, q.tail)
        BY <3>1, <3>2, <3>3, <3>4, <3>6, Zenon DEF Lapped, LastOnly
    <3>8. LocalInv(t)'
        BY <1>4, <3>2, <3>5, <3>6, <3>7 DEF RxAround, LocalInv, Receiver
    <3> QED BY <1>1, <1>4, <3>5, <3>6, <3>8, Frame DEF RxAround, At
  <2>2. CASE th' = [th EXCEPT ![t].pc = "flush"] /\ rx' = rx
    <3>1. /\ th' \in [Threads -> ThRec] /\ th'[t].pc = "flush" /\ ~th'[t].lap
          /\ \A s \in Threads \ {t} : th'[s] = th[s]
        BY <1>1, <2>0, <2>2 DEF ThRec
    <3>2. LocalInv(t)' BY <1>4, <3>1 DEF RxAround, LocalInv, Receiver
    <3> QED BY <1>1, <1>4, <2>2, <3>1, <3>2, Frame DEF RxAround, At
  <2> QED BY <1>4, <2>1, <2>2 DEF RxAround
<1>5. CASE RxFlush(t)
  <2>1. CASE th' = [th EXCEPT ![t].pc = "top", ![t].lap = FALSE] /\ rx' = rx
    <3>1. /\ th' \in [Threads -> ThRec] /\ th'[t].pc = "top" /\ ~th'[t].lap
          /\ \A s \in Threads \ {t} : th'[s] = th[s]
        BY <1>1, <2>1, Zenon DEF ThRec
    <3>2. LocalInv(t)' BY <1>5, <3>1 DEF RxFlush, LocalInv, Receiver
    <3> QED BY <1>1, <1>5, <2>1, <3>1, <3>2, Frame DEF RxFlush, At
  <2>2. CASE th' = [th EXCEPT ![t].pc = "resync"] /\ rx' = [rx EXCEPT ![t] = flush(@)]
    <3>1. flush(rx[t]) \in Rings BY <1>1, <1>2, Zenon DEF flush, Rings
    <3>2. /\ th' \in [Threads -> ThRec] /\ th'[t].pc = "resync" /\ th'[t].lap = th[t].lap
          /\ \A s \in Threads \ {t} : th'[s] = th[s]
        BY <1>1, <2>2 DEF ThRec
    <3>3. /\ rx' \in [Threads -> Rings] /\ rx'[t] = flush(rx[t])
          /\ \A s \in Threads \ {t} : rx'[s] = rx[s]
        BY <1>1, <2>2, <3>1
    <3>4. ASSUME th[t].lap
          PROVE  Lapped(rx'[t], rx'[t].head) /\ rx'[t].head # Slots - 1
      <4>1. Lapped(rx[t], rx[t].tail) /\ rx[t].dram # {}
          BY <1>1, <1>5, <3>4 DEF RxFlush, At, Receiver
      <4>2. rx[t].tail # Slots - 1 BY <4>1 DEF Lapped, LastOnly
      <4>3. Lapped(flush(rx[t]), rx[t].tail) /\ flush(rx[t]).head = rx[t].tail
          BY <1>1, <4>1, FlushLapped DEF Lapped
      <4> QED BY <3>3, <4>2, <4>3
    <3>5. LocalInv(t)' BY <1>5, <3>2, <3>4 DEF RxFlush, LocalInv, Receiver
    <3> QED BY <1>1, <1>5, <3>2, <3>3, <3>5, Frame DEF RxFlush, At
  <2> QED BY <1>5, <2>1, <2>2 DEF RxFlush
<1>6. CASE \/ RxResync(t) /\ rx' = [rx EXCEPT ![t] = rxsync(@)]
           \/ RxSync(t) /\ th'[t].pc = "loop"
  <2>1. /\ rx' = [rx EXCEPT ![t] = rxsync(@)] /\ Alive /\ th[t].pc \in {"resync", "sync"}
        /\ UNCHANGED <<tx, nic, pages, caught, cnt, main>>
        /\ \E l \in {"top", "loop"} : th' = [th EXCEPT ![t].pc = l]
      BY <1>1, <1>6 DEF RxResync, RxSync, At, ThRec
  <2>2. rxsync(rx[t]) \in Rings BY <1>1, <1>2, Zenon DEF rxsync, Rings
  <2>3. /\ th' \in [Threads -> ThRec] /\ th'[t].pc \in {"top", "loop"} /\ th'[t].lap = th[t].lap
        /\ \A s \in Threads \ {t} : th'[s] = th[s]
      BY <1>1, <2>1 DEF ThRec
  <2>4. /\ rx' \in [Threads -> Rings] /\ rx'[t] = rxsync(rx[t])
        /\ \A s \in Threads \ {t} : rx'[s] = rx[s]
      BY <1>1, <2>1, <2>2
  <2>5. ASSUME th[t].lap
        PROVE  Lapped(rx'[t], rx'[t].head) /\ rx'[t].dram = {}
      BY <1>1, <2>1, <2>4, <2>5, SyncLapped DEF Receiver
  <2>6. LocalInv(t)' BY <2>1, <2>3, <2>5 DEF LocalInv, Receiver
  <2> QED BY <1>1, <2>1, <2>3, <2>4, <2>6, Frame
<1>7. CASE RxResync(t) /\ rx' = rx
  <2>1. /\ th' \in [Threads -> ThRec] /\ th'[t].pc = "top" /\ th'[t].lap = th[t].lap
        /\ \A s \in Threads \ {t} : th'[s] = th[s]
      BY <1>1, <1>7 DEF RxResync, ThRec
  <2>2. LocalInv(t)' BY <1>1, <1>7, <2>1 DEF RxResync, At, LocalInv, Receiver
  <2> QED BY <1>1, <1>7, <2>1, <2>2, Frame DEF RxResync, At
<1>8. CASE RxSync(t) /\ th' = [th EXCEPT ![t].pc = "done", ![t].err = TRUE] /\ rx' = rx
  <2>1. /\ th' \in [Threads -> ThRec] /\ th'[t].pc = "done"
        /\ \A s \in Threads \ {t} : th'[s] = th[s]
      BY <1>1, <1>8, Zenon DEF ThRec
  <2>2. LocalInv(t)' BY <1>8, <2>1 DEF RxSync, LocalInv, Receiver
  <2> QED BY <1>1, <1>8, <2>1, <2>2, Frame DEF RxSync, At
<1>9. CASE RxTake(t)
  <2>1. flush(rx[t]) \in Rings BY <1>1, <1>2, Zenon DEF flush, Rings
  <2>2. /\ th' \in [Threads -> ThRec] /\ th'[t].pc = "top" /\ th'[t].lap = th[t].lap
        /\ \A s \in Threads \ {t} : th'[s] = th[s]
      BY <1>1, <1>9 DEF RxTake, ThRec
  <2>3. /\ rx' \in [Threads -> Rings] /\ rx'[t] = flush(rx[t])
        /\ \A s \in Threads \ {t} : rx'[s] = rx[s]
      BY <1>1, <1>9, <2>1 DEF RxTake
  <2>4. ASSUME th[t].lap
        PROVE  Lapped(rx'[t], rx'[t].head) /\ (rx'[t].dram # {} => rx'[t].head # Slots - 1)
    <3>1. Lapped(rx[t], rx[t].head) BY <1>1, <1>9, <2>4 DEF RxTake, At, Receiver
    <3>2. Between(rx[t].tail, rx[t].nxt) \subseteq rx[t].held BY <1>1, <3>1, TailWithin
    <3>3. /\ Lapped(flush(rx[t]), rx[t].tail) /\ flush(rx[t]).head = rx[t].tail
          /\ flush(rx[t]).dram = rx[t].dram
        BY <1>1, <3>1, <3>2, FlushLapped DEF Lapped
    <3>4. rx[t].dram # {} => rx[t].tail # Slots - 1 BY <3>1 DEF Lapped, LastOnly
    <3> QED BY <2>3, <3>3, <3>4
  <2>5. LocalInv(t)' BY <1>9, <2>2, <2>4 DEF RxTake, LocalInv, Receiver
  <2> QED BY <1>1, <1>9, <2>2, <2>3, <2>5, Frame DEF RxTake, At
<1>10. CASE Receive(t)
  <2>1. /\ arrive(rx[t]) \in Rings /\ arrive(rx[t]).head = rx[t].head
        /\ arrive(rx[t]).tail = rx[t].tail /\ arrive(rx[t]).hwcur = rx[t].hwcur
        /\ arrive(rx[t]).dram = rx[t].dram
      BY <1>1, <1>2, Distance, Zenon DEF arrive, Rings
  <2>2. /\ rx' \in [Threads -> Rings] /\ rx'[t] = arrive(rx[t])
        /\ \A s \in Threads \ {t} : rx'[s] = rx[s]
      BY <1>1, <1>10, <2>1 DEF Receive
  <2>3. \A f \in Slot : Lapped(rx[t], f) => Lapped(rx'[t], f)
      BY <1>1, <1>10, <2>2, ArriveLapped DEF Receive
  <2>4. LocalInv(t)'
      BY <1>1, <1>2, <1>10, <2>1, <2>2, <2>3 DEF Receive, LocalInv, Receiver
  <2> QED BY <1>1, <1>10, <2>2, <2>4, Frame DEF Receive
<1>11. RxSync(t) => \/ th'[t].pc = "loop"
                    \/ th' = [th EXCEPT ![t].pc = "done", ![t].err = TRUE] /\ rx' = rx
    BY <1>1 DEF RxSync, ThRec
<1>12. RxResync(t) => rx' = [rx EXCEPT ![t] = rxsync(@)] \/ rx' = rx
    BY DEF RxResync
<1> QED
    BY <1>3, <1>4, <1>5, <1>6, <1>7, <1>8, <1>9, <1>10, <1>11, <1>12 DEF receiver_body

\* A sender or a receiver gets its memory, or none.
LEMMA SetupStep ==
    ASSUME IInv, NEW t \in Threads, Setup(t)
    PROVE  IInv'
<1> USE Basics, SlotBasics
<1>1. /\ th \in [Threads -> ThRec] /\ nic \in [Threads -> NicRec] /\ rx \in [Threads -> Rings]
      /\ pages \in 0 .. Pages /\ LocalInv(t) /\ th[t] \in ThRec /\ rx[t] \in Rings
    BY Types DEF IInv
<1>2. Alive /\ th[t].pc = "init" /\ UNCHANGED <<tx, nic, caught, cnt>> BY DEF Setup, At
<1>3. CASE /\ tx /\ main' = main /\ rx' = rx /\ pages' \in 0 .. Pages
           /\ \E l \in {"top", "done"} : th' = [th EXCEPT ![t].pc = l]
  <2>1. /\ th' \in [Threads -> ThRec] /\ th'[t].pc \in {"top", "done"}
        /\ \A s \in Threads \ {t} : th'[s] = th[s]
      BY <1>1, <1>3 DEF ThRec
  <2>2. LocalInv(t)' BY <1>1, <1>2, <1>3, <2>1 DEF LocalInv, Sender
  <2> QED BY <1>1, <1>2, <1>3, <2>1, <2>2, Frame
<1>4. CASE /\ ~tx /\ main' = main /\ pages' \in 0 .. Pages
           /\ th' = [th EXCEPT ![t].pc = "around"] /\ rx' = [rx EXCEPT ![t] = around(@)]
  <2>1. /\ th' \in [Threads -> ThRec] /\ th'[t].pc = "around" /\ th'[t].lap = th[t].lap
        /\ \A s \in Threads \ {t} : th'[s] = th[s]
      BY <1>1, <1>4 DEF ThRec
  <2>2. /\ around(rx[t]) \in Rings /\ around(rx[t]).head = Slots - 1
        /\ around(rx[t]).tail = rx[t].tail /\ around(rx[t]).hwcur = rx[t].hwcur
        /\ around(rx[t]).dram = rx[t].dram
      BY <1>1 DEF around, Rings, Slot
  <2>3. /\ rx' \in [Threads -> Rings] /\ rx'[t] = around(rx[t])
        /\ \A s \in Threads \ {t} : rx'[s] = rx[s]
      BY <1>1, <1>4, <2>2
  <2>4. LocalInv(t)' BY <1>1, <1>2, <1>4, <2>1, <2>2, <2>3 DEF LocalInv, Receiver
  <2> QED BY <1>1, <1>2, <1>4, <2>1, <2>3, <2>4, Frame
<1>5. CASE /\ UNCHANGED <<th, rx, pages>> /\ main' = [main EXCEPT !.pc = "crashed"]
  <2>1. TypeOK' BY <1>2, <1>5 DEF IInv, TypeOK
  <2>2. MainInv' BY <1>5 DEF IInv, MainInv, TypeOK
  <2>3. \A s \in Threads : LocalInv(s)' BY <1>2, <1>5 DEF IInv, LocalInv, Sender, Receiver
  <2> QED BY <2>1, <2>2, <2>3 DEF IInv
<1>6. pages > 0 => pages - 1 \in 0 .. Pages BY <1>1
<1> QED BY <1>1, <1>3, <1>4, <1>5, <1>6 DEF Setup

\* main(), count_thread() and the signal.
LEMMA MainSteps ==
    ASSUME IInv, main_body \/ Cancel \/ Signal
    PROVE  IInv'
<1> USE Basics
<1>1. /\ th \in [Threads -> ThRec] /\ main.n \in Threads /\ main.n \in Nat /\ cnt \in -1 .. ncpus
      /\ main \in [pc : {"open", "create", "cjoin", "join", "released", "failed", "crashed"},
                   n : Threads]
      /\ TypeOK /\ MainInv /\ \A t \in Threads : LocalInv(t)
    BY Types, Zenon DEF IInv, TypeOK
<1>2. NextThread \in Threads /\ (LastThread => NextThread = 0) /\ (~LastThread => NextThread = main.n + 1)
    BY <1>1 DEF NextThread, LastThread, Threads
<1>3. \A t \in Threads : LastThread /\ t # main.n => t < main.n
    BY <1>1 DEF LastThread
<1>4. CASE th' = th /\ UNCHANGED <<tx, nic, rx, pages>>
  <2>1. \A t \in Threads : LocalInv(t)' BY <1>1, <1>4 DEF LocalInv, Sender, Receiver
  <2>2. CASE OpenPort
    <3>1. TypeOK' BY <1>1, <1>2, <1>4, <2>2 DEF OpenPort, TypeOK
    <3>2. MainInv' BY <1>1, <1>2, <1>4, <2>2 DEF OpenPort, MainInv
    <3> QED BY <2>1, <3>1, <3>2 DEF IInv
  <2>3. CASE JoinCount
    <3>1. TypeOK' BY <1>1, <1>4, <2>3 DEF JoinCount, TypeOK
    <3>2. main'.pc = "join" /\ main'.n = 0 BY <1>1, <2>3 DEF JoinCount, MainInv
    <3>3. MainInv' BY <3>2 DEF MainInv
    <3> QED BY <2>1, <3>1, <3>3 DEF IInv
  <2>4. CASE Join
    <3>1. TypeOK' BY <1>1, <1>2, <1>4, <2>4 DEF Join, TypeOK
    <3>2. MainInv' BY <1>1, <1>2, <1>3, <1>4, <2>4 DEF Join, MainInv
    <3> QED BY <2>1, <3>1, <3>2 DEF IInv
  <2>5. CASE Signal
    <3>1. TypeOK' BY <1>1, <1>4, <2>5 DEF Signal, TypeOK
    <3>2. MainInv' BY <1>1, <1>4, <2>5 DEF Signal, MainInv
    <3> QED BY <2>1, <3>1, <3>2 DEF IInv
  <2>6. CASE Create \/ Cancel
    <3>1. MainInv' BY <1>1, <1>2, <1>4, <2>6 DEF Create, Cancel, MainInv
    <3>2. TypeOK' BY <1>1, <1>2, <1>4, <2>6 DEF Create, Cancel, TypeOK
    <3> QED BY <2>1, <3>1, <3>2 DEF IInv
  <2> QED BY <2>2, <2>3, <2>4, <2>5, <2>6 DEF main_body
<1>5. CASE Create
  <2>1. /\ th' \in [Threads -> ThRec] /\ th'[main.n].pc = "init" /\ th'[main.n].lap = th[main.n].lap
        /\ \A t \in Threads : t # main.n => th'[t] = th[t]
      BY <1>1, <1>5 DEF Create, ThRec
  <2>2. th[main.n].pc = "off" BY <1>1, <1>5 DEF Create, MainInv
  <2>3. cnt' \in -1 .. ncpus BY <1>1, <1>5 DEF Create
  <2>4. TypeOK'
      BY <1>1, <1>2, <1>5, <2>1, <2>3 DEF Create, TypeOK, ThRec
  <2>5. MainInv' BY <1>1, <1>2, <1>5, <2>1 DEF Create, MainInv
  <2>6. \A t \in Threads : LocalInv(t)'
      BY <1>1, <1>5, <2>1, <2>2 DEF Create, LocalInv, Sender, Receiver
  <2> QED BY <2>4, <2>5, <2>6 DEF IInv
<1>6. CASE Cancel
  <2>1. cnt \in Threads /\ cnt + 1 \in -1 .. ncpus BY <1>1, <1>6 DEF Cancel, Threads
  <2>2. /\ th' \in [Threads -> ThRec]
        /\ \A t \in Threads : /\ th'[t].pc = th[t].pc /\ th'[t].lap = th[t].lap
                              /\ th'[t].batch = th[t].batch /\ th'[t].err = th[t].err
    <3>1. th' \in [Threads -> ThRec]
      <4>1. [th[cnt] EXCEPT !.cancel = TRUE] \in ThRec
        <5>1. ASSUME NEW x \in ThRec PROVE [x EXCEPT !.cancel = TRUE] \in ThRec
            BY Zenon DEF ThRec
        <5> QED BY <1>1, <2>1, <5>1
      <4>2. th' = [th EXCEPT ![cnt] = [th[cnt] EXCEPT !.cancel = TRUE]] BY <1>6 DEF Cancel
      <4> QED BY <1>1, <2>1, <4>1, <4>2
    <3> QED BY <1>1, <1>6, <2>1, <3>1 DEF Cancel, ThRec
  <2>3. TypeOK' BY <1>1, <1>6, <2>1, <2>2 DEF Cancel, TypeOK, ThRec
  <2>4. MainInv' BY <1>1, <1>6, <2>2 DEF Cancel, MainInv
  <2>5. \A t \in Threads : LocalInv(t)'
      BY <1>1, <1>6, <2>2 DEF Cancel, LocalInv, Sender, Receiver
  <2> QED BY <2>3, <2>4, <2>5 DEF IInv
<1> QED BY <1>4, <1>5, <1>6 DEF main_body, OpenPort, JoinCount, Join, Signal

------------------------------------------------------------------------------
\* IInv is an invariant.
LEMMA Invariant == Spec => []IInv
<1>1. IInv /\ [Next]_vars => IInv'
  <2> SUFFICES ASSUME IInv, [Next]_vars PROVE IInv' OBVIOUS
  <2>1. CASE main_body \/ Signal \/ Cancel BY <2>1, MainSteps
  <2>2. ASSUME NEW t \in Threads, body(t) \/ Transmit(t) \/ Receive(t)
        PROVE  IInv'
    <3>1. CASE Setup(t) BY <3>1, SetupStep
    <3>2. CASE tx
      <4>1. ~receiver_body(t) /\ ~Receive(t)
          BY <3>2, Zenon DEF IInv, LocalInv, Sender, At, receiver_body, RxAround, RxFlush, RxResync,
                      RxSync, RxTake, Receive
      <4> QED BY <2>2, <3>1, <3>2, <4>1, SenderSteps DEF body
    <3>3. CASE ~tx
      <4>1. ~Drain(t) BY <3>3 DEF IInv, LocalInv, Receiver, Drain, At
      <4> QED BY <2>2, <3>1, <3>3, <4>1, ReceiverSteps DEF body, TxSync, TxFill, Transmit
    <3> QED BY <3>2, <3>3
  <2>3. CASE UNCHANGED vars
      BY <2>3 DEF vars, IInv, TypeOK, MainInv, LocalInv, Sender, Receiver
  <2> QED BY <2>1, <2>2, <2>3 DEF Next, Ended
<1> QED BY <1>1, InitInv, PTL DEF Spec

(***************************************************************************)
(* For any number of threads and any sizes: when nmgen releases the memory *)
(* every thread has ended, and no packet of it waits on a tx ring.         *)
(***************************************************************************)
THEOREM MemoryOutlivesThreadsTheorem == Spec => []MemoryOutlivesThreads
<1>1. IInv => MemoryOutlivesThreads
    BY DEF IInv, MainInv, LocalInv, Sender, MemoryOutlivesThreads
<1> QED BY <1>1, Invariant, PTL

(***************************************************************************)
(* For any size of the rx rings: after a complete lap every slot that a    *)
(* receiver counts holds a packet received into pop memory.                *)
(***************************************************************************)
THEOREM RxTakesFromPopTheorem == Spec => []RxTakesFromPop
<1>1. IInv => RxTakesFromPop
  <2> SUFFICES ASSUME IInv, NEW t \in Threads, ~tx, th[t].lap, th[t].pc = "loop"
               PROVE  Between(rx[t].head, rx[t].tail) \subseteq rx[t].held
      BY DEF RxTakesFromPop
  <2>1. rx[t] \in Rings BY DEF IInv, TypeOK
  <2>2. Lapped(rx[t], rx[t].head) BY DEF IInv, LocalInv, Receiver
  <2> QED BY <2>1, <2>2, TailWithin
<1> QED BY <1>1, Invariant, PTL

------------------------------------------------------------------------------
(* The checksum of the IP header, for any length of it and any size of a   *)
(* byte.                                                                   *)

\* Induction up to N, over a set.
LEMMA UpTo ==
    ASSUME NEW N \in Nat, NEW S, 0 \in S, \A i \in 1 .. N : i - 1 \in S => i \in S
    PROVE  0 .. N \subseteq S
<1> DEFINE T == {i \in Nat : i <= N /\ i \notin S}
           L == {p \in Nat \X Nat : p[1] < p[2]}
<1>1. SUFFICES ASSUME T # {} PROVE FALSE OBVIOUS
<1>2. PICK n \in T : \A k \in T : ~(<<k, n>> \in L)
  <2>1. IsWellFoundedOn(L, Nat) BY NatLessThanWellFounded DEF OpToRel
  <2>2. T \subseteq Nat OBVIOUS
  <2> HIDE DEF L, T
  <2> QED BY <1>1, <2>1, <2>2, WFMin, Zenon
<1>3. n \in Nat /\ n <= N /\ n \notin S /\ n # 0 BY <1>2
<1>4. n \in 1 .. N /\ n - 1 \in Nat /\ n - 1 <= N BY <1>3
<1>5. n - 1 \notin S BY <1>3, <1>4
<1>6. n - 1 \in T BY <1>4, <1>5
<1>7. <<n - 1, n>> \in L BY <1>3, <1>4
<1> QED BY <1>2, <1>6, <1>7

\* f adds w[1], w[2] ... w[N] up by op.
AddsUp(f, N, V, op, w) ==
    /\ f \in [0 .. N -> V] /\ f[0] = 0
    /\ \A i \in 1 .. N : f[i] = op[<<f[i - 1], w[i]>>]

LEMMA FoldExists ==
    ASSUME NEW N \in Nat, NEW V, 0 \in V, NEW op \in [V \X V -> V], NEW w \in [1 .. N -> V]
    PROVE  \E f : AddsUp(f, N, V, op, w)
<1> DEFINE S == {n \in 0 .. N : \E f \in [0 .. N -> V] :
                    f[0] = 0 /\ \A i \in 1 .. n : f[i] = op[<<f[i - 1], w[i]>>]}
<1>1. 0 \in S
  <2> DEFINE f == [i \in 0 .. N |-> 0]
  <2>1. f \in [0 .. N -> V] /\ f[0] = 0 /\ \A i \in 1 .. 0 : f[i] = op[<<f[i - 1], w[i]>>]
      OBVIOUS
  <2> HIDE DEF f
  <2> QED BY <2>1
<1>2. ASSUME NEW n \in 1 .. N, n - 1 \in S PROVE n \in S
  <2>1. PICK f \in [0 .. N -> V] :
              f[0] = 0 /\ \A i \in 1 .. n - 1 : f[i] = op[<<f[i - 1], w[i]>>]
      BY <1>2
  <2>2. PICK v \in V : v = op[<<f[n - 1], w[n]>>]
    <3>1. f[n - 1] \in V /\ w[n] \in V BY <2>1
    <3> QED BY <3>1, Zenon
  <2> DEFINE g == [f EXCEPT ![n] = v]
  <2>3. g \in [0 .. N -> V] /\ g[n] = v /\ \A i \in 0 .. N : i # n => g[i] = f[i] BY <2>2
  <2> HIDE DEF g
  <2>4. ASSUME NEW i \in 1 .. n PROVE g[i] = op[<<g[i - 1], w[i]>>]
    <3>1. g[i - 1] = f[i - 1] BY <2>3
    <3>2. CASE i = n BY <2>2, <2>3, <3>1, <3>2
    <3>3. CASE i # n
      <4>1. i \in 1 .. n - 1 BY <3>3
      <4> QED BY <2>1, <2>3, <3>1, <3>3, <4>1
    <3> QED BY <3>2, <3>3
  <2>5. g[0] = 0 BY <2>1, <2>3
  <2>6. n \in 0 .. N OBVIOUS
  <2> QED BY <2>3, <2>4, <2>5, <2>6
<1> HIDE DEF S
<1>3. 0 .. N \subseteq S BY <1>1, <1>2, UpTo, Zenon
<1>4. N \in S BY <1>3
<1> QED BY <1>4 DEF S, AddsUp

LEMMA ChecksumBasics ==
    /\ Base \in Nat /\ Base > 1 /\ HdrWords \in Nat /\ HdrWords > 0
    /\ SumWord \in Nat /\ SumWord > 0 /\ SumWord <= HdrWords
    /\ Ones \in Nat /\ Ones > 0 /\ Ones + 1 = Base * Base /\ (2 * HdrWords) \div 2 = HdrWords
<1>1. Base \in Nat /\ Base > 1 BY ChecksumAssumption
<1>2. Base * Base \in Nat /\ Base * Base > 1 BY <1>1
<1> QED BY <1>1, <1>2, ChecksumAssumption DEF Ones

\* A word of two bytes is one of 16 bits.
LEMMA Word16 ==
    ASSUME NEW a \in 0 .. Base - 1, NEW b \in 0 .. Base - 1
    PROVE  a * Base + b \in 0 .. Ones
<1>1. a \in Nat /\ b \in Nat /\ a <= Base - 1 /\ b <= Base - 1 /\ Base \in Nat BY ChecksumBasics
<1>2. a * Base \in Nat /\ a * Base <= (Base - 1) * Base BY <1>1
<1>3. (Base - 1) * Base = Base * Base - Base BY <1>1
<1>4. Base * Base \in Nat BY <1>1
<1>5. a * Base + b <= Base * Base - 1 BY <1>1, <1>2, <1>3, <1>4
<1> QED BY <1>1, <1>2, <1>4, <1>5 DEF Ones

LEMMA WordType ==
    ASSUME NEW ip \in [1 .. 2 * HdrWords -> 0 .. Base - 1], NEW i \in 1 .. HdrWords
    PROVE  word(ip, i) \in 0 .. Ones
<1>1. 2 * i - 1 \in 1 .. 2 * HdrWords /\ 2 * i \in 1 .. 2 * HdrWords BY ChecksumBasics
<1>2. ip[2 * i - 1] \in 0 .. Base - 1 /\ ip[2 * i] \in 0 .. Base - 1 BY <1>1
<1> QED BY <1>2, Word16 DEF word

\* The sum stays a word of 16 bits, and what is taken off is a multiple of Ones.
LEMMA AddIs ==
    ASSUME NEW s \in 0 .. Ones, NEW w \in 0 .. Ones
    PROVE  add(s, w) \in 0 .. Ones /\ (add(s, w) = s + w \/ s + w = add(s, w) + Ones)
BY ChecksumBasics DEF add

\* The loop of checksum().
LEMMA ChecksumLoop ==
    ASSUME NEW ip \in [1 .. 2 * HdrWords -> 0 .. Base - 1]
    PROVE  \E c \in [0 .. HdrWords -> 0 .. Ones] :
              /\ c[0] = 0 /\ checksum(ip, 2 * HdrWords) = c[HdrWords]
              /\ \A i \in 1 .. HdrWords : c[i] = add(c[i - 1], word(ip, i))
<1> DEFINE Loop(g) == g = [i \in 0 .. (2 * HdrWords) \div 2 |->
                              IF i = 0 THEN 0 ELSE add(g[i - 1], word(ip, i))]
           op == [p \in (0 .. Ones) \X (0 .. Ones) |-> add(p[1], p[2])]
           w == [i \in 1 .. HdrWords |-> word(ip, i)]
           c == CHOOSE g : Loop(g)
<1>1. 0 \in 0 .. Ones BY ChecksumBasics
<1>2. op \in [(0 .. Ones) \X (0 .. Ones) -> 0 .. Ones] BY AddIs, Zenon
<1>3. \A a, b \in 0 .. Ones : op[<<a, b>>] = add(a, b) BY Zenon
<1>4. w \in [1 .. HdrWords -> 0 .. Ones] BY WordType
<1>5. \E g : Loop(g)
  <2> HIDE DEF op
  <2>1. PICK f \in [0 .. HdrWords -> 0 .. Ones] :
              f[0] = 0 /\ \A i \in 1 .. HdrWords : f[i] = op[<<f[i - 1], w[i]>>]
    <3> HIDE DEF w
    <3>1. HdrWords \in Nat BY ChecksumBasics
    <3> DEFINE V == 0 .. Ones
    <3>2. 0 \in V /\ op \in [V \X V -> V] /\ w \in [1 .. HdrWords -> V] BY <1>1, <1>2, <1>4, Zenon
    <3> HIDE DEF V
    <3>3. \E f : AddsUp(f, HdrWords, V, op, w) BY <3>1, <3>2, FoldExists, Zenon
    <3> QED BY <3>3, Zenon DEF V, AddsUp
  <2>2. ASSUME NEW i \in 1 .. HdrWords PROVE f[i] = add(f[i - 1], word(ip, i))
    <3>1. f[i - 1] \in 0 .. Ones /\ w[i] \in 0 .. Ones
      <4>1. i - 1 \in 0 .. HdrWords BY ChecksumBasics
      <4> QED BY <1>4, <2>1, <4>1, Zenon
    <3>2. f[i] = op[<<f[i - 1], w[i]>>] BY <2>1
    <3>3. w[i] = word(ip, i) OBVIOUS
    <3> QED BY <1>3, <3>1, <3>2, <3>3, Zenon
  <2>3. f = [i \in 0 .. HdrWords |-> IF i = 0 THEN 0 ELSE add(f[i - 1], word(ip, i))]
    <3>1. ASSUME NEW i \in 0 .. HdrWords
          PROVE  f[i] = IF i = 0 THEN 0 ELSE add(f[i - 1], word(ip, i))
      <4>1. i # 0 => i \in 1 .. HdrWords BY ChecksumBasics
      <4> QED BY <2>1, <2>2, <4>1, Zenon
    <3> QED BY <2>1, <3>1
  <2>4. Loop(f) BY <2>3, ChecksumBasics
  <2> QED BY <2>4, Zenon
<1>6. Loop(c) BY <1>5, Zenon
<1>7. checksum(ip, 2 * HdrWords) = c[HdrWords] BY ChecksumBasics DEF checksum
<1> HIDE DEF c
<1>8. c = [i \in 0 .. HdrWords |-> IF i = 0 THEN 0 ELSE add(c[i - 1], word(ip, i))]
    BY <1>6, ChecksumBasics
<1>9. c[0] = 0 /\ \A i \in 1 .. HdrWords : c[i] = add(c[i - 1], word(ip, i))
    BY <1>8, ChecksumBasics
<1>10. c \in [0 .. HdrWords -> 0 .. Ones]
  <2> DEFINE S == {i \in 0 .. HdrWords : c[i] \in 0 .. Ones}
  <2>1. 0 \in S BY <1>1, <1>9, ChecksumBasics
  <2>2. ASSUME NEW i \in 1 .. HdrWords, i - 1 \in S PROVE i \in S
    <3>1. c[i - 1] \in 0 .. Ones /\ word(ip, i) \in 0 .. Ones BY <2>2, WordType
    <3>2. c[i] \in 0 .. Ones BY <1>9, <3>1, AddIs, Zenon
    <3> QED BY <3>2
  <2> HIDE DEF S
  <2>3. 0 .. HdrWords \subseteq S BY <2>1, <2>2, UpTo, ChecksumBasics, Zenon
  <2>4. \A i \in 0 .. HdrWords : c[i] \in 0 .. Ones BY <2>3, Zenon DEF S
  <2> QED BY <1>8, <2>4, Zenon
<1> QED BY <1>7, <1>9, <1>10, Zenon

\* t adds the words of ip up without carries.
Totals(t, ip) ==
    /\ t \in [0 .. HdrWords -> Nat] /\ t[0] = 0
    /\ \A i \in 1 .. HdrWords : t[i] = t[i - 1] + word(ip, i)

LEMMA TotalLoop ==
    ASSUME NEW ip, \A i \in 1 .. HdrWords : word(ip, i) \in Nat
    PROVE  \E t : Totals(t, ip) /\ Total(ip) = t[HdrWords]
<1> DEFINE Loop(g) == g = [i \in 0 .. HdrWords |-> IF i = 0 THEN 0 ELSE g[i - 1] + word(ip, i)]
           op == [p \in Nat \X Nat |-> p[1] + p[2]]
           w == [i \in 1 .. HdrWords |-> word(ip, i)]
           t == CHOOSE g : Loop(g)
<1>1. HdrWords \in Nat BY ChecksumBasics
<1>2. op \in [Nat \X Nat -> Nat] OBVIOUS
<1>3. \A a, b \in Nat : op[<<a, b>>] = a + b BY Zenon
<1>4. w \in [1 .. HdrWords -> Nat] OBVIOUS
<1>5. \E g : Loop(g)
  <2> HIDE DEF op
  <2>1. PICK f : AddsUp(f, HdrWords, Nat, op, w)
    <3> HIDE DEF w
    <3> QED BY <1>1, <1>2, <1>4, FoldExists, Zenon
  <2>2. f \in [0 .. HdrWords -> Nat] /\ f[0] = 0 BY <2>1, Zenon DEF AddsUp
  <2>3. ASSUME NEW i \in 1 .. HdrWords PROVE f[i] = f[i - 1] + word(ip, i)
    <3>1. f[i - 1] \in Nat /\ w[i] \in Nat
      <4>1. i - 1 \in 0 .. HdrWords BY <1>1
      <4> QED BY <1>4, <2>2, <4>1, Zenon
    <3>2. f[i] = op[<<f[i - 1], w[i]>>] BY <2>1, Zenon DEF AddsUp
    <3>3. w[i] = word(ip, i) OBVIOUS
    <3> QED BY <1>3, <3>1, <3>2, <3>3, Zenon
  <2>4. ASSUME NEW i \in 0 .. HdrWords
        PROVE  f[i] = IF i = 0 THEN 0 ELSE f[i - 1] + word(ip, i)
    <3>1. i # 0 => i \in 1 .. HdrWords BY <1>1
    <3> QED BY <2>2, <2>3, <3>1, Zenon
  <2>5. Loop(f) BY <2>2, <2>4, Zenon
  <2> QED BY <2>5, Zenon
<1>6. Loop(t) BY <1>5, Zenon
<1>7. Total(ip) = t[HdrWords] BY Zenon DEF Total
<1> HIDE DEF t
<1>8. t[0] = 0 /\ \A i \in 1 .. HdrWords : t[i] = t[i - 1] + word(ip, i)
    BY <1>1, <1>6
<1>9. t \in [0 .. HdrWords -> Nat]
  <2> DEFINE S == {i \in 0 .. HdrWords : t[i] \in Nat}
  <2>1. 0 \in S BY <1>1, <1>8
  <2>2. ASSUME NEW i \in 1 .. HdrWords, i - 1 \in S PROVE i \in S
    <3>1. t[i - 1] \in Nat /\ word(ip, i) \in Nat BY <2>2
    <3>2. t[i] \in Nat BY <1>8, <3>1
    <3> QED BY <3>2
  <2> HIDE DEF S
  <2>3. 0 .. HdrWords \subseteq S BY <1>1, <2>1, <2>2, UpTo, Zenon
  <2>4. \A i \in 0 .. HdrWords : t[i] \in Nat BY <2>3, Zenon DEF S
  <2> QED BY <1>6, <2>4, Zenon
<1> QED BY <1>7, <1>8, <1>9, Zenon DEF Totals

\* checksum() is the total up to a multiple of Ones.
LEMMA Congruent ==
    ASSUME NEW ip, NEW c \in [0 .. HdrWords -> 0 .. Ones], NEW t, Totals(t, ip), c[0] = 0,
           \A i \in 1 .. HdrWords : word(ip, i) \in 0 .. Ones,
           \A i \in 1 .. HdrWords : c[i] = add(c[i - 1], word(ip, i))
    PROVE  \E k \in Nat : t[HdrWords] = c[HdrWords] + k * Ones
<1>t. /\ t \in [0 .. HdrWords -> Nat] /\ t[0] = 0
      /\ \A i \in 1 .. HdrWords : t[i] = t[i - 1] + word(ip, i)
    BY Zenon DEF Totals
<1> DEFINE S == {i \in 0 .. HdrWords : \E k \in Nat : t[i] = c[i] + k * Ones}
<1>1. HdrWords \in Nat /\ Ones \in Nat BY ChecksumBasics
<1>2. 0 \in S
  <2>1. t[0] = c[0] + 0 * Ones BY <1>t, <1>1
  <2>2. 0 \in 0 .. HdrWords BY <1>1
  <2> QED BY <2>1, <2>2
<1>3. ASSUME NEW i \in 1 .. HdrWords, i - 1 \in S PROVE i \in S
  <2>1. PICK k \in Nat : t[i - 1] = c[i - 1] + k * Ones BY <1>3, Zenon
  <2>2. PICK w \in 0 .. Ones : w = word(ip, i) BY Zenon
  <2>3. i - 1 \in 0 .. HdrWords /\ i \in 0 .. HdrWords BY <1>1
  <2>4. PICK a \in 0 .. Ones : a = c[i - 1] BY <2>3, Zenon
  <2>5. PICK b \in 0 .. Ones : b = c[i] BY <2>3, Zenon
  <2>6. t[i] = t[i - 1] + w /\ t[i - 1] = a + k * Ones BY <1>t, <2>1, <2>2, <2>4, Zenon
  <2>7. b = a + w \/ a + w = b + Ones
    <3>1. b = add(a, w) BY <2>2, <2>4, <2>5, Zenon
    <3> QED BY <3>1, AddIs, Zenon
  <2>8. k * Ones \in Nat /\ (k + 1) * Ones = k * Ones + Ones BY <1>1
  <2>9. PICK m \in Nat : m = k * Ones BY <2>8, Zenon
  <2>10. CASE b = a + w
    <3>1. t[i] = b + k * Ones BY <1>1, <2>6, <2>9, <2>10
    <3> QED BY <2>3, <2>5, <3>1, Zenon
  <2>11. CASE a + w = b + Ones
    <3>1. t[i] = b + (k + 1) * Ones BY <1>1, <2>6, <2>8, <2>9, <2>11
    <3>2. k + 1 \in Nat OBVIOUS
    <3> QED BY <2>3, <2>5, <3>1, <3>2, Zenon
  <2> QED BY <2>7, <2>10, <2>11
<1> HIDE DEF S
<1>4. 0 .. HdrWords \subseteq S BY <1>1, <1>2, <1>3, UpTo, Zenon
<1>5. HdrWords \in 0 .. HdrWords BY <1>1
<1>6. HdrWords \in S BY <1>4, <1>5, Zenon
<1> QED BY <1>6, Zenon DEF S

LEMMA DivMod ==
    ASSUME NEW a \in Nat, NEW b \in Nat, b > 0
    PROVE  /\ a \div b \in Nat /\ a % b \in Nat /\ a % b < b
           /\ a = (a \div b) * b + (a % b)
OBVIOUS

\* How build_packet() stores ip_sum, in network order.
PutSum(ip, v) == [ip EXCEPT ![2 * SumWord - 1] = v \div Base, ![2 * SumWord] = v % Base]

\* q is the header p with v in the word that is ip_sum.
Stored(q, p, v) ==
    \A i \in 1 .. HdrWords : word(q, i) = IF i = SumWord THEN v ELSE word(p, i)

\* The bytes that build_packet() stores are the word it means, and it leaves the
\* other words alone.
LEMMA StoredWord ==
    ASSUME NEW ip \in [1 .. 2 * HdrWords -> 0 .. Base - 1], NEW v \in Nat
    PROVE  Stored(PutSum(ip, v), ip, v)
<1>q. PICK q : q = PutSum(ip, v) OBVIOUS
<1>d. /\ v \div Base \in Nat /\ v % Base \in Nat
      /\ v = (v \div Base) * Base + (v % Base)
  <2>1. Base \in Nat /\ Base > 0 BY ChecksumBasics
  <2> QED BY <2>1, DivMod, Zenon
<1>1. PICK a \in Nat : a = v \div Base BY <1>d, Zenon
<1>2. PICK b \in Nat : b = v % Base BY <1>d, Zenon
<1>3. a * Base + b = v BY <1>d, <1>1, <1>2, Zenon
<1>4. \A n \in 1 .. 2 * HdrWords :
          q[n] = IF n = 2 * SumWord THEN b ELSE IF n = 2 * SumWord - 1 THEN a ELSE ip[n]
  <2>1. 2 * SumWord - 1 # 2 * SumWord BY ChecksumBasics
  <2> QED BY <1>q, <1>1, <1>2, <2>1, Zenon DEF PutSum
<1> SUFFICES ASSUME NEW i \in 1 .. HdrWords
             PROVE  word(q, i) = IF i = SumWord THEN v ELSE word(ip, i)
    BY <1>q, Zenon DEF Stored
<1>5. 2 * i - 1 \in 1 .. 2 * HdrWords /\ 2 * i \in 1 .. 2 * HdrWords BY ChecksumBasics
<1>6. CASE i = SumWord
  <2>1. q[2 * i] = b /\ q[2 * i - 1] = a
    <3>1. 2 * i - 1 # 2 * SumWord BY ChecksumBasics
    <3> QED BY <1>4, <1>5, <1>6, <3>1, Zenon
  <2>2. word(q, i) = a * Base + b BY <2>1, Zenon DEF word
  <2> QED BY <1>3, <1>6, <2>2, Zenon
<1>7. CASE i # SumWord
  <2>1. /\ 2 * i - 1 # 2 * SumWord /\ 2 * i - 1 # 2 * SumWord - 1
        /\ 2 * i # 2 * SumWord /\ 2 * i # 2 * SumWord - 1
      BY <1>7, ChecksumBasics
  <2>2. q[2 * i] = ip[2 * i] /\ q[2 * i - 1] = ip[2 * i - 1] BY <1>4, <1>5, <2>1, Zenon
  <2>3. word(q, i) = word(ip, i) BY <2>2, Zenon DEF word
  <2> QED BY <1>7, <2>3, Zenon
<1> QED BY <1>6, <1>7

\* A total grows by what is stored in a word that was 0.
LEMMA TotalGrows ==
    ASSUME NEW p, NEW q, NEW t, NEW u, Totals(t, p), Totals(u, q), NEW v \in Nat, Stored(q, p, v),
           \A i \in 1 .. HdrWords : word(p, i) \in Nat, word(p, SumWord) = 0
    PROVE  u[HdrWords] = t[HdrWords] + v
<1>t. /\ t \in [0 .. HdrWords -> Nat] /\ t[0] = 0
      /\ \A i \in 1 .. HdrWords : t[i] = t[i - 1] + word(p, i)
      /\ u \in [0 .. HdrWords -> Nat] /\ u[0] = 0
      /\ \A i \in 1 .. HdrWords : u[i] = u[i - 1] + word(q, i)
    BY Zenon DEF Totals
<1> DEFINE S == {i \in 0 .. HdrWords : u[i] = IF i < SumWord THEN t[i] ELSE t[i] + v}
<1>1. HdrWords \in Nat BY ChecksumBasics
<1>2. 0 \in S BY <1>t, ChecksumBasics
<1>3. ASSUME NEW i \in 1 .. HdrWords, i - 1 \in S PROVE i \in S
  <2>1. i - 1 \in 0 .. HdrWords /\ i \in 0 .. HdrWords BY <1>1
  <2>2. PICK a \in Nat : a = t[i - 1] BY <1>t, <2>1, Zenon
  <2>3. PICK w \in Nat : w = word(p, i) BY Zenon
  <2>4. u[i - 1] = IF i - 1 < SumWord THEN a ELSE a + v BY <1>3, <2>2, Zenon
  <2>5. /\ t[i] = a + w
        /\ i = SumWord => u[i] = u[i - 1] + v /\ w = 0
        /\ i # SumWord => u[i] = u[i - 1] + w
      BY <1>t, <2>2, <2>3, Zenon DEF Stored
  <2>6. CASE i < SumWord
    <3>1. u[i - 1] = a /\ i # SumWord BY <2>4, <2>6, ChecksumBasics
    <3> QED BY <2>1, <2>5, <2>6, <3>1, Zenon
  <2>7. CASE i = SumWord
    <3>1. u[i - 1] = a /\ ~(i < SumWord) BY <2>4, <2>7, ChecksumBasics
    <3>2. u[i] = t[i] + v BY <2>5, <2>7, <3>1
    <3> QED BY <2>1, <3>1, <3>2, Zenon
  <2>8. CASE i > SumWord
    <3>1. u[i - 1] = a + v /\ i # SumWord /\ ~(i < SumWord) BY <2>4, <2>8, ChecksumBasics
    <3>2. u[i] = t[i] + v BY <2>5, <3>1
    <3> QED BY <2>1, <3>1, <3>2, Zenon
  <2> QED BY <2>6, <2>7, <2>8, ChecksumBasics
<1> HIDE DEF S
<1>4. 0 .. HdrWords \subseteq S BY <1>1, <1>2, <1>3, UpTo, Zenon
<1>5. HdrWords \in 0 .. HdrWords /\ ~(HdrWords < SumWord) BY ChecksumBasics
<1>6. HdrWords \in S BY <1>4, <1>5, Zenon
<1> QED BY <1>5, <1>6, Zenon DEF S

LEMMA Multiple ==
    ASSUME NEW b \in Nat, b > 0, NEW k \in Nat
    PROVE  (k * b) % b = 0
<1>1. PICK n \in Nat : n = k * b OBVIOUS
<1>2. PICK q \in Int : q = n \div b BY <1>1
<1>3. PICK r \in Nat : r = n % b BY <1>1
<1>4. r < b /\ n = q * b + r BY <1>1, <1>2, <1>3
<1>5. (k - q) * b = r
  <2>1. (k - q) * b = k * b - q * b BY <1>2
  <2> QED BY <1>1, <1>2, <1>3, <1>4, <2>1
<1>6. PICK d \in Int : d = k - q BY <1>2
<1>7. d * b = r BY <1>5, <1>6
<1>8. ~(d >= 1) BY <1>3, <1>4, <1>6, <1>7
<1>9. ~(d <= -1) BY <1>3, <1>4, <1>6, <1>7
<1>10. d = 0 BY <1>6, <1>8, <1>9
<1> QED BY <1>1, <1>3, <1>7, <1>10

(***************************************************************************)
(* For headers of any length and bytes of any size: the words of a header  *)
(* that build_packet() has completed add up to zero modulo 0xFFFF.         *)
(***************************************************************************)
THEOREM AllVerifyTheorem == AllVerify
<1> SUFFICES ASSUME NEW ip \in Headers PROVE Verifies(build_packet(ip))
    BY DEF AllVerify
<1>1. /\ ip \in [1 .. 2 * HdrWords -> 0 .. Base - 1]
      /\ ip[2 * SumWord - 1] = 0 /\ ip[2 * SumWord] = 0
    BY DEF Headers
<1>2. PICK c \in [0 .. HdrWords -> 0 .. Ones] :
          /\ c[0] = 0 /\ checksum(ip, 2 * HdrWords) = c[HdrWords]
          /\ \A i \in 1 .. HdrWords : c[i] = add(c[i - 1], word(ip, i))
    BY <1>1, ChecksumLoop, Zenon
<1>3. \A i \in 1 .. HdrWords : word(ip, i) \in 0 .. Ones BY <1>1, WordType, Zenon
<1>4. \A i \in 1 .. HdrWords : word(ip, i) \in Nat BY <1>3, ChecksumBasics
<1>5. PICK t : Totals(t, ip) BY <1>4, TotalLoop, Zenon
<1>6. PICK k \in Nat : t[HdrWords] = c[HdrWords] + k * Ones
    BY <1>2, <1>3, <1>5, Congruent, Zenon
<1>7. PICK s \in 0 .. Ones : s = c[HdrWords]
  <2>1. HdrWords \in 0 .. HdrWords BY ChecksumBasics
  <2> QED BY <1>2, <2>1, Zenon
<1>8. PICK v \in Nat : v = Ones - s BY <1>7, ChecksumBasics
<1>9. PICK q : q = PutSum(ip, v) OBVIOUS
<1>10. q = build_packet(ip) BY <1>2, <1>7, <1>8, <1>9, Zenon DEF build_packet, wrapsum, PutSum
<1>11. Stored(q, ip, v) BY <1>1, <1>8, <1>9, StoredWord, Zenon
<1>12. \A i \in 1 .. HdrWords : word(q, i) \in Nat BY <1>4, <1>8, <1>11, Zenon DEF Stored
<1>13. PICK u : Totals(u, q) /\ Total(q) = u[HdrWords] BY <1>12, TotalLoop, Zenon
<1>14. word(ip, SumWord) = 0 BY <1>1, ChecksumBasics DEF word
<1>15. u[HdrWords] = t[HdrWords] + v
    BY <1>4, <1>5, <1>8, <1>11, <1>13, <1>14, TotalGrows
<1>16. Total(q) = (k + 1) * Ones
  <2>1. PICK m \in Nat : m = k * Ones BY <1>6, ChecksumBasics
  <2>2. (k + 1) * Ones = m + Ones BY <1>6, <2>1, ChecksumBasics
  <2>3. u[HdrWords] = s + m + v BY <1>6, <1>7, <1>15, <2>1
  <2>4. s + m + v = m + Ones BY <1>7, <1>8, <2>1, ChecksumBasics
  <2> QED BY <1>13, <2>2, <2>3, <2>4
<1>17. k + 1 \in Nat BY <1>6
<1>18. Total(q) % Ones = 0 BY <1>16, <1>17, Multiple, ChecksumBasics, Zenon
<1> QED BY <1>10, <1>18 DEF Verifies

(***************************************************************************)
(* So the headers of the packets that a sender of nmgen sends are valid.   *)
(***************************************************************************)
THEOREM HeaderVerifiesTheorem == Spec => []HeaderVerifies
<1>1. HeaderVerifies BY AllVerifyTheorem DEF HeaderVerifies
<1> QED BY <1>1, PTL
==============================================================================
