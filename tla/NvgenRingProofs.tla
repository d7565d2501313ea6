--------------------------- MODULE NvgenRingProofs ---------------------------
(***************************************************************************)
(* Proofs about NvgenRing, for any size of the two rings and any batches.  *)
(***************************************************************************)
EXTENDS NvgenRing, TLAPS

URec == [pc : {"off", "top", "scan", "issue", "poll", "done"}, batch : Nat, nblocks : Nat,
         head : Slots, iod : Seq(Slots)]
NRec == [pc : {"off", "top", "scan", "sync", "fill", "drain", "done"}, loaded : Nat,
         left : Nat, tail : Slots]
Cmd == [at : Slots, nblocks : Nat]

Types ==
    /\ ring \in [head : Slots, tail : Slots] /\ u \in URec /\ n \in NRec
    /\ cmds \subseteq Cmd /\ late \subseteq Cmd
    /\ txq \in Seq(Slots) /\ synced \in Nat /\ synced <= Len(txq)
    /\ main \in [pc : {"start", "started", "join", "released", "ended"},
                 tid : {"none", "netmap", "unvme"}]

\* The head is even, and in the random walk every command reads one block.
Aligned ==
    /\ ring.head % 2 = 0 /\ u.head % 2 = 0
    /\ ~seq => /\ u.pc = "issue" => u.nblocks = 1
               /\ \A c \in cmds \cup late : c.at % 2 = 0 /\ c.nblocks = 1

\* What is left of the batch fits behind what is on the tx ring.
Fits == Len(txq) + (IF n.pc = "fill" THEN n.left ELSE 0) <= TxSlots - 1

\* A command that is not complete is one that the loop has still to poll.
Polled ==
    /\ \A c \in cmds : \E i \in 1 .. Len(u.iod) : u.iod[i] = c.at
    /\ u.pc \notin {"issue", "poll"} => u.iod = <<>>
    /\ u.pc = "poll" => u.iod # <<>>

\* main() knows the tid of the unvme thread, and has waited for it.
Joined ==
    /\ main.pc \in {"start", "started"} => u.pc = "off"
    /\ main.pc = "join" => main.tid = "unvme"
    /\ main.pc \in {"released", "ended"} => u.pc = "done"

IInv == Types /\ Aligned /\ Fits /\ Polled /\ Joined

------------------------------------------------------------------------------
(* Arithmetic of the ring.                                                 *)

LEMMA Basics ==
    /\ SLOT_NUM \in Nat /\ SLOT_NUM > 1 /\ SLOT_NUM % 2 = 0
    /\ WORD \in Nat /\ WORD > 0
    /\ TxSlots \in Nat /\ TxSlots > 0 /\ Batch \in Nat /\ NvBatch \in Nat
    /\ 0 \in Slots /\ 0 % 2 = 0
BY NvgenAssumption DEF Slots

LEMMA MaskInSlots == ASSUME NEW x \in Nat PROVE Mask(x) \in Slots
BY Basics DEF Mask, Slots

\* The ring's size is even, so that going round keeps the head even.
LEMMA MaskEven ==
    ASSUME NEW x \in Nat, x % 2 = 0
    PROVE  Mask(x) % 2 = 0
<1>1. PICK s \in Nat : SLOT_NUM = 2 * s /\ s > 0
  <2>1. SLOT_NUM = 2 * (SLOT_NUM \div 2) /\ SLOT_NUM \div 2 \in Nat /\ SLOT_NUM \div 2 > 0
      BY Basics
  <2> QED BY <2>1
<1>2. PICK k \in Nat : x = 2 * k
  <2>1. x = 2 * (x \div 2) /\ x \div 2 \in Nat OBVIOUS
  <2> QED BY <2>1
<1>3. PICK q \in Int : x = SLOT_NUM * q + Mask(x)
  <2>1. x \div SLOT_NUM \in Int /\ x = SLOT_NUM * (x \div SLOT_NUM) + Mask(x)
      BY Basics DEF Mask
  <2> QED BY <2>1
<1>4. PICK p \in Int : p = s * q BY <1>1, <1>3
<1>5. SLOT_NUM * q = 2 * p BY <1>1, <1>3, <1>4
<1>6. Mask(x) \in Nat BY MaskInSlots, Basics DEF Slots
<1> QED BY <1>2, <1>3, <1>4, <1>5, <1>6

LEMMA LeastIs ==
    ASSUME NEW x \in Int, NEW y \in Int
    PROVE  Least(x, y) \in {x, y} /\ Least(x, y) <= x /\ Least(x, y) <= y
BY DEF Least

LEMMA EvenIs ==
    ASSUME NEW x \in Nat
    PROVE  Even(x) \in Nat /\ Even(x) <= x /\ Even(x) \div 2 \in Nat
<1>1. x % 2 \in Nat /\ x % 2 <= x OBVIOUS
<1> QED BY <1>1 DEF Even

LEMMA EmptySeq == <<>> \in Seq(Slots) /\ Len(<<>>) = 0
OBVIOUS

LEMMA AppendIs ==
    ASSUME NEW s \in Seq(Slots), NEW x \in Slots
    PROVE  /\ Append(s, x) \in Seq(Slots) /\ Len(s) \in Nat
           /\ Len(Append(s, x)) = Len(s) + 1 /\ Append(s, x) # <<>>
           /\ Append(s, x)[Len(s) + 1] = x
           /\ \A i \in 1 .. Len(s) : Append(s, x)[i] = s[i]
<1>1. Append(s, x) # <<>> BY Len(Append(s, x)) = Len(s) + 1, Len(<<>>) = 0, Len(s) \in Nat
<1> QED BY <1>1

LEMMA TailIs ==
    ASSUME NEW s \in Seq(Slots), s # <<>>
    PROVE  /\ Tail(s) \in Seq(Slots) /\ Len(s) \in Nat /\ Len(s) > 0
           /\ Len(Tail(s)) = Len(s) - 1 /\ Head(s) = s[1]
           /\ \A i \in 1 .. Len(s) - 1 : Tail(s)[i] = s[i + 1]
           /\ Len(s) # 1 => Len(s) > 1 /\ Tail(s) # <<>>
<1>1. Tail(s) \in Seq(Slots) /\ Len(s) \in Nat /\ Len(s) > 0 /\ Len(Tail(s)) = Len(s) - 1
    OBVIOUS
<1>2. Len(s) # 1 => Len(s) > 1 /\ Tail(s) # <<>> BY <1>1, EmptySeq
<1>3. Head(s) = s[1] /\ \A i \in 1 .. Len(s) - 1 : Tail(s)[i] = s[i + 1] OBVIOUS
<1> QED BY <1>1, <1>2, <1>3

LEMMA InitInv == Init => IInv
<1> USE Basics
<1> SUFFICES ASSUME Init PROVE IInv OBVIOUS
<1>1. txq = <<>> /\ Len(txq) = 0 /\ txq \in Seq(Slots) /\ u.iod \in Seq(Slots) BY DEF Init
<1>2. Types BY <1>1 DEF Init, Types, URec, NRec
<1>3. Aligned /\ Polled /\ Joined BY DEF Init, Aligned, Polled, Joined
<1>4. Fits BY <1>1 DEF Init, Fits
<1> QED BY <1>2, <1>3, <1>4 DEF IInv

------------------------------------------------------------------------------
(* The unvme thread.                                                       *)

LEMMA UScanStep == ASSUME IInv, UTop \/ UScan PROVE IInv'
<1> USE Basics
<1>1. CASE UTop
    BY <1>1, Zenon DEF UTop, nvme, nic, opt, IInv, Types, URec, Aligned, Fits, Polled, Joined
<1>2. CASE UScan /\ ring_write_avail < 2
    BY <1>2, Zenon DEF UScan, Again, nvme, nic, opt, IInv, Types, URec, Aligned, Fits, Polled, Joined
<1>3. CASE UScan /\ ~(ring_write_avail < 2)
  <2> DEFINE batch == Least(Even(ring_write_avail) \div 2, NvBatch)
  <2>1. ring.head \in Slots /\ ring.tail \in Slots BY DEF IInv, Types
  <2>2. ring_write_avail \in Int BY <2>1 DEF ring_write_avail, Slots
  <2>3. ring_write_avail \in Nat BY <1>3, <2>2
  <2>e. Even(ring_write_avail) \div 2 \in Nat BY <2>3, EvenIs
  <2>4. batch \in Nat BY <2>e DEF Least
  <2> HIDE DEF batch
  <2>5. u' = [u EXCEPT !.pc = "issue", !.head = ring.head, !.iod = <<>>,
                       !.batch = IF seq THEN 1 ELSE batch,
                       !.nblocks = IF seq THEN batch ELSE 1]
      BY <1>3 DEF UScan, batch
  <2>6. u' \in URec /\ u'.pc = "issue" /\ u'.head = ring.head /\ u'.iod = <<>>
        /\ (~seq => u'.nblocks = 1)
      BY <2>1, <2>4, <2>5, EmptySeq, Zenon DEF IInv, Types, URec
  <2>7. u.pc = "scan" /\ u.iod = <<>> BY <1>3 DEF UScan, IInv, Polled
  <2>8. UNCHANGED <<opt, ring, cancel, nvme, nic, n, main, history>> BY <1>3 DEF UScan
  <2> QED BY <2>6, <2>7, <2>8
          DEF nvme, nic, opt, IInv, Types, Aligned, Fits, Polled, Joined
<1> QED BY <1>1, <1>2, <1>3

LEMMA UIssueStep == ASSUME IInv, UIssue PROVE IInv'
<1> USE Basics
<1> DEFINE c == [at |-> u.head, nblocks |-> u.nblocks]
<1>1. /\ u.head \in Slots /\ u.head \in Nat /\ u.nblocks \in Nat /\ u.head % 2 = 0
      /\ u.iod \in Seq(Slots) /\ u.pc = "issue"
    BY DEF IInv, Types, URec, Aligned, UIssue, Slots
<1>2. ASSUME NEW h \in Nat, NEW m \in Nat, h % 2 = 0
      PROVE  h + 2 * m \in Nat /\ (h + 2 * m) % 2 = 0
    BY <1>2
<1>3. Mask(u.head + 2 * u.nblocks) \in Slots /\ Mask(u.head + 2 * u.nblocks) % 2 = 0
    BY <1>1, <1>2, MaskInSlots, MaskEven, Zenon
<1>4. /\ u' \in URec /\ u'.head = Mask(u.head + 2 * u.nblocks)
      /\ u'.iod = Append(u.iod, u.head) /\ u'.pc \in {"issue", "poll"}
      /\ u'.nblocks = u.nblocks
    BY <1>1, <1>3, AppendIs, Zenon DEF UIssue, IInv, Types, URec
<1>5. c \in Cmd /\ cmds' = cmds \cup {c} BY <1>1 DEF UIssue, Cmd
<1>6. UNCHANGED <<opt, ring, cancel, late, nic, n, main, history>> BY DEF UIssue
<1>7. Types' BY <1>4, <1>5, <1>6 DEF nic, IInv, Types
<1>8. Aligned' BY <1>1, <1>3, <1>4, <1>5, <1>6 DEF opt, IInv, Aligned
<1>9. Fits' BY <1>6 DEF nic, IInv, Fits
<1>10. /\ Len(u'.iod) = Len(u.iod) + 1 /\ Len(u.iod) \in Nat
       /\ u'.iod[Len(u.iod) + 1] = u.head /\ u'.iod # <<>>
       /\ \A i \in 1 .. Len(u.iod) : u'.iod[i] = u.iod[i]
  <2> DEFINE s == Append(u.iod, u.head)
  <2>1. /\ Len(s) = Len(u.iod) + 1 /\ Len(u.iod) \in Nat
        /\ s[Len(u.iod) + 1] = u.head /\ s # <<>>
        /\ \A i \in 1 .. Len(u.iod) : s[i] = u.iod[i]
      BY <1>1, AppendIs, Zenon
  <2> HIDE DEF s
  <2>2. u'.iod = s BY <1>4 DEF s
  <2> QED BY <2>1, <2>2, Zenon
<1>11. Polled' BY <1>4, <1>5, <1>10 DEF IInv, Polled
<1>12. Joined' BY <1>1, <1>6 DEF IInv, Joined
<1> QED BY <1>7, <1>8, <1>9, <1>11, <1>12 DEF IInv

LEMMA UPollStep == ASSUME IInv, UPoll PROVE IInv'
<1> USE Basics
<1> DEFINE waited == {c \in cmds : c.at = Head(u.iod)}
<1>1. /\ u.iod \in Seq(Slots) /\ u.iod # <<>> /\ u.pc = "poll" /\ u.head \in Slots
      /\ u.head % 2 = 0
    BY DEF IInv, Types, URec, Polled, Aligned, UPoll
<1>2. /\ cmds' = cmds \ waited /\ late' = late \cup waited
      /\ UNCHANGED <<opt, cancel, content, nic, n, main>>
    BY DEF UPoll
<1>3. \A c \in cmds' : c \in cmds /\ c.at # Head(u.iod) BY <1>2
<1>4. Fits' BY <1>2 DEF nic, IInv, Fits
<1>5. CASE Len(u.iod) = 1
  <2>1. UPublish BY <1>5 DEF UPoll
  <2>2. /\ u' \in URec /\ u'.pc = "top" /\ u'.iod = <<>> /\ u'.head = u.head
        /\ ring' \in [head : Slots, tail : Slots] /\ ring'.head = u.head
      BY <1>1, <2>1, EmptySeq, Zenon DEF UPublish, IInv, Types, URec
  <2>3. cmds' = {}
    <3> SUFFICES ASSUME NEW c \in cmds' PROVE FALSE OBVIOUS
    <3>1. PICK i \in 1 .. Len(u.iod) : u.iod[i] = c.at BY <1>3 DEF IInv, Polled
    <3>2. i = 1 BY <1>5
    <3> QED BY <1>1, <1>3, <3>1, <3>2
  <2>4. Types' BY <1>2, <2>2 DEF nic, IInv, Types
  <2>5. Aligned' BY <1>1, <1>2, <2>2 DEF opt, IInv, Aligned
  <2>6. Polled' BY <2>2, <2>3 DEF Polled
  <2>7. Joined' BY <1>1, <1>2 DEF IInv, Joined
  <2> QED BY <1>4, <2>4, <2>5, <2>6, <2>7 DEF IInv
<1>6. CASE Len(u.iod) # 1
  <2>1. u' = [u EXCEPT !.iod = Tail(@)] /\ ring' = ring BY <1>6 DEF UPoll
  <2>2. /\ Tail(u.iod) \in Seq(Slots) /\ Len(u.iod) \in Nat /\ Len(u.iod) > 1
        /\ Len(Tail(u.iod)) = Len(u.iod) - 1 /\ Tail(u.iod) # <<>>
        /\ \A i \in 1 .. Len(u.iod) - 1 : Tail(u.iod)[i] = u.iod[i + 1]
        /\ Head(u.iod) = u.iod[1]
      BY <1>1, <1>6, TailIs, Zenon
  <2>3. /\ u' \in URec /\ u'.pc = "poll" /\ u'.iod = Tail(u.iod) /\ u'.head = u.head
        /\ u'.nblocks = u.nblocks
      BY <1>1, <2>1, <2>2, Zenon DEF IInv, Types, URec
  <2>4. ASSUME NEW c \in cmds' PROVE \E j \in 1 .. Len(u'.iod) : u'.iod[j] = c.at
    <3>1. PICK i \in 1 .. Len(u.iod) : u.iod[i] = c.at BY <1>3 DEF IInv, Polled
    <3>2. i # 1 BY <1>3, <2>2, <3>1
    <3>3. i - 1 \in 1 .. Len(u.iod) - 1 /\ (i - 1) + 1 = i BY <2>2, <3>2
    <3> QED BY <2>2, <2>3, <3>1, <3>3
  <2>5. Types' BY <1>2, <2>1, <2>3 DEF nic, IInv, Types
  <2>6. Aligned' BY <1>1, <1>2, <2>1, <2>3 DEF opt, IInv, Aligned
  <2>7. Polled' BY <2>2, <2>3, <2>4 DEF Polled
  <2>8. Joined' BY <1>1, <1>2, <2>3 DEF IInv, Joined
  <2> QED BY <1>4, <2>5, <2>6, <2>7, <2>8 DEF IInv
<1> QED BY <1>5, <1>6

------------------------------------------------------------------------------
(* The netmap thread and the NIC.                                          *)

\* What does not touch the unvme thread's part of the state.
LEMMA NetmapFrame ==
    ASSUME IInv, n' \in NRec, txq' \in Seq(Slots), synced' \in Nat, synced' <= Len(txq'),
           ring' \in [head : Slots, tail : Slots], ring'.head = ring.head,
           UNCHANGED <<opt, cmds, late, u, main>>, Fits'
    PROVE  IInv'
BY DEF IInv, opt, Types, Aligned, Polled, Joined

LEMMA NetmapSteps == ASSUME IInv, netmap_body \/ Transmit PROVE IInv'
<1> USE Basics
<1>1. /\ n \in NRec /\ txq \in Seq(Slots) /\ Len(txq) \in Nat /\ synced \in Nat
      /\ synced <= Len(txq) /\ ring \in [head : Slots, tail : Slots]
      /\ n.tail \in Slots /\ n.left \in Nat /\ n.loaded \in Nat /\ Fits
      /\ Len(txq) <= TxSlots - 1
    BY DEF IInv, Types, NRec, Fits
<1>2. CASE NTop
  <2>1. n' \in NRec /\ n'.pc # "fill" BY <1>1, <1>2, Zenon DEF NTop, NRec
  <2> QED BY <1>1, <1>2, <2>1, NetmapFrame DEF NTop, nvme, nic, Fits
<1>3. CASE NScan
  <2>1. ring.head \in Slots /\ ring.tail \in Slots BY <1>1
  <2>2. ring_read_avail \in Nat BY <2>1 DEF ring_read_avail, Slots
  <2>3. Least(ring_read_avail, Batch) \in Nat BY <2>2 DEF Least
  <2>4. n' \in NRec /\ n'.pc # "fill" BY <1>1, <1>3, <2>3, Zenon DEF NScan, NRec, Again
  <2> QED BY <1>1, <1>3, <2>4, NetmapFrame DEF NScan, nvme, nic, Fits
<1>4. CASE NSync
  <2>1. UNCHANGED <<opt, ring, cancel, nvme, txq, u, main, history>> BY <1>4 DEF NSync
  <2>2. CASE n' = [n EXCEPT !.pc = "done"] /\ synced' = synced
    <3>1. n' \in NRec /\ n'.pc # "fill" BY <1>1, <2>2, Zenon DEF NRec
    <3> QED BY <1>1, <2>1, <2>2, <3>1, NetmapFrame DEF nvme, Fits
  <2>3. CASE synced' = Len(txq) /\ n' = [n EXCEPT !.pc = "top", !.loaded = 0]
    <3>1. n' \in NRec /\ n'.pc = "top" BY <1>1, <2>3, Zenon DEF NRec
    <3>2. Fits' BY <1>1, <2>1, <3>1 DEF Fits
    <3> QED BY <1>1, <2>1, <2>3, <3>1, <3>2, NetmapFrame DEF nvme
  <2>4. CASE /\ synced' = Len(txq)
             /\ n' = [n EXCEPT !.pc = "fill", !.tail = ring.tail,
                       !.left = Least(Least(Even(nm_ring_space), Batch), n.loaded)]
    <3> DEFINE left == Least(Least(Even(nm_ring_space), Batch), n.loaded)
    <3>1. nm_ring_space \in Nat /\ Len(txq) + nm_ring_space = TxSlots - 1
        BY <1>1 DEF nm_ring_space
    <3>2. Even(nm_ring_space) \in Nat /\ Even(nm_ring_space) <= nm_ring_space
        BY <3>1, EvenIs, Zenon
    <3>3. left \in Nat /\ left <= nm_ring_space BY <1>1, <3>1, <3>2 DEF Least
    <3> HIDE DEF left
    <3>4. n' = [n EXCEPT !.pc = "fill", !.tail = ring.tail, !.left = left]
        BY <2>4 DEF left
    <3>5. n' \in NRec /\ n'.left = left BY <1>1, <3>3, <3>4, Zenon DEF NRec
    <3>6. Fits' BY <1>1, <2>1, <3>1, <3>3, <3>5 DEF Fits
    <3> QED BY <1>1, <2>1, <2>4, <3>5, <3>6, NetmapFrame DEF nvme
  <2> QED BY <1>4, <2>2, <2>3, <2>4 DEF NSync
<1>5. CASE NFill
  <2>0. n.left \in Nat /\ n.left > 0 BY <1>1, <1>5, Zenon DEF NFill, NRec
  <2>1. n.left - 1 \in Nat BY <2>0
  <2>t. n.tail + 1 \in Nat BY <1>1 DEF Slots
  <2>2. Mask(n.tail + 1) \in Slots BY <2>t, MaskInSlots
  <2>3. n' \in NRec /\ n'.pc = "fill" /\ n'.left = n.left - 1
      BY <1>1, <1>5, <2>1, <2>2, Zenon DEF NFill, NRec
  <2>4. txq' \in Seq(Slots) /\ Len(txq') = Len(txq) + 1
      BY <1>1, <1>5, AppendIs DEF NFill
  <2>5. Fits'
    <3>1. n.pc = "fill" /\ n.left \in Nat BY <1>1, <1>5 DEF NFill
    <3>2. Len(txq) + n.left <= TxSlots - 1 BY <1>1, <3>1 DEF Fits
    <3>3. Len(txq) \in Nat BY <1>1
    <3>4. Len(txq') + n'.left <= TxSlots - 1 BY <1>1, <2>3, <2>4, <3>1, <3>2, <3>3
    <3> QED BY <2>3, <3>4 DEF Fits
  <2> QED BY <1>1, <1>5, <2>3, <2>4, <2>5, NetmapFrame DEF NFill
<1>6. CASE NPublish
  <2>1. n' \in NRec /\ n'.pc = "top" BY <1>1, <1>6, Zenon DEF NPublish, NRec
  <2>2. ring' \in [head : Slots, tail : Slots] /\ ring'.head = ring.head
      BY <1>1, <1>6 DEF NPublish
  <2> QED BY <1>1, <1>6, <2>1, <2>2, NetmapFrame DEF NPublish, nvme, nic, Fits
<1>7. CASE NDrain
  <2>1. n' \in NRec /\ n'.pc # "fill" BY <1>1, <1>7 DEF NDrain, NRec
  <2> QED BY <1>1, <1>7, <2>1, NetmapFrame DEF NDrain, nvme, Fits
<1>8. CASE Transmit
  <2>1. txq # <<>> BY <1>1, <1>8, EmptySeq DEF Transmit
  <2>2. txq' \in Seq(Slots) /\ Len(txq') = Len(txq) - 1
      BY <1>1, <1>8, <2>1, TailIs DEF Transmit
  <2>3. n' = n /\ synced' = synced - 1 /\ synced > 0 BY <1>8 DEF Transmit
  <2>4. Fits' BY <1>1, <2>2, <2>3 DEF Fits
  <2> QED BY <1>1, <1>8, <2>2, <2>3, <2>4, NetmapFrame DEF Transmit, nvme
<1> QED BY <1>2, <1>3, <1>4, <1>5, <1>6, <1>7, <1>8 DEF netmap_body

LEMMA MainSteps ==
    ASSUME IInv,
           main_body \/ count_thread \/ Ended \/ UNCHANGED vars
             \/ \E c \in cmds \cup late : Complete(c)
    PROVE  IInv'
<1>1. CASE SpawnNetmap
  <2>1. n' \in NRec /\ n'.pc = "top" BY <1>1 DEF SpawnNetmap, IInv, Types, NRec
  <2>2. Len(txq) \in Nat /\ n.left \in Nat BY DEF IInv, Types, NRec
  <2>3. Fits' BY <1>1, <2>1, <2>2, Basics DEF SpawnNetmap, nic, IInv, Fits
  <2> QED BY <1>1, <2>1, <2>3
          DEF SpawnNetmap, opt, nvme, nic, IInv, Types, Aligned, Polled, Joined
<1>2. CASE SpawnUnvme
    BY <1>2 DEF SpawnUnvme, opt, nvme, nic, IInv, Types, URec, Aligned, Fits, Polled, Joined
<1>3. CASE JoinAndRelease \/ Return
    BY <1>3 DEF JoinAndRelease, Return, opt, nvme, nic, IInv, Types, Aligned, Fits, Polled, Joined
<1>4. CASE count_thread \/ Ended \/ UNCHANGED vars
    BY <1>4 DEF count_thread, Ended, vars, opt, nvme, nic, IInv, Types, Aligned, Fits, Polled, Joined
<1>5. CASE \E c \in cmds \cup late : Complete(c)
    BY <1>5 DEF Complete, opt, nic, IInv, Types, Aligned, Fits, Polled, Joined
<1> QED BY <1>1, <1>2, <1>3, <1>4, <1>5 DEF main_body

------------------------------------------------------------------------------
\* IInv is an invariant.
LEMMA Invariant == Spec => []IInv
<1>1. IInv /\ [Next]_vars => IInv'
    BY UScanStep, UIssueStep, UPollStep, NetmapSteps, MainSteps DEF Next, unvme_body, Device
<1> QED BY <1>1, InitInv, PTL DEF Spec

(***************************************************************************)
(* For any size of the rings: in the random walk the NVMe device writes    *)
(* only to the buffer of the thread, because the head is always even and   *)
(* the number of slots is.                                                 *)
(***************************************************************************)
THEOREM DmaInBufferTheorem == Spec => []DmaInBuffer
<1>1. ASSUME NEW a \in Slots, a % 2 = 0 PROVE a .. a + 2 * 1 - 1 \subseteq Slots
  <2>1. a + 1 < SLOT_NUM BY <1>1, Basics DEF Slots
  <2> QED BY <2>1, Basics DEF Slots
<1>2. IInv => DmaInBuffer
  <2> SUFFICES ASSUME IInv, ~seq, NEW c \in cmds \cup late PROVE Covers(c) \subseteq Slots
      BY DEF DmaInBuffer
  <2>1. c.at \in Slots /\ c.at % 2 = 0 /\ c.nblocks = 1 BY DEF IInv, Types, Aligned, Cmd
  <2> QED BY <1>1, <2>1 DEF Covers
<1> QED BY <1>2, Invariant, PTL

(***************************************************************************)
(* For any size of the rings and any batch: the netmap thread never puts   *)
(* more packets on the tx ring than it holds.                              *)
(***************************************************************************)
THEOREM TxRingHoldsTheorem == Spec => []TxRingHolds
<1>1. IInv => TxRingHolds
  <2> SUFFICES ASSUME IInv PROVE TxRingHolds OBVIOUS
  <2>1. Len(txq) \in Nat /\ n.left \in Nat BY DEF IInv, Types, NRec
  <2> QED BY <2>1, Basics DEF IInv, Fits, TxRingHolds
<1> QED BY <1>1, Invariant, PTL

(***************************************************************************)
(* For any size of the rings and any batch: once the memory is released no *)
(* read command is left, but those that were given up.                     *)
(***************************************************************************)
THEOREM NoDmaAfterReleaseTheorem == Spec => []NoDmaAfterRelease
<1>1. IInv => NoDmaAfterRelease
  <2> SUFFICES ASSUME IInv, u.pc = "done", NEW c \in cmds PROVE FALSE
      BY DEF NoDmaAfterRelease, IInv, Joined
  <2>1. u.iod = <<>> /\ \E i \in 1 .. Len(u.iod) : TRUE BY DEF IInv, Polled
  <2> QED BY <2>1, EmptySeq
<1> QED BY <1>1, Invariant, PTL
------------------------------------------------------------------------------
(* The first lap: until the head has gone round the ring, or a read was    *)
(* given up.                                                               *)

FirstLap == ~wrapped /\ ~expired

\* The first slot that the netmap thread has still to send.
Mark == IF n.pc = "fill" THEN n.tail ELSE ring.tail

\* The slots from Mark up to the head are loaded, and the thread sends no more
\* than those; what it has sent lies before them.
Sender ==
    /\ ring.tail <= Mark /\ Mark <= ring.head
    /\ n.pc = "sync" => n.loaded <= ring.head - ring.tail
    /\ n.pc = "fill" => n.left <= ring.head - n.tail
    /\ \A s \in Slots : Mark <= s /\ s < ring.head => content[s] = "full"
    /\ \A i \in 1 .. Len(txq) : txq[i] < Mark

\* The slots of the commands that the unvme thread has still to issue.
Rest ==
    IF u.pc # "issue" THEN 0
    ELSE IF seq THEN 2 * u.nblocks ELSE 2 * (u.batch - Len(u.iod))

\* e is the head of the unvme thread as if the ring had no end: the commands
\* stay behind the tail, and those up to e are loaded or on their way.
Behind(e) ==
    /\ ring.head <= e /\ e + Rest <= SLOT_NUM + ring.tail /\ u.head = Mask(e)
    /\ \A s \in Slots : ring.head <= s /\ s < e =>
           content[s] = "full" \/ \E c \in cmds : s \in Covers(c)

Reader == u.pc \in {"issue", "poll"} => \E e \in Nat : Behind(e)

LapTypes ==
    /\ content \in [Slots -> {"free", "dma", "full"}]
    /\ main.pc = "start" => n.pc = "off"
    /\ u.pc = "issue" => /\ Len(u.iod) < u.batch
                         /\ IF seq THEN u.batch = 1 ELSE u.nblocks = 1

LapInv == LapTypes /\ (FirstLap => Sender /\ Reader)

LEMMA RingState ==
    ASSUME IInv
    PROVE  /\ ring.head \in Slots /\ ring.tail \in Slots /\ u.head \in Slots /\ n.tail \in Slots
           /\ u.batch \in Nat /\ u.nblocks \in Nat /\ n.loaded \in Nat /\ n.left \in Nat
           /\ txq \in Seq(Slots) /\ Len(txq) \in Nat /\ u.iod \in Seq(Slots) /\ Len(u.iod) \in Nat
           /\ Mark \in Slots
BY DEF IInv, Types, URec, NRec, Mark

LEMMA SlotRange ==
    /\ SLOT_NUM \in Nat /\ \A s \in Slots : s \in Int /\ 0 <= s /\ s < SLOT_NUM
BY Basics DEF Slots

\* Mask() of a number that is less than two rounds off.
LEMMA MaskIs ==
    ASSUME NEW x \in Nat
    PROVE  /\ x < SLOT_NUM => Mask(x) = x
           /\ SLOT_NUM <= x /\ x < 2 * SLOT_NUM => Mask(x) = x - SLOT_NUM
<1>1. x < SLOT_NUM => Mask(x) = x BY Basics DEF Mask
<1>2. SLOT_NUM <= x /\ x < 2 * SLOT_NUM => Mask(x) = x - SLOT_NUM BY Basics DEF Mask
<1> QED BY <1>1, <1>2

\* What does not touch the netmap thread, and leaves what is loaded.
LEMMA SenderFrame ==
    ASSUME Sender, ring' = ring, n' = n, txq' = txq,
           \A s \in Slots : Mark <= s /\ s < ring.head /\ content[s] = "full" =>
               content'[s] = "full"
    PROVE  Sender'
<1>1. Mark' = Mark BY DEF Mark
<1> QED BY <1>1 DEF Sender

\* What does not touch the unvme thread, and leaves what is loaded.
LEMMA ReaderFrame ==
    ASSUME IInv, IInv', Reader, u' = u, seq' = seq, cmds' = cmds, ring'.head = ring.head,
           ring.tail <= ring'.tail,
           \A s \in Slots : ring.head <= s /\ content[s] = "full" => content'[s] = "full"
    PROVE  Reader'
<1> SUFFICES ASSUME u.pc \in {"issue", "poll"} PROVE (\E e \in Nat : Behind(e))'
    BY DEF Reader
<1>1. PICK e \in Nat : Behind(e) BY DEF Reader
<1>2. Rest' = Rest /\ Rest \in Int
  <2>1. u.nblocks \in Nat /\ u.batch \in Nat /\ Len(u.iod) \in Nat BY RingState
  <2> QED BY <2>1 DEF Rest
<1>3. ring.tail \in Slots /\ ring'.tail \in Slots BY DEF IInv, Types
<1>4. e + Rest <= SLOT_NUM + ring'.tail BY <1>1, <1>2, <1>3, SlotRange DEF Behind
<1>5. Behind(e)' BY <1>1, <1>2, <1>4 DEF Behind
<1> QED BY <1>5

LEMMA HalfOf ==
    ASSUME NEW a \in Nat, a >= 2
    PROVE  Even(a) \div 2 \in Nat /\ Even(a) \div 2 >= 1 /\ 2 * (Even(a) \div 2) <= a
<1>1. PICK h \in Nat, r \in {0, 1} : a = 2 * h + r /\ a % 2 = r
  <2>1. a = 2 * (a \div 2) + (a % 2) /\ a \div 2 \in Nat /\ a % 2 \in {0, 1} OBVIOUS
  <2> QED BY <2>1
<1>2. Even(a) = 2 * h BY <1>1 DEF Even
<1>3. (2 * h) \div 2 = h OBVIOUS
<1> QED BY <1>1, <1>2, <1>3

LEMMA LapUScan == ASSUME IInv, IInv', LapInv, UTop \/ UScan PROVE LapInv'
<1>1. /\ ring' = ring /\ content' = content /\ cmds' = cmds /\ n' = n /\ txq' = txq
      /\ main' = main /\ seq' = seq /\ wrapped' = wrapped /\ expired' = expired
    BY DEF UTop, UScan, opt, nvme, nic, history
<1>2. FirstLap => Sender' BY <1>1, SenderFrame DEF LapInv
<1>3. CASE u'.pc \notin {"issue", "poll"}
    BY <1>1, <1>2, <1>3 DEF LapInv, LapTypes, Reader, FirstLap
<1>4. CASE UScan /\ ~(ring_write_avail < 2)
  <2>b. PICK b : b = Least(Even(ring_write_avail) \div 2, NvBatch) OBVIOUS
  <2>1. ring.head \in Slots /\ ring.tail \in Slots BY RingState
  <2>2. ring.head \in Int /\ ring.tail \in Int /\ SLOT_NUM \in Nat /\ ring.head >= 0
        /\ ring.head < SLOT_NUM
      BY <2>1, SlotRange
  <2>3. ring_write_avail \in Int BY <2>2 DEF ring_write_avail
  <2>4. ring_write_avail \in Nat /\ ring_write_avail >= 2 BY <1>4, <2>3
  <2>5. b \in Nat /\ b >= 1 /\ 2 * b <= ring_write_avail
    <3>1. PICK h \in Nat : h = Even(ring_write_avail) \div 2 /\ h >= 1 /\ 2 * h <= ring_write_avail
        BY <2>4, HalfOf
    <3>2. NvBatch \in Nat /\ NvBatch >= 1 BY NvgenAssumption
    <3>3. b = IF h < NvBatch THEN h ELSE NvBatch BY <2>b, <3>1 DEF Least
    <3>4. b \in Nat /\ b >= 1 /\ b <= h BY <3>1, <3>2, <3>3
    <3> QED BY <2>4, <3>1, <3>4
  <2>6. /\ u'.pc = "issue" /\ u'.head = ring.head /\ u'.iod = <<>>
        /\ u'.batch = (IF seq THEN 1 ELSE b) /\ u'.nblocks = (IF seq THEN b ELSE 1)
    <3>1. u' = [u EXCEPT !.pc = "issue", !.head = ring.head, !.iod = <<>>,
                         !.batch = IF seq THEN 1 ELSE b, !.nblocks = IF seq THEN b ELSE 1]
        BY <1>4, <2>b DEF UScan
    <3> QED BY <3>1 DEF IInv, Types, URec
  <2>7. LapTypes' BY <1>1, <2>5, <2>6, EmptySeq DEF LapInv, LapTypes
  <2>8. ASSUME FirstLap PROVE Behind(ring.head)'
    <3>1. ring.tail <= ring.head
      <4>1. ring.tail <= Mark /\ Mark <= ring.head /\ Mark \in Slots
          BY <2>8, RingState DEF LapInv, Sender
      <4> QED BY <2>2, <4>1, SlotRange
    <3>2. Rest' = 2 * b BY <1>1, <2>5, <2>6, EmptySeq DEF Rest
    <3>3. ring_write_avail <= SLOT_NUM + ring.tail - ring.head
        BY <2>2, <3>1 DEF ring_write_avail
    <3>4. ring.head + 2 * b <= SLOT_NUM + ring.tail BY <2>2, <2>4, <2>5, <3>3
    <3>5. Mask(ring.head) = ring.head BY <2>2, MaskIs
    <3>6. \A s \in Slots : ~(ring.head <= s /\ s < ring.head) BY <2>2, SlotRange
    <3>7. ring.head <= ring.head BY <2>2
    <3> QED BY <1>1, <2>6, <3>2, <3>4, <3>5, <3>6, <3>7 DEF Behind
  <2>9. FirstLap => Reader'
    <3>1. ring'.head \in Nat BY <1>1, <2>2
    <3> QED BY <1>1, <2>8, <3>1 DEF Reader
  <2> QED BY <1>1, <1>2, <2>7, <2>9 DEF LapInv, FirstLap
<1>5. u'.pc \notin {"issue", "poll"} \/ (UScan /\ ~(ring_write_avail < 2))
  <2>1. CASE UTop
    <3>1. u' = [u EXCEPT !.pc = IF cancel THEN "done" ELSE "scan"] BY <2>1 DEF UTop
    <3> QED BY <3>1 DEF IInv, Types, URec
  <2>2. CASE UScan /\ ring_write_avail < 2
    <3>1. u' = [u EXCEPT !.pc = Again] BY <2>2 DEF UScan
    <3> QED BY <3>1 DEF IInv, Types, URec, Again
  <2> QED BY <2>1, <2>2
<1> QED BY <1>3, <1>4, <1>5

\* One read command: where it lies.
LEMMA IssueWhere ==
    ASSUME NEW e \in Nat, NEW t \in Slots, NEW m \in Nat, e + 2 * m <= SLOT_NUM + t
    PROVE  /\ Mask(e) \in Slots
           /\ Mask(Mask(e) + 2 * m) = Mask(e + 2 * m)
           /\ e < SLOT_NUM => Mask(e) = e
           /\ e >= SLOT_NUM => Mask(e) + 2 * m <= t
<1>1. t \in Int /\ 0 <= t /\ t < SLOT_NUM /\ SLOT_NUM \in Nat BY SlotRange
<1>2. Mask(e) \in Slots BY MaskInSlots
<1>3. CASE e < SLOT_NUM
  <2>1. Mask(e) = e BY <1>3, MaskIs
  <2> QED BY <1>1, <1>2, <1>3, <2>1
<1>4. CASE e >= SLOT_NUM
  <2>1. e < 2 * SLOT_NUM BY <1>1
  <2>2. Mask(e) = e - SLOT_NUM BY <1>1, <1>4, <2>1, MaskIs
  <2>3. (e - SLOT_NUM) + 2 * m \in Nat /\ (e - SLOT_NUM) + 2 * m < SLOT_NUM BY <1>1, <1>4
  <2>4. Mask((e - SLOT_NUM) + 2 * m) = (e - SLOT_NUM) + 2 * m BY <2>3, MaskIs
  <2>5. e + 2 * m \in Nat /\ SLOT_NUM <= e + 2 * m /\ e + 2 * m < 2 * SLOT_NUM BY <1>1, <1>4
  <2>6. Mask(e + 2 * m) = (e + 2 * m) - SLOT_NUM
    <3>1. PICK y \in Nat : y = e + 2 * m BY <2>5
    <3>2. SLOT_NUM <= y /\ y < 2 * SLOT_NUM BY <2>5, <3>1
    <3>3. Mask(y) = y - SLOT_NUM BY <3>2, MaskIs
    <3> QED BY <3>1, <3>3, Zenon
  <2> QED BY <1>1, <1>2, <1>4, <2>2, <2>4, <2>6
<1> QED BY <1>1, <1>3, <1>4

LEMMA LapUIssue == ASSUME IInv, IInv', LapInv, UIssue PROVE LapInv'
<1>m. PICK m, l : m = u.nblocks /\ l = Len(u.iod) BY Zenon
<1>1. /\ ring' = ring /\ n' = n /\ txq' = txq /\ main' = main /\ seq' = seq
      /\ wrapped' = wrapped /\ expired' = expired
    BY DEF UIssue, opt, nic, history
<1>2. PICK c : /\ c = [at |-> u.head, nblocks |-> u.nblocks]
               /\ content' = [s \in Slots |-> IF s \in Covers(c) THEN "dma" ELSE content[s]]
               /\ cmds' = cmds \cup {c}
    BY DEF UIssue
<1>c. Covers(c) = u.head .. u.head + 2 * m - 1 BY <1>m, <1>2 DEF Covers
<1>3. /\ u'.head = Mask(u.head + 2 * m) /\ u'.batch = u.batch /\ u'.nblocks = m
      /\ u'.iod = Append(u.iod, u.head)
      /\ u'.pc = (IF l + 1 = u.batch THEN "poll" ELSE "issue") /\ u.pc = "issue"
  <2>1. u' = [u EXCEPT !.iod = Append(@, u.head), !.head = Mask(u.head + 2 * u.nblocks),
                       !.pc = IF Len(u.iod) + 1 = u.batch THEN "poll" ELSE @]
        /\ u.pc = "issue"
      BY DEF UIssue
  <2>2. u \in URec BY DEF IInv, Types
  <2> QED BY <1>m, <2>1, <2>2 DEF URec
<1>4. /\ m \in Nat /\ l \in Nat /\ u.batch \in Nat /\ l < u.batch
      /\ IF seq THEN u.batch = 1 ELSE m = 1
    BY <1>m, <1>3, RingState DEF LapInv, LapTypes
<1>5. Len(u'.iod) = l + 1
  <2>1. u.iod \in Seq(Slots) /\ u.head \in Slots BY RingState
  <2> QED BY <1>m, <1>3, <2>1, AppendIs
<1>6. LapTypes'
  <2>1. content' \in [Slots -> {"free", "dma", "full"}] BY <1>2 DEF LapInv, LapTypes
  <2> QED BY <1>1, <1>3, <1>4, <1>5, <2>1 DEF LapInv, LapTypes
<1>7. ASSUME FirstLap PROVE Sender' /\ Reader'
  <2>1. PICK e \in Nat : Behind(e) BY <1>3, <1>7 DEF LapInv, Reader
  <2>2. /\ ring.head \in Slots /\ ring.tail \in Slots /\ Mark \in Slots
        /\ ring.tail <= Mark /\ Mark <= ring.head
      BY <1>7, RingState DEF LapInv, Sender
  <2>3. Rest \in Int /\ Rest' \in Int /\ Rest' >= 0 /\ Rest' + 2 * m <= Rest
    <3>1. Rest = IF seq THEN 2 * m ELSE 2 * (u.batch - l) BY <1>m, <1>3 DEF Rest
    <3>2. Rest' = IF l + 1 = u.batch THEN 0 ELSE IF seq THEN 2 * m ELSE 2 * (u.batch - (l + 1))
        BY <1>1, <1>3, <1>5 DEF Rest
    <3> QED BY <1>4, <3>1, <3>2
  <2>4. e + 2 * m + Rest' <= SLOT_NUM + ring.tail /\ ring.head <= e + 2 * m /\ ring.head <= e
        /\ e + 2 * m <= SLOT_NUM + ring.tail
    <3>1. ring.head <= e /\ e + Rest <= SLOT_NUM + ring.tail BY <2>1 DEF Behind
    <3>2. ring.head \in Int /\ ring.tail \in Int /\ SLOT_NUM \in Int BY <2>2, SlotRange
    <3>3. m \in Nat BY <1>4
    <3>4. PICK r \in Int, q \in Int : r = Rest /\ q = Rest' BY <2>3
    <3>5. q >= 0 /\ q + 2 * m <= r /\ e + r <= SLOT_NUM + ring.tail BY <2>3, <3>1, <3>4
    <3>6. e + 2 * m + q <= SLOT_NUM + ring.tail /\ ring.head <= e + 2 * m
          /\ e + 2 * m <= SLOT_NUM + ring.tail
        BY <3>1, <3>2, <3>3, <3>5
    <3> QED BY <3>1, <3>4, <3>6
  <2>5. /\ u.head = Mask(e) /\ Mask(u.head + 2 * m) = Mask(e + 2 * m)
        /\ e < SLOT_NUM => u.head = e
        /\ e >= SLOT_NUM => u.head + 2 * m <= ring.tail
    <3>1. u.head = Mask(e) BY <2>1 DEF Behind
    <3> QED BY <1>4, <2>2, <2>4, <3>1, IssueWhere
  <2>6. u.head \in Slots BY RingState
  <2>7. \A s \in Slots : Mark <= s /\ s < ring.head => s \notin Covers(c)
    <3> SUFFICES ASSUME NEW s \in Slots, Mark <= s, s < ring.head, s \in Covers(c) PROVE FALSE
        OBVIOUS
    <3>1. u.head <= s /\ s < u.head + 2 * m BY <1>c, <1>4, <2>6, SlotRange
    <3> QED BY <1>4, <2>2, <2>4, <2>5, <2>6, <3>1, SlotRange
  <2>8. Sender'
    <3>1. \A s \in Slots : Mark <= s /\ s < ring.head /\ content[s] = "full" => content'[s] = "full"
        BY <1>2, <2>7
    <3> QED BY <1>1, <1>7, <3>1, SenderFrame DEF LapInv
  <2>9. ASSUME NEW s \in Slots, ring.head <= s, s < e + 2 * m
        PROVE  content'[s] = "full" \/ \E d \in cmds' : s \in Covers(d)
    <3>1. CASE s < e
      <4>1. content[s] = "full" \/ \E d \in cmds : s \in Covers(d)
          BY <2>1, <2>9, <3>1 DEF Behind
      <4>2. content[s] = "full" /\ s \notin Covers(c) => content'[s] = "full" BY <1>2
      <4> QED BY <1>2, <4>1, <4>2
    <3>2. CASE s >= e
      <4>1. u.head = e BY <2>5, <3>2, SlotRange
      <4>2. s \in Covers(c) BY <1>c, <1>4, <2>9, <3>2, <4>1, SlotRange
      <4> QED BY <1>2, <4>2
    <3> QED BY <3>1, <3>2, SlotRange
  <2>10. PICK f \in Nat : f = e + 2 * m BY <1>4
  <2>11. Behind(f)'
    <3>1. u'.head = Mask(f) BY <1>3, <2>5, <2>10
    <3>2. ring'.head <= f /\ f + Rest' <= SLOT_NUM + ring'.tail BY <1>1, <2>4, <2>10
    <3>3. \A s \in Slots : ring'.head <= s /\ s < f =>
              content'[s] = "full" \/ \E d \in cmds' : s \in Covers(d)
        BY <1>1, <2>9, <2>10
    <3> QED BY <3>1, <3>2, <3>3, Zenon DEF Behind
  <2> QED BY <2>8, <2>11 DEF Reader
<1> QED BY <1>1, <1>6, <1>7 DEF LapInv, FirstLap

LEMMA LapUPoll == ASSUME IInv, IInv', LapInv, UPoll PROVE LapInv'
<1>1. /\ content' = content /\ n' = n /\ txq' = txq /\ main' = main /\ seq' = seq
      /\ expired' = (expired \/ {c \in cmds : c.at = Head(u.iod)} # {})
      /\ cmds' = cmds \ {c \in cmds : c.at = Head(u.iod)} /\ u.pc = "poll"
    BY DEF UPoll, opt, nic
<1>2. CASE Len(u.iod) # 1
  <2>1. /\ ring' = ring /\ wrapped' = wrapped
        /\ u'.pc = "poll" /\ u'.head = u.head /\ u'.nblocks = u.nblocks
    <3>1. u' = [u EXCEPT !.iod = Tail(@)] /\ ring' = ring /\ wrapped' = wrapped
        BY <1>2 DEF UPoll
    <3>2. u \in URec BY DEF IInv, Types
    <3> QED BY <1>1, <3>1, <3>2 DEF URec
  <2>2. LapTypes' BY <1>1, <2>1 DEF LapInv, LapTypes
  <2>3. ASSUME FirstLap' PROVE Sender' /\ Reader'
    <3>1. FirstLap /\ cmds' = cmds BY <1>1, <2>1, <2>3, Zenon DEF FirstLap
    <3>2. Sender' BY <1>1, <2>1, <3>1, SenderFrame DEF LapInv
    <3>3. PICK e \in Nat : Behind(e) BY <1>1, <3>1 DEF LapInv, Reader
    <3>4. Rest = 0 /\ Rest' = 0 BY <1>1, <2>1 DEF Rest
    <3>5. Behind(e)' BY <1>1, <2>1, <3>1, <3>3, <3>4 DEF Behind
    <3> QED BY <3>2, <3>5 DEF Reader
  <2> QED BY <2>2, <2>3 DEF LapInv
<1>3. CASE Len(u.iod) = 1
  <2>1. /\ ring'.head = u.head /\ ring'.tail = ring.tail /\ u'.pc = "top" /\ u'.iod = <<>>
        /\ wrapped' = (wrapped \/ u.head <= ring.head)
    <3>1. UPublish BY <1>3 DEF UPoll
    <3>2. u \in URec /\ ring \in [head : Slots, tail : Slots] BY DEF IInv, Types
    <3> QED BY <3>1, <3>2 DEF UPublish, URec
  <2>2. LapTypes' BY <1>1, <2>1 DEF LapInv, LapTypes
  <2>3. ASSUME FirstLap' PROVE Sender'
    <3>1. FirstLap /\ cmds' = cmds /\ ~(u.head <= ring.head)
        BY <1>1, <2>1, <2>3, Zenon DEF FirstLap
    <3>2. cmds = {}
      <4>1. Polled' BY DEF IInv
      <4>2. \A c \in cmds' : \E i \in 1 .. Len(u'.iod) : TRUE BY <4>1 DEF Polled
      <4>3. Len(u'.iod) = 0 BY <2>1, EmptySeq
      <4> QED BY <3>1, <4>2, <4>3
    <3>3. PICK e \in Nat : Behind(e) BY <1>1, <3>1 DEF LapInv, Reader
    <3>4. Rest = 0 BY <1>1 DEF Rest
    <3>5. /\ ring.head <= e /\ e + 0 <= SLOT_NUM + ring.tail /\ u.head = Mask(e)
          /\ \A s \in Slots : ring.head <= s /\ s < e => content[s] = "full"
        BY <3>2, <3>3, <3>4 DEF Behind
    <3>6. /\ ring.head \in Slots /\ ring.tail \in Slots /\ u.head \in Slots /\ Mark \in Slots
          /\ ring.tail <= Mark /\ Mark <= ring.head /\ n.loaded \in Nat /\ n.left \in Nat
          /\ n.tail \in Slots
        BY <3>1, RingState DEF LapInv, Sender
    <3>7. u.head = e
      <4>1. CASE e < SLOT_NUM BY <3>5, <4>1, MaskIs
      <4>2. CASE e >= SLOT_NUM
        <5>1. SLOT_NUM <= e /\ e < 2 * SLOT_NUM BY <3>5, <3>6, <4>2, SlotRange
        <5>2. u.head = e - SLOT_NUM BY <3>5, <5>1, MaskIs
        <5> QED BY <3>1, <3>5, <3>6, <5>2, SlotRange
      <4> QED BY <4>1, <4>2, SlotRange
    <3>8. Mark' = Mark BY <1>1, <2>1 DEF Mark
    <3>9. /\ ring.tail <= Mark /\ Mark <= u.head
          /\ n.pc = "sync" => n.loaded <= u.head - ring.tail
          /\ n.pc = "fill" => n.left <= u.head - n.tail
      <4>1. ring.head <= u.head BY <3>1, <3>6, SlotRange
      <4>2. n.pc = "sync" => n.loaded <= ring.head - ring.tail BY <3>1 DEF LapInv, Sender
      <4>3. n.pc = "fill" => n.left <= ring.head - n.tail BY <3>1 DEF LapInv, Sender
      <4>4. n.pc = "sync" => n.loaded <= u.head - ring.tail BY <3>6, <4>1, <4>2, SlotRange
      <4>5. n.pc = "fill" => n.left <= u.head - n.tail BY <3>6, <4>1, <4>3, SlotRange
      <4> QED BY <3>6, <4>1, <4>4, <4>5, SlotRange
    <3>10. \A s \in Slots : Mark <= s /\ s < u.head => content[s] = "full"
      <4>1. \A s \in Slots : Mark <= s /\ s < ring.head => content[s] = "full"
          BY <3>1 DEF LapInv, Sender
      <4> QED BY <3>5, <3>6, <3>7, <4>1, SlotRange
    <3>11. \A i \in 1 .. Len(txq) : txq[i] < Mark BY <3>1 DEF LapInv, Sender
    <3> QED BY <1>1, <2>1, <3>8, <3>9, <3>10, <3>11 DEF Sender
  <2>4. Reader' BY <2>1 DEF Reader
  <2> QED BY <2>2, <2>3, <2>4 DEF LapInv
<1> QED BY <1>2, <1>3

LEMMA LapComplete ==
    ASSUME IInv, IInv', LapInv, NEW c \in cmds \cup late, Complete(c)
    PROVE  LapInv'
<1>1. /\ ring' = ring /\ n' = n /\ txq' = txq /\ main' = main /\ seq' = seq /\ u' = u
      /\ wrapped' = wrapped /\ expired' = expired /\ (cmds' = cmds \/ cmds' = cmds \ {c})
      /\ content' = [s \in Slots |-> IF s \in Covers(c) THEN "full" ELSE content[s]]
    BY DEF Complete, opt, nic, history
<1>2. LapTypes'
  <2>1. content' \in [Slots -> {"free", "dma", "full"}] BY <1>1 DEF LapInv, LapTypes
  <2> QED BY <1>1, <2>1 DEF LapInv, LapTypes
<1>3. ASSUME FirstLap PROVE Sender' /\ Reader'
  <2>1. \A s \in Slots : content[s] = "full" => content'[s] = "full" BY <1>1
  <2>2. Sender' BY <1>1, <1>3, <2>1, SenderFrame DEF LapInv
  <2>3. ASSUME u.pc \in {"issue", "poll"} PROVE (\E e \in Nat : Behind(e))'
    <3>1. PICK e \in Nat : Behind(e) BY <1>3, <2>3 DEF LapInv, Reader
    <3>2. Rest' = Rest BY <1>1 DEF Rest
    <3>3. ASSUME NEW s \in Slots, ring.head <= s, s < e
          PROVE  content'[s] = "full" \/ \E d \in cmds' : s \in Covers(d)
      <4>1. content[s] = "full" \/ \E d \in cmds : s \in Covers(d) BY <3>1, <3>3 DEF Behind
      <4>2. s \in Covers(c) => content'[s] = "full" BY <1>1
      <4> QED BY <1>1, <2>1, <4>1, <4>2
    <3>4. Behind(e)' BY <1>1, <3>1, <3>2, <3>3 DEF Behind
    <3> QED BY <3>4
  <2> QED BY <1>1, <2>2, <2>3 DEF Reader
<1> QED BY <1>1, <1>2, <1>3 DEF LapInv, FirstLap

\* What leaves the unvme thread and the queue alone: the conjuncts of Sender remain.
LEMMA LapNetmap ==
    ASSUME IInv, IInv', LapInv, netmap_body \/ Transmit, FirstLap => Sender',
           main.pc # "start" \/ n'.pc = n.pc,
           FirstLap => ring.tail <= ring'.tail,
           FirstLap => \A s \in Slots : ring.head <= s /\ content[s] = "full" =>
                           content'[s] = "full",
           content' \in [Slots -> {"free", "dma", "full"}]
    PROVE  LapInv'
<1>1. /\ u' = u /\ seq' = seq /\ cmds' = cmds /\ main' = main /\ wrapped' = wrapped
      /\ expired' = expired
    BY DEF netmap_body, NTop, NScan, NSync, NFill, NPublish, NDrain, Transmit, opt, nvme, history
<1>2. ring'.head = ring.head
  <2>1. ring' = ring \/ ring' = [ring EXCEPT !.tail = n.tail]
      BY DEF netmap_body, NTop, NScan, NSync, NFill, NPublish, NDrain, Transmit
  <2>2. ring \in [head : Slots, tail : Slots] BY DEF IInv, Types
  <2> QED BY <2>1, <2>2
<1>3. FirstLap => Reader' BY <1>1, <1>2, ReaderFrame DEF LapInv
<1>4. LapTypes' BY <1>1 DEF LapInv, LapTypes
<1> QED BY <1>1, <1>3, <1>4 DEF LapInv, FirstLap

\* The thread is outside of its loop over the slots before and after the step.
LEMMA SenderIdle ==
    ASSUME IInv, Sender, ring' = ring, content' = content, txq' = txq, n.pc # "fill",
           n'.pc \notin {"fill", "sync"}
    PROVE  Sender'
<1>1. Mark = ring.tail /\ Mark' = ring.tail BY DEF Mark
<1> QED BY <1>1 DEF Sender

LEMMA LapStarted == ASSUME LapInv, n.pc # "off" PROVE main.pc # "start"
BY DEF LapInv, LapTypes

LEMMA LapNIdle == ASSUME IInv, IInv', LapInv, NTop \/ NDrain PROVE LapInv'
<1>1. ring' = ring /\ content' = content /\ txq' = txq /\ n.pc \in {"top", "drain"}
    BY DEF NTop, NDrain, nvme, nic
<1>2. n'.pc \notin {"fill", "sync"}
  <2>1. n' = [n EXCEPT !.pc = IF cancel THEN "drain" ELSE "scan"]
        \/ (n.pc = "drain" /\ (n' = n \/ n' = [n EXCEPT !.pc = "done"]))
      BY DEF NTop, NDrain
  <2>2. n \in NRec BY DEF IInv, Types
  <2> QED BY <2>1, <2>2 DEF NRec
<1>3. FirstLap => Sender' BY <1>1, <1>2, SenderIdle DEF LapInv
<1>4. ring.tail <= ring'.tail
  <2>1. ring.tail \in Int BY RingState, SlotRange
  <2> QED BY <1>1, <2>1
<1>5. content \in [Slots -> {"free", "dma", "full"}] BY DEF LapInv, LapTypes
<1>6. main.pc # "start" BY <1>1, LapStarted
<1> QED BY <1>1, <1>3, <1>4, <1>5, <1>6, LapNetmap DEF netmap_body

LEMMA LapTransmit == ASSUME IInv, IInv', LapInv, Transmit PROVE LapInv'
<1>1. ring' = ring /\ content' = content /\ txq' = Tail(txq) /\ n' = n /\ synced > 0
    BY DEF Transmit, nvme
<1>2. txq \in Seq(Slots) /\ txq # <<>>
  <2>1. txq \in Seq(Slots) /\ synced \in Nat /\ synced <= Len(txq) /\ Len(txq) \in Nat
      BY DEF IInv, Types
  <2>2. Len(txq) > 0 BY <1>1, <2>1
  <2> QED BY <2>1, <2>2, EmptySeq
<1>3. ASSUME Sender PROVE Sender'
  <2>1. Mark' = Mark BY <1>1 DEF Mark
  <2>2. Len(txq') = Len(txq) - 1 /\ Len(txq) \in Nat
        /\ \A i \in 1 .. Len(txq) - 1 : txq'[i] = txq[i + 1]
      BY <1>1, <1>2, TailIs
  <2>3. \A i \in 1 .. Len(txq') : txq'[i] < Mark
    <3> SUFFICES ASSUME NEW i \in 1 .. Len(txq') PROVE txq'[i] < Mark OBVIOUS
    <3>1. i + 1 \in 1 .. Len(txq) /\ txq'[i] = txq[i + 1] BY <2>2
    <3>2. \A j \in 1 .. Len(txq) : txq[j] < Mark BY <1>3 DEF Sender
    <3> QED BY <3>1, <3>2
  <2> QED BY <1>1, <1>3, <2>1, <2>3 DEF Sender
<1>4. ring.tail <= ring'.tail
  <2>1. ring.tail \in Int BY RingState, SlotRange
  <2> QED BY <1>1, <2>1
<1>5. content \in [Slots -> {"free", "dma", "full"}] BY DEF LapInv, LapTypes
<1> QED BY <1>1, <1>3, <1>4, <1>5, LapNetmap DEF LapInv

LEMMA LapNScan == ASSUME IInv, IInv', LapInv, NScan \/ NSync PROVE LapInv'
<1>1. ring' = ring /\ content' = content /\ txq' = txq /\ n.pc \in {"scan", "sync"}
    BY DEF NScan, NSync, nvme, nic
<1>2. n \in NRec BY DEF IInv, Types
<1>3. /\ ring.head \in Int /\ ring.tail \in Int /\ n.loaded \in Nat /\ ring.tail \in Slots
      /\ 0 <= ring.tail /\ ring.head < SLOT_NUM /\ ring.tail < SLOT_NUM
    BY RingState, SlotRange
<1>4. Mark = ring.tail BY <1>1 DEF Mark
<1>5. ASSUME FirstLap PROVE Sender'
  <2>1. ring.tail <= ring.head BY <1>4, <1>5 DEF LapInv, Sender
  <2>2. CASE n'.pc \notin {"fill", "sync"} BY <1>1, <1>5, <2>2, SenderIdle DEF LapInv
  <2>3. CASE NScan /\ ~(ring_read_avail < 2)
    <3>1. n'.pc = "sync" /\ n'.loaded = Least(ring_read_avail, Batch)
      <4>1. n' = [n EXCEPT !.pc = "sync", !.loaded = Least(ring_read_avail, Batch)]
          BY <2>3 DEF NScan
      <4> QED BY <1>2, <4>1 DEF NRec
    <3>2. ring_read_avail = ring.head - ring.tail
      <4>1. PICK d \in Nat : d = ring.head - ring.tail BY <1>3, <2>1
      <4>2. WORD \in Nat /\ SLOT_NUM \in Nat /\ SLOT_NUM < WORD BY NvgenAssumption
      <4>3. d < WORD BY <1>3, <4>1, <4>2
      <4>4. d % WORD = d BY <4>2, <4>3
      <4> QED BY <4>1, <4>4 DEF ring_read_avail
    <3>3. n'.loaded <= ring.head - ring.tail BY <1>3, <3>1, <3>2, Basics, LeastIs
    <3>4. Mark' = ring.tail BY <1>1, <3>1 DEF Mark
    <3> QED BY <1>1, <1>4, <1>5, <3>1, <3>3, <3>4 DEF LapInv, Sender
  <2>4. CASE NSync /\ n'.pc = "fill"
    <3>1. n'.tail = ring.tail
          /\ n'.left = Least(Least(Even(nm_ring_space), Batch), n.loaded)
      <4>1. n' = [n EXCEPT !.pc = "done"] \/ n' = [n EXCEPT !.pc = "top", !.loaded = 0]
            \/ n' = [n EXCEPT !.pc = "fill", !.tail = ring.tail,
                       !.left = Least(Least(Even(nm_ring_space), Batch), n.loaded)]
          BY <2>4 DEF NSync
      <4> QED BY <1>2, <2>4, <4>1, Zenon DEF NRec
    <3>2. n'.left <= n.loaded
      <4>1. nm_ring_space \in Int BY RingState, Basics DEF nm_ring_space
      <4>2. Least(Even(nm_ring_space), Batch) \in Int BY <4>1, Basics DEF Least, Even
      <4> QED BY <1>3, <3>1, <4>2, LeastIs
    <3>3. n.loaded <= ring.head - ring.tail BY <1>5, <2>4 DEF LapInv, Sender, NSync
    <3>4. n'.left \in Nat BY DEF IInv, Types, NRec
    <3>5. n'.left <= ring.head - n'.tail BY <1>3, <3>1, <3>2, <3>3, <3>4
    <3>6. Mark' = ring.tail BY <1>1, <2>4, <3>1 DEF Mark
    <3> QED BY <1>1, <1>4, <1>5, <2>4, <3>5, <3>6 DEF LapInv, Sender
  <2>5. n'.pc \notin {"fill", "sync"} \/ (NScan /\ ~(ring_read_avail < 2))
        \/ (NSync /\ n'.pc = "fill")
    <3>1. CASE NScan /\ ring_read_avail < 2
      <4>1. n' = [n EXCEPT !.pc = Again] BY <3>1 DEF NScan
      <4> QED BY <1>2, <4>1 DEF NRec, Again
    <3>2. CASE NSync
      <4>1. n' = [n EXCEPT !.pc = "done"] \/ n' = [n EXCEPT !.pc = "top", !.loaded = 0]
            \/ n' = [n EXCEPT !.pc = "fill", !.tail = ring.tail,
                       !.left = Least(Least(Even(nm_ring_space), Batch), n.loaded)]
          BY <3>2 DEF NSync
      <4> QED BY <1>2, <3>2, <4>1, Zenon DEF NRec
    <3> QED BY <3>1, <3>2
  <2> QED BY <2>2, <2>3, <2>4, <2>5
<1>6. ring.tail <= ring'.tail BY <1>1, <1>3
<1>7. content \in [Slots -> {"free", "dma", "full"}] BY DEF LapInv, LapTypes
<1>8. main.pc # "start" BY <1>1, LapStarted
<1> QED BY <1>1, <1>5, <1>6, <1>7, <1>8, LapNetmap DEF netmap_body

LEMMA FillWhere ==
    ASSUME IInv, LapInv, FirstLap, n.pc = "fill", n.left > 0
    PROVE  /\ n.tail \in Slots /\ n.tail < ring.head /\ content[n.tail] = "full"
           /\ Mask(n.tail + 1) = n.tail + 1
<1>1. n.tail \in Slots /\ ring.head \in Slots /\ n.left \in Nat BY RingState
<1>2. n.left <= ring.head - n.tail BY DEF LapInv, Sender
<1>3. n.tail \in Nat /\ ring.head \in Int /\ ring.head < SLOT_NUM /\ SLOT_NUM \in Nat
    BY <1>1, SlotRange
<1>4. n.tail < ring.head /\ n.tail <= n.tail BY <1>1, <1>2, <1>3
<1>5. content[n.tail] = "full"
  <2>1. Mark = n.tail BY DEF Mark
  <2>2. \A s \in Slots : Mark <= s /\ s < ring.head => content[s] = "full" BY DEF LapInv, Sender
  <2> QED BY <1>1, <1>4, <2>1, <2>2
<1>6. n.tail + 1 \in Nat /\ n.tail + 1 < SLOT_NUM BY <1>3, <1>4
<1>7. Mask(n.tail + 1) = n.tail + 1 BY <1>6, MaskIs
<1> QED BY <1>1, <1>4, <1>5, <1>7

LEMMA LapNFill == ASSUME IInv, IInv', LapInv, NFill PROVE LapInv'
<1>1. /\ ring' = ring /\ content' = [content EXCEPT ![n.tail] = "free"]
      /\ txq' = Append(txq, n.tail) /\ n.pc = "fill" /\ n.left > 0
    BY DEF NFill
<1>2. n'.pc = "fill" /\ n'.left = n.left - 1 /\ n'.tail = Mask(n.tail + 1)
  <2>1. n' = [n EXCEPT !.left = @ - 1, !.tail = Mask(@ + 1)] BY DEF NFill
  <2>2. n \in NRec BY DEF IInv, Types
  <2> QED BY <1>1, <2>1, <2>2 DEF NRec
<1>3. content \in [Slots -> {"free", "dma", "full"}] BY DEF LapInv, LapTypes
<1>4. /\ ring.head \in Int /\ ring.tail \in Int /\ n.left \in Nat /\ n.tail \in Slots
      /\ n.tail \in Int /\ txq \in Seq(Slots)
    BY RingState, SlotRange
<1>5. ASSUME FirstLap PROVE Sender'
  <2>1. n.tail < ring.head /\ Mask(n.tail + 1) = n.tail + 1 BY <1>1, <1>5, FillWhere
  <2>2. Mark = n.tail /\ Mark' = n.tail + 1 BY <1>1, <1>2, <2>1 DEF Mark
  <2>3. /\ ring.tail <= n.tail /\ n.left <= ring.head - n.tail
        /\ \A s \in Slots : n.tail <= s /\ s < ring.head => content[s] = "full"
        /\ \A i \in 1 .. Len(txq) : txq[i] < n.tail
      BY <1>1, <1>5, <2>2 DEF LapInv, Sender
  <2>4. ring.tail <= n.tail + 1 /\ n.tail + 1 <= ring.head /\ n'.left <= ring.head - n'.tail
      BY <1>2, <1>4, <2>1, <2>3
  <2>5. \A s \in Slots : n.tail + 1 <= s /\ s < ring.head => content'[s] = "full"
    <3> SUFFICES ASSUME NEW s \in Slots, n.tail + 1 <= s, s < ring.head
                 PROVE  content'[s] = "full"
        OBVIOUS
    <3>1. s # n.tail /\ n.tail <= s BY <1>4, SlotRange
    <3> QED BY <1>1, <1>3, <2>3, <3>1
  <2>6. \A i \in 1 .. Len(txq') : txq'[i] < n.tail + 1
    <3> SUFFICES ASSUME NEW i \in 1 .. Len(txq') PROVE txq'[i] < n.tail + 1 OBVIOUS
    <3>1. /\ Len(txq) \in Nat /\ Len(txq') = Len(txq) + 1 /\ txq'[Len(txq) + 1] = n.tail
          /\ \A j \in 1 .. Len(txq) : txq'[j] = txq[j] /\ txq[j] \in Slots
        BY <1>1, <1>4, AppendIs
    <3>2. i = Len(txq) + 1 \/ i \in 1 .. Len(txq) BY <3>1
    <3>3. CASE i = Len(txq) + 1 BY <1>4, <3>1, <3>3
    <3>4. CASE i \in 1 .. Len(txq)
      <4>1. txq'[i] < n.tail /\ txq'[i] \in Int BY <2>3, <3>1, <3>4, SlotRange
      <4> QED BY <1>4, <4>1
    <3> QED BY <3>2, <3>3, <3>4
  <2>7. n'.pc # "sync" BY <1>2
  <2> QED BY <1>1, <2>2, <2>4, <2>5, <2>6, <2>7 DEF Sender
<1>6. FirstLap => \A s \in Slots : ring.head <= s /\ content[s] = "full" => content'[s] = "full"
  <2> SUFFICES ASSUME FirstLap, NEW s \in Slots, ring.head <= s, content[s] = "full"
               PROVE  content'[s] = "full"
      OBVIOUS
  <2>1. n.tail < ring.head BY <1>1, FillWhere
  <2>2. s # n.tail BY <1>4, <2>1, SlotRange
  <2> QED BY <1>1, <1>3, <2>2
<1>7. content' \in [Slots -> {"free", "dma", "full"}] BY <1>1, <1>3, Zenon
<1>8. ring.tail <= ring'.tail BY <1>1, <1>4
<1> QED BY <1>1, <1>2, <1>5, <1>6, <1>7, <1>8, LapNetmap DEF netmap_body

LEMMA LapNPublish == ASSUME IInv, IInv', LapInv, NPublish PROVE LapInv'
<1>1. /\ ring' = [ring EXCEPT !.tail = n.tail] /\ content' = content /\ txq' = txq
      /\ n' = [n EXCEPT !.pc = "top", !.loaded = 0] /\ n.pc = "fill"
    BY DEF NPublish, nvme, nic
<1>2. ring'.head = ring.head /\ ring'.tail = n.tail /\ n'.pc = "top"
  <2>1. ring \in [head : Slots, tail : Slots] /\ n \in NRec BY DEF IInv, Types
  <2> QED BY <1>1, <2>1 DEF NRec
<1>3. Mark = n.tail /\ Mark' = n.tail BY <1>1, <1>2 DEF Mark
<1>4. n.tail <= n.tail
  <2>1. n.tail \in Int BY RingState, SlotRange
  <2> QED BY <2>1
<1>5. FirstLap => Sender' BY <1>1, <1>2, <1>3, <1>4 DEF LapInv, Sender
<1>6. FirstLap => ring.tail <= ring'.tail BY <1>2, <1>3 DEF LapInv, Sender
<1>7. content \in [Slots -> {"free", "dma", "full"}] BY DEF LapInv, LapTypes
<1>8. main.pc # "start" BY <1>1, LapStarted
<1> QED BY <1>1, <1>5, <1>6, <1>7, <1>8, LapNetmap DEF netmap_body

LEMMA LapMain ==
    ASSUME IInv, IInv', LapInv, main_body \/ count_thread \/ UNCHANGED vars
    PROVE  LapInv'
<1>1. /\ ring' = ring /\ content' = content /\ cmds' = cmds /\ txq' = txq /\ seq' = seq
      /\ wrapped' = wrapped /\ expired' = expired
    BY DEF main_body, SpawnNetmap, SpawnUnvme, JoinAndRelease, Return, count_thread, vars, opt,
           nvme, nic, history
<1>2. CASE SpawnNetmap
  <2>1. main'.pc = "started" /\ u' = u /\ n' = [n EXCEPT !.pc = "top"] /\ n.pc = "off"
      BY <1>2 DEF SpawnNetmap, LapInv, LapTypes
  <2>2. n'.pc = "top"
    <3>1. n \in NRec BY DEF IInv, Types
    <3> QED BY <2>1, <3>1 DEF NRec
  <2>3. FirstLap => Sender' BY <1>1, <2>1, <2>2, SenderIdle DEF LapInv
  <2>4. LapTypes' BY <1>1, <2>1 DEF LapInv, LapTypes
  <2>5. FirstLap => Reader'
    <3>1. u.pc = "off" BY <1>2 DEF SpawnNetmap, IInv, Joined
    <3> QED BY <2>1, <3>1 DEF Reader
  <2> QED BY <1>1, <2>3, <2>4, <2>5 DEF LapInv, FirstLap
<1>3. CASE SpawnUnvme
  <2>1. main'.pc = "join" /\ n' = n /\ u' = [u EXCEPT !.pc = "top"] BY <1>3 DEF SpawnUnvme
  <2>2. u'.pc = "top"
    <3>1. u \in URec BY DEF IInv, Types
    <3> QED BY <2>1, <3>1 DEF URec
  <2>3. FirstLap => Sender' BY <1>1, <2>1, SenderFrame DEF LapInv
  <2>4. LapTypes' /\ Reader' BY <1>1, <2>1, <2>2 DEF LapInv, LapTypes, Reader
  <2> QED BY <1>1, <2>3, <2>4 DEF LapInv, FirstLap
<1>4. CASE JoinAndRelease \/ Return \/ count_thread \/ UNCHANGED vars
  <2>1. u' = u /\ n' = n /\ (main' = main \/ main'.pc # "start")
    <3>1. u' = u /\ n' = n /\ (main' = main \/ main' = [main EXCEPT !.pc = "released"]
                               \/ main' = [main EXCEPT !.pc = "ended"])
        BY <1>4 DEF JoinAndRelease, Return, count_thread, vars
    <3>2. main \in [pc : {"start", "started", "join", "released", "ended"},
                    tid : {"none", "netmap", "unvme"}]
        BY DEF IInv, Types
    <3> QED BY <3>1, <3>2
  <2>2. FirstLap => Sender' BY <1>1, <2>1, SenderFrame DEF LapInv
  <2>3. FirstLap => Reader'
    <3>1. ring.tail \in Int BY RingState, SlotRange
    <3>2. ring.tail <= ring'.tail BY <1>1, <3>1
    <3> QED BY <1>1, <2>1, <3>2, ReaderFrame DEF LapInv
  <2>4. LapTypes' BY <1>1, <2>1 DEF LapInv, LapTypes
  <2> QED BY <1>1, <2>2, <2>3, <2>4 DEF LapInv, FirstLap
<1> QED BY <1>2, <1>3, <1>4 DEF main_body

LEMMA LapInit == Init => LapInv
<1> SUFFICES ASSUME Init PROVE LapInv OBVIOUS
<1>1. /\ ring.head = 0 /\ ring.tail = 0 /\ n.pc = "off" /\ u.pc = "off" /\ txq = <<>>
      /\ content = [s \in Slots |-> "free"]
    BY DEF Init
<1>2. Mark = 0 BY <1>1 DEF Mark
<1>3. Sender
  <2>1. \A s \in Slots : ~(0 <= s /\ s < 0) BY SlotRange
  <2>2. Len(txq) = 0 BY <1>1, EmptySeq
  <2> QED BY <1>1, <1>2, <2>1, <2>2 DEF Sender
<1>4. LapTypes /\ Reader BY <1>1 DEF LapTypes, Reader
<1> QED BY <1>3, <1>4 DEF LapInv

LEMMA LapInvariant == Spec => [](IInv /\ LapInv)
<1>1. Init => LapInv BY LapInit
<1>2. IInv /\ IInv' /\ LapInv /\ [Next]_vars => LapInv'
  <2> SUFFICES ASSUME IInv, IInv', LapInv, [Next]_vars PROVE LapInv' OBVIOUS
  <2>1. CASE unvme_body BY <2>1, LapUScan, LapUIssue, LapUPoll DEF unvme_body
  <2>2. CASE netmap_body
      BY <2>2, LapNIdle, LapNScan, LapNFill, LapNPublish DEF netmap_body
  <2>3. CASE Device BY <2>3, LapTransmit, LapComplete DEF Device
  <2>4. CASE main_body \/ count_thread \/ UNCHANGED vars BY <2>4, LapMain
  <2> QED BY <2>1, <2>2, <2>3, <2>4 DEF Next, Ended
<1> QED BY <1>1, <1>2, Invariant, PTL DEF Spec

\* Only the loop over the slots appends to the tx ring.
LEMMA SendsLoadedSlot ==
    ASSUME IInv, LapInv, FirstLap, [Next]_vars
    PROVE  SentIsLoaded
<1>1. Len(txq) \in Nat /\ txq \in Seq(Slots) BY RingState
<1>2. CASE NFill
  <2>1. txq' = Append(txq, n.tail) /\ n.pc = "fill" /\ n.left > 0 BY <1>2 DEF NFill
  <2>2. n.tail \in Slots /\ content[n.tail] = "full" BY <2>1, FillWhere
  <2>3. Len(txq') = Len(txq) + 1 /\ txq'[Len(txq) + 1] = n.tail BY <1>1, <2>1, <2>2, AppendIs
  <2> QED BY <2>2, <2>3 DEF SentIsLoaded
<1>3. CASE Transmit
  <2>1. synced \in Nat /\ synced <= Len(txq) /\ synced > 0 /\ txq' = Tail(txq)
      BY <1>3 DEF Transmit, IInv, Types
  <2>2. txq # <<>> BY <1>1, <2>1, EmptySeq
  <2>3. Len(txq') = Len(txq) - 1 BY <1>1, <2>1, <2>2, TailIs
  <2> QED BY <1>1, <2>3 DEF SentIsLoaded
<1>4. CASE txq' = txq BY <1>1, <1>4 DEF SentIsLoaded
<1>5. NFill \/ Transmit \/ txq' = txq
  <2>1. CASE unvme_body BY <2>1 DEF unvme_body, UTop, UScan, UIssue, UPoll, nic
  <2>2. CASE netmap_body BY <2>2 DEF netmap_body, NTop, NScan, NSync, NPublish, NDrain, nic
  <2>3. CASE main_body \/ count_thread \/ UNCHANGED vars
      BY <2>3 DEF main_body, SpawnNetmap, SpawnUnvme, JoinAndRelease, Return, count_thread,
                  vars, nic
  <2>4. CASE Device BY <2>4 DEF Device, Complete, nic
  <2> QED BY <2>1, <2>2, <2>3, <2>4 DEF Next, Ended
<1> QED BY <1>2, <1>3, <1>4, <1>5

\* What waits on the tx ring lies before the head, a command from there on.
LEMMA KeepsQueued ==
    ASSUME IInv, LapInv, FirstLap, u.head >= ring.head, [Next]_vars
    PROVE  QueuedIsKept
<1> SUFFICES ASSUME NEW i \in DOMAIN txq, content'[txq[i]] = "dma"
             PROVE  content[txq[i]] = "dma"
    BY DEF QueuedIsKept
<1>1. txq[i] \in Slots /\ txq[i] < ring.head
  <2>1. txq \in Seq(Slots) /\ i \in 1 .. Len(txq) /\ txq[i] \in Slots BY RingState
  <2>2. txq[i] < Mark /\ Mark <= ring.head BY <2>1 DEF LapInv, Sender
  <2>3. PICK a \in Int : a = txq[i] BY <2>1, SlotRange, Zenon
  <2>4. Mark \in Slots /\ ring.head \in Slots BY RingState, Zenon
  <2>5. PICK b \in Int : b = Mark BY <2>4, SlotRange, Zenon
  <2>6. PICK c \in Int : c = ring.head BY <2>4, SlotRange, Zenon
  <2>7. a < b /\ b <= c BY <2>2, <2>3, <2>5, <2>6, Zenon
  <2>8. a < c BY <2>7
  <2> QED BY <2>1, <2>3, <2>6, <2>8, Zenon
<1>2. content \in [Slots -> {"free", "dma", "full"}] BY DEF LapInv, LapTypes
<1>3. CASE UIssue
  <2>1. txq[i] \notin Covers([at |-> u.head, nblocks |-> u.nblocks])
    <3>1. u.head \in Int /\ ring.head \in Int /\ u.nblocks \in Nat BY RingState, SlotRange
    <3> QED BY <1>1, <3>1, SlotRange DEF Covers
  <2> QED BY <1>1, <1>3, <2>1 DEF UIssue
<1>4. CASE NFill
  <2>1. content' = [content EXCEPT ![n.tail] = "free"] BY <1>4 DEF NFill
  <2> QED BY <1>1, <1>2, <2>1
<1>5. CASE \E c \in cmds \cup late : Complete(c)
  <2>1. PICK c : content' = [s \in Slots |-> IF s \in Covers(c) THEN "full" ELSE content[s]]
      BY <1>5 DEF Complete
  <2> QED BY <1>1, <2>1
<1>6. CASE content' = content BY <1>6
<1>7. UIssue \/ NFill \/ (\E c \in cmds \cup late : Complete(c)) \/ content' = content
  <2>1. CASE unvme_body BY <2>1 DEF unvme_body, UTop, UScan, UPoll, nvme
  <2>2. CASE netmap_body BY <2>2 DEF netmap_body, NTop, NScan, NSync, NPublish, NDrain, nvme
  <2>3. CASE main_body \/ count_thread \/ UNCHANGED vars
      BY <2>3 DEF main_body, SpawnNetmap, SpawnUnvme, JoinAndRelease, Return, count_thread,
                  vars, nvme
  <2>4. CASE Device BY <2>4 DEF Device, Transmit, nvme
  <2> QED BY <2>1, <2>2, <2>3, <2>4 DEF Next, Ended
<1> QED BY <1>3, <1>4, <1>5, <1>6, <1>7

(***************************************************************************)
(* Until the head has gone round the ring, or a read was given up, the     *)
(* netmap thread of apps/nvgen.c sends only loaded slots, and no read goes *)
(* over what waits on the tx ring while the commands lie from the head on: *)
(* for rings of any size and any batches.                                  *)
(***************************************************************************)
THEOREM FirstLapSendsLoadedTheorem == Spec => FirstLapSendsLoaded
<1>1. IInv /\ LapInv /\ [Next]_vars =>
          [~wrapped /\ ~expired => SentIsLoaded /\ (u.head >= ring.head => QueuedIsKept)]_vars
  <2> SUFFICES ASSUME IInv, LapInv, [Next]_vars, ~wrapped, ~expired
               PROVE  SentIsLoaded /\ (u.head >= ring.head => QueuedIsKept)
      OBVIOUS
  <2> QED BY SendsLoadedSlot, KeepsQueued DEF FirstLap
<1> QED BY <1>1, LapInvariant, PTL DEF Spec, FirstLapSendsLoaded
==============================================================================
