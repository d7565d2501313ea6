--------------------------- MODULE GeneratorProofs ---------------------------
(***************************************************************************)
(* Proofs about the block addresses of the programs (LbaWalk), about what  *)
(* store leaves on the device and generator reads from it (PacketStore),   *)
(* and about a thread of generator and its netmap ring (Generator).        *)
(***************************************************************************)
EXTENDS PacketStore, Generator, TLAPS

------------------------------------------------------------------------------
(* The walks, for every device size, number of threads and command length  *)
(* that fits into a thread's range.                                        *)

\* The bounds of a thread's range are natural numbers, whatever the program.
LEMMA RangeType ==
    ASSUME NEW o \in Options, NEW t \in Threads
    PROVE  range(o, t) \in [from : Nat, to : Nat]
<1>1. t \in Nat /\ t + 1 \in Nat BY LbaAssumption DEF Threads
<1>2. \A q \in Nat : q * t \in Nat /\ q * (t + 1) \in Nat BY <1>1
<1>3. o.app \in Apps /\ o.end \in Nat
  <2>1. o.app \in Apps /\ o.end \in LbaEnds BY Zenon DEF Options
  <2> QED BY <2>1, LbaAssumption, Zenon
<1>4. LbaEnd \div ncpus \in Nat /\ (LbaEnd - LbaStart) \div ncpus \in Nat
    BY LbaAssumption
<1>5. o.end \div ncpus \in Nat
  <2>1. PICK e \in Nat : e = o.end BY <1>3
  <2>2. e \div ncpus \in Nat BY LbaAssumption
  <2> QED BY <2>1, <2>2
<1>6. LbaEnd \in Nat BY LbaAssumption
<1> QED
    BY <1>2, <1>3, <1>4, <1>5, <1>6
    DEF Apps, range, bench_range, nosplit_range, nvgen_range, generator_range

\* With the blocks split, the range of a thread ends before that of a later
\* thread begins.
LEMMA RangesInOrder ==
    ASSUME NEW o \in Options, o.app # "nosplit",
           NEW s \in Threads, NEW t \in Threads, s < t
    PROVE  range(o, s).to <= range(o, t).from
<1>1. s \in Nat /\ t \in Nat /\ s + 1 <= t BY LbaAssumption DEF Threads
<1>2. \A q \in Nat : q * (s + 1) <= q * t BY <1>1
<1>3. o.app \in Apps /\ o.end \in Nat
  <2>1. o.app \in Apps /\ o.end \in LbaEnds BY Zenon DEF Options
  <2> QED BY <2>1, LbaAssumption, Zenon
<1>4. LbaEnd \div ncpus \in Nat /\ (LbaEnd - LbaStart) \div ncpus \in Nat
    BY LbaAssumption
<1>5. o.end \div ncpus \in Nat
  <2>1. PICK e \in Nat : e = o.end BY <1>3
  <2>2. e \div ncpus \in Nat BY LbaAssumption
  <2> QED BY <2>1, <2>2
<1> QED
    BY <1>2, <1>3, <1>4, <1>5
    DEF Apps, range, bench_range, nvgen_range, generator_range

\* The lengths a command line allows are within the bound.
LEMMA LengthsType ==
    ASSUME NEW o \in Options, NEW n \in Lengths(o)
    PROVE  n \in 1 .. MaxBlocks /\ n \in Nat \ {0} /\ o.app \in Apps
BY LbaAssumption DEF Options, Lengths

\* A random address leaves room for the command that drew it.
LEMMA RandomRoom ==
    ASSUME NEW r \in [from : Nat, to : Nat], NEW n \in Nat, NEW l \in RandomLba(r, n)
    PROVE  l \in Nat /\ r.from <= l /\ l + n < r.to
BY DEF RandomLba

\* next_lba() returns an address, also for one that is not in the range.
LEMMA NextType ==
    ASSUME NEW o \in Options,
           NEW r \in [from : Nat, to : Nat], NEW n \in Nat \ {0}, NEW l \in Nat,
           NEW m \in next_lba(o, l, r, n)
    PROVE  m \in Nat
<1>1. CASE m \in RandomLba(r, n) BY <1>1, RandomRoom
<1>2. CASE m \notin RandomLba(r, n)
    BY <1>2 DEF Options, next_lba, next_lba_once, next_lba_twice
<1> QED BY <1>1, <1>2

\* next_lba() of every program stays in the range.
LEMMA NextStarts ==
    ASSUME NEW o \in Options,
           NEW r \in [from : Nat, to : Nat], NEW n \in Nat \ {0},
           r.from + n < r.to,
           NEW l \in Nat, r.from <= l, l < r.to,
           NEW m \in next_lba(o, l, r, n)
    PROVE  r.from <= m /\ m < r.to
<1>1. CASE m \in RandomLba(r, n) BY <1>1, RandomRoom
<1>2. CASE m \notin RandomLba(r, n)
    BY <1>2 DEF Options, next_lba, next_lba_once, next_lba_twice
<1> QED BY <1>1, <1>2

\* next_lba() leaves room for one more command of the same length, but in the
\* sequential walk of generator.
LEMMA NextRoom ==
    ASSUME NEW o \in Options, ~CrossesEnd(o),
           NEW r \in [from : Nat, to : Nat], NEW n \in Nat \ {0},
           r.from + n < r.to,
           NEW l \in Nat, r.from <= l, l + n <= r.to,
           NEW m \in next_lba(o, l, r, n)
    PROVE  r.from <= m /\ m + n <= r.to
<1>1. CASE m \in RandomLba(r, n) BY <1>1, RandomRoom
<1>2. CASE m \notin RandomLba(r, n)
    BY <1>2 DEF Options, CrossesEnd, next_lba, next_lba_once, next_lba_twice
<1> QED BY <1>1, <1>2

\* A thread's variable holds an address, and of an address of the thread's range
\* nothing is lost when the range lies below LBA_WORD.
LEMMA VarHolds ==
    ASSUME NEW x \in Nat
    PROVE  /\ lba_var(opt, x) \in Nat
           /\ \A t \in Threads :
                 HoldsRange(t) /\ Range(t).to \in Nat /\ x < Range(t).to =>
                     lba_var(opt, x) = x
<1>1. LBA_WORD \in Nat /\ LBA_WORD > 0 BY LbaAssumption
<1>2. x % LBA_WORD \in Nat /\ (x < LBA_WORD => x % LBA_WORD = x) BY <1>1
<1> QED BY <1>1, <1>2 DEF lba_var, HoldsRange

------------------------------------------------------------------------------
\* RoomForCommand speaks of the next command; with it, CommandInRange of the
\* last one is inductive.  In the walks that cross the end of a range it says
\* nothing, and StartInRange stands on its own.
RangeInv == TypeOK /\ StartInRange /\ RoomForCommand /\ CommandInRange

\* RangeInv is an invariant of every program and walk.
LEMMA RangeInvariant == Spec => []RangeInv
<1>1. Init => RangeInv
  <2> SUFFICES ASSUME Init PROVE RangeInv OBVIOUS
  <2>1. opt \in Options BY DEF Init
  <2>2. \A t \in Threads : Range(t) \in [from : Nat, to : Nat]
      BY <2>1, RangeType DEF Range
  <2>3. \A t \in Threads, n \in 1 .. MaxBlocks : Range(t).from + n < Range(t).to
      BY <2>1, RangeAssumption DEF Range
  <2>4. \A t \in Threads : Range(t).from < Range(t).to
    <3>1. 1 \in 1 .. MaxBlocks BY LbaAssumption
    <3> QED BY <2>2, <2>3, <3>1
  <2>5. \A t \in Threads :
           lba[t] \in Nat /\ (HoldsRange(t) => lba[t] = Range(t).from)
      BY <2>2, <2>4, VarHolds DEF Init
  <2>6. TypeOK BY <2>1, <2>5 DEF Init, TypeOK, NoCmd
  <2>7. StartInRange BY <2>2, <2>4, <2>5 DEF StartInRange
  <2>8. RoomForCommand
      BY <2>1, <2>2, <2>3, <2>5, LengthsType DEF RoomForCommand
  <2>9. CommandInRange BY DEF Init, CommandInRange, InRange, Blocks, NoCmd
  <2> QED BY <2>6, <2>7, <2>8, <2>9 DEF RangeInv
<1>2. RangeInv /\ [Next]_vars => RangeInv'
  <2> SUFFICES ASSUME RangeInv, [Next]_vars PROVE RangeInv' OBVIOUS
  <2>1. ASSUME NEW t \in Threads, NEW n \in Lengths(opt), Command(t, n)
        PROVE  RangeInv'
    <3>1. opt' = opt /\ opt \in Options /\ lba[t] \in Nat
        BY <2>1 DEF Command, RangeInv, TypeOK
    <3>2. n \in 1 .. MaxBlocks /\ n \in Nat \ {0} BY <3>1, LengthsType
    <3>3. Range(t) \in [from : Nat, to : Nat] BY <3>1, RangeType DEF Range
    <3>4. Range(t).from + n < Range(t).to BY <3>1, <3>2, RangeAssumption DEF Range
    <3>5. PICK l \in next_lba(opt, lba[t], Range(t), n) :
                  lba' = [lba EXCEPT ![t] = lba_var(opt, l)]
        BY <2>1, Zenon DEF Command
    <3>6. PICK m : m = lba_var(opt, l) OBVIOUS
    <3>7. lba' = [lba EXCEPT ![t] = m] BY <3>5, <3>6
    <3>8. l \in Nat BY <3>1, <3>2, <3>3, NextType
    <3>9. m \in Nat /\ (HoldsRange(t) /\ l < Range(t).to => m = l)
        BY <3>3, <3>6, <3>8, VarHolds
    <3>10. HoldsRange(t) => /\ Range(t).from <= lba[t] /\ lba[t] < Range(t).to
                            /\ m = l /\ Range(t).from <= m /\ m < Range(t).to
      <4> SUFFICES ASSUME HoldsRange(t)
                   PROVE  /\ Range(t).from <= lba[t] /\ lba[t] < Range(t).to
                          /\ m = l /\ Range(t).from <= m /\ m < Range(t).to
          OBVIOUS
      <4>1. Range(t).from <= lba[t] /\ lba[t] < Range(t).to
          BY DEF RangeInv, StartInRange
      <4>2. Range(t).from <= l /\ l < Range(t).to
          BY <3>1, <3>2, <3>3, <3>4, <4>1, NextStarts
      <4> QED BY <3>9, <4>1, <4>2
    <3>11. \A s \in Threads : Range(s)' = Range(s) /\ HoldsRange(s)' = HoldsRange(s)
        BY <3>1 DEF Range, HoldsRange
    <3>12. TypeOK'
        BY <2>1, <3>1, <3>2, <3>7, <3>9 DEF Command, RangeInv, TypeOK
    <3>13. StartInRange'
        BY <3>7, <3>10, <3>11 DEF RangeInv, TypeOK, StartInRange
    <3>14. CASE CrossesEnd(opt)
      <4>1. RoomForCommand' /\ CommandInRange'
          BY <3>1, <3>14 DEF RoomForCommand, CommandInRange, CrossesEnd
      <4> QED BY <3>12, <3>13, <4>1 DEF RangeInv
    <3>15. CASE ~CrossesEnd(opt)
      <4>1. HoldsRange(t) => Range(t).from <= lba[t] /\ lba[t] + n <= Range(t).to
          BY <3>15 DEF RangeInv, RoomForCommand
      <4>2. HoldsRange(t) => Range(t).from <= m /\ m + n <= Range(t).to
          BY <3>1, <3>2, <3>3, <3>4, <3>10, <3>15, <4>1, NextRoom
      <4>3. Lengths(opt) = {n} /\ Lengths(opt)' = {n}
          BY <3>1, <3>15 DEF Lengths, CrossesEnd
      <4>4. RoomForCommand'
          BY <3>7, <3>11, <3>15, <4>2, <4>3 DEF RangeInv, TypeOK, RoomForCommand
      <4>5. \A s \in Threads : HoldsRange(s) => InRange(s)'
        <5>1. \A s \in Threads : HoldsRange(s) => InRange(s)
            BY <3>15 DEF RangeInv, CommandInRange
        <5>2. \A s \in Threads : s # t => Blocks(s)' = Blocks(s)
            BY <2>1 DEF Command, RangeInv, TypeOK, Blocks
        <5>3. Blocks(t)' = lba[t] .. lba[t] + n - 1
            BY <2>1 DEF Command, RangeInv, TypeOK, Blocks
        <5>4. HoldsRange(t) => InRange(t)'
            BY <3>1, <3>2, <3>3, <3>11, <4>1, <5>3 DEF InRange
        <5> QED BY <3>11, <5>1, <5>2, <5>4 DEF InRange
      <4>6. CommandInRange' BY <3>11, <4>5 DEF CommandInRange
      <4> QED BY <3>12, <3>13, <4>4, <4>6 DEF RangeInv
    <3> QED BY <3>14, <3>15
  <2>2. CASE UNCHANGED vars
      BY <2>2 DEF vars, RangeInv, TypeOK, StartInRange, RoomForCommand, CommandInRange,
                  HoldsRange, InRange, Blocks, Range, Lengths, CrossesEnd
  <2> QED BY <2>1, <2>2 DEF Next
<1> QED BY <1>1, <1>2, PTL DEF Spec

(***************************************************************************)
(* In all the programs, every command of a thread that can hold the        *)
(* addresses of its range starts in that range, whatever the lengths of    *)
(* the commands before it were, and whatever the other threads hold.       *)
(***************************************************************************)
THEOREM StartInRangeTheorem == Spec => []StartInRange
<1>1. RangeInv => StartInRange BY DEF RangeInv
<1> QED BY <1>1, RangeInvariant, PTL

(***************************************************************************)
(* When the walk leaves room for a command as long as the last one, and    *)
(* the commands have one length, as in bench-nvme and in every random      *)
(* walk, no command of such a thread has a block outside its range.        *)
(***************************************************************************)
THEOREM CommandInRangeTheorem == Spec => []CommandInRange
<1>1. RangeInv => CommandInRange BY DEF RangeInv
<1> QED BY <1>1, RangeInvariant, PTL

(***************************************************************************)
(* When moreover the blocks are split among the threads, no block belongs  *)
(* to the commands of two such threads.                                    *)
(***************************************************************************)
THEOREM ThreadsApartTheorem == Spec => []ThreadsApart
<1>1. RangeInv => ThreadsApart
  <2> SUFFICES ASSUME RangeInv, ~CrossesEnd(opt), opt.app # "nosplit",
                      NEW s \in Threads, NEW t \in Threads, s # t,
                      HoldsRange(s), HoldsRange(t),
                      NEW b \in Blocks(s), b \in Blocks(t)
               PROVE  FALSE
      BY DEF ThreadsApart
  <2>1. Range(s).from <= b /\ b < Range(s).to /\ Range(t).from <= b /\ b < Range(t).to
      BY DEF RangeInv, CommandInRange, InRange
  <2>2. opt \in Options BY DEF RangeInv, TypeOK
  <2>3. s < t \/ t < s BY LbaAssumption DEF Threads
  <2>4. Range(s).to <= Range(t).from \/ Range(t).to <= Range(s).from
      BY <2>2, <2>3, RangesInOrder DEF Range
  <2>5. b \in Int BY DEF Blocks, RangeInv, TypeOK
  <2>6. Range(s) \in [from : Nat, to : Nat] /\ Range(t) \in [from : Nat, to : Nat]
      BY <2>2, RangeType DEF Range
  <2> QED BY <2>1, <2>4, <2>5, <2>6
<1> QED BY <1>1, RangeInvariant, PTL

------------------------------------------------------------------------------
(* A thread of generator and its ring, for every size of the ring, batch   *)
(* and number of commands.                                                 *)

LEMMA GenBasics ==
    /\ TxSlots \in Nat /\ TxSlots > 1 /\ Batch \in Nat /\ Batch > 0
    /\ NvBatch \in Nat /\ NvBatch > 0
    /\ Pos \subseteq Nat /\ 0 \in Pos /\ TxSlots - 1 \in Pos
    /\ Index \subseteq Nat /\ 0 \in Index
    /\ bpkts \in Nat /\ bpkts > 0 /\ bpkts = Batch * NvBatch
<1>1. TxSlots \in Nat /\ TxSlots > 1 /\ Batch \in Nat /\ Batch > 0 /\ NvBatch \in Nat /\ NvBatch > 0
    BY GeneratorAssumption
<1>2. bpkts \in Nat /\ bpkts > 0 BY <1>1 DEF bpkts
<1> QED BY <1>1, <1>2 DEF Pos, Index, bpkts

\* What the remainder is of a number that is less than one round off.
LEMMA Wrap ==
    ASSUME NEW x \in Int
    PROVE  /\ x \in Pos => x % TxSlots = x
           /\ x + TxSlots \in Pos => x % TxSlots = x + TxSlots
           /\ x - TxSlots \in Pos => x % TxSlots = x - TxSlots
           /\ x % TxSlots \in Pos
BY GenBasics DEF Pos

LEMMA DistIs ==
    ASSUME NEW a \in Pos, NEW b \in Pos
    PROVE  /\ Dist(a, b) = IF a <= b THEN b - a ELSE b - a + TxSlots
           /\ Dist(a, b) \in Pos /\ Dist(a, b) \in Nat /\ Dist(a, b) < TxSlots
<1>1. b - a \in Int /\ (a <= b => b - a \in Pos) /\ (~(a <= b) => b - a + TxSlots \in Pos)
    BY GenBasics DEF Pos
<1>2. Dist(a, b) = IF a <= b THEN b - a ELSE b - a + TxSlots BY <1>1, Wrap DEF Dist
<1> QED BY <1>1, <1>2, GenBasics DEF Pos

LEMMA PosRange ==
    /\ TxSlots \in Nat /\ TxSlots > 1
    /\ \A x \in Pos : x \in Int /\ 0 <= x /\ x < TxSlots
BY GenBasics DEF Pos

\* b lies between a and c.
LEMMA DistBetween ==
    ASSUME NEW a \in Pos, NEW b \in Pos, NEW c \in Pos, Dist(a, b) <= Dist(a, c)
    PROVE  Dist(b, c) = Dist(a, c) - Dist(a, b)
<1>1. /\ a \in Int /\ 0 <= a /\ a < TxSlots /\ b \in Int /\ 0 <= b /\ b < TxSlots
      /\ c \in Int /\ 0 <= c /\ c < TxSlots /\ TxSlots \in Int
    BY PosRange
<1>2. Dist(a, b) = IF a <= b THEN b - a ELSE b - a + TxSlots BY DistIs
<1>3. Dist(a, c) = IF a <= c THEN c - a ELSE c - a + TxSlots BY DistIs
<1>4. Dist(b, c) = IF b <= c THEN c - b ELSE c - b + TxSlots BY DistIs
<1> QED BY <1>1, <1>2, <1>3, <1>4

\* b lies between a and d, and c between b and d.
LEMMA DistAdd ==
    ASSUME NEW a \in Pos, NEW b \in Pos, NEW c \in Pos, NEW d \in Pos,
           Dist(a, b) <= Dist(a, d), Dist(b, c) <= Dist(b, d)
    PROVE  Dist(a, b) <= Dist(a, c) /\ Dist(a, c) <= Dist(a, d)
<1>1. /\ a \in Int /\ 0 <= a /\ a < TxSlots /\ b \in Int /\ 0 <= b /\ b < TxSlots
      /\ c \in Int /\ 0 <= c /\ c < TxSlots /\ d \in Int /\ 0 <= d /\ d < TxSlots
      /\ TxSlots \in Int
    BY PosRange
<1>2. Dist(a, b) = IF a <= b THEN b - a ELSE b - a + TxSlots BY DistIs
<1>3. Dist(a, c) = IF a <= c THEN c - a ELSE c - a + TxSlots BY DistIs
<1>4. Dist(a, d) = IF a <= d THEN d - a ELSE d - a + TxSlots BY DistIs
<1>5. Dist(b, c) = IF b <= c THEN c - b ELSE c - b + TxSlots BY DistIs
<1>6. Dist(b, d) = IF b <= d THEN d - b ELSE d - b + TxSlots BY DistIs
<1> QED BY <1>1, <1>2, <1>3, <1>4, <1>5, <1>6

\* The slot to transmit moves on.
LEMMA DistNext ==
    ASSUME NEW a \in Pos, NEW b \in Pos
    PROVE  /\ (a + 1) % TxSlots \in Pos
           /\ a # b => Dist((a + 1) % TxSlots, b) = Dist(a, b) - 1
<1> DEFINE e == (a + 1) % TxSlots
<1>1. /\ a \in Int /\ 0 <= a /\ a < TxSlots /\ b \in Int /\ 0 <= b /\ b < TxSlots
      /\ TxSlots \in Int
    BY PosRange
<1>2. e \in Pos
  <2>1. a + 1 \in Int BY <1>1
  <2> QED BY <2>1, Wrap
<1>3. e = IF a + 1 < TxSlots THEN a + 1 ELSE 0
  <2>1. CASE a + 1 < TxSlots
    <3>1. a + 1 \in Pos /\ a + 1 \in Int BY <1>1, <2>1 DEF Pos
    <3> QED BY <2>1, <3>1, Wrap
  <2>2. CASE ~(a + 1 < TxSlots)
    <3>1. a + 1 \in Int /\ (a + 1) - TxSlots = 0 BY <1>1, <2>2
    <3> QED BY <2>2, <3>1, GenBasics, Wrap
  <2> QED BY <2>1, <2>2
<1> HIDE DEF e
<1>4. Dist(a, b) = IF a <= b THEN b - a ELSE b - a + TxSlots BY DistIs
<1>5. Dist(e, b) = IF e <= b THEN b - e ELSE b - e + TxSlots BY <1>2, DistIs
<1>6. a # b => Dist(e, b) = Dist(a, b) - 1 BY <1>1, <1>3, <1>4, <1>5
<1> QED BY <1>2, <1>6 DEF e

\* How far position x is ahead of the slot that is transmitted next.
Ahead(x) == Dist(kern.hw, x)

ThreadRec ==
    [pc : {"top", "read", "fill", "sync", "done"}, space : Pos, nvbatch : 0 .. NvBatch,
     rest : Nat, vb : Index, head : Pos, filled : Nat]

RingTypes ==
    /\ ring \in [head : Pos, cur : Pos, tail : Pos] /\ kern \in [head : Pos, hw : Pos]
    /\ th \in ThreadRec /\ out \subseteq Index /\ late \subseteq Index

\* From the slot that is transmitted next one comes to the head the kernel
\* knows, then to cur and to tail; head alone may have left this order, when
\* the last iteration put too many packets on the ring.
RingOrder ==
    /\ Ahead(kern.head) <= Ahead(ring.tail)
    /\ th.pc \in {"top", "read", "fill"} =>
          /\ ring.head = kern.head
          /\ Ahead(kern.head) <= Ahead(ring.cur) /\ Ahead(ring.cur) <= Ahead(ring.tail)
    /\ th.pc \in {"read", "fill"} => th.space = nm_ring_space
    /\ th.pc = "sync" /\ th.space >= bpkts => ring.cur = ring.head

\* The commands of an iteration, and the packets of those that are polled.
FillInv ==
    /\ th.pc \in {"read", "fill"} =>
          /\ th.vb < th.nvbatch
          /\ IF th.space >= bpkts
             THEN th.nvbatch = NvBatch /\ th.rest = 0
             ELSE th.nvbatch = (th.space \div Batch) + 1 /\ th.rest = th.space % Batch
    /\ th.pc = "read" => th.filled = 0
    /\ th.pc = "fill" => th.filled <= th.vb * Batch
    /\ FillFits

\* The commands that the device has are those that the first loop has given
\* and the second one has not polled.
OutInv ==
    /\ \A v \in out : \/ th.pc = "read" /\ v < th.vb
                      \/ th.pc = "fill" /\ th.vb <= v
    /\ \A v \in out : v < th.nvbatch
    /\ main = "closed" => th.pc = "done"

GInv == RingTypes /\ RingOrder /\ FillInv /\ OutInv

\* Division with remainder.
LEMMA DivMod ==
    ASSUME NEW a \in Nat, NEW b \in Nat, b > 0
    PROVE  /\ a \div b \in Nat /\ a % b \in Nat /\ a % b < b
           /\ a = b * (a \div b) + (a % b)
OBVIOUS

\* A product is below another one only with a smaller factor.
LEMMA LessFactor ==
    ASSUME NEW a \in Nat, NEW b \in Nat, NEW c \in Nat, c * a < c * b
    PROVE  a < b
<1> SUFFICES ASSUME b <= a PROVE FALSE OBVIOUS
<1>1. c * b <= c * a OBVIOUS
<1>2. c * a \in Nat /\ c * b \in Nat OBVIOUS
<1> QED BY <1>1, <1>2

\* The commands of an iteration: at most NvBatch.
LEMMA CommandsOf ==
    ASSUME NEW space \in Pos
    PROVE  /\ space < bpkts => (space \div Batch) + 1 \in 1 .. NvBatch
           /\ space % Batch \in Nat /\ space \div Batch \in Nat
           /\ Batch * (space \div Batch) + (space % Batch) = space
<1> DEFINE q == space \div Batch
<1>1. space \in Nat BY GenBasics
<1>2. q \in Nat /\ space % Batch \in Nat /\ space = Batch * q + (space % Batch)
    BY <1>1, DivMod, GenBasics
<1> HIDE DEF q
<1>3. ASSUME space < bpkts PROVE q < NvBatch
  <2>1. Batch * q \in Nat BY <1>2, GenBasics
  <2>2. Batch * q <= space BY <1>1, <1>2, <2>1
  <2>3. Batch * q < Batch * NvBatch BY <1>1, <1>3, <2>1, <2>2, GenBasics
  <2> QED BY <1>2, <2>3, LessFactor, GenBasics
<1> QED BY <1>2, <1>3, GenBasics DEF q

LEMMA StateOf ==
    ASSUME RingTypes
    PROVE  /\ ring.head \in Pos /\ ring.cur \in Pos /\ ring.tail \in Pos
           /\ kern.head \in Pos /\ kern.hw \in Pos /\ nm_ring_space \in Pos
           /\ th.space \in Pos /\ th.head \in Pos /\ th.vb \in Index /\ th.filled \in Nat
           /\ th.nvbatch \in 0 .. NvBatch /\ th.rest \in Nat
BY DistIs DEF RingTypes, ThreadRec, nm_ring_space

LEMMA StartStep == ASSUME GInv, Start PROVE GInv'
<1> DEFINE space == nm_ring_space
           nb == IF space >= bpkts THEN NvBatch ELSE (space \div Batch) + 1
           rest == IF space >= bpkts THEN 0 ELSE space % Batch
           pc == IF caught THEN "done" ELSE IF space = 0 THEN "sync"
                 ELSE IF fake THEN "fill" ELSE "read"
<1>1. RingTypes /\ RingOrder /\ FillInv /\ OutInv /\ th.pc = "top" BY DEF GInv, Start
<1>2. space \in Pos /\ space \in Nat BY <1>1, StateOf, GenBasics, Zenon
<1>3. nb \in 1 .. NvBatch /\ rest \in Nat /\ nb \in 0 .. NvBatch
    BY <1>2, CommandsOf, GenBasics
<1>4. pc \in {"top", "read", "fill", "sync", "done"} OBVIOUS
<1>5. /\ ring' = ring /\ kern' = kern /\ out' = out /\ late' = late /\ main' = main
      /\ th' = [th EXCEPT !.pc = pc, !.space = space, !.vb = 0, !.head = ring.head,
                          !.filled = 0, !.nvbatch = nb, !.rest = rest]
    BY DEF Start, nvme
<1> HIDE DEF space, nb, rest, pc
<1>6. /\ th' \in ThreadRec /\ th'.pc = pc /\ th'.space = space /\ th'.vb = 0
      /\ th'.filled = 0 /\ th'.nvbatch = nb /\ th'.rest = rest
  <2>1. ring.head \in Pos /\ 0 \in Index /\ 0 \in Nat BY <1>1, StateOf, GenBasics
  <2> QED BY <1>1, <1>2, <1>3, <1>4, <1>5, <2>1, Zenon DEF RingTypes, ThreadRec
<1>7. RingTypes' BY <1>1, <1>5, <1>6 DEF RingTypes
<1>8. RingOrder'
  <2>1. nm_ring_space' = space BY <1>5 DEF nm_ring_space, space, Dist
  <2>2. \A x : Ahead(x)' = Ahead(x) BY <1>5 DEF Ahead, Dist
  <2>3. pc = "sync" => space = 0 BY DEF pc
  <2> QED BY <1>1, <1>2, <1>5, <1>6, <2>1, <2>2, <2>3, GenBasics DEF RingOrder
<1>9. FillInv'
  <2>1. FillFits' BY <1>2, <1>6, GenBasics DEF FillFits
  <2>2. 0 < nb /\ 0 * Batch = 0 BY <1>3, GenBasics
  <2> QED BY <1>6, <2>1, <2>2 DEF FillInv, nb, rest
<1>10. OutInv' BY <1>1, <1>5 DEF OutInv
<1> QED BY <1>7, <1>8, <1>9, <1>10 DEF GInv

LEMMA ReadStep == ASSUME GInv, Read PROVE GInv'
<1> DEFINE vb == IF Last THEN 0 ELSE th.vb + 1
           pc == IF Last THEN "fill" ELSE "read"
<1>1. RingTypes /\ RingOrder /\ FillInv /\ OutInv /\ th.pc = "read" BY DEF GInv, Read
<1>2. th.vb \in Index /\ th.vb \in Nat /\ th.nvbatch \in 0 .. NvBatch /\ th.vb < th.nvbatch
    BY <1>1, StateOf, GenBasics, Zenon DEF FillInv
<1>3. vb \in Index /\ vb < th.nvbatch BY <1>2, GenBasics DEF Last, Index
<1>4. pc \in {"read", "fill"} OBVIOUS
<1>5. /\ ring' = ring /\ kern' = kern /\ late' = late /\ main' = main
      /\ out' = out \cup {th.vb} /\ th' = [th EXCEPT !.vb = vb, !.pc = pc]
    BY <1>1 DEF Read
<1>6. ~Last => vb = th.vb + 1 /\ pc = "read" OBVIOUS
<1>7. Last => vb = 0 /\ pc = "fill" OBVIOUS
<1> HIDE DEF vb, pc
<1>8. /\ th' \in ThreadRec /\ th'.pc = pc /\ th'.space = th.space /\ th'.vb = vb
      /\ th'.filled = th.filled /\ th'.nvbatch = th.nvbatch /\ th'.rest = th.rest
    BY <1>1, <1>3, <1>4, <1>5, Zenon DEF RingTypes, ThreadRec
<1>9. RingTypes' BY <1>1, <1>2, <1>5, <1>8 DEF RingTypes
<1>10. RingOrder'
  <2>1. nm_ring_space' = nm_ring_space BY <1>5 DEF nm_ring_space, Dist
  <2>2. \A x : Ahead(x)' = Ahead(x) BY <1>5 DEF Ahead, Dist
  <2> QED BY <1>1, <1>4, <1>5, <1>8, <2>1, <2>2 DEF RingOrder
<1>11. FillInv'
  <2>1. th.filled = 0 /\ th.filled <= 0 * Batch BY <1>1, GenBasics DEF FillInv
  <2>2. FillFits' BY <1>1, <1>8 DEF FillInv, FillFits
  <2> QED BY <1>1, <1>3, <1>4, <1>6, <1>7, <1>8, <2>1, <2>2 DEF FillInv
<1>12. OutInv'
  <2>1. \A v \in out' : v \in Nat /\ v < th.nvbatch /\ v <= th.vb
      BY <1>1, <1>2, <1>5, GenBasics DEF OutInv, RingTypes
  <2> QED BY <1>1, <1>2, <1>5, <1>6, <1>7, <1>8, <2>1 DEF OutInv
<1> QED BY <1>9, <1>10, <1>11, <1>12 DEF GInv

\* The packets of command vb, on top of those of the commands before it.
LEMMA FillCount ==
    ASSUME GInv, th.pc = "fill", NEW n \in {0, batch}
    PROVE  /\ n \in Nat
           /\ ~Last => th.filled + n <= (th.vb + 1) * Batch
           /\ th.space >= bpkts \/ th.space % Batch # 0 => th.filled + n <= th.space
<1>1. RingTypes /\ FillInv BY DEF GInv
<1>2. /\ th.space \in Pos /\ th.space \in Nat /\ th.vb \in Nat /\ th.filled \in Nat
      /\ th.nvbatch \in Nat /\ th.nvbatch <= NvBatch /\ th.rest \in Nat
  <2>1. /\ th.space \in Pos /\ th.vb \in Index /\ th.filled \in Nat
        /\ th.nvbatch \in 0 .. NvBatch /\ th.rest \in Nat
      BY <1>1, StateOf
  <2>2. th.nvbatch \in Nat /\ th.nvbatch <= NvBatch BY <2>1, GenBasics
  <2> QED BY <2>1, <2>2, GenBasics, Zenon
<1>3. th.vb < th.nvbatch /\ th.filled <= th.vb * Batch BY <1>1 DEF FillInv
<1>4. n \in Nat /\ (~Last => n <= Batch) /\ (th.rest = 0 => n <= Batch)
    BY <1>2, GenBasics DEF batch
<1>5. (th.vb + 1) * Batch = th.vb * Batch + Batch /\ th.vb * Batch \in Nat
    BY <1>2, GenBasics
<1>6. ~Last => th.filled + n <= (th.vb + 1) * Batch BY <1>2, <1>3, <1>4, <1>5, GenBasics
<1>7. CASE th.space >= bpkts
  <2>1. th.nvbatch = NvBatch /\ th.rest = 0 BY <1>1, <1>7 DEF FillInv
  <2>2. th.vb + 1 <= NvBatch /\ th.vb + 1 \in Nat BY <1>2, <1>3, <2>1
  <2>3. (th.vb + 1) * Batch <= NvBatch * Batch /\ NvBatch * Batch = bpkts
      BY <2>2, GenBasics
  <2>4. th.filled + n <= (th.vb + 1) * Batch BY <1>2, <1>3, <1>4, <1>5, <2>1, GenBasics
  <2>5. th.filled + n <= th.space BY <1>2, <1>4, <1>5, <1>7, <2>3, <2>4, GenBasics
  <2> QED BY <1>4, <1>6, <2>5
<1>8. CASE ~(th.space >= bpkts) /\ th.space % Batch # 0
  <2> DEFINE q == th.space \div Batch
  <2>1. th.nvbatch = q + 1 /\ th.rest = th.space % Batch /\ th.rest # 0
      BY <1>1, <1>8 DEF FillInv
  <2>2. q \in Nat /\ Batch * q + th.rest = th.space BY <1>2, <2>1, CommandsOf
  <2> HIDE DEF q
  <2>3. Batch * q \in Nat /\ th.vb <= q BY <1>2, <1>3, <2>1, <2>2, GenBasics
  <2>4. th.vb * Batch <= Batch * q BY <1>2, <2>2, <2>3, GenBasics
  <2>5. CASE Last
    <3>1. n <= th.rest BY <1>2, <2>1, <2>5 DEF batch
    <3>2. th.filled + n <= th.space BY <1>2, <1>3, <1>4, <1>5, <2>2, <2>3, <2>4, <3>1
    <3> QED BY <1>4, <1>6, <3>2
  <2>6. CASE ~Last
    <3>1. th.vb + 1 <= q BY <1>2, <1>3, <2>1, <2>2, <2>6 DEF Last
    <3>2. (th.vb + 1) * Batch <= Batch * q BY <1>2, <2>2, <3>1, GenBasics
    <3>3. th.filled + n <= th.space
        BY <1>2, <1>4, <1>5, <1>6, <2>2, <2>3, <2>6, <3>2, GenBasics
    <3> QED BY <1>4, <1>6, <3>3
  <2> QED BY <2>5, <2>6
<1>9. CASE ~(th.space >= bpkts) /\ th.space % Batch = 0 BY <1>4, <1>6, <1>9
<1> QED BY <1>7, <1>8, <1>9

LEMMA FillStep == ASSUME GInv, Fill PROVE GInv'
<1>1. /\ RingTypes /\ RingOrder /\ FillInv /\ OutInv /\ th.pc = "fill" /\ kern' = kern
      /\ main' = main
    BY DEF GInv, Fill
<1>2. /\ th.vb \in Index /\ th.vb \in Nat /\ th.nvbatch \in 0 .. NvBatch
      /\ th.vb < th.nvbatch /\ th.filled \in Nat /\ th.head \in Pos
  <2>1. /\ th.vb \in Index /\ th.nvbatch \in 0 .. NvBatch /\ th.filled \in Nat /\ th.head \in Pos
      BY <1>1, StateOf
  <2> QED BY <1>1, <2>1, GenBasics, Zenon DEF FillInv
<1>n. PICK n \in {0, batch} :
         LET head == (th.head + n) % TxSlots
         IN  /\ th' = [th EXCEPT !.vb = IF Last THEN 0 ELSE @ + 1,
                                 !.pc = IF Last THEN "sync" ELSE @,
                                 !.head = head, !.filled = @ + n]
             /\ IF Last THEN Publish(head) ELSE UNCHANGED ring
    BY Zenon DEF Fill
<1>h. PICK head : head = (th.head + n) % TxSlots OBVIOUS
<1>3. /\ th' = [th EXCEPT !.vb = IF Last THEN 0 ELSE @ + 1,
                          !.pc = IF Last THEN "sync" ELSE @,
                          !.head = head, !.filled = @ + n]
      /\ IF Last THEN Publish(head) ELSE UNCHANGED ring
    BY <1>n, <1>h
<1>4. /\ n \in Nat
      /\ ~Last => th.filled + n <= (th.vb + 1) * Batch
      /\ th.space >= bpkts \/ th.space % Batch # 0 => th.filled + n <= th.space
    BY <1>1, FillCount
<1>5. head \in Pos
  <2>1. th.head + n \in Int BY <1>2, <1>4, PosRange
  <2> QED BY <1>h, <2>1, Wrap
<1> DEFINE vb == IF Last THEN 0 ELSE th.vb + 1
           pc == IF Last THEN "sync" ELSE "fill"
           m == th.filled + n
<1>6. vb \in Index /\ pc \in {"fill", "sync"} /\ m \in Nat
    BY <1>2, <1>4, GenBasics DEF Last, Index
<1>7. th' = [th EXCEPT !.vb = vb, !.pc = pc, !.head = head, !.filled = m] BY <1>1, <1>3
<1>8. (~Last => vb = th.vb + 1 /\ pc = "fill") /\ (Last => pc = "sync") OBVIOUS
<1> HIDE DEF vb, pc, m
<1>9. /\ th' \in ThreadRec /\ th'.pc = pc /\ th'.space = th.space /\ th'.vb = vb
      /\ th'.filled = m /\ th'.nvbatch = th.nvbatch /\ th'.rest = th.rest
    BY <1>1, <1>5, <1>6, <1>7, Zenon DEF RingTypes, ThreadRec
<1>10. /\ ring' \in [head : Pos, cur : Pos, tail : Pos] /\ ring'.tail = ring.tail
       /\ Last => ring'.cur = ring'.head
       /\ ~Last => ring' = ring
    BY <1>1, <1>3, <1>5, Zenon DEF Publish, RingTypes
<1>11. RingTypes'
  <2>1. out' \subseteq Index /\ late' \subseteq Index BY <1>1, <1>2 DEF Fill, RingTypes
  <2> QED BY <1>1, <1>9, <1>10, <2>1 DEF RingTypes
<1>12. RingOrder'
  <2>1. \A x : Ahead(x)' = Ahead(x) BY <1>1 DEF Ahead, Dist
  <2>2. (Ahead(kern.head) <= Ahead(ring.tail))'
      BY <1>1, <1>10 DEF RingOrder, Ahead, Dist
  <2>3. CASE Last BY <1>8, <1>9, <1>10, <2>2, <2>3 DEF RingOrder
  <2>4. CASE ~Last
    <3>1. nm_ring_space' = nm_ring_space BY <1>10, <2>4 DEF nm_ring_space, Dist
    <3> QED BY <1>1, <1>8, <1>9, <1>10, <2>1, <2>4, <3>1 DEF RingOrder
  <2> QED BY <2>3, <2>4
<1>13. FillInv'
  <2>1. FillFits' BY <1>4, <1>9 DEF FillFits, m
  <2>2. ~Last => m <= vb * Batch BY <1>4, <1>8 DEF m
  <2>3. ~Last => vb < th.nvbatch BY <1>2, <1>8 DEF Last
  <2> QED BY <1>1, <1>6, <1>8, <1>9, <2>1, <2>2, <2>3 DEF FillInv
<1>14. OutInv'
  <2>1. \A v \in out' : v \in Nat /\ v < th.nvbatch /\ th.vb <= v /\ v # th.vb
      BY <1>1, GenBasics DEF Fill, OutInv, RingTypes
  <2>2. \A v \in out' : ~Last /\ th.vb + 1 <= v BY <1>2, <2>1 DEF Last
  <2>3. main' # "closed" BY <1>1 DEF OutInv
  <2> QED BY <1>8, <1>9, <2>1, <2>2, <2>3 DEF OutInv
<1> QED BY <1>11, <1>12, <1>13, <1>14 DEF GInv

\* The slot before the one that is transmitted next is the last one.
LEMMA BeforeHw ==
    ASSUME NEW w \in Pos
    PROVE  (w - 1) % TxSlots \in Pos /\ Dist(w, (w - 1) % TxSlots) = TxSlots - 1
<1> DEFINE e == (w - 1) % TxSlots
<1>1. w \in Int /\ 0 <= w /\ w < TxSlots /\ TxSlots \in Int /\ TxSlots > 1 BY PosRange
<1>2. e = IF w = 0 THEN TxSlots - 1 ELSE w - 1
  <2>1. w - 1 \in Int BY <1>1
  <2>2. CASE w = 0
    <3>1. w - 1 + TxSlots = TxSlots - 1 BY <1>1, <2>2
    <3> QED BY <2>1, <2>2, <3>1, GenBasics, Wrap
  <2>3. CASE w # 0
    <3>1. w - 1 \in Pos BY <1>1, <2>3 DEF Pos
    <3> QED BY <2>1, <2>3, <3>1, Wrap
  <2> QED BY <2>2, <2>3
<1>3. e \in Pos
  <2>1. w - 1 \in Int BY <1>1
  <2> QED BY <2>1, Wrap
<1> HIDE DEF e
<1>4. Dist(w, e) = IF w <= e THEN e - w ELSE e - w + TxSlots BY <1>3, DistIs
<1>5. Dist(w, e) = TxSlots - 1 BY <1>1, <1>2, <1>4
<1> QED BY <1>3, <1>5 DEF e

LEMMA SyncStep == ASSUME GInv, Sync PROVE GInv'
<1>1. /\ RingTypes /\ RingOrder /\ FillInv /\ OutInv /\ th.pc = "sync"
      /\ out' = out /\ late' = late /\ main' = main
    BY DEF GInv, Sync, nvme
<1>r. PICK r : r = IF th.space < bpkts THEN [ring EXCEPT !.cur = ring.tail] ELSE ring
    BY Zenon
<1>2. /\ ring.head \in Pos /\ ring.cur \in Pos /\ ring.tail \in Pos /\ kern.head \in Pos
      /\ kern.hw \in Pos /\ th.space \in Pos
    BY <1>1, StateOf
<1>3. /\ r \in [head : Pos, cur : Pos, tail : Pos] /\ r.head = ring.head /\ r.tail = ring.tail
      /\ r.cur \in {ring.head, ring.tail}
  <2>1. CASE th.space < bpkts BY <1>1, <1>2, <1>r, <2>1 DEF RingTypes
  <2>2. CASE ~(th.space < bpkts)
    <3>1. bpkts \in Nat BY GenBasics
    <3>2. th.space >= bpkts BY <1>2, <2>2, <3>1, PosRange
    <3> QED BY <1>1, <1>2, <1>r, <2>2, <3>2 DEF RingTypes, RingOrder
  <2> QED BY <2>1, <2>2
<1>4. PICK pc \in {"top", "done"} :
         /\ th' = [th EXCEPT !.pc = pc]
         /\ pc = "top" => TxSync(r)
         /\ pc = "done" => ring' = r /\ kern' = kern
    BY <1>r DEF Sync
<1>5. /\ th' \in ThreadRec /\ th'.pc = pc /\ th'.space = th.space /\ th'.filled = th.filled
    BY <1>1, <1>4 DEF RingTypes, ThreadRec
<1>6. FillInv' BY <1>1, <1>5 DEF FillInv, FillFits
<1>7. out = {} /\ main # "closed" BY <1>1 DEF OutInv
<1>8. OutInv' BY <1>1, <1>7 DEF OutInv
<1>9. RingTypes' /\ RingOrder'
  <2>1. CASE pc = "done"
    <3>1. ring' = r /\ kern' = kern BY <1>4, <2>1
    <3>2. RingTypes' BY <1>1, <1>3, <1>5, <3>1 DEF RingTypes
    <3>3. (Ahead(kern.head) <= Ahead(ring.tail))'
        BY <1>1, <1>3, <3>1 DEF RingOrder, Ahead, Dist
    <3> QED BY <1>5, <2>1, <3>2, <3>3 DEF RingOrder
  <2>2. CASE pc = "top"
    <3>e. PICK e : e = (kern.hw - 1) % TxSlots OBVIOUS
    <3>1. e \in Pos /\ Dist(kern.hw, e) = TxSlots - 1 BY <1>2, <3>e, BeforeHw
    <3>2. PICK h \in Pos, c \in Pos :
             /\ kern' = [kern EXCEPT !.head = h]
             /\ ring' = [head |-> h, cur |-> c, tail |-> e]
             /\ Dist(kern.hw, h) <= Dist(kern.hw, c)
      <4>1. Dist(kern.hw, kern.head) <= Dist(kern.hw, ring.tail)
          BY <1>1 DEF RingOrder, Ahead
      <4>2. CASE Dist(kern.head, r.head) <= Dist(kern.head, r.tail)
        <5>1. /\ kern' = [kern EXCEPT !.head = r.head]
              /\ ring' = [head |-> r.head, cur |-> r.cur, tail |-> e]
            BY <1>3, <1>4, <2>2, <3>e, <4>2 DEF TxSync
        <5>2. Dist(kern.hw, ring.head) <= Dist(kern.hw, ring.tail)
            BY <1>2, <1>3, <4>1, <4>2, DistAdd
        <5>3. Dist(kern.hw, ring.head) \in Nat BY <1>2, DistIs
        <5>4. Dist(kern.hw, r.head) <= Dist(kern.hw, r.cur) BY <1>3, <5>2, <5>3
        <5> QED BY <1>3, <5>1, <5>4
      <4>3. CASE ~(Dist(kern.head, r.head) <= Dist(kern.head, r.tail))
        <5>1. kern' = kern /\ ring' = [head |-> kern.head, cur |-> kern.head, tail |-> e]
            BY <1>4, <2>2, <3>e, <4>3 DEF TxSync
        <5>2. kern' = [kern EXCEPT !.head = kern.head] BY <1>1, <5>1 DEF RingTypes
        <5>3. Dist(kern.hw, kern.head) \in Nat BY <1>2, DistIs
        <5>4. Dist(kern.hw, kern.head) <= Dist(kern.hw, kern.head) BY <5>3
        <5> QED BY <1>2, <5>1, <5>2, <5>4, Zenon
      <4> QED BY <4>2, <4>3
    <3>3. kern'.hw = kern.hw /\ kern'.head = h /\ kern' \in [head : Pos, hw : Pos]
        BY <1>1, <3>2 DEF RingTypes
    <3>4. ring'.head = h /\ ring'.cur = c /\ ring'.tail = e BY <3>2
    <3>5. RingTypes' BY <1>1, <1>5, <3>1, <3>2, <3>3 DEF RingTypes
    <3>6. Dist(kern.hw, h) <= Dist(kern.hw, e) /\ Dist(kern.hw, c) <= Dist(kern.hw, e)
      <4>1. /\ Dist(kern.hw, h) \in Nat /\ Dist(kern.hw, h) < TxSlots
            /\ Dist(kern.hw, c) \in Nat /\ Dist(kern.hw, c) < TxSlots
          BY <1>2, DistIs
      <4> QED BY <3>1, <4>1, GenBasics
    <3>7. /\ (Ahead(kern.head) <= Ahead(ring.tail))' /\ (Ahead(kern.head) <= Ahead(ring.cur))'
          /\ (Ahead(ring.cur) <= Ahead(ring.tail))'
        BY <3>2, <3>3, <3>4, <3>6 DEF Ahead, Dist
    <3> QED BY <1>5, <2>2, <3>3, <3>4, <3>5, <3>7 DEF RingOrder
  <2> QED BY <2>1, <2>2
<1> QED BY <1>6, <1>8, <1>9 DEF GInv

LEMMA TransmitStep == ASSUME GInv, Transmit PROVE GInv'
<1>1. /\ RingTypes /\ RingOrder /\ FillInv /\ OutInv /\ kern.hw # kern.head
      /\ ring' = ring /\ th' = th /\ out' = out /\ late' = late /\ main' = main
    BY DEF GInv, Transmit, nvme
<1>2. /\ ring.cur \in Pos /\ ring.tail \in Pos /\ kern.head \in Pos /\ kern.hw \in Pos
    BY <1>1, StateOf
<1>w. PICK w : w = (kern.hw + 1) % TxSlots OBVIOUS
<1>3. w \in Pos /\ \A x \in Pos : x # kern.hw => Dist(w, x) = Dist(kern.hw, x) - 1
    BY <1>2, <1>w, DistNext
<1>4. kern' = [kern EXCEPT !.hw = w] BY <1>w DEF Transmit
<1>5. kern'.hw = w /\ kern'.head = kern.head /\ kern' \in [head : Pos, hw : Pos]
    BY <1>1, <1>3, <1>4 DEF RingTypes
<1>6. RingTypes' BY <1>1, <1>5 DEF RingTypes
<1>7. Dist(kern.hw, kern.head) > 0 /\ Dist(kern.hw, kern.hw) = 0
  <2>1. Dist(kern.hw, kern.head) = IF kern.hw <= kern.head THEN kern.head - kern.hw
                                   ELSE kern.head - kern.hw + TxSlots
      BY <1>2, DistIs
  <2>2. /\ kern.hw \in Int /\ 0 <= kern.hw /\ kern.hw < TxSlots
        /\ kern.head \in Int /\ 0 <= kern.head /\ kern.head < TxSlots /\ TxSlots \in Int
      BY <1>2, PosRange
  <2>3. Dist(kern.hw, kern.hw) = kern.hw - kern.hw BY <1>2, <2>2, DistIs
  <2> QED BY <1>1, <2>1, <2>2, <2>3
<1>8. ASSUME NEW x \in Pos, NEW y \in Pos, Ahead(kern.head) <= Ahead(x), Ahead(x) <= Ahead(y)
      PROVE  Dist(w, x) <= Dist(w, y)
  <2>1. Dist(kern.hw, x) \in Nat /\ Dist(kern.hw, y) \in Nat /\ Dist(kern.hw, kern.head) \in Nat
      BY <1>2, DistIs
  <2>2. Dist(kern.hw, x) > 0 /\ Dist(kern.hw, y) > 0 BY <1>7, <1>8, <2>1 DEF Ahead
  <2>3. x # kern.hw /\ y # kern.hw BY <1>7, <2>1, <2>2
  <2>4. Dist(w, x) = Dist(kern.hw, x) - 1 /\ Dist(w, y) = Dist(kern.hw, y) - 1 BY <1>3, <2>3
  <2> QED BY <1>8, <2>1, <2>4 DEF Ahead
<1>9. Ahead(kern.head) <= Ahead(kern.head)
  <2>1. Dist(kern.hw, kern.head) \in Nat BY <1>2, DistIs
  <2> QED BY <2>1 DEF Ahead
<1>10. RingOrder'
  <2>1. Dist(w, kern.head) <= Dist(w, ring.tail) BY <1>1, <1>2, <1>8, <1>9 DEF RingOrder
  <2>2. ASSUME th.pc \in {"top", "read", "fill"}
        PROVE  /\ Dist(w, kern.head) <= Dist(w, ring.cur) /\ Dist(w, ring.cur) <= Dist(w, ring.tail)
               /\ ring.head = kern.head
      BY <1>1, <1>2, <1>8, <1>9, <2>2 DEF RingOrder
  <2>3. /\ (Ahead(kern.head) <= Ahead(ring.tail))' <=> Dist(w, kern.head) <= Dist(w, ring.tail)
        /\ (Ahead(kern.head) <= Ahead(ring.cur))' <=> Dist(w, kern.head) <= Dist(w, ring.cur)
        /\ (Ahead(ring.cur) <= Ahead(ring.tail))' <=> Dist(w, ring.cur) <= Dist(w, ring.tail)
        /\ nm_ring_space' = nm_ring_space
      BY <1>1, <1>5 DEF Ahead, Dist, nm_ring_space
  <2> QED BY <1>1, <1>5, <2>1, <2>2, <2>3 DEF RingOrder
<1>11. FillInv' BY <1>1 DEF FillInv, FillFits
<1>12. OutInv' BY <1>1 DEF OutInv
<1> QED BY <1>6, <1>10, <1>11, <1>12 DEF GInv

\* The steps of the device, of the signal and of main().
LEMMA OtherStep ==
    ASSUME GInv, Signal \/ Close \/ (\E vb \in Index : Complete(vb)) \/ UNCHANGED gvars
    PROVE  GInv'
<1>1. /\ RingTypes /\ RingOrder /\ FillInv /\ OutInv
      /\ ring' = ring /\ kern' = kern /\ th' = th
      /\ out' \subseteq out /\ late' \subseteq late
      /\ main' = "closed" => th.pc = "done"
    BY DEF GInv, OutInv, Signal, Close, Complete, gvars, nvme
<1>2. RingTypes' BY <1>1 DEF RingTypes
<1>3. RingOrder' BY <1>1 DEF RingOrder, Ahead, Dist, nm_ring_space
<1>4. FillInv' BY <1>1 DEF FillInv, FillFits
<1>5. OutInv' BY <1>1 DEF OutInv
<1> QED BY <1>2, <1>3, <1>4, <1>5 DEF GInv

LEMMA GInitial == ASSUME GInit PROVE GInv
<1>1. /\ ring \in [head : Pos, cur : Pos, tail : Pos] /\ kern \in [head : Pos, hw : Pos]
      /\ ring.head = 0 /\ ring.cur = 0 /\ kern.head = 0 /\ kern.hw = 0
      /\ ring.tail = TxSlots - 1
    BY GenBasics DEF GInit
<1>2. th \in ThreadRec /\ th.pc = "top" /\ th.space = 0 /\ th.filled = 0 /\ out = {} /\ late = {}
    BY GenBasics DEF GInit, ThreadRec
<1>3. RingTypes BY <1>1, <1>2 DEF RingTypes
<1>4. Ahead(kern.head) <= Ahead(ring.tail) /\ ring.cur = kern.head /\ ring.head = kern.head
  <2>1. Dist(0, 0) = 0 BY GenBasics, DistIs
  <2>2. Dist(0, ring.tail) \in Nat BY <1>1, GenBasics, DistIs
  <2> QED BY <1>1, <2>1, <2>2 DEF Ahead
<1>5. Ahead(kern.head) <= Ahead(kern.head)
  <2>1. Dist(0, 0) = 0 BY GenBasics, DistIs
  <2> QED BY <1>1, <2>1 DEF Ahead
<1>6. RingOrder BY <1>2, <1>4, <1>5 DEF RingOrder
<1>7. FillInv BY <1>2 DEF FillInv, FillFits
<1>8. OutInv BY <1>2 DEF OutInv, GInit
<1> QED BY <1>3, <1>6, <1>7, <1>8 DEF GInv

LEMMA GInvariant == GSpec => []GInv
<1>1. GInit => GInv BY GInitial
<1>2. GInv /\ [GNext]_gvars => GInv'
    BY StartStep, ReadStep, FillStep, SyncStep, TransmitStep, OtherStep, Zenon
    DEF GNext, thread_body, Ended
<1> QED BY <1>1, <1>2, PTL DEF GSpec

(* What thread_body() takes for its space is free behind head: it lies     *)
(* between cur and tail, and cur never falls behind the head the kernel    *)
(* knows.                                                                  *)
THEOREM SpaceIsFreeTheorem == GSpec => []SpaceIsFree
<1>1. ASSUME GInv PROVE SpaceIsFree
  <2> SUFFICES ASSUME th.pc \in {"read", "fill"}
               PROVE  th.space <= Dist(ring.head, ring.tail)
      BY DEF SpaceIsFree
  <2>1. /\ RingTypes /\ ring.head = kern.head /\ th.space = Dist(ring.cur, ring.tail)
        /\ Dist(kern.hw, ring.head) <= Dist(kern.hw, ring.cur)
        /\ Dist(kern.hw, ring.cur) <= Dist(kern.hw, ring.tail)
        /\ Dist(kern.hw, ring.head) <= Dist(kern.hw, ring.tail)
      BY <1>1 DEF GInv, RingOrder, Ahead, nm_ring_space
  <2>2. ring.head \in Pos /\ ring.cur \in Pos /\ ring.tail \in Pos /\ kern.hw \in Pos
      BY <2>1, StateOf
  <2>3. /\ Dist(ring.cur, ring.tail) = Dist(kern.hw, ring.tail) - Dist(kern.hw, ring.cur)
        /\ Dist(ring.head, ring.tail) = Dist(kern.hw, ring.tail) - Dist(kern.hw, ring.head)
      BY <2>1, <2>2, DistBetween
  <2>4. /\ Dist(kern.hw, ring.tail) \in Nat /\ Dist(kern.hw, ring.cur) \in Nat
        /\ Dist(kern.hw, ring.head) \in Nat
      BY <2>2, DistIs
  <2> QED BY <2>1, <2>3, <2>4
<1> QED BY <1>1, GInvariant, PTL

(* thread_body(): when the space holds all the batches or is no multiple   *)
(* of the batch, the packets of an iteration fit into it.                  *)
THEOREM FillFitsTheorem == GSpec => []FillFits
<1>1. GInv => FillFits BY DEF GInv, FillInv
<1> QED BY <1>1, GInvariant, PTL

(* main() closes the devices when the thread has polled each command it    *)
(* had issued.                                                             *)
THEOREM NoReadAfterCloseTheorem == GSpec => []NoReadAfterClose
<1>1. GInv => NoReadAfterClose BY DEF GInv, OutInv, NoReadAfterClose
<1> QED BY <1>1, GInvariant, PTL

\* Without fake packets: the iods that the first loop has assigned so far, and
\* those that the second one is going to poll.
IssuedInv ==
    ~fake => \A v \in Nat : \/ th.pc = "read" /\ v < th.vb
                            \/ th.pc = "fill" /\ v < th.nvbatch
                            => v \in issued

(* thread_body() with an NVMe device polls only iods that a read has been  *)
(* assigned to, in every iteration: the loop that reads and the one that   *)
(* polls run over the same commands.  (With fake packets it polls iods     *)
(* that nothing was assigned to.)                                          *)
THEOREM PollsIssuedTheorem == GSpec => [](~fake => PollsIssued)
<1>1. GInit => IssuedInv BY DEF GInit, IssuedInv
<1>2. GInv /\ IssuedInv /\ [GNext]_gvars => IssuedInv'
  <2> SUFFICES ASSUME GInv, IssuedInv, [GNext]_gvars PROVE IssuedInv'
      BY Zenon
  <2>f. fake' = fake
      BY Zenon DEF GNext, thread_body, Start, Read, Fill, Sync, Transmit, Signal, Close, Ended,
             Complete, gvars
  <2> SUFFICES ASSUME ~fake PROVE IssuedInv' BY <2>f DEF IssuedInv
  <2>1. RingTypes /\ FillInv BY DEF GInv
  <2>2. CASE Start
    <3>1. th'.vb = 0 /\ th'.pc # "fill"
        BY <2>1, <2>2 DEF Start, RingTypes, ThreadRec
    <3> QED BY <3>1 DEF IssuedInv
  <2>3. CASE Read
    <3>1. /\ th.pc = "read" /\ th.vb \in Nat /\ th.nvbatch \in Nat
          /\ issued' = issued \cup {th.vb}
      <4>1. th.pc = "read" /\ issued' = issued \cup {th.vb} BY <2>3 DEF Read
      <4>2. th.vb \in Index /\ th.nvbatch \in 0 .. NvBatch BY <2>1, StateOf
      <4>3. th.vb \in Nat /\ th.nvbatch \in Nat BY <4>2, GenBasics DEF Index
      <4> QED BY <4>1, <4>3
    <3>2. \A v \in Nat : v <= th.vb => v \in issued' BY <3>1 DEF IssuedInv
    <3>3. CASE Last
      <4>1. th'.pc = "fill" /\ th'.nvbatch = th.vb + 1
          BY <2>1, <2>3, <3>3 DEF Read, Last, RingTypes, ThreadRec
      <4> QED BY <3>1, <3>2, <4>1 DEF IssuedInv
    <3>4. CASE ~Last
      <4>1. th'.pc = "read" /\ th'.vb = th.vb + 1
          BY <2>1, <2>3, <3>4 DEF Read, RingTypes, ThreadRec
      <4> QED BY <3>1, <3>2, <4>1 DEF IssuedInv
    <3> QED BY <3>3, <3>4
  <2>4. CASE Fill
    <3>1. th.pc = "fill" /\ issued' = issued BY <2>4 DEF Fill
    <3>2. th'.pc \in {"fill", "sync"} /\ th'.nvbatch = th.nvbatch
        BY <2>1, <2>4 DEF Fill, RingTypes, ThreadRec
    <3> QED BY <3>1, <3>2 DEF IssuedInv
  <2>5. CASE Sync
    <3>1. th' = [th EXCEPT !.pc = "top"] \/ th' = [th EXCEPT !.pc = "done"]
        BY <2>5, Zenon DEF Sync
    <3>2. th'.pc \in {"top", "done"} BY <2>1, <3>1 DEF RingTypes, ThreadRec
    <3> QED BY <3>2 DEF IssuedInv
  <2>6. CASE th' = th /\ issued' = issued BY <2>6 DEF IssuedInv
  <2>7. Transmit \/ Signal \/ Close \/ Ended \/ UNCHANGED gvars
        \/ (\E vb \in Index : Complete(vb))
        => th' = th /\ issued' = issued
      BY DEF Transmit, Signal, Close, Ended, Complete, gvars, nvme
  <2> QED BY <2>2, <2>3, <2>4, <2>5, <2>6, <2>7, Zenon DEF GNext, thread_body
<1>3. GInv /\ IssuedInv => (~fake => PollsIssued)
  <2> SUFFICES ASSUME GInv, IssuedInv, ~fake, th.pc = "fill" PROVE th.vb \in issued
      BY DEF PollsIssued
  <2>1. th.vb \in Index /\ th.vb < th.nvbatch BY StateOf DEF GInv, FillInv
  <2>2. th.vb \in Nat BY <2>1, GenBasics, Zenon
  <2> QED BY <2>1, <2>2 DEF IssuedInv
<1> QED BY <1>1, <1>2, <1>3, GInvariant, PTL DEF GSpec
------------------------------------------------------------------------------
(* What store leaves on the device and what generator reads from it, for   *)
(* every block size, every batch of the two programs, every range and      *)
(* number of threads.                                                      *)

LEMMA StoreBasics ==
    /\ PktUnits \in Nat /\ PktUnits > 0 /\ MaxBatch \in Nat
    /\ \A blk \in BlockUnits : /\ blk \in Nat /\ blk > 0
                               /\ blk % PktUnits = 0 \/ PktUnits % blk = 0
    /\ LbaStart \in Nat /\ LbaEnd \in Nat /\ LbaStart <= LbaEnd
BY StoreAssumption, LbaAssumption

\* Factors can be compared instead of products.
LEMMA Factors ==
    ASSUME NEW c \in Nat, c > 0, NEW a \in Int, NEW b \in Int
    PROVE  (c * a <= c * b => a <= b) /\ (c * a < c * b => a < b)
<1>1. ASSUME b < a PROVE c * b < c * a
  <2>1. PICK d \in Nat : a = b + 1 + d
    <3>1. a - b - 1 \in Nat /\ a = b + 1 + (a - b - 1) BY <1>1
    <3> QED BY <3>1
  <2>2. c * a = c * b + c + c * d BY <2>1
  <2>3. c * d \in Nat /\ c * b \in Int OBVIOUS
  <2> QED BY <2>2, <2>3
<1>2. c * a \in Int /\ c * b \in Int OBVIOUS
<1>3. ASSUME c * a <= c * b PROVE a <= b BY <1>1, <1>2, <1>3
<1>4. ASSUME c * a < c * b PROVE a < b
  <2>1. a <= b BY <1>1, <1>2, <1>4
  <2>2. a # b BY <1>2, <1>4
  <2> QED BY <2>1, <2>2
<1> QED BY <1>3, <1>4

LEMMA Divides ==
    ASSUME NEW a \in Nat, NEW b \in Nat, b > 0, a % b = 0
    PROVE  \E c \in Nat : a = b * c
<1>1. a \div b \in Nat /\ a = b * (a \div b) + (a % b) BY DivMod
<1>2. a = b * (a \div b)
  <2> DEFINE q == a \div b
  <2>1. q \in Nat /\ a = b * q + 0 BY <1>1
  <2> HIDE DEF q
  <2>2. b * q \in Nat BY <2>1
  <2>3. a = b * q BY <2>1, <2>2
  <2> QED BY <2>3 DEF q
<1> QED BY <1>1, <1>2

\* A quotient is what its product says.
LEMMA Quotient ==
    ASSUME NEW b \in Nat, b > 0, NEW c \in Nat
    PROVE  (b * c) \div b = c
<1> DEFINE q == (b * c) \div b
           r == (b * c) % b
<1>1. b * c \in Nat OBVIOUS
<1>2. q \in Nat /\ r \in Nat /\ r < b /\ b * c = b * q + r BY <1>1, DivMod
<1> HIDE DEF q, r
<1>3. b * q \in Nat /\ b * (q + 1) = b * q + b BY <1>2
<1>4. b * q <= b * c /\ b * c < b * (q + 1) BY <1>1, <1>2, <1>3
<1>5. q <= c /\ c < q + 1 BY <1>2, <1>4, Factors
<1> QED BY <1>2, <1>5 DEF q

\* What one write of store covers is a whole number of packets, no more than
\* its batch.
LEMMA WriteSize ==
    ASSUME NEW blk \in BlockUnits, NEW b \in Nat
    PROVE  /\ (PktUnits * b) \div blk \in Nat
           /\ \E w \in 0 .. b : ((PktUnits * b) \div blk) * blk = PktUnits * w
<1> DEFINE q == (PktUnits * b) \div blk
           r == (PktUnits * b) % blk
<1>1. blk \in Nat /\ blk > 0 /\ PktUnits \in Nat /\ PktUnits > 0 BY StoreBasics
<1>2. PktUnits * b \in Nat BY <1>1
<1>3. q \in Nat /\ r \in Nat /\ PktUnits * b = blk * q + r BY <1>1, <1>2, DivMod
<1>4. CASE blk % PktUnits = 0
  <2>1. PICK c \in Nat : blk = PktUnits * c BY <1>1, <1>4, Divides
  <2> HIDE DEF q, r
  <2>2. c * q \in Nat /\ q * blk = PktUnits * (c * q) /\ blk * q = PktUnits * (c * q)
      BY <1>1, <1>3, <2>1
  <2>3. PktUnits * (c * q) <= PktUnits * b
    <3>1. blk * q \in Nat BY <1>1, <1>3
    <3> QED BY <1>3, <2>2, <3>1
  <2>4. c * q <= b BY <1>1, <2>2, <2>3, Factors
  <2>5. c * q \in 0 .. b BY <2>2, <2>4
  <2> QED BY <1>3, <2>2, <2>5 DEF q
<1>5. CASE PktUnits % blk = 0
  <2>1. PICK c \in Nat : PktUnits = blk * c BY <1>1, <1>5, Divides
  <2>2. PktUnits * b = blk * (c * b) /\ c * b \in Nat BY <1>1, <2>1
  <2>3. q = c * b BY <1>1, <2>2, Quotient
  <2> HIDE DEF q, r
  <2>4. q * blk = PktUnits * b BY <1>1, <2>2, <2>3
  <2>5. b \in 0 .. b OBVIOUS
  <2> QED BY <1>3, <2>4, <2>5 DEF q
<1> QED BY <1>4, <1>5, StoreBasics

\* A read of generator covers its batch, when a packet is several blocks.
LEMMA ReadSize ==
    ASSUME NEW blk \in BlockUnits, blk % PktUnits # 0, NEW g \in Nat, g > 0
    PROVE  NM_BATCH_TO_NBLOCKS(g, blk) * blk = PktUnits * g
<1>1. /\ blk \in Nat /\ blk > 0 /\ PktUnits \in Nat /\ PktUnits > 0 /\ PktUnits % blk = 0
    BY StoreBasics
<1>2. PICK c \in Nat : PktUnits = blk * c BY <1>1, Divides
<1>3. PktUnits * g = blk * (c * g) /\ c * g \in Nat BY <1>1, <1>2
<1>4. (PktUnits * g) \div blk = c * g BY <1>1, <1>3, Quotient
<1>5. PktUnits * g >= blk
  <2>1. c > 0 BY <1>1, <1>2
  <2>2. c * g >= 1
    <3>1. c * g # 0 BY <2>1
    <3> QED BY <1>3, <3>1
  <2>3. blk * 1 <= blk * (c * g) BY <1>1, <1>3, <2>2
  <2>4. blk * 1 = blk BY <1>1
  <2> QED BY <1>1, <1>3, <2>3, <2>4
<1> QED BY <1>1, <1>3, <1>4, <1>5 DEF NM_BATCH_TO_NBLOCKS

\* D is m packets, one after the other, from unit F on.
Packets(D, F, m) ==
    /\ \A k \in 0 .. m - 1 : F + PktUnits * k \in D
    /\ \A p \in D : \E k \in 0 .. m - 1 : p = F + PktUnits * k

\* A write behind the m packets adds w of them.
LEMMA Written ==
    ASSUME NEW F \in Nat, NEW D, NEW m \in Nat, Packets(D, F, m),
           NEW b \in Nat, NEW w \in 0 .. b,
           NEW from, from = F + PktUnits * m, NEW to, to = from + PktUnits * w
    PROVE  Packets({p \in D : p + PktUnits <= from \/ p >= to}
                     \cup {p \in {from + PktUnits * i : i \in 0 .. b - 1} : p + PktUnits <= to},
                   F, m + w)
<1> DEFINE old == {p \in D : p + PktUnits <= from \/ p >= to}
           new == {p \in {from + PktUnits * i : i \in 0 .. b - 1} : p + PktUnits <= to}
<1>1. PktUnits \in Nat /\ PktUnits > 0 /\ w \in Nat /\ w <= b BY StoreBasics
<1>2. from \in Nat /\ to \in Nat /\ PktUnits * m \in Nat /\ PktUnits * w \in Nat BY <1>1
<1>3. ASSUME NEW k \in 0 .. (m + w) - 1 PROVE F + PktUnits * k \in old \cup new
  <2>1. k \in Nat /\ PktUnits * k \in Nat BY <1>1
  <2>2. CASE k < m
    <3>1. F + PktUnits * k \in D BY <2>1, <2>2 DEF Packets
    <3>2. PktUnits * k + PktUnits <= PktUnits * m
      <4>1. k + 1 <= m /\ PktUnits * (k + 1) = PktUnits * k + PktUnits BY <1>1, <2>1, <2>2
      <4>2. PktUnits * (k + 1) <= PktUnits * m BY <1>1, <2>1, <4>1
      <4> QED BY <4>1, <4>2
    <3>3. (F + PktUnits * k) + PktUnits <= from BY <1>1, <1>2, <2>1, <3>2
    <3> QED BY <3>1, <3>3
  <2>3. CASE ~(k < m)
    <3>1. PICK i \in Nat : k = m + i /\ i < w
      <4>1. k - m \in Nat /\ k = m + (k - m) /\ k - m < w BY <1>1, <2>1, <2>3
      <4> QED BY <4>1
    <3>2. PktUnits * k = PktUnits * m + PktUnits * i /\ PktUnits * i \in Nat BY <1>1, <3>1
    <3>3. F + PktUnits * k = from + PktUnits * i BY <1>2, <2>1, <3>2
    <3>4. PktUnits * i + PktUnits <= PktUnits * w
      <4>1. i + 1 <= w /\ PktUnits * (i + 1) = PktUnits * i + PktUnits BY <1>1, <3>1
      <4>2. PktUnits * (i + 1) <= PktUnits * w BY <1>1, <3>1, <4>1
      <4> QED BY <4>1, <4>2
    <3>5. (from + PktUnits * i) + PktUnits <= to BY <1>1, <1>2, <3>2, <3>4
    <3>6. i \in 0 .. b - 1 BY <1>1, <3>1
    <3> QED BY <3>3, <3>5, <3>6
  <2> QED BY <2>2, <2>3
<1>4. ASSUME NEW p \in old \cup new PROVE \E k \in 0 .. (m + w) - 1 : p = F + PktUnits * k
  <2>1. CASE p \in old
    <3>1. PICK k \in 0 .. m - 1 : p = F + PktUnits * k BY <2>1 DEF Packets
    <3>2. k \in 0 .. (m + w) - 1 BY <1>1
    <3> QED BY <3>1, <3>2
  <2>2. CASE p \in new
    <3>1. PICK i \in 0 .. b - 1 : p = from + PktUnits * i /\ p + PktUnits <= to BY <2>2
    <3>2. PktUnits * i \in Nat /\ PktUnits * (i + 1) = PktUnits * i + PktUnits BY <1>1
    <3>3. PktUnits * (i + 1) <= PktUnits * w BY <1>1, <1>2, <3>1, <3>2
    <3>4. i + 1 <= w BY <1>1, <3>3, Factors
    <3>5. m + i \in 0 .. (m + w) - 1 BY <1>1, <3>4
    <3>6. PktUnits * (m + i) = PktUnits * m + PktUnits * i BY <1>1
    <3>7. p = F + PktUnits * (m + i) BY <1>1, <1>2, <3>1, <3>2, <3>6
    <3> QED BY <3>5, <3>7
  <2> QED BY <2>1, <2>2
<1> HIDE DEF old, new
<1>5. Packets(old \cup new, F, m + w) BY <1>3, <1>4 DEF Packets
<1> QED BY <1>5 DEF old, new

\* A stored packet, once it lies a whole number of packets behind the first.
LEMMA PacketAt ==
    ASSUME NEW F \in Nat, NEW D, NEW m \in Nat, Packets(D, F, m),
           NEW k \in Int, NEW p, p = F + PktUnits * k, F <= p, p + PktUnits <= F + PktUnits * m
    PROVE  p \in D
<1>1. PktUnits \in Nat /\ PktUnits > 0 BY StoreBasics
<1>2. PktUnits * k \in Int /\ PktUnits * m \in Int BY <1>1
<1>3. PktUnits * 0 = 0 /\ PktUnits * (k + 1) = PktUnits * k + PktUnits BY <1>1
<1>4. PktUnits * 0 <= PktUnits * k /\ PktUnits * (k + 1) <= PktUnits * m BY <1>1, <1>2, <1>3
<1>5. 0 <= k /\ k + 1 <= m BY <1>1, <1>4, Factors
<1>6. k \in 0 .. m - 1 BY <1>5
<1> QED BY <1>6 DEF Packets

StoreTypes ==
    /\ geo \in [blk : BlockUnits, batch : Nat \ {0}, gen : Nat \ {0}]
    /\ store \in [pc : {"write", "done", "failed"}, lba : Nat]

\* Up to its lba store has left packets; generator reads as many blocks as the
\* macro says.
StoreInv ==
    /\ StoreTypes
    /\ opt.app = "generator" =>
          /\ opt.nblocks = NM_BATCH_TO_NBLOCKS(geo.gen, geo.blk)
          /\ \E m \in Nat : /\ store.lba * geo.blk = LbaStart * geo.blk + PktUnits * m
                            /\ Packets(disk, LbaStart * geo.blk, m)
          /\ store.lba <= LbaEnd + nblocks
          /\ store.pc = "done" => store.lba >= LbaEnd

AtPacket(l) == \E i \in Nat : l * geo.blk = PktUnits * i

\* Where a packet is several blocks, the sequential walk of generator goes
\* from packet to packet.
WalkInv ==
    opt.app = "generator" /\ opt.walk = "seq" /\ geo.blk % PktUnits # 0 =>
        \A t \in Threads : AtPacket(Range(t).from) => AtPacket(lba[t]) /\ AtPacket(cmd[t].at)

LEMMA StoreInitial == ASSUME PInit PROVE StoreInv
<1>1. /\ geo \in [blk : BlockUnits, batch : 1 .. MaxBatch, gen : 1 .. MaxBatch]
      /\ store = [pc |-> IF opt.app = "generator" THEN "write" ELSE "done", lba |-> LbaStart]
      /\ disk = {} /\ LbaStart \in Nat /\ LbaEnd \in Nat /\ LbaStart <= LbaEnd
      /\ opt.app = "generator" => opt.nblocks = NM_BATCH_TO_NBLOCKS(geo.gen, geo.blk)
    BY StoreBasics DEF PInit
<1>2. StoreTypes BY <1>1 DEF StoreTypes
<1>3. ASSUME opt.app = "generator"
      PROVE  /\ store.lba * geo.blk = LbaStart * geo.blk + PktUnits * 0
             /\ Packets(disk, LbaStart * geo.blk, 0)
             /\ store.lba <= LbaEnd + nblocks /\ store.pc = "write"
  <2>1. store.lba = LbaStart /\ store.pc = "write" BY <1>1, <1>3
  <2>2. geo.blk \in BlockUnits /\ geo.blk \in Nat /\ geo.batch \in Nat
      BY <1>2, StoreBasics DEF StoreTypes
  <2>3. LbaStart * geo.blk \in Nat /\ PktUnits * 0 = 0 BY <1>1, <2>2, StoreBasics
  <2>4. nblocks \in Nat BY <2>2, WriteSize DEF nblocks
  <2>5. Packets(disk, LbaStart * geo.blk, 0) BY <1>1 DEF Packets
  <2>6. store.lba <= LbaEnd + nblocks BY <1>1, <2>1, <2>4
  <2> QED BY <2>1, <2>3, <2>5, <2>6
<1> QED BY <1>1, <1>2, <1>3 DEF StoreInv

LEMMA StoreWriteStep == ASSUME StoreInv, StoreWrite PROVE StoreInv'
<1>1. /\ StoreTypes /\ geo' = geo /\ opt' = opt /\ store.pc = "write" /\ nblocks' = nblocks
    BY DEF StoreInv, StoreWrite, vars, nblocks
<1>2. /\ geo.blk \in BlockUnits /\ geo.blk \in Nat /\ geo.blk > 0 /\ geo.batch \in Nat
      /\ store.lba \in Nat /\ LbaStart \in Nat /\ LbaEnd \in Nat /\ PktUnits \in Nat
    BY <1>1, StoreBasics DEF StoreTypes
<1>3. nblocks \in Nat BY <1>2, WriteSize DEF nblocks
<1>4. CASE disk' = disk /\ store'.lba = store.lba /\ StoreTypes'
           /\ (store'.pc = "done" => store.lba >= LbaEnd)
    BY <1>1, <1>4 DEF StoreInv
<1>5. CASE \/ store' = [store EXCEPT !.pc = "failed"] /\ disk' = disk
           \/ store' = [store EXCEPT !.pc = "done"] /\ disk' = disk /\ store.lba >= LbaEnd
  <2>1. /\ store'.lba = store.lba /\ store' \in [pc : {"write", "done", "failed"}, lba : Nat]
        /\ disk' = disk
        /\ store'.pc = "done" => store.lba >= LbaEnd
      BY <1>1, <1>5 DEF StoreTypes
  <2>2. StoreTypes' BY <1>1, <2>1 DEF StoreTypes
  <2> QED BY <1>4, <2>1, <2>2
<1>6. CASE /\ store.lba < LbaEnd /\ disk' = Write(store.lba)
           /\ store' = [store EXCEPT !.lba = @ + nblocks]
  <2>1. PICK l : l = store.lba + nblocks OBVIOUS
  <2>2. l \in Nat /\ l <= LbaEnd + nblocks BY <1>2, <1>3, <1>6, <2>1
  <2>3. /\ store' \in [pc : {"write", "done", "failed"}, lba : Nat]
        /\ store'.lba = l /\ store'.pc = "write"
      BY <1>1, <1>6, <2>1, <2>2 DEF StoreTypes
  <2>4. StoreTypes' BY <1>1, <2>3 DEF StoreTypes
  <2>5. ASSUME opt.app = "generator"
        PROVE  \E m \in Nat : /\ l * geo.blk = LbaStart * geo.blk + PktUnits * m
                              /\ Packets(disk', LbaStart * geo.blk, m)
    <3>1. PICK m \in Nat : /\ store.lba * geo.blk = LbaStart * geo.blk + PktUnits * m
                           /\ Packets(disk, LbaStart * geo.blk, m)
        BY <2>5 DEF StoreInv
    <3>2. PICK w \in 0 .. geo.batch : nblocks * geo.blk = PktUnits * w
        BY <1>2, WriteSize, Zenon DEF nblocks
    <3>3. PICK F \in Nat : F = LbaStart * geo.blk
      <4>1. LbaStart * geo.blk \in Nat BY <1>2
      <4> QED BY <4>1
    <3>4. PICK from : from = store.lba * geo.blk OBVIOUS
    <3>5. PICK to : to = (store.lba + nblocks) * geo.blk OBVIOUS
    <3>6. from = F + PktUnits * m BY <3>1, <3>3, <3>4
    <3>7. to = from + PktUnits * w
      <4>1. (store.lba + nblocks) * geo.blk = store.lba * geo.blk + nblocks * geo.blk
          BY <1>2, <1>3
      <4> QED BY <3>2, <3>4, <3>5, <4>1
    <3>8. disk' = {p \in disk : p + PktUnits <= from \/ p >= to}
                    \cup {p \in {from + PktUnits * i : i \in 0 .. geo.batch - 1} :
                              p + PktUnits <= to}
        BY <1>6, <3>4, <3>5 DEF Write, Stride
    <3>9. Packets(disk, F, m) BY <3>1, <3>3
    <3>10. Packets(disk', F, m + w)
      <4>1. PICK b \in Nat : b = geo.batch BY <1>2
      <4>2. w \in 0 .. b BY <4>1
      <4>3. disk' = {p \in disk : p + PktUnits <= from \/ p >= to}
                      \cup {p \in {from + PktUnits * i : i \in 0 .. b - 1} :
                                p + PktUnits <= to}
          BY <3>8, <4>1, Zenon
      <4>4. Packets({p \in disk : p + PktUnits <= from \/ p >= to}
                      \cup {p \in {from + PktUnits * i : i \in 0 .. b - 1} :
                                p + PktUnits <= to},
                    F, m + w)
          BY <3>6, <3>7, <3>9, <4>2, Written, SMTT(30)
      <4> QED BY <4>3, <4>4, Zenon
    <3>11. l * geo.blk = F + PktUnits * (m + w) /\ m + w \in Nat
      <4>1. w \in Nat /\ PktUnits * (m + w) = PktUnits * m + PktUnits * w BY <1>2
      <4>2. PktUnits * m \in Nat /\ PktUnits * w \in Nat BY <1>2, <4>1
      <4>3. to = F + (PktUnits * m + PktUnits * w) BY <3>6, <3>7, <4>2
      <4> QED BY <2>1, <3>5, <4>1, <4>3
    <3> QED BY <3>3, <3>10, <3>11
  <2> QED BY <1>1, <2>2, <2>3, <2>4, <2>5 DEF StoreInv
<1> QED BY <1>5, <1>6 DEF StoreWrite

\* The next address of the sequential walk.
LEMMA NextAtPacket ==
    ASSUME NEW blk \in BlockUnits, blk % PktUnits # 0, NEW g \in Nat, g > 0,
           NEW l \in Nat, NEW i \in Nat, l * blk = PktUnits * i
    PROVE  \E j \in Nat : (l + NM_BATCH_TO_NBLOCKS(g, blk)) * blk = PktUnits * j
<1>1. blk \in Nat /\ PktUnits \in Nat BY StoreBasics
<1>2. PICK n \in Nat : n = NM_BATCH_TO_NBLOCKS(g, blk)
  <2>1. (PktUnits * g) \div blk \in Nat BY WriteSize
  <2>2. NM_BATCH_TO_NBLOCKS(g, blk) \in Nat BY <2>1 DEF NM_BATCH_TO_NBLOCKS
  <2> QED BY <2>2
<1>3. n * blk = PktUnits * g BY <1>2, ReadSize
<1>4. (l + n) * blk = l * blk + n * blk BY <1>1
<1>5. PktUnits * (i + g) = PktUnits * i + PktUnits * g /\ i + g \in Nat BY <1>1
<1>6. (l + n) * blk = PktUnits * (i + g) BY <1>3, <1>4, <1>5
<1> QED BY <1>2, <1>5, <1>6

LEMMA ReadStoredStep ==
    ASSUME TypeOK, StoreInv, WalkInv, NEW t \in Threads, NEW n \in Lengths(opt), ReadStored(t, n)
    PROVE  StoreInv' /\ WalkInv'
<1>1. /\ opt' = opt /\ geo' = geo /\ store' = store /\ disk' = disk /\ nblocks' = nblocks
    BY DEF ReadStored, Command, pvars, nblocks
<1>2. StoreInv' BY <1>1 DEF StoreInv, StoreTypes
<1>3. WalkInv'
  <2> SUFFICES ASSUME opt.app = "generator", opt.walk = "seq", geo.blk % PktUnits # 0,
                      NEW s \in Threads, AtPacket(Range(s).from)'
               PROVE  AtPacket(lba[s])' /\ AtPacket(cmd[s].at)'
      BY <1>1, Zenon DEF WalkInv
  <2>1. AtPacket(Range(s).from) BY <1>1 DEF AtPacket, Range
  <2>2. AtPacket(lba[s]) /\ AtPacket(cmd[s].at) BY <2>1 DEF WalkInv
  <2>3. /\ lba \in [Threads -> Nat] /\ cmd \in [Threads -> [at : Nat, nblocks : Nat]]
      BY DEF TypeOK
  <2>4. PICK l \in next_lba(opt, lba[t], Range(t), n) : lba' = [lba EXCEPT ![t] = l]
    <3>1. PICK m \in next_lba(opt, lba[t], Range(t), n) :
                  lba' = [lba EXCEPT ![t] = lba_var(opt, m)]
        BY Zenon DEF ReadStored, Command
    <3>2. lba_var(opt, m) = m BY DEF lba_var
    <3> QED BY <3>1, <3>2, Zenon
  <2>5. cmd' = [cmd EXCEPT ![t] = [at |-> lba[t], nblocks |-> n]] BY DEF ReadStored, Command
  <2>6. CASE s # t
    <3>1. lba'[s] = lba[s] /\ cmd'[s] = cmd[s] BY <2>3, <2>4, <2>5, <2>6, Zenon
    <3> QED BY <1>1, <2>2, <3>1, Zenon DEF AtPacket
  <2>7. CASE s = t
    <3>1. lba'[s] = l /\ cmd'[s].at = lba[s] BY <2>3, <2>4, <2>5, <2>7
    <3>2. l \in {lba[s] + n, Range(s).from} BY <2>4, <2>7 DEF next_lba, next_lba_once
    <3>3. n = NM_BATCH_TO_NBLOCKS(geo.gen, geo.blk) BY DEF Lengths, StoreInv
    <3>4. geo.blk \in BlockUnits /\ geo.gen \in Nat /\ geo.gen > 0 /\ lba[s] \in Nat
        BY <2>3 DEF StoreInv, StoreTypes
    <3>a. PICK i \in Nat : lba[s] * geo.blk = PktUnits * i BY <2>2, Zenon DEF AtPacket
    <3>b. \E j \in Nat : (lba[s] + NM_BATCH_TO_NBLOCKS(geo.gen, geo.blk)) * geo.blk = PktUnits * j
        BY <3>4, <3>a, NextAtPacket
    <3>5. AtPacket(lba[s] + n) BY <3>3, <3>b, Zenon DEF AtPacket
    <3>6. AtPacket(l) BY <2>1, <3>2, <3>5
    <3> QED BY <1>1, <2>2, <3>1, <3>6 DEF AtPacket
  <2> QED BY <2>6, <2>7
<1> QED BY <1>2, <1>3

LEMMA WalkInitial == ASSUME PInit PROVE WalkInv
<1>1. ASSUME opt.app = "generator", NEW t \in Threads
      PROVE  lba[t] = Range(t).from /\ cmd[t].at = 0
    BY <1>1 DEF PInit, Init, NoCmd, lba_var
<1>2. AtPacket(0)
  <2>1. geo.blk \in Nat BY StoreBasics DEF PInit
  <2>2. 0 * geo.blk = PktUnits * 0 BY <2>1, StoreBasics
  <2> QED BY <2>2 DEF AtPacket
<1> QED BY <1>1, <1>2 DEF WalkInv

\* The reads are those of LbaWalk: store changes none of its variables.
LEMMA StoreWalks == PSpec => Spec
<1>1. PInit => Init BY DEF PInit
<1>2. [PNext]_<<vars, pvars>> => [Next]_vars BY DEF PNext, StoreWrite, ReadStored, Next
<1> QED BY <1>1, <1>2, PTL DEF PSpec, Spec

LEMMA StoreInvariant == PSpec => [](TypeOK /\ StoreInv /\ WalkInv)
<1>1. PInit => StoreInv /\ WalkInv BY StoreInitial, WalkInitial
<1>2. TypeOK /\ StoreInv /\ WalkInv /\ [PNext]_<<vars, pvars>> => StoreInv' /\ WalkInv'
  <2> SUFFICES ASSUME TypeOK, StoreInv, WalkInv, [PNext]_<<vars, pvars>>
               PROVE  StoreInv' /\ WalkInv'
      OBVIOUS
  <2>1. CASE StoreWrite
    <3>1. WalkInv' BY <2>1 DEF StoreWrite, vars, WalkInv, AtPacket, Range
    <3> QED BY <2>1, <3>1, StoreWriteStep
  <2>2. CASE UNCHANGED <<vars, pvars>>
      BY <2>2 DEF vars, pvars, StoreInv, StoreTypes, nblocks, WalkInv, AtPacket, Range
  <2> QED BY <2>1, <2>2, ReadStoredStep DEF PNext
<1>3. RangeInv => TypeOK BY DEF RangeInv
<1> QED BY <1>1, <1>2, <1>3, StoreWalks, RangeInvariant, PTL DEF PSpec

(* When store ends without an error, its range is packets one after the    *)
(* other, whatever its batch and the block size of the device, and less    *)
(* than one write lies past the end.                                       *)
THEOREM StoreCoversRangeTheorem == PSpec => []StoreCoversRange
<1>1. ASSUME StoreInv PROVE StoreCoversRange
  <2> SUFFICES ASSUME store.pc = "done", opt.app = "generator"
               PROVE  LET from == LbaStart * geo.blk
                      IN  /\ \A p \in from .. (LbaEnd * geo.blk) - PktUnits :
                                (p - from) % PktUnits = 0 => p \in disk
                          /\ \A p \in disk : p < (LbaEnd + nblocks) * geo.blk
      BY DEF StoreCoversRange
  <2>1. PICK m \in Nat : /\ store.lba * geo.blk = LbaStart * geo.blk + PktUnits * m
                         /\ Packets(disk, LbaStart * geo.blk, m)
      BY <1>1 DEF StoreInv
  <2>2. /\ store.lba \in Nat /\ store.lba <= LbaEnd + nblocks /\ store.lba >= LbaEnd
        /\ geo.blk \in BlockUnits /\ geo.blk \in Nat /\ geo.blk > 0 /\ geo.batch \in Nat
      BY <1>1, StoreBasics DEF StoreInv, StoreTypes
  <2>3. /\ PktUnits \in Nat /\ PktUnits > 0 /\ LbaEnd \in Nat /\ LbaStart \in Nat
      BY StoreBasics
  <2>4. nblocks \in Nat BY <2>2, WriteSize DEF nblocks
  <2>5. PICK F \in Nat : F = LbaStart * geo.blk
    <3>1. LbaStart * geo.blk \in Nat BY <2>2, <2>3
    <3> QED BY <3>1
  <2>6. PICK e \in Nat : e = LbaEnd * geo.blk
    <3>1. LbaEnd * geo.blk \in Nat BY <2>2, <2>3
    <3> QED BY <3>1
  <2>7. PICK s \in Nat : s = store.lba * geo.blk
    <3>1. store.lba * geo.blk \in Nat BY <2>2
    <3> QED BY <3>1
  <2>8. PICK z \in Nat : z = (LbaEnd + nblocks) * geo.blk
    <3>1. (LbaEnd + nblocks) * geo.blk \in Nat BY <2>2, <2>3, <2>4
    <3> QED BY <3>1
  <2>9. e <= s /\ s <= z BY <2>2, <2>3, <2>4, <2>6, <2>7, <2>8
  <2>10. s = F + PktUnits * m /\ Packets(disk, F, m) BY <2>1, <2>5, <2>7
  <2>11. ASSUME NEW p \in F .. e - PktUnits, (p - F) % PktUnits = 0 PROVE p \in disk
    <3>1. p \in Nat /\ F <= p /\ p + PktUnits <= e /\ p - F \in Nat BY <2>3
    <3>2. PICK k \in Nat : p - F = PktUnits * k BY <2>3, <2>11, <3>1, Divides, Zenon
    <3>3. p = F + PktUnits * k
      <4>1. PktUnits * k \in Nat BY <2>3
      <4> QED BY <3>1, <3>2, <4>1
    <3>4. p + PktUnits <= F + PktUnits * m BY <2>3, <2>9, <2>10, <3>1
    <3> QED BY <2>10, <3>1, <3>3, <3>4, PacketAt
  <2>12. ASSUME NEW p \in disk PROVE p < z
    <3>1. PICK k \in 0 .. m - 1 : p = F + PktUnits * k BY <2>10 DEF Packets
    <3>2. PktUnits * k < PktUnits * m
      <4>1. k + 1 <= m /\ PktUnits * (k + 1) = PktUnits * k + PktUnits BY <2>3
      <4>2. PktUnits * (k + 1) <= PktUnits * m BY <2>3, <4>1
      <4>3. PktUnits * k \in Nat /\ PktUnits * m \in Nat BY <2>3
      <4> QED BY <2>3, <4>1, <4>2, <4>3
    <3>3. PktUnits * k \in Nat /\ PktUnits * m \in Nat BY <2>3
    <3> QED BY <2>9, <2>10, <3>1, <3>2, <3>3
  <2> QED BY <2>5, <2>6, <2>8, <2>11, <2>12
<1> QED BY <1>1, StoreInvariant, PTL

(* Each slot that generator reads, where store has written, is a packet    *)
(* with its descriptor: the batches of the two programs may differ, as     *)
(* long as the reads start at packets.                                     *)
THEOREM ReadsPacketsTheorem == PSpec => []ReadsPackets
<1>1. ASSUME TypeOK, StoreInv, WalkInv PROVE ReadsPackets
  <2> SUFFICES ASSUME NEW t \in Threads, opt.app = "generator",
                      \/ geo.blk % PktUnits = 0
                      \/ opt.walk = "seq" /\ Aligned(LbaStart) /\ Aligned(Range(t).from),
                      NEW p \in SlotsRead(t), Stored(p)
               PROVE  p \in disk
      BY DEF ReadsPackets
  <2>1. PICK m \in Nat : /\ store.lba * geo.blk = LbaStart * geo.blk + PktUnits * m
                         /\ Packets(disk, LbaStart * geo.blk, m)
      BY <1>1 DEF StoreInv
  <2>2. /\ geo.blk \in BlockUnits /\ geo.blk \in Nat /\ geo.blk > 0 /\ geo.gen \in Nat
        /\ PktUnits \in Nat /\ PktUnits > 0 /\ LbaStart \in Nat /\ cmd[t].at \in Nat
      BY <1>1, StoreBasics DEF StoreInv, StoreTypes, TypeOK
  <2>3. PICK F \in Nat : F = LbaStart * geo.blk
    <3>1. LbaStart * geo.blk \in Nat BY <2>2
    <3> QED BY <3>1
  <2>4. PICK a \in Nat : a = cmd[t].at * geo.blk
    <3>1. cmd[t].at * geo.blk \in Nat BY <2>2
    <3> QED BY <3>1
  <2>5. PICK b \in 0 .. geo.gen - 1 : p = a + PktUnits * b BY <2>4 DEF SlotsRead
  <2>6. F <= p /\ p + PktUnits <= F + PktUnits * m BY <2>1, <2>3 DEF Stored
  <2>7. \E d \in Int : a = F + PktUnits * d
    <3>1. CASE geo.blk % PktUnits = 0
      <4>1. PICK c \in Nat : geo.blk = PktUnits * c BY <2>2, <3>1, Divides, Zenon
      <4>2. PICK d \in Int : d = c * (cmd[t].at - LbaStart)
        <5>1. c * (cmd[t].at - LbaStart) \in Int BY <2>2
        <5> QED BY <5>1
      <4>3. a = PktUnits * (c * cmd[t].at) /\ F = PktUnits * (c * LbaStart)
          BY <2>2, <2>3, <2>4, <4>1
      <4>4. PktUnits * (c * cmd[t].at)
              = PktUnits * (c * LbaStart) + PktUnits * (c * (cmd[t].at - LbaStart))
          BY <2>2
      <4> QED BY <4>2, <4>3, <4>4
    <3>2. CASE geo.blk % PktUnits # 0
      <4>1. opt.walk = "seq" /\ Aligned(LbaStart) /\ Aligned(Range(t).from) BY <3>2
      <4>2. PICK j \in Nat : F = PktUnits * j BY <2>2, <2>3, <4>1, Divides, Zenon DEF Aligned
      <4>3. AtPacket(Range(t).from)
        <5>1. Range(t).from \in Nat
          <6>1. opt \in Options BY <1>1 DEF TypeOK
          <6> QED BY <6>1, RangeType DEF Range
        <5>2. Range(t).from * geo.blk \in Nat BY <2>2, <5>1
        <5> QED BY <2>2, <4>1, <5>2, Divides, Zenon DEF Aligned, AtPacket
      <4>4. PICK i \in Nat : a = PktUnits * i
          BY <1>1, <2>4, <3>2, <4>1, <4>3 DEF WalkInv, AtPacket
      <4>5. PktUnits * i = PktUnits * j + PktUnits * (i - j) /\ i - j \in Int
          BY <2>2, SMTT(30)
      <4> QED BY <4>2, <4>4, <4>5
    <3> QED BY <3>1, <3>2
  <2>8. PICK d \in Int : a = F + PktUnits * d BY <2>7
  <2>9. p = F + PktUnits * (d + b) /\ d + b \in Int
    <3>1. PktUnits * (d + b) = PktUnits * d + PktUnits * b /\ b \in Int BY <2>2
    <3>2. PktUnits * d \in Int /\ PktUnits * b \in Int BY <2>2
    <3> QED BY <2>5, <2>8, <3>1, <3>2
  <2>10. Packets(disk, F, m) BY <2>1, <2>3
  <2> QED BY <2>6, <2>9, <2>10, PacketAt
<1> QED BY <1>1, StoreInvariant, PTL
==============================================================================
