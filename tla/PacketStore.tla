----------------------------- MODULE PacketStore -----------------------------
(***************************************************************************)
(* What apps/store.c leaves on the NVMe device, and what the commands of   *)
(* apps/generator.c (module LbaWalk) then read from it.  store lays out    *)
(* packets of 2048 bytes, each with its length in a descriptor at its end  *)
(* (pkt_desc.h); generator takes the slots of a read for such packets.     *)
(* The other programs of LbaWalk do not look at what they read.            *)
(*                                                                         *)
(* Addresses on the device are in units that divide both a block and a     *)
(* packet.                                                                 *)
(***************************************************************************)
EXTENDS LbaWalk

CONSTANTS PktUnits,    \* 2048 bytes
          BlockUnits,  \* the block sizes
          MaxBatch     \* bound on -b of store and of generator

\* Blocks and packets are powers of two of bytes.
ASSUME StoreAssumption ==
    /\ {PktUnits, MaxBatch} \subseteq Nat \ {0}
    /\ BlockUnits \subseteq Nat \ {0}
    /\ \A blk \in BlockUnits : blk % PktUnits = 0 \/ PktUnits % blk = 0

VARIABLES geo,    \* blk, units of a block; batch of store; gen, batch of generator
          store,  \* store: pc, "write", "done" or "failed"; lba
          disk    \* the units at which a whole packet starts

pvars == <<geo, store, disk>>

\* nblocks of store, which may be 0.
nblocks == (PktUnits * geo.batch) \div geo.blk

NM_BATCH_TO_NBLOCKS(b, blk) ==
    IF PktUnits * b >= blk THEN (PktUnits * b) \div blk ELSE 1

PInit ==
    /\ Init
    /\ geo \in [blk : BlockUnits, batch : 1 .. MaxBatch, gen : 1 .. MaxBatch]
    /\ IF opt.app = "generator"
       THEN opt.nblocks = NM_BATCH_TO_NBLOCKS(geo.gen, geo.blk)
       ELSE geo.gen = 1 /\ geo.batch = 1
    /\ store = [pc |-> IF opt.app = "generator" THEN "write" ELSE "done", lba |-> LbaStart]
    /\ disk = {}

\* Mutant of Stride: the packets of a batch lie one unit too close.
StrideShort == PktUnits - 1

\* The distance of two packets in the buffer.
Stride == PktUnits

\* unvme_write() of the buffer with the packets built into it: the packets it
\* overwrites go, and those that are whole in the blocks written come.
Write(l) ==
    LET from == l * geo.blk
        to == (l + nblocks) * geo.blk
    IN  {p \in disk : p + PktUnits <= from \/ p >= to}
          \cup {p \in {from + Stride * b : b \in 0 .. geo.batch - 1} : p + PktUnits <= to}

\* Mutant of StoreWrite: the last write must end before lba_end.
StoreWriteEarly ==
    /\ store.pc = "write"
    /\ \/ /\ store.lba + nblocks < LbaEnd
          /\ \/ disk' = Write(store.lba) /\ store' = [store EXCEPT !.lba = @ + nblocks]
             \/ store' = [store EXCEPT !.pc = "failed"] /\ UNCHANGED disk
       \/ /\ store.lba + nblocks >= LbaEnd
          /\ store' = [store EXCEPT !.pc = "done"] /\ UNCHANGED disk
    /\ UNCHANGED <<vars, geo>>

\* One turn of the loop of store: while lba < lba_end, a write, which may fail.
StoreWrite ==
    /\ store.pc = "write"
    /\ \/ /\ store.lba < LbaEnd
          /\ \/ disk' = Write(store.lba) /\ store' = [store EXCEPT !.lba = @ + nblocks]
             \/ store' = [store EXCEPT !.pc = "failed"] /\ UNCHANGED disk
       \/ /\ store.lba >= LbaEnd
          /\ store' = [store EXCEPT !.pc = "done"] /\ UNCHANGED disk
    /\ UNCHANGED <<vars, geo>>

\* A command of one of the programs, once store has ended.
ReadStored(t, n) == store.pc # "write" /\ Command(t, n) /\ UNCHANGED pvars

PNext == StoreWrite \/ \E t \in Threads, n \in Lengths(opt) : ReadStored(t, n)

PSpec == PInit /\ [][PNext]_<<vars, pvars>>

------------------------------------------------------------------------------
Aligned(l) == (l * geo.blk) % PktUnits = 0

(***************************************************************************)
(* "write packets from 0x%lx to 0x%lx": when store ends without an error,  *)
(* whatever the batch and the block size, the whole range is packets, one  *)
(* after the other, and less than one write lies past its end.             *)
(***************************************************************************)
StoreCoversRange ==
    store.pc = "done" /\ opt.app = "generator" =>
        LET from == LbaStart * geo.blk
        IN  /\ \A p \in from .. (LbaEnd * geo.blk) - PktUnits :
                  (p - from) % PktUnits = 0 => p \in disk
            /\ \A p \in disk : p < (LbaEnd + nblocks) * geo.blk

\* The slots of the last command of a thread that its read covers.
SlotsRead(t) ==
    {p \in {cmd[t].at * geo.blk + PktUnits * b : b \in 0 .. geo.gen - 1} :
        p + PktUnits <= (cmd[t].at + cmd[t].nblocks) * geo.blk}

Stored(p) == LbaStart * geo.blk <= p /\ p + PktUnits <= store.lba * geo.blk

(***************************************************************************)
(* generator takes each slot of a read for a packet with a descriptor at   *)
(* its end ("invalid slot len 0" otherwise).  It is one, where store has   *)
(* written, for all batches of the two programs, as long as the ranges     *)
(* start at packets and the walk goes from packet to packet.               *)
(***************************************************************************)
ReadsPackets ==
    \A t \in Threads :
        /\ opt.app = "generator"
        /\ geo.blk % PktUnits = 0
             \/ (opt.walk = "seq" /\ Aligned(LbaStart) /\ Aligned(Range(t).from))
        => \A p \in SlotsRead(t) : Stored(p) => p \in disk

(***************************************************************************)
(* store builds the packets of a batch into the buffer it allocated.       *)
(***************************************************************************)
BuildsInBuffer == PktUnits * geo.batch <= nblocks * geo.blk

(***************************************************************************)
(* "It enalbes us to get all batched packets from nvme in a single read    *)
(* command": the read of generator covers all the slots it sends.          *)
(***************************************************************************)
ReadCoversBatch ==
    opt.app = "generator" => PktUnits * geo.gen <= opt.nblocks * geo.blk
==============================================================================
