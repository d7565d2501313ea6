------------------------------- MODULE RxRing -------------------------------
(***************************************************************************)
(* A netmap rx ring whose slots are pointed at pop memory, as              *)
(* pop_nm_rxring_init() of lib/pop_netmap.c does it: what the ring, the    *)
(* driver and the NIC's descriptors hold, and the steps of that function.  *)
(*                                                                         *)
(* Driver and NIC are external.  What NIOCRXSYNC does is taken from the    *)
(* comment in that function: a descriptor gets the address of its slot     *)
(* when the sync finds that head has passed the slot.                      *)
(***************************************************************************)
EXTENDS Integers

CONSTANT Slots     \* ring->num_slots

ASSUME SlotsAssumption == Slots \in Nat \ {0, 1}

Slot == 0 .. Slots - 1
nm_ring_next(i) == IF i = Slots - 1 THEN 0 ELSE i + 1

\* head, tail: of the ring.  hwcur: head at the last sync.  nxt: where the NIC
\* puts the next packet.  dram: the slots whose descriptor still has the address
\* of a buffer of netmap.  held: the slots with a packet that was received into
\* pop memory and has not been taken.
Rings == [head : Slot, tail : Slot, hwcur : Slot, nxt : Slot,
          dram : SUBSET Slot, held : SUBSET Slot]

\* A port that has just been opened.
Opened == [head |-> 0, tail |-> 0, hwcur |-> 0, nxt |-> 0,
           dram |-> Slot, held |-> {}]

\* The slots from i up to, not including, j.
Between(i, j) == IF i <= j THEN i .. j - 1 ELSE Slot \ (j .. i - 1)

\* NIOCRXSYNC: the slots that head has passed go to the NIC with their own
\* address, and tail shows what has arrived.
rxsync(r) ==
    [r EXCEPT !.dram = @ \ Between(r.hwcur, r.head),
              !.hwcur = r.head, !.tail = r.nxt]

\* The NIC keeps one slot free in front of the driver.
HasRoom(r) == nm_ring_next(r.nxt) # r.hwcur

\* A packet arrives, where the descriptor says.
arrive(r) ==
    [r EXCEPT !.nxt = nm_ring_next(@),
              !.held = IF r.nxt \in r.dram THEN @ \ {r.nxt} ELSE @ \cup {r.nxt}]

\* Mutant of around: the first sync leaves head where it is.
around_not(r) == r

\* ring->cur = ring->head = ring->num_slots - 1, after every slot got its ptr.
around(r) == [r EXCEPT !.head = Slots - 1]

\* while (!nm_ring_empty(ring)): head and cur pass the slots up to tail, which
\* only a sync moves.
flush(r) == [r EXCEPT !.head = r.tail, !.held = @ \ Between(r.head, r.tail)]

\* Whether the lap reached every descriptor: not if as many packets had arrived
\* before the first sync as the ring holds.  The flush then finds the ring empty
\* and the last slot keeps its buffer.
LapComplete(r) == r.head # r.tail
=============================================================================
