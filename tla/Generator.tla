------------------------------ MODULE Generator ------------------------------
(***************************************************************************)
(* apps/generator.c: thread_body() of one CPU, which reads nvbatch batches *)
(* of packets from the NVMe device, waits for them and fills a netmap tx   *)
(* ring with them; and the end of main().  (The block addresses are in     *)
(* module LbaWalk.)                                                        *)
(*                                                                         *)
(* The netmap ring is external: its kernel side takes over the slots up to *)
(* head at a TXSYNC, puts the ring back to what it knew when head is out   *)
(* of bounds, and moves tail behind the slot the NIC transmits next.       *)
(***************************************************************************)
EXTENDS Integers

CONSTANTS TxSlots,   \* ring->num_slots
          Batch,     \* gen.batch
          NvBatch    \* gen.nvbatch

ASSUME GeneratorAssumption ==
    {TxSlots, Batch, NvBatch} \subseteq Nat \ {0} /\ TxSlots > 1

VARIABLES fake,    \* gen.fake_packet
          ring,    \* the netmap ring: head, cur, tail
          kern,    \* its kernel side: head, and hw, the next slot to transmit
          th,      \* locals of thread_body()
          issued,  \* the iod[] that were ever assigned
          out,     \* the iod[] whose command is not complete
          late,    \* the buffers with a command that was given up, not complete
          caught,  \* caught_signal
          main     \* "run", or "closed" after unvme_close() and pop_mem_exit()

nvme == <<issued, out, late>>
gvars == <<fake, ring, kern, th, nvme, caught, main>>

bpkts == Batch * NvBatch
Index == 0 .. NvBatch - 1
Pos == 0 .. TxSlots - 1

\* Slots from position a up to position b.
Dist(a, b) == (b - a) % TxSlots

GTypeOK ==
    /\ ring \in [head : Pos, cur : Pos, tail : Pos]
    /\ kern \in [head : Pos, hw : Pos]
    /\ th.pc \in {"top", "read", "fill", "sync", "done"}
    /\ th.space \in Pos /\ th.head \in Pos
    /\ th.nvbatch \in 0 .. NvBatch /\ th.vb \in Index
    /\ issued \subseteq Index /\ out \subseteq Index /\ late \subseteq Index
    /\ fake \in BOOLEAN /\ caught \in BOOLEAN /\ main \in {"run", "closed"}

GInit ==
    /\ ring = [head |-> 0, cur |-> 0, tail |-> TxSlots - 1]
    /\ kern = [head |-> 0, hw |-> 0]
    /\ th = [pc |-> "top", space |-> 0, nvbatch |-> 0, rest |-> 0, vb |-> 0,
             head |-> 0, filled |-> 0]
    /\ issued = {} /\ out = {} /\ late = {}
    /\ fake \in BOOLEAN
    /\ caught = FALSE /\ main = "run"

------------------------------------------------------------------------------
nm_ring_space == Dist(ring.cur, ring.tail)

\* Mutant of Start: a full ring is synced before the signal is looked at.
StartSkipsSignal ==
    LET space == nm_ring_space
    IN  /\ th.pc = "top"
        /\ th' = [th EXCEPT !.pc = IF space = 0 THEN "sync" ELSE IF caught THEN "done"
                                   ELSE IF fake THEN "fill" ELSE "read",
                    !.space = space, !.vb = 0, !.head = ring.head, !.filled = 0,
                    !.nvbatch = IF space >= bpkts THEN NvBatch
                                ELSE (space \div Batch) + 1,
                    !.rest = IF space >= bpkts THEN 0 ELSE space % Batch]
        /\ UNCHANGED <<fake, ring, kern, nvme, caught, main>>

\* The head of the loop: the space, and the number of commands.
Start ==
    LET space == nm_ring_space
    IN  /\ th.pc = "top"
        /\ th' = [th EXCEPT !.pc = IF caught THEN "done" ELSE IF space = 0 THEN "sync"
                                   ELSE IF fake THEN "fill" ELSE "read",
                    !.space = space, !.vb = 0, !.head = ring.head, !.filled = 0,
                    !.nvbatch = IF space >= bpkts THEN NvBatch
                                ELSE (space \div Batch) + 1,
                    !.rest = IF space >= bpkts THEN 0 ELSE space % Batch]
        /\ UNCHANGED <<fake, ring, kern, nvme, caught, main>>

Last == th.vb + 1 = th.nvbatch

\* One unvme_aread() of the loop.
Read ==
    /\ th.pc = "read"
    /\ issued' = issued \cup {th.vb} /\ out' = out \cup {th.vb}
    /\ th' = [th EXCEPT !.vb = IF Last THEN 0 ELSE @ + 1,
                        !.pc = IF Last THEN "fill" ELSE @]
    /\ UNCHANGED <<fake, ring, kern, late, caught, main>>

\* Mutant of batch: the last command always brings a whole batch.
batch_whole == Batch

\* The packets of command vb that go on the ring.
batch == IF th.rest = 0 \/ ~Last THEN Batch ELSE th.rest

\* Mutant of Publish: cur is left behind.
PublishHeadOnly(head) == ring' = [ring EXCEPT !.head = head]

\* ring->head = ring->cur = head
Publish(head) == ring' = [ring EXCEPT !.head = head, !.cur = head]

\* unvme_apoll() of command vb, and its packets if it is complete.  The call may
\* also time out, or report an error; of an iod that was never assigned it may
\* say anything.
Fill ==
    /\ th.pc = "fill"
    /\ \E ok \in BOOLEAN :
          LET n == IF ok THEN batch ELSE 0
              head == (th.head + n) % TxSlots
          IN  /\ ok => th.vb \notin out
              /\ th' = [th EXCEPT !.vb = IF Last THEN 0 ELSE @ + 1,
                                  !.pc = IF Last THEN "sync" ELSE @,
                                  !.head = head, !.filled = @ + n]
              /\ IF Last THEN Publish(head) ELSE UNCHANGED ring
    /\ out' = out \ {th.vb}
    /\ late' = late \cup (out \cap {th.vb})
    /\ UNCHANGED <<fake, kern, issued, caught, main>>

\* NIOCTXSYNC on a ring whose user side is r.
TxSync(r) ==
    LET fits == Dist(kern.head, r.head) <= Dist(kern.head, r.tail)
        tail == (kern.hw - 1) % TxSlots
    IN  IF fits
        THEN /\ kern' = [kern EXCEPT !.head = r.head]
             /\ ring' = [r EXCEPT !.tail = tail]
        ELSE /\ UNCHANGED kern
             /\ ring' = [head |-> kern.head, cur |-> kern.head, tail |-> tail]

\* sync_out: ask for more slots if there were too few, and TXSYNC, whose
\* failure ends the thread.
Sync ==
    LET r == IF th.space < bpkts THEN [ring EXCEPT !.cur = ring.tail] ELSE ring
    IN  /\ th.pc = "sync"
        /\ \/ TxSync(r) /\ th' = [th EXCEPT !.pc = "top"]
           \/ ring' = r /\ UNCHANGED kern /\ th' = [th EXCEPT !.pc = "done"]
        /\ UNCHANGED <<fake, nvme, caught, main>>

------------------------------------------------------------------------------
\* The NIC transmits a packet.
Transmit ==
    /\ kern.hw # kern.head
    /\ kern' = [kern EXCEPT !.hw = (@ + 1) % TxSlots]
    /\ UNCHANGED <<fake, ring, th, nvme, caught, main>>

\* The NVMe device completes a command.
Complete(vb) ==
    /\ \/ vb \in out /\ out' = out \ {vb} /\ UNCHANGED late
       \/ vb \in late /\ late' = late \ {vb} /\ UNCHANGED out
    /\ UNCHANGED <<fake, ring, kern, th, issued, caught, main>>

\* sig_handler(), or the timeout of main().
Signal ==
    /\ ~caught /\ caught' = TRUE
    /\ UNCHANGED <<fake, ring, kern, th, nvme, main>>

\* Mutant of Close: main() does not wait for the thread.
CloseAtOnce ==
    /\ main = "run" /\ caught
    /\ main' = "closed"
    /\ UNCHANGED <<fake, ring, kern, th, nvme, caught>>

\* main(): join of count_thread and of the thread, then the devices are closed.
Close ==
    /\ main = "run" /\ caught /\ th.pc = "done"
    /\ main' = "closed"
    /\ UNCHANGED <<fake, ring, kern, th, nvme, caught>>

thread_body == Start \/ Read \/ Fill \/ Sync
Ended == main = "closed" /\ UNCHANGED gvars

GNext ==
    \/ thread_body \/ Transmit \/ Signal \/ Close \/ Ended
    \/ \E vb \in Index : Complete(vb)

GSpec == GInit /\ [][GNext]_gvars

\* The thread and main() are scheduled: apoll() returns after a minute, whether
\* or not the command is complete.
GFairSpec == GSpec /\ WF_gvars(thread_body) /\ WF_gvars(Close)

------------------------------------------------------------------------------
(***************************************************************************)
(* The space the loop works with is never more than the slots that are     *)
(* free behind head, although "cur = tail" makes cur run ahead of head and *)
(* the NIC goes on transmitting.                                           *)
(***************************************************************************)
SpaceIsFree ==
    th.pc \in {"read", "fill"} => th.space <= Dist(ring.head, ring.tail)

(***************************************************************************)
(* An iteration puts no more packets on the ring than it has space for,    *)
(* when the space holds all the batches or is no multiple of the batch.    *)
(***************************************************************************)
FillFits == th.space >= bpkts \/ th.space % Batch # 0 => th.filled <= th.space

(***************************************************************************)
(* When the devices are closed and the memory released, no read command    *)
(* into it is left but those that unvme_apoll() gave up: each read that    *)
(* was issued has been polled.                                             *)
(***************************************************************************)
NoReadAfterClose == main = "closed" => out = {}

(***************************************************************************)
(* After a signal the program ends.                                        *)
(***************************************************************************)
SignalEnds == caught ~> main = "closed"

(***************************************************************************)
(* thread_body() on the last command: "number of available netmap slots is *)
(* not enough to send batch of packets. use rest.": no iteration puts more *)
(* packets on the ring than it has space for.                              *)
(***************************************************************************)
UsesRest == th.filled <= th.space

(***************************************************************************)
(* "use fake packet instead of nvme": what is polled was issued.           *)
(***************************************************************************)
PollsIssued == th.pc = "fill" => th.vb \in issued
==============================================================================
