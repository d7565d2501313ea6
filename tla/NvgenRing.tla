------------------------------ MODULE NvgenRing ------------------------------
(***************************************************************************)
(* apps/nvgen.c in tx mode, one CPU: the unvme thread reads packets from   *)
(* the NVMe device into the slots of a buffer on pop memory, the netmap    *)
(* thread puts loaded slots on a netmap tx ring, and a ring of SLOT_NUM    *)
(* slots with a head and a tail passes them from one to the other.  main() *)
(* creates the threads, count_thread() cancels them, main() joins what it  *)
(* has the tid of and releases the memory.                                 *)
(*                                                                         *)
(* The NIC and the NVMe device are external: the NIC transmits, in order,  *)
(* what a TXSYNC handed to it; a read command completes at some time after *)
(* its submission, and unvme_apoll() may give up before that.              *)
(***************************************************************************)
EXTENDS Integers, Sequences, FiniteSets

CONSTANTS SLOT_NUM,   \* slots of the ring, a power of two
          WORD,       \* unsigned int holds 0 .. WORD - 1
          TxSlots,    \* slots of the netmap tx ring
          Batch,      \* gen->batch
          NvBatch,    \* gen->nvbatch
          MaxLate     \* bound on the reads that were given up and are still
                      \* on their way

ASSUME NvgenAssumption ==
    /\ {SLOT_NUM, TxSlots, Batch, NvBatch} \subseteq Nat \ {0}
    /\ WORD \in Nat /\ WORD > SLOT_NUM /\ SLOT_NUM % 2 = 0
    /\ MaxLate \in Nat

VARIABLES seq,      \* gen->walk is NVGEN_WALK_MODE_SEQ, else RANDOM
          reload,   \* the compiled loops load th->cancel after a "continue"
          ring,     \* th->ring: head, tail
          cancel,   \* th->cancel
          content,  \* of a slot: "free", "dma" (a read is on its way),
                    \* "full" (a packet that nobody has sent)
          cmds,     \* read commands the device has not completed
          late,     \* the same, of those that unvme_apoll() gave up
          txq,      \* slots on the netmap ring that are not transmitted yet
          synced,   \* how many of them a TXSYNC handed to the NIC
          u,        \* the unvme thread
          n,        \* the netmap thread
          main,     \* main(): where it is, and ths[0].tid
          wrapped,  \* history: the published head has gone round the ring
          expired   \* history: unvme_apoll() has given up a read

opt == <<seq, reload>>
nvme == <<content, cmds, late>>
nic == <<txq, synced>>
history == <<wrapped, expired>>
vars == <<opt, ring, cancel, nvme, nic, u, n, main, history>>

Slots == 0 .. SLOT_NUM - 1
Mask(x) == x % SLOT_NUM
Even(x) == x - (x % 2)
Least(x, y) == IF x < y THEN x ELSE y

\* A command reads 4k blocks, two slots each, into consecutive memory from
\* slots[at] on.
Covers(c) == c.at .. c.at + 2 * c.nblocks - 1

TypeOK ==
    /\ ring \in [head : Slots, tail : Slots]
    /\ {seq, reload, cancel, wrapped, expired} \subseteq BOOLEAN
    /\ content \in [Slots -> {"free", "dma", "full"}]
    /\ Cardinality(late) <= MaxLate
    /\ \A c \in cmds \cup late : c.at \in Slots /\ c.nblocks \in 1 .. NvBatch
    /\ \A i \in DOMAIN txq : txq[i] \in Slots
    /\ synced \in 0 .. Len(txq)
    /\ u.pc \in {"off", "top", "scan", "issue", "poll", "done"}
    /\ n.pc \in {"off", "top", "scan", "sync", "fill", "drain", "done"}
    /\ u.head \in Slots /\ n.tail \in Slots
    /\ \A i \in DOMAIN u.iod : u.iod[i] \in Slots
    /\ main.pc \in {"start", "started", "join", "released", "ended"}

\* memset() of the thread and nvgen_init_thread_body().
Init ==
    /\ ring = [head |-> 0, tail |-> 0]
    /\ cancel = FALSE
    /\ content = [s \in Slots |-> "free"]
    /\ cmds = {} /\ late = {}
    /\ txq = <<>> /\ synced = 0
    /\ u = [pc |-> "off", batch |-> 0, nblocks |-> 0, head |-> 0, iod |-> <<>>]
    /\ n = [pc |-> "off", loaded |-> 0, left |-> 0, tail |-> 0]
    /\ main = [pc |-> "start", tid |-> "none"]
    /\ wrapped = FALSE /\ expired = FALSE
    /\ seq \in BOOLEAN /\ reload \in BOOLEAN

Alive == main.pc # "ended"

------------------------------------------------------------------------------
(* The ring's operations.                                                  *)

\* The macro ring_read_avail: head and tail are unsigned, so their difference
\* is never negative and the first alternative is never taken.
ring_read_avail == (ring.head - ring.tail) % WORD

ring_write_avail ==
    LET remain == ring.tail - ring.head
    IN  IF remain = 0 THEN SLOT_NUM
        ELSE IF remain < 0 THEN remain + SLOT_NUM - 1 ELSE remain

\* Mutant of Again: no build reloads th->cancel.
AgainNoReload == "scan"

\* Where a loop goes on "continue" without a call in between.
Again == IF reload THEN "top" ELSE "scan"

------------------------------------------------------------------------------
(* nvgen_sender_unvme_body().                                              *)

UTop ==
    /\ Alive /\ u.pc = "top"
    /\ u' = [u EXCEPT !.pc = IF cancel THEN "done" ELSE "scan"]
    /\ UNCHANGED <<opt, ring, cancel, nvme, nic, n, main, history>>

UScan ==
    LET batch == Least(Even(ring_write_avail) \div 2, NvBatch)
    IN  /\ Alive /\ u.pc = "scan"
        /\ u' = IF ring_write_avail < 2 THEN [u EXCEPT !.pc = Again]
                ELSE [u EXCEPT !.pc = "issue", !.head = ring.head, !.iod = <<>>,
                               !.batch = IF seq THEN 1 ELSE batch,
                               !.nblocks = IF seq THEN batch ELSE 1]
        /\ UNCHANGED <<opt, ring, cancel, nvme, nic, n, main, history>>

\* Mutant of UIssue: the ring advances by blocks, not by slots.
UIssueBlocks ==
    LET c == [at |-> u.head, nblocks |-> u.nblocks]
    IN  /\ Alive /\ u.pc = "issue"
        /\ content' = [s \in Slots |-> IF s \in Covers(c) THEN "dma" ELSE content[s]]
        /\ cmds' = cmds \cup {c}
        /\ u' = [u EXCEPT !.iod = Append(@, c.at),
                          !.head = Mask(u.head + u.nblocks),
                          !.pc = IF Len(u.iod) + 1 = u.batch THEN "poll" ELSE @]
        /\ UNCHANGED <<opt, ring, cancel, late, nic, n, main, history>>

\* One unvme_aread() of the loop.
UIssue ==
    LET c == [at |-> u.head, nblocks |-> u.nblocks]
    IN  /\ Alive /\ u.pc = "issue"
        /\ content' = [s \in Slots |-> IF s \in Covers(c) THEN "dma" ELSE content[s]]
        /\ cmds' = cmds \cup {c}
        /\ u' = [u EXCEPT !.iod = Append(@, c.at),
                          !.head = Mask(u.head + 2 * u.nblocks),
                          !.pc = IF Len(u.iod) + 1 = u.batch THEN "poll" ELSE @]
        /\ UNCHANGED <<opt, ring, cancel, late, nic, n, main, history>>

\* th->ring.head = head, and back to the top of the loop.
UPublish ==
    /\ ring' = [ring EXCEPT !.head = u.head]
    /\ wrapped' = (wrapped \/ u.head <= ring.head)
    /\ u' = [u EXCEPT !.pc = "top", !.batch = 0, !.nblocks = 0, !.iod = <<>>]

\* Mutant of UPoll: the commands are not waited for.
UPollNot ==
    /\ Alive /\ u.pc = "poll"
    /\ UPublish
    /\ UNCHANGED <<opt, cancel, nvme, nic, n, main, expired>>

\* One unvme_apoll() of the loop: the command is complete, or it is given up.
\* Neither keeps the head from being published after the last one.
UPoll ==
    LET waited == {c \in cmds : c.at = Head(u.iod)}
    IN  /\ Alive /\ u.pc = "poll"
        /\ Cardinality(late \cup waited) <= MaxLate \/ waited = {}
        /\ cmds' = cmds \ waited /\ late' = late \cup waited
        /\ expired' = (expired \/ waited # {})
        /\ IF Len(u.iod) = 1 THEN UPublish
           ELSE u' = [u EXCEPT !.iod = Tail(@)] /\ UNCHANGED <<ring, wrapped>>
        /\ UNCHANGED <<opt, cancel, content, nic, n, main>>

\* The NVMe device completes a command.
Complete(c) ==
    /\ \/ c \in cmds /\ cmds' = cmds \ {c} /\ UNCHANGED late
       \/ c \in late /\ late' = late \ {c} /\ UNCHANGED cmds
    /\ content' = [s \in Slots |-> IF s \in Covers(c) THEN "full" ELSE content[s]]
    /\ UNCHANGED <<opt, ring, cancel, nic, u, n, main, history>>

------------------------------------------------------------------------------
(* nvgen_sender_netmap_body().                                             *)

NTop ==
    /\ Alive /\ n.pc = "top"
    /\ n' = [n EXCEPT !.pc = IF cancel THEN "drain" ELSE "scan"]
    /\ UNCHANGED <<opt, ring, cancel, nvme, nic, u, main, history>>

\* "wait packets read from NVMe".  Of the number of packets the thread keeps
\* what its batch can use.
NScan ==
    /\ Alive /\ n.pc = "scan"
    /\ n' = IF ring_read_avail < 2 THEN [n EXCEPT !.pc = Again]
            ELSE [n EXCEPT !.pc = "sync", !.loaded = Least(ring_read_avail, Batch)]
    /\ UNCHANGED <<opt, ring, cancel, nvme, nic, u, main, history>>

\* What nm_ring_space() says after a TXSYNC.
nm_ring_space == TxSlots - 1 - Len(txq)

\* Mutant of NSync: the batch is not limited by the space.
NSyncNoSpace ==
    /\ Alive /\ n.pc = "sync"
    /\ synced' = Len(txq)
    /\ n' = IF nm_ring_space = 0 THEN [n EXCEPT !.pc = "top", !.loaded = 0]
            ELSE [n EXCEPT !.pc = "fill", !.left = Least(Batch, n.loaded),
                           !.tail = ring.tail]
    /\ UNCHANGED <<opt, ring, cancel, nvme, txq, u, main, history>>

\* NIOCTXSYNC, and the size of the batch.
NSync ==
    /\ Alive /\ n.pc = "sync"
    /\ \/ /\ n' = [n EXCEPT !.pc = "done"]
          /\ UNCHANGED synced
       \/ /\ synced' = Len(txq)
          /\ n' = IF nm_ring_space = 0 THEN [n EXCEPT !.pc = "top", !.loaded = 0]
                  ELSE [n EXCEPT !.pc = "fill", !.tail = ring.tail,
                          !.left = Least(Least(Even(nm_ring_space), Batch), n.loaded)]
    /\ UNCHANGED <<opt, ring, cancel, nvme, txq, u, main, history>>

\* One slot of the loop.
NFill ==
    /\ Alive /\ n.pc = "fill" /\ n.left > 0
    /\ txq' = Append(txq, n.tail)
    /\ content' = [content EXCEPT ![n.tail] = "free"]
    /\ n' = [n EXCEPT !.left = @ - 1, !.tail = Mask(@ + 1)]
    /\ UNCHANGED <<opt, ring, cancel, cmds, late, synced, u, main, history>>

\* ring->head = ring->cur = head and th->ring.tail = tail.
NPublish ==
    /\ Alive /\ n.pc = "fill" /\ n.left = 0
    /\ ring' = [ring EXCEPT !.tail = n.tail]
    /\ n' = [n EXCEPT !.pc = "top", !.loaded = 0]
    /\ UNCHANGED <<opt, cancel, nvme, nic, u, main, history>>

\* TXSYNC as long as nm_tx_pending(); one that fails leaves the ring as it was,
\* and is not noticed.
NDrain ==
    /\ Alive /\ n.pc = "drain"
    /\ IF txq = <<>>
       THEN n' = [n EXCEPT !.pc = "done"] /\ UNCHANGED synced
       ELSE synced' \in {synced, Len(txq)} /\ UNCHANGED n
    /\ UNCHANGED <<opt, ring, cancel, nvme, txq, u, main, history>>

\* The NIC transmits the oldest packet handed to it.
Transmit ==
    /\ synced > 0
    /\ txq' = Tail(txq) /\ synced' = synced - 1
    /\ UNCHANGED <<opt, ring, cancel, nvme, u, n, main, history>>

------------------------------------------------------------------------------
(* main() and count_thread().                                              *)

\* Both calls of pthread_create() store to ths[0].tid.
SpawnNetmap ==
    /\ main.pc = "start"
    /\ main' = [pc |-> "started", tid |-> "netmap"]
    /\ n' = [n EXCEPT !.pc = "top"]
    /\ UNCHANGED <<opt, ring, cancel, nvme, nic, u, history>>

SpawnUnvme ==
    /\ main.pc = "started"
    /\ main' = [pc |-> "join", tid |-> "unvme"]
    /\ u' = [u EXCEPT !.pc = "top"]
    /\ UNCHANGED <<opt, ring, cancel, nvme, nic, n, history>>

\* count_thread() after a signal or the timeout: "stop sender threads".
count_thread ==
    /\ main.pc = "join" /\ ~cancel
    /\ cancel' = TRUE
    /\ UNCHANGED <<opt, ring, nvme, nic, u, n, main, history>>

\* pthread_join() of count_thread and of ths[0].tid, then pop_mem_exit().
JoinAndRelease ==
    /\ main.pc = "join" /\ cancel
    /\ main.tid = "unvme" => u.pc = "done"
    /\ main.tid = "netmap" => n.pc = "done"
    /\ main' = [main EXCEPT !.pc = "released"]
    /\ UNCHANGED <<opt, ring, cancel, nvme, nic, u, n, history>>

\* The return from main() ends every thread.
Return ==
    /\ main.pc = "released"
    /\ main' = [main EXCEPT !.pc = "ended"]
    /\ UNCHANGED <<opt, ring, cancel, nvme, nic, u, n, history>>

Ended == ~Alive /\ UNCHANGED vars

unvme_body == UTop \/ UScan \/ UIssue \/ UPoll
netmap_body == NTop \/ NScan \/ NSync \/ NFill \/ NPublish \/ NDrain
main_body == SpawnNetmap \/ SpawnUnvme \/ JoinAndRelease \/ Return
Device == Transmit \/ \E c \in cmds \cup late : Complete(c)

Next == unvme_body \/ netmap_body \/ main_body \/ count_thread \/ Device \/ Ended

Spec == Init /\ [][Next]_vars

\* The threads are scheduled, a TXSYNC of NDrain succeeds if it is repeated, the
\* NIC transmits, and a command completes.  (The apoll() of the code returns after
\* a minute in any case; the last of these is for MaxLate, which keeps it from
\* giving up any number of commands.)
FairSpec ==
    /\ Spec
    /\ WF_vars(unvme_body) /\ WF_vars(netmap_body) /\ WF_vars(main_body)
    /\ WF_vars(Transmit) /\ WF_vars(\E c \in cmds \cup late : Complete(c))

------------------------------------------------------------------------------
(***************************************************************************)
(* The device writes only to the thread's buffer ("packet buffer on pop    *)
(* mem. managed by ring"): in the random walk no command reaches past the  *)
(* last slot, wherever the two threads have moved head and tail to.        *)
(***************************************************************************)
DmaInBuffer == ~seq => \A c \in cmds \cup late : Covers(c) \subseteq Slots

(***************************************************************************)
(* The netmap thread never has more packets on the tx ring than the ring   *)
(* holds, whatever the NIC has transmitted since the space was computed.   *)
(***************************************************************************)
TxRingHolds == Len(txq) <= TxSlots - 1

(***************************************************************************)
(* When main() has released the pop memory, no read command that could     *)
(* write to it is left, but those that were given up: the thread it joined *)
(* has polled all of them.                                                 *)
(***************************************************************************)
NoDmaAfterRelease == main.pc \in {"released", "ended"} => cmds = {}

(***************************************************************************)
(* What goes on the tx ring was loaded: the netmap thread has to "wait     *)
(* packets read from NVMe", so a slot it sends holds a packet that has     *)
(* been read and not been sent.                                            *)
(***************************************************************************)
SentIsLoaded == Len(txq') > Len(txq) => content[txq'[Len(txq')]] = "full"
SendsLoaded == [][SentIsLoaded]_vars

\* The device is not told to read over a packet the NIC has not transmitted.
QueuedIsKept ==
    \A i \in DOMAIN txq : content'[txq[i]] = "dma" => content[txq[i]] = "dma"

(***************************************************************************)
(* Until the head has gone round the ring once, or a read was given up,    *)
(* every slot sent was loaded, in any interleaving of the two threads: up  *)
(* to there head minus tail is the number of loaded slots.  And although   *)
(* the tail is given back before the NIC has transmitted, what waits on    *)
(* the tx ring is not read over until a batch goes beyond the last slot.   *)
(***************************************************************************)
FirstLapSendsLoaded ==
    [][~wrapped /\ ~expired =>
         SentIsLoaded /\ (u.head >= ring.head => QueuedIsKept)]_vars

(***************************************************************************)
(* The "ring queue between netmap and unvme" loses nothing: the device is  *)
(* not told to write over a packet that was loaded and not sent.           *)
(***************************************************************************)
QueueKeepsPackets ==
    [][\A s \in Slots : content[s] = "full" => content'[s] # "dma"]_vars

(***************************************************************************)
(* main(): "join the threads", then pop_mem_exit(): when the memory is     *)
(* released no thread that uses it is left.                                *)
(***************************************************************************)
MemoryOutlivesThreads ==
    main.pc = "released" => u.pc = "done" /\ n.pc = "done"

(***************************************************************************)
(* count_thread(): "stop sender threads": once cancel is set, the program  *)
(* ends, if the loops of the build load th->cancel in every turn.          *)
(***************************************************************************)
CancelEndsProgram == reload /\ cancel ~> main.pc = "ended"
==============================================================================
