-------------------------------- MODULE Nmgen --------------------------------
(***************************************************************************)
(* apps/nmgen.c: sender or receiver threads, each with a netmap ring of    *)
(* its own and packet buffers on pop memory, count_thread(), which cancels *)
(* them one by one, and main(), which joins them and releases the memory.  *)
(* A receiver correlates its rx ring with pop memory by                    *)
(* pop_nm_rxring_init() of lib/pop_netmap.c.                               *)
(*                                                                         *)
(* The netmap rings are external.  A tx ring is the number of slots filled *)
(* and not transmitted; an rx ring is modelled in RxRing.                  *)
(***************************************************************************)
EXTENDS RxRing, InetChecksum

CONSTANTS ncpus,   \* gen->ncpus
          TxSlots, \* num_slots of a tx ring
          Batch,   \* gen->batch
          Pages    \* bound on the pop memory, in pieces of the size a thread needs

ASSUME NmgenAssumption ==
    /\ {ncpus, TxSlots, Batch} \subseteq Nat \ {0}
    /\ Pages \in Nat

Threads == 0 .. ncpus - 1

VARIABLES tx,      \* gen->mode is NMGEN_MODE_TX, else NMGEN_MODE_RX
          th,      \* th[t]: pc; batch; cancel; err, a sync failed; lap, the
                   \* lap of pop_nm_rxring_init() reached every descriptor
          nic,     \* nic[t]: packets on the tx ring, how many of them are synced
          rx,      \* rx[t]: the rx ring
          pages,   \* pieces of pop memory left
          caught,  \* caught_signal
          cnt,     \* count_thread(): the next thread it cancels
          main     \* main(): where it is, and n of its loop

vars == <<tx, th, nic, rx, pages, caught, cnt, main>>

TypeOK ==
    /\ tx \in BOOLEAN /\ pages \in 0 .. Pages
    /\ th \in [Threads -> [pc : {"off", "init", "around", "flush", "resync", "top", "sync",
                                "loop", "drain", "done"},
                           batch : 0 .. Batch, cancel : BOOLEAN, err : BOOLEAN, lap : BOOLEAN]]
    /\ nic \in [Threads -> [used : 0 .. TxSlots - 1, synced : 0 .. TxSlots - 1]]
    /\ rx \in [Threads -> Rings]
    /\ caught \in BOOLEAN /\ cnt \in -1 .. ncpus
    /\ main \in [pc : {"open", "create", "cjoin", "join", "released", "failed", "crashed"},
                 n : Threads]

Init ==
    /\ tx \in BOOLEAN
    /\ th = [t \in Threads |-> [pc |-> "off", batch |-> 0, cancel |-> FALSE,
                                err |-> FALSE, lap |-> FALSE]]
    /\ nic = [t \in Threads |-> [used |-> 0, synced |-> 0]]
    /\ rx = [t \in Threads |-> Opened]
    /\ pages \in 0 .. Pages
    /\ caught = FALSE
    /\ cnt = -1
    /\ main = [pc |-> "open", n |-> 0]

Alive == main.pc \notin {"released", "failed", "crashed"}
At(t, label) == Alive /\ th[t].pc = label

------------------------------------------------------------------------------
(* Both bodies.                                                            *)

\* pop_buf_alloc(): a sender without memory returns, another one
\* builds its packets (InetChecksum); pop_nm_rxring_init() calls
\* pop_buf_put() before it looks at the pointer.  It then points every slot at
\* the buffer and puts head on the last slot.
Setup(t) ==
    /\ At(t, "init")
    /\ IF pages > 0
       THEN /\ pages' = pages - 1
            /\ IF tx THEN th' = [th EXCEPT ![t].pc = "top"] /\ UNCHANGED rx
               ELSE /\ th' = [th EXCEPT ![t].pc = "around"]
                    /\ rx' = [rx EXCEPT ![t] = around(@)]
            /\ UNCHANGED main
       ELSE /\ UNCHANGED <<pages, rx>>
            /\ IF tx THEN th' = [th EXCEPT ![t].pc = "done"] /\ UNCHANGED main
               ELSE main' = [main EXCEPT !.pc = "crashed"] /\ UNCHANGED th
    /\ UNCHANGED <<tx, nic, caught, cnt>>

\* while (!th->cancel); a sender that is cancelled drains its ring.
Top(t) ==
    /\ At(t, "top")
    /\ th' = [th EXCEPT ![t].pc = IF ~th[t].cancel THEN "sync"
                                  ELSE IF tx THEN "drain" ELSE "done"]
    /\ UNCHANGED <<tx, nic, rx, pages, caught, cnt, main>>

------------------------------------------------------------------------------
(* nmgen_sender_body().                                                    *)

nm_ring_space(t) == TxSlots - 1 - nic[t].used
Least(x, y) == IF x < y THEN x ELSE y

\* NIOCTXSYNC, which may fail, and the size of the batch.
TxSync(t) ==
    /\ tx /\ At(t, "sync")
    /\ \/ th' = [th EXCEPT ![t].pc = "done", ![t].err = TRUE] /\ UNCHANGED nic
       \/ /\ th' = [th EXCEPT ![t].pc = IF nm_ring_space(t) = 0 THEN "top" ELSE "loop",
                              ![t].batch = Least(nm_ring_space(t), Batch)]
          /\ nic' = [nic EXCEPT ![t].synced = nic[t].used]
    /\ UNCHANGED <<tx, rx, pages, caught, cnt, main>>

\* The loop over the batch, and ring->head = ring->cur = head.
TxFill(t) ==
    /\ tx /\ At(t, "loop")
    /\ nic' = [nic EXCEPT ![t].used = @ + th[t].batch]
    /\ th' = [th EXCEPT ![t].pc = "top"]
    /\ UNCHANGED <<tx, rx, pages, caught, cnt, main>>

\* Mutant of Drain: one TXSYNC, and no wait.
DrainOnce(t) ==
    /\ At(t, "drain")
    /\ nic' = [nic EXCEPT ![t].synced = nic[t].used]
    /\ th' = [th EXCEPT ![t].pc = "done"]
    /\ UNCHANGED <<tx, rx, pages, caught, cnt, main>>

\* TXSYNC as long as nm_tx_pending(); one that fails leaves the ring as it was,
\* and is not noticed.
Drain(t) ==
    /\ At(t, "drain")
    /\ IF nic[t].used = 0
       THEN th' = [th EXCEPT ![t].pc = "done"] /\ UNCHANGED nic
       ELSE /\ nic' \in {nic, [nic EXCEPT ![t].synced = nic[t].used]}
            /\ UNCHANGED th
    /\ UNCHANGED <<tx, rx, pages, caught, cnt, main>>

\* The NIC transmits a packet.
Transmit(t) ==
    /\ tx /\ nic[t].synced > 0
    /\ nic' = [nic EXCEPT ![t] = [used |-> @.used - 1, synced |-> @.synced - 1]]
    /\ UNCHANGED <<tx, th, rx, pages, caught, cnt, main>>

------------------------------------------------------------------------------
(* nmgen_receiver_body(), with pop_nm_rxring_init().                       *)

\* The result of the first NIOCRXSYNC is not looked at.
RxAround(t) ==
    /\ At(t, "around")
    /\ \/ /\ rx' = [rx EXCEPT ![t] = rxsync(@)]
          /\ th' = [th EXCEPT ![t].pc = "flush", ![t].lap = LapComplete(rx'[t])]
       \/ th' = [th EXCEPT ![t].pc = "flush"] /\ UNCHANGED rx
    /\ UNCHANGED <<tx, nic, pages, caught, cnt, main>>

\* malloc() fails and NULL is returned, which the thread does not look at; or
\* "flush empty slots".
RxFlush(t) ==
    /\ At(t, "flush")
    /\ \/ th' = [th EXCEPT ![t].pc = "top", ![t].lap = FALSE] /\ UNCHANGED rx
       \/ /\ th' = [th EXCEPT ![t].pc = "resync"]
          /\ rx' = [rx EXCEPT ![t] = flush(@)]
    /\ UNCHANGED <<tx, nic, pages, caught, cnt, main>>

\* The second NIOCRXSYNC, whose result is not looked at either.
RxResync(t) ==
    /\ At(t, "resync")
    /\ \/ rx' = [rx EXCEPT ![t] = rxsync(@)]
       \/ UNCHANGED rx
    /\ th' = [th EXCEPT ![t].pc = "top"]
    /\ UNCHANGED <<tx, nic, pages, caught, cnt, main>>

\* NIOCRXSYNC of the loop, which may fail.
RxSync(t) ==
    /\ ~tx /\ At(t, "sync")
    /\ \/ th' = [th EXCEPT ![t].pc = "done", ![t].err = TRUE] /\ UNCHANGED rx
       \/ /\ rx' = [rx EXCEPT ![t] = rxsync(@)]
          /\ th' = [th EXCEPT ![t].pc = "loop"]
    /\ UNCHANGED <<tx, nic, pages, caught, cnt, main>>

\* while (!nm_ring_empty(ring)): the slots up to tail are counted and passed.
RxTake(t) ==
    /\ ~tx /\ At(t, "loop")
    /\ rx' = [rx EXCEPT ![t] = flush(@)]
    /\ th' = [th EXCEPT ![t].pc = "top"]
    /\ UNCHANGED <<tx, nic, pages, caught, cnt, main>>

\* A packet arrives on an open port.
Receive(t) ==
    /\ ~tx /\ Alive /\ (main.pc = "open" => t < main.n)
    /\ HasRoom(rx[t])
    /\ rx' = [rx EXCEPT ![t] = arrive(@)]
    /\ UNCHANGED <<tx, th, nic, pages, caught, cnt, main>>

------------------------------------------------------------------------------
(* main(), count_thread() and the signal handler.                          *)

LastThread == main.n + 1 = ncpus
NextThread == IF LastThread THEN 0 ELSE main.n + 1

\* The port of one thread; a failure ends the program with the memory registered
\* and the ports opened so far.
OpenPort ==
    /\ main.pc = "open"
    /\ main' \in {[pc |-> IF LastThread THEN "create" ELSE "open", n |-> NextThread],
                  [main EXCEPT !.pc = "failed"]}
    /\ UNCHANGED <<tx, th, nic, rx, pages, caught, cnt>>

\* pthread_create() of the threads, and after the last one of count_thread().
Create ==
    /\ main.pc = "create"
    /\ th' = [th EXCEPT ![main.n].pc = "init"]
    /\ main' = [pc |-> IF LastThread THEN "cjoin" ELSE "create", n |-> NextThread]
    /\ cnt' = IF LastThread THEN 0 ELSE cnt
    /\ UNCHANGED <<tx, nic, rx, pages, caught>>

Signal ==
    /\ ~caught /\ caught' = TRUE
    /\ UNCHANGED <<tx, th, nic, rx, pages, cnt, main>>

\* Mutant of Cancel: the loop starts at the second thread.
CancelFromOne ==
    /\ Alive /\ caught /\ cnt \in 0 .. ncpus - 1
    /\ th' = IF cnt = 0 THEN th ELSE [th EXCEPT ![cnt].cancel = TRUE]
    /\ cnt' = cnt + 1
    /\ UNCHANGED <<tx, nic, rx, pages, caught, main>>

\* "stop sender threads", one store after the other.
Cancel ==
    /\ Alive /\ caught /\ cnt \in 0 .. ncpus - 1
    /\ th' = [th EXCEPT ![cnt].cancel = TRUE]
    /\ cnt' = cnt + 1
    /\ UNCHANGED <<tx, nic, rx, pages, caught, main>>

JoinCount ==
    /\ main.pc = "cjoin" /\ cnt = ncpus
    /\ main' = [main EXCEPT !.pc = "join"]
    /\ UNCHANGED <<tx, th, nic, rx, pages, caught, cnt>>

\* pthread_join() of the threads in turn, then pop_mem_exit().
Join ==
    /\ main.pc = "join" /\ th[main.n].pc = "done"
    /\ main' = [pc |-> IF LastThread THEN "released" ELSE "join", n |-> NextThread]
    /\ UNCHANGED <<tx, th, nic, rx, pages, caught, cnt>>

\* The receiver of nvgen.c has the same steps.
receiver_body(t) == \/ RxAround(t) \/ RxFlush(t) \/ RxResync(t) \/ RxSync(t) \/ RxTake(t)
body(t) == \/ Setup(t) \/ Top(t) \/ TxSync(t) \/ TxFill(t) \/ Drain(t)
           \/ receiver_body(t)
main_body == OpenPort \/ Create \/ JoinCount \/ Join
Ended == ~Alive /\ UNCHANGED vars

Next ==
    \/ main_body \/ Signal \/ Cancel \/ Ended
    \/ \E t \in Threads : body(t) \/ Transmit(t) \/ Receive(t)

Spec == Init /\ [][Next]_vars

\* Every thread is scheduled, and the NIC transmits what it was given.  A TXSYNC
\* that fails in Drain changes nothing, so that fairness of body(t) also says that
\* they do not fail for ever.
FairSpec ==
    /\ Spec
    /\ WF_vars(main_body) /\ WF_vars(Cancel)
    /\ \A t \in Threads : WF_vars(body(t)) /\ WF_vars(Transmit(t))

------------------------------------------------------------------------------
(***************************************************************************)
(* When the memory is released every thread has ended, and no packet in it *)
(* waits on a tx ring: a cancelled sender has drained its ring, unless a   *)
(* TXSYNC had failed.                                                      *)
(***************************************************************************)
MemoryOutlivesThreads ==
    main.pc = "released" =>
        \A t \in Threads : th[t].pc = "done" /\ (tx /\ ~th[t].err => nic[t].used = 0)

(***************************************************************************)
(* "the physical addresses in the ptr fields are going to be filled in the *)
(* descriptor rings": a slot the receiver counts holds a packet that was   *)
(* received into pop memory, whatever arrived before and during the lap,   *)
(* and also when the second sync failed.  Not so if the first one or the   *)
(* malloc() did, or if the ring was full before it (LapComplete).          *)
(***************************************************************************)
RxTakesFromPop ==
    \A t \in Threads :
        ~tx /\ th[t].lap /\ th[t].pc = "loop" =>
            Between(rx[t].head, rx[t].tail) \subseteq rx[t].held

(***************************************************************************)
(* After the signal the program ends: count_thread() reaches every thread, *)
(* and a thread leaves its loops though packets go on arriving.            *)
(***************************************************************************)
SignalEnds == caught ~> ~Alive

(***************************************************************************)
(* pop_nm_rxring_init() without memory: "failed to allocate pbuf for       *)
(* rxring" and NULL is returned, so the program goes on.                   *)
(***************************************************************************)
RxInitReturns == main.pc # "crashed"

(***************************************************************************)
(* The packets in the buffer of a sender that has reached its loop have an *)
(* IP header that a receiver accepts: in checksum() one conditional        *)
(* subtraction a word accounts for every carry, and wrapsum() stores the   *)
(* result in network order.                                                *)
(***************************************************************************)
HeaderVerifies == \A t \in Threads : tx /\ th[t].pc = "sync" => AllVerify
==============================================================================
