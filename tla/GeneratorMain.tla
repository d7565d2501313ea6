---------------------------- MODULE GeneratorMain ----------------------------
(***************************************************************************)
(* apps/generator.c as a whole: main(), which opens a netmap port per CPU, *)
(* spawns the threads, joins them and closes the ports; count_thread(),    *)
(* which prints rates; and the threads, whose iterations are reduced to    *)
(* the steps that main() and count_thread() can tell apart (Generator has  *)
(* the iterations themselves).                                             *)
(*                                                                         *)
(* nm_open() and nm_close() are external.  The port of CPU 0 maps the      *)
(* memory of the rings, the others are opened with NM_OPEN_NO_MMAP and     *)
(* share it, and nm_close() of that port unmaps it.                        *)
(***************************************************************************)
EXTENDS Integers, FiniteSetsExt

CONSTANTS MaxCpus,   \* bound on gen.ncpus
          Pages,     \* bound on the pop memory, in pieces of the size a thread needs
          MaxPkts,   \* bound on the packets a thread sends
          ULONG      \* unsigned long wraps around at this value

ASSUME MainAssumption ==
    /\ {MaxCpus, Pages, MaxPkts} \subseteq Nat \ {0}
    /\ ULONG \in Nat /\ ULONG > MaxCpus * MaxPkts

VARIABLES ncpus,   \* gen.ncpus
          main,    \* main(): where it is; n and i of its loops
          port,    \* port[t]: gen_th[t].nmd
          th,      \* th[t]: pc; k, packets of this iteration; npkts
          pages,   \* pieces of pop memory left
          caught,  \* caught_signal
          cnt,     \* count_thread(): pc; n of its loops; before and after
          shown    \* history: the sum of the packets in the rates printed

vars == <<ncpus, main, port, th, pages, caught, cnt, shown>>

Threads == 0 .. ncpus - 1
Cpus == 0 .. MaxCpus - 1
Counters == [Cpus -> 0 .. MaxPkts]
Zero == [t \in Cpus |-> 0]

TypeOK ==
    /\ ncpus \in 1 .. MaxCpus
    /\ main \in [pc : {"open", "spawn", "count", "jcount", "close", "closed", "crashed"},
                 n : 0 .. MaxCpus, i : 0 .. MaxCpus]
    /\ port \in [Cpus -> {"none", "open", "closed"}]
    /\ th \in [Cpus -> [pc : {"off", "alloc", "top", "fill", "sync", "done"},
                        k : 0 .. MaxPkts, npkts : 0 .. MaxPkts]]
    /\ pages \in 0 .. Pages /\ caught \in BOOLEAN
    /\ cnt \in [pc : {"off", "top", "before", "sleep", "after", "print", "done"},
                n : Threads, before : Counters, after : Counters]

Init ==
    /\ ncpus \in 1 .. MaxCpus
    /\ main = [pc |-> "open", n |-> 0, i |-> 0]
    /\ port = [t \in Cpus |-> "none"]
    /\ th = [t \in Cpus |-> [pc |-> "off", k |-> 0, npkts |-> 0]]
    /\ pages \in 1 .. Pages
    /\ caught = FALSE
    /\ cnt = [pc |-> "off", n |-> 0, before |-> Zero, after |-> Zero]
    /\ shown = 0

Alive == main.pc \notin {"closed", "crashed"}
Crash == main' = [main EXCEPT !.pc = "crashed"]

\* Whether the memory of the netmap rings is mapped.
Mapped == port[0] = "open"

------------------------------------------------------------------------------
(* thread_body().                                                          *)

At(t, label) == Alive /\ th[t].pc = label

\* The thread finds its ring in the mapped memory, then the pop_buf_alloc() loop:
\* pop_buf_put() of a NULL is a crash.
Alloc(t) ==
    /\ At(t, "alloc")
    /\ IF Mapped /\ pages > 0
       THEN /\ pages' = pages - 1
            /\ th' = [th EXCEPT ![t].pc = "top"] /\ UNCHANGED main
       ELSE Crash /\ UNCHANGED <<pages, th>>
    /\ UNCHANGED <<ncpus, port, caught, cnt, shown>>

\* while (!caught_signal), and the space, which may be 0: goto sync_out.
Top(t) ==
    /\ At(t, "top")
    /\ IF caught THEN th' = [th EXCEPT ![t].pc = "done"] /\ UNCHANGED main
       ELSE IF Mapped
       THEN /\ \E pc \in {"fill", "sync"} : th' = [th EXCEPT ![t].pc = pc]
            /\ UNCHANGED main
       ELSE Crash /\ UNCHANGED th
    /\ UNCHANGED <<ncpus, port, pages, caught, cnt, shown>>

\* The reads, the wait for them, and the slots of the packets that came.
Fill(t) ==
    /\ At(t, "fill")
    /\ IF Mapped
       THEN /\ \E k \in 0 .. MaxPkts - th[t].npkts :
                  th' = [th EXCEPT ![t].pc = "sync", ![t].k = k]
            /\ UNCHANGED main
       ELSE Crash /\ UNCHANGED th
    /\ UNCHANGED <<ncpus, port, pages, caught, cnt, shown>>

\* sync_out: TXSYNC, whose failure ends the thread, and the counters.
Sync(t) ==
    /\ At(t, "sync")
    /\ IF Mapped
       THEN /\ th' \in {[th EXCEPT ![t] = [pc |-> "top", k |-> 0, npkts |-> @.npkts + @.k]],
                        [th EXCEPT ![t] = [@ EXCEPT !.pc = "done", !.k = 0]]}
            /\ UNCHANGED main
       ELSE Crash /\ UNCHANGED th
    /\ UNCHANGED <<ncpus, port, pages, caught, cnt, shown>>

------------------------------------------------------------------------------
(* count_thread().                                                         *)

Counting(label) == Alive /\ cnt.pc = label
Step(n) == IF n + 1 = ncpus THEN 0 ELSE n + 1

\* Mutant of CountTop: the counters of the interval before are kept.
CountTopKeeps ==
    /\ Counting("top")
    /\ cnt' = [cnt EXCEPT !.pc = IF caught THEN "done" ELSE "sleep"]
    /\ UNCHANGED <<ncpus, main, port, th, pages, caught, shown>>

\* Mutant of CountTop: the signal is not looked at.
CountTopNoSignal ==
    /\ Counting("top")
    /\ cnt' = [cnt EXCEPT !.pc = "before"]
    /\ UNCHANGED <<ncpus, main, port, th, pages, caught, shown>>

\* while (1), and caught_signal.
CountTop ==
    /\ Counting("top")
    /\ cnt' = [cnt EXCEPT !.pc = IF caught THEN "done" ELSE "before"]
    /\ UNCHANGED <<ncpus, main, port, th, pages, caught, shown>>

\* "gather counters", one thread after the other.
Before ==
    /\ Counting("before")
    /\ cnt' = [cnt EXCEPT !.before[cnt.n] = th[cnt.n].npkts, !.n = Step(@),
                          !.pc = IF Step(cnt.n) = 0 THEN "sleep" ELSE @]
    /\ UNCHANGED <<ncpus, main, port, th, pages, caught, shown>>

Sleep ==
    /\ Counting("sleep")
    /\ cnt' = [cnt EXCEPT !.pc = "after"]
    /\ UNCHANGED <<ncpus, main, port, th, pages, caught, shown>>

After ==
    /\ Counting("after")
    /\ cnt' = [cnt EXCEPT !.after[cnt.n] = th[cnt.n].npkts, !.n = Step(@),
                          !.pc = IF Step(cnt.n) = 0 THEN "print" ELSE @]
    /\ UNCHANGED <<ncpus, main, port, th, pages, caught, shown>>

\* "totaling the counters", in unsigned arithmetic.
pps == MapThenSumSet(LAMBDA n : cnt.after[n] - cnt.before[n], Threads) % ULONG

Show ==
    /\ Counting("print")
    /\ shown' = shown + pps
    /\ cnt' = [cnt EXCEPT !.pc = "top", !.before = Zero, !.after = Zero]
    /\ UNCHANGED <<ncpus, main, port, th, pages, caught>>

------------------------------------------------------------------------------
(* main() and the signal handler.                                          *)

\* nm_parse() and nm_open() of one port.  A failure raises the signal and goes
\* to the end, for the ports opened so far.
OpenPort ==
    /\ main.pc = "open"
    /\ \/ /\ port' = [port EXCEPT ![main.n] = "open"]
          /\ main' = IF main.n + 1 = ncpus THEN [main EXCEPT !.pc = "spawn", !.n = 0]
                                           ELSE [main EXCEPT !.n = @ + 1]
          /\ UNCHANGED caught
       \/ /\ main' = [main EXCEPT !.pc = "close"]
          /\ caught' = TRUE
          /\ UNCHANGED port
    /\ UNCHANGED <<ncpus, th, pages, cnt, shown>>

Spawn ==
    /\ main.pc = "spawn"
    /\ th' = [th EXCEPT ![main.n].pc = "alloc"]
    /\ main' = [main EXCEPT !.n = @ + 1, !.pc = IF main.n + 1 = ncpus THEN "count" ELSE @]
    /\ UNCHANGED <<ncpus, port, pages, caught, cnt, shown>>

SpawnCount ==
    /\ main.pc = "count"
    /\ cnt' = [cnt EXCEPT !.pc = "top"]
    /\ main' = [main EXCEPT !.pc = "jcount"]
    /\ UNCHANGED <<ncpus, port, th, pages, caught, shown>>

\* SIGINT, or the timeout of main().
Signal ==
    /\ ~caught /\ caught' = TRUE
    /\ UNCHANGED <<ncpus, main, port, th, pages, cnt, shown>>

JoinCount ==
    /\ main.pc = "jcount" /\ cnt.pc = "done"
    /\ main' = [main EXCEPT !.pc = "close"]
    /\ UNCHANGED <<ncpus, port, th, pages, caught, cnt, shown>>

\* Mutant of JoinClose: the port is closed before the join.
JoinCloseFirst ==
    /\ main.pc = "close" /\ main.i < main.n
    /\ IF port[main.i] = "open"
       THEN port' = [port EXCEPT ![main.i] = "closed"] /\ UNCHANGED main
       ELSE /\ th[main.i].pc \in {"off", "done"}
            /\ main' = [main EXCEPT !.i = @ + 1] /\ UNCHANGED port
    /\ UNCHANGED <<ncpus, th, pages, caught, cnt, shown>>

\* pthread_join() of a thread, and nm_close() of its port.  When the set-up has
\* failed there is no thread: joining the thread id 0 is an error or a crash.
JoinClose ==
    /\ main.pc = "close" /\ main.i < main.n
    /\ \/ /\ th[main.i].pc \in {"off", "done"}
          /\ port' = [port EXCEPT ![main.i] = "closed"]
          /\ main' = [main EXCEPT !.i = @ + 1]
       \/ th[main.i].pc = "off" /\ Crash /\ UNCHANGED port
    /\ UNCHANGED <<ncpus, th, pages, caught, cnt, shown>>

\* Mutant of Release: the loop over the threads ends one early.
ReleaseEarly ==
    /\ main.pc = "close" /\ main.i + 1 >= main.n
    /\ main' = [main EXCEPT !.pc = "closed"]
    /\ UNCHANGED <<ncpus, port, th, pages, caught, cnt, shown>>

\* unvme_close() and pop_mem_exit().
Release ==
    /\ main.pc = "close" /\ main.i = main.n
    /\ main' = [main EXCEPT !.pc = "closed"]
    /\ UNCHANGED <<ncpus, port, th, pages, caught, cnt, shown>>

thread_body(t) == Alloc(t) \/ Top(t) \/ Fill(t) \/ Sync(t)
count_thread == CountTop \/ Before \/ Sleep \/ After \/ Show
main_body == OpenPort \/ Spawn \/ SpawnCount \/ JoinCount \/ JoinClose \/ Release
Ended == ~Alive /\ UNCHANGED vars

Next ==
    \/ main_body \/ count_thread \/ Signal \/ Ended
    \/ \E t \in Threads : thread_body(t)

Spec == Init /\ [][Next]_vars

\* Every thread is scheduled: a sleep ends, and so does a poll, by its timeout.
FairSpec ==
    /\ Spec
    /\ WF_vars(main_body) /\ WF_vars(count_thread)
    /\ \A t \in Cpus : WF_vars(t \in Threads /\ thread_body(t))

------------------------------------------------------------------------------
(***************************************************************************)
(* When the NVMe device is closed and the memory released, no thread runs, *)
(* the counting one included, and no port is open, also after a set-up     *)
(* that failed half-way.                                                   *)
(***************************************************************************)
ReleasedAtRest ==
    main.pc = "closed" =>
        /\ \A t \in Cpus : th[t].pc \in {"off", "done"} /\ port[t] # "open"
        /\ cnt.pc \in {"off", "done"}

(***************************************************************************)
(* The rings stay mapped under a thread that is yet to find its ring or is *)
(* in an iteration, until main() has joined the thread of CPU 0: a thread  *)
(* of another CPU may lose them then, and only after the signal.           *)
(***************************************************************************)
MappedUntilJoin ==
    \A t \in Threads :
        th[t].pc \in {"alloc", "fill", "sync"} /\ ~Mapped =>
            t # 0 /\ caught /\ th[0].pc = "done" /\ cnt.pc = "done"

(***************************************************************************)
(* The rates printed never add up to more than was sent, although the      *)
(* counters are read one by one while the threads change them: no packet   *)
(* is in two rates, and no difference wraps around.                        *)
(***************************************************************************)
RatesAddUp == shown <= MapThenSumSet(LAMBDA t : th[t].npkts, Threads)

(***************************************************************************)
(* After the signal, the timeout or a failed set-up, main() comes to its   *)
(* end, unless the program crashes.                                        *)
(***************************************************************************)
SignalEnds == caught ~> ~Alive

(***************************************************************************)
(* struct gen_thread: "nm_desc no this thread".  A thread that uses its    *)
(* ring has it mapped, whoever else has ended.                             *)
(***************************************************************************)
RingMapped ==
    \A t \in Threads : th[t].pc \in {"alloc", "fill", "sync"} => Mapped \/ ~Alive
==============================================================================
