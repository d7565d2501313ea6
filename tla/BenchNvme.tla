------------------------------ MODULE BenchNvme ------------------------------
(***************************************************************************)
(* apps/bench-nvme.c: the benchmark threads, each giving a batch of NVMe   *)
(* commands on its own buffers and polling all of them, the report thread, *)
(* which adds up the threads' counters twice an interval without a lock,   *)
(* the signal, and main(), which starts and joins them, closes the device  *)
(* and releases the memory.  (The block addresses are in module LbaWalk.)  *)
(***************************************************************************)
EXTENDS Integers

CONSTANTS ncpus,     \* p.ncpus
          Batch,     \* p.batch
          MaxCount   \* bound at which a counter stays

ASSUME BenchAssumption ==
    {ncpus, Batch, MaxCount} \subseteq Nat \ {0}

Threads == 0 .. ncpus - 1
Bufs == 0 .. Batch - 1

VARIABLES th,      \* th[t]: where it is, b of its loops, and th->count
          out,     \* <<t, b>>: the device has a command on bufs[b] of thread t
          late,    \* <<t, b>>: a command on it that apoll() gave up is not complete
          rep,     \* report_interval(): where it is, n, and the two sums
          caught,  \* caught_signal
          main     \* what main() has come to, and n of its loop

dev == <<out, late>>
vars == <<th, dev, rep, caught, main>>

TypeOK ==
    /\ \A t \in Threads : /\ th[t].pc \in {"off", "alloc", "issue", "poll", "done"}
                          /\ th[t].b \in Bufs /\ th[t].count \in 0 .. MaxCount
    /\ out \subseteq Threads \X Bufs /\ late \subseteq Threads \X Bufs
    /\ rep.pc \in {"off", "top", "start", "end", "done"} /\ rep.n \in Threads
    /\ rep.start \in 0 .. ncpus * MaxCount /\ rep.end \in 0 .. ncpus * MaxCount
    /\ caught \in BOOLEAN
    /\ main.pc \in {"create", "join", "rjoin", "close", "released", "exited"}
    /\ main.n \in Threads

Init ==
    /\ th = [t \in Threads |-> [pc |-> "off", b |-> 0, count |-> 0]]
    /\ out = {} /\ late = {}
    /\ rep = [pc |-> "off", n |-> 0, start |-> 0, end |-> 0]
    /\ caught = FALSE
    /\ main = [pc |-> "create", n |-> 0]

Alive == main.pc \notin {"released", "exited"}

------------------------------------------------------------------------------
(* bench_start().                                                          *)

\* The batch of buffers; without memory for them the thread calls exit().
Alloc(t) ==
    /\ Alive /\ th[t].pc = "alloc"
    /\ \/ /\ th' = [th EXCEPT ![t].pc = IF caught THEN "done" ELSE "issue"]
          /\ UNCHANGED main
       \/ main' = [main EXCEPT !.pc = "exited"] /\ UNCHANGED th
    /\ UNCHANGED <<dev, rep, caught>>

LastBuf(t) == th[t].b + 1 = Batch

\* One unvme_aread() or unvme_awrite() of the loop.
Issue(t) ==
    /\ Alive /\ th[t].pc = "issue"
    /\ out' = out \cup {<<t, th[t].b>>} /\ UNCHANGED late
    /\ th' = [th EXCEPT ![t].b = IF LastBuf(t) THEN 0 ELSE @ + 1,
                        ![t].pc = IF LastBuf(t) THEN "poll" ELSE @]
    /\ UNCHANGED <<rep, caught, main>>

\* Mutant of AfterPoll: the loop does not look at the signal.
AfterPollNoSignal(t) == IF ~LastBuf(t) THEN "poll" ELSE "issue"

AfterPoll(t) ==
    IF ~LastBuf(t) THEN "poll" ELSE IF caught THEN "done" ELSE "issue"

\* Mutant of Poll: the signal is looked at after each command.
PollBreaks(t) ==
    /\ Alive /\ th[t].pc = "poll" /\ <<t, th[t].b>> \notin out
    /\ th' = [th EXCEPT ![t].count = IF @ < MaxCount THEN @ + 1 ELSE @,
                        ![t].b = IF LastBuf(t) THEN 0 ELSE @ + 1,
                        ![t].pc = IF caught THEN "done" ELSE AfterPoll(t)]
    /\ UNCHANGED <<dev, rep, caught, main>>

\* Mutant of Poll: the loop ends one command early.
PollOneShort(t) ==
    /\ Alive /\ th[t].pc = "poll" /\ <<t, th[t].b>> \notin out
    /\ th' = [th EXCEPT ![t].b = IF th[t].b + 2 >= Batch THEN 0 ELSE @ + 1,
                        ![t].pc = IF th[t].b + 2 < Batch THEN @
                                  ELSE IF caught THEN "done" ELSE "issue"]
    /\ UNCHANGED <<dev, rep, caught, main>>

\* One unvme_apoll() of the loop: complete, or else timed out or failed.
Poll(t) ==
    /\ Alive /\ th[t].pc = "poll"
    /\ \E ok \in BOOLEAN :
          /\ ok => <<t, th[t].b>> \notin out
          /\ th' = [th EXCEPT ![t].count = IF ok /\ @ < MaxCount THEN @ + 1 ELSE @,
                              ![t].b = IF LastBuf(t) THEN 0 ELSE @ + 1,
                              ![t].pc = AfterPoll(t)]
    /\ out' = out \ {<<t, th[t].b>>}
    /\ late' = late \cup (out \cap {<<t, th[t].b>>})
    /\ UNCHANGED <<rep, caught, main>>

\* The device completes a command.
Complete(c) ==
    /\ \/ c \in out /\ out' = out \ {c} /\ UNCHANGED late
       \/ c \in late /\ late' = late \ {c} /\ UNCHANGED out
    /\ UNCHANGED <<th, rep, caught, main>>

------------------------------------------------------------------------------
(* report_interval() and print_interval_result().                          *)

ReportTop ==
    /\ Alive /\ rep.pc = "top"
    /\ rep' = [rep EXCEPT !.pc = IF caught THEN "done" ELSE "start",
                          !.start = 0, !.end = 0]
    /\ UNCHANGED <<th, dev, caught, main>>

\* Mutant of Report: the two sums are mixed up.
ReportSwapped ==
    LET sum == th[rep.n].count
        last == rep.n + 1 = ncpus
    IN  /\ Alive
        /\ \/ /\ rep.pc = "start"
              /\ rep' = [rep EXCEPT !.end = @ + sum, !.n = IF last THEN 0 ELSE @ + 1,
                                    !.pc = IF last THEN "end" ELSE @]
           \/ /\ rep.pc = "end"
              /\ rep' = [rep EXCEPT !.start = @ + sum, !.n = IF last THEN 0 ELSE @ + 1,
                                    !.pc = IF last THEN "top" ELSE @]
        /\ UNCHANGED <<th, dev, caught, main>>

\* One turn of either loop over the threads; usleep() is between the two.
Report ==
    LET sum == th[rep.n].count
        last == rep.n + 1 = ncpus
    IN  /\ Alive
        /\ \/ /\ rep.pc = "start"
              /\ rep' = [rep EXCEPT !.start = @ + sum, !.n = IF last THEN 0 ELSE @ + 1,
                                    !.pc = IF last THEN "end" ELSE @]
           \/ /\ rep.pc = "end"
              /\ rep' = [rep EXCEPT !.end = @ + sum, !.n = IF last THEN 0 ELSE @ + 1,
                                    !.pc = IF last THEN "top" ELSE @]
        /\ UNCHANGED <<th, dev, caught, main>>

------------------------------------------------------------------------------
(* main() and the signal handler.                                          *)

LastThread == main.n + 1 = ncpus
NextThread == IF LastThread THEN 0 ELSE main.n + 1

\* pthread_create() of the threads, and after the last one of the reporter.
Create ==
    /\ main.pc = "create"
    /\ th' = [th EXCEPT ![main.n].pc = "alloc"]
    /\ main' = [pc |-> IF LastThread THEN "join" ELSE "create", n |-> NextThread]
    /\ rep' = [rep EXCEPT !.pc = IF LastThread THEN "top" ELSE @]
    /\ UNCHANGED <<dev, caught>>

\* SIGINT, or the end of the benchmark time.
Signal ==
    /\ ~caught /\ caught' = TRUE
    /\ UNCHANGED <<th, dev, rep, main>>

Join ==
    /\ main.pc = "join" /\ th[main.n].pc = "done"
    /\ main' = [pc |-> IF LastThread THEN "rjoin" ELSE "join", n |-> NextThread]
    /\ UNCHANGED <<th, dev, rep, caught>>

JoinReport ==
    /\ main.pc = "rjoin" /\ rep.pc = "done"
    /\ main' = [main EXCEPT !.pc = "close"]
    /\ UNCHANGED <<th, dev, rep, caught>>

\* unvme_close(), pop_mem_exit().
Release ==
    /\ main.pc = "close"
    /\ main' = [main EXCEPT !.pc = "released"]
    /\ UNCHANGED <<th, dev, rep, caught>>

main_body == Create \/ Join \/ JoinReport \/ Release
bench_start(t) == Alloc(t) \/ Issue(t) \/ Poll(t)
report_interval == ReportTop \/ Report
Ended == ~Alive /\ UNCHANGED vars

Next ==
    \/ main_body \/ Signal \/ report_interval \/ Ended
    \/ \E t \in Threads : bench_start(t)
    \/ \E c \in Threads \X Bufs : Complete(c)

Spec == Init /\ [][Next]_vars

\* Every thread is scheduled; apoll() returns after a minute at the latest.
FairSpec ==
    /\ Spec
    /\ WF_vars(main_body) /\ WF_vars(report_interval)
    /\ \A t \in Threads : WF_vars(bench_start(t))

------------------------------------------------------------------------------
(***************************************************************************)
(* A thread gives no command on a buffer that the device still has a       *)
(* command on, unless unvme_apoll() gave that one up.                      *)
(***************************************************************************)
BufferIdleAtIssue ==
    [][\A t \in Threads :
         th[t].pc = "issue" /\ th'[t] # th[t] => <<t, th[t].b>> \notin out]_vars

(***************************************************************************)
(* When main() releases the memory no command that reads or writes it is   *)
(* left but those that unvme_apoll() gave up, whenever the signal came.    *)
(***************************************************************************)
NoCommandAfterRelease == main.pc = "released" => out = {}

(***************************************************************************)
(* print_interval_result() subtracts unsigned sums: although it reads the  *)
(* counters one by one while the threads count on, the second sum is never *)
(* the smaller one.                                                        *)
(***************************************************************************)
IntervalNotNegative == rep.pc = "top" => rep.end >= rep.start

(***************************************************************************)
(* After the signal the program ends.                                      *)
(***************************************************************************)
SignalEnds == caught ~> ~Alive
==============================================================================
