------------------------- MODULE GeneratorMainProofs -------------------------
(***************************************************************************)
(* Proofs about GeneratorMain, for any number of CPUs.                     *)
(***************************************************************************)
EXTENDS GeneratorMain, FiniteSetTheorems, TLAPS

\* An iteration never sends more than the bound on the packets leaves.
PktsBound == \A t \in Cpus : th[t].k + th[t].npkts <= MaxPkts

\* Where main() is tells which ports are open and which threads may run.  With
\* main.n the number of CPUs that the loop of main() has reached:
MainInv ==
    /\ main.pc \in {"open", "spawn"} => main.n < ncpus
    /\ main.pc \in {"count", "jcount"} => main.n = ncpus
    /\ main.n <= ncpus /\ main.i <= main.n
    /\ main.pc \in {"open", "spawn", "count", "jcount"} => main.i = 0

PortInv ==
    /\ main.pc = "open" => \A t \in Cpus : port[t] = "open" <=> t < main.n
    /\ main.pc \in {"spawn", "count", "jcount"} =>
          \A t \in Cpus : port[t] = "open" <=> t < ncpus
    /\ main.pc = "close" =>
          \A t \in Cpus : port[t] = "open" <=> main.i <= t /\ t < main.n
    /\ main.pc = "closed" => \A t \in Cpus : port[t] # "open"

ThreadInv ==
    /\ main.pc = "open" => \A t \in Cpus : th[t].pc = "off"
    /\ main.pc \in {"spawn", "close"} =>
          \A t \in Cpus : main.n <= t => th[t].pc = "off"
    /\ main.pc \in {"count", "jcount"} =>
          \A t \in Cpus : ncpus <= t => th[t].pc = "off"
    /\ main.pc = "close" =>
          \A t \in Cpus : t < main.i => th[t].pc \in {"off", "done"}
    /\ main.pc = "closed" => \A t \in Cpus : th[t].pc \in {"off", "done"}
    /\ \/ main.pc \in {"spawn", "count", "jcount"}
       \/ main.pc = "close" /\ cnt.pc = "done"
       => \A t \in Cpus : t < main.n => th[t].pc # "off"

\* count_thread() has ended when main() closes, unless the set-up failed, and
\* then no thread was made.
CountInv ==
    /\ main.pc \in {"open", "spawn", "count"} => cnt.pc = "off"
    /\ main.pc \in {"close", "closed"} =>
          \/ cnt.pc = "done"
          \/ cnt.pc = "off" /\ \A t \in Cpus : th[t].pc = "off"
    /\ cnt.pc = "done" => caught

IInv == /\ TypeOK /\ PktsBound /\ MainInv /\ PortInv /\ ThreadInv /\ CountInv
        /\ MappedUntilJoin

\* The constants are numbers, and so are the CPUs.
LEMMA Basics ==
    /\ MaxCpus \in Nat /\ MaxCpus > 0 /\ Pages \in Nat /\ MaxPkts \in Nat
    /\ Cpus \subseteq Nat /\ 0 \in Cpus /\ \A t \in Cpus : t < MaxCpus
BY MainAssumption DEF Cpus

\* The threads of this run are among the CPUs.
LEMMA ThreadsInCpus ==
    ASSUME TypeOK
    PROVE  /\ ncpus \in Nat /\ 0 \in Threads /\ Threads \subseteq Cpus
           /\ \A t \in Cpus : t \in Threads <=> t < ncpus
BY Basics DEF TypeOK, Threads, Cpus

\* The initial states satisfy the invariant.
LEMMA InitInv == Init => IInv
<1> SUFFICES ASSUME Init PROVE IInv OBVIOUS
<1> USE Basics
<1>1. TypeOK
  <2>1. Zero \in Counters /\ 0 \in Threads BY DEF Zero, Counters, Init, Threads
  <2>2. cnt \in [pc : {"off", "top", "before", "sleep", "after", "print", "done"},
                 n : Threads, before : Counters, after : Counters]
      BY <2>1 DEF Init
  <2>3. th \in [Cpus -> [pc : {"off", "alloc", "top", "fill", "sync", "done"},
                        k : 0 .. MaxPkts, npkts : 0 .. MaxPkts]]
      BY DEF Init
  <2>4. main \in [pc : {"open", "spawn", "count", "jcount", "close", "closed", "crashed"},
                  n : 0 .. MaxCpus, i : 0 .. MaxCpus]
      BY DEF Init
  <2>5. pages \in 0 .. Pages /\ ncpus \in 1 .. MaxCpus BY DEF Init
  <2> QED BY <2>2, <2>3, <2>4, <2>5, Zenon DEF Init, TypeOK
<1>2. PktsBound /\ MainInv /\ ThreadInv /\ CountInv /\ MappedUntilJoin
    BY DEF Init, PktsBound, MainInv, ThreadInv, CountInv, MappedUntilJoin,
       Threads, Cpus
<1>3. PortInv BY DEF Init, PortInv
<1> QED BY <1>1, <1>2, <1>3 DEF IInv

------------------------------------------------------------------------------
\* What a step of thread t may change.  A step that touches the ring finds it
\* mapped, or crashes.
ThreadEffect(t) ==
    /\ Alive /\ th[t].pc \notin {"off", "done"} /\ th'[t].pc # "off"
    /\ \A u \in Cpus : u # t => th'[u] = th[u]
    /\ th'[t].pc \in {"alloc", "fill", "sync"} => Mapped \/ th' = th
    /\ main' = main \/ main' = [main EXCEPT !.pc = "crashed"]
    /\ UNCHANGED <<ncpus, port, caught, cnt>>

\* Each step of thread_body() has that effect, and keeps the types.
LEMMA ThreadSteps ==
    ASSUME TypeOK, PktsBound, NEW t \in Threads, thread_body(t)
    PROVE  ThreadEffect(t) /\ TypeOK' /\ PktsBound'
<1> USE Basics
<1>1. t \in Cpus BY ThreadsInCpus
<1>2. Threads' = Threads BY DEF thread_body, Alloc, Top, Fill, Sync, Threads
<1>3. CASE Alloc(t)
    BY <1>1, <1>2, <1>3 DEF Alloc, At, Crash, ThreadEffect, TypeOK, PktsBound
<1>4. CASE Top(t)
    BY <1>1, <1>2, <1>4 DEF Top, At, Crash, ThreadEffect, TypeOK, PktsBound
<1>5. CASE Fill(t)
    BY <1>1, <1>2, <1>5 DEF Fill, At, Crash, ThreadEffect, TypeOK, PktsBound
<1>6. CASE Sync(t)
  <2>1. th[t].k + th[t].npkts \in 0 .. MaxPkts BY <1>1 DEF TypeOK, PktsBound
  <2>2. CASE ~Mapped
      BY <1>1, <1>2, <1>6, <2>2 DEF Sync, At, Crash, ThreadEffect, TypeOK, PktsBound
  <2>3. CASE th' = [th EXCEPT ![t] = [pc |-> "top", k |-> 0, npkts |-> @.npkts + @.k]]
                /\ UNCHANGED main
      BY <1>1, <1>2, <1>6, <2>1, <2>3 DEF Sync, At, ThreadEffect, TypeOK, PktsBound
  <2>4. CASE th' = [th EXCEPT ![t] = [@ EXCEPT !.pc = "done", !.k = 0]] /\ UNCHANGED main
    <3>1. th'[t] = [pc |-> "done", k |-> 0, npkts |-> th[t].npkts]
        BY <1>1, <2>4, Zenon DEF TypeOK
    <3>2. th'[t].pc = "done" /\ th'[t].k = 0 /\ th'[t].npkts = th[t].npkts
        BY <3>1
    <3>0. th[t].npkts \in 0 .. MaxPkts /\ 0 \in 0 .. MaxPkts BY <1>1 DEF TypeOK
    <3>3. th'[t] \in [pc : {"off", "alloc", "top", "fill", "sync", "done"},
                      k : 0 .. MaxPkts, npkts : 0 .. MaxPkts]
        BY <3>0, <3>1
    <3>4. TypeOK' BY <1>1, <1>2, <1>6, <2>4, <3>3 DEF Sync, TypeOK
    <3>5. PktsBound' BY <1>1, <2>1, <2>4, <3>2 DEF TypeOK, PktsBound
    <3>6. ThreadEffect(t)
        BY <1>1, <1>2, <1>6, <2>4, <3>2 DEF Sync, At, ThreadEffect, TypeOK
    <3> QED BY <3>4, <3>5, <3>6
  <2> QED BY <1>6, <2>2, <2>3, <2>4 DEF Sync
<1> QED BY <1>3, <1>4, <1>5, <1>6 DEF thread_body

\* A step of a thread keeps the invariant.
LEMMA ThreadInvariant ==
    ASSUME IInv, NEW t \in Threads, thread_body(t)
    PROVE  IInv'
<1> USE Basics DEF IInv
<1>1. ThreadEffect(t) /\ TypeOK' /\ PktsBound' BY ThreadSteps
<1>2. t \in Cpus /\ t \in Nat /\ ncpus \in Nat /\ t < ncpus BY ThreadsInCpus, Zenon
<1>3. MappedUntilJoin'
  <2> SUFFICES ASSUME NEW u \in Threads, th'[u].pc \in {"alloc", "fill", "sync"}, ~Mapped
               PROVE  u # 0 /\ caught /\ th'[0].pc = "done" /\ cnt.pc = "done"
      BY <1>1 DEF ThreadEffect, MappedUntilJoin, Mapped, Threads
  <2>1. u \in Cpus BY ThreadsInCpus
  <2>2. th[u].pc \in {"alloc", "fill", "sync"} BY <1>1, <2>1 DEF ThreadEffect
  <2>3. u # 0 /\ caught /\ th[0].pc = "done" /\ cnt.pc = "done"
      BY <2>2 DEF MappedUntilJoin
  <2> QED BY <1>1, <2>3 DEF ThreadEffect
<1>4. CASE main' = main
  <2>1. MainInv' BY <1>1, <1>4 DEF ThreadEffect, MainInv
  <2>2. PortInv' BY <1>1, <1>4 DEF ThreadEffect, PortInv
  <2>3. ThreadInv'
    <3>1. main.pc # "open" /\ main.pc # "closed" /\ ~(main.pc = "close" /\ t < main.i)
        BY <1>1, <1>2 DEF ThreadEffect, ThreadInv
    <3>2. main.pc \in {"spawn", "close"} => t < main.n
        BY <1>1, <1>2 DEF ThreadEffect, ThreadInv, TypeOK
    <3> QED BY <1>1, <1>2, <1>4, <3>1, <3>2 DEF ThreadEffect, ThreadInv
  <2>4. CountInv' BY <1>1, <1>2, <1>4 DEF ThreadEffect, CountInv
  <2> QED BY <1>1, <1>3, <2>1, <2>2, <2>3, <2>4
<1>5. CASE main' = [main EXCEPT !.pc = "crashed"]
  <2>1. main'.pc = "crashed" /\ main'.n = main.n /\ main'.i = main.i
      BY <1>5 DEF TypeOK
  <2>2. MainInv' BY <1>1, <2>1 DEF ThreadEffect, MainInv
  <2>3. PortInv' /\ ThreadInv' BY <2>1 DEF PortInv, ThreadInv
  <2>4. CountInv' BY <1>1, <2>1 DEF ThreadEffect, CountInv
  <2> QED BY <1>1, <1>3, <2>2, <2>3, <2>4
<1> QED BY <1>1, <1>4, <1>5 DEF ThreadEffect

------------------------------------------------------------------------------
\* What a step of count_thread() may change.
CountEffect ==
    /\ cnt.pc \notin {"off", "done"} /\ cnt'.pc # "off"
    /\ cnt'.pc = "done" => caught
    /\ UNCHANGED <<ncpus, main, port, th, pages, caught>>

\* Each step of count_thread() has that effect, and keeps the types.
LEMMA CountSteps ==
    ASSUME TypeOK, PktsBound, count_thread
    PROVE  CountEffect /\ TypeOK'
<1> USE Basics
<1>1. cnt.n \in Threads /\ cnt.n \in Cpus BY ThreadsInCpus DEF TypeOK
<1>2. Step(cnt.n) \in Threads BY <1>1, ThreadsInCpus DEF Step, Threads
<1>3. th[cnt.n].npkts \in 0 .. MaxPkts BY <1>1, Zenon DEF TypeOK
<1>4. Threads' = Threads BY DEF count_thread, CountTop, Before, Sleep, After, Show, Threads
<1>5. Zero \in Counters BY DEF Zero, Counters
<1>6. CASE CountTop BY <1>6, <1>4 DEF CountTop, Counting, CountEffect, TypeOK
<1>7. CASE Before
  <2>1. [cnt.before EXCEPT ![cnt.n] = th[cnt.n].npkts] \in Counters
      BY <1>1, <1>3 DEF TypeOK, Counters
  <2> QED BY <1>1, <1>2, <1>4, <1>7, <2>1, Zenon DEF Before, Counting, CountEffect, TypeOK
<1>8. CASE Sleep BY <1>8, <1>4 DEF Sleep, Counting, CountEffect, TypeOK
<1>9. CASE After
  <2>1. [cnt.after EXCEPT ![cnt.n] = th[cnt.n].npkts] \in Counters
      BY <1>1, <1>3 DEF TypeOK, Counters
  <2> QED BY <1>1, <1>2, <1>4, <1>9, <2>1, Zenon DEF After, Counting, CountEffect, TypeOK
<1>10. CASE Show BY <1>5, <1>10, <1>4, Zenon DEF Show, Counting, CountEffect, TypeOK
<1> QED BY <1>6, <1>7, <1>8, <1>9, <1>10 DEF count_thread

\* A step of count_thread() keeps the invariant.
LEMMA CountInvariant ==
    ASSUME IInv, count_thread
    PROVE  IInv'
<1>1. CountEffect /\ TypeOK' BY CountSteps DEF IInv
<1>2. PktsBound' /\ MainInv' /\ PortInv'
    BY <1>1 DEF IInv, CountEffect, PktsBound, MainInv, PortInv
<1>3. main.pc \notin {"open", "spawn", "count", "close", "closed"}
    BY <1>1 DEF IInv, CountEffect, CountInv
<1>4. ThreadInv' BY <1>1, <1>3 DEF IInv, CountEffect, ThreadInv
<1>5. CountInv' BY <1>1, <1>3 DEF IInv, CountEffect, CountInv
<1>6. MappedUntilJoin'
    BY <1>1 DEF IInv, CountEffect, MappedUntilJoin, Mapped, Threads
<1> QED BY <1>1, <1>2, <1>4, <1>5, <1>6 DEF IInv

------------------------------------------------------------------------------
\* A step of main() that leaves the threads and the ports alone, or the signal.
LEMMA QuietInvariant ==
    ASSUME IInv, SpawnCount \/ JoinCount \/ Release \/ Signal
    PROVE  IInv'
<1> USE Basics DEF IInv
<1>1. UNCHANGED <<ncpus, port, th>> /\ Threads' = Threads
    BY DEF SpawnCount, JoinCount, Release, Signal, Threads
<1>2. ncpus \in Nat /\ \A t \in Cpus : t \in Threads <=> t < ncpus BY ThreadsInCpus
<1>3. TypeOK' BY <1>1, Zenon DEF SpawnCount, JoinCount, Release, Signal, TypeOK
<1>4. PktsBound' BY <1>1 DEF PktsBound
<1>5. MainInv' BY DEF SpawnCount, JoinCount, Release, Signal, TypeOK, MainInv
<1>6. PortInv'
    BY <1>1, <1>2 DEF SpawnCount, JoinCount, Release, Signal, TypeOK, MainInv, PortInv
<1>7. ThreadInv'
  <2>1. CASE SpawnCount
    <3>1. main.pc = "count" /\ main'.pc = "jcount" /\ main'.n = main.n /\ th' = th /\ ncpus' = ncpus
        BY <2>1 DEF SpawnCount, TypeOK
    <3> QED BY <3>1 DEF ThreadInv
  <2>2. CASE JoinCount
    <3>1. /\ main.pc = "jcount" /\ main'.pc = "close" /\ th' = th /\ main.n = ncpus
          /\ main'.n = main.n /\ main'.i = 0
        BY <2>2 DEF JoinCount, TypeOK, MainInv
    <3>2. \A t \in Cpus : ~(t < 0) OBVIOUS
    <3> QED BY <3>1, <3>2 DEF ThreadInv
  <2>3. CASE Release
      BY <1>1, <1>2, <2>3 DEF Release, TypeOK, ThreadInv
  <2>4. CASE Signal BY <1>1, <2>4 DEF Signal, ThreadInv
  <2> QED BY <2>1, <2>2, <2>3, <2>4
<1>8. CountInv' BY <1>1 DEF SpawnCount, JoinCount, Release, Signal, TypeOK, CountInv
<1>9. MappedUntilJoin'
    BY <1>1 DEF SpawnCount, JoinCount, Release, Signal, TypeOK, MappedUntilJoin, Mapped, CountInv
<1> QED BY <1>3, <1>4, <1>5, <1>6, <1>7, <1>8, <1>9

\* The port of CPU main.n is opened, or the set-up fails.
LEMMA OpenPortInvariant ==
    ASSUME IInv, OpenPort
    PROVE  IInv'
<1> USE Basics DEF IInv
<1>1. main.pc = "open" /\ UNCHANGED <<ncpus, th, pages, cnt>> /\ Threads' = Threads
    BY DEF OpenPort, Threads
<1>2. ncpus \in Nat /\ main.n < ncpus /\ main.n \in Cpus /\ main.i = 0
    BY <1>1, ThreadsInCpus DEF MainInv, TypeOK, Cpus
<1>3. \A t \in Cpus : th[t].pc = "off" BY <1>1 DEF ThreadInv
<1>4. PktsBound' /\ CountInv' /\ MappedUntilJoin'
  <2>1. MappedUntilJoin' BY <1>1, <1>3, ThreadsInCpus, Zenon DEF MappedUntilJoin
  <2>2. main'.pc \in {"open", "spawn", "close"} /\ cnt.pc = "off"
      BY <1>1, Zenon DEF OpenPort, TypeOK, CountInv
  <2> QED BY <1>1, <1>3, <2>1, <2>2 DEF PktsBound, CountInv
<1>5. CASE port' = port /\ main' = [main EXCEPT !.pc = "close"] /\ caught' = TRUE
  <2>1. main'.pc = "close" /\ main'.n = main.n /\ main'.i = 0
      BY <1>2, <1>5 DEF TypeOK
  <2>2. TypeOK' BY <1>1, <1>5 DEF TypeOK
  <2>3. MainInv' BY <1>1, <1>2, <2>1 DEF MainInv, TypeOK
  <2>4. PortInv' BY <1>1, <1>5, <2>1 DEF PortInv
  <2>5. ThreadInv' BY <1>1, <1>3, <2>1 DEF ThreadInv, CountInv
  <2> QED BY <1>4, <2>2, <2>3, <2>4, <2>5
<1>6. CASE /\ port' = [port EXCEPT ![main.n] = "open"] /\ caught' = caught
           /\ main' = IF main.n + 1 = ncpus THEN [main EXCEPT !.pc = "spawn", !.n = 0]
                                            ELSE [main EXCEPT !.n = @ + 1]
  <2>1. IF main.n + 1 = ncpus THEN main'.pc = "spawn" /\ main'.n = 0
                              ELSE main'.pc = "open" /\ main'.n = main.n + 1
      BY <1>1, <1>6 DEF TypeOK
  <2>2. main'.i = 0 BY <1>2, <1>6 DEF TypeOK
  <2>3. TypeOK'
    <3>1. main' \in [pc : {"open", "spawn", "count", "jcount", "close", "closed", "crashed"},
                     n : 0 .. MaxCpus, i : 0 .. MaxCpus]
      <4>1. CASE main.n + 1 = ncpus
        <5>1. main' = [main EXCEPT !.pc = "spawn", !.n = 0] BY <1>6, <4>1
        <5>2. 0 \in 0 .. MaxCpus OBVIOUS
        <5> QED BY <5>1, <5>2, Zenon DEF TypeOK
      <4>2. CASE main.n + 1 # ncpus
        <5>1. main' = [main EXCEPT !.n = @ + 1] BY <1>6, <4>2
        <5>2. main.n + 1 \in 0 .. MaxCpus BY <1>2 DEF TypeOK
        <5> QED BY <5>1, <5>2 DEF TypeOK
      <4> QED BY <4>1, <4>2
    <3>2. port' \in [Cpus -> {"none", "open", "closed"}] BY <1>2, <1>6 DEF TypeOK
    <3> QED BY <1>1, <1>6, <3>1, <3>2 DEF TypeOK
  <2>4. MainInv' BY <1>1, <1>2, <2>1, <2>2 DEF MainInv, TypeOK
  <2>5. \A t \in Cpus : port'[t] = "open" <=> t < main.n + 1
      BY <1>1, <1>2, <1>6 DEF PortInv, TypeOK
  <2>6. PortInv' BY <1>1, <1>2, <2>1, <2>5 DEF PortInv
  <2>7. ThreadInv' BY <1>1, <1>3, <2>1 DEF ThreadInv
  <2> QED BY <1>4, <2>3, <2>4, <2>6, <2>7
<1> QED BY <1>5, <1>6, Zenon DEF OpenPort

\* The thread of CPU main.n is created.
LEMMA SpawnInvariant ==
    ASSUME IInv, Spawn
    PROVE  IInv'
<1> USE Basics DEF IInv
<1>1. main.pc = "spawn" /\ UNCHANGED <<ncpus, port, pages, caught, cnt>> /\ Threads' = Threads
    BY DEF Spawn, Threads
<1>2. ncpus \in Nat /\ main.n \in Nat /\ main.n < ncpus /\ main.n \in Cpus /\ main.i = 0
    BY <1>1, ThreadsInCpus DEF MainInv, TypeOK, Cpus
<1>3. /\ th'[main.n].pc = "alloc" /\ th'[main.n].k = th[main.n].k
      /\ th'[main.n].npkts = th[main.n].npkts
      /\ \A t \in Cpus : t # main.n => th'[t] = th[t]
    BY <1>2 DEF Spawn, TypeOK
<1>4. main'.n = main.n + 1 /\ main'.i = 0
      /\ main'.pc = IF main.n + 1 = ncpus THEN "count" ELSE "spawn"
    BY <1>1, <1>2 DEF Spawn, TypeOK
<1>5. TypeOK'
  <2>1. main' \in [pc : {"open", "spawn", "count", "jcount", "close", "closed", "crashed"},
                   n : 0 .. MaxCpus, i : 0 .. MaxCpus]
    <3>1. main.n + 1 \in 0 .. MaxCpus BY <1>2 DEF TypeOK
    <3>2. PICK pc \in {"spawn", "count"} : main' = [main EXCEPT !.n = @ + 1, !.pc = pc]
        BY <1>1, Zenon DEF Spawn, TypeOK
    <3> QED BY <3>1, <3>2, Zenon DEF TypeOK
  <2>2. th' \in [Cpus -> [pc : {"off", "alloc", "top", "fill", "sync", "done"},
                         k : 0 .. MaxPkts, npkts : 0 .. MaxPkts]]
      BY <1>2 DEF Spawn, TypeOK
  <2> QED BY <1>1, <2>1, <2>2 DEF TypeOK
<1>6. PktsBound' BY <1>2, <1>3, Zenon DEF PktsBound
<1>7. MainInv' BY <1>1, <1>2, <1>4 DEF MainInv
<1>8. PortInv' BY <1>1, <1>4 DEF PortInv
<1>9. ThreadInv'
  <2>1. ASSUME NEW t \in Cpus, main.n + 1 <= t
        PROVE  th'[t].pc = "off"
    <3>1. t \in Nat /\ t # main.n /\ main.n <= t BY <1>2, <2>1
    <3> QED BY <1>1, <1>3, <3>1 DEF ThreadInv
  <2>2. ASSUME NEW t \in Cpus, t < main.n + 1
        PROVE  th'[t].pc # "off"
    <3>1. CASE t = main.n BY <1>3, <3>1
    <3>2. CASE t # main.n
      <4>1. t \in Nat /\ t < main.n BY <1>2, <2>2, <3>2
      <4> QED BY <1>1, <1>3, <3>2, <4>1 DEF ThreadInv
    <3> QED BY <3>1, <3>2
  <2> QED BY <1>1, <1>2, <1>4, <2>1, <2>2 DEF ThreadInv
<1>10. CountInv' BY <1>1, <1>4 DEF CountInv
<1>11. MappedUntilJoin'
  <2>1. Mapped' BY <1>1, <1>2 DEF Mapped, PortInv
  <2> QED BY <2>1 DEF MappedUntilJoin
<1> QED BY <1>5, <1>6, <1>7, <1>8, <1>9, <1>10, <1>11

\* A thread is joined and its port closed: the one place where the rings may go
\* under another thread.
LEMMA JoinCloseInvariant ==
    ASSUME IInv, JoinClose
    PROVE  IInv'
<1> USE Basics DEF IInv
<1>1. main.pc = "close" /\ UNCHANGED <<ncpus, th, pages, caught, cnt>> /\ Threads' = Threads
    BY DEF JoinClose, Threads
<1>2. /\ main.i \in Nat /\ main.n \in Nat /\ main.i < main.n /\ main.i \in Cpus
      /\ main.n <= ncpus /\ ncpus \in Nat
    BY <1>1, ThreadsInCpus DEF JoinClose, MainInv, TypeOK, Cpus
<1>3. PktsBound' BY <1>1 DEF PktsBound
<1>4. CASE th[main.i].pc = "off" /\ Crash /\ port' = port
  <2>1. main'.pc = "crashed" /\ main'.n = main.n /\ main'.i = main.i
      BY <1>4 DEF Crash, TypeOK
  <2>2. TypeOK' BY <1>1, <1>4 DEF Crash, TypeOK
  <2>3. MainInv' /\ PortInv' /\ ThreadInv' /\ CountInv'
      BY <1>1, <2>1 DEF MainInv, PortInv, ThreadInv, CountInv
  <2>4. MappedUntilJoin' BY <1>1, <1>4 DEF MappedUntilJoin, Mapped
  <2> QED BY <1>3, <2>2, <2>3, <2>4
<1>5. CASE /\ th[main.i].pc \in {"off", "done"}
           /\ port' = [port EXCEPT ![main.i] = "closed"]
           /\ main' = [main EXCEPT !.i = @ + 1]
  <2>1. main'.pc = "close" /\ main'.n = main.n /\ main'.i = main.i + 1
      BY <1>1, <1>5 DEF TypeOK
  <2>2. TypeOK' BY <1>1, <1>2, <1>5 DEF TypeOK
  <2>3. MainInv' BY <1>1, <1>2, <2>1 DEF MainInv
  <2>4. PortInv'
    <3>1. \A t \in Cpus : port'[t] = "open" <=> main.i + 1 <= t /\ t < main.n
      <4>1. \A t \in Cpus : port[t] = "open" <=> main.i <= t /\ t < main.n
          BY <1>1, Zenon DEF PortInv
      <4>2. \A t \in Cpus : port'[t] = IF t = main.i THEN "closed" ELSE port[t]
          BY <1>5, Zenon DEF TypeOK
      <4> SUFFICES ASSUME NEW t \in Cpus
                   PROVE  port'[t] = "open" <=> main.i + 1 <= t /\ t < main.n
          OBVIOUS
      <4>3. t \in Nat BY DEF Cpus
      <4>4. CASE t = main.i BY <1>2, <4>2, <4>4
      <4>5. CASE t # main.i
        <5>1. main.i <= t <=> main.i + 1 <= t BY <1>2, <4>3, <4>5
        <5> QED BY <4>1, <4>2, <4>5, <5>1, Zenon
      <4> QED BY <4>4, <4>5
    <3> QED BY <2>1, <3>1 DEF PortInv
  <2>5. ThreadInv'
    <3>1. \A t \in Cpus : t < main.i + 1 => th[t].pc \in {"off", "done"}
        BY <1>1, <1>2, <1>5 DEF ThreadInv
    <3> QED BY <1>1, <2>1, <3>1, Zenon DEF ThreadInv
  <2>6. CountInv' BY <1>1, <2>1 DEF CountInv
  <2>7. MappedUntilJoin'
    <3> SUFFICES ASSUME NEW t \in Threads, th[t].pc \in {"alloc", "fill", "sync"}, ~Mapped'
                 PROVE  t # 0 /\ caught /\ th[0].pc = "done" /\ cnt.pc = "done"
        BY <1>1 DEF MappedUntilJoin
    <3>1. t \in Cpus BY ThreadsInCpus
    <3>2. cnt.pc = "done" /\ caught BY <1>1, <3>1 DEF CountInv
    <3>3. CASE main.i = 0
      <4>1. th[0].pc # "off" BY <1>1, <1>2, <3>2, <3>3 DEF ThreadInv
      <4> QED BY <1>5, <3>2, <3>3, <4>1
    <3>4. CASE main.i # 0
      <4>1. ~Mapped BY <1>2, <1>5, <3>4 DEF Mapped, TypeOK
      <4> QED BY <4>1 DEF MappedUntilJoin
    <3> QED BY <3>3, <3>4
  <2> QED BY <1>3, <2>2, <2>3, <2>4, <2>5, <2>6, <2>7
<1> QED BY <1>4, <1>5 DEF JoinClose

------------------------------------------------------------------------------
\* IInv is an invariant.
LEMMA Invariant == Spec => []IInv
<1>1. IInv /\ [Next]_vars => IInv'
  <2> SUFFICES ASSUME IInv, [Next]_vars PROVE IInv' OBVIOUS
  <2>1. CASE main_body
      BY <2>1, OpenPortInvariant, SpawnInvariant, JoinCloseInvariant, QuietInvariant
      DEF main_body
  <2>2. CASE count_thread BY <2>2, CountInvariant
  <2>3. CASE Signal BY <2>3, QuietInvariant
  <2>4. CASE \E t \in Threads : thread_body(t) BY <2>4, ThreadInvariant
  <2>5. CASE UNCHANGED vars
      BY <2>5 DEF vars, IInv, TypeOK, PktsBound, MainInv, PortInv, ThreadInv, CountInv,
                  MappedUntilJoin, Mapped, Threads
  <2> QED BY <2>1, <2>2, <2>3, <2>4, <2>5 DEF Next, Ended
<1> QED BY <1>1, InitInv, PTL DEF Spec

(***************************************************************************)
(* For any number of CPUs: when main() has released the devices no thread  *)
(* runs and no port is open, whichever step of the set-up failed.          *)
(***************************************************************************)
THEOREM ReleasedAtRestTheorem == Spec => []ReleasedAtRest
<1>1. IInv => ReleasedAtRest BY DEF IInv, PortInv, ThreadInv, CountInv, ReleasedAtRest
<1> QED BY <1>1, Invariant, PTL

(***************************************************************************)
(* For any number of CPUs: a thread in an iteration has the rings mapped   *)
(* until main() has joined count_thread() and the thread of CPU 0.         *)
(***************************************************************************)
THEOREM MappedUntilJoinTheorem == Spec => []MappedUntilJoin
<1>1. IInv => MappedUntilJoin BY DEF IInv
<1> QED BY <1>1, Invariant, PTL

------------------------------------------------------------------------------
(* The rates.  A packet is a pair: the thread that sent it, and how many    *)
(* it had sent with it.                                                     *)

\* The packets lo[t] + 1 to hi[t] of every thread t of S, as pairs.
Packets(S, lo, hi) == {p \in S \X Nat : lo[p[1]] < p[2] /\ p[2] <= hi[p[1]]}

\* The packets of one thread apart from the others.
LEMMA PacketsOf ==
    ASSUME NEW s, NEW lo, NEW hi, NEW x \in s, lo[x] \in Nat, hi[x] \in Nat, lo[x] <= hi[x],
           IsFiniteSet(Packets(s \ {x}, lo, hi))
    PROVE  /\ IsFiniteSet(Packets(s, lo, hi))
           /\ Cardinality(Packets(s, lo, hi))
                = (hi[x] - lo[x]) + Cardinality(Packets(s \ {x}, lo, hi))
<1> DEFINE B == {x} \X (lo[x] + 1 .. hi[x])
           R == Packets(s \ {x}, lo, hi)
<1>1. IsFiniteSet({x}) /\ Cardinality({x}) = 1 BY FS_Singleton, Zenon
<1>2. IsFiniteSet(lo[x] + 1 .. hi[x]) /\ Cardinality(lo[x] + 1 .. hi[x]) = hi[x] - lo[x]
  <2> DEFINE a == lo[x] + 1
  <2>1. a \in Int /\ hi[x] \in Int OBVIOUS
  <2> HIDE DEF a
  <2>2. IsFiniteSet(a .. hi[x]) /\ Cardinality(a .. hi[x]) = IF a > hi[x] THEN 0 ELSE hi[x] - a + 1
      BY <2>1, FS_Interval, Zenon
  <2> QED BY <2>2 DEF a
<1>3. IsFiniteSet(B) /\ Cardinality(B) = Cardinality({x}) * Cardinality(lo[x] + 1 .. hi[x])
    BY <1>1, <1>2, FS_Product, Zenon
<1>4. IsFiniteSet(B) /\ Cardinality(B) = hi[x] - lo[x] BY <1>1, <1>2, <1>3
<1>5. Packets(s, lo, hi) = R \cup B BY DEF Packets
<1>6. R \cap B = {} BY DEF Packets
<1> HIDE DEF R, B
<1>7. /\ IsFiniteSet(R \cup B)
      /\ Cardinality(R \cup B) = Cardinality(R) + Cardinality(B) - Cardinality(R \cap B)
    BY <1>4, FS_Union, Zenon DEF R
<1>8. Cardinality(R) \in Nat BY FS_CardinalityType DEF R
<1>9. Cardinality(R \cap B) = 0 BY <1>6, FS_EmptySet
<1>10. Cardinality(R \cup B) = (hi[x] - lo[x]) + Cardinality(R) BY <1>4, <1>7, <1>8, <1>9
<1> QED BY <1>5, <1>7, <1>10 DEF R

LEMMA PacketsFinite ==
    ASSUME NEW S, IsFiniteSet(S), NEW lo, NEW hi, NEW m \in Nat,
           \A x \in S : hi[x] \in Nat /\ hi[x] <= m
    PROVE  IsFiniteSet(Packets(S, lo, hi))
<1>1. IsFiniteSet(0 .. m) BY FS_Interval
<1>2. IsFiniteSet(S \X (0 .. m)) BY <1>1, FS_Product
<1>3. Packets(S, lo, hi) \subseteq S \X (0 .. m) BY DEF Packets
<1> QED BY <1>2, <1>3, FS_Subset

\* A function that adds up hi[x] - lo[x] over the subsets of S, as the folds of
\* FiniteSetsExt are defined.
AddsUp(S, lo, hi, g) ==
    g = [s \in SUBSET S |->
            IF s = {} THEN 0
            ELSE (hi[CHOOSE x \in s : TRUE] - lo[CHOOSE x \in s : TRUE])
                    + g[s \ {CHOOSE x \in s : TRUE}]]

LEMMA AddsUpExists ==
    ASSUME NEW S, IsFiniteSet(S), NEW lo, NEW hi, NEW m \in Nat,
           \A x \in S : lo[x] \in Nat /\ hi[x] \in Nat /\ lo[x] <= hi[x] /\ hi[x] <= m
    PROVE  AddsUp(S, lo, hi, [s \in SUBSET S |-> Cardinality(Packets(s, lo, hi))])
<1> DEFINE w == [s \in SUBSET S |-> Cardinality(Packets(s, lo, hi))]
<1>1. ASSUME NEW s \in SUBSET S
      PROVE  w[s] = IF s = {} THEN 0
                    ELSE (hi[CHOOSE x \in s : TRUE] - lo[CHOOSE x \in s : TRUE])
                            + w[s \ {CHOOSE x \in s : TRUE}]
  <2>1. CASE s = {}
    <3>1. Packets({}, lo, hi) = {} BY DEF Packets
    <3> QED BY <2>1, <3>1, FS_EmptySet
  <2>2. CASE s # {}
    <3> DEFINE c == CHOOSE x \in s : TRUE
    <3>1. c \in s BY <2>2
    <3> HIDE DEF c
    <3>2. s \ {c} \in SUBSET S /\ c \in S BY <3>1
    <3>3. IsFiniteSet(s \ {c}) BY <3>2, FS_Subset
    <3>4. IsFiniteSet(Packets(s \ {c}, lo, hi)) BY <3>2, <3>3, PacketsFinite
    <3>5. w[s] = (hi[c] - lo[c]) + w[s \ {c}] BY <3>1, <3>2, <3>4, PacketsOf
    <3> HIDE DEF w
    <3> QED BY <2>2, <3>5 DEF c
  <2> QED BY <2>1, <2>2
<1>2. w = [s \in SUBSET S |-> w[s]] OBVIOUS
<1> HIDE DEF w
<1>3. AddsUp(S, lo, hi, w) BY <1>1, <1>2, Zenon DEF AddsUp
<1> QED BY <1>3 DEF w

LEMMA AddsUpUnique ==
    ASSUME NEW S, IsFiniteSet(S), NEW lo, NEW hi, NEW g, NEW h,
           AddsUp(S, lo, hi, g), AddsUp(S, lo, hi, h)
    PROVE  g[S] = h[S]
<1> DEFINE T == {s \in SUBSET S : g[s] # h[s]}
           Sizes == {Cardinality(s) : s \in T}
           L == {p \in Nat \X Nat : p[1] < p[2]}
<1>1. SUFFICES ASSUME T # {} PROVE FALSE OBVIOUS
<1>2. \A s \in SUBSET S : IsFiniteSet(s) /\ Cardinality(s) \in Nat BY FS_Subset, FS_CardinalityType
<1>3. Sizes \subseteq Nat /\ Sizes # {} BY <1>1, <1>2
<1>4. PICK n \in Sizes : \A k \in Sizes : ~(<<k, n>> \in L)
  <2>1. IsWellFoundedOn(L, Nat) BY NatLessThanWellFounded DEF OpToRel
  <2> HIDE DEF L, Sizes
  <2> QED BY <1>3, <2>1, WFMin, Zenon
<1>5. PICK s \in T : n = Cardinality(s) BY <1>4
<1>6. s # {} BY <1>5 DEF AddsUp
<1> DEFINE c == CHOOSE x \in s : TRUE
<1>7. c \in s BY <1>6
<1>8. /\ g[s] = (hi[c] - lo[c]) + g[s \ {c}]
      /\ h[s] = (hi[c] - lo[c]) + h[s \ {c}]
    BY <1>5, <1>6 DEF AddsUp
<1> HIDE DEF c
<1>9. s \ {c} \in T BY <1>5, <1>8
<1>10. Cardinality(s \ {c}) \in Sizes BY <1>9
<1>11. Cardinality(s \ {c}) = n - 1 /\ n \in Nat /\ n - 1 \in Nat
  <2>1. IsFiniteSet(s) /\ Cardinality(s) \in Nat /\ Cardinality(s \ {c}) \in Nat BY <1>2, <1>5, <1>9
  <2>2. Cardinality(s \ {c}) = Cardinality(s) - 1 BY <1>7, <2>1, FS_RemoveElement, Zenon
  <2> QED BY <1>5, <2>1, <2>2
<1>12. <<n - 1, n>> \in L BY <1>11
<1> QED BY <1>4, <1>10, <1>11, <1>12

\* So whatever adds up the differences comes to the number of the packets.
LEMMA AddsUpIs ==
    ASSUME NEW S, IsFiniteSet(S), NEW lo, NEW hi, NEW m \in Nat,
           \A x \in S : lo[x] \in Nat /\ hi[x] \in Nat /\ lo[x] <= hi[x] /\ hi[x] <= m
    PROVE  (CHOOSE g : AddsUp(S, lo, hi, g))[S] = Cardinality(Packets(S, lo, hi))
<1> DEFINE w == [s \in SUBSET S |-> Cardinality(Packets(s, lo, hi))]
           it == CHOOSE g : AddsUp(S, lo, hi, g)
<1>1. AddsUp(S, lo, hi, w) BY AddsUpExists, Zenon
<1>2. w[S] = Cardinality(Packets(S, lo, hi)) OBVIOUS
<1> HIDE DEF w
<1>3. AddsUp(S, lo, hi, it) BY <1>1, Zenon
<1> HIDE DEF it
<1>4. it[S] = w[S] BY <1>1, <1>3, AddsUpUnique
<1> QED BY <1>2, <1>4 DEF it

------------------------------------------------------------------------------
Sent == [t \in Cpus |-> th[t].npkts]

\* The threads whose counters count_thread() has read in this interval, and
\* those it has read a second time.
Gathered(t) == \/ cnt.pc = "before" /\ t < cnt.n
               \/ cnt.pc \in {"sleep", "after", "print"}
GatheredAgain(t) == (cnt.pc = "after" /\ t < cnt.n) \/ cnt.pc = "print"

\* A is what the rates printed so far have counted: packets that were sent, and
\* none of this interval.
Printed(A) ==
    /\ A \subseteq Packets(Threads, Zero, Sent) /\ shown <= Cardinality(A)
    /\ \A p \in A : Gathered(p[1]) => p[2] <= cnt.before[p[1]]

RateInv ==
    /\ shown \in Nat
    /\ cnt.pc \in {"off", "top", "sleep", "print"} => cnt.n = 0
    /\ \A t \in Threads : Gathered(t) => cnt.before[t] <= th[t].npkts
    /\ \A t \in Threads : GatheredAgain(t) => /\ cnt.before[t] <= cnt.after[t]
                                             /\ cnt.after[t] <= th[t].npkts
    /\ \E A : Printed(A)

\* The counters of a thread are numbers, and so they stay.
LEMMA Counts ==
    ASSUME TypeOK, NEW t \in Threads
    PROVE  /\ th[t].npkts \in Nat /\ th[t].npkts <= MaxPkts /\ Sent[t] = th[t].npkts /\ Zero[t] = 0
           /\ cnt.before[t] \in Nat /\ cnt.before[t] <= MaxPkts
           /\ cnt.after[t] \in Nat /\ cnt.after[t] <= MaxPkts
           /\ TypeOK' => th'[t].npkts \in Nat /\ Sent'[t] = th'[t].npkts
<1>1. t \in Cpus BY ThreadsInCpus
<1>2. th[t].npkts \in 0 .. MaxPkts BY <1>1 DEF TypeOK
<1>3. TypeOK' => th'[t].npkts \in 0 .. MaxPkts BY <1>1 DEF TypeOK
<1>4. Sent[t] = th[t].npkts /\ Sent'[t] = th'[t].npkts /\ Zero[t] = 0 BY <1>1 DEF Sent, Zero
<1>5. cnt.before[t] \in 0 .. MaxPkts /\ cnt.after[t] \in 0 .. MaxPkts
  <2>1. cnt.before \in Counters /\ cnt.after \in Counters BY DEF TypeOK
  <2> QED BY <1>1, <2>1 DEF Counters
<1> QED BY <1>2, <1>3, <1>4, <1>5, Basics

LEMMA SentFinite ==
    ASSUME TypeOK
    PROVE  IsFiniteSet(Threads) /\ IsFiniteSet(Packets(Threads, Zero, Sent))
<1>1. ncpus - 1 \in Int BY ThreadsInCpus
<1>2. IsFiniteSet(Threads) BY <1>1, FS_Interval DEF Threads
<1>3. IsFiniteSet(Packets(Threads, Zero, Sent)) BY <1>2, Basics, Counts, PacketsFinite, Zenon
<1> QED BY <1>2, <1>3

\* What pps adds up, and what RatesAddUp compares it with.
LEMMA SumOfSent ==
    ASSUME TypeOK
    PROVE  MapThenSumSet(LAMBDA t : th[t].npkts, Threads)
              = Cardinality(Packets(Threads, Zero, Sent))
<1> DEFINE Eq(g) == g = [s \in SUBSET Threads |->
                           IF s = {} THEN 0
                           ELSE th[CHOOSE x \in s : TRUE].npkts + g[s \ {CHOOSE x \in s : TRUE}]]
           w == [s \in SUBSET Threads |-> Cardinality(Packets(s, Zero, Sent))]
           it == CHOOSE g : Eq(g)
<1>1. \A t \in Threads : /\ Zero[t] \in Nat /\ Sent[t] \in Nat /\ Zero[t] <= Sent[t] /\ Sent[t] <= MaxPkts
                         /\ th[t].npkts = Sent[t] - Zero[t]
    BY Counts, Basics
<1>2. ASSUME NEW g PROVE Eq(g) <=> AddsUp(Threads, Zero, Sent, g)
  <2>1. ASSUME NEW s \in SUBSET Threads, s # {}
        PROVE  th[CHOOSE x \in s : TRUE].npkts
                  = Sent[CHOOSE x \in s : TRUE] - Zero[CHOOSE x \in s : TRUE]
    <3>1. (CHOOSE x \in s : TRUE) \in Threads BY <2>1
    <3> QED BY <1>1, <3>1
  <2> QED BY <2>1 DEF AddsUp
<1>3. MapThenSumSet(LAMBDA t : th[t].npkts, Threads) = it[Threads]
    BY Zenon DEF MapThenSumSet, MapThenFoldSet
<1>4. AddsUp(Threads, Zero, Sent, w) BY <1>1, SentFinite, Basics, AddsUpExists, Zenon
<1>5. w[Threads] = Cardinality(Packets(Threads, Zero, Sent)) OBVIOUS
<1> HIDE DEF w, Eq
<1>6. AddsUp(Threads, Zero, Sent, it) BY <1>2, <1>4, Zenon
<1> HIDE DEF it
<1>7. it[Threads] = w[Threads] BY <1>4, <1>6, SentFinite, AddsUpUnique
<1> QED BY <1>3, <1>5, <1>7

LEMMA SumOfRates ==
    ASSUME TypeOK, RateInv, cnt.pc = "print"
    PROVE  /\ IsFiniteSet(Packets(Threads, cnt.before, cnt.after))
           /\ pps \in Nat /\ pps <= Cardinality(Packets(Threads, cnt.before, cnt.after))
<1>1. \A t \in Threads : /\ cnt.before[t] \in Nat /\ cnt.after[t] \in Nat
                         /\ cnt.before[t] <= cnt.after[t] /\ cnt.after[t] <= MaxPkts
    BY Counts DEF RateInv, GatheredAgain
<1>2. IsFiniteSet(Packets(Threads, cnt.before, cnt.after)) BY <1>1, SentFinite, Basics, PacketsFinite
<1>3. MapThenSumSet(LAMBDA n : cnt.after[n] - cnt.before[n], Threads)
         = (CHOOSE g : AddsUp(Threads, cnt.before, cnt.after, g))[Threads]
    BY Zenon DEF MapThenSumSet, MapThenFoldSet, AddsUp
<1>4. (CHOOSE g : AddsUp(Threads, cnt.before, cnt.after, g))[Threads]
         = Cardinality(Packets(Threads, cnt.before, cnt.after))
    BY <1>1, SentFinite, Basics, AddsUpIs
<1>5. Cardinality(Packets(Threads, cnt.before, cnt.after)) \in Nat BY <1>2, FS_CardinalityType
<1>6. pps = Cardinality(Packets(Threads, cnt.before, cnt.after)) % ULONG
    BY <1>3, <1>4, Zenon DEF pps
<1>7. ULONG \in Nat /\ ULONG > 0 BY MainAssumption
<1>8. ASSUME NEW n \in Nat PROVE n % ULONG \in Nat /\ n % ULONG <= n BY <1>7
<1> QED BY <1>2, <1>5, <1>6, <1>8

\* A step that prints no rate: the threads send, and count_thread() reads what
\* they have sent.
LEMMA RateKeep ==
    ASSUME TypeOK, TypeOK', RateInv, ncpus' = ncpus, shown' = shown,
           \A t \in Threads : th[t].npkts <= th'[t].npkts,
           cnt'.pc \in {"off", "top", "sleep", "print"} => cnt'.n = 0,
           \A t \in Threads : Gathered(t)' =>
              \/ Gathered(t) /\ cnt'.before[t] = cnt.before[t]
              \/ cnt'.before[t] = th[t].npkts,
           \A t \in Threads : GatheredAgain(t)' =>
              \/ GatheredAgain(t) /\ cnt'.before[t] = cnt.before[t] /\ cnt'.after[t] = cnt.after[t]
              \/ Gathered(t) /\ cnt'.before[t] = cnt.before[t] /\ cnt'.after[t] = th[t].npkts
    PROVE  RateInv'
<1>1. Threads' = Threads BY DEF Threads
<1>2. /\ \A t \in Threads : Sent[t] = th[t].npkts /\ Sent[t] \in Nat /\ Zero[t] = 0
      /\ \A t \in Threads : Sent'[t] = th'[t].npkts /\ Sent'[t] \in Nat
    BY Counts
<1>3. \A t \in Threads : Gathered(t)' => cnt'.before[t] <= th'[t].npkts
  <2> SUFFICES ASSUME NEW t \in Threads, Gathered(t)' PROVE cnt'.before[t] <= th'[t].npkts OBVIOUS
  <2>1. th[t].npkts \in Nat /\ th'[t].npkts \in Nat /\ th[t].npkts <= th'[t].npkts BY <1>2
  <2>2. cnt.before[t] \in Nat BY Counts
  <2>3. Gathered(t) => cnt.before[t] <= th[t].npkts BY DEF RateInv
  <2> QED BY <2>1, <2>2, <2>3
<1>4. ASSUME NEW t \in Threads, GatheredAgain(t)'
      PROVE  cnt'.before[t] <= cnt'.after[t] /\ cnt'.after[t] <= th'[t].npkts
  <2>1. th[t].npkts \in Nat /\ th'[t].npkts \in Nat /\ th[t].npkts <= th'[t].npkts BY <1>2
  <2>2. cnt.before[t] \in Nat /\ cnt.after[t] \in Nat BY Counts
  <2>3. /\ Gathered(t) => cnt.before[t] <= th[t].npkts
        /\ GatheredAgain(t) => cnt.before[t] <= cnt.after[t] /\ cnt.after[t] <= th[t].npkts
      BY DEF RateInv
  <2> QED BY <1>4, <2>1, <2>2, <2>3
<1>5. PICK A : Printed(A) BY DEF RateInv
<1>6. Printed(A)'
  <2>1. ASSUME NEW p \in A
        PROVE  /\ p \in Threads \X Nat /\ p[1] \in Threads /\ p[2] \in Nat /\ 0 < p[2]
               /\ p[2] <= th[p[1]].npkts
    <3>1. p \in Threads \X Nat /\ Zero[p[1]] < p[2] /\ p[2] <= Sent[p[1]] BY <1>5 DEF Printed, Packets
    <3>2. p[1] \in Threads /\ p[2] \in Nat BY <3>1
    <3> QED BY <1>2, <3>1, <3>2
  <2>2. ASSUME NEW p \in A PROVE p \in Packets(Threads, Zero, Sent')
    <3>1. p[2] <= th'[p[1]].npkts BY <1>2, <2>1
    <3> QED BY <1>2, <2>1, <3>1 DEF Packets
  <2>3. ASSUME NEW p \in A, Gathered(p[1])' PROVE p[2] <= cnt'.before[p[1]]
    <3>1. Gathered(p[1]) => p[2] <= cnt.before[p[1]] BY <1>5 DEF Printed
    <3> QED BY <2>1, <2>3, <3>1
  <2>4. shown <= Cardinality(A) BY <1>5 DEF Printed
  <2> QED BY <1>1, <2>2, <2>3, <2>4 DEF Printed, Zero
<1> QED BY <1>1, <1>3, <1>4, <1>6 DEF RateInv

\* The rate that is printed counts packets that no earlier one has counted.
LEMMA RateShow ==
    ASSUME TypeOK, TypeOK', RateInv, Show
    PROVE  RateInv'
<1>1. /\ cnt.pc = "print" /\ cnt.n = 0 /\ shown \in Nat /\ shown' = shown + pps
      /\ cnt'.pc = "top" /\ cnt'.n = cnt.n /\ th' = th /\ Threads' = Threads
    BY DEF Show, Counting, RateInv, TypeOK, Threads
<1>2. PICK A : Printed(A) BY DEF RateInv
<1> DEFINE D == Packets(Threads, cnt.before, cnt.after)
<1>3. IsFiniteSet(D) /\ pps \in Nat /\ pps <= Cardinality(D) BY <1>1, SumOfRates
<1>4. A \cup D \subseteq Packets(Threads, Zero, Sent)
  <2> SUFFICES ASSUME NEW p \in D PROVE p \in Packets(Threads, Zero, Sent) BY <1>2 DEF Printed
  <2>1. p \in Threads \X Nat /\ cnt.before[p[1]] < p[2] /\ p[2] <= cnt.after[p[1]] BY DEF Packets
  <2>2. p[1] \in Threads /\ p[2] \in Nat BY <2>1
  <2>3. cnt.before[p[1]] \in Nat /\ cnt.after[p[1]] \in Nat BY <2>2, Counts
  <2>4. cnt.after[p[1]] <= th[p[1]].npkts BY <1>1, <2>2 DEF RateInv, GatheredAgain
  <2>5. Sent[p[1]] = th[p[1]].npkts /\ Sent[p[1]] \in Nat /\ Zero[p[1]] = 0
      BY <2>2, Counts
  <2>6. 0 < p[2] /\ p[2] <= Sent[p[1]] BY <2>1, <2>2, <2>3, <2>4, <2>5, Basics
  <2> QED BY <2>1, <2>5, <2>6 DEF Packets
<1>5. A \cap D = {}
  <2> SUFFICES ASSUME NEW p \in A, p \in D PROVE FALSE OBVIOUS
  <2>1. p \in Threads \X Nat /\ cnt.before[p[1]] < p[2] BY DEF Packets
  <2>2. p[2] <= cnt.before[p[1]] BY <1>1, <1>2 DEF Printed, Gathered
  <2>3. p[1] \in Threads /\ p[2] \in Nat BY <2>1
  <2>4. cnt.before[p[1]] \in Nat BY <2>3, Counts
  <2> QED BY <2>1, <2>2, <2>3, <2>4
<1>6. IsFiniteSet(A) /\ shown <= Cardinality(A) BY <1>2, SentFinite, FS_Subset DEF Printed
<1> HIDE DEF D
<1>7. shown + pps <= Cardinality(A \cup D)
  <2>1. Cardinality(A \cup D) = Cardinality(A) + Cardinality(D) - Cardinality(A \cap D)
      BY <1>3, <1>6, FS_Union
  <2>2. Cardinality(A) \in Nat /\ Cardinality(D) \in Nat BY <1>3, <1>6, FS_CardinalityType
  <2>3. Cardinality(A \cap D) = 0 BY <1>5, FS_EmptySet
  <2> QED BY <1>1, <1>3, <1>6, <2>1, <2>2, <2>3
<1>8. \A t : ~Gathered(t)' /\ ~GatheredAgain(t)' BY <1>1 DEF Gathered, GatheredAgain
<1>9. Sent' = Sent BY <1>1 DEF Sent
<1>10. PICK B : B = A \cup D BY Zenon
<1>11. Printed(B)'
  <2>1. B \subseteq Packets(Threads, Zero, Sent)' BY <1>1, <1>4, <1>9, <1>10 DEF Zero
  <2>2. shown' <= Cardinality(B) BY <1>1, <1>7, <1>10
  <2> QED BY <1>8, <2>1, <2>2, Zenon DEF Printed
<1> QED BY <1>1, <1>3, <1>8, <1>11 DEF RateInv

LEMMA RateThread ==
    ASSUME TypeOK, TypeOK', RateInv, NEW t \in Threads, thread_body(t)
    PROVE  RateInv'
<1>1. cnt' = cnt /\ shown' = shown /\ ncpus' = ncpus /\ t \in Cpus
    BY ThreadsInCpus DEF thread_body, Alloc, Top, Fill, Sync
<1>2. \A u \in Threads : th[u].npkts <= th'[u].npkts
  <2> SUFFICES ASSUME NEW u \in Threads PROVE th[u].npkts <= th'[u].npkts OBVIOUS
  <2>1. u \in Cpus /\ th[u].npkts \in Nat BY Counts, ThreadsInCpus
  <2>2. th[t].k \in Nat /\ th[t].npkts \in Nat BY <1>1, Counts, Basics DEF TypeOK
  <2>3. \/ th'[u].npkts = th[u].npkts
        \/ u = t /\ th'[u].npkts = th[t].npkts + th[t].k
    <3>1. CASE Alloc(t) \/ Top(t) BY <1>1, <2>1, <3>1 DEF Alloc, Top, TypeOK
    <3>2. CASE Fill(t) BY <1>1, <2>1, <3>2 DEF Fill, TypeOK
    <3>3. CASE Sync(t)
      <4>1. CASE th' = th BY <4>1
      <4>2. CASE th' = [th EXCEPT ![t] = [pc |-> "top", k |-> 0, npkts |-> @.npkts + @.k]]
          BY <1>1, <2>1, <4>2 DEF TypeOK
      <4>3. CASE th' = [th EXCEPT ![t] = [@ EXCEPT !.pc = "done", !.k = 0]]
        <5>1. th'[t] = [th[t] EXCEPT !.pc = "done", !.k = 0] /\ (u # t => th'[u] = th[u])
            BY <1>1, <2>1, <4>3 DEF TypeOK
        <5>2. th'[t].npkts = th[t].npkts BY <1>1, <5>1 DEF TypeOK
        <5> QED BY <5>1, <5>2, Zenon
      <4> QED BY <3>3, <4>1, <4>2, <4>3 DEF Sync
    <3> QED BY <3>1, <3>2, <3>3 DEF thread_body
  <2> QED BY <2>1, <2>2, <2>3
<1>3. \A u : (Gathered(u)' <=> Gathered(u)) /\ (GatheredAgain(u)' <=> GatheredAgain(u))
    BY <1>1 DEF Gathered, GatheredAgain
<1> QED BY <1>1, <1>2, <1>3, RateKeep DEF RateInv

LEMMA RateCount ==
    ASSUME TypeOK, TypeOK', RateInv, CountTop \/ Before \/ Sleep \/ After
    PROVE  RateInv'
<1>1. /\ th' = th /\ shown' = shown /\ ncpus' = ncpus /\ cnt.n \in Threads /\ cnt.n \in Nat
      /\ Threads \subseteq Nat /\ ncpus \in Nat /\ \A t \in Threads : t < ncpus
  <2>1. Threads \subseteq Nat /\ ncpus \in Nat /\ \A t \in Threads : t < ncpus
      BY ThreadsInCpus DEF Threads
  <2>2. cnt.n \in Threads BY DEF TypeOK
  <2>3. th' = th /\ shown' = shown /\ ncpus' = ncpus BY DEF CountTop, Before, Sleep, After
  <2>4. cnt.n \in Nat BY <2>1, <2>2, Zenon
  <2> QED BY <2>1, <2>2, <2>3, <2>4, Zenon
<1>2. \A t \in Threads : th[t].npkts <= th'[t].npkts
  <2> SUFFICES ASSUME NEW t \in Threads PROVE th[t].npkts <= th'[t].npkts OBVIOUS
  <2>1. th[t].npkts \in Nat /\ th'[t] = th[t] BY <1>1, Counts
  <2> QED BY <2>1
<1>3. CASE CountTop \/ Sleep
  <2>1. /\ cnt.pc \in {"top", "sleep"} /\ cnt'.pc \in {"done", "before", "after"}
        /\ cnt'.n = 0 /\ cnt'.before = cnt.before /\ cnt'.after = cnt.after
        /\ cnt'.pc = "after" => cnt.pc = "sleep"
      BY <1>3 DEF CountTop, Sleep, Counting, TypeOK, RateInv
  <2>2. \A t \in Threads : (Gathered(t)' => Gathered(t)) /\ ~GatheredAgain(t)'
      BY <1>1, <2>1 DEF Gathered, GatheredAgain
  <2> QED BY <1>1, <1>2, <2>1, <2>2, RateKeep
<1>4. CASE Before
  <2>1. /\ cnt.pc = "before" /\ cnt'.n = Step(cnt.n)
        /\ cnt'.pc = IF Step(cnt.n) = 0 THEN "sleep" ELSE "before"
        /\ \A t \in Threads : cnt'.before[t] = IF t = cnt.n THEN th[t].npkts ELSE cnt.before[t]
      BY <1>1, <1>4, ThreadsInCpus DEF Before, Counting, TypeOK, Counters
  <2>2. \A t \in Threads : (Gathered(t)' => t = cnt.n \/ Gathered(t)) /\ ~GatheredAgain(t)'
      BY <1>1, <2>1 DEF Gathered, GatheredAgain, Step
  <2> QED BY <1>1, <1>2, <2>1, <2>2, RateKeep
<1>5. CASE After
  <2>1. /\ cnt.pc = "after" /\ cnt'.n = Step(cnt.n) /\ cnt'.before = cnt.before
        /\ cnt'.pc = IF Step(cnt.n) = 0 THEN "print" ELSE "after"
        /\ \A t \in Threads : cnt'.after[t] = IF t = cnt.n THEN th[t].npkts ELSE cnt.after[t]
      BY <1>1, <1>5, ThreadsInCpus DEF After, Counting, TypeOK, Counters
  <2>2. \A t \in Threads : Gathered(t) /\ (GatheredAgain(t)' => t = cnt.n \/ GatheredAgain(t))
      BY <1>1, <2>1 DEF Gathered, GatheredAgain, Step
  <2> QED BY <1>1, <1>2, <2>1, <2>2, RateKeep
<1> QED BY <1>3, <1>4, <1>5

LEMMA RateMain ==
    ASSUME TypeOK, TypeOK', RateInv, CountInv, main_body \/ Signal \/ UNCHANGED vars
    PROVE  RateInv'
<1>1. /\ shown' = shown /\ ncpus' = ncpus /\ cnt'.n = cnt.n
      /\ cnt'.before = cnt.before /\ cnt'.after = cnt.after
      /\ cnt'.pc = cnt.pc \/ (cnt.pc = "off" /\ cnt'.pc = "top")
  <2>1. CASE SpawnCount BY <2>1 DEF SpawnCount, TypeOK, CountInv
  <2>2. CASE cnt' = cnt /\ shown' = shown /\ ncpus' = ncpus BY <2>2
  <2> QED BY <2>1, <2>2 DEF main_body, OpenPort, Spawn, JoinCount, JoinClose, Release, Signal, vars
<1>2. \A t \in Threads : th'[t].npkts = th[t].npkts
  <2>1. CASE th' = th BY <2>1
  <2>2. CASE Spawn
    <3>1. th' = [th EXCEPT ![main.n].pc = "alloc"] BY <2>2 DEF Spawn
    <3> QED BY <3>1, ThreadsInCpus DEF TypeOK
  <2> QED BY <2>1, <2>2 DEF main_body, OpenPort, SpawnCount, JoinCount, JoinClose, Release, Signal, vars
<1>3. \A t \in Threads : th[t].npkts <= th'[t].npkts BY <1>2, Counts
<1>4. \A t : (Gathered(t)' <=> Gathered(t)) /\ (GatheredAgain(t)' <=> GatheredAgain(t))
    BY <1>1 DEF Gathered, GatheredAgain
<1>5. cnt'.pc \in {"off", "top", "sleep", "print"} => cnt'.n = 0 BY <1>1 DEF RateInv
<1> QED BY <1>1, <1>3, <1>4, <1>5, RateKeep

LEMMA RateInit == Init => RateInv
<1> SUFFICES ASSUME Init PROVE RateInv OBVIOUS
<1>1. /\ shown = 0 /\ cnt.pc = "off" /\ cnt.n = 0 BY DEF Init
<1>2. \A t : ~Gathered(t) /\ ~GatheredAgain(t) BY <1>1 DEF Gathered, GatheredAgain
<1>3. Printed({}) BY <1>1, FS_EmptySet DEF Printed
<1> QED BY <1>1, <1>2, <1>3 DEF RateInv

(***************************************************************************)
(* For any number of CPUs and any number of intervals: the rates that      *)
(* count_thread() prints never add up to more than the threads have sent.  *)
(***************************************************************************)
THEOREM RatesAddUpTheorem == Spec => []RatesAddUp
<1>1. IInv /\ IInv' /\ RateInv /\ [Next]_vars => RateInv'
  <2> SUFFICES ASSUME IInv, IInv', RateInv, [Next]_vars PROVE RateInv' OBVIOUS
  <2>1. TypeOK /\ TypeOK' /\ CountInv BY DEF IInv
  <2>2. CASE main_body \/ Signal \/ UNCHANGED vars BY <2>1, <2>2, RateMain
  <2>3. CASE count_thread BY <2>1, <2>3, RateCount, RateShow DEF count_thread
  <2>4. CASE \E t \in Threads : thread_body(t) BY <2>1, <2>4, RateThread
  <2> QED BY <2>2, <2>3, <2>4 DEF Next, Ended
<1>2. IInv /\ RateInv => RatesAddUp
  <2> SUFFICES ASSUME IInv, RateInv PROVE RatesAddUp OBVIOUS
  <2>1. TypeOK /\ shown \in Nat BY DEF IInv, RateInv
  <2>2. PICK A : Printed(A) BY DEF RateInv
  <2>3. Cardinality(A) <= Cardinality(Packets(Threads, Zero, Sent)) /\ IsFiniteSet(A)
      BY <2>1, <2>2, SentFinite, FS_Subset DEF Printed
  <2>4. Cardinality(A) \in Nat /\ Cardinality(Packets(Threads, Zero, Sent)) \in Nat
      BY <2>1, <2>3, SentFinite, FS_CardinalityType
  <2>5. shown <= Cardinality(Packets(Threads, Zero, Sent)) BY <2>1, <2>2, <2>3, <2>4 DEF Printed
  <2> QED BY <2>1, <2>5, SumOfSent, Zenon DEF RatesAddUp
<1> QED BY <1>1, <1>2, RateInit, Invariant, PTL DEF Spec
==============================================================================
