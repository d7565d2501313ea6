------------------------------- MODULE LbaWalk -------------------------------
(***************************************************************************)
(* How the threads of apps/bench-nvme.c, apps/nvgen.c and apps/generator.c *)
(* walk over the logical blocks of the NVMe device: the range each thread  *)
(* is given, and next_lba() of each program.  A step is one command of one *)
(* thread: its blocks, and the address of the command after it.            *)
(*                                                                         *)
(* Addresses are unsigned long in the programs, and wide enough; but the   *)
(* thread of nvgen keeps its own in an unsigned int, which loses the upper *)
(* half of an address beyond it.                                           *)
(***************************************************************************)
EXTENDS Integers

CONSTANTS ncpus,     \* number of threads
          LbaStart,  \* gen.lba_start; only generator has one
          LbaEnd,    \* lba_end of the command line
          LbaEnds,   \* the same of nvgen, which is run with several
          LBA_WORD,  \* unsigned int holds 0 .. LBA_WORD - 1
          MaxBlocks  \* bound on the blocks of a command

Threads == 0 .. ncpus - 1

\* "nosplit" is bench-nvme -S nosplit.
Apps == {"bench", "nosplit", "nvgen", "generator"}

\* What the command line says: the program, its walk, the blocks of a command
\* (nvgen has no such option), and where the device ends.  Only bench-nvme walks
\* the same block, and only for nvgen does it matter how large the device is.
Options ==
    {o \in [app : Apps, walk : {"seq", "random", "same"}, nblocks : 1 .. MaxBlocks,
            end : LbaEnds] :
        /\ o.walk = "same" => o.app \in {"bench", "nosplit"}
        /\ IF o.app = "nvgen" THEN o.nblocks = 1 ELSE o.end = LbaEnd}

\* The lengths of the commands.  nvgen reads single blocks in a random walk, and
\* as many as its ring has room for in a sequential one.
Lengths(o) ==
    IF o.app = "nvgen" /\ o.walk = "seq" THEN 1 .. MaxBlocks ELSE {o.nblocks}

\* lba_start and lba_end of thread t.
bench_range(t) ==
    [from |-> (LbaEnd \div ncpus) * t, to |-> (LbaEnd \div ncpus) * (t + 1)]

nosplit_range(t) == [from |-> 0, to |-> LbaEnd]

nvgen_range(end, t) ==
    [from |-> (end \div ncpus) * t, to |-> (end \div ncpus) * (t + 1)]

generator_range(t) ==
    [from |-> ((LbaEnd - LbaStart) \div ncpus) * t,
     to |-> ((LbaEnd - LbaStart) \div ncpus) * (t + 1)]

range(o, t) ==
    CASE o.app = "bench" -> bench_range(t)
      [] o.app = "nosplit" -> nosplit_range(t)
      [] o.app = "nvgen" -> nvgen_range(o.end, t)
      [] o.app = "generator" -> generator_range(t)

ASSUME LbaAssumption ==
    /\ {ncpus, MaxBlocks, LBA_WORD} \subseteq Nat \ {0}
    /\ LbaEnd \in Nat /\ LbaStart \in 0 .. LbaEnd
    /\ LbaEnds \subseteq Nat

\* A command is shorter than the range of a thread: otherwise the program
\* divides by zero, or by a difference that wrapped around.
ASSUME RangeAssumption ==
    \A o \in Options, t \in Threads, n \in 1 .. MaxBlocks :
        range(o, t).from + n < range(o, t).to

\* Mutant of RandomLba: the length of the command is not taken off.
RandomLbaWhole(r, n) == {r.from + k : k \in 0 .. r.to - r.from - 1}

\* rand() % (lba_end - lba_start - nblocks) + lba_start, for every rand().
RandomLba(r, n) == {r.from + k : k \in 0 .. r.to - r.from - n - 1}

\* Mutant of next_lba_twice: there is room for this command, not the next.
next_lba_twice_once(walk, lba, r, n) ==
    CASE walk = "seq" -> {IF lba + n < r.to THEN lba + n ELSE r.from}
      [] walk = "random" -> RandomLba(r, n)
      [] walk = "same" -> {lba}

\* What next_lba() may return: bench-nvme and nvgen.
next_lba_twice(walk, lba, r, n) ==
    CASE walk = "seq" -> {IF lba + 2 * n < r.to THEN lba + n ELSE r.from}
      [] walk = "random" -> RandomLba(r, n)
      [] walk = "same" -> {lba}

\* Mutant of next_lba_once: the walk starts over after the end.
next_lba_once_late(walk, lba, r, n) ==
    CASE walk = "seq" -> {IF lba < r.to THEN lba + n ELSE r.from}
      [] walk = "random" -> RandomLba(r, n)

\* What next_lba() may return: generator.
next_lba_once(walk, lba, r, n) ==
    CASE walk = "seq" -> {IF lba + n < r.to THEN lba + n ELSE r.from}
      [] walk = "random" -> RandomLba(r, n)

next_lba(o, lba, r, n) ==
    IF o.app = "generator" THEN next_lba_once(o.walk, lba, r, n)
                           ELSE next_lba_twice(o.walk, lba, r, n)

\* What the variable lba of the thread holds of an address assigned to it.
lba_var(o, x) == IF o.app = "nvgen" THEN x % LBA_WORD ELSE x

------------------------------------------------------------------------------
VARIABLES opt,  \* the command line
          lba,  \* lba[t]: where thread t goes on
          cmd   \* cmd[t]: its last command

vars == <<opt, lba, cmd>>

Range(t) == range(opt, t)

NoCmd == [at |-> 0, nblocks |-> 0]

TypeOK ==
    /\ opt \in Options
    /\ lba \in [Threads -> Nat]
    /\ cmd \in [Threads -> [at : Nat, nblocks : Nat]]

Init ==
    /\ opt \in Options
    /\ lba = [t \in Threads |-> lba_var(opt, Range(t).from)]
    /\ cmd = [t \in Threads |-> NoCmd]

\* unvme_aread() or unvme_awrite() of n blocks, then lba = next_lba(...).
Command(t, n) ==
    /\ cmd' = [cmd EXCEPT ![t] = [at |-> lba[t], nblocks |-> n]]
    /\ \E l \in next_lba(opt, lba[t], Range(t), n) :
          lba' = [lba EXCEPT ![t] = lba_var(opt, l)]
    /\ UNCHANGED opt

Next == \E t \in Threads, n \in Lengths(opt) : Command(t, n)

Spec == Init /\ [][Next]_vars

------------------------------------------------------------------------------
\* The variable lba of thread t holds every address of its range.
HoldsRange(t) == opt.app = "nvgen" => Range(t).to <= LBA_WORD

(***************************************************************************)
(* A command starts in the range of its thread, whatever lengths the       *)
(* commands before it had; generator.c prints "invalid lba" otherwise.     *)
(* For a thread of nvgen this takes a range below LBA_WORD; how far up the *)
(* ranges of the other threads go is of no account.                        *)
(***************************************************************************)
StartInRange ==
    \A t \in Threads :
        HoldsRange(t) => Range(t).from <= lba[t] /\ lba[t] < Range(t).to

Blocks(t) == cmd[t].at .. cmd[t].at + cmd[t].nblocks - 1

\* Every block of the thread's command is in its range.
InRange(t) == \A b \in Blocks(t) : Range(t).from <= b /\ b < Range(t).to

(***************************************************************************)
(* "LBA range for this thread", without the exceptions.                    *)
(***************************************************************************)
AllInRange == \A t \in Threads : InRange(t)

\* The sequential walks of nvgen, with its varying lengths, and of generator,
\* which leaves no room for the command itself, may cross the end of a range.
CrossesEnd(o) == o.walk = "seq" /\ o.app \in {"nvgen", "generator"}

(***************************************************************************)
(* "LBA range for this thread": no command of a thread has a block outside *)
(* of it, the last one before the walk starts over included, in all        *)
(* programs and walks but the two of CrossesEnd, when the thread can hold  *)
(* the addresses of its range.                                             *)
(***************************************************************************)
CommandInRange ==
    ~CrossesEnd(opt) => \A t \in Threads : HoldsRange(t) => InRange(t)

(***************************************************************************)
(* With the blocks split among the threads, no block is read or written by *)
(* the commands of two threads at a time, with the same exceptions.        *)
(***************************************************************************)
ThreadsApart ==
    ~CrossesEnd(opt) /\ opt.app # "nosplit" =>
        \A s, t \in Threads :
            s # t /\ HoldsRange(s) /\ HoldsRange(t) => Blocks(s) \cap Blocks(t) = {}

\* Where a command may start: with it, CommandInRange is inductive.
RoomForCommand ==
    ~CrossesEnd(opt) =>
        \A t \in Threads, n \in Lengths(opt) :
            HoldsRange(t) => Range(t).from <= lba[t] /\ lba[t] + n <= Range(t).to

(***************************************************************************)
(* generator -s: "start lba".  No command starts before it.                *)
(***************************************************************************)
StartLbaRespected ==
    opt.app = "generator" => \A t \in Threads : lba[t] >= LbaStart
==============================================================================
