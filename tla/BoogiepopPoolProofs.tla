-------------------------- MODULE BoogiepopPoolProofs -------------------------
(***************************************************************************)
(* Proofs about the pages Boogiepop takes from the pools of the devices,   *)
(* and about the references it takes on the pci_devs, for any number of    *)
(* devices, tasks and files.                                               *)
(***************************************************************************)
EXTENDS BoogiepopProofs

(* The pages taken from the pools, a sum over the tasks and the pop_devs: a *)
(* sum is stated here as the cardinality of a set of pairs.                *)

\* As many pairs for each x of S as f[x] says.
Under(S, f) == {p \in S \X Nat : p[2] \in 1 .. f[p[1]]}

\* The pages a task has taken and not handed on to a listed pop_dev.
TaskPages(d) ==
    [t \in Tasks |-> IF io[t].pc \in {"fill", "misc", "list"} /\ io[t].pdev = d
                     THEN io[t].size ELSE 0]

\* The pages of a listed pop_dev; while a task is at list_del() they are gone.
Leaving(o) == \E t \in Tasks : io[t].pc = "undel" /\ io[t].obj = o
DevPages(d) ==
    [o \in Objs |-> IF o \in Listed /\ ppdev[o].pdev = d /\ ~Leaving(o)
                    THEN ppdev[o].size ELSE 0]

\* Every page taken from the pool of d is accounted for once.
Pool(d) ==
    /\ IsFiniteSet(Under(Tasks, TaskPages(d))) /\ IsFiniteSet(Under(Objs, DevPages(d)))
    /\ used[d] = Cardinality(Under(Tasks, TaskPages(d)))
                    + Cardinality(Under(Objs, DevPages(d)))

PoolInv ==
    /\ used \in [Devs -> Int]
    /\ \A t \in Tasks : io[t].pc # "idle" => io[t].pdev \in Devs
    /\ ~raced =>
          /\ \A d \in Devs : Pool(d)
          /\ \A t \in Tasks : Adding(t) => ppdev[io[t].obj].size = io[t].size
          /\ \A t \in Tasks : Removing(t) => ppdev[io[t].obj].pdev = io[t].pdev

------------------------------------------------------------------------------
(* Sums.                                                                   *)

LEMMA Blocks ==
    ASSUME NEW x, NEW n \in Nat
    PROVE  IsFiniteSet({x} \X (1 .. n)) /\ Cardinality({x} \X (1 .. n)) = n
<1>1. IsFiniteSet({x}) /\ Cardinality({x}) = 1 BY FS_Singleton
<1>2. IsFiniteSet(1 .. n) /\ Cardinality(1 .. n) = n BY FS_Interval
<1>3. /\ IsFiniteSet({x} \X (1 .. n))
      /\ Cardinality({x} \X (1 .. n)) = Cardinality({x}) * Cardinality(1 .. n)
    BY <1>1, <1>2, FS_Product, Zenon
<1> QED BY <1>1, <1>2, <1>3

LEMMA UnderSplit ==
    ASSUME NEW S, NEW f \in [S -> Nat], NEW x \in S
    PROVE  LET rest == {p \in Under(S, f) : p[1] # x}
           IN  /\ Under(S, f) = rest \cup ({x} \X (1 .. f[x]))
               /\ rest \cap ({x} \X (1 .. f[x])) = {}
<1> DEFINE rest == {p \in Under(S, f) : p[1] # x}
<1>1. f[x] \in Nat OBVIOUS
<1>2. ASSUME NEW p \in Under(S, f), p \notin rest PROVE p \in {x} \X (1 .. f[x])
    BY <1>2 DEF Under
<1>3. ASSUME NEW p \in {x} \X (1 .. f[x]) PROVE p \in Under(S, f) /\ p \notin rest
    BY <1>1, <1>3 DEF Under
<1>4. rest \subseteq Under(S, f) OBVIOUS
<1> HIDE DEF rest
<1> QED BY <1>2, <1>3, <1>4 DEF rest

\* One summand changes.
LEMMA UnderChange ==
    ASSUME NEW S, NEW f \in [S -> Nat], NEW g \in [S -> Nat], NEW x \in S,
           \A y \in S \ {x} : g[y] = f[y], IsFiniteSet(Under(S, f))
    PROVE  /\ IsFiniteSet(Under(S, g))
           /\ Cardinality(Under(S, g)) = Cardinality(Under(S, f)) - f[x] + g[x]
           /\ Cardinality(Under(S, f)) >= f[x]
<1> DEFINE rest(h) == {p \in Under(S, h) : p[1] # x}
           block(h) == {x} \X (1 .. h[x])
<1>1. rest(f) = rest(g)
  <2>1. ASSUME NEW p \in S \X Nat, p[1] # x PROVE p \in Under(S, f) <=> p \in Under(S, g)
      BY <2>1 DEF Under
  <2>2. Under(S, f) \subseteq S \X Nat /\ Under(S, g) \subseteq S \X Nat BY DEF Under
  <2> QED BY <2>1, <2>2
<1>2. ASSUME NEW h \in [S -> Nat]
      PROVE  /\ Under(S, h) = rest(h) \cup block(h) /\ rest(h) \cap block(h) = {}
             /\ IsFiniteSet(block(h)) /\ Cardinality(block(h)) = h[x]
             /\ rest(h) \subseteq Under(S, h)
  <2>1. Under(S, h) = rest(h) \cup block(h) /\ rest(h) \cap block(h) = {}
      BY UnderSplit
  <2>2. h[x] \in Nat OBVIOUS
  <2>3. IsFiniteSet(block(h)) /\ Cardinality(block(h)) = h[x] BY <2>2, Blocks, Zenon
  <2> QED BY <2>1, <2>3
<1> HIDE DEF rest, block
<1>3. IsFiniteSet(rest(f)) BY <1>2, FS_Subset
<1>4. ASSUME NEW h \in [S -> Nat], IsFiniteSet(rest(h))
      PROVE  /\ IsFiniteSet(Under(S, h))
             /\ Cardinality(Under(S, h)) = Cardinality(rest(h)) + h[x]
  <2>1. IsFiniteSet(block(h)) /\ Cardinality(block(h)) = h[x] BY <1>2
  <2>2. /\ IsFiniteSet(rest(h) \cup block(h))
        /\ Cardinality(rest(h) \cup block(h))
              = Cardinality(rest(h)) + Cardinality(block(h)) - Cardinality(rest(h) \cap block(h))
      BY <1>4, <2>1, FS_Union
  <2>3. Cardinality(rest(h) \cap block(h)) = 0 BY <1>2, FS_EmptySet, Zenon
  <2>4. Cardinality(rest(h)) \in Nat BY <1>4, FS_CardinalityType
  <2>5. h[x] \in Nat OBVIOUS
  <2>6. Under(S, h) = rest(h) \cup block(h) BY <1>2
  <2> QED BY <2>1, <2>2, <2>3, <2>4, <2>5, <2>6
<1>5. Cardinality(rest(f)) \in Nat BY <1>3, FS_CardinalityType
<1>6. f[x] \in Nat /\ g[x] \in Nat OBVIOUS
<1> QED BY <1>1, <1>3, <1>4, <1>5, <1>6

LEMMA UnderZero ==
    ASSUME NEW S, NEW f, \A x \in S : f[x] = 0
    PROVE  Under(S, f) = {} /\ IsFiniteSet(Under(S, f)) /\ Cardinality(Under(S, f)) = 0
<1>1. Under(S, f) = {} BY DEF Under
<1> QED BY <1>1, FS_EmptySet

LEMMA UnderOne ==
    ASSUME NEW S, NEW f \in [S -> Nat], NEW x \in S, \A y \in S \ {x} : f[y] = 0
    PROVE  Cardinality(Under(S, f)) = f[x]
<1> DEFINE z == [y \in S |-> 0]
<1>1. z \in [S -> Nat] /\ (\A y \in S : z[y] = 0) /\ (\A y \in S \ {x} : f[y] = z[y]) OBVIOUS
<1>2. IsFiniteSet(Under(S, z)) /\ Cardinality(Under(S, z)) = 0 BY <1>1, UnderZero
<1>3. z[x] = 0 /\ f[x] \in Nat BY <1>1
<1> HIDE DEF z
<1> QED BY <1>1, <1>2, <1>3, UnderChange

------------------------------------------------------------------------------
(* The pools.                                                              *)

LEMMA PagesType ==
    \A d : /\ Types /\ Sized => TaskPages(d) \in [Tasks -> Nat] /\ DevPages(d) \in [Objs -> Nat]
           /\ Types' /\ Sized' => TaskPages(d)' \in [Tasks -> Nat] /\ DevPages(d)' \in [Objs -> Nat]
<1> SUFFICES ASSUME NEW d
             PROVE  /\ Types /\ Sized => /\ TaskPages(d) \in [Tasks -> Nat]
                                        /\ DevPages(d) \in [Objs -> Nat]
                    /\ Types' /\ Sized' => /\ TaskPages(d)' \in [Tasks -> Nat]
                                          /\ DevPages(d)' \in [Objs -> Nat]
    OBVIOUS
<1>1. ASSUME NEW t \in Tasks
      PROVE  (Sized => TaskPages(d)[t] \in Nat) /\ (Sized' => TaskPages(d)'[t] \in Nat)
    BY DEF Sized, TaskPages
<1>2. ASSUME NEW o \in Objs
      PROVE  (Types => DevPages(d)[o] \in Nat) /\ (Types' => DevPages(d)'[o] \in Nat)
    BY DEF Types, DevRec, DevPages
<1> QED BY <1>1, <1>2 DEF TaskPages, DevPages

\* One of two sums changes.
LEMMA SumChange ==
    ASSUME NEW S, NEW f \in [S -> Nat], NEW g \in [S -> Nat], NEW x \in S,
           \A y \in S \ {x} : g[y] = f[y], IsFiniteSet(Under(S, f)),
           NEW c \in Nat, NEW u, u = Cardinality(Under(S, f)) + c,
           NEW v, v = u - f[x] + g[x]
    PROVE  IsFiniteSet(Under(S, g)) /\ v = Cardinality(Under(S, g)) + c /\ v \in Nat
<1>1. /\ IsFiniteSet(Under(S, g))
      /\ Cardinality(Under(S, g)) = Cardinality(Under(S, f)) - f[x] + g[x]
    BY UnderChange
<1>2. Cardinality(Under(S, f)) \in Nat BY FS_CardinalityType
<1>3. Cardinality(Under(S, g)) \in Nat BY <1>1, FS_CardinalityType
<1>4. f[x] \in Nat /\ g[x] \in Nat OBVIOUS
<1> QED BY <1>1, <1>2, <1>3, <1>4

\* Both of them change.
LEMMA SumsChange ==
    ASSUME NEW S, NEW f \in [S -> Nat], NEW g \in [S -> Nat], NEW x \in S,
           \A y \in S \ {x} : g[y] = f[y], IsFiniteSet(Under(S, f)),
           NEW T, NEW h \in [T -> Nat], NEW k \in [T -> Nat], NEW z \in T,
           \A y \in T \ {z} : k[y] = h[y], IsFiniteSet(Under(T, h)),
           NEW u, u = Cardinality(Under(S, f)) + Cardinality(Under(T, h)),
           NEW v, v = u - f[x] + g[x] - h[z] + k[z]
    PROVE  /\ IsFiniteSet(Under(S, g)) /\ IsFiniteSet(Under(T, k))
           /\ v = Cardinality(Under(S, g)) + Cardinality(Under(T, k))
<1>1. /\ IsFiniteSet(Under(S, g))
      /\ Cardinality(Under(S, g)) = Cardinality(Under(S, f)) - f[x] + g[x]
    BY UnderChange
<1>2. /\ IsFiniteSet(Under(T, k))
      /\ Cardinality(Under(T, k)) = Cardinality(Under(T, h)) - h[z] + k[z]
    BY UnderChange
<1>3. Cardinality(Under(S, f)) \in Nat /\ Cardinality(Under(T, h)) \in Nat
    BY FS_CardinalityType
<1>4. f[x] \in Nat /\ g[x] \in Nat /\ h[z] \in Nat /\ k[z] \in Nat OBVIOUS
<1> QED BY <1>1, <1>2, <1>3, <1>4

\* Task t takes pages or gives some back.
LEMMA PoolStep ==
    ASSUME NEW d \in Devs, Pool(d), used[d] \in Int, Types, Sized, Types', Sized',
           NEW t \in Tasks, \A s \in Tasks \ {t} : TaskPages(d)'[s] = TaskPages(d)[s],
           DevPages(d)' = DevPages(d),
           used'[d] = used[d] - TaskPages(d)[t] + TaskPages(d)'[t]
    PROVE  Pool(d)'
<1>1. PICK f : f = TaskPages(d) OBVIOUS
<1>2. PICK g : g = TaskPages(d)' OBVIOUS
<1>3. PICK h : h = DevPages(d) OBVIOUS
<1>4. PICK u : u = used[d] OBVIOUS
<1>5. PICK v : v = used'[d] OBVIOUS
<1>6. f \in [Tasks -> Nat] /\ g \in [Tasks -> Nat] BY <1>1, <1>2, PagesType, Zenon
<1>7. /\ IsFiniteSet(Under(Tasks, f)) /\ IsFiniteSet(Under(Objs, h))
      /\ u = Cardinality(Under(Tasks, f)) + Cardinality(Under(Objs, h))
    BY <1>1, <1>3, <1>4, Zenon DEF Pool
<1>8. \A s \in Tasks \ {t} : g[s] = f[s] BY <1>1, <1>2, Zenon
<1>9. v = u - f[t] + g[t] BY <1>1, <1>2, <1>4, <1>5, Zenon
<1>10. Cardinality(Under(Objs, h)) \in Nat BY <1>7, FS_CardinalityType, Zenon
<1>11. /\ IsFiniteSet(Under(Tasks, g))
       /\ v = Cardinality(Under(Tasks, g)) + Cardinality(Under(Objs, h))
    BY <1>6, <1>7, <1>8, <1>9, <1>10, SumChange
<1>12. g = TaskPages(d)' /\ h = DevPages(d)' /\ v = used'[d] BY <1>2, <1>3, <1>5, Zenon
<1> QED BY <1>7, <1>11, <1>12, Zenon DEF Pool, Under

\* The pages of pop_dev o enter or leave the pool, or the hands of task t.
LEMMA PoolMove ==
    ASSUME NEW d \in Devs, Pool(d), used[d] \in Int, Types, Sized, Types', Sized',
           NEW t \in Tasks, \A s \in Tasks \ {t} : TaskPages(d)'[s] = TaskPages(d)[s],
           NEW o \in Objs, \A p \in Objs \ {o} : DevPages(d)'[p] = DevPages(d)[p],
           used'[d] = used[d] - TaskPages(d)[t] + TaskPages(d)'[t]
                              - DevPages(d)[o] + DevPages(d)'[o]
    PROVE  Pool(d)'
<1>1. PICK f : f = TaskPages(d) OBVIOUS
<1>2. PICK g : g = TaskPages(d)' OBVIOUS
<1>3. PICK h : h = DevPages(d) OBVIOUS
<1>4. PICK k : k = DevPages(d)' OBVIOUS
<1>5. PICK u : u = used[d] OBVIOUS
<1>6. PICK v : v = used'[d] OBVIOUS
<1>7. /\ f \in [Tasks -> Nat] /\ g \in [Tasks -> Nat]
      /\ h \in [Objs -> Nat] /\ k \in [Objs -> Nat]
    BY <1>1, <1>2, <1>3, <1>4, PagesType, Zenon
<1>8. /\ IsFiniteSet(Under(Tasks, f)) /\ IsFiniteSet(Under(Objs, h))
      /\ u = Cardinality(Under(Tasks, f)) + Cardinality(Under(Objs, h))
    BY <1>1, <1>3, <1>5, Zenon DEF Pool
<1>9. (\A s \in Tasks \ {t} : g[s] = f[s]) /\ (\A p \in Objs \ {o} : k[p] = h[p])
    BY <1>1, <1>2, <1>3, <1>4, Zenon
<1>10. v = u - f[t] + g[t] - h[o] + k[o]
    BY <1>1, <1>2, <1>3, <1>4, <1>5, <1>6, Zenon
<1>11. /\ IsFiniteSet(Under(Tasks, g)) /\ IsFiniteSet(Under(Objs, k))
       /\ v = Cardinality(Under(Tasks, g)) + Cardinality(Under(Objs, k))
    BY <1>7, <1>8, <1>9, <1>10, SumsChange
<1> QED BY <1>2, <1>4, <1>6, <1>11, Zenon DEF Pool, Under

\* A step of a task that leaves the listed pop_devs and those in other hands
\* alone.
LEMMA TaskStep ==
    ASSUME IInv, IInv', PoolInv, ~raced, NEW t \in Tasks,
           \A s \in Tasks \ {t} : io'[s] = io[s],
           dev_list' = dev_list, \A o \in Listed : ppdev'[o] = ppdev[o],
           \A s \in Tasks \ {t} : Holds(s) => ppdev'[io[s].obj] = ppdev[io[s].obj],
           io[t].pc # "undel", io'[t].pc # "undel", used' \in [Devs -> Int],
           \A d \in Devs : used'[d] = used[d] - TaskPages(d)[t] + TaskPages(d)'[t],
           io'[t].pc # "idle" => io'[t].pdev \in Devs,
           ~raced' /\ Adding(t)' => ppdev'[io'[t].obj].size = io'[t].size,
           ~raced' /\ Removing(t)' => ppdev'[io'[t].obj].pdev = io'[t].pdev
    PROVE  PoolInv'
<1>1. Types /\ Sized /\ Types' /\ Sized' BY DEF IInv
<1>2. Listed' = Listed BY DEF Listed
<1>3. \A o : Leaving(o)' <=> Leaving(o) BY DEF Leaving
<1>4. ASSUME NEW d \in Devs, ~raced' PROVE Pool(d)'
  <2>1. DevPages(d)' = DevPages(d)
    <3>1. ASSUME NEW o \in Objs PROVE DevPages(d)'[o] = DevPages(d)[o]
        BY <1>2, <1>3 DEF DevPages
    <3> QED BY <3>1 DEF DevPages
  <2>2. \A s \in Tasks \ {t} : TaskPages(d)'[s] = TaskPages(d)[s] BY DEF TaskPages
  <2>3. Pool(d) /\ used[d] \in Int BY DEF PoolInv
  <2> QED BY <1>1, <2>1, <2>2, <2>3, PoolStep
<1>5. ASSUME NEW s \in Tasks, ~raced'
      PROVE  /\ Adding(s)' => ppdev'[io'[s].obj].size = io'[s].size
             /\ Removing(s)' => ppdev'[io'[s].obj].pdev = io'[s].pdev
  <2>1. CASE s = t BY <1>5, <2>1
  <2>2. CASE s # t BY <2>2 DEF PoolInv, Holds, Adding, Removing
  <2> QED BY <2>1, <2>2
<1>6. \A s \in Tasks : io'[s].pc # "idle" => io'[s].pdev \in Devs BY DEF PoolInv
<1> QED BY <1>4, <1>5, <1>6 DEF PoolInv

\* A step that takes no page and gives none back.
LEMMA SamePages ==
    ASSUME IInv, IInv', PoolInv, ~raced, NEW t \in Tasks,
           \A s \in Tasks \ {t} : io'[s] = io[s],
           dev_list' = dev_list, \A o \in Listed : ppdev'[o] = ppdev[o],
           \A s \in Tasks \ {t} : Holds(s) => ppdev'[io[s].obj] = ppdev[io[s].obj],
           io[t].pc # "undel", io'[t].pc # "undel", used' = used,
           \/ /\ io[t].pc \notin {"fill", "misc", "list"}
              /\ io'[t].pc \notin {"fill", "misc", "list"}
           \/ /\ io[t].pc \in {"fill", "misc", "list"} /\ io'[t].pc \in {"fill", "misc", "list"}
              /\ io'[t].pdev = io[t].pdev /\ io'[t].size = io[t].size,
           io'[t].pc # "idle" => io'[t].pdev \in Devs,
           ~raced' /\ Adding(t)' => ppdev'[io'[t].obj].size = io'[t].size,
           ~raced' /\ Removing(t)' => ppdev'[io'[t].obj].pdev = io'[t].pdev
    PROVE  PoolInv'
<1>1. used \in [Devs -> Int] /\ Types /\ Sized BY DEF PoolInv, IInv
<1>2. ASSUME NEW d \in Devs
      PROVE  used'[d] = used[d] - TaskPages(d)[t] + TaskPages(d)'[t]
  <2>1. TaskPages(d)'[t] = TaskPages(d)[t] BY DEF TaskPages
  <2>2. TaskPages(d)[t] \in Nat /\ used[d] \in Int BY <1>1, PagesType
  <2> QED BY <2>1, <2>2
<1> QED BY <1>1, <1>2, TaskStep

\* What the two ioctls do first: they take the reference, or return.
LEMMA StartEffect ==
    ASSUME IInv, NEW t \in Tasks, NEW d \in Devs,
           (\E bytes \in ReqSizes : RegStart(t, d, bytes)) \/ UnregStart(t, d)
    PROVE  /\ \A s \in Tasks \ {t} : io'[s] = io[s]
           /\ \/ io'[t].pc = "idle" /\ pciref' = pciref
              \/ /\ io'[t].pc \in {"find", "unfind"} /\ io'[t].pdev = d
                 /\ pciref' = [pciref EXCEPT ![d] = @ + 1]
<1>1. io[t].pc = "idle" /\ io \in [Tasks -> IoRec]
    BY Zenon DEF RegStart, UnregStart, At, IInv, Types
<1>2. ASSUME NEW r, io' = [io EXCEPT ![t] = r]
      PROVE  io'[t] = r /\ \A s \in Tasks \ {t} : io'[s] = io[s]
    BY <1>1, <1>2
<1>3. CASE io' = io /\ pciref' = pciref BY <1>1, <1>3
<1>4. ASSUME NEW bytes, pciref' = [pciref EXCEPT ![d] = @ + 1],
             io' = [io EXCEPT ![t] = [Idle EXCEPT !.pc = "find", !.pdev = d, !.reg = bytes]]
      PROVE  /\ io'[t].pc = "find" /\ io'[t].pdev = d
             /\ \A s \in Tasks \ {t} : io'[s] = io[s]
  <2> DEFINE r == [Idle EXCEPT !.pc = "find", !.pdev = d, !.reg = bytes]
  <2>1. r.pc = "find" /\ r.pdev = d BY DEF Idle
  <2> QED BY <1>2, <1>4, <2>1, Zenon
<1>5. ASSUME pciref' = [pciref EXCEPT ![d] = @ + 1],
             io' = [io EXCEPT ![t] = [Idle EXCEPT !.pc = "unfind", !.pdev = d]]
      PROVE  /\ io'[t].pc = "unfind" /\ io'[t].pdev = d
             /\ \A s \in Tasks \ {t} : io'[s] = io[s]
  <2> DEFINE r == [Idle EXCEPT !.pc = "unfind", !.pdev = d]
  <2>1. r.pc = "unfind" /\ r.pdev = d BY DEF Idle
  <2> QED BY <1>2, <1>5, <2>1, Zenon
<1>6. CASE UnregStart(t, d) BY <1>3, <1>5, <1>6 DEF UnregStart
<1>7. CASE \E bytes \in ReqSizes : RegStart(t, d, bytes)
  <2>1. PICK bytes \in ReqSizes : RegStart(t, d, bytes) BY <1>7
  <2> QED BY <1>3, <1>4, <2>1, Zenon DEF RegStart
<1> QED BY <1>6, <1>7

LEMMA PoolStart ==
    ASSUME IInv, IInv', PoolInv, NEW t \in Tasks, NEW d \in Devs,
           (\E bytes \in ReqSizes : RegStart(t, d, bytes)) \/ UnregStart(t, d)
    PROVE  PoolInv'
<1>1. /\ ~raced /\ io[t].pc = "idle" /\ dev_list' = dev_list /\ ppdev' = ppdev /\ used' = used
      /\ io \in [Tasks -> IoRec]
    BY Zenon DEF RegStart, UnregStart, At, registry, IInv, Types
<1>2. /\ \A s \in Tasks \ {t} : io'[s] = io[s]
      /\ io'[t].pc \in {"idle", "find", "unfind"}
      /\ io'[t].pc # "idle" => io'[t].pdev = d
    BY StartEffect
<1> QED BY <1>1, <1>2, SamePages DEF Adding, Removing

\* pop_find_dev() and the returns touch no page.
LEMMA PoolFind ==
    ASSUME IInv, IInv', PoolInv, NEW t \in Tasks,
           RegFind(t) \/ RegSize(t) \/ RegReturn(t) \/ UnregFind(t)
    PROVE  PoolInv'
<1>1. /\ ~raced /\ io[t].pc \in {"find", "size", "ret", "unfind"} /\ dev_list' = dev_list
      /\ ppdev' = ppdev /\ used' = used /\ io \in [Tasks -> IoRec] /\ io[t] \in IoRec /\ Types
    BY Zenon DEF RegFind, RegSize, RegReturn, UnregFind, At, registry, IInv, Types
<1>2. io[t].pdev \in Devs BY <1>1 DEF PoolInv
<1>3. /\ \A s \in Tasks \ {t} : io'[s] = io[s]
      /\ io'[t].pc \in {"idle", "size", "alloc", "ret", "unmisc"}
      /\ io'[t].pc # "idle" => io'[t].pdev = io[t].pdev
      /\ io'[t].pc = "unmisc" => /\ pop_find_dev(io[t].pdev) # NULL
                                 /\ io'[t].obj = pop_find_dev(io[t].pdev)
  <2>1. CASE RegFind(t) \/ RegSize(t) BY <1>1, <2>1 DEF RegFind, RegSize, Goto, IoRec
  <2>2. CASE RegReturn(t) BY <1>1, <2>2 DEF RegReturn, Return, Idle
  <2>3. CASE UnregFind(t)
    <3> DEFINE o == pop_find_dev(io[t].pdev)
    <3>1. CASE o = NULL BY <1>1, <2>3, <3>1 DEF UnregFind, Return, Idle
    <3>2. CASE o # NULL
      <4>1. io' = [io EXCEPT ![t].pc = "unmisc", ![t].obj = o] BY <2>3, <3>2 DEF UnregFind
      <4> HIDE DEF o
      <4>2. /\ \A s \in Tasks \ {t} : io'[s] = io[s]
            /\ io'[t].pc = "unmisc" /\ io'[t].pdev = io[t].pdev /\ io'[t].obj = o
          BY <1>1, <4>1 DEF IoRec
      <4> QED BY <3>2, <4>2 DEF o
    <3> QED BY <3>1, <3>2
  <2> QED BY <2>1, <2>2, <2>3
<1>4. io'[t].pc = "unmisc" => ppdev[io'[t].obj].pdev = io[t].pdev BY <1>1, <1>3, FindIs
<1> QED BY <1>1, <1>2, <1>3, <1>4, SamePages DEF Adding, Removing

LEMMA PoolAlloc == ASSUME IInv, IInv', PoolInv, NEW t \in Tasks, RegAlloc(t) PROVE PoolInv'
<1> DEFINE n == IF io[t].reg = 0 THEN PoolPages ELSE PagesFor(io[t].reg)
<1>1. /\ ~raced /\ io[t].pc = "alloc" /\ dev_list' = dev_list /\ ppdev' = ppdev
      /\ io \in [Tasks -> IoRec] /\ io[t] \in IoRec
      /\ io[t].pdev \in Devs /\ used \in [Devs -> Int]
    BY DEF RegAlloc, At, registry, IInv, Types, PoolInv
<1>2. n \in Nat
  <2>1. io[t].reg \in Nat BY <1>1 DEF IoRec
  <2> QED BY <2>1, PagesForNat, BoogiepopAssumption
<1>3. \/ /\ used' = [used EXCEPT ![io[t].pdev] = @ + n]
         /\ io' = [io EXCEPT ![t].pc = "fill", ![t].size = n, ![t].reg = 0]
      \/ /\ used' = used
         /\ io' = [io EXCEPT ![t].pc = "ret", ![t].size = -1]
    BY DEF RegAlloc
<1> HIDE DEF n
<1>4. CASE used' = used /\ io' = [io EXCEPT ![t].pc = "ret", ![t].size = -1]
  <2>1. /\ \A s \in Tasks \ {t} : io'[s] = io[s]
        /\ io'[t].pc = "ret" /\ io'[t].pdev = io[t].pdev
      BY <1>1, <1>4 DEF IoRec
  <2> QED BY <1>1, <1>4, <2>1, SamePages DEF Adding, Removing
<1>5. CASE /\ used' = [used EXCEPT ![io[t].pdev] = @ + n]
           /\ io' = [io EXCEPT ![t].pc = "fill", ![t].size = n, ![t].reg = 0]
  <2>1. /\ \A s \in Tasks \ {t} : io'[s] = io[s]
        /\ io'[t].pc = "fill" /\ io'[t].pdev = io[t].pdev /\ io'[t].size = n
      BY <1>1, <1>5 DEF IoRec
  <2>2. used' \in [Devs -> Int] BY <1>1, <1>2, <1>5
  <2>3. ASSUME NEW d \in Devs
        PROVE  used'[d] = used[d] - TaskPages(d)[t] + TaskPages(d)'[t]
    <3>1. TaskPages(d)[t] = 0 BY <1>1 DEF TaskPages
    <3>2. TaskPages(d)'[t] = IF io[t].pdev = d THEN n ELSE 0 BY <2>1 DEF TaskPages
    <3> QED BY <1>1, <1>2, <1>5, <3>1, <3>2
  <2> QED BY <1>1, <2>1, <2>2, <2>3, TaskStep DEF Adding, Removing
<1> QED BY <1>3, <1>4, <1>5

\* The error paths give back what the task had taken.
LEMMA PoolFail ==
    ASSUME IInv, IInv', PoolInv, NEW t \in Tasks, ~raced, io[t].pc \in {"fill", "misc"},
           FreeAndFail(t), dev_list' = dev_list, ppdev' = ppdev
    PROVE  PoolInv'
<1>1. /\ io \in [Tasks -> IoRec] /\ io[t] \in IoRec /\ io[t].size \in Nat
      /\ io[t].pdev \in Devs /\ used \in [Devs -> Int]
    BY DEF IInv, Types, PoolInv, Sized
<1>2. /\ used' = [used EXCEPT ![io[t].pdev] = @ - io[t].size]
      /\ io' = [io EXCEPT ![t].pc = "ret", ![t].size = -1]
    BY DEF FreeAndFail
<1>3. /\ \A s \in Tasks \ {t} : io'[s] = io[s]
      /\ io'[t].pc = "ret" /\ io'[t].pdev = io[t].pdev
    BY <1>1, <1>2 DEF IoRec
<1>4. used' \in [Devs -> Int] BY <1>1, <1>2
<1>5. ASSUME NEW d \in Devs
      PROVE  used'[d] = used[d] - TaskPages(d)[t] + TaskPages(d)'[t]
  <2>1. TaskPages(d)[t] = IF io[t].pdev = d THEN io[t].size ELSE 0 BY DEF TaskPages
  <2>2. TaskPages(d)'[t] = 0 BY <1>3 DEF TaskPages
  <2> QED BY <1>1, <1>2, <2>1, <2>2
<1> QED BY <1>1, <1>3, <1>4, <1>5, TaskStep DEF Adding, Removing

LEMMA PoolFill == ASSUME IInv, IInv', PoolInv, NEW t \in Tasks, RegFill(t) PROVE PoolInv'
<1>1. /\ ~raced /\ io[t].pc = "fill" /\ dev_list' = dev_list
      /\ io \in [Tasks -> IoRec] /\ io[t] \in IoRec /\ io[t].pdev \in Devs
      /\ ppdev \in [Objs -> DevRec] /\ ListInv /\ TaskInv /\ Types
    BY DEF RegFill, At, IInv, Types, PoolInv
<1>2. CASE FreeAndFail(t) /\ ppdev' = ppdev BY <1>1, <1>2, PoolFail
<1>3. ASSUME NEW o \in Objs, ~ppdev[o].live, used' = used,
             ppdev' = [ppdev EXCEPT ![o] = [live |-> TRUE, pdev |-> io[t].pdev,
                                            size |-> io[t].size]],
             io' = [io EXCEPT ![t].pc = "misc", ![t].obj = o]
      PROVE  PoolInv'
  <2>1. /\ io'[t].pc = "misc" /\ io'[t].obj = o
        /\ io'[t].pdev = io[t].pdev /\ io'[t].size = io[t].size
        /\ \A s \in Tasks \ {t} : io'[s] = io[s]
      BY <1>1, <1>3 DEF IoRec
  <2>2. ppdev'[o].size = io[t].size /\ \A p \in Objs \ {o} : ppdev'[p] = ppdev[p]
      BY <1>1, <1>3
  <2>3. \A p \in Listed : ppdev'[p] = ppdev[p]
      BY <1>1, <1>3, <2>2, ListedIs DEF ListInv
  <2>4. \A s \in Tasks \ {t} : Holds(s) => ppdev'[io[s].obj] = ppdev[io[s].obj]
      BY <1>1, <1>3, <2>2 DEF TaskInv
  <2> QED BY <1>1, <1>3, <2>1, <2>2, <2>3, <2>4, SamePages DEF Adding, Removing
<1> QED BY <1>2, <1>3 DEF RegFill

\* The node comes and goes while the pages stay where they are.
LEMMA PoolMisc ==
    ASSUME IInv, IInv', PoolInv, NEW t \in Tasks, RegMisc(t) \/ UnregMisc(t)
    PROVE  PoolInv'
<1>1. /\ ~raced /\ io[t].pc \in {"misc", "unmisc"} /\ dev_list' = dev_list /\ ppdev' = ppdev
      /\ io \in [Tasks -> IoRec] /\ io[t] \in IoRec /\ io[t].pdev \in Devs
    BY DEF RegMisc, UnregMisc, At, IInv, Types, PoolInv
<1>2. CASE RegMisc(t) /\ FreeAndFail(t) BY <1>1, <1>2, PoolFail DEF RegMisc, At
<1>3. CASE \/ RegMisc(t) /\ Goto(t, "list") /\ used' = used
           \/ UnregMisc(t)
  <2>1. /\ \A s \in Tasks \ {t} : io'[s] = io[s]
        /\ \/ io[t].pc = "misc" /\ io'[t].pc = "list"
           \/ io[t].pc = "unmisc" /\ io'[t].pc = "unfree"
        /\ io'[t].obj = io[t].obj /\ io'[t].pdev = io[t].pdev /\ io'[t].size = io[t].size
      BY <1>1, <1>3 DEF RegMisc, UnregMisc, Goto, At, IoRec
  <2>2. used' = used BY <1>3 DEF UnregMisc
  <2>3. /\ io[t].pc = "misc" => ppdev[io[t].obj].size = io[t].size
        /\ io[t].pc = "unmisc" => ppdev[io[t].obj].pdev = io[t].pdev
      BY <1>1 DEF PoolInv, Adding, Removing
  <2> QED BY <1>1, <2>1, <2>2, <2>3, SamePages DEF Adding, Removing
<1> QED BY <1>2, <1>3 DEF RegMisc

\* list_add_tail(): the pages of the task become those of a listed pop_dev.
LEMMA PoolList == ASSUME IInv, IInv', PoolInv, NEW t \in Tasks, RegList(t) PROVE PoolInv'
<1>o. PICK o : o = io[t].obj OBVIOUS
<1>1. /\ ~raced /\ ~raced' /\ io[t].pc = "list" /\ ppdev' = ppdev /\ used' = used
      /\ dev_list' = Append(dev_list, o)
      /\ io \in [Tasks -> IoRec] /\ io[t] \in IoRec /\ io[t].size \in Nat
      /\ TaskInv /\ Types /\ Sized /\ Types' /\ Sized'
    BY <1>o DEF RegList, At, history, IInv, Types, Sized
<1>2. Adding(t) /\ Holds(t) BY <1>1 DEF Adding, Holds
<1>3. /\ o \in Objs /\ o \notin Listed /\ ppdev[o].pdev = io[t].pdev /\ ppdev[o].size = io[t].size
      /\ \A s \in Tasks \ {t} : Holds(s) => io[s].obj # o
    BY <1>1, <1>2, <1>o DEF TaskInv, PoolInv
<1>4. /\ io'[t].pc = "ret" /\ io'[t].pdev = io[t].pdev
      /\ \A s \in Tasks \ {t} : io'[s] = io[s]
    BY <1>1 DEF RegList, IoRec
<1>5. Listed' = Listed \cup {o}
  <2>1. dev_list \in Seq(Objs) /\ Len(dev_list) \in Nat BY <1>1 DEF Types
  <2>2. /\ DOMAIN dev_list' = 1 .. Len(dev_list) + 1 /\ DOMAIN dev_list = 1 .. Len(dev_list)
        /\ dev_list'[Len(dev_list) + 1] = o
        /\ \A i \in 1 .. Len(dev_list) : dev_list'[i] = dev_list[i]
      BY <1>1, <1>3, <2>1
  <2>3. \A i : i \in DOMAIN dev_list' <=> i \in DOMAIN dev_list \/ i = Len(dev_list) + 1
      BY <2>1, <2>2
  <2> QED BY <2>2, <2>3 DEF Listed, Range
<1>6. \A p : Leaving(p)' <=> Leaving(p) BY <1>1, <1>4 DEF Leaving
<1>7. ~Leaving(o) BY <1>1, <1>3 DEF Leaving, Holds, Removing
<1>8. ASSUME NEW d \in Devs PROVE Pool(d)'
  <2>1. \A s \in Tasks \ {t} : TaskPages(d)'[s] = TaskPages(d)[s] BY <1>4 DEF TaskPages
  <2>2. \A p \in Objs \ {o} : DevPages(d)'[p] = DevPages(d)[p]
      BY <1>1, <1>5, <1>6 DEF DevPages
  <2>3. TaskPages(d)[t] = (IF io[t].pdev = d THEN io[t].size ELSE 0) /\ TaskPages(d)'[t] = 0
      BY <1>1, <1>4 DEF TaskPages
  <2>4. DevPages(d)[o] = 0 /\ DevPages(d)'[o] = IF io[t].pdev = d THEN io[t].size ELSE 0
      BY <1>1, <1>3, <1>5, <1>6, <1>7 DEF DevPages
  <2>5. used[d] \in Int /\ Pool(d) BY <1>1 DEF PoolInv
  <2>6. used'[d] = used[d] - TaskPages(d)[t] + TaskPages(d)'[t]
                           - DevPages(d)[o] + DevPages(d)'[o]
      BY <1>1, <2>3, <2>4, <2>5
  <2> QED BY <1>1, <1>3, <2>1, <2>2, <2>5, <2>6, PoolMove, Zenon
<1>9. \A s \in Tasks : /\ Adding(s)' => Adding(s) /\ io'[s] = io[s]
                       /\ Removing(s)' => Removing(s) /\ io'[s] = io[s]
    BY <1>4 DEF Adding, Removing
<1>10. \A s \in Tasks : io'[s].pc # "idle" => io'[s].pdev \in Devs BY <1>1, <1>4 DEF PoolInv
<1> QED BY <1>1, <1>8, <1>9, <1>10 DEF PoolInv

\* pci_free_p2pmem(): the pages go back while the pop_dev is still listed.
LEMMA PoolFree == ASSUME IInv, IInv', PoolInv, NEW t \in Tasks, UnregFree(t) PROVE PoolInv'
<1>o. PICK o : o = io[t].obj OBVIOUS
<1>1. /\ ~raced /\ io[t].pc = "unfree" /\ ppdev' = ppdev /\ dev_list' = dev_list
      /\ used' = [used EXCEPT ![io[t].pdev] = @ - ppdev[o].size]
      /\ io \in [Tasks -> IoRec] /\ io[t] \in IoRec /\ io' = [io EXCEPT ![t].pc = "undel"]
      /\ TaskInv /\ Types /\ Sized /\ Types' /\ Sized'
      /\ used \in [Devs -> Int] /\ io[t].pdev \in Devs
    BY <1>o DEF UnregFree, At, Goto, registry, IInv, Types, Sized, PoolInv
<1>2. Removing(t) /\ Holds(t) BY <1>1 DEF Removing, Holds
<1>3. /\ o \in Objs /\ o \in Listed /\ ppdev[o].pdev = io[t].pdev /\ ppdev[o].size \in Nat
      /\ \A s \in Tasks \ {t} : Holds(s) => io[s].obj # o
    BY <1>1, <1>2, <1>o DEF TaskInv, PoolInv, Types, DevRec
<1>4. /\ io'[t].pc = "undel" /\ io'[t].pdev = io[t].pdev /\ io'[t].obj = o
      /\ \A s \in Tasks \ {t} : io'[s] = io[s]
    BY <1>1, <1>o DEF IoRec
<1>5. Listed' = Listed BY <1>1 DEF Listed
<1>6. Leaving(o)' /\ ~Leaving(o) BY <1>1, <1>3, <1>4 DEF Leaving, Holds, Removing
<1>7. \A p \in Objs \ {o} : Leaving(p)' <=> Leaving(p) BY <1>1, <1>4 DEF Leaving
<1>8. ASSUME NEW d \in Devs PROVE Pool(d)'
  <2>1. \A s \in Tasks \ {t} : TaskPages(d)'[s] = TaskPages(d)[s] BY <1>4 DEF TaskPages
  <2>2. \A p \in Objs \ {o} : DevPages(d)'[p] = DevPages(d)[p]
      BY <1>1, <1>5, <1>7 DEF DevPages
  <2>3. TaskPages(d)[t] = 0 /\ TaskPages(d)'[t] = 0 BY <1>1, <1>4 DEF TaskPages
  <2>4. DevPages(d)'[o] = 0 /\ DevPages(d)[o] = IF io[t].pdev = d THEN ppdev[o].size ELSE 0
      BY <1>3, <1>6 DEF DevPages
  <2>5. used[d] \in Int /\ Pool(d) BY <1>1 DEF PoolInv
  <2>6. used'[d] = used[d] - TaskPages(d)[t] + TaskPages(d)'[t]
                           - DevPages(d)[o] + DevPages(d)'[o]
      BY <1>1, <1>3, <2>3, <2>4, <2>5
  <2> QED BY <1>1, <1>3, <2>1, <2>2, <2>5, <2>6, PoolMove
<1>9. \A s \in Tasks : /\ Adding(s)' => Adding(s) /\ io'[s] = io[s]
                       /\ Removing(s)' => /\ Removing(s) /\ io'[s].pdev = io[s].pdev
                                          /\ io'[s].obj = io[s].obj
    BY <1>o, <1>2, <1>4 DEF Adding, Removing
<1>10. \A s \in Tasks : io'[s].pc # "idle" => io'[s].pdev \in Devs BY <1>1, <1>4 DEF PoolInv
<1>11. used' \in [Devs -> Int] BY <1>1, <1>3
<1> QED BY <1>1, <1>8, <1>9, <1>10, <1>11 DEF PoolInv

\* list_del() and kfree() of a pop_dev whose pages have gone back.
LEMMA PoolDel == ASSUME IInv, IInv', PoolInv, NEW t \in Tasks, UnregDel(t) PROVE PoolInv'
<1>o. PICK o : o = io[t].obj OBVIOUS
<1>1. /\ ~raced /\ io[t].pc = "undel" /\ used' = used
      /\ ppdev' = [ppdev EXCEPT ![o] = NoDev] /\ io' = [io EXCEPT ![t] = Idle]
      /\ io \in [Tasks -> IoRec] /\ ppdev \in [Objs -> DevRec]
      /\ TaskInv /\ ListInv /\ Types /\ Sized /\ Types' /\ Sized'
    BY <1>o DEF UnregDel, Return, At, IInv, Types
<1>2. PICK i \in DOMAIN dev_list : dev_list[i] = o /\ dev_list' = list_del(dev_list, i)
    BY <1>o DEF UnregDel
<1>3. Listed' = Listed \ {o}
  <2>1. dev_list \in Seq(Objs) /\ \A j, k \in DOMAIN dev_list : dev_list[j] = dev_list[k] => j = k
      BY <1>1 DEF Types, ListInv
  <2> QED BY <1>2, <2>1, RemoveIs, Zenon DEF Listed
<1>4. Holds(t) BY <1>1 DEF Removing, Holds
<1>5. o \in Objs /\ \A s \in Tasks \ {t} : Holds(s) => io[s].obj \in Objs /\ io[s].obj # o
    BY <1>1, <1>4, <1>o DEF TaskInv
<1>6. io'[t].pc = "idle" /\ \A s \in Tasks \ {t} : io'[s] = io[s]
  <2>1. io \in [Tasks -> IoRec] /\ io' = [io EXCEPT ![t] = Idle] BY <1>1
  <2> QED BY <2>1 DEF Idle
<1>7. \A p \in Objs \ {o} : ppdev'[p] = ppdev[p]
  <2>1. ppdev \in [Objs -> DevRec] /\ ppdev' = [ppdev EXCEPT ![o] = NoDev] BY <1>1
  <2> QED BY <2>1
<1>8. Leaving(o) /\ \A p \in Objs \ {o} : Leaving(p)' <=> Leaving(p)
    BY <1>1, <1>6, <1>o DEF Leaving
<1>9. ASSUME NEW d \in Devs PROVE Pool(d)'
  <2>1. \A s \in Tasks \ {t} : TaskPages(d)'[s] = TaskPages(d)[s] BY <1>6 DEF TaskPages
  <2>2. \A p \in Objs \ {o} : DevPages(d)'[p] = DevPages(d)[p]
      BY <1>3, <1>7, <1>8 DEF DevPages
  <2>3. TaskPages(d)[t] = 0 /\ TaskPages(d)'[t] = 0 BY <1>1, <1>6 DEF TaskPages
  <2>4. DevPages(d)'[o] = 0 /\ DevPages(d)[o] = 0 BY <1>3, <1>5, <1>8 DEF DevPages
  <2>5. used[d] \in Int /\ Pool(d) BY <1>1 DEF PoolInv
  <2>6. used'[d] = used[d] - TaskPages(d)[t] + TaskPages(d)'[t]
                           - DevPages(d)[o] + DevPages(d)'[o]
    <3>1. PICK v \in Int : v = used[d] BY <2>5, Zenon
    <3>2. used'[d] = v BY <1>1, <3>1, Zenon
    <3>3. v = v - 0 + 0 - 0 + 0 OBVIOUS
    <3> QED BY <2>3, <2>4, <3>1, <3>2, <3>3, Zenon
  <2> QED BY <1>1, <1>5, <2>1, <2>2, <2>5, <2>6, PoolMove, Zenon
<1>10. \A s \in Tasks : Holds(s)' => /\ Adding(s)' <=> Adding(s)
                                     /\ Removing(s)' <=> Removing(s)
                                     /\ io'[s] = io[s] /\ ppdev'[io[s].obj] = ppdev[io[s].obj]
    BY <1>5, <1>6, <1>7 DEF Holds, Adding, Removing
<1>11. \A s \in Tasks : /\ Adding(s)' => ppdev'[io'[s].obj].size = io'[s].size
                        /\ Removing(s)' => ppdev'[io'[s].obj].pdev = io'[s].pdev
  <2>1. \A s \in Tasks : /\ Adding(s) => ppdev[io[s].obj].size = io[s].size
                         /\ Removing(s) => ppdev[io[s].obj].pdev = io[s].pdev
      BY <1>1 DEF PoolInv
  <2> SUFFICES ASSUME NEW s \in Tasks
               PROVE  /\ Adding(s)' => ppdev'[io'[s].obj].size = io'[s].size
                      /\ Removing(s)' => ppdev'[io'[s].obj].pdev = io'[s].pdev
      OBVIOUS
  <2>2. CASE ~Holds(s)' BY <2>2, Zenon DEF Holds
  <2>3. CASE Holds(s)'
    <3>1. /\ Adding(s)' <=> Adding(s)
          /\ Removing(s)' <=> Removing(s)
          /\ io'[s] = io[s] /\ ppdev'[io[s].obj] = ppdev[io[s].obj]
        BY <1>10, <2>3, Zenon
    <3> QED BY <2>1, <3>1
  <2> QED BY <2>2, <2>3, Zenon
<1>12. \A s \in Tasks : io'[s].pc # "idle" => io'[s].pdev \in Devs BY <1>6 DEF PoolInv
<1>13. used' \in [Devs -> Int] BY <1>1 DEF PoolInv
<1> QED BY <1>1, <1>9, <1>11, <1>12, <1>13 DEF PoolInv

------------------------------------------------------------------------------
\* SizeOf() of what a device has listed: nothing, or one pop_dev.
LEMMA SizeNone == SizeOf({}) = 0
<1> DEFINE Eq(g) == g = [s \in SUBSET {} |->
                           IF s = {} THEN 0
                           ELSE ppdev[CHOOSE x \in s : TRUE].size + g[s \ {CHOOSE x \in s : TRUE}]]
           w == [s \in SUBSET {} |-> 0]
<1>1. Eq(w) BY SMT
<1>2. Eq(CHOOSE g : Eq(g))
  <2> HIDE DEF Eq
  <2> QED BY <1>1, Zenon
<1>3. SizeOf({}) = (CHOOSE g : Eq(g))[{}] BY Zenon DEF SizeOf, MapThenSumSet, MapThenFoldSet
<1>4. {} \in SUBSET {} OBVIOUS
<1> QED BY <1>2, <1>3, <1>4, Zenon

LEMMA SizeOne ==
    ASSUME NEW o, ppdev[o].size \in Nat
    PROVE  SizeOf({o}) = ppdev[o].size
<1> DEFINE Eq(g) == g = [s \in SUBSET {o} |->
                           IF s = {} THEN 0
                           ELSE ppdev[CHOOSE x \in s : TRUE].size + g[s \ {CHOOSE x \in s : TRUE}]]
           w == [s \in SUBSET {o} |-> IF s = {} THEN 0 ELSE ppdev[o].size]
           it == CHOOSE g : Eq(g)
<1>1. SUBSET {o} = {{}, {o}} OBVIOUS
<1>2. (CHOOSE x \in {o} : TRUE) = o /\ {o} \ {o} = {} OBVIOUS
<1>3. Eq(w)
  <2>1. ASSUME NEW s \in SUBSET {o}
        PROVE  w[s] = IF s = {} THEN 0
                      ELSE ppdev[CHOOSE x \in s : TRUE].size + w[s \ {CHOOSE x \in s : TRUE}]
    <3>1. CASE s = {} BY <3>1
    <3>2. CASE s = {o}
      <4>1. w[{o}] = ppdev[o].size /\ w[{}] = 0 BY <1>1
      <4> HIDE DEF w
      <4> QED BY <1>2, <3>2, <4>1
    <3> QED BY <1>1, <3>1, <3>2
  <2> QED BY <2>1
<1>4. Eq(it)
  <2> HIDE DEF Eq
  <2> QED BY <1>3, Zenon
<1>5. SizeOf({o}) = it[{o}] BY Zenon DEF SizeOf, MapThenSumSet, MapThenFoldSet
<1> HIDE DEF it
<1>6. it[{}] = 0 BY <1>1, <1>4
<1>7. it[{o}] = ppdev[o].size + it[{}] BY <1>1, <1>2, <1>4
<1> QED BY <1>5, <1>6, <1>7

\* Between the ioctls what is taken is what the listed pop_devs have.
LEMMA QuietPool ==
    ASSUME IInv, PoolInv, Quiet, NEW d \in Devs
    PROVE  used[d] = SizeOf(ListedOf(d)) /\ used[d] \in Int
<1>1. /\ ~raced /\ \A t \in Tasks : io[t].pc = "idle"
      /\ Types /\ Sized
    BY DEF IInv, Quiet, At
<1>2. Pool(d) /\ used[d] \in Int BY <1>1 DEF PoolInv
<1>3. \A t \in Tasks : TaskPages(d)[t] = 0 BY <1>1 DEF TaskPages
<1>4. Cardinality(Under(Tasks, TaskPages(d))) = 0 BY <1>3, UnderZero
<1>5. \A o : ~Leaving(o) BY <1>1 DEF Leaving
<1>6. Listed \subseteq Objs BY <1>1, ListedIs
<1>7. \A o \in Objs : DevPages(d)[o] = IF o \in ListedOf(d) THEN ppdev[o].size ELSE 0
    BY <1>5 DEF DevPages, ListedOf
<1>8. used[d] = Cardinality(Under(Objs, DevPages(d)))
  <2>1. Cardinality(Under(Objs, DevPages(d))) \in Nat BY <1>2, FS_CardinalityType DEF Pool
  <2> QED BY <1>2, <1>4, <2>1 DEF Pool
<1>9. CASE ListedOf(d) = {}
  <2>1. \A o \in Objs : DevPages(d)[o] = 0 BY <1>7, <1>9
  <2>2. Cardinality(Under(Objs, DevPages(d))) = 0 BY <2>1, UnderZero
  <2> QED BY <1>2, <1>8, <1>9, <2>2, SizeNone
<1>10. ASSUME NEW o \in ListedOf(d) PROVE used[d] = SizeOf(ListedOf(d))
  <2>1. o \in Objs /\ ppdev[o].size \in Nat BY <1>1, <1>6 DEF ListedOf, Types, DevRec
  <2>2. ListedOf(d) = {o} BY QuietMatch DEF NodesMatchList, ListedOf
  <2>3. DevPages(d) \in [Objs -> Nat] BY <1>1, PagesType
  <2>4. DevPages(d)[o] = ppdev[o].size /\ \A p \in Objs \ {o} : DevPages(d)[p] = 0
      BY <1>7, <2>1, <2>2
  <2>5. Cardinality(Under(Objs, DevPages(d))) = DevPages(d)[o] BY <2>1, <2>3, <2>4, UnderOne
  <2>6. SizeOf({o}) = ppdev[o].size BY <2>1, SizeOne
  <2> QED BY <1>8, <2>2, <2>4, <2>5, <2>6
<1> QED BY <1>2, <1>9, <1>10

LEMMA EmptyPool ==
    ASSUME NEW d, \A t \in Tasks : TaskPages(d)[t] = 0, \A o \in Objs : DevPages(d)[o] = 0,
           used[d] = 0
    PROVE  Pool(d)
<1>1. /\ IsFiniteSet(Under(Tasks, TaskPages(d))) /\ Cardinality(Under(Tasks, TaskPages(d))) = 0
      /\ IsFiniteSet(Under(Objs, DevPages(d))) /\ Cardinality(Under(Objs, DevPages(d))) = 0
    BY UnderZero
<1> QED BY <1>1 DEF Pool

LEMMA PoolInit == Init => PoolInv
<1> SUFFICES ASSUME Init PROVE PoolInv OBVIOUS
<1>1. Listed = {} BY DEF Init, Listed, Range
<1>2. \A t \in Tasks : io[t].pc = "idle" BY DEF Init, Idle
<1>3. ASSUME NEW d \in Devs PROVE Pool(d)
  <2>1. \A t \in Tasks : TaskPages(d)[t] = 0 BY <1>2 DEF TaskPages
  <2>2. \A o \in Objs : DevPages(d)[o] = 0 BY <1>1 DEF DevPages
  <2> QED BY <2>1, <2>2, EmptyPool DEF Init
<1>4. used \in [Devs -> Int] BY DEF Init
<1> QED BY <1>2, <1>3, <1>4 DEF PoolInv, Adding, Removing

\* The steps of the files and of the module.
LEMMA PoolModule ==
    ASSUME IInv, IInv', PoolInv,
           \/ \E f \in Files : FileOp(f)
           \/ pop_exit \/ pop_init \/ Undefined \/ UNCHANGED vars
    PROVE  PoolInv'
<1>1. ASSUME UNCHANGED <<dev_list, ppdev, io, used>>, raced => raced' PROVE PoolInv'
  <2>1. Listed' = Listed /\ \A o : Leaving(o)' <=> Leaving(o) BY <1>1 DEF Listed, Leaving
  <2>2. ASSUME NEW d \in Devs
        PROVE  TaskPages(d)' = TaskPages(d) /\ DevPages(d)' = DevPages(d)
      BY <1>1, <2>1 DEF TaskPages, DevPages
  <2>3. ASSUME NEW d \in Devs, Pool(d) PROVE Pool(d)' BY <1>1, <2>2, <2>3, Zenon DEF Pool, Under
  <2> QED BY <1>1, <2>3 DEF PoolInv, Adding, Removing
<1>2. CASE \E f \in Files : FileOp(f)
    BY <1>1, <1>2, Zenon DEF FileOp, pop_dev_open, pop_dev_release, pop_dev_mmap, pop_dev_mem_fault,
                      registry, history
<1>3. CASE pop_init BY <1>1, <1>3 DEF pop_init, IInv, history
<1>4. CASE Undefined \/ UNCHANGED vars BY <1>1, <1>4 DEF Undefined, vars, registry, history
<1>5. CASE pop_exit
  <2>1. /\ Quiet /\ dev_list' = <<>> /\ io' = io
        /\ used' = [d \in Devs |-> used[d] - SizeOf(ListedOf(d))]
      BY <1>5 DEF pop_exit
  <2>2. \A t \in Tasks : io[t].pc = "idle" BY <2>1 DEF Quiet, At
  <2>3. Listed' = {} BY <2>1 DEF Listed, Range
  <2>4. ASSUME NEW d \in Devs PROVE used'[d] = 0
    <3>1. used[d] = SizeOf(ListedOf(d)) /\ used[d] \in Int BY <2>1, QuietPool
    <3> QED BY <2>1, <3>1
  <2>5. used' \in [Devs -> Int] BY <2>1, <2>4
  <2>6. ASSUME NEW d \in Devs PROVE Pool(d)'
    <3>1. \A t \in Tasks : TaskPages(d)'[t] = 0 BY <2>1, <2>2 DEF TaskPages
    <3>2. \A o \in Objs : DevPages(d)'[o] = 0 BY <2>3 DEF DevPages
    <3>3. /\ IsFiniteSet(Under(Tasks, TaskPages(d)')) /\ Cardinality(Under(Tasks, TaskPages(d)')) = 0
          /\ IsFiniteSet(Under(Objs, DevPages(d)')) /\ Cardinality(Under(Objs, DevPages(d)')) = 0
        BY <3>1, <3>2, UnderZero
    <3> QED BY <2>4, <3>3 DEF Pool, Under
  <2> QED BY <2>1, <2>2, <2>5, <2>6 DEF PoolInv, Adding, Removing
<1> QED BY <1>2, <1>3, <1>4, <1>5

LEMMA PoolInvariant == Spec => []PoolInv
<1>1. IInv /\ IInv' /\ PoolInv /\ [Next]_vars => PoolInv'
  <2> SUFFICES ASSUME IInv, IInv', PoolInv, [Next]_vars PROVE PoolInv' OBVIOUS
  <2>1. ASSUME NEW t \in Tasks, Ioctl(t) PROVE PoolInv'
    <3>1. CASE \E d \in Devs : \/ \E bytes \in ReqSizes : RegStart(t, d, bytes)
                               \/ UnregStart(t, d)
        BY <3>1, PoolStart
    <3>2. CASE RegFind(t) \/ RegSize(t) \/ RegReturn(t) \/ UnregFind(t) BY <3>2, PoolFind
    <3>3. CASE RegMisc(t) \/ UnregMisc(t) BY <3>3, PoolMisc
    <3>4. CASE RegAlloc(t) \/ RegFill(t) \/ RegList(t) BY <3>4, PoolAlloc, PoolFill, PoolList
    <3>5. CASE UnregFree(t) \/ UnregDel(t) BY <3>5, PoolFree, PoolDel
    <3> QED BY <2>1, <3>1, <3>2, <3>3, <3>4, <3>5 DEF Ioctl
  <2> QED BY <2>1, PoolModule DEF Next
<1> QED BY <1>1, PoolInit, Invariant, PTL DEF Spec

(***************************************************************************)
(* For any number of devices, tasks and pop_devs, and whichever call       *)
(* fails: between the ioctls the pages taken from the pool of a device are *)
(* those of its listed pop_dev.                                            *)
(***************************************************************************)
THEOREM PoolAccountingTheorem == Spec => []PoolAccounting
<1>1. IInv /\ PoolInv => PoolAccounting BY QuietPool DEF PoolAccounting
<1> QED BY <1>1, Invariant, PoolInvariant, PTL

(***************************************************************************)
(* Once pop_exit() is done no node, no list entry and no page is left, in  *)
(* any number of rounds of loading and unloading.                          *)
(***************************************************************************)
THEOREM UnloadCleanTheorem == Spec => []UnloadClean
<1>1. IInv /\ PoolInv => UnloadClean
  <2> SUFFICES ASSUME IInv, PoolInv, ~loaded
               PROVE  dev_list = <<>> /\ misc = {} /\ \A d \in Devs : used[d] = 0
      BY DEF UnloadClean
  <2>1. Quiet /\ dev_list = <<>> BY DEF IInv
  <2>2. Listed = {} BY <2>1 DEF Listed, Range
  <2>3. misc = {} BY <2>1, <2>2, QuietMatch DEF NodesMatchList
  <2>4. ASSUME NEW d \in Devs PROVE used[d] = 0
    <3>1. ListedOf(d) = {} BY <2>2 DEF ListedOf
    <3> QED BY <2>1, <3>1, QuietPool, SizeNone, Zenon
  <2> QED BY <2>1, <2>3, <2>4
<1> QED BY <1>1, Invariant, PoolInvariant, PTL
------------------------------------------------------------------------------
(* The references on the pci_devs.                                         *)

\* The tasks between pci_get_...() and pci_dev_put(), or the return.
RefLabels == {"find", "size", "alloc", "fill", "misc", "list", "ret",
              "unfind", "unmisc", "unfree"}
Holders(d) == {t \in Tasks : io[t].pc \in RefLabels /\ io[t].pdev = d}

\* The listed pop_devs of d that a reference was kept for when the ioctl that
\* registered them returned.
Returning(o, d) ==
    \E t \in Tasks : /\ io[t].pc = "ret" /\ io[t].size >= 0
                     /\ io[t].obj = o /\ io[t].pdev = d
Kept(d) == {o \in Listed : ppdev[o].pdev = d /\ ~Returning(o, d)}

Pinned(d) ==
    /\ IsFiniteSet(Holders(d)) /\ IsFiniteSet(Kept(d))
    /\ pciref[d] >= Cardinality(Holders(d)) + Cardinality(Kept(d))

PinInv ==
    /\ pciref \in [Devs -> Int]
    /\ \A o \in Listed : ppdev[o].pdev \in Devs
    /\ \A t \in Tasks : io[t].pc \in {"fill", "misc", "list"} => io[t].size <= PoolPages
    /\ \A d \in Devs \ faulted : Pinned(d)

------------------------------------------------------------------------------
(* The references.                                                         *)

LEMMA PinCount ==
    ASSUME NEW H, NEW K, NEW H2, NEW K2, NEW r \in Int, NEW r2 \in Int, NEW t,
           IsFiniteSet(H), IsFiniteSet(K), r >= Cardinality(H) + Cardinality(K),
           K2 \subseteq K,
           \/ H2 = H /\ r2 = r
           \/ t \notin H /\ H2 = H \cup {t} /\ r2 = r + 1
           \/ t \in H /\ H2 = H \ {t} /\ r2 = r - 1
    PROVE  IsFiniteSet(H2) /\ IsFiniteSet(K2) /\ r2 >= Cardinality(H2) + Cardinality(K2)
<1>1. Cardinality(H) \in Nat /\ Cardinality(K) \in Nat BY FS_CardinalityType
<1>2. /\ IsFiniteSet(H \cup {t}) /\ IsFiniteSet(H \ {t})
      /\ t \notin H => Cardinality(H \cup {t}) = Cardinality(H) + 1
      /\ t \in H => Cardinality(H \ {t}) = Cardinality(H) - 1
    BY FS_AddElement, FS_RemoveElement
<1>3. IsFiniteSet(K2) /\ Cardinality(K2) <= Cardinality(K) /\ Cardinality(K2) \in Nat
    BY FS_Subset, FS_CardinalityType
<1>4. CASE H2 = H /\ r2 = r BY <1>1, <1>3, <1>4
<1>5. CASE t \notin H /\ H2 = H \cup {t} /\ r2 = r + 1 BY <1>1, <1>2, <1>3, <1>5
<1>6. CASE t \in H /\ H2 = H \ {t} /\ r2 = r - 1 BY <1>1, <1>2, <1>3, <1>6
<1> QED BY <1>4, <1>5, <1>6

\* One holder less, and one pop_dev more.
LEMMA PinHand ==
    ASSUME NEW H, NEW K, NEW K2, NEW r \in Int, NEW t \in H, NEW o,
           IsFiniteSet(H), IsFiniteSet(K), r >= Cardinality(H) + Cardinality(K),
           K2 \subseteq K \cup {o}
    PROVE  /\ IsFiniteSet(H \ {t}) /\ IsFiniteSet(K2)
           /\ r >= Cardinality(H \ {t}) + Cardinality(K2)
<1>1. Cardinality(H) \in Nat /\ Cardinality(K) \in Nat BY FS_CardinalityType
<1>2. IsFiniteSet(H \ {t}) /\ Cardinality(H \ {t}) = Cardinality(H) - 1 BY FS_RemoveElement
<1>3. /\ IsFiniteSet(K \cup {o})
      /\ Cardinality(K \cup {o}) = IF o \in K THEN Cardinality(K) ELSE Cardinality(K) + 1
    BY FS_AddElement
<1>4. IsFiniteSet(K2) /\ Cardinality(K2) <= Cardinality(K \cup {o}) BY <1>3, FS_Subset
<1>5. Cardinality(K2) \in Nat BY <1>4, FS_CardinalityType
<1> QED BY <1>1, <1>2, <1>3, <1>4, <1>5

\* A step of task t leaves the other holders.
LEMMA HoldersStep ==
    ASSUME NEW t \in Tasks, \A s \in Tasks \ {t} : io'[s] = io[s], NEW d,
           t \notin Holders(d)'
    PROVE  /\ t \in Holders(d) => Holders(d)' = Holders(d) \ {t}
           /\ t \notin Holders(d) => Holders(d)' = Holders(d)
BY DEF Holders

\* A step of task t that frees no pop_dev of its reference.
LEMMA RefStep ==
    ASSUME PinInv, NEW t \in Tasks, \A s \in Tasks \ {t} : io'[s] = io[s],
           pciref' \in [Devs -> Int], faulted \subseteq faulted',
           \A o \in Listed' : ppdev'[o].pdev \in Devs,
           io'[t].pc \in {"fill", "misc", "list"} => io'[t].size <= PoolPages,
           \A d \in Devs \ faulted' :
              /\ Kept(d)' \subseteq Kept(d)
              /\ \/ (t \in Holders(d)' <=> t \in Holders(d)) /\ pciref'[d] = pciref[d]
                 \/ t \in Holders(d)' /\ t \notin Holders(d) /\ pciref'[d] = pciref[d] + 1
                 \/ t \notin Holders(d)' /\ t \in Holders(d) /\ pciref'[d] = pciref[d] - 1
    PROVE  PinInv'
<1>1. ASSUME NEW d \in Devs \ faulted' PROVE Pinned(d)'
  <2>1. /\ pciref[d] \in Int /\ pciref'[d] \in Int
        /\ IsFiniteSet(Holders(d)) /\ IsFiniteSet(Kept(d))
        /\ pciref[d] >= Cardinality(Holders(d)) + Cardinality(Kept(d))
      BY DEF PinInv, Pinned
  <2>2. \A s \in Tasks \ {t} : s \in Holders(d)' <=> s \in Holders(d) BY DEF Holders
  <2>3. Holders(d) \subseteq Tasks /\ Holders(d)' \subseteq Tasks BY DEF Holders
  <2>4. \/ Holders(d)' = Holders(d) /\ pciref'[d] = pciref[d]
        \/ t \notin Holders(d) /\ Holders(d)' = Holders(d) \cup {t} /\ pciref'[d] = pciref[d] + 1
        \/ t \in Holders(d) /\ Holders(d)' = Holders(d) \ {t} /\ pciref'[d] = pciref[d] - 1
    <3>1. (t \in Holders(d)' <=> t \in Holders(d)) => Holders(d)' = Holders(d) BY <2>2, <2>3
    <3>2. t \in Holders(d)' /\ t \notin Holders(d) => Holders(d)' = Holders(d) \cup {t}
        BY <2>2, <2>3
    <3>3. t \notin Holders(d)' /\ t \in Holders(d) => Holders(d)' = Holders(d) \ {t}
        BY <2>2, <2>3
    <3> QED BY <3>1, <3>2, <3>3
  <2>5. Kept(d)' \subseteq Kept(d) OBVIOUS
  <2>6. PICK H, K, H2, K2, r, r2 :
            /\ H = Holders(d) /\ K = Kept(d) /\ H2 = Holders(d)' /\ K2 = Kept(d)'
            /\ r = pciref[d] /\ r2 = pciref'[d]
      OBVIOUS
  <2>7. IsFiniteSet(H2) /\ IsFiniteSet(K2) /\ r2 >= Cardinality(H2) + Cardinality(K2)
    <3>1. r \in Int /\ r2 \in Int /\ IsFiniteSet(H) /\ IsFiniteSet(K)
          /\ r >= Cardinality(H) + Cardinality(K)
        BY <2>1, <2>6
    <3>2. K2 \subseteq K BY <2>5, <2>6
    <3>3. \/ H2 = H /\ r2 = r
          \/ t \notin H /\ H2 = H \cup {t} /\ r2 = r + 1
          \/ t \in H /\ H2 = H \ {t} /\ r2 = r - 1
        BY <2>4, <2>6
    <3> QED BY <3>1, <3>2, <3>3, PinCount
  <2> QED BY <2>6, <2>7 DEF Pinned
<1>2. \A s \in Tasks : io'[s].pc \in {"fill", "misc", "list"} => io'[s].size <= PoolPages
    BY DEF PinInv
<1> QED BY <1>1, <1>2 DEF PinInv

\* A pop_dev loses its pin only if it leaves the list or a task returns.
LEMMA KeptStays ==
    ASSUME NEW t \in Tasks, \A s \in Tasks \ {t} : io'[s] = io[s], NEW d,
           ~(io[t].pc = "ret" /\ io[t].size >= 0 /\ io[t].pdev = d),
           \A o \in Listed' : \/ o \in Listed /\ ppdev'[o] = ppdev[o]
                              \/ ppdev'[o].pdev = d => Returning(o, d)'
    PROVE  Kept(d)' \subseteq Kept(d)
<1>1. \A o : Returning(o, d) => Returning(o, d)' BY DEF Returning
<1> QED BY <1>1 DEF Kept

LEMMA PinStart ==
    ASSUME IInv, PinInv, NEW t \in Tasks, NEW d \in Devs,
           (\E bytes \in ReqSizes : RegStart(t, d, bytes)) \/ UnregStart(t, d)
    PROVE  PinInv'
<1>1. /\ io[t].pc = "idle" /\ dev_list' = dev_list /\ ppdev' = ppdev /\ faulted' = faulted
      /\ io \in [Tasks -> IoRec] /\ pciref \in [Devs -> Int]
    BY Zenon DEF RegStart, UnregStart, At, registry, history, IInv, Types, PinInv
<1>2. /\ \A s \in Tasks \ {t} : io'[s] = io[s]
      /\ \/ io'[t].pc = "idle" /\ pciref' = pciref
         \/ /\ io'[t].pc \in {"find", "unfind"} /\ io'[t].pdev = d
            /\ pciref' = [pciref EXCEPT ![d] = @ + 1]
    BY StartEffect
<1>3. Listed' = Listed BY <1>1 DEF Listed
<1>4. \A c \in Devs : Kept(c)' \subseteq Kept(c) BY <1>1, <1>2, <1>3, KeptStays
<1>5. \A c \in Devs : t \notin Holders(c) BY <1>1 DEF Holders, RefLabels
<1>6. pciref' \in [Devs -> Int]
  <2>1. pciref[d] + 1 \in Int BY <1>1
  <2>2. CASE pciref' = pciref BY <1>1, <2>2, Zenon
  <2>3. CASE pciref' = [pciref EXCEPT ![d] = @ + 1] BY <1>1, <2>1, <2>3, Zenon
  <2> QED BY <1>2, <2>2, <2>3, Zenon
<1>h. /\ faulted \subseteq faulted' /\ \A o \in Listed' : ppdev'[o].pdev \in Devs
      /\ \A s \in Tasks \ {t} : io'[s] = io[s]
      /\ ~(io'[t].pc \in {"fill", "misc", "list"})
    BY <1>1, <1>2, <1>3 DEF PinInv
<1>7. CASE io'[t].pc = "idle" /\ pciref' = pciref
  <2>1. \A c \in Devs : t \notin Holders(c)' BY <1>7 DEF Holders, RefLabels
  <2>2. \A c \in Devs \ faulted' : /\ Kept(c)' \subseteq Kept(c)
                                   /\ t \in Holders(c)' <=> t \in Holders(c)
                                   /\ pciref'[c] = pciref[c]
      BY <1>4, <1>5, <1>7, <2>1
  <2> QED BY <1>h, <1>6, <2>2, RefStep
<1>8. CASE /\ io'[t].pc \in {"find", "unfind"} /\ io'[t].pdev = d
           /\ pciref' = [pciref EXCEPT ![d] = @ + 1]
  <2>1. \A c \in Devs : t \in Holders(c)' <=> c = d BY <1>8 DEF Holders, RefLabels
  <2>p. pciref \in [Devs -> Int] BY <1>1
  <2>2. \A c \in Devs : pciref'[c] = IF c = d THEN pciref[c] + 1 ELSE pciref[c] BY <1>8, <2>p
  <2>3. \A c \in Devs \ faulted' :
            /\ Kept(c)' \subseteq Kept(c)
            /\ \/ (t \in Holders(c)' <=> t \in Holders(c)) /\ pciref'[c] = pciref[c]
               \/ t \in Holders(c)' /\ t \notin Holders(c) /\ pciref'[c] = pciref[c] + 1
      BY <1>4, <1>5, <2>1, <2>2
  <2> QED BY <1>h, <1>6, <2>3, RefStep
<1> QED BY <1>2, <1>7, <1>8

\* A step in the middle of an ioctl: the task keeps its reference.
LEMMA PinMiddle ==
    ASSUME IInv, PinInv, NEW t \in Tasks, \A s \in Tasks \ {t} : io'[s] = io[s],
           io[t].pc \in RefLabels \ {"ret"}, io'[t].pc \in RefLabels, io'[t].pdev = io[t].pdev,
           pciref' = pciref, faulted' = faulted, dev_list' = dev_list,
           \A o \in Listed : ppdev'[o] = ppdev[o],
           io'[t].pc \in {"fill", "misc", "list"} => io'[t].size <= PoolPages
    PROVE  PinInv'
<1>1. Listed' = Listed BY Zenon DEF Listed
<1>2. \A c \in Devs : Kept(c)' \subseteq Kept(c) BY <1>1, KeptStays
<1>3. \A c \in Devs : t \in Holders(c)' <=> t \in Holders(c) BY DEF Holders
<1>4. /\ faulted \subseteq faulted' /\ \A o \in Listed' : ppdev'[o].pdev \in Devs
      /\ pciref' \in [Devs -> Int]
    BY <1>1 DEF PinInv
<1>5. \A c \in Devs \ faulted' : /\ Kept(c)' \subseteq Kept(c)
                                 /\ t \in Holders(c)' <=> t \in Holders(c)
                                 /\ pciref'[c] = pciref[c]
    BY <1>2, <1>3
<1> QED BY <1>4, <1>5, RefStep

\* The put: pci_dev_put() and the task holds no reference any more.
LEMMA PinPut ==
    ASSUME IInv, PinInv, NEW t \in Tasks, \A s \in Tasks \ {t} : io'[s] = io[s],
           io[t].pc \in RefLabels, io[t].pdev \in Devs, io'[t].pc \in {"idle", "undel"}, PutDev(t),
           faulted \subseteq faulted', ppdev' = ppdev, dev_list' = dev_list,
           io[t].pc # "ret" \/ io[t].size < 0 \/ io[t].pdev \in faulted'
    PROVE  PinInv'
<1>1. Listed' = Listed BY DEF Listed
<1>2. ASSUME NEW c \in Devs \ faulted' PROVE Kept(c)' \subseteq Kept(c)
  <2>1. io[t].size \in Int BY DEF IInv, Types, IoRec
  <2>2. ~(io[t].pc = "ret" /\ io[t].size >= 0 /\ io[t].pdev = c) BY <2>1
  <2> QED BY <1>1, <2>2, KeptStays
<1>3. /\ \A c \in Devs : t \in Holders(c) <=> c = io[t].pdev
      /\ \A c \in Devs : t \notin Holders(c)'
    BY DEF Holders, RefLabels
<1>4. /\ pciref' \in [Devs -> Int]
      /\ \A c \in Devs : pciref'[c] = IF c = io[t].pdev THEN pciref[c] - 1 ELSE pciref[c]
  <2>1. pciref \in [Devs -> Int] BY Zenon DEF PinInv
  <2>2. pciref' = [pciref EXCEPT ![io[t].pdev] = @ - 1] BY Zenon DEF PutDev
  <2> QED BY <2>1, <2>2
<1>5. \A o \in Listed' : ppdev'[o].pdev \in Devs BY <1>1 DEF PinInv
<1>6. ~(io'[t].pc \in {"fill", "misc", "list"}) OBVIOUS
<1>7. \A c \in Devs \ faulted' :
          /\ Kept(c)' \subseteq Kept(c)
          /\ \/ (t \in Holders(c)' <=> t \in Holders(c)) /\ pciref'[c] = pciref[c]
             \/ t \notin Holders(c)' /\ t \in Holders(c) /\ pciref'[c] = pciref[c] - 1
    BY <1>2, <1>3, <1>4
<1> QED BY <1>4, <1>5, <1>6, <1>7, RefStep

LEMMA PinReg ==
    ASSUME IInv, PoolInv, PinInv, NEW t \in Tasks,
           RegFind(t) \/ RegSize(t) \/ RegAlloc(t) \/ RegFill(t) \/ RegMisc(t) \/ UnregMisc(t)
    PROVE  PinInv'
<1>1. /\ ~raced /\ io[t].pc \in {"find", "size", "alloc", "fill", "misc", "unmisc"}
      /\ dev_list' = dev_list /\ faulted' = faulted /\ pciref' = pciref
      /\ io \in [Tasks -> IoRec] /\ io[t] \in IoRec /\ Types /\ ListInv
    BY DEF RegFind, RegSize, RegAlloc, RegFill, RegMisc, UnregMisc, At, registry, history,
           IInv, Types
<1>2. \A o \in Listed : ppdev'[o] = ppdev[o]
  <2>1. CASE ppdev' = ppdev BY <2>1
  <2>2. CASE RegFill(t)
    <3>1. \A o \in Objs : ppdev[o].live => ppdev'[o] = ppdev[o]
        BY <1>1, <2>2 DEF RegFill, Types
    <3> QED BY <1>1, <3>1, ListedIs DEF ListInv
  <2> QED BY <2>1, <2>2 DEF RegFind, RegSize, RegAlloc, RegMisc, UnregMisc, registry
<1>3. io[t].pc \in {"fill", "misc"} => io[t].size <= PoolPages BY DEF PinInv
<1>4. /\ \A s \in Tasks \ {t} : io'[s] = io[s]
      /\ io'[t].pc \in RefLabels /\ io'[t].pdev = io[t].pdev
      /\ io'[t].pc \in {"fill", "misc", "list"} => io'[t].size <= PoolPages
  <2>1. CASE RegFind(t) \/ RegSize(t)
      BY <1>1, <2>1 DEF RegFind, RegSize, Goto, IoRec, RefLabels
  <2>2. CASE RegAlloc(t)
    <3> DEFINE n == IF io[t].reg = 0 THEN PoolPages ELSE PagesFor(io[t].reg)
    <3>1. io[t].pdev \in Devs BY <1>1, <2>2 DEF PoolInv, RegAlloc, At
    <3>2. used[io[t].pdev] \in Nat
      <4>1. Pool(io[t].pdev) BY <1>1, <3>1 DEF PoolInv
      <4>2. PICK A, B : IsFiniteSet(A) /\ IsFiniteSet(B)
                        /\ used[io[t].pdev] = Cardinality(A) + Cardinality(B)
          BY <4>1, Zenon DEF Pool
      <4>3. Cardinality(A) \in Nat /\ Cardinality(B) \in Nat BY <4>2, FS_CardinalityType
      <4> QED BY <4>2, <4>3
    <3>3. n \in Nat
      <4>1. io[t].reg \in Nat BY <1>1 DEF IoRec
      <4> QED BY <4>1, PagesForNat, BoogiepopAssumption
    <3>4. \/ /\ used[io[t].pdev] + n <= PoolPages
             /\ io' = [io EXCEPT ![t].pc = "fill", ![t].size = n, ![t].reg = 0]
          \/ io' = [io EXCEPT ![t].pc = "ret", ![t].size = -1]
        BY <2>2 DEF RegAlloc
    <3> HIDE DEF n
    <3>5. CASE /\ used[io[t].pdev] + n <= PoolPages
               /\ io' = [io EXCEPT ![t].pc = "fill", ![t].size = n, ![t].reg = 0]
      <4>1. n <= PoolPages BY <3>2, <3>3, <3>5, BoogiepopAssumption
      <4> QED BY <1>1, <3>5, <4>1 DEF IoRec, RefLabels
    <3>6. CASE io' = [io EXCEPT ![t].pc = "ret", ![t].size = -1]
        BY <1>1, <3>6 DEF IoRec, RefLabels
    <3> QED BY <3>4, <3>5, <3>6
  <2>3. CASE FreeAndFail(t)
    <3>1. io' = [io EXCEPT ![t].pc = "ret", ![t].size = -1] BY <2>3 DEF FreeAndFail
    <3> QED BY <1>1, <3>1 DEF IoRec, RefLabels
  <2>4. CASE RegFill(t) /\ ~FreeAndFail(t)
    <3>1. PICK o \in Objs : io' = [io EXCEPT ![t].pc = "misc", ![t].obj = o]
        BY <2>4 DEF RegFill
    <3> QED BY <1>1, <1>3, <2>4, <3>1, Zenon DEF IoRec, RefLabels, RegFill, At
  <2>5. CASE RegMisc(t) /\ ~FreeAndFail(t)
    <3>1. io' = [io EXCEPT ![t].pc = "list"] BY <2>5 DEF RegMisc, Goto
    <3> QED BY <1>1, <1>3, <2>5, <3>1 DEF IoRec, RefLabels, RegMisc, At
  <2>6. CASE UnregMisc(t)
    <3>1. io' = [io EXCEPT ![t].pc = "unfree"] BY <2>6 DEF UnregMisc, Goto
    <3> QED BY <1>1, <3>1 DEF IoRec, RefLabels
  <2> QED BY <2>1, <2>2, <2>3, <2>4, <2>5, <2>6
<1>5. io[t].pc \in RefLabels \ {"ret"} BY <1>1 DEF RefLabels
<1> QED BY <1>1, <1>2, <1>4, <1>5, PinMiddle

\* The listed pop_dev is pinned by the reference of the task, which returns a
\* size that fits in an int.
LEMMA PinList ==
    ASSUME IInv, IInv', PoolInv, PinInv, NEW t \in Tasks, RegList(t),
           PoolPages * PAGE_SIZE < INT \div 2
    PROVE  PinInv'
<1>o. PICK o : o = io[t].obj OBVIOUS
<1>1. /\ ~raced /\ io[t].pc = "list" /\ ppdev' = ppdev /\ pciref' = pciref
      /\ faulted' = faulted /\ dev_list' = Append(dev_list, o)
      /\ io' = [io EXCEPT ![t].pc = "ret", ![t].size = ToInt(io[t].size * PAGE_SIZE)]
      /\ io \in [Tasks -> IoRec] /\ io[t] \in IoRec /\ io[t].size \in Nat
      /\ TaskInv /\ dev_list \in Seq(Objs) /\ io[t].size <= PoolPages /\ io[t].pdev \in Devs
    BY <1>o DEF RegList, At, history, IInv, Types, Sized, PoolInv, PinInv
<1>2. Adding(t) /\ Holds(t) BY <1>1 DEF Adding, Holds
<1>3. o \in Objs /\ ppdev[o].pdev = io[t].pdev BY <1>1, <1>2, <1>o DEF TaskInv
<1>4. ToInt(io[t].size * PAGE_SIZE) >= 0
  <2>1. PICK x \in Nat : x = io[t].size * PAGE_SIZE BY <1>1, BoogiepopAssumption
  <2>2. x <= PoolPages * PAGE_SIZE BY <1>1, <2>1, BoogiepopAssumption
  <2>3. x < INT \div 2 /\ INT \div 2 \in Int /\ INT \div 2 <= INT
      BY <2>2, BoogiepopAssumption
  <2>4. x % INT = x BY <2>3, BoogiepopAssumption
  <2>5. ToInt(x) = x BY <2>3, <2>4 DEF ToInt
  <2> QED BY <2>1, <2>5
<1>5. /\ io'[t].pc = "ret" /\ io'[t].pdev = io[t].pdev /\ io'[t].obj = o /\ io'[t].size >= 0
      /\ \A s \in Tasks \ {t} : io'[s] = io[s]
  <2>1. PICK x : x = ToInt(io[t].size * PAGE_SIZE) OBVIOUS
  <2>2. io' = [io EXCEPT ![t].pc = "ret", ![t].size = x] BY <1>1, <2>1
  <2>3. io'[t].size = x BY <1>1, <2>2 DEF IoRec
  <2> QED BY <1>1, <1>4, <1>o, <2>1, <2>2, <2>3 DEF IoRec
<1>6. \A p \in Listed' : p \in Listed \/ p = o
  <2>1. Len(dev_list) \in Nat BY <1>1
  <2>2. /\ DOMAIN dev_list' = 1 .. Len(dev_list) + 1 /\ DOMAIN dev_list = 1 .. Len(dev_list)
        /\ dev_list'[Len(dev_list) + 1] = o
        /\ \A i \in 1 .. Len(dev_list) : dev_list'[i] = dev_list[i]
      BY <1>1, <1>3
  <2>3. \A i \in DOMAIN dev_list' : i \in DOMAIN dev_list \/ i = Len(dev_list) + 1
      BY <2>1, <2>2
  <2> QED BY <2>2, <2>3 DEF Listed, Range
<1>7. ASSUME NEW c \in Devs PROVE Kept(c)' \subseteq Kept(c)
  <2>1. c = io[t].pdev => Returning(o, c)' BY <1>5 DEF Returning
  <2> QED BY <1>1, <1>3, <1>5, <1>6, <2>1, KeptStays
<1>8. \A c \in Devs : t \in Holders(c)' <=> t \in Holders(c)
    BY <1>1, <1>5 DEF Holders, RefLabels
<1>9. \A p \in Listed' : ppdev'[p].pdev \in Devs BY <1>1, <1>3, <1>6 DEF PinInv
<1> QED BY <1>1, <1>5, <1>7, <1>8, <1>9, RefStep, Zenon DEF PinInv

\* The reference of the task becomes that of the pop_dev it registered.
LEMMA PinReturn ==
    ASSUME IInv, PoolInv, PinInv, NEW t \in Tasks, RegReturn(t)
    PROVE  PinInv'
<1>1. /\ io[t].pc = "ret" /\ dev_list' = dev_list /\ ppdev' = ppdev
      /\ io \in [Tasks -> IoRec] /\ io[t].pdev \in Devs /\ pciref \in [Devs -> Int]
      /\ io' = [io EXCEPT ![t] = Idle]
    BY Zenon DEF RegReturn, At, Return, registry, IInv, Types, PoolInv, PinInv
<1>2. io'[t].pc = "idle" /\ \A s \in Tasks \ {t} : io'[s] = io[s] BY <1>1 DEF Idle
<1>3. io[t].pc \in RefLabels BY <1>1 DEF RefLabels
<1>4. CASE io[t].size < 0 /\ PutDev(t) /\ faulted' = faulted
    BY <1>1, <1>2, <1>3, <1>4, PinPut
<1>5. CASE PutDev(t) /\ faulted' = faulted \cup {io[t].pdev}
    BY <1>1, <1>2, <1>3, <1>5, PinPut
<1>6. CASE pciref' = pciref /\ faulted' = faulted
  <2>o. PICK o : o = io[t].obj OBVIOUS
  <2>1. Listed' = Listed BY <1>1 DEF Listed
  <2>2. ASSUME NEW d \in Devs \ faulted' PROVE Pinned(d)'
    <3>0. PICK H, K, H2, K2, r :
            /\ H = Holders(d) /\ K = Kept(d) /\ H2 = Holders(d)' /\ K2 = Kept(d)'
            /\ r = pciref[d]
        OBVIOUS
    <3>1. /\ r \in Int /\ IsFiniteSet(H) /\ IsFiniteSet(K)
          /\ r >= Cardinality(H) + Cardinality(K)
        BY <1>6, <3>0, Zenon DEF PinInv, Pinned
    <3>2. CASE d = io[t].pdev
      <4>1. t \in H /\ H2 = H \ {t}
        <5>1. t \in Holders(d) BY <1>3, <3>2 DEF Holders
        <5>2. t \notin Holders(d)' BY <1>2 DEF Holders, RefLabels
        <5> QED BY <1>2, <3>0, <5>1, <5>2, HoldersStep
      <4>2. \A p : p # o /\ Returning(p, d) => Returning(p, d)'
          BY <1>2, <2>o DEF Returning
      <4>3. K2 \subseteq K \cup {o} BY <1>1, <2>1, <3>0, <4>2, Zenon DEF Kept
      <4>4. /\ IsFiniteSet(H \ {t}) /\ IsFiniteSet(K2)
            /\ r >= Cardinality(H \ {t}) + Cardinality(K2)
          BY <3>1, <4>1, <4>3, PinHand, Zenon
      <4>5. IsFiniteSet(H2) /\ IsFiniteSet(K2) /\ r >= Cardinality(H2) + Cardinality(K2)
          BY <4>1, <4>4
      <4> QED BY <1>6, <3>0, <4>5 DEF Pinned
    <3>3. CASE d # io[t].pdev
      <4>1. H2 = H
        <5>1. t \notin Holders(d) BY <3>3 DEF Holders
        <5>2. t \notin Holders(d)' BY <1>2 DEF Holders, RefLabels
        <5> QED BY <1>2, <3>0, <5>1, <5>2, HoldersStep
      <4>2. K2 \subseteq K BY <1>1, <1>2, <2>1, <3>0, <3>3, KeptStays, Zenon
      <4>3. IsFiniteSet(H2) /\ IsFiniteSet(K2) /\ r >= Cardinality(H2) + Cardinality(K2)
          BY <3>1, <4>1, <4>2, PinCount
      <4> QED BY <1>6, <3>0, <4>3 DEF Pinned
    <3> QED BY <3>2, <3>3
  <2>3. \A s \in Tasks : io'[s].pc \in {"fill", "misc", "list"} => io'[s].size <= PoolPages
      BY <1>2 DEF PinInv
  <2> QED BY <1>1, <1>6, <2>1, <2>2, <2>3 DEF PinInv
<1> QED BY <1>4, <1>5, <1>6 DEF RegReturn

LEMMA PinUnreg ==
    ASSUME IInv, IInv', PoolInv, PinInv, NEW t \in Tasks, UnregFind(t) \/ UnregFree(t)
    PROVE  PinInv'
<1>1. /\ io[t].pc \in {"unfind", "unfree"} /\ dev_list' = dev_list /\ ppdev' = ppdev
      /\ faulted' = faulted
      /\ io \in [Tasks -> IoRec] /\ io[t] \in IoRec /\ io[t].pdev \in Devs
    BY Zenon DEF UnregFind, UnregFree, At, registry, IInv, Types, PoolInv
<1>2. io[t].pc \in RefLabels \ {"ret"} BY <1>1 DEF RefLabels
<1>3. CASE UnregFree(t)
  <2>1. io' = [io EXCEPT ![t].pc = "undel"] /\ PutDev(t) BY <1>3 DEF UnregFree, Goto
  <2>2. io'[t].pc = "undel" /\ \A s \in Tasks \ {t} : io'[s] = io[s]
      BY <1>1, <2>1 DEF IoRec
  <2> QED BY <1>1, <1>2, <2>1, <2>2, PinPut
<1>4. CASE UnregFind(t) /\ pop_find_dev(io[t].pdev) = NULL
  <2>1. io' = [io EXCEPT ![t] = Idle] /\ PutDev(t) BY <1>4 DEF UnregFind, Return
  <2>2. io'[t].pc = "idle" /\ \A s \in Tasks \ {t} : io'[s] = io[s]
      BY <1>1, <2>1 DEF Idle
  <2> QED BY <1>1, <1>2, <2>1, <2>2, PinPut
<1>5. CASE UnregFind(t) /\ pop_find_dev(io[t].pdev) # NULL
  <2>1. PICK o : o = pop_find_dev(io[t].pdev) OBVIOUS
  <2>2. io' = [io EXCEPT ![t].pc = "unmisc", ![t].obj = o] /\ pciref' = pciref
      BY <1>5, <2>1 DEF UnregFind
  <2>3. /\ io'[t].pc = "unmisc" /\ io'[t].pdev = io[t].pdev
        /\ \A s \in Tasks \ {t} : io'[s] = io[s]
      BY <1>1, <2>2 DEF IoRec
  <2>4. io'[t].pc \in RefLabels BY <2>3 DEF RefLabels
  <2> QED BY <1>1, <1>2, <2>2, <2>3, <2>4, PinMiddle
<1> QED BY <1>3, <1>4, <1>5

LEMMA PinDel ==
    ASSUME IInv, PinInv, NEW t \in Tasks, UnregDel(t)
    PROVE  PinInv'
<1>o. PICK o : o = io[t].obj OBVIOUS
<1>1. /\ ~raced /\ io[t].pc = "undel" /\ pciref' = pciref /\ faulted' = faulted
      /\ ppdev' = [ppdev EXCEPT ![o] = NoDev] /\ io' = [io EXCEPT ![t] = Idle]
      /\ io \in [Tasks -> IoRec] /\ ppdev \in [Objs -> DevRec] /\ ListInv /\ Types
    BY <1>o DEF UnregDel, Return, At, IInv, Types
<1>2. PICK i \in DOMAIN dev_list : dev_list[i] = o /\ dev_list' = list_del(dev_list, i)
    BY <1>o DEF UnregDel
<1>3. Listed' = Listed \ {o}
  <2>1. dev_list \in Seq(Objs) /\ \A j, k \in DOMAIN dev_list : dev_list[j] = dev_list[k] => j = k
      BY <1>1 DEF Types, ListInv
  <2> QED BY <1>2, <2>1, RemoveIs DEF Listed
<1>4. io'[t].pc = "idle" /\ \A s \in Tasks \ {t} : io'[s] = io[s]
  <2>1. io \in [Tasks -> IoRec] /\ io' = [io EXCEPT ![t] = Idle] BY <1>1
  <2> QED BY <2>1 DEF Idle
<1>5. \A p \in Listed' : p \in Listed /\ ppdev'[p] = ppdev[p]
  <2>1. ppdev \in [Objs -> DevRec] /\ ppdev' = [ppdev EXCEPT ![o] = NoDev] BY <1>1
  <2>2. Listed \subseteq Objs BY <1>1, ListedIs
  <2> QED BY <1>3, <2>1, <2>2
<1>6. \A c \in Devs : Kept(c)' \subseteq Kept(c) BY <1>1, <1>4, <1>5, KeptStays
<1>7. \A c \in Devs : t \notin Holders(c) /\ t \notin Holders(c)'
    BY <1>1, <1>4 DEF Holders, RefLabels
<1>8. pciref' \in [Devs -> Int] /\ \A p \in Listed' : ppdev'[p].pdev \in Devs
    BY <1>1, <1>5 DEF PinInv
<1> QED BY <1>1, <1>4, <1>6, <1>7, <1>8, RefStep

LEMMA FiniteRange == ASSUME NEW S, NEW s \in Seq(S) PROVE IsFiniteSet(Range(s))
<1>1. Len(s) \in Nat /\ DOMAIN s = 1 .. Len(s) OBVIOUS
<1>2. s \in Surjection(1 .. Len(s), Range(s)) BY <1>1 DEF Surjection, Range
<1>3. IsFiniteSet(1 .. Len(s)) BY <1>1, FS_Interval
<1> QED BY <1>2, <1>3, FS_Surjection

LEMMA PinModule ==
    ASSUME IInv, PinInv,
           \/ \E f \in Files : FileOp(f)
           \/ pop_exit \/ pop_init \/ Undefined \/ UNCHANGED vars
    PROVE  PinInv'
<1>1. ASSUME UNCHANGED <<dev_list, ppdev, io, pciref, faulted>> PROVE PinInv'
  <2>1. Listed' = Listed BY <1>1 DEF Listed
  <2>2. ASSUME NEW d \in Devs PROVE Holders(d)' = Holders(d) /\ Kept(d)' = Kept(d)
      BY <1>1, <2>1 DEF Holders, Kept, Returning
  <2>3. ASSUME NEW d \in Devs, Pinned(d) PROVE Pinned(d)' BY <1>1, <2>2, <2>3 DEF Pinned
  <2> QED BY <1>1, <2>1, <2>3 DEF PinInv
<1>2. CASE \E f \in Files : FileOp(f)
    BY <1>1, <1>2, Zenon DEF FileOp, pop_dev_open, pop_dev_release, pop_dev_mmap, pop_dev_mem_fault,
                      registry, history
<1>3. CASE pop_init BY <1>1, <1>3 DEF pop_init, IInv, history
<1>4. CASE Undefined \/ UNCHANGED vars BY <1>1, <1>4 DEF Undefined, vars, registry, history
<1>5. CASE pop_exit
  <2>1. /\ Quiet /\ dev_list' = <<>> /\ io' = io /\ faulted' = faulted
        /\ pciref' = [d \in Devs |-> pciref[d] - Cardinality(ListedOf(d))]
      BY <1>5 DEF pop_exit, history
  <2>2. \A t \in Tasks : io[t].pc = "idle" BY <2>1 DEF Quiet, At
  <2>3. Listed' = {} BY <2>1 DEF Listed, Range
  <2>4. ASSUME NEW d \in Devs
        PROVE  Holders(d)' = {} /\ Holders(d) = {} /\ Kept(d)' = {} /\ Kept(d) = ListedOf(d)
    <3>1. Holders(d)' = {} /\ Holders(d) = {} BY <2>1, <2>2 DEF Holders, RefLabels
    <3>2. Kept(d)' = {} BY <2>3 DEF Kept
    <3>3. \A o : ~Returning(o, d) BY <2>2 DEF Returning
    <3>4. Kept(d) = ListedOf(d) BY <3>3 DEF Kept, ListedOf
    <3> QED BY <3>1, <3>2, <3>4
  <2>5. ASSUME NEW d \in Devs PROVE pciref'[d] \in Int
    <3>1. dev_list \in Seq(Objs) BY DEF IInv, Types
    <3>2. IsFiniteSet(Listed) BY <3>1, FiniteRange DEF Listed
    <3>3. IsFiniteSet(ListedOf(d)) BY <3>2, FS_Subset DEF ListedOf
    <3>4. Cardinality(ListedOf(d)) \in Nat BY <3>3, FS_CardinalityType, Zenon
    <3>5. PICK h \in Nat : h = Cardinality(ListedOf(d)) BY <3>4, Zenon
    <3>6. pciref[d] \in Int BY DEF PinInv
    <3>7. pciref'[d] = pciref[d] - h BY <2>1, <3>5
    <3> QED BY <3>6, <3>7
  <2>6. ASSUME NEW d \in Devs \ faulted PROVE Pinned(d)'
    <3>1. Pinned(d) /\ pciref[d] \in Int BY DEF PinInv
    <3>2. PICK k \in Nat : k = Cardinality(Kept(d))
      <4>1. Cardinality(Kept(d)) \in Nat BY <3>1, FS_CardinalityType DEF Pinned
      <4> QED BY <4>1
    <3>3. pciref[d] >= Cardinality(Holders(d)) + k BY <3>1, <3>2 DEF Pinned
    <3>4. IsFiniteSet({}) /\ Cardinality({}) = 0 BY FS_EmptySet
    <3>5. pciref[d] >= 0 + k BY <2>4, <3>3, <3>4
    <3>6. pciref'[d] = pciref[d] - k BY <2>1, <2>4, <3>2
    <3>7. pciref'[d] >= 0 BY <3>1, <3>2, <3>5, <3>6
    <3>8. pciref'[d] >= 0 + 0 BY <3>7
    <3> QED BY <2>4, <3>4, <3>8 DEF Pinned
  <2>7. pciref' \in [Devs -> Int] BY <2>1, <2>5
  <2> QED BY <2>1, <2>2, <2>3, <2>6, <2>7 DEF PinInv
<1> QED BY <1>2, <1>3, <1>4, <1>5

(***************************************************************************)
(* If a device has less p2pmem than an int can count, the size that        *)
(* pop_register_p2pmem() returns is not taken for an error, and through    *)
(* any interleaving of ioctls a listed pop_dev has a reference on its      *)
(* pci_dev, as long as no copy_to_user() failed for the device.            *)
(***************************************************************************)
THEOREM ListedPinnedTheorem ==
    ASSUME PoolPages * PAGE_SIZE < INT \div 2
    PROVE  Spec => []ListedPinned
<1>1. Init => PinInv
  <2> SUFFICES ASSUME Init PROVE PinInv OBVIOUS
  <2>1. Listed = {} BY DEF Init, Listed, Range
  <2>2. \A t \in Tasks : io[t].pc = "idle" BY DEF Init, Idle
  <2>3. ASSUME NEW d \in Devs PROVE Pinned(d)
    <3>1. Holders(d) = {} /\ Kept(d) = {} BY <2>1, <2>2 DEF Holders, RefLabels, Kept
    <3> QED BY <3>1, FS_EmptySet DEF Pinned, Init
  <2> QED BY <2>1, <2>2, <2>3 DEF PinInv, Init
<1>2. IInv /\ IInv' /\ PoolInv /\ PinInv /\ [Next]_vars => PinInv'
  <2> SUFFICES ASSUME IInv, IInv', PoolInv, PinInv, [Next]_vars PROVE PinInv' OBVIOUS
  <2>1. ASSUME NEW t \in Tasks, Ioctl(t) PROVE PinInv'
    <3>1. CASE \E d \in Devs : \/ \E bytes \in ReqSizes : RegStart(t, d, bytes)
                               \/ UnregStart(t, d)
        BY <3>1, PinStart
    <3>2. CASE \/ RegFind(t) \/ RegSize(t) \/ RegAlloc(t) \/ RegFill(t)
               \/ RegMisc(t) \/ UnregMisc(t)
        BY <3>2, PinReg
    <3>3. CASE RegList(t) BY <3>3, PinList
    <3>4. CASE RegReturn(t) BY <3>4, PinReturn
    <3>5. CASE UnregFind(t) \/ UnregFree(t) BY <3>5, PinUnreg
    <3>6. CASE UnregDel(t) BY <3>6, PinDel
    <3> QED BY <2>1, <3>1, <3>2, <3>3, <3>4, <3>5, <3>6 DEF Ioctl
  <2> QED BY <2>1, PinModule DEF Next
<1>3. PinInv => ListedPinned
  <2> SUFFICES ASSUME PinInv, NEW o \in Listed, ppdev[o].pdev \notin faulted
               PROVE  pciref[ppdev[o].pdev] >= 1
      BY DEF ListedPinned
  <2>1. PICK d \in Devs : d = ppdev[o].pdev /\ d \notin faulted BY DEF PinInv
  <2>2. Pinned(d) /\ pciref[d] \in Int BY <2>1 DEF PinInv
  <2>3. /\ Cardinality(Holders(d)) \in Nat /\ Cardinality(Kept(d)) \in Nat
        /\ IsFiniteSet(Holders(d)) /\ IsFiniteSet(Kept(d))
      BY <2>2, FS_CardinalityType DEF Pinned
  <2>4. Holders(d) # {} \/ Kept(d) # {}
      BY <2>1 DEF Kept, Returning, Holders, RefLabels
  <2>5. Cardinality(Holders(d)) # 0 \/ Cardinality(Kept(d)) # 0 BY <2>3, <2>4, FS_EmptySet
  <2>6. PICK h \in Nat, k \in Nat : h = Cardinality(Holders(d)) /\ k = Cardinality(Kept(d))
      BY <2>3
  <2>7. pciref[d] >= h + k BY <2>2, <2>6 DEF Pinned
  <2>8. h # 0 \/ k # 0 BY <2>5, <2>6
  <2>9. pciref[d] >= 1 BY <2>2, <2>6, <2>7, <2>8
  <2> QED BY <2>1, <2>9
<1> QED BY <1>1, <1>2, <1>3, Invariant, PoolInvariant, PTL DEF Spec
==============================================================================
