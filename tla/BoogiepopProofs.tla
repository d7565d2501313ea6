--------------------------- MODULE BoogiepopProofs ---------------------------
(***************************************************************************)
(* Proofs about Boogiepop, for any number of devices, tasks and files.     *)
(***************************************************************************)
EXTENDS Boogiepop, FiniteSetTheorems, TLAPS

DevRec == [live : BOOLEAN, pdev : Devs \cup {NULL}, size : Nat]
IoRec == [pc : Labels, pdev : Devs \cup {NULL}, obj : Objs \cup {NULL}, reg : Nat, size : Int]
FileRec == [open : BOOLEAN, dev : Devs \cup {NULL}, obj : Objs \cup {NULL},
            map : Nat \X Nat, page : Int, fresh : BOOLEAN]

Types ==
    /\ ppdev \in [Objs -> DevRec] /\ io \in [Tasks -> IoRec]
    /\ dev_list \in Seq(Objs) /\ misc \subseteq Objs

\* The task has a pop_dev in hand: one that is not in the list yet, or one
\* that it takes out of it.
Adding(t) == io[t].pc \in {"misc", "list"}
Removing(t) == io[t].pc \in {"unmisc", "unfree", "undel"}
Holds(t) == Adding(t) \/ Removing(t)

\* What a task has computed or found for its next steps.
Sized ==
    \A t \in Tasks : /\ io[t].pc \in {"fill", "misc", "list"} => io[t].size \in Nat
                     /\ io[t].pc = "size" => io[t].obj \in Objs

\* What the tasks have in hand is allocated, and no two have the same.
TaskInv ==
    /\ \A t \in Tasks : Holds(t) => io[t].obj \in Objs /\ ppdev[io[t].obj].live
    /\ \A t \in Tasks : Adding(t) => /\ io[t].obj \notin Listed
                                     /\ ppdev[io[t].obj].pdev = io[t].pdev
    /\ \A t \in Tasks : Removing(t) => io[t].obj \in Listed
    /\ \A s, t \in Tasks : Holds(s) /\ Holds(t) /\ s # t => io[s].obj # io[t].obj

ListInv ==
    /\ \A o \in Listed : ppdev[o].live
    /\ \A i, j \in DOMAIN dev_list : dev_list[i] = dev_list[j] => i = j

\* The node of o has been registered and not deregistered.
HasNode(o) ==
    \/ o \in Listed /\ \A t \in Tasks : io[t].pc \in {"unfree", "undel"} => io[t].obj # o
    \/ \E t \in Tasks : io[t].pc = "list" /\ io[t].obj = o

MiscInv ==
    /\ \A o \in Objs : o \in misc <=> HasNode(o)
    /\ \A o, p \in misc : ppdev[o].pdev = ppdev[p].pdev => o = p

FileInv ==
    \A f \in Files :
        /\ file[f].fresh => file[f].open
        /\ file[f].fresh =>
              /\ file[f].obj \in Objs /\ ppdev[file[f].obj].live
              /\ ppdev[file[f].obj].pdev = file[f].dev
              /\ file[f].map[1] + file[f].map[2] <= ppdev[file[f].obj].size
              /\ file[f].page < ppdev[file[f].obj].size

\* The state between the calls; after a race nothing is known of the list.
IInv ==
    /\ Types /\ Sized /\ FileInv
    /\ file \in [Files -> FileRec]
    /\ raced => loaded /\ Tasks # {}
    /\ ~loaded => Quiet /\ dev_list = <<>>
    /\ ~raced => TaskInv /\ ListInv /\ MiscInv

------------------------------------------------------------------------------
(* Facts about sequences, and about what pop_find_dev() returns.           *)

LEMMA HasMin ==
    ASSUME NEW S \in SUBSET Nat, S # {}
    PROVE  Min(S) \in S
<1> DEFINE R == {p \in Nat \X Nat : p[1] < p[2]}
<1>1. IsWellFoundedOn(R, Nat) BY NatLessThanWellFounded DEF OpToRel
<1>2. PICK x \in S : \A y \in S : ~ (<<y, x>> \in R)
  <2> HIDE DEF R
  <2> QED BY <1>1, WFMin, Zenon
<1>3. ASSUME NEW y \in S PROVE x <= y
  <2>1. <<y, x>> \in Nat \X Nat /\ <<y, x>> \notin R BY <1>2
  <2>2. ~(<<y, x>>[1] < <<y, x>>[2]) BY <2>1, Zenon
  <2> QED BY <2>2
<1> QED BY <1>3, Zenon DEF Min

LEMMA ListedIs ==
    ASSUME Types
    PROVE  /\ Listed = {dev_list[i] : i \in 1 .. Len(dev_list)} /\ Len(dev_list) \in Nat
           /\ Listed \subseteq Objs /\ DOMAIN dev_list = 1 .. Len(dev_list)
BY DEF Types, Listed, Range

LEMMA FindIs ==
    ASSUME Types, NEW d, pop_find_dev(d) # NULL
    PROVE  pop_find_dev(d) \in Listed /\ ppdev[pop_find_dev(d)].pdev = d
<1> DEFINE at == {i \in DOMAIN dev_list : ppdev[dev_list[i]].pdev = d}
<1>1. at \in SUBSET Nat /\ at # {} /\ pop_find_dev(d) = dev_list[Min(at)]
    BY ListedIs DEF pop_find_dev
<1>2. Min(at) \in at BY <1>1, HasMin
<1> QED BY <1>1, <1>2, Zenon DEF Listed, Range

LEMMA RemoveIs ==
    ASSUME NEW S, NEW s \in Seq(S), NEW i \in DOMAIN s,
           \A j, k \in DOMAIN s : s[j] = s[k] => j = k
    PROVE  /\ list_del(s, i) \in Seq(S)
           /\ Range(list_del(s, i)) = Range(s) \ {s[i]}
           /\ \A j, k \in DOMAIN list_del(s, i) :
                 list_del(s, i)[j] = list_del(s, i)[k] => j = k
<1> DEFINE r == list_del(s, i)
           at(j) == IF j < i THEN j ELSE j + 1
<1>1. Len(s) \in Nat /\ DOMAIN s = 1 .. Len(s) /\ i \in 1 .. Len(s)
      /\ \A j \in 1 .. Len(s) : s[j] \in S
    OBVIOUS
<1>2. /\ r \in Seq(S) /\ Len(r) = Len(s) - 1 /\ DOMAIN r = 1 .. Len(s) - 1
      /\ \A j \in 1 .. Len(s) - 1 : r[j] = s[at(j)]
  <2>1. /\ SubSeq(s, 1, i - 1) \in Seq(S) /\ Len(SubSeq(s, 1, i - 1)) = i - 1
        /\ \A j \in 1 .. i - 1 : SubSeq(s, 1, i - 1)[j] = s[j]
      BY <1>1
  <2>2. /\ SubSeq(s, i + 1, Len(s)) \in Seq(S) /\ Len(SubSeq(s, i + 1, Len(s))) = Len(s) - i
        /\ \A j \in 1 .. Len(s) - i : SubSeq(s, i + 1, Len(s))[j] = s[i + j]
    <3>1. SubSeq(s, i + 1, Len(s)) \in Seq(S) BY <1>1
    <3>2. Len(SubSeq(s, i + 1, Len(s))) = Len(s) - i BY <1>1
    <3>3. ASSUME NEW j \in 1 .. Len(s) - i PROVE SubSeq(s, i + 1, Len(s))[j] = s[i + j]
        BY <1>1
    <3> QED BY <3>1, <3>2, <3>3, Zenon
  <2> DEFINE a == SubSeq(s, 1, i - 1)
             b == SubSeq(s, i + 1, Len(s))
  <2> HIDE DEF a, b
  <2>3. r = a \o b BY DEF list_del, a, b
  <2>4. /\ r \in Seq(S) /\ Len(r) = Len(a) + Len(b)
        /\ \A j \in 1 .. Len(a) + Len(b) : r[j] = IF j <= Len(a) THEN a[j] ELSE b[j - Len(a)]
    <3>1. a \in Seq(S) /\ b \in Seq(S) BY <2>1, <2>2 DEF a, b
    <3> QED BY <2>3, <3>1
  <2>5. Len(a) = i - 1 /\ Len(b) = Len(s) - i BY <2>1, <2>2 DEF a, b
  <2>6. Len(r) = Len(s) - 1 /\ DOMAIN r = 1 .. Len(s) - 1 BY <1>1, <2>4, <2>5
  <2>7. ASSUME NEW j \in 1 .. Len(s) - 1 PROVE r[j] = s[at(j)]
    <3>1. CASE j < i
      <4>1. j \in 1 .. i - 1 /\ j <= Len(a) /\ j \in 1 .. Len(a) + Len(b) /\ at(j) = j
          BY <1>1, <2>5, <3>1
      <4>2. r[j] = a[j] BY <2>4, <4>1
      <4> QED BY <2>1, <4>1, <4>2 DEF a
    <3>2. CASE ~(j < i)
      <4>1. /\ j - (i - 1) \in 1 .. Len(s) - i /\ ~(j <= Len(a)) /\ j \in 1 .. Len(a) + Len(b)
            /\ i + (j - (i - 1)) = j + 1 /\ at(j) = j + 1
          BY <1>1, <2>5, <3>2
      <4>2. r[j] = b[j - (i - 1)] BY <2>4, <2>5, <4>1
      <4>3. b[j - (i - 1)] = s[i + (j - (i - 1))] BY <2>2, <4>1, Zenon DEF b
      <4>4. s[i + (j - (i - 1))] = s[at(j)] BY <4>1, Zenon
      <4> QED BY <4>2, <4>3, <4>4
    <3> QED BY <3>1, <3>2
  <2> QED BY <2>4, <2>6, <2>7
<1> HIDE DEF r
<1>3. \A j \in 1 .. Len(s) - 1 : at(j) \in 1 .. Len(s) /\ at(j) # i
    BY <1>1
<1>4. \A j, k \in 1 .. Len(s) - 1 : at(j) = at(k) => j = k
    BY <1>1
<1>5. \A k \in 1 .. Len(s) : k # i => \E j \in 1 .. Len(s) - 1 : at(j) = k
  <2> SUFFICES ASSUME NEW k \in 1 .. Len(s), k # i
               PROVE  \E j \in 1 .. Len(s) - 1 : at(j) = k
      OBVIOUS
  <2>1. CASE k < i BY <1>1, <2>1
  <2>2. CASE ~(k < i)
    <3>1. k - 1 \in 1 .. Len(s) - 1 /\ at(k - 1) = k BY <1>1, <2>2
    <3> QED BY <3>1
  <2> QED BY <2>1, <2>2
<1> HIDE DEF at
<1>6. \A j, k \in DOMAIN r : r[j] = r[k] => j = k
    BY <1>1, <1>2, <1>3, <1>4, Zenon
<1>7. Range(r) = Range(s) \ {s[i]}
  <2>1. \A j \in DOMAIN r : r[j] \in Range(s) \ {s[i]}
      BY <1>1, <1>2, <1>3 DEF Range
  <2>2. \A k \in DOMAIN s : k # i => \E j \in DOMAIN r : r[j] = s[k]
      BY <1>1, <1>2, <1>5
  <2> QED BY <2>1, <2>2 DEF Range
<1> QED BY <1>2, <1>6, <1>7 DEF r

LEMMA Distinct ==
    ASSUME NEW S, NEW s \in Seq(S), \A j, k \in DOMAIN s : s[j] = s[k] => j = k
    PROVE  Cardinality(Range(s)) = Len(s)
<1>1. Len(s) \in Nat /\ DOMAIN s = 1 .. Len(s) OBVIOUS
<1>2. s \in [1 .. Len(s) -> Range(s)] BY <1>1 DEF Range
<1>3. s \in Bijection(1 .. Len(s), Range(s))
    BY <1>1, <1>2 DEF Bijection, Injection, IsInjective, Surjection, Range
<1>4. ExistsBijection(1 .. Len(s), Range(s)) BY <1>3 DEF ExistsBijection
<1> QED BY <1>1, <1>4, FS_CountingElements

LEMMA NoFileIs ==
    /\ NoFile \in FileRec /\ ~NoFile.fresh
    /\ Stale \in FileRec /\ ~Stale.fresh
<1>1. <<0, 0>> \in Nat \X Nat /\ -1 \in Int OBVIOUS
<1>2. NoFile \in FileRec /\ ~NoFile.fresh BY <1>1, Zenon DEF NoFile, FileRec
<1>3. ASSUME NEW x \in FileRec
      PROVE  [x EXCEPT !.open = TRUE] \in FileRec /\ [x EXCEPT !.open = TRUE].fresh = x.fresh
    BY Zenon DEF FileRec
<1> QED BY <1>2, <1>3 DEF Stale

LEMMA InitInv == Init => IInv
<1> SUFFICES ASSUME Init PROVE IInv OBVIOUS
<1>1. Listed = {} BY DEF Init, Listed, Range
<1>2. Types BY DEF Init, Types, DevRec, IoRec, NoDev, Idle, Labels
<1>3. Sized BY DEF Init, Sized, Idle
<1>4. FileInv /\ file \in [Files -> FileRec] BY NoFileIs DEF Init, FileInv
<1>5. \A t \in Tasks : io[t].pc = "idle" BY DEF Init, Idle
<1>6. TaskInv BY <1>5 DEF TaskInv, Holds, Adding, Removing
<1>7. ListInv BY <1>1 DEF Init, ListInv
<1>8. MiscInv BY <1>1, <1>5 DEF Init, MiscInv, HasNode
<1> QED BY <1>2, <1>3, <1>4, <1>6, <1>7, <1>8 DEF Init, IInv

\* The pop_devs that are allocated do not change.
LEMMA FileFrame ==
    ASSUME FileInv, file' = file,
           \A o \in Objs : ppdev[o].live => ppdev'[o] = ppdev[o]
    PROVE  FileInv'
BY DEF FileInv

\* A task that holds a pop_dev after the step held the same one before it, at
\* the same stage, and neither the pop_dev nor its place in dev_list changed.
LEMMA TaskFrame ==
    ASSUME TaskInv,
           \A s \in Tasks : Holds(s)' =>
              /\ Holds(s) /\ (Adding(s)' <=> Adding(s)) /\ (Removing(s)' <=> Removing(s))
              /\ io'[s].obj = io[s].obj /\ io'[s].pdev = io[s].pdev
              /\ ppdev'[io[s].obj] = ppdev[io[s].obj]
              /\ io[s].obj \in Listed' <=> io[s].obj \in Listed
    PROVE  TaskInv'
<1>1. \A s \in Tasks : Holds(s)' => io'[s].obj \in Objs /\ ppdev'[io'[s].obj].live
    BY DEF TaskInv
<1>2. ASSUME NEW s \in Tasks, Adding(s)'
      PROVE  io'[s].obj \notin Listed' /\ ppdev'[io'[s].obj].pdev = io'[s].pdev
  <2>1. Holds(s)' BY <1>2, Zenon DEF Holds
  <2> QED BY <1>2, <2>1 DEF TaskInv
<1>3. ASSUME NEW s \in Tasks, Removing(s)' PROVE io'[s].obj \in Listed'
  <2>1. Holds(s)' BY <1>3, Zenon DEF Holds
  <2> QED BY <1>3, <2>1 DEF TaskInv
<1>4. ASSUME NEW s \in Tasks, NEW t \in Tasks, Holds(s)', Holds(t)', s # t
      PROVE  io'[s].obj # io'[t].obj
    BY <1>4 DEF TaskInv
<1> QED BY <1>1, <1>2, <1>3, <1>4, Zenon DEF TaskInv

LEMMA Busy ==
    ASSUME IInv, NEW t \in Tasks, NEW l, l # "idle", At(t, l)
    PROVE  loaded
BY DEF IInv, At, Quiet

\* A step of a task that has nothing in hand, before and after it.
LEMMA FreeHanded ==
    ASSUME IInv, NEW t \in Tasks, ~raced, loaded, loaded' = loaded, file' = file,
           UNCHANGED registry, io' \in [Tasks -> IoRec], \A s \in Tasks \ {t} : io'[s] = io[s],
           ~Holds(t), ~Holds(t)',
           io'[t].pc = "fill" => io'[t].size \in Nat,
           io'[t].pc = "size" => io'[t].obj \in Objs
    PROVE  IInv'
<1>1. Types /\ Sized /\ FileInv /\ file \in [Files -> FileRec] /\ TaskInv /\ ListInv /\ MiscInv
    BY DEF IInv
<1>2. Types' BY <1>1 DEF Types, registry
<1>3. Sized'
  <2> SUFFICES ASSUME NEW s \in Tasks
               PROVE  /\ io'[s].pc \in {"fill", "misc", "list"} => io'[s].size \in Nat
                      /\ io'[s].pc = "size" => io'[s].obj \in Objs
      BY DEF Sized
  <2>1. CASE s = t BY <2>1 DEF Holds, Adding
  <2>2. CASE s # t BY <1>1, <2>2 DEF Sized
  <2> QED BY <2>1, <2>2
<1>4. FileInv' BY <1>1, FileFrame DEF registry
<1>5. Listed' = Listed BY DEF Listed, registry
<1>6. TaskInv' BY <1>1, <1>5 DEF TaskInv, Holds, Adding, Removing, registry
<1>7. ListInv' BY <1>1, <1>5 DEF ListInv, registry
<1>8. \A o \in Objs : HasNode(o)' <=> HasNode(o)
    BY <1>5 DEF HasNode, Holds, Adding, Removing
<1>9. MiscInv' BY <1>1, <1>8 DEF MiscInv, registry
<1> QED BY <1>1, <1>2, <1>3, <1>4, <1>6, <1>7, <1>9 DEF IInv

LEMMA PagesForNat == ASSUME NEW b \in Nat PROVE PagesFor(b) \in Nat
BY BoogiepopAssumption DEF PagesFor

LEMMA ToIntInt == ASSUME NEW n \in Nat PROVE ToInt(n * PAGE_SIZE) \in Int
<1>1. n * PAGE_SIZE \in Nat BY BoogiepopAssumption
<1> QED BY <1>1, BoogiepopAssumption DEF ToInt

LEMMA StartSteps ==
    ASSUME IInv, NEW t \in Tasks, NEW d \in Devs,
           (\E bytes \in ReqSizes : RegStart(t, d, bytes)) \/ UnregStart(t, d)
    PROVE  IInv'
<1>1. /\ ~raced /\ loaded /\ io[t].pc = "idle" /\ raced' = raced /\ loaded' = loaded
      /\ file' = file /\ UNCHANGED registry /\ io \in [Tasks -> IoRec]
    BY Zenon DEF RegStart, UnregStart, At, history, IInv, Types
<1>2. CASE io' = io
    BY <1>1, <1>2, FreeHanded DEF Holds, Adding, Removing
<1>i. Idle \in IoRec BY DEF Idle, IoRec, Labels
<1>3. ASSUME NEW bytes \in Nat,
             io' = [io EXCEPT ![t] = [Idle EXCEPT !.pc = "find", !.pdev = d, !.reg = bytes]]
      PROVE  IInv'
  <2>1. ASSUME NEW x \in IoRec
        PROVE  LET y == [x EXCEPT !.pc = "find", !.pdev = d, !.reg = bytes]
               IN  y \in IoRec /\ y.pc = "find"
      BY Zenon DEF IoRec, Labels
  <2>2. /\ io' \in [Tasks -> IoRec] /\ io'[t].pc = "find"
        /\ \A s \in Tasks \ {t} : io'[s] = io[s]
      BY <1>1, <1>3, <1>i, <2>1, Zenon
  <2> QED BY <1>1, <2>2, FreeHanded DEF Holds, Adding, Removing
<1>4. ASSUME io' = [io EXCEPT ![t] = [Idle EXCEPT !.pc = "unfind", !.pdev = d]]
      PROVE  IInv'
  <2>1. ASSUME NEW x \in IoRec
        PROVE  LET y == [x EXCEPT !.pc = "unfind", !.pdev = d]
               IN  y \in IoRec /\ y.pc = "unfind"
      BY Zenon DEF IoRec, Labels
  <2>2. /\ io' \in [Tasks -> IoRec] /\ io'[t].pc = "unfind"
        /\ \A s \in Tasks \ {t} : io'[s] = io[s]
      BY <1>1, <1>4, <1>i, <2>1, Zenon
  <2> QED BY <1>1, <2>2, FreeHanded DEF Holds, Adding, Removing
<1> QED BY <1>2, <1>3, <1>4, BoogiepopAssumption, Zenon DEF RegStart, UnregStart

LEMMA RegSteps ==
    ASSUME IInv, NEW t \in Tasks, RegFind(t) \/ RegSize(t) \/ RegAlloc(t) \/ RegReturn(t)
    PROVE  IInv'
<1>1. /\ ~raced /\ io[t].pc \in {"find", "size", "alloc", "ret"}
      /\ loaded' = loaded /\ file' = file /\ UNCHANGED registry
      /\ io \in [Tasks -> IoRec] /\ io[t] \in IoRec /\ Types
    BY DEF RegFind, RegSize, RegAlloc, RegReturn, At, IInv, Types
<1>2. loaded BY <1>1, Busy DEF At
<1>3. /\ io' \in [Tasks -> IoRec] /\ io'[t].pc \in {"idle", "size", "alloc", "fill", "ret"}
      /\ io'[t].pc = "fill" => io'[t].size \in Nat
      /\ io'[t].pc = "size" => io'[t].obj \in Objs
      /\ \A s \in Tasks \ {t} : io'[s] = io[s]
  <2>1. CASE RegFind(t)
    <3> DEFINE o == pop_find_dev(io[t].pdev)
    <3>1. CASE o # NULL
      <4>1. o \in Objs BY <1>1, <3>1, FindIs, ListedIs
      <4>2. io' = [io EXCEPT ![t].pc = "size", ![t].obj = o] BY <2>1, <3>1 DEF RegFind
      <4>3. io' \in [Tasks -> IoRec] /\ io'[t].pc = "size" /\ io'[t].obj = o
            /\ \A s \in Tasks \ {t} : io'[s] = io[s]
          BY <1>1, <4>1, <4>2, Zenon DEF IoRec, Labels
      <4> QED BY <4>1, <4>3
    <3>2. CASE o = NULL
      <4>1. io' = [io EXCEPT ![t].pc = "alloc"] BY <2>1, <3>2 DEF RegFind, Goto
      <4>2. io' \in [Tasks -> IoRec] /\ io'[t].pc = "alloc"
            /\ \A s \in Tasks \ {t} : io'[s] = io[s]
          BY <1>1, <4>1 DEF IoRec, Labels
      <4> QED BY <4>2
    <3> QED BY <3>1, <3>2
  <2>2. CASE RegAlloc(t)
    <3> DEFINE n == IF io[t].reg = 0 THEN PoolPages ELSE PagesFor(io[t].reg)
    <3>1. n \in Nat
      <4>1. io[t].reg \in Nat BY <1>1 DEF IoRec
      <4> QED BY <4>1, PagesForNat, BoogiepopAssumption
    <3> HIDE DEF n
    <3>2. \/ io' = [io EXCEPT ![t].pc = "fill", ![t].size = n, ![t].reg = 0]
          \/ io' = [io EXCEPT ![t].pc = "ret", ![t].size = -1]
        BY <2>2 DEF RegAlloc, n
    <3>3. /\ io' \in [Tasks -> IoRec] /\ io'[t].pc \in {"fill", "ret"}
          /\ io'[t].pc = "fill" => io'[t].size \in Nat
          /\ \A s \in Tasks \ {t} : io'[s] = io[s]
        BY <1>1, <3>1, <3>2 DEF IoRec, Labels
    <3> QED BY <3>3
  <2>3. CASE RegReturn(t)
    <3>1. io' = [io EXCEPT ![t] = Idle] BY <2>3 DEF RegReturn, Return
    <3>2. /\ io' \in [Tasks -> IoRec] /\ io'[t].pc = "idle"
          /\ \A s \in Tasks \ {t} : io'[s] = io[s]
        BY <1>1, <3>1 DEF Idle, IoRec, Labels
    <3> QED BY <3>2
  <2>4. CASE RegSize(t)
    <3>1. PICK n : n = ToInt(ppdev[io[t].obj].size * PAGE_SIZE) OBVIOUS
    <3>2. io[t].obj \in Objs BY <2>4 DEF RegSize, At, IInv, Sized
    <3>3. ppdev[io[t].obj].size \in Nat BY <1>1, <3>2 DEF Types, DevRec
    <3>4. n \in Int BY <3>1, <3>3, ToIntInt
    <3>5. io' = [io EXCEPT ![t].pc = "ret", ![t].obj = NULL, ![t].size = n]
        BY <2>4, <3>1 DEF RegSize
    <3>6. io' \in [Tasks -> IoRec] /\ io'[t].pc = "ret"
          /\ \A s \in Tasks \ {t} : io'[s] = io[s]
        BY <1>1, <3>4, <3>5, Zenon DEF IoRec, Labels
    <3> QED BY <3>6
  <2> QED BY <2>1, <2>2, <2>3, <2>4
<1> QED BY <1>1, <1>2, <1>3, FreeHanded DEF Holds, Adding, Removing

LEMMA FailIs ==
    ASSUME io \in [Tasks -> IoRec], NEW t \in Tasks, FreeAndFail(t)
    PROVE  /\ io' \in [Tasks -> IoRec] /\ io'[t].pc = "ret"
           /\ \A s \in Tasks \ {t} : io'[s] = io[s]
<1> DEFINE x == [io[t] EXCEPT !.pc = "ret", !.size = -1]
<1>1. io[t] \in IoRec OBVIOUS
<1>l. "ret" \in Labels /\ -1 \in Int BY DEF Labels
<1>2. x \in IoRec /\ x.pc = "ret"
  <2>1. ASSUME NEW m \in Int
        PROVE  LET y == [io[t] EXCEPT !.pc = "ret", !.size = m]
               IN  y \in IoRec /\ y.pc = "ret"
      BY <1>1, <1>l, Zenon DEF IoRec
  <2> QED BY <1>l, <2>1, Zenon
<1>3. io' = [io EXCEPT ![t] = x] BY Zenon DEF FreeAndFail
<1> HIDE DEF x
<1> QED BY <1>2, <1>3

\* Out of the list, a pop_dev comes into the hands of the task.
LEMMA FillStep == ASSUME IInv, NEW t \in Tasks, RegFill(t) PROVE IInv'
<1>1. /\ ~raced /\ io[t].pc = "fill" /\ raced' = raced /\ loaded' = loaded /\ file' = file
      /\ dev_list' = dev_list /\ misc' = misc
      /\ io \in [Tasks -> IoRec] /\ io[t] \in IoRec /\ Types /\ io[t].size \in Nat
    BY DEF RegFill, At, history, IInv, Types, Sized
<1>2. loaded BY <1>1, Busy DEF At
<1>3. CASE FreeAndFail(t) /\ ppdev' = ppdev
  <2>1. /\ io' \in [Tasks -> IoRec] /\ io'[t].pc = "ret"
        /\ \A s \in Tasks \ {t} : io'[s] = io[s]
      BY <1>1, <1>3, FailIs
  <2> QED BY <1>1, <1>2, <1>3, <2>1, FreeHanded DEF Holds, Adding, Removing, registry
<1>4. ASSUME NEW o \in Objs, ~ppdev[o].live,
             ppdev' = [ppdev EXCEPT ![o] = [live |-> TRUE, pdev |-> io[t].pdev,
                                            size |-> io[t].size]],
             io' = [io EXCEPT ![t].pc = "misc", ![t].obj = o]
      PROVE  IInv'
  <2>1. /\ io' \in [Tasks -> IoRec] /\ io'[t].pc = "misc" /\ io'[t].obj = o
        /\ io'[t].pdev = io[t].pdev /\ io'[t].size = io[t].size
        /\ \A s \in Tasks \ {t} : io'[s] = io[s]
      BY <1>1, <1>4, Zenon DEF IoRec, Labels
  <2>2. /\ ppdev' \in [Objs -> DevRec] /\ ppdev'[o].live /\ ppdev'[o].pdev = io[t].pdev
        /\ \A p \in Objs \ {o} : ppdev'[p] = ppdev[p]
    <3>1. [live |-> TRUE, pdev |-> io[t].pdev, size |-> io[t].size] \in DevRec
        BY <1>1 DEF DevRec, IoRec
    <3> QED BY <1>1, <1>4, <3>1 DEF Types
  <2>3. TaskInv /\ ListInv /\ MiscInv /\ Sized /\ FileInv /\ file \in [Files -> FileRec]
      BY <1>1 DEF IInv
  <2>4. Listed' = Listed /\ Listed \subseteq Objs /\ o \notin Listed
      BY <1>1, <1>4, <2>3, ListedIs DEF Listed, ListInv
  <2>5. \A s \in Tasks : Holds(s) => io[s].obj # o
      BY <1>4, <2>3 DEF TaskInv
  <2>6. o \notin misc
      BY <1>4, <2>3, <2>4, <2>5 DEF MiscInv, HasNode, Holds, Adding
  <2>7. Types' BY <1>1, <2>1, <2>2 DEF Types
  <2>8. Sized' BY <1>1, <2>1, <2>3 DEF Sized
  <2>9. FileInv' BY <1>1, <1>4, <2>2, <2>3, FileFrame
  <2>10. ~Holds(t) /\ Adding(t)' /\ ~Removing(t)'
      BY <1>1, <2>1 DEF Holds, Adding, Removing
  <2>11. \A s \in Tasks \ {t} : /\ Adding(s)' <=> Adding(s)
                                /\ Removing(s)' <=> Removing(s)
      BY <2>1 DEF Adding, Removing
  <2>12. TaskInv'
    <3>1. \A s \in Tasks \ {t} :
              Holds(s)' => /\ Holds(s) /\ io'[s] = io[s] /\ io[s].obj \in Objs \ {o}
                           /\ ppdev[io[s].obj].live /\ ppdev'[io[s].obj] = ppdev[io[s].obj]
      <4> SUFFICES ASSUME NEW s \in Tasks \ {t}, Holds(s)'
                   PROVE  /\ Holds(s) /\ io'[s] = io[s] /\ io[s].obj \in Objs \ {o}
                          /\ ppdev[io[s].obj].live /\ ppdev'[io[s].obj] = ppdev[io[s].obj]
          OBVIOUS
      <4>1. Holds(s) /\ io'[s] = io[s] BY <2>1, <2>11, Zenon DEF Holds
      <4>2. io[s].obj \in Objs \ {o} /\ ppdev[io[s].obj].live
          BY <2>3, <2>5, <4>1, Zenon DEF TaskInv
      <4> QED BY <2>2, <4>1, <4>2, Zenon
    <3>2. ASSUME NEW s \in Tasks, Holds(s)'
          PROVE  io'[s].obj \in Objs /\ ppdev'[io'[s].obj].live
        BY <2>1, <2>2, <3>1, <3>2
    <3>3. ASSUME NEW s \in Tasks, Adding(s)'
          PROVE  io'[s].obj \notin Listed' /\ ppdev'[io'[s].obj].pdev = io'[s].pdev
      <4>1. CASE s = t BY <2>1, <2>2, <2>4, <4>1
      <4>2. CASE s # t
        <5>1. Adding(s) /\ Holds(s)' BY <2>11, <3>3, <4>2, Zenon DEF Holds
        <5>2. io[s].obj \notin Listed /\ ppdev[io[s].obj].pdev = io[s].pdev
            BY <2>3, <5>1, Zenon DEF TaskInv
        <5> QED BY <2>4, <3>1, <4>2, <5>1, <5>2
      <4> QED BY <4>1, <4>2
    <3>4. ASSUME NEW s \in Tasks, Removing(s)' PROVE io'[s].obj \in Listed'
      <4>1. s # t /\ Removing(s) BY <2>10, <2>11, <3>4, Zenon
      <4> QED BY <2>1, <2>3, <2>4, <4>1 DEF TaskInv
    <3>5. ASSUME NEW s \in Tasks, NEW r \in Tasks, Holds(s)', Holds(r)', s # r
          PROVE  io'[s].obj # io'[r].obj
      <4>1. CASE s = t BY <2>1, <3>1, <3>5, <4>1
      <4>2. CASE r = t BY <2>1, <3>1, <3>5, <4>2
      <4>3. CASE s # t /\ r # t BY <2>3, <3>1, <3>5, <4>3 DEF TaskInv
      <4> QED BY <4>1, <4>2, <4>3
    <3> QED BY <3>2, <3>3, <3>4, <3>5, Zenon DEF TaskInv
  <2>13. ListInv' BY <1>1, <2>2, <2>3, <2>4 DEF ListInv
  <2>14. \A p \in Objs : HasNode(p)' <=> HasNode(p)
      BY <1>1, <2>1, <2>4 DEF HasNode
  <2>15. MiscInv' BY <1>1, <2>2, <2>3, <2>6, <2>14 DEF MiscInv, Types
  <2> QED BY <1>1, <1>2, <2>3, <2>7, <2>8, <2>9, <2>12, <2>13, <2>15 DEF IInv
<1> QED BY <1>3, <1>4 DEF RegFill

\* A step of a task that keeps what it has in hand, and changes neither the
\* list nor a pop_dev.
LEMMA SameInHand ==
    ASSUME IInv, NEW t \in Tasks, ~raced, loaded, loaded' = loaded, file' = file,
           ppdev' = ppdev, dev_list' = dev_list,
           io' \in [Tasks -> IoRec], \A s \in Tasks \ {t} : io'[s] = io[s],
           Adding(t)' <=> Adding(t), Removing(t)' <=> Removing(t), Holds(t),
           io'[t].obj = io[t].obj, io'[t].pdev = io[t].pdev, io'[t].size = io[t].size
    PROVE  (misc' \subseteq Objs /\ (~raced' => MiscInv')) => IInv'
<1> SUFFICES ASSUME misc' \subseteq Objs, ~raced' => MiscInv' PROVE IInv' OBVIOUS
<1>1. Types /\ Sized /\ FileInv /\ file \in [Files -> FileRec] /\ TaskInv /\ ListInv
    BY DEF IInv
<1>2. Types' BY <1>1 DEF Types
<1>3. Sized'
  <2> SUFFICES ASSUME NEW s \in Tasks
               PROVE  /\ io'[s].pc \in {"fill", "misc", "list"} => io'[s].size \in Nat
                      /\ io'[s].pc = "size" => io'[s].obj \in Objs
      BY DEF Sized
  <2>1. CASE s = t BY <1>1, <2>1 DEF Holds, Adding, Removing, Sized
  <2>2. CASE s # t BY <1>1, <2>2 DEF Sized
  <2> QED BY <2>1, <2>2
<1>4. FileInv' BY <1>1, FileFrame
<1>5. Listed' = Listed BY DEF Listed
<1>6. \A s \in Tasks : /\ Adding(s)' <=> Adding(s)
                       /\ Removing(s)' <=> Removing(s)
                       /\ io'[s].obj = io[s].obj /\ io'[s].pdev = io[s].pdev
    BY DEF Adding, Removing
<1>7. TaskInv' BY <1>1, <1>5, <1>6, TaskFrame, Zenon DEF Holds
<1>8. ListInv' BY <1>1, <1>5 DEF ListInv
<1> QED BY <1>1, <1>2, <1>3, <1>4, <1>7, <1>8 DEF IInv

LEMMA RegMiscStep == ASSUME IInv, NEW t \in Tasks, RegMisc(t) PROVE IInv'
<1>1. /\ ~raced /\ io[t].pc = "misc" /\ loaded' = loaded /\ file' = file
      /\ dev_list' = dev_list /\ ppdev' = ppdev
      /\ io \in [Tasks -> IoRec] /\ io[t] \in IoRec /\ Types
      /\ TaskInv /\ ListInv /\ MiscInv /\ Sized /\ FileInv /\ file \in [Files -> FileRec]
    BY DEF RegMisc, At, IInv, Types
<1>2. loaded BY <1>1, Busy DEF At
<1>3. Listed' = Listed BY <1>1 DEF Listed
<1>4. CASE FreeAndFail(t) /\ misc' = misc /\ raced' = raced
  <2>1. /\ io' \in [Tasks -> IoRec] /\ io'[t].pc = "ret"
        /\ \A s \in Tasks \ {t} : io'[s] = io[s]
      BY <1>1, <1>4, FailIs
  <2>2. Types' /\ Sized' BY <1>1, <1>4, <2>1 DEF Types, Sized
  <2>3. FileInv' BY <1>1, FileFrame
  <2>4. TaskInv'
    <3>1. \A s \in Tasks : Holds(s)' => s # t BY <2>1 DEF Holds, Adding, Removing
    <3>2. \A s \in Tasks \ {t} : /\ Holds(s)' <=> Holds(s)
                                 /\ Adding(s)' <=> Adding(s)
                                 /\ Removing(s)' <=> Removing(s)
        BY <2>1 DEF Holds, Adding, Removing
    <3> QED BY <1>1, <1>3, <2>1, <3>1, <3>2, TaskFrame, Zenon
  <2>5. ListInv' BY <1>1, <1>3 DEF ListInv
  <2>6. \A p \in Objs : HasNode(p)' <=> HasNode(p) BY <1>1, <1>3, <2>1 DEF HasNode
  <2>7. MiscInv' BY <1>1, <1>4, <2>6 DEF MiscInv
  <2> QED BY <1>1, <1>2, <1>4, <2>2, <2>3, <2>4, <2>5, <2>7 DEF IInv
<1>5. CASE ~Named(io[t].pdev) /\ misc' = misc \cup {io[t].obj} /\ Goto(t, "list")
  <2>1. /\ io' \in [Tasks -> IoRec] /\ io'[t].pc = "list" /\ io'[t].obj = io[t].obj
        /\ io'[t].pdev = io[t].pdev /\ io'[t].size = io[t].size
        /\ \A s \in Tasks \ {t} : io'[s] = io[s]
      BY <1>1, <1>5 DEF Goto, IoRec, Labels
  <2>2. /\ Adding(t) /\ Adding(t)' /\ ~Removing(t) /\ ~Removing(t)' /\ Holds(t)
        /\ io[t].obj \in Objs /\ ppdev[io[t].obj].pdev = io[t].pdev
      BY <1>1, <2>1 DEF Adding, Removing, Holds, TaskInv
  <2>3. \A p \in Objs : HasNode(p)' <=> HasNode(p) \/ p = io[t].obj
      BY <1>1, <1>3, <2>1 DEF HasNode
  <2>4. \A p \in misc : ppdev[p].pdev # io[t].pdev BY <1>5 DEF Named
  <2>5. MiscInv' BY <1>1, <1>5, <2>2, <2>3, <2>4 DEF MiscInv
  <2>6. misc' \subseteq Objs BY <1>1, <1>5, <2>2 DEF Types
  <2> QED BY <1>1, <1>2, <2>1, <2>2, <2>5, <2>6, SameInHand
<1> QED BY <1>4, <1>5 DEF RegMisc

LEMMA UnregMiscStep == ASSUME IInv, NEW t \in Tasks, UnregMisc(t) \/ UnregFree(t) PROVE IInv'
<1>1. /\ ~raced /\ io[t].pc \in {"unmisc", "unfree"} /\ loaded' = loaded /\ file' = file
      /\ dev_list' = dev_list /\ ppdev' = ppdev
      /\ io \in [Tasks -> IoRec] /\ io[t] \in IoRec /\ Types /\ TaskInv /\ MiscInv
    BY DEF UnregMisc, UnregFree, registry, At, IInv, Types
<1>2. loaded BY <1>1, Busy DEF At
<1>3. Listed' = Listed BY <1>1 DEF Listed
<1>4. /\ io' \in [Tasks -> IoRec] /\ io'[t].pc \in {"unfree", "undel"}
      /\ io'[t].obj = io[t].obj /\ io'[t].pdev = io[t].pdev /\ io'[t].size = io[t].size
      /\ \A s \in Tasks \ {t} : io'[s] = io[s]
    BY <1>1 DEF UnregMisc, UnregFree, Goto, IoRec, Labels
<1>5. /\ ~Adding(t) /\ ~Adding(t)' /\ Removing(t) /\ Removing(t)' /\ Holds(t)
    BY <1>1, <1>4 DEF Adding, Removing, Holds
<1>6. \A s \in Tasks : io[s].pc = "list" => io[s].obj # io[t].obj
    BY <1>1, <1>5 DEF TaskInv, Holds, Adding, Removing
<1>7. \A p \in Objs : HasNode(p)' <=> HasNode(p) /\ p # io[t].obj
    BY <1>1, <1>3, <1>4, <1>6 DEF HasNode
<1>8. misc' = misc \ {io[t].obj}
  <2>1. CASE UnregMisc(t) BY <2>1 DEF UnregMisc
  <2>2. CASE UnregFree(t)
    <3>1. io[t].obj \notin misc
        BY <1>1, <1>5, <1>6, <2>2 DEF UnregFree, At, MiscInv, HasNode, TaskInv
    <3> QED BY <2>2, <3>1 DEF UnregFree, registry
  <2> QED BY <2>1, <2>2
<1>9. MiscInv' BY <1>1, <1>7, <1>8 DEF MiscInv
<1>10. misc' \subseteq Objs BY <1>1, <1>8 DEF Types
<1> QED BY <1>1, <1>2, <1>4, <1>5, <1>9, <1>10, SameInHand

LEMMA RegListStep == ASSUME IInv, NEW t \in Tasks, RegList(t) PROVE IInv'
<1> DEFINE o == io[t].obj
<1>1. /\ ~raced /\ io[t].pc = "list" /\ loaded' = loaded /\ file' = file /\ raced' = raced
      /\ ppdev' = ppdev /\ misc' = misc /\ dev_list' = Append(dev_list, o)
      /\ io \in [Tasks -> IoRec] /\ io[t] \in IoRec /\ Types /\ io[t].size \in Nat
      /\ TaskInv /\ ListInv /\ MiscInv /\ Sized /\ FileInv /\ file \in [Files -> FileRec]
    BY DEF RegList, At, history, IInv, Types, Sized
<1>2. loaded BY <1>1, Busy DEF At
<1>3. /\ io' \in [Tasks -> IoRec] /\ io'[t].pc = "ret"
      /\ \A s \in Tasks \ {t} : io'[s] = io[s]
    BY <1>1, ToIntInt, Zenon DEF RegList, IoRec, Labels
<1>4. Adding(t) /\ Holds(t) BY <1>1 DEF Adding, Holds
<1>5. /\ o \in Objs /\ ppdev[o].live /\ o \notin Listed
      /\ \A s \in Tasks \ {t} : Holds(s) => io[s].obj # o
    BY <1>1, <1>4 DEF TaskInv
<1> HIDE DEF o
<1>6. /\ dev_list' \in Seq(Objs) /\ Len(dev_list) \in Nat
      /\ DOMAIN dev_list' = 1 .. Len(dev_list) + 1 /\ DOMAIN dev_list = 1 .. Len(dev_list)
      /\ dev_list'[Len(dev_list) + 1] = o
      /\ \A i \in 1 .. Len(dev_list) : dev_list'[i] = dev_list[i]
  <2>1. dev_list \in Seq(Objs) /\ dev_list' = Append(dev_list, o) BY <1>1, Zenon DEF Types
  <2>2. Len(dev_list) \in Nat /\ DOMAIN dev_list = 1 .. Len(dev_list) BY <2>1
  <2>3. dev_list' \in Seq(Objs) /\ Len(dev_list') = Len(dev_list) + 1 BY <1>5, <2>1
  <2>4. DOMAIN dev_list' = 1 .. Len(dev_list) + 1 BY <2>3
  <2>5. dev_list'[Len(dev_list) + 1] = o BY <2>1, <2>2
  <2>6. \A i \in 1 .. Len(dev_list) : dev_list'[i] = dev_list[i] BY <2>1, <2>2
  <2> QED BY <2>2, <2>3, <2>4, <2>5, <2>6, Zenon
<1>7. \A i \in DOMAIN dev_list' : i \in DOMAIN dev_list \/ i = Len(dev_list) + 1
    BY <1>6
<1>8. Listed' = Listed \cup {o}
  <2>1. \A i \in DOMAIN dev_list : i \in DOMAIN dev_list' BY <1>6
  <2>2. Len(dev_list) + 1 \in DOMAIN dev_list' BY <1>6
  <2> QED BY <1>6, <1>7, <2>1, <2>2 DEF Listed, Range
<1>9. Types' BY <1>1, <1>3, <1>6 DEF Types
<1>10. Sized' BY <1>1, <1>3 DEF Sized
<1>11. FileInv' BY <1>1, FileFrame
<1>12. ~Holds(t)' /\ \A s \in Tasks \ {t} : /\ Adding(s)' <=> Adding(s)
                                            /\ Removing(s)' <=> Removing(s)
    BY <1>3 DEF Holds, Adding, Removing
<1>13. TaskInv'
  <2>1. ASSUME NEW s \in Tasks, Holds(s)'
        PROVE  /\ s # t /\ Holds(s) /\ io'[s] = io[s]
               /\ (Adding(s)' <=> Adding(s)) /\ (Removing(s)' <=> Removing(s))
      BY <1>3, <1>12, <2>1, Zenon DEF Holds
  <2>2. ASSUME NEW s \in Tasks, Holds(s)'
        PROVE  io[s].obj \in Listed' <=> io[s].obj \in Listed
      BY <1>5, <1>8, <2>1, <2>2, Zenon
  <2> QED BY <1>1, <2>1, <2>2, TaskFrame, Zenon
<1>14. ListInv'
  <2>1. \A p \in Listed' : ppdev'[p].live BY <1>1, <1>5, <1>8 DEF ListInv
  <2>2. \A i \in DOMAIN dev_list : dev_list'[i] # o BY <1>5, <1>6 DEF Listed, Range
  <2>3. \A i, j \in DOMAIN dev_list' : dev_list'[i] = dev_list'[j] => i = j
      BY <1>1, <1>6, <1>7, <2>2 DEF ListInv
  <2> QED BY <2>1, <2>3 DEF ListInv
<1>15. \A p \in Objs : HasNode(p)' <=> HasNode(p)
    BY <1>1, <1>3, <1>5, <1>8 DEF HasNode, Holds, Removing, o
<1>16. MiscInv' BY <1>1, <1>15 DEF MiscInv
<1> QED BY <1>1, <1>2, <1>9, <1>10, <1>11, <1>13, <1>14, <1>16 DEF IInv

LEMMA UnregFindStep == ASSUME IInv, NEW t \in Tasks, UnregFind(t) PROVE IInv'
<1> DEFINE o == pop_find_dev(io[t].pdev)
<1>1. /\ ~raced /\ io[t].pc = "unfind" /\ loaded' = loaded /\ file' = file
      /\ UNCHANGED registry /\ io \in [Tasks -> IoRec] /\ io[t] \in IoRec /\ Types
      /\ TaskInv /\ ListInv /\ MiscInv /\ Sized /\ FileInv /\ file \in [Files -> FileRec]
    BY DEF UnregFind, At, IInv, Types
<1>2. loaded BY <1>1, Busy DEF At
<1>3. CASE o = NULL
  <2>1. io' = [io EXCEPT ![t] = Idle] BY <1>3 DEF UnregFind, Return
  <2>2. /\ io' \in [Tasks -> IoRec] /\ io'[t].pc = "idle"
        /\ \A s \in Tasks \ {t} : io'[s] = io[s]
      BY <1>1, <2>1 DEF Idle, IoRec, Labels
  <2> QED BY <1>1, <1>2, <2>1, <2>2, FreeHanded DEF Holds, Adding, Removing
<1>4. CASE o # NULL
  <2>1. o \in Listed /\ o \in Objs BY <1>1, <1>4, FindIs, ListedIs
  <2> HIDE DEF o
  <2>2. /\ io' = [io EXCEPT ![t].pc = "unmisc", ![t].obj = o]
        /\ raced' = \/ InListOp(Tasks \ {t})
                    \/ \E s \in Tasks \ {t} :
                         io[s].obj = o /\ io[s].pc \in {"unmisc", "unfree", "undel"}
      BY <1>4 DEF UnregFind, o
  <2>3. /\ io' \in [Tasks -> IoRec] /\ io'[t].pc = "unmisc" /\ io'[t].obj = o
        /\ \A s \in Tasks \ {t} : io'[s] = io[s]
      BY <1>1, <2>1, <2>2, Zenon DEF IoRec, Labels
  <2>4. Types' BY <1>1, <2>3 DEF Types, registry
  <2>5. Sized' BY <1>1, <2>3 DEF Sized
  <2>6. FileInv' BY <1>1, FileFrame DEF registry
  <2>7. Listed' = Listed BY <1>1 DEF Listed, registry
  <2>8. /\ Removing(t)' /\ ~Adding(t)' /\ ~Holds(t)
        /\ \A s \in Tasks \ {t} : /\ Adding(s)' <=> Adding(s)
                                  /\ Removing(s)' <=> Removing(s)
      BY <1>1, <2>3 DEF Holds, Adding, Removing
  <2>9. ASSUME ~raced' PROVE TaskInv' /\ ListInv' /\ MiscInv'
    <3>1. \A s \in Tasks \ {t} : Holds(s) => io[s].obj # o
        BY <1>1, <2>1, <2>2, <2>9 DEF TaskInv, Holds, Removing
    <3>2. ppdev[o].live BY <1>1, <2>1 DEF ListInv
    <3>3. TaskInv'
      <4>1. ppdev' = ppdev BY <1>1 DEF registry
      <4>2. \A s \in Tasks \ {t} : Holds(s)' => Holds(s) BY <2>8 DEF Holds
      <4>3. ASSUME NEW s \in Tasks, Holds(s)'
            PROVE  io'[s].obj \in Objs /\ ppdev'[io'[s].obj].live
          BY <1>1, <2>1, <2>3, <3>2, <4>1, <4>2, <4>3 DEF TaskInv
      <4>4. ASSUME NEW s \in Tasks, Adding(s)'
            PROVE  io'[s].obj \notin Listed' /\ ppdev'[io'[s].obj].pdev = io'[s].pdev
        <5>1. s # t /\ Adding(s) BY <2>8, <4>4, Zenon
        <5>2. io'[s] = io[s] BY <2>3, <5>1, Zenon
        <5>3. io[s].obj \notin Listed /\ ppdev[io[s].obj].pdev = io[s].pdev
            BY <1>1, <5>1, Zenon DEF TaskInv
        <5> QED BY <2>7, <4>1, <5>2, <5>3, Zenon
      <4>5. ASSUME NEW s \in Tasks, Removing(s)' PROVE io'[s].obj \in Listed'
          BY <1>1, <2>1, <2>3, <2>7, <2>8, <4>5 DEF TaskInv
      <4>6. ASSUME NEW s \in Tasks, NEW r \in Tasks, Holds(s)', Holds(r)', s # r
            PROVE  io'[s].obj # io'[r].obj
        <5>1. CASE s = t BY <2>3, <3>1, <4>2, <4>6, <5>1
        <5>2. CASE r = t BY <2>3, <3>1, <4>2, <4>6, <5>2
        <5>3. CASE s # t /\ r # t
          <6>1. /\ Holds(s) /\ io'[s] = io[s]
                /\ Holds(r) /\ io'[r] = io[r]
              BY <2>3, <4>2, <4>6, <5>3, Zenon
          <6>2. io[s].obj # io[r].obj BY <1>1, <4>6, <6>1, Zenon DEF TaskInv
          <6> QED BY <6>1, <6>2, Zenon
        <5> QED BY <5>1, <5>2, <5>3
      <4> QED BY <4>3, <4>4, <4>5, <4>6, Zenon DEF TaskInv
    <3>4. ListInv' BY <1>1, <2>7 DEF ListInv, registry
    <3>5. \A p \in Objs : HasNode(p)' <=> HasNode(p) BY <1>1, <2>3, <2>7 DEF HasNode
    <3>6. MiscInv' BY <1>1, <3>5 DEF MiscInv, registry
    <3> QED BY <3>3, <3>4, <3>6
  <2> QED BY <1>1, <1>2, <2>4, <2>5, <2>6, <2>9 DEF IInv
<1> QED BY <1>3, <1>4

LEMMA UnregDelStep == ASSUME IInv, NEW t \in Tasks, UnregDel(t) PROVE IInv'
<1>o. PICK o : o = io[t].obj OBVIOUS
<1>1. /\ ~raced /\ io[t].pc = "undel" /\ loaded' = loaded /\ misc' = misc
      /\ ppdev' = [ppdev EXCEPT ![o] = NoDev]
      /\ file' = [f \in Files |-> IF file[f].obj = o THEN Stale ELSE file[f]]
      /\ io' = [io EXCEPT ![t] = Idle]
      /\ io \in [Tasks -> IoRec] /\ Types
      /\ TaskInv /\ ListInv /\ MiscInv /\ Sized /\ FileInv
    BY <1>o DEF UnregDel, Dangle, Return, At, IInv, Types
<1>2. loaded BY <1>1, Busy DEF At
<1>3. PICK i \in DOMAIN dev_list : dev_list[i] = o /\ dev_list' = list_del(dev_list, i)
    BY <1>o DEF UnregDel
<1>4. Removing(t) /\ Holds(t) BY <1>1 DEF Removing, Holds
<1>5. /\ o \in Objs /\ o \in Listed
      /\ \A s \in Tasks \ {t} : Holds(s) => io[s].obj # o
    BY <1>1, <1>4, <1>o DEF TaskInv
<1>6. /\ io' \in [Tasks -> IoRec] /\ io'[t].pc = "idle"
      /\ \A s \in Tasks \ {t} : io'[s] = io[s]
  <2>1. io \in [Tasks -> IoRec] /\ io' = [io EXCEPT ![t] = Idle] BY <1>1
  <2> QED BY <2>1 DEF Idle, IoRec, Labels
<1>7. /\ ppdev' \in [Objs -> DevRec] /\ \A p \in Objs \ {o} : ppdev'[p] = ppdev[p]
  <2>1. ppdev \in [Objs -> DevRec] /\ ppdev' = [ppdev EXCEPT ![o] = NoDev]
      BY <1>1 DEF Types
  <2>2. NoDev \in DevRec BY DEF NoDev, DevRec
  <2> QED BY <2>1, <2>2, Zenon
<1>8. /\ dev_list' \in Seq(Objs) /\ Listed' = Listed \ {o}
      /\ \A j, k \in DOMAIN dev_list' : dev_list'[j] = dev_list'[k] => j = k
  <2>1. dev_list \in Seq(Objs) /\ \A j, k \in DOMAIN dev_list : dev_list[j] = dev_list[k] => j = k
      BY <1>1 DEF Types, ListInv
  <2> QED BY <1>3, <2>1, RemoveIs DEF Listed
<1>9. o \notin misc
    BY <1>1, <1>4, <1>5, <1>o DEF MiscInv, HasNode, Holds, Adding
<1>10. Types' BY <1>1, <1>6, <1>7, <1>8 DEF Types
<1>11. Sized' BY <1>1, <1>6 DEF Sized
<1>12. FileInv' /\ file' \in [Files -> FileRec]
  <2>1. file \in [Files -> FileRec] BY DEF IInv
  <2>2. file' \in [Files -> FileRec] BY <1>1, <2>1, NoFileIs
  <2>3. \A f \in Files : file'[f].fresh => file'[f] = file[f] /\ file[f].obj # o
      BY <1>1, NoFileIs
  <2> QED BY <1>1, <1>7, <2>2, <2>3 DEF FileInv
<1>13. ~Holds(t)' /\ \A s \in Tasks \ {t} : /\ Adding(s)' <=> Adding(s)
                                            /\ Removing(s)' <=> Removing(s)
    BY <1>6 DEF Holds, Adding, Removing
<1>14. TaskInv'
  <2>1. TaskInv /\ \A s \in Tasks : Holds(s)' => s # t /\ Holds(s) /\ io'[s] = io[s]
      BY <1>1, <1>6, <1>13 DEF Holds
  <2>2. \A s \in Tasks : Holds(s)' => /\ io[s].obj \in Objs /\ ppdev[io[s].obj].live
                                      /\ ppdev'[io[s].obj] = ppdev[io[s].obj]
      BY <1>5, <1>7, <2>1 DEF TaskInv
  <2>3. ASSUME NEW s \in Tasks, Holds(s)'
        PROVE  io[s].obj \in Listed' <=> io[s].obj \in Listed
      BY <1>5, <1>8, <2>1, <2>3 DEF TaskInv
  <2> QED BY <1>13, <2>1, <2>2, <2>3, TaskFrame, Zenon
<1>15. Listed \subseteq Objs BY <1>1, ListedIs
<1>16. ListInv' BY <1>1, <1>7, <1>8, <1>15 DEF ListInv
<1>17. \A p \in Objs : HasNode(p)' <=> HasNode(p)
  <2>1. ~HasNode(o) BY <1>1, <1>5, <1>9 DEF MiscInv
  <2>2. ~HasNode(o)' BY <1>1, <1>5, <1>6, <1>8 DEF HasNode, Holds, Adding
  <2>3. ASSUME NEW p \in Objs, p # o PROVE HasNode(p)' <=> HasNode(p)
      BY <1>1, <1>6, <1>8, <1>o, <2>3 DEF HasNode
  <2> QED BY <2>1, <2>2, <2>3
<1>18. MiscInv' BY <1>1, <1>7, <1>9, <1>17 DEF MiscInv, Types
<1> QED BY <1>1, <1>2, <1>10, <1>11, <1>12, <1>14, <1>16, <1>18 DEF IInv

------------------------------------------------------------------------------
(* The device files, and the module itself.                                *)

\* A step of a file that leaves the registry and the tasks alone.
LEMMA FileSteps == ASSUME IInv, NEW f \in Files, FileOp(f) PROVE IInv'
<1>1. UNCHANGED <<loaded, registry, used, pciref, io>> /\ ~raced
    BY Zenon DEF FileOp, pop_dev_open, pop_dev_release, pop_dev_mmap, pop_dev_mem_fault
<1>r. raced' => loaded /\ Tasks # {}
  <2>1. CASE \E d \in Devs : pop_dev_open(f, d) BY <2>1 DEF pop_dev_open, InListOp
  <2>2. CASE raced' = raced BY <1>1, <2>2
  <2> QED BY <2>1, <2>2 DEF FileOp, pop_dev_release, pop_dev_mmap, pop_dev_mem_fault, history
<1>2. Types /\ FileInv /\ file \in [Files -> FileRec] /\ ListInv BY <1>1 DEF IInv
<1>3. SUFFICES FileInv' /\ file' \in [Files -> FileRec]
  <2>1. Types' /\ Sized' BY <1>1 DEF IInv, Types, Sized, registry
  <2>2. Listed' = Listed BY <1>1 DEF Listed, registry
  <2>3. TaskInv' BY <1>1, <2>2 DEF IInv, TaskInv, Holds, Adding, Removing, registry
  <2>4. ListInv' BY <1>1, <2>2 DEF IInv, ListInv, registry
  <2>5. MiscInv' BY <1>1, <2>2 DEF IInv, MiscInv, HasNode, registry
  <2>6. ~loaded' => Quiet' /\ dev_list' = <<>>
      BY <1>1, <1>r DEF IInv, Quiet, At, registry
  <2> QED BY <1>1, <1>r, <2>1, <2>3, <2>4, <2>5, <2>6 DEF IInv
<1>4. ppdev' = ppdev BY <1>1 DEF registry
<1>n. ASSUME NEW new \in FileRec, file' = [file EXCEPT ![f] = new],
             new.fresh => /\ new.open
                          /\ new.obj \in Objs /\ ppdev[new.obj].live
                          /\ ppdev[new.obj].pdev = new.dev
                          /\ new.map[1] + new.map[2] <= ppdev[new.obj].size
                          /\ new.page < ppdev[new.obj].size
      PROVE  FileInv' /\ file' \in [Files -> FileRec]
  <2>1. /\ file' \in [Files -> FileRec] /\ file'[f] = new
        /\ \A g \in Files \ {f} : file'[g] = file[g]
      BY <1>2, <1>n
  <2> QED BY <1>2, <1>4, <1>n, <2>1 DEF FileInv
<1>5. CASE \E d \in Devs : pop_dev_open(f, d)
  <2>1. PICK d \in Devs : pop_dev_open(f, d) BY <1>5
  <2> DEFINE o == pop_find_dev(d)
             new == [NoFile EXCEPT !.open = TRUE, !.obj = o, !.dev = d, !.fresh = TRUE]
  <2>2. o # NULL /\ file' = [file EXCEPT ![f] = new] BY <2>1 DEF pop_dev_open
  <2>3. o \in Objs /\ ppdev[o].live /\ ppdev[o].pdev = d /\ ppdev[o].size \in Nat
      BY <1>2, <2>2, FindIs, ListedIs DEF ListInv, Types, DevRec
  <2>4. /\ new \in FileRec /\ new.open /\ new.obj = o /\ new.dev = d
        /\ new.map = <<0, 0>> /\ new.page = -1
    <3>1. ASSUME NEW x \in FileRec
          PROVE  LET y == [x EXCEPT !.open = TRUE, !.obj = o, !.dev = d, !.fresh = TRUE]
                 IN  /\ y \in FileRec /\ y.open /\ y.obj = o /\ y.dev = d
                     /\ y.map = x.map /\ y.page = x.page
        BY <2>3, Zenon DEF FileRec
    <3>2. NoFile.map = <<0, 0>> /\ NoFile.page = -1 BY DEF NoFile
    <3> QED BY <3>1, <3>2, NoFileIs, Zenon
  <2> HIDE DEF new, o
  <2>5. new.map[1] + new.map[2] <= ppdev[o].size /\ new.page < ppdev[o].size
      BY <2>3, <2>4
  <2> QED BY <1>n, <2>2, <2>3, <2>4, <2>5, Zenon
<1>6. CASE pop_dev_release(f)
    BY <1>6, <1>n, NoFileIs, Zenon DEF pop_dev_release
<1>t. file[f] \in FileRec /\ (file[f].fresh => ppdev[file[f].obj].size \in Nat)
    BY <1>2 DEF FileInv, Types, DevRec
<1>7. CASE \E off \in 0 .. PoolPages, n \in 1 .. PoolPages : pop_dev_mmap(f, off, n)
  <2>1. PICK off \in 0 .. PoolPages, n \in 1 .. PoolPages : pop_dev_mmap(f, off, n) BY <1>7
  <2> DEFINE new == [file[f] EXCEPT !.map = <<off, n>>]
  <2>2. file' = [file EXCEPT ![f] = new] /\ off + n <= ppdev[file[f].obj].size
      BY <1>2, <2>1 DEF pop_dev_mmap
  <2>3. off \in Nat /\ n \in Nat BY BoogiepopAssumption
  <2>4. /\ new \in FileRec /\ new.open = file[f].open /\ new.fresh = file[f].fresh
        /\ new.obj = file[f].obj /\ new.dev = file[f].dev /\ new.page = file[f].page
        /\ new.map[1] = off /\ new.map[2] = n
      BY <1>t, <2>3 DEF FileRec
  <2> HIDE DEF new
  <2> QED BY <1>2, <1>n, <2>2, <2>4, Zenon DEF FileInv
<1>8. CASE \E i \in 0 .. PoolPages - 1 : pop_dev_mem_fault(f, i)
  <2>1. PICK i \in 0 .. PoolPages - 1 : pop_dev_mem_fault(f, i) BY <1>8
  <2> DEFINE new == [file[f] EXCEPT !.page = file[f].map[1] + i]
  <2>2. file' = [file EXCEPT ![f] = new] /\ i < file[f].map[2]
      BY <1>2, <2>1 DEF pop_dev_mem_fault
  <2>3. i \in Nat /\ file[f].map[1] \in Nat /\ file[f].map[2] \in Nat
    <3>1. i \in Nat BY BoogiepopAssumption
    <3>2. file[f].map \in Nat \X Nat BY <1>t, Zenon DEF FileRec
    <3> QED BY <3>1, <3>2, Zenon
  <2>4. /\ new \in FileRec /\ new.open = file[f].open /\ new.fresh = file[f].fresh
        /\ new.obj = file[f].obj /\ new.dev = file[f].dev /\ new.map = file[f].map
        /\ new.page = file[f].map[1] + i
      BY <1>t, <2>3 DEF FileRec
  <2> HIDE DEF new
  <2>5. file[f].fresh => new.page < ppdev[file[f].obj].size
    <3> SUFFICES ASSUME file[f].fresh PROVE new.page < ppdev[file[f].obj].size OBVIOUS
    <3>1. file[f].map[1] + file[f].map[2] <= ppdev[file[f].obj].size
        BY <1>2 DEF FileInv
    <3>2. PICK m \in Nat : m = file[f].map[1] BY <2>3, Zenon
    <3>3. PICK k \in Nat : k = file[f].map[2] BY <2>3, Zenon
    <3>4. m + k <= ppdev[file[f].obj].size /\ i < k /\ new.page = m + i
        BY <2>2, <2>4, <3>1, <3>2, <3>3, Zenon
    <3> QED BY <1>t, <2>3, <3>4
  <2> QED BY <1>2, <1>n, <2>2, <2>4, <2>5, Zenon DEF FileInv
<1> QED BY <1>5, <1>6, <1>7, <1>8 DEF FileOp

LEMMA ModuleSteps ==
    ASSUME IInv, pop_exit \/ pop_init \/ Undefined \/ UNCHANGED vars
    PROVE  IInv'
<1>1. CASE pop_exit
  <2>1. /\ loaded /\ ~loaded' /\ dev_list' = <<>> /\ misc' = misc \ Listed
        /\ ppdev' = [o \in Objs |-> IF o \in Listed THEN NoDev ELSE ppdev[o]]
        /\ io' = io /\ file' = file /\ raced' = raced /\ Quiet
      BY <1>1 DEF pop_exit, history
  <2>2. \A t \in Tasks : io[t].pc = "idle" BY <2>1 DEF Quiet, At
  <2>3. ~raced BY <2>1 DEF IInv, Quiet, At
  <2>4. Types /\ Sized /\ MiscInv /\ FileInv /\ file \in [Files -> FileRec]
      BY <2>3 DEF IInv
  <2>5. Listed' = {} BY <2>1 DEF Listed, Range
  <2>6. misc' = {} BY <2>1, <2>2, <2>4 DEF MiscInv, HasNode, Types
  <2>7. NoDev \in DevRec BY DEF NoDev, DevRec
  <2>8. Types' /\ Sized' BY <2>1, <2>4, <2>6, <2>7 DEF Types, Sized
  <2>9. \A f \in Files : ~file[f].fresh BY <1>1, <2>4 DEF pop_exit, FileInv
  <2>10. FileInv' BY <2>1, <2>9 DEF FileInv
  <2>11. TaskInv' BY <2>1, <2>2 DEF TaskInv, Holds, Adding, Removing
  <2>12. ListInv' BY <2>1, <2>5 DEF ListInv
  <2>13. MiscInv' BY <2>1, <2>2, <2>5, <2>6 DEF MiscInv, HasNode
  <2>14. Quiet' BY <2>1, <2>2, <2>3 DEF Quiet, At
  <2> QED BY <2>1, <2>3, <2>4, <2>8, <2>10, <2>11, <2>12, <2>13, <2>14 DEF IInv
<1>2. ASSUME dev_list' = dev_list, loaded => loaded',
             UNCHANGED <<ppdev, misc, io, file, raced>>
      PROVE  IInv'
  <2>1. Listed' = Listed BY <1>2 DEF Listed
  <2>2. Types' /\ Sized' /\ FileInv' BY <1>2 DEF IInv, Types, Sized, FileInv
  <2>3. ~raced => TaskInv' BY <1>2, <2>1 DEF IInv, TaskInv, Holds, Adding, Removing
  <2>4. ~raced => ListInv' BY <1>2, <2>1 DEF IInv, ListInv
  <2>5. ~raced => MiscInv'
    <3>1. \A o \in Objs : HasNode(o)' <=> HasNode(o) BY <1>2, <2>1 DEF HasNode
    <3>2. ~raced => MiscInv BY Zenon DEF IInv
    <3> QED BY <1>2, <3>1, <3>2 DEF MiscInv
  <2>6. Quiet => Quiet' BY <1>2 DEF Quiet, At
  <2> QED BY <1>2, <2>2, <2>3, <2>4, <2>5, <2>6 DEF IInv
<1>3. CASE pop_init
  <2>1. dev_list = <<>> BY <1>3 DEF pop_init, IInv
  <2> QED BY <1>2, <1>3, <2>1 DEF pop_init, history
<1>4. CASE Undefined \/ UNCHANGED vars
    BY <1>2, <1>4 DEF Undefined, vars, registry, history
<1> QED BY <1>1, <1>3, <1>4

------------------------------------------------------------------------------
\* IInv is an invariant.
LEMMA Invariant == Spec => []IInv
<1>1. IInv /\ [Next]_vars => IInv'
  <2> SUFFICES ASSUME IInv, [Next]_vars PROVE IInv' OBVIOUS
  <2>1. ASSUME NEW t \in Tasks, Ioctl(t) PROVE IInv'
      BY <2>1, StartSteps, RegSteps, FillStep, RegMiscStep, UnregMiscStep, RegListStep,
         UnregFindStep, UnregDelStep DEF Ioctl
  <2> QED BY <2>1, FileSteps, ModuleSteps DEF Next
<1> QED BY <1>1, InitInv, PTL DEF Spec

(***************************************************************************)
(* For any number of devices, tasks and files: as long as the pop_dev of   *)
(* an open file is not freed, the pages faulted in through the file lie in *)
(* the p2pmem of its device.                                               *)
(***************************************************************************)
THEOREM FaultsInsideTheorem == Spec => []FaultsInside
<1>1. IInv => FaultsInside BY DEF IInv, FileInv, FaultsInside
<1> QED BY <1>1, Invariant, PTL

LEMMA QuietMatch == IInv => NodesMatchList
<1> SUFFICES ASSUME IInv, Quiet
             PROVE  /\ misc = Listed
                    /\ \A o \in Listed : ppdev[o].live /\ ListedOf(ppdev[o].pdev) = {o}
                    /\ Len(dev_list) = Cardinality(Listed)
    BY Zenon DEF NodesMatchList
<1>1. ~raced BY DEF IInv, Quiet, At
<1>2. Types /\ ListInv /\ MiscInv /\ \A t \in Tasks : io[t].pc = "idle"
    BY <1>1 DEF IInv, Quiet, At
<1>3. misc = Listed BY <1>2, ListedIs, Zenon DEF MiscInv, HasNode, Types
<1>4. \A o \in Listed : ppdev[o].live /\ ListedOf(ppdev[o].pdev) = {o}
    BY <1>2, <1>3 DEF ListInv, MiscInv, ListedOf
<1>5. Len(dev_list) = Cardinality(Listed)
    BY <1>2, Distinct DEF ListInv, Listed, Types
<1> QED BY <1>3, <1>4, <1>5

(***************************************************************************)
(* For any number of devices, tasks and files: between the ioctls a device *)
(* has one pop_dev at most, and it is listed exactly when the node of the  *)
(* device exists.                                                          *)
(***************************************************************************)
THEOREM NodesMatchListTheorem == Spec => []NodesMatchList
BY QuietMatch, Invariant, PTL
==============================================================================
