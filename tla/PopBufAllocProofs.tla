-------------------------- MODULE PopBufAllocProofs --------------------------
(***************************************************************************)
(* TLAPS proofs about PopBufAlloc, for any number of threads, structures   *)
(* and pages, and any page and word size.                                  *)
(***************************************************************************)
EXTENDS PopBufAlloc, TLAPS

IInv == TypeOK /\ AllocInv

\* size_t values below WORD are themselves.
LEMMA WordSmall == \A x \in 0 .. WORD - 1 : Word(x) = x
  BY ConstantsAssumption DEF Word

\* size_t arithmetic stays in the range of size_t.
LEMMA WordRange == \A x \in Nat : Word(x) \in 0 .. WORD - 1
  BY ConstantsAssumption DEF Word

\* The facts about the constants that the invariant needs.
LEMMA ConstantFacts ==
    /\ WORD \in Nat \ {0} /\ NumPages \in Nat /\ NumPages < WORD
    /\ Sizes \subseteq 0 .. WORD - 1
    /\ NULL \notin Threads /\ NULL \notin Structs
  <1>1. NumPages <= NumPages * PAGE_SIZE
    BY ConstantsAssumption
  <1> QED
    BY <1>1, ConstantsAssumption

\* A new pop_mem_t satisfies the inductive invariant.
LEMMA InitIInv == Init => IInv
  BY ConstantsAssumption DEF Init, IInv, TypeOK, AllocInv, BeingBuilt, NoBuf,
                             Labels, Critical

(***************************************************************************)
(* Every step of every thread, and pop_buf_free, preserves IInv.           *)
(***************************************************************************)
LEMMA NextIInv == IInv /\ [Next]_vars => IInv'
  <1> SUFFICES ASSUME IInv, [Next]_vars PROVE IInv'
    OBVIOUS
  <1> USE ConstantFacts DEF IInv, TypeOK, AllocInv, BeingBuilt, Labels,
                                  Critical, Goto, local, mem
  <1>1. ASSUME NEW t \in Threads, NEW sz \in Sizes, Call(t, sz) PROVE IInv'
    BY <1>1 DEF Call
  <1>2. ASSUME NEW t \in Threads, Lock(t) PROVE IInv'
    BY <1>2 DEF Lock
  <1>3. ASSUME NEW t \in Threads, CountPages(t) PROVE IInv'
    <2>1. Word(nr_pages[t] + 1) \in 0 .. WORD - 1
      BY WordRange
    <2>2. CASE pc' = pc
      <3>1. TypeOK' /\ BeingBuilt' = BeingBuilt
        BY <1>3, <2>1, <2>2 DEF CountPages
      <3>2. \A u \in Threads : pc[u] # "count" => nr_pages'[u] = nr_pages[u]
        BY <1>3, <2>2 DEF CountPages
      <3>3. pc' = pc /\ UNCHANGED <<pbuf, mutex, alloced_pages, heap, buf>>
        BY <1>3, <2>2 DEF CountPages
      <3>4. ASSUME NEW u \in Threads
            PROVE  /\ pc'[u] \in Critical <=> mutex' = u
                   /\ pbuf'[u] # NULL => pc'[u] \in {"bump", "unlock"} /\ pbuf'[u] \in heap'
                   /\ pc'[u] \in {"malloc", "bump"} =>
                         alloced_pages' + nr_pages'[u] <= NumPages
                   /\ pc'[u] = "bump" =>
                         /\ pbuf'[u] \in heap'
                         /\ buf'[pbuf'[u]] = [vaddr |-> alloced_pages', size |-> nr_pages'[u]]
        BY <3>2, <3>3, Zenon
      <3>5. /\ \A s \in heap' \ BeingBuilt' : buf'[s].vaddr + buf'[s].size <= alloced_pages'
            /\ \A s, u \in heap' :
                  s # u => \/ buf'[s].vaddr + buf'[s].size <= buf'[u].vaddr
                          \/ buf'[u].vaddr + buf'[u].size <= buf'[s].vaddr
        BY <3>1, <3>3, Zenon
      <3>6. AllocInv'
        BY <3>4, <3>5, Zenon
      <3> QED
        BY <3>1, <3>6
    <2>3. CASE nr_pages' = nr_pages
      BY <1>3, <2>1, <2>3 DEF CountPages
    <2> QED
      BY <1>3, <2>2, <2>3 DEF CountPages
  <1>4. ASSUME NEW t \in Threads, CheckRoom(t) PROVE IInv'
    <2>1. Word(NumPages - alloced_pages) = NumPages - alloced_pages
      BY WordSmall
    <2> QED
      BY <1>4, <2>1 DEF CheckRoom
  <1>5. ASSUME NEW t \in Threads, MallocFails(t) PROVE IInv'
    BY <1>5 DEF MallocFails
  <1>6. ASSUME NEW t \in Threads, NEW s \in Structs, FillBuf(t, s) PROVE IInv'
    <2>1. /\ alloced_pages \in Nat /\ nr_pages[t] \in 0 .. NumPages
          /\ alloced_pages + nr_pages[t] <= NumPages
          /\ mutex = t
          /\ s \notin heap
      BY <1>6 DEF FillBuf
    <2>2. BeingBuilt = {}
      BY <1>6, <2>1, Zenon DEF FillBuf
    <2>3. TypeOK'
      BY <1>6, <2>1 DEF FillBuf
    <2>4. BeingBuilt' = {s}
      BY <1>6, <2>1, Zenon DEF FillBuf
    <2>5. \A u \in heap : buf[u].vaddr + buf[u].size <= alloced_pages
      BY <2>2, Zenon
    <2>6. AllocInv'
      <3>1. (\A u \in heap \ BeingBuilt : buf[u].vaddr + buf[u].size <= alloced_pages)'
        BY <1>6, <2>1, <2>4, <2>5 DEF FillBuf
      <3>2. (\A x, u \in heap :
               x # u => \/ buf[x].vaddr + buf[x].size <= buf[u].vaddr
                       \/ buf[u].vaddr + buf[u].size <= buf[x].vaddr)'
        BY <1>6, <2>1, <2>5 DEF FillBuf
      <3>3. \A u \in Threads : u # t => pbuf[u] = NULL
        BY <1>6, <2>1, Zenon
      <3> QED
        BY <1>6, <2>1, <3>1, <3>2, <3>3 DEF FillBuf
    <2> QED
      BY <2>3, <2>6
  <1>7. ASSUME NEW t \in Threads, Bump(t) PROVE IInv'
    <2>1. /\ alloced_pages \in Nat /\ nr_pages[t] \in Nat
          /\ alloced_pages + nr_pages[t] <= NumPages
          /\ mutex = t
      <3>1. pc[t] = "bump"
        BY <1>7 DEF Bump
      <3>2. mutex = t
        BY <3>1, Zenon
      <3>3. alloced_pages + nr_pages[t] <= NumPages
        BY <3>1, Zenon
      <3> QED
        BY <3>2, <3>3
    <2>2. Word(alloced_pages + nr_pages[t]) = alloced_pages + nr_pages[t]
      BY <2>1, WordSmall
    <2>3. alloced_pages' = alloced_pages + nr_pages[t]
      BY <1>7, <2>2 DEF Bump
    <2>4. \A u \in heap : buf[u].vaddr + buf[u].size <= alloced_pages'
      <3>0. pc[t] = "bump" /\ \A u \in Threads : pc[u] = "bump" => u = t
        <4>1. pc[t] = "bump"
          BY <1>7 DEF Bump
        <4>2. \A u \in Threads : pc[u] = "bump" => u = t
          BY <2>1, Zenon
        <4> QED BY <4>1, <4>2
      <3>1. BeingBuilt = {pbuf[t]}
        BY <3>0
      <3>2. buf[pbuf[t]].vaddr + buf[pbuf[t]].size = alloced_pages'
        <4>1. buf[pbuf[t]] = [vaddr |-> alloced_pages, size |-> nr_pages[t]]
          BY <3>0
        <4> HIDE DEF IInv, TypeOK, AllocInv
        <4> QED BY <2>1, <2>3, <4>1
      <3>3. \A u \in heap \ {pbuf[t]} :
              /\ buf[u].vaddr \in Nat /\ buf[u].size \in Nat
              /\ buf[u].vaddr + buf[u].size <= alloced_pages
        <4>1. \A u \in heap : buf[u].vaddr \in Nat /\ buf[u].size \in Nat
          OBVIOUS
        <4>2. \A u \in heap \ {pbuf[t]} :
                buf[u].vaddr + buf[u].size <= alloced_pages
          BY <3>1, Zenon
        <4> QED BY <4>1, <4>2
      <3> QED
        BY <2>1, <2>3, <3>2, <3>3
    <2>5. TypeOK'
      BY <1>7, <2>1, <2>3 DEF Bump
    <2>51. BeingBuilt' = {}
      BY <1>7, <2>1, Zenon DEF Bump
    <2>6. AllocInv'
      BY <1>7, <2>1, <2>4, <2>5, <2>51, Zenon DEF Bump
    <2> QED
      BY <2>5, <2>6
  <1>8. ASSUME NEW t \in Threads, Unlock(t) PROVE IInv'
    <2>1. mutex = t
      BY <1>8, Zenon DEF Unlock
    <2>2. BeingBuilt' = BeingBuilt
      BY <1>8, <2>1 DEF Unlock
    <2> QED
      BY <1>8, <2>1, <2>2 DEF Unlock
  <1>9. ASSUME NEW s \in Structs, pop_buf_free(s) PROVE IInv'
    BY <1>9 DEF pop_buf_free, Held, NoBuf
  <1>10. CASE UNCHANGED vars
    BY <1>10 DEF vars
  <1> QED
    BY <1>1, <1>2, <1>3, <1>4, <1>5, <1>6, <1>7, <1>8, <1>9, <1>10, Zenon
    DEF Next, Step

(***************************************************************************)
(* The inductive invariant of pop_buf_alloc() and pop_buf_free(): types,   *)
(* the mutex has the owner that is inside, and every buffer of a caller    *)
(* lies below the bump pointer, apart from the others.                     *)
(***************************************************************************)
THEOREM TypeAndAlloc == Spec => []IInv
  BY InitIInv, NextIInv, PTL DEF Spec

\* Ordered intervals are disjoint sets of pages.
LEMMA OrderedDisjoint ==
    ASSUME NEW a \in Nat, NEW m \in Nat, NEW b \in Nat, NEW n \in Nat,
           a + m <= b
    PROVE  (a .. a + m - 1) \cap (b .. b + n - 1) = {}
  OBVIOUS

(***************************************************************************)
(* For any number of threads calling pop_buf_alloc() and pop_buf_free()    *)
(* concurrently on a region of any size, live buffers never share a page   *)
(* and never leave the region.                                             *)
(***************************************************************************)
THEOREM BuffersDisjointTheorem == Spec => []BuffersDisjoint
  <1>1. IInv => BuffersDisjoint
    <2> SUFFICES ASSUME IInv, NEW s \in heap
                 PROVE  /\ PagesOf(s) \subseteq 0 .. NumPages - 1
                        /\ \A u \in heap \ {s} : PagesOf(s) \cap PagesOf(u) = {}
      BY DEF BuffersDisjoint
    <2>1. \A u \in heap : buf[u].vaddr \in Nat /\ buf[u].size \in Nat
      BY DEF IInv, TypeOK
    <2>2. \A u \in heap : buf[u].vaddr + buf[u].size <= NumPages
      <3>1. ASSUME NEW u \in heap, u \in BeingBuilt
            PROVE  buf[u].vaddr + buf[u].size <= NumPages
        <4>1. PICK t \in Threads : pc[t] = "bump" /\ u = pbuf[t]
          BY <3>1 DEF BeingBuilt
        <4>2. /\ buf[u] = [vaddr |-> alloced_pages, size |-> nr_pages[t]]
              /\ alloced_pages + nr_pages[t] <= NumPages
          BY <4>1 DEF IInv, AllocInv
        <4> QED
          BY <4>2
      <3>2. ASSUME NEW u \in heap, u \notin BeingBuilt
            PROVE  buf[u].vaddr + buf[u].size <= NumPages
        <4>1. buf[u].vaddr + buf[u].size <= alloced_pages
          BY <3>2 DEF IInv, AllocInv
        <4>2. alloced_pages \in Nat /\ alloced_pages <= NumPages /\ NumPages \in Nat
          BY ConstantFacts DEF IInv, TypeOK
        <4> QED
          BY <4>1, <4>2, <2>1
      <3> QED
        BY <3>1, <3>2
    <2>3. PagesOf(s) \subseteq 0 .. NumPages - 1
      BY <2>1, <2>2, ConstantFacts DEF PagesOf
    <2>4. ASSUME NEW u \in heap \ {s} PROVE PagesOf(s) \cap PagesOf(u) = {}
      <3>1. \/ buf[s].vaddr + buf[s].size <= buf[u].vaddr
            \/ buf[u].vaddr + buf[u].size <= buf[s].vaddr
        BY DEF IInv, AllocInv
      <3> QED
        BY <3>1, <2>1, OrderedDisjoint DEF PagesOf
    <2> QED
      BY <2>3, <2>4
  <1> QED
    BY <1>1, TypeAndAlloc, PTL

------------------------------------------------------------------------------
(***************************************************************************)
(* While nr_pages has not overshot the request, nothing wraps.             *)
(***************************************************************************)
LEMMA NoWrap ==
    ASSUME NEW n \in Nat, NEW sz \in Sizes, (n - 1) * PAGE_SIZE < sz
    PROVE  /\ Bytes(n) = n * PAGE_SIZE
           /\ n * PAGE_SIZE < sz => Word(n + 1) = n + 1
           /\ (n + 1 - 1) * PAGE_SIZE = n * PAGE_SIZE
  <1> DEFINE p == n * PAGE_SIZE
  <1>1. PAGE_SIZE \in Nat \ {0} /\ WORD \in Nat \ {0}
        /\ sz \in Nat /\ sz <= WORD - PAGE_SIZE
    BY ConstantsAssumption, SizesAssumption
  <1>2. p \in Nat /\ (n - 1) * PAGE_SIZE = p - PAGE_SIZE /\ n <= p
    BY <1>1
  <1>3. p < WORD
    BY <1>1, <1>2
  <1>4. Bytes(n) = p
    BY <1>1, <1>2, <1>3, WordSmall DEF Bytes
  <1>5. p < sz => n + 1 \in 0 .. WORD - 1
    BY <1>1, <1>2
  <1> QED
    BY <1>4, <1>5, <1>1, WordSmall

\* No buffer exists in the beginning, so RoundInv holds.
LEMMA InitRound == Init => RoundInv
  BY ConstantsAssumption, Zenon DEF Init, RoundInv

\* Every step of the allocator keeps RoundInv.
LEMMA NextRound == IInv /\ RoundInv /\ [Next]_vars => RoundInv'
  <1> SUFFICES ASSUME IInv, RoundInv, [Next]_vars PROVE RoundInv'
    OBVIOUS
  <1> USE ConstantFacts DEF IInv, TypeOK, AllocInv, RoundInv, Goto, local, mem
  <1>1. ASSUME NEW t \in Threads, NEW sz \in Sizes, Call(t, sz) PROVE RoundInv'
    <2>1. (0 - 1) * PAGE_SIZE < sz
      BY ConstantsAssumption
    <2> QED
      BY <1>1, <2>1 DEF Call
  <1>2. ASSUME NEW t \in Threads, Lock(t) PROVE RoundInv'
    BY <1>2 DEF Lock
  <1>3. ASSUME NEW t \in Threads, CountPages(t) PROVE RoundInv'
    <2>1. /\ pc[t] = "count" /\ nr_pages[t] \in Nat /\ size[t] \in Sizes
          /\ (nr_pages[t] - 1) * PAGE_SIZE < size[t]
          /\ pbuf[t] = NULL
      <3>1. pc[t] = "count"
        BY <1>3 DEF CountPages
      <3>2. nr_pages[t] \in Nat /\ size[t] \in Sizes
        BY <3>1
      <3>4. pbuf[t] = NULL
        <4> HIDE DEF RoundInv
        <4> QED BY <3>1, Zenon
      <3>3. (nr_pages[t] - 1) * PAGE_SIZE < size[t]
        BY <3>1
      <3> QED
        BY <3>1, <3>2, <3>3, <3>4
    <2>2. /\ Bytes(nr_pages[t]) = nr_pages[t] * PAGE_SIZE
          /\ nr_pages[t] * PAGE_SIZE < size[t] =>
                Word(nr_pages[t] + 1) = nr_pages[t] + 1
          /\ (nr_pages[t] + 1 - 1) * PAGE_SIZE = nr_pages[t] * PAGE_SIZE
      BY <2>1, NoWrap
    <2>3. CASE nr_pages[t] * PAGE_SIZE < size[t]
      <3>1. /\ nr_pages' = [nr_pages EXCEPT ![t] = nr_pages[t] + 1]
            /\ UNCHANGED <<pc, size, pbuf, buf>>
        BY <1>3, <2>1, <2>2, <2>3 DEF CountPages
      <3>2. nr_pages'[t] = nr_pages[t] + 1
        BY <3>1
      <3>3. (nr_pages'[t] - 1) * PAGE_SIZE < size[t]
        BY <3>2, <2>2, <2>3
      <3>4. \A u \in Threads \ {t} : nr_pages'[u] = nr_pages[u]
        BY <3>1
      <3> QED
        BY <2>1, <3>1, <3>3, <3>4
    <2>4. CASE ~(nr_pages[t] * PAGE_SIZE < size[t])
      BY <1>3, <2>1, <2>2, <2>4, ConstantsAssumption DEF CountPages
    <2> QED
      BY <2>3, <2>4
  <1>4. ASSUME NEW t \in Threads, CheckRoom(t) PROVE RoundInv'
    BY <1>4 DEF CheckRoom
  <1>5. ASSUME NEW t \in Threads, MallocFails(t) PROVE RoundInv'
    BY <1>5 DEF MallocFails
  <1>6. ASSUME NEW t \in Threads, NEW s \in Structs, FillBuf(t, s)
        PROVE RoundInv'
    <2>1. \A u \in Threads : u # t /\ pbuf[u] # NULL => pbuf[u] # s
      <3>1. \A u \in Threads : pbuf[u] # NULL => pbuf[u] \in heap
        BY Zenon
      <3>2. s \notin heap
        BY <1>6 DEF FillBuf
      <3> QED
        BY <3>1, <3>2
    <2>2. \A u \in Threads :
            pbuf'[u] # NULL => buf'[pbuf'[u]].size = nr_pages[u]
      BY <1>6, <2>1 DEF FillBuf
    <2> QED
      BY <1>6, <2>2 DEF FillBuf
  <1>7. ASSUME NEW t \in Threads, Bump(t) PROVE RoundInv'
    BY <1>7 DEF Bump
  <1>8. ASSUME NEW t \in Threads, Unlock(t) PROVE RoundInv'
    BY <1>8 DEF Unlock
  <1>9. ASSUME NEW s \in Structs, pop_buf_free(s) PROVE RoundInv'
    <2>1. \A t \in Threads : pbuf[t] # s
      BY <1>9 DEF pop_buf_free, Held
    <2>2. \A t \in Threads : pbuf[t] # NULL => buf'[pbuf[t]] = buf[pbuf[t]]
      BY <1>9, <2>1 DEF pop_buf_free
    <2> QED
      BY <1>9, <2>2 DEF pop_buf_free
  <1>10. CASE UNCHANGED vars
    BY <1>10 DEF vars
  <1> QED
    BY <1>1, <1>2, <1>3, <1>4, <1>5, <1>6, <1>7, <1>8, <1>9, <1>10
    DEF Next, Step

(***************************************************************************)
(* The rounding loop never overshoots the size of the call, has reached it *)
(* when it ends, and the buffer built from it keeps its page count.        *)
(***************************************************************************)
THEOREM RoundInvariant == Spec => []RoundInv
  BY InitRound, NextRound, TypeAndAlloc, PTL DEF Spec

(***************************************************************************)
(* A returned buffer always holds the requested size, with less than one   *)
(* page to spare, whatever the page size.                                  *)
(***************************************************************************)
THEOREM RoundsUpTheorem == Spec => []RoundsUp
  <1>1. RoundInv => RoundsUp
    BY DEF RoundInv, RoundsUp
  <1> QED
    BY <1>1, RoundInvariant, PTL

------------------------------------------------------------------------------
(***************************************************************************)
(* Refinement.  status, live and pages of the abstract allocator, as PA    *)
(* computes them from the state of the code.                               *)
(***************************************************************************)
status == [t \in Threads |-> AbsStatus(t)]
live == heap \ BeingBuilt
pages == [s \in Structs |-> IF s \in live THEN PagesOf(s) ELSE {}]
granted == 0 .. alloced_pages - 1

\* The initial states map to the initial states of PageAllocator.
LEMMA RefineInit == Init => PA!Init
  <1> SUFFICES ASSUME Init PROVE PA!Init
    OBVIOUS
  <1>1. status = [t \in Threads |-> "none"]
    BY DEF Init, status, AbsStatus
  <1>2. BeingBuilt = {} /\ live = {}
    BY DEF Init, live, BeingBuilt
  <1>3. pages = [s \in Structs |-> {}]
    BY <1>2 DEF pages
  <1>4. granted = {}
    BY DEF Init, granted
  <1> QED
    BY <1>1, <1>2, <1>3, <1>4 DEF Init, PA!Init, status, live, pages, granted

\* A step that keeps the abstract variables is a stuttering step.
LEMMA Stutter ==
    ASSUME status' = status, size' = size, live' = live, pages' = pages,
           granted' = granted
    PROVE  UNCHANGED PA!vars
  BY DEF PA!vars, status, live, pages, granted

\* The status changes for the thread that takes the step only.
LEMMA StatusStep ==
    ASSUME NEW t \in Threads, NEW v,
           \A u \in Threads \ {t} : pc'[u] = pc[u] /\ errno'[u] = errno[u],
           AbsStatus(t)' = v
    PROVE  status' = [status EXCEPT ![t] = v]
  BY Zenon DEF status, AbsStatus

\* The status is the same when it is for the thread that takes the step.
LEMMA StatusSame ==
    ASSUME NEW t \in Threads,
           \A u \in Threads \ {t} : pc'[u] = pc[u] /\ errno'[u] = errno[u],
           AbsStatus(t)' = AbsStatus(t)
    PROVE  status' = status
  BY DEF status, AbsStatus

\* The buffers and their pages change only with heap, BeingBuilt and buf.
LEMMA BuffersSame ==
    ASSUME heap' = heap, buf' = buf, BeingBuilt' = BeingBuilt
    PROVE  live' = live /\ pages' = pages
  BY DEF live, pages, PagesOf

\* The owner of the mutex is the only thread that may be building a buffer.
LEMMA OneBuilder ==
    ASSUME IInv, NEW t \in Threads, mutex = t
    PROVE  BeingBuilt = IF pc[t] = "bump" THEN {pbuf[t]} ELSE {}
  <1>1. \A u \in Threads : pc[u] = "bump" => u = t
    BY Zenon DEF IInv, AllocInv, Critical
  <1> QED
    BY <1>1 DEF BeingBuilt

\* The call of pop_buf_alloc() is Ask.
LEMMA RefineCall ==
    ASSUME IInv, NEW t \in Threads, NEW sz \in Sizes, Call(t, sz)
    PROVE  PA!Ask(t, sz)
  <1>1. AbsStatus(t) \in PA!Answers /\ status[t] = AbsStatus(t)
    BY DEF Call, AbsStatus, PA!Answers, IInv, TypeOK, status
  <1>2. status' = [status EXCEPT ![t] = "asking"]
    <2>1. AbsStatus(t)' = "asking"
      BY DEF Call, Goto, AbsStatus, IInv, TypeOK
    <2> QED
      BY <2>1, StatusStep DEF Call, Goto, IInv, TypeOK
  <1>3. BeingBuilt' = BeingBuilt
    BY DEF Call, Goto, BeingBuilt, IInv, TypeOK
  <1>4. live' = live /\ pages' = pages /\ granted' = granted
    BY <1>3, BuffersSame DEF Call, granted, mem
  <1> QED
    BY <1>1, <1>2, <1>4 DEF Call, PA!Ask, status, live, pages, granted

\* Steps the abstract allocator does not see: Lock, CountPages, FillBuf, Unlock.
LEMMA RefineLock ==
    ASSUME IInv, NEW t \in Threads, Lock(t)
    PROVE  UNCHANGED PA!vars
  <1>1. status' = status
    BY StatusSame DEF Lock, Goto, IInv, TypeOK, AbsStatus
  <1>2. BeingBuilt' = BeingBuilt
    BY DEF Lock, Goto, BeingBuilt, IInv, TypeOK
  <1> QED
    BY <1>1, <1>2, BuffersSame, Stutter DEF Lock, granted

\* CountPages is a stutter.
LEMMA RefineCount ==
    ASSUME IInv, NEW t \in Threads, CountPages(t)
    PROVE  UNCHANGED PA!vars
  <1>1. status' = status
    BY StatusSame DEF CountPages, Goto, IInv, TypeOK, AbsStatus
  <1>2. BeingBuilt' = BeingBuilt
    BY DEF CountPages, Goto, BeingBuilt, IInv, TypeOK
  <1> QED
    BY <1>1, <1>2, BuffersSame, Stutter DEF CountPages, granted, mem

\* Unlock is a stutter.
LEMMA RefineUnlock ==
    ASSUME IInv, NEW t \in Threads, Unlock(t)
    PROVE  UNCHANGED PA!vars
  <1>1. status' = status
    BY StatusSame DEF Unlock, Goto, IInv, TypeOK, AbsStatus
  <1>2. BeingBuilt' = BeingBuilt
    BY DEF Unlock, Goto, BeingBuilt, IInv, TypeOK
  <1> QED
    BY <1>1, <1>2, BuffersSame, Stutter DEF Unlock, granted

\* FillBuf is a stutter: the buffer is not granted before the bump.
LEMMA RefineFill ==
    ASSUME IInv, NEW t \in Threads, NEW s \in Structs, FillBuf(t, s)
    PROVE  UNCHANGED PA!vars
  <1>1. status' = status
    BY StatusSame DEF FillBuf, Goto, IInv, TypeOK, AbsStatus
  <1>2. BeingBuilt = {}
    BY OneBuilder, Zenon DEF FillBuf, IInv, AllocInv, Critical
  <1>3. BeingBuilt' = {s}
    <2>1. \A u \in Threads : pc'[u] = "bump" <=> u = t
      <3>1. \A u \in Threads : pc[u] # "bump"
        BY <1>2, Zenon DEF BeingBuilt
      <3>2. \A u \in Threads : pc'[u] = IF u = t THEN "bump" ELSE pc[u]
        BY Zenon DEF FillBuf, Goto, IInv, TypeOK
      <3> QED
        BY <3>1, <3>2, Zenon
    <2>2. pbuf'[t] = s
      BY Zenon DEF FillBuf, IInv, TypeOK
    <2> QED
      BY <2>1, <2>2, Zenon DEF BeingBuilt
  <1>4. live' = live
    BY <1>2, <1>3 DEF FillBuf, live
  <1>5. \A u \in live : buf'[u] = buf[u]
    BY DEF FillBuf, live, IInv, TypeOK
  <1>6. pages' = pages
    BY <1>4, <1>5 DEF pages, PagesOf
  <1> QED
    BY <1>1, <1>4, <1>6, Stutter DEF FillBuf, granted, mem

\* Fewer than n pages cannot hold what n - 1 pages do not hold.
LEMMA TooFew ==
    ASSUME NEW k \in Nat, NEW n \in Nat, NEW sz \in Nat, k < n,
           (n - 1) * PAGE_SIZE < sz
    PROVE  k * PAGE_SIZE < sz
  <1>1. k * PAGE_SIZE <= (n - 1) * PAGE_SIZE
    <2> DEFINE d == n - 1 - k
    <2>1. d \in Nat /\ n - 1 = k + d
      OBVIOUS
    <2>2. d * PAGE_SIZE \in Nat /\ k * PAGE_SIZE \in Nat
      BY <2>1, ConstantsAssumption
    <2>3. (n - 1) * PAGE_SIZE = k * PAGE_SIZE + d * PAGE_SIZE
      BY <2>1, ConstantsAssumption
    <2> QED
      BY <2>2, <2>3
  <1> QED
    BY <1>1, ConstantsAssumption

\* CheckRoom is a stutter, or RefuseFull.
LEMMA RefineCheck ==
    ASSUME IInv, RoundInv, NEW t \in Threads, CheckRoom(t)
    PROVE  PA!RefuseFull(t) \/ UNCHANGED PA!vars
  <1>1. /\ pc[t] = "check" /\ alloced_pages \in 0 .. NumPages
        /\ nr_pages[t] \in Nat
    BY DEF CheckRoom, IInv, TypeOK
  <1>2. (nr_pages[t] - 1) * PAGE_SIZE < size[t] /\ size[t] \in Nat
    BY <1>1, ConstantFacts DEF RoundInv, IInv, TypeOK
  <1>3. Word(NumPages - alloced_pages) = NumPages - alloced_pages
    BY <1>1, WordSmall, ConstantFacts
  <1>4. BeingBuilt' = BeingBuilt
    BY DEF CheckRoom, Goto, BeingBuilt, IInv, TypeOK
  <1>5. live' = live /\ pages' = pages /\ granted' = granted /\ size' = size
    BY <1>4, BuffersSame DEF CheckRoom, granted, mem
  <1>6. CASE NumPages - alloced_pages < nr_pages[t]
    <2>1. AbsStatus(t) = "asking" /\ status[t] = "asking"
      BY <1>1 DEF AbsStatus, status
    <2>2. ASSUME NEW f \in 0 .. NumPages, NEW n \in 0 .. NumPages
          PROVE  ~PA!Grantable(t, f, n)
      <3>1. SUFFICES ASSUME n * PAGE_SIZE >= size[t],
                            f .. f + n - 1 \subseteq alloced_pages .. NumPages - 1
                     PROVE  FALSE
        BY <1>1, ConstantFacts DEF PA!Grantable, PA!Fits, PA!Run, PA!Pages
      <3>2. n <= NumPages - alloced_pages
        <4>1. CASE n = 0
          BY <1>1, <4>1, ConstantFacts
        <4>2. CASE n > 0
          <5>1. f \in f .. f + n - 1 /\ f + n - 1 \in f .. f + n - 1
            BY <4>2, ConstantFacts
          <5> QED
            BY <3>1, <5>1, <1>1, ConstantFacts
        <4> QED
          BY <4>1, <4>2, ConstantFacts
      <3>3. n \in Nat /\ n < nr_pages[t]
        BY <1>1, <1>6, <3>2, ConstantFacts
      <3>4. n * PAGE_SIZE < size[t]
        BY <1>1, <1>2, <3>3, TooFew
      <3>5. n * PAGE_SIZE \in Nat
        BY <3>3, ConstantsAssumption
      <3> QED
        BY <3>1, <3>4, <3>5, <1>2
    <2>3. AbsStatus(t)' = "ENOBUFS"
      BY <1>3, <1>6 DEF CheckRoom, Goto, AbsStatus, IInv, TypeOK
    <2>4. status' = [status EXCEPT ![t] = "ENOBUFS"]
      BY <2>3, StatusStep DEF CheckRoom, Goto, IInv, TypeOK
    <2> QED
      BY <2>1, <2>2, <2>4, <1>5
      DEF PA!RefuseFull, status, live, pages, granted
  <1>7. CASE ~(NumPages - alloced_pages < nr_pages[t])
    <2>1. AbsStatus(t)' = AbsStatus(t)
      BY <1>3, <1>7 DEF CheckRoom, Goto, AbsStatus, IInv, TypeOK
    <2>2. status' = status
      BY <2>1, StatusSame DEF CheckRoom, Goto, IInv, TypeOK
    <2> QED
      BY <2>2, <1>5, Stutter
  <1> QED
    BY <1>6, <1>7

\* MallocFails is RefuseMalloc.
LEMMA RefineMallocFails ==
    ASSUME IInv, NEW t \in Threads, MallocFails(t)
    PROVE  PA!RefuseMalloc(t)
  <1>1. status[t] = "asking"
    BY DEF MallocFails, AbsStatus, status
  <1>2. AbsStatus(t)' = "ENOMEM"
    BY DEF MallocFails, Goto, AbsStatus, IInv, TypeOK
  <1>3. status' = [status EXCEPT ![t] = "ENOMEM"]
    BY <1>2, StatusStep DEF MallocFails, Goto, IInv, TypeOK
  <1>4. BeingBuilt' = BeingBuilt
    BY DEF MallocFails, Goto, BeingBuilt, IInv, TypeOK
  <1>5. live' = live /\ pages' = pages /\ granted' = granted /\ size' = size
    BY <1>4, BuffersSame DEF MallocFails, granted, mem
  <1> QED
    BY <1>1, <1>3, <1>5 DEF PA!RefuseMalloc, status, live, pages, granted

\* Bump is Grant: it takes the pages behind all that were granted.
LEMMA RefineBump ==
    ASSUME IInv, RoundInv, NEW t \in Threads, Bump(t),
           NEW s \in Structs, s = pbuf[t]
    PROVE  PA!Grant(t, s)
  <1>0. pc[t] = "bump"
    BY DEF Bump
  <1>1. /\ mutex = t /\ s \in heap /\ s \in Structs
        /\ alloced_pages \in 0 .. NumPages /\ nr_pages[t] \in Nat
    <2>1. mutex = t
      BY <1>0, Zenon DEF IInv, AllocInv, Critical
    <2>2. s \in heap
      BY <1>0, Zenon DEF IInv, AllocInv
    <2> QED
      BY <2>1, <2>2 DEF IInv, TypeOK
  <1>2. alloced_pages + nr_pages[t] <= NumPages
    BY <1>0, Zenon DEF IInv, AllocInv
  <1>3. buf[s] = [vaddr |-> alloced_pages, size |-> nr_pages[t]]
    BY <1>0 DEF IInv, AllocInv
  <1>4. PagesOf(s) = alloced_pages .. alloced_pages + nr_pages[t] - 1
    BY <1>3 DEF PagesOf
  <1>5. alloced_pages' = alloced_pages + nr_pages[t]
    BY <1>1, <1>2, WordSmall, ConstantFacts DEF Bump
  <1>6. BeingBuilt = {s} /\ BeingBuilt' = {}
    <2>1. BeingBuilt = {s}
      BY <1>0, <1>1, OneBuilder
    <2>2. \A u \in Threads : pc'[u] # "bump"
      BY <1>1, Zenon DEF Bump, Goto, IInv, TypeOK, AllocInv, Critical
    <2> QED
      BY <2>1, <2>2 DEF BeingBuilt
  <1>7. s \notin live /\ live' = live \cup {s}
    BY <1>1, <1>6 DEF Bump, live
  <1>8. pages' = [pages EXCEPT ![s] = PA!Run(alloced_pages, nr_pages[t])]
    <2>1. \A u \in Structs : PagesOf(u)' = PagesOf(u)
      BY DEF Bump, PagesOf
    <2>2. \A u \in Structs :
            pages'[u] = IF u = s THEN PagesOf(s) ELSE pages[u]
      BY <1>1, <1>7, <2>1 DEF pages
    <2> QED
      BY <1>4, <2>2, Zenon DEF pages, PA!Run
  <1>9. granted' = granted \cup PA!Run(alloced_pages, nr_pages[t])
    BY <1>1, <1>5 DEF granted, PA!Run
  <1>10. PA!Grantable(t, alloced_pages, nr_pages[t])
    <2>1. /\ nr_pages[t] * PAGE_SIZE >= size[t]
          /\ (nr_pages[t] - 1) * PAGE_SIZE < size[t]
      BY <1>0 DEF RoundInv
    <2>2. PA!Run(alloced_pages, nr_pages[t]) \subseteq PA!Pages \ granted
      BY <1>1, <1>2, ConstantFacts DEF PA!Run, PA!Pages, granted
    <2> QED
      BY <2>1, <2>2 DEF PA!Grantable, PA!Fits, granted
  <1>11. status[t] = "asking" /\ status' = [status EXCEPT ![t] = "ok"]
    <2>1. status[t] = "asking"
      BY <1>0 DEF status, AbsStatus
    <2>2. AbsStatus(t)' = "ok"
      BY DEF Bump, Goto, AbsStatus, IInv, TypeOK
    <2> QED
      BY <2>1, <2>2, StatusStep DEF Bump, Goto, IInv, TypeOK
  <1>12. nr_pages[t] \in 0 .. NumPages /\ size' = size
    BY <1>1, <1>2, ConstantFacts DEF Bump
  <1> QED
    BY <1>1, <1>7, <1>8, <1>9, <1>10, <1>11, <1>12, Zenon
    DEF PA!Grant, status, live, pages, granted

\* pop_buf_free() is Release.
LEMMA RefineFree ==
    ASSUME IInv, NEW s \in Structs, pop_buf_free(s)
    PROVE  PA!Release(s)
  <1>1. BeingBuilt' = BeingBuilt /\ s \notin BeingBuilt
    BY DEF pop_buf_free, Held, BeingBuilt, local
  <1>2. s \in live /\ live' = live \ {s}
    BY <1>1 DEF pop_buf_free, Held, live
  <1>3. \A u \in Structs \ {s} : PagesOf(u)' = PagesOf(u)
    BY DEF pop_buf_free, PagesOf, IInv, TypeOK
  <1>4. \A u \in Structs : pages'[u] = IF u = s THEN {} ELSE pages[u]
    BY <1>2, <1>3 DEF pages
  <1>5. pages' = [pages EXCEPT ![s] = {}]
    BY <1>4, Zenon DEF pages
  <1>6. status' = status /\ granted' = granted /\ size' = size
    BY DEF pop_buf_free, status, AbsStatus, granted, local, mem
  <1> QED
    BY <1>2, <1>5, <1>6 DEF PA!Release, status, live, pages, granted

\* Every step maps to a step of PageAllocator or a stutter.
LEMMA RefineNext == IInv /\ RoundInv /\ [Next]_vars => [PA!Next]_(PA!vars)
  <1> SUFFICES ASSUME IInv, RoundInv, [Next]_vars
               PROVE  PA!Next \/ UNCHANGED PA!vars
    OBVIOUS
  <1>1. ASSUME NEW t \in Threads, NEW sz \in Sizes, Call(t, sz) PROVE PA!Next
    BY <1>1, RefineCall DEF PA!Next
  <1>2. ASSUME NEW t \in Threads, CheckRoom(t)
        PROVE  PA!Next \/ UNCHANGED PA!vars
    BY <1>2, RefineCheck DEF PA!Next
  <1>3. ASSUME NEW t \in Threads, MallocFails(t) PROVE PA!Next
    BY <1>3, RefineMallocFails DEF PA!Next
  <1>4. ASSUME NEW t \in Threads, Bump(t) PROVE PA!Next
    <2>1. pc[t] = "bump"
      BY <1>4 DEF Bump
    <2>2. pbuf[t] \in heap
      BY <2>1, Zenon DEF IInv, AllocInv
    <2>3. heap \subseteq Structs
      BY DEF IInv, TypeOK
    <2> QED
      <3>1. PICK s \in Structs : s = pbuf[t]
        BY <2>2, <2>3
      <3>2. PA!Grant(t, s)
        BY <1>4, <3>1, RefineBump
      <3> QED
        BY <3>2 DEF PA!Next
  <1>5. ASSUME NEW s \in Structs, pop_buf_free(s) PROVE PA!Next
    BY <1>5, RefineFree DEF PA!Next
  <1>6. ASSUME UNCHANGED vars PROVE UNCHANGED PA!vars
    BY <1>6 DEF vars, local, mem, PA!vars, AbsStatus, BeingBuilt, PagesOf
  <1> QED
    BY <1>1, <1>2, <1>3, <1>4, <1>5, <1>6,
       RefineLock, RefineCount, RefineUnlock, RefineFill DEF Next, Step

(***************************************************************************)
(* The allocator of libpop.c implements PageAllocator, for every number of *)
(* threads, region size, page size and request: a page is granted at most  *)
(* once in the life of the region, and ENOBUFS means that no pages fit.    *)
(***************************************************************************)
THEOREM Refinement == Spec => ImplementsPageAllocator
  BY RefineInit, RefineNext, TypeAndAlloc, RoundInvariant, PTL
  DEF Spec, ImplementsPageAllocator, PA!Spec

==============================================================================
