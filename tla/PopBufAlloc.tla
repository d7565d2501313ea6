----------------------------- MODULE PopBufAlloc -----------------------------
(***************************************************************************)
(* lib/libpop.c: pop_buf_alloc() and pop_buf_free(), called by the threads *)
(* of one process on one pop_mem_t.                                        *)
(*                                                                         *)
(* The allocator is a bump pointer over pages, mem->alloced_pages, behind  *)
(* mem->mutex.  A call is split where another thread could see or change   *)
(* what it works on: the lock, each turn of the loop that rounds the       *)
(* request up to pages, the test for room, malloc() and the filling of     *)
(* the pop_buf_t, the update of alloced_pages, the unlock.  Addresses are  *)
(* page numbers relative to mem->mem; size_t arithmetic is modulo WORD.    *)
(***************************************************************************)
EXTENDS Integers

CONSTANTS Threads,      \* threads that share the pop_mem_t
          Structs,      \* addresses malloc() has for a pop_buf_t
          PAGE_SIZE,    \* 1 << PAGE_SHIFT
          WORD,         \* size_t counts modulo WORD
          NumPages,     \* mem->num_pages
          Sizes,        \* sizes a caller asks for, in bytes
          NULL          \* the null pointer; also the owner of a free mutex

ASSUME ConstantsAssumption ==
    /\ PAGE_SIZE \in Nat \ {0}
    /\ WORD \in Nat \ {0}
    /\ NumPages \in Nat
    /\ NumPages * PAGE_SIZE < WORD
    /\ Sizes \subseteq 0 .. WORD - 1
    /\ NULL \notin Threads \cup Structs

\* For a larger size the rounding loop wraps around and never ends.  Only
\* the statements about the rounding rest on this.
ASSUME SizesAssumption == Sizes \subseteq 0 .. WORD - PAGE_SIZE

VARIABLES pc,             \* where thread t is in pop_buf_alloc()
          size,           \* its argument
          nr_pages,       \* its local nr_pages
          pbuf,           \* its local pbuf
          errno,          \* how its last call ended, "ok" for success
          mutex,          \* owner of mem->mutex
          alloced_pages,  \* mem->alloced_pages
          heap,           \* addresses malloc() has handed out
          buf             \* the pop_buf_t at each address

local == <<pc, size, nr_pages, pbuf, errno>>
mem == <<mutex, alloced_pages>>
vars == <<local, mem, heap, buf>>

\* size_t arithmetic, and n << PAGE_SHIFT.
Word(x) == x % WORD
Bytes(n) == Word(n * PAGE_SIZE)

\* Fields vaddr (paddr runs beside it) and size of a pop_buf_t, in pages.
NoBuf == [vaddr |-> 0, size |-> 0]

Labels == {"idle", "lock", "count", "check", "malloc", "bump", "unlock"}

TypeOK ==
    /\ pc \in [Threads -> Labels]
    /\ size \in [Threads -> 0 .. WORD - 1]
    /\ nr_pages \in [Threads -> 0 .. WORD - 1]
    /\ pbuf \in [Threads -> Structs \cup {NULL}]
    /\ errno \in [Threads -> {"none", "ok", "ENOBUFS", "ENOMEM"}]
    /\ mutex \in Threads \cup {NULL}
    /\ alloced_pages \in 0 .. NumPages
    /\ heap \subseteq Structs
    /\ buf \in [Structs -> [vaddr : 0 .. NumPages, size : 0 .. NumPages]]

Init ==
    /\ pc = [t \in Threads |-> "idle"]
    /\ size = [t \in Threads |-> 0]
    /\ nr_pages = [t \in Threads |-> 0]
    /\ pbuf = [t \in Threads |-> NULL]
    /\ errno = [t \in Threads |-> "none"]
    /\ mutex = NULL
    /\ alloced_pages = 0
    /\ heap = {}
    /\ buf = [s \in Structs |-> NoBuf]

Goto(t, l) == pc' = [pc EXCEPT ![t] = l]

\* A thread calls pop_buf_alloc(mem, sz).
Call(t, sz) ==
    /\ pc[t] = "idle"
    /\ Goto(t, "lock")
    /\ size' = [size EXCEPT ![t] = sz]
    /\ errno' = [errno EXCEPT ![t] = "none"]
    /\ UNCHANGED <<nr_pages, pbuf, mem, heap, buf>>

\* Mutant of Lock: the mutex is not waited for.
LockBusy(t) ==
    /\ pc[t] = "lock"
    /\ mutex' = t
    /\ Goto(t, "count")
    /\ UNCHANGED <<size, nr_pages, pbuf, errno, alloced_pages, heap, buf>>

Lock(t) ==
    /\ pc[t] = "lock"
    /\ mutex = NULL
    /\ mutex' = t
    /\ Goto(t, "count")
    /\ UNCHANGED <<size, nr_pages, pbuf, errno, alloced_pages, heap, buf>>

\* Mutant of CountPages: <= for <, one page too many at page multiples.
CountPagesInclusive(t) ==
    /\ pc[t] = "count"
    /\ IF Bytes(nr_pages[t]) <= size[t]
       THEN /\ nr_pages' = [nr_pages EXCEPT ![t] = Word(@ + 1)]
            /\ UNCHANGED pc
       ELSE /\ Goto(t, "check")
            /\ UNCHANGED nr_pages
    /\ UNCHANGED <<size, pbuf, errno, mem, heap, buf>>

\* for (nr_pages = 0; (nr_pages << PAGE_SHIFT) < size; nr_pages++);
CountPages(t) ==
    /\ pc[t] = "count"
    /\ IF Bytes(nr_pages[t]) < size[t]
       THEN /\ nr_pages' = [nr_pages EXCEPT ![t] = Word(@ + 1)]
            /\ UNCHANGED pc
       ELSE /\ Goto(t, "check")
            /\ UNCHANGED nr_pages
    /\ UNCHANGED <<size, pbuf, errno, mem, heap, buf>>

CheckRoom(t) ==
    /\ pc[t] = "check"
    /\ IF Word(NumPages - alloced_pages) < nr_pages[t]
       THEN /\ Goto(t, "unlock")
            /\ errno' = [errno EXCEPT ![t] = "ENOBUFS"]
       ELSE /\ Goto(t, "malloc")
            /\ UNCHANGED errno
    /\ UNCHANGED <<size, nr_pages, pbuf, mem, heap, buf>>

MallocFails(t) ==
    /\ pc[t] = "malloc"
    /\ Goto(t, "unlock")
    /\ errno' = [errno EXCEPT ![t] = "ENOMEM"]
    /\ UNCHANGED <<size, nr_pages, pbuf, mem, heap, buf>>

\* malloc() returns s, and the pop_buf_t is filled in.
FillBuf(t, s) ==
    /\ pc[t] = "malloc"
    /\ s \notin heap
    /\ heap' = heap \cup {s}
    /\ pbuf' = [pbuf EXCEPT ![t] = s]
    /\ buf' = [buf EXCEPT ![s] = [vaddr |-> alloced_pages,
                                  size |-> nr_pages[t]]]
    /\ Goto(t, "bump")
    /\ UNCHANGED <<size, nr_pages, errno, mem>>

\* mem->alloced_pages += nr_pages;
Bump(t) ==
    /\ pc[t] = "bump"
    /\ alloced_pages' = Word(alloced_pages + nr_pages[t])
    /\ errno' = [errno EXCEPT ![t] = "ok"]
    /\ Goto(t, "unlock")
    /\ UNCHANGED <<size, nr_pages, pbuf, mutex, heap, buf>>

\* The unlock, and the return of pbuf to the caller; the locals die.
Unlock(t) ==
    /\ pc[t] = "unlock"
    /\ mutex' = NULL
    /\ nr_pages' = [nr_pages EXCEPT ![t] = 0]
    /\ pbuf' = [pbuf EXCEPT ![t] = NULL]
    /\ Goto(t, "idle")
    /\ UNCHANGED <<size, errno, alloced_pages, heap, buf>>

\* Buffers a caller holds: their pop_buf_alloc() has returned.
Held == {s \in heap : \A t \in Threads : pbuf[t] # s}

\* Mutant of pop_buf_free: it takes the pages off the bump pointer again.
pop_buf_free_unbump(s) ==
    /\ s \in Held
    /\ heap' = heap \ {s}
    /\ buf' = [buf EXCEPT ![s] = NoBuf]
    /\ alloced_pages' = alloced_pages - buf[s].size
    /\ UNCHANGED <<local, mutex>>

\* pop_buf_free(): the structure goes back to the heap, its pages do not go
\* back to the region.
pop_buf_free(s) ==
    /\ s \in Held
    /\ heap' = heap \ {s}
    /\ buf' = [buf EXCEPT ![s] = NoBuf]
    /\ UNCHANGED <<local, mem>>

Step(t) ==
    \/ Lock(t)
    \/ CountPages(t)
    \/ CheckRoom(t)
    \/ MallocFails(t)
    \/ \E s \in Structs : FillBuf(t, s)
    \/ Bump(t)
    \/ Unlock(t)

Next ==
    \/ \E t \in Threads : Step(t) \/ (\E sz \in Sizes : Call(t, sz))
    \/ \E s \in Structs : pop_buf_free(s)

Spec == Init /\ [][Next]_vars

\* A thread inside pop_buf_alloc() keeps running unless it waits for the
\* mutex; callers need not call again and need not free.
FairSpec == Spec /\ \A t \in Threads : WF_vars(Step(t))

------------------------------------------------------------------------------
PagesOf(s) == buf[s].vaddr .. buf[s].vaddr + buf[s].size - 1

(***************************************************************************)
(* No two pop_buf_t in use share a page, and every page of one lies in the *)
(* mapped region: DMA into one buffer never lands in another or outside.   *)
(***************************************************************************)
BuffersDisjoint ==
    \A s \in heap :
        /\ PagesOf(s) \subseteq 0 .. NumPages - 1
        /\ \A u \in heap \ {s} : PagesOf(s) \cap PagesOf(u) = {}

(***************************************************************************)
(* A buffer that is about to be returned holds the requested size, and     *)
(* with one page less it would not: the rounding loop is exact, also at    *)
(* multiples of the page size and at 0.                                    *)
(***************************************************************************)
RoundsUp ==
    \A t \in Threads :
        pc[t] = "unlock" /\ pbuf[t] # NULL =>
            /\ buf[pbuf[t]].size * PAGE_SIZE >= size[t]
            /\ (buf[pbuf[t]].size - 1) * PAGE_SIZE < size[t]

(***************************************************************************)
(* A thread that took mem->mutex gives it back, on the two error paths     *)
(* through "out" as well: no call can lock the others out for ever.        *)
(***************************************************************************)
MutexReleased ==
    \A t \in Threads : mutex = t ~> mutex # t

------------------------------------------------------------------------------
Critical == {"count", "check", "malloc", "bump", "unlock"}

\* Buffers whose pages have not yet left the pool: alloced_pages moves next.
BeingBuilt == {pbuf[t] : t \in {u \in Threads : pc[u] = "bump"}}

(***************************************************************************)
(* Why the buffers are disjoint: the mutex admits one thread at a time to  *)
(* lines 215-241, so the room it found at line 218 is still there at 241,  *)
(* every finished buffer ends at or below alloced_pages, and the one being *)
(* filled starts exactly there.                                            *)
(***************************************************************************)
AllocInv ==
    /\ \A t \in Threads :
          /\ pc[t] \in Critical <=> mutex = t
          /\ pbuf[t] # NULL => pc[t] \in {"bump", "unlock"} /\ pbuf[t] \in heap
          /\ pc[t] \in {"malloc", "bump"} =>
                alloced_pages + nr_pages[t] <= NumPages
          /\ pc[t] = "bump" =>
                /\ pbuf[t] \in heap
                /\ buf[pbuf[t]] = [vaddr |-> alloced_pages, size |-> nr_pages[t]]
    /\ \A s \in heap \ BeingBuilt : buf[s].vaddr + buf[s].size <= alloced_pages
    /\ \A s, u \in heap :
          s # u => \/ buf[s].vaddr + buf[s].size <= buf[u].vaddr
                  \/ buf[u].vaddr + buf[u].size <= buf[s].vaddr

(***************************************************************************)
(* Why the rounding is exact: nr_pages never overshoots the first value at *)
(* which nr_pages << PAGE_SHIFT reaches the request, and the filled buffer *)
(* keeps that value.                                                       *)
(***************************************************************************)
RoundInv ==
    \A t \in Threads :
        /\ pc[t] \in {"idle", "lock"} => nr_pages[t] = 0
        /\ pc[t] # "idle" => size[t] \in Sizes
        /\ pc[t] # "idle" => (nr_pages[t] - 1) * PAGE_SIZE < size[t]
        /\ pc[t] \in {"check", "malloc", "bump", "unlock"} =>
              nr_pages[t] * PAGE_SIZE >= size[t]
        /\ pbuf[t] # NULL => buf[pbuf[t]].size = nr_pages[t]

------------------------------------------------------------------------------
\* The abstract allocator: a buffer exists there from the moment its pages
\* leave the pool, which is when alloced_pages moves.
AbsStatus(t) ==
    IF pc[t] \in {"idle", "unlock"} THEN errno[t] ELSE "asking"

PA == INSTANCE PageAllocator WITH
        status  <- [t \in Threads |-> AbsStatus(t)],
        want    <- size,
        live    <- heap \ BeingBuilt,
        pages   <- [s \in Structs |->
                      IF s \in heap \ BeingBuilt THEN PagesOf(s) ELSE {}],
        granted <- 0 .. alloced_pages - 1

(***************************************************************************)
(* The locked bump allocator implements PageAllocator: grants are fresh    *)
(* pages, never pages of a freed buffer, and ENOBUFS is answered only when *)
(* no pages are left that could hold the request.                          *)
(***************************************************************************)
ImplementsPageAllocator == PA!Spec
==============================================================================
