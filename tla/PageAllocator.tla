---------------------------- MODULE PageAllocator ----------------------------
(***************************************************************************)
(* What pop_buf_alloc() and pop_buf_free() promise to the threads that     *)
(* share one pop_mem_t: a call is either granted pages that nobody was     *)
(* ever granted before, inside the region and enough for the request, or   *)
(* refused, and it is refused for want of pages only when no such pages    *)
(* are left.  Nothing is said of locks, of the order in which pages are    *)
(* used, or of how the request is rounded to pages.                        *)
(***************************************************************************)
EXTENDS Integers

CONSTANTS Threads,      \* threads that call the allocator
          Structs,      \* addresses malloc() has for a pop_buf_t
          PAGE_SIZE,    \* bytes of a page
          NumPages,     \* pages of the region
          Sizes         \* sizes a caller asks for, in bytes

VARIABLES status,   \* status[t]: "asking", or the answer to t's last call
          want,     \* want[t]: the size t asks, or last asked, for
          live,     \* addresses of the pop_buf_t in use
          pages,    \* pages[s]: the pages of the pop_buf_t at address s
          granted   \* every page granted so far, freed or not

vars == <<status, want, live, pages, granted>>

Pages == 0 .. NumPages - 1

Answers == {"none", "ok", "ENOBUFS", "ENOMEM"}

Init ==
    /\ status = [t \in Threads |-> "none"]
    /\ want = [t \in Threads |-> 0]
    /\ live = {}
    /\ pages = [s \in Structs |-> {}]
    /\ granted = {}

Ask(t, size) ==
    /\ status[t] \in Answers
    /\ status' = [status EXCEPT ![t] = "asking"]
    /\ want' = [want EXCEPT ![t] = size]
    /\ UNCHANGED <<live, pages, granted>>

\* n pages hold the request, and fewer would not.
Fits(size, n) == n * PAGE_SIZE >= size /\ (n - 1) * PAGE_SIZE < size

Run(f, n) == f .. f + n - 1

\* The n pages from page f can be granted to t.
Grantable(t, f, n) ==
    Fits(want[t], n) /\ Run(f, n) \subseteq Pages \ granted

Grant(t, s) ==
    /\ status[t] = "asking"
    /\ s \notin live
    /\ \E f \in 0 .. NumPages, n \in 0 .. NumPages :
          /\ Grantable(t, f, n)
          /\ pages' = [pages EXCEPT ![s] = Run(f, n)]
          /\ granted' = granted \cup Run(f, n)
    /\ live' = live \cup {s}
    /\ status' = [status EXCEPT ![t] = "ok"]
    /\ UNCHANGED want

\* No run of pages that were never granted is long enough.
RefuseFull(t) ==
    /\ status[t] = "asking"
    /\ \A f \in 0 .. NumPages, n \in 0 .. NumPages : ~Grantable(t, f, n)
    /\ status' = [status EXCEPT ![t] = "ENOBUFS"]
    /\ UNCHANGED <<want, live, pages, granted>>

RefuseMalloc(t) ==
    /\ status[t] = "asking"
    /\ status' = [status EXCEPT ![t] = "ENOMEM"]
    /\ UNCHANGED <<want, live, pages, granted>>

Release(s) ==
    /\ s \in live
    /\ live' = live \ {s}
    /\ pages' = [pages EXCEPT ![s] = {}]
    /\ UNCHANGED <<status, want, granted>>

Next ==
    \/ \E t \in Threads :
          \/ \E size \in Sizes : Ask(t, size)
          \/ \E s \in Structs : Grant(t, s)
          \/ RefuseFull(t)
          \/ RefuseMalloc(t)
    \/ \E s \in Structs : Release(s)

Spec == Init /\ [][Next]_vars
==============================================================================
