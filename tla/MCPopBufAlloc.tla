---------------------------- MODULE MCPopBufAlloc ----------------------------
(***************************************************************************)
(* A region of 3 pages of 2 bytes, shared by 2 threads, with 2 heap        *)
(* addresses for structures.  The sizes are 0, a part of a page, exactly a *)
(* page, more than a page, the whole region, and more than the region: the *)
(* largest size, WORD - PAGE_SIZE, for which the rounding loop ends.       *)
(***************************************************************************)
EXTENDS PopBufAlloc

MCSizes == {0, 1, 2, 3, 6, 8}
==============================================================================
