----------------------------- MODULE MCBoogiepop -----------------------------
(***************************************************************************)
(* Two tasks whose ioctls interleave, two devices with p2pmem of 2 pages   *)
(* of 2 bytes and one without, two pop_dev addresses, so that one is       *)
(* leaked or reused, and one file, opened again and again.                 *)
(***************************************************************************)
EXTENDS Boogiepop, TLC

\* All of the pool, and less than a page: one fits or two, or one of two.
MCReqSizes == {0, 1}

\* Tasks and addresses are interchangeable, and so are devices with p2pmem.
MCSymmetry ==
    Permutations(Objs) \cup Permutations(P2pDevs) \cup Permutations(Tasks)
==============================================================================
