------------------------------- MODULE MCPopMem -------------------------------
(***************************************************************************)
(* Pages of 4 bytes, hugepages of 2 pages, 4 hugepages in the system and 3 *)
(* pages of p2pmem on a device.                                            *)
(***************************************************************************)
EXTENDS PopMem, TLC

\* All, a part of a page, a page multiple, more than the pool.
MCSizes == {0, 1, 8, 13}

MCSymmetry == Permutations(Handles)
==============================================================================
