----------------------------- MODULE MCNvgenRing -----------------------------
(***************************************************************************)
(* A ring of 8 slots, a tx ring that holds 4 packets, batches of up to 3   *)
(* packets and of up to 2 blocks: the head goes round the ring, the tail   *)
(* becomes odd, the tx ring fills up, and each thread waits for the other. *)
(* For liveness, and for reads that are given up, a ring of 4 slots, a tx  *)
(* ring that holds 3 packets, and reads of one block.                      *)
(***************************************************************************)
EXTENDS NvgenRing
==============================================================================
