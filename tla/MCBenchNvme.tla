----------------------------- MODULE MCBenchNvme -----------------------------
(***************************************************************************)
(* Two threads with batches of two commands.  The counters stop at one: it *)
(* is enough for the sums to be read before and after a thread counts.     *)
(***************************************************************************)
EXTENDS BenchNvme
==============================================================================
