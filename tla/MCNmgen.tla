------------------------------- MODULE MCNmgen -------------------------------
(***************************************************************************)
(* Two threads, rx rings of three slots and tx rings of four, batches of   *)
(* two packets, and memory for none, one or both of the threads.  The      *)
(* checksum is checked on all headers of four words of two bytes, a byte   *)
(* having three values.                                                    *)
(***************************************************************************)
EXTENDS Nmgen
==============================================================================
