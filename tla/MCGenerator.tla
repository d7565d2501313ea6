----------------------------- MODULE MCGenerator -----------------------------
(***************************************************************************)
(* A ring of 8 slots and three batches of two packets: all of them fit,    *)
(* one or two exactly, these and a part of the next one, or none.          *)
(***************************************************************************)
EXTENDS Generator
==============================================================================
