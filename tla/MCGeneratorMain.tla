--------------------------- MODULE MCGeneratorMain ---------------------------
(***************************************************************************)
(* One to three threads, memory for one to three of them, and a packet of  *)
(* each: the third thread is one that is late when the first is joined.    *)
(***************************************************************************)
EXTENDS GeneratorMain
==============================================================================
