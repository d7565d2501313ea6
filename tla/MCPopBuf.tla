------------------------------- MODULE MCPopBuf -------------------------------
(***************************************************************************)
(* A buffer of 6 bytes and lengths 0, 1, 2, 3 and 7: nothing, steps that   *)
(* meet both ends of the buffer exactly and not, and more than the buffer. *)
(***************************************************************************)
EXTENDS PopBuf

MCLens == {0, 1, 2, 3, 7}
==============================================================================
