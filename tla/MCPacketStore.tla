---------------------------- MODULE MCPacketStore ----------------------------
(***************************************************************************)
(* Two threads on a device of 19 blocks, commands of one to four: the      *)
(* ranges leave a remainder, and are and are not a multiple of a command.  *)
(* nvgen also runs on a device of 30 blocks, where the second thread can   *)
(* hold the addresses of its range only up to 20.                          *)
(* A packet is two blocks or half a block, and batches fill a whole number *)
(* of blocks or not.                                                       *)
(***************************************************************************)
EXTENDS PacketStore
==============================================================================
