--------------------------- MODULE MCConnections ---------------------------
(***************************************************************************)
(* Connections for TLC: three connections, one number besides the          *)
(* listening socket's, two threads.  All constants are given by the .cfg.  *)
(***************************************************************************)
EXTENDS Connections
=============================================================================
