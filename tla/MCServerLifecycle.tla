------------------------- MODULE MCServerLifecycle -------------------------
(***************************************************************************)
(* An instance of the server process for TLC; the .cfg file bounds the     *)
(* clients at a time and the times the database goes away.                 *)
(***************************************************************************)
EXTENDS ServerLifecycle
============================================================================
