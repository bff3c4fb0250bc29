-------------------------- MODULE MCInteractScript --------------------------
(***************************************************************************)
(* The script of module InteractScript for TLC.  The constants are given   *)
(* by the .cfg file.                                                       *)
(***************************************************************************)
EXTENDS InteractScript

\* Nothing tells the addresses of collections apart.
CollectionSymmetry == Permutations(Collections)

============================================================================
