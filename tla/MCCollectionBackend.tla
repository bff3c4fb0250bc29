------------------------ MODULE MCCollectionBackend ------------------------
(***************************************************************************)
(* Instances of the collections API for TLC: a few concurrent requests,    *)
(* given by the .cfg files.                                                *)
(***************************************************************************)
EXTENDS CollectionBackend
============================================================================
