------------------------ MODULE MCTransactionSender ------------------------
(***************************************************************************)
(* TransactionSender for TLC: a call of sendTransaction and two of the     *)
(* service on the same account.                                            *)
(***************************************************************************)
EXTENDS TransactionSender
============================================================================
