--------------------------- MODULE MCMarketplace ---------------------------
(***************************************************************************)
(* Instances of the marketplace for TLC: the contracts, their ledger and   *)
(* their views.  The constants are given by the .cfg files.                *)
(***************************************************************************)
EXTENDS MarketLedger, MarketViews, MarketEscrow
============================================================================
