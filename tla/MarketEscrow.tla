---------------------------- MODULE MarketEscrow ----------------------------
(***************************************************************************)
(* The contracts implement the escrow of module TokenEscrow.  Where a      *)
(* token is follows from its ERC-721 owner and its market item.            *)
(***************************************************************************)
EXTENDS NFTMarketplace

PlaceOf(owner, item) ==
  IF owner = NoAddr THEN [at |-> "unminted"]
  ELSE IF owner # Market THEN [at |-> "held", by |-> owner]
  ELSE IF ~item.isOnSale THEN [at |-> "stranded"]
  ELSE [at |-> "escrow", seller |-> item.seller, price |-> item.price,
        locked |-> item.isAuction]

Places == [n \in NFT |-> PlaceOf(owners[n], collectionToMarketItems[n])]

Abstract == INSTANCE TokenEscrow WITH
  Tokens <- NFT, People <- Users, Amounts <- UInt, Fee <- ListingFee,
  Initial <- InitialWallet, place <- Places, funds <- wallet

\* Every step of the contracts is a step of the escrow or leaves it unchanged:
\* whatever is approved, listed, auctioned, bid, nested in a mint's hook or sent
\* past the marketplace, a token leaves escrow only for its holder's payment to
\* its seller, one that is auctioned or stranded never leaves, and nobody is
\* paid for anything else.
ImplementsEscrow == Abstract!Spec

============================================================================
