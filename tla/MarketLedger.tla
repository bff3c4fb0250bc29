---------------------------- MODULE MarketLedger ----------------------------
(***************************************************************************)
(* Where the ether of contracts/NFTMarketplace.sol is: sums over the books *)
(* that module NFTMarketplace keeps, and what they promise.                *)
(***************************************************************************)
EXTENDS NFTMarketplace, FiniteSets, Functions

\* There are finitely many addresses.
ASSUME FiniteAssumption == IsFiniteSet(Users) /\ IsFiniteSet(Collections)

\* The sum of a book kept per token and user, of the standing bids, of the
\* offers made on a token and of those made on all.
BookTotal(book) == SumFunction([n \in NFT |-> SumFunction(book[n])])
BidTotal == SumFunction([n \in NFT |-> collectionToMarketItems[n].highestBid])
OffersOn(offers) == SumFunction([i \in DOMAIN offers |-> offers[i].price])
OfferTotal == SumFunction([n \in NFT |-> OffersOn(itemOffers[n])])

\* What the contract's books say it owes: outbid bids, standing bids, offers.
Owed == BookTotal(pendingReturns) + BidTotal + OfferTotal

FeesPaid == ListingFee * SumFunction([c \in Collections |-> Len(collectionTokenIds[c])])

----------------------------------------------------------------------------

\* The contract holds at least what its books owe to bidders and to the makers
\* of offers, so placeBid's credits are always covered by what was paid in.
Solvent == Owed <= balance

\* The contract's balance is every listing fee, bid and offer ever paid: no
\* function of the contract pays any of them out, a sale included.
NothingPaidOut == balance = FeesPaid + BookTotal(bidsPaid) + OfferTotal

============================================================================
