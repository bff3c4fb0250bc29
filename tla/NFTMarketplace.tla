--------------------------- MODULE NFTMarketplace ---------------------------
(***************************************************************************)
(* The marketplace contract (contracts/NFTMarketplace.sol) together with   *)
(* the collections it deploys: listing, selling, auctions, bids and        *)
(* offers, and the ether that moves with them.                             *)
(*                                                                         *)
(* Every external function is one action, enabled exactly when the call    *)
(* would not revert.  The reentrancy guard does not appear: no function    *)
(* that takes it hands control to foreign code that could call back (the   *)
(* payment to the seller is a transfer with the 2300 gas stipend, and the  *)
(* tokens move with transferFrom, which has no hook), so its flag is never *)
(* set when another call starts.  Pausable is inherited but never used.    *)
(***************************************************************************)
EXTENDS CollectionRegistry

CONSTANTS
  Payable,          \* the users that accept a plain ether transfer
  ListingFee,       \* listingFee, which no function changes
  InitialWallet,    \* ether every user starts with; it bounds what can be paid
  Values,           \* amounts of ether and prices used in calls
  Durations,        \* auction durations
  UsedCategories,   \* category arguments of createCollection
  Spenders,         \* addresses that approvals are given to
  Recipients,       \* addresses that tokens are sent to past the marketplace
  NewOwners,        \* arguments of transferOwnership
  MaxTime,          \* bound on the block timestamp
  MaxUint           \* type(uint256).max

ASSUME MarketAssumption ==
  /\ Payable \subseteq Users
  /\ ListingFee \in Nat
  /\ InitialWallet \in Nat
  /\ Values \subseteq 0..MaxUint
  /\ Durations \subseteq 0..MaxUint
  /\ UsedCategories \subseteq Category
  /\ Spenders \subseteq Address
  /\ Recipients \subseteq Address
  /\ NewOwners \subseteq Users \cup {NoAddr}
  /\ MaxTime \in Nat
  /\ MaxUint \in Nat

VARIABLES
  collectionToMarketItems, \* the market item of every token
  collectionTokenIds,      \* per collection, a token id per listing, in order
  pendingReturns,          \* per token and bidder, outbid ether to give back
  itemOffers,              \* per token, the offers made on it
  userPurchases,           \* per user, the tokens bought
  userPurchaseCount,       \* per user, the number of purchases
  balance,                 \* ether held by the marketplace contract
  wallet,                  \* ether held by every user
  now,                     \* block.timestamp
  bidsPaid                 \* history: ether ever sent with placeBid, per token and user

marketVars == <<collectionToMarketItems, collectionTokenIds, pendingReturns,
                itemOffers, userPurchases, userPurchaseCount, balance, wallet,
                bidsPaid>>
vars == <<collectionVars, registryVars, marketVars, now>>

UInt == 0..MaxUint

\* struct MarketItem without the two fields that repeat its key, and the value
\* of an entry that was never written.
MarketItem == [seller : Users \cup {NoAddr}, owner : Users \cup {NoAddr},
               price : UInt, isOnSale : BOOLEAN, auctionEndTime : UInt,
               highestBidder : Users \cup {NoAddr}, highestBid : UInt,
               isAuction : BOOLEAN, tokenURI : URIs \cup {NoURI}]
NoItem == [seller |-> NoAddr, owner |-> NoAddr, price |-> 0, isOnSale |-> FALSE,
           auctionEndTime |-> 0, highestBidder |-> NoAddr, highestBid |-> 0,
           isAuction |-> FALSE, tokenURI |-> NoURI]

Offer == [buyer : Users, price : UInt, timestamp : Nat]

MarketTypeOK ==
  /\ collectionToMarketItems \in [NFT -> MarketItem]
  /\ collectionTokenIds \in [Collections -> Seq(TokenId)]
  /\ pendingReturns \in [NFT -> [Users -> Nat]]
  /\ itemOffers \in [NFT -> Seq(Offer)]
  /\ userPurchases \in [Users -> SUBSET NFT]
  /\ userPurchaseCount \in [Users -> Nat]
  /\ balance \in Nat
  /\ wallet \in [Users -> Nat]
  /\ bidsPaid \in [NFT -> [Users -> Nat]]
  /\ now \in 0..MaxTime

\* Every variable holds values of the declared Solidity type.
TypeOK == CollectionTypeOK /\ RegistryTypeOK /\ MarketTypeOK

Init ==
  /\ CollectionInit
  /\ RegistryInit
  /\ collectionToMarketItems = [n \in NFT |-> NoItem]
  /\ collectionTokenIds = [c \in Collections |-> <<>>]
  /\ pendingReturns = [n \in NFT |-> [u \in Users |-> 0]]
  /\ itemOffers = [n \in NFT |-> <<>>]
  /\ userPurchases = [u \in Users |-> {}]
  /\ userPurchaseCount = [u \in Users |-> 0]
  /\ balance = 0
  /\ wallet = [u \in Users |-> InitialWallet]
  /\ bidsPaid = [n \in NFT |-> [u \in Users |-> 0]]
  /\ now = 0

\* msg.value of a payable call that the marketplace keeps.
deposit_NotReceived(sender, value) ==
  /\ wallet[sender] >= value
  /\ wallet' = [wallet EXCEPT ![sender] = @ - value]
  /\ balance' = balance

deposit(sender, value) ==
  /\ wallet[sender] >= value
  /\ wallet' = [wallet EXCEPT ![sender] = @ - value]
  /\ balance' = balance + value

----------------------------------------------------------------------------
(* Collections *)

addCategory(sender, category) ==
  /\ MayCall(sender)
  /\ registerCategory(sender, category)
  /\ UNCHANGED <<collectionVars, marketVars, now>>

createCollection(sender, c, category) ==
  /\ MayCall(sender)
  /\ construct(c, sender)
  /\ registerCollection(sender, c, category)
  /\ UNCHANGED <<marketVars, now>>

\* mint to an account without code: no hook runs, one step.
mint(sender, c, to, uri) ==
  /\ MayCall(sender)
  /\ to \notin Contracts
  /\ mintToken(sender, c, to)
  /\ tokenURIs' = [tokenURIs EXCEPT ![<<c, tokenIds[c] + 1>>] = uri]
  /\ updateCollectionTotalSupply(c)
  /\ UNCHANGED <<minting, marketVars, now>>

\* mint to a contract, up to the call of its onERC721Received ...
mintCallReceiver(sender, c, to, uri) ==
  /\ MayCall(sender)
  /\ to \in Contracts
  /\ mintToken(sender, c, to)
  /\ minting' = Append(minting, [nft |-> <<c, tokenIds[c] + 1>>, uri |-> uri])
  /\ UNCHANGED <<tokenURIs, registryVars, marketVars, now>>

\* mint keeps the id it gave out in a local variable across the hook.
newTokenId_ReadAgain(call) == <<call.nft[1], tokenIds[call.nft[1]]>>
newTokenId(call) == call.nft

\* ... and from the return of the innermost hook to the end of that mint.
mintReturn ==
  /\ minting # <<>>
  /\ LET call == minting[Len(minting)]
     IN /\ tokenURIs' = [tokenURIs EXCEPT ![newTokenId(call)] = call.uri]
        /\ minting' = SubSeq(minting, 1, Len(minting) - 1)
        /\ UNCHANGED <<deployed, contractOwner, tokenIds, owners,
                       tokenApprovals, operatorApprovals>>
        /\ updateCollectionTotalSupply(call.nft[1])
  /\ UNCHANGED <<marketVars, now>>

approve(sender, to, n) ==
  /\ MayCall(sender)
  /\ erc721Approve(sender, to, n)
  /\ UNCHANGED <<registryVars, marketVars, now>>

setApprovalForAll(sender, c, operator, allowed) ==
  /\ MayCall(sender)
  /\ erc721SetApprovalForAll(sender, c, operator, allowed)
  /\ UNCHANGED <<registryVars, marketVars, now>>

\* transferFrom sent to the collection by an account, past the marketplace.
transferFrom(sender, to, n) ==
  /\ MayCall(sender)
  /\ erc721TransferFrom(sender, owners[n], to, n)
  /\ UNCHANGED <<deployed, contractOwner, tokenIds, operatorApprovals,
                 tokenURIs, minting, registryVars, marketVars, now>>

transferOwnership(sender, o, newOwner) ==
  /\ MayCall(sender)
  /\ ownableTransferOwnership(sender, o, newOwner)
  /\ UNCHANGED <<registryVars, marketVars, now>>

----------------------------------------------------------------------------
(* Market items *)

\* The struct that createMarketItem stores, and the fields that the other
\* functions change of one.
listed(sender, n, price) ==
  [seller |-> sender, owner |-> NoAddr, price |-> price, isOnSale |-> TRUE,
   auctionEndTime |-> 0, highestBidder |-> NoAddr, highestBid |-> 0,
   isAuction |-> FALSE, tokenURI |-> tokenURI(n)]

sold_StillOnSale(item, buyer) == [item EXCEPT !.owner = buyer]
sold(item, buyer) == [item EXCEPT !.isOnSale = FALSE, !.owner = buyer]

auctioned(item, startingPrice, end) ==
  [item EXCEPT !.isAuction = TRUE, !.price = startingPrice, !.auctionEndTime = end]

outbid(item, bidder, value) ==
  [item EXCEPT !.highestBidder = bidder, !.highestBid = value]

\* collectionTokenIds is appended to on every listing, a second one of the same
\* token included.
pushTokenId_Dropped(n) == UNCHANGED collectionTokenIds
pushTokenId_Position(n) ==
  collectionTokenIds' = [collectionTokenIds EXCEPT ![n[1]] = Append(@, Len(@))]
pushTokenId_OncePerToken(n) ==
  collectionTokenIds' = IF collectionToMarketItems[n].seller # NoAddr THEN collectionTokenIds
                        ELSE [collectionTokenIds EXCEPT ![n[1]] = Append(@, n[2])]
pushTokenId(n) ==
  collectionTokenIds' = [collectionTokenIds EXCEPT ![n[1]] = Append(@, n[2])]

createMarketItem(sender, n, price) ==
  /\ MayCall(sender)
  /\ collections[n[1]].isActive
  /\ price > 0
  /\ deposit(sender, ListingFee)
  /\ collectionToMarketItems' =
       [collectionToMarketItems EXCEPT ![n] = listed(sender, n, price)]
  /\ pushTokenId(n)
  /\ erc721TransferFrom(Market, sender, Market, n)
  /\ UNCHANGED <<deployed, contractOwner, tokenIds, operatorApprovals, tokenURIs,
                 minting, registryVars, pendingReturns, itemOffers,
                 userPurchases, userPurchaseCount, now, bidsPaid>>

\* The two checks that sales and offers start with.
forSale_AuctionsToo(n) == collectionToMarketItems[n].isOnSale
forSale(n) ==
  collectionToMarketItems[n].isOnSale /\ ~collectionToMarketItems[n].isAuction

\* The price, sent with the call, goes straight to the seller; the call reverts
\* when the seller does not accept it.
paySeller_Skipped(sender, seller, price) == UNCHANGED wallet

paySeller(sender, seller, price) ==
  /\ wallet[sender] >= price
  /\ seller \in Payable
  /\ wallet' = [[wallet EXCEPT ![sender] = @ - price] EXCEPT ![seller] = @ + price]

createMarketSale(sender, n) ==
  LET item == collectionToMarketItems[n]
  IN /\ MayCall(sender)
     /\ forSale(n)
     /\ collectionToMarketItems' =
          [collectionToMarketItems EXCEPT ![n] = sold(item, sender)]
     /\ paySeller(sender, item.seller, item.price)
     /\ erc721TransferFrom(Market, Market, sender, n)
     /\ userPurchases' = [userPurchases EXCEPT ![sender] = @ \cup {n}]
     /\ userPurchaseCount' = [userPurchaseCount EXCEPT ![sender] = @ + 1]
     /\ UNCHANGED <<deployed, contractOwner, tokenIds, operatorApprovals,
                    tokenURIs, minting, registryVars, collectionTokenIds,
                    pendingReturns, itemOffers, balance, now, bidsPaid>>

\* Solidity 0.8 reverts a sum past type(uint256).max.
noOverflow(sum) == sum <= MaxUint

createAuction(sender, n, startingPrice, duration) ==
  LET item == collectionToMarketItems[n]
  IN /\ MayCall(sender)
     /\ item.seller = sender
     /\ ~item.isAuction
     /\ noOverflow(now + duration)
     /\ collectionToMarketItems' =
          [collectionToMarketItems EXCEPT
             ![n] = auctioned(item, startingPrice, now + duration)]
     /\ UNCHANGED <<collectionVars, registryVars, collectionTokenIds,
                    pendingReturns, itemOffers, userPurchases, userPurchaseCount,
                    balance, wallet, now, bidsPaid>>

\* The bid that is displaced becomes ether the contract owes to its bidder.
creditOutbid_Forgotten(n) == UNCHANGED pendingReturns

creditOutbid_StartingPrice(n) ==
  LET item == collectionToMarketItems[n]
  IN pendingReturns' = IF item.highestBidder = NoAddr THEN pendingReturns
                       ELSE [pendingReturns EXCEPT
                               ![n][item.highestBidder] = @ + item.price]

creditOutbid(n) ==
  LET item == collectionToMarketItems[n]
  IN pendingReturns' = IF item.highestBidder = NoAddr THEN pendingReturns
                       ELSE [pendingReturns EXCEPT
                               ![n][item.highestBidder] = @ + item.highestBid]

placeBid(sender, n, value) ==
  LET item == collectionToMarketItems[n]
  IN /\ MayCall(sender)
     /\ item.isAuction
     /\ now < item.auctionEndTime
     /\ value > item.highestBid
     /\ deposit(sender, value)
     /\ creditOutbid(n)
     /\ collectionToMarketItems' =
          [collectionToMarketItems EXCEPT ![n] = outbid(item, sender, value)]
     /\ bidsPaid' = [bidsPaid EXCEPT ![n][sender] = @ + value]
     /\ UNCHANGED <<collectionVars, registryVars, collectionTokenIds, itemOffers,
                    userPurchases, userPurchaseCount, now>>

makeOffer(sender, n, value) ==
  /\ MayCall(sender)
  /\ forSale(n)
  /\ value > 0
  /\ deposit(sender, value)
  /\ itemOffers' = [itemOffers EXCEPT ![n] =
       Append(@, [buyer |-> sender, price |-> value, timestamp |-> now])]
  /\ UNCHANGED <<collectionVars, registryVars, collectionToMarketItems,
                 collectionTokenIds, pendingReturns, userPurchases,
                 userPurchaseCount, now, bidsPaid>>

\* A later block; none starts inside a transaction.
tick ==
  /\ minting = <<>>
  /\ now < MaxTime
  /\ now' = now + 1
  /\ UNCHANGED <<collectionVars, registryVars, marketVars>>

----------------------------------------------------------------------------

\* What one account may call: of the collections and the registry, and of the
\* market's items.
CollectionCall(u) ==
  \/ \E k \in NewCategories : addCategory(u, k)
  \/ \E c \in Collections, k \in UsedCategories : createCollection(u, c, k)
  \/ \E c \in Collections, to \in Users, uri \in URIs :
       mint(u, c, to, uri) \/ mintCallReceiver(u, c, to, uri)
  \/ \E n \in NFT, to \in Spenders \cup {NoAddr} : approve(u, to, n)
  \/ \E c \in Collections, op \in Spenders, allowed \in BOOLEAN :
       setApprovalForAll(u, c, op, allowed)
  \/ \E n \in NFT, to \in Recipients : transferFrom(u, to, n)
  \/ \E o \in Ownables, to \in NewOwners : transferOwnership(u, o, to)

MarketCall(u) ==
  \E n \in NFT :
    \/ \E p \in Values : createMarketItem(u, n, p)
    \/ createMarketSale(u, n)
    \/ \E p \in Values, d \in Durations : createAuction(u, n, p, d)
    \/ \E v \in Values : placeBid(u, n, v)
    \/ \E v \in Values : makeOffer(u, n, v)

CollectionStep == \E u \in Users : CollectionCall(u)
MarketStep == \E u \in Users : MarketCall(u)

Next == CollectionStep \/ MarketStep \/ mintReturn \/ tick

Spec == Init /\ [][Next]_vars

\* Blocks keep coming, and the users keep calling the market's functions for as
\* long as one of them can be called.  No safety property needs it.
FairSpec == Spec /\ WF_vars(tick) /\ WF_vars(MarketStep)

----------------------------------------------------------------------------
(* Safety *)

\* An item offered for sale is in the marketplace's hands: createMarketSale can
\* always deliver what it takes money for, whatever approvals and direct
\* transfers happened before and after the listing.
EscrowCustody ==
  \A n \in NFT : collectionToMarketItems[n].isOnSale => owners[n] = Market

\* What the contract's books hold for a bidder of a token: the pendingReturns and
\* the standing bid.
OnBooks(n, u) ==
  pendingReturns[n][u] + (IF collectionToMarketItems[n].highestBidder = u
                            THEN collectionToMarketItems[n].highestBid ELSE 0)

\* A bidder is never credited with more than was paid: what the books hold stays
\* within the ether that the bidder sent with placeBid for that token.
BidderNotOvercredited ==
  \A n \in NFT, u \in Users : OnBooks(n, u) <= bidsPaid[n][u]

\* The token ids the listing functions walk over are exactly the tokens that
\* have a market item: fetchCollectionItems and _getFloorPrice miss none.
TokenIndexComplete ==
  \A n \in NFT :
    collectionToMarketItems[n].seller # NoAddr
      <=> \E i \in DOMAIN collectionTokenIds[n[1]] : collectionTokenIds[n[1]][i] = n[2]

\* A token leaves the marketplace's hands only through a sale: it was listed and
\* not auctioned, the new holder is recorded as its owner and paid exactly the
\* asking price to the seller in the same step.  No approval, direct transfer or
\* call made inside a mint's hook gets a token out (createMarketSale).
AtomicSwap ==
  [][\A n \in NFT :
       LET item == collectionToMarketItems[n]
           buyer == owners'[n]
       IN owners[n] = Market /\ buyer # Market =>
            /\ item.isOnSale
            /\ ~item.isAuction
            /\ buyer \in Users
            /\ collectionToMarketItems'[n].owner = buyer
            /\ buyer # item.seller =>
                 /\ wallet'[buyer] = wallet[buyer] - item.price
                 /\ wallet'[item.seller] = wallet[item.seller] + item.price]_vars

\* Once a listed token is put to auction nobody can take it back, buy it at a
\* fixed price or restart the auction: token, seller and end time stay, and the
\* highest bid never falls (createAuction, placeBid, createMarketItem).
AuctionedItemLocked ==
  [][\A n \in NFT :
       LET item == collectionToMarketItems[n]
       IN item.isOnSale /\ item.isAuction =>
            /\ owners'[n] = Market
            /\ collectionToMarketItems'[n].isOnSale
            /\ collectionToMarketItems'[n].isAuction
            /\ collectionToMarketItems'[n].seller = item.seller
            /\ collectionToMarketItems'[n].auctionEndTime = item.auctionEndTime
            /\ collectionToMarketItems'[n].highestBid >= item.highestBid]_vars

\* Every bid stays on the books: what a bidder sent with placeBid for a token is
\* either the standing bid or in pendingReturns.
BidsAccountedFor ==
  \A n \in NFT, u \in Users : OnBooks(n, u) = bidsPaid[n][u]

\* There is one way for paid ether to drop off the books: a token that is not for
\* sale has been put to auction all the same (createAuction asks for neither the
\* token nor its listing), and while the bid stands its owner lists the token.  No
\* sequence of bids, sales, offers, transfers or listings does it otherwise.
BidsLostOnlyByRelisting ==
  [][\A n \in NFT, u \in Users :
       LET item == collectionToMarketItems[n]
           next == collectionToMarketItems'[n]
       IN \/ bidsPaid'[n][u] - OnBooks(n, u)' = bidsPaid[n][u] - OnBooks(n, u)
          \/ /\ item.highestBidder = u
             /\ item.isAuction /\ ~item.isOnSale /\ owners[n] # Market
             /\ next.isOnSale /\ next.seller = owners[n] /\ owners'[n] = Market]_vars

\* An auction of a token the marketplace holds that ended with a bid is
\* settled: the highest bidder gets the token.
AuctionSettles ==
  \A n \in NFT, u \in Users :
    (/\ owners[n] = Market
     /\ collectionToMarketItems[n].isAuction
     /\ collectionToMarketItems[n].highestBidder = u
     /\ now >= collectionToMarketItems[n].auctionEndTime) ~> (owners[n] = u)

\* The marketplace's copy of totalSupply is the collection's counter whenever
\* no mint of that collection is waiting for its receiver, nested mints by the
\* receiver included (the check of scripts/interact.js).
SupplySynced ==
  \A c \in Collections :
    (\A i \in DOMAIN minting : minting[i].nft[1] # c)
      => collections[c].totalSupply = tokenIds[c]

\* The token URI copied into a market item is the token's own, unless the token
\* was listed from inside the hook of its own mint, before it had one.
ItemURIMatches ==
  \A n \in NFT :
    /\ collectionToMarketItems[n].seller # NoAddr
    /\ collectionToMarketItems[n].tokenURI # NoURI
    => collectionToMarketItems[n].tokenURI = tokenURIs[n]

OccursOnce(x, seq) == \E i \in DOMAIN seq : \A j \in DOMAIN seq : seq[j] = x <=> j = i
Absent(x, seq) == \A i \in DOMAIN seq : seq[i] # x
Recorded(x, seq, once) == IF once THEN OccursOnce(x, seq) ELSE Absent(x, seq)

\* A collection the marketplace knows is recorded once in the list of all
\* collections, once under its category and once under its creator, and nowhere
\* else, so that fetchCollections, fetchCollectionsByCategory and
\* fetchUserCreatedCollections agree with the mapping; and the list of
\* categories is the set that createCollection accepts, without repetition.
RegistryConsistent ==
  /\ \A c \in Collections :
       LET col == collections[c]
       IN /\ col.isActive <=> c \in deployed
          /\ Recorded(c, collectionAddresses, col.isActive)
          /\ \A k \in Category :
               Recorded(c, categoryToCollections[k], col.isActive /\ k = col.category)
          /\ \A u \in Users :
               Recorded(c, userCreatedCollections[u], col.isActive /\ u = col.owner)
  /\ \A k \in Category : Recorded(k, categories, k \in categoryExists)

============================================================================
