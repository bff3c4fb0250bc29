------------------------ MODULE NFTMarketplaceProofs ------------------------
(***************************************************************************)
(* Invariants of the marketplace for every number of users, collections,   *)
(* tokens and amounts; that the contracts implement TokenEscrow; and the   *)
(* marketplace's books: items, bids, the index of listings and the ether.  *)
(***************************************************************************)
EXTENDS MarketEscrow, MarketLedger, DataTheorems

----------------------------------------------------------------------------
(* The inductive invariants *)

\* What makes EscrowCustody inductive: nobody holds an approval for a token the
\* marketplace has (every transfer clears it, and only users approve), and a
\* fresh token id belongs to nobody (mint moves no token that exists).
NoApprovalInEscrow ==
  \A n \in NFT : owners[n] = Market => tokenApprovals[n] = NoAddr

FreshIdsUnowned ==
  \A n \in NFT : owners[n] # NoAddr => n[2] <= tokenIds[n[1]]

CustodyInv == EscrowCustody /\ NoApprovalInEscrow /\ FreshIdsUnowned

\* What Solvent rests on, with NothingPaidOut and BidderNotOvercredited: only a
\* bidder makes a highest bid.
UnbidIsZero ==
  \A n \in NFT : collectionToMarketItems[n].highestBidder = NoAddr
                  => collectionToMarketItems[n].highestBid = 0

\* What BidsLostOnlyByRelisting rests on, with custody: bids stand in auctions.
BidIsAuction ==
  \A n \in NFT : collectionToMarketItems[n].highestBidder # NoAddr
                  => collectionToMarketItems[n].isAuction

\* A token is a pair of a collection and an id of it.
LEMMA TokenParts ==
  ASSUME NEW n \in NFT
  PROVE  n[1] \in Collections /\ n[2] \in TokenId /\ n = <<n[1], n[2]>>
BY DEF NFT

\* The initial state has the declared types.
LEMMA TypeInit == Init => TypeOK
<1> SUFFICES ASSUME Init PROVE TypeOK
  OBVIOUS
<1>1. CollectionTypeOK
  BY AddressAssumption DEF Init, CollectionInit, CollectionTypeOK, Address
<1>2. RegistryTypeOK
  <2>1. categories \in Seq(Category)
    BY DEF Init, RegistryInit, InitialCategories, Category, InitialCategorySet
  <2>2. NoCollection \in CollectionRecord
    BY DEF NoCollection, CollectionRecord
  <2> QED BY <2>1, <2>2 DEF Init, RegistryInit, RegistryTypeOK, Category
<1>3. MarketTypeOK
  <2>1. NoItem \in MarketItem
    BY MarketAssumption DEF NoItem, MarketItem, UInt
  <2> QED BY <2>1, MarketAssumption DEF Init, MarketTypeOK
<1> QED BY <1>1, <1>2, <1>3 DEF TypeOK

\* ERC721.transferFrom keeps the types of the two books it writes.
LEMMA TransferType ==
  ASSUME CollectionTypeOK, NEW n \in NFT, NEW to \in Address, NEW spender, NEW from,
         erc721TransferFrom(spender, from, to, n)
  PROVE  /\ owners' \in [NFT -> Address \cup {NoAddr}]
         /\ tokenApprovals' \in [NFT -> Address \cup {NoAddr}]
BY DEF CollectionTypeOK, erc721TransferFrom

\* So does a payment into the contract.
LEMMA DepositType ==
  ASSUME MarketTypeOK, NEW sender \in Users, NEW value \in Nat, deposit(sender, value)
  PROVE  wallet' \in [Users -> Nat] /\ balance' \in Nat
BY DEF MarketTypeOK, deposit

\* So does the update of the copied supply.
LEMMA SupplyType ==
  ASSUME RegistryTypeOK, NEW c \in Collections, tokenIds'[c] \in Nat,
         updateCollectionTotalSupply(c)
  PROVE  RegistryTypeOK'
<1>1. collections' \in [Collections -> CollectionRecord]
  BY DEF RegistryTypeOK, updateCollectionTotalSupply, CollectionRecord
<1> QED BY <1>1 DEF RegistryTypeOK, updateCollectionTotalSupply

\* The steps of mint before the receiver is called.
LEMMA MintTokenType ==
  ASSUME CollectionTypeOK, NEW sender \in Users, NEW c \in Collections, NEW to \in Users,
         mintToken(sender, c, to)
  PROVE  /\ deployed' \subseteq Collections
         /\ contractOwner' \in [Ownables -> Users \cup {NoAddr}]
         /\ tokenIds' \in [Collections -> 0..MaxTokens]
         /\ owners' \in [NFT -> Address \cup {NoAddr}]
         /\ tokenApprovals' \in [NFT -> Address \cup {NoAddr}]
         /\ operatorApprovals' \subseteq Collections \X Users \X Address
         /\ <<c, tokenIds[c] + 1>> \in NFT
BY AddressAssumption DEF CollectionTypeOK, mintToken, Address, NFT, TokenId

----------------------------------------------------------------------------
(* Types: one lemma per kind of step *)

\* The calls that touch only the collections and the registry.
LEMMA CollectionStepType ==
  ASSUME TypeOK, CollectionStep
  PROVE  TypeOK'
<1> USE DEF TypeOK
<1>u. PICK u \in Users :
        \/ \E k \in NewCategories : addCategory(u, k)
        \/ \E c \in Collections, k \in UsedCategories : createCollection(u, c, k)
        \/ \E c \in Collections, to \in Users, uri \in URIs :
             mint(u, c, to, uri) \/ mintCallReceiver(u, c, to, uri)
        \/ \E n \in NFT, to \in Spenders \cup {NoAddr} : approve(u, to, n)
        \/ \E c \in Collections, op \in Spenders, allowed \in BOOLEAN :
             setApprovalForAll(u, c, op, allowed)
        \/ \E n \in NFT, to \in Recipients : transferFrom(u, to, n)
        \/ \E o \in Ownables, to \in NewOwners : transferOwnership(u, o, to)
  BY DEF CollectionStep, CollectionCall
<1>1. ASSUME NEW k \in NewCategories, addCategory(u, k)
      PROVE  TypeOK'
  <2>1. CollectionTypeOK'
    BY <1>1 DEF addCategory, collectionVars, CollectionTypeOK
  <2>2. RegistryTypeOK'
    BY <1>1 DEF addCategory, registerCategory, RegistryTypeOK, Category
  <2>3. MarketTypeOK'
    BY <1>1 DEF addCategory, marketVars, MarketTypeOK
  <2> QED BY <2>1, <2>2, <2>3
<1>2. ASSUME NEW c \in Collections, NEW k \in UsedCategories, createCollection(u, c, k)
      PROVE  TypeOK'
  <2>1. CollectionTypeOK'
    BY <1>2 DEF createCollection, construct, CollectionTypeOK, Ownables
  <2>2. RegistryTypeOK'
    <3>1. k \in Category
      BY MarketAssumption
    <3>2. registerCollection(u, c, k)
      BY <1>2 DEF createCollection
    <3>3. [category |-> k, owner |-> u, isActive |-> TRUE, totalSupply |-> 0]
            \in CollectionRecord
      BY <3>1 DEF CollectionRecord
    <3>4. collections' \in [Collections -> CollectionRecord]
      BY <3>2, <3>3 DEF registerCollection, RegistryTypeOK
    <3>5. categoryToCollections' \in [Category -> Seq(Collections)]
      BY <3>1, <3>2 DEF registerCollection, RegistryTypeOK
    <3>6. userCreatedCollections' \in [Users -> Seq(Collections)]
      BY <3>2 DEF registerCollection, RegistryTypeOK
    <3> QED BY <3>2, <3>4, <3>5, <3>6 DEF registerCollection, RegistryTypeOK
  <2>3. MarketTypeOK'
    BY <1>2 DEF createCollection, marketVars, MarketTypeOK
  <2> QED BY <2>1, <2>2, <2>3
<1>3. ASSUME NEW c \in Collections, NEW to \in Users, NEW uri \in URIs, mint(u, c, to, uri)
      PROVE  TypeOK'
  <2>0. mintToken(u, c, to)
    BY <1>3 DEF mint
  <2>1. CollectionTypeOK'
    BY <1>3, <2>0, MintTokenType DEF mint, CollectionTypeOK
  <2>2. tokenIds'[c] \in Nat
    BY <2>1, AddressAssumption DEF CollectionTypeOK
  <2>3. RegistryTypeOK'
    BY <1>3, <2>2, SupplyType DEF mint
  <2>4. MarketTypeOK'
    BY <1>3 DEF mint, marketVars, MarketTypeOK
  <2> QED BY <2>1, <2>3, <2>4
<1>4. ASSUME NEW c \in Collections, NEW to \in Users, NEW uri \in URIs,
             mintCallReceiver(u, c, to, uri)
      PROVE  TypeOK'
  <2>0. mintToken(u, c, to)
    BY <1>4 DEF mintCallReceiver
  <2>1. [nft |-> <<c, tokenIds[c] + 1>>, uri |-> uri] \in MintCall
    BY <2>0, MintTokenType DEF MintCall
  <2>2. CollectionTypeOK'
    BY <1>4, <2>0, <2>1, MintTokenType DEF mintCallReceiver, CollectionTypeOK
  <2>3. RegistryTypeOK'
    BY <1>4 DEF mintCallReceiver, registryVars, RegistryTypeOK
  <2>4. MarketTypeOK'
    BY <1>4 DEF mintCallReceiver, marketVars, MarketTypeOK
  <2> QED BY <2>2, <2>3, <2>4
<1>5. ASSUME NEW n \in NFT, NEW to \in Spenders \cup {NoAddr}, approve(u, to, n)
      PROVE  TypeOK'
  <2>1. CollectionTypeOK'
    BY <1>5, MarketAssumption DEF approve, erc721Approve, CollectionTypeOK
  <2>2. RegistryTypeOK'
    BY <1>5 DEF approve, registryVars, RegistryTypeOK
  <2>3. MarketTypeOK'
    BY <1>5 DEF approve, marketVars, MarketTypeOK
  <2> QED BY <2>1, <2>2, <2>3
<1>6. ASSUME NEW c \in Collections, NEW op \in Spenders, NEW allowed \in BOOLEAN,
             setApprovalForAll(u, c, op, allowed)
      PROVE  TypeOK'
  <2>1. CollectionTypeOK'
    BY <1>6, MarketAssumption
       DEF setApprovalForAll, erc721SetApprovalForAll, CollectionTypeOK
  <2>2. RegistryTypeOK'
    BY <1>6 DEF setApprovalForAll, registryVars, RegistryTypeOK
  <2>3. MarketTypeOK'
    BY <1>6 DEF setApprovalForAll, marketVars, MarketTypeOK
  <2> QED BY <2>1, <2>2, <2>3
<1>7. ASSUME NEW n \in NFT, NEW to \in Recipients, transferFrom(u, to, n)
      PROVE  TypeOK'
  <2>1. CollectionTypeOK'
    BY <1>7, TransferType, MarketAssumption DEF transferFrom, CollectionTypeOK
  <2>2. RegistryTypeOK'
    BY <1>7 DEF transferFrom, registryVars, RegistryTypeOK
  <2>3. MarketTypeOK'
    BY <1>7 DEF transferFrom, marketVars, MarketTypeOK
  <2> QED BY <2>1, <2>2, <2>3
<1>8. ASSUME NEW o \in Ownables, NEW to \in NewOwners, transferOwnership(u, o, to)
      PROVE  TypeOK'
  <2>1. CollectionTypeOK'
    BY <1>8, MarketAssumption
       DEF transferOwnership, ownableTransferOwnership, CollectionTypeOK
  <2>2. RegistryTypeOK'
    BY <1>8 DEF transferOwnership, registryVars, RegistryTypeOK
  <2>3. MarketTypeOK'
    BY <1>8 DEF transferOwnership, marketVars, MarketTypeOK
  <2> QED BY <2>1, <2>2, <2>3
<1> QED BY <1>u, <1>1, <1>2, <1>3, <1>4, <1>5, <1>6, <1>7, <1>8, Zenon

\* The calls of the market's own functions.
LEMMA MarketStepType ==
  ASSUME TypeOK, MarketStep
  PROVE  TypeOK'
<1> USE DEF TypeOK
<1>u. PICK u \in Users, n \in NFT :
        \/ \E p \in Values : createMarketItem(u, n, p)
        \/ createMarketSale(u, n)
        \/ \E p \in Values, d \in Durations : createAuction(u, n, p, d)
        \/ \E v \in Values : placeBid(u, n, v)
        \/ \E v \in Values : makeOffer(u, n, v)
  BY DEF MarketStep, MarketCall
<1>1. ASSUME NEW p \in Values, createMarketItem(u, n, p)
      PROVE  TypeOK'
  <2>0. p \in UInt /\ ListingFee \in Nat /\ 0 \in UInt
    BY MarketAssumption DEF UInt
  <2>1. CollectionTypeOK'
    BY <1>1, TransferType, MarketAssumption DEF createMarketItem, CollectionTypeOK, Address
  <2>2. RegistryTypeOK'
    BY <1>1 DEF createMarketItem, registryVars, RegistryTypeOK
  <2>3. collectionToMarketItems' \in [NFT -> MarketItem]
    <3>1. [seller |-> u, owner |-> NoAddr, price |-> p, isOnSale |-> TRUE,
           auctionEndTime |-> 0, highestBidder |-> NoAddr, highestBid |-> 0,
           isAuction |-> FALSE, tokenURI |-> tokenURI(n)] \in MarketItem
      BY <2>0 DEF MarketItem, tokenURI, CollectionTypeOK
    <3> QED BY <1>1, <3>1 DEF createMarketItem, listed, MarketTypeOK
  <2>4. collectionTokenIds' \in [Collections -> Seq(TokenId)]
    BY <1>1, TokenParts DEF createMarketItem, pushTokenId, MarketTypeOK
  <2>5. wallet' \in [Users -> Nat] /\ balance' \in Nat
    BY <1>1, <2>0, DepositType DEF createMarketItem
  <2>6. MarketTypeOK'
    BY <1>1, <2>3, <2>4, <2>5 DEF createMarketItem, MarketTypeOK
  <2> QED BY <2>1, <2>2, <2>6
<1>2. ASSUME createMarketSale(u, n)
      PROVE  TypeOK'
  <2> DEFINE item == collectionToMarketItems[n]
  <2>0. item \in MarketItem /\ item.price \in Nat /\ item.seller \in Users
    BY <1>2, MarketAssumption DEF MarketTypeOK, MarketItem, UInt, createMarketSale, paySeller
  <2>1. CollectionTypeOK'
    BY <1>2, TransferType DEF createMarketSale, CollectionTypeOK, Address
  <2>2. RegistryTypeOK'
    BY <1>2 DEF createMarketSale, registryVars, RegistryTypeOK
  <2>3. collectionToMarketItems' \in [NFT -> MarketItem]
    BY <1>2, <2>0 DEF createMarketSale, sold, MarketTypeOK, MarketItem
  <2>4. wallet' \in [Users -> Nat]
    <3> DEFINE paid == [wallet EXCEPT ![u] = @ - item.price]
    <3>0. wallet \in [Users -> Nat] /\ wallet[u] >= item.price
      BY <1>2 DEF createMarketSale, paySeller, MarketTypeOK
    <3>1. paid \in [Users -> Nat]
      BY <2>0, <3>0
    <3>2. wallet' = [paid EXCEPT ![item.seller] = @ + item.price]
      BY <1>2 DEF createMarketSale, paySeller
    <3> HIDE DEF paid
    <3> QED BY <2>0, <3>1, <3>2
  <2>5. /\ userPurchases' \in [Users -> SUBSET NFT]
        /\ userPurchaseCount' \in [Users -> Nat]
    BY <1>2 DEF createMarketSale, MarketTypeOK
  <2>6. MarketTypeOK'
    BY <1>2, <2>3, <2>4, <2>5 DEF createMarketSale, MarketTypeOK
  <2> QED BY <2>1, <2>2, <2>6
<1>3. ASSUME NEW p \in Values, NEW d \in Durations, createAuction(u, n, p, d)
      PROVE  TypeOK'
  <2>0. p \in UInt /\ now + d \in UInt
    BY <1>3, MarketAssumption DEF createAuction, noOverflow, MarketTypeOK, UInt
  <2>1. CollectionTypeOK'
    BY <1>3 DEF createAuction, collectionVars, CollectionTypeOK
  <2>2. RegistryTypeOK'
    BY <1>3 DEF createAuction, registryVars, RegistryTypeOK
  <2>3. collectionToMarketItems' \in [NFT -> MarketItem]
    <3>1. collectionToMarketItems[n] \in MarketItem
      BY DEF MarketTypeOK
    <3>2. [collectionToMarketItems[n] EXCEPT !.isAuction = TRUE, !.price = p,
                                             !.auctionEndTime = now + d] \in MarketItem
      BY <2>0, <3>1 DEF MarketItem
    <3>3. collectionToMarketItems' =
            [collectionToMarketItems EXCEPT ![n] =
               [collectionToMarketItems[n] EXCEPT !.isAuction = TRUE, !.price = p,
                                                  !.auctionEndTime = now + d]]
      BY <1>3 DEF createAuction, auctioned, MarketTypeOK
    <3> QED BY <3>2, <3>3 DEF MarketTypeOK
  <2>4. MarketTypeOK'
    BY <1>3, <2>3 DEF createAuction, MarketTypeOK
  <2> QED BY <2>1, <2>2, <2>4
<1>4. ASSUME NEW v \in Values, placeBid(u, n, v)
      PROVE  TypeOK'
  <2> DEFINE item == collectionToMarketItems[n]
  <2>0. v \in UInt /\ v \in Nat /\ item \in MarketItem /\ item.highestBid \in Nat
    BY MarketAssumption DEF UInt, MarketTypeOK, MarketItem
  <2>1. CollectionTypeOK'
    BY <1>4 DEF placeBid, collectionVars, CollectionTypeOK
  <2>2. RegistryTypeOK'
    BY <1>4 DEF placeBid, registryVars, RegistryTypeOK
  <2>3. collectionToMarketItems' \in [NFT -> MarketItem]
    BY <1>4, <2>0 DEF placeBid, outbid, MarketTypeOK, MarketItem
  <2>4. pendingReturns' \in [NFT -> [Users -> Nat]]
    <3>1. creditOutbid(n)
      BY <1>4 DEF placeBid
    <3>2. CASE item.highestBidder = NoAddr
      BY <3>1, <3>2 DEF creditOutbid, MarketTypeOK
    <3>3. CASE item.highestBidder \in Users
      <4>0. pendingReturns \in [NFT -> [Users -> Nat]]
        BY DEF MarketTypeOK
      <4>1. CASE item.highestBidder = NoAddr
        BY <3>2, <4>1
      <4>2. CASE item.highestBidder # NoAddr
        <5> DEFINE b == item.highestBidder
                   sum == pendingReturns[n][b] + item.highestBid
        <5>1. sum \in Nat
          BY <2>0, <3>3, <4>0
        <5>2. pendingReturns' = [pendingReturns EXCEPT ![n] = [@ EXCEPT ![b] = sum]]
          BY <3>1, <4>2 DEF creditOutbid
        <5> HIDE DEF sum, b
        <5> QED BY <4>0, <5>1, <5>2
      <4> QED BY <4>1, <4>2
    <3> QED BY <2>0, <3>2, <3>3 DEF MarketItem
  <2>5. wallet' \in [Users -> Nat] /\ balance' \in Nat
    BY <1>4, <2>0, DepositType DEF placeBid
  <2>6. bidsPaid' \in [NFT -> [Users -> Nat]]
    BY <1>4, <2>0 DEF placeBid, MarketTypeOK
  <2>7. MarketTypeOK'
    BY <1>4, <2>3, <2>4, <2>5, <2>6 DEF placeBid, MarketTypeOK
  <2> QED BY <2>1, <2>2, <2>7
<1>5. ASSUME NEW v \in Values, makeOffer(u, n, v)
      PROVE  TypeOK'
  <2>0. v \in UInt /\ v \in Nat
    BY MarketAssumption DEF UInt
  <2>1. CollectionTypeOK'
    BY <1>5 DEF makeOffer, collectionVars, CollectionTypeOK
  <2>2. RegistryTypeOK'
    BY <1>5 DEF makeOffer, registryVars, RegistryTypeOK
  <2>3. itemOffers' \in [NFT -> Seq(Offer)]
    <3>1. [buyer |-> u, price |-> v, timestamp |-> now] \in Offer
      BY <2>0 DEF Offer, MarketTypeOK
    <3> QED BY <1>5, <3>1 DEF makeOffer, MarketTypeOK
  <2>4. wallet' \in [Users -> Nat] /\ balance' \in Nat
    BY <1>5, <2>0, DepositType DEF makeOffer
  <2>5. MarketTypeOK'
    BY <1>5, <2>3, <2>4 DEF makeOffer, MarketTypeOK
  <2> QED BY <2>1, <2>2, <2>5
<1> QED BY <1>u, <1>1, <1>2, <1>3, <1>4, <1>5, Zenon

\* The return from the innermost hook.
LEMMA MintReturnType ==
  ASSUME TypeOK, mintReturn
  PROVE  TypeOK'
<1> USE DEF TypeOK
<1> DEFINE call == minting[Len(minting)]
<1>1. call \in MintCall /\ minting' \in Seq(MintCall)
  BY DEF mintReturn, CollectionTypeOK
<1>2. call.nft \in NFT /\ call.uri \in URIs /\ call.nft[1] \in Collections
  BY <1>1, TokenParts DEF MintCall
<1>3. CollectionTypeOK'
  BY <1>1, <1>2 DEF mintReturn, CollectionTypeOK
<1>4. tokenIds'[call.nft[1]] \in Nat
  BY <1>2, <1>3, AddressAssumption DEF CollectionTypeOK
<1>5. RegistryTypeOK'
  BY <1>2, <1>4, SupplyType DEF mintReturn
<1>6. MarketTypeOK'
  BY DEF mintReturn, marketVars, MarketTypeOK
<1> QED BY <1>3, <1>5, <1>6

\* Every step keeps the types.
LEMMA TypeStep ==
  ASSUME TypeOK, [Next]_vars
  PROVE  TypeOK'
<1>1. CASE tick
  BY <1>1, MarketAssumption DEF tick, TypeOK, collectionVars, registryVars, marketVars,
       CollectionTypeOK, RegistryTypeOK, MarketTypeOK
<1>2. CASE UNCHANGED vars
  BY <1>2 DEF vars, TypeOK, collectionVars, registryVars, marketVars,
       CollectionTypeOK, RegistryTypeOK, MarketTypeOK
<1> QED BY <1>1, <1>2, CollectionStepType, MarketStepType, MintReturnType DEF Next

\* Every variable of the marketplace keeps its declared type, end times of
\* auctions within uint256 included.
THEOREM TypeCorrect == Spec => []TypeOK
<1>1. TypeOK /\ [Next]_vars => TypeOK'
  BY TypeStep
<1> QED BY <1>1, TypeInit, PTL DEF Spec

----------------------------------------------------------------------------
(* Custody *)

\* No user may move a token that the marketplace holds.
LEMMA EscrowAuthority ==
  ASSUME TypeOK, CustodyInv, NEW n \in NFT, owners[n] = Market, NEW u \in Users
  PROVE  ~isAuthorized(Market, u, n)
<1>1. Market # u /\ tokenApprovals[n] # u
  BY AddressAssumption DEF CustodyInv, NoApprovalInEscrow
<1>2. <<n[1], Market, u>> \notin operatorApprovals
  BY AddressAssumption DEF TypeOK, CollectionTypeOK
<1> QED BY <1>1, <1>2 DEF isAuthorized

\* Steps that touch none of the four books custody is about.
LEMMA CustodyFrame ==
  ASSUME CustodyInv,
         UNCHANGED <<owners, tokenApprovals, tokenIds, collectionToMarketItems>>
  PROVE  CustodyInv'
BY DEF CustodyInv, EscrowCustody, NoApprovalInEscrow, FreshIdsUnowned

\* A mint gives an id to a user that nobody had before.
LEMMA MintTokenCustody ==
  ASSUME TypeOK, CustodyInv, NEW u \in Users, NEW c \in Collections, NEW to \in Users,
         mintToken(u, c, to), UNCHANGED collectionToMarketItems
  PROVE  CustodyInv'
<1> DEFINE new == <<c, tokenIds[c] + 1>>
<1>1. new \in NFT /\ tokenIds[c] \in Nat /\ new[1] = c /\ new[2] = tokenIds[c] + 1
  BY MintTokenType, AddressAssumption DEF TypeOK, CollectionTypeOK
<1>2. owners[new] = NoAddr
  BY <1>1 DEF CustodyInv, FreshIdsUnowned
<1>3. owners' = [owners EXCEPT ![new] = to]
  BY DEF mintToken
<1>4. EscrowCustody'
  BY <1>1, <1>2, <1>3, AddressAssumption
     DEF CustodyInv, EscrowCustody, TypeOK, CollectionTypeOK
<1>5. NoApprovalInEscrow'
  BY <1>1, <1>3, AddressAssumption
     DEF CustodyInv, NoApprovalInEscrow, TypeOK, CollectionTypeOK, mintToken
<1>6. FreshIdsUnowned'
  <2> SUFFICES ASSUME NEW n \in NFT, owners'[n] # NoAddr
               PROVE  n[2] <= tokenIds'[n[1]]
    BY DEF FreshIdsUnowned
  <2>1. n[1] \in Collections /\ n[2] \in Nat /\ tokenIds[n[1]] \in Nat
    BY TokenParts, AddressAssumption DEF TokenId, TypeOK, CollectionTypeOK
  <2>2. tokenIds' = [tokenIds EXCEPT ![c] = @ + 1] /\ tokenIds \in [Collections -> 0..MaxTokens]
    BY DEF mintToken, TypeOK, CollectionTypeOK
  <2>3. CASE n = new
    BY <1>1, <2>2, <2>3
  <2>4. CASE n # new
    <3>1. owners[n] # NoAddr
      BY <1>3, <2>4 DEF TypeOK, CollectionTypeOK
    <3>2. n[2] <= tokenIds[n[1]]
      BY <3>1 DEF CustodyInv, FreshIdsUnowned
    <3> QED BY <2>1, <2>2, <3>2
  <2> QED BY <2>3, <2>4
<1> QED BY <1>4, <1>5, <1>6 DEF CustodyInv

\* A transfer that leaves a token with its market item still in custody.
LEMMA TransferCustody ==
  ASSUME TypeOK, CustodyInv, NEW n \in NFT, NEW spender, NEW from, NEW to \in Address,
         erc721TransferFrom(spender, from, to, n), UNCHANGED tokenIds,
         collectionToMarketItems'[n].isOnSale => to = Market,
         \A m \in NFT \ {n} :
            collectionToMarketItems'[m].isOnSale = collectionToMarketItems[m].isOnSale
  PROVE  CustodyInv'
<1>1. /\ owners' = [owners EXCEPT ![n] = to]
      /\ tokenApprovals' = [tokenApprovals EXCEPT ![n] = NoAddr]
      /\ owners[n] # NoAddr
  BY DEF erc721TransferFrom
<1>2. EscrowCustody'
  BY <1>1 DEF CustodyInv, EscrowCustody, TypeOK, CollectionTypeOK
<1>3. NoApprovalInEscrow'
  BY <1>1 DEF CustodyInv, NoApprovalInEscrow, TypeOK, CollectionTypeOK
<1>4. FreshIdsUnowned'
  BY <1>1 DEF CustodyInv, FreshIdsUnowned, TypeOK, CollectionTypeOK
<1> QED BY <1>2, <1>3, <1>4 DEF CustodyInv

\* Every step keeps custody; one case per action.
LEMMA CustodyStep ==
  ASSUME TypeOK, CustodyInv, [Next]_vars
  PROVE  CustodyInv'
<1>1. ASSUME NEW u \in Users, NEW k \in NewCategories, addCategory(u, k)
      PROVE  CustodyInv'
  BY <1>1, CustodyFrame DEF addCategory, collectionVars, marketVars
<1>2. ASSUME NEW u \in Users, NEW c \in Collections, NEW k \in UsedCategories,
             createCollection(u, c, k)
      PROVE  CustodyInv'
  BY <1>2, CustodyFrame DEF createCollection, construct, marketVars
<1>3. ASSUME NEW u \in Users, NEW c \in Collections, NEW to \in Users, NEW uri \in URIs,
             mint(u, c, to, uri) \/ mintCallReceiver(u, c, to, uri)
      PROVE  CustodyInv'
  BY <1>3, MintTokenCustody DEF mint, mintCallReceiver, marketVars
<1>4. ASSUME NEW u \in Users, NEW n \in NFT, NEW to \in Spenders \cup {NoAddr},
             approve(u, to, n)
      PROVE  CustodyInv'
  <2>1. /\ UNCHANGED <<owners, tokenIds, collectionToMarketItems>>
        /\ tokenApprovals' = [tokenApprovals EXCEPT ![n] = to]
    BY <1>4 DEF approve, erc721Approve, marketVars
  <2>2. owners[n] # Market
    <3> SUFFICES ASSUME owners[n] = Market PROVE FALSE
      OBVIOUS
    <3>1. owners[n] = u \/ <<n[1], owners[n], u>> \in operatorApprovals
      BY <1>4 DEF approve, erc721Approve
    <3> QED BY <3>1, EscrowAuthority DEF isAuthorized
  <2> QED BY <2>1, <2>2 DEF CustodyInv, EscrowCustody, NoApprovalInEscrow,
            FreshIdsUnowned, TypeOK, CollectionTypeOK
<1>5. ASSUME NEW u \in Users, NEW c \in Collections, NEW op \in Spenders,
             NEW allowed \in BOOLEAN, setApprovalForAll(u, c, op, allowed)
      PROVE  CustodyInv'
  BY <1>5, CustodyFrame DEF setApprovalForAll, erc721SetApprovalForAll, marketVars
<1>6. ASSUME NEW u \in Users, NEW n \in NFT, NEW to \in Recipients, transferFrom(u, to, n)
      PROVE  CustodyInv'
  <2>1. /\ erc721TransferFrom(u, owners[n], to, n)
        /\ UNCHANGED <<tokenIds, collectionToMarketItems>>
    BY <1>6 DEF transferFrom, marketVars
  <2>2. owners[n] # Market
    BY <2>1, EscrowAuthority DEF erc721TransferFrom
  <2>3. ~collectionToMarketItems'[n].isOnSale
    BY <2>1, <2>2 DEF CustodyInv, EscrowCustody
  <2> QED BY <2>1, <2>3, TransferCustody, MarketAssumption
<1>7. ASSUME NEW u \in Users, NEW o \in Ownables, NEW to \in NewOwners,
             transferOwnership(u, o, to)
      PROVE  CustodyInv'
  BY <1>7, CustodyFrame DEF transferOwnership, ownableTransferOwnership, marketVars
<1>8. ASSUME NEW u \in Users, NEW n \in NFT, NEW p \in Values, createMarketItem(u, n, p)
      PROVE  CustodyInv'
  <2>1. erc721TransferFrom(Market, u, Market, n) /\ UNCHANGED tokenIds
    BY <1>8 DEF createMarketItem
  <2>2. \A m \in NFT \ {n} : collectionToMarketItems'[m] = collectionToMarketItems[m]
    BY <1>8 DEF createMarketItem, TypeOK, MarketTypeOK
  <2> QED BY <2>1, <2>2, TransferCustody DEF Address
<1>9. ASSUME NEW u \in Users, NEW n \in NFT, createMarketSale(u, n)
      PROVE  CustodyInv'
  <2>1. erc721TransferFrom(Market, Market, u, n) /\ UNCHANGED tokenIds
    BY <1>9 DEF createMarketSale
  <2>2. /\ ~collectionToMarketItems'[n].isOnSale
        /\ \A m \in NFT \ {n} : collectionToMarketItems'[m] = collectionToMarketItems[m]
    BY <1>9 DEF createMarketSale, sold, TypeOK, MarketTypeOK, MarketItem
  <2> QED BY <2>1, <2>2, TransferCustody DEF Address
<1>10. ASSUME NEW u \in Users, NEW n \in NFT, NEW p \in Values, NEW d \in Durations,
              createAuction(u, n, p, d)
       PROVE  CustodyInv'
  <2>1. UNCHANGED <<owners, tokenApprovals, tokenIds>>
    BY <1>10 DEF createAuction, collectionVars
  <2>2. \A m \in NFT : collectionToMarketItems'[m].isOnSale = collectionToMarketItems[m].isOnSale
    BY <1>10 DEF createAuction, auctioned, TypeOK, MarketTypeOK, MarketItem
  <2> QED BY <2>1, <2>2 DEF CustodyInv, EscrowCustody, NoApprovalInEscrow, FreshIdsUnowned
<1>11. ASSUME NEW u \in Users, NEW n \in NFT, NEW v \in Values, placeBid(u, n, v)
       PROVE  CustodyInv'
  <2>1. UNCHANGED <<owners, tokenApprovals, tokenIds>>
    BY <1>11 DEF placeBid, collectionVars
  <2>2. \A m \in NFT : collectionToMarketItems'[m].isOnSale = collectionToMarketItems[m].isOnSale
    BY <1>11 DEF placeBid, outbid, TypeOK, MarketTypeOK, MarketItem
  <2> QED BY <2>1, <2>2 DEF CustodyInv, EscrowCustody, NoApprovalInEscrow, FreshIdsUnowned
<1>12. ASSUME NEW u \in Users, NEW n \in NFT, NEW v \in Values, makeOffer(u, n, v)
       PROVE  CustodyInv'
  BY <1>12, CustodyFrame DEF makeOffer, collectionVars
<1>13. CASE mintReturn
  BY <1>13, CustodyFrame DEF mintReturn, marketVars
<1>14. CASE tick
  BY <1>14, CustodyFrame DEF tick, collectionVars, marketVars
<1>15. CASE UNCHANGED vars
  BY <1>15, CustodyFrame DEF vars, collectionVars, marketVars
<1>16. CollectionStep => CustodyInv'
  BY <1>1, <1>2, <1>3, <1>4, <1>5, <1>6, <1>7, Zenon DEF CollectionStep, CollectionCall
<1>17. MarketStep => CustodyInv'
  BY <1>8, <1>9, <1>10, <1>11, <1>12, Zenon DEF MarketStep, MarketCall
<1> QED BY <1>13, <1>14, <1>15, <1>16, <1>17 DEF Next

\* Types and custody together are inductive.
THEOREM CustodyInvariance == Spec => [](TypeOK /\ CustodyInv)
<1>1. Init => CustodyInv
  BY AddressAssumption DEF Init, CollectionInit, CustodyInv, EscrowCustody,
     NoApprovalInEscrow, FreshIdsUnowned, NoItem
<1>2. TypeOK /\ CustodyInv /\ [Next]_vars => (TypeOK /\ CustodyInv)'
  BY TypeStep, CustodyStep
<1> QED BY <1>1, <1>2, TypeInit, PTL DEF Spec

\* Every item offered for sale is held by the marketplace, whatever the users
\* approve, transfer, mint or call from inside a receiver's hook.
THEOREM EscrowCustodyAlways == Spec => []EscrowCustody
<1>1. CustodyInv => EscrowCustody
  BY DEF CustodyInv
<1> QED BY <1>1, CustodyInvariance, PTL

----------------------------------------------------------------------------
(* What a step may do to a token in custody *)

\* A token leaves the marketplace only in a sale of that token.
LEMMA OnlySaleReleases ==
  ASSUME TypeOK, CustodyInv, [Next]_vars, NEW n \in NFT, owners[n] = Market
  PROVE  owners'[n] = Market \/ \E u \in Users : createMarketSale(u, n)
<1> DEFINE Goal == owners'[n] = Market \/ \E u \in Users : createMarketSale(u, n)
<1>1. ASSUME UNCHANGED owners PROVE Goal
  BY <1>1
<1>2. ASSUME NEW u \in Users, NEW c \in Collections, NEW to \in Users, mintToken(u, c, to)
      PROVE  Goal
  <2>1. <<c, tokenIds[c] + 1>> \in NFT /\ tokenIds[c] \in Nat
    BY <1>2, MintTokenType, AddressAssumption DEF TypeOK, CollectionTypeOK
  <2>2. owners[<<c, tokenIds[c] + 1>>] = NoAddr
    BY <2>1 DEF CustodyInv, FreshIdsUnowned
  <2>3. owners' = [owners EXCEPT ![<<c, tokenIds[c] + 1>>] = to]
    BY <1>2 DEF mintToken
  <2> QED BY <2>1, <2>2, <2>3, AddressAssumption DEF TypeOK, CollectionTypeOK
<1>3. ASSUME NEW u \in Users, NEW m \in NFT, NEW to \in Recipients, transferFrom(u, to, m)
      PROVE  Goal
  <2>1. owners[m] # Market
    BY <1>3, EscrowAuthority DEF transferFrom, erc721TransferFrom
  <2> QED BY <1>3, <2>1 DEF transferFrom, erc721TransferFrom, TypeOK, CollectionTypeOK
<1>4. ASSUME NEW u \in Users, NEW m \in NFT, NEW p \in Values, createMarketItem(u, m, p)
      PROVE  Goal
  BY <1>4 DEF createMarketItem, erc721TransferFrom, TypeOK, CollectionTypeOK
<1>5. ASSUME NEW u \in Users, NEW m \in NFT, createMarketSale(u, m)
      PROVE  Goal
  <2>1. CASE m = n
    BY <1>5, <2>1
  <2>2. CASE m # n
    BY <1>5, <2>2 DEF createMarketSale, erc721TransferFrom, TypeOK, CollectionTypeOK
  <2> QED BY <2>1, <2>2
<1> HIDE DEF Goal
<1>6. CollectionStep => Goal
  <2>1. ASSUME NEW u \in Users, NEW k \in NewCategories, addCategory(u, k) PROVE Goal
    BY <1>1, <2>1 DEF addCategory, collectionVars
  <2>2. ASSUME NEW u \in Users, NEW c \in Collections, NEW k \in UsedCategories,
               createCollection(u, c, k)
        PROVE  Goal
    BY <1>1, <2>2 DEF createCollection, construct
  <2>3. ASSUME NEW u \in Users, NEW c \in Collections, NEW to \in Users, NEW uri \in URIs,
               mint(u, c, to, uri) \/ mintCallReceiver(u, c, to, uri)
        PROVE  Goal
    BY <1>2, <2>3 DEF mint, mintCallReceiver
  <2>4. ASSUME NEW u \in Users, NEW m \in NFT, NEW to \in Spenders \cup {NoAddr},
               approve(u, to, m)
        PROVE  Goal
    BY <1>1, <2>4 DEF approve, erc721Approve
  <2>5. ASSUME NEW u \in Users, NEW c \in Collections, NEW op \in Spenders,
               NEW allowed \in BOOLEAN, setApprovalForAll(u, c, op, allowed)
        PROVE  Goal
    BY <1>1, <2>5 DEF setApprovalForAll, erc721SetApprovalForAll
  <2>6. ASSUME NEW u \in Users, NEW o \in Ownables, NEW to \in NewOwners,
               transferOwnership(u, o, to)
        PROVE  Goal
    BY <1>1, <2>6 DEF transferOwnership, ownableTransferOwnership
  <2> QED BY <2>1, <2>2, <2>3, <2>4, <2>5, <2>6, <1>3, Zenon DEF CollectionStep, CollectionCall
<1>7. MarketStep => Goal
  <2>1. ASSUME NEW u \in Users, NEW m \in NFT, NEW p \in Values, NEW d \in Durations,
               createAuction(u, m, p, d)
        PROVE  Goal
    BY <1>1, <2>1 DEF createAuction, collectionVars
  <2>2. ASSUME NEW u \in Users, NEW m \in NFT, NEW v \in Values,
               placeBid(u, m, v) \/ makeOffer(u, m, v)
        PROVE  Goal
    BY <1>1, <2>2 DEF placeBid, makeOffer, collectionVars
  <2> QED BY <2>1, <2>2, <1>4, <1>5, Zenon DEF MarketStep, MarketCall
<1>8. mintReturn \/ tick \/ UNCHANGED vars => Goal
  BY <1>1 DEF mintReturn, tick, vars, collectionVars
<1> QED BY <1>6, <1>7, <1>8 DEF Next, Goal

\* The step property of AtomicSwap for one token.
LEMMA SwapStep ==
  ASSUME TypeOK, CustodyInv, [Next]_vars, NEW n \in NFT,
         owners[n] = Market, owners'[n] # Market
  PROVE  LET item == collectionToMarketItems[n]
             buyer == owners'[n]
         IN /\ item.isOnSale
            /\ ~item.isAuction
            /\ buyer \in Users
            /\ collectionToMarketItems'[n].owner = buyer
            /\ buyer # item.seller =>
                 /\ wallet'[buyer] = wallet[buyer] - item.price
                 /\ wallet'[item.seller] = wallet[item.seller] + item.price
<1> DEFINE item == collectionToMarketItems[n]
<1>1. PICK u \in Users : createMarketSale(u, n)
  BY OnlySaleReleases
<1>2. owners'[n] = u
  BY <1>1 DEF createMarketSale, erc721TransferFrom, TypeOK, CollectionTypeOK
<1>3. item.isOnSale /\ ~item.isAuction /\ item.seller \in Users
  BY <1>1, MarketAssumption DEF createMarketSale, forSale, paySeller
<1>4. collectionToMarketItems'[n].owner = u
  BY <1>1 DEF createMarketSale, sold, TypeOK, MarketTypeOK, MarketItem
<1>5. u # item.seller =>
        /\ wallet'[u] = wallet[u] - item.price
        /\ wallet'[item.seller] = wallet[item.seller] + item.price
  <2>1. wallet' = [[wallet EXCEPT ![u] = @ - item.price]
                     EXCEPT ![item.seller] = @ + item.price]
    BY <1>1 DEF createMarketSale, paySeller
  <2> QED BY <1>3, <2>1 DEF TypeOK, MarketTypeOK
<1> QED BY <1>2, <1>3, <1>4, <1>5

\* A token leaves the marketplace's hands only against the asking price paid to
\* its seller in the same transaction.
THEOREM AtomicSwapAlways == Spec => AtomicSwap
<1>1. ASSUME TypeOK, CustodyInv, [Next]_vars
      PROVE  [\A n \in NFT :
                LET item == collectionToMarketItems[n]
                    buyer == owners'[n]
                IN owners[n] = Market /\ buyer # Market =>
                     /\ item.isOnSale
                     /\ ~item.isAuction
                     /\ buyer \in Users
                     /\ collectionToMarketItems'[n].owner = buyer
                     /\ buyer # item.seller =>
                          /\ wallet'[buyer] = wallet[buyer] - item.price
                          /\ wallet'[item.seller] = wallet[item.seller] + item.price]_vars
  BY <1>1, SwapStep
<1> QED BY <1>1, CustodyInvariance, PTL DEF Spec, AtomicSwap

----------------------------------------------------------------------------
(* The contracts implement TokenEscrow: initial states map to initial states, *)
(* and every step to a step of the escrow or to a stutter.                    *)

AbstractStep == [Abstract!Next]_(Abstract!vars)

\* The four places a token can be in.
LEMMA PlaceCases ==
  ASSUME NEW item
  PROVE  /\ PlaceOf(NoAddr, item) = Abstract!Unminted
         /\ \A u \in Users : PlaceOf(u, item) = Abstract!Held(u)
         /\ ~item.isOnSale => PlaceOf(Market, item) = Abstract!Stranded
         /\ item.isOnSale =>
              PlaceOf(Market, item) = Abstract!Escrow(item.seller, item.price, item.isAuction)
BY AddressAssumption DEF PlaceOf, Abstract!Unminted, Abstract!Held, Abstract!Stranded,
   Abstract!Escrow

\* A step that touches one token moves that token only.
LEMMA PlaceMove ==
  ASSUME NEW n \in NFT,
         \A m \in NFT \ {n} : /\ owners'[m] = owners[m]
                              /\ collectionToMarketItems'[m] = collectionToMarketItems[m]
  PROVE  /\ Abstract!MoveTo(n, PlaceOf(owners'[n], collectionToMarketItems'[n]))
         /\ Places[n] = PlaceOf(owners[n], collectionToMarketItems[n])
<1>1. Places' = [Places EXCEPT ![n] = PlaceOf(owners'[n], collectionToMarketItems'[n])]
  BY DEF Places
<1> QED BY <1>1 DEF Places, Abstract!MoveTo

\* A step that leaves owners, market items and wallets alone is a stutter.
LEMMA PlaceFrame ==
  ASSUME UNCHANGED <<owners, collectionToMarketItems, wallet>>
  PROVE  AbstractStep
BY DEF AbstractStep, Places, Abstract!vars

\* A payment that moves no token is a Spend.
LEMMA PaymentSpends ==
  ASSUME TypeOK, NEW u \in Users, NEW v \in Values, deposit(u, v), Places' = Places
  PROVE  AbstractStep
<1>1. Abstract!Spend(u, v)
  BY DEF deposit, Abstract!Spend, Abstract!Pay
<1>2. v \in UInt
  BY MarketAssumption DEF UInt
<1> QED BY <1>1, <1>2 DEF AbstractStep, Abstract!Next

\* mint gives out a token that was unminted.
LEMMA MintMaps ==
  ASSUME TypeOK, CustodyInv, NEW u \in Users, NEW c \in Collections, NEW to \in Users,
         mintToken(u, c, to), UNCHANGED <<collectionToMarketItems, wallet>>
  PROVE  AbstractStep
<1> DEFINE new == <<c, tokenIds[c] + 1>>
<1>1. new \in NFT /\ tokenIds[c] \in Nat
  BY MintTokenType, AddressAssumption DEF TypeOK, CollectionTypeOK
<1>2. owners[new] = NoAddr
  BY <1>1 DEF CustodyInv, FreshIdsUnowned
<1>3. owners' = [owners EXCEPT ![new] = to]
  BY DEF mintToken
<1> HIDE DEF new
<1>4. owners'[new] = to /\ \A m \in NFT \ {new} : owners'[m] = owners[m]
  BY <1>1, <1>3 DEF TypeOK, CollectionTypeOK
<1>5. Abstract!Mint(new, to)
  BY <1>1, <1>2, <1>4, PlaceMove, PlaceCases DEF Abstract!Mint
<1> QED BY <1>1, <1>5 DEF AbstractStep, Abstract!Next

\* transferFrom past the marketplace moves a token that somebody holds.
LEMMA TransferMaps ==
  ASSUME TypeOK, CustodyInv, NEW u \in Users, NEW n \in NFT, NEW to \in Recipients,
         transferFrom(u, to, n)
  PROVE  AbstractStep
<1> DEFINE from == owners[n]
<1>1. /\ erc721TransferFrom(u, from, to, n)
      /\ UNCHANGED <<collectionToMarketItems, wallet>>
  BY DEF transferFrom, marketVars
<1>2. from # Market
  BY <1>1, EscrowAuthority DEF erc721TransferFrom
<1>3. from \in Users /\ to \in Users \cup {Market}
  BY <1>1, <1>2, MarketAssumption DEF erc721TransferFrom, TypeOK, CollectionTypeOK, Address
<1>4. owners'[n] = to /\ \A m \in NFT \ {n} : owners'[m] = owners[m]
  BY <1>1 DEF erc721TransferFrom, TypeOK, CollectionTypeOK
<1>5. ~collectionToMarketItems[n].isOnSale
  BY <1>2 DEF CustodyInv, EscrowCustody
<1>6. /\ Places[n] = Abstract!Held(from)
      /\ Abstract!MoveTo(n, PlaceOf(to, collectionToMarketItems[n]))
  BY <1>1, <1>3, <1>4, PlaceMove, PlaceCases
<1>7. CASE to \in Users
  <2>1. Abstract!Give(n, from, to)
    BY <1>1, <1>6, <1>7, PlaceCases DEF Abstract!Give
  <2> QED BY <1>3, <1>7, <2>1 DEF AbstractStep, Abstract!Next
<1>8. CASE to = Market
  <2>1. Abstract!Strand(n, from)
    BY <1>1, <1>5, <1>6, <1>8, PlaceCases DEF Abstract!Strand
  <2> QED BY <1>3, <2>1 DEF AbstractStep, Abstract!Next
<1> QED BY <1>3, <1>7, <1>8

\* createMarketItem takes a token from its holder, who pays the fee.
LEMMA ListingMaps ==
  ASSUME TypeOK, CustodyInv, NEW u \in Users, NEW n \in NFT, NEW p \in Values,
         createMarketItem(u, n, p)
  PROVE  AbstractStep
<1>1. /\ owners[n] = u
      /\ owners'[n] = Market
      /\ \A m \in NFT \ {n} : owners'[m] = owners[m]
  BY DEF createMarketItem, erc721TransferFrom, TypeOK, CollectionTypeOK
<1>2. /\ collectionToMarketItems'[n] = listed(u, n, p)
      /\ \A m \in NFT \ {n} : collectionToMarketItems'[m] = collectionToMarketItems[m]
  BY DEF createMarketItem, TypeOK, MarketTypeOK
<1>3. PlaceOf(Market, listed(u, n, p)) = Abstract!Escrow(u, p, FALSE)
  <2> DEFINE item == listed(u, n, p)
  <2>1. item.isOnSale = TRUE /\ item.seller = u /\ item.price = p /\ item.isAuction = FALSE
    BY DEF listed
  <2> HIDE DEF item
  <2>2. PlaceOf(Market, item) = Abstract!Escrow(u, p, FALSE)
    BY <2>1, PlaceCases
  <2> QED BY <2>2 DEF item
<1>4. Abstract!Pay(u, ListingFee)
  BY DEF createMarketItem, deposit, Abstract!Pay
<1>5. Abstract!List(n, u, p)
  BY <1>1, <1>2, <1>3, <1>4, PlaceMove, PlaceCases DEF Abstract!List
<1>6. p \in UInt
  BY MarketAssumption DEF UInt
<1> QED BY <1>5, <1>6 DEF AbstractStep, Abstract!Next

\* createMarketSale moves an unlocked token against its price.
LEMMA SaleMaps ==
  ASSUME TypeOK, CustodyInv, NEW u \in Users, NEW n \in NFT, createMarketSale(u, n)
  PROVE  AbstractStep
<1> DEFINE item == collectionToMarketItems[n]
<1>1. /\ owners[n] = Market
      /\ owners'[n] = u
      /\ \A m \in NFT \ {n} : owners'[m] = owners[m]
  BY DEF createMarketSale, erc721TransferFrom, TypeOK, CollectionTypeOK
<1>2. \A m \in NFT \ {n} : collectionToMarketItems'[m] = collectionToMarketItems[m]
  BY DEF createMarketSale, TypeOK, MarketTypeOK
<1>3. item.isOnSale /\ item.isAuction = FALSE /\ item.seller \in Users /\ item.price \in UInt
  BY MarketAssumption DEF createMarketSale, forSale, paySeller, TypeOK, MarketTypeOK, MarketItem
<1>4. Places[n] = Abstract!Escrow(item.seller, item.price, FALSE)
  BY <1>1, <1>2, <1>3, PlaceMove, PlaceCases
<1>5. /\ wallet[u] >= item.price
      /\ wallet' = [[wallet EXCEPT ![u] = @ - item.price] EXCEPT ![item.seller] = @ + item.price]
  BY DEF createMarketSale, paySeller
<1>6. Abstract!Sell(n, item.seller, u, item.price)
  BY <1>1, <1>2, <1>4, <1>5, PlaceMove, PlaceCases DEF Abstract!Sell
<1> QED BY <1>3, <1>6 DEF AbstractStep, Abstract!Next

\* createAuction locks a token in escrow; of a token that was sold it changes
\* nothing but the stale market item.
LEMMA AuctionMaps ==
  ASSUME TypeOK, CustodyInv, NEW u \in Users, NEW n \in NFT, NEW p \in Values,
         NEW d \in Durations, createAuction(u, n, p, d)
  PROVE  AbstractStep
<1> DEFINE item == collectionToMarketItems[n]
<1>1. /\ UNCHANGED <<owners, wallet>>
      /\ item \in MarketItem
      /\ item.seller = u
      /\ item.isAuction = FALSE
      /\ collectionToMarketItems'[n] = auctioned(item, p, now + d)
      /\ \A m \in NFT \ {n} : collectionToMarketItems'[m] = collectionToMarketItems[m]
  BY DEF createAuction, collectionVars, TypeOK, MarketTypeOK, MarketItem
<1>2. /\ auctioned(item, p, now + d).isOnSale = item.isOnSale
      /\ auctioned(item, p, now + d).seller = u
      /\ auctioned(item, p, now + d).price = p
      /\ auctioned(item, p, now + d).isAuction = TRUE
  BY <1>1 DEF auctioned, MarketItem
<1>3. p \in UInt /\ item.price \in UInt
  BY <1>1, MarketAssumption DEF UInt, MarketItem
<1>4. CASE item.isOnSale
  <2>1. owners[n] = Market
    BY <1>4 DEF CustodyInv, EscrowCustody
  <2>2. Places[n] = Abstract!Escrow(u, item.price, FALSE)
    BY <1>1, <1>4, <2>1, PlaceMove, PlaceCases
  <2>3. PlaceOf(Market, auctioned(item, p, now + d)) = Abstract!Escrow(u, p, TRUE)
    BY <1>2, <1>4, PlaceCases
  <2>4. Abstract!Auction(n, u, item.price, p)
    BY <1>1, <2>1, <2>2, <2>3, PlaceMove DEF Abstract!Auction
  <2> QED BY <1>3, <2>4 DEF AbstractStep, Abstract!Next
<1>5. CASE ~item.isOnSale
  <2>1. PlaceOf(owners[n], auctioned(item, p, now + d)) = PlaceOf(owners[n], item)
    BY <1>2, <1>5 DEF PlaceOf
  <2>2. Places' = Places
    BY <1>1, <2>1 DEF Places
  <2> QED BY <1>1, <2>2 DEF AbstractStep, Abstract!vars
<1> QED BY <1>4, <1>5

\* placeBid changes nothing of an item that its place depends on.
LEMMA BidMaps ==
  ASSUME TypeOK, NEW u \in Users, NEW n \in NFT, NEW v \in Values, placeBid(u, n, v)
  PROVE  AbstractStep
<1> DEFINE item == collectionToMarketItems[n]
<1>1. /\ deposit(u, v)
      /\ UNCHANGED owners
      /\ item \in MarketItem
      /\ collectionToMarketItems'[n] = outbid(item, u, v)
      /\ \A m \in NFT \ {n} : collectionToMarketItems'[m] = collectionToMarketItems[m]
  BY DEF placeBid, collectionVars, TypeOK, MarketTypeOK
<1>2. PlaceOf(owners[n], outbid(item, u, v)) = PlaceOf(owners[n], item)
  BY <1>1 DEF outbid, PlaceOf, MarketItem
<1>3. Places' = Places
  BY <1>1, <1>2 DEF Places
<1> QED BY <1>1, <1>3, PaymentSpends

\* Every step of the contracts is a step of the escrow or a stutter.
LEMMA StepMaps ==
  ASSUME TypeOK, CustodyInv, [Next]_vars
  PROVE  AbstractStep
<1>1. CollectionStep => AbstractStep
  <2>1. ASSUME NEW u \in Users, NEW k \in NewCategories, addCategory(u, k) PROVE AbstractStep
    BY <2>1, PlaceFrame DEF addCategory, collectionVars, marketVars
  <2>2. ASSUME NEW u \in Users, NEW c \in Collections, NEW k \in UsedCategories,
               createCollection(u, c, k)
        PROVE  AbstractStep
    BY <2>2, PlaceFrame DEF createCollection, construct, marketVars
  <2>3. ASSUME NEW u \in Users, NEW c \in Collections, NEW to \in Users, NEW uri \in URIs,
               mint(u, c, to, uri) \/ mintCallReceiver(u, c, to, uri)
        PROVE  AbstractStep
    BY <2>3, MintMaps DEF mint, mintCallReceiver, marketVars
  <2>4. ASSUME NEW u \in Users, NEW n \in NFT, NEW to \in Spenders \cup {NoAddr},
               approve(u, to, n)
        PROVE  AbstractStep
    BY <2>4, PlaceFrame DEF approve, erc721Approve, marketVars
  <2>5. ASSUME NEW u \in Users, NEW c \in Collections, NEW op \in Spenders,
               NEW allowed \in BOOLEAN, setApprovalForAll(u, c, op, allowed)
        PROVE  AbstractStep
    BY <2>5, PlaceFrame DEF setApprovalForAll, erc721SetApprovalForAll, marketVars
  <2>6. ASSUME NEW u \in Users, NEW o \in Ownables, NEW to \in NewOwners,
               transferOwnership(u, o, to)
        PROVE  AbstractStep
    BY <2>6, PlaceFrame DEF transferOwnership, ownableTransferOwnership, marketVars
  <2>7. ASSUME NEW u \in Users, NEW n \in NFT, NEW to \in Recipients, transferFrom(u, to, n)
        PROVE  AbstractStep
    BY <2>7, TransferMaps
  <2> QED BY <2>1, <2>2, <2>3, <2>4, <2>5, <2>6, <2>7, Zenon DEF CollectionStep, CollectionCall
<1>2. MarketStep => AbstractStep
  <2>1. ASSUME NEW u \in Users, NEW n \in NFT, NEW v \in Values, makeOffer(u, n, v)
        PROVE  AbstractStep
    <3>1. deposit(u, v) /\ UNCHANGED <<owners, collectionToMarketItems>>
      BY <2>1 DEF makeOffer, collectionVars
    <3> QED BY <3>1, PaymentSpends DEF Places
  <2> QED BY <2>1, ListingMaps, SaleMaps, AuctionMaps, BidMaps, Zenon DEF MarketStep, MarketCall
<1>3. mintReturn \/ tick \/ UNCHANGED vars => AbstractStep
  BY PlaceFrame DEF mintReturn, tick, vars, collectionVars, marketVars
<1> QED BY <1>1, <1>2, <1>3 DEF Next

\* The contracts implement the escrow: every behaviour of collections, market
\* items, approvals and hooks is, seen from tokens and wallets, a behaviour of
\* TokenEscrow.
THEOREM EscrowRefinement == Spec => ImplementsEscrow
<1>1. Init => Abstract!Init
  <2>1. ASSUME Init PROVE Places = [t \in NFT |-> Abstract!Unminted]
    BY <2>1, PlaceCases DEF Init, CollectionInit, Places
  <2> QED BY <2>1 DEF Init, Abstract!Init
<1>2. TypeOK /\ CustodyInv /\ [Next]_vars => [Abstract!Next]_(Abstract!vars)
  BY StepMaps DEF AbstractStep
<1> QED BY <1>1, <1>2, CustodyInvariance, PTL DEF Spec, ImplementsEscrow, Abstract!Spec

----------------------------------------------------------------------------
(* The books kept for a token *)

\* Only four functions, called for a token, change the books kept for it.
LEMMA BooksStep ==
  ASSUME TypeOK, [Next]_vars, NEW n \in NFT
  PROVE  \/ /\ collectionToMarketItems'[n] = collectionToMarketItems[n]
            /\ pendingReturns'[n] = pendingReturns[n]
            /\ bidsPaid'[n] = bidsPaid[n]
         \/ \E u \in Users, p \in Values : createMarketItem(u, n, p)
         \/ \E u \in Users : createMarketSale(u, n)
         \/ \E u \in Users, p \in Values, d \in Durations : createAuction(u, n, p, d)
         \/ \E u \in Users, v \in Values : placeBid(u, n, v)
<1> DEFINE Same == /\ collectionToMarketItems'[n] = collectionToMarketItems[n]
                   /\ pendingReturns'[n] = pendingReturns[n]
                   /\ bidsPaid'[n] = bidsPaid[n]
<1>1. ASSUME UNCHANGED <<collectionToMarketItems, pendingReturns, bidsPaid>>
      PROVE  Same
  BY <1>1
<1>2. ASSUME NEW u \in Users, NEW m \in NFT, m # n, NEW p \in Values, createMarketItem(u, m, p)
      PROVE  Same
  BY <1>2 DEF createMarketItem, TypeOK, MarketTypeOK
<1>3. ASSUME NEW u \in Users, NEW m \in NFT, m # n, createMarketSale(u, m)
      PROVE  Same
  BY <1>3 DEF createMarketSale, TypeOK, MarketTypeOK
<1>4. ASSUME NEW u \in Users, NEW m \in NFT, m # n, NEW p \in Values, NEW d \in Durations,
             createAuction(u, m, p, d)
      PROVE  Same
  BY <1>4 DEF createAuction, TypeOK, MarketTypeOK
<1>5. ASSUME NEW u \in Users, NEW m \in NFT, m # n, NEW v \in Values, placeBid(u, m, v)
      PROVE  Same
  BY <1>5 DEF placeBid, creditOutbid, TypeOK, MarketTypeOK
<1>6. ASSUME NEW u \in Users, NEW m \in NFT, NEW v \in Values, makeOffer(u, m, v)
      PROVE  Same
  BY <1>1, <1>6 DEF makeOffer
<1> HIDE DEF Same
<1>7. CollectionStep => Same
  <2>1. CollectionStep => UNCHANGED marketVars
    BY DEF CollectionStep, CollectionCall, addCategory, createCollection, mint, mintCallReceiver,
           approve, setApprovalForAll, transferFrom, transferOwnership
  <2> QED BY <1>1, <2>1 DEF marketVars
<1>8. mintReturn \/ tick \/ UNCHANGED vars => Same
  BY <1>1 DEF mintReturn, tick, vars, marketVars
<1>9. MarketStep =>
        \/ Same
        \/ \E u \in Users, p \in Values : createMarketItem(u, n, p)
        \/ \E u \in Users : createMarketSale(u, n)
        \/ \E u \in Users, p \in Values, d \in Durations : createAuction(u, n, p, d)
        \/ \E u \in Users, v \in Values : placeBid(u, n, v)
  BY <1>2, <1>3, <1>4, <1>5, <1>6, Zenon DEF MarketStep, MarketCall
<1> QED BY <1>7, <1>8, <1>9 DEF Next, Same

----------------------------------------------------------------------------
(* Auctions *)

\* The step property of AuctionedItemLocked for one token.
LEMMA LockStep ==
  ASSUME TypeOK, CustodyInv, [Next]_vars, NEW n \in NFT,
         collectionToMarketItems[n].isOnSale, collectionToMarketItems[n].isAuction
  PROVE  LET item == collectionToMarketItems[n]
         IN /\ owners'[n] = Market
            /\ collectionToMarketItems'[n].isOnSale
            /\ collectionToMarketItems'[n].isAuction
            /\ collectionToMarketItems'[n].seller = item.seller
            /\ collectionToMarketItems'[n].auctionEndTime = item.auctionEndTime
            /\ collectionToMarketItems'[n].highestBid >= item.highestBid
<1> DEFINE item == collectionToMarketItems[n]
<1>0. owners[n] = Market /\ item \in MarketItem /\ item.highestBid \in Nat
  BY MarketAssumption DEF CustodyInv, EscrowCustody, TypeOK, MarketTypeOK, MarketItem, UInt
<1>1. ASSUME NEW u \in Users, createMarketSale(u, n) PROVE FALSE
  BY <1>1 DEF createMarketSale, forSale
<1>2. ASSUME NEW u \in Users, NEW p \in Values, createMarketItem(u, n, p) PROVE FALSE
  BY <1>0, <1>2, AddressAssumption DEF createMarketItem, erc721TransferFrom
<1>3. ASSUME NEW u \in Users, NEW p \in Values, NEW d \in Durations, createAuction(u, n, p, d)
      PROVE  FALSE
  BY <1>3 DEF createAuction
<1>4. owners'[n] = Market
  BY <1>0, <1>1, OnlySaleReleases
<1>5. ASSUME NEW u \in Users, NEW v \in Values, placeBid(u, n, v)
      PROVE  /\ collectionToMarketItems'[n].isOnSale
             /\ collectionToMarketItems'[n].isAuction
             /\ collectionToMarketItems'[n].seller = item.seller
             /\ collectionToMarketItems'[n].auctionEndTime = item.auctionEndTime
             /\ collectionToMarketItems'[n].highestBid >= item.highestBid
  <2>1. collectionToMarketItems'[n] = [item EXCEPT !.highestBidder = u, !.highestBid = v]
    BY <1>5 DEF placeBid, outbid, TypeOK, MarketTypeOK
  <2>2. v > item.highestBid /\ v \in Nat
    BY <1>5, MarketAssumption DEF placeBid
  <2> QED BY <1>0, <2>1, <2>2 DEF MarketItem
<1> QED BY <1>0, <1>1, <1>2, <1>3, <1>4, <1>5, BooksStep

\* A listed token put to auction is locked: token, seller and end time stay for
\* good, and the highest bid never falls.
THEOREM AuctionedItemLockedAlways == Spec => AuctionedItemLocked
<1>1. ASSUME TypeOK, CustodyInv, [Next]_vars
      PROVE  [\A n \in NFT :
                LET item == collectionToMarketItems[n]
                IN item.isOnSale /\ item.isAuction =>
                     /\ owners'[n] = Market
                     /\ collectionToMarketItems'[n].isOnSale
                     /\ collectionToMarketItems'[n].isAuction
                     /\ collectionToMarketItems'[n].seller = item.seller
                     /\ collectionToMarketItems'[n].auctionEndTime = item.auctionEndTime
                     /\ collectionToMarketItems'[n].highestBid >= item.highestBid]_vars
  BY <1>1, LockStep
<1> QED BY <1>1, CustodyInvariance, PTL DEF Spec, AuctionedItemLocked

----------------------------------------------------------------------------
(* Bids *)

\* The standing bid of a bidder for one token.
Standing(n, u) ==
  IF collectionToMarketItems[n].highestBidder = u
    THEN collectionToMarketItems[n].highestBid ELSE 0

\* The books hold numbers.
LEMMA BookTypes ==
  ASSUME TypeOK, NEW n \in NFT, NEW u \in Users
  PROVE  /\ OnBooks(n, u) = pendingReturns[n][u] + Standing(n, u)
         /\ pendingReturns[n][u] \in Nat /\ Standing(n, u) \in Nat
         /\ OnBooks(n, u) \in Nat /\ bidsPaid[n][u] \in Nat
<1>1. collectionToMarketItems[n].highestBid \in Nat
  BY MarketAssumption DEF TypeOK, MarketTypeOK, MarketItem, UInt
<1>2. pendingReturns[n][u] \in Nat /\ bidsPaid[n][u] \in Nat
  BY DEF TypeOK, MarketTypeOK
<1>3. Standing(n, u) \in Nat /\ OnBooks(n, u) = pendingReturns[n][u] + Standing(n, u)
  BY <1>1 DEF Standing, OnBooks
<1> QED BY <1>2, <1>3

\* A bid moves the one before it to pendingReturns and takes its place.
LEMMA BidEffect ==
  ASSUME TypeOK, NEW n \in NFT, NEW u \in Users, NEW s \in Users, NEW v \in Values,
         placeBid(s, n, v)
  PROVE  bidsPaid'[n][u] - OnBooks(n, u)' = bidsPaid[n][u] - OnBooks(n, u)
<1> DEFINE item == collectionToMarketItems[n]
<1>0. item \in MarketItem /\ v \in Nat
  BY MarketAssumption DEF TypeOK, MarketTypeOK
<1>1. /\ collectionToMarketItems'[n].highestBidder = s
      /\ collectionToMarketItems'[n].highestBid = v
  BY DEF placeBid, outbid, TypeOK, MarketTypeOK, MarketItem
<1>2. bidsPaid'[n][u] = IF u = s THEN bidsPaid[n][u] + v ELSE bidsPaid[n][u]
  BY DEF placeBid, TypeOK, MarketTypeOK
<1>3. Standing(n, u)' = IF u = s THEN v ELSE 0
  BY <1>1 DEF Standing
<1>4. pendingReturns'[n][u] = pendingReturns[n][u] + Standing(n, u)
  <2>1. creditOutbid(n)
    BY DEF placeBid
  <2>2. CASE item.highestBidder = NoAddr
    <3>1. Standing(n, u) = 0 /\ pendingReturns' = pendingReturns
      BY <2>1, <2>2, AddressAssumption DEF creditOutbid, Standing
    <3> QED BY <3>1, BookTypes
  <2>3. CASE item.highestBidder # NoAddr
    <3>1. pendingReturns' = [pendingReturns EXCEPT
                               ![n][item.highestBidder] = @ + item.highestBid]
      BY <2>1, <2>3 DEF creditOutbid
    <3>2. item.highestBidder \in Users
      BY <1>0, <2>3 DEF MarketItem
    <3>3. pendingReturns'[n][u] = IF u = item.highestBidder
                                    THEN pendingReturns[n][u] + item.highestBid
                                    ELSE pendingReturns[n][u]
      BY <3>1, <3>2 DEF TypeOK, MarketTypeOK
    <3> QED BY <3>3, BookTypes DEF Standing
  <2> QED BY <2>2, <2>3
<1>5. OnBooks(n, u)' = pendingReturns'[n][u] + Standing(n, u)'
  BY DEF OnBooks, Standing
<1> HIDE DEF item
<1> QED BY <1>0, <1>2, <1>3, <1>4, <1>5, BookTypes

\* What a step does to the books of one bidder and one token: they move by what
\* the bidder pays, or the bidder's standing bid is wiped out by a new listing.
LEMMA BidBooksStep ==
  ASSUME TypeOK, [Next]_vars, NEW n \in NFT, NEW u \in Users
  PROVE  \/ bidsPaid'[n][u] - OnBooks(n, u)' = bidsPaid[n][u] - OnBooks(n, u)
         \/ /\ collectionToMarketItems[n].highestBidder = u
            /\ \E s \in Users, p \in Values : createMarketItem(s, n, p)
            /\ bidsPaid'[n][u] = bidsPaid[n][u] /\ OnBooks(n, u)' = pendingReturns[n][u]
<1> DEFINE item == collectionToMarketItems[n]
           Goal == \/ bidsPaid'[n][u] - OnBooks(n, u)' = bidsPaid[n][u] - OnBooks(n, u)
                   \/ /\ item.highestBidder = u
                      /\ \E s \in Users, p \in Values : createMarketItem(s, n, p)
                      /\ bidsPaid'[n][u] = bidsPaid[n][u]
                      /\ OnBooks(n, u)' = pendingReturns[n][u]
<1>0. item \in MarketItem
  BY DEF TypeOK, MarketTypeOK
<1>1. ASSUME collectionToMarketItems'[n].highestBidder = item.highestBidder,
             collectionToMarketItems'[n].highestBid = item.highestBid,
             pendingReturns'[n] = pendingReturns[n],
             bidsPaid'[n] = bidsPaid[n]
      PROVE  Goal
  BY <1>1 DEF OnBooks
<1>2. ASSUME NEW s \in Users, NEW p \in Values, createMarketItem(s, n, p) PROVE Goal
  <2>1. /\ collectionToMarketItems'[n].highestBid = 0
        /\ collectionToMarketItems'[n].highestBidder = NoAddr
        /\ UNCHANGED <<pendingReturns, bidsPaid>>
    BY <1>2 DEF createMarketItem, listed, TypeOK, MarketTypeOK
  <2>2. OnBooks(n, u)' = pendingReturns[n][u]
    <3>1. u # NoAddr
      BY AddressAssumption
    <3>2. Standing(n, u)' = 0
      BY <2>1, <3>1 DEF Standing
    <3>3. OnBooks(n, u)' = pendingReturns'[n][u] + Standing(n, u)'
      BY DEF OnBooks, Standing
    <3> QED BY <2>1, <3>2, <3>3, BookTypes
  <2>3. CASE item.highestBidder = u
    BY <1>2, <2>1, <2>2, <2>3
  <2>4. CASE item.highestBidder # u
    <3>1. OnBooks(n, u) = pendingReturns[n][u] + 0
      BY <2>4, BookTypes DEF Standing
    <3> QED BY <2>1, <2>2, <3>1, BookTypes
  <2> QED BY <2>3, <2>4
<1>3. ASSUME NEW s \in Users, createMarketSale(s, n) PROVE Goal
  <2>1. /\ collectionToMarketItems'[n] = [item EXCEPT !.isOnSale = FALSE, !.owner = s]
        /\ UNCHANGED <<pendingReturns, bidsPaid>>
    BY <1>3 DEF createMarketSale, sold, TypeOK, MarketTypeOK
  <2> QED BY <1>0, <1>1, <2>1 DEF MarketItem
<1>4. ASSUME NEW s \in Users, NEW p \in Values, NEW d \in Durations, createAuction(s, n, p, d)
      PROVE  Goal
  <2>1. /\ collectionToMarketItems'[n] = [item EXCEPT !.isAuction = TRUE, !.price = p,
                                                      !.auctionEndTime = now + d]
        /\ UNCHANGED <<pendingReturns, bidsPaid>>
    BY <1>4 DEF createAuction, auctioned, TypeOK, MarketTypeOK
  <2> QED BY <1>0, <1>1, <2>1 DEF MarketItem
<1>5. ASSUME NEW s \in Users, NEW v \in Values, placeBid(s, n, v) PROVE Goal
  BY <1>5, BidEffect
<1> HIDE DEF Goal
<1>6. Goal
  BY <1>1, <1>2, <1>3, <1>4, <1>5, BooksStep
<1> QED BY <1>6 DEF Goal

\* No bidder is ever credited with more than was paid, however often bids,
\* auctions and listings of the token follow each other.
THEOREM BidderNotOvercreditedAlways == Spec => []BidderNotOvercredited
<1>1. Init => BidderNotOvercredited
  <2> SUFFICES ASSUME Init, NEW n \in NFT, NEW u \in Users
               PROVE  OnBooks(n, u) <= bidsPaid[n][u]
    BY DEF BidderNotOvercredited
  <2>1. pendingReturns[n][u] = 0 /\ bidsPaid[n][u] = 0
    BY DEF Init
  <2>2. Standing(n, u) = 0
    BY DEF Init, Standing, NoItem
  <2> QED BY <2>1, <2>2, TypeInit, BookTypes
<1>2. TypeOK /\ TypeOK' /\ BidderNotOvercredited /\ [Next]_vars => BidderNotOvercredited'
  <2> SUFFICES ASSUME TypeOK, TypeOK', BidderNotOvercredited, [Next]_vars,
                      NEW n \in NFT, NEW u \in Users
               PROVE  OnBooks(n, u)' <= bidsPaid'[n][u]
    BY DEF BidderNotOvercredited
  <2>1. OnBooks(n, u) <= bidsPaid[n][u]
    BY DEF BidderNotOvercredited
  <2>2. PICK x \in Nat : x = bidsPaid'[n][u]
    BY DEF TypeOK, MarketTypeOK
  <2>3. PICK y \in Nat : y = OnBooks(n, u)'
    <3>1. collectionToMarketItems'[n].highestBid \in Nat /\ pendingReturns'[n][u] \in Nat
      BY MarketAssumption DEF TypeOK, MarketTypeOK, MarketItem, UInt
    <3> QED BY <3>1 DEF OnBooks
  <2>4. CASE x - y = bidsPaid[n][u] - OnBooks(n, u)
    BY <2>1, <2>2, <2>3, <2>4, BookTypes
  <2>5. CASE x = bidsPaid[n][u] /\ y = pendingReturns[n][u]
    BY <2>1, <2>2, <2>3, <2>5, BookTypes
  <2> QED BY <2>2, <2>3, <2>4, <2>5, BidBooksStep
<1> QED BY <1>1, <1>2, TypeCorrect, PTL DEF Spec

\* Every step keeps BidIsAuction: placeBid takes bids in auctions only, and an
\* item that is no auction any more has lost its bid, too.
LEMMA BidIsAuctionStep ==
  ASSUME TypeOK, BidIsAuction, [Next]_vars
  PROVE  BidIsAuction'
<1> SUFFICES ASSUME NEW n \in NFT, collectionToMarketItems'[n].highestBidder # NoAddr
             PROVE  collectionToMarketItems'[n].isAuction
  BY DEF BidIsAuction
<1> DEFINE item == collectionToMarketItems[n]
           Goal == collectionToMarketItems'[n].isAuction
<1>0. item \in MarketItem /\ (item.highestBidder # NoAddr => item.isAuction)
  BY DEF TypeOK, MarketTypeOK, BidIsAuction
<1>1. ASSUME collectionToMarketItems'[n] = item PROVE Goal
  BY <1>0, <1>1
<1>2. ASSUME NEW s \in Users, NEW p \in Values, createMarketItem(s, n, p) PROVE FALSE
  BY <1>2 DEF createMarketItem, listed, TypeOK, MarketTypeOK
<1>3. ASSUME NEW s \in Users, createMarketSale(s, n) PROVE Goal
  <2>1. collectionToMarketItems'[n] = [item EXCEPT !.isOnSale = FALSE, !.owner = s]
    BY <1>3 DEF createMarketSale, sold, TypeOK, MarketTypeOK
  <2> QED BY <1>0, <2>1 DEF MarketItem
<1>4. ASSUME NEW s \in Users, NEW p \in Values, NEW d \in Durations, createAuction(s, n, p, d)
      PROVE  Goal
  <2>1. collectionToMarketItems'[n] = [item EXCEPT !.isAuction = TRUE, !.price = p,
                                                   !.auctionEndTime = now + d]
    BY <1>4 DEF createAuction, auctioned, TypeOK, MarketTypeOK
  <2> QED BY <1>0, <2>1 DEF MarketItem
<1>5. ASSUME NEW s \in Users, NEW v \in Values, placeBid(s, n, v) PROVE Goal
  BY <1>0, <1>5 DEF placeBid, outbid, TypeOK, MarketTypeOK, MarketItem
<1> QED BY <1>1, <1>2, <1>3, <1>4, <1>5, BooksStep

\* A new listing that wipes out a bid: its owner had the token, nobody could buy
\* it, and it was being auctioned.
LEMMA RelistingLoses ==
  ASSUME TypeOK, CustodyInv, BidIsAuction, NEW n \in NFT, NEW u \in Users,
         collectionToMarketItems[n].highestBidder = u,
         NEW s \in Users, NEW p \in Values, createMarketItem(s, n, p)
  PROVE  /\ collectionToMarketItems[n].isAuction /\ ~collectionToMarketItems[n].isOnSale
         /\ owners[n] # Market /\ owners'[n] = Market
         /\ collectionToMarketItems'[n].isOnSale
         /\ collectionToMarketItems'[n].seller = owners[n]
<1>1. owners[n] = s /\ owners'[n] = Market /\ s # Market /\ u # NoAddr
  BY AddressAssumption DEF createMarketItem, erc721TransferFrom, TypeOK, CollectionTypeOK
<1>2. ~collectionToMarketItems[n].isOnSale /\ collectionToMarketItems[n].isAuction
  BY <1>1 DEF CustodyInv, EscrowCustody, BidIsAuction
<1>3. collectionToMarketItems'[n].isOnSale /\ collectionToMarketItems'[n].seller = s
  BY DEF createMarketItem, listed, TypeOK, MarketTypeOK
<1> QED BY <1>1, <1>2, <1>3

\* The only way for a bid to leave the books is that the owner of a token which
\* somebody else has put to auction lists it.
THEOREM BidsLostOnlyByRelistingAlways == Spec => BidsLostOnlyByRelisting
<1>1. Init => BidIsAuction
  BY DEF Init, BidIsAuction, NoItem
<1>2. TypeOK /\ BidIsAuction /\ [Next]_vars => BidIsAuction'
  BY BidIsAuctionStep
<1>3. ASSUME TypeOK, CustodyInv, BidIsAuction, [Next]_vars
      PROVE  [\A n \in NFT, u \in Users :
                LET item == collectionToMarketItems[n]
                    next == collectionToMarketItems'[n]
                IN \/ bidsPaid'[n][u] - OnBooks(n, u)' = bidsPaid[n][u] - OnBooks(n, u)
                   \/ /\ item.highestBidder = u
                      /\ item.isAuction /\ ~item.isOnSale /\ owners[n] # Market
                      /\ next.isOnSale /\ next.seller = owners[n] /\ owners'[n] = Market]_vars
  BY <1>3, BidBooksStep, RelistingLoses
<1> QED BY <1>1, <1>2, <1>3, CustodyInvariance, PTL DEF Spec, BidsLostOnlyByRelisting

----------------------------------------------------------------------------
(* The index of listings *)

\* Every step keeps the index complete: only createMarketItem adds to it.
LEMMA IndexStep ==
  ASSUME TypeOK, TokenIndexComplete, [Next]_vars
  PROVE  TokenIndexComplete'
<1>1. ASSUME UNCHANGED collectionTokenIds,
             \A n \in NFT : collectionToMarketItems'[n].seller = collectionToMarketItems[n].seller
      PROVE  TokenIndexComplete'
  BY <1>1 DEF TokenIndexComplete
<1>2. ASSUME NEW u \in Users, NEW m \in NFT, NEW p \in Values, createMarketItem(u, m, p)
      PROVE  TokenIndexComplete'
  <2> SUFFICES ASSUME NEW n \in NFT
               PROVE  collectionToMarketItems'[n].seller # NoAddr
                        <=> \E i \in DOMAIN collectionTokenIds'[n[1]] :
                              collectionTokenIds'[n[1]][i] = n[2]
    BY DEF TokenIndexComplete
  <2> DEFINE ids == collectionTokenIds[n[1]]
             ids1 == collectionTokenIds'[n[1]]
  <2>0. /\ ids \in Seq(TokenId)
        /\ m[1] \in Collections /\ m[2] \in TokenId /\ n[1] \in Collections
        /\ m = <<m[1], m[2]>> /\ n = <<n[1], n[2]>>
    BY TokenParts DEF TypeOK, MarketTypeOK
  <2>1. collectionTokenIds' = [collectionTokenIds EXCEPT ![m[1]] = Append(@, m[2])]
    BY <1>2 DEF createMarketItem, pushTokenId
  <2>2. collectionToMarketItems'[n].seller =
          IF n = m THEN u ELSE collectionToMarketItems[n].seller
    BY <1>2 DEF createMarketItem, listed, TypeOK, MarketTypeOK
  <2>3. collectionToMarketItems[n].seller # NoAddr <=> \E i \in DOMAIN ids : ids[i] = n[2]
    BY DEF TokenIndexComplete
  <2>4. CASE n[1] # m[1]
    BY <2>0, <2>1, <2>2, <2>3, <2>4 DEF TypeOK, MarketTypeOK
  <2>5. CASE n[1] = m[1]
    <3>1. ids1 = Append(ids, m[2])
      BY <2>0, <2>1, <2>5 DEF TypeOK, MarketTypeOK
    <3>2. (\E i \in DOMAIN ids1 : ids1[i] = n[2])
            <=> (m[2] = n[2] \/ \E i \in DOMAIN ids : ids[i] = n[2])
      <4> HIDE DEF ids, ids1
      <4>1. /\ DOMAIN ids1 = 1..(Len(ids) + 1) /\ DOMAIN ids = 1..Len(ids)
            /\ Len(ids) \in Nat
            /\ \A i \in 1..Len(ids) : ids1[i] = ids[i]
            /\ ids1[Len(ids) + 1] = m[2]
        BY <2>0, <3>1
      <4> QED BY <4>1
    <3>3. m[2] = n[2] <=> n = m
      BY <2>0, <2>5
    <3>4. u # NoAddr
      BY AddressAssumption
    <3> QED BY <2>2, <2>3, <3>2, <3>3, <3>4
  <2> QED BY <2>4, <2>5
<1>3. ASSUME NEW u \in Users, NEW m \in NFT, createMarketSale(u, m)
      PROVE  TokenIndexComplete'
  BY <1>1, <1>3 DEF createMarketSale, sold, TypeOK, MarketTypeOK, MarketItem
<1>4. ASSUME NEW u \in Users, NEW m \in NFT, NEW p \in Values, NEW d \in Durations,
             createAuction(u, m, p, d)
      PROVE  TokenIndexComplete'
  BY <1>1, <1>4 DEF createAuction, auctioned, TypeOK, MarketTypeOK, MarketItem
<1>5. ASSUME NEW u \in Users, NEW m \in NFT, NEW v \in Values, placeBid(u, m, v)
      PROVE  TokenIndexComplete'
  BY <1>1, <1>5 DEF placeBid, outbid, TypeOK, MarketTypeOK, MarketItem
<1>6. ASSUME NEW u \in Users, NEW m \in NFT, NEW v \in Values, makeOffer(u, m, v)
      PROVE  TokenIndexComplete'
  BY <1>1, <1>6 DEF makeOffer
<1>7. MarketStep => TokenIndexComplete'
  BY <1>2, <1>3, <1>4, <1>5, <1>6, Zenon DEF MarketStep, MarketCall
<1>8. CollectionStep => UNCHANGED marketVars
  BY DEF CollectionStep, CollectionCall, addCategory, createCollection, mint, mintCallReceiver,
         approve, setApprovalForAll, transferFrom, transferOwnership
<1>9. mintReturn \/ tick \/ UNCHANGED vars => UNCHANGED marketVars
  BY DEF mintReturn, tick, vars
<1> QED BY <1>1, <1>7, <1>8, <1>9 DEF Next, marketVars

\* The lists that fetchCollectionItems, _getFloorPrice and
\* fetchUserPurchasedItems walk name exactly the tokens with a market item.
THEOREM TokenIndexCompleteAlways == Spec => []TokenIndexComplete
<1>1. Init => TokenIndexComplete
  BY TokenParts DEF Init, TokenIndexComplete, NoItem
<1>2. TypeOK /\ TokenIndexComplete /\ [Next]_vars => TokenIndexComplete'
  BY IndexStep
<1> QED BY <1>1, <1>2, TypeCorrect, PTL DEF Spec

----------------------------------------------------------------------------
(* The ledger: what was paid in, what is held and what is owed *)

\* There are finitely many tokens.
LEMMA FiniteTokens == IsFiniteSet(NFT)
<1>1. IsFiniteSet(TokenId)
  BY FS_Interval, AddressAssumption DEF TokenId
<1> QED BY <1>1, FiniteAssumption, FS_Product DEF NFT

\* The sums are of natural numbers, and so are they.
LEMMA BookTotalType ==
  ASSUME NEW book \in [NFT -> [Users -> Nat]]
  PROVE  /\ \A n \in NFT : SumFunction(book[n]) \in Nat
         /\ BookTotal(book) \in Nat
<1>1. ASSUME NEW n \in NFT PROVE SumFunction(book[n]) \in Nat
  <2>1. book[n] \in [Users -> Nat]
    OBVIOUS
  <2> QED BY <2>1, FiniteAssumption, SumNatural
<1>2. [n \in NFT |-> SumFunction(book[n])] \in [NFT -> Nat]
  BY <1>1
<1> QED BY <1>1, <1>2, FiniteTokens, SumNatural DEF BookTotal

\* A book to which v was added for one token and user.
AddedTo(new, book, n, u, v) ==
  /\ book \in [NFT -> [Users -> Nat]]
  /\ new \in [NFT -> [Users -> Nat]]
  /\ \A m \in NFT : m # n => new[m] = book[m]
  /\ \A w \in Users : w # u => new[n][w] = book[n][w]
  /\ new[n][u] = book[n][u] + v

\* Such an update adds as much to the total.
LEMMA BookTotalAdd ==
  ASSUME NEW book, NEW new, NEW n \in NFT, NEW u \in Users, NEW v \in Nat,
         AddedTo(new, book, n, u, v)
  PROVE  BookTotal(new) = BookTotal(book) + v
<1> DEFINE f == [m \in NFT |-> SumFunction(book[m])]
           g == [m \in NFT |-> SumFunction(new[m])]
<1>1. /\ new[n] \in [Users -> Int] /\ book[n] \in [Users -> Int]
      /\ \A w \in Users : w # u => new[n][w] = book[n][w]
      /\ new[n][u] = book[n][u] + v
      /\ book[n][u] \in Nat
  BY DEF AddedTo
<1>2. SumFunction(new[n]) = SumFunction(book[n]) - book[n][u] + new[n][u]
  BY <1>1, FiniteAssumption, SumUpdate
<1>3. /\ \A m \in NFT : SumFunction(book[m]) \in Nat
      /\ \A m \in NFT : SumFunction(new[m]) \in Nat
      /\ BookTotal(book) \in Nat
  BY BookTotalType DEF AddedTo
<1>4. /\ f \in [NFT -> Int] /\ g \in [NFT -> Int] /\ f[n] \in Nat
      /\ \A m \in NFT : m # n => g[m] = f[m]
  BY <1>3 DEF AddedTo
<1>5. g[n] = f[n] + v
  BY <1>1, <1>2, <1>3
<1>6. BookTotal(new) = SumFunction(g) /\ BookTotal(book) = SumFunction(f)
  BY DEF BookTotal
<1> HIDE DEF f, g
<1>7. SumFunction(g) = SumFunction(f) - f[n] + g[n]
  BY <1>4, FiniteTokens, SumUpdate
<1> QED BY <1>3, <1>4, <1>5, <1>6, <1>7

\* What is known of the offers in a list.
LEMMA OfferPrices ==
  ASSUME NEW offers \in Seq(Offer)
  PROVE  /\ DOMAIN offers = 1..Len(offers) /\ Len(offers) \in Nat
         /\ IsFiniteSet(DOMAIN offers)
         /\ \A i \in DOMAIN offers : offers[i].price \in Nat
<1>1. DOMAIN offers = 1..Len(offers) /\ Len(offers) \in Nat
  OBVIOUS
<1>2. \A offer \in Offer : offer.price \in Nat
  BY MarketAssumption DEF Offer, UInt
<1>3. \A i \in DOMAIN offers : offers[i] \in Offer
  OBVIOUS
<1> QED BY <1>1, <1>2, <1>3, FS_Interval

\* The sum of a list of offers is a natural number.
LEMMA OffersOnType ==
  ASSUME NEW offers \in Seq(Offer)
  PROVE  OffersOn(offers) \in Nat
<1>1. /\ IsFiniteSet(DOMAIN offers)
      /\ [i \in DOMAIN offers |-> offers[i].price] \in [DOMAIN offers -> Nat]
  BY OfferPrices
<1> QED BY <1>1, SumNatural DEF OffersOn

\* makeOffer appends an offer, which adds its price to the sum.
LEMMA OffersOnAppend ==
  ASSUME NEW offers \in Seq(Offer), NEW offer \in Offer
  PROVE  OffersOn(Append(offers, offer)) = OffersOn(offers) + offer.price
<1> DEFINE S == DOMAIN offers
           k == Len(offers) + 1
           more == Append(offers, offer)
           f == [i \in S |-> offers[i].price]
           g == [i \in DOMAIN more |-> more[i].price]
<1>0. OffersOn(more) = SumFunction(g) /\ OffersOn(offers) = SumFunction(f)
  BY DEF OffersOn
<1>1. /\ S = 1..Len(offers) /\ Len(offers) \in Nat
      /\ DOMAIN more = S \cup {k} /\ k \notin S
      /\ \A i \in S : more[i] = offers[i]
      /\ more[k] = offer
  OBVIOUS
<1>2. IsFiniteSet(S) /\ \A i \in S : offers[i].price \in Int
  BY OfferPrices
<1>3. offer.price \in Int
  BY MarketAssumption DEF Offer, UInt
<1> HIDE DEF S, k, more
<1>4. /\ f \in [S -> Int]
      /\ g \in [DOMAIN more -> Int]
      /\ \A i \in S : g[i] = f[i]
      /\ g[k] = offer.price
  BY <1>1, <1>2, <1>3
<1> HIDE DEF f, g
<1>6. SumFunction(g) = SumFunction(f) + g[k]
  <2> DEFINE R == DOMAIN more
  <2>1. /\ IsFiniteSet(S) /\ k \in R /\ k \notin S
        /\ S \subseteq R /\ \A i \in R : i \in S \/ i = k
        /\ f \in [S -> Int] /\ g \in [R -> Int]
        /\ \A i \in S : g[i] = f[i]
    BY <1>1, <1>2, <1>4
  <2> HIDE DEF R
  <2> QED BY <2>1, SumExtend
<1> QED BY <1>0, <1>4, <1>6 DEF more

----------------------------------------------------------------------------
(* Ether *)

\* The three totals are natural numbers.
LEMMA TotalsType ==
  ASSUME MarketTypeOK
  PROVE  /\ BookTotal(bidsPaid) \in Nat
         /\ \A n \in NFT : OffersOn(itemOffers[n]) \in Nat
         /\ OfferTotal \in Nat
         /\ SumFunction([c \in Collections |-> Len(collectionTokenIds[c])]) \in Nat
<1>1. BookTotal(bidsPaid) \in Nat
  BY BookTotalType DEF MarketTypeOK
<1>2. ASSUME NEW n \in NFT PROVE OffersOn(itemOffers[n]) \in Nat
  <2>1. itemOffers[n] \in Seq(Offer)
    BY DEF MarketTypeOK
  <2> QED BY <2>1, OffersOnType
<1>3. OfferTotal \in Nat
  <2>1. [n \in NFT |-> OffersOn(itemOffers[n])] \in [NFT -> Nat]
    BY <1>2
  <2> QED BY <2>1, FiniteTokens, SumNatural DEF OfferTotal
<1>4. SumFunction([c \in Collections |-> Len(collectionTokenIds[c])]) \in Nat
  <2>1. \A c \in Collections : Len(collectionTokenIds[c]) \in Nat
    BY DEF MarketTypeOK
  <2>2. [c \in Collections |-> Len(collectionTokenIds[c])] \in [Collections -> Nat]
    BY <2>1
  <2> QED BY <2>2, FiniteAssumption, SumNatural
<1> QED BY <1>1, <1>2, <1>3, <1>4

\* A listing adds one listing fee.
LEMMA FeePaid ==
  ASSUME MarketTypeOK, NEW n \in NFT, pushTokenId(n)
  PROVE  FeesPaid' = FeesPaid + ListingFee
<1> DEFINE c == n[1]
           f == [d \in Collections |-> Len(collectionTokenIds[d])]
           g == [d \in Collections |-> Len(collectionTokenIds'[d])]
<1>0. c \in Collections /\ n[2] \in TokenId
  BY TokenParts
<1>1. collectionTokenIds' = [collectionTokenIds EXCEPT ![c] = Append(@, n[2])]
  BY DEF pushTokenId
<1>2. \A d \in Collections : collectionTokenIds[d] \in Seq(TokenId)
  BY DEF MarketTypeOK
<1>3. /\ \A d \in Collections : d # c => collectionTokenIds'[d] = collectionTokenIds[d]
      /\ collectionTokenIds'[c] = Append(collectionTokenIds[c], n[2])
  BY <1>0, <1>1 DEF MarketTypeOK
<1> HIDE DEF c
<1>4. \A d \in Collections : Len(collectionTokenIds[d]) \in Nat
  BY <1>2
<1>5. Len(collectionTokenIds'[c]) = Len(collectionTokenIds[c]) + 1
  BY <1>0, <1>2, <1>3
<1>6. /\ f \in [Collections -> Int] /\ g \in [Collections -> Int]
      /\ \A d \in Collections : d # c => g[d] = f[d]
      /\ g[c] = f[c] + 1 /\ f[c] \in Nat
  BY <1>0, <1>3, <1>4, <1>5
<1>7. FeesPaid = ListingFee * SumFunction(f) /\ FeesPaid' = ListingFee * SumFunction(g)
  BY DEF FeesPaid
<1> HIDE DEF f, g
<1>8. SumFunction(g) = SumFunction(f) - f[c] + g[c] /\ SumFunction(f) \in Int
  <2>1. IsFiniteSet(Collections)
    BY FiniteAssumption
  <2>2. SumFunction(f) \in Int
    BY <1>6, <2>1, SumType
  <2>3. SumFunction(g) = SumFunction(f) - f[c] + g[c]
    BY <1>0, <1>6, <2>1, SumUpdate
  <2> QED BY <2>2, <2>3
<1>9. SumFunction(g) = SumFunction(f) + 1
  BY <1>6, <1>8
<1>10. \A k \in Int : ListingFee * (k + 1) = ListingFee * k + ListingFee
  BY MarketAssumption
<1> QED BY <1>7, <1>8, <1>9, <1>10

\* An offer adds its price.
LEMMA OfferMade ==
  ASSUME MarketTypeOK, NEW n \in NFT, NEW offer \in Offer,
         itemOffers' = [itemOffers EXCEPT ![n] = Append(@, offer)]
  PROVE  OfferTotal' = OfferTotal + offer.price
<1> DEFINE f == [m \in NFT |-> OffersOn(itemOffers[m])]
           g == [m \in NFT |-> OffersOn(itemOffers'[m])]
<1>0. itemOffers[n] \in Seq(Offer) /\ offer.price \in Nat
  <2>1. itemOffers[n] \in Seq(Offer)
    BY DEF MarketTypeOK
  <2>2. offer.price \in Nat
    BY MarketAssumption DEF Offer, UInt
  <2> QED BY <2>1, <2>2
<1>1. /\ \A m \in NFT : m # n => itemOffers'[m] = itemOffers[m]
      /\ itemOffers'[n] = Append(itemOffers[n], offer)
  BY DEF MarketTypeOK
<1>2. /\ OffersOn(itemOffers'[n]) = OffersOn(itemOffers[n]) + offer.price
      /\ \A m \in NFT : OffersOn(itemOffers[m]) \in Nat
  BY <1>0, <1>1, OffersOnAppend, TotalsType
<1>3. /\ f \in [NFT -> Int] /\ f[n] \in Nat
      /\ \A m \in NFT : m # n => g[m] = f[m]
      /\ g[n] = f[n] + offer.price
  BY <1>1, <1>2
<1>4. g \in [NFT -> Int]
  <2>1. \A m \in NFT : OffersOn(itemOffers'[m]) \in Int
    BY <1>0, <1>1, <1>2
  <2> QED BY <2>1
<1>5. OfferTotal = SumFunction(f) /\ OfferTotal' = SumFunction(g)
  BY DEF OfferTotal, OffersOn
<1> HIDE DEF f, g
<1>6. SumFunction(g) = SumFunction(f) - f[n] + g[n] /\ SumFunction(f) \in Int
  BY <1>3, <1>4, FiniteTokens, SumUpdate, SumType
<1> QED BY <1>0, <1>3, <1>5, <1>6

\* NothingPaidOut, one step.
LEMMA NothingPaidOutStep ==
  ASSUME TypeOK, NothingPaidOut, [Next]_vars
  PROVE  NothingPaidOut'
<1> DEFINE bids == BookTotal(bidsPaid)
<1>0. /\ MarketTypeOK
      /\ bids \in Nat /\ OfferTotal \in Nat /\ FeesPaid \in Nat
      /\ balance = FeesPaid + bids + OfferTotal
      /\ ListingFee \in Nat /\ Values \subseteq Nat
  <2>1. \A k \in Nat : ListingFee * k \in Nat
    BY MarketAssumption
  <2>2. MarketTypeOK
    BY DEF TypeOK
  <2>3. bids \in Nat /\ OfferTotal \in Nat /\ FeesPaid \in Nat
    BY <2>1, <2>2, TotalsType DEF FeesPaid
  <2> QED BY <2>2, <2>3, MarketAssumption DEF NothingPaidOut
<1>f. UNCHANGED collectionTokenIds => FeesPaid' = FeesPaid
  BY DEF FeesPaid
<1>b. UNCHANGED bidsPaid => bids' = bids
  BY DEF BookTotal
<1>o. UNCHANGED itemOffers => OfferTotal' = OfferTotal
  BY DEF OfferTotal, OffersOn
<1>n. NothingPaidOut' <=> balance' = FeesPaid' + bids' + OfferTotal'
  BY DEF NothingPaidOut
<1>1. ASSUME UNCHANGED <<balance, collectionTokenIds, bidsPaid, itemOffers>>
      PROVE  NothingPaidOut'
  BY <1>0, <1>1, <1>f, <1>b, <1>o, <1>n
<1>2. ASSUME NEW u \in Users, NEW n \in NFT, NEW p \in Values, createMarketItem(u, n, p)
      PROVE  NothingPaidOut'
  <2>1. /\ pushTokenId(n) /\ balance' = balance + ListingFee
        /\ UNCHANGED <<bidsPaid, itemOffers>>
    BY <1>2 DEF createMarketItem, deposit
  <2>2. FeesPaid' = FeesPaid + ListingFee
    BY <1>0, <2>1, FeePaid
  <2>3. bids' = bids /\ OfferTotal' = OfferTotal
    BY <1>b, <1>o, <2>1
  <2> HIDE DEF bids
  <2> QED BY <1>0, <1>n, <2>1, <2>2, <2>3
<1>3. ASSUME NEW u \in Users, NEW n \in NFT, createMarketSale(u, n)
      PROVE  NothingPaidOut'
  BY <1>1, <1>3 DEF createMarketSale
<1>4. ASSUME NEW u \in Users, NEW n \in NFT, NEW p \in Values, NEW d \in Durations,
             createAuction(u, n, p, d)
      PROVE  NothingPaidOut'
  BY <1>1, <1>4 DEF createAuction
<1>5. ASSUME NEW u \in Users, NEW n \in NFT, NEW v \in Values, placeBid(u, n, v)
      PROVE  NothingPaidOut'
  <2>1. /\ bidsPaid' = [bidsPaid EXCEPT ![n][u] = @ + v] /\ balance' = balance + v
        /\ UNCHANGED <<collectionTokenIds, itemOffers>>
    BY <1>5 DEF placeBid, deposit
  <2>2. v \in Nat /\ bidsPaid \in [NFT -> [Users -> Nat]]
    BY <1>0 DEF MarketTypeOK
  <2>3. bids' = bids + v
    <3>1. AddedTo(bidsPaid', bidsPaid, n, u, v)
      BY <2>1, <2>2 DEF AddedTo
    <3>2. BookTotal(bidsPaid)' = BookTotal(bidsPaid')
      BY DEF BookTotal
    <3> QED BY <2>2, <3>1, <3>2, BookTotalAdd
  <2>4. FeesPaid' = FeesPaid /\ OfferTotal' = OfferTotal
    BY <1>f, <1>o, <2>1
  <2> HIDE DEF bids
  <2> QED BY <1>0, <1>n, <2>1, <2>2, <2>3, <2>4
<1>6. ASSUME NEW u \in Users, NEW n \in NFT, NEW v \in Values, makeOffer(u, n, v)
      PROVE  NothingPaidOut'
  <2> DEFINE offer == [buyer |-> u, price |-> v, timestamp |-> now]
  <2>1. /\ itemOffers' = [itemOffers EXCEPT ![n] = Append(@, offer)]
        /\ balance' = balance + v
        /\ UNCHANGED <<collectionTokenIds, bidsPaid>>
    BY <1>6 DEF makeOffer, deposit
  <2>2. offer \in Offer /\ offer.price = v /\ v \in Nat
    BY <1>0, MarketAssumption DEF MarketTypeOK, Offer, UInt
  <2> HIDE DEF offer
  <2>3. OfferTotal' = OfferTotal + offer.price
    BY <1>0, <2>1, <2>2, OfferMade
  <2>4. FeesPaid' = FeesPaid /\ bids' = bids
    BY <1>f, <1>b, <2>1
  <2> HIDE DEF bids
  <2> QED BY <1>0, <1>n, <2>1, <2>2, <2>3, <2>4
<1>7. MarketStep => NothingPaidOut'
  BY <1>2, <1>3, <1>4, <1>5, <1>6, Zenon DEF MarketStep, MarketCall
<1>8. CollectionStep => UNCHANGED marketVars
  BY DEF CollectionStep, CollectionCall, addCategory, createCollection, mint, mintCallReceiver,
         approve, setApprovalForAll, transferFrom, transferOwnership
<1>9. mintReturn \/ tick \/ UNCHANGED vars => UNCHANGED marketVars
  BY DEF mintReturn, tick, vars
<1> QED BY <1>1, <1>7, <1>8, <1>9 DEF Next, marketVars

\* The contract never pays out a fee, a bid or an offer.
THEOREM NothingPaidOutAlways == Spec => []NothingPaidOut
<1>1. Init => NothingPaidOut
  <2> SUFFICES ASSUME Init PROVE NothingPaidOut
    OBVIOUS
  <2>1. BookTotal(bidsPaid) = 0
    <3>1. \A n \in NFT : bidsPaid[n] \in [Users -> Int] /\ \A u \in Users : bidsPaid[n][u] = 0
      BY DEF Init
    <3>2. \A n \in NFT : SumFunction(bidsPaid[n]) = 0
      BY <3>1, FiniteAssumption, SumZero
    <3> DEFINE f == [n \in NFT |-> SumFunction(bidsPaid[n])]
    <3>3. f \in [NFT -> Int] /\ \A n \in NFT : f[n] = 0
      BY <3>2
    <3>4. BookTotal(bidsPaid) = SumFunction(f)
      BY DEF BookTotal
    <3> HIDE DEF f
    <3> QED BY <3>3, <3>4, FiniteTokens, SumZero
  <2>2. OfferTotal = 0
    <3>1. ASSUME NEW n \in NFT PROVE OffersOn(itemOffers[n]) = 0
      <4> DEFINE p == [i \in DOMAIN itemOffers[n] |-> itemOffers[n][i].price]
      <4>1. DOMAIN itemOffers[n] = {}
        BY DEF Init
      <4>2. p \in [{} -> Int] /\ OffersOn(itemOffers[n]) = SumFunction(p)
        BY <4>1 DEF OffersOn
      <4> HIDE DEF p
      <4> QED BY <4>2, FS_EmptySet, SumZero
    <3> DEFINE f == [n \in NFT |-> OffersOn(itemOffers[n])]
    <3>2. f \in [NFT -> Int] /\ \A n \in NFT : f[n] = 0
      BY <3>1
    <3>3. OfferTotal = SumFunction(f)
      BY DEF OfferTotal
    <3> HIDE DEF f
    <3> QED BY <3>2, <3>3, FiniteTokens, SumZero
  <2>3. FeesPaid = 0
    <3> DEFINE f == [c \in Collections |-> Len(collectionTokenIds[c])]
    <3>1. f \in [Collections -> Int] /\ \A c \in Collections : f[c] = 0
      BY DEF Init
    <3>2. FeesPaid = ListingFee * SumFunction(f)
      BY DEF FeesPaid
    <3> HIDE DEF f
    <3>3. SumFunction(f) = 0
      BY <3>1, FiniteAssumption, SumZero
    <3> QED BY <3>2, <3>3, MarketAssumption
  <2> QED BY <2>1, <2>2, <2>3 DEF Init, NothingPaidOut
<1>2. TypeOK /\ NothingPaidOut /\ [Next]_vars => NothingPaidOut'
  BY NothingPaidOutStep
<1> QED BY <1>1, <1>2, TypeCorrect, PTL DEF Spec

----------------------------------------------------------------------------
(* What the books owe *)

\* Every step keeps UnbidIsZero; only placeBid raises the highest bid.
LEMMA UnbidStep ==
  ASSUME TypeOK, UnbidIsZero, [Next]_vars
  PROVE  UnbidIsZero'
<1> SUFFICES ASSUME NEW n \in NFT, collectionToMarketItems'[n].highestBidder = NoAddr
             PROVE  collectionToMarketItems'[n].highestBid = 0
  BY DEF UnbidIsZero
<1> DEFINE item == collectionToMarketItems[n]
<1>0. item \in MarketItem /\ (item.highestBidder = NoAddr => item.highestBid = 0)
  BY DEF TypeOK, MarketTypeOK, UnbidIsZero
<1>1. ASSUME collectionToMarketItems'[n].highestBidder = item.highestBidder,
             collectionToMarketItems'[n].highestBid = item.highestBid
      PROVE  collectionToMarketItems'[n].highestBid = 0
  BY <1>0, <1>1
<1>2. ASSUME NEW s \in Users, NEW p \in Values, createMarketItem(s, n, p)
      PROVE  collectionToMarketItems'[n].highestBid = 0
  BY <1>2 DEF createMarketItem, listed, TypeOK, MarketTypeOK
<1>3. ASSUME NEW s \in Users, createMarketSale(s, n)
      PROVE  collectionToMarketItems'[n].highestBid = 0
  <2>1. collectionToMarketItems'[n] = [item EXCEPT !.isOnSale = FALSE, !.owner = s]
    BY <1>3 DEF createMarketSale, sold, TypeOK, MarketTypeOK
  <2> QED BY <1>0, <1>1, <2>1 DEF MarketItem
<1>4. ASSUME NEW s \in Users, NEW p \in Values, NEW d \in Durations, createAuction(s, n, p, d)
      PROVE  collectionToMarketItems'[n].highestBid = 0
  <2>1. collectionToMarketItems'[n] = [item EXCEPT !.isAuction = TRUE, !.price = p,
                                                   !.auctionEndTime = now + d]
    BY <1>4 DEF createAuction, auctioned, TypeOK, MarketTypeOK
  <2> QED BY <1>0, <1>1, <2>1 DEF MarketItem
<1>5. ASSUME NEW s \in Users, NEW v \in Values, placeBid(s, n, v)
      PROVE  FALSE
  <2>1. collectionToMarketItems'[n].highestBidder = s
    BY <1>5 DEF placeBid, outbid, TypeOK, MarketTypeOK, MarketItem
  <2> QED BY <2>1, AddressAssumption
<1> QED BY <1>1, <1>2, <1>3, <1>4, <1>5, BooksStep

\* The credits and the standing bid of one token are covered by its bids.
LEMMA TokenCovered ==
  ASSUME TypeOK, UnbidIsZero, BidderNotOvercredited, NEW n \in NFT
  PROVE  SumFunction(pendingReturns[n]) + collectionToMarketItems[n].highestBid
           <= SumFunction(bidsPaid[n])
<1> DEFINE item == collectionToMarketItems[n]
           credit == pendingReturns[n]
           paid == bidsPaid[n]
           standing == [u \in Users |-> Standing(n, u)]
           both == [u \in Users |-> credit[u] + standing[u]]
<1>0. /\ IsFiniteSet(Users)
      /\ credit \in [Users -> Nat] /\ paid \in [Users -> Nat]
      /\ credit \in [Users -> Int] /\ paid \in [Users -> Int]
      /\ item.highestBid \in Nat /\ item.highestBidder \in Users \cup {NoAddr}
  BY FiniteAssumption, MarketAssumption DEF TypeOK, MarketTypeOK, MarketItem, UInt
<1>1. \A u \in Users : credit[u] + standing[u] <= paid[u]
  BY DEF BidderNotOvercredited, OnBooks, Standing
<1>2. standing \in [Users -> Int]
  BY <1>0 DEF Standing
<1>3. /\ both \in [Users -> Int]
      /\ \A u \in Users : both[u] = credit[u] + standing[u] /\ both[u] <= paid[u]
  BY <1>0, <1>1, <1>2
<1>4. SumFunction(standing) = item.highestBid
  <2>1. CASE item.highestBidder = NoAddr
    <3>1. \A u \in Users : standing[u] = 0
      BY <2>1, AddressAssumption DEF Standing
    <3>2. item.highestBid = 0
      BY <2>1 DEF UnbidIsZero
    <3> HIDE DEF standing
    <3> QED BY <1>0, <1>2, <3>1, <3>2, SumZero
  <2>2. CASE item.highestBidder \in Users
    <3>1. PICK x \in Users : x = item.highestBidder
      BY <2>2
    <3>2. \A u \in Users : u # x => standing[u] = 0
      BY <3>1 DEF Standing
    <3>3. standing[x] = item.highestBid
      BY <3>1 DEF Standing
    <3> HIDE DEF standing
    <3>4. SumFunction(standing) = standing[x]
      BY <1>0, <1>2, <3>2, SumSingle
    <3> QED BY <3>3, <3>4
  <2> QED BY <1>0, <2>1, <2>2
<1> HIDE DEF item, credit, paid, standing, both
<1>5. SumFunction(both) = SumFunction(credit) + SumFunction(standing)
  BY <1>0, <1>2, <1>3, SumOfSums
<1>6. SumFunction(both) <= SumFunction(paid)
  BY <1>0, <1>3, SumMonotone
<1> QED BY <1>4, <1>5, <1>6 DEF item, credit, paid

\* What the books owe to bidders is covered by the bids.
LEMMA BidsCovered ==
  ASSUME TypeOK, UnbidIsZero, BidderNotOvercredited
  PROVE  /\ BookTotal(pendingReturns) + BidTotal <= BookTotal(bidsPaid)
         /\ BookTotal(pendingReturns) \in Nat /\ BidTotal \in Nat
<1> DEFINE credits == [n \in NFT |-> SumFunction(pendingReturns[n])]
           bids == [n \in NFT |-> collectionToMarketItems[n].highestBid]
           both == [n \in NFT |-> credits[n] + bids[n]]
           paid == [n \in NFT |-> SumFunction(bidsPaid[n])]
<1>1. /\ \A n \in NFT : SumFunction(pendingReturns[n]) \in Nat
      /\ \A n \in NFT : SumFunction(bidsPaid[n]) \in Nat
      /\ BookTotal(pendingReturns) \in Nat
  BY BookTotalType DEF TypeOK, MarketTypeOK
<1>2. \A n \in NFT : collectionToMarketItems[n].highestBid \in Nat
  BY MarketAssumption DEF TypeOK, MarketTypeOK, MarketItem, UInt
<1>3. /\ credits \in [NFT -> Int] /\ bids \in [NFT -> Int] /\ bids \in [NFT -> Nat]
      /\ both \in [NFT -> Int] /\ paid \in [NFT -> Int]
      /\ \A n \in NFT : both[n] = credits[n] + bids[n]
  BY <1>1, <1>2
<1>4. \A n \in NFT : both[n] <= paid[n]
  BY TokenCovered
<1>5. /\ BookTotal(pendingReturns) = SumFunction(credits) /\ BidTotal = SumFunction(bids)
      /\ BookTotal(bidsPaid) = SumFunction(paid)
  BY DEF BookTotal, BidTotal
<1> HIDE DEF credits, bids, both, paid
<1>6. SumFunction(both) = SumFunction(credits) + SumFunction(bids)
  BY <1>3, FiniteTokens, SumOfSums
<1>7. SumFunction(both) <= SumFunction(paid)
  BY <1>3, <1>4, FiniteTokens, SumMonotone
<1>8. SumFunction(bids) \in Nat
  BY <1>3, FiniteTokens, SumNatural
<1> QED BY <1>1, <1>5, <1>6, <1>7, <1>8

\* The contract can always pay what its books owe.
THEOREM SolventAlways == Spec => []Solvent
<1>1. Init => UnbidIsZero
  BY DEF Init, UnbidIsZero, NoItem
<1>2. TypeOK /\ UnbidIsZero /\ [Next]_vars => UnbidIsZero'
  BY UnbidStep
<1>3. Spec => []UnbidIsZero
  BY <1>1, <1>2, TypeCorrect, PTL DEF Spec
<1>4. TypeOK /\ UnbidIsZero /\ BidderNotOvercredited /\ NothingPaidOut => Solvent
  <2> SUFFICES ASSUME TypeOK, UnbidIsZero, BidderNotOvercredited, NothingPaidOut
               PROVE  Solvent
    OBVIOUS
  <2> DEFINE credits == BookTotal(pendingReturns)
             paid == BookTotal(bidsPaid)
  <2>1. credits + BidTotal <= paid /\ credits \in Nat /\ BidTotal \in Nat
    BY BidsCovered
  <2>2. /\ paid \in Nat /\ OfferTotal \in Nat
        /\ SumFunction([c \in Collections |-> Len(collectionTokenIds[c])]) \in Nat
    BY TotalsType DEF TypeOK
  <2>3. FeesPaid \in Nat
    <3>1. \A k \in Nat : ListingFee * k \in Nat
      BY MarketAssumption
    <3> QED BY <2>2, <3>1 DEF FeesPaid
  <2>4. balance = FeesPaid + paid + OfferTotal
    BY DEF NothingPaidOut
  <2> HIDE DEF credits, paid
  <2>5. credits + BidTotal + OfferTotal <= balance
    BY <2>1, <2>2, <2>3, <2>4
  <2> QED BY <2>5 DEF Solvent, Owed, credits
<1> QED BY <1>3, <1>4, TypeCorrect, BidderNotOvercreditedAlways, NothingPaidOutAlways, PTL

=============================================================================
