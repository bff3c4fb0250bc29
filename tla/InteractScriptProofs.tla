------------------------ MODULE InteractScriptProofs ------------------------
(***************************************************************************)
(* scripts/interact.js beside other users of the contracts: it is one use  *)
(* of the marketplace, its supply check holds and its sale is paid once.   *)
(***************************************************************************)
EXTENDS InteractScript, RegistryProofs

----------------------------------------------------------------------------
(* The inductive invariants *)

\* The lines before the script has chosen a collection, after its purchase has
\* gone through, and after its listing has.
Choosing == {"createFirst", "createSecond", "fetchOwn", "choose"}
Bought == {"fetchPurchases", "search", "done"}
Listed == {"buy"} \cup Bought

\* What makes SupplyCheckHolds inductive: once the script has minted in it the
\* collection is its own, and nobody else changes either supply.
OwnInv ==
  /\ at \notin Choosing => chosen \in Collections
  /\ at \notin Choosing \cup {"mintFirst"} =>
       chosen \in deployed /\ contractOwner[chosen] = Seller
  /\ at \in {"readSupply", "compareSupply"} =>
       collections[chosen].totalSupply = tokenIds[chosen]
  /\ at = "compareSupply" => seenSupply = tokenIds[chosen]
  /\ SupplyCheckHolds

\* What makes SwapCompletes inductive, besides OwnInv and the invariants of
\* module NFTMarketplace.  The buyer sells nothing and lets nobody act for it;
\* what the seller has for sale is the one token, at the price asked, and only
\* until somebody has bought it.
Unlisted ==
  /\ wallet[Seller] = InitialWallet
  /\ \A n \in NFT : collectionToMarketItems[n].seller # Seller
OnOffer(f) ==
  /\ wallet[Seller] = InitialWallet - ListingFee
  /\ \A n \in NFT : collectionToMarketItems[n].seller = Seller => n = f
  /\ collectionToMarketItems[f].isOnSale
  /\ collectionToMarketItems[f].seller = Seller
  /\ collectionToMarketItems[f].price = Price
  /\ ~collectionToMarketItems[f].isAuction
Paid ==
  /\ wallet[Seller] = InitialWallet - ListingFee + Price
  /\ \A n \in NFT : collectionToMarketItems[n].seller = Seller =>
                      ~collectionToMarketItems[n].isOnSale

SellerInv ==
  \/ at \notin Listed /\ Unlisted
  \/ at \in Listed \ Bought /\ OnOffer(first)
  \/ at \in Listed /\ Paid

BuyerInv ==
  /\ \A n \in NFT : collectionToMarketItems[n].seller # Buyer
  /\ \A c \in Collections, u \in Address : <<c, Buyer, u>> \notin operatorApprovals
  /\ at \notin Bought => wallet[Buyer] = InitialWallet
  /\ at \in Bought =>
       /\ wallet[Buyer] = InitialWallet - Price
       /\ owners[first] = Buyer
       /\ tokenApprovals[first] = NoAddr
       /\ ~collectionToMarketItems[first].isOnSale

\* What makes FailureExplained inductive, besides all this.  A token that is not
\* minted is approved to nobody and was never listed.
BlankInv ==
  \A n \in NFT : owners[n] = NoAddr =>
    /\ n[2] > tokenIds[n[1]]
    /\ tokenApprovals[n] = NoAddr
    /\ collectionToMarketItems[n].seller = NoAddr

\* The collections that the script has created are its own, and empty until it
\* mints in one of them; the seller lets nobody act for it.
Minted == {"readSupply", "compareSupply", "readOwners", "approveMarket", "list"}
CreatedInv ==
  /\ \A c \in created : c \in deployed /\ contractOwner[c] = Seller
  /\ at # "createFirst" => created # {}
  /\ at \in Choosing \cup {"mintFirst"} => \A c \in created : tokenIds[c] = 0
  /\ at = "mintSecond" =>
       tokenIds[chosen] >= 1 /\ (chosen \in created => tokenIds[chosen] = 1)
  /\ at \in Minted => tokenIds[chosen] >= 2
  /\ \A c \in Collections, x \in Address : <<c, Seller, x>> \notin operatorApprovals

\* In a collection of its own the tokens it mints are the first two, and nobody
\* takes or lists them.
second == <<chosen, 2>>
TokenInv ==
  chosen \in created =>
    /\ at \in Minted \cup {"mintSecond"} =>
         /\ owners[first] = Seller
         /\ tokenApprovals[first] = IF at = "list" THEN Market ELSE NoAddr
         /\ collectionToMarketItems[first].seller = NoAddr
    /\ at \in Minted =>
         /\ owners[second] = Seller
         /\ tokenApprovals[second] = NoAddr

\* The buyer buys one token.  Whoever takes it from the offer before, or lists it
\* a second time, is among the others and has bought it.
BoughtByOther == \E u \in Others : first \in userPurchases[u]
BooksInv ==
  /\ at \notin Bought => userPurchases[Buyer] = {} /\ userPurchaseCount[Buyer] = 0
  /\ at \in Bought => userPurchases[Buyer] = {first} /\ userPurchaseCount[Buyer] = 1
  /\ at = "buy" => OnOffer(first) \/ BoughtByOther
  /\ chosen \in created /\ at \in Listed =>
       Occurrences(1, collectionTokenIds[chosen]) = 1 \/ BoughtByOther

\* The invariants that the argument takes from the contracts, and its own.
ContractInv ==
  /\ TypeOK /\ CustodyInv /\ BlankInv
  /\ RegistryConsistent /\ SupplyInv /\ TokenIndexComplete
PathInv == CreatedInv /\ TokenInv /\ BooksInv /\ FailureExplained

----------------------------------------------------------------------------
(* The script's calls are calls of the marketplace's users *)

\* What a line of the script does to the contracts: nothing, and it neither lists
\* nor buys, or a call of one of the two signers.
ScriptCall ==
  \/ /\ UNCHANGED vars
     /\ at' \in Listed <=> at \in Listed
     /\ at' \in Bought <=> at \in Bought
  \/ /\ at \in {"createFirst", "createSecond", "mintFirst", "mintSecond", "approveMarket"}
     /\ CollectionCall(Seller) /\ UNCHANGED marketVars
     /\ at' \notin Listed
  \/ at = "list" /\ at' = "buy" /\ createMarketItem(Seller, first, Price)
  \/ /\ at = "buy" /\ at' = "fetchPurchases"
     /\ collectionToMarketItems[first].price = Price
     /\ createMarketSale(Buyer, first)

\* The token that the script trades exists in the model.
LEMMA FirstToken ==
  ASSUME chosen \in Collections
  PROVE  first \in NFT /\ first[1] = chosen
<1>1. 1 \in TokenId
  BY AddressAssumption, ScriptAssumption DEF TokenId
<1> QED BY <1>1 DEF first, NFT

\* The signers are users, and neither of them is one of the others.
LEMMA Signers ==
  /\ Seller \in Users /\ Buyer \in Users /\ Buyer # Seller
  /\ Seller \notin Others /\ Buyer \notin Others /\ Others \subseteq Users
  /\ Seller \notin Contracts
  /\ Price \in Nat /\ Price > 0 /\ InitialWallet \in Nat /\ ListingFee \in Nat
BY ScriptAssumption, MarketAssumption

\* Every line of the script is such a step.
LEMMA ScriptStepCalls ==
  ASSUME OwnInv, ScriptStep
  PROVE  ScriptCall
<1>1. ASSUME NEW k \in UsedCategories, NEW c \in Collections, createCollection(Seller, c, k)
      PROVE  CollectionCall(Seller) /\ UNCHANGED marketVars
  <2>1. CollectionCall(Seller)
    BY <1>1, Zenon DEF CollectionCall
  <2> QED BY <1>1, <2>1 DEF createCollection
<1>2. CASE createFirst
  <2>1. PICK c \in Collections : createCollection(Seller, c, "Art")
    BY <1>2 DEF createFirst, create
  <2>2. at = "createFirst" /\ at' = "createSecond" /\ "Art" \in UsedCategories
    BY <1>2, ScriptAssumption DEF createFirst, create, At, Goto
  <2>3. CollectionCall(Seller) /\ UNCHANGED marketVars
    BY <1>1, <2>1, <2>2
  <2> QED BY <2>2, <2>3 DEF ScriptCall, Listed, Bought
<1>3. CASE createSecond
  <2>1. PICK c \in Collections : createCollection(Seller, c, "Gaming")
    BY <1>3 DEF createSecond, create
  <2>2. at = "createSecond" /\ at' = "fetchOwn" /\ "Gaming" \in UsedCategories
    BY <1>3, ScriptAssumption DEF createSecond, create, At, Goto
  <2>3. CollectionCall(Seller) /\ UNCHANGED marketVars
    BY <1>1, <2>1, <2>2
  <2> QED BY <2>2, <2>3 DEF ScriptCall, Listed, Bought
<1>4. ASSUME mintToSelf, chosen \in Collections
      PROVE  CollectionCall(Seller) /\ UNCHANGED marketVars
  <2>1. PICK uri \in URIs : mint(Seller, chosen, Seller, uri)
    BY <1>4 DEF mintToSelf
  <2>2. CollectionCall(Seller)
    BY <1>4, <2>1, Signers, Zenon DEF CollectionCall
  <2> QED BY <2>1, <2>2 DEF mint
<1>5. CASE mintFirst
  <2>1. /\ at = "mintFirst" /\ chosen \in Collections
        /\ \/ mintToSelf /\ at' = "mintSecond"
           \/ at' = at /\ UNCHANGED vars
    BY <1>5 DEF mintFirst, transact, At, Goto, Throw, OwnInv, Choosing
  <2> QED BY <1>4, <2>1 DEF ScriptCall, Listed, Bought
<1>6. CASE mintSecond
  <2>1. /\ at = "mintSecond" /\ chosen \in Collections
        /\ \/ mintToSelf /\ at' = "readSupply"
           \/ at' = at /\ UNCHANGED vars
    BY <1>6 DEF mintSecond, transact, At, Goto, Throw, OwnInv, Choosing
  <2> QED BY <1>4, <2>1 DEF ScriptCall, Listed, Bought
<1>7. CASE approveMarket
  <2>1. /\ at = "approveMarket" /\ chosen \in Collections
        /\ \/ approve(Seller, Market, first) /\ at' = "list"
           \/ at' = at /\ UNCHANGED vars
    BY <1>7 DEF approveMarket, transact, At, Goto, Throw, OwnInv, Choosing
  <2>2. ASSUME approve(Seller, Market, first)
        PROVE  CollectionCall(Seller) /\ UNCHANGED marketVars
    <3>1. PICK n \in NFT : n = first
      BY <2>1, FirstToken
    <3>2. PICK to \in Spenders \cup {NoAddr} : to = Market
      BY ScriptAssumption
    <3>3. approve(Seller, to, n)
      BY <2>2, <3>1, <3>2
    <3>4. CollectionCall(Seller)
      BY <3>3, Zenon DEF CollectionCall
    <3> QED BY <2>2, <3>4 DEF approve
  <2> QED BY <2>1, <2>2 DEF ScriptCall, Listed, Bought
<1>8. CASE list
  BY <1>8 DEF list, transact, At, Goto, Throw, ScriptCall
<1>9. CASE buy
  BY <1>9 DEF buy, buyable, transact, At, Goto, Throw, ScriptCall
<1>10. CASE fetchOwn \/ choose \/ readSupply \/ compareSupply \/ readOwners
              \/ fetchPurchases \/ search
  <2>1. UNCHANGED vars
    BY <1>10, Zenon DEF fetchOwn, choose, readSupply, compareSupply, readOwners, fetchPurchases,
                        search, await
  <2>2. \/ at \in Bought /\ at' \in Bought
        \/ at \notin Listed /\ at' \notin Listed
    BY <1>10 DEF fetchOwn, choose, readSupply, compareSupply, readOwners, fetchPurchases, search,
                 await, At, Listed, Bought
  <2> QED BY <2>1, <2>2 DEF ScriptCall, Listed
<1> QED BY <1>2, <1>3, <1>5, <1>6, <1>7, <1>8, <1>9, <1>10, Zenon DEF ScriptStep

\* So is every step a step of the marketplace's users.
LEMMA ScriptMarketStep ==
  ASSUME OwnInv, [ScriptNext]_allVars
  PROVE  [Next]_vars
<1>1. CASE ScriptStep
  <2>1. ScriptCall
    BY <1>1, ScriptStepCalls
  <2>2. CASE CollectionCall(Seller)
    BY <2>2, Signers DEF Next, CollectionStep
  <2>3. CASE at = "list" /\ createMarketItem(Seller, first, Price)
    <3>1. PICK n \in NFT : n = first
      BY <2>3, FirstToken DEF OwnInv, Choosing
    <3>2. PICK p \in Values : p = Price
      BY ScriptAssumption
    <3>3. createMarketItem(Seller, n, p)
      BY <2>3, <3>1, <3>2
    <3>4. MarketCall(Seller)
      BY <3>3, Zenon DEF MarketCall
    <3> QED BY <3>4, Signers DEF Next, MarketStep
  <2>4. CASE at = "buy" /\ createMarketSale(Buyer, first)
    <3>1. PICK n \in NFT : n = first
      BY <2>4, FirstToken DEF OwnInv, Choosing
    <3>3. createMarketSale(Buyer, n)
      BY <2>4, <3>1
    <3>4. MarketCall(Buyer)
      BY <3>3, Zenon DEF MarketCall
    <3> QED BY <3>4, Signers DEF Next, MarketStep
  <2> QED BY <2>1, <2>2, <2>3, <2>4 DEF ScriptCall
<1>2. CASE OtherStep
  BY <1>2, Signers DEF OtherStep, Next, CollectionStep, MarketStep
<1>3. CASE UNCHANGED allVars
  BY <1>3 DEF allVars
<1> QED BY <1>1, <1>2, <1>3 DEF ScriptNext

----------------------------------------------------------------------------
(* The collection that the script has chosen *)

\* Only its owner changes the supply or the owner of a collection.
LEMMA OthersKeep ==
  ASSUME TypeOK, NEW u \in Users, CollectionCall(u) \/ MarketCall(u),
         NEW c \in Collections, c \in deployed, contractOwner[c] # u
  PROVE  /\ c \in deployed' /\ contractOwner'[c] = contractOwner[c]
         /\ tokenIds'[c] = tokenIds[c] /\ collections'[c] = collections[c]
<1> DEFINE Kept == /\ c \in deployed' /\ contractOwner'[c] = contractOwner[c]
                   /\ tokenIds'[c] = tokenIds[c] /\ collections'[c] = collections[c]
<1>0. /\ contractOwner \in [Ownables -> Users \cup {NoAddr}] /\ c \in Ownables
      /\ tokenIds \in [Collections -> 0..MaxTokens]
      /\ collections \in [Collections -> CollectionRecord]
  BY DEF TypeOK, CollectionTypeOK, RegistryTypeOK, Ownables
<1>1. ASSUME NEW k, addCategory(u, k) PROVE Kept
  BY <1>1 DEF addCategory, registerCategory, collectionVars
<1>2. ASSUME NEW d \in Collections, NEW k, createCollection(u, d, k) PROVE Kept
  <2>1. d # c
    BY <1>2 DEF createCollection, construct
  <2> QED BY <1>0, <1>2, <2>1 DEF createCollection, construct, registerCollection
<1>3. ASSUME NEW d \in Collections, NEW to, NEW uri,
             mint(u, d, to, uri) \/ mintCallReceiver(u, d, to, uri)
      PROVE  Kept
  <2>1. d # c
    BY <1>3 DEF mint, mintCallReceiver, mintToken
  <2> QED BY <1>0, <1>3, <2>1 DEF mint, mintCallReceiver, mintToken, updateCollectionTotalSupply,
                                  registryVars
<1>4. ASSUME NEW n, NEW to, approve(u, to, n) PROVE Kept
  BY <1>4 DEF approve, erc721Approve, registryVars
<1>5. ASSUME NEW d, NEW op, NEW allowed, setApprovalForAll(u, d, op, allowed) PROVE Kept
  BY <1>5 DEF setApprovalForAll, erc721SetApprovalForAll, registryVars
<1>6. ASSUME NEW n, NEW to, transferFrom(u, to, n) PROVE Kept
  BY <1>6 DEF transferFrom, registryVars
<1>7. ASSUME NEW o \in Ownables, NEW to, transferOwnership(u, o, to) PROVE Kept
  <2>1. o # c
    BY <1>7 DEF transferOwnership, ownableTransferOwnership
  <2> QED BY <1>0, <1>7, <2>1 DEF transferOwnership, ownableTransferOwnership, registryVars
<1>8. CollectionCall(u) => Kept
  <2> HIDE DEF Kept
  <2> QED BY <1>1, <1>2, <1>3, <1>4, <1>5, <1>6, <1>7, Zenon DEF CollectionCall
<1>9. MarketCall(u) => Kept
  BY DEF MarketCall, createMarketItem, createMarketSale, createAuction, placeBid, makeOffer,
         collectionVars, registryVars
<1> QED BY <1>8, <1>9

\* The end of a mint to a contract touches one supply and one URI.
LEMMA MintReturnKeeps ==
  ASSUME TypeOK, mintReturn
  PROVE  /\ UNCHANGED <<deployed, contractOwner, tokenIds, owners, tokenApprovals,
                         operatorApprovals>>
         /\ UNCHANGED marketVars
         /\ \A c \in Collections : collections[c].totalSupply = tokenIds[c]
              => collections'[c].totalSupply = tokenIds[c]
<1>1. /\ UNCHANGED <<deployed, contractOwner, tokenIds, owners, tokenApprovals,
                      operatorApprovals>>
      /\ UNCHANGED marketVars
      /\ \E d : collections' = [collections EXCEPT ![d].totalSupply = tokenIds'[d]]
  BY DEF mintReturn, updateCollectionTotalSupply
<1>2. PICK d : collections' = [collections EXCEPT ![d].totalSupply = tokenIds'[d]]
  BY <1>1
<1>3. ASSUME NEW c \in Collections, collections[c].totalSupply = tokenIds[c]
      PROVE  collections'[c].totalSupply = tokenIds[c]
  <2>1. collections \in [Collections -> CollectionRecord]
    BY DEF TypeOK, RegistryTypeOK
  <2>2. CASE c = d
    <3>1. collections'[c] = [collections[c] EXCEPT !.totalSupply = tokenIds[c]]
      BY <1>1, <1>2, <2>1, <2>2
    <3> QED BY <2>1, <3>1 DEF CollectionRecord
  <2>3. CASE c # d
    BY <1>2, <1>3, <2>1, <2>3
  <2> QED BY <2>2, <2>3
<1> QED BY <1>1, <1>3

\* What the others do to a collection of the script's account.
LEMMA OthersKeepSeller ==
  ASSUME TypeOK, OtherStep, NEW c \in Collections, c \in deployed, contractOwner[c] = Seller
  PROVE  /\ c \in deployed' /\ contractOwner'[c] = Seller
         /\ tokenIds'[c] = tokenIds[c]
         /\ collections[c].totalSupply = tokenIds[c]
              => collections'[c].totalSupply = tokenIds[c]
<1>1. CASE mintReturn
  BY <1>1, MintReturnKeeps
<1>2. ASSUME NEW u \in Others, CollectionCall(u) \/ MarketCall(u)
      PROVE  /\ c \in deployed' /\ contractOwner'[c] = Seller
             /\ tokenIds'[c] = tokenIds[c] /\ collections'[c] = collections[c]
  <2>1. u \in Users /\ contractOwner[c] # u
    BY Signers
  <2> QED BY <1>2, <2>1, OthersKeep
<1> QED BY <1>1, <1>2 DEF OtherStep

\* The others keep what the script relies on in its collection.
LEMMA OthersKeepOwn ==
  ASSUME TypeOK, OwnInv, OtherStep
  PROVE  OwnInv'
<1>1. ASSUME NEW c \in Collections, c \in deployed, contractOwner[c] = Seller
      PROVE  /\ c \in deployed' /\ contractOwner'[c] = Seller
             /\ tokenIds'[c] = tokenIds[c]
             /\ collections[c].totalSupply = tokenIds[c]
                  => collections'[c].totalSupply = tokenIds[c]
  BY <1>1, OthersKeepSeller
<1>2. UNCHANGED <<at, failed, created, chosen, seenSupply>>
  BY DEF OtherStep, scriptVars, locals
<1>3. ASSUME at \notin Choosing \cup {"mintFirst"}
      PROVE  /\ chosen \in deployed' /\ contractOwner'[chosen] = Seller
             /\ tokenIds'[chosen] = tokenIds[chosen]
             /\ collections[chosen].totalSupply = tokenIds[chosen]
                  => collections'[chosen].totalSupply = tokenIds[chosen]
  <2>1. PICK c \in Collections : c = chosen
    BY <1>3 DEF OwnInv
  <2>2. c \in deployed /\ contractOwner[c] = Seller
    BY <1>3, <2>1 DEF OwnInv
  <2> QED BY <1>1, <2>1, <2>2
<1>4. SupplyCheckHolds'
  BY <1>2 DEF OwnInv, SupplyCheckHolds
<1>5. at \in {"readSupply", "compareSupply"} => at \notin Choosing \cup {"mintFirst"}
  BY DEF Choosing
<1> QED BY <1>2, <1>3, <1>4, <1>5 DEF OwnInv

\* So does the script itself.
LEMMA ScriptKeepsOwn ==
  ASSUME TypeOK, OwnInv, ScriptStep
  PROVE  OwnInv'
<1> USE DEF At, Goto, Choosing, SupplyCheckHolds
<1>1. CASE createFirst \/ createSecond
  BY <1>1 DEF createFirst, createSecond, create, OwnInv
<1>2. CASE fetchOwn
  BY <1>2 DEF fetchOwn, await, OwnInv
<1>3. CASE choose
  <2> DEFINE found == fetchCollections # <<>> /\ ~fetchReverts(fetchCollections)
  <2>0. found \in BOOLEAN
    BY DEF fetchReverts
  <2>1. /\ at = "choose" /\ failed' = ~found
        /\ at' = IF found THEN "mintFirst" ELSE at
        /\ chosen' = IF found THEN Last(fetchCollections) ELSE chosen
    BY <1>3 DEF choose, await
  <2>2. ASSUME found PROVE Last(fetchCollections) \in Collections
    <3>1. PICK seq \in Seq(Collections) : seq = collectionAddresses
      BY DEF TypeOK, RegistryTypeOK
    <3>2. seq # <<>>
      BY <2>2, <3>1 DEF fetchCollections
    <3>3. seq[Len(seq)] \in Collections
      BY <3>2
    <3> QED BY <3>1, <3>3 DEF Last, fetchCollections
  <2> HIDE DEF found
  <2> QED BY <2>0, <2>1, <2>2 DEF OwnInv
<1>4. ASSUME mintToSelf, chosen \in Collections
      PROVE  /\ chosen \in deployed' /\ contractOwner'[chosen] = Seller
             /\ collections'[chosen].totalSupply = tokenIds'[chosen]
  <2>1. PICK uri \in URIs : mint(Seller, chosen, Seller, uri)
    BY <1>4 DEF mintToSelf
  <2>2. collections \in [Collections -> CollectionRecord]
    BY DEF TypeOK, RegistryTypeOK
  <2> QED BY <1>4, <2>1, <2>2 DEF mint, mintToken, updateCollectionTotalSupply, CollectionRecord
<1>5. CASE mintFirst
  <2>1. /\ at = "mintFirst" /\ chosen \in Collections /\ UNCHANGED <<chosen, seenSupply>>
        /\ \/ mintToSelf /\ at' = "mintSecond"
           \/ at' = at
    BY <1>5 DEF mintFirst, transact, Throw, OwnInv, locals
  <2> QED BY <1>4, <2>1 DEF OwnInv
<1>6. CASE mintSecond
  <2>1. /\ at = "mintSecond" /\ chosen \in Collections /\ UNCHANGED <<chosen, seenSupply>>
        /\ \/ mintToSelf /\ at' = "readSupply"
           \/ at' = at /\ UNCHANGED vars
    BY <1>6 DEF mintSecond, transact, Throw, OwnInv, locals
  <2>2. CASE mintToSelf /\ at' = "readSupply"
    BY <1>4, <2>1, <2>2 DEF OwnInv
  <2>3. CASE at' = at /\ UNCHANGED vars
    BY <2>1, <2>3 DEF OwnInv, vars, collectionVars
  <2> QED BY <2>1, <2>2, <2>3
<1>7. CASE readSupply
  <2>1. /\ at = "readSupply" /\ at' \in {"readSupply", "compareSupply"} /\ chosen' = chosen
        /\ seenSupply' = collections[chosen].totalSupply
        /\ UNCHANGED vars
        /\ failed' = (at' # "compareSupply")
    <3>1. collections[chosen].isActive \in BOOLEAN
      <4>1. chosen \in Collections
        BY <1>7 DEF readSupply, OwnInv
      <4> QED BY <4>1 DEF TypeOK, RegistryTypeOK, CollectionRecord
    <3> QED BY <1>7, <3>1 DEF readSupply, await
  <2> QED BY <2>1 DEF OwnInv, vars, collectionVars, registryVars
<1>8. CASE compareSupply
  <2>1. at = "compareSupply" /\ tokenIds[chosen] = seenSupply
    BY <1>8 DEF compareSupply, OwnInv
  <2>2. at' = "readOwners" /\ UNCHANGED <<vars, locals>>
    BY <1>8, <2>1 DEF compareSupply, await
  <2> QED BY <2>1, <2>2 DEF OwnInv, vars, collectionVars, locals
<1>9. CASE readOwners \/ fetchPurchases \/ search
  <2>1. /\ at \in {"readOwners", "fetchPurchases", "search"}
        /\ at' \in {"readOwners", "approveMarket", "fetchPurchases", "search", "done"}
        /\ UNCHANGED <<vars, locals>>
    BY <1>9 DEF readOwners, fetchPurchases, search, await
  <2> QED BY <2>1 DEF OwnInv, vars, collectionVars, locals
<1>10. CASE approveMarket \/ list \/ buy
  <2>1. /\ at \in {"approveMarket", "list", "buy"}
        /\ at' \in {"approveMarket", "list", "buy", "fetchPurchases"}
        /\ UNCHANGED <<deployed, contractOwner, chosen>>
    BY <1>10 DEF approveMarket, list, buy, transact, Throw, locals, approve, erc721Approve,
                 createMarketItem, createMarketSale, vars, collectionVars
  <2> QED BY <2>1 DEF OwnInv
<1> QED BY <1>1, <1>2, <1>3, <1>5, <1>6, <1>7, <1>8, <1>9, <1>10, Zenon DEF ScriptStep

\* Nothing else is known of the initial state.
LEMMA OwnInit == ScriptInit => OwnInv
BY DEF ScriptInit, OwnInv, Choosing, SupplyCheckHolds

\* Every step keeps both.
LEMMA OwnStep ==
  ASSUME TypeOK, OwnInv, [ScriptNext]_allVars
  PROVE  TypeOK' /\ OwnInv'
<1>1. TypeOK'
  BY ScriptMarketStep, TypeStep
<1>2. CASE UNCHANGED allVars
  <2>1. UNCHANGED <<at, failed, chosen, seenSupply, deployed, contractOwner, tokenIds, collections>>
    BY <1>2 DEF allVars, vars, collectionVars, registryVars, scriptVars, locals
  <2>2. SupplyCheckHolds'
    BY <2>1 DEF OwnInv, SupplyCheckHolds
  <2>3. OwnInv'
    BY <2>1, <2>2 DEF OwnInv
  <2> QED BY <1>1, <2>3
<1> QED BY <1>1, <1>2, OthersKeepOwn, ScriptKeepsOwn DEF ScriptNext

\* The script is one way of using the contracts: what they guarantee to all
\* their users, they guarantee beside it.
THEOREM ScriptUsesMarket == ScriptSpec => Spec
<1>1. ScriptInit => Init /\ TypeOK
  BY TypeInit DEF ScriptInit
<1>2. TypeOK /\ OwnInv /\ [ScriptNext]_allVars => TypeOK' /\ OwnInv'
  BY OwnStep
<1>3. OwnInv /\ [ScriptNext]_allVars => [Next]_vars
  BY ScriptMarketStep
<1> QED BY <1>1, <1>2, <1>3, OwnInit, PTL DEF ScriptSpec, Spec

\* OwnInv holds in every reachable state.
LEMMA OwnInvAlways == ScriptSpec => []OwnInv
<1>1. ScriptInit => TypeOK
  BY TypeInit DEF ScriptInit
<1>2. TypeOK /\ OwnInv /\ [ScriptNext]_allVars => TypeOK' /\ OwnInv'
  BY OwnStep
<1> QED BY <1>1, <1>2, OwnInit, PTL DEF ScriptSpec

\* The script never stops with "Total supply mismatch".
THEOREM SupplyCheckHoldsAlways == ScriptSpec => []SupplyCheckHolds
<1>1. OwnInv => SupplyCheckHolds
  BY DEF OwnInv
<1> QED BY <1>1, OwnInvAlways, PTL

----------------------------------------------------------------------------
(* The sale *)

\* What it is about an item that its seller relies on.
SameDeal(n) ==
  /\ collectionToMarketItems'[n].seller = collectionToMarketItems[n].seller
  /\ collectionToMarketItems'[n].price = collectionToMarketItems[n].price
  /\ collectionToMarketItems'[n].isOnSale = collectionToMarketItems[n].isOnSale
  /\ collectionToMarketItems'[n].isAuction = collectionToMarketItems[n].isAuction

\* The two things that can happen to an account when another one, u, makes a
\* call: nothing, or one of its items is sold to u for the price it asked.
Uninvolved(a) ==
  /\ wallet'[a] = wallet[a]
  /\ \A n \in NFT : collectionToMarketItems'[n].seller = a => SameDeal(n)
  /\ \A n \in NFT : collectionToMarketItems[n].seller = a /\ collectionToMarketItems[n].isOnSale
                      => SameDeal(n)
SoldFor(a, n, u) ==
  /\ collectionToMarketItems[n].seller = a /\ collectionToMarketItems[n].isOnSale
  /\ wallet'[a] = wallet[a] + collectionToMarketItems[n].price
  /\ collectionToMarketItems'[n].seller = a /\ ~collectionToMarketItems'[n].isOnSale
  /\ n \in userPurchases'[u]
  /\ \A m \in NFT : m # n => SameDeal(m)

LEMMA MarketCallEffect ==
  ASSUME TypeOK, EscrowCustody, NEW u \in Users, NEW a \in Users, a # u, MarketCall(u)
  PROVE  Uninvolved(a) \/ \E n \in NFT : SoldFor(a, n, u)
<1> DEFINE Effect == Uninvolved(a) \/ \E n \in NFT : SoldFor(a, n, u)
<1>0. /\ collectionToMarketItems \in [NFT -> MarketItem] /\ wallet \in [Users -> Nat]
      /\ userPurchases \in [Users -> SUBSET NFT] /\ u # Market
  BY AddressAssumption DEF TypeOK, MarketTypeOK
<1>1. ASSUME NEW v, deposit(u, v) PROVE wallet'[a] = wallet[a]
  BY <1>0, <1>1 DEF deposit
<1>2. ASSUME NEW n \in NFT, NEW p \in Values, createMarketItem(u, n, p) PROVE Effect
  <2>1. wallet'[a] = wallet[a]
    BY <1>1, <1>2 DEF createMarketItem
  <2>2. /\ collectionToMarketItems' = [collectionToMarketItems EXCEPT ![n] = listed(u, n, p)]
        /\ owners[n] = u
    BY <1>2 DEF createMarketItem, erc721TransferFrom
  <2>3. \A m \in NFT : m # n => SameDeal(m)
    BY <1>0, <2>2 DEF SameDeal
  <2>4. collectionToMarketItems'[n].seller # a
    BY <1>0, <2>2 DEF listed
  <2>5. ~collectionToMarketItems[n].isOnSale
    BY <1>0, <2>2 DEF EscrowCustody
  <2> QED BY <2>1, <2>3, <2>4, <2>5 DEF Uninvolved
<1>3. ASSUME NEW n \in NFT, createMarketSale(u, n) PROVE Effect
  <2> DEFINE item == collectionToMarketItems[n]
  <2>1. /\ item \in MarketItem /\ item.isOnSale
        /\ collectionToMarketItems' = [collectionToMarketItems EXCEPT ![n] = sold(item, u)]
    BY <1>0, <1>3 DEF createMarketSale, forSale
  <2>2. \A m \in NFT : m # n => SameDeal(m)
    BY <1>0, <2>1 DEF SameDeal
  <2>3. collectionToMarketItems'[n].seller = item.seller /\ ~collectionToMarketItems'[n].isOnSale
    BY <1>0, <2>1 DEF sold, MarketItem
  <2>4. PICK p \in Nat : p = item.price
    BY <2>1, MarketAssumption DEF MarketItem, UInt
  <2>5. /\ item.seller \in Users
        /\ wallet' = [[wallet EXCEPT ![u] = @ - p] EXCEPT ![item.seller] = @ + p]
    BY <1>3, <2>4, MarketAssumption DEF createMarketSale, paySeller
  <2>6. CASE item.seller = a
    <3>1. wallet'[a] = wallet[a] + item.price
      BY <1>0, <2>4, <2>5, <2>6
    <3>2. n \in userPurchases'[u]
      BY <1>0, <1>3 DEF createMarketSale
    <3> QED BY <2>1, <2>2, <2>3, <2>6, <3>1, <3>2 DEF SoldFor
  <2>7. CASE item.seller # a
    <3>1. wallet'[a] = wallet[a]
      BY <1>0, <2>5, <2>7
    <3> QED BY <2>2, <2>3, <2>7, <3>1 DEF Uninvolved
  <2> QED BY <2>6, <2>7
<1>4. ASSUME NEW n \in NFT, NEW p \in Values, NEW d \in Durations, createAuction(u, n, p, d)
      PROVE  Effect
  <2> DEFINE item == collectionToMarketItems[n]
  <2>1. /\ item \in MarketItem /\ item.seller = u /\ wallet' = wallet
        /\ collectionToMarketItems' =
             [collectionToMarketItems EXCEPT ![n] = auctioned(item, p, now + d)]
    BY <1>0, <1>4 DEF createAuction
  <2>2. \A m \in NFT : m # n => SameDeal(m)
    BY <1>0, <2>1 DEF SameDeal
  <2>3. collectionToMarketItems'[n].seller = u
    BY <1>0, <2>1 DEF auctioned, MarketItem
  <2> QED BY <2>1, <2>2, <2>3 DEF Uninvolved
<1>5. ASSUME NEW n \in NFT, NEW v \in Values, placeBid(u, n, v) PROVE Effect
  <2> DEFINE item == collectionToMarketItems[n]
  <2>1. /\ item \in MarketItem
        /\ collectionToMarketItems' = [collectionToMarketItems EXCEPT ![n] = outbid(item, u, v)]
    BY <1>0, <1>5 DEF placeBid
  <2>2. \A m \in NFT : SameDeal(m)
    BY <1>0, <2>1 DEF SameDeal, outbid, MarketItem
  <2>3. wallet'[a] = wallet[a]
    BY <1>1, <1>5 DEF placeBid
  <2> QED BY <2>2, <2>3 DEF Uninvolved
<1>6. ASSUME NEW n \in NFT, NEW v \in Values, makeOffer(u, n, v) PROVE Effect
  <2>1. wallet'[a] = wallet[a] /\ \A m \in NFT : SameDeal(m)
    BY <1>1, <1>6 DEF makeOffer, SameDeal
  <2> QED BY <2>1 DEF Uninvolved
<1> HIDE DEF Effect
<1>7. Effect
  BY <1>2, <1>3, <1>4, <1>5, <1>6, Zenon DEF MarketCall
<1> QED BY <1>7 DEF Effect

\* Nobody but an account itself lets others act for it.
LEMMA OthersApprove ==
  ASSUME NEW u, NEW a, a # u, CollectionCall(u) \/ MarketCall(u), NEW c, NEW x,
         <<c, a, x>> \notin operatorApprovals
  PROVE  <<c, a, x>> \notin operatorApprovals'
<1>1. CASE operatorApprovals' = operatorApprovals
  BY <1>1
<1>2. ASSUME NEW d, NEW op, NEW allowed, setApprovalForAll(u, d, op, allowed)
      PROVE  <<c, a, x>> \notin operatorApprovals'
  <2>1. <<c, a, x>> # <<d, u, op>>
    OBVIOUS
  <2> QED BY <1>2, <2>1 DEF setApprovalForAll, erc721SetApprovalForAll
<1>3. CollectionCall(u) => \/ operatorApprovals' = operatorApprovals
                           \/ \E d, op, allowed : setApprovalForAll(u, d, op, allowed)
  <2>1. ASSUME NEW k, addCategory(u, k) PROVE operatorApprovals' = operatorApprovals
    BY <2>1 DEF addCategory, collectionVars
  <2>2. ASSUME NEW d, NEW k, createCollection(u, d, k) PROVE operatorApprovals' = operatorApprovals
    BY <2>2 DEF createCollection, construct
  <2>3. ASSUME NEW d, NEW to, NEW uri, mint(u, d, to, uri) \/ mintCallReceiver(u, d, to, uri)
        PROVE  operatorApprovals' = operatorApprovals
    BY <2>3 DEF mint, mintCallReceiver, mintToken
  <2>4. ASSUME NEW n, NEW to, approve(u, to, n) PROVE operatorApprovals' = operatorApprovals
    BY <2>4 DEF approve, erc721Approve
  <2>5. ASSUME NEW n, NEW to, transferFrom(u, to, n) PROVE operatorApprovals' = operatorApprovals
    BY <2>5 DEF transferFrom
  <2>6. ASSUME NEW o, NEW to, transferOwnership(u, o, to)
        PROVE  operatorApprovals' = operatorApprovals
    BY <2>6 DEF transferOwnership, ownableTransferOwnership
  <2> QED BY <2>1, <2>2, <2>3, <2>4, <2>5, <2>6, Zenon DEF CollectionCall
<1>4. MarketCall(u) => operatorApprovals' = operatorApprovals
  BY DEF MarketCall, createMarketItem, createMarketSale, createAuction, placeBid, makeOffer,
         collectionVars
<1> QED BY <1>1, <1>2, <1>3, <1>4

\* A token that is not for sale, and that its owner lets no other user move.
Kept(a, n) ==
  /\ owners[n] = a /\ tokenApprovals[n] \in {NoAddr, Market}
  /\ \A x \in Address : <<n[1], a, x>> \notin operatorApprovals
  /\ ~collectionToMarketItems[n].isOnSale

\* It stays where it is.
LEMMA OthersLeave ==
  ASSUME TypeOK, CustodyInv, NEW u \in Users, NEW a \in Users, a # u,
         CollectionCall(u) \/ MarketCall(u), NEW n \in NFT, Kept(a, n)
  PROVE  /\ owners'[n] = a /\ tokenApprovals'[n] = tokenApprovals[n]
         /\ ~collectionToMarketItems'[n].isOnSale
         /\ collectionToMarketItems'[n].seller = collectionToMarketItems[n].seller
<1> DEFINE Goal == /\ owners'[n] = a /\ tokenApprovals'[n] = tokenApprovals[n]
                   /\ ~collectionToMarketItems'[n].isOnSale
                   /\ collectionToMarketItems'[n].seller = collectionToMarketItems[n].seller
<1>0. /\ owners \in [NFT -> Address \cup {NoAddr}]
      /\ tokenApprovals \in [NFT -> Address \cup {NoAddr}]
      /\ collectionToMarketItems \in [NFT -> MarketItem]
      /\ owners[n] = a /\ tokenApprovals[n] \in {NoAddr, Market} /\ ~collectionToMarketItems[n].isOnSale
      /\ a # Market /\ u # Market /\ a # NoAddr /\ u # NoAddr /\ u \in Address
      /\ Market \in Address
  BY AddressAssumption DEF TypeOK, CollectionTypeOK, MarketTypeOK, Kept, Address
<1>1. ASSUME UNCHANGED <<owners, tokenApprovals, collectionToMarketItems>> PROVE Goal
  BY <1>0, <1>1
<1>2. ASSUME NEW s \in Users, NEW m \in NFT, NEW from, NEW to, s # a,
             erc721TransferFrom(s, from, to, m)
      PROVE  m # n /\ owners'[n] = a /\ tokenApprovals'[n] = tokenApprovals[n]
  <2>1. ~isAuthorized(a, s, n)
    <3>1. tokenApprovals[n] # s
      BY <1>0, AddressAssumption
    <3>2. <<n[1], a, s>> \notin operatorApprovals
      BY DEF Kept, Address
    <3> QED BY <1>2, <3>1, <3>2 DEF isAuthorized
  <2>2. m # n
    BY <1>0, <1>2, <2>1 DEF erc721TransferFrom
  <2> QED BY <1>0, <1>2, <2>2 DEF erc721TransferFrom
<1>3. ASSUME NEW c \in Collections, NEW to, NEW uri,
             mint(u, c, to, uri) \/ mintCallReceiver(u, c, to, uri)
      PROVE  Goal
  <2>1. /\ owners' = [owners EXCEPT ![<<c, tokenIds[c] + 1>>] = to]
        /\ UNCHANGED <<tokenApprovals, collectionToMarketItems>>
    BY <1>3 DEF mint, mintCallReceiver, mintToken, marketVars
  <2>2. n[2] <= tokenIds[n[1]] /\ n[2] \in Int
    BY <1>0, TokenParts DEF CustodyInv, FreshIdsUnowned, TokenId
  <2>3. n # <<c, tokenIds[c] + 1>>
    <3>1. tokenIds[c] \in Int
      BY DEF TypeOK, CollectionTypeOK
    <3> QED BY <2>2, <3>1
  <2> QED BY <1>0, <2>1, <2>3
<1>4. ASSUME NEW m \in NFT, NEW to, approve(u, to, m) PROVE Goal
  <2>1. m # n
    <3>1. <<n[1], a, u>> \notin operatorApprovals
      BY <1>0 DEF Kept
    <3> QED BY <1>0, <1>4, <3>1 DEF approve, erc721Approve
  <2> QED BY <1>0, <1>4, <2>1 DEF approve, erc721Approve, marketVars
<1>5. ASSUME NEW m \in NFT, NEW to, transferFrom(u, to, m) PROVE Goal
  <2>1. owners'[n] = a /\ tokenApprovals'[n] = tokenApprovals[n]
    BY <1>0, <1>2, <1>5 DEF transferFrom
  <2> QED BY <1>0, <1>5, <2>1 DEF transferFrom, marketVars
<1>6. CollectionCall(u) => Goal
  <2>1. ASSUME NEW k, addCategory(u, k) PROVE Goal
    BY <1>1, <2>1 DEF addCategory, collectionVars, marketVars
  <2>2. ASSUME NEW d, NEW k, createCollection(u, d, k) PROVE Goal
    BY <1>1, <2>2 DEF createCollection, construct, marketVars
  <2>3. ASSUME NEW d, NEW op, NEW allowed, setApprovalForAll(u, d, op, allowed) PROVE Goal
    BY <1>1, <2>3 DEF setApprovalForAll, erc721SetApprovalForAll, marketVars
  <2>4. ASSUME NEW o, NEW to, transferOwnership(u, o, to) PROVE Goal
    BY <1>1, <2>4 DEF transferOwnership, ownableTransferOwnership, marketVars
  <2> HIDE DEF Goal
  <2> QED BY <1>3, <1>4, <1>5, <2>1, <2>2, <2>3, <2>4, Zenon DEF CollectionCall
<1>7. ASSUME NEW m \in NFT, NEW p, createMarketItem(u, m, p) PROVE Goal
  <2>1. owners[m] = u
    BY <1>7 DEF createMarketItem, erc721TransferFrom
  <2>2. m # n
    BY <1>0, <2>1
  <2> QED BY <1>0, <1>7, <2>2 DEF createMarketItem, erc721TransferFrom
<1>8. ASSUME NEW m \in NFT, createMarketSale(u, m) PROVE Goal
  <2>1. m # n
    BY <1>0, <1>8 DEF createMarketSale, forSale
  <2> QED BY <1>0, <1>8, <2>1 DEF createMarketSale, erc721TransferFrom
<1>9. ASSUME NEW m \in NFT, NEW p, NEW d, createAuction(u, m, p, d) PROVE Goal
  BY <1>0, <1>9 DEF createAuction, auctioned, MarketItem, collectionVars
<1>10. ASSUME NEW m \in NFT, NEW v, placeBid(u, m, v) PROVE Goal
  BY <1>0, <1>10 DEF placeBid, outbid, MarketItem, collectionVars
<1>11. ASSUME NEW m \in NFT, NEW v, makeOffer(u, m, v) PROVE Goal
  BY <1>1, <1>11 DEF makeOffer, collectionVars
<1>12. MarketCall(u) => Goal
  <2> HIDE DEF Goal
  <2> QED BY <1>7, <1>8, <1>9, <1>10, <1>11, Zenon DEF MarketCall
<1> QED BY <1>6, <1>12

\* The calls of the collections and the registry leave the market alone.
LEMMA CollectionKeepsMarket ==
  ASSUME NEW u, CollectionCall(u)
  PROVE  UNCHANGED marketVars
BY DEF CollectionCall, addCategory, createCollection, mint, mintCallReceiver, approve,
       setApprovalForAll, transferFrom, transferOwnership

\* A call of another account, as an account that is not making it sees it.
LEMMA CallEffect ==
  ASSUME TypeOK, EscrowCustody, NEW u \in Users, NEW a \in Users, a # u,
         CollectionCall(u) \/ MarketCall(u)
  PROVE  Uninvolved(a) \/ \E n \in NFT : SoldFor(a, n, u)
<1>1. CASE CollectionCall(u)
  BY <1>1, CollectionKeepsMarket DEF marketVars, Uninvolved, SameDeal
<1>2. CASE MarketCall(u)
  BY <1>2, MarketCallEffect
<1> QED BY <1>1, <1>2

\* A call that the seller does not make, at each stage.
LEMMA SellerWaits ==
  ASSUME TypeOK, EscrowCustody, NEW u \in Users, u # Seller,
         CollectionCall(u) \/ MarketCall(u)
  PROVE  /\ Unlisted => Unlisted'
         /\ \A f \in NFT : OnOffer(f) => (OnOffer(f))' \/ (Paid' /\ f \in userPurchases'[u])
         /\ Paid => Paid'
<1>1. Uninvolved(Seller) \/ \E n \in NFT : SoldFor(Seller, n, u)
  BY CallEffect, Signers
<1>2. CASE Uninvolved(Seller)
  BY <1>2 DEF Uninvolved, SameDeal, Unlisted, OnOffer, Paid
<1>3. ASSUME NEW n \in NFT, SoldFor(Seller, n, u)
      PROVE  /\ ~Unlisted /\ ~Paid
             /\ \A f \in NFT : OnOffer(f) => Paid' /\ f \in userPurchases'[u]
  <2>1. ~Unlisted /\ ~Paid
    BY <1>3 DEF SoldFor, Unlisted, Paid
  <2>2. ASSUME NEW f \in NFT, OnOffer(f) PROVE Paid' /\ f \in userPurchases'[u]
    <3>1. n = f
      BY <1>3, <2>2 DEF SoldFor, OnOffer
    <3> QED BY <1>3, <2>2, <3>1 DEF SoldFor, SameDeal, OnOffer, Paid
  <2> QED BY <2>1, <2>2
<1> QED BY <1>1, <1>2, <1>3

\* The script's listing puts the token on offer.
LEMMA ListingOffers ==
  ASSUME TypeOK, Unlisted, NEW f \in NFT, createMarketItem(Seller, f, Price)
  PROVE  (OnOffer(f))'
<1>1. wallet \in [Users -> Nat] /\ collectionToMarketItems \in [NFT -> MarketItem]
  BY DEF TypeOK, MarketTypeOK
<1>2. /\ collectionToMarketItems' =
           [collectionToMarketItems EXCEPT ![f] = listed(Seller, f, Price)]
      /\ wallet' = [wallet EXCEPT ![Seller] = @ - ListingFee]
  BY DEF createMarketItem, deposit
<1> QED BY <1>1, <1>2, Signers DEF Unlisted, OnOffer, listed

\* The seller's side of the sale.
LEMMA SellerStep ==
  ASSUME TypeOK, CustodyInv, OwnInv, SellerInv, [ScriptNext]_allVars
  PROVE  SellerInv'
<1>0. EscrowCustody /\ wallet \in [Users -> Nat] /\ collectionToMarketItems \in [NFT -> MarketItem]
  BY DEF CustodyInv, TypeOK, MarketTypeOK
<1>1. ASSUME at \in Listed PROVE first \in NFT
  BY <1>1, FirstToken DEF OwnInv, Choosing, Listed, Bought
<1>2. ASSUME OtherStep, NEW u \in Others, CollectionCall(u) \/ MarketCall(u)
      PROVE  SellerInv'
  <2>1. CollectionCall(u) \/ MarketCall(u)
    BY <1>2
  <2>2. u \in Users /\ u # Seller
    BY Signers
  <2>3. UNCHANGED <<at, chosen>>
    BY <1>2 DEF OtherStep, scriptVars, locals
  <2>4. /\ Unlisted => Unlisted'
        /\ \A f \in NFT : OnOffer(f) => (OnOffer(f))' \/ Paid'
        /\ Paid => Paid'
    BY <1>0, <2>1, <2>2, SellerWaits
  <2>5. CASE at \notin Listed /\ Unlisted
    BY <2>3, <2>4, <2>5 DEF SellerInv
  <2>6. CASE at \in Listed \ Bought /\ OnOffer(first)
    <3>1. PICK f \in NFT : f = first
      BY <1>1, <2>6
    <3>2. (OnOffer(f))' \/ Paid'
      BY <2>4, <2>6, <3>1
    <3>3. f = first'
      BY <2>3, <3>1 DEF first
    <3> QED BY <2>3, <2>6, <3>2, <3>3 DEF SellerInv, OnOffer
  <2>7. CASE at \in Listed /\ Paid
    BY <2>3, <2>4, <2>7 DEF SellerInv
  <2> QED BY <2>5, <2>6, <2>7 DEF SellerInv
<1>3. CASE ScriptStep
  <2>1. ScriptCall
    BY <1>3, ScriptStepCalls
  <2>2. chosen' = chosen \/ (at = "choose" /\ at \notin Listed)
    BY <1>3 DEF ScriptStep, createFirst, createSecond, create, fetchOwn, choose, mintFirst,
         mintSecond, readSupply, compareSupply, readOwners, approveMarket, list, buy,
         fetchPurchases, search, transact, At, locals, Listed, Bought
  <2>3. CASE /\ UNCHANGED vars
             /\ at' \in Listed <=> at \in Listed
             /\ at' \in Bought <=> at \in Bought
    <3>1. UNCHANGED <<wallet, collectionToMarketItems>>
      BY <2>3 DEF vars, marketVars
    <3>2. at \in Listed => first' = first
      BY <2>2 DEF first, Listed, Bought
    <3> QED BY <2>3, <3>1, <3>2 DEF SellerInv, Unlisted, OnOffer, Paid
  <2>4. CASE at \notin Listed /\ at' \notin Listed /\ UNCHANGED marketVars
    BY <2>4 DEF SellerInv, Unlisted, marketVars
  <2>5. CASE at = "list" /\ at' = "buy" /\ createMarketItem(Seller, first, Price)
    <3>1. Unlisted
      BY <2>5 DEF SellerInv, Listed, Bought
    <3>2. PICK f \in NFT : f = first
      BY <2>5, FirstToken DEF OwnInv, Choosing
    <3>3. createMarketItem(Seller, f, Price)
      BY <2>5, <3>2
    <3>4. (OnOffer(f))'
      BY <3>1, <3>3, ListingOffers
    <3>5. f = first' /\ at' \in Listed \ Bought
      BY <2>2, <2>5, <3>2 DEF first, Listed, Bought
    <3> QED BY <3>4, <3>5 DEF SellerInv, OnOffer
  <2>6. CASE at = "buy" /\ at' = "fetchPurchases" /\ createMarketSale(Buyer, first)
    <3>1. PICK f \in NFT : f = first
      BY <1>1, <2>6 DEF Listed
    <3>2. createMarketSale(Buyer, f)
      BY <2>6, <3>1
    <3>3. ~collectionToMarketItems'[f].isOnSale
      BY <1>0, <3>2 DEF createMarketSale, sold, MarketItem
    <3>4. MarketCall(Buyer)
      BY <3>2, Zenon DEF MarketCall
    <3>5. OnOffer(f) \/ Paid
      BY <2>6, <3>1 DEF SellerInv, Listed
    <3>6. (OnOffer(f))' \/ Paid'
      BY <1>0, <3>4, <3>5, SellerWaits, Signers
    <3>7. Paid'
      BY <3>3, <3>6 DEF OnOffer
    <3>8. at' \in Listed
      BY <2>6 DEF Listed, Bought
    <3> QED BY <3>7, <3>8 DEF SellerInv
  <2>7. at \in {"createFirst", "createSecond", "mintFirst", "mintSecond", "approveMarket"}
          => at \notin Listed
    BY DEF Listed, Bought
  <2> QED BY <2>1, <2>3, <2>4, <2>5, <2>6, <2>7 DEF ScriptCall
<1>4. CASE UNCHANGED allVars
  <2>1. UNCHANGED <<at, chosen, wallet, collectionToMarketItems>>
    BY <1>4 DEF allVars, vars, marketVars, scriptVars, locals
  <2> QED BY <2>1 DEF SellerInv, Unlisted, OnOffer, Paid, first
<1>5. CASE OtherStep /\ mintReturn
  <2>1. UNCHANGED <<at, chosen, wallet, collectionToMarketItems>>
    BY <1>5, MintReturnKeeps DEF OtherStep, marketVars, scriptVars, locals
  <2> QED BY <2>1 DEF SellerInv, Unlisted, OnOffer, Paid, first
<1> QED BY <1>2, <1>3, <1>4, <1>5 DEF ScriptNext, OtherStep

\* A call that the buyer does not make: the buyer has nothing for sale, so
\* nothing is paid to it, and what it owns stays with it.
LEMMA BuyerWaits ==
  ASSUME TypeOK, CustodyInv, BuyerInv, NEW u \in Users, u # Buyer,
         CollectionCall(u) \/ MarketCall(u)
  PROVE  /\ wallet'[Buyer] = wallet[Buyer]
         /\ \A n \in NFT : collectionToMarketItems'[n].seller # Buyer
         /\ \A c \in Collections, x \in Address : <<c, Buyer, x>> \notin operatorApprovals'
<1>1. Uninvolved(Buyer) \/ \E n \in NFT : SoldFor(Buyer, n, u)
  BY CallEffect, Signers DEF CustodyInv
<1>2. Uninvolved(Buyer)
  BY <1>1 DEF SoldFor, BuyerInv
<1>3. /\ wallet'[Buyer] = wallet[Buyer]
      /\ \A n \in NFT : collectionToMarketItems'[n].seller # Buyer
  BY <1>2 DEF Uninvolved, SameDeal, BuyerInv
<1>4. ASSUME NEW c \in Collections, NEW x \in Address
      PROVE  <<c, Buyer, x>> \notin operatorApprovals'
  <2>1. <<c, Buyer, x>> \notin operatorApprovals
    BY DEF BuyerInv
  <2> QED BY <2>1, OthersApprove
<1> QED BY <1>3, <1>4

\* The buyer's side of the sale.
LEMMA BuyerStep ==
  ASSUME TypeOK, CustodyInv, OwnInv, BuyerInv, [ScriptNext]_allVars
  PROVE  BuyerInv'
<1>0. /\ wallet \in [Users -> Nat] /\ collectionToMarketItems \in [NFT -> MarketItem]
      /\ owners \in [NFT -> Address \cup {NoAddr}]
      /\ tokenApprovals \in [NFT -> Address \cup {NoAddr}]
  BY DEF TypeOK, CollectionTypeOK, MarketTypeOK
<1>1. ASSUME at \in Listed PROVE first \in NFT
  BY <1>1, FirstToken DEF OwnInv, Choosing, Listed, Bought
<1>2. ASSUME OtherStep, NEW u \in Others, CollectionCall(u) \/ MarketCall(u)
      PROVE  BuyerInv'
  <2>1. CollectionCall(u) \/ MarketCall(u)
    BY <1>2
  <2>2. u \in Users /\ u # Buyer
    BY Signers
  <2>3. at' = at /\ first' = first
    BY <1>2 DEF OtherStep, scriptVars, locals, first
  <2>4. /\ wallet'[Buyer] = wallet[Buyer]
        /\ \A n \in NFT : collectionToMarketItems'[n].seller # Buyer
        /\ \A c \in Collections, x \in Address : <<c, Buyer, x>> \notin operatorApprovals'
    BY <2>1, <2>2, BuyerWaits
  <2>5. ASSUME at \in Bought
        PROVE  /\ owners'[first] = Buyer /\ tokenApprovals'[first] = NoAddr
               /\ ~collectionToMarketItems'[first].isOnSale
    <3>1. PICK f \in NFT : f = first
      BY <1>1, <2>5 DEF Listed
    <3>2. f[1] \in Collections
      BY TokenParts
    <3>3. Kept(Buyer, f) /\ tokenApprovals[f] = NoAddr
      BY <2>5, <3>1, <3>2 DEF BuyerInv, Kept
    <3>4. /\ owners'[f] = Buyer /\ tokenApprovals'[f] = NoAddr
          /\ ~collectionToMarketItems'[f].isOnSale
      BY <2>1, <2>2, <3>3, OthersLeave, Signers
    <3> QED BY <3>1, <3>4
  <2> QED BY <2>3, <2>4, <2>5 DEF BuyerInv
<1>3. CASE ScriptStep
  <2>1. ScriptCall
    BY <1>3, ScriptStepCalls
  <2>2. chosen' = chosen \/ at \notin Listed
    BY <1>3 DEF ScriptStep, createFirst, createSecond, create, fetchOwn, choose, mintFirst,
         mintSecond, readSupply, compareSupply, readOwners, approveMarket, list, buy,
         fetchPurchases, search, transact, At, locals, Listed, Bought
  <2>3. CASE /\ UNCHANGED vars
             /\ at' \in Listed <=> at \in Listed
             /\ at' \in Bought <=> at \in Bought
    <3>1. UNCHANGED <<wallet, collectionToMarketItems, operatorApprovals, owners, tokenApprovals>>
      BY <2>3 DEF vars, marketVars, collectionVars
    <3>2. at \in Bought => first' = first
      BY <2>2 DEF first, Listed
    <3> QED BY <2>3, <3>1, <3>2 DEF BuyerInv
  <2>4. ASSUME CollectionCall(Seller) \/ MarketCall(Seller), at \notin Bought, at' \notin Bought
        PROVE  BuyerInv'
    <3>1. /\ wallet'[Buyer] = wallet[Buyer]
          /\ \A n \in NFT : collectionToMarketItems'[n].seller # Buyer
          /\ \A c \in Collections, x \in Address : <<c, Buyer, x>> \notin operatorApprovals'
      BY <2>4, BuyerWaits, Signers
    <3> QED BY <2>4, <3>1 DEF BuyerInv
  <2>5. CASE /\ at \in {"createFirst", "createSecond", "mintFirst", "mintSecond", "approveMarket"}
             /\ CollectionCall(Seller) /\ at' \notin Listed
    BY <2>4, <2>5 DEF Listed, Bought
  <2>6. CASE at = "list" /\ at' = "buy" /\ createMarketItem(Seller, first, Price)
    <3>1. PICK f \in NFT : f = first
      BY <2>6, FirstToken DEF OwnInv, Choosing
    <3>2. PICK p \in Values : p = Price
      BY ScriptAssumption
    <3>3. createMarketItem(Seller, f, p)
      BY <2>6, <3>1, <3>2
    <3>4. MarketCall(Seller)
      BY <3>3, Zenon DEF MarketCall
    <3> QED BY <2>4, <2>6, <3>4 DEF Bought
  <2>7. CASE /\ at = "buy" /\ at' = "fetchPurchases"
             /\ collectionToMarketItems[first].price = Price
             /\ createMarketSale(Buyer, first)
    <3>1. PICK f \in NFT : f = first
      BY <1>1, <2>7 DEF Listed
    <3>2. first' = f
      BY <2>2, <2>7, <3>1 DEF first, Listed
    <3> DEFINE item == collectionToMarketItems[f]
    <3>3. /\ item \in MarketItem /\ item.price = Price /\ item.seller # Buyer
          /\ createMarketSale(Buyer, f)
      BY <1>0, <2>7, <3>1 DEF BuyerInv
    <3>4. collectionToMarketItems' = [collectionToMarketItems EXCEPT ![f] = sold(item, Buyer)]
      BY <3>3 DEF createMarketSale
    <3>5. /\ \A n \in NFT : collectionToMarketItems'[n].seller # Buyer
          /\ ~collectionToMarketItems'[f].isOnSale
      BY <1>0, <3>3, <3>4 DEF sold, MarketItem, BuyerInv
    <3>6. operatorApprovals' = operatorApprovals
      BY <3>3 DEF createMarketSale
    <3>7. owners'[f] = Buyer /\ tokenApprovals'[f] = NoAddr
      BY <1>0, <3>3 DEF createMarketSale, erc721TransferFrom
    <3>8. wallet'[Buyer] = InitialWallet - Price
      <4>1. wallet[Buyer] = InitialWallet
        BY <2>7 DEF BuyerInv, Bought
      <4>2. wallet' = [[wallet EXCEPT ![Buyer] = @ - Price] EXCEPT ![item.seller] = @ + Price]
        BY <3>3 DEF createMarketSale, paySeller
      <4> HIDE DEF item
      <4> QED BY <1>0, <3>3, <4>1, <4>2, Signers
    <3>9. at' \in Bought
      BY <2>7 DEF Bought
    <3> HIDE DEF item
    <3> QED BY <3>2, <3>5, <3>6, <3>7, <3>8, <3>9 DEF BuyerInv
  <2> QED BY <2>1, <2>3, <2>5, <2>6, <2>7 DEF ScriptCall
<1>4. CASE UNCHANGED allVars
  <2>1. UNCHANGED <<at, chosen, wallet, collectionToMarketItems, operatorApprovals, owners,
                    tokenApprovals>>
    BY <1>4 DEF allVars, vars, marketVars, collectionVars, scriptVars, locals
  <2> QED BY <2>1 DEF BuyerInv, first
<1>5. CASE OtherStep /\ mintReturn
  <2>1. UNCHANGED <<at, chosen, wallet, collectionToMarketItems, operatorApprovals, owners,
                    tokenApprovals>>
    BY <1>5, MintReturnKeeps DEF OtherStep, marketVars, scriptVars, locals
  <2> QED BY <2>1 DEF BuyerInv, first
<1> QED BY <1>2, <1>3, <1>4, <1>5 DEF ScriptNext, OtherStep

\* Both sides of the sale hold in every reachable state.
LEMMA SaleInvAlways == ScriptSpec => [](SellerInv /\ BuyerInv)
<1>1. ScriptInit => SellerInv /\ BuyerInv
  <2> SUFFICES ASSUME ScriptInit PROVE SellerInv /\ BuyerInv
    OBVIOUS
  <2>1. /\ at \notin Listed /\ at \notin Bought
        /\ wallet[Seller] = InitialWallet /\ wallet[Buyer] = InitialWallet
        /\ operatorApprovals = {}
    BY Signers DEF ScriptInit, Init, CollectionInit, Listed, Bought
  <2>2. \A n \in NFT : collectionToMarketItems[n].seller = NoAddr
    BY DEF ScriptInit, Init, NoItem
  <2>3. Seller # NoAddr /\ Buyer # NoAddr
    BY Signers, AddressAssumption
  <2> QED BY <2>1, <2>2, <2>3 DEF SellerInv, Unlisted, BuyerInv
<1>2. /\ TypeOK /\ CustodyInv /\ OwnInv /\ SellerInv /\ BuyerInv
      /\ [ScriptNext]_allVars
      => SellerInv' /\ BuyerInv'
  BY SellerStep, BuyerStep
<1> QED BY <1>1, <1>2, ScriptUsesMarket, CustodyInvariance, OwnInvAlways, PTL DEF ScriptSpec

\* The script's sale: the seller is paid the price once or still has the token in
\* escrow, and when the purchase has gone through the buyer owns it and has paid.
THEOREM SwapCompletesAlways == ScriptSpec => []SwapCompletes
<1>1. CustodyInv /\ OwnInv /\ SellerInv /\ BuyerInv => SwapCompletes
  <2> SUFFICES ASSUME CustodyInv, OwnInv, SellerInv, BuyerInv PROVE SwapCompletes
    OBVIOUS
  <2>1. ASSUME at \in Listed PROVE first \in NFT
    BY <2>1, FirstToken DEF OwnInv, Choosing, Listed, Bought
  <2> QED BY <2>1 DEF SwapCompletes, SellerInv, OnOffer, Paid, BuyerInv, CustodyInv,
                      EscrowCustody, Listed, Bought
<1> QED BY <1>1, ScriptUsesMarket, CustodyInvariance, OwnInvAlways, SaleInvAlways, PTL

----------------------------------------------------------------------------
(* Why the script fails *)

\* A step that gives no token to NoAddr, takes back no id and approves or lists
\* only tokens that somebody owns.
LEMMA BlankFrame ==
  ASSUME BlankInv,
         \A n \in NFT : owners'[n] = NoAddr =>
           /\ owners[n] = NoAddr
           /\ n[2] > tokenIds[n[1]] => n[2] > tokenIds'[n[1]]
           /\ tokenApprovals'[n] = tokenApprovals[n]
           /\ collectionToMarketItems'[n].seller = collectionToMarketItems[n].seller
  PROVE  BlankInv'
BY DEF BlankInv

\* A mint gives away the next id.
LEMMA MintTokenBlank ==
  ASSUME TypeOK, BlankInv, NEW u \in Users, NEW c \in Collections, NEW to \in Users,
         mintToken(u, c, to), UNCHANGED collectionToMarketItems
  PROVE  BlankInv'
<1> DEFINE new == <<c, tokenIds[c] + 1>>
<1>1. new \in NFT /\ tokenIds[c] \in Nat /\ to # NoAddr
  BY MintTokenType, AddressAssumption DEF TypeOK, CollectionTypeOK
<1>2. /\ owners' = [owners EXCEPT ![new] = to] /\ owners \in [NFT -> Address \cup {NoAddr}]
      /\ tokenIds' = [tokenIds EXCEPT ![c] = @ + 1] /\ tokenIds \in [Collections -> 0..MaxTokens]
      /\ UNCHANGED tokenApprovals
  BY DEF mintToken, TypeOK, CollectionTypeOK
<1>3. ASSUME NEW n \in NFT, owners'[n] = NoAddr
      PROVE  owners[n] = NoAddr /\ (n[2] > tokenIds[n[1]] => n[2] > tokenIds'[n[1]])
  <2>1. n # new
    BY <1>1, <1>2, <1>3
  <2>2. owners[n] = NoAddr
    BY <1>2, <1>3, <2>1
  <2>3. n[1] \in Collections /\ n[2] \in Nat /\ n = <<n[1], n[2]>>
    BY TokenParts, AddressAssumption DEF TokenId
  <2>4. CASE n[1] # c
    BY <1>2, <2>2, <2>3, <2>4
  <2>5. CASE n[1] = c
    <3>1. n[2] # tokenIds[c] + 1
      BY <2>1, <2>3, <2>5
    <3>2. tokenIds'[n[1]] = tokenIds[c] + 1
      BY <1>2, <2>3, <2>5
    <3> QED BY <1>1, <2>2, <2>3, <2>5, <3>1, <3>2
  <2> QED BY <2>4, <2>5
<1> QED BY <1>2, <1>3, BlankFrame

\* Every step of the contracts keeps BlankInv.
LEMMA BlankStep ==
  ASSUME TypeOK, BlankInv, [Next]_vars
  PROVE  BlankInv'
<1>0. /\ owners \in [NFT -> Address \cup {NoAddr}]
      /\ tokenApprovals \in [NFT -> Address \cup {NoAddr}]
      /\ collectionToMarketItems \in [NFT -> MarketItem]
      /\ Market # NoAddr /\ NoAddr \notin Users /\ NoAddr \notin Address
  BY AddressAssumption DEF TypeOK, CollectionTypeOK, MarketTypeOK, Address
<1>1. ASSUME UNCHANGED <<owners, tokenIds, tokenApprovals>>,
             \A n \in NFT : collectionToMarketItems'[n].seller = collectionToMarketItems[n].seller
      PROVE  BlankInv'
  BY <1>1, BlankFrame
<1>2. ASSUME NEW n \in NFT, NEW spender, NEW from, NEW to \in Address,
             erc721TransferFrom(spender, from, to, n), UNCHANGED tokenIds,
             \A m \in NFT : m # n => collectionToMarketItems'[m].seller
                                       = collectionToMarketItems[m].seller
      PROVE  BlankInv'
  <2>1. /\ owners' = [owners EXCEPT ![n] = to]
        /\ tokenApprovals' = [tokenApprovals EXCEPT ![n] = NoAddr]
    BY <1>2 DEF erc721TransferFrom
  <2> QED BY <1>0, <1>2, <2>1, BlankFrame
<1>3. ASSUME NEW u \in Users, CollectionCall(u) PROVE BlankInv'
  <2>1. ASSUME NEW k, addCategory(u, k) PROVE BlankInv'
    BY <1>1, <2>1 DEF addCategory, collectionVars, marketVars
  <2>2. ASSUME NEW c, NEW k, createCollection(u, c, k) PROVE BlankInv'
    BY <1>1, <2>2 DEF createCollection, construct, marketVars
  <2>3. ASSUME NEW c \in Collections, NEW to \in Users, NEW uri,
               mint(u, c, to, uri) \/ mintCallReceiver(u, c, to, uri)
        PROVE  BlankInv'
    BY <2>3, MintTokenBlank DEF mint, mintCallReceiver, marketVars
  <2>4. ASSUME NEW n \in NFT, NEW to, approve(u, to, n) PROVE BlankInv'
    <3>1. /\ UNCHANGED <<owners, tokenIds, collectionToMarketItems>>
          /\ tokenApprovals' = [tokenApprovals EXCEPT ![n] = to] /\ owners[n] # NoAddr
      BY <2>4 DEF approve, erc721Approve, marketVars
    <3> QED BY <1>0, <3>1, BlankFrame
  <2>5. ASSUME NEW c, NEW op, NEW allowed, setApprovalForAll(u, c, op, allowed) PROVE BlankInv'
    BY <1>1, <2>5 DEF setApprovalForAll, erc721SetApprovalForAll, marketVars
  <2>6. ASSUME NEW n \in NFT, NEW to \in Recipients, transferFrom(u, to, n) PROVE BlankInv'
    BY <1>2, <2>6, MarketAssumption DEF transferFrom, marketVars
  <2>7. ASSUME NEW o, NEW to, transferOwnership(u, o, to) PROVE BlankInv'
    BY <1>1, <2>7 DEF transferOwnership, ownableTransferOwnership, marketVars
  <2> QED BY <1>3, <2>1, <2>2, <2>3, <2>4, <2>5, <2>6, <2>7, Zenon DEF CollectionCall
<1>4. ASSUME NEW u \in Users, MarketCall(u) PROVE BlankInv'
  <2>1. ASSUME NEW n \in NFT, NEW p, createMarketItem(u, n, p) PROVE BlankInv'
    <3>1. erc721TransferFrom(Market, u, Market, n) /\ UNCHANGED tokenIds
      BY <2>1 DEF createMarketItem
    <3>2. \A m \in NFT : m # n => collectionToMarketItems'[m] = collectionToMarketItems[m]
      BY <1>0, <2>1 DEF createMarketItem
    <3> QED BY <1>2, <3>1, <3>2 DEF Address
  <2>2. ASSUME NEW n \in NFT, createMarketSale(u, n) PROVE BlankInv'
    <3>1. erc721TransferFrom(Market, Market, u, n) /\ UNCHANGED tokenIds
      BY <2>2 DEF createMarketSale
    <3>2. \A m \in NFT : m # n => collectionToMarketItems'[m] = collectionToMarketItems[m]
      BY <1>0, <2>2 DEF createMarketSale
    <3> QED BY <1>2, <3>1, <3>2 DEF Address
  <2>3. ASSUME NEW n \in NFT, NEW p, NEW d, createAuction(u, n, p, d) PROVE BlankInv'
    BY <1>0, <1>1, <2>3 DEF createAuction, auctioned, MarketItem, collectionVars
  <2>4. ASSUME NEW n \in NFT, NEW v, placeBid(u, n, v) PROVE BlankInv'
    BY <1>0, <1>1, <2>4 DEF placeBid, outbid, MarketItem, collectionVars
  <2>5. ASSUME NEW n \in NFT, NEW v, makeOffer(u, n, v) PROVE BlankInv'
    BY <1>1, <2>5 DEF makeOffer, collectionVars
  <2> QED BY <1>4, <2>1, <2>2, <2>3, <2>4, <2>5, Zenon DEF MarketCall
<1>5. CASE mintReturn \/ tick \/ UNCHANGED vars
  BY <1>1, <1>5 DEF mintReturn, tick, vars, collectionVars, marketVars
<1> QED BY <1>3, <1>4, <1>5 DEF Next, CollectionStep, MarketStep

\* What a call means for the purchases of those who do not make it.
LEMMA OthersPurchase ==
  ASSUME TypeOK, NEW u \in Users, CollectionCall(u) \/ MarketCall(u)
  PROVE  /\ \A a \in Users \ {u} : /\ userPurchases'[a] = userPurchases[a]
                                   /\ userPurchaseCount'[a] = userPurchaseCount[a]
         /\ \A a \in Users : userPurchases[a] \subseteq userPurchases'[a]
<1>0. userPurchases \in [Users -> SUBSET NFT] /\ userPurchaseCount \in [Users -> Nat]
  BY DEF TypeOK, MarketTypeOK
<1>1. CASE UNCHANGED <<userPurchases, userPurchaseCount>>
  BY <1>1
<1>2. ASSUME NEW n \in NFT, createMarketSale(u, n)
      PROVE  /\ \A a \in Users \ {u} : /\ userPurchases'[a] = userPurchases[a]
                                       /\ userPurchaseCount'[a] = userPurchaseCount[a]
             /\ \A a \in Users : userPurchases[a] \subseteq userPurchases'[a]
  BY <1>0, <1>2 DEF createMarketSale
<1>3. CollectionCall(u) => UNCHANGED <<userPurchases, userPurchaseCount>>
  BY CollectionKeepsMarket DEF marketVars
<1>4. MarketCall(u) => \/ UNCHANGED <<userPurchases, userPurchaseCount>>
                       \/ \E n \in NFT : createMarketSale(u, n)
  <2>1. ASSUME NEW n, NEW p, createMarketItem(u, n, p)
        PROVE  UNCHANGED <<userPurchases, userPurchaseCount>>
    BY <2>1 DEF createMarketItem
  <2>2. ASSUME NEW n, NEW p, NEW d, createAuction(u, n, p, d)
        PROVE  UNCHANGED <<userPurchases, userPurchaseCount>>
    BY <2>2 DEF createAuction
  <2>3. ASSUME NEW n, NEW v, placeBid(u, n, v) \/ makeOffer(u, n, v)
        PROVE  UNCHANGED <<userPurchases, userPurchaseCount>>
    BY <2>3 DEF placeBid, makeOffer
  <2> QED BY <2>1, <2>2, <2>3, Zenon DEF MarketCall
<1> QED BY <1>1, <1>2, <1>3, <1>4

\* The list of a collection's listings grows by the tokens that their owners list.
LEMMA OthersList ==
  ASSUME TypeOK, NEW u \in Users, CollectionCall(u) \/ MarketCall(u), NEW n \in NFT,
         owners[n] # u
  PROVE  Occurrences(n[2], collectionTokenIds'[n[1]]) = Occurrences(n[2], collectionTokenIds[n[1]])
<1>1. CASE UNCHANGED collectionTokenIds
  BY <1>1
<1>2. ASSUME NEW m \in NFT, NEW p, createMarketItem(u, m, p)
      PROVE  Occurrences(n[2], collectionTokenIds'[n[1]])
               = Occurrences(n[2], collectionTokenIds[n[1]])
  <2>1. /\ owners[m] = u
        /\ collectionTokenIds' = [collectionTokenIds EXCEPT ![m[1]] = Append(@, m[2])]
    BY <1>2 DEF createMarketItem, erc721TransferFrom, pushTokenId
  <2>2. /\ m[1] \in Collections /\ m[2] \in TokenId /\ n[1] \in Collections
        /\ m # n /\ m = <<m[1], m[2]>> /\ n = <<n[1], n[2]>>
        /\ collectionTokenIds \in [Collections -> Seq(TokenId)]
    BY <2>1, TokenParts DEF TypeOK, MarketTypeOK
  <2>3. CASE m[1] # n[1]
    BY <2>1, <2>2, <2>3
  <2>4. CASE m[1] = n[1]
    <3>1. PICK ids \in Seq(TokenId) : ids = collectionTokenIds[n[1]]
      BY <2>2
    <3>2. collectionTokenIds'[n[1]] = Append(ids, m[2]) /\ m[2] # n[2]
      BY <2>1, <2>2, <2>4, <3>1
    <3>3. /\ Occurrences(n[2], ids) \in Nat
          /\ Occurrences(n[2], Append(ids, m[2])) = Occurrences(n[2], ids) + 0
      BY <2>2, <3>2, OccurrencesAppend
    <3> QED BY <3>1, <3>2, <3>3
  <2> QED BY <2>3, <2>4
<1>3. CollectionCall(u) => UNCHANGED collectionTokenIds
  BY CollectionKeepsMarket DEF marketVars
<1>4. MarketCall(u) => \/ UNCHANGED collectionTokenIds
                       \/ \E m \in NFT, p \in Values : createMarketItem(u, m, p)
  <2>1. ASSUME NEW m, createMarketSale(u, m) PROVE UNCHANGED collectionTokenIds
    BY <2>1 DEF createMarketSale
  <2>2. ASSUME NEW m, NEW p, NEW d, createAuction(u, m, p, d)
        PROVE  UNCHANGED collectionTokenIds
    BY <2>2 DEF createAuction
  <2>3. ASSUME NEW m, NEW v, placeBid(u, m, v) \/ makeOffer(u, m, v)
        PROVE  UNCHANGED collectionTokenIds
    BY <2>3 DEF placeBid, makeOffer
  <2> QED BY <2>1, <2>2, <2>3, Zenon DEF MarketCall
<1> QED BY <1>1, <1>2, <1>3, <1>4

\* What the others leave of the script's own collections.
LEMMA OthersKeepCreated ==
  ASSUME TypeOK, OwnInv, CreatedInv, OtherStep
  PROVE  CreatedInv'
<1>1. UNCHANGED <<at, created, chosen>>
  BY DEF OtherStep, scriptVars, locals
<1>2. ASSUME NEW c \in created
      PROVE  c \in deployed' /\ contractOwner'[c] = Seller /\ tokenIds'[c] = tokenIds[c]
  <2>1. c \in Collections /\ c \in deployed /\ contractOwner[c] = Seller
    BY DEF CreatedInv, TypeOK, CollectionTypeOK
  <2> QED BY <2>1, OthersKeepSeller
<1>3. at \in Minted \cup {"mintSecond"} => tokenIds'[chosen] = tokenIds[chosen]
  <2>1. at \in Minted \cup {"mintSecond"} =>
          chosen \in Collections /\ chosen \in deployed /\ contractOwner[chosen] = Seller
    BY DEF OwnInv, Choosing, Minted
  <2> QED BY <2>1, OthersKeepSeller
<1>4. ASSUME NEW c \in Collections, NEW x \in Address
      PROVE  <<c, Seller, x>> \notin operatorApprovals'
  <2>1. <<c, Seller, x>> \notin operatorApprovals
    BY DEF CreatedInv
  <2>2. CASE mintReturn
    BY <2>1, <2>2, MintReturnKeeps
  <2>3. ASSUME NEW u \in Others, CollectionCall(u) \/ MarketCall(u)
        PROVE  <<c, Seller, x>> \notin operatorApprovals'
    <3>1. Seller # u
      BY Signers
    <3> QED BY <2>1, <2>3, <3>1, OthersApprove
  <2> QED BY <2>2, <2>3 DEF OtherStep
<1> QED BY <1>1, <1>2, <1>3, <1>4 DEF CreatedInv, Minted

\* A token of the seller that it has approved to nobody, or to the marketplace,
\* and that is not for sale stays as it is.
LEMMA OthersLeaveSeller ==
  ASSUME TypeOK, CustodyInv, CreatedInv, OtherStep, NEW n \in NFT,
         owners[n] = Seller, tokenApprovals[n] \in {NoAddr, Market}
  PROVE  /\ owners'[n] = Seller /\ tokenApprovals'[n] = tokenApprovals[n]
         /\ collectionToMarketItems'[n].seller = collectionToMarketItems[n].seller
<1>1. CASE mintReturn
  BY <1>1, MintReturnKeeps DEF marketVars
<1>2. ASSUME NEW u \in Others, CollectionCall(u) \/ MarketCall(u)
      PROVE  /\ owners'[n] = Seller /\ tokenApprovals'[n] = tokenApprovals[n]
             /\ collectionToMarketItems'[n].seller = collectionToMarketItems[n].seller
  <2>1. u \in Users /\ Seller \in Users /\ Seller # u /\ Seller # Market
    BY Signers, AddressAssumption
  <2>2. Kept(Seller, n)
    BY <2>1, TokenParts DEF Kept, CustodyInv, EscrowCustody, CreatedInv
  <2> QED BY <1>2, <2>1, <2>2, OthersLeave
<1> QED BY <1>1, <1>2 DEF OtherStep

\* The script's second token exists in the model, too.
LEMMA SecondToken ==
  ASSUME chosen \in Collections
  PROVE  second \in NFT /\ second # first
<1>1. 2 \in TokenId
  BY AddressAssumption, ScriptAssumption DEF TokenId
<1> QED BY <1>1 DEF first, second, NFT

\* So do the tokens that the script has minted.
LEMMA OthersKeepToken ==
  ASSUME TypeOK, CustodyInv, CreatedInv, TokenInv, OtherStep
  PROVE  TokenInv'
<1>1. UNCHANGED <<at, created, chosen>> /\ first' = first /\ second' = second
  BY DEF OtherStep, scriptVars, locals, first, second
<1> SUFFICES ASSUME chosen \in created
             PROVE  /\ at \in Minted \cup {"mintSecond"} =>
                         /\ owners'[first] = Seller
                         /\ tokenApprovals'[first] = IF at = "list" THEN Market ELSE NoAddr
                         /\ collectionToMarketItems'[first].seller = NoAddr
                    /\ at \in Minted =>
                         owners'[second] = Seller /\ tokenApprovals'[second] = NoAddr
  BY <1>1 DEF TokenInv
<1>2. chosen \in Collections
  BY DEF CreatedInv, TypeOK, CollectionTypeOK
<1>3. PICK f \in NFT : f = first
  BY <1>2, FirstToken
<1>4. PICK s \in NFT : s = second
  BY <1>2, SecondToken
<1>5. ASSUME at \in Minted \cup {"mintSecond"}
      PROVE  /\ owners'[f] = Seller
             /\ tokenApprovals'[f] = IF at = "list" THEN Market ELSE NoAddr
             /\ collectionToMarketItems'[f].seller = NoAddr
  <2>1. /\ owners[f] = Seller
        /\ tokenApprovals[f] = IF at = "list" THEN Market ELSE NoAddr
        /\ collectionToMarketItems[f].seller = NoAddr
    BY <1>3, <1>5 DEF TokenInv
  <2> QED BY <2>1, OthersLeaveSeller
<1>6. ASSUME at \in Minted
      PROVE  owners'[s] = Seller /\ tokenApprovals'[s] = NoAddr
  <2>1. owners[s] = Seller /\ tokenApprovals[s] = NoAddr
    BY <1>4, <1>6 DEF TokenInv
  <2> QED BY <2>1, OthersLeaveSeller
<1> QED BY <1>3, <1>4, <1>5, <1>6

\* What the others may do to the sale: buy the token, and then anything.
LEMMA OthersKeepBooks ==
  ASSUME TypeOK, CustodyInv, OwnInv, BuyerInv, BooksInv, OtherStep
  PROVE  BooksInv' /\ (BoughtByOther => BoughtByOther')
<1>1. UNCHANGED <<at, created, chosen>> /\ first' = first
  BY DEF OtherStep, scriptVars, locals, first
<1>2. CASE mintReturn
  <2>1. UNCHANGED <<wallet, collectionToMarketItems, userPurchases, userPurchaseCount,
                    collectionTokenIds>>
    BY <1>2, MintReturnKeeps DEF marketVars
  <2>2. (OnOffer(first) => (OnOffer(first))') /\ (BoughtByOther => BoughtByOther')
    BY <1>1, <2>1 DEF OnOffer, BoughtByOther
  <2> QED BY <1>1, <2>1, <2>2 DEF BooksInv
<1>3. ASSUME NEW u \in Others, CollectionCall(u) \/ MarketCall(u)
      PROVE  BooksInv' /\ (BoughtByOther => BoughtByOther')
  <2>1. /\ u \in Users /\ u # Seller /\ u # Buyer /\ Buyer \in Users /\ Others \subseteq Users
        /\ u # Market
    BY Signers, AddressAssumption
  <2>2. /\ userPurchases'[Buyer] = userPurchases[Buyer]
        /\ userPurchaseCount'[Buyer] = userPurchaseCount[Buyer]
        /\ \A a \in Users : userPurchases[a] \subseteq userPurchases'[a]
    BY <1>3, <2>1, OthersPurchase
  <2>3. BoughtByOther => BoughtByOther'
    BY <1>1, <2>1, <2>2 DEF BoughtByOther
  <2>4. ASSUME at \in Listed PROVE first \in NFT
    BY <2>4, FirstToken DEF OwnInv, Choosing, Listed, Bought
  <2>5. ASSUME at = "buy" PROVE (OnOffer(first))' \/ BoughtByOther'
    <3>1. PICK f \in NFT : f = first
      BY <2>4, <2>5 DEF Listed
    <3>2. CASE OnOffer(first)
      <4>1. (OnOffer(f))' \/ f \in userPurchases'[u]
        BY <1>3, <2>1, <3>1, <3>2, SellerWaits DEF CustodyInv
      <4>2. f = first'
        BY <1>1, <3>1
      <4>3. f \in userPurchases'[u] => BoughtByOther'
        BY <4>2 DEF BoughtByOther
      <4> QED BY <4>1, <4>2, <4>3 DEF OnOffer
    <3> QED BY <2>3, <2>5, <3>2 DEF BooksInv
  <2>6. ASSUME chosen \in created, at \in Listed
        PROVE  Occurrences(1, collectionTokenIds'[chosen]) = 1 \/ BoughtByOther'
    <3>1. PICK f \in NFT : f = first
      BY <2>4, <2>6
    <3>2. f[1] = chosen /\ f[2] = 1
      BY <3>1 DEF first
    <3>3. CASE BoughtByOther
      BY <2>3, <3>3
    <3>4. CASE ~BoughtByOther
      <4>1. Occurrences(1, collectionTokenIds[chosen]) = 1
        BY <2>6, <3>4 DEF BooksInv
      <4>2. owners[f] # u
        <5>1. CASE at = "buy"
          <6>1. collectionToMarketItems[f].isOnSale
            BY <3>1, <3>4, <5>1 DEF BooksInv, OnOffer
          <6> QED BY <2>1, <6>1 DEF CustodyInv, EscrowCustody
        <5>2. CASE at \in Bought
          BY <2>1, <3>1, <5>2 DEF BuyerInv
        <5> QED BY <2>6, <5>1, <5>2 DEF Listed
      <4>3. Occurrences(f[2], collectionTokenIds'[f[1]])
              = Occurrences(f[2], collectionTokenIds[f[1]])
        BY <1>3, <2>1, <4>2, OthersList
      <4> QED BY <3>2, <4>1, <4>3
    <3> QED BY <3>3, <3>4
  <2> QED BY <1>1, <2>2, <2>3, <2>5, <2>6 DEF BooksInv
<1> QED BY <1>2, <1>3 DEF OtherStep

\* A failure keeps its explanation.
LEMMA OthersKeepFailure ==
  ASSUME FailureExplained, OtherStep, BoughtByOther => BoughtByOther'
  PROVE  FailureExplained'
<1>1. UNCHANGED <<at, failed, created, chosen>>
  BY DEF OtherStep, scriptVars, locals
<1> QED BY <1>1 DEF FailureExplained, BoughtByOther

\* A line that throws and leaves everything as it is.
LEMMA FailedLine ==
  ASSUME PathInv, UNCHANGED <<vars, at, created, chosen>>,
         \/ /\ chosen \notin created
            /\ at \in {"mintFirst", "approveMarket", "list", "buy", "fetchPurchases"}
         \/ BoughtByOther /\ at \in {"buy", "fetchPurchases"}
  PROVE  PathInv'
<1>1. /\ UNCHANGED <<deployed, contractOwner, tokenIds, owners, tokenApprovals,
                     operatorApprovals, collectionToMarketItems, wallet, userPurchases,
                     userPurchaseCount, collectionTokenIds>>
      /\ first' = first /\ second' = second
  BY DEF vars, collectionVars, marketVars, first, second
<1>2. (OnOffer(first) <=> (OnOffer(first))') /\ (BoughtByOther <=> BoughtByOther')
  BY <1>1 DEF OnOffer, BoughtByOther
<1>3. CreatedInv'
  BY <1>1 DEF PathInv, CreatedInv
<1>4. TokenInv'
  BY <1>1 DEF PathInv, TokenInv
<1>5. BooksInv'
  BY <1>1, <1>2 DEF PathInv, BooksInv
<1>6. FailureExplained'
  BY <1>1 DEF FailureExplained, BoughtByOther
<1> QED BY <1>3, <1>4, <1>5, <1>6 DEF PathInv

\* A line that only reads, and goes on.
LEMMA ReadLine ==
  ASSUME PathInv, UNCHANGED <<vars, created, chosen>>, ~failed',
         \/ at = "fetchOwn" /\ at' = "choose"
         \/ at = "readSupply" /\ at' = "compareSupply"
         \/ at = "compareSupply" /\ at' = "readOwners"
         \/ at = "readOwners" /\ at' = "approveMarket"
         \/ at = "fetchPurchases" /\ at' = "search"
         \/ at = "search" /\ at' = "done"
  PROVE  PathInv'
<1>1. /\ UNCHANGED <<deployed, contractOwner, tokenIds, owners, tokenApprovals,
                     operatorApprovals, collectionToMarketItems, wallet, userPurchases,
                     userPurchaseCount, collectionTokenIds>>
      /\ first' = first /\ second' = second
  BY DEF vars, collectionVars, marketVars, first, second
<1>2. BoughtByOther <=> BoughtByOther'
  BY <1>1 DEF BoughtByOther
<1>3. CreatedInv'
  BY <1>1 DEF PathInv, CreatedInv, Choosing, Minted
<1>4. TokenInv'
  BY <1>1 DEF PathInv, TokenInv, Minted
<1>5. BooksInv'
  BY <1>1, <1>2 DEF PathInv, BooksInv, Listed, Bought
<1>6. FailureExplained'
  BY DEF FailureExplained
<1> QED BY <1>3, <1>4, <1>5, <1>6 DEF PathInv

\* A collection that is deployed is active, so a mint of the script's account in
\* a collection of its own is accepted.
LEMMA OwnMintable ==
  ASSUME ContractInv, CreatedInv, chosen \in created
  PROVE  mintable
<1>1. chosen \in Collections /\ chosen \in deployed /\ contractOwner[chosen] = Seller
  BY DEF ContractInv, CreatedInv, TypeOK, CollectionTypeOK
<1> QED BY <1>1 DEF mintable, ContractInv, RegistryConsistent

\* createFirst and createSecond
LEMMA CreateLine ==
  ASSUME ContractInv, PathInv, createFirst \/ createSecond
  PROVE  PathInv'
<1>1. PICK c \in Collections :
        /\ (\E k : createCollection(Seller, c, k)) /\ created' = created \cup {c}
        /\ UNCHANGED <<failed, chosen>> /\ ~failed
        /\ at \in {"createFirst", "createSecond"} /\ at' \in {"createSecond", "fetchOwn"}
  BY DEF createFirst, createSecond, create, At, Goto
<1>2. /\ c \notin deployed /\ deployed' = deployed \cup {c}
      /\ contractOwner' = [contractOwner EXCEPT ![c] = Seller]
      /\ UNCHANGED <<tokenIds, operatorApprovals, userPurchases, userPurchaseCount>>
  BY <1>1 DEF createCollection, construct, marketVars
<1>3. tokenIds[c] = 0 /\ contractOwner \in [Ownables -> Users \cup {NoAddr}] /\ c \in Ownables
  BY <1>2 DEF ContractInv, SupplyInv, TypeOK, CollectionTypeOK, Ownables
<1>4. ASSUME NEW d \in created'
      PROVE  d \in deployed' /\ contractOwner'[d] = Seller /\ tokenIds'[d] = 0
  <2>1. CASE d = c
    BY <1>2, <1>3, <2>1
  <2>2. CASE d \in created /\ d # c
    <3>1. d \in deployed /\ contractOwner[d] = Seller /\ tokenIds[d] = 0 /\ d \in Ownables
      BY <1>1, <2>2 DEF PathInv, CreatedInv, Choosing, ContractInv, TypeOK, CollectionTypeOK,
                        Ownables
    <3> QED BY <1>2, <1>3, <2>2, <3>1
  <2> QED BY <1>1, <2>1, <2>2
<1>5. CreatedInv'
  BY <1>1, <1>2, <1>4 DEF PathInv, CreatedInv, Choosing, Minted
<1>6. TokenInv'
  BY <1>1 DEF TokenInv, Minted
<1>7. BooksInv'
  BY <1>1, <1>2 DEF PathInv, BooksInv, Listed, Bought
<1>8. FailureExplained'
  BY <1>1 DEF FailureExplained
<1> QED BY <1>5, <1>6, <1>7, <1>8 DEF PathInv

\* fetchOwn
LEMMA FetchOwnLine ==
  ASSUME ContractInv, PathInv, fetchOwn
  PROVE  PathInv'
<1>1. ~fetchReverts(fetchUserCreatedCollections(Seller))
  BY Signers, FetchesReturn DEF ContractInv
<1> QED BY <1>1, ReadLine DEF fetchOwn, await, At, locals

\* choose: the script has created collections, so there is a last one.
LEMMA ChooseLine ==
  ASSUME ContractInv, PathInv, choose
  PROVE  PathInv'
<1>1. at = "choose" /\ ~failed /\ UNCHANGED <<vars, created>>
  BY DEF choose, At, await
<1>2. PICK c : c \in created
  BY <1>1 DEF PathInv, CreatedInv
<1>3. c \in Collections /\ collections[c].isActive
  BY <1>2 DEF PathInv, CreatedInv, ContractInv, TypeOK, CollectionTypeOK, RegistryConsistent
<1>4. Recorded(c, collectionAddresses, collections[c].isActive)
  BY <1>3 DEF ContractInv, RegistryConsistent
<1>5. collectionAddresses # <<>>
  BY <1>3, <1>4 DEF Recorded, OccursOnce
<1>6. fetchCollections # <<>> /\ ~fetchReverts(fetchCollections)
  BY <1>5, FetchesReturn DEF ContractInv, fetchCollections
<1>7. at' = "mintFirst" /\ ~failed'
  BY <1>6 DEF choose, await
<1>8. UNCHANGED <<deployed, contractOwner, tokenIds, operatorApprovals, userPurchases,
                  userPurchaseCount>>
  BY <1>1 DEF vars, collectionVars, marketVars
<1>9. CreatedInv'
  BY <1>1, <1>7, <1>8 DEF PathInv, CreatedInv, Choosing, Minted
<1>10. TokenInv' /\ FailureExplained'
  BY <1>7 DEF TokenInv, Minted, FailureExplained
<1>11. BooksInv'
  BY <1>1, <1>7, <1>8 DEF PathInv, BooksInv, Listed, Bought
<1> QED BY <1>9, <1>10, <1>11 DEF PathInv

\* A mint of the script.
LEMMA ScriptMint ==
  ASSUME TypeOK, chosen \in Collections, mintToSelf
  PROVE  LET new == <<chosen, tokenIds[chosen] + 1>>
         IN /\ new \in NFT /\ tokenIds[chosen] \in Nat
            /\ tokenIds'[chosen] = tokenIds[chosen] + 1
            /\ owners'[new] = Seller
            /\ \A n \in NFT \ {new} : owners'[n] = owners[n]
            /\ UNCHANGED <<deployed, contractOwner, tokenApprovals, operatorApprovals>>
            /\ UNCHANGED marketVars
<1> DEFINE new == <<chosen, tokenIds[chosen] + 1>>
<1>1. PICK uri \in URIs : mint(Seller, chosen, Seller, uri)
  BY DEF mintToSelf
<1>2. mintToken(Seller, chosen, Seller) /\ UNCHANGED marketVars
  BY <1>1 DEF mint
<1>3. new \in NFT /\ tokenIds[chosen] \in Nat
  BY <1>2, MintTokenType, AddressAssumption, Signers DEF TypeOK, CollectionTypeOK
<1>4. /\ owners' = [owners EXCEPT ![new] = Seller] /\ owners \in [NFT -> Address \cup {NoAddr}]
      /\ tokenIds' = [tokenIds EXCEPT ![chosen] = @ + 1]
      /\ tokenIds \in [Collections -> 0..MaxTokens]
      /\ UNCHANGED <<deployed, contractOwner, tokenApprovals, operatorApprovals>>
  BY <1>2 DEF mintToken, TypeOK, CollectionTypeOK
<1> HIDE DEF new
<1>5. /\ tokenIds'[chosen] = tokenIds[chosen] + 1 /\ owners'[new] = Seller
      /\ \A n \in NFT \ {new} : owners'[n] = owners[n]
  BY <1>3, <1>4
<1> QED BY <1>2, <1>3, <1>4, <1>5 DEF new

\* mintFirst: in a collection of its own the script gets token 1.
LEMMA MintFirstLine ==
  ASSUME ContractInv, OwnInv, PathInv, mintFirst
  PROVE  PathInv'
<1>1. /\ at = "mintFirst" /\ ~failed /\ UNCHANGED <<created, chosen, seenSupply>>
      /\ \/ mintToSelf /\ at' = "mintSecond" /\ ~failed'
         \/ ~mintable /\ UNCHANGED <<vars, at>>
  BY DEF mintFirst, transact, At, Goto, Throw, locals
<1>2. CASE ~mintable /\ UNCHANGED <<vars, at>>
  <2>1. chosen \notin created
    BY <1>2, OwnMintable DEF PathInv
  <2> QED BY <1>1, <1>2, <2>1, FailedLine
<1>3. CASE mintToSelf /\ at' = "mintSecond" /\ ~failed'
  <2>1. TypeOK /\ chosen \in Collections
    BY <1>1 DEF ContractInv, OwnInv, Choosing
  <2> DEFINE new == <<chosen, tokenIds[chosen] + 1>>
  <2>2. /\ new \in NFT /\ tokenIds[chosen] \in Nat
        /\ tokenIds'[chosen] = tokenIds[chosen] + 1
        /\ owners'[new] = Seller
        /\ UNCHANGED <<deployed, contractOwner, tokenApprovals, operatorApprovals>>
        /\ UNCHANGED <<collectionToMarketItems, userPurchases, userPurchaseCount>>
    BY <1>3, <2>1, ScriptMint DEF marketVars
  <2>3. ASSUME chosen \in created
        PROVE  /\ tokenIds'[chosen] = 1 /\ owners'[first] = Seller
               /\ tokenApprovals'[first] = NoAddr
               /\ collectionToMarketItems'[first].seller = NoAddr
    <3>1. tokenIds[chosen] = 0
      BY <1>1, <2>3 DEF PathInv, CreatedInv
    <3>2. PICK f \in NFT : f = new /\ f = first /\ f[1] = chosen /\ f[2] = 1
      BY <2>2, <3>1 DEF first
    <3>3. owners[f] = NoAddr
      BY <3>1, <3>2 DEF ContractInv, CustodyInv, FreshIdsUnowned
    <3>4. tokenApprovals[f] = NoAddr /\ collectionToMarketItems[f].seller = NoAddr
      BY <3>3 DEF ContractInv, BlankInv
    <3> QED BY <2>2, <3>1, <3>2, <3>4
  <2>4. CreatedInv'
    BY <1>1, <1>3, <2>2, <2>3 DEF PathInv, CreatedInv, Choosing, Minted
  <2>5. TokenInv'
    <3>1. first' = first
      BY <1>1 DEF first
    <3> QED BY <1>1, <1>3, <2>3, <3>1 DEF TokenInv, Minted
  <2>6. BooksInv'
    BY <1>1, <1>3, <2>2 DEF PathInv, BooksInv, Listed, Bought
  <2>7. FailureExplained'
    BY <1>3 DEF FailureExplained
  <2> QED BY <2>4, <2>5, <2>6, <2>7 DEF PathInv
<1> QED BY <1>1, <1>2, <1>3

\* mintSecond: and token 2.
LEMMA MintSecondLine ==
  ASSUME ContractInv, OwnInv, PathInv, mintSecond
  PROVE  PathInv'
<1>1. /\ at = "mintSecond" /\ ~failed /\ UNCHANGED <<created, chosen, seenSupply>>
      /\ \/ mintToSelf /\ at' = "readSupply" /\ ~failed'
         \/ ~mintable /\ UNCHANGED <<vars, at>>
  BY DEF mintSecond, transact, At, Goto, Throw, locals
<1>2. chosen \in Collections /\ chosen \in deployed /\ contractOwner[chosen] = Seller
  BY <1>1 DEF OwnInv, Choosing
<1>3. mintable
  BY <1>2 DEF mintable, ContractInv, RegistryConsistent
<1>4. mintToSelf /\ at' = "readSupply" /\ ~failed'
  BY <1>1, <1>3
<1> DEFINE new == <<chosen, tokenIds[chosen] + 1>>
<1>5. /\ new \in NFT /\ tokenIds[chosen] \in Nat
      /\ tokenIds'[chosen] = tokenIds[chosen] + 1
      /\ owners'[new] = Seller
      /\ \A n \in NFT \ {new} : owners'[n] = owners[n]
      /\ UNCHANGED <<deployed, contractOwner, tokenApprovals, operatorApprovals>>
      /\ UNCHANGED <<collectionToMarketItems, userPurchases, userPurchaseCount>>
  BY <1>2, <1>4, ScriptMint DEF marketVars, ContractInv
<1>6. ASSUME chosen \in created
      PROVE  /\ owners'[first] = Seller /\ tokenApprovals'[first] = NoAddr
             /\ collectionToMarketItems'[first].seller = NoAddr
             /\ owners'[second] = Seller /\ tokenApprovals'[second] = NoAddr
  <2>1. tokenIds[chosen] = 1
    BY <1>1, <1>6 DEF PathInv, CreatedInv
  <2>2. PICK s \in NFT : s = new /\ s = second /\ s[1] = chosen /\ s[2] = 2
    BY <1>5, <2>1 DEF second
  <2>3. owners[s] = NoAddr
    BY <2>1, <2>2 DEF ContractInv, CustodyInv, FreshIdsUnowned
  <2>4. tokenApprovals[s] = NoAddr
    BY <2>3 DEF ContractInv, BlankInv
  <2>5. PICK f \in NFT : f = first /\ f # s
    BY <1>2, <2>2, FirstToken, SecondToken
  <2>6. owners[f] = Seller /\ tokenApprovals[f] = NoAddr
        /\ collectionToMarketItems[f].seller = NoAddr
    BY <1>1, <1>6, <2>5 DEF PathInv, TokenInv, Minted
  <2>7. owners'[s] = Seller /\ owners'[f] = Seller
    BY <1>5, <2>2, <2>5, <2>6
  <2> QED BY <1>5, <2>2, <2>4, <2>5, <2>6, <2>7
<1>7. CreatedInv'
  <2>1. tokenIds[chosen] >= 1
    BY <1>1 DEF PathInv, CreatedInv
  <2>2. tokenIds'[chosen] >= 2
    BY <1>5, <2>1
  <2> QED BY <1>1, <1>4, <1>5, <2>2 DEF PathInv, CreatedInv, Choosing, Minted
<1>8. TokenInv'
  <2>1. first' = first /\ second' = second
    BY <1>1 DEF first, second
  <2> QED BY <1>1, <1>4, <1>6, <2>1 DEF TokenInv, Minted
<1>9. BooksInv'
  BY <1>1, <1>4, <1>5 DEF PathInv, BooksInv, Listed, Bought
<1>10. FailureExplained'
  BY <1>4 DEF FailureExplained
<1> QED BY <1>7, <1>8, <1>9, <1>10 DEF PathInv

\* readSupply, compareSupply and readOwners throw in no collection of its owner.
LEMMA ReadBackLines ==
  ASSUME ContractInv, OwnInv, PathInv, readSupply \/ compareSupply \/ readOwners
  PROVE  PathInv'
<1>1. CASE readSupply
  <2>1. at = "readSupply"
    BY <1>1 DEF readSupply, At
  <2>2. chosen \in Collections /\ chosen \in deployed
    BY <2>1 DEF OwnInv, Choosing
  <2>3. collections[chosen].isActive
    BY <2>2 DEF ContractInv, RegistryConsistent
  <2> QED BY <1>1, <2>1, <2>3, ReadLine DEF readSupply, await
<1>2. CASE compareSupply
  <2>1. at = "compareSupply"
    BY <1>2 DEF compareSupply, At
  <2>2. tokenIds[chosen] = seenSupply
    BY <2>1 DEF OwnInv
  <2> QED BY <1>2, <2>1, <2>2, ReadLine DEF compareSupply, await, locals
<1>3. CASE readOwners
  <2>1. at = "readOwners"
    BY <1>3 DEF readOwners, At
  <2>2. /\ chosen \in Collections /\ tokenIds[chosen] >= 2
        /\ tokenIds[chosen] \in 0..MaxTokens /\ MaxTokens \in Nat
    BY <2>1, AddressAssumption
       DEF OwnInv, Choosing, PathInv, CreatedInv, Minted, ContractInv, TypeOK, CollectionTypeOK
  <2>3. ASSUME NEW id \in {1, 2} PROVE owners[<<chosen, id>>] # NoAddr
    <3>1. PICK n \in NFT : n = <<chosen, id>>
      BY <2>2, FirstToken, SecondToken DEF first, second
    <3>2. n[1] = chosen /\ n[2] = id
      BY <3>1
    <3>3. ~(n[2] > tokenIds[n[1]])
      BY <2>2, <3>2
    <3> QED BY <3>1, <3>3 DEF ContractInv, BlankInv
  <2> QED BY <1>3, <2>1, <2>3, ReadLine DEF readOwners, await, locals
<1> QED BY <1>1, <1>2, <1>3

\* approveMarket: the script's account owns the first token of its collection.
LEMMA ApproveLine ==
  ASSUME ContractInv, OwnInv, PathInv, approveMarket
  PROVE  PathInv'
<1>1. /\ at = "approveMarket" /\ ~failed /\ UNCHANGED <<created, chosen, seenSupply>>
      /\ \/ approve(Seller, Market, first) /\ at' = "list" /\ ~failed'
         \/ ~approvable(first) /\ UNCHANGED <<vars, at>>
  BY DEF approveMarket, transact, At, Goto, Throw, locals
<1>2. CASE ~approvable(first) /\ UNCHANGED <<vars, at>>
  <2>1. chosen \in created => owners[first] = Seller
    BY <1>1 DEF PathInv, TokenInv, Minted
  <2>2. Seller # NoAddr
    BY Signers, AddressAssumption
  <2>3. chosen \notin created
    BY <1>2, <2>1, <2>2 DEF approvable
  <2> QED BY <1>1, <1>2, <2>3, FailedLine
<1>3. CASE approve(Seller, Market, first) /\ at' = "list" /\ ~failed'
  <2>1. chosen \in Collections
    BY <1>1 DEF OwnInv, Choosing
  <2>2. PICK f \in NFT : f = first
    BY <2>1, FirstToken
  <2>3. PICK s \in NFT : s = second /\ s # f
    BY <2>1, <2>2, SecondToken
  <2>4. /\ tokenApprovals' = [tokenApprovals EXCEPT ![f] = Market]
        /\ UNCHANGED <<deployed, contractOwner, tokenIds, owners, operatorApprovals>>
        /\ UNCHANGED <<collectionToMarketItems, userPurchases, userPurchaseCount>>
    BY <1>3, <2>2 DEF approve, erc721Approve, marketVars
  <2>5. tokenApprovals'[f] = Market /\ tokenApprovals'[s] = tokenApprovals[s]
    BY <2>3, <2>4 DEF ContractInv, TypeOK, CollectionTypeOK
  <2>6. CreatedInv'
    BY <1>1, <1>3, <2>4 DEF PathInv, CreatedInv, Choosing, Minted
  <2>7. TokenInv'
    <3>1. first' = f /\ second' = s
      BY <1>1, <2>2, <2>3 DEF first, second
    <3>2. chosen \in created =>
            /\ owners[f] = Seller /\ collectionToMarketItems[f].seller = NoAddr
            /\ owners[s] = Seller /\ tokenApprovals[s] = NoAddr
      BY <1>1, <2>2, <2>3 DEF PathInv, TokenInv, Minted
    <3> QED BY <1>1, <1>3, <2>4, <2>5, <3>1, <3>2 DEF TokenInv
  <2>8. BooksInv'
    BY <1>1, <1>3, <2>4 DEF PathInv, BooksInv, Listed, Bought
  <2>9. FailureExplained'
    BY <1>3 DEF FailureExplained
  <2> QED BY <2>6, <2>7, <2>8, <2>9 DEF PathInv
<1> QED BY <1>1, <1>2, <1>3

\* list: the token was never listed before, so this is its one listing.
LEMMA ListLine ==
  ASSUME ContractInv, OwnInv, SellerInv, PathInv, list
  PROVE  PathInv'
<1>1. /\ at = "list" /\ ~failed /\ UNCHANGED <<created, chosen, seenSupply>>
      /\ \/ createMarketItem(Seller, first, Price) /\ at' = "buy" /\ ~failed'
         \/ ~listable /\ UNCHANGED <<vars, at>>
  BY DEF list, transact, At, Goto, Throw, locals
<1>2. chosen \in Collections /\ chosen \in deployed /\ Unlisted
  BY <1>1 DEF OwnInv, Choosing, SellerInv, Listed, Bought
<1>3. CASE ~listable /\ UNCHANGED <<vars, at>>
  <2>1. chosen \in created => owners[first] = Seller /\ tokenApprovals[first] = Market
    BY <1>1 DEF PathInv, TokenInv, Minted
  <2>2. collections[chosen].isActive
    BY <1>2 DEF ContractInv, RegistryConsistent
  <2>3. wallet[Seller] >= ListingFee
    BY <1>2, ScriptAssumption DEF Unlisted
  <2>4. chosen \notin created
    BY <1>3, <2>1, <2>2, <2>3, Signers DEF listable, isAuthorized
  <2> QED BY <1>1, <1>3, <2>4, FailedLine
<1>4. CASE createMarketItem(Seller, first, Price) /\ at' = "buy" /\ ~failed'
  <2>1. PICK f \in NFT : f = first /\ f[1] = chosen /\ f[2] = 1
    BY <1>2, FirstToken DEF first
  <2>2. createMarketItem(Seller, f, Price) /\ TypeOK
    BY <1>4, <2>1 DEF ContractInv
  <2>3. /\ UNCHANGED <<deployed, contractOwner, tokenIds, operatorApprovals, userPurchases,
                       userPurchaseCount>>
        /\ collectionTokenIds' = [collectionTokenIds EXCEPT ![f[1]] = Append(@, f[2])]
    BY <2>2 DEF createMarketItem, pushTokenId
  <2>4. (OnOffer(f))' /\ f = first'
    BY <1>1, <1>2, <2>1, <2>2, ListingOffers DEF first
  <2>5. ASSUME chosen \in created PROVE Occurrences(1, collectionTokenIds'[chosen]) = 1
    <3>1. PICK ids \in Seq(TokenId) : ids = collectionTokenIds[chosen]
      BY <1>2, <2>2 DEF TypeOK, MarketTypeOK
    <3>2. collectionTokenIds'[chosen] = Append(ids, 1)
      BY <1>2, <2>1, <2>2, <2>3, <3>1 DEF TypeOK, MarketTypeOK
    <3>3. collectionToMarketItems[f].seller = NoAddr
      BY <1>1, <2>1, <2>5 DEF PathInv, TokenInv, Minted
    <3>4. Absent(1, ids)
      BY <2>1, <3>1, <3>3 DEF ContractInv, TokenIndexComplete, Absent
    <3>5. Recorded(1, ids, FALSE)
      BY <3>4 DEF Recorded
    <3>6. Occurrences(1, ids) = 0
      BY <3>5, OccurrencesRecorded
    <3>7. 1 \in TokenId
      BY <2>1, TokenParts
    <3>8. Occurrences(1, Append(ids, 1)) = Occurrences(1, ids) + 1
      BY <3>7, OccurrencesAppend
    <3> QED BY <3>2, <3>6, <3>8
  <2>6. CreatedInv'
    BY <1>1, <1>4, <2>3 DEF PathInv, CreatedInv, Choosing, Minted
  <2>7. TokenInv' /\ FailureExplained'
    BY <1>4 DEF TokenInv, Minted, FailureExplained
  <2>8. BooksInv'
    <3>1. (OnOffer(first))'
      BY <2>4 DEF OnOffer
    <3> QED BY <1>1, <1>4, <2>3, <2>5, <3>1 DEF PathInv, BooksInv, Listed, Bought
  <2> QED BY <2>6, <2>7, <2>8 DEF PathInv
<1> QED BY <1>1, <1>3, <1>4

\* buy: what is on offer can be bought.
LEMMA BuyLine ==
  ASSUME ContractInv, OwnInv, BuyerInv, PathInv, buy
  PROVE  PathInv'
<1>1. /\ at = "buy" /\ ~failed /\ UNCHANGED <<created, chosen, seenSupply>>
      /\ \/ createMarketSale(Buyer, first) /\ at' = "fetchPurchases" /\ ~failed'
         \/ ~buyable /\ UNCHANGED <<vars, at>>
  BY DEF buy, transact, At, Goto, Throw, locals
<1>2. PICK f \in NFT : f = first /\ first' = f
  BY <1>1, FirstToken DEF OwnInv, Choosing, first
<1>3. CASE ~buyable /\ UNCHANGED <<vars, at>>
  <2>1. wallet[Buyer] >= Price
    BY <1>1, ScriptAssumption DEF BuyerInv, Bought
  <2>2. OnOffer(f) => owners[f] = Market
    BY DEF OnOffer, ContractInv, CustodyInv, EscrowCustody
  <2>3. OnOffer(f) => buyable
    BY <1>2, <2>1, <2>2, ScriptAssumption DEF OnOffer, buyable, forSale
  <2>4. BoughtByOther
    BY <1>1, <1>2, <1>3, <2>3 DEF PathInv, BooksInv
  <2> QED BY <1>1, <1>3, <2>4, FailedLine
<1>4. CASE createMarketSale(Buyer, first) /\ at' = "fetchPurchases" /\ ~failed'
  <2>1. createMarketSale(Buyer, f) /\ TypeOK /\ Buyer \in Users /\ Buyer \notin Others
    BY <1>2, <1>4, Signers DEF ContractInv
  <2>2. /\ UNCHANGED <<deployed, contractOwner, tokenIds, operatorApprovals, collectionTokenIds>>
        /\ userPurchases' = [userPurchases EXCEPT ![Buyer] = @ \cup {f}]
        /\ userPurchaseCount' = [userPurchaseCount EXCEPT ![Buyer] = @ + 1]
    BY <2>1 DEF createMarketSale
  <2>3. userPurchases[Buyer] = {} /\ userPurchaseCount[Buyer] = 0
    BY <1>1 DEF PathInv, BooksInv, Bought
  <2>4. /\ userPurchases'[Buyer] = {f} /\ userPurchaseCount'[Buyer] = 1
        /\ \A u \in Others : userPurchases'[u] = userPurchases[u]
    BY <2>1, <2>2, <2>3, Signers DEF TypeOK, MarketTypeOK
  <2>5. BoughtByOther => BoughtByOther'
    BY <1>2, <2>4 DEF BoughtByOther
  <2>6. CreatedInv'
    BY <1>1, <1>4, <2>2 DEF PathInv, CreatedInv, Choosing, Minted
  <2>7. TokenInv' /\ FailureExplained'
    BY <1>4 DEF TokenInv, Minted, FailureExplained
  <2>8. BooksInv'
    BY <1>1, <1>2, <1>4, <2>2, <2>4, <2>5 DEF PathInv, BooksInv, Listed, Bought
  <2> QED BY <2>6, <2>7, <2>8 DEF PathInv
<1> QED BY <1>1, <1>3, <1>4

\* A buyer of one token that is listed once finds it at most once.
LEMMA OnePurchaseFound ==
  ASSUME TypeOK, RegistryConsistent, NEW u \in Users, NEW n \in NFT,
         userPurchases[u] = {n}, Occurrences(n[2], collectionTokenIds[n[1]]) = 1
  PROVE  Len(purchasedMatches(u)) <= 1
<1>1. PICK g \in [NFT -> Int] : g = FoundUpto(userPurchases[u], Len(collectionAddresses))
  BY PurchasesCounted
<1>2. Len(purchasedMatches(u)) = SumFunction(g)
  BY <1>1, PurchasesCounted
<1>3. /\ \A m \in NFT : m # n => g[m] = 0
      /\ g[n] \in {0, 1}
  BY <1>1 DEF FoundUpto
<1>4. PICK z \in [NFT -> Int] : \A m \in NFT : z[m] = 0
  <2> WITNESS [m \in NFT |-> 0] \in [NFT -> Int]
  <2> QED OBVIOUS
<1>5. AgreeBut(g, z, n)
  BY <1>3, <1>4 DEF AgreeBut
<1>6. SumFunction(z) = 0
  BY <1>4, FiniteTokens, SumZero
<1>7. SumFunction(g) = SumFunction(z) - z[n] + g[n]
  BY <1>5, TokenSum
<1> QED BY <1>2, <1>3, <1>4, <1>6, <1>7

\* fetchPurchases: it reverts when the token has been listed a second time.
LEMMA FetchPurchasesLine ==
  ASSUME ContractInv, OwnInv, PathInv, fetchPurchases
  PROVE  PathInv'
<1>1. /\ at = "fetchPurchases" /\ ~failed /\ UNCHANGED <<vars, created, chosen, seenSupply>>
      /\ failed' = ~(Len(purchasedMatches(Buyer)) <= userPurchaseCount[Buyer])
      /\ at' = IF Len(purchasedMatches(Buyer)) <= userPurchaseCount[Buyer] THEN "search" ELSE at
  BY DEF fetchPurchases, At, await, locals
<1>2. CASE Len(purchasedMatches(Buyer)) <= userPurchaseCount[Buyer]
  BY <1>1, <1>2, ReadLine
<1>3. CASE ~(Len(purchasedMatches(Buyer)) <= userPurchaseCount[Buyer])
  <2>1. PICK f \in NFT : f = first /\ f[1] = chosen /\ f[2] = 1
    BY <1>1, FirstToken DEF OwnInv, Choosing, first
  <2>2. userPurchases[Buyer] = {f} /\ userPurchaseCount[Buyer] = 1
    BY <1>1, <2>1 DEF PathInv, BooksInv, Bought
  <2>3. Occurrences(f[2], collectionTokenIds[f[1]]) # 1
    BY <1>3, <2>2, OnePurchaseFound, Signers DEF ContractInv
  <2>4. chosen \notin created \/ BoughtByOther
    BY <1>1, <2>1, <2>3 DEF PathInv, BooksInv, Listed, Bought
  <2>5. at' = at
    BY <1>1, <1>3
  <2> QED BY <1>1, <2>4, <2>5, FailedLine
<1> QED BY <1>2, <1>3

\* Every line of the script keeps PathInv.
LEMMA ScriptKeepsPath ==
  ASSUME ContractInv, OwnInv, SellerInv, BuyerInv, PathInv, ScriptStep
  PROVE  PathInv'
<1>1. search => PathInv'
  BY ReadLine DEF search, await, At, locals
<1> QED BY <1>1, CreateLine, FetchOwnLine, ChooseLine, MintFirstLine, MintSecondLine,
           ReadBackLines, ApproveLine, ListLine, BuyLine, FetchPurchasesLine DEF ScriptStep

\* Every step does.
LEMMA PathStep ==
  ASSUME ContractInv, OwnInv, SellerInv, BuyerInv, PathInv, [ScriptNext]_allVars
  PROVE  PathInv'
<1>1. CASE OtherStep
  <2>1. CreatedInv'
    BY <1>1, OthersKeepCreated DEF ContractInv, PathInv
  <2>2. TokenInv'
    BY <1>1, OthersKeepToken DEF ContractInv, PathInv
  <2>3. BooksInv' /\ (BoughtByOther => BoughtByOther')
    BY <1>1, OthersKeepBooks DEF ContractInv, PathInv
  <2>4. FailureExplained'
    BY <1>1, <2>3, OthersKeepFailure DEF PathInv
  <2> QED BY <2>1, <2>2, <2>3, <2>4 DEF PathInv
<1>2. CASE UNCHANGED allVars
  <2>1. /\ UNCHANGED <<at, failed, created, chosen, deployed, contractOwner, tokenIds, owners,
                       tokenApprovals, operatorApprovals, collectionToMarketItems, wallet,
                       userPurchases, userPurchaseCount, collectionTokenIds>>
        /\ first' = first /\ second' = second
    BY <1>2 DEF allVars, scriptVars, locals, vars, collectionVars, marketVars, first, second
  <2>2. (OnOffer(first) <=> (OnOffer(first))') /\ (BoughtByOther <=> BoughtByOther')
    BY <2>1 DEF OnOffer, BoughtByOther
  <2>3. CreatedInv' /\ TokenInv'
    BY <2>1 DEF PathInv, CreatedInv, TokenInv
  <2>4. BooksInv'
    BY <2>1, <2>2 DEF PathInv, BooksInv
  <2>5. FailureExplained'
    BY <2>1 DEF PathInv, FailureExplained
  <2> QED BY <2>3, <2>4, <2>5 DEF PathInv
<1> QED BY <1>1, <1>2, ScriptKeepsPath DEF ScriptNext

\* The script stops early only because the last collection was not its own or
\* because another account bought the token first, and only at the lines that
\* this can reach.
THEOREM FailureExplainedAlways == ScriptSpec => []FailureExplained
<1>1. ScriptInit => PathInv /\ BlankInv
  <2> SUFFICES ASSUME ScriptInit PROVE PathInv /\ BlankInv
    OBVIOUS
  <2>1. BlankInv
    <3> SUFFICES ASSUME NEW n \in NFT
                 PROVE  /\ n[2] > tokenIds[n[1]] /\ tokenApprovals[n] = NoAddr
                        /\ collectionToMarketItems[n].seller = NoAddr
      BY DEF BlankInv
    <3>1. n[1] \in Collections /\ n[2] \in 1..MaxTokens
      BY TokenParts DEF TokenId
    <3>2. tokenIds[n[1]] = 0
      BY <3>1 DEF ScriptInit, Init, CollectionInit
    <3> QED BY <3>1, <3>2, AddressAssumption DEF ScriptInit, Init, CollectionInit, NoItem
  <2>2. CreatedInv
    BY DEF ScriptInit, Init, CollectionInit, CreatedInv, Choosing, Minted
  <2>3. TokenInv /\ FailureExplained
    BY DEF ScriptInit, TokenInv, FailureExplained
  <2>4. BooksInv
    BY Signers DEF ScriptInit, Init, BooksInv, Bought, Listed
  <2> QED BY <2>1, <2>2, <2>3, <2>4 DEF PathInv
<1>2. TypeOK /\ BlankInv /\ OwnInv /\ [ScriptNext]_allVars => BlankInv'
  BY ScriptMarketStep, BlankStep
<1>3. /\ TypeOK /\ CustodyInv /\ BlankInv /\ RegistryConsistent
      /\ SupplyInv /\ TokenIndexComplete /\ OwnInv /\ SellerInv /\ BuyerInv /\ PathInv
      /\ [ScriptNext]_allVars
      => PathInv'
  BY PathStep DEF ContractInv
<1>4. PathInv => FailureExplained
  BY DEF PathInv
<1> QED BY <1>1, <1>2, <1>3, <1>4, ScriptUsesMarket, CustodyInvariance, OwnInvAlways,
           SaleInvAlways, RegistryConsistentAlways, SupplyInvAlways,
           TokenIndexCompleteAlways, PTL DEF ScriptSpec

\* What the script trades in is the escrow of module TokenEscrow: beside it, too,
\* a token leaves escrow only for the payment of its price.
COROLLARY ScriptTradesInEscrow == ScriptSpec => ImplementsEscrow
BY ScriptUsesMarket, EscrowRefinement, PTL

============================================================================
