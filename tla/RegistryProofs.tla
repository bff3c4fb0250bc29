--------------------------- MODULE RegistryProofs ---------------------------
(***************************************************************************)
(* What the marketplace knows about its collections: the lists they are    *)
(* recorded in, the copy of their supply and the copies of token URIs; and *)
(* what the view functions compute from it.                                *)
(***************************************************************************)
EXTENDS MarketViews, NFTMarketplaceProofs

----------------------------------------------------------------------------
(* The inductive invariants *)

\* What makes SupplySynced inductive: a contract that does not exist has minted
\* nothing when createCollection records a supply of 0.
SupplyInv == SupplySynced /\ \A c \in Collections \ deployed : tokenIds[c] = 0

\* What makes ItemURIMatches inductive: a token has no URI before it is minted or
\* while its mint waits for the receiver, and no token is minted twice, however
\* mints nest; so a URI, once copied, is never written again.
URIInv ==
  /\ \A n \in NFT : collectionToMarketItems[n].tokenURI \in {NoURI, tokenURIs[n]}
  /\ \A n \in NFT : n[2] > tokenIds[n[1]] => tokenURIs[n] = NoURI
  /\ \A i \in DOMAIN minting :
       /\ minting[i].nft[2] <= tokenIds[minting[i].nft[1]]
       /\ tokenURIs[minting[i].nft] = NoURI
  /\ \A i, j \in DOMAIN minting : minting[i].nft = minting[j].nft => i = j

\* What the properties of the views need besides RegistryConsistent and
\* TokenIndexComplete: what can be bought has a seller, and its collection is
\* active; the category of an active collection exists.
LiveListings ==
  /\ \A n \in NFT : collectionToMarketItems[n].isOnSale =>
       /\ collectionToMarketItems[n].seller # NoAddr
       /\ collections[n[1]].isActive
  /\ \A c \in Collections : collections[c].isActive => collections[c].category \in categoryExists

\* The listings of a token that a user bought, but for the one it can be bought
\* from now.
SoldListings(u, n) ==
  IF n \notin userPurchases[u] THEN 0
  ELSE Occurrences(n[2], collectionTokenIds[n[1]])
         - (IF collectionToMarketItems[n].isOnSale THEN 1 ELSE 0)

\* What makes PurchasesAllFound inductive: every purchase of a token used up a
\* listing of it, so a token on sale has one to spare for the next; and only
\* tokens of recorded collections are ever bought.
PurchaseInv ==
  /\ \A u \in Users :
       userPurchaseCount[u] <= SumFunction([n \in NFT |-> SoldListings(u, n)])
  /\ \A u \in Users : \A n \in userPurchases[u] : collections[n[1]].isActive

----------------------------------------------------------------------------
(* Lists that grow at the end *)

\* What Append does to a list.
LEMMA AppendFacts ==
  ASSUME NEW S, NEW seq \in Seq(S), NEW y \in S
  PROVE  /\ Len(seq) \in Nat
         /\ DOMAIN seq = 1..Len(seq)
         /\ DOMAIN Append(seq, y) = 1..(Len(seq) + 1)
         /\ \A i \in 1..Len(seq) : Append(seq, y)[i] = seq[i]
         /\ Append(seq, y)[Len(seq) + 1] = y
OBVIOUS

\* Appending something else changes nothing for x.
LEMMA AppendOther ==
  ASSUME NEW S, NEW seq \in Seq(S), NEW y \in S, NEW x, x # y, NEW once \in BOOLEAN,
         Recorded(x, seq, once)
  PROVE  Recorded(x, Append(seq, y), once)
<1>1. CASE once
  <2>1. PICK i \in DOMAIN seq : \A j \in DOMAIN seq : seq[j] = x <=> j = i
    BY <1>1 DEF Recorded, OccursOnce
  <2>2. \A j \in DOMAIN Append(seq, y) : Append(seq, y)[j] = x <=> j = i
    BY <2>1, AppendFacts
  <2>3. i \in DOMAIN Append(seq, y)
    BY <2>1, AppendFacts
  <2> QED BY <1>1, <2>2, <2>3 DEF Recorded, OccursOnce
<1>2. CASE ~once
  BY <1>2, AppendFacts DEF Recorded, Absent
<1> QED BY <1>1, <1>2

\* Appending x to a list without x records it once.
LEMMA AppendSame ==
  ASSUME NEW S, NEW seq \in Seq(S), NEW x \in S, Absent(x, seq)
  PROVE  Recorded(x, Append(seq, x), TRUE)
<1>1. \A j \in DOMAIN Append(seq, x) : Append(seq, x)[j] = x <=> j = Len(seq) + 1
  BY AppendFacts DEF Absent
<1>2. Len(seq) + 1 \in DOMAIN Append(seq, x)
  BY AppendFacts
<1> QED BY <1>1, <1>2 DEF Recorded, OccursOnce

----------------------------------------------------------------------------
(* The registry *)

\* Steps that leave the lists and the recorded fields alone.
LEMMA RegistryFrame ==
  ASSUME RegistryConsistent,
         UNCHANGED <<categories, categoryExists, collectionAddresses,
                     categoryToCollections, userCreatedCollections, deployed>>,
         \A c \in Collections : /\ collections'[c].isActive = collections[c].isActive
                                /\ collections'[c].category = collections[c].category
                                /\ collections'[c].owner = collections[c].owner
  PROVE  RegistryConsistent'
BY DEF RegistryConsistent, Recorded, OccursOnce, Absent

\* The supply is no part of what the lists record.
LEMMA SupplyFrame ==
  ASSUME TypeOK, RegistryConsistent, NEW c \in Collections,
         updateCollectionTotalSupply(c), UNCHANGED deployed
  PROVE  RegistryConsistent'
<1>1. \A d \in Collections : /\ collections'[d].isActive = collections[d].isActive
                             /\ collections'[d].category = collections[d].category
                             /\ collections'[d].owner = collections[d].owner
  BY DEF updateCollectionTotalSupply, TypeOK, RegistryTypeOK, CollectionRecord
<1> QED BY <1>1, RegistryFrame DEF updateCollectionTotalSupply

\* addCategory appends a category that is in no list yet.
LEMMA AddCategoryRegistry ==
  ASSUME TypeOK, RegistryConsistent, NEW u \in Users, NEW k \in NewCategories,
         addCategory(u, k)
  PROVE  RegistryConsistent'
<1>0. /\ k \in Category /\ k \notin categoryExists
      /\ categories \in Seq(Category)
      /\ categories' = Append(categories, k)
      /\ categoryExists' = categoryExists \cup {k}
  BY DEF addCategory, registerCategory, TypeOK, RegistryTypeOK, Category
<1>1. \A l \in Category : Recorded(l, categories', l \in categoryExists')
  <2> SUFFICES ASSUME NEW l \in Category
               PROVE  Recorded(l, categories', l \in categoryExists')
    OBVIOUS
  <2>0. Recorded(l, categories, l \in categoryExists)
    BY DEF RegistryConsistent
  <2>1. CASE l = k
    <3>1. Absent(l, categories)
      BY <1>0, <2>0, <2>1 DEF Recorded
    <3> QED BY <1>0, <2>1, <3>1, AppendSame DEF Recorded
  <2>2. CASE l # k
    <3> DEFINE once == l \in categoryExists
    <3>1. once \in BOOLEAN /\ Recorded(l, categories, once)
      BY <2>0
    <3>2. (l \in categoryExists') <=> once
      BY <1>0, <2>2
    <3> HIDE DEF once
    <3>3. Recorded(l, categories', once)
      BY <1>0, <2>2, <3>1, AppendOther
    <3> QED BY <3>2, <3>3 DEF Recorded
  <2> QED BY <2>1, <2>2
<1>2. UNCHANGED <<collections, collectionAddresses, categoryToCollections,
                  userCreatedCollections, deployed>>
  BY DEF addCategory, registerCategory, collectionVars
<1> QED BY <1>1, <1>2 DEF RegistryConsistent, Recorded, OccursOnce, Absent

\* createCollection appends a collection that is in no list yet to three of them.
LEMMA CreateCollectionRegistry ==
  ASSUME TypeOK, RegistryConsistent, NEW u \in Users, NEW c \in Collections,
         NEW k \in UsedCategories, createCollection(u, c, k)
  PROVE  RegistryConsistent'
<1>0. /\ k \in Category
      /\ c \notin deployed
      /\ deployed' = deployed \cup {c}
      /\ UNCHANGED <<categories, categoryExists>>
      /\ collectionAddresses \in Seq(Collections)
      /\ collectionAddresses' = Append(collectionAddresses, c)
  BY MarketAssumption DEF createCollection, construct, registerCollection, TypeOK, RegistryTypeOK
<1>1. /\ collections'[c].isActive /\ collections'[c].category = k /\ collections'[c].owner = u
      /\ \A d \in Collections \ {c} : collections'[d] = collections[d]
  BY DEF createCollection, registerCollection, TypeOK, RegistryTypeOK, CollectionRecord
<1>2. \A l \in Category :
        /\ categoryToCollections[l] \in Seq(Collections)
        /\ categoryToCollections'[l] = IF l = k THEN Append(categoryToCollections[l], c)
                                                ELSE categoryToCollections[l]
  BY <1>0 DEF createCollection, registerCollection, TypeOK, RegistryTypeOK
<1>3. \A v \in Users :
        /\ userCreatedCollections[v] \in Seq(Collections)
        /\ userCreatedCollections'[v] = IF v = u THEN Append(userCreatedCollections[v], c)
                                                 ELSE userCreatedCollections[v]
  BY DEF createCollection, registerCollection, TypeOK, RegistryTypeOK
<1>4. ASSUME NEW d \in Collections
      PROVE  LET col == collections'[d]
             IN /\ col.isActive <=> d \in deployed'
                /\ Recorded(d, collectionAddresses', col.isActive)
                /\ \A l \in Category :
                     Recorded(d, categoryToCollections'[l], col.isActive /\ l = col.category)
                /\ \A v \in Users :
                     Recorded(d, userCreatedCollections'[v], col.isActive /\ v = col.owner)
  <2>0. /\ collections[d].isActive <=> d \in deployed
        /\ Recorded(d, collectionAddresses, collections[d].isActive)
        /\ \A l \in Category :
             Recorded(d, categoryToCollections[l],
                      collections[d].isActive /\ l = collections[d].category)
        /\ \A v \in Users :
             Recorded(d, userCreatedCollections[v],
                      collections[d].isActive /\ v = collections[d].owner)
        /\ collections[d].isActive \in BOOLEAN
    BY DEF RegistryConsistent, TypeOK, RegistryTypeOK, CollectionRecord
  <2>1. CASE d = c
    <3>1. ~collections[c].isActive
      BY <1>0, <2>0, <2>1
    <3>2. /\ Absent(c, collectionAddresses)
          /\ \A l \in Category : Absent(c, categoryToCollections[l])
          /\ \A v \in Users : Absent(c, userCreatedCollections[v])
      BY <2>0, <2>1, <3>1 DEF Recorded
    <3>3. Recorded(c, collectionAddresses', TRUE)
      BY <1>0, <3>2, AppendSame
    <3>4. ASSUME NEW l \in Category PROVE Recorded(c, categoryToCollections'[l], l = k)
      <4>1. CASE l = k
        BY <1>2, <3>2, <4>1, AppendSame DEF Recorded
      <4>2. CASE l # k
        BY <1>2, <3>2, <4>2 DEF Recorded
      <4> QED BY <4>1, <4>2
    <3>5. ASSUME NEW v \in Users PROVE Recorded(c, userCreatedCollections'[v], v = u)
      <4>1. CASE v = u
        BY <1>3, <3>2, <4>1, AppendSame DEF Recorded
      <4>2. CASE v # u
        BY <1>3, <3>2, <4>2 DEF Recorded
      <4> QED BY <4>1, <4>2
    <3> QED BY <1>0, <1>1, <2>1, <3>3, <3>4, <3>5 DEF Recorded
  <2>2. CASE d # c
    <3>1. collections'[d] = collections[d] /\ (d \in deployed' <=> d \in deployed)
      BY <1>0, <1>1, <2>2
    <3>2. Recorded(d, collectionAddresses', collections[d].isActive)
      BY <1>0, <2>0, <2>2, AppendOther
    <3>3. ASSUME NEW l \in Category
          PROVE  Recorded(d, categoryToCollections'[l],
                          collections[d].isActive /\ l = collections[d].category)
      <4> DEFINE once == collections[d].isActive /\ l = collections[d].category
      <4>1. once \in BOOLEAN /\ Recorded(d, categoryToCollections[l], once)
        BY <2>0
      <4> HIDE DEF once
      <4>2. Recorded(d, categoryToCollections'[l], once)
        BY <1>2, <2>2, <4>1, AppendOther
      <4> QED BY <4>2 DEF once
    <3>4. ASSUME NEW v \in Users
          PROVE  Recorded(d, userCreatedCollections'[v],
                          collections[d].isActive /\ v = collections[d].owner)
      <4> DEFINE once == collections[d].isActive /\ v = collections[d].owner
      <4>1. once \in BOOLEAN /\ Recorded(d, userCreatedCollections[v], once)
        BY <2>0
      <4> HIDE DEF once
      <4>2. Recorded(d, userCreatedCollections'[v], once)
        BY <1>3, <2>2, <4>1, AppendOther
      <4> QED BY <4>2 DEF once
    <3> QED BY <2>0, <3>1, <3>2, <3>3, <3>4
  <2> QED BY <2>1, <2>2
<1>5. \A l \in Category : Recorded(l, categories', l \in categoryExists')
  BY <1>0 DEF RegistryConsistent, Recorded, OccursOnce, Absent
<1> QED BY <1>4, <1>5 DEF RegistryConsistent, Recorded, OccursOnce, Absent

\* The market's functions leave the registry alone.
LEMMA MarketKeepsRegistry ==
  ASSUME MarketStep
  PROVE  UNCHANGED registryVars /\ UNCHANGED deployed
<1>1. ASSUME NEW u \in Users, NEW n \in NFT, NEW p \in Values, createMarketItem(u, n, p)
      PROVE  UNCHANGED registryVars /\ UNCHANGED deployed
  BY <1>1 DEF createMarketItem
<1>2. ASSUME NEW u \in Users, NEW n \in NFT, createMarketSale(u, n)
      PROVE  UNCHANGED registryVars /\ UNCHANGED deployed
  BY <1>2 DEF createMarketSale
<1>3. ASSUME NEW u \in Users, NEW n \in NFT, NEW p \in Values, NEW d \in Durations,
             createAuction(u, n, p, d)
      PROVE  UNCHANGED registryVars /\ UNCHANGED deployed
  BY <1>3 DEF createAuction, collectionVars
<1>4. ASSUME NEW u \in Users, NEW n \in NFT, NEW v \in Values,
             placeBid(u, n, v) \/ makeOffer(u, n, v)
      PROVE  UNCHANGED registryVars /\ UNCHANGED deployed
  BY <1>4 DEF placeBid, makeOffer, collectionVars
<1> QED BY <1>1, <1>2, <1>3, <1>4, Zenon DEF MarketStep, MarketCall

\* Every step keeps the lists consistent.
LEMMA RegistryStep ==
  ASSUME TypeOK, RegistryConsistent, [Next]_vars
  PROVE  RegistryConsistent'
<1>1. ASSUME UNCHANGED registryVars, UNCHANGED deployed PROVE RegistryConsistent'
  BY <1>1, RegistryFrame DEF registryVars
<1>2. ASSUME NEW u \in Users, NEW c \in Collections, NEW to \in Users, NEW uri \in URIs,
             mint(u, c, to, uri)
      PROVE  RegistryConsistent'
  BY <1>2, SupplyFrame DEF mint, mintToken
<1>3. ASSUME NEW u \in Users, NEW c \in Collections, NEW to \in Users, NEW uri \in URIs,
             mintCallReceiver(u, c, to, uri)
      PROVE  RegistryConsistent'
  BY <1>1, <1>3 DEF mintCallReceiver, mintToken
<1>4. ASSUME NEW u \in Users, NEW n \in NFT, NEW to,
             approve(u, to, n) \/ transferFrom(u, to, n)
      PROVE  RegistryConsistent'
  BY <1>1, <1>4 DEF approve, transferFrom, erc721Approve
<1>5. ASSUME NEW u \in Users, NEW c \in Collections, NEW op \in Spenders,
             NEW allowed \in BOOLEAN, setApprovalForAll(u, c, op, allowed)
      PROVE  RegistryConsistent'
  BY <1>1, <1>5 DEF setApprovalForAll, erc721SetApprovalForAll
<1>6. ASSUME NEW u \in Users, NEW o \in Ownables, NEW to \in NewOwners,
             transferOwnership(u, o, to)
      PROVE  RegistryConsistent'
  BY <1>1, <1>6 DEF transferOwnership, ownableTransferOwnership
<1>7. CollectionStep => RegistryConsistent'
  BY <1>2, <1>3, <1>4, <1>5, <1>6, AddCategoryRegistry, CreateCollectionRegistry, Zenon
     DEF CollectionStep, CollectionCall
<1>8. MarketStep => UNCHANGED registryVars /\ UNCHANGED deployed
  BY MarketKeepsRegistry
<1>9. CASE mintReturn
  <2>1. minting[Len(minting)] \in MintCall
    BY <1>9 DEF mintReturn, TypeOK, CollectionTypeOK
  <2>2. minting[Len(minting)].nft[1] \in Collections
    BY <2>1, TokenParts DEF MintCall
  <2> QED BY <1>9, <2>2, SupplyFrame DEF mintReturn
<1>10. tick \/ UNCHANGED vars => UNCHANGED registryVars /\ UNCHANGED deployed
  BY DEF tick, vars, collectionVars
<1> QED BY <1>1, <1>7, <1>8, <1>9, <1>10 DEF Next

\* The constructor lists every initial category once.
LEMMA InitialCategoriesOnce ==
  \A k \in Category : Recorded(k, InitialCategories, k \in InitialCategorySet)
<1> SUFFICES ASSUME NEW k \in Category
             PROVE  Recorded(k, InitialCategories, k \in InitialCategorySet)
  OBVIOUS
<1>0. DOMAIN InitialCategories = 1..6
  BY DEF InitialCategories
<1>1. CASE k \notin InitialCategorySet
  BY <1>0, <1>1 DEF Recorded, Absent, InitialCategories, InitialCategorySet
<1>2. ASSUME NEW i \in 1..6, k = InitialCategories[i], k \in InitialCategorySet
      PROVE  Recorded(k, InitialCategories, k \in InitialCategorySet)
  <2>1. \A j \in 1..6 : InitialCategories[j] = k <=> j = i
    BY <1>2 DEF InitialCategories
  <2> QED BY <1>0, <1>2, <2>1 DEF Recorded, OccursOnce
<1>3. k \in InitialCategorySet => \E i \in 1..6 : k = InitialCategories[i]
  BY DEF InitialCategories, InitialCategorySet
<1> QED BY <1>1, <1>2, <1>3

\* The four places a collection is recorded in, and the two for categories,
\* never disagree.
THEOREM RegistryConsistentAlways == Spec => []RegistryConsistent
<1>1. Init => RegistryConsistent
  <2> SUFFICES ASSUME Init PROVE RegistryConsistent
    OBVIOUS
  <2>1. \A k \in Category : Recorded(k, categories, k \in categoryExists)
    BY InitialCategoriesOnce DEF Init, RegistryInit
  <2>2. \A c \in Collections : ~collections[c].isActive /\ c \notin deployed
    BY DEF Init, RegistryInit, CollectionInit, NoCollection
  <2>3. /\ collectionAddresses = <<>>
        /\ \A k \in Category : categoryToCollections[k] = <<>>
        /\ \A u \in Users : userCreatedCollections[u] = <<>>
    BY DEF Init, RegistryInit
  <2>4. \A x : Absent(x, <<>>)
    BY DEF Absent
  <2> QED BY <2>1, <2>2, <2>3, <2>4 DEF RegistryConsistent, Recorded
<1>2. TypeOK /\ RegistryConsistent /\ [Next]_vars => RegistryConsistent'
  BY RegistryStep
<1> QED BY <1>1, <1>2, TypeCorrect, PTL DEF Spec

----------------------------------------------------------------------------
(* The copy of the supply *)

\* No mint of collection c is inside its receiver's hook.
Quiet(c) == \A i \in DOMAIN minting : minting[i].nft[1] # c

\* Steps that mint nothing and deploy nothing.
LEMMA SupplyFrameInv ==
  ASSUME SupplyInv, UNCHANGED <<minting, tokenIds, deployed, collections>>
  PROVE  SupplyInv'
BY DEF SupplyInv, SupplySynced

\* A new collection starts with supply 0 in both contracts.
LEMMA CreateCollectionSupply ==
  ASSUME TypeOK, SupplyInv, NEW u \in Users, NEW c \in Collections, NEW k \in UsedCategories,
         createCollection(u, c, k)
  PROVE  SupplyInv'
<1>1. /\ c \notin deployed
      /\ deployed' = deployed \cup {c}
      /\ UNCHANGED <<minting, tokenIds>>
      /\ collections'[c].totalSupply = 0
      /\ \A d \in Collections \ {c} : collections'[d] = collections[d]
  BY DEF createCollection, construct, registerCollection, TypeOK, RegistryTypeOK
<1> QED BY <1>1 DEF SupplyInv, SupplySynced

\* A mint to an account without code updates counter and copy together.
LEMMA MintSupply ==
  ASSUME TypeOK, SupplyInv, NEW u \in Users, NEW c \in Collections, NEW to \in Users,
         NEW uri \in URIs, mint(u, c, to, uri)
  PROVE  SupplyInv'
<1>1. /\ c \in deployed
      /\ UNCHANGED <<minting, deployed>>
      /\ \A d \in Collections \ {c} : tokenIds'[d] = tokenIds[d]
  BY DEF mint, mintToken, TypeOK, CollectionTypeOK
<1>2. /\ collections'[c].totalSupply = tokenIds'[c]
      /\ \A d \in Collections \ {c} : collections'[d] = collections[d]
  BY DEF mint, updateCollectionTotalSupply, TypeOK, RegistryTypeOK, CollectionRecord
<1> QED BY <1>1, <1>2 DEF SupplyInv, SupplySynced

\* A mint that enters a hook leaves the copy behind until it returns.
LEMMA MintCallReceiverSupply ==
  ASSUME TypeOK, SupplyInv, NEW u \in Users, NEW c \in Collections, NEW to \in Users,
         NEW uri \in URIs, mintCallReceiver(u, c, to, uri)
  PROVE  SupplyInv'
<1> DEFINE call == [nft |-> <<c, tokenIds[c] + 1>>, uri |-> uri]
<1>1. /\ c \in deployed
      /\ UNCHANGED <<deployed, collections>>
      /\ \A d \in Collections \ {c} : tokenIds'[d] = tokenIds[d]
  BY DEF mintCallReceiver, mintToken, registryVars, TypeOK, CollectionTypeOK
<1>2. minting \in Seq(MintCall) /\ call \in MintCall /\ minting' = Append(minting, call)
  BY MintTokenType DEF mintCallReceiver, TypeOK, CollectionTypeOK, MintCall
<1>3. call.nft[1] = c
  OBVIOUS
<1> HIDE DEF call
<1>4. /\ Len(minting) \in Nat
      /\ DOMAIN minting = 1..Len(minting) /\ DOMAIN minting' = 1..(Len(minting) + 1)
      /\ \A i \in 1..Len(minting) : minting'[i] = minting[i]
      /\ minting'[Len(minting) + 1] = call
  BY <1>2, AppendFacts
<1>5. ~Quiet(c)' /\ \A d \in Collections : Quiet(d)' => Quiet(d)
  BY <1>3, <1>4 DEF Quiet
<1> QED BY <1>1, <1>5 DEF SupplyInv, SupplySynced, Quiet

\* The supply is read back from the counter, so the innermost of several nested
\* mints already stores the final value and the outer ones store it again.
LEMMA MintReturnSupply ==
  ASSUME TypeOK, SupplyInv, mintReturn
  PROVE  SupplyInv'
<1> DEFINE call == minting[Len(minting)]
           c == call.nft[1]
<1>1. minting \in Seq(MintCall) /\ minting # <<>> /\ call \in MintCall
  BY DEF mintReturn, TypeOK, CollectionTypeOK
<1>2. c \in Collections
  BY <1>1, TokenParts DEF MintCall
<1>3. UNCHANGED <<deployed, tokenIds>>
  BY DEF mintReturn
<1>4. /\ collections'[c].totalSupply = tokenIds'[c]
      /\ \A d \in Collections \ {c} : collections'[d] = collections[d]
  BY <1>2 DEF mintReturn, updateCollectionTotalSupply, TypeOK, RegistryTypeOK,
     CollectionRecord
<1>5. minting' = SubSeq(minting, 1, Len(minting) - 1)
  BY DEF mintReturn
<1>6. /\ Len(minting) \in Nat \ {0}
      /\ DOMAIN minting = 1..Len(minting) /\ DOMAIN minting' = 1..(Len(minting) - 1)
      /\ \A i \in 1..(Len(minting) - 1) : minting'[i] = minting[i]
  BY <1>1, <1>5
<1>7. \A d \in Collections \ {c} : Quiet(d)' => Quiet(d)
  BY <1>6 DEF Quiet
<1> HIDE DEF c
<1> QED BY <1>2, <1>3, <1>4, <1>7 DEF SupplyInv, SupplySynced, Quiet

\* Every step keeps the supply invariant.
LEMMA SupplyStep ==
  ASSUME TypeOK, SupplyInv, [Next]_vars
  PROVE  SupplyInv'
<1>1. ASSUME UNCHANGED <<minting, tokenIds, deployed, collections>> PROVE SupplyInv'
  BY <1>1, SupplyFrameInv
<1>2. ASSUME NEW u \in Users, NEW k \in NewCategories, addCategory(u, k) PROVE SupplyInv'
  BY <1>1, <1>2 DEF addCategory, registerCategory, collectionVars
<1>3. ASSUME NEW u \in Users, NEW n \in NFT, NEW to,
             approve(u, to, n) \/ transferFrom(u, to, n)
      PROVE  SupplyInv'
  BY <1>1, <1>3 DEF approve, transferFrom, erc721Approve, registryVars
<1>4. ASSUME NEW u \in Users, NEW c \in Collections, NEW op \in Spenders,
             NEW allowed \in BOOLEAN, setApprovalForAll(u, c, op, allowed)
      PROVE  SupplyInv'
  BY <1>1, <1>4 DEF setApprovalForAll, erc721SetApprovalForAll, registryVars
<1>5. ASSUME NEW u \in Users, NEW o \in Ownables, NEW to \in NewOwners,
             transferOwnership(u, o, to)
      PROVE  SupplyInv'
  BY <1>1, <1>5 DEF transferOwnership, ownableTransferOwnership, registryVars
<1>6. CollectionStep => SupplyInv'
  BY <1>2, <1>3, <1>4, <1>5, CreateCollectionSupply, MintSupply, MintCallReceiverSupply,
     Zenon DEF CollectionStep, CollectionCall
<1>7. ASSUME MarketStep PROVE SupplyInv'
  <2>1. ASSUME NEW u \in Users, NEW n \in NFT, NEW p \in Values, createMarketItem(u, n, p)
        PROVE  SupplyInv'
    BY <1>1, <2>1 DEF createMarketItem, registryVars
  <2>2. ASSUME NEW u \in Users, NEW n \in NFT, createMarketSale(u, n)
        PROVE  SupplyInv'
    BY <1>1, <2>2 DEF createMarketSale, registryVars
  <2>3. ASSUME NEW u \in Users, NEW n \in NFT, NEW p \in Values, NEW d \in Durations,
               createAuction(u, n, p, d)
        PROVE  SupplyInv'
    BY <1>1, <2>3 DEF createAuction, collectionVars, registryVars
  <2>4. ASSUME NEW u \in Users, NEW n \in NFT, NEW v \in Values,
               placeBid(u, n, v) \/ makeOffer(u, n, v)
        PROVE  SupplyInv'
    BY <1>1, <2>4 DEF placeBid, makeOffer, collectionVars, registryVars
  <2> QED BY <1>7, <2>1, <2>2, <2>3, <2>4, Zenon DEF MarketStep, MarketCall
<1>8. tick \/ UNCHANGED vars => SupplyInv'
  BY <1>1 DEF tick, vars, collectionVars, registryVars
<1> QED BY <1>6, <1>7, <1>8, MintReturnSupply DEF Next

\* SupplyInv holds in every reachable state.
LEMMA SupplyInvAlways == Spec => []SupplyInv
<1>1. Init => SupplyInv
  <2> SUFFICES ASSUME Init PROVE SupplyInv
    OBVIOUS
  <2>1. \A c \in Collections : tokenIds[c] = 0 /\ collections[c].totalSupply = 0
    BY DEF Init, CollectionInit, RegistryInit, NoCollection
  <2> QED BY <2>1 DEF SupplyInv, SupplySynced
<1>2. TypeOK /\ SupplyInv /\ [Next]_vars => SupplyInv'
  BY SupplyStep
<1> QED BY <1>1, <1>2, TypeCorrect, PTL DEF Spec

\* Whenever no mint of a collection waits for its receiver, the marketplace's
\* copy of the supply is the collection's counter, however mints were nested.
THEOREM SupplySyncedAlways == Spec => []SupplySynced
<1>1. SupplyInv => SupplySynced
  BY DEF SupplyInv
<1> QED BY <1>1, SupplyInvAlways, PTL

----------------------------------------------------------------------------
(* Token URIs *)

\* Steps that mint nothing and write no URI.
LEMMA URIFrame ==
  ASSUME URIInv, UNCHANGED <<minting, tokenIds, tokenURIs>>,
         \A n \in NFT : collectionToMarketItems'[n].tokenURI
                          \in {NoURI, collectionToMarketItems[n].tokenURI, tokenURIs[n]}
  PROVE  URIInv'
BY DEF URIInv

\* A step that changes one market item.
LEMMA URIItem ==
  ASSUME TypeOK, URIInv, NEW n \in NFT, NEW item,
         collectionToMarketItems' = [collectionToMarketItems EXCEPT ![n] = item],
         item.tokenURI \in {collectionToMarketItems[n].tokenURI, tokenURIs[n]},
         UNCHANGED <<minting, tokenIds, tokenURIs>>
  PROVE  URIInv'
<1>1. \A m \in NFT : collectionToMarketItems'[m].tokenURI
                       \in {NoURI, collectionToMarketItems[m].tokenURI, tokenURIs[m]}
  BY DEF TypeOK, MarketTypeOK
<1> QED BY <1>1, URIFrame

\* The tokens whose mint waits for its receiver.
LEMMA StackTokens ==
  ASSUME TypeOK, NEW i \in DOMAIN minting
  PROVE  /\ minting[i].nft \in NFT
         /\ minting[i].nft[1] \in Collections
         /\ minting[i].nft[2] \in Nat
<1>1. minting[i] \in MintCall
  BY DEF TypeOK, CollectionTypeOK
<1>2. minting[i].nft \in NFT
  BY <1>1 DEF MintCall
<1> QED BY <1>2, TokenParts, AddressAssumption DEF TokenId

\* The token that a mint gives out: the first id above the counter.
LEMMA FreshToken ==
  ASSUME TypeOK, URIInv, NEW u \in Users, NEW c \in Collections, NEW to \in Users,
         mintToken(u, c, to)
  PROVE  LET n == <<c, tokenIds[c] + 1>>
         IN /\ n \in NFT
            /\ tokenURIs[n] = NoURI
            /\ collectionToMarketItems[n].tokenURI = NoURI
            /\ \A i \in DOMAIN minting : minting[i].nft # n
            /\ tokenIds'[c] = tokenIds[c] + 1 /\ tokenIds[c] \in Nat
            /\ \A d \in Collections \ {c} : tokenIds'[d] = tokenIds[d]
<1> DEFINE n == <<c, tokenIds[c] + 1>>
<1>1. /\ tokenIds[c] \in 0..MaxTokens /\ tokenIds[c] < MaxTokens
      /\ tokenIds'[c] = tokenIds[c] + 1
      /\ \A d \in Collections \ {c} : tokenIds'[d] = tokenIds[d]
  BY DEF mintToken, TypeOK, CollectionTypeOK
<1>2. n \in NFT /\ n[1] = c /\ n[2] = tokenIds[c] + 1
  BY <1>1, AddressAssumption DEF NFT, TokenId
<1>3. tokenURIs[n] = NoURI
  BY <1>1, <1>2, AddressAssumption DEF URIInv
<1>4. collectionToMarketItems[n].tokenURI = NoURI
  BY <1>2, <1>3 DEF URIInv
<1>5. ASSUME NEW i \in DOMAIN minting, minting[i].nft = n PROVE FALSE
  BY <1>1, <1>2, <1>5, AddressAssumption DEF URIInv
<1> QED BY <1>1, <1>2, <1>3, <1>4, <1>5, AddressAssumption

\* A mint without a hook writes the URI of a token that was never listed.
LEMMA MintURI ==
  ASSUME TypeOK, URIInv, NEW u \in Users, NEW c \in Collections, NEW to \in Users,
         NEW uri \in URIs, mint(u, c, to, uri)
  PROVE  URIInv'
<1> DEFINE n == <<c, tokenIds[c] + 1>>
<1>1. mintToken(u, c, to) /\ UNCHANGED <<minting, collectionToMarketItems>>
      /\ tokenURIs' = [tokenURIs EXCEPT ![n] = uri]
  BY DEF mint, marketVars
<1>2. /\ n \in NFT /\ n[1] = c /\ n[2] = tokenIds[c] + 1
      /\ collectionToMarketItems[n].tokenURI = NoURI
      /\ \A i \in DOMAIN minting : minting[i].nft # n
      /\ tokenIds'[c] = tokenIds[c] + 1 /\ tokenIds[c] \in Nat
      /\ \A d \in Collections \ {c} : tokenIds'[d] = tokenIds[d]
  BY <1>1, FreshToken
<1>3. \A m \in NFT \ {n} : tokenURIs'[m] = tokenURIs[m]
  BY <1>1
<1>4. \A d \in Collections : tokenIds[d] \in Nat /\ tokenIds'[d] \in Nat /\ tokenIds[d] <= tokenIds'[d]
  BY <1>2, AddressAssumption DEF TypeOK, CollectionTypeOK
<1>5. ASSUME NEW m \in NFT PROVE collectionToMarketItems'[m].tokenURI \in {NoURI, tokenURIs'[m]}
  BY <1>1, <1>2, <1>3 DEF URIInv
<1>6. ASSUME NEW m \in NFT, m[2] > tokenIds'[m[1]] PROVE tokenURIs'[m] = NoURI
  <2>1. m[1] \in Collections /\ m[2] \in Nat
    BY TokenParts, AddressAssumption DEF TokenId
  <2>2. m[2] > tokenIds[m[1]] /\ m # n
    BY <1>2, <1>4, <1>6, <2>1
  <2> QED BY <1>3, <2>2 DEF URIInv
<1>7. ASSUME NEW i \in DOMAIN minting
      PROVE  minting[i].nft[2] <= tokenIds'[minting[i].nft[1]] /\ tokenURIs'[minting[i].nft] = NoURI
  <2>1. minting[i].nft \in NFT /\ minting[i].nft[1] \in Collections /\ minting[i].nft[2] \in Nat
    BY StackTokens
  <2> QED BY <1>2, <1>3, <1>4, <2>1 DEF URIInv
<1> QED BY <1>1, <1>5, <1>6, <1>7 DEF URIInv

\* A mint that enters the hook adds a token nobody else waits for.
LEMMA MintCallReceiverURI ==
  ASSUME TypeOK, URIInv, NEW u \in Users, NEW c \in Collections, NEW to \in Users,
         NEW uri \in URIs, mintCallReceiver(u, c, to, uri)
  PROVE  URIInv'
<1> DEFINE n == <<c, tokenIds[c] + 1>>
           call == [nft |-> n, uri |-> uri]
<1>1. mintToken(u, c, to) /\ UNCHANGED <<tokenURIs, collectionToMarketItems>>
      /\ minting' = Append(minting, call)
  BY DEF mintCallReceiver, marketVars
<1>2. /\ n \in NFT /\ n[1] = c /\ n[2] = tokenIds[c] + 1 /\ call.nft = n
      /\ tokenURIs[n] = NoURI
      /\ \A i \in DOMAIN minting : minting[i].nft # n
      /\ tokenIds'[c] = tokenIds[c] + 1 /\ tokenIds[c] \in Nat
      /\ \A d \in Collections \ {c} : tokenIds'[d] = tokenIds[d]
  BY <1>1, FreshToken
<1>3. \A d \in Collections : tokenIds[d] \in Nat /\ tokenIds'[d] \in Nat /\ tokenIds[d] <= tokenIds'[d]
  <2>1. \A d \in Collections : tokenIds[d] \in Nat
    BY AddressAssumption DEF TypeOK, CollectionTypeOK
  <2> QED BY <1>2, <2>1
<1>4. /\ DOMAIN minting' = DOMAIN minting \cup {Len(minting) + 1}
      /\ minting'[Len(minting) + 1] = call
      /\ \A i \in DOMAIN minting : minting'[i] = minting[i] /\ i # Len(minting) + 1
  <2>1. minting \in Seq(MintCall) /\ call \in MintCall
    BY <1>2 DEF TypeOK, CollectionTypeOK, MintCall
  <2> QED BY <1>1, <2>1, AppendFacts
<1> HIDE DEF call
<1>5. ASSUME NEW m \in NFT, m[2] > tokenIds'[m[1]] PROVE tokenURIs'[m] = NoURI
  <2>1. m[1] \in Collections /\ m[2] \in Nat
    BY TokenParts, AddressAssumption DEF TokenId
  <2>2. m[2] > tokenIds[m[1]]
    BY <1>3, <1>5, <2>1
  <2> QED BY <1>1, <2>2 DEF URIInv
<1>6. ASSUME NEW i \in DOMAIN minting'
      PROVE  /\ minting'[i].nft[2] <= tokenIds'[minting'[i].nft[1]]
             /\ tokenURIs'[minting'[i].nft] = NoURI
  <2>1. CASE i \in DOMAIN minting
    <3>1. minting[i].nft[1] \in Collections /\ minting[i].nft[2] \in Nat
      BY <2>1, StackTokens
    <3> QED BY <1>1, <1>3, <1>4, <2>1, <3>1 DEF URIInv
  <2>2. CASE i = Len(minting) + 1
    BY <1>1, <1>2, <1>4, <2>2
  <2> QED BY <1>4, <1>6, <2>1, <2>2
<1>7. ASSUME NEW i \in DOMAIN minting', NEW j \in DOMAIN minting',
             minting'[i].nft = minting'[j].nft
      PROVE  i = j
  BY <1>2, <1>4, <1>7 DEF URIInv
<1> QED BY <1>1, <1>5, <1>6, <1>7 DEF URIInv

\* A mint that returns writes a URI that no listing has copied.
LEMMA MintReturnURI ==
  ASSUME TypeOK, URIInv, mintReturn
  PROVE  URIInv'
<1> DEFINE k == Len(minting)
           n == minting[k].nft
<1>1. /\ minting \in Seq(MintCall) /\ minting # <<>>
      /\ tokenURIs' = [tokenURIs EXCEPT ![n] = minting[k].uri]
      /\ minting' = SubSeq(minting, 1, k - 1)
      /\ UNCHANGED <<tokenIds, collectionToMarketItems>>
  BY DEF mintReturn, newTokenId, marketVars, TypeOK, CollectionTypeOK
<1>2. /\ k \in Nat \ {0} /\ k \in DOMAIN minting
      /\ DOMAIN minting = 1..k /\ DOMAIN minting' = 1..(k - 1)
      /\ \A i \in 1..(k - 1) : minting'[i] = minting[i]
  BY <1>1
<1>3. n \in NFT /\ n[1] \in Collections /\ n[2] \in Nat
  BY <1>2, StackTokens
<1>4. tokenURIs[n] = NoURI /\ n[2] <= tokenIds[n[1]] /\ tokenIds[n[1]] \in Nat
  BY <1>2, <1>3, AddressAssumption DEF URIInv, TypeOK, CollectionTypeOK
<1>5. \A m \in NFT \ {n} : tokenURIs'[m] = tokenURIs[m]
  BY <1>1
<1>6. \A i \in 1..(k - 1) : i \in DOMAIN minting /\ minting[i].nft # n
  BY <1>2 DEF URIInv
<1> HIDE DEF n, k
<1>7. ASSUME NEW m \in NFT PROVE collectionToMarketItems'[m].tokenURI \in {NoURI, tokenURIs'[m]}
  BY <1>1, <1>4, <1>5 DEF URIInv
<1>8. ASSUME NEW m \in NFT, m[2] > tokenIds'[m[1]] PROVE tokenURIs'[m] = NoURI
  <2>1. m # n
    BY <1>1, <1>3, <1>4, <1>8
  <2> QED BY <1>1, <1>5, <1>8, <2>1 DEF URIInv
<1>9. ASSUME NEW i \in DOMAIN minting'
      PROVE  /\ minting'[i].nft[2] <= tokenIds'[minting'[i].nft[1]]
             /\ tokenURIs'[minting'[i].nft] = NoURI
  <2>1. i \in DOMAIN minting /\ minting'[i] = minting[i] /\ minting[i].nft # n
    BY <1>2, <1>6, <1>9
  <2>2. minting[i].nft \in NFT
    BY <2>1, StackTokens
  <2> QED BY <1>1, <1>5, <2>1, <2>2 DEF URIInv
<1>10. ASSUME NEW i \in DOMAIN minting', NEW j \in DOMAIN minting',
              minting'[i].nft = minting'[j].nft
       PROVE  i = j
  BY <1>2, <1>6, <1>10 DEF URIInv
<1> QED BY <1>7, <1>8, <1>9, <1>10 DEF URIInv

\* Every step keeps the invariant.
LEMMA URIStep ==
  ASSUME TypeOK, URIInv, [Next]_vars
  PROVE  URIInv'
<1>1. ASSUME UNCHANGED <<minting, tokenIds, tokenURIs, collectionToMarketItems>> PROVE URIInv'
  BY <1>1 DEF URIInv
<1>2. ASSUME NEW u \in Users, NEW k \in NewCategories, addCategory(u, k) PROVE URIInv'
  BY <1>1, <1>2 DEF addCategory, collectionVars, marketVars
<1>3. ASSUME NEW u \in Users, NEW c \in Collections, NEW k \in UsedCategories,
             createCollection(u, c, k)
      PROVE  URIInv'
  BY <1>1, <1>3 DEF createCollection, construct, marketVars
<1>4. ASSUME NEW u \in Users, NEW n \in NFT, NEW to,
             approve(u, to, n) \/ transferFrom(u, to, n)
      PROVE  URIInv'
  BY <1>1, <1>4 DEF approve, transferFrom, erc721Approve, marketVars
<1>5. ASSUME NEW u \in Users, NEW c \in Collections, NEW op \in Spenders,
             NEW allowed \in BOOLEAN, setApprovalForAll(u, c, op, allowed)
      PROVE  URIInv'
  BY <1>1, <1>5 DEF setApprovalForAll, erc721SetApprovalForAll, marketVars
<1>6. ASSUME NEW u \in Users, NEW o \in Ownables, NEW to \in NewOwners,
             transferOwnership(u, o, to)
      PROVE  URIInv'
  BY <1>1, <1>6 DEF transferOwnership, ownableTransferOwnership, marketVars
<1>7. CollectionStep => URIInv'
  BY <1>2, <1>3, <1>4, <1>5, <1>6, MintURI, MintCallReceiverURI, Zenon
     DEF CollectionStep, CollectionCall
<1>8. ASSUME MarketStep PROVE URIInv'
  <2>1. ASSUME NEW n \in NFT PROVE collectionToMarketItems[n] \in MarketItem
    BY DEF TypeOK, MarketTypeOK
  <2>2. ASSUME NEW u \in Users, NEW n \in NFT, NEW p \in Values, createMarketItem(u, n, p)
        PROVE  URIInv'
    <3>1. listed(u, n, p).tokenURI = tokenURIs[n]
      BY DEF listed, tokenURI
    <3> QED BY <2>2, <3>1, URIItem DEF createMarketItem
  <2>3. ASSUME NEW u \in Users, NEW n \in NFT, createMarketSale(u, n)
        PROVE  URIInv'
    <3>1. sold(collectionToMarketItems[n], u).tokenURI = collectionToMarketItems[n].tokenURI
      BY <2>1 DEF sold, MarketItem
    <3> QED BY <2>3, <3>1, URIItem DEF createMarketSale
  <2>4. ASSUME NEW u \in Users, NEW n \in NFT, NEW p \in Values, NEW d \in Durations,
               createAuction(u, n, p, d)
        PROVE  URIInv'
    <3>1. auctioned(collectionToMarketItems[n], p, now + d).tokenURI
            = collectionToMarketItems[n].tokenURI
      BY <2>1 DEF auctioned, MarketItem
    <3> QED BY <2>4, <3>1, URIItem DEF createAuction, collectionVars
  <2>5. ASSUME NEW u \in Users, NEW n \in NFT, NEW v \in Values, placeBid(u, n, v)
        PROVE  URIInv'
    <3>1. outbid(collectionToMarketItems[n], u, v).tokenURI = collectionToMarketItems[n].tokenURI
      BY <2>1 DEF outbid, MarketItem
    <3> QED BY <2>5, <3>1, URIItem DEF placeBid, collectionVars
  <2>6. ASSUME NEW u \in Users, NEW n \in NFT, NEW v \in Values, makeOffer(u, n, v)
        PROVE  URIInv'
    BY <1>1, <2>6 DEF makeOffer, collectionVars
  <2> QED BY <1>8, <2>2, <2>3, <2>4, <2>5, <2>6, Zenon DEF MarketStep, MarketCall
<1>9. tick \/ UNCHANGED vars => URIInv'
  BY <1>1 DEF tick, vars, collectionVars, marketVars
<1> QED BY <1>7, <1>8, <1>9, MintReturnURI DEF Next

\* A URI copied into a market item stays the token's own: mint writes each URI
\* once, and never one that a listing may have copied, however mints nest.
THEOREM ItemURIMatchesAlways == Spec => []ItemURIMatches
<1>1. Init => URIInv
  BY DEF Init, CollectionInit, NoItem, URIInv
<1>2. TypeOK /\ URIInv /\ [Next]_vars => URIInv'
  BY URIStep
<1>3. URIInv => ItemURIMatches
  BY DEF URIInv, ItemURIMatches
<1> QED BY <1>1, <1>2, <1>3, TypeCorrect, PTL DEF Spec

----------------------------------------------------------------------------
(* What can be bought, and where it is found *)

\* A collection stays active and keeps its category, and so do the categories: no
\* function removes anything from the registry.
LEMMA RegistryGrows ==
  ASSUME TypeOK, [Next]_vars, NEW c \in Collections
  PROVE  /\ categoryExists \subseteq categoryExists'
         /\ \/ /\ collections'[c].isActive = collections[c].isActive
               /\ collections'[c].category = collections[c].category
            \/ collections'[c].isActive /\ collections'[c].category \in categoryExists'
<1> DEFINE Same == /\ collections'[c].isActive = collections[c].isActive
                   /\ collections'[c].category = collections[c].category
           New == collections'[c].isActive /\ collections'[c].category \in categoryExists'
           Goal == categoryExists \subseteq categoryExists' /\ (Same \/ New)
<1> SUFFICES Goal
  OBVIOUS
<1>0. collections \in [Collections -> CollectionRecord]
  BY DEF TypeOK, RegistryTypeOK
<1>1. ASSUME UNCHANGED registryVars PROVE Goal
  BY <1>1 DEF registryVars
<1>2. ASSUME NEW u \in Users, NEW k \in NewCategories, addCategory(u, k) PROVE Goal
  BY <1>2 DEF addCategory, registerCategory
<1>3. ASSUME NEW u \in Users, NEW d \in Collections, NEW k \in UsedCategories,
             createCollection(u, d, k)
      PROVE  Goal
  <2>1. /\ k \in categoryExists /\ categoryExists' = categoryExists
        /\ collections' = [collections EXCEPT ![d] =
                             [category |-> k, owner |-> u, isActive |-> TRUE, totalSupply |-> 0]]
    BY <1>3 DEF createCollection, registerCollection
  <2>2. CASE c = d
    BY <1>0, <2>1, <2>2
  <2>3. CASE c # d
    BY <1>0, <2>1, <2>3
  <2> QED BY <2>2, <2>3
<1>4. ASSUME NEW d \in Collections, updateCollectionTotalSupply(d) PROVE Goal
  BY <1>0, <1>4 DEF updateCollectionTotalSupply, CollectionRecord
<1>5. ASSUME NEW u \in Users, NEW d \in Collections, NEW to \in Users, NEW uri \in URIs,
             mint(u, d, to, uri)
      PROVE  Goal
  BY <1>4, <1>5 DEF mint
<1>6. ASSUME mintReturn PROVE Goal
  <2>1. minting[Len(minting)] \in MintCall
    BY <1>6 DEF mintReturn, TypeOK, CollectionTypeOK
  <2>2. minting[Len(minting)].nft[1] \in Collections
    BY <2>1, TokenParts DEF MintCall
  <2> QED BY <1>4, <1>6, <2>2 DEF mintReturn
<1>7. ASSUME NEW u \in Users, CollectionCall(u) PROVE Goal
  <2>1. \/ \E k \in NewCategories : addCategory(u, k)
        \/ \E d \in Collections, k \in UsedCategories : createCollection(u, d, k)
        \/ \E d \in Collections, to \in Users, uri \in URIs : mint(u, d, to, uri)
        \/ UNCHANGED registryVars
    BY <1>7 DEF CollectionCall, mintCallReceiver, approve, setApprovalForAll, transferFrom,
                transferOwnership
  <2> HIDE DEF Goal
  <2> QED BY <1>1, <1>2, <1>3, <1>5, <2>1
<1>8. MarketStep => UNCHANGED registryVars
  BY MarketKeepsRegistry
<1>9. tick \/ UNCHANGED vars => UNCHANGED registryVars
  BY DEF tick, vars
<1> HIDE DEF Goal
<1> QED BY <1>1, <1>6, <1>7, <1>8, <1>9 DEF Next, CollectionStep

\* Every step keeps LiveListings.
LEMMA LiveListingsStep ==
  ASSUME TypeOK, LiveListings, [Next]_vars
  PROVE  LiveListings'
<1>1. ASSUME NEW c \in Collections
      PROVE  /\ collections[c].isActive => collections'[c].isActive
             /\ collections'[c].isActive => collections'[c].category \in categoryExists'
  BY RegistryGrows DEF LiveListings
<1>2. ASSUME NEW n \in NFT, collectionToMarketItems'[n].isOnSale
      PROVE  collectionToMarketItems'[n].seller # NoAddr /\ collections[n[1]].isActive
  <2> DEFINE item == collectionToMarketItems[n]
  <2>0. item \in MarketItem /\ collectionToMarketItems \in [NFT -> MarketItem]
    BY DEF TypeOK, MarketTypeOK
  <2>1. CASE collectionToMarketItems'[n] = item
    BY <1>2, <2>1 DEF LiveListings
  <2>2. ASSUME NEW u \in Users, NEW p \in Values, createMarketItem(u, n, p)
        PROVE  collectionToMarketItems'[n].seller # NoAddr /\ collections[n[1]].isActive
    BY <2>0, <2>2, AddressAssumption DEF createMarketItem, listed
  <2>3. ASSUME NEW u \in Users, createMarketSale(u, n) PROVE FALSE
    <3>1. collectionToMarketItems'[n] = [item EXCEPT !.isOnSale = FALSE, !.owner = u]
      BY <2>0, <2>3 DEF createMarketSale, sold
    <3> QED BY <1>2, <2>0, <3>1 DEF MarketItem
  <2>4. ASSUME NEW u \in Users, NEW p \in Values, NEW d \in Durations, createAuction(u, n, p, d)
        PROVE  collectionToMarketItems'[n].seller # NoAddr /\ collections[n[1]].isActive
    <3>1. collectionToMarketItems'[n] = [item EXCEPT !.isAuction = TRUE, !.price = p,
                                                     !.auctionEndTime = now + d]
      BY <2>0, <2>4 DEF createAuction, auctioned
    <3>2. /\ collectionToMarketItems'[n].isOnSale = item.isOnSale
          /\ collectionToMarketItems'[n].seller = item.seller
      BY <2>0, <3>1 DEF MarketItem
    <3> QED BY <1>2, <3>2 DEF LiveListings
  <2>5. ASSUME NEW u \in Users, NEW v \in Values, placeBid(u, n, v)
        PROVE  collectionToMarketItems'[n].seller # NoAddr /\ collections[n[1]].isActive
    <3>1. collectionToMarketItems'[n] = [item EXCEPT !.highestBidder = u, !.highestBid = v]
      BY <2>0, <2>5 DEF placeBid, outbid
    <3>2. /\ collectionToMarketItems'[n].isOnSale = item.isOnSale
          /\ collectionToMarketItems'[n].seller = item.seller
      BY <2>0, <3>1 DEF MarketItem
    <3> QED BY <1>2, <3>2 DEF LiveListings
  <2> QED BY <2>1, <2>2, <2>3, <2>4, <2>5, BooksStep
<1> QED BY <1>1, <1>2, TokenParts DEF LiveListings

\* LiveListings holds in every reachable state.
LEMMA LiveListingsAlways == Spec => []LiveListings
<1>1. Init => LiveListings
  <2> SUFFICES ASSUME Init PROVE LiveListings
    OBVIOUS
  <2>1. \A n \in NFT : ~collectionToMarketItems[n].isOnSale
    BY DEF Init, NoItem
  <2>2. \A c \in Collections : ~collections[c].isActive
    BY DEF Init, RegistryInit, NoCollection
  <2> QED BY <2>1, <2>2 DEF LiveListings
<1>2. TypeOK /\ LiveListings /\ [Next]_vars => LiveListings'
  BY LiveListingsStep
<1> QED BY <1>1, <1>2, TypeCorrect, PTL DEF Spec

\* How often a list holds what it records once or not at all.
LEMMA OccurrencesRecorded ==
  ASSUME NEW S, NEW seq \in Seq(S), NEW x, NEW once \in BOOLEAN, Recorded(x, seq, once)
  PROVE  Occurrences(x, seq) = IF once THEN 1 ELSE 0
<1> DEFINE T == {i \in DOMAIN seq : seq[i] = x}
<1>1. CASE once
  <2>1. PICK i \in DOMAIN seq : \A j \in DOMAIN seq : seq[j] = x <=> j = i
    BY <1>1 DEF Recorded, OccursOnce
  <2>2. T = {i}
    BY <2>1
  <2> QED BY <1>1, <2>2, FS_Singleton DEF Occurrences
<1>2. CASE ~once
  <2>1. T = {}
    BY <1>2 DEF Recorded, Absent
  <2> QED BY <1>2, <2>1, FS_EmptySet DEF Occurrences
<1> QED BY <1>1, <1>2

\* No list of collections that is recorded makes a fetch revert: it names only
\* collections that are active.
LEMMA FetchesReturn ==
  ASSUME TypeOK, RegistryConsistent
  PROVE  /\ ~fetchReverts(fetchCollections)
         /\ \A u \in Users : ~fetchReverts(fetchUserCreatedCollections(u))
<1>0. /\ collectionAddresses \in Seq(Collections)
      /\ userCreatedCollections \in [Users -> Seq(Collections)]
      /\ collections \in [Collections -> CollectionRecord]
  BY DEF TypeOK, RegistryTypeOK
<1>1. ASSUME NEW c \in Collections
      PROVE  /\ collections[c].isActive \in BOOLEAN
             /\ Recorded(c, collectionAddresses, collections[c].isActive)
             /\ \A u \in Users :
                  Recorded(c, userCreatedCollections[u],
                           collections[c].isActive /\ u = collections[c].owner)
  BY <1>0 DEF RegistryConsistent, CollectionRecord
<1>2. ~fetchReverts(fetchCollections)
  BY <1>0, <1>1 DEF fetchReverts, fetchCollections, Recorded, Absent
<1>3. ASSUME NEW u \in Users PROVE ~fetchReverts(fetchUserCreatedCollections(u))
  <2> SUFFICES ASSUME NEW i \in DOMAIN userCreatedCollections[u]
               PROVE  collections[userCreatedCollections[u][i]].isActive
    BY DEF fetchReverts, fetchUserCreatedCollections
  <2>1. userCreatedCollections[u][i] \in Collections
    BY <1>0
  <2> QED BY <1>1, <2>1 DEF Recorded, Absent
<1> QED BY <1>2, <1>3

----------------------------------------------------------------------------
(* The loops of the view functions *)

\* The values that the loop of _getFloorPrice goes through.
PriceLoop(p, c, ids) ==
  /\ p[0] = MaxUint
  /\ \A k \in 1..Len(ids) : p[k] = lowerPrice(c, p[k - 1], ids[k])
  /\ \A k \in 0..Len(ids) : p[k] \in UInt

\* _getFloorPrice runs that loop.
LEMMA FloorPriceLoop ==
  ASSUME TypeOK, NEW c \in Collections, NEW ids, ids = collectionTokenIds[c]
  PROVE  \E p : /\ PriceLoop(p, c, ids)
                /\ getFloorPrice(c) = IF p[Len(ids)] = MaxUint THEN 0 ELSE p[Len(ids)]
<1> DEFINE S == DOMAIN ids
           Eq(h) == h = [s \in SUBSET S |->
                           IF s = {} THEN MaxUint
                           ELSE lowerPrice(c, h[s \ {Max(s)}], ids[Max(s)])]
           loop == CHOOSE h : Eq(h)
<1>0. /\ ids \in Seq(TokenId) /\ Len(ids) \in Nat /\ S = 1..Len(ids)
      /\ \A i \in S : ids[i] \in TokenId
      /\ MaxUint \in UInt
  BY MarketAssumption DEF TypeOK, MarketTypeOK, UInt
<1>1. getFloorPrice(c) = IF loop[S] = MaxUint THEN 0 ELSE loop[S]
  BY DEF getFloorPrice, FoldLeft, MapThenFoldSet
<1>2. ASSUME NEW id \in TokenId, NEW v \in UInt PROVE lowerPrice(c, v, id) \in UInt
  <2>1. collectionToMarketItems[<<c, id>>].price \in UInt
    BY DEF TypeOK, MarketTypeOK, MarketItem, NFT
  <2> QED BY <2>1 DEF lowerPrice
<1>3. \E h : Eq(h)
  <2> DEFINE step == [id \in TokenId |-> [v \in UInt |-> lowerPrice(c, v, id)]]
  <2>1. step \in [TokenId -> [UInt -> UInt]]
    BY <1>2
  <2> HIDE DEF step
  <2>2. PICK h \in [SUBSET S -> UInt] :
          \A s \in SUBSET S :
            h[s] = IF s = {} THEN MaxUint ELSE step[ids[Max(s)]][h[s \ {Max(s)}]]
    <3>1. \E h : LoopValues(h, ids, UInt, MaxUint, step)
      BY <1>0, <2>1, LoopExists
    <3> QED BY <3>1 DEF LoopValues
  <2> DEFINE e(s) == IF s = {} THEN MaxUint
                     ELSE lowerPrice(c, h[s \ {Max(s)}], ids[Max(s)])
  <2>3. ASSUME NEW s \in SUBSET S PROVE h[s] = e(s)
    <3>1. CASE s = {}
      BY <2>2, <3>1
    <3>2. CASE s # {}
      <4>1. Max(s) \in S
        BY <1>0, <3>2, LastIndex
      <4>2. h[s \ {Max(s)}] \in UInt /\ ids[Max(s)] \in TokenId
        BY <1>0, <2>2, <4>1
      <4>3. step[ids[Max(s)]][h[s \ {Max(s)}]] = lowerPrice(c, h[s \ {Max(s)}], ids[Max(s)])
        BY <4>2 DEF step
      <4> QED BY <2>2, <3>2, <4>3
    <3> QED BY <3>1, <3>2
  <2>4. h = [s \in SUBSET S |-> h[s]]
    BY <2>2
  <2>5. Eq(h)
    <3> HIDE DEF e
    <3>1. h = [s \in SUBSET S |-> e(s)]
      BY <2>3, <2>4
    <3> QED BY <3>1 DEF e
  <2> HIDE DEF Eq
  <2> QED BY <2>5
<1>4. Eq(loop)
  <2> HIDE DEF Eq
  <2> QED BY <1>3
<1> HIDE DEF loop
<1> DEFINE p == [k \in 0..Len(ids) |-> loop[1..k]]
<1>5. p[0] = MaxUint
  <2>1. {} \in SUBSET S /\ 1..0 = {}
    OBVIOUS
  <2>2. loop[{}] = MaxUint
    BY <1>4, <2>1
  <2> QED BY <1>0, <2>1, <2>2
<1>6. ASSUME NEW k \in 1..Len(ids) PROVE p[k] = lowerPrice(c, p[k - 1], ids[k])
  <2>1. k \in Nat /\ k # 0 /\ k \in 0..Len(ids) /\ k - 1 \in 0..Len(ids)
    BY <1>0
  <2>2. Max(1..k) = k /\ (1..k) \ {k} = 1..(k - 1) /\ 1..k # {}
    BY <2>1, LastOfPrefix
  <2>3. 1..k \in SUBSET S
    BY <1>0, <2>1
  <2>4. loop[1..k] = lowerPrice(c, loop[(1..k) \ {Max(1..k)}], ids[Max(1..k)])
    <3>1. PICK s \in SUBSET S : s = 1..k
      BY <2>3
    <3>2. loop[s] = IF s = {} THEN MaxUint ELSE lowerPrice(c, loop[s \ {Max(s)}], ids[Max(s)])
      BY <1>4
    <3> QED BY <2>2, <3>1, <3>2
  <2>5. loop[1..k] = lowerPrice(c, loop[1..(k - 1)], ids[k])
    BY <2>2, <2>4
  <2> QED BY <2>1, <2>5
<1>7. ASSUME NEW k \in 0..Len(ids) PROVE p[k] \in UInt
  <2> HIDE DEF p
  <2> DEFINE G == {i \in Nat : i <= Len(ids) => p[i] \in UInt}
  <2>1. 0 \in G /\ G \in SUBSET Nat
    BY <1>0, <1>5
  <2>2. ASSUME NEW i \in G PROVE i + 1 \in G
    <3> SUFFICES ASSUME i + 1 <= Len(ids) PROVE p[i + 1] \in UInt
      OBVIOUS
    <3>1. i + 1 \in 1..Len(ids) /\ (i + 1) - 1 = i /\ p[i] \in UInt
      BY <1>0, <2>2
    <3>2. p[i + 1] = lowerPrice(c, p[i], ids[i + 1])
      BY <1>6, <3>1
    <3>3. ids[i + 1] \in TokenId
      BY <1>0, <3>1
    <3> QED BY <1>2, <3>1, <3>2, <3>3
  <2>3. G = Nat
    <3> HIDE DEF G
    <3> QED BY <2>1, <2>2, NaturalInduction
  <2> QED BY <1>0, <2>3
<1>8. p[Len(ids)] = loop[S]
  BY <1>0
<1>9. PriceLoop(p, c, ids)
  <2> HIDE DEF p
  <2> QED BY <1>5, <1>6, <1>7 DEF PriceLoop
<1> HIDE DEF p
<1> QED BY <1>1, <1>8, <1>9

\* After k listings the loop has the lowest price of those that are for sale.
LEMMA LowestSoFar ==
  ASSUME TypeOK, NEW c \in Collections, NEW ids, ids = collectionTokenIds[c],
         NEW p, PriceLoop(p, c, ids), NEW k \in 0..Len(ids)
  PROVE  /\ \A i \in 1..k : collectionToMarketItems[<<c, ids[i]>>].isOnSale =>
              p[k] <= collectionToMarketItems[<<c, ids[i]>>].price
         /\ \/ p[k] = MaxUint
            \/ \E i \in 1..k : /\ collectionToMarketItems[<<c, ids[i]>>].isOnSale
                               /\ p[k] = collectionToMarketItems[<<c, ids[i]>>].price
<1> DEFINE item(i) == collectionToMarketItems[<<c, ids[i]>>]
           Lowest(j) == /\ \A i \in 1..j : item(i).isOnSale => p[j] <= item(i).price
                        /\ \/ p[j] = MaxUint
                           \/ \E i \in 1..j : item(i).isOnSale /\ p[j] = item(i).price
           G == {j \in Nat : j <= Len(ids) => Lowest(j)}
<1>0. /\ Len(ids) \in Nat
      /\ \A i \in 1..Len(ids) : item(i).price \in Int
      /\ \A j \in 0..Len(ids) : p[j] \in Int
  <2>1. ids \in Seq(TokenId)
    BY DEF TypeOK, MarketTypeOK
  <2>2. \A i \in 1..Len(ids) : <<c, ids[i]>> \in NFT
    BY <2>1 DEF NFT
  <2> QED BY <2>1, <2>2, MarketAssumption DEF TypeOK, MarketTypeOK, MarketItem, UInt, PriceLoop
<1>1. 0 \in G /\ G \in SUBSET Nat
  BY DEF PriceLoop
<1>2. ASSUME NEW j \in G PROVE j + 1 \in G
  <2> SUFFICES ASSUME j + 1 <= Len(ids) PROVE Lowest(j + 1)
    OBVIOUS
  <2>1. /\ j \in Nat /\ j \in 0..Len(ids) /\ j + 1 \in 1..Len(ids) /\ (j + 1) - 1 = j
        /\ j + 1 \in 0..Len(ids)
        /\ \A i \in 1..(j + 1) : i \in 1..j \/ i = j + 1
        /\ \A i \in 1..j : i \in 1..(j + 1) /\ i \in 1..Len(ids)
    BY <1>0
  <2>2. Lowest(j)
    BY <1>2, <2>1
  <2>3. p[j + 1] = lowerPrice(c, p[j], ids[j + 1])
    BY <2>1 DEF PriceLoop
  <2>4. p[j + 1] = IF item(j + 1).isOnSale /\ item(j + 1).price < p[j]
                     THEN item(j + 1).price ELSE p[j]
    BY <2>3 DEF lowerPrice
  <2>5. /\ p[j] \in Int /\ p[j + 1] \in Int /\ item(j + 1).price \in Int
        /\ \A i \in 1..j : item(i).price \in Int
    BY <1>0, <2>1
  <2> HIDE DEF item
  <2>6. p[j + 1] <= p[j] /\ (item(j + 1).isOnSale => p[j + 1] <= item(j + 1).price)
    BY <2>4, <2>5
  <2>7. ASSUME NEW i \in 1..(j + 1), item(i).isOnSale PROVE p[j + 1] <= item(i).price
    <3>1. CASE i \in 1..j
      BY <2>2, <2>5, <2>6, <2>7, <3>1
    <3>2. CASE i = j + 1
      BY <2>6, <2>7, <3>2
    <3> QED BY <2>1, <3>1, <3>2
  <2>8. \/ p[j + 1] = MaxUint
        \/ \E i \in 1..(j + 1) : item(i).isOnSale /\ p[j + 1] = item(i).price
    <3>1. CASE p[j + 1] = p[j]
      BY <2>1, <2>2, <3>1
    <3>2. CASE item(j + 1).isOnSale /\ p[j + 1] = item(j + 1).price
      <4>1. j + 1 \in 1..(j + 1)
        BY <2>1
      <4> QED BY <3>2, <4>1
    <3> QED BY <2>4, <3>1, <3>2
  <2> QED BY <2>7, <2>8
<1>3. G = Nat
  <2> HIDE DEF G
  <2> QED BY <1>1, <1>2, NaturalInduction
<1>4. Lowest(k)
  <2>1. k \in Nat /\ k <= Len(ids)
    BY <1>0
  <2> HIDE DEF Lowest
  <2> QED BY <1>3, <2>1
<1> QED BY <1>4

\* What _getFloorPrice returns: the lowest price asked, if it is below
\* type(uint256).max, and else 0.
LEMMA FloorPriceValue ==
  ASSUME TypeOK, LiveListings, TokenIndexComplete, NEW c \in Collections
  PROVE  /\ Asked(c) \ {MaxUint} = {} => getFloorPrice(c) = 0
         /\ Asked(c) \ {MaxUint} # {} =>
              /\ getFloorPrice(c) \in Asked(c) \ {MaxUint}
              /\ \A q \in Asked(c) : getFloorPrice(c) <= q
         /\ Asked(c) \subseteq UInt
<1>1. PICK ids : ids = collectionTokenIds[c]
  OBVIOUS
<1>2. PICK p : /\ PriceLoop(p, c, ids)
               /\ getFloorPrice(c) = IF p[Len(ids)] = MaxUint THEN 0 ELSE p[Len(ids)]
  BY <1>1, FloorPriceLoop
<1> DEFINE N == Len(ids)
           item(i) == collectionToMarketItems[<<c, ids[i]>>]
<1>3. ids \in Seq(TokenId) /\ N \in Nat /\ DOMAIN ids = 1..N /\ N \in 0..N
  BY <1>1 DEF TypeOK, MarketTypeOK
<1>4. /\ \A i \in 1..N : item(i).isOnSale => p[N] <= item(i).price
      /\ \/ p[N] = MaxUint
         \/ \E i \in 1..N : item(i).isOnSale /\ p[N] = item(i).price
  BY <1>1, <1>2, <1>3, LowestSoFar
<1>5. \A q : q \in Asked(c) <=> \E i \in 1..N : item(i).isOnSale /\ q = item(i).price
  <2>1. ASSUME NEW q, q \in Asked(c)
        PROVE  \E i \in 1..N : item(i).isOnSale /\ q = item(i).price
    <3>1. PICK id \in TokenId : /\ collectionToMarketItems[<<c, id>>].isOnSale
                                /\ q = collectionToMarketItems[<<c, id>>].price
      BY <2>1 DEF Asked
    <3>2. PICK n \in NFT : n = <<c, id>>
      BY DEF NFT
    <3>3. collectionToMarketItems[n].seller # NoAddr
      BY <3>1, <3>2 DEF LiveListings
    <3>4. PICK i \in DOMAIN collectionTokenIds[n[1]] : collectionTokenIds[n[1]][i] = n[2]
      BY <3>3 DEF TokenIndexComplete
    <3>5. i \in 1..N /\ ids[i] = id
      BY <1>1, <1>3, <3>2, <3>4
    <3> QED BY <3>1, <3>5
  <2>2. ASSUME NEW i \in 1..N, item(i).isOnSale PROVE item(i).price \in Asked(c)
    <3>1. ids[i] \in TokenId
      BY <1>3
    <3> QED BY <2>2, <3>1 DEF Asked
  <2> QED BY <2>1, <2>2
<1>6. Asked(c) \subseteq UInt /\ MaxUint \in Nat
  BY MarketAssumption DEF Asked, TypeOK, MarketTypeOK, MarketItem, NFT
<1>7. p[N] \in UInt
  BY <1>2, <1>3 DEF PriceLoop
<1> HIDE DEF N, item
<1>8. \A q \in Asked(c) : p[N] <= q
  BY <1>4, <1>5
<1>9. p[N] = MaxUint \/ p[N] \in Asked(c)
  BY <1>4, <1>5
<1>10. CASE p[N] = MaxUint
  <2>1. \A q \in Asked(c) : q = MaxUint
    BY <1>6, <1>8, <1>10 DEF UInt
  <2> QED BY <1>2, <1>6, <1>10, <2>1 DEF N
<1>11. CASE p[N] # MaxUint
  <2>1. getFloorPrice(c) = p[N]
    BY <1>2, <1>11 DEF N
  <2> QED BY <1>6, <1>8, <1>9, <1>11, <2>1
<1> QED BY <1>10, <1>11

\* The floor price is the lowest price asked in the collection.
THEOREM FloorPriceLowestAlways == Spec => []FloorPriceLowest
<1>1. TypeOK /\ LiveListings /\ TokenIndexComplete => FloorPriceLowest
  <2> SUFFICES ASSUME TypeOK, LiveListings, TokenIndexComplete, NEW c \in Collections
               PROVE  getFloorPrice(c) =
                        IF Asked(c) \ {MaxUint} = {} THEN 0 ELSE Min(Asked(c))
    BY DEF FloorPriceLowest
  <2> DEFINE A == Asked(c)
             f == getFloorPrice(c)
  <2>1. CASE A \ {MaxUint} = {}
    BY <2>1, FloorPriceValue
  <2>2. CASE A \ {MaxUint} # {}
    <3>1. f \in A /\ A \subseteq UInt /\ \A q \in A : f <= q
      BY <2>2, FloorPriceValue
    <3> HIDE DEF A, f
    <3>2. Min(A) \in A /\ \A q \in A : Min(A) <= q
      <4> DEFINE P(x) == \A q \in A : x <= q
      <4>1. \E x \in A : P(x)
        BY <3>1
      <4>2. Min(A) = CHOOSE x \in A : P(x)
        BY DEF Min
      <4> HIDE DEF P
      <4>3. Min(A) \in A /\ P(Min(A))
        BY <4>1, <4>2
      <4> QED BY <4>3 DEF P
    <3>3. PICK m : m = Min(A)
      OBVIOUS
    <3>4. UInt \subseteq Int
      BY MarketAssumption DEF UInt
    <3>5. f <= m /\ m <= f /\ f \in Int /\ m \in Int
      BY <3>1, <3>2, <3>3, <3>4
    <3>6. f = m
      BY <3>5
    <3> QED BY <2>2, <3>3, <3>6 DEF A, f
  <2> QED BY <2>1, <2>2
<1> QED BY <1>1, TypeCorrect, LiveListingsAlways, TokenIndexCompleteAlways, PTL

\* The lists that collect goes through.
Collecting(r, base, S, seq, X) ==
  /\ r[0] = base
  /\ \A k \in 1..Len(seq) : r[k] = IF seq[k] \in S THEN Append(r[k - 1], seq[k]) ELSE r[k - 1]
  /\ \A k \in 0..Len(seq) : r[k] \in Seq(X)

\* The loop of collect.
LEMMA CollectLoop ==
  ASSUME NEW X, NEW seq \in Seq(X), NEW base \in Seq(X), NEW S
  PROVE  \E r : Collecting(r, base, S, seq, X) /\ collect(base, S, seq) = r[Len(seq)]
<1> DEFINE I == DOMAIN seq
           next(r, x) == IF x \in S THEN Append(r, x) ELSE r
           Eq(h) == h = [s \in SUBSET I |->
                           IF s = {} THEN base ELSE next(h[s \ {Max(s)}], seq[Max(s)])]
           loop == CHOOSE h : Eq(h)
           V == Seq(X)
<1>0. /\ Len(seq) \in Nat /\ I = 1..Len(seq)
      /\ \A i \in I : seq[i] \in X
  OBVIOUS
<1>1. collect(base, S, seq) = loop[I]
  BY DEF collect, FoldLeft, MapThenFoldSet
<1>2. ASSUME NEW x \in X, NEW r \in V PROVE next(r, x) \in V
  OBVIOUS
<1>3. \E h : Eq(h)
  <2> DEFINE step == [x \in X |-> [r \in V |-> next(r, x)]]
  <2>1. step \in [X -> [V -> V]] /\ base \in V
    BY <1>2
  <2> HIDE DEF step, V, I
  <2>2. PICK h : LoopValues(h, seq, V, base, step)
    BY <2>1, LoopExists
  <2> DEFINE e(s) == IF s = {} THEN base ELSE next(h[s \ {Max(s)}], seq[Max(s)])
  <2>3. ASSUME NEW s \in SUBSET I PROVE h[s] = e(s)
    <3>1. CASE s = {}
      BY <2>2, <3>1 DEF LoopValues, I
    <3>2. CASE s # {}
      <4>1. Max(s) \in I
        BY <1>0, <3>2, LastIndex
      <4>2. h[s \ {Max(s)}] \in V /\ seq[Max(s)] \in X
        <5>1. s \ {Max(s)} \in SUBSET I
          OBVIOUS
        <5> QED BY <1>0, <2>2, <4>1, <5>1 DEF LoopValues, I
      <4>3. h[s] = step[seq[Max(s)]][h[s \ {Max(s)}]]
        BY <2>2, <3>2 DEF LoopValues, I
      <4>4. step[seq[Max(s)]][h[s \ {Max(s)}]] = next(h[s \ {Max(s)}], seq[Max(s)])
        <5> HIDE DEF next
        <5> QED BY <4>2 DEF step
      <4> HIDE DEF next
      <4> QED BY <3>2, <4>3, <4>4
    <3> QED BY <3>1, <3>2
  <2>4. h = [s \in SUBSET I |-> h[s]]
    BY <2>2 DEF LoopValues, I
  <2>5. Eq(h)
    <3> HIDE DEF e
    <3>1. h = [s \in SUBSET I |-> e(s)]
      BY <2>3, <2>4
    <3> QED BY <3>1 DEF e
  <2> HIDE DEF Eq
  <2> QED BY <2>5
<1>4. Eq(loop)
  <2> HIDE DEF Eq
  <2> QED BY <1>3
<1> HIDE DEF loop, next
<1> DEFINE r == [k \in 0..Len(seq) |-> loop[1..k]]
<1>5. r[0] = base
  <2>1. {} \in SUBSET I /\ 1..0 = {}
    OBVIOUS
  <2>2. loop[{}] = base
    BY <1>4, <2>1
  <2> QED BY <1>0, <2>1, <2>2
<1>6. ASSUME NEW k \in 1..Len(seq) PROVE r[k] = next(r[k - 1], seq[k])
  <2>1. k \in Nat /\ k # 0 /\ k \in 0..Len(seq) /\ k - 1 \in 0..Len(seq)
    BY <1>0
  <2>2. Max(1..k) = k /\ (1..k) \ {k} = 1..(k - 1) /\ 1..k # {}
    BY <2>1, LastOfPrefix
  <2>3. PICK s \in SUBSET I : s = 1..k
    BY <1>0, <2>1
  <2>4. loop[s] = IF s = {} THEN base ELSE next(loop[s \ {Max(s)}], seq[Max(s)])
    BY <1>4
  <2>5. loop[1..k] = next(loop[1..(k - 1)], seq[k])
    BY <2>2, <2>3, <2>4
  <2> QED BY <2>1, <2>5
<1>7. ASSUME NEW k \in 0..Len(seq) PROVE r[k] \in V
  <2> HIDE DEF r
  <2> DEFINE G == {i \in Nat : i <= Len(seq) => r[i] \in V}
  <2>1. 0 \in G /\ G \in SUBSET Nat
    BY <1>0, <1>5
  <2>2. ASSUME NEW i \in G PROVE i + 1 \in G
    <3> SUFFICES ASSUME i + 1 <= Len(seq) PROVE r[i + 1] \in V
      OBVIOUS
    <3>1. i + 1 \in 1..Len(seq) /\ (i + 1) - 1 = i /\ r[i] \in V
      BY <1>0, <2>2
    <3>2. r[i + 1] = next(r[i], seq[i + 1])
      BY <1>6, <3>1
    <3>3. seq[i + 1] \in X
      BY <1>0, <3>1
    <3> QED BY <1>2, <3>1, <3>2, <3>3
  <2>3. G = Nat
    <3> HIDE DEF G
    <3> QED BY <2>1, <2>2, NaturalInduction
  <2> QED BY <1>0, <2>3
<1>8. r[Len(seq)] = loop[I]
  BY <1>0
<1>9. Collecting(r, base, S, seq, X)
  <2> HIDE DEF r
  <2> QED BY <1>5, <1>6, <1>7 DEF Collecting, next
<1> HIDE DEF r
<1> QED BY <1>1, <1>8, <1>9

\* From the empty list, collect finds the elements of the list that are in S.
LEMMA CollectRange ==
  ASSUME NEW X, NEW seq \in Seq(X), NEW S
  PROVE  Range(collect(<<>>, S, seq)) = {x \in Range(seq) : x \in S}
<1>0. Len(seq) \in Nat /\ DOMAIN seq = 1..Len(seq) /\ \A i \in 1..Len(seq) : seq[i] \in X
  OBVIOUS
<1>1. PICK r : Collecting(r, <<>>, S, seq, X) /\ collect(<<>>, S, seq) = r[Len(seq)]
  <2>0. <<>> \in Seq(X)
    OBVIOUS
  <2>1. PICK base \in Seq(X) : base = <<>>
    BY <2>0
  <2>2. \E r : Collecting(r, base, S, seq, X) /\ collect(base, S, seq) = r[Len(seq)]
    BY CollectLoop
  <2> QED BY <2>1, <2>2
<1> DEFINE upto(k) == {x \in S : \E i \in 1..k : seq[i] = x}
           G == {k \in Nat : k <= Len(seq) => Range(r[k]) = upto(k)}
<1>2. 0 \in G /\ G \in SUBSET Nat
  <2>1. Range(<<>>) = {}
    BY DEF Range
  <2>2. upto(0) = {}
    OBVIOUS
  <2> QED BY <1>1, <2>1, <2>2 DEF Collecting
<1>3. ASSUME NEW k \in G PROVE k + 1 \in G
  <2> SUFFICES ASSUME k + 1 <= Len(seq) PROVE Range(r[k + 1]) = upto(k + 1)
    OBVIOUS
  <2>1. /\ k \in Nat /\ k \in 0..Len(seq) /\ k + 1 \in 1..Len(seq) /\ (k + 1) - 1 = k
        /\ k <= Len(seq)
        /\ \A i : i \in 1..(k + 1) <=> i \in 1..k \/ i = k + 1
    BY <1>0
  <2>2. Range(r[k]) = upto(k)
    BY <1>3, <2>1
  <2>3. PICK x \in X : x = seq[k + 1]
    BY <1>0, <2>1
  <2>4. PICK old \in Seq(X) : old = r[k]
    BY <1>1, <2>1 DEF Collecting
  <2>5. r[k + 1] = IF x \in S THEN Append(old, x) ELSE old
    BY <1>1, <2>1, <2>3, <2>4 DEF Collecting
  <2>6. upto(k + 1) = IF x \in S THEN upto(k) \cup {x} ELSE upto(k)
    BY <2>1, <2>3
  <2>7. Range(Append(old, x)) = Range(old) \cup {x}
    <3>1. /\ Len(old) \in Nat /\ DOMAIN old = 1..Len(old)
          /\ DOMAIN Append(old, x) = 1..(Len(old) + 1)
          /\ \A i \in 1..Len(old) : Append(old, x)[i] = old[i]
          /\ Append(old, x)[Len(old) + 1] = x
      BY AppendFacts
    <3>2. \A i : i \in 1..(Len(old) + 1) <=> i \in 1..Len(old) \/ i = Len(old) + 1
      BY <3>1
    <3>3. \A y : y \in Range(Append(old, x)) <=> y \in Range(old) \/ y = x
      BY <3>1, <3>2 DEF Range
    <3> QED BY <3>3
  <2> QED BY <2>2, <2>4, <2>5, <2>6, <2>7
<1>4. G = Nat
  <2> HIDE DEF G
  <2> QED BY <1>2, <1>3, NaturalInduction
<1>5. Range(r[Len(seq)]) = upto(Len(seq))
  BY <1>0, <1>4
<1> QED BY <1>0, <1>1, <1>5 DEF Range

\* A search by price finds exactly the collections whose cheapest item fits.
THEOREM SearchByPriceAlways == Spec => []SearchByPrice
<1>1. TypeOK /\ LiveListings /\ TokenIndexComplete /\ RegistryConsistent => SearchByPrice
  <2> SUFFICES ASSUME TypeOK, LiveListings, TokenIndexComplete, RegistryConsistent,
                      NEW minFloor \in Values \ {0}, NEW maxFloor \in Values
               PROVE  Range(searchWithFilters(Collections, Category, minFloor, maxFloor)) =
                        {c \in deployed : \E p \in Asked(c) \ {MaxUint} :
                                           /\ \A q \in Asked(c) : p <= q
                                           /\ minFloor <= p
                                           /\ maxFloor = 0 \/ p <= maxFloor}
    BY DEF SearchByPrice
  <2> DEFINE fits(c) == \E p \in Asked(c) \ {MaxUint} :
                          /\ \A q \in Asked(c) : p <= q
                          /\ minFloor <= p
                          /\ maxFloor = 0 \/ p <= maxFloor
             floor(c) == getFloorPrice(c)
             inRange(c) == floor(c) >= minFloor /\ (maxFloor = 0 \/ floor(c) <= maxFloor)
  <2>1. PICK found : found = {c \in Collections :
                                /\ collections[c].isActive
                                /\ matchesSearchCriteria(c, Collections, Category,
                                     getFloorPrice(c), minFloor, maxFloor)}
    OBVIOUS
  <2>2. collectionAddresses \in Seq(Collections)
    BY DEF TypeOK, RegistryTypeOK
  <2>3. Range(searchWithFilters(Collections, Category, minFloor, maxFloor)) =
          {c \in Range(collectionAddresses) : c \in found}
    <3>1. searchWithFilters(Collections, Category, minFloor, maxFloor) =
            collect(<<>>, found, collectionAddresses)
      BY <2>1 DEF searchWithFilters
    <3>2. Range(collect(<<>>, found, collectionAddresses)) =
            {c \in Range(collectionAddresses) : c \in found}
      BY <2>2, CollectRange
    <3> QED BY <3>1, <3>2
  <2>4. /\ deployed \subseteq Collections
        /\ \A c \in Collections : collections[c].isActive <=> c \in deployed
        /\ \A c \in Collections : c \in deployed => c \in Range(collectionAddresses)
        /\ \A c \in deployed : collections[c].category \in Category
    <3>1. deployed \subseteq Collections /\ categoryExists \subseteq Category
      BY DEF TypeOK, CollectionTypeOK, RegistryTypeOK
    <3>2. \A c \in Collections : collections[c].isActive <=> c \in deployed
      BY DEF RegistryConsistent
    <3>3. \A c \in Collections : c \in deployed => c \in Range(collectionAddresses)
      BY <3>2 DEF RegistryConsistent, Recorded, OccursOnce, Range
    <3>4. \A c \in deployed : collections[c].category \in Category
      BY <3>1, <3>2 DEF LiveListings
    <3> QED BY <3>1, <3>2, <3>3, <3>4
  <2>5. ASSUME NEW c \in deployed PROVE c \in found <=> inRange(c)
    <3>1. minFloor # 0
      OBVIOUS
    <3> QED BY <2>1, <2>4, <2>5, <3>1 DEF matchesSearchCriteria
  <2>6. ASSUME NEW c \in deployed PROVE inRange(c) <=> fits(c)
    <3>1. /\ minFloor \in Nat /\ minFloor # 0 /\ maxFloor \in Nat /\ UInt \subseteq Nat
          /\ MaxUint \in Nat
      BY MarketAssumption DEF UInt
    <3> DEFINE A == Asked(c)
    <3>2. /\ A \ {MaxUint} = {} => floor(c) = 0
          /\ A \ {MaxUint} # {} => floor(c) \in A \ {MaxUint} /\ \A q \in A : floor(c) <= q
          /\ A \subseteq UInt
      BY <2>4, FloorPriceValue
    <3> HIDE DEF A, floor
    <3>3. CASE A \ {MaxUint} = {}
      <4>1. ~inRange(c)
        BY <3>1, <3>2, <3>3
      <4>2. ~fits(c)
        BY <3>3 DEF A
      <4> QED BY <4>1, <4>2
    <3>4. CASE A \ {MaxUint} # {}
      <4>1. ASSUME inRange(c) PROVE fits(c)
        <5>1. /\ floor(c) \in A \ {MaxUint} /\ \A q \in A : floor(c) <= q
              /\ minFloor <= floor(c) /\ (maxFloor = 0 \/ floor(c) <= maxFloor)
          BY <3>1, <3>2, <3>4, <4>1
        <5> QED BY <5>1 DEF A
      <4>2. ASSUME fits(c) PROVE inRange(c)
        <5>1. PICK p \in A \ {MaxUint} : /\ \A q \in A : p <= q
                                         /\ minFloor <= p
                                         /\ maxFloor = 0 \/ p <= maxFloor
          BY <4>2 DEF A
        <5>2. floor(c) \in A /\ floor(c) <= p /\ p <= floor(c) /\ p \in Nat /\ floor(c) \in Nat
          BY <3>1, <3>2, <3>4, <5>1
        <5>3. floor(c) = p
          BY <5>2
        <5> QED BY <3>1, <5>1, <5>2, <5>3
      <4> QED BY <4>1, <4>2
    <3> QED BY <3>3, <3>4
  <2> HIDE DEF fits, inRange
  <2>7. {c \in Range(collectionAddresses) : c \in found} = {c \in deployed : fits(c)}
    <3>1. found \subseteq deployed
      BY <2>1, <2>4
    <3>2. \A c \in deployed : c \in Range(collectionAddresses)
      BY <2>4
    <3> QED BY <2>5, <2>6, <3>1, <3>2
  <2> QED BY <2>3, <2>7 DEF fits
<1> QED BY <1>1, TypeCorrect, LiveListingsAlways, TokenIndexCompleteAlways,
           RegistryConsistentAlways, PTL

----------------------------------------------------------------------------
(* The purchases of a user *)

\* How often x is among the first k elements.
CountUpto(x, seq, k) == Cardinality({i \in 1..k : seq[i] = x})

\* One element more.
LEMMA CountNext ==
  ASSUME NEW x, NEW seq, NEW k \in Nat, NEW j, j = k + 1
  PROVE  /\ CountUpto(x, seq, k) \in Nat
         /\ CountUpto(x, seq, 0) = 0
         /\ seq[j] = x => CountUpto(x, seq, j) = CountUpto(x, seq, k) + 1
         /\ seq[j] # x => CountUpto(x, seq, j) = CountUpto(x, seq, k)
<1> DEFINE T == {i \in 1..k : seq[i] = x}
           U == {i \in 1..(k + 1) : seq[i] = x}
<1>1. IsFiniteSet(T) /\ Cardinality(T) \in Nat
  <2>1. IsFiniteSet(1..k) /\ T \subseteq 1..k
    BY FS_Interval
  <2>2. IsFiniteSet(T)
    BY <2>1, FS_Subset
  <2> QED BY <2>2, FS_CardinalityType
<1>2. CountUpto(x, seq, 0) = 0
  <2>1. {i \in 1..0 : seq[i] = x} = {}
    OBVIOUS
  <2> QED BY <2>1, FS_EmptySet DEF CountUpto
<1>3. \A i : i \in 1..(k + 1) <=> i \in 1..k \/ i = k + 1
  OBVIOUS
<1>4. k + 1 \notin T
  OBVIOUS
<1>5. CASE seq[k + 1] = x
  <2>1. U = T \cup {k + 1}
    BY <1>3, <1>5
  <2>2. Cardinality(T \cup {k + 1}) = Cardinality(T) + 1
    <3> HIDE DEF T
    <3> QED BY <1>1, <1>4, FS_AddElement
  <2> QED BY <1>1, <1>2, <1>5, <2>1, <2>2 DEF CountUpto
<1>6. CASE seq[k + 1] # x
  <2>1. U = T
    BY <1>3, <1>6
  <2> QED BY <1>1, <1>2, <1>6, <2>1 DEF CountUpto
<1> QED BY <1>5, <1>6

\* What a listing does to the number of listings of a token.
LEMMA OccurrencesAppend ==
  ASSUME NEW X, NEW seq \in Seq(X), NEW y \in X, NEW x
  PROVE  /\ Occurrences(x, seq) \in Nat
         /\ Occurrences(x, seq) = CountUpto(x, seq, Len(seq))
         /\ Occurrences(x, Append(seq, y)) = Occurrences(x, seq) + (IF x = y THEN 1 ELSE 0)
<1> DEFINE new == Append(seq, y)
           N == Len(seq)
<1>1. /\ N \in Nat /\ DOMAIN seq = 1..N /\ DOMAIN new = 1..(N + 1)
      /\ \A i \in 1..N : new[i] = seq[i]
      /\ new[N + 1] = y
  BY AppendFacts
<1> HIDE DEF new, N
<1>2. Occurrences(x, seq) = CountUpto(x, seq, N) /\ Occurrences(x, new) = CountUpto(x, new, N + 1)
  BY <1>1 DEF Occurrences, CountUpto
<1>3. CountUpto(x, new, N) = CountUpto(x, seq, N)
  <2>1. {i \in 1..N : new[i] = x} = {i \in 1..N : seq[i] = x}
    BY <1>1
  <2> QED BY <2>1 DEF CountUpto
<1>4. /\ CountUpto(x, new, N + 1) = CountUpto(x, new, N) + (IF new[N + 1] = x THEN 1 ELSE 0)
      /\ CountUpto(x, seq, N) \in Nat
  <2>1. PICK k \in Nat : k = N
    BY <1>1
  <2>2. PICK j : j = k + 1
    OBVIOUS
  <2>3. /\ new[j] = x => CountUpto(x, new, j) = CountUpto(x, new, k) + 1
        /\ new[j] # x => CountUpto(x, new, j) = CountUpto(x, new, k)
        /\ CountUpto(x, new, k) \in Nat
        /\ CountUpto(x, seq, k) \in Nat
    BY <2>2, CountNext
  <2> QED BY <2>1, <2>2, <2>3
<1> QED BY <1>1, <1>2, <1>3, <1>4 DEF new, N

\* A token in a list occurs in it at least once.
LEMMA OccurrencesPositive ==
  ASSUME NEW X, NEW seq \in Seq(X), NEW i \in DOMAIN seq
  PROVE  Occurrences(seq[i], seq) \in Nat /\ Occurrences(seq[i], seq) >= 1
<1> DEFINE T == {j \in DOMAIN seq : seq[j] = seq[i]}
<1>1. IsFiniteSet(T)
  <2>1. DOMAIN seq = 1..Len(seq) /\ Len(seq) \in Nat
    OBVIOUS
  <2>2. IsFiniteSet(DOMAIN seq) /\ T \subseteq DOMAIN seq
    BY <2>1, FS_Interval
  <2> QED BY <2>2, FS_Subset
<1>2. Cardinality(T) \in Nat
  <2> HIDE DEF T
  <2> QED BY <1>1, FS_CardinalityType
<1>3. T # {}
  OBVIOUS
<1>4. Cardinality(T) # 0
  <2> HIDE DEF T
  <2> QED BY <1>1, <1>3, FS_EmptySet
<1> QED BY <1>2, <1>4 DEF Occurrences

\* SoldListings changes for one token only: so does the sum.
LEMMA SoldListingsUpdate ==
  ASSUME TypeOK, TypeOK', NEW u \in Users, NEW n \in NFT,
         \A m \in NFT : m # n => SoldListings(u, m)' = SoldListings(u, m)
  PROVE  /\ SumFunction([m \in NFT |-> SoldListings(u, m)]) \in Int
         /\ SoldListings(u, n) \in Int /\ SoldListings(u, n)' \in Int
         /\ SumFunction([m \in NFT |-> SoldListings(u, m)])' =
              SumFunction([m \in NFT |-> SoldListings(u, m)])
                - SoldListings(u, n) + SoldListings(u, n)'
<1>1. \A m \in NFT : SoldListings(u, m) \in Int
  <2> SUFFICES ASSUME NEW m \in NFT PROVE SoldListings(u, m) \in Int
    OBVIOUS
  <2>1. m[2] \in TokenId /\ collectionTokenIds[m[1]] \in Seq(TokenId)
    BY TokenParts DEF TypeOK, MarketTypeOK
  <2>2. Occurrences(m[2], collectionTokenIds[m[1]]) \in Nat
    BY <2>1, OccurrencesAppend
  <2> QED BY <2>2 DEF SoldListings
<1>2. \A m \in NFT : SoldListings(u, m)' \in Int
  <2> SUFFICES ASSUME NEW m \in NFT PROVE SoldListings(u, m)' \in Int
    OBVIOUS
  <2>1. m[2] \in TokenId /\ collectionTokenIds'[m[1]] \in Seq(TokenId)
    BY TokenParts DEF TypeOK, MarketTypeOK
  <2>2. Occurrences(m[2], collectionTokenIds'[m[1]]) \in Nat
    BY <2>1, OccurrencesAppend
  <2> QED BY <2>2 DEF SoldListings, Occurrences
<1> DEFINE f == [m \in NFT |-> SoldListings(u, m)]
           g == [m \in NFT |-> SoldListings(u, m)']
<1>3. f \in [NFT -> Int] /\ g \in [NFT -> Int]
  BY <1>1, <1>2
<1>4. \A m \in NFT : m # n => g[m] = f[m]
  OBVIOUS
<1>5. f[n] = SoldListings(u, n) /\ g[n] = SoldListings(u, n)'
  OBVIOUS
<1>6. SumFunction(f)' = SumFunction(g)
  OBVIOUS
<1>7. SumFunction(f) \in Int /\ SumFunction(g) = SumFunction(f) - f[n] + g[n]
  <2> HIDE DEF f, g
  <2> QED BY <1>3, <1>4, FiniteTokens, SumType, SumUpdate
<1> QED BY <1>1, <1>2, <1>5, <1>6, <1>7

\* Every step keeps PurchaseInv.  A listing adds one to spare, which the next
\* sale of the token uses up.
LEMMA PurchaseStep ==
  ASSUME TypeOK, TypeOK', LiveListings, TokenIndexComplete, PurchaseInv, [Next]_vars
  PROVE  PurchaseInv'
<1> DEFINE Total(u) == SumFunction([m \in NFT |-> SoldListings(u, m)])
<1>0. /\ userPurchaseCount \in [Users -> Nat] /\ userPurchases \in [Users -> SUBSET NFT]
      /\ collectionTokenIds \in [Collections -> Seq(TokenId)]
      /\ collectionToMarketItems \in [NFT -> MarketItem]
  BY DEF TypeOK, MarketTypeOK
<1>a. \A c \in Collections : collections[c].isActive => collections'[c].isActive
  BY RegistryGrows
<1>t. ASSUME NEW u \in Users, NEW n \in NFT,
             \A m \in NFT : m # n => SoldListings(u, m)' = SoldListings(u, m),
             userPurchaseCount'[u] - userPurchaseCount[u]
               <= SoldListings(u, n)' - SoldListings(u, n),
             userPurchaseCount'[u] \in Nat
      PROVE  userPurchaseCount'[u] <= Total(u)'
  <2>1. /\ Total(u) \in Int /\ SoldListings(u, n) \in Int /\ SoldListings(u, n)' \in Int
        /\ Total(u)' = Total(u) - SoldListings(u, n) + SoldListings(u, n)'
    BY <1>t, SoldListingsUpdate
  <2>2. userPurchaseCount[u] <= Total(u) /\ userPurchaseCount[u] \in Nat
    BY <1>0 DEF PurchaseInv
  <2> HIDE DEF Total
  <2> QED BY <1>t, <2>1, <2>2
<1>p. ASSUME \A u \in Users : userPurchaseCount'[u] <= Total(u)',
             \A u \in Users : \A n \in userPurchases'[u] : collections[n[1]].isActive
      PROVE  PurchaseInv'
  <2>1. \A u \in Users : \A n \in userPurchases'[u] : n[1] \in Collections
    BY TokenParts DEF TypeOK, MarketTypeOK
  <2>2. \A u \in Users : \A n \in userPurchases'[u] : collections'[n[1]].isActive
    BY <1>a, <1>p, <2>1
  <2> QED BY <1>p, <2>2 DEF PurchaseInv
<1>1. ASSUME UNCHANGED <<collectionTokenIds, userPurchases, userPurchaseCount>>,
             \A n \in NFT : collectionToMarketItems'[n].isOnSale = collectionToMarketItems[n].isOnSale
      PROVE  PurchaseInv'
  <2>1. \A u \in Users, m \in NFT : SoldListings(u, m)' = SoldListings(u, m)
    BY <1>1 DEF SoldListings, Occurrences
  <2>2. ASSUME NEW u \in Users PROVE userPurchaseCount'[u] <= Total(u)'
    <3>1. [m \in NFT |-> SoldListings(u, m)'] = [m \in NFT |-> SoldListings(u, m)]
      BY <2>1
    <3>2. Total(u)' = Total(u)
      BY <3>1
    <3> QED BY <1>1, <3>2 DEF PurchaseInv
  <2>3. \A u \in Users : \A n \in userPurchases'[u] : collections[n[1]].isActive
    BY <1>1 DEF PurchaseInv
  <2> HIDE DEF Total
  <2> QED BY <1>p, <2>2, <2>3
<1>2. ASSUME NEW s \in Users, NEW n \in NFT, NEW p \in Values, createMarketItem(s, n, p)
      PROVE  PurchaseInv'
  <2>1. /\ UNCHANGED <<userPurchases, userPurchaseCount>>
        /\ collectionTokenIds' = [collectionTokenIds EXCEPT ![n[1]] = Append(@, n[2])]
        /\ collectionToMarketItems' = [collectionToMarketItems EXCEPT ![n] = listed(s, n, p)]
    BY <1>2 DEF createMarketItem, pushTokenId
  <2>2. n[1] \in Collections /\ n[2] \in TokenId
    BY TokenParts
  <2>3. ASSUME NEW m \in NFT
        PROVE  /\ Occurrences(m[2], collectionTokenIds[m[1]]) \in Nat
               /\ Occurrences(m[2], collectionTokenIds[m[1]])' =
                    Occurrences(m[2], collectionTokenIds[m[1]]) + (IF m = n THEN 1 ELSE 0)
    <3>1. m[1] \in Collections /\ m = <<m[1], m[2]>> /\ n = <<n[1], n[2]>>
      BY TokenParts
    <3>2. PICK seq \in Seq(TokenId) : seq = collectionTokenIds[m[1]]
      BY <1>0, <3>1
    <3>3. /\ Occurrences(m[2], seq) \in Nat
          /\ Occurrences(m[2], Append(seq, n[2])) =
               Occurrences(m[2], seq) + (IF m[2] = n[2] THEN 1 ELSE 0)
      BY <2>2, OccurrencesAppend
    <3>4. Occurrences(m[2], collectionTokenIds[m[1]])' =
            Occurrences(m[2], collectionTokenIds'[m[1]])
      BY DEF Occurrences
    <3>5. CASE m[1] = n[1]
      <4>1. collectionTokenIds'[m[1]] = Append(seq, n[2])
        BY <1>0, <2>1, <2>2, <3>2, <3>5
      <4>2. m = n <=> m[2] = n[2]
        BY <3>1, <3>5
      <4> QED BY <3>2, <3>3, <3>4, <4>1, <4>2
    <3>6. CASE m[1] # n[1]
      <4>1. collectionTokenIds'[m[1]] = seq /\ m # n
        BY <1>0, <2>1, <3>1, <3>2, <3>6
      <4> QED BY <3>2, <3>3, <3>4, <4>1
    <3> QED BY <3>5, <3>6
  <2>4. ASSUME NEW u \in Users PROVE userPurchaseCount'[u] <= Total(u)'
    <3>1. \A m \in NFT : m # n => SoldListings(u, m)' = SoldListings(u, m)
      <4> SUFFICES ASSUME NEW m \in NFT, m # n PROVE SoldListings(u, m)' = SoldListings(u, m)
        OBVIOUS
      <4>1. Occurrences(m[2], collectionTokenIds[m[1]])' =
              Occurrences(m[2], collectionTokenIds[m[1]])
        BY <2>3
      <4>2. collectionToMarketItems'[m] = collectionToMarketItems[m]
        BY <1>0, <2>1
      <4> QED BY <2>1, <4>1, <4>2 DEF SoldListings
    <3>2. SoldListings(u, n)' - SoldListings(u, n) >= 0
      <4>1. /\ Occurrences(n[2], collectionTokenIds[n[1]]) \in Nat
            /\ Occurrences(n[2], collectionTokenIds[n[1]])' =
                 Occurrences(n[2], collectionTokenIds[n[1]]) + 1
        BY <2>3
      <4> QED BY <2>1, <4>1 DEF SoldListings
    <3>3. userPurchaseCount'[u] - userPurchaseCount[u] = 0 /\ userPurchaseCount'[u] \in Nat
      BY <1>0, <2>1
    <3>4. SoldListings(u, n)' - SoldListings(u, n) \in Int
      <4>1. SoldListings(u, n)' \in Int /\ SoldListings(u, n) \in Int
        BY <3>1, SoldListingsUpdate
      <4> QED BY <4>1
    <3>5. userPurchaseCount'[u] - userPurchaseCount[u]
            <= SoldListings(u, n)' - SoldListings(u, n)
      BY <3>2, <3>3, <3>4
    <3> HIDE DEF Total
    <3> QED BY <1>t, <3>1, <3>3, <3>5
  <2>5. \A u \in Users : \A m \in userPurchases'[u] : collections[m[1]].isActive
    BY <2>1 DEF PurchaseInv
  <2> HIDE DEF Total
  <2> QED BY <1>p, <2>4, <2>5
<1>3. ASSUME NEW s \in Users, NEW n \in NFT, createMarketSale(s, n)
      PROVE  PurchaseInv'
  <2>1. /\ userPurchases' = [userPurchases EXCEPT ![s] = @ \cup {n}]
        /\ userPurchaseCount' = [userPurchaseCount EXCEPT ![s] = @ + 1]
        /\ collectionToMarketItems' =
             [collectionToMarketItems EXCEPT ![n] = sold(collectionToMarketItems[n], s)]
        /\ UNCHANGED collectionTokenIds
        /\ collectionToMarketItems[n].isOnSale
    BY <1>3 DEF createMarketSale, forSale
  <2>2. ~collectionToMarketItems'[n].isOnSale
    BY <1>0, <2>1 DEF sold, MarketItem
  <2>3. collectionToMarketItems[n].seller # NoAddr /\ collections[n[1]].isActive
    BY <2>1 DEF LiveListings
  <2>4. /\ Occurrences(n[2], collectionTokenIds[n[1]]) \in Nat
        /\ Occurrences(n[2], collectionTokenIds[n[1]]) >= 1
        /\ Occurrences(n[2], collectionTokenIds[n[1]])' =
             Occurrences(n[2], collectionTokenIds[n[1]])
    <3>1. PICK i \in DOMAIN collectionTokenIds[n[1]] : collectionTokenIds[n[1]][i] = n[2]
      BY <2>3 DEF TokenIndexComplete
    <3>2. PICK seq \in Seq(TokenId) : seq = collectionTokenIds[n[1]]
      BY <1>0, TokenParts
    <3>3. Occurrences(seq[i], seq) \in Nat /\ Occurrences(seq[i], seq) >= 1
      BY <3>1, <3>2, OccurrencesPositive
    <3> QED BY <2>1, <3>1, <3>2, <3>3 DEF Occurrences
  <2>5. ASSUME NEW u \in Users PROVE userPurchaseCount'[u] <= Total(u)'
    <3>1. \A m \in NFT : m # n => SoldListings(u, m)' = SoldListings(u, m)
      <4> SUFFICES ASSUME NEW m \in NFT, m # n PROVE SoldListings(u, m)' = SoldListings(u, m)
        OBVIOUS
      <4>1. m \in userPurchases'[u] <=> m \in userPurchases[u]
        BY <1>0, <2>1
      <4>2. collectionToMarketItems'[m] = collectionToMarketItems[m]
        BY <1>0, <2>1
      <4>3. Occurrences(m[2], collectionTokenIds[m[1]])' =
              Occurrences(m[2], collectionTokenIds[m[1]])
        BY <2>1 DEF Occurrences
      <4> QED BY <4>1, <4>2, <4>3 DEF SoldListings
    <3>2. SoldListings(u, n)' \in Int /\ SoldListings(u, n) \in Int
      BY <3>1, SoldListingsUpdate
    <3>3. userPurchaseCount'[u] = IF u = s THEN userPurchaseCount[u] + 1 ELSE userPurchaseCount[u]
      BY <1>0, <2>1
    <3>4. userPurchaseCount[u] \in Nat /\ userPurchaseCount'[u] \in Nat
      BY <1>0, <3>3
    <3>5. CASE u = s
      <4>1. n \in userPurchases'[u]
        BY <1>0, <2>1, <3>5
      <4>2. SoldListings(u, n)' - SoldListings(u, n) >= 1
        BY <2>1, <2>2, <2>4, <4>1 DEF SoldListings
      <4>3. userPurchaseCount'[u] - userPurchaseCount[u]
              <= SoldListings(u, n)' - SoldListings(u, n)
        BY <3>2, <3>3, <3>4, <3>5, <4>2
      <4> HIDE DEF Total
      <4> QED BY <1>t, <3>1, <3>4, <4>3
    <3>6. CASE u # s
      <4>1. userPurchases'[u] = userPurchases[u]
        BY <1>0, <2>1, <3>6
      <4>2. SoldListings(u, n)' - SoldListings(u, n) >= 0
        BY <2>1, <2>2, <2>4, <4>1 DEF SoldListings
      <4>3. userPurchaseCount'[u] - userPurchaseCount[u]
              <= SoldListings(u, n)' - SoldListings(u, n)
        BY <3>2, <3>3, <3>4, <3>6, <4>2
      <4> HIDE DEF Total
      <4> QED BY <1>t, <3>1, <3>4, <4>3
    <3> QED BY <3>5, <3>6
  <2>6. \A u \in Users : \A m \in userPurchases'[u] : collections[m[1]].isActive
    <3>1. \A u \in Users : \A m \in userPurchases'[u] : m \in userPurchases[u] \/ m = n
      BY <1>0, <2>1
    <3> QED BY <2>3, <3>1 DEF PurchaseInv
  <2> HIDE DEF Total
  <2> QED BY <1>p, <2>5, <2>6
<1>4. ASSUME NEW s \in Users, NEW n \in NFT, NEW p \in Values, NEW d \in Durations,
             createAuction(s, n, p, d)
      PROVE  PurchaseInv'
  <2>1. \A m \in NFT : collectionToMarketItems'[m].isOnSale = collectionToMarketItems[m].isOnSale
    BY <1>0, <1>4 DEF createAuction, auctioned, MarketItem
  <2> QED BY <1>1, <1>4, <2>1 DEF createAuction
<1>5. ASSUME NEW s \in Users, NEW n \in NFT, NEW v \in Values, placeBid(s, n, v)
      PROVE  PurchaseInv'
  <2>1. \A m \in NFT : collectionToMarketItems'[m].isOnSale = collectionToMarketItems[m].isOnSale
    BY <1>0, <1>5 DEF placeBid, outbid, MarketItem
  <2> QED BY <1>1, <1>5, <2>1 DEF placeBid
<1>6. ASSUME NEW s \in Users, NEW n \in NFT, NEW v \in Values, makeOffer(s, n, v)
      PROVE  PurchaseInv'
  BY <1>1, <1>6 DEF makeOffer
<1>7. MarketStep => PurchaseInv'
  BY <1>2, <1>3, <1>4, <1>5, <1>6, Zenon DEF MarketStep, MarketCall
<1>8. CollectionStep => UNCHANGED marketVars
  BY DEF CollectionStep, CollectionCall, addCategory, createCollection, mint, mintCallReceiver,
         approve, setApprovalForAll, transferFrom, transferOwnership
<1>9. mintReturn \/ tick \/ UNCHANGED vars => UNCHANGED marketVars
  BY DEF mintReturn, tick, vars
<1> HIDE DEF Total
<1> QED BY <1>1, <1>7, <1>8, <1>9 DEF Next, marketVars

\* The listings of a collection as a list of tokens.
LEMMA ListingsType ==
  ASSUME TypeOK, NEW c \in Collections
  PROVE  /\ collectionTokenIds[c] \in Seq(TokenId)
         /\ Len(collectionTokenIds[c]) \in Nat
         /\ listings(c) \in Seq(NFT)
         /\ Len(listings(c)) = Len(collectionTokenIds[c])
         /\ \A i \in 1..Len(collectionTokenIds[c]) :
              /\ collectionTokenIds[c][i] \in TokenId
              /\ listings(c)[i] = <<c, collectionTokenIds[c][i]>>
<1>1. PICK ids \in Seq(TokenId) : ids = collectionTokenIds[c]
  BY DEF TypeOK, MarketTypeOK
<1>2. Len(ids) \in Nat /\ DOMAIN ids = 1..Len(ids) /\ \A i \in 1..Len(ids) : ids[i] \in TokenId
  OBVIOUS
<1>3. listings(c) = [i \in 1..Len(ids) |-> <<c, ids[i]>>]
  BY <1>1, <1>2 DEF listings
<1>4. \A i \in 1..Len(ids) : <<c, ids[i]>> \in NFT
  BY <1>2 DEF NFT
<1>5. listings(c) \in Seq(NFT) /\ Len(listings(c)) = Len(ids)
  BY <1>2, <1>3, <1>4
<1> QED BY <1>1, <1>2, <1>3, <1>5

\* g counts, per token of P, the listings in some collections and in c; f those in
\* the same collections without c.
CountsOneMore(f, g, c, P) ==
  /\ \A n \in NFT : n[1] # c => g[n] = f[n]
  /\ \A n \in NFT : n[1] = c =>
       /\ f[n] = 0
       /\ g[n] = IF n \in P THEN Occurrences(n[2], collectionTokenIds[c]) ELSE 0

\* Two functions that differ for one token at most.
AgreeBut(b, a, n) == \A m \in NFT : m # n => b[m] = a[m]

\* So do their sums, by as much.
LEMMA TokenSum ==
  ASSUME NEW a \in [NFT -> Int], NEW b \in [NFT -> Int], NEW n \in NFT, AgreeBut(b, a, n)
  PROVE  /\ SumFunction(b) = SumFunction(a) - a[n] + b[n]
         /\ SumFunction(a) \in Int /\ a[n] \in Int
<1>1. SumFunction(b) = SumFunction(a) - a[n] + b[n]
  BY FiniteTokens, SumUpdate DEF AgreeBut
<1> QED BY <1>1, FiniteTokens, SumType

\* What the inner loop adds to the result.
LEMMA CollectLength ==
  ASSUME TypeOK, NEW c \in Collections, NEW P, NEW base \in Seq(NFT),
         NEW f \in [NFT -> Int], NEW g \in [NFT -> Int], CountsOneMore(f, g, c, P)
  PROVE  /\ collect(base, P, listings(c)) \in Seq(NFT)
         /\ Len(collect(base, P, listings(c))) = Len(base) + SumFunction(g) - SumFunction(f)
<1>0. PICK seq \in Seq(NFT) : seq = listings(c)
  BY ListingsType
<1>1. PICK ids \in Seq(TokenId) : ids = collectionTokenIds[c]
  BY ListingsType
<1>2. /\ Len(ids) \in Nat /\ Len(seq) = Len(ids) /\ DOMAIN ids = 1..Len(ids)
      /\ \A i \in 1..Len(ids) : ids[i] \in TokenId /\ seq[i] = <<c, ids[i]>>
  BY <1>0, <1>1, ListingsType
<1>3. PICK r : Collecting(r, base, P, seq, NFT) /\ collect(base, P, seq) = r[Len(seq)]
  BY CollectLoop
<1> DEFINE w(k) == [n \in NFT |-> IF n[1] # c THEN f[n]
                                  ELSE IF n \in P THEN CountUpto(n[2], ids, k) ELSE 0]
           G == {k \in Nat : k <= Len(ids) =>
                               Len(r[k]) = Len(base) + SumFunction(w(k)) - SumFunction(f)}
<1>4. \A k \in Nat : w(k) \in [NFT -> Int]
  <2> SUFFICES ASSUME NEW k \in Nat, NEW n \in NFT, n[1] = c, n \in P
               PROVE  CountUpto(n[2], ids, k) \in Int
    OBVIOUS
  <2>1. PICK j : j = k + 1
    OBVIOUS
  <2> QED BY <2>1, CountNext
<1>5. w(0) = f
  <2>1. \A x : CountUpto(x, ids, 0) = 0
    <3>1. 1 = 0 + 1
      OBVIOUS
    <3> QED BY <3>1, CountNext
  <2>2. \A n \in NFT : w(0)[n] = f[n]
    BY <2>1 DEF CountsOneMore
  <2>3. w(0) \in [NFT -> Int]
    BY <1>4
  <2> QED BY <2>2, <2>3
<1>6. SumFunction(f) \in Int /\ Len(base) \in Int
  BY FiniteTokens, SumType
<1>7. 0 \in G /\ G \in SUBSET Nat
  <2>1. r[0] = base
    BY <1>3 DEF Collecting
  <2> HIDE DEF w
  <2> QED BY <1>5, <1>6, <2>1
<1>8. ASSUME NEW k \in Nat, k \in G PROVE k + 1 \in G
  <2> SUFFICES ASSUME k + 1 <= Len(ids)
               PROVE  Len(r[k + 1]) = Len(base) + SumFunction(w(k + 1)) - SumFunction(f)
    OBVIOUS
  <2>1. /\ k \in Nat /\ k \in 0..Len(seq) /\ k + 1 \in 1..Len(seq) /\ (k + 1) - 1 = k
        /\ k <= Len(ids)
    BY <1>2
  <2>2. Len(r[k]) = Len(base) + SumFunction(w(k)) - SumFunction(f)
    BY <1>8, <2>1
  <2>3. PICK j : j = k + 1
    OBVIOUS
  <2>j. j \in 1..Len(ids)
    BY <1>2, <2>1, <2>3
  <2>c. \A x : /\ ids[j] = x => CountUpto(x, ids, j) = CountUpto(x, ids, k) + 1
               /\ ids[j] # x => CountUpto(x, ids, j) = CountUpto(x, ids, k)
    <3> HIDE DEF w, G
    <3> QED BY <2>3, CountNext
  <2>4. PICK n \in NFT : n = seq[j] /\ n[1] = c /\ n[2] = ids[j]
    BY <1>2, <2>j DEF NFT
  <2>5. PICK old \in Seq(NFT) : old = r[k]
    BY <1>3, <2>1 DEF Collecting
  <2>6. r[j] = IF n \in P THEN Append(old, n) ELSE old
    BY <1>2, <1>3, <2>1, <2>3, <2>j, <2>4, <2>5 DEF Collecting
  <2>7. Len(old) \in Nat /\ Len(Append(old, n)) = Len(old) + 1
    OBVIOUS
  <2>8. PICK a \in [NFT -> Int] : a = w(k)
    BY <1>4, <2>1
  <2>9. PICK b \in [NFT -> Int] : b = w(j)
    <3>1. j \in Nat
      BY <2>1, <2>3
    <3>2. w(j) \in [NFT -> Int]
      BY <1>4, <3>1
    <3> HIDE DEF w
    <3> QED BY <3>2
  <2>10. ASSUME NEW m \in NFT, m # n PROVE b[m] = a[m]
    <3>1. CASE m[1] # c
      BY <2>8, <2>9, <3>1
    <3>2. CASE m[1] = c
      <4>1. m[2] # ids[j]
        BY <2>4, <2>10, <3>2, TokenParts
      <4>2. CountUpto(m[2], ids, j) = CountUpto(m[2], ids, k)
        BY <2>c, <4>1
      <4> QED BY <2>8, <2>9, <3>2, <4>2
    <3> QED BY <3>1, <3>2
  <2>11. b[n] = IF n \in P THEN a[n] + 1 ELSE a[n]
    <3>1. CountUpto(n[2], ids, j) = CountUpto(n[2], ids, k) + 1
      BY <2>c, <2>4
    <3> QED BY <2>4, <2>8, <2>9, <3>1
  <2>12. /\ SumFunction(b) = SumFunction(a) - a[n] + b[n]
         /\ SumFunction(a) \in Int /\ a[n] \in Int
    <3> HIDE DEF w, G
    <3>1. AgreeBut(b, a, n)
      BY <2>10 DEF AgreeBut
    <3> QED BY <3>1, TokenSum
  <2>13. Len(r[j]) = Len(old) + (b[n] - a[n])
    BY <2>6, <2>7, <2>11, <2>12
  <2>14. Len(old) = Len(base) + SumFunction(a) - SumFunction(f)
    <3> HIDE DEF w
    <3> QED BY <2>2, <2>5, <2>8
  <2>15. b[n] \in Int
    OBVIOUS
  <2>16. Len(r[j]) = Len(base) + SumFunction(b) - SumFunction(f)
    <3> HIDE DEF w, G
    <3>1. PICK sum \in Int : sum = SumFunction(a)
      BY <2>12
    <3>2. PICK before \in Int : before = SumFunction(f)
      BY <1>6
    <3>3. PICK x \in Int : x = a[n]
      BY <2>12
    <3>4. PICK y \in Int : y = b[n]
      BY <2>15
    <3>5. PICK start \in Int : start = Len(base)
      BY <1>6
    <3>6. SumFunction(b) = sum - x + y
      BY <2>12, <3>1, <3>3, <3>4
    <3>7. Len(r[j]) = start + sum - before + (y - x)
      BY <2>13, <2>14, <3>1, <3>2, <3>3, <3>4, <3>5
    <3>8. start + sum - before + (y - x) = start + (sum - x + y) - before
      OBVIOUS
    <3> QED BY <3>2, <3>5, <3>6, <3>7, <3>8
  <2> HIDE DEF w
  <2> QED BY <2>3, <2>9, <2>16
<1>9. G = Nat
  <2> HIDE DEF G
  <2> QED BY <1>7, <1>8, NaturalInduction
<1>10. w(Len(ids)) = g
  <2>1. \A n \in NFT : n[1] = c /\ n \in P => g[n] = CountUpto(n[2], ids, Len(ids))
    BY <1>1, <1>2 DEF CountsOneMore, Occurrences, CountUpto
  <2>2. \A n \in NFT : w(Len(ids))[n] = g[n]
    BY <2>1 DEF CountsOneMore
  <2>3. w(Len(ids)) \in [NFT -> Int]
    BY <1>2, <1>4
  <2> QED BY <2>2, <2>3
<1>11. Len(r[Len(ids)]) = Len(base) + SumFunction(g) - SumFunction(f)
  <2> HIDE DEF w
  <2> QED BY <1>2, <1>9, <1>10
<1>12. r[Len(ids)] \in Seq(NFT)
  BY <1>2, <1>3 DEF Collecting
<1> QED BY <1>0, <1>2, <1>3, <1>11, <1>12

\* The results that fetchUserPurchasedItems goes through, collection by collection.
Gathering(r, P) ==
  /\ r[0] = <<>>
  /\ \A k \in 1..Len(collectionAddresses) :
       r[k] = collect(r[k - 1], P, listings(collectionAddresses[k]))
  /\ \A k \in 0..Len(collectionAddresses) : r[k] \in Seq(NFT)

\* The outer loop of fetchUserPurchasedItems.
LEMMA PurchasesLoop ==
  ASSUME TypeOK, NEW u \in Users
  PROVE  \E r : /\ Gathering(r, userPurchases[u])
               /\ purchasedMatches(u) = r[Len(collectionAddresses)]
<1> DEFINE P == userPurchases[u]
           X == Collections
           seq == collectionAddresses
           base == <<>>
           I == DOMAIN seq
           next(r, x) == collect(r, P, listings(x))
           Eq(h) == h = [s \in SUBSET I |->
                           IF s = {} THEN base ELSE next(h[s \ {Max(s)}], seq[Max(s)])]
           loop == CHOOSE h : Eq(h)
           V == Seq(NFT)
<1>0. /\ seq \in Seq(X) /\ Len(seq) \in Nat /\ I = 1..Len(seq)
      /\ \A i \in I : seq[i] \in X
  <2>1. seq \in Seq(X)
    BY DEF TypeOK, RegistryTypeOK
  <2> HIDE DEF seq
  <2> QED BY <2>1
<1>1. purchasedMatches(u) = loop[I]
  BY DEF purchasedMatches, FoldLeft, MapThenFoldSet
<1>2. ASSUME NEW x \in X, NEW r \in V PROVE next(r, x) \in V
  <2>1. PICK l \in Seq(NFT) : l = listings(x)
    BY ListingsType
  <2>2. PICK q : Collecting(q, r, P, l, NFT) /\ collect(r, P, l) = q[Len(l)]
    <3> HIDE DEF P
    <3> QED BY CollectLoop
  <2>3. q[Len(l)] \in Seq(NFT)
    BY <2>2 DEF Collecting
  <2> QED BY <2>1, <2>2, <2>3
<1> HIDE DEF seq, X
<1>3. \E h : Eq(h)
  <2> DEFINE step == [x \in X |-> [r \in V |-> next(r, x)]]
  <2>1. step \in [X -> [V -> V]] /\ base \in V
    <3>1. base \in V
      OBVIOUS
    <3> HIDE DEF next, V
    <3> QED BY <1>2, <3>1
  <2> HIDE DEF step, V, I, base, next
  <2>2. PICK h : LoopValues(h, seq, V, base, step)
    BY <1>0, <2>1, LoopExists
  <2> DEFINE e(s) == IF s = {} THEN base ELSE next(h[s \ {Max(s)}], seq[Max(s)])
  <2>3. ASSUME NEW s \in SUBSET I PROVE h[s] = e(s)
    <3>1. CASE s = {}
      BY <2>2, <3>1 DEF LoopValues, I
    <3>2. CASE s # {}
      <4>1. Max(s) \in I
        BY <1>0, <3>2, LastIndex
      <4>2. h[s \ {Max(s)}] \in V /\ seq[Max(s)] \in X
        <5>1. s \ {Max(s)} \in SUBSET I
          OBVIOUS
        <5> QED BY <1>0, <2>2, <4>1, <5>1 DEF LoopValues, I
      <4>3. h[s] = step[seq[Max(s)]][h[s \ {Max(s)}]]
        BY <2>2, <3>2 DEF LoopValues, I
      <4>4. step[seq[Max(s)]][h[s \ {Max(s)}]] = next(h[s \ {Max(s)}], seq[Max(s)])
        <5> HIDE DEF next
        <5> QED BY <4>2 DEF step
      <4> HIDE DEF next
      <4> QED BY <3>2, <4>3, <4>4
    <3> QED BY <3>1, <3>2
  <2>4. h = [s \in SUBSET I |-> h[s]]
    BY <2>2 DEF LoopValues, I
  <2>5. Eq(h)
    <3> HIDE DEF e
    <3>1. h = [s \in SUBSET I |-> e(s)]
      BY <2>3, <2>4
    <3> QED BY <3>1 DEF e
  <2> HIDE DEF Eq
  <2> QED BY <2>5
<1>4. Eq(loop)
  <2> HIDE DEF Eq
  <2> QED BY <1>3
<1> HIDE DEF loop, next
<1> DEFINE r == [k \in 0..Len(seq) |-> loop[1..k]]
<1>5. r[0] = base
  <2>1. {} \in SUBSET I /\ 1..0 = {}
    OBVIOUS
  <2>2. loop[{}] = base
    BY <1>4, <2>1
  <2> QED BY <1>0, <2>1, <2>2
<1>6. ASSUME NEW k \in 1..Len(seq) PROVE r[k] = next(r[k - 1], seq[k])
  <2>1. k \in Nat /\ k # 0 /\ k \in 0..Len(seq) /\ k - 1 \in 0..Len(seq)
    BY <1>0
  <2>2. Max(1..k) = k /\ (1..k) \ {k} = 1..(k - 1) /\ 1..k # {}
    BY <2>1, LastOfPrefix
  <2>3. PICK s \in SUBSET I : s = 1..k
    BY <1>0, <2>1
  <2>4. loop[s] = IF s = {} THEN base ELSE next(loop[s \ {Max(s)}], seq[Max(s)])
    BY <1>4
  <2>5. loop[1..k] = next(loop[1..(k - 1)], seq[k])
    BY <2>2, <2>3, <2>4
  <2> QED BY <2>1, <2>5
<1>7. ASSUME NEW k \in 0..Len(seq) PROVE r[k] \in V
  <2> HIDE DEF r
  <2> DEFINE G == {i \in Nat : i <= Len(seq) => r[i] \in V}
  <2>0. r[0] \in V
    BY <1>5
  <2>1. 0 \in G /\ G \in SUBSET Nat
    <3> HIDE DEF V
    <3> QED BY <1>0, <2>0
  <2>2. ASSUME NEW i \in G PROVE i + 1 \in G
    <3> SUFFICES ASSUME i + 1 <= Len(seq) PROVE r[i + 1] \in V
      OBVIOUS
    <3>1. i + 1 \in 1..Len(seq) /\ (i + 1) - 1 = i /\ r[i] \in V
      BY <1>0, <2>2
    <3>2. r[i + 1] = next(r[i], seq[i + 1])
      BY <1>6, <3>1
    <3>3. seq[i + 1] \in X
      BY <1>0, <3>1
    <3> QED BY <1>2, <3>1, <3>2, <3>3
  <2>3. G = Nat
    <3> HIDE DEF G
    <3> QED BY <2>1, <2>2, NaturalInduction
  <2> QED BY <1>0, <2>3
<1>8. r[Len(seq)] = loop[I]
  BY <1>0
<1>9. Gathering(r, P)
  <2> HIDE DEF r
  <2> QED BY <1>5, <1>6, <1>7 DEF Gathering, next, seq
<1> HIDE DEF r
<1> QED BY <1>1, <1>8, <1>9 DEF seq

\* Per token of P, its listings in the first k collections.
FoundUpto(P, k) ==
  [n \in NFT |-> IF n \in P /\ \E i \in 1..k : collectionAddresses[i] = n[1]
                 THEN Occurrences(n[2], collectionTokenIds[n[1]]) ELSE 0]

\* No collection is listed twice, so the next one adds its own listings.
LEMMA FoundNext ==
  ASSUME TypeOK, RegistryConsistent, NEW P, NEW k \in Nat, NEW j, j = k + 1,
         j <= Len(collectionAddresses)
  PROVE  /\ FoundUpto(P, k) \in [NFT -> Int] /\ FoundUpto(P, j) \in [NFT -> Int]
         /\ collectionAddresses[j] \in Collections
         /\ CountsOneMore(FoundUpto(P, k), FoundUpto(P, j), collectionAddresses[j], P)
<1>1. PICK seq \in Seq(Collections) : seq = collectionAddresses
  BY DEF TypeOK, RegistryTypeOK
<1>2. /\ Len(seq) \in Nat /\ DOMAIN seq = 1..Len(seq)
      /\ j \in 1..Len(seq) /\ j \notin 1..k
      /\ \A i : i \in 1..j <=> i \in 1..k \/ i = j
      /\ \A i \in 1..k : i \in 1..Len(seq)
  BY <1>1
<1>3. PICK c \in Collections : c = seq[j]
  BY <1>2
<1>4. Recorded(c, seq, collections[c].isActive)
  BY <1>1 DEF RegistryConsistent
<1>5. \A i \in 1..k : seq[i] # c
  BY <1>2, <1>3, <1>4 DEF Recorded, OccursOnce, Absent
<1> DEFINE count(n) == Occurrences(n[2], collectionTokenIds[n[1]])
<1>6. ASSUME NEW n \in NFT PROVE count(n) \in Int
  <2>1. n[2] \in TokenId /\ collectionTokenIds[n[1]] \in Seq(TokenId)
    BY TokenParts DEF TypeOK, MarketTypeOK
  <2> QED BY <2>1, OccurrencesAppend
<1> HIDE DEF count
<1>7. /\ FoundUpto(P, k) = [n \in NFT |-> IF n \in P /\ \E i \in 1..k : seq[i] = n[1]
                                           THEN count(n) ELSE 0]
      /\ FoundUpto(P, j) = [n \in NFT |-> IF n \in P /\ \E i \in 1..j : seq[i] = n[1]
                                           THEN count(n) ELSE 0]
  BY <1>1 DEF FoundUpto, count
<1>8. FoundUpto(P, k) \in [NFT -> Int] /\ FoundUpto(P, j) \in [NFT -> Int]
  BY <1>6, <1>7
<1>9. ASSUME NEW n \in NFT, n[1] # c PROVE FoundUpto(P, j)[n] = FoundUpto(P, k)[n]
  <2>1. (\E i \in 1..j : seq[i] = n[1]) <=> (\E i \in 1..k : seq[i] = n[1])
    BY <1>2, <1>3, <1>9
  <2> QED BY <1>7, <2>1
<1>10. ASSUME NEW n \in NFT, n[1] = c
       PROVE  /\ FoundUpto(P, k)[n] = 0
              /\ FoundUpto(P, j)[n] = IF n \in P THEN count(n) ELSE 0
  <2>1. ~\E i \in 1..k : seq[i] = n[1]
    BY <1>5, <1>10
  <2>2. \E i \in 1..j : seq[i] = n[1]
    BY <1>2, <1>3, <1>10
  <2> QED BY <1>7, <2>1, <2>2
<1>11. \A n \in NFT : n[1] = c => count(n) = Occurrences(n[2], collectionTokenIds[c])
  BY DEF count
<1>12. CountsOneMore(FoundUpto(P, k), FoundUpto(P, j), c, P)
  BY <1>9, <1>10, <1>11 DEF CountsOneMore
<1> QED BY <1>1, <1>3, <1>8, <1>12

\* What the two loops of fetchUserPurchasedItems find.
LEMMA PurchasesCounted ==
  ASSUME TypeOK, RegistryConsistent, NEW u \in Users
  PROVE  /\ FoundUpto(userPurchases[u], Len(collectionAddresses)) \in [NFT -> Int]
         /\ Len(purchasedMatches(u)) =
              SumFunction(FoundUpto(userPurchases[u], Len(collectionAddresses)))
<1>0. PICK P : P = userPurchases[u]
  OBVIOUS
<1>1. PICK r : Gathering(r, P) /\ purchasedMatches(u) = r[Len(collectionAddresses)]
  BY <1>0, PurchasesLoop
<1>2. PICK N \in Nat : N = Len(collectionAddresses)
  <2>1. PICK seq \in Seq(Collections) : seq = collectionAddresses
    BY DEF TypeOK, RegistryTypeOK
  <2> QED BY <2>1
<1> DEFINE G == {k \in Nat : k <= N => /\ FoundUpto(P, k) \in [NFT -> Int]
                                       /\ Len(r[k]) = SumFunction(FoundUpto(P, k))}
<1>3. 0 \in G /\ G \in SUBSET Nat
  <2>1. \A i : i \notin 1..0
    OBVIOUS
  <2>2. PICK f : f = FoundUpto(P, 0)
    OBVIOUS
  <2>3. f \in [NFT -> Int] /\ \A n \in NFT : f[n] = 0
    BY <2>1, <2>2 DEF FoundUpto
  <2>4. SumFunction(f) = 0
    <3> HIDE DEF G
    <3> QED BY <2>3, FiniteTokens, SumZero
  <2>5. Len(r[0]) = 0
    BY <1>1 DEF Gathering
  <2> QED BY <2>2, <2>3, <2>4, <2>5
<1>4. ASSUME NEW k \in Nat, k \in G PROVE k + 1 \in G
  <2>1. PICK j : j = k + 1
    OBVIOUS
  <2> SUFFICES ASSUME j <= N
               PROVE  /\ FoundUpto(P, j) \in [NFT -> Int]
                      /\ Len(r[j]) = SumFunction(FoundUpto(P, j))
    BY <2>1
  <2>2. k <= N /\ j \in 1..N /\ k \in 0..N /\ j - 1 = k
    BY <2>1
  <2>3. FoundUpto(P, k) \in [NFT -> Int] /\ Len(r[k]) = SumFunction(FoundUpto(P, k))
    BY <1>4, <2>2
  <2> HIDE DEF G
  <2>4. /\ FoundUpto(P, j) \in [NFT -> Int]
        /\ collectionAddresses[j] \in Collections
        /\ CountsOneMore(FoundUpto(P, k), FoundUpto(P, j), collectionAddresses[j], P)
    BY <1>2, <2>1, FoundNext
  <2>5. PICK f \in [NFT -> Int] : f = FoundUpto(P, k)
    BY <2>3
  <2>6. PICK g \in [NFT -> Int] : g = FoundUpto(P, j)
    BY <2>4
  <2>7. PICK c \in Collections : c = collectionAddresses[j]
    BY <2>4
  <2>8. PICK base \in Seq(NFT) : base = r[k]
    BY <1>1, <1>2, <2>2 DEF Gathering
  <2>9. r[j] = collect(base, P, listings(c))
    BY <1>1, <1>2, <2>2, <2>7, <2>8 DEF Gathering
  <2>10. CountsOneMore(f, g, c, P)
    BY <2>4, <2>5, <2>6, <2>7
  <2>11. Len(r[j]) = Len(base) + SumFunction(g) - SumFunction(f)
    BY <2>9, <2>10, CollectLength
  <2>12. SumFunction(g) \in Int /\ SumFunction(f) \in Int
    BY FiniteTokens, SumType
  <2>13. Len(base) = SumFunction(f)
    BY <2>3, <2>5, <2>8
  <2>14. Len(r[j]) = SumFunction(g)
    BY <2>11, <2>12, <2>13
  <2> QED BY <2>4, <2>6, <2>14
<1>5. G = Nat
  <2> HIDE DEF G
  <2> QED BY <1>3, <1>4, NaturalInduction
<1>6. FoundUpto(P, N) \in [NFT -> Int] /\ Len(r[N]) = SumFunction(FoundUpto(P, N))
  BY <1>5
<1> QED BY <1>0, <1>1, <1>2, <1>6

\* PurchaseInv holds in every reachable state.
LEMMA PurchaseInvAlways == Spec => []PurchaseInv
<1>1. Init => PurchaseInv
  <2> SUFFICES ASSUME Init PROVE PurchaseInv
    OBVIOUS
  <2>1. ASSUME NEW u \in Users PROVE userPurchases[u] = {} /\ userPurchaseCount[u] = 0
    BY DEF Init
  <2>2. ASSUME NEW u \in Users
        PROVE  SumFunction([n \in NFT |-> SoldListings(u, n)]) = 0
    <3>1. PICK f : f = [n \in NFT |-> SoldListings(u, n)]
      OBVIOUS
    <3>2. f \in [NFT -> Int] /\ \A n \in NFT : f[n] = 0
      BY <2>1, <3>1 DEF SoldListings
    <3>3. SumFunction(f) = 0
      BY <3>2, FiniteTokens, SumZero
    <3> QED BY <3>1, <3>3
  <2> QED BY <2>1, <2>2 DEF PurchaseInv
<1>2. TypeOK /\ TypeOK' /\ LiveListings /\ TokenIndexComplete /\ PurchaseInv /\ [Next]_vars
        => PurchaseInv'
  BY PurchaseStep
<1> QED BY <1>1, <1>2, TypeCorrect, LiveListingsAlways, TokenIndexCompleteAlways, PTL DEF Spec

\* Every purchase is found again: fetchUserPurchasedItems fills its result.
THEOREM PurchasesAllFoundAlways == Spec => []PurchasesAllFound
<1>1. TypeOK /\ RegistryConsistent /\ PurchaseInv => PurchasesAllFound
  <2> SUFFICES ASSUME TypeOK, RegistryConsistent, PurchaseInv, NEW u \in Users
               PROVE  Len(purchasedMatches(u)) >= userPurchaseCount[u]
    BY DEF PurchasesAllFound
  <2>1. PICK g \in [NFT -> Int] : g = FoundUpto(userPurchases[u], Len(collectionAddresses))
    BY PurchasesCounted
  <2>2. Len(purchasedMatches(u)) = SumFunction(g)
    BY <2>1, PurchasesCounted
  <2>3. ASSUME NEW n \in NFT
        PROVE  /\ SoldListings(u, n) \in Int
               /\ SoldListings(u, n) <= g[n]
    <3>1. /\ n[1] \in Collections /\ n[2] \in TokenId
          /\ collectionTokenIds[n[1]] \in Seq(TokenId)
      BY TokenParts DEF TypeOK, MarketTypeOK
    <3>2. Occurrences(n[2], collectionTokenIds[n[1]]) \in Nat
      BY <3>1, OccurrencesAppend
    <3>3. CASE n \notin userPurchases[u]
      BY <2>1, <3>3 DEF SoldListings, FoundUpto
    <3>4. CASE n \in userPurchases[u]
      <4>1. collections[n[1]].isActive
        BY <3>4 DEF PurchaseInv
      <4>2. Recorded(n[1], collectionAddresses, collections[n[1]].isActive)
        BY <3>1 DEF RegistryConsistent
      <4>3. PICK seq \in Seq(Collections) : seq = collectionAddresses
        BY DEF TypeOK, RegistryTypeOK
      <4>4. DOMAIN seq = 1..Len(seq)
        OBVIOUS
      <4>5. \E i \in 1..Len(seq) : seq[i] = n[1]
        BY <4>1, <4>2, <4>3, <4>4 DEF Recorded, OccursOnce
      <4>6. g[n] = Occurrences(n[2], collectionTokenIds[n[1]])
        BY <2>1, <3>4, <4>3, <4>5 DEF FoundUpto
      <4> QED BY <3>2, <3>4, <4>6 DEF SoldListings
    <3> QED BY <3>3, <3>4
  <2>4. PICK f : f = [n \in NFT |-> SoldListings(u, n)]
    OBVIOUS
  <2>5. f \in [NFT -> Int] /\ \A n \in NFT : f[n] <= g[n]
    BY <2>3, <2>4
  <2>6. SumFunction(f) <= SumFunction(g) /\ SumFunction(f) \in Int /\ SumFunction(g) \in Int
    BY <2>5, FiniteTokens, SumMonotone, SumType
  <2>7. userPurchaseCount[u] <= SumFunction(f) /\ userPurchaseCount[u] \in Nat
    BY <2>4 DEF PurchaseInv, TypeOK, MarketTypeOK
  <2> QED BY <2>2, <2>6, <2>7
<1> QED BY <1>1, TypeCorrect, RegistryConsistentAlways, PurchaseInvAlways, PTL

============================================================================
