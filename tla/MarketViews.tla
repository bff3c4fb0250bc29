---------------------------- MODULE MarketViews ----------------------------
(***************************************************************************)
(* The view functions of contracts/NFTMarketplace.sol that compute: the    *)
(* loops over the lists of collections and listings, evaluated in every    *)
(* state that module NFTMarketplace reaches.                               *)
(***************************************************************************)
EXTENDS NFTMarketplace, SequencesExt

lowerPrice_SoldToo(c, lowest, id) ==
  LET item == collectionToMarketItems[<<c, id>>]
  IN IF item.price < lowest THEN item.price ELSE lowest

lowerPrice(c, lowest, id) ==
  LET item == collectionToMarketItems[<<c, id>>]
  IN IF item.isOnSale /\ item.price < lowest THEN item.price ELSE lowest

\* _getFloorPrice: the running minimum over the listings, starting from
\* type(uint256).max, which stands for "nothing for sale" and becomes 0.
getFloorPrice(c) ==
  LET lowestPrice == FoldLeft(LAMBDA lowest, id : lowerPrice(c, lowest, id),
                              MaxUint, collectionTokenIds[c])
  IN IF lowestPrice = MaxUint THEN 0 ELSE lowestPrice

\* A loop that writes the elements of S it meets in a list behind a result.
collect(result, S, seq) ==
  FoldLeft(LAMBDA written, x : IF x \in S THEN Append(written, x) ELSE written, result, seq)

\* fetchUserPurchasedItems: the tokens its two loops write into the result, one
\* per listing of a token the user bought, in the order of the lists.  The
\* result has userPurchaseCount[u] entries; one write more reverts the call.
listings(c) == [i \in DOMAIN collectionTokenIds[c] |-> <<c, collectionTokenIds[c][i]>>]
purchasedMatches(u) ==
  FoldLeft(LAMBDA result, c : collect(result, userPurchases[u], listings(c)),
           <<>>, collectionAddresses)

\* _matchesSearchCriteria.  A search term is given by the collections whose name
\* or symbol contains it and a category filter by the categories that contain
\* it (module ContainsIgnoreCase); the empty string is the full set.  A bound of
\* 0 is no bound.
matchesSearchCriteria_Exclusive(c, named, inCategory, floorPrice, minFloor, maxFloor) ==
  /\ c \in named
  /\ collections[c].category \in inCategory
  /\ minFloor = 0 \/ floorPrice > minFloor
  /\ maxFloor = 0 \/ floorPrice < maxFloor

matchesSearchCriteria(c, named, inCategory, floorPrice, minFloor, maxFloor) ==
  /\ c \in named
  /\ collections[c].category \in inCategory
  /\ minFloor = 0 \/ floorPrice >= minFloor
  /\ maxFloor = 0 \/ floorPrice <= maxFloor

\* _searchWithFilters: the addresses in its result, as its filling pass writes
\* them; the counting pass before it sees the same state and applies the same test.
searchWithFilters(named, inCategory, minFloor, maxFloor) ==
  collect(<<>>, {c \in Collections :
                   /\ collections[c].isActive
                   /\ matchesSearchCriteria(c, named, inCategory, getFloorPrice(c),
                                            minFloor, maxFloor)},
          collectionAddresses)

\* The addresses whose details fetchCollections and fetchUserCreatedCollections
\* ask for.
fetchCollections == collectionAddresses
fetchUserCreatedCollections(user) == userCreatedCollections[user]

\* fetchCollectionDetails reverts for a collection that is not active, and
\* with it every fetch that asks for its details.
fetchReverts(addresses) == \E i \in DOMAIN addresses : ~collections[addresses[i]].isActive

----------------------------------------------------------------------------

\* How often c occurs in a list.
Occurrences(c, seq) == Cardinality({i \in DOMAIN seq : seq[i] = c})

\* The prices at which a collection's tokens are for sale.
Asked(c) == {collectionToMarketItems[<<c, id>>].price :
               id \in {i \in TokenId : collectionToMarketItems[<<c, i>>].isOnSale}}

\* A search with a lower price bound finds exactly the collections that have
\* something for sale (below type(uint256).max) at no less than the bound, and
\* nothing for less, and whose cheapest item is within the upper bound.
SearchByPrice ==
  \A minFloor \in Values \ {0}, maxFloor \in Values :
    Range(searchWithFilters(Collections, Category, minFloor, maxFloor)) =
      {c \in deployed : \E p \in Asked(c) \ {MaxUint} :
                         /\ \A q \in Asked(c) : p <= q
                         /\ minFloor <= p
                         /\ maxFloor = 0 \/ p <= maxFloor}

\* The floor price is the lowest price asked in the collection, auctioned
\* listings included; when nothing is for sale, or only at type(uint256).max,
\* it is 0, which a listing auctioned from 0 also gives.
FloorPriceLowest ==
  \A c \in Collections :
    getFloorPrice(c) = IF Asked(c) \ {MaxUint} = {} THEN 0 ELSE Min(Asked(c))

\* fetchUserPurchasedItems leaves no entry of its result unwritten: every
\* purchase is found again in the lists of listings, however tokens were resold.
PurchasesAllFound ==
  \A u \in Users : Len(purchasedMatches(u)) >= userPurchaseCount[u]

\* fetchUserPurchasedItems never writes past the end of its result: a buyer's
\* purchases can always be fetched (scripts/interact.js fetches them after a
\* sale and prints their number).
PurchasedItemsFit ==
  \A u \in Users : Len(purchasedMatches(u)) <= userPurchaseCount[u]

============================================================================
