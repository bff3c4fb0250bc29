--------------------------- MODULE InteractScript ---------------------------
(***************************************************************************)
(* scripts/interact.js: one account creates two collections, takes the     *)
(* last one that the marketplace knows, mints two tokens in it, compares   *)
(* the two supplies, lists the first token and has a second account buy    *)
(* it.  Every transaction and every read that can throw or that it uses    *)
(* later is a step of its own, and between two of them other accounts use  *)
(* the marketplace.                                                        *)
(*                                                                         *)
(* A call that would revert throws, and the script's catch block ends it.  *)
(* Reads that it only prints and that cannot revert where they stand, and  *)
(* that of the listing fee, which is fixed, are part of the transaction    *)
(* next to them.                                                           *)
(***************************************************************************)
EXTENDS MarketViews

CONSTANTS
  Seller, Buyer,      \* the two signers; the script calls the first "deployer"
  Price,              \* 0.1 ether
  Others,             \* accounts that use the marketplace at the same time
  OthersCollections,  \* bound on the collections they create
  OthersTokens        \* bound on the tokens they mint in each

ASSUME ScriptAssumption ==
  /\ Others \subseteq Users
  /\ Seller \in Payable \ (Others \cup Contracts)
  /\ Buyer \in Users \ (Others \cup {Seller})
  /\ Price \in 1..MaxUint
  /\ InitialWallet >= Price /\ InitialWallet >= ListingFee
  /\ OthersCollections \in Nat /\ OthersCollections + 2 <= Cardinality(Collections)
  /\ OthersTokens \in Nat /\ OthersTokens + 2 <= MaxTokens
  \* What the script calls is among the calls of module NFTMarketplace.
  /\ {"Art", "Gaming"} \subseteq UsedCategories
  /\ Price \in Values
  /\ Market \in Spenders

VARIABLES
  at,          \* the line the script is at, or failed at
  failed,      \* an exception has ended it
  created,     \* the collections it has created
  chosen,      \* collectionAddress
  seenSupply   \* collectionAfterSecondMint.totalSupply

locals == <<created, chosen, seenSupply>>
scriptVars == <<at, failed, locals>>
allVars == <<vars, scriptVars>>

\* The token that is listed and bought: firstTokenId.
first == <<chosen, 1>>

ScriptInit ==
  /\ Init
  /\ at = "createFirst"
  /\ failed = FALSE
  /\ created = {}
  /\ chosen = NoAddr
  /\ seenSupply = 0

\* A line runs between two transactions of the chain, never inside one.
At(line) == at = line /\ ~failed /\ minting = <<>>
Goto(line) == at' = line /\ UNCHANGED failed
Throw == failed' = TRUE /\ UNCHANGED <<at, vars>>

\* A transaction that is awaited: it takes effect, or the contracts' conditions
\* for it do not hold, it reverts and throws.
transact(accepted, call, next) ==
  /\ (accepted /\ call /\ Goto(next)) \/ (~accepted /\ Throw)
  /\ UNCHANGED locals

\* A read or a check that throws unless ok.
await(ok, next) ==
  /\ failed' = ~ok
  /\ at' = IF ok THEN next ELSE at
  /\ UNCHANGED vars

create(category, next) ==
  \E c \in Collections :
    /\ createCollection(Seller, c, category)
    /\ created' = created \cup {c}
    /\ Goto(next)
    /\ UNCHANGED <<chosen, seenSupply>>

createFirst == At("createFirst") /\ create("Art", "createSecond")
createSecond == At("createSecond") /\ create("Gaming", "fetchOwn")

fetchOwn ==
  /\ At("fetchOwn")
  /\ await(~fetchReverts(fetchUserCreatedCollections(Seller)), "choose")
  /\ UNCHANGED locals

\* The last collection that fetchCollections reports.
choose ==
  LET found == fetchCollections # <<>> /\ ~fetchReverts(fetchCollections)
  IN /\ At("choose")
     /\ await(found, "mintFirst")
     /\ chosen' = IF found THEN Last(fetchCollections) ELSE chosen
     /\ UNCHANGED <<created, seenSupply>>

\* What mint asks for: onlyOwner, and a marketplace that knows the collection.
mintable ==
  /\ chosen \in deployed /\ contractOwner[chosen] = Seller
  /\ collections[chosen].isActive

mintToSelf == \E uri \in URIs : mint(Seller, chosen, Seller, uri)
mintFirst == At("mintFirst") /\ transact(mintable, mintToSelf, "mintSecond")
mintSecond == At("mintSecond") /\ transact(mintable, mintToSelf, "readSupply")

\* getCollectionDetails of the marketplace, and then, in a call of its own,
\* totalSupply of the collection.
readSupply ==
  /\ At("readSupply")
  /\ await(collections[chosen].isActive, "compareSupply")
  /\ seenSupply' = collections[chosen].totalSupply
  /\ UNCHANGED <<created, chosen>>

compareSupply ==
  /\ At("compareSupply")
  /\ await(tokenIds[chosen] = seenSupply, "readOwners")
  /\ UNCHANGED locals

\* ownerOf of the two tokens, which reverts for a token nobody owns.
readOwners ==
  /\ At("readOwners")
  /\ await(\A id \in {1, 2} : owners[<<chosen, id>>] # NoAddr, "approveMarket")
  /\ UNCHANGED locals

\* What ERC721.approve asks for.
approvable(n) ==
  owners[n] # NoAddr /\ (owners[n] = Seller \/ <<n[1], owners[n], Seller>> \in operatorApprovals)

approveMarket_SecondToken ==
  /\ At("approveMarket")
  /\ transact(approvable(<<chosen, 2>>), approve(Seller, Market, <<chosen, 2>>), "list")

approveMarket ==
  /\ At("approveMarket")
  /\ transact(approvable(first), approve(Seller, Market, first), "list")

\* What createMarketItem asks for, and the transfer into escrow at its end.
listable ==
  /\ collections[chosen].isActive
  /\ Price > 0
  /\ wallet[Seller] >= ListingFee
  /\ owners[first] = Seller /\ isAuthorized(Seller, Market, first)

list == At("list") /\ transact(listable, createMarketItem(Seller, first, Price), "buy")

\* What createMarketSale asks for when it is sent the price that the script has
\* listed the token for, with the payment and the transfer that it makes.
buyable ==
  LET item == collectionToMarketItems[first]
  IN /\ item.price = Price
     /\ forSale(first)
     /\ wallet[Buyer] >= Price
     /\ item.seller \in Payable
     /\ owners[first] = Market

buy == At("buy") /\ transact(buyable, createMarketSale(Buyer, first), "fetchPurchases")

\* fetchUserPurchasedItems.
fetchPurchases ==
  /\ At("fetchPurchases")
  /\ await(Len(purchasedMatches(Buyer)) <= userPurchaseCount[Buyer], "search")
  /\ UNCHANGED locals

\* The searches end the script.  They cannot throw: searchCollections skips what is
\* not active, fills as many entries as it has counted, and compares strings
\* without panic (module ContainsIgnoreCase).  What the fetches after them throw, an
\* inner try block catches.
search == At("search") /\ await(TRUE, "done") /\ UNCHANGED locals

ScriptStep ==
  \/ createFirst \/ createSecond \/ fetchOwn \/ choose \/ mintFirst \/ mintSecond
  \/ readSupply \/ compareSupply \/ readOwners \/ approveMarket \/ list \/ buy
  \/ fetchPurchases \/ search

\* The calls of the other accounts, within the bounds, and the end of a mint that
\* one of them has sent to a contract.
OtherStep ==
  /\ (\E u \in Others : CollectionCall(u) \/ MarketCall(u)) \/ mintReturn
  /\ Cardinality(deployed' \ created) <= OthersCollections
  /\ \A c \in Collections : tokenIds'[c] > tokenIds[c] => tokenIds'[c] <= OthersTokens
  /\ UNCHANGED scriptVars

\* The time stands still: only the end of an auction depends on it.
ScriptNext == ScriptStep \/ OtherStep
ScriptSpec == ScriptInit /\ [][ScriptNext]_allVars

----------------------------------------------------------------------------

\* The comparison never fails ("Total supply mismatch"), although the two
\* supplies are read in two calls and others use the marketplace between them:
\* who may mint in the collection is the script's own account.
SupplyCheckHolds == ~(failed /\ at = "compareSupply")

\* An exception has one of two reasons: the last collection was not one of the
\* script's own, or another account bought the token before the script's buyer.
\* The first shows when the script mints in it or trades a token of it, the
\* second when its buyer buys the token or, the token resold, fetches what it
\* bought; at no other line does the script fail, whatever others do meanwhile.
FailureExplained ==
  failed =>
    \/ /\ chosen \notin created
       /\ at \in {"mintFirst", "approveMarket", "list", "buy", "fetchPurchases"}
    \/ /\ \E u \in Others : first \in userPurchases[u]
       /\ at \in {"buy", "fetchPurchases"}

\* From its listing on, the token is either in escrow for the seller at the
\* price asked, unpaid, or the seller has been paid that price once, whoever
\* bought it and whatever became of it; and when the script's purchase has gone
\* through its buyer owns the token, paid the price and no longer finds it on sale.
SwapCompletes ==
  LET item == collectionToMarketItems[first]
      listedFor == InitialWallet - ListingFee
  IN /\ at \in {"buy", "fetchPurchases", "search", "done"} =>
          \/ /\ wallet[Seller] = listedFor
             /\ owners[first] = Market /\ item.isOnSale
             /\ item.seller = Seller /\ item.price = Price
          \/ wallet[Seller] = listedFor + Price
     /\ at \in {"fetchPurchases", "search", "done"} =>
          /\ owners[first] = Buyer /\ ~item.isOnSale
          /\ wallet[Buyer] = InitialWallet - Price

============================================================================
