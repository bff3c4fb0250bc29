------------------------- MODULE CollectionRegistry -------------------------
(***************************************************************************)
(* The part of contracts/NFTMarketplace.sol that knows which categories    *)
(* and which collections exist.  A collection is recorded in four places:  *)
(* the mapping collections, the list of all addresses, the list of its     *)
(* category and the list of its creator.                                   *)
(*                                                                         *)
(* Names, symbols, base URIs and the creation time are data no function    *)
(* changes; they are left out here.                                        *)
(***************************************************************************)
EXTENDS NFTCollection

CONSTANT NewCategories   \* further category names the owner may add

VARIABLES
  categories, categoryExists, collections, collectionAddresses,
  categoryToCollections, userCreatedCollections

registryVars == <<categories, categoryExists, collections, collectionAddresses,
                  categoryToCollections, userCreatedCollections>>

\* The categories added by the constructor, in its order.
InitialCategories ==
  <<"Art", "Gaming", "Memberships", "Music", "PFPs", "Photography">>

InitialCategorySet ==
  {"Art", "Gaming", "Memberships", "Music", "PFPs", "Photography"}

Category == InitialCategorySet \cup NewCategories

\* struct Collection, and the value of an entry that was never written.
CollectionRecord == [category : Category \cup {""}, owner : Users \cup {NoAddr},
                     isActive : BOOLEAN, totalSupply : Nat]
NoCollection == [category |-> "", owner |-> NoAddr,
                 isActive |-> FALSE, totalSupply |-> 0]

----------------------------------------------------------------------------

RegistryTypeOK ==
  /\ categories \in Seq(Category)
  /\ categoryExists \subseteq Category
  /\ collections \in [Collections -> CollectionRecord]
  /\ collectionAddresses \in Seq(Collections)
  /\ categoryToCollections \in [Category -> Seq(Collections)]
  /\ userCreatedCollections \in [Users -> Seq(Collections)]

RegistryInit ==
  /\ categories = InitialCategories
  /\ categoryExists = InitialCategorySet
  /\ collections = [c \in Collections |-> NoCollection]
  /\ collectionAddresses = <<>>
  /\ categoryToCollections = [k \in Category |-> <<>>]
  /\ userCreatedCollections = [u \in Users |-> <<>>]

registerCategory_Again(sender, category) ==
  /\ sender = contractOwner[Market]
  /\ categories' = Append(categories, category)
  /\ categoryExists' = categoryExists \cup {category}
  /\ UNCHANGED <<collections, collectionAddresses, categoryToCollections,
                 userCreatedCollections>>

\* addCategory: onlyOwner, refused when the name exists.
registerCategory(sender, category) ==
  /\ sender = contractOwner[Market]
  /\ category \notin categoryExists
  /\ categories' = Append(categories, category)
  /\ categoryExists' = categoryExists \cup {category}
  /\ UNCHANGED <<collections, collectionAddresses, categoryToCollections,
                 userCreatedCollections>>

\* createCollection, everything but the new contract's constructor.
registerCollection(sender, c, category) ==
  /\ category \in categoryExists
  /\ collections' = [collections EXCEPT ![c] =
                       [category |-> category, owner |-> sender,
                        isActive |-> TRUE, totalSupply |-> 0]]
  /\ collectionAddresses' = Append(collectionAddresses, c)
  /\ categoryToCollections' = [categoryToCollections EXCEPT ![category] = Append(@, c)]
  /\ userCreatedCollections' = [userCreatedCollections EXCEPT ![sender] = Append(@, c)]
  /\ UNCHANGED <<categories, categoryExists>>

updateCollectionTotalSupply_BeforeMint(c) ==
  /\ collections[c].isActive
  /\ collections' = [collections EXCEPT ![c].totalSupply = tokenIds[c]]
  /\ UNCHANGED <<categories, categoryExists, collectionAddresses,
                 categoryToCollections, userCreatedCollections>>

\* updateCollectionTotalSupply, which mint calls: msg.sender is the collection,
\* and the marketplace reads the counter back through totalSupply().
updateCollectionTotalSupply(c) ==
  /\ collections[c].isActive
  /\ collections' = [collections EXCEPT ![c].totalSupply = tokenIds'[c]]
  /\ UNCHANGED <<categories, categoryExists, collectionAddresses,
                 categoryToCollections, userCreatedCollections>>

============================================================================
