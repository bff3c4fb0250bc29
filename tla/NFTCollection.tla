--------------------------- MODULE NFTCollection ---------------------------
(***************************************************************************)
(* The ERC-721 collection contracts (contracts/NFTCollection.sol) that the *)
(* marketplace deploys: the token counter, the owner of every token, the   *)
(* approvals and the token URIs, for all collections at once.              *)
(*                                                                         *)
(* A token is a pair <<collection, tokenId>>.  The definitions below are   *)
(* the state changes of the contract's functions; module NFTMarketplace    *)
(* composes them with the marketplace's own state.                         *)
(*                                                                         *)
(* A transaction of the EVM is atomic, so a function is one step, with one *)
(* exception: mint calls _safeMint, which hands control to the receiver    *)
(* (onERC721Received) when the receiver is a contract, before the token    *)
(* URI is stored and before the marketplace learns of the new supply.      *)
(* That window is the stack "minting" of calls of mint that wait for their *)
(* receiver.                                                               *)
(***************************************************************************)
EXTENDS Integers, Sequences

CONSTANTS
  Users,        \* accounts that send transactions or own tokens
  Contracts,    \* the users that are contracts with an onERC721Received hook
  Market,       \* the address of the marketplace contract
  NoAddr,       \* address(0)
  Collections,  \* addresses that deployed collections may get
  Deployer,     \* who deployed the marketplace and is its first owner()
  MaxTokens,    \* bound on the tokens minted in one collection
  URIs,         \* token URIs passed to mint
  NoURI         \* the empty string, the URI of a token before _setTokenURI

ASSUME AddressAssumption ==
  /\ Market \notin Users
  /\ NoAddr \notin Users \cup {Market}
  /\ Market \notin Collections
  /\ Contracts \subseteq Users
  /\ Deployer \in Users
  /\ MaxTokens \in Nat
  /\ NoURI \notin URIs

VARIABLES
  deployed,          \* the collections whose constructor has run
  contractOwner,     \* Ownable: owner() of every collection and of the marketplace
  tokenIds,          \* _tokenIds: the last token id given out, per collection
  owners,            \* _owners, per token
  tokenApprovals,    \* _tokenApprovals, per token
  operatorApprovals, \* _operatorApprovals: <<collection, owner, operator>>
  tokenURIs,         \* _tokenURIs, per token
  minting            \* calls of mint inside the receiver's hook, outermost first

collectionVars == <<deployed, contractOwner, tokenIds, owners, tokenApprovals,
                    operatorApprovals, tokenURIs, minting>>

TokenId == 1..MaxTokens
NFT == Collections \X TokenId
Address == Users \cup {Market}
Ownables == Collections \cup {Market}
MintCall == [nft : NFT, uri : URIs]

----------------------------------------------------------------------------

CollectionTypeOK ==
  /\ deployed \subseteq Collections
  /\ contractOwner \in [Ownables -> Users \cup {NoAddr}]
  /\ tokenIds \in [Collections -> 0..MaxTokens]
  /\ owners \in [NFT -> Address \cup {NoAddr}]
  /\ tokenApprovals \in [NFT -> Address \cup {NoAddr}]
  /\ operatorApprovals \subseteq Collections \X Users \X Address
  /\ tokenURIs \in [NFT -> URIs \cup {NoURI}]
  /\ minting \in Seq(MintCall)

CollectionInit ==
  /\ deployed = {}
  /\ contractOwner = [o \in Ownables |-> IF o = Market THEN Deployer ELSE NoAddr]
  /\ tokenIds = [c \in Collections |-> 0]
  /\ owners = [n \in NFT |-> NoAddr]
  /\ tokenApprovals = [n \in NFT |-> NoAddr]
  /\ operatorApprovals = {}
  /\ tokenURIs = [n \in NFT |-> NoURI]
  /\ minting = <<>>

\* An account may send a call now: between transactions anyone may; while a
\* mint waits for its receiver only code that runs inside the hook may.
MayCall(sender) == minting = <<>> \/ sender \in Contracts

\* The constructor: a fresh address, owned by initialOwner.
construct(c, initialOwner) ==
  /\ c \notin deployed
  /\ deployed' = deployed \cup {c}
  /\ contractOwner' = [contractOwner EXCEPT ![c] = initialOwner]
  /\ UNCHANGED <<tokenIds, owners, tokenApprovals, operatorApprovals,
                 tokenURIs, minting>>

\* ERC721._isAuthorized(owner, spender, tokenId)
isAuthorized(owner, spender, n) ==
  \/ owner = spender
  \/ <<n[1], owner, spender>> \in operatorApprovals
  \/ tokenApprovals[n] = spender

\* ERC721.transferFrom called by spender: it reverts unless "from" owns the
\* token and spender is authorized, moves it and clears its approval.
erc721TransferFrom(spender, from, to, n) ==
  /\ from # NoAddr
  /\ owners[n] = from
  /\ isAuthorized(from, spender, n)
  /\ owners' = [owners EXCEPT ![n] = to]
  /\ tokenApprovals' = [tokenApprovals EXCEPT ![n] = NoAddr]

\* ERC721.tokenURI: reverts for a token nobody owns, which callers guard; the
\* collection never overrides _baseURI(), so it is the stored URI.
tokenURI(n) == tokenURIs[n]

\* mint up to and including the transfer inside _safeMint: onlyOwner, the
\* counter, and the new token given to "to".  A receiver with code but no hook
\* (the marketplace itself) makes the call revert, so "to" is a user.
mintToken(sender, c, to) ==
  /\ c \in deployed
  /\ sender = contractOwner[c]
  /\ tokenIds[c] < MaxTokens
  /\ tokenIds' = [tokenIds EXCEPT ![c] = @ + 1]
  /\ owners' = [owners EXCEPT ![<<c, tokenIds[c] + 1>>] = to]
  /\ UNCHANGED <<deployed, contractOwner, tokenApprovals, operatorApprovals>>

\* ERC721.approve
erc721Approve(sender, to, n) ==
  /\ owners[n] # NoAddr
  /\ owners[n] = sender \/ <<n[1], owners[n], sender>> \in operatorApprovals
  /\ tokenApprovals' = [tokenApprovals EXCEPT ![n] = to]
  /\ UNCHANGED <<deployed, contractOwner, tokenIds, owners, operatorApprovals,
                 tokenURIs, minting>>

\* ERC721.setApprovalForAll
erc721SetApprovalForAll(sender, c, operator, allowed) ==
  /\ c \in deployed
  /\ operatorApprovals' = IF allowed
                            THEN operatorApprovals \cup {<<c, sender, operator>>}
                            ELSE operatorApprovals \ {<<c, sender, operator>>}
  /\ UNCHANGED <<deployed, contractOwner, tokenIds, owners, tokenApprovals,
                 tokenURIs, minting>>

\* Ownable.transferOwnership, and renounceOwnership when newOwner is NoAddr
ownableTransferOwnership(sender, o, newOwner) ==
  /\ sender = contractOwner[o]
  /\ contractOwner' = [contractOwner EXCEPT ![o] = newOwner]
  /\ UNCHANGED <<deployed, tokenIds, owners, tokenApprovals,
                 operatorApprovals, tokenURIs, minting>>

============================================================================
