# A TLA+ verification of the NFT marketplace

This directory models the OpenBeach NFT marketplace: the two Solidity contracts
in `contracts/`, the script that exercises them, and the parts of the Express
backend in `src/` that create collections and send transactions. TLC checks the
models on small instances; TLAPS proves nearly all of their safety properties for
every value of the constants. `PROJECT.json` maps each definition to the lines it
models, and lists the runs, their mutants, the hazards of the code and the theorems.

## 1. The system

| Part | State | Operations | Interacts with |
|---|---|---|---|
| `NFTCollection.sol` (ERC-721, OpenZeppelin) | `_tokenIds`, owners, approvals, operators, URIs, `owner()` | constructor, `mint`, `approve`, `setApprovalForAll`, `transferFrom`, `transferOwnership` | calls the receiver's `onERC721Received` and the marketplace's `updateCollectionTotalSupply` inside `mint` |
| `NFTMarketplace.sol`, registry | `categories`, `categoryExists`, `collections`, `collectionAddresses`, `categoryToCollections`, `userCreatedCollections` | `addCategory`, `createCollection`, `updateCollectionTotalSupply` | deploys collections, reads `totalSupply()` back |
| `NFTMarketplace.sol`, market | `collectionToMarketItems`, `collectionTokenIds`, `pendingReturns`, `itemOffers`, `userPurchases`, `userPurchaseCount`, its ether | `createMarketItem`, `createMarketSale`, `createAuction`, `placeBid`, `makeOffer` | takes tokens into escrow with `transferFrom`, pays sellers with `transfer` |
| `NFTMarketplace.sol`, views | none | floor price, item lists, purchase lists, search | loops over the lists above |
| Collections API (`collection.controller.js`, `collection.service.js`, `error.middleware.js`) | requests between awaits, MongoDB documents | `POST` and `GET /api/v1/collections` | signs a factory transaction with the server's key, waits for it, saves a document |
| Database connection (`config/database.js`) | mongoose's connection, handlers | connect, reconnect after 5 s, exit when that fails | ends the process and the requests in it |
| Transaction sending (`config/blockchain.js`, `blockchain.service.js`) | attempts of a call, the account's nonces | `sendTransaction` with retries, `mintNFT`, `transferNFT` | web3, the node's pool and blocks |
| `scripts/interact.js` | where it is, the collection it chose, a supply it read | two creations, two mints, approve, list, buy, reads and checks between | the contracts, which others use at the same time |
| Server process (`server.js`) | the HTTP server and its connections, pending callbacks | listen, SIGTERM, unhandled rejections | closes the HTTP server, then the database connection, then exits |

What is hard here: functions called in orders nobody planned (resale, an auction
of a sold token), ERC-721 calls that go past the marketplace, the receiver's hook
in the middle of `mint`, sentinel values (0 and `type(uint256).max`) that are also
prices, loops that index arrays sized by another counter; and in the backend one
key shared by concurrent requests, lost answers, a crash between the
transaction and the save, retries of what was already done, nonces read before
they are used, reconnect handlers that multiply, and a shutdown that waits for
clients. What makes each part correct:

- escrow: what is on sale is held by the marketplace and leaves only against payment;
- books: credits are covered by payments, and no bid disappears;
- registry: all lists name the same collections; supplies are in step;
- views: they return what the state says and never revert;
- API: what the client is told agrees with chain and database, and it is told something;
- sending: what was executed is what the caller knows of, and every call ends;
- script: its checks hold and its sale is paid once, whoever interferes;
- process: it gets its database back or ends, and a shutdown ends.

## 2. Modules

| Module | Models | Notes |
|---|---|---|
| `NFTCollection` | the collection contracts, all at once | tokens are pairs `<<collection, id>>`; ERC-721 and Ownable operations are external (OpenZeppelin 5.1) |
| `CollectionRegistry` | categories and collections of the marketplace | extends `NFTCollection` |
| `NFTMarketplace` | the composed contracts; one action per external function | extends `CollectionRegistry`; the state machine and its safety properties |
| `MarketLedger` | sums of ether over the books | extends `NFTMarketplace` |
| `MarketViews` | the view functions that compute | extends `NFTMarketplace` |
| `TokenEscrow` | what a marketplace promises: where tokens are, what accounts can spend | abstract, no code of its own |
| `MarketEscrow` | the refinement mapping from `NFTMarketplace` to `TokenEscrow` | `ImplementsEscrow` |
| `InteractScript` | `scripts/interact.js` composed with the contracts | extends `MarketViews`; one action per transaction, check, and read that can throw or is used later |
| `TransactionSender` | the retry loop and the service's two sends | one action between two awaits; web3, wallet provider and node external |
| `ContainsIgnoreCase` | the nested loops of `_containsIgnoreCase` | a state machine per loop step, against an independent reference |
| `CollectionBackend` | `POST`/`GET /collections`, error middleware, database connection | one action between two awaits; node, factory, wallet, MongoDB external |
| `ServerLifecycle` | `server.js`, `config/database.js`: one run of the process | Node's event loop, `http.Server` and mongoose external |
| `MCMarketplace`, `MCContainsIgnoreCase`, `MCCollectionBackend`, `MCServerLifecycle`, `MCTransactionSender`, `MCInteractScript` | instances for TLC | |
| `DataTheorems` | what recursive functions, loops over lists and sums over finite sets compute | lemmas about data, no state; used by the proofs below |
| `NFTMarketplaceProofs` | theorems about the contracts: types, custody, the refinement, the books and the ether | extends `MarketEscrow`, `MarketLedger` |
| `RegistryProofs` | theorems about the lists of collections, the copies of supplies and URIs, and the views | extends `MarketViews`, `NFTMarketplaceProofs` |
| `InteractScriptProofs` | theorems about the script beside other accounts | extends `InteractScript`, `RegistryProofs` |
| `CollectionBackendProofs`, `ServerLifecycleProofs`, `TransactionSenderProofs`, `ContainsIgnoreCaseProofs` | theorems about the module each is named after | |

### How the contract model corresponds to the code

An EVM transaction is atomic, so a function is one action, enabled exactly when
the call would not revert. The exception is `mint`: to an account with code,
`_safeMint` calls `onERC721Received` before the URI and the supply are written.
`mintCallReceiver` is the part before the hook, `mintReturn` the part after it,
and the stack `minting` holds the nested calls; in between, only accounts in
`Contracts` may call (`MayCall`). The reentrancy guard is left out because it can
never be set when a call starts: guarded functions hand control to nobody that
could call back (a `transfer` has 2300 gas, `transferFrom` has no hook).
`Pausable` is inherited and never used. `wallet` and `balance` are the ether of
users and of the contract, `Payable` the users that accept a plain transfer.
`bidsPaid` is a history variable. Names, symbols, base URIs, events and the
creation time are left out: no function reads them back.

### The abstract escrow

`TokenEscrow` has two variables. A token is unminted, held, in escrow for a seller
at a price, or stranded; an account has funds. The only way out of escrow is
`Sell`, in which the new holder pays the seller; an auctioned token is locked and a
stranded one stays, because the code has no function that would release them.
`MarketEscrow` reads the place of a token off its ERC-721 owner and its market item,
and the funds off `wallet`. Approvals, operators, hooks, registry, offers, purchase
lists and the contract's own balance do not appear above: their steps stutter, or
they are the right to take a step.

### How the script model corresponds to the code

`InteractScript` takes the contract actions as they are: a transaction of the script
is the action, conjoined with the step to its next line. Beside each stands, written
out from the `require`s and the calls that follow them, what the contracts ask for
(`mintable`, `approvable`, `listable`, `buyable`); where it does not hold the
transaction throws, and the catch block ends the script. Awaited reads that are only
printed and that cannot revert where they stand (the supplies at lines 131 and 149,
`getApproved`, the collection's items, the new owner at line 262) and the listing fee,
which never changes, are part of the transaction next to them, and the searches from line 285 on are one step
that cannot throw: `searchCollections` skips inactive collections, fills as many entries
as it counted, and compares strings without panic (`NoPanic`); what the fetches after it
might throw, the inner `try` catches. Between any two steps the accounts in `Others`
may do whatever the contract model lets an account do, mints with a receiver's hook
included; a step of the script runs when no transaction is under
way (`minting = <<>>`). The others leave room for the script's own two collections and
two tokens (`OthersCollections`, `OthersTokens`), so that no bound of the model looks
like a revert. That a call is first estimated and then mined is one step: a revert at
either point throws. The two signers act only through the script and have enough
ether; printed values are left out, and block time stands still, on which only the end
of an auction depends. `ScriptAssumption` asks that the script's categories, its price
and the marketplace's address be among the arguments of the contract model, so that a
call of the script is a call of that model.

### How the sender model corresponds to the code

`TransactionSender` gives every call its place between two awaits. The node keeps one
transaction per nonce in `slots`, of which the first `mined` are in blocks; a pending
one can be replaced. The service reads the number of mined transactions (`"latest"`);
the wallet provider behind `sendTransaction` takes any nonce up to the next free one,
since it caches. A refusal, a lost answer, a revert, a receipt and a time-out are
actions of their own. A limit of 0 stands for `RETRY_ATTEMPTS` unset too: `attempts <
undefined` is false. Transactions differ only in their call and attempt. All calls
use one account, as they do when the service's address is the wallet's. Neither file
can be loaded at this commit (ES imports in a CommonJS program, configuration keys
that are not exported); they are modelled as they are written.

### How the backend model corresponds to the code

A request is at `populate` (the wallet reads its nonce), `send`, `wait`, `save`,
`done` or `lost`. `txs` are the transactions of the server's key in nonce order,
`mined` what became of those in a block. A body is `valid`, `invalid` (the Joi
validator refuses) or `blank` (a name of blanks: the validator accepts, the schema
trims and refuses); a `GET` has `none`, and is at `find` until the database answers or
the query fails. The error middleware answers only when `NODE_ENV` is
`development` or `production`. The server listens before its first connection
is up. The factory contract and the authentication middleware that
`collection.service.js` and the route import are not in the repository; the
factory is an outcome of `mine`, authentication is taken to succeed.

### How the process model corresponds to the code

Every successful `connect` registers a `disconnected` listener and a SIGINT
handler, so `listeners` counts both. A disconnect starts `listeners` timers, each
of which calls `connect` again. `mongoose.connect` returns at once while the same
connection is open or opening; the driver may also reconnect by itself; a failed
open ends the process. `pending` are the callbacks of `httpServer.close`, which run
when the last connection, HTTP or socket.io, has ended. A request is answered, or it
hangs (`hanging`): a failing one gets no answer with a `NODE_ENV` that the error
middleware does not know, and `tx.wait()` has no time-out; then only its client can end
the connection. An unhandled rejection may come at any time. `package-lock.json` fixes
mongoose 8.8.0, whose `connection.close` takes no callback and rejects when given
one: the callback of SIGTERM therefore does not close the database, the rejection
goes to the `unhandledRejection` handler, and that closes the closed server once
more and exits with 1. That `connection.close()` of the SIGINT handler succeeds is
assumed, and so is that the port is free. `CollectionBackend` keeps of all this
what its requests see: `conn`, and that the process ends on a failed connect or on
SIGINT; SIGTERM lets them finish.

## 3. Runs

| Run | Instance | Checks |
|---|---|---|
| `trading` | 2 users with 3 units each, 1 token, prices and bids 0..2, approvals of the marketplace, transfers to one user and to the marketplace, users that are no contracts and accept ether, an auction that ends | `TypeOK`, `EscrowCustody`, `TokenIndexComplete`, `BidderNotOvercredited`, `Solvent`, `NothingPaidOut`, `AtomicSwap`, `AuctionedItemLocked`, `BidsLostOnlyByRelisting` |
| `views` | 2 tokens, prices 0..2 where 2 is `type(uint256).max` | `FloorPriceLowest`, `SearchByPrice`, `PurchasesAllFound` |
| `callbacks` | a receiver contract that cannot be paid, approvals of another user too, 2 tokens, nested mints, auctions, tokens sent to the marketplace, a new category | `SupplySynced`, `ItemURIMatches`, `ImplementsEscrow` |
| `script` | the script, 1 other account with a receiver's hook that owns the marketplace, 3 collections, up to 3 tokens in each, collections handed over to the script's account, a category named again | `RegistryConsistent`, `SupplyCheckHolds`, `FailureExplained`, `SwapCompletes` |
| `contains` | all pairs of short strings over boundary bytes | `Correct`, `NoPanic`, `Terminates` |
| `backend` | 2 requests, all bodies and GETs, 3 values of `NODE_ENV`, faults everywhere | `CreatedIsRecorded`, `DocsBacked`, `OneCollectionPerRequest`, `RequestsAnswered` |
| `lifecycle` | 2 requests, 1 socket, 3 disconnects, signals and rejections at any time | `ReconnectScheduled`, `HandlerGrowth`, `ConnectionHeals`, `ShutdownCompletes` |
| `sender` | 1 retrying call with a limit of 0, 1 or 2 and 2 calls of the service, all faults | `ExecutionsExplained`, `ResolvedMeansExecuted`, `CallsEnd` |
| `resale` | as `trading` | violates `PurchasedItemsFit` |
| `lost_bid` | as `trading` | violates `BidsAccountedFor` |
| `settlement` | 1 token, 1 auction, fair calls | violates `AuctionSettles` |
| `failed_create` | 1 request | violates `FailureMeansNotCreated` |

Bounds, and why they are enough. `InitialWallet` bounds payments, so offers, bids
and listings end by themselves; two users with two or three units are enough for a
sale, a resale, an auction of a sold token and a bid that displaces another.
`MaxTokens` bounds ids; one token shows every sequence on a token, two show that
minimum and search compare tokens and that mints nest. `MaxTime` and `Durations`
let an auction end before and after a bid. `MaxUint` is small so that overflow and
the sentinel price happen. `Spenders`, `Recipients` and `NewOwners` name the
arguments a run uses; an empty set switches a function off. In `backend` two
requests are what a nonce race needs. In `script` three collections put two in one list
and one in another, by category and by creator; one other account with two units
is enough to create the last collection, to mint in it, list, buy back and hand it
over, to buy the script's token and to list it again; addresses of collections are
interchangeable, so they are reduced by symmetry. In `sender` the three calls make
at most four attempts, so `MaxNonce` never stops one; two calls of the service race
for a nonce with each other and with a retry. The contract runs switch deadlock checking
off since the bounded wallets really run out, `contains` since it terminates,
`backend`, `sender` and `script` since all requests, calls and the script end, and `lifecycle` since the process does. In
`lifecycle` three disconnects take the handlers from one to eight, with timers of
different disconnects pending together.

Fairness. The contract's safety runs use none. `FairSpec` (only for `settlement`)
lets blocks come and users call as long as something can be called, so that the
violation is not mere idleness. `ContainsIgnoreCase` is a function that runs once
called. `CollectionBackend` assumes weak fairness of each handler (the event loop)
and of mining what the node took; `tx.wait()` has no timeout, so without the
latter a request may wait for ever. Nothing is assumed of failures, reconnects or
restarts. `ServerLifecycle` assumes that `mongoose.connect` settles (it times out),
that timers fire, that callbacks run and that a request is answered or hangs; nothing
of answers, of signals, of the database, or of a client at the other end of a
connection. So `ShutdownCompletes` excepts sockets and hanging requests, and says that
nothing else holds up a shutdown. `TransactionSender` assumes of each call that
the event loop runs it, that its timer fires and that web3 settles (it has a
time-out of its own); nothing of the node or of mining.

### What the violations show

- `resale`: `collectionTokenIds` gets an entry per listing, the result of
  `fetchUserPurchasedItems` one per purchase. After a bought token is listed again
  the loop writes past the end and the call reverts for that buyer, until the same buyer
  buys the token again and the count fits.
- `lost_bid`: `createAuction` asks only for `item.seller`, which a sale leaves in
  place. A former seller can auction a sold token, a bid is taken, and the next
  listing overwrites the item with the bid in it.
- `settlement`: nothing ends an auction; token and highest bid stay in the contract.
- `failed_create`: "Failed to create collection" is also the answer when the
  contract is on chain, after a lost answer, a failed save or, with no failure at
  all, for a name of blanks.

### What else the models show

- A retry can execute a call twice: `ExecutionsExplained` allows it after a lost
  answer or a time-out, and only then. Callers of `sendTransaction` must be able to
  bear that, or find the first transaction before they send another.
- With `RETRY_ATTEMPTS` unset, `sendTransaction` resolves with `undefined` and has
  sent nothing; `ResolvedMeansExecuted` excepts that case.
- `interact.js` calls the last collection of the marketplace its own. When another
  account created it, the first mint throws; when it was handed over with tokens in
  it, ids 1 and 2 are not the script's. Every exception is caught, so the process
  exits with 0 whatever happened.
- When another account buys the script's token and lists it again, the script's buyer
  still gets it, but `fetchUserPurchasedItems` reverts (the finding of `resale`).

Limits of properties that hold. `BidderNotOvercredited` is an inequality because of
`lost_bid`; `BidsLostOnlyByRelisting` says that the sequence of `lost_bid` is the only
one: paid and booked ether part in no other step than an owner's listing of a token
that was put to auction without being in escrow. `ItemURIMatches` excepts tokens listed
from inside their own mint's hook, which keep an empty URI. `RequestsAnswered` is
stated for the two values of `NODE_ENV` that the error middleware knows; the run also
starts the server with another one, where failing requests hang.
`ResolvedMeansExecuted` excepts a limit of 0 attempts.

## 4. Proofs

The theorems hold for all users, collections, tokens, prices, requests and
strings, from the named assumptions `AddressAssumption`, `MarketAssumption`,
`FiniteAssumption`, `ScriptAssumption`, `StringsAssumption`, `BackendAssumption`,
`LifecycleAssumption` and `SenderAssumption`. They say that the marketplace, users
and the zero address differ, that bounds are numbers, and that there are finitely
many users and collections (without which sums of ether mean nothing); of the
script's two accounts, that they are not among the others, that the seller accepts
ether, and that both can pay. Inductive invariants that are only steps of a proof
stand in the proof modules; the specifications hold the properties.

### Facts about data

`DataTheorems` holds the inductions that the other modules need. The provers cannot
instantiate a theorem that takes a predicate, so induction is stated about sets:
a set of naturals with 0 and closed under successor is `Nat` (`NaturalInduction`,
from the least element of a nonempty set), and a set of subsets that contains every
subset whose smaller ones it contains has them all (`SubsetInduction`). A recursive
definition in TLA+ is a choice, about which nothing is known until a function that
satisfies the equation is shown to exist: `RecursionExists` does it for functions of
naturals, `FoldExists` for folds over the subsets of a finite set, `LoopExists` for
loops over lists. On these rest the laws of `SumFunction` (a sum changes by as much as
its one changed term, is monotone, additive, extends to larger sets) and, in
`RegistryProofs`, one lemma per loop of the contract that gives its values prefix by
prefix.

### The contracts

- `TypeCorrect`: one lemma per group of actions.
- `EscrowCustodyAlways`, by `CustodyInv`. "On sale implies in escrow" is not
  inductive: somebody with an approval on the escrowed token could move it, and a
  mint could give out an id that is in escrow. `CustodyInv` adds that tokens in
  escrow carry no approval (every transfer clears it and the marketplace never
  approves) and that ids above the counter belong to nobody.
- `AtomicSwapAlways`: lemma `OnlySaleReleases` shows that only `createMarketSale`
  takes a token from the marketplace; what it pays follows.
- `AuctionedItemLockedAlways`: from custody, a second listing is impossible in
  escrow, and a sale refuses an auction.
- `BidderNotOvercreditedAlways`, `TokenIndexCompleteAlways`: inductive with types.
- `BidsLostOnlyByRelistingAlways`: a bid adds to the bidder's side of the books what it
  adds to `bidsPaid`, and moves what it displaces from the item to `pendingReturns`, also
  when bidder and displaced are one (`BidBooksStep`). A listing erases the item's bid;
  that there was an auction then is `BidIsAuction` (a standing bid belongs to an
  auction, since only a listing clears either), and that the token was not on sale
  follows from custody, because its owner is not the marketplace.
- `NothingPaidOutAlways`: every function changes one or two
  terms of the sums by what it moves. A bid changes one entry of one token's book, so
  the sum over tokens changes by the change of the sum over users.
- `SolventAlways`: not inductive on its own, and it is not proved by induction. By
  `NothingPaidOut` the balance covers all bids and offers ever paid; by
  `BidderNotOvercredited`, summed over users, credits and the standing bid of a token
  stay within the bids paid for it. That a standing bid has a bidder, who is in that
  sum, is `UnbidIsZero`.
- `RegistryConsistentAlways`: appending to a list in which an element occurs
  once, or not at all, is treated in lemmas; a fresh address is in no list since
  `isActive` coincides with `deployed`.
- `SupplySyncedAlways`, by `SupplyInv`: contracts that do not exist yet have
  minted nothing.
- `ItemURIMatchesAlways`, by `URIInv`: a token has no URI before it is minted or
  while its mint waits for the receiver, and no token is in two waiting mints; so the
  URI that a returning mint writes cannot have been copied before.
- `EscrowRefinement`: `Spec => Abstract!Spec`. One lemma per kind of step maps it to
  an abstract step or a stutter. `CustodyInv` is needed throughout: without it a
  listing would not start from "held", and a transfer could take a token out of
  escrow. Bids need types only, listings and sales what custody says.

### The views

`LiveListings` (what is on sale has a seller and a recorded collection, and that has an
existing category) is inductive; with `TokenIndexComplete` and `RegistryConsistent` it
carries the first two.

- `FloorPriceLowestAlways`: the running minimum of the loop is, for every prefix,
  `type(uint256).max` or a price asked in it, and no price asked in it is lower; the
  index is complete, so at the end no price asked anywhere in the collection is.
- `SearchByPriceAlways`: the filling loop writes exactly the elements that pass the
  test, and the floor price is what `FloorPriceLowest` says.
- `PurchasesAllFoundAlways`, by `PurchaseInv`. The number of purchases and the number
  of entries found are two counters that different functions move: a listing adds an
  entry, a sale a purchase. A sale of a token that was bought before would make up for
  nothing unless it had been listed again; so the invariant counts, per bought token,
  its listings except the one that is on sale now, and says that their sum is at least
  the number of purchases. The loops find the sum of all listings of bought tokens,
  since no collection is listed twice.
- `CorrectAlways`, `NoPanicAlways` of `_containsIgnoreCase`: the loop invariant says
  that no earlier offset matches and how much of the current one does.

### The script

- `ScriptUsesMarket`: `ScriptSpec => Spec`. Each line of the script, if it does
  anything to the contracts, is a call that the contract model lets a user make, so
  all theorems about `Spec` hold beside the script. `ScriptTradesInEscrow` is the
  refinement of the abstract escrow, beside the script.
- `SupplyCheckHoldsAlways`, by `OwnInv`: after its first mint the script's account
  owns the chosen collection, whoever created it, and only an owner mints in it or
  hands it on.
- `SwapCompletesAlways`, by `SellerInv`, `BuyerInv` and custody. Lemma `CallEffect`
  says what a call can mean to an account that does not make it: nothing, or that one
  of its items is sold for the price asked. The seller has one item, so it is paid
  once; the buyer has none, and its token, which nobody is approved for, stays.

- `FailureExplainedAlways`. One lemma per line of the script shows what the line needs
  in order not to throw, another group that the others' calls take none of it away.
  What a line needs was done several lines before, so the invariant carries it along
  (`PathInv`): `CreatedInv` (the script's collections are its account's, and empty until
  it mints), `TokenInv` (in a collection of its own the script's tokens are the first
  two, nobody has listed them, and nobody but the marketplace is approved for one),
  `BooksInv` (the buyer has bought one token, and the token on offer is in the lists
  once, unless somebody else bought it before: `BoughtByOther`). The second excuse does
  not go away, as `userPurchases` is never cleared; nor does the first, as the choice
  is made once. From the contracts the argument takes types, custody, the registry, the
  supplies and the token index (`ContractInv`), and `BlankInv`, proved here: a token
  that is not minted is approved to nobody and was never listed, without which a fresh
  token of the script might come with somebody's approval or an old listing.

### The backend

- `CreatedIsRecordedAlways`, `DocsBackedAlways`, `OneCollectionPerRequestAlways`, by
  `BackendInv`: mined blocks are final, a handler at `save` holds the address of
  its own contract, and a request that has not broadcast owns no transaction.
- `ExecutionsExplainedAlways`, `ResolvedMeansExecutedAlways`, by `SenderInv`. What was
  executed is not inductive by itself: a pending transaction may be mined at any
  later time. `SenderInv` therefore speaks of every transaction the node has: it is of
  no later attempt than its call's current one; if of the current one, the call waits
  for it or has returned it; if of an earlier one, it was given up on uninformed or
  reverted. And a loop that still has attempts left is entered.
- `ReconnectScheduledAlways`, by `LifecycleInv`: a disconnect starts a timer only if
  there is a listener, so the invariant adds that a connection that was ever open
  has one.
- `HandlerGrowthAlways`: a disconnect turns every listener into a timer as well, and no
  other step adds to the sum of listeners, timers and a running connect; `Doubled`, a
  recursive function, is unfolded by `RecursionExists`.

Only model-checked: all liveness (`Terminates`, `RequestsAnswered`, `ConnectionHeals`,
`ShutdownCompletes`, `CallsEnd`), which is not within the prover's reach. The other properties of the passing runs are proved.

## 5. Not modelled

- Most lines of the JavaScript files are not code: `nft.service.js`,
  `blockchain.service.js` and `collection.service.js` hold, in comments, twelve copies of
  an older Solidity contract, some 7200 of the repository's 9300 JavaScript lines, and
  `ipfs.service.js` is commented out as a whole. What is modelled is nearly all of the
  two contracts and most of the JavaScript that runs and keeps state.
- The NFT mint API (`nft.service.js`): the route is not mounted; a call would fail
  before it changes anything (`creator()` and the one-argument `mint` are not in the
  contract, the upload helper is commented out, the ethers 5 API is used with ethers 6).
- User model: the file throws when it is loaded (`userSchema` is not defined at line
  154) and nothing loads it. Email service: its constructor reads a configuration key
  that does not exist; formatting and SMTP otherwise.
- `createMarketItem.js` and `createMarketSale.js` read `collectionAddress` where
  `basic.collectionAddress` is meant and stop after creating a collection, an action
  the contract model has.
- Uploads, logging, configuration, deployment: I/O and constants. `routes/index.js`
  requires a route file that is missing; the Collections API is modelled as mounted.
- Of the views, the plain getters, the functions that copy a stored list into their
  result (`fetchCollectionItems`, `fetchCollectionsByCategory`; what is in those lists
  are `TokenIndexComplete` and `RegistryConsistent`), and the statistics that return 0.
- An unchecked `block.timestamp + duration`: the compiler's check is a guard of the
  model, and what it prevents, a wrapped end of an auction, no property describes.
- Reorganisations of the chain, and gas. The loops over all collections and listings
  get more expensive with every listing; the model has no cost.

## 6. Plan

Done, in this order: `NFTCollection`, `CollectionRegistry`, `NFTMarketplace` with
`MarketLedger` and `MarketViews`; `ContainsIgnoreCase`; `CollectionBackend`;
`ServerLifecycle`; `TokenEscrow` and the refinement; `TransactionSender`;
`InteractScript`; the proofs about the contracts, the backend, the process and the
sender; `DataTheorems`, and with it the proofs about ether, views, handlers and the
script; the preconditions of the script's calls, and with them `FailureExplained`;
where bids are lost, exactly; requests that read or hang. Left: the remaining getters of
the views, should one of them come to compute something.
