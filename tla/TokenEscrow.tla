---------------------------- MODULE TokenEscrow ----------------------------
(***************************************************************************)
(* What the marketplace promises to those who trade on it, without saying  *)
(* how: where every token is, and what every account has left to spend.    *)
(*                                                                         *)
(* A token is unminted, held by somebody, in escrow for a seller at a      *)
(* price, or stranded (sent to the marketplace past its listing function). *)
(* The only way out of escrow is a sale, in which the new holder pays the  *)
(* price to the seller in the same step; a token whose escrow is locked by *)
(* an auction has no way out at all, and neither has a stranded one.       *)
(* Accounts lose money to the marketplace by listing, bidding and making   *)
(* offers, and gain some only by selling.  The contracts, with their       *)
(* approvals, hooks and books, implement this (module MarketEscrow).       *)
(***************************************************************************)
EXTENDS Integers

CONSTANTS
  Tokens,   \* all tokens that may ever exist
  People,   \* the accounts that trade
  Amounts,  \* prices and payments
  Fee,      \* what listing a token costs
  Initial   \* what every account starts with

VARIABLES
  place,   \* where every token is
  funds    \* what every account can still spend

vars == <<place, funds>>

Unminted == [at |-> "unminted"]
Stranded == [at |-> "stranded"]
Held(u) == [at |-> "held", by |-> u]
Escrow(s, p, locked) == [at |-> "escrow", seller |-> s, price |-> p, locked |-> locked]

Init ==
  /\ place = [t \in Tokens |-> Unminted]
  /\ funds = [u \in People |-> Initial]

MoveTo(t, where) == place' = [place EXCEPT ![t] = where]

Pay(u, amount) ==
  /\ funds[u] >= amount
  /\ funds' = [funds EXCEPT ![u] = @ - amount]

\* A new token is given to somebody.
Mint(t, u) ==
  /\ place[t] = Unminted
  /\ MoveTo(t, Held(u))
  /\ UNCHANGED funds

\* A token changes hands past the marketplace, for nothing the marketplace knows.
Give(t, u, v) ==
  /\ place[t] = Held(u)
  /\ MoveTo(t, Held(v))
  /\ UNCHANGED funds

\* A token is sent to the marketplace without being listed.
Strand(t, u) ==
  /\ place[t] = Held(u)
  /\ MoveTo(t, Stranded)
  /\ UNCHANGED funds

\* The holder lists a token and pays the fee.
List(t, u, p) ==
  /\ place[t] = Held(u)
  /\ MoveTo(t, Escrow(u, p, FALSE))
  /\ Pay(u, Fee)

\* The seller puts a listed token to auction, from another price.
Auction(t, u, p, q) ==
  /\ place[t] = Escrow(u, p, FALSE)
  /\ MoveTo(t, Escrow(u, q, TRUE))
  /\ UNCHANGED funds

\* Somebody buys a listed token: the price goes to the seller.
Sell(t, u, v, p) ==
  /\ place[t] = Escrow(u, p, FALSE)
  /\ funds[v] >= p
  /\ MoveTo(t, Held(v))
  /\ funds' = [[funds EXCEPT ![v] = @ - p] EXCEPT ![u] = @ + p]

\* A bid or an offer is paid to the marketplace.
Spend(u, amount) ==
  /\ Pay(u, amount)
  /\ UNCHANGED place

Next ==
  \/ \E t \in Tokens, u \in People :
       \/ Mint(t, u)
       \/ Strand(t, u)
       \/ \E v \in People : Give(t, u, v)
       \/ \E p \in Amounts : List(t, u, p)
       \/ \E p, q \in Amounts : Auction(t, u, p, q)
       \/ \E v \in People, p \in Amounts : Sell(t, u, v, p)
  \/ \E u \in People, amount \in Amounts : Spend(u, amount)

Spec == Init /\ [][Next]_vars

============================================================================
