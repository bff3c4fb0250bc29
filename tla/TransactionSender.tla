------------------------- MODULE TransactionSender -------------------------
(***************************************************************************)
(* How the backend sends transactions of its own account and what becomes  *)
(* of them: sendTransaction of src/config/blockchain.js, which retries     *)
(* after every error, and mintNFT and transferNFT of                       *)
(* src/services/blockchain.service.js, which read a nonce and send once.   *)
(* Several calls run at the same time and share the account, hence its     *)
(* nonces.  An action is what happens between two awaits of a call.        *)
(*                                                                         *)
(* The node keeps one transaction per nonce; nonces are counted from 1, so *)
(* they index the sequence slots.  A transaction that is not yet mined may *)
(* be replaced by another one of the same nonce.  What a transaction calls *)
(* is left out; it is told apart by the call and the attempt it is of.     *)
(***************************************************************************)
EXTENDS Integers, Sequences

CONSTANTS
  Calls,      \* the calls made
  Retrying,   \* those of sendTransaction; the others are of the service
  Limits,     \* values of RETRY_ATTEMPTS, 0 also for a variable that is not set
  MaxNonce    \* bound on the nonces the account uses

ASSUME SenderAssumption ==
  /\ Retrying \subseteq Calls
  /\ Limits \subseteq Nat
  /\ MaxNonce \in Nat

VARIABLES
  limit,      \* RETRY_ATTEMPTS of this process
  pc,         \* where every call is
  attempts,   \* attempts of every call that ended in an error
  nonce,      \* the nonce a call is about to use
  slots,      \* the transaction of every nonce that the node has
  mined,      \* how many of them are in a block
  reverted,   \* those of them whose execution failed
  unclear     \* history: attempts that failed although the node took them

vars == <<limit, pc, attempts, nonce, slots, mined, reverted, unclear>>
chain == <<slots, mined, reverted>>

Ended == {"returned", "undefined", "threw"}
Tx == [call : Calls, attempt : Nat]

TypeOK ==
  /\ limit \in Limits
  /\ pc \in [Calls -> {"loop", "nonce", "send", "receipt", "sleep"} \cup Ended]
  /\ attempts \in [Calls -> Nat]
  /\ nonce \in [Calls -> Nat]
  /\ slots \in Seq(Tx)
  /\ mined \in Nat
  /\ reverted \subseteq Nat
  /\ unclear \in [Calls -> SUBSET Nat]

Init ==
  /\ limit \in Limits
  /\ pc = [c \in Calls |-> "loop"]
  /\ attempts = [c \in Calls |-> 0]
  /\ nonce = [c \in Calls |-> 0]
  /\ slots = <<>>
  /\ mined = 0
  /\ reverted = {}
  /\ unclear = [c \in Calls |-> {}]

Goto(c, l) == pc' = [pc EXCEPT ![c] = l]

\* The transaction of a call's current attempt.
current(c) == [call |-> c, attempt |-> attempts[c]]

----------------------------------------------------------------------------
(* The calls *)

\* while (attempts < RETRY_ATTEMPTS); the service has no loop.  A loop that is
\* not entered leaves the function without a value.
enterLoop(c) ==
  /\ pc[c] = "loop"
  /\ Goto(c, IF c \in Retrying /\ ~(attempts[c] < limit) THEN "undefined" ELSE "nonce")
  /\ UNCHANGED <<limit, attempts, nonce, chain, unclear>>

\* The service asks for the number of mined transactions ("latest"); the wallet
\* provider behind sendTransaction takes its cached nonce or the node's next one.
readNonce(c) ==
  /\ pc[c] = "nonce"
  /\ \E k \in 1..(Len(slots) + 1) :
       /\ c \notin Retrying => k = mined + 1
       /\ nonce' = [nonce EXCEPT ![c] = k]
  /\ Goto(c, "send")
  /\ UNCHANGED <<limit, attempts, chain, unclear>>

\* The catch blocks.  sendTransaction counts the attempt and throws the error
\* once the limit is reached, else it waits; the service throws.
handleError_Swallowed(c) ==
  /\ attempts' = [attempts EXCEPT ![c] = @ + 1]
  /\ Goto(c, IF c \notin Retrying THEN "threw" ELSE "sleep")

handleError_NotCounted(c) ==
  /\ attempts' = attempts
  /\ Goto(c, IF c \notin Retrying \/ attempts[c] + 1 >= limit THEN "threw" ELSE "sleep")

handleError(c) ==
  /\ attempts' = [attempts EXCEPT ![c] = @ + 1]
  /\ Goto(c, IF c \notin Retrying \/ attempts[c] + 1 >= limit THEN "threw" ELSE "sleep")

\* The setTimeout between two attempts.
wake(c) ==
  /\ pc[c] = "sleep"
  /\ Goto(c, "loop")
  /\ UNCHANGED <<limit, attempts, nonce, chain, unclear>>

\* The node refuses the transaction: its nonce is used, another transaction has
\* it, or for any other reason; or nothing could be read or sent.
refused(c) ==
  /\ pc[c] \in {"nonce", "send"}
  /\ handleError(c)
  /\ UNCHANGED <<limit, nonce, chain, unclear>>

\* The node takes the transaction, in the place of a pending one that has the
\* same nonce or as the account's next.
place(c) ==
  /\ pc[c] = "send"
  /\ nonce[c] \in (mined + 1)..(Len(slots) + 1)
  /\ nonce[c] <= MaxNonce
  /\ slots' = IF nonce[c] > Len(slots) THEN Append(slots, current(c))
              ELSE [slots EXCEPT ![nonce[c]] = current(c)]
  /\ UNCHANGED <<limit, nonce, mined, reverted>>

taken(c) ==
  /\ place(c)
  /\ Goto(c, "receipt")
  /\ UNCHANGED <<attempts, unclear>>

\* An error for a transaction that the node has.
uncertain(c) ==
  /\ unclear' = [unclear EXCEPT ![c] = @ \cup {attempts[c]}]
  /\ handleError(c)

\* It is taken but the answer is lost.
answerLost(c) == place(c) /\ uncertain(c)

\* Mined for good, with success or without.
minedAs(c, ok) ==
  \E i \in 1..mined : slots[i] = current(c) /\ (ok <=> i \notin reverted)

receiptOk_LoopsOn(c) ==
  /\ pc[c] = "receipt"
  /\ minedAs(c, TRUE)
  /\ Goto(c, "loop")
  /\ UNCHANGED <<limit, attempts, nonce, chain, unclear>>

\* web3 found the receipt: the call returns it.
receiptOk(c) ==
  /\ pc[c] = "receipt"
  /\ minedAs(c, TRUE)
  /\ Goto(c, "returned")
  /\ UNCHANGED <<limit, attempts, nonce, chain, unclear>>

\* The transaction reverted: web3 throws.
receiptReverted(c) ==
  /\ pc[c] = "receipt"
  /\ minedAs(c, FALSE)
  /\ handleError(c)
  /\ UNCHANGED <<limit, nonce, chain, unclear>>

\* web3 gives up waiting, or loses the node while it waits.
timeout(c) ==
  /\ pc[c] = "receipt"
  /\ uncertain(c)
  /\ UNCHANGED <<limit, nonce, chain>>

----------------------------------------------------------------------------
(* The chain *)

mine ==
  /\ mined < Len(slots)
  /\ mined' = mined + 1
  /\ reverted' \in {reverted, reverted \cup {mined + 1}}
  /\ UNCHANGED <<limit, pc, attempts, nonce, slots, unclear>>

submit(c) == refused(c) \/ taken(c) \/ answerLost(c)
settle(c) == receiptOk(c) \/ receiptReverted(c) \/ timeout(c)

Step(c) == enterLoop(c) \/ readNonce(c) \/ submit(c) \/ settle(c) \/ wake(c)

Next == mine \/ \E c \in Calls : Step(c)

\* The event loop runs what is ready, timers fire, and web3 settles a call: with
\* a receipt, with an error or with its own time-out.
Spec == Init /\ [][Next]_vars /\ \A c \in Calls : WF_vars(Step(c))

----------------------------------------------------------------------------

\* No attempt has two transactions.
AttemptsApart ==
  \A i, j \in DOMAIN slots : slots[i] = slots[j] => i = j

\* What was executed is accounted for: it is the attempt whose receipt the call
\* returned or still waits for, or an attempt that the call gave up on although
\* the node had it; and each of them once.  So a refused or reverted attempt is
\* retried safely, and a call without a lost answer or a time-out executes at
\* most once, whatever nonces it races for (sendTransaction, mintNFT,
\* transferNFT).
ExecutionsExplained ==
  /\ AttemptsApart
  /\ \A i \in (1..mined) \ reverted :
       LET t == slots[i]
       IN \/ t.attempt \in unclear[t.call]
          \/ t = current(t.call) /\ pc[t.call] \in {"receipt", "returned"}

\* A call that resolves has its own transaction in a block, executed, and no
\* other call's that took its nonce; unless RETRY_ATTEMPTS is 0 or not set, when
\* sendTransaction resolves without having sent anything.
ResolvedMeansExecuted ==
  \A c \in Calls :
    pc[c] = "returned" \/ (pc[c] = "undefined" /\ limit > 0) => minedAs(c, TRUE)

\* Every call ends, however often it is refused, replaced or left without answer.
CallsEnd == \A c \in Calls : <>(pc[c] \in Ended)

============================================================================
