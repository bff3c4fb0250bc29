---------------------- MODULE CollectionBackendProofs ----------------------
(***************************************************************************)
(* What the collections API records agrees with the chain, for any number  *)
(* of concurrent requests and any failures.                                *)
(***************************************************************************)
EXTENDS CollectionBackend, FiniteSetTheorems, TLAPS

----------------------------------------------------------------------------
(* The inductive invariant *)

\* What makes CreatedIsRecorded, DocsBacked and OneCollectionPerRequest inductive:
\* mined blocks are final, so a handler that read its receipt keeps a valid
\* address; and a request that has not broadcast owns no transaction, so it
\* cannot get a second one.
SavesReceipt == \A r \in Requests : pc[r] = "save" => address[r] \in CreatedBy(r)

SuccessStored == \A r \in Requests : status[r] = 201 => \E d \in docs : d.request = r

SentOnce ==
  /\ \A k, l \in DOMAIN txs : txs[k] = txs[l] => k = l
  /\ \A r \in Requests : pc[r] \in {"idle", "populate", "send"} =>
       \A k \in DOMAIN txs : txs[k] # r

BackendInv ==
  /\ Len(mined) <= Len(txs)
  /\ \A d \in docs : d.contractAddress \in CreatedBy(d.request)
  /\ SavesReceipt /\ SuccessStored /\ SentOnce

\* The end of a request keeps the types.
LEMMA GoToType ==
  ASSUME TypeOK, NEW r \in Requests, NEW where \in InFlight \cup {"done"}, goTo(r, where)
  PROVE  /\ pc' \in [Requests -> InFlight \cup {"idle", "done", "lost"}]
         /\ status' \in [Requests -> {0, 200, 201, 400, 500}]
BY DEF TypeOK, goTo, InFlight

\* An answer keeps the types of the handler and of its status.
LEMMA RespondType ==
  ASSUME TypeOK, NEW r \in Requests, NEW code \in {200, 201, 400, 500}, respond(r, code)
  PROVE  /\ pc' \in [Requests -> InFlight \cup {"idle", "done", "lost"}]
         /\ status' \in [Requests -> {0, 200, 201, 400, 500}]
BY DEF TypeOK, respond, InFlight

\* So does the error middleware.
LEMMA ErrorType ==
  ASSUME TypeOK, NEW r \in Requests, NEW code \in {400, 500}, errorMiddleware(r, code)
  PROVE  /\ pc' \in [Requests -> InFlight \cup {"idle", "done", "lost"}]
         /\ status' \in [Requests -> {0, 200, 201, 400, 500}]
BY GoToType, RespondType DEF errorMiddleware

\* The pool changes at one position, behind the transactions that are mined.
LEMMA AcceptFacts ==
  ASSUME TypeOK, Len(mined) <= Len(txs), NEW r \in Requests, accept(r)
  PROVE  /\ txs' \in Seq(Requests)
         /\ Len(txs) <= Len(txs')
         /\ \E p \in Nat :
              /\ p \in 1..Len(txs') /\ Len(mined) < p
              /\ txs'[p] = r
              /\ \A k \in 1..Len(txs') : k # p => k \in 1..Len(txs) /\ txs'[k] = txs[k]
<1>1. txs \in Seq(Requests) /\ nonce[r] \in Nat /\ Len(txs) \in Nat /\ Len(mined) \in Nat
  BY DEF TypeOK
<1>2. CASE nonce[r] = Len(txs) /\ txs' = Append(txs, r)
  <2>1. /\ txs' \in Seq(Requests)
        /\ Len(txs') = Len(txs) + 1
        /\ \A k \in 1..Len(txs) : txs'[k] = txs[k]
        /\ txs'[Len(txs) + 1] = r
    BY <1>1, <1>2
  <2> QED BY <1>1, <2>1
<1>3. CASE /\ Len(mined) <= nonce[r]
           /\ nonce[r] < Len(txs)
           /\ txs' = [txs EXCEPT ![nonce[r] + 1] = r]
  <2>1. /\ txs' \in Seq(Requests)
        /\ Len(txs') = Len(txs)
        /\ \A k \in 1..Len(txs) : k # nonce[r] + 1 => txs'[k] = txs[k]
        /\ txs'[nonce[r] + 1] = r
    BY <1>1, <1>3
  <2>2. nonce[r] + 1 \in 1..Len(txs') /\ Len(mined) < nonce[r] + 1 /\ nonce[r] + 1 \in Nat
    BY <1>1, <1>3, <2>1
  <2> QED BY <1>1, <2>1, <2>2
<1> QED BY <1>2, <1>3 DEF accept

\* Every action keeps the types.
LEMMA TypeStep ==
  ASSUME TypeOK, Len(mined) <= Len(txs), [Next]_vars
  PROVE  TypeOK'
<1> USE DEF chainVars, dbVars
<1>1. ASSUME NEW r \in Requests, handle(r) \/ faults(r)
      PROVE  TypeOK'
  <2>1. CASE receive(r)
    <3>1. \/ goTo(r, "populate")
          \/ errorMiddleware(r, 400)
      BY <2>1 DEF receive
    <3>2. /\ pc' \in [Requests -> InFlight \cup {"idle", "done", "lost"}]
          /\ status' \in [Requests -> {0, 200, 201, 400, 500}]
      BY <3>1, GoToType, ErrorType DEF InFlight
    <3> QED BY <2>1, <3>2 DEF receive, TypeOK
  <2>2. CASE populateTransaction(r)
    <3>1. nonce' \in [Requests -> Nat]
      BY <2>2 DEF populateTransaction, TypeOK
    <3> QED BY <2>2, <3>1, GoToType DEF populateTransaction, TypeOK, InFlight
  <2>3. CASE broadcast(r)
    <3>1. accept(r) /\ goTo(r, "wait")
      BY <2>3 DEF broadcast
    <3>2. txs' \in Seq(Requests)
      BY <3>1, AcceptFacts
    <3>3. /\ pc' \in [Requests -> InFlight \cup {"idle", "done", "lost"}]
          /\ status' \in [Requests -> {0, 200, 201, 400, 500}]
      BY <3>1, GoToType DEF InFlight
    <3> QED BY <2>3, <3>2, <3>3 DEF broadcast, TypeOK
  <2>4. CASE broadcastUnanswered(r)
    <3>1. accept(r) /\ errorMiddleware(r, 500)
      BY <2>4 DEF broadcastUnanswered, answerLost
    <3>2. txs' \in Seq(Requests)
      BY <3>1, AcceptFacts
    <3>3. /\ pc' \in [Requests -> InFlight \cup {"idle", "done", "lost"}]
          /\ status' \in [Requests -> {0, 200, 201, 400, 500}]
      BY <3>1, ErrorType
    <3> QED BY <2>4, <3>2, <3>3 DEF broadcastUnanswered, TypeOK
  <2>5. CASE broadcastRefused(r)
    <3>1. errorMiddleware(r, 500)
      BY <2>5 DEF broadcastRefused
    <3>2. /\ pc' \in [Requests -> InFlight \cup {"idle", "done", "lost"}]
          /\ status' \in [Requests -> {0, 200, 201, 400, 500}]
      BY <3>1, ErrorType
    <3> QED BY <2>5, <3>2 DEF broadcastRefused, TypeOK
  <2>6. CASE rpcError(r)
    <3>1. errorMiddleware(r, 500)
      BY <2>6 DEF rpcError
    <3>2. /\ pc' \in [Requests -> InFlight \cup {"idle", "done", "lost"}]
          /\ status' \in [Requests -> {0, 200, 201, 400, 500}]
      BY <3>1, ErrorType
    <3> QED BY <2>6, <3>2 DEF rpcError, TypeOK
  <2>7. CASE wait(r)
    <3>1. \/ address' = [address EXCEPT ![r] = nonce[r] + 1] /\ goTo(r, "save")
          \/ UNCHANGED address /\ errorMiddleware(r, 500)
      BY <2>7 DEF wait
    <3>2. address' \in [Requests -> Nat]
      <4>1. address' = [address EXCEPT ![r] = nonce[r] + 1] \/ address' = address
        BY <3>1
      <4>2. nonce[r] + 1 \in Nat /\ address \in [Requests -> Nat]
        BY DEF TypeOK
      <4> QED BY <4>1, <4>2
    <3>3. /\ pc' \in [Requests -> InFlight \cup {"idle", "done", "lost"}]
          /\ status' \in [Requests -> {0, 200, 201, 400, 500}]
      BY <3>1, GoToType, ErrorType DEF InFlight
    <3> QED BY <2>7, <3>2, <3>3 DEF wait, TypeOK
  <2>8. CASE save(r)
    <3>1. docs' \subseteq [contractAddress : Nat, request : Requests]
      BY <2>8 DEF save, store, TypeOK
    <3>2. respond(r, 201)
      BY <2>8 DEF save
    <3>3. /\ pc' \in [Requests -> InFlight \cup {"idle", "done", "lost"}]
          /\ status' \in [Requests -> {0, 200, 201, 400, 500}]
      BY <3>2, RespondType
    <3> QED BY <2>8, <3>1, <3>3 DEF save, TypeOK
  <2>9. CASE saveRejected(r)
    <3>1. errorMiddleware(r, 500)
      BY <2>9 DEF saveRejected, saveFailed
    <3>2. /\ pc' \in [Requests -> InFlight \cup {"idle", "done", "lost"}]
          /\ status' \in [Requests -> {0, 200, 201, 400, 500}]
      BY <3>1, ErrorType
    <3> QED BY <2>9, <3>2 DEF saveRejected, TypeOK
  <2>10. CASE saveUnanswered(r)
    <3>1. docs' \subseteq [contractAddress : Nat, request : Requests]
      BY <2>10 DEF saveUnanswered, store, TypeOK
    <3>2. errorMiddleware(r, 500)
      BY <2>10 DEF saveUnanswered, saveFailed
    <3>3. /\ pc' \in [Requests -> InFlight \cup {"idle", "done", "lost"}]
          /\ status' \in [Requests -> {0, 200, 201, 400, 500}]
      BY <3>2, ErrorType
    <3> QED BY <2>10, <3>1, <3>3 DEF saveUnanswered, TypeOK
  <2>11. CASE getAllCollections(r) \/ find(r)
    <3>1. goTo(r, "find") \/ respond(r, 200) \/ errorMiddleware(r, 500)
      BY <2>11 DEF getAllCollections, find
    <3>2. /\ pc' \in [Requests -> InFlight \cup {"idle", "done", "lost"}]
          /\ status' \in [Requests -> {0, 200, 201, 400, 500}]
      BY <3>1, GoToType, RespondType, ErrorType DEF InFlight
    <3> QED BY <2>11, <3>2 DEF getAllCollections, find, TypeOK
  <2> QED BY <1>1, <2>1, <2>2, <2>3, <2>4, <2>5, <2>6, <2>7, <2>8, <2>9, <2>10, <2>11
          DEF handle, faults
<1>2. CASE mineNext
  <2>1. mined' \in Seq({"created", "silent", "reverted"})
    BY <1>2 DEF mineNext, mine, TypeOK
  <2> QED BY <1>2, <2>1 DEF mineNext, mine, TypeOK
<1>3. CASE disconnected \/ connect
  BY <1>3 DEF disconnected, connect, TypeOK
<1>4. CASE connectFails \/ SIGINT
  <2>1. pc' \in [Requests -> InFlight \cup {"idle", "done", "lost"}]
    BY <1>4 DEF connectFails, SIGINT, exit, TypeOK
  <2>2. running' \in BOOLEAN
    BY <1>4 DEF connectFails, SIGINT, exit
  <2> QED BY <1>4, <2>1, <2>2 DEF connectFails, SIGINT, TypeOK
<1>5. CASE restart
  BY <1>5 DEF restart, TypeOK
<1>6. CASE UNCHANGED vars
  BY <1>6 DEF vars, TypeOK
<1> QED BY <1>1, <1>2, <1>3, <1>4, <1>5, <1>6 DEF Next

----------------------------------------------------------------------------

\* Every step keeps mined blocks, and mines only what is in the pool.
LEMMA ChainStep ==
  ASSUME TypeOK, Len(mined) <= Len(txs), [Next]_vars
  PROVE  /\ Len(mined') <= Len(txs')
         /\ \A k \in DOMAIN mined : /\ k \in DOMAIN mined'
                                   /\ mined'[k] = mined[k]
                                   /\ txs'[k] = txs[k]
<1> USE DEF chainVars, dbVars
<1>0. /\ Len(mined) \in Nat /\ Len(txs) \in Nat
      /\ DOMAIN mined = 1..Len(mined)
  BY DEF TypeOK
<1>1. CASE UNCHANGED <<txs, mined>>
  BY <1>0, <1>1
<1>2. ASSUME NEW r \in Requests, accept(r), UNCHANGED mined
      PROVE  /\ Len(mined') <= Len(txs')
             /\ \A k \in DOMAIN mined : txs'[k] = txs[k]
  <2>1. PICK p \in Nat :
          /\ p \in 1..Len(txs') /\ Len(mined) < p
          /\ \A k \in 1..Len(txs') : k # p => k \in 1..Len(txs) /\ txs'[k] = txs[k]
    BY <1>2, AcceptFacts
  <2>2. Len(txs') \in Nat /\ Len(txs) <= Len(txs')
    BY <1>2, AcceptFacts
  <2> QED BY <1>0, <1>2, <2>1, <2>2
<1>3. CASE mineNext
  <2>1. PICK o \in {"created", "silent", "reverted"} : mine(o)
    BY <1>3 DEF mineNext
  <2>2. /\ mined' = Append(mined, o) /\ UNCHANGED txs /\ Len(mined) < Len(txs)
        /\ mined \in Seq({"created", "silent", "reverted"})
    BY <2>1 DEF mine, TypeOK
  <2> QED BY <1>0, <2>2
<1>4. ASSUME NEW r \in Requests, handle(r) \/ faults(r)
      PROVE  UNCHANGED <<txs, mined>> \/ (accept(r) /\ UNCHANGED mined)
  BY <1>4 DEF handle, faults, receive, populateTransaction, broadcast,
       broadcastUnanswered, broadcastRefused, rpcError, wait, save, saveRejected,
       saveUnanswered, getAllCollections, find
<1>5. CASE disconnected \/ connect \/ connectFails \/ SIGINT \/ restart \/ UNCHANGED vars
  BY <1>1, <1>5 DEF disconnected, connect, connectFails, SIGINT, restart, vars
<1> QED BY <1>1, <1>2, <1>3, <1>4, <1>5 DEF Next

\* A collection on chain stays there.
LEMMA CreatedStays ==
  ASSUME TypeOK, Len(mined) <= Len(txs), [Next]_vars, NEW r, NEW k \in CreatedBy(r)
  PROVE  k \in CreatedBy(r)'
BY ChainStep DEF CreatedBy

\* A failed request is over, with the code of its error or with no answer.
LEMMA ErrorFacts ==
  ASSUME NEW r \in Requests, NEW code, errorMiddleware(r, code)
  PROVE  /\ pc' = [pc EXCEPT ![r] = "done"]
         /\ status' = status \/ status' = [status EXCEPT ![r] = code]
BY DEF errorMiddleware, respond, goTo

\* Where the handler of a request goes: it is about to broadcast only if it has
\* not done so before, and saves only with its own receipt.
LEMMA PcStep ==
  ASSUME TypeOK, NEW r \in Requests, handle(r) \/ faults(r)
  PROVE  \/ pc' = [pc EXCEPT ![r] = "done"]
         \/ pc' = [pc EXCEPT ![r] = "populate"] /\ pc[r] = "idle"
         \/ pc' = [pc EXCEPT ![r] = "send"] /\ pc[r] = "populate"
         \/ pc' = [pc EXCEPT ![r] = "wait"] \/ pc' = [pc EXCEPT ![r] = "find"]
         \/ pc' = [pc EXCEPT ![r] = "save"] /\ wait(r) /\ ownReceipt(r)
<1>1. CASE receive(r)
  <2>1. CASE goTo(r, "populate")
    BY <1>1, <2>1 DEF receive, At, goTo
  <2>2. CASE errorMiddleware(r, 400)
    BY <2>2, ErrorFacts
  <2> QED BY <1>1, <2>1, <2>2 DEF receive
<1>2. CASE populateTransaction(r)
  BY <1>2 DEF populateTransaction, At, goTo
<1>3. CASE broadcast(r)
  BY <1>3 DEF broadcast, goTo
<1>4. CASE errorMiddleware(r, 500)
  BY <1>4, ErrorFacts
<1>5. CASE wait(r)
  <2>1. CASE ownReceipt(r) /\ goTo(r, "save")
    BY <1>5, <2>1 DEF goTo
  <2> QED BY <1>4, <1>5, <2>1 DEF wait
<1>6. CASE save(r) \/ respond(r, 200)
  BY <1>6 DEF save, respond
<1>7. CASE goTo(r, "find")
  BY <1>7 DEF goTo
<1> QED BY <1>1, <1>2, <1>3, <1>4, <1>5, <1>6, <1>7
        DEF handle, faults, broadcastUnanswered, answerLost, broadcastRefused,
            rpcError, saveRejected, saveFailed, saveUnanswered, getAllCollections, find

\* An address changes only when the receipt is read.
LEMMA AddressStep ==
  ASSUME TypeOK, NEW r \in Requests, handle(r) \/ faults(r)
  PROVE  \/ UNCHANGED address
         \/ pc[r] = "wait" /\ wait(r) /\ address' = [address EXCEPT ![r] = nonce[r] + 1]
BY DEF handle, faults, receive, populateTransaction, broadcast, broadcastUnanswered,
       broadcastRefused, rpcError, wait, save, saveRejected, saveUnanswered,
       getAllCollections, find, At

\* A document is added only for a request that saves.
LEMMA DocsStep ==
  ASSUME TypeOK, NEW r \in Requests, handle(r) \/ faults(r)
  PROVE  \/ UNCHANGED docs
         \/ /\ pc[r] = "save"
            /\ docs' = docs \cup {[contractAddress |-> address[r], request |-> r]}
BY DEF handle, faults, receive, populateTransaction, broadcast, broadcastUnanswered,
       broadcastRefused, rpcError, wait, save, saveRejected, saveUnanswered,
       getAllCollections, find, store, At,
       dbVars

\* 201 is answered only by the step that stores the document.
LEMMA StatusStep ==
  ASSUME TypeOK, NEW r \in Requests, handle(r) \/ faults(r)
  PROVE  \/ status' = status
         \/ status' = [status EXCEPT ![r] = 200]
         \/ status' = [status EXCEPT ![r] = 400]
         \/ status' = [status EXCEPT ![r] = 500]
         \/ /\ status' = [status EXCEPT ![r] = 201]
            /\ docs' = docs \cup {[contractAddress |-> address[r], request |-> r]}
<1>1. CASE receive(r)
  <2>1. CASE goTo(r, "populate")
    BY <2>1 DEF goTo
  <2>2. CASE errorMiddleware(r, 400)
    BY <2>2, ErrorFacts
  <2> QED BY <1>1, <2>1, <2>2 DEF receive
<1>2. CASE \E where : goTo(r, where)
  BY <1>2 DEF goTo
<1>3. CASE errorMiddleware(r, 500)
  BY <1>3, ErrorFacts
<1>4. CASE save(r) \/ respond(r, 200)
  BY <1>4 DEF save, respond, store
<1> QED BY <1>1, <1>2, <1>3, <1>4
        DEF handle, faults, populateTransaction, broadcast, broadcastUnanswered,
            answerLost, broadcastRefused, rpcError, wait, saveRejected, saveFailed,
            saveUnanswered, getAllCollections, find

\* The pool changes only when a request broadcasts, which it does once.
LEMMA PoolStep ==
  ASSUME TypeOK, NEW r \in Requests, handle(r) \/ faults(r)
  PROVE  \/ UNCHANGED txs
         \/ pc[r] = "send" /\ accept(r) /\ pc' \in {[pc EXCEPT ![r] = "wait"],
                                                 [pc EXCEPT ![r] = "done"]}
<1>1. CASE broadcast(r)
  BY <1>1 DEF broadcast, At, goTo
<1>2. CASE broadcastUnanswered(r)
  BY <1>2, ErrorFacts DEF broadcastUnanswered, answerLost, At
<1> QED BY <1>1, <1>2
        DEF handle, faults, receive, populateTransaction, broadcastRefused, rpcError,
            wait, save, saveRejected, saveUnanswered, getAllCollections, find, chainVars

----------------------------------------------------------------------------

\* A step of a request's handler preserves the invariant.
LEMMA HandlerInv ==
  ASSUME TypeOK, BackendInv, [Next]_vars, NEW r \in Requests, handle(r) \/ faults(r)
  PROVE  BackendInv'
<1>0. /\ pc \in [Requests -> InFlight \cup {"idle", "done", "lost"}]
      /\ address \in [Requests -> Nat]
      /\ status \in [Requests -> {0, 200, 201, 400, 500}]
      /\ txs \in Seq(Requests) /\ Len(txs) \in Nat /\ DOMAIN txs = 1..Len(txs)
      /\ mined \in Seq({"created", "silent", "reverted"}) /\ Len(mined) \in Nat
      /\ DOMAIN mined = 1..Len(mined)
      /\ nonce \in [Requests -> Nat]
      /\ Len(mined) <= Len(txs)
  BY DEF TypeOK, BackendInv
<1>pc. /\ \A q \in Requests \ {r} : pc'[q] = pc[q]
       /\ \/ pc'[r] \in {"done", "wait", "find"}
          \/ pc'[r] = "populate" /\ pc[r] = "idle"
          \/ pc'[r] = "send" /\ pc[r] = "populate"
          \/ pc'[r] = "save" /\ wait(r) /\ ownReceipt(r)
  <2>1. \/ pc' = [pc EXCEPT ![r] = "done"]
        \/ pc' = [pc EXCEPT ![r] = "populate"] /\ pc[r] = "idle"
        \/ pc' = [pc EXCEPT ![r] = "send"] /\ pc[r] = "populate"
        \/ pc' = [pc EXCEPT ![r] = "wait"] \/ pc' = [pc EXCEPT ![r] = "find"]
        \/ pc' = [pc EXCEPT ![r] = "save"] /\ wait(r) /\ ownReceipt(r)
    BY PcStep
  <2> QED BY <1>0, <2>1
<1>ad. \A q \in Requests \ {r} : address'[q] = address[q]
  <2>1. address' = address \/ address' = [address EXCEPT ![r] = nonce[r] + 1]
    BY AddressStep
  <2> QED BY <1>0, <2>1
<1>st. \A q \in Requests : status'[q] = 201 =>
         \/ status[q] = 201
         \/ q = r /\ docs' = docs \cup {[contractAddress |-> address[r], request |-> r]}
  <2>1. \/ status' = status
        \/ status' = [status EXCEPT ![r] = 200]
        \/ status' = [status EXCEPT ![r] = 400]
        \/ status' = [status EXCEPT ![r] = 500]
        \/ /\ status' = [status EXCEPT ![r] = 201]
           /\ docs' = docs \cup {[contractAddress |-> address[r], request |-> r]}
    BY StatusStep
  <2> QED BY <1>0, <2>1
<1>1. Len(mined') <= Len(txs')
  BY <1>0, ChainStep
<1>2. \A d \in docs' : d.contractAddress \in CreatedBy(d.request)'
  <2>1. ASSUME NEW d \in docs
        PROVE  d.contractAddress \in CreatedBy(d.request)'
    BY <1>0, <2>1, CreatedStays DEF BackendInv
  <2>2. CASE pc[r] = "save" /\ docs' = docs \cup {[contractAddress |-> address[r], request |-> r]}
    <3>1. address[r] \in CreatedBy(r)'
      BY <1>0, <2>2, CreatedStays DEF BackendInv, SavesReceipt
    <3> QED BY <2>1, <2>2, <3>1
  <2> QED BY <2>1, <2>2, DocsStep
<1>3. SavesReceipt'
  <2> SUFFICES ASSUME NEW q \in Requests, pc'[q] = "save"
               PROVE  address'[q] \in CreatedBy(q)'
    BY DEF SavesReceipt
  <2>1. CASE q = r
    <3>1. wait(r) /\ ownReceipt(r)
      BY <1>pc, <2>1
    <3>2. address' = [address EXCEPT ![r] = nonce[r] + 1] /\ nonce[r] < Len(mined)
      BY <3>1 DEF wait
    <3>3. nonce[r] + 1 \in CreatedBy(r)
      BY <1>0, <3>1, <3>2 DEF ownReceipt, CreatedBy
    <3> QED BY <1>0, <2>1, <3>2, <3>3, CreatedStays
  <2>2. CASE q # r
    <3>1. pc[q] = "save"
      BY <1>pc, <2>2
    <3>2. address'[q] = address[q]
      BY <1>ad, <2>2
    <3> QED BY <1>0, <3>1, <3>2, CreatedStays DEF BackendInv, SavesReceipt
  <2> QED BY <2>1, <2>2
<1>4. SuccessStored'
  <2>1. \A d \in docs : d \in docs'
    BY DocsStep
  <2> SUFFICES ASSUME NEW q \in Requests, status'[q] = 201
               PROVE  \E d \in docs' : d.request = q
    BY DEF SuccessStored
  <2>2. CASE status[q] = 201
    BY <2>1, <2>2 DEF BackendInv, SuccessStored
  <2>3. CASE status[q] # 201
    <3>1. q = r /\ docs' = docs \cup {[contractAddress |-> address[r], request |-> r]}
      BY <1>st, <2>3
    <3>2. [contractAddress |-> address[r], request |-> r] \in docs'
      BY <3>1
    <3> QED BY <3>1, <3>2
  <2> QED BY <2>2, <2>3
<1>5. SentOnce'
  <2>1. CASE UNCHANGED txs
    <3>1. \A q \in Requests : pc'[q] \in {"idle", "populate", "send"}
                               => pc[q] \in {"idle", "populate", "send"}
      BY <1>pc
    <3> QED BY <2>1, <3>1 DEF BackendInv, SentOnce
  <2>2. CASE pc[r] = "send" /\ accept(r) /\ pc' \in {[pc EXCEPT ![r] = "wait"],
                                                    [pc EXCEPT ![r] = "done"]}
    <3>1. txs' \in Seq(Requests) /\ DOMAIN txs' = 1..Len(txs')
      BY <1>0, <2>2, AcceptFacts
    <3>2. PICK p \in Nat :
            /\ p \in 1..Len(txs') /\ Len(mined) < p
            /\ txs'[p] = r
            /\ \A k \in 1..Len(txs') : k # p => k \in 1..Len(txs) /\ txs'[k] = txs[k]
      BY <1>0, <2>2, AcceptFacts
    <3>3. \A k \in 1..Len(txs) : txs[k] # r
      BY <1>0, <2>2 DEF BackendInv, SentOnce
    <3>4. \A k, l \in DOMAIN txs' : txs'[k] = txs'[l] => k = l
      BY <1>0, <3>1, <3>2, <3>3 DEF BackendInv, SentOnce
    <3>5. \A q \in Requests : pc'[q] \in {"idle", "populate", "send"} =>
            \A k \in DOMAIN txs' : txs'[k] # q
      <4> SUFFICES ASSUME NEW q \in Requests, pc'[q] \in {"idle", "populate", "send"},
                          NEW k \in 1..Len(txs')
                   PROVE  txs'[k] # q
        BY <3>1
      <4>1. q # r
        BY <1>0, <2>2
      <4>2. pc[q] \in {"idle", "populate", "send"}
        BY <1>pc, <4>1
      <4>3. CASE k = p
        BY <3>2, <4>1, <4>3
      <4>4. CASE k # p
        BY <1>0, <3>2, <4>2, <4>4 DEF BackendInv, SentOnce
      <4> QED BY <4>3, <4>4
    <3> QED BY <3>4, <3>5 DEF SentOnce
  <2> QED BY <2>1, <2>2, PoolStep
<1> QED BY <1>1, <1>2, <1>3, <1>4, <1>5 DEF BackendInv

\* A step of the network, the connection or the process preserves it: requests
\* are only lost, and nothing they stored or sent changes.
LEMMA OutsideInv ==
  ASSUME TypeOK, BackendInv, [Next]_vars,
         UNCHANGED <<address, docs, status, txs>>,
         \A q \in Requests : pc'[q] = pc[q] \/ pc'[q] = "lost"
  PROVE  BackendInv'
<1>0. Len(mined) <= Len(txs)
  BY DEF BackendInv
<1>1. Len(mined') <= Len(txs')
  BY <1>0, ChainStep
<1>2. \A d \in docs' : d.contractAddress \in CreatedBy(d.request)'
  BY <1>0, CreatedStays DEF BackendInv
<1>3. SavesReceipt'
  BY <1>0, CreatedStays DEF BackendInv, SavesReceipt
<1>4. SuccessStored' /\ SentOnce'
  BY DEF BackendInv, SuccessStored, SentOnce
<1> QED BY <1>1, <1>2, <1>3, <1>4 DEF BackendInv

\* Every step keeps the invariant.
LEMMA BackendStep ==
  ASSUME TypeOK, BackendInv, [Next]_vars
  PROVE  BackendInv'
<1>1. CASE mineNext \/ disconnected \/ connect \/ restart \/ UNCHANGED vars
  <2>1. UNCHANGED <<address, docs, status, txs>> /\ UNCHANGED pc
    BY <1>1 DEF mineNext, mine, disconnected, connect, restart, vars, chainVars, dbVars
  <2> QED BY <2>1, OutsideInv
<1>2. CASE connectFails \/ SIGINT
  <2>1. UNCHANGED <<address, docs, status, txs>>
    BY <1>2 DEF connectFails, SIGINT, chainVars
  <2>2. \A q \in Requests : pc'[q] = pc[q] \/ pc'[q] = "lost"
    BY <1>2 DEF connectFails, SIGINT, exit
  <2> QED BY <2>1, <2>2, OutsideInv
<1> QED BY <1>1, <1>2, HandlerInv DEF Next

\* The types and the inductive invariant hold in every reachable state.
THEOREM BackendInvariance == Spec => [](TypeOK /\ BackendInv)
<1>1. Init => TypeOK /\ BackendInv
  <2> SUFFICES ASSUME Init PROVE TypeOK /\ BackendInv
    OBVIOUS
  <2>1. TypeOK
    BY DEF Init, TypeOK
  <2>2. BackendInv
    BY DEF Init, BackendInv, SavesReceipt, SuccessStored, SentOnce
  <2> QED BY <2>1, <2>2
<1>2. TypeOK /\ BackendInv /\ [Next]_vars => (TypeOK /\ BackendInv)'
  BY TypeStep, BackendStep DEF BackendInv
<1> QED BY <1>1, <1>2, PTL DEF Spec

\* A client that is told 201 finds its collection, whatever raced with the
\* request and whatever failed (createCollection of service and controller).
THEOREM CreatedIsRecordedAlways == Spec => []CreatedIsRecorded
<1>1. BackendInv => CreatedIsRecorded
  BY DEF BackendInv, SuccessStored, CreatedIsRecorded
<1> QED BY <1>1, BackendInvariance, PTL

\* Every document stands for the contract its own request deployed, and no
\* contract has two.
THEOREM DocsBackedAlways == Spec => []DocsBacked
<1>1. TypeOK /\ BackendInv => DocsBacked
  <2> SUFFICES ASSUME TypeOK, BackendInv, NEW d \in docs
               PROVE  /\ d.contractAddress \in CreatedBy(d.request)
                      /\ \A e \in docs : e.contractAddress = d.contractAddress => e = d
    BY DEF DocsBacked
  <2>1. \A e \in docs : e.contractAddress \in CreatedBy(e.request)
    BY DEF BackendInv
  <2>2. \A e \in docs : txs[e.contractAddress] = e.request
    BY <2>1 DEF CreatedBy
  <2>3. \A e \in docs : e \in [contractAddress : Nat, request : Requests]
    BY DEF TypeOK
  <2> QED BY <2>1, <2>2, <2>3
<1> QED BY <1>1, BackendInvariance, PTL

\* A request deploys at most one collection, however often answers get lost.
THEOREM OneCollectionPerRequestAlways == Spec => []OneCollectionPerRequest
<1>1. TypeOK /\ BackendInv => OneCollectionPerRequest
  <2> SUFFICES ASSUME TypeOK, BackendInv, NEW r \in Requests
               PROVE  Cardinality(CreatedBy(r)) <= 1
    BY DEF OneCollectionPerRequest
  <2>1. /\ DOMAIN mined = 1..Len(mined) /\ DOMAIN txs = 1..Len(txs)
        /\ Len(mined) \in Nat /\ Len(txs) \in Nat /\ Len(mined) <= Len(txs)
    BY DEF TypeOK, BackendInv
  <2>2. \A k, l \in CreatedBy(r) : k = l
    BY <2>1 DEF BackendInv, SentOnce, CreatedBy
  <2>3. CASE CreatedBy(r) = {}
    BY <2>3, FS_EmptySet
  <2>4. CASE CreatedBy(r) # {}
    <3>1. PICK k : CreatedBy(r) = {k}
      BY <2>2, <2>4
    <3>2. Cardinality(CreatedBy(r)) = 1
      BY <3>1, FS_Singleton
    <3> QED BY <3>2
  <2> QED BY <2>3, <2>4
<1> QED BY <1>1, BackendInvariance, PTL

============================================================================
