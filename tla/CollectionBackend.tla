------------------------- MODULE CollectionBackend -------------------------
(***************************************************************************)
(* POST and GET /api/v1/collections of the backend: the controller, the    *)
(* service that creates a collection on chain and then records it in       *)
(* MongoDB, the error middleware, and the connection to the database.      *)
(*                                                                         *)
(* Node.js runs one handler at a time and switches at every await, so each *)
(* action is the code between two awaits of one request.  The Ethereum     *)
(* node, the factory contract, the ethers wallet and MongoDB are outside   *)
(* the repository and modelled from how collection.service.js uses them.   *)
(* All requests sign with the same key and read their nonce themselves.    *)
(***************************************************************************)
EXTENDS Integers, Sequences, FiniteSets

CONSTANTS
  Requests,   \* POST and GET requests, each handled at most once
  Bodies,     \* kinds of request bodies, a subset of BodyKind
  NodeEnvs    \* values of NODE_ENV the server may be started with

\* "blank": a name or symbol of blanks only, which passes the validator and
\* which the schema trims to an empty, hence missing, field.  A GET has none.
BodyKind == {"valid", "invalid", "blank", "none"}

ASSUME BackendAssumption == Bodies \subseteq BodyKind

VARIABLES
  pc,       \* per request: where its handler is
  body,     \* per request: the kind of its body
  nonce,    \* per request: the nonce of its transaction
  address,  \* per request: the collection address read from the event
  status,   \* per request: the HTTP status sent, 0 before
  txs,      \* transactions of the server's key in the node, in nonce order:
            \* the request that sent each
  mined,    \* what became of the ones that are in a block, a prefix of txs
  docs,     \* documents of the collections in the database
  conn,     \* mongoose's connection: "up" or "down"
  running,  \* the server process runs
  env       \* NODE_ENV

chainVars == <<txs, mined>>
dbVars == <<docs, conn, running, env>>
vars == <<pc, body, nonce, address, status, chainVars, dbVars>>

InFlight == {"populate", "send", "wait", "save", "find"}

\* A created collection is known by the position of its transaction.
TypeOK ==
  /\ pc \in [Requests -> InFlight \cup {"idle", "done", "lost"}]
  /\ body \in [Requests -> Bodies]
  /\ nonce \in [Requests -> Nat]
  /\ address \in [Requests -> Nat]
  /\ status \in [Requests -> {0, 200, 201, 400, 500}]
  /\ txs \in Seq(Requests)
  /\ mined \in Seq({"created", "silent", "reverted"})
  /\ docs \subseteq [contractAddress : Nat, request : Requests]
  /\ conn \in {"up", "down"}
  /\ running \in BOOLEAN
  /\ env \in NodeEnvs

Init ==
  /\ pc = [r \in Requests |-> "idle"]
  /\ body \in [Requests -> Bodies]
  /\ nonce = [r \in Requests |-> 0]
  /\ address = [r \in Requests |-> 0]
  /\ status = [r \in Requests |-> 0]
  /\ txs = <<>>
  /\ mined = <<>>
  /\ docs = {}
  /\ conn = "down"
  /\ running = TRUE
  /\ env \in NodeEnvs

----------------------------------------------------------------------------
(* The end of a request *)

At(r, where) == running /\ pc[r] = where

goTo(r, where) == pc' = [pc EXCEPT ![r] = where] /\ UNCHANGED status

respond(r, code) ==
  /\ pc' = [pc EXCEPT ![r] = "done"]
  /\ status' = [status EXCEPT ![r] = code]

errorMiddleware_DevelopmentOnly(r, code) ==
  IF env = "development" THEN respond(r, code) ELSE goTo(r, "done")

\* next(error): an AppError is operational, so both senders use its code; the
\* service wraps what it catches, so no other branch of the middleware applies.
\* With any other NODE_ENV nothing is sent.
errorMiddleware(r, code) ==
  IF env \in {"development", "production"} THEN respond(r, code) ELSE goTo(r, "done")

----------------------------------------------------------------------------
(* The server's account at the Ethereum node *)

\* The node takes a transaction with the next nonce; one whose nonce is taken
\* but not mined yet may replace it, when its fee is higher by enough.
accept(r) ==
  \/ nonce[r] = Len(txs) /\ txs' = Append(txs, r)
  \/ /\ Len(mined) <= nonce[r]
     /\ nonce[r] < Len(txs)
     /\ txs' = [txs EXCEPT ![nonce[r] + 1] = r]

\* The next transaction gets into a block: it creates a collection, fails, or
\* succeeds without the CollectionCreated event (no factory at that address).
mine(outcome) ==
  /\ Len(mined) < Len(txs)
  /\ mined' = Append(mined, outcome)
  /\ UNCHANGED <<pc, body, nonce, address, status, txs, dbVars>>

----------------------------------------------------------------------------
(* createCollection: controller and service *)

\* validateCollection (Joi) and the mongoose schema.
validateCollection(b) == b # "invalid"
schemaAccepts(b) == b # "blank"

\* The controller up to the call of the contract.
receive(r) ==
  /\ At(r, "idle")
  /\ body[r] # "none"
  /\ IF validateCollection(body[r]) THEN goTo(r, "populate")
                                    ELSE errorMiddleware(r, 400)
  /\ UNCHANGED <<body, nonce, address, chainVars, dbVars>>

\* The wallet asks for the number of transactions sent, pending ones included.
populateTransaction(r) ==
  /\ At(r, "populate")
  /\ nonce' = [nonce EXCEPT ![r] = Len(txs)]
  /\ goTo(r, "send")
  /\ UNCHANGED <<body, address, chainVars, dbVars>>

\* The signed transaction is broadcast and the node answers.
broadcast(r) ==
  /\ At(r, "send")
  /\ accept(r)
  /\ goTo(r, "wait")
  /\ UNCHANGED <<body, nonce, address, mined, dbVars>>

answerLost_Retried(r) == goTo(r, "populate")

\* An exception of the contract call ends the request, whatever its cause.
answerLost(r) == errorMiddleware(r, 500)

\* The node took the transaction but its answer does not arrive.
broadcastUnanswered(r) ==
  /\ At(r, "send")
  /\ accept(r)
  /\ answerLost(r)
  /\ UNCHANGED <<body, nonce, address, mined, dbVars>>

\* The node refuses: the nonce was taken by another request in the meantime.
broadcastRefused(r) ==
  /\ At(r, "send")
  /\ nonce[r] < Len(txs)
  /\ errorMiddleware(r, 500)
  /\ UNCHANGED <<body, nonce, address, chainVars, dbVars>>

\* The node cannot be reached, before the broadcast or while waiting.
rpcError(r) ==
  /\ At(r, "populate") \/ At(r, "send") \/ At(r, "wait")
  /\ errorMiddleware(r, 500)
  /\ UNCHANGED <<body, nonce, address, chainVars, dbVars>>

ownReceipt_ByNonce(r) == mined[nonce[r] + 1] = "created"

\* tx.wait() answers with the receipt of this very transaction; a revert and a
\* replaced transaction are exceptions, and so is a receipt without the event.
ownReceipt(r) == txs[nonce[r] + 1] = r /\ mined[nonce[r] + 1] = "created"

\* The nonce is used up: read the address from the event, or give up.
wait(r) ==
  /\ At(r, "wait")
  /\ nonce[r] < Len(mined)
  /\ \/ /\ ownReceipt(r)
        /\ address' = [address EXCEPT ![r] = nonce[r] + 1]
        /\ goTo(r, "save")
     \/ /\ ~ownReceipt(r)
        /\ errorMiddleware(r, 500)
        /\ UNCHANGED address
  /\ UNCHANGED <<body, nonce, chainVars, dbVars>>

store(r) == docs' = docs \cup {[contractAddress |-> address[r], request |-> r]}

\* collection.save() and the answer 201.
save(r) ==
  /\ At(r, "save")
  /\ schemaAccepts(body[r])
  /\ conn = "up"
  /\ store(r)
  /\ respond(r, 201)
  /\ UNCHANGED <<body, nonce, address, chainVars, conn, running, env>>

saveFailed_Swallowed(r) == respond(r, 201)
saveFailed(r) == errorMiddleware(r, 500)

\* The schema refuses the document, or the connection is down for longer than
\* mongoose buffers commands.
saveRejected(r) ==
  /\ At(r, "save")
  /\ ~schemaAccepts(body[r]) \/ conn = "down"
  /\ saveFailed(r)
  /\ UNCHANGED <<body, nonce, address, chainVars, dbVars>>

\* The connection drops after the database stored the document.
saveUnanswered(r) ==
  /\ At(r, "save")
  /\ schemaAccepts(body[r])
  /\ conn = "up"
  /\ store(r)
  /\ conn' = "down"
  /\ saveFailed(r)
  /\ UNCHANGED <<body, nonce, address, chainVars, running, env>>

----------------------------------------------------------------------------
(* getAllCollections: controller and service *)

getAllCollections(r) ==
  /\ At(r, "idle")
  /\ body[r] = "none"
  /\ goTo(r, "find")
  /\ UNCHANGED <<body, nonce, address, chainVars, dbVars>>

\* Collection.find answers with the documents, or the connection is down for
\* longer than mongoose buffers commands and the query fails.
find(r) ==
  /\ At(r, "find")
  /\ \/ conn = "up" /\ respond(r, 200)
     \/ conn = "down" /\ errorMiddleware(r, 500)
  /\ UNCHANGED <<body, nonce, address, chainVars, dbVars>>

----------------------------------------------------------------------------
(* The process and its database connection *)

disconnected ==
  /\ running
  /\ conn = "up"
  /\ conn' = "down"
  /\ UNCHANGED <<pc, body, nonce, address, status, chainVars, docs, running, env>>

\* connect, called at the start and five seconds after a disconnect, succeeds ...
connect ==
  /\ running
  /\ conn = "down"
  /\ conn' = "up"
  /\ UNCHANGED <<pc, body, nonce, address, status, chainVars, docs, running, env>>

exit ==
  /\ running' = FALSE
  /\ pc' = [r \in Requests |-> IF pc[r] \in InFlight THEN "lost" ELSE pc[r]]

\* ... or fails, and then the process exits with every request in it.
connectFails ==
  /\ running
  /\ conn = "down"
  /\ exit
  /\ UNCHANGED <<body, nonce, address, status, chainVars, docs, conn, env>>

\* SIGINT: the connection is closed and the process exits, requests or not.
SIGINT ==
  /\ running
  /\ conn' = "down"
  /\ exit
  /\ UNCHANGED <<body, nonce, address, status, chainVars, docs, env>>

\* Somebody starts the server again; it listens before it is connected.
restart ==
  /\ ~running
  /\ running' = TRUE
  /\ conn' = "down"
  /\ UNCHANGED <<pc, body, nonce, address, status, chainVars, docs, env>>

----------------------------------------------------------------------------

mineNext == \E outcome \in {"created", "silent", "reverted"} : mine(outcome)

\* What the handler of a request does when nothing goes wrong around it.
handle(r) ==
  \/ receive(r) \/ populateTransaction(r) \/ broadcast(r) \/ broadcastRefused(r)
  \/ wait(r) \/ save(r) \/ saveRejected(r) \/ getAllCollections(r) \/ find(r)

faults(r) == broadcastUnanswered(r) \/ rpcError(r) \/ saveUnanswered(r)

Next ==
  \/ \E r \in Requests : handle(r) \/ faults(r)
  \/ mineNext
  \/ disconnected \/ connect \/ connectFails \/ SIGINT \/ restart

\* The event loop runs every handler that can go on, and the network mines what
\* the node took.  Nothing is assumed of failures, connections and restarts.
Fairness == (\A r \in Requests : WF_vars(handle(r))) /\ WF_vars(mineNext)

Spec == Init /\ [][Next]_vars /\ Fairness

----------------------------------------------------------------------------

\* The collection that request r created on chain, if any.
CreatedBy(r) == {k \in DOMAIN mined : mined[k] = "created" /\ txs[k] = r}

\* Who is told 201 has the collection among the documents that a GET lists, under
\* the address of the contract that this very request deployed.
CreatedIsRecorded ==
  \A r \in Requests : status[r] = 201 =>
    \E d \in docs : d.request = r /\ d.contractAddress \in CreatedBy(r)

\* Every document stands for a contract on chain that its own request deployed,
\* and no contract has two documents, however requests raced for a nonce.
DocsBacked ==
  \A d \in docs :
    /\ d.contractAddress \in CreatedBy(d.request)
    /\ \A e \in docs : e.contractAddress = d.contractAddress => e = d

\* A request deploys at most one collection, lost answers included.
OneCollectionPerRequest == \A r \in Requests : Cardinality(CreatedBy(r)) <= 1

\* With NODE_ENV set to development or production every POST and GET is answered,
\* or the process dies with it (controller, service and error middleware).
RequestsAnswered ==
  \A r \in Requests :
    (pc[r] \in InFlight /\ env \in {"development", "production"})
      ~> (status[r] # 0 \/ pc[r] = "lost")

\* Who is told that the collection could not be created has none on chain.
FailureMeansNotCreated == \A r \in Requests : status[r] = 500 => CreatedBy(r) = {}

============================================================================
