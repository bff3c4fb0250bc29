-------------------------- MODULE ServerLifecycle --------------------------
(***************************************************************************)
(* One run of the server process: the HTTP server with its signal and      *)
(* rejection handlers (server.js) and the database connection that app.js  *)
(* opens and database.js keeps open.                                       *)
(*                                                                         *)
(* Every successful connect adds a 'disconnected' listener and a SIGINT    *)
(* handler; they are always added together, so one count stands for both.  *)
(* Node's event loop, http.Server and mongoose 8.8 are external and are    *)
(* modelled from how these two files use them.                             *)
(***************************************************************************)
EXTENDS Integers

CONSTANTS
  MaxRequests,     \* bound on open HTTP requests
  MaxSockets,      \* bound on open socket.io connections
  MaxDisconnects   \* bound on the times the database goes away

ASSUME LifecycleAssumption ==
  MaxRequests \in Nat /\ MaxSockets \in Nat /\ MaxDisconnects \in Nat

VARIABLES
  proc,         \* "running", or how the process ended
  listening,    \* the HTTP server takes new connections
  requests,     \* HTTP requests being served
  hanging,      \* HTTP requests that will not be answered, their connections open
  sockets,      \* open socket.io connections
  pending,      \* callbacks of httpServer.close that wait for its close event
  conn,         \* mongoose.connection.readyState
  listeners,    \* 'disconnected' listeners, and SIGINT handlers, registered
  timers,       \* pending setTimeout(connect, 5000)
  interrupted,  \* SIGINT handlers are waiting for mongoose.connection.close()
  disconnects   \* how often 'disconnected' was emitted

httpVars == <<listening, requests, hanging, sockets, pending>>
dbVars == <<conn, listeners, timers, disconnects>>
vars == <<proc, interrupted, httpVars, dbVars>>

Running == proc = "running"

TypeOK ==
  /\ proc \in {"running", "exit0", "exit1", "killed"}
  /\ listening \in BOOLEAN
  /\ requests \in Nat /\ hanging \in Nat /\ requests + hanging <= MaxRequests
  /\ sockets \in 0..MaxSockets
  /\ pending \subseteq {"term", "reject"}
  /\ conn \in {"connecting", "connected", "disconnected"}
  /\ listeners \in Nat
  /\ timers \in Nat
  /\ interrupted \in BOOLEAN
  /\ disconnects \in Nat

\* The modules are loaded: app.js called connect, server.js called listen.
Init ==
  /\ proc = "running"
  /\ listening = TRUE
  /\ requests = 0
  /\ hanging = 0
  /\ sockets = 0
  /\ pending = {}
  /\ conn = "connecting"
  /\ listeners = 0
  /\ timers = 0
  /\ interrupted = FALSE
  /\ disconnects = 0

----------------------------------------------------------------------------
(* connect, of database.js *)

registerHandlers_Twice == listeners' = listeners + 2
registerHandlers == listeners' = listeners + 1

connect_LeftToDriver ==
  \/ conn = "disconnected" /\ UNCHANGED <<conn, listeners>>
  \/ conn # "disconnected" /\ registerHandlers /\ UNCHANGED conn

\* The first await: mongoose.connect resolves at once while a connection with
\* the same uri is open or being opened, and otherwise opens one.
connect ==
  \/ /\ conn = "disconnected"
     /\ conn' = "connecting"
     /\ UNCHANGED listeners
  \/ /\ conn # "disconnected"
     /\ registerHandlers
     /\ UNCHANGED conn

connected ==
  /\ Running
  /\ conn = "connecting"
  /\ conn' = "connected"
  /\ registerHandlers
  /\ UNCHANGED <<proc, interrupted, timers, disconnects, httpVars>>

scheduleReconnect_FirstOnly == timers' = IF disconnects = 0 THEN timers + listeners ELSE timers

\* Every listener of the event starts a timer of its own.
scheduleReconnect == timers' = timers + listeners

emitDisconnected ==
  /\ conn' = "disconnected"
  /\ scheduleReconnect
  /\ disconnects' = disconnects + 1
  /\ UNCHANGED listeners

\* The catch clause; mongoose emits the event before it rejects.
connectFails ==
  /\ Running
  /\ conn = "connecting"
  /\ emitDisconnected
  /\ proc' = "exit1"
  /\ UNCHANGED <<interrupted, httpVars>>

disconnected ==
  /\ Running
  /\ disconnects < MaxDisconnects
  /\ conn = "connected"
  /\ emitDisconnected
  /\ UNCHANGED <<proc, interrupted, httpVars>>

reconnectTimer ==
  /\ Running
  /\ timers > 0
  /\ timers' = timers - 1
  /\ connect
  /\ UNCHANGED <<proc, interrupted, disconnects, httpVars>>

\* The driver finds the database again before a timer fires.
driverReconnects ==
  /\ Running
  /\ conn = "disconnected"
  /\ conn' = "connected"
  /\ UNCHANGED <<proc, interrupted, listeners, timers, disconnects, httpVars>>

----------------------------------------------------------------------------
(* The HTTP server and socket.io *)

openRequest ==
  /\ Running /\ listening
  /\ requests + hanging < MaxRequests
  /\ requests' = requests + 1
  /\ UNCHANGED <<proc, interrupted, listening, hanging, sockets, pending, dbVars>>

\* The response is sent and its connection closed.
closeRequest ==
  /\ Running
  /\ requests > 0
  /\ requests' = requests - 1
  /\ UNCHANGED <<proc, interrupted, listening, hanging, sockets, pending, dbVars>>

\* No response will come: the request failed and the error middleware knows
\* neither of its two values in NODE_ENV, or tx.wait(), which has no time-out,
\* waits for a transaction that is never mined.
requestHangs ==
  /\ Running
  /\ requests > 0
  /\ requests' = requests - 1
  /\ hanging' = hanging + 1
  /\ UNCHANGED <<proc, interrupted, listening, sockets, pending, dbVars>>

\* Only the client can end the connection of such a request.
clientGivesUp ==
  /\ Running
  /\ hanging > 0
  /\ hanging' = hanging - 1
  /\ UNCHANGED <<proc, interrupted, listening, requests, sockets, pending, dbVars>>

openSocket ==
  /\ Running /\ listening
  /\ sockets < MaxSockets
  /\ sockets' = sockets + 1
  /\ UNCHANGED <<proc, interrupted, listening, requests, hanging, pending, dbVars>>

\* A client leaves; the server itself never closes a socket.
closeSocket ==
  /\ Running
  /\ sockets > 0
  /\ sockets' = sockets - 1
  /\ UNCHANGED <<proc, interrupted, listening, requests, hanging, pending, dbVars>>

----------------------------------------------------------------------------
(* Signals and unhandled rejections *)

\* httpServer.close(callback), also of a server that is closed already.
closeServer(callback) ==
  /\ listening' = FALSE
  /\ pending' = pending \cup {callback}

SIGTERM ==
  /\ Running
  /\ closeServer("term")
  /\ UNCHANGED <<proc, interrupted, requests, hanging, sockets, dbVars>>

\* The handler of unhandled rejections.
onRejection_LogsOnly == UNCHANGED <<listening, pending>>
onRejection == closeServer("reject")

\* Some promise is rejected and nobody handles it, at any time.
unhandledRejection ==
  /\ Running
  /\ onRejection
  /\ UNCHANGED <<proc, interrupted, requests, hanging, sockets, dbVars>>

drained == requests = 0 /\ hanging = 0 /\ sockets = 0

\* The close event, and the callback of SIGTERM: mongoose.connection.close does
\* not take a callback and rejects before it does anything.
closedOnTerm ==
  /\ Running
  /\ drained
  /\ pending = {"term"}
  /\ onRejection
  /\ UNCHANGED <<proc, interrupted, requests, hanging, sockets, dbVars>>

\* The callback of an unhandled rejection.
closedOnRejection ==
  /\ Running
  /\ drained
  /\ "reject" \in pending
  /\ proc' = "exit1"
  /\ UNCHANGED <<interrupted, httpVars, dbVars>>

\* Without a handler of SIGINT the process is killed.
SIGINT ==
  /\ Running
  /\ IF listeners = 0 THEN proc' = "killed" /\ UNCHANGED interrupted
                      ELSE interrupted' = TRUE /\ UNCHANGED proc
  /\ UNCHANGED <<httpVars, dbVars>>

\* mongoose.connection.close() waits for a connection that is being opened.
\* When it is done, the first of the handlers exits.
closedOnInterrupt ==
  /\ Running
  /\ interrupted
  /\ \/ conn = "connected" /\ emitDisconnected
     \/ conn = "disconnected" /\ UNCHANGED dbVars
  /\ proc' = "exit0"
  /\ UNCHANGED <<interrupted, httpVars>>

----------------------------------------------------------------------------

openConnection == connected \/ connectFails
closeCallbacks == closedOnTerm \/ closedOnRejection
serve == closeRequest \/ requestHangs

Next ==
  \/ openConnection \/ disconnected \/ reconnectTimer \/ driverReconnects
  \/ openRequest \/ serve \/ clientGivesUp \/ openSocket \/ closeSocket
  \/ closeCallbacks \/ SIGTERM \/ unhandledRejection \/ SIGINT \/ closedOnInterrupt

\* mongoose.connect settles (it has a timeout), timers fire, callbacks run, and a
\* request is answered or hangs.  Nothing is assumed of signals, of the database,
\* of answers, or of the clients at the other end of a connection.
Fairness ==
  /\ WF_vars(openConnection)
  /\ WF_vars(reconnectTimer)
  /\ WF_vars(closeCallbacks)
  /\ WF_vars(serve)

Spec == Init /\ [][Next]_vars /\ Fairness

----------------------------------------------------------------------------

\* A running server that has lost its database is going to connect again: a
\* timer is pending, whichever way and however often connections came and went.
ReconnectScheduled == Running /\ conn = "disconnected" => timers > 0

\* One, doubled n times.
Doubled[n \in Nat] == IF n = 0 THEN 1 ELSE 2 * Doubled[n - 1]

\* Every reconnect adds handlers to those of the connections before it and every
\* handler starts a reconnect of its own, so they at most double each time the
\* database goes away, and no order of timers and reconnects makes it worse.
HandlerGrowth ==
  listeners + timers + (IF conn = "connecting" THEN 1 ELSE 0) <= Doubled[disconnects]

\* A lost database comes back, or the process ends for its supervisor to see.
ConnectionHeals == conn = "disconnected" ~> (conn = "connected" \/ ~Running)

\* Once closing has begun, by SIGTERM or by a rejection, and the open sockets are
\* gone, the process ends, unless a request that is never answered holds it up: no
\* socket that is opened later can, and the rejected close of the database
\* connection, which never gets to its process.exit(0), does not stop it either.
ShutdownCompletes == (pending # {} /\ sockets = 0) ~> (~Running \/ hanging > 0)

============================================================================
