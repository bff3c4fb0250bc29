------------------------ MODULE ServerLifecycleProofs ------------------------
(***************************************************************************)
(* A running server never loses its database for good and its handlers at  *)
(* most double with every disconnect, for any number of clients and        *)
(* disconnects.                                                            *)
(***************************************************************************)
EXTENDS ServerLifecycle, DataTheorems

----------------------------------------------------------------------------
(* The inductive invariant *)

\* What makes ReconnectScheduled inductive: a connection that was ever open has a
\* listener.
LifecycleInv ==
  /\ ReconnectScheduled
  /\ Running /\ conn # "connecting" => listeners > 0

\* The types and the inductive invariant hold in every reachable state.
THEOREM LifecycleInvariance == Spec => [](TypeOK /\ LifecycleInv)
<1>1. Init => TypeOK /\ LifecycleInv
  <2> SUFFICES ASSUME Init PROVE TypeOK /\ LifecycleInv
    OBVIOUS
  <2>1. listening \in BOOLEAN /\ interrupted \in BOOLEAN
    BY DEF Init
  <2>2. /\ requests \in Nat /\ hanging \in Nat /\ requests + hanging <= MaxRequests
        /\ sockets \in 0..MaxSockets
    BY LifecycleAssumption DEF Init
  <2>3. LifecycleInv
    BY DEF Init, LifecycleInv, ReconnectScheduled
  <2> QED BY <2>1, <2>2, <2>3 DEF Init, TypeOK
<1>2. TypeOK /\ LifecycleInv /\ [Next]_vars => (TypeOK /\ LifecycleInv)'
  <2> SUFFICES ASSUME TypeOK, LifecycleInv, [Next]_vars
               PROVE  TypeOK' /\ LifecycleInv'
    OBVIOUS
  <2> USE LifecycleAssumption
      DEF TypeOK, LifecycleInv, ReconnectScheduled, Running, httpVars, dbVars
  <2>1. CASE connected
    BY <2>1 DEF connected, registerHandlers
  <2>2. CASE connectFails
    BY <2>2 DEF connectFails, emitDisconnected, scheduleReconnect
  <2>3. CASE disconnected
    BY <2>3 DEF disconnected, emitDisconnected, scheduleReconnect
  <2>4. CASE reconnectTimer
    BY <2>4 DEF reconnectTimer, connect, registerHandlers
  <2>5. CASE driverReconnects
    BY <2>5 DEF driverReconnects
  <2>6. CASE openRequest \/ serve \/ clientGivesUp \/ openSocket \/ closeSocket
    <3> USE DEF serve, openRequest, closeRequest, requestHangs, clientGivesUp,
                openSocket, closeSocket
    <3>1. /\ requests' \in Nat /\ hanging' \in Nat /\ requests' + hanging' <= MaxRequests
          /\ sockets' \in 0..MaxSockets
      BY <2>6
    <3>2. UNCHANGED <<proc, interrupted, listening, pending, dbVars>>
      BY <2>6
    <3> QED BY <3>1, <3>2
  <2>7. CASE SIGTERM \/ unhandledRejection \/ closedOnTerm
    BY <2>7 DEF SIGTERM, unhandledRejection, closedOnTerm, onRejection, closeServer
  <2>8. CASE closedOnRejection \/ SIGINT
    BY <2>8 DEF closedOnRejection, SIGINT
  <2>9. CASE closedOnInterrupt
    BY <2>9 DEF closedOnInterrupt, emitDisconnected, scheduleReconnect
  <2>10. CASE UNCHANGED vars
    BY <2>10 DEF vars
  <2> QED BY <2>1, <2>2, <2>3, <2>4, <2>5, <2>6, <2>7, <2>8, <2>9, <2>10
          DEF Next, openConnection, closeCallbacks
<1> QED BY <1>1, <1>2, PTL DEF Spec

\* A running server without a database has a timer that connects again.
THEOREM ReconnectScheduledAlways == Spec => []ReconnectScheduled
<1>1. LifecycleInv => ReconnectScheduled
  BY DEF LifecycleInv
<1> QED BY <1>1, LifecycleInvariance, PTL

----------------------------------------------------------------------------
(* The growth of the handlers *)

\* The recursion of Doubled has a solution, and so Doubled is one.
LEMMA DoubledUnfold ==
  /\ Doubled[0] = 1
  /\ \A n \in Nat : Doubled[n] \in Nat /\ Doubled[n + 1] = 2 * Doubled[n]
<1> DEFINE Eq(f) == f = [n \in Nat |-> IF n = 0 THEN 1 ELSE 2 * f[n - 1]]
<1>1. \E f : Eq(f)
  <2> DEFINE step == [v \in Nat |-> 2 * v]
             V == Nat
             one == 1
  <2>1. one \in V /\ step \in [V -> V]
    OBVIOUS
  <2> HIDE DEF step, V, one
  <2>2. PICK f \in [Nat -> V] : f[0] = one /\ \A n \in Nat : f[n + 1] = step[f[n]]
    BY <2>1, RecursionExists
  <2> USE DEF V, one
  <2>3. ASSUME NEW n \in Nat PROVE f[n] = IF n = 0 THEN 1 ELSE 2 * f[n - 1]
    <3>1. CASE n = 0
      BY <2>2, <3>1
    <3>2. CASE n # 0
      <4>1. PICK m \in Nat : m = n - 1 /\ n = m + 1
        BY <3>2
      <4>2. f[m + 1] = step[f[m]] /\ f[m] \in Nat
        BY <2>2
      <4> QED BY <3>2, <4>1, <4>2 DEF step
    <3> QED BY <3>1, <3>2
  <2>4. Eq(f)
    <3> DEFINE e(n) == IF n = 0 THEN 1 ELSE 2 * f[n - 1]
    <3>1. \A n \in Nat : f[n] = e(n)
      BY <2>3
    <3>2. f = [n \in Nat |-> f[n]]
      BY <2>2
    <3> HIDE DEF e
    <3>3. f = [n \in Nat |-> e(n)]
      BY <3>1, <3>2
    <3> QED BY <3>3 DEF e
  <2> QED BY <2>4
<1>2. Eq(Doubled)
  <2>1. Doubled = CHOOSE f : Eq(f)
    BY DEF Doubled
  <2> HIDE DEF Eq
  <2> QED BY <1>1, <2>1
<1>3. Doubled[0] = 1 /\ \A n \in Nat : Doubled[n + 1] = 2 * Doubled[n]
  <2>1. \A n \in Nat : n + 1 \in Nat /\ n + 1 # 0 /\ (n + 1) - 1 = n
    OBVIOUS
  <2> HIDE DEF Doubled
  <2> QED BY <1>2, <2>1
<1>4. \A n \in Nat : Doubled[n] \in Nat
  <2> DEFINE G == {n \in Nat : Doubled[n] \in Nat}
  <2>1. G \in SUBSET Nat /\ 0 \in G /\ \A n \in G : n + 1 \in G
    BY <1>3
  <2>2. G = Nat
    <3> HIDE DEF G
    <3> QED BY <2>1, NaturalInduction
  <2> QED BY <2>2
<1> QED BY <1>3, <1>4

\* The event at most doubles what is counted: every listener adds a timer.
LEMMA DisconnectGrowth ==
  ASSUME TypeOK, HandlerGrowth, emitDisconnected
  PROVE  HandlerGrowth'
<1>1. /\ listeners \in Nat /\ timers \in Nat /\ disconnects \in Nat
      /\ listeners' = listeners /\ timers' = timers + listeners
      /\ disconnects' = disconnects + 1 /\ conn' = "disconnected"
  BY DEF TypeOK, emitDisconnected, scheduleReconnect
<1>2. Doubled[disconnects] \in Nat /\ Doubled[disconnects'] = 2 * Doubled[disconnects]
  BY <1>1, DoubledUnfold
<1>3. listeners + timers <= Doubled[disconnects]
  BY <1>1, <1>2 DEF HandlerGrowth
<1>4. listeners' + timers' <= Doubled[disconnects']
  BY <1>1, <1>2, <1>3
<1> QED BY <1>1, <1>4 DEF HandlerGrowth

\* However connects, timers, disconnects and reconnects of the driver follow each
\* other, the handlers that connect registers at most double per disconnect.
THEOREM HandlerGrowthAlways == Spec => []HandlerGrowth
<1>1. Init => HandlerGrowth
  BY DoubledUnfold DEF Init, HandlerGrowth
<1>2. ASSUME TypeOK, HandlerGrowth, [Next]_vars PROVE HandlerGrowth'
  <2>1. Doubled[disconnects] \in Nat
    BY <1>2, DoubledUnfold DEF TypeOK
  <2> USE <1>2, <2>1 DEF TypeOK, HandlerGrowth
  <2>2. CASE emitDisconnected
    BY <2>2, DisconnectGrowth
  <2>3. CASE connected
    BY <2>3 DEF connected, registerHandlers
  <2>4. CASE reconnectTimer
    BY <2>4 DEF reconnectTimer, connect, registerHandlers
  <2>5. CASE driverReconnects
    BY <2>5 DEF driverReconnects
  <2>6. CASE UNCHANGED dbVars
    BY <2>6 DEF dbVars
  <2>7. connectFails \/ disconnected => emitDisconnected
    BY DEF connectFails, disconnected
  <2>8. closedOnInterrupt => emitDisconnected \/ UNCHANGED dbVars
    BY DEF closedOnInterrupt
  <2>9. \/ openRequest \/ serve \/ clientGivesUp \/ openSocket \/ closeSocket
        \/ closedOnTerm \/ closedOnRejection \/ SIGTERM \/ unhandledRejection \/ SIGINT
        \/ UNCHANGED vars
        => UNCHANGED dbVars
    BY DEF openRequest, serve, closeRequest, requestHangs, clientGivesUp, openSocket,
           closeSocket, closedOnTerm, closedOnRejection, SIGTERM, unhandledRejection,
           SIGINT, vars
  <2> QED BY <2>2, <2>3, <2>4, <2>5, <2>6, <2>7, <2>8, <2>9
          DEF Next, openConnection, closeCallbacks
<1> QED BY <1>1, <1>2, LifecycleInvariance, PTL DEF Spec

==============================================================================
