---------------------- MODULE TransactionSenderProofs ----------------------
(***************************************************************************)
(* What a call of the backend has executed, for any number of calls, any   *)
(* limit of attempts and any behaviour of the node.                        *)
(***************************************************************************)
EXTENDS TransactionSender, TLAPS

----------------------------------------------------------------------------
(* The inductive invariant *)

\* What makes ExecutionsExplained and ResolvedMeansExecuted inductive: every
\* transaction the node has, mined or not, is accounted for unless it reverted; a call that is about to send has no
\* transaction of its current attempt; and only a loop without attempts left is
\* not entered.
SlotInv(i) ==
  LET t == slots[i]
  IN /\ t.attempt <= attempts[t.call]
     /\ t.attempt = attempts[t.call] => pc[t.call] \in {"receipt", "returned"}
     /\ i \notin reverted /\ t.attempt # attempts[t.call] => t.attempt \in unclear[t.call]

CallInv(c) ==
  /\ pc[c] = "returned" => minedAs(c, TRUE)
  /\ pc[c] = "undefined" => limit = 0
  /\ c \in Retrying /\ limit > 0 /\ pc[c] \in {"loop", "sleep"} => attempts[c] < limit

SenderInv ==
  /\ mined <= Len(slots)
  /\ AttemptsApart
  /\ \A i \in DOMAIN slots : SlotInv(i)
  /\ \A c \in Calls : CallInv(c)

\* The transaction of a call's current attempt, field by field.
LEMMA CurrentTx ==
  ASSUME TypeOK, NEW c \in Calls
  PROVE  /\ current(c) \in Tx
         /\ current(c).call = c
         /\ current(c).attempt = attempts[c]
         /\ \A t \in Tx : t = current(c) <=> t.call = c /\ t.attempt = attempts[c]
BY DEF TypeOK, current, Tx

\* The types are kept.
LEMMA SenderTypeStep ==
  ASSUME TypeOK, [Next]_vars
  PROVE  TypeOK'
<1> USE SenderAssumption
<1>1. ASSUME NEW c \in Calls, handleError(c)
      PROVE  attempts' \in [Calls -> Nat]
             /\ pc' \in [Calls -> {"loop", "nonce", "send", "receipt", "sleep"} \cup Ended]
  BY <1>1 DEF handleError, Goto, TypeOK, Ended
<1>2. ASSUME NEW c \in Calls, place(c)
      PROVE  slots' \in Seq(Tx)
  <2>1. nonce[c] \in 1..(Len(slots) + 1) /\ Len(slots) \in Nat
    BY <1>2 DEF place, TypeOK
  <2>2. CASE nonce[c] > Len(slots)
    BY <1>2, <2>2, CurrentTx DEF place, TypeOK
  <2>3. CASE ~(nonce[c] > Len(slots))
    <3>1. nonce[c] \in 1..Len(slots) /\ slots' = [slots EXCEPT ![nonce[c]] = current(c)]
      BY <1>2, <2>1, <2>3 DEF place
    <3> QED BY <3>1, CurrentTx DEF TypeOK
  <2> QED BY <2>2, <2>3
<1>3. ASSUME NEW c \in Calls, uncertain(c)
      PROVE  unclear' \in [Calls -> SUBSET Nat]
  BY <1>3 DEF uncertain, TypeOK
<1>4. ASSUME NEW c \in Calls, enterLoop(c) \/ wake(c) \/ receiptOk(c) PROVE TypeOK'
  BY <1>4 DEF enterLoop, wake, receiptOk, Goto, TypeOK, chain, Ended
<1>5. ASSUME NEW c \in Calls, readNonce(c) PROVE TypeOK'
  <2>1. PICK k \in 1..(Len(slots) + 1) : nonce' = [nonce EXCEPT ![c] = k]
    BY <1>5 DEF readNonce
  <2>2. k \in Nat
    BY <2>1 DEF TypeOK
  <2> QED BY <1>5, <2>1, <2>2 DEF readNonce, Goto, TypeOK, chain
<1>6. ASSUME NEW c \in Calls, refused(c) \/ receiptReverted(c) PROVE TypeOK'
  BY <1>1, <1>6 DEF refused, receiptReverted, TypeOK, chain
<1>7. ASSUME NEW c \in Calls, taken(c) PROVE TypeOK'
  BY <1>2, <1>7 DEF taken, place, Goto, TypeOK
<1>8. ASSUME NEW c \in Calls, answerLost(c) PROVE TypeOK'
  BY <1>1, <1>2, <1>3, <1>8 DEF answerLost, place, uncertain, TypeOK
<1>9. ASSUME NEW c \in Calls, timeout(c) PROVE TypeOK'
  BY <1>1, <1>3, <1>9 DEF timeout, uncertain, TypeOK, chain
<1>10. CASE mine
  BY <1>10 DEF mine, TypeOK
<1>11. CASE UNCHANGED vars
  BY <1>11 DEF vars, TypeOK
<1> QED BY <1>4, <1>5, <1>6, <1>7, <1>8, <1>9, <1>10, <1>11
        DEF Next, Step, submit, settle

----------------------------------------------------------------------------

\* What the invariant says of one transaction of the node.
LEMMA SlotFacts ==
  ASSUME TypeOK, SenderInv, NEW i \in DOMAIN slots
  PROVE  /\ slots[i] \in Tx
         /\ slots[i].call \in Calls
         /\ slots[i].attempt \in Nat
         /\ SlotInv(i)
<1>1. slots[i] \in Tx
  BY DEF TypeOK
<1>2. slots[i].call \in Calls /\ slots[i].attempt \in Nat
  BY <1>1 DEF Tx
<1>3. SlotInv(i)
  BY DEF SenderInv
<1> QED BY <1>1, <1>2, <1>3

\* The limit is a number.
LEMMA LimitNat ==
  ASSUME TypeOK
  PROVE  limit \in Nat /\ \A c \in Calls : attempts[c] \in Nat
BY SenderAssumption DEF TypeOK

\* A call that has just failed: nothing of it is left unaccounted for if its
\* current transaction, if any, reverted or was noted as unclear.
LEMMA ErrorKeeps ==
  ASSUME TypeOK, TypeOK', SenderInv, NEW c \in Calls, handleError(c),
         pc[c] # "returned", UNCHANGED <<limit, chain>>,
         \A d \in Calls : unclear[d] \subseteq unclear'[d],
         \A i \in DOMAIN slots :
            slots[i] = current(c) => i \in reverted \/ attempts[c] \in unclear'[c]
  PROVE  SenderInv'
<1>1. UNCHANGED <<limit, slots, mined, reverted>>
  BY DEF chain
<1>2. /\ attempts'[c] = attempts[c] + 1
      /\ pc'[c] = IF c \notin Retrying \/ attempts[c] + 1 >= limit THEN "threw" ELSE "sleep"
      /\ \A d \in Calls \ {c} : attempts'[d] = attempts[d] /\ pc'[d] = pc[d]
  BY DEF handleError, Goto, TypeOK
<1>3. ASSUME NEW i \in DOMAIN slots' PROVE SlotInv(i)'
  <2> DEFINE t == slots[i]
  <2>1. i \in DOMAIN slots /\ t \in Tx /\ t.call \in Calls /\ t.attempt \in Nat /\ SlotInv(i)
    BY <1>1, <1>3, SlotFacts
  <2>2. CASE t.call # c
    BY <1>1, <1>2, <2>1, <2>2 DEF SlotInv
  <2>3. CASE t.call = c
    <3>1. t.attempt <= attempts[c] /\ attempts[c] \in Nat
      BY <2>1, <2>3 DEF SlotInv, TypeOK
    <3>2. i \notin reverted => t.attempt \in unclear'[c]
      <4>1. CASE t.attempt = attempts[c]
        BY <2>1, <2>3, <4>1, CurrentTx
      <4>2. CASE t.attempt # attempts[c]
        BY <2>1, <2>3, <4>2 DEF SlotInv
      <4> QED BY <4>1, <4>2
    <3> QED BY <1>1, <1>2, <2>1, <2>3, <3>1, <3>2 DEF SlotInv
  <2> QED BY <2>2, <2>3
<1>4. ASSUME NEW d \in Calls PROVE CallInv(d)'
  <2>1. CallInv(d)
    BY DEF SenderInv
  <2>2. CASE d = c
    <3>1. limit \in Nat /\ attempts[c] \in Nat
      BY LimitNat
    <3>2. pc'[c] \in {"threw", "sleep"} /\ (pc'[c] = "sleep" => attempts[c] + 1 < limit)
      BY <1>2, <3>1
    <3> QED BY <1>1, <1>2, <2>2, <3>1, <3>2 DEF CallInv
  <2>3. CASE d # c
    <3>1. attempts'[d] = attempts[d] /\ pc'[d] = pc[d]
      BY <1>2, <2>3
    <3>2. minedAs(d, TRUE) => minedAs(d, TRUE)'
      BY <1>1, <3>1 DEF minedAs, current
    <3> QED BY <1>1, <2>1, <3>1, <3>2 DEF CallInv
  <2> QED BY <2>2, <2>3
<1>5. AttemptsApart' /\ mined' <= Len(slots')
  BY <1>1 DEF SenderInv, AttemptsApart
<1> QED BY <1>3, <1>4, <1>5 DEF SenderInv

\* What the node does when it takes a transaction: the slot of its nonce holds
\* it, the others and everything mined stay.
LEMMA PlaceSlots ==
  ASSUME TypeOK, SenderInv, NEW c \in Calls, place(c)
  PROVE  /\ nonce[c] \in DOMAIN slots'
         /\ nonce[c] > mined
         /\ slots'[nonce[c]] = current(c)
         /\ \A i \in DOMAIN slots' \ {nonce[c]} : i \in DOMAIN slots /\ slots'[i] = slots[i]
         /\ \A i \in 1..mined : i \in DOMAIN slots' /\ slots'[i] = slots[i]
         /\ Len(slots) <= Len(slots')
<1>1. /\ nonce[c] \in (mined + 1)..(Len(slots) + 1)
      /\ mined \in Nat /\ Len(slots) \in Nat /\ mined <= Len(slots)
      /\ slots \in Seq(Tx) /\ current(c) \in Tx
  BY CurrentTx DEF place, TypeOK, SenderInv
<1>2. CASE nonce[c] > Len(slots)
  <2>1. nonce[c] = Len(slots) + 1 /\ slots' = Append(slots, current(c))
    BY <1>1, <1>2 DEF place
  <2> QED BY <1>1, <2>1
<1>3. CASE ~(nonce[c] > Len(slots))
  <2>1. nonce[c] \in 1..Len(slots) /\ slots' = [slots EXCEPT ![nonce[c]] = current(c)]
    BY <1>1, <1>3 DEF place
  <2> QED BY <1>1, <2>1
<1> QED BY <1>2, <1>3

\* No transaction of the attempt that is about to be sent exists yet.
LEMMA NotYetSent ==
  ASSUME TypeOK, SenderInv, NEW c \in Calls, pc[c] \in {"nonce", "send"}
  PROVE  \A i \in DOMAIN slots : slots[i] # current(c)
<1> SUFFICES ASSUME NEW i \in DOMAIN slots, slots[i] = current(c) PROVE FALSE
  OBVIOUS
<1>1. slots[i].call = c /\ slots[i].attempt = attempts[c] /\ SlotInv(i)
  BY CurrentTx DEF SenderInv
<1> QED BY <1>1 DEF SlotInv

\* Taking a transaction keeps the attempts apart, and what was mined.
LEMMA PlaceKeeps ==
  ASSUME TypeOK, SenderInv, NEW c \in Calls, place(c)
  PROVE  /\ AttemptsApart'
         /\ mined' <= Len(slots')
         /\ \A d \in Calls : attempts'[d] = attempts[d] /\ minedAs(d, TRUE)
                               => minedAs(d, TRUE)'
<1>1. UNCHANGED <<mined, reverted>> /\ pc[c] = "send" /\ mined \in Nat /\ Len(slots) \in Nat
      /\ Len(slots') \in Nat
  BY PlaceSlots DEF place, TypeOK
<1>2. AttemptsApart'
  <2> SUFFICES ASSUME NEW i \in DOMAIN slots', NEW j \in DOMAIN slots', slots'[i] = slots'[j]
               PROVE  i = j
    BY DEF AttemptsApart
  <2> QED BY <1>1, PlaceSlots, NotYetSent DEF SenderInv, AttemptsApart
<1>3. mined' <= Len(slots')
  BY <1>1, PlaceSlots DEF SenderInv
<1>4. ASSUME NEW d \in Calls, attempts'[d] = attempts[d], minedAs(d, TRUE)
      PROVE  minedAs(d, TRUE)'
  BY <1>1, <1>4, PlaceSlots DEF minedAs, current
<1> QED BY <1>2, <1>3, <1>4

\* Every step keeps the invariant.
LEMMA SenderStep ==
  ASSUME TypeOK, TypeOK', SenderInv, [Next]_vars
  PROVE  SenderInv'
<1>1. ASSUME NEW c \in Calls, enterLoop(c) PROVE SenderInv'
  <2>1. /\ UNCHANGED <<limit, attempts, slots, mined, reverted, unclear>>
        /\ pc[c] = "loop"
        /\ pc'[c] = IF c \in Retrying /\ ~(attempts[c] < limit) THEN "undefined" ELSE "nonce"
        /\ \A d \in Calls \ {c} : pc'[d] = pc[d]
    BY <1>1 DEF enterLoop, Goto, chain, TypeOK
  <2>2. ASSUME NEW i \in DOMAIN slots' PROVE SlotInv(i)'
    <3>1. SlotInv(i) /\ slots[i].call \in Calls
      BY <2>1, <2>2, SlotFacts
    <3> QED BY <2>1, <3>1 DEF SlotInv
  <2>3. ASSUME NEW d \in Calls PROVE CallInv(d)'
    <3>1. CallInv(d) /\ limit \in Nat
      BY LimitNat DEF SenderInv
    <3>2. minedAs(d, TRUE)' = minedAs(d, TRUE)
      BY <2>1 DEF minedAs, current
    <3>3. CASE d = c
      <4>1. limit \in Nat /\ attempts[c] \in Nat
        BY LimitNat
      <4>2. pc'[c] \in {"undefined", "nonce"} /\ (pc'[c] = "undefined" => limit = 0)
        BY <2>1, <3>1, <3>3, <4>1 DEF CallInv
      <4> QED BY <2>1, <3>3, <4>2 DEF CallInv
    <3>4. CASE d # c
      BY <2>1, <3>1, <3>2, <3>4 DEF CallInv
    <3> QED BY <3>3, <3>4
  <2> QED BY <2>1, <2>2, <2>3 DEF SenderInv, AttemptsApart
<1>2. ASSUME NEW c \in Calls, NEW l \in {"send", "loop"}, Goto(c, l),
             UNCHANGED <<limit, attempts, slots, mined, reverted, unclear>>,
             (pc[c] = "nonce" /\ l = "send") \/ (pc[c] = "sleep" /\ l = "loop")
      PROVE  SenderInv'
  <2>1. pc'[c] = l /\ \A d \in Calls \ {c} : pc'[d] = pc[d]
    BY <1>2 DEF Goto, TypeOK
  <2>2. ASSUME NEW i \in DOMAIN slots' PROVE SlotInv(i)'
    <3>1. SlotInv(i) /\ slots[i].call \in Calls
      BY <1>2, <2>2, SlotFacts
    <3> QED BY <1>2, <2>1, <3>1 DEF SlotInv
  <2>3. ASSUME NEW d \in Calls PROVE CallInv(d)'
    <3>1. CallInv(d)
      BY DEF SenderInv
    <3>2. minedAs(d, TRUE)' = minedAs(d, TRUE)
      BY <1>2 DEF minedAs, current
    <3> QED BY <1>2, <2>1, <3>1, <3>2 DEF CallInv
  <2> QED BY <1>2, <2>2, <2>3 DEF SenderInv, AttemptsApart
<1>3. ASSUME NEW c \in Calls, readNonce(c) \/ wake(c) PROVE SenderInv'
  <2>1. CASE readNonce(c)
    BY <1>2, <2>1 DEF readNonce, chain
  <2>2. CASE wake(c)
    BY <1>2, <2>2 DEF wake, chain
  <2> QED BY <1>3, <2>1, <2>2
<1>4. ASSUME NEW c \in Calls, refused(c) PROVE SenderInv'
  BY <1>4, ErrorKeeps, NotYetSent DEF refused
<1>5. ASSUME NEW c \in Calls, receiptReverted(c) PROVE SenderInv'
  <2>1. PICK i \in 1..mined : slots[i] = current(c) /\ i \in reverted
    BY <1>5 DEF receiptReverted, minedAs
  <2>2. i \in DOMAIN slots
    BY <2>1 DEF SenderInv, TypeOK
  <2>3. \A j \in DOMAIN slots : slots[j] = current(c) => j \in reverted
    BY <2>1, <2>2 DEF SenderInv, AttemptsApart
  <2> QED BY <1>5, <2>3, ErrorKeeps DEF receiptReverted
<1>6. ASSUME NEW c \in Calls, timeout(c) PROVE SenderInv'
  <2>1. /\ attempts[c] \in unclear'[c]
        /\ \A d \in Calls : unclear[d] \subseteq unclear'[d]
    BY <1>6 DEF timeout, uncertain, TypeOK
  <2> QED BY <1>6, <2>1, ErrorKeeps DEF timeout, uncertain
<1>7. ASSUME NEW c \in Calls, receiptOk(c) PROVE SenderInv'
  <2>1. /\ UNCHANGED <<limit, attempts, slots, mined, reverted, unclear>>
        /\ pc[c] = "receipt" /\ minedAs(c, TRUE)
        /\ pc'[c] = "returned" /\ \A d \in Calls \ {c} : pc'[d] = pc[d]
    BY <1>7 DEF receiptOk, Goto, chain, TypeOK
  <2>2. ASSUME NEW i \in DOMAIN slots' PROVE SlotInv(i)'
    <3>1. SlotInv(i) /\ slots[i].call \in Calls
      BY <2>1, <2>2, SlotFacts
    <3> QED BY <2>1, <3>1 DEF SlotInv
  <2>3. ASSUME NEW d \in Calls PROVE CallInv(d)'
    <3>1. CallInv(d)
      BY DEF SenderInv
    <3>2. minedAs(d, TRUE)' = minedAs(d, TRUE)
      BY <2>1 DEF minedAs, current
    <3>3. CASE d = c
      BY <2>1, <3>2, <3>3 DEF CallInv
    <3>4. CASE d # c
      BY <2>1, <3>1, <3>2, <3>4 DEF CallInv
    <3> QED BY <3>3, <3>4
  <2> QED BY <2>1, <2>2, <2>3 DEF SenderInv, AttemptsApart
<1>8. ASSUME NEW c \in Calls, taken(c) PROVE SenderInv'
  <2>1. /\ place(c) /\ UNCHANGED <<limit, attempts, mined, reverted, unclear>>
        /\ pc[c] = "send"
        /\ pc'[c] = "receipt" /\ \A d \in Calls \ {c} : pc'[d] = pc[d]
    BY <1>8 DEF taken, place, Goto, TypeOK
  <2>2. ASSUME NEW i \in DOMAIN slots' PROVE SlotInv(i)'
    <3>1. CASE i = nonce[c]
      <4>1. slots'[i].call = c /\ slots'[i].attempt = attempts[c]
        BY <2>1, <3>1, PlaceSlots, CurrentTx
      <4> QED BY <2>1, <4>1 DEF SlotInv, TypeOK
    <3>2. CASE i # nonce[c]
      <4>1. i \in DOMAIN slots /\ slots'[i] = slots[i]
        BY <2>1, <2>2, <3>2, PlaceSlots
      <4>2. SlotInv(i) /\ slots[i].call \in Calls
        BY <4>1, SlotFacts
      <4> QED BY <2>1, <4>1, <4>2 DEF SlotInv
    <3> QED BY <3>1, <3>2
  <2>3. ASSUME NEW d \in Calls PROVE CallInv(d)'
    <3>1. CallInv(d) /\ (minedAs(d, TRUE) => minedAs(d, TRUE)')
      BY <2>1, PlaceKeeps DEF SenderInv
    <3>2. CASE d = c
      BY <2>1, <3>2 DEF CallInv
    <3>3. CASE d # c
      BY <2>1, <3>1, <3>3 DEF CallInv
    <3> QED BY <3>2, <3>3
  <2> QED BY <2>1, <2>2, <2>3, PlaceKeeps DEF SenderInv
<1>9. ASSUME NEW c \in Calls, answerLost(c) PROVE SenderInv'
  <2>1. /\ place(c) /\ UNCHANGED <<limit, mined, reverted>>
        /\ pc[c] = "send"
        /\ attempts'[c] = attempts[c] + 1 /\ attempts[c] \in Nat
        /\ attempts[c] \in unclear'[c]
        /\ unclear[c] \subseteq unclear'[c]
        /\ pc'[c] = IF c \notin Retrying \/ attempts[c] + 1 >= limit THEN "threw" ELSE "sleep"
        /\ \A d \in Calls \ {c} :
             attempts'[d] = attempts[d] /\ unclear'[d] = unclear[d] /\ pc'[d] = pc[d]
    BY <1>9 DEF answerLost, place, uncertain, handleError, Goto, TypeOK
  <2>2. ASSUME NEW i \in DOMAIN slots' PROVE SlotInv(i)'
    <3>1. CASE i = nonce[c]
      <4>1. slots'[i].call = c /\ slots'[i].attempt = attempts[c]
        BY <2>1, <3>1, PlaceSlots, CurrentTx
      <4> QED BY <2>1, <4>1 DEF SlotInv
    <3>2. CASE i # nonce[c]
      <4>1. i \in DOMAIN slots /\ slots'[i] = slots[i]
        BY <2>1, <2>2, <3>2, PlaceSlots
      <4>2. SlotInv(i) /\ slots[i] \in Tx /\ slots[i].call \in Calls /\ slots[i].attempt \in Nat
        BY <4>1, SlotFacts
      <4>3. CASE slots[i].call = c
        BY <2>1, <4>1, <4>2, <4>3 DEF SlotInv
      <4>4. CASE slots[i].call # c
        BY <2>1, <4>1, <4>2, <4>4 DEF SlotInv
      <4> QED BY <4>3, <4>4
    <3> QED BY <3>1, <3>2
  <2>3. ASSUME NEW d \in Calls PROVE CallInv(d)'
    <3>1. CallInv(d) /\ (attempts'[d] = attempts[d] /\ minedAs(d, TRUE) => minedAs(d, TRUE)')
      BY <2>1, PlaceKeeps DEF SenderInv
    <3>2. CASE d = c
      <4>1. limit \in Nat /\ attempts[c] \in Nat
        BY LimitNat
      <4>2. pc'[c] \in {"threw", "sleep"} /\ (pc'[c] = "sleep" => attempts[c] + 1 < limit)
        BY <2>1, <4>1
      <4> QED BY <2>1, <3>2, <4>1, <4>2 DEF CallInv
    <3>3. CASE d # c
      BY <2>1, <3>1, <3>3 DEF CallInv
    <3> QED BY <3>2, <3>3
  <2> QED BY <2>1, <2>2, <2>3, PlaceKeeps DEF SenderInv
<1>10. CASE mine
  <2>1. /\ UNCHANGED <<limit, pc, attempts, slots, unclear>>
        /\ mined' = mined + 1 /\ mined < Len(slots) /\ mined \in Nat
        /\ reverted \subseteq reverted' /\ \A i \in 1..mined : i \in reverted' => i \in reverted
    BY <1>10 DEF mine, TypeOK
  <2>2. ASSUME NEW i \in DOMAIN slots' PROVE SlotInv(i)'
    BY <2>1, <2>2 DEF SenderInv, SlotInv
  <2>3. ASSUME NEW d \in Calls PROVE CallInv(d)'
    <3>1. minedAs(d, TRUE) => minedAs(d, TRUE)'
      BY <2>1 DEF minedAs, current
    <3>2. CallInv(d)
      BY DEF SenderInv
    <3> QED BY <2>1, <3>1, <3>2 DEF CallInv
  <2>4. mined' <= Len(slots')
    BY <2>1 DEF TypeOK
  <2> QED BY <2>1, <2>2, <2>3, <2>4 DEF SenderInv, AttemptsApart
<1>11. CASE UNCHANGED vars
  BY <1>11 DEF vars, SenderInv, AttemptsApart, SlotInv, CallInv, minedAs, current
<1> QED BY <1>1, <1>3, <1>4, <1>5, <1>6, <1>7, <1>8, <1>9, <1>10, <1>11
        DEF Next, Step, submit, settle

\* The types and the invariant hold in every reachable state.
THEOREM SenderInvariance == Spec => [](TypeOK /\ SenderInv)
<1>1. Init => TypeOK /\ SenderInv
  BY SenderAssumption DEF Init, TypeOK, SenderInv, AttemptsApart, SlotInv, CallInv, Ended
<1>2. TypeOK /\ SenderInv /\ [Next]_vars => (TypeOK /\ SenderInv)'
  BY SenderTypeStep, SenderStep
<1> QED BY <1>1, <1>2, PTL DEF Spec

\* Whatever the node, the network and the other calls do, a call executes only
\* the attempt it returns or waits for and those it gave up on uninformed.
THEOREM ExecutionsExplainedAlways == Spec => []ExecutionsExplained
<1>1. ASSUME TypeOK, SenderInv PROVE ExecutionsExplained
  <2>1. ASSUME NEW i \in (1..mined) \ reverted
        PROVE  LET t == slots[i]
               IN \/ t.attempt \in unclear[t.call]
                  \/ t = current(t.call) /\ pc[t.call] \in {"receipt", "returned"}
    <3>1. i \in DOMAIN slots
      BY <1>1, <2>1 DEF SenderInv, TypeOK
    <3>2. slots[i] \in Tx /\ slots[i].call \in Calls /\ SlotInv(i)
      BY <1>1, <3>1, SlotFacts
    <3> QED BY <1>1, <2>1, <3>2, CurrentTx DEF SlotInv
  <2> QED BY <1>1, <2>1 DEF ExecutionsExplained, SenderInv
<1> QED BY <1>1, SenderInvariance, PTL

\* A call that resolves was executed, if there was anything to attempt at all.
THEOREM ResolvedMeansExecutedAlways == Spec => []ResolvedMeansExecuted
<1>1. ASSUME TypeOK, SenderInv PROVE ResolvedMeansExecuted
  <2>1. limit \in Nat
    BY <1>1, LimitNat
  <2>2. ASSUME NEW c \in Calls, pc[c] = "returned" \/ (pc[c] = "undefined" /\ limit > 0)
        PROVE  minedAs(c, TRUE)
    <3>1. CallInv(c)
      BY <1>1 DEF SenderInv
    <3>2. pc[c] = "returned"
      BY <2>1, <2>2, <3>1 DEF CallInv
    <3> QED BY <3>1, <3>2 DEF CallInv
  <2> QED BY <2>2 DEF ResolvedMeansExecuted
<1> QED BY <1>1, SenderInvariance, PTL

============================================================================
