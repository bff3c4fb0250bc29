--------------------- MODULE ContainsIgnoreCaseProofs ---------------------
(***************************************************************************)
(* _containsIgnoreCase is correct for all strings.                         *)
(***************************************************************************)
EXTENDS ContainsIgnoreCase, SequenceTheorems, TLAPS

\* What the loops know at each point: no offset before i matches; inside the
\* inner loop the first j bytes agree at offset i; after it found says whether
\* all of them do.
LoopInv ==
  /\ pc = "start" => i = 0
  /\ pc \in {"outer", "inner", "check"} =>
       /\ Len(search) <= Len(base)
       /\ \A k \in 0..(i - 1) : ~MatchesAt(k)
  /\ pc \in {"inner", "check"} => i <= Len(base) - Len(search)
  /\ pc = "inner" => /\ found
                     /\ j <= Len(search)
                     /\ \A m \in 1..j : SameLetter(base[i + m], search[m])
  /\ pc = "check" => (found <=> MatchesAt(i))

IInv == TypeOK /\ LoopInv /\ Correct

\* The lengths of the two strings are natural numbers.
LEMMA LengthsAreNat ==
  ASSUME TypeOK
  PROVE  Len(base) \in Nat /\ Len(search) \in Nat
BY StringsAssumption DEF TypeOK

\* The variables keep their types.
LEMMA TypeStep ==
  ASSUME TypeOK, [Next]_vars
  PROVE  TypeOK'
<1>1. found' \in BOOLEAN /\ result' \in BOOLEAN
  BY Zenon DEF TypeOK, Next, vars, Start, Outer, Inner, Check, Return
<1>2. /\ base' \in Strings /\ search' \in Strings
      /\ pc' \in {"start", "outer", "inner", "check", "done"}
  BY DEF TypeOK, Next, vars, Start, Outer, Inner, Check, Return
<1>3. i' \in Nat /\ j' \in Nat
  BY DEF TypeOK, Next, vars, Start, Outer, Inner, Check, Return
<1> QED BY <1>1, <1>2, <1>3 DEF TypeOK

\* Folding two bytes to lower case compares them up to case.
LEMMA LowerSame ==
  ASSUME NEW a \in 0..255, NEW b \in 0..255
  PROVE  lower(a) = lower(b) <=> SameLetter(a, b)
BY DEF lower, SameLetter

\* A step that leaves both strings alone leaves every match alone.
LEMMA MatchesUnchanged ==
  ASSUME UNCHANGED <<base, search>>, NEW k
  PROVE  MatchesAt(k)' <=> MatchesAt(k)
BY DEF MatchesAt, SameLetter

\* The checks before the loops establish the loop invariant or answer.
LEMMA StartStep ==
  ASSUME IInv, Start
  PROVE  (LoopInv /\ Correct)'
<1>0. Len(base) \in Nat /\ Len(search) \in Nat
  BY LengthsAreNat DEF IInv
<1>1. CASE Len(search) = 0 /\ Return(TRUE)
  <2>1. MatchesAt(0)
    BY <1>0, <1>1 DEF MatchesAt
  <2>2. Contains
    BY <1>0, <1>1, <2>1 DEF Contains
  <2> QED
    BY <1>1, <2>2 DEF Return, LoopInv, Correct, Contains, MatchesAt, SameLetter
<1>2. CASE Len(search) # 0 /\ Len(base) < Len(search) /\ Return(FALSE)
  BY <1>0, <1>2 DEF Return, LoopInv, Correct, Contains
<1>3. CASE /\ Len(search) # 0 /\ Len(base) >= Len(search)
           /\ pc' = "outer"
           /\ UNCHANGED <<base, search, i, j, found, result>>
  BY <1>0, <1>3 DEF Start, IInv, TypeOK, LoopInv, Correct
<1> QED BY <1>1, <1>2, <1>3 DEF Start

\* The head of the outer loop: the next offset, or none is left.
LEMMA OuterStep ==
  ASSUME IInv, Outer
  PROVE  (LoopInv /\ Correct)'
<1>0. Len(base) \in Nat /\ Len(search) \in Nat /\ i \in Nat
  BY LengthsAreNat DEF IInv, TypeOK
<1>1. CASE i > Len(base) - Len(search) /\ Return(FALSE)
  <2>1. ~Contains
    BY <1>0, <1>1 DEF IInv, LoopInv, Outer, Contains
  <2> QED
    BY <1>1, <2>1 DEF Return, LoopInv, Correct, Contains, MatchesAt, SameLetter
<1>2. CASE /\ i <= Len(base) - Len(search)
           /\ found' = TRUE
           /\ j' = 0
           /\ pc' = "inner"
           /\ UNCHANGED <<base, search, i, result>>
  BY <1>0, <1>2, MatchesUnchanged DEF IInv, LoopInv, Outer, Correct
<1> QED BY <1>1, <1>2 DEF Outer

\* One comparison of the inner loop.
LEMMA InnerStep ==
  ASSUME IInv, Inner
  PROVE  (LoopInv /\ Correct)'
<1>0. /\ Len(base) \in Nat /\ Len(search) \in Nat /\ i \in Nat /\ j \in Nat
      /\ pc = "inner"
      /\ UNCHANGED <<base, search, i, result>>
  BY LengthsAreNat DEF IInv, TypeOK, Inner
<1>a. ASSUME j < Len(search)
      PROVE  lower(base[i + j + 1]) = lower(search[j + 1])
               <=> SameLetter(base[i + (j + 1)], search[j + 1])
  <2>1. base \in Seq(0..255) /\ search \in Seq(0..255)
    BY StringsAssumption DEF IInv, TypeOK
  <2>2. /\ i + (j + 1) = i + j + 1
        /\ i + j + 1 \in 1..Len(base) /\ j + 1 \in 1..Len(search)
    BY <1>0, <1>a DEF IInv, LoopInv
  <2>3. base[i + j + 1] \in 0..255 /\ search[j + 1] \in 0..255
    BY <2>1, <2>2, ElementOfSeq, Zenon
  <2>4. lower(base[i + j + 1]) = lower(search[j + 1])
          <=> SameLetter(base[i + j + 1], search[j + 1])
    BY <2>3, LowerSame
  <2> QED BY <2>2, <2>4
<1>1. CASE /\ j < Len(search)
           /\ lower(base[i + j + 1]) = lower(search[j + 1])
           /\ j' = j + 1
           /\ UNCHANGED <<pc, found>>
  <2>1. \A m \in 1..(j + 1) : SameLetter(base[i + m], search[m])
    <3> SUFFICES ASSUME NEW m \in 1..(j + 1)
                 PROVE  SameLetter(base[i + m], search[m])
      OBVIOUS
    <3>1. CASE m = j + 1
      BY <1>a, <1>1, <3>1
    <3>2. CASE m \in 1..j
      BY <1>0, <3>2 DEF IInv, LoopInv
    <3> QED BY <1>0, <3>1, <3>2
  <2> QED BY <1>0, <1>1, <2>1, MatchesUnchanged DEF IInv, LoopInv, Correct, SameLetter
<1>2. CASE /\ j < Len(search)
           /\ lower(base[i + j + 1]) # lower(search[j + 1])
           /\ found' = FALSE
           /\ pc' = "check"
           /\ UNCHANGED j
  <2>0. j + 1 \in 1..Len(search)
    BY <1>0, <1>2
  <2>1. ~MatchesAt(i)
    BY <1>a, <1>2, <2>0, Zenon DEF MatchesAt
  <2> QED BY <1>0, <1>2, <2>1, MatchesUnchanged DEF IInv, LoopInv, Correct
<1>3. CASE /\ j >= Len(search)
           /\ pc' = "check"
           /\ UNCHANGED <<j, found>>
  <2>0. j = Len(search)
    BY <1>0, <1>3 DEF IInv, LoopInv
  <2>1. MatchesAt(i) /\ found
    BY <1>0, <2>0 DEF IInv, LoopInv, MatchesAt
  <2> QED BY <1>0, <1>3, <2>1, MatchesUnchanged DEF IInv, LoopInv, Correct
<1> QED BY <1>1, <1>2, <1>3 DEF Inner

\* The found flag after the inner loop.
LEMMA CheckStep ==
  ASSUME IInv, Check
  PROVE  (LoopInv /\ Correct)'
<1>0. Len(base) \in Nat /\ Len(search) \in Nat /\ i \in Nat /\ pc = "check"
  BY LengthsAreNat DEF IInv, TypeOK, Check
<1>1. CASE found /\ Return(TRUE)
  <2>1. Contains
    BY <1>0, <1>1 DEF IInv, LoopInv, Contains
  <2> QED
    BY <1>1, <2>1 DEF Return, LoopInv, Correct, Contains, MatchesAt, SameLetter
<1>2. CASE /\ ~found
           /\ i' = i + 1
           /\ pc' = "outer"
           /\ UNCHANGED <<base, search, j, found, result>>
  <2>1. \A k \in 0..i : ~MatchesAt(k)
    BY <1>0, <1>2 DEF IInv, LoopInv
  <2> QED BY <1>0, <1>2, <2>1, MatchesUnchanged DEF IInv, LoopInv, Correct
<1> QED BY <1>1, <1>2 DEF Check

\* The inductive invariant holds in every reachable state.
THEOREM Invariance == Spec => []IInv
<1>1. Init => IInv
  <2>1. Init => found \in BOOLEAN /\ result \in BOOLEAN
    BY Zenon DEF Init
  <2>2. Init => TypeOK
    BY <2>1 DEF Init, TypeOK
  <2> QED BY <2>2 DEF Init, IInv, LoopInv, Correct
<1>2. IInv /\ [Next]_vars => IInv'
  <2> SUFFICES ASSUME IInv, [Next]_vars PROVE IInv'
    OBVIOUS
  <2>1. TypeOK'
    BY TypeStep DEF IInv
  <2>2. CASE UNCHANGED vars
    BY <2>1, <2>2 DEF IInv, LoopInv, Correct, Contains, MatchesAt, SameLetter, vars
  <2> QED
    BY <2>1, <2>2, StartStep, OuterStep, InnerStep, CheckStep DEF IInv, Next
<1> QED BY <1>1, <1>2, PTL DEF Spec

\* _containsIgnoreCase, when it returns, has decided whether the search string
\* occurs in the base string up to the case of ASCII letters.
THEOREM CorrectAlways == Spec => []Correct
<1>1. IInv => Correct
  BY DEF IInv
<1> QED BY <1>1, Invariance, PTL

\* None of its checked operations fails: no underflow, no read past an end.
THEOREM NoPanicAlways == Spec => []NoPanic
<1>1. IInv => NoPanic
  <2> SUFFICES ASSUME IInv PROVE NoPanic
    OBVIOUS
  <2>0. /\ Len(base) \in Nat /\ Len(search) \in Nat /\ i \in Nat /\ j \in Nat
        /\ base \in Seq(0..255)
    BY LengthsAreNat, StringsAssumption DEF IInv, TypeOK
  <2> QED BY <2>0 DEF IInv, LoopInv, NoPanic
<1> QED BY <1>1, Invariance, PTL

============================================================================
