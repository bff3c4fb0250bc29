------------------------ MODULE ContainsIgnoreCase ------------------------
(***************************************************************************)
(* The search loop of _containsIgnoreCase (contracts/NFTMarketplace.sol)   *)
(* that every collection search runs over names, symbols and categories:   *)
(* two nested loops over the bytes of two strings.  A string is a sequence *)
(* of bytes, 1-based here and 0-based in the code: base[i + j] of the code *)
(* is base[i + j + 1].                                                     *)
(***************************************************************************)
EXTENDS Integers, Sequences

CONSTANT Strings   \* the strings the function is called with

ASSUME StringsAssumption == Strings \subseteq Seq(0..255)

VARIABLES base, search, pc, i, j, found, result

vars == <<base, search, pc, i, j, found, result>>

lower_MissesZ(b) == IF b >= 65 /\ b < 90 THEN b + 32 ELSE b

\* b |= 0x20 when b is between 0x41 and 0x5A, where that bit is clear.
lower(b) == IF b >= 65 /\ b <= 90 THEN b + 32 ELSE b

TypeOK ==
  /\ base \in Strings
  /\ search \in Strings
  /\ pc \in {"start", "outer", "inner", "check", "done"}
  /\ i \in Nat
  /\ j \in Nat
  /\ found \in BOOLEAN
  /\ result \in BOOLEAN

Init ==
  /\ base \in Strings
  /\ search \in Strings
  /\ pc = "start"
  /\ i = 0
  /\ j = 0
  /\ found = FALSE
  /\ result = FALSE

Return(value) ==
  /\ pc' = "done"
  /\ result' = value
  /\ UNCHANGED <<base, search, i, j, found>>

Start_NoLengthCheck ==
  /\ pc = "start"
  /\ \/ Len(search) = 0 /\ Return(TRUE)
     \/ /\ Len(search) # 0
        /\ pc' = "outer"
        /\ UNCHANGED <<base, search, i, j, found, result>>

\* The two early returns, then the start of the outer loop.
Start ==
  /\ pc = "start"
  /\ \/ Len(search) = 0 /\ Return(TRUE)
     \/ Len(search) # 0 /\ Len(base) < Len(search) /\ Return(FALSE)
     \/ /\ Len(search) # 0 /\ Len(base) >= Len(search)
        /\ pc' = "outer"
        /\ UNCHANGED <<base, search, i, j, found, result>>

\* The head of the outer loop; when it ends nothing matched.
Outer ==
  /\ pc = "outer"
  /\ \/ i > Len(base) - Len(search) /\ Return(FALSE)
     \/ /\ i <= Len(base) - Len(search)
        /\ found' = TRUE
        /\ j' = 0
        /\ pc' = "inner"
        /\ UNCHANGED <<base, search, i, result>>

\* One round of the inner loop, left by a mismatch or at the end of search.
Inner ==
  /\ pc = "inner"
  /\ \/ /\ j < Len(search)
        /\ lower(base[i + j + 1]) = lower(search[j + 1])
        /\ j' = j + 1
        /\ UNCHANGED <<pc, found>>
     \/ /\ j < Len(search)
        /\ lower(base[i + j + 1]) # lower(search[j + 1])
        /\ found' = FALSE
        /\ pc' = "check"
        /\ UNCHANGED j
     \/ /\ j >= Len(search)
        /\ pc' = "check"
        /\ UNCHANGED <<j, found>>
  /\ UNCHANGED <<base, search, i, result>>

Check_SameOffset ==
  /\ pc = "check"
  /\ \/ found /\ Return(TRUE)
     \/ /\ ~found
        /\ pc' = "outer"
        /\ UNCHANGED <<base, search, i, j, found, result>>

\* if (found) return true; otherwise the next round of the outer loop.
Check ==
  /\ pc = "check"
  /\ \/ found /\ Return(TRUE)
     \/ /\ ~found
        /\ i' = i + 1
        /\ pc' = "outer"
        /\ UNCHANGED <<base, search, j, found, result>>

Next == Start \/ Outer \/ Inner \/ Check

\* The function runs to its end once it is called.
Spec == Init /\ [][Next]_vars /\ WF_vars(Next)

----------------------------------------------------------------------------

\* Two bytes are equal up to the case of an ASCII letter.
SameLetter(a, b) ==
  \/ a = b
  \/ a \in 65..90 /\ b = a + 32
  \/ b \in 65..90 /\ a = b + 32

\* search occurs in base at offset k (from 0), letters of either case equal.
MatchesAt(k) ==
  \A m \in 1..Len(search) : SameLetter(base[k + m], search[m])

Contains == \E k \in 0..(Len(base) - Len(search)) : MatchesAt(k)

\* _containsIgnoreCase answers what its name says: true exactly when the search
\* string occurs in the base string up to the case of ASCII letters.
Correct == pc = "done" => (result <=> Contains)

\* No checked operation of the loops fails: the subtraction of the lengths does
\* not underflow and neither string is read past its end.
NoPanic ==
  /\ pc = "outer" => Len(base) - Len(search) >= 0
  /\ pc = "inner" /\ j < Len(search) => i + j + 1 \in DOMAIN base

\* The loops end for every pair of strings.
Terminates == <>(pc = "done")

============================================================================
