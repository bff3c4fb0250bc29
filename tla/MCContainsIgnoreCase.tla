----------------------- MODULE MCContainsIgnoreCase -----------------------
(***************************************************************************)
(* ContainsIgnoreCase on all pairs of: strings of up to two bytes around   *)
(* the ends of the two letter ranges, '@' and 'A' (64, 65), 'Z' and '['    *)
(* (90, 91), '`' and 'a' (96, 97), 'z' and '{' (122, 123); and longer      *)
(* strings of few letters, in which a match can start after a long partial *)
(* one.                                                                    *)
(***************************************************************************)
EXTENDS ContainsIgnoreCase

MCStrings ==
  UNION {[1..n -> {64, 65, 90, 91, 96, 97, 122, 123}] : n \in 0..2}
    \cup [1..3 -> {65, 97, 122}] \cup [1..4 -> {65, 122}]
============================================================================
