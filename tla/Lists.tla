-------------------------------- MODULE Lists --------------------------------
(***************************************************************************)
(* What a list keeps when it is filtered: JavaScript's filter, a condition  *)
(* of a query.  It says what SelectSeq says, by a recursive function that   *)
(* can be reasoned about.                                                   *)
(***************************************************************************)
EXTENDS Naturals, Sequences

\* The entries of s that are in S, in their order: kept[i] is what is left of the
\* first i entries.
Filter(s, S) ==
    LET kept[i \in 0..Len(s)] ==
          IF i = 0 THEN << >>
          ELSE IF s[i] \in S THEN Append(kept[i - 1], s[i]) ELSE kept[i - 1]
    IN  kept[Len(s)]
=============================================================================
