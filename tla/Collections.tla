----------------------------- MODULE Collections -----------------------------
(***************************************************************************)
(* Sums over finite sets and selections from sequences, for the modules    *)
(* that are proved about.  A selection is given by a set of positions: the *)
(* provers know nothing of SelectSeq.                                      *)
(***************************************************************************)
EXTENDS Integers, Sequences, FiniteSets, FiniteSetsExt

\* The sum of f over the elements of S.
SumOver(f, S) == MapThenSumSet(LAMBDA x : f[x], S)

\* The elements of s at the positions in K, in their order.
Selected(s, K) ==
    LET upTo[k \in 0..Len(s)] ==
          IF k = 0 THEN << >>
          ELSE IF k \in K THEN Append(upTo[k - 1], s[k])
          ELSE upTo[k - 1]
    IN upTo[Len(s)]
=============================================================================
