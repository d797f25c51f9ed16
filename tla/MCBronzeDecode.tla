--------------------------- MODULE MCBronzeDecode ---------------------------
(***************************************************************************)
(* Instances of BronzeDecode for TLC: venue 1 has two tables, like kraken  *)
(* and its trade and book, and venue 2 has one.                            *)
(***************************************************************************)
EXTENDS BronzeDecode

CONSTANTS known, other

TwoThenOne == [v \in {1, 2} |-> IF v = 1 THEN 2 ELSE 1]

\* What a stage 1 commit adds: both venues, or one of them while the other is quiet.
KnownFrames ==
  {[v \in {1, 2} |-> IF v \in heard THEN {known} ELSE {}] :
     heard \in (SUBSET {1, 2}) \ {{}}}

\* ... some of them under a schema id nobody registered.
BothFrames ==
  KnownFrames \cup {[v \in {1, 2} |-> {known, other}],
                    [v \in {1, 2} |-> IF v = 1 THEN {other} ELSE {}]}
=============================================================================
