---------------------------- MODULE MCBooksReplay ----------------------------
(***************************************************************************)
(* Instances of BooksReplay for TLC: kraken's book is replayed, binance    *)
(* sends whole books.                                                      *)
(***************************************************************************)
EXTENDS BooksReplay

CONSTANTS kraken, binance

Both == <<binance, kraken>>
One  == <<kraken>>

\* One Spark partition: every connection's frames follow those of a lower key.
OnePartition ==
  {<<k, j>> \in Key \X Key : k[1] < j[1] \/ (k[1] = j[1] /\ k[2] < j[2])}

\* The second change is below level ten until one from the fourth on lifts it.
Shallow(book) == IF \E n \in book : n >= 4 THEN book ELSE book \ {2}
=============================================================================
