------------------------- MODULE ExactlyOnceArchive -------------------------
(***************************************************************************)
(* What stage 1 of the lake promises, without processes, locks, brokers or *)
(* snapshots (ADR-022): a position per partition that only moves forward,  *)
(* and a count of stored rows per record such that one step moves the      *)
(* position and stores every record it passes, once each, except those     *)
(* that were declared lost before the step.                                *)
(***************************************************************************)
EXTENDS Integers

CONSTANTS Partition, \* the (topic, partition) pairs
          Offset     \* the offsets a record can have

VARIABLES position,  \* next offset to archive, for each partition ever archived
          stored,    \* how many rows each record has
          lost       \* the records declared lost, as <<partition, offset>>

archiveVars == <<position, stored, lost>>

Init ==
  /\ position = [p \in {} |-> 0]
  /\ stored = [p \in Partition |-> [o \in Offset |-> 0]]
  /\ lost = {}

\* The records a step passes when p moves from `from` to position'[p].
Passed(p, from) == {o \in Offset : from <= o /\ o < position'[p]}

StoresOnce(p, from) ==
  stored'[p] = [o \in Offset |->
                  IF o \in Passed(p, from) /\ <<p, o>> \notin lost
                  THEN stored[p][o] + 1 ELSE stored[p][o]]

(***************************************************************************)
(* One commit: known partitions move forward from where they were, a       *)
(* partition seen for the first time starts anywhere, and a partition that *)
(* is not known afterwards stores nothing.                                 *)
(***************************************************************************)
Advance ==
  /\ DOMAIN position \subseteq DOMAIN position'
  /\ \A p \in DOMAIN position :
       position[p] <= position'[p] /\ StoresOnce(p, position[p])
  /\ \A p \in (DOMAIN position' \cap Partition) \ DOMAIN position :
       \E from \in 0..position'[p] : StoresOnce(p, from)
  /\ \A p \in Partition \ DOMAIN position' : stored'[p] = stored[p]
  /\ UNCHANGED lost

\* Only a record that has not been passed can be declared lost.
DeclareLost ==
  /\ lost \subseteq lost'
  /\ \A r \in lost' \ lost :
       r[1] \in DOMAIN position /\ position[r[1]] <= r[2]
  /\ UNCHANGED <<position, stored>>

Next == Advance \/ DeclareLost

Spec == Init /\ [][Next]_archiveVars
=============================================================================
