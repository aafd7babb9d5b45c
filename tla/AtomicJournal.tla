--------------------------- MODULE AtomicJournal ---------------------------
(***************************************************************************)
(* What the recovery journal is to those who use it: one cell that is      *)
(* replaced or removed as a whole, and that a loss of power takes back to  *)
(* what has reached the disk.                                              *)
(***************************************************************************)
CONSTANTS Records,  \* session records
          NoFile    \* no journal

VARIABLES value,    \* what the journal says
          disk      \* what it will say after a loss of power

vars == <<value, disk>>

Init == value = NoFile /\ disk = NoFile

\* A change that is not flushed: whether it reaches the disk before the power
\* goes is settled here and shows only then.
Put(r) == value' = r /\ disk' \in {disk, r}

Flush == disk' = value /\ UNCHANGED value

\* Put and Flush in one step, for a user who excludes all others meanwhile.
Write(r) == value' = r /\ disk' = r

PowerLoss == value' = disk /\ UNCHANGED disk

Next == (\E r \in Records \cup {NoFile} : Put(r)) \/ Flush \/ PowerLoss

Spec == Init /\ [][Next]_vars
=============================================================================
