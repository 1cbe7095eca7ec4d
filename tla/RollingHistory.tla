-------------------------- MODULE RollingHistory --------------------------
(***************************************************************************)
(* What compaction promises about the history of one agent, without saying *)
(* how: rows are only added, a growing prefix of them is replaced by a     *)
(* summary, only while a compaction is owed, and never any of the newest   *)
(* KeepTail rows.                                                          *)
(***************************************************************************)
EXTENDS Naturals

CONSTANT KeepTail   \* limits.keep_tail_messages

VARIABLES
  rows,             \* message rows stored
  covered,          \* of these, the oldest ones a summary speaks for
  owed              \* a compaction is owed

vars == <<rows, covered, owed>>

Init == rows = 0 /\ covered = 0 /\ owed = FALSE

(* A row is stored; a final reply may leave a compaction behind it. *)
Write ==
  /\ rows' = rows + 1
  /\ owed' \in {owed, TRUE}
  /\ UNCHANGED covered

(* A request the model had no room for. *)
Owe ==
  /\ rows > 0
  /\ owed' = TRUE
  /\ UNCHANGED <<rows, covered>>

(* A summary replaces more rows; the debt may be settled with it. *)
Cover ==
  /\ owed
  /\ covered < covered'
  /\ covered' + KeepTail <= rows
  /\ owed' \in BOOLEAN
  /\ UNCHANGED rows

Settle ==
  /\ owed
  /\ owed' = FALSE
  /\ UNCHANGED <<rows, covered>>

Next == Write \/ Owe \/ Cover \/ Settle

Spec == Init /\ [][Next]_vars
=============================================================================
