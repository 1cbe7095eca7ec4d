-------------------------- MODULE AdmissionPolicy --------------------------
(***************************************************************************)
(* What inference.rs promises ("Inference scheduling" in design.md),       *)
(* without its mutex, tasks or wake-ups: at most Cap requests are with the *)
(* model, player-visible requests go first, and an agent that owes a       *)
(* compaction makes no request of its own until the debt is settled.       *)
(***************************************************************************)
EXTENDS Naturals, FiniteSets

CONSTANTS Agent, Cap

VARIABLES
  owed,        \* agents that owe a compaction: durable
  waiting,     \* agents with a player-visible request not yet admitted
  inferring,   \* agents whose request is with the model
  compacting   \* agents whose compaction request is with the model

pvars == <<owed, waiting, inferring, compacting>>

SlotLeft == Cardinality(inferring) + Cardinality(compacting) < Cap

PInit == owed = {} /\ waiting = {} /\ inferring = {} /\ compacting = {}

Request(a) ==
  /\ a \notin owed \cup waiting \cup inferring
  /\ waiting' = waiting \cup {a}
  /\ UNCHANGED <<owed, inferring, compacting>>

Withdraw(a) ==
  /\ a \in waiting
  /\ waiting' = waiting \ {a}
  /\ UNCHANGED <<owed, inferring, compacting>>

Admit(a) ==
  /\ a \in waiting
  /\ SlotLeft
  /\ waiting' = waiting \ {a}
  /\ inferring' = inferring \cup {a}
  /\ UNCHANGED <<owed, compacting>>

Return(a) ==
  /\ a \in inferring
  /\ inferring' = inferring \ {a}
  /\ UNCHANGED <<owed, waiting, compacting>>

Owe(a) ==
  /\ a \notin owed \cup waiting \cup inferring
  /\ owed' = owed \cup {a}
  /\ UNCHANGED <<waiting, inferring, compacting>>

Compact(a) ==
  /\ a \in owed \ compacting
  /\ waiting = {}
  /\ SlotLeft
  /\ compacting' = compacting \cup {a}
  /\ UNCHANGED <<owed, waiting, inferring>>

Compacted(a) ==
  /\ a \in compacting
  /\ compacting' = compacting \ {a}
  /\ UNCHANGED <<owed, waiting, inferring>>

Settle(a) ==
  /\ a \in owed \ compacting
  /\ owed' = owed \ {a}
  /\ UNCHANGED <<waiting, inferring, compacting>>

Crash ==
  /\ waiting' = {} /\ inferring' = {} /\ compacting' = {}
  /\ UNCHANGED owed

PNext ==
  \/ Crash
  \/ \E a \in Agent :
       \/ Request(a) \/ Withdraw(a) \/ Admit(a) \/ Return(a)
       \/ Owe(a) \/ Compact(a) \/ Compacted(a) \/ Settle(a)

PSpec == PInit /\ [][PNext]_pvars
=============================================================================
