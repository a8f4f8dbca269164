------------------------------ MODULE RowLedger ------------------------------
(* What a capture store promises about the rows handed to it: a row waits,   *)
(* is stored, or is gone. It moves only forward: a stored row never waits    *)
(* again (it would be written twice), a row that is gone never comes back.   *)

CONSTANT Rows
VARIABLES waiting, stored, gone
ledger == <<waiting, stored, gone>>

Init == waiting = {} /\ stored = {} /\ gone = {}

(* A new row is accepted; rows it supersedes are gone.                       *)
Accept(r, D) ==
  /\ r \notin waiting \cup stored \cup gone
  /\ D \subseteq waiting
  /\ waiting' = (waiting \ D) \cup {r}
  /\ gone' = gone \cup D
  /\ UNCHANGED stored

(* Some waiting rows are stored; rows they replace, and waiting rows that    *)
(* are refused, are gone.                                                    *)
Store(S, D) ==
  /\ S \subseteq waiting
  /\ D \subseteq (waiting \cup stored) \ S
  /\ waiting' = waiting \ (S \cup D)
  /\ stored' = (stored \cup S) \ D
  /\ gone' = gone \cup D

Step ==
  \/ \E r \in Rows, D \in SUBSET waiting : Accept(r, D)
  \/ \E S \in SUBSET waiting : \E D \in SUBSET (waiting \cup stored) : Store(S, D)

Spec == Init /\ [][Step]_ledger
=============================================================================
