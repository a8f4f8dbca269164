-------------------------------- MODULE Runtime -------------------------------
(* What the background components share: the clock, and the bounds of the     *)
(* behaviour, among them the faults that may still strike.                    *)
EXTENDS Integers, Sequences, FiniteSets

CONSTANT Scenarios      \* each behaviour draws one: its bounds, and who takes part
VARIABLES now, budget

Takes(part) == part \in budget.parts
Left(bound) == budget[bound] > 0
Spends(bound) == Left(bound) /\ budget' = [budget EXCEPT ![bound] = @ - 1]
(* The sum of a sequence of numbers. *)
SumOfAll(numbers) ==
  LET upto[i \in 0..Len(numbers)] == IF i = 0 THEN 0 ELSE upto[i - 1] + numbers[i] IN upto[Len(numbers)]
=============================================================================
