------------------------------- MODULE Totals --------------------------------
(* The sum of a sequence of numbers, for the properties that count: a       *)
(* recursive function, so that facts about it can be proved.                *)
EXTENDS Integers, Sequences

Total(numbers) ==
  LET upTo[n \in 0 .. Len(numbers)] == IF n = 0 THEN 0 ELSE upTo[n - 1] + numbers[n]
  IN  upTo[Len(numbers)]
=============================================================================
