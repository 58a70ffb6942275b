------------------------------ MODULE Dollars ------------------------------
(***************************************************************************)
(* Sums over a finite set: one element for each unit.  A sum that is a     *)
(* cardinality is one the theorems of FiniteSetTheorems reach.             *)
(***************************************************************************)
EXTENDS Integers, FiniteSets

\* the sum of the naturals f[x], x in S
SumOf(f, S) == Cardinality(UNION {{x} \X (1 .. f[x]) : x \in S})

\* the sum of the integers f[x], x in S: what is gained less what is lost
Gains(f, S)  == [x \in S |-> IF f[x] > 0 THEN f[x] ELSE 0]
Losses(f, S) == [x \in S |-> IF f[x] < 0 THEN -f[x] ELSE 0]
NetOf(f, S)  == SumOf(Gains(f, S), S) - SumOf(Losses(f, S), S)
=============================================================================
