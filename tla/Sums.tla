-------------------------------- MODULE Sums --------------------------------
(***************************************************************************)
(* The sum of the first n values of a function, as the running total that  *)
(* Python's sum(..., start=ZERO) keeps.                                    *)
(***************************************************************************)
EXTENDS Integers

\* running[i] is the total of f[1], ..., f[i].
SumTo(f, n) ==
  LET running[i \in 0..n] == IF i = 0 THEN 0 ELSE running[i - 1] + f[i]
  IN  running[n]
=============================================================================
