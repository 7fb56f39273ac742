------------------------------ MODULE Fractions ------------------------------
(***************************************************************************)
(* Exact fractions, for the Decimal quotients of the cost basis.  Decimal  *)
(* carries 28 significant digits; what it rounds off is not modelled.      *)
(* Fractions are kept in lowest terms, so that equal ones are equal.       *)
(***************************************************************************)
EXTENDS Integers

Magnitude(n) == IF n < 0 THEN -n ELSE n

gcd[p \in Nat \X Nat] == IF p[2] = 0 THEN p[1] ELSE gcd[<<p[2], p[1] % p[2]>>]

\* n / d, for d # 0.
Fraction(n, d) ==
  LET g == gcd[<<Magnitude(n), Magnitude(d)>>]
      sign == IF d < 0 THEN -1 ELSE 1
  IN  [num |-> sign * (n \div g), den |-> sign * (d \div g)]

Whole(n) == [num |-> n, den |-> 1]
Zero == Whole(0)

Plus(x, y)   == Fraction(x.num * y.den + y.num * x.den, x.den * y.den)
Minus(x, y)  == Fraction(x.num * y.den - y.num * x.den, x.den * y.den)
Times(x, k)  == Fraction(x.num * k, x.den)
Over(x, k)   == Fraction(x.num, x.den * k)
Positive(x)  == x.num > 0
=============================================================================
