------------------------------ MODULE CostBasis ------------------------------
(***************************************************************************)
(* Moving-average cost and realized profit of one holding, as a security   *)
(* leg of a quantity and an amount changes them: once as the posting       *)
(* projects it, once as the replay folds it.                               *)
(***************************************************************************)
EXTENDS Fractions

NoPosition == [quantity |-> 0, average |-> Zero, realized |-> Zero]

Basis(p) == Times(p.average, p.quantity)

\* The unit cost of a basis; a position without shares has none.
UnitCost(basis, quantity) == IF quantity = 0 THEN Zero ELSE Over(basis, quantity)

\* Shares come in at the amount they cost.
Acquired(p, quantity, amount) ==
  [p EXCEPT !.quantity = @ + quantity,
            !.average = UnitCost(Plus(Basis(p), Whole(amount)), p.quantity + quantity)]

\* Mutant: the proceeds are realized whole, without the cost of what was sold.
ReleasedFree(p, sold, amount) ==
  [p EXCEPT !.quantity = @ - sold,
            !.average  = IF p.quantity = sold THEN Zero ELSE @,
            !.realized = Plus(@, Whole(-amount))]

\* Shares go out at average cost; the rest of the proceeds is realized.
Released(p, sold, amount) ==
  [p EXCEPT !.quantity = @ - sold,
            !.average  = IF p.quantity = sold THEN Zero ELSE @,
            !.realized = Plus(@, Minus(Whole(-amount), Times(p.average, sold)))]

\* Cash comes back against the basis, which stops at zero.
Repaid(p, amount) ==
  LET adjusted == Plus(Basis(p), Whole(amount))
  IN  [p EXCEPT !.average = IF Positive(adjusted) THEN Over(adjusted, p.quantity) ELSE Zero]

\* _apply_position, once the position is known to cover the leg.
ApplyPosition(p, quantity, amount) ==
  IF quantity > 0 THEN Acquired(p, quantity, amount) ELSE
  IF quantity < 0 THEN Released(p, -quantity, amount) ELSE p

\* Mutant: the replay knows no return of capital.
FoldTradesOnly(p, quantity, amount) == ApplyPosition(p, quantity, amount)

\* _fold_security_leg: it demands no cover, and takes a leg without a quantity
\* for a return of capital.
FoldSecurityLeg(p, quantity, amount) ==
  IF quantity > 0 THEN Acquired(p, quantity, amount) ELSE
  IF quantity < 0 THEN Released(p, -quantity, amount) ELSE
  IF amount # 0 /\ p.quantity > 0 THEN Repaid(p, amount) ELSE p
=============================================================================
