-------------------------- MODULE PerformanceProofs --------------------------
(***************************************************************************)
(* Proofs about Performance, for every tape of closes, length of the day,  *)
(* and order in which postings and snapshots alternate.                    *)
(***************************************************************************)
EXTENDS Performance, HoldingsProofs

-----------------------------------------------------------------------------
(* What a replay finds *)

\* A position of some shares, which a replay may find short.
IsHolding(p) ==
  /\ p.quantity \in Int
  /\ \E average, realized : p = [quantity |-> p.quantity, average |-> average, realized |-> realized]

LEMMA FoldedHolding ==
  ASSUME NEW x, IsHolding(x.position), x.cash \in Int, NEW e \in Events
  PROVE  /\ IsHolding(FoldEvent(x, e).position)
         /\ FoldEvent(x, e).cash = x.cash + e.legs.cash
<1> DEFINE p == x.position
           q == e.legs.quantity
           a == e.legs.security
<1>1. /\ FoldEvent(x, e).position = IF e.legs.ticker = NoTicker THEN p ELSE FoldSecurityLeg(p, q, a)
      /\ FoldEvent(x, e).cash = x.cash + e.legs.cash
  BY DEF FoldEvent
<1>2. q \in Int /\ p.quantity \in Int
  BY DEF Events, Legs, IsHolding
<1>3. PICK average, realized : p = [quantity |-> p.quantity, average |-> average, realized |-> realized]
  BY DEF IsHolding
<1>9. PICK n \in Int : n = p.quantity /\ p = [quantity |-> n, average |-> average, realized |-> realized]
  BY <1>2, <1>3
<1> HIDE DEF p, q, a
<1>4. ASSUME NEW quantity \in Int, NEW other, NEW made
      PROVE  IsHolding([quantity |-> quantity, average |-> other, realized |-> made])
  BY DEF IsHolding
<1>5. IsHolding(Acquired(p, q, a))
  <2> DEFINE total == p.quantity + q
             other == UnitCost(Plus(Basis(p), Whole(a)), total)
             moved == [p EXCEPT !.quantity = total]
  <2>1. Acquired(p, q, a) = [moved EXCEPT !.average = other]
    BY DEF Acquired
  <2>2. total \in Int
    BY <1>2 DEF p, q
  <2> HIDE DEF other, total
  <2>3. moved = [quantity |-> total, average |-> average, realized |-> realized]
    BY <1>9
  <2> HIDE DEF moved
  <2>4. Acquired(p, q, a) = [quantity |-> total, average |-> other, realized |-> realized]
    BY <2>1, <2>3
  <2> QED
    BY <1>4, <2>2, <2>4
<1>6. IsHolding(Released(p, -q, a))
  <2> DEFINE left == p.quantity - (-q)
             other == IF p.quantity = -q THEN Zero ELSE p.average
             made == Plus(p.realized, Minus(Whole(-a), Times(p.average, -q)))
  <2>1. Released(p, -q, a) = [p EXCEPT !.quantity = left, !.average = other, !.realized = made]
    BY DEF Released
  <2>2. left \in Int
    BY <1>2 DEF p, q
  <2> HIDE DEF left, other, made
  <2>3. Released(p, -q, a) = [quantity |-> left, average |-> other, realized |-> made]
    BY <1>3, <2>1, UpdatedPosition
  <2> QED
    BY <1>4, <2>2, <2>3
<1>7. IsHolding(Repaid(p, a))
  <2>1. PICK other : Repaid(p, a) = [p EXCEPT !.average = other]
    BY DEF Repaid
  <2>2. Repaid(p, a) = [quantity |-> n, average |-> other, realized |-> realized]
    BY <1>9, <2>1
  <2> QED
    BY <1>2, <1>4, <2>2
<1>8. IsHolding(FoldSecurityLeg(p, q, a)) /\ IsHolding(p)
  BY <1>5, <1>6, <1>7 DEF FoldSecurityLeg, p
<1> QED
  BY <1>1, <1>8

\* What a replay folds, one after the other.
Unrolled(log, seq, n) == [k \in 1..n |-> log[seq[k]]]

LEMMA ReplayIsOf ==
  ASSUME NEW log, NEW cutoff, NEW m \in Nat, DOMAIN EventsThrough(log, cutoff) = 1..m,
         NEW state, Replayed(Unrolled(log, EventsThrough(log, cutoff), m), m, state)
  PROVE  ReplayState(log, cutoff) = state
<1> DEFINE seq == EventsThrough(log, cutoff)
           turned == Unrolled(log, seq, m)
<1>1. PICK it : Folds(it, turned, m) /\ it[1..m] = state /\ \A other : Folds(other, turned, m) => other = it
  BY DEF Replayed
<1> DEFINE Iterates(u) == u = [s \in SUBSET (1..m) |->
                                 IF s = {} THEN Start ELSE FoldEvent(u[s \ {Max(s)}], log[seq[Max(s)]])]
<1>2. ASSUME NEW u PROVE Iterates(u) <=> Folds(u, turned, m)
  <2>1. ASSUME NEW s \in SUBSET (1..m), s # {} PROVE turned[Max(s)] = log[seq[Max(s)]]
    <3>1. Max(s) \in 1..m
      BY <2>1, LatestIs
    <3> QED
      BY <3>1 DEF Unrolled
  <2> HIDE DEF turned, seq
  <2>2. [s \in SUBSET (1..m) |-> IF s = {} THEN Start ELSE FoldEvent(u[s \ {Max(s)}], log[seq[Max(s)]])]
          = [s \in SUBSET (1..m) |-> IF s = {} THEN Start ELSE FoldEvent(u[s \ {Max(s)}], turned[Max(s)])]
    BY <2>1
  <2> QED
    BY <2>2 DEF Folds
<1>3. (CHOOSE u : Iterates(u)) = it
  BY <1>1, <1>2
<1>4. ReplayState(log, cutoff) = (CHOOSE u : Iterates(u))[1..m]
  <2>1. DOMAIN seq = 1..m
    OBVIOUS
  <2> QED
    BY <2>1 DEF ReplayState, FoldLeft, MapThenFoldSet, Start
<1> QED
  BY <1>1, <1>3, <1>4

\* A replay finds the cash that the events through its cutoff moved.
LEMMA ReplayFinds ==
  ASSUME NEW log \in Seq(Events), NEW cutoff
  PROVE  /\ ReplayState(log, cutoff).position.quantity \in Int
         /\ ReplayState(log, cutoff).cash = SumOn(PaidBy(log, Through(log, cutoff)), Through(log, cutoff))
<1> DEFINE T == Through(log, cutoff)
           seq == EventsThrough(log, cutoff)
           turned(n) == Unrolled(log, seq, n)
<1>1. PICK n : n = Cardinality(T)
  OBVIOUS
<1>2. InTurn(log, T, n, seq)
  BY <1>1, EventsAreOrdered
<1>3. \A i \in T : log[i] \in Events /\ log[i].legs.cash \in Int
  BY ThroughIs
<1> HIDE DEF T, seq
<1>4. /\ n \in Nat /\ DOMAIN seq = 1..n /\ (\A k \in 1..n : seq[k] \in T)
      /\ (\A k, l \in 1..n : k # l => seq[k] # seq[l]) /\ {seq[k] : k \in 1..n} = T
  <2>1. \A k, l \in 1..n : k # l => k < l \/ l < k
    BY <1>2 DEF InTurn
  <2> QED
    BY <1>2, <2>1 DEF InTurn
<1> DEFINE paid == [k \in 1..n |-> log[seq[k]].legs.cash]
           Good == {m \in Nat : m <= n =>
                      \E x : Replayed(turned(n), m, x) /\ IsHolding(x.position) /\ x.cash = SumOn(paid, 1..m)}
<1>5. 0 \in Good
  <2>1. IsHolding(Start.position) /\ Start.cash = 0
    <3>1. PICK zero : Start.position = [quantity |-> 0, average |-> zero, realized |-> zero] /\ Start.cash = 0
      BY DEF Start, NoPosition
    <3>2. ASSUME NEW p, NEW other, p = [quantity |-> 0, average |-> other, realized |-> other] PROVE IsHolding(p)
      <4>1. p.quantity = 0 /\ 0 \in Int
        BY <3>2
      <4>2. p = [quantity |-> p.quantity, average |-> other, realized |-> other]
        BY <3>2, <4>1
      <4> QED
        BY <4>1, <4>2 DEF IsHolding
    <3> HIDE DEF Good, paid
    <3> QED
      BY <3>1, <3>2
  <2>2. 1..0 = {}
    OBVIOUS
  <2>3. SumOn(paid, {}) = 0
    BY SumOnNothing
  <2> QED
    BY <2>1, <2>2, <2>3, NothingReplayed
<1>6. ASSUME NEW m \in Nat, m \in Good PROVE m + 1 \in Good
  <2> SUFFICES ASSUME m + 1 <= n
               PROVE  \E x : Replayed(turned(n), m + 1, x) /\ IsHolding(x.position) /\ x.cash = SumOn(paid, 1..(m + 1))
    OBVIOUS
  <2>1. m <= n /\ m + 1 \in 1..n /\ m + 1 \notin 1..m /\ 1..(m + 1) = (1..m) \cup {m + 1}
    BY <1>4
  <2>2. PICK x : Replayed(turned(n), m, x) /\ IsHolding(x.position) /\ x.cash = SumOn(paid, 1..m)
    BY <1>6, <2>1
  <2>3. turned(n)[m + 1] = log[seq[m + 1]] /\ seq[m + 1] \in T /\ paid[m + 1] = log[seq[m + 1]].legs.cash
    BY <1>4, <2>1 DEF Unrolled
  <2>4. \A k \in 1..(m + 1) : paid[k] \in Int
    <3>1. \A k \in 1..(m + 1) : k \in 1..n
      BY <1>4, <2>1
    <3> QED
      BY <1>3, <1>4, <3>1
  <2>5. IsFiniteSet(1..m)
    BY FirstOnes
  <2> HIDE DEF paid
  <2>6. SumOn(paid, (1..m) \cup {m + 1}) = SumOn(paid, 1..m) + paid[m + 1] /\ SumOn(paid, 1..m) \in Int
    <3>1. \A k \in (1..m) \cup {m + 1} : paid[k] \in Int
      BY <2>1, <2>4
    <3>2. SumOn(paid, (1..m) \cup {m + 1}) = SumOn(paid, 1..m) + paid[m + 1]
      BY <2>1, <2>5, <3>1, SumOnAdded
    <3>3. SumOn(paid, 1..m) \in Int
      BY <2>5, <3>1, SumOnInt
    <3> QED
      BY <3>2, <3>3
  <2> DEFINE y == FoldEvent(x, turned(n)[m + 1])
  <2>7. Replayed(turned(n), m + 1, y)
    BY <2>2, ReplayedMore
  <2>8. IsHolding(y.position) /\ y.cash = SumOn(paid, 1..(m + 1))
    BY <1>3, <2>1, <2>2, <2>3, <2>6, FoldedHolding
  <2> QED
    BY <2>7, <2>8
<1> HIDE DEF Good
<1>7. n \in Good
  <2>1. Nat \subseteq Good
    BY <1>5, <1>6, NaturalInduction
  <2> QED
    BY <1>4, <2>1
<1>8. PICK x : Replayed(turned(n), n, x) /\ IsHolding(x.position) /\ x.cash = SumOn(paid, 1..n)
  <2>1. n <= n
    BY <1>4
  <2> QED
    BY <1>7, <2>1 DEF Good
<1>9. ReplayState(log, cutoff) = x
  BY <1>4, <1>8, ReplayIsOf DEF seq
<1>10. SumOn(paid, 1..n) = SumOn(PaidBy(log, T), T)
  <2>1. \A k \in 1..n : paid[k] = PaidBy(log, T)[seq[k]] /\ paid[k] \in Int
    BY <1>3, <1>4 DEF PaidBy
  <2>2. IsFiniteSet(1..n)
    BY <1>4, FirstOnes
  <2>3. \A k, l \in 1..n : seq[k] = seq[l] => k = l
    BY <1>4
  <2> HIDE DEF paid
  <2>4. PICK g, S : g = PaidBy(log, T) /\ S = 1..n
    OBVIOUS
  <2>5. SumOn(g, {seq[k] : k \in S}) = SumOn(paid, S)
    <3>1. /\ \A k \in S : paid[k] = g[seq[k]] /\ paid[k] \in Int
          /\ IsFiniteSet(S) /\ \A k, l \in S : seq[k] = seq[l] => k = l
      BY <2>1, <2>2, <2>3, <2>4
    <3> QED
      BY <3>1, SumOnRenamed
  <2> QED
    BY <1>4, <2>4, <2>5
<1> QED
  BY <1>8, <1>9, <1>10 DEF T, IsHolding

-----------------------------------------------------------------------------
(* What snapshots keep *)

\* A snapshot of a day, of which it tells the end or less, with the cash that the
\* events known to it moved; later ones may have been dated before its cutoff.
Taken(s) ==
  /\ s.day \in Nat /\ s.day <= Day(now)
  /\ s.cutoff \in Int /\ s.day * DayTicks <= s.cutoff /\ s.cutoff <= (s.day + 1) * DayTicks
  /\ s.cash \in Int /\ s.market \in Int /\ s.knows \in Nat
  /\ \E D \in SUBSET Through(journal, s.cutoff) :
       Cardinality(D) = s.knows /\ s.cash = SumOn(PaidBy(journal, D), D)

SnapshotsTaken ==
  /\ tape \in Tapes
  /\ \A s \in snapshots : Taken(s)
  /\ \A s, t \in snapshots : s.day = t.day => s = t

\* Days begin on time.
LEMMA DayIs ==
  ASSUME NEW t \in Nat \ {0}
  PROVE  /\ Day(t) \in Nat /\ Day(t) * DayTicks <= t - 1
         /\ \A d \in Nat : d <= Day(t) => d * DayTicks <= t - 1
<1>1. PICK b \in Nat \ {0} : b = DayTicks
  BY PerformanceAssumption
<1>2. PICK q \in Int, r \in Nat : q = (t - 1) \div b /\ r < b /\ t - 1 = b * q + r
  <2>1. t - 1 \in Int
    OBVIOUS
  <2> QED
    BY <2>1, DivisionIs
<1>3. b * q \in Int /\ b * q = q * b /\ b * q <= t - 1
  BY <1>2, ProductType, Commutes
<1>4. q \in Nat
  <2> SUFFICES ASSUME q <= -1 PROVE FALSE
    BY <1>2
  <2>1. b * q <= b * (-1) /\ b * (-1) = -b
    BY Grows
  <2> QED
    BY <1>2, <1>3, <2>1
<1>5. ASSUME NEW d \in Nat, d <= q PROVE d * b <= t - 1
  <2>1. d * b <= q * b /\ d * b \in Int
    BY <1>4, <1>5, Grows, ProductType
  <2> QED
    BY <1>3, <2>1
<1> QED
  BY <1>1, <1>2, <1>3, <1>4, <1>5 DEF Day

LEMMA DaysGoOn ==
  ASSUME NEW t \in Nat \ {0}, NEW u \in Nat \ {0}, t <= u
  PROVE  Day(t) <= Day(u)
<1>1. PICK b \in Nat \ {0} : b = DayTicks
  BY PerformanceAssumption
<1>2. t - 1 \in Int /\ u - 1 \in Int
  OBVIOUS
<1>3. PICK p \in Int, r \in Nat : p = (t - 1) \div b /\ r < b /\ t - 1 = b * p + r
  BY <1>2, DivisionIs
<1>4. PICK q \in Int, o \in Nat : q = (u - 1) \div b /\ o < b /\ u - 1 = b * q + o
  BY <1>2, DivisionIs
<1>5. b * p \in Int /\ b * q \in Int
  BY ProductType
<1>6. p <= q
  <2> SUFFICES ASSUME q + 1 <= p PROVE FALSE
    OBVIOUS
  <2>1. b * (q + 1) <= b * p /\ b * (q + 1) = b * q + b
    BY Grows, Distributes
  <2> QED
    BY <1>3, <1>4, <1>5, <2>1
<1> QED
  BY <1>1, <1>3, <1>4, <1>6 DEF Day

\* There is a close of every day that is over.
LEMMA CloseIs ==
  ASSUME tape \in Tapes, NEW cutoff \in Nat, cutoff < Horizon
  PROVE  CloseAt(cutoff) \in Int
<1>1. PICK b \in Nat \ {0}, h \in Nat : b = DayTicks /\ h = Horizon - 1 /\ cutoff <= h
  BY PerformanceAssumption, HoldingsAssumption
<1>2. PICK p \in Int, r \in Nat : p = cutoff \div b /\ r < b /\ cutoff = b * p + r
  BY DivisionIs
<1>3. PICK q \in Int, o \in Nat : q = h \div b /\ o < b /\ h = b * q + o
  BY DivisionIs
<1>4. b * p \in Int /\ b * q \in Int
  BY ProductType
<1>5. p <= q
  <2> SUFFICES ASSUME q + 1 <= p PROVE FALSE
    OBVIOUS
  <2>1. b * (q + 1) <= b * p /\ b * (q + 1) = b * q + b
    BY Grows, Distributes
  <2> QED
    BY <1>1, <1>2, <1>3, <1>4, <2>1
<1>6. 0 <= p
  <2> SUFFICES ASSUME p <= -1 PROVE FALSE
    OBVIOUS
  <2>1. b * p <= b * (-1) /\ b * (-1) = -b
    BY Grows
  <2> QED
    BY <1>2, <1>4, <2>1
<1>7. tape \in Seq(Nat) /\ q < Len(tape)
  BY <1>1, <1>3, PerformanceAssumption
<1>8. p + 1 \in 1..Len(tape)
  BY <1>5, <1>6, <1>7
<1> QED
  BY <1>1, <1>2, <1>7, <1>8 DEF CloseAt

LEMMA SnapshotTaken ==
  ASSUME WholeNumbers, SnapshotsTaken, NEW d \in 0..Day(now), NEW priced \in BOOLEAN, TakeSnapshot(d, priced)
  PROVE  SnapshotsTaken'
<1> DEFINE cutoff == Min({DayEnd(d), now - 1})
           state == ReplayState(journal, cutoff)
           held == state.position.quantity # 0
           T == Through(journal, cutoff)
           value == IF held /\ priced THEN state.position.quantity * CloseAt(cutoff) ELSE 0
           new == [day |-> d, cutoff |-> cutoff, cash |-> state.cash, market |-> value, partial |-> held /\ ~priced,
                   external |-> NetExternal(ReplayFlows(journal, 0, cutoff)), knows |-> Cardinality(T)]
<1>1. /\ snapshots' = {s \in snapshots : s.day # d} \cup {new}
      /\ cutoff > 0 /\ UNCHANGED <<vars, tape>>
  BY DEF TakeSnapshot
<1>2. now' = now /\ journal' = journal /\ tape' = tape
  BY <1>1 DEF vars
<1>3. /\ now \in Nat \ {0} /\ now <= Horizon /\ journal \in Seq(Events) /\ DayTicks \in Nat \ {0} /\ tape \in Tapes
      /\ Horizon \in Nat
  BY HoldingsAssumption, PerformanceAssumption DEF WholeNumbers, Moments, SnapshotsTaken
<1>4. d \in Nat /\ d <= Day(now) /\ d * DayTicks <= now - 1
  <2>1. Day(now) \in Nat
    BY <1>3, DayIs
  <2>2. d \in Nat /\ d <= Day(now)
    BY <2>1
  <2> QED
    BY <1>3, <2>2, DayIs
<1>5. PICK begin \in Int, end \in Int : begin = d * DayTicks /\ end = (d + 1) * DayTicks /\ begin <= end
  <2>1. d * DayTicks \in Int /\ (d + 1) * DayTicks \in Int /\ d * DayTicks <= (d + 1) * DayTicks
    BY <1>3, <1>4, ProductType, Grows
  <2> QED
    BY <2>1
<1>6. cutoff \in Nat /\ begin <= cutoff /\ cutoff <= end /\ cutoff < Horizon
  <2>1. cutoff = IF end <= now - 1 THEN end ELSE now - 1
    BY <1>3, <1>5, MinOfTwo DEF DayEnd
  <2> HIDE DEF cutoff
  <2> QED
    BY <1>1, <1>3, <1>4, <1>5, <2>1
<1> HIDE DEF cutoff
<1>7. state.position.quantity \in Int /\ state.cash = SumOn(PaidBy(journal, T), T) /\ state.cash \in Int
  <2>1. state.position.quantity \in Int /\ state.cash = SumOn(PaidBy(journal, T), T)
    BY <1>3, ReplayFinds
  <2>2. IsFiniteSet(T) /\ \A i \in T : PaidBy(journal, T)[i] \in Int
    <3>1. T \in SUBSET (DOMAIN journal) /\ IsFiniteSet(T) /\ \A i \in DOMAIN journal : journal[i].legs.cash \in Int
      BY <1>3, ThroughIs
    <3> QED
      BY <3>1 DEF PaidBy
  <2>3. SumOn(PaidBy(journal, T), T) \in Int
    BY <2>2, SumOnInt
  <2> QED
    BY <2>1, <2>3
<1>8. value \in Int
  BY <1>3, <1>6, <1>7, CloseIs, ProductType
<1>9. Cardinality(T) \in Nat
  <2>1. IsFiniteSet(T)
    BY <1>3, ThroughIs
  <2> QED
    BY <2>1, FS_CardinalityType
<1> HIDE DEF value, state, held
<1>10. /\ new.day = d /\ new.cutoff = cutoff /\ new.cash = state.cash /\ new.market = value
       /\ new.knows = Cardinality(T)
  OBVIOUS
<1> HIDE DEF new
<1>11. Taken(new)
  <2>1. T \in SUBSET Through(journal, new.cutoff) /\ Cardinality(T) = new.knows /\ new.cash = SumOn(PaidBy(journal, T), T)
    BY <1>7, <1>10
  <2> HIDE DEF T
  <2> QED
    BY <1>4, <1>5, <1>6, <1>7, <1>8, <1>9, <1>10, <2>1 DEF Taken
<1>12. \A s : Taken(s) => Taken(s)'
  BY <1>2 DEF Taken, Day
<1>13. \A s \in snapshots' : (s \in snapshots /\ s.day # d) \/ s = new
  BY <1>1
<1> QED
  BY <1>2, <1>10, <1>11, <1>12, <1>13 DEF SnapshotsTaken

\* Events keep what they moved and when they occurred, so that a snapshot keeps
\* what it is the sum of.
LEMMA SnapshotKept ==
  ASSUME WholeNumbers, [Next]_vars, NEW s, Taken(s)
  PROVE  Taken(s)'
<1>1. /\ now' >= now
      /\ journal' = journal \/ \E e : Extended(e) /\ (StandsAlone(e) \/ UndoesAnother(e)) /\ now' = now
  BY JournalStep
<1>2. now \in Nat \ {0} /\ now' \in Nat \ {0} /\ journal \in Seq(Events)
  BY WholeNumbersStep DEF WholeNumbers, Moments
<1>3. Day(now') >= Day(now) /\ Day(now) \in Nat /\ Day(now') \in Nat
  <2>1. Day(now) \in Nat /\ Day(now') \in Nat
    BY <1>2, DayIs
  <2> QED
    BY <1>1, <1>2, <2>1, DaysGoOn
<1>4. PICK D \in SUBSET Through(journal, s.cutoff) : Cardinality(D) = s.knows /\ s.cash = SumOn(PaidBy(journal, D), D)
  BY DEF Taken
<1>5. ASSUME journal' = journal
      PROVE  D \in SUBSET Through(journal', s.cutoff) /\ s.cash = SumOn(PaidBy(journal', D), D)
  BY <1>4, <1>5
<1>6. ASSUME NEW e, Extended(e)
      PROVE  D \in SUBSET Through(journal', s.cutoff) /\ s.cash = SumOn(PaidBy(journal', D), D)
  <2>1. /\ \A i \in DOMAIN journal : journal'[i].legs = journal[i].legs /\ journal'[i].occurred = journal[i].occurred
        /\ DOMAIN journal \subseteq DOMAIN journal'
    <3>1. /\ DOMAIN journal = 1..Len(journal) /\ DOMAIN journal' = 1..Len(journal') /\ Len(journal) \in Nat
          /\ Len(journal') = Len(journal) + 1
      BY <1>2, <1>6 DEF Extended
    <3> QED
      BY <1>6, <3>1 DEF Extended
  <2>2. D \in SUBSET (DOMAIN journal)
    BY <1>4 DEF Through
  <2>3. D \in SUBSET Through(journal', s.cutoff)
    BY <1>4, <2>1 DEF Through
  <2>4. PaidBy(journal', D) = PaidBy(journal, D)
    BY <2>1, <2>2 DEF PaidBy
  <2> QED
    BY <1>4, <2>3, <2>4
<1>7. D \in SUBSET Through(journal', s.cutoff) /\ s.cash = SumOn(PaidBy(journal', D), D)
  BY <1>1, <1>5, <1>6
<1> QED
  BY <1>3, <1>4, <1>7 DEF Taken

Measured == WholeNumbers /\ Reversals /\ SnapshotsTaken

LEMMA MeasuredInit == Init /\ PerformanceInit => Measured
BY WholeNumbersInit, ReversalsInit DEF Measured, PerformanceInit, SnapshotsTaken

LEMMA MeasuredStep == Measured /\ [PerformanceNext]_<<vars, perfVars>> => Measured'
<1> SUFFICES ASSUME Measured, [PerformanceNext]_<<vars, perfVars>> PROVE Measured'
  OBVIOUS
<1>1. WholeNumbers /\ Reversals /\ SnapshotsTaken
  BY DEF Measured
<1>2. CASE [Next]_vars /\ UNCHANGED perfVars
  <2>1. WholeNumbers' /\ Reversals'
    BY <1>1, <1>2, WholeNumbersStep, ReversalsStep
  <2>2. snapshots' = snapshots /\ tape' = tape
    BY <1>2 DEF perfVars
  <2>3. \A s \in snapshots : Taken(s)'
    BY <1>1, <1>2, SnapshotKept DEF SnapshotsTaken
  <2>4. SnapshotsTaken'
    BY <1>1, <2>2, <2>3 DEF SnapshotsTaken
  <2> QED
    BY <2>1, <2>4 DEF Measured
<1>3. ASSUME NEW d \in 0..Day(now), NEW priced \in BOOLEAN, TakeSnapshot(d, priced) PROVE Measured'
  <2>1. UNCHANGED vars
    BY <1>3 DEF TakeSnapshot
  <2>2. WholeNumbers' /\ Reversals'
    BY <1>1, <2>1, WholeNumbersStep, ReversalsStep
  <2>3. SnapshotsTaken'
    BY <1>1, <1>3, SnapshotTaken
  <2> QED
    BY <2>2, <2>3 DEF Measured
<1>4. ([Next]_vars /\ UNCHANGED perfVars) \/ \E d \in 0..Day(now), priced \in BOOLEAN : TakeSnapshot(d, priced)
  BY DEF PerformanceNext, SnapshotsNext, vars, perfVars
<1> QED
  BY <1>2, <1>3, <1>4

LEMMA MeasuredAlways == PerformanceSpec => []Measured
<1> QED
  BY MeasuredInit, MeasuredStep, PTL DEF PerformanceSpec

-----------------------------------------------------------------------------
(* Periods *)

EdgesOf(list) == [k \in DOMAIN list |-> list[k].cutoff]

\* K windows between snapshots, by date.
IsPeriod(list, K) ==
  /\ K \in Nat \ {0} /\ DOMAIN list = 1..(K + 1) /\ Len(list) = K + 1
  /\ \A k \in 1..(K + 1) : list[k] \in snapshots
  /\ Windows(EdgesOf(list), K)

LEMMA ListedIs ==
  ASSUME Measured, NEW from \in Int, NEW to \in Int
  PROVE  \E n \in Nat :
           /\ DOMAIN Listed(from, to) = 1..n /\ Len(Listed(from, to)) = n
           /\ \A k \in 1..n : Listed(from, to)[k] \in snapshots
           /\ \A k, l \in 1..n : k < l => Listed(from, to)[k].day < Listed(from, to)[l].day
<1> DEFINE S == {s.day : s \in {t \in snapshots : from <= t.day /\ t.day <= to}}
           days == Ascending(S)
           list == Listed(from, to)
<1>1. \A s \in snapshots : s.day \in Int
  BY DEF Measured, SnapshotsTaken, Taken
<1>2. S \in SUBSET Int /\ S \in SUBSET (from..to)
  BY <1>1
<1>3. IsFiniteSet(S)
  <2>1. IsFiniteSet(from..to)
    BY FS_Interval
  <2> QED
    BY <1>2, <2>1, FS_Subset
<1>4. \A d \in S : \E s \in snapshots : s.day = d
  OBVIOUS
<1> HIDE DEF S
<1>5. PICK n \in Nat : n = Cardinality(S)
  BY <1>3, FS_CardinalityType
<1>6. /\ DOMAIN days = 1..n /\ \A k \in 1..n : days[k] \in S
      /\ \A k, l \in 1..n : k < l => days[k] < days[l]
  BY <1>2, <1>3, <1>5, AscendingIs
<1>7. list = [k \in DOMAIN days |-> CHOOSE s \in snapshots : s.day = days[k]]
  BY DEF Listed, S
<1> HIDE DEF days, list
<1>8. DOMAIN list = 1..n /\ \A k \in 1..n : list[k] \in snapshots /\ list[k].day = days[k]
  BY <1>4, <1>6, <1>7
<1>9. Len(list) = n
  <2>1. list \in Seq(snapshots)
    <3>1. list = [k \in 1..n |-> list[k]]
      BY <1>6, <1>7
    <3> QED
      BY <1>8, <3>1
  <2> QED
    BY <1>8, <2>1
<1>10. \A k, l \in 1..n : k < l => list[k].day < list[l].day
  BY <1>6, <1>8
<1> QED
  BY <1>8, <1>9, <1>10 DEF list

LEMMA PeriodIs ==
  ASSUME Measured, NEW list \in Periods
  PROVE  IsPeriod(list, Len(list) - 1)
<1>1. PICK from \in 0..Day(now), to \in 0..Day(now) : list = Listed(from, to) /\ Len(list) > 1
  BY DEF Periods
<1>2. from \in Int /\ to \in Int
  OBVIOUS
<1>3. PICK n \in Nat :
        /\ DOMAIN list = 1..n /\ Len(list) = n
        /\ \A k \in 1..n : list[k] \in snapshots
        /\ \A k, l \in 1..n : k < l => list[k].day < list[l].day
  BY <1>1, <1>2, ListedIs
<1>4. \A s \in snapshots :
        /\ s.day \in Nat /\ s.cutoff \in Int
        /\ s.day * DayTicks <= s.cutoff /\ s.cutoff <= (s.day + 1) * DayTicks
  BY DEF Measured, SnapshotsTaken, Taken
<1>5. PICK K : K = n - 1
  OBVIOUS
<1>6. K \in Nat \ {0} /\ n = K + 1
  BY <1>1, <1>3, <1>5
<1>7. ASSUME NEW k \in 1..n, NEW l \in 1..n, k < l PROVE list[k].cutoff <= list[l].cutoff
  <2>1. PICK p \in Nat, q \in Nat, b \in Nat \ {0}, c \in Int, d \in Int :
          /\ p = list[k].day /\ q = list[l].day /\ b = DayTicks /\ c = list[k].cutoff /\ d = list[l].cutoff
    BY <1>3, <1>4, PerformanceAssumption
  <2>2. p + 1 <= q
    BY <1>3, <1>7, <2>1
  <2>3. (p + 1) * b <= q * b /\ (p + 1) * b \in Int /\ q * b \in Int
    BY <2>2, Grows, ProductType
  <2>4. c <= (p + 1) * b /\ q * b <= d
    BY <1>3, <1>4, <2>1
  <2> QED
    BY <2>1, <2>3, <2>4
<1>8. EdgesOf(list) \in Seq(Int) /\ Len(EdgesOf(list)) = n /\ \A k \in 1..n : EdgesOf(list)[k] = list[k].cutoff
  <2>1. EdgesOf(list) = [k \in 1..n |-> list[k].cutoff] /\ \A k \in 1..n : list[k].cutoff \in Int
    BY <1>3, <1>4 DEF EdgesOf
  <2> QED
    BY <2>1
<1>9. Windows(EdgesOf(list), K)
  BY <1>6, <1>7, <1>8 DEF Windows
<1> QED
  BY <1>3, <1>5, <1>6, <1>9 DEF IsPeriod

\* What the flows between the snapshots of a period are the sums of.
Between(log, list, K, k) == EventsOf(log, EdgesOf(list), K, k)
KnownTo(log, list, K) == Through(log, EdgesOf(list)[K + 1])

LEMMA FlowsBetweenAre ==
  ASSUME NEW list, NEW K, IsPeriod(list, K), NEW log \in Seq(Events)
  PROVE  /\ DOMAIN FlowsBetween(log, list) = 1..K
         /\ FlowsBetween(log, list) = [k \in 1..K |-> FlowsBetween(log, list)[k]]
         /\ \A k \in 1..K :
              /\ IsFiniteSet(Between(log, list, K, k)) /\ Between(log, list, K, k) \in SUBSET (DOMAIN log)
              /\ FlowsBetween(log, list)[k] =
                   NetExternal(FlowsOf(log, Between(log, list, K, k), KnownTo(log, list, K)))
              /\ FlowsBetween(log, list)[k] =
                   SumOn(CapitalOf(log, Between(log, list, K, k), KnownTo(log, list, K)), Between(log, list, K, k))
              /\ FlowsBetween(log, list)[k] \in Int
<1>1. PICK buckets : buckets = FlowsByBucket(log, EdgesOf(list))
  OBVIOUS
<1>2. FlowsBetween(log, list) = [k \in DOMAIN buckets |-> NetExternal(buckets[k])]
  BY <1>1 DEF FlowsBetween, EdgesOf
<1>3. Windows(EdgesOf(list), K) /\ K \in Nat \ {0}
  BY DEF IsPeriod
<1>4. DOMAIN buckets = 1..K
  <2>1. 1 \in 1..K
    BY <1>3
  <2> QED
    BY <1>1, <1>3, <2>1, BucketsAre
<1>5. ASSUME NEW k \in 1..K
      PROVE  /\ IsFiniteSet(Between(log, list, K, k)) /\ Between(log, list, K, k) \in SUBSET (DOMAIN log)
             /\ FlowsBetween(log, list)[k] =
                  NetExternal(FlowsOf(log, Between(log, list, K, k), KnownTo(log, list, K)))
             /\ FlowsBetween(log, list)[k] =
                  SumOn(CapitalOf(log, Between(log, list, K, k), KnownTo(log, list, K)), Between(log, list, K, k))
             /\ FlowsBetween(log, list)[k] \in Int
  <2>1. buckets[k] = FlowsOf(log, Between(log, list, K, k), KnownTo(log, list, K))
    BY <1>1, <1>3, BucketsAre DEF Between, KnownTo
  <2>2. PICK part, known : part = Between(log, list, K, k) /\ known = KnownTo(log, list, K)
    OBVIOUS
  <2>3. IsFiniteSet(part) /\ part \in SUBSET (DOMAIN log) /\ \A i \in part : log[i] \in Events /\ log[i].legs.cash \in Int
    <3>1. part \in SUBSET known /\ known \in SUBSET (DOMAIN log) /\ IsFiniteSet(known)
      BY <2>2, ThroughIs DEF Between, KnownTo, EventsOf
    <3>2. \A i \in DOMAIN log : log[i] \in Events /\ log[i].legs.cash \in Int
      BY ThroughIs
    <3> QED
      BY <3>1, <3>2, FS_Subset
  <2>4. FlowsBetween(log, list)[k] = NetExternal(FlowsOf(log, part, known))
    BY <1>2, <1>4, <2>1, <2>2
  <2>5. NetExternal(FlowsOf(log, part, known)) = SumOn(CapitalOf(log, part, known), part)
    BY <2>3, NetExternalIs
  <2>6. SumOn(CapitalOf(log, part, known), part) \in Int
    <3>1. \A i \in part : CapitalOf(log, part, known)[i] \in Int
      BY <2>3 DEF CapitalOf
    <3> QED
      BY <2>3, <3>1, SumOnInt
  <2> QED
    BY <2>2, <2>3, <2>4, <2>5, <2>6
<1> QED
  BY <1>2, <1>4, <1>5

-----------------------------------------------------------------------------
(* Gains *)

\* A snapshot that knows as many events as there are through its cutoff knows those.
LEMMA FreshIs ==
  ASSUME Measured, NEW s \in snapshots, Fresh(s)
  PROVE  s.cash = SumOn(PaidBy(journal, Through(journal, s.cutoff)), Through(journal, s.cutoff))
<1> DEFINE T == Through(journal, s.cutoff)
<1>1. IsFiniteSet(T)
  BY ThroughIs DEF Measured, WholeNumbers
<1>2. s.knows = Cardinality(T)
  BY DEF Fresh
<1>3. \E D \in SUBSET T : Cardinality(D) = s.knows /\ s.cash = SumOn(PaidBy(journal, D), D)
  BY DEF Measured, SnapshotsTaken, Taken
<1> HIDE DEF T
<1>4. PICK D \in SUBSET T : Cardinality(D) = Cardinality(T) /\ s.cash = SumOn(PaidBy(journal, D), D)
  BY <1>2, <1>3
<1>5. D = T
  BY <1>1, <1>4, FS_Subset
<1> QED
  BY <1>4, <1>5 DEF T

\* What is undone tells whether a reversal is capital: if it is, it occurred before.
LEMMA UndoneTells ==
  ASSUME Measured, NEW late \in Int, NEW i \in Through(journal, late)
  PROVE  EffectiveType(journal, i, Through(journal, late)) \in ExternalEvents
           <=> journal[Undone(i)].type \in ExternalEvents
<1> DEFINE known == Through(journal, late)
<1>1. /\ journal \in Seq(Events) /\ Reversals
      /\ i \in DOMAIN journal /\ journal[i].occurred <= late
      /\ DOMAIN journal = 1..Len(journal) /\ Len(journal) \in Nat
      /\ \A j \in DOMAIN journal : journal[j].occurred \in Nat
  BY ThroughIs DEF Measured, WholeNumbers, Through
<1>2. CASE journal[i].type # "reversal"
  BY <1>2 DEF EffectiveType, Undone
<1>3. CASE journal[i].type = "reversal"
  <2>1. PICK r : r = journal[i].reverses
    OBVIOUS
  <2>2. /\ r \in DOMAIN journal
        /\ journal[r].type \in ExternalEvents => journal[r].occurred <= journal[i].occurred
    BY <1>1, <1>3, <2>1 DEF Reversals
  <2>3. journal[r].type \in ExternalEvents => r \in known
    <3>1. journal[r].occurred \in Nat /\ journal[i].occurred \in Nat
      BY <1>1, <2>2
    <3> QED
      BY <1>1, <2>2, <3>1 DEF Through
  <2>4. "reversal" \notin ExternalEvents
    BY DEF ExternalEvents, Inflows, Outflows
  <2>5. Undone(i) = r
    BY <1>3, <2>1 DEF Undone
  <2>6. EffectiveType(journal, i, known) = IF r \in known THEN journal[r].type ELSE "reversal"
    BY <1>3, <2>1 DEF EffectiveType
  <2> QED
    BY <2>3, <2>4, <2>5, <2>6
<1> QED
  BY <1>2, <1>3

\* The events of a window that are the portfolio's own.
OwnEvents(low, high) == {i \in Within(low, high) : journal[Undone(i)].type \notin ExternalEvents}

LEMMA OwnSum ==
  ASSUME NEW S
  PROVE  SumOver(S, LAMBDA e : e.legs.cash) = SumOn(PaidBy(journal, S), S)
BY ZenonT(40) DEF SumOver, PaidBy, SumOn, MapThenSumSet, MapThenFoldSet

\* A window of a period holds the events between the cutoffs of its snapshots.
LEMMA WindowIs ==
  ASSUME Measured, NEW list, NEW K, IsPeriod(list, K), NEW k \in 1..K
  PROVE  /\ list[k] \in snapshots /\ list[k + 1] \in snapshots
         /\ list[k].cutoff \in Int /\ list[k + 1].cutoff \in Int /\ EdgesOf(list)[K + 1] \in Int
         /\ list[k].cutoff <= list[k + 1].cutoff /\ list[k + 1].cutoff <= EdgesOf(list)[K + 1]
         /\ Between(journal, list, K, k) = Within(list[k].cutoff, list[k + 1].cutoff)
<1> DEFINE edges == EdgesOf(list)
<1>1. /\ K \in Nat /\ DOMAIN list = 1..(K + 1)
      /\ \A l \in 1..(K + 1) : list[l] \in snapshots
      /\ \A l \in 1..(K + 1) : edges[l] \in Int
      /\ \A l, m \in 1..(K + 1) : l < m => edges[l] <= edges[m]
  BY DEF IsPeriod, Windows
<1>2. \A l \in 1..(K + 1) : edges[l] = list[l].cutoff
  BY <1>1 DEF EdgesOf
<1> HIDE DEF edges
<1>3. k \in 1..(K + 1) /\ k + 1 \in 1..(K + 1) /\ K + 1 \in 1..(K + 1) /\ k < k + 1 /\ (k + 1 < K + 1 \/ k + 1 = K + 1)
  BY <1>1
<1>4. edges[k] <= edges[k + 1] /\ edges[k + 1] <= edges[K + 1]
  BY <1>1, <1>3
<1>5. /\ edges[k] = list[k].cutoff /\ edges[k + 1] = list[k + 1].cutoff
      /\ edges[k] \in Int /\ edges[k + 1] \in Int /\ edges[K + 1] \in Int
  BY <1>1, <1>2, <1>3
<1>6. Between(journal, list, K, k) = Within(list[k].cutoff, list[k + 1].cutoff)
  <2>1. \A i \in DOMAIN journal : journal[i].occurred \in Nat
    BY ThroughIs DEF Measured, WholeNumbers
  <2>2. Between(journal, list, K, k) = {i \in Through(journal, edges[K + 1]) : InWindow(journal, edges, i, k)}
    BY DEF Between, EventsOf, edges
  <2> QED
    BY <1>4, <1>5, <2>1, <2>2 DEF Through, InWindow, Within
<1> QED
  BY <1>1, <1>3, <1>4, <1>5, <1>6 DEF edges

\* What was paid between two cutoffs is capital, or the portfolio's own.
LEMMA OwnIsTheRest ==
  ASSUME Measured, NEW list, NEW K, IsPeriod(list, K), NEW k \in 1..K, Fresh(list[k]), Fresh(list[k + 1])
  PROVE  LET own == OwnEvents(list[k].cutoff, list[k + 1].cutoff)
         IN  /\ list[k + 1].cash - list[k].cash - FlowsBetween(journal, list)[k] = SumOn(PaidBy(journal, own), own)
             /\ SumOn(PaidBy(journal, own), own) \in Int
<1> DEFINE low == list[k].cutoff
           high == list[k + 1].cutoff
           late == EdgesOf(list)[K + 1]
           A == Through(journal, low)
           B == Through(journal, high)
           W == Within(low, high)
           own == OwnEvents(low, high)
           known == Through(journal, late)
           paid == PaidBy(journal, DOMAIN journal)
           capital == CapitalOf(journal, W, known)
           rest == [i \in W |-> IF i \in own THEN paid[i] ELSE 0]
<1>1. /\ journal \in Seq(Events)
      /\ \A i \in DOMAIN journal : journal[i].occurred \in Nat /\ journal[i].legs.cash \in Int
  BY ThroughIs DEF Measured, WholeNumbers
<1>2. /\ list[k] \in snapshots /\ list[k + 1] \in snapshots
      /\ low \in Int /\ high \in Int /\ late \in Int /\ low <= high /\ high <= late
      /\ Between(journal, list, K, k) = W
  BY WindowIs
<1>3. B = A \cup W /\ A \cap W = {} /\ B \in SUBSET (DOMAIN journal) /\ W \in SUBSET known /\ own \in SUBSET W
  BY <1>1, <1>2 DEF Through, Within, OwnEvents
<1>4. IsFiniteSet(A) /\ IsFiniteSet(B) /\ IsFiniteSet(W) /\ IsFiniteSet(own)
  <2>1. IsFiniteSet(A) /\ IsFiniteSet(B)
    BY <1>1, ThroughIs
  <2> QED
    BY <1>3, <2>1, FS_Subset
<1>5. \A S \in SUBSET (DOMAIN journal) : \A i \in S : PaidBy(journal, S)[i] = paid[i] /\ paid[i] \in Int
  BY <1>1 DEF PaidBy
<1>6. \A S \in SUBSET (DOMAIN journal) : IsFiniteSet(S) => SumOn(PaidBy(journal, S), S) = SumOn(paid, S)
  <2> SUFFICES ASSUME NEW S \in SUBSET (DOMAIN journal), IsFiniteSet(S) PROVE SumOn(PaidBy(journal, S), S) = SumOn(paid, S)
    OBVIOUS
  <2>1. PICK g : g = PaidBy(journal, S)
    OBVIOUS
  <2>2. \A i \in S : g[i] = paid[i] /\ g[i] \in Int
    BY <1>5, <2>1
  <2> HIDE DEF paid
  <2>3. SumOn(g, S) = SumOn(paid, S)
    BY <2>2, SumOnSame
  <2> QED
    BY <2>1, <2>3
<1>7. list[k].cash = SumOn(paid, A) /\ list[k + 1].cash = SumOn(paid, B)
  <2>1. list[k].cash = SumOn(PaidBy(journal, A), A) /\ list[k + 1].cash = SumOn(PaidBy(journal, B), B)
    BY <1>2, FreshIs
  <2>2. A \in SUBSET (DOMAIN journal)
    BY <1>3
  <2> QED
    BY <1>3, <1>4, <1>6, <2>1, <2>2
<1>8. FlowsBetween(journal, list)[k] = SumOn(capital, W)
  BY <1>1, <1>2, FlowsBetweenAre DEF KnownTo
<1>9. \A i \in W : capital[i] \in Int /\ rest[i] \in Int /\ paid[i] = capital[i] + rest[i]
  <2> SUFFICES ASSUME NEW i \in W PROVE capital[i] \in Int /\ rest[i] \in Int /\ paid[i] = capital[i] + rest[i]
    OBVIOUS
  <2>1. paid[i] = journal[i].legs.cash /\ paid[i] \in Int
    BY <1>1, <1>3 DEF PaidBy
  <2>2. capital[i] = IF EffectiveType(journal, i, known) \in ExternalEvents THEN paid[i] ELSE 0
    BY <2>1 DEF CapitalOf
  <2>3. EffectiveType(journal, i, known) \in ExternalEvents <=> i \notin own
    <3>1. EffectiveType(journal, i, known) \in ExternalEvents <=> journal[Undone(i)].type \in ExternalEvents
      BY <1>2, <1>3, UndoneTells
    <3> QED
      BY <3>1 DEF OwnEvents
  <2> HIDE DEF capital, paid, own
  <2> QED
    BY <2>1, <2>2, <2>3
<1>10. \A i \in own : rest[i] = paid[i]
  BY <1>3
<1>11. \A i \in W \ own : rest[i] = 0
  OBVIOUS
<1>12. \A i \in B : paid[i] \in Int
  BY <1>3, <1>5
<1>13. own \in SUBSET (DOMAIN journal) /\ W \in SUBSET (DOMAIN journal)
  BY <1>3
<1> HIDE DEF paid, capital, rest, A, B, W, own, known, low, high, late
<1>14. SumOn(paid, W) = SumOn(capital, W) + SumOn(rest, W)
  BY <1>4, <1>9, SumOnPlus
<1>15. SumOn(rest, W) = SumOn(rest, own)
  BY <1>3, <1>4, <1>9, <1>11, SumOnNonzero
<1>16. SumOn(rest, own) = SumOn(paid, own)
  <2>1. \A i \in own : rest[i] = paid[i] /\ rest[i] \in Int
    BY <1>3, <1>9, <1>10
  <2> QED
    BY <1>4, <2>1, SumOnSame
<1>17. SumOn(paid, B) = SumOn(paid, A) + SumOn(paid, W)
  <2>1. \A i \in A \cup W : paid[i] \in Int
    BY <1>3, <1>12
  <2>2. SumOn(paid, A \cup W) = SumOn(paid, A) + SumOn(paid, W)
    BY <1>3, <1>4, <2>1, SumOnUnion
  <2> QED
    BY <1>3, <2>2
<1>18. SumOn(paid, A) \in Int /\ SumOn(capital, W) \in Int /\ SumOn(paid, own) \in Int
  <2>1. (\A i \in A : paid[i] \in Int) /\ (\A i \in W : capital[i] \in Int) /\ (\A i \in own : paid[i] \in Int)
    BY <1>3, <1>9, <1>12
  <2> QED
    BY <1>4, <2>1, SumOnInt
<1>19. SumOn(PaidBy(journal, own), own) = SumOn(paid, own)
  BY <1>4, <1>6, <1>13
<1>20. /\ list[k + 1].cash - list[k].cash - FlowsBetween(journal, list)[k] = SumOn(PaidBy(journal, own), own)
       /\ SumOn(PaidBy(journal, own), own) \in Int
  <2>1. PICK a \in Int, b \in Int, c \in Int :
          a = SumOn(paid, A) /\ b = SumOn(capital, W) /\ c = SumOn(paid, own)
    BY <1>18
  <2>2. list[k].cash = a /\ list[k + 1].cash = a + (b + c) /\ FlowsBetween(journal, list)[k] = b
    BY <1>7, <1>8, <1>14, <1>15, <1>16, <1>17, <2>1
  <2> QED
    BY <1>19, <2>1, <2>2
<1> QED
  BY <1>20 DEF own, low, high

\* Between two fresh snapshots the gain of a day is what the market and the
\* portfolio's own events made: money that came or went is no gain and no loss,
\* whenever it did, however far back it is dated and whatever was undone of it.
THEOREM GainsAreThePortfolios == PerformanceSpec => []GainsComeFromThePortfolio
<1>1. Measured => GainsComeFromThePortfolio
  <2> SUFFICES ASSUME Measured, NEW list \in Periods, NEW k \in 1..(Len(list) - 1),
                      Fresh(list[k]), Fresh(list[k + 1])
               PROVE  Gain(list, FlowsBetween(journal, list), k) =
                        list[k + 1].market - list[k].market
                        + SumOver({i \in Within(list[k].cutoff, list[k + 1].cutoff) :
                                     journal[Undone(i)].type \notin ExternalEvents}, LAMBDA e : e.legs.cash)
    BY DEF GainsComeFromThePortfolio
  <2>1. PICK K : K = Len(list) - 1 /\ IsPeriod(list, K)
    BY PeriodIs
  <2>2. PICK own : own = OwnEvents(list[k].cutoff, list[k + 1].cutoff)
    OBVIOUS
  <2>3. /\ list[k + 1].cash - list[k].cash - FlowsBetween(journal, list)[k] = SumOn(PaidBy(journal, own), own)
        /\ SumOn(PaidBy(journal, own), own) \in Int
    BY <2>1, <2>2, OwnIsTheRest
  <2>4. SumOver(own, LAMBDA e : e.legs.cash) = SumOn(PaidBy(journal, own), own)
    BY OwnSum
  <2>5. own = {i \in Within(list[k].cutoff, list[k + 1].cutoff) : journal[Undone(i)].type \notin ExternalEvents}
    BY <2>2 DEF OwnEvents
  <2>6. /\ list[k].cash \in Int /\ list[k].market \in Int /\ list[k + 1].cash \in Int /\ list[k + 1].market \in Int
        /\ FlowsBetween(journal, list)[k] \in Int
    <3>1. list[k] \in snapshots /\ list[k + 1] \in snapshots
      BY <2>1, WindowIs
    <3>2. FlowsBetween(journal, list)[k] \in Int
      <4>1. journal \in Seq(Events)
        BY DEF Measured, WholeNumbers
      <4> QED
        BY <2>1, <4>1, FlowsBetweenAre
    <3> QED
      BY <3>1, <3>2 DEF Measured, SnapshotsTaken, Taken
  <2>7. Gain(list, FlowsBetween(journal, list), k) =
          list[k + 1].market - list[k].market + SumOn(PaidBy(journal, own), own)
    <3>1. PICK f \in Int, s \in Int : f = FlowsBetween(journal, list)[k] /\ s = SumOn(PaidBy(journal, own), own)
      BY <2>3, <2>6
    <3>2. Gain(list, FlowsBetween(journal, list), k) =
            (list[k + 1].cash + list[k + 1].market) - (list[k].cash + list[k].market) - f
      BY <3>1 DEF Gain, Total
    <3>3. PICK a \in Int, b \in Int, c \in Int, d \in Int :
            a = list[k].cash /\ b = list[k].market /\ c = list[k + 1].cash /\ d = list[k + 1].market
      BY <2>6
    <3>4. c - a - f = s
      BY <2>3, <3>1, <3>3
    <3>5. (c + d) - (a + b) - f = d - b + s
      BY <3>4
    <3> QED
      BY <3>1, <3>2, <3>3, <3>5
  <2> QED
    BY <2>4, <2>5, <2>7
<1> QED
  BY <1>1, MeasuredAlways, PTL

-----------------------------------------------------------------------------
(* What was measured before *)

\* A log with one event more; of the others only the mark of a reversal may differ.
Prolongs(more, log) ==
  /\ log \in Seq(Events) /\ more \in Seq(Events) /\ Len(more) = Len(log) + 1
  /\ \A i \in 1..Len(log) :
       /\ more[i].type = log[i].type /\ more[i].legs = log[i].legs
       /\ more[i].income = log[i].income /\ more[i].costs = log[i].costs
       /\ more[i].occurred = log[i].occurred /\ more[i].reverses = log[i].reverses

\* Its flows are the same through a cutoff before the new event.
LEMMA SameFlows ==
  ASSUME NEW log, NEW more, Prolongs(more, log),
         NEW late \in Int, more[Len(more)].occurred > late,
         NEW events \in SUBSET Through(log, late)
  PROVE  /\ Through(more, late) = Through(log, late)
         /\ FlowsOf(more, events, Through(more, late)) = FlowsOf(log, events, Through(log, late))
<1> DEFINE known == Through(log, late)
<1>1. PICK n \in Nat : /\ n = Len(log) /\ Len(more) = n + 1
                       /\ DOMAIN log = 1..n /\ DOMAIN more = 1..(n + 1) /\ more[n + 1].occurred > late
  BY DEF Prolongs
<1>2. /\ \A i \in 1..n :
           /\ more[i].type = log[i].type /\ more[i].legs = log[i].legs
           /\ more[i].income = log[i].income /\ more[i].costs = log[i].costs
           /\ more[i].occurred = log[i].occurred /\ more[i].reverses = log[i].reverses
      /\ \A i \in 1..(n + 1) : more[i].occurred \in Nat
  BY <1>1, ThroughIs DEF Prolongs
<1>3. Through(more, late) = known
  <2>1. ASSUME NEW i \in 1..(n + 1), more[i].occurred <= late PROVE i \in 1..n
    <3>1. i # n + 1
      <4>1. more[n + 1].occurred \in Nat
        BY <1>2
      <4> QED
        BY <1>1, <2>1, <4>1
    <3> QED
      BY <3>1
  <2> QED
    BY <1>1, <1>2, <2>1 DEF Through
<1>4. known \in SUBSET (1..n)
  BY <1>1 DEF Through
<1>5. \A i \in events : Flow(more, i, known) = Flow(log, i, known)
  <2> SUFFICES ASSUME NEW i \in events PROVE Flow(more, i, known) = Flow(log, i, known)
    OBVIOUS
  <2>1. i \in 1..n
    BY <1>4
  <2>2. EffectiveType(more, i, known) = EffectiveType(log, i, known)
    <3>1. log[i].reverses \in known => more[log[i].reverses].type = log[log[i].reverses].type
      BY <1>2, <1>4
    <3> HIDE DEF known
    <3> QED
      BY <1>2, <2>1, <3>1 DEF EffectiveType
  <2> HIDE DEF known
  <2> QED
    BY <1>2, <2>1, <2>2 DEF Flow
<1> HIDE DEF known
<1>6. \A f \in FlowFields : FieldOf(more, events, known, f) = FieldOf(log, events, known, f)
  BY <1>5 DEF FieldOf
<1>7. FlowsOf(more, events, known) = FlowsOf(log, events, known)
  BY <1>6, FlowsOfIs
<1> QED
  BY <1>3, <1>7 DEF known

\* So are the returns of a period that ends before it.
LEMMA SameReturns ==
  ASSUME NEW list, NEW K, IsPeriod(list, K), NEW log, NEW more, Prolongs(more, log),
         more[Len(more)].occurred > list[Len(list)].cutoff
  PROVE  DailyReturns(more, list) = DailyReturns(log, list)
<1> DEFINE edges == EdgesOf(list)
           late == edges[K + 1]
<1>1. log \in Seq(Events) /\ more \in Seq(Events)
  BY DEF Prolongs
<1>2. /\ K \in Nat /\ DOMAIN list = 1..(K + 1) /\ Len(list) = K + 1
      /\ \A l \in 1..(K + 1) : edges[l] \in Int
  BY DEF IsPeriod, Windows
<1>3. late \in Int /\ late = list[Len(list)].cutoff
  <2>1. K + 1 \in 1..(K + 1)
    BY <1>2
  <2> QED
    BY <1>2, <2>1 DEF EdgesOf
<1>4. /\ FlowsBetween(log, list) = [k \in 1..K |-> FlowsBetween(log, list)[k]]
      /\ FlowsBetween(more, list) = [k \in 1..K |-> FlowsBetween(more, list)[k]]
  BY <1>1, FlowsBetweenAre
<1>5. ASSUME NEW k \in 1..K PROVE FlowsBetween(more, list)[k] = FlowsBetween(log, list)[k]
  <2>1. /\ FlowsBetween(log, list)[k] = NetExternal(FlowsOf(log, Between(log, list, K, k), Through(log, late)))
        /\ FlowsBetween(more, list)[k] = NetExternal(FlowsOf(more, Between(more, list, K, k), Through(more, late)))
    BY <1>1, FlowsBetweenAre DEF KnownTo
  <2>2. Between(log, list, K, k) \in SUBSET Through(log, late)
    BY DEF Between, EventsOf
  <2>3. more[Len(more)].occurred > late
    BY <1>3
  <2> HIDE DEF late
  <2>4. /\ Through(more, late) = Through(log, late)
        /\ FlowsOf(more, Between(log, list, K, k), Through(more, late))
             = FlowsOf(log, Between(log, list, K, k), Through(log, late))
    BY <1>3, <2>2, <2>3, SameFlows
  <2>5. Between(more, list, K, k) = Between(log, list, K, k)
    <3>1. \A i \in Through(log, late) : more[i].occurred = log[i].occurred
      BY <1>1 DEF Prolongs, Through
    <3>2. Through(more, late) = Through(log, late)
      BY <2>4
    <3>3. \A i \in Through(log, late) : InWindow(more, edges, i, k) <=> InWindow(log, edges, i, k)
      BY <3>1 DEF InWindow
    <3> QED
      BY <3>2, <3>3 DEF Between, EventsOf, late
  <2> QED
    BY <2>1, <2>4, <2>5
<1>6. FlowsBetween(more, list) = FlowsBetween(log, list)
  BY <1>4, <1>5
<1> QED
  BY <1>6 DEF DailyReturns

LEMMA ReturnsStandStep ==
  ASSUME Measured, [PerformanceNext]_<<vars, perfVars>>, NEW list \in Periods,
         Len(journal') > Len(journal), journal'[Len(journal')].occurred > list[Len(list)].cutoff
  PROVE  DailyReturns(journal', list) = DailyReturns(journal, list)
<1>1. WholeNumbers /\ journal \in Seq(Events)
  BY DEF Measured, WholeNumbers
<1>2. [Next]_vars
  BY DEF PerformanceNext, SnapshotsNext, TakeSnapshot, vars, perfVars
<1>3. PICK e : Extended(e)
  <2>1. journal' # journal
    BY <1>1
  <2> QED
    BY <1>1, <1>2, <2>1, JournalStep
<1>4. Prolongs(journal', journal)
  BY <1>1, <1>3 DEF Extended, Prolongs
<1>5. PICK K : IsPeriod(list, K)
  BY PeriodIs
<1> QED
  BY <1>4, <1>5, SameReturns

\* What is posted or undone later does not change a return that was measured
\* before: a reversal is an event of its own day, and the mark it sets on the event
\* it undoes is not looked at.
THEOREM MeasuredReturnsAlwaysStand == PerformanceSpec => MeasuredReturnsStand
<1>1. Measured /\ [PerformanceNext]_<<vars, perfVars>> =>
        [\A list \in Periods :
           (Len(journal') > Len(journal) /\ journal'[Len(journal')].occurred > list[Len(list)].cutoff)
           => DailyReturns(journal', list) = DailyReturns(journal, list)]_vars
  BY ReturnsStandStep
<1> QED
  BY <1>1, MeasuredAlways, PTL DEF MeasuredReturnsStand, PerformanceSpec

-----------------------------------------------------------------------------
(* Growth over the days *)

\* Growth that starts with one and stays in X.
GrowsIn(daily, n, X) ==
  /\ n \in Nat /\ DOMAIN daily = 1..n /\ Whole(1) \in X
  /\ \A k \in 1..n : \A x \in X : Grow(x, daily[k]) \in X

\* The growth after each day.
IsGrowth(daily, n, X, pass) ==
  /\ pass \in [0..n -> X] /\ pass[0] = Whole(1)
  /\ \A k \in 1..n : pass[k] = Grow(pass[k - 1], daily[k])
  /\ Linked(daily) = pass[n]

LEMMA GrownPass ==
  ASSUME NEW daily, NEW n, NEW X, GrowsIn(daily, n, X)
  PROVE  \E pass : IsGrowth(daily, n, X, pass)
<1> USE DEF GrowsIn
<1> DEFINE Op(x, k) == Grow(x, daily[k])
           start == Whole(1)
           Iterates(u) == u = [s \in SUBSET (1..n) |-> IF s = {} THEN start ELSE Op(u[s \ {Max(s)}], Max(s))]
           step == [k \in 1..n |-> [x \in X |-> Op(x, k)]]
<1>1. Linked(daily) = (CHOOSE u : Iterates(u))[1..n]
  BY DEF Linked, FoldLeft, MapThenFoldSet
<1>2. n \in Nat /\ start \in X /\ \A k \in 1..n : \A x \in X : Op(x, k) \in X
  OBVIOUS
<1> HIDE DEF Op, start, GrowsIn
<1>3. PICK it : Carries(it, step, start, n)
  BY <1>2, CarryExists
<1>4. \A s \in SUBSET (1..n) : it[s] \in X
  <2>1. \A k \in 1..n : step[k] \in [X -> X]
    BY <1>2
  <2> HIDE DEF step
  <2> QED
    BY <1>2, <1>3, <2>1, CarryType
<1>5. ASSUME NEW s \in SUBSET (1..n), s # {} PROVE Max(s) \in 1..n /\ s \ {Max(s)} \in SUBSET (1..n)
  BY <1>2, <1>5, LatestIs
<1>6. Iterates(it)
  <2>1. it = [s \in SUBSET (1..n) |-> IF s = {} THEN start ELSE step[Max(s)][it[s \ {Max(s)}]]]
    BY <1>3 DEF Carries
  <2>2. ASSUME NEW s \in SUBSET (1..n), s # {}
        PROVE  step[Max(s)][it[s \ {Max(s)}]] = Op(it[s \ {Max(s)}], Max(s))
    BY <1>4, <1>5, <2>2
  <2>3. [s \in SUBSET (1..n) |-> IF s = {} THEN start ELSE step[Max(s)][it[s \ {Max(s)}]]]
          = [s \in SUBSET (1..n) |-> IF s = {} THEN start ELSE Op(it[s \ {Max(s)}], Max(s))]
    BY <2>2
  <2> QED
    BY <2>1, <2>3
<1>7. ASSUME NEW u, Iterates(u) PROVE u = it
  <2> DEFINE Y == {u[s] : s \in SUBSET (1..n)} \cup {it[s] : s \in SUBSET (1..n)}
             either == [k \in 1..n |-> [x \in Y |-> Op(x, k)]]
  <2>1. ASSUME NEW v, Iterates(v), \A s \in SUBSET (1..n) : v[s] \in Y PROVE Carries(v, either, start, n)
    <3>1. ASSUME NEW s \in SUBSET (1..n), s # {}
          PROVE  Op(v[s \ {Max(s)}], Max(s)) = either[Max(s)][v[s \ {Max(s)}]]
      BY <1>5, <2>1, <3>1
    <3>2. [s \in SUBSET (1..n) |-> IF s = {} THEN start ELSE Op(v[s \ {Max(s)}], Max(s))]
            = [s \in SUBSET (1..n) |-> IF s = {} THEN start ELSE either[Max(s)][v[s \ {Max(s)}]]]
      BY <3>1
    <3> QED
      BY <2>1, <3>2 DEF Carries
  <2>2. \A s \in SUBSET (1..n) : u[s] \in Y /\ it[s] \in Y
    OBVIOUS
  <2> HIDE DEF Y, either, Iterates
  <2>3. Carries(u, either, start, n) /\ Carries(it, either, start, n)
    BY <1>6, <1>7, <2>1, <2>2
  <2> QED
    BY <1>2, <2>3, CarryOnce
<1>8. (CHOOSE u : Iterates(u)) = it
  <2> HIDE DEF Iterates
  <2> QED
    BY <1>6, <1>7
<1>9. PICK pass : Leads(pass, step, start, it[1..n], n, X)
  <2>1. StepsWithin(step, n, X)
    BY <1>2 DEF StepsWithin
  <2> HIDE DEF step, Iterates
  <2> QED
    BY <1>2, <1>3, <2>1, CarriedPass
<1>10. \A k \in 1..n : pass[k] = Op(pass[k - 1], k)
  <2>1. \A k \in 1..n : k - 1 \in 0..n
    BY <1>2
  <2> QED
    BY <1>9, <2>1 DEF Leads
<1> HIDE DEF Iterates, step
<1>11. Linked(daily) = pass[n]
  BY <1>1, <1>8, <1>9 DEF Leads
<1> QED
  BY <1>9, <1>10, <1>11 DEF Op, start, IsGrowth, Leads

\* The return of a day is none, or a fraction of its base.
LEMMA ReturnIs ==
  ASSUME NEW gain \in Int, NEW base \in Int
  PROVE  \/ base <= 0 /\ Return(gain, base) = NoReturn
         \/ /\ base > 0 /\ Return(gain, base) # NoReturn /\ IsFraction(Return(gain, base))
            /\ Return(gain, base).num * base = (2 * gain) * Return(gain, base).den
<1>1. CASE base <= 0
  BY <1>1 DEF Return
<1>2. CASE ~(base <= 0)
  <2>1. PICK n \in Int, d \in Nat \ {0} : n = 2 * gain /\ d = base
    BY <1>2
  <2>2. PICK r : r = Return(gain, base)
    OBVIOUS
  <2>3. r = Fraction(n, d)
    BY <1>2, <2>1, <2>2 DEF Return
  <2>4. IsFraction(r) /\ r.num * d = n * r.den
    BY <2>3, FractionIs
  <2>5. r # NoReturn
    BY <2>4 DEF IsFraction, NoReturn
  <2> QED
    BY <1>2, <2>1, <2>2, <2>4, <2>5
<1> QED
  BY <1>1, <1>2

\* The values, flows and returns of a period.
LEMMA DailyIs ==
  ASSUME Measured, NEW list, NEW K, IsPeriod(list, K)
  PROVE  LET flows == FlowsBetween(journal, list)
             daily == DailyReturns(journal, list)
         IN  /\ \A k \in 1..(K + 1) : Total(list[k]) \in Int
             /\ DOMAIN flows = 1..K /\ (\A k \in 1..K : flows[k] \in Int) /\ flows = [k \in 1..K |-> flows[k]]
             /\ DOMAIN daily = 1..K
             /\ \A k \in 1..K :
                  /\ Gain(list, flows, k) \in Int
                  /\ Gain(list, flows, k) = Total(list[k + 1]) - Total(list[k]) - flows[k]
                  /\ 2 * Total(list[k]) + flows[k] \in Int
                  /\ daily[k] = Return(Gain(list, flows, k), 2 * Total(list[k]) + flows[k])
<1>1. PICK flows : flows = FlowsBetween(journal, list)
  OBVIOUS
<1>2. PICK daily : daily = DailyReturns(journal, list)
  OBVIOUS
<1>3. DOMAIN flows = 1..K /\ (\A k \in 1..K : flows[k] \in Int) /\ flows = [k \in 1..K |-> flows[k]]
  <2>1. journal \in Seq(Events)
    BY DEF Measured, WholeNumbers
  <2> QED
    BY <1>1, <2>1, FlowsBetweenAre
<1>4. K \in Nat /\ \A k \in 1..(K + 1) : Total(list[k]) \in Int
  <2>1. K \in Nat /\ \A k \in 1..(K + 1) : list[k] \in snapshots
    BY DEF IsPeriod
  <2>2. \A s \in snapshots : s.cash \in Int /\ s.market \in Int
    BY DEF Measured, SnapshotsTaken, Taken
  <2> QED
    BY <2>1, <2>2 DEF Total
<1>5. daily = [k \in 1..K |-> Return(Gain(list, flows, k), 2 * Total(list[k]) + flows[k])]
  BY <1>1, <1>2, <1>3 DEF DailyReturns
<1>6. ASSUME NEW k \in 1..K
      PROVE  /\ Gain(list, flows, k) \in Int
             /\ Gain(list, flows, k) = Total(list[k + 1]) - Total(list[k]) - flows[k]
             /\ 2 * Total(list[k]) + flows[k] \in Int
  <2>1. k \in 1..(K + 1) /\ k + 1 \in 1..(K + 1)
    BY <1>4
  <2>2. PICK a \in Int, b \in Int, f \in Int : a = Total(list[k]) /\ b = Total(list[k + 1]) /\ f = flows[k]
    BY <1>3, <1>4, <2>1
  <2>3. Gain(list, flows, k) = b - a - f
    BY <2>2 DEF Gain
  <2> QED
    BY <2>2, <2>3
<1> QED
  BY <1>1, <1>2, <1>3, <1>4, <1>5, <1>6

\* The growth of values that are no less than what they grew from.
Growths == {g \in FractionSet : g.num >= g.den}

LEMMA LargerFraction ==
  ASSUME NEW n \in Int, NEW d \in Nat \ {0}, d <= n
  PROVE  Fraction(n, d) \in Growths
<1>1. PICK t \in Nat \ {0}, u \in Int, v \in Nat \ {0} :
        /\ t = gcd[<<Magnitude(n), d>>] /\ n = t * u /\ d = t * v
        /\ Fraction(n, d) = [num |-> u, den |-> v]
  BY FractionParts
<1>2. v <= u
  <2> SUFFICES ASSUME u + 1 <= v PROVE FALSE
    OBVIOUS
  <2>1. t * (u + 1) <= t * v /\ t * (u + 1) = t * u + t
    BY Grows, Distributes
  <2> QED
    BY <1>1, <2>1
<1>3. Fraction(n, d) \in FractionSet
  BY FractionType
<1> QED
  BY <1>1, <1>2, <1>3 DEF Growths

LEMMA GrownByGain ==
  ASSUME NEW g \in Growths, NEW gain \in Int, NEW base \in Int, gain >= 0
  PROVE  Grow(g, Return(gain, base)) \in Growths
<1>1. PICK r : r = Return(gain, base)
  OBVIOUS
<1>2. CASE r = NoReturn
  BY <1>1, <1>2 DEF Grow
<1>3. CASE r # NoReturn
  <2>1. base > 0 /\ IsFraction(r) /\ r.num * base = (2 * gain) * r.den
    BY <1>1, <1>3, ReturnIs
  <2>2. PICK a \in Int, b \in Nat \ {0}, m \in Int, d \in Nat \ {0} :
          a = g.num /\ b = g.den /\ m = r.num /\ d = r.den /\ b <= a
    <3>1. IsFraction(g) /\ g.num >= g.den
      BY FractionSetIs DEF Growths
    <3> QED
      BY <2>1, <3>1 DEF IsFraction
  <2>3. 0 <= m
    <3> SUFFICES ASSUME m <= -1 PROVE FALSE
      OBVIOUS
    <3>1. PICK c \in Nat \ {0}, e \in Nat : c = base /\ e = 2 * gain
      BY <2>1
    <3>2. e * d \in Nat /\ m * c = e * d
      BY <2>1, <2>2, <3>1, NaturalProduct
    <3>3. m * c <= (-1) * c /\ (-1) * c = -c
      BY Grows
    <3> QED
      BY <3>1, <3>2, <3>3
  <2>4. a * (d + m) \in Int /\ b * d \in Nat \ {0} /\ b * d <= a * (d + m)
    <3>1. a * d \in Int /\ a * m \in Int /\ a * (d + m) = a * d + a * m
      BY ProductType, Distributes
    <3>2. b * d <= a * d /\ b * d \in Nat \ {0}
      BY <2>2, Grows, PositiveProduct
    <3>3. a * m \in Nat
      BY <2>2, <2>3, NaturalProduct
    <3> QED
      BY <3>1, <3>2, <3>3
  <2>5. Grow(g, r) = Fraction(a * (d + m), b * d)
    BY <1>3, <2>2 DEF Grow
  <2>6. PICK n \in Int, e \in Nat \ {0} : n = a * (d + m) /\ e = b * d /\ e <= n
    BY <2>4
  <2>7. Fraction(n, e) \in Growths
    BY <2>6, LargerFraction
  <2> QED
    BY <1>1, <2>5, <2>6, <2>7
<1> QED
  BY <1>2, <1>3

LEMMA NoLossShown == Measured => GainsDoNotShowAsLosses
<1> SUFFICES ASSUME Measured, NEW list \in Periods,
                    \A k \in 1..(Len(list) - 1) : Gain(list, FlowsBetween(journal, list), k) >= 0
             PROVE  LET growth == Linked(DailyReturns(journal, list)) IN growth.num >= growth.den
  BY DEF GainsDoNotShowAsLosses
<1>1. PICK K : K = Len(list) - 1 /\ IsPeriod(list, K)
  BY PeriodIs
<1>2. PICK flows, daily : flows = FlowsBetween(journal, list) /\ daily = DailyReturns(journal, list)
  OBVIOUS
<1>3. /\ K \in Nat /\ DOMAIN daily = 1..K
      /\ \A k \in 1..K :
           /\ Gain(list, flows, k) \in Int /\ 2 * Total(list[k]) + flows[k] \in Int
           /\ daily[k] = Return(Gain(list, flows, k), 2 * Total(list[k]) + flows[k])
  BY <1>1, <1>2, DailyIs DEF IsPeriod
<1>4. \A k \in 1..K : Gain(list, flows, k) >= 0
  BY <1>1, <1>2
<1>5. \A k \in 1..K : \A g \in Growths : Grow(g, daily[k]) \in Growths
  BY <1>3, <1>4, GrownByGain
<1>6. Whole(1) \in Growths
  BY WholeType DEF Growths, Whole
<1>7. GrowsIn(daily, K, Growths)
  BY <1>3, <1>5, <1>6 DEF GrowsIn
<1>8. PICK pass : IsGrowth(daily, K, Growths, pass)
  BY <1>7, GrownPass
<1>9. Linked(daily) \in Growths
  <2>1. K \in 0..K
    BY <1>3
  <2> QED
    BY <1>8, <2>1 DEF IsGrowth
<1> QED
  BY <1>2, <1>9 DEF Growths

\* One day more of a value that only grows: (b / a) (c / b) = c / a.
LEMMA GrownByValue ==
  ASSUME NEW a \in Nat \ {0}, NEW b \in Nat \ {0}, NEW c \in Int
  PROVE  Grow(Fraction(b, a), Return(c - b, 2 * b)) = Fraction(c, a)
<1>1. PICK g, r : g = Fraction(b, a) /\ r = Return(c - b, 2 * b)
  OBVIOUS
<1>2. PICK gain \in Int, base \in Int : gain = c - b /\ base = 2 * b
  OBVIOUS
<1>3. r # NoReturn /\ IsFraction(r) /\ r.num * base = (2 * gain) * r.den
  <2>1. r = Return(gain, base) /\ base > 0
    BY <1>1, <1>2
  <2> QED
    BY <2>1, ReturnIs
<1>4. IsFraction(g) /\ g.num * a = b * g.den
  BY <1>1, FractionIs
<1>5. PICK n \in Int, e \in Nat \ {0}, m \in Int, d \in Nat \ {0} :
        n = g.num /\ e = g.den /\ m = r.num /\ d = r.den
  BY <1>3, <1>4 DEF IsFraction
<1>6. (d + m) * b = c * d
  <2>1. m * (2 * b) = (2 * (c - b)) * d
    BY <1>2, <1>3, <1>5
  <2>2. m * (2 * b) = 2 * (m * b) /\ (2 * (c - b)) * d = 2 * ((c - b) * d)
    BY Associates, Commutes
  <2>3. (c - b) * d = c * d - b * d /\ (d + m) * b = d * b + m * b /\ d * b = b * d
    BY Distributes, DistributesMinus, Commutes
  <2>4. m * b \in Int /\ (c - b) * d \in Int /\ c * d \in Int /\ b * d \in Int
    BY ProductType
  <2>5. PICK x \in Int, y \in Int, z \in Int, o \in Int : x = m * b /\ y = (c - b) * d /\ z = c * d /\ o = b * d
    BY <2>4
  <2>6. 2 * x = 2 * y /\ y = z - o /\ (d + m) * b = o + x
    BY <2>1, <2>2, <2>3, <2>5
  <2> QED
    BY <2>5, <2>6
<1>7. (n * (d + m)) * a = c * (e * d)
  <2>1. PICK s \in Int : s = d + m
    OBVIOUS
  <2>2. (n * s) * a = (n * a) * s
    BY Associates, Commutes
  <2>3. (n * a) * s = (b * e) * s
    BY <1>4, <1>5
  <2>4. (b * e) * s = e * (s * b)
    BY Associates, Commutes
  <2>5. e * (s * b) = e * (c * d)
    BY <1>6, <2>1
  <2>6. e * (c * d) = c * (e * d)
    BY Associates, Commutes
  <2> QED
    BY <2>1, <2>2, <2>3, <2>4, <2>5, <2>6
<1>8. n * (d + m) \in Int /\ e * d \in Nat \ {0}
  BY ProductType, PositiveProduct
<1>9. Fraction(n * (d + m), e * d) = Fraction(c, a)
  BY <1>7, <1>8, FractionsAreEqual
<1>10. Grow(g, r) = Fraction(n * (d + m), e * d)
  BY <1>3, <1>5 DEF Grow
<1> QED
  BY <1>1, <1>9, <1>10

LEMMA GrowthOfTheValue == Measured => GrowthIsOfTheValue
<1> SUFFICES ASSUME Measured, NEW list \in Periods,
                    \A k \in DOMAIN list : Total(list[k]) > 0,
                    \A k \in 1..(Len(list) - 1) : FlowsBetween(journal, list)[k] = 0
             PROVE  Linked(DailyReturns(journal, list)) = Fraction(Total(list[Len(list)]), Total(list[1]))
  BY DEF GrowthIsOfTheValue
<1>1. PICK K : K = Len(list) - 1 /\ IsPeriod(list, K)
  BY PeriodIs
<1>2. PICK flows, daily : flows = FlowsBetween(journal, list) /\ daily = DailyReturns(journal, list)
  OBVIOUS
<1>3. K \in Nat /\ DOMAIN list = 1..(K + 1) /\ Len(list) = K + 1
  BY <1>1 DEF IsPeriod
<1> DEFINE value == [k \in 1..(K + 1) |-> Total(list[k])]
<1>4. \A k \in 1..(K + 1) : value[k] \in Nat \ {0} /\ value[k] = Total(list[k])
  <2>1. \A k \in 1..(K + 1) : Total(list[k]) \in Int
    BY <1>1, DailyIs
  <2> QED
    BY <1>3, <2>1
<1>5. DOMAIN daily = 1..K /\ \A k \in 1..K : daily[k] = Return(value[k + 1] - value[k], 2 * value[k])
  <2>1. /\ DOMAIN daily = 1..K
        /\ \A k \in 1..K :
             /\ Gain(list, flows, k) = Total(list[k + 1]) - Total(list[k]) - flows[k]
             /\ daily[k] = Return(Gain(list, flows, k), 2 * Total(list[k]) + flows[k])
    BY <1>1, <1>2, DailyIs
  <2> SUFFICES ASSUME NEW k \in 1..K PROVE daily[k] = Return(value[k + 1] - value[k], 2 * value[k])
    BY <2>1
  <2>2. flows[k] = 0
    BY <1>1, <1>2
  <2>3. k \in 1..(K + 1) /\ k + 1 \in 1..(K + 1)
    BY <1>3
  <2>4. PICK a \in Int, b \in Int : a = value[k] /\ b = value[k + 1] /\ a = Total(list[k]) /\ b = Total(list[k + 1])
    BY <1>4, <2>3
  <2>5. Gain(list, flows, k) = b - a /\ 2 * Total(list[k]) + flows[k] = 2 * a
    BY <2>1, <2>2, <2>4
  <2> QED
    BY <2>1, <2>4, <2>5
<1> HIDE DEF value
<1> DEFINE grown(k) == Fraction(value[k + 1], value[1])
<1>6. \A k \in 1..K : k - 1 \in 0..K /\ k \in 1..(K + 1) /\ k + 1 \in 1..(K + 1) /\ (k - 1) + 1 = k
  BY <1>3
<1>7. 1 \in 1..(K + 1) /\ value[1] \in Nat \ {0}
  BY <1>3, <1>4
<1>8. \A k \in 1..K : Grow(grown(k - 1), daily[k]) = grown(k)
  <2> SUFFICES ASSUME NEW k \in 1..K PROVE Grow(grown(k - 1), daily[k]) = grown(k)
    OBVIOUS
  <2>1. PICK a \in Nat \ {0}, b \in Nat \ {0}, c \in Int : a = value[1] /\ b = value[k] /\ c = value[k + 1]
    BY <1>4, <1>6, <1>7
  <2>2. grown(k - 1) = Fraction(b, a) /\ grown(k) = Fraction(c, a) /\ daily[k] = Return(c - b, 2 * b)
    BY <1>5, <1>6, <2>1
  <2> QED
    BY <2>2, GrownByValue
<1>9. Whole(1) = grown(0)
  <2>1. PICK a \in Nat \ {0} : a = value[1]
    BY <1>7
  <2>2. Fraction(a, a) = Fraction(1, 1) /\ Whole(1) = Fraction(1, 1)
    <3>1. 1 \in Int /\ 1 \in Nat \ {0} /\ a \in Int /\ a * 1 = 1 * a
      OBVIOUS
    <3>2. Fraction(a, a) = Fraction(1, 1)
      BY <3>1, FractionsAreEqual
    <3>3. Whole(1) = Fraction(Whole(1).num, Whole(1).den)
      BY <3>1, WholeIsLowest DEF Lowest
    <3>4. Whole(1).num = 1 /\ Whole(1).den = 1
      BY DEF Whole
    <3> QED
      BY <3>2, <3>3, <3>4
  <2>3. 0 + 1 = 1
    OBVIOUS
  <2> QED
    BY <2>1, <2>2, <2>3
<1>10. \A k \in 1..K : \A x \in FractionSet : Grow(x, daily[k]) \in FractionSet
  <2> SUFFICES ASSUME NEW k \in 1..K, NEW x \in FractionSet PROVE Grow(x, daily[k]) \in FractionSet
    OBVIOUS
  <2>1. PICK b \in Nat \ {0}, c \in Nat \ {0} : b = value[k] /\ c = value[k + 1]
    BY <1>4, <1>6
  <2>2. PICK gain \in Int, base \in Int : gain = c - b /\ base = 2 * b
    OBVIOUS
  <2>3. daily[k] # NoReturn /\ IsFraction(daily[k])
    <3>1. daily[k] = Return(gain, base)
      BY <1>5, <2>1, <2>2
    <3>2. base > 0
      BY <2>2
    <3> QED
      BY <3>1, <3>2, ReturnIs
  <2>4. PICK n \in Int, e \in Nat \ {0}, m \in Int, d \in Nat \ {0} :
          n = x.num /\ e = x.den /\ m = daily[k].num /\ d = daily[k].den
    BY <2>3, FractionSetIs DEF IsFraction
  <2>5. n * (d + m) \in Int /\ e * d \in Nat \ {0}
    BY ProductType, PositiveProduct
  <2>6. Grow(x, daily[k]) = Fraction(n * (d + m), e * d)
    BY <2>3, <2>4 DEF Grow
  <2> QED
    BY <2>5, <2>6, FractionType
<1>11. GrowsIn(daily, K, FractionSet)
  BY <1>3, <1>5, <1>10, WholeType DEF GrowsIn
<1>12. PICK pass : IsGrowth(daily, K, FractionSet, pass)
  BY <1>11, GrownPass
<1>13. \A k \in 1..K : pass[k] = Grow(pass[k - 1], daily[k])
  BY <1>12 DEF IsGrowth
<1> DEFINE Good == {k \in Nat : k <= K => pass[k] = grown(k)}
<1>14. 0 \in Good
  BY <1>9, <1>12 DEF IsGrowth
<1>15. ASSUME NEW m \in Nat, m \in Good PROVE m + 1 \in Good
  <2> SUFFICES ASSUME m + 1 <= K PROVE pass[m + 1] = grown(m + 1)
    OBVIOUS
  <2>1. m <= K /\ m + 1 \in 1..K /\ (m + 1) - 1 = m
    BY <1>3
  <2>2. pass[m] = grown(m)
    BY <1>15, <2>1
  <2> HIDE DEF Good, grown
  <2>3. pass[m + 1] = Grow(grown(m), daily[m + 1])
    BY <1>13, <2>1, <2>2
  <2> QED
    BY <1>8, <2>1, <2>3
<1> HIDE DEF Good, grown
<1>16. Nat \subseteq Good
  BY <1>14, <1>15, NaturalInduction
<1>17. Linked(daily) = grown(K)
  <2>1. K \in Good /\ K <= K
    BY <1>3, <1>16
  <2>2. pass[K] = grown(K)
    BY <2>1 DEF Good
  <2> QED
    BY <1>12, <2>2 DEF IsGrowth
<1>18. value[K + 1] = Total(list[Len(list)]) /\ value[1] = Total(list[1])
  <2>1. K + 1 \in 1..(K + 1) /\ 1 \in 1..(K + 1)
    BY <1>3
  <2> QED
    BY <1>3, <1>4, <2>1
<1> QED
  BY <1>2, <1>17, <1>18 DEF grown

\* XIRR discounts what was there first, what came and went, and what is there last.
LEMMA XirrFlowsAre ==
  ASSUME Measured, NEW list, NEW K, IsPeriod(list, K)
  PROVE  LET xirr == XirrFlows(journal, list)
             flows == FlowsBetween(journal, list)
         IN  /\ Len(xirr) = K + 2 /\ xirr[1] = -Total(list[1]) /\ xirr[K + 2] = Total(list[K + 1])
             /\ \A k \in 1..K : xirr[k + 1] = -flows[k]
<1>1. PICK flows : flows = FlowsBetween(journal, list)
  OBVIOUS
<1>2. /\ K \in Nat /\ DOMAIN flows = 1..K /\ Len(list) = K + 1
      /\ \A k \in 1..K : flows[k] \in Int
      /\ \A k \in 1..(K + 1) : Total(list[k]) \in Int
  BY <1>1, DailyIs DEF IsPeriod
<1>3. PICK first \in Int, last \in Int : first = -Total(list[1]) /\ last = Total(list[K + 1])
  <2>1. 1 \in 1..(K + 1) /\ K + 1 \in 1..(K + 1)
    BY <1>2
  <2> QED
    BY <1>2, <2>1
<1>4. PICK out : out = [k \in 1..K |-> -flows[k]]
  OBVIOUS
<1>5. out \in Seq(Int) /\ Len(out) = K /\ \A k \in 1..K : out[k] = -flows[k]
  BY <1>2, <1>4
<1>6. XirrFlows(journal, list) = (<<first>> \o out) \o <<last>>
  BY <1>1, <1>2, <1>3, <1>4 DEF XirrFlows
<1>7. PICK xirr : xirr = (<<first>> \o out) \o <<last>>
  OBVIOUS
<1>8. /\ Len(xirr) = K + 2 /\ xirr[1] = first /\ xirr[K + 2] = last
      /\ \A k \in 1..K : xirr[k + 1] = out[k]
  <2>1. PICK head : head = <<first>> \o out
    OBVIOUS
  <2>2. head \in Seq(Int) /\ Len(head) = K + 1 /\ head[1] = first /\ \A k \in 1..K : head[k + 1] = out[k]
    BY <1>2, <1>5, <2>1
  <2>3. xirr = head \o <<last>>
    BY <1>7, <2>1
  <2>4. Len(xirr) = K + 2 /\ xirr[K + 2] = last /\ \A k \in 1..(K + 1) : xirr[k] = head[k]
    BY <1>2, <2>2, <2>3
  <2>5. 1 \in 1..(K + 1) /\ \A k \in 1..K : k + 1 \in 1..(K + 1)
    BY <1>2
  <2> QED
    BY <2>2, <2>4, <2>5
<1> QED
  BY <1>1, <1>3, <1>5, <1>6, <1>7, <1>8

LEMMA SameFlowsSeen == Measured => BothReturnsSeeTheSameFlows
<1> SUFFICES ASSUME Measured, NEW list \in Periods
             PROVE  LET flows == XirrFlows(journal, list)
                        daily == FlowsBetween(journal, list)
                    IN  SumTo(flows, Len(flows)) = SumTo([k \in DOMAIN daily |-> Gain(list, daily, k)], Len(daily))
  BY DEF BothReturnsSeeTheSameFlows
<1>1. PICK K : K = Len(list) - 1 /\ IsPeriod(list, K)
  BY PeriodIs
<1>2. PICK xirr, flows : xirr = XirrFlows(journal, list) /\ flows = FlowsBetween(journal, list)
  OBVIOUS
<1>3. /\ K \in Nat /\ DOMAIN flows = 1..K
      /\ \A k \in 1..K : flows[k] \in Int
      /\ \A k \in 1..(K + 1) : Total(list[k]) \in Int
      /\ \A k \in 1..K : Gain(list, flows, k) = Total(list[k + 1]) - Total(list[k]) - flows[k]
  BY <1>1, <1>2, DailyIs DEF IsPeriod
<1>4. Len(flows) = K
  <2>1. flows = [k \in 1..K |-> flows[k]]
    BY <1>1, <1>2, DailyIs
  <2> QED
    BY <1>3, <2>1
<1>5. /\ Len(xirr) = K + 2 /\ xirr[1] = -Total(list[1]) /\ xirr[K + 2] = Total(list[K + 1])
      /\ \A k \in 1..K : xirr[k + 1] = -flows[k]
  BY <1>1, <1>2, XirrFlowsAre
<1>6. PICK gains : gains = [k \in DOMAIN flows |-> Gain(list, flows, k)]
  OBVIOUS
<1>7. \A k \in 1..K : gains[k] = Total(list[k + 1]) - Total(list[k]) - flows[k]
  BY <1>3, <1>6
<1> DEFINE value == [k \in 1..(K + 1) |-> Total(list[k])]
<1>8. 1 \in 1..(K + 1) /\ K + 1 \in 1..(K + 1)
  BY <1>3
<1>9. /\ \A k \in 1..(K + 1) : value[k] \in Int
      /\ \A k \in 1..K : gains[k] = value[k + 1] - value[k] - flows[k]
      /\ xirr[1] = -value[1] /\ xirr[K + 2] = value[K + 1]
  <2>1. \A k \in 1..K : k \in 1..(K + 1) /\ k + 1 \in 1..(K + 1)
    BY <1>3
  <2> QED
    BY <1>3, <1>5, <1>7, <1>8, <2>1
<1> HIDE DEF value
<1> DEFINE Good == {m \in Nat : m <= K =>
                      \E s \in Int : /\ Totals(xirr, m + 1, -value[1] - s)
                                     /\ Totals(gains, m, value[m + 1] - value[1] - s)}
<1>10. PICK first \in Int : first = value[1]
  BY <1>8, <1>9
<1>11. 0 \in Good
  <2>1. Totals(xirr, 0 + 1, 0 + xirr[0 + 1]) /\ Totals(gains, 0, 0)
    BY NothingTotals, TotalsOfMore
  <2>2. 0 + xirr[0 + 1] = -value[1] - 0 /\ value[0 + 1] - value[1] - 0 = 0
    BY <1>9, <1>10
  <2> QED
    BY <2>1, <2>2
<1>12. ASSUME NEW m \in Nat, m \in Good PROVE m + 1 \in Good
  <2> SUFFICES ASSUME m + 1 <= K
               PROVE  \E s \in Int : /\ Totals(xirr, (m + 1) + 1, -value[1] - s)
                                     /\ Totals(gains, m + 1, value[(m + 1) + 1] - value[1] - s)
    OBVIOUS
  <2>1. m <= K /\ m + 1 \in 1..K /\ m + 1 \in 1..(K + 1) /\ (m + 1) + 1 \in 1..(K + 1) /\ m + 1 \in Nat
    BY <1>3
  <2>2. PICK s \in Int : Totals(xirr, m + 1, -value[1] - s) /\ Totals(gains, m, value[m + 1] - value[1] - s)
    BY <1>12, <2>1
  <2>3. PICK f \in Int, a \in Int, b \in Int : f = flows[m + 1] /\ a = value[m + 1] /\ b = value[(m + 1) + 1]
    BY <1>3, <1>9, <2>1
  <2>4. xirr[(m + 1) + 1] = -f /\ gains[m + 1] = b - a - f
    BY <1>5, <1>9, <2>1, <2>3
  <2>5. /\ Totals(xirr, (m + 1) + 1, (-value[1] - s) + xirr[(m + 1) + 1])
        /\ Totals(gains, m + 1, (value[m + 1] - value[1] - s) + gains[m + 1])
    BY <2>1, <2>2, TotalsOfMore
  <2>6. /\ (-value[1] - s) + xirr[(m + 1) + 1] = -value[1] - (s + f)
        /\ (value[m + 1] - value[1] - s) + gains[m + 1] = value[(m + 1) + 1] - value[1] - (s + f)
    BY <1>10, <2>3, <2>4
  <2> QED
    BY <2>5, <2>6
<1> HIDE DEF Good
<1>13. Nat \subseteq Good
  BY <1>11, <1>12, NaturalInduction
<1>14. PICK s \in Int : Totals(xirr, K + 1, -value[1] - s) /\ Totals(gains, K, value[K + 1] - value[1] - s)
  <2>1. K \in Good /\ K <= K
    BY <1>3, <1>13
  <2> QED
    BY <2>1 DEF Good
<1>15. PICK last \in Int : last = value[K + 1]
  BY <1>8, <1>9
<1>16. SumTo(xirr, K + 2) = last - first - s
  <2>1. K + 1 \in Nat /\ (K + 1) + 1 = K + 2
    BY <1>3
  <2>2. Totals(xirr, (K + 1) + 1, (-value[1] - s) + xirr[(K + 1) + 1])
    BY <1>14, <2>1, TotalsOfMore
  <2>3. SumTo(xirr, K + 2) = (-value[1] - s) + xirr[K + 2]
    BY <1>3, <2>1, <2>2, TotalIsSum
  <2> QED
    BY <1>9, <1>10, <1>15, <2>3
<1>17. SumTo(gains, K) = last - first - s
  BY <1>3, <1>10, <1>14, <1>15, TotalIsSum
<1> QED
  BY <1>2, <1>4, <1>5, <1>6, <1>16, <1>17

\* The linked returns of a period say what its values and flows say: without flows
\* they are the growth of the value, whatever snapshots lie in between; what XIRR
\* discounts adds up to the gains of the days; and days that do not lose never link
\* to a loss, whatever the book was worth meanwhile.
THEOREM ReturnsAlwaysAgree == PerformanceSpec => []ReturnsAgreeWithValues
<1>1. Measured => ReturnsAgreeWithValues
  BY GrowthOfTheValue, SameFlowsSeen, NoLossShown DEF ReturnsAgreeWithValues
<1> QED
  BY <1>1, MeasuredAlways, PTL
=============================================================================
