--------------------------- MODULE BookingProofs ----------------------------
(***************************************************************************)
(* Admission, search and replay are correct for every value of the         *)
(* constants. The invariant Safe adds to the properties of admission that  *)
(* intervals are nonempty and aligned: without alignment the extension of a*)
(* started reservation, which is tested from the next slot boundary, could *)
(* leave a gap untested, and the queue search, which tries only the ends of*)
(* reservations and blackouts, could miss the earliest slot. The invariant *)
(* AppliedOnce says where the memory of an applied operation is; it needs  *)
(* from Safe that a record which is reused or cancelled held no memory in  *)
(* that place.                                                             *)
(***************************************************************************)
EXTENDS Booking, FiniteSetTheorems, TLAPS

-----------------------------------------------------------------------------
(* The operators of Booking: slot arithmetic, what find_earliest_slot      *)
(* returns, what maintenance leaves behind, and when one record may be     *)
(* written beside the others.                                              *)

\* A slot lasts at least one tick.
LEMMA SlotNat == Slot \in Nat /\ Slot > 0
  BY BookingAssumption

\* Division by the slot length leaves a remainder below it.
LEMMA DivisionFacts ==
  ASSUME NEW a \in Nat
  PROVE  /\ a % Slot \in 0 .. Slot - 1
         /\ a \div Slot \in Nat
         /\ a = Slot * (a \div Slot) + (a % Slot)
  BY SlotNat

\* Whole numbers of slots are aligned.
LEMMA MultipleOfSlot ==
  ASSUME NEW k \in Nat PROVE (k * Slot) % Slot = 0
  BY SlotNat

\* Adding an aligned duration to an aligned start gives an aligned end.
LEMMA Sums ==
  ASSUME NEW a \in Nat, NEW b \in Nat, a % Slot = 0, b % Slot = 0
  PROVE  (a + b) % Slot = 0
<1> DEFINE x == a \div Slot
           y == b \div Slot
<1>1. x \in Nat /\ y \in Nat /\ a = Slot * x /\ b = Slot * y
  BY DivisionFacts, SlotNat
<1> HIDE DEF x, y
<1>2. a + b = (x + y) * Slot /\ x + y \in Nat BY <1>1, SlotNat
<1> QED BY <1>2, MultipleOfSlot, Zenon

\* Aligned instants differ by a whole number of slots, at least one.
LEMMA Differences ==
  ASSUME NEW a \in Nat, NEW b \in Nat, a % Slot = 0, b % Slot = 0, a < b
  PROVE  (b - a) % Slot = 0 /\ a + Slot <= b
<1> DEFINE x == a \div Slot
           y == b \div Slot
<1>1. x \in Nat /\ y \in Nat /\ a = Slot * x /\ b = Slot * y
  BY DivisionFacts, SlotNat
<1> HIDE DEF x, y
<1>2. b - a = (y - x) * Slot BY <1>1, SlotNat
<1>3. y - x > 0 BY <1>2, <1>1, SlotNat
<1>4. (y - x) * Slot >= Slot BY <1>3, <1>1, SlotNat
<1>5. y - x \in Nat BY <1>3, <1>1
<1>6. (b - a) % Slot = 0 BY <1>2, <1>5, MultipleOfSlot, Zenon
<1>7. a + Slot <= b BY <1>2, <1>4, SlotNat
<1> QED BY <1>6, <1>7, Zenon

\* floor_slot and ceil_slot return aligned instants, and no aligned instant lies
\* between t and Ceil(t).
LEMMA CeilFacts ==
  ASSUME NEW t \in Nat
  PROVE  Floor(t) \in Nat /\ Floor(t) % Slot = 0 /\ Floor(t) <= t
         /\ Ceil(t) \in Nat /\ Ceil(t) % Slot = 0 /\ Ceil(t) >= t
         /\ \A b \in Nat : b % Slot = 0 /\ b >= t => Ceil(t) <= b
<1> DEFINE x == t \div Slot
           r == t % Slot
<1>1. x \in Nat /\ r \in 0 .. Slot - 1 /\ t = Slot * x + r
  BY DivisionFacts, SlotNat, Zenon
<1>2. Floor(t) = x * Slot BY <1>1, SlotNat DEF Floor
<1> HIDE DEF x
<1>3. Floor(t) \in Nat /\ Floor(t) % Slot = 0 /\ Floor(t) <= t
  BY <1>1, <1>2, MultipleOfSlot, SlotNat
<1>4. x * Slot + Slot = (x + 1) * Slot BY <1>1, SlotNat
<1>5. Ceil(t) \in Nat /\ Ceil(t) % Slot = 0 /\ Ceil(t) >= t
  <2>1. CASE r = 0 BY <2>1 DEF Ceil
  <2>2. CASE r # 0
    <3>1. Ceil(t) = (x + 1) * Slot /\ x + 1 \in Nat BY <2>2, <1>1, <1>2, <1>4 DEF Ceil
    <3>2. Ceil(t) % Slot = 0 BY <3>1, MultipleOfSlot, Zenon
    <3>3. Ceil(t) = Floor(t) + Slot BY <2>2, Zenon DEF Ceil
    <3>4. t = Floor(t) + r BY <1>1, SlotNat DEF Floor
    <3> QED BY <3>2, <3>3, <3>4, <1>1, <1>3, SlotNat
  <2> QED BY <2>1, <2>2, Zenon
<1>6. ASSUME NEW b \in Nat, b % Slot = 0, b >= t PROVE Ceil(t) <= b
  <2>1. CASE r = 0 BY <2>1, <1>6, Zenon DEF Ceil
  <2>2. CASE r # 0
    <3>1. Floor(t) < t BY <2>2, <1>1, SlotNat DEF Floor
    <3>2. Floor(t) + Slot <= b BY <3>1, <1>3, <1>6, Differences, SlotNat
    <3> QED BY <3>2, <2>2, Zenon DEF Ceil
  <2> QED BY <2>1, <2>2, Zenon
<1> QED BY <1>3, <1>5, <1>6, Zenon

-----------------------------------------------------------------------------
(* Least elements, induction, and the sum of the units of reservations.    *)

\* A set of natural numbers that is not empty has a least one.
LEMMA LeastNat ==
  ASSUME NEW T, T \subseteq Nat, T # {}
  PROVE  \E m \in T : \A n \in T : m <= n
<1> DEFINE R == OpToRel(<, Nat)
<1>1. IsWellFoundedOn(R, Nat) BY NatLessThanWellFounded, Zenon
<1>2. \A x, y \in Nat : <<y, x>> \in R <=> y < x BY Zenon DEF OpToRel
<1> HIDE DEF R
<1>3. PICK x \in T : \A y \in T : ~ (<<y, x>> \in R) BY <1>1, WFMin, Zenon
<1>4. \A y \in T : ~ (y < x) BY <1>2, <1>3, Zenon
<1> QED BY <1>4

\* What holds of 0 and is passed on from n to n + 1 holds of every natural number.
LEMMA Induction ==
  ASSUME NEW G, 0 \in G, \A n \in Nat : n \in G => n + 1 \in G
  PROVE  Nat \subseteq G
<1> SUFFICES ASSUME Nat \ G # {} PROVE FALSE BY Zenon
<1>1. PICK m \in Nat \ G : \A n \in Nat \ G : m <= n BY LeastNat, Zenon
<1>2. m # 0 /\ m - 1 \in Nat BY <1>1
<1>3. m - 1 \in G BY <1>1, <1>2
<1> QED BY <1>1, <1>2, <1>3

\* The partial sums of w.
PartialSums(f, w) == f[0] = 0 /\ \A n \in Id : f[n] = f[n - 1] + w[n]

\* Total is the last partial sum.
LEMMA TotalSums ==
  ASSUME NEW w \in [Id -> Nat]
  PROVE  \E f \in [0 .. MaxReservations -> Nat] :
             PartialSums(f, w) /\ Total(w) = f[MaxReservations]
<1> DEFINE N == MaxReservations
           Part(n) == \E f \in [0 .. n -> Nat] :
                        f[0] = 0 /\ \A i \in 1 .. n : f[i] = f[i - 1] + w[i]
           G == {n \in Nat : n <= N => Part(n)}
<1>0. N \in Nat /\ Id = 1 .. N /\ \A i \in 1 .. N : w[i] \in Nat BY BookingAssumption, Zenon DEF Id
<1>1. Part(0)
  <2> DEFINE f == [i \in 0 .. 0 |-> 0]
  <2>1. f \in [0 .. 0 -> Nat] /\ f[0] = 0 /\ 1 .. 0 = {} OBVIOUS
  <2> QED BY <2>1, Zenon
<1>2. ASSUME NEW n \in Nat, n + 1 <= N, Part(n) PROVE Part(n + 1)
  <2>1. PICK f \in [0 .. n -> Nat] : f[0] = 0 /\ \A i \in 1 .. n : f[i] = f[i - 1] + w[i]
    BY <1>2, Zenon
  <2> DEFINE g == [i \in 0 .. n + 1 |-> IF i <= n THEN f[i] ELSE f[n] + w[n + 1]]
  <2>2. f[n] \in Nat /\ w[n + 1] \in Nat BY <1>0, <1>2
  <2>3. g \in [0 .. n + 1 -> Nat] /\ g[0] = 0 BY <2>1, <2>2
  <2>4. \A i \in 1 .. n + 1 : g[i] = g[i - 1] + w[i]
    <3> TAKE i \in 1 .. n + 1
    <3>1. CASE i <= n BY <2>1, <3>1
    <3>2. CASE i = n + 1 BY <3>2
    <3> QED BY <3>1, <3>2
  <2> HIDE DEF g
  <2> QED BY <2>3, <2>4, Zenon
<1> HIDE DEF Part
<1>3. Part(N)
  <2>1. 0 \in G /\ \A n \in Nat : n \in G => n + 1 \in G BY <1>0, <1>1, <1>2
  <2>2. N \in G
    <3> HIDE DEF G
    <3> QED BY <1>0, <2>1, Induction, Zenon
  <2> QED BY <1>0, <2>2
<1>4. PICK f \in [0 .. N -> Nat] : f[0] = 0 /\ \A i \in 1 .. N : f[i] = f[i - 1] + w[i]
  BY <1>3, Zenon DEF Part
<1> DEFINE Line(g, n) == IF n = 0 THEN 0 ELSE g[n - 1] + w[n]
           h == CHOOSE g : g = [n \in 0 .. N |-> Line(g, n)]
<1>5. \A n \in 0 .. N : f[n] = Line(f, n)
  <2> TAKE n \in 0 .. N
  <2>1. CASE n = 0 BY <1>4, <2>1, Zenon
  <2>2. CASE n # 0
    <3>1. n \in 1 .. N BY <1>0, <2>2
    <3> QED BY <1>4, <2>2, <3>1, Zenon
  <2> QED BY <2>1, <2>2, Zenon
<1>6. Total(w) = h[N] BY Zenon DEF Total
<1>7. h = [n \in 0 .. N |-> Line(h, n)]
  <2> HIDE DEF Line
  <2>1. f = [n \in 0 .. N |-> Line(f, n)] BY <1>5, Zenon
  <2> QED BY <2>1, Zenon
<1> HIDE DEF h
<1>8. \A n \in 0 .. N : h[n] = Line(h, n) BY <1>7, Zenon
<1>9. h[0] = 0 /\ \A n \in 1 .. N : h[n] = h[n - 1] + w[n] BY <1>0, <1>8
<1>10. \A n \in 0 .. N : h[n] \in Nat
  <2> DEFINE T == {n \in Nat : n <= N => h[n] \in Nat}
  <2>1. 0 \in T BY <1>9
  <2>2. ASSUME NEW n \in Nat, n + 1 <= N, h[n] \in Nat PROVE h[n + 1] \in Nat
    <3>1. h[n + 1] = h[n] + w[n + 1] /\ w[n + 1] \in Nat BY <1>0, <1>9, <2>2
    <3> QED BY <2>2, <3>1
  <2>3. \A n \in Nat : n \in T => n + 1 \in T BY <1>0, <2>2
  <2>4. Nat \subseteq T
    <3> HIDE DEF T
    <3> QED BY <2>1, <2>3, Induction, Zenon
  <2> QED BY <1>0, <2>4
<1>11. h \in [0 .. N -> Nat] BY <1>7, <1>10, Zenon
<1> QED BY <1>0, <1>6, <1>9, <1>11, Zenon DEF PartialSums

\* A sum is a natural number, and smaller terms give a smaller sum.
LEMMA TotalMonotone ==
  ASSUME NEW v \in [Id -> Nat], NEW w \in [Id -> Nat], \A i \in Id : v[i] <= w[i]
  PROVE  Total(v) \in Nat /\ Total(w) \in Nat /\ Total(v) <= Total(w)
<1> DEFINE N == MaxReservations
<1>0. N \in Nat /\ Id = 1 .. N BY BookingAssumption, Zenon DEF Id
<1>1. PICK f \in [0 .. N -> Nat] : PartialSums(f, v) /\ Total(v) = f[N] BY TotalSums, Zenon
<1>2. PICK g \in [0 .. N -> Nat] : PartialSums(g, w) /\ Total(w) = g[N] BY TotalSums, Zenon
<1> DEFINE T == {n \in Nat : n <= N => f[n] <= g[n]}
<1>3. 0 \in T BY <1>1, <1>2 DEF PartialSums
<1>4. ASSUME NEW n \in Nat, n + 1 <= N, f[n] <= g[n] PROVE f[n + 1] <= g[n + 1]
  <2>1. n + 1 \in Id /\ n \in 0 .. N /\ n + 1 \in 0 .. N BY <1>0, <1>4
  <2>2. f[n + 1] = f[n] + v[n + 1] /\ g[n + 1] = g[n] + w[n + 1]
    <3>1. (n + 1) - 1 = n OBVIOUS
    <3>2. \A m \in Id : f[m] = f[m - 1] + v[m] /\ g[m] = g[m - 1] + w[m]
      BY <1>1, <1>2, Zenon DEF PartialSums
    <3> QED BY <2>1, <3>1, <3>2, Zenon
  <2>3. f[n] \in Nat /\ g[n] \in Nat /\ v[n + 1] \in Nat /\ w[n + 1] \in Nat /\ v[n + 1] <= w[n + 1]
    BY <2>1, Zenon
  <2> QED BY <1>4, <2>2, <2>3
<1>5. \A n \in Nat : n \in T => n + 1 \in T BY <1>0, <1>4
<1>6. N \in T
  <2> HIDE DEF T
  <2> QED BY <1>0, <1>3, <1>5, Induction, Zenon
<1> QED BY <1>0, <1>1, <1>2, <1>6

\* One term more adds that term to the sum.
LEMMA TotalAdds ==
  ASSUME NEW v \in [Id -> Nat], NEW w \in [Id -> Nat], NEW k \in Id, v[k] = 0,
         \A i \in Id \ {k} : w[i] = v[i]
  PROVE  Total(w) = Total(v) + w[k]
<1> DEFINE N == MaxReservations
<1>0. N \in Nat /\ Id = 1 .. N /\ w[k] \in Nat BY BookingAssumption, Zenon DEF Id
<1>1. PICK f \in [0 .. N -> Nat] : PartialSums(f, v) /\ Total(v) = f[N] BY TotalSums, Zenon
<1>2. PICK g \in [0 .. N -> Nat] : PartialSums(g, w) /\ Total(w) = g[N] BY TotalSums, Zenon
<1> DEFINE Sum(n) == g[n] = f[n] + (IF k <= n THEN w[k] ELSE 0)
           T == {n \in Nat : n <= N => Sum(n)}
<1>3. 0 \in T BY <1>0, <1>1, <1>2 DEF PartialSums
<1>4. ASSUME NEW n \in Nat, n + 1 <= N, g[n] = f[n] + (IF k <= n THEN w[k] ELSE 0)
      PROVE  g[n + 1] = f[n + 1] + (IF k <= n + 1 THEN w[k] ELSE 0)
  <2>1. n + 1 \in Id /\ n \in 0 .. N /\ n + 1 \in 0 .. N BY <1>0, <1>4
  <2>2. f[n + 1] = f[n] + v[n + 1] /\ g[n + 1] = g[n] + w[n + 1]
    <3>1. (n + 1) - 1 = n OBVIOUS
    <3>2. \A m \in Id : f[m] = f[m - 1] + v[m] /\ g[m] = g[m - 1] + w[m]
      BY <1>1, <1>2, Zenon DEF PartialSums
    <3> QED BY <2>1, <3>1, <3>2, Zenon
  <2>3. f[n] \in Nat /\ g[n] \in Nat /\ v[n + 1] \in Nat /\ w[n + 1] \in Nat BY <2>1, Zenon
  <2>4. CASE k = n + 1
    <3>1. g[n] = f[n] /\ v[n + 1] = 0 /\ k <= n + 1 BY <1>4, <2>3, <2>4
    <3>2. g[n + 1] = f[n + 1] + w[k] BY <2>2, <2>3, <2>4, <3>1
    <3> QED BY <3>1, <3>2, Zenon
  <2>5. CASE k # n + 1
    <3>0. w[n + 1] = v[n + 1] BY <2>1, <2>5, Zenon
    <3>1. k <= n + 1 <=> k <= n
      <4>1. k \in Nat BY <1>0
      <4> QED BY <2>5, <4>1
    <3>2. PICK x \in Nat : x = IF k <= n THEN w[k] ELSE 0 BY <1>0, Zenon
    <3>3. g[n + 1] = f[n + 1] + x BY <1>4, <2>2, <2>3, <3>0, <3>1, <3>2
    <3> QED BY <3>1, <3>2, <3>3, Zenon
  <2> QED BY <2>4, <2>5, Zenon
<1> HIDE DEF Sum
<1>5. \A n \in Nat : n + 1 <= N /\ Sum(n) => Sum(n + 1) BY <1>4, Zenon DEF Sum
<1>6. \A n \in Nat : n \in T => n + 1 \in T BY <1>0, <1>5
<1>7. N \in T
  <2> HIDE DEF T
  <2> QED BY <1>0, <1>3, <1>6, Induction, Zenon
<1> QED BY <1>0, <1>1, <1>2, <1>7 DEF Sum

\* The sum of no terms is 0.
LEMMA TotalZero ==
  ASSUME NEW v \in [Id -> Nat], \A i \in Id : v[i] = 0
  PROVE  Total(v) = 0
<1> DEFINE N == MaxReservations
<1>0. N \in Nat /\ Id = 1 .. N BY BookingAssumption, Zenon DEF Id
<1>1. PICK f \in [0 .. N -> Nat] : PartialSums(f, v) /\ Total(v) = f[N] BY TotalSums, Zenon
<1> DEFINE T == {n \in Nat : n <= N => f[n] = 0}
<1>3. 0 \in T BY <1>1, Zenon DEF PartialSums
<1>4. ASSUME NEW n \in Nat, n + 1 <= N, f[n] = 0 PROVE f[n + 1] = 0
  <2>1. n + 1 \in Id BY <1>0, <1>4
  <2> QED BY <1>1, <1>4, <2>1 DEF PartialSums
<1>5. \A n \in Nat : n \in T => n + 1 \in T BY <1>0, <1>4
<1>6. N \in T
  <2> HIDE DEF T
  <2> QED BY <1>0, <1>3, <1>5, Induction, Zenon
<1> QED BY <1>0, <1>1, <1>6

\* The live shared reservations of GPU g that cover instant x.
Sharing(rs, t, g, x) ==
    {i \in Live(rs, t) : /\ g \in rs[i].gpus /\ rs[i].mode = "shared"
                         /\ rs[i].start <= x /\ x < rs[i].end}

\* The units that the ids of S stand for are natural numbers.
Counts(rs, S) == S \subseteq Id /\ \A i \in S : rs[i].units \in Nat

\* Fewer reservations, with the same units, have fewer units.
LEMMA UnitsMonotone ==
  ASSUME NEW rs, NEW S, NEW xs, NEW T, Counts(rs, S), T \subseteq S,
         \A i \in T : xs[i].units = rs[i].units
  PROVE  /\ UnitsOf(rs, S) \in Nat /\ UnitsOf(xs, T) \in Nat
         /\ UnitsOf(xs, T) <= UnitsOf(rs, S)
<1> DEFINE v == [i \in Id |-> IF i \in T THEN xs[i].units ELSE 0]
           w == [i \in Id |-> IF i \in S THEN rs[i].units ELSE 0]
<1>1. v \in [Id -> Nat] /\ w \in [Id -> Nat] /\ \A i \in Id : v[i] <= w[i] BY DEF Counts
<1>2. UnitsOf(xs, T) = Total(v) /\ UnitsOf(rs, S) = Total(w) BY Zenon DEF UnitsOf
<1> HIDE DEF v, w
<1> QED BY <1>1, <1>2, TotalMonotone, Zenon

\* Leaving one out leaves no more units.
LEMMA FewerUnits ==
  ASSUME NEW rs, NEW S, Counts(rs, S), NEW k
  PROVE  UnitsOf(rs, S) \in Nat /\ UnitsOf(rs, S \ {k}) \in Nat /\ UnitsOf(rs, S \ {k}) <= UnitsOf(rs, S)
<1>1. S \ {k} \subseteq S /\ \A i \in S \ {k} : rs[i].units = rs[i].units BY Zenon
<1> QED BY <1>1, UnitsMonotone, Zenon

\* One reservation more adds its units.
LEMMA UnitsAdd ==
  ASSUME NEW rs, NEW S, Counts(rs, S), NEW k \in S
  PROVE  UnitsOf(rs, S) = UnitsOf(rs, S \ {k}) + rs[k].units
<1> DEFINE v == [i \in Id |-> IF i \in S \ {k} THEN rs[i].units ELSE 0]
           w == [i \in Id |-> IF i \in S THEN rs[i].units ELSE 0]
<1>1. /\ v \in [Id -> Nat] /\ w \in [Id -> Nat] /\ k \in Id /\ v[k] = 0 /\ w[k] = rs[k].units
      /\ \A i \in Id \ {k} : w[i] = v[i]
  BY Zenon DEF Counts
<1>2. UnitsOf(rs, S \ {k}) = Total(v) /\ UnitsOf(rs, S) = Total(w) BY Zenon DEF UnitsOf
<1> HIDE DEF v, w
<1> QED BY <1>1, <1>2, TotalAdds, Zenon

\* No reservations have no units.
LEMMA UnitsZero ==
  ASSUME NEW rs PROVE UnitsOf(rs, {}) = 0
<1> DEFINE v == [i \in Id |-> IF i \in {} THEN rs[i].units ELSE 0]
<1>1. v \in [Id -> Nat] /\ \A i \in Id : v[i] = 0 BY Zenon
<1>2. UnitsOf(rs, {}) = Total(v) BY Zenon DEF UnitsOf
<1> HIDE DEF v
<1> QED BY <1>1, <1>2, TotalZero, Zenon

-----------------------------------------------------------------------------
\* _availability_detail_indexed: a GPU that it calls available has no live
\* reservation in the interval, unless both are shared.
LEMMA AvailableKeepsApart ==
  ASSUME NEW rs, NEW t, NEW g, NEW s, NEW e, NEW mode, NEW units,
         Available(rs, t, g, s, e, mode, units),
         NEW j \in Live(rs, t), g \in rs[j].gpus, "exclusive" \in {mode, rs[j].mode}
  PROVE  ~Overlaps(rs[j].start, rs[j].end, s, e)
<1>1. CASE j \in Overlapping(rs, t, g, s, e)
  <2>1. rs[j].mode # "exclusive" /\ mode = "shared"
    BY <1>1, Zenon DEF Available
  <2> QED BY <2>1, Zenon
<1>2. CASE j \notin Overlapping(rs, t, g, s, e)
  BY <1>2, Zenon DEF Overlapping
<1> QED BY <1>1, <1>2, Zenon

\* find_earliest_slot returns as many free GPUs as the caller asked for.
LEMMA PlacementFacts ==
  ASSUME NEW rs, NEW now, NEW k, NEW mode, NEW units, NEW s, NEW d, NEW queue,
         NEW p \in Placements(rs, now, k, mode, units, s, d, queue)
  PROVE  /\ p[1] \in EarliestStart(rs, now, k, mode, units, s, d, queue)
         /\ p[2] \subseteq FreeGpus(rs, now, k, mode, units, p[1], p[1] + d)
         /\ Cardinality(p[2]) = k.count
<1>1. PICK c \in EarliestStart(rs, now, k, mode, units, s, d, queue) :
         p \in {c} \X kSubset(k.count, FreeGpus(rs, now, k, mode, units, c, c + d))
  BY Zenon DEF Placements
<1>2. p[1] = c /\ p[2] \in kSubset(k.count, FreeGpus(rs, now, k, mode, units, c, c + d))
  BY <1>1, Zenon
<1> QED BY <1>2, Zenon DEF kSubset

\* The start that find_earliest_slot returns passed the booking policy, and is the
\* requested one unless the request may queue.
LEMMA EarliestFits ==
  ASSUME NEW rs, NEW now, NEW k, NEW mode, NEW units, NEW s, NEW d, NEW queue,
         NEW c \in EarliestStart(rs, now, k, mode, units, s, d, queue)
  PROVE  /\ ~PolicyConflict(c, c + d, now)
         /\ IF queue THEN c \in CandidateStarts(rs, now, QueueStart(s, now)) ELSE c = s
  BY Zenon DEF EarliestStart, Fits

-----------------------------------------------------------------------------
Status == {"unused", "active", "expired", "cancelled", "purged"}

Units == (1 .. MaxShared) \cup {None}
Signature == {None} \cup {CreateSignature(q) : q \in Requests}
EditEntry == [op : OpId \cup {None}, sig : {None} \cup (Id \X EditRequests)]

Reservation ==
    [status : Status, uid : Uid \cup {None}, gpus : SUBSET Gpu, mode : Mode \cup {None},
     units : Units, start : Nat, end : Nat, op : OpId \cup {None},
     sig : Signature, cancelOp : OpId \cup {None},
     edits : Seq(EditEntry)]

\* What holds of every record: a bounded edit history, nothing remembered by a record
\* that was never used or was purged, and an aligned, nonempty interval while active.
Sound(r) ==
    /\ Len(r.edits) <= EditLimit
    /\ r.status \in {"unused", "purged"} => r.op = None /\ r.cancelOp = None /\ r.edits = <<>>
    /\ r.status = "active" =>
         /\ r.mode \in Mode /\ r.cancelOp = None
         /\ r.mode = "shared" => r.units \in 1 .. MaxShared
         /\ r.start % Slot = 0 /\ r.end % Slot = 0 /\ r.start < r.end

\* Two reservations may stand side by side.
Compatible(r, x) ==
    r.gpus \cap x.gpus # {} /\ "exclusive" \in {r.mode, x.mode}
        => ~Overlaps(r.start, r.end, x.start, x.end)

ClearOfBlackouts(r) == \A b \in Blackouts : ~Overlaps(r.start, r.end, b[1], b[2])

\* The reservations of a ledger are records of the type, each of them sound.
Wellformed(rs) == rs \in [Id -> Reservation] /\ \A i \in Id : Sound(rs[i])

\* At every instant the live shared reservations of a GPU fit into its units.
Capacity(rs, t) ==
    \A g \in Gpu, x \in Nat : UnitsOf(rs, Sharing(rs, t, g, x)) <= MaxShared

\* The reservation may take the place of record i beside the other shared ones.
Roomy(rs, t, i, new) ==
    new.mode = "shared" =>
        \A g \in new.gpus, x \in Nat :
            new.start <= x /\ x < new.end
                => UnitsOf(rs, Sharing(rs, t, g, x) \ {i}) + new.units <= MaxShared

\* At time t the live reservations are compatible, within the capacity of the GPUs and
\* clear of blackouts.
Timely(rs, t) ==
    /\ \A i, j \in Live(rs, t) : i # j => Compatible(rs[i], rs[j])
    /\ \A i \in Live(rs, t) : ClearOfBlackouts(rs[i])
    /\ Capacity(rs, t)

\* An unused and a purged record are sound.
LEMMA NoReservationType == NoReservation \in Reservation /\ Sound(NoReservation)
                        /\ [NoReservation EXCEPT !.status = "purged"] \in Reservation
                        /\ Sound([NoReservation EXCEPT !.status = "purged"])
<1>1. NoReservation \in Reservation /\ [NoReservation EXCEPT !.status = "purged"] \in Reservation
  <2>1. None \in Units /\ None \in Signature BY Zenon DEF Units, Signature
  <2>2. <<>> \in Seq(EditEntry) OBVIOUS
  <2> QED BY <2>1, <2>2, Zenon DEF NoReservation, Reservation, Status
<1>2. Sound(NoReservation) /\ Sound([NoReservation EXCEPT !.status = "purged"])
  BY BookingAssumption DEF NoReservation, Sound
<1> QED BY <1>1, <1>2, Zenon

\* Expiring or cancelling an active record leaves a sound one.
LEMMA RetiredType ==
  ASSUME NEW r \in Reservation, Sound(r), r.status = "active",
         NEW st \in {"expired", "cancelled"}, NEW at \in Nat, NEW o \in OpId \cup {None}
  PROVE  /\ Retired(r, st, at) \in Reservation
         /\ Sound(Retired(r, st, at))
         /\ [Retired(r, st, at) EXCEPT !.cancelOp = o] \in Reservation
         /\ Sound([Retired(r, st, at) EXCEPT !.cancelOp = o])
<1>1. Retired(r, st, at) \in Reservation /\ [Retired(r, st, at) EXCEPT !.cancelOp = o] \in Reservation
  BY Zenon DEF Retired, Reservation, Status
<1>2. Sound(Retired(r, st, at)) /\ Sound([Retired(r, st, at) EXCEPT !.cancelOp = o])
  BY Zenon DEF Retired, Sound, Reservation
<1> QED BY <1>1, <1>2, Zenon

\* _expire_old_reservations leaves exactly the live records active, and unchanged.
LEMMA ExpireFacts ==
  ASSUME NEW rs, NEW t \in Nat, Wellformed(rs)
  PROVE  /\ Wellformed(Expire(rs, t))
         /\ \A i \in Id : Expire(rs, t)[i].status = "active"
                            => Expire(rs, t)[i] = rs[i] /\ i \in Live(rs, t)
         /\ \A i \in Id : i \in Live(rs, t) \/ rs[i].status # "active" => Expire(rs, t)[i] = rs[i]
<1> DEFINE x == Expire(rs, t)
<1>1. ASSUME NEW i \in Id
      PROVE  /\ x[i] \in Reservation /\ Sound(x[i])
             /\ x[i].status = "active" => x[i] = rs[i] /\ i \in Live(rs, t)
             /\ i \in Live(rs, t) \/ rs[i].status # "active" => x[i] = rs[i]
  <2>1. rs[i] \in Reservation /\ Sound(rs[i]) BY Zenon DEF Wellformed
  <2>2. rs[i].end \in Nat BY <2>1, Zenon DEF Reservation
  <2>3. CASE rs[i].status = "active" /\ rs[i].end <= t
    <3>1. x[i] = Retired(rs[i], "expired", rs[i].end) BY <2>3, Zenon DEF Expire
    <3>2. x[i] \in Reservation /\ Sound(x[i]) BY <3>1, <2>1, <2>2, <2>3, RetiredType, Zenon
    <3>3. x[i].status = "expired" BY <3>1, <2>1, Zenon DEF Retired, Reservation
    <3>4. i \notin Live(rs, t) BY <2>2, <2>3 DEF Live
    <3> QED BY <3>2, <3>3, <3>4, <2>3, Zenon
  <2>4. CASE ~(rs[i].status = "active" /\ rs[i].end <= t)
    <3>1. x[i] = rs[i] BY <2>4, Zenon DEF Expire
    <3>2. x[i].status = "active" => i \in Live(rs, t) BY <3>1, <2>2, <2>4 DEF Live
    <3> QED BY <3>1, <3>2, <2>1, Zenon
  <2> QED BY <2>3, <2>4, Zenon
<1>2. x = [i \in Id |-> x[i]] BY Zenon DEF Expire
<1> HIDE DEF x
<1>3. x \in [Id -> Reservation] /\ \A i \in Id : Sound(x[i]) BY <1>1, <1>2, Zenon
<1> QED BY <1>1, <1>3, Zenon DEF Wellformed, x

\* _maintain_ledger leaves exactly the live records active, and unchanged.
LEMMA MaintainFacts ==
  ASSUME NEW rs, NEW t \in Nat, Wellformed(rs)
  PROVE  /\ Wellformed(Maintain(rs, t))
         /\ \A i \in Id : Maintain(rs, t)[i].status = "active"
                            => Maintain(rs, t)[i] = rs[i] /\ i \in Live(rs, t)
         /\ \A i \in Id : i \in Live(rs, t) \/ rs[i].status = "unused" => Maintain(rs, t)[i] = rs[i]
<1> DEFINE x == Expire(rs, t)
           m == Maintain(rs, t)
<1>1. ASSUME NEW i \in Id
      PROVE  /\ m[i] \in Reservation /\ Sound(m[i])
             /\ m[i].status = "active" => m[i] = rs[i] /\ i \in Live(rs, t)
             /\ i \in Live(rs, t) \/ rs[i].status = "unused" => m[i] = rs[i]
  <2>1. x[i] \in Reservation /\ Sound(x[i]) BY ExpireFacts, Zenon DEF Wellformed
  <2>2. CASE Purgeable(x[i], t)
    <3>1. m[i] = [NoReservation EXCEPT !.status = "purged"] BY <2>2, Zenon DEF Maintain
    <3>2. m[i].status = "purged" BY <3>1, Zenon DEF NoReservation
    <3>3. x[i].status \in {"expired", "cancelled"} BY <2>2, Zenon DEF Purgeable
    <3>4. i \notin Live(rs, t) /\ rs[i].status # "unused"
      BY <3>3, ExpireFacts, Zenon DEF Live
    <3> QED BY <3>1, <3>2, <3>4, NoReservationType, Zenon
  <2>3. CASE ~Purgeable(x[i], t)
    <3>1. m[i] = x[i] BY <2>3, Zenon DEF Maintain
    <3> QED BY <3>1, <2>1, ExpireFacts, Zenon
  <2> QED BY <2>2, <2>3, Zenon
<1>2. m = [i \in Id |-> m[i]] BY Zenon DEF Maintain
<1> HIDE DEF m
<1>3. m \in [Id -> Reservation] /\ \A i \in Id : Sound(m[i]) BY <1>1, <1>2, Zenon
<1> QED BY <1>1, <1>3, Zenon DEF Wellformed, m

-----------------------------------------------------------------------------
\* max of two instants.
LEMMA MaxOfTwo ==
  ASSUME NEW a \in Nat, NEW b \in Nat
  PROVE  Max({a, b}) = IF a >= b THEN a ELSE b
<1> DEFINE m == IF a >= b THEN a ELSE b
<1>1. m \in {a, b} /\ \A y \in {a, b} : m >= y OBVIOUS
<1>2. \A x \in {a, b} : (\A y \in {a, b} : x >= y) => x = m OBVIOUS
<1> HIDE DEF m
<1>3. Max({a, b}) = m BY <1>1, <1>2, Zenon DEF Max
<1> QED BY <1>3, Zenon DEF m

\* min of two instants.
LEMMA MinOfTwo ==
  ASSUME NEW a \in Nat, NEW b \in Nat
  PROVE  Min({a, b}) = IF a <= b THEN a ELSE b
<1> DEFINE m == IF a <= b THEN a ELSE b
<1>1. m \in {a, b} /\ \A y \in {a, b} : m <= y OBVIOUS
<1>2. \A x \in {a, b} : (\A y \in {a, b} : x <= y) => x = m OBVIOUS
<1> HIDE DEF m
<1>3. Min({a, b}) = m BY <1>1, <1>2, Zenon DEF Min
<1> QED BY <1>3, Zenon DEF m

\* The fields of a live reservation.
LEMMA LiveFields ==
  ASSUME NEW rs, NEW t \in Nat, Wellformed(rs), NEW i \in Live(rs, t)
  PROVE  /\ i \in Id /\ rs[i] \in Reservation /\ Sound(rs[i]) /\ rs[i].status = "active"
         /\ rs[i].start \in Nat /\ rs[i].end \in Nat /\ rs[i].end > t
         /\ rs[i].gpus \subseteq Gpu /\ rs[i].mode \in Mode /\ rs[i].start < rs[i].end
         /\ rs[i].start % Slot = 0 /\ rs[i].end % Slot = 0
<1>1. i \in Id /\ rs[i].status = "active" /\ rs[i].end > t BY Zenon DEF Live
<1>2. rs[i] \in Reservation /\ Sound(rs[i]) BY <1>1, Zenon DEF Wellformed
<1>3. rs[i].start \in Nat /\ rs[i].end \in Nat /\ rs[i].gpus \subseteq Gpu BY <1>2, Zenon DEF Reservation
<1> QED BY <1>1, <1>2, <1>3, Zenon DEF Sound

-----------------------------------------------------------------------------
(* The segments of _availability_detail_indexed: the capacity test at the  *)
(* cuts of an interval is the capacity test at each of its instants.       *)

\* The least of a set of instants.
LEMMA MinFacts ==
  ASSUME NEW T, T \subseteq Nat, T # {}
  PROVE  Min(T) \in T /\ \A y \in T : Min(T) <= y
<1>1. PICK m \in T : \A n \in T : m <= n BY LeastNat, Zenon
<1>2. \E m1 \in T : \A n \in T : m1 <= n BY <1>1, Zenon
<1> QED BY <1>2, Zenon DEF Min

\* The shared ones among the live reservations have natural units.
LEMMA SharedCount ==
  ASSUME NEW rs, NEW t \in Nat, Wellformed(rs), NEW S, S \subseteq Live(rs, t),
         \A i \in S : rs[i].mode = "shared"
  PROVE  Counts(rs, S)
<1>1. ASSUME NEW i \in S PROVE i \in Id /\ rs[i].units \in Nat
  <2>1. i \in Id /\ Sound(rs[i]) /\ rs[i].status = "active" BY LiveFields, Zenon
  <2>2. rs[i].units \in 1 .. MaxShared BY <2>1, Zenon DEF Sound
  <2> QED BY <2>1, <2>2, BookingAssumption
<1> QED BY <1>1, Zenon DEF Counts

\* So have the reservations that cover an instant.
LEMMA SharingCounts ==
  ASSUME NEW rs, NEW t \in Nat, Wellformed(rs), NEW g, NEW x
  PROVE  Counts(rs, Sharing(rs, t, g, x))
<1>1. PICK S : S = Sharing(rs, t, g, x) BY Zenon
<1>2. S \subseteq Live(rs, t) /\ \A i \in S : rs[i].mode = "shared" BY <1>1, Zenon DEF Sharing
<1> QED BY <1>1, <1>2, SharedCount, Zenon

\* Where _availability_detail_indexed cuts the interval.
Cuts(rs, spans, s, e) ==
    {s, e} \cup {Max({s, rs[i].start}) : i \in spans} \cup {Min({e, rs[i].end}) : i \in spans}

NextCut(cuts, p) == Min({r \in cuts : r > p})

\* The definition of Available for a shared request, by its parts.
LEMMA AvailableShared ==
  ASSUME NEW rs, NEW t, NEW g, NEW s, NEW e, NEW units, NEW spans, NEW cuts,
         spans = Overlapping(rs, t, g, s, e), cuts = Cuts(rs, spans, s, e)
  PROVE  Available(rs, t, g, s, e, "shared", units) <=>
           /\ \A i \in spans : rs[i].mode # "exclusive"
           /\ \A p \in cuts \ {Max(cuts)} :
                UsedUnits(rs, spans, p, NextCut(cuts, p)) + units <= MaxShared
  BY Zenon DEF Available, Cuts, NextCut

\* The cuts lie in the interval, the last of them is its end, and every other one
\* has a next.
Segmented(cuts, rs, spans, s, e) ==
    /\ cuts \subseteq s .. e /\ s \in cuts /\ e \in cuts /\ Max(cuts) = e
    /\ \A i \in spans : rs[i].start > s => rs[i].start \in cuts
    /\ \A p \in cuts \ {e} :
         /\ NextCut(cuts, p) \in cuts /\ NextCut(cuts, p) > p
         /\ \A r \in cuts : r > p => NextCut(cuts, p) <= r

\* The cuts of _availability_detail_indexed are such a segmentation.
LEMMA CutFacts ==
  ASSUME NEW rs, NEW t \in Nat, Wellformed(rs), NEW g, NEW s \in Nat, NEW e \in Nat, s < e,
         NEW spans, NEW cuts,
         spans = Overlapping(rs, t, g, s, e), cuts = Cuts(rs, spans, s, e)
  PROVE  Segmented(cuts, rs, spans, s, e)
<1>1. ASSUME NEW i \in spans
      PROVE  /\ Max({s, rs[i].start}) \in s .. e /\ Min({e, rs[i].end}) \in s .. e
             /\ rs[i].start > s => Max({s, rs[i].start}) = rs[i].start
  <2>1. i \in Live(rs, t) /\ Overlaps(rs[i].start, rs[i].end, s, e) BY Zenon DEF Overlapping
  <2>2. rs[i].start \in Nat /\ rs[i].end \in Nat BY <2>1, LiveFields, Zenon
  <2>3. /\ Max({s, rs[i].start}) = IF s >= rs[i].start THEN s ELSE rs[i].start
        /\ Min({e, rs[i].end}) = IF e <= rs[i].end THEN e ELSE rs[i].end
    BY <2>2, MaxOfTwo, MinOfTwo, Zenon
  <2> QED BY <2>1, <2>2, <2>3 DEF Overlaps
<1>2. cuts \subseteq s .. e /\ s \in cuts /\ e \in cuts
  <2>1. \A r \in cuts : \/ r \in {s, e}
                       \/ \E i \in spans : r \in {Max({s, rs[i].start}), Min({e, rs[i].end})}
    BY Zenon DEF Cuts
  <2>2. s \in cuts /\ e \in cuts BY Zenon DEF Cuts
  <2>3. s \in s .. e /\ e \in s .. e OBVIOUS
  <2>4. ASSUME NEW r \in cuts PROVE r \in s .. e
    <3>1. CASE r \in {s, e} BY <2>3, <3>1, Zenon
    <3>2. CASE r \notin {s, e}
      <4>1. PICK i \in spans : r \in {Max({s, rs[i].start}), Min({e, rs[i].end})} BY <2>1, <3>2, Zenon
      <4>2. Max({s, rs[i].start}) \in s .. e /\ Min({e, rs[i].end}) \in s .. e BY <1>1, Zenon
      <4> QED BY <4>1, <4>2, Zenon
    <3> QED BY <3>1, <3>2, Zenon
  <2> QED BY <2>2, <2>4, Zenon
<1>3. \A i \in spans : rs[i].start > s => rs[i].start \in cuts BY <1>1, Zenon DEF Cuts
<1>4. Max(cuts) = e
  <2>1. e \in cuts /\ \A y \in cuts : e >= y BY <1>2
  <2>2. \A x \in cuts : (\A y \in cuts : x >= y) => x = e BY <1>2
  <2> QED BY <2>1, <2>2, Zenon DEF Max
<1>5. ASSUME NEW p \in cuts \ {e}
      PROVE  /\ NextCut(cuts, p) \in cuts /\ NextCut(cuts, p) > p
             /\ \A r \in cuts : r > p => NextCut(cuts, p) <= r
  <2> DEFINE T == {r \in cuts : r > p}
  <2>1. T \subseteq Nat /\ e \in T BY <1>2
  <2>2. NextCut(cuts, p) = Min(T) BY Zenon DEF NextCut
  <2>3. Min(T) \in T /\ \A y \in T : Min(T) <= y
    <3> HIDE DEF T
    <3> QED BY <2>1, MinFacts, Zenon
  <2> QED BY <2>2, <2>3, Zenon
<1> QED BY <1>2, <1>3, <1>4, <1>5, Zenon DEF Segmented

\* What a shared request may be given has room at each of its instants.
LEMMA AvailableHasRoom ==
  ASSUME NEW rs, NEW t \in Nat, Wellformed(rs), NEW g, NEW s \in Nat, NEW e \in Nat, s < e,
         NEW units \in Nat, Available(rs, t, g, s, e, "shared", units),
         NEW x \in Nat, s <= x, x < e
  PROVE  UnitsOf(rs, Sharing(rs, t, g, x)) + units <= MaxShared
<1>1. PICK spans : spans = Overlapping(rs, t, g, s, e) BY Zenon
<1>2. PICK cuts : cuts = Cuts(rs, spans, s, e) BY Zenon
<1>3. Segmented(cuts, rs, spans, s, e) BY <1>1, <1>2, CutFacts, Zenon
<1>4. PICK p \in cuts : p <= x /\ \A r \in cuts : r <= x => r <= p
  <2> DEFINE T == {y \in Nat : x - y \in cuts}
  <2>1. T \subseteq Nat /\ x - s \in T BY <1>3 DEF Segmented
  <2>2. PICK m \in T : \A n \in T : m <= n
    <3> HIDE DEF T
    <3> QED BY <2>1, LeastNat, Zenon
  <2>3. x - m \in cuts /\ x - m <= x BY <2>2
  <2>4. ASSUME NEW r \in cuts, r <= x PROVE r <= x - m
    <3>1. r \in Nat /\ x - r \in Nat /\ x - (x - r) = r BY <1>3, <2>4 DEF Segmented
    <3>2. x - r \in T BY <3>1, Zenon
    <3>3. m <= x - r BY <2>2, <3>2, Zenon
    <3> QED BY <2>2, <3>1, <3>3
  <2> QED BY <2>3, <2>4, Zenon
<1>5. PICK n : n = NextCut(cuts, p) BY Zenon
<1>6. p \in Nat /\ n \in Nat /\ n > x /\ p # e
  <2>1. p \in Nat /\ p # e BY <1>3, <1>4 DEF Segmented
  <2>2. n \in cuts /\ n > p BY <1>3, <1>4, <1>5, <2>1, Zenon DEF Segmented
  <2>3. n \in Nat BY <1>3, <2>2 DEF Segmented
  <2> QED BY <1>4, <2>1, <2>2, <2>3
<1>7. UsedUnits(rs, spans, p, n) + units <= MaxShared
  <2>1. p \in cuts \ {Max(cuts)} BY <1>3, <1>4, <1>6, Zenon DEF Segmented
  <2> QED BY <1>1, <1>2, <1>5, <2>1, AvailableShared, Zenon
<1> DEFINE S == {i \in spans : /\ rs[i].mode = "shared"
                               /\ Overlaps(p, n, rs[i].start, rs[i].end)}
           T == Sharing(rs, t, g, x)
<1>8. UsedUnits(rs, spans, p, n) = UnitsOf(rs, S) BY Zenon DEF UsedUnits
<1>9. Counts(rs, S)
  <2>1. S \subseteq Live(rs, t) /\ \A i \in S : rs[i].mode = "shared" BY <1>1, Zenon DEF Overlapping
  <2> HIDE DEF S
  <2> QED BY <2>1, SharedCount, Zenon
<1>10. T \subseteq S
  <2> SUFFICES ASSUME NEW i \in T PROVE i \in S BY Zenon
  <2>1. i \in Live(rs, t) /\ g \in rs[i].gpus /\ rs[i].mode = "shared"
        /\ rs[i].start <= x /\ x < rs[i].end
    BY Zenon DEF Sharing
  <2>2. rs[i].start \in Nat /\ rs[i].end \in Nat BY <2>1, LiveFields, Zenon
  <2>3. Overlaps(rs[i].start, rs[i].end, s, e) /\ Overlaps(p, n, rs[i].start, rs[i].end)
    BY <1>4, <1>6, <2>1, <2>2 DEF Overlaps
  <2> QED BY <1>1, <2>1, <2>3, Zenon DEF Overlapping
<1> HIDE DEF S, T
<1>11. UnitsOf(rs, T) <= UnitsOf(rs, S) /\ UnitsOf(rs, T) \in Nat /\ UnitsOf(rs, S) \in Nat
  BY <1>9, <1>10, UnitsMonotone, Zenon
<1> QED BY <1>7, <1>8, <1>11, BookingAssumption DEF T

-----------------------------------------------------------------------------
\* Where fewer reservations are live, none of them changed, the capacity still suffices.
LEMMA CapacityKept ==
  ASSUME NEW rs, NEW t \in Nat, NEW m, NEW u, Wellformed(rs), Capacity(rs, t),
         \A i \in Live(m, u) : m[i] = rs[i] /\ i \in Live(rs, t)
  PROVE  Capacity(m, u)
<1> SUFFICES ASSUME NEW g \in Gpu, NEW x \in Nat
             PROVE  UnitsOf(m, Sharing(m, u, g, x)) <= MaxShared
  BY Zenon DEF Capacity
<1> DEFINE S == Sharing(rs, t, g, x)
           T == Sharing(m, u, g, x)
<1>1. T \subseteq S /\ \A i \in T : m[i].units = rs[i].units BY Zenon DEF Sharing
<1>2. S \subseteq Live(rs, t) /\ \A i \in S : rs[i].mode = "shared" BY Zenon DEF Sharing
<1>3. UnitsOf(rs, S) <= MaxShared BY Zenon DEF Capacity
<1> HIDE DEF S, T
<1>4. Counts(rs, S) BY <1>2, SharedCount, Zenon
<1>5. UnitsOf(rs, S) \in Nat /\ UnitsOf(m, T) \in Nat /\ UnitsOf(m, T) <= UnitsOf(rs, S)
  BY <1>1, <1>4, UnitsMonotone, Zenon
<1> QED BY <1>3, <1>5, BookingAssumption DEF T

\* Maintenance that leaves only live records active keeps them compatible.
LEMMA MaintainedTimely ==
  ASSUME NEW rs, NEW t \in Nat, NEW m, Wellformed(rs), Timely(rs, t),
         \A i \in Id : m[i].status = "active" => m[i] = rs[i] /\ i \in Live(rs, t)
  PROVE  Timely(m, t)
<1>1. \A i \in Live(m, t) : m[i] = rs[i] /\ i \in Live(rs, t) BY Zenon DEF Live
<1>2. Capacity(m, t) BY <1>1, CapacityKept, Zenon DEF Timely
<1> QED BY <1>1, <1>2, Zenon DEF Timely

\* Time that passes only retires reservations.
LEMMA LaterTimely ==
  ASSUME NEW rs, NEW t \in Nat, NEW u \in Nat, t <= u, Wellformed(rs), Timely(rs, t)
  PROVE  Timely(rs, u)
<1>1. ASSUME NEW i \in Live(rs, u) PROVE i \in Live(rs, t)
  <2>1. rs[i].end \in Nat BY LiveFields, Zenon
  <2> QED BY <2>1 DEF Live
<1>2. Capacity(rs, u) BY <1>1, CapacityKept, Zenon DEF Timely
<1> QED BY <1>1, <1>2, Zenon DEF Timely

\* Compatibility does not depend on the order.
LEMMA CompatibleSymmetric ==
  ASSUME NEW r, NEW x, Compatible(r, x)
  PROVE  Compatible(x, r)
  BY Zenon DEF Compatible, Overlaps

\* Writing one record keeps within the capacity if there is room for it.
LEMMA UpdateCapacity ==
  ASSUME NEW rs, NEW t \in Nat, Wellformed(rs), Capacity(rs, t), NEW i \in Id, NEW new \in Reservation,
         Sound(new), new.status = "active" => Roomy(rs, t, i, new)
  PROVE  Capacity([rs EXCEPT ![i] = new], t)
<1>0. PICK m : m = [rs EXCEPT ![i] = new] BY Zenon
<1>1. m[i] = new /\ \A j \in Id \ {i} : m[j] = rs[j] BY <1>0, Zenon DEF Wellformed
<1> SUFFICES ASSUME NEW g \in Gpu, NEW x \in Nat
             PROVE  UnitsOf(m, Sharing(m, t, g, x)) <= MaxShared
  BY <1>0, Zenon DEF Capacity
<1> DEFINE S == Sharing(rs, t, g, x)
           T == Sharing(m, t, g, x)
           U == T \ {i}
<1>2. T \subseteq Id /\ \A j \in T \ {i} : j \in S \ {i} /\ m[j].units = rs[j].units
  BY <1>1, Zenon DEF Sharing, Live
<1>3. S \subseteq Live(rs, t) /\ \A j \in S : rs[j].mode = "shared" BY Zenon DEF Sharing
<1>4. UnitsOf(rs, S) <= MaxShared BY Zenon DEF Capacity
<1>5. i \in T => /\ new.status = "active" /\ new.mode = "shared" /\ g \in new.gpus
                 /\ new.start <= x /\ x < new.end
  BY <1>1, Zenon DEF Sharing, Live
<1>6. i \in T => new.units \in Nat /\ UnitsOf(rs, S \ {i}) + new.units <= MaxShared
  <2> SUFFICES ASSUME i \in T PROVE new.units \in Nat /\ UnitsOf(rs, S \ {i}) + new.units <= MaxShared
    BY Zenon
  <2>1. new.units \in 1 .. MaxShared BY <1>5, Zenon DEF Sound
  <2>2. UnitsOf(rs, S \ {i}) + new.units <= MaxShared BY <1>5, Zenon DEF Roomy
  <2> QED BY <2>1, <2>2, BookingAssumption
<1> HIDE DEF S, T
<1>7. Counts(rs, S) BY <1>3, SharedCount, Zenon
<1>8. Counts(rs, S \ {i}) BY <1>7, Zenon DEF Counts
<1>9. U \subseteq S \ {i} /\ \A j \in U : m[j].units = rs[j].units BY <1>2, Zenon
<1> HIDE DEF U
<1>10. /\ UnitsOf(m, U) \in Nat /\ UnitsOf(rs, S \ {i}) \in Nat
       /\ UnitsOf(m, U) <= UnitsOf(rs, S \ {i})
  BY <1>8, <1>9, UnitsMonotone, Zenon
<1>11. CASE i \notin T
  <2>1. T \subseteq S /\ \A j \in T : m[j].units = rs[j].units BY <1>2, <1>11, Zenon
  <2>2. UnitsOf(rs, S) \in Nat /\ UnitsOf(m, T) \in Nat /\ UnitsOf(m, T) <= UnitsOf(rs, S)
    BY <2>1, <1>7, UnitsMonotone, Zenon
  <2> QED BY <2>2, <1>4, BookingAssumption DEF T
<1>12. CASE i \in T
  <2>1. Counts(m, T)
    <3>1. \A j \in T \ {i} : m[j].units \in Nat BY <1>2, <1>7, Zenon DEF Counts
    <3>2. m[i].units \in Nat BY <1>1, <1>6, <1>12, Zenon
    <3> QED BY <1>2, <3>1, <3>2, Zenon DEF Counts
  <2>2. UnitsOf(m, T) = UnitsOf(m, U) + new.units BY <2>1, <1>1, <1>12, UnitsAdd, Zenon DEF U
  <2> QED BY <2>2, <1>6, <1>10, <1>12, BookingAssumption DEF T
<1> QED BY <1>11, <1>12, Zenon

\* Writing one record keeps the ledger in order if the new record is compatible
\* with the other live ones.
LEMMA UpdateTimely ==
  ASSUME NEW rs, NEW t \in Nat, Wellformed(rs), Timely(rs, t), NEW i \in Id, NEW new \in Reservation,
         Sound(new),
         new.status = "active" =>
            /\ ClearOfBlackouts(new) /\ Roomy(rs, t, i, new)
            /\ \A j \in Live(rs, t) \ {i} : Compatible(rs[j], new)
  PROVE  /\ Wellformed([rs EXCEPT ![i] = new])
         /\ Timely([rs EXCEPT ![i] = new], t)
<1> DEFINE x == [rs EXCEPT ![i] = new]
<1>1. rs \in [Id -> Reservation] /\ \A j \in Id : Sound(rs[j]) BY Zenon DEF Wellformed
<1>2. x \in [Id -> Reservation] /\ x[i] = new /\ \A j \in Id \ {i} : x[j] = rs[j] BY <1>1, Zenon
<1> HIDE DEF x
<1>3. Wellformed(x) BY <1>1, <1>2, Zenon DEF Wellformed
<1>4. \A j \in Live(x, t) : j # i => j \in Live(rs, t) /\ x[j] = rs[j] BY <1>2, Zenon DEF Live
<1>5. i \in Live(x, t) => new.status = "active" BY <1>2, Zenon DEF Live
<1>6. \A j \in Live(x, t) : ClearOfBlackouts(x[j]) BY <1>2, <1>4, <1>5, Zenon DEF Timely
<1>7. ASSUME NEW j \in Live(x, t), NEW k \in Live(x, t), j # k PROVE Compatible(x[j], x[k])
  <2>1. CASE j = i BY <2>1, <1>7, <1>2, <1>4, <1>5, CompatibleSymmetric, Zenon
  <2>2. CASE k = i BY <2>2, <1>7, <1>2, <1>4, <1>5, Zenon
  <2>3. CASE j # i /\ k # i BY <2>3, <1>7, <1>4, Zenon DEF Timely
  <2> QED BY <2>1, <2>2, <2>3, Zenon
<1>8. Capacity(x, t) BY UpdateCapacity, Zenon DEF Timely, x
<1>9. Timely(x, t) BY <1>6, <1>7, <1>8, Zenon DEF Timely
<1> QED BY <1>3, <1>9, Zenon DEF x

\* normalize_queue_start returns an aligned instant.
LEMMA QueueStartType ==
  ASSUME NEW s \in Nat, NEW now \in Nat
  PROVE  QueueStart(s, now) \in Nat /\ QueueStart(s, now) % Slot = 0
  BY CeilFacts, Zenon DEF QueueStart

\* Every start that find_earliest_slot returns is aligned.
LEMMA StartAligned ==
  ASSUME NEW rs, NEW now \in Nat, Wellformed(rs), NEW k, NEW mode, NEW units, NEW s \in Nat,
         NEW d, NEW queue \in BOOLEAN, queue \/ s % Slot = 0,
         NEW c \in EarliestStart(rs, now, k, mode, units, s, d, queue)
  PROVE  c \in Nat /\ c % Slot = 0
<1>1. CASE ~queue BY <1>1, EarliestFits
<1>2. CASE queue
  <2> DEFINE b == QueueStart(s, now)
  <2>1. b \in Nat BY QueueStartType, Zenon
  <2>2. c \in CandidateStarts(rs, now, b) BY <1>2, EarliestFits, Zenon
  <2> HIDE DEF b
  <2>3. \E t \in Nat : c = Ceil(t)
    <3>1. CASE c = Ceil(b) BY <3>1, <2>1, Zenon
    <3>2. CASE c \in {Ceil(rs[i].end) : i \in Live(rs, now)}
      <4>1. PICK i \in Live(rs, now) : c = Ceil(rs[i].end) BY <3>2, Zenon
      <4> QED BY <4>1, LiveFields, Zenon
    <3>3. CASE c \in {Ceil(x[2]) : x \in Blackouts} BY <3>3, BookingAssumption, Zenon
    <3> QED BY <2>2, <3>1, <3>2, <3>3, Zenon DEF CandidateStarts
  <2> QED BY <2>3, CeilFacts, Zenon
<1> QED BY <1>1, <1>2, Zenon

\* The interval and the GPUs p may be given to a reservation of this mode.
Admitted(rs, now, p, d, mode, gpus) ==
    /\ p[1] \in Nat /\ p[1] % Slot = 0 /\ (p[1] + d) % Slot = 0 /\ p[1] < p[1] + d
    /\ p[2] \subseteq gpus
    /\ \A b \in Blackouts : ~Overlaps(p[1], p[1] + d, b[1], b[2])
    /\ \A j \in Live(rs, now) :
          rs[j].gpus \cap p[2] # {} /\ "exclusive" \in {rs[j].mode, mode}
              => ~Overlaps(rs[j].start, rs[j].end, p[1], p[1] + d)

\* The type of an admitted placement.
LEMMA AdmittedTypes ==
  ASSUME NEW rs, NEW now, NEW p, NEW d \in Nat, NEW mode, NEW gpus, gpus \subseteq Gpu,
         Admitted(rs, now, p, d, mode, gpus)
  PROVE  /\ p[1] \in Nat /\ p[1] + d \in Nat /\ p[2] \in SUBSET Gpu
         /\ p[1] % Slot = 0 /\ (p[1] + d) % Slot = 0
BY DEF Admitted

\* Whatever find_earliest_slot returns may be given to the reservation.
LEMMA AdmittedFits ==
  ASSUME NEW rs, NEW now \in Nat, Wellformed(rs), NEW k, NEW mode, NEW units, NEW s \in Nat,
         NEW d \in Nat, d > 0, d % Slot = 0, NEW queue \in BOOLEAN, queue \/ s % Slot = 0,
         NEW p \in Placements(rs, now, k, mode, units, s, d, queue)
  PROVE  Admitted(rs, now, p, d, mode, k.gpus)
<1> DEFINE c == p[1]
<1>1. c \in EarliestStart(rs, now, k, mode, units, s, d, queue)
      /\ p[2] \subseteq FreeGpus(rs, now, k, mode, units, c, c + d)
  BY PlacementFacts, Zenon
<1>2. c \in Nat /\ c % Slot = 0 BY <1>1, StartAligned
<1>3. (c + d) % Slot = 0 /\ c < c + d BY <1>2, Sums
<1>4. ~PolicyConflict(c, c + d, now) BY <1>1, EarliestFits, Zenon
<1>5. \A b \in Blackouts : ~Overlaps(c, c + d, b[1], b[2]) BY <1>4, Zenon DEF PolicyConflict
<1>6. ASSUME NEW j \in Live(rs, now), rs[j].gpus \cap p[2] # {},
             "exclusive" \in {rs[j].mode, mode}
      PROVE  ~Overlaps(rs[j].start, rs[j].end, c, c + d)
  <2>1. PICK g \in rs[j].gpus : g \in p[2] BY <1>6, Zenon
  <2>2. Available(rs, now, g, c, c + d, mode, units) BY <2>1, <1>1, Zenon DEF FreeGpus
  <2>3. "exclusive" \in {mode, rs[j].mode} BY <1>6, Zenon
  <2> QED BY <2>1, <2>2, <2>3, AvailableKeepsApart, Zenon
<1>7. p[2] \subseteq k.gpus BY <1>1, Zenon DEF FreeGpus
<1> QED BY <1>2, <1>3, <1>5, <1>6, <1>7, Zenon DEF Admitted

\* The GPUs of p have room for that many units over the whole interval.
RoomFor(rs, now, p, d, units) ==
    \A g \in p[2], x \in Nat :
        p[1] <= x /\ x < p[1] + d => UnitsOf(rs, Sharing(rs, now, g, x)) + units <= MaxShared

\* Whatever find_earliest_slot returns for a shared request has room for it.
LEMMA AdmittedRoom ==
  ASSUME NEW rs, NEW now \in Nat, Wellformed(rs), NEW k, NEW units \in Nat, NEW s \in Nat,
         NEW d \in Nat, d > 0, NEW queue \in BOOLEAN, queue \/ s % Slot = 0,
         NEW p \in Placements(rs, now, k, "shared", units, s, d, queue)
  PROVE  RoomFor(rs, now, p, d, units)
<1>1. p[1] \in EarliestStart(rs, now, k, "shared", units, s, d, queue)
      /\ p[2] \subseteq FreeGpus(rs, now, k, "shared", units, p[1], p[1] + d)
  BY PlacementFacts, Zenon
<1>2. p[1] \in Nat BY <1>1, StartAligned, Zenon
<1> SUFFICES ASSUME NEW g \in p[2], NEW x \in Nat, p[1] <= x, x < p[1] + d
             PROVE  UnitsOf(rs, Sharing(rs, now, g, x)) + units <= MaxShared
  BY Zenon DEF RoomFor
<1>3. Available(rs, now, g, p[1], p[1] + d, "shared", units) BY <1>1, Zenon DEF FreeGpus
<1>4. PICK c \in Nat, e \in Nat : c = p[1] /\ e = p[1] + d BY <1>2
<1>5. Available(rs, now, g, c, e, "shared", units) /\ c < e /\ c <= x /\ x < e BY <1>3, <1>4
<1> QED BY <1>5, AvailableHasRoom, Zenon

-----------------------------------------------------------------------------
(* Admission.                                                              *)

\* The inductive invariant of admission.
Safe == clock \in Nat /\ Wellformed(res) /\ Timely(res, clock)

\* The empty ledger is in order.
LEMMA InitSafe == Init => Safe
<1> SUFFICES ASSUME Init PROVE Safe BY Zenon
<1>1. clock \in Nat /\ res = [i \in Id |-> NoReservation] BY Zenon DEF Init
<1>2. \A i \in Id : res[i].status = "unused" BY <1>1, Zenon DEF NoReservation
<1>3. Wellformed(res) BY <1>1, NoReservationType, Zenon DEF Wellformed
<1>4. Live(res, clock) = {} BY <1>2, Zenon DEF Live
<1>5. Capacity(res, clock)
  <2>1. \A g \in Gpu, x \in Nat : Sharing(res, clock, g, x) = {} BY <1>4, Zenon DEF Sharing
  <2> QED BY <2>1, UnitsZero, BookingAssumption DEF Capacity
<1> QED BY <1>1, <1>3, <1>4, <1>5, Zenon DEF Safe, Timely

\* The clock read inside find_earliest_slot is not behind the first reading.
LEMMA LaterClockFacts ==
  ASSUME clock \in Nat, LaterClock
  PROVE  clock' \in Nat /\ clock <= clock'
  BY BookingAssumption DEF LaterClock

\* add_booking keeps the ledger in order, although the clock moves while it runs.
LEMMA AddKeepsSafe ==
  ASSUME Safe, NEW u \in Uid, NEW o \in OpId \cup {None}, NEW q \in Requests, AddBooking(u, q, o)
  PROVE  Safe'
<1> DEFINE rs == Maintain(res, clock)
<1>1. clock \in Nat /\ Wellformed(res) /\ Timely(res, clock) BY Zenon DEF Safe
<1>2. Wellformed(rs) /\ \A i \in Id : rs[i].status = "active" => rs[i] = res[i] /\ i \in Live(res, clock)
  BY <1>1, MaintainFacts, Zenon
<1>3. Timely(rs, clock) BY <1>1, <1>2, MaintainedTimely, Zenon
<1>4. IsBookingRequest(q) BY BookingAssumption, Zenon
<1> DEFINE s == IF q.queue THEN QueueStart(q.start, clock) ELSE q.start
<1>5. /\ ~q.queue => q.start % Slot = 0
      /\ (res' = rs /\ clock' = clock) \/ Place(rs, u, q, o, s)
  BY Zenon DEF AddBooking
<1>6. CASE res' = rs /\ clock' = clock BY <1>1, <1>2, <1>3, <1>6, Zenon DEF Safe
<1>7. CASE Place(rs, u, q, o, s)
  <2>1. q.queue \in BOOLEAN /\ q.start \in Nat /\ q.mode \in Mode /\ q.pick.gpus \subseteq Gpu
        /\ q.duration \in Nat \ {0} /\ q.duration % Slot = 0 /\ q.units \in Units
    BY <1>4, Zenon DEF IsBookingRequest, IsPick, IsDuration, Units
  <2>2. s \in Nat /\ (q.queue \/ s % Slot = 0) BY <1>1, <1>5, <2>1, QueueStartType, Zenon
  <2>3. clock' \in Nat /\ clock <= clock' BY <1>1, <1>7, LaterClockFacts, Zenon DEF Place
  <2> HIDE DEF rs, s
  <2> DEFINE share == ShareUnits(q.mode, q.units)
             Placed(p) == [NoReservation EXCEPT
                !.status = "active", !.uid = u, !.gpus = p[2], !.mode = q.mode,
                !.units = q.units, !.start = p[1], !.end = p[1] + q.duration,
                !.op = o, !.sig = IF o = None THEN None ELSE CreateSignature(q)]
  <2>4. PICK i \in Id, p \in Placements(rs, clock', q.pick, q.mode, share, s, q.duration, q.queue) :
             res' = [rs EXCEPT ![i] = Placed(p)]
    BY <1>7, Zenon DEF Place
  <2> DEFINE new == Placed(p)
  <2>5. Timely(rs, clock') BY <1>1, <1>2, <1>3, <2>3, LaterTimely, Zenon
  <2>6. Admitted(rs, clock', p, q.duration, q.mode, q.pick.gpus)
    <3>1. p \in Placements(rs, clock', q.pick, q.mode, share, s, q.duration, q.queue) BY <2>4, Zenon
    <3>2. q.duration \in Nat /\ q.duration > 0 /\ q.duration % Slot = 0 BY <2>1
    <3> HIDE DEF share
    <3>3. Wellformed(rs) /\ clock' \in Nat /\ s \in Nat /\ q.queue \in BOOLEAN
          /\ (q.queue \/ s % Slot = 0)
      BY <1>2, <2>1, <2>2, <2>3, Zenon
    <3> HIDE DEF new, Placed
    <3> QED BY <3>1, <3>2, <3>3, AdmittedFits, Zenon
  <2>7. new \in Reservation /\ new.gpus = p[2] /\ new.mode = q.mode /\ new.start = p[1]
        /\ new.end = p[1] + q.duration /\ new.edits = <<>> /\ new.cancelOp = None
        /\ new.status = "active" /\ new.units = q.units
    <3>1. (IF o = None THEN None ELSE CreateSignature(q)) \in Signature BY Zenon DEF Signature
    <3>2. p[1] + q.duration \in Nat /\ p[2] \in SUBSET Gpu /\ p[1] \in Nat BY <2>1, <2>6 DEF Admitted
    <3>3. <<>> \in Seq(EditEntry) OBVIOUS
    <3> HIDE DEF Signature
    <3> QED BY <2>1, <3>1, <3>2, <3>3, Zenon DEF NoReservation, Reservation, Status
  <2> HIDE DEF new
  <2>8. /\ new.start % Slot = 0 /\ new.end % Slot = 0 /\ new.start < new.end
        /\ ClearOfBlackouts(new)
        /\ \A j \in Live(rs, clock') : Compatible(rs[j], new)
    BY <2>6, <2>7, Zenon DEF Admitted, ClearOfBlackouts, Compatible
  <2>9. q.mode = "shared" => q.units \in 1 .. MaxShared BY <1>4, Zenon DEF IsBookingRequest
  <2>10. Sound(new) BY <2>1, <2>7, <2>8, <2>9, BookingAssumption, SMTT(30) DEF Sound
  <2>11. Roomy(rs, clock', i, new)
    <3> SUFFICES ASSUME q.mode = "shared", NEW g \in p[2], NEW x \in Nat, p[1] <= x, x < p[1] + q.duration
                 PROVE  UnitsOf(rs, Sharing(rs, clock', g, x) \ {i}) + q.units <= MaxShared
      BY <2>7, Zenon DEF Roomy
    <3>1. share = q.units /\ q.units \in Nat BY <2>9, BookingAssumption DEF ShareUnits
    <3>2. p \in Placements(rs, clock', q.pick, "shared", q.units, s, q.duration, q.queue) BY <2>4, <3>1, Zenon
    <3>3. q.duration \in Nat /\ q.duration > 0 BY <2>1
    <3> HIDE DEF share, new, Placed
    <3>4. RoomFor(rs, clock', p, q.duration, q.units)
      BY <1>2, <2>1, <2>2, <2>3, <3>1, <3>2, <3>3, AdmittedRoom, Zenon
    <3>5. UnitsOf(rs, Sharing(rs, clock', g, x)) + q.units <= MaxShared BY <3>4, Zenon DEF RoomFor
    <3>6. Counts(rs, Sharing(rs, clock', g, x)) BY <1>2, <2>3, SharingCounts, Zenon
    <3>7. PICK S : S = Sharing(rs, clock', g, x) BY Zenon
    <3>8. /\ UnitsOf(rs, S) \in Nat /\ UnitsOf(rs, S \ {i}) \in Nat
          /\ UnitsOf(rs, S \ {i}) <= UnitsOf(rs, S)
      BY <3>6, <3>7, FewerUnits, Zenon
    <3> QED BY <3>1, <3>5, <3>7, <3>8, BookingAssumption, SMTT(30)
  <2>12. Wellformed(res') /\ Timely(res', clock')
    BY <1>2, <2>3, <2>4, <2>5, <2>7, <2>8, <2>10, <2>11, UpdateTimely, Zenon DEF new
  <2> QED BY <2>3, <2>12, Zenon DEF Safe
<1> QED BY <1>5, <1>6, <1>7, Zenon

\* A cancelled record takes up nothing.
LEMMA CancelledKeepsSafe ==
  ASSUME Safe, NEW rs, Wellformed(rs), Timely(rs, clock), NEW i \in Id, rs[i].status = "active",
         NEW o \in OpId \cup {None}, res' = Cancelled(rs, i, o), clock' = clock
  PROVE  Safe'
<1> DEFINE new == [Retired(rs[i], "cancelled", clock) EXCEPT !.cancelOp = o]
<1>1. clock \in Nat BY Zenon DEF Safe
<1>2. rs \in [Id -> Reservation] /\ rs[i] \in Reservation /\ Sound(rs[i]) BY Zenon DEF Wellformed
<1>3. new \in Reservation /\ Sound(new) BY <1>1, <1>2, RetiredType, Zenon
<1>4. new.status = "cancelled" BY <1>2, Zenon DEF Retired, Reservation
<1>5. res' = [rs EXCEPT ![i] = new] BY <1>2, Zenon DEF Cancelled
<1> HIDE DEF new
<1>6. new.status # "active" BY <1>4, Zenon
<1>7. Wellformed([rs EXCEPT ![i] = new]) /\ Timely([rs EXCEPT ![i] = new], clock)
  BY <1>1, <1>3, <1>6, UpdateTimely, Zenon
<1>8. Wellformed(res') /\ Timely(res', clock) BY <1>5, <1>7, Zenon
<1> QED BY <1>1, <1>8, Zenon DEF Safe

\* cancel_booking keeps the ledger in order.
LEMMA CancelKeepsSafe ==
  ASSUME Safe, NEW u \in Uid, NEW o \in OpId \cup {None}, NEW i \in Id, CancelBooking(u, i, o)
  PROVE  Safe'
<1> DEFINE rs == Expire(res, clock)
<1>1. clock \in Nat /\ Wellformed(res) /\ Timely(res, clock) BY Zenon DEF Safe
<1>2. Wellformed(rs) /\ \A j \in Id : rs[j].status = "active" => rs[j] = res[j] /\ j \in Live(res, clock)
  BY <1>1, ExpireFacts, Zenon
<1>3. Timely(rs, clock) BY <1>1, <1>2, MaintainedTimely, Zenon
<1>4. clock' = clock /\ (res' = rs \/ (rs[i].status = "active" /\ res' = Cancelled(rs, i, o)))
  BY Zenon DEF CancelBooking
<1>5. CASE res' = rs BY <1>1, <1>2, <1>3, <1>4, <1>5, Zenon DEF Safe
<1> HIDE DEF rs
<1> QED BY <1>2, <1>3, <1>4, <1>5, CancelledKeepsSafe, Zenon

\* cancel_booking_as_admin keeps the ledger in order.
LEMMA AdminCancelKeepsSafe ==
  ASSUME Safe, NEW i \in Id, CancelBookingAsAdmin(i)
  PROVE  Safe'
<1> DEFINE rs == Maintain(res, clock)
<1>1. clock \in Nat /\ Wellformed(res) /\ Timely(res, clock) BY Zenon DEF Safe
<1>2. Wellformed(rs) /\ \A j \in Id : rs[j].status = "active" => rs[j] = res[j] /\ j \in Live(res, clock)
  BY <1>1, MaintainFacts, Zenon
<1>3. Timely(rs, clock) BY <1>1, <1>2, MaintainedTimely, Zenon
<1>4. clock' = clock /\ rs[i].status = "active" /\ res' = Cancelled(rs, i, None)
  BY Zenon DEF CancelBookingAsAdmin
<1> HIDE DEF rs
<1> QED BY <1>2, <1>3, <1>4, CancelledKeepsSafe, Zenon

\* The passage of time keeps the ledger in order.
LEMMA TickKeepsSafe ==
  ASSUME Safe, Tick PROVE Safe'
<1>1. clock \in Nat /\ Wellformed(res) /\ Timely(res, clock) BY Zenon DEF Safe
<1>2. clock' \in Nat /\ clock <= clock' /\ res' = res BY <1>1 DEF Tick
<1>3. Timely(res, clock') BY <1>1, <1>2, LaterTimely, Zenon
<1> QED BY <1>1, <1>2, <1>3, Zenon DEF Safe

-----------------------------------------------------------------------------
\* _append_edit_history: a compatible rewritten record keeps the ledger in order.
LEMMA RewriteSafe ==
  ASSUME clock' \in Nat, NEW STATE rs, Wellformed(rs), Timely(rs, clock'),
         NEW u \in Uid, NEW i \in Id, NEW o \in OpId \cup {None}, NEW q \in EditRequests,
         NEW new \in Reservation, Sound(new), new.status = "active", new.edits = rs[i].edits,
         ClearOfBlackouts(new), Roomy(rs, clock', i, new),
         \A j \in Live(rs, clock') \ {i} : Compatible(rs[j], new),
         Rewrite(rs, u, i, o, q, new)
  PROVE  Safe'
<1> DEFINE e == [op |-> o, sig |-> IF o = None THEN None ELSE <<i, q>>]
           x == [new EXCEPT !.edits = Append(new.edits, e)]
<1>1. rs \in [Id -> Reservation] /\ rs[i].edits \in Seq(EditEntry)
  BY Zenon DEF Wellformed, Reservation
<1>2. e \in EditEntry BY Zenon DEF EditEntry
<1>3. Len(rs[i].edits) < EditLimit /\ res' = [rs EXCEPT ![i] = x] BY Zenon DEF Rewrite
<1> HIDE DEF e
<1>4. Append(new.edits, e) \in Seq(EditEntry) /\ Len(Append(new.edits, e)) = Len(new.edits) + 1
  BY <1>1, <1>2
<1>5. /\ x \in Reservation /\ x.edits = Append(new.edits, e) /\ x.status = new.status
      /\ x.gpus = new.gpus /\ x.mode = new.mode /\ x.start = new.start /\ x.end = new.end
      /\ x.cancelOp = new.cancelOp /\ x.units = new.units
  BY <1>4, Zenon DEF Reservation
<1> HIDE DEF x
<1>6. Len(x.edits) <= EditLimit BY <1>1, <1>3, <1>4, <1>5, BookingAssumption, SMTT(30)
<1>7. Sound(x) BY <1>5, <1>6, Zenon DEF Sound
<1>8. ClearOfBlackouts(x) BY <1>5, Zenon DEF ClearOfBlackouts
<1>9. \A j \in Live(rs, clock') \ {i} : Compatible(rs[j], x) BY <1>5, Zenon DEF Compatible
<1>10. Roomy(rs, clock', i, x) BY <1>5, Zenon DEF Roomy
<1>11. Wellformed([rs EXCEPT ![i] = x]) /\ Timely([rs EXCEPT ![i] = x], clock')
  BY <1>5, <1>7, <1>8, <1>9, <1>10, UpdateTimely, Zenon
<1> QED BY <1>3, <1>11, Zenon DEF Safe

\* Leaving one record aside does not hide the other live ones.
LEMMA WithoutFacts ==
  ASSUME NEW rs, Wellformed(rs), NEW i \in Id, NEW t
  PROVE  /\ Wellformed(Without(rs, i))
         /\ \A j \in Live(rs, t) \ {i} : j \in Live(Without(rs, i), t) /\ Without(rs, i)[j] = rs[j]
         /\ \A g, x : Sharing(rs, t, g, x) \ {i} \subseteq Sharing(Without(rs, i), t, g, x)
<1> DEFINE x == Without(rs, i)
<1>1. rs \in [Id -> Reservation] /\ \A j \in Id : Sound(rs[j]) BY Zenon DEF Wellformed
<1>2. x \in [Id -> Reservation] /\ x[i] = NoReservation /\ \A j \in Id \ {i} : x[j] = rs[j]
  BY <1>1, NoReservationType, Zenon DEF Without
<1> HIDE DEF x
<1>3. Wellformed(x) BY <1>1, <1>2, NoReservationType, Zenon DEF Wellformed
<1>4. \A j \in Live(rs, t) \ {i} : j \in Live(x, t) /\ x[j] = rs[j] BY <1>2, Zenon DEF Live
<1>5. \A g, y : Sharing(rs, t, g, y) \ {i} \subseteq Sharing(x, t, g, y) BY <1>4, Zenon DEF Sharing
<1> QED BY <1>3, <1>4, <1>5, Zenon DEF x

\* Room beside the others is room in the place of the record left aside.
LEMMA WithoutRoom ==
  ASSUME NEW rs, Wellformed(rs), NEW i \in Id, NEW t \in Nat, NEW g, NEW x, NEW units \in Nat,
         UnitsOf(Without(rs, i), Sharing(Without(rs, i), t, g, x)) + units <= MaxShared
  PROVE  UnitsOf(rs, Sharing(rs, t, g, x) \ {i}) + units <= MaxShared
<1>1. PICK w : w = Without(rs, i) BY Zenon
<1>2. PICK S : S = Sharing(w, t, g, x) BY Zenon
<1>3. PICK T : T = Sharing(rs, t, g, x) \ {i} BY Zenon
<1>4. Wellformed(w) /\ T \subseteq S BY <1>1, <1>2, <1>3, WithoutFacts, Zenon
<1>5. \A j \in T : rs[j].units = w[j].units
  <2>1. \A j \in T : j \in Live(rs, t) \ {i} BY <1>3, Zenon DEF Sharing
  <2> QED BY <2>1, <1>1, WithoutFacts
<1>6. Counts(w, S) BY <1>2, <1>4, SharingCounts, Zenon
<1>7. UnitsOf(w, S) \in Nat /\ UnitsOf(rs, T) \in Nat /\ UnitsOf(rs, T) <= UnitsOf(w, S)
  BY <1>4, <1>5, <1>6, UnitsMonotone, Zenon
<1>8. UnitsOf(w, S) + units <= MaxShared BY <1>1, <1>2, Zenon
<1> QED BY <1>3, <1>7, <1>8, BookingAssumption

\* edit_booking of a reservation that has not started keeps the ledger in order.
LEMMA FutureKeepsSafe ==
  ASSUME clock \in Nat, NEW STATE rs, Wellformed(rs), Timely(rs, clock), NEW u \in Uid, NEW i \in Id,
         rs[i].status = "active", NEW o \in OpId \cup {None}, NEW q \in EditRequests,
         EditFuture(rs, u, i, o, q)
  PROVE  Safe'
<1> DEFINE r == rs[i]
           s == AskedStart(q, r)
           mode == IF q.mode = None THEN r.mode ELSE q.mode
           units == IF q.units # None THEN q.units
                    ELSE IF mode = "shared" /\ r.mode = "shared" THEN r.units
                    ELSE ShareUnits(mode, 1)
           d == IF q.duration = None THEN r.end - r.start ELSE q.duration
           pick == IF q.pick = None
                   THEN [gpus |-> r.gpus, count |-> Cardinality(r.gpus), named |-> TRUE] ELSE q.pick
           w == Without(rs, i)
           Moved(p) == [r EXCEPT !.gpus = p[2], !.mode = mode, !.start = p[1], !.end = p[1] + d,
                                 !.units = StoredUnits(mode, units)]
<1>1. IsEditRequest(q) BY BookingAssumption, Zenon
<1>2. r \in Reservation /\ Sound(r) BY Zenon DEF Wellformed
<1>3. /\ r.start \in Nat /\ r.end \in Nat /\ r.gpus \subseteq Gpu /\ r.mode \in Mode
      /\ r.start < r.end /\ r.start % Slot = 0 /\ r.end % Slot = 0 /\ r.units \in Units
      /\ r.edits \in Seq(EditEntry) /\ (r.mode = "shared" => r.units \in 1 .. MaxShared)
  BY <1>2, Zenon DEF Reservation, Sound
<1>4. clock' \in Nat /\ clock <= clock' BY LaterClockFacts, Zenon DEF EditFuture
<1>5. Timely(rs, clock') BY <1>4, LaterTimely, Zenon
<1>6. q.queue \in BOOLEAN BY <1>1, Zenon DEF IsEditRequest
<1>7. mode \in Mode BY <1>1, <1>3, Zenon DEF IsEditRequest
<1>8. d \in Nat /\ d > 0 /\ d % Slot = 0
  <2>1. CASE q.duration = None
    <3>1. (r.end - r.start) % Slot = 0 BY <1>3, Differences, Zenon
    <3> QED BY <2>1, <3>1, <1>3
  <2>2. CASE q.duration # None BY <2>2, <1>1 DEF IsEditRequest, IsDuration
  <2> QED BY <2>1, <2>2, Zenon
<1>9. pick.gpus \subseteq Gpu
  <2>1. CASE q.pick = None BY <2>1, <1>3, Zenon
  <2>2. CASE q.pick # None BY <2>2, <1>1, Zenon DEF IsEditRequest, IsPick
  <2> QED BY <2>1, <2>2, Zenon
<1>10. s \in Nat
  <2> DEFINE t == IF q.start = None THEN r.start ELSE q.start
  <2>1. t \in Nat BY <1>1, <1>3, Zenon DEF IsEditRequest
  <2> HIDE DEF t
  <2>2. QueueStart(t, clock) \in Nat /\ Ceil(clock) \in Nat BY <2>1, CeilFacts, QueueStartType, Zenon
  <2>3. Max({QueueStart(t, clock), Ceil(clock)}) \in Nat BY <2>2, MaxOfTwo, Zenon
  <2>4. s = IF q.queue THEN Max({QueueStart(t, clock), Ceil(clock)}) ELSE t BY Zenon DEF AskedStart, t
  <2> QED BY <2>1, <2>3, <2>4, Zenon
<1>11. q.queue \/ s % Slot = 0 BY Zenon DEF EditFuture, EditStartAllowed
<1>11a. mode = "shared" => units \in 1 .. MaxShared /\ StoredUnits(mode, units) = units
  <2>1. q.units # None => q.units \in 1 .. MaxShared BY <1>1, Zenon DEF IsEditRequest
  <2>2. mode = "shared" => ShareUnits(mode, 1) = 1 /\ 1 \in 1 .. MaxShared BY BookingAssumption, SMTT(30) DEF ShareUnits
  <2> HIDE DEF mode
  <2> QED BY <1>3, <2>1, <2>2, Zenon DEF StoredUnits
<1>12. StoredUnits(mode, units) \in Units
  <2>1. ShareUnits("shared", 1) \in Units BY BookingAssumption DEF ShareUnits, Units
  <2>2. None \in Units BY Zenon DEF Units
  <2>3. q.units # None => q.units \in Units BY <1>1, Zenon DEF IsEditRequest, Units
  <2>4. CASE mode = "shared" BY <2>4, <2>1, <2>3, <1>3, Zenon DEF StoredUnits
  <2>5. CASE mode # "shared" BY <2>5, <2>2, Zenon DEF StoredUnits
  <2> QED BY <2>4, <2>5, Zenon
<1>13. PICK p \in Placements(w, clock', pick, mode, units, s, d, q.queue) :
          Rewrite(rs, u, i, o, q, Moved(p))
  BY Zenon DEF EditFuture
<1>14. Wellformed(w) /\ \A j \in Live(rs, clock') \ {i} : j \in Live(w, clock') /\ w[j] = rs[j]
  BY WithoutFacts, Zenon
<1>15. Admitted(w, clock', p, d, mode, pick.gpus)
  <2>1. p \in Placements(w, clock', pick, mode, units, s, d, q.queue) BY <1>13, Zenon
  <2> HIDE DEF w, pick, mode, units, s, d
  <2> QED BY <2>1, <1>4, <1>6, <1>8, <1>10, <1>11, <1>14, AdmittedFits, Zenon
<1>15a. /\ p[1] \in Nat /\ p[1] + d \in Nat /\ p[2] \in SUBSET Gpu
        /\ p[1] % Slot = 0 /\ (p[1] + d) % Slot = 0
  <2> HIDE DEF w, pick, mode, units, s, d, r
  <2>1. d \in Nat /\ pick.gpus \subseteq Gpu BY <1>8, <1>9, Zenon
  <2>2. Admitted(w, clock', p, d, mode, pick.gpus) BY <1>15, Zenon
  <2>3. PICK g : g = pick.gpus BY Zenon
  <2>4. PICK x : x = p BY Zenon
  <2>5. Admitted(w, clock', x, d, mode, g) /\ g \subseteq Gpu BY <2>1, <2>2, <2>3, <2>4, Zenon
  <2>6. /\ x[1] \in Nat /\ x[1] + d \in Nat /\ x[2] \in SUBSET Gpu
        /\ x[1] % Slot = 0 /\ (x[1] + d) % Slot = 0
    BY <2>1, <2>5, AdmittedTypes, Zenon
  <2> QED BY <2>4, <2>6, Zenon
<1> DEFINE new == Moved(p)
<1>16. /\ new \in Reservation /\ new.gpus = p[2] /\ new.mode = mode /\ new.start = p[1]
       /\ new.end = p[1] + d /\ new.status = "active" /\ new.edits = r.edits
       /\ new.cancelOp = r.cancelOp /\ new.units = StoredUnits(mode, units)
  <2> HIDE DEF w, pick, mode, units, s, d
  <2> QED BY <1>15a, <1>2, <1>7, <1>12, Zenon DEF Reservation
<1> HIDE DEF new, w, pick, units, s, d, mode
<1>17. Sound(new)
  <2>1. r.cancelOp = None /\ Len(r.edits) <= EditLimit BY <1>2, Zenon DEF Sound
  <2> HIDE DEF r
  <2> QED BY <1>7, <1>8, <1>11a, <1>15a, <1>16, <2>1 DEF Sound
<1>17a. Roomy(rs, clock', i, new)
  <2> SUFFICES ASSUME mode = "shared", NEW g \in p[2], NEW x \in Nat, p[1] <= x, x < p[1] + d
               PROVE  UnitsOf(rs, Sharing(rs, clock', g, x) \ {i}) + units <= MaxShared
    BY <1>11a, <1>16, Zenon DEF Roomy
  <2>1. units \in Nat BY <1>11a, BookingAssumption
  <2>2. p \in Placements(w, clock', pick, "shared", units, s, d, q.queue) BY <1>13, Zenon
  <2>3. RoomFor(w, clock', p, d, units)
    BY <1>4, <1>6, <1>8, <1>10, <1>11, <1>14, <2>1, <2>2, AdmittedRoom, Zenon
  <2>4. UnitsOf(w, Sharing(w, clock', g, x)) + units <= MaxShared BY <2>3, Zenon DEF RoomFor
  <2> QED BY <1>4, <2>1, <2>4, WithoutRoom, Zenon DEF w
<1>18. ClearOfBlackouts(new) BY <1>15, <1>16, Zenon DEF ClearOfBlackouts, Admitted
<1>19. \A j \in Live(rs, clock') \ {i} : Compatible(rs[j], new)
  BY <1>14, <1>15, <1>16, Zenon DEF Compatible, Admitted
<1>20. Rewrite(rs, u, i, o, q, new) BY <1>13, Zenon DEF new
<1> QED BY <1>4, <1>5, <1>16, <1>17, <1>17a, <1>18, <1>19, <1>20, RewriteSafe, Zenon

-----------------------------------------------------------------------------
\* _edit_started_reservation: the extension begins where the reservation ends now,
\* since both are aligned, and all of its own GPUs are free from there on.
LEMMA ExtensionFree ==
  ASSUME clock \in Nat, clock' \in Nat, clock <= clock', NEW STATE rs, Wellformed(rs),
         NEW i \in Live(rs, clock), NEW end \in Nat, end > rs[i].end, ExtendsFreely(rs, i, end)
  PROVE  /\ \A b \in Blackouts : ~Overlaps(rs[i].end, end, b[1], b[2])
         /\ \A j \in Live(rs, clock') \ {i} :
               rs[j].gpus \cap rs[i].gpus # {} /\ "exclusive" \in {rs[j].mode, rs[i].mode}
                  => ~Overlaps(rs[j].start, rs[j].end, rs[i].end, end)
         /\ rs[i].mode = "shared" =>
               \A g \in rs[i].gpus, x \in Nat : rs[i].end <= x /\ x < end =>
                  UnitsOf(rs, Sharing(rs, clock', g, x) \ {i}) + rs[i].units <= MaxShared
<1> DEFINE r == rs[i]
           from == Max({Ceil(clock), r.end})
           own == [gpus |-> r.gpus, count |-> Cardinality(r.gpus), named |-> TRUE]
           units == IF r.mode = "shared" THEN r.units ELSE 1
           w == Without(rs, i)
           d == end - from
<1>1. /\ i \in Id /\ r.end \in Nat /\ r.end > clock /\ r.end % Slot = 0 /\ r.gpus \subseteq Gpu
      /\ r.mode \in Mode
  BY LiveFields, Zenon
<1>2. Ceil(clock) \in Nat /\ Ceil(clock) <= r.end BY <1>1, CeilFacts
<1>3. from = r.end BY <1>1, <1>2, MaxOfTwo
<1>4. ~PolicyConflict(from, end, clock) /\ Placements(w, clock', own, r.mode, units, from, d, FALSE) # {}
  BY Zenon DEF ExtendsFreely
<1>5. PICK p \in Placements(w, clock', own, r.mode, units, from, d, FALSE) : TRUE BY <1>4, Zenon
<1>6. p[1] + d = end /\ p[1] = r.end
  <2>1. p[1] = from
    <3> HIDE DEF from, own, units, w, d
    <3>1. p[1] \in EarliestStart(w, clock', own, r.mode, units, from, d, FALSE) BY <1>5, PlacementFacts, Zenon
    <3> QED BY <3>1, Zenon DEF EarliestStart
  <2>2. r.end + d = end BY <1>1, <1>3, SMTT(30)
  <2> QED BY <2>1, <2>2, <1>3, Zenon
<1>7. /\ p[2] \subseteq FreeGpus(w, clock', own, r.mode, units, r.end, end)
      /\ Cardinality(p[2]) = Cardinality(r.gpus)
  <2>1. own.count = Cardinality(r.gpus) BY Zenon
  <2> HIDE DEF from, own, units, w, d
  <2>2. /\ p[2] \subseteq FreeGpus(w, clock', own, r.mode, units, p[1], p[1] + d)
        /\ Cardinality(p[2]) = own.count
    BY <1>5, PlacementFacts, ZenonT(30)
  <2> QED BY <1>6, <2>1, <2>2, Zenon
<1>8. p[2] \subseteq r.gpus BY <1>7, Zenon DEF FreeGpus
<1>9. p[2] = r.gpus
  <2>1. IsFiniteSet(r.gpus) BY <1>1, BookingAssumption, FS_Subset, Zenon
  <2> QED BY <2>1, <1>7, <1>8, FS_Subset, Zenon
<1>10. \A j \in Live(rs, clock') \ {i} : j \in Live(w, clock') /\ w[j] = rs[j]
  BY <1>1, WithoutFacts, Zenon
<1>11. ASSUME NEW j \in Live(rs, clock') \ {i}, rs[j].gpus \cap r.gpus # {},
              "exclusive" \in {rs[j].mode, r.mode}
       PROVE  ~Overlaps(rs[j].start, rs[j].end, r.end, end)
  <2>1. PICK g \in rs[j].gpus : g \in r.gpus BY <1>11, Zenon
  <2>2. Available(w, clock', g, r.end, end, r.mode, units) BY <2>1, <1>7, <1>9, Zenon DEF FreeGpus
  <2>3. j \in Live(w, clock') /\ g \in w[j].gpus /\ "exclusive" \in {r.mode, w[j].mode}
    BY <1>10, <1>11, <2>1, Zenon
  <2> HIDE DEF w, units
  <2>4. ~Overlaps(w[j].start, w[j].end, r.end, end) BY <2>2, <2>3, AvailableKeepsApart, Zenon
  <2> QED BY <2>4, <1>10, Zenon
<1>12. \A b \in Blackouts : ~Overlaps(r.end, end, b[1], b[2])
  BY <1>3, <1>4, Zenon DEF PolicyConflict
<1>13. ASSUME r.mode = "shared", NEW g \in r.gpus, NEW x \in Nat, r.end <= x, x < end
       PROVE  UnitsOf(rs, Sharing(rs, clock', g, x) \ {i}) + r.units <= MaxShared
  <2>1. Available(w, clock', g, r.end, end, r.mode, units) BY <1>7, <1>9, Zenon DEF FreeGpus
  <2>2. r.units \in Nat /\ units = r.units
    <3>1. Sound(r) /\ r.status = "active" BY LiveFields, Zenon
    <3>2. r.units \in 1 .. MaxShared BY <1>13, <3>1, Zenon DEF Sound
    <3> QED BY <1>13, <3>2, BookingAssumption, SMTT(30)
  <2>3. Available(w, clock', g, r.end, end, "shared", r.units) BY <1>13, <2>1, <2>2, Zenon
  <2>4. Wellformed(w) BY <1>1, WithoutFacts, Zenon
  <2> HIDE DEF w, r
  <2>5. UnitsOf(w, Sharing(w, clock', g, x)) + r.units <= MaxShared
    BY <1>1, <1>13, <2>2, <2>3, <2>4, AvailableHasRoom, SMTT(30)
  <2> QED BY <1>1, <2>2, <2>5, WithoutRoom, Zenon DEF w
<1> QED BY <1>11, <1>12, <1>13, Zenon

\* _edit_started_reservation keeps the ledger in order: the old interval was
\* compatible and the extension is.
LEMMA StartedKeepsSafe ==
  ASSUME clock \in Nat, NEW STATE rs, Wellformed(rs), Timely(rs, clock), NEW u \in Uid,
         NEW i \in Live(rs, clock), NEW o \in OpId \cup {None}, NEW q \in EditRequests,
         Started(rs[i]), EditStarted(rs, u, i, o, q)
  PROVE  Safe'
<1> DEFINE r == rs[i]
           end == r.start + q.duration
           new == [r EXCEPT !.end = end]
<1>1. /\ i \in Id /\ r \in Reservation /\ Sound(r) /\ r.status = "active" /\ r.start \in Nat
      /\ r.end \in Nat /\ r.start < r.end /\ r.start % Slot = 0 /\ r.mode \in Mode
  BY LiveFields, Zenon
<1>2. q.duration \in Nat /\ q.duration % Slot = 0
  <2>1. IsEditRequest(q) BY BookingAssumption, Zenon
  <2> QED BY <2>1, Zenon DEF EditStarted, IsEditRequest, IsDuration
<1>3. end \in Nat /\ end % Slot = 0 BY <1>1, <1>2, Sums, SMTT(30)
<1>4. /\ end > clock /\ Rewrite(rs, u, i, o, q, new)
      /\ IF end > r.end THEN ExtendsFreely(rs, i, end) ELSE clock' = clock
  BY Zenon DEF EditStarted
<1>5. r.start < end
  <2>1. r.start <= clock /\ end > clock BY <1>4, Zenon DEF Started
  <2> HIDE DEF end
  <2> QED BY <1>1, <1>3, <2>1, SMTT(30)
<1>6. clock' \in Nat /\ clock <= clock'
  <2>1. CASE end > r.end
    <3>1. LaterClock BY <1>4, <2>1, Zenon DEF ExtendsFreely
    <3> QED BY <3>1, LaterClockFacts, Zenon
  <2>2. CASE ~(end > r.end) BY <1>4, <2>2
  <2> QED BY <2>1, <2>2, Zenon
<1>7. Timely(rs, clock') BY <1>6, LaterTimely, Zenon
<1>8. /\ new \in Reservation /\ new.end = end /\ new.start = r.start /\ new.gpus = r.gpus
      /\ new.mode = r.mode /\ new.status = "active" /\ new.edits = r.edits
      /\ new.cancelOp = r.cancelOp /\ new.units = r.units
  <2> HIDE DEF end
  <2> QED BY <1>1, <1>3, Zenon DEF Reservation
<1> HIDE DEF new
<1>9. Sound(new) BY <1>1, <1>3, <1>5, <1>8, Zenon DEF Sound
<1>10. ClearOfBlackouts(r) /\ \A j \in Live(rs, clock) \ {i} : Compatible(rs[j], r) BY Zenon DEF Timely
<1>11. \A j \in Live(rs, clock') : j \in Live(rs, clock) /\ rs[j].start \in Nat /\ rs[j].end \in Nat
                                    /\ rs[j].start < rs[j].end
  <2>1. ASSUME NEW j \in Live(rs, clock')
        PROVE  j \in Live(rs, clock) /\ rs[j].start \in Nat /\ rs[j].end \in Nat
               /\ rs[j].start < rs[j].end
    <3>1. rs[j].start \in Nat /\ rs[j].end \in Nat /\ rs[j].start < rs[j].end BY <1>6, LiveFields, Zenon
    <3> QED BY <3>1, <1>6, SMTT(30) DEF Live
  <2> QED BY <2>1, Zenon
<1> HIDE DEF end
<1>12. ClearOfBlackouts(new)
  <2> SUFFICES ASSUME NEW b \in Blackouts PROVE ~Overlaps(r.start, end, b[1], b[2])
    BY <1>8, Zenon DEF ClearOfBlackouts
  <2>1. b[1] \in Nat /\ b[2] \in Nat /\ b[1] < b[2] BY BookingAssumption, Zenon
  <2>2. ~Overlaps(r.start, r.end, b[1], b[2]) BY <1>10, Zenon DEF ClearOfBlackouts
  <2>3. end > r.end => ~Overlaps(r.end, end, b[1], b[2]) BY <1>3, <1>4, <1>6, ExtensionFree, Zenon
  <2> QED BY <2>1, <2>2, <2>3, <1>1, <1>3, SMTT(30) DEF Overlaps
<1>13. \A j \in Live(rs, clock') \ {i} : Compatible(rs[j], new)
  <2> SUFFICES ASSUME NEW j \in Live(rs, clock') \ {i}, rs[j].gpus \cap r.gpus # {},
                      "exclusive" \in {rs[j].mode, r.mode}
               PROVE  ~Overlaps(rs[j].start, rs[j].end, r.start, end)
    BY <1>8, Zenon DEF Compatible
  <2>1. ~Overlaps(rs[j].start, rs[j].end, r.start, r.end) BY <1>10, <1>11, Zenon DEF Compatible
  <2>2. end > r.end => ~Overlaps(rs[j].start, rs[j].end, r.end, end)
    BY <1>3, <1>4, <1>6, ExtensionFree, Zenon
  <2> QED BY <2>1, <2>2, <1>1, <1>3, <1>11, SMTT(30) DEF Overlaps
<1>14. Roomy(rs, clock', i, new)
  <2> SUFFICES ASSUME r.mode = "shared", NEW g \in r.gpus, NEW x \in Nat, r.start <= x, x < end
               PROVE  UnitsOf(rs, Sharing(rs, clock', g, x) \ {i}) + r.units <= MaxShared
    BY <1>8, Zenon DEF Roomy
  <2>1. CASE x >= r.end
    <3>1. end > r.end BY <1>1, <1>3, <2>1, SMTT(30)
    <3>2. ExtendsFreely(rs, i, end) BY <1>4, <3>1, Zenon
    <3> QED BY <1>3, <1>6, <2>1, <3>1, <3>2, ExtensionFree, Zenon
  <2>2. CASE x < r.end
    <3> DEFINE S == Sharing(rs, clock, g, x)
               T == Sharing(rs, clock', g, x)
    <3>1. i \in S /\ T \subseteq S BY <1>11, <2>2, Zenon DEF Sharing
    <3>2. Counts(rs, S) BY SharingCounts, Zenon
    <3>3. g \in Gpu BY LiveFields, Zenon
    <3>4. UnitsOf(rs, S) <= MaxShared BY <3>3, Zenon DEF Timely, Capacity
    <3> HIDE DEF S, T
    <3>5. UnitsOf(rs, S) = UnitsOf(rs, S \ {i}) + r.units BY <3>1, <3>2, UnitsAdd, Zenon
    <3>6. Counts(rs, S \ {i}) /\ T \ {i} \subseteq S \ {i} /\ r.units \in Nat
      BY <3>1, <3>2, Zenon DEF Counts
    <3>7. /\ UnitsOf(rs, S \ {i}) \in Nat /\ UnitsOf(rs, T \ {i}) \in Nat
          /\ UnitsOf(rs, T \ {i}) <= UnitsOf(rs, S \ {i})
      <4>1. \A j \in T \ {i} : rs[j].units = rs[j].units BY Zenon
      <4> QED BY <3>6, <4>1, UnitsMonotone, Zenon
    <3>8. UnitsOf(rs, T \ {i}) + r.units <= MaxShared BY <3>4, <3>5, <3>6, <3>7, BookingAssumption, SMTT(30)
    <3> QED BY <3>8, Zenon DEF T
  <2> QED BY <1>1, <2>1, <2>2, SMTT(30)
<1> QED BY <1>1, <1>4, <1>6, <1>7, <1>8, <1>9, <1>12, <1>13, <1>14, RewriteSafe, Zenon

\* edit_booking keeps the ledger in order.
LEMMA EditKeepsSafe ==
  ASSUME Safe, NEW u \in Uid, NEW i \in Id, NEW q \in EditRequests, NEW o \in OpId \cup {None},
         EditBooking(u, i, q, o)
  PROVE  Safe'
<1> DEFINE rs == Maintain(res, clock)
<1>1. clock \in Nat /\ Wellformed(res) /\ Timely(res, clock) BY Zenon DEF Safe
<1>2. Wellformed(rs) /\ \A j \in Id : rs[j].status = "active" => rs[j] = res[j] /\ j \in Live(res, clock)
  BY <1>1, MaintainFacts, Zenon
<1>3. Timely(rs, clock) BY <1>1, <1>2, MaintainedTimely, Zenon
<1>4. \/ res' = rs /\ clock' = clock
      \/ /\ rs[i].status = "active"
         /\ IF Started(rs[i]) THEN EditStarted(rs, u, i, o, q) ELSE EditFuture(rs, u, i, o, q)
  BY Zenon DEF EditBooking
<1>5. CASE res' = rs /\ clock' = clock BY <1>1, <1>2, <1>3, <1>5, Zenon DEF Safe
<1>6. rs[i].status = "active" => i \in Live(rs, clock) BY <1>2, Zenon DEF Live
<1> HIDE DEF rs
<1> QED BY <1>1, <1>2, <1>3, <1>4, <1>5, <1>6, StartedKeepsSafe, FutureKeepsSafe, Zenon

\* Every operation keeps the ledger in order.
LEMMA NextKeepsSafe == Safe /\ [Next]_vars => Safe'
<1> SUFFICES ASSUME Safe, [Next]_vars PROVE Safe' BY Zenon
<1>1. CASE UNCHANGED vars BY <1>1, Zenon DEF Safe, vars
<1>2. CASE Next
  BY <1>2, AddKeepsSafe, EditKeepsSafe, CancelKeepsSafe, AdminCancelKeepsSafe, TickKeepsSafe, Zenon DEF Next
<1> QED BY <1>1, <1>2, Zenon

\* The ledger is in order in every reachable state.
THEOREM AlwaysSafe == Spec => []Safe
  BY InitSafe, NextKeepsSafe, PTL DEF Spec

\* The invariant gives SharedFits.
LEMMA SafeIsShared == Safe => SharedFits
<1> SUFFICES ASSUME Safe, NEW g \in Gpu, NEW t \in 0 .. MaxTime + Horizon
             PROVE  UnitsOf(res, Sharing(res, clock, g, t)) <= MaxShared
  BY Zenon DEF SharedFits, Sharing
<1>1. t \in Nat BY BookingAssumption
<1> QED BY <1>1, Zenon DEF Safe, Timely, Capacity

\* The invariant gives ExclusiveAlone.
LEMMA SafeIsAlone == Safe => ExclusiveAlone
  BY Zenon DEF Safe, Timely, ExclusiveAlone, Compatible

\* The invariant gives BlackoutsStayClear.
LEMMA SafeIsClear == Safe => BlackoutsStayClear
  BY Zenon DEF Safe, Timely, BlackoutsStayClear, ClearOfBlackouts

\* Two live reservations of a GPU overlap only if both are shared, for any number of
\* GPUs, users and reservations, any policy and any drift of the clock inside a mutator.
THEOREM Alone == Spec => []ExclusiveAlone
  BY AlwaysSafe, SafeIsAlone, PTL

\* At every instant the live shared reservations of each GPU use at most
\* max_shared_users units, however they were booked, moved, extended or resized.
THEOREM WithinCapacity == Spec => []SharedFits
  BY AlwaysSafe, SafeIsShared, PTL

\* No live reservation ever overlaps a blackout, however it was placed or extended.
THEOREM Clear == Spec => []BlackoutsStayClear
  BY AlwaysSafe, SafeIsClear, PTL

-----------------------------------------------------------------------------
(* The search of find_earliest_slot. If a slot boundary fits and the one   *)
(* before it does not, then a reservation or a blackout ends in between:   *)
(* the boundary is among the candidates.                                   *)

\* The converse of AvailableHasRoom: room at each instant is enough.
LEMMA RoomIsAvailable ==
  ASSUME NEW rs, NEW t \in Nat, Wellformed(rs), NEW g, NEW s \in Nat, NEW e \in Nat, s < e,
         NEW units \in Nat, \A i \in Overlapping(rs, t, g, s, e) : rs[i].mode # "exclusive",
         \A x \in Nat : s <= x /\ x < e => UnitsOf(rs, Sharing(rs, t, g, x)) + units <= MaxShared
  PROVE  Available(rs, t, g, s, e, "shared", units)
<1>1. PICK spans : spans = Overlapping(rs, t, g, s, e) BY Zenon
<1>2. PICK cuts : cuts = Cuts(rs, spans, s, e) BY Zenon
<1>3. Segmented(cuts, rs, spans, s, e) BY <1>1, <1>2, CutFacts, Zenon
<1>4. ASSUME NEW p \in cuts \ {Max(cuts)}
      PROVE  UsedUnits(rs, spans, p, NextCut(cuts, p)) + units <= MaxShared
  <2>1. p \in cuts \ {e} /\ p \in Nat /\ s <= p /\ p < e BY <1>3 DEF Segmented
  <2>2. PICK n : n = NextCut(cuts, p) BY Zenon
  <2>3. n \in Nat /\ n > p /\ \A r \in cuts : r > p => n <= r
    <3>1. n \in cuts /\ n > p /\ \A r \in cuts : r > p => n <= r
      BY <1>3, <2>1, <2>2, Zenon DEF Segmented
    <3>2. n \in Nat BY <1>3, <3>1 DEF Segmented
    <3> QED BY <3>1, <3>2, Zenon
  <2> DEFINE S == {i \in spans : /\ rs[i].mode = "shared"
                                 /\ Overlaps(p, n, rs[i].start, rs[i].end)}
             T == Sharing(rs, t, g, p)
  <2>4. UsedUnits(rs, spans, p, n) = UnitsOf(rs, S) BY Zenon DEF UsedUnits
  <2>5. S \subseteq T
    <3> SUFFICES ASSUME NEW i \in S PROVE i \in T BY Zenon
    <3>1. i \in Live(rs, t) /\ g \in rs[i].gpus /\ rs[i].mode = "shared"
          /\ p < rs[i].end /\ rs[i].start < n
      BY <1>1, Zenon DEF Overlapping, Overlaps
    <3>2. rs[i].start \in Nat BY <3>1, LiveFields, Zenon
    <3>3. rs[i].start <= p
      <4> SUFFICES ASSUME rs[i].start > p PROVE FALSE BY <2>1, <3>2
      <4>1. rs[i].start > s BY <2>1, <3>2
      <4>2. rs[i].start \in cuts BY <1>3, <4>1, Zenon DEF Segmented
      <4> QED BY <2>3, <3>1, <3>2, <4>2
    <3> QED BY <3>1, <3>3, Zenon DEF Sharing
  <2>6. Counts(rs, T) BY SharingCounts, Zenon
  <2>7. \A i \in S : rs[i].units = rs[i].units BY Zenon
  <2>8. UnitsOf(rs, T) + units <= MaxShared BY <2>1, Zenon
  <2> HIDE DEF S, T
  <2>9. UnitsOf(rs, T) \in Nat /\ UnitsOf(rs, S) \in Nat /\ UnitsOf(rs, S) <= UnitsOf(rs, T)
    BY <2>5, <2>6, <2>7, UnitsMonotone, Zenon
  <2> QED BY <2>2, <2>4, <2>8, <2>9, BookingAssumption, SMTT(30)
<1> QED BY <1>1, <1>2, <1>4, AvailableShared

\* A GPU that is free from c on and was not free a slot earlier was held by a
\* reservation that ends at c.
LEMMA FreedByAnEnd ==
  ASSUME NEW rs, NEW t \in Nat, Wellformed(rs), NEW g, NEW b \in Nat, b % Slot = 0, NEW d \in Nat,
         d > 0, NEW mode \in Mode, NEW units \in Nat,
         Available(rs, t, g, b + Slot, b + Slot + d, mode, units),
         ~Available(rs, t, g, b, b + d, mode, units)
  PROVE  \E i \in Live(rs, t) : rs[i].end = b + Slot
<1>1. PICK c \in Nat, e \in Nat, f \in Nat : c = b + Slot /\ e = c + d /\ f = b + d BY SlotNat
<1>2. Available(rs, t, g, c, e, mode, units) /\ ~Available(rs, t, g, b, f, mode, units) BY <1>1, Zenon
<1>3. b < c /\ c < e /\ b < f /\ f < e BY <1>1, SlotNat
<1> SUFFICES ASSUME \A i \in Live(rs, t) : rs[i].end # c PROVE FALSE BY <1>1, Zenon
<1>4. ASSUME NEW i \in Live(rs, t), rs[i].end > b PROVE rs[i].end > c
  <2>1. rs[i].end \in Nat /\ rs[i].end % Slot = 0 BY LiveFields, Zenon
  <2>2. b + Slot <= rs[i].end BY <1>4, <2>1, Differences, Zenon
  <2> QED BY <1>1, <2>1, <2>2
<1>5. Overlapping(rs, t, g, b, f) \subseteq Overlapping(rs, t, g, c, e)
  <2> SUFFICES ASSUME NEW i \in Overlapping(rs, t, g, b, f) PROVE i \in Overlapping(rs, t, g, c, e)
    BY Zenon
  <2>1. i \in Live(rs, t) /\ g \in rs[i].gpus /\ rs[i].start < f /\ b < rs[i].end
    BY Zenon DEF Overlapping, Overlaps
  <2>2. rs[i].start \in Nat /\ rs[i].end \in Nat BY <2>1, LiveFields, Zenon
  <2>3. c < rs[i].end /\ rs[i].start < e BY <1>3, <1>4, <2>1, <2>2
  <2> QED BY <2>1, <2>3, Zenon DEF Overlapping, Overlaps
<1>6. CASE mode = "exclusive"
  <2>1. Overlapping(rs, t, g, c, e) = {} BY <1>2, <1>6, Zenon DEF Available
  <2>2. Overlapping(rs, t, g, b, f) = {} BY <1>5, <2>1, Zenon
  <2> QED BY <1>2, <1>6, <2>2, Zenon DEF Available
<1>7. CASE mode = "shared"
  <2>1. \A i \in Overlapping(rs, t, g, b, f) : rs[i].mode # "exclusive"
    BY <1>2, <1>5, <1>7, AvailableShared, SMTT(30)
  <2>2. ASSUME NEW x \in Nat, b <= x, x < f
        PROVE  UnitsOf(rs, Sharing(rs, t, g, x)) + units <= MaxShared
    <3>1. Available(rs, t, g, c, e, "shared", units) BY <1>2, <1>7, Zenon
    <3>2. CASE x >= c
      <4>1. c <= x /\ x < e BY <1>3, <2>2, <3>2
      <4> QED BY <1>3, <3>1, <4>1, AvailableHasRoom, Zenon
    <3>3. CASE x < c
      <4> DEFINE S == Sharing(rs, t, g, x)
                 T == Sharing(rs, t, g, c)
      <4>1. S \subseteq T
        <5> SUFFICES ASSUME NEW i \in S PROVE i \in T BY Zenon
        <5>1. i \in Live(rs, t) /\ g \in rs[i].gpus /\ rs[i].mode = "shared"
              /\ rs[i].start <= x /\ x < rs[i].end
          BY Zenon DEF Sharing
        <5>2. rs[i].start \in Nat /\ rs[i].end \in Nat BY <5>1, LiveFields, Zenon
        <5>3. rs[i].start <= c /\ c < rs[i].end BY <1>4, <2>2, <3>3, <5>1, <5>2
        <5> QED BY <5>1, <5>3, Zenon DEF Sharing
      <4>2. Counts(rs, T) BY SharingCounts, Zenon
      <4>3. \A i \in S : rs[i].units = rs[i].units BY Zenon
      <4>4. UnitsOf(rs, T) + units <= MaxShared BY <1>3, <3>1, AvailableHasRoom
      <4> HIDE DEF S, T
      <4>5. UnitsOf(rs, T) \in Nat /\ UnitsOf(rs, S) \in Nat /\ UnitsOf(rs, S) <= UnitsOf(rs, T)
        BY <4>1, <4>2, <4>3, UnitsMonotone, Zenon
      <4>6. UnitsOf(rs, S) + units <= MaxShared BY <4>4, <4>5, BookingAssumption
      <4> QED BY <4>6, Zenon DEF S
    <3> QED BY <3>2, <3>3, SMTT(30)
  <2>3. Available(rs, t, g, b, f, "shared", units) BY <1>3, <2>1, <2>2, RoomIsAvailable, Zenon
  <2> QED BY <1>2, <1>7, <2>3, Zenon
<1> QED BY <1>6, <1>7, Zenon DEF Mode

\* A boundary that fits although the one before it does not is the end of a
\* reservation, or the first boundary after a blackout.
LEMMA FirstFitIsCandidate ==
  ASSUME NEW rs, NEW now \in Nat, Wellformed(rs), NEW k, IsPick(k), NEW mode \in Mode,
         NEW units \in Nat, NEW b \in Nat, b % Slot = 0, NEW d \in Nat, d > 0,
         Fits(rs, now, k, mode, units, b + Slot, b + Slot + d),
         ~Fits(rs, now, k, mode, units, b, b + d)
  PROVE  \/ \E i \in Live(rs, now) : rs[i].end = b + Slot
         \/ \E x \in Blackouts : b < x[2] /\ x[2] <= b + Slot
<1>1. CASE PolicyConflict(b, b + d, now)
  <2>1. ~PolicyConflict(b + Slot, b + Slot + d, now) BY Zenon DEF Fits
  <2>2. PICK x \in Blackouts : Overlaps(b, b + d, x[1], x[2])
    <3>1. ~((b + Slot + d) - (b + Slot) > MaxDuration) /\ ~(b + Slot + d > now + Horizon)
      BY <2>1, Zenon DEF PolicyConflict
    <3>2. ~((b + d) - b > MaxDuration) /\ ~(b + d > now + Horizon)
      BY <3>1, SlotNat, BookingAssumption
    <3> QED BY <1>1, <3>2, Zenon DEF PolicyConflict
  <2>3. ~Overlaps(b + Slot, b + Slot + d, x[1], x[2]) BY <2>1, Zenon DEF PolicyConflict
  <2>4. x[1] \in Nat /\ x[2] \in Nat BY BookingAssumption, Zenon
  <2>5. b < x[2] /\ x[2] <= b + Slot BY <2>2, <2>3, <2>4, SlotNat DEF Overlaps
  <2> QED BY <2>5, Zenon
<1>2. CASE ~PolicyConflict(b, b + d, now)
  <2> DEFINE F == FreeGpus(rs, now, k, mode, units, b, b + d)
             H == FreeGpus(rs, now, k, mode, units, b + Slot, b + Slot + d)
  <2>1. Cardinality(H) >= k.count /\ ~(Cardinality(F) >= k.count) BY <1>2, Zenon DEF Fits
  <2>2. IsFiniteSet(k.gpus) BY BookingAssumption, FS_Subset, Zenon DEF IsPick
  <2>3. H \subseteq k.gpus /\ F \subseteq k.gpus BY Zenon DEF FreeGpus
  <2>4. ASSUME H \subseteq F PROVE FALSE
    <3> HIDE DEF F, H
    <3>1. IsFiniteSet(F) /\ IsFiniteSet(H) BY <2>2, <2>3, FS_Subset, Zenon
    <3>2. Cardinality(H) <= Cardinality(F) BY <2>4, <3>1, FS_Subset, Zenon
    <3>3. Cardinality(H) \in Nat /\ Cardinality(F) \in Nat BY <3>1, FS_CardinalityType, Zenon
    <3>4. k.count \in Nat BY Zenon DEF IsPick
    <3> QED BY <2>1, <3>2, <3>3, <3>4
  <2>5. PICK g \in H : g \notin F BY <2>4, Zenon
  <2>6. Available(rs, now, g, b + Slot, b + Slot + d, mode, units)
        /\ ~Available(rs, now, g, b, b + d, mode, units)
    BY <2>3, <2>5, Zenon DEF FreeGpus
  <2> QED BY <2>6, FreedByAnEnd, SMTT(30)
<1> QED BY <1>1, <1>2, Zenon

\* SearchUntil is the earlier of the two limits of the search.
LEMMA SearchUntilFacts ==
  ASSUME NEW s \in Nat, NEW now \in Nat
  PROVE  /\ SearchUntil(s, now) \in Nat
         /\ \A c \in Nat : c <= SearchUntil(s, now) <=> c <= s + QueueSearch /\ c <= now + Horizon
<1>1. s + QueueSearch \in Nat /\ now + Horizon \in Nat BY BookingAssumption
<1>2. SearchUntil(s, now) = IF s + QueueSearch <= now + Horizon THEN s + QueueSearch ELSE now + Horizon
  BY <1>1, MinOfTwo, Zenon DEF SearchUntil
<1> QED BY <1>1, <1>2

\* Every candidate is a slot boundary not before the request, inside the window
\* unless it is the request itself or follows a blackout that ends in the window.
LEMMA CandidateFacts ==
  ASSUME NEW rs, NEW now \in Nat, Wellformed(rs), NEW begin \in Nat, begin % Slot = 0,
         NEW c \in CandidateStarts(rs, now, begin)
  PROVE  /\ c \in Nat /\ c % Slot = 0 /\ begin <= c
         /\ \/ c = begin
            \/ c <= SearchUntil(begin, now)
            \/ \E b \in Blackouts : b[2] <= SearchUntil(begin, now) /\ c = Ceil(b[2])
<1>1. CASE c = Ceil(begin) BY <1>1, CeilFacts, Zenon DEF Ceil
<1>2. ASSUME NEW i \in Live(rs, now), c = Ceil(rs[i].end), begin <= c, c <= SearchUntil(begin, now)
      PROVE  c \in Nat /\ c % Slot = 0
  BY <1>2, LiveFields, CeilFacts, Zenon
<1>3. ASSUME NEW b \in Blackouts, c = Ceil(b[2]), begin <= b[2], b[2] <= SearchUntil(begin, now)
      PROVE  c \in Nat /\ c % Slot = 0 /\ begin <= c
  <2>1. b[2] \in Nat BY BookingAssumption, Zenon
  <2>2. Ceil(b[2]) \in Nat /\ Ceil(b[2]) % Slot = 0 /\ Ceil(b[2]) >= b[2] BY <2>1, CeilFacts, Zenon
  <2> QED BY <1>3, <2>1, <2>2
<1>4. \/ c = Ceil(begin)
      \/ \E i \in Live(rs, now) : c = Ceil(rs[i].end) /\ begin <= c /\ c <= SearchUntil(begin, now)
      \/ \E b \in Blackouts : c = Ceil(b[2]) /\ begin <= b[2] /\ b[2] <= SearchUntil(begin, now)
  BY Zenon DEF CandidateStarts
<1> QED BY <1>1, <1>2, <1>3, <1>4, Zenon

\* The least boundary of the window that fits is a candidate.
LEMMA LeastIsCandidate ==
  ASSUME NEW rs, NEW now \in Nat, Wellformed(rs), NEW k, IsPick(k), NEW mode \in Mode,
         NEW units \in Nat, NEW begin \in Nat, begin % Slot = 0, NEW d \in Nat, d > 0,
         NEW c \in Nat, c % Slot = 0, begin <= c, c <= SearchUntil(begin, now),
         Fits(rs, now, k, mode, units, c, c + d),
         \A x \in Nat : begin <= x /\ x < c /\ x % Slot = 0 => ~Fits(rs, now, k, mode, units, x, x + d)
  PROVE  c \in CandidateStarts(rs, now, begin)
<1>1. CASE c = begin
  <2>1. Ceil(begin) = begin BY Zenon DEF Ceil
  <2> QED BY <1>1, <2>1, Zenon DEF CandidateStarts
<1>2. CASE begin < c
  <2>1. begin + Slot <= c /\ (c - begin) % Slot = 0 BY <1>2, Differences, Zenon
  <2>2. PICK b \in Nat : b = c - Slot /\ c = b + Slot /\ begin <= b /\ b < c BY <2>1, SlotNat
  <2>3. b % Slot = 0
    <3>1. CASE b = begin BY <3>1, Zenon
    <3>2. CASE begin < b
      <4>1. Slot % Slot = 0 BY SlotNat
      <4>2. Slot < c /\ Slot \in Nat BY <2>2, <3>2, SlotNat
      <4>3. (c - Slot) % Slot = 0 BY <4>1, <4>2, Differences, Zenon
      <4> QED BY <2>2, <4>3, Zenon
    <3> QED BY <2>2, <3>1, <3>2
  <2>4. ~Fits(rs, now, k, mode, units, b, b + d) BY <2>2, <2>3, Zenon
  <2>5. Fits(rs, now, k, mode, units, b + Slot, b + Slot + d) BY <2>2, Zenon
  <2>6. \/ \E i \in Live(rs, now) : rs[i].end = b + Slot
        \/ \E x \in Blackouts : b < x[2] /\ x[2] <= b + Slot
    BY <2>3, <2>4, <2>5, FirstFitIsCandidate, Zenon
  <2>7. ASSUME NEW i \in Live(rs, now), rs[i].end = c PROVE c \in CandidateStarts(rs, now, begin)
    <3>1. c = Ceil(rs[i].end) BY <2>7, Zenon DEF Ceil
    <3> QED BY <3>1, Zenon DEF CandidateStarts
  <2>8. ASSUME NEW x \in Blackouts, b < x[2], x[2] <= c PROVE c \in CandidateStarts(rs, now, begin)
    <3>1. x[2] \in Nat BY BookingAssumption, Zenon
    <3>2. Ceil(x[2]) <= c /\ Ceil(x[2]) \in Nat /\ Ceil(x[2]) % Slot = 0 /\ Ceil(x[2]) >= x[2]
      BY <2>8, <3>1, CeilFacts, Zenon
    <3>3. b + Slot <= Ceil(x[2]) BY <2>3, <2>8, <3>1, <3>2, Differences
    <3>4. c = Ceil(x[2]) BY <2>2, <3>2, <3>3, SlotNat
    <3>5. begin <= x[2] BY <2>2, <2>8, <3>1
    <3>6. x[2] <= SearchUntil(begin, now)
      <4>1. SearchUntil(begin, now) \in Nat BY SearchUntilFacts, Zenon
      <4> QED BY <2>8, <3>1, <4>1
    <3> QED BY <3>4, <3>5, <3>6, Zenon DEF CandidateStarts
  <2> QED BY <2>2, <2>6, <2>7, <2>8, Zenon
<1> QED BY <1>1, <1>2

\* What find_earliest_slot searches for, and what it finds.
Window(rs, now, k, mode, units, begin, d) ==
    {c \in begin .. SearchUntil(begin, now) :
        c % Slot = 0 /\ Fits(rs, now, k, mode, units, c, c + d)}

Exact(found, every, until) ==
    /\ every # {} => found = {c \in every : \A x \in every : c <= x}
    /\ every = {} => \A c \in found : \E b \in Blackouts : b[2] <= until /\ c = Ceil(b[2])

\* The queued search is exact for every request.
LEMMA SearchFindsLeast ==
  ASSUME NEW rs, NEW now \in Nat, Wellformed(rs), NEW k, IsPick(k), NEW mode \in Mode,
         NEW units \in Nat, NEW s \in Nat, NEW d \in Nat, d > 0,
         NEW begin, begin = QueueStart(s, now),
         NEW every, every = Window(rs, now, k, mode, units, begin, d),
         NEW found, found = EarliestStart(rs, now, k, mode, units, s, d, TRUE)
  PROVE  Exact(found, every, SearchUntil(begin, now))
<1>1. begin \in Nat /\ begin % Slot = 0 BY QueueStartType, Zenon
<1>2. SearchUntil(begin, now) \in Nat BY <1>1, SearchUntilFacts, Zenon
<1> DEFINE cand == CandidateStarts(rs, now, begin)
           starts == {c \in cand : Fits(rs, now, k, mode, units, c, c + d)}
<1>3. found = {c \in starts : \A x \in starts : c <= x} BY Zenon DEF EarliestStart
<1>4. ASSUME NEW c \in starts
      PROVE  /\ c \in Nat /\ c % Slot = 0 /\ begin <= c
             /\ c <= SearchUntil(begin, now) => c \in every
             /\ \/ c \in every
                \/ \E b \in Blackouts : b[2] <= SearchUntil(begin, now) /\ c = Ceil(b[2])
  <2>1. c \in cand /\ Fits(rs, now, k, mode, units, c, c + d) BY Zenon
  <2>2. /\ c \in Nat /\ c % Slot = 0 /\ begin <= c
        /\ \/ c = begin
           \/ c <= SearchUntil(begin, now)
           \/ \E b \in Blackouts : b[2] <= SearchUntil(begin, now) /\ c = Ceil(b[2])
    BY <1>1, <2>1, CandidateFacts
  <2>3. c <= SearchUntil(begin, now) => c \in every BY <1>1, <1>2, <2>1, <2>2 DEF Window
  <2>4. c = begin => c <= SearchUntil(begin, now)
    <3>1. ~(c + d > now + Horizon) BY <2>1, Zenon DEF Fits, PolicyConflict
    <3>2. c = begin => c <= begin + QueueSearch /\ c <= now + Horizon
      BY <2>2, <3>1, BookingAssumption
    <3> QED BY <1>1, <2>2, <3>2, SearchUntilFacts, Zenon
  <2> QED BY <2>2, <2>3, <2>4, Zenon
<1>5. every \subseteq Nat /\ \A c \in every : c <= SearchUntil(begin, now) BY <1>1, <1>2 DEF Window
<1>6. ASSUME every # {} PROVE found = {c \in every : \A x \in every : c <= x}
  <2>1. PICK m \in every : \A x \in every : m <= x BY <1>5, <1>6, LeastNat, Zenon
  <2>2. m \in starts
    <3>1. /\ m \in Nat /\ m % Slot = 0 /\ begin <= m /\ m <= SearchUntil(begin, now)
          /\ Fits(rs, now, k, mode, units, m, m + d)
      BY <1>1, <1>2, <2>1 DEF Window
    <3>2. \A x \in Nat : begin <= x /\ x < m /\ x % Slot = 0 => ~Fits(rs, now, k, mode, units, x, x + d)
      <4> SUFFICES ASSUME NEW x \in Nat, begin <= x, x < m, x % Slot = 0,
                          Fits(rs, now, k, mode, units, x, x + d)
                   PROVE  FALSE
        BY Zenon
      <4>1. x \in every BY <1>1, <1>2, <3>1 DEF Window
      <4> QED BY <2>1, <3>1, <4>1
    <3>3. m \in cand BY <1>1, <3>1, <3>2, LeastIsCandidate, Zenon
    <3> QED BY <3>1, <3>3, Zenon
  <2>3. \A c \in starts : m <= c
    <3> SUFFICES ASSUME NEW c \in starts PROVE m <= c BY Zenon
    <3> HIDE DEF starts
    <3>1. CASE c \in every BY <2>1, <3>1, Zenon
    <3>2. CASE c \notin every
      <4>1. c \in Nat /\ ~(c <= SearchUntil(begin, now)) BY <1>4, <3>2, Zenon
      <4>2. m \in Nat /\ m <= SearchUntil(begin, now) BY <1>5, <2>1, Zenon
      <4> QED BY <1>2, <4>1, <4>2
    <3> QED BY <3>1, <3>2, Zenon
  <2>4. \A c \in starts : c \in Nat BY <1>4, Zenon
  <2> HIDE DEF starts
  <2>5. \A c : c \in found <=> c = m
    <3>1. m \in found BY <1>3, <2>2, <2>3, Zenon
    <3>2. ASSUME NEW c \in found PROVE c = m
      <4>1. c \in starts /\ c <= m BY <1>3, <2>2, Zenon
      <4>2. c \in Nat /\ m \in Nat /\ m <= c BY <2>2, <2>3, <2>4, <4>1, Zenon
      <4> QED BY <4>1, <4>2
    <3> QED BY <3>1, <3>2, Zenon
  <2>6. \A c : c \in {y \in every : \A x \in every : y <= x} <=> c = m BY <1>5, <2>1
  <2> QED BY <2>5, <2>6, Zenon
<1>7. ASSUME every = {}, NEW c \in found
      PROVE  \E b \in Blackouts : b[2] <= SearchUntil(begin, now) /\ c = Ceil(b[2])
  <2>1. c \in starts BY <1>3, Zenon
  <2> HIDE DEF starts
  <2> QED BY <1>4, <1>7, <2>1, Zenon
<1> QED BY <1>6, <1>7, Zenon DEF Exact

\* The invariant gives QueueFindsEarliest.
LEMMA SafeFindsEarliest == Safe => QueueFindsEarliest
<1> SUFFICES ASSUME Safe, NEW q \in Requests
             PROVE  LET units == ShareUnits(q.mode, q.units)
                        begin == QueueStart(q.start, clock)
                        until == SearchUntil(begin, clock)
                        every == {c \in begin .. until :
                                    c % Slot = 0 /\ Fits(res, clock, q.pick, q.mode, units, c, c + q.duration)}
                        found == EarliestStart(res, clock, q.pick, q.mode, units, q.start, q.duration, TRUE)
                    IN  /\ every # {} => found = {c \in every : \A x \in every : c <= x}
                        /\ every = {} => \A c \in found : \E b \in Blackouts :
                                             b[2] <= until /\ c = Ceil(b[2])
  BY Zenon DEF QueueFindsEarliest
<1>1. clock \in Nat /\ Wellformed(res) BY Zenon DEF Safe
<1>2. IsBookingRequest(q) BY BookingAssumption, Zenon
<1>3. /\ IsPick(q.pick) /\ q.mode \in Mode /\ q.start \in Nat
      /\ q.duration \in Nat /\ q.duration > 0
  BY <1>2 DEF IsBookingRequest, IsDuration
<1>4. ShareUnits(q.mode, q.units) \in Nat
  <2>1. CASE q.mode = "exclusive" BY <2>1, BookingAssumption, Zenon DEF ShareUnits
  <2>2. CASE q.mode = "shared"
    <3>1. q.units \in 1 .. MaxShared BY <1>2, <2>2, Zenon DEF IsBookingRequest
    <3> QED BY <2>2, <3>1, BookingAssumption DEF ShareUnits
  <2> QED BY <1>3, <2>1, <2>2, Zenon DEF Mode
<1>5. PICK units \in Nat : units = ShareUnits(q.mode, q.units) BY <1>4, Zenon
<1>6. PICK begin : begin = QueueStart(q.start, clock) BY Zenon
<1>7. PICK every : every = Window(res, clock, q.pick, q.mode, units, begin, q.duration) BY Zenon
<1>8. PICK found : found = EarliestStart(res, clock, q.pick, q.mode, units, q.start, q.duration, TRUE)
  BY Zenon
<1>9. Exact(found, every, SearchUntil(begin, clock))
  BY <1>1, <1>3, <1>5, <1>6, <1>7, <1>8, SearchFindsLeast, Zenon
<1> QED BY <1>5, <1>6, <1>7, <1>8, <1>9, Zenon DEF Window, Exact

\* find_earliest_slot is exact although it tries only the ends of reservations and
\* blackouts: no other boundary of the search window admits the request earlier.
THEOREM SearchIsExact == Spec => []QueueFindsEarliest
  BY AlwaysSafe, SafeFindsEarliest, PTL

-----------------------------------------------------------------------------
\* What an operation may do to a reservation that has begun.
Kept(r, x, t) ==
    /\ x.start = r.start /\ x.gpus = r.gpus /\ x.mode = r.mode /\ x.units = r.units
    /\ x.end >= Min({r.end, t})

\* An untouched record is kept.
LEMMA UnchangedIsKept ==
  ASSUME NEW r \in Reservation, NEW t \in Nat
  PROVE  Kept(r, r, t)
<1>1. r.end \in Nat BY Zenon DEF Reservation
<1> QED BY <1>1, MinOfTwo DEF Kept

\* edit_booking moves only the end of a started reservation, never before the present.
LEMMA EditKeepsStarted ==
  ASSUME Safe, NEW u \in Uid, NEW k \in Id, NEW q \in EditRequests, NEW o \in OpId \cup {None},
         EditBooking(u, k, q, o), NEW i \in Id, res[i].status = "active", res'[i].status = "active",
         res[i].start <= clock
  PROVE  Kept(res[i], res'[i], clock)
<1> DEFINE rs == Maintain(res, clock)
<1>1. clock \in Nat /\ Wellformed(res) /\ res[i] \in Reservation BY Zenon DEF Safe, Wellformed
<1>2. Wellformed(rs) /\ \A j \in Id : rs[j].status = "active" => rs[j] = res[j]
  BY <1>1, MaintainFacts, Zenon
<1>3. \/ res' = rs
      \/ /\ rs[k].status = "active"
         /\ IF Started(rs[k]) THEN EditStarted(rs, u, k, o, q) ELSE EditFuture(rs, u, k, o, q)
  BY Zenon DEF EditBooking
<1>4. rs \in [Id -> Reservation] BY <1>2, Zenon DEF Wellformed
<1> HIDE DEF rs
<1>5. CASE res'[i] = rs[i] BY <1>1, <1>2, <1>5, UnchangedIsKept, Zenon
<1>6. CASE i # k /\ res' # rs
  <2>1. \E new : Rewrite(rs, u, k, o, q, new) BY <1>3, <1>6, Zenon DEF EditStarted, EditFuture
  <2>2. res'[i] = rs[i] BY <2>1, <1>4, <1>6, Zenon DEF Rewrite
  <2> QED BY <2>2, <1>5, Zenon
<1>7. CASE i = k /\ res' # rs
  <2>1. rs[i] = res[i] BY <1>2, <1>3, <1>7, Zenon
  <2>2. EditStarted(rs, u, i, o, q) BY <1>3, <1>7, <2>1, Zenon DEF Started
  <2> DEFINE end == rs[i].start + q.duration
  <2>3. end > clock /\ Rewrite(rs, u, i, o, q, [rs[i] EXCEPT !.end = end]) BY <2>2, Zenon DEF EditStarted
  <2>4. end \in Nat
    <3>1. q.duration \in Nat BY <2>2, BookingAssumption, Zenon DEF EditStarted, IsEditRequest, IsDuration
    <3>2. rs[i].start \in Nat BY <1>4, Zenon DEF Reservation
    <3> QED BY <3>1, <3>2
  <2> HIDE DEF end
  <2>5. res'[i] = [[rs[i] EXCEPT !.end = end] EXCEPT !.edits = Append([rs[i] EXCEPT !.end = end].edits,
                        [op |-> o, sig |-> IF o = None THEN None ELSE <<i, q>>])]
    BY <2>3, <1>4, Zenon DEF Rewrite
  <2>6. /\ res'[i].start = rs[i].start /\ res'[i].gpus = rs[i].gpus /\ res'[i].mode = rs[i].mode
        /\ res'[i].units = rs[i].units /\ res'[i].end = end
    BY <2>5, <1>4, Zenon DEF Reservation
  <2>7. res[i].end \in Nat BY <1>1, Zenon DEF Reservation
  <2>8. end >= Min({res[i].end, clock}) BY <2>3, <2>4, <2>7, <1>1, MinOfTwo, SMTT(30)
  <2> QED BY <2>1, <2>6, <2>8, Zenon DEF Kept
<1> QED BY <1>5, <1>6, <1>7, Zenon

\* A cancellation touches no other record.
LEMMA CancelKeepsOthers ==
  ASSUME NEW STATE rs, Wellformed(rs), NEW k \in Id, rs[k].status = "active", NEW o,
         res' = Cancelled(rs, k, o), NEW i \in Id, res'[i].status = "active"
  PROVE  res'[i] = rs[i]
<1>1. rs \in [Id -> Reservation] BY Zenon DEF Wellformed
<1>2. res'[k].status = "cancelled" BY <1>1, Zenon DEF Cancelled, Retired, Reservation
<1>3. i # k BY <1>2, Zenon
<1> QED BY <1>1, <1>3, Zenon DEF Cancelled

\* No operation changes what a started reservation was given.
LEMMA StepKeepsStarted ==
  ASSUME Safe, Next, NEW i \in Id, res[i].status = "active", res'[i].status = "active",
         res[i].start <= clock
  PROVE  Kept(res[i], res'[i], clock)
<1>1. clock \in Nat /\ Wellformed(res) /\ res[i] \in Reservation BY Zenon DEF Safe, Wellformed
<1>2. /\ Wellformed(Maintain(res, clock)) /\ Wellformed(Expire(res, clock))
      /\ Maintain(res, clock)[i].status = "active" => Maintain(res, clock)[i] = res[i]
      /\ Expire(res, clock)[i].status = "active" => Expire(res, clock)[i] = res[i]
  BY <1>1, MaintainFacts, ExpireFacts, Zenon
<1>3. ASSUME res'[i] = Maintain(res, clock)[i] \/ res'[i] = Expire(res, clock)[i] \/ res' = res
      PROVE  Kept(res[i], res'[i], clock)
  BY <1>1, <1>2, <1>3, UnchangedIsKept, Zenon
<1>4. ASSUME NEW u \in Uid, NEW q \in Requests, NEW o \in OpId \cup {None}, AddBooking(u, q, o)
      PROVE  Kept(res[i], res'[i], clock)
  <2> DEFINE rs == Maintain(res, clock)
             s == IF q.queue THEN QueueStart(q.start, clock) ELSE q.start
  <2>1. res' = rs \/ Place(rs, u, q, o, s) BY <1>4, Zenon DEF AddBooking
  <2>2. CASE res' = rs BY <2>2, <1>3, Zenon
  <2>3. CASE Place(rs, u, q, o, s)
    <3>1. rs \in [Id -> Reservation] BY <1>2, Zenon DEF Wellformed
    <3> HIDE DEF rs, s
    <3>2. \E k \in Id : \E new : FreshId(k) /\ res' = [rs EXCEPT ![k] = new] BY <2>3, Zenon DEF Place
    <3>3. res'[i] = rs[i] BY <3>1, <3>2, Zenon DEF FreshId
    <3> QED BY <3>3, <1>3, Zenon DEF rs
  <2> QED BY <2>1, <2>2, <2>3, Zenon
<1>5. ASSUME NEW u \in Uid, NEW k \in Id, NEW o \in OpId \cup {None}, CancelBooking(u, k, o)
      PROVE  Kept(res[i], res'[i], clock)
  <2> DEFINE rs == Expire(res, clock)
  <2>1. res' = rs \/ (rs[k].status = "active" /\ res' = Cancelled(rs, k, o)) BY <1>5, Zenon DEF CancelBooking
  <2>2. res'[i] = rs[i]
    <3> HIDE DEF rs
    <3> QED BY <2>1, <1>2, CancelKeepsOthers, Zenon DEF rs
  <2> QED BY <2>2, <1>3, Zenon
<1>6. ASSUME NEW k \in Id, CancelBookingAsAdmin(k)
      PROVE  Kept(res[i], res'[i], clock)
  <2> DEFINE rs == Maintain(res, clock)
  <2>1. rs[k].status = "active" /\ res' = Cancelled(rs, k, None) BY <1>6, Zenon DEF CancelBookingAsAdmin
  <2>2. res'[i] = rs[i]
    <3>1. Wellformed(rs) BY <1>2, Zenon
    <3> HIDE DEF rs
    <3> QED BY <2>1, <3>1, CancelKeepsOthers, Zenon
  <2> QED BY <2>2, <1>3, Zenon
<1>7. CASE Tick BY <1>7, <1>3, Zenon DEF Tick
<1> QED BY <1>4, <1>5, <1>6, <1>7, EditKeepsStarted, Zenon DEF Next

\* Once a reservation has begun its start, GPUs, mode and share never change and it
\* is never ended in the past (edit_booking, and maintenance in every mutator).
THEOREM StartedNeverChanges == Spec => ElapsedIsImmutable
<1>1. ASSUME Safe, [Next]_vars
      PROVE  [\A i \in Id :
                {res[i].status, res'[i].status} = {"active"} /\ res[i].start <= clock =>
                    /\ res'[i].start = res[i].start /\ res'[i].gpus = res[i].gpus
                    /\ res'[i].mode = res[i].mode /\ res'[i].units = res[i].units
                    /\ res'[i].end >= Min({res[i].end, clock})]_vars
  <2>1. CASE UNCHANGED vars BY <2>1, Zenon
  <2>2. CASE Next
    <3>1. \A i \in Id : res[i].status = "active" /\ res'[i].status = "active" /\ res[i].start <= clock
                            => Kept(res[i], res'[i], clock)
      BY <1>1, <2>2, StepKeepsStarted, Zenon
    <3> QED BY <3>1, Zenon DEF Kept
  <2> QED BY <1>1, <2>1, <2>2, Zenon
<1> QED BY <1>1, AlwaysSafe, PTL DEF Spec, ElapsedIsImmutable

-----------------------------------------------------------------------------
(* Replay: an operation id is applied at most once.                        *)

\* Some record of the ledger remembers the operation.
Recorded(rs, k) == \E i \in Id : k \in Remembered(rs[i])

\* The inductive invariant of replay: an operation that was applied is remembered by a
\* record, or its record was purged.
AppliedOnce ==
    /\ wrote \in [Uid \X OpId -> Nat]
    /\ \A k \in Uid \X OpId : k \in forgotten \/ wrote[k] = 0 \/ (wrote[k] = 1 /\ Recorded(res, k))

\* The operation ids that a record remembers.
LEMMA RememberedOp ==
  ASSUME NEW r, NEW k
  PROVE  k \in Remembered(r) <=> \E o : /\ k = <<r.uid, o>> /\ o # None
                                        /\ \/ o = r.op \/ o = r.cancelOp
                                           \/ \E n \in DOMAIN r.edits : o = r.edits[n].op
  BY DEF Remembered

\* _find_applied_operation finds every operation that a record remembers.
LEMMA MissedIsUnrecorded ==
  ASSUME NEW rs, Wellformed(rs), NEW u, NEW o, o # None, Hits(rs, u, o) = {}
  PROVE  ~Recorded(rs, <<u, o>>)
<1> SUFFICES ASSUME NEW i \in Id, <<u, o>> \in Remembered(rs[i]) PROVE FALSE
  BY Zenon DEF Recorded
<1>1. Applied(rs, u, o) = {} BY Zenon DEF Hits
<1>2. /\ rs[i].uid = u
      /\ o = rs[i].op \/ o = rs[i].cancelOp \/ \E n \in DOMAIN rs[i].edits : o = rs[i].edits[n].op
  BY RememberedOp
<1>3. CASE o = rs[i].op
  <2>1. <<"create", i, rs[i].sig>> \in Applied(rs, u, o) BY <1>2, <1>3, Zenon DEF Applied
  <2> QED BY <2>1, <1>1, Zenon
<1>4. CASE o = rs[i].cancelOp
  <2>1. <<"cancel", i, None>> \in Applied(rs, u, o) BY <1>2, <1>4, Zenon DEF Applied
  <2> QED BY <2>1, <1>1, Zenon
<1>5. CASE \E n \in DOMAIN rs[i].edits : o = rs[i].edits[n].op
  <2>1. PICK n \in DOMAIN rs[i].edits : o = rs[i].edits[n].op BY <1>5, Zenon
  <2>2. rs[i].edits \in Seq(EditEntry) /\ Len(rs[i].edits) <= EditLimit
    BY Zenon DEF Wellformed, Reservation, Sound
  <2>3. n \in 1 .. EditLimit BY <2>1, <2>2, BookingAssumption, SMTT(30)
  <2> DEFINE y == <<i, n>>
  <2>4. y \in Id \X (1 .. EditLimit) /\ y[1] = i /\ y[2] = n BY <2>3, Zenon
  <2>5. <<"edit", y[1], rs[y[1]].edits[y[2]].sig>> \in Applied(rs, u, o)
    BY <1>2, <2>1, <2>4, Zenon DEF Applied
  <2> QED BY <2>5, <1>1, Zenon
<1> QED BY <1>2, <1>3, <1>4, <1>5, Zenon

\* Expiry forgets nothing.
LEMMA ExpireRemembers ==
  ASSUME NEW rs, NEW t, Wellformed(rs), NEW i \in Id
  PROVE  Remembered(Expire(rs, t)[i]) = Remembered(rs[i])
<1>1. rs[i] \in Reservation BY Zenon DEF Wellformed
<1>2. CASE Expire(rs, t)[i] = rs[i] BY <1>2, Zenon
<1>3. CASE Expire(rs, t)[i] = Retired(rs[i], "expired", rs[i].end)
  <2> DEFINE x == Retired(rs[i], "expired", rs[i].end)
  <2>1. x.uid = rs[i].uid /\ x.op = rs[i].op /\ x.cancelOp = rs[i].cancelOp /\ x.edits = rs[i].edits
    BY <1>1, Zenon DEF Retired, Reservation
  <2> QED BY <1>3, <2>1, SMTT(30) DEF Remembered
<1> QED BY <1>2, <1>3, Zenon DEF Expire

\* Only the retention window makes the ledger forget an operation.
LEMMA MaintainRemembers ==
  ASSUME Safe, NEW k, Forget(res, Maintain(res, clock)), Recorded(res, k)
  PROVE  k \in forgotten' \/ Recorded(Maintain(res, clock), k)
<1> DEFINE m == Maintain(res, clock)
           x == Expire(res, clock)
<1>1. clock \in Nat /\ Wellformed(res) BY Zenon DEF Safe
<1>2. PICK i \in Id : k \in Remembered(res[i]) BY Zenon DEF Recorded
<1>3. k \in Remembered(x[i]) BY <1>1, <1>2, ExpireRemembers, Zenon
<1>4. CASE Purgeable(x[i], clock)
  <2>1. m[i].status = "purged" BY <1>4, Zenon DEF Maintain, NoReservation
  <2>2. res[i].status # "purged"
    <3>1. res[i] \in Reservation BY <1>1, Zenon DEF Wellformed
    <3>2. x[i].status \in {"expired", "cancelled"} BY <1>4, Zenon DEF Purgeable
    <3>3. res[i].status = "purged" => x[i] = res[i] BY <1>1, ExpireFacts, Zenon
    <3> QED BY <3>2, <3>3, Zenon
  <2>3. k \in UNION {Remembered(res[j]) : j \in {h \in Id :
                        m[h].status = "purged" /\ res[h].status # "purged"}}
    BY <1>2, <2>1, <2>2, Zenon
  <2> QED BY <2>3, Zenon DEF Forget
<1>5. CASE ~Purgeable(x[i], clock)
  <2>1. m[i] = x[i] BY <1>5, Zenon DEF Maintain
  <2> QED BY <1>3, <2>1, Zenon DEF Recorded
<1> QED BY <1>4, <1>5, Zenon

\* A call that applies nothing and loses no memory keeps the invariant.
LEMMA UnwrittenAppliedOnce ==
  ASSUME AppliedOnce, forgotten \subseteq forgotten', wrote' = wrote,
         \A k \in Uid \X OpId : Recorded(res, k) => k \in forgotten' \/ Recorded(res', k)
  PROVE  AppliedOnce'
  BY Zenon DEF AppliedOnce, Recorded

\* A write of an operation that nothing remembered keeps it.
LEMMA WrittenAppliedOnce ==
  ASSUME AppliedOnce, forgotten \subseteq forgotten', NEW u \in Uid, NEW o \in OpId \cup {None},
         \A k \in Uid \X OpId : Recorded(res, k) => k \in forgotten' \/ Recorded(res', k),
         CountWrite(u, o),
         o # None => /\ Recorded(res, <<u, o>>) => <<u, o>> \in forgotten'
                     /\ Recorded(res', <<u, o>>)
  PROVE  AppliedOnce'
<1>1. wrote \in [Uid \X OpId -> Nat] BY Zenon DEF AppliedOnce
<1>2. CASE o = None BY <1>2, UnwrittenAppliedOnce, Zenon DEF CountWrite
<1>3. CASE o # None
  <2> DEFINE k0 == <<u, o>>
  <2>1. k0 \in Uid \X OpId /\ wrote' = [wrote EXCEPT ![k0] = wrote[k0] + 1] BY <1>3, Zenon DEF CountWrite
  <2>2. wrote' \in [Uid \X OpId -> Nat] BY <1>1, <2>1
  <2>3. (Recorded(res, k0) => k0 \in forgotten') /\ Recorded(res', k0) BY <1>3, Zenon
  <2> HIDE DEF k0
  <2>4. ASSUME NEW k \in Uid \X OpId, k \notin forgotten'
        PROVE  wrote'[k] = 0 \/ (wrote'[k] = 1 /\ Recorded(res', k))
    <3>1. k \notin forgotten BY <2>4, Zenon
    <3>2. CASE k = k0
      <4>1. wrote[k] = 0 BY <2>3, <2>4, <3>1, <3>2, Zenon DEF AppliedOnce
      <4> QED BY <4>1, <3>2, <2>1, <2>3, <1>1
    <3>3. CASE k # k0
      <4>1. wrote'[k] = wrote[k] BY <3>3, <2>1, <1>1, Zenon
      <4> QED BY <4>1, <2>4, <3>1, Zenon DEF AppliedOnce
    <3> QED BY <3>2, <3>3, Zenon
  <2> QED BY <2>2, <2>4, Zenon DEF AppliedOnce, Recorded
<1> QED BY <1>2, <1>3, Zenon

-----------------------------------------------------------------------------
\* Nothing has been applied at first.
LEMMA InitApplied == Init => AppliedOnce
<1> SUFFICES ASSUME Init PROVE AppliedOnce BY Zenon
<1>1. wrote = [k \in Uid \X OpId |-> 0] BY Zenon DEF Init
<1> QED BY <1>1, Zenon DEF AppliedOnce

\* A rewritten record that remembers what it did keeps every operation recorded.
LEMMA RecordedInUpdate ==
  ASSUME NEW rs, Wellformed(rs), NEW i \in Id, NEW new, Remembered(rs[i]) \subseteq Remembered(new),
         NEW k
  PROVE  /\ Recorded(rs, k) => Recorded([rs EXCEPT ![i] = new], k)
         /\ k \in Remembered(new) => Recorded([rs EXCEPT ![i] = new], k)
<1> DEFINE x == [rs EXCEPT ![i] = new]
<1>1. rs \in [Id -> Reservation] BY Zenon DEF Wellformed
<1>2. x[i] = new /\ \A j \in Id \ {i} : x[j] = rs[j] BY <1>1, Zenon
<1> HIDE DEF x
<1>3. Recorded(rs, k) => Recorded(x, k) /\ (k \in Remembered(new) => Recorded(x, k)) BY <1>2, Zenon DEF Recorded
<1>4. k \in Remembered(new) => Recorded(x, k) BY <1>2, Zenon DEF Recorded
<1> QED BY <1>3, <1>4, Zenon DEF x

\* A write that first looked up its operation id and then records it.
LEMMA WriteAppliedOnce ==
  ASSUME AppliedOnce, forgotten \subseteq forgotten', NEW STATE rs, Wellformed(rs),
         \A k \in Uid \X OpId : Recorded(res, k) => k \in forgotten' \/ Recorded(rs, k),
         NEW u \in Uid, NEW o \in OpId \cup {None}, NEW i \in Id, NEW new,
         Hits(rs, u, o) = {}, CountWrite(u, o), res' = [rs EXCEPT ![i] = new],
         Remembered(rs[i]) \subseteq Remembered(new), o # None => <<u, o>> \in Remembered(new)
  PROVE  AppliedOnce'
<1>1. \A k \in Uid \X OpId : Recorded(res, k) => k \in forgotten' \/ Recorded(res', k)
  BY RecordedInUpdate, Zenon
<1>2. ASSUME o # None
      PROVE  (Recorded(res, <<u, o>>) => <<u, o>> \in forgotten') /\ Recorded(res', <<u, o>>)
  <2>1. <<u, o>> \in Uid \X OpId BY <1>2, Zenon
  <2>2. ~Recorded(rs, <<u, o>>) BY <1>2, MissedIsUnrecorded, Zenon
  <2>3. Recorded(res', <<u, o>>) BY <1>2, RecordedInUpdate, Zenon
  <2> QED BY <2>1, <2>2, <2>3, Zenon
<1> QED BY <1>1, <1>2, WrittenAppliedOnce, Zenon

\* Forgotten operations stay forgotten.
LEMMA ForgetGrows ==
  ASSUME NEW STATE rs, Forget(res, rs) PROVE forgotten \subseteq forgotten'
  BY Zenon DEF Forget

\* add_booking applies an operation id at most once.
LEMMA AddApplied ==
  ASSUME Safe, AppliedOnce, NEW u \in Uid, NEW q \in Requests, NEW o \in OpId \cup {None},
         AddBooking(u, q, o)
  PROVE  AppliedOnce'
<1> DEFINE rs == Maintain(res, clock)
           s == IF q.queue THEN QueueStart(q.start, clock) ELSE q.start
<1>1. clock \in Nat /\ Wellformed(res) BY Zenon DEF Safe
<1>2. Wellformed(rs) /\ \A i \in Id : res[i].status = "unused" => rs[i] = res[i]
  BY <1>1, MaintainFacts, Zenon
<1>3. /\ Forget(res, rs)
      /\ (res' = rs /\ wrote' = wrote) \/ (Hits(rs, u, o) = {} /\ Place(rs, u, q, o, s))
  BY Zenon DEF AddBooking
<1>4. \A k : Recorded(res, k) => k \in forgotten' \/ Recorded(rs, k)
  BY <1>3, MaintainRemembers, Zenon
<1>5. forgotten \subseteq forgotten' BY <1>3, ForgetGrows, Zenon
<1> HIDE DEF rs, s
<1>6. CASE res' = rs /\ wrote' = wrote BY <1>4, <1>5, <1>6, UnwrittenAppliedOnce, Zenon
<1>7. CASE Hits(rs, u, o) = {} /\ Place(rs, u, q, o, s)
  <2>1. PICK i \in Id, p \in Placements(rs, clock', q.pick, q.mode, ShareUnits(q.mode, q.units),
                                        s, q.duration, q.queue) :
          /\ FreshId(i)
          /\ res' = [rs EXCEPT ![i] =
               [NoReservation EXCEPT
                  !.status = "active", !.uid = u, !.gpus = p[2], !.mode = q.mode,
                  !.units = q.units, !.start = p[1], !.end = p[1] + q.duration,
                  !.op = o, !.sig = IF o = None THEN None ELSE CreateSignature(q)]]
    BY <1>7, Zenon DEF Place
  <2> DEFINE new == [NoReservation EXCEPT
                  !.status = "active", !.uid = u, !.gpus = p[2], !.mode = q.mode,
                  !.units = q.units, !.start = p[1], !.end = p[1] + q.duration,
                  !.op = o, !.sig = IF o = None THEN None ELSE CreateSignature(q)]
  <2>2. new.uid = u /\ new.op = o BY Zenon DEF NoReservation
  <2>3. CountWrite(u, o) BY <1>7, Zenon DEF Place
  <2> HIDE DEF new
  <2>4. FreshId(i) /\ res' = [rs EXCEPT ![i] = new] BY <2>1, Zenon DEF new
  <2>5. Remembered(rs[i]) = {}
    <3>1. rs[i].status = "unused" BY <1>2, <2>4, Zenon DEF FreshId
    <3>2. rs[i].op = None /\ rs[i].cancelOp = None /\ rs[i].edits = <<>>
      BY <3>1, <1>2, Zenon DEF Wellformed, Sound
    <3> QED BY <3>2 DEF Remembered
  <2>6. o # None => <<u, o>> \in Remembered(new) BY <2>2, Zenon DEF Remembered
  <2> QED BY <1>2, <1>4, <1>5, <1>7, <2>3, <2>4, <2>5, <2>6, WriteAppliedOnce, Zenon
<1> QED BY <1>3, <1>6, <1>7, Zenon

\* _append_edit_history records the operation beside the earlier ones.
LEMMA RewriteApplied ==
  ASSUME AppliedOnce, forgotten \subseteq forgotten', NEW STATE rs, Wellformed(rs),
         \A k \in Uid \X OpId : Recorded(res, k) => k \in forgotten' \/ Recorded(rs, k),
         NEW u \in Uid, NEW o \in OpId \cup {None}, NEW i \in Id, rs[i].uid = u,
         Hits(rs, u, o) = {}, CountWrite(u, o), NEW x, res' = [rs EXCEPT ![i] = x],
         NEW e, e.op = o, x.edits = Append(rs[i].edits, e),
         x.uid = u, x.op = rs[i].op, x.cancelOp = rs[i].cancelOp
  PROVE  AppliedOnce'
<1> DEFINE old == rs[i].edits
<1>1. old \in Seq(EditEntry) BY Zenon DEF Wellformed, Reservation
<1>2. /\ DOMAIN x.edits = 1 .. Len(old) + 1 /\ DOMAIN old = 1 .. Len(old) /\ Len(old) \in Nat
      /\ x.edits[Len(old) + 1] = e /\ \A n \in DOMAIN old : x.edits[n] = old[n]
  BY <1>1
<1> HIDE DEF old
<1>3. Remembered(rs[i]) \subseteq Remembered(x)
  BY <1>2, SMTT(30) DEF Remembered, old
<1>4. o # None => <<u, o>> \in Remembered(x)
  <2>1. Len(old) + 1 \in DOMAIN x.edits /\ x.edits[Len(old) + 1].op = o BY <1>2
  <2> QED BY <2>1, Zenon DEF Remembered
<1> QED BY <1>3, <1>4, WriteAppliedOnce, Zenon

\* edit_booking applies an operation id at most once.
LEMMA EditApplied ==
  ASSUME Safe, AppliedOnce, NEW u \in Uid, NEW i \in Id, NEW q \in EditRequests,
         NEW o \in OpId \cup {None}, EditBooking(u, i, q, o)
  PROVE  AppliedOnce'
<1> DEFINE rs == Maintain(res, clock)
<1>1. clock \in Nat /\ Wellformed(res) BY Zenon DEF Safe
<1>2. Wellformed(rs) BY <1>1, MaintainFacts, Zenon
<1>3. /\ Forget(res, rs)
      /\ \/ res' = rs /\ wrote' = wrote
         \/ /\ Hits(rs, u, o) = {} /\ rs[i].uid = u
            /\ EditStarted(rs, u, i, o, q) \/ EditFuture(rs, u, i, o, q)
  BY Zenon DEF EditBooking
<1>4. \A k : Recorded(res, k) => k \in forgotten' \/ Recorded(rs, k)
  BY <1>3, MaintainRemembers, Zenon
<1>5. forgotten \subseteq forgotten' BY <1>3, ForgetGrows, Zenon
<1> HIDE DEF rs
<1> DEFINE r == rs[i]
           e == [op |-> o, sig |-> IF o = None THEN None ELSE <<i, q>>]
<1>6. r \in Reservation BY <1>2, Zenon DEF Wellformed
<1>7. ASSUME NEW x, res' = [rs EXCEPT ![i] = x], CountWrite(u, o), Hits(rs, u, o) = {}, r.uid = u,
             x.uid = r.uid, x.op = r.op, x.cancelOp = r.cancelOp, x.edits = Append(r.edits, e)
      PROVE  AppliedOnce'
  <2>1. e.op = o BY Zenon
  <2> HIDE DEF e
  <2> QED BY <1>2, <1>4, <1>5, <1>7, <2>1, RewriteApplied, Zenon
<1>8. CASE res' = rs /\ wrote' = wrote BY <1>4, <1>5, <1>8, UnwrittenAppliedOnce, Zenon
<1>9. CASE EditStarted(rs, u, i, o, q) /\ Hits(rs, u, o) = {} /\ r.uid = u
  <2> DEFINE end == r.start + q.duration
             new == [r EXCEPT !.end = end]
             x == [new EXCEPT !.edits = Append(new.edits, e)]
  <2>1. res' = [rs EXCEPT ![i] = x] /\ CountWrite(u, o) BY <1>9, Zenon DEF EditStarted, Rewrite
  <2> HIDE DEF end, e
  <2>2. x.uid = r.uid /\ x.op = r.op /\ x.cancelOp = r.cancelOp /\ x.edits = Append(r.edits, e)
    BY <1>6, Zenon DEF Reservation
  <2> HIDE DEF x
  <2> QED BY <1>7, <1>9, <2>1, <2>2, Zenon
<1>10. CASE EditFuture(rs, u, i, o, q) /\ Hits(rs, u, o) = {} /\ r.uid = u
  <2> DEFINE mode == IF q.mode = None THEN r.mode ELSE q.mode
             units == IF q.units # None THEN q.units
                      ELSE IF mode = "shared" /\ r.mode = "shared" THEN r.units
                      ELSE ShareUnits(mode, 1)
             d == IF q.duration = None THEN r.end - r.start ELSE q.duration
             New(p) == [r EXCEPT !.gpus = p[2], !.mode = mode, !.start = p[1], !.end = p[1] + d,
                                 !.units = StoredUnits(mode, units)]
  <2>1. PICK p : Rewrite(rs, u, i, o, q, New(p)) BY <1>10, ZenonT(30) DEF EditFuture
  <2> DEFINE x == [New(p) EXCEPT !.edits = Append(New(p).edits, e)]
  <2>2. res' = [rs EXCEPT ![i] = x] /\ CountWrite(u, o) BY <2>1, Zenon DEF Rewrite
  <2> HIDE DEF mode, units, d, e
  <2>3. x.uid = r.uid /\ x.op = r.op /\ x.cancelOp = r.cancelOp /\ x.edits = Append(r.edits, e)
    BY <1>6, Zenon DEF Reservation
  <2> HIDE DEF x
  <2> QED BY <1>7, <1>10, <2>2, <2>3, Zenon
<1> QED BY <1>3, <1>8, <1>9, <1>10, Zenon

\* A cancellation adds its operation id: an active record had none in that place.
LEMMA CancelledRemembers ==
  ASSUME NEW r \in Reservation, Sound(r), r.status = "active", NEW t, NEW o
  PROVE  LET new == [Retired(r, "cancelled", t) EXCEPT !.cancelOp = o]
         IN  /\ Remembered(r) \subseteq Remembered(new)
             /\ o # None => <<r.uid, o>> \in Remembered(new)
<1> DEFINE new == [Retired(r, "cancelled", t) EXCEPT !.cancelOp = o]
<1>1. new.uid = r.uid /\ new.op = r.op /\ new.cancelOp = o /\ new.edits = r.edits
  BY Zenon DEF Retired, Reservation
<1>2. r.cancelOp = None BY Zenon DEF Sound
<1> HIDE DEF new
<1>3. Remembered(r) \subseteq Remembered(new) /\ (o # None => <<r.uid, o>> \in Remembered(new))
  BY <1>1, <1>2, Zenon DEF Remembered
<1> QED BY <1>3, Zenon DEF new

\* cancel_booking applies an operation id at most once.
LEMMA CancelApplied ==
  ASSUME Safe, AppliedOnce, NEW u \in Uid, NEW i \in Id, NEW o \in OpId \cup {None},
         CancelBooking(u, i, o)
  PROVE  AppliedOnce'
<1> DEFINE rs == Expire(res, clock)
<1>1. clock \in Nat /\ Wellformed(res) BY Zenon DEF Safe
<1>2. Wellformed(rs) BY <1>1, ExpireFacts, Zenon
<1>3. /\ forgotten' = forgotten
      /\ \/ res' = rs /\ wrote' = wrote
         \/ /\ Hits(rs, u, o) = {} /\ rs[i].status = "active" /\ rs[i].uid = u
            /\ res' = Cancelled(rs, i, o) /\ CountWrite(u, o)
  BY Zenon DEF CancelBooking
<1>4. \A k : Recorded(res, k) => Recorded(rs, k) BY <1>1, ExpireRemembers, Zenon DEF Recorded
<1> HIDE DEF rs
<1>5. CASE res' = rs /\ wrote' = wrote BY <1>3, <1>4, <1>5, UnwrittenAppliedOnce, Zenon
<1>6. CASE /\ Hits(rs, u, o) = {} /\ rs[i].status = "active" /\ rs[i].uid = u
           /\ res' = Cancelled(rs, i, o) /\ CountWrite(u, o)
  <2> DEFINE new == [Retired(rs[i], "cancelled", clock) EXCEPT !.cancelOp = o]
  <2>1. rs[i] \in Reservation /\ Sound(rs[i]) /\ rs \in [Id -> Reservation] BY <1>2, Zenon DEF Wellformed
  <2>2. res' = [rs EXCEPT ![i] = new] BY <1>6, <2>1, Zenon DEF Cancelled
  <2>3. Remembered(rs[i]) \subseteq Remembered(new) /\ (o # None => <<u, o>> \in Remembered(new))
    BY <1>6, <2>1, CancelledRemembers, Zenon
  <2> HIDE DEF new
  <2> QED BY <1>2, <1>3, <1>4, <1>6, <2>2, <2>3, WriteAppliedOnce, Zenon
<1> QED BY <1>3, <1>5, <1>6, Zenon

\* cancel_booking_as_admin forgets no operation id but those retention drops.
LEMMA AdminCancelApplied ==
  ASSUME Safe, AppliedOnce, NEW i \in Id, CancelBookingAsAdmin(i)
  PROVE  AppliedOnce'
<1> DEFINE rs == Maintain(res, clock)
           new == [Retired(rs[i], "cancelled", clock) EXCEPT !.cancelOp = None]
<1>1. clock \in Nat /\ Wellformed(res) BY Zenon DEF Safe
<1>2. Wellformed(rs) BY <1>1, MaintainFacts, Zenon
<1>3. /\ Forget(res, rs) /\ rs[i].status = "active" /\ res' = Cancelled(rs, i, None)
      /\ wrote' = wrote
  BY Zenon DEF CancelBookingAsAdmin
<1>4. \A k : Recorded(res, k) => k \in forgotten' \/ Recorded(rs, k)
  BY <1>3, MaintainRemembers, Zenon
<1>5. forgotten \subseteq forgotten' BY <1>3, ForgetGrows, Zenon
<1> HIDE DEF rs
<1>6. rs[i] \in Reservation /\ Sound(rs[i]) /\ rs \in [Id -> Reservation] BY <1>2, Zenon DEF Wellformed
<1>7. res' = [rs EXCEPT ![i] = new] BY <1>3, <1>6, Zenon DEF Cancelled
<1>8. Remembered(rs[i]) \subseteq Remembered(new) BY <1>3, <1>6, CancelledRemembers, Zenon
<1> HIDE DEF new
<1>9. \A k : Recorded(rs, k) => Recorded(res', k) BY <1>2, <1>7, <1>8, RecordedInUpdate, Zenon
<1> QED BY <1>3, <1>4, <1>5, <1>9, UnwrittenAppliedOnce, Zenon

\* Every operation keeps the invariant.
LEMMA NextApplied == Safe /\ AppliedOnce /\ [Next]_vars => AppliedOnce'
<1> SUFFICES ASSUME Safe, AppliedOnce, [Next]_vars PROVE AppliedOnce' BY Zenon
<1>1. CASE UNCHANGED vars BY <1>1, Zenon DEF AppliedOnce, Recorded, vars
<1>2. CASE Tick BY <1>2, Zenon DEF Tick, AppliedOnce, Recorded
<1> QED BY <1>1, <1>2, AddApplied, AdminCancelApplied, EditApplied, CancelApplied, Zenon DEF Next

\* An applied operation stays remembered until retention drops its record.
THEOREM AlwaysAppliedOnce == Spec => []AppliedOnce
  BY InitApplied, NextApplied, AlwaysSafe, PTL DEF Spec

\* An operation id takes effect at most once while the ledger retains its record,
\* whichever of add, edit and cancel it is retried as.
THEOREM AtMostOnce == Spec => []OncePerOperation
<1>1. AppliedOnce => OncePerOperation BY DEF AppliedOnce, OncePerOperation
<1> QED BY <1>1, AlwaysAppliedOnce, PTL

=============================================================================
