------------------------- MODULE Arrangements_proofs -------------------------
(*****************************************************************************)
(* Lemmas about the arrangement of sections in a memory image, for every     *)
(* width of offsets: what operator [] finds in a RangeSet and what insert    *)
(* does to one whose ranges neither overlap nor touch, where NextFit places  *)
(* a section, and what Allocate keeps.                                       *)
(*                                                                           *)
(* NextFit is a recursive function: LeastNatural stands in for induction,    *)
(* applied to the set of counterexamples.                                    *)
(*****************************************************************************)
EXTENDS Arrangements, WellFoundedInduction, TLAPS

-------------------------------------------------------------------------------
(* Sets of ranges.                                                           *)

\* Canonical for any set of ranges.
IsCanonical(ranges) ==
    /\ \A s \in ranges : s.lower <= s.upper
    /\ \A s, t \in ranges : s # t => s.upper + 1 < t.lower \/ t.upper + 1 < s.lower

(* A non-empty set of naturals has a least element.                          *)
LEMMA LeastNatural ==
    ASSUME NEW T \in SUBSET Nat, T # {}
    PROVE  \E m \in T : \A n \in T : m <= n
<1>1. PICK m \in T : \A n \in T : ~(<<n, m>> \in OpToRel(<, Nat))
  BY NatLessThanWellFounded, WFMin
<1>2. ASSUME NEW n \in T, n < m
      PROVE  <<n, m>> \in OpToRel(<, Nat)
  <2>1. <<n, m>> \in Nat \X Nat /\ <<n, m>>[1] < <<n, m>>[2]
    BY <1>2
  <2> QED
    BY <2>1, Zenon DEF OpToRel
<1>3. \A n \in T : ~(n < m)
  BY <1>1, <1>2
<1> QED
  BY <1>3

(* A non-empty set of values has a greatest element.                         *)
LEMMA GreatestValue ==
    ASSUME NEW T \in SUBSET Value, T # {}
    PROVE  \E m \in T : \A n \in T : n <= m
<1> DEFINE U == {Modulus - t : t \in T}
<1>1. U \in SUBSET Nat /\ U # {}
  <2>1. \A t \in T : Modulus - t \in Nat
    BY ModulusAssumption DEF Value
  <2> QED
    BY <2>1
<1>2. PICK u \in U : \A w \in U : u <= w
  BY <1>1, LeastNatural
<1>3. PICK m \in T : u = Modulus - m
  BY <1>2
<1>4. \A n \in T : Modulus - m <= Modulus - n
  BY <1>2, <1>3
<1> QED
  BY <1>4, ModulusAssumption DEF Value

(* Whenever some range starts at or below a value, the last of them is the   *)
(* one Before finds.                                                         *)
LEMMA BeforeExists ==
    ASSUME NEW ranges \in SUBSET Interval, NEW v \in Value,
           NEW r \in ranges, r.lower <= v
    PROVE  \E s \in Before(ranges, v) : r.lower <= s.lower
<1> DEFINE T == {l \in Value : l <= v /\ \E s \in ranges : s.lower = l}
<1>1. r.lower \in T
  BY DEF Interval
<1>2. PICK m \in T : \A n \in T : n <= m
  BY <1>1, GreatestValue
<1>3. PICK s \in ranges : s.lower = m
  BY <1>2
<1>4. \A t \in ranges : t.lower <= v => t.lower <= s.lower
  BY <1>2, <1>3 DEF Interval
<1> QED
  BY <1>1, <1>2, <1>3, <1>4 DEF Before

(* Whenever some range starts above a value, the first of them is the one    *)
(* After finds.                                                              *)
LEMMA AfterExists ==
    ASSUME NEW ranges \in SUBSET Interval, NEW v \in Value,
           NEW r \in ranges, v < r.lower
    PROVE  \E s \in After(ranges, v) : s.lower <= r.lower
<1> DEFINE T == {l \in Value : v < l /\ \E s \in ranges : s.lower = l}
<1>1. r.lower \in T /\ T \in SUBSET Nat
  BY ModulusAssumption DEF Interval, Value
<1>2. PICK m \in T : \A n \in T : m <= n
  BY <1>1, LeastNatural
<1>3. PICK s \in ranges : s.lower = m
  BY <1>2
<1>4. \A t \in ranges : v < t.lower => s.lower <= t.lower
  BY <1>2, <1>3 DEF Interval
<1> QED
  BY <1>1, <1>2, <1>3, <1>4 DEF After

(* operator [] of a canonical set finds every range that meets the given     *)
(* one, although it only looks at the two neighbours of its lower bound.     *)
LEMMA OverlapsMeets ==
    ASSUME NEW ranges \in SUBSET Interval, IsCanonical(ranges),
           NEW range \in Interval, range.lower <= range.upper
    PROVE  Overlaps(ranges, range)
             <=> \E s \in ranges : s.lower <= range.upper /\ range.lower <= s.upper
<1>0. /\ range.lower \in Int /\ range.upper \in Int /\ range.lower \in Value
      /\ \A s \in ranges : s.lower \in Int /\ s.upper \in Int /\ s.lower <= s.upper
  BY ModulusAssumption DEF Interval, Value, IsCanonical
<1>1. ASSUME Overlaps(ranges, range)
      PROVE  \E s \in ranges : s.lower <= range.upper /\ range.lower <= s.upper
  <2>1. CASE \E s \in After(ranges, range.lower) : s.lower <= range.upper
    BY <1>0, <2>1 DEF After
  <2>2. CASE \E s \in Before(ranges, range.lower) : s.upper >= range.lower
    BY <1>0, <2>2 DEF Before
  <2> QED
    BY <1>1, <2>1, <2>2 DEF Overlaps
<1>2. ASSUME NEW s \in ranges, s.lower <= range.upper, range.lower <= s.upper
      PROVE  Overlaps(ranges, range)
  <2>1. CASE s.lower <= range.lower
    <3>1. PICK t \in Before(ranges, range.lower) : s.lower <= t.lower
      BY <1>0, <2>1, BeforeExists
    <3>2. t \in ranges /\ t.upper >= range.lower
      BY <1>0, <1>2, <3>1 DEF Before, IsCanonical
    <3> QED
      BY <3>1, <3>2 DEF Overlaps
  <2>2. CASE range.lower < s.lower
    <3>1. PICK t \in After(ranges, range.lower) : t.lower <= s.lower
      BY <1>0, <2>2, AfterExists
    <3>2. t \in ranges /\ t.lower <= range.upper
      BY <1>0, <1>2, <3>1 DEF After
    <3> QED
      BY <3>1, <3>2 DEF Overlaps
  <2> QED
    BY <1>0, <2>1, <2>2
<1> QED
  BY <1>1, <1>2

(* A range that meets none of a canonical set is joined with the one that    *)
(* ends right before it and the one that starts right after it, if any;      *)
(* nothing is erased.                                                        *)
LEMMA InsertNeighbours ==
    ASSUME NEW ranges \in SUBSET Interval, IsCanonical(ranges),
           NEW range \in Interval, range.lower <= range.upper,
           ~Overlaps(ranges, range)
    PROVE  /\ \A s \in ranges : s.upper < range.lower \/ range.upper < s.lower
           /\ Erased(ranges, range) = {}
           /\ Joined(ranges, range) = {s \in ranges : s.upper + 1 = range.lower}
           /\ Touching(ranges, range) = {s \in ranges : s.lower = range.upper + 1}
<1>0. /\ range.lower \in 0 .. Modulus - 1 /\ range.upper \in 0 .. Modulus - 1
      /\ \A s \in ranges : /\ s.lower \in 0 .. Modulus - 1
                           /\ s.upper \in 0 .. Modulus - 1
                           /\ s.lower <= s.upper
      /\ Modulus \in Nat
  BY ModulusAssumption DEF Interval, Value, IsCanonical
<1>1. \A s \in ranges : s.upper < range.lower \/ range.upper < s.lower
  BY <1>0, OverlapsMeets
<1>2. Erased(ranges, range) = {}
  BY <1>0, <1>1 DEF Erased
<1>3. \A v \in 0 .. Modulus - 1 :
         /\ v + 1 < Modulus => Increment(v) = v + 1
         /\ v + 1 = Modulus => Increment(v) = 0
  BY <1>0 DEF Increment
<1>4. Joined(ranges, range) = {s \in ranges : s.upper + 1 = range.lower}
  <2>1. ASSUME NEW s \in Joined(ranges, range)
        PROVE  s \in ranges /\ s.upper + 1 = range.lower
    <3>1. s \in ranges /\ s.lower <= range.lower /\ range.lower <= Increment(s.upper)
      BY DEF Joined, Before
    <3>2. s.upper < range.lower
      BY <1>0, <1>1, <3>1
    <3> QED
      BY <1>0, <1>3, <3>1, <3>2
  <2>2. ASSUME NEW s \in ranges, s.upper + 1 = range.lower
        PROVE  s \in Joined(ranges, range)
    <3>1. \A t \in ranges : t.lower <= range.lower => t.lower <= s.lower
      BY <1>0, <2>2 DEF IsCanonical
    <3>2. s.lower <= range.lower /\ range.lower <= Increment(s.upper)
      BY <1>0, <1>3, <2>2
    <3> QED
      BY <3>1, <3>2 DEF Joined, Before
  <2> QED
    BY <2>1, <2>2 DEF Joined, Before
<1>5. Touching(ranges, range) = {s \in ranges : s.lower = range.upper + 1}
  <2>0. Touching(ranges, range) =
          {s \in After(ranges, range.lower) : s.lower <= Increment(range.upper)}
    BY <1>2 DEF Touching
  <2>1. ASSUME NEW s \in Touching(ranges, range)
        PROVE  s \in ranges /\ s.lower = range.upper + 1
    <3>1. s \in ranges /\ range.lower < s.lower /\ s.lower <= Increment(range.upper)
      BY <2>0 DEF After
    <3>2. range.upper < s.lower
      BY <1>0, <1>1, <3>1
    <3> QED
      BY <1>0, <1>3, <3>1, <3>2
  <2>2. ASSUME NEW s \in ranges, s.lower = range.upper + 1
        PROVE  s \in Touching(ranges, range)
    <3>1. \A t \in ranges : range.lower < t.lower => s.lower <= t.lower
      BY <1>0, <1>1, <2>2
    <3>2. range.lower < s.lower /\ s.lower <= Increment(range.upper)
      BY <1>0, <1>3, <2>2
    <3> QED
      BY <2>0, <3>1, <3>2 DEF After
  <2> QED
    BY <2>0, <2>1, <2>2 DEF After
<1> QED
  BY <1>1, <1>2, <1>4, <1>5

(* Inserting such a range keeps the set canonical and adds exactly the       *)
(* values of the range to those the set stands for.                          *)
LEMMA InsertAdds ==
    ASSUME NEW ranges \in SUBSET Interval, IsCanonical(ranges),
           NEW range \in Interval, range.lower <= range.upper,
           ~Overlaps(ranges, range)
    PROVE  /\ Insert(ranges, range) \in SUBSET Interval
           /\ IsCanonical(Insert(ranges, range))
           /\ Cover(Insert(ranges, range))
                = Cover(ranges) \cup {v \in Value : Holds(range, v)}
<1> DEFINE J == {s \in ranges : s.upper + 1 = range.lower}
           T == {s \in ranges : s.lower = range.upper + 1}
           m == Merged(ranges, range)
           rest == ranges \ (J \cup T)
<1>0. /\ range.lower \in 0 .. Modulus - 1 /\ range.upper \in 0 .. Modulus - 1
      /\ \A s \in ranges : /\ s.lower \in 0 .. Modulus - 1
                           /\ s.upper \in 0 .. Modulus - 1
                           /\ s.lower <= s.upper
      /\ Modulus \in Nat
  BY ModulusAssumption DEF Interval, Value, IsCanonical
<1>1. /\ \A s \in ranges : s.upper < range.lower \/ range.upper < s.lower
      /\ Erased(ranges, range) = {}
      /\ Joined(ranges, range) = J
      /\ Touching(ranges, range) = T
  BY InsertNeighbours
<1>2. \A s, t \in ranges : s # t => s.upper + 1 < t.lower \/ t.upper + 1 < s.lower
  BY DEF IsCanonical
<1>3. /\ J = {} => m.lower = range.lower
      /\ \A j \in J : m.lower = j.lower
  <2>1. m.lower = IF J = {} THEN range.lower ELSE (CHOOSE s \in J : TRUE).lower
    BY <1>1 DEF Merged
  <2>2. \A i, j \in J : i = j
    BY <1>0, <1>2
  <2> HIDE DEF J
  <2> QED
    BY <2>1, <2>2
<1>4. /\ T = {} => m.upper = range.upper
      /\ \A t \in T : m.upper = t.upper
  <2>1. m.upper = IF T = {} THEN range.upper ELSE (CHOOSE s \in T : TRUE).upper
    BY <1>1 DEF Merged
  <2>2. \A i, j \in T : i = j
    BY <1>0, <1>2
  <2> HIDE DEF T
  <2> QED
    BY <2>1, <2>2
<1>5. m = [lower |-> m.lower, upper |-> m.upper]
  BY DEF Merged
<1> HIDE DEF m
<1>6. /\ m.lower \in 0 .. Modulus - 1 /\ m.upper \in 0 .. Modulus - 1
      /\ m.lower <= range.lower /\ range.upper <= m.upper
  <2>1. m.lower \in 0 .. Modulus - 1 /\ m.lower <= range.lower
    BY <1>0, <1>3
  <2>2. m.upper \in 0 .. Modulus - 1 /\ range.upper <= m.upper
    BY <1>0, <1>4
  <2> QED
    BY <2>1, <2>2
<1>7. \A s \in rest : s.upper + 1 < m.lower \/ m.upper + 1 < s.lower
  <2> SUFFICES ASSUME NEW s \in rest
               PROVE  s.upper + 1 < m.lower \/ m.upper + 1 < s.lower
    OBVIOUS
  <2>1. CASE s.upper < range.lower
    <3>1. s.upper + 1 < range.lower
      BY <1>0, <2>1
    <3>2. CASE J = {}
      BY <1>3, <3>1, <3>2
    <3>3. ASSUME NEW j \in J PROVE s.upper + 1 < m.lower
      BY <1>0, <1>2, <1>3, <3>1
    <3> QED
      BY <3>2, <3>3
  <2>2. CASE range.upper < s.lower
    <3>1. range.upper + 1 < s.lower
      BY <1>0, <2>2
    <3>2. CASE T = {}
      BY <1>4, <3>1, <3>2
    <3>3. ASSUME NEW t \in T PROVE m.upper + 1 < s.lower
      BY <1>0, <1>2, <1>4, <3>1
    <3> QED
      BY <3>2, <3>3
  <2> QED
    BY <1>1, <2>1, <2>2
<1>8. Insert(ranges, range) = rest \cup {m}
  <2>1. \A s \in rest : s.lower # m.lower
    BY <1>0, <1>6, <1>7
  <2>2. Emplace(rest, m) = rest \cup {m}
    BY <2>1 DEF Emplace
  <2>3. ranges \ (Joined(ranges, range) \cup Erased(ranges, range)
                                        \cup Touching(ranges, range)) = rest
    BY <1>1
  <2> QED
    BY <1>0, <2>2, <2>3 DEF Insert, m
<1>9. Insert(ranges, range) \in SUBSET Interval
  BY <1>5, <1>6, <1>8 DEF Interval, Value
<1>10. IsCanonical(Insert(ranges, range))
  BY <1>0, <1>2, <1>6, <1>7, <1>8 DEF IsCanonical
<1>11. ASSUME NEW v \in Value
       PROVE  Holds(m, v) <=> \/ Holds(range, v)
                              \/ \E s \in J \cup T : Holds(s, v)
  <2>1. v \in 0 .. Modulus - 1
    BY DEF Value
  <2>2. CASE J = {} /\ T = {}
    BY <1>3, <1>4, <2>2 DEF Holds
  <2>3. ASSUME NEW j \in J, T = {} PROVE <1>11!2
    <3>1. \A i \in J : i = j
      BY <1>0, <1>2
    <3> QED
      BY <1>0, <1>3, <1>4, <2>1, <2>3, <3>1 DEF Holds
  <2>4. ASSUME NEW t \in T, J = {} PROVE <1>11!2
    <3>1. \A i \in T : i = t
      BY <1>0, <1>2
    <3> QED
      BY <1>0, <1>3, <1>4, <2>1, <2>4, <3>1 DEF Holds
  <2>5. ASSUME NEW j \in J, NEW t \in T PROVE <1>11!2
    <3>1. /\ \A i \in J : i = j
          /\ \A i \in T : i = t
      BY <1>0, <1>2
    <3> QED
      BY <1>0, <1>3, <1>4, <2>1, <3>1 DEF Holds
  <2> QED
    BY <2>2, <2>3, <2>4, <2>5
<1>12. Cover(Insert(ranges, range))
         = Cover(ranges) \cup {v \in Value : Holds(range, v)}
  BY <1>8, <1>11 DEF Cover
<1> QED
  BY <1>9, <1>10, <1>12

-------------------------------------------------------------------------------
(* Offsets and addresses.                                                    *)

LEMMA ModulusNat == Modulus \in Nat /\ Modulus > 0 /\ Value = 0 .. Modulus - 1
BY ModulusAssumption DEF Value

LEMMA WrapValue ==
    ASSUME NEW x \in Nat
    PROVE  Wrap(x) \in Value /\ (x < Modulus => Wrap(x) = x)
BY ModulusNat DEF Wrap

(* A sum that wraps around once loses the modulus.                           *)
LEMMA WrapOnce ==
    ASSUME NEW x \in Nat, Modulus <= x, x < 2 * Modulus
    PROVE  Wrap(x) = x - Modulus
<1> DEFINE d == x \div Modulus
           r == x % Modulus
           e == d - 1
<1>1. Modulus \in Nat /\ Modulus > 0
  BY ModulusNat
<1>2. d \in Int /\ r \in 0 .. Modulus - 1 /\ x = Modulus * d + r
  BY <1>1
<1>3. e \in Int /\ Modulus * e = x - Modulus - r
  BY <1>1, <1>2
<1> HIDE DEF e, r, d
<1>4. e >= 1 => Modulus * e >= Modulus
  BY <1>1, <1>3
<1>5. e <= -1 => Modulus * e <= -Modulus
  BY <1>1, <1>3
<1>6. e = 0
  BY <1>1, <1>2, <1>3, <1>4, <1>5
<1>7. r = x - Modulus
  BY <1>1, <1>2, <1>3, <1>6
<1> QED
  BY <1>7 DEF r, Wrap

(* Wrapping the parts of a sum does not change where the sum wraps to.       *)
LEMMA WrapSum ==
    ASSUME NEW x \in Int, NEW y \in Int
    PROVE  Wrap(x) \in Nat /\ Wrap(Wrap(x) + Wrap(y)) = Wrap(x + y)
<1> DEFINE p == x \div Modulus   r == Wrap(x)
           q == y \div Modulus   s == Wrap(y)
           z == x + y
           d == z \div Modulus   t == Wrap(z)
           w == r + s
           e == w \div Modulus   u == Wrap(w)
           f == d - p - q - e
<1>1. Modulus \in Nat /\ Modulus > 0
  BY ModulusNat
<1>2. p \in Int /\ r \in 0 .. Modulus - 1 /\ x = Modulus * p + r
  BY <1>1 DEF Wrap
<1>3. q \in Int /\ s \in 0 .. Modulus - 1 /\ y = Modulus * q + s
  BY <1>1 DEF Wrap
<1>4. z \in Int /\ w \in Int
  BY <1>2, <1>3
<1>5. d \in Int /\ t \in 0 .. Modulus - 1 /\ z = Modulus * d + t
  <2> HIDE DEF z
  <2> QED
    BY <1>1, <1>4 DEF Wrap
<1>6. e \in Int /\ u \in 0 .. Modulus - 1 /\ w = Modulus * e + u
  <2> HIDE DEF w
  <2> QED
    BY <1>1, <1>4 DEF Wrap
<1>7. z = x + y /\ w = r + s
  OBVIOUS
<1> HIDE DEF p, q, r, s, d, t, e, u, z, w
<1>8. f \in Int /\ Modulus * f = u - t
  BY <1>1, <1>2, <1>3, <1>5, <1>6, <1>7
<1> HIDE DEF f
<1>9. f >= 1 => Modulus * f >= Modulus
  BY <1>1, <1>8
<1>10. f <= -1 => Modulus * f <= -Modulus
  BY <1>1, <1>8
<1>11. f = 0
  BY <1>1, <1>5, <1>6, <1>8, <1>9, <1>10
<1>12. u = t
  BY <1>1, <1>5, <1>6, <1>8, <1>11
<1> QED
  BY <1>2, <1>12 DEF r, s, t, u, w, z

(* A product is divisible by its factors.                                    *)
LEMMA ProductDivides ==
    ASSUME NEW q \in Nat, NEW a \in Nat, a > 0
    PROVE  q * a \in Nat /\ (q * a) % a = 0
<1> DEFINE p == q * a
           d == p \div a
           r == p % a
           e == q - d
<1>1. p \in Nat
  OBVIOUS
<1>2. d \in Int /\ r \in 0 .. a - 1 /\ p = a * d + r
  <2> HIDE DEF p
  <2> QED
    BY <1>1
<1>3. e \in Int /\ r = a * e
  BY <1>2
<1> HIDE DEF e, r, d
<1>4. e >= 1 => a * e >= a
  BY <1>3
<1>5. e <= -1 => a * e <= -a
  BY <1>3
<1>6. e = 0
  BY <1>2, <1>3, <1>4, <1>5
<1>7. r = 0
  BY <1>3, <1>6
<1> QED
  BY <1>1, <1>7 DEF r

(* Aligning an offset yields an offset, a multiple of the alignment.         *)
LEMMA AlignValue ==
    ASSUME NEW x \in Nat, NEW a \in Value \ {0}
    PROVE  Align(x, a) \in Value /\ Align(x, a) % a = 0
<1> DEFINE w == Wrap(x + a - 1)
           q == w \div a
<1>1. a \in Nat /\ a > 0 /\ x + a - 1 \in Nat
  BY ModulusNat
<1>2. w \in Nat /\ w < Modulus
  BY <1>1, WrapValue, ModulusNat
<1> HIDE DEF w
<1>3. q \in Nat /\ q * a <= w
  BY <1>1, <1>2
<1>4. q * a \in Nat /\ (q * a) % a = 0
  BY <1>1, <1>3, ProductDivides
<1>5. Align(x, a) = q * a
  BY DEF Align, w
<1> QED
  BY <1>2, <1>3, <1>4, <1>5, ModulusNat

(* Without wrapping, it yields the next multiple.                            *)
LEMMA AlignBounds ==
    ASSUME NEW x \in Nat, NEW a \in Value \ {0}, x + a - 1 < Modulus
    PROVE  x <= Align(x, a) /\ Align(x, a) <= x + a - 1
<1> DEFINE w == x + a - 1
           q == w \div a
<1>1. a \in Nat /\ a > 0 /\ w \in Nat
  BY ModulusNat
<1>2. Align(x, a) = q * a
  BY <1>1, WrapValue DEF Align
<1>3. q \in Nat /\ q * a <= w /\ w < q * a + a
  BY <1>1
<1>4. q * a \in Nat
  BY <1>1, <1>3
<1> QED
  BY <1>1, <1>2, <1>3, <1>4

(* No multiple between the offset and the one returned is left out.          *)
LEMMA AlignLeast ==
    ASSUME NEW x \in Nat, NEW a \in Value \ {0}, x + a - 1 < Modulus,
           NEW y \in Nat, x <= y, y % a = 0
    PROVE  Align(x, a) <= y
<1> DEFINE w == x + a - 1
           q == w \div a
           p == y \div a
           d == q - p - 1
<1>1. a \in Nat /\ a > 0 /\ w \in Nat /\ w < y + a
  BY ModulusNat
<1>2. Align(x, a) = q * a
  BY <1>1, WrapValue DEF Align
<1>3. q \in Nat /\ q * a <= w
  BY <1>1
<1>4. p \in Nat /\ y = p * a
  BY <1>1
<1>5. d \in Int /\ q * a = p * a + a + d * a
  BY <1>3, <1>4, <1>1
<1> HIDE DEF d, p, q, w
<1>6. d >= 0 => d * a >= 0
  BY <1>1, <1>5
<1>7. d < 0 => d * a <= -a
  BY <1>1, <1>5
<1>8. q * a \in Nat /\ p * a \in Nat /\ d * a \in Int
  BY <1>1, <1>3, <1>4, <1>5
<1>9. d < 0
  BY <1>1, <1>3, <1>4, <1>5, <1>6, <1>8
<1> QED
  BY <1>1, <1>2, <1>4, <1>5, <1>7, <1>8, <1>9

-------------------------------------------------------------------------------
(* The loop of NextFit as a function of the lower bounds visited.            *)
IsFit(fit, k, arr, size, alignment) ==
    fit = [v \in 0 .. k |->
             IF v = 0 THEN Align(arr.placement, alignment)
             ELSE Skip(arr.layout, v - 1, fit[v - 1], size, alignment)]

LEMMA FitExists ==
    ASSUME NEW arr, NEW size, NEW alignment
    PROVE  \E fit : IsFit(fit, Modulus, arr, size, alignment)
<1> DEFINE U == {k \in 0 .. Modulus : ~\E fit : IsFit(fit, k, arr, size, alignment)}
<1>1. U \in SUBSET Nat
  BY ModulusNat
<1>2. ASSUME U # {} PROVE FALSE
  <2>1. PICK m \in U : \A n \in U : m <= n
    BY <1>1, <1>2, LeastNatural
  <2>2. m # 0
    <3> DEFINE f == [v \in 0 .. 0 |-> Align(arr.placement, alignment)]
    <3>1. IsFit(f, 0, arr, size, alignment)
      BY DEF IsFit
    <3> QED
      BY <2>1, <3>1
  <2>3. m \in Nat /\ m - 1 \in 0 .. Modulus /\ m - 1 \notin U
    BY <2>1, <2>2, ModulusNat
  <2>4. PICK g : IsFit(g, m - 1, arr, size, alignment)
    BY <2>3
  <2> DEFINE f == [v \in 0 .. m |-> IF v = m
                     THEN Skip(arr.layout, m - 1, g[m - 1], size, alignment)
                     ELSE g[v]]
  <2>5. \A v \in 0 .. m - 1 : f[v] = g[v]
    BY <2>3
  <2>6. ASSUME NEW v \in 0 .. m
        PROVE  f[v] = IF v = 0 THEN Align(arr.placement, alignment)
                      ELSE Skip(arr.layout, v - 1, f[v - 1], size, alignment)
    <3>1. CASE v = m
      BY <2>2, <2>3, <2>5, <3>1
    <3>2. CASE v # m
      <4>1. v \in 0 .. m - 1 /\ f[v] = g[v]
        BY <2>3, <3>2
      <4>2. g[v] = IF v = 0 THEN Align(arr.placement, alignment)
                   ELSE Skip(arr.layout, v - 1, g[v - 1], size, alignment)
        BY <2>4, <4>1 DEF IsFit
      <4>3. v # 0 => v - 1 \in 0 .. m - 1 /\ f[v - 1] = g[v - 1]
        BY <2>3, <2>5, <4>1
      <4> QED
        BY <4>1, <4>2, <4>3
    <3> QED
      BY <3>1, <3>2
  <2>7. IsFit(f, m, arr, size, alignment)
    <3> DEFINE h == [v \in 0 .. m |->
                       IF v = 0 THEN Align(arr.placement, alignment)
                       ELSE Skip(arr.layout, v - 1, f[v - 1], size, alignment)]
    <3>1. \A v \in 0 .. m : f[v] = h[v]
      BY <2>6
    <3>2. f = h
      BY <3>1
    <3> QED
      BY <3>2 DEF IsFit
  <2> QED
    BY <2>1, <2>7
<1>3. Modulus \in 0 .. Modulus
  BY ModulusNat
<1> QED
  BY <1>2, <1>3

(* NextFit returns the last value of that function.                          *)
LEMMA NextFitIsFit ==
    ASSUME NEW arr, NEW size, NEW alignment
    PROVE  \E fit : /\ IsFit(fit, Modulus, arr, size, alignment)
                    /\ NextFit(arr, size, alignment) = fit[Modulus]
<1> DEFINE h == CHOOSE f : f = [v \in 0 .. Modulus |->
                                  IF v = 0 THEN Align(arr.placement, alignment)
                                  ELSE Skip(arr.layout, v - 1, f[v - 1], size, alignment)]
<1>0. PICK g : IsFit(g, Modulus, arr, size, alignment)
  BY FitExists
<1>1. g = [v \in 0 .. Modulus |->
             IF v = 0 THEN Align(arr.placement, alignment)
             ELSE Skip(arr.layout, v - 1, g[v - 1], size, alignment)]
  BY <1>0, Zenon DEF IsFit
<1>2. h = [v \in 0 .. Modulus |->
             IF v = 0 THEN Align(arr.placement, alignment)
             ELSE Skip(arr.layout, v - 1, h[v - 1], size, alignment)]
  BY <1>1
<1>3. NextFit(arr, size, alignment) = h[Modulus]
  BY Zenon DEF NextFit
<1> QED
  BY <1>2, <1>3, Zenon DEF IsFit

-------------------------------------------------------------------------------
(* One iteration of the loop keeps an offset an aligned offset.              *)
LEMMA SkipValue ==
    ASSUME NEW layout \in SUBSET Interval, NEW lower \in Value,
           NEW address \in Value, NEW size, NEW a \in Value \ {0},
           address % a = 0
    PROVE  Skip(layout, lower, address, size, a) \in Value
           /\ Skip(layout, lower, address, size, a) % a = 0
<1> DEFINE range == CHOOSE r \in layout : r.lower = lower
<1>1. CASE \E r \in layout : r.lower = lower
  <2>1. range \in layout
    BY <1>1
  <2>2. Wrap(range.upper + 1) \in Nat
    BY <2>1, WrapValue, ModulusNat DEF Interval
  <2>3. /\ Align(Wrap(range.upper + 1), a) \in Value
        /\ Align(Wrap(range.upper + 1), a) % a = 0
    BY <2>2, AlignValue
  <2> QED
    BY <2>3 DEF Skip
<1>2. CASE ~\E r \in layout : r.lower = lower
  BY <1>2 DEF Skip
<1> QED
  BY <1>1, <1>2

(* A size and an alignment that the offsets have room for.                   *)
HasRoom(arr, size, a) ==
    /\ \A r \in arr.layout : r.upper + 1 + a + size < Modulus
    /\ arr.placement + a + size < Modulus

(* Without wrapping, an iteration moves an address that does not fit before  *)
(* the range right behind it.                                                *)
LEMMA SkipFits ==
    ASSUME NEW arr, arr.layout \in SUBSET Interval, IsCanonical(arr.layout),
           NEW size \in Value \ {0}, NEW a \in Value \ {0}, HasRoom(arr, size, a),
           NEW address \in Value, address + size < Modulus,
           NEW range \in arr.layout
    PROVE  LET next == Skip(arr.layout, range.lower, address, size, a)
           IN  /\ next \in Nat /\ next + size < Modulus /\ address <= next
               /\ range.upper < next \/ next + size <= range.lower
               /\ next # address => range.upper < next
<1> DEFINE next == Skip(arr.layout, range.lower, address, size, a)
<1>1. /\ \A r \in arr.layout : /\ r.lower \in 0 .. Modulus - 1
                               /\ r.upper \in 0 .. Modulus - 1
                               /\ r.lower <= r.upper
      /\ Modulus \in Nat /\ address \in Nat /\ size \in Nat /\ a \in Nat /\ a > 0
  BY ModulusNat DEF Interval, IsCanonical
<1>2. \A r \in arr.layout : r.lower = range.lower => r = range
  BY <1>1 DEF IsCanonical
<1>3. (CHOOSE r \in arr.layout : r.lower = range.lower) = range
  BY <1>2
<1>4. Wrap(address + size) = address + size
  BY <1>1, WrapValue
<1>5. range.upper + 1 \in Nat /\ range.upper + 1 + a + size < Modulus
  BY <1>1 DEF HasRoom
<1>6. Wrap(range.upper + 1) = range.upper + 1
  BY <1>1, <1>5, WrapValue
<1>7. next = IF address <= range.upper /\ address + size > range.lower
             THEN Align(range.upper + 1, a) ELSE address
  BY <1>3, <1>4, <1>6 DEF Skip
<1>8. /\ Align(range.upper + 1, a) \in Nat
      /\ range.upper + 1 <= Align(range.upper + 1, a)
      /\ Align(range.upper + 1, a) <= range.upper + a
  <2> DEFINE x == range.upper + 1
  <2>1. x \in Nat /\ x + a - 1 < Modulus
    BY <1>1, <1>5
  <2> HIDE DEF x
  <2>2. Align(x, a) \in Value
    BY <2>1, AlignValue
  <2>3. x <= Align(x, a) /\ Align(x, a) <= x + a - 1
    BY <2>1, AlignBounds
  <2> QED
    BY <1>1, <2>2, <2>3, ModulusNat DEF x
<1> HIDE DEF next
<1>9. CASE address <= range.upper /\ address + size > range.lower
  BY <1>1, <1>5, <1>7, <1>8, <1>9 DEF next
<1>10. CASE ~(address <= range.upper /\ address + size > range.lower)
  BY <1>1, <1>7, <1>10 DEF next
<1> QED
  BY <1>9, <1>10

(* NextFit returns an aligned offset.                                        *)
LEMMA NextFitValue ==
    ASSUME NEW arr, arr.layout \in SUBSET Interval, arr.placement \in Value,
           NEW size, NEW a \in Value \ {0}
    PROVE  NextFit(arr, size, a) \in Value /\ NextFit(arr, size, a) % a = 0
<1>1. PICK fit : /\ IsFit(fit, Modulus, arr, size, a)
                 /\ NextFit(arr, size, a) = fit[Modulus]
  BY NextFitIsFit
<1>2. \A v \in 0 .. Modulus :
         fit[v] = IF v = 0 THEN Align(arr.placement, a)
                  ELSE Skip(arr.layout, v - 1, fit[v - 1], size, a)
  BY <1>1 DEF IsFit
<1> DEFINE U == {v \in 0 .. Modulus : ~(fit[v] \in Value /\ fit[v] % a = 0)}
<1>3. ASSUME U # {} PROVE FALSE
  <2>1. PICK m \in U : \A n \in U : m <= n
    <3>1. U \in SUBSET Nat
      BY ModulusNat
    <3> QED
      BY <1>3, <3>1, LeastNatural
  <2>2. m # 0
    <3>1. fit[0] = Align(arr.placement, a)
      BY <1>2, ModulusNat
    <3>2. arr.placement \in Nat
      BY ModulusNat
    <3>3. fit[0] \in Value /\ fit[0] % a = 0
      BY <3>1, <3>2, AlignValue
    <3> QED
      BY <2>1, <3>3
  <2>3. m - 1 \in 0 .. Modulus /\ m - 1 \in Value /\ m - 1 \notin U
    BY <2>1, <2>2, ModulusNat
  <2>4. fit[m] = Skip(arr.layout, m - 1, fit[m - 1], size, a)
    BY <1>2, <2>1, <2>2
  <2> QED
    BY <2>3, <2>4, SkipValue
<1>4. Modulus \in 0 .. Modulus
  BY ModulusNat
<1> QED
  BY <1>1, <1>3, <1>4

(* Without wrapping, NextFit returns an address behind the placement that is *)
(* followed by as many free bytes as requested.                              *)
LEMMA NextFitFits ==
    ASSUME NEW arr, arr.layout \in SUBSET Interval, IsCanonical(arr.layout),
           arr.placement \in Value,
           NEW size \in Value \ {0}, NEW a \in Value \ {0}, HasRoom(arr, size, a)
    PROVE  LET address == NextFit(arr, size, a)
           IN  /\ address \in Value /\ address + size < Modulus
               /\ arr.placement <= address
               /\ \A r \in arr.layout : r.upper < address \/ address + size <= r.lower
<1>1. PICK fit : /\ IsFit(fit, Modulus, arr, size, a)
                 /\ NextFit(arr, size, a) = fit[Modulus]
  BY NextFitIsFit
<1>2. \A v \in 0 .. Modulus :
         fit[v] = IF v = 0 THEN Align(arr.placement, a)
                  ELSE Skip(arr.layout, v - 1, fit[v - 1], size, a)
  BY <1>1 DEF IsFit
<1>0. /\ \A r \in arr.layout : /\ r.lower \in 0 .. Modulus - 1
                               /\ r.upper \in 0 .. Modulus - 1
                               /\ r.lower <= r.upper
      /\ Modulus \in Nat /\ size \in Nat /\ size > 0 /\ a \in Nat /\ a > 0
      /\ arr.placement \in Nat
  BY ModulusNat DEF Interval, IsCanonical
<1> DEFINE Good(v) ==
             /\ fit[v] \in Nat /\ fit[v] + size < Modulus
             /\ arr.placement <= fit[v]
             /\ \A r \in arr.layout : r.lower < v =>
                    r.upper < fit[v] \/ fit[v] + size <= r.lower
           U == {v \in 0 .. Modulus : ~Good(v)}
<1>3. ASSUME U # {} PROVE FALSE
  <2>1. PICK m \in U : \A n \in U : m <= n
    <3>1. U \in SUBSET Nat
      BY ModulusNat
    <3> QED
      BY <1>3, <3>1, LeastNatural
  <2>2. Good(0)
    <3>1. fit[0] = Align(arr.placement, a)
      BY <1>0, <1>2
    <3>2. arr.placement + a - 1 < Modulus /\ arr.placement + a + size < Modulus
      BY <1>0 DEF HasRoom
    <3>3. fit[0] \in Value
      BY <1>0, <3>1, AlignValue
    <3>4. arr.placement <= fit[0] /\ fit[0] <= arr.placement + a - 1
      BY <1>0, <3>1, <3>2, AlignBounds
    <3> QED
      BY <1>0, <3>2, <3>3, <3>4, ModulusNat
  <2>3. m \in 0 .. Modulus /\ m # 0 /\ m - 1 \in 0 .. Modulus
    BY <2>1, <2>2, <1>0
  <2>4. Good(m - 1)
    BY <2>1, <2>3
  <2>5. fit[m] = Skip(arr.layout, m - 1, fit[m - 1], size, a)
    BY <1>2, <2>3
  <2>6. CASE \E r \in arr.layout : r.lower = m - 1
    <3>1. PICK range \in arr.layout : range.lower = m - 1
      BY <2>6
    <3>2. fit[m - 1] \in Value
      BY <1>0, <2>4, ModulusNat
    <3>3. /\ fit[m] \in Nat /\ fit[m] + size < Modulus /\ fit[m - 1] <= fit[m]
          /\ range.upper < fit[m] \/ fit[m] + size <= range.lower
          /\ fit[m] # fit[m - 1] => range.upper < fit[m]
      BY <2>4, <2>5, <3>1, <3>2, SkipFits
    <3>4. ASSUME NEW r \in arr.layout, r.lower < m
          PROVE  r.upper < fit[m] \/ fit[m] + size <= r.lower
      <4>1. CASE r = range
        BY <3>3, <4>1
      <4>2. CASE r # range
        <5>1. r.lower < m - 1 /\ r.upper < range.lower
          BY <1>0, <2>3, <3>1, <3>4, <4>2 DEF IsCanonical
        <5>2. CASE fit[m] = fit[m - 1]
          BY <2>4, <5>1, <5>2
        <5>3. CASE fit[m] # fit[m - 1]
          BY <1>0, <3>3, <5>1, <5>3
        <5> QED
          BY <5>2, <5>3
      <4> QED
        BY <4>1, <4>2
    <3>5. arr.placement <= fit[m]
      BY <1>0, <2>4, <3>3
    <3>6. Good(m)
      BY <3>3, <3>4, <3>5
    <3> QED
      BY <2>1, <3>6
  <2>7. CASE ~\E r \in arr.layout : r.lower = m - 1
    <3>1. fit[m] = fit[m - 1]
      BY <2>5, <2>7 DEF Skip
    <3>2. \A r \in arr.layout : r.lower < m => r.lower < m - 1
      BY <1>0, <2>3, <2>7
    <3>3. Good(m)
      BY <2>4, <3>1, <3>2
    <3> QED
      BY <2>1, <3>3
  <2> QED
    BY <2>6, <2>7
<1>4. Good(Modulus)
  BY <1>0, <1>3
<1>5. \A r \in arr.layout : r.lower < Modulus
  BY <1>0
<1> QED
  BY <1>0, <1>1, <1>4, <1>5, ModulusNat

(* What the loop of NextFit leaves behind does not fit: an aligned address   *)
(* between the one tried and the next one meets the range.                   *)
LEMMA SkipLeast ==
    ASSUME NEW arr, arr.layout \in SUBSET Interval, IsCanonical(arr.layout),
           NEW size \in Value \ {0}, NEW a \in Value \ {0}, HasRoom(arr, size, a),
           NEW address \in Value, address + size < Modulus,
           NEW range \in arr.layout,
           NEW y \in Nat, address <= y, y % a = 0,
           y < Skip(arr.layout, range.lower, address, size, a)
    PROVE  y <= range.upper /\ range.lower < y + size
<1> DEFINE next == Skip(arr.layout, range.lower, address, size, a)
<1>1. /\ \A r \in arr.layout : /\ r.lower \in 0 .. Modulus - 1
                               /\ r.upper \in 0 .. Modulus - 1
                               /\ r.lower <= r.upper
      /\ Modulus \in Nat /\ address \in Nat /\ size \in Nat /\ a \in Nat /\ a > 0
  BY ModulusNat DEF Interval, IsCanonical
<1>2. (CHOOSE r \in arr.layout : r.lower = range.lower) = range
  <2>1. \A r \in arr.layout : r.lower = range.lower => r = range
    BY <1>1 DEF IsCanonical
  <2> QED
    BY <2>1
<1>3. Wrap(address + size) = address + size
  BY <1>1, WrapValue
<1>4. range.upper + 1 \in Nat /\ range.upper + 1 + a + size < Modulus
  BY <1>1 DEF HasRoom
<1>5. Wrap(range.upper + 1) = range.upper + 1
  BY <1>1, <1>4, WrapValue
<1>6. next = IF address <= range.upper /\ address + size > range.lower
             THEN Align(range.upper + 1, a) ELSE address
  BY <1>2, <1>3, <1>5 DEF Skip
<1>7. y < next
  OBVIOUS
<1> HIDE DEF next
<1>8. address <= range.upper /\ address + size > range.lower
  BY <1>1, <1>6, <1>7
<1>9. y <= range.upper
  <2> SUFFICES ASSUME range.upper + 1 <= y PROVE FALSE
    BY <1>1
  <2> DEFINE x == range.upper + 1
  <2>1. x \in Nat /\ x + a - 1 < Modulus /\ x <= y
    BY <1>1, <1>4
  <2>2. next = Align(x, a)
    BY <1>6, <1>8
  <2> HIDE DEF x
  <2>3. Align(x, a) <= y /\ Align(x, a) \in Value
    BY <2>1, AlignLeast, AlignValue
  <2> QED
    BY <1>7, <2>2, <2>3, ModulusNat
<1> QED
  BY <1>1, <1>8, <1>9

(* NextFit passes over no aligned address where the bytes requested fit.     *)
LEMMA NextFitLeast ==
    ASSUME NEW arr, arr.layout \in SUBSET Interval, IsCanonical(arr.layout),
           arr.placement \in Value,
           NEW size \in Value \ {0}, NEW a \in Value \ {0}, HasRoom(arr, size, a),
           NEW y \in Nat, arr.placement <= y, y % a = 0,
           \A r \in arr.layout : y + size <= r.lower \/ r.upper < y
    PROVE  NextFit(arr, size, a) <= y
<1>1. PICK fit : /\ IsFit(fit, Modulus, arr, size, a)
                 /\ NextFit(arr, size, a) = fit[Modulus]
  BY NextFitIsFit
<1>2. \A v \in 0 .. Modulus :
         fit[v] = IF v = 0 THEN Align(arr.placement, a)
                  ELSE Skip(arr.layout, v - 1, fit[v - 1], size, a)
  BY <1>1 DEF IsFit
<1>0. /\ \A r \in arr.layout : /\ r.lower \in 0 .. Modulus - 1
                               /\ r.upper \in 0 .. Modulus - 1
      /\ Modulus \in Nat /\ size \in Nat /\ size > 0 /\ a \in Nat /\ a > 0
      /\ arr.placement \in Nat
  BY ModulusNat DEF Interval
<1> DEFINE Good(v) == fit[v] \in Nat /\ fit[v] + size < Modulus /\ fit[v] <= y
           U == {v \in 0 .. Modulus : ~Good(v)}
<1>3. ASSUME U # {} PROVE FALSE
  <2>1. PICK m \in U : \A n \in U : m <= n
    <3>1. U \in SUBSET Nat
      BY ModulusNat
    <3> QED
      BY <1>3, <3>1, LeastNatural
  <2>2. Good(0)
    <3>1. fit[0] = Align(arr.placement, a)
      BY <1>0, <1>2
    <3>2. arr.placement + a - 1 < Modulus /\ arr.placement + a + size < Modulus
      BY <1>0 DEF HasRoom
    <3>3. fit[0] \in Value
      BY <1>0, <3>1, AlignValue
    <3>4. fit[0] <= y /\ fit[0] <= arr.placement + a - 1
      BY <1>0, <3>1, <3>2, AlignLeast, AlignBounds
    <3> QED
      BY <1>0, <3>2, <3>3, <3>4, ModulusNat
  <2>3. m \in 0 .. Modulus /\ m # 0 /\ m - 1 \in 0 .. Modulus
    BY <2>1, <2>2, <1>0
  <2>4. Good(m - 1) /\ fit[m - 1] \in Value
    BY <1>0, <2>1, <2>3, ModulusNat
  <2>5. fit[m] = Skip(arr.layout, m - 1, fit[m - 1], size, a)
    BY <1>2, <2>3
  <2>6. CASE \E r \in arr.layout : r.lower = m - 1
    <3>1. PICK range \in arr.layout : range.lower = m - 1
      BY <2>6
    <3>2. fit[m] \in Nat /\ fit[m] + size < Modulus
      BY <2>4, <2>5, <3>1, SkipFits
    <3>3. fit[m] <= y
      <4> SUFFICES ASSUME y < fit[m] PROVE FALSE
        BY <3>2
      <4>1. y <= range.upper /\ range.lower < y + size
        BY <2>4, <2>5, <3>1, SkipLeast
      <4>2. y + size <= range.lower \/ range.upper < y
        OBVIOUS
      <4> QED
        BY <1>0, <4>1, <4>2
    <3> QED
      BY <2>1, <3>2, <3>3
  <2>7. CASE ~\E r \in arr.layout : r.lower = m - 1
    <3>1. fit[m] = fit[m - 1]
      BY <2>5, <2>7 DEF Skip
    <3> QED
      BY <2>1, <2>4, <3>1
  <2> QED
    BY <2>6, <2>7
<1>4. Good(Modulus)
  BY <1>0, <1>3
<1> QED
  BY <1>1, <1>4

-------------------------------------------------------------------------------
(* What holds of an image whatever its offsets wrap around to: the addresses *)
(* from 0 to the origin are taken.                                           *)
Arrangement == [layout : SUBSET Interval, origin : Value,
                placement : Value, extent : Value]

IsProper(arr) ==
    /\ arr \in Arrangement
    /\ IsCanonical(arr.layout)
    /\ \A v \in Value : v < arr.origin => v \in Cover(arr.layout)

\* What Allocate may be asked for.
IsRequest(request) ==
    /\ request.fixed \in BOOLEAN
    /\ request.at \in Value /\ request.bytes \in Value
    /\ ~request.fixed => request.at # 0

(* Making the origin of the first section that of the image keeps the image  *)
(* proper, and changes nothing unless it is empty.                           *)
LEMMA RebaseProper ==
    ASSUME NEW arr, IsProper(arr), NEW request, IsRequest(request)
    PROVE  LET based == Rebase(arr, request)
           IN  /\ IsProper(based)
               /\ \/ based = arr
                  \/ /\ arr.layout = {} /\ request.fixed
                     /\ based.origin = request.at /\ based.placement = request.at
                     /\ based.extent = arr.extent
<1> DEFINE based == Rebase(arr, request)
           range == [lower |-> 0, upper |-> request.at - 1]
<1>0. /\ request.at \in 0 .. Modulus - 1 /\ Modulus \in Nat /\ Modulus > 0
      /\ arr \in Arrangement
  BY ModulusNat DEF IsRequest, IsProper
<1>1. CASE arr.layout = {} /\ request.fixed /\ request.at # 0
  <2>1. based = [arr EXCEPT !.layout = Insert({}, range),
                            !.origin = request.at, !.placement = request.at]
    BY <1>1 DEF Rebase
  <2>2. /\ range \in Interval /\ range.lower <= range.upper
        /\ {} \in SUBSET Interval /\ IsCanonical({}) /\ ~Overlaps({}, range)
    BY <1>0, <1>1, ModulusNat DEF Interval, IsCanonical, Overlaps, After, Before
  <2>3. /\ Insert({}, range) \in SUBSET Interval
        /\ IsCanonical(Insert({}, range))
        /\ Cover(Insert({}, range)) = Cover({}) \cup {v \in Value : Holds(range, v)}
    BY <2>2, InsertAdds
  <2>4. /\ based \in Arrangement
        /\ based.layout = Insert({}, range)
        /\ based.origin = request.at
        /\ based.placement = request.at
        /\ based.extent = arr.extent
    BY <1>0, <2>1, <2>3, ModulusNat DEF Arrangement
  <2>5. ASSUME NEW v \in Value, v < request.at PROVE v \in Cover(based.layout)
    BY <1>0, <2>3, <2>4, <2>5, ModulusNat DEF Holds
  <2>6. IsProper(based)
    BY <2>3, <2>4, <2>5 DEF IsProper
  <2> HIDE DEF based
  <2>7. /\ IsProper(based) /\ arr.layout = {} /\ request.fixed
        /\ based.origin = request.at /\ based.placement = request.at
        /\ based.extent = arr.extent
    BY <1>1, <2>4, <2>6
  <2> QED
    BY <2>7 DEF based
<1>2. CASE ~(arr.layout = {} /\ request.fixed /\ request.at # 0)
  BY <1>2 DEF Rebase
<1> QED
  BY <1>1, <1>2

(* Entering a section that collides with none keeps the image proper, and    *)
(* adds its bytes to the layout unless they reach beyond the last address.   *)
LEMMA OccupyKeeps ==
    ASSUME NEW arr, IsProper(arr), NEW request, IsRequest(request), NEW begin \in Value,
           ~Collides(arr, request, begin)
    PROVE  LET next == Occupy(arr, request, begin)
           IN  /\ IsProper(next)
               /\ next.origin = arr.origin
               /\ Cover(arr.layout) \subseteq Cover(next.layout)
               /\ next.placement = IF request.fixed THEN arr.placement
                                   ELSE Wrap(begin + request.bytes)
               /\ arr.extent <= next.extent
               /\ Wrap(Wrap(begin + request.bytes) - arr.origin) <= next.extent
               /\ begin + request.bytes < Modulus =>
                    \A v \in Value : begin <= v /\ v < begin + request.bytes =>
                        v \in Cover(next.layout) /\ v \notin Cover(arr.layout)
<1> DEFINE next == Occupy(arr, request, begin)
           end == Wrap(begin + request.bytes)
           extent == Wrap(end - arr.origin)
           range == [lower |-> begin, upper |-> end - 1]
<1>0. /\ begin \in 0 .. Modulus - 1 /\ request.bytes \in 0 .. Modulus - 1
      /\ Modulus \in Nat /\ Modulus > 0 /\ Value = 0 .. Modulus - 1
      /\ arr \in Arrangement
  BY ModulusNat DEF IsRequest, IsProper
<1>1. end \in 0 .. Modulus - 1 /\ (begin + request.bytes < Modulus => end = begin + request.bytes)
  BY <1>0, WrapValue
<1>2. extent \in 0 .. Modulus - 1
  BY <1>0, <1>1, SMTT(30) DEF Wrap, Arrangement
<1> HIDE DEF end, extent
<1>3. next = [layout |-> IF end > begin THEN Insert(arr.layout, range) ELSE arr.layout,
              origin |-> arr.origin,
              placement |-> IF request.fixed THEN arr.placement ELSE end,
              extent |-> IF extent > arr.extent THEN extent ELSE arr.extent]
  BY DEF Occupy, Placed, Extent, end, extent
<1>4. /\ next.layout = IF end > begin THEN Insert(arr.layout, range) ELSE arr.layout
      /\ next.origin = arr.origin
      /\ next.placement = IF request.fixed THEN arr.placement ELSE end
      /\ next.extent = IF extent > arr.extent THEN extent ELSE arr.extent
  BY <1>3
<1>5. arr.extent <= next.extent /\ extent <= next.extent /\ next.extent \in Value
  BY <1>0, <1>2, <1>4 DEF Arrangement
<1>6. /\ next.layout \in SUBSET Interval
      /\ IsCanonical(next.layout)
      /\ Cover(next.layout) =
            Cover(arr.layout) \cup {v \in Value : begin <= v /\ v < end}
      /\ \A v \in Value : begin <= v /\ v < end => v \notin Cover(arr.layout)
  <2>0. arr.layout \in SUBSET Interval /\ IsCanonical(arr.layout)
    BY <1>0 DEF IsProper, Arrangement
  <2>1. CASE end > begin
    <3>1. /\ range \in Interval /\ range.lower <= range.upper
          /\ ~Overlaps(arr.layout, range)
      BY <1>0, <1>1, <2>1 DEF Interval, Collides, end
    <3>2. /\ Insert(arr.layout, range) \in SUBSET Interval
          /\ IsCanonical(Insert(arr.layout, range))
          /\ Cover(Insert(arr.layout, range))
               = Cover(arr.layout) \cup {v \in Value : Holds(range, v)}
      BY <2>0, <3>1, InsertAdds
    <3>3. \A v \in Value : Holds(range, v) <=> begin <= v /\ v < end
      BY <1>0, <1>1 DEF Holds
    <3>4. \A s \in arr.layout : ~(s.lower <= range.upper /\ range.lower <= s.upper)
      BY <2>0, <3>1, OverlapsMeets
    <3>5. \A v \in Value : Holds(range, v) => v \notin Cover(arr.layout)
      BY <1>0, <1>1, <2>0, <3>4 DEF Holds, Cover, Interval
    <3>6. next.layout = Insert(arr.layout, range)
      BY <1>4, <2>1
    <3>7. {v \in Value : Holds(range, v)} = {v \in Value : begin <= v /\ v < end}
      BY <3>3
    <3> HIDE DEF next, range
    <3> QED
      BY <3>2, <3>3, <3>5, <3>6, <3>7
  <2>2. CASE ~(end > begin)
    <3>1. next.layout = arr.layout
      BY <1>4, <2>2
    <3>2. \A v \in Value : ~(begin <= v /\ v < end)
      BY <1>0, <1>1, <2>2
    <3> HIDE DEF next
    <3> QED
      BY <2>0, <3>1, <3>2
  <2> QED
    BY <2>1, <2>2
<1>7. next.placement \in Value
  BY <1>0, <1>1, <1>4 DEF Arrangement
<1>8. next \in Arrangement
  BY <1>0, <1>3, <1>4, <1>5, <1>6, <1>7 DEF Arrangement
<1>9. IsProper(next)
  BY <1>4, <1>6, <1>8 DEF IsProper
<1>10. next.placement = IF request.fixed THEN arr.placement ELSE Wrap(begin + request.bytes)
  BY <1>4 DEF end
<1>11. Wrap(Wrap(begin + request.bytes) - arr.origin) <= next.extent
  BY <1>5 DEF end, extent
<1>12. Cover(arr.layout) \subseteq Cover(next.layout)
  BY <1>6
<1>13. ASSUME begin + request.bytes < Modulus, NEW v \in Value,
              begin <= v, v < begin + request.bytes
       PROVE  v \in Cover(next.layout) /\ v \notin Cover(arr.layout)
  <2>1. end = begin + request.bytes
    BY <1>1, <1>13
  <2> HIDE DEF next
  <2> QED
    BY <1>6, <1>13, <2>1
<1>14. next.origin = arr.origin /\ arr.extent <= next.extent
  BY <1>4, <1>5
<1> HIDE DEF next
<1>15. /\ IsProper(next)
       /\ next.origin = arr.origin
       /\ Cover(arr.layout) \subseteq Cover(next.layout)
       /\ next.placement = IF request.fixed THEN arr.placement
                           ELSE Wrap(begin + request.bytes)
       /\ arr.extent <= next.extent
       /\ Wrap(Wrap(begin + request.bytes) - arr.origin) <= next.extent
       /\ begin + request.bytes < Modulus =>
            \A v \in Value : begin <= v /\ v < begin + request.bytes =>
                v \in Cover(next.layout) /\ v \notin Cover(arr.layout)
  BY <1>9, <1>10, <1>11, <1>12, <1>13, <1>14
<1> QED
  BY <1>15, Zenon DEF next

(* Whatever wraps around, every section begins at an offset, at a multiple   *)
(* of its alignment if it has one.                                           *)
LEMMA BeginValue ==
    ASSUME NEW arr, IsProper(arr), NEW request, IsRequest(request), NEW size \in Value
    PROVE  LET begin == Begin(arr, request, size)
           IN  begin \in Value /\ (~request.fixed => begin % request.at = 0)
<1> DEFINE begin == Begin(arr, request, size)
<1>0. request.at \in Value /\ (~request.fixed => request.at \in Value \ {0})
  BY DEF IsRequest
<1>1. /\ arr.layout \in SUBSET Interval
      /\ arr.origin \in Value /\ arr.placement \in Value /\ arr.extent \in Value
  BY DEF IsProper, Arrangement
<1>2. CASE request.fixed
  BY <1>0, <1>2 DEF Begin
<1>3. CASE ~request.fixed /\ size # 0
  <2>1. begin = NextFit(arr, size, request.at)
    BY <1>3 DEF Begin
  <2> QED
    BY <1>0, <1>1, <1>3, <2>1, NextFitValue
<1>4. CASE ~request.fixed /\ size = 0
  <2>1. begin = Align(Wrap(arr.origin + arr.extent), request.at)
    BY <1>4 DEF Begin
  <2>2. Wrap(arr.origin + arr.extent) \in Nat
    BY <1>1, WrapValue, ModulusNat
  <2> QED
    BY <1>0, <1>4, <2>1, <2>2, AlignValue
<1> QED
  BY <1>2, <1>3, <1>4

(* An allocation keeps the image proper and returns an offset.               *)
LEMMA AllocateKeeps ==
    ASSUME NEW arr, IsProper(arr), NEW request, IsRequest(request), NEW size \in Value
    PROVE  LET result == Allocate(arr, request, size)
           IN  IsProper(result.arrangement) /\ result.address \in Value
<1> DEFINE based == Rebase(arr, request)
           begin == Begin(based, request, size)
           result == Allocate(arr, request, size)
<1>1. IsProper(based)
  BY RebaseProper
<1>2. begin \in Value
  BY <1>1, BeginValue
<1>3. CASE Collides(based, request, begin)
  <2>1. result = [arrangement |-> based, address |-> IF request.at = 0 THEN 1 ELSE 0]
    BY <1>3 DEF Allocate
  <2>2. Wrap(begin + request.bytes) > begin
    BY <1>3, Zenon DEF Collides
  <2>3. begin \in Nat /\ request.bytes \in Nat
    BY <1>2, ModulusNat DEF IsRequest
  <2>4. Wrap(begin + request.bytes) \in Value
    <3>1. begin + request.bytes \in Nat
      BY <2>3
    <3> QED
      BY <3>1, WrapValue
  <2>5. 0 \in Value /\ 1 \in Value
    BY <2>2, <2>3, <2>4, ModulusNat
  <2> QED
    BY <1>1, <2>1, <2>5
<1>4. CASE ~Collides(based, request, begin)
  <2>1. result = [arrangement |-> Occupy(based, request, begin), address |-> begin]
    BY <1>4 DEF Allocate
  <2>2. IsProper(Occupy(based, request, begin))
    BY <1>1, <1>2, <1>4, OccupyKeeps
  <2> QED
    BY <1>2, <2>1, <2>2
<1> QED
  BY <1>3, <1>4

(* An image without bytes is proper.                                         *)
LEMMA EmptyProper == IsProper(EmptyArrangement)
BY ModulusNat DEF EmptyArrangement, IsProper, Arrangement, IsCanonical

(* Allocating never shrinks an arrangement.                                  *)
LEMMA AllocateGrows ==
    ASSUME NEW arr, IsProper(arr), NEW request, IsRequest(request), NEW size \in Value
    PROVE  arr.extent <= Allocate(arr, request, size).arrangement.extent
<1> DEFINE based == Rebase(arr, request)
           begin == Begin(based, request, size)
           result == Allocate(arr, request, size)
<1>1. IsProper(based) /\ based.extent = arr.extent
  BY RebaseProper
<1>2. begin \in Value
  BY <1>1, BeginValue
<1>3. CASE Collides(based, request, begin)
  <2>1. result.arrangement = based
    BY <1>3 DEF Allocate
  <2>2. arr.extent \in Nat
    BY ModulusNat DEF IsProper, Arrangement
  <2> QED
    BY <1>1, <2>1, <2>2
<1>4. CASE ~Collides(based, request, begin)
  <2>1. result.arrangement = Occupy(based, request, begin)
    BY <1>4 DEF Allocate
  <2>2. based.extent <= Occupy(based, request, begin).extent
    BY <1>1, <1>2, <1>4, OccupyKeeps
  <2> QED
    BY <1>1, <2>1, <2>2
<1> QED
  BY <1>3, <1>4

-------------------------------------------------------------------------------
(* Images of sections without origins.                                       *)

\* The sections of an image without origins follow each other up to its end.
IsCompact(arr) ==
    /\ arr.origin = 0 /\ arr.placement = arr.extent
    /\ \A r \in arr.layout : r.upper < arr.extent

(* An image without gaps at its end has no other place for a section.       *)
LEMMA NextFitCompact ==
    ASSUME NEW arr, IsProper(arr), IsCompact(arr), NEW size, NEW a \in Value \ {0},
           arr.extent + a <= Modulus
    PROVE  NextFit(arr, size, a) = Align(arr.extent, a)
<1>1. PICK fit : /\ IsFit(fit, Modulus, arr, size, a)
                 /\ NextFit(arr, size, a) = fit[Modulus]
  BY NextFitIsFit
<1> DEFINE begin == Align(arr.extent, a)
           U == {v \in 0 .. Modulus : fit[v] # begin}
<1>2. /\ arr.extent \in Nat /\ arr.placement = arr.extent /\ arr.layout \in SUBSET Interval
      /\ \A r \in arr.layout : r.upper < arr.extent
  BY ModulusNat DEF IsProper, Arrangement, IsCompact
<1>3. begin \in Nat /\ arr.extent <= begin
  <2>1. arr.extent + a - 1 < Modulus
    BY <1>2, ModulusNat
  <2>2. begin \in Value
    BY <1>2, AlignValue
  <2>3. arr.extent <= begin
    BY <1>2, <2>1, AlignBounds
  <2> QED
    BY <2>2, <2>3, ModulusNat
<1> HIDE DEF begin
<1>4. \A v \in 0 .. Modulus :
        fit[v] = IF v = 0 THEN Align(arr.placement, a) ELSE Skip(arr.layout, v - 1, fit[v - 1], size, a)
  BY <1>1 DEF IsFit
<1>5. ASSUME U # {} PROVE FALSE
  <2>1. U \in SUBSET Nat
    BY ModulusNat
  <2>2. PICK m \in U : \A n \in U : m <= n
    BY <1>5, <2>1, LeastNatural
  <2>3. m \in 0 .. Modulus /\ fit[m] # begin
    BY <2>2
  <2>4. m # 0
    BY <1>2, <1>4, <2>3, ModulusNat DEF begin
  <2>5. m - 1 \in 0 .. Modulus /\ fit[m - 1] = begin
    <3>1. m - 1 \in 0 .. Modulus /\ m - 1 < m
      BY <2>3, <2>4, ModulusNat
    <3>2. m - 1 \notin U
      BY <2>2, <2>3, <3>1, ModulusNat
    <3> QED
      BY <3>1, <3>2
  <2>6. Skip(arr.layout, m - 1, begin, size, a) = begin
    <3>1. ASSUME \E r \in arr.layout : r.lower = m - 1
          PROVE  ~(begin <= (CHOOSE r \in arr.layout : r.lower = m - 1).upper)
      <4> DEFINE range == CHOOSE r \in arr.layout : r.lower = m - 1
      <4>1. range \in arr.layout
        BY <3>1
      <4> HIDE DEF range
      <4>2. range.upper \in Nat
        BY <1>2, <4>1, ModulusNat DEF Interval
      <4>3. ~(begin <= range.upper)
        BY <1>2, <1>3, <4>1, <4>2
      <4> QED
        BY <4>3 DEF range
    <3> QED
      BY <3>1 DEF Skip
  <2> QED
    BY <1>4, <2>3, <2>4, <2>5, <2>6
<1>6. Modulus \in 0 .. Modulus
  BY ModulusNat
<1> QED
  BY <1>1, <1>5, <1>6 DEF begin

(* A section without origin then follows the others, right at their end if   *)
(* that has its alignment, unless it exceeds the end of all addresses.       *)
LEMMA AllocateCompact ==
    ASSUME NEW arr, IsProper(arr), IsCompact(arr), NEW request, IsRequest(request),
           ~request.fixed, NEW size \in Value, arr.extent + request.at <= Modulus
    PROVE  LET result == Allocate(arr, request, size)
               begin == result.address
           IN  /\ begin \in Nat /\ arr.extent <= begin
               /\ arr.extent % request.at = 0 => begin = arr.extent
               /\ Wrap(begin + request.bytes) >= begin =>
                    /\ begin + request.bytes < Modulus
                    /\ IsCompact(result.arrangement)
                    /\ result.arrangement.extent = begin + request.bytes
<1> DEFINE begin == Align(arr.extent, request.at)
           end == Wrap(begin + request.bytes)
           range == [lower |-> begin, upper |-> end - 1]
           next == Occupy(arr, request, begin)
<1>1. /\ arr.extent \in Value /\ arr.extent \in Nat /\ arr.placement = arr.extent /\ arr.origin = 0
      /\ arr.layout \in SUBSET Interval /\ IsCanonical(arr.layout)
      /\ \A r \in arr.layout : r.upper < arr.extent
      /\ request.at \in Value \ {0} /\ request.at \in Nat /\ request.bytes \in Nat
  BY ModulusNat DEF IsProper, Arrangement, IsCompact, IsRequest
<1>2. arr.extent + request.at - 1 < Modulus
  BY <1>1, ModulusNat
<1>3. begin \in Value /\ begin \in Nat /\ arr.extent <= begin
  <2>1. begin \in Value
    BY <1>1, AlignValue
  <2>2. arr.extent <= begin
    BY <1>1, <1>2, AlignBounds
  <2> QED
    BY <2>1, <2>2, ModulusNat
<1>4. arr.extent % request.at = 0 => begin = arr.extent
  <2> SUFFICES ASSUME arr.extent % request.at = 0 PROVE begin = arr.extent
    OBVIOUS
  <2>1. begin <= arr.extent
    BY <1>1, <1>2, AlignLeast
  <2> QED
    BY <1>1, <1>3, <2>1
<1>5. Rebase(arr, request) = arr
  BY DEF Rebase
<1>6. Begin(arr, request, size) = begin
  <2>1. size # 0 => NextFit(arr, size, request.at) = begin
    BY <1>1, NextFitCompact
  <2>2. Wrap(arr.origin + arr.extent) = arr.extent
    <3>1. arr.origin + arr.extent = arr.extent /\ arr.extent < Modulus
      BY <1>1, ModulusNat
    <3> QED
      BY <1>1, <3>1, WrapValue
  <2> QED
    BY <2>1, <2>2 DEF Begin
<1> HIDE DEF begin
<1>7. end \in Nat /\ end < Modulus
  <2>1. begin + request.bytes \in Nat
    BY <1>1, <1>3
  <2> QED
    BY <2>1, WrapValue, ModulusNat
<1> HIDE DEF end
<1>8. end > begin => range \in Interval /\ range.lower <= range.upper
  BY <1>3, <1>7, ModulusNat DEF Interval
<1>9. ~Collides(arr, request, begin)
  <2> SUFFICES ASSUME end > begin, Overlaps(arr.layout, range) PROVE FALSE
    BY DEF Collides, end
  <2>1. PICK s \in arr.layout : s.lower <= range.upper /\ range.lower <= s.upper
    <3> HIDE DEF range
    <3> QED
      BY <1>1, <1>8, OverlapsMeets
  <2>2. s.upper \in Nat /\ s.upper < arr.extent
    BY <1>1, <2>1, ModulusNat DEF Interval
  <2> QED
    BY <1>1, <1>3, <2>1, <2>2
<1>10. Allocate(arr, request, size) = [arrangement |-> next, address |-> begin]
  BY <1>5, <1>6, <1>9 DEF Allocate
<1>11. ASSUME end >= begin
       PROVE  /\ begin + request.bytes < Modulus
              /\ IsCompact(next) /\ next.extent = begin + request.bytes
  <2>1. begin + request.bytes < Modulus /\ end = begin + request.bytes
    <3>1. CASE begin + request.bytes < Modulus
      <4>1. begin + request.bytes \in Nat
        BY <1>1, <1>3
      <4> QED
        BY <3>1, <4>1, WrapValue DEF end
    <3>2. CASE Modulus <= begin + request.bytes
      <4>1. request.bytes < Modulus /\ begin < Modulus
        BY <1>3, ModulusNat DEF IsRequest
      <4>2. begin + request.bytes \in Nat /\ begin + request.bytes < 2 * Modulus
        BY <1>1, <1>3, <4>1, ModulusNat
      <4>3. end = begin + request.bytes - Modulus
        <5>1. PICK x \in Nat : x = begin + request.bytes
          BY <4>2
        <5>2. Wrap(x) = x - Modulus
          BY <3>2, <4>2, <5>1, WrapOnce
        <5>3. end = Wrap(x)
          BY <5>1, Zenon DEF end
        <5> QED
          BY <1>1, <1>3, <5>1, <5>2, <5>3, ModulusNat
      <4> QED
        BY <1>1, <1>3, <1>11, <4>1, <4>3, ModulusNat
    <3> QED
      BY <1>1, <1>3, <3>1, <3>2, ModulusNat
  <2>2. next.origin = 0 /\ next.placement = end
    BY <1>1 DEF Occupy, Placed, end
  <2>3. next.extent = end
    <3>1. next.extent = Extent(arr, end)
      BY DEF Occupy, end
    <3>2. Wrap(end - arr.origin) = end
      <4>1. end - arr.origin = end
        BY <1>1, <1>7
      <4> QED
        BY <1>7, <4>1, WrapValue
    <3>3. arr.extent <= end
      BY <1>1, <1>3, <1>7, <1>11
    <3> QED
      BY <1>1, <1>7, <3>1, <3>2, <3>3 DEF Extent
  <2>4. ASSUME NEW r \in next.layout PROVE r.upper < end
    <3>1. next.layout = IF end > begin THEN Insert(arr.layout, range) ELSE arr.layout
      BY DEF Occupy, end
    <3>2. CASE end > begin
      <4>1. ~Overlaps(arr.layout, range)
        BY <1>9, <3>2 DEF Collides, end
      <4>2. /\ next.layout \in SUBSET Interval /\ IsCanonical(next.layout)
            /\ Cover(next.layout) = Cover(arr.layout) \cup {v \in Value : Holds(range, v)}
        <5> HIDE DEF range
        <5> QED
          BY <1>1, <1>8, <3>1, <3>2, <4>1, InsertAdds
      <4>3. r \in Interval /\ r.lower <= r.upper
        BY <4>2 DEF IsCanonical
      <4>4. r.upper \in Value /\ r.lower \in Value
        BY <4>3 DEF Interval
      <4>5. r.upper \in Cover(next.layout)
        BY <4>3, <4>4, ModulusNat DEF Cover, Holds
      <4>6. CASE r.upper \in Cover(arr.layout)
        <5>1. PICK s \in arr.layout : r.upper <= s.upper
          BY <4>6 DEF Cover, Holds
        <5>2. s.upper \in Nat /\ s.upper < arr.extent
          BY <1>1, <5>1, ModulusNat DEF Interval
        <5> QED
          BY <1>1, <1>3, <1>7, <1>11, <4>4, <5>1, <5>2, ModulusNat
      <4>7. CASE Holds(range, r.upper)
        BY <1>7, <4>4, <4>7, ModulusNat DEF Holds
      <4> QED
        BY <4>2, <4>5, <4>6, <4>7
    <3>3. CASE ~(end > begin)
      <4>1. r \in arr.layout
        BY <3>1, <3>3
      <4>2. r.upper \in Nat /\ r.upper < arr.extent
        BY <1>1, <4>1, ModulusNat DEF Interval
      <4> QED
        BY <1>1, <1>3, <1>7, <1>11, <4>2
    <3> QED
      BY <3>2, <3>3
  <2> HIDE DEF next
  <2> QED
    BY <2>1, <2>2, <2>3, <2>4 DEF IsCompact
<1> HIDE DEF next
<1> QED
  BY <1>3, <1>4, <1>10, <1>11 DEF end
===============================================================================
