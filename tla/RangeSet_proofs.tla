---------------------------- MODULE RangeSet_proofs ----------------------------
(*****************************************************************************)
(* Proofs that a RangeSet stays canonical and stands for exactly the values  *)
(* inserted, for every width of the value type.                              *)
(*****************************************************************************)
EXTENDS RangeSet, Arrangements_proofs

(* The inductive invariant: the three invariants of the runs hold together,  *)
(* none of them being inductive alone.                                       *)
Inv == TypeOK /\ Canonical /\ Represents

(* A set of ranges stays typed, stays canonical and stands for the values    *)
(* inserted into it.                                                         *)
THEOREM Correctness == Spec => []Inv
<1>1. Init => Inv
  BY DEF Init, Inv, TypeOK, Canonical, Represents, Cover
<1>2. Inv /\ [Next]_vars => Inv'
  <2> SUFFICES ASSUME Inv, [Next]_vars PROVE Inv'
    OBVIOUS
  <2>1. CASE UNCHANGED vars
    BY <2>1 DEF vars, Inv, TypeOK, Canonical, Represents, Cover
  <2>2. ASSUME NEW range \in Interval, Add(range) PROVE Inv'
    <3>1. set \in SUBSET Interval /\ IsCanonical(set)
      BY DEF Inv, TypeOK, Canonical, IsCanonical
    <3>2. /\ set' \in SUBSET Interval
          /\ IsCanonical(set')
          /\ Cover(set') = Cover(set) \cup {v \in Value : Holds(range, v)}
      BY <2>2, <3>1, InsertAdds DEF Add
    <3>3. TypeOK'
      BY <2>2, <3>2 DEF Inv, TypeOK, Add
    <3>4. Canonical'
      BY <3>2 DEF Canonical, IsCanonical
    <3>5. Represents'
      BY <2>2, <3>2 DEF Inv, Represents, Add, Cover
    <3> QED
      BY <3>3, <3>4, <3>5 DEF Inv
  <2> QED
    BY <2>1, <2>2 DEF Next
<1> QED
  BY <1>1, <1>2, PTL DEF Spec

(* operator [] answers exactly whether some value of a range was inserted.   *)
THEOREM Exactness == Spec => []OverlapsIsExact
<1>1. Inv => OverlapsIsExact
  <2> SUFFICES ASSUME Inv, NEW range \in Interval, range.lower <= range.upper
               PROVE  Overlaps(set, range) <=> \E v \in inserted : Holds(range, v)
    BY DEF OverlapsIsExact
  <2>1. set \in SUBSET Interval /\ IsCanonical(set)
    BY DEF Inv, TypeOK, Canonical, IsCanonical
  <2>2. /\ range.lower \in Value /\ range.upper \in Value
        /\ \A s \in set : s.lower \in Value /\ s.upper \in Value /\ s.lower <= s.upper
        /\ \A v \in Value : v \in Int
    BY <2>1, ModulusAssumption DEF Interval, Value, IsCanonical
  <2>3. Overlaps(set, range)
          <=> \E s \in set : s.lower <= range.upper /\ range.lower <= s.upper
    BY <2>1, OverlapsMeets
  <2>4. ASSUME NEW s \in set, s.lower <= range.upper, range.lower <= s.upper
        PROVE  \E v \in inserted : Holds(range, v)
    <3> DEFINE v == IF s.lower <= range.lower THEN range.lower ELSE s.lower
    <3>1. v \in Value /\ Holds(s, v) /\ Holds(range, v)
      BY <2>2, <2>4 DEF Holds
    <3>2. v \in inserted
      BY <3>1 DEF Inv, Represents, Cover
    <3> QED
      BY <3>1, <3>2
  <2>5. ASSUME NEW v \in inserted, Holds(range, v)
        PROVE  \E s \in set : s.lower <= range.upper /\ range.lower <= s.upper
    <3>1. PICK s \in set : v \in Value /\ Holds(s, v)
      BY DEF Inv, Represents, Cover
    <3> QED
      BY <2>2, <2>5, <3>1 DEF Holds
  <2> QED
    BY <2>3, <2>4, <2>5
<1> QED
  BY <1>1, Correctness, PTL

(* The ranges never overlap or touch: the set stays as short as it can be.   *)
THEOREM Canonicity == Spec => []Canonical
<1>1. Inv => Canonical
  BY DEF Inv
<1> QED
  BY <1>1, Correctness, PTL

(* The ranges hold the values inserted and no others.                        *)
THEOREM Representation == Spec => []Represents
<1>1. Inv => Represents
  BY DEF Inv
<1> QED
  BY <1>1, Correctness, PTL

(* The set holds ranges of the value type only, though what operator += puts *)
(* in their place is computed from their bounds.                             *)
THEOREM Typing == Spec => []TypeOK
<1>1. Inv => TypeOK
  BY DEF Inv
<1> QED
  BY <1>1, Correctness, PTL
===============================================================================
