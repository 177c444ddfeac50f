-------------------------------- MODULE Ranges --------------------------------
(*****************************************************************************)
(* The operators of class ECS::RangeSet (tools/rangeset.hpp): a set of       *)
(* closed ranges of values, kept ordered by their lower bounds.  The ordered *)
(* std::set becomes a TLA+ set, and its iterators become the sets Before and *)
(* After, which hold at most one range.                                      *)
(*                                                                           *)
(* Values are unsigned and wrap around at Modulus, as the Offset of the      *)
(* object file linker does.  A definition marked as faulty is a variant with *)
(* a bug; it takes the place of the one after it to show that a property of  *)
(* the runs notices that bug.  Nothing else refers to it.                    *)
(*****************************************************************************)
EXTENDS Integers

CONSTANT Modulus        \* number of values of the unsigned type, 2^w

ASSUME ModulusAssumption == Modulus \in Nat \ {0}

Value == 0 .. Modulus - 1

\* A range, under another name than the operator on functions.
Interval == [lower : Value, upper : Value]

Holds(range, value) == range.lower <= value /\ value <= range.upper

\* The values that a set of ranges stands for.
Cover(set) == {v \in Value : \E s \in set : Holds(s, v)}

Increment(value) == (value + 1) % Modulus

-------------------------------------------------------------------------------
\* upper_bound (value): the first range above value, none at the end.
After(set, value) ==
    {s \in set : /\ value < s.lower
                 /\ \A t \in set : value < t.lower => s.lower <= t.lower}

\* --upper_bound (value): the last range at or below value, none at the begin.
Before(set, value) ==
    {s \in set : /\ s.lower <= value
                 /\ \A t \in set : t.lower <= value => t.lower <= s.lower}

\* Faulty: the range before is not looked at.
Overlaps_OnlyAfter(set, range) ==
    \E s \in After(set, range.lower) : s.lower <= range.upper

\* operator []: whether the range meets one of the set.
Overlaps(set, range) ==
    \/ \E s \in After(set, range.lower) : s.lower <= range.upper
    \/ \E s \in Before(set, range.lower) : s.upper >= range.lower

\* Faulty: only a predecessor that overlaps is joined.
Joined_Overlapping(set, range) ==
    {s \in Before(set, range.lower) : range.lower <= s.upper}

\* The predecessor that insert joins with the range.
Joined(set, range) ==
    {s \in Before(set, range.lower) : range.lower <= Increment(s.upper)}

\* The successors that insert erases, up to the first that ends after the range.
Erased(set, range) ==
    {s \in set :
        /\ range.lower < s.lower
        /\ \A t \in set : range.lower < t.lower /\ t.lower <= s.lower
                            => t.upper <= range.upper}

\* The successor that insert joins with the range.
Touching(set, range) ==
    {s \in After(set \ Erased(set, range), range.lower) :
        s.lower <= Increment(range.upper)}

\* Faulty: the upper bound of the successor is forgotten.
Merged_KeepsUpper(set, range) ==
    LET joined == Joined(set, range)
    IN  [lower |-> IF joined = {} THEN range.lower
                   ELSE (CHOOSE s \in joined : TRUE).lower,
         upper |-> range.upper]

\* The range that insert finally emplaces.
Merged(set, range) ==
    LET joined == Joined(set, range)
        touching == Touching(set, range)
    IN  [lower |-> IF joined = {} THEN range.lower
                   ELSE (CHOOSE s \in joined : TRUE).lower,
         upper |-> IF touching = {} THEN range.upper
                   ELSE (CHOOSE s \in touching : TRUE).upper]

\* A std::set keeps the element it has when an equivalent one is emplaced.
Emplace(set, range) ==
    IF \E s \in set : s.lower = range.lower THEN set ELSE set \cup {range}

Insert(set, range) ==
    IF range.lower > range.upper THEN set
    ELSE Emplace(set \ (Joined(set, range) \cup Erased(set, range)
                                           \cup Touching(set, range)),
                 Merged(set, range))
===============================================================================
