------------------------------- MODULE RangeSet -------------------------------
(*****************************************************************************)
(* A RangeSet object as its two users drive it: the layout of a byte         *)
(* arrangement (tools/objlinker.cpp) and the labels of an Oberon case        *)
(* statement (tools/obchecker.cpp).  Both have a proper range, ask operator  *)
(* [] first, and insert only a range that meets none of the set.             *)
(*****************************************************************************)
EXTENDS Ranges

VARIABLES
    set,        \* the std::set of ranges
    inserted    \* the values inserted so far (history, not in the program)

vars == <<set, inserted>>

Init ==
    /\ set = {}
    /\ inserted = {}

Add(range) ==
    /\ range.lower <= range.upper
    /\ ~Overlaps(set, range)
    /\ set' = Insert(set, range)
    /\ inserted' = inserted \cup {v \in Value : Holds(range, v)}

Next == \E range \in Interval : Add(range)

Spec == Init /\ [][Next]_vars

-------------------------------------------------------------------------------
(* The state of a RangeSet has the type of its declaration.                  *)
TypeOK ==
    /\ set \in SUBSET Interval
    /\ inserted \in SUBSET Value

(* The ranges are proper, and between two of them lies a value that neither  *)
(* holds: insert leaves no overlapping and no touching ranges behind, so     *)
(* that looking at the two neighbours of a value is enough for operator [].  *)
Canonical ==
    /\ \A s \in set : s.lower <= s.upper
    /\ \A s, t \in set : s # t => s.upper + 1 < t.lower \/ t.upper + 1 < s.lower

(* The ranges stand for the values inserted and for no others.               *)
Represents == Cover(set) = inserted

(* operator [] answers exactly whether some value of the range was inserted, *)
(* although it only looks at the two ranges next to the lower bound.         *)
OverlapsIsExact ==
    \A range \in Interval :
        range.lower <= range.upper =>
            (Overlaps(set, range) <=> \E v \in inserted : Holds(range, v))
===============================================================================
