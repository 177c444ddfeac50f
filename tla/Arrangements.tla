----------------------------- MODULE Arrangements -----------------------------
(*****************************************************************************)
(* The operators of class ECS::Object::ByteArrangement (tools/objlinker.cpp):*)
(* the address the linker's memory image gives a section.  An arrangement is *)
(* a record of the members of the class; the bytes themselves are left out,  *)
(* only their number is kept, as extent.                                     *)
(*                                                                           *)
(* A section is a record [fixed, at, bytes]: at is the union of its origin,  *)
(* when it is fixed, and of its alignment; bytes is the number of its bytes. *)
(* All offsets wrap around at Modulus.                                       *)
(*****************************************************************************)
EXTENDS Ranges

Wrap(offset) == offset % Modulus

\* (offset + alignment - 1) / alignment * alignment
Align(offset, alignment) ==
    (Wrap(offset + alignment - 1) \div alignment) * alignment

EmptyArrangement == [layout |-> {}, origin |-> 0, placement |-> 0, extent |-> 0]

\* Faulty: a gap of exactly the size requested is passed over.
Skip_ExactFit(layout, lower, address, size, alignment) ==
    LET range == CHOOSE r \in layout : r.lower = lower
    IN  IF /\ \E r \in layout : r.lower = lower
           /\ address <= range.upper
           /\ Wrap(address + size) >= range.lower
        THEN Align(Wrap(range.upper + 1), alignment)
        ELSE address

\* Faulty: the address after a range is not aligned again.
Skip_Unaligned(layout, lower, address, size, alignment) ==
    LET range == CHOOSE r \in layout : r.lower = lower
    IN  IF /\ \E r \in layout : r.lower = lower
           /\ address <= range.upper
           /\ Wrap(address + size) > range.lower
        THEN Wrap(range.upper + 1)
        ELSE address

\* What the loop of NextFit does with the range that starts at lower, if any.
\* The break of the loop is not needed: an address that fits before a range
\* fits before those that follow it, too.
Skip(layout, lower, address, size, alignment) ==
    LET range == CHOOSE r \in layout : r.lower = lower
    IN  IF /\ \E r \in layout : r.lower = lower
           /\ address <= range.upper
           /\ Wrap(address + size) > range.lower
        THEN Align(Wrap(range.upper + 1), alignment)
        ELSE address

\* The loop visits the ranges by their lower bounds: fit[v] is the address
\* after all ranges that start below v.
NextFit(arrangement, size, alignment) ==
    LET fit[v \in 0 .. Modulus] ==
            IF v = 0 THEN Align(arrangement.placement, alignment)
            ELSE Skip(arrangement.layout, v - 1, fit[v - 1], size, alignment)
    IN  fit[Modulus]

\* The first section of an image, if fixed, makes its origin that of the image:
\* all addresses below are taken.
Rebase(arrangement, section) ==
    IF arrangement.layout = {} /\ section.fixed /\ section.at # 0
    THEN [arrangement EXCEPT
            !.layout = Insert({}, [lower |-> 0, upper |-> section.at - 1]),
            !.origin = section.at,
            !.placement = section.at]
    ELSE arrangement

Begin(arrangement, section, size) ==
    IF section.fixed THEN section.at
    ELSE IF size # 0 THEN NextFit(arrangement, size, section.at)
    ELSE Align(Wrap(arrangement.origin + arrangement.extent), section.at)

\* Faulty: the next section is placed wherever one fits.
Placed_Anywhere(arrangement, section, end) == arrangement.placement

\* Where the next section without origin may be placed.
Placed(arrangement, section, end) ==
    IF section.fixed THEN arrangement.placement ELSE end

\* Faulty: the image is shortened to the end of its last section.
Extent_Last(arrangement, end) == Wrap(end - arrangement.origin)

\* The bytes of the image grow up to the end of a section.
Extent(arrangement, end) ==
    LET extent == Wrap(end - arrangement.origin)
    IN  IF extent > arrangement.extent THEN extent ELSE arrangement.extent

\* The bytes of a section that ends at the end of all addresses are not entered.
Occupy(arrangement, section, begin) ==
    LET end == Wrap(begin + section.bytes)
    IN  [layout |-> IF end > begin
                    THEN Insert(arrangement.layout, [lower |-> begin, upper |-> end - 1])
                    ELSE arrangement.layout,
         origin |-> arrangement.origin,
         placement |-> Placed(arrangement, section, end),
         extent |-> Extent(arrangement, end)]

\* Faulty: the layout is trusted to be free.
Collides_Never(arrangement, section, begin) == FALSE

Collides(arrangement, section, begin) ==
    LET end == Wrap(begin + section.bytes)
    IN  end > begin /\ Overlaps(arrangement.layout, [lower |-> begin, upper |-> end - 1])

\* The new arrangement and the address returned; a section that meets another
\* is not entered, and the address is one that cannot be its origin.
Allocate(arrangement, section, size) ==
    LET based == Rebase(arrangement, section)
        begin == Begin(based, section, size)
    IN  IF Collides(based, section, begin)
        THEN [arrangement |-> based, address |-> IF section.at = 0 THEN 1 ELSE 0]
        ELSE [arrangement |-> Occupy(based, section, begin), address |-> begin]

\* The assertions of Designate, for all bytes of a section with an address.
Designates(arrangement, section) ==
    section.bytes # 0 =>
        /\ section.address >= arrangement.origin
        /\ section.address - arrangement.origin + section.bytes <= arrangement.extent
===============================================================================
