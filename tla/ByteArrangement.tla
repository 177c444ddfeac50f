---------------------------- MODULE ByteArrangement ----------------------------
(*****************************************************************************)
(* One memory image while the linker arranges its sections: what             *)
(* Context::Arrange (tools/objlinker.cpp) asks of ByteArrangement::Allocate, *)
(* and the two addresses it refuses.  As Block::operator < sorts them, the   *)
(* fixed sections come first, by their origins, then all others.  A member   *)
(* of a group asks for the size of the whole group, any other section for    *)
(* the number of its own bytes.                                              *)
(*****************************************************************************)
EXTENDS Arrangements, Sequences

CONSTANTS
    Origins,        \* the origins of fixed sections
    Alignments,     \* the alignments of the others, powers of two
    Sizes,          \* the numbers of bytes of a section or a group
    MaxSections     \* bound: sections of the image

ASSUME InputAssumption ==
    /\ Origins \subseteq Value
    /\ Alignments \subseteq Value \ {0}
    /\ Sizes \subseteq Value
    /\ MaxSections \in Nat

VARIABLES
    arrangement,    \* the state of the ByteArrangement
    sections,       \* the sections arranged, in order, with their addresses
    failed,         \* the linker emitted an error and stopped
    tight           \* some request came near the end of all addresses (history)

vars == <<arrangement, sections, failed, tight>>

FixedRequest ==
    { r \in [fixed : {TRUE}, at : Origins, bytes : Sizes, size : Sizes] :
        r.size = r.bytes }

OtherRequest ==
    { r \in [fixed : {FALSE}, at : Alignments, bytes : Sizes, size : Sizes] :
        r.bytes <= r.size }

Request == FixedRequest \cup OtherRequest

\* Whether the addresses after everything arranged so far still have room for
\* a request without origin, so that none of the sums computed for it wraps.
Suffices(arr, request) ==
    ~request.fixed =>
        LET room == request.at + request.size
        IN  /\ \A r \in arr.layout : r.upper + 1 + room < Modulus
            /\ arr.placement + room < Modulus
            /\ arr.origin + arr.extent + room < Modulus

Init ==
    /\ arrangement = EmptyArrangement
    /\ sections = <<>>
    /\ failed = FALSE
    /\ tight = FALSE

\* The order of the blocks: fixed ones first, by their origins.
InBlockOrder(request) ==
    request.fixed =>
        \A i \in 1 .. Len(sections) : sections[i].fixed /\ sections[i].at <= request.at

Refuses(request, address) ==
    \/ request.fixed /\ address # request.at
    \/ Wrap(address + request.bytes) < address

Arrange(request) ==
    /\ ~failed
    /\ Len(sections) < MaxSections
    /\ InBlockOrder(request)
    /\ LET result == Allocate(arrangement, request, request.size)
       IN  /\ arrangement' = result.arrangement
           /\ IF Refuses(request, result.address)
              THEN failed' = TRUE /\ UNCHANGED sections
              ELSE /\ sections' = Append(sections,
                        [fixed |-> request.fixed, at |-> request.at,
                         bytes |-> request.bytes, address |-> result.address])
                   /\ UNCHANGED failed
    /\ tight' = (tight \/ ~Suffices(Rebase(arrangement, request), request))

Next == \E request \in Request : Arrange(request)

Spec == Init /\ [][Next]_vars

-------------------------------------------------------------------------------
(* The members of the byte arrangement and the sections have their types.    *)
TypeOK ==
    /\ arrangement \in [layout : SUBSET Interval, origin : Value,
                        placement : Value, extent : Value]
    /\ sections \in Seq([fixed : BOOLEAN, at : Value, bytes : Value, address : Value])
    /\ failed \in BOOLEAN
    /\ tight \in BOOLEAN

Occupies(section, v) == section.address <= v /\ v < section.address + section.bytes

(* No byte of the image belongs to two sections, although a section may be   *)
(* placed between fixed ones, and although the sections that are found to    *)
(* collide are reported through nothing but an impossible address.           *)
SectionsDisjoint ==
    tight \/ \A i, j \in 1 .. Len(sections) : i # j =>
                ~\E v \in Value : Occupies(sections[i], v) /\ Occupies(sections[j], v)

(* Every section linked is where its directives want it: at its origin, or   *)
(* at a multiple of its alignment.                                           *)
PlacedAsRequired ==
    \A i \in 1 .. Len(sections) :
        IF sections[i].fixed THEN sections[i].address = sections[i].at
        ELSE sections[i].address % sections[i].at = 0

(* The assertions of Designate hold for every section that Link copies: its  *)
(* bytes lie inside the bytes of the image.  After an error Link copies none.*)
DesignateInBounds ==
    tight \/ failed \/ \A i \in 1 .. Len(sections) : Designates(arrangement, sections[i])

(* The sections without origin keep the order of the blocks in memory: the   *)
(* initialising code comes before the entry point, whatever is fixed.        *)
InOrder ==
    tight \/ \A i, j \in 1 .. Len(sections) :
                i < j /\ ~sections[i].fixed /\ ~sections[j].fixed =>
                    sections[i].address + sections[i].bytes <= sections[j].address

(* NextFit finds the first address that is aligned, not before the previous  *)
(* section, and followed by as many free bytes as requested.                 *)
Fits(address, size, alignment) ==
    /\ address >= arrangement.placement
    /\ address % alignment = 0
    /\ \A r \in arrangement.layout :
            address + size <= r.lower \/ r.upper < address

NextFitIsFirst ==
    \A request \in Request :
        ~request.fixed /\ request.size # 0 /\ Suffices(arrangement, request) =>
            LET address == NextFit(arrangement, request.size, request.at)
            IN  /\ Fits(address, request.size, request.at)
                /\ \A a \in 0 .. address - 1 : ~Fits(a, request.size, request.at)

(* The assertions of Designate, whatever the sections of the image: none    *)
(* that Arrange accepts begins before its origin or ends behind its bytes.   *)
DesignateAsserts ==
    ~failed => \A i \in 1 .. Len(sections) : Designates(arrangement, sections[i])
===============================================================================
