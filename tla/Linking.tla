-------------------------------- MODULE Linking --------------------------------
(*****************************************************************************)
(* What the linker promises to those who link programs, without the          *)
(* directory, the list of blocks and the recursion by which it is achieved:  *)
(* sections give way to substitutes, those that are needed are searched for, *)
(* and each gets an address of its kind, in the order of placements.  Linker *)
(* implements it.                                                            *)
(*****************************************************************************)
EXTENDS ObjectFiles

VARIABLES
    program,        \* the sections to link
    status,         \* what is done with them
    discarded,      \* the sections that gave way to another one
    used,           \* the sections that are linked
    addresses       \* where those placed so far begin

vars == <<program, status, discarded, used, addresses>>

Blocks == 1 .. Len(program)
Live == Blocks \ discarded

Nowhere == [b \in {} |-> 0]

Init ==
    /\ status = "reading"
    /\ discarded = {} /\ used = {}
    /\ addresses = Nowhere

-------------------------------------------------------------------------------
(* Reading: a section may give way to another one of the same name or alias. *)

IsSubstitute(section, other) ==
    \/ section.replaceable /\ ~other.replaceable
    \/ section.duplicable /\ section = other

Discard ==
    /\ status = "reading"
    /\ \E b, c \in Live :
        /\ b # c /\ NameSet(program[b]) \cap NameSet(program[c]) # {}
        /\ IsSubstitute(program[b], program[c])
        /\ discarded' = discarded \cup {b}
    /\ UNCHANGED <<program, status, used, addresses>>

-------------------------------------------------------------------------------
(* Searching: what is used is the entry point, required, or linked by what   *)
(* is used.                                                                  *)

\* The sections that the links of a section may stand for.
Linked(block) ==
    {c \in Live : \E i \in 1 .. Len(program[block].links) :
        {program[block].links[i].name, program[block].links[i].otherwise}
            \cap NameSet(program[c]) # {}}

IsGrounded(set, roots) ==
    \A grounds \in SUBSET Blocks :
        roots \subseteq grounds /\ (\A b \in grounds : Linked(b) \subseteq grounds)
            => set \subseteq grounds

Select ==
    /\ status = "reading" /\ status' = "searching"
    /\ \E entry \in Live :
        LET roots == {entry} \cup {b \in Live : program[b].required}
        IN  /\ IsEntryPoint(program[entry])
            /\ roots \subseteq used' /\ used' \subseteq Live
            /\ IsGrounded(used', roots)
    /\ UNCHANGED <<program, discarded, addresses>>

Search ==
    /\ status = "searching"
    /\ \E b \in used : \E c \in Linked(b) : used' = used \cup {c}
    /\ UNCHANGED <<program, status, discarded, addresses>>

Settle ==
    /\ status = "searching" /\ status' = "placing"
    /\ UNCHANGED <<program, discarded, used, addresses>>

-------------------------------------------------------------------------------
(* Placing: a section is never placed before one that precedes it, and never *)
(* where its origin is taken.                                                *)

IsPlace(section, begin) ==
    IF section.fixed THEN begin = section.at ELSE begin % section.at = 0

\* Sections without origin do not meet others either, but where the addresses
\* run out.
IsFree(section, begin) ==
    section.fixed =>
        \A c \in DOMAIN addresses : ImageOf(program[c]) = ImageOf(section) =>
            ~\E v \in Value : /\ begin <= v /\ v < begin + section.bytes
                             /\ addresses[c] <= v /\ v < addresses[c] + program[c].bytes

Place ==
    /\ status = "placing"
    /\ \E b \in used \ DOMAIN addresses : \E begin \in Value :
        /\ \A c \in used \ DOMAIN addresses : ~Less(program[c], program[b])
        /\ IsPlace(program[b], begin) /\ IsFree(program[b], begin)
        /\ addresses' = [c \in DOMAIN addresses \cup {b} |->
                            IF c = b THEN begin ELSE addresses[c]]
    /\ UNCHANGED <<program, status, discarded, used>>

\* Whatever a link without conditions stands for is linked, too.
IsComplete ==
    \A b \in used : \A i \in 1 .. Len(program[b].links) :
        LET link == program[b].links[i]
        IN  link.conditions = {} /\ link.name # NoName =>
                \/ \E c \in used : link.name \in NameSet(program[c])
                \/ \E c \in Blocks : link.name = program[c].group

Finish ==
    /\ status = "placing" /\ status' = "done"
    /\ DOMAIN addresses = used /\ IsComplete
    /\ UNCHANGED <<program, discarded, used, addresses>>

\* A program that cannot be linked is not written.
Fail ==
    /\ status \in {"reading", "searching", "placing"} /\ status' = "failed"
    /\ addresses' = Nowhere
    /\ UNCHANGED <<program, discarded, used>>

Next == Discard \/ Select \/ Search \/ Settle \/ Place \/ Finish \/ Fail

Spec == Init /\ [][Next]_vars
===============================================================================
