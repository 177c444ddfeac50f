------------------------------ MODULE ObjectFiles ------------------------------
(*****************************************************************************)
(* The sections of object files and their names (tools/object.hpp), as the   *)
(* linker looks at them.                                                     *)
(*                                                                           *)
(* Names are numbers in their lexicographic order; NoName is the empty one.  *)
(* A link [conditions, name, otherwise] stands for the name                  *)
(* "c1?c2?name:otherwise".  The bytes of a section are left out but for      *)
(* their number.                                                             *)
(*****************************************************************************)
EXTENDS Arrangements, Sequences

CONSTANTS
    EntryPoint,     \* the name of the entry point, "main"
    CodeImage, DataImage, ConstImage    \* the images given to Link, maybe equal

NoName == 0

Types == {"header", "initdata", "initcode", "code", "const", "data", "trailer"}

Aliases == [name : Nat \ {NoName}, offset : Value]

Links == [conditions : SUBSET (Nat \ {NoName}), name : Nat, otherwise : Nat]

Sections == [name : Nat \ {NoName}, type : Types, fixed : BOOLEAN, at : Value, group : Nat,
             bytes : Value, duplicable : BOOLEAN, replaceable : BOOLEAN, required : BOOLEAN,
             aliases : Seq(Aliases), links : Seq(Links)]

-------------------------------------------------------------------------------
(* The names of a section.                                                   *)

\* The name of a section and its aliases, in the order they are entered.
Names(section) == <<[name |-> section.name, offset |-> 0]>> \o section.aliases

NameSet(section) == {Names(section)[i].name : i \in 1 .. Len(Names(section))}

-------------------------------------------------------------------------------
(* The images and the order of sections.                                     *)

IsCode(type) == type \in {"code", "initcode", "initdata"}

\* The image that a section is part of.
ImageOf(section) ==
    IF IsCode(section.type) THEN CodeImage
    ELSE IF section.type = "data" THEN DataImage
    ELSE ConstImage

IsEntryPoint(section) ==
    section.type = "code" /\ section.group = NoName /\ section.name = EntryPoint

\* Block::GetPlacement, with the order of enum Placement.
Placement(section) ==
    IF section.fixed THEN 0
    ELSE IF IsEntryPoint(section) THEN 4
    ELSE [header |-> 1, initdata |-> 2, initcode |-> 3, code |-> 5,
          const |-> 6, data |-> 7, trailer |-> 8][section.type]

\* Block::operator <
Less(s, t) ==
    LET p == Placement(s)
        q == Placement(t)
    IN  IF p # q THEN p < q
        ELSE IF s.fixed THEN s.at < t.at
        ELSE IF (s.group = NoName) # (t.group = NoName) THEN s.group # NoName
        ELSE IF s.group # t.group THEN s.group < t.group
        ELSE s.bytes = 0 /\ t.bytes # 0
===============================================================================
