--------------------------- MODULE MCSectionAssembler ---------------------------
(*****************************************************************************)
(* Sections for the assembler: families that each exercise one of its parts. *)
(* Labels are 1 and 2.                                                       *)
(*****************************************************************************)
EXTENDS SectionAssembler

ShortReach == -4 .. 4

Number(number) == [kind |-> "number", name |-> NoLabel, number |-> number]
Name(name) == [kind |-> "sum", name |-> name, number |-> 0]
Minus(number, name) == [kind |-> "difference", name |-> name, number |-> number]

Line(label, directive, operand) ==
    [label |-> label, directive |-> directive, operand |-> operand]

Plain(directive, operand) == Line(NoLabel, directive, operand)

\* All sequences of conditional directives, with lines between them.
Nested ==
    LET lines == {Plain("if", Number(0)), Plain("if", Number(1)), Plain("elif", Number(1)),
                  Plain("else", Number(0)), Plain("endif", Number(0)),
                  Plain("byte", Number(7))}
        Between(s) == <<s[1], Plain("byte", Number(7)), s[2], s[3], Plain("byte", Number(7)),
                        s[4], s[5], Plain("byte", Number(7)), s[6]>>
    IN  [1 .. 5 -> lines] \cup {Between(s) : s \in [1 .. 6 -> lines]}

\* Lines that define and use labels, in any order.
References ==
    LET lines == {Line(1, "byte", Name(2)), Line(2, "empty", Number(0)),
                  Line(1, "equals", Number(3)), Line(2, "jump", Name(1)),
                  Plain("jump", Name(2)), Plain("reserve", Minus(9, 2)),
                  Plain("align", Number(4)), Plain("pad", Name(1)),
                  Plain("reserve", Number(6))}
    IN  [1 .. 4 -> lines]

\* Labels in branches, and conditions that depend on labels.
Branches ==
    LET conditions == {Number(0), Number(1), Name(1), Name(2), Minus(1, 2)}
        first == {Line(1, "byte", Number(7)), Line(2, "jump", Name(1)),
                  Line(1, "equals", Number(3)), Plain("align", Number(2))}
        second == first \cup {Line(1, "equals", Number(0)), Plain("byte", Name(2))}
        last == {Line(2, "byte", Name(1)), Line(1, "reserve", Number(2)), Plain("jump", Name(2))}
    IN  {<<f, Plain("if", c), s, Plain("else", Number(0)), t, Plain("endif", Number(0)), l>> :
            f \in first, c \in conditions, s \in second, t \in second, l \in last}

\* Attributes of the section, specified and read in branches that depend on
\* labels and on the attributes themselves.
Specified ==
    LET Attribute(kind) == [kind |-> kind, name |-> NoLabel, number |-> 0]
        conditions == {Number(1), Name(1), Minus(1, 1),
                       Attribute("alignment"), Attribute("origin"), Attribute("required")}
        settings == {Plain("alignment", Number(4)), Plain("alignment", Name(1)),
                     Plain("origin", Number(0)), Plain("origin", Name(1)),
                     Plain("required", Number(0)), Plain("group", Name(2))}
        readers == {Plain("align", Attribute("alignment")), Plain("pad", Attribute("origin")),
                    Plain("reserve", Attribute("required"))}
        last == {Plain("duplicable", Number(0)), Plain("replaceable", Number(0)),
                 Plain("group", Name(1)), Plain("group", Name(3))}
    IN  {<<f, Plain("if", c), s, Plain("else", Number(0)), t, Plain("endif", Number(0)),
           Plain("reserve", Number(4)), Line(1, "empty", Number(0)), l>> :
            f \in settings \cup readers, s, t \in settings \cup readers,
            l \in settings \cup readers \cup last, c \in conditions}

AllPrograms == Nested \cup References \cup Branches \cup Specified
===============================================================================
