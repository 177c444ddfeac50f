------------------------------- MODULE MCLinker -------------------------------
(*****************************************************************************)
(* Programs for the linker: families that each exercise one of its parts.    *)
(* Names: 1 is main, 2 to 5 are sections and aliases, 6 and 7 are groups.    *)
(*****************************************************************************)
EXTENDS Linker

Section(name) ==
    [name |-> name, type |-> "code", fixed |-> FALSE, at |-> 1, group |-> NoName,
     bytes |-> 1, duplicable |-> FALSE, replaceable |-> FALSE, required |-> FALSE,
     aliases |-> <<>>, links |-> <<>>]

LinkTo(name) == [conditions |-> {}, name |-> name, otherwise |-> NoName]

If(condition, name, otherwise) ==
    [conditions |-> {condition}, name |-> name, otherwise |-> otherwise]

Main(links) == [Section(1) EXCEPT !.links = links]

\* Two sections of the same name, duplicable, replaceable, neither or both,
\* with an alias that may be the name of a third one, given before or after.
Directory ==
    LET Alias(name, offset) == <<[name |-> name, offset |-> offset]>>
        kinds == {[Section(2) EXCEPT !.duplicable = option[1], !.replaceable = option[2],
                                     !.aliases = aliases, !.bytes = 2] :
                    option \in BOOLEAN \X BOOLEAN,
                    aliases \in {<<>>, Alias(4, 1), Alias(3, 0)}}
        others == {[Section(3) EXCEPT !.replaceable = option, !.aliases = aliases] :
                    option \in BOOLEAN, aliases \in {<<>>, Alias(4, 0)}}
        mains == {Main(<<LinkTo(2), LinkTo(4)>>), Main(<<LinkTo(3)>>), Main(<<LinkTo(4)>>)}
    IN  {<<m, r, s, t>> : m \in mains, r \in kinds, s \in kinds, t \in others}
        \cup {<<t, r, Main(<<LinkTo(2)>>), s>> : r \in kinds, s \in kinds, t \in others}
        \cup {<<r, s, Section(5)>> : r \in kinds, s \in kinds}
        \cup {<<m, r, Section(5), t>> : m \in mains, r \in kinds, t \in others}

\* Links without conditions, in circles, some sections being required.
Circles ==
    LET links == {<<>>, <<LinkTo(2)>>, <<LinkTo(3), LinkTo(4)>>, <<LinkTo(1)>>}
        Named(name, l, required, type) ==
            [Section(name) EXCEPT !.links = l, !.required = required, !.type = type]
    IN  {<<Main(l1), Named(2, l2, FALSE, "code"), Named(3, l3, r, "initcode"),
           Named(4, l4, FALSE, "data")>> :
            l1 \in links, l2 \in links, l3 \in links, l4 \in links, r \in BOOLEAN}

\* Required sections in a group or not, with and without bytes.
Groups ==
    LET Kinds(name) ==
            {[Section(name) EXCEPT !.group = group, !.type = type, !.bytes = bytes,
                                   !.at = at, !.required = TRUE] :
                group \in {NoName, 6}, type \in {"initdata", "initcode", "code", "data"},
                bytes \in {0, 3}, at \in {1, 2}}
        Member(section) ==
            [Section(4) EXCEPT !.group = 6, !.type = section.type, !.at = section.at,
                               !.links = <<LinkTo(6), LinkTo(2)>>]
    IN  {<<Main(<<LinkTo(6), LinkTo(3)>>), r, s, Member(r)>> : r \in Kinds(2), s \in Kinds(3)}

\* Conditional links, one of them to a section that is missing.
Conditionals ==
    LET links == {<<>>, <<LinkTo(2)>>, <<If(2, 3, 4)>>, <<If(3, 2, NoName)>>,
                  <<If(1, 2, 3)>>, <<If(2, 5, NoName)>>}
        Named(name, l) == [Section(name) EXCEPT !.links = l]
    IN  {<<Main(l1 \o m), Named(2, l2), Named(3, l3), Section(4)>> :
            l1 \in links, m \in links, l2 \in links, l3 \in links}

\* Required sections with origins that may meet, and others behind them.
Origins ==
    LET Kinds(name) ==
            {[Section(name) EXCEPT !.fixed = TRUE, !.at = at, !.bytes = bytes, !.type = type,
                                   !.required = TRUE] :
                at \in {0, 2, 3, 14}, bytes \in {0, 3}, type \in {"code", "data"}}
        mains == {[Main(<<LinkTo(2), LinkTo(4)>>) EXCEPT !.at = at] : at \in {1, 4}}
    IN  {<<m, r, s, [Section(4) EXCEPT !.type = "data"]>> :
            m \in mains, r \in Kinds(2), s \in Kinds(3)}

AllPrograms == Directory \cup Circles \cup Groups \cup Conditionals \cup Origins
===============================================================================
