------------------------------- MODULE Replacement -------------------------------
(*****************************************************************************)
(* What macro replacement should yield: each token keeps the set of the      *)
(* macros it is a result of, and neither calls nor flags are needed.         *)
(*****************************************************************************)
EXTENDS MacroReplacement

Hidden(name, hidden) == [name |-> name, literal |-> <<>>, hidden |-> hidden]

\* Stands for an error.
Fault == Hidden("error", {})

\* Tokens that result from a macro as well.
Hide(list, hidden) == [i \in DOMAIN list |-> [list[i] EXCEPT !.hidden = @ \cup hidden]]

Present(list) == SelectSeq(list, LAMBDA token : token.name # Placemarker)

\* The operands of ## in a list are joined.
Join(list) ==
    LET Pair(first, second) ==
            IF first.name = Placemarker THEN second
            ELSE IF second.name = Placemarker THEN first
            ELSE IF <<first.name, second.name>> \notin DOMAIN Joins THEN Fault
            ELSE Hidden(Joins[<<first.name, second.name>>], first.hidden \cap second.hidden)
        IsOperator(i) == i \in DOMAIN list /\ list[i].name = Concatenator
        Result[i \in DOMAIN list] ==
            IF IsOperator(i - 1) THEN Pair(Result[i - 2], list[i]) ELSE list[i]
        kept == SelectSeq([i \in DOMAIN list |-> i],
                          LAMBDA i : ~IsOperator(i) /\ ~IsOperator(i + 1))
    IN  [n \in DOMAIN kept |-> Result[kept[n]]]

RECURSIVE Scanned(_, _), Instance(_, _, _)

\* The replacement list of a macro with arguments for its parameters.
Instance(definitions, macro, arguments) ==
    LET body == macro.replacementList
        IsOperand(i) == \E j \in {i - 1, i + 1} \cap DOMAIN body : body[j] = Concatenator
        Part(i) ==
            LET of == {arguments[p] : p \in {p \in DOMAIN macro.parameters : macro.parameters[p] = body[i]}}
            IN  IF of = {} THEN IF body[i] = "#" THEN <<>>
                                ELSE <<Hidden(body[i], {})>>
                ELSE LET argument == CHOOSE a \in of : TRUE
                     IN  IF i > 1 /\ body[i - 1] = "#"
                         THEN <<[Hidden("string", {}) EXCEPT
                                    !.literal = [j \in DOMAIN argument |-> argument[j].name]]>>
                         ELSE IF argument = <<>> THEN <<Hidden(Placemarker, {})>>
                         ELSE IF IsOperand(i) THEN argument ELSE Scanned(definitions, argument)
    IN  Join(FlattenSeq([i \in DOMAIN body |-> Part(i)]))

\* The tokens with all macros replaced.
Scanned(definitions, list) ==
    IF list = <<>> THEN <<>>
    ELSE LET token == Head(list)
             rest == Tail(list)
             macro == definitions[token.name]
             closing == Closing(Tail(rest))
             Then(list1) == list1 \o Scanned(definitions, rest)
         IN  IF token.name \in DOMAIN Predefined
             THEN Then(Present(<<Hidden(Predefined[token.name], {})>>))
             ELSE IF token.name \notin DOMAIN definitions \/ token.name \in token.hidden
             THEN Then(<<token>>)
             ELSE CASE macro.model = "object" ->
                        Scanned(definitions,
                                Hide(Present(Instance(definitions, macro, <<>>)),
                                     token.hidden \cup {token.name}) \o rest)
                    [] macro.model = "function" /\ (rest = <<>> \/ Head(rest).name # "(") ->
                        Then(<<token>>)
                    [] OTHER ->
                        IF closing = {} THEN <<Fault>>
                        ELSE LET i == CHOOSE i \in closing : TRUE
                                 arguments == Split(macro, SubSeq(rest, 2, i))
                             IN  IF Len(arguments) # Len(macro.parameters) THEN <<Fault>>
                                 ELSE Scanned(definitions,
                                        Hide(Present(Instance(definitions, macro, arguments)),
                                             (token.hidden \cap rest[i + 1].hidden) \cup {token.name})
                                        \o SubSeq(rest, i + 2, Len(rest)))

\* The tokens that a text is replaced by, unless it is in error.
ReplacementOf(definitions, text) ==
    LET scanned == Scanned(definitions, [i \in DOMAIN text |-> Hidden(text[i], {})])
    IN  [failed |-> \E i \in DOMAIN scanned : scanned[i].name = Fault.name,
         tokens |-> [i \in DOMAIN scanned |-> [name |-> scanned[i].name, literal |-> scanned[i].literal]]]
===============================================================================
