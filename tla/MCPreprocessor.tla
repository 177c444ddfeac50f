---------------------------- MODULE MCPreprocessor ----------------------------
(*****************************************************************************)
(* Source files for the preprocessor: families that each exercise one of its *)
(* parts.                                                                    *)
(*****************************************************************************)
EXTENDS Inclusion

Number(number) == [op |-> "number", number |-> number, name |-> "", operands |-> <<>>]
Excessive == [Number(0) EXCEPT !.op = "excessive"]
Name(op, name) == [Number(0) EXCEPT !.op = op, !.name = name]
Apply(op, operands) == [Number(0) EXCEPT !.op = op, !.operands = operands]

Object(list) == [model |-> "object", parameters |-> <<>>, replacementList |-> list]
Function(parameters, list) ==
    [model |-> "function", parameters |-> parameters, replacementList |-> list]

Plain(directive) ==
    [directive |-> directive, name |-> "", number |-> 0, form |-> "source", condition |-> Number(0),
     tokens |-> <<>>, macro |-> Object(<<>>)]
Named(directive, name) == [Plain(directive) EXCEPT !.name = name]
Asking(directive, condition) == [Plain(directive) EXCEPT !.condition = condition]
Including(name, form) == [Named("include", name) EXCEPT !.form = form]
Define(name, macro) == [Named("define", name) EXCEPT !.macro = macro]
Line(number) == [Plain("line") EXCEPT !.number = number]
Text(list) == [Plain("text") EXCEPT !.tokens = list]
Some(name) == Text(<<name>>)

In(directory, name) == [directory |-> directory, name |-> name]

MCMain == In("", "main")
MCSourceDirectories == <<"src">>
MCHeaderDirectories == <<"inc", "lib">>

Alone(lines) == MCMain :> lines

\* All sequences of conditional directives, with lines between them.
Nested ==
    LET some == {Asking("if", Number(0)), Asking("if", Number(1)), Asking("elif", Number(1)),
                 Plain("else"), Plain("endif"), Some("b")}
        Between(s) == <<s[1], Some("a"), s[2], s[3], Some("b"), s[4], s[5], Some("c"), s[6]>>
        opened == {s \in [1 .. 6 -> some \ {Some("b")}] : s[1].directive = "if"}
    IN  {Alone(s) : s \in [1 .. 4 -> some]} \cup {Alone(Between(s)) : s \in opened}

\* Conditions, over the numbers given and operands that are in error.
Expressions(numbers) ==
    LET simple == {Number(n) : n \in numbers}
                    \cup {Apply("divide", <<Number(1), Number(0)>>), Name("defined", "M")}
        pairs == [1 .. 2 -> simple]
        Binary(ops) == {Apply(op, s) : op \in ops, s \in pairs}
        Ternary(ops) == {Apply(op, s) : op \in ops, s \in [1 .. 3 -> simple]}
    IN  {Excessive} \cup {Apply("not", <<e>>) : e \in simple \cup {Excessive}}
            \cup Binary({"less", "divide"}) \cup Ternary({"and", "or", "conditional"})
            \cup {Apply(op, <<e, f>>) : op \in {"and", "or"}, f \in simple,
                                       e \in Binary({"and", "or"}) \cup Ternary({"conditional"})}
            \cup {Apply(op, <<f, e>>) : op \in {"and", "or"}, f \in simple \cup {Excessive},
                                       e \in Binary({"and", "or", "divide"})}
            \cup {Apply("conditional", <<f, e, Number(1)>>) : f \in simple, e \in Binary({"and", "or"})}

Asked(conditions) ==
    {Alone(<<Asking("if", Number(0)), Asking("elif", condition), Some("a"), Plain("else"), Some("b"),
             Plain("endif"), Asking("if", condition), Some("c"), Plain("endif")>>) :
        condition \in conditions}

\* Macros that are defined in some of the branches.
Defined ==
    LET some == {Define("M", Object(<<>>)), Define("M", Object(<<"b">>)), Named("undef", "M"), Named("ifdef", "M"),
                 Named("ifndef", "M"), Asking("elif", Name("defined", "M")), Plain("endif")}
    IN  {Alone(<<s[1], s[2], s[3], Some("M"), s[4]>>) : s \in [1 .. 4 -> some]}

\* A header of two files that include it, or others, or themselves, in turn.
Headers ==
    LET h == In("inc", "h")  k == In("inc", "k")
        Guarded(lines) == <<Named("ifndef", "H"), Define("H", Object(<<>>))>> \o lines \o <<Plain("endif")>>
        some == {Including("h", "header"), Including("k", "source"), Some("a"), Line(7)}
        first == {<<>>, <<Some("h")>>, Guarded(<<Some("h"), Including("k", "source")>>),
                  <<Some("h"), Including("k", "source"), Some("i")>>,
                  <<Named("ifdef", "H"), Some("h"), Plain("else"), Including("k", "source"), Some("i"),
                    Plain("endif"), Line(5), Some("j")>>,
                  <<Plain("endif")>>, <<Asking("if", Number(1))>>, <<Plain("else")>>}
        second == {<<Some("k"), Named("undef", "H")>>, <<Including("h", "header")>>,
                   <<Define("H", Object(<<>>)), Including("h", "header"), Some("k")>>,
                   <<Line(3), Including("h", "header")>>,
                   Guarded(<<Including("k", "source"), Some("k")>>)}
    IN  {(MCMain :> lines) @@ (h :> lines1) @@ (k :> lines2) :
            lines \in [1 .. 3 -> some] \cup {<<Asking("if", Number(1)), s, Plain("else"), s, Plain("endif"), t>> :
                                                s, t \in some},
            lines1 \in first, lines2 \in second}

\* Files of the same name in different directories, some of them missing.
Directories ==
    LET places == {"", "src", "inc", "lib"}
        Lines1(directory) == <<Some(directory), Including("n", "source")>>
        Files(where, inner) ==
            [f \in {In(directory, "m") : directory \in where} \cup {In(directory, "n") : directory \in inner} |->
                IF f.name = "m" THEN Lines1(f.directory) ELSE <<Some(f.directory), Plain("unsupported")>>]
    IN  {(MCMain :> <<Including("m", form), Some("a")>>) @@ Files(where, inner) :
            form \in {"source", "header"}, where \in SUBSET places, inner \in SUBSET places}
            \cup {(MCMain :> <<Asking("if", Name("has_include", "m")), Including("m", "header"), Plain("endif")>>)
                    @@ [f \in {In(directory, "m") : directory \in where} |-> <<Some(f.directory)>>] :
                        where \in SUBSET places}

\* #pragma end and errors, in lines that are included or not.
Ends ==
    LET some == {Plain("end"), Plain("error"), Plain("unsupported"), Asking("if", Number(0)),
                 Asking("if", Number(1)), Plain("endif"), Some("a")}
    IN  {Alone(s) : s \in [1 .. 4 -> some]}

-----------------------------------------------------------------------------
(* Macros, and texts that name them.                                         *)

UpTo(names, n) == UNION {[1 .. k -> names] : k \in 0 .. n}

Invoking(name, arguments) == <<name, "(">> \o arguments \o <<")">>

MCPredefined == ("C" :> "c") @@ ("D" :> Placemarker)

MCJoins ==
    (<<"a", "a">> :> "aa") @@ (<<"a", "b">> :> "ab") @@ (<<"a", "B">> :> "aB") @@ (<<"a", "f">> :> "af")
        @@ (<<"a", "g">> :> "ag") @@ (<<"a", "p">> :> "ap") @@ (<<"a", "q">> :> "aq")
        @@ (<<"A", "b">> :> "Ab")


\* A file that defines macros by name before the texts.
Replacing(macro, text) ==
    Alone([i \in 1 .. Cardinality(DOMAIN macro) |-> LET name == SetToSeq(DOMAIN macro)[i]
                                                    IN  Define(name, macro[name])] \o <<Text(text)>>)

\* Macros whose replacement lists name others, but not in a cycle.
Chains ==
    {Replacing(("A" :> Object(a)) @@ ("B" :> Object(b)), text) :
        a \in UpTo({"x", "B", "C", "D"}, 2), b \in UpTo({"x", "C", "D"}, 2),
        text \in {<<"A">>, <<"B", "A", "x">>}}

\* Cycles that the text names, or that it only leads to, which never ends.
Cycles ==
    {Replacing(each, text) :
        each \in {"A" :> Object(a) : a \in UpTo({"x", "A"}, 3)}
                 \cup {("A" :> Object(a)) @@ ("B" :> Object(<<"A">>)) : a \in UpTo({"x", "A", "B"}, 2)},
        text \in {<<"A", "x">>, <<"B", "x">>}}

Bodies ==
    {<<>>, <<"p">>, <<"p", "p">>, <<"#", "p">>, <<"a", Concatenator, "p">>, <<"(", "p", ")">>,
     <<"B", "p">>, <<"f", "p">>}

\* What ProcessDefineDirective refuses is left out.
IsDefinable(parameters, body) ==
    \A i \in DOMAIN body :
        /\ body[i] = "#" => i < Len(body) /\ \E p \in DOMAIN parameters : parameters[p] = body[i + 1]
        /\ body[i] = "__VA_ARGS__" => \E p \in DOMAIN parameters : parameters[p] = body[i]

\* Invocations with arguments of any form.
Invocations ==
    LET lists == {<<>>, <<"p">>, <<"p", "q">>, <<"__VA_ARGS__">>, <<"p", "__VA_ARGS__">>}
        bodies == Bodies \cup {<<"__VA_ARGS__">>, <<"q", "#", "p">>, <<"a", Concatenator, "q", "p">>}
        definable == {pair \in lists \X bodies : IsDefinable(pair[1], pair[2])}
    IN  {Replacing(("f" :> Function(pair[1], pair[2])) @@ ("B" :> Object(<<"b">>)) @@ ("aa" :> Object(<<"B">>)),
                   Invoking("f", s) \o <<"a">>) :
            pair \in definable, s \in UpTo({"a", "B", ",", "(", ")"}, 3)}

\* Invocations within arguments and replacement lists, where f may name B, or
\* B may invoke f.
Nests ==
    LET invoked == {<<f, <<"b">>>> : f \in Bodies \ {<<"f", "p">>}}
        invoking == {<<f, <<"f", "(", "a", ")">>>> : f \in Bodies \ {<<"f", "p">>, <<"B", "p">>}}
    IN  {Replacing(("f" :> Function(<<"p">>, pair[1])) @@ ("B" :> Object(pair[2]))
                        @@ ("aa" :> Object(<<"b">>)) @@ ("g" :> Function(<<"p", "q">>, g)), text) :
            pair \in invoked \cup invoking,
            g \in {<<"f", "(", "p", ")", "q">>, <<"p", "(", "q", ")">>, <<"a", Concatenator, "q">>},
            text \in {Invoking("f", Invoking("f", <<"B">>)),
                      Invoking("g", <<"f", ",">> \o Invoking("f", <<"a">>)),
                      Invoking("f", Invoking("g", <<"a", ",", "B">>)), Invoking("g", <<"a", ",", "f">>),
                      <<"f">>, Invoking("f", <<"f">>) \o <<"(", "a", ")">>,
                      Invoking("f", Invoking("g", <<"a">>))}}

\* Macros that are defined and undefined between texts, in a header, or in
\* branches, and that a condition asks for.
Spread ==
    LET h == In("inc", "h")
        some == {Define("f", Function(<<"p">>, <<"A", "p">>)), Named("undef", "A"), Named("ifdef", "A"),
                 Including("h", "header"), Text(<<"f", "(", "A", ")", "A">>), Plain("endif")}
    IN  {(MCMain :> <<Define("A", Object(<<"x">>))>> \o s \o <<Text(<<"A", "f", "(", "x", ")">>)>>) @@ (h :> lines) :
            s \in [1 .. 3 -> some], lines \in {<<Named("undef", "A"), Define("A", Object(<<"y">>))>>,
                                               <<Text(<<"A">>), Named("undef", "f")>>}}

MCProjects ==
    {Nested, Asked(Expressions({0, 1})), Defined, Headers, Directories, Ends,
     Chains, Cycles, Invocations, Nests, Spread}
===============================================================================
