------------------------------- MODULE MCFalse -------------------------------
(***************************************************************************)
(* Small programs: all short sequences of operations on integers, on truth *)
(* values and on functions, and some with loops and recursion.             *)
(***************************************************************************)
EXTENDS FalseEmitter

MCInputs == {0, 2}

Number(value) == Element("Integer", value)
Fun(function) == Element("Function", function)
Var(letter) == Element("Variable", letter)
All(symbols) == {Plain(symbol) : symbol \in symbols}

\* A program with two functions, which have the numbers 2 and 3.
Program(main, condition, body) == <<main, condition, body>>

Arithmetic ==
    {Program(<<Number(1), Number(-2)>> \o some \o <<Plain("Put")>>, <<>>, <<>>) :
        some \in [1 .. 3 -> {Number(2)} \cup All({"Subtract", "Multiply", "Negate", "Swap", "Rotate"})]}
Divisions == {Program(<<Number(value1), Number(value2), Plain("Divide")>>, <<>>, <<>>) :
                value1 \in -3 .. 3, value2 \in {-2, 2, 3}}
\* Values that differ, as equal ones are not compared as they should be.
Comparisons ==
    {Program(<<Number(pair[1]), Number(pair[2]), Plain("Greater")>>, <<>>, <<>>) :
        pair \in {pair \in (-2 .. 2) \X (-2 .. 2) : pair[1] # pair[2]}}
Selections == {Program(<<Number(1), Number(2), Number(index), Plain("Select")>>, <<>>, <<>>) : index \in 0 .. 4}

Logic ==
    {Program(<<Number(1)>> \o some, <<>>, <<>>) :
        some \in [1 .. 3 -> {Number(0)} \cup All({"Equal", "Not", "And", "Or", "Duplicate", "Delete"})]}

Store(letter) == <<Var(letter), Plain("Assign")>>
Load(letter) == <<Var(letter), Plain("Dereference")>>

\* Functions that take from the stack and leave on it whatever they like.
Functions ==
    {Program(<<Number(1)>> \o some, function1, <<Fun(2), Plain("Call")>>) :
        some \in [1 .. 4 -> {Fun(2), Fun(3), Plain("If"), Plain("Call")}],
        function1 \in {<<>>, <<Plain("Delete")>>, <<Plain("Duplicate")>>, <<Plain("Get")>>}}

Assignments ==
    {Program(<<Number(2), Var(0), Plain("Assign"), Fun(2), Var(1), Plain("Assign")>> \o some,
             <<Var(0), Plain("Dereference"), Plain("Put")>>, <<>>) :
        some \in [1 .. 3 -> {Var(0), Var(1)} \cup All({"Dereference", "Call"})]}

\* Values of the same type, whether they are assigned to variables or not.
Equalities ==
    LET Operands == {{<<Number(2)>>, <<Number(1)>>, Load(0)}, {<<Fun(2)>>, <<Fun(3)>>, Load(1)},
                     {<<Var(0)>>, <<Var(1)>>}}
    IN UNION {{Program(<<Number(2)>> \o Store(0) \o <<Fun(2)>> \o Store(1) \o pair[1] \o pair[2] \o <<Plain("Equal")>>,
                       <<>>, <<>>) : pair \in same \X same} : same \in Operands}

\* 2 a: [ a; ] [ a; . a; 1 - a: ] # with other conditions and bodies.
Loop == <<Fun(2), Fun(3), Plain("While")>>
Decrement(letter) == Load(letter) \o <<Number(1), Plain("Subtract")>> \o Store(letter)

Loops == {
    Program(<<Number(2)>> \o Store(0) \o Loop, Load(0), Load(0) \o <<Plain("Put")>> \o Decrement(0)),
    Program(<<Number(2)>> \o Store(0) \o Loop \o <<Plain("Put")>>, Load(0), Load(0) \o Decrement(0)),
    Program(<<Number(3)>> \o Loop, <<Plain("Duplicate")>>, <<Number(1), Plain("Subtract")>>),
    Program(Loop, <<Plain("Get")>>, <<Plain("Negate")>>),
    Program(Loop, <<Plain("Delete")>>, <<>>),
    Program(<<Number(1)>> \o Loop, <<>>, <<Number(0)>>),
    Program(<<Number(1)>> \o Loop, <<Plain("Delete"), Plain("Get")>>, <<Plain("Negate"), Number(2)>>)}

\* Loops within loops and functions that call themselves.
Nested == {
    <<<<Number(2)>> \o Store(0) \o Loop,
      Load(0), <<Number(2)>> \o Store(1) \o <<Fun(4), Fun(5), Plain("While")>> \o Decrement(0),
      Load(1), Load(0) \o <<Plain("Put")>> \o Decrement(1)>>,
    Program(<<Fun(2)>> \o Store(0) \o <<Number(3)>> \o Load(0) \o <<Plain("Call")>>,
            <<Plain("Duplicate"), Fun(3), Plain("If")>>,
            <<Number(-1), Plain("Add")>> \o Load(0) \o <<Plain("Call")>>),
    Program(<<Fun(2)>> \o Store(0) \o <<Number(3)>> \o Load(0) \o <<Plain("Call")>>,
            <<Plain("Duplicate"), Fun(3), Plain("If"), Plain("Put")>>,
            <<Plain("Duplicate"), Number(1), Plain("Subtract")>> \o Load(0) \o <<Plain("Call")>>)}

MCPrograms ==
    Arithmetic \cup Divisions \cup Comparisons \cup Selections \cup Logic
        \cup Functions \cup Assignments \cup Equalities \cup Loops \cup Nested
=============================================================================
