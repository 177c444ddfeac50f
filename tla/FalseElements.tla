---------------------------- MODULE FalseElements ----------------------------
(***************************************************************************)
(* The elements of programs in the FALSE programming language, and the     *)
(* values they work on.  Of the elements, those that only print in another *)
(* form, refer to other programs, or are assembly code are left out.       *)
(***************************************************************************)
EXTENDS Integers, Sequences

\* The function that a program begins with, and the variables it may have,
\* whose letters are numbers as they are in the array of variables.
Main == 1
Letters == {0, 1}

\* Elements have a symbol and an argument, which is a number.  Programs consist
\* of functions, which are numbered, and these of elements.  Values have a type.
Element(symbol, argument) == [symbol |-> symbol, argument |-> argument]
Plain(symbol) == Element(symbol, 0)

Value(type, value) == [type |-> type, value |-> value]
Void == Value("Void", 0)
Integer(value) == Value("Integer", value)
Boolean(condition) == Integer(IF condition THEN 1 ELSE 0)

Literals == {"Integer", "Variable", "Function"}
Operations == {"Add", "Subtract", "Multiply", "Divide", "And", "Or", "Greater"}
Symbols == Literals \cup Operations \cup {
    "Assign", "Dereference", "Call", "If", "While", "Negate", "Not", "Put", "Get", "Select",
    "Equal", "Swap", "Delete", "Duplicate", "Rotate"}

AllPrograms == Seq(Seq([symbol : Symbols, argument : Int]))

\* The types of the values that an element expects, the top of the stack first.
Expected(element) ==
    CASE element.symbol = "Assign" -> <<"Variable", "Any">>
      [] element.symbol = "Dereference" -> <<"Variable">>
      [] element.symbol = "Call" -> <<"Function">>
      [] element.symbol = "If" -> <<"Function", "Integer">>
      [] element.symbol = "While" -> <<"Function", "Function">>
      [] element.symbol \in {"Negate", "Not", "Put", "Select"} -> <<"Integer">>
      [] element.symbol \in Operations -> <<"Integer", "Integer">>
      [] element.symbol \in {"Equal", "Swap"} -> <<"Any", "Any">>
      [] element.symbol \in {"Delete", "Duplicate"} -> <<"Any">>
      [] element.symbol = "Rotate" -> <<"Any", "Any", "Any">>
      [] OTHER -> <<>>

\* Whether a stack, whose top is first, begins with values of these types.
Begins(values, types) ==
    /\ Len(values) >= Len(types)
    /\ \A index \in DOMAIN types : types[index] \in {"Any", values[index].type}

\* An element fails for want of such values, and so does the selection of a
\* value that is not there.
FailsOn(element, values) ==
    \/ ~Begins(values, Expected(element))
    \/ element.symbol = "Select" /\ values[1].value >= Len(values) - 1
=============================================================================
