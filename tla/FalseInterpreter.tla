--------------------------- MODULE FalseInterpreter ---------------------------
(***************************************************************************)
(* The interpreter of the FALSE programming language, which defines what   *)
(* its programs mean.  Values on the stack have a type, and using one of   *)
(* the wrong type is an error.  Functions that interpret functions nest in *)
(* the interpreter; the functions that are active are kept on a stack of   *)
(* their own here.                                                         *)
(***************************************************************************)
EXTENDS FalseElements, SequencesExt

CONSTANT
    Inputs      \* the characters that may be read

VARIABLES
    program,    \* the program that is interpreted
    stack,      \* the values on the stack, the top of which is last
    variables,  \* the values of the variables
    active,     \* the functions that are active, the innermost of which is last
    output,     \* the last character that was written, and how many there were
    status      \* "running", "error", or "exited" with the top of the stack

vars == <<program, stack, variables, active, output, status>>

-----------------------------------------------------------------------------
(* Operations on integers, whose size does not matter here.                *)

Magnitude(value) == IF value < 0 THEN -value ELSE value
Quotient(value1, value2) ==
    LET quotient == Magnitude(value1) \div Magnitude(value2)
    IN IF (value1 < 0) = (value2 < 0) THEN quotient ELSE -quotient

\* The value that an operation on two integers yields.
Operation(symbol, value1, value2) ==
    CASE symbol = "Add" -> Integer(value1 + value2)
      [] symbol = "Subtract" -> Integer(value1 - value2)
      [] symbol = "Multiply" -> Integer(value1 * value2)
      [] symbol = "Divide" -> Integer(Quotient(value1, value2))
      [] symbol = "And" -> Boolean(value1 # 0 /\ value2 # 0)
      [] symbol = "Or" -> Boolean(value1 # 0 \/ value2 # 0)
      [] symbol = "Greater" -> Boolean(value1 > value2)

-----------------------------------------------------------------------------
(* A function that is active is at some element and may be in a loop.      *)

NoLoop == [condition |-> Main, body |-> Main, testing |-> FALSE]
Frame(function) == [function |-> function, at |-> 1, loop |-> NoLoop]

Depth == Len(active)
Current == active[Depth]
Elements == program[Current.function]
InLoop == Current.loop # NoLoop

Becoming(frame) == Append(Front(active), frame)

\* Going on with the next element, in this state of a loop.
Continue(loop) == Becoming([Current EXCEPT !.at = @ + 1, !.loop = loop])
Advance == active' = Continue(NoLoop)
Enter(function) == active' = Append(Continue(NoLoop), Frame(function))

\* The values at the top of the stack, and what remains without them.
Top(index) == stack[Len(stack) + 1 - index]
Without(count) == SubSeq(stack, 1, Len(stack) - count)

Replace(count, values) == stack' = Without(count) \o values

\* The stack with its top first.
Downwards == [index \in DOMAIN stack |-> Top(index)]
Have(types) == Begins(Downwards, types)

-----------------------------------------------------------------------------
(* Interpreting one element.                                               *)

\* The next element, unless it fails, or a loop or a function ends here.
At(symbols) ==
    /\ status = "running"
    /\ ~InLoop
    /\ Current.at \in DOMAIN Elements
    /\ Elements[Current.at].symbol \in symbols
    /\ ~FailsOn(Elements[Current.at], Downwards)
    /\ UNCHANGED <<program, status>>

Argument == Elements[Current.at].argument

\* Literals, variables, and functions stand for themselves.
Literal ==
    /\ At(Literals)
    /\ Replace(0, <<Value(Elements[Current.at].symbol, Argument)>>) /\ Advance
    /\ UNCHANGED <<variables, output>>

Assign ==
    /\ At({"Assign"})
    /\ variables' = [variables EXCEPT ![Top(1).value] = Top(2)]
    /\ Replace(2, <<>>) /\ Advance
    /\ UNCHANGED output

Dereference ==
    /\ At({"Dereference"})
    /\ Replace(1, <<variables[Top(1).value]>>) /\ Advance
    /\ UNCHANGED <<variables, output>>

Unary ==
    /\ \/ At({"Negate"}) /\ Replace(1, <<Integer(-Top(1).value)>>)
       \/ At({"Not"}) /\ Replace(1, <<Boolean(Top(1).value = 0)>>)
    /\ Advance
    /\ UNCHANGED <<variables, output>>

Binary ==
    /\ At(Operations)
    /\ Replace(2, <<Operation(Elements[Current.at].symbol, Top(2).value, Top(1).value)>>) /\ Advance
    /\ UNCHANGED <<variables, output>>

\* Values that were never assigned are equal to none.
Equal ==
    /\ At({"Equal"})
    /\ Replace(2, <<Boolean(Top(1) = Top(2) /\ Top(1) # Void)>>) /\ Advance
    /\ UNCHANGED <<variables, output>>

Arrange ==
    /\ \/ At({"Duplicate"}) /\ Replace(0, <<Top(1)>>)
       \/ At({"Delete"}) /\ Replace(1, <<>>)
       \/ At({"Swap"}) /\ Replace(2, <<Top(1), Top(2)>>)
       \/ At({"Rotate"}) /\ Replace(3, <<Top(2), Top(1), Top(3)>>)
       \/ At({"Select"}) /\ Replace(1, <<Top(Top(1).value + 2)>>)
    /\ Advance
    /\ UNCHANGED <<variables, output>>

Put ==
    /\ At({"Put"})
    /\ output' = [last |-> Top(1).value, count |-> output.count + 1]
    /\ Replace(1, <<>>) /\ Advance
    /\ UNCHANGED variables

Get ==
    /\ At({"Get"})
    /\ \E character \in Inputs : Replace(0, <<Integer(character)>>)
    /\ Advance
    /\ UNCHANGED <<variables, output>>

-----------------------------------------------------------------------------
(* Functions and loops.                                                    *)

Call ==
    /\ At({"Call"})
    /\ Replace(1, <<>>) /\ Enter(Top(1).value)
    /\ UNCHANGED <<variables, output>>

If ==
    /\ At({"If"})
    /\ Replace(2, <<>>)
    /\ IF Top(2).value # 0 THEN Enter(Top(1).value) ELSE Advance
    /\ UNCHANGED <<variables, output>>

While ==
    /\ At({"While"})
    /\ Replace(2, <<>>)
    /\ active' = Continue([condition |-> Top(2).value, body |-> Top(1).value, testing |-> FALSE])
    /\ UNCHANGED <<variables, output>>

\* The condition of a loop comes first and again after its body.
EnterCondition ==
    /\ status = "running"
    /\ InLoop /\ ~Current.loop.testing
    /\ active' = Append(Becoming([Current EXCEPT !.loop.testing = TRUE]), Frame(Current.loop.condition))
    /\ UNCHANGED <<program, stack, variables, output, status>>

EnterBody ==
    /\ status = "running"
    /\ InLoop /\ Current.loop.testing
    /\ Have(<<"Integer">>)
    /\ Replace(1, <<>>)
    /\ active' = IF Top(1).value # 0
                 THEN Append(Becoming([Current EXCEPT !.loop.testing = FALSE]), Frame(Current.loop.body))
                 ELSE Becoming([Current EXCEPT !.loop = NoLoop])
    /\ UNCHANGED <<program, variables, output, status>>

AtEnd == status = "running" /\ ~InLoop /\ Current.at > Len(Elements)

Return ==
    /\ AtEnd
    /\ Depth > 1
    /\ active' = Front(active)
    /\ UNCHANGED <<program, stack, variables, output, status>>

\* The main function ends with the status of the program on the stack.
Exit ==
    /\ AtEnd
    /\ Depth = 1
    /\ Have(<<"Integer">>)
    /\ status' = "exited"
    /\ UNCHANGED <<program, stack, variables, active, output>>

Fail ==
    /\ status = "running"
    /\ \/ ~InLoop /\ Current.at \in DOMAIN Elements /\ FailsOn(Elements[Current.at], Downwards)
       \/ InLoop /\ Current.loop.testing /\ ~Have(<<"Integer">>)
       \/ AtEnd /\ Depth = 1 /\ ~Have(<<"Integer">>)
    /\ status' = "error"
    /\ UNCHANGED <<program, stack, variables, active, output>>

-----------------------------------------------------------------------------
Init ==
    /\ program \in AllPrograms
    /\ stack = <<Integer(0)>>
    /\ variables = [letter \in Letters |-> Void]
    /\ active = <<Frame(Main)>>
    /\ output = [last |-> 0, count |-> 0]
    /\ status = "running"

Next ==
    \/ Literal \/ Assign \/ Dereference \/ Unary \/ Binary \/ Equal \/ Arrange \/ Put \/ Get
    \/ Call \/ If \/ While \/ EnterCondition \/ EnterBody \/ Return \/ Exit \/ Fail

\* The interpreter does not rest before the program has ended.
Spec == Init /\ [][Next]_vars /\ WF_vars(Next)
=============================================================================
