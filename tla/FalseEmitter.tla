----------------------------- MODULE FalseEmitter -----------------------------
(***************************************************************************)
(* Programs in the FALSE programming language as they are compiled, on     *)
(* machines whose calls push the return address.  The stack of the program *)
(* is the stack of the machine, where it begins below an address space     *)
(* that is reserved for what must not get in its way: return addresses and *)
(* the functions of loops are saved there, downwards from the frame        *)
(* pointer.  Nothing keeps them from growing into the stack.               *)
(*                                                                         *)
(* Each action stands for the instructions emitted for an element up to a  *)
(* call, or for those after it.  Memory consists of words that know what   *)
(* they are: a program that relies on anything else has been rejected by   *)
(* the interpreter, and nothing is said about what it does.                *)
(*                                                                         *)
(* What is marked as faulty is a variant with a bug that no step takes.    *)
(***************************************************************************)
EXTENDS FalseElements, FiniteSets

CONSTANTS
    Programs,   \* the programs that are compiled
    Inputs,     \* the characters that may be read
    Reserve,    \* the number of words that are reserved
    Words,      \* the number of words of memory
    Width       \* the size of a word in bits

ASSUME EmitterAssumption ==
    Programs \subseteq AllPrograms /\ Reserve \in Nat /\ Words \in Nat /\ Reserve <= Words /\ Width \in Nat \ {0, 1}

\* Variables are letters, a program has a main function, and functions in it are
\* other functions of the program, as the parser makes them.
ASSUME ProgramsAssumption ==
    \A some \in Programs :
        /\ Main \in DOMAIN some
        /\ \A function \in DOMAIN some : \A at \in DOMAIN some[function] :
            LET element == some[function][at]
            IN /\ element.symbol = "Variable" => element.argument \in Letters
               /\ element.symbol = "Function" => element.argument \in DOMAIN some \ {Main}

\* The integers that a word represents, which include all characters.
InRange(value) == value \in -(2 ^ (Width - 1)) .. 2 ^ (Width - 1) - 1

\* What there is to know about the powers of two.
ASSUME PowersAssumption ==
    /\ 2 ^ 0 = 1
    /\ \A bit \in 1 .. Width : 2 ^ (bit - 1) \in Nat \ {0} /\ 2 ^ bit = 2 * 2 ^ (bit - 1)

ASSUME InputsAssumption == \A character \in Inputs : InRange(character)

VARIABLES
    program,    \* the program that is executed
    memory,     \* the words of memory
    sp,         \* the address of the top of the stack
    fp,         \* the address of what was saved last
    result,     \* the word that a function returns in the result register
    pc,         \* the function that is executed, the next element, and the point of its code
    variables,  \* the words of the variables
    output,     \* the last character that was written, and how many there were
    status      \* "running", "undefined", or "exited" with the top of the stack

vars == <<program, memory, sp, fp, result, pc, variables, output, status>>

\* The stack begins at the last word reserved, above which it is empty.
Bottom == Words - Reserve + 1

Code == INSTANCE CodeOperands WITH RMax <- 0, Width <- Width
IntegerType == [model |-> "Signed", size |-> Width]

\* Words hold integers as pointers, that is without their sign.
Word(value) == Integer(Code!Truncate(Code!Pointer, value))
AsInteger(word) == Code!Truncate(IntegerType, word.value)

\* Return addresses are points in the code of functions.
Point(function, at, point) == [function |-> function, at |-> at, point |-> point]
ReturnAddress(point) == [type |-> "Return", point |-> point]

-----------------------------------------------------------------------------
(* The instructions that the emitter uses.                                 *)

\* The words on the stack of the program, the top of which is first.
Stack == [index \in 1 .. Bottom - sp |-> memory[sp + index - 1]]

Peek(index) == memory[sp + index - 1]

\* Popping some words and pushing others, the last of which is on top.
Replace(count, words) ==
    LET top == sp + count - Len(words)
    IN /\ sp' = top
       /\ memory' = [address \in 1 .. Words |->
            IF address \in top .. top + Len(words) - 1
            THEN words[top + Len(words) - address] ELSE memory[address]]

NextElement == Point(pc.function, pc.at + 1, "element")

\* Calling a function, which pushes the point to return to, after popping.
CallAfter(count, function, point) ==
    /\ Replace(count, <<ReturnAddress(Point(pc.function, pc.at, point))>>)
    /\ pc' = Point(function, 0, "prologue")

-----------------------------------------------------------------------------
(* The elements that neither call nor branch.                              *)

Elements == program[pc.function]
AtElement == status = "running" /\ pc.point = "element" /\ pc.at \in DOMAIN Elements
Symbol == Elements[pc.at].symbol

\* The next element, as long as what it does is defined.
At(symbols) ==
    /\ AtElement
    /\ Symbol \in symbols
    /\ ~FailsOn(Elements[pc.at], Stack)
    /\ UNCHANGED <<program, status>>

Advance == pc' = NextElement /\ UNCHANGED <<fp, result>>

Literal ==
    /\ At(Literals)
    /\ LET argument == Elements[pc.at].argument
       IN Replace(0, <<IF Symbol = "Integer" THEN Word(argument) ELSE Value(Symbol, argument)>>)
    /\ Advance
    /\ UNCHANGED <<variables, output>>

Assign ==
    /\ At({"Assign"})
    /\ variables' = [variables EXCEPT ![Peek(1).value] = Peek(2)]
    /\ Replace(2, <<>>) /\ Advance
    /\ UNCHANGED output

Dereference ==
    /\ At({"Dereference"})
    /\ Replace(1, <<variables[Peek(1).value]>>) /\ Advance
    /\ UNCHANGED <<variables, output>>

\* The lowest bit of the complement is the negation of truth values only.
Unary ==
    /\ LET Computed(mnemonic) == Code!ComputeUnary(mnemonic, IntegerType, AsInteger(Peek(1)))
       IN \/ At({"Negate"}) /\ Replace(1, <<Word(Computed("NEG"))>>)
          \/ At({"Not"}) /\ Replace(1, <<Word(Computed("NOT") % 2)>>)
    /\ Advance
    /\ UNCHANGED <<variables, output>>

Mnemonic(symbol) ==
    CASE symbol = "Add" -> "ADD" [] symbol = "Subtract" -> "SUB" [] symbol = "Multiply" -> "MUL"
      [] symbol = "Divide" -> "DIV" [] symbol = "And" -> "AND" [] symbol = "Or" -> "OR"

EmitBinary ==
    /\ At(Operations \ {"Greater"})
    /\ Replace(2, <<Word(Code!Compute(Mnemonic(Symbol), IntegerType, AsInteger(Peek(2)), AsInteger(Peek(1))))>>)
    /\ Advance
    /\ UNCHANGED <<variables, output>>

\* Whether two words are equal, which depends on what addresses and variables
\* happen to be if the words are of different types.
Equals(word, other) == IF word.type = other.type THEN {word = other} ELSE BOOLEAN

\* The branch that skips the result true is taken for smaller values only.
EmitComparison ==
    /\ \/ At({"Equal"}) /\ \E equal \in Equals(Peek(2), Peek(1)) : Replace(2, <<Boolean(equal)>>)
       \/ At({"Greater"}) /\ Replace(2, <<Boolean(~(AsInteger(Peek(2)) < AsInteger(Peek(1))))>>)
    /\ Advance
    /\ UNCHANGED <<variables, output>>

Arrange ==
    /\ \/ At({"Duplicate"}) /\ Replace(0, <<Peek(1)>>)
       \/ At({"Delete"}) /\ Replace(1, <<>>)
       \/ At({"Swap"}) /\ Replace(2, <<Peek(1), Peek(2)>>)
       \/ At({"Rotate"}) /\ Replace(3, <<Peek(2), Peek(1), Peek(3)>>)
       \/ At({"Select"}) /\ Replace(1, <<Peek(Peek(1).value + 2)>>)
    /\ Advance
    /\ UNCHANGED <<variables, output>>

Put ==
    /\ At({"Put"})
    /\ output' = [last |-> AsInteger(Peek(1)), count |-> output.count + 1]
    /\ Replace(1, <<>>) /\ Advance
    /\ UNCHANGED variables

Get ==
    /\ At({"Get"})
    /\ \E character \in Inputs : Replace(0, <<Word(character)>>)
    /\ Advance
    /\ UNCHANGED <<variables, output>>

-----------------------------------------------------------------------------
(* Functions and loops.  A function saves its return address, and returns  *)
(* the top of the stack, which its caller pushes again or tests.           *)

Call ==
    /\ At({"Call"})
    /\ CallAfter(1, Peek(1).value, "push")
    /\ UNCHANGED <<fp, result, variables, output>>

If ==
    /\ At({"If"})
    /\ IF Peek(2).value # 0 THEN CallAfter(2, Peek(1).value, "push")
       ELSE Replace(2, <<>>) /\ pc' = NextElement
    /\ UNCHANGED <<fp, result, variables, output>>

Prologue ==
    /\ status = "running" /\ pc.point = "prologue"
    /\ fp' = fp - 1
    /\ memory' = [memory EXCEPT ![fp - 1] = Peek(1)]
    /\ sp' = sp + 1
    /\ pc' = Point(pc.function, 1, "element")
    /\ UNCHANGED <<program, result, variables, output, status>>

AtEnd == status = "running" /\ pc.point = "element" /\ pc.at > Len(Elements)

\* The top of the stack is returned, even if the stack is empty.
Return ==
    /\ AtEnd
    /\ pc.function # Main
    /\ result' = Peek(1)
    /\ sp' = sp + 1
    /\ pc' = memory[fp].point
    /\ fp' = fp + 1
    /\ UNCHANGED <<program, memory, variables, output, status>>

PushResult ==
    /\ status = "running" /\ pc.point = "push"
    /\ Replace(0, <<result>>)
    /\ pc' = NextElement
    /\ UNCHANGED <<program, fp, result, variables, output, status>>

\* A faulty variant that saves the functions of a loop the other way around.
SaveLoopSwapped ==
    [memory EXCEPT ![fp - 1] = Peek(2), ![fp - 2] = Peek(1)]

\* The body of a loop is saved first, and its condition after it.
SaveLoop == [memory EXCEPT ![fp - 1] = Peek(1), ![fp - 2] = Peek(2)]

While ==
    /\ At({"While"})
    /\ memory' = SaveLoop
    /\ fp' = fp - 2
    /\ sp' = sp + 2
    /\ pc' = [pc EXCEPT !.point = "begin"]
    /\ UNCHANGED <<result, variables, output>>

CallCondition ==
    /\ status = "running" /\ pc.point = "begin"
    /\ CallAfter(0, memory[fp].value, "test")
    /\ UNCHANGED <<program, fp, result, variables, output, status>>

\* A faulty variant that leaves the functions of the loop where they are.
FinishLoopLeaving == fp

\* The functions of a loop are removed when it ends.
FinishLoop == fp + 2

TestCondition ==
    /\ status = "running" /\ pc.point = "test"
    /\ sp <= Bottom /\ result.type = "Integer"
    /\ IF result.value # 0
       THEN CallAfter(0, memory[fp + 1].value, "again") /\ UNCHANGED fp
       ELSE fp' = FinishLoop /\ pc' = NextElement /\ UNCHANGED <<memory, sp>>
    /\ UNCHANGED <<program, result, variables, output, status>>

PushAgain ==
    /\ status = "running" /\ pc.point = "again"
    /\ Replace(0, <<result>>)
    /\ pc' = [pc EXCEPT !.point = "begin"]
    /\ UNCHANGED <<program, fp, result, variables, output, status>>

\* The top of the stack is the status that the program exits with.
Exit ==
    /\ AtEnd
    /\ pc.function = Main
    /\ Begins(Stack, <<"Integer">>)
    /\ status' = "exited"
    /\ UNCHANGED <<program, memory, sp, fp, result, pc, variables, output>>

\* What the program does from here on is anyone's guess.
Undefined ==
    /\ \/ AtElement /\ FailsOn(Elements[pc.at], Stack)
       \/ status = "running" /\ pc.point = "test" /\ (sp > Bottom \/ result.type # "Integer")
       \/ AtEnd /\ pc.function = Main /\ ~Begins(Stack, <<"Integer">>)
    /\ status' = "undefined"
    /\ UNCHANGED <<program, memory, sp, fp, result, pc, variables, output>>

-----------------------------------------------------------------------------
\* The stack begins with the status of the program.
Init ==
    /\ program \in Programs
    /\ memory = [address \in 1 .. Words |-> IF address = Bottom - 1 THEN Word(0) ELSE Void]
    /\ sp = Bottom - 1
    /\ fp = Words + 1
    /\ result = Void
    /\ pc = Point(Main, 1, "element")
    /\ variables = [letter \in Letters |-> Void]
    /\ output = [last |-> 0, count |-> 0]
    /\ status = "running"

Next ==
    \/ Literal \/ Assign \/ Dereference \/ Unary \/ EmitBinary \/ EmitComparison \/ Arrange \/ Put \/ Get
    \/ Call \/ If \/ Prologue \/ Return \/ PushResult
    \/ While \/ CallCondition \/ TestCondition \/ PushAgain \/ Exit \/ Undefined

\* The machine executes one instruction after the other.
Spec == Init /\ [][Next]_vars /\ WF_vars(Next)

-----------------------------------------------------------------------------
(* What the interpreter would be doing: the functions that are active are  *)
(* those which the return addresses lead to, and the one that is executed. *)

Saved == [index \in 1 .. Words + 1 - fp |-> memory[Words + 1 - index]]

\* The points in functions that are active, the outermost of which is first,
\* with the number of words that had been saved when they called.
Returns(index) == {other \in 1 .. index : Saved[other].type = "Return"}

Returning ==
    [level \in 1 .. Cardinality(Returns(Len(Saved))) |->
        LET index == CHOOSE index \in Returns(Len(Saved)) : Cardinality(Returns(index)) = level
        IN [point |-> Saved[index].point, saved |-> index - 1]]

\* Where the function that is active is, or the one that is calling.
Current == IF pc.point = "prologue" THEN Peek(1).point ELSE pc

\* The points between the instructions of a loop.
LoopPoints == {"begin", "test", "again"}

Points ==
    Returning
        \o (IF pc.point = "prologue" THEN <<[point |-> Peek(1).point, saved |-> Len(Saved)]>> ELSE <<>>)
        \o <<[point |-> pc, saved |-> Len(Saved)]>>

NoLoop == [condition |-> Main, body |-> Main, testing |-> FALSE]

FrameAt(current, saved) ==
    LET at == IF current.point = "element" THEN current.at ELSE current.at + 1
    IN [function |-> current.function,
        at |-> at,
        loop |-> IF current.point \in LoopPoints
                 THEN [condition |-> Saved[saved].value, body |-> Saved[saved - 1].value,
                       testing |-> current.point = "test"]
                 ELSE NoLoop]

Interpreted(word) == IF word.type = "Integer" THEN Integer(AsInteger(word)) ELSE word

\* The stack, on which a result that is about to be pushed already counts,
\* and a return address that is about to be saved does not.
Values ==
    LET kept == IF pc.point = "prologue" THEN Tail(Stack) ELSE Stack
        counted == IF pc.point \in {"push", "test", "again"} /\ sp <= Bottom THEN <<result>> \o kept ELSE kept
    IN [index \in DOMAIN counted |-> Interpreted(counted[Len(counted) + 1 - index])]

\* What the interpreter has in its variables, the frames of its functions, and
\* how it has ended, if it has.
Contents == [letter \in Letters |-> Interpreted(variables[letter])]
Active == [level \in DOMAIN Points |-> FrameAt(Points[level].point, Points[level].saved)]
Outcome == IF status = "undefined" THEN "error" ELSE status

Interpreter == INSTANCE FalseInterpreter WITH
    stack <- Values, variables <- Contents, active <- Active, status <- Outcome

\* A program that is compiled does what the interpreter does with it: it calls
\* the same functions in the same order, with the same values on the stack,
\* writes the same characters, and ends if and only if the interpreter does.
Interprets == Interpreter!Spec

\* How many words had been saved with the functions of each loop in progress.
LoopsSaved ==
    {index - 1 : index \in {index \in DOMAIN Saved :
        Saved[index].type = "Return" /\ Saved[index].point.point \in LoopPoints}}
    \cup (IF Current.point \in LoopPoints THEN {Len(Saved)} ELSE {})

\* Saved words are exactly the return addresses and the functions of the loops
\* in progress, two for each, so that nothing is left behind when one ends.
SavedBalanced ==
    /\ {index \in DOMAIN Saved : Saved[index].type # "Return"} = UNION {{saved - 1, saved} : saved \in LoopsSaved}
    /\ \A saved, other \in LoopsSaved : saved < other => saved < other - 1
=============================================================================
