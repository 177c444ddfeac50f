----------------------------- MODULE Evaluation -----------------------------
(***************************************************************************)
(* What the emitter of intermediate code promises to the front ends: they  *)
(* hold operands and combine them by operations, and executing the         *)
(* instructions that are emitted gives every operand the value that these  *)
(* operations have.  Nothing is said about immediate values, registers, or *)
(* the stack: those are the business of the emitter.                       *)
(***************************************************************************)
EXTENDS CodeOperands

CONSTANTS
    Slots,      \* where a front end keeps operands
    Memory,     \* the typed value at every address
    Nothing     \* the absence of a value

VARIABLES
    request,    \* the operation that was last asked for
    values      \* the value of the operand in each slot

-----------------------------------------------------------------------------
(* A request names an operation, its argument, the slots it reads in their *)
(* order, the slots whose operand it uses up, and that of the result.      *)

Put(value) ==
    values' = [slot \in Slots |->
        IF slot = request'.to THEN value
        ELSE IF slot \in request'.dropped THEN Nothing
        ELSE values[slot]]

Operand1 == values[request'.from[1]]
Operand2 == values[request'.from[2]]

Literal == request'.name = "Literal" /\ Put(request'.argument)

Variable == request'.name = "Variable" /\ Put(Memory[request'.argument])

Unary ==
    /\ request'.name = "Unary"
    /\ Put(Typed(Operand1.type, ComputeUnary(request'.argument, Operand1.type, Operand1.value)))

Binary ==
    /\ request'.name = "Binary"
    /\ Put(Typed(Operand1.type,
                 Compute(request'.argument, Operand1.type, Operand1.value, Operand2.value)))

Minimize ==
    /\ request'.name = "Minimize"
    /\ Put(IF Operand2.value < Operand1.value THEN Operand2 ELSE Operand1)

Convert ==
    /\ request'.name = "Convert"
    /\ Put(Typed(request'.argument, Truncate(request'.argument, Operand1.value)))

\* The value that a pointer displaced by the argument designates.
Dereference ==
    /\ request'.name = "Dereference"
    /\ Put(Memory[Compute("ADD", Pointer, Operand1.value, request'.argument)])

\* The same value in another place.
Move == request'.name = "Move" /\ Put(Operand1)

\* A function returns whatever it computes.
Call == request'.name = "Call" /\ \E value \in ValuesOf(request'.argument) : Put(value)

\* Operands are given up, or kept elsewhere for a while.
Drop == request'.name \in {"Push", "Discard", "Finish"} /\ Put(Nothing)
Keep == request'.name = "Keep" /\ UNCHANGED values

-----------------------------------------------------------------------------
Init ==
    /\ request = [name |-> "Keep"]
    /\ values = [slot \in Slots |-> Nothing]

Next ==
    \/ Literal \/ Variable \/ Unary \/ Binary \/ Minimize \/ Convert
    \/ Dereference \/ Move \/ Call \/ Drop \/ Keep

Spec == Init /\ [][Next]_<<request, values>>
=============================================================================
