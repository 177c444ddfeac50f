----------------------------- MODULE CodeEmitter -----------------------------
(***************************************************************************)
(* The emitter of intermediate code, as a front end uses it.  The front    *)
(* end keeps operands in slots and asks for operations on them.  The       *)
(* emitter simplifies, evaluates what is known, or appends instructions to *)
(* the current section, and counts how often each register is in use in    *)
(* order to allocate and to reuse registers.  Operands that live across a  *)
(* function call are saved on the stack when the call begins and restored  *)
(* when the front end needs them again.                                    *)
(*                                                                         *)
(* The instructions are executed as they are emitted, the way the          *)
(* interpreter of intermediate code does it.  A register holds a typed     *)
(* value, and using it with another type is an error that leaves Nothing.  *)
(*                                                                         *)
(* A client bounds what a front end does in one behaviour: its operations, *)
(* their literals and variables, its slots and the number of its steps.    *)
(*                                                                         *)
(* What is marked as faulty is a variant with a bug that no client asks    *)
(* for.                                                                    *)
(***************************************************************************)
EXTENDS CodeOperands, SequencesExt

CONSTANTS
    Slots,          \* where the front end keeps operands, numbered from one
    Memory,         \* the typed value at every address, which is not modified
    Nothing,        \* the absence of a value or a register
    Clients,        \* the front ends that are considered
    RepeatedModulo  \* whether a value may be divided modulo itself

VARIABLES
    client,         \* the front end that is served
    steps,          \* the number of its operations so far
    request,        \* the operation that it has last asked for
    operands,       \* the operand in each slot
    protected,      \* the slots whose operand counts as protection
    saved,          \* the slots whose operand is saved on the stack
    savedRegisters, \* the slots to be saved by the next call, in this order
    calls,          \* the calls that have begun, with the slots each has put aside
    uses,           \* the number of operands that use each register
    protections,    \* the number of operands that protect each register
    section,        \* the instructions emitted so far
    registers,      \* the typed value in each register during execution
    stack,          \* the typed values on the stack during execution
    status          \* "emitting", "finished", or "shortage" of registers

counters == <<uses, protections>>
machine == <<section, registers, stack>>
vars == <<client, steps, request, operands, protected, saved, savedRegisters,
          calls, counters, machine, status>>

-----------------------------------------------------------------------------
(* Execution of instructions.                                              *)

\* The value that an operand has, if its registers hold values of its type.
Denotes(held, operand) ==
    LET base == IF HasUserRegister(operand) THEN held[operand.register] ELSE Typed(Pointer, operand.value)
        address == Compute("ADD", Pointer, base.value, operand.displacement)
    IN CASE IsImmediate(operand) -> Typed(operand.type, operand.value)
         [] operand.model = "Register" ->
                IF base = Nothing \/ base.type # operand.type THEN Nothing
                ELSE IF IsPointer(operand.type) THEN Typed(Pointer, address) ELSE base
         [] IsMemory(operand) ->
                IF base = Nothing \/ base.type # Pointer \/ Memory[address].type # operand.type
                THEN Nothing ELSE Memory[address]
         [] OTHER -> Nothing

\* The outcome of an arithmetic instruction on one or two values.
Outcome(instruction, value1, value2) ==
    LET mnemonic == instruction.mnemonic
        type == value1.type
    IN CASE mnemonic = "MOV" -> value1
         [] mnemonic = "CONV" -> Typed(instruction.operand1.type,
                                       Truncate(instruction.operand1.type, value1.value))
         [] mnemonic \in UnaryMnemonics -> Typed(type, ComputeUnary(mnemonic, type, value1.value))
         [] mnemonic \in BinaryMnemonics ->
                IF value2 = Nothing \/ value2.type # type
                   \/ ~IsDefined(mnemonic, type, value1.value, value2.value)
                THEN Nothing ELSE Typed(type, Compute(mnemonic, type, value1.value, value2.value))

\* Executing one instruction, unless a branch has skipped it.
Execute(state, instruction) ==
    LET value1 == Denotes(state.registers, instruction.operand2)
        value2 == Denotes(state.registers, instruction.operand3)
        target == instruction.operand1
    IN CASE state.skip > 0 -> [state EXCEPT !.skip = @ - 1]
         [] instruction.mnemonic \in {"FIX", "UNFIX"} -> state
         [] instruction.mnemonic = "BRLT" ->
                IF value1.value < value2.value THEN [state EXCEPT !.skip = target.displacement] ELSE state
         [] instruction.mnemonic = "PUSH" ->
                [state EXCEPT !.stack = Append(@, Denotes(state.registers, target))]
         [] instruction.mnemonic = "POP" ->
                [state EXCEPT !.registers[target.register] = Last(state.stack), !.stack = Front(@)]
         [] OTHER ->
                [state EXCEPT !.registers[target.register] =
                    IF value1 = Nothing THEN Nothing ELSE Outcome(instruction, value1, value2)]

\* Appending instructions to the section, which executes them.
Emit(instructions) ==
    LET after == FoldLeft(Execute, [registers |-> registers, stack |-> stack, skip |-> 0], instructions)
    IN /\ section' = section \o instructions
       /\ registers' = after.registers
       /\ stack' = after.stack

-----------------------------------------------------------------------------
(* Registers are free if no operand uses or protects them.  The register   *)
(* of an operand may be reused for the result unless it is protected.      *)

AcquireRegister ==
    LET free == {register \in 0 .. RMax : uses[register] = 0 /\ protections[register] = 0}
    IN IF free = {} THEN Nothing ELSE Min(free)

\* A faulty variant that reuses registers although they are protected.
ReuseProtectedRegister(sources) ==
    LET reusable == {index \in DOMAIN sources : HasUserRegister(sources[index])}
    IN IF reusable = {} THEN AcquireRegister ELSE sources[Min(reusable)].register

ReuseRegister(sources) ==
    LET Reusable(operand) == HasUserRegister(operand) /\ protections[operand.register] = 0
        reusable == {index \in DOMAIN sources : Reusable(sources[index])}
    IN IF reusable = {} THEN AcquireRegister ELSE sources[Min(reusable)].register

\* Copying an operand to a register, which may be displaced itself.
MoveTo(target, source) ==
    LET Displaces(mnemonic, distance) ==
            <<Instruction(mnemonic, target, target, Imm(Pointer, distance))>>
    IN IF target = source THEN <<>>
       ELSE IF source.model = "Register" /\ source.register = target.register
       THEN IF source.displacement < 0 THEN Displaces("SUB", -source.displacement)
            ELSE Displaces("ADD", source.displacement)
       ELSE <<Instruction("MOV", target, source, NoOperand)>>

\* What an operation yields: an operand, the instructions that compute it,
\* or nothing of this because of a shortage of registers.
Yields(operand, instructions) ==
    [operand |-> IF operand.register = Nothing THEN NoOperand ELSE operand,
     instructions |-> IF operand.register = Nothing THEN <<>> ELSE instructions,
     shortage |-> operand.register = Nothing]

Given(operand) == Yields(operand, <<>>)

MakeRegister(operand) ==
    LET target == Reg(operand.type, ReuseRegister(<<operand>>))
    IN IF IsRegister(operand) THEN Given(operand) ELSE Yields(target, MoveTo(target, operand))

\* Displacing an operand, whose value is needed in a register if in memory.
Displace(operand, displacement) ==
    LET base == IF IsMemory(operand) /\ displacement # 0 THEN MakeRegister(operand) ELSE Given(operand)
    IN [base EXCEPT !.operand = IF IsImmediate(@)
            THEN [@ EXCEPT !.value = Truncate(Pointer, @ + displacement)]
            ELSE [@ EXCEPT !.displacement = TruncateDisplacement(@ + displacement)]]

MakeMemory(type, operand, displacement) ==
    LET base == IF IsMemory(operand) THEN MakeRegister(operand) ELSE Given(operand)
    IN [base EXCEPT !.operand = IF base.shortage THEN @ ELSE Mem(type, @, displacement)]

Apply(mnemonic, value1, value2) ==
    LET target == Reg(value1.type, ReuseRegister(<<value1, value2>>))
    IN IF IsImmediate(value1) /\ IsImmediate(value2)
       THEN Given(Imm(value1.type, Compute(mnemonic, value1.type, value1.value, value2.value)))
       ELSE Yields(target, <<Instruction(mnemonic, target, value1, value2)>>)

ApplyUnary(mnemonic, value) ==
    LET target == Reg(value.type, ReuseRegister(<<value>>))
    IN IF IsImmediate(value)
       THEN Given(Imm(value.type, ComputeUnary(mnemonic, value.type, value.value)))
       ELSE Yields(target, <<Instruction(mnemonic, target, value, NoOperand)>>)
-----------------------------------------------------------------------------
(* The operations on two operands.  What is known of an operand simplifies *)
(* the result; the order of the rules is that of the code.                 *)

Negate(value) == ApplyUnary("NEG", value)
Complement(value) == ApplyUnary("NOT", value)

\* Whether a value is negative and its negation is not.
IsNegatable(value) == IsNegative(value) /\ ~IsNegative(Negate(value).operand)

\* The difference, unless the subtrahend is better added.
Difference(value1, value2) ==
    IF IsZero(value1) THEN Negate(value2)
    ELSE IF IsZero(value2) THEN Given(value1)
    ELSE IF value1 = value2 THEN Given(Imm(value1.type, 0))
    ELSE IF IsImmediate(value2) /\ IsPointer(value2.type) THEN Displace(value1, -value2.value)
    ELSE Apply("SUB", value1, value2)

\* The subtrahends here have been negated, and are not negative any more.
Add(value1, value2) ==
    IF IsZero(value1) THEN Given(value2)
    ELSE IF IsZero(value2) THEN Given(value1)
    ELSE IF IsImmediate(value1) /\ IsPointer(value1.type) THEN Displace(value2, value1.value)
    ELSE IF IsImmediate(value2) /\ IsPointer(value2.type) THEN Displace(value1, value2.value)
    ELSE IF IsNegatable(value1) THEN Difference(value2, Negate(value1).operand)
    ELSE IF IsNegatable(value2) THEN Difference(value1, Negate(value2).operand)
    ELSE Apply("ADD", value1, value2)

\* None of the first rules of a difference is about a negative subtrahend
\* but the one for a minuend that is zero, or the same.
Subtract(value1, value2) ==
    IF IsNegatable(value2) /\ ~IsZero(value1) /\ value1 # value2
    THEN Add(value1, Negate(value2).operand)
    ELSE Difference(value1, value2)

Multiply(value1, value2) ==
    IF IsZero(value1) THEN Given(value1)
    ELSE IF IsOne(value1) THEN Given(value2)
    ELSE IF IsMinusOne(value1) THEN Negate(value2)
    ELSE IF IsZero(value2) THEN Given(value2)
    ELSE IF IsOne(value2) THEN Given(value1)
    ELSE IF IsMinusOne(value2) THEN Negate(value1)
    ELSE Apply("MUL", value1, value2)

Divide(value1, value2) ==
    IF IsZero(value1) \/ IsOne(value2) THEN Given(value1)
    ELSE IF IsMinusOne(value2) THEN Negate(value1)
    ELSE IF value1 = value2 THEN Given(Imm(value1.type, 1))
    ELSE Apply("DIV", value1, value2)

Modulo(value1, value2) ==
    IF IsZero(value1) THEN Given(value1)
    ELSE IF IsOne(value2) THEN Given(Imm(value1.type, 0))
    ELSE IF value1 = value2 THEN Given(value1)
    ELSE Apply("MOD", value1, value2)

And(value1, value2) ==
    IF IsZero(value1) \/ IsFull(value2) \/ value1 = value2 THEN Given(value1)
    ELSE IF IsZero(value2) \/ IsFull(value1) THEN Given(value2)
    ELSE Apply("AND", value1, value2)

Or(value1, value2) ==
    IF IsZero(value1) \/ IsFull(value2) THEN Given(value2)
    ELSE IF IsZero(value2) \/ IsFull(value1) \/ value1 = value2 THEN Given(value1)
    ELSE Apply("OR", value1, value2)

ExclusiveOr(value1, value2) ==
    IF IsZero(value1) THEN Given(value2)
    ELSE IF IsZero(value2) THEN Given(value1)
    ELSE IF value1 = value2 THEN Given(Imm(value1.type, 0))
    ELSE Apply("XOR", value1, value2)

ShiftLeft(value1, value2) ==
    IF IsZero(value2) THEN Given(value1) ELSE Apply("LSH", value1, value2)

ShiftRight(value1, value2) ==
    IF IsZero(value2) THEN Given(value1) ELSE Apply("RSH", value1, value2)

\* The smaller of two values, by way of two registers of their own.  The
\* mapping of the first is fixed while the branch may skip its modification.
Minimize(value1, value2) ==
    LET first == AcquireRegister
        others == {register \in 0 .. RMax :
                      register # first /\ uses[register] = 0 /\ protections[register] = 0}
        result == Reg(value1.type, first)
        value == Reg(value2.type, Min(others))
    IN IF IsImmediate(value1) /\ IsImmediate(value2)
       THEN Given(IF value1.value < value2.value THEN value1 ELSE value2)
       ELSE IF first = Nothing \/ others = {} THEN Yields(Reg(value1.type, Nothing), <<>>)
       ELSE Yields(result,
                MoveTo(result, value1) \o MoveTo(value, value2) \o
                <<Instruction("FIX", result, NoOperand, NoOperand),
                  Instruction("BRLT", Offset(2), result, value)>> \o
                MoveTo(result, value) \o
                <<Instruction("UNFIX", result, NoOperand, NoOperand)>>)

Convert(type, value) ==
    LET target == Reg(type, ReuseRegister(<<value>>))
    IN IF IsImmediate(value) THEN Given(Imm(type, Truncate(type, value.value)))
       ELSE Yields(target, IF type = value.type THEN MoveTo(target, value)
                           ELSE <<Instruction("CONV", target, value, NoOperand)>>)

Combine(mnemonic, value1, value2) ==
    CASE mnemonic = "ADD" -> Add(value1, value2)
      [] mnemonic = "SUB" -> Subtract(value1, value2)
      [] mnemonic = "MUL" -> Multiply(value1, value2)
      [] mnemonic = "DIV" -> Divide(value1, value2)
      [] mnemonic = "MOD" -> Modulo(value1, value2)
      [] mnemonic = "AND" -> And(value1, value2)
      [] mnemonic = "OR" -> Or(value1, value2)
      [] mnemonic = "XOR" -> ExclusiveOr(value1, value2)
      [] mnemonic = "LSH" -> ShiftLeft(value1, value2)
      [] mnemonic = "RSH" -> ShiftRight(value1, value2)
-----------------------------------------------------------------------------
(* Operands come and go, and registers are counted as used or protected by *)
(* those that are left.                                                    *)

Count(counter, operand, change) ==
    IF HasUserRegister(operand) THEN [counter EXCEPT ![operand.register] = @ + change] ELSE counter

\* A faulty variant that leaves the operand counted for its former register.
RecountNew(counter, operand, replaced) == Count(counter, replaced, 1)

\* The register of an operand gives way to another one.
Recount(counter, operand, replaced) == Count(Count(counter, operand, -1), replaced, 1)

CountAll(counter, slots, change) ==
    [register \in UserRegisters |->
        counter[register] + change * Cardinality({slot \in slots : operands[slot].register = register})]

\* The operands that are neither saved nor going to be.
PutAside == ToSet(savedRegisters) \cup UNION {ToSet(calls[call].pending) : call \in DOMAIN calls}
Held == {slot \in Slots : operands[slot] # NoOperand} \ PutAside

\* Operands that are protected survive the operations on them.
UsedUp(from) == {slot \in ToSet(from) : slot \notin protected}

Request(name, argument, from, dropped, to) ==
    [name |-> name, argument |-> argument, from |-> from, dropped |-> dropped, to |-> to]

\* Serving a request: the result takes the place of the operands used up.
Serve(name, argument, from, result) ==
    LET dropped == UsedUp(from)
        vacant == {slot \in client.slots : operands[slot] = NoOperand} \cup dropped
        to == Min(vacant)
    IN /\ vacant # {}
       /\ IF result.shortage
          THEN /\ status' = "shortage"
               /\ request' = Request("Keep", argument, from, {}, Nothing)
               /\ UNCHANGED <<operands, uses, machine>>
          ELSE /\ request' = Request(name, argument, from, dropped, to)
               /\ operands' = [slot \in Slots |->
                    IF slot = to THEN result.operand
                    ELSE IF slot \in dropped THEN NoOperand ELSE operands[slot]]
               /\ uses' = CountAll(Count(uses, result.operand, 1), dropped, -1)
               /\ Emit(result.instructions)
               /\ UNCHANGED status
       /\ UNCHANGED <<protected, saved, savedRegisters, calls, protections>>

\* A step of the front end, as far as it goes.
Asks(operation) ==
    /\ status = "emitting"
    /\ steps < client.limit
    /\ operation \in client.operations
    /\ steps' = steps + 1
    /\ UNCHANGED client

ValueOf(slot) == Denotes(registers, operands[slot])

\* A front end holds a register by a single operand, unless one protects it.
Exclusive(held, guards) ==
    \A slot, other \in {some \in Slots \ (guards \cup saved) : HasUserRegister(held[some])} :
        slot # other /\ held[slot].register = held[other].register =>
            \E guard \in guards : held[guard].register = held[slot].register

-----------------------------------------------------------------------------
(* The operations on values.                                               *)

Literal ==
    /\ Asks("Literal")
    /\ \E literal \in client.literals :
            Serve("Literal", literal, <<>>, Given(Imm(literal.type, literal.value)))

Variable ==
    /\ Asks("Variable")
    /\ \E address \in client.variables :
            Serve("Variable", address, <<>>,
                  Given(Operand("Memory", Memory[address].type, RFP, address, 0)))

Unary ==
    /\ Asks("Unary")
    /\ \E slot \in Held, mnemonic \in UnaryMnemonics :
            /\ ~IsPointer(operands[slot].type)
            /\ Serve("Unary", mnemonic, <<slot>>, ApplyUnary(mnemonic, operands[slot]))

\* Both operands have the same type.  Front ends neither divide by a zero
\* that they know, nor subtract from a null pointer.
Binary ==
    /\ Asks("Binary")
    /\ \E first, second \in Held, mnemonic \in client.mnemonics :
            LET value1 == operands[first]
                value2 == operands[second]
            IN /\ value1.type = value2.type
               /\ IsAvailable(mnemonic, value1.type)
               /\ IsDefined(mnemonic, value1.type, ValueOf(first).value, ValueOf(second).value)
               /\ ~(mnemonic = "SUB" /\ IsPointer(value1.type) /\ IsZero(value1))
               /\ mnemonic = "MOD" /\ ~RepeatedModulo => value1 # value2
               /\ Serve("Binary", mnemonic, <<first, second>>, Combine(mnemonic, value1, value2))

Minimum ==
    /\ Asks("Minimize")
    /\ \E first, second \in Held :
            /\ first # second
            /\ operands[first].type = operands[second].type
            /\ Serve("Minimize", Nothing, <<first, second>>, Minimize(operands[first], operands[second]))

Conversion ==
    /\ Asks("Convert")
    /\ \E slot \in Held, type \in client.types :
            Serve("Convert", type, <<slot>>, Convert(type, operands[slot]))

\* The front end knows the type of what a pointer designates.
Dereference ==
    /\ Asks("Dereference")
    /\ \E slot \in Held, displacement \in client.displacements :
            LET address == Compute("ADD", Pointer, ValueOf(slot).value, displacement)
            IN /\ IsPointer(operands[slot].type)
               /\ Serve("Dereference", displacement, <<slot>>,
                        MakeMemory(Memory[address].type, operands[slot], displacement))

Move ==
    /\ Asks("Move")
    /\ \E slot \in Held :
            LET target == Reg(operands[slot].type, AcquireRegister)
            IN \/ Serve("Move", Nothing, <<slot>>, MakeRegister(operands[slot]))
               \/ Serve("Move", Nothing, <<slot>>, Yields(target, MoveTo(target, operands[slot])))

Discard ==
    /\ Asks("Discard")
    /\ \E slot \in Held :
            /\ operands' = [operands EXCEPT ![slot] = NoOperand]
            /\ IF slot \in protected
               THEN protections' = Count(protections, operands[slot], -1) /\ UNCHANGED uses
               ELSE uses' = Count(uses, operands[slot], -1) /\ UNCHANGED protections
            /\ protected' = protected \ {slot}
            /\ Exclusive(operands', protected')
            /\ request' = Request("Discard", Nothing, <<slot>>, {slot}, Nothing)
    /\ UNCHANGED <<saved, savedRegisters, calls, machine, status>>

-----------------------------------------------------------------------------
(* Operands that are protected keep their value when they are operated on. *)

KeepValues(from) == request' = Request("Keep", Nothing, from, {}, Nothing)

Protect ==
    /\ Asks("Protect")
    /\ \E slot \in Held \ protected :
            /\ HasUserRegister(operands[slot])
            /\ protected' = protected \cup {slot}
            /\ uses' = Count(uses, operands[slot], -1)
            /\ protections' = Count(protections, operands[slot], 1)
            /\ KeepValues(<<slot>>)
    /\ UNCHANGED <<operands, saved, savedRegisters, calls, machine, status>>

Deprotect ==
    /\ Asks("Protect")
    /\ \E slot \in Held \cap protected :
            /\ protected' = protected \ {slot}
            /\ Exclusive(operands, protected')
            /\ protections' = Count(protections, operands[slot], -1)
            /\ uses' = Count(uses, operands[slot], 1)
            /\ KeepValues(<<slot>>)
    /\ UNCHANGED <<operands, saved, savedRegisters, calls, machine, status>>

-----------------------------------------------------------------------------
(* Function calls.  The front end announces which operands it holds across *)
(* an evaluation that may call.  A call begins by saving those announced   *)
(* on the stack, unless an earlier one has already done so, and puts them  *)
(* aside until it ends.  They are restored in the opposite order.          *)

SaveRegister ==
    /\ Asks("Call")
    /\ \E slot \in Held :
            /\ HasUserRegister(operands[slot])
            /\ savedRegisters' = Append(savedRegisters, slot)
            /\ KeepValues(<<slot>>)
    /\ UNCHANGED <<operands, protected, saved, calls, counters, machine, status>>

\* What is saved of an operand: its register.
SavedOperand(operand, register) == Reg(IF IsMemory(operand) THEN Pointer ELSE operand.type, register)

RestoreRegister ==
    /\ Asks("Call")
    /\ savedRegisters # <<>>
    /\ LET slot == Last(savedRegisters)
           operand == operands[slot]
           register == AcquireRegister
           restored == [operand EXCEPT !.register = register]
       IN /\ KeepValues(<<slot>>)
          /\ IF slot \notin saved
             THEN /\ savedRegisters' = Front(savedRegisters)
                  /\ UNCHANGED <<operands, saved, counters, machine, status>>
             ELSE IF register = Nothing
             THEN /\ status' = "shortage"
                  /\ UNCHANGED <<operands, saved, savedRegisters, counters, machine>>
             ELSE /\ savedRegisters' = Front(savedRegisters)
                  /\ operands' = [operands EXCEPT ![slot] = restored]
                  /\ saved' = saved \ {slot}
                  /\ IF slot \in protected
                     THEN protections' = Recount(protections, operand, restored) /\ UNCHANGED uses
                     ELSE uses' = Recount(uses, operand, restored) /\ UNCHANGED protections
                  /\ Emit(<<Instruction("POP", SavedOperand(operand, register), NoOperand, NoOperand)>>)
                  /\ UNCHANGED status
    /\ UNCHANGED <<protected, calls>>

\* Pushing the registers of operands in this order, unless they are saved.
Save(slots) ==
    LET pushes[count \in 0 .. Len(slots)] ==
            IF count = 0 THEN <<>>
            ELSE LET operand == operands[slots[count]]
                 IN IF slots[count] \in saved THEN pushes[count - 1]
                    ELSE Append(pushes[count - 1], Instruction("PUSH", SavedOperand(operand, operand.register),
                                                               NoOperand, NoOperand))
    IN Emit(pushes[Len(slots)])

\* The front end has announced everything that it holds in registers.
BeginCall ==
    /\ Asks("Call")
    /\ \A slot \in Held : ~HasUserRegister(operands[slot])
    /\ Save(savedRegisters)
    /\ saved' = saved \cup ToSet(savedRegisters)
    /\ calls' = Append(calls, [pending |-> savedRegisters, pushed |-> 0])
    /\ savedRegisters' = <<>>
    /\ KeepValues(<<>>)
    /\ UNCHANGED <<operands, protected, counters, status>>

\* Passing an argument on the stack.
Push ==
    /\ Asks("Call")
    /\ calls # <<>> /\ savedRegisters = <<>>
    /\ \E slot \in Held \ protected :
            /\ Emit(<<Instruction("PUSH", operands[slot], NoOperand, NoOperand)>>)
            /\ operands' = [operands EXCEPT ![slot] = NoOperand]
            /\ uses' = Count(uses, operands[slot], -1)
            /\ request' = Request("Push", Nothing, <<slot>>, {slot}, Nothing)
    /\ calls' = [calls EXCEPT ![Len(calls)].pushed = @ + 1]
    /\ UNCHANGED <<protected, saved, savedRegisters, protections, status>>

\* The function clobbers the general-purpose registers, leaves its result in
\* the result register, and its arguments are removed from the stack.
EndCall ==
    /\ Asks("Call")
    /\ calls # <<>> /\ savedRegisters = <<>>
    /\ \A slot \in Held : ~HasUserRegister(operands[slot])
    /\ \E type \in client.types, value \in UNION {ValuesOf(some) : some \in client.types} :
            LET vacant == {slot \in client.slots : operands[slot] = NoOperand}
                to == Min(vacant)
            IN /\ value.type = type
               /\ vacant # {}
               /\ operands' = [operands EXCEPT ![to] = Reg(type, RRes)]
               /\ uses' = Count(uses, Reg(type, RRes), 1)
               /\ registers' = [register \in UserRegisters |-> IF register = RRes THEN value ELSE Nothing]
               /\ request' = Request("Call", type, <<>>, {}, to)
    /\ section' = Append(section, Instruction("CALL", NoOperand, Size(Last(calls).pushed), NoOperand))
    /\ stack' = SubSeq(stack, 1, Len(stack) - Last(calls).pushed)
    /\ savedRegisters' = Last(calls).pending
    /\ calls' = Front(calls)
    /\ UNCHANGED <<protected, saved, protections, status>>

\* The end of the section, where the front end holds no operand any more.
Finish ==
    /\ status = "emitting"
    /\ calls = <<>> /\ savedRegisters = <<>>
    /\ operands' = [slot \in Slots |-> NoOperand]
    /\ uses' = CountAll(uses, Slots \ protected, -1)
    /\ protections' = CountAll(protections, protected, -1)
    /\ protected' = {}
    /\ status' = "finished"
    /\ request' = Request("Finish", Nothing, <<>>, Slots, Nothing)
    /\ UNCHANGED <<client, steps, saved, savedRegisters, calls, machine>>

-----------------------------------------------------------------------------
Init ==
    /\ client \in Clients
    /\ steps = 0
    /\ request = [name |-> "Keep"]
    /\ operands = [slot \in Slots |-> NoOperand]
    /\ protected = {} /\ saved = {}
    /\ savedRegisters = <<>> /\ calls = <<>>
    /\ uses = [register \in UserRegisters |-> 0]
    /\ protections = uses
    /\ section = <<>> /\ stack = <<>>
    /\ registers = [register \in UserRegisters |-> Nothing]
    /\ status = "emitting"

Next ==
    \/ Literal \/ Variable \/ Unary \/ Binary \/ Minimum \/ Conversion \/ Dereference
    \/ Move \/ Discard \/ Protect \/ Deprotect
    \/ SaveRegister \/ RestoreRegister \/ BeginCall \/ Push \/ EndCall \/ Finish

Spec == Init /\ [][Next]_vars
-----------------------------------------------------------------------------
(* The value of each operand during execution.  Those saved are on the     *)
(* stack, below the arguments of the calls that have begun since.          *)

StackedBefore(call) ==
    FoldFunctionOnSet(+, 0, [some \in DOMAIN calls |-> Len(calls[some].pending) + calls[some].pushed],
                      1 .. call - 1)

Position(slot) ==
    IF slot \in ToSet(savedRegisters)
    THEN StackedBefore(Len(calls) + 1) + (CHOOSE index \in DOMAIN savedRegisters : savedRegisters[index] = slot)
    ELSE LET call == CHOOSE some \in DOMAIN calls : slot \in ToSet(calls[some].pending)
         IN StackedBefore(call) +
                (CHOOSE index \in DOMAIN calls[call].pending : calls[call].pending[index] = slot)

Meaning(slot) ==
    IF slot \in saved
    THEN Denotes([registers EXCEPT ![operands[slot].register] = stack[Position(slot)]], operands[slot])
    ELSE ValueOf(slot)

\* The promise of the emitter is kept.
Values == INSTANCE Evaluation WITH values <- [slot \in Slots |-> Meaning(slot)]
Evaluates == Values!Spec
=============================================================================
