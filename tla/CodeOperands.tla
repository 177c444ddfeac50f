---------------------------- MODULE CodeOperands ----------------------------
(***************************************************************************)
(* The operands of the intermediate code: its types and registers, the     *)
(* values of immediate operands, what the operands refer to, and how the   *)
(* arithmetic instructions combine two values.  All values of a type are   *)
(* kept within the width of that type, as the code does by truncating the  *)
(* result of every operation.  Floating-point numbers, function pointers   *)
(* and the addresses of sections are left out.                             *)
(***************************************************************************)
EXTENDS Integers, FiniteSetsExt

CONSTANTS
    RMax,   \* the last general-purpose register
    Width   \* the size of a pointer in bits

ASSUME OperandsAssumption == RMax \in Nat /\ Width \in Nat \ {0}

-----------------------------------------------------------------------------
(* Registers: the general-purpose registers from zero to RMax are followed *)
(* by the result register, which is a register of the user as well, and by *)
(* the registers that hold the stack and the frame.                        *)

RRes == RMax + 1
RSP == RMax + 2
RFP == RMax + 3
RVoid == RMax + 5

IsGeneral(register) == register \in 0 .. RMax
IsUser(register) == register \in 0 .. RRes
UserRegisters == {register \in 0 .. RVoid : IsUser(register)}

-----------------------------------------------------------------------------
(* Types are a model and a size, which is a number of bits here.           *)

IsSigned(type) == type.model = "Signed"
IsPointer(type) == type.model = "Pointer"
Pointer == [model |-> "Pointer", size |-> Width]

\* The value that remains when the bits beyond the size are dropped.
Truncate(type, value) ==
    LET bits == value % 2 ^ type.size
    IN IF IsSigned(type) /\ bits >= 2 ^ (type.size - 1) THEN bits - 2 ^ type.size ELSE bits

\* A displacement is a signed number of the size of a pointer.
TruncateDisplacement(value) == Truncate([model |-> "Signed", size |-> Width], value)

\* Values carry their type, and every operation insists on it.
Typed(type, value) == [type |-> type, value |-> value]
ValuesOf(type) == {Typed(type, Truncate(type, bits)) : bits \in 0 .. 2 ^ type.size - 1}

-----------------------------------------------------------------------------
(* Operands: immediate values, registers that are displaced, and memory at *)
(* a displacement from a register.  They are equal exactly when the code   *)
(* compares them as equal.                                                 *)

Operand(model, type, register, displacement, value) ==
    [model |-> model, type |-> type, register |-> register, displacement |-> displacement, value |-> value]

NoType == [model |-> "Void", size |-> 0]
NoOperand == Operand("Void", NoType, RVoid, 0, 0)
Imm(type, value) == Operand("Immediate", type, RVoid, 0, value)
Reg(type, register) == Operand("Register", type, register, 0, 0)
Offset(distance) == Operand("Offset", NoType, RVoid, distance, 0)
Size(count) == Operand("Size", NoType, RVoid, count, 0)

IsImmediate(operand) == operand.model = "Immediate"
IsRegister(operand) == operand.model = "Register" /\ operand.displacement = 0
IsMemory(operand) == operand.model = "Memory"
HasRegister(operand) == operand.register # RVoid
HasUserRegister(operand) == HasRegister(operand) /\ IsUser(operand.register)

\* Memory that is reached by way of another operand, which is a pointer.
Mem(type, operand, displacement) ==
    IF IsImmediate(operand)
    THEN Operand("Memory", type, RVoid, 0, Truncate(operand.type, operand.value + displacement))
    ELSE Operand("Memory", type, operand.register, operand.displacement + displacement, 0)

IsZero(operand) == IsImmediate(operand) /\ operand.value = 0
IsOne(operand) == IsImmediate(operand) /\ operand.value = 1
IsMinusOne(operand) == IsImmediate(operand) /\ IsSigned(operand.type) /\ operand.value = -1
IsNegative(operand) == IsImmediate(operand) /\ IsSigned(operand.type) /\ operand.value < 0
IsFull(operand) == IsImmediate(operand) /\ Truncate(operand.type, -operand.value - 1) = 0

-----------------------------------------------------------------------------
(* Instructions have a mnemonic and up to three operands.                  *)

Instruction(mnemonic, operand1, operand2, operand3) ==
    [mnemonic |-> mnemonic, operand1 |-> operand1, operand2 |-> operand2, operand3 |-> operand3]

-----------------------------------------------------------------------------
(* Arithmetic on the values of one type.  Division truncates towards zero, *)
(* the remainder has the sign of the dividend, and shifting a signed value *)
(* to the right keeps its sign.                                            *)

Magnitude(value) == IF value < 0 THEN -value ELSE value

Quotient(value1, value2) ==
    LET quotient == Magnitude(value1) \div Magnitude(value2)
    IN IF (value1 < 0) = (value2 < 0) THEN quotient ELSE -quotient

Remainder(value1, value2) == value1 - value2 * Quotient(value1, value2)

\* The value whose bits are one where the bits of two values are one of some
\* pairs.
Bitwise2(size, value1, value2, pairs) ==
    LET Bit(value, index) == (value \div 2 ^ index) % 2
        lowest[count \in 0 .. size] ==
            IF count = 0 THEN 0
            ELSE lowest[count - 1]
                + IF <<Bit(value1, count - 1), Bit(value2, count - 1)>> \in pairs THEN 2 ^ (count - 1) ELSE 0
    IN lowest[size]

UnaryMnemonics == {"NEG", "NOT"}
BinaryMnemonics == {"ADD", "SUB", "MUL", "DIV", "MOD", "AND", "OR", "XOR", "LSH", "RSH"}

\* Whether an operation on these values has a result at all.
IsDefined(mnemonic, type, value1, value2) ==
    /\ mnemonic \in {"DIV", "MOD"} => value2 # 0
    /\ mnemonic \in {"LSH", "RSH"} => value2 \in 0 .. type.size - 1

Compute(mnemonic, type, value1, value2) ==
    Truncate(type,
        CASE mnemonic = "ADD" -> value1 + value2
          [] mnemonic = "SUB" -> value1 - value2
          [] mnemonic = "MUL" -> value1 * value2
          [] mnemonic = "DIV" -> Quotient(value1, value2)
          [] mnemonic = "MOD" -> Remainder(value1, value2)
          [] mnemonic = "AND" -> Bitwise2(type.size, value1, value2, {<<1, 1>>})
          [] mnemonic = "OR" -> Bitwise2(type.size, value1, value2, {<<0, 1>>, <<1, 0>>, <<1, 1>>})
          [] mnemonic = "XOR" -> Bitwise2(type.size, value1, value2, {<<0, 1>>, <<1, 0>>})
          [] mnemonic = "LSH" -> value1 * 2 ^ value2
          [] mnemonic = "RSH" -> value1 \div 2 ^ value2)

ComputeUnary(mnemonic, type, value) ==
    Truncate(type, CASE mnemonic = "NEG" -> -value
                     [] mnemonic = "NOT" -> -value - 1)

\* The operations that are available for pointers.
IsAvailable(mnemonic, type) == IsPointer(type) => mnemonic \in {"ADD", "SUB", "MUL", "AND"}
=============================================================================
