---------------------------- MODULE MCCompilation ----------------------------
(***************************************************************************)
(* Small front ends on three registers, of which the machine has two, and  *)
(* types of one and two bits.                                              *)
(***************************************************************************)
EXTENDS Compilation

S2 == [model |-> "Signed", size |-> 2]
U2 == [model |-> "Unsigned", size |-> 2]
U1 == [model |-> "Unsigned", size |-> 1]

MCMemory == 0 :> Typed(S2, -2) @@ 1 :> Typed(U2, 3) @@ 2 :> Typed(Pointer, 1) @@ 3 :> Typed(Pointer, 3)

\* All simplifications of all values known and unknown.
Arithmetic == [
    operations |-> {"Literal", "Variable", "Unary", "Binary", "Convert", "Dereference"},
    literals |-> ValuesOf(S2) \cup ValuesOf(U2) \cup ValuesOf(Pointer),
    variables |-> 0 .. 3, mnemonics |-> BinaryMnemonics, types |-> {S2, U2, U1, Pointer},
    displacements |-> {0, 1}, slots |-> 1 .. 2, limit |-> 4]

\* Operands that are protected while others reuse their registers.
Expressions == [
    operations |-> {"Variable", "Binary", "Move", "Protect", "Discard", "Minimize", "Call"},
    literals |-> {}, variables |-> {0}, mnemonics |-> {"SUB"}, types |-> {S2}, displacements |-> {},
    slots |-> 1 .. 3, limit |-> 7]

\* Operands that live across function calls.
Callers == [
    operations |-> {"Variable", "Dereference", "Call"},
    literals |-> {}, variables |-> {2, 3}, mnemonics |-> {}, types |-> {U1}, displacements |-> {0},
    slots |-> 1 .. 3, limit |-> 9]

MCClients == {Arithmetic, Expressions, Callers}

R(register) == Reg(S2, register)
One == Imm(S2, 1)
Instr(mnemonic, operand1, operand2) == Instruction(mnemonic, operand1, operand2, NoOperand)

\* A section with two registers on two paths, one of which is fixed.
FixedSection == <<
    Instr("FIX", R(0), NoOperand), Instr("MOV", R(0), One), Instr("MOV", R(1), One),
    Instruction("BRLT", Offset(2), R(0), R(1)),
    Instruction("ADD", R(0), R(1), One), Instr("MOV", R(1), R(0)),
    Instr("UNFIX", R(0), NoOperand), Instr("PUSH", R(0), NoOperand)>>

\* A section that begins by saving the result of another function.
ResumedSection == <<
    Instr("PUSH", R(RRes), NoOperand), Instr("MOV", R(0), One),
    Instruction("CALL", NoOperand, Size(0), NoOperand),
    Instruction("SUB", R(0), R(RRes), One), Instruction("SUB", R(RRes), R(0), R(RRes)),
    Instr("PUSH", R(0), NoOperand), Instr("POP", R(RRes), NoOperand), Instr("POP", R(RRes), NoOperand)>>

\* A section with an error of every kind that needs no shortage, and correct
\* instructions in between, which leaves registers in use and fixed.
FaultySection == <<
    Instr("PUSH", R(1), NoOperand), Instr("UNFIX", R(0), NoOperand), Instruction("SUB", R(1), R(0), One),
    Instr("FIX", R(0), NoOperand), Instr("MOV", R(0), One), Instr("FIX", R(0), NoOperand),
    Instruction("ADD", R(1), R(0), One), Instr("PUSH", R(1), NoOperand)>>

\* A section that fixes a register and does not use it again.
LeakingSection == <<Instr("MOV", R(1), One), Instr("FIX", R(2), NoOperand), Instr("PUSH", R(1), NoOperand)>>

MCSections == {FixedSection, ResumedSection, FaultySection, LeakingSection}

\* The sections and the generator of this instance are within the hypotheses
\* of the theorems about sections, and some of the sections must be accepted.
ASSUME SectionsRegular ==
    /\ \A given \in MCSections : IsRegular(given)
    /\ \A given \in {FixedSection, ResumedSection} : IsProper(given)
ASSUME ArithmeticUnsupported == Unsupported \subseteq {"CONV"} \cup UnaryMnemonics \cup BinaryMnemonics
=============================================================================
