----------------------------- MODULE Compilation -----------------------------
(***************************************************************************)
(* The way from a front end to machine code: the emitter produces a        *)
(* section of intermediate code, whose last step hands it over to the      *)
(* generator, which also processes sections that were written by hand.     *)
(***************************************************************************)
EXTENDS CodeGenerator, SequencesExt

CONSTANTS Slots, Memory, Nothing, Clients, RepeatedModulo

\* Slots are numbered, front ends use those there are and ask for operations
\* there are, and Nothing is no register.
ASSUME CompilationAssumption ==
    /\ IsFiniteSet(Slots) /\ Slots \subseteq Nat
    /\ \A front \in Clients : front.slots \subseteq Slots /\ front.mnemonics \subseteq BinaryMnemonics
    /\ Nothing \notin Int

VARIABLES client, steps, request, operands, protected, saved, savedRegisters, calls,
          registerUses, protections, section, registers, stack, status

Emitter == INSTANCE CodeEmitter WITH uses <- registerUses

emission == <<client, steps, request, operands, protected, saved, savedRegisters, calls,
              registerUses, protections, section, registers, stack, status>>

-----------------------------------------------------------------------------
EmitSection == Emitter!Next /\ phase = "idle" /\ UNCHANGED vars

\* The section is all that remains of the emitter.
HandOver ==
    /\ status = "finished"
    /\ Process(section)
    /\ status' = "emitted"
    /\ steps' = 0
    /\ request' = [name |-> "Keep"]
    /\ section' = <<>> /\ stack' = <<>>
    /\ registers' = [register \in UserRegisters |-> Nothing]
    /\ UNCHANGED <<client, operands, protected, saved, savedRegisters, calls, registerUses, protections>>

\* Sections that were written by hand come instead of one that is emitted.
ProcessWritten ==
    /\ steps = 0 /\ status = "emitting"
    /\ \E written \in Sections : Process(written)
    /\ UNCHANGED emission

GenerateSection == Step /\ UNCHANGED emission

CompilationNext == EmitSection \/ HandOver \/ ProcessWritten \/ GenerateSection

CompilationInit == Init /\ Emitter!Init

CompilationSpec == CompilationInit /\ [][CompilationNext]_<<vars, emission>>

-----------------------------------------------------------------------------
\* Whatever the front end asks for, the instructions that are emitted give
\* every operand the value that the abstract operations have: no rule that
\* simplifies changes a result, no register is reused while an operand needs
\* it, and operands that live across calls get their own value back.
Evaluates == Emitter!Evaluates

\* A register counts as used by exactly the operands that refer to it, and as
\* protected by exactly those that protect it, including the operands that
\* are saved on the stack and whose register is replaced later on.
RegistersCounted ==
    LET Referring(register, slots) ==
            Cardinality({slot \in slots : operands[slot].register = register})
    IN \A register \in UserRegisters :
        /\ registerUses[register] = Referring(register, Slots \ protected)
        /\ protections[register] = Referring(register, protected)

=============================================================================
