---------------------------- MODULE CodeGenerator ----------------------------
(***************************************************************************)
(* The part that all generators of machine code share: it walks through    *)
(* the instructions of a section and maps the registers of the user to     *)
(* physical registers.  A register is mapped when it is modified, together *)
(* with the number of times it is used until it is modified again, and     *)
(* released when these uses have been counted down, unless its mapping is  *)
(* fixed.  Instructions that a target does not support are turned into     *)
(* calls of functions of its runtime library.                              *)
(*                                                                         *)
(* An error gives up an instruction where it occurs.  The next one is      *)
(* generated with what is left, and once the section is given up at its    *)
(* end, the next section is.  An assertion that fails ends everything.     *)
(*                                                                         *)
(* What the code computes does not matter here.  A register holds the      *)
(* position of the instruction that has modified it last, and the machine  *)
(* code generated so far is executed side by side with the instructions it *)
(* is generated from, following the same branches.                         *)
(*                                                                         *)
(* What is marked as faulty is a variant with a bug that no step takes.    *)
(***************************************************************************)
EXTENDS CodeOperands, Sequences

CONSTANTS
    PMax,           \* the last physical register but the result register
    Unmapped,       \* the absence of a physical register
    Unsupported,    \* the mnemonics that need the runtime library
    Sections        \* the sections that may be processed

ASSUME GeneratorAssumption ==
    /\ PMax \in Nat /\ Unmapped \notin 0 .. PMax
    /\ \A section \in Sections : Len(section) \in Nat /\ DOMAIN section = 1 .. Len(section)

VARIABLES
    instructions,       \* the section that is processed
    position,           \* the instruction that is next
    uses,               \* the uses of each register that are left
    fixes,              \* whether the mapping of each register is fixed
    mapping,            \* the physical register of each register
    phase,              \* "idle", "generating", "done", or "assertion"
    errors,             \* the errors in the section so far
    leaked,             \* what sections that were given up left mapped (history)
    virtual,            \* the contents of the registers
    pushed,             \* the contents of their stack
    physical,           \* the contents of the physical registers
    stacked,            \* the contents of the stack of the machine code
    target,             \* the instruction that a branch continues with
    stale               \* the registers that were read with wrong contents

allocation == <<uses, fixes, mapping>>
execution == <<virtual, pushed, physical, stacked, target, stale>>
vars == <<instructions, position, allocation, phase, errors, leaked, execution>>

Physical == 0 .. PMax
Undefined == 0

-----------------------------------------------------------------------------
(* Instructions and the registers they use and modify.                     *)

UsesOf(instruction, register) ==
    LET Used(operand) == IF operand.register = register THEN 1 ELSE 0
    IN Used(instruction.operand1) + Used(instruction.operand2) + Used(instruction.operand3)
       + IF instruction.mnemonic = "CALL" /\ register = RRes THEN 1 ELSE 0

\* The instructions whose first operand is the target of a result.
IsModifying(instruction) ==
    instruction.mnemonic \in {"MOV", "CONV", "POP"} \cup UnaryMnemonics \cup BinaryMnemonics

ModifiedRegister(instruction) ==
    IF instruction.mnemonic = "CALL" THEN RRes
    ELSE IF IsModifying(instruction) /\ IsRegister(instruction.operand1)
    THEN instruction.operand1.register ELSE RVoid

IsBranch(instruction) == instruction.mnemonic = "BRLT"

\* The registers whose contents an instruction depends on.
ReadRegisters(instruction) ==
    {register \in UserRegisters :
        \/ register \in {instruction.operand2.register, instruction.operand3.register}
        \/ /\ instruction.mnemonic \notin {"FIX", "UNFIX"}
           /\ instruction.operand1.register = register
           /\ \/ ModifiedRegister(instruction) # register
              \/ instruction.mnemonic = "CALL"
              \/ IsMemory(instruction.operand1)}

-----------------------------------------------------------------------------
(* Mapping registers.                                                      *)

\* A faulty variant that also stops at modifications that use the register.
UsesUntilModified(index, register) ==
    LET last == Len(instructions)
        Lookahead[next \in index + 1 .. last + 1] ==
            IF next > last \/ ModifiedRegister(instructions[next]) = register THEN 0
            ELSE UsesOf(instructions[next], register) + Lookahead[next + 1]
    IN UsesOf(instructions[index], register) + Lookahead[index + 1]

\* The uses of a register from an instruction on until one that modifies it
\* without using it, unless its mapping is fixed in between.  A mapping that
\* is fixed already when the count begins never counts as released.
UsesFrom(index, register) ==
    LET last == Len(instructions)
        Lookahead[next \in index + 1 .. last + 1] == [fixed \in Int |->
            IF next > last THEN 0
            ELSE LET instruction == instructions[next]
                     own == UsesOf(instruction, register)
                     still == fixed + (IF instruction.mnemonic = "FIX" /\ own > 0 THEN 1
                                       ELSE IF instruction.mnemonic = "UNFIX" /\ own > 0 THEN -1 ELSE 0)
                 IN IF /\ ModifiedRegister(instruction) = register
                       /\ instruction.operand2.register # register
                       /\ instruction.operand3.register # register
                       /\ still = 0
                    THEN 0 ELSE own + Lookahead[next + 1][still]]
    IN UsesOf(instructions[index], register) + Lookahead[index + 1][0]

\* A faulty variant that gives away the register of results as well.
FreeOrResult(mapped, register) ==
    LET free == {some \in Physical : \A other \in UserRegisters : mapped[other] # some}
    IN IF register = RRes THEN 0
       ELSE IF free = {} THEN Unmapped
       ELSE CHOOSE some \in free : \A other \in free : some <= other

\* The physical register for a register, or Unmapped if there is a shortage.
Free(mapped, register) ==
    LET free == {some \in 1 .. PMax : \A other \in UserRegisters : mapped[other] # some}
    IN IF register = RRes THEN 0
       ELSE IF free = {} THEN Unmapped
       ELSE CHOOSE some \in free : \A other \in free : some <= other

\* The state of the allocation is passed from one step to the next, together
\* with the first error or assertion that has failed on the way.
Current == [uses |-> uses, fixes |-> fixes, mapping |-> mapping, failure |-> "none"]

\* Nothing is done after that.
After(state, next) == IF state.failure = "none" THEN next ELSE state

Fail(state, failure) == After(state, [state EXCEPT !.failure = failure])

\* Mapping a register to a physical register that is free.
Map(state, register) ==
    LET free == Free(state.mapping, register)
    IN IF state.mapping[register] # Unmapped THEN Fail(state, "assertion")
       ELSE IF free = Unmapped THEN Fail(state, "register shortage")
       ELSE After(state, [state EXCEPT !.mapping[register] = free])

\* Mapping a register that is not in use for a number of uses, which it has
\* even if there is a shortage.
AcquireFor(state, register, count) ==
    LET used == After(state, [state EXCEPT !.uses[register] = count])
    IN IF count = 0 THEN Fail(state, "assertion")
       ELSE IF state.uses[register] # 0 THEN state
       ELSE IF state.fixes[register] # 0 THEN used ELSE Map(used, register)

\* Using a general-purpose register that is not mapped is an error.
Check(state, operands) ==
    IF \A operand \in operands :
            HasRegister(operand) /\ IsGeneral(operand.register) => state.uses[operand.register] # 0
    THEN state ELSE Fail(state, "unmapped register")

Acquire(state, register, index) ==
    LET instruction == instructions[index]
        checked == IF UsesOf(instruction, register) > 1
                   THEN Check(state, {instruction.operand2, instruction.operand3}) ELSE state
    IN IF ~IsUser(register) \/ state.uses[register] # 0 THEN state
       ELSE AcquireFor(checked, register, UsesFrom(index, register))

\* A faulty variant that releases registers whose mapping is fixed.
CountedDownFixed(state, counts) ==
    LET released == {register \in UserRegisters : state.uses[register] # 0 /\ counts[register] # 0}
        left == [register \in released |-> state.uses[register] - counts[register]]
    IN After(state, [state EXCEPT
            !.uses = [register \in UserRegisters |->
                IF register \in released THEN left[register] ELSE @[register]],
            !.mapping = [register \in UserRegisters |->
                IF register \in released /\ left[register] = 0 THEN Unmapped ELSE @[register]]])

\* A faulty variant that counts down uses that were never counted up.
CountedDownUnguarded(state, counts) ==
    After(state, [state EXCEPT !.uses = [register \in UserRegisters |-> @[register] - counts[register]]])

\* Counting down the uses of registers that are in use.  Only registers that
\* are mapped can be released.
CountedDown(state, counts) ==
    LET released == {register \in UserRegisters : state.uses[register] # 0 /\ counts[register] # 0}
        left == [register \in released |-> state.uses[register] - counts[register]]
        unneeded == {register \in released : left[register] = 0 /\ state.fixes[register] = 0}
    IN IF \/ \E register \in released : left[register] < 0
          \/ \E register \in unneeded : state.mapping[register] = Unmapped
       THEN Fail(state, "assertion")
       ELSE After(state, [state EXCEPT
            !.uses = [register \in UserRegisters |->
                IF register \in released THEN left[register] ELSE @[register]],
            !.mapping = [register \in UserRegisters |->
                IF register \in unneeded THEN Unmapped ELSE @[register]]])

Release(state, register, count) ==
    CountedDown(state, [other \in UserRegisters |-> IF other = register THEN count ELSE 0])

ReleaseAll(state, instruction) ==
    CountedDown(state, [register \in UserRegisters |-> UsesOf(instruction, register)])

\* Fixing and unfixing the mapping of a register.
Fix(state, register, index) ==
    LET acquired == Acquire(state, register, index)
    IN IF ~IsUser(register) THEN state
       ELSE IF state.fixes[register] # 0 THEN Fail(state, "fixed register")
       ELSE Release(After(acquired, [acquired EXCEPT !.fixes[register] = 1]), register, 1)

Unfix(state, register) ==
    LET left == IF state.uses[register] = 0 THEN Unmapped ELSE state.mapping[register]
        unfixed == [state EXCEPT !.fixes = [@ EXCEPT ![register] = 0],
                                 !.mapping = [@ EXCEPT ![register] = left]]
    IN IF ~IsUser(register) THEN state
       ELSE IF state.fixes[register] = 0 THEN Fail(state, "unfixed register")
       ELSE IF state.uses[register] = 0 /\ state.mapping[register] = Unmapped THEN Fail(state, "assertion")
       ELSE Release(After(state, unfixed), register, 1)

-----------------------------------------------------------------------------
(* Executing instructions on registers and a stack, which are those of the *)
(* intermediate code or those of the machine.                              *)

Holds(file, index) == IF index \in DOMAIN file THEN file[index] ELSE Undefined

Executed(file, stack, instruction, Place(_)) ==
    LET modified == ModifiedRegister(instruction)
        operand == instruction.operand1
    IN CASE instruction.mnemonic = "PUSH" ->
                [file |-> file,
                 stack |-> Append(stack, IF IsMemory(operand) \/ ~HasUserRegister(operand) THEN Undefined
                                         ELSE Holds(file, Place(operand.register)))]
         [] instruction.mnemonic = "POP" ->
                [file |-> IF IsUser(modified)
                          THEN [file EXCEPT ![Place(modified)] = Holds(stack, Len(stack))] ELSE file,
                 stack |-> SubSeq(stack, 1, Len(stack) - 1)]
         [] instruction.mnemonic = "CALL" ->
                [file |-> [index \in DOMAIN file |-> IF index = Place(RRes) THEN position ELSE Undefined],
                 stack |-> SubSeq(stack, 1, Len(stack) - instruction.operand2.displacement)]
         [] OTHER ->
                [file |-> IF IsUser(modified) THEN [file EXCEPT ![Place(modified)] = position] ELSE file,
                 stack |-> stack]

\* The registers that are read although their physical register, according to
\* a mapping, does not hold what they hold.
Misread(registers, mapped, file) ==
    {register \in registers :
        virtual[register] # Undefined /\ Holds(file, mapped[register]) # virtual[register]}

\* Nothing is left behind by errors.
Flawless == errors = {} /\ leaked = {}

\* Instructions that a branch skips are generated, but not executed, and what
\* is generated after an error is discarded.
Executes(file, stack, misread) ==
    LET intended == Executed(virtual, pushed, instructions[position], LAMBDA register : register)
    IN IF position < target \/ ~Flawless
       THEN UNCHANGED execution
       ELSE /\ virtual' = intended.file
            /\ pushed' = intended.stack
            /\ physical' = file
            /\ stacked' = stack
            /\ stale' = stale \cup misread
            /\ IF IsBranch(instructions[position])
               THEN target' \in {position + 1, position + 1 + instructions[position].operand1.displacement}
               ELSE UNCHANGED target

\* The next instruction follows, even after an error.
Proceed(state) ==
    /\ uses' = state.uses
    /\ fixes' = state.fixes
    /\ mapping' = state.mapping
    /\ IF state.failure = "assertion"
       THEN phase' = "assertion" /\ UNCHANGED <<position, errors>>
       ELSE /\ position' = position + 1
            /\ errors' = errors \cup ({state.failure} \ {"none"})
            /\ UNCHANGED phase
    /\ UNCHANGED <<instructions, leaked>>

-----------------------------------------------------------------------------
(* The steps: a section begins, its instructions are generated one by one, *)
(* and it ends.                                                            *)

Process(section) ==
    /\ phase \in {"idle", "done"}
    /\ instructions' = section
    /\ position' = 1
    /\ phase' = "generating"
    /\ errors' = {}
    /\ virtual' = [register \in UserRegisters |-> Undefined]
    /\ physical' = [register \in Physical |-> Undefined]
    /\ pushed' = <<>> /\ stacked' = <<>>
    /\ target' = 1
    /\ UNCHANGED <<allocation, leaked, stale>>

IsNext(mnemonics) ==
    /\ phase = "generating"
    /\ position \in DOMAIN instructions
    /\ instructions[position].mnemonic \in mnemonics

FixRegister ==
    /\ IsNext({"FIX"})
    /\ Proceed(Fix(Current, instructions[position].operand1.register, position))
    /\ UNCHANGED execution

UnfixRegister ==
    /\ IsNext({"UNFIX"})
    /\ Proceed(Unfix(Current, instructions[position].operand1.register))
    /\ UNCHANGED execution

Mnemonics == {"MOV", "CONV", "PUSH", "POP", "CALL", "BRLT"} \cup UnaryMnemonics \cup BinaryMnemonics

\* An instruction that the target supports.
Generate ==
    /\ IsNext(Mnemonics \ Unsupported)
    /\ LET instruction == instructions[position]
           acquired == Acquire(Current, ModifiedRegister(instruction), position)
           checked == Check(acquired, {instruction.operand1, instruction.operand2, instruction.operand3})
           generated == Executed(physical, stacked, instruction, LAMBDA register : acquired.mapping[register])
       IN /\ Proceed(ReleaseAll(checked, instruction))
          /\ IF checked.failure # "none" THEN UNCHANGED execution
             ELSE Executes(generated.file, generated.stack,
                           Misread(ReadRegisters(instruction), acquired.mapping, physical))

\* A faulty variant that spares the result register.
KeptButResult(state, instruction) ==
    {register \in UserRegisters \ {RRes} :
        /\ register # ModifiedRegister(instruction)
        /\ state.uses[register] > UsesOf(instruction, register)}

\* The registers that are saved while a function of the runtime library runs.
Kept(state, instruction) ==
    {register \in UserRegisters :
        /\ register # ModifiedRegister(instruction)
        /\ state.uses[register] > UsesOf(instruction, register)}

\* The registers that are read to push the arguments of such a function.
Arguments(instruction) ==
    {instruction.operand2, instruction.operand3}
        \cup (IF IsModifying(instruction) THEN {} ELSE {instruction.operand1})

\* The arguments are released when the function is called, and the register
\* that is modified is acquired.
Called(state, instruction) ==
    LET checked == Check(state, Arguments(instruction))
        released == Release(Release(checked, instruction.operand2.register, 1),
                            instruction.operand3.register, 1)
        modified == ModifiedRegister(instruction)
    IN IF modified = RVoid THEN released ELSE Acquire(released, modified, position)

\* The result register is mapped, whatever it was mapped to before,
Returned(state) == Map(Release(state, RRes, state.uses[RRes]), RRes)

\* until the result is stored, and then for the uses that it had before,
Resumed(state, instruction) ==
    LET used == state.uses[RRes]
        stored == IF IsBranch(instruction)
                  THEN IF used = 0 THEN Returned(state) ELSE Fail(Returned(state), "assertion")
                  ELSE After(Returned(state), [Returned(state) EXCEPT !.mapping[RRes] = Unmapped])
    IN IF used = 0 THEN stored ELSE AcquireFor(stored, RRes, used)

\* or until it is tested.
Tested(state, instruction) ==
    IF IsBranch(instruction) THEN After(state, [state EXCEPT !.mapping[RRes] = Unmapped]) ELSE state

\* An instruction that the target does not support.  The function clobbers
\* all registers, and its result is moved to the target or tested.
CallRuntime ==
    /\ IsNext(Mnemonics \cap Unsupported)
    /\ LET instruction == instructions[position]
           operand == instruction.operand1
           modified == ModifiedRegister(instruction)
           kept == Kept(Current, instruction)
           acquired == Called(Current, instruction)
           returned == Returned(acquired)
           resumed == Resumed(acquired, instruction)
           finished == Release(Tested(resumed, instruction), operand.register, 1)
           clobbered == [register \in Physical |-> IF register = 0 THEN position ELSE Undefined]
           moved == IF IsUser(modified) THEN [clobbered EXCEPT ![returned.mapping[modified]] = position]
                    ELSE clobbered
           restored == [register \in Physical |->
                            IF \E saved \in kept : resumed.mapping[saved] = register
                            THEN physical[mapping[CHOOSE saved \in kept : resumed.mapping[saved] = register]]
                            ELSE moved[register]]
           read == {argument.register : argument \in Arguments(instruction)} \cap UserRegisters
           addressed == IF IsModifying(instruction) /\ IsMemory(operand)
                        THEN {operand.register} \cap UserRegisters ELSE {}
       IN /\ Proceed(finished)
          /\ IF finished.failure # "none" THEN UNCHANGED execution
             ELSE Executes(restored, stacked,
                           Misread(read, mapping, physical) \cup Misread(addressed, returned.mapping, clobbered))

\* A section that is in error, or leaves a register fixed, is given up.  The
\* registers in use are released, which must be mapped.  Those that are fixed
\* only are forgotten, but stay mapped.
GiveUp ==
    /\ errors' = IF errors = {} THEN {"fixed register mapping"} ELSE errors
    /\ fixes' = [register \in UserRegisters |-> 0]
    /\ IF \E register \in UserRegisters : uses[register] # 0 /\ mapping[register] = Unmapped
       THEN phase' = "assertion" /\ UNCHANGED <<uses, mapping, leaked>>
       ELSE /\ uses' = [register \in UserRegisters |-> 0]
            /\ mapping' = [register \in UserRegisters |->
                                IF uses[register] # 0 THEN Unmapped ELSE mapping[register]]
            /\ leaked' = leaked \cup {register \in UserRegisters :
                                fixes[register] # 0 /\ uses[register] = 0 /\ mapping[register] # Unmapped}
            /\ phase' = "done"

\* The end of a section, which leaves no register fixed or in use.
EndSection ==
    /\ phase = "generating"
    /\ position > Len(instructions)
    /\ IF errors # {} \/ \E register \in UserRegisters : fixes[register] # 0
       THEN GiveUp
       ELSE /\ phase' = IF \E register \in UserRegisters : uses[register] # 0 THEN "assertion" ELSE "done"
            /\ UNCHANGED <<allocation, errors, leaked>>
    /\ UNCHANGED <<instructions, position, execution>>

-----------------------------------------------------------------------------
Init ==
    /\ instructions = <<>>
    /\ position = 1
    /\ uses = [register \in UserRegisters |-> 0]
    /\ fixes = uses
    /\ mapping = [register \in UserRegisters |-> Unmapped]
    /\ phase = "idle"
    /\ errors = {}
    /\ leaked = {}
    /\ virtual = [register \in UserRegisters |-> Undefined]
    /\ physical = [register \in Physical |-> Undefined]
    /\ pushed = <<>> /\ stacked = <<>>
    /\ target = 1
    /\ stale = {}

Step == FixRegister \/ UnfixRegister \/ Generate \/ CallRuntime \/ EndSection

Next == (\E section \in Sections : Process(section)) \/ Step

Spec == Init /\ [][Next]_vars

-----------------------------------------------------------------------------
(* The sections that are generated correctly.                              *)

\* Fixing a register keeps its mapping until it is unfixed.
Fixing(instruction, register) ==
    instruction.mnemonic = "FIX" /\ instruction.operand1.register = register
Unfixing(instruction, register) ==
    instruction.mnemonic = "UNFIX" /\ instruction.operand1.register = register

\* A register is fixed before one instruction, and not unfixed before another.
FixedOver(given, before, index, register) ==
    \E start \in 1 .. before - 1 :
        /\ Fixing(given[start], register)
        /\ \A between \in start + 1 .. index - 1 : ~Unfixing(given[between], register)

FixedAt(given, index, register) == FixedOver(given, index, index, register)

ModifiedBefore(given, index, register) ==
    \E earlier \in 1 .. index - 1 : ModifiedRegister(given[earlier]) = register

\* Where two paths meet, registers that only one of them modifies have been
\* fixed before, or they are not needed any more.
SkipsRight(given, index) ==
    LET distance == given[index].operand1.displacement
    IN /\ distance \in Nat
       /\ \A skipped \in index + 1 .. index + distance : \A register \in UserRegisters :
            skipped \in DOMAIN given /\ ModifiedRegister(given[skipped]) = register =>
                \/ FixedOver(given, index, skipped, register)
                \/ /\ ~FixedAt(given, skipped, register)
                   /\ \A later \in skipped + 1 .. Len(given) : UsesOf(given[later], register) = 0

\* What calls the runtime library is no operation on the stack, leaves no
\* register fixed, and does not reach its target by way of a register.
RuntimeRight(given, index) ==
    LET instruction == given[index]
    IN /\ instruction.mnemonic \notin {"PUSH", "POP", "CALL"}
       /\ \A register \in UserRegisters : ~FixedAt(given, index, register)
       /\ IsModifying(instruction) /\ IsMemory(instruction.operand1) =>
             instruction.operand1.register \notin UserRegisters
       /\ /\ ModifiedRegister(instruction) = RRes
          /\ RRes \in {instruction.operand2.register, instruction.operand3.register}
          => ModifiedBefore(given, index, RRes)

\* What keeps the uses that are counted down and those counted ahead equal.
IsRegular(given) ==
    \A index \in DOMAIN given :
        LET instruction == given[index]
        IN /\ instruction.mnemonic \in {"FIX", "UNFIX"} =>
                /\ instruction.operand2.register \notin UserRegisters
                /\ instruction.operand3.register \notin UserRegisters
           /\ instruction.mnemonic = "CALL" =>
                instruction.operand1.register # RRes /\ instruction.operand2.displacement \in Nat
           /\ IsBranch(instruction) => SkipsRight(given, index)
           /\ instruction.mnemonic \in Unsupported => RuntimeRight(given, index)

\* Other registers than that of results are modified before they are read,
\* registers are fixed and unfixed in turns, and branches are supported.
IsProper(given) ==
    /\ \A index \in DOMAIN given : \A register \in UserRegisters :
        LET instruction == given[index]
        IN /\ register \in ReadRegisters(instruction) /\ register # RRes =>
                ModifiedBefore(given, index, register)
           /\ Fixing(instruction, register) => ~FixedAt(given, index, register)
           /\ Unfixing(instruction, register) => FixedAt(given, index, register)
           /\ IsBranch(instruction) => instruction.mnemonic \notin Unsupported
    /\ \A register \in UserRegisters : ~FixedAt(given, Len(given) + 1, register)

-----------------------------------------------------------------------------
\* The state of the allocation is what the code can represent.
TypeOK ==
    /\ uses \in [UserRegisters -> Nat]
    /\ fixes \in [UserRegisters -> {0, 1}]
    /\ mapping \in [UserRegisters -> Physical \cup {Unmapped}]

\* A register has a physical register exactly as long as it is in use or its
\* mapping is fixed, so that acquiring and releasing alternate, although the
\* uses and the fixes are counted down separately, and errors interrupt this
\* anywhere.  Only a shortage of registers leaves one in use that has none,
\* and only sections that were given up leave one mapped that is not in use.
MappedWhileNeeded ==
    phase # "assertion" =>
        \A register \in UserRegisters :
            LET needed == uses[register] # 0 \/ fixes[register] # 0
            IN /\ mapping[register] # Unmapped => needed \/ register \in leaked
               /\ needed => mapping[register] # Unmapped \/ "register shortage" \in errors

\* No two registers share a physical register, and only the result register
\* is mapped to that of results, whatever an error has left behind for the
\* instructions and the sections that follow.
MappedApart ==
    \A register, other \in UserRegisters :
        /\ register # other /\ mapping[register] # Unmapped => mapping[register] # mapping[other]
        /\ mapping[register] = 0 => register = RRes

\* Whenever the machine code reads a physical register for a register, it
\* holds what the register holds in the intermediate code, on every path: no
\* physical register is given away while its contents are needed.
NeverStale == stale = {}

\* A section that is proper is never rejected, nor does it run into an
\* assertion, other than for a shortage of registers.  This holds even after
\* sections that were rejected, unless they have left registers mapped.
SectionAccepted ==
    \/ "register shortage" \in errors
    \/ errors = {} /\ phase # "assertion"
    \/ leaked # {}
    \/ ~IsProper(instructions)
=============================================================================
