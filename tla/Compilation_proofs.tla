------------------------- MODULE Compilation_proofs -------------------------
(***************************************************************************)
(* Registers are mapped exactly as long as they are needed, and never to   *)
(* the same physical register.  Each operation on the state of the         *)
(* allocation preserves this, and an error that gives up an instruction    *)
(* anywhere leaves it to the instructions and the sections that follow.    *)
(*                                                                         *)
(* The second part is about the emitter before it: what it counts for a    *)
(* register are the operands that refer to it, whatever it simplifies.     *)
(*                                                                         *)
(* The last part is about what the machine code reads: the generator keeps *)
(* track of a section, so that what is counted down is what was counted    *)
(* ahead, and nothing that a register holds is lost before it is read.     *)
(* This is so for sections that are regular and proper, until there is an  *)
(* error, and those that the emitter emits are, so that it is so for every *)
(* front end.                                                              *)
(***************************************************************************)
EXTENDS Compilation, WellFoundedInduction, FiniteSetTheorems, SequenceTheorems, TLAPS

Failures == {"none", "assertion", "register shortage", "unmapped register",
             "fixed register", "unfixed register", "fixed register mapping"}

IsState(state) ==
    /\ state = [uses |-> state.uses, fixes |-> state.fixes,
                mapping |-> state.mapping, failure |-> state.failure]
    /\ DOMAIN state.uses = UserRegisters
    /\ DOMAIN state.fixes = UserRegisters
    /\ DOMAIN state.mapping = UserRegisters
    /\ state.failure \in Failures

\* What is mapped is needed, or was forgotten with a section given up.
NoneIdle(used, fixed, mapped) ==
    \A register \in UserRegisters :
        mapped[register] # Unmapped => used[register] # 0 \/ fixed[register] # 0 \/ register \in leaked

\* What is needed is mapped.
NoneMissing(used, fixed, mapped) ==
    \A register \in UserRegisters :
        used[register] # 0 \/ fixed[register] # 0 => mapped[register] # Unmapped

Apart(mapped) ==
    \A register, other \in UserRegisters :
        /\ register # other /\ mapped[register] # Unmapped => mapped[register] # mapped[other]
        /\ mapped[register] = 0 => register = RRes

\* What is mapped is what is needed.
Needed(used, fixed, mapped) ==
    \A register \in UserRegisters :
        mapped[register] # Unmapped <=> used[register] # 0 \/ fixed[register] # 0

\* Whether there has been a shortage of registers in the section.
Short == "register shortage" \in errors

Sound(state) ==
    /\ IsState(state)
    /\ Apart(state.mapping)
    /\ state.failure # "assertion" => NoneIdle(state.uses, state.fixes, state.mapping)
    /\ state.failure \notin {"assertion", "register shortage"} /\ ~Short =>
            NoneMissing(state.uses, state.fixes, state.mapping)

-----------------------------------------------------------------------------
(* The operations on a state of the allocation.                            *)

\* The result register is one of the user, and zero is not Unmapped.
LEMMA Registers ==
    /\ RRes \in UserRegisters
    /\ 0 # Unmapped
    /\ \A register : IsUser(register) <=> register \in UserRegisters
BY OperandsAssumption, GeneratorAssumption
DEF UserRegisters, IsUser, RRes, RVoid

\* A failure changes nothing else.
LEMMA FailState ==
    ASSUME NEW state, NEW failure \in Failures \ {"none"}, IsState(state)
    PROVE  /\ IsState(Fail(state, failure))
           /\ Fail(state, failure).failure = IF state.failure = "none" THEN failure ELSE state.failure
           /\ Fail(state, failure).uses = state.uses
           /\ Fail(state, failure).fixes = state.fixes
           /\ Fail(state, failure).mapping = state.mapping
<1>1. CASE state.failure = "none"
  <2>1. Fail(state, failure) = [uses |-> state.uses, fixes |-> state.fixes,
                                mapping |-> state.mapping, failure |-> failure]
    BY <1>1 DEF Fail, After, IsState
  <2> QED BY <1>1, <2>1 DEF IsState
<1>2. CASE state.failure # "none"
  BY <1>2 DEF Fail, After
<1> QED BY <1>1, <1>2

LEMMA FailSound ==
    ASSUME NEW state, NEW failure \in Failures \ {"none", "register shortage"}, Sound(state)
    PROVE  Sound(Fail(state, failure)) /\ Fail(state, failure).failure # "none"
<1>1. /\ IsState(Fail(state, failure))
      /\ Fail(state, failure).failure = IF state.failure = "none" THEN failure ELSE state.failure
      /\ Fail(state, failure).uses = state.uses
      /\ Fail(state, failure).fixes = state.fixes
      /\ Fail(state, failure).mapping = state.mapping
  BY FailState DEF Sound
<1> QED BY <1>1 DEF Sound

\* An assertion that fails ends everything.
LEMMA AssertionSound ==
    ASSUME NEW state, IsState(state), Apart(state.mapping), state.failure = "none"
    PROVE  /\ Sound(Fail(state, "assertion"))
           /\ Fail(state, "assertion").failure = "assertion"
<1>1. "assertion" \in Failures \ {"none"}
  BY DEF Failures
<1>2. /\ IsState(Fail(state, "assertion"))
      /\ Fail(state, "assertion").failure = "assertion"
      /\ Fail(state, "assertion").mapping = state.mapping
  BY <1>1, FailState
<1> QED BY <1>2 DEF Sound

\* A set of registers that is not empty has a first one.
LEMMA FirstRegister ==
    ASSUME NEW T \in SUBSET Nat, T # {}
    PROVE  \E first \in T : \A other \in T : first <= other
<1>1. PICK first \in T : \A other \in T : ~(<<other, first>> \in OpToRel(<, Nat))
  BY NatLessThanWellFounded, WFMin
<1>2. ASSUME NEW other \in T, other < first
      PROVE  <<other, first>> \in OpToRel(<, Nat)
  <2>1. <<other, first>> \in Nat \X Nat /\ <<other, first>>[1] < <<other, first>>[2]
    BY <1>2
  <2> QED BY <2>1, Zenon DEF OpToRel
<1>3. \A other \in T : ~(other < first)
  BY <1>1, <1>2
<1> QED BY <1>3

\* A physical register that is free is mapped to no other register.
LEMMA FreeApart ==
    ASSUME NEW mapped, NEW register \in UserRegisters,
           DOMAIN mapped = UserRegisters, Apart(mapped), mapped[register] = Unmapped,
           Free(mapped, register) # Unmapped
    PROVE  Apart([mapped EXCEPT ![register] = Free(mapped, register)])
<1> DEFINE free == {some \in 1 .. PMax : \A other \in UserRegisters : mapped[other] # some}
           least == CHOOSE some \in free : \A other \in free : some <= other
<1>1. CASE register = RRes
  BY <1>1, Registers DEF Free, Apart
<1>2. CASE register # RRes
  <2>1. free # {} /\ Free(mapped, register) = least
    BY <1>2 DEF Free
  <2>2. \E some \in free : \A other \in free : some <= other
    <3>1. free \in SUBSET Nat /\ free # {}
      BY <2>1
    <3> QED BY <3>1, FirstRegister
  <2>3. least \in free
    BY <2>2
  <2>4. least # 0 /\ \A other \in UserRegisters : mapped[other] # least
    BY <2>3, GeneratorAssumption
  <2> QED BY <1>2, <2>1, <2>4 DEF Apart
<1> QED BY <1>1, <1>2

\* Mapping a register changes its mapping, or fails: the assertion that it is
\* not mapped, or for want of a physical register, which that of results has.
LEMMA MapState ==
    ASSUME NEW state, NEW register \in UserRegisters, IsState(state), Apart(state.mapping)
    PROVE  /\ IsState(Map(state, register))
           /\ Apart(Map(state, register).mapping)
           /\ Map(state, register).uses = state.uses
           /\ Map(state, register).fixes = state.fixes
           /\ state.failure # "none" => Map(state, register) = state
           /\ state.failure = "none" =>
                \/ Map(state, register).failure = "assertion"
                \/ /\ Map(state, register).failure = "register shortage"
                   /\ register # RRes
                   /\ Map(state, register).mapping = state.mapping
                \/ /\ Map(state, register).failure = "none"
                   /\ state.mapping[register] = Unmapped
                   /\ Map(state, register).mapping[register] # Unmapped
                   /\ \A other \in UserRegisters \ {register} :
                            Map(state, register).mapping[other] = state.mapping[other]
<1> DEFINE free == Free(state.mapping, register)
           mapped == [state EXCEPT !.mapping[register] = free]
<1>1. CASE state.failure # "none"
  BY <1>1 DEF Map, Fail, After
<1>2. CASE state.failure = "none" /\ state.mapping[register] # Unmapped
  <2>1. Map(state, register) = Fail(state, "assertion")
    BY <1>2 DEF Map
  <2>2. "assertion" \in Failures \ {"none"}
    BY DEF Failures
  <2> HIDE DEF free, mapped
  <2> QED BY <1>2, <2>1, <2>2, FailState
<1>3. CASE state.failure = "none" /\ state.mapping[register] = Unmapped /\ free = Unmapped
  <2>1. Map(state, register) = Fail(state, "register shortage")
    BY <1>3 DEF Map
  <2>2. "register shortage" \in Failures \ {"none"}
    BY DEF Failures
  <2>3. register # RRes
    BY <1>3, Registers DEF Free
  <2> HIDE DEF free, mapped
  <2> QED BY <1>3, <2>1, <2>2, <2>3, FailState
<1>4. CASE state.failure = "none" /\ state.mapping[register] = Unmapped /\ free # Unmapped
  <2>1. Map(state, register) = mapped
    BY <1>4 DEF Map, After
  <2> HIDE DEF free
  <2>2. /\ mapped = [uses |-> state.uses, fixes |-> state.fixes,
                     mapping |-> [state.mapping EXCEPT ![register] = free], failure |-> state.failure]
        /\ mapped.mapping = [state.mapping EXCEPT ![register] = free]
    BY DEF IsState
  <2>3. Apart(mapped.mapping)
    BY <1>4, <2>2, FreeApart DEF IsState, free
  <2> QED BY <1>4, <2>1, <2>2, <2>3 DEF IsState
<1> QED BY <1>1, <1>2, <1>3, <1>4

LEMMA AcquireForSound ==
    ASSUME NEW state, NEW register \in UserRegisters, NEW count, Sound(state)
    PROVE  /\ Sound(AcquireFor(state, register, count))
           /\ state.failure # "none" => AcquireFor(state, register, count) = state
           /\ AcquireFor(state, register, count).failure = "none" =>
                AcquireFor(state, register, count).uses[register] # 0
<1> DEFINE used == [state EXCEPT !.uses[register] = count]
<1>0. CASE state.failure # "none"
  BY <1>0 DEF AcquireFor, Map, Fail, After
<1>1. CASE state.failure = "none" /\ count = 0
  <2>1. AcquireFor(state, register, count) = Fail(state, "assertion")
    BY <1>1 DEF AcquireFor
  <2> QED BY <1>1, <2>1, AssertionSound DEF Sound
<1>2. CASE state.failure = "none" /\ count # 0 /\ state.uses[register] # 0
  BY <1>2 DEF AcquireFor
<1>3. CASE state.failure = "none" /\ count # 0 /\ state.uses[register] = 0
  <2>1. /\ used = [uses |-> [state.uses EXCEPT ![register] = count], fixes |-> state.fixes,
                   mapping |-> state.mapping, failure |-> state.failure]
        /\ IsState(used)
        /\ used.uses[register] = count
        /\ \A other \in UserRegisters \ {register} : used.uses[other] = state.uses[other]
    <3>1. IsState(state)
      BY DEF Sound
    <3> QED BY <3>1 DEF IsState
  <2>2. /\ Apart(used.mapping)
        /\ used.mapping = state.mapping /\ used.fixes = state.fixes /\ used.failure = "none"
        /\ NoneIdle(used.uses, used.fixes, used.mapping)
    BY <1>3, <2>1 DEF Sound, NoneIdle
  <2>3. CASE state.fixes[register] # 0
    <3>1. AcquireFor(state, register, count) = used
      BY <1>3, <2>3 DEF AcquireFor, After
    <3> HIDE DEF used
    <3> QED BY <1>3, <2>1, <2>2, <2>3, <3>1 DEF Sound, NoneMissing
  <2>4. CASE state.fixes[register] = 0
    <3> DEFINE result == Map(used, register)
    <3>1. AcquireFor(state, register, count) = result
      BY <1>3, <2>4 DEF AcquireFor, After
    <3> HIDE DEF used
    <3>2. /\ IsState(result)
          /\ Apart(result.mapping)
          /\ result.uses = used.uses
          /\ result.fixes = used.fixes
          /\ \/ result.failure = "assertion"
             \/ /\ result.failure = "register shortage"
                /\ result.mapping = used.mapping
             \/ /\ result.failure = "none"
                /\ result.mapping[register] # Unmapped
                /\ \A other \in UserRegisters \ {register} : result.mapping[other] = used.mapping[other]
      <4>1. IsState(used) /\ Apart(used.mapping) /\ used.failure = "none"
        BY <2>1, <2>2
      <4> QED BY <4>1, MapState
    <3> HIDE DEF result
    <3>3. result.failure # "assertion" => NoneIdle(result.uses, result.fixes, result.mapping)
      BY <1>3, <2>1, <2>2, <3>2 DEF NoneIdle
    <3>4. result.failure = "none" /\ ~Short => NoneMissing(result.uses, result.fixes, result.mapping)
      BY <1>3, <2>1, <2>2, <3>2 DEF Sound, NoneMissing
    <3> QED BY <1>3, <2>1, <3>1, <3>2, <3>3, <3>4 DEF Sound
  <2> QED BY <2>3, <2>4
<1> QED BY <1>0, <1>1, <1>2, <1>3

LEMMA CheckSound ==
    ASSUME NEW state, NEW checkable, Sound(state)
    PROVE  /\ Sound(Check(state, checkable))
           /\ state.failure # "none" => Check(state, checkable) = state
<1>1. "unmapped register" \in Failures \ {"none", "register shortage"}
  BY DEF Failures
<1>2. Sound(Fail(state, "unmapped register"))
  BY <1>1, FailSound
<1>3. state.failure # "none" => Fail(state, "unmapped register") = state
  BY DEF Fail, After
<1> QED BY <1>2, <1>3 DEF Check

LEMMA AcquireSound ==
    ASSUME NEW state, NEW register, NEW index, Sound(state)
    PROVE  /\ Sound(Acquire(state, register, index))
           /\ state.failure # "none" => Acquire(state, register, index) = state
           /\ register \in UserRegisters /\ Acquire(state, register, index).failure = "none" =>
                Acquire(state, register, index).uses[register] # 0
<1> DEFINE instruction == instructions[index]
           checked == IF UsesOf(instruction, register) > 1
                      THEN Check(state, {instruction.operand2, instruction.operand3}) ELSE state
           count == UsesFrom(index, register)
<1>1. Sound(checked) /\ (state.failure # "none" => checked = state)
  BY CheckSound
<1>2. CASE ~IsUser(register) \/ state.uses[register] # 0
  BY <1>2, Registers DEF Acquire
<1>3. CASE IsUser(register) /\ state.uses[register] = 0
  <2>1. Acquire(state, register, index) = AcquireFor(checked, register, count)
    BY <1>3 DEF Acquire
  <2>2. register \in UserRegisters
    BY <1>3, Registers
  <2> HIDE DEF checked, count
  <2> QED BY <1>1, <2>1, <2>2, AcquireForSound
<1> QED BY <1>2, <1>3

LEMMA CountedDownSound ==
    ASSUME NEW state, NEW counts, Sound(state)
    PROVE  /\ Sound(CountedDown(state, counts))
           /\ state.failure # "none" => CountedDown(state, counts) = state
<1> DEFINE released == {register \in UserRegisters : state.uses[register] # 0 /\ counts[register] # 0}
           left == [register \in released |-> state.uses[register] - counts[register]]
           unneeded == {register \in released : left[register] = 0 /\ state.fixes[register] = 0}
           used == [register \in UserRegisters |->
                        IF register \in released THEN left[register] ELSE state.uses[register]]
           mapped == [register \in UserRegisters |->
                        IF register \in unneeded THEN Unmapped ELSE state.mapping[register]]
           failing == \/ \E register \in released : left[register] < 0
                      \/ \E register \in unneeded : state.mapping[register] = Unmapped
<1>0. CASE state.failure # "none"
  BY <1>0 DEF CountedDown, Fail, After
<1>1. CASE state.failure = "none" /\ failing
  <2>1. CountedDown(state, counts) = Fail(state, "assertion")
    BY <1>1 DEF CountedDown
  <2> HIDE DEF failing
  <2> QED BY <1>1, <2>1, AssertionSound DEF Sound
<1>2. CASE state.failure = "none" /\ ~failing
  <2>1. CountedDown(state, counts) = [state EXCEPT !.uses = used, !.mapping = mapped]
    BY <1>2 DEF CountedDown, After
  <2>2. CountedDown(state, counts) =
            [uses |-> used, fixes |-> state.fixes, mapping |-> mapped, failure |-> state.failure]
    <3> HIDE DEF used, mapped
    <3> QED BY <2>1 DEF Sound, IsState
  <2>3. Apart(mapped)
    BY Registers DEF Sound, Apart
  <2>4. NoneIdle(used, state.fixes, mapped)
    <3>1. NoneIdle(state.uses, state.fixes, state.mapping)
      BY <1>2 DEF Sound
    <3> QED BY <3>1 DEF NoneIdle
  <2>5. NoneMissing(state.uses, state.fixes, state.mapping) => NoneMissing(used, state.fixes, mapped)
    BY DEF NoneMissing
  <2>6. DOMAIN used = UserRegisters /\ DOMAIN mapped = UserRegisters
    OBVIOUS
  <2> HIDE DEF used, mapped
  <2> QED BY <1>2, <2>2, <2>3, <2>4, <2>5, <2>6 DEF Sound, IsState
<1> QED BY <1>0, <1>1, <1>2

LEMMA ReleaseSound ==
    ASSUME NEW state, NEW register, NEW count, Sound(state)
    PROVE  /\ Sound(Release(state, register, count))
           /\ state.failure # "none" => Release(state, register, count) = state
BY CountedDownSound DEF Release

LEMMA ReleaseAllSound ==
    ASSUME NEW state, NEW instruction, Sound(state)
    PROVE  Sound(ReleaseAll(state, instruction))
BY CountedDownSound DEF ReleaseAll

LEMMA FixSound ==
    ASSUME NEW state, NEW register, NEW index, Sound(state)
    PROVE  Sound(Fix(state, register, index))
<1> DEFINE acquired == Acquire(state, register, index)
           fixed == [acquired EXCEPT !.fixes[register] = 1]
           next == After(acquired, fixed)
<1>1. CASE ~IsUser(register)
  BY <1>1 DEF Fix
<1>2. CASE IsUser(register) /\ state.fixes[register] # 0
  <2>1. Fix(state, register, index) = Fail(state, "fixed register")
    BY <1>2 DEF Fix
  <2>2. "fixed register" \in Failures \ {"none", "register shortage"}
    BY DEF Failures
  <2> QED BY <2>1, <2>2, FailSound
<1>3. CASE IsUser(register) /\ state.fixes[register] = 0
  <2>1. Fix(state, register, index) = Release(next, register, 1)
    BY <1>3 DEF Fix
  <2>2. /\ register \in UserRegisters
        /\ Sound(acquired)
        /\ acquired.failure = "none" => acquired.uses[register] # 0
    BY <1>3, AcquireSound, Registers
  <2> HIDE DEF acquired
  <2>3. /\ fixed = [uses |-> acquired.uses, fixes |-> [acquired.fixes EXCEPT ![register] = 1],
                    mapping |-> acquired.mapping, failure |-> acquired.failure]
        /\ IsState(fixed)
        /\ fixed.fixes[register] = 1
        /\ \A other \in UserRegisters \ {register} : fixed.fixes[other] = acquired.fixes[other]
    <3>1. IsState(acquired)
      BY <2>2 DEF Sound
    <3> QED BY <2>2, <3>1 DEF IsState
  <2> HIDE DEF fixed
  <2>4. Sound(next)
    BY <2>2, <2>3 DEF Sound, NoneIdle, NoneMissing, After
  <2> HIDE DEF next
  <2> QED BY <2>1, <2>4, ReleaseSound
<1> QED BY <1>1, <1>2, <1>3

LEMMA UnfixSound ==
    ASSUME NEW state, NEW register, Sound(state)
    PROVE  Sound(Unfix(state, register))
<1> DEFINE left == IF state.uses[register] = 0 THEN Unmapped ELSE state.mapping[register]
           fixed == [state.fixes EXCEPT ![register] = 0]
           mapped == [state.mapping EXCEPT ![register] = left]
           unfixed == [state EXCEPT !.fixes = fixed, !.mapping = mapped]
<1>0. CASE state.failure # "none"
  <2>1. Unfix(state, register) \in {state, Release(state, register, 1)}
    BY <1>0 DEF Unfix, Fail, After
  <2> QED BY <1>0, <2>1, ReleaseSound
<1>1. CASE state.failure = "none" /\ ~IsUser(register)
  BY <1>1 DEF Unfix
<1>2. CASE state.failure = "none" /\ IsUser(register) /\ state.fixes[register] = 0
  <2>1. Unfix(state, register) = Fail(state, "unfixed register")
    BY <1>2 DEF Unfix
  <2>2. "unfixed register" \in Failures \ {"none", "register shortage"}
    BY DEF Failures
  <2> QED BY <2>1, <2>2, FailSound
<1>3. CASE /\ state.failure = "none" /\ IsUser(register) /\ state.fixes[register] # 0
           /\ state.uses[register] = 0 /\ state.mapping[register] = Unmapped
  <2>1. Unfix(state, register) = Fail(state, "assertion")
    BY <1>3 DEF Unfix
  <2> QED BY <1>3, <2>1, AssertionSound DEF Sound
<1>4. CASE /\ state.failure = "none" /\ IsUser(register) /\ state.fixes[register] # 0
           /\ ~(state.uses[register] = 0 /\ state.mapping[register] = Unmapped)
  <2>1. Unfix(state, register) = Release(unfixed, register, 1) /\ register \in UserRegisters
    BY <1>4, Registers DEF Unfix, After
  <2>2. unfixed = [uses |-> state.uses, fixes |-> fixed, mapping |-> mapped, failure |-> state.failure]
    <3> HIDE DEF fixed, mapped
    <3>1. PICK result : result = unfixed
      OBVIOUS
    <3>2. result = [uses |-> state.uses, fixes |-> fixed, mapping |-> mapped, failure |-> state.failure]
      BY <3>1 DEF Sound, IsState
    <3> QED BY <3>1, <3>2
  <2> HIDE DEF unfixed
  <2>3. Apart(mapped)
    BY <2>1, Registers DEF Sound, Apart, IsState
  <2>4. IsState(unfixed)
    BY <2>2 DEF Sound, IsState
  <2>5. NoneIdle(unfixed.uses, unfixed.fixes, unfixed.mapping)
    <3>1. NoneIdle(state.uses, state.fixes, state.mapping)
      BY <1>4 DEF Sound
    <3> QED BY <3>1, <2>1, <2>2 DEF Sound, IsState, NoneIdle
  <2>6. NoneMissing(state.uses, state.fixes, state.mapping) =>
            NoneMissing(unfixed.uses, unfixed.fixes, unfixed.mapping)
    BY <1>4, <2>1, <2>2 DEF Sound, IsState, NoneMissing
  <2>7. Sound(unfixed)
    BY <1>4, <2>2, <2>3, <2>4, <2>5, <2>6 DEF Sound
  <2> QED BY <2>1, <2>7, ReleaseSound
<1> QED BY <1>0, <1>1, <1>2, <1>3, <1>4

-----------------------------------------------------------------------------
(* The result register is mapped while a function of the runtime library   *)
(* is called, and returned to the mapping it had.                          *)

LEMMA ReturnedSound ==
    ASSUME NEW state, Sound(state)
    PROVE  /\ IsState(Returned(state))
           /\ Apart(Returned(state).mapping)
           /\ Returned(state).failure # "none" => Sound(Returned(state))
           /\ Sound(After(Returned(state), [Returned(state) EXCEPT !.mapping[RRes] = Unmapped]))
<1> DEFINE freed == Release(state, RRes, state.uses[RRes])
           returned == Map(freed, RRes)
           unmapped == [returned EXCEPT !.mapping[RRes] = Unmapped]
<1>1. Sound(freed)
  BY ReleaseSound
<1> HIDE DEF freed
<1>2. /\ IsState(returned)
      /\ Apart(returned.mapping)
      /\ returned.uses = freed.uses
      /\ returned.fixes = freed.fixes
      /\ freed.failure # "none" => returned = freed
      /\ freed.failure = "none" =>
           \/ returned.failure = "assertion"
           \/ /\ returned.failure = "none"
              /\ freed.mapping[RRes] = Unmapped
              /\ \A other \in UserRegisters \ {RRes} : returned.mapping[other] = freed.mapping[other]
  BY <1>1, MapState, Registers DEF Sound
<1> HIDE DEF returned
<1>3. returned.failure # "none" => Sound(returned)
  BY <1>1, <1>2 DEF Sound
<1>4. ASSUME returned.failure = "none" PROVE Sound(unmapped)
  <2>1. /\ unmapped = [uses |-> returned.uses, fixes |-> returned.fixes,
                       mapping |-> [returned.mapping EXCEPT ![RRes] = Unmapped], failure |-> returned.failure]
        /\ IsState(unmapped)
        /\ unmapped.mapping[RRes] = Unmapped
        /\ \A other \in UserRegisters \ {RRes} : unmapped.mapping[other] = returned.mapping[other]
    BY <1>2, Registers DEF IsState
  <2> HIDE DEF unmapped
  <2>2. Apart(unmapped.mapping)
    BY <1>2, <2>1, Registers DEF Apart
  <2>3. /\ freed.failure = "none"
        /\ freed.mapping[RRes] = Unmapped
        /\ \A other \in UserRegisters : unmapped.mapping[other] = freed.mapping[other]
    BY <1>2, <1>4, <2>1
  <2>4. NoneIdle(unmapped.uses, unmapped.fixes, unmapped.mapping)
    BY <1>1, <1>2, <2>1, <2>3 DEF Sound, NoneIdle
  <2>5. ~Short => NoneMissing(unmapped.uses, unmapped.fixes, unmapped.mapping)
    BY <1>1, <1>2, <2>1, <2>3 DEF Sound, NoneMissing
  <2> QED BY <2>1, <2>2, <2>4, <2>5 DEF Sound
<1>5. Returned(state) = returned
  BY DEF Returned, returned, freed
<1>6. Sound(After(returned, unmapped))
  <2> HIDE DEF unmapped
  <2> QED BY <1>3, <1>4 DEF After
<1> QED BY <1>2, <1>3, <1>5, <1>6

-----------------------------------------------------------------------------
(* The steps.                                                              *)

Inv ==
    /\ DOMAIN uses = UserRegisters
    /\ DOMAIN fixes = UserRegisters
    /\ DOMAIN mapping = UserRegisters
    /\ Apart(mapping)
    /\ phase # "assertion" => NoneIdle(uses, fixes, mapping)
    /\ phase # "assertion" /\ ~Short => NoneMissing(uses, fixes, mapping)
    /\ phase \in {"idle", "done"} =>
        \A register \in UserRegisters : uses[register] = 0 /\ fixes[register] = 0

LEMMA CurrentSound ==
    ASSUME Inv, phase = "generating"
    PROVE  Sound(Current)
BY DEF Inv, Current, Sound, IsState, Failures

\* What an error leaves behind is what the next instruction begins with.
LEMMA ProceedSound ==
    ASSUME NEW state, Sound(state), Proceed(state), phase = "generating"
    PROVE  Inv'
<1>1. /\ uses' = state.uses /\ fixes' = state.fixes /\ mapping' = state.mapping
      /\ leaked' = leaked
      /\ phase' \in {"generating", "assertion"}
      /\ phase' # "assertion" =>
            /\ state.failure # "assertion"
            /\ Short' <=> Short \/ state.failure = "register shortage"
  BY DEF Proceed, Short
<1>2. /\ DOMAIN uses' = UserRegisters /\ DOMAIN fixes' = UserRegisters /\ DOMAIN mapping' = UserRegisters
      /\ Apart(mapping)'
  BY <1>1 DEF Sound, IsState, Apart
<1>3. phase' # "assertion" => NoneIdle(uses, fixes, mapping)'
  BY <1>1 DEF Sound, NoneIdle
<1>4. phase' # "assertion" /\ ~Short' => NoneMissing(uses, fixes, mapping)'
  BY <1>1 DEF Sound, NoneMissing
<1> QED BY <1>1, <1>2, <1>3, <1>4 DEF Inv

LEMMA CalledSound ==
    ASSUME NEW state, NEW instruction, Sound(state)
    PROVE  Sound(Called(state, instruction))
<1> DEFINE checked == Check(state, Arguments(instruction))
           released == Release(Release(checked, instruction.operand2.register, 1),
                               instruction.operand3.register, 1)
<1>1. Sound(checked)
  BY CheckSound
<1>2. Sound(released)
  <2> HIDE DEF checked
  <2> QED BY <1>1, ReleaseSound
<1>3. Called(state, instruction) =
        IF ModifiedRegister(instruction) = RVoid THEN released
        ELSE Acquire(released, ModifiedRegister(instruction), position)
  BY DEF Called
<1> HIDE DEF released
<1> QED BY <1>2, <1>3, AcquireSound

LEMMA FinishedSound ==
    ASSUME NEW state, NEW instruction, Sound(state)
    PROVE  Sound(Tested(Resumed(state, instruction), instruction))
<1> DEFINE used == state.uses[RRes]
           returned == Returned(state)
           unmapped == After(returned, [returned EXCEPT !.mapping[RRes] = Unmapped])
           failed == Fail(returned, "assertion")
           again == AcquireFor(failed, RRes, used)
<1>1. /\ IsState(returned) /\ Apart(returned.mapping)
      /\ returned.failure # "none" => Sound(returned)
      /\ Sound(unmapped)
  <2> HIDE DEF used
  <2> QED BY ReturnedSound
<1>2. Resumed(state, instruction) =
        IF IsBranch(instruction) THEN IF used = 0 THEN returned ELSE again
        ELSE IF used = 0 THEN unmapped ELSE AcquireFor(unmapped, RRes, used)
  <2> HIDE DEF used, returned
  <2> QED BY DEF Resumed, used, returned
<1> HIDE DEF used, returned
<1>3. CASE IsBranch(instruction) /\ used = 0
  BY <1>1, <1>2, <1>3 DEF Tested
<1>4. CASE IsBranch(instruction) /\ used # 0
  <2>1. Sound(failed) /\ failed.failure # "none"
    <3>1. CASE returned.failure = "none"
      BY <1>1, <3>1, AssertionSound
    <3>2. CASE returned.failure # "none"
      <4>1. failed = returned
        BY <3>2 DEF Fail, After
      <4> QED BY <1>1, <3>2, <4>1
    <3> QED BY <3>1, <3>2
  <2> HIDE DEF failed
  <2>2. again = failed
    BY <2>1, AcquireForSound, Registers
  <2>3. Tested(Resumed(state, instruction), instruction) = failed
    BY <1>2, <1>4, <2>1, <2>2 DEF Tested, After
  <2> QED BY <2>1, <2>3
<1>5. CASE ~IsBranch(instruction)
  <2> HIDE DEF unmapped
  <2> QED BY <1>1, <1>2, <1>5, AcquireForSound, Registers DEF Tested
<1> QED BY <1>3, <1>4, <1>5

LEMMA CallRuntimeSound ==
    ASSUME Inv, CallRuntime
    PROVE  Inv'
<1> DEFINE instruction == instructions[position]
           acquired == Called(Current, instruction)
           tested == Tested(Resumed(acquired, instruction), instruction)
           finished == Release(tested, instruction.operand1.register, 1)
<1>1. phase = "generating" /\ Proceed(finished)
  BY DEF CallRuntime, IsNext
<1>2. Sound(tested)
  <2>1. Sound(acquired)
    BY <1>1, CurrentSound, CalledSound
  <2> HIDE DEF acquired
  <2> QED BY <2>1, FinishedSound
<1>3. Sound(finished)
  <2> HIDE DEF tested
  <2> QED BY <1>2, ReleaseSound
<1> HIDE DEF finished
<1> QED BY <1>1, <1>3, ProceedSound

LEMMA GenerateSound ==
    ASSUME Inv, Generate
    PROVE  Inv'
<1> DEFINE instruction == instructions[position]
           acquired == Acquire(Current, ModifiedRegister(instruction), position)
           checked == Check(acquired, {instruction.operand1, instruction.operand2, instruction.operand3})
<1>1. phase = "generating" /\ Proceed(ReleaseAll(checked, instruction))
  BY DEF Generate, IsNext
<1>2. Sound(acquired)
  BY <1>1, CurrentSound, AcquireSound
<1>3. Sound(checked)
  <2> HIDE DEF acquired
  <2> QED BY <1>2, CheckSound
<1>4. Sound(ReleaseAll(checked, instruction))
  <2> HIDE DEF checked
  <2> QED BY <1>3, ReleaseAllSound
<1> HIDE DEF checked
<1> QED BY <1>1, <1>4, ProceedSound

\* A section that is given up leaves nothing in use, and what it leaves mapped
\* is known from then on.
LEMMA GiveUpSound ==
    ASSUME Inv, phase = "generating", GiveUp
    PROVE  Inv'
<1>1. CASE \E register \in UserRegisters : uses[register] # 0 /\ mapping[register] = Unmapped
  <2>1. /\ phase' = "assertion" /\ uses' = uses /\ mapping' = mapping
        /\ fixes' = [register \in UserRegisters |-> 0]
    BY <1>1 DEF GiveUp
  <2> QED BY <2>1 DEF Inv, Apart
<1>2. CASE ~ \E register \in UserRegisters : uses[register] # 0 /\ mapping[register] = Unmapped
  <2>1. /\ phase' = "done"
        /\ uses' = [register \in UserRegisters |-> 0]
        /\ fixes' = [register \in UserRegisters |-> 0]
        /\ mapping' = [register \in UserRegisters |->
                            IF uses[register] # 0 THEN Unmapped ELSE mapping[register]]
        /\ leaked' = leaked \cup {register \in UserRegisters :
                            fixes[register] # 0 /\ uses[register] = 0 /\ mapping[register] # Unmapped}
    BY <1>2 DEF GiveUp
  <2>2. Apart(mapping)'
    BY <2>1, Registers DEF Inv, Apart
  <2>3. NoneIdle(uses, fixes, mapping)'
    BY <2>1 DEF Inv, NoneIdle
  <2>4. NoneMissing(uses, fixes, mapping)'
    BY <2>1 DEF NoneMissing
  <2> QED BY <2>1, <2>2, <2>3, <2>4 DEF Inv
<1> QED BY <1>1, <1>2

LEMMA EndSectionSound ==
    ASSUME Inv, EndSection
    PROVE  Inv'
<1>1. CASE errors # {} \/ \E register \in UserRegisters : fixes[register] # 0
  BY <1>1, GiveUpSound DEF EndSection
<1>2. CASE ~(errors # {} \/ \E register \in UserRegisters : fixes[register] # 0)
  BY <1>2 DEF EndSection, Inv, Apart, NoneIdle, NoneMissing, Short, allocation
<1> QED BY <1>1, <1>2

-----------------------------------------------------------------------------
(* The results.                                                            *)

LEMMA InitInv ==
    ASSUME Init
    PROVE  Inv
BY Registers DEF Init, Inv, Apart, NoneIdle, NoneMissing

LEMMA NextInv ==
    ASSUME Inv, [Next]_vars
    PROVE  Inv'
<1>1. CASE UNCHANGED vars
  BY <1>1 DEF vars, allocation, Inv, Apart, NoneIdle, NoneMissing, Short
<1>2. ASSUME NEW given \in Sections, Process(given)
      PROVE  Inv'
  BY <1>2 DEF Process, allocation, Inv, Apart, NoneIdle, NoneMissing
<1>3. CASE FixRegister
  <2>1. /\ phase = "generating"
        /\ Proceed(Fix(Current, instructions[position].operand1.register, position))
    BY <1>3 DEF FixRegister, IsNext
  <2> QED BY <2>1, CurrentSound, FixSound, ProceedSound
<1>4. CASE UnfixRegister
  <2>1. /\ phase = "generating"
        /\ Proceed(Unfix(Current, instructions[position].operand1.register))
    BY <1>4 DEF UnfixRegister, IsNext
  <2> QED BY <2>1, CurrentSound, UnfixSound, ProceedSound
<1> QED
  BY <1>1, <1>2, <1>3, <1>4, GenerateSound, CallRuntimeSound, EndSectionSound DEF Next, Step

\* Whatever sections are processed one after another, on any target, a register
\* is mapped exactly as long as it is in use or fixed, so that acquiring and
\* releasing physical registers alternate, and errors in their instructions
\* interrupt this anywhere.  Only a shortage of registers leaves one in use that
\* has none, and only sections that were given up leave others mapped.
THEOREM RegistersMappedWhileNeeded == Spec => []MappedWhileNeeded
<1>1. Inv => MappedWhileNeeded
  BY DEF Inv, NoneIdle, NoneMissing, Short, MappedWhileNeeded
<1> QED BY <1>1, InitInv, NextInv, PTL DEF Spec

\* No two registers ever share a physical register, whatever an error has left
\* behind for the instructions and the sections that follow.
THEOREM RegistersMappedApart == Spec => []MappedApart
<1>1. Inv => MappedApart
  BY DEF Inv, Apart, MappedApart
<1> QED BY <1>1, InitInv, NextInv, PTL DEF Spec

-----------------------------------------------------------------------------
(* The types of the allocation.                                            *)

\* The states of the allocation.
States == [uses : [UserRegisters -> Nat], fixes : [UserRegisters -> {0, 1}],
           mapping : [UserRegisters -> Physical \cup {Unmapped}], failure : Failures]

\* A state follows, or nothing does,
LEMMA AfterTyped ==
    ASSUME NEW state \in States, NEW next \in States
    PROVE  After(state, next) \in States
BY DEF After

\* as after a failure, which is one of those above.
LEMMA FailTyped ==
    ASSUME NEW state \in States, NEW failure \in Failures
    PROVE  Fail(state, failure) \in States
<1>1. [state EXCEPT !.failure = failure] \in States
  BY DEF States
<1> QED BY <1>1, AfterTyped DEF Fail

\* What is free is a physical register or none.
LEMMA FreeTyped ==
    ASSUME NEW mapped, NEW register
    PROVE  Free(mapped, register) \in Physical \cup {Unmapped}
<1> DEFINE free == {some \in 1 .. PMax : \A other \in UserRegisters : mapped[other] # some}
           least == CHOOSE some \in free : \A other \in free : some <= other
<1>1. PMax \in Nat /\ 0 \in Physical /\ 1 .. PMax \subseteq Physical
  BY GeneratorAssumption DEF Physical
<1>2. ASSUME free # {} PROVE least \in Physical
  <2>1. \E some \in free : \A other \in free : some <= other
    <3>1. free \in SUBSET Nat
      OBVIOUS
    <3> QED BY <1>2, <3>1, FirstRegister
  <2>2. least \in free
    BY <2>1
  <2> QED BY <1>1, <2>2
<1>3. Free(mapped, register) =
        IF register = RRes THEN 0 ELSE IF free = {} THEN Unmapped ELSE least
  BY DEF Free
<1> HIDE DEF free, least
<1> QED BY <1>1, <1>2, <1>3

\* Mapping yields a state again, as does each operation that follows.
LEMMA MapTyped ==
    ASSUME NEW state \in States, NEW register
    PROVE  Map(state, register) \in States
<1> DEFINE free == Free(state.mapping, register)
<1>1. free \in Physical \cup {Unmapped}
  BY FreeTyped
<1>2. [state EXCEPT !.mapping[register] = free] \in States
  BY <1>1 DEF States
<1>3. Fail(state, "assertion") \in States /\ Fail(state, "register shortage") \in States
  BY FailTyped DEF Failures
<1>4. After(state, [state EXCEPT !.mapping[register] = free]) \in States
  <2> HIDE DEF free
  <2> QED BY <1>2, AfterTyped
<1> QED BY <1>3, <1>4 DEF Map

\* A register is acquired for a natural number of uses.
LEMMA AcquireForTyped ==
    ASSUME NEW state \in States, NEW register, NEW count \in Nat
    PROVE  AcquireFor(state, register, count) \in States
<1> DEFINE next == [state EXCEPT !.uses[register] = count]
           used == After(state, next)
<1>1. used \in States
  <2>1. next \in States
    BY DEF States
  <2> HIDE DEF next
  <2> QED BY <2>1, AfterTyped
<1>2. Fail(state, "assertion") \in States
  BY FailTyped DEF Failures
<1>3. AcquireFor(state, register, count) \in {Fail(state, "assertion"), state, used, Map(used, register)}
  BY DEF AcquireFor
<1> HIDE DEF used
<1> QED BY <1>1, <1>2, <1>3, MapTyped

\* Checking operands changes at most the failure.
LEMMA CheckTyped ==
    ASSUME NEW state \in States, NEW checkable
    PROVE  Check(state, checkable) \in States
BY FailTyped DEF Check, Failures

\* What is counted down is never more than there is.
LEMMA CountedDownTyped ==
    ASSUME NEW state \in States, NEW counts, \A register \in UserRegisters : counts[register] \in Nat
    PROVE  CountedDown(state, counts) \in States
<1> DEFINE released == {register \in UserRegisters : state.uses[register] # 0 /\ counts[register] # 0}
           left == [register \in released |-> state.uses[register] - counts[register]]
           unneeded == {register \in released : left[register] = 0 /\ state.fixes[register] = 0}
           used == [register \in UserRegisters |->
                        IF register \in released THEN left[register] ELSE state.uses[register]]
           mapped == [register \in UserRegisters |->
                        IF register \in unneeded THEN Unmapped ELSE state.mapping[register]]
           next == [state EXCEPT !.uses = used, !.mapping = mapped]
           failing == \/ \E register \in released : left[register] < 0
                      \/ \E register \in unneeded : state.mapping[register] = Unmapped
<1>1. CASE failing
  BY <1>1, FailTyped DEF CountedDown, Failures
<1>2. CASE ~failing
  <2>1. CountedDown(state, counts) = After(state, next)
    BY <1>2 DEF CountedDown
  <2>2. \A register \in released : left[register] \in Nat
    <3>1. \A register \in released : state.uses[register] \in Nat /\ counts[register] \in Nat
      BY DEF States
    <3> QED BY <1>2, <3>1
  <2>3. used \in [UserRegisters -> Nat]
    BY <2>2 DEF States
  <2>4. mapped \in [UserRegisters -> Physical \cup {Unmapped}]
    BY DEF States
  <2>5. next \in States
    <3> HIDE DEF used, mapped
    <3> QED BY <2>3, <2>4 DEF States
  <2> HIDE DEF next
  <2> QED BY <2>1, <2>5, AfterTyped
<1> QED BY <1>1, <1>2

\* Instructions use registers a natural number of times.
LEMMA UsesOfTyped ==
    ASSUME NEW instruction, NEW register
    PROVE  UsesOf(instruction, register) \in Nat
BY DEF UsesOf

\* Releasing counts down one register,
LEMMA ReleaseTyped ==
    ASSUME NEW state \in States, NEW register, NEW count \in Nat
    PROVE  Release(state, register, count) \in States
BY CountedDownTyped DEF Release

\* or all that an instruction uses.
LEMMA ReleaseAllTyped ==
    ASSUME NEW state \in States, NEW instruction
    PROVE  ReleaseAll(state, instruction) \in States
BY CountedDownTyped, UsesOfTyped DEF ReleaseAll

\* Unfixing sets the fix to zero.
LEMMA UnfixTyped ==
    ASSUME NEW state \in States, NEW register
    PROVE  Unfix(state, register) \in States
<1> DEFINE left == IF state.uses[register] = 0 THEN Unmapped ELSE state.mapping[register]
           unfixed == [state EXCEPT !.fixes = [@ EXCEPT ![register] = 0],
                                    !.mapping = [@ EXCEPT ![register] = left]]
<1>1. CASE register \in UserRegisters
  <2>1. left \in Physical \cup {Unmapped}
    BY <1>1 DEF States
  <2> HIDE DEF left
  <2>2. unfixed \in States
    BY <2>1 DEF States
  <2>3. Fail(state, "unfixed register") \in States /\ Fail(state, "assertion") \in States
    BY FailTyped DEF Failures
  <2>4. Unfix(state, register) \in {state, Fail(state, "unfixed register"), Fail(state, "assertion"),
                                   Release(After(state, unfixed), register, 1)}
    BY DEF Unfix, left
  <2> HIDE DEF unfixed
  <2>5. After(state, unfixed) \in States
    BY <2>2, AfterTyped
  <2> QED BY <2>3, <2>4, <2>5, ReleaseTyped
<1>2. CASE register \notin UserRegisters
  BY <1>2, Registers DEF Unfix
<1> QED BY <1>1, <1>2

-----------------------------------------------------------------------------
(* The number of uses ahead.                                               *)

\* The fixes of a register behind an instruction, given those before it.
Still(instruction, register, fixed) ==
    fixed + (IF instruction.mnemonic = "FIX" /\ UsesOf(instruction, register) > 0 THEN 1
             ELSE IF instruction.mnemonic = "UNFIX" /\ UsesOf(instruction, register) > 0 THEN -1 ELSE 0)

\* Whether the uses are counted up to an instruction.
Stops(instruction, register, fixed) ==
    /\ ModifiedRegister(instruction) = register
    /\ instruction.operand2.register # register
    /\ instruction.operand3.register # register
    /\ Still(instruction, register, fixed) = 0

\* The uses from an instruction on, given those behind it.
Ahead(given, ahead, next, fixed, register) ==
    IF next > Len(given) THEN 0
    ELSE IF Stops(given[next], register, fixed) THEN 0
    ELSE UsesOf(given[next], register) + ahead[next + 1][Still(given[next], register, fixed)]

\* The uses counted from each instruction on, down to some instruction.
IsAhead(given, ahead, from, register) ==
    ahead = [next \in from .. Len(given) + 1 |->
                [fixed \in Int |-> Ahead(given, ahead, next, fixed, register)]]

\* They are natural numbers.
IsCount(given, ahead, from) ==
    \A next \in from .. Len(given) + 1 : \A fixed \in Int : ahead[next][fixed] \in Nat

\* Fixes are counted up and down, maybe below zero.
LEMMA StillTyped ==
    ASSUME NEW instruction, NEW register, NEW fixed \in Int
    PROVE  Still(instruction, register, fixed) \in Int
BY DEF Still

\* Counting from an instruction on takes the counts behind it only.
LEMMA AheadTyped ==
    ASSUME NEW given, Len(given) \in Nat, NEW register, NEW ahead, NEW from \in Nat, IsCount(given, ahead, from + 1),
           NEW next \in from .. Len(given) + 1, NEW fixed \in Int
    PROVE  /\ Ahead(given, ahead, next, fixed, register) \in Nat
           /\ \A other : (\A index \in from + 1 .. Len(given) + 1 : other[index] = ahead[index]) =>
                Ahead(given, other, next, fixed, register) = Ahead(given, ahead, next, fixed, register)
<1> DEFINE own == UsesOf(given[next], register)
           still == Still(given[next], register, fixed)
<1>1. own \in Nat /\ still \in Int
  BY UsesOfTyped, StillTyped
<1> HIDE DEF own, still
<1>2. CASE next > Len(given)
  BY <1>2 DEF Ahead
<1>3. CASE ~(next > Len(given))
  <2>1. next + 1 \in from + 1 .. Len(given) + 1
    BY <1>3
  <2>2. ahead[next + 1][still] \in Nat
    BY <1>1, <2>1 DEF IsCount
  <2>3. \A other : Ahead(given, other, next, fixed, register)
                     = IF Stops(given[next], register, fixed) THEN 0 ELSE own + other[next + 1][still]
    BY <1>3 DEF Ahead, own, still
  <2>4. Ahead(given, ahead, next, fixed, register) \in Nat
    BY <1>1, <2>2, <2>3, SMTT(20)
  <2>5. ASSUME NEW other, \A index \in from + 1 .. Len(given) + 1 : other[index] = ahead[index]
        PROVE  Ahead(given, other, next, fixed, register) = Ahead(given, ahead, next, fixed, register)
    <3>1. other[next + 1] = ahead[next + 1]
      BY <2>1, <2>5
    <3> QED BY <2>3, <3>1
  <2> QED BY <2>4, <2>5
<1> QED BY <1>2, <1>3

\* There are such counts.
LEMMA AheadExists ==
    ASSUME NEW given, Len(given) \in Nat, NEW start \in 1 .. Len(given) + 1, NEW register
    PROVE  \E ahead : IsAhead(given, ahead, start, register) /\ IsCount(given, ahead, start)
<1> DEFINE last == Len(given)
           U == {k \in 0 .. last : ~\E ahead : IsAhead(given, ahead, last + 1 - k, register)
                                               /\ IsCount(given, ahead, last + 1 - k)}
<1>1. U \in SUBSET Nat
  OBVIOUS
<1>2. ASSUME U # {} PROVE FALSE
  <2>1. PICK m \in U : \A k \in U : m <= k
    BY <1>1, <1>2, FirstRegister
  <2>2. m # 0
    <3> DEFINE f == [next \in last + 1 .. last + 1 |-> [fixed \in Int |-> 0]]
    <3>1. \A next \in last + 1 .. last + 1 : next > last
      OBVIOUS
    <3>2. f = [next \in last + 1 .. last + 1 |-> [fixed \in Int |-> Ahead(given, f, next, fixed, register)]]
      BY <3>1 DEF Ahead
    <3>3. IsCount(given, f, last + 1)
      BY DEF IsCount
    <3>4. last + 1 - 0 = last + 1
      OBVIOUS
    <3> HIDE DEF f
    <3>5. IsAhead(given, f, last + 1 - 0, register) /\ IsCount(given, f, last + 1 - 0)
      BY <3>2, <3>3, <3>4 DEF IsAhead
    <3>6. 0 \in 0 .. last /\ 0 \notin U
      BY <3>5
    <3> QED BY <3>6
  <2>3. PICK from \in 1 .. last : from = last + 1 - m
    <3>1. m \in 0 .. last
      OBVIOUS
    <3> HIDE DEF U
    <3>2. last + 1 - m \in 1 .. last
      BY <2>2, <3>1
    <3> QED BY <3>2
  <2>4. m - 1 \in 0 .. last /\ m - 1 \notin U /\ last + 1 - (m - 1) = from + 1
    BY <2>1, <2>2, <2>3
  <2>5. PICK g : IsAhead(given, g, from + 1, register) /\ IsCount(given, g, from + 1)
    BY <2>4
  <2> DEFINE f == [next \in from .. last + 1 |->
                     IF next = from THEN [fixed \in Int |-> Ahead(given, g, from, fixed, register)] ELSE g[next]]
  <2>6. \A next \in from + 1 .. last + 1 : f[next] = g[next]
    BY <2>3
  <2>7. f[from] = [fixed \in Int |-> Ahead(given, g, from, fixed, register)]
    BY <2>3
  <2>8. DOMAIN f = from .. last + 1 /\ f = [next \in from .. last + 1 |-> f[next]]
    OBVIOUS
  <2>9. \A next \in from + 1 .. last + 1 : g[next] = [fixed \in Int |-> Ahead(given, g, next, fixed, register)]
    BY <2>5 DEF IsAhead
  <2> HIDE DEF f
  <2>10. ASSUME NEW next \in from .. last + 1
         PROVE  /\ f[next] = [fixed \in Int |-> Ahead(given, f, next, fixed, register)]
                /\ \A fixed \in Int : f[next][fixed] \in Nat
    <3>1. f[next] = [fixed \in Int |-> Ahead(given, g, next, fixed, register)]
      <4>1. next = from \/ next \in from + 1 .. last + 1
        BY <2>3
      <4> QED BY <2>6, <2>7, <2>9, <4>1
    <3>2. \A fixed \in Int : /\ Ahead(given, g, next, fixed, register) \in Nat
                             /\ Ahead(given, f, next, fixed, register) = Ahead(given, g, next, fixed, register)
      <4> SUFFICES ASSUME NEW fixed \in Int
                   PROVE  /\ Ahead(given, g, next, fixed, register) \in Nat
                          /\ Ahead(given, f, next, fixed, register) = Ahead(given, g, next, fixed, register)
        OBVIOUS
      <4>1. from \in Nat /\ IsCount(given, g, from + 1)
        BY <2>3, <2>5
      <4>2. /\ Ahead(given, g, next, fixed, register) \in Nat
            /\ \A other : (\A index \in from + 1 .. Len(given) + 1 : other[index] = g[index]) =>
                 Ahead(given, other, next, fixed, register) = Ahead(given, g, next, fixed, register)
        BY <4>1, AheadTyped
      <4> QED BY <2>6, <4>2
    <3> QED BY <3>1, <3>2
  <2>11. IsAhead(given, f, from, register)
    <3> DEFINE h == [next \in from .. last + 1 |-> [fixed \in Int |-> Ahead(given, f, next, fixed, register)]]
    <3>1. \A next \in from .. last + 1 : f[next] = h[next]
      BY <2>10
    <3>2. f = h
      BY <2>8, <3>1
    <3> QED BY <3>2 DEF IsAhead
  <2>12. IsCount(given, f, from)
    BY <2>10 DEF IsCount
  <2> QED BY <2>1, <2>3, <2>11, <2>12
<1>3. PICK k \in 0 .. last : k = last + 1 - start /\ last + 1 - k = start
  OBVIOUS
<1> QED BY <1>2, <1>3

\* Such counts are natural numbers.
LEMMA AheadCounts ==
    ASSUME NEW given, Len(given) \in Nat, NEW from \in 1 .. Len(given) + 1, NEW register,
           NEW ahead, IsAhead(given, ahead, from, register)
    PROVE  IsCount(given, ahead, from)
<1> DEFINE last == Len(given)
           U == {k \in 0 .. last + 1 - from : \E fixed \in Int : ahead[last + 1 - k][fixed] \notin Nat}
<1>1. U \in SUBSET Nat
  OBVIOUS
<1>2. ASSUME U # {} PROVE FALSE
  <2>1. PICK m \in U : \A k \in U : m <= k
    BY <1>1, <1>2, FirstRegister
  <2>2. PICK next \in from .. last + 1 : next = last + 1 - m
    BY <2>1
  <2>3. PICK fixed \in Int : ahead[next][fixed] \notin Nat
    BY <2>1, <2>2
  <2>4. IsCount(given, ahead, next + 1)
    <3> SUFFICES ASSUME NEW index \in next + 1 .. last + 1, NEW other \in Int
                 PROVE  ahead[index][other] \in Nat
      BY DEF IsCount
    <3>1. PICK k \in 0 .. last + 1 - from : k < m /\ last + 1 - k = index
      <4>1. last + 1 - index \in 0 .. last + 1 - from /\ last + 1 - index < m
            /\ last + 1 - (last + 1 - index) = index
        BY <2>1, <2>2
      <4> QED BY <4>1
    <3>2. k \notin U
      <4>1. m \in Nat /\ ~(m <= k)
        BY <2>1, <3>1
      <4> HIDE DEF U
      <4> QED BY <2>1, <4>1
    <3> QED BY <3>1, <3>2
  <2>5. ahead[next][fixed] = Ahead(given, ahead, next, fixed, register)
    BY SMTT(20) DEF IsAhead
  <2>6. next \in Nat /\ next \in next .. Len(given) + 1
    BY <2>2
  <2>7. Ahead(given, ahead, next, fixed, register) \in Nat
    BY <2>4, <2>6, AheadTyped
  <2> QED BY <2>3, <2>5, <2>7
<1> SUFFICES ASSUME NEW next \in from .. last + 1, NEW fixed \in Int PROVE ahead[next][fixed] \in Nat
  BY DEF IsCount
<1>3. last + 1 - next \in 0 .. last + 1 - from /\ last + 1 - (last + 1 - next) = next
  OBVIOUS
<1> QED BY <1>2, <1>3

\* The uses that are counted when a register is acquired.
LEMMA UsesFromTyped ==
    ASSUME Len(instructions) \in Nat, NEW index \in 1 .. Len(instructions), NEW register
    PROVE  UsesFrom(index, register) \in Nat
<1> DEFINE counted == CHOOSE ahead : IsAhead(instructions, ahead, index + 1, register)
<1>1. index + 1 \in 1 .. Len(instructions) + 1
  OBVIOUS
<1>2. \E ahead : IsAhead(instructions, ahead, index + 1, register)
  BY <1>1, AheadExists
<1>3. IsAhead(instructions, counted, index + 1, register)
  BY <1>2, Zenon
<1>4. UsesFrom(index, register) = UsesOf(instructions[index], register) + counted[index + 1][0]
  BY DEF UsesFrom, IsAhead, Ahead, Stops, Still
<1> HIDE DEF counted
<1>5. IsCount(instructions, counted, index + 1)
  BY <1>1, <1>3, AheadCounts
<1>6. counted[index + 1][0] \in Nat
  BY <1>1, <1>5 DEF IsCount
<1> QED BY <1>4, <1>6, UsesOfTyped

-----------------------------------------------------------------------------
(* The operations that acquire registers.                                  *)

\* The uses of a register are counted ahead.
LEMMA AcquireTyped ==
    ASSUME Len(instructions) \in Nat, NEW index \in 1 .. Len(instructions),
           NEW state \in States, NEW register
    PROVE  Acquire(state, register, index) \in States
<1> DEFINE count == UsesFrom(index, register)
           checked == IF UsesOf(instructions[index], register) > 1
                      THEN Check(state, {instructions[index].operand2, instructions[index].operand3})
                      ELSE state
<1>1. count \in Nat
  BY UsesFromTyped
<1>2. checked \in States
  BY CheckTyped
<1>3. Acquire(state, register, index) \in {state, AcquireFor(checked, register, count)}
  BY DEF Acquire
<1> HIDE DEF count, checked
<1> QED BY <1>1, <1>2, <1>3, AcquireForTyped

\* Fixing sets the fix to one.
LEMMA FixTyped ==
    ASSUME Len(instructions) \in Nat, NEW index \in 1 .. Len(instructions),
           NEW state \in States, NEW register
    PROVE  Fix(state, register, index) \in States
<1> DEFINE acquired == Acquire(state, register, index)
           fixed == [acquired EXCEPT !.fixes[register] = 1]
<1>1. acquired \in States
  BY AcquireTyped
<1>2. Fail(state, "fixed register") \in States
  BY FailTyped DEF Failures
<1>3. Fix(state, register, index) \in {state, Fail(state, "fixed register"),
                                       Release(After(acquired, fixed), register, 1)}
  BY DEF Fix
<1> HIDE DEF acquired
<1>4. fixed \in States
  BY <1>1 DEF States
<1> HIDE DEF fixed
<1>5. After(acquired, fixed) \in States
  BY <1>1, <1>4, AfterTyped
<1> QED BY <1>2, <1>3, <1>5, ReleaseTyped

\* The arguments of a runtime function are released.
LEMMA CalledTyped ==
    ASSUME Len(instructions) \in Nat, position \in 1 .. Len(instructions),
           NEW state \in States, NEW instruction
    PROVE  Called(state, instruction) \in States
<1> DEFINE checked == Check(state, Arguments(instruction))
           first == Release(checked, instruction.operand2.register, 1)
           released == Release(first, instruction.operand3.register, 1)
           modified == ModifiedRegister(instruction)
<1>1. checked \in States
  BY CheckTyped
<1>2. Called(state, instruction) \in {released, Acquire(released, modified, position)}
  BY DEF Called
<1> HIDE DEF checked
<1>3. first \in States
  BY <1>1, ReleaseTyped
<1> HIDE DEF first
<1>4. released \in States
  BY <1>3, ReleaseTyped
<1> HIDE DEF released, modified
<1> QED BY <1>2, <1>4, AcquireTyped

\* Its result is mapped,
LEMMA ReturnedTyped ==
    ASSUME NEW state \in States
    PROVE  Returned(state) \in States
<1>1. state.uses[RRes] \in Nat
  BY Registers DEF States
<1>2. Release(state, RRes, state.uses[RRes]) \in States
  BY <1>1, ReleaseTyped
<1> QED BY <1>2, MapTyped DEF Returned

\* and stored,
LEMMA ResumedTyped ==
    ASSUME NEW state \in States, NEW instruction
    PROVE  Resumed(state, instruction) \in States
<1> DEFINE used == state.uses[RRes]
           returned == Returned(state)
           next == [returned EXCEPT !.mapping[RRes] = Unmapped]
           unmapped == After(returned, next)
           stored == IF IsBranch(instruction)
                     THEN IF used = 0 THEN returned ELSE Fail(returned, "assertion")
                     ELSE unmapped
<1>1. used \in Nat
  BY Registers DEF States
<1>2. returned \in States
  BY ReturnedTyped
<1>3. Resumed(state, instruction) = IF used = 0 THEN stored ELSE AcquireFor(stored, RRes, used)
  BY DEF Resumed
<1> HIDE DEF returned
<1>4. unmapped \in States
  <2>1. next \in States
    BY <1>2 DEF States
  <2> HIDE DEF next
  <2> QED BY <1>2, <2>1, AfterTyped
<1>5. Fail(returned, "assertion") \in States
  BY <1>2, FailTyped DEF Failures
<1> HIDE DEF unmapped
<1>6. stored \in States
  BY <1>2, <1>4, <1>5
<1> HIDE DEF stored, used
<1> QED BY <1>1, <1>3, <1>6, AcquireForTyped

\* or tested.
LEMMA TestedTyped ==
    ASSUME NEW state \in States, NEW instruction
    PROVE  Tested(state, instruction) \in States
<1> DEFINE next == [state EXCEPT !.mapping[RRes] = Unmapped]
<1>1. next \in States
  BY DEF States
<1> HIDE DEF next
<1>2. Tested(state, instruction) \in {state, After(state, next)}
  BY DEF Tested, next
<1> QED BY <1>1, <1>2, AfterTyped

-----------------------------------------------------------------------------
(* The steps.                                                              *)

\* The section that is processed is one of those given, or none yet.
IsSection(given) == Len(given) \in Nat /\ DOMAIN given = 1 .. Len(given)

\* The inductive invariant.
TypedSection == TypeOK /\ IsSection(instructions)

\* The current state is one of the types,
LEMMA CurrentTyped ==
    ASSUME TypeOK
    PROVE  Current \in States
BY DEF TypeOK, Current, States, Failures

\* and the next one again, whatever failed.
LEMMA ProceedTyped ==
    ASSUME NEW state \in States, TypedSection, Proceed(state)
    PROVE  TypedSection'
<1>1. IsSection(instructions)'
  BY DEF TypedSection, Proceed, IsSection
<1>2. TypeOK'
  BY DEF Proceed, TypeOK, States
<1> QED BY <1>1, <1>2 DEF TypedSection

\* The instruction that is next is one of the section.
LEMMA NextTyped ==
    ASSUME TypedSection, NEW mnemonics, IsNext(mnemonics)
    PROVE  Len(instructions) \in Nat /\ position \in 1 .. Len(instructions)
BY DEF TypedSection, IsSection, IsNext

\* Each step keeps the types.
LEMMA TypedStep ==
    ASSUME TypedSection, [Next]_vars
    PROVE  TypedSection'
<1>1. Current \in States
  BY CurrentTyped DEF TypedSection
<1>2. ASSUME NEW given \in Sections, Process(given) PROVE TypedSection'
  BY <1>2, GeneratorAssumption DEF Process, TypedSection, TypeOK, IsSection, allocation
<1>3. CASE FixRegister
  <2>1. Fix(Current, instructions[position].operand1.register, position) \in States
    BY <1>1, <1>3, NextTyped, FixTyped DEF FixRegister
  <2> QED BY <1>3, <2>1, ProceedTyped DEF FixRegister
<1>4. CASE UnfixRegister
  <2>1. Unfix(Current, instructions[position].operand1.register) \in States
    BY <1>1, UnfixTyped
  <2> QED BY <1>4, <2>1, ProceedTyped DEF UnfixRegister
<1>5. CASE Generate
  <2> DEFINE instruction == instructions[position]
             acquired == Acquire(Current, ModifiedRegister(instruction), position)
             checked == Check(acquired, {instruction.operand1, instruction.operand2, instruction.operand3})
             released == ReleaseAll(checked, instruction)
  <2>1. acquired \in States
    BY <1>1, <1>5, NextTyped, AcquireTyped DEF Generate
  <2>2. Proceed(released)
    BY <1>5 DEF Generate
  <2> HIDE DEF acquired
  <2>3. checked \in States
    BY <2>1, CheckTyped
  <2> HIDE DEF checked
  <2>4. released \in States
    BY <2>3, ReleaseAllTyped
  <2> HIDE DEF released
  <2> QED BY <2>2, <2>4, ProceedTyped
<1>6. CASE CallRuntime
  <2> DEFINE instruction == instructions[position]
             acquired == Called(Current, instruction)
             resumed == Resumed(acquired, instruction)
             tested == Tested(resumed, instruction)
             finished == Release(tested, instruction.operand1.register, 1)
  <2>1. acquired \in States
    BY <1>1, <1>6, NextTyped, CalledTyped DEF CallRuntime
  <2>2. Proceed(finished)
    BY <1>6 DEF CallRuntime
  <2> HIDE DEF acquired
  <2>3. resumed \in States
    BY <2>1, ResumedTyped
  <2> HIDE DEF resumed
  <2>4. tested \in States
    BY <2>3, TestedTyped
  <2> HIDE DEF tested
  <2>5. finished \in States
    BY <2>4, ReleaseTyped
  <2> HIDE DEF finished
  <2> QED BY <2>2, <2>5, ProceedTyped
<1>7. CASE EndSection
  <2>1. IsSection(instructions)'
    BY <1>7 DEF EndSection, TypedSection, IsSection
  <2>2. CASE errors # {} \/ \E register \in UserRegisters : fixes[register] # 0
    <3> DEFINE zero == [register \in UserRegisters |-> 0]
               mapped == [register \in UserRegisters |->
                              IF uses[register] # 0 THEN Unmapped ELSE mapping[register]]
    <3>1. GiveUp /\ TypeOK
      BY <1>7, <2>2 DEF EndSection, TypedSection
    <3>2. zero \in [UserRegisters -> {0, 1}] /\ zero \in [UserRegisters -> Nat]
      OBVIOUS
    <3>3. mapped \in [UserRegisters -> Physical \cup {Unmapped}]
      BY <3>1 DEF TypeOK
    <3>4. fixes' = zero /\ uses' \in {uses, zero} /\ mapping' \in {mapping, mapped}
      BY <3>1 DEF GiveUp
    <3> HIDE DEF zero, mapped
    <3> QED BY <2>1, <3>1, <3>2, <3>3, <3>4 DEF TypedSection, TypeOK
  <2>3. CASE ~(errors # {} \/ \E register \in UserRegisters : fixes[register] # 0)
    BY <1>7, <2>1, <2>3 DEF EndSection, TypedSection, TypeOK, allocation
  <2> QED BY <2>2, <2>3
<1>8. CASE UNCHANGED vars
  BY <1>8 DEF TypedSection, TypeOK, IsSection, vars, allocation
<1> QED BY <1>2, <1>3, <1>4, <1>5, <1>6, <1>7, <1>8 DEF Next, Step

\* The uses that are left are never negative, each fix is zero or one, and only
\* physical registers are mapped to: uses that are released have been counted.
THEOREM Typing == Spec => []TypeOK
<1>1. Init => TypedSection
  BY GeneratorAssumption DEF Init, TypedSection, TypeOK, IsSection
<1>2. TypedSection /\ [Next]_vars => TypedSection'
  BY TypedStep
<1>3. TypedSection => TypeOK
  BY DEF TypedSection
<1> QED BY <1>1, <1>2, <1>3, PTL DEF Spec
-----------------------------------------------------------------------------
(* The operands that the emitter counts.                                   *)

\* An operand has a register, which may be none.
IsOperand(operand) ==
    /\ operand = [model |-> operand.model, type |-> operand.type, register |-> operand.register,
                  displacement |-> operand.displacement, value |-> operand.value]
    /\ operand.register \in 0 .. RVoid

\* The register an operand gets is one of those in use or free, if there is any.
IsRegisterOrNothing(register) == register \in (0 .. RVoid) \cup {Nothing}

LEMMA EmitterRegisters ==
    /\ RVoid \in Nat /\ RMax \in Nat /\ 0 .. RMax \subseteq UserRegisters /\ 0 .. RMax \subseteq 0 .. RVoid
    /\ RVoid \in 0 .. RVoid /\ RVoid \notin UserRegisters /\ Nothing \notin 0 .. RVoid
    /\ UserRegisters \subseteq 0 .. RVoid
    /\ Emitter!UserRegisters = UserRegisters
    /\ Emitter!RVoid = RVoid /\ Emitter!RFP \in 0 .. RVoid /\ Emitter!RRes \in UserRegisters
BY OperandsAssumption, CompilationAssumption
DEF UserRegisters, IsUser, RRes, RVoid, Emitter!UserRegisters, Emitter!IsUser, Emitter!RRes, Emitter!RVoid, Emitter!RFP

\* Only registers of the user are counted.
LEMMA UserOperand ==
    ASSUME NEW operand, IsOperand(operand)
    PROVE  Emitter!HasUserRegister(operand) <=> operand.register \in UserRegisters
BY EmitterRegisters
DEF Emitter!HasUserRegister, Emitter!HasRegister, Emitter!IsUser, Emitter!RRes, Emitter!RVoid, IsOperand,
    UserRegisters, IsUser, RRes, RVoid

LEMMA LeastMember ==
    ASSUME NEW T \in SUBSET Nat, T # {}
    PROVE  Emitter!Min(T) \in T
<1>1. \E first \in T : \A other \in T : first =< other
  BY FirstRegister
<1> QED BY <1>1 DEF Emitter!Min

LEMMA NoOperandTyped == IsOperand(Emitter!NoOperand) /\ Emitter!NoOperand.register = RVoid
BY EmitterRegisters DEF IsOperand, Emitter!NoOperand, Emitter!Operand

LEMMA ImmTyped == \A type, value : IsOperand(Emitter!Imm(type, value))
BY EmitterRegisters DEF IsOperand, Emitter!Imm, Emitter!Operand

LEMMA RegTyped ==
    ASSUME NEW type, NEW register
    PROVE  /\ Emitter!Reg(type, register).register = register
           /\ register \in 0 .. RVoid => IsOperand(Emitter!Reg(type, register))
BY DEF IsOperand, Emitter!Reg, Emitter!Operand

\* Registers that are acquired.
LEMMA AcquireRegisterTyped == Emitter!AcquireRegister \in (0 .. RMax) \cup {Nothing}
<1> DEFINE free == {register \in 0 .. RMax : registerUses[register] = 0 /\ protections[register] = 0}
<1>1. Emitter!AcquireRegister = IF free = {} THEN Nothing ELSE Emitter!Min(free)
  BY DEF Emitter!AcquireRegister
<1>2. free \in SUBSET Nat /\ free \subseteq 0 .. RMax
  BY EmitterRegisters
<1> HIDE DEF free
<1> QED BY <1>1, <1>2, LeastMember

LEMMA ReuseRegisterTyped ==
    ASSUME NEW sources, DOMAIN sources \subseteq Nat,
           \A index \in DOMAIN sources : sources[index].register \in 0 .. RVoid
    PROVE  IsRegisterOrNothing(Emitter!ReuseRegister(sources))
<1> DEFINE reusable == {index \in DOMAIN sources :
                            /\ Emitter!HasUserRegister(sources[index])
                            /\ protections[sources[index].register] = 0}
<1>1. Emitter!ReuseRegister(sources) =
        IF reusable = {} THEN Emitter!AcquireRegister ELSE sources[Emitter!Min(reusable)].register
  BY DEF Emitter!ReuseRegister
<1>2. reusable \in SUBSET Nat /\ reusable \subseteq DOMAIN sources
  OBVIOUS
<1> HIDE DEF reusable
<1>3. reusable # {} => sources[Emitter!Min(reusable)].register \in 0 .. RVoid
  BY <1>2, LeastMember
<1> QED BY <1>1, <1>3, AcquireRegisterTyped, EmitterRegisters DEF IsRegisterOrNothing

\* What operations yield.
LEMMA YieldsTyped ==
    ASSUME NEW operand, NEW instrs,
           operand = [model |-> operand.model, type |-> operand.type, register |-> operand.register,
                      displacement |-> operand.displacement, value |-> operand.value],
           IsRegisterOrNothing(operand.register)
    PROVE  IsOperand(Emitter!Yields(operand, instrs).operand)
BY NoOperandTyped, EmitterRegisters DEF Emitter!Yields, IsRegisterOrNothing, IsOperand

\* Giving an operand back, if it is one.
LEMMA GivenTyped ==
    ASSUME NEW operand, IsOperand(operand)
    PROVE  IsOperand(Emitter!Given(operand).operand)
BY YieldsTyped DEF IsOperand, Emitter!Given, IsRegisterOrNothing

\* The results of the operations are operands, or there is a shortage.
IsResult(result) == IsOperand(result.operand)

LEMMA InRegisterTyped ==
    ASSUME NEW type, NEW sources, NEW instrs, DOMAIN sources \subseteq Nat,
           \A index \in DOMAIN sources : sources[index].register \in 0 .. RVoid
    PROVE  IsResult(Emitter!Yields(Emitter!Reg(type, Emitter!ReuseRegister(sources)), instrs))
<1> DEFINE reused == Emitter!Reg(type, Emitter!ReuseRegister(sources))
<1>1. IsRegisterOrNothing(reused.register)
  BY ReuseRegisterTyped, RegTyped
<1>2. reused = [model |-> reused.model, type |-> reused.type, register |-> reused.register,
                displacement |-> reused.displacement, value |-> reused.value]
  BY DEF Emitter!Reg, Emitter!Operand
<1> HIDE DEF reused
<1>3. IsOperand(Emitter!Yields(reused, instrs).operand)
  BY <1>1, <1>2, YieldsTyped
<1> QED BY <1>3 DEF IsResult, reused

LEMMA MakeRegisterTyped ==
    ASSUME NEW operand, IsOperand(operand)
    PROVE  IsResult(Emitter!MakeRegister(operand))
<1>1. DOMAIN <<operand>> \subseteq Nat /\ \A index \in DOMAIN <<operand>> : <<operand>>[index].register \in 0 .. RVoid
  BY DEF IsOperand
<1>2. \A type, instrs :
        IsResult(Emitter!Yields(Emitter!Reg(type, Emitter!ReuseRegister(<<operand>>)), instrs))
  BY <1>1, InRegisterTyped
<1> QED BY <1>2, GivenTyped DEF Emitter!MakeRegister, IsResult

LEMMA DisplaceTyped ==
    ASSUME NEW operand, IsOperand(operand), NEW displacement
    PROVE  IsResult(Emitter!Displace(operand, displacement))
<1> DEFINE base == IF Emitter!IsMemory(operand) /\ displacement # 0
                   THEN Emitter!MakeRegister(operand) ELSE Emitter!Given(operand)
<1>1. IsOperand(base.operand)
  BY MakeRegisterTyped, GivenTyped DEF IsResult
<1>2. base = [operand |-> base.operand, instructions |-> base.instructions, shortage |-> base.shortage]
  BY DEF Emitter!MakeRegister, Emitter!Given, Emitter!Yields
<1>3. Emitter!Displace(operand, displacement) =
        [base EXCEPT !.operand = IF Emitter!IsImmediate(@)
            THEN [@ EXCEPT !.value = Emitter!Truncate(Emitter!Pointer, @ + displacement)]
            ELSE [@ EXCEPT !.displacement = Emitter!TruncateDisplacement(@ + displacement)]]
  BY DEF Emitter!Displace
<1> HIDE DEF base
<1> QED BY <1>1, <1>2, <1>3 DEF IsResult, IsOperand

LEMMA MakeMemoryTyped ==
    ASSUME NEW type, NEW operand, IsOperand(operand), NEW displacement
    PROVE  IsResult(Emitter!MakeMemory(type, operand, displacement))
<1> DEFINE base == IF Emitter!IsMemory(operand) THEN Emitter!MakeRegister(operand) ELSE Emitter!Given(operand)
<1>1. IsOperand(base.operand)
  BY MakeRegisterTyped, GivenTyped DEF IsResult
<1>2. base = [operand |-> base.operand, instructions |-> base.instructions, shortage |-> base.shortage]
  BY DEF Emitter!MakeRegister, Emitter!Given, Emitter!Yields
<1>3. Emitter!MakeMemory(type, operand, displacement) =
        [base EXCEPT !.operand = IF base.shortage THEN @ ELSE Emitter!Mem(type, @, displacement)]
  BY DEF Emitter!MakeMemory
<1> HIDE DEF base
<1>4. IsOperand(Emitter!Mem(type, base.operand, displacement))
  BY <1>1, EmitterRegisters DEF IsOperand, Emitter!Mem, Emitter!Operand
<1> QED BY <1>1, <1>2, <1>3, <1>4 DEF IsResult

LEMMA ApplyTyped ==
    ASSUME NEW mnemonic, NEW value1, NEW value2, IsOperand(value1), IsOperand(value2)
    PROVE  IsResult(Emitter!Apply(mnemonic, value1, value2))
<1> DEFINE sources == <<value1, value2>>
<1>1. DOMAIN sources \subseteq Nat /\ \A index \in DOMAIN sources : sources[index].register \in 0 .. RVoid
  BY DEF IsOperand
<1> HIDE DEF sources
<1>2. \A type, instrs : IsResult(Emitter!Yields(Emitter!Reg(type, Emitter!ReuseRegister(sources)), instrs))
  BY <1>1, InRegisterTyped
<1>3. \A type, value : IsResult(Emitter!Given(Emitter!Imm(type, value)))
  BY ImmTyped, GivenTyped DEF IsResult
<1> QED BY <1>2, <1>3 DEF Emitter!Apply, sources

LEMMA ApplyUnaryTyped ==
    ASSUME NEW mnemonic, NEW value, IsOperand(value)
    PROVE  IsResult(Emitter!ApplyUnary(mnemonic, value))
<1> DEFINE sources == <<value>>
<1>1. DOMAIN sources \subseteq Nat /\ \A index \in DOMAIN sources : sources[index].register \in 0 .. RVoid
  BY DEF IsOperand
<1> HIDE DEF sources
<1>2. \A type, instrs : IsResult(Emitter!Yields(Emitter!Reg(type, Emitter!ReuseRegister(sources)), instrs))
  BY <1>1, InRegisterTyped
<1>3. \A type, some : IsResult(Emitter!Given(Emitter!Imm(type, some)))
  BY ImmTyped, GivenTyped DEF IsResult
<1> QED BY <1>2, <1>3 DEF Emitter!ApplyUnary, sources

\* Whichever rule applies to two operands, it yields one.
LEMMA CombineTyped ==
    ASSUME NEW mnemonic \in Emitter!BinaryMnemonics, NEW value1, NEW value2, IsOperand(value1), IsOperand(value2)
    PROVE  IsResult(Emitter!Combine(mnemonic, value1, value2))
<1>1. ASSUME NEW value, IsOperand(value)
      PROVE  IsResult(Emitter!Given(value)) /\ IsResult(Emitter!Negate(value))
             /\ \A displacement : IsResult(Emitter!Displace(value, displacement))
  BY <1>1, GivenTyped, ApplyUnaryTyped, DisplaceTyped DEF IsResult, Emitter!Negate
<1>2. \A type, value : IsResult(Emitter!Given(Emitter!Imm(type, value)))
  BY ImmTyped, GivenTyped DEF IsResult
<1>3. ASSUME NEW first, NEW second, IsOperand(first), IsOperand(second)
      PROVE  IsResult(Emitter!Difference(first, second))
  BY <1>1, <1>2, <1>3, ApplyTyped DEF Emitter!Difference
<1>4. ASSUME NEW first, NEW second, IsOperand(first), IsOperand(second)
      PROVE  IsResult(Emitter!Add(first, second))
  <2>1. IsOperand(Emitter!Negate(first).operand) /\ IsOperand(Emitter!Negate(second).operand)
    BY <1>1, <1>4 DEF IsResult
  <2>2. /\ IsResult(Emitter!Difference(second, Emitter!Negate(first).operand))
        /\ IsResult(Emitter!Difference(first, Emitter!Negate(second).operand))
    BY <1>3, <1>4, <2>1
  <2> QED BY <1>1, <1>4, <2>2, ApplyTyped DEF Emitter!Add
<1>5. IsResult(Emitter!Subtract(value1, value2))
  <2>1. IsOperand(Emitter!Negate(value2).operand)
    BY <1>1 DEF IsResult
  <2> QED BY <1>3, <1>4, <2>1 DEF Emitter!Subtract
<1>6. /\ IsResult(Emitter!Multiply(value1, value2))
      /\ IsResult(Emitter!Divide(value1, value2))
      /\ IsResult(Emitter!Modulo(value1, value2))
  BY <1>1, <1>2, ApplyTyped DEF Emitter!Multiply, Emitter!Divide, Emitter!Modulo
<1>7. /\ IsResult(Emitter!And(value1, value2))
      /\ IsResult(Emitter!Or(value1, value2))
      /\ IsResult(Emitter!ExclusiveOr(value1, value2))
  BY <1>1, <1>2, ApplyTyped DEF Emitter!And, Emitter!Or, Emitter!ExclusiveOr
<1>8. IsResult(Emitter!ShiftLeft(value1, value2)) /\ IsResult(Emitter!ShiftRight(value1, value2))
  BY <1>1, ApplyTyped DEF Emitter!ShiftLeft, Emitter!ShiftRight
<1>9. IsResult(Emitter!Add(value1, value2))
  BY <1>4
<1> QED BY <1>5, <1>6, <1>7, <1>8, <1>9 DEF Emitter!Combine, Emitter!BinaryMnemonics

LEMMA MinimizeTyped ==
    ASSUME NEW value1, NEW value2, IsOperand(value1), IsOperand(value2)
    PROVE  IsResult(Emitter!Minimize(value1, value2))
<1> DEFINE first == Emitter!AcquireRegister
           result == Emitter!Reg(value1.type, first)
<1>1. IsResult(Emitter!Given(value1)) /\ IsResult(Emitter!Given(value2))
  BY GivenTyped DEF IsResult
<1>2. \A type, instrs : IsResult(Emitter!Yields(Emitter!Reg(type, Nothing), instrs))
  BY RegTyped, NoOperandTyped DEF Emitter!Yields, IsResult
<1>3. first # Nothing => IsOperand(result)
  BY AcquireRegisterTyped, RegTyped, EmitterRegisters
<1>4. ASSUME first # Nothing, NEW instrs PROVE IsResult(Emitter!Yields(result, instrs))
  BY <1>3, <1>4, YieldsTyped DEF IsResult, IsOperand, IsRegisterOrNothing
<1> QED BY <1>1, <1>2, <1>4 DEF Emitter!Minimize

LEMMA ConvertTyped ==
    ASSUME NEW type, NEW value, IsOperand(value)
    PROVE  IsResult(Emitter!Convert(type, value))
<1> DEFINE sources == <<value>>
<1>1. DOMAIN sources \subseteq Nat /\ \A index \in DOMAIN sources : sources[index].register \in 0 .. RVoid
  BY DEF IsOperand
<1> HIDE DEF sources
<1>2. \A instrs : IsResult(Emitter!Yields(Emitter!Reg(type, Emitter!ReuseRegister(sources)), instrs))
  BY <1>1, InRegisterTyped
<1>3. \A some : IsResult(Emitter!Given(Emitter!Imm(type, some)))
  BY ImmTyped, GivenTyped DEF IsResult
<1> QED BY <1>2, <1>3 DEF Emitter!Convert, sources
-----------------------------------------------------------------------------
(* The operands that are counted for each register.                        *)

Referring(held, slots, register) == {slot \in slots : held[slot].register = register}

\* The registers are counted as used and as protected by what refers to them.
Counts(held, guards, used, guarded) ==
    \A register \in UserRegisters :
        /\ used[register] = Cardinality(Referring(held, Slots \ guards, register))
        /\ guarded[register] = Cardinality(Referring(held, guards, register))

AreOperands(held) == held = [slot \in Slots |-> held[slot]] /\ \A slot \in Slots : IsOperand(held[slot])

Call == [pending : Seq(Slots), pushed : Nat]

Counted ==
    /\ client \in Clients
    /\ AreOperands(operands)
    /\ protected \subseteq {slot \in Slots : operands[slot] # Emitter!NoOperand}
    /\ savedRegisters \in Seq(Slots) /\ calls \in Seq(Call)
    /\ DOMAIN registerUses = UserRegisters /\ DOMAIN protections = UserRegisters
    /\ Counts(operands, protected, registerUses, protections)

\* As many operands as refer to a register, which are finitely many.
LEMMA ReferringFinite ==
    ASSUME NEW held, NEW slots \in SUBSET Slots, NEW register
    PROVE  IsFiniteSet(Referring(held, slots, register)) /\ Cardinality(Referring(held, slots, register)) \in Nat
BY CompilationAssumption, FS_Subset, FS_CardinalityType DEF Referring

Refers(operand, register) == IF operand.register = register THEN 1 ELSE 0

LEMMA CountersTyped ==
    ASSUME Counted, NEW register \in UserRegisters
    PROVE  registerUses[register] \in Int /\ protections[register] \in Int
<1>1. protected \in SUBSET Slots /\ Slots \ protected \in SUBSET Slots
  BY DEF Counted
<1> QED BY <1>1, ReferringFinite DEF Counted, Counts

\* Counting an operand changes the counter of its register only.
LEMMA CountChanges ==
    ASSUME NEW counter, DOMAIN counter = UserRegisters, NEW operand, IsOperand(operand), NEW change \in Int
    PROVE  /\ DOMAIN Emitter!Count(counter, operand, change) = UserRegisters
           /\ \A register \in UserRegisters :
                Emitter!Count(counter, operand, change)[register] =
                    IF operand.register = register THEN counter[register] + change ELSE counter[register]
BY UserOperand DEF Emitter!Count

LEMMA SameCardinality == \A S : Emitter!Cardinality(S) = Cardinality(S)
BY DEF Cardinality, Emitter!Cardinality

LEMMA CountAllChanges ==
    ASSUME NEW counter, NEW slots, NEW change
    PROVE  /\ DOMAIN Emitter!CountAll(counter, slots, change) = UserRegisters
           /\ \A register \in UserRegisters :
                Emitter!CountAll(counter, slots, change)[register] =
                    counter[register] + change * Cardinality(Referring(operands, slots, register))
BY EmitterRegisters, SameCardinality DEF Emitter!CountAll, Referring

\* One slot more or less, which does or does not refer to a register.
LEMMA OneMore ==
    ASSUME NEW held, NEW slots \in SUBSET Slots, NEW slot \in Slots \ slots, NEW register
    PROVE  Cardinality(Referring(held, slots \cup {slot}, register)) =
             Cardinality(Referring(held, slots, register)) + Refers(held[slot], register)
<1>1. IsFiniteSet(Referring(held, slots, register)) /\ slot \notin Referring(held, slots, register)
  <2>1. slot \notin Referring(held, slots, register)
    BY DEF Referring
  <2> QED BY <2>1, ReferringFinite
<1>2. Cardinality(Referring(held, slots, register) \cup {slot}) = Cardinality(Referring(held, slots, register)) + 1
  BY <1>1, FS_AddElement
<1>3. CASE held[slot].register = register
  <2>1. Referring(held, slots \cup {slot}, register) = Referring(held, slots, register) \cup {slot}
    BY <1>3 DEF Referring
  <2> QED BY <1>2, <1>3, <2>1 DEF Refers
<1>4. CASE held[slot].register # register
  <2>1. Referring(held, slots \cup {slot}, register) = Referring(held, slots, register)
    BY <1>4 DEF Referring
  <2> QED BY <1>4, <2>1, ReferringFinite DEF Refers
<1> QED BY <1>3, <1>4

\* Slots that hold the same operands refer to the same registers.
LEMMA SameReferring ==
    ASSUME NEW held, NEW other, NEW slots, NEW register,
           \A slot \in slots : other[slot] = held[slot]
    PROVE  Referring(other, slots, register) = Referring(held, slots, register)
BY DEF Referring

\* An operand that takes the place of another one.
LEMMA OneReplaced ==
    ASSUME NEW held, AreOperands(held), NEW slots \in SUBSET Slots, NEW slot \in slots, NEW operand, NEW register
    PROVE  Cardinality(Referring([held EXCEPT ![slot] = operand], slots, register)) =
             Cardinality(Referring(held, slots, register))
               - Refers(held[slot], register)
               + Refers(operand, register)
<1> DEFINE rest == slots \ {slot}
           other == [held EXCEPT ![slot] = operand]
<1>1. rest \in SUBSET Slots /\ slot \in Slots \ rest /\ rest \cup {slot} = slots
  OBVIOUS
<1>2. \A some \in rest : other[some] = held[some]
  BY DEF AreOperands
<1>3. other[slot] = operand
  BY DEF AreOperands
<1> HIDE DEF rest, other
<1>4. Cardinality(Referring(held, slots, register)) =
        Cardinality(Referring(held, rest, register)) + Refers(held[slot], register)
  BY <1>1, OneMore
<1>5. Cardinality(Referring(other, slots, register)) =
        Cardinality(Referring(other, rest, register)) + Refers(other[slot], register)
  BY <1>1, OneMore
<1>6. Referring(other, rest, register) = Referring(held, rest, register)
  BY <1>2, SameReferring
<1>7. Cardinality(Referring(held, rest, register)) \in Nat
  BY <1>1, ReferringFinite
<1> QED BY <1>3, <1>4, <1>5, <1>6, <1>7 DEF other, Refers
-----------------------------------------------------------------------------
(* The requests keep the counts.                                           *)

\* Serving a request counts the result and no longer those that are used up.
LEMMA ServeCounted ==
    ASSUME Counted, UNCHANGED client,
           NEW name, NEW argument, NEW from, Emitter!ToSet(from) \subseteq Slots,
           NEW result, IsResult(result), Emitter!Serve(name, argument, from, result)
    PROVE  Counted'
<1> DEFINE dropped == Emitter!UsedUp(from)
           vacant == {slot \in client.slots : operands[slot] = Emitter!NoOperand} \cup dropped
           to == Emitter!Min(vacant)
           kept == (Slots \ protected) \ (dropped \cup {to})
<1>1. /\ UNCHANGED <<protected, saved, savedRegisters, calls, protections>>
      /\ vacant # {}
      /\ result.shortage => UNCHANGED <<operands, registerUses>>
      /\ ~result.shortage =>
            /\ operands' = [slot \in Slots |->
                    IF slot = to THEN result.operand
                    ELSE IF slot \in dropped THEN Emitter!NoOperand ELSE operands[slot]]
            /\ registerUses' = Emitter!CountAll(Emitter!Count(registerUses, result.operand, 1), dropped, -1)
  BY DEF Emitter!Serve
<1>2. protected \in SUBSET Slots /\ dropped \in SUBSET (Slots \ protected)
  BY DEF Counted, Emitter!UsedUp
<1>3. vacant \subseteq Slots /\ Slots \subseteq Nat
  BY <1>2, CompilationAssumption DEF Counted
<1>4. to \in vacant
  BY <1>1, <1>3, LeastMember
<1> HIDE DEF dropped, to, kept
<1>5. to \in Slots \ protected /\ (to \in dropped \/ operands[to] = Emitter!NoOperand)
  BY <1>2, <1>3, <1>4 DEF Counted
<1>6. CASE result.shortage
  BY <1>1, <1>6 DEF Counted
<1>7. CASE ~result.shortage
  <2>1. AreOperands(operands')
    BY <1>1, <1>7, NoOperandTyped DEF Counted, AreOperands, IsResult
  <2>2. \A slot \in protected : operands'[slot] = operands[slot]
    BY <1>1, <1>2, <1>5, <1>7
  <2>3. DOMAIN registerUses' = UserRegisters
    BY <1>1, <1>7, CountAllChanges
  <2>4. ASSUME NEW register \in UserRegisters
        PROVE  registerUses'[register] = Cardinality(Referring(operands', Slots \ protected, register))
    <3> DEFINE counted == Emitter!Count(registerUses, result.operand, 1)
               before == Referring(operands, Slots \ protected, register)
               gone == Referring(operands, dropped, register)
               after == Referring(operands', Slots \ protected, register)
               one == Refers(result.operand, register)
    <3>1. counted[register] = registerUses[register] + one
      <4>1. registerUses[register] \in Int
        BY <2>4, CountersTyped
      <4>2. DOMAIN registerUses = UserRegisters /\ IsOperand(result.operand)
        BY DEF Counted, IsResult
      <4>3. counted[register] =
              IF result.operand.register = register THEN registerUses[register] + 1 ELSE registerUses[register]
        BY <2>4, <4>2, CountChanges
      <4> QED BY <4>1, <4>3 DEF Refers
    <3>2. registerUses'[register] = counted[register] + (-1) * Cardinality(gone)
      BY <1>1, <1>7, <2>4, CountAllChanges
    <3>3. registerUses[register] = Cardinality(before)
      BY <2>4 DEF Counted, Counts
    <3>4. IsFiniteSet(before) /\ Cardinality(before) \in Nat /\ Cardinality(gone) \in Nat
      BY <1>2, ReferringFinite
    <3>5. gone \subseteq before
      BY <1>2 DEF Referring
    <3>6. Cardinality(before \ gone) = Cardinality(before) - Cardinality(gone)
      BY <3>4, <3>5, FS_Difference, before \cap gone = gone
    <3>7. operands[to].register = register => to \in dropped
      BY <1>5, <2>4, NoOperandTyped, EmitterRegisters
    <3>8. before \ gone = Referring(operands, kept, register)
      BY <1>2, <1>5, <3>7 DEF Referring, kept
    <3>9. kept \in SUBSET Slots /\ to \in Slots \ kept
      BY <1>5 DEF kept
    <3>10. Referring(operands, kept, register) = Referring(operands', kept, register)
      BY <1>1, <1>7, SameReferring DEF kept
    <3>11. after = Referring(operands', kept \cup {to}, register)
      <4>1. \A slot \in dropped \ {to} : operands'[slot].register # register
        BY <1>1, <1>2, <1>7, <2>4, NoOperandTyped, EmitterRegisters
      <4> QED BY <1>2, <1>5, <4>1 DEF Referring, kept
    <3>12. Cardinality(after) =
             Cardinality(Referring(operands', kept, register)) + Refers(operands'[to], register)
      BY <3>9, <3>11, OneMore
    <3>13. operands'[to] = result.operand
      BY <1>1, <1>5, <1>7
    <3>14. one \in Int /\ Cardinality(after) = Cardinality(before \ gone) + one
      BY <3>8, <3>10, <3>12, <3>13 DEF Refers
    <3> HIDE DEF counted, before, gone, one
    <3>15. registerUses'[register] = Cardinality(after)
      BY <3>1, <3>2, <3>3, <3>4, <3>6, <3>14
    <3> QED BY <3>15
  <2>5. ASSUME NEW register \in UserRegisters
        PROVE  protections'[register] = Cardinality(Referring(operands', protected', register))
    BY <1>1, <2>2, SameReferring DEF Counted, Counts
  <2> QED BY <1>1, <2>1, <2>2, <2>3, <2>4, <2>5 DEF Counted, Counts
<1> QED BY <1>6, <1>7
\* Replacing an operand that does not protect, or one that does.
LEMMA UsedReplaced ==
    ASSUME Counted, NEW slot \in Slots \ protected, NEW operand, NEW used,
           \A register \in UserRegisters :
               used[register] = registerUses[register] - Refers(operands[slot], register) + Refers(operand, register)
    PROVE  Counts([operands EXCEPT ![slot] = operand], protected, used, protections)
<1> DEFINE held == [operands EXCEPT ![slot] = operand]
<1>1. protected \in SUBSET Slots /\ Slots \ protected \in SUBSET Slots
      /\ AreOperands(operands) /\ \A some \in protected : held[some] = operands[some]
  BY DEF Counted, AreOperands
<1> HIDE DEF held
<1>2. ASSUME NEW register \in UserRegisters
      PROVE  used[register] = Cardinality(Referring(held, Slots \ protected, register))
  <2>1. Cardinality(Referring(held, Slots \ protected, register)) =
          Cardinality(Referring(operands, Slots \ protected, register))
            - Refers(operands[slot], register) + Refers(operand, register)
    BY <1>1, OneReplaced DEF held
  <2> QED BY <1>2, <2>1 DEF Counted, Counts
<1>3. ASSUME NEW register \in UserRegisters
      PROVE  protections[register] = Cardinality(Referring(held, protected, register))
  <2>1. Referring(held, protected, register) = Referring(operands, protected, register)
    BY <1>1, SameReferring
  <2> QED BY <1>3, <2>1 DEF Counted, Counts
<1> QED BY <1>2, <1>3 DEF Counts, held

LEMMA ProtectedReplaced ==
    ASSUME Counted, NEW slot \in protected, NEW operand, NEW guarded,
           \A register \in UserRegisters :
               guarded[register] = protections[register] - Refers(operands[slot], register) + Refers(operand, register)
    PROVE  Counts([operands EXCEPT ![slot] = operand], protected, registerUses, guarded)
<1> DEFINE held == [operands EXCEPT ![slot] = operand]
<1>1. protected \in SUBSET Slots /\ Slots \ protected \in SUBSET Slots
      /\ AreOperands(operands) /\ \A some \in Slots \ protected : held[some] = operands[some]
  BY DEF Counted, AreOperands
<1> HIDE DEF held
<1>2. ASSUME NEW register \in UserRegisters
      PROVE  guarded[register] = Cardinality(Referring(held, protected, register))
  <2>1. Cardinality(Referring(held, protected, register)) =
          Cardinality(Referring(operands, protected, register))
            - Refers(operands[slot], register) + Refers(operand, register)
    BY <1>1, OneReplaced DEF held
  <2> QED BY <1>2, <2>1 DEF Counted, Counts
<1>3. ASSUME NEW register \in UserRegisters
      PROVE  registerUses[register] = Cardinality(Referring(held, Slots \ protected, register))
  <2>1. Referring(held, Slots \ protected, register) = Referring(operands, Slots \ protected, register)
    BY <1>1, SameReferring
  <2> QED BY <1>3, <2>1 DEF Counted, Counts
<1> QED BY <1>2, <1>3 DEF Counts, held

\* Protecting the register of an operand, and not any more.
LEMMA NowProtected ==
    ASSUME Counted, NEW slot \in Slots \ protected, NEW used, NEW guarded,
           \A register \in UserRegisters :
               /\ used[register] = registerUses[register] - Refers(operands[slot], register)
               /\ guarded[register] = protections[register] + Refers(operands[slot], register)
    PROVE  Counts(operands, protected \cup {slot}, used, guarded)
<1> DEFINE rest == Slots \ (protected \cup {slot})
<1>1. /\ protected \in SUBSET Slots /\ slot \in Slots \ protected
      /\ rest \in SUBSET Slots /\ slot \in Slots \ rest /\ rest \cup {slot} = Slots \ protected
  BY DEF Counted
<1>2. ASSUME NEW register \in UserRegisters
      PROVE  /\ used[register] = Cardinality(Referring(operands, rest, register))
             /\ guarded[register] = Cardinality(Referring(operands, protected \cup {slot}, register))
  <2>1. Cardinality(Referring(operands, Slots \ protected, register)) =
          Cardinality(Referring(operands, rest, register)) + Refers(operands[slot], register)
    BY <1>1, OneMore
  <2>2. Cardinality(Referring(operands, protected \cup {slot}, register)) =
          Cardinality(Referring(operands, protected, register)) + Refers(operands[slot], register)
    BY <1>1, OneMore
  <2>3. Cardinality(Referring(operands, rest, register)) \in Nat /\ Refers(operands[slot], register) \in Int
    BY <1>1, ReferringFinite DEF Refers
  <2> HIDE DEF rest
  <2> QED BY <1>2, <2>1, <2>2, <2>3 DEF Counted, Counts
<1> QED BY <1>2 DEF Counts

LEMMA NoLongerProtected ==
    ASSUME Counted, NEW slot \in protected, NEW operand, NEW used, NEW guarded,
           \A register \in UserRegisters :
               /\ used[register] = registerUses[register] + Refers(operand, register)
               /\ guarded[register] = protections[register] - Refers(operands[slot], register)
    PROVE  Counts([operands EXCEPT ![slot] = operand], protected \ {slot}, used, guarded)
<1> DEFINE held == [operands EXCEPT ![slot] = operand]
           guards == protected \ {slot}
           others == Slots \ protected
<1>1. /\ guards \in SUBSET Slots /\ slot \in Slots \ guards /\ guards \cup {slot} = protected
      /\ others \in SUBSET Slots /\ slot \in Slots \ others /\ others \cup {slot} = Slots \ guards
  BY DEF Counted
<1>2. held[slot] = operand /\ \A some \in guards \cup others : held[some] = operands[some]
  BY <1>1 DEF Counted, AreOperands
<1> HIDE DEF held, guards, others
<1>3. ASSUME NEW register \in UserRegisters
      PROVE  /\ used[register] = Cardinality(Referring(held, Slots \ guards, register))
             /\ guarded[register] = Cardinality(Referring(held, guards, register))
  <2>1. Cardinality(Referring(operands, protected, register)) =
          Cardinality(Referring(operands, guards, register)) + Refers(operands[slot], register)
    BY <1>1, OneMore
  <2>2. Cardinality(Referring(held, Slots \ guards, register)) =
          Cardinality(Referring(held, others, register)) + Refers(held[slot], register)
    BY <1>1, OneMore
  <2>3. /\ Referring(held, guards, register) = Referring(operands, guards, register)
        /\ Referring(held, others, register) = Referring(operands, others, register)
    BY <1>2, SameReferring
  <2>4. Cardinality(Referring(operands, guards, register)) \in Nat /\ Refers(operands[slot], register) \in Int
    BY <1>1, ReferringFinite DEF Refers
  <2> QED BY <1>2, <1>3, <2>1, <2>2, <2>3, <2>4 DEF Counted, Counts, others
<1> QED BY <1>3 DEF Counts, held, guards
\* The slots that a front end operates on.
LEMMA HeldSlots ==
    /\ Emitter!Held \subseteq Slots
    /\ Emitter!ToSet(<<>>) \subseteq Slots
    /\ \A slot \in Slots : Emitter!ToSet(<<slot>>) \subseteq Slots
    /\ \A first, second \in Slots : Emitter!ToSet(<<first, second>>) \subseteq Slots
BY DEF Emitter!Held, Emitter!ToSet

LEMMA ValuesCounted ==
    ASSUME Counted, Emitter!Literal \/ Emitter!Variable \/ Emitter!Unary \/ Emitter!Conversion \/ Emitter!Dereference
    PROVE  Counted'
<1>1. \A slot \in Slots : IsOperand(operands[slot])
  BY DEF Counted, AreOperands
<1>2. UNCHANGED client
  BY DEF Emitter!Literal, Emitter!Variable, Emitter!Unary, Emitter!Conversion, Emitter!Dereference, Emitter!Asks
<1>3. CASE Emitter!Literal
  <2>1. PICK literal \in client.literals :
            Emitter!Serve("Literal", literal, <<>>, Emitter!Given(Emitter!Imm(literal.type, literal.value)))
    BY <1>3 DEF Emitter!Literal
  <2>2. IsResult(Emitter!Given(Emitter!Imm(literal.type, literal.value)))
    BY ImmTyped, GivenTyped DEF IsResult
  <2> QED BY <1>2, <2>1, <2>2, HeldSlots, ServeCounted
<1>4. CASE Emitter!Variable
  <2>1. PICK address \in client.variables :
            Emitter!Serve("Variable", address, <<>>,
                Emitter!Given(Emitter!Operand("Memory", Memory[address].type, Emitter!RFP, address, 0)))
    BY <1>4 DEF Emitter!Variable
  <2>2. IsOperand(Emitter!Operand("Memory", Memory[address].type, Emitter!RFP, address, 0))
    BY EmitterRegisters DEF IsOperand, Emitter!Operand
  <2>3. IsResult(Emitter!Given(Emitter!Operand("Memory", Memory[address].type, Emitter!RFP, address, 0)))
    BY <2>2, GivenTyped DEF IsResult
  <2> QED BY <1>2, <2>1, <2>3, HeldSlots, ServeCounted
<1>5. CASE Emitter!Unary
  <2>1. PICK slot \in Emitter!Held, mnemonic \in Emitter!UnaryMnemonics :
            Emitter!Serve("Unary", mnemonic, <<slot>>, Emitter!ApplyUnary(mnemonic, operands[slot]))
    BY <1>5 DEF Emitter!Unary
  <2>2. IsResult(Emitter!ApplyUnary(mnemonic, operands[slot]))
    BY <1>1, HeldSlots, ApplyUnaryTyped
  <2> QED BY <1>2, <2>1, <2>2, HeldSlots, ServeCounted
<1>6. CASE Emitter!Conversion
  <2>1. PICK slot \in Emitter!Held, type \in client.types :
            Emitter!Serve("Convert", type, <<slot>>, Emitter!Convert(type, operands[slot]))
    BY <1>6 DEF Emitter!Conversion
  <2>2. IsResult(Emitter!Convert(type, operands[slot]))
    BY <1>1, HeldSlots, ConvertTyped
  <2> QED BY <1>2, <2>1, <2>2, HeldSlots, ServeCounted
<1>7. CASE Emitter!Dereference
  <2>1. PICK slot \in Emitter!Held, displacement \in client.displacements :
            \E type : Emitter!Serve("Dereference", displacement, <<slot>>,
                                    Emitter!MakeMemory(type, operands[slot], displacement))
    BY <1>7 DEF Emitter!Dereference
  <2>2. PICK type : Emitter!Serve("Dereference", displacement, <<slot>>,
                                  Emitter!MakeMemory(type, operands[slot], displacement))
    BY <2>1
  <2>3. IsResult(Emitter!MakeMemory(type, operands[slot], displacement))
    BY <1>1, HeldSlots, MakeMemoryTyped
  <2> QED BY <1>2, <2>2, <2>3, HeldSlots, ServeCounted
<1> QED BY <1>3, <1>4, <1>5, <1>6, <1>7

LEMMA PairsCounted ==
    ASSUME Counted, Emitter!Binary \/ Emitter!Minimum \/ Emitter!Move
    PROVE  Counted'
<1>1. \A slot \in Slots : IsOperand(operands[slot])
  BY DEF Counted, AreOperands
<1>2. UNCHANGED client
  BY DEF Emitter!Binary, Emitter!Minimum, Emitter!Move, Emitter!Asks
<1>3. CASE Emitter!Binary
  <2>1. PICK first \in Emitter!Held, second \in Emitter!Held, mnemonic \in client.mnemonics :
            Emitter!Serve("Binary", mnemonic, <<first, second>>,
                          Emitter!Combine(mnemonic, operands[first], operands[second]))
    BY <1>3 DEF Emitter!Binary
  <2>2. mnemonic \in Emitter!BinaryMnemonics
    BY CompilationAssumption DEF Counted, BinaryMnemonics, Emitter!BinaryMnemonics
  <2>3. IsResult(Emitter!Combine(mnemonic, operands[first], operands[second]))
    BY <1>1, <2>2, HeldSlots, CombineTyped
  <2> QED BY <1>2, <2>1, <2>3, HeldSlots, ServeCounted
<1>4. CASE Emitter!Minimum
  <2>1. PICK first \in Emitter!Held, second \in Emitter!Held :
            Emitter!Serve("Minimize", Nothing, <<first, second>>,
                          Emitter!Minimize(operands[first], operands[second]))
    BY <1>4 DEF Emitter!Minimum
  <2>2. IsResult(Emitter!Minimize(operands[first], operands[second]))
    BY <1>1, HeldSlots, MinimizeTyped
  <2> QED BY <1>2, <2>1, <2>2, HeldSlots, ServeCounted
<1>5. CASE Emitter!Move
  <2>1. PICK slot \in Emitter!Held :
            \/ Emitter!Serve("Move", Nothing, <<slot>>, Emitter!MakeRegister(operands[slot]))
            \/ \E instrs : Emitter!Serve("Move", Nothing, <<slot>>,
                    Emitter!Yields(Emitter!Reg(operands[slot].type, Emitter!AcquireRegister), instrs))
    BY <1>5 DEF Emitter!Move
  <2>2. IsResult(Emitter!MakeRegister(operands[slot]))
    BY <1>1, HeldSlots, MakeRegisterTyped
  <2>3. \A instrs : IsResult(Emitter!Yields(Emitter!Reg(operands[slot].type, Emitter!AcquireRegister), instrs))
    <3> DEFINE acquired == Emitter!Reg(operands[slot].type, Emitter!AcquireRegister)
    <3>1. IsRegisterOrNothing(acquired.register)
      BY AcquireRegisterTyped, RegTyped, EmitterRegisters DEF IsRegisterOrNothing
    <3>2. acquired = [model |-> acquired.model, type |-> acquired.type, register |-> acquired.register,
                    displacement |-> acquired.displacement, value |-> acquired.value]
      BY DEF Emitter!Reg, Emitter!Operand
    <3> HIDE DEF acquired
    <3> QED BY <3>1, <3>2, YieldsTyped DEF IsResult, acquired
  <2> QED BY <1>2, <2>1, <2>2, <2>3, HeldSlots, ServeCounted
<1> QED BY <1>3, <1>4, <1>5

\* An operand that is discarded is not counted any more.
LEMMA DiscardCounted ==
    ASSUME Counted, Emitter!Discard
    PROVE  Counted'
<1>1. PICK slot \in Emitter!Held :
        /\ operands' = [operands EXCEPT ![slot] = Emitter!NoOperand]
        /\ IF slot \in protected
           THEN protections' = Emitter!Count(protections, operands[slot], -1) /\ UNCHANGED registerUses
           ELSE registerUses' = Emitter!Count(registerUses, operands[slot], -1) /\ UNCHANGED protections
        /\ protected' = protected \ {slot}
  BY DEF Emitter!Discard
<1>2. UNCHANGED <<client, savedRegisters, calls>>
  BY DEF Emitter!Discard, Emitter!Asks
<1>3. slot \in Slots /\ IsOperand(operands[slot]) /\ DOMAIN operands = Slots
  BY HeldSlots DEF Counted, AreOperands
<1>4. AreOperands(operands') /\ \A some \in Slots : some # slot => operands'[some] = operands[some]
  BY <1>1, <1>3, NoOperandTyped DEF Counted, AreOperands
<1>5. protected' \subseteq {some \in Slots : operands'[some] # Emitter!NoOperand}
  BY <1>1, <1>4 DEF Counted
<1>6. ASSUME NEW register \in UserRegisters
      PROVE  /\ Refers(Emitter!NoOperand, register) = 0
             /\ registerUses[register] \in Int /\ protections[register] \in Int
  BY <1>6, NoOperandTyped, EmitterRegisters, CountersTyped DEF Refers
<1>7. DOMAIN registerUses' = UserRegisters /\ DOMAIN protections' = UserRegisters
  BY <1>1, <1>3, CountChanges DEF Counted
<1>8. CASE slot \in protected
  <2>1. ASSUME NEW register \in UserRegisters
        PROVE  /\ registerUses'[register] = registerUses[register] + Refers(Emitter!NoOperand, register)
               /\ protections'[register] = protections[register] - Refers(operands[slot], register)
    <3>1. protections'[register] = IF operands[slot].register = register
                                   THEN protections[register] + (-1) ELSE protections[register]
      BY <1>1, <1>3, <1>8, <2>1, CountChanges DEF Counted
    <3> QED BY <1>1, <1>6, <1>8, <2>1, <3>1 DEF Refers
  <2>2. Counts([operands EXCEPT ![slot] = Emitter!NoOperand], protected \ {slot}, registerUses', protections')
    BY <1>8, <2>1, NoLongerProtected
  <2> QED BY <1>1, <1>2, <1>4, <1>5, <1>7, <2>2 DEF Counted
<1>9. CASE slot \notin protected
  <2>1. ASSUME NEW register \in UserRegisters
        PROVE  registerUses'[register] =
                 registerUses[register] - Refers(operands[slot], register) + Refers(Emitter!NoOperand, register)
    <3>1. registerUses'[register] = IF operands[slot].register = register
                                    THEN registerUses[register] + (-1) ELSE registerUses[register]
      BY <1>1, <1>3, <1>9, <2>1, CountChanges DEF Counted
    <3> QED BY <1>6, <2>1, <3>1 DEF Refers
  <2>2. Counts([operands EXCEPT ![slot] = Emitter!NoOperand], protected, registerUses', protections)
    BY <1>3, <1>9, <2>1, UsedReplaced
  <2>3. protected' = protected /\ protections' = protections
    BY <1>1, <1>9
  <2> QED BY <1>1, <1>2, <1>4, <1>5, <1>7, <2>2, <2>3 DEF Counted
<1> QED BY <1>8, <1>9

\* Protection counts an operand differently.
LEMMA ProtectCounted ==
    ASSUME Counted, Emitter!Protect
    PROVE  Counted'
<1>1. PICK slot \in Emitter!Held \ protected :
        /\ protected' = protected \cup {slot}
        /\ registerUses' = Emitter!Count(registerUses, operands[slot], -1)
        /\ protections' = Emitter!Count(protections, operands[slot], 1)
  BY DEF Emitter!Protect
<1>2. UNCHANGED <<client, operands, savedRegisters, calls>>
  BY DEF Emitter!Protect, Emitter!Asks
<1>3. slot \in Slots \ protected /\ IsOperand(operands[slot])
  BY HeldSlots DEF Counted, AreOperands
<1>4. protected' \subseteq {some \in Slots : operands'[some] # Emitter!NoOperand}
  BY <1>1, <1>2 DEF Counted, Emitter!Held
<1>5. DOMAIN registerUses' = UserRegisters /\ DOMAIN protections' = UserRegisters
  BY <1>1, <1>3, CountChanges DEF Counted
<1>6. ASSUME NEW register \in UserRegisters
      PROVE  /\ registerUses'[register] = registerUses[register] - Refers(operands[slot], register)
             /\ protections'[register] = protections[register] + Refers(operands[slot], register)
  <2>1. /\ registerUses'[register] = IF operands[slot].register = register
                                     THEN registerUses[register] + (-1) ELSE registerUses[register]
        /\ protections'[register] = IF operands[slot].register = register
                                    THEN protections[register] + 1 ELSE protections[register]
    BY <1>1, <1>3, <1>6, CountChanges DEF Counted
  <2> QED BY <1>6, <2>1, CountersTyped DEF Refers
<1>7. Counts(operands, protected \cup {slot}, registerUses', protections')
  BY <1>3, <1>6, NowProtected
<1> QED BY <1>1, <1>2, <1>4, <1>5, <1>7 DEF Counted

LEMMA DeprotectCounted ==
    ASSUME Counted, Emitter!Deprotect
    PROVE  Counted'
<1>1. PICK slot \in Emitter!Held \cap protected :
        /\ protected' = protected \ {slot}
        /\ registerUses' = Emitter!Count(registerUses, operands[slot], 1)
        /\ protections' = Emitter!Count(protections, operands[slot], -1)
  BY DEF Emitter!Deprotect
<1>2. UNCHANGED <<client, operands, savedRegisters, calls>>
  BY DEF Emitter!Deprotect, Emitter!Asks
<1>3. slot \in protected /\ IsOperand(operands[slot])
      /\ [operands EXCEPT ![slot] = operands[slot]] = operands
  BY HeldSlots DEF Counted, AreOperands
<1>4. protected' \subseteq {some \in Slots : operands'[some] # Emitter!NoOperand}
  BY <1>1, <1>2 DEF Counted
<1>5. DOMAIN registerUses' = UserRegisters /\ DOMAIN protections' = UserRegisters
  BY <1>1, <1>3, CountChanges DEF Counted
<1>6. ASSUME NEW register \in UserRegisters
      PROVE  /\ registerUses'[register] = registerUses[register] + Refers(operands[slot], register)
             /\ protections'[register] = protections[register] - Refers(operands[slot], register)
  <2>1. /\ registerUses'[register] = IF operands[slot].register = register
                                     THEN registerUses[register] + 1 ELSE registerUses[register]
        /\ protections'[register] = IF operands[slot].register = register
                                    THEN protections[register] + (-1) ELSE protections[register]
    BY <1>1, <1>3, <1>6, CountChanges DEF Counted
  <2> QED BY <1>6, <2>1, CountersTyped DEF Refers
<1>7. Counts([operands EXCEPT ![slot] = operands[slot]], protected \ {slot}, registerUses', protections')
  BY <1>3, <1>6, NoLongerProtected
<1> QED BY <1>1, <1>2, <1>3, <1>4, <1>5, <1>7 DEF Counted

-----------------------------------------------------------------------------
(* Function calls keep the counts.                                         *)

\* All but the last element of a sequence, and the last one.
LEMMA FrontAndLast ==
    ASSUME NEW S, NEW sequence \in Seq(S), sequence # <<>>
    PROVE  Emitter!Front(sequence) \in Seq(S) /\ Emitter!Last(sequence) \in S
BY DEF Emitter!Front, Emitter!Last

LEMMA SaveCounted ==
    ASSUME Counted, Emitter!SaveRegister
    PROVE  Counted'
<1>1. PICK slot \in Emitter!Held : savedRegisters' = Append(savedRegisters, slot)
  BY DEF Emitter!SaveRegister
<1>2. UNCHANGED <<client, operands, protected, calls, registerUses, protections>>
  BY DEF Emitter!SaveRegister, Emitter!Asks, Emitter!counters
<1>3. savedRegisters' \in Seq(Slots)
  BY <1>1, HeldSlots DEF Counted
<1> QED BY <1>2, <1>3 DEF Counted, Counts, AreOperands

LEMMA BeginCallCounted ==
    ASSUME Counted, Emitter!BeginCall
    PROVE  Counted'
<1>1. UNCHANGED <<client, operands, protected, registerUses, protections>>
  BY DEF Emitter!BeginCall, Emitter!Asks, Emitter!counters
<1>2. /\ calls' = Append(calls, [pending |-> savedRegisters, pushed |-> 0])
      /\ savedRegisters' = <<>>
  BY DEF Emitter!BeginCall
<1>3. savedRegisters' \in Seq(Slots) /\ calls' \in Seq(Call)
  BY <1>2 DEF Counted, Call
<1> QED BY <1>1, <1>3 DEF Counted, Counts, AreOperands

\* An operand that is restored has another register, and is counted for it.
LEMMA RestoreCounted ==
    ASSUME Counted, Emitter!RestoreRegister
    PROVE  Counted'
<1> DEFINE slot == Emitter!Last(savedRegisters)
           operand == operands[slot]
           acquired == Emitter!AcquireRegister
           restored == [operand EXCEPT !.register = acquired]
<1>1. /\ UNCHANGED <<client, protected, calls>>
      /\ savedRegisters # <<>>
      /\ \/ /\ savedRegisters' \in {savedRegisters, Emitter!Front(savedRegisters)}
            /\ UNCHANGED <<operands, registerUses, protections>>
         \/ /\ acquired # Nothing
            /\ savedRegisters' = Emitter!Front(savedRegisters)
            /\ operands' = [operands EXCEPT ![slot] = restored]
            /\ IF slot \in protected
               THEN protections' = Emitter!Recount(protections, operand, restored) /\ UNCHANGED registerUses
               ELSE registerUses' = Emitter!Recount(registerUses, operand, restored) /\ UNCHANGED protections
  BY DEF Emitter!RestoreRegister, Emitter!Asks, Emitter!counters
<1>2. slot \in Slots /\ savedRegisters' \in Seq(Slots)
  BY <1>1, FrontAndLast DEF Counted
<1>3. CASE UNCHANGED <<operands, registerUses, protections>>
  BY <1>1, <1>2, <1>3 DEF Counted
<1>4. CASE /\ acquired # Nothing
           /\ operands' = [operands EXCEPT ![slot] = restored]
           /\ IF slot \in protected
              THEN protections' = Emitter!Recount(protections, operand, restored) /\ UNCHANGED registerUses
              ELSE registerUses' = Emitter!Recount(registerUses, operand, restored) /\ UNCHANGED protections
  <2>1. IsOperand(operand)
    BY <1>2 DEF Counted, AreOperands
  <2>2. acquired \in 0 .. RMax
    BY <1>4, AcquireRegisterTyped
  <2>3. IsOperand(restored) /\ restored.register # RVoid
    <3> HIDE DEF operand, acquired
    <3> QED BY <2>1, <2>2, EmitterRegisters DEF IsOperand
  <2> HIDE DEF slot, restored
  <2>4. AreOperands(operands') /\ operands'[slot] = restored
        /\ \A some \in Slots : some # slot => operands'[some] = operands[some]
    BY <1>2, <1>4, <2>3 DEF Counted, AreOperands
  <2>5. protected' \subseteq {some \in Slots : operands'[some] # Emitter!NoOperand}
    BY <1>1, <2>3, <2>4, NoOperandTyped DEF Counted
  <2>6. ASSUME NEW counter, DOMAIN counter = UserRegisters,
               \A register \in UserRegisters : counter[register] \in Int
        PROVE  /\ DOMAIN Emitter!Recount(counter, operand, restored) = UserRegisters
               /\ \A register \in UserRegisters : Emitter!Recount(counter, operand, restored)[register] =
                    counter[register] - Refers(operand, register) + Refers(restored, register)
    <3> DEFINE once == Emitter!Count(counter, operand, -1)
    <3>1. DOMAIN once = UserRegisters /\ \A register \in UserRegisters :
            once[register] = IF operand.register = register THEN counter[register] + (-1) ELSE counter[register]
      BY <2>1, <2>6, CountChanges
    <3> HIDE DEF once, operand
    <3>2. DOMAIN Emitter!Count(once, restored, 1) = UserRegisters /\ \A register \in UserRegisters :
            Emitter!Count(once, restored, 1)[register] =
                IF restored.register = register THEN once[register] + 1 ELSE once[register]
      BY <2>3, <3>1, CountChanges
    <3>3. Emitter!Recount(counter, operand, restored) = Emitter!Count(once, restored, 1)
      BY DEF Emitter!Recount, once
    <3> QED BY <2>6, <3>1, <3>2, <3>3 DEF Refers
  <2>7. \A register \in UserRegisters : registerUses[register] \in Int /\ protections[register] \in Int
    BY CountersTyped
  <2>8. CASE slot \in protected
    <3>1. protections' = Emitter!Recount(protections, operand, restored) /\ UNCHANGED registerUses
      BY <1>4, <2>8
    <3>2. Counts([operands EXCEPT ![slot] = restored], protected, registerUses, protections')
      BY <2>6, <2>7, <2>8, <3>1, ProtectedReplaced DEF Counted
    <3>3. DOMAIN protections' = UserRegisters /\ DOMAIN registerUses' = UserRegisters
      BY <2>6, <2>7, <3>1 DEF Counted
    <3> QED BY <1>1, <1>2, <1>4, <2>4, <2>5, <3>1, <3>2, <3>3 DEF Counted
  <2>9. CASE slot \notin protected
    <3>1. registerUses' = Emitter!Recount(registerUses, operand, restored) /\ UNCHANGED protections
      BY <1>4, <2>9
    <3>2. Counts([operands EXCEPT ![slot] = restored], protected, registerUses', protections)
      BY <1>2, <2>6, <2>7, <2>9, <3>1, UsedReplaced DEF Counted
    <3>3. DOMAIN protections' = UserRegisters /\ DOMAIN registerUses' = UserRegisters
      BY <2>6, <2>7, <3>1 DEF Counted
    <3> QED BY <1>1, <1>2, <1>4, <2>4, <2>5, <3>1, <3>2, <3>3 DEF Counted
  <2> QED BY <2>8, <2>9
<1> QED BY <1>1, <1>3, <1>4

\* An argument is not counted any more.
LEMMA PushCounted ==
    ASSUME Counted, Emitter!Push
    PROVE  Counted'
<1>1. PICK slot \in Emitter!Held \ protected :
        /\ operands' = [operands EXCEPT ![slot] = Emitter!NoOperand]
        /\ registerUses' = Emitter!Count(registerUses, operands[slot], -1)
  BY DEF Emitter!Push
<1>2. UNCHANGED <<client, protected, savedRegisters, protections>>
  BY DEF Emitter!Push, Emitter!Asks
<1>3. slot \in Slots \ protected /\ IsOperand(operands[slot])
  BY HeldSlots DEF Counted, AreOperands
<1>4. calls' \in Seq(Call)
  <2>1. calls # <<>> /\ calls' = [calls EXCEPT ![Len(calls)].pushed = @ + 1]
    BY DEF Emitter!Push
  <2>2. calls \in Seq(Call) /\ calls[Len(calls)] \in Call
    BY <2>1 DEF Counted
  <2>3. \A call \in Call : [call EXCEPT !.pushed = @ + 1] \in Call
    BY DEF Call
  <2>4. calls' = [calls EXCEPT ![Len(calls)] = [calls[Len(calls)] EXCEPT !.pushed = @ + 1]]
    BY <2>1, <2>2
  <2> QED BY <2>1, <2>2, <2>3, <2>4
<1>5. AreOperands(operands') /\ \A some \in protected : operands'[some] = operands[some]
  BY <1>1, <1>3, NoOperandTyped DEF Counted, AreOperands
<1>6. protected' \subseteq {some \in Slots : operands'[some] # Emitter!NoOperand}
  BY <1>2, <1>5 DEF Counted
<1>7. DOMAIN registerUses' = UserRegisters
  BY <1>1, <1>3, CountChanges DEF Counted
<1>8. ASSUME NEW register \in UserRegisters
      PROVE  registerUses'[register] =
               registerUses[register] - Refers(operands[slot], register) + Refers(Emitter!NoOperand, register)
  <2>1. registerUses'[register] = IF operands[slot].register = register
                                  THEN registerUses[register] + (-1) ELSE registerUses[register]
    BY <1>1, <1>3, <1>8, CountChanges DEF Counted
  <2>2. Refers(Emitter!NoOperand, register) = 0 /\ registerUses[register] \in Int
    BY <1>8, NoOperandTyped, EmitterRegisters, CountersTyped DEF Refers
  <2> QED BY <2>1, <2>2 DEF Refers
<1>9. Counts([operands EXCEPT ![slot] = Emitter!NoOperand], protected, registerUses', protections)
  BY <1>3, <1>8, UsedReplaced
<1> QED BY <1>1, <1>2, <1>4, <1>5, <1>6, <1>7, <1>9 DEF Counted

\* The result of a call is counted.
LEMMA EndCallCounted ==
    ASSUME Counted, Emitter!EndCall
    PROVE  Counted'
<1> DEFINE vacant == {slot \in client.slots : operands[slot] = Emitter!NoOperand}
           to == Emitter!Min(vacant)
<1>1. PICK type \in client.types :
        /\ vacant # {}
        /\ operands' = [operands EXCEPT ![to] = Emitter!Reg(type, Emitter!RRes)]
        /\ registerUses' = Emitter!Count(registerUses, Emitter!Reg(type, Emitter!RRes), 1)
  BY DEF Emitter!EndCall
<1>2. UNCHANGED <<client, protected, protections>>
  BY DEF Emitter!EndCall, Emitter!Asks
<1>3. savedRegisters' \in Seq(Slots) /\ calls' \in Seq(Call)
  <2>1. calls # <<>> /\ savedRegisters' = Emitter!Last(calls).pending /\ calls' = Emitter!Front(calls)
    BY DEF Emitter!EndCall
  <2>2. Emitter!Last(calls) \in Call /\ Emitter!Front(calls) \in Seq(Call)
    BY <2>1, FrontAndLast DEF Counted
  <2> QED BY <2>1, <2>2 DEF Call
<1>4. vacant \subseteq Slots /\ Slots \subseteq Nat
  BY CompilationAssumption DEF Counted
<1>5. to \in vacant
  BY <1>1, <1>4, LeastMember
<1>6. to \in Slots \ protected /\ operands[to] = Emitter!NoOperand
  BY <1>4, <1>5 DEF Counted
<1> HIDE DEF to
<1> DEFINE result == Emitter!Reg(type, Emitter!RRes)
<1>7. IsOperand(result) /\ \A register \in UserRegisters : Refers(operands[to], register) = 0
  BY <1>6, RegTyped, NoOperandTyped, EmitterRegisters DEF Refers
<1> HIDE DEF result
<1>8. AreOperands(operands') /\ \A some \in protected : operands'[some] = operands[some]
  BY <1>1, <1>6, <1>7 DEF Counted, AreOperands, result
<1>9. protected' \subseteq {some \in Slots : operands'[some] # Emitter!NoOperand}
  BY <1>2, <1>8 DEF Counted
<1>10. DOMAIN registerUses' = UserRegisters
  BY <1>1, <1>7, CountChanges DEF Counted, result
<1>11. ASSUME NEW register \in UserRegisters
       PROVE  registerUses'[register] =
                registerUses[register] - Refers(operands[to], register) + Refers(result, register)
  <2>1. registerUses'[register] = IF result.register = register
                                  THEN registerUses[register] + 1 ELSE registerUses[register]
    BY <1>1, <1>7, <1>11, CountChanges DEF Counted, result
  <2>2. Refers(operands[to], register) = 0 /\ registerUses[register] \in Int
    BY <1>7, <1>11, CountersTyped
  <2> QED BY <2>1, <2>2 DEF Refers
<1>12. Counts([operands EXCEPT ![to] = result], protected, registerUses', protections)
  BY <1>6, <1>11, UsedReplaced
<1> QED BY <1>1, <1>2, <1>3, <1>8, <1>9, <1>10, <1>12 DEF Counted, result

\* At the end nothing is counted any more.
LEMMA FinishCounted ==
    ASSUME Counted, Emitter!Finish
    PROVE  Counted'
<1>1. /\ operands' = [slot \in Slots |-> Emitter!NoOperand]
      /\ registerUses' = Emitter!CountAll(registerUses, Slots \ protected, -1)
      /\ protections' = Emitter!CountAll(protections, protected, -1)
      /\ protected' = {}
      /\ UNCHANGED <<client, savedRegisters, calls>>
  BY DEF Emitter!Finish
<1>2. AreOperands(operands')
  BY <1>1, NoOperandTyped DEF AreOperands
<1>3. DOMAIN registerUses' = UserRegisters /\ DOMAIN protections' = UserRegisters
  BY <1>1, CountAllChanges
<1>4. protected \in SUBSET Slots /\ Slots \ protected \in SUBSET Slots
  BY DEF Counted
<1>5. ASSUME NEW register \in UserRegisters, NEW slots
      PROVE  Cardinality(Referring(operands', slots \cap Slots, register)) = 0
  <2>1. Referring(operands', slots \cap Slots, register) = {}
    BY <1>1, <1>5, NoOperandTyped, EmitterRegisters DEF Referring
  <2> QED BY <2>1, FS_EmptySet
<1>6. ASSUME NEW register \in UserRegisters
      PROVE  registerUses'[register] = 0 /\ protections'[register] = 0
  <2>1. /\ registerUses'[register] =
             registerUses[register] + (-1) * Cardinality(Referring(operands, Slots \ protected, register))
        /\ protections'[register] =
             protections[register] + (-1) * Cardinality(Referring(operands, protected, register))
    BY <1>1, <1>6, CountAllChanges
  <2>2. /\ Cardinality(Referring(operands, Slots \ protected, register)) \in Nat
        /\ Cardinality(Referring(operands, protected, register)) \in Nat
    BY <1>4, ReferringFinite
  <2>3. /\ registerUses[register] = Cardinality(Referring(operands, Slots \ protected, register))
        /\ protections[register] = Cardinality(Referring(operands, protected, register))
    BY <1>6 DEF Counted, Counts
  <2> QED BY <2>1, <2>2, <2>3
<1>7. Counts(operands', protected', registerUses', protections')
  <2>1. Slots \ protected' = Slots \cap Slots /\ protected' = {} \cap Slots
    BY <1>1
  <2> QED BY <1>5, <1>6, <2>1 DEF Counts
<1> QED BY <1>1, <1>2, <1>3, <1>7 DEF Counted

-----------------------------------------------------------------------------
(* Everything the emitter and the generator do.                            *)

LEMMA EmitterCounted ==
    ASSUME Counted, Emitter!Next
    PROVE  Counted'
BY ValuesCounted, PairsCounted, DiscardCounted, ProtectCounted, DeprotectCounted, SaveCounted, RestoreCounted,
   BeginCallCounted, PushCounted, EndCallCounted, FinishCounted
DEF Emitter!Next

LEMMA InitCounted ==
    ASSUME Emitter!Init
    PROVE  Counted
<1>1. /\ client \in Clients
      /\ operands = [slot \in Slots |-> Emitter!NoOperand]
      /\ protected = {} /\ savedRegisters = <<>> /\ calls = <<>>
      /\ registerUses = [register \in UserRegisters |-> 0]
      /\ protections = [register \in UserRegisters |-> 0]
  BY EmitterRegisters DEF Emitter!Init
<1>2. AreOperands(operands)
  BY <1>1, NoOperandTyped DEF AreOperands
<1>3. ASSUME NEW register \in UserRegisters, NEW slots \in SUBSET Slots
      PROVE  Cardinality(Referring(operands, slots, register)) = 0
  <2>1. Referring(operands, slots, register) = {}
    BY <1>1, <1>3, NoOperandTyped, EmitterRegisters DEF Referring
  <2> QED BY <2>1, FS_EmptySet
<1>4. Counts(operands, protected, registerUses, protections)
  <2>1. protected \in SUBSET Slots /\ Slots \ protected \in SUBSET Slots
    BY <1>1
  <2> QED BY <1>1, <1>3, <2>1 DEF Counts
<1> QED BY <1>1, <1>2, <1>4 DEF Counted

\* The counters of the emitter are right all the way, whatever a front end
\* does: an operand that is used up, discarded, protected, passed as an
\* argument, or restored with another register is counted where it belongs.
THEOREM Counting == CompilationSpec => []RegistersCounted
<1>1. CompilationInit => Counted
  BY InitCounted DEF CompilationInit
<1>2. Counted /\ [CompilationNext]_<<vars, emission>> => Counted'
  <2> SUFFICES ASSUME Counted, [CompilationNext]_<<vars, emission>> PROVE Counted'
    OBVIOUS
  <2>1. CASE EmitSection
    BY <2>1, EmitterCounted DEF EmitSection
  <2>2. CASE UNCHANGED <<client, operands, protected, savedRegisters, calls, registerUses, protections>>
    BY <2>2 DEF Counted
  <2>3. HandOver \/ ProcessWritten \/ GenerateSection \/ UNCHANGED <<vars, emission>> =>
            UNCHANGED <<client, operands, protected, savedRegisters, calls, registerUses, protections>>
    BY DEF HandOver, ProcessWritten, GenerateSection, emission
  <2> QED BY <2>1, <2>2, <2>3 DEF CompilationNext
<1>3. Counted => RegistersCounted
  BY DEF Counted, Counts, Referring, RegistersCounted
<1> QED BY <1>1, <1>2, <1>3, PTL DEF CompilationSpec

\* What is generated comes from the emitter or from a file, and the mapping of
\* registers is sound all the way, whatever errors sections run into.
THEOREM Composition == CompilationSpec => [](MappedWhileNeeded /\ MappedApart)
<1>1. CompilationInit => Inv
  BY InitInv DEF CompilationInit
<1>2. Inv /\ [CompilationNext]_<<vars, emission>> => Inv'
  <2> SUFFICES ASSUME Inv, [CompilationNext]_<<vars, emission>> PROVE Inv'
    OBVIOUS
  <2>1. CASE EmitSection \/ UNCHANGED <<vars, emission>>
    <3>1. UNCHANGED vars
      BY <2>1 DEF EmitSection
    <3> QED BY <3>1, NextInv
  <2>2. ASSUME NEW given, Process(given) PROVE Inv'
    BY <2>2 DEF Process, Inv, allocation, Apart, NoneIdle, NoneMissing
  <2>3. CASE GenerateSection
    BY <2>3, NextInv DEF GenerateSection, Next
  <2> QED BY <2>1, <2>2, <2>3 DEF CompilationNext, HandOver, ProcessWritten
<1>3. Inv => MappedWhileNeeded /\ MappedApart
  BY DEF Inv, MappedWhileNeeded, MappedApart, NoneIdle, NoneMissing, Short, Apart
<1> QED BY <1>1, <1>2, <1>3, PTL DEF CompilationSpec


-----------------------------------------------------------------------------
(* Counting ahead from every instruction of a section at once.             *)

\* The uses of a register from an instruction on that are still counted, when
\* its mapping has been fixed a number of times since the count began.
LookaheadOf(given, register) == CHOOSE ahead : IsAhead(given, ahead, 1, register)
AheadAt(given, register, next, fixed) == LookaheadOf(given, register)[next][fixed]

\* Counts are the same wherever they begin.
LEMMA AheadUnique ==
    ASSUME NEW given, Len(given) \in Nat, NEW register, NEW from \in 1 .. Len(given) + 1,
           NEW f, IsAhead(given, f, 1, register), NEW g, IsAhead(given, g, from, register),
           NEW start \in from .. Len(given) + 1
    PROVE  f[start] = g[start]
<1> DEFINE last == Len(given)
           U == {k \in 0 .. last + 1 - from : f[last + 1 - k] # g[last + 1 - k]}
<1>1. U \in SUBSET Nat
  OBVIOUS
<1>2. ASSUME U # {} PROVE FALSE
  <2>1. PICK m \in U : \A k \in U : m <= k
    BY <1>1, <1>2, FirstRegister
  <2>2. m \in 0 .. last + 1 - from /\ f[last + 1 - m] # g[last + 1 - m]
    OBVIOUS
  <2>3. PICK next \in from .. last + 1 : next = last + 1 - m
    <3>1. last + 1 - m \in from .. last + 1
      BY <2>2
    <3> QED BY <3>1
  <2>4. \A index \in next + 1 .. last + 1 : g[index] = f[index]
    <3> SUFFICES ASSUME NEW index \in next + 1 .. last + 1 PROVE g[index] = f[index]
      OBVIOUS
    <3>1. PICK k \in 0 .. last + 1 - from : k < m /\ last + 1 - k = index
      <4>1. last + 1 - index \in 0 .. last + 1 - from /\ last + 1 - index < m
            /\ last + 1 - (last + 1 - index) = index
        BY <2>2, <2>3
      <4> QED BY <4>1
    <3>2. k \notin U
      <4>1. m \in Nat /\ ~(m <= k)
        BY <2>2, <3>1
      <4> HIDE DEF U
      <4> QED BY <2>1, <4>1
    <3> QED BY <3>1, <3>2
  <2>5. IsCount(given, f, next + 1)
    <3>1. 1 \in 1 .. last + 1
      BY <2>3
    <3>2. IsCount(given, f, 1)
      BY <3>1, AheadCounts
    <3> QED BY <2>3, <3>2 DEF IsCount
  <2>6. \A fixed \in Int : Ahead(given, g, next, fixed, register) = Ahead(given, f, next, fixed, register)
    <3> SUFFICES ASSUME NEW fixed \in Int
                 PROVE  Ahead(given, g, next, fixed, register) = Ahead(given, f, next, fixed, register)
      OBVIOUS
    <3>1. next \in Nat /\ next \in next .. last + 1
      BY <2>3
    <3>2. \A other : (\A index \in next + 1 .. last + 1 : other[index] = f[index]) =>
             Ahead(given, other, next, fixed, register) = Ahead(given, f, next, fixed, register)
      BY <2>5, <3>1, AheadTyped
    <3> QED BY <2>4, <3>2
  <2>7. /\ f[next] = [fixed \in Int |-> Ahead(given, f, next, fixed, register)]
        /\ g[next] = [fixed \in Int |-> Ahead(given, g, next, fixed, register)]
    <3>1. next \in from .. last + 1 /\ next \in 1 .. last + 1
      BY <2>3
    <3> HIDE DEF U
    <3> QED BY <3>1 DEF IsAhead
  <2>8. f[next] = g[next]
    <3> HIDE DEF U
    <3> QED BY <2>6, <2>7
  <2> QED BY <2>2, <2>3, <2>8
<1>3. last + 1 - start \in 0 .. last + 1 - from /\ last + 1 - (last + 1 - start) = start
  OBVIOUS
<1> QED BY <1>2, <1>3

\* The count from an instruction on adds its uses to those behind it.
LEMMA AheadStep ==
    ASSUME NEW given, Len(given) \in Nat, NEW register, NEW at \in 1 .. Len(given), NEW fixed \in Int
    PROVE  /\ AheadAt(given, register, at, fixed) \in Nat
           /\ AheadAt(given, register, at, fixed) =
                IF Stops(given[at], register, fixed) THEN 0
                ELSE UsesOf(given[at], register)
                     + AheadAt(given, register, at + 1, Still(given[at], register, fixed))
<1> DEFINE ahead == LookaheadOf(given, register)
<1>1. 1 \in 1 .. Len(given) + 1
  OBVIOUS
<1>2. IsAhead(given, ahead, 1, register)
  <2>1. \E some : IsAhead(given, some, 1, register)
    BY <1>1, AheadExists
  <2> QED BY <2>1, Zenon DEF LookaheadOf
<1> HIDE DEF ahead
<1>3. IsCount(given, ahead, 1)
  BY <1>1, <1>2, AheadCounts
<1>4. ahead[at][fixed] = Ahead(given, ahead, at, fixed, register) /\ ~(at > Len(given))
  <2>1. at \in 1 .. Len(given) + 1 /\ ~(at > Len(given))
    OBVIOUS
  <2>2. ahead[at] = [other \in Int |-> Ahead(given, ahead, at, other, register)]
    BY <1>2, <2>1, Zenon DEF IsAhead
  <2> QED BY <2>1, <2>2
<1>5. ahead[at][fixed] \in Nat
  BY <1>3 DEF IsCount
<1> QED BY <1>4, <1>5 DEF AheadAt, Ahead, ahead

\* Behind the last instruction there is nothing to be counted.
LEMMA AheadEnd ==
    ASSUME NEW given, Len(given) \in Nat, NEW register, NEW fixed \in Int
    PROVE  AheadAt(given, register, Len(given) + 1, fixed) = 0
<1> DEFINE ahead == LookaheadOf(given, register)
<1>1. 1 \in 1 .. Len(given) + 1
  OBVIOUS
<1>2. IsAhead(given, ahead, 1, register)
  <2>1. \E some : IsAhead(given, some, 1, register)
    BY <1>1, AheadExists
  <2> QED BY <2>1, Zenon DEF LookaheadOf
<1> HIDE DEF ahead
<1>3. ahead[Len(given) + 1][fixed] = Ahead(given, ahead, Len(given) + 1, fixed, register)
  BY <1>2 DEF IsAhead
<1>4. Len(given) + 1 > Len(given)
  OBVIOUS
<1> QED BY <1>3, <1>4 DEF AheadAt, Ahead, ahead

\* The count is a natural number anywhere.
LEMMA AheadNatural ==
    ASSUME NEW given, Len(given) \in Nat, NEW register, NEW at \in 1 .. Len(given) + 1, NEW fixed \in Int
    PROVE  AheadAt(given, register, at, fixed) \in Nat
<1>1. at = Len(given) + 1 \/ at \in 1 .. Len(given)
  OBVIOUS
<1> QED BY <1>1, AheadStep, AheadEnd

\* Nothing is counted either where nothing is used any more.
LEMMA AheadNothing ==
    ASSUME NEW given, Len(given) \in Nat, NEW register, NEW at \in 1 .. Len(given) + 1, NEW fixed \in Int,
           \A later \in at .. Len(given) : UsesOf(given[later], register) = 0
    PROVE  AheadAt(given, register, at, fixed) = 0
<1> DEFINE last == Len(given)
           U == {k \in 0 .. last + 1 - at : AheadAt(given, register, last + 1 - k, fixed) # 0}
<1>1. U \in SUBSET Nat
  OBVIOUS
<1>2. ASSUME U # {} PROVE FALSE
  <2>1. PICK m \in U : \A k \in U : m <= k
    BY <1>1, <1>2, FirstRegister
  <2>2. m \in 0 .. last + 1 - at /\ AheadAt(given, register, last + 1 - m, fixed) # 0
    OBVIOUS
  <2>3. m # 0
    <3>1. last + 1 - 0 = last + 1
      OBVIOUS
    <3> QED BY <2>2, <3>1, AheadEnd
  <2>4. PICK next \in at .. last : next = last + 1 - m
    <3>1. last + 1 - m \in at .. last
      BY <2>2, <2>3
    <3> QED BY <3>1
  <2>5. m - 1 \in 0 .. last + 1 - at /\ ~(m <= m - 1) /\ last + 1 - (m - 1) = next + 1
    BY <2>2, <2>3, <2>4
  <2>6. AheadAt(given, register, next + 1, fixed) = 0
    <3>1. m - 1 \notin U
      <4> HIDE DEF U
      <4> QED BY <2>1, <2>5
    <3> QED BY <2>5, <3>1
  <2>7. next \in 1 .. last /\ UsesOf(given[next], register) = 0
    BY <2>4
  <2>8. Still(given[next], register, fixed) = fixed
    BY <2>7 DEF Still
  <2>9. AheadAt(given, register, next, fixed) = 0
    BY <2>6, <2>7, <2>8, AheadStep
  <2> QED BY <2>2, <2>4, <2>9
<1>3. last + 1 - at \in 0 .. last + 1 - at /\ last + 1 - (last + 1 - at) = at
  OBVIOUS
<1> QED BY <1>2, <1>3

\* This is what is counted when a register is acquired.
LEMMA UsesFromAhead ==
    ASSUME Len(instructions) \in Nat, NEW index \in 1 .. Len(instructions), NEW register
    PROVE  UsesFrom(index, register) =
                UsesOf(instructions[index], register) + AheadAt(instructions, register, index + 1, 0)
<1> DEFINE counted == CHOOSE ahead : IsAhead(instructions, ahead, index + 1, register)
           all == LookaheadOf(instructions, register)
<1>1. index + 1 \in 1 .. Len(instructions) + 1 /\ 1 \in 1 .. Len(instructions) + 1
      /\ index + 1 \in index + 1 .. Len(instructions) + 1
  OBVIOUS
<1>2. IsAhead(instructions, counted, index + 1, register)
  <2>1. \E ahead : IsAhead(instructions, ahead, index + 1, register)
    BY <1>1, AheadExists
  <2> QED BY <2>1, Zenon
<1>3. IsAhead(instructions, all, 1, register)
  <2>1. \E ahead : IsAhead(instructions, ahead, 1, register)
    BY <1>1, AheadExists
  <2> QED BY <2>1, Zenon DEF LookaheadOf
<1>4. UsesFrom(index, register) = UsesOf(instructions[index], register) + counted[index + 1][0]
  BY DEF UsesFrom, IsAhead, Ahead, Stops, Still
<1> HIDE DEF counted, all
<1>5. all[index + 1] = counted[index + 1]
  <2>1. \A f, g : IsAhead(instructions, f, 1, register) /\ IsAhead(instructions, g, index + 1, register)
                    => f[index + 1] = g[index + 1]
    BY <1>1, AheadUnique
  <2> QED BY <1>2, <1>3, <2>1
<1> QED BY <1>4, <1>5 DEF AheadAt, all

-----------------------------------------------------------------------------
(* Counting along a section.                                               *)

\* What is left of the uses of a register is what is counted ahead, for the
\* fixes since the count began, once the register is in use or was modified.
CountedAt(given, at, register, used) ==
    \E fixed \in Int :
        used # 0 \/ ModifiedBefore(given, at, register) => used = AheadAt(given, register, at, fixed)

\* The registers of the user do not include the absence of one.
LEMMA UserRegister == \A register \in UserRegisters : register \in 0 .. RRes /\ register # RVoid
BY OperandsAssumption DEF UserRegisters, IsUser, RRes, RVoid

\* Modifying a register is a use, and so are fixing and unfixing it.
LEMMA ModifyingUses ==
    ASSUME NEW instruction, NEW register \in UserRegisters,
           \/ ModifiedRegister(instruction) = register
           \/ Fixing(instruction, register) \/ Unfixing(instruction, register)
    PROVE  UsesOf(instruction, register) \in Nat \ {0}
BY UserRegister, UsesOfTyped DEF ModifiedRegister, UsesOf, Fixing, Unfixing

\* Going on by one instruction.
LEMMA ModifiedOn ==
    ASSUME NEW given, NEW at \in Nat \ {0}, NEW register
    PROVE  ModifiedBefore(given, at + 1, register) <=>
                ModifiedBefore(given, at, register) \/ ModifiedRegister(given[at]) = register
<1>1. 1 .. (at + 1) - 1 = (1 .. at - 1) \cup {at}
  OBVIOUS
<1> QED BY <1>1 DEF ModifiedBefore

\* Whether a register is fixed changes with the instructions that do so.
LEMMA FixedOn ==
    ASSUME NEW given, NEW at \in Nat \ {0}, NEW register
    PROVE  FixedAt(given, at + 1, register) <=>
                \/ Fixing(given[at], register)
                \/ FixedAt(given, at, register) /\ ~Unfixing(given[at], register)
<1>1. 1 .. (at + 1) - 1 = (1 .. at - 1) \cup {at}
  OBVIOUS
<1>2. \A start \in 1 .. at - 1 : start + 1 .. (at + 1) - 1 = (start + 1 .. at - 1) \cup {at}
  OBVIOUS
<1>3. at + 1 .. (at + 1) - 1 = {}
  OBVIOUS
<1>4. CASE Fixing(given[at], register)
  BY <1>1, <1>3, <1>4 DEF FixedAt, FixedOver
<1>5. CASE ~Fixing(given[at], register)
  BY <1>1, <1>2, <1>5 DEF FixedAt, FixedOver
<1> QED BY <1>4, <1>5

\* A register that is acquired counts from then on, and one that is in use
\* has been used as often as the instruction uses it.
LEMMA CountedOn ==
    ASSUME NEW given, Len(given) \in Nat, NEW at \in 1 .. Len(given), NEW register \in UserRegisters,
           NEW used \in Nat, CountedAt(given, at, register, used), NEW left,
           \/ left = AheadAt(given, register, at + 1, 0)
           \/ used # 0 /\ left = used - UsesOf(given[at], register)
           \/ used = 0 /\ left = 0 /\ ModifiedRegister(given[at]) # register
    PROVE  CountedAt(given, at + 1, register, left)
<1> DEFINE own == UsesOf(given[at], register)
<1>1. CASE left = AheadAt(given, register, at + 1, 0)
  BY <1>1 DEF CountedAt
<1>2. PICK fixed \in Int :
        used # 0 \/ ModifiedBefore(given, at, register) => used = AheadAt(given, register, at, fixed)
  BY DEF CountedAt
<1> DEFINE still == Still(given[at], register, fixed)
<1>3. own \in Nat /\ still \in Int /\ AheadAt(given, register, at + 1, still) \in Nat
  <2>1. still \in Int
    BY StillTyped
  <2>2. at + 1 \in 1 .. Len(given) + 1
    OBVIOUS
  <2> QED BY <2>1, <2>2, UsesOfTyped, AheadNatural
<1>4. AheadAt(given, register, at, fixed) =
        IF Stops(given[at], register, fixed) THEN 0 ELSE own + AheadAt(given, register, at + 1, still)
  BY AheadStep
<1> HIDE DEF own, still
<1>5. CASE used # 0 /\ left = used - own
  <2>1. left = AheadAt(given, register, at + 1, still)
    BY <1>2, <1>3, <1>4, <1>5
  <2> QED BY <1>3, <2>1 DEF CountedAt
<1>6. CASE used = 0 /\ left = 0 /\ ModifiedRegister(given[at]) # register
  <2>1. ~Stops(given[at], register, fixed)
    BY <1>6 DEF Stops
  <2>2. CASE ModifiedBefore(given, at, register)
    <3>1. 0 = own + AheadAt(given, register, at + 1, still)
      BY <1>2, <1>4, <1>6, <2>1, <2>2
    <3>2. left = AheadAt(given, register, at + 1, still)
      BY <1>3, <1>6, <3>1
    <3> QED BY <1>3, <3>2 DEF CountedAt
  <2>3. CASE ~ModifiedBefore(given, at, register)
    <3>1. ~ModifiedBefore(given, at + 1, register)
      BY <1>6, <2>3, ModifiedOn
    <3> QED BY <1>6, <3>1 DEF CountedAt
  <2> QED BY <2>2, <2>3
<1> QED BY <1>1, <1>5, <1>6 DEF own

\* A register that is in use covers the uses of the next instruction, which
\* does not overwrite it unless its mapping is fixed.
LEMMA UsedEnough ==
    ASSUME NEW given, Len(given) \in Nat, NEW at \in 1 .. Len(given), NEW register \in UserRegisters,
           NEW used \in Nat \ {0}, CountedAt(given, at, register, used)
    PROVE  UsesOf(given[at], register) <= used
<1>1. PICK fixed \in Int : used = AheadAt(given, register, at, fixed)
  BY DEF CountedAt
<1> DEFINE still == Still(given[at], register, fixed)
<1>2. still \in Int /\ at + 1 \in 1 .. Len(given) + 1
  BY StillTyped
<1>3. UsesOf(given[at], register) \in Nat /\ AheadAt(given, register, at + 1, still) \in Nat
  BY <1>2, UsesOfTyped, AheadNatural
<1>4. AheadAt(given, register, at, fixed) =
        IF Stops(given[at], register, fixed) THEN 0
        ELSE UsesOf(given[at], register) + AheadAt(given, register, at + 1, still)
  BY AheadStep
<1> HIDE DEF still
<1> QED BY <1>1, <1>3, <1>4

\* Whether an instruction depends on the contents of a register.
Needs(instruction, register) ==
    \/ register \in {instruction.operand2.register, instruction.operand3.register}
    \/ UsesOf(instruction, register) # 0 /\ ModifiedRegister(instruction) # register

\* A register that has been modified is in use when it is needed.
LEMMA NeededUsed ==
    ASSUME NEW given, Len(given) \in Nat, NEW at \in 1 .. Len(given), NEW register \in UserRegisters,
           NEW used \in Nat, CountedAt(given, at, register, used),
           ModifiedBefore(given, at, register), Needs(given[at], register)
    PROVE  used # 0
<1>1. PICK fixed \in Int : used = AheadAt(given, register, at, fixed)
  BY DEF CountedAt
<1> DEFINE still == Still(given[at], register, fixed)
<1>2. still \in Int /\ at + 1 \in 1 .. Len(given) + 1
  BY StillTyped
<1>3. UsesOf(given[at], register) \in Nat \ {0} /\ AheadAt(given, register, at + 1, still) \in Nat
  <2>1. UsesOf(given[at], register) # 0
    BY DEF Needs, UsesOf
  <2> QED BY <1>2, <2>1, UsesOfTyped, AheadNatural
<1>4. AheadAt(given, register, at, fixed) =
        IF Stops(given[at], register, fixed) THEN 0
        ELSE UsesOf(given[at], register) + AheadAt(given, register, at + 1, still)
  BY AheadStep
<1>5. ~Stops(given[at], register, fixed)
  BY DEF Needs, Stops
<1> HIDE DEF still
<1> QED BY <1>1, <1>3, <1>4, <1>5

-----------------------------------------------------------------------------
(* What the operations do unless they fail, and when they do not fail but  *)
(* for a shortage of registers.                                            *)

Passing == {"none", "register shortage"}

\* Everything else that happens to other registers.
Unaffected(state, result, register) ==
    \A other \in UserRegisters \ {register} :
        result.uses[other] = state.uses[other] /\ result.mapping[other] = state.mapping[other]

\* The first failure remains.
LEMMA FailKeeps ==
    ASSUME NEW state \in States, NEW failure \in Failures \ {"none"}
    PROVE  /\ state.failure # "none" => Fail(state, failure).failure = state.failure
           /\ Fail(state, failure).failure # "none"
BY DEF Fail, After, States

\* Mapping a register affects no other, and the result register is mapped to
\* that of results.
LEMMA MapEffect ==
    ASSUME NEW state \in States, NEW register \in UserRegisters,
           NEW result, result = Map(state, register)
    PROVE  /\ state.failure # "none" => result.failure = state.failure
           /\ result.failure = "none" =>
                /\ state.failure = "none"
                /\ result.uses = state.uses
                /\ result.fixes = state.fixes
                /\ Unaffected(state, result, register)
                /\ state.mapping[register] = Unmapped
                /\ result.mapping[register] # Unmapped
                /\ register = RRes => result.mapping[register] = 0
           /\ state.failure = "none" /\ state.mapping[register] = Unmapped => result.failure \in Passing
<1> DEFINE free == Free(state.mapping, register)
           mapped == [state EXCEPT !.mapping[register] = free]
<1>1. /\ mapped.failure = state.failure /\ mapped.uses = state.uses /\ mapped.fixes = state.fixes
      /\ mapped.mapping[register] = free
      /\ \A other \in UserRegisters \ {register} : mapped.mapping[other] = state.mapping[other]
  BY DEF States
<1>2. register = RRes => free = 0
  BY DEF Free
<1>3. Map(state, register) = IF state.mapping[register] # Unmapped THEN Fail(state, "assertion")
                             ELSE IF free = Unmapped THEN Fail(state, "register shortage")
                             ELSE After(state, mapped)
  BY DEF Map
<1> HIDE DEF free, mapped
<1>4. /\ state.failure # "none" => Fail(state, "assertion").failure = state.failure
      /\ Fail(state, "assertion").failure # "none"
  BY FailKeeps DEF Failures
<1>5. /\ state.failure # "none" => Fail(state, "register shortage").failure = state.failure
      /\ Fail(state, "register shortage").failure # "none"
      /\ state.failure = "none" => Fail(state, "register shortage").failure = "register shortage"
  <2>1. state.failure = "none" => Fail(state, "register shortage").failure = "register shortage"
    BY DEF Fail, After, States
  <2> QED BY <2>1, FailKeeps DEF Failures
<1>6. After(state, mapped) = IF state.failure = "none" THEN mapped ELSE state
  BY DEF After
<1>7. free # Unmapped => mapped.mapping[register] # Unmapped
  BY <1>1
<1> QED BY <1>1, <1>2, <1>3, <1>4, <1>5, <1>6, <1>7 DEF Unaffected, Passing

\* Acquiring a register sets its uses if it is not in use, and maps it if its
\* mapping is not fixed either.
LEMMA AcquireForEffect ==
    ASSUME NEW state \in States, NEW register \in UserRegisters, NEW count \in Nat,
           NEW result, result = AcquireFor(state, register, count)
    PROVE  /\ state.failure # "none" => result.failure = state.failure
           /\ result.failure = "none" =>
                /\ state.failure = "none"
                /\ result.fixes = state.fixes
                /\ Unaffected(state, result, register)
                /\ state.uses[register] # 0 => result = state
                /\ state.uses[register] = 0 => result.uses[register] = count
                /\ state.uses[register] = 0 /\ state.fixes[register] = 0 =>
                        state.mapping[register] = Unmapped /\ result.mapping[register] # Unmapped
                /\ state.fixes[register] # 0 => result.mapping = state.mapping
                /\ register = RRes => result.mapping[register] \in {state.mapping[register], 0}
                /\ register = RRes /\ state.uses[register] = 0 /\ state.fixes[register] = 0 =>
                        result.mapping[register] = 0
           /\ /\ state.failure = "none" /\ count # 0
              /\ state.uses[register] = 0 /\ state.fixes[register] = 0 => state.mapping[register] = Unmapped
              => result.failure \in Passing
<1> DEFINE used == [state EXCEPT !.uses[register] = count]
<1>1. /\ used \in States
      /\ used.failure = state.failure /\ used.fixes = state.fixes /\ used.mapping = state.mapping
      /\ used.uses[register] = count
      /\ \A other \in UserRegisters \ {register} : used.uses[other] = state.uses[other]
  BY DEF States
<1>2. CASE state.failure # "none"
  BY <1>2 DEF AcquireFor, Map, Fail, After
<1>3. CASE state.failure = "none" /\ count = 0
  <2>1. Fail(state, "assertion").failure # "none"
    BY FailKeeps DEF Failures
  <2>2. result = Fail(state, "assertion")
    BY <1>3 DEF AcquireFor
  <2> QED BY <1>3, <2>1, <2>2
<1>4. CASE state.failure = "none" /\ count # 0 /\ state.uses[register] # 0
  BY <1>4 DEF AcquireFor, Unaffected, Passing
<1>5. CASE state.failure = "none" /\ count # 0 /\ state.uses[register] = 0 /\ state.fixes[register] # 0
  <2>1. result = used
    BY <1>5 DEF AcquireFor, After
  <2> HIDE DEF used
  <2> QED BY <1>1, <1>5, <2>1 DEF Unaffected, Passing
<1>6. CASE state.failure = "none" /\ count # 0 /\ state.uses[register] = 0 /\ state.fixes[register] = 0
  <2>1. result = Map(used, register)
    BY <1>6 DEF AcquireFor, After
  <2> HIDE DEF used
  <2>2. /\ result.failure = "none" =>
             /\ used.failure = "none"
             /\ result.uses = used.uses
             /\ result.fixes = used.fixes
             /\ Unaffected(used, result, register)
             /\ used.mapping[register] = Unmapped
             /\ result.mapping[register] # Unmapped
             /\ register = RRes => result.mapping[register] = 0
        /\ used.failure = "none" /\ used.mapping[register] = Unmapped => result.failure \in Passing
    BY <1>1, <2>1, MapEffect
  <2> QED BY <1>1, <1>6, <2>2 DEF Unaffected
<1> QED BY <1>2, <1>3, <1>4, <1>5, <1>6

\* Checking operands changes nothing.
LEMMA CheckEffect ==
    ASSUME NEW state \in States, NEW checkable
    PROVE  /\ state.failure # "none" => Check(state, checkable).failure = state.failure
           /\ Check(state, checkable).failure = "none" =>
                /\ Check(state, checkable) = state
                /\ \A operand \in checkable :
                        HasRegister(operand) /\ IsGeneral(operand.register) => state.uses[operand.register] # 0
           /\ (\A operand \in checkable :
                    HasRegister(operand) /\ IsGeneral(operand.register) => state.uses[operand.register] # 0)
              => Check(state, checkable) = state
<1>1. /\ state.failure # "none" => Fail(state, "unmapped register").failure = state.failure
      /\ Fail(state, "unmapped register").failure # "none"
  BY FailKeeps DEF Failures
<1> QED BY <1>1 DEF Check

\* What has changed when uses have been counted down.
CountsDown(state, counts, result) ==
    /\ state.failure # "none" => result.failure = state.failure
    /\ result.failure = "none" =>
        /\ state.failure = "none"
        /\ result.fixes = state.fixes
        /\ \A register \in UserRegisters :
            /\ state.uses[register] = 0 => result.uses[register] = 0
            /\ state.uses[register] # 0 => result.uses[register] = state.uses[register] - counts[register]
            /\ result.mapping[register] \in {state.mapping[register], Unmapped}
            /\ counts[register] = 0 => result.mapping[register] = state.mapping[register]
    /\ /\ state.failure = "none"
       /\ \A register \in UserRegisters : state.uses[register] # 0 /\ counts[register] # 0 =>
            counts[register] <= state.uses[register] /\ state.mapping[register] # Unmapped
       => result.failure = "none"

\* Uses are counted down as long as there are any.
LEMMA CountedDownEffect ==
    ASSUME NEW state \in States, NEW counts \in [UserRegisters -> Nat],
           NEW result, result = CountedDown(state, counts)
    PROVE  CountsDown(state, counts, result)
<1> DEFINE released == {register \in UserRegisters : state.uses[register] # 0 /\ counts[register] # 0}
           left == [register \in released |-> state.uses[register] - counts[register]]
           unneeded == {register \in released : left[register] = 0 /\ state.fixes[register] = 0}
           used == [register \in UserRegisters |->
                        IF register \in released THEN left[register] ELSE state.uses[register]]
           mapped == [register \in UserRegisters |->
                        IF register \in unneeded THEN Unmapped ELSE state.mapping[register]]
           failing == \/ \E register \in released : left[register] < 0
                      \/ \E register \in unneeded : state.mapping[register] = Unmapped
<1>0. /\ state.failure # "none" => Fail(state, "assertion") = state
      /\ Fail(state, "assertion").failure # "none"
  <2>1. state.failure # "none" => Fail(state, "assertion") = state
    BY DEF Fail, After
  <2> QED BY <2>1, FailKeeps DEF Failures
<1>1. CASE failing
  <2>1. result = Fail(state, "assertion")
    BY <1>1 DEF CountedDown
  <2>2. ~ \A register \in UserRegisters : state.uses[register] # 0 /\ counts[register] # 0 =>
            counts[register] <= state.uses[register] /\ state.mapping[register] # Unmapped
    <3>1. \A register \in released :
            /\ state.uses[register] \in Nat /\ counts[register] \in Nat
            /\ left[register] = state.uses[register] - counts[register]
      BY DEF States
    <3>2. \A register \in released : left[register] < 0 => ~(counts[register] <= state.uses[register])
      <4> HIDE DEF left, released
      <4> QED BY <3>1
    <3> HIDE DEF left
    <3> QED BY <1>1, <3>2
  <2> HIDE DEF failing
  <2> QED BY <1>0, <2>1, <2>2 DEF CountsDown
<1>2. CASE ~failing /\ state.failure # "none"
  <2>1. result = state
    BY <1>2 DEF CountedDown, After
  <2> HIDE DEF failing
  <2> QED BY <1>2, <2>1 DEF CountsDown
<1>3. CASE ~failing /\ state.failure = "none"
  <2>1. result = [state EXCEPT !.uses = used, !.mapping = mapped]
    BY <1>3 DEF CountedDown, After
  <2>2. \A register \in UserRegisters :
            /\ state.uses[register] = 0 => used[register] = 0
            /\ state.uses[register] # 0 => used[register] = state.uses[register] - counts[register]
            /\ mapped[register] \in {state.mapping[register], Unmapped}
            /\ counts[register] = 0 => mapped[register] = state.mapping[register]
    BY DEF States
  <2> HIDE DEF used, mapped, failing
  <2>3. /\ result.failure = state.failure /\ result.fixes = state.fixes
        /\ result.uses = used /\ result.mapping = mapped
    BY <2>1 DEF States
  <2> QED BY <1>3, <2>2, <2>3 DEF CountsDown
<1> QED BY <1>1, <1>2, <1>3

\* Acquiring a register of an instruction counts its uses ahead.
LEMMA AcquireEffect ==
    ASSUME Len(instructions) \in Nat, NEW index \in 1 .. Len(instructions),
           NEW state \in States, NEW register \in UserRegisters,
           NEW result, result = Acquire(state, register, index)
    PROVE  /\ state.failure # "none" => result.failure = state.failure
           /\ result.failure = "none" =>
                /\ state.failure = "none"
                /\ result.fixes = state.fixes
                /\ Unaffected(state, result, register)
                /\ state.uses[register] # 0 => result = state
                /\ state.uses[register] = 0 =>
                        result.uses[register] = UsesOf(instructions[index], register)
                                                + AheadAt(instructions, register, index + 1, 0)
                /\ state.mapping[register] # Unmapped => result.mapping[register] = state.mapping[register]
                /\ state.uses[register] = 0 /\ state.fixes[register] = 0 => result.mapping[register] # Unmapped
                /\ register = RRes => result.mapping[register] \in {state.mapping[register], 0}
           /\ /\ state.failure = "none"
              /\ state.uses[register] = 0 =>
                    /\ UsesOf(instructions[index], register) # 0
                    /\ state.fixes[register] = 0 => state.mapping[register] = Unmapped
                    /\ UsesOf(instructions[index], register) > 1 =>
                         \A operand \in {instructions[index].operand2, instructions[index].operand3} :
                            HasRegister(operand) /\ IsGeneral(operand.register) => state.uses[operand.register] # 0
              => result.failure \in Passing
<1> DEFINE own == UsesOf(instructions[index], register)
           read == {instructions[index].operand2, instructions[index].operand3}
           checked == IF own > 1 THEN Check(state, read) ELSE state
           count == UsesFrom(index, register)
<1>1. count = own + AheadAt(instructions, register, index + 1, 0)
  BY UsesFromAhead
<1>2. count \in Nat /\ own \in Nat /\ AheadAt(instructions, register, index + 1, 0) \in Nat
  <2>1. index + 1 \in 1 .. Len(instructions) + 1
    OBVIOUS
  <2> QED BY <2>1, UsesFromTyped, UsesOfTyped, AheadNatural
<1>3. Acquire(state, register, index) =
        IF state.uses[register] # 0 THEN state ELSE AcquireFor(checked, register, count)
  <2>1. IsUser(register)
    BY Registers
  <2> QED BY <2>1 DEF Acquire
<1>4. /\ checked \in States
      /\ state.failure # "none" => checked.failure = state.failure
      /\ checked.failure = "none" => checked = state
      /\ (own > 1 => \A operand \in read :
            HasRegister(operand) /\ IsGeneral(operand.register) => state.uses[operand.register] # 0)
         => checked = state
  BY CheckEffect, CheckTyped
<1> HIDE DEF checked, count, own, read
<1>5. CASE state.uses[register] # 0
  BY <1>3, <1>5 DEF Unaffected, Passing
<1>6. CASE state.uses[register] = 0
  <2>1. result = AcquireFor(checked, register, count)
    BY <1>3, <1>6
  <2>2. /\ checked.failure # "none" => result.failure = checked.failure
        /\ result.failure = "none" =>
             /\ checked.failure = "none"
             /\ result.fixes = checked.fixes
             /\ Unaffected(checked, result, register)
             /\ checked.uses[register] = 0 => result.uses[register] = count
             /\ checked.uses[register] = 0 /\ checked.fixes[register] = 0 =>
                    checked.mapping[register] = Unmapped /\ result.mapping[register] # Unmapped
             /\ checked.fixes[register] # 0 => result.mapping = checked.mapping
             /\ register = RRes => result.mapping[register] \in {checked.mapping[register], 0}
        /\ /\ checked.failure = "none" /\ count # 0
           /\ checked.uses[register] = 0 /\ checked.fixes[register] = 0 => checked.mapping[register] = Unmapped
           => result.failure \in Passing
    BY <1>2, <1>4, <2>1, AcquireForEffect
  <2>3. result.failure = "none" => checked = state
    BY <1>4, <2>2
  <2>4. own # 0 => count # 0
    BY <1>1, <1>2
  <2> QED BY <1>1, <1>4, <1>6, <2>2, <2>3, <2>4 DEF own, read
<1> QED BY <1>5, <1>6

\* Releasing one register, and all registers of an instruction.
LEMMA ReleaseEffect ==
    ASSUME NEW state \in States, NEW register, NEW count \in Nat,
           NEW result, result = Release(state, register, count)
    PROVE  /\ state.failure # "none" => result.failure = state.failure
           /\ result.failure = "none" =>
                /\ state.failure = "none"
                /\ result.fixes = state.fixes
                /\ Unaffected(state, result, register)
                /\ register \in UserRegisters =>
                    /\ state.uses[register] = 0 => result.uses[register] = 0
                    /\ state.uses[register] # 0 => result.uses[register] = state.uses[register] - count
                    /\ result.mapping[register] \in {state.mapping[register], Unmapped}
           /\ /\ state.failure = "none"
              /\ register \in UserRegisters /\ state.uses[register] # 0 /\ count # 0 =>
                    count <= state.uses[register] /\ state.mapping[register] # Unmapped
              => result.failure = "none"
<1> DEFINE counts == [other \in UserRegisters |-> IF other = register THEN count ELSE 0]
<1>1. counts \in [UserRegisters -> Nat] /\ result = CountedDown(state, counts)
  BY DEF Release
<1>2. /\ register \in UserRegisters => counts[register] = count
      /\ \A other \in UserRegisters \ {register} : counts[other] = 0
  OBVIOUS
<1> HIDE DEF counts
<1>3. CountsDown(state, counts, result)
  BY <1>1, CountedDownEffect
<1>4. \A other \in UserRegisters : state.uses[other] \in Nat
  BY DEF States
<1>5. result.failure = "none" => Unaffected(state, result, register)
  BY <1>2, <1>3, <1>4 DEF Unaffected, CountsDown
<1> QED BY <1>2, <1>3, <1>4, <1>5 DEF CountsDown

\* Fixing acquires a register, and does not map it anew if it is in use.
LEMMA FixEffect ==
    ASSUME Len(instructions) \in Nat, NEW index \in 1 .. Len(instructions),
           NEW state \in States, NEW register \in UserRegisters,
           UsesOf(instructions[index], register) = 1,
           NEW result, result = Fix(state, register, index)
    PROVE  /\ state.failure # "none" => result.failure = state.failure
           /\ result.failure = "none" =>
                /\ state.fixes[register] = 0
                /\ result.fixes = [state.fixes EXCEPT ![register] = 1]
                /\ Unaffected(state, result, register)
                /\ state.uses[register] # 0 => result.uses[register] = state.uses[register] - 1
                /\ state.uses[register] = 0 =>
                        result.uses[register] = AheadAt(instructions, register, index + 1, 0)
                /\ state.mapping[register] # Unmapped =>
                        result.mapping[register] \in {state.mapping[register], Unmapped}
                /\ register = RRes => result.mapping[register] \in {state.mapping[register], Unmapped, 0}
           /\ /\ state.failure = "none" /\ state.fixes[register] = 0
              /\ state.uses[register] = 0 <=> state.mapping[register] = Unmapped
              => result.failure \in Passing
<1> DEFINE acquired == Acquire(state, register, index)
           next == [acquired EXCEPT !.fixes[register] = 1]
           fixed == After(acquired, next)
           ahead == AheadAt(instructions, register, index + 1, 0)
<1>0. ahead \in Nat
  <2>1. index + 1 \in 1 .. Len(instructions) + 1
    OBVIOUS
  <2> QED BY <2>1, AheadNatural
<1>1. Fix(state, register, index) = IF state.fixes[register] # 0 THEN Fail(state, "fixed register")
                                    ELSE Release(fixed, register, 1)
  <2>1. IsUser(register)
    BY Registers
  <2> HIDE DEF fixed
  <2> QED BY <2>1 DEF Fix, fixed
<1>2. /\ acquired \in States
      /\ state.failure # "none" => acquired.failure = state.failure
      /\ acquired.failure = "none" =>
           /\ state.failure = "none"
           /\ acquired.fixes = state.fixes
           /\ Unaffected(state, acquired, register)
           /\ state.uses[register] # 0 => acquired = state
           /\ state.uses[register] = 0 => acquired.uses[register] = 1 + ahead
           /\ state.mapping[register] # Unmapped => acquired.mapping[register] = state.mapping[register]
           /\ state.uses[register] = 0 /\ state.fixes[register] = 0 => acquired.mapping[register] # Unmapped
           /\ register = RRes => acquired.mapping[register] \in {state.mapping[register], 0}
      /\ /\ state.failure = "none"
         /\ state.uses[register] = 0 /\ state.fixes[register] = 0 => state.mapping[register] = Unmapped
         => acquired.failure \in Passing
  BY AcquireTyped, AcquireEffect
<1> HIDE DEF acquired, ahead
<1>3. /\ fixed \in States /\ fixed.uses = acquired.uses /\ fixed.mapping = acquired.mapping
      /\ fixed.failure = acquired.failure
      /\ fixed.failure = "none" => fixed.fixes = [acquired.fixes EXCEPT ![register] = 1]
  <2>1. /\ next \in States /\ next.uses = acquired.uses /\ next.mapping = acquired.mapping
        /\ next.failure = acquired.failure
        /\ next.fixes = [acquired.fixes EXCEPT ![register] = 1]
    BY <1>2 DEF States
  <2> HIDE DEF next
  <2> QED BY <1>2, <2>1 DEF After
<1> HIDE DEF fixed
<1>4. CASE state.fixes[register] # 0
  <2>1. /\ state.failure # "none" => Fail(state, "fixed register").failure = state.failure
        /\ Fail(state, "fixed register").failure # "none"
    BY FailKeeps DEF Failures
  <2> QED BY <1>1, <1>4, <2>1
<1>5. CASE state.fixes[register] = 0
  <2>1. result = Release(fixed, register, 1)
    BY <1>1, <1>5
  <2>2. /\ fixed.failure # "none" => result.failure = fixed.failure
        /\ result.failure = "none" =>
             /\ fixed.failure = "none"
             /\ result.fixes = fixed.fixes
             /\ Unaffected(fixed, result, register)
             /\ fixed.uses[register] # 0 => result.uses[register] = fixed.uses[register] - 1
             /\ result.mapping[register] \in {fixed.mapping[register], Unmapped}
        /\ fixed.failure = "none"
           /\ (fixed.uses[register] # 0 => 1 <= fixed.uses[register] /\ fixed.mapping[register] # Unmapped)
           => result.failure = "none"
    BY <1>3, <2>1, ReleaseEffect
  <2>3. fixed.uses[register] \in Nat
    BY <1>3 DEF States
  <2>4. 1 + ahead # 0 /\ (1 + ahead) - 1 = ahead
    BY <1>0
  <2>5. /\ fixed.failure = "none"
        /\ state.uses[register] = 0 <=> state.mapping[register] = Unmapped
        => result.failure = "none"
    <3>1. 1 <= fixed.uses[register] <=> fixed.uses[register] # 0
      BY <2>3
    <3>2. ASSUME fixed.failure = "none", state.uses[register] = 0 <=> state.mapping[register] = Unmapped
          PROVE  fixed.mapping[register] # Unmapped
      BY <1>2, <1>3, <1>5, <3>2
    <3> QED BY <2>2, <3>1, <3>2
  <2> HIDE DEF Passing
  <2>6. result.failure = "none" =>
             /\ Unaffected(state, result, register)
             /\ result.fixes = [state.fixes EXCEPT ![register] = 1]
    BY <1>2, <1>3, <2>2 DEF Unaffected
  <2>7. result.failure = "none" /\ state.uses[register] = 0 => result.uses[register] = ahead
    BY <1>2, <1>3, <2>2, <2>4
  <2>8. result.failure = "none" /\ state.uses[register] # 0 =>
                        result.uses[register] = state.uses[register] - 1
    BY <1>2, <1>3, <2>2
  <2>9. result.failure = "none" =>
             /\ state.mapping[register] # Unmapped =>
                        result.mapping[register] \in {state.mapping[register], Unmapped}
             /\ register = RRes => result.mapping[register] \in {state.mapping[register], Unmapped, 0}
    BY <1>2, <1>3, <2>2
  <2>10. /\ acquired.failure \in Passing
         /\ state.uses[register] = 0 <=> state.mapping[register] = Unmapped
         => result.failure \in Passing
    BY <1>3, <2>2, <2>5 DEF Passing
  <2> QED BY <1>2, <1>3, <1>5, <2>2, <2>6, <2>7, <2>8, <2>9, <2>10 DEF ahead
<1> QED BY <1>4, <1>5

\* Unfixing a register never maps one.
LEMMA UnfixEffect ==
    ASSUME NEW state \in States, NEW register \in UserRegisters,
           NEW result, result = Unfix(state, register)
    PROVE  /\ state.failure # "none" => result.failure = state.failure
           /\ result.failure = "none" =>
                /\ state.fixes[register] # 0
                /\ result.fixes = [state.fixes EXCEPT ![register] = 0]
                /\ Unaffected(state, result, register)
                /\ state.uses[register] # 0 => result.uses[register] = state.uses[register] - 1
                /\ state.uses[register] = 0 => result.uses[register] = 0
                /\ result.mapping[register] \in {state.mapping[register], Unmapped}
           /\ state.failure = "none" /\ state.fixes[register] # 0 /\ state.mapping[register] # Unmapped =>
                result.failure = "none"
<1> DEFINE left == IF state.uses[register] = 0 THEN Unmapped ELSE state.mapping[register]
           next == [state EXCEPT !.fixes = [@ EXCEPT ![register] = 0],
                                 !.mapping = [@ EXCEPT ![register] = left]]
           unfixed == After(state, next)
<1>1. Unfix(state, register) = IF state.fixes[register] = 0 THEN Fail(state, "unfixed register")
                               ELSE IF state.uses[register] = 0 /\ state.mapping[register] = Unmapped
                               THEN Fail(state, "assertion")
                               ELSE Release(unfixed, register, 1)
  <2>1. IsUser(register)
    BY Registers
  <2> HIDE DEF unfixed
  <2> QED BY <2>1 DEF Unfix, unfixed
<1>2. left \in {state.mapping[register], Unmapped} /\ left \in Physical \cup {Unmapped}
  BY DEF States
<1> HIDE DEF left
<1>3. /\ unfixed \in States /\ unfixed.uses = state.uses
      /\ unfixed.failure = state.failure
      /\ unfixed.failure = "none" =>
            /\ unfixed.mapping = [state.mapping EXCEPT ![register] = left]
            /\ unfixed.fixes = [state.fixes EXCEPT ![register] = 0]
  <2>1. /\ next \in States /\ next.uses = state.uses
        /\ next.mapping = [state.mapping EXCEPT ![register] = left]
        /\ next.failure = state.failure
        /\ next.fixes = [state.fixes EXCEPT ![register] = 0]
    BY <1>2 DEF States
  <2> HIDE DEF next
  <2> QED BY <2>1 DEF After
<1> HIDE DEF unfixed
<1>4. CASE state.fixes[register] = 0
  <2>1. /\ state.failure # "none" => Fail(state, "unfixed register").failure = state.failure
        /\ Fail(state, "unfixed register").failure # "none"
    BY FailKeeps DEF Failures
  <2> QED BY <1>1, <1>4, <2>1
<1>5. CASE state.fixes[register] # 0 /\ state.uses[register] = 0 /\ state.mapping[register] = Unmapped
  <2>1. /\ state.failure # "none" => Fail(state, "assertion").failure = state.failure
        /\ Fail(state, "assertion").failure # "none"
    BY FailKeeps DEF Failures
  <2> QED BY <1>1, <1>5, <2>1
<1>6. CASE state.fixes[register] # 0 /\ ~(state.uses[register] = 0 /\ state.mapping[register] = Unmapped)
  <2>1. result = Release(unfixed, register, 1)
    BY <1>1, <1>6
  <2>2. /\ unfixed.failure # "none" => result.failure = unfixed.failure
        /\ result.failure = "none" =>
             /\ unfixed.failure = "none"
             /\ result.fixes = unfixed.fixes
             /\ Unaffected(unfixed, result, register)
             /\ unfixed.uses[register] = 0 => result.uses[register] = 0
             /\ unfixed.uses[register] # 0 => result.uses[register] = unfixed.uses[register] - 1
             /\ result.mapping[register] \in {unfixed.mapping[register], Unmapped}
        /\ unfixed.failure = "none"
           /\ (unfixed.uses[register] # 0 =>
                    1 <= unfixed.uses[register] /\ unfixed.mapping[register] # Unmapped)
           => result.failure = "none"
    <3> HIDE DEF Unaffected
    <3>1. unfixed \in States /\ 1 \in Nat
      BY <1>3
    <3> QED BY <2>1, <3>1, ReleaseEffect
  <2>3. unfixed.uses[register] \in Nat
    BY <1>3 DEF States
  <2>4. unfixed.failure = "none" =>
        /\ unfixed.mapping[register] = left
        /\ \A other \in UserRegisters \ {register} : unfixed.mapping[other] = state.mapping[other]
    BY <1>2, <1>3 DEF States
  <2>5. unfixed.failure = "none" /\ state.mapping[register] # Unmapped => result.failure = "none"
    <3>1. unfixed.uses[register] # 0 => left = state.mapping[register]
      BY <1>3 DEF left
    <3> QED BY <2>2, <2>3, <2>4, <3>1
  <2> QED BY <1>2, <1>3, <1>6, <2>2, <2>4, <2>5 DEF Unaffected
<1> QED BY <1>4, <1>5, <1>6

-----------------------------------------------------------------------------
(* What each step does to the allocation if nothing fails.                 *)

\* The allocation keeps track of the section that is generated.
Tracked ==
    \A register \in UserRegisters :
        /\ CountedAt(instructions, position, register, uses[register])
        /\ fixes[register] # 0 <=> FixedAt(instructions, position, register)

\* What is mapped is what is needed as long as errors leave nothing behind.
LEMMA SoundNeeded ==
    ASSUME Flawless, NEW state, Sound(state), state.failure = "none"
    PROVE  Needed(state.uses, state.fixes, state.mapping)
BY DEF Flawless, Short, Sound, NoneIdle, NoneMissing, Needed

\* An instruction is generated.
Generating ==
    /\ TypedSection
    /\ Inv
    /\ Tracked
    /\ phase = "generating" /\ Flawless
    /\ position \in 1 .. Len(instructions)

\* The allocation before and after it, when the mapping of the registers
\* is kept or ends, except for that of a register that is modified.
Advanced(result) ==
    \A register \in UserRegisters :
        /\ CountedAt(instructions, position + 1, register, result.uses[register])
        /\ result.fixes[register] # 0 <=> FixedAt(instructions, position + 1, register)
        /\ mapping[register] # Unmapped \/ UsesOf(instructions[position], register) = 0 =>
                result.mapping[register] \in {mapping[register], Unmapped}
        /\ result.mapping[RRes] \in {mapping[RRes], Unmapped, 0}

\* The state of the allocation when an instruction is generated.
LEMMA CurrentAllocation ==
    ASSUME Generating
    PROVE  /\ Current \in States /\ Sound(Current)
           /\ Current.uses = uses /\ Current.fixes = fixes /\ Current.mapping = mapping
           /\ Current.failure = "none"
           /\ Len(instructions) \in Nat
           /\ \A register \in UserRegisters :
                /\ uses[register] \in Nat
                /\ mapping[register] # Unmapped <=> uses[register] # 0 \/ fixes[register] # 0
<1>1. Current \in States
  BY CurrentTyped DEF Generating, TypedSection
<1>2. Sound(Current)
  BY CurrentSound DEF Generating
<1>3. Needed(Current.uses, Current.fixes, Current.mapping)
  BY <1>2, SoundNeeded DEF Generating, Current
<1> QED BY <1>1, <1>2, <1>3 DEF Current, States, Needed, Generating, TypedSection, IsSection

\* A register is fixed.
LEMMA FixAdvances ==
    ASSUME Generating, NEW register \in UserRegisters, Fixing(instructions[position], register),
           UsesOf(instructions[position], register) = 1,
           \A other \in UserRegisters \ {register} : UsesOf(instructions[position], other) = 0,
           NEW result, result = Fix(Current, register, position)
    PROVE  /\ result.failure = "none" => Advanced(result)
           /\ ~FixedAt(instructions, position, register) => result.failure \in Passing
<1> DEFINE at == position
<1>1. at \in 1 .. Len(instructions) /\ at \in Nat \ {0}
  BY CurrentAllocation DEF Generating
<1>2. /\ result.failure = "none" =>
           /\ fixes[register] = 0
           /\ result.fixes = [fixes EXCEPT ![register] = 1]
           /\ \A other \in UserRegisters \ {register} :
                result.uses[other] = uses[other] /\ result.mapping[other] = mapping[other]
           /\ uses[register] # 0 => result.uses[register] = uses[register] - 1
           /\ uses[register] = 0 => result.uses[register] = AheadAt(instructions, register, at + 1, 0)
           /\ mapping[register] # Unmapped => result.mapping[register] \in {mapping[register], Unmapped}
           /\ register = RRes => result.mapping[register] \in {mapping[register], Unmapped, 0}
      /\ fixes[register] = 0 /\ (uses[register] = 0 <=> mapping[register] = Unmapped)
           => result.failure \in Passing
  <2>1. /\ Current \in States /\ Current.failure = "none" /\ Len(instructions) \in Nat
        /\ Current.uses = uses /\ Current.fixes = fixes /\ Current.mapping = mapping
    BY CurrentAllocation
  <2> HIDE DEF Passing
  <2>2. /\ result.failure = "none" =>
             /\ Current.fixes[register] = 0
             /\ result.fixes = [Current.fixes EXCEPT ![register] = 1]
             /\ Unaffected(Current, result, register)
             /\ Current.uses[register] # 0 => result.uses[register] = Current.uses[register] - 1
             /\ Current.uses[register] = 0 =>
                    result.uses[register] = AheadAt(instructions, register, at + 1, 0)
             /\ Current.mapping[register] # Unmapped =>
                    result.mapping[register] \in {Current.mapping[register], Unmapped}
             /\ register = RRes => result.mapping[register] \in {Current.mapping[register], Unmapped, 0}
        /\ /\ Current.failure = "none" /\ Current.fixes[register] = 0
           /\ Current.uses[register] = 0 <=> Current.mapping[register] = Unmapped
           => result.failure \in Passing
    BY <1>1, <2>1, FixEffect, SMTT(20)
  <2> QED BY <2>1, <2>2 DEF Unaffected
<1>3. ~FixedAt(instructions, position, register) => result.failure \in Passing
  BY <1>2, CurrentAllocation DEF Generating, Tracked
<1>4. ASSUME result.failure = "none", NEW other \in UserRegisters
      PROVE  /\ CountedAt(instructions, at + 1, other, result.uses[other])
             /\ result.fixes[other] # 0 <=> FixedAt(instructions, at + 1, other)
             /\ mapping[other] # Unmapped \/ UsesOf(instructions[at], other) = 0 =>
                    result.mapping[other] \in {mapping[other], Unmapped}
  <2>1. CountedAt(instructions, at, other, uses[other]) /\ uses[other] \in Nat
        /\ (fixes[other] # 0 <=> FixedAt(instructions, at, other))
        /\ Len(instructions) \in Nat
    BY CurrentAllocation DEF Generating, Tracked
  <2>2. FixedAt(instructions, at + 1, other) <=>
            \/ Fixing(instructions[at], other)
            \/ FixedAt(instructions, at, other) /\ ~Unfixing(instructions[at], other)
    BY <1>1, FixedOn
  <2>3. DOMAIN fixes = UserRegisters
    BY DEF Generating, Inv
  <2>4. result.fixes[other] # 0 <=> FixedAt(instructions, at + 1, other)
    <3>1. CASE other = register
      <4>1. result.fixes[other] = 1
        BY <1>2, <1>4, <2>3, <3>1
      <4> QED BY <2>2, <3>1, <4>1
    <3>2. CASE other # register
      <4>1. ~Fixing(instructions[at], other) /\ ~Unfixing(instructions[at], other)
        BY <3>2 DEF Fixing, Unfixing
      <4>2. result.fixes[other] = fixes[other]
        BY <1>2, <1>4, <2>3, <3>2
      <4> QED BY <2>1, <2>2, <4>1, <4>2
    <3> QED BY <3>1, <3>2
  <2>5. ModifiedRegister(instructions[at]) # other
    BY UserRegister DEF Fixing, ModifiedRegister, IsModifying, UnaryMnemonics, BinaryMnemonics
  <2>6. \/ result.uses[other] = AheadAt(instructions, other, at + 1, 0)
        \/ uses[other] # 0 /\ result.uses[other] = uses[other] - UsesOf(instructions[at], other)
        \/ uses[other] = 0 /\ result.uses[other] = 0
    BY <1>2, <1>4, <2>1
  <2>7. CountedAt(instructions, at + 1, other, result.uses[other])
    BY <1>1, <2>1, <2>5, <2>6, CountedOn
  <2> QED BY <1>2, <1>4, <2>4, <2>7
<1>5. result.failure = "none" => result.mapping[RRes] \in {mapping[RRes], Unmapped, 0}
  BY <1>2, Registers
<1> QED BY <1>3, <1>4, <1>5 DEF Advanced

\* A register is unfixed.
LEMMA UnfixAdvances ==
    ASSUME Generating, NEW register \in UserRegisters, Unfixing(instructions[position], register),
           UsesOf(instructions[position], register) = 1,
           \A other \in UserRegisters \ {register} : UsesOf(instructions[position], other) = 0,
           NEW result, result = Unfix(Current, register)
    PROVE  /\ result.failure = "none" => Advanced(result)
           /\ FixedAt(instructions, position, register) => result.failure = "none"
<1> DEFINE at == position
<1>1. at \in 1 .. Len(instructions) /\ at \in Nat \ {0}
  BY CurrentAllocation DEF Generating
<1>2. /\ result.failure = "none" =>
           /\ fixes[register] # 0
           /\ result.fixes = [fixes EXCEPT ![register] = 0]
           /\ \A other \in UserRegisters \ {register} :
                result.uses[other] = uses[other] /\ result.mapping[other] = mapping[other]
           /\ uses[register] # 0 => result.uses[register] = uses[register] - 1
           /\ uses[register] = 0 => result.uses[register] = 0
           /\ result.mapping[register] \in {mapping[register], Unmapped}
      /\ fixes[register] # 0 /\ mapping[register] # Unmapped => result.failure = "none"
  <2>1. /\ Current \in States /\ Current.failure = "none" /\ Len(instructions) \in Nat
        /\ Current.uses = uses /\ Current.fixes = fixes /\ Current.mapping = mapping
    BY CurrentAllocation
  <2> HIDE DEF Passing
  <2> QED BY <1>1, <2>1, UnfixEffect, SMTT(20) DEF Unaffected
<1>3. FixedAt(instructions, position, register) => result.failure = "none"
  BY <1>2, CurrentAllocation DEF Generating, Tracked
<1>4. ASSUME result.failure = "none", NEW other \in UserRegisters
      PROVE  /\ CountedAt(instructions, at + 1, other, result.uses[other])
             /\ result.fixes[other] # 0 <=> FixedAt(instructions, at + 1, other)
             /\ mapping[other] # Unmapped \/ UsesOf(instructions[at], other) = 0 =>
                    result.mapping[other] \in {mapping[other], Unmapped}
  <2>1. CountedAt(instructions, at, other, uses[other]) /\ uses[other] \in Nat
        /\ (fixes[other] # 0 <=> FixedAt(instructions, at, other))
        /\ Len(instructions) \in Nat
    BY CurrentAllocation DEF Generating, Tracked
  <2>2. FixedAt(instructions, at + 1, other) <=>
            \/ Fixing(instructions[at], other)
            \/ FixedAt(instructions, at, other) /\ ~Unfixing(instructions[at], other)
    BY <1>1, FixedOn
  <2>3. DOMAIN fixes = UserRegisters
    BY DEF Generating, Inv
  <2>4. result.fixes[other] # 0 <=> FixedAt(instructions, at + 1, other)
    <3>1. CASE other = register
      <4>1. ~Fixing(instructions[at], register)
        BY DEF Fixing, Unfixing
      <4> QED BY <1>2, <1>4, <2>2, <2>3, <3>1, <4>1
    <3>2. CASE other # register
      <4>1. ~Fixing(instructions[at], other) /\ ~Unfixing(instructions[at], other)
        BY <3>2 DEF Fixing, Unfixing
      <4>2. result.fixes[other] = fixes[other]
        BY <1>2, <1>4, <2>3, <3>2
      <4> QED BY <2>1, <2>2, <4>1, <4>2
    <3> QED BY <3>1, <3>2
  <2>5. ModifiedRegister(instructions[at]) # other
    BY UserRegister DEF Unfixing, ModifiedRegister, IsModifying, UnaryMnemonics, BinaryMnemonics
  <2>6. \/ uses[other] # 0 /\ result.uses[other] = uses[other] - UsesOf(instructions[at], other)
        \/ uses[other] = 0 /\ result.uses[other] = 0
    BY <1>2, <1>4, <2>1
  <2>7. CountedAt(instructions, at + 1, other, result.uses[other])
    BY <1>1, <2>1, <2>5, <2>6, CountedOn
  <2> QED BY <1>2, <1>4, <2>4, <2>7
<1>5. result.failure = "none" => result.mapping[RRes] \in {mapping[RRes], Unmapped, 0}
  BY <1>2, Registers
<1> QED BY <1>3, <1>4, <1>5 DEF Advanced

\* Acquiring the register that is modified.
LEMMA ModifiedAcquired ==
    ASSUME Generating, NEW state \in States, state.failure = "none", NEW register,
           NEW acquired, acquired = Acquire(state, register, position), acquired.failure = "none"
    PROVE  /\ acquired.fixes = state.fixes
           /\ acquired.mapping[RRes] \in {state.mapping[RRes], 0}
           /\ \A other \in UserRegisters :
                /\ state.uses[other] # 0 \/ other # register => acquired.uses[other] = state.uses[other]
                /\ state.uses[other] = 0 /\ other = register =>
                        acquired.uses[other] = UsesOf(instructions[position], other)
                                               + AheadAt(instructions, other, position + 1, 0)
                /\ state.mapping[other] # Unmapped \/ other # register =>
                        acquired.mapping[other] = state.mapping[other]
<1>1. CASE register \in UserRegisters
  <2>1. Len(instructions) \in Nat /\ position \in 1 .. Len(instructions)
    BY CurrentAllocation DEF Generating
  <2>2. /\ acquired.fixes = state.fixes
        /\ Unaffected(state, acquired, register)
        /\ state.uses[register] # 0 => acquired = state
        /\ state.uses[register] = 0 =>
                acquired.uses[register] = UsesOf(instructions[position], register)
                                          + AheadAt(instructions, register, position + 1, 0)
        /\ state.mapping[register] # Unmapped => acquired.mapping[register] = state.mapping[register]
        /\ register = RRes => acquired.mapping[register] \in {state.mapping[register], 0}
    BY <1>1, <2>1, AcquireEffect
  <2> QED BY <1>1, <2>2, Registers DEF Unaffected
<1>2. CASE register \notin UserRegisters
  <2>1. acquired = state
    BY <1>2, Registers DEF Acquire
  <2> QED BY <1>2, <2>1
<1> QED BY <1>1, <1>2

\* An instruction that is supported never releases more than was acquired.
LEMMA GenerateAdvances ==
    ASSUME Generating, instructions[position].mnemonic \notin {"FIX", "UNFIX"},
           NEW acquired, acquired = Acquire(Current, ModifiedRegister(instructions[position]), position),
           NEW checked, checked = Check(acquired, {instructions[position].operand1,
                                        instructions[position].operand2, instructions[position].operand3}),
           NEW result, result = ReleaseAll(checked, instructions[position]),
           checked.failure = "none"
    PROVE  /\ result.failure = "none"
           /\ acquired \in States /\ Sound(acquired) /\ acquired.failure = "none"
           /\ Advanced(result)
           /\ ModifiedRegister(instructions[position]) \in UserRegisters =>
                acquired.mapping[ModifiedRegister(instructions[position])] # Unmapped
           /\ \A register \in UserRegisters :
                /\ mapping[register] # Unmapped \/ register # ModifiedRegister(instructions[position]) =>
                        acquired.mapping[register] = mapping[register]
                /\ result.mapping[register] \in {acquired.mapping[register], Unmapped}
<1> DEFINE at == position
           instruction == instructions[at]
           modified == ModifiedRegister(instruction)
           counts == [register \in UserRegisters |-> UsesOf(instruction, register)]
<1>1. /\ at \in 1 .. Len(instructions) /\ at \in Nat \ {0} /\ Len(instructions) \in Nat
      /\ at + 1 \in 1 .. Len(instructions) + 1
  BY CurrentAllocation DEF Generating
<1>2. acquired \in States /\ Sound(acquired) /\ checked = acquired /\ acquired.failure = "none"
  <2>1. acquired \in States
    BY <1>1, CurrentAllocation, AcquireTyped
  <2>2. Sound(acquired)
    BY CurrentAllocation, AcquireSound
  <2>3. checked = acquired
    BY <2>1, CheckEffect
  <2> QED BY <2>1, <2>2, <2>3
<1>2a. Needed(acquired.uses, acquired.fixes, acquired.mapping)
  BY <1>2, SoundNeeded DEF Generating
<1>3. /\ acquired.fixes = fixes
      /\ acquired.mapping[RRes] \in {mapping[RRes], 0}
      /\ \A register \in UserRegisters :
           /\ uses[register] # 0 \/ register # modified => acquired.uses[register] = uses[register]
           /\ uses[register] = 0 /\ register = modified =>
                acquired.uses[register] = UsesOf(instruction, register)
                                          + AheadAt(instructions, register, at + 1, 0)
           /\ mapping[register] # Unmapped \/ register # modified =>
                acquired.mapping[register] = mapping[register]
  <2>1. /\ Current \in States /\ Current.failure = "none"
        /\ Current.uses = uses /\ Current.fixes = fixes /\ Current.mapping = mapping
    BY CurrentAllocation
  <2> QED BY <1>2, <2>1, ModifiedAcquired
<1>4. \A register \in UserRegisters :
        /\ uses[register] \in Nat /\ UsesOf(instruction, register) \in Nat
        /\ AheadAt(instructions, register, at + 1, 0) \in Nat
        /\ CountedAt(instructions, at, register, uses[register])
        /\ register = modified => UsesOf(instruction, register) # 0
  BY <1>1, CurrentAllocation, UsesOfTyped, AheadNatural, ModifyingUses DEF Generating, Tracked
<1>5. \A register \in UserRegisters :
        acquired.uses[register] # 0 => UsesOf(instruction, register) <= acquired.uses[register]
  <2> SUFFICES ASSUME NEW register \in UserRegisters, acquired.uses[register] # 0
               PROVE  UsesOf(instruction, register) <= acquired.uses[register]
    OBVIOUS
  <2>1. CASE uses[register] # 0
    <3>1. UsesOf(instruction, register) <= uses[register]
      BY <1>1, <1>4, <2>1, UsedEnough
    <3> QED BY <1>3, <2>1, <3>1
  <2>2. CASE uses[register] = 0
    BY <1>3, <1>4, <2>2
  <2> QED BY <2>1, <2>2
<1>6. /\ counts \in [UserRegisters -> Nat] /\ result = CountedDown(acquired, counts)
      /\ \A register \in UserRegisters : counts[register] = UsesOf(instruction, register)
  BY <1>2, <1>4 DEF ReleaseAll
<1> HIDE DEF counts, instruction, modified
<1>7. CountsDown(acquired, counts, result)
  BY <1>2, <1>6, CountedDownEffect
<1>8. result.failure = "none"
  <2>1. \A register \in UserRegisters : acquired.uses[register] # 0 =>
            counts[register] <= acquired.uses[register] /\ acquired.mapping[register] # Unmapped
    BY <1>5, <1>6, <1>2a DEF Needed
  <2> QED BY <1>2, <1>7, <2>1 DEF CountsDown
<1>9. ASSUME NEW register \in UserRegisters
      PROVE  CountedAt(instructions, at + 1, register, result.uses[register])
  <2>1. \/ result.uses[register] = AheadAt(instructions, register, at + 1, 0)
        \/ uses[register] # 0 /\ result.uses[register] = uses[register] - UsesOf(instruction, register)
        \/ uses[register] = 0 /\ result.uses[register] = 0 /\ modified # register
    <3>1. CASE uses[register] # 0
      BY <1>3, <1>6, <1>7, <1>8, <3>1 DEF CountsDown
    <3>2. CASE uses[register] = 0 /\ register # modified
      BY <1>3, <1>7, <1>8, <3>2 DEF CountsDown
    <3>3. CASE uses[register] = 0 /\ register = modified
      <4>1. acquired.uses[register] = UsesOf(instruction, register)
                                      + AheadAt(instructions, register, at + 1, 0)
        BY <1>3, <3>3
      <4>2. acquired.uses[register] # 0
        BY <1>4, <3>3, <4>1
      <4>3. result.uses[register] = acquired.uses[register] - UsesOf(instruction, register)
        BY <1>6, <1>7, <1>8, <4>2 DEF CountsDown
      <4> QED BY <1>4, <4>1, <4>3
    <3> QED BY <3>1, <3>2, <3>3
  <2> QED BY <1>1, <1>4, <2>1, CountedOn DEF instruction, modified
<1>10. ASSUME NEW register \in UserRegisters
       PROVE  result.fixes[register] # 0 <=> FixedAt(instructions, at + 1, register)
  <2>1. fixes[register] # 0 <=> FixedAt(instructions, at, register)
    BY DEF Generating, Tracked
  <2>2. ~Fixing(instructions[at], register) /\ ~Unfixing(instructions[at], register)
    BY DEF Fixing, Unfixing
  <2>3. FixedAt(instructions, at + 1, register) <=>
            \/ Fixing(instructions[at], register)
            \/ FixedAt(instructions, at, register) /\ ~Unfixing(instructions[at], register)
    BY <1>1, FixedOn
  <2> QED BY <1>3, <1>7, <1>8, <2>1, <2>2, <2>3 DEF CountsDown
<1>11. /\ result.mapping[RRes] \in {mapping[RRes], Unmapped, 0}
       /\ \A register \in UserRegisters :
            mapping[register] # Unmapped \/ UsesOf(instruction, register) = 0 =>
                result.mapping[register] \in {mapping[register], Unmapped}
  BY <1>3, <1>4, <1>7, <1>8, Registers DEF CountsDown
<1>12. Advanced(result)
  BY <1>9, <1>10, <1>11 DEF Advanced, instruction
<1>13. modified \in UserRegisters => acquired.mapping[modified] # Unmapped
  <2>1. modified \in UserRegisters => acquired.uses[modified] # 0
    BY <1>2, CurrentAllocation, AcquireSound DEF modified, instruction
  <2> QED BY <1>2a, <2>1 DEF Needed
<1> QED BY <1>2, <1>3, <1>7, <1>8, <1>12, <1>13 DEF CountsDown, modified, instruction

\* What has changed when the result of a function has been stored or tested:
\* the result register is mapped in between, and has the uses it had before.
Resumes(state, instruction, returned, resumed, tested) ==
    /\ state.failure # "none" => tested.failure = state.failure
    /\ tested.failure = "none" =>
        /\ tested.uses = state.uses /\ tested.fixes = state.fixes
        /\ \A register \in UserRegisters \ {RRes} :
                /\ returned.mapping[register] = state.mapping[register]
                /\ resumed.mapping[register] = state.mapping[register]
                /\ tested.mapping[register] = state.mapping[register]
        /\ returned.mapping[RRes] = 0
        /\ resumed.mapping[RRes] \in {0, Unmapped}
        /\ tested.mapping[RRes] \in {resumed.mapping[RRes], Unmapped}
        /\ IsBranch(instruction) => state.uses[RRes] = 0
    /\ state.failure = "none" /\ ~IsBranch(instruction) => tested.failure \in Passing

\* What has changed when the result register can be used again.
LEMMA ResumedEffect ==
    ASSUME Flawless, NEW state \in States, Sound(state), state.failure = "none" => state.fixes[RRes] = 0,
           NEW instruction,
           NEW returned, returned = Returned(state),
           NEW resumed, resumed = Resumed(state, instruction),
           NEW tested, tested = Tested(resumed, instruction)
    PROVE  tested \in States /\ Sound(tested) /\ Resumes(state, instruction, returned, resumed, tested)
<1> DEFINE used == state.uses[RRes]
           released == Release(state, RRes, used)
           next == [returned EXCEPT !.mapping[RRes] = Unmapped]
           unmapped == After(returned, next)
           stored == IF IsBranch(instruction)
                     THEN IF used = 0 THEN returned ELSE Fail(returned, "assertion")
                     ELSE unmapped
<1>1. RRes \in UserRegisters /\ used \in Nat
  BY Registers DEF States
<1>2. released \in States /\ Sound(released)
  BY <1>1, ReleaseTyped, ReleaseSound
<1>3. /\ state.failure # "none" => released.failure = state.failure
      /\ released.failure = "none" =>
           /\ state.failure = "none" /\ released.fixes = state.fixes
           /\ Unaffected(state, released, RRes)
           /\ released.uses[RRes] = 0
           /\ released.mapping[RRes] = Unmapped
      /\ state.failure = "none" => released.failure = "none"
  <2>1. /\ state.failure # "none" => released.failure = state.failure
        /\ released.failure = "none" =>
             /\ state.failure = "none"
             /\ released.fixes = state.fixes
             /\ Unaffected(state, released, RRes)
             /\ RRes \in UserRegisters =>
                 /\ state.uses[RRes] = 0 => released.uses[RRes] = 0
                 /\ state.uses[RRes] # 0 => released.uses[RRes] = state.uses[RRes] - used
                 /\ released.mapping[RRes] \in {state.mapping[RRes], Unmapped}
        /\ /\ state.failure = "none"
           /\ RRes \in UserRegisters /\ state.uses[RRes] # 0 /\ used # 0 =>
                    used <= state.uses[RRes] /\ state.mapping[RRes] # Unmapped
           => released.failure = "none"
    BY <1>1, ReleaseEffect
  <2>2. released.failure = "none" => released.uses[RRes] = 0
    BY <1>1, <2>1
  <2>3. released.failure = "none" => released.mapping[RRes] = Unmapped
    <3>1. released.failure = "none" => Needed(released.uses, released.fixes, released.mapping)
      BY <1>2, SoundNeeded
    <3> QED BY <1>1, <2>1, <2>2, <3>1 DEF Needed
  <2>4. state.failure = "none" => released.failure = "none"
    <3>1. state.failure = "none" => Needed(state.uses, state.fixes, state.mapping)
      BY SoundNeeded
    <3> QED BY <1>1, <2>1, <3>1 DEF Needed
  <2> QED BY <2>1, <2>2, <2>3, <2>4
<1>4. returned = Map(released, RRes) /\ returned \in States
  BY ReturnedTyped DEF Returned
<1> HIDE DEF released
<1>5. /\ released.failure # "none" => returned.failure = released.failure
      /\ returned.failure = "none" =>
           /\ released.failure = "none"
           /\ returned.uses = released.uses
           /\ returned.fixes = released.fixes
           /\ Unaffected(released, returned, RRes)
           /\ returned.mapping[RRes] = 0
      /\ released.failure = "none" => returned.failure \in Passing
  BY <1>1, <1>2, <1>3, <1>4, MapEffect
<1>6. /\ unmapped \in States /\ unmapped.uses = returned.uses /\ unmapped.fixes = returned.fixes
      /\ unmapped.failure = returned.failure
      /\ unmapped.failure = "none" => unmapped.mapping[RRes] = Unmapped
      /\ \A register \in UserRegisters \ {RRes} : unmapped.mapping[register] = returned.mapping[register]
  <2>1. /\ next \in States /\ next.uses = returned.uses /\ next.fixes = returned.fixes
        /\ next.failure = returned.failure
        /\ next.mapping[RRes] = Unmapped
        /\ \A register \in UserRegisters \ {RRes} : next.mapping[register] = returned.mapping[register]
    BY <1>1, <1>4 DEF States
  <2> HIDE DEF next
  <2> QED BY <1>4, <2>1 DEF After
<1>7. resumed = IF used = 0 THEN stored ELSE AcquireFor(stored, RRes, used)
  BY DEF Resumed
<1>8. resumed \in States /\ tested \in States /\ Sound(tested)
  BY ResumedTyped, TestedTyped, FinishedSound
<1> HIDE DEF unmapped
<1>9. /\ returned.failure # "none" => Fail(returned, "assertion").failure = returned.failure
      /\ Fail(returned, "assertion").failure # "none"
      /\ Fail(returned, "assertion") \in States
  BY <1>4, FailKeeps, FailTyped DEF Failures
<1>10. /\ returned.failure = "none" =>
            /\ returned.uses[RRes] = 0 /\ returned.fixes = state.fixes
            /\ Unaffected(state, returned, RRes)
       /\ state.failure # "none" => returned.failure = state.failure
       /\ state.failure = "none" => returned.failure \in Passing
  BY <1>3, <1>5 DEF Unaffected
<1>11. returned.failure = "none" /\ used = 0 => returned.uses = state.uses
  <2> SUFFICES ASSUME returned.failure = "none", used = 0 PROVE returned.uses = state.uses
    OBVIOUS
  <2>1. \A register \in UserRegisters : returned.uses[register] = state.uses[register]
    BY <1>10 DEF Unaffected
  <2> QED BY <1>4, <2>1 DEF States
<1>12. CASE IsBranch(instruction) /\ used = 0
  <2>1. resumed = returned /\ tested = unmapped
    BY <1>7, <1>12 DEF Tested, unmapped
  <2> HIDE DEF used
  <2> QED BY <1>5, <1>6, <1>8, <1>10, <1>11, <1>12, <2>1 DEF Unaffected, used, Resumes
<1>13. CASE IsBranch(instruction) /\ used # 0
  <2> DEFINE failed == Fail(returned, "assertion")
  <2>1. resumed = AcquireFor(failed, RRes, used) /\ tested.failure = resumed.failure
    <3>1. resumed = AcquireFor(failed, RRes, used)
      BY <1>7, <1>13
    <3>2. tested \in {resumed, [resumed EXCEPT !.mapping[RRes] = Unmapped]}
      BY <1>13 DEF Tested, After
    <3> QED BY <1>8, <3>1, <3>2 DEF States
  <2> HIDE DEF failed, used
  <2>2. failed.failure # "none" => resumed.failure = failed.failure
    BY <1>1, <1>9, <2>1, AcquireForEffect DEF failed
  <2> QED BY <1>8, <1>9, <1>10, <1>13, <2>1, <2>2 DEF failed, Resumes
<1>14. CASE ~IsBranch(instruction) /\ used = 0
  <2>1. resumed = unmapped /\ tested = unmapped
    BY <1>7, <1>14 DEF Tested
  <2> HIDE DEF used
  <2> QED BY <1>5, <1>6, <1>8, <1>10, <1>11, <1>14, <2>1 DEF Unaffected, Resumes
<1>15. CASE ~IsBranch(instruction) /\ used # 0
  <2>1. resumed = AcquireFor(unmapped, RRes, used) /\ tested = resumed
    BY <1>7, <1>15 DEF Tested
  <2> HIDE DEF used, stored
  <2>2. /\ unmapped.failure # "none" => resumed.failure = unmapped.failure
        /\ resumed.failure = "none" =>
             /\ unmapped.failure = "none"
             /\ resumed.fixes = unmapped.fixes
             /\ Unaffected(unmapped, resumed, RRes)
             /\ unmapped.uses[RRes] = 0 => resumed.uses[RRes] = used
             /\ unmapped.uses[RRes] = 0 /\ unmapped.fixes[RRes] = 0 => resumed.mapping[RRes] = 0
        /\ /\ unmapped.failure = "none" /\ used # 0
           /\ unmapped.uses[RRes] = 0 /\ unmapped.fixes[RRes] = 0 => unmapped.mapping[RRes] = Unmapped
           => resumed.failure \in Passing
    BY <1>1, <1>6, <2>1, AcquireForEffect
  <2>3. resumed.failure = "none" => resumed.uses = state.uses
    <3> SUFFICES ASSUME resumed.failure = "none" PROVE resumed.uses = state.uses
      OBVIOUS
    <3>1. \A register \in UserRegisters : resumed.uses[register] = state.uses[register]
      BY <1>6, <1>10, <2>2 DEF Unaffected, used
    <3> QED BY <1>8, <3>1 DEF States
  <2>4. resumed.failure = "none" =>
            /\ resumed.fixes = state.fixes
            /\ resumed.mapping[RRes] = 0
            /\ \A register \in UserRegisters \ {RRes} :
                /\ returned.mapping[register] = state.mapping[register]
                /\ resumed.mapping[register] = state.mapping[register]
    BY <1>6, <1>10, <2>2 DEF Unaffected
  <2>5. state.failure # "none" => resumed.failure = state.failure
    BY <1>6, <1>10, <2>2
  <2>6. state.failure = "none" => resumed.failure \in Passing
    <3>1. CASE returned.failure = "none"
      BY <1>6, <1>10, <1>15, <2>2, <3>1
    <3>2. CASE returned.failure # "none"
      BY <1>6, <1>10, <2>2, <3>2
    <3> QED BY <3>1, <3>2
  <2>7. resumed.failure = "none" => returned.mapping[RRes] = 0
    BY <1>5, <1>6, <2>2
  <2> QED BY <1>8, <1>15, <2>1, <2>3, <2>4, <2>5, <2>6, <2>7 DEF Resumes
<1> QED BY <1>12, <1>13, <1>14, <1>15 DEF Resumes

\* The uses of an instruction that is no call.
LEMMA UsesReferred ==
    ASSUME NEW instruction, instruction.mnemonic # "CALL", NEW register
    PROVE  /\ UsesOf(instruction, register) =
                Refers(instruction.operand1, register) + Refers(instruction.operand2, register)
                + Refers(instruction.operand3, register)
           /\ \A operand : Refers(operand, register) \in {0, 1}
BY DEF UsesOf, Refers

\* What has changed when one use of the register of an operand was released.
UsesRefer(state, operand, result) ==
    /\ result.failure = "none"
    /\ result.fixes = state.fixes
    /\ \A register \in UserRegisters :
        /\ state.uses[register] = 0 => result.uses[register] = 0
        /\ state.uses[register] # 0 =>
                result.uses[register] = state.uses[register] - Refers(operand, register)
        /\ result.mapping[register] \in {state.mapping[register], Unmapped}

\* Releasing an operand counts down one use of its register.
LEMMA OperandReleased ==
    ASSUME Flawless, NEW state \in States, Sound(state), state.failure = "none", NEW operand,
           NEW result, result = Release(state, operand.register, 1)
    PROVE  UsesRefer(state, operand, result)
<1> DEFINE some == operand.register
<1>1. some \in UserRegisters => state.uses[some] \in Nat
  BY DEF States
<1>2. /\ result.failure = "none" =>
           /\ result.fixes = state.fixes
           /\ Unaffected(state, result, some)
           /\ some \in UserRegisters =>
               /\ state.uses[some] = 0 => result.uses[some] = 0
               /\ state.uses[some] # 0 => result.uses[some] = state.uses[some] - 1
               /\ result.mapping[some] \in {state.mapping[some], Unmapped}
      /\ (some \in UserRegisters /\ state.uses[some] # 0 =>
                1 <= state.uses[some] /\ state.mapping[some] # Unmapped)
         => result.failure = "none"
  BY ReleaseEffect
<1>3. result.failure = "none"
  <2>1. Needed(state.uses, state.fixes, state.mapping)
    BY SoundNeeded
  <2> QED BY <1>1, <1>2, <2>1 DEF Needed
<1>4. \A register \in UserRegisters : state.uses[register] \in Nat
  BY DEF States
<1> QED BY <1>2, <1>3, <1>4 DEF Refers, Unaffected, UsesRefer

\* The arguments of a function are released before its target is acquired.
LEMMA CalledEffect ==
    ASSUME Generating, instructions[position].mnemonic \notin {"FIX", "UNFIX", "CALL"},
           RuntimeRight(instructions, position),
           NEW acquired, acquired = Called(Current, instructions[position])
    PROVE  /\ acquired \in States /\ Sound(acquired)
           /\ acquired.failure = "none" =>
                /\ acquired.fixes = fixes
                /\ acquired.mapping[RRes] \in {mapping[RRes], Unmapped, 0}
                /\ \A register \in UserRegisters :
                    /\ uses[register] # 0 =>
                        acquired.uses[register] = uses[register]
                            - Refers(instructions[position].operand2, register)
                            - Refers(instructions[position].operand3, register)
                    /\ uses[register] = 0 /\ register # ModifiedRegister(instructions[position]) =>
                        acquired.uses[register] = 0
                    /\ uses[register] = 0 /\ register = ModifiedRegister(instructions[position]) =>
                        /\ acquired.uses[register] = UsesOf(instructions[position], register)
                                                     + AheadAt(instructions, register, position + 1, 0)
                        /\ Refers(instructions[position].operand2, register) = 0
                        /\ Refers(instructions[position].operand3, register) = 0
                    /\ register = ModifiedRegister(instructions[position]) =>
                        acquired.mapping[register] # Unmapped
                    /\ mapping[register] # Unmapped \/ register # ModifiedRegister(instructions[position]) =>
                        acquired.mapping[register] \in {mapping[register], Unmapped}
           /\ (\A register \in UserRegisters : Needs(instructions[position], register) /\ register # RRes =>
                    ModifiedBefore(instructions, position, register)) => acquired.failure \in Passing
<1> DEFINE at == position
           instruction == instructions[at]
           modified == ModifiedRegister(instruction)
           checked == Check(Current, Arguments(instruction))
           first == Release(checked, instruction.operand2.register, 1)
           released == Release(first, instruction.operand3.register, 1)
<1>0. Flawless
  BY DEF Generating
<1>1. /\ at \in 1 .. Len(instructions) /\ at \in Nat \ {0} /\ Len(instructions) \in Nat
      /\ at + 1 \in 1 .. Len(instructions) + 1
  BY CurrentAllocation DEF Generating
<1>2. /\ Current \in States /\ Sound(Current) /\ Current.failure = "none"
      /\ Current.uses = uses /\ Current.fixes = fixes /\ Current.mapping = mapping
  BY CurrentAllocation
<1>3. \A register \in UserRegisters :
        /\ uses[register] \in Nat /\ UsesOf(instruction, register) \in Nat
        /\ CountedAt(instructions, at, register, uses[register])
        /\ register = modified => UsesOf(instruction, register) # 0
        /\ fixes[register] = 0
        /\ mapping[register] # Unmapped <=> uses[register] # 0
  BY <1>1, CurrentAllocation, UsesOfTyped, ModifyingUses DEF Generating, Tracked, RuntimeRight
<1>4. /\ checked \in States /\ Sound(checked) /\ first \in States /\ Sound(first)
      /\ released \in States /\ Sound(released) /\ acquired \in States /\ Sound(acquired)
  <2>1. checked \in States /\ Sound(checked)
    BY <1>2, CheckTyped, CheckSound
  <2> HIDE DEF checked
  <2>2. first \in States /\ Sound(first)
    BY <2>1, ReleaseTyped, ReleaseSound
  <2> HIDE DEF first
  <2>3. released \in States /\ Sound(released)
    BY <2>2, ReleaseTyped, ReleaseSound
  <2>4. acquired \in States /\ Sound(acquired)
    BY <1>1, <1>2, CalledTyped, CalledSound
  <2> QED BY <2>1, <2>2, <2>3, <2>4 DEF first
<1>5. acquired = IF modified = RVoid THEN released ELSE Acquire(released, modified, at)
  BY DEF Called
<1>6. /\ checked.failure = "none" =>
            /\ checked = Current
            /\ \A operand \in Arguments(instruction) :
                    HasRegister(operand) /\ IsGeneral(operand.register) => uses[operand.register] # 0
      /\ (\A operand \in Arguments(instruction) :
                    HasRegister(operand) /\ IsGeneral(operand.register) => uses[operand.register] # 0)
            => checked = Current
  BY <1>2, CheckEffect
<1>7. /\ instruction.operand2 \in Arguments(instruction) /\ instruction.operand3 \in Arguments(instruction)
      /\ \A operand \in Arguments(instruction) : \A register \in UserRegisters :
            operand.register = register => Needs(instruction, register)
  <2> SUFFICES ASSUME NEW operand \in Arguments(instruction), operand.register \in UserRegisters
               PROVE  Needs(instruction, operand.register)
    BY DEF Arguments
  <2>1. CASE operand \in {instruction.operand2, instruction.operand3}
    BY <2>1 DEF Needs
  <2>2. CASE operand = instruction.operand1 /\ ~IsModifying(instruction)
    <3>1. ModifiedRegister(instruction) # operand.register
      BY <2>2, UserRegister DEF ModifiedRegister
    <3>2. UsesOf(instruction, operand.register) # 0
      BY <2>2, UsesReferred DEF Refers
    <3> QED BY <3>1, <3>2 DEF Needs
  <2> QED BY <2>1, <2>2 DEF Arguments
<1>8. (\A register \in UserRegisters : Needs(instruction, register) /\ register # RRes =>
                    ModifiedBefore(instructions, at, register)) => checked = Current
  <2> SUFFICES ASSUME \A register \in UserRegisters : Needs(instruction, register) /\ register # RRes =>
                            ModifiedBefore(instructions, at, register),
                      NEW operand \in Arguments(instruction), IsGeneral(operand.register)
               PROVE  uses[operand.register] # 0
    BY <1>6
  <2>1. operand.register \in UserRegisters /\ operand.register # RRes
    BY OperandsAssumption DEF IsGeneral, UserRegisters, IsUser, RRes, RVoid
  <2> QED BY <1>1, <1>3, <1>7, <2>1, NeededUsed
<1> HIDE DEF checked
<1>9. /\ checked.failure # "none" => first.failure = checked.failure
      /\ checked.failure = "none" =>
            /\ first.failure = "none" /\ first.fixes = fixes
            /\ \A register \in UserRegisters :
                /\ uses[register] = 0 => first.uses[register] = 0
                /\ uses[register] # 0 =>
                        first.uses[register] = uses[register] - Refers(instruction.operand2, register)
                /\ first.mapping[register] \in {mapping[register], Unmapped}
  <2>1. checked.failure # "none" => first.failure = checked.failure
    BY <1>4, ReleaseEffect
  <2>2. CASE checked.failure = "none"
    <3>1. UsesRefer(checked, instruction.operand2, first)
      BY <1>4, <1>0, <2>2, OperandReleased
    <3>2. checked.uses = uses /\ checked.fixes = fixes /\ checked.mapping = mapping
      BY <1>2, <1>6, <2>2
    <3> HIDE DEF first
    <3> QED BY <2>2, <3>1, <3>2 DEF UsesRefer
  <2> QED BY <2>1, <2>2
<1> HIDE DEF first
<1>10. /\ first.failure # "none" => released.failure = first.failure
       /\ first.failure = "none" =>
            /\ released.failure = "none" /\ released.fixes = first.fixes
            /\ \A register \in UserRegisters :
                /\ first.uses[register] = 0 => released.uses[register] = 0
                /\ first.uses[register] # 0 =>
                        released.uses[register] = first.uses[register] - Refers(instruction.operand3, register)
                /\ released.mapping[register] \in {first.mapping[register], Unmapped}
  <2>1. first.failure # "none" => released.failure = first.failure
    BY <1>4, ReleaseEffect
  <2>2. CASE first.failure = "none"
    <3>1. UsesRefer(first, instruction.operand3, released)
      BY <1>4, <1>0, <2>2, OperandReleased
    <3> HIDE DEF released
    <3> QED BY <2>2, <3>1 DEF UsesRefer
  <2> QED BY <2>1, <2>2
<1> HIDE DEF released
\* What is left of the uses after the arguments.
<1>11. ASSUME checked.failure = "none", NEW register \in UserRegisters
       PROVE  /\ uses[register] = 0 => released.uses[register] = 0
              /\ uses[register] # 0 =>
                   released.uses[register] = uses[register] - Refers(instruction.operand2, register)
                                                            - Refers(instruction.operand3, register)
              /\ uses[register] # 0 /\ register = modified => released.uses[register] # 0
              /\ released.mapping[register] \in {mapping[register], Unmapped}
              /\ released.fixes[register] = 0
              /\ released.mapping[register] # Unmapped <=> released.uses[register] # 0
  <2>1. /\ UsesOf(instruction, register) = Refers(instruction.operand1, register)
                + Refers(instruction.operand2, register) + Refers(instruction.operand3, register)
        /\ Refers(instruction.operand1, register) \in {0, 1}
        /\ Refers(instruction.operand2, register) \in {0, 1}
        /\ Refers(instruction.operand3, register) \in {0, 1}
    BY UsesReferred
  <2>2. uses[register] # 0 => UsesOf(instruction, register) <= uses[register]
    BY <1>1, <1>3, UsedEnough
  <2>3. register = modified => Refers(instruction.operand1, register) = 1
    BY UserRegister DEF ModifiedRegister, Refers
  <2>4. uses[register] # 0 =>
            released.uses[register] = uses[register] - Refers(instruction.operand2, register)
                                                     - Refers(instruction.operand3, register)
    <3> SUFFICES ASSUME uses[register] # 0
                 PROVE  released.uses[register] = uses[register] - Refers(instruction.operand2, register)
                                                     - Refers(instruction.operand3, register)
      OBVIOUS
    <3>1. first.uses[register] = uses[register] - Refers(instruction.operand2, register)
      BY <1>9, <1>11
    <3>2. CASE first.uses[register] = 0
      <4>1. released.uses[register] = 0
        BY <1>9, <1>10, <1>11, <3>2
      <4> QED BY <1>3, <2>1, <2>2, <3>1, <3>2, <4>1
    <3>3. CASE first.uses[register] # 0
      BY <1>9, <1>10, <1>11, <3>1, <3>3
    <3> QED BY <3>2, <3>3
  <2>5. uses[register] = 0 => released.uses[register] = 0
    BY <1>9, <1>10, <1>11
  <2>6. released.mapping[register] \in {mapping[register], Unmapped} /\ released.fixes[register] = 0
    BY <1>3, <1>9, <1>10, <1>11
  <2>7. released.mapping[register] # Unmapped <=> released.uses[register] # 0
    <3>1. Needed(released.uses, released.fixes, released.mapping)
      BY <1>4, <1>9, <1>10, <1>11, <1>0, SoundNeeded
    <3> QED BY <2>6, <3>1 DEF Needed
  <2>8. uses[register] # 0 /\ register = modified => released.uses[register] # 0
    BY <1>3, <2>1, <2>2, <2>3, <2>4
  <2> QED BY <2>4, <2>5, <2>6, <2>7, <2>8
\* A target that is not in use is no argument.
<1>12. ASSUME checked.failure = "none", modified \in UserRegisters, uses[modified] = 0
       PROVE  /\ Refers(instruction.operand2, modified) = 0
              /\ Refers(instruction.operand3, modified) = 0
              /\ UsesOf(instruction, modified) = 1
  <2>1. modified \notin {instruction.operand2.register, instruction.operand3.register}
    <3> SUFFICES ASSUME modified \in {instruction.operand2.register, instruction.operand3.register}
                 PROVE  FALSE
      OBVIOUS
    <3>1. Needs(instruction, modified)
      BY DEF Needs
    <3>2. CASE modified = RRes
      <4>1. ModifiedBefore(instructions, at, modified)
        BY <3>2 DEF RuntimeRight
      <4> QED BY <1>1, <1>3, <1>12, <3>1, <4>1, NeededUsed
    <3>3. CASE modified # RRes
      <4>1. IsGeneral(modified) /\ modified # RVoid
        BY <1>12, <3>3, UserRegister, OperandsAssumption DEF IsGeneral, RRes
      <4>2. PICK operand \in Arguments(instruction) : operand.register = modified
        BY <1>7
      <4> QED BY <1>6, <1>12, <4>1, <4>2 DEF HasRegister
    <3> QED BY <3>2, <3>3
  <2>2. Refers(instruction.operand1, modified) = 1
    BY <1>12, UserRegister DEF ModifiedRegister, Refers
  <2> QED BY <2>1, <2>2, UsesReferred DEF Refers
<1>13. /\ released.failure # "none" => acquired.failure # "none"
       /\ released.failure = "none" =>
            /\ first.failure = "none" /\ checked.failure = "none"
       /\ checked.failure = "none" => released.failure = "none"
  <2>1. released.failure # "none" => acquired.failure # "none"
    BY <1>4, <1>5, AcquireSound
  <2> QED BY <1>9, <1>10, <2>1
<1> HIDE DEF modified, instruction
<1>14. ASSUME acquired.failure = "none"
       PROVE  /\ acquired.fixes = released.fixes
              /\ acquired.mapping[RRes] \in {released.mapping[RRes], 0}
              /\ \A register \in UserRegisters :
                    /\ released.uses[register] # 0 \/ register # modified =>
                            acquired.uses[register] = released.uses[register]
                    /\ released.uses[register] = 0 /\ register = modified =>
                            acquired.uses[register] = UsesOf(instruction, register)
                                                   + AheadAt(instructions, register, at + 1, 0)
                    /\ released.mapping[register] # Unmapped \/ register # modified =>
                            acquired.mapping[register] = released.mapping[register]
  <2>1. CASE modified = RVoid
    BY <1>5, <2>1, UserRegister
  <2>2. CASE modified # RVoid
    BY <1>4, <1>5, <1>13, <1>14, <2>2, ModifiedAcquired DEF instruction
  <2> QED BY <2>1, <2>2
<1>15. ASSUME acquired.failure = "none", NEW register \in UserRegisters
       PROVE  /\ uses[register] # 0 =>
                    acquired.uses[register] = uses[register] - Refers(instruction.operand2, register)
                                                             - Refers(instruction.operand3, register)
              /\ uses[register] = 0 /\ register # modified => acquired.uses[register] = 0
              /\ uses[register] = 0 /\ register = modified =>
                    /\ acquired.uses[register] = UsesOf(instruction, register)
                                                 + AheadAt(instructions, register, at + 1, 0)
                    /\ Refers(instruction.operand2, register) = 0
                    /\ Refers(instruction.operand3, register) = 0
              /\ register = modified => acquired.mapping[register] # Unmapped
              /\ mapping[register] # Unmapped \/ register # modified =>
                    acquired.mapping[register] \in {mapping[register], Unmapped}
  <2>0. checked.failure = "none"
    BY <1>13, <1>15
  <2>1. uses[register] # 0 =>
            acquired.uses[register] = uses[register] - Refers(instruction.operand2, register)
                                                     - Refers(instruction.operand3, register)
    BY <1>11, <1>14, <1>15, <2>0
  <2>2. uses[register] = 0 /\ register # modified => acquired.uses[register] = 0
    BY <1>11, <1>14, <1>15, <2>0
  <2>3. uses[register] = 0 /\ register = modified =>
            /\ acquired.uses[register] = UsesOf(instruction, register)
                                         + AheadAt(instructions, register, at + 1, 0)
            /\ Refers(instruction.operand2, register) = 0
            /\ Refers(instruction.operand3, register) = 0
    BY <1>11, <1>12, <1>14, <1>15, <2>0
  <2>4. register = modified => acquired.mapping[register] # Unmapped
    <3>1. register = modified => acquired.uses[register] # 0
      BY <1>4, <1>5, <1>15, UserRegister, AcquireSound
    <3>2. Needed(acquired.uses, acquired.fixes, acquired.mapping)
      BY <1>4, <1>15, <1>0, SoundNeeded
    <3> QED BY <3>1, <3>2 DEF Needed
  <2>5. mapping[register] # Unmapped \/ register # modified =>
            acquired.mapping[register] \in {mapping[register], Unmapped}
    BY <1>3, <1>11, <1>14, <1>15, <2>0
  <2> QED BY <2>1, <2>2, <2>3, <2>4, <2>5
<1>16. acquired.failure = "none" =>
            /\ acquired.fixes = fixes
            /\ acquired.mapping[RRes] \in {mapping[RRes], Unmapped, 0}
  BY <1>9, <1>10, <1>11, <1>13, <1>14, Registers
<1>17. ASSUME checked = Current
       PROVE  acquired.failure \in Passing
  <2>0. checked.failure = "none"
    BY <1>2, <1>17
  <2>1. CASE modified = RVoid
    BY <1>5, <1>13, <2>0, <2>1 DEF Passing
  <2>2. CASE modified # RVoid /\ modified \notin UserRegisters
    <3>1. acquired = released
      BY <1>5, <2>2, Registers DEF Acquire
    <3> QED BY <1>13, <2>0, <3>1 DEF Passing
  <2>3. CASE modified \in UserRegisters
    <3>1. released.uses[modified] = 0 =>
            /\ UsesOf(instruction, modified) # 0
            /\ released.mapping[modified] = Unmapped
            /\ ~(UsesOf(instruction, modified) > 1)
      BY <1>3, <1>11, <1>12, <2>0, <2>3
    <3>2. acquired = Acquire(released, modified, at) /\ released.failure = "none"
      BY <1>5, <1>13, <2>0, <2>3, UserRegister
    <3>3. instruction = instructions[at]
      BY DEF instruction
    <3> QED BY <1>1, <1>4, <2>3, <3>1, <3>2, <3>3, AcquireEffect
  <2> QED BY <2>1, <2>2, <2>3
<1> QED BY <1>4, <1>8, <1>15, <1>16, <1>17 DEF modified, instruction

\* What calling a function of the runtime library does to the allocation: it
\* keeps the mapping of the registers that are saved.
Calls(returned, resumed, result) ==
    LET instruction == instructions[position]
        modified == ModifiedRegister(instruction)
    IN  /\ Advanced(result)
        /\ result \in States /\ Apart(resumed.mapping)
        /\ resumed.mapping[RRes] \in {0, Unmapped}
        /\ \A register \in UserRegisters \ {RRes} :
                /\ resumed.mapping[register] = returned.mapping[register]
                /\ register # modified => resumed.mapping[register] \in {mapping[register], Unmapped}
        /\ modified \in UserRegisters => returned.mapping[modified] \in Physical
        /\ returned.mapping[RRes] = 0
        /\ \A register \in UserRegisters :
                /\ result.mapping[register] \in {resumed.mapping[register], Unmapped}
                /\ result.mapping[register] # Unmapped /\ register # modified =>
                        uses[register] > UsesOf(instruction, register)

\* The steps of calling a function of the runtime library together.
LEMMA RuntimeAdvances ==
    ASSUME Generating, instructions[position].mnemonic \notin {"FIX", "UNFIX", "CALL"},
           RuntimeRight(instructions, position), mapping[RRes] \in {0, Unmapped},
           NEW acquired, acquired = Called(Current, instructions[position]),
           NEW returned, returned = Returned(acquired),
           NEW resumed, resumed = Resumed(acquired, instructions[position]),
           NEW tested, tested = Tested(resumed, instructions[position]),
           NEW result, result = Release(tested, instructions[position].operand1.register, 1)
    PROVE  /\ result.failure = "none" => Calls(returned, resumed, result)
           /\ /\ ~IsBranch(instructions[position])
              /\ \A register \in UserRegisters : Needs(instructions[position], register) /\ register # RRes =>
                    ModifiedBefore(instructions, position, register)
              => result.failure \in Passing
<1> DEFINE at == position
           instruction == instructions[at]
           modified == ModifiedRegister(instruction)
<1>1. /\ at \in 1 .. Len(instructions) /\ at \in Nat \ {0} /\ Len(instructions) \in Nat
      /\ at + 1 \in 1 .. Len(instructions) + 1
  BY CurrentAllocation DEF Generating
<1>2. \A register \in UserRegisters :
        /\ uses[register] \in Nat /\ UsesOf(instruction, register) \in Nat
        /\ AheadAt(instructions, register, at + 1, 0) \in Nat
        /\ CountedAt(instructions, at, register, uses[register])
        /\ register = modified => UsesOf(instruction, register) # 0
        /\ fixes[register] = 0
        /\ ~FixedAt(instructions, at, register)
        /\ mapping[register] # Unmapped <=> uses[register] # 0
  BY <1>1, CurrentAllocation, UsesOfTyped, AheadNatural, ModifyingUses DEF Generating, Tracked, RuntimeRight
<1>3. /\ acquired \in States /\ Sound(acquired)
      /\ acquired.failure = "none" =>
           /\ acquired.fixes = fixes
           /\ acquired.mapping[RRes] \in {mapping[RRes], Unmapped, 0}
           /\ \A register \in UserRegisters :
               /\ uses[register] # 0 =>
                   acquired.uses[register] = uses[register] - Refers(instruction.operand2, register)
                                                            - Refers(instruction.operand3, register)
               /\ uses[register] = 0 /\ register # modified => acquired.uses[register] = 0
               /\ uses[register] = 0 /\ register = modified =>
                   /\ acquired.uses[register] = UsesOf(instruction, register)
                                                + AheadAt(instructions, register, at + 1, 0)
                   /\ Refers(instruction.operand2, register) = 0
                   /\ Refers(instruction.operand3, register) = 0
               /\ register = modified => acquired.mapping[register] # Unmapped
               /\ mapping[register] # Unmapped \/ register # modified =>
                   acquired.mapping[register] \in {mapping[register], Unmapped}
      /\ (\A register \in UserRegisters : Needs(instruction, register) /\ register # RRes =>
                    ModifiedBefore(instructions, at, register)) => acquired.failure \in Passing
  BY CalledEffect
<1>4. \A register \in UserRegisters :
        /\ UsesOf(instruction, register) = Refers(instruction.operand1, register)
                + Refers(instruction.operand2, register) + Refers(instruction.operand3, register)
        /\ Refers(instruction.operand1, register) \in {0, 1}
        /\ Refers(instruction.operand2, register) \in {0, 1}
        /\ Refers(instruction.operand3, register) \in {0, 1}
        /\ register = modified => Refers(instruction.operand1, register) = 1
  BY UsesReferred, UserRegister DEF ModifiedRegister, Refers
<1>5. \A register \in UserRegisters : ~Fixing(instruction, register) /\ ~Unfixing(instruction, register)
  BY DEF Fixing, Unfixing
<1> HIDE DEF instruction, modified
<1>6. /\ tested \in States /\ Sound(tested)
      /\ acquired.failure # "none" => tested.failure = acquired.failure
      /\ acquired.failure = "none" => acquired.fixes[RRes] = 0
      /\ tested.failure = "none" =>
           /\ tested.uses = acquired.uses /\ tested.fixes = acquired.fixes
           /\ \A register \in UserRegisters \ {RRes} :
                   /\ returned.mapping[register] = acquired.mapping[register]
                   /\ resumed.mapping[register] = acquired.mapping[register]
                   /\ tested.mapping[register] = acquired.mapping[register]
           /\ returned.mapping[RRes] = 0
           /\ resumed.mapping[RRes] \in {0, Unmapped}
           /\ tested.mapping[RRes] \in {resumed.mapping[RRes], Unmapped}
      /\ acquired.failure = "none" /\ ~IsBranch(instruction) => tested.failure \in Passing
  <2>1. acquired.failure = "none" => acquired.fixes[RRes] = 0
    BY <1>2, <1>3, Registers
  <2>2. tested \in States /\ Sound(tested) /\ Resumes(acquired, instruction, returned, resumed, tested)
    BY <1>3, <2>1, ResumedEffect DEF instruction, Generating
  <2> QED BY <2>1, <2>2 DEF Resumes
<1>7. /\ result \in States /\ Sound(result)
      /\ tested.failure # "none" => result.failure = tested.failure
      /\ tested.failure = "none" => UsesRefer(tested, instruction.operand1, result)
  <2>1. result \in States /\ Sound(result)
    BY <1>6, ReleaseTyped, ReleaseSound DEF instruction
  <2>2. tested.failure # "none" => result.failure = tested.failure
    BY <1>6, ReleaseEffect DEF instruction
  <2>3. tested.failure = "none" => UsesRefer(tested, instruction.operand1, result)
    BY <1>6, OperandReleased DEF instruction, Generating
  <2> QED BY <2>1, <2>2, <2>3
<1>8. result.failure = "none" =>
        /\ tested.failure = "none" /\ acquired.failure = "none"
        /\ UsesRefer(tested, instruction.operand1, result)
  BY <1>6, <1>7
<1>9. ASSUME result.failure = "none", NEW register \in UserRegisters
      PROVE  /\ uses[register] # 0 =>
                    /\ UsesOf(instruction, register) <= uses[register]
                    /\ result.uses[register] = uses[register] - UsesOf(instruction, register)
             /\ uses[register] = 0 /\ register # modified => result.uses[register] = 0
             /\ uses[register] = 0 /\ register = modified =>
                    result.uses[register] = AheadAt(instructions, register, at + 1, 0)
  <2> DEFINE own == UsesOf(instruction, register)
             r1 == Refers(instruction.operand1, register)
             r2 == Refers(instruction.operand2, register)
             r3 == Refers(instruction.operand3, register)
             before == uses[register]
             called == acquired.uses[register]
             after == result.uses[register]
  <2>1. /\ own = r1 + r2 + r3 /\ r1 \in {0, 1} /\ r2 \in {0, 1} /\ r3 \in {0, 1} /\ before \in Nat
        /\ register = modified => r1 = 1
    BY <1>2, <1>4
  <2>2. (called = 0 => after = 0) /\ (called # 0 => after = called - r1)
    BY <1>6, <1>8, <1>9 DEF UsesRefer
  <2>3. before # 0 => own <= before
    <3>1. instructions[at] = instruction
      BY DEF instruction
    <3> QED BY <1>1, <1>2, <3>1, UsedEnough
  <2>4. CASE before # 0
    <3>1. called = before - r2 - r3
      BY <1>3, <1>8, <1>9, <2>4
    <3> HIDE DEF own, r1, r2, r3, before, called, after
    <3>2. before # 0 => own <= before /\ after = before - own
      BY <2>1, <2>2, <2>3, <2>4, <3>1, SMTT(20)
    <3> QED BY <2>4, <3>2 DEF own, before, after
  <2>5. CASE before = 0 /\ register # modified
    <3>1. called = 0
      BY <1>3, <1>8, <1>9, <2>5
    <3> QED BY <2>2, <2>5, <3>1
  <2>6. CASE before = 0 /\ register = modified
    <3> DEFINE ahead == AheadAt(instructions, register, at + 1, 0)
    <3>1. called = own + ahead /\ r2 = 0 /\ r3 = 0 /\ ahead \in Nat
      BY <1>2, <1>3, <1>8, <1>9, <2>6
    <3> HIDE DEF own, r1, r2, r3, called, after, ahead
    <3>2. after = ahead
      BY <2>1, <2>2, <2>6, <3>1
    <3> QED BY <2>6, <3>2 DEF ahead, after
  <2> QED BY <2>4, <2>5, <2>6
<1>10. ASSUME result.failure = "none", NEW register \in UserRegisters
       PROVE  CountedAt(instructions, at + 1, register, result.uses[register])
  <2>1. \/ result.uses[register] = AheadAt(instructions, register, at + 1, 0)
        \/ uses[register] # 0 /\ result.uses[register] = uses[register] - UsesOf(instruction, register)
        \/ uses[register] = 0 /\ result.uses[register] = 0 /\ modified # register
    BY <1>9, <1>10
  <2> QED BY <1>1, <1>2, <2>1, CountedOn DEF instruction, modified
<1>11. ASSUME result.failure = "none", NEW register \in UserRegisters
       PROVE  /\ result.fixes[register] = 0
              /\ result.fixes[register] # 0 <=> FixedAt(instructions, at + 1, register)
  <2>1. result.fixes[register] = 0
    BY <1>2, <1>3, <1>6, <1>8, <1>11 DEF UsesRefer
  <2>2. FixedAt(instructions, at + 1, register) <=>
            \/ Fixing(instructions[at], register)
            \/ FixedAt(instructions, at, register) /\ ~Unfixing(instructions[at], register)
    BY <1>1, FixedOn
  <2> QED BY <1>2, <1>5, <2>1, <2>2 DEF instruction
<1>12. ASSUME result.failure = "none", NEW register \in UserRegisters
       PROVE  /\ result.mapping[register] \in {resumed.mapping[register], Unmapped}
              /\ register = RRes => result.mapping[register] \in {0, Unmapped}
              /\ mapping[register] # Unmapped \/ UsesOf(instruction, register) = 0 =>
                        result.mapping[register] \in {mapping[register], Unmapped}
              /\ register \notin {RRes, modified} => resumed.mapping[register] \in {mapping[register], Unmapped}
              /\ result.mapping[register] # Unmapped /\ register # modified =>
                        uses[register] > UsesOf(instruction, register)
  <2>1. /\ result.mapping[register] \in {tested.mapping[register], Unmapped}
        /\ result.mapping[register] # Unmapped => result.uses[register] # 0
    <3>1. Needed(result.uses, result.fixes, result.mapping)
      BY <1>7, <1>12, SoundNeeded DEF Generating
    <3> QED BY <1>8, <1>11, <1>12, <3>1 DEF UsesRefer, Needed
  <2>2. result.mapping[register] # Unmapped /\ register # modified =>
                uses[register] > UsesOf(instruction, register)
    BY <1>2, <1>9, <1>12, <2>1
  <2>3. CASE register = RRes
    <3>1. UsesOf(instruction, register) = 0 /\ result.mapping[register] # Unmapped =>
                mapping[register] # Unmapped
      BY <1>2, <1>12, <2>2
    <3> QED BY <1>6, <1>8, <1>12, <2>1, <2>2, <2>3, <3>1
  <2>4. CASE register # RRes
    BY <1>2, <1>3, <1>6, <1>8, <1>12, <2>1, <2>2, <2>4
  <2> QED BY <2>3, <2>4
<1>13. result.failure = "none" => Apart(resumed.mapping)
  <2> SUFFICES ASSUME result.failure = "none" PROVE Apart(resumed.mapping)
    OBVIOUS
  <2>1. Apart(tested.mapping)
    BY <1>6 DEF Sound
  <2> QED BY <1>6, <1>8, <2>1, GeneratorAssumption DEF Apart
<1>14. ASSUME result.failure = "none", modified \in UserRegisters
       PROVE  returned.mapping[modified] \in Physical
  <2>1. returned \in States
    BY <1>3, ReturnedTyped
  <2>2. returned.mapping[modified] # Unmapped
    <3>1. CASE modified = RRes
      BY <1>6, <1>8, <1>14, <3>1, GeneratorAssumption
    <3>2. CASE modified # RRes
      BY <1>3, <1>6, <1>8, <1>14, <3>2
    <3> QED BY <3>1, <3>2
  <2> QED BY <1>14, <2>1, <2>2 DEF States
<1>15. ASSUME ~IsBranch(instruction),
              \A register \in UserRegisters : Needs(instruction, register) /\ register # RRes =>
                    ModifiedBefore(instructions, at, register)
       PROVE  result.failure \in Passing
  <2>1. acquired.failure \in Passing
    BY <1>3, <1>15
  <2>2. tested.failure \in Passing
    BY <1>6, <1>15, <2>1
  <2> QED BY <1>7, <2>2 DEF UsesRefer, Passing
<1>16. result.failure = "none" => Calls(returned, resumed, result)
  <2> SUFFICES ASSUME result.failure = "none" PROVE Calls(returned, resumed, result)
    OBVIOUS
  <2>1. Advanced(result)
    BY <1>10, <1>11, <1>12, Registers DEF Advanced, instruction
  <2>2. \A register \in UserRegisters \ {RRes} :
            /\ resumed.mapping[register] = returned.mapping[register]
            /\ register # modified => resumed.mapping[register] \in {mapping[register], Unmapped}
    BY <1>6, <1>8, <1>12
  <2> QED BY <1>6, <1>7, <1>8, <1>12, <1>13, <1>14, <2>1, <2>2 DEF Calls, instruction, modified
<1> QED BY <1>15, <1>16 DEF instruction

\* A general-purpose register is one of the user and not the result register.
LEMMA GeneralRegister ==
    ASSUME NEW register, IsGeneral(register)
    PROVE  register \in UserRegisters /\ register # RRes
BY OperandsAssumption DEF IsGeneral, UserRegisters, IsUser, RRes, RVoid

\* An instruction that is supported passes if what it needs was modified.
LEMMA GeneratePasses ==
    ASSUME Generating,
           \A register \in UserRegisters : Needs(instructions[position], register) /\ register # RRes =>
                ModifiedBefore(instructions, position, register),
           NEW acquired, acquired = Acquire(Current, ModifiedRegister(instructions[position]), position)
    PROVE  Check(acquired, {instructions[position].operand1, instructions[position].operand2,
                            instructions[position].operand3}).failure \in Passing
<1> DEFINE at == position
           instruction == instructions[at]
           modified == ModifiedRegister(instruction)
           checkable == {instruction.operand1, instruction.operand2, instruction.operand3}
<1>1. /\ at \in 1 .. Len(instructions) /\ Len(instructions) \in Nat
      /\ Current \in States /\ Sound(Current) /\ Current.failure = "none"
      /\ Current.uses = uses /\ Current.fixes = fixes /\ Current.mapping = mapping
  BY CurrentAllocation DEF Generating
<1>2. \A register \in UserRegisters :
        Needs(instruction, register) /\ register # RRes => uses[register] # 0
  <2> SUFFICES ASSUME NEW register \in UserRegisters, Needs(instruction, register), register # RRes
               PROVE  uses[register] # 0
    OBVIOUS
  <2>1. /\ CountedAt(instructions, at, register, uses[register]) /\ uses[register] \in Nat
        /\ ModifiedBefore(instructions, at, register)
    BY CurrentAllocation DEF Generating, Tracked
  <2> QED BY <1>1, <2>1, NeededUsed
<1>3. /\ acquired \in States
      /\ modified \in UserRegisters /\ acquired.failure = "none" => acquired.uses[modified] # 0
  BY <1>1, AcquireTyped, AcquireSound
<1>4. acquired.failure \in Passing
  <2>1. CASE modified \notin UserRegisters
    <3>1. acquired = Current
      BY <2>1, Registers DEF Acquire
    <3> QED BY <1>1, <3>1 DEF Passing
  <2>2. CASE modified \in UserRegisters
    <3>1. UsesOf(instructions[at], modified) # 0
      BY <2>2, ModifyingUses
    <3>2. uses[modified] = 0 /\ fixes[modified] = 0 => mapping[modified] = Unmapped
      BY <2>2, CurrentAllocation
    <3>3. \A operand \in {instructions[at].operand2, instructions[at].operand3} :
            HasRegister(operand) /\ IsGeneral(operand.register) => uses[operand.register] # 0
      BY <1>2, GeneralRegister DEF Needs
    <3>4. /\ Current.failure = "none"
          /\ Current.uses[modified] = 0 =>
                /\ UsesOf(instructions[at], modified) # 0
                /\ Current.fixes[modified] = 0 => Current.mapping[modified] = Unmapped
                /\ UsesOf(instructions[at], modified) > 1 =>
                     \A operand \in {instructions[at].operand2, instructions[at].operand3} :
                        HasRegister(operand) /\ IsGeneral(operand.register) => Current.uses[operand.register] # 0
      BY <1>1, <3>1, <3>2, <3>3
    <3> QED BY <1>1, <2>2, <3>4, AcquireEffect
  <2> QED BY <2>1, <2>2
<1>5. CASE acquired.failure = "none"
  <2>1. \A register \in UserRegisters : uses[register] # 0 \/ register # modified =>
            acquired.uses[register] = uses[register]
    BY <1>1, <1>5, ModifiedAcquired
  <2>2. ASSUME NEW operand \in checkable, HasRegister(operand) /\ IsGeneral(operand.register)
        PROVE  acquired.uses[operand.register] # 0
    <3> DEFINE register == operand.register
    <3>1. register \in UserRegisters /\ register # RRes
      BY <2>2, GeneralRegister
    <3>2. CASE register = modified
      BY <1>3, <1>5, <3>1, <3>2
    <3>3. CASE register # modified
      <4>1. Needs(instruction, register)
        <5>1. CASE operand \in {instruction.operand2, instruction.operand3}
          BY <5>1 DEF Needs
        <5>2. CASE operand = instruction.operand1
          <6>1. UsesOf(instruction, register) # 0
            BY <5>2 DEF UsesOf
          <6> QED BY <3>3, <6>1 DEF Needs
        <5> QED BY <2>2, <5>1, <5>2
      <4> QED BY <1>2, <2>1, <3>1, <3>3, <4>1
    <3> QED BY <3>2, <3>3
  <2>3. Check(acquired, checkable) = acquired
    <3> HIDE DEF checkable
    <3>1. \A operand \in checkable :
            HasRegister(operand) /\ IsGeneral(operand.register) => acquired.uses[operand.register] # 0
      BY <2>2
    <3> QED BY <3>1, CheckEffect DEF Check
  <2> QED BY <1>4, <2>3
<1>6. CASE acquired.failure # "none"
  BY <1>3, <1>4, <1>6, CheckEffect
<1> QED BY <1>5, <1>6

-----------------------------------------------------------------------------
(* What the registers and the stacks hold.                                 *)

\* A physical register holds what the register mapped to it holds.
RegistersMatch(mapped, intended, file) ==
    \A register \in UserRegisters :
        intended[register] # Undefined /\ mapped[register] # Unmapped =>
            file[mapped[register]] = intended[register]

\* The stacks have the same elements.
StacksMatch(intended, actual) ==
    /\ intended \in Seq(Nat) /\ actual \in Seq(Nat)
    /\ Len(intended) = Len(actual)
    /\ \A index \in 1 .. Len(intended) : intended[index] # Undefined => actual[index] = intended[index]

\* Pushing an element on both.
LEMMA PushMatches ==
    ASSUME NEW intended, NEW actual, StacksMatch(intended, actual),
           NEW value \in Nat, NEW held \in Nat, value # Undefined => held = value
    PROVE  StacksMatch(Append(intended, value), Append(actual, held))
<1>1. \A index \in 1 .. Len(intended) + 1 : index \in 1 .. Len(intended) \/ index = Len(intended) + 1
  BY DEF StacksMatch
<1> QED BY <1>1 DEF StacksMatch

\* What is left of a stack.
LEMMA Prefix ==
    ASSUME NEW some \in Seq(Nat), NEW left \in Nat, left <= Len(some)
    PROVE  /\ SubSeq(some, 1, left) \in Seq(Nat)
           /\ Len(SubSeq(some, 1, left)) = left
           /\ \A index \in 1 .. left : SubSeq(some, 1, left)[index] = some[index]
<1>1. 1 \in Int /\ left \in Int /\ left - 1 + 1 = left
  OBVIOUS
<1>2. \A index \in 1 .. left : some[index] \in Nat /\ 1 + index - 1 = index
  OBVIOUS
<1>3. /\ SubSeq(some, 1, left) \in Seq(Nat)
      /\ Len(SubSeq(some, 1, left)) = IF 1 <= left THEN left - 1 + 1 ELSE 0
      /\ \A index \in 1 .. left - 1 + 1 : SubSeq(some, 1, left)[index] = some[1 + index - 1]
  BY <1>1, <1>2, SubSeqProperties
<1>4. (IF 1 <= left THEN left - 1 + 1 ELSE 0) = left
  OBVIOUS
<1> QED BY <1>1, <1>2, <1>3, <1>4

\* Popping some elements from both.
LEMMA PopMatches ==
    ASSUME NEW intended, NEW actual, StacksMatch(intended, actual), NEW count \in Nat
    PROVE  StacksMatch(SubSeq(intended, 1, Len(intended) - count), SubSeq(actual, 1, Len(actual) - count))
<1>1. /\ intended \in Seq(Nat) /\ actual \in Seq(Nat) /\ Len(intended) = Len(actual) /\ Len(intended) \in Nat
      /\ \A index \in 1 .. Len(intended) : intended[index] # Undefined => actual[index] = intended[index]
  BY DEF StacksMatch
<1> DEFINE left == Len(intended) - count
           popped == SubSeq(intended, 1, left)
           unstacked == SubSeq(actual, 1, left)
<1>2. /\ popped \in Seq(Nat) /\ unstacked \in Seq(Nat) /\ Len(popped) = Len(unstacked)
      /\ \A index \in 1 .. Len(popped) :
            /\ index \in 1 .. Len(intended)
            /\ popped[index] = intended[index] /\ unstacked[index] = actual[index]
  <2>1. CASE left \in Nat
    <3>1. left <= Len(intended) /\ left <= Len(actual)
      BY <1>1
    <3>2. /\ popped \in Seq(Nat) /\ Len(popped) = left
          /\ \A index \in 1 .. left : popped[index] = intended[index]
      BY <1>1, <2>1, <3>1, Prefix
    <3>3. /\ unstacked \in Seq(Nat) /\ Len(unstacked) = left
          /\ \A index \in 1 .. left : unstacked[index] = actual[index]
      BY <1>1, <2>1, <3>1, Prefix
    <3>4. \A index \in 1 .. left : index \in 1 .. Len(intended)
      BY <1>1, <2>1
    <3> QED BY <3>2, <3>3, <3>4
  <2>2. CASE left \notin Nat
    <3>1. left \in Int /\ left < 1
      BY <1>1, <2>2
    <3>2. popped = <<>> /\ unstacked = <<>>
      BY <3>1, SubSeqEmpty
    <3>3. <<>> \in Seq(Nat) /\ Len(<<>>) = 0 /\ 1 .. 0 = {}
      OBVIOUS
    <3> QED BY <3>2, <3>3
  <2> QED BY <2>1, <2>2
<1> HIDE DEF popped, unstacked
<1>3. StacksMatch(popped, unstacked)
  BY <1>1, <1>2 DEF StacksMatch
<1> QED BY <1>1, <1>3 DEF popped, unstacked

\* The element on top, or nothing.
LEMMA TopMatches ==
    ASSUME NEW intended, NEW actual, StacksMatch(intended, actual)
    PROVE  /\ Holds(intended, Len(intended)) \in Nat /\ Holds(actual, Len(actual)) \in Nat
           /\ Holds(intended, Len(intended)) # Undefined =>
                Holds(actual, Len(actual)) = Holds(intended, Len(intended))
<1>1. /\ DOMAIN intended = 1 .. Len(intended) /\ DOMAIN actual = 1 .. Len(actual)
      /\ Len(intended) = Len(actual) /\ Len(intended) \in Nat
      /\ \A index \in 1 .. Len(intended) : intended[index] \in Nat /\ actual[index] \in Nat
  BY DEF StacksMatch
<1> QED BY <1>1 DEF Holds, StacksMatch, Undefined

\* The registers and the stacks of both sides, where registers that hold
\* anything have been modified.
Held ==
    /\ virtual \in [UserRegisters -> Nat] /\ physical \in [Physical -> Nat]
    /\ RegistersMatch(mapping, virtual, physical)
    /\ StacksMatch(pushed, stacked)
    /\ \A register \in UserRegisters :
            virtual[register] # Undefined => ModifiedBefore(instructions, position, register)

\* What an instruction needs is held by a physical register.
LEMMA NeededHeld ==
    ASSUME Generating, Held, NEW register \in UserRegisters,
           Needs(instructions[position], register), virtual[register] # Undefined
    PROVE  /\ uses[register] # 0
           /\ mapping[register] \in Physical /\ mapping[register] # Unmapped
           /\ Holds(physical, mapping[register]) = virtual[register]
<1>1. /\ position \in 1 .. Len(instructions) /\ Len(instructions) \in Nat
      /\ uses[register] \in Nat
      /\ CountedAt(instructions, position, register, uses[register])
      /\ ModifiedBefore(instructions, position, register)
  BY CurrentAllocation DEF Generating, Tracked, Held
<1>2. uses[register] # 0
  BY <1>1, NeededUsed
<1>3. mapping[register] # Unmapped
  BY <1>2, CurrentAllocation
<1>4. mapping[register] \in Physical
  BY <1>3 DEF Generating, TypedSection, TypeOK
<1>5. physical[mapping[register]] = virtual[register] /\ DOMAIN physical = Physical
  BY <1>3 DEF Held, RegistersMatch
<1> QED BY <1>2, <1>3, <1>4, <1>5 DEF Holds

\* Executing an instruction where a function says what the registers are.
Placed(file, actual, instruction, place) ==
    Executed(file, actual, instruction, LAMBDA register : place[register])
Itself == [register \in UserRegisters |-> register]

\* Pushing, popping, calling, and modifying otherwise.
Places(file, actual, instruction, place, result) ==
    LET operand == instruction.operand1
        modified == ModifiedRegister(instruction)
        Modified(value) == IF IsUser(modified) THEN [file EXCEPT ![place[modified]] = value] ELSE file
    IN  /\ instruction.mnemonic = "PUSH" =>
            /\ result.file = file
            /\ result.stack = Append(actual, IF IsMemory(operand) \/ ~HasUserRegister(operand) THEN Undefined
                                            ELSE Holds(file, place[operand.register]))
        /\ instruction.mnemonic = "POP" =>
            /\ result.file = Modified(Holds(actual, Len(actual)))
            /\ result.stack = SubSeq(actual, 1, Len(actual) - 1)
        /\ instruction.mnemonic = "CALL" =>
            /\ result.file = [index \in DOMAIN file |-> IF index = place[RRes] THEN position ELSE Undefined]
            /\ result.stack = SubSeq(actual, 1, Len(actual) - instruction.operand2.displacement)
        /\ instruction.mnemonic \notin {"PUSH", "POP", "CALL"} =>
            result.file = Modified(position) /\ result.stack = actual

\* What is executed does so.
LEMMA PlacedAs ==
    ASSUME NEW file, NEW actual, NEW instruction, NEW place,
           NEW result, result = Placed(file, actual, instruction, place)
    PROVE  Places(file, actual, instruction, place, result)
<1>1. CASE instruction.mnemonic = "PUSH"
  BY <1>1 DEF Placed, Executed, Places
<1>2. CASE instruction.mnemonic = "POP"
  BY <1>2 DEF Placed, Executed, Places
<1>3. CASE instruction.mnemonic = "CALL"
  BY <1>3 DEF Placed, Executed, Places
<1>4. CASE instruction.mnemonic \notin {"PUSH", "POP", "CALL"}
  BY <1>4 DEF Placed, Executed, Places
<1> QED BY <1>1, <1>2, <1>3, <1>4

\* Executing an instruction on both sides keeps them in step.
LEMMA ExecutedMatches ==
    ASSUME Generating, Held, IsRegular(instructions),
           instructions[position].mnemonic \notin {"FIX", "UNFIX"},
           NEW mapped \in [UserRegisters -> Physical \cup {Unmapped}], Apart(mapped),
           ModifiedRegister(instructions[position]) \in UserRegisters =>
                mapped[ModifiedRegister(instructions[position])] # Unmapped,
           \A register \in UserRegisters :
                mapping[register] # Unmapped \/ register # ModifiedRegister(instructions[position]) =>
                    mapped[register] = mapping[register],
           NEW intended,
           intended = Placed(virtual, pushed, instructions[position], Itself),
           NEW generated,
           generated = Placed(physical, stacked, instructions[position], mapped)
    PROVE  /\ intended.file \in [UserRegisters -> Nat] /\ generated.file \in [Physical -> Nat]
           /\ RegistersMatch(mapped, intended.file, generated.file)
           /\ StacksMatch(intended.stack, generated.stack)
           /\ \A register \in UserRegisters : intended.file[register] # Undefined =>
                    ModifiedBefore(instructions, position + 1, register)
<1> DEFINE at == position
           instruction == instructions[at]
           modified == ModifiedRegister(instruction)
           operand == instruction.operand1
<1>1. /\ at \in 1 .. Len(instructions) /\ at \in Nat \ {0}
      /\ virtual \in [UserRegisters -> Nat] /\ physical \in [Physical -> Nat]
      /\ StacksMatch(pushed, stacked)
      /\ \A register \in UserRegisters :
            /\ virtual[register] # Undefined => ModifiedBefore(instructions, at, register)
            /\ virtual[register] # Undefined /\ mapping[register] # Unmapped =>
                    physical[mapping[register]] = virtual[register]
      /\ RRes \in UserRegisters
      /\ IsUser(modified) <=> modified \in UserRegisters
      /\ instruction \in {instructions[index] : index \in DOMAIN instructions}
  <2>1. /\ at \in 1 .. Len(instructions) /\ at \in Nat \ {0}
        /\ instruction \in {instructions[index] : index \in DOMAIN instructions}
    BY CurrentAllocation DEF Generating, TypedSection, IsSection
  <2>2. /\ virtual \in [UserRegisters -> Nat] /\ physical \in [Physical -> Nat]
        /\ StacksMatch(pushed, stacked)
        /\ \A register \in UserRegisters :
                virtual[register] # Undefined => ModifiedBefore(instructions, at, register)
    BY DEF Held
  <2>3. \A register \in UserRegisters :
            virtual[register] # Undefined /\ mapping[register] # Unmapped =>
                physical[mapping[register]] = virtual[register]
    BY DEF Held, RegistersMatch
  <2>4. RRes \in UserRegisters /\ (IsUser(modified) <=> modified \in UserRegisters)
    BY Registers
  <2> QED BY <2>1, <2>2, <2>3, <2>4
<1>2. \A register \in UserRegisters :
        ModifiedBefore(instructions, at + 1, register) <=>
            ModifiedBefore(instructions, at, register) \/ modified = register
  BY <1>1, ModifiedOn
<1>3. modified \in UserRegisters => mapped[modified] \in Physical
  OBVIOUS
<1>10. /\ Places(virtual, pushed, instruction, Itself, intended)
       /\ Places(physical, stacked, instruction, mapped, generated)
  BY PlacedAs
<1>4. CASE instruction.mnemonic = "PUSH"
  <2> DEFINE value == IF IsMemory(operand) \/ ~HasUserRegister(operand) THEN Undefined
                      ELSE Holds(virtual, operand.register)
             held == IF IsMemory(operand) \/ ~HasUserRegister(operand) THEN Undefined
                     ELSE Holds(physical, mapped[operand.register])
  <2>1. /\ intended.file = virtual /\ intended.stack = Append(pushed, value)
        /\ generated.file = physical /\ generated.stack = Append(stacked, held)
    <3>1. HasUserRegister(operand) => Itself[operand.register] = operand.register
      BY Registers DEF Itself, HasUserRegister
    <3> QED BY <1>4, <1>10, <3>1 DEF Places
  <2>2. value \in Nat /\ held \in Nat /\ (value # Undefined => held = value)
    <3>1. CASE IsMemory(operand) \/ ~HasUserRegister(operand)
      BY <3>1 DEF Undefined
    <3>2. CASE ~(IsMemory(operand) \/ ~HasUserRegister(operand))
      <4>1. operand.register \in UserRegisters
        BY <3>2, Registers DEF HasUserRegister
      <4>2. Holds(virtual, operand.register) \in Nat /\ Holds(physical, mapped[operand.register]) \in Nat
        BY <1>1, <4>1 DEF Holds, Undefined
      <4>3. value = virtual[operand.register]
        BY <1>1, <3>2, <4>1 DEF Holds
      <4>4. Needs(instruction, operand.register)
        <5>1. ModifiedRegister(instruction) # operand.register
          BY <1>4, <4>1, UserRegister DEF ModifiedRegister, IsModifying, UnaryMnemonics, BinaryMnemonics
        <5>2. UsesOf(instruction, operand.register) # 0
          BY <1>4, UsesReferred DEF Refers
        <5> QED BY <5>1, <5>2 DEF Needs
      <4>5. virtual[operand.register] # Undefined =>
                /\ mapped[operand.register] = mapping[operand.register]
                /\ Holds(physical, mapping[operand.register]) = virtual[operand.register]
        BY <4>1, <4>4, NeededHeld
      <4> QED BY <3>2, <4>2, <4>3, <4>5
    <3> QED BY <3>1, <3>2
  <2>3. StacksMatch(Append(pushed, value), Append(stacked, held))
    BY <1>1, <2>2, PushMatches
  <2>4. modified \notin UserRegisters
    BY <1>4, UserRegister DEF ModifiedRegister, IsModifying, UnaryMnemonics, BinaryMnemonics
  <2>5. \A register \in UserRegisters : mapped[register] = mapping[register]
    BY <2>4
  <2>6. \A register \in UserRegisters : virtual[register] # Undefined =>
            ModifiedBefore(instructions, at + 1, register)
    BY <1>1, <1>2
  <2> HIDE DEF value, held, modified, instruction
  <2> QED BY <1>1, <2>1, <2>3, <2>5, <2>6 DEF RegistersMatch
<1>8. ASSUME NEW value \in Nat, NEW held \in Nat, value # Undefined => held = value,
             modified \in UserRegisters, NEW file, NEW actual,
             file = [virtual EXCEPT ![modified] = value],
             actual = [physical EXCEPT ![mapped[modified]] = held]
      PROVE  /\ file \in [UserRegisters -> Nat] /\ actual \in [Physical -> Nat]
             /\ RegistersMatch(mapped, file, actual)
             /\ \A register \in UserRegisters : file[register] # Undefined =>
                    ModifiedBefore(instructions, at + 1, register)
  <2> HIDE DEF instruction, modified
  <2>1. /\ file \in [UserRegisters -> Nat] /\ actual \in [Physical -> Nat]
        /\ file[modified] = value /\ actual[mapped[modified]] = held
        /\ \A register \in UserRegisters \ {modified} : file[register] = virtual[register]
        /\ \A some \in Physical \ {mapped[modified]} : actual[some] = physical[some]
    BY <1>1, <1>3, <1>8
  <2>2. ASSUME NEW register \in UserRegisters, file[register] # Undefined, mapped[register] # Unmapped
        PROVE  actual[mapped[register]] = file[register]
    <3>1. CASE register = modified
      BY <1>8, <2>1, <2>2, <3>1
    <3>2. CASE register # modified
      <4>1. mapped[register] \in Physical \ {mapped[modified]}
        BY <1>8, <2>2, <3>2 DEF Apart
      <4>2. mapped[register] = mapping[register]
        BY <3>2 DEF modified, instruction
      <4> QED BY <1>1, <2>1, <2>2, <3>2, <4>1, <4>2
    <3> QED BY <3>1, <3>2
  <2> QED BY <1>1, <1>2, <2>1, <2>2 DEF RegistersMatch
<1>9. ASSUME modified \notin UserRegisters
      PROVE  /\ RegistersMatch(mapped, virtual, physical)
             /\ \A register \in UserRegisters : virtual[register] # Undefined =>
                    ModifiedBefore(instructions, at + 1, register)
  <2>1. \A register \in UserRegisters : mapped[register] = mapping[register]
    BY <1>9
  <2> QED BY <1>1, <1>2, <2>1 DEF RegistersMatch
<1>5. CASE instruction.mnemonic = "POP"
  <2> DEFINE value == Holds(pushed, Len(pushed))
             held == Holds(stacked, Len(stacked))
  <2>1. /\ intended.file = IF modified \in UserRegisters
                            THEN [virtual EXCEPT ![modified] = value] ELSE virtual
        /\ intended.stack = SubSeq(pushed, 1, Len(pushed) - 1)
        /\ generated.file = IF modified \in UserRegisters
                             THEN [physical EXCEPT ![mapped[modified]] = held] ELSE physical
        /\ generated.stack = SubSeq(stacked, 1, Len(stacked) - 1)
    <3>1. modified \in UserRegisters => Itself[modified] = modified
      BY DEF Itself
    <3> QED BY <1>1, <1>5, <1>10, <3>1 DEF Places
  <2>2. value \in Nat /\ held \in Nat /\ (value # Undefined => held = value)
    BY <1>1, TopMatches
  <2>3. StacksMatch(intended.stack, generated.stack)
    <3>1. 1 \in Nat
      OBVIOUS
    <3>2. StacksMatch(SubSeq(pushed, 1, Len(pushed) - 1), SubSeq(stacked, 1, Len(stacked) - 1))
      BY <1>1, <3>1, PopMatches
    <3> QED BY <2>1, <3>2
  <2> HIDE DEF value, held, modified, instruction
  <2>4. CASE modified \in UserRegisters
    <3>1. /\ intended.file = [virtual EXCEPT ![modified] = value]
          /\ generated.file = [physical EXCEPT ![mapped[modified]] = held]
      BY <2>1, <2>4
    <3>2. /\ intended.file \in [UserRegisters -> Nat] /\ generated.file \in [Physical -> Nat]
          /\ RegistersMatch(mapped, intended.file, generated.file)
          /\ \A register \in UserRegisters : intended.file[register] # Undefined =>
                    ModifiedBefore(instructions, at + 1, register)
      BY <1>8, <2>2, <2>4, <3>1, ZenonT(40)
    <3> QED BY <2>3, <3>2
  <2>5. CASE modified \notin UserRegisters
    BY <1>1, <1>9, <2>1, <2>3, <2>5
  <2> QED BY <2>4, <2>5
<1>6. CASE instruction.mnemonic = "CALL"
  <2> DEFINE count == instruction.operand2.displacement
             file == [index \in UserRegisters |-> IF index = RRes THEN at ELSE Undefined]
             actual == [index \in Physical |-> IF index = mapped[RRes] THEN at ELSE Undefined]
  <2>1. /\ intended.file = file /\ intended.stack = SubSeq(pushed, 1, Len(pushed) - count)
        /\ generated.file = actual /\ generated.stack = SubSeq(stacked, 1, Len(stacked) - count)
    <3>1. DOMAIN virtual = UserRegisters /\ DOMAIN physical = Physical /\ Itself[RRes] = RRes
      BY <1>1 DEF Itself
    <3> QED BY <1>6, <1>10, <3>1 DEF Places
  <2>2. modified = RRes /\ count \in Nat
    BY <1>1, <1>6 DEF ModifiedRegister, IsRegular
  <2>3. StacksMatch(intended.stack, generated.stack)
    <3>1. StacksMatch(SubSeq(pushed, 1, Len(pushed) - count), SubSeq(stacked, 1, Len(stacked) - count))
      BY <1>1, <2>2, PopMatches
    <3> QED BY <2>1, <3>1
  <2>4. /\ file \in [UserRegisters -> Nat] /\ actual \in [Physical -> Nat]
        /\ \A register \in UserRegisters : file[register] # Undefined => register = RRes
        /\ file[RRes] = at
        /\ actual[mapped[RRes]] = at
    BY <1>1, <1>3, <2>2 DEF Undefined
  <2> HIDE DEF file, actual, modified, instruction
  <2> QED BY <1>1, <1>2, <2>1, <2>2, <2>3, <2>4 DEF RegistersMatch
<1>7. CASE instruction.mnemonic \notin {"PUSH", "POP", "CALL"}
  <2>1. /\ intended.file = IF modified \in UserRegisters
                            THEN [virtual EXCEPT ![modified] = at] ELSE virtual
        /\ intended.stack = pushed
        /\ generated.file = IF modified \in UserRegisters
                             THEN [physical EXCEPT ![mapped[modified]] = at] ELSE physical
        /\ generated.stack = stacked
    <3>1. modified \in UserRegisters => Itself[modified] = modified
      BY DEF Itself
    <3> QED BY <1>1, <1>7, <1>10, <3>1 DEF Places
  <2>2. at \in Nat
    BY <1>1
  <2> HIDE DEF modified, instruction
  <2>3. CASE modified \in UserRegisters
    BY <1>1, <1>8, <2>1, <2>2, <2>3, ZenonT(40)
  <2>4. CASE modified \notin UserRegisters
    BY <1>1, <1>9, <2>1, <2>4
  <2> QED BY <2>3, <2>4
<1> QED BY <1>4, <1>5, <1>6, <1>7

-----------------------------------------------------------------------------
(* The inductive invariant.                                                *)

\* What is skipped lies between a branch and its target.
Targeted ==
    /\ target \in Nat
    /\ position < target => \E branch \in 1 .. position - 1 :
            /\ IsBranch(instructions[branch])
            /\ target = branch + 1 + instructions[branch].operand1.displacement

Synced ==
    /\ IsRegular(instructions)
    /\ position \in 1 .. Len(instructions) + 1
    /\ Tracked
    /\ mapping[RRes] \in {0, Unmapped}
    /\ Held
    /\ Targeted

StaleInv ==
    /\ stale = {}
    /\ phase = "generating" /\ Flawless => Synced

\* The allocation goes on with what an instruction did to it.
GoesOn(result) ==
    /\ result.failure = "none" /\ Sound(result) /\ result \in States /\ Advanced(result)
    /\ uses' = result.uses /\ fixes' = result.fixes /\ mapping' = result.mapping
    /\ position' = position + 1 /\ instructions' = instructions
    /\ errors' = errors /\ leaked' = leaked

\* The allocation keeps track when it goes on.
LEMMA AllocationSynced ==
    ASSUME Generating, Synced, NEW result, GoesOn(result)
    PROVE  /\ IsRegular(instructions)'
           /\ (position \in 1 .. Len(instructions) + 1)'
           /\ Tracked'
           /\ (mapping[RRes] \in {0, Unmapped})'
<1>1. position \in 1 .. Len(instructions) /\ Len(instructions) \in Nat
  BY CurrentAllocation DEF Generating
<1>2. IsRegular(instructions)' /\ (position \in 1 .. Len(instructions) + 1)'
  BY <1>1 DEF Synced, GoesOn, IsRegular, SkipsRight, RuntimeRight
<1>3. (mapping[RRes] \in {0, Unmapped})'
  BY Registers DEF Synced, GoesOn, Advanced
<1>4. ASSUME NEW register \in UserRegisters
      PROVE  /\ CountedAt(instructions', position', register, uses'[register])
             /\ fixes'[register] # 0 <=> FixedAt(instructions', position', register)
  BY DEF GoesOn, Advanced
<1>5. Tracked'
  BY <1>4 DEF Tracked
<1> QED BY <1>2, <1>3, <1>5

\* A register that holds anything keeps its mapping as long as it has one,
\* unless it is modified.
LEMMA MappingKept ==
    ASSUME Generating, Held, NEW result, Advanced(result), NEW register \in UserRegisters,
           virtual[register] # Undefined, result.mapping[register] # Unmapped,
           mapping[register] # Unmapped \/ ModifiedRegister(instructions[position]) # register
    PROVE  result.mapping[register] = mapping[register] /\ mapping[register] # Unmapped
<1>1. CASE mapping[register] # Unmapped
  BY <1>1 DEF Advanced
<1>2. CASE mapping[register] = Unmapped
  <2>1. ~Needs(instructions[position], register)
    BY <1>2, NeededHeld
  <2>2. UsesOf(instructions[position], register) = 0
    BY <1>2, <2>1 DEF Needs
  <2> QED BY <1>2, <2>2 DEF Advanced
<1> QED BY <1>1, <1>2

\* What is skipped or only fixes registers leaves alone what they hold.
LEMMA UnexecutedSynced ==
    ASSUME Generating, Synced, NEW result, GoesOn(result), UNCHANGED execution,
           instructions[position].mnemonic \in {"FIX", "UNFIX"} \/ position < target
    PROVE  Synced' /\ stale' = stale
<1> DEFINE at == position
           modified == ModifiedRegister(instructions[at])
<1>1. /\ at \in 1 .. Len(instructions) /\ at \in Nat \ {0} /\ Len(instructions) \in Nat
      /\ IsRegular(instructions) /\ Held
      /\ DOMAIN instructions = 1 .. Len(instructions)
  BY CurrentAllocation DEF Generating, Synced, TypedSection, IsSection
<1>2. ASSUME NEW register \in UserRegisters, virtual[register] # Undefined, result.mapping[register] # Unmapped
      PROVE  physical[result.mapping[register]] = virtual[register]
  <2>1. CASE mapping[register] # Unmapped \/ modified # register
    <3>1. result.mapping[register] = mapping[register] /\ mapping[register] # Unmapped
      BY <1>1, <1>2, <2>1, MappingKept DEF GoesOn
    <3> QED BY <1>1, <1>2, <3>1 DEF Held, RegistersMatch
  <2>2. CASE mapping[register] = Unmapped /\ modified = register
    <3>1. instructions[at].mnemonic \notin {"FIX", "UNFIX"}
      BY <2>2, UserRegister DEF ModifiedRegister, IsModifying, UnaryMnemonics, BinaryMnemonics
    <3>2. PICK branch \in 1 .. at - 1 :
            /\ IsBranch(instructions[branch])
            /\ target = branch + 1 + instructions[branch].operand1.displacement
      BY <3>1 DEF Synced, Targeted
    <3>3. branch \in DOMAIN instructions /\ SkipsRight(instructions, branch)
      BY <1>1, <3>2 DEF IsRegular
    <3>4. at < target /\ instructions[branch].operand1.displacement \in Nat
      BY <3>1, <3>3 DEF SkipsRight
    <3>5. at \in branch + 1 .. branch + instructions[branch].operand1.displacement
      BY <1>1, <3>2, <3>4
    <3>6. \/ FixedOver(instructions, branch, at, register)
          \/ /\ ~FixedAt(instructions, at, register)
             /\ \A later \in at + 1 .. Len(instructions) : UsesOf(instructions[later], register) = 0
      BY <1>1, <2>2, <3>3, <3>5 DEF SkipsRight
    <3>7. CASE FixedOver(instructions, branch, at, register)
      <4>1. \A start \in 1 .. branch - 1 : start \in 1 .. at - 1
        BY <1>1, <3>2
      <4>2. FixedAt(instructions, at, register)
        BY <3>7, <4>1 DEF FixedAt, FixedOver
      <4>3. fixes[register] # 0
        BY <4>2 DEF Generating, Tracked
      <4> QED BY <2>2, <4>3, CurrentAllocation
    <3>8. CASE /\ ~FixedAt(instructions, at, register)
               /\ \A later \in at + 1 .. Len(instructions) : UsesOf(instructions[later], register) = 0
      <4>1. result.fixes[register] = 0
        <5>1. ~FixedAt(instructions, at + 1, register)
          BY <1>1, <3>1, <3>8, FixedOn DEF Fixing
        <5> QED BY <5>1 DEF GoesOn, Advanced
      <4>2. result.uses[register] = 0
        <5>1. CountedAt(instructions, at + 1, register, result.uses[register])
          BY DEF GoesOn, Advanced
        <5>2. PICK fixed \in Int : result.uses[register] # 0 =>
                    result.uses[register] = AheadAt(instructions, register, at + 1, fixed)
          BY <5>1 DEF CountedAt
        <5>3. at + 1 \in 1 .. Len(instructions) + 1
          BY <1>1
        <5>4. AheadAt(instructions, register, at + 1, fixed) = 0
          BY <1>1, <3>8, <5>3, AheadNothing
        <5> QED BY <5>2, <5>4
      <4>3. result.mapping[register] = Unmapped
        <5>1. Needed(result.uses, result.fixes, result.mapping)
          BY SoundNeeded DEF GoesOn, Generating
        <5> QED BY <4>1, <4>2, <5>1 DEF Needed
      <4> QED BY <1>2, <4>3
    <3> QED BY <3>6, <3>7, <3>8
  <2> QED BY <2>1, <2>2
<1>3. /\ virtual' = virtual /\ physical' = physical /\ pushed' = pushed /\ stacked' = stacked
      /\ target' = target /\ stale' = stale
  BY DEF execution
<1>4. RegistersMatch(mapping, virtual, physical)'
  BY <1>2, <1>3 DEF RegistersMatch, GoesOn
<1>5. \A register \in UserRegisters :
        virtual'[register] # Undefined => ModifiedBefore(instructions', position', register)
  BY <1>1, <1>3, ModifiedOn DEF Held, GoesOn
<1>6. Held'
  BY <1>1, <1>3, <1>4, <1>5 DEF Held
<1>7. Targeted'
  <2>1. 1 .. at - 1 \subseteq 1 .. (at + 1) - 1 /\ (at + 1 < target => at < target)
    BY <1>1 DEF Synced, Targeted
  <2>2. /\ target \in Nat
        /\ at < target => \E branch \in 1 .. at - 1 :
                /\ IsBranch(instructions[branch])
                /\ target = branch + 1 + instructions[branch].operand1.displacement
    BY DEF Synced, Targeted
  <2> QED BY <1>3, <2>1, <2>2 DEF Targeted, GoesOn
<1> QED BY <1>3, <1>6, <1>7, AllocationSynced DEF Synced

\* Executing an instruction changes the registers and the stack as intended.
LEMMA ExecutesAs ==
    ASSUME Flawless, NEW file, NEW actual, NEW misread, Executes(file, actual, misread), ~(position < target),
           NEW intended, intended = Placed(virtual, pushed, instructions[position], Itself)
    PROVE  /\ virtual' = intended.file /\ pushed' = intended.stack
           /\ physical' = file /\ stacked' = actual
           /\ stale' = stale \cup misread
           /\ IF IsBranch(instructions[position])
              THEN target' \in {position + 1, position + 1 + instructions[position].operand1.displacement}
              ELSE target' = target
<1> DEFINE instruction == instructions[position]
           modified == ModifiedRegister(instruction)
           operand == instruction.operand1
<1>1. /\ IsUser(modified) => Itself[modified] = modified
      /\ HasUserRegister(operand) => Itself[operand.register] = operand.register
      /\ Itself[RRes] = RRes
  BY Registers DEF Itself, HasUserRegister
<1>2. Places(virtual, pushed, instruction, Itself, intended)
  BY PlacedAs
<1>3. virtual' = intended.file /\ pushed' = intended.stack
  <2> HIDE DEF modified
  <2>1. CASE instruction.mnemonic = "PUSH"
    BY <1>1, <1>2, <2>1 DEF Executes, Executed, Places, modified
  <2>2. CASE instruction.mnemonic = "POP"
    <3> DEFINE top == Holds(pushed, Len(pushed))
               left == SubSeq(pushed, 1, Len(pushed) - 1)
    <3>1. /\ virtual' = IF IsUser(modified) THEN [virtual EXCEPT ![modified] = top] ELSE virtual
          /\ pushed' = left
      BY <2>2 DEF Executes, Executed, modified
    <3>2. /\ intended.file = IF IsUser(modified) THEN [virtual EXCEPT ![Itself[modified]] = top] ELSE virtual
          /\ intended.stack = left
      BY <1>2, <2>2 DEF Places, modified
    <3> HIDE DEF top, left
    <3>3. IsUser(modified) => Itself[modified] = modified
      BY <1>1 DEF modified
    <3> QED BY <3>1, <3>2, <3>3
  <2>3. CASE instruction.mnemonic = "CALL"
    <3> DEFINE called == [index \in DOMAIN virtual |-> IF index = RRes THEN position ELSE Undefined]
               left == SubSeq(pushed, 1, Len(pushed) - instruction.operand2.displacement)
    <3>1. virtual' = called /\ pushed' = left
      BY <2>3 DEF Executes, Executed
    <3>2. intended.file = called /\ intended.stack = left
      BY <1>1, <1>2, <2>3 DEF Places
    <3> QED BY <3>1, <3>2
  <2>4. CASE instruction.mnemonic \notin {"PUSH", "POP", "CALL"}
    <3>1. /\ virtual' = IF IsUser(modified) THEN [virtual EXCEPT ![modified] = position] ELSE virtual
          /\ pushed' = pushed
      BY <2>4 DEF Executes, Executed, modified
    <3>2. /\ intended.file = IF IsUser(modified)
                             THEN [virtual EXCEPT ![Itself[modified]] = position] ELSE virtual
          /\ intended.stack = pushed
      BY <1>2, <2>4 DEF Places, modified
    <3>3. IsUser(modified) => Itself[modified] = modified
      BY <1>1 DEF modified
    <3> QED BY <3>1, <3>2, <3>3
  <2> QED BY <2>1, <2>2, <2>3, <2>4
<1>4. /\ physical' = file /\ stacked' = actual
      /\ stale' = stale \cup misread
      /\ IF IsBranch(instruction)
         THEN target' \in {position + 1, position + 1 + instruction.operand1.displacement}
         ELSE target' = target
  BY DEF Executes
<1> QED BY <1>3, <1>4

\* What is executed on both sides is in step if no register was misread.
LEMMA ExecutedSynced ==
    ASSUME Generating, Synced, NEW result, GoesOn(result),
           NEW file, NEW actual, NEW misread, Executes(file, actual, misread), ~(position < target),
           NEW intended, intended = Placed(virtual, pushed, instructions[position], Itself),
           intended.file \in [UserRegisters -> Nat], file \in [Physical -> Nat],
           RegistersMatch(result.mapping, intended.file, file),
           StacksMatch(intended.stack, actual),
           \A register \in UserRegisters : intended.file[register] # Undefined =>
                ModifiedBefore(instructions, position + 1, register)
    PROVE  Synced' /\ stale' = stale \cup misread
<1> DEFINE at == position
<1>1. /\ at \in 1 .. Len(instructions) /\ at \in Nat \ {0} /\ Len(instructions) \in Nat
      /\ IsRegular(instructions) /\ target \in Nat
      /\ DOMAIN instructions = 1 .. Len(instructions)
  BY CurrentAllocation DEF Generating, Synced, Targeted, TypedSection, IsSection
<1>2. /\ virtual' = intended.file /\ pushed' = intended.stack
      /\ physical' = file /\ stacked' = actual
      /\ stale' = stale \cup misread
      /\ IF IsBranch(instructions[at])
         THEN target' \in {at + 1, at + 1 + instructions[at].operand1.displacement}
         ELSE target' = target
  BY ExecutesAs DEF Generating
<1>3. position' = at + 1 /\ instructions' = instructions /\ mapping' = result.mapping
  BY DEF GoesOn
<1>4. Held'
  BY <1>2, <1>3 DEF Held, RegistersMatch
<1>5. Targeted'
  <2>1. CASE IsBranch(instructions[at])
    <3>1. instructions[at].operand1.displacement \in Nat
      BY <1>1, <2>1 DEF IsRegular, SkipsRight
    <3>2. at \in 1 .. (at + 1) - 1
      BY <1>1
    <3>3. target' \in Nat /\ (at + 1 < target' => target' = at + 1 + instructions[at].operand1.displacement)
      BY <1>1, <1>2, <2>1, <3>1
    <3> QED BY <1>3, <2>1, <3>2, <3>3 DEF Targeted
  <2>2. CASE ~IsBranch(instructions[at])
    <3>1. target' = target /\ ~(at + 1 < target)
      BY <1>1, <1>2, <2>2
    <3> QED BY <1>1, <1>3, <3>1 DEF Targeted
  <2> QED BY <2>1, <2>2
<1> QED BY <1>2, <1>4, <1>5, AllocationSynced DEF Synced

-----------------------------------------------------------------------------
(* The steps again.                                                        *)

\* Proceeding goes on, or there is an error or an assertion that fails.
LEMMA ProceedGoesOn ==
    ASSUME Generating, NEW result \in States, Sound(result), result.failure = "none" => Advanced(result),
           Proceed(result)
    PROVE  /\ result.failure = "none" => GoesOn(result) /\ phase' = phase
           /\ result.failure # "none" => ~(phase' = "generating" /\ Flawless')
<1>1. CASE result.failure = "none"
  BY <1>1 DEF Proceed, GoesOn
<1>2. CASE result.failure = "assertion"
  BY <1>2 DEF Proceed
<1>3. CASE result.failure \notin {"none", "assertion"}
  BY <1>3 DEF Proceed, Flawless
<1> QED BY <1>1, <1>2, <1>3

\* What an error leaves behind is never undone.
LEMMA FlawRemains ==
    ASSUME ~Flawless, NEW result, Proceed(result)
    PROVE  ~Flawless'
<1>1. leaked' = leaked /\ errors \subseteq errors'
  BY DEF Proceed
<1> QED BY <1>1 DEF Flawless

\* A section begins with nothing in use, fixed, or held.
LEMMA ProcessStale ==
    ASSUME TypedSection, Inv, StaleInv, NEW given, IsSection(given), IsRegular(given), Process(given)
    PROVE  StaleInv'
<1>1. /\ phase \in {"idle", "done"} /\ instructions' = given /\ position' = 1 /\ phase' = "generating"
      /\ virtual' = [register \in UserRegisters |-> Undefined]
      /\ physical' = [register \in Physical |-> Undefined]
      /\ pushed' = <<>> /\ stacked' = <<>> /\ target' = 1 /\ stale' = stale
      /\ uses' = uses /\ fixes' = fixes /\ mapping' = mapping /\ leaked' = leaked
  BY DEF Process, allocation
<1>2. \A register \in UserRegisters :
        uses[register] = 0 /\ fixes[register] = 0 /\ (leaked = {} => mapping[register] = Unmapped)
  BY <1>1 DEF Inv, NoneIdle
<1>3. (1 .. 1 - 1 = {}) /\ Len(given) \in Nat /\ 1 \in 1 .. Len(given) + 1 /\ 0 \in Int
  BY DEF IsSection
<1>4. Tracked'
  <2>1. ASSUME NEW register \in UserRegisters
        PROVE  /\ CountedAt(given, 1, register, 0)
               /\ ~FixedAt(given, 1, register)
    BY <1>3 DEF CountedAt, ModifiedBefore, FixedAt, FixedOver
  <2> QED BY <1>1, <1>2, <2>1 DEF Tracked
<1>5. Held'
  <2>1. StacksMatch(<<>>, <<>>)
    BY DEF StacksMatch
  <2>2. /\ [register \in UserRegisters |-> Undefined] \in [UserRegisters -> Nat]
        /\ [register \in Physical |-> Undefined] \in [Physical -> Nat]
    BY DEF Undefined
  <2>3. \A register \in UserRegisters : virtual'[register] = Undefined
    BY <1>1
  <2>4. RegistersMatch(mapping, virtual, physical)'
    BY <2>3 DEF RegistersMatch
  <2> QED BY <1>1, <2>1, <2>2, <2>3, <2>4 DEF Held
<1>6. Targeted'
  BY <1>1 DEF Targeted
<1>7. IsRegular(instructions)'
  BY <1>1 DEF IsRegular, SkipsRight, RuntimeRight
<1>8. Flawless' => (mapping[RRes] \in {0, Unmapped})'
  BY <1>1, <1>2, Registers DEF Flawless
<1> QED BY <1>1, <1>3, <1>4, <1>5, <1>6, <1>7, <1>8 DEF StaleInv, Synced

\* Fixing and unfixing a register that is none of the user changes nothing.
LEMMA NothingAdvances ==
    ASSUME Generating, instructions[position].mnemonic \in {"FIX", "UNFIX"},
           \A register \in UserRegisters : UsesOf(instructions[position], register) = 0
    PROVE  Advanced(Current)
<1>1. /\ position \in 1 .. Len(instructions) /\ position \in Nat \ {0} /\ Len(instructions) \in Nat
      /\ Current.uses = uses /\ Current.fixes = fixes /\ Current.mapping = mapping
      /\ \A register \in UserRegisters : uses[register] \in Nat
  BY CurrentAllocation DEF Generating
<1>2. ASSUME NEW register \in UserRegisters
      PROVE  /\ CountedAt(instructions, position + 1, register, uses[register])
             /\ fixes[register] # 0 <=> FixedAt(instructions, position + 1, register)
  <2>1. /\ ModifiedRegister(instructions[position]) # register
        /\ ~Fixing(instructions[position], register) /\ ~Unfixing(instructions[position], register)
    BY ModifyingUses
  <2>2. /\ CountedAt(instructions, position, register, uses[register])
        /\ fixes[register] # 0 <=> FixedAt(instructions, position, register)
    BY DEF Generating, Tracked
  <2>3. \/ uses[register] # 0 /\ uses[register] = uses[register] - UsesOf(instructions[position], register)
        \/ uses[register] = 0
    BY <1>1
  <2>4. CountedAt(instructions, position + 1, register, uses[register])
    BY <1>1, <2>1, <2>2, <2>3, CountedOn
  <2>5. FixedAt(instructions, position + 1, register) <=> FixedAt(instructions, position, register)
    BY <1>1, <2>1, FixedOn
  <2> QED BY <2>2, <2>4, <2>5
<1> QED BY <1>1, <1>2 DEF Advanced

\* The instructions that fix registers use no other.
LEMMA FixingUses ==
    ASSUME Generating, Synced, instructions[position].mnemonic \in {"FIX", "UNFIX"}
    PROVE  \A register \in UserRegisters :
                UsesOf(instructions[position], register) =
                    IF instructions[position].operand1.register = register THEN 1 ELSE 0
<1>1. position \in DOMAIN instructions
  BY DEF Generating, TypedSection, IsSection
<1>2. /\ instructions[position].operand2.register \notin UserRegisters
      /\ instructions[position].operand3.register \notin UserRegisters
  BY <1>1 DEF Synced, IsRegular
<1> QED BY <1>2 DEF UsesOf

\* The state between two steps.
LEMMA StaleGenerating ==
    ASSUME TypedSection, Inv, StaleInv, Flawless, phase = "generating", position \in DOMAIN instructions
    PROVE  Generating /\ Synced /\ stale = {}
BY DEF Generating, StaleInv, Synced, TypedSection, IsSection

\* A register is fixed,
LEMMA FixStale ==
    ASSUME TypedSection, Inv, StaleInv, Flawless, FixRegister
    PROVE  StaleInv'
<1> DEFINE register == instructions[position].operand1.register
           result == Fix(Current, register, position)
<1>1. /\ phase = "generating" /\ position \in DOMAIN instructions
      /\ instructions[position].mnemonic = "FIX" /\ Proceed(result) /\ UNCHANGED execution
  BY DEF FixRegister, IsNext
<1>2. Generating /\ Synced /\ stale = {}
  BY <1>1, StaleGenerating
<1>3. /\ Current \in States /\ Sound(Current) /\ Len(instructions) \in Nat
      /\ position \in 1 .. Len(instructions)
  BY <1>2, CurrentAllocation DEF Generating
<1>4. result \in States /\ Sound(result)
  BY <1>3, FixTyped, FixSound
<1>5. result.failure = "none" => Advanced(result)
  <2>1. CASE register \in UserRegisters
    <3>1. /\ UsesOf(instructions[position], register) = 1
          /\ \A other \in UserRegisters \ {register} : UsesOf(instructions[position], other) = 0
          /\ Fixing(instructions[position], register)
      BY <1>1, <1>2, <2>1, FixingUses DEF Fixing
    <3> HIDE DEF register
    <3> QED BY <1>2, <2>1, <3>1, FixAdvances
  <2>2. CASE register \notin UserRegisters
    <3>1. result = Current
      BY <2>2, Registers DEF Fix
    <3>2. \A other \in UserRegisters : UsesOf(instructions[position], other) = 0
      BY <1>1, <1>2, <2>2, FixingUses
    <3> QED BY <1>1, <1>2, <3>1, <3>2, NothingAdvances
  <2> QED BY <2>1, <2>2
<1> HIDE DEF result
<1>6. CASE result.failure = "none"
  <2>1. GoesOn(result) /\ phase' = phase
    BY <1>1, <1>2, <1>4, <1>5, <1>6, ProceedGoesOn
  <2>2. Synced' /\ stale' = stale
    BY <1>1, <1>2, <2>1, UnexecutedSynced
  <2> QED BY <1>1, <1>2, <2>1, <2>2 DEF StaleInv
<1>7. CASE result.failure # "none"
  <2>1. ~(phase' = "generating" /\ Flawless')
    BY <1>1, <1>2, <1>4, <1>5, <1>7, ProceedGoesOn
  <2> QED BY <1>1, <1>2, <2>1 DEF StaleInv, execution
<1> QED BY <1>6, <1>7

\* or unfixed.
LEMMA UnfixStale ==
    ASSUME TypedSection, Inv, StaleInv, Flawless, UnfixRegister
    PROVE  StaleInv'
<1> DEFINE register == instructions[position].operand1.register
           result == Unfix(Current, register)
<1>1. /\ phase = "generating" /\ position \in DOMAIN instructions
      /\ instructions[position].mnemonic = "UNFIX" /\ Proceed(result) /\ UNCHANGED execution
  BY DEF UnfixRegister, IsNext
<1>2. Generating /\ Synced /\ stale = {}
  BY <1>1, StaleGenerating
<1>3. /\ Current \in States /\ Sound(Current)
  BY <1>2, CurrentAllocation
<1>4. result \in States /\ Sound(result)
  BY <1>3, UnfixTyped, UnfixSound
<1>5. result.failure = "none" => Advanced(result)
  <2>1. CASE register \in UserRegisters
    <3>1. /\ UsesOf(instructions[position], register) = 1
          /\ \A other \in UserRegisters \ {register} : UsesOf(instructions[position], other) = 0
          /\ Unfixing(instructions[position], register)
      BY <1>1, <1>2, <2>1, FixingUses DEF Unfixing
    <3> HIDE DEF register
    <3> QED BY <1>2, <2>1, <3>1, UnfixAdvances
  <2>2. CASE register \notin UserRegisters
    <3>1. result = Current
      BY <2>2, Registers DEF Unfix
    <3>2. \A other \in UserRegisters : UsesOf(instructions[position], other) = 0
      BY <1>1, <1>2, <2>2, FixingUses
    <3> QED BY <1>1, <1>2, <3>1, <3>2, NothingAdvances
  <2> QED BY <2>1, <2>2
<1> HIDE DEF result
<1>6. CASE result.failure = "none"
  <2>1. GoesOn(result) /\ phase' = phase
    BY <1>1, <1>2, <1>4, <1>5, <1>6, ProceedGoesOn
  <2>2. Synced' /\ stale' = stale
    BY <1>1, <1>2, <2>1, UnexecutedSynced
  <2> QED BY <1>1, <1>2, <2>1, <2>2 DEF StaleInv
<1>7. CASE result.failure # "none"
  <2>1. ~(phase' = "generating" /\ Flawless')
    BY <1>1, <1>2, <1>4, <1>5, <1>7, ProceedGoesOn
  <2> QED BY <1>1, <1>2, <2>1 DEF StaleInv, execution
<1> QED BY <1>6, <1>7

\* What an instruction reads is never misread if the mapping is kept.
LEMMA NothingMisread ==
    ASSUME Generating, Held, NEW some, NEW mapped,
           \A register \in some : register \in UserRegisters /\ Needs(instructions[position], register),
           \A register \in UserRegisters : mapping[register] # Unmapped => mapped[register] = mapping[register]
    PROVE  Misread(some, mapped, physical) = {}
<1> SUFFICES ASSUME NEW register \in some, virtual[register] # Undefined
             PROVE  Holds(physical, mapped[register]) = virtual[register]
  BY DEF Misread
<1>1. register \in UserRegisters /\ Needs(instructions[position], register)
  OBVIOUS
<1>2. mapping[register] # Unmapped /\ Holds(physical, mapping[register]) = virtual[register]
  BY <1>1, NeededHeld
<1> QED BY <1>1, <1>2

\* What an instruction reads is what it depends on.
LEMMA ReadNeeds ==
    ASSUME Generating, IsRegular(instructions), instructions[position].mnemonic \notin {"FIX", "UNFIX"},
           NEW register \in ReadRegisters(instructions[position])
    PROVE  register \in UserRegisters /\ Needs(instructions[position], register)
<1> DEFINE instruction == instructions[position]
<1>1. register \in UserRegisters /\ position \in DOMAIN instructions
  BY DEF ReadRegisters, Generating, TypedSection, IsSection
<1>2. CASE register \in {instruction.operand2.register, instruction.operand3.register}
  BY <1>1, <1>2 DEF Needs
<1>3. CASE instruction.operand1.register = register
  <2>1. UsesOf(instruction, register) # 0
    BY <1>3 DEF UsesOf
  <2>2. ModifiedRegister(instruction) # register \/ Needs(instruction, register)
    <3>1. CASE instruction.mnemonic = "CALL"
      <4>1. instruction.operand1.register # RRes
        BY <1>1, <3>1 DEF IsRegular
      <4> QED BY <1>3, <3>1, <4>1 DEF ModifiedRegister
    <3>2. CASE instruction.mnemonic # "CALL" /\ IsMemory(instruction.operand1)
      BY <1>1, <3>2, UserRegister DEF ModifiedRegister, IsMemory, IsRegister
    <3>3. CASE instruction.mnemonic # "CALL" /\ ~IsMemory(instruction.operand1)
      BY <1>3, <3>3 DEF ReadRegisters, Needs
    <3> QED BY <3>1, <3>2, <3>3
  <2> QED BY <1>1, <2>1, <2>2 DEF Needs
<1> QED BY <1>1, <1>2, <1>3 DEF ReadRegisters

\* An instruction that is supported is generated,
LEMMA GenerateStale ==
    ASSUME TypedSection, Inv, StaleInv, Flawless, Generate
    PROVE  StaleInv'
<1> DEFINE instruction == instructions[position]
           modified == ModifiedRegister(instruction)
           acquired == Acquire(Current, modified, position)
           checked == Check(acquired, {instruction.operand1, instruction.operand2, instruction.operand3})
           result == ReleaseAll(checked, instruction)
           generated == Placed(physical, stacked, instruction, acquired.mapping)
           intended == Placed(virtual, pushed, instruction, Itself)
           misread == Misread(ReadRegisters(instruction), acquired.mapping, physical)
<1>1. /\ phase = "generating" /\ position \in DOMAIN instructions
      /\ instruction.mnemonic \notin {"FIX", "UNFIX"}
      /\ Proceed(result)
  BY DEF Generate, IsNext, Mnemonics, UnaryMnemonics, BinaryMnemonics
<1>2. IF checked.failure # "none" THEN UNCHANGED execution
      ELSE Executes(generated.file, generated.stack, misread)
  BY DEF Generate, Placed
<1>3. Generating /\ Synced /\ stale = {}
  BY <1>1, StaleGenerating
<1>4. IsRegular(instructions) /\ Held
  BY <1>3 DEF Synced
<1>5. /\ acquired \in States /\ Sound(acquired)
      /\ checked \in States /\ Sound(checked)
      /\ result \in States /\ Sound(result)
  <2>1. /\ Current \in States /\ Sound(Current) /\ Len(instructions) \in Nat
        /\ position \in 1 .. Len(instructions)
    BY <1>3, CurrentAllocation DEF Generating
  <2>2. acquired \in States /\ Sound(acquired)
    BY <2>1, AcquireTyped, AcquireSound
  <2> HIDE DEF acquired
  <2>3. checked \in States /\ Sound(checked)
    BY <2>2, CheckTyped, CheckSound
  <2> HIDE DEF checked
  <2>4. result \in States /\ Sound(result)
    BY <2>3, ReleaseAllTyped, ReleaseAllSound
  <2> QED BY <2>2, <2>3, <2>4 DEF checked
<1>6. checked.failure # "none" => result.failure # "none"
  <2> HIDE DEF checked
  <2> QED BY <1>5, CountedDownSound DEF ReleaseAll
<1>7. checked.failure = "none" =>
        /\ result.failure = "none"
        /\ Advanced(result)
        /\ modified \in UserRegisters => acquired.mapping[modified] # Unmapped
        /\ \A register \in UserRegisters :
            /\ mapping[register] # Unmapped \/ register # modified =>
                    acquired.mapping[register] = mapping[register]
            /\ result.mapping[register] \in {acquired.mapping[register], Unmapped}
  BY <1>1, <1>3, GenerateAdvances
<1>8. checked.failure = "none" => GoesOn(result) /\ phase' = phase
  <2> HIDE DEF result, checked
  <2> QED BY <1>1, <1>3, <1>5, <1>7, ProceedGoesOn
<1>9. CASE checked.failure # "none"
  <2>1. ~(phase' = "generating" /\ Flawless')
    <3> HIDE DEF result, checked
    <3> QED BY <1>1, <1>3, <1>5, <1>6, <1>9, ProceedGoesOn
  <2> QED BY <1>2, <1>3, <1>9, <2>1 DEF StaleInv, execution
<1>10. CASE checked.failure = "none" /\ position < target
  <2>1. UNCHANGED execution
    BY <1>2, <1>10 DEF Executes
  <2> HIDE DEF result
  <2>2. Synced' /\ stale' = stale
    BY <1>3, <1>8, <1>10, <2>1, UnexecutedSynced
  <2> QED BY <1>1, <1>3, <1>8, <1>10, <2>2 DEF StaleInv
<1>11. CASE checked.failure = "none" /\ ~(position < target)
  <2>1. Executes(generated.file, generated.stack, misread)
    BY <1>2, <1>11
  <2>2. misread = {}
    <3>1. \A register \in ReadRegisters(instruction) :
                register \in UserRegisters /\ Needs(instruction, register)
      BY <1>1, <1>3, <1>4, ReadNeeds
    <3>2. \A register \in UserRegisters : mapping[register] # Unmapped =>
                acquired.mapping[register] = mapping[register]
      BY <1>7, <1>11
    <3> HIDE DEF acquired
    <3> QED BY <1>3, <1>4, <3>1, <3>2, NothingMisread
  <2>3. /\ acquired.mapping \in [UserRegisters -> Physical \cup {Unmapped}]
        /\ Apart(acquired.mapping)
    BY <1>5 DEF States, Sound
  <2> DEFINE mapped == acquired.mapping
  <2>4. /\ intended.file \in [UserRegisters -> Nat] /\ generated.file \in [Physical -> Nat]
        /\ RegistersMatch(mapped, intended.file, generated.file)
        /\ StacksMatch(intended.stack, generated.stack)
        /\ \A register \in UserRegisters : intended.file[register] # Undefined =>
                ModifiedBefore(instructions, position + 1, register)
    <3> HIDE DEF acquired
    <3> QED BY <1>1, <1>3, <1>4, <1>7, <1>11, <2>3, ExecutedMatches
  <2>5. RegistersMatch(result.mapping, intended.file, generated.file)
    <3> HIDE DEF result, intended, generated, acquired
    <3> QED BY <1>7, <1>11, <2>4 DEF RegistersMatch
  <2> HIDE DEF result, intended, generated, misread
  <2>6. Synced' /\ stale' = stale \cup misread
    BY <1>3, <1>8, <1>11, <2>1, <2>4, <2>5, ExecutedSynced DEF intended
  <2> QED BY <1>1, <1>3, <1>8, <1>11, <2>2, <2>6 DEF StaleInv
<1> QED BY <1>9, <1>10, <1>11

\* What the registers of the machine hold when a function has been called:
\* those that were saved are restored, and the result is moved to its target.
Restored(returned, resumed) ==
    LET instruction == instructions[position]
        modified == ModifiedRegister(instruction)
        kept == Kept(Current, instruction)
        clobbered == [register \in Physical |-> IF register = 0 THEN position ELSE Undefined]
        moved == IF IsUser(modified) THEN [clobbered EXCEPT ![returned.mapping[modified]] = position]
                 ELSE clobbered
    IN  [register \in Physical |->
            IF \E spared \in kept : resumed.mapping[spared] = register
            THEN physical[mapping[CHOOSE spared \in kept : resumed.mapping[spared] = register]]
            ELSE moved[register]]

\* What is needed later has been saved.
LEMMA RestoredMatches ==
    ASSUME Generating, Synced, NEW returned, NEW resumed, NEW result, Calls(returned, resumed, result),
           NEW intended,
           intended = IF ModifiedRegister(instructions[position]) \in UserRegisters
                      THEN [virtual EXCEPT ![ModifiedRegister(instructions[position])] = position] ELSE virtual
    PROVE  /\ Restored(returned, resumed) \in [Physical -> Nat]
           /\ intended \in [UserRegisters -> Nat]
           /\ RegistersMatch(result.mapping, intended, Restored(returned, resumed))
           /\ \A register \in UserRegisters : intended[register] # Undefined =>
                    ModifiedBefore(instructions, position + 1, register)
<1> DEFINE instruction == instructions[position]
           modified == ModifiedRegister(instruction)
           kept == Kept(Current, instruction)
           clobbered == [register \in Physical |-> IF register = 0 THEN position ELSE Undefined]
           moved == IF modified \in UserRegisters
                    THEN [clobbered EXCEPT ![returned.mapping[modified]] = position] ELSE clobbered
           restored == Restored(returned, resumed)
<1>1. /\ position \in Nat \ {0}
      /\ virtual \in [UserRegisters -> Nat] /\ physical \in [Physical -> Nat]
      /\ mapping \in [UserRegisters -> Physical \cup {Unmapped}]
      /\ mapping[RRes] \in {0, Unmapped}
      /\ \A register \in UserRegisters :
            /\ virtual[register] # Undefined => ModifiedBefore(instructions, position, register)
            /\ virtual[register] # Undefined /\ mapping[register] # Unmapped =>
                    physical[mapping[register]] = virtual[register]
            /\ mapping[register] # Unmapped <=> uses[register] # 0 \/ fixes[register] # 0
            /\ uses[register] \in Nat /\ UsesOf(instruction, register) \in Nat
  BY CurrentAllocation, UsesOfTyped DEF Generating, Synced, Held, RegistersMatch, TypedSection, TypeOK
<1>2. kept = {register \in UserRegisters : register # modified /\ uses[register] > UsesOf(instruction, register)}
  BY CurrentAllocation DEF Kept
<1>3. \A register \in kept : mapping[register] \in Physical /\ mapping[register] # Unmapped
  BY <1>1, <1>2
<1>4. /\ modified \in UserRegisters => returned.mapping[modified] \in Physical
      /\ Apart(resumed.mapping)
      /\ resumed.mapping[RRes] \in {0, Unmapped} /\ returned.mapping[RRes] = 0
      /\ \A register \in UserRegisters :
            /\ register # RRes => resumed.mapping[register] = returned.mapping[register]
            /\ register \notin {RRes, modified} => resumed.mapping[register] \in {mapping[register], Unmapped}
            /\ result.mapping[register] \in {resumed.mapping[register], Unmapped}
            /\ result.mapping[register] # Unmapped /\ register # modified =>
                    uses[register] > UsesOf(instruction, register)
      /\ result \in States
  BY DEF Calls
<1>5. IsUser(modified) <=> modified \in UserRegisters
  BY Registers
<1> HIDE DEF instruction, modified, kept
<1>6. moved \in [Physical -> Nat]
  BY <1>1, <1>4 DEF Undefined
<1>7. restored = [register \in Physical |->
            IF \E spared \in kept : resumed.mapping[spared] = register
            THEN physical[mapping[CHOOSE spared \in kept : resumed.mapping[spared] = register]]
            ELSE moved[register]]
  BY <1>5 DEF Restored, instruction, modified, kept
<1>8. modified \in UserRegisters => moved[returned.mapping[modified]] = position
  BY <1>4
<1> HIDE DEF moved, restored
<1>9. restored \in [Physical -> Nat]
  <2> SUFFICES ASSUME NEW some \in Physical
               PROVE  (IF \E spared \in kept : resumed.mapping[spared] = some
                       THEN physical[mapping[CHOOSE spared \in kept : resumed.mapping[spared] = some]]
                       ELSE moved[some]) \in Nat
    BY <1>7
  <2>1. CASE \E spared \in kept : resumed.mapping[spared] = some
    <3>1. (CHOOSE spared \in kept : resumed.mapping[spared] = some) \in kept
      BY <2>1
    <3> QED BY <1>1, <1>3, <2>1, <3>1
  <2>2. CASE ~ \E spared \in kept : resumed.mapping[spared] = some
    BY <1>6, <2>2
  <2> QED BY <2>1, <2>2
<1>10. intended = IF modified \in UserRegisters THEN [virtual EXCEPT ![modified] = position] ELSE virtual
  BY DEF modified, instruction
<1>11. /\ intended \in [UserRegisters -> Nat]
       /\ modified \in UserRegisters => intended[modified] = position
       /\ \A register \in UserRegisters \ {modified} : intended[register] = virtual[register]
  BY <1>1, <1>10
<1>12. ASSUME NEW register \in UserRegisters, intended[register] # Undefined, result.mapping[register] # Unmapped
       PROVE  restored[result.mapping[register]] = intended[register]
  <2> DEFINE some == result.mapping[register]
  <2>1. some = resumed.mapping[register] /\ some \in Physical
    BY <1>4, <1>12 DEF States
  <2>2. \A spared \in kept : resumed.mapping[spared] = some => spared = register
    BY <1>2, <1>4, <1>12, <2>1 DEF Apart
  <2>3. CASE register # modified
    <3>1. register \in kept
      BY <1>2, <1>4, <1>12, <2>3
    <3>2. (CHOOSE spared \in kept : resumed.mapping[spared] = some) = register
      BY <2>1, <2>2, <3>1
    <3>3. restored[some] = physical[mapping[register]]
      BY <1>7, <2>1, <3>1, <3>2
    <3>4. virtual[register] = intended[register]
      BY <1>11, <2>3
    <3> QED BY <1>1, <1>3, <1>12, <3>1, <3>3, <3>4
  <2>4. CASE register = modified
    <3>1. ~ \E spared \in kept : resumed.mapping[spared] = some
      BY <1>2, <2>2, <2>4
    <3>2. restored[some] = moved[some]
      BY <1>7, <2>1, <3>1
    <3>3. some = returned.mapping[modified]
      BY <1>4, <1>12, <2>1, <2>4
    <3> QED BY <1>8, <1>11, <2>4, <3>2, <3>3
  <2> QED BY <2>3, <2>4
<1>13. \A register \in UserRegisters : intended[register] # Undefined =>
            ModifiedBefore(instructions, position + 1, register)
  <2>1. \A register \in UserRegisters : ModifiedBefore(instructions, position + 1, register) <=>
            ModifiedBefore(instructions, position, register) \/ modified = register
    BY <1>1, ModifiedOn DEF modified, instruction
  <2> QED BY <1>1, <1>11, <2>1
<1> QED BY <1>9, <1>11, <1>12, <1>13 DEF RegistersMatch, restored

\* and one that is not becomes a call of a function.
LEMMA CallRuntimeStale ==
    ASSUME TypedSection, Inv, StaleInv, Flawless, CallRuntime
    PROVE  StaleInv'
<1> DEFINE instruction == instructions[position]
           operand == instruction.operand1
           modified == ModifiedRegister(instruction)
           acquired == Called(Current, instruction)
           returned == Returned(acquired)
           resumed == Resumed(acquired, instruction)
           tested == Tested(resumed, instruction)
           result == Release(tested, operand.register, 1)
           clobbered == [register \in Physical |-> IF register = 0 THEN position ELSE Undefined]
           restored == Restored(returned, resumed)
           intended == Placed(virtual, pushed, instruction, Itself)
           read == {argument.register : argument \in Arguments(instruction)} \cap UserRegisters
           addressed == IF IsModifying(instruction) /\ IsMemory(operand)
                        THEN {operand.register} \cap UserRegisters ELSE {}
           misread == Misread(read, mapping, physical) \cup Misread(addressed, returned.mapping, clobbered)
<1>1. /\ phase = "generating" /\ position \in DOMAIN instructions
      /\ instruction.mnemonic \in Mnemonics \cap Unsupported
      /\ Proceed(result)
  BY DEF CallRuntime, IsNext
<1>2. IF result.failure # "none" THEN UNCHANGED execution ELSE Executes(restored, stacked, misread)
  BY DEF CallRuntime, Restored
<1>3. Generating /\ Synced /\ stale = {}
  BY <1>1, StaleGenerating
<1>4. /\ RuntimeRight(instructions, position) /\ IsRegular(instructions) /\ Held
      /\ mapping[RRes] \in {0, Unmapped}
      /\ instruction.mnemonic \notin {"FIX", "UNFIX", "CALL", "PUSH", "POP"}
  BY <1>1, <1>3 DEF Synced, IsRegular, RuntimeRight, Mnemonics, UnaryMnemonics, BinaryMnemonics
<1>5. result \in States /\ Sound(result)
  <2>1. /\ Current \in States /\ Sound(Current) /\ Len(instructions) \in Nat
        /\ position \in 1 .. Len(instructions)
    BY <1>3, CurrentAllocation DEF Generating
  <2>2. acquired \in States /\ Sound(acquired)
    BY <2>1, CalledTyped, CalledSound
  <2> HIDE DEF acquired
  <2>3. tested \in States /\ Sound(tested)
    BY <2>2, ResumedTyped, TestedTyped, FinishedSound
  <2> HIDE DEF tested
  <2> QED BY <2>3, ReleaseTyped, ReleaseSound
<1>6. result.failure = "none" => Calls(returned, resumed, result)
  BY <1>3, <1>4, RuntimeAdvances
<1>7. /\ result.failure = "none" => GoesOn(result) /\ phase' = phase
      /\ result.failure # "none" => ~(phase' = "generating" /\ Flawless')
  <2> HIDE DEF result, resumed, returned
  <2> QED BY <1>1, <1>3, <1>5, <1>6, ProceedGoesOn DEF Calls
<1>8. CASE result.failure # "none"
  BY <1>2, <1>3, <1>7, <1>8 DEF StaleInv, execution
<1>9. CASE result.failure = "none" /\ position < target
  <2>1. UNCHANGED execution
    BY <1>2, <1>9 DEF Executes
  <2> HIDE DEF result
  <2>2. Synced' /\ stale' = stale
    BY <1>3, <1>7, <1>9, <2>1, UnexecutedSynced
  <2> QED BY <1>1, <1>3, <1>7, <1>9, <2>2 DEF StaleInv
<1>10. CASE result.failure = "none" /\ ~(position < target)
  <2>1. Executes(restored, stacked, misread)
    BY <1>2, <1>10
  <2>2. Misread(read, mapping, physical) = {}
    <3>1. ASSUME NEW register \in read
          PROVE  register \in UserRegisters /\ Needs(instruction, register)
      <4>1. PICK argument \in Arguments(instruction) : register = argument.register
        OBVIOUS
      <4>2. CASE argument \in {instruction.operand2, instruction.operand3}
        BY <4>1, <4>2 DEF Needs
      <4>3. CASE argument = operand /\ ~IsModifying(instruction)
        <5>1. modified # register
          BY <1>4, <3>1, <4>3, UserRegister DEF ModifiedRegister
        <5>2. UsesOf(instruction, register) # 0
          BY <4>1, <4>3 DEF UsesOf
        <5> QED BY <5>1, <5>2 DEF Needs
      <4> QED BY <4>1, <4>2, <4>3 DEF Arguments
    <3> QED BY <1>3, <1>4, <3>1, NothingMisread
  <2>3. Misread(addressed, returned.mapping, clobbered) = {}
    BY <1>4 DEF RuntimeRight, Misread
  <2>4. /\ intended.file = IF modified \in UserRegisters
                           THEN [virtual EXCEPT ![modified] = position] ELSE virtual
        /\ intended.stack = pushed
    <3>1. Places(virtual, pushed, instruction, Itself, intended)
      BY PlacedAs
    <3>2. modified \in UserRegisters => Itself[modified] = modified
      BY DEF Itself
    <3> QED BY <1>4, <3>1, <3>2, Registers DEF Places
  <2>5. /\ restored \in [Physical -> Nat]
        /\ intended.file \in [UserRegisters -> Nat]
        /\ RegistersMatch(result.mapping, intended.file, restored)
        /\ \A register \in UserRegisters : intended.file[register] # Undefined =>
                ModifiedBefore(instructions, position + 1, register)
    <3> HIDE DEF result, resumed, returned, intended
    <3> QED BY <1>3, <1>6, <1>10, <2>4, RestoredMatches DEF restored
  <2>6. StacksMatch(intended.stack, stacked)
    BY <1>4, <2>4 DEF Held
  <2> HIDE DEF result, intended, restored, misread
  <2>7. Synced' /\ stale' = stale \cup misread
    BY <1>3, <1>7, <1>10, <2>1, <2>5, <2>6, ExecutedSynced DEF intended
  <2>8. misread = {}
    BY <2>2, <2>3 DEF misread
  <2> QED BY <1>1, <1>3, <1>7, <1>10, <2>7, <2>8 DEF StaleInv
<1> QED BY <1>8, <1>9, <1>10

\* Nothing is executed after an error.
LEMMA FlawedStale ==
    ASSUME StaleInv, ~Flawless, FixRegister \/ UnfixRegister \/ Generate \/ CallRuntime
    PROVE  StaleInv'
<1>1. \E result : Proceed(result)
  BY DEF FixRegister, UnfixRegister, Generate, CallRuntime
<1>2. UNCHANGED execution
  <2>1. CASE FixRegister \/ UnfixRegister
    BY <2>1 DEF FixRegister, UnfixRegister
  <2>2. ASSUME NEW file, NEW actual, NEW misread, Executes(file, actual, misread) PROVE UNCHANGED execution
    BY <2>2 DEF Executes
  <2>3. CASE Generate
    BY <2>2, <2>3 DEF Generate
  <2>4. CASE CallRuntime
    BY <2>2, <2>4 DEF CallRuntime
  <2> QED BY <2>1, <2>3, <2>4
<1>3. ~Flawless'
  BY <1>1, FlawRemains
<1> QED BY <1>2, <1>3 DEF StaleInv, execution

\* Nothing is executed at the end of a section.
LEMMA EndStale ==
    ASSUME StaleInv, EndSection
    PROVE  StaleInv'
<1>1. stale' = stale /\ phase' \in {"done", "assertion"}
  BY DEF EndSection, GiveUp, execution
<1> QED BY <1>1 DEF StaleInv

-----------------------------------------------------------------------------
(* Nothing is ever stale.                                                  *)

\* All steps together.
LEMMA StepStale ==
    ASSUME TypedSection, Inv, StaleInv, Step
    PROVE  StaleInv'
<1>1. CASE Flawless
  BY <1>1, FixStale, UnfixStale, GenerateStale, CallRuntimeStale, EndStale DEF Step
<1>2. CASE ~Flawless
  BY <1>2, FlawedStale, EndStale DEF Step
<1> QED BY <1>1, <1>2

\* At first nothing is generated.
LEMMA InitStale ==
    ASSUME Init
    PROVE  TypedSection /\ Inv /\ StaleInv
<1>1. TypedSection
  BY GeneratorAssumption DEF Init, TypedSection, TypeOK, IsSection
<1>2. StaleInv
  BY DEF Init, StaleInv
<1> QED BY <1>1, <1>2, InitInv

\* Nothing happens.
LEMMA UnchangedStale ==
    ASSUME TypedSection, Inv, StaleInv, UNCHANGED vars
    PROVE  (TypedSection /\ Inv /\ StaleInv)'
<1>1. /\ instructions' = instructions /\ position' = position /\ uses' = uses /\ fixes' = fixes
      /\ mapping' = mapping /\ phase' = phase /\ virtual' = virtual /\ pushed' = pushed
      /\ physical' = physical /\ stacked' = stacked /\ target' = target /\ stale' = stale
      /\ errors' = errors /\ leaked' = leaked
  BY DEF vars, allocation, execution
<1>2. TypedSection' /\ Inv'
  BY TypedStep, NextInv
<1>3. phase = "generating" /\ Flawless => Synced'
  <2>1. IsRegular(instructions)' <=> IsRegular(instructions)
    BY <1>1 DEF IsRegular, SkipsRight, RuntimeRight
  <2>2. Tracked' <=> Tracked
    BY <1>1 DEF Tracked
  <2>3. Held' <=> Held
    BY <1>1 DEF Held, RegistersMatch, StacksMatch
  <2>4. Targeted' <=> Targeted
    BY <1>1 DEF Targeted
  <2> QED BY <1>1, <2>1, <2>2, <2>3, <2>4 DEF Synced, StaleInv
<1> QED BY <1>1, <1>2, <1>3 DEF StaleInv, Flawless

\* If the sections that are processed are regular, the machine code reads no
\* register for another: neither a physical register that has been given away,
\* nor one that a branch or a function of the runtime library left behind.
THEOREM NothingStale ==
    ASSUME \A given \in Sections : IsRegular(given)
    PROVE  Spec => []NeverStale
<1> DEFINE Stale == TypedSection /\ Inv /\ StaleInv
<1>1. Init => Stale
  BY InitStale
<1>2. Stale /\ [Next]_vars => Stale'
  <2> SUFFICES ASSUME TypedSection, Inv, StaleInv, [Next]_vars PROVE Stale'
    OBVIOUS
  <2>1. CASE UNCHANGED vars
    BY <2>1, UnchangedStale
  <2>2. TypedSection' /\ Inv'
    BY TypedStep, NextInv
  <2>3. ASSUME NEW given \in Sections, Process(given) PROVE StaleInv'
    BY <2>3, ProcessStale, GeneratorAssumption DEF IsSection
  <2> QED BY <2>1, <2>2, <2>3, StepStale DEF Next
<1>3. Stale => NeverStale
  BY DEF StaleInv, NeverStale
<1> QED BY <1>1, <1>2, <1>3, PTL DEF Spec

-----------------------------------------------------------------------------
(* No section is rejected.                                                 *)

\* An instruction passes if the state of the allocation does.
LEMMA ProceedAccepted ==
    ASSUME phase = "generating", errors = {}, NEW result, Proceed(result), result.failure \in Passing
    PROVE  SectionAccepted'
<1>1. CASE result.failure = "none"
  BY <1>1 DEF Proceed, SectionAccepted
<1>2. CASE result.failure = "register shortage"
  BY <1>2 DEF Proceed, SectionAccepted
<1> QED BY <1>1, <1>2 DEF Passing

\* Nothing is claimed of a section that is not proper, or in which something
\* has gone wrong before.
LEMMA FlawedAccepted ==
    ASSUME SectionAccepted, ~Flawless \/ ~IsProper(instructions), phase = "generating", Step
    PROVE  SectionAccepted'
<1>1. "register shortage" \in errors \/ leaked # {} \/ ~IsProper(instructions)
  BY DEF SectionAccepted, Flawless
<1>2. errors \subseteq errors' /\ leaked \subseteq leaked' /\ instructions' = instructions
  <2>1. CASE EndSection
    BY <2>1 DEF EndSection, GiveUp
  <2>2. CASE \E result : Proceed(result)
    BY <2>2 DEF Proceed
  <2> QED BY <2>1, <2>2 DEF Step, FixRegister, UnfixRegister, Generate, CallRuntime
<1>3. IsProper(instructions)' <=> IsProper(instructions)
  BY <1>2 DEF IsProper
<1> QED BY <1>1, <1>2, <1>3 DEF SectionAccepted

\* What needs the contents of a register, other than that of results, reads it.
LEMMA ProperNeeds ==
    ASSUME IsProper(instructions), Generating, instructions[position].mnemonic \notin {"FIX", "UNFIX"},
           NEW register \in UserRegisters, Needs(instructions[position], register), register # RRes
    PROVE  ModifiedBefore(instructions, position, register)
<1> DEFINE instruction == instructions[position]
<1>1. position \in DOMAIN instructions
  BY DEF Generating, TypedSection, IsSection
<1>2. register \in ReadRegisters(instruction)
  <2>1. CASE register \in {instruction.operand2.register, instruction.operand3.register}
    BY <2>1 DEF ReadRegisters
  <2>2. CASE /\ register \notin {instruction.operand2.register, instruction.operand3.register}
             /\ UsesOf(instruction, register) # 0 /\ ModifiedRegister(instruction) # register
    <3>1. instruction.operand1.register = register
      BY <2>2 DEF UsesOf
    <3> QED BY <2>2, <3>1 DEF ReadRegisters
  <2> QED BY <2>1, <2>2 DEF Needs
<1> QED BY <1>1, <1>2 DEF IsProper

\* Registers are fixed that are not,
LEMMA FixAccepted ==
    ASSUME TypedSection, Inv, StaleInv, Flawless, IsProper(instructions), FixRegister
    PROVE  SectionAccepted'
<1> DEFINE register == instructions[position].operand1.register
           result == Fix(Current, register, position)
<1>1. /\ phase = "generating" /\ position \in DOMAIN instructions
      /\ instructions[position].mnemonic = "FIX" /\ Proceed(result)
  BY DEF FixRegister, IsNext
<1>2. Generating /\ Synced
  BY <1>1, StaleGenerating
<1>3. result.failure \in Passing
  <2>1. CASE register \in UserRegisters
    <3>1. /\ UsesOf(instructions[position], register) = 1
          /\ \A other \in UserRegisters \ {register} : UsesOf(instructions[position], other) = 0
          /\ Fixing(instructions[position], register)
      BY <1>1, <1>2, <2>1, FixingUses DEF Fixing
    <3>2. ~FixedAt(instructions, position, register)
      BY <1>1, <1>2, <2>1, <3>1 DEF IsProper
    <3> HIDE DEF register
    <3> QED BY <1>2, <2>1, <3>1, <3>2, FixAdvances
  <2>2. CASE register \notin UserRegisters
    <3>1. result = Current
      BY <2>2, Registers DEF Fix
    <3> QED BY <1>2, <3>1, CurrentAllocation DEF Passing
  <2> QED BY <2>1, <2>2
<1> HIDE DEF result
<1> QED BY <1>1, <1>3, ProceedAccepted DEF Flawless

\* and unfixed that are fixed.
LEMMA UnfixAccepted ==
    ASSUME TypedSection, Inv, StaleInv, Flawless, IsProper(instructions), UnfixRegister
    PROVE  SectionAccepted'
<1> DEFINE register == instructions[position].operand1.register
           result == Unfix(Current, register)
<1>1. /\ phase = "generating" /\ position \in DOMAIN instructions
      /\ instructions[position].mnemonic = "UNFIX" /\ Proceed(result)
  BY DEF UnfixRegister, IsNext
<1>2. Generating /\ Synced
  BY <1>1, StaleGenerating
<1>3. result.failure = "none"
  <2>1. CASE register \in UserRegisters
    <3>1. /\ UsesOf(instructions[position], register) = 1
          /\ \A other \in UserRegisters \ {register} : UsesOf(instructions[position], other) = 0
          /\ Unfixing(instructions[position], register)
      BY <1>1, <1>2, <2>1, FixingUses DEF Unfixing
    <3>2. FixedAt(instructions, position, register)
      BY <1>1, <1>2, <2>1, <3>1 DEF IsProper
    <3> HIDE DEF register
    <3> QED BY <1>2, <2>1, <3>1, <3>2, UnfixAdvances
  <2>2. CASE register \notin UserRegisters
    <3>1. result = Current
      BY <2>2, Registers DEF Unfix
    <3> QED BY <1>2, <3>1, CurrentAllocation
  <2> QED BY <2>1, <2>2
<1> HIDE DEF result
<1> QED BY <1>1, <1>3, ProceedAccepted DEF Passing, Flawless

\* Registers that are used are mapped when an instruction is generated,
LEMMA GenerateAccepted ==
    ASSUME TypedSection, Inv, StaleInv, Flawless, IsProper(instructions), Generate
    PROVE  SectionAccepted'
<1> DEFINE instruction == instructions[position]
           acquired == Acquire(Current, ModifiedRegister(instruction), position)
           checked == Check(acquired, {instruction.operand1, instruction.operand2, instruction.operand3})
           result == ReleaseAll(checked, instruction)
<1>1. /\ phase = "generating" /\ position \in DOMAIN instructions
      /\ instruction.mnemonic \notin {"FIX", "UNFIX"}
      /\ Proceed(result)
  BY DEF Generate, IsNext, Mnemonics, UnaryMnemonics, BinaryMnemonics
<1>2. Generating
  BY <1>1, StaleGenerating
<1>3. checked.failure \in Passing
  BY <1>1, <1>2, ProperNeeds, GeneratePasses
<1>4. checked \in States
  <2>1. Current \in States /\ Len(instructions) \in Nat /\ position \in 1 .. Len(instructions)
    BY <1>2, CurrentAllocation DEF Generating
  <2>2. acquired \in States
    BY <2>1, AcquireTyped
  <2> HIDE DEF acquired
  <2> QED BY <2>2, CheckTyped
<1>5. result.failure \in Passing
  <2>1. CASE checked.failure = "none"
    <3>1. result.failure = "none"
      BY <1>1, <1>2, <2>1, GenerateAdvances
    <3> HIDE DEF result
    <3> QED BY <3>1 DEF Passing
  <2>2. CASE checked.failure # "none"
    <3> DEFINE counts == [register \in UserRegisters |-> UsesOf(instruction, register)]
    <3> HIDE DEF checked
    <3>1. counts \in [UserRegisters -> Nat]
      BY UsesOfTyped
    <3>2. result = CountedDown(checked, counts)
      BY DEF ReleaseAll
    <3> HIDE DEF result, counts
    <3>3. CountsDown(checked, counts, result)
      BY <1>4, <3>1, <3>2, CountedDownEffect
    <3> QED BY <1>3, <2>2, <3>3 DEF CountsDown
  <2> QED BY <2>1, <2>2
<1> HIDE DEF result
<1> QED BY <1>1, <1>5, ProceedAccepted DEF Flawless

\* or becomes a call of a function.
LEMMA CallRuntimeAccepted ==
    ASSUME TypedSection, Inv, StaleInv, Flawless, IsProper(instructions), CallRuntime
    PROVE  SectionAccepted'
<1> DEFINE instruction == instructions[position]
           acquired == Called(Current, instruction)
           resumed == Resumed(acquired, instruction)
           tested == Tested(resumed, instruction)
           result == Release(tested, instruction.operand1.register, 1)
<1>1. /\ phase = "generating" /\ position \in DOMAIN instructions
      /\ instruction.mnemonic \in Mnemonics \cap Unsupported
      /\ Proceed(result)
  BY DEF CallRuntime, IsNext
<1>2. Generating /\ Synced
  BY <1>1, StaleGenerating
<1>3. /\ RuntimeRight(instructions, position) /\ mapping[RRes] \in {0, Unmapped}
      /\ instruction.mnemonic \notin {"FIX", "UNFIX", "CALL"}
  BY <1>1, <1>2 DEF Synced, IsRegular, RuntimeRight, Mnemonics, UnaryMnemonics, BinaryMnemonics
<1>4. ~IsBranch(instruction)
  BY <1>1, <1>2, Registers DEF IsProper
<1>5. result.failure \in Passing
  BY <1>2, <1>3, <1>4, ProperNeeds, RuntimeAdvances
<1> HIDE DEF result
<1> QED BY <1>1, <1>5, ProceedAccepted DEF Flawless

\* Nothing is in use or fixed when a section ends.
LEMMA EndAccepted ==
    ASSUME TypedSection, Inv, StaleInv, Flawless, IsProper(instructions), EndSection
    PROVE  SectionAccepted'
<1>1. phase = "generating" /\ position > Len(instructions)
  BY DEF EndSection
<1>2. Synced /\ errors = {} /\ Len(instructions) \in Nat
  BY <1>1 DEF StaleInv, Flawless, TypedSection, IsSection
<1>3. position = Len(instructions) + 1
  BY <1>1, <1>2 DEF Synced
<1>4. ASSUME NEW register \in UserRegisters
      PROVE  fixes[register] = 0 /\ uses[register] = 0
  <2>1. /\ CountedAt(instructions, position, register, uses[register])
        /\ fixes[register] # 0 <=> FixedAt(instructions, position, register)
    BY <1>2 DEF Synced, Tracked
  <2>2. fixes[register] = 0
    BY <1>2, <1>3, <2>1 DEF IsProper
  <2>3. PICK fixed \in Int : uses[register] # 0 => uses[register] = AheadAt(instructions, register, position, fixed)
    BY <2>1 DEF CountedAt
  <2>4. AheadAt(instructions, register, position, fixed) = 0
    BY <1>2, <1>3, AheadEnd
  <2> QED BY <2>2, <2>3, <2>4
<1>5. phase' = "done" /\ errors' = {}
  BY <1>2, <1>4 DEF EndSection
<1> QED BY <1>5 DEF SectionAccepted

\* All steps together.
LEMMA StepAccepted ==
    ASSUME TypedSection, Inv, StaleInv, SectionAccepted, Step
    PROVE  SectionAccepted'
<1>1. phase = "generating"
  BY DEF Step, FixRegister, UnfixRegister, Generate, CallRuntime, EndSection, IsNext
<1>2. CASE Flawless /\ IsProper(instructions)
  BY <1>2, FixAccepted, UnfixAccepted, GenerateAccepted, CallRuntimeAccepted, EndAccepted DEF Step
<1>3. CASE ~Flawless \/ ~IsProper(instructions)
  BY <1>1, <1>3, FlawedAccepted
<1> QED BY <1>2, <1>3

\* Nothing happens.
LEMMA UnchangedAccepted ==
    ASSUME SectionAccepted, UNCHANGED vars
    PROVE  SectionAccepted' /\ (IsProper(instructions)' <=> IsProper(instructions))
<1>1. instructions' = instructions /\ phase' = phase /\ errors' = errors /\ leaked' = leaked
  BY DEF vars
<1>2. IsProper(instructions)' <=> IsProper(instructions)
  BY <1>1 DEF IsProper
<1> QED BY <1>1, <1>2 DEF SectionAccepted

\* Any section can begin.
LEMMA ProcessAccepted ==
    ASSUME NEW given, Process(given)
    PROVE  SectionAccepted'
BY DEF Process, SectionAccepted

\* If they are regular, those that are proper are accepted unless they need
\* more registers than there are, or sections that were given up have left
\* registers mapped: no operation on the allocation finds a register unmapped,
\* fixed, or left over, and no assertion about uses fails, although sections
\* that are in error may have been generated before.
THEOREM SectionsAccepted ==
    ASSUME \A given \in Sections : IsRegular(given)
    PROVE  Spec => []SectionAccepted
<1> DEFINE Stale == TypedSection /\ Inv /\ StaleInv
           All == Stale /\ SectionAccepted
<1>1. Init => All
  BY InitStale DEF SectionAccepted, Init
<1>2. All /\ [Next]_vars => All'
  <2> SUFFICES ASSUME TypedSection, Inv, StaleInv, SectionAccepted, [Next]_vars PROVE All'
    OBVIOUS
  <2>1. CASE UNCHANGED vars
    BY <2>1, UnchangedStale, UnchangedAccepted
  <2>2. TypedSection' /\ Inv'
    BY TypedStep, NextInv
  <2>3. ASSUME NEW given \in Sections, Process(given) PROVE StaleInv' /\ SectionAccepted'
    BY <2>3, ProcessStale, ProcessAccepted, GeneratorAssumption DEF IsSection
  <2> QED BY <2>1, <2>2, <2>3, StepStale, StepAccepted DEF Next
<1>3. All => SectionAccepted
  OBVIOUS
<1> QED BY <1>1, <1>2, <1>3, PTL DEF Spec

-----------------------------------------------------------------------------
(* The sections that are emitted.                                          *)

\* A sequence of anything.
IsSequence(list) == list \in Seq({list[index] : index \in DOMAIN list})

\* An instruction on its own, which never has its target in memory.
IsPlain(instruction) ==
    /\ instruction.mnemonic \in {"MOV", "CONV", "PUSH", "POP", "CALL"} \cup UnaryMnemonics \cup BinaryMnemonics
    /\ IsModifying(instruction) => ~IsMemory(instruction.operand1)
    /\ instruction.mnemonic = "CALL" =>
            instruction.operand1.register # RRes /\ instruction.operand2.displacement \in Nat

\* A branch that skips the modification of a register that is fixed.
IsBlock(list, from) ==
    LET register == list[from].operand1.register
    IN  /\ from + 3 \in DOMAIN list
        /\ list[from].mnemonic = "FIX"
        /\ list[from + 1].mnemonic = "BRLT" /\ list[from + 1].operand1.displacement = 2
        /\ list[from + 2].mnemonic = "MOV" /\ ModifiedRegister(list[from + 2]) = register
        /\ IsPlain(list[from + 2])
        /\ list[from + 3].mnemonic = "UNFIX" /\ list[from + 3].operand1.register = register
        /\ \A index \in {from, from + 3} :
            /\ list[index].operand2.register \notin UserRegisters
            /\ list[index].operand3.register \notin UserRegisters

Defined(list) == {register \in UserRegisters : \E index \in DOMAIN list : ModifiedRegister(list[index]) = register}

ReadsKnown(list, known) ==
    \A index \in DOMAIN list :
        list[index].mnemonic \notin {"FIX", "UNFIX"} =>
            \A register \in ReadRegisters(list[index]) : register \in known \/ ModifiedBefore(list, index, register)

\* Instructions that can follow others, which modify the registers that are known.
WellFormed(list, known) ==
    /\ IsSequence(list)
    /\ ReadsKnown(list, known)
    /\ \A index \in DOMAIN list :
        IsPlain(list[index]) \/ \E from \in DOMAIN list : IsBlock(list, from) /\ index \in from .. from + 3

\* Sequences one after the other.
LEMMA Joined ==
    ASSUME NEW first, NEW second, IsSequence(first), IsSequence(second)
    PROVE  /\ IsSequence(first \o second)
           /\ Len(first) \in Nat /\ Len(second) \in Nat
           /\ DOMAIN first = 1 .. Len(first) /\ DOMAIN second = 1 .. Len(second)
           /\ DOMAIN (first \o second) = 1 .. Len(first) + Len(second)
           /\ \A index \in 1 .. Len(first) : (first \o second)[index] = first[index]
           /\ \A index \in 1 .. Len(second) : (first \o second)[Len(first) + index] = second[index]
           /\ \A index \in 1 .. Len(first) + Len(second) :
                \/ index \in 1 .. Len(first)
                \/ \E other \in 1 .. Len(second) : index = Len(first) + other
<1> DEFINE parts == {first[index] : index \in DOMAIN first} \cup {second[index] : index \in DOMAIN second}
           joined == first \o second
<1>1. first \in Seq(parts) /\ second \in Seq(parts)
  BY DEF IsSequence
<1> HIDE DEF parts
<1>2. /\ joined \in Seq(parts) /\ Len(joined) = Len(first) + Len(second)
      /\ Len(first) \in Nat /\ Len(second) \in Nat
      /\ DOMAIN first = 1 .. Len(first) /\ DOMAIN second = 1 .. Len(second)
  BY <1>1, ConcatProperties
<1>3. DOMAIN joined = 1 .. Len(first) + Len(second)
  BY <1>2
<1>4. /\ \A index \in 1 .. Len(first) : joined[index] = first[index]
      /\ \A index \in 1 .. Len(second) : joined[Len(first) + index] = second[index]
  BY <1>1, <1>2, ConcatProperties
<1> HIDE DEF joined
<1>5. joined \in Seq({joined[index] : index \in DOMAIN joined})
  BY <1>2
<1>6. \A index \in 1 .. Len(first) + Len(second) :
            index \in 1 .. Len(first) \/ \E other \in 1 .. Len(second) : index = Len(first) + other
  <2> TAKE index \in 1 .. Len(first) + Len(second)
  <2>1. CASE index > Len(first)
    <3>1. index - Len(first) \in 1 .. Len(second) /\ index = Len(first) + (index - Len(first))
      BY <1>2, <2>1
    <3> QED BY <3>1
  <2> QED BY <1>2, <2>1
<1> QED BY <1>2, <1>3, <1>4, <1>5, <1>6 DEF joined, IsSequence

\* What is part of a block does not depend on what is before or after it.
LEMMA BlockShifted ==
    ASSUME NEW list, NEW other, NEW from \in Int, NEW shift \in Int, IsBlock(list, from),
           from + 3 + shift \in DOMAIN other,
           \A index \in from .. from + 3 : other[index + shift] = list[index]
    PROVE  IsBlock(other, from + shift)
<1>1. /\ other[from + shift] = list[from] /\ other[from + shift + 1] = list[from + 1]
      /\ other[from + shift + 2] = list[from + 2] /\ other[from + shift + 3] = list[from + 3]
      /\ from + shift + 3 \in DOMAIN other
  <2>1. /\ from \in from .. from + 3 /\ from + 1 \in from .. from + 3
        /\ from + 2 \in from .. from + 3 /\ from + 3 \in from .. from + 3
    OBVIOUS
  <2>2. /\ (from + 1) + shift = from + shift + 1 /\ (from + 2) + shift = from + shift + 2
        /\ (from + 3) + shift = from + shift + 3 /\ from + 3 + shift = from + shift + 3
    OBVIOUS
  <2> QED BY <2>1, <2>2
<1> QED BY <1>1 DEF IsBlock

\* What is well-formed can be followed by what needs nothing else.
LEMMA WellFormedJoined ==
    ASSUME NEW first, NEW second, NEW known, WellFormed(first, known), WellFormed(second, known \cup Defined(first))
    PROVE  /\ WellFormed(first \o second, known)
           /\ Defined(first \o second) = Defined(first) \cup Defined(second)
<1> DEFINE joined == first \o second
<1>1. /\ IsSequence(joined)
      /\ Len(first) \in Nat /\ Len(second) \in Nat
      /\ DOMAIN first = 1 .. Len(first) /\ DOMAIN second = 1 .. Len(second)
      /\ DOMAIN joined = 1 .. Len(first) + Len(second)
      /\ \A index \in 1 .. Len(first) : joined[index] = first[index]
      /\ \A index \in 1 .. Len(second) : joined[Len(first) + index] = second[index]
      /\ \A index \in 1 .. Len(first) + Len(second) :
           \/ index \in 1 .. Len(first)
           \/ \E other \in 1 .. Len(second) : index = Len(first) + other
  BY Joined DEF WellFormed
<1> HIDE DEF joined
<1>2. ASSUME NEW index \in 1 .. Len(first), NEW register, ModifiedBefore(first, index, register)
      PROVE  ModifiedBefore(joined, index, register)
  <2>1. PICK earlier \in 1 .. index - 1 : ModifiedRegister(first[earlier]) = register
    BY <1>2 DEF ModifiedBefore
  <2>2. earlier \in 1 .. Len(first)
    BY <1>1
  <2> QED BY <1>1, <2>1, <2>2 DEF ModifiedBefore
<1>3. ASSUME NEW index \in 1 .. Len(second), NEW register,
             register \in Defined(first) \/ ModifiedBefore(second, index, register)
      PROVE  ModifiedBefore(joined, Len(first) + index, register)
  <2>1. CASE register \in Defined(first)
    <3>1. PICK earlier \in 1 .. Len(first) : ModifiedRegister(first[earlier]) = register
      BY <1>1, <2>1 DEF Defined
    <3>2. earlier \in 1 .. (Len(first) + index) - 1
      BY <1>1
    <3> QED BY <1>1, <3>1, <3>2 DEF ModifiedBefore
  <2>2. CASE ModifiedBefore(second, index, register)
    <3>1. PICK earlier \in 1 .. index - 1 : ModifiedRegister(second[earlier]) = register
      BY <2>2 DEF ModifiedBefore
    <3>2. earlier \in 1 .. Len(second) /\ Len(first) + earlier \in 1 .. (Len(first) + index) - 1
      BY <1>1
    <3> QED BY <1>1, <3>1, <3>2 DEF ModifiedBefore
  <2> QED BY <1>3, <2>1, <2>2
<1>4. ReadsKnown(joined, known)
  <2>1. ASSUME NEW index \in DOMAIN joined, joined[index].mnemonic \notin {"FIX", "UNFIX"},
               NEW register \in ReadRegisters(joined[index])
        PROVE  register \in known \/ ModifiedBefore(joined, index, register)
    <3>1. CASE index \in 1 .. Len(first)
      <4>1. register \in known \/ ModifiedBefore(first, index, register)
        BY <1>1, <2>1, <3>1 DEF WellFormed, ReadsKnown
      <4> QED BY <1>2, <3>1, <4>1
    <3>2. ASSUME NEW other \in 1 .. Len(second), index = Len(first) + other
          PROVE  register \in known \/ ModifiedBefore(joined, index, register)
      <4>1. register \in known \cup Defined(first) \/ ModifiedBefore(second, other, register)
        BY <1>1, <2>1, <3>2 DEF WellFormed, ReadsKnown
      <4> QED BY <1>3, <3>2, <4>1
    <3> QED BY <1>1, <3>1, <3>2
  <2> QED BY <2>1 DEF ReadsKnown
<1>5. ASSUME NEW index \in DOMAIN joined
      PROVE  IsPlain(joined[index]) \/ \E from \in DOMAIN joined : IsBlock(joined, from) /\ index \in from .. from + 3
  <2>1. CASE index \in 1 .. Len(first)
    <3>1. CASE IsPlain(first[index])
      BY <1>1, <2>1, <3>1
    <3>2. ASSUME NEW from \in 1 .. Len(first), IsBlock(first, from), index \in from .. from + 3
          PROVE  from \in DOMAIN joined /\ IsBlock(joined, from)
      <4>1. from + 3 \in 1 .. Len(first) /\ from + 3 + 0 \in DOMAIN joined /\ from \in Int /\ 0 \in Int
        BY <1>1, <3>2 DEF IsBlock
      <4>2. \A some \in from .. from + 3 : some \in 1 .. Len(first) /\ some + 0 = some
        BY <1>1, <4>1
      <4>3. IsBlock(joined, from + 0)
        BY <1>1, <3>2, <4>1, <4>2, BlockShifted
      <4> QED BY <1>1, <4>3
    <3>3. IsPlain(first[index]) \/ \E from \in 1 .. Len(first) : IsBlock(first, from) /\ index \in from .. from + 3
      BY <1>1, <2>1 DEF WellFormed
    <3> QED BY <3>1, <3>2, <3>3
  <2>2. ASSUME NEW other \in 1 .. Len(second), index = Len(first) + other
        PROVE  IsPlain(joined[index]) \/ \E from \in DOMAIN joined : IsBlock(joined, from) /\ index \in from .. from + 3
    <3>1. CASE IsPlain(second[other])
      BY <1>1, <2>2, <3>1
    <3>2. ASSUME NEW from \in 1 .. Len(second), IsBlock(second, from), other \in from .. from + 3
          PROVE  /\ from + Len(first) \in DOMAIN joined /\ IsBlock(joined, from + Len(first))
                 /\ index \in from + Len(first) .. (from + Len(first)) + 3
      <4>1. /\ from + 3 \in 1 .. Len(second) /\ from + 3 + Len(first) \in DOMAIN joined
            /\ from \in Int /\ Len(first) \in Int
        BY <1>1, <3>2 DEF IsBlock
      <4>2. \A some \in from .. from + 3 : some \in 1 .. Len(second) /\ some + Len(first) = Len(first) + some
        BY <1>1, <4>1
      <4>3. IsBlock(joined, from + Len(first))
        BY <1>1, <3>2, <4>1, <4>2, BlockShifted
      <4> QED BY <1>1, <2>2, <3>2, <4>1, <4>3
    <3>3. IsPlain(second[other]) \/ \E from \in 1 .. Len(second) : IsBlock(second, from) /\ other \in from .. from + 3
      BY <1>1 DEF WellFormed
    <3> QED BY <3>1, <3>2, <3>3
  <2> QED BY <1>1, <2>1, <2>2
<1>6. Defined(joined) = Defined(first) \cup Defined(second)
  <2>1. ASSUME NEW register \in Defined(joined)
        PROVE  register \in Defined(first) \/ register \in Defined(second)
    <3>1. PICK index \in DOMAIN joined : ModifiedRegister(joined[index]) = register
      BY <2>1 DEF Defined
    <3>2. register \in UserRegisters
      BY <2>1 DEF Defined
    <3>3. CASE index \in 1 .. Len(first)
      BY <1>1, <3>1, <3>2, <3>3 DEF Defined
    <3>4. ASSUME NEW other \in 1 .. Len(second), index = Len(first) + other
          PROVE  register \in Defined(second)
      BY <1>1, <3>1, <3>2, <3>4 DEF Defined
    <3> QED BY <1>1, <3>1, <3>3, <3>4
  <2>2. ASSUME NEW register \in Defined(first)
        PROVE  register \in Defined(joined)
    <3>1. register \in UserRegisters /\ \E index \in 1 .. Len(first) : ModifiedRegister(first[index]) = register
      BY <1>1, <2>2 DEF Defined
    <3> QED BY <1>1, <3>1 DEF Defined
  <2>3. ASSUME NEW register \in Defined(second)
        PROVE  register \in Defined(joined)
    <3>1. PICK index \in 1 .. Len(second) : ModifiedRegister(second[index]) = register
      BY <1>1, <2>3 DEF Defined
    <3>2. Len(first) + index \in DOMAIN joined /\ joined[Len(first) + index] = second[index]
      BY <1>1
    <3>3. register \in UserRegisters
      BY <2>3 DEF Defined
    <3> QED BY <3>1, <3>2, <3>3 DEF Defined
  <2> QED BY <2>1, <2>2, <2>3
<1> QED BY <1>1, <1>4, <1>5, <1>6 DEF WellFormed, joined

\* Only conversions and arithmetic are left to the runtime library.
OnlyArithmetic == Unsupported \subseteq {"CONV"} \cup UnaryMnemonics \cup BinaryMnemonics

\* What fixes registers, branches, or unfixes them again has its place in a block.
LEMMA BlockPlaces ==
    ASSUME NEW list, NEW known, WellFormed(list, known), NEW index \in DOMAIN list
    PROVE  /\ Len(list) \in Nat /\ DOMAIN list = 1 .. Len(list)
           /\ list[index].mnemonic = "FIX" => IsBlock(list, index)
           /\ list[index].mnemonic = "BRLT" => index - 1 \in DOMAIN list /\ IsBlock(list, index - 1)
           /\ list[index].mnemonic = "UNFIX" => index - 3 \in DOMAIN list /\ IsBlock(list, index - 3)
           /\ list[index].mnemonic \notin {"FIX", "BRLT", "UNFIX"} => IsPlain(list[index])
<1>1. Len(list) \in Nat /\ DOMAIN list = 1 .. Len(list) /\ index \in Nat
  BY DEF WellFormed, IsSequence
<1>2. CASE IsPlain(list[index])
  BY <1>1, <1>2 DEF IsPlain, UnaryMnemonics, BinaryMnemonics
<1>3. ASSUME NEW from \in DOMAIN list, IsBlock(list, from), index \in from .. from + 3
      PROVE  /\ list[index].mnemonic = "FIX" => IsBlock(list, index)
             /\ list[index].mnemonic = "BRLT" => index - 1 \in DOMAIN list /\ IsBlock(list, index - 1)
             /\ list[index].mnemonic = "UNFIX" => index - 3 \in DOMAIN list /\ IsBlock(list, index - 3)
             /\ list[index].mnemonic \notin {"FIX", "BRLT", "UNFIX"} => IsPlain(list[index])
  <2>1. /\ list[from].mnemonic = "FIX" /\ list[from + 1].mnemonic = "BRLT"
        /\ list[from + 2].mnemonic = "MOV" /\ list[from + 3].mnemonic = "UNFIX"
        /\ IsPlain(list[from + 2])
    BY <1>3 DEF IsBlock
  <2>2. CASE index = from
    BY <1>3, <2>1, <2>2
  <2>3. CASE index = from + 1
    <3>1. index - 1 = from
      BY <1>1, <2>3
    <3> QED BY <1>3, <2>1, <2>3, <3>1
  <2>4. CASE index = from + 2
    BY <2>1, <2>4
  <2>5. CASE index = from + 3
    <3>1. index - 3 = from
      BY <1>1, <2>5
    <3> QED BY <1>3, <2>1, <2>5, <3>1
  <2>6. index = from \/ index = from + 1 \/ index = from + 2 \/ index = from + 3
    BY <1>1, <1>3
  <2> QED BY <2>2, <2>3, <2>4, <2>5, <2>6
<1> QED BY <1>1, <1>2, <1>3 DEF WellFormed

\* Registers are fixed within blocks only.
LEMMA FixedInBlocks ==
    ASSUME NEW list, NEW known, WellFormed(list, known), NEW index \in 1 .. Len(list) + 1,
           NEW register, FixedAt(list, index, register)
    PROVE  /\ index \in DOMAIN list
           /\ list[index].mnemonic \in {"BRLT", "MOV", "UNFIX"}
<1>1. Len(list) \in Nat /\ DOMAIN list = 1 .. Len(list)
  BY DEF WellFormed, IsSequence
<1>2. PICK start \in 1 .. index - 1 :
        /\ Fixing(list[start], register)
        /\ \A between \in start + 1 .. index - 1 : ~Unfixing(list[between], register)
  BY DEF FixedAt, FixedOver
<1>3. start \in DOMAIN list /\ IsBlock(list, start)
  <2>1. start \in DOMAIN list /\ list[start].mnemonic = "FIX"
    BY <1>1, <1>2 DEF Fixing
  <2> QED BY <2>1, BlockPlaces
<1>4. /\ Unfixing(list[start + 3], register) /\ start + 3 \in DOMAIN list
      /\ list[start + 1].mnemonic = "BRLT" /\ list[start + 2].mnemonic = "MOV" /\ list[start + 3].mnemonic = "UNFIX"
  BY <1>2, <1>3 DEF IsBlock, Fixing, Unfixing
<1>5. ~(start + 3 \in start + 1 .. index - 1)
  BY <1>2, <1>4
<1>6. index = start + 1 \/ index = start + 2 \/ index = start + 3
  BY <1>1, <1>2, <1>5
<1> QED BY <1>1, <1>4, <1>6

\* The sections that are emitted can be generated.
LEMMA WellFormedRegular ==
    ASSUME OnlyArithmetic, NEW list, WellFormed(list, {})
    PROVE  IsSection(list) /\ IsRegular(list) /\ IsProper(list)
<1>1. Len(list) \in Nat /\ DOMAIN list = 1 .. Len(list)
  BY DEF WellFormed, IsSequence
<1>2. \A register \in UserRegisters : register # RVoid
  BY UserRegister
<1>3. ASSUME NEW index \in DOMAIN list, NEW register, list[index].mnemonic \notin {"BRLT", "MOV", "UNFIX"}
      PROVE  ~FixedAt(list, index, register)
  BY <1>1, <1>3, FixedInBlocks
<1>4. ASSUME NEW index \in DOMAIN list, NEW register \in ReadRegisters(list[index]),
             list[index].mnemonic \notin {"FIX", "UNFIX"}
      PROVE  ModifiedBefore(list, index, register)
  BY <1>4 DEF WellFormed, ReadsKnown
<1>5. ASSUME NEW index \in DOMAIN list, list[index].mnemonic \in {"FIX", "UNFIX"}
      PROVE  /\ list[index].operand2.register \notin UserRegisters
             /\ list[index].operand3.register \notin UserRegisters
  <2>1. CASE list[index].mnemonic = "FIX"
    BY <2>1, BlockPlaces DEF IsBlock
  <2>2. CASE list[index].mnemonic = "UNFIX"
    <3>1. IsBlock(list, index - 3) /\ (index - 3) + 3 = index
      BY <1>1, <2>2, BlockPlaces
    <3> QED BY <3>1 DEF IsBlock
  <2> QED BY <1>5, <2>1, <2>2
<1>6. ASSUME NEW index \in DOMAIN list, list[index].mnemonic = "BRLT"
      PROVE  SkipsRight(list, index)
  <2>1. index - 1 \in DOMAIN list /\ IsBlock(list, index - 1)
    BY <1>6, BlockPlaces
  <2> DEFINE fixed == list[index - 1].operand1.register
  <2>2. /\ list[index - 1].mnemonic = "FIX"
        /\ list[index].operand1.displacement = 2
        /\ ModifiedRegister(list[index + 1]) = fixed
        /\ list[index + 2].mnemonic = "UNFIX"
    <3>1. (index - 1) + 1 = index /\ (index - 1) + 2 = index + 1 /\ (index - 1) + 3 = index + 2
      BY <1>1
    <3> QED BY <2>1, <3>1 DEF IsBlock
  <2>3. FixedOver(list, index, index + 1, fixed)
    <3>1. index - 1 \in 1 .. index - 1 /\ \A between \in (index - 1) + 1 .. (index + 1) - 1 : between = index
      BY <1>1, <2>1
    <3>2. ~Unfixing(list[index], fixed) /\ Fixing(list[index - 1], fixed)
      BY <1>6, <2>2 DEF Fixing, Unfixing
    <3> QED BY <3>1, <3>2 DEF FixedOver
  <2>4. ModifiedRegister(list[index + 2]) = RVoid
    BY <2>2 DEF ModifiedRegister, IsModifying, UnaryMnemonics, BinaryMnemonics
  <2>5. \A skipped \in index + 1 .. index + 2 : skipped = index + 1 \/ skipped = index + 2
    BY <1>1
  <2>6. 2 \in Nat
    OBVIOUS
  <2> QED BY <1>2, <2>2, <2>3, <2>4, <2>5, <2>6 DEF SkipsRight
<1>7. ASSUME NEW index \in DOMAIN list, list[index].mnemonic \in Unsupported
      PROVE  RuntimeRight(list, index) /\ list[index].mnemonic # "BRLT"
  <2>1. list[index].mnemonic \in {"CONV"} \cup UnaryMnemonics \cup BinaryMnemonics
    BY <1>7 DEF OnlyArithmetic
  <2>2. list[index].mnemonic \notin {"PUSH", "POP", "CALL", "FIX", "UNFIX", "BRLT", "MOV"}
    BY <2>1 DEF UnaryMnemonics, BinaryMnemonics
  <2>3. IsPlain(list[index])
    BY <2>2, BlockPlaces
  <2>4. RRes \in {list[index].operand2.register, list[index].operand3.register} => ModifiedBefore(list, index, RRes)
    BY <1>4, <2>2, Registers DEF ReadRegisters
  <2> QED BY <1>3, <2>2, <2>3, <2>4 DEF RuntimeRight, IsPlain
<1>8. ASSUME NEW index \in DOMAIN list, list[index].mnemonic = "CALL"
      PROVE  list[index].operand1.register # RRes /\ list[index].operand2.displacement \in Nat
  BY <1>8, BlockPlaces DEF IsPlain
<1>9. IsRegular(list)
  BY <1>5, <1>6, <1>7, <1>8 DEF IsRegular, IsBranch
<1>10. ASSUME NEW index \in DOMAIN list, NEW register, Unfixing(list[index], register)
       PROVE  FixedAt(list, index, register)
  <2>1. index - 3 \in DOMAIN list /\ IsBlock(list, index - 3)
    BY <1>10, BlockPlaces DEF Unfixing
  <2>2. /\ list[index - 3].mnemonic = "FIX" /\ list[index - 3].operand1.register = list[index].operand1.register
        /\ list[index - 2].mnemonic = "BRLT" /\ list[index - 1].mnemonic = "MOV"
    <3>1. (index - 3) + 1 = index - 2 /\ (index - 3) + 2 = index - 1 /\ (index - 3) + 3 = index
      BY <1>1
    <3> QED BY <2>1, <3>1 DEF IsBlock
  <2>3. /\ index - 3 \in 1 .. index - 1
        /\ \A between \in (index - 3) + 1 .. index - 1 : between = index - 2 \/ between = index - 1
    BY <1>1, <2>1
  <2>4. /\ Fixing(list[index - 3], register)
        /\ ~Unfixing(list[index - 2], register) /\ ~Unfixing(list[index - 1], register)
    BY <1>10, <2>2 DEF Fixing, Unfixing
  <2> QED BY <2>3, <2>4 DEF FixedAt, FixedOver
<1>11. \A register \in UserRegisters : ~FixedAt(list, Len(list) + 1, register)
  <2>1. Len(list) + 1 \in 1 .. Len(list) + 1 /\ Len(list) + 1 \notin DOMAIN list
    BY <1>1
  <2> QED BY <2>1, FixedInBlocks
<1>12. ASSUME NEW index \in DOMAIN list, NEW register \in UserRegisters
       PROVE  /\ register \in ReadRegisters(list[index]) /\ list[index].mnemonic \notin {"FIX", "UNFIX"}
                    => ModifiedBefore(list, index, register)
              /\ list[index].mnemonic \in {"FIX", "UNFIX"} => register \notin ReadRegisters(list[index])
              /\ Fixing(list[index], register) => ~FixedAt(list, index, register)
  BY <1>3, <1>4, <1>5 DEF Fixing, ReadRegisters
<1>13. IsProper(list)
  BY <1>7, <1>10, <1>11, <1>12 DEF IsProper, IsBranch
<1> QED BY <1>1, <1>9, <1>13 DEF IsSection
-----------------------------------------------------------------------------
(* What the emitter emits.                                                 *)

\* The register that an operand refers to, if any, is known.
Known(operand, known) == operand.register \in UserRegisters => operand.register \in known

\* The instructions that compute a result need registers that are known only.
Computes(result, known) ==
    /\ WellFormed(result.instructions, known)
    /\ Known(result.operand, known \cup Defined(result.instructions))

\* Nothing can follow any instructions.
LEMMA NothingWellFormed == \A known : WellFormed(<<>>, known) /\ Defined(<<>>) = {}
BY DEF WellFormed, IsSequence, ReadsKnown, Defined

\* So can an instruction on its own, if it reads registers that are known.
LEMMA OneWellFormed ==
    ASSUME NEW instruction, NEW known, IsPlain(instruction), ReadRegisters(instruction) \subseteq known
    PROVE  /\ WellFormed(<<instruction>>, known)
           /\ Defined(<<instruction>>) = {ModifiedRegister(instruction)} \cap UserRegisters
<1> DEFINE list == <<instruction>>
<1>1. DOMAIN list = {1} /\ list[1] = instruction
  OBVIOUS
<1>2. list \in Seq({instruction}) /\ {list[index] : index \in DOMAIN list} = {instruction}
  OBVIOUS
<1> HIDE DEF list
<1> QED BY <1>1, <1>2 DEF WellFormed, IsSequence, ReadsKnown, Defined, list

\* An instruction with a target in a register, which is known afterwards.
LEMMA TargetWellFormed ==
    ASSUME NEW mnemonic \in {"MOV", "CONV"} \cup UnaryMnemonics \cup BinaryMnemonics,
           NEW type, NEW register, NEW value1, NEW value2, NEW known, Known(value1, known), Known(value2, known)
    PROVE  LET destination == Emitter!Reg(type, register)
               list == <<Emitter!Instruction(mnemonic, destination, value1, value2)>>
           IN WellFormed(list, known) /\ Known(destination, known \cup Defined(list))
<1> DEFINE destination == Emitter!Reg(type, register)
           instruction == Emitter!Instruction(mnemonic, destination, value1, value2)
<1>1. /\ instruction.mnemonic = mnemonic /\ instruction.operand1 = destination
      /\ instruction.operand2 = value1 /\ instruction.operand3 = value2
  BY DEF Emitter!Instruction
<1>2. destination.model = "Register" /\ destination.register = register /\ destination.displacement = 0
  BY DEF Emitter!Reg, Emitter!Operand
<1> HIDE DEF destination, instruction
<1>3. mnemonic # "CALL" /\ mnemonic \notin {"FIX", "UNFIX"} /\ IsModifying(instruction)
  BY <1>1 DEF IsModifying, UnaryMnemonics, BinaryMnemonics
<1>4. ModifiedRegister(instruction) = register /\ ~IsMemory(destination)
  BY <1>1, <1>2, <1>3 DEF ModifiedRegister, IsRegister, IsMemory
<1>5. IsPlain(instruction)
  BY <1>1, <1>3, <1>4 DEF IsPlain
<1>6. ReadRegisters(instruction) \subseteq known
  BY <1>1, <1>2, <1>3, <1>4 DEF ReadRegisters, Known
<1>7. /\ WellFormed(<<instruction>>, known)
      /\ Defined(<<instruction>>) = {register} \cap UserRegisters
  BY <1>4, <1>5, <1>6, OneWellFormed
<1>8. Known(destination, known \cup Defined(<<instruction>>))
  BY <1>2, <1>7 DEF Known
<1> QED BY <1>7, <1>8 DEF destination, instruction

\* Copying an operand to a register.
LEMMA MoveWellFormed ==
    ASSUME NEW type, NEW register, NEW source, NEW known, Known(source, known)
    PROVE  LET destination == Emitter!Reg(type, register)
               list == Emitter!MoveTo(destination, source)
           IN WellFormed(list, known) /\ Known(destination, known \cup Defined(list))
<1> DEFINE destination == Emitter!Reg(type, register)
           list == Emitter!MoveTo(destination, source)
<1>1. destination.register = register
  BY RegTyped
<1>2. Known(Emitter!NoOperand, known) /\ \A some, value : Known(Emitter!Imm(some, value), known)
  BY EmitterRegisters DEF Known, Emitter!NoOperand, Emitter!Imm, Emitter!Operand
<1>3. {"ADD", "SUB", "MOV"} \subseteq {"MOV", "CONV"} \cup UnaryMnemonics \cup BinaryMnemonics
  BY DEF BinaryMnemonics
<1>4. CASE destination = source
  <2>1. list = <<>>
    BY <1>4 DEF Emitter!MoveTo
  <2>2. Known(destination, known \cup Defined(list))
    BY <1>4 DEF Known
  <2> QED BY <2>1, <2>2, NothingWellFormed
<1>5. ASSUME destination # source, source.model = "Register", source.register = destination.register
      PROVE  WellFormed(list, known) /\ Known(destination, known \cup Defined(list))
  <2>1. Known(destination, known)
    BY <1>5 DEF Known
  <2>2. \E mnemonic \in {"ADD", "SUB"} : \E distance :
            list = <<Emitter!Instruction(mnemonic, destination, destination, Emitter!Imm(Emitter!Pointer, distance))>>
    <3> HIDE DEF destination
    <3> QED BY <1>5 DEF Emitter!MoveTo
  <2> QED BY <1>2, <1>3, <2>1, <2>2, TargetWellFormed
<1>6. ASSUME destination # source, ~(source.model = "Register" /\ source.register = destination.register)
      PROVE  WellFormed(list, known) /\ Known(destination, known \cup Defined(list))
  <2>1. list = <<Emitter!Instruction("MOV", destination, source, Emitter!NoOperand)>>
    BY <1>6 DEF Emitter!MoveTo
  <2> QED BY <1>2, <1>3, <2>1, TargetWellFormed
<1> QED BY <1>4, <1>5, <1>6

\* What an operation yields.
LEMMA YieldsComputes ==
    ASSUME NEW operand, NEW instrs, NEW known, WellFormed(instrs, known), Known(operand, known \cup Defined(instrs))
    PROVE  Computes(Emitter!Yields(operand, instrs), known)
BY NothingWellFormed, NoOperandTyped, EmitterRegisters DEF Computes, Emitter!Yields, Known

\* Giving an operand that is known.
LEMMA GivenComputes ==
    ASSUME NEW operand, NEW known, Known(operand, known)
    PROVE  Computes(Emitter!Given(operand), known)
BY NothingWellFormed, YieldsComputes DEF Emitter!Given, Known

\* Immediate operands and no operand at all refer to no register.
LEMMA KnownAnyway ==
    \A known : Known(Emitter!NoOperand, known) /\ \A type, value : Known(Emitter!Imm(type, value), known)
BY EmitterRegisters DEF Known, Emitter!NoOperand, Emitter!Imm, Emitter!Operand

\* An operand in a register.
LEMMA MakeRegisterComputes ==
    ASSUME NEW operand, NEW known, Known(operand, known)
    PROVE  Computes(Emitter!MakeRegister(operand), known)
<1> DEFINE reused == Emitter!ReuseRegister(<<operand>>)
           destination == Emitter!Reg(operand.type, reused)
<1>1. Computes(Emitter!Yields(destination, Emitter!MoveTo(destination, operand)), known)
  <2> HIDE DEF reused
  <2>1. /\ WellFormed(Emitter!MoveTo(destination, operand), known)
        /\ Known(destination, known \cup Defined(Emitter!MoveTo(destination, operand)))
    BY MoveWellFormed
  <2> QED BY <2>1, YieldsComputes
<1> QED BY <1>1, GivenComputes DEF Emitter!MakeRegister

\* An operand that is displaced.
LEMMA DisplaceComputes ==
    ASSUME NEW operand, IsOperand(operand), NEW known, Known(operand, known), NEW displacement
    PROVE  Computes(Emitter!Displace(operand, displacement), known)
<1> DEFINE base == IF Emitter!IsMemory(operand) /\ displacement # 0
                   THEN Emitter!MakeRegister(operand) ELSE Emitter!Given(operand)
<1>1. Computes(base, known) /\ IsOperand(base.operand)
  BY MakeRegisterComputes, GivenComputes, MakeRegisterTyped, GivenTyped DEF IsResult
<1>2. base = [operand |-> base.operand, instructions |-> base.instructions, shortage |-> base.shortage]
  BY DEF Emitter!MakeRegister, Emitter!Given, Emitter!Yields
<1>3. PICK some :
        /\ Emitter!Displace(operand, displacement) = [base EXCEPT !.operand = some]
        /\ \E other : some \in {[base.operand EXCEPT !.value = other], [base.operand EXCEPT !.displacement = other]}
  BY DEF Emitter!Displace
<1> HIDE DEF base
<1>4. /\ Emitter!Displace(operand, displacement).operand = some
      /\ Emitter!Displace(operand, displacement).instructions = base.instructions
  BY <1>2, <1>3
<1>5. some.register = base.operand.register
  BY <1>1, <1>3 DEF IsOperand
<1> QED BY <1>1, <1>4, <1>5 DEF Computes, Known

\* What an operand designates.
LEMMA MakeMemoryComputes ==
    ASSUME NEW type, NEW operand, NEW known, Known(operand, known), NEW displacement
    PROVE  Computes(Emitter!MakeMemory(type, operand, displacement), known)
<1> DEFINE base == IF Emitter!IsMemory(operand) THEN Emitter!MakeRegister(operand) ELSE Emitter!Given(operand)
           designated == IF base.shortage THEN base.operand ELSE Emitter!Mem(type, base.operand, displacement)
<1>1. Computes(base, known)
  BY MakeRegisterComputes, GivenComputes
<1>2. base = [operand |-> base.operand, instructions |-> base.instructions, shortage |-> base.shortage]
  BY DEF Emitter!MakeRegister, Emitter!Given, Emitter!Yields
<1>3. Emitter!MakeMemory(type, operand, displacement) =
        [base EXCEPT !.operand = IF base.shortage THEN @ ELSE Emitter!Mem(type, @, displacement)]
  BY DEF Emitter!MakeMemory
<1> HIDE DEF base
<1>4. /\ Emitter!MakeMemory(type, operand, displacement).operand = designated
      /\ Emitter!MakeMemory(type, operand, displacement).instructions = base.instructions
  BY <1>2, <1>3
<1>5. designated.register = base.operand.register \/ designated.register \notin UserRegisters
  BY EmitterRegisters DEF Emitter!Mem, Emitter!Operand
<1> QED BY <1>1, <1>4, <1>5 DEF Computes, Known

\* An operation on two values.
LEMMA ApplyComputes ==
    ASSUME NEW mnemonic \in BinaryMnemonics, NEW value1, NEW value2, NEW known,
           Known(value1, known), Known(value2, known)
    PROVE  Computes(Emitter!Apply(mnemonic, value1, value2), known)
<1> DEFINE destination == Emitter!Reg(value1.type, Emitter!ReuseRegister(<<value1, value2>>))
           list == <<Emitter!Instruction(mnemonic, destination, value1, value2)>>
<1>1. WellFormed(list, known) /\ Known(destination, known \cup Defined(list))
  BY TargetWellFormed
<1>2. Computes(Emitter!Yields(destination, list), known)
  BY <1>1, YieldsComputes
<1>3. \A type, value : Computes(Emitter!Given(Emitter!Imm(type, value)), known)
  BY KnownAnyway, GivenComputes
<1> QED BY <1>2, <1>3 DEF Emitter!Apply

\* An operation on one value.
LEMMA ApplyUnaryComputes ==
    ASSUME NEW mnemonic \in UnaryMnemonics, NEW value, NEW known, Known(value, known)
    PROVE  Computes(Emitter!ApplyUnary(mnemonic, value), known)
<1> DEFINE destination == Emitter!Reg(value.type, Emitter!ReuseRegister(<<value>>))
           list == <<Emitter!Instruction(mnemonic, destination, value, Emitter!NoOperand)>>
<1>1. WellFormed(list, known) /\ Known(destination, known \cup Defined(list))
  BY KnownAnyway, TargetWellFormed
<1>2. Computes(Emitter!Yields(destination, list), known)
  BY <1>1, YieldsComputes
<1>3. \A type, some : Computes(Emitter!Given(Emitter!Imm(type, some)), known)
  BY KnownAnyway, GivenComputes
<1> QED BY <1>2, <1>3 DEF Emitter!ApplyUnary

\* A value of another type.
LEMMA ConvertComputes ==
    ASSUME NEW type, NEW value, NEW known, Known(value, known)
    PROVE  Computes(Emitter!Convert(type, value), known)
<1> DEFINE reused == Emitter!ReuseRegister(<<value>>)
           destination == Emitter!Reg(type, reused)
           list == <<Emitter!Instruction("CONV", destination, value, Emitter!NoOperand)>>
<1>1. Computes(Emitter!Yields(destination, list), known)
  <2>1. WellFormed(list, known) /\ Known(destination, known \cup Defined(list))
    BY KnownAnyway, TargetWellFormed
  <2> QED BY <2>1, YieldsComputes
<1>2. Computes(Emitter!Yields(destination, Emitter!MoveTo(destination, value)), known)
  <2> HIDE DEF reused
  <2>1. /\ WellFormed(Emitter!MoveTo(destination, value), known)
        /\ Known(destination, known \cup Defined(Emitter!MoveTo(destination, value)))
    BY MoveWellFormed
  <2> QED BY <2>1, YieldsComputes
<1>3. \A some : Computes(Emitter!Given(Emitter!Imm(type, some)), known)
  BY KnownAnyway, GivenComputes
<1> QED BY <1>1, <1>2, <1>3 DEF Emitter!Convert

\* Whichever rule applies to two operands that are known.
LEMMA CombineComputes ==
    ASSUME NEW mnemonic \in BinaryMnemonics, NEW value1, NEW value2, IsOperand(value1), IsOperand(value2),
           NEW known, Known(value1, known), Known(value2, known)
    PROVE  Computes(Emitter!Combine(mnemonic, value1, value2), known)
<1>1. ASSUME NEW value, IsOperand(value), Known(value, known)
      PROVE  Computes(Emitter!Given(value), known) /\ Computes(Emitter!Negate(value), known)
             /\ \A displacement : Computes(Emitter!Displace(value, displacement), known)
  <2>1. "NEG" \in UnaryMnemonics
    BY DEF UnaryMnemonics
  <2> QED BY <1>1, <2>1, GivenComputes, ApplyUnaryComputes, DisplaceComputes DEF Emitter!Negate
<1>2. \A type, value : Computes(Emitter!Given(Emitter!Imm(type, value)), known)
  BY KnownAnyway, GivenComputes
<1>3. ASSUME NEW value, IsOperand(value), Emitter!IsNegatable(value)
      PROVE  IsOperand(Emitter!Negate(value).operand) /\ Known(Emitter!Negate(value).operand, known)
  <2>1. Emitter!IsImmediate(value)
    BY <1>3 DEF Emitter!IsNegatable, Emitter!IsNegative
  <2>2. \E some : Emitter!Negate(value) = Emitter!Given(Emitter!Imm(value.type, some))
    BY <2>1 DEF Emitter!Negate, Emitter!ApplyUnary
  <2>3. PICK some : Emitter!Negate(value) = Emitter!Given(Emitter!Imm(value.type, some))
    BY <2>2
  <2>4. Computes(Emitter!Negate(value), known) /\ Emitter!Negate(value).instructions = <<>>
    BY <1>2, <2>3 DEF Emitter!Given, Emitter!Yields
  <2> QED BY <1>3, <2>4, NothingWellFormed, ApplyUnaryTyped DEF Computes, Known, IsResult, Emitter!Negate
<1>4. BinaryMnemonics = {"ADD", "SUB", "MUL", "DIV", "MOD", "AND", "OR", "XOR", "LSH", "RSH"}
  BY DEF BinaryMnemonics
<1>5. ASSUME NEW first, NEW second, Known(first, known), Known(second, known)
      PROVE  \A some \in BinaryMnemonics : Computes(Emitter!Apply(some, first, second), known)
  BY <1>5, ApplyComputes
<1>6. ASSUME NEW first, NEW second, IsOperand(first), IsOperand(second), Known(first, known), Known(second, known)
      PROVE  Computes(Emitter!Difference(first, second), known)
  BY <1>1, <1>2, <1>4, <1>5, <1>6 DEF Emitter!Difference
<1>7. ASSUME NEW first, NEW second, IsOperand(first), IsOperand(second), Known(first, known), Known(second, known)
      PROVE  Computes(Emitter!Add(first, second), known)
  <2>1. /\ Emitter!IsNegatable(first) => Computes(Emitter!Difference(second, Emitter!Negate(first).operand), known)
        /\ Emitter!IsNegatable(second) => Computes(Emitter!Difference(first, Emitter!Negate(second).operand), known)
    BY <1>3, <1>6, <1>7
  <2> QED BY <1>1, <1>4, <1>5, <1>7, <2>1 DEF Emitter!Add
<1>8. Computes(Emitter!Subtract(value1, value2), known)
  BY <1>3, <1>6, <1>7 DEF Emitter!Subtract
<1>9. /\ Computes(Emitter!Multiply(value1, value2), known)
      /\ Computes(Emitter!Divide(value1, value2), known)
      /\ Computes(Emitter!Modulo(value1, value2), known)
  BY <1>1, <1>2, <1>4, <1>5 DEF Emitter!Multiply, Emitter!Divide, Emitter!Modulo
<1>10. /\ Computes(Emitter!And(value1, value2), known)
       /\ Computes(Emitter!Or(value1, value2), known)
       /\ Computes(Emitter!ExclusiveOr(value1, value2), known)
  BY <1>1, <1>2, <1>4, <1>5 DEF Emitter!And, Emitter!Or, Emitter!ExclusiveOr
<1>11. /\ Computes(Emitter!ShiftLeft(value1, value2), known)
       /\ Computes(Emitter!ShiftRight(value1, value2), known)
  BY <1>1, <1>4, <1>5 DEF Emitter!ShiftLeft, Emitter!ShiftRight
<1>12. Computes(Emitter!Add(value1, value2), known)
  BY <1>7
<1> QED BY <1>4, <1>8, <1>9, <1>10, <1>11, <1>12 DEF Emitter!Combine

\* A branch that skips a copy to a register which is fixed meanwhile.
LEMMA BlockWellFormed ==
    ASSUME NEW result, NEW value, NEW known, Known(result, known), Known(value, known),
           result.register \in UserRegisters, result.model = "Register", result.displacement = 0,
           NEW list, IsSequence(list), DOMAIN list = 1 .. 4,
           list[1] = Emitter!Instruction("FIX", result, Emitter!NoOperand, Emitter!NoOperand),
           list[2] = Emitter!Instruction("BRLT", Emitter!Offset(2), result, value),
           list[3] = Emitter!Instruction("MOV", result, value, Emitter!NoOperand),
           list[4] = Emitter!Instruction("UNFIX", result, Emitter!NoOperand, Emitter!NoOperand)
    PROVE  WellFormed(list, known)
<1> DEFINE fix == list[1]
           branch == list[2]
           copy == list[3]
           unfix == list[4]
<1>1. /\ fix.mnemonic = "FIX" /\ fix.operand1 = result
      /\ fix.operand2 = Emitter!NoOperand /\ fix.operand3 = Emitter!NoOperand
      /\ unfix.mnemonic = "UNFIX" /\ unfix.operand1 = result
      /\ unfix.operand2 = Emitter!NoOperand /\ unfix.operand3 = Emitter!NoOperand
      /\ branch.mnemonic = "BRLT" /\ branch.operand1 = Emitter!Offset(2)
      /\ branch.operand2 = result /\ branch.operand3 = value
      /\ copy.mnemonic = "MOV" /\ copy.operand1 = result
      /\ copy.operand2 = value /\ copy.operand3 = Emitter!NoOperand
  BY DEF Emitter!Instruction
<1>2. /\ Emitter!NoOperand.register \notin UserRegisters
      /\ Emitter!Offset(2).register \notin UserRegisters /\ Emitter!Offset(2).displacement = 2
  BY EmitterRegisters DEF Emitter!NoOperand, Emitter!Offset, Emitter!Operand
<1>3. \A index \in DOMAIN list : list[index] \in {fix, branch, copy, unfix}
  OBVIOUS
<1> HIDE DEF fix, branch, copy, unfix
<1>5. /\ IsModifying(copy) /\ ModifiedRegister(copy) = result.register /\ IsPlain(copy)
      /\ ~IsModifying(branch) /\ ModifiedRegister(branch) = RVoid
  BY <1>1 DEF IsModifying, ModifiedRegister, IsPlain, IsRegister, IsMemory, UnaryMnemonics, BinaryMnemonics
<1>6. ReadRegisters(branch) \subseteq known /\ ReadRegisters(copy) \subseteq known
  <2>1. ReadRegisters(branch) \subseteq known
    BY <1>1, <1>2 DEF ReadRegisters, Known
  <2>2. ReadRegisters(copy) \subseteq known
    BY <1>1, <1>2, <1>5 DEF ReadRegisters, Known, IsMemory
  <2> QED BY <2>1, <2>2
<1>7. ReadsKnown(list, known)
  <2> SUFFICES ASSUME NEW index \in DOMAIN list, list[index].mnemonic \notin {"FIX", "UNFIX"}
               PROVE  ReadRegisters(list[index]) \subseteq known
    BY DEF ReadsKnown
  <2>1. list[index] = branch \/ list[index] = copy
    BY <1>1, <1>3
  <2> QED BY <1>6, <2>1
<1>8. IsBlock(list, 1)
  <2>1. 1 + 1 = 2 /\ 1 + 2 = 3 /\ 1 + 3 = 4
    OBVIOUS
  <2> QED BY <1>1, <1>2, <1>5, <2>1 DEF IsBlock, fix, branch, copy, unfix
<1>9. \A index \in DOMAIN list : 1 \in DOMAIN list /\ index \in 1 .. 1 + 3
  OBVIOUS
<1> QED BY <1>7, <1>8, <1>9 DEF WellFormed

\* It does not matter in which order sequences are joined.
LEMMA JoinedAnyway ==
    ASSUME NEW first, NEW second, NEW third, IsSequence(first), IsSequence(second), IsSequence(third)
    PROVE  (first \o second) \o third = first \o (second \o third)
<1> DEFINE parts == {first[index] : index \in DOMAIN first} \cup {second[index] : index \in DOMAIN second}
                        \cup {third[index] : index \in DOMAIN third}
<1>1. first \in Seq(parts) /\ second \in Seq(parts) /\ third \in Seq(parts)
  BY DEF IsSequence
<1> HIDE DEF parts
<1> QED BY <1>1, ConcatAssociative

\* What a block has where.
LEMMA BlockJoined ==
    ASSUME NEW fix, NEW branch, NEW copy, NEW unfix
    PROVE  LET list == <<fix, branch>> \o <<copy>> \o <<unfix>>
           IN /\ IsSequence(<<fix, branch>>) /\ IsSequence(<<copy>>) /\ IsSequence(<<unfix>>)
              /\ IsSequence(list) /\ DOMAIN list = 1 .. 4
              /\ list[1] = fix /\ list[2] = branch /\ list[3] = copy /\ list[4] = unfix
<1> DEFINE begin == <<fix, branch>>
           middle == <<copy>>
           rest == <<unfix>>
           front == begin \o middle
<1>1. begin \in Seq({fix, branch}) /\ middle \in Seq({copy}) /\ rest \in Seq({unfix})
  OBVIOUS
<1>2. /\ Len(begin) = 2 /\ begin[1] = fix /\ begin[2] = branch
      /\ Len(middle) = 1 /\ middle[1] = copy /\ Len(rest) = 1 /\ rest[1] = unfix
  OBVIOUS
<1>3. DOMAIN begin = 1 .. 2 /\ DOMAIN middle = 1 .. 1 /\ DOMAIN rest = 1 .. 1
  OBVIOUS
<1> HIDE DEF begin, middle, rest
<1>4. IsSequence(begin) /\ IsSequence(middle) /\ IsSequence(rest)
  <2>1. /\ {begin[index] : index \in DOMAIN begin} = {fix, branch}
        /\ {middle[index] : index \in DOMAIN middle} = {copy}
        /\ {rest[index] : index \in DOMAIN rest} = {unfix}
    BY <1>2, <1>3
  <2> QED BY <1>1, <2>1 DEF IsSequence
<1>5. /\ IsSequence(front) /\ DOMAIN front = 1 .. Len(begin) + Len(middle)
      /\ \A index \in 1 .. Len(begin) : front[index] = begin[index]
      /\ \A index \in 1 .. Len(middle) : front[Len(begin) + index] = middle[index]
  BY <1>4, Joined
<1> HIDE DEF front
<1>6. IsSequence(front)
  BY <1>5
<1>7. /\ IsSequence(front \o rest) /\ DOMAIN (front \o rest) = 1 .. Len(front) + Len(rest)
      /\ \A index \in 1 .. Len(front) : (front \o rest)[index] = front[index]
      /\ \A index \in 1 .. Len(rest) : (front \o rest)[Len(front) + index] = rest[index]
  BY <1>4, <1>6, Joined
<1> DEFINE list == front \o rest
<1> HIDE DEF list
<1>8. Len(front) = 3 /\ DOMAIN front = 1 .. 3
  <2>1. Len(front) \in Nat /\ DOMAIN front = 1 .. Len(front)
    BY <1>6 DEF IsSequence
  <2> QED BY <1>2, <1>5, <2>1
<1>9. front[1] = fix /\ front[2] = branch /\ front[3] = copy
  <2>1. front[1] = fix /\ front[2] = branch
    BY <1>2, <1>5
  <2>2. front[2 + 1] = copy /\ 2 + 1 = 3
    BY <1>2, <1>5
  <2> QED BY <2>1, <2>2
<1>10. list[1] = fix /\ list[2] = branch /\ list[3] = copy
  BY <1>7, <1>8, <1>9 DEF list
<1>11. list[3 + 1] = unfix /\ 3 + 1 = 4
  BY <1>2, <1>7, <1>8 DEF list
<1>12. DOMAIN list = 1 .. 4
  BY <1>2, <1>7, <1>8 DEF list
<1>13. IsSequence(list)
  BY <1>7 DEF list
<1> QED BY <1>4, <1>10, <1>11, <1>12, <1>13 DEF list, front, begin, middle, rest

\* What is known remains known.
LEMMA KnownFurther ==
    ASSUME NEW operand, NEW known, NEW further, Known(operand, known)
    PROVE  Known(operand, known \cup further)
BY DEF Known

\* The smaller of two values.
LEMMA MinimizeComputes ==
    ASSUME NEW value1, NEW value2, NEW known, Known(value1, known), Known(value2, known)
    PROVE  Computes(Emitter!Minimize(value1, value2), known)
<1> DEFINE first == Emitter!AcquireRegister
           others == {register \in 0 .. RMax :
                        register # first /\ registerUses[register] = 0 /\ protections[register] = 0}
           result == Emitter!Reg(value1.type, first)
           value == Emitter!Reg(value2.type, Emitter!Min(others))
           moved1 == Emitter!MoveTo(result, value1)
           moved2 == Emitter!MoveTo(value, value2)
           fix == Emitter!Instruction("FIX", result, Emitter!NoOperand, Emitter!NoOperand)
           branch == Emitter!Instruction("BRLT", Emitter!Offset(2), result, value)
           unfix == Emitter!Instruction("UNFIX", result, Emitter!NoOperand, Emitter!NoOperand)
           list == moved1 \o moved2 \o <<fix, branch>> \o Emitter!MoveTo(result, value) \o <<unfix>>
<1>1. Computes(Emitter!Given(value1), known) /\ Computes(Emitter!Given(value2), known)
  BY GivenComputes
<1>2. Computes(Emitter!Yields(Emitter!Reg(value1.type, Nothing), <<>>), known)
  BY RegTyped, NothingWellFormed, YieldsComputes, EmitterRegisters DEF Known
<1>3. ASSUME first # Nothing, others # {}
      PROVE  Computes(Emitter!Yields(result, list), known)
  <2>1. first \in 0 .. RMax
    BY <1>3, AcquireRegisterTyped
  <2>2. Emitter!Min(others) \in others
    <3>1. others \in SUBSET Nat
      BY EmitterRegisters
    <3> HIDE DEF others
    <3> QED BY <1>3, <3>1, LeastMember
  <2>3. Emitter!Min(others) # first
    BY <2>2
  <2> HIDE DEF first, others
  <2>4. /\ result.register = first /\ value.register = Emitter!Min(others)
        /\ result.model = "Register" /\ result.displacement = 0
    BY DEF Emitter!Reg, Emitter!Operand
  <2>5. /\ WellFormed(moved1, known) /\ Known(result, known \cup Defined(moved1))
    BY MoveWellFormed
  <2>6. /\ WellFormed(moved2, known \cup Defined(moved1))
        /\ Known(value, (known \cup Defined(moved1)) \cup Defined(moved2))
    BY KnownFurther, MoveWellFormed
  <2>7. Emitter!MoveTo(result, value) = <<Emitter!Instruction("MOV", result, value, Emitter!NoOperand)>>
    <3>1. result # value /\ value.register # result.register
      BY <2>3, <2>4
    <3> HIDE DEF result, value
    <3> QED BY <3>1 DEF Emitter!MoveTo
  <2> DEFINE copy == Emitter!Instruction("MOV", result, value, Emitter!NoOperand)
             begin == <<fix, branch>>
             middle == <<copy>>
             end == <<unfix>>
             block == begin \o middle \o end
             moved == moved1 \o moved2
  <2>8. WellFormed(moved, known) /\ Defined(moved) = Defined(moved1) \cup Defined(moved2)
    <3> HIDE DEF moved1, moved2
    <3> QED BY <2>5, <2>6, WellFormedJoined
  <2>9. Known(result, known \cup Defined(moved)) /\ Known(value, known \cup Defined(moved))
    BY <2>5, <2>6, <2>8 DEF Known
  <2>10. IsSequence(begin) /\ IsSequence(middle) /\ IsSequence(end)
    <3> HIDE DEF fix, branch, copy, unfix
    <3> QED BY BlockJoined
  <2>11. /\ IsSequence(block) /\ DOMAIN block = 1 .. 4
         /\ block[1] = fix /\ block[2] = branch /\ block[3] = copy /\ block[4] = unfix
    <3> HIDE DEF fix, branch, copy, unfix
    <3> QED BY BlockJoined
  <2>12. WellFormed(block, known \cup Defined(moved))
    <3>1. result.register \in UserRegisters
      BY <2>1, <2>4, EmitterRegisters
    <3> HIDE DEF result, value, moved, block
    <3> QED BY <2>4, <2>9, <2>11, <3>1, BlockWellFormed
  <2>13. list = moved \o block
    <3>1. IsSequence(moved)
      BY <2>8 DEF WellFormed
    <3>2. list = moved \o begin \o middle \o end
      BY <2>7
    <3> DEFINE pair == begin \o middle
    <3> HIDE DEF moved, begin, middle, end, list
    <3>3. IsSequence(pair) /\ (moved \o begin) \o middle = moved \o pair
      BY <2>10, <3>1, Joined, JoinedAnyway
    <3> HIDE DEF pair
    <3>4. IsSequence(pair) /\ IsSequence(end)
      BY <2>10, <3>3
    <3> HIDE DEF fix, branch, copy, unfix
    <3>5. (moved \o pair) \o end = moved \o (pair \o end)
      BY <3>1, <3>4, JoinedAnyway
    <3> QED BY <3>2, <3>3, <3>5 DEF pair
  <2> HIDE DEF result, moved, block, list
  <2>14. WellFormed(list, known) /\ Known(result, known \cup Defined(list))
    <3>1. WellFormed(list, known) /\ Defined(list) = Defined(moved) \cup Defined(block)
      BY <2>8, <2>12, <2>13, WellFormedJoined
    <3> QED BY <2>9, <3>1 DEF Known
  <2>15. Computes(Emitter!Yields(result, list), known)
    BY <2>14, YieldsComputes
  <2> QED BY <2>15 DEF result, list
<1>4. Emitter!Minimize(value1, value2) =
        IF Emitter!IsImmediate(value1) /\ Emitter!IsImmediate(value2)
        THEN Emitter!Given(IF value1.value < value2.value THEN value1 ELSE value2)
        ELSE IF first = Nothing \/ others = {} THEN Emitter!Yields(Emitter!Reg(value1.type, Nothing), <<>>)
        ELSE Emitter!Yields(result, list)
  BY DEF Emitter!Minimize
<1> HIDE DEF first, others, list, result
<1> QED BY <1>1, <1>2, <1>3, <1>4 DEF result
-----------------------------------------------------------------------------
(* The section is well-formed all the way.                                 *)

\* The registers of operands are modified by what has been emitted so far.
OperandsKnown(held, list) == \A slot \in Slots : Known(held[slot], Defined(list))

EmittedInv ==
    /\ WellFormed(section, {})
    /\ status = "emitting" => OperandsKnown(operands, section)

\* Appending instructions that need what is known.
LEMMA EmitWellFormed ==
    ASSUME EmittedInv, NEW list, WellFormed(list, Defined(section)), section' = section \o list
    PROVE  /\ WellFormed(section', {})
           /\ Defined(section') = Defined(section) \cup Defined(list)
<1>1. {} \cup Defined(section) = Defined(section) /\ WellFormed(section, {})
  BY DEF EmittedInv
<1> QED BY <1>1, WellFormedJoined

\* Serving a request.
LEMMA ServeEmitted ==
    ASSUME Counted, EmittedInv, status = "emitting",
           NEW name, NEW argument, NEW from,
           NEW result, Computes(result, Defined(section)), Emitter!Serve(name, argument, from, result)
    PROVE  EmittedInv'
<1>1. CASE result.shortage
  <2>1. section' = section /\ status' = "shortage"
    BY <1>1 DEF Emitter!Serve, Emitter!machine
  <2> QED BY <2>1 DEF EmittedInv
<1>2. CASE ~result.shortage
  <2>1. /\ status' = status
        /\ section' = section \o result.instructions
        /\ \A slot \in Slots : operands'[slot] \in {result.operand, Emitter!NoOperand, operands[slot]}
    BY <1>2 DEF Emitter!Serve, Emitter!Emit
  <2>2. /\ WellFormed(section', {})
        /\ Defined(section') = Defined(section) \cup Defined(result.instructions)
    BY <2>1, EmitWellFormed DEF Computes
  <2>3. ASSUME NEW slot \in Slots PROVE Known(operands'[slot], Defined(section'))
    <3>1. Known(result.operand, Defined(section'))
      BY <2>2 DEF Computes
    <3>2. Known(operands[slot], Defined(section'))
      BY <2>2, KnownFurther DEF EmittedInv, OperandsKnown
    <3> QED BY <2>1, <3>1, <3>2, KnownAnyway
  <2> QED BY <2>2, <2>3 DEF EmittedInv, OperandsKnown
<1> QED BY <1>1, <1>2

\* The operations on values.
LEMMA ValuesEmitted ==
    ASSUME Counted, EmittedInv,
           Emitter!Literal \/ Emitter!Variable \/ Emitter!Unary \/ Emitter!Conversion \/ Emitter!Dereference
    PROVE  EmittedInv'
<1> DEFINE known == Defined(section)
<1>1. status = "emitting"
  BY DEF Emitter!Literal, Emitter!Variable, Emitter!Unary, Emitter!Conversion, Emitter!Dereference, Emitter!Asks
<1>2. \A slot \in Slots : Known(operands[slot], known)
  BY <1>1 DEF EmittedInv, OperandsKnown
<1> HIDE DEF known
<1>3. CASE Emitter!Literal
  <2>1. PICK literal \in client.literals :
            Emitter!Serve("Literal", literal, <<>>, Emitter!Given(Emitter!Imm(literal.type, literal.value)))
    BY <1>3 DEF Emitter!Literal
  <2>2. Computes(Emitter!Given(Emitter!Imm(literal.type, literal.value)), known)
    BY KnownAnyway, GivenComputes
  <2> QED BY <1>1, <2>1, <2>2, ServeEmitted DEF known
<1>4. CASE Emitter!Variable
  <2>1. PICK address \in client.variables :
            Emitter!Serve("Variable", address, <<>>,
                Emitter!Given(Emitter!Operand("Memory", Memory[address].type, Emitter!RFP, address, 0)))
    BY <1>4 DEF Emitter!Variable
  <2>2. Known(Emitter!Operand("Memory", Memory[address].type, Emitter!RFP, address, 0), known)
    BY OperandsAssumption
    DEF Known, Emitter!Operand, Emitter!RFP, UserRegisters, IsUser, RRes
  <2>3. Computes(Emitter!Given(Emitter!Operand("Memory", Memory[address].type, Emitter!RFP, address, 0)), known)
    BY <2>2, GivenComputes
  <2> QED BY <1>1, <2>1, <2>3, ServeEmitted DEF known
<1>5. CASE Emitter!Unary
  <2>1. PICK slot \in Emitter!Held, mnemonic \in Emitter!UnaryMnemonics :
            Emitter!Serve("Unary", mnemonic, <<slot>>, Emitter!ApplyUnary(mnemonic, operands[slot]))
    BY <1>5 DEF Emitter!Unary
  <2>2. mnemonic \in UnaryMnemonics
    BY DEF UnaryMnemonics, Emitter!UnaryMnemonics
  <2>3. Computes(Emitter!ApplyUnary(mnemonic, operands[slot]), known)
    BY <1>2, <2>2, HeldSlots, ApplyUnaryComputes
  <2> QED BY <1>1, <2>1, <2>3, ServeEmitted DEF known
<1>6. CASE Emitter!Conversion
  <2>1. PICK slot \in Emitter!Held, type \in client.types :
            Emitter!Serve("Convert", type, <<slot>>, Emitter!Convert(type, operands[slot]))
    BY <1>6 DEF Emitter!Conversion
  <2>2. Computes(Emitter!Convert(type, operands[slot]), known)
    BY <1>2, HeldSlots, ConvertComputes
  <2> QED BY <1>1, <2>1, <2>2, ServeEmitted DEF known
<1>7. CASE Emitter!Dereference
  <2>1. PICK slot \in Emitter!Held, displacement \in client.displacements :
            \E type : Emitter!Serve("Dereference", displacement, <<slot>>,
                                    Emitter!MakeMemory(type, operands[slot], displacement))
    BY <1>7 DEF Emitter!Dereference
  <2>2. PICK type : Emitter!Serve("Dereference", displacement, <<slot>>,
                                  Emitter!MakeMemory(type, operands[slot], displacement))
    BY <2>1
  <2>3. Computes(Emitter!MakeMemory(type, operands[slot], displacement), known)
    BY <1>2, HeldSlots, MakeMemoryComputes
  <2> QED BY <1>1, <2>2, <2>3, ServeEmitted DEF known
<1> QED BY <1>3, <1>4, <1>5, <1>6, <1>7

\* The operations on two of them, and copies.
LEMMA PairsEmitted ==
    ASSUME Counted, EmittedInv, Emitter!Binary \/ Emitter!Minimum \/ Emitter!Move
    PROVE  EmittedInv'
<1> DEFINE known == Defined(section)
<1>1. status = "emitting"
  BY DEF Emitter!Binary, Emitter!Minimum, Emitter!Move, Emitter!Asks
<1>2. \A slot \in Slots : Known(operands[slot], known) /\ IsOperand(operands[slot])
  BY <1>1 DEF EmittedInv, OperandsKnown, Counted, AreOperands
<1> HIDE DEF known
<1>3. CASE Emitter!Binary
  <2>1. PICK first \in Emitter!Held, second \in Emitter!Held, mnemonic \in client.mnemonics :
            Emitter!Serve("Binary", mnemonic, <<first, second>>,
                          Emitter!Combine(mnemonic, operands[first], operands[second]))
    BY <1>3 DEF Emitter!Binary
  <2>2. mnemonic \in BinaryMnemonics
    BY CompilationAssumption DEF Counted
  <2>3. Computes(Emitter!Combine(mnemonic, operands[first], operands[second]), known)
    BY <1>2, <2>2, HeldSlots, CombineComputes
  <2> QED BY <1>1, <2>1, <2>3, ServeEmitted DEF known
<1>4. CASE Emitter!Minimum
  <2>1. PICK first \in Emitter!Held, second \in Emitter!Held :
            Emitter!Serve("Minimize", Nothing, <<first, second>>,
                          Emitter!Minimize(operands[first], operands[second]))
    BY <1>4 DEF Emitter!Minimum
  <2>2. Computes(Emitter!Minimize(operands[first], operands[second]), known)
    BY <1>2, HeldSlots, MinimizeComputes
  <2> QED BY <1>1, <2>1, <2>2, ServeEmitted DEF known
<1>5. CASE Emitter!Move
  <2>1. PICK slot \in Emitter!Held :
            \/ Emitter!Serve("Move", Nothing, <<slot>>, Emitter!MakeRegister(operands[slot]))
            \/ LET acquired == Emitter!Reg(operands[slot].type, Emitter!AcquireRegister)
               IN Emitter!Serve("Move", Nothing, <<slot>>,
                    Emitter!Yields(acquired, Emitter!MoveTo(acquired, operands[slot])))
    BY <1>5 DEF Emitter!Move
  <2>2. Known(operands[slot], known)
    BY <1>2, HeldSlots
  <2>3. Computes(Emitter!MakeRegister(operands[slot]), known)
    BY <2>2, MakeRegisterComputes
  <2> DEFINE free == Emitter!AcquireRegister
             acquired == Emitter!Reg(operands[slot].type, free)
  <2>4. Computes(Emitter!Yields(acquired, Emitter!MoveTo(acquired, operands[slot])), known)
    <3> HIDE DEF free
    <3>1. /\ WellFormed(Emitter!MoveTo(acquired, operands[slot]), known)
          /\ Known(acquired, known \cup Defined(Emitter!MoveTo(acquired, operands[slot])))
      BY <2>2, MoveWellFormed
    <3> QED BY <3>1, YieldsComputes
  <2> QED BY <1>1, <2>1, <2>3, <2>4, ServeEmitted DEF known
<1> QED BY <1>3, <1>4, <1>5

-----------------------------------------------------------------------------
(* What is emitted for function calls.                                     *)

\* Saving the register of an operand.
PushOf(slot) ==
    Emitter!Instruction("PUSH", Emitter!SavedOperand(operands[slot], operands[slot].register),
                        Emitter!NoOperand, Emitter!NoOperand)

\* Saving those of the first slots that are not saved yet, given those before.
Pushed(slots, before, count) ==
    IF count = 0 THEN <<>>
    ELSE IF slots[count] \in saved THEN before[count - 1] ELSE Append(before[count - 1], PushOf(slots[count]))

\* The instructions for every number of first slots up to some number.
ArePushed(slots, pushes, upto) == pushes = [count \in 0 .. upto |-> Pushed(slots, pushes, count)]

\* There are such instructions.
LEMMA PushedExists ==
    ASSUME NEW slots, Len(slots) \in Nat
    PROVE  \E pushes : ArePushed(slots, pushes, Len(slots))
<1> DEFINE last == Len(slots)
           U == {upto \in 0 .. last : ~\E pushes : ArePushed(slots, pushes, upto)}
<1>1. ASSUME U # {} PROVE FALSE
  <2>1. U \in SUBSET Nat
    OBVIOUS
  <2>2. PICK first \in U : \A other \in U : first <= other
    BY <1>1, <2>1, FirstRegister
  <2>3. ASSUME first = 0 PROVE FALSE
    <3> DEFINE pushes == [count \in 0 .. 0 |-> <<>>]
    <3>1. pushes = [count \in 0 .. 0 |-> Pushed(slots, pushes, count)]
      BY DEF Pushed
    <3> HIDE DEF pushes
    <3>2. ArePushed(slots, pushes, 0)
      BY <3>1 DEF ArePushed
    <3> QED BY <2>2, <2>3, <3>2
  <2>4. first \in 1 .. last /\ first - 1 \in 0 .. last /\ first - 1 \notin U
    <3>1. first \in 0 .. last
      BY <2>2
    <3>2. first - 1 \notin U
      <4>1. ~(first <= first - 1)
        BY <3>1
      <4> HIDE DEF U
      <4> QED BY <2>2, <4>1
    <3> QED BY <2>3, <3>1, <3>2
  <2>5. PICK before : ArePushed(slots, before, first - 1)
    BY <2>4
  <2> DEFINE pushes == [count \in 0 .. first |->
                            IF count = first THEN Pushed(slots, before, first) ELSE before[count]]
  <2>6. /\ DOMAIN pushes = 0 .. first
        /\ pushes = [count \in 0 .. first |-> pushes[count]]
        /\ pushes[first] = Pushed(slots, before, first)
        /\ \A count \in 0 .. first - 1 : pushes[count] = before[count]
    BY <2>4
  <2>7. \A count \in 0 .. first - 1 : before[count] = Pushed(slots, before, count)
    BY <2>5 DEF ArePushed
  <2> HIDE DEF pushes
  <2>8. ASSUME NEW count \in 0 .. first
        PROVE  Pushed(slots, pushes, count) = Pushed(slots, before, count)
    <3>1. count = 0 \/ count - 1 \in 0 .. first - 1
      BY <2>4
    <3>2. count # 0 => pushes[count - 1] = before[count - 1]
      BY <2>6, <3>1
    <3> QED BY <3>2 DEF Pushed
  <2>9. ASSUME NEW count \in 0 .. first
        PROVE  pushes[count] = Pushed(slots, pushes, count)
    <3>1. count = first \/ count \in 0 .. first - 1
      BY <2>4
    <3> QED BY <2>6, <2>7, <2>8, <3>1
  <2>10. ArePushed(slots, pushes, first)
    <3> DEFINE other == [count \in 0 .. first |-> Pushed(slots, pushes, count)]
    <3>1. pushes = other
      BY <2>6, <2>9
    <3> QED BY <3>1 DEF ArePushed
  <2> QED BY <2>2, <2>10
<1>2. last \in 0 .. last
  OBVIOUS
<1> QED BY <1>1, <1>2

\* They save the registers of operands.
LEMMA PushedTyped ==
    ASSUME NEW slots \in Seq(Slots), NEW pushes, ArePushed(slots, pushes, Len(slots)),
           NEW upto \in 0 .. Len(slots)
    PROVE  pushes[upto] \in Seq({PushOf(slot) : slot \in Slots})
<1> DEFINE parts == {PushOf(slot) : slot \in Slots}
           U == {count \in 0 .. Len(slots) : pushes[count] \notin Seq(parts)}
<1>1. ASSUME U # {} PROVE FALSE
  <2>1. U \in SUBSET Nat
    OBVIOUS
  <2>2. PICK first \in U : \A other \in U : first <= other
    BY <1>1, <2>1, FirstRegister
  <2>3. first \in 0 .. Len(slots) /\ Len(slots) \in Nat
    BY <2>2
  <2>4. pushes[first] = Pushed(slots, pushes, first) /\ pushes[first] \notin Seq(parts)
    BY <2>2 DEF ArePushed
  <2>5. first # 0
    <3>1. Pushed(slots, pushes, 0) = <<>> /\ <<>> \in Seq(parts)
      BY DEF Pushed
    <3> HIDE DEF parts, U
    <3> QED BY <2>4, <3>1
  <2>6. pushes[first - 1] \in Seq(parts)
    <3>1. first - 1 \in 0 .. Len(slots) /\ ~(first <= first - 1)
      BY <2>3, <2>5
    <3>2. first - 1 \notin U
      <4> HIDE DEF U
      <4> QED BY <2>2, <3>1
    <3> QED BY <3>1, <3>2
  <2>7. slots[first] \in Slots
    BY <2>3, <2>5
  <2>8. PushOf(slots[first]) \in parts
    BY <2>7
  <2> HIDE DEF U, parts
  <2> QED BY <2>4, <2>5, <2>6, <2>8 DEF Pushed
<1> QED BY <1>1

\* Instructions each of which can come next.
LEMMA AllWellFormed ==
    ASSUME NEW parts, NEW known,
           \A instruction \in parts : IsPlain(instruction) /\ ReadRegisters(instruction) \subseteq known,
           NEW list \in Seq(parts)
    PROVE  WellFormed(list, known)
<1>1. \A index \in DOMAIN list : list[index] \in parts
  OBVIOUS
<1>2. list \in Seq({list[index] : index \in DOMAIN list})
  OBVIOUS
<1> QED BY <1>1, <1>2 DEF WellFormed, IsSequence, ReadsKnown

\* Pushing an operand that is known.
LEMMA PushWellFormed ==
    ASSUME NEW operand, NEW known, Known(operand, known)
    PROVE  LET instruction == Emitter!Instruction("PUSH", operand, Emitter!NoOperand, Emitter!NoOperand)
           IN IsPlain(instruction) /\ ReadRegisters(instruction) \subseteq known
<1> DEFINE instruction == Emitter!Instruction("PUSH", operand, Emitter!NoOperand, Emitter!NoOperand)
<1>1. /\ instruction.mnemonic = "PUSH" /\ instruction.operand1 = operand
      /\ instruction.operand2 = Emitter!NoOperand /\ instruction.operand3 = Emitter!NoOperand
  BY DEF Emitter!Instruction
<1>2. Emitter!NoOperand.register \notin UserRegisters
  BY NoOperandTyped, EmitterRegisters
<1> HIDE DEF instruction
<1>3. IsPlain(instruction)
  BY <1>1 DEF IsPlain, IsModifying, UnaryMnemonics, BinaryMnemonics
<1>4. ReadRegisters(instruction) \subseteq known
  BY <1>1, <1>2 DEF ReadRegisters, Known
<1> QED BY <1>3, <1>4 DEF instruction

\* A call begins by saving registers.
LEMMA BeginCallEmitted ==
    ASSUME Counted, EmittedInv, Emitter!BeginCall
    PROVE  EmittedInv'
<1>1. status = "emitting" /\ UNCHANGED <<operands, status>> /\ Emitter!Save(savedRegisters)
  BY DEF Emitter!BeginCall, Emitter!Asks
<1>2. savedRegisters \in Seq(Slots)
  BY DEF Counted
<1> DEFINE pushes == CHOOSE some : ArePushed(savedRegisters, some, Len(savedRegisters))
<1>3. section' = section \o pushes[Len(savedRegisters)]
  BY <1>1 DEF Emitter!Save, Emitter!Emit, ArePushed, Pushed, PushOf
<1>4. \E some : ArePushed(savedRegisters, some, Len(savedRegisters))
  BY <1>2, PushedExists
<1>5. ArePushed(savedRegisters, pushes, Len(savedRegisters))
  BY <1>4, Zenon
<1> HIDE DEF pushes
<1>6. pushes[Len(savedRegisters)] \in Seq({PushOf(slot) : slot \in Slots})
  BY <1>2, <1>5, PushedTyped
<1>7. ASSUME NEW slot \in Slots
      PROVE  IsPlain(PushOf(slot)) /\ ReadRegisters(PushOf(slot)) \subseteq Defined(section)
  <2>1. Known(operands[slot], Defined(section))
    BY <1>1 DEF EmittedInv, OperandsKnown
  <2>2. Known(Emitter!SavedOperand(operands[slot], operands[slot].register), Defined(section))
    BY <2>1, RegTyped DEF Known, Emitter!SavedOperand
  <2> QED BY <2>2, PushWellFormed DEF PushOf
<1>8. WellFormed(pushes[Len(savedRegisters)], Defined(section))
  BY <1>6, <1>7, AllWellFormed
<1>9. /\ WellFormed(section', {})
      /\ Defined(section') = Defined(section) \cup Defined(pushes[Len(savedRegisters)])
  BY <1>3, <1>8, EmitWellFormed
<1>10. ASSUME NEW slot \in Slots PROVE Known(operands'[slot], Defined(section'))
  <2>1. Known(operands[slot], Defined(section)) /\ operands'[slot] = operands[slot]
    BY <1>1 DEF EmittedInv, OperandsKnown
  <2> QED BY <1>9, <2>1 DEF Known
<1> QED BY <1>9, <1>10 DEF EmittedInv, OperandsKnown

\* An operand that is restored has a register that is modified.
LEMMA RestoreEmitted ==
    ASSUME Counted, EmittedInv, Emitter!RestoreRegister
    PROVE  EmittedInv'
<1> DEFINE slot == Emitter!Last(savedRegisters)
           acquired == Emitter!AcquireRegister
           popped == Emitter!SavedOperand(operands[slot], acquired)
           instruction == Emitter!Instruction("POP", popped, Emitter!NoOperand, Emitter!NoOperand)
<1>1. status = "emitting" /\ savedRegisters # <<>>
  BY DEF Emitter!RestoreRegister, Emitter!Asks
<1>2. \/ section' = section /\ operands' = operands /\ status' \in {status, "shortage"}
      \/ /\ acquired # Nothing /\ status' = status
         /\ operands' = [operands EXCEPT ![slot] = [operands[slot] EXCEPT !.register = acquired]]
         /\ section' = section \o <<instruction>>
  BY DEF Emitter!RestoreRegister, Emitter!machine, Emitter!counters, Emitter!Emit
<1>3. CASE section' = section /\ operands' = operands /\ status' \in {status, "shortage"}
  BY <1>1, <1>3 DEF EmittedInv, OperandsKnown
<1>4. CASE /\ acquired # Nothing /\ status' = status
           /\ operands' = [operands EXCEPT ![slot] = [operands[slot] EXCEPT !.register = acquired]]
           /\ section' = section \o <<instruction>>
  <2>1. acquired \in UserRegisters
    BY <1>4, AcquireRegisterTyped, EmitterRegisters
  <2>2. /\ popped.model = "Register" /\ popped.register = acquired /\ popped.displacement = 0
    BY DEF Emitter!SavedOperand, Emitter!Reg, Emitter!Operand
  <2>3. /\ instruction.mnemonic = "POP" /\ instruction.operand1 = popped
        /\ instruction.operand2 = Emitter!NoOperand /\ instruction.operand3 = Emitter!NoOperand
    BY DEF Emitter!Instruction
  <2>4. slot \in Slots /\ DOMAIN operands = Slots /\ IsOperand(operands[slot])
    BY <1>1, FrontAndLast DEF Counted, AreOperands
  <2> HIDE DEF slot, acquired, popped, instruction
  <2>5. ModifiedRegister(instruction) = acquired /\ IsPlain(instruction)
    BY <2>2, <2>3 DEF ModifiedRegister, IsModifying, IsRegister, IsMemory, IsPlain, UnaryMnemonics, BinaryMnemonics
  <2>6. ReadRegisters(instruction) \subseteq Defined(section)
    BY <2>2, <2>3, <2>5, NoOperandTyped, EmitterRegisters DEF ReadRegisters, IsMemory
  <2>7. /\ WellFormed(<<instruction>>, Defined(section))
        /\ Defined(<<instruction>>) = {acquired}
    BY <2>1, <2>5, <2>6, OneWellFormed
  <2>8. /\ WellFormed(section', {})
        /\ Defined(section') = Defined(section) \cup {acquired}
    BY <1>4, <2>7, EmitWellFormed
  <2>9. ASSUME NEW other \in Slots PROVE Known(operands'[other], Defined(section'))
    <3>1. CASE other = slot
      <4>1. operands'[slot].register = acquired
        BY <1>4, <2>4 DEF IsOperand
      <4> QED BY <2>8, <3>1, <4>1 DEF Known
    <3>2. CASE other # slot
      <4>1. operands'[other] = operands[other]
        BY <1>4, <2>4, <3>2
      <4>2. Known(operands[other], Defined(section))
        BY <1>1 DEF EmittedInv, OperandsKnown
      <4> QED BY <2>8, <4>1, <4>2, KnownFurther
    <3> QED BY <3>1, <3>2
  <2> QED BY <2>8, <2>9 DEF EmittedInv, OperandsKnown
<1> QED BY <1>2, <1>3, <1>4

\* An argument is pushed.
LEMMA PushEmitted ==
    ASSUME Counted, EmittedInv, Emitter!Push
    PROVE  EmittedInv'
<1>1. status = "emitting" /\ status' = status
  BY DEF Emitter!Push, Emitter!Asks
<1>2. PICK slot \in Emitter!Held :
        /\ operands' = [operands EXCEPT ![slot] = Emitter!NoOperand]
        /\ section' = section \o
                <<Emitter!Instruction("PUSH", operands[slot], Emitter!NoOperand, Emitter!NoOperand)>>
  BY DEF Emitter!Push, Emitter!Emit
<1> DEFINE instruction == Emitter!Instruction("PUSH", operands[slot], Emitter!NoOperand, Emitter!NoOperand)
<1>3. \A other \in Slots : Known(operands[other], Defined(section))
  BY <1>1 DEF EmittedInv, OperandsKnown
<1>4. IsPlain(instruction) /\ ReadRegisters(instruction) \subseteq Defined(section)
  BY <1>3, HeldSlots, PushWellFormed
<1>5. section' = section \o <<instruction>>
  BY <1>2
<1> HIDE DEF instruction
<1>6. WellFormed(<<instruction>>, Defined(section))
  BY <1>4, OneWellFormed
<1>7. /\ WellFormed(section', {})
      /\ Defined(section') = Defined(section) \cup Defined(<<instruction>>)
  BY <1>5, <1>6, EmitWellFormed
<1>8. ASSUME NEW other \in Slots PROVE Known(operands'[other], Defined(section'))
  <2>1. operands'[other] = Emitter!NoOperand \/ operands'[other] = operands[other]
    BY <1>2 DEF Counted, AreOperands
  <2>2. Known(operands[other], Defined(section')) /\ Known(Emitter!NoOperand, Defined(section'))
    BY <1>3, <1>7, KnownAnyway DEF Known
  <2> QED BY <2>1, <2>2
<1> QED BY <1>7, <1>8 DEF EmittedInv, OperandsKnown

\* A call modifies the result register, and removes as many arguments as there are.
LEMMA EndCallEmitted ==
    ASSUME Counted, EmittedInv, Emitter!EndCall
    PROVE  EmittedInv'
<1> DEFINE pushes == Emitter!Last(calls).pushed
           instruction == Emitter!Instruction("CALL", Emitter!NoOperand, Emitter!Size(pushes), Emitter!NoOperand)
<1>1. status = "emitting" /\ status' = status /\ calls # <<>>
  BY DEF Emitter!EndCall, Emitter!Asks
<1>2. section' = Append(section, instruction)
  BY DEF Emitter!EndCall
<1>3. PICK to, type : operands' = [operands EXCEPT ![to] = Emitter!Reg(type, Emitter!RRes)]
  BY DEF Emitter!EndCall
<1>4. pushes \in Nat
  <2>1. Emitter!Last(calls) \in Call
    BY <1>1, FrontAndLast DEF Counted
  <2> QED BY <2>1 DEF Call
<1>5. /\ instruction.mnemonic = "CALL" /\ instruction.operand1 = Emitter!NoOperand
      /\ instruction.operand2 = Emitter!Size(pushes) /\ instruction.operand3 = Emitter!NoOperand
  BY DEF Emitter!Instruction
<1>6. /\ Emitter!Size(pushes).displacement = pushes
      /\ Emitter!Size(pushes).register = RVoid /\ Emitter!NoOperand.register = RVoid
  BY EmitterRegisters DEF Emitter!Size, Emitter!Operand, Emitter!NoOperand
<1>7. RRes = Emitter!RRes /\ RRes \in UserRegisters /\ RVoid \notin UserRegisters
  BY EmitterRegisters DEF RRes, Emitter!RRes
<1> HIDE DEF instruction, pushes
<1>8. ModifiedRegister(instruction) = RRes /\ IsPlain(instruction)
  BY <1>4, <1>5, <1>6, <1>7 DEF ModifiedRegister, IsPlain, IsModifying, UnaryMnemonics, BinaryMnemonics
<1>9. ReadRegisters(instruction) \subseteq Defined(section)
  BY <1>5, <1>6, <1>7 DEF ReadRegisters
<1>10. /\ WellFormed(<<instruction>>, Defined(section))
       /\ Defined(<<instruction>>) = {RRes}
  BY <1>7, <1>8, <1>9, OneWellFormed
<1>11. section' = section \o <<instruction>>
  <2> DEFINE parts == {section[index] : index \in DOMAIN section} \cup {instruction}
  <2>1. section \in Seq(parts) /\ instruction \in parts
    BY DEF EmittedInv, WellFormed, IsSequence
  <2> HIDE DEF parts
  <2> QED BY <1>2, <2>1, AppendIsConcat
<1>12. /\ WellFormed(section', {})
       /\ Defined(section') = Defined(section) \cup {RRes}
  BY <1>10, <1>11, EmitWellFormed
<1>13. ASSUME NEW other \in Slots PROVE Known(operands'[other], Defined(section'))
  <2>1. operands'[other] = Emitter!Reg(type, Emitter!RRes) \/ operands'[other] = operands[other]
    BY <1>3 DEF Counted, AreOperands
  <2>2. Known(Emitter!Reg(type, Emitter!RRes), Defined(section'))
    BY <1>7, <1>12, RegTyped DEF Known
  <2>3. Known(operands[other], Defined(section'))
    BY <1>1, <1>12 DEF Known, EmittedInv, OperandsKnown
  <2> QED BY <2>1, <2>2, <2>3
<1> QED BY <1>12, <1>13 DEF EmittedInv, OperandsKnown

\* The rest emits nothing.
LEMMA OthersEmitted ==
    ASSUME Counted, EmittedInv,
           \/ Emitter!Discard \/ Emitter!Protect \/ Emitter!Deprotect \/ Emitter!SaveRegister \/ Emitter!Finish
    PROVE  EmittedInv'
<1>1. section' = section
  BY DEF Emitter!Discard, Emitter!Protect, Emitter!Deprotect, Emitter!SaveRegister, Emitter!Finish, Emitter!machine
<1>2. CASE Emitter!Finish
  <2>1. status' = "finished"
    BY <1>2 DEF Emitter!Finish
  <2> QED BY <1>1, <2>1 DEF EmittedInv
<1>3. CASE Emitter!Discard \/ Emitter!Protect \/ Emitter!Deprotect \/ Emitter!SaveRegister
  <2>1. status = "emitting"
    BY <1>3 DEF Emitter!Discard, Emitter!Protect, Emitter!Deprotect, Emitter!SaveRegister, Emitter!Asks
  <2>2. UNCHANGED operands \/ \E slot : operands' = [operands EXCEPT ![slot] = Emitter!NoOperand]
    BY <1>3 DEF Emitter!Discard, Emitter!Protect, Emitter!Deprotect, Emitter!SaveRegister
  <2>3. ASSUME NEW other \in Slots PROVE Known(operands'[other], Defined(section'))
    <3>1. operands'[other] = Emitter!NoOperand \/ operands'[other] = operands[other]
      BY <2>2 DEF Counted, AreOperands
    <3>2. Known(operands[other], Defined(section')) /\ Known(Emitter!NoOperand, Defined(section'))
      BY <1>1, <2>1, KnownAnyway DEF EmittedInv, OperandsKnown
    <3> QED BY <3>1, <3>2
  <2> QED BY <1>1, <2>3 DEF EmittedInv, OperandsKnown
<1> QED BY <1>2, <1>3

\* Whatever a front end asks for, what is emitted is well-formed.
LEMMA EmitterEmitted ==
    ASSUME Counted, EmittedInv, Emitter!Next
    PROVE  EmittedInv'
BY ValuesEmitted, PairsEmitted, OthersEmitted, RestoreEmitted, BeginCallEmitted, PushEmitted, EndCallEmitted
DEF Emitter!Next

\* At first nothing is emitted.
LEMMA InitEmitted ==
    ASSUME Emitter!Init
    PROVE  EmittedInv
<1>1. section = <<>> /\ operands = [slot \in Slots |-> Emitter!NoOperand]
  BY DEF Emitter!Init
<1> QED BY <1>1, NothingWellFormed, KnownAnyway DEF EmittedInv, OperandsKnown

-----------------------------------------------------------------------------
(* From what a front end asks for to machine code.                         *)

\* A section that is handed over, or written by hand, begins.
LEMMA BeginCompiled ==
    ASSUME TypedSection, Inv, StaleInv, SectionAccepted,
           NEW given, IsSection(given), IsRegular(given), Process(given)
    PROVE  TypedSection' /\ Inv' /\ StaleInv' /\ SectionAccepted'
<1>1. TypedSection'
  BY DEF Process, TypedSection, TypeOK, IsSection, allocation
<1>2. Inv'
  <2>1. /\ uses' = uses /\ fixes' = fixes /\ mapping' = mapping /\ leaked' = leaked
        /\ phase \in {"idle", "done"} /\ phase' = "generating"
    BY DEF Process, allocation
  <2>2. NoneIdle(uses, fixes, mapping)' /\ NoneMissing(uses, fixes, mapping)'
    BY <2>1 DEF Inv, NoneIdle, NoneMissing
  <2> QED BY <2>1, <2>2 DEF Inv, Apart
<1> QED BY <1>1, <1>2, ProcessStale, ProcessAccepted

\* Nothing but handing it over ends the emission of a section.
LEMMA NeverEmitted ==
    ASSUME Emitter!Next
    PROVE  status' # "emitted"
<1>1. ASSUME NEW name, NEW argument, NEW from, NEW result, Emitter!Serve(name, argument, from, result)
      PROVE  status' \in {status, "shortage"}
  BY <1>1 DEF Emitter!Serve
<1>2. status = "emitting"
  BY DEF Emitter!Next, Emitter!Literal, Emitter!Variable, Emitter!Unary, Emitter!Binary, Emitter!Minimum,
    Emitter!Conversion, Emitter!Dereference, Emitter!Move, Emitter!Discard, Emitter!Protect, Emitter!Deprotect,
    Emitter!SaveRegister, Emitter!RestoreRegister, Emitter!BeginCall, Emitter!Push, Emitter!EndCall,
    Emitter!Finish, Emitter!Asks
<1>3. CASE \/ Emitter!Literal \/ Emitter!Variable \/ Emitter!Unary \/ Emitter!Binary \/ Emitter!Minimum
           \/ Emitter!Conversion \/ Emitter!Dereference \/ Emitter!Move
  <2>1. \E name, argument, from, result : Emitter!Serve(name, argument, from, result)
    BY <1>3 DEF Emitter!Literal, Emitter!Variable, Emitter!Unary, Emitter!Binary, Emitter!Minimum,
      Emitter!Conversion, Emitter!Dereference, Emitter!Move
  <2> QED BY <1>1, <1>2, <2>1
<1>4. CASE \/ Emitter!Discard \/ Emitter!Protect \/ Emitter!Deprotect \/ Emitter!SaveRegister
           \/ Emitter!RestoreRegister \/ Emitter!BeginCall \/ Emitter!Push \/ Emitter!EndCall
  <2>1. status' \in {status, "shortage"}
    BY <1>4 DEF Emitter!Discard, Emitter!Protect, Emitter!Deprotect, Emitter!SaveRegister,
      Emitter!RestoreRegister, Emitter!BeginCall, Emitter!Push, Emitter!EndCall
  <2> QED BY <1>2, <2>1
<1>5. CASE Emitter!Finish
  BY <1>5 DEF Emitter!Finish
<1> QED BY <1>3, <1>4, <1>5 DEF Emitter!Next

\* The section that is handed over is proper.
HandedOver == status = "emitted" => IsProper(instructions)

\* Whatever a front end asks the emitter for, no matter in which order, on a
\* target that leaves conversions and arithmetic to the runtime library at
\* most: the machine code reads no register for another, and the section that
\* is handed over is proper, so that it is accepted unless it needs more
\* registers than there are.  No register is read for another in sections that
\* were written by hand and are regular either, whatever errors they contain.
THEOREM Compiled ==
    ASSUME OnlyArithmetic, \A written \in Sections : IsRegular(written)
    PROVE  CompilationSpec => [](NeverStale /\ SectionAccepted /\ HandedOver)
<1> DEFINE Generated == TypedSection /\ Inv /\ StaleInv /\ SectionAccepted
           Emitted == Counted /\ EmittedInv
<1>1. CompilationInit => Generated /\ Emitted /\ HandedOver
  <2>1. Init => Generated
    BY InitStale DEF SectionAccepted, Init
  <2>2. Emitter!Init => HandedOver
    BY DEF Emitter!Init, HandedOver
  <2> QED BY <2>1, <2>2, InitCounted, InitEmitted DEF CompilationInit
<1>2. Generated /\ Emitted /\ HandedOver /\ [CompilationNext]_<<vars, emission>>
      => Generated' /\ Emitted' /\ HandedOver'
  <2> SUFFICES ASSUME TypedSection, Inv, StaleInv, SectionAccepted, Counted, EmittedInv, HandedOver,
                      [CompilationNext]_<<vars, emission>>
               PROVE  Generated' /\ Emitted' /\ HandedOver'
    OBVIOUS
  <2>1. ASSUME UNCHANGED vars PROVE Generated' /\ (IsProper(instructions)' <=> IsProper(instructions))
    BY <2>1, UnchangedStale, UnchangedAccepted
  <2>2. ASSUME UNCHANGED emission PROVE Emitted' /\ status' = status
    <3>1. UNCHANGED <<client, operands, protected, savedRegisters, calls, registerUses, protections, section, status>>
      BY <2>2 DEF emission
    <3> QED BY <3>1 DEF Counted, EmittedInv, OperandsKnown
  <2>3. CASE EmitSection
    <3>1. Generated' /\ Emitted'
      BY <2>1, <2>3, EmitterCounted, EmitterEmitted DEF EmitSection
    <3>2. status' # "emitted"
      BY <2>3, NeverEmitted DEF EmitSection
    <3> QED BY <3>1, <3>2 DEF HandedOver
  <2>4. CASE HandOver
    <3>1. PICK given : given = section /\ Process(given)
      BY <2>4 DEF HandOver
    <3>2. WellFormed(given, {})
      BY <3>1 DEF EmittedInv
    <3>3. Generated' /\ HandedOver'
      <4>1. IsSection(given) /\ IsRegular(given) /\ IsProper(given)
        BY <3>2, WellFormedRegular
      <4>2. instructions' = given
        BY <3>1 DEF Process
      <4>3. IsProper(instructions)'
        BY <4>1, <4>2 DEF IsProper
      <4> QED BY <3>1, <4>1, <4>3, BeginCompiled DEF HandedOver
    <3>4. section' = <<>> /\ status' = "emitted"
          /\ UNCHANGED <<client, operands, protected, savedRegisters, calls, registerUses, protections>>
      BY <2>4 DEF HandOver
    <3>5. Counted'
      BY <3>4 DEF Counted
    <3>6. EmittedInv'
      BY <3>4, NothingWellFormed DEF EmittedInv
    <3> QED BY <3>3, <3>5, <3>6
  <2>5. CASE ProcessWritten
    <3>1. PICK given \in Sections : Process(given)
      BY <2>5 DEF ProcessWritten
    <3>2. IsSection(given)
      BY <3>1, GeneratorAssumption DEF IsSection
    <3>3. Generated'
      BY <3>1, <3>2, BeginCompiled
    <3>4. status' # "emitted"
      BY <2>2, <2>5 DEF ProcessWritten
    <3> QED BY <2>2, <2>5, <3>3, <3>4 DEF ProcessWritten, HandedOver
  <2>6. CASE GenerateSection
    <3>1. Step
      BY <2>6 DEF GenerateSection
    <3>2. TypedSection' /\ Inv'
      BY <3>1, TypedStep, NextInv DEF Next
    <3>3. StaleInv' /\ SectionAccepted'
      BY <3>1, StepStale, StepAccepted
    <3>4. instructions' = instructions
      BY <3>1 DEF Step, FixRegister, UnfixRegister, Generate, CallRuntime, EndSection, Proceed
    <3>5. HandedOver'
      <4>1. IsProper(instructions)' <=> IsProper(instructions)
        BY <3>4 DEF IsProper
      <4>2. status' = status
        BY <2>2, <2>6 DEF GenerateSection
      <4> QED BY <4>1, <4>2 DEF HandedOver
    <3> QED BY <2>2, <2>6, <3>2, <3>3, <3>5 DEF GenerateSection
  <2>7. CASE UNCHANGED <<vars, emission>>
    BY <2>1, <2>2, <2>7 DEF HandedOver
  <2> QED BY <2>3, <2>4, <2>5, <2>6, <2>7 DEF CompilationNext
<1>3. Generated => NeverStale /\ SectionAccepted
  BY DEF StaleInv, NeverStale
<1> QED BY <1>1, <1>2, <1>3, PTL DEF CompilationSpec
=============================================================================
