------------------------- MODULE SectionAssembler_proofs -------------------------
(*****************************************************************************)
(* Proofs about the passes of the assembler, for all sections, origins,      *)
(* alignments and instruction sets.                                          *)
(*****************************************************************************)
EXTENDS SectionAssembler, FiniteSetTheorems, SequenceTheorems, TLAPS

TypedDefinitions(defs) ==
    /\ DOMAIN defs \subseteq {program[i].label : i \in Lines}
    /\ \A name \in DOMAIN defs :
            defs[name] \in [model : {"label", "number"}, value : Int]

(* An operand that can be evaluated has a number as its value.               *)
LEMMA ValuesInt ==
    ASSUME attributes \in AnyAttributes,
           NEW defs, TypedDefinitions(defs), NEW operand \in AnyOperand
    PROVE  Values(defs, operand) \subseteq Int
<1>1. Named(defs, operand.name) \subseteq Int
  BY DEF Named, TypedDefinitions
<1>2. \A v \in Int : Difference(operand.number, v) \in Int
  BY DEF Difference, AnyOperand
<1>3. /\ operand.kind \in LabelOperands \cup {"alignment", "origin"} \cup Options
      /\ operand.number \in Int
  BY DEF AnyOperand
<1>a. Alignment \in Int /\ OriginOf \in Int
  BY DEF Alignment, OriginOf, AnyAttributes
<1>b. Values(defs, operand) =
        CASE operand.kind = "number" -> {operand.number}
          [] operand.kind = "sum" -> {v + operand.number : v \in Named(defs, operand.name)}
          [] operand.kind = "difference" ->
                {Difference(operand.number, v) : v \in Named(defs, operand.name)}
          [] operand.kind = "alignment" -> {v \in {Alignment} : IsParsing \/ v # 0}
          [] operand.kind = "origin" -> {v \in {OriginOf} : IsParsing \/ attributes.fixed}
          [] operand.kind \in Options -> {IF attributes[operand.kind] THEN 1 ELSE 0}
  BY DEF Values
<1>4. CASE operand.kind = "number"
  BY <1>3, <1>4, <1>b
<1>5. CASE operand.kind = "sum"
  BY <1>1, <1>3, <1>5, <1>b
<1>6. CASE operand.kind = "difference"
  BY <1>1, <1>2, <1>3, <1>6, <1>b
<1>7. CASE operand.kind = "alignment"
  BY <1>7, <1>a, <1>b
<1>8. CASE operand.kind = "origin"
  BY <1>8, <1>a, <1>b
<1>9. CASE operand.kind \in Options
  BY <1>9, <1>b DEF Options
<1> QED
  BY <1>3, <1>4, <1>5, <1>6, <1>7, <1>8, <1>9 DEF LabelOperands

(* Aligning an offset never lowers it.                                       *)
LEMMA AlignGrows ==
    ASSUME NEW value \in Nat, NEW alignment \in PowersOfTwo
    PROVE  Align(value, alignment) - value \in Nat
<1> DEFINE q == (value + alignment - 1) \div alignment
           r == (value + alignment - 1) % alignment
<1>1. alignment \in Nat /\ alignment > 0
  BY DEF PowersOfTwo
<1>2. q \in Int /\ r \in 0 .. alignment - 1
      /\ value + alignment - 1 = alignment * q + r
  BY <1>1
<1>3. alignment * q \in Int /\ alignment * q = q * alignment
  BY <1>1, <1>2
<1>4. Align(value, alignment) = q * alignment
  BY DEF Align
<1> HIDE DEF q, r
<1> QED
  BY <1>1, <1>2, <1>3, <1>4

(* Every line that is assembled takes a number of bytes.                     *)
LEMMA BytesNat ==
    ASSUME TypeOK, NEW defs, TypedDefinitions(defs),
           NEW line \in AnyLine, ~IsConditional(line)
    PROVE  Bytes(defs, line) \subseteq Nat
<1> DEFINE values == Values(defs, line.operand)
<1>1. line.operand \in AnyOperand /\ values \subseteq Int
  BY ValuesInt DEF AnyLine, TypeOK
<1>2. line.directive \in Attributes
                        \cup {"byte", "reserve", "pad", "align", "equals", "empty", "jump"}
  BY DEF AnyLine, IsConditional, Conditionals
<1>3. offset \in Nat
  BY DEF TypeOK
<1>4. \A d : Length(d) \in Nat
  BY DEF Length
<1>5. Padding(values) \subseteq Nat
  BY <1>1, <1>3 DEF Padding
<1>6. {Align(offset, v) - offset : v \in values \cap PowersOfTwo} \subseteq Nat
  BY <1>3, AlignGrows
<1> HIDE DEF values
<1>7. Bytes(defs, line) =
          CASE line.directive = "byte" -> {1 : v \in values}
            [] line.directive = "reserve" -> {v \in values : v >= 0}
            [] line.directive = "pad" -> Padding(values)
            [] line.directive = "align" ->
                  {Align(offset, v) - offset : v \in values \cap PowersOfTwo}
            [] line.directive \in Attributes \cup {"equals"} -> {0}
            [] line.directive = "empty" ->
                  IF offset % InstructionAlignment = 0 THEN {0} ELSE {}
            [] line.directive = "jump" ->
                  IF offset % InstructionAlignment # 0 THEN {}
                  ELSE {Length(d) : d \in Displacements(defs, line.operand)}
  BY DEF Bytes, values
<1>8. CASE line.directive = "byte"
  BY <1>7, <1>8
<1>9. CASE line.directive = "reserve"
  BY <1>1, <1>7, <1>9
<1>10. CASE line.directive = "pad"
  BY <1>5, <1>7, <1>10
<1>11. CASE line.directive = "align"
  BY <1>6, <1>7, <1>11
<1>12. CASE line.directive \in Attributes \cup {"equals"}
  BY <1>7, <1>12 DEF Attributes, Options
<1>13. CASE line.directive = "empty"
  BY <1>7, <1>13
<1>14. CASE line.directive = "jump"
  BY <1>4, <1>7, <1>14
<1> QED
  BY <1>2, <1>8, <1>9, <1>10, <1>11, <1>12, <1>13, <1>14

(* A directive that sets an attribute leaves the attributes well typed.      *)
LEMMA SettingsTyped ==
    ASSUME attributes \in AnyAttributes,
           NEW defs, TypedDefinitions(defs), NEW line \in AnyLine
    PROVE  Settings(defs, line) \subseteq AnyAttributes
<1> DEFINE values == Values(defs, line.operand)
<1>1. line.operand \in AnyOperand /\ values \subseteq Int
  BY ValuesInt DEF AnyLine
<1>2. \A o \in Options : [attributes EXCEPT ![o] = TRUE] \in AnyAttributes
  BY DEF Options, AnyAttributes
<1>3. \A v \in Nat : /\ [attributes EXCEPT !.at = v] \in AnyAttributes
                     /\ [attributes EXCEPT !.fixed = TRUE, !.at = v] \in AnyAttributes
  BY DEF AnyAttributes
<1>4. \A name \in Nat : [attributes EXCEPT !.group = name] \in AnyAttributes
  BY DEF AnyAttributes
<1> HIDE DEF values
<1>5. Alignments(values) \subseteq Nat
  BY DEF Alignments, PowersOfTwo
<1>6. Origins(values) \subseteq Nat
  <2> SUFFICES ASSUME NEW v \in Origins(values) PROVE v \in Nat
    OBVIOUS
  <2>1. v \in values /\ v >= 0
    BY DEF Origins
  <2> QED
    BY <1>1, <2>1
<1>7. Groups(defs, line.operand) \subseteq Nat
  BY <1>1 DEF Groups, AnyOperand
<1>8. CASE line.directive \in Options
  <2>1. Given(line.directive, defs, line.operand)
          = {[attributes EXCEPT ![o] = TRUE] :
                o \in {p \in {line.directive} : ~IsSpecified(attributes[p])}}
    BY <1>8 DEF Given, Options, IsSpecified
  <2> QED
    BY <1>2, <1>8, <2>1 DEF Settings
<1>9. CASE line.directive = "alignment"
  <2>1. Given(line.directive, defs, line.operand)
          = {[attributes EXCEPT !.at = v] : v \in Alignments(values)}
    BY <1>9 DEF Given, Options, values
  <2> QED
    BY <1>3, <1>5, <1>9, <2>1 DEF Settings
<1>10. CASE line.directive = "origin"
  <2>1. Given(line.directive, defs, line.operand)
          = {[attributes EXCEPT !.fixed = TRUE, !.at = v] : v \in Origins(values)}
    BY <1>10 DEF Given, Options, values
  <2> QED
    BY <1>3, <1>6, <1>10, <2>1 DEF Settings
<1>11. CASE line.directive = "group"
  <2>1. Given(line.directive, defs, line.operand)
          = {[attributes EXCEPT !.group = name] : name \in Groups(defs, line.operand)}
    BY <1>11 DEF Given, Options
  <2> QED
    BY <1>4, <1>7, <1>11, <2>1 DEF Settings
<1>12. CASE line.directive \notin Attributes
  BY <1>12 DEF Settings
<1> QED
  BY <1>8, <1>9, <1>10, <1>11, <1>12 DEF Attributes

-------------------------------------------------------------------------------
(* A directive leaves the conditionals well typed.                           *)
LEMMA BranchTyped ==
    ASSUME TypeOK, NEW line \in AnyLine, Branch(line)
    PROVE  /\ conditional' \in AnyConditional
           /\ conditionals' \in Seq(AnyConditional)
           /\ Accept \/ Reject
<1>1. conditional \in AnyConditional /\ conditionals \in Seq(AnyConditional)
  BY DEF TypeOK
<1>2. \A operand : Decide(operand) =>
            conditional' \in AnyConditional /\ (Accept \/ Reject)
  BY <1>1 DEF Decide, AnyConditional
<1>3. CASE If(line.operand)
  BY <1>1, <1>2, <1>3 DEF If, AnyConditional
<1>4. CASE Elif(line.operand)
  BY <1>1, <1>2, <1>4 DEF Elif, AfterIncluded, AnyConditional
<1>5. CASE Else
  BY <1>1, <1>5 DEF Else, ElseOf, AnyConditional
<1>6. CASE Endif
  BY <1>1, <1>6 DEF Endif, Enclosing, branching
<1> QED
  BY <1>3, <1>4, <1>5, <1>6 DEF Branch

(* An error is never forgotten.                                              *)
LEMMA FailedTyped ==
    ASSUME failed \in BOOLEAN, Accept \/ Reject
    PROVE  failed' \in BOOLEAN /\ (failed => failed')
BY Zenon DEF Accept, Reject

LEMMA DefineTyped ==
    ASSUME TypeOK, NEW i \in Lines,
           NEW value \in [model : {"label", "number"}, value : Int]
    PROVE  TypedDefinitions(With(definitions, program[i].label, value))
BY DEF TypeOK, TypedDefinitions, With

(* The first pass keeps the definitions well typed.                          *)
LEMMA LabelTyped ==
    ASSUME TypeOK, pc \in Lines, Label(program[pc])
    PROVE  TypedDefinitions(definitions') /\ (Accept \/ Reject)
<1>1. TypedDefinitions(definitions)
  BY DEF TypeOK, TypedDefinitions
<1>2. program[pc] \in AnyLine
  BY DEF TypeOK, Lines
<1>3. Definition(program[pc]) \in [model : {"label", "number"}, value : Int]
  BY <1>2 DEF Definition, AnyLine, AnyOperand
<1>4. TypedDefinitions(With(definitions, program[pc].label, Definition(program[pc])))
  BY <1>3, DefineTyped
<1>5. CASE UNCHANGED definitions
  BY <1>1, <1>5 DEF Label
<1>6. CASE definitions' = With(definitions, program[pc].label, Definition(program[pc]))
  BY <1>4, <1>6 DEF Label
<1> QED
  BY <1>5, <1>6 DEF Label

(* And so does parsing.                                                      *)
LEMMA LabelledTyped ==
    ASSUME TypeOK, pc \in Lines
    PROVE  TypedDefinitions(Labelled(program[pc]))
<1> DEFINE label == program[pc].label
           model == IF label \in DOMAIN definitions THEN definitions[label].model ELSE "label"
           entry == [model |-> model, value |-> offset]
<1>1. TypedDefinitions(definitions)
  BY DEF TypeOK, TypedDefinitions
<1>2. entry \in [model : {"label", "number"}, value : Int]
  BY DEF TypeOK
<1>3. Labelled(program[pc]) = definitions \/ Labelled(program[pc]) = With(definitions, label, entry)
  BY DEF Labelled
<1> HIDE DEF entry
<1> QED
  BY <1>1, <1>2, <1>3, DefineTyped

(* The line that a pass has come to is one of the section.                   *)
LEMMA LineTyped ==
    ASSUME TypeOK, pc <= Len(program)
    PROVE  /\ pc \in Lines /\ pc \in Nat /\ pc + 1 \in 1 .. Len(program) + 1
           /\ program[pc] \in AnyLine /\ Len(program) \in Nat
BY DEF TypeOK, Lines

LEMMA InitTyped == Init => TypeOK
<1> SUFFICES ASSUME Init PROVE TypeOK
  OBVIOUS
<1>1. program \in Seq(AnyLine)
  BY ProgramAssumption DEF Init
<1>2. Len(program) \in Nat /\ Origin \in Nat
  BY <1>1, TargetAssumption
<1>3. definitions = << >> /\ DOMAIN definitions = {}
  BY DEF Init
<1>4. failed \in BOOLEAN
  BY Zenon DEF Init
<1>5. sizes \in [Lines -> Nat] /\ places \in [Lines -> Nat]
  BY <1>2 DEF Init
<1>6. conditional \in AnyConditional /\ conditionals \in Seq(AnyConditional)
  BY DEF Init, AnyConditional
<1>7. phase = "label" /\ pc = 1 /\ offset \in Nat /\ taken = {}
  BY <1>2 DEF Init
<1>8. attributes \in AnyAttributes
  BY DEF Init, AnyAttributes, NoLabel
<1> QED
  BY <1>1, <1>2, <1>3, <1>4, <1>5, <1>6, <1>7, <1>8 DEF TypeOK

LEMMA NextTyped == TypeOK /\ [Next]_vars => TypeOK'
<1> SUFFICES ASSUME TypeOK, [Next]_vars PROVE TypeOK'
  OBVIOUS
<1>1. /\ program \in Seq(AnyLine) /\ pc \in 1 .. Len(program) + 1 /\ offset \in Nat
      /\ failed \in BOOLEAN /\ taken \subseteq Lines /\ Len(program) \in Nat
      /\ sizes \in [Lines -> Nat] /\ places \in [Lines -> Nat]
      /\ conditional \in AnyConditional /\ conditionals \in Seq(AnyConditional)
      /\ TypedDefinitions(definitions) /\ attributes \in AnyAttributes
  BY DEF TypeOK, TypedDefinitions
<1>2. CASE LabelLine
  <2>1. pc <= Len(program) /\ program' = program /\ phase' = phase /\ pc' = pc + 1
        /\ offset' = offset /\ sizes' = sizes /\ places' = places
        /\ attributes' = attributes
    BY <1>2 DEF LabelLine
  <2>2. pc \in Lines /\ program[pc] \in AnyLine /\ pc' \in 1 .. Len(program) + 1
    BY <2>1, LineTyped
  <2>3. taken' \subseteq Lines
    BY <1>1, <1>2, <2>2 DEF LabelLine, Record
  <2>4. /\ conditional' \in AnyConditional /\ conditionals' \in Seq(AnyConditional)
        /\ TypedDefinitions(definitions') /\ (Accept \/ Reject)
    BY <1>1, <1>2, <2>2, BranchTyped, LabelTyped DEF LabelLine, branching
  <2>5. failed' \in BOOLEAN
    BY <1>1, <2>4, FailedTyped
  <2> QED
    BY <1>1, <2>1, <2>2, <2>3, <2>4, <2>5 DEF TypeOK, TypedDefinitions, Lines
<1>3. CASE EndLabel
  BY <1>1, <1>3 DEF EndLabel, TypeOK, branching, Lines
<1>4. CASE ProcessLine
  <2> DEFINE bytes == Bytes(definitions', program[pc])
  <2>1. pc <= Len(program) /\ program' = program /\ phase' = phase /\ pc' = pc + 1
        /\ definitions' = Labelled(program[pc])
    BY <1>4 DEF ProcessLine
  <2>2. pc \in Lines /\ program[pc] \in AnyLine /\ pc' \in 1 .. Len(program) + 1
    BY <2>1, LineTyped
  <2>3. taken' \subseteq Lines
    BY <1>1, <1>4, <2>2 DEF ProcessLine, Record
  <2>4. TypedDefinitions(definitions')
    BY <2>1, <2>2, LabelledTyped
  <2>5. places' \in [Lines -> Nat]
    BY <1>1, <1>4, <2>2 DEF ProcessLine
  <2>6. \A size \in Nat : Reserve(size) =>
            offset' \in Nat /\ sizes' \in [Lines -> Nat] /\ (Accept \/ Reject)
    BY <1>1, <2>2 DEF Reserve
  <2>7. ~IsConditional(program[pc]) => bytes \subseteq Nat
    BY <2>2, <2>4, BytesNat
  <2>13. attributes' \in AnyAttributes
    <3>1. Settings(definitions', program[pc]) \subseteq AnyAttributes
      BY <1>1, <2>2, <2>4, SettingsTyped
    <3>2. attributes' = attributes \/ attributes' \in Settings(definitions', program[pc])
      BY <1>4 DEF ProcessLine
    <3> QED
      BY <1>1, <3>1, <3>2
  <2> HIDE DEF bytes
  <2>8. \/ IsConditional(program[pc]) /\ Branch(program[pc]) /\ UNCHANGED <<offset, sizes>>
        \/ /\ ~IsConditional(program[pc]) /\ UNCHANGED branching
           /\ \/ ~IsIncluding /\ Reserve(0)
              \/ IsIncluding /\ \E size \in bytes : Reserve(size)
              \/ IsIncluding /\ Reject /\ UNCHANGED <<offset, sizes>>
    BY <1>4 DEF ProcessLine, bytes
  <2>9. offset' \in Nat /\ sizes' \in [Lines -> Nat] /\ (Accept \/ Reject)
    BY <1>1, <2>2, <2>6, <2>7, <2>8, BranchTyped
  <2>10. conditional' \in AnyConditional /\ conditionals' \in Seq(AnyConditional)
    BY <1>1, <2>2, <2>8, BranchTyped DEF branching
  <2>11. failed' \in BOOLEAN
    BY <1>1, <2>9, FailedTyped
  <2>12. phase' \in {"label", "parse", "emit", "done", "failed", "aborted"}
    BY <2>1 DEF TypeOK
  <2> QED
    BY <1>1, <2>1, <2>2, <2>3, <2>4, <2>5, <2>9, <2>10, <2>11, <2>12, <2>13
    DEF TypeOK, TypedDefinitions, Lines
<1>5. CASE EndPass
  <2>1. program' = program /\ pc' \in 1 .. Len(program) + 1 /\ offset' \in Nat
        /\ taken' \subseteq Lines
        /\ phase' \in {"label", "parse", "emit", "done", "failed", "aborted"}
    BY <1>1, <1>5, TargetAssumption DEF EndPass
  <2>2. attributes' \in AnyAttributes
    <3>1. Raised \in AnyAttributes
      BY <1>1, TargetAssumption DEF Raised, AnyAttributes
    <3>2. attributes' = Raised \/ attributes' = attributes
      BY <1>5 DEF EndPass
    <3> QED
      BY <1>1, <3>1, <3>2
  <2> QED
    BY <1>1, <1>5, <2>1, <2>2 DEF EndPass, TypeOK, TypedDefinitions, branching, Lines
<1>6. CASE UNCHANGED vars
  BY <1>1, <1>6 DEF vars, branching, history, TypeOK, Lines
<1> QED
  BY <1>2, <1>3, <1>4, <1>5, <1>6 DEF Next

(* The members of the context keep their types in every pass.                *)
THEOREM Typing == Spec => []TypeOK
<1> QED
  BY InitTyped, NextTyped, PTL DEF Spec

-------------------------------------------------------------------------------
(* The outermost conditional is the one of the section, which is including.  *)
Rooted ==
    IF conditionals = <<>> THEN conditional = "including"
    ELSE conditionals[1] = "including"

(* As long as there is no error, the directives passed account for the       *)
(* conditionals that are open, and the passes after the first find them all  *)
(* closed at the end, which the directives alone determine.                  *)
Balanced ==
    /\ phase \in {"label", "parse", "emit"} /\ ~failed => Len(conditionals) = Depth(pc)
    /\ phase \in {"parse", "emit"} => Depth(Len(program) + 1) = 0

AssertInv == TypeOK /\ Rooted /\ Balanced /\ AssertionsHold

(* A line changes the depth if it opens or closes a conditional.             *)
LEMMA DepthStep ==
    ASSUME program \in Seq(AnyLine), NEW i \in Lines
    PROVE  /\ Depth(i) \in Int
           /\ Depth(i + 1) = Depth(i) + (IF program[i].directive = "if" THEN 1 ELSE 0)
                                      - (IF program[i].directive = "endif" THEN 1 ELSE 0)
<1> DEFINE Before(directive, n) == {j \in 1 .. n - 1 : program[j].directive = directive}
<1>1. i \in Nat /\ i >= 1
  BY DEF Lines
<1>2. ASSUME NEW directive
      PROVE  /\ Cardinality(Before(directive, i)) \in Nat
             /\ Cardinality(Before(directive, i + 1)) = Cardinality(Before(directive, i))
                    + (IF program[i].directive = directive THEN 1 ELSE 0)
  <2>1. IsFiniteSet(1 .. i - 1)
    BY <1>1, FS_Interval
  <2>2. IsFiniteSet(Before(directive, i))
    BY <2>1, FS_Subset
  <2>3. i \notin Before(directive, i)
    BY <1>1
  <2>4. Before(directive, i + 1) = IF program[i].directive = directive
                                   THEN Before(directive, i) \cup {i} ELSE Before(directive, i)
    BY <1>1
  <2> HIDE DEF Before
  <2> QED
    BY <2>2, <2>3, <2>4, FS_CardinalityType, FS_AddElement
<1>3. \A n : Depth(n) = Cardinality(Before("if", n)) - Cardinality(Before("endif", n))
  BY DEF Depth
<1> HIDE DEF Before
<1> QED
  BY <1>2, <1>3

LEMMA DepthOne == Depth(1) = 0
<1>1. \A directive : {j \in 1 .. 1 - 1 : program[j].directive = directive} = {}
  OBVIOUS
<1> QED
  BY <1>1, FS_EmptySet DEF Depth

(* A sequence without its last element.                                      *)
LEMMA WithoutLast ==
    ASSUME NEW S, NEW s \in Seq(S), s # <<>>
    PROVE  LET t == SubSeq(s, 1, Len(s) - 1)
           IN  /\ Len(t) = Len(s) - 1
               /\ Len(s) > 1 => t[1] = s[1] /\ t # <<>>
               /\ Len(s) = 1 => t = <<>>
<1>1. Len(s) \in Nat /\ Len(s) >= 1
  OBVIOUS
<1>2. \A i \in 1 .. Len(s) - 1 : s[i] \in S
  BY <1>1
<1>3. /\ SubSeq(s, 1, Len(s) - 1) \in Seq(S)
      /\ Len(SubSeq(s, 1, Len(s) - 1)) = IF 1 <= Len(s) - 1 THEN Len(s) - 1 - 1 + 1 ELSE 0
      /\ \A i \in 1 .. Len(s) - 1 - 1 + 1 : SubSeq(s, 1, Len(s) - 1)[i] = s[1 + i - 1]
  BY <1>1, <1>2, SubSeqProperties
<1> DEFINE t == SubSeq(s, 1, Len(s) - 1)
<1>4. t \in Seq(S) /\ Len(t) = IF 1 <= Len(s) - 1 THEN Len(s) - 1 - 1 + 1 ELSE 0
  BY <1>3
<1>5. Len(s) > 1 => t[1] = s[1]
  BY <1>1, <1>3, 1 + 1 - 1 = 1
<1> HIDE DEF t
<1>6. Len(t) = Len(s) - 1 /\ (Len(s) > 1 => t[1] = s[1]) /\ t \in Seq(S)
  BY <1>1, <1>4, <1>5, SMTT(30)
<1>7. Len(s) > 1 => t # <<>>
  BY <1>1, <1>6
<1>8. Len(s) = 1 => t = <<>>
  BY <1>1, <1>6
<1> QED
  BY <1>6, <1>7, <1>8 DEF t

(* A directive keeps the root and counts, unless there is an error.          *)
LEMMA BranchCounts ==
    ASSUME TypeOK, Rooted, NEW line \in AnyLine, IsConditional(line), Branch(line)
    PROVE  /\ Rooted'
           /\ ~failed' =>
                Len(conditionals') = Len(conditionals)
                    + (IF line.directive = "if" THEN 1 ELSE 0)
                    - (IF line.directive = "endif" THEN 1 ELSE 0)
<1>1. conditional \in AnyConditional /\ conditionals \in Seq(AnyConditional)
  BY DEF TypeOK
<1>2. conditionals = <<>> \/ (conditionals # <<>> /\ Len(conditionals) >= 1)
  BY <1>1
<1>3. CASE line.directive = "if"
  <2>1. conditionals' = Append(conditionals, conditional)
    BY <1>3 DEF Branch, If
  <2> QED
    BY <1>1, <1>2, <1>3, <2>1 DEF Rooted
<1>4. CASE line.directive = "elif"
  <2>1. conditionals' = conditionals /\ (conditionals = <<>> => conditional' = conditional)
    BY <1>4 DEF Branch, Elif, Rooted, Decide
  <2> QED
    BY <1>1, <1>4, <2>1 DEF Rooted
<1>5. CASE line.directive = "else"
  <2>1. conditionals' = conditionals /\ (conditionals = <<>> => conditional' = conditional)
    BY <1>5 DEF Branch, Else, Rooted
  <2> QED
    BY <1>1, <1>5, <2>1 DEF Rooted
<1>6. CASE line.directive = "endif"
  <2>1. CASE conditionals = <<>>
    <3>1. UNCHANGED branching /\ Reject
      BY <1>6, <2>1 DEF Branch, Endif
    <3>2. failed'
      BY <3>1, Zenon DEF Reject
    <3> QED
      BY <3>1, <3>2 DEF Rooted, branching
  <2>2. CASE conditionals # <<>>
    <3>1. /\ conditional' = conditionals[Len(conditionals)]
          /\ conditionals' = SubSeq(conditionals, 1, Len(conditionals) - 1)
      BY <1>6, <2>2 DEF Branch, Endif, Enclosing
    <3>2. Len(conditionals') = Len(conditionals) - 1
      BY <1>1, <2>2, <3>1, WithoutLast
    <3>3. Len(conditionals) > 1 => conditionals' # <<>> /\ conditionals'[1] = conditionals[1]
      BY <1>1, <2>2, <3>1, WithoutLast
    <3>4. Len(conditionals) = 1 => conditionals' = <<>>
      BY <1>1, <2>2, <3>1, WithoutLast
    <3> QED
      BY <1>1, <1>2, <1>6, <2>2, <3>1, <3>2, <3>3, <3>4 DEF Rooted
  <2> QED
    BY <2>1, <2>2
<1> QED
  BY <1>3, <1>4, <1>5, <1>6 DEF IsConditional, Conditionals

LEMMA InitAssertInv == Init => AssertInv
<1> SUFFICES ASSUME Init PROVE AssertInv
  OBVIOUS
<1>1. Depth(1) = 0
  BY DepthOne
<1> QED
  BY <1>1, InitTyped DEF Init, AssertInv, Rooted, Balanced, AssertionsHold

(* A line of any pass keeps the invariant.                                   *)
LEMMA LineAsserts ==
    ASSUME AssertInv, phase \in {"label", "parse", "emit"}, pc <= Len(program),
           program' = program, phase' = phase, pc' = pc + 1,
           \/ IsConditional(program[pc]) /\ Branch(program[pc])
           \/ ~IsConditional(program[pc]) /\ UNCHANGED branching /\ (Accept \/ Reject)
    PROVE  Rooted' /\ Balanced'
<1>1. TypeOK /\ Rooted /\ Balanced
  BY DEF AssertInv
<1>2. pc \in Lines /\ program[pc] \in AnyLine /\ program \in Seq(AnyLine)
  BY <1>1, LineTyped DEF TypeOK
<1>3. Accept \/ Reject
  BY <1>1, <1>2, BranchTyped
<1>4. failed => failed'
  BY <1>1, <1>3, FailedTyped DEF TypeOK
<1>5. /\ Rooted'
      /\ ~failed' =>
            Len(conditionals') = Len(conditionals)
                + (IF program[pc].directive = "if" THEN 1 ELSE 0)
                - (IF program[pc].directive = "endif" THEN 1 ELSE 0)
  <2>1. CASE IsConditional(program[pc]) /\ Branch(program[pc])
    BY <1>1, <1>2, <2>1, BranchCounts
  <2>2. CASE ~IsConditional(program[pc]) /\ UNCHANGED branching
    <3>1. program[pc].directive # "if" /\ program[pc].directive # "endif"
      BY <2>2 DEF IsConditional, Conditionals
    <3>2. Len(conditionals) \in Nat
      BY <1>1 DEF TypeOK
    <3> QED
      BY <1>1, <2>2, <3>1, <3>2 DEF Rooted, branching
  <2> QED
    BY <2>1, <2>2
<1>6. /\ Depth(pc) \in Int
      /\ Depth(pc + 1) = Depth(pc) + (IF program[pc].directive = "if" THEN 1 ELSE 0)
                                   - (IF program[pc].directive = "endif" THEN 1 ELSE 0)
  BY <1>2, DepthStep
<1> QED
  BY <1>1, <1>4, <1>5, <1>6 DEF Balanced, Depth

LEMMA NextAssertInv == AssertInv /\ [Next]_vars => AssertInv'
<1> SUFFICES ASSUME AssertInv, [Next]_vars PROVE AssertInv'
  OBVIOUS
<1>1. TypeOK /\ Rooted /\ Balanced /\ AssertionsHold
  BY DEF AssertInv
<1>2. TypeOK'
  BY <1>1, NextTyped
<1>3. Len(program) \in Nat
  BY <1>1 DEF TypeOK
<1>4. Rooted' /\ Balanced' /\ AssertionsHold'
  <2>1. CASE LabelLine
    <3>1. /\ phase = "label" /\ pc <= Len(program)
          /\ program' = program /\ phase' = phase /\ pc' = pc + 1
      BY <2>1 DEF LabelLine
    <3>2. pc \in Lines
      BY <1>1, <3>1, LineTyped
    <3>3. \/ IsConditional(program[pc]) /\ Branch(program[pc])
          \/ ~IsConditional(program[pc]) /\ UNCHANGED branching /\ (Accept \/ Reject)
      BY <1>1, <2>1, <3>2, LabelTyped DEF LabelLine
    <3> QED
      BY <1>1, <3>1, <3>3, LineAsserts DEF AssertionsHold
  <2>2. CASE EndLabel
    <3>1. pc = Len(program) + 1
      BY <1>1, <1>3, <2>2 DEF EndLabel, TypeOK
    <3>2. program' = program /\ branching' = branching /\ pc' = 1 /\ failed' = failed
      BY <2>2 DEF EndLabel
    <3>3. CASE phase' = "failed"
      BY <1>1, <3>2, <3>3 DEF Rooted, Balanced, AssertionsHold, branching
    <3>4. CASE phase' = "parse" /\ ~failed /\ conditionals = <<>>
      <4>1. Len(conditionals) = 0 /\ Depth(pc) = 0
        BY <1>1, <2>2, <3>4 DEF Balanced, EndLabel
      <4>2. Depth(Len(program) + 1) = 0 /\ Depth(1) = 0
        BY <3>1, <4>1, DepthOne
      <4> QED
        BY <1>1, <3>2, <3>4, <4>1, <4>2
        DEF Rooted, Balanced, AssertionsHold, branching, Depth
    <3> QED
      BY <2>2, <3>3, <3>4 DEF EndLabel, IsComplete
  <2>3. CASE ProcessLine
    <3>1. /\ phase \in {"parse", "emit"} /\ pc <= Len(program)
          /\ program' = program /\ phase' = phase /\ pc' = pc + 1
      BY <2>3 DEF ProcessLine
    <3>2. \A size : Reserve(size) => Accept \/ Reject
      BY DEF Reserve
    <3>3. \/ IsConditional(program[pc]) /\ Branch(program[pc])
          \/ ~IsConditional(program[pc]) /\ UNCHANGED branching /\ (Accept \/ Reject)
      BY <2>3, <3>2 DEF ProcessLine
    <3> QED
      BY <1>1, <3>1, <3>3, LineAsserts DEF AssertionsHold
  <2>4. CASE EndPass
    <3>1. phase \in {"parse", "emit"} /\ pc = Len(program) + 1
      BY <1>1, <1>3, <2>4 DEF EndPass, TypeOK
    <3>2. program' = program /\ branching' = branching /\ failed' = failed
      BY <2>4 DEF EndPass
    <3>3. CASE failed
      <4>1. phase' = "failed"
        BY <2>4, <3>3 DEF EndPass
      <4> QED
        BY <1>1, <3>2, <4>1 DEF Rooted, Balanced, AssertionsHold, branching
    <3>4. CASE ~failed
      <4>1. Len(conditionals) = 0 /\ Depth(Len(program) + 1) = 0
        BY <1>1, <3>1, <3>4 DEF Balanced
      <4>2. conditionals = <<>> /\ conditional = "including"
        BY <1>1, <4>1 DEF Rooted, TypeOK
      <4>3. phase' \in {"emit", "done"} /\ pc' = 1
        BY <2>4, <3>4, <4>2 DEF EndPass
      <4> QED
        BY <1>1, <3>2, <4>1, <4>2, <4>3, DepthOne
        DEF Rooted, Balanced, AssertionsHold, branching, Depth
    <3> QED
      BY <3>3, <3>4
  <2>5. CASE UNCHANGED vars
    BY <1>1, <2>5 DEF vars, branching, Rooted, Balanced, AssertionsHold, Depth
  <2> QED
    BY <2>1, <2>2, <2>3, <2>4, <2>5 DEF Next
<1> QED
  BY <1>2, <1>4 DEF AssertInv

(* Whatever the conditions are evaluated to in the passes after the first,   *)
(* their assertions on the conditionals hold.                                *)
THEOREM Assertions == Spec => []AssertionsHold
<1>1. Spec => []AssertInv
  BY InitAssertInv, NextAssertInv, PTL DEF Spec
<1>2. AssertInv => AssertionsHold
  BY DEF AssertInv
<1> QED
  BY <1>1, <1>2, PTL

-------------------------------------------------------------------------------
(* The lines up to one follow each other without a gap.                      *)
Contiguous(n) ==
    /\ n >= 1 => places[1] = Origin
    /\ \A i \in 2 .. n : places[i] = places[i - 1] + sizes[i - 1]

\* Whether a line is the only one with its label.
Owns(i) ==
    program[i].label # NoLabel /\ program[i].directive # "equals" /\ Unique(i)

Resolved(i) ==
    Owns(i) => /\ program[i].label \in DOMAIN definitions
               /\ definitions[program[i].label].value = places[i]

(* What parsing recorded up to the line it has come to, and what emitting    *)
(* finds: the sizes are the distances between the places.                    *)
Recorded ==
    /\ \A i \in Lines : IsConditional(program[i]) => sizes[i] = 0
    /\ phase = "label" => offset = Origin /\ \A i \in Lines : sizes[i] = 0
    /\ phase = "parse" =>
            /\ \A i \in Lines : i >= pc => sizes[i] = 0
            /\ ~failed => /\ Contiguous(pc - 1)
                          /\ offset = IF pc = 1 THEN Origin ELSE places[pc - 1] + sizes[pc - 1]
            /\ \A i \in Lines : i < pc => Resolved(i)
    /\ phase = "emit" =>
            /\ Contiguous(Len(program))
            /\ ~failed /\ pc <= Len(program) => offset = places[pc]
            /\ \A i \in Lines : Resolved(i)

PlaceInv == TypeOK /\ Recorded

(* What a line of the second or third pass does to the sizes and the offset. *)
LEMMA LineReserves ==
    ASSUME PlaceInv, ProcessLine
    PROVE  /\ phase = "parse" => sizes' = [sizes EXCEPT ![pc] = sizes'[pc]]
           /\ phase = "emit" => sizes' = sizes
           /\ IsConditional(program[pc]) => sizes' = sizes
           /\ sizes'[pc] \in Nat
           /\ failed => failed'
           /\ ~failed' => offset' = offset + sizes'[pc]
<1> DEFINE bytes == Bytes(definitions', program[pc])
<1>1. TypeOK /\ Recorded
  BY DEF PlaceInv
<1>2. phase \in {"parse", "emit"} /\ pc <= Len(program) /\ definitions' = Labelled(program[pc])
  BY DEF ProcessLine
<1>3. pc \in Lines /\ program[pc] \in AnyLine
  BY <1>1, <1>2, LineTyped
<1>4. offset \in Nat /\ sizes \in [Lines -> Nat] /\ failed \in BOOLEAN
  BY <1>1 DEF TypeOK
<1>5. ~IsConditional(program[pc]) => bytes \subseteq Nat
  BY <1>1, <1>2, <1>3, LabelledTyped, BytesNat
<1>6. \/ IsConditional(program[pc]) /\ Branch(program[pc]) /\ UNCHANGED <<offset, sizes>>
      \/ /\ ~IsConditional(program[pc])
         /\ \/ \E size \in bytes \cup {0} : Reserve(size)
            \/ Reject /\ UNCHANGED <<offset, sizes>>
  BY DEF ProcessLine, bytes
<1> HIDE DEF bytes
<1>7. CASE IsConditional(program[pc]) /\ Branch(program[pc]) /\ UNCHANGED <<offset, sizes>>
  <2>1. sizes[pc] = 0 /\ sizes' = sizes /\ offset' = offset
    BY <1>1, <1>3, <1>7 DEF Recorded
  <2>2. failed => failed'
    BY <1>1, <1>3, <1>4, <1>7, BranchTyped, FailedTyped
  <2> QED
    BY <1>3, <1>4, <2>1, <2>2
<1>8. CASE ~IsConditional(program[pc]) /\ \E size \in bytes \cup {0} : Reserve(size)
  <2>1. PICK size \in Nat : Reserve(size)
    BY <1>5, <1>8
  <2>2. /\ offset' = offset + size
        /\ sizes' = IF IsParsing THEN [sizes EXCEPT ![pc] = size] ELSE sizes
    BY <2>1 DEF Reserve
  <2>3. failed => failed'
    BY <1>4, <2>1, FailedTyped DEF Reserve
  <2>4. ~failed' => ~IsResized(size)
    <3>1. Reject => failed'
      BY Zenon DEF Reject
    <3> QED
      BY <2>1, <3>1 DEF Reserve
  <2>5. ~failed' => size = sizes'[pc]
    BY <1>2, <1>3, <1>4, <2>2, <2>4 DEF IsResized, IsParsing
  <2>6. sizes'[pc] \in Nat
    BY <1>3, <1>4, <2>2
  <2> QED
    BY <1>2, <1>3, <1>4, <1>8, <2>2, <2>3, <2>5, <2>6 DEF IsParsing
<1>9. CASE ~IsConditional(program[pc]) /\ Reject /\ UNCHANGED <<offset, sizes>>
  <2>1. failed'
    BY <1>9, Zenon DEF Reject
  <2> QED
    BY <1>3, <1>4, <1>9, <2>1
<1> QED
  BY <1>6, <1>7, <1>8, <1>9

(* A line that is parsed is resolved, and those before it stay so.           *)
LEMMA LineResolves ==
    ASSUME PlaceInv, ProcessLine, phase = "parse"
    PROVE  \A i \in Lines : i < pc + 1 => Resolved(i)'
<1>1. TypeOK /\ Recorded /\ program' = program
  BY DEF PlaceInv, ProcessLine
<1>2. pc \in Lines /\ pc \in Nat
  BY <1>1, LineTyped DEF ProcessLine
<1>3. places \in [Lines -> Nat] /\ places' = [places EXCEPT ![pc] = offset]
  BY <1>1 DEF TypeOK, ProcessLine, IsParsing
<1>4. definitions' = Labelled(program[pc])
  BY DEF ProcessLine
<1> SUFFICES ASSUME NEW i \in Lines, i < pc + 1, Owns(i)
             PROVE  /\ program[i].label \in DOMAIN definitions'
                    /\ definitions'[program[i].label].value = places'[i]
  BY <1>1 DEF Resolved, Owns, Unique, Lines
<1>5. CASE i = pc
  BY <1>2, <1>3, <1>4, <1>5 DEF Labelled, With, Owns, IsParsing
<1>6. CASE i # pc
  <2>1. i < pc /\ program[i].label # program[pc].label
    BY <1>2, <1>6 DEF Owns, Unique, Lines
  <2>2. /\ program[i].label \in DOMAIN definitions
        /\ definitions[program[i].label].value = places[i]
    BY <1>1, <2>1 DEF Recorded, Resolved
  <2>3. \A value : /\ program[i].label \in DOMAIN With(definitions, program[pc].label, value)
                   /\ With(definitions, program[pc].label, value)[program[i].label]
                        = definitions[program[i].label]
    BY <2>1, <2>2 DEF With
  <2>4. /\ program[i].label \in DOMAIN definitions'
        /\ definitions'[program[i].label] = definitions[program[i].label]
    BY <1>4, <2>2, <2>3 DEF Labelled
  <2> QED
    BY <1>3, <1>6, <2>2, <2>4
<1> QED
  BY <1>5, <1>6

LEMMA NextPlaceInv == PlaceInv /\ [Next]_vars => PlaceInv'
<1> SUFFICES ASSUME PlaceInv, [Next]_vars PROVE PlaceInv'
  OBVIOUS
<1>1. TypeOK /\ Recorded
  BY DEF PlaceInv
<1>2. TypeOK'
  BY <1>1, NextTyped
<1>3. /\ Len(program) \in Nat /\ pc \in 1 .. Len(program) + 1 /\ program \in Seq(AnyLine)
      /\ offset \in Nat /\ sizes \in [Lines -> Nat] /\ places \in [Lines -> Nat]
      /\ Origin \in Nat /\ Lines = 1 .. Len(program)
  BY <1>1, TargetAssumption DEF TypeOK, Lines
<1>4. Recorded'
  <2>1. CASE LabelLine
    BY <1>1, <1>3, <2>1 DEF LabelLine, Recorded, IsConditional, Lines
  <2>2. CASE EndLabel
    <3>1. /\ program' = program /\ offset' = offset /\ sizes' = sizes /\ pc' = 1
          /\ phase = "label" /\ phase' \in {"failed", "parse"}
      BY <2>2 DEF EndLabel
    <3>2. \A i \in Lines : ~(i < 1)
      BY <1>3
    <3>3. Contiguous(0)'
      BY DEF Contiguous
    <3>4. pc' - 1 = 0
      BY <3>1
    <3> QED
      BY <1>1, <3>1, <3>2, <3>3, <3>4 DEF Recorded, IsConditional, Lines
  <2>3. CASE ProcessLine /\ phase = "parse"
    <3>1. /\ program' = program /\ phase' = phase /\ pc' = pc + 1 /\ pc <= Len(program)
          /\ places' = [places EXCEPT ![pc] = offset]
      BY <2>3 DEF ProcessLine, IsParsing
    <3>2. /\ sizes' = [sizes EXCEPT ![pc] = sizes'[pc]] /\ sizes'[pc] \in Nat
          /\ IsConditional(program[pc]) => sizes' = sizes
          /\ failed => failed'
          /\ ~failed' => offset' = offset + sizes'[pc]
      BY <2>3, LineReserves
    <3>3. \A i \in Lines : i < pc + 1 => Resolved(i)'
      BY <2>3, LineResolves
    <3>4. \A i \in Lines : IsConditional(program[i]) => sizes'[i] = 0
      BY <1>1, <1>3, <3>2 DEF Recorded
    <3>5. \A i \in Lines : i >= pc + 1 => sizes'[i] = 0
      BY <1>1, <1>3, <2>3, <3>2 DEF Recorded
    <3>6. ASSUME ~failed' PROVE Contiguous(pc - 1)'
      <4>1. Contiguous(pc - 1)
            /\ offset = IF pc = 1 THEN Origin ELSE places[pc - 1] + sizes[pc - 1]
        BY <1>1, <2>3, <3>2, <3>6 DEF Recorded
      <4>2. places'[pc] = offset /\ \A i \in Lines : i # pc => places'[i] = places[i] /\ sizes'[i] = sizes[i]
        BY <1>3, <3>1, <3>2
      <4>3. pc >= 1 => places'[1] = Origin
        BY <1>3, <3>1, <4>1, <4>2 DEF Contiguous
      <4>4. ASSUME NEW i \in 2 .. pc
            PROVE  places'[i] = places'[i - 1] + sizes'[i - 1]
        <5>1. i \in Lines /\ i - 1 \in Lines /\ i - 1 # pc
          BY <1>3, <3>1
        <5>2. CASE i = pc
          BY <1>3, <4>1, <4>2, <5>1, <5>2, SMTT(30)
        <5>3. CASE i # pc
          <6>1. i \in 2 .. pc - 1
            BY <1>3, <5>3
          <6> QED
            BY <4>1, <4>2, <5>1, <5>3, <6>1 DEF Contiguous
        <5> QED
          BY <5>2, <5>3
      <4>5. pc' - 1 = pc
        BY <1>3, <3>1
      <4> QED
        BY <1>3, <4>3, <4>4, <4>5 DEF Contiguous
    <3>7. ~failed' => offset' = places'[pc] + sizes'[pc]
      BY <1>3, <3>1, <3>2
    <3>8. pc' - 1 = pc /\ pc' # 1
      BY <1>3, <3>1
    <3>9. \A i \in Lines : i < pc' => Resolved(i)'
      BY <3>1, <3>3
    <3> QED
      BY <2>3, <3>1, <3>4, <3>5, <3>6, <3>7, <3>8, <3>9 DEF Recorded, IsConditional, Lines
  <2>4. CASE ProcessLine /\ phase = "emit"
    <3>1. /\ program' = program /\ phase' = phase /\ pc' = pc + 1 /\ pc <= Len(program)
          /\ places' = places /\ definitions' = definitions
      BY <2>4 DEF ProcessLine, IsParsing, Labelled
    <3>2. /\ sizes' = sizes
          /\ failed => failed'
          /\ ~failed' => offset' = offset + sizes[pc]
      BY <2>4, LineReserves
    <3>3. ~failed' /\ pc + 1 <= Len(program) => offset' = places[pc + 1]
      <4> SUFFICES ASSUME ~failed', pc + 1 <= Len(program) PROVE offset' = places[pc + 1]
        OBVIOUS
      <4>1. pc + 1 \in 2 .. Len(program) /\ pc + 1 - 1 = pc
        BY <1>3
      <4>2. places[pc + 1] = places[pc] + sizes[pc]
        <5>1. \A i \in 2 .. Len(program) : \A j : j = i - 1 => places[i] = places[j] + sizes[j]
          BY <1>1, <2>4 DEF Recorded, Contiguous
        <5> DEFINE next == pc + 1
        <5>2. next \in 2 .. Len(program) /\ pc = next - 1
          BY <1>3, <4>1
        <5> HIDE DEF next
        <5>3. places[next] = places[pc] + sizes[pc]
          BY <5>1, <5>2
        <5> QED
          BY <5>3 DEF next
      <4>3. offset = places[pc]
        BY <1>1, <2>4, <3>1, <3>2 DEF Recorded
      <4> QED
        BY <3>2, <4>2, <4>3
    <3>4. \A i \in Lines : Resolved(i)' = Resolved(i)
      BY <3>1 DEF Resolved, Owns, Unique, Lines
    <3>5. Contiguous(Len(program))' = Contiguous(Len(program))
      BY <3>1, <3>2 DEF Contiguous
    <3> QED
      BY <1>1, <2>4, <3>1, <3>2, <3>3, <3>4, <3>5 DEF Recorded, IsConditional, Lines
  <2>5. CASE EndPass
    <3>1. /\ program' = program /\ sizes' = sizes /\ places' = places
          /\ definitions' = definitions /\ failed' = failed
          /\ phase \in {"parse", "emit"} /\ pc = Len(program) + 1
      BY <1>3, <2>5 DEF EndPass
    <3>2. CASE phase' \in {"failed", "aborted", "done"}
      BY <1>1, <3>1, <3>2 DEF Recorded, IsConditional, Lines
    <3>3. CASE phase' = "emit" /\ phase = "parse" /\ ~failed /\ pc' = 1 /\ offset' = Origin
      <4>1. Contiguous(Len(program)) /\ \A i \in Lines : Resolved(i)
        <5>1. pc - 1 = Len(program) /\ \A i \in Lines : i < pc
          BY <1>3, <3>1
        <5> QED
          BY <1>1, <3>3, <5>1 DEF Recorded
      <4>2. \A i \in Lines : Resolved(i)' = Resolved(i)
        BY <3>1 DEF Resolved, Owns, Unique, Lines
      <4>3. Contiguous(Len(program))' = Contiguous(Len(program))
        BY <3>1 DEF Contiguous
      <4>4. 1 <= Len(program) => offset' = places[1]
        BY <1>3, <3>3, <4>1 DEF Contiguous
      <4> QED
        BY <1>1, <3>1, <3>3, <4>1, <4>2, <4>3, <4>4 DEF Recorded, IsConditional, Lines
    <3> QED
      BY <2>5, <3>2, <3>3 DEF EndPass
  <2>6. CASE UNCHANGED vars
    <3>1. \A i \in Lines : Resolved(i)' = Resolved(i)
      BY <2>6 DEF Resolved, Owns, Unique, Lines, vars, history
    <3>2. \A n : Contiguous(n)' = Contiguous(n)
      BY <2>6 DEF Contiguous, vars, history
    <3> QED
      BY <1>1, <2>6, <3>1, <3>2 DEF Recorded, vars, history, IsConditional, Lines, Contiguous
  <2>7. ProcessLine => phase \in {"parse", "emit"}
    BY DEF ProcessLine
  <2> QED
    BY <2>1, <2>2, <2>3, <2>4, <2>5, <2>6, <2>7 DEF Next
<1> QED
  BY <1>2, <1>4 DEF PlaceInv

(* The code is emitted where parsing saw it, so that a label that labels a   *)
(* single line has the offset of that line, whatever the sizes and the       *)
(* conditions depend on.                                                     *)
THEOREM Places == Spec => []LabelsMatch
<1>1. Init => PlaceInv
  <2> SUFFICES ASSUME Init PROVE PlaceInv
    OBVIOUS
  <2> QED
    BY InitTyped DEF Init, PlaceInv, Recorded
<1>2. Spec => []PlaceInv
  BY <1>1, NextPlaceInv, PTL DEF Spec
<1>3. PlaceInv => LabelsMatch
  BY DEF PlaceInv, Recorded, LabelsMatch, Resolved, Owns
<1> QED
  BY <1>2, <1>3, PTL

-------------------------------------------------------------------------------
(* What a line that takes part in the last pass finds in the attributes.     *)
Attributed(i) ==
    LET line == program[i]
        values == Values(definitions, line.operand)
    IN  /\ line.directive \in Options => attributes[line.directive]
        /\ line.directive = "group" => attributes.group = line.operand.name
        /\ line.directive = "alignment" => ~attributes.fixed /\ attributes.at # 0
        /\ line.directive = "origin" => attributes.fixed
        /\ line.directive \in {"alignment", "origin"} /\ line.operand.kind \in LabelOperands
                => values = {attributes.at}

AttributeInv ==
    /\ TypeOK
    /\ attributes.at % SectionAlignment = 0
    /\ phase = "emit" /\ ~failed => \A i \in taken : Attributed(i)
    /\ AttributesMatch

(* An operand that is no attribute has at most one value, which is the same  *)
(* in all of the last pass.                                                  *)
LEMMA ValuesSingle ==
    ASSUME NEW defs, NEW operand, operand.kind \in LabelOperands,
           NEW v \in Values(defs, operand)
    PROVE  Values(defs, operand) = {v}
<1>1. \A x, y \in Named(defs, operand.name) : x = y
  BY DEF Named
<1>2. CASE operand.kind = "number"
  BY <1>2 DEF Values
<1>3. CASE operand.kind = "sum"
  BY <1>1, <1>3 DEF Values
<1>4. CASE operand.kind = "difference"
  BY <1>1, <1>4 DEF Values
<1> QED
  BY <1>2, <1>3, <1>4 DEF LabelOperands

LEMMA ValuesStay ==
    ASSUME phase = "emit", phase' \in {"emit", "done"}, definitions' = definitions,
           program' = program, NEW i, program[i].operand.kind \in LabelOperands
    PROVE  Values(definitions, program[i].operand)' = Values(definitions, program[i].operand)
BY DEF Values, Named, Difference, IsParsing, LabelOperands, Options

(* In the last pass a directive that is accepted finds what it sets, except  *)
(* for an origin of zero and the options.                                    *)
LEMMA SettingsStay ==
    ASSUME attributes \in AnyAttributes, phase = "emit",
           NEW defs, TypedDefinitions(defs), NEW line \in AnyLine,
           NEW a \in Settings(defs, line)
    PROVE  /\ a.at = attributes.at /\ a.group = attributes.group
           /\ \A o \in Options : attributes[o] => a[o]
           /\ attributes.fixed => a.fixed
           /\ ~attributes.fixed /\ attributes.at # 0 => ~a.fixed
           /\ line.directive \in Options => a[line.directive]
           /\ line.directive = "group" => a.group = line.operand.name
           /\ line.directive = "alignment" => ~a.fixed /\ a.at # 0
           /\ line.directive = "origin" => a.fixed
           /\ line.directive \in {"alignment", "origin"}
                /\ line.operand.kind \in LabelOperands
                => Values(defs, line.operand) = {a.at}
           /\ attributes.at % SectionAlignment = 0 => a.at % SectionAlignment = 0
<1> DEFINE values == Values(defs, line.operand)
<1>0. ~IsParsing
  BY DEF IsParsing
<1>1. \A v \in values : line.operand.kind \in LabelOperands => values = {v}
  BY ValuesSingle
<1> HIDE DEF values
<1>2. CASE line.directive \in Options
  <2>1. a \in {[attributes EXCEPT ![o] = TRUE] :
                  o \in {p \in {line.directive} : ~IsSpecified(attributes[p])}}
    BY <1>2 DEF Settings, Attributes, Given, Options, IsSpecified
  <2>2. a = [attributes EXCEPT ![line.directive] = TRUE]
    BY <2>1
  <2> QED
    BY <1>2, <2>2 DEF Options, AnyAttributes
<1>3. CASE line.directive = "alignment"
  <2>1. a \in {[attributes EXCEPT !.at = v] : v \in Alignments(values)}
    BY <1>3 DEF Settings, Attributes, Given, Options, values
  <2>2. PICK v \in Alignments(values) : a = [attributes EXCEPT !.at = v]
    BY <2>1
  <2>3. v \in values /\ v # 0 /\ v = attributes.at /\ ~attributes.fixed
    BY <1>0, <2>2 DEF Alignments, PowersOfTwo, IsModified
  <2>4. /\ a.at = attributes.at /\ a.group = attributes.group /\ a.fixed = attributes.fixed
        /\ \A o \in Options : a[o] = attributes[o]
    BY <2>2, <2>3 DEF AnyAttributes, Options
  <2>5. line.operand.kind \in LabelOperands => values = {a.at}
    BY <1>1, <2>3, <2>4
  <2> QED
    BY <1>3, <2>3, <2>4, <2>5 DEF Options, values
<1>4. CASE line.directive = "origin"
  <2>1. a \in {[attributes EXCEPT !.fixed = TRUE, !.at = v] : v \in Origins(values)}
    BY <1>4 DEF Settings, Attributes, Given, Options, values
  <2>2. PICK v \in Origins(values) : a = [attributes EXCEPT !.fixed = TRUE, !.at = v]
    BY <2>1
  <2>3. v \in values /\ v = attributes.at /\ Alignment = 0
    BY <1>0, <2>2 DEF Origins, IsModified
  <2>4. /\ a.at = attributes.at /\ a.group = attributes.group /\ a.fixed
        /\ \A o \in Options : a[o] = attributes[o]
    BY <2>2, <2>3 DEF AnyAttributes, Options
  <2>5. line.operand.kind \in LabelOperands => values = {a.at}
    BY <1>1, <2>3, <2>4
  <2> QED
    BY <1>4, <2>3, <2>4, <2>5 DEF Options, Alignment, values
<1>5. CASE line.directive = "group"
  <2>1. a \in {[attributes EXCEPT !.group = name] : name \in Groups(defs, line.operand)}
    BY <1>5 DEF Settings, Attributes, Given, Options
  <2>2. PICK name \in Groups(defs, line.operand) : a = [attributes EXCEPT !.group = name]
    BY <2>1
  <2>3. name = line.operand.name /\ name = attributes.group
    BY <1>0, <2>2 DEF Groups, IsModified
  <2>4. a = attributes
    BY <2>2, <2>3 DEF AnyAttributes
  <2> QED
    BY <1>5, <2>3, <2>4 DEF Options
<1>6. CASE line.directive \notin Attributes
  <2>1. a = attributes
    BY <1>6 DEF Settings
  <2> QED
    BY <1>6, <2>1 DEF Attributes
<1> QED
  BY <1>2, <1>3, <1>4, <1>5, <1>6 DEF Attributes

(* Whatever the pass, the place of a section suits the target.               *)
LEMMA SettingsAligned ==
    ASSUME attributes \in AnyAttributes, attributes.at % SectionAlignment = 0,
           NEW defs, NEW line \in AnyLine, NEW a \in Settings(defs, line)
    PROVE  a.at % SectionAlignment = 0
<1> DEFINE values == Values(defs, line.operand)
<1>1. CASE line.directive \in Options
  <2>1. a \in {[attributes EXCEPT ![o] = TRUE] :
                  o \in {p \in {line.directive} : ~IsSpecified(attributes[p])}}
    BY <1>1 DEF Settings, Attributes, Given, Options, IsSpecified
  <2>2. a = [attributes EXCEPT ![line.directive] = TRUE]
    BY <2>1
  <2> QED
    BY <1>1, <2>2 DEF Options, AnyAttributes
<1>2. CASE line.directive = "alignment"
  <2>1. a \in {[attributes EXCEPT !.at = v] : v \in Alignments(values)}
    BY <1>2 DEF Settings, Attributes, Given, Options
  <2> HIDE DEF values
  <2>2. PICK v \in Alignments(values) : a = [attributes EXCEPT !.at = v]
    BY <2>1
  <2> QED
    BY <2>2 DEF Alignments, AnyAttributes
<1>3. CASE line.directive = "origin"
  <2>1. a \in {[attributes EXCEPT !.fixed = TRUE, !.at = v] : v \in Origins(values)}
    BY <1>3 DEF Settings, Attributes, Given, Options
  <2> HIDE DEF values
  <2>2. PICK v \in Origins(values) : a = [attributes EXCEPT !.fixed = TRUE, !.at = v]
    BY <2>1
  <2> QED
    BY <2>2 DEF Origins, AnyAttributes
<1>4. CASE line.directive = "group"
  <2>1. a \in {[attributes EXCEPT !.group = name] : name \in Groups(defs, line.operand)}
    BY <1>4 DEF Settings, Attributes, Given, Options
  <2> QED
    BY <2>1 DEF AnyAttributes
<1>5. CASE line.directive \notin Attributes
  BY <1>5 DEF Settings
<1> QED
  BY <1>1, <1>2, <1>3, <1>4, <1>5 DEF Attributes

LEMMA InitAttributeInv == Init => AttributeInv
<1> SUFFICES ASSUME Init PROVE AttributeInv
  OBVIOUS
<1>1. TypeOK
  BY InitTyped
<1>2. 0 % SectionAlignment = 0
  BY TargetAssumption
<1>3. attributes.at = 0 /\ phase = "label"
  BY DEF Init
<1> QED
  BY <1>1, <1>2, <1>3 DEF AttributeInv, AttributesMatch

(* A line of the last pass keeps what the lines before it have found.        *)
LEMMA LineAttributes ==
    ASSUME AttributeInv, ProcessLine
    PROVE  /\ attributes'.at % SectionAlignment = 0
           /\ phase = "emit" /\ ~failed' => \A i \in taken' : Attributed(i)'
<1> DEFINE line == program[pc]
           settings == Settings(definitions', line)
<1>1. /\ phase \in {"parse", "emit"} /\ pc <= Len(program) /\ program' = program
      /\ phase' = phase /\ definitions' = Labelled(line)
  BY DEF ProcessLine
<1>2. TypeOK /\ attributes \in AnyAttributes /\ failed \in BOOLEAN /\ taken \subseteq Lines
  BY DEF AttributeInv, TypeOK
<1>3. pc \in Lines /\ line \in AnyLine
  BY <1>1, <1>2, LineTyped
<1>4. TypedDefinitions(definitions')
  BY <1>1, <1>2, <1>3, LabelledTyped
<1>5. settings \subseteq AnyAttributes
  BY <1>2, <1>3, <1>4, SettingsTyped
<1>6. CASE phase = "emit"
  <2>1. definitions' = definitions
    BY <1>1, <1>6 DEF Labelled, IsParsing
  <2>2. \A a \in settings :
           /\ a.at = attributes.at /\ a.group = attributes.group
           /\ \A o \in Options : attributes[o] => a[o]
           /\ attributes.fixed => a.fixed
           /\ ~attributes.fixed /\ attributes.at # 0 => ~a.fixed
           /\ line.directive \in Options => a[line.directive]
           /\ line.directive = "group" => a.group = line.operand.name
           /\ line.directive = "alignment" => ~a.fixed /\ a.at # 0
           /\ line.directive = "origin" => a.fixed
           /\ line.directive \in {"alignment", "origin"}
                /\ line.operand.kind \in LabelOperands
                => Values(definitions, line.operand) = {a.at}
           /\ attributes.at % SectionAlignment = 0 => a.at % SectionAlignment = 0
    BY <1>2, <1>3, <1>4, <1>6, <2>1, SettingsStay
  <2> HIDE DEF settings
  <2>3. \/ attributes' = attributes /\ (IsConditional(line) \/ ~IsIncluding \/ failed')
        \/ attributes' \in settings /\ ~IsConditional(line) /\ IsIncluding
    <3>1. Reject => failed'
      BY Zenon DEF Reject
    <3> QED
      BY <3>1 DEF ProcessLine, settings
  <2>4. attributes'.at % SectionAlignment = 0
    BY <2>2, <2>3 DEF AttributeInv
  <2>5. ASSUME ~failed', NEW i \in taken' PROVE Attributed(i)'
    <3>1. ~failed
      <4>1. AttributesMatch /\ (failed => failed')
        <5>1. CASE IsConditional(line) /\ Branch(line)
          BY <1>2, <1>3, <5>1, BranchTyped, FailedTyped DEF AttributeInv
        <5>2. CASE ~IsConditional(line)
          <6>1. Accept \/ Reject
            BY <5>2 DEF ProcessLine, Reserve
          <6> QED
            BY <1>2, <6>1, FailedTyped DEF AttributeInv
        <5> QED
          BY <5>1, <5>2 DEF ProcessLine
      <4> QED
        BY <2>5, <4>1
    <3>2. \A j \in taken : Attributed(j)
      BY <1>6, <3>1 DEF AttributeInv
    <3>3. program[i].operand.kind \in LabelOperands =>
            Values(definitions, program[i].operand)' = Values(definitions, program[i].operand)
      BY <1>1, <1>6, <2>1, ValuesStay
    <3>4. CASE i \in taken
      <4>1. Attributed(i)
        BY <3>2, <3>4
      <4>2. /\ attributes'.at = attributes.at /\ attributes'.group = attributes.group
            /\ \A o \in Options : attributes[o] => attributes'[o]
            /\ attributes.fixed => attributes'.fixed
            /\ ~attributes.fixed /\ attributes.at # 0 => ~attributes'.fixed
        BY <2>2, <2>3
      <4> QED
        BY <1>1, <3>3, <4>1, <4>2 DEF Attributed
    <3>5. CASE i \notin taken
      <4>1. i = pc /\ IsIncluding /\ ~IsConditional(line)
        BY <3>5 DEF ProcessLine, Record
      <4>2. attributes' \in settings
        BY <2>3, <2>5, <4>1
      <4> QED
        BY <1>1, <2>2, <3>3, <4>1, <4>2 DEF Attributed
    <3> QED
      BY <3>4, <3>5
  <2> QED
    BY <2>4, <2>5
<1>7. CASE phase = "parse"
  <2>1. attributes' = attributes \/ attributes' \in settings
    BY DEF ProcessLine
  <2>2. 0 % SectionAlignment = 0
    BY TargetAssumption
  <2>3. \A a \in settings : a.at % SectionAlignment = 0
    BY <1>2, <1>3, <1>4, SettingsAligned DEF AttributeInv
  <2> QED
    BY <1>7, <2>1, <2>3 DEF AttributeInv
<1> QED
  BY <1>1, <1>6, <1>7

LEMMA NextAttributeInv == AttributeInv /\ [Next]_vars => AttributeInv'
<1> SUFFICES ASSUME AttributeInv, [Next]_vars PROVE AttributeInv'
  OBVIOUS
<1>1. /\ TypeOK /\ TypeOK' /\ attributes \in AnyAttributes /\ SectionAlignment \in Nat \ {0}
      /\ attributes.at \in Nat /\ attributes.at % SectionAlignment = 0
  BY NextTyped, TargetAssumption DEF AttributeInv, TypeOK, AnyAttributes
<1>2. CASE LabelLine
  <2>1. phase' = "label" /\ attributes' = attributes
    BY <1>2 DEF LabelLine
  <2> QED
    BY <1>1, <2>1 DEF AttributeInv, AttributesMatch
<1>3. CASE EndLabel
  <2>1. phase' \in {"failed", "parse"} /\ attributes' = attributes
    BY <1>3 DEF EndLabel
  <2> QED
    BY <1>1, <2>1 DEF AttributeInv, AttributesMatch
<1>4. CASE ProcessLine
  <2>1. phase' = phase /\ phase \in {"parse", "emit"}
    BY <1>4 DEF ProcessLine
  <2>2. /\ attributes'.at % SectionAlignment = 0
        /\ phase = "emit" /\ ~failed' => \A i \in taken' : Attributed(i)'
    BY <1>4, LineAttributes
  <2> QED
    BY <1>1, <2>1, <2>2 DEF AttributeInv, AttributesMatch
<1>5. CASE EndPass
  <2>1. CASE phase' = "done"
    <3>1. /\ phase = "emit" /\ ~failed /\ program' = program /\ definitions' = definitions
          /\ taken' = taken /\ attributes' = IF ~Inlined THEN Raised ELSE attributes
      BY <1>5, <2>1 DEF EndPass
    <3>2. \A i \in taken : Attributed(i)
      BY <3>1 DEF AttributeInv
    <3>3. attributes.at # 0 => attributes.at >= SectionAlignment
      <4> SUFFICES ASSUME attributes.at # 0, attributes.at < SectionAlignment PROVE FALSE
        BY <1>1
      <4>1. attributes.at % SectionAlignment = attributes.at
        BY <1>1
      <4> QED
        BY <1>1, <4>1
    <3>4. /\ attributes.fixed \/ attributes.at # 0 => attributes' = attributes
          /\ attributes'.at \in {attributes.at, SectionAlignment}
          /\ attributes'.fixed = attributes.fixed /\ attributes'.group = attributes.group
          /\ \A o \in Options : attributes'[o] = attributes[o]
          /\ ~Inlined => attributes.fixed \/ attributes'.at # 0
      BY <1>1, <3>1, <3>3 DEF Raised, AnyAttributes, Options
    <3>5. attributes'.at % SectionAlignment = 0
      <4>1. SectionAlignment % SectionAlignment = 0
        BY <1>1
      <4> QED
        BY <1>1, <3>4, <4>1
    <3>6. ASSUME NEW i \in taken PROVE Attributed(i)'
      <4>1. Attributed(i)
        BY <3>2
      <4>2. program[i].operand.kind \in LabelOperands =>
              Values(definitions, program[i].operand)' = Values(definitions, program[i].operand)
        BY <2>1, <3>1, ValuesStay
      <4> QED
        BY <3>1, <3>4, <4>1, <4>2 DEF Attributed
    <3>7. AttributesMatch'
      BY <3>1, <3>4, <3>5, <3>6 DEF AttributesMatch, Attributed
    <3> QED
      BY <1>1, <2>1, <3>5, <3>7 DEF AttributeInv
  <2>2. CASE phase' # "done"
    <3>1. attributes' = attributes /\ (phase' = "emit" => taken' = {})
      BY <1>5, <2>2 DEF EndPass
    <3> QED
      BY <1>1, <2>2, <3>1 DEF AttributeInv, AttributesMatch
  <2> QED
    BY <2>1, <2>2
<1>6. CASE UNCHANGED vars
  <2>1. /\ program' = program /\ phase' = phase /\ definitions' = definitions
        /\ attributes' = attributes /\ taken' = taken /\ failed' = failed
    BY <1>6 DEF vars, history
  <2>2. \A operand : Values(definitions, operand)' = Values(definitions, operand)
    BY <2>1 DEF Values, Named, Difference, IsParsing, Alignment, OriginOf
  <2> QED
    BY <1>1, <2>1, <2>2 DEF AttributeInv, AttributesMatch, Attributed
<1> QED
  BY <1>2, <1>3, <1>4, <1>5, <1>6 DEF Next

(* The attributes of a section that is assembled are those of the lines that *)
(* take part in the last pass, whatever parsing took the labels for.         *)
THEOREM AttributesFinal == Spec => []AttributesMatch
<1>1. AttributeInv => AttributesMatch
  BY DEF AttributeInv
<1> QED
  BY <1>1, InitAttributeInv, NextAttributeInv, PTL DEF Spec

-------------------------------------------------------------------------------
(* Which #if directives enclose a line, and where their branches begin, as   *)
(* far as a line changes it.                                                 *)

Alternatives == {"elif", "else"}

HasElse(k, n) == \E head \in Heads(k, n) : program[head].directive = "else"

(* The condition of the branch is the first one that is true.                *)
OnlyLastTrue(k, n) ==
    \E head \in Heads(k, n) :
        /\ IsTrue(head)
        /\ \A other \in Heads(k, n) \ {head} : other < head /\ ~IsTrue(other)

NoneTrue(k, n) == \A head \in Heads(k, n) : ~IsTrue(head)

(* The line is in the branches to be included of the outermost directives.   *)
IncludedTo(n, depth) ==
    \A k \in Lines : Encloses(k, n) /\ Depth(k) < depth => OnlyLastTrue(k, n)

LEMMA DepthInt ==
    ASSUME program \in Seq(AnyLine)
    PROVE  \A i \in 1 .. Len(program) + 1 : Depth(i) \in Int
<1>1. Len(program) \in Nat
  OBVIOUS
<1>2. ASSUME NEW i \in 1 .. Len(program) + 1 PROVE Depth(i) \in Int
  <2>1. CASE i = 1
    BY <2>1, DepthOne
  <2>2. CASE i # 1
    <3> DEFINE m == i - 1
    <3>1. m \in Lines /\ i = m + 1
      BY <1>1, <2>2 DEF Lines
    <3> HIDE DEF m
    <3> QED
      BY <3>1, DepthStep
  <2> QED
    BY <2>1, <2>2
<1> QED
  BY <1>2

(* No two directives that enclose a line have the same depth.                *)
LEMMA EnclosesOnce ==
    ASSUME program \in Seq(AnyLine), NEW n \in 1 .. Len(program) + 1,
           NEW k \in Lines, NEW l \in Lines,
           Encloses(k, n), Encloses(l, n), Depth(k) = Depth(l)
    PROVE  k = l
<1>1. Len(program) \in Nat /\ Depth(k) \in Int /\ Depth(l) \in Int
  BY DepthInt DEF Lines
<1>2. k \in Nat /\ l \in Nat /\ n \in Nat
  BY <1>1 DEF Lines
<1>3. /\ k < n /\ l < n
      /\ \A j \in k + 1 .. n : Depth(j) > Depth(k)
      /\ \A j \in l + 1 .. n : Depth(j) > Depth(l)
  BY DEF Encloses
<1>4. ~(k < l)
  <2> SUFFICES ASSUME k < l PROVE FALSE
    OBVIOUS
  <2>1. l \in k + 1 .. n
    BY <1>2, <1>3
  <2>2. Depth(l) > Depth(k)
    BY <1>3, <2>1
  <2> QED
    BY <1>1, <2>2
<1>5. ~(l < k)
  <2> SUFFICES ASSUME l < k PROVE FALSE
    OBVIOUS
  <2>1. k \in l + 1 .. n
    BY <1>2, <1>3
  <2>2. Depth(k) > Depth(l)
    BY <1>3, <2>1
  <2> QED
    BY <1>1, <2>2
<1> QED
  BY <1>2, <1>4, <1>5

LEMMA EnclosesNext ==
    ASSUME program \in Seq(AnyLine), NEW n \in Lines, NEW k \in Lines
    PROVE  Encloses(k, n + 1) <=>
              \/ k = n /\ program[n].directive = "if"
              \/ Encloses(k, n) /\ Depth(n + 1) > Depth(k)
<1>1. Len(program) \in Nat /\ k \in Nat /\ n \in Nat
  BY DEF Lines
<1>2. CASE k = n
  <2>1. n + 1 .. n + 1 = {n + 1} /\ n < n + 1 /\ ~(n < n)
    BY <1>1
  <2>2. program[n].directive = "if" => Depth(n + 1) > Depth(n)
    BY DepthStep
  <2> QED
    BY <1>2, <2>1, <2>2 DEF Encloses
<1>3. CASE k # n
  <2>1. k < n + 1 <=> k < n
    BY <1>1, <1>3
  <2>2. k < n => k + 1 .. n + 1 = (k + 1 .. n) \cup {n + 1}
    BY <1>1
  <2> QED
    BY <1>3, <2>1, <2>2 DEF Encloses
<1> QED
  BY <1>2, <1>3

LEMMA HeadsNext ==
    ASSUME program \in Seq(AnyLine), NEW n \in Lines, NEW k \in Lines
    PROVE  /\ Heads(k, n) \subseteq Lines /\ \A head \in Heads(k, n) : head < n
           /\ k = n => Heads(k, n + 1) = {n}
           /\ k < n => Heads(k, n + 1) =
                IF program[n].directive \in Alternatives /\ Depth(n) = Depth(k) + 1
                THEN Heads(k, n) \cup {n} ELSE Heads(k, n)
<1>1. Len(program) \in Nat /\ k \in 1 .. Len(program) /\ n \in 1 .. Len(program)
  BY DEF Lines
<1>2. Heads(k, n) \subseteq Lines /\ \A head \in Heads(k, n) : head < n
  BY <1>1 DEF Heads, Lines
<1>3. k = n => Heads(k, n + 1) = {n}
  <2>1. \A j : j \in n .. n + 1 - 1 <=> j = n
    BY <1>1
  <2> QED
    BY <2>1 DEF Heads
<1>4. k < n => k .. n + 1 - 1 = (k .. n - 1) \cup {n}
  BY <1>1
<1>5. k < n => Heads(k, n + 1) =
                IF program[n].directive \in Alternatives /\ Depth(n) = Depth(k) + 1
                THEN Heads(k, n) \cup {n} ELSE Heads(k, n)
  BY <1>1, <1>4 DEF Heads, Alternatives
<1> QED
  BY <1>2, <1>3, <1>5

(* A new branch is the one to be included if no other was.                   *)
LEMMA AlternativeNext ==
    ASSUME program \in Seq(AnyLine), NEW n \in Lines, NEW k \in Lines, Encloses(k, n),
           program[n].directive \in Alternatives, Depth(n) = Depth(k) + 1
    PROVE  /\ HasElse(k, n + 1) <=> HasElse(k, n) \/ program[n].directive = "else"
           /\ OnlyLastTrue(k, n + 1) <=> IsTrue(n) /\ NoneTrue(k, n)
           /\ NoneTrue(k, n + 1) <=> ~IsTrue(n) /\ NoneTrue(k, n)
<1>1. /\ Heads(k, n + 1) = Heads(k, n) \cup {n} /\ \A head \in Heads(k, n) : head < n
      /\ Heads(k, n) \subseteq Lines
  BY HeadsNext DEF Encloses
<1>2. \A head \in Heads(k, n) : ~(n < head) /\ head # n
  BY <1>1 DEF Lines
<1> DEFINE H == Heads(k, n)
<1> HIDE DEF H
<1>3. OnlyLastTrue(k, n + 1) <=>
        \E head \in H \cup {n} :
            IsTrue(head) /\ \A other \in (H \cup {n}) \ {head} : other < head /\ ~IsTrue(other)
  BY <1>1 DEF OnlyLastTrue, H
<1>4. \A head \in H : head < n /\ ~(n < head) /\ head # n
  BY <1>1, <1>2 DEF H
<1>5. OnlyLastTrue(k, n + 1) <=> IsTrue(n) /\ \A head \in H : ~IsTrue(head)
  BY <1>3, <1>4
<1> QED
  BY <1>1, <1>5 DEF HasElse, NoneTrue, H

-------------------------------------------------------------------------------
(* What the conditionals of a pass stand for, in terms of the lines alone.   *)

(* The conditional valid within each number of #if directives.               *)
Levels ==
    [d \in 0 .. Len(conditionals) |->
        IF d = Len(conditionals) THEN conditional ELSE conditionals[d + 1]]

Including == {"including", "includingElse"}

BehindElse == {"includingElse", "ignoringElse"}

(* There is one for each directive that encloses the line, which knows       *)
(* whether #else was seen.                                                   *)
Nested(n, height, levels) ==
    /\ \A d \in 0 .. height - 1 : \E k \in Lines : Encloses(k, n) /\ Depth(k) = d
    /\ \A k \in Lines : Encloses(k, n) =>
            /\ Depth(k) \in 0 .. height - 1
            /\ levels[Depth(k) + 1] \in BehindElse <=> HasElse(k, n)

(* It also knows whether the line is in the branch to be included.           *)
Chooses(n, height, levels) ==
    /\ \A d \in 0 .. height : levels[d] \in Including <=> IncludedTo(n, d)
    /\ \A k \in Lines : Encloses(k, n) =>
            (levels[Depth(k) + 1] = "skipping" <=> IncludedTo(n, Depth(k)) /\ NoneTrue(k, n))

(* The first line is enclosed by none.                                       *)
LEMMA FirstNested ==
    ASSUME NEW levels
    PROVE  /\ Nested(1, 0, levels)
           /\ levels[0] \in Including => Chooses(1, 0, levels)
<1>1. \A k \in Lines : ~Encloses(k, 1)
  BY DEF Encloses, Lines
<1>2. 0 .. 0 - 1 = {} /\ 0 .. 0 = {0}
  OBVIOUS
<1> QED
  BY <1>1, <1>2 DEF Nested, Chooses, IncludedTo

(* A line that opens, divides and closes nothing.                            *)
LEMMA OtherNested ==
    ASSUME program \in Seq(AnyLine), NEW n \in Lines, NEW height \in Nat, NEW levels,
           program[n].directive \notin Conditionals, Depth(n) = height,
           Nested(n, height, levels)
    PROVE  /\ Nested(n + 1, height, levels)
           /\ Chooses(n, height, levels) => Chooses(n + 1, height, levels)
<1>1. Depth(n + 1) = height
  BY DepthStep DEF Conditionals
<1>2. \A k \in Lines : Encloses(k, n + 1) <=> Encloses(k, n)
  BY <1>1, EnclosesNext DEF Conditionals, Nested
<1>3. \A k \in Lines : Encloses(k, n) => Heads(k, n + 1) = Heads(k, n)
  BY HeadsNext DEF Encloses, Alternatives, Conditionals
<1>4. \A k \in Lines : Encloses(k, n) =>
        /\ HasElse(k, n + 1) <=> HasElse(k, n)
        /\ OnlyLastTrue(k, n + 1) <=> OnlyLastTrue(k, n)
        /\ NoneTrue(k, n + 1) <=> NoneTrue(k, n)
  BY <1>3 DEF HasElse, OnlyLastTrue, NoneTrue
<1>5. \A d : IncludedTo(n + 1, d) <=> IncludedTo(n, d)
  BY <1>2, <1>4 DEF IncludedTo
<1>6. Nested(n + 1, height, levels)
  BY <1>2, <1>4 DEF Nested
<1>7. Chooses(n, height, levels) => Chooses(n + 1, height, levels)
  BY <1>2, <1>4, <1>5 DEF Chooses
<1> QED
  BY <1>6, <1>7

(* The directive #if.                                                        *)
LEMMA IfNested ==
    ASSUME program \in Seq(AnyLine), NEW n \in Lines, NEW height \in Nat, NEW levels, NEW new,
           program[n].directive = "if", Depth(n) = height, Nested(n, height, levels),
           \A d \in 0 .. height : new[d] = levels[d], new[height + 1] \notin BehindElse
    PROVE  /\ Nested(n + 1, height + 1, new)
           /\ /\ Chooses(n, height, levels)
              /\ new[height + 1] \in Including <=> levels[height] \in Including /\ IsTrue(n)
              /\ new[height + 1] = "skipping" <=> levels[height] \in Including /\ ~IsTrue(n)
              => Chooses(n + 1, height + 1, new)
<1>1. Depth(n + 1) = height + 1
  BY DepthStep
<1>2. \A k \in Lines : Encloses(k, n + 1) <=> k = n \/ Encloses(k, n)
  BY <1>1, EnclosesNext DEF Nested
<1>3. ~Encloses(n, n) /\ \A k \in Lines : Encloses(k, n) => k < n /\ Depth(k) \in 0 .. height - 1
  BY DEF Encloses, Lines, Nested
<1>4. \A k \in Lines : Encloses(k, n) => Heads(k, n + 1) = Heads(k, n)
  BY <1>3, HeadsNext DEF Alternatives
<1>5. \A k \in Lines : Encloses(k, n) =>
        /\ HasElse(k, n + 1) <=> HasElse(k, n)
        /\ OnlyLastTrue(k, n + 1) <=> OnlyLastTrue(k, n)
        /\ NoneTrue(k, n + 1) <=> NoneTrue(k, n)
  BY <1>4 DEF HasElse, OnlyLastTrue, NoneTrue
<1>6. Heads(n, n + 1) = {n}
  BY HeadsNext
<1>7. /\ ~HasElse(n, n + 1)
      /\ OnlyLastTrue(n, n + 1) <=> IsTrue(n)
      /\ NoneTrue(n, n + 1) <=> ~IsTrue(n)
  BY <1>6 DEF HasElse, OnlyLastTrue, NoneTrue
<1>8. Nested(n + 1, height + 1, new)
  <2>1. ASSUME NEW d \in 0 .. height + 1 - 1
        PROVE  \E k \in Lines : Encloses(k, n + 1) /\ Depth(k) = d
    <3>1. d = height \/ d \in 0 .. height - 1
      OBVIOUS
    <3> QED
      BY <1>2, <3>1 DEF Nested
  <2>2. ASSUME NEW k \in Lines, Encloses(k, n + 1)
        PROVE  /\ Depth(k) \in 0 .. height + 1 - 1
               /\ new[Depth(k) + 1] \in BehindElse <=> HasElse(k, n + 1)
    <3>1. CASE k = n
      BY <1>7, <3>1
    <3>2. CASE Encloses(k, n)
      <4>1. /\ Depth(k) \in 0 .. height - 1 /\ Depth(k) + 1 \in 0 .. height
            /\ Depth(k) \in 0 .. height + 1 - 1
        BY <1>3, <3>2
      <4>2. levels[Depth(k) + 1] \in BehindElse <=> HasElse(k, n)
        BY <3>2 DEF Nested
      <4> QED
        BY <1>5, <3>2, <4>1, <4>2
    <3> QED
      BY <1>2, <2>2, <3>1, <3>2
  <2> QED
    BY <2>1, <2>2 DEF Nested
<1>9. ASSUME NEW d \in 0 .. height PROVE IncludedTo(n + 1, d) <=> IncludedTo(n, d)
  BY <1>2, <1>3, <1>5 DEF IncludedTo
<1>10. IncludedTo(n + 1, height + 1) <=> IncludedTo(n, height) /\ IsTrue(n)
  BY <1>2, <1>3, <1>5, <1>7 DEF IncludedTo
<1>11. ASSUME Chooses(n, height, levels),
              new[height + 1] \in Including <=> levels[height] \in Including /\ IsTrue(n),
              new[height + 1] = "skipping" <=> levels[height] \in Including /\ ~IsTrue(n)
       PROVE  Chooses(n + 1, height + 1, new)
  <2>1. levels[height] \in Including <=> IncludedTo(n, height)
    BY <1>11 DEF Chooses
  <2>2. ASSUME NEW d \in 0 .. height + 1 PROVE new[d] \in Including <=> IncludedTo(n + 1, d)
    <3>1. d = height + 1 \/ d \in 0 .. height
      OBVIOUS
    <3> QED
      BY <1>9, <1>10, <1>11, <2>1, <3>1 DEF Chooses
  <2>3. ASSUME NEW k \in Lines, Encloses(k, n + 1)
        PROVE  new[Depth(k) + 1] = "skipping" <=>
                    IncludedTo(n + 1, Depth(k)) /\ NoneTrue(k, n + 1)
    <3>1. CASE k = n
      <4>1. IncludedTo(n + 1, height) <=> IncludedTo(n, height)
        BY <1>9
      <4> QED
        BY <1>7, <1>11, <2>1, <3>1, <4>1
    <3>2. CASE Encloses(k, n)
      <4>1. Depth(k) \in 0 .. height /\ Depth(k) + 1 \in 0 .. height
        BY <1>3, <3>2
      <4> QED
        BY <1>5, <1>9, <1>11, <3>2, <4>1 DEF Chooses
    <3> QED
      BY <1>2, <2>3, <3>1, <3>2
  <2> QED
    BY <2>2, <2>3 DEF Chooses
<1> QED
  BY <1>8, <1>11

(* The directives #elif and #else.                                           *)
LEMMA AlternativeNested ==
    ASSUME program \in Seq(AnyLine), NEW n \in Lines, NEW height \in Nat \ {0}, NEW levels,
           NEW new, program[n].directive \in Alternatives, Depth(n) = height,
           Nested(n, height, levels), \A d \in 0 .. height - 1 : new[d] = levels[d],
           levels[height] \notin BehindElse,
           new[height] \in BehindElse <=> program[n].directive = "else"
    PROVE  /\ Nested(n + 1, height, new)
           /\ /\ Chooses(n, height, levels)
              /\ new[height] \in Including <=> levels[height] = "skipping" /\ IsTrue(n)
              /\ new[height] = "skipping" <=> levels[height] = "skipping" /\ ~IsTrue(n)
              => Chooses(n + 1, height, new)
           /\ \E k \in Lines :
                Encloses(k, n) /\ Depth(n) = Depth(k) + 1 /\ ~HasElse(k, n)
<1>1. Depth(n + 1) = height
  BY DepthStep DEF Alternatives
<1>2. \A k \in Lines : Encloses(k, n + 1) <=> Encloses(k, n)
  BY <1>1, EnclosesNext DEF Alternatives, Nested
<1>3. \A k \in Lines : Encloses(k, n) => k < n /\ Depth(k) \in 0 .. height - 1
  BY DEF Encloses, Nested
<1>4. \A k \in Lines : Encloses(k, n) /\ Depth(k) # height - 1 => Heads(k, n + 1) = Heads(k, n)
  <2>1. \A d \in 0 .. height - 1 : height = d + 1 => d = height - 1
    OBVIOUS
  <2> QED
    BY <1>3, <2>1, HeadsNext
<1>5. \A k \in Lines : Encloses(k, n) /\ Depth(k) # height - 1 =>
        /\ HasElse(k, n + 1) <=> HasElse(k, n)
        /\ OnlyLastTrue(k, n + 1) <=> OnlyLastTrue(k, n)
        /\ NoneTrue(k, n + 1) <=> NoneTrue(k, n)
  BY <1>4 DEF HasElse, OnlyLastTrue, NoneTrue
<1>6. PICK own \in Lines : Encloses(own, n) /\ Depth(own) = height - 1
  BY DEF Nested
<1>7. \A k \in Lines : Encloses(k, n) /\ Depth(k) = height - 1 => k = own
  BY <1>6, EnclosesOnce DEF Lines
<1>8. /\ HasElse(own, n + 1) <=> HasElse(own, n) \/ program[n].directive = "else"
      /\ OnlyLastTrue(own, n + 1) <=> IsTrue(n) /\ NoneTrue(own, n)
      /\ NoneTrue(own, n + 1) <=> ~IsTrue(n) /\ NoneTrue(own, n)
  BY <1>6, AlternativeNext
<1>9. ~HasElse(own, n)
  <2>1. levels[Depth(own) + 1] \in BehindElse <=> HasElse(own, n)
    BY <1>6 DEF Nested
  <2> QED
    BY <1>6, <2>1
<1>10. Nested(n + 1, height, new)
  <2>1. \A d \in 0 .. height - 1 : \E k \in Lines : Encloses(k, n + 1) /\ Depth(k) = d
    BY <1>2 DEF Nested
  <2>2. ASSUME NEW k \in Lines, Encloses(k, n + 1)
        PROVE  new[Depth(k) + 1] \in BehindElse <=> HasElse(k, n + 1)
    <3>1. CASE k = own
      BY <1>6, <1>8, <1>9, <3>1
    <3>2. CASE k # own
      <4>1. Encloses(k, n) /\ Depth(k) \in 0 .. height - 1 /\ Depth(k) # height - 1
        BY <1>2, <1>3, <1>7, <2>2, <3>2
      <4>2. Depth(k) + 1 \in 0 .. height - 1
        BY <4>1
      <4> QED
        BY <1>5, <4>1, <4>2 DEF Nested
    <3> QED
      BY <3>1, <3>2
  <2> QED
    BY <1>2, <1>3, <2>1, <2>2 DEF Nested
<1>11. ASSUME NEW d \in 0 .. height - 1 PROVE IncludedTo(n + 1, d) <=> IncludedTo(n, d)
  BY <1>2, <1>3, <1>5 DEF IncludedTo
<1>12. IncludedTo(n + 1, height) <=>
            IncludedTo(n, height - 1) /\ IsTrue(n) /\ NoneTrue(own, n)
  <2>1. IncludedTo(n + 1, height) <=>
            \A k \in Lines : Encloses(k, n) => OnlyLastTrue(k, n + 1)
    BY <1>2, <1>3 DEF IncludedTo
  <2>2. \A k \in Lines : Encloses(k, n) => (k = own \/ Depth(k) < height - 1)
    BY <1>3, <1>7
  <2>3. IncludedTo(n, height - 1) <=>
            \A k \in Lines : Encloses(k, n) /\ k # own => OnlyLastTrue(k, n + 1)
    <3>1. \A k \in Lines : Encloses(k, n) => (k # own <=> Depth(k) < height - 1)
      BY <1>6, <2>2
    <3>2. \A k \in Lines : Encloses(k, n) /\ k # own =>
            (OnlyLastTrue(k, n + 1) <=> OnlyLastTrue(k, n))
      BY <1>5, <1>7
    <3> QED
      BY <3>1, <3>2 DEF IncludedTo
  <2> QED
    BY <1>6, <1>8, <2>1, <2>3
<1>13. ASSUME Chooses(n, height, levels),
              new[height] \in Including <=> levels[height] = "skipping" /\ IsTrue(n),
              new[height] = "skipping" <=> levels[height] = "skipping" /\ ~IsTrue(n)
       PROVE  Chooses(n + 1, height, new)
  <2>1. levels[height] = "skipping" <=> IncludedTo(n, height - 1) /\ NoneTrue(own, n)
    <3>1. levels[Depth(own) + 1] = "skipping" <=>
                IncludedTo(n, Depth(own)) /\ NoneTrue(own, n)
      BY <1>6, <1>13 DEF Chooses
    <3> QED
      BY <1>6, <3>1
  <2>2. ASSUME NEW d \in 0 .. height PROVE new[d] \in Including <=> IncludedTo(n + 1, d)
    <3>1. d = height \/ d \in 0 .. height - 1
      OBVIOUS
    <3> QED
      BY <1>11, <1>12, <1>13, <2>1, <3>1 DEF Chooses
  <2>3. ASSUME NEW k \in Lines, Encloses(k, n + 1)
        PROVE  new[Depth(k) + 1] = "skipping" <=>
                    IncludedTo(n + 1, Depth(k)) /\ NoneTrue(k, n + 1)
    <3>1. CASE k = own
      <4>1. IncludedTo(n + 1, height - 1) <=> IncludedTo(n, height - 1)
        BY <1>11
      <4> QED
        BY <1>6, <1>8, <1>13, <2>1, <3>1, <4>1
    <3>2. CASE k # own
      <4>1. Encloses(k, n) /\ Depth(k) \in 0 .. height - 1 /\ Depth(k) # height - 1
        BY <1>2, <1>3, <1>7, <2>3, <3>2
      <4>2. Depth(k) + 1 \in 0 .. height - 1
        BY <4>1
      <4> QED
        BY <1>5, <1>11, <1>13, <4>1, <4>2 DEF Chooses
    <3> QED
      BY <3>1, <3>2
  <2> QED
    BY <2>2, <2>3 DEF Chooses
<1> QED
  BY <1>6, <1>9, <1>10, <1>13

(* The directive #endif.                                                     *)
LEMMA EndifNested ==
    ASSUME program \in Seq(AnyLine), NEW n \in Lines, NEW height \in Nat \ {0}, NEW levels,
           NEW new, program[n].directive = "endif", Depth(n) = height,
           Nested(n, height, levels), \A d \in 0 .. height - 1 : new[d] = levels[d]
    PROVE  /\ Nested(n + 1, height - 1, new)
           /\ Chooses(n, height, levels) => Chooses(n + 1, height - 1, new)
           /\ \E k \in Lines : Encloses(k, n) /\ Depth(n) = Depth(k) + 1
<1>1. Depth(n + 1) = height - 1
  BY DepthStep
<1>2. \A k \in Lines : Encloses(k, n) => k < n /\ Depth(k) \in 0 .. height - 1
  BY DEF Encloses, Nested
<1>3. \A k \in Lines : Encloses(k, n + 1) <=> Encloses(k, n) /\ Depth(k) < height - 1
  BY <1>1, EnclosesNext
<1>4. \A k \in Lines : Encloses(k, n) => Heads(k, n + 1) = Heads(k, n)
  BY <1>2, HeadsNext DEF Alternatives
<1>5. \A k \in Lines : Encloses(k, n) =>
        /\ HasElse(k, n + 1) <=> HasElse(k, n)
        /\ OnlyLastTrue(k, n + 1) <=> OnlyLastTrue(k, n)
        /\ NoneTrue(k, n + 1) <=> NoneTrue(k, n)
  BY <1>4 DEF HasElse, OnlyLastTrue, NoneTrue
<1>6. \A k \in Lines : Encloses(k, n + 1) =>
            Depth(k) \in 0 .. height - 1 - 1 /\ Depth(k) + 1 \in 0 .. height - 1
  BY <1>2, <1>3
<1>7. Nested(n + 1, height - 1, new)
  <2>1. ASSUME NEW d \in 0 .. height - 1 - 1
        PROVE  \E k \in Lines : Encloses(k, n + 1) /\ Depth(k) = d
    <3>1. PICK k \in Lines : Encloses(k, n) /\ Depth(k) = d
      BY DEF Nested
    <3> QED
      BY <1>3, <3>1
  <2> QED
    BY <1>3, <1>5, <1>6, <2>1 DEF Nested
<1>8. ASSUME NEW d \in 0 .. height - 1 PROVE IncludedTo(n + 1, d) <=> IncludedTo(n, d)
  BY <1>2, <1>3, <1>5 DEF IncludedTo
<1>9. ASSUME Chooses(n, height, levels) PROVE Chooses(n + 1, height - 1, new)
  <2>1. \A d \in 0 .. height - 1 : new[d] \in Including <=> IncludedTo(n + 1, d)
    BY <1>8, <1>9 DEF Chooses
  <2>2. ASSUME NEW k \in Lines, Encloses(k, n + 1)
        PROVE  new[Depth(k) + 1] = "skipping" <=>
                    IncludedTo(n + 1, Depth(k)) /\ NoneTrue(k, n + 1)
    <3>1. Encloses(k, n) /\ Depth(k) \in 0 .. height - 1 /\ Depth(k) + 1 \in 0 .. height - 1
      BY <1>2, <1>3, <1>6, <2>2
    <3> QED
      BY <1>5, <1>8, <1>9, <3>1 DEF Chooses
  <2> QED
    BY <2>1, <2>2 DEF Chooses
<1>10. \E k \in Lines : Encloses(k, n) /\ Depth(n) = Depth(k) + 1
  <2>1. height - 1 \in 0 .. height - 1
    OBVIOUS
  <2>2. PICK k \in Lines : Encloses(k, n) /\ Depth(k) = height - 1
    BY <2>1 DEF Nested
  <2> QED
    BY <2>2
<1> QED
  BY <1>7, <1>9, <1>10

-------------------------------------------------------------------------------
(* How a directive changes the conditionals, unless it is an error.          *)

(* A sequence without its last element has the others.                       *)
LEMMA FrontSame ==
    ASSUME NEW S, NEW s \in Seq(S), s # <<>>
    PROVE  \A i \in 1 .. Len(s) - 1 : SubSeq(s, 1, Len(s) - 1)[i] = s[i]
<1>1. Len(s) \in Nat /\ \A i \in 1 .. Len(s) - 1 : s[i] \in S
  OBVIOUS
<1>2. \A i \in 1 .. Len(s) - 1 - 1 + 1 : SubSeq(s, 1, Len(s) - 1)[i] = s[1 + i - 1]
  BY <1>1, SubSeqProperties
<1>3. ASSUME NEW i \in 1 .. Len(s) - 1 PROVE i \in 1 .. Len(s) - 1 - 1 + 1 /\ 1 + i - 1 = i
  BY <1>1
<1> QED
  BY <1>2, <1>3

LEMMA IfLevels ==
    ASSUME TypeOK, NEW operand, If(operand)
    PROVE  /\ Len(conditionals') = Len(conditionals) + 1
           /\ \A d \in 0 .. Len(conditionals) : Levels'[d] = Levels[d]
           /\ Levels'[Len(conditionals) + 1] = conditional'
           /\ Levels[Len(conditionals)] = conditional
<1>1. /\ conditionals \in Seq(AnyConditional) /\ conditional \in AnyConditional
      /\ conditionals' = Append(conditionals, conditional)
  BY DEF TypeOK, If
<1>2. PICK height \in Nat : height = Len(conditionals)
  BY <1>1
<1>3. /\ Len(conditionals') = height + 1
      /\ \A i \in 1 .. height : conditionals'[i] = conditionals[i]
      /\ conditionals'[height + 1] = conditional
  BY <1>1, <1>2
<1>4. /\ Levels = [d \in 0 .. height |-> IF d = height THEN conditional ELSE conditionals[d + 1]]
      /\ Levels' = [d \in 0 .. height + 1 |->
                        IF d = height + 1 THEN conditional' ELSE conditionals'[d + 1]]
  BY <1>2, <1>3 DEF Levels
<1>5. ASSUME NEW d \in 0 .. height PROVE Levels'[d] = Levels[d]
  <2>1. CASE d = height
    BY <1>3, <1>4, <2>1
  <2>2. CASE d # height
    <3>1. d + 1 \in 1 .. height /\ d # height + 1 /\ d \in 0 .. height + 1
      BY <2>2
    <3> QED
      BY <1>3, <1>4, <2>2, <3>1
  <2> QED
    BY <2>1, <2>2
<1> QED
  BY <1>2, <1>3, <1>4, <1>5

LEMMA AlternativeLevels ==
    ASSUME TypeOK, conditionals' = conditionals, conditionals # <<>>
    PROVE  /\ Len(conditionals) \in Nat \ {0}
           /\ \A d \in 0 .. Len(conditionals) - 1 : Levels'[d] = Levels[d]
           /\ Levels'[Len(conditionals)] = conditional'
           /\ Levels[Len(conditionals)] = conditional
<1>1. conditionals \in Seq(AnyConditional)
  BY DEF TypeOK
<1>2. PICK height \in Nat \ {0} : height = Len(conditionals)
  BY <1>1
<1>3. /\ Levels = [d \in 0 .. height |-> IF d = height THEN conditional ELSE conditionals[d + 1]]
      /\ Levels' = [d \in 0 .. height |->
                        IF d = height THEN conditional' ELSE conditionals[d + 1]]
  BY <1>2 DEF Levels
<1> QED
  BY <1>2, <1>3

LEMMA EndifLevels ==
    ASSUME TypeOK, Endif, conditionals # <<>>
    PROVE  /\ Len(conditionals) \in Nat \ {0}
           /\ Len(conditionals') = Len(conditionals) - 1
           /\ \A d \in 0 .. Len(conditionals) - 1 : Levels'[d] = Levels[d]
<1>1. /\ conditionals \in Seq(AnyConditional)
      /\ conditional' = conditionals[Len(conditionals)]
      /\ conditionals' = SubSeq(conditionals, 1, Len(conditionals) - 1)
  BY DEF TypeOK, Endif, Enclosing
<1>2. PICK height \in Nat \ {0} : height = Len(conditionals)
  BY <1>1
<1>3. Len(conditionals') = height - 1 /\ \A i \in 1 .. height - 1 : conditionals'[i] = conditionals[i]
  BY <1>1, <1>2, WithoutLast, FrontSame
<1>4. /\ Levels = [d \in 0 .. height |-> IF d = height THEN conditional ELSE conditionals[d + 1]]
      /\ Levels' = [d \in 0 .. height - 1 |->
                        IF d = height - 1 THEN conditional' ELSE conditionals'[d + 1]]
  BY <1>2, <1>3 DEF Levels
<1>5. ASSUME NEW d \in 0 .. height - 1 PROVE Levels'[d] = Levels[d]
  <2>1. d \in 0 .. height /\ d # height
    OBVIOUS
  <2>2. CASE d = height - 1
    BY <1>1, <1>2, <1>4, <2>1, <2>2
  <2>3. CASE d # height - 1
    <3>1. d + 1 \in 1 .. height - 1
      BY <2>3
    <3> QED
      BY <1>3, <1>4, <2>1, <2>3, <3>1
  <2> QED
    BY <2>2, <2>3
<1> QED
  BY <1>2, <1>3, <1>5

(* A condition that is a number.                                             *)
LEMMA NumberDecided ==
    ASSUME NEW operand, operand.kind = "number", Decide(operand)
    PROVE  conditional' = IF operand.number # 0 THEN "including" ELSE "skipping"
<1>1. Values(definitions, operand) = {operand.number}
  BY DEF Values, Options
<1> QED
  BY <1>1 DEF Decide

LEMMA AnyDecided ==
    ASSUME NEW operand, Decide(operand), ~failed'
    PROVE  conditional' \in {"including", "skipping"}
<1>1. Reject => failed'
  BY Zenon DEF Reject
<1> QED
  BY <1>1 DEF Decide

(* The conditional directive belongs to an #if directive, and precedes its   *)
(* #else.                                                                    *)
Matched(i) ==
    program[i].directive \in Conditionals \ {"if"} =>
        \E k \in Lines :
            /\ Encloses(k, i) /\ Depth(i) = Depth(k) + 1
            /\ program[i].directive # "endif" => ~HasElse(k, i)

(* A line that is no error keeps what the conditionals stand for.            *)
LEMMA LineNested ==
    ASSUME AssertInv, phase \in {"label", "parse", "emit"}, pc <= Len(program),
           ~failed, ~failed',
           \/ IsConditional(program[pc]) /\ Branch(program[pc])
           \/ ~IsConditional(program[pc]) /\ UNCHANGED branching,
           Nested(pc, Len(conditionals), Levels)
    PROVE  /\ Nested(pc + 1, Len(conditionals'), Levels')
           /\ Matched(pc)
           /\ IsConstant /\ Chooses(pc, Len(conditionals), Levels)
                => Chooses(pc + 1, Len(conditionals'), Levels')
<1> DEFINE line == program[pc]
<1>1. /\ TypeOK /\ Rooted /\ pc \in Lines /\ line \in AnyLine /\ program \in Seq(AnyLine)
      /\ conditional \in AnyConditional /\ Len(conditionals) = Depth(pc)
      /\ conditionals \in Seq(AnyConditional)
  BY LineTyped DEF AssertInv, Balanced, TypeOK
<1>2. PICK height \in Nat : height = Len(conditionals)
  BY <1>1
<1>3. PICK levels : levels = Levels
  OBVIOUS
<1>4. PICK new : new = Levels'
  OBVIOUS
<1>5. Depth(pc) = height /\ Nested(pc, height, levels)
  BY <1>1, <1>2, <1>3
<1>6. Reject => failed'
  BY Zenon DEF Reject
<1>7. conditional \in Including <=> IsIncluding
  BY DEF Including, IsIncluding
<1>8. CASE ~IsConditional(line) /\ UNCHANGED branching
  <2>1. Len(conditionals') = height /\ new = levels
    BY <1>2, <1>3, <1>4, <1>8 DEF branching, Levels
  <2>2. line.directive \notin Conditionals
    BY <1>8 DEF IsConditional
  <2>3. Nested(pc + 1, height, levels)
        /\ (Chooses(pc, height, levels) => Chooses(pc + 1, height, levels))
    BY <1>1, <1>5, <2>2, OtherNested
  <2> QED
    BY <1>2, <1>3, <1>4, <2>1, <2>2, <2>3 DEF Matched
<1>9. CASE line.directive = "if" /\ If(line.operand)
  <2>1. /\ Len(conditionals') = height + 1 /\ \A d \in 0 .. height : new[d] = levels[d]
        /\ new[height + 1] = conditional' /\ levels[height] = conditional
    BY <1>1, <1>2, <1>3, <1>4, <1>9, IfLevels
  <2>2. \/ IsIncluding /\ Decide(line.operand)
        \/ ~IsIncluding /\ conditional' = "ignoring"
    BY <1>9 DEF If
  <2>3. new[height + 1] \notin BehindElse
    BY <2>1, <2>2, AnyDecided DEF BehindElse
  <2>4. ASSUME IsConstant
        PROVE  /\ new[height + 1] \in Including <=> levels[height] \in Including /\ IsTrue(pc)
               /\ new[height + 1] = "skipping" <=> levels[height] \in Including /\ ~IsTrue(pc)
    <3>1. line.operand.kind = "number" /\ (IsTrue(pc) <=> line.operand.number # 0)
      BY <1>1, <1>9, <2>4 DEF IsConstant, IsTrue
    <3>2. IsIncluding => conditional' = IF line.operand.number # 0 THEN "including" ELSE "skipping"
      BY <2>2, <3>1, NumberDecided
    <3> QED
      BY <1>7, <2>1, <2>2, <3>1, <3>2 DEF Including
  <2>5. /\ Nested(pc + 1, height + 1, new)
        /\ IsConstant /\ Chooses(pc, height, levels) => Chooses(pc + 1, height + 1, new)
    BY <1>1, <1>5, <1>9, <2>1, <2>3, <2>4, IfNested
  <2> QED
    BY <1>2, <1>3, <1>4, <1>9, <2>1, <2>5 DEF Matched
<1>10. ASSUME line.directive \in Alternatives, conditionals' = conditionals, conditionals # <<>>,
              conditional \notin BehindElse,
              conditional' \in BehindElse <=> line.directive = "else",
              IsConstant => /\ conditional' \in Including <=> conditional = "skipping" /\ IsTrue(pc)
                            /\ conditional' = "skipping" <=> conditional = "skipping" /\ ~IsTrue(pc)
       PROVE  /\ Nested(pc + 1, Len(conditionals'), Levels')
              /\ Matched(pc)
              /\ IsConstant /\ Chooses(pc, Len(conditionals), Levels)
                    => Chooses(pc + 1, Len(conditionals'), Levels')
  <2>1. /\ height \in Nat \ {0} /\ Len(conditionals') = height
        /\ \A d \in 0 .. height - 1 : new[d] = levels[d]
        /\ new[height] = conditional' /\ levels[height] = conditional
    BY <1>1, <1>2, <1>3, <1>4, <1>10, AlternativeLevels
  <2>2. /\ levels[height] \notin BehindElse
        /\ new[height] \in BehindElse <=> line.directive = "else"
    BY <1>10, <2>1
  <2>3. IsConstant =>
            /\ new[height] \in Including <=> levels[height] = "skipping" /\ IsTrue(pc)
            /\ new[height] = "skipping" <=> levels[height] = "skipping" /\ ~IsTrue(pc)
    BY <1>10, <2>1
  <2>4. /\ Nested(pc + 1, height, new)
        /\ IsConstant /\ Chooses(pc, height, levels) => Chooses(pc + 1, height, new)
        /\ \E k \in Lines : Encloses(k, pc) /\ Depth(pc) = Depth(k) + 1 /\ ~HasElse(k, pc)
    BY <1>1, <1>5, <1>10, <2>1, <2>2, <2>3, AlternativeNested
  <2> QED
    BY <1>2, <1>3, <1>4, <2>1, <2>4 DEF Matched
<1>11. CASE line.directive = "elif" /\ Elif(line.operand)
  <2>1. /\ conditionals' = conditionals /\ conditionals # <<>>
        /\ \/ conditional \in {"including", "ignoring"} /\ conditional' = "ignoring"
           \/ conditional = "skipping" /\ Decide(line.operand)
    BY <1>1, <1>6, <1>11 DEF Elif, AfterIncluded, Rooted
  <2>2. conditional \notin BehindElse /\ conditional' \notin BehindElse
    BY <2>1, AnyDecided DEF BehindElse
  <2>3. ASSUME IsConstant
        PROVE  /\ conditional' \in Including <=> conditional = "skipping" /\ IsTrue(pc)
               /\ conditional' = "skipping" <=> conditional = "skipping" /\ ~IsTrue(pc)
    <3>1. line.operand.kind = "number" /\ (IsTrue(pc) <=> line.operand.number # 0)
      BY <1>1, <1>11, <2>3 DEF IsConstant, IsTrue
    <3>2. conditional = "skipping" =>
              conditional' = IF line.operand.number # 0 THEN "including" ELSE "skipping"
      BY <2>1, <3>1, NumberDecided
    <3> QED
      BY <2>1, <3>1, <3>2 DEF Including
  <2> QED
    BY <1>10, <1>11, <2>1, <2>2, <2>3 DEF Alternatives
<1>12. CASE line.directive = "else" /\ Else
  <2>1. /\ conditionals' = conditionals /\ conditionals # <<>>
        /\ conditional \in {"including", "ignoring", "skipping"}
        /\ conditional' = ElseOf(conditional)
    BY <1>1, <1>6, <1>12 DEF Else, Rooted
  <2>2. /\ conditional = "skipping" => conditional' = "includingElse"
        /\ conditional # "skipping" => conditional' = "ignoringElse"
    BY <2>1 DEF ElseOf
  <2>3. conditional \notin BehindElse /\ conditional' \in BehindElse
    BY <2>1, <2>2 DEF BehindElse
  <2>4. IsTrue(pc)
    BY <1>12 DEF IsTrue
  <2> QED
    BY <1>10, <1>12, <2>1, <2>2, <2>3, <2>4 DEF Alternatives, Including
<1>13. CASE line.directive = "endif" /\ Endif
  <2>1. conditionals # <<>>
    BY <1>6, <1>13 DEF Endif
  <2>2. /\ height \in Nat \ {0} /\ Len(conditionals') = height - 1
        /\ \A d \in 0 .. height - 1 : new[d] = levels[d]
    BY <1>1, <1>2, <1>3, <1>4, <1>13, <2>1, EndifLevels
  <2>3. /\ Nested(pc + 1, height - 1, new)
        /\ Chooses(pc, height, levels) => Chooses(pc + 1, height - 1, new)
        /\ \E k \in Lines : Encloses(k, pc) /\ Depth(pc) = Depth(k) + 1
    BY <1>1, <1>5, <1>13, <2>2, EndifNested
  <2> QED
    BY <1>2, <1>3, <1>4, <1>13, <2>2, <2>3 DEF Matched
<1> QED
  BY <1>8, <1>9, <1>11, <1>12, <1>13 DEF Branch

-------------------------------------------------------------------------------
InPass == phase \in {"label", "parse", "emit"} /\ ~failed

(* As long as there is no error, the conditionals of a pass stand for the    *)
(* lines that enclose the one it has come to, and all directives before it   *)
(* belong to one of them; the first pass establishes that for all lines.     *)
NestingInv ==
    /\ AssertInv
    /\ InPass => /\ Nested(pc, Len(conditionals), Levels)
                 /\ \A i \in Lines : i < pc => Matched(i)
    /\ phase \in {"parse", "emit", "done"} => \A i \in Lines : Matched(i)
    /\ phase = "done" => Depth(Len(program) + 1) = 0

(* What is said of the lines alone does not change.                          *)
LEMMA LinesStay ==
    ASSUME program' = program
    PROVE  /\ \A i : Depth(i)' = Depth(i)
           /\ \A i : Matched(i)' <=> Matched(i)
           /\ \A n, height, levels : Nested(n, height, levels)' <=> Nested(n, height, levels)
           /\ \A n, height, levels : Chooses(n, height, levels)' <=> Chooses(n, height, levels)
           /\ \A i : Included(i)' <=> Included(i)
           /\ IsConstant' <=> IsConstant
           /\ Lines' = Lines
<1>1. Lines' = Lines /\ (IsConstant' <=> IsConstant) /\ (\A i : Depth(i)' = Depth(i))
  BY DEF Lines, IsConstant, Depth
<1>2. /\ \A k, i : Encloses(k, i)' <=> Encloses(k, i)
      /\ \A k, i : Heads(k, i)' = Heads(k, i)
      /\ \A i : IsTrue(i)' <=> IsTrue(i)
  BY <1>1 DEF Encloses, Heads, IsTrue
<1>3. /\ \A k, i : HasElse(k, i)' <=> HasElse(k, i)
      /\ \A k, i : OnlyLastTrue(k, i)' <=> OnlyLastTrue(k, i)
      /\ \A k, i : NoneTrue(k, i)' <=> NoneTrue(k, i)
  BY <1>2 DEF HasElse, OnlyLastTrue, NoneTrue
<1>4. \A n, d : IncludedTo(n, d)' <=> IncludedTo(n, d)
  BY <1>1, <1>2, <1>3 DEF IncludedTo
<1>5. \A i : Matched(i)' <=> Matched(i)
  BY <1>1, <1>2, <1>3 DEF Matched
<1>6. \A n, height, levels : Nested(n, height, levels)' <=> Nested(n, height, levels)
  BY <1>1, <1>2, <1>3 DEF Nested
<1>7. \A n, height, levels : Chooses(n, height, levels)' <=> Chooses(n, height, levels)
  BY <1>1, <1>2, <1>3, <1>4 DEF Chooses
<1>8. \A i : Included(i)' <=> Included(i)
  BY <1>1, <1>2 DEF Included
<1> QED
  BY <1>1, <1>5, <1>6, <1>7, <1>8

(* What all lines of all passes have in common.                              *)
LEMMA PassLine ==
    ASSUME TypeOK, LabelLine \/ ProcessLine
    PROVE  /\ phase \in {"label", "parse", "emit"} /\ pc <= Len(program)
           /\ program' = program /\ phase' = phase /\ pc' = pc + 1 /\ pc \in Lines
           /\ \/ IsConditional(program[pc]) /\ Branch(program[pc])
              \/ ~IsConditional(program[pc]) /\ UNCHANGED branching
           /\ Record
           /\ failed => failed'
<1>1. /\ phase \in {"label", "parse", "emit"} /\ pc <= Len(program)
      /\ program' = program /\ phase' = phase /\ pc' = pc + 1 /\ Record
      /\ \/ IsConditional(program[pc]) /\ Branch(program[pc])
         \/ ~IsConditional(program[pc]) /\ UNCHANGED branching
  BY DEF LabelLine, ProcessLine
<1>2. pc \in Lines /\ program[pc] \in AnyLine /\ failed \in BOOLEAN
  BY <1>1, LineTyped DEF TypeOK
<1>3. Accept \/ Reject
  <2>1. CASE LabelLine
    BY <1>2, <2>1, BranchTyped, LabelTyped DEF LabelLine
  <2>2. CASE ProcessLine
    BY <1>2, <2>2, BranchTyped DEF ProcessLine, Reserve
  <2> QED
    BY <2>1, <2>2
<1> QED
  BY <1>1, <1>2, <1>3, FailedTyped

(* A pass that begins has no conditionals.                                   *)
LEMMA PassBegins ==
    ASSUME conditionals = <<>>, conditional = "including"
    PROVE  Len(conditionals) = 0 /\ Levels[0] \in Including
BY DEF Levels, Including

LEMMA InitNestingInv == Init => NestingInv
<1> SUFFICES ASSUME Init PROVE NestingInv
  OBVIOUS
<1>1. AssertInv
  BY InitAssertInv
<1>2. /\ phase = "label" /\ pc = 1 /\ Len(conditionals) = 0
      /\ Nested(1, 0, Levels)
  BY FirstNested DEF Init
<1> QED
  BY <1>1, <1>2 DEF NestingInv, InPass, Lines

LEMMA NextNestingInv == NestingInv /\ [Next]_vars => NestingInv'
<1> SUFFICES ASSUME NestingInv, [Next]_vars PROVE NestingInv'
  OBVIOUS
<1>1. AssertInv /\ AssertInv' /\ TypeOK /\ Len(program) \in Nat /\ pc \in 1 .. Len(program) + 1
  <2>1. AssertInv /\ AssertInv'
    BY NextAssertInv DEF NestingInv
  <2>2. TypeOK
    BY <2>1 DEF AssertInv
  <2> QED
    BY <2>1, <2>2 DEF TypeOK
<1>2. CASE LabelLine \/ ProcessLine
  <2>1. /\ phase \in {"label", "parse", "emit"} /\ pc <= Len(program)
        /\ program' = program /\ phase' = phase /\ pc' = pc + 1 /\ pc \in Lines
        /\ \/ IsConditional(program[pc]) /\ Branch(program[pc])
           \/ ~IsConditional(program[pc]) /\ UNCHANGED branching
        /\ failed => failed'
    BY <1>1, <1>2, PassLine
  <2>2. ASSUME ~failed'
        PROVE  /\ Nested(pc, Len(conditionals), Levels)'
               /\ \A i \in Lines : i < pc + 1 => Matched(i)
    <3>1. InPass
      BY <2>1, <2>2 DEF InPass
    <3>2. Nested(pc + 1, Len(conditionals'), Levels') /\ Matched(pc)
      BY <1>1, <2>1, <2>2, <3>1, LineNested DEF NestingInv
    <3>3. Nested(pc, Len(conditionals), Levels)'
      BY <2>1, <3>2, LinesStay
    <3>4. \A i \in Lines : i < pc => Matched(i)
      BY <3>1 DEF NestingInv
    <3>5. \A i \in Lines : i < pc + 1 => i < pc \/ i = pc
      BY <1>1 DEF Lines
    <3> QED
      BY <3>2, <3>3, <3>4, <3>5
  <2>3. \A i : Matched(i)' <=> Matched(i)
    BY <2>1, LinesStay
  <2> QED
    BY <1>1, <2>1, <2>2, <2>3 DEF NestingInv, InPass, Lines
<1>3. CASE EndLabel
  <2>1. /\ phase = "label" /\ pc > Len(program) /\ program' = program /\ pc' = 1
        /\ phase' = IF failed \/ conditionals # <<>> THEN "failed" ELSE "parse"
        /\ branching' = branching /\ failed' = failed
    BY <1>3 DEF EndLabel, IsComplete
  <2>2. CASE phase' = "failed"
    BY <1>1, <2>2 DEF NestingInv, InPass
  <2>3. CASE phase' = "parse" /\ ~failed /\ conditionals = <<>>
    <3>1. \A i \in Lines : Matched(i)
      <4>1. \A i \in Lines : i < pc
        BY <1>1, <2>1 DEF Lines
      <4> QED
        BY <2>1, <2>3, <4>1 DEF NestingInv, InPass
    <3>2. Len(conditionals') = 0
      BY <2>1, <2>3 DEF branching
    <3>3. Nested(1, 0, Levels')
      BY FirstNested
    <3>4. Nested(pc, Len(conditionals), Levels)' /\ \A i : Matched(i)' <=> Matched(i)
      BY <2>1, <3>2, <3>3, LinesStay
    <3> QED
      BY <1>1, <2>1, <2>3, <3>1, <3>4 DEF NestingInv, InPass, Lines
  <2> QED
    BY <2>1, <2>2, <2>3
<1>4. CASE EndPass
  <2>1. /\ phase \in {"parse", "emit"} /\ pc > Len(program) /\ program' = program
        /\ branching' = branching /\ failed' = failed
        /\ phase' \in {"failed", "aborted", "emit", "done"}
    BY <1>4 DEF EndPass
  <2>2. CASE phase' \in {"failed", "aborted"}
    BY <1>1, <2>2 DEF NestingInv, InPass
  <2>3. CASE phase' \in {"emit", "done"}
    <3>1. conditionals = <<>> /\ conditional = "including" /\ pc' = 1
      BY <1>4, <2>3 DEF EndPass
    <3>2. \A i \in Lines : Matched(i)
      BY <2>1 DEF NestingInv
    <3>3. Depth(Len(program) + 1) = 0
      BY <1>1, <2>1 DEF AssertInv, Balanced
    <3>4. Len(conditionals') = 0
      BY <2>1, <3>1 DEF branching
    <3>5. Nested(1, 0, Levels')
      BY FirstNested
    <3>6. /\ Nested(pc, Len(conditionals), Levels)' /\ \A i : Matched(i)' <=> Matched(i)
          /\ Depth(Len(program) + 1)' = 0
      BY <2>1, <3>1, <3>3, <3>4, <3>5, LinesStay
    <3> QED
      BY <1>1, <2>1, <2>3, <3>1, <3>2, <3>6 DEF NestingInv, InPass, Lines
  <2> QED
    BY <2>1, <2>2, <2>3
<1>5. CASE UNCHANGED vars
  <2>1. /\ program' = program /\ phase' = phase /\ pc' = pc /\ failed' = failed
        /\ conditional' = conditional /\ conditionals' = conditionals
    BY <1>5 DEF vars, branching
  <2>2. Levels' = Levels
    BY <2>1 DEF Levels
  <2>3. /\ \A i : Matched(i)' <=> Matched(i)
        /\ Nested(pc, Len(conditionals), Levels)' <=> Nested(pc, Len(conditionals), Levels)
        /\ Depth(Len(program) + 1)' = Depth(Len(program) + 1)
    BY <2>1, <2>2, LinesStay
  <2> QED
    BY <1>1, <2>1, <2>3 DEF NestingInv, InPass, Lines
<1> QED
  BY <1>2, <1>3, <1>4, <1>5 DEF Next

LEMMA NestingKept == Spec => []NestingInv
BY InitNestingInv, NextNestingInv, PTL DEF Spec

(* A section is assembled only if its directives match, whatever is skipped  *)
(* and whatever the conditions (asmchecker.cpp:75-124).                      *)
THEOREM Matching == Spec => []MalformedRejected
<1>1. NestingInv => MalformedRejected
  BY DEF NestingInv, MalformedRejected, Matched, HasElse
<1> QED
  BY <1>1, NestingKept, PTL

-------------------------------------------------------------------------------
(* The lines that take part if conditions are constant.                      *)
Chosen == {i \in Lines : ~IsConditional(program[i]) /\ Included(i)}

BranchInv ==
    /\ NestingInv
    /\ IsConstant /\ InPass => Chooses(pc, Len(conditionals), Levels)
    /\ phase \in {"label", "parse", "emit"} => \A i \in taken : i < pc
    /\ BranchesMatch
    /\ IsConstant /\ phase = "done" => taken = Chosen

(* Whether a line takes part is what the conditional says.                   *)
LEMMA IncludingChosen ==
    ASSUME NestingInv, InPass, Chooses(pc, Len(conditionals), Levels)
    PROVE  IsIncluding <=> Included(pc)
<1>1. PICK height \in Nat : height = Len(conditionals)
  BY DEF NestingInv, AssertInv, TypeOK
<1>2. Levels[height] = conditional
  BY <1>1 DEF Levels
<1>3. conditional \in Including <=> IncludedTo(pc, height)
  BY <1>1, <1>2 DEF Chooses
<1>4. \A k \in Lines : Encloses(k, pc) => Depth(k) < height
  BY <1>1 DEF NestingInv, Nested
<1>5. IncludedTo(pc, height) <=> Included(pc)
  BY <1>4 DEF IncludedTo, Included, OnlyLastTrue
<1> QED
  BY <1>3, <1>5 DEF Including, IsIncluding

LEMMA InitBranchInv == Init => BranchInv
<1> SUFFICES ASSUME Init PROVE BranchInv
  OBVIOUS
<1>1. NestingInv
  BY InitNestingInv
<1>2. phase = "label" /\ pc = 1 /\ Len(conditionals) = 0 /\ taken = {} /\ Levels[0] \in Including
  BY PassBegins DEF Init
<1>3. Chooses(1, 0, Levels)
  BY <1>2, FirstNested
<1>4. 1 .. 1 - 1 = {}
  OBVIOUS
<1> QED
  BY <1>1, <1>2, <1>3, <1>4 DEF BranchInv, BranchesMatch

LEMMA NextBranchInv == BranchInv /\ [Next]_vars => BranchInv'
<1> SUFFICES ASSUME BranchInv, [Next]_vars PROVE BranchInv'
  OBVIOUS
<1>1. /\ NestingInv /\ NestingInv' /\ AssertInv /\ TypeOK
      /\ Len(program) \in Nat /\ pc \in 1 .. Len(program) + 1 /\ taken \subseteq Lines
  <2>1. NestingInv /\ NestingInv'
    BY NextNestingInv DEF BranchInv
  <2>2. AssertInv /\ TypeOK
    BY <2>1 DEF NestingInv, AssertInv
  <2> QED
    BY <2>1, <2>2 DEF TypeOK
<1>2. CASE LabelLine \/ ProcessLine
  <2>1. /\ phase \in {"label", "parse", "emit"} /\ pc <= Len(program)
        /\ program' = program /\ phase' = phase /\ pc' = pc + 1 /\ pc \in Lines
        /\ \/ IsConditional(program[pc]) /\ Branch(program[pc])
           \/ ~IsConditional(program[pc]) /\ UNCHANGED branching
        /\ Record
        /\ failed => failed'
    BY <1>1, <1>2, PassLine
  <2>2. \A i \in taken : i < pc
    BY <2>1 DEF BranchInv
  <2>3. \A i \in taken' : i < pc + 1
    BY <1>1, <2>1, <2>2 DEF Record, Lines
  <2>4. ASSUME IsConstant, ~failed'
        PROVE  /\ Chooses(pc + 1, Len(conditionals'), Levels')
               /\ \A i \in 1 .. pc : i \in taken' <=> ~IsConditional(program[i]) /\ Included(i)
    <3>1. InPass /\ Chooses(pc, Len(conditionals), Levels)
      BY <2>1, <2>4 DEF InPass, BranchInv
    <3>2. Chooses(pc + 1, Len(conditionals'), Levels')
      BY <1>1, <2>1, <2>4, <3>1, LineNested DEF NestingInv, InPass
    <3>3. \A i \in 1 .. pc - 1 : i \in taken <=> ~IsConditional(program[i]) /\ Included(i)
      BY <2>4, <3>1 DEF BranchInv, BranchesMatch, InPass
    <3>4. IsIncluding <=> Included(pc)
      BY <1>1, <3>1, IncludingChosen
    <3>5. pc \in taken' <=> ~IsConditional(program[pc]) /\ Included(pc)
      <4>1. pc \notin taken
        BY <1>1, <2>2
      <4> QED
        BY <2>1, <3>4, <4>1 DEF Record
    <3>6. \A i \in 1 .. pc : i = pc \/ (i \in 1 .. pc - 1 /\ (i \in taken' <=> i \in taken))
      BY <1>1, <2>1 DEF Record
    <3> QED
      BY <3>2, <3>3, <3>5, <3>6
  <2>5. /\ \A i : Included(i)' <=> Included(i)
        /\ Chooses(pc, Len(conditionals), Levels)' <=> Chooses(pc + 1, Len(conditionals'), Levels')
        /\ IsConstant' <=> IsConstant
    BY <2>1, LinesStay
  <2>6. BranchesMatch'
    <3> SUFFICES ASSUME IsConstant', ~failed', NEW i \in 1 .. pc' - 1
                 PROVE  (i \in taken <=> ~IsConditional(program[i]) /\ Included(i))'
      BY DEF BranchesMatch
    <3>1. i \in 1 .. pc
      BY <1>1, <2>1
    <3>2. i \in taken' <=> ~IsConditional(program[i]) /\ Included(i)
      BY <2>4, <2>5, <3>1
    <3> QED
      BY <2>1, <2>5, <3>2 DEF IsConditional
  <2> QED
    BY <1>1, <2>1, <2>3, <2>4, <2>5, <2>6 DEF BranchInv, InPass
<1>3. CASE EndLabel
  <2>1. /\ phase = "label" /\ program' = program /\ pc' = 1 /\ taken' = {}
        /\ phase' = IF failed \/ conditionals # <<>> THEN "failed" ELSE "parse"
        /\ branching' = branching /\ failed' = failed
    BY <1>3 DEF EndLabel, IsComplete
  <2>2. BranchesMatch'
    BY <2>1 DEF BranchesMatch
  <2>3. CASE phase' = "failed"
    BY <1>1, <2>1, <2>2, <2>3 DEF BranchInv, InPass
  <2>4. CASE phase' = "parse" /\ conditionals = <<>>
    <3>1. conditionals' = <<>> /\ conditional' = "including"
      BY <1>1, <2>1, <2>4 DEF AssertInv, Rooted, branching
    <3>2. Len(conditionals') = 0 /\ Levels'[0] \in Including
      BY <3>1 DEF Levels, Including
    <3>3. Chooses(1, 0, Levels')
      BY <3>2, FirstNested
    <3>4. Chooses(pc, Len(conditionals), Levels)'
      BY <2>1, <3>2, <3>3, LinesStay
    <3> QED
      BY <1>1, <2>1, <2>2, <2>4, <3>4 DEF BranchInv
  <2> QED
    BY <2>1, <2>3, <2>4
<1>4. CASE EndPass
  <2>1. /\ phase \in {"parse", "emit"} /\ pc > Len(program) /\ program' = program
        /\ branching' = branching /\ failed' = failed
        /\ phase' \in {"failed", "aborted", "emit", "done"}
        /\ phase' = "failed" <=> failed
        /\ taken' = IF phase' = "emit" THEN {} ELSE taken
    BY <1>4 DEF EndPass
  <2>2. phase' # "aborted"
    BY <1>1 DEF NestingInv, AssertInv, AssertionsHold
  <2>3. CASE phase' = "failed"
    BY <1>1, <2>1, <2>3 DEF BranchInv, InPass, BranchesMatch
  <2>4. CASE phase' = "emit"
    <3>1. conditionals' = <<>> /\ conditional' = "including" /\ pc' = 1
      BY <1>4, <2>1, <2>4 DEF EndPass, branching
    <3>2. Len(conditionals') = 0 /\ Levels'[0] \in Including
      BY <3>1 DEF Levels, Including
    <3>3. Chooses(1, 0, Levels')
      BY <3>2, FirstNested
    <3>4. Chooses(pc, Len(conditionals), Levels)'
      BY <2>1, <3>1, <3>2, <3>3, LinesStay
    <3> QED
      BY <1>1, <2>1, <2>4, <3>1, <3>4 DEF BranchInv, BranchesMatch
  <2>5. CASE phase' = "done"
    <3>1. pc' = 1 /\ ~failed /\ taken' = taken /\ pc = Len(program) + 1
      BY <1>1, <1>4, <2>1, <2>5 DEF EndPass
    <3>2. ASSUME IsConstant PROVE taken = Chosen
      <4>1. \A i \in 1 .. Len(program) + 1 - 1 :
                i \in taken <=> ~IsConditional(program[i]) /\ Included(i)
        BY <3>1, <3>2 DEF BranchInv, BranchesMatch
      <4>2. Lines = 1 .. Len(program) + 1 - 1
        BY <1>1 DEF Lines
      <4> QED
        BY <1>1, <4>1, <4>2 DEF Chosen
    <3>3. (IsConstant' <=> IsConstant) /\ Chosen' = Chosen
      BY <2>1, LinesStay DEF Chosen, IsConditional
    <3> QED
      BY <1>1, <2>1, <2>5, <3>1, <3>2, <3>3 DEF BranchInv, BranchesMatch, InPass
  <2> QED
    BY <2>1, <2>2, <2>3, <2>4, <2>5
<1>5. CASE UNCHANGED vars
  <2>1. /\ program' = program /\ phase' = phase /\ pc' = pc /\ failed' = failed
        /\ conditional' = conditional /\ conditionals' = conditionals /\ taken' = taken
    BY <1>5 DEF vars, branching, history
  <2>2. Levels' = Levels
    BY <2>1 DEF Levels
  <2>3. /\ \A i : Included(i)' <=> Included(i)
        /\ Chooses(pc, Len(conditionals), Levels)' <=> Chooses(pc, Len(conditionals), Levels)
        /\ IsConstant' <=> IsConstant
    BY <2>1, <2>2, LinesStay
  <2>4. Chosen' = Chosen
    BY <2>1, <2>3 DEF Chosen, Lines
  <2> QED
    BY <1>1, <2>1, <2>3, <2>4 DEF BranchInv, InPass, BranchesMatch
<1> QED
  BY <1>2, <1>3, <1>4, <1>5 DEF Next

LEMMA BranchKept == Spec => []BranchInv
BY InitBranchInv, NextBranchInv, PTL DEF Spec

(* The lines that take part are those of the branches with the first true    *)
(* conditions, in every pass and for any nesting (asmchecker.cpp:93-124).    *)
THEOREM Branching == Spec => []BranchesMatch
<1>1. BranchInv => BranchesMatch
  BY DEF BranchInv
<1> QED
  BY <1>1, BranchKept, PTL

(* The lines that take part in a pass that has seen all are the chosen ones. *)
LEMMA PassChosen ==
    ASSUME BranchInv, IsConstant, InPass, pc > Len(program)
    PROVE  taken = Chosen
<1>1. /\ Len(program) \in Nat /\ pc \in 1 .. Len(program) + 1 /\ taken \subseteq Lines
      /\ BranchesMatch /\ ~failed
  BY DEF BranchInv, NestingInv, AssertInv, TypeOK, InPass
<1>2. \A i \in 1 .. pc - 1 : i \in taken <=> ~IsConditional(program[i]) /\ Included(i)
  BY <1>1 DEF BranchesMatch
<1>3. Lines = 1 .. pc - 1
  BY <1>1 DEF Lines
<1> QED
  BY <1>1, <1>2, <1>3 DEF Chosen

-------------------------------------------------------------------------------
(* The lines have different labels, but for constants of the same value.     *)
LabelsOnce(lines) ==
    \A i, j \in lines :
        program[i].label = program[j].label /\ program[i].label # NoLabel =>
            \/ i = j
            \/ /\ program[i].directive = "equals" /\ program[j].directive = "equals"
               /\ program[i].operand.number = program[j].operand.number

(* The labels of these lines are known as what these lines define.           *)
Defined(lines) ==
    \A i \in lines : program[i].label # NoLabel =>
        /\ program[i].label \in DOMAIN definitions
        /\ definitions[program[i].label] = Definition(program[i])

(* The first pass has seen all labels that the others include.               *)
LabelInv ==
    /\ BranchInv
    /\ phase = "label" /\ ~failed => LabelsOnce(taken) /\ Defined(taken)
    /\ IsConstant /\ phase \in {"parse", "emit", "done"} => LabelsOnce(Chosen)

LEMMA ChosenStay ==
    ASSUME program' = program
    PROVE  Chosen' = Chosen /\ (IsConstant' <=> IsConstant)
           /\ \A lines : LabelsOnce(lines)' <=> LabelsOnce(lines)
<1>1. (\A i : Included(i)' <=> Included(i)) /\ (IsConstant' <=> IsConstant) /\ Lines' = Lines
  BY LinesStay
<1> QED
  BY <1>1 DEF Chosen, LabelsOnce

(* A line of the first pass that is no error.                                *)
LEMMA LabelOnce ==
    ASSUME TypeOK, LabelLine, ~failed', LabelsOnce(taken), Defined(taken)
    PROVE  LabelsOnce(taken') /\ Defined(taken)'
<1> DEFINE line == program[pc]
<1>1. /\ program' = program
      /\ taken' = IF IsIncluding /\ ~IsConditional(line) THEN taken \cup {pc} ELSE taken
      /\ definitions' = definitions \/ (~IsConditional(line) /\ Label(line))
      /\ IsConditional(line) \/ Label(line)
  BY DEF LabelLine, Record
<1>2. Reject => failed'
  BY Zenon DEF Reject
<1>3. CASE taken' = taken
  <2>1. definitions' = definitions
    <3>1. IsConditional(line) => definitions' = definitions
      BY DEF LabelLine
    <3>2. ~IsIncluding \/ IsConditional(line) \/ pc \in taken
      BY <1>1, <1>3
    <3>3. CASE ~IsIncluding /\ ~IsConditional(line)
      BY <1>1, <3>3 DEF Label, IsIncluding, IsIgnored
    <3>4. CASE pc \in taken /\ ~IsConditional(line)
      BY <1>1, <3>4 DEF Label, Defined, IsIgnored
    <3> QED
      BY <3>1, <3>2, <3>3, <3>4
  <2> QED
    BY <1>1, <1>3, <2>1 DEF Defined, Definition
<1>4. CASE IsIncluding /\ ~IsConditional(line)
  <2>1. taken' = taken \cup {pc} /\ Label(line)
    BY <1>1, <1>4
  <2>2. CASE line.label = NoLabel
    <3>1. definitions' = definitions
      BY <2>1, <2>2 DEF Label, IsIgnored
    <3>2. LabelsOnce(taken')
      BY <2>1, <2>2 DEF LabelsOnce
    <3> QED
      BY <1>1, <2>1, <2>2, <3>1, <3>2 DEF Defined, Definition
  <2>3. CASE line.label # NoLabel /\ line.label \notin DOMAIN definitions
    <3>1. definitions' = With(definitions, line.label, Definition(line))
      BY <1>4, <2>1, <2>3 DEF Label, IsIgnored
    <3>2. /\ DOMAIN definitions' = DOMAIN definitions \cup {line.label}
          /\ definitions'[line.label] = Definition(line)
          /\ \A name \in DOMAIN definitions : definitions'[name] = definitions[name]
      BY <2>3, <3>1 DEF With
    <3>3. \A i \in taken : program[i].label # NoLabel => program[i].label # line.label
      BY <2>3 DEF Defined
    <3>4. LabelsOnce(taken')
      BY <2>1, <3>3 DEF LabelsOnce
    <3>5. Defined(taken)'
      <4>1. \A i \in taken : program[i].label # NoLabel =>
                /\ program[i].label \in DOMAIN definitions'
                /\ definitions'[program[i].label] = Definition(program[i])
        BY <3>2 DEF Defined
      <4>2. \A i : Definition(program[i])' = Definition(program[i])
        BY <1>1 DEF Definition
      <4> QED
        BY <1>1, <2>1, <3>2, <4>1, <4>2 DEF Defined
    <3> QED
      BY <3>4, <3>5
  <2>4. CASE line.label # NoLabel /\ line.label \in DOMAIN definitions
    <3>1. definitions' = definitions /\ MayRepeat(line)
      BY <1>2, <1>4, <2>1, <2>4 DEF Label, IsIgnored
    <3>2. line.directive = "equals" /\ definitions[line.label] = Definition(line)
      BY <3>1 DEF MayRepeat
    <3>3. \A i \in taken : program[i].label = line.label =>
            program[i].directive = "equals" /\ program[i].operand.number = line.operand.number
      <4> SUFFICES ASSUME NEW i \in taken, program[i].label = line.label
                   PROVE  program[i].directive = "equals"
                          /\ program[i].operand.number = line.operand.number
        OBVIOUS
      <4>1. Definition(program[i]) = Definition(line)
        BY <2>4, <3>2 DEF Defined
      <4>2. Definition(line).model = "number" /\ Definition(line).value = line.operand.number
        BY <3>2 DEF Definition
      <4>3. Definition(program[i]).model = "number" => program[i].directive = "equals"
        BY DEF Definition
      <4>4. program[i].directive = "equals"
        BY <4>1, <4>2, <4>3
      <4>5. Definition(program[i]).value = program[i].operand.number
        BY <4>4 DEF Definition
      <4> QED
        BY <4>1, <4>2, <4>4, <4>5
    <3>4. LabelsOnce(taken')
      BY <2>1, <3>2, <3>3 DEF LabelsOnce
    <3>5. Defined(taken)'
      <4>1. \A i \in taken \cup {pc} : program[i].label # NoLabel =>
                /\ program[i].label \in DOMAIN definitions
                /\ definitions[program[i].label] = Definition(program[i])
        BY <2>4, <3>2 DEF Defined
      <4>2. \A i : Definition(program[i])' = Definition(program[i])
        BY <1>1 DEF Definition
      <4> QED
        BY <1>1, <2>1, <3>1, <4>1, <4>2 DEF Defined
    <3> QED
      BY <3>4, <3>5
  <2> QED
    BY <2>2, <2>3, <2>4
<1> QED
  BY <1>1, <1>3, <1>4

LEMMA InitLabelInv == Init => LabelInv
<1> SUFFICES ASSUME Init PROVE LabelInv
  OBVIOUS
<1>1. BranchInv
  BY InitBranchInv
<1>2. phase = "label" /\ taken = {}
  BY DEF Init
<1> QED
  BY <1>1, <1>2 DEF LabelInv, LabelsOnce, Defined

LEMMA NextLabelInv == LabelInv /\ [Next]_vars => LabelInv'
<1> SUFFICES ASSUME LabelInv, [Next]_vars PROVE LabelInv'
  OBVIOUS
<1>1. BranchInv /\ BranchInv'
  BY NextBranchInv DEF LabelInv
<1>2. TypeOK
  BY <1>1 DEF BranchInv, NestingInv, AssertInv
<1>3. CASE LabelLine
  <2>1. phase = "label" /\ phase' = "label" /\ program' = program /\ (failed => failed')
    BY <1>2, <1>3, PassLine DEF LabelLine
  <2>2. ~failed' => LabelsOnce(taken') /\ Defined(taken)'
    BY <1>2, <1>3, <2>1, LabelOnce DEF LabelInv
  <2>3. LabelsOnce(taken)' <=> LabelsOnce(taken')
    BY <2>1, ChosenStay
  <2> QED
    BY <1>1, <2>1, <2>2, <2>3 DEF LabelInv
<1>4. CASE EndLabel
  <2>1. /\ phase = "label" /\ pc > Len(program) /\ program' = program
        /\ phase' = IF failed \/ ~IsComplete THEN "failed" ELSE "parse"
    BY <1>4 DEF EndLabel
  <2>2. ASSUME IsConstant, phase' = "parse" PROVE LabelsOnce(Chosen)
    <3>1. InPass
      BY <2>1, <2>2 DEF InPass
    <3>2. taken = Chosen
      BY <1>1, <2>1, <2>2, <3>1, PassChosen
    <3> QED
      BY <2>1, <3>1, <3>2 DEF LabelInv, InPass
  <2>3. (IsConstant' <=> IsConstant) /\ (LabelsOnce(Chosen)' <=> LabelsOnce(Chosen))
    BY <2>1, ChosenStay DEF LabelsOnce
  <2> QED
    BY <1>1, <2>1, <2>2, <2>3 DEF LabelInv
<1>5. CASE ProcessLine \/ EndPass
  <2>1. phase \in {"parse", "emit"} /\ phase' # "label" /\ program' = program
    BY <1>5 DEF ProcessLine, EndPass
  <2>2. (IsConstant' <=> IsConstant) /\ (LabelsOnce(Chosen)' <=> LabelsOnce(Chosen))
    BY <2>1, ChosenStay DEF LabelsOnce
  <2> QED
    BY <1>1, <2>1, <2>2 DEF LabelInv
<1>6. CASE UNCHANGED vars
  <2>1. /\ program' = program /\ phase' = phase /\ failed' = failed /\ taken' = taken
        /\ definitions' = definitions
    BY <1>6 DEF vars, history
  <2>2. (IsConstant' <=> IsConstant) /\ (LabelsOnce(Chosen)' <=> LabelsOnce(Chosen))
        /\ (LabelsOnce(taken)' <=> LabelsOnce(taken)) /\ (Defined(taken)' <=> Defined(taken))
    BY <2>1, ChosenStay DEF LabelsOnce, Defined, Definition
  <2> QED
    BY <1>1, <2>1, <2>2 DEF LabelInv
<1> QED
  BY <1>3, <1>4, <1>5, <1>6 DEF Next

(* If no condition depends on labels, those of the lines that take part are  *)
(* unique but for constants of the same value (asmchecker.cpp:59-73).        *)
THEOREM Uniqueness == Spec => []UniqueLabels
<1>1. LabelInv => UniqueLabels
  BY DEF LabelInv, BranchInv, UniqueLabels, LabelsOnce
<1> QED
  BY <1>1, InitLabelInv, NextLabelInv, PTL DEF Spec

-------------------------------------------------------------------------------
(* The attributes that lines give.                                           *)
AttributesOnce(lines) ==
    \A i, j \in lines :
        program[i].directive \in Attributes /\ program[j].directive = program[i].directive => i = j

Specifies(lines, directive) == \E i \in lines : program[i].directive = directive

IsAligned == ~attributes.fixed /\ attributes.at # 0

\* What the section has is specified by one of the lines,
GivenOnly(lines) ==
    /\ \A d \in Options : attributes[d] => Specifies(lines, d)
    /\ attributes.group # NoLabel => Specifies(lines, "group")
    /\ attributes.fixed => Specifies(lines, "origin")
    /\ IsAligned => Specifies(lines, "alignment")

\* and it has what is specified by one of them.
GivenAll(lines) ==
    /\ \A d \in Options : Specifies(lines, d) => attributes[d]
    /\ Specifies(lines, "group") => attributes.group # NoLabel
    /\ Specifies(lines, "origin") => attributes.fixed
    /\ Specifies(lines, "alignment") => IsAligned

(* Parsing notices a second attribute by what the section has, so that this  *)
(* has to be what is specified; the last pass adds none.                     *)
OnceInv ==
    /\ BranchInv
    /\ phase = "label" => GivenOnly({})
    /\ phase = "parse" /\ ~failed =>
            AttributesOnce(taken) /\ GivenOnly(taken) /\ GivenAll(taken)
    /\ IsConstant /\ phase \in {"emit", "done"} => AttributesOnce(Chosen)
    /\ IsConstant /\ phase = "emit" /\ ~failed => GivenOnly(Chosen)
    /\ SpecifiedOnce

(* What a directive does to the attributes.                                  *)
SetBy(directive, a) ==
    /\ directive \in Options =>
            /\ IsParsing => ~attributes[directive]
            /\ a = [attributes EXCEPT ![directive] = TRUE]
    /\ directive = "alignment" =>
            /\ IsParsing => attributes.at = 0
            /\ ~attributes.fixed
            /\ \E v : v # 0 /\ a = [attributes EXCEPT !.at = v]
    /\ directive = "origin" =>
            /\ IsParsing => ~attributes.fixed
            /\ ~IsAligned
            /\ \E v : a = [attributes EXCEPT !.fixed = TRUE, !.at = v]
    /\ directive = "group" =>
            /\ IsParsing => attributes.group = NoLabel
            /\ \E name : name # NoLabel /\ a = [attributes EXCEPT !.group = name]
    /\ directive \notin Attributes => a = attributes

LEMMA SettingsSet ==
    ASSUME NEW defs, NEW line, NEW a \in Settings(defs, line)
    PROVE  SetBy(line.directive, a)
<1> DEFINE values == Values(defs, line.operand)
<1> HIDE DEF values
<1>1. CASE line.directive \in Options
  <2>1. a \in {[attributes EXCEPT ![o] = TRUE] :
                  o \in {p \in {line.directive} : ~IsSpecified(attributes[p])}}
    BY <1>1 DEF Settings, Attributes, Given, Options, IsSpecified
  <2>2. a = [attributes EXCEPT ![line.directive] = TRUE]
        /\ ~IsSpecified(attributes[line.directive])
    BY <2>1
  <2> QED
    BY <1>1, <2>2 DEF SetBy, Options, Attributes, IsSpecified
<1>2. CASE line.directive = "alignment"
  <2>1. a \in {[attributes EXCEPT !.at = v] : v \in Alignments(values)}
    BY <1>2 DEF Settings, Attributes, Given, Options, values
  <2>2. PICK v \in Alignments(values) : a = [attributes EXCEPT !.at = v]
    BY <2>1
  <2>3. /\ v # 0 /\ ~attributes.fixed /\ ~IsSpecified(attributes.at # 0)
    BY <2>2 DEF Alignments, PowersOfTwo
  <2> QED
    BY <1>2, <2>2, <2>3 DEF SetBy, Options, Attributes, IsSpecified
<1>3. CASE line.directive = "origin"
  <2>1. a \in {[attributes EXCEPT !.fixed = TRUE, !.at = v] : v \in Origins(values)}
    BY <1>3 DEF Settings, Attributes, Given, Options, values
  <2>2. PICK v \in Origins(values) : a = [attributes EXCEPT !.fixed = TRUE, !.at = v]
    BY <2>1
  <2>3. Alignment = 0 /\ ~IsSpecified(attributes.fixed)
    BY <2>2 DEF Origins
  <2> QED
    BY <1>3, <2>2, <2>3 DEF SetBy, Options, Attributes, IsSpecified, Alignment, IsAligned
<1>4. CASE line.directive = "group"
  <2>1. a \in {[attributes EXCEPT !.group = name] : name \in Groups(defs, line.operand)}
    BY <1>4 DEF Settings, Attributes, Given, Options
  <2>2. PICK name \in Groups(defs, line.operand) : a = [attributes EXCEPT !.group = name]
    BY <2>1
  <2>3. /\ name # NoLabel /\ ~IsSpecified(attributes.group # NoLabel)
    BY <2>2 DEF Groups
  <2> QED
    BY <1>4, <2>2, <2>3 DEF SetBy, Options, Attributes, IsSpecified
<1>5. CASE line.directive \notin Attributes
  <2>1. a = attributes
    BY <1>5 DEF Settings
  <2> QED
    BY <1>5, <2>1 DEF SetBy, Attributes, Options
<1> QED
  BY <1>1, <1>2, <1>3, <1>4, <1>5 DEF Attributes

(* A line that takes part sets the attributes, and no other line does.       *)
LEMMA LineSets ==
    ASSUME TypeOK, ProcessLine, ~failed'
    PROVE  /\ attributes' \in AnyAttributes
           /\ \/ /\ taken' = taken \cup {pc}
                 /\ attributes' \in Settings(definitions', program[pc])
                 /\ IsIncluding /\ ~IsConditional(program[pc])
              \/ taken' = taken /\ attributes' = attributes
           /\ pc \in Lines /\ program[pc] \in AnyLine
<1>1. TypeOK'
  BY NextTyped DEF Next
<1>2. pc <= Len(program)
  BY DEF ProcessLine
<1>3. Reject => failed'
  BY Zenon DEF Reject
<1> QED
  BY <1>1, <1>2, <1>3, LineTyped DEF ProcessLine, Record, TypeOK

(* A line of the second pass that is no error.                               *)
LEMMA ParseOnce ==
    ASSUME TypeOK, ProcessLine, phase = "parse", ~failed',
           AttributesOnce(taken), GivenOnly(taken), GivenAll(taken)
    PROVE  AttributesOnce(taken)' /\ GivenOnly(taken)' /\ GivenAll(taken)'
<1>1. program' = program /\ attributes \in AnyAttributes /\ IsParsing
  BY DEF ProcessLine, TypeOK, IsParsing
<1>2. /\ attributes' \in AnyAttributes
      /\ \/ /\ taken' = taken \cup {pc}
            /\ attributes' \in Settings(definitions', program[pc])
         \/ taken' = taken /\ attributes' = attributes
      /\ pc \in Lines /\ program[pc] \in AnyLine
  BY LineSets
<1>3. CASE taken' = taken /\ attributes' = attributes
  BY <1>1, <1>3 DEF AttributesOnce, GivenOnly, GivenAll, Specifies, IsAligned
<1>4. CASE taken' = taken \cup {pc} /\ attributes' \in Settings(definitions', program[pc])
  <2> DEFINE line == program[pc]
  <2>1. \A d : Specifies(taken, d)' <=> Specifies(taken, d) \/ line.directive = d
    BY <1>1, <1>4 DEF Specifies
  <2>2. SetBy(line.directive, attributes')
    BY <1>4, SettingsSet
  <2>3. line.directive \in Attributes => ~Specifies(taken, line.directive)
    BY <1>1, <2>2 DEF SetBy, GivenAll, Attributes, IsAligned
  <2>4. AttributesOnce(taken)'
    <3>1. \A i \in taken : line.directive \in Attributes => program[i].directive # line.directive
      BY <2>3 DEF Specifies
    <3> QED
      BY <1>1, <1>4, <3>1 DEF AttributesOnce
  <2>5. GivenOnly(taken)' /\ GivenAll(taken)'
    <3>1. CASE line.directive \in Options
      BY <1>1, <2>1, <2>2, <3>1 DEF SetBy, GivenOnly, GivenAll, IsAligned, Options, AnyAttributes
    <3>2. CASE line.directive = "alignment"
      BY <1>1, <2>1, <2>2, <3>2 DEF SetBy, GivenOnly, GivenAll, IsAligned, Options, AnyAttributes
    <3>3. CASE line.directive = "origin"
      BY <1>1, <2>1, <2>2, <3>3 DEF SetBy, GivenOnly, GivenAll, IsAligned, Options, AnyAttributes
    <3>4. CASE line.directive = "group"
      BY <1>1, <2>1, <2>2, <3>4 DEF SetBy, GivenOnly, GivenAll, IsAligned, Options, AnyAttributes
    <3>5. CASE line.directive \notin Attributes
      <4>1. \A d \in Attributes : Specifies(taken, d)' <=> Specifies(taken, d)
        BY <2>1, <3>5
      <4> QED
        BY <2>2, <3>5, <4>1 DEF SetBy, GivenOnly, GivenAll, IsAligned, Attributes
    <3> QED
      BY <3>1, <3>2, <3>3, <3>4, <3>5 DEF Attributes
  <2> QED
    BY <2>4, <2>5
<1> QED
  BY <1>2, <1>3, <1>4

(* A line of the last pass that is no error.                                 *)
LEMMA EmitOnce ==
    ASSUME TypeOK, ProcessLine, phase = "emit", ~failed', NEW lines,
           IsIncluding /\ ~IsConditional(program[pc]) => pc \in lines,
           GivenOnly(lines)
    PROVE  GivenOnly(lines)'
<1>1. program' = program /\ attributes \in AnyAttributes /\ ~IsParsing
  BY DEF ProcessLine, TypeOK, IsParsing
<1>2. \A d : Specifies(lines, d)' <=> Specifies(lines, d)
  BY <1>1 DEF Specifies
<1>3. /\ attributes' \in AnyAttributes
      /\ \/ pc \in lines /\ attributes' \in Settings(definitions', program[pc])
         \/ attributes' = attributes
      /\ pc \in Lines /\ program[pc] \in AnyLine
  BY LineSets
<1>4. CASE attributes' = attributes
  BY <1>2, <1>4 DEF GivenOnly, IsAligned
<1>5. CASE pc \in lines /\ attributes' \in Settings(definitions', program[pc])
  <2> DEFINE line == program[pc]
  <2>1. Specifies(lines, line.directive)
    BY <1>5 DEF Specifies
  <2>2. SetBy(line.directive, attributes')
    BY <1>5, SettingsSet
  <2>3. CASE line.directive \in Options
    BY <1>1, <1>2, <2>1, <2>2, <2>3 DEF SetBy, GivenOnly, IsAligned, Options, AnyAttributes
  <2>4. CASE line.directive = "alignment"
    BY <1>1, <1>2, <2>1, <2>2, <2>4 DEF SetBy, GivenOnly, IsAligned, Options, AnyAttributes
  <2>5. CASE line.directive = "origin"
    BY <1>1, <1>2, <2>1, <2>2, <2>5 DEF SetBy, GivenOnly, IsAligned, Options, AnyAttributes
  <2>6. CASE line.directive = "group"
    BY <1>1, <1>2, <2>1, <2>2, <2>6 DEF SetBy, GivenOnly, IsAligned, Options, AnyAttributes
  <2>7. CASE line.directive \notin Attributes
    BY <1>2, <2>2, <2>7 DEF SetBy, GivenOnly, IsAligned
  <2> QED
    BY <2>3, <2>4, <2>5, <2>6, <2>7 DEF Attributes
<1> QED
  BY <1>3, <1>4, <1>5

LEMMA InitOnceInv == Init => OnceInv
<1> SUFFICES ASSUME Init PROVE OnceInv
  OBVIOUS
<1>1. BranchInv
  BY InitBranchInv
<1>2. GivenOnly({}) /\ phase = "label"
  BY DEF Init, GivenOnly, IsAligned, Options
<1> QED
  BY <1>1, <1>2 DEF OnceInv, SpecifiedOnce

LEMMA OnceStay ==
    ASSUME program' = program
    PROVE  /\ \A lines : AttributesOnce(lines)' <=> AttributesOnce(lines)
           /\ \A lines, d : Specifies(lines, d)' <=> Specifies(lines, d)
           /\ attributes' = attributes => \A lines : GivenOnly(lines)' <=> GivenOnly(lines)
           /\ attributes' = attributes => \A lines : GivenAll(lines)' <=> GivenAll(lines)
<1>1. \A lines, d : Specifies(lines, d)' <=> Specifies(lines, d)
  BY DEF Specifies
<1>2. \A lines : AttributesOnce(lines)' <=> AttributesOnce(lines)
  BY DEF AttributesOnce
<1>3. ASSUME attributes' = attributes
      PROVE  /\ \A lines : GivenOnly(lines)' <=> GivenOnly(lines)
             /\ \A lines : GivenAll(lines)' <=> GivenAll(lines)
  BY <1>1, <1>3 DEF GivenOnly, GivenAll, IsAligned
<1> QED
  BY <1>1, <1>2, <1>3

(* What the invariant says of the end of the last pass.                      *)
LEMMA OnceAssembled ==
    ASSUME attributes \in AnyAttributes, AttributesOnce(taken), GivenOnly(taken),
           program' = program, taken' = taken, taken \subseteq Lines,
           attributes' \in {attributes, Raised}
    PROVE  SpecifiedOnce'
<1> DEFINE Specifying(d) == {i \in taken : program[i].directive = d}
<1>1. ASSUME NEW d \in Attributes PROVE Cardinality(Specifying(d)) <= 1
  <2>1. CASE Specifying(d) = {}
    <3>1. Cardinality({}) = 0
      BY FS_EmptySet
    <3> HIDE DEF Specifying
    <3> QED
      BY <2>1, <3>1
  <2>2. CASE Specifying(d) # {}
    <3>1. PICK i \in taken : program[i].directive = d
      BY <2>2
    <3>2. Specifying(d) = {i}
      BY <1>1, <3>1 DEF AttributesOnce
    <3>3. Cardinality({i}) = 1
      BY FS_Singleton
    <3> HIDE DEF Specifying
    <3> QED
      BY <3>2, <3>3
  <2> QED
    BY <2>1, <2>2
<1>2. \A d : Specifies(taken, d) => Specifying(d) # {}
  BY DEF Specifies
<1>3. SectionAlignment \in Nat \ {0} /\ attributes.at \in Nat
  BY TargetAssumption DEF AnyAttributes
<1>4. /\ attributes'.fixed = attributes.fixed /\ attributes'.group = attributes.group
      /\ \A d \in Options : attributes'[d] = attributes[d]
      /\ ~attributes.fixed /\ attributes'.at > SectionAlignment => attributes.at # 0
  BY <1>3 DEF Raised, AnyAttributes, Options
<1>5. Alignment' > SectionAlignment => IsAligned
  BY <1>3, <1>4 DEF Alignment, IsAligned
<1>6. /\ \A d \in Options : attributes'[d] => Specifying(d) # {}
      /\ attributes'.group # NoLabel => Specifying("group") # {}
      /\ attributes'.fixed => Specifying("origin") # {}
      /\ Alignment' > SectionAlignment => Specifying("alignment") # {}
  BY <1>2, <1>4, <1>5 DEF GivenOnly
<1> QED
  BY <1>1, <1>6 DEF SpecifiedOnce

LEMMA NextOnceInv == OnceInv /\ [Next]_vars => OnceInv'
<1> SUFFICES ASSUME OnceInv, [Next]_vars PROVE OnceInv'
  OBVIOUS
<1>1. BranchInv /\ BranchInv'
  BY NextBranchInv DEF OnceInv
<1>2. NestingInv /\ TypeOK /\ attributes \in AnyAttributes /\ taken \subseteq Lines
  BY <1>1 DEF BranchInv, NestingInv, AssertInv, TypeOK
<1>3. CASE LabelLine
  <2>1. phase' = "label" /\ phase = "label" /\ program' = program /\ attributes' = attributes
    BY <1>3 DEF LabelLine
  <2>2. GivenOnly({})'
    BY <2>1, OnceStay DEF OnceInv
  <2> QED
    BY <1>1, <2>1, <2>2 DEF OnceInv, SpecifiedOnce
<1>4. CASE EndLabel
  <2>1. /\ phase = "label" /\ phase' \in {"failed", "parse"} /\ program' = program
        /\ attributes' = attributes /\ taken' = {}
    BY <1>4 DEF EndLabel
  <2>2. GivenOnly({})'
    BY <2>1, OnceStay DEF OnceInv
  <2>3. AttributesOnce({})' /\ GivenAll({})'
    BY DEF AttributesOnce, GivenAll, Specifies
  <2> QED
    BY <1>1, <2>1, <2>2, <2>3 DEF OnceInv, SpecifiedOnce
<1>5. CASE ProcessLine
  <2>1. /\ phase \in {"parse", "emit"} /\ phase' = phase /\ program' = program
        /\ failed => failed'
        /\ pc \in Lines
    BY <1>2, <1>5, PassLine DEF ProcessLine
  <2>2. Chosen' = Chosen /\ (IsConstant' <=> IsConstant)
    BY <2>1, ChosenStay
  <2>3. CASE phase = "parse"
    <3>1. ~failed' => AttributesOnce(taken)' /\ GivenOnly(taken)' /\ GivenAll(taken)'
      BY <1>2, <1>5, <2>1, <2>3, ParseOnce DEF OnceInv
    <3> QED
      BY <1>1, <2>1, <2>3, <3>1 DEF OnceInv, SpecifiedOnce
  <2>4. CASE phase = "emit"
    <3>1. IsConstant => AttributesOnce(Chosen)'
      BY <2>1, <2>2, <2>4, OnceStay DEF OnceInv
    <3>2. ASSUME IsConstant, ~failed' PROVE GivenOnly(Chosen)'
      <4>1. InPass /\ Chooses(pc, Len(conditionals), Levels)
        BY <1>1, <2>1, <3>2 DEF InPass, BranchInv
      <4>2. IsIncluding /\ ~IsConditional(program[pc]) => pc \in Chosen
        BY <1>2, <2>1, <4>1, IncludingChosen DEF Chosen
      <4>3. GivenOnly(Chosen)
        BY <2>1, <2>4, <3>2 DEF OnceInv
      <4>4. PICK lines : lines = Chosen
        OBVIOUS
      <4>5. GivenOnly(lines)'
        BY <1>2, <1>5, <2>4, <3>2, <4>2, <4>3, <4>4, EmitOnce
      <4> QED
        BY <2>2, <4>4, <4>5 DEF GivenOnly, Specifies
    <3> QED
      BY <1>1, <2>1, <2>2, <2>4, <3>1, <3>2 DEF OnceInv, SpecifiedOnce
  <2> QED
    BY <2>1, <2>3, <2>4
<1>6. CASE EndPass
  <2>1. /\ phase \in {"parse", "emit"} /\ pc > Len(program) /\ program' = program
        /\ failed' = failed /\ phase' \in {"failed", "aborted", "emit", "done"}
        /\ taken' = IF phase' = "emit" THEN {} ELSE taken
        /\ phase' # "done" => attributes' = attributes
        /\ attributes' \in {attributes, Raised}
        /\ phase' \in {"emit", "done"} => ~failed /\ (phase' = "emit" <=> phase = "parse")
    BY <1>6 DEF EndPass
  <2>2. Chosen' = Chosen /\ (IsConstant' <=> IsConstant)
    BY <2>1, ChosenStay
  <2>3. ASSUME IsConstant, phase' \in {"emit", "done"}
        PROVE  taken = Chosen /\ AttributesOnce(Chosen) /\ GivenOnly(Chosen)
    <3>1. InPass
      BY <2>1, <2>3 DEF InPass
    <3>2. taken = Chosen
      BY <1>1, <2>1, <2>3, <3>1, PassChosen
    <3> QED
      BY <2>1, <2>3, <3>2 DEF OnceInv
  <2>4. CASE phase' \in {"failed", "aborted"}
    BY <1>1, <2>4 DEF OnceInv, SpecifiedOnce
  <2>5. CASE phase' = "emit"
    <3>1. IsConstant => AttributesOnce(Chosen)' /\ GivenOnly(Chosen)'
      <4>1. PICK lines : lines = Chosen
        OBVIOUS
      <4>2. IsConstant => AttributesOnce(lines)' /\ GivenOnly(lines)'
        BY <2>1, <2>3, <2>5, <4>1, OnceStay
      <4> QED
        BY <2>2, <4>1, <4>2 DEF AttributesOnce, GivenOnly, Specifies
    <3> QED
      BY <1>1, <2>2, <2>5, <3>1 DEF OnceInv, SpecifiedOnce
  <2>6. CASE phase' = "done"
    <3>1. IsConstant => AttributesOnce(Chosen)'
      <4>1. PICK lines : lines = Chosen
        OBVIOUS
      <4>2. IsConstant => AttributesOnce(lines)'
        BY <2>1, <2>3, <2>6, <4>1, OnceStay
      <4> QED
        BY <2>2, <4>1, <4>2 DEF AttributesOnce
    <3>2. IsConstant => SpecifiedOnce'
      BY <1>2, <2>1, <2>3, <2>6, OnceAssembled
    <3>3. ~IsConstant => SpecifiedOnce'
      BY <2>2 DEF SpecifiedOnce
    <3> QED
      BY <1>1, <2>2, <2>6, <3>1, <3>2, <3>3 DEF OnceInv
  <2> QED
    BY <2>1, <2>4, <2>5, <2>6
<1>7. CASE UNCHANGED vars
  <2>1. /\ program' = program /\ phase' = phase /\ failed' = failed /\ taken' = taken
        /\ attributes' = attributes
    BY <1>7 DEF vars, history
  <2>2. Chosen' = Chosen /\ (IsConstant' <=> IsConstant)
    BY <2>1, ChosenStay
  <2>3. /\ GivenOnly({})' <=> GivenOnly({})
        /\ AttributesOnce(taken)' <=> AttributesOnce(taken)
        /\ GivenOnly(taken)' <=> GivenOnly(taken)
        /\ GivenAll(taken)' <=> GivenAll(taken)
        /\ AttributesOnce(Chosen)' <=> AttributesOnce(Chosen)
        /\ GivenOnly(Chosen)' <=> GivenOnly(Chosen)
    BY <2>1, <2>2 DEF AttributesOnce, GivenOnly, GivenAll, Specifies, IsAligned
  <2>4. SpecifiedOnce' <=> SpecifiedOnce
    BY <2>1, <2>2 DEF SpecifiedOnce, Alignment
  <2> QED
    BY <1>1, <2>1, <2>2, <2>3, <2>4 DEF OnceInv
<1> QED
  BY <1>3, <1>4, <1>5, <1>6, <1>7 DEF Next

(* If no condition depends on labels, a section that is assembled has each   *)
(* attribute from just one line (asmchecker.cpp:124-193, 213-238).           *)
THEOREM SpecifiedJustOnce == Spec => []SpecifiedOnce
<1>1. OnceInv => SpecifiedOnce
  BY DEF OnceInv
<1> QED
  BY <1>1, InitOnceInv, NextOnceInv, PTL DEF Spec
===============================================================================
