---------------------------- MODULE SectionAssembler ----------------------------
(*****************************************************************************)
(* The assembler at work on one section: Context::Process of the generic     *)
(* assembly language (tools/asmchecker.cpp, tools/asmassembler.cpp).  Three  *)
(* passes over the lines of the section collect the labels, record the sizes *)
(* (parsing) and emit the code.  Directives #if, #elif, #else and #endif     *)
(* decide in each pass anew which lines take part.                           *)
(*                                                                           *)
(* A line is a record [directive, label, operand].  Besides the directives,  *)
(* "empty" stands for a line with nothing but a label and "jump" for an      *)
(* instruction.  An operand [kind, name, number] is "number", "sum" for      *)
(* name + number, "difference" for number - name, or the attribute of the    *)
(* section that its kind names.  The bytes themselves are left out, only     *)
(* their number is kept, and so are links and the limits of 64 bits.  Of     *)
(* what is marked as faulty, see Ranges.                                     *)
(*****************************************************************************)
EXTENDS Integers, Sequences, FiniteSets

CONSTANTS
    Programs,               \* the sections to assemble, as sequences of lines
    Origin,                 \* the bytes of the section before inlined code
    Inlined,                \* whether the lines are inlined code
    InstructionAlignment,   \* of the instruction set, a power of two
    SectionAlignment,       \* of the sections of the target, a power of two
    Reach                   \* the displacements that fit into a short jump

NoLabel == 0

LabelOperands == {"number", "sum", "difference"}

Options == {"required", "duplicable", "replaceable"}

AnyOperand == [kind : LabelOperands \cup {"alignment", "origin"} \cup Options,
               name : Nat, number : Int]

Conditionals == {"if", "elif", "else", "endif"}

Attributes == Options \cup {"alignment", "origin", "group"}

AnyLine ==
    [directive : Conditionals \cup Attributes
                     \cup {"byte", "reserve", "pad", "align", "equals", "empty", "jump"},
     label : Nat, operand : AnyOperand]

ASSUME ProgramAssumption == \A lines \in Programs : lines \in Seq(AnyLine)

ASSUME TargetAssumption ==
    /\ Origin \in Nat /\ Inlined \in BOOLEAN /\ (~Inlined => Origin = 0)
    /\ InstructionAlignment \in Nat \ {0} /\ SectionAlignment \in Nat \ {0}

VARIABLES
    program,        \* the lines of the section
    phase,          \* the pass of Process, or how it ended
    pc,             \* the line that the pass has come to
    offset,         \* of the next byte
    conditional,    \* whether lines are included, and if not, why
    conditionals,   \* those of the enclosing #if directives, outermost first
    definitions,    \* the labels known
    sizes,          \* the bytes of each line, as recorded by parsing
    attributes,     \* of the section: at is its origin, if fixed, or its alignment
    failed,         \* whether the batch of the pass caught an error
    places,         \* the offset at which parsing saw each line (history)
    taken           \* the lines that took part in this pass (history)

branching == <<conditional, conditionals>>
history == <<places, taken>>
vars == <<program, phase, pc, offset, branching, definitions, sizes, attributes, failed, history>>

Lines == 1 .. Len(program)

IsConditional(line) == line.directive \in Conditionals

IsParsing == phase \in {"label", "parse"}

IsIncluding == conditional \in {"including", "includingElse"}

Init ==
    /\ program \in Programs
    /\ phase = "label"
    /\ pc = 1
    /\ offset = Origin
    /\ conditional = "including"
    /\ conditionals = <<>>
    /\ definitions = << >>
    /\ sizes = [i \in Lines |-> 0]
    /\ attributes = [fixed |-> FALSE, at |-> 0, group |-> NoLabel,
                     required |-> FALSE, duplicable |-> FALSE, replaceable |-> FALSE]
    /\ failed = FALSE
    /\ places = [i \in Lines |-> Origin]
    /\ taken = {}

-------------------------------------------------------------------------------
(* The value of an operand: a set that is empty if it cannot be evaluated.   *)

Named(defs, name) == {defs[n].value : n \in DOMAIN defs \cap {name}}

\* The labels are not known before they are parsed, so that a difference may
\* be negative then that will not be in the end.
Difference(left, right) == IF IsParsing /\ right > left THEN 0 ELSE left - right

\* An alignment or an origin that is not defined is zero, but only in the
\* passes that may come before its definition.
Alignment == IF attributes.fixed THEN 0 ELSE attributes.at

OriginOf == IF attributes.fixed THEN attributes.at ELSE 0

\* Context::GetValue
Values(defs, operand) ==
    CASE operand.kind = "number" -> {operand.number}
      [] operand.kind = "sum" -> {v + operand.number : v \in Named(defs, operand.name)}
      [] operand.kind = "difference" ->
            {Difference(operand.number, v) : v \in Named(defs, operand.name)}
      [] operand.kind = "alignment" ->
            {v \in {Alignment} : IsParsing \/ v # 0}
      [] operand.kind = "origin" ->
            {v \in {OriginOf} : IsParsing \/ attributes.fixed}
      [] operand.kind \in Options -> {IF attributes[operand.kind] THEN 1 ELSE 0}

-------------------------------------------------------------------------------
(* Context::ProcessDirective, for the directives that include or skip lines. *)

Accept == UNCHANGED failed

Reject == failed' = TRUE

\* The result of a condition, which is evaluated with the labels known so far.
Decide(operand) ==
    LET values == Values(definitions, operand)
    IN  \/ /\ values = {}
           /\ Reject /\ UNCHANGED conditional
        \/ /\ Accept
           /\ \E v \in values : conditional' = IF v # 0 THEN "including" ELSE "skipping"

If(operand) ==
    /\ conditionals' = Append(conditionals, conditional)
    /\ \/ IsIncluding /\ Decide(operand)
       \/ ~IsIncluding /\ conditional' = "ignoring" /\ Accept

\* Faulty: what follows an included branch is tested, too.
AfterIncluded_Skipping == "skipping"

\* Lines that follow an included branch are ignored up to #endif.
AfterIncluded == "ignoring"

Elif(operand) ==
    /\ UNCHANGED conditionals
    /\ \/ conditional = "including" /\ conditionals # <<>>
          /\ conditional' = AfterIncluded /\ Accept
       \/ conditional = "skipping" /\ Decide(operand)
       \/ conditional = "ignoring" /\ UNCHANGED conditional /\ Accept
       \/ /\ \/ conditional \in {"includingElse", "ignoringElse"}
             \/ conditional = "including" /\ conditionals = <<>>
          /\ UNCHANGED conditional /\ Reject

\* Faulty: an #else can be followed by another one.
ElseOf_Repeated(state) ==
    [including |-> "ignoring", ignoring |-> "ignoring", skipping |-> "including"][state]

\* The conditional behind an #else that is legal.
ElseOf(state) ==
    [including |-> "ignoringElse", ignoring |-> "ignoringElse",
     skipping |-> "includingElse"][state]

Else ==
    /\ UNCHANGED conditionals
    /\ LET legal == \/ conditional \in {"ignoring", "skipping"}
                    \/ conditional = "including" /\ conditionals # <<>>
       IN  IF legal THEN conditional' = ElseOf(conditional) /\ Accept
           ELSE UNCHANGED conditional /\ Reject

\* The conditional that was valid before the last #if.
Enclosing == conditionals[Len(conditionals)]

Endif ==
    \/ /\ conditionals # <<>>
       /\ conditional' = Enclosing
       /\ conditionals' = SubSeq(conditionals, 1, Len(conditionals) - 1)
       /\ Accept
    \/ /\ conditionals = <<>>
       /\ UNCHANGED branching /\ Reject

Branch(line) ==
    \/ line.directive = "if" /\ If(line.operand)
    \/ line.directive = "elif" /\ Elif(line.operand)
    \/ line.directive = "else" /\ Else
    \/ line.directive = "endif" /\ Endif

-------------------------------------------------------------------------------
(* The first pass.  It defines the labels, all of them with offset zero.     *)

IsIgnored(line) == line.label = NoLabel \/ ~IsIncluding

Definition(line) ==
    IF line.directive = "equals" THEN [model |-> "number", value |-> line.operand.number]
    ELSE [model |-> "label", value |-> 0]

With(function, key, value) ==
    [k \in DOMAIN function \cup {key} |-> IF k = key THEN value ELSE function[k]]

\* Faulty: any equal definition may be repeated.
MayRepeat_Labels(line) == Definition(line) = definitions[line.label]

\* Only constants may be defined again, with the same value.
MayRepeat(line) ==
    line.directive = "equals" /\ Definition(line) = definitions[line.label]

\* Context::Label
Label(line) ==
    \/ /\ IsIgnored(line)
       /\ UNCHANGED definitions /\ Accept
    \/ /\ ~IsIgnored(line) /\ line.label \notin DOMAIN definitions
       /\ definitions' = With(definitions, line.label, Definition(line)) /\ Accept
    \/ /\ ~IsIgnored(line) /\ line.label \in DOMAIN definitions
       /\ UNCHANGED definitions
       /\ IF MayRepeat(line) THEN Accept ELSE Reject

\* The lines that take part are recorded in every pass.
Record ==
    taken' = IF IsIncluding /\ ~IsConditional(program[pc]) THEN taken \cup {pc} ELSE taken

LabelLine ==
    /\ phase = "label" /\ pc <= Len(program)
    /\ LET line == program[pc]
       IN  \/ IsConditional(line) /\ Branch(line) /\ UNCHANGED definitions
           \/ ~IsConditional(line) /\ Label(line) /\ UNCHANGED branching
    /\ pc' = pc + 1
    /\ Record
    /\ UNCHANGED <<program, phase, offset, sizes, attributes, places>>

\* Faulty: a missing #endif is not noticed.
IsComplete_Always == TRUE

IsComplete == conditionals = <<>>

EndLabel ==
    /\ phase = "label" /\ pc > Len(program)
    /\ phase' = IF failed \/ ~IsComplete THEN "failed" ELSE "parse"
    /\ pc' = 1
    /\ taken' = {}
    /\ UNCHANGED <<program, offset, branching, definitions, sizes, attributes, failed, places>>

-------------------------------------------------------------------------------
(* The second and the third pass.  Bytes are those of a line that is         *)
(* included: a set that is empty if there is an error.                       *)

\* Bound: no alignment beyond 64.
PowersOfTwo == {1, 2, 4, 8, 16, 32, 64}

\* (offset + alignment - 1) / alignment * alignment
Align(value, alignment) == ((value + alignment - 1) \div alignment) * alignment

\* Context::GetOffset: the operand of an instruction is relative to its end,
\* if it is a label, which is as far away as nothing while it is not known.
Displacements(defs, operand) ==
    IF operand.kind = "sum" /\ operand.number = 0 /\ operand.name \in DOMAIN defs
       /\ defs[operand.name].model = "label"
    THEN {(IF IsParsing THEN 0 ELSE defs[operand.name].value - offset) - sizes[pc]}
    ELSE Values(defs, operand)

\* The encoding of the instruction set (ParseInstruction, EmitInstruction).
Length(displacement) == IF displacement \in Reach THEN 2 ELSE 4

Padding(values) == {v - offset : v \in {w \in values : w >= offset}}

Bytes(defs, line) ==
    LET values == Values(defs, line.operand)
    IN  CASE line.directive = "byte" -> {1 : v \in values}
          [] line.directive = "reserve" -> {v \in values : v >= 0}
          [] line.directive = "pad" -> Padding(values)
          [] line.directive = "align" ->
                {Align(offset, v) - offset : v \in values \cap PowersOfTwo}
          [] line.directive \in Attributes \cup {"equals"} -> {0}
          [] line.directive = "empty" -> IF offset % InstructionAlignment = 0 THEN {0} ELSE {}
          [] line.directive = "jump" ->
                IF offset % InstructionAlignment # 0 THEN {}
                ELSE {Length(d) : d \in Displacements(defs, line.operand)}

\* Faulty: an attribute may be specified again, with another value.
IsSpecified_Never(specified) == FALSE

\* Whether parsing meets an attribute for the second time.
IsSpecified(specified) == IsParsing /\ specified

\* Faulty: what parsing has found is overwritten.
IsModified_Never(old, new) == FALSE

\* Whether an attribute has another value than what parsing has found.
IsModified(old, new) == ~IsParsing /\ new # old

\* ProcessAlignmentDirective
Alignments(values) ==
    {v \in values \cap PowersOfTwo :
        /\ ~attributes.fixed /\ ~IsSpecified(attributes.at # 0)
        /\ v % SectionAlignment = 0 /\ ~IsModified(attributes.at, v)}

\* ProcessOriginDirective
Origins(values) ==
    {v \in values :
        /\ Alignment = 0 /\ ~IsSpecified(attributes.fixed)
        /\ v >= 0 /\ v % SectionAlignment = 0 /\ ~IsModified(attributes.at, v)}

\* ProcessGroupDirective: a name that stands for nothing else.
Groups(defs, operand) ==
    {name \in {operand.name} \ (DOMAIN defs \cup {NoLabel}) :
        /\ operand.kind = "sum" /\ operand.number = 0
        /\ ~IsSpecified(attributes.group # NoLabel) /\ ~IsModified(attributes.group, name)}

\* The attributes of the section behind a directive: a set that is empty if
\* there is an error.
Given(directive, defs, operand) ==
    CASE directive \in Options ->
            {[attributes EXCEPT ![o] = TRUE] :
                o \in {p \in {directive} : ~IsSpecified(attributes[p])}}
      [] directive = "alignment" ->
            {[attributes EXCEPT !.at = v] : v \in Alignments(Values(defs, operand))}
      [] directive = "origin" ->
            {[attributes EXCEPT !.fixed = TRUE, !.at = v] : v \in Origins(Values(defs, operand))}
      [] directive = "group" ->
            {[attributes EXCEPT !.group = name] : name \in Groups(defs, operand)}

\* Inlined code has to leave the attributes alone.
Settings(defs, line) ==
    IF line.directive \in Attributes
    THEN {a \in Given(line.directive, defs, line.operand) : ~Inlined}
    ELSE {attributes}

\* The label of a line gets the offset of the line, included or not.
Labelled(line) ==
    IF line.label = NoLabel \/ line.directive = "equals" \/ ~IsParsing THEN definitions
    ELSE LET model == IF line.label \in DOMAIN definitions
                      THEN definitions[line.label].model ELSE "label"
         IN  With(definitions, line.label, [model |-> model, value |-> offset])

\* Faulty: what has another size than before is emitted all the same.
IsResized_Never(size) == FALSE

IsResized(size) == phase = "emit" /\ size # sizes[pc]

\* A line of a number of bytes that is included, none if it is not.  After an
\* error the sizes of the pass do not matter, as it is the last one.
Reserve(size) ==
    /\ offset' = offset + size
    /\ sizes' = IF IsParsing THEN [sizes EXCEPT ![pc] = size] ELSE sizes
    /\ IF IsResized(size) THEN Reject ELSE Accept

\* Context::Process, for a line.
ProcessLine ==
    /\ phase \in {"parse", "emit"} /\ pc <= Len(program)
    /\ LET line == program[pc]
           bytes == Bytes(definitions', line)
           settings == Settings(definitions', line)
       IN  /\ definitions' = Labelled(line)
           /\ \/ IsConditional(line) /\ Branch(line) /\ UNCHANGED <<offset, sizes, attributes>>
              \/ /\ ~IsConditional(line) /\ UNCHANGED branching
                 /\ \/ ~IsIncluding /\ Reserve(0) /\ UNCHANGED attributes
                    \/ /\ IsIncluding
                       /\ \E size \in bytes : Reserve(size)
                       /\ attributes' \in settings
                    \/ /\ IsIncluding /\ (bytes = {} \/ settings = {})
                       /\ Reject /\ UNCHANGED <<offset, sizes, attributes>>
    /\ pc' = pc + 1
    /\ places' = IF IsParsing THEN [places EXCEPT ![pc] = offset] ELSE places
    /\ Record
    /\ UNCHANGED <<program, phase>>

\* Assembler::Align: a section without origin is aligned as the target demands.
Raised ==
    IF ~attributes.fixed /\ SectionAlignment > attributes.at
    THEN [attributes EXCEPT !.at = SectionAlignment] ELSE attributes

\* Context::Reset, after the assertion that all conditionals are closed.
EndPass ==
    /\ phase \in {"parse", "emit"} /\ pc > Len(program)
    /\ IF failed THEN phase' = "failed" /\ UNCHANGED <<pc, offset>>
       ELSE IF conditionals # <<>> \/ conditional # "including"
       THEN phase' = "aborted" /\ UNCHANGED <<pc, offset>>
       ELSE /\ phase' = IF phase = "parse" THEN "emit" ELSE "done"
            /\ pc' = 1
            /\ offset' = Origin
    /\ taken' = IF phase' = "emit" THEN {} ELSE taken
    /\ attributes' = IF phase' = "done" /\ ~Inlined THEN Raised ELSE attributes
    /\ UNCHANGED <<program, branching, definitions, sizes, failed, places>>

Next == LabelLine \/ EndLabel \/ ProcessLine \/ EndPass

Spec == Init /\ [][Next]_vars

-------------------------------------------------------------------------------
AnyAttributes ==
    [fixed : BOOLEAN, at : Nat, group : Nat,
     required : BOOLEAN, duplicable : BOOLEAN, replaceable : BOOLEAN]

AnyConditional == {"including", "includingElse", "skipping", "ignoring", "ignoringElse"}

(* The members of the context have their types: no label is known but those  *)
(* of lines, and no line has a negative size.                                *)
TypeOK ==
    /\ program \in Seq(AnyLine)
    /\ phase \in {"label", "parse", "emit", "done", "failed", "aborted"}
    /\ pc \in 1 .. Len(program) + 1 /\ offset \in Nat
    /\ conditional \in AnyConditional /\ conditionals \in Seq(AnyConditional)
    /\ DOMAIN definitions \subseteq {program[i].label : i \in Lines}
    /\ \A name \in DOMAIN definitions :
            definitions[name] \in [model : {"label", "number"}, value : Int]
    /\ sizes \in [Lines -> Nat] /\ places \in [Lines -> Nat]
    /\ attributes \in AnyAttributes
    /\ failed \in BOOLEAN /\ taken \subseteq Lines

\* The number of #if directives that are open before a line.
Depth(i) ==
    Cardinality({j \in 1 .. i - 1 : program[j].directive = "if"})
        - Cardinality({j \in 1 .. i - 1 : program[j].directive = "endif"})

\* Whether a line lies between an #if directive and its #endif, which included.
Encloses(k, i) ==
    program[k].directive = "if" /\ k < i /\ \A j \in k + 1 .. i : Depth(j) > Depth(k)

\* The directives that begin the branches of an #if directive before a line.
Heads(k, i) ==
    {j \in k .. i - 1 : \/ j = k
                       \/ /\ program[j].directive \in {"elif", "else"}
                          /\ Depth(j) = Depth(k) + 1}

IsTrue(head) == program[head].directive = "else" \/ program[head].operand.number # 0

\* Whether of each enclosing #if directive the line lies in the first branch
\* whose condition is true.
Included(i) ==
    \A k \in Lines : Encloses(k, i) =>
        \E head \in Heads(k, i) :
            /\ IsTrue(head)
            /\ \A other \in Heads(k, i) \ {head} : other < head /\ ~IsTrue(other)

IsConstant ==
    \A i \in Lines : program[i].directive \in {"if", "elif"} =>
                            program[i].operand.kind = "number"

(* In every pass just the lines of the branches with the first true          *)
(* conditions take part, however the directives are nested.                  *)
BranchesMatch ==
    IsConstant /\ ~failed =>
        \A i \in 1 .. pc - 1 :
            i \in taken <=> ~IsConditional(program[i]) /\ Included(i)

(* The assertions on the conditionals at the end of a pass never fail: what  *)
(* the first pass lets through closes all conditionals in the others, too,   *)
(* although conditions are evaluated to other values there.                  *)
AssertionsHold == phase # "aborted"

(* No section is assembled unless its conditional directives match: errors   *)
(* are found in lines that are skipped, too, and whatever the conditions.    *)
MalformedRejected ==
    phase = "done" =>
        /\ Depth(Len(program) + 1) = 0
        /\ \A i \in Lines : program[i].directive \in Conditionals \ {"if"} =>
                \E k \in Lines :
                    /\ Encloses(k, i) /\ Depth(i) = Depth(k) + 1
                    /\ program[i].directive # "endif" =>
                        \A head \in Heads(k, i) : program[head].directive # "else"

Unique(i) == \A j \in Lines : program[j].label = program[i].label => j = i

(* The code is emitted where parsing saw it, and so every label that labels  *)
(* a single line has the offset of that line, although the conditions and    *)
(* the sizes of instructions may depend on labels that were not known before.*)
LabelsMatch ==
    phase = "emit" /\ ~failed =>
        /\ pc <= Len(program) => offset = places[pc]
        /\ \A i \in Lines :
                program[i].label # NoLabel /\ program[i].directive # "equals" /\ Unique(i)
                /\ ~IsConditional(program[i]) =>
                    definitions[program[i].label].value = places[i]

(* Labels that are included are unique but for constants of the same value.  *)
UniqueLabels ==
    phase = "done" /\ IsConstant =>
        \A i, j \in taken :
            program[i].label = program[j].label /\ program[i].label # NoLabel =>
                \/ i = j
                \/ /\ program[i].directive = "equals" /\ program[j].directive = "equals"
                   /\ program[i].operand.number = program[j].operand.number

(* A section has the attributes that its lines give it when all labels are   *)
(* known, although each pass evaluates them anew and parsing knows only some *)
(* labels.  The assertion of Align holds, so that the linker may divide by   *)
(* the alignment of any section.                                             *)
AttributesMatch ==
    phase = "done" =>
        /\ \A i \in taken :
                LET line == program[i]
                    values == Values(definitions, line.operand)
                IN  /\ line.directive \in Options => attributes[line.directive]
                    /\ line.directive = "group" => attributes.group = line.operand.name
                    /\ line.directive \in {"alignment", "origin"}
                       /\ line.operand.kind \in LabelOperands =>
                            /\ attributes.fixed <=> line.directive = "origin"
                            /\ values = {attributes.at}
        /\ ~Inlined => /\ attributes.at % SectionAlignment = 0
                       /\ attributes.fixed \/ attributes.at # 0

(* If no condition depends on labels, no attribute is specified twice, and   *)
(* the section has none that is not specified.                               *)
SpecifiedOnce ==
    phase = "done" /\ IsConstant =>
        LET Specifies(d) == {i \in taken : program[i].directive = d}
        IN  /\ \A d \in Attributes : Cardinality(Specifies(d)) <= 1
            /\ \A d \in Options : attributes[d] => Specifies(d) # {}
            /\ attributes.group # NoLabel => Specifies("group") # {}
            /\ attributes.fixed => Specifies("origin") # {}
            /\ Alignment > SectionAlignment => Specifies("alignment") # {}

(* The value of a label is the offset of the line that it labels.            *)
LabelsResolve ==
    phase = "done" =>
        \A i \in taken :
            program[i].label # NoLabel /\ program[i].directive # "equals" =>
                definitions[program[i].label].value = places[i]
===============================================================================
