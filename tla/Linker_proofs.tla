----------------------------- MODULE Linker_proofs -----------------------------
(*****************************************************************************)
(* Proofs about a run of the linker, for all programs, images and widths of  *)
(* offsets.                                                                  *)
(*****************************************************************************)
EXTENDS Linker, Arrangements_proofs, FiniteSetTheorems

GroupNames == {program[b].group : b \in Blocks} \ {NoName}

(* What is known of the sections of a program.                               *)
LEMMA SectionTypes ==
    ASSUME program \in Programs
    PROVE  /\ program \in Seq(Sections) /\ Len(program) \in Nat
           /\ Blocks \subseteq Nat \ {NoBlock}
           /\ \A b \in Blocks : program[b] \in Sections
           /\ EntryPoint \notin GroupNames
           /\ \A b \in Blocks : ~program[b].fixed => program[b].at # 0
           /\ \A b \in Blocks : program[b].group # NoName => program[b].group \in GroupNames
<1>1. program \in Seq(Sections) /\ ReservesGroups(program)
      /\ \A i \in 1 .. Len(program) : ~program[i].fixed => program[i].at # 0
  BY ProgramAssumption
<1>2. Len(program) \in Nat /\ \A b \in Blocks : program[b] \in Sections
  BY <1>1 DEF Blocks
<1>3. EntryPoint \notin GroupNames
  BY <1>1, <1>2 DEF ReservesGroups, GroupNames, Blocks
<1> QED
  BY <1>1, <1>2, <1>3 DEF Blocks, NoBlock, GroupNames

(* The names of a section are its name and its aliases; none is a group's.   *)
LEMMA NamesTypes ==
    ASSUME program \in Programs, NEW b \in Blocks
    PROVE  /\ Names(program[b]) \in Seq(Aliases)
           /\ Len(Names(program[b])) = Len(program[b].aliases) + 1
           /\ Len(program[b].aliases) \in Nat
           /\ \A i \in 1 .. Len(Names(program[b])) :
                /\ Names(program[b])[i].name \in Nat \ (GroupNames \cup {NoName})
                /\ Names(program[b])[i].offset \in Value
<1>1. /\ program[b].name \in Nat \ {NoName} /\ program[b].aliases \in Seq(Aliases)
      /\ Len(program[b].aliases) \in Nat
  BY SectionTypes, SMTT(30) DEF Sections
<1> DEFINE first == [name |-> program[b].name, offset |-> 0]
<1>2. first \in Aliases
  BY <1>1, ModulusNat DEF Aliases
<1>3. Names(program[b]) = <<first>> \o program[b].aliases
  BY DEF Names
<1> HIDE DEF first
<1>4. /\ Names(program[b]) \in Seq(Aliases)
      /\ Len(Names(program[b])) = Len(program[b].aliases) + 1
      /\ Names(program[b])[1] = first
      /\ \A i \in 2 .. Len(Names(program[b])) :
            Names(program[b])[i] = program[b].aliases[i - 1]
  BY <1>1, <1>2, <1>3
<1>5. ASSUME NEW i \in 1 .. Len(Names(program[b]))
      PROVE  /\ Names(program[b])[i].name \in Nat \ {NoName}
             /\ Names(program[b])[i].offset \in Value
  <2>1. Names(program[b])[i] \in Aliases
    BY <1>4
  <2> QED
    BY <2>1 DEF Aliases
<1>6. ASSUME NEW i \in 1 .. Len(Names(program[b])), NEW c \in Blocks,
             program[c].group # NoName
      PROVE  Names(program[b])[i].name # program[c].group
  <2>1. ReservesGroups(program)
    BY ProgramAssumption
  <2>2. /\ program[b].name # program[c].group
        /\ \A k \in 1 .. Len(program[b].aliases) :
                program[b].aliases[k].name # program[c].group
    BY <1>6, <2>1 DEF ReservesGroups, Blocks
  <2>3. CASE i = 1
    BY <1>4, <2>2, <2>3 DEF first
  <2>4. CASE i # 1
    <3>1. i - 1 \in 1 .. Len(program[b].aliases) /\ i \in 2 .. Len(Names(program[b]))
      BY <1>1, <1>4, <2>4
    <3>2. Names(program[b])[i] = program[b].aliases[i - 1]
      BY <1>4, <3>1
    <3> QED
      BY <2>2, <3>1, <3>2
  <2> QED
    BY <2>3, <2>4
<1> QED
  BY <1>1, <1>4, <1>5, <1>6 DEF GroupNames

-------------------------------------------------------------------------------
(* The order of blocks.                                                      *)

LEMMA PlacementNat ==
    ASSUME NEW s \in Sections
    PROVE  Placement(s) \in Nat /\ (Placement(s) = 0 <=> s.fixed)
<1> DEFINE placements == [header |-> 1, initdata |-> 2, initcode |-> 3, code |-> 5,
                          const |-> 6, data |-> 7, trailer |-> 8]
<1>1. s.type \in Types /\ s.fixed \in BOOLEAN
  BY DEF Sections
<1>2. \A type \in Types : placements[type] \in Nat \ {0}
  BY DEF Types
<1>3. Placement(s) = IF s.fixed THEN 0 ELSE IF IsEntryPoint(s) THEN 4 ELSE placements[s.type]
  BY DEF Placement
<1> HIDE DEF placements
<1> QED
  BY <1>1, <1>2, <1>3

(* Sections are compared by a strict weak order: what is not less is not     *)
(* less either after a detour.                                               *)
LEMMA LessOrder ==
    ASSUME NEW r \in Sections, NEW s \in Sections, NEW t \in Sections
    PROVE  /\ ~Less(s, s)
           /\ Less(s, t) => ~Less(t, s)
           /\ ~Less(s, r) /\ ~Less(t, s) => ~Less(t, r)
<1>1. /\ Placement(r) \in Nat /\ (Placement(r) = 0 <=> r.fixed)
      /\ Placement(s) \in Nat /\ (Placement(s) = 0 <=> s.fixed)
      /\ Placement(t) \in Nat /\ (Placement(t) = 0 <=> t.fixed)
  BY PlacementNat
<1>2. /\ r.group \in Nat /\ s.group \in Nat /\ t.group \in Nat
      /\ r.at \in Nat /\ s.at \in Nat /\ t.at \in Nat
  BY ModulusNat DEF Sections
<1> QED
  BY <1>1, <1>2 DEF Less, NoName

LEMMA UpperBoundExists ==
    ASSUME order \in Seq(Blocks), NEW block
    PROVE  /\ UpperBound(block) \in 1 .. Len(order) + 1
           /\ UpperBound(block) <= Len(order) =>
                Less(program[block], program[order[UpperBound(block)]])
           /\ \A q \in 1 .. UpperBound(block) - 1 : ~Less(program[block], program[order[q]])
<1> DEFINE T == {q \in 1 .. Len(order) + 1 :
                    q <= Len(order) => Less(program[block], program[order[q]])}
<1>1. Len(order) \in Nat
  OBVIOUS
<1>2. T \in SUBSET Nat /\ Len(order) + 1 \in T
  BY <1>1
<1>3. PICK p \in T : \A q \in T : p <= q
  BY <1>2, LeastNatural
<1>4. /\ p \in 1 .. Len(order) + 1
      /\ p <= Len(order) => Less(program[block], program[order[p]])
      /\ \A q \in 1 .. p - 1 : ~Less(program[block], program[order[q]])
  BY <1>1, <1>3
<1> QED
  BY <1>4, Zenon DEF UpperBound

(* The list is cut in two, and the block put in between.                     *)
LEMMA SortedElements ==
    ASSUME order \in Seq(Blocks), NEW block \in Blocks
    PROVE  LET p == UpperBound(block)
           IN  /\ Sorted(block) \in Seq(Blocks)
               /\ Len(Sorted(block)) = Len(order) + 1
               /\ \A i \in 1 .. p - 1 : Sorted(block)[i] = order[i]
               /\ Sorted(block)[p] = block
               /\ \A i \in p + 1 .. Len(order) + 1 : Sorted(block)[i] = order[i - 1]
<1> DEFINE p == UpperBound(block)
           front == SubSeq(order, 1, p - 1)
           rear == SubSeq(order, p, Len(order))
<1>1. p \in 1 .. Len(order) + 1 /\ Len(order) \in Nat
  BY UpperBoundExists
<1>2. Sorted(block) = (front \o <<block>>) \o rear
  BY DEF Sorted
<1> HIDE DEF p
<1>3. /\ front \in Seq(Blocks) /\ Len(front) = p - 1
      /\ \A i \in 1 .. p - 1 : front[i] = order[i]
  BY <1>1
<1>4. /\ rear \in Seq(Blocks) /\ Len(rear) = Len(order) + 1 - p
      /\ \A i \in 1 .. Len(rear) : rear[i] = order[p + i - 1]
  BY <1>1
<1> HIDE DEF front, rear
<1> DEFINE head == front \o <<block>>
<1>5. /\ head \in Seq(Blocks) /\ Len(head) = p
      /\ \A i \in 1 .. p - 1 : head[i] = order[i]
      /\ head[p] = block
  BY <1>1, <1>3
<1> HIDE DEF head
<1>6. /\ head \o rear \in Seq(Blocks) /\ Len(head \o rear) = Len(order) + 1
      /\ \A i \in 1 .. p : (head \o rear)[i] = head[i]
      /\ \A i \in p + 1 .. Len(order) + 1 : (head \o rear)[i] = rear[i - p]
  BY <1>1, <1>4, <1>5
<1>7. \A i \in p + 1 .. Len(order) + 1 : (head \o rear)[i] = order[i - 1]
  <2> TAKE i \in p + 1 .. Len(order) + 1
  <2>1. i - p \in 1 .. Len(rear) /\ p + (i - p) - 1 = i - 1
    BY <1>1, <1>4
  <2> QED
    BY <1>4, <1>6, <2>1
<1>8. Sorted(block) = head \o rear
  BY <1>2 DEF head
<1> QED
  BY <1>1, <1>5, <1>6, <1>7, <1>8 DEF p
-------------------------------------------------------------------------------
(* The inductive invariant.                                                  *)

\* The number of blocks created.
Created ==
    IF phase # "add" THEN Len(program) ELSE IF inner = 0 THEN cursor - 1 ELSE cursor

ControlInv ==
    /\ program \in Programs
    /\ phase \in {"add", "reference", "arrange", "link", "done", "failed", "aborted"}
    /\ cursor \in 1 .. Len(program) + 1 /\ inner \in Nat
    /\ phase = "add" /\ inner # 0 => cursor <= Len(program)
    /\ phase \in {"reference", "arrange"} => inner = 0
    /\ errors \in BOOLEAN

OrderInv ==
    /\ order \in Seq(Blocks)
    /\ Len(order) = Created
    /\ \A i \in 1 .. Len(order) : order[i] <= Len(order)
    /\ \A i, j \in 1 .. Len(order) : order[i] = order[j] => i = j
    /\ \A b \in 1 .. Len(order) : \E i \in 1 .. Len(order) : order[i] = b
    /\ InOccurrence

GroupEntries == [isGroup : {TRUE}, block : Blocks \cup {NoBlock}, offset : Value, count : Nat]

\* A name of a block leads to that block.
IsEntry(b, i) ==
    /\ Names(program[b])[i].name \in DOMAIN directory
    /\ directory[Names(program[b])[i].name] = BlockEntry(b, Names(program[b])[i].offset)

DirectoryInv ==
    /\ \A name \in DOMAIN directory \cap GroupNames : directory[name] \in GroupEntries
    /\ \A name \in DOMAIN directory \ GroupNames :
         \E b \in 1 .. Len(order) \ replaced : \E i \in 1 .. Len(Names(program[b])) :
            Names(program[b])[i].name = name /\ IsEntry(b, i)
    /\ \A b \in 1 .. Len(order) :
         program[b].group # NoName => program[b].group \in DOMAIN directory

\* The names of the current block up to the one being entered are left out.
NamesInv ==
    /\ phase # "failed" /\ (phase = "add" => ~errors)
    /\ \A b \in replaced : program[b].aliases = <<>>
    => \A b \in 1 .. Len(order) \ replaced : \A i \in 1 .. Len(Names(program[b])) :
         \/ IsEntry(b, i)
         \/ phase = "add" /\ inner # 0 /\ b = cursor /\ i >= inner

FlagsInv ==
    /\ replaced \subseteq 1 .. Len(order)
    /\ phase = "add" => used = {} /\ stack = <<>>
    /\ used \subseteq Blocks \ replaced /\ referenced \subseteq used
    /\ GivesWay

StackInv ==
    /\ stack \in Seq([block : referenced, link : Nat])
    /\ stack # <<>> => phase = "reference"
    /\ \A i \in 1 .. Len(stack) :
         stack[i].link \in 1 .. Len(program[stack[i].block].links) + 1
    /\ ActivationsDistinct

MemoryInv ==
    /\ images \in [{CodeImage, DataImage, ConstImage} -> Arrangement]
    /\ \A image \in {CodeImage, DataImage, ConstImage} : IsProper(images[image])
    /\ address \in [Blocks -> Value]
    /\ index \in [Blocks -> 0 .. Len(program)]
    /\ previousCode \in used \cup {NoBlock}
    /\ \A name \in DOMAIN directory \cap GroupNames :
         /\ phase \in {"add", "reference"} => directory[name].count = 0
         /\ phase = "arrange" => directory[name].count < cursor

Roots == Required \cup {directory[EntryPoint].block}

\* What an unconditional link leads to, if anything, is a block of a set.
LeadsInto(link, set) ==
    link.conditions = {} /\ link.name \in DOMAIN directory \ GroupNames
        => directory[link.name].block \in set

UseInv ==
    phase \notin {"add", "failed"} =>
        /\ EntryPoint \in DOMAIN directory
        /\ Roots \subseteq used
        /\ \A set \in SUBSET Blocks :
             Roots \subseteq set /\ Closed(set, PossibleTargets) => used \subseteq set
        /\ \A b \in used : \A j \in 1 .. Len(program[b].links) :
             \/ LeadsInto(program[b].links[j], used)
             \/ \E i \in 1 .. Len(stack) : stack[i].block = b /\ stack[i].link <= j
        /\ \A p \in 1 .. Len(order) :
             phase # "reference" \/ p < cursor => (order[p] \in used => order[p] \in referenced)

\* What Patch has evaluated an unconditional link to.
IsEvaluated(b, i) ==
    LET link == program[b].links[i]
    IN  link.conditions = {} /\ link.name \notin GroupNames \cup {NoName} =>
            /\ link.name \in DOMAIN directory
            /\ values[b][i] = Evaluated(directory[link.name])

\* The number of links evaluated, of the block at a position of the list.
Patched(p) ==
    IF phase = "done" \/ (phase = "link" /\ p < cursor) THEN Len(program[order[p]].links)
    ELSE IF phase = "link" /\ p = cursor /\ inner # 0 THEN inner - 1 ELSE 0

IsSequence(s) == s \in Seq({s[i] : i \in DOMAIN s})

ValueInv ==
    phase \notin {"failed", "aborted"} =>
        /\ DOMAIN values = Blocks /\ \A b \in Blocks : IsSequence(values[b])
        /\ phase \in {"add", "reference", "arrange"} => values = [b \in Blocks |-> <<>>]
        /\ phase = "link" /\ inner # 0 =>
             /\ cursor <= Len(order) /\ order[cursor] \in used
             /\ inner <= Len(program[order[cursor]].links) + 1
        /\ \A p \in 1 .. Len(order) : order[p] \in used =>
             /\ Len(values[order[p]]) = Patched(p)
             /\ \A i \in 1 .. Patched(p) : IsEvaluated(order[p], i)

IInv ==
    /\ ControlInv /\ OrderInv /\ DirectoryInv /\ NamesInv /\ FlagsInv
    /\ StackInv /\ MemoryInv /\ UseInv /\ ValueInv
LEMMA InitIInv == Init => IInv
<1> SUFFICES ASSUME Init PROVE IInv
  OBVIOUS
<1> USE DEF Init
<1>1. program \in Programs /\ Len(program) \in Nat /\ Blocks \subseteq Nat
  BY SectionTypes
<1>2. ControlInv
  <2>1. /\ program \in Programs /\ phase = "add" /\ cursor = 1 /\ inner = 0 /\ errors = FALSE
    OBVIOUS
  <2>2. errors \in BOOLEAN
    BY <2>1
  <2> HIDE DEF Init
  <2>3. cursor \in 1 .. Len(program) + 1 /\ inner \in Nat
    BY <1>1, <2>1
  <2> QED
    BY <2>1, <2>2, <2>3, Zenon DEF ControlInv
<1>3. OrderInv
  BY <1>1 DEF OrderInv, Created, InOccurrence
<1>4. DirectoryInv /\ NamesInv
  BY DEF DirectoryInv, NamesInv
<1>5. FlagsInv
  BY <1>1 DEF FlagsInv, GivesWay
<1>6. StackInv
  BY DEF StackInv, ActivationsDistinct
<1>7. MemoryInv
  <2>1. IsProper(EmptyArrangement) /\ EmptyArrangement \in Arrangement /\ 0 \in Value
    BY EmptyProper, ModulusNat DEF IsProper
  <2> QED
    BY <1>1, <2>1 DEF MemoryInv, NoBlock
<1>8. UseInv
  BY DEF UseInv
<1>9. ValueInv
  <2>1. \A b \in Blocks : values[b] = <<>> /\ IsSequence(values[b])
    BY DEF IsSequence
  <2> QED
    BY <1>1, <2>1 DEF ValueInv, Patched
<1> QED
  BY <1>2, <1>3, <1>4, <1>5, <1>6, <1>7, <1>8, <1>9 DEF IInv

-------------------------------------------------------------------------------
(* The statements and loops of Process.                                      *)

LEMMA ControlStep ==
    ASSUME IInv, Next
    PROVE  ControlInv'
<1>1. /\ program \in Programs /\ Len(program) \in Nat /\ Len(order) \in Nat
      /\ cursor \in 1 .. Len(program) + 1 /\ inner \in Nat /\ errors \in BOOLEAN
      /\ Len(order) = Created
      /\ stack # <<>> => phase = "reference"
      /\ ControlInv
  BY SectionTypes DEF IInv, ControlInv, OrderInv, StackInv
<1> USE DEF ControlInv, control, flags, memory
<1>2. CASE Create
  BY <1>1, <1>2 DEF Create
<1>3. CASE Enter
  <2>1. /\ phase = "add" /\ inner # 0 /\ program' = program /\ phase' = phase
        /\ \/ cursor' = cursor /\ inner' = inner + 1 /\ errors' = errors
           \/ cursor' = cursor + 1 /\ inner' = 0 /\ errors' = TRUE
    BY <1>3, Zenon DEF Enter, AddError
  <2>2. errors' \in BOOLEAN
    BY <1>1, <2>1, Zenon
  <2>3. /\ cursor' \in 1 .. Len(program) + 1 /\ inner' \in Nat
        /\ inner' # 0 => cursor' <= Len(program)
    BY <1>1, <2>1
  <2> QED
    BY <1>1, <2>1, <2>2, <2>3
<1>4. CASE Join
  <2>1. /\ phase = "add" /\ inner # 0 /\ program' = program /\ phase' = phase
        /\ cursor' = cursor + 1 /\ inner' = 0 /\ (errors' = errors \/ errors' = TRUE)
    BY <1>4, Zenon DEF Join, AddError
  <2>2. errors' \in BOOLEAN
    BY <1>1, <2>1, Zenon
  <2>3. cursor' \in 1 .. Len(program) + 1 /\ inner' \in Nat
    BY <1>1, <2>1
  <2> QED
    BY <1>1, <2>1, <2>2, <2>3
<1>5. CASE Start
  BY <1>1, <1>5 DEF Start
<1>6. CASE Refer
  BY <1>1, <1>6 DEF Refer, Created
<1>7. CASE Resolve
  BY <1>1, <1>7 DEF Resolve
<1>8. CASE Return
  BY <1>1, <1>8 DEF Return
<1>9. CASE EndReference
  BY <1>1, <1>9 DEF EndReference
<1>10. CASE Pass
  BY <1>1, <1>10 DEF Pass, Created
<1>11. CASE Arrange
  <2>1. /\ phase = "arrange" /\ cursor <= Len(order) /\ program' = program /\ errors' = errors
        /\ inner' = inner /\ cursor' \in {cursor, cursor + 1}
        /\ phase' \in {"arrange", "failed", "aborted"}
    BY <1>11, Zenon DEF Arrange
  <2>2. inner = 0 /\ cursor' \in 1 .. Len(program) + 1
    BY <1>1, <2>1 DEF Created
  <2> QED
    BY <1>1, <2>1, <2>2
<1>12. CASE EndArrange
  BY <1>1, <1>12 DEF EndArrange
<1>13. CASE Copy
  BY <1>1, <1>13 DEF Copy
<1>14. CASE Patch
  BY <1>1, <1>14 DEF Patch
<1>15. CASE EndLink
  BY <1>1, <1>15 DEF EndLink, Created
<1> QED
  BY <1>2, <1>3, <1>4, <1>5, <1>6, <1>7, <1>8, <1>9, <1>10, <1>11, <1>12, <1>13, <1>14, <1>15
     DEF Next

(* The program never changes, and the list only until all is added.          *)
LEMMA Framed ==
    ASSUME IInv, Next
    PROVE  /\ program' = program /\ Blocks' = Blocks /\ GroupNames' = GroupNames
           /\ Create \/ (order' = order /\ Created' = Created)
<1>1. program' = program
  BY Zenon DEF Next, Create, Enter, Join, Start, Refer, Resolve, Return, EndReference,
     Pass, Arrange, EndArrange, Copy, Patch, EndLink
<1>2. Create \/ order' = order
  BY Zenon DEF Next, Enter, Join, Start, Refer, Resolve, Return, EndReference,
     Pass, Arrange, EndArrange, Copy, Patch, EndLink
<1>3. Blocks' = Blocks /\ GroupNames' = GroupNames
  BY <1>1 DEF Blocks, GroupNames
<1>4. ASSUME ~Create PROVE Created' = Created
  <2>1. /\ cursor \in 1 .. Len(program) + 1 /\ inner \in Nat /\ Len(program) \in Nat
        /\ Len(order) = Created /\ Len(order) \in Nat
        /\ phase = "add" /\ inner # 0 => cursor <= Len(program)
    BY SectionTypes DEF IInv, ControlInv, OrderInv
  <2>2. CASE Enter
    <3>1. /\ phase = "add" /\ inner # 0 /\ phase' = phase
          /\ \/ cursor' = cursor /\ inner' = inner + 1
             \/ cursor' = cursor + 1 /\ inner' = 0
      BY <2>2, Zenon DEF Enter, AddError
    <3> QED
      BY <1>1, <2>1, <3>1 DEF Created
  <2>3. CASE Join
    <3>1. phase = "add" /\ inner # 0 /\ phase' = phase /\ cursor' = cursor + 1 /\ inner' = 0
      BY <2>3, Zenon DEF Join, AddError
    <3> QED
      BY <1>1, <2>1, <3>1 DEF Created
  <2>4. CASE Start
    BY <1>1, <2>1, <2>4 DEF Start, Created
  <2>5. CASE Refer \/ Resolve \/ Return \/ EndReference
    <3>1. stack # <<>> => phase = "reference"
      BY DEF IInv, StackInv
    <3>2. phase = "reference" /\ (phase' = phase \/ phase' \in {"failed", "arrange"})
      BY <2>5, <3>1 DEF Refer, Resolve, Return, EndReference, control
    <3> QED
      BY <1>1, <3>2 DEF Created
  <2>6. CASE Pass \/ Arrange \/ EndArrange \/ Copy \/ Patch \/ EndLink
    <3>1. /\ phase \in {"arrange", "link"}
          /\ phase' = phase \/ phase' \in {"failed", "aborted", "link", "done"}
      BY <2>6 DEF Pass, Arrange, EndArrange, Copy, Patch, EndLink
    <3> QED
      BY <1>1, <3>1 DEF Created
  <2> QED
    BY <1>4, <2>2, <2>3, <2>4, <2>5, <2>6 DEF Next
<1> QED
  BY <1>1, <1>2, <1>3, <1>4

LEMMA OrderStep ==
    ASSUME IInv, Next
    PROVE  OrderInv'
<1>1. /\ program' = program /\ Blocks' = Blocks
      /\ Create \/ (order' = order /\ Created' = Created)
  BY Framed
<1>2. /\ OrderInv /\ order \in Seq(Blocks) /\ Len(order) \in Nat
      /\ \A b \in Blocks : program[b] \in Sections
      /\ Blocks = 1 .. Len(program) /\ Len(program) \in Nat
  BY SectionTypes DEF IInv, ControlInv, OrderInv, Blocks
<1>3. CASE order' = order /\ Created' = Created
  <2>1. InOccurrence
    BY <1>2 DEF OrderInv
  <2>2. InOccurrence'
    BY <1>1, <1>3, <2>1 DEF InOccurrence
  <2> QED
    BY <1>1, <1>2, <1>3, <2>2 DEF OrderInv
<1>4. CASE Create
  <2>0. /\ \A i \in 1 .. Len(order) : order[i] \in 1 .. Len(order)
        /\ \A i, j \in 1 .. Len(order) : order[i] = order[j] => i = j
        /\ \A b \in 1 .. Len(order) : \E i \in 1 .. Len(order) : order[i] = b
    <3>1. /\ \A i \in 1 .. Len(order) : order[i] <= Len(order)
          /\ \A i, j \in 1 .. Len(order) : order[i] = order[j] => i = j
          /\ \A b \in 1 .. Len(order) : \E i \in 1 .. Len(order) : order[i] = b
      BY <1>2, Zenon DEF OrderInv
    <3>2. \A i \in 1 .. Len(order) : order[i] \in Int /\ 1 <= order[i]
      <4>1. order \in Seq(1 .. Len(program)) /\ Len(program) \in Nat
        BY <1>2
      <4> QED
        BY <4>1
    <3>3. Len(order) \in Nat
      BY <1>2
    <3> QED
      BY <3>1, <3>2, <3>3
  <2>1. /\ phase = "add" /\ inner = 0 /\ cursor <= Len(program) /\ cursor \in Blocks
        /\ Len(order) = cursor - 1 /\ order' = Sorted(cursor)
        /\ phase' = "add" /\ inner' = 1 /\ cursor' = cursor
    BY <1>2, <1>4 DEF Create, IInv, ControlInv, OrderInv, Created
  <2> DEFINE p == UpperBound(cursor)
  <2>2. /\ p \in 1 .. Len(order) + 1
        /\ p <= Len(order) => Less(program[cursor], program[order[p]])
        /\ \A q \in 1 .. p - 1 : ~Less(program[cursor], program[order[q]])
    BY <1>2, UpperBoundExists
  <2>3. /\ order' \in Seq(Blocks) /\ Len(order') = Len(order) + 1
        /\ \A i \in 1 .. p - 1 : order'[i] = order[i]
        /\ order'[p] = cursor
        /\ \A i \in p + 1 .. Len(order) + 1 : order'[i] = order[i - 1]
    BY <1>2, <2>1, SortedElements
  <2> HIDE DEF p
  <2>4. Created' = cursor
    BY <1>1, <2>1 DEF Created
  <2> DEFINE Old(i) == IF i < p THEN i ELSE i - 1
  <2>5. \A i \in 1 .. Len(order') : i # p =>
            Old(i) \in 1 .. Len(order) /\ order'[i] = order[Old(i)]
    BY <1>2, <2>2, <2>3, SMTT(30)
  <2>a. cursor \in Nat /\ cursor = Len(order) + 1
    BY <1>2, <2>1
  <2>6. \A i \in 1 .. Len(order) : order[i] < cursor /\ order[i] \in Nat
    BY <2>0, <2>a
  <2>7. \A i \in 1 .. Len(order') : order'[i] <= Len(order')
    <3> TAKE i \in 1 .. Len(order')
    <3>1. CASE i = p
      BY <2>3, <2>a, <3>1
    <3>2. CASE i # p
      BY <2>3, <2>5, <2>6, <2>a, <3>2
    <3> QED
      BY <3>1, <3>2
  <2>8. \A i, j \in 1 .. Len(order') : order'[i] = order'[j] => i = j
    <3> SUFFICES ASSUME NEW i \in 1 .. Len(order'), NEW j \in 1 .. Len(order'),
                        order'[i] = order'[j]
                 PROVE  i = j
      OBVIOUS
    <3>0. \A k \in 1 .. Len(order') : k # p => order'[k] < cursor /\ order'[k] \in Nat
      <4> TAKE k \in 1 .. Len(order')
      <4> HAVE k # p
      <4>1. Old(k) \in 1 .. Len(order) /\ order'[k] = order[Old(k)]
        BY <2>5
      <4> HIDE DEF Old
      <4> QED
        BY <2>6, <4>1
    <3>1. CASE i = p
      <4>1. order'[i] = cursor /\ order'[j] = cursor
        BY <2>3, <3>1
      <4> QED
        BY <2>a, <3>0, <3>1, <4>1
    <3>2. CASE j = p
      <4>1. order'[i] = cursor /\ order'[j] = cursor
        BY <2>3, <3>2
      <4> QED
        BY <2>a, <3>0, <3>2, <4>1
    <3>3. CASE i # p /\ j # p
      <4>1. order[Old(i)] = order[Old(j)] /\ Old(i) \in 1 .. Len(order) /\ Old(j) \in 1 .. Len(order)
        BY <2>5, <3>3
      <4>2. Old(i) = Old(j)
        BY <2>0, <4>1
      <4>3. i \in Int /\ j \in Int /\ p \in Int
        BY <1>2, <2>2, <2>3
      <4> QED
        BY <3>3, <4>2, <4>3
    <3> QED
      BY <3>1, <3>2, <3>3
  <2>9. \A b \in 1 .. Len(order') : \E i \in 1 .. Len(order') : order'[i] = b
    <3> TAKE b \in 1 .. Len(order')
    <3>1. CASE b = cursor
      BY <1>2, <2>2, <2>3, <3>1
    <3>2. CASE b # cursor
      <4>1. PICK k \in 1 .. Len(order) : order[k] = b
        <5>1. b \in 1 .. Len(order)
          BY <1>2, <2>3, <2>a, <3>2
        <5> QED
          BY <2>0, <5>1
      <4>2. CASE k < p
        BY <1>2, <2>2, <2>3, <4>1, <4>2, SMTT(30)
      <4>3. CASE k >= p
        <5>1. k + 1 \in p + 1 .. Len(order) + 1 /\ k + 1 \in 1 .. Len(order')
          BY <1>2, <2>2, <2>3, <4>1, <4>3
        <5>2. order'[k + 1] = order[k]
          BY <2>3, <5>1
        <5> QED
          BY <4>1, <5>1, <5>2
      <4> QED
        BY <2>2, <4>1, <4>2, <4>3
    <3> QED
      BY <3>1, <3>2
  <2>10. InOccurrence'
    <3> SUFFICES ASSUME NEW i \in 1 .. Len(order'), NEW j \in 1 .. Len(order'), i < j
                 PROVE  /\ ~Less(program[order'[j]], program[order'[i]])
                        /\ Less(program[order'[i]], program[order'[j]]) \/ order'[i] < order'[j]
      BY <1>1, SMTT(60) DEF InOccurrence, Less, Placement, IsEntryPoint
    <3>1. \A k \in 1 .. Len(order) : program[order[k]] \in Sections
      BY <1>2
    <3>2. program[cursor] \in Sections
      BY <1>2, <2>1
    <3>3. \A k, l \in 1 .. Len(order) : k < l =>
            /\ ~Less(program[order[l]], program[order[k]])
            /\ Less(program[order[k]], program[order[l]]) \/ order[k] < order[l]
      BY <1>2 DEF OrderInv, InOccurrence
    <3>4. CASE i # p /\ j # p
      <4>1. Old(i) < Old(j)
        <5>1. i \in Int /\ j \in Int /\ p \in Int
          BY <1>2, <2>2, <2>3
        <5> QED
          BY <3>4, <5>1
      <4> QED
        BY <2>5, <3>3, <3>4, <4>1
    <3>5. CASE j = p
      <4>1. i \in 1 .. p - 1 /\ i \in 1 .. Len(order) /\ order'[i] = order[i] /\ order'[j] = cursor
        BY <1>2, <2>2, <2>3, <3>5
      <4>2. ~Less(program[cursor], program[order[i]]) /\ order[i] < cursor
        BY <2>2, <2>6, <4>1
      <4> QED
        BY <4>1, <4>2
    <3>6. CASE i = p
      <4>1. /\ j \in p + 1 .. Len(order) + 1 /\ j - 1 \in 1 .. Len(order) /\ p <= j - 1
            /\ p \in 1 .. Len(order)
            /\ order'[i] = cursor /\ order'[j] = order[j - 1]
        BY <1>2, <2>2, <2>3, <3>6, SMTT(30)
      <4>2. Less(program[cursor], program[order[p]])
        BY <2>2, <4>1
      <4>3. p = j - 1 \/ ~Less(program[order[j - 1]], program[order[p]])
        BY <3>3, <4>1, <2>2
      <4>4. /\ program[order[p]] \in Sections /\ program[order[j - 1]] \in Sections
        BY <3>1, <4>1
      <4>5. Less(program[cursor], program[order[j - 1]])
        BY <3>2, <4>2, <4>3, <4>4, LessOrder
      <4> QED
        BY <3>2, <4>1, <4>4, <4>5, LessOrder
    <3> QED
      BY <3>4, <3>5, <3>6
  <2> QED
    BY <1>1, <2>3, <2>4, <2>7, <2>8, <2>9, <2>10, <2>a DEF OrderInv
<1> QED
  BY <1>1, <1>3, <1>4

-------------------------------------------------------------------------------
(* The directory.                                                            *)

(* Once all is added, the entry of every group is there.                     *)
LEMMA GroupEntered ==
    ASSUME IInv, phase # "add", NEW b \in Blocks, program[b].group # NoName
    PROVE  /\ program[b].group \in DOMAIN directory \cap GroupNames
           /\ directory[program[b].group] \in GroupEntries
<1>1. Len(order) = Len(program) /\ DirectoryInv
  BY DEF IInv, OrderInv, Created
<1>2. program[b].group \in GroupNames
  BY SectionTypes DEF IInv, ControlInv
<1> QED
  BY <1>1, <1>2 DEF DirectoryInv, Blocks

LEMMA GroupEntryTypes ==
    ASSUME NEW entry \in GroupEntries
    PROVE  /\ entry.block \in Blocks \cup {NoBlock}
           /\ entry.offset \in Value /\ entry.count \in Nat
BY DEF GroupEntries

LEMMA GroupGrows ==
    ASSUME NEW entry \in GroupEntries, NEW block \in Blocks \cup {NoBlock}, NEW offset \in Value
    PROVE  LET new == [entry EXCEPT !.block = block, !.offset = offset]
           IN  new \in GroupEntries /\ new.count = entry.count
BY DEF GroupEntries

(* The elements of a stack.                                                  *)
LEMMA StackElements ==
    ASSUME NEW S, NEW s \in Seq(S), s # <<>>
    PROVE  /\ Len(s) \in Nat /\ Len(s) >= 1
           /\ Head(s) = s[1] /\ s[1] \in S
           /\ Tail(s) \in Seq(S) /\ Len(Tail(s)) = Len(s) - 1
           /\ \A i \in 1 .. Len(s) - 1 : Tail(s)[i] = s[i + 1]
OBVIOUS

LEMMA StackGrows ==
    ASSUME NEW S, NEW s \in Seq(S), NEW e \in S
    PROVE  /\ <<e>> \o s \in Seq(S) /\ Len(<<e>> \o s) = Len(s) + 1
           /\ (<<e>> \o s)[1] = e
           /\ \A i \in 2 .. Len(s) + 1 : (<<e>> \o s)[i] = s[i - 1]
OBVIOUS

(* The entries that lead to blocks never change then, nor does any entry     *)
(* become one, or cease to be one.                                           *)
KeepsEntries ==
    /\ DOMAIN directory' = DOMAIN directory
    /\ \A name \in DOMAIN directory \ GroupNames : directory'[name] = directory[name]
    /\ \A name \in DOMAIN directory \cap GroupNames : directory'[name] \in GroupEntries

LEMMA VisitEntries ==
    ASSUME IInv, phase # "add", NEW block \in Blocks, NEW callers, Visit(block, callers)
    PROVE  /\ KeepsEntries
           /\ \A name \in DOMAIN directory \cap GroupNames :
                directory'[name].count = directory[name].count
<1>1. \A name \in DOMAIN directory \cap GroupNames : directory[name] \in GroupEntries
  BY DEF IInv, DirectoryInv
<1>2. CASE directory' = directory
  BY <1>1, <1>2 DEF KeepsEntries
<1>3. CASE directory' # directory
  <2> DEFINE group == program[block].group
             old == directory[group]
             new == [old EXCEPT !.block = block, !.offset = Wrap(old.offset + program[block].bytes)]
  <2>1. /\ group # NoName
        /\ directory' = [directory EXCEPT
                            ![group].block = block,
                            ![group].offset = Wrap(@ + program[block].bytes)]
    BY <1>3 DEF Visit
  <2>2. group \in DOMAIN directory \cap GroupNames /\ old \in GroupEntries
    BY <2>1, GroupEntered
  <2>3. program[block].bytes \in Nat
    BY SectionTypes, ModulusNat DEF IInv, ControlInv, Sections
  <2>4. old.offset \in Nat /\ Wrap(old.offset + program[block].bytes) \in Value
    <3>1. old.offset \in Nat
      BY <2>2, GroupEntryTypes, ModulusNat
    <3>2. old.offset + program[block].bytes \in Nat
      BY <2>3, <3>1
    <3> QED
      BY <3>1, <3>2, WrapValue
  <2>5. new \in GroupEntries /\ new.count = old.count
    <3> HIDE DEF old
    <3> QED
      BY <2>2, <2>4, GroupGrows
  <2>6. directory' = [directory EXCEPT ![group] = new]
    BY <2>1, <2>2 DEF GroupEntries
  <2> HIDE DEF new, old, group
  <2> QED
    BY <1>1, <2>2, <2>5, <2>6 DEF KeepsEntries, old
<1> QED
  BY <1>2, <1>3

LEMMA ArrangeEntries ==
    ASSUME IInv, Arrange
    PROVE  /\ KeepsEntries
           /\ \A name \in DOMAIN directory \cap GroupNames :
                directory'[name].count \in {directory[name].count, directory[name].count + 1}
<1>1. \A name \in DOMAIN directory \cap GroupNames : directory[name] \in GroupEntries
  BY DEF IInv, DirectoryInv
<1>2. CASE directory' = directory
  BY <1>1, <1>2 DEF KeepsEntries
<1>3. CASE directory' # directory
  <2> DEFINE block == order[cursor]
             group == program[block].group
             old == directory[group]
             new == [old EXCEPT !.count = old.count + 1,
                                !.block = IF address'[old.block] = 0 THEN block ELSE old.block]
  <2>1. /\ phase = "arrange" /\ cursor \in 1 .. Len(order) /\ block \in Blocks
        /\ group # NoName
        /\ directory' = [directory EXCEPT
                            ![group].count = @ + 1,
                            ![group].block = IF address'[@] = 0 THEN block ELSE @]
    <3>1. /\ phase = "arrange" /\ cursor <= Len(order)
          /\ \/ directory' = directory
             \/ /\ program[order[cursor]].group # NoName
                /\ directory' = [directory EXCEPT
                        ![program[order[cursor]].group].count = @ + 1,
                        ![program[order[cursor]].group].block =
                            IF address'[@] = 0 THEN order[cursor] ELSE @]
      BY Zenon DEF Arrange
    <3>2. cursor \in 1 .. Len(order)
      BY <3>1, SectionTypes DEF IInv, ControlInv, OrderInv
    <3>3. order[cursor] \in Blocks
      BY <3>2 DEF IInv, OrderInv
    <3> QED
      BY <1>3, <3>1, <3>2, <3>3
  <2>2. group \in DOMAIN directory \cap GroupNames /\ old \in GroupEntries
    BY <2>1, GroupEntered
  <2>3. new \in GroupEntries /\ new.count = old.count + 1
    <3>1. old.block \in Blocks \cup {NoBlock} /\ old.count + 1 \in Nat
      <4> HIDE DEF old
      <4>1. old.block \in Blocks \cup {NoBlock} /\ old.count \in Nat
        BY <2>2, GroupEntryTypes
      <4> QED
        BY <4>1
    <3>2. PICK first \in Blocks \cup {NoBlock} :
            first = IF address'[old.block] = 0 THEN block ELSE old.block
      BY <2>1, <3>1
    <3>3. PICK count \in Nat : count = old.count + 1
      BY <3>1
    <3> HIDE DEF old
    <3>4. new = [old EXCEPT !.count = count, !.block = first]
      BY <3>2, <3>3
    <3>5. LET grown == [old EXCEPT !.count = count, !.block = first]
          IN  grown \in GroupEntries /\ grown.count = count
      <4> HIDE DEF block, new, group
      <4>1. old \in GroupEntries
        BY <2>2
      <4> QED
        BY <4>1 DEF GroupEntries
    <3> HIDE DEF new
    <3> QED
      BY <3>3, <3>4, <3>5, Zenon
  <2>4. directory' = [directory EXCEPT ![group] = new]
    BY <2>1, <2>2 DEF GroupEntries
  <2> HIDE DEF new, old, group
  <2> QED
    BY <1>1, <2>2, <2>3, <2>4 DEF KeepsEntries, old
<1> QED
  BY <1>2, <1>3

(* An entry leads to a group, or to a block that was not replaced.           *)
LEMMA EntryKinds ==
    ASSUME IInv, NEW name \in DOMAIN directory
    PROVE  /\ name \in GroupNames <=> directory[name].isGroup
           /\ directory[name].isGroup \in BOOLEAN
           /\ name \notin GroupNames =>
                /\ directory[name].block \in 1 .. Len(order) \ replaced
                /\ directory[name].block \in Blocks
                /\ name \in NameSet(program[directory[name].block])
<1>1. DirectoryInv /\ OrderInv /\ ControlInv
  BY DEF IInv
<1>2. CASE name \in GroupNames
  BY <1>1, <1>2 DEF DirectoryInv, GroupEntries
<1>3. CASE name \notin GroupNames
  <2>0. PICK b \in 1 .. Len(order) \ replaced : \E i \in 1 .. Len(Names(program[b])) :
            Names(program[b])[i].name = name /\ IsEntry(b, i)
    BY <1>1, <1>3 DEF DirectoryInv
  <2>1. PICK i \in 1 .. Len(Names(program[b])) :
            Names(program[b])[i].name = name /\ IsEntry(b, i)
    BY <2>0
  <2>2. directory[name].isGroup = FALSE /\ directory[name].block = b
    BY <2>1 DEF IsEntry, BlockEntry
  <2>3. b \in Blocks
    <3>1. /\ Len(order) <= Len(program) /\ Len(program) \in Nat /\ Len(order) \in Nat
      BY <1>1, SectionTypes DEF OrderInv, Created, ControlInv
    <3> QED
      BY <3>1 DEF Blocks
  <2>4. name \in NameSet(program[b])
    BY <2>1 DEF NameSet
  <2> QED
    BY <1>3, <2>1, <2>2, <2>3, <2>4
<1> QED
  BY <1>2, <1>3

(* What a step of the recursion does: it visits a block of the list that is  *)
(* used, or the block that a link leads to, or nothing.                      *)
LEMMA ReferVisits ==
    ASSUME IInv, Refer
    PROVE  /\ phase = "reference" /\ stack = <<>>
           /\ cursor \in 1 .. Len(order) /\ cursor' = cursor + 1 /\ phase' = phase
           /\ order[cursor] \in Blocks
           /\ \/ order[cursor] \in used /\ Visit(order[cursor], <<>>)
              \/ /\ order[cursor] \notin used
                 /\ UNCHANGED <<directory, used, referenced, stack>>
<1>1. cursor \in 1 .. Len(order)
  BY SectionTypes DEF Refer, IInv, ControlInv, OrderInv
<1>2. order[cursor] \in Blocks
  BY <1>1 DEF IInv, OrderInv
<1> QED
  BY <1>1, <1>2, Zenon DEF Refer, IsReferable

LEMMA ResolveVisits ==
    ASSUME IInv, Resolve
    PROVE  LET top == Head(stack)
               link == program[top.block].links[top.link]
               callers == <<Advanced>> \o Tail(stack)
           IN  /\ phase = "reference" /\ stack # <<>> /\ UNCHANGED <<phase, cursor>>
               /\ top.block \in referenced /\ top.block \in Blocks
               /\ top.link \in 1 .. Len(program[top.block].links)
               /\ \/ /\ Target(link) \in DOMAIN directory \ GroupNames
                     /\ directory[Target(link)].block \in Blocks \ replaced
                     /\ Visit(directory[Target(link)].block, callers)
                  \/ /\ Target(link) \notin DOMAIN directory \ GroupNames
                     /\ UNCHANGED <<directory, used, referenced>>
                     /\ stack' = callers
<1> DEFINE top == Head(stack)
           link == program[top.block].links[top.link]
           callers == <<Advanced>> \o Tail(stack)
<1>1. stack # <<>> /\ phase = "reference" /\ UNCHANGED <<phase, cursor>>
  BY Zenon DEF Resolve, IInv, StackInv, control
<1>2. /\ top \in [block : referenced, link : Nat]
      /\ top.link <= Len(program[top.block].links) + 1 /\ 1 <= top.link
  <2>1. stack \in Seq([block : referenced, link : Nat])
    BY <1>1 DEF IInv, StackInv
  <2>2. top = stack[1] /\ 1 \in 1 .. Len(stack)
    BY <1>1, <2>1, StackElements
  <2>3. stack[1].link \in 1 .. Len(program[stack[1].block].links) + 1
    BY <2>2 DEF IInv, StackInv
  <2>4. stack[1] \in [block : referenced, link : Nat]
    BY <1>1, <2>1, StackElements
  <2> HIDE DEF top
  <2>5. /\ top \in [block : referenced, link : Nat]
        /\ top.link \in 1 .. Len(program[top.block].links) + 1
    BY <2>2, <2>3, <2>4
  <2> QED
    BY <2>5
<1>3. top.block \in referenced /\ top.link \in Nat /\ top.block \in Blocks
  BY <1>2 DEF IInv, FlagsInv
<1>4. /\ top.link <= Len(program[top.block].links)
      /\ IF Target(link) \in DOMAIN directory /\ ~directory[Target(link)].isGroup
         THEN Visit(directory[Target(link)].block, callers)
         ELSE stack' = callers /\ UNCHANGED <<directory, used, referenced>>
  BY Zenon DEF Resolve
<1>5. top.link \in 1 .. Len(program[top.block].links)
  <2>1. program[top.block].links \in Seq(Links)
    BY <1>3, SectionTypes DEF IInv, ControlInv, Sections
  <2>2. Len(program[top.block].links) \in Nat
    BY <2>1
  <2> QED
    BY <1>2, <1>3, <1>4, <2>2, SMTT(30)
<1> HIDE DEF link, callers
<1>6. CASE Target(link) \in DOMAIN directory \ GroupNames
  BY <1>1, <1>3, <1>4, <1>5, <1>6, EntryKinds DEF link, callers
<1>7. CASE Target(link) \notin DOMAIN directory \ GroupNames
  BY <1>1, <1>3, <1>4, <1>5, <1>7, EntryKinds DEF link, callers
<1> QED
  BY <1>6, <1>7

LEMMA EntriesKept ==
    ASSUME IInv, Next, phase # "add"
    PROVE  KeepsEntries
<1>1. CASE directory' = directory
  <2>1. \A name \in DOMAIN directory \cap GroupNames : directory[name] \in GroupEntries
    BY DEF IInv, DirectoryInv
  <2> QED
    BY <1>1, <2>1 DEF KeepsEntries
<1>2. CASE Refer \/ Resolve
  <2>1. CASE UNCHANGED directory
    BY <1>1, <2>1
  <2>2. CASE \E block \in Blocks : \E callers : Visit(block, callers)
    BY <2>2, VisitEntries
  <2>3. CASE Refer
    BY <2>1, <2>2, <2>3, ReferVisits
  <2>4. CASE Resolve
    BY <2>1, <2>2, <2>4, ResolveVisits
  <2> QED
    BY <1>2, <2>3, <2>4
<1>3. CASE Arrange
  BY <1>3, ArrangeEntries
<1>4. CASE ~(Refer \/ Resolve \/ Arrange)
  BY <1>1, <1>4 DEF Next, Create, Enter, Join, Start, Return, EndReference, Pass,
                    EndArrange, Copy, Patch, EndLink
<1> QED
  BY <1>2, <1>3, <1>4

(* The actions of the phases.                                                *)
LEMMA Phases ==
    ASSUME IInv, Next
    PROVE  /\ phase = "add" => Create \/ Enter \/ Join \/ Start
           /\ phase # "add" =>
                /\ phase \in {"reference", "arrange", "link"}
                /\ phase' # "add" /\ replaced' = replaced /\ order' = order
<1>1. stack # <<>> => phase = "reference"
  BY DEF IInv, StackInv
<1>2. ASSUME phase = "add"
      PROVE  Create \/ Enter \/ Join \/ Start
  BY <1>1, <1>2 DEF Next, Refer, Resolve, Return, EndReference, Pass, Arrange, EndArrange, Copy,
                    Patch, EndLink
<1>3. ASSUME phase # "add"
      PROVE  /\ phase \in {"reference", "arrange", "link"}
             /\ phase' # "add" /\ replaced' = replaced /\ order' = order
  <2>1. CASE Refer \/ Resolve \/ Return \/ EndReference
    BY <1>1, <2>1 DEF Refer, Resolve, Return, EndReference, control, flags
  <2>2. CASE Pass \/ Arrange \/ EndArrange
    BY <2>2 DEF Pass, Arrange, EndArrange, control, flags
  <2>3. CASE Copy \/ Patch \/ EndLink
    BY <2>3 DEF Copy, Patch, EndLink, control, flags
  <2>4. ~(Create \/ Enter \/ Join \/ Start)
    BY <1>3 DEF Create, Enter, Join, Start
  <2> QED
    BY <2>1, <2>2, <2>3, <2>4 DEF Next
<1> QED
  BY <1>2, <1>3

(* The block that is being added is the last one created.                    *)
LEMMA CurrentBlock ==
    ASSUME IInv, phase = "add", inner # 0
    PROVE  /\ cursor \in Blocks /\ cursor \in Nat /\ Len(order) = cursor
           /\ cursor \in 1 .. Len(order)
           /\ 1 .. Len(order) \subseteq Blocks
<1>1. /\ Len(order) = cursor /\ cursor \in 1 .. Len(program) + 1 /\ cursor <= Len(program)
      /\ Len(program) \in Nat
  BY SectionTypes DEF IInv, ControlInv, OrderInv, Created
<1> QED
  BY <1>1 DEF Blocks

CurrentName == Names(program[cursor])[inner].name

Extends ==
    /\ CurrentName \notin DOMAIN directory
    /\ DOMAIN directory' = DOMAIN directory \cup {CurrentName}
    /\ directory'[CurrentName] = Entered
    /\ \A n \in DOMAIN directory : directory'[n] = directory[n]
    /\ UNCHANGED replaced

Withdraws ==
    /\ CurrentName \in DOMAIN directory \ GroupNames
    /\ directory[CurrentName].block \in Blocks \ {cursor}
    /\ DOMAIN directory' = DOMAIN directory \ (NameSet(program[cursor]) \ {CurrentName})
    /\ \A n \in DOMAIN directory' : directory'[n] = directory[n]
    /\ replaced' = replaced \cup {cursor}
    /\ LET rival == program[directory[CurrentName].block]
       IN  \/ program[cursor].replaceable /\ ~rival.replaceable
           \/ program[cursor].duplicable /\ program[cursor] = rival

Displaces ==
    /\ CurrentName \in DOMAIN directory \ GroupNames
    /\ LET other == directory[CurrentName].block
       IN  /\ other \in Blocks \ {cursor} /\ other \in 1 .. Len(order) \ replaced
           /\ DOMAIN directory' =
                (DOMAIN directory \ NameSet(program[other])) \cup {CurrentName}
           /\ directory'[CurrentName] = Entered
           /\ \A n \in DOMAIN directory' \ {CurrentName} : directory'[n] = directory[n]
           /\ replaced' = replaced \cup {other}
           /\ program[other].replaceable /\ ~program[cursor].replaceable

(* A name that is entered extends the directory, or one of two blocks of     *)
(* this name gives way, or there is an error.                                *)
LEMMA EnterCases ==
    ASSUME IInv, Enter
    PROVE  /\ phase = "add" /\ phase' = "add" /\ inner # 0 /\ cursor \notin replaced
           /\ inner \in 1 .. Len(Names(program[cursor]))
           /\ CurrentName \in NameSet(program[cursor]) \ GroupNames
           /\ order' = order /\ UNCHANGED <<program, used, referenced, stack>>
           /\ \/ /\ errors' = TRUE /\ cursor' = cursor + 1 /\ inner' = 0
                 /\ UNCHANGED <<directory, replaced>>
              \/ /\ UNCHANGED <<errors, cursor>> /\ inner' = inner + 1
                 /\ Extends \/ Withdraws \/ Displaces
<1> DEFINE other == directory[CurrentName].block
<1>1. /\ phase = "add" /\ phase' = "add" /\ inner # 0 /\ cursor \notin replaced
      /\ inner <= Len(Names(program[cursor]))
      /\ order' = order /\ UNCHANGED <<program, used, referenced, stack>>
  BY Zenon DEF Enter
<1>2. cursor \in Blocks /\ cursor \in 1 .. Len(order)
  BY <1>1, CurrentBlock
<1>3. inner \in 1 .. Len(Names(program[cursor]))
  <2>1. inner \in Nat
    BY DEF IInv, ControlInv
  <2>2. program \in Programs
    BY DEF IInv, ControlInv
  <2>3. Len(Names(program[cursor])) \in Nat
    BY <1>2, <2>2, NamesTypes
  <2> QED
    BY <1>1, <2>1, <2>3
<1>4. CurrentName \in NameSet(program[cursor]) \ GroupNames
  <2>1. program \in Programs
    BY DEF IInv, ControlInv
  <2>2. CurrentName \notin GroupNames
    BY <1>2, <1>3, <2>1, NamesTypes DEF CurrentName
  <2> QED
    BY <1>3, <2>2 DEF NameSet, CurrentName
<1>5. \/ /\ errors' = TRUE /\ cursor' = cursor + 1 /\ inner' = 0
         /\ UNCHANGED <<directory, replaced>>
      \/ /\ UNCHANGED <<errors, cursor>> /\ inner' = inner + 1
         /\ CurrentName \notin DOMAIN directory
         /\ directory' = With(directory, CurrentName, Entered)
         /\ UNCHANGED replaced
      \/ /\ UNCHANGED <<errors, cursor>> /\ inner' = inner + 1
         /\ CurrentName \in DOMAIN directory
         /\ program[cursor].replaceable # program[other].replaceable
         /\ Replace(Replaceable(program[cursor], other), CurrentName)
      \/ /\ UNCHANGED <<errors, cursor>> /\ inner' = inner + 1
         /\ CurrentName \in DOMAIN directory
         /\ program[cursor].duplicable \/ program[other].duplicable
         /\ program[cursor] = program[other]
         /\ other # cursor
         /\ Replace(cursor, CurrentName)
  BY Zenon DEF Enter, AddError, CurrentName
<1>6. ASSUME CurrentName \notin DOMAIN directory,
             directory' = With(directory, CurrentName, Entered), UNCHANGED replaced
      PROVE  Extends
  BY <1>6 DEF Extends, With
<1>7. ASSUME CurrentName \in DOMAIN directory
      PROVE  /\ CurrentName \in DOMAIN directory \ GroupNames
             /\ other \in Blocks /\ other \in 1 .. Len(order) \ replaced
             /\ CurrentName \in NameSet(program[other])
  BY <1>4, <1>7, EntryKinds
<1>8. ASSUME CurrentName \in DOMAIN directory, other # cursor, Replace(cursor, CurrentName),
             \/ program[cursor].replaceable /\ ~program[other].replaceable
             \/ program[cursor].duplicable /\ program[cursor] = program[other]
      PROVE  Withdraws
  <2>1. /\ replaced' = replaced \cup {cursor}
        /\ directory' = Without(directory, ErasedNames(cursor, CurrentName))
    BY <1>8 DEF Replace
  <2> QED
    BY <1>7, <1>8, <2>1 DEF Withdraws, Without, ErasedNames
<1>9. ASSUME CurrentName \in DOMAIN directory, other # cursor, Replace(other, CurrentName),
             program[other].replaceable, ~program[cursor].replaceable
      PROVE  Displaces
  <2>1. /\ replaced' = replaced \cup {other}
        /\ directory' = With(Without(directory, ErasedNames(other, CurrentName)),
                             CurrentName, Entered)
    BY <1>9 DEF Replace, Redirected
  <2>2. DOMAIN directory' = (DOMAIN directory \ ErasedNames(other, CurrentName)) \cup {CurrentName}
    BY <2>1 DEF With, Without
  <2>3. directory'[CurrentName] = Entered
    BY <2>1 DEF With, Without
  <2>4. \A n \in DOMAIN directory' \ {CurrentName} : directory'[n] = directory[n]
    BY <2>1, <2>2 DEF With, Without
  <2>5. DOMAIN directory' = (DOMAIN directory \ NameSet(program[other])) \cup {CurrentName}
    BY <2>2 DEF ErasedNames
  <2> QED
    BY <1>7, <1>9, <2>1, <2>3, <2>4, <2>5 DEF Displaces
<1>10. ASSUME CurrentName \in DOMAIN directory,
              program[cursor].replaceable # program[other].replaceable,
              Replace(Replaceable(program[cursor], other), CurrentName)
       PROVE  Withdraws \/ Displaces
  <2>1. program[cursor] \in Sections /\ program[other] \in Sections
    BY <1>2, <1>7, <1>10, SectionTypes DEF IInv, ControlInv
  <2>2. program[cursor].replaceable \in BOOLEAN /\ program[other].replaceable \in BOOLEAN
    BY <2>1 DEF Sections
  <2>3. other # cursor
    BY <1>10
  <2>4. CASE program[cursor].replaceable
    BY <1>8, <1>10, <2>2, <2>3, <2>4 DEF Replaceable
  <2>5. CASE ~program[cursor].replaceable
    BY <1>9, <1>10, <2>2, <2>3, <2>5 DEF Replaceable
  <2> QED
    BY <2>4, <2>5
<1>11. ASSUME CurrentName \in DOMAIN directory,
              program[cursor].duplicable \/ program[other].duplicable,
              program[cursor] = program[other], other # cursor,
              Replace(cursor, CurrentName)
       PROVE  Withdraws
  BY <1>8, <1>11
<1> QED
  BY <1>1, <1>3, <1>4, <1>5, <1>6, <1>10, <1>11, Zenon

LEMMA FramedNames ==
    ASSUME program' = program, NEW b
    PROVE  Names(program[b])' = Names(program[b]) /\ NameSet(program[b])' = NameSet(program[b])
<1>1. Names(program[b])' = Names(program[b])
  BY DEF Names
<1> QED
  BY <1>1 DEF NameSet

(* What an entry of a block depends on.                                      *)
LEMMA FramedEntry ==
    ASSUME program' = program, NEW b, NEW i, IsEntry(b, i),
           LET name == Names(program[b])[i].name
           IN  name \in DOMAIN directory' /\ directory'[name] = directory[name]
    PROVE  IsEntry(b, i)'
BY FramedNames DEF IsEntry, BlockEntry

LEMMA KeptEntry ==
    ASSUME IInv, KeepsEntries, program' = program, NEW b \in Blocks,
           NEW i \in 1 .. Len(Names(program[b])), IsEntry(b, i)
    PROVE  IsEntry(b, i)'
<1>1. Names(program[b])[i].name \in DOMAIN directory \ GroupNames
  BY NamesTypes DEF IInv, ControlInv, IsEntry
<1> QED
  BY <1>1, FramedEntry DEF KeepsEntries

(* What is left of the directory, when names are entered, is what it was.    *)
LEMMA DirectoryEntered ==
    ASSUME IInv, Enter
    PROVE  /\ \A n \in DOMAIN directory' :
                \/ n = CurrentName /\ directory'[n] = Entered /\ cursor \notin replaced'
                \/ n \in DOMAIN directory /\ directory'[n] = directory[n]
           /\ DOMAIN directory \cap GroupNames = DOMAIN directory' \cap GroupNames
           /\ CurrentName \notin GroupNames
<1>1. /\ CurrentName \notin GroupNames /\ cursor \notin replaced
      /\ \/ UNCHANGED <<directory, replaced>>
         \/ Extends \/ Withdraws \/ Displaces
  BY EnterCases, Zenon
<1>2. \A b \in Blocks : NameSet(program[b]) \cap GroupNames = {}
  BY NamesTypes DEF NameSet, IInv, ControlInv
<1>3. CASE UNCHANGED <<directory, replaced>>
  BY <1>1, <1>3
<1>4. CASE Extends
  BY <1>1, <1>4 DEF Extends
<1>5. CASE Withdraws
  <2>1. cursor \in Blocks
    BY EnterCases, CurrentBlock
  <2> QED
    BY <1>1, <1>2, <1>5, <2>1 DEF Withdraws
<1>6. CASE Displaces
  BY <1>1, <1>2, <1>6 DEF Displaces
<1> QED
  BY <1>1, <1>3, <1>4, <1>5, <1>6

(* A block that was just replaced has no entry left.                         *)
LEMMA EntryNotReplaced ==
    ASSUME IInv, Enter, NEW b \in 1 .. Len(order) \ replaced,
           NEW i \in 1 .. Len(Names(program[b])), IsEntry(b, i),
           LET n == Names(program[b])[i].name
           IN  n \in DOMAIN directory' /\ directory'[n] = directory[n]
                /\ (n = CurrentName => directory'[n] # Entered)
    PROVE  b \notin replaced'
<1> DEFINE n == Names(program[b])[i].name
<1>1. /\ n \in NameSet(program[b])
      /\ n \in DOMAIN directory /\ directory[n].block = b
  BY DEF NameSet, IsEntry, BlockEntry
<1>2. CASE Extends \/ UNCHANGED <<directory, replaced>>
  BY <1>2 DEF Extends
<1>3. CASE Withdraws
  <2>1. replaced' = replaced \cup {cursor}
    BY <1>3 DEF Withdraws
  <2>2. ASSUME b = cursor PROVE FALSE
    <3>1. n = CurrentName
      BY <1>1, <1>3, <2>2 DEF Withdraws
    <3>2. directory[n].block # cursor
      BY <1>3, <3>1 DEF Withdraws
    <3> QED
      BY <1>1, <2>2, <3>2
  <2> QED
    BY <2>1, <2>2
<1>4. CASE Displaces
  BY <1>1, <1>4 DEF Displaces
<1> QED
  BY <1>2, <1>3, <1>4, EnterCases, Zenon

LEMMA DirectoryStep ==
    ASSUME IInv, Next
    PROVE  DirectoryInv'
<1>1. /\ program' = program /\ Blocks' = Blocks /\ GroupNames' = GroupNames
      /\ Create \/ order' = order
  BY Framed
<1>2. GroupEntries' = GroupEntries
  BY <1>1 DEF GroupEntries, Value
<1>3. /\ DirectoryInv /\ OrderInv /\ program \in Programs
      /\ Len(order) \in Nat /\ Len(program) \in Nat
  BY SectionTypes DEF IInv, ControlInv, OrderInv
<1>4. \A b : Names(program[b])' = Names(program[b])
  BY <1>1, FramedNames
<1>5. SUFFICES
        /\ \A name \in DOMAIN directory' \cap GroupNames : directory'[name] \in GroupEntries
        /\ \A name \in DOMAIN directory' \ GroupNames :
             \E b \in 1 .. Len(order') \ replaced' : \E i \in 1 .. Len(Names(program[b])) :
                Names(program[b])[i].name = name /\ IsEntry(b, i)'
        /\ \A b \in 1 .. Len(order') :
             program[b].group # NoName => program[b].group \in DOMAIN directory'
  BY <1>1, <1>2, <1>4 DEF DirectoryInv
<1>6. CASE Create
  <2>1. /\ Len(order) = cursor - 1 /\ cursor \in Blocks /\ cursor \in Nat
        /\ replaced' = replaced
    BY <1>3, <1>6 DEF Create, OrderInv, Created, Blocks, IInv, ControlInv, flags
  <2>2. Len(order') = Len(order) + 1
    BY <1>3, <1>6, <2>1, SortedElements DEF Create, OrderInv
  <2> DEFINE group == program[cursor].group
  <2>3. \/ group = NoName /\ directory' = directory
        \/ group \in DOMAIN directory /\ directory' = directory
        \/ /\ group # NoName /\ group \notin DOMAIN directory
           /\ directory' = With(directory, group, GroupEntry)
    BY <1>6 DEF Create
  <2>4. group # NoName => group \in GroupNames
    BY <2>1 DEF GroupNames
  <2>5. GroupEntry \in GroupEntries
    BY ModulusNat DEF GroupEntry, GroupEntries
  <2>6. /\ \A name \in DOMAIN directory : name \in DOMAIN directory' /\ directory'[name] = directory[name]
        /\ \A name \in DOMAIN directory' \ DOMAIN directory :
                name = group /\ name \in GroupNames /\ directory'[name] = GroupEntry
        /\ group # NoName => group \in DOMAIN directory'
    BY <2>3, <2>4 DEF With
  <2>7. \A name \in DOMAIN directory' \cap GroupNames : directory'[name] \in GroupEntries
    BY <1>3, <2>5, <2>6 DEF DirectoryInv
  <2>8. ASSUME NEW name \in DOMAIN directory' \ GroupNames
        PROVE  \E b \in 1 .. Len(order') \ replaced' : \E i \in 1 .. Len(Names(program[b])) :
                Names(program[b])[i].name = name /\ IsEntry(b, i)'
    <3>1. name \in DOMAIN directory
      BY <2>6
    <3>2. PICK b \in 1 .. Len(order) \ replaced : \E i \in 1 .. Len(Names(program[b])) :
                Names(program[b])[i].name = name /\ IsEntry(b, i)
      BY <1>3, <3>1 DEF DirectoryInv
    <3>3. PICK i \in 1 .. Len(Names(program[b])) :
                Names(program[b])[i].name = name /\ IsEntry(b, i)
      BY <3>2
    <3>4. IsEntry(b, i)'
      BY <1>1, <2>6, <3>1, <3>3, FramedEntry
    <3>5. b \in 1 .. Len(order') \ replaced'
      BY <1>3, <2>1, <2>2
    <3> QED
      BY <3>3, <3>4, <3>5
  <2>9. ASSUME NEW b \in 1 .. Len(order'), program[b].group # NoName
        PROVE  program[b].group \in DOMAIN directory'
    <3>1. b \in 1 .. Len(order) \/ b = cursor
      BY <1>3, <2>1, <2>2
    <3> QED
      BY <1>3, <2>6, <2>9, <3>1 DEF DirectoryInv
  <2> QED
    BY <2>7, <2>8, <2>9
<1>7. CASE Enter
  <2>1. /\ order' = order /\ cursor \in 1 .. Len(order) /\ CurrentName \notin GroupNames
        /\ inner \in 1 .. Len(Names(program[cursor]))
    BY <1>7, EnterCases, CurrentBlock
  <2>2. /\ \A n \in DOMAIN directory' :
             \/ n = CurrentName /\ directory'[n] = Entered /\ cursor \notin replaced'
             \/ n \in DOMAIN directory /\ directory'[n] = directory[n]
        /\ DOMAIN directory \cap GroupNames = DOMAIN directory' \cap GroupNames
    BY <1>7, DirectoryEntered
  <2>3. \A name \in DOMAIN directory' \cap GroupNames : directory'[name] \in GroupEntries
    BY <1>3, <2>1, <2>2 DEF DirectoryInv
  <2>4. ASSUME NEW name \in DOMAIN directory' \ GroupNames
        PROVE  \E b \in 1 .. Len(order') \ replaced' : \E i \in 1 .. Len(Names(program[b])) :
                Names(program[b])[i].name = name /\ IsEntry(b, i)'
    <3>1. CASE name = CurrentName /\ directory'[name] = Entered /\ cursor \notin replaced'
      <4>1. PICK b \in 1 .. Len(order) : b = cursor
        BY <2>1
      <4>2. PICK i \in 1 .. Len(Names(program[b])) : i = inner
        BY <2>1, <4>1
      <4>3. IsEntry(b, i)' /\ Names(program[b])[i].name = name
        BY <1>1, <1>4, <3>1, <4>1, <4>2 DEF IsEntry, BlockEntry, Entered, CurrentName
      <4> QED
        BY <2>1, <3>1, <4>1, <4>3
    <3>2. CASE /\ name \in DOMAIN directory /\ directory'[name] = directory[name]
               /\ (name = CurrentName => directory'[name] # Entered)
      <4>1. PICK b \in 1 .. Len(order) \ replaced : \E i \in 1 .. Len(Names(program[b])) :
                Names(program[b])[i].name = name /\ IsEntry(b, i)
        BY <1>3, <3>2 DEF DirectoryInv
      <4>2. PICK i \in 1 .. Len(Names(program[b])) :
                Names(program[b])[i].name = name /\ IsEntry(b, i)
        BY <4>1
      <4>3. IsEntry(b, i)'
        BY <1>1, <3>2, <4>2, FramedEntry
      <4>4. b \notin replaced'
        BY <1>7, <3>2, <4>2, EntryNotReplaced
      <4> QED
        BY <2>1, <4>2, <4>3, <4>4
    <3>3. CASE name = CurrentName /\ directory'[name] = Entered /\ cursor \in replaced'
      <4>1. Withdraws
        <5>1. cursor \notin replaced
          BY <1>7, EnterCases
        <5> QED
          BY <1>7, <3>3, <5>1, EnterCases DEF Extends, Displaces
      <4>2. directory'[name].block = directory[name].block /\ directory[name].block # cursor
        BY <3>3, <4>1 DEF Withdraws
      <4> QED
        BY <3>3, <4>2 DEF Entered, BlockEntry
    <3> QED
      BY <2>2, <3>1, <3>2, <3>3
  <2>5. ASSUME NEW b \in 1 .. Len(order'), program[b].group # NoName
        PROVE  program[b].group \in DOMAIN directory'
    <3>1. program[b].group \in DOMAIN directory /\ program[b].group \in GroupNames
      <4>1. b \in Blocks
        BY <1>7, <2>1, EnterCases, CurrentBlock
      <4> QED
        BY <1>3, <2>1, <2>5, <4>1 DEF DirectoryInv, GroupNames
    <3> QED
      BY <2>2, <3>1
  <2> QED
    BY <2>3, <2>4, <2>5
<1>8. CASE Join
  <2> DEFINE group == program[cursor].group
  <2>1. /\ order' = order /\ replaced' = replaced /\ phase = "add" /\ inner # 0
        /\ \/ directory' = directory
           \/ group # NoName /\ directory' = [directory EXCEPT ![group].block = cursor]
    BY <1>8, Zenon DEF Join, AddError
  <2>2. cursor \in Blocks /\ cursor \in 1 .. Len(order)
    BY <2>1, CurrentBlock
  <2>3. group # NoName => group \in DOMAIN directory \cap GroupNames
    BY <1>3, <2>2 DEF DirectoryInv, GroupNames
  <2>4. /\ DOMAIN directory' = DOMAIN directory
        /\ \A name \in DOMAIN directory \ GroupNames : directory'[name] = directory[name]
    BY <2>1, <2>3
  <2>5. \A name \in DOMAIN directory \cap GroupNames : directory'[name] \in GroupEntries
    <3>1. CASE directory' = directory
      BY <1>3, <3>1 DEF DirectoryInv
    <3>2. CASE group # NoName /\ directory' = [directory EXCEPT ![group].block = cursor]
      <4>1. directory[group] \in GroupEntries
        BY <1>3, <2>3, <3>2 DEF DirectoryInv
      <4>2. [directory[group] EXCEPT !.block = cursor] \in GroupEntries
        BY <2>2, <4>1 DEF GroupEntries
      <4> QED
        BY <1>3, <3>2, <4>2 DEF DirectoryInv
    <3> QED
      BY <2>1, <3>1, <3>2
  <2>6. KeepsEntries
    BY <2>4, <2>5 DEF KeepsEntries
  <2> QED
    <3>1. ASSUME NEW name \in DOMAIN directory' \ GroupNames
          PROVE  \E b \in 1 .. Len(order') \ replaced' : \E i \in 1 .. Len(Names(program[b])) :
                Names(program[b])[i].name = name /\ IsEntry(b, i)'
      <4>1. PICK b \in 1 .. Len(order) \ replaced : \E i \in 1 .. Len(Names(program[b])) :
                Names(program[b])[i].name = name /\ IsEntry(b, i)
        BY <1>3, <2>4 DEF DirectoryInv
      <4>2. PICK i \in 1 .. Len(Names(program[b])) :
                Names(program[b])[i].name = name /\ IsEntry(b, i)
        BY <4>1
      <4>3. b \in Blocks
        BY <2>1, CurrentBlock
      <4>4. IsEntry(b, i)'
        BY <1>1, <2>6, <4>2, <4>3, KeptEntry
      <4> QED
        BY <2>1, <4>2, <4>4
    <3> QED
      BY <1>3, <2>1, <2>4, <2>5, <3>1 DEF DirectoryInv
<1>9. CASE Start
  <2>1. order' = order /\ replaced' = replaced /\ directory' = directory
    BY <1>9 DEF Start
  <2>2. \A b, i : IsEntry(b, i) => IsEntry(b, i)'
    BY <1>1, <1>4, <2>1 DEF IsEntry, BlockEntry
  <2> QED
    BY <1>3, <2>1, <2>2 DEF DirectoryInv
<1>10. CASE phase # "add"
  <2>1. KeepsEntries /\ replaced' = replaced /\ order' = order
    BY <1>10, EntriesKept, Phases
  <2>2. 1 .. Len(order) \subseteq Blocks
    BY <1>3, <1>10 DEF OrderInv, Created, Blocks
  <2>3. ASSUME NEW name \in DOMAIN directory' \ GroupNames
        PROVE  \E b \in 1 .. Len(order') \ replaced' : \E i \in 1 .. Len(Names(program[b])) :
              Names(program[b])[i].name = name /\ IsEntry(b, i)'
    <3>1. PICK b \in 1 .. Len(order) \ replaced : \E i \in 1 .. Len(Names(program[b])) :
              Names(program[b])[i].name = name /\ IsEntry(b, i)
      BY <1>3, <2>1 DEF DirectoryInv, KeepsEntries
    <3>2. PICK i \in 1 .. Len(Names(program[b])) :
              Names(program[b])[i].name = name /\ IsEntry(b, i)
      BY <3>1
    <3>3. IsEntry(b, i)'
      BY <1>1, <2>1, <2>2, <3>2, KeptEntry
    <3> QED
      BY <2>1, <3>2, <3>3
  <2> QED
    BY <1>3, <2>1, <2>3 DEF DirectoryInv, KeepsEntries
<1> QED
  BY <1>6, <1>7, <1>8, <1>9, <1>10, Phases

-------------------------------------------------------------------------------
(* The names of the blocks, and the blocks that give way.                    *)

LEMMA OneName ==
    ASSUME program \in Programs, NEW b \in Blocks, program[b].aliases = <<>>,
           NEW n \in NameSet(program[b]), NEW m \in NameSet(program[b])
    PROVE  n = m
<1>1. Len(Names(program[b])) = Len(program[b].aliases) + 1
  BY NamesTypes
<1>2. Len(program[b].aliases) = 0
  OBVIOUS
<1>3. Len(Names(program[b])) = 1
  BY <1>1, <1>2
<1> QED
  BY <1>3 DEF NameSet

LEMMA NamesStep ==
    ASSUME IInv, Next
    PROVE  NamesInv'
<1>1. program' = program /\ Blocks' = Blocks
  BY Framed
<1>2. /\ program \in Programs /\ Len(program) \in Nat /\ Len(order) \in Nat
      /\ NamesInv /\ cursor \in Nat /\ inner \in Nat
  BY SectionTypes DEF IInv, ControlInv, OrderInv
<1>3. \A b : Names(program[b])' = Names(program[b])
  BY <1>1, FramedNames
<1> SUFFICES ASSUME phase' # "failed" /\ (phase' = "add" => ~errors'),
                    \A b \in replaced' : program[b].aliases = <<>>,
                    NEW b \in 1 .. Len(order') \ replaced', NEW i \in 1 .. Len(Names(program[b]))
             PROVE  \/ IsEntry(b, i)'
                    \/ phase' = "add" /\ inner' # 0 /\ b = cursor' /\ i >= inner'
  BY <1>1, <1>3 DEF NamesInv
<1>4. CASE Create
  <2>1. /\ Len(order) = cursor - 1 /\ cursor \in Blocks /\ phase = "add" /\ inner = 0
        /\ UNCHANGED <<phase, cursor, replaced, errors>> /\ inner' = 1
    BY <1>2, <1>4 DEF Create, OrderInv, Created, Blocks, IInv, ControlInv, flags
  <2>2. Len(order') = Len(order) + 1
    BY <1>2, <1>4, <2>1, SortedElements DEF Create, IInv, OrderInv
  <2>3. CASE b = cursor
    <3>1. i \in Int /\ i >= 1
      OBVIOUS
    <3> QED
      BY <2>1, <2>3, <3>1
  <2>4. CASE b # cursor
    <3>1. b \in 1 .. Len(order) \ replaced
      BY <1>2, <2>1, <2>2, <2>4
    <3>2. IsEntry(b, i)
      BY <1>2, <2>1, <2>4, <3>1 DEF NamesInv
    <3>3. \A name \in DOMAIN directory : name \in DOMAIN directory' /\ directory'[name] = directory[name]
      BY <1>4 DEF Create, With
    <3>4. IsEntry(b, i)'
      BY <1>1, <3>2, <3>3, FramedEntry DEF IsEntry
    <3> QED
      BY <3>4
  <2> QED
    BY <2>3, <2>4
<1>5. CASE Enter
  <2>1. /\ phase = "add" /\ phase' = "add" /\ inner # 0 /\ order' = order
        /\ UNCHANGED <<errors, cursor>> /\ inner' = inner + 1
        /\ Extends \/ Withdraws \/ Displaces
        /\ CurrentName \in NameSet(program[cursor])
        /\ cursor \in Blocks /\ 1 .. Len(order) \subseteq Blocks
    BY <1>5, EnterCases, CurrentBlock
  <2>2. replaced \subseteq replaced'
    BY <2>1 DEF Extends, Withdraws, Displaces
  <2>3. IsEntry(b, i) \/ (b = cursor /\ i >= inner)
    BY <1>2, <2>1, <2>2 DEF NamesInv
  <2>4. CASE i = inner /\ b = cursor
    <3>1. ~Withdraws
      BY <2>4 DEF Withdraws
    <3>2. CurrentName \in DOMAIN directory' /\ directory'[CurrentName] = Entered
      BY <2>1, <3>1 DEF Extends, Displaces
    <3>3. IsEntry(b, i)'
      BY <1>1, <1>3, <2>4, <3>2 DEF IsEntry, BlockEntry, Entered, CurrentName
    <3> QED
      BY <3>3
  <2>5. CASE ~(i = inner /\ b = cursor) /\ b = cursor /\ i >= inner
    <3>1. i >= inner + 1 /\ inner + 1 # 0
      <4>1. i \in Int
        OBVIOUS
      <4> QED
        BY <1>2, <2>5, <4>1
    <3> QED
      BY <2>1, <2>5, <3>1
  <2>6. CASE IsEntry(b, i) /\ ~(i = inner /\ b = cursor)
    <3> DEFINE n == Names(program[b])[i].name
    <3>1. n \in DOMAIN directory /\ directory[n].block = b /\ n \in NameSet(program[b])
      BY <2>6 DEF IsEntry, BlockEntry, NameSet
    <3>2. n \in DOMAIN directory' /\ directory'[n] = directory[n]
      <4>1. CASE Extends
        BY <3>1, <4>1 DEF Extends
      <4>2. CASE Withdraws
        <5>1. NameSet(program[cursor]) \ {CurrentName} = {}
          <6>1. program[cursor].aliases = <<>>
            BY <4>2 DEF Withdraws
          <6> QED
            BY <1>2, <2>1, <6>1, OneName
        <5> QED
          BY <3>1, <4>2, <5>1 DEF Withdraws
      <4>3. CASE Displaces
        <5> DEFINE other == directory[CurrentName].block
        <5>1. /\ other \in Blocks /\ other \in replaced'
              /\ CurrentName \in DOMAIN directory \ GroupNames
          BY <4>3 DEF Displaces
        <5>2. CurrentName \in NameSet(program[other])
          BY <5>1, EntryKinds
        <5>3. NameSet(program[other]) \subseteq {CurrentName}
          BY <1>2, <5>1, <5>2, OneName
        <5>4. n # CurrentName
          BY <3>1, <5>1
        <5> QED
          BY <3>1, <4>3, <5>3, <5>4 DEF Displaces
      <4> QED
        BY <2>1, <4>1, <4>2, <4>3
    <3>3. IsEntry(b, i)'
      BY <1>1, <2>6, <3>2, FramedEntry
    <3> QED
      BY <3>3
  <2> QED
    BY <2>3, <2>4, <2>5, <2>6
<1>6. CASE Join
  <2> DEFINE group == program[cursor].group
  <2>1. /\ order' = order /\ replaced' = replaced /\ phase = "add" /\ inner # 0 /\ inner' = 0
        /\ phase' = "add" /\ errors' = errors
        /\ cursor \in replaced \/ inner > Len(Names(program[cursor]))
        /\ \/ directory' = directory
           \/ group # NoName /\ directory' = [directory EXCEPT ![group].block = cursor]
    BY <1>6, Zenon DEF Join, AddError
  <2>2. cursor \in Blocks /\ b \in Blocks
    BY <2>1, CurrentBlock
  <2>3. IsEntry(b, i)
    <3>1. ASSUME b = cursor, i >= inner PROVE FALSE
      <4>1. Len(Names(program[cursor])) \in Nat /\ i \in 1 .. Len(Names(program[cursor]))
        BY <1>2, <2>2, <3>1, NamesTypes
      <4>2. inner > Len(Names(program[cursor]))
        BY <2>1, <3>1
      <4> QED
        BY <1>2, <3>1, <4>1, <4>2
    <3>2. IsEntry(b, i) \/ (b = cursor /\ i >= inner)
      BY <1>2, <2>1 DEF NamesInv
    <3> QED
      BY <3>1, <3>2
  <2>4. group # NoName => group \in GroupNames
    BY <2>2 DEF GroupNames
  <2>5. Names(program[b])[i].name \notin GroupNames
    BY <1>2, <2>2, NamesTypes
  <2>6. LET n == Names(program[b])[i].name
        IN  n \in DOMAIN directory' /\ directory'[n] = directory[n]
    BY <2>1, <2>3, <2>4, <2>5 DEF IsEntry
  <2>7. IsEntry(b, i)'
    BY <1>1, <2>3, <2>6, FramedEntry
  <2> QED
    BY <2>7
<1>7. CASE Start
  <2>1. /\ order' = order /\ replaced' = replaced /\ directory' = directory
        /\ phase = "add" /\ cursor > Len(program) /\ ~errors
    BY <1>7, Zenon DEF Start
  <2>2. inner = 0
    BY <1>2, <2>1 DEF IInv, ControlInv
  <2>3. IsEntry(b, i)
    BY <1>2, <2>1, <2>2 DEF NamesInv
  <2>4. IsEntry(b, i)'
    BY <1>1, <2>1, <2>3, FramedEntry DEF IsEntry
  <2> QED
    BY <2>4
<1>8. CASE phase # "add"
  <2>1. /\ KeepsEntries /\ replaced' = replaced /\ order' = order
        /\ phase \in {"reference", "arrange", "link"}
    BY <1>8, EntriesKept, Phases
  <2>2. b \in Blocks
    BY <1>2, <1>8, <2>1 DEF IInv, OrderInv, Created, Blocks
  <2>3. IsEntry(b, i)
    BY <1>2, <1>8, <2>1 DEF NamesInv
  <2>4. IsEntry(b, i)'
    BY <1>1, <2>1, <2>2, <2>3, KeptEntry
  <2> QED
    BY <2>4
<1> QED
  BY <1>4, <1>5, <1>6, <1>7, <1>8, Phases

(* What Use finds was not replaced.                                          *)
LEMMA ReachedIsLive ==
    ASSUME IInv, HasEntryPoint
    PROVE  Reached({directory[EntryPoint].block} \cup Required) \subseteq Blocks \ replaced
<1> DEFINE live == Blocks \ replaced
<1>1. EntryPoint \in DOMAIN directory \ GroupNames
  BY SectionTypes DEF HasEntryPoint, IInv, ControlInv
<1>2. {directory[EntryPoint].block} \cup Required \subseteq live
  BY <1>1, EntryKinds DEF Required
<1>3. \A c \in live : Touched(c) \subseteq live
  <2> TAKE c \in live
  <2> SUFFICES ASSUME NEW name \in DOMAIN directory, ~directory[name].isGroup
               PROVE  directory[name].block \in live
    BY DEF Touched
  <2> QED
    BY EntryKinds
<1> QED
  BY <1>2, <1>3 DEF Reached

LEMMA FlagsStep ==
    ASSUME IInv, Next
    PROVE  FlagsInv'
<1>1. program' = program /\ Blocks' = Blocks
  BY Framed
<1>2. /\ program \in Programs /\ Len(program) \in Nat /\ Len(order) \in Nat
      /\ FlagsInv
  BY SectionTypes DEF IInv, ControlInv, OrderInv
<1>3. \A b : NameSet(program[b])' = NameSet(program[b])
  BY <1>1, FramedNames
<1>4. ASSUME replaced' = replaced PROVE GivesWay'
  <2>1. GivesWay
    BY <1>2 DEF FlagsInv
  <2> QED
    BY <1>1, <1>3, <1>4, <2>1 DEF GivesWay
<1>5. /\ replaced \subseteq 1 .. Len(order)
      /\ used \subseteq Blocks \ replaced /\ referenced \subseteq used
      /\ phase = "add" => used = {} /\ stack = <<>>
  BY <1>2, Zenon DEF FlagsInv
<1> SUFFICES /\ replaced' \subseteq 1 .. Len(order')
             /\ phase' = "add" => used' = {} /\ stack' = <<>>
             /\ used' \subseteq Blocks \ replaced' /\ referenced' \subseteq used'
             /\ GivesWay'
  BY <1>1, Zenon DEF FlagsInv
<1>6. CASE Create
  <2>1. /\ Len(order) = cursor - 1 /\ cursor \in Blocks /\ phase = "add" /\ cursor \in Nat
        /\ UNCHANGED <<replaced, used, referenced, stack>>
    BY <1>2, <1>6 DEF Create, OrderInv, Created, Blocks, IInv, ControlInv, flags
  <2>2. Len(order') = Len(order) + 1
    BY <1>2, <1>6, <2>1, SortedElements DEF Create, IInv, OrderInv
  <2>3. 1 .. Len(order) \subseteq 1 .. Len(order')
    BY <1>2, <2>2
  <2> QED
    BY <1>4, <1>5, <2>1, <2>3
<1>7. CASE Enter
  <2>1. /\ phase = "add" /\ order' = order /\ UNCHANGED <<used, referenced, stack>>
        /\ UNCHANGED replaced \/ Extends \/ Withdraws \/ Displaces
        /\ CurrentName \in NameSet(program[cursor])
        /\ cursor \in Blocks /\ cursor \in 1 .. Len(order)
    BY <1>7, EnterCases, CurrentBlock
  <2>2. used = {} /\ referenced = {} /\ stack = <<>>
    BY <1>2, <2>1 DEF FlagsInv
  <2>3. replaced' \subseteq 1 .. Len(order)
    BY <1>2, <2>1 DEF FlagsInv, Extends, Withdraws, Displaces
  <2>4. GivesWay
    BY <1>2 DEF FlagsInv
  <2>5. GivesWay'
    <3> DEFINE other == directory[CurrentName].block
    <3>1. CASE UNCHANGED replaced \/ Extends
      BY <1>4, <3>1 DEF Extends
    <3>2. CASE Withdraws
      <4>1. other \in Blocks \ {cursor} /\ CurrentName \in NameSet(program[other])
        BY <3>2, EntryKinds DEF Withdraws
      <4> QED
        BY <1>1, <1>3, <2>1, <2>4, <3>2, <4>1, ZenonT(60) DEF GivesWay, Withdraws
    <3>3. CASE Displaces
      <4>1. other \in Blocks \ {cursor} /\ CurrentName \in NameSet(program[other])
        BY <3>3, EntryKinds DEF Displaces
      <4> QED
        BY <1>1, <1>3, <2>1, <2>4, <3>3, <4>1 DEF GivesWay, Displaces
    <3> QED
      BY <2>1, <3>1, <3>2, <3>3
  <2> QED
    BY <1>5, <2>1, <2>2, <2>3, <2>5
<1>8. CASE Join
  <2>1. phase = "add" /\ UNCHANGED <<replaced, used, referenced, stack>> /\ order' = order
    BY <1>8, Zenon DEF Join, AddError
  <2> QED
    BY <1>4, <1>5, <2>1
<1>9. CASE Start
  <2>1. /\ phase = "add" /\ UNCHANGED <<replaced, referenced, stack>> /\ order' = order
        /\ phase' # "add"
        /\ \/ UNCHANGED used
           \/ HasEntryPoint /\ used' = Reached({directory[EntryPoint].block} \cup Required)
    BY <1>9, Zenon DEF Start
  <2>2. used' \subseteq Blocks \ replaced /\ referenced = {}
    BY <1>5, <2>1, ReachedIsLive
  <2> QED
    BY <1>4, <1>5, <2>1, <2>2
<1>10. CASE phase # "add"
  <2>1. /\ phase' # "add" /\ replaced' = replaced /\ order' = order
    BY <1>10, Phases
  <2>2. \/ UNCHANGED <<used, referenced>>
        \/ \E block \in Blocks \ replaced :
            used' = used \cup {block} /\ referenced' = referenced \cup {block}
    <3>1. ASSUME NEW block \in Blocks \ replaced, NEW callers, Visit(block, callers)
          PROVE  \/ UNCHANGED <<used, referenced>>
                 \/ used' = used \cup {block} /\ referenced' = referenced \cup {block}
      BY <3>1, Zenon DEF Visit
    <3>2. CASE Refer
      <4>1. \/ order[cursor] \in Blocks \ replaced /\ Visit(order[cursor], <<>>)
            \/ UNCHANGED <<used, referenced>>
        BY <1>2, <3>2, ReferVisits DEF FlagsInv
      <4> QED
        BY <3>1, <4>1
    <3>3. CASE Resolve
      <4>1. \/ \E block \in Blocks \ replaced : \E callers : Visit(block, callers)
            \/ UNCHANGED <<used, referenced>>
        BY <3>3, ResolveVisits
      <4> QED
        BY <3>1, <4>1
    <3>4. CASE ~(Refer \/ Resolve)
      BY <1>10, <3>4 DEF Next, Create, Enter, Join, Start, Return, EndReference, Pass, Arrange,
                        EndArrange, Copy, Patch, EndLink, flags
    <3> QED
      BY <3>2, <3>3, <3>4
  <2> QED
    BY <1>4, <1>5, <2>1, <2>2
<1> QED
  BY <1>6, <1>7, <1>8, <1>9, <1>10, Phases

-------------------------------------------------------------------------------
(* The activations of Reference.                                             *)

\* The stack as the invariant wants it, with the blocks referenced.
Proper(s, set) ==
    /\ s \in Seq([block : set, link : Nat])
    /\ \A i \in 1 .. Len(s) : s[i].link \in 1 .. Len(program[s[i].block].links) + 1
    /\ \A i, j \in 1 .. Len(s) : s[i].block = s[j].block => i = j

LEMMA LinksNat ==
    ASSUME IInv, NEW b \in Blocks
    PROVE  program[b].links \in Seq(Links) /\ Len(program[b].links) \in Nat
<1>1. program[b] \in Sections
  BY SectionTypes DEF IInv, ControlInv
<1>2. program[b].links \in Seq(Links)
  BY <1>1 DEF Sections
<1> QED
  BY <1>2

(* The activations beneath the one that a link starts.                       *)
LEMMA CallersProper ==
    ASSUME IInv, Resolve
    PROVE  LET callers == <<Advanced>> \o Tail(stack)
           IN  /\ Proper(callers, referenced)
               /\ Len(callers) = Len(stack) /\ Len(stack) \in Nat /\ Len(stack) >= 1
               /\ callers[1].block = stack[1].block /\ callers[1].link = stack[1].link + 1
               /\ Head(stack) = stack[1]
               /\ \A i \in 2 .. Len(stack) : callers[i] = stack[i]
<1> DEFINE callers == <<Advanced>> \o Tail(stack)
           S == [block : referenced, link : Nat]
<1>1. stack \in Seq(S) /\ stack # <<>> /\ Proper(stack, referenced)
  BY ResolveVisits DEF IInv, StackInv, ActivationsDistinct, Proper
<1>2. /\ Head(stack).block \in Blocks
      /\ Head(stack).link \in 1 .. Len(program[Head(stack).block].links)
  BY ResolveVisits
<1> HIDE DEF S
<1>3. /\ Len(stack) \in Nat /\ Len(stack) >= 1 /\ Head(stack) = stack[1] /\ stack[1] \in S
      /\ Tail(stack) \in Seq(S) /\ Len(Tail(stack)) = Len(stack) - 1
      /\ \A i \in 1 .. Len(stack) - 1 : Tail(stack)[i] = stack[i + 1]
  BY <1>1, StackElements
<1>4. /\ Advanced \in S /\ Advanced.block = stack[1].block /\ Advanced.link = stack[1].link + 1
  BY <1>3 DEF Advanced, S
<1>5. /\ callers \in Seq(S) /\ Len(callers) = Len(Tail(stack)) + 1 /\ callers[1] = Advanced
      /\ \A i \in 2 .. Len(Tail(stack)) + 1 : callers[i] = Tail(stack)[i - 1]
  BY <1>3, <1>4, StackGrows
<1> HIDE DEF callers
<1>6. Len(callers) = Len(stack)
  BY <1>3, <1>5
<1>7. \A i \in 2 .. Len(stack) : callers[i] = stack[i]
  <2> TAKE i \in 2 .. Len(stack)
  <2>1. i - 1 \in 1 .. Len(stack) - 1 /\ (i - 1) + 1 = i /\ i \in 2 .. Len(Tail(stack)) + 1
    BY <1>3
  <2> QED
    BY <1>3, <1>5, <2>1
<1>8. \A i \in 1 .. Len(stack) : callers[i].block = stack[i].block
  <2> TAKE i \in 1 .. Len(stack)
  <2>1. i = 1 \/ i \in 2 .. Len(stack)
    BY <1>3
  <2> QED
    BY <1>4, <1>5, <1>7, <2>1
<1>9. Proper(callers, referenced)
  <2>1. \A i \in 1 .. Len(callers) :
            callers[i].link \in 1 .. Len(program[callers[i].block].links) + 1
    <3> TAKE i \in 1 .. Len(callers)
    <3>1. CASE i = 1
      <4>1. Len(program[stack[1].block].links) \in Nat
        BY <1>2, <1>3, LinksNat
      <4>2. stack[1].link \in 1 .. Len(program[stack[1].block].links)
        BY <1>2, <1>3
      <4>3. stack[1].link + 1 \in 1 .. Len(program[stack[1].block].links) + 1
        BY <4>1, <4>2
      <4> QED
        BY <1>4, <1>5, <3>1, <4>3
    <3>2. CASE i # 1
      <4>1. i \in 2 .. Len(stack) /\ i \in 1 .. Len(stack)
        BY <1>3, <1>6, <3>2
      <4> QED
        BY <1>1, <1>7, <4>1 DEF Proper
    <3> QED
      BY <3>1, <3>2
  <2>2. \A i, j \in 1 .. Len(callers) : callers[i].block = callers[j].block => i = j
    BY <1>1, <1>6, <1>8 DEF Proper
  <2> QED
    BY <1>5, <2>1, <2>2 DEF Proper, S
<1> QED
  BY <1>3, <1>4, <1>5, <1>6, <1>7, <1>9 DEF callers

(* A visit adds at most one activation, of a block that had none.            *)
LEMMA VisitProper ==
    ASSUME IInv, NEW block \in Blocks, NEW callers, Proper(callers, referenced),
           Visit(block, callers)
    PROVE  /\ Proper(stack', referenced') /\ block \in referenced'
           /\ referenced' = referenced \cup {block}
           /\ \/ /\ block \in referenced /\ stack' = callers
                 /\ UNCHANGED <<directory, used, referenced>>
              \/ /\ block \notin referenced
                 /\ used' = used \cup {block}
                 /\ Len(stack') = Len(callers) + 1
                 /\ stack'[1] = [block |-> block, link |-> 1]
                 /\ \A i \in 2 .. Len(callers) + 1 : stack'[i] = callers[i - 1]
<1>1. CASE block \in referenced
  BY <1>1, Zenon DEF Visit, IsReferenced
<1>2. CASE block \notin referenced
  <2> DEFINE top == [block |-> block, link |-> 1]
             S == [block : referenced', link : Nat]
  <2>1. /\ used' = used \cup {block} /\ referenced' = referenced \cup {block}
        /\ stack' = <<top>> \o callers
    BY <1>2, Zenon DEF Visit, IsReferenced
  <2>2. top \in S /\ callers \in Seq([block : referenced, link : Nat]) /\ Len(callers) \in Nat
    BY <2>1 DEF Proper
  <2>3. callers \in Seq(S)
    <3>1. [block : referenced, link : Nat] \subseteq S
      BY <2>1
    <3> HIDE DEF S
    <3>2. \A i \in 1 .. Len(callers) : callers[i] \in [block : referenced, link : Nat]
      <4> DEFINE R == [block : referenced, link : Nat]
      <4>1. callers \in Seq(R)
        BY <2>2
      <4> HIDE DEF R
      <4>2. \A i \in 1 .. Len(callers) : callers[i] \in R
        BY <4>1
      <4> QED
        BY <4>2 DEF R
    <3>3. \A i \in 1 .. Len(callers) : callers[i] \in S
      BY <3>1, <3>2
    <3>4. callers = [i \in 1 .. Len(callers) |-> callers[i]]
      BY <2>2
    <3> QED
      BY <2>2, <3>3, <3>4
  <2> HIDE DEF S
  <2>4. /\ stack' \in Seq(S) /\ Len(stack') = Len(callers) + 1 /\ stack'[1] = top
        /\ \A i \in 2 .. Len(callers) + 1 : stack'[i] = callers[i - 1]
    BY <2>1, <2>2, <2>3, StackGrows
  <2>5. \A i \in 2 .. Len(callers) + 1 : i - 1 \in 1 .. Len(callers)
    BY <2>2
  <2>6. \A i \in 1 .. Len(callers) : callers[i].block \in referenced
    <3> DEFINE R == [block : referenced, link : Nat]
    <3>1. \A i \in 1 .. Len(callers) : callers[i] \in R
      <4>1. callers \in Seq(R)
        BY <2>2
      <4> HIDE DEF R
      <4> QED
        BY <4>1
    <3> QED
      BY <3>1
  <2>7. \A i \in 1 .. Len(stack') : stack'[i].link \in 1 .. Len(program[stack'[i].block].links) + 1
    <3> TAKE i \in 1 .. Len(stack')
    <3>1. CASE i = 1
      <4>1. Len(program[block].links) \in Nat
        BY LinksNat
      <4> QED
        BY <2>4, <3>1, <4>1
    <3>2. CASE i # 1
      <4>1. i \in 2 .. Len(callers) + 1
        BY <2>2, <2>4, <3>2
      <4> QED
        BY <2>4, <2>5, <4>1 DEF Proper
    <3> QED
      BY <3>1, <3>2
  <2>8. \A i, j \in 1 .. Len(stack') : stack'[i].block = stack'[j].block => i = j
    <3> SUFFICES ASSUME NEW i \in 1 .. Len(stack'), NEW j \in 1 .. Len(stack'), i # j,
                        stack'[i].block = stack'[j].block
                 PROVE  FALSE
      OBVIOUS
    <3>1. \A k \in 1 .. Len(stack') : k = 1 \/ k \in 2 .. Len(callers) + 1
      BY <2>2, <2>4
    <3>2. \A k \in 2 .. Len(callers) + 1 : stack'[k].block \in referenced
      BY <2>4, <2>5, <2>6
    <3>3. i # 1 /\ j # 1
      BY <1>2, <2>4, <3>1, <3>2
    <3>4. /\ i - 1 \in 1 .. Len(callers) /\ j - 1 \in 1 .. Len(callers) /\ i - 1 # j - 1
          /\ callers[i - 1].block = callers[j - 1].block
      BY <2>4, <2>5, <3>1, <3>3
    <3> QED
      BY <3>4 DEF Proper
  <2>9. Proper(stack', referenced')
    BY <2>4, <2>7, <2>8 DEF Proper, S
  <2> QED
    BY <1>2, <2>1, <2>4, <2>9
<1> QED
  BY <1>1, <1>2

LEMMA StackStep ==
    ASSUME IInv, Next
    PROVE  StackInv'
<1>1. /\ program' = program /\ Proper(stack, referenced)
      /\ stack # <<>> => phase = "reference"
  BY Framed DEF IInv, StackInv, ActivationsDistinct, Proper
<1> SUFFICES Proper(stack', referenced') /\ (stack' # <<>> => phase' = "reference")
  BY <1>1 DEF StackInv, ActivationsDistinct, Proper
<1>2. CASE UNCHANGED <<stack, referenced>> /\ (stack # <<>> => phase' = "reference")
  BY <1>1, <1>2
<1>3. CASE Refer
  <2>1. Proper(<<>>, referenced)
    BY DEF Proper
  <2> QED
    BY <1>1, <1>2, <1>3, <2>1, ReferVisits, VisitProper
<1>4. CASE Resolve
  <2>1. Proper(<<Advanced>> \o Tail(stack), referenced) /\ phase' = "reference"
    BY <1>4, CallersProper, ResolveVisits
  <2> QED
    BY <1>4, <2>1, ResolveVisits, VisitProper
<1>5. CASE Return
  <2> DEFINE S == [block : referenced, link : Nat]
  <2>1. /\ stack # <<>> /\ stack' = Tail(stack) /\ referenced' = referenced /\ phase' = phase
        /\ stack \in Seq(S)
    BY <1>1, <1>5 DEF Return, flags, control, Proper
  <2> HIDE DEF S
  <2>2. /\ Len(stack) \in Nat /\ stack' \in Seq(S) /\ Len(stack') = Len(stack) - 1
        /\ \A i \in 1 .. Len(stack) - 1 : stack'[i] = stack[i + 1]
    BY <2>1, StackElements
  <2>3. \A i \in 1 .. Len(stack') : i + 1 \in 1 .. Len(stack) /\ stack'[i] = stack[i + 1]
    BY <2>2
  <2>4. /\ \A i \in 1 .. Len(stack') : stack'[i].link \in 1 .. Len(program[stack'[i].block].links) + 1
        /\ \A i, j \in 1 .. Len(stack') : stack'[i].block = stack'[j].block => i = j
    <3>1. \A i, j \in 1 .. Len(stack') : i + 1 = j + 1 => i = j
      OBVIOUS
    <3> QED
      BY <1>1, <2>3, <3>1, ZenonT(60) DEF Proper
  <2>5. Proper(stack', referenced')
    BY <2>1, <2>2, <2>4 DEF Proper, S
  <2> QED
    BY <1>1, <2>1, <2>5
<1>6. CASE EndReference
  BY <1>1, <1>2, <1>6 DEF EndReference, flags
<1>7. CASE ~(Refer \/ Resolve \/ Return \/ EndReference)
  <2>1. stack = <<>>
    BY <1>1, <1>7 DEF Next, Create, Enter, Join, Start, Pass, Arrange, EndArrange, Copy, Patch,
                      EndLink
  <2>2. UNCHANGED <<stack, referenced>>
    BY <1>7 DEF Next, Create, Enter, Join, Start, Pass, Arrange, EndArrange, Copy, Patch,
                      EndLink, flags
  <2> QED
    BY <1>2, <2>1, <2>2
<1> QED
  BY <1>3, <1>4, <1>5, <1>6, <1>7

-------------------------------------------------------------------------------
(* The images, the addresses and the indices.                                *)

\* No more blocks of a group have been counted than there are.
CountsInv ==
    \A name \in DOMAIN directory \cap GroupNames :
        /\ phase \in {"add", "reference"} => directory[name].count = 0
        /\ phase = "arrange" => directory[name].count < cursor

LEMMA CountsStep ==
    ASSUME IInv, Next
    PROVE  CountsInv'
<1>1. /\ GroupNames' = GroupNames /\ CountsInv
      /\ \A name \in DOMAIN directory \cap GroupNames : directory[name] \in GroupEntries
  BY Framed DEF IInv, MemoryInv, CountsInv, DirectoryInv
<1> SUFFICES ASSUME NEW name \in DOMAIN directory' \cap GroupNames
             PROVE  /\ phase' \in {"add", "reference"} => directory'[name].count = 0
                    /\ phase' = "arrange" => directory'[name].count < cursor'
  BY <1>1 DEF CountsInv
<1>2. CASE phase = "add"
  <2>1. phase' \in {"add", "reference", "failed"}
    <3>1. phase' = phase \/ Start
      BY <1>2, Phases, Zenon DEF Create, Enter, Join
    <3> QED
      BY <1>2, <3>1 DEF Start
  <2> SUFFICES directory'[name].count = 0
    BY <2>1
  <2>2. CASE Create
    <3>1. \/ name \in DOMAIN directory /\ directory'[name] = directory[name]
          \/ directory'[name] = GroupEntry
      BY <2>2 DEF Create, With
    <3> QED
      BY <1>1, <1>2, <3>1 DEF CountsInv, GroupEntry
  <2>3. CASE Enter
    <3>1. name \in DOMAIN directory /\ directory'[name] = directory[name]
      BY <2>3, DirectoryEntered
    <3> QED
      BY <1>1, <1>2, <3>1 DEF CountsInv
  <2>4. CASE Join
    <3> DEFINE group == program[cursor].group
    <3>1. \/ directory' = directory
          \/ directory' = [directory EXCEPT ![group].block = cursor]
      BY <2>4, Zenon DEF Join, AddError
    <3>2. name \in DOMAIN directory /\ directory[name] \in GroupEntries
      BY <1>1, <3>1
    <3>3. [directory[name] EXCEPT !.block = cursor].count = directory[name].count
      BY <3>2 DEF GroupEntries
    <3>4. directory'[name].count = directory[name].count
      BY <3>1, <3>2, <3>3
    <3> QED
      BY <1>1, <1>2, <3>2, <3>4 DEF CountsInv
  <2>5. CASE Start
    BY <1>1, <1>2, <2>5 DEF Start, CountsInv
  <2> QED
    BY <1>2, <2>2, <2>3, <2>4, <2>5, Phases
<1>3. CASE phase # "add"
  <2>1. /\ DOMAIN directory' = DOMAIN directory
        /\ name \in DOMAIN directory \cap GroupNames /\ directory[name] \in GroupEntries
    BY <1>1, <1>3, EntriesKept DEF KeepsEntries
  <2>2. cursor \in Nat /\ directory[name].count \in Nat
    BY <2>1, SectionTypes, GroupEntryTypes DEF IInv, ControlInv
  <2>3. CASE Refer \/ Resolve
    <3>1. phase = "reference" /\ phase' = "reference"
      BY <2>3, ReferVisits, ResolveVisits
    <3>2. ASSUME NEW block \in Blocks, NEW callers, Visit(block, callers)
          PROVE  directory'[name].count = directory[name].count
      BY <1>3, <2>1, <3>2, VisitEntries
    <3>3. CASE Refer
      <4>1. directory'[name].count = directory[name].count
        BY <3>2, <3>3, ReferVisits
      <4> QED
        BY <1>1, <2>1, <3>1, <4>1 DEF CountsInv
    <3>4. CASE Resolve
      <4>1. directory'[name].count = directory[name].count
        BY <3>2, <3>4, ResolveVisits
      <4> QED
        BY <1>1, <2>1, <3>1, <4>1 DEF CountsInv
    <3> QED
      BY <2>3, <3>3, <3>4
  <2>4. CASE Arrange
    <3>1. phase = "arrange" /\ (phase' = "failed" \/ (phase' = phase /\ cursor' = cursor + 1))
      BY <2>4, Zenon DEF Arrange
    <3>2. directory'[name].count \in {directory[name].count, directory[name].count + 1}
      BY <2>1, <2>4, ArrangeEntries
    <3>3. directory[name].count < cursor
      BY <1>1, <2>1, <3>1 DEF CountsInv
    <3> QED
      BY <2>2, <3>1, <3>2, <3>3
  <2>5. CASE Pass \/ Return \/ EndReference
    <3>1. directory' = directory
      BY <2>5 DEF Pass, Return, EndReference
    <3>2. \/ phase' = phase /\ (cursor' = cursor \/ cursor' = cursor + 1)
          \/ phase = "reference" /\ cursor' = 1 /\ phase' \in {"failed", "arrange"}
      BY <2>5 DEF Pass, Return, EndReference, control
    <3>3. CASE phase' = phase /\ (cursor' = cursor \/ cursor' = cursor + 1)
      BY <1>1, <2>1, <2>2, <3>1, <3>3 DEF CountsInv
    <3>4. CASE phase = "reference" /\ cursor' = 1 /\ phase' \in {"failed", "arrange"}
      BY <1>1, <2>1, <3>1, <3>4 DEF CountsInv
    <3> QED
      BY <3>2, <3>3, <3>4
  <2>6. CASE EndArrange \/ Copy \/ Patch \/ EndLink
    <3>1. phase' \in {"link", "aborted", "failed", "done"}
      BY <2>6 DEF EndArrange, Copy, Patch, EndLink
    <3> QED
      BY <3>1
  <2>7. ~(Create \/ Enter \/ Join \/ Start)
    BY <1>3 DEF Create, Enter, Join, Start
  <2> QED
    BY <2>3, <2>4, <2>5, <2>6, <2>7 DEF Next
<1> QED
  BY <1>2, <1>3

(* What Context::Arrange does to a block that is used.                       *)
LEMMA ArrangeAllocates ==
    ASSUME IInv, Arrange
    PROVE  LET block == order[cursor]
               image == ImageOf(program[block])
           IN  /\ block \in used /\ block \in Blocks
               /\ image \in {CodeImage, DataImage, ConstImage}
               /\ \E arrangement, begin :
                    /\ IsProper(arrangement) /\ begin \in Value
                    /\ images' = [images EXCEPT ![image] = arrangement]
                    /\ address' = [address EXCEPT ![block] = begin]
               /\ \/ index' = index
                  \/ \E i \in 0 .. Len(program) : index' = [index EXCEPT ![block] = i]
               /\ previousCode' \in {previousCode, block}
<1> DEFINE block == order[cursor]
           section == program[block]
           group == section.group
           image == ImageOf(section)
           size == IF group = NoName THEN section.bytes ELSE directory[group].offset
           result == Allocate(images[image], section, size)
<1>1. /\ phase = "arrange" /\ cursor <= Len(order) /\ block \in used
      /\ images' = [images EXCEPT ![image] = result.arrangement]
      /\ address' = [address EXCEPT ![block] = result.address]
      /\ previousCode' \in {previousCode, block}
      /\ \/ index' = index
         \/ /\ group # NoName
            /\ index' = [index EXCEPT ![block] = directory[group].count]
  BY Zenon DEF Arrange
<1>2. block \in Blocks
  BY <1>1 DEF IInv, FlagsInv
<1>3. section \in Sections /\ (~section.fixed => section.at # 0)
  BY <1>2, SectionTypes DEF IInv, ControlInv
<1>4. image \in {CodeImage, DataImage, ConstImage}
  BY DEF ImageOf
<1>5. IsProper(images[image])
  BY <1>4, Zenon DEF IInv, MemoryInv
<1>6. group # NoName => /\ group \in DOMAIN directory \cap GroupNames
                        /\ directory[group] \in GroupEntries
  BY <1>1, <1>2, GroupEntered
<1>7. IsRequest(section)
  BY <1>3 DEF IsRequest, Sections
<1>8. size \in Value
  <2>1. section.bytes \in Value
    BY <1>3 DEF Sections
  <2> QED
    BY <1>6, <2>1, GroupEntryTypes
<1> HIDE DEF size, image, section
<1>9. IsProper(result.arrangement) /\ result.address \in Value
  BY <1>5, <1>7, <1>8, AllocateKeeps
<1>10. group # NoName => directory[group].count \in 0 .. Len(program)
  <2> SUFFICES ASSUME group # NoName PROVE directory[group].count \in 0 .. Len(program)
    OBVIOUS
  <2>1. directory[group].count < cursor /\ directory[group].count \in Nat
    BY <1>1, <1>6, GroupEntryTypes DEF IInv, MemoryInv
  <2>2. cursor \in 1 .. Len(program) + 1 /\ Len(program) \in Nat
    BY SectionTypes DEF IInv, ControlInv
  <2> QED
    BY <2>1, <2>2
<1> HIDE DEF result, block
<1>11. \E arrangement, begin :
         /\ IsProper(arrangement) /\ begin \in Value
         /\ images' = [images EXCEPT ![image] = arrangement]
         /\ address' = [address EXCEPT ![block] = begin]
  BY <1>1, <1>9
<1> QED
  BY <1>1, <1>2, <1>4, <1>10, <1>11, Zenon DEF block, image, section

LEMMA MemoryStep ==
    ASSUME IInv, Next
    PROVE  MemoryInv'
<1>1. /\ program' = program /\ Blocks' = Blocks /\ CountsInv'
  BY Framed, CountsStep
<1>2. /\ images \in [{CodeImage, DataImage, ConstImage} -> Arrangement]
      /\ \A image \in {CodeImage, DataImage, ConstImage} : IsProper(images[image])
      /\ address \in [Blocks -> Value] /\ index \in [Blocks -> 0 .. Len(program)]
      /\ previousCode \in used \cup {NoBlock}
  BY Zenon DEF IInv, MemoryInv
<1> SUFFICES /\ images' \in [{CodeImage, DataImage, ConstImage} -> Arrangement]
             /\ \A image \in {CodeImage, DataImage, ConstImage} : IsProper(images'[image])
             /\ address' \in [Blocks -> Value] /\ index' \in [Blocks -> 0 .. Len(program)]
             /\ previousCode' \in used' \cup {NoBlock}
  BY <1>1 DEF MemoryInv, CountsInv, IsProper
<1>3. used \subseteq used'
  <2>1. CASE Start
    <3>1. phase = "add"
      BY <2>1 DEF Start
    <3>2. used = {}
      BY <3>1 DEF IInv, FlagsInv
    <3> QED
      BY <3>2
  <2>2. ASSUME NEW block, NEW callers, Visit(block, callers) PROVE used \subseteq used'
    BY <2>2 DEF Visit
  <2>3. CASE Refer \/ Resolve
    BY <2>2, <2>3, ReferVisits, ResolveVisits
  <2>4. CASE ~(Start \/ Refer \/ Resolve)
    BY <2>4 DEF Next, Create, Enter, Join, Return, EndReference, Pass, Arrange, EndArrange, Copy,
                Patch, EndLink, flags
  <2> QED
    BY <2>1, <2>3, <2>4
<1>4. CASE Arrange
  <2> DEFINE block == order[cursor]
             image == ImageOf(program[block])
  <2>1. /\ block \in used /\ block \in Blocks
        /\ image \in {CodeImage, DataImage, ConstImage}
        /\ \/ index' = index
           \/ \E i \in 0 .. Len(program) : index' = [index EXCEPT ![block] = i]
        /\ previousCode' \in {previousCode, block}
    BY <1>4, ArrangeAllocates
  <2>2. PICK arrangement, begin :
            /\ IsProper(arrangement) /\ begin \in Value
            /\ images' = [images EXCEPT ![image] = arrangement]
            /\ address' = [address EXCEPT ![block] = begin]
    BY <1>4, ArrangeAllocates
  <2>3. arrangement \in Arrangement
    BY <2>2 DEF IsProper
  <2> HIDE DEF block, image
  <2>4. /\ images' \in [{CodeImage, DataImage, ConstImage} -> Arrangement]
        /\ \A i \in {CodeImage, DataImage, ConstImage} : IsProper(images'[i])
    BY <1>2, <2>1, <2>2, <2>3
  <2>5. address' \in [Blocks -> Value]
    BY <1>2, <2>1, <2>2
  <2>6. index' \in [Blocks -> 0 .. Len(program)]
    BY <1>2, <2>1
  <2>7. previousCode' \in used' \cup {NoBlock}
    BY <1>2, <1>3, <2>1
  <2> QED
    BY <2>4, <2>5, <2>6, <2>7
<1>5. CASE ~Arrange
  <2>1. UNCHANGED <<images, address, index, previousCode>>
    BY <1>5 DEF Next, Create, Enter, Join, Start, Refer, Resolve, Return, EndReference, Pass,
                EndArrange, Copy, Patch, EndLink, memory
  <2> QED
    BY <1>2, <1>3, <2>1
<1> QED
  BY <1>4, <1>5

-------------------------------------------------------------------------------
(* What is used.                                                             *)

\* UseInv with the blocks used and the stack of the next state.
UseNext ==
    /\ EntryPoint \in DOMAIN directory
    /\ Roots \subseteq used'
    /\ \A set \in SUBSET Blocks :
         Roots \subseteq set /\ Closed(set, PossibleTargets) => used' \subseteq set
    /\ \A b \in used' : \A j \in 1 .. Len(program[b].links) :
         \/ LeadsInto(program[b].links[j], used')
         \/ \E i \in 1 .. Len(stack') : stack'[i].block = b /\ stack'[i].link <= j
    /\ \A p \in 1 .. Len(order) :
         phase' # "reference" \/ p < cursor' => (order[p] \in used' => order[p] \in referenced')

LEMMA KeptTargets ==
    ASSUME IInv, KeepsEntries, program' = program, replaced' = replaced,
           EntryPoint \in DOMAIN directory
    PROVE  /\ Roots' = Roots
           /\ \A b \in Blocks : PossibleTargets(b)' = PossibleTargets(b)
<1>1. Blocks' = Blocks /\ GroupNames' = GroupNames
  BY DEF Blocks, GroupNames
<1>2. EntryPoint \notin GroupNames
  BY SectionTypes DEF IInv, ControlInv
<1>3. Roots' = Roots
  BY <1>1, <1>2 DEF Roots, Required, KeepsEntries
<1>4. /\ DOMAIN directory' = DOMAIN directory
      /\ \A name \in DOMAIN directory \ GroupNames : directory'[name] = directory[name]
      /\ \A name \in DOMAIN directory \cap GroupNames :
            directory'[name].isGroup /\ directory[name].isGroup
  BY EntryKinds DEF KeepsEntries, GroupEntries
<1>5. ASSUME NEW b \in Blocks
      PROVE  PossibleTargets(b)' = PossibleTargets(b)
  <2> DEFINE links == program[b].links
             names == UNION {{links[i].name, links[i].otherwise} : i \in 1 .. Len(links)}
  <2>1. PossibleTargets(b) = {directory[name].block : name \in
            {n \in names \cap DOMAIN directory : ~directory[n].isGroup}}
    BY DEF PossibleTargets
  <2>2. PossibleTargets(b)' = {directory'[name].block : name \in
            {n \in names \cap DOMAIN directory' : ~directory'[n].isGroup}}
    BY DEF PossibleTargets
  <2> HIDE DEF names
  <2>3. \A n \in DOMAIN directory :
            /\ directory'[n].isGroup <=> directory[n].isGroup
            /\ ~directory[n].isGroup => directory'[n] = directory[n]
    BY <1>4
  <2> QED
    BY <1>4, <2>1, <2>2, <2>3
<1> QED
  BY <1>3, <1>5

LEMMA UseFromNext ==
    ASSUME IInv, KeepsEntries, program' = program, replaced' = replaced, order' = order, UseNext
    PROVE  UseInv'
<1>1. /\ Roots' = Roots
      /\ \A b \in Blocks : PossibleTargets(b)' = PossibleTargets(b)
  BY KeptTargets DEF UseNext
<1>2. Blocks' = Blocks
  BY DEF Blocks
<1>3. EntryPoint \in DOMAIN directory' /\ Roots' \subseteq used'
  BY <1>1 DEF UseNext, KeepsEntries
<1>4. ASSUME NEW set \in SUBSET Blocks, Roots' \subseteq set, Closed(set, PossibleTargets)'
      PROVE  used' \subseteq set
  <2>1. \A b \in set : PossibleTargets(b)' \subseteq set
    BY <1>4 DEF Closed
  <2>2. Closed(set, PossibleTargets)
    BY <1>1, <2>1 DEF Closed
  <2> QED
    BY <1>1, <1>4, <2>2 DEF UseNext
<1>5. \A b \in used' : \A j \in 1 .. Len(program'[b].links) :
         \/ LeadsInto(program[b].links[j], used)'
         \/ \E i \in 1 .. Len(stack') : stack'[i].block = b /\ stack'[i].link <= j
  <2> TAKE b \in used'
  <2> TAKE j \in 1 .. Len(program'[b].links)
  <2>1. \/ LeadsInto(program[b].links[j], used')
        \/ \E i \in 1 .. Len(stack') : stack'[i].block = b /\ stack'[i].link <= j
    BY DEF UseNext
  <2>2. LeadsInto(program[b].links[j], used') => LeadsInto(program[b].links[j], used)'
    <3>1. GroupNames' = GroupNames
      BY DEF GroupNames, Blocks
    <3> QED
      BY <3>1 DEF LeadsInto, KeepsEntries
  <2> QED
    BY <2>1, <2>2
<1> QED
  BY <1>2, <1>3, <1>4, <1>5 DEF UseInv, UseNext

(* Use marks the roots and is closed under links without conditions.         *)
LEMMA StartUses ==
    ASSUME IInv, Start, phase' # "failed"
    PROVE  UseInv'
<1> DEFINE roots == {directory[EntryPoint].block} \cup Required
<1>1. /\ phase' = "reference" /\ HasEntryPoint /\ used' = Reached(roots) /\ cursor' = 1
      /\ UNCHANGED <<program, order, directory, replaced, referenced, stack>>
  BY Zenon DEF Start
<1>2. roots = Roots /\ EntryPoint \in DOMAIN directory
  BY <1>1 DEF HasEntryPoint, Roots
<1>3. roots \subseteq Blocks
  <2>1. EntryPoint \notin GroupNames
    BY SectionTypes DEF IInv, ControlInv
  <2>2. directory[EntryPoint].block \in Blocks
    BY <1>2, <2>1, EntryKinds
  <2> QED
    BY <2>2 DEF Required
<1>4. \A b \in Blocks : Touched(b) \subseteq PossibleTargets(b)
  <2> SUFFICES ASSUME NEW b \in Blocks, NEW j \in 1 .. Len(program[b].links),
                      program[b].links[j].name \in DOMAIN directory,
                      ~directory[program[b].links[j].name].isGroup
               PROVE  directory[program[b].links[j].name].block \in PossibleTargets(b)
    BY DEF Touched
  <2> QED
    BY DEF PossibleTargets
<1>5. \A b \in used' : \A j \in 1 .. Len(program[b].links) : LeadsInto(program[b].links[j], used')
  <2> TAKE b \in used'
  <2> TAKE j \in 1 .. Len(program[b].links)
  <2> DEFINE link == program[b].links[j]
  <2> SUFFICES ASSUME link.conditions = {}, link.name \in DOMAIN directory \ GroupNames
               PROVE  directory[link.name].block \in used'
    BY DEF LeadsInto
  <2> DEFINE target == directory[link.name].block
  <2>1. target \in Blocks /\ ~directory[link.name].isGroup
    BY EntryKinds
  <2>2. target \in Touched(b)
    BY <2>1 DEF Touched
  <2> HIDE DEF target
  <2>3. ASSUME NEW set \in SUBSET Blocks, roots \subseteq set,
               \A c \in set : Touched(c) \subseteq set
        PROVE  target \in set
    <3>1. b \in set
      BY <1>1, <2>3 DEF Reached
    <3> QED
      BY <2>2, <2>3, <3>1
  <2>4. target \in Reached(roots)
    BY <2>1, <2>3 DEF Reached
  <2> QED
    BY <1>1, <2>4 DEF target
<1>6. Roots \subseteq used'
  BY <1>1, <1>2, <1>3 DEF Reached
<1>7. ASSUME NEW set \in SUBSET Blocks, Roots \subseteq set, Closed(set, PossibleTargets)
      PROVE  used' \subseteq set
  <2>1. \A c \in set : Touched(c) \subseteq set
    BY <1>4, <1>7 DEF Closed
  <2> QED
    BY <1>1, <1>2, <1>7, <2>1 DEF Reached
<1>8. KeepsEntries
  BY <1>1 DEF KeepsEntries, IInv, DirectoryInv
<1>9. UseNext
  <2>1. \A p \in 1 .. Len(order) : ~(p < cursor')
    BY <1>1
  <2> QED
    BY <1>1, <1>2, <1>5, <1>6, <1>7, <2>1 DEF UseNext
<1> QED
  BY <1>1, <1>8, <1>9, UseFromNext

(* What a visit adds is used and referenced at once, and links to it do not  *)
(* lead out of what is used any more.                                        *)
LEMMA VisitUses ==
    ASSUME IInv, UseInv, phase = "reference", NEW block \in Blocks, NEW callers,
           Proper(callers, referenced), Visit(block, callers), phase' = "reference",
           \A set \in SUBSET Blocks :
              Roots \subseteq set /\ Closed(set, PossibleTargets) => block \in set,
           \A b \in used : \A j \in 1 .. Len(program[b].links) :
              \/ LeadsInto(program[b].links[j], used \cup {block})
              \/ \E i \in 1 .. Len(callers) : callers[i].block = b /\ callers[i].link <= j,
           cursor' = cursor
              \/ (cursor' = cursor + 1 /\ cursor \in 1 .. Len(order) /\ order[cursor] = block)
    PROVE  UseNext
<1>1. /\ block \in referenced' /\ referenced' = referenced \cup {block}
      /\ \/ block \in referenced /\ stack' = callers /\ used' = used
         \/ /\ used' = used \cup {block}
            /\ Len(stack') = Len(callers) + 1
            /\ stack'[1] = [block |-> block, link |-> 1]
            /\ \A i \in 2 .. Len(callers) + 1 : stack'[i] = callers[i - 1]
  BY VisitProper
<1>2. /\ EntryPoint \in DOMAIN directory /\ Roots \subseteq used
      /\ \A set \in SUBSET Blocks :
            Roots \subseteq set /\ Closed(set, PossibleTargets) => used \subseteq set
      /\ \A p \in 1 .. Len(order) : p < cursor => (order[p] \in used => order[p] \in referenced)
      /\ referenced \subseteq used
  BY DEF UseInv, IInv, FlagsInv
<1>3. used' = used \cup {block}
  BY <1>1, <1>2
<1>4. Len(callers) \in Nat
  BY DEF Proper
<1>5. ASSUME NEW b \in used', NEW j \in 1 .. Len(program[b].links)
      PROVE  \/ LeadsInto(program[b].links[j], used')
             \/ \E i \in 1 .. Len(stack') : stack'[i].block = b /\ stack'[i].link <= j
  <2>1. CASE block \in referenced /\ stack' = callers /\ used' = used
    BY <1>2, <1>3, <2>1
  <2>2. CASE /\ Len(stack') = Len(callers) + 1
             /\ stack'[1] = [block |-> block, link |-> 1]
             /\ \A i \in 2 .. Len(callers) + 1 : stack'[i] = callers[i - 1]
    <3>1. CASE b = block
      <4>1. 1 \in 1 .. Len(stack') /\ stack'[1].block = b /\ stack'[1].link = 1
        BY <1>4, <2>2, <3>1
      <4>2. 1 <= j
        OBVIOUS
      <4> QED
        BY <4>1, <4>2
    <3>2. CASE b # block
      <4>1. b \in used
        BY <1>3, <3>2
      <4>2. CASE LeadsInto(program[b].links[j], used \cup {block})
        BY <1>3, <4>2
      <4>3. CASE \E i \in 1 .. Len(callers) : callers[i].block = b /\ callers[i].link <= j
        <5>1. PICK i \in 1 .. Len(callers) : callers[i].block = b /\ callers[i].link <= j
          BY <4>3
        <5>2. i + 1 \in 2 .. Len(callers) + 1 /\ i + 1 \in 1 .. Len(stack') /\ (i + 1) - 1 = i
          BY <1>4, <2>2
        <5>3. stack'[i + 1] = callers[i]
          BY <2>2, <5>2
        <5> QED
          BY <5>1, <5>2, <5>3
      <4> QED
        BY <4>1, <4>2, <4>3
    <3> QED
      BY <3>1, <3>2
  <2> QED
    BY <1>1, <2>1, <2>2
<1>6. ASSUME NEW p \in 1 .. Len(order), p < cursor', order[p] \in used'
      PROVE  order[p] \in referenced'
  <2>1. p < cursor \/ order[p] = block
    <3>1. cursor \in Int /\ p \in Int
      BY DEF IInv, ControlInv
    <3> QED
      BY <1>6, <3>1
  <2> QED
    BY <1>1, <1>2, <1>3, <1>6, <2>1
<1>7. \A set \in SUBSET Blocks :
         Roots \subseteq set /\ Closed(set, PossibleTargets) => used' \subseteq set
  BY <1>2, <1>3
<1> QED
  BY <1>2, <1>3, <1>5, <1>6, <1>7 DEF UseNext

LEMMA UseStep ==
    ASSUME IInv, Next
    PROVE  UseInv'
<1> SUFFICES ASSUME phase' \notin {"add", "failed"} PROVE UseInv'
  BY DEF UseInv
<1>1. CASE phase = "add"
  <2>1. Start
    BY <1>1, Phases, Zenon DEF Create, Enter, Join
  <2> QED
    BY <2>1, StartUses
<1>2. CASE phase # "add"
  <2>1. /\ program' = program /\ replaced' = replaced /\ order' = order /\ KeepsEntries
        /\ phase \in {"reference", "arrange", "link"}
    BY <1>2, Framed, Phases, EntriesKept
  <2>2. UseInv /\ cursor \in Nat /\ Len(order) \in Nat
    BY SectionTypes DEF IInv, ControlInv, OrderInv
  <2>3. /\ EntryPoint \in DOMAIN directory /\ Roots \subseteq used
        /\ \A set \in SUBSET Blocks :
              Roots \subseteq set /\ Closed(set, PossibleTargets) => used \subseteq set
        /\ \A b \in used : \A j \in 1 .. Len(program[b].links) :
              \/ LeadsInto(program[b].links[j], used)
              \/ \E i \in 1 .. Len(stack) : stack[i].block = b /\ stack[i].link <= j
        /\ \A p \in 1 .. Len(order) :
              phase # "reference" \/ p < cursor => (order[p] \in used => order[p] \in referenced)
    BY <2>1, <2>2 DEF UseInv
  <2> SUFFICES UseNext
    BY <2>1, UseFromNext
  <2>4. CASE Refer
    <3>1. /\ phase = "reference" /\ stack = <<>> /\ cursor \in 1 .. Len(order)
          /\ cursor' = cursor + 1 /\ phase' = phase /\ order[cursor] \in Blocks
      BY <2>4, ReferVisits
    <3>2. \A b \in used : \A j \in 1 .. Len(program[b].links) :
            LeadsInto(program[b].links[j], used)
      BY <2>3, <3>1
    <3>3. CASE order[cursor] \in used /\ Visit(order[cursor], <<>>)
      <4>1. PICK block \in Blocks : block = order[cursor]
        BY <3>1
      <4>2. used \cup {block} = used
        BY <3>3, <4>1
      <4>3. Proper(<<>>, referenced)
        BY DEF Proper
      <4>4. \A b \in used : \A j \in 1 .. Len(program[b].links) :
              \/ LeadsInto(program[b].links[j], used \cup {block})
              \/ \E i \in 1 .. Len(<<>>) : <<>>[i].block = b /\ <<>>[i].link <= j
        BY <3>2, <4>2
      <4>5. \A set \in SUBSET Blocks :
                Roots \subseteq set /\ Closed(set, PossibleTargets) => block \in set
        BY <2>3, <3>3, <4>1
      <4>6. Visit(block, <<>>)
        BY <3>3, <4>1
      <4>7. /\ phase = "reference" /\ phase' = "reference"
            /\ cursor' = cursor + 1 /\ cursor \in 1 .. Len(order) /\ order[cursor] = block
        BY <3>1, <4>1
      <4> QED
        BY <2>2, <4>3, <4>4, <4>5, <4>6, <4>7, VisitUses
    <3>4. CASE order[cursor] \notin used /\ UNCHANGED <<directory, used, referenced, stack>>
      <4>1. \A p \in 1 .. Len(order) : p < cursor' => p < cursor \/ p = cursor
        BY <2>2, <3>1
      <4>2. \A p \in 1 .. Len(order) :
                p < cursor' => (order[p] \in used' => order[p] \in referenced')
        BY <2>3, <3>4, <4>1
      <4> QED
        BY <2>3, <3>1, <3>2, <3>4, <4>2 DEF UseNext
    <3> QED
      BY <2>4, <3>3, <3>4, ReferVisits
  <2>5. CASE Resolve
    <3> DEFINE top == Head(stack)
               link == program[top.block].links[top.link]
               callers == <<Advanced>> \o Tail(stack)
    <3>1. /\ phase = "reference" /\ phase' = phase /\ cursor' = cursor
          /\ top.block \in referenced /\ top.link \in 1 .. Len(program[top.block].links)
          /\ \/ /\ Target(link) \in DOMAIN directory \ GroupNames
                /\ directory[Target(link)].block \in Blocks
                /\ Visit(directory[Target(link)].block, callers)
             \/ /\ Target(link) \notin DOMAIN directory \ GroupNames
                /\ UNCHANGED <<directory, used, referenced>>
                /\ stack' = callers
      BY <2>5, ResolveVisits
    <3>2. /\ Proper(callers, referenced) /\ Len(callers) = Len(stack)
          /\ Len(stack) \in Nat /\ Len(stack) >= 1 /\ Head(stack) = stack[1]
          /\ callers[1].block = stack[1].block /\ callers[1].link = stack[1].link + 1
          /\ \A i \in 2 .. Len(stack) : callers[i] = stack[i]
      BY <2>5, CallersProper
    <3>3. link.conditions = {} => Target(link) = link.name
      BY DEF Target, IsRequired
    <3>a. top.link \in 1 .. Len(program[top.block].links)
      BY <3>1, Zenon
    <3>b. top.link \in Int
      BY <3>a
    <3> HIDE DEF callers
    <3>4. ASSUME NEW set, used \subseteq set, LeadsInto(link, set),
                 NEW b \in used, NEW j \in 1 .. Len(program[b].links)
          PROVE  \/ LeadsInto(program[b].links[j], set)
                 \/ \E i \in 1 .. Len(callers) : callers[i].block = b /\ callers[i].link <= j
      <4>1. CASE LeadsInto(program[b].links[j], used)
        BY <3>4, <4>1 DEF LeadsInto
      <4>2. CASE \E i \in 1 .. Len(stack) : stack[i].block = b /\ stack[i].link <= j
        <5>1. PICK i \in 1 .. Len(stack) : stack[i].block = b /\ stack[i].link <= j
          BY <4>2
        <5>2. CASE i # 1
          <6>1. i \in 2 .. Len(stack) /\ i \in 1 .. Len(callers)
            BY <3>2, <5>1, <5>2
          <6> QED
            BY <3>2, <5>1, <6>1
        <5>3. CASE i = 1 /\ j = top.link
          <6>1. program[b].links[j] = link
            BY <3>2, <5>1, <5>3
          <6> QED
            BY <3>4, <6>1
        <5>4. CASE i = 1 /\ j # top.link
          <6>1. callers[1].block = b /\ 1 \in 1 .. Len(callers)
            BY <3>2, <5>1, <5>4
          <6>2. top.link <= j /\ callers[1].link = top.link + 1
            BY <3>2, <5>1, <5>4, Zenon
          <6>3. callers[1].link <= j
            BY <3>b, <5>4, <6>2
          <6> QED
            BY <6>1, <6>3
        <5> QED
          BY <5>2, <5>3, <5>4
      <4> QED
        BY <2>3, <4>1, <4>2
    <3>5. CASE /\ Target(link) \in DOMAIN directory \ GroupNames
               /\ directory[Target(link)].block \in Blocks
               /\ Visit(directory[Target(link)].block, callers)
      <4>1. PICK block \in Blocks : block = directory[Target(link)].block
        BY <3>5
      <4>2. LeadsInto(link, used \cup {block})
        BY <3>3, <4>1 DEF LeadsInto
      <4>3. block \in PossibleTargets(top.block)
        <5>1. ~directory[Target(link)].isGroup
          BY <3>5, EntryKinds
        <5>2. Target(link) \in {link.name, link.otherwise}
          BY DEF Target
        <5> QED
          BY <3>1, <3>5, <4>1, <5>1, <5>2 DEF PossibleTargets
      <4>4. top.block \in used
        BY <3>1 DEF IInv, FlagsInv
      <4>5. \A set \in SUBSET Blocks :
                Roots \subseteq set /\ Closed(set, PossibleTargets) => block \in set
        BY <2>3, <4>3, <4>4 DEF Closed
      <4>6. \A b \in used : \A j \in 1 .. Len(program[b].links) :
              \/ LeadsInto(program[b].links[j], used \cup {block})
              \/ \E i \in 1 .. Len(callers) : callers[i].block = b /\ callers[i].link <= j
        BY <3>4, <4>2
      <4>7. Visit(block, callers)
        BY <3>5, <4>1
      <4> QED
        BY <2>2, <3>1, <3>2, <4>5, <4>6, <4>7, VisitUses
    <3>6. CASE /\ Target(link) \notin DOMAIN directory \ GroupNames
               /\ UNCHANGED <<directory, used, referenced>>
               /\ stack' = callers
      <4>1. LeadsInto(link, used)
        BY <3>3, <3>6 DEF LeadsInto
      <4>2. \A b \in used' : \A j \in 1 .. Len(program[b].links) :
              \/ LeadsInto(program[b].links[j], used')
              \/ \E i \in 1 .. Len(stack') : stack'[i].block = b /\ stack'[i].link <= j
        BY <3>4, <3>6, <4>1
      <4> QED
        BY <2>3, <3>1, <3>6, <4>2 DEF UseNext
    <3> QED
      BY <3>1, <3>5, <3>6
  <2>6. CASE Return
    <3>1. /\ stack # <<>> /\ Head(stack).link > Len(program[Head(stack).block].links)
          /\ stack' = Tail(stack) /\ UNCHANGED <<phase, cursor, directory, used, referenced>>
      BY <2>6 DEF Return, control, flags
    <3> DEFINE S == [block : referenced, link : Nat]
    <3>2. stack \in Seq(S)
      BY DEF IInv, StackInv
    <3> HIDE DEF S
    <3>3. /\ Len(stack) \in Nat /\ Head(stack) = stack[1] /\ Len(stack') = Len(stack) - 1
          /\ \A i \in 1 .. Len(stack) - 1 : stack'[i] = stack[i + 1]
      BY <3>1, <3>2, StackElements
    <3>4. ASSUME NEW b \in used, NEW j \in 1 .. Len(program[b].links),
                 NEW i \in 1 .. Len(stack), stack[i].block = b, stack[i].link <= j
          PROVE  \E k \in 1 .. Len(stack') : stack'[k].block = b /\ stack'[k].link <= j
      <4>1. i # 1
        <5>1. Len(program[b].links) \in Nat
          BY LinksNat DEF IInv, FlagsInv
        <5>2. stack[i].link \in Int
          BY <3>4 DEF IInv, StackInv
        <5> QED
          BY <3>1, <3>3, <3>4, <5>1, <5>2
      <4>2. i - 1 \in 1 .. Len(stack) - 1 /\ (i - 1) + 1 = i
        BY <3>3, <4>1
      <4> QED
        BY <3>3, <3>4, <4>2
    <3>5. \A b \in used' : \A j \in 1 .. Len(program[b].links) :
              \/ LeadsInto(program[b].links[j], used')
              \/ \E i \in 1 .. Len(stack') : stack'[i].block = b /\ stack'[i].link <= j
      BY <2>3, <3>1, <3>4
    <3> QED
      BY <2>3, <3>1, <3>5 DEF UseNext
  <2>7. CASE EndReference
    <3>1. /\ phase = "reference" /\ stack = <<>> /\ cursor > Len(order)
          /\ UNCHANGED <<directory, used, referenced, stack>>
      BY <2>7 DEF EndReference, flags
    <3>2. \A p \in 1 .. Len(order) : p < cursor
      BY <2>2, <3>1
    <3> QED
      BY <2>3, <3>1, <3>2 DEF UseNext
  <2>8. CASE ~(Refer \/ Resolve \/ Return \/ EndReference)
    <3>1. Pass \/ Arrange \/ EndArrange \/ Copy \/ Patch \/ EndLink
      BY <1>2, <2>8 DEF Next, Create, Enter, Join, Start
    <3>2. UNCHANGED <<used, referenced, stack>> /\ phase \in {"arrange", "link"}
      BY <3>1 DEF Pass, Arrange, EndArrange, Copy, Patch, EndLink, flags
    <3> QED
      BY <2>3, <3>2 DEF UseNext
  <2> QED
    BY <2>4, <2>5, <2>6, <2>7, <2>8
<1> QED
  BY <1>1, <1>2

-------------------------------------------------------------------------------
(* The values of the links.                                                  *)

LEMMA Appended ==
    ASSUME NEW s, IsSequence(s), NEW e
    PROVE  /\ Len(s) \in Nat
           /\ IsSequence(Append(s, e)) /\ Len(Append(s, e)) = Len(s) + 1
           /\ Append(s, e)[Len(s) + 1] = e
           /\ \A i \in 1 .. Len(s) : Append(s, e)[i] = s[i]
<1> DEFINE set == {s[i] : i \in DOMAIN s}
           both == set \cup {e}
           t == Append(s, e)
<1>1. s \in Seq(set) /\ Len(s) \in Nat
  BY DEF IsSequence
<1> HIDE DEF set
<1>2. /\ t \in Seq(both) /\ Len(t) = Len(s) + 1 /\ t[Len(s) + 1] = e
      /\ \A i \in 1 .. Len(s) : t[i] = s[i]
  BY <1>1
<1> HIDE DEF t, both
<1>3. t \in Seq({t[i] : i \in DOMAIN t})
  BY <1>2
<1> QED
  BY <1>1, <1>2, <1>3 DEF t, IsSequence

\* What Patch has stored for the block at a position of the list.
IsPatched(p) ==
    order[p] \in used =>
        /\ Len(values[order[p]]) = Patched(p)
        /\ \A i \in 1 .. Patched(p) : IsEvaluated(order[p], i)

\* The values are those that the memory and the directory give.
LEMMA KeptValue ==
    ASSUME program' = program, UNCHANGED <<directory, address, index>>,
           NEW b, NEW i, values'[b][i] = values[b][i], IsEvaluated(b, i)
    PROVE  IsEvaluated(b, i)'
<1>1. GroupNames' = GroupNames
  BY DEF GroupNames, Blocks
<1> QED
  BY <1>1 DEF IsEvaluated, Evaluated

LEMMA PatchedNat ==
    ASSUME IInv, NEW p \in 1 .. Len(order)
    PROVE  order[p] \in Blocks /\ Patched(p) \in Nat /\ p \in Nat
<1>1. order[p] \in Blocks
  BY DEF IInv, OrderInv
<1>2. Len(program[order[p]].links) \in Nat /\ inner \in Nat
  BY <1>1, LinksNat DEF IInv, ControlInv
<1> QED
  BY <1>1, <1>2 DEF Patched

\* The link that is patched is the next one of the current block.
LEMMA PatchEvaluates ==
    ASSUME IInv, Patch, phase' \notin {"failed", "aborted"}
    PROVE  LET block == order[cursor]
           IN  /\ phase = "link" /\ phase' = "link" /\ cursor \in 1 .. Len(order)
               /\ block \in Blocks /\ inner \in 1 .. Len(program[block].links)
               /\ inner' = inner + 1 /\ cursor' = cursor
               /\ UNCHANGED <<program, order, used, directory, address, index>>
               /\ \E record :
                    /\ values' = [values EXCEPT ![block] = Append(@, record)]
                    /\ LET link == program[block].links[inner]
                       IN  link.conditions = {} /\ link.name \notin GroupNames \cup {NoName} =>
                            /\ link.name \in DOMAIN directory
                            /\ record = Evaluated(directory[link.name])
<1> DEFINE block == order[cursor]
           link == program[block].links[inner]
<1>1. /\ phase = "link" /\ cursor <= Len(order) /\ cursor' = cursor
      /\ inner \in 1 .. Len(program[block].links)
      /\ UNCHANGED <<program, order, used, directory, address, index>>
  BY DEF Patch, flags, memory
<1>2. \E record :
        /\ values' = [values EXCEPT ![block] = Append(@, record)]
        /\ inner' = inner + 1 /\ phase' = phase
        /\ \/ Target(link) = NoName
           \/ Target(link) \in DOMAIN directory /\ record = Evaluated(directory[Target(link)])
  BY <1>1 DEF Patch
<1>3. link.conditions = {} => Target(link) = link.name
  BY DEF Target, IsRequired
<1>4. cursor \in 1 .. Len(order)
  BY <1>1, SectionTypes DEF IInv, ControlInv, OrderInv
<1>5. block \in Blocks
  BY <1>4 DEF IInv, OrderInv
<1> QED
  BY <1>1, <1>2, <1>3, <1>4, <1>5

LEMMA ValueStep ==
    ASSUME IInv, Next
    PROVE  ValueInv'
<1> SUFFICES ASSUME phase' \notin {"failed", "aborted"} PROVE ValueInv'
  BY DEF ValueInv
<1>1. /\ program' = program /\ Blocks' = Blocks /\ program \in Programs
      /\ cursor \in Nat /\ inner \in Nat /\ Len(order) \in Nat
      /\ phase \in {"reference", "arrange"} => inner = 0
  <2>1. program' = program /\ Blocks' = Blocks
    BY Framed
  <2>2. ControlInv /\ order \in Seq(Blocks)
    BY DEF IInv, OrderInv
  <2>3. Len(order) \in Nat
    BY <2>2
  <2>4. /\ program \in Programs /\ inner \in Nat /\ cursor \in 1 .. Len(program) + 1
        /\ phase \in {"reference", "arrange"} => inner = 0
    BY <2>2, Zenon DEF ControlInv
  <2>5. cursor \in Nat
    BY <2>4, SectionTypes
  <2> QED
    BY <2>1, <2>3, <2>4, <2>5
<1>2. phase \in {"add", "reference", "arrange", "link"}
  BY Phases
<1>3. /\ DOMAIN values = Blocks /\ \A b \in Blocks : IsSequence(values[b])
      /\ phase \in {"add", "reference", "arrange"} => values = [b \in Blocks |-> <<>>]
      /\ phase = "link" /\ inner # 0 =>
            /\ cursor <= Len(order) /\ order[cursor] \in used
            /\ inner <= Len(program[order[cursor]].links) + 1
      /\ \A p \in 1 .. Len(order) : IsPatched(p)
  BY <1>2 DEF IInv, ValueInv, IsPatched
<1>4. CASE phase' \in {"add", "reference", "arrange"}
  <2>1. values' = values /\ phase \in {"add", "reference", "arrange"}
    BY <1>2, <1>4 DEF Next, Create, Enter, Join, Start, Refer, Resolve, Return, EndReference, Pass,
                Arrange, EndArrange, Copy, Patch, EndLink, control
  <2>2. \A p : Patched(p)' = 0
    BY <1>4 DEF Patched
  <2>3. \A p \in 1 .. Len(order') : order'[p] \in Blocks
    <3>1. order' \in Seq(Blocks)
      BY <1>1, OrderStep DEF OrderInv
    <3> QED
      BY <3>1
  <2>4. \A b \in Blocks : Len(values[b]) = 0
    BY <1>3, <2>1
  <2>5. \A p \in 1 .. Len(order') : order'[p] \in used' =>
            /\ Len(values'[order'[p]]) = Patched(p)'
            /\ \A i \in 1 .. Patched(p)' : IsEvaluated(order[p], i)'
    BY <2>1, <2>2, <2>3, <2>4
  <2> QED
    BY <1>1, <1>3, <1>4, <2>1, <2>5 DEF ValueInv, IsSequence
<1>5. CASE phase' \in {"link", "done"}
  <2>1. EndArrange \/ (phase = "link" /\ (Pass \/ Copy \/ Patch \/ EndLink))
    <3>1. ~(Create \/ Enter \/ Join \/ Start \/ Refer \/ Resolve \/ Return \/ EndReference)
      <4>1. stack # <<>> => phase = "reference"
        BY DEF IInv, StackInv
      <4> QED
        BY <1>5, <4>1 DEF Create, Enter, Join, Start, Refer, Resolve, Return, EndReference, control
    <3>2. ~Arrange /\ (Pass \/ Copy \/ Patch \/ EndLink => phase = "link")
      BY <1>5 DEF Arrange, Pass, Copy, Patch, EndLink
    <3> QED
      BY <3>1, <3>2 DEF Next
  <2>2. UNCHANGED <<order, used, directory, address, index>>
    BY <2>1 DEF EndArrange, Pass, Copy, Patch, EndLink, memory, flags
  <2> SUFFICES /\ DOMAIN values' = Blocks /\ \A b \in Blocks : IsSequence(values'[b])
               /\ phase' = "link" /\ inner' # 0 =>
                    /\ cursor' <= Len(order) /\ order[cursor'] \in used
                    /\ inner' <= Len(program[order[cursor']].links) + 1
               /\ \A p \in 1 .. Len(order), b \in used : b = order[p] =>
                    /\ Len(values'[b]) = Patched(p)'
                    /\ \A i \in 1 .. Patched(p)' : IsEvaluated(b, i)'
    BY <1>1, <1>5, <2>2 DEF ValueInv, IsSequence
  <2>3. ASSUME NEW p \in 1 .. Len(order), NEW b \in used, b = order[p],
               values'[b] = values[b], Patched(p)' = Patched(p)
        PROVE  /\ Len(values'[b]) = Patched(p)'
               /\ \A i \in 1 .. Patched(p)' : IsEvaluated(b, i)'
    <3>1. Len(values[b]) = Patched(p) /\ \A i \in 1 .. Patched(p) : IsEvaluated(b, i)
      BY <1>3, <2>3 DEF IsPatched
    <3>2. ASSUME NEW i \in 1 .. Patched(p) PROVE IsEvaluated(b, i)'
      BY <1>1, <2>2, <2>3, <3>1, <3>2, KeptValue
    <3> QED
      BY <2>3, <3>1, <3>2
  <2>4. CASE EndArrange
    <3>1. values' = values /\ cursor' = 1 /\ phase' = "link" /\ inner' = 0 /\ phase = "arrange"
      BY <1>1, <2>4 DEF EndArrange
    <3>2. \A p \in 1 .. Len(order) : Patched(p)' = Patched(p)
      BY <3>1 DEF Patched
    <3> QED
      BY <1>3, <2>3, <3>1, <3>2
  <2>5. CASE Pass /\ phase = "link"
    <3>1. /\ values' = values /\ cursor' = cursor + 1 /\ phase' = phase /\ inner' = inner
          /\ cursor <= Len(order) /\ order[cursor] \notin used
      BY <2>5 DEF Pass
    <3>2. inner = 0
      BY <1>3, <2>5, <3>1
    <3>3. \A p \in 1 .. Len(order) : order[p] \in used => p # cursor
      BY <3>1
    <3>4. \A p \in 1 .. Len(order) : p # cursor => (p < cursor' <=> p < cursor)
      BY <1>1, <3>1
    <3>5. \A p \in 1 .. Len(order) : order[p] \in used => Patched(p)' = Patched(p)
      BY <1>1, <2>2, <2>5, <3>1, <3>2, <3>3, <3>4 DEF Patched
    <3> QED
      BY <1>3, <2>3, <3>1, <3>2, <3>5
  <2>6. CASE Copy
    <3>1. /\ values' = values /\ cursor' = cursor /\ phase = "link" /\ phase' = "link"
          /\ inner = 0 /\ inner' = 1 /\ cursor <= Len(order) /\ order[cursor] \in used
      BY <1>5, <2>6 DEF Copy
    <3>2. \A p \in 1 .. Len(order) : Patched(p)' = Patched(p)
      BY <1>1, <2>2, <3>1 DEF Patched
    <3>3. 1 <= Len(program[order[cursor]].links) + 1
      <4>1. order[cursor] \in Blocks
        BY <3>1 DEF IInv, FlagsInv
      <4>2. Len(program[order[cursor]].links) \in Nat
        BY <4>1, LinksNat
      <4> QED
        BY <4>2
    <3> QED
      BY <1>3, <2>3, <3>1, <3>2, <3>3
  <2>7. CASE Patch
    <3> DEFINE block == order[cursor]
    <3>1. /\ phase = "link" /\ phase' = "link" /\ cursor \in 1 .. Len(order)
          /\ block \in Blocks /\ inner \in 1 .. Len(program[block].links)
          /\ inner' = inner + 1 /\ cursor' = cursor
      BY <2>7, PatchEvaluates
    <3>2. PICK record :
            /\ values' = [values EXCEPT ![block] = Append(@, record)]
            /\ LET link == program[block].links[inner]
               IN  link.conditions = {} /\ link.name \notin GroupNames \cup {NoName} =>
                    /\ link.name \in DOMAIN directory
                    /\ record = Evaluated(directory[link.name])
      BY <2>7, PatchEvaluates
    <3>3. inner # 0 /\ block \in used /\ Patched(cursor) = inner - 1
      BY <1>3, <3>1 DEF Patched
    <3>4. ASSUME NEW p \in 1 .. Len(order), p = cursor PROVE Patched(p)' = inner
      BY <1>1, <2>2, <3>1, <3>3, <3>4 DEF Patched
    <3>5. \A p \in 1 .. Len(order) : p # cursor => order[p] # block
      BY <3>1 DEF IInv, OrderInv
    <3>6. ASSUME NEW p \in 1 .. Len(order), p # cursor PROVE Patched(p)' = Patched(p)
      BY <1>1, <2>2, <3>1, <3>6 DEF Patched
    <3>7. DOMAIN values' = Blocks
      BY <1>3, <3>2
    <3>9. \A b \in Blocks : IsSequence(values'[b])
      <4> TAKE b \in Blocks
      <4>1. CASE b = block
        <5>1. values'[b] = Append(values[b], record)
          BY <1>3, <3>2, <4>1
        <5> QED
          BY <1>3, <5>1, Appended
      <4>2. CASE b # block
        BY <1>3, <3>2, <4>2
      <4> QED
        BY <4>1, <4>2
    <3>10. inner' <= Len(program[block].links) + 1 /\ inner' # 0
      <4>1. Len(program[block].links) \in Nat
        BY <3>1, LinksNat
      <4> QED
        BY <1>1, <3>1, <4>1
    <3>8. ASSUME NEW p \in 1 .. Len(order), NEW b \in used, b = order[p]
          PROVE  /\ Len(values'[b]) = Patched(p)'
                 /\ \A i \in 1 .. Patched(p)' : IsEvaluated(b, i)'
      <4>1. CASE p # cursor
        <5>1. values'[b] = values[b]
          BY <3>2, <3>5, <3>8, <4>1
        <5> QED
          BY <2>3, <3>6, <3>8, <4>1, <5>1
      <4>2. CASE p = cursor
        <5> DEFINE old == values[b]
        <5>1. b = block /\ Len(old) = inner - 1 /\ \A i \in 1 .. inner - 1 : IsEvaluated(b, i)
          BY <1>3, <3>1, <3>3, <3>8, <4>2 DEF IsPatched
        <5>2. values'[b] = Append(old, record) /\ IsSequence(old)
          BY <1>3, <3>1, <3>2, <5>1
        <5>3. /\ Len(values'[b]) = inner /\ values'[b][inner] = record
              /\ \A i \in 1 .. inner - 1 : values'[b][i] = old[i]
          <6>1. Len(old) + 1 = inner
            BY <1>1, <5>1
          <6> HIDE DEF old
          <6> QED
            BY <5>1, <5>2, <6>1, Appended
        <5>4. Patched(p)' = inner
          BY <3>4, <4>2
        <5>5. ASSUME NEW i \in 1 .. inner - 1 PROVE IsEvaluated(b, i)'
          BY <1>1, <2>2, <5>1, <5>3, KeptValue
        <5>6. ASSUME NEW i, i = inner PROVE IsEvaluated(b, i)'
          <6>1. GroupNames' = GroupNames
            BY <1>1 DEF GroupNames
          <6>2. values'[b][i] = record
            BY <5>3, <5>6
          <6> QED
            BY <1>1, <2>2, <3>2, <5>1, <5>6, <6>1, <6>2, ZenonT(60) DEF IsEvaluated, Evaluated
        <5>7. \A i \in 1 .. inner : i \in 1 .. inner - 1 \/ i = inner
          BY <1>1
        <5> QED
          BY <5>3, <5>4, <5>5, <5>6, <5>7
      <4> QED
        BY <4>1, <4>2
    <3> QED
      BY <1>1, <3>1, <3>3, <3>7, <3>8, <3>9, <3>10
  <2>8. CASE EndLink
    <3>1. /\ values' = values /\ phase = "link"
          /\ \/ /\ cursor <= Len(order) /\ inner > Len(program[order[cursor]].links)
                /\ inner' = 0 /\ cursor' = cursor + 1 /\ phase' = phase
             \/ cursor > Len(order) /\ phase' = "done" /\ cursor' = cursor /\ inner' = inner
      BY <2>8, Zenon DEF EndLink
    <3>2. CASE /\ cursor <= Len(order) /\ inner > Len(program[order[cursor]].links)
               /\ inner' = 0 /\ cursor' = cursor + 1 /\ phase' = phase
      <4>1. cursor \in 1 .. Len(order)
        BY <3>2, SectionTypes DEF IInv, ControlInv, OrderInv
      <4>2. Len(program[order[cursor]].links) \in Nat
        <5>1. order[cursor] \in Blocks
          BY <4>1 DEF IInv, OrderInv
        <5> QED
          BY <5>1, LinksNat
      <4>3. inner # 0 /\ inner - 1 = Len(program[order[cursor]].links)
        BY <1>1, <1>3, <3>1, <3>2, <4>2
      <4>4. ASSUME NEW p \in 1 .. Len(order) PROVE Patched(p)' = Patched(p)
        <5>1. p < cursor' <=> (p < cursor \/ p = cursor)
          BY <1>1, <3>2
        <5>2. CASE p = cursor
          BY <1>1, <2>2, <3>1, <3>2, <4>3, <5>1, <5>2 DEF Patched
        <5>3. CASE p # cursor
          BY <1>1, <2>2, <3>1, <3>2, <5>1, <5>3 DEF Patched
        <5> QED
          BY <5>2, <5>3
      <4> QED
        BY <1>3, <2>3, <3>1, <3>2, <4>4
    <3>3. CASE cursor > Len(order) /\ phase' = "done" /\ cursor' = cursor /\ inner' = inner
      <4>1. ASSUME NEW p \in 1 .. Len(order) PROVE Patched(p)' = Patched(p)
        <5>1. p < cursor
          BY <1>1, <3>3
        <5> QED
          BY <1>1, <2>2, <3>1, <3>3, <5>1 DEF Patched
      <4> QED
        BY <1>3, <2>3, <3>1, <3>3, <4>1
    <3> QED
      BY <3>1, <3>2, <3>3
  <2> QED
    BY <2>1, <2>4, <2>5, <2>6, <2>7, <2>8
<1> QED
  BY <1>2, <1>4, <1>5, ControlStep DEF ControlInv

-------------------------------------------------------------------------------
(* The theorems.                                                             *)

LEMMA StutterStep ==
    ASSUME IInv, UNCHANGED vars
    PROVE  IInv'
<1>1. UNCHANGED <<program, phase, cursor, inner, order, directory, replaced, used, referenced,
                  stack, errors, images, address, index, previousCode, values>>
  BY DEF vars, control, flags, memory
<1>2. /\ Blocks' = Blocks /\ GroupNames' = GroupNames
  BY <1>1 DEF Blocks, GroupNames
<1>3. ControlInv'
  BY <1>1 DEF IInv, ControlInv
<1>4. OrderInv'
  BY <1>1, <1>2 DEF IInv, OrderInv, Created, InOccurrence
<1>5. DirectoryInv'
  <2>1. \A b, i : IsEntry(b, i) => IsEntry(b, i)'
    BY <1>1 DEF IsEntry
  <2> QED
    BY <1>1, <1>2, <2>1 DEF IInv, DirectoryInv, GroupEntries
<1>6. NamesInv'
  BY <1>1, <1>2 DEF IInv, NamesInv, IsEntry
<1>7. FlagsInv'
  BY <1>1, <1>2 DEF IInv, FlagsInv, GivesWay
<1>8. StackInv'
  BY <1>1, <1>2 DEF IInv, StackInv, ActivationsDistinct
<1>9. MemoryInv'
  BY <1>1, <1>2 DEF IInv, MemoryInv
<1>10. UseInv'
  <2>1. CASE phase \in {"add", "failed"}
    BY <1>1, <2>1 DEF UseInv
  <2>2. CASE phase \notin {"add", "failed"}
    <3>1. KeepsEntries /\ UseInv
      BY <1>1 DEF IInv, DirectoryInv, KeepsEntries
    <3>2. UseNext
      BY <1>1, <2>2, <3>1 DEF UseInv, UseNext
    <3> QED
      BY <1>1, <3>1, <3>2, UseFromNext
  <2> QED
    BY <2>1, <2>2
<1>11. ValueInv'
  <2>1. \A b, i : IsEvaluated(b, i) => IsEvaluated(b, i)'
    BY <1>1, KeptValue DEF vars
  <2>2. \A p : Patched(p)' = Patched(p)
    BY <1>1 DEF Patched
  <2> QED
    BY <1>1, <1>2, <2>1, <2>2 DEF IInv, ValueInv, IsSequence
<1> QED
  BY <1>3, <1>4, <1>5, <1>6, <1>7, <1>8, <1>9, <1>10, <1>11 DEF IInv

(* The inductive invariant holds in every state of a run of the linker.     *)
THEOREM Invariance == Spec => []IInv
<1>1. IInv /\ [Next]_vars => IInv'
  <2> SUFFICES ASSUME IInv, [Next]_vars PROVE IInv'
    OBVIOUS
  <2>1. CASE Next
    BY <2>1, ControlStep, OrderStep, DirectoryStep, NamesStep, FlagsStep, StackStep, MemoryStep,
       UseStep, ValueStep DEF IInv
  <2>2. CASE UNCHANGED vars
    BY <2>2, StutterStep
  <2> QED
    BY <2>1, <2>2
<1> QED
  BY <1>1, InitIInv, PTL DEF Spec

(* The members of the context keep their types, so that an entry without     *)
(* block is always marked as a group, and only blocks in use are referenced. *)
THEOREM Typing == Spec => []TypeOK
<1>1. IInv => TypeOK
  <2> SUFFICES ASSUME IInv PROVE TypeOK
    OBVIOUS
  <2>1. /\ phase \in {"add", "reference", "arrange", "link", "done", "failed", "aborted"}
        /\ cursor \in 1 .. Len(program) + 1 /\ inner \in Nat /\ errors \in BOOLEAN
        /\ program \in Programs /\ Len(program) \in Nat
    BY SectionTypes, Zenon DEF IInv, ControlInv
  <2>2. /\ order \in Seq(Blocks) /\ 1 .. Len(order) \subseteq Blocks
    BY <2>1 DEF IInv, OrderInv, ControlInv, Created, Blocks
  <2>3. ASSUME NEW name \in DOMAIN directory
        PROVE  /\ directory[name] \in Entry
               /\ directory[name].block = NoBlock => directory[name].isGroup
    <3>1. CASE name \in GroupNames
      <4>1. directory[name] \in GroupEntries
        BY <3>1 DEF IInv, DirectoryInv
      <4> QED
        BY <4>1 DEF GroupEntries, Entry
    <3>2. CASE name \notin GroupNames
      <4>1. PICK b \in 1 .. Len(order) \ replaced : \E i \in 1 .. Len(Names(program[b])) :
                Names(program[b])[i].name = name /\ IsEntry(b, i)
        BY <3>2 DEF IInv, DirectoryInv
      <4>2. PICK i \in 1 .. Len(Names(program[b])) :
                Names(program[b])[i].name = name /\ IsEntry(b, i)
        BY <4>1
      <4>3. b \in Blocks /\ b # NoBlock
        BY <2>1, <2>2, <4>1, SectionTypes
      <4>4. Names(program[b])[i].offset \in Value
        BY <2>1, <4>3, NamesTypes
      <4> QED
        BY <4>2, <4>3, <4>4 DEF IsEntry, BlockEntry, Entry
    <3> QED
      BY <3>1, <3>2
  <2>4. /\ replaced \subseteq Blocks /\ used \subseteq Blocks /\ referenced \subseteq used
    BY <2>2 DEF IInv, FlagsInv
  <2>5. \A i \in 1 .. Len(stack) : stack[i].block \in referenced
    <3> DEFINE S == [block : referenced, link : Nat]
    <3>1. stack \in Seq(S)
      BY DEF IInv, StackInv
    <3> HIDE DEF S
    <3>2. \A i \in 1 .. Len(stack) : stack[i] \in S
      BY <3>1
    <3> QED
      BY <3>2 DEF S
  <2>6. /\ address \in [Blocks -> Value] /\ index \in [Blocks -> 0 .. Len(program)]
        /\ previousCode \in used \cup {NoBlock}
    BY DEF IInv, MemoryInv
  <2>7. \A i \in 1 .. Len(order) : order[i] \in Blocks
    BY <2>2
  <2> QED
    BY <2>1, <2>3, <2>4, <2>5, <2>6, <2>7 DEF TypeOK
<1> QED
  BY <1>1, Invariance, PTL

(* No block that gave way is ever used, under none of its names.             *)
THEOREM Discarding == Spec => []DiscardedIsGone
<1>1. IInv => DiscardedIsGone
  BY DEF IInv, FlagsInv, DiscardedIsGone
<1> QED
  BY <1>1, Invariance, PTL

(* A section only gives way to one that is a substitute for it.              *)
THEOREM GivingWay == Spec => []GivesWay
<1>1. IInv => GivesWay
  BY DEF IInv, FlagsInv
<1> QED
  BY <1>1, Invariance, PTL

(* The names of the sections that were not replaced lead to them, if no      *)
(* section with aliases was replaced.                                        *)
THEOREM Resolution == Spec => []LiveNamesResolve
<1>1. IInv => LiveNamesResolve
  <2> SUFFICES ASSUME IInv, phase \notin {"add", "failed"},
                      \A b \in replaced : program[b].aliases = <<>>,
                      NEW b \in Blocks \ replaced, NEW i \in 1 .. Len(Names(program[b]))
               PROVE  IsEntry(b, i)
    BY DEF LiveNamesResolve, IsEntry
  <2>1. Len(order) = Len(program)
    BY DEF IInv, OrderInv, Created
  <2>2. b \in 1 .. Len(order) \ replaced
    BY <2>1 DEF Blocks
  <2> QED
    BY <2>2 DEF IInv, NamesInv
<1> QED
  BY <1>1, Invariance, PTL

(* Sections that no rule puts in another order keep that of the object files.*)
THEOREM Occurrence == Spec => []InOccurrence
<1>1. IInv => InOccurrence
  BY DEF IInv, OrderInv
<1> QED
  BY <1>1, Invariance, PTL

(* No section is referenced while it is being referenced.                    *)
THEOREM Recursion == Spec => []ActivationsDistinct
<1>1. IInv => ActivationsDistinct
  BY DEF IInv, StackInv
<1> QED
  BY <1>1, Invariance, PTL

(* A program is linked from all that its entry point and its required        *)
(* sections need, and from nothing that no link leads to.                    *)
THEOREM Usage == Spec => []UsedExactly
<1>1. IInv => UsedExactly
  <2> SUFFICES ASSUME IInv, phase = "done" PROVE UsedExactly
    BY DEF UsedExactly
  <2>1. UseInv /\ stack = <<>> /\ Len(order) = Len(program)
    BY DEF IInv, StackInv, OrderInv, Created
  <2>2. /\ Roots \subseteq used
        /\ \A set \in SUBSET Blocks :
              Roots \subseteq set /\ Closed(set, PossibleTargets) => used \subseteq set
        /\ \A b \in used : \A j \in 1 .. Len(program[b].links) :
              LeadsInto(program[b].links[j], used)
        /\ \A p \in 1 .. Len(order) : order[p] \in used => order[p] \in referenced
    BY <2>1 DEF UseInv
  <2>3. used \subseteq referenced
    <3>1. \A b \in used : \E p \in 1 .. Len(order) : order[p] = b
      <4>1. used \subseteq 1 .. Len(order)
        BY <2>1 DEF IInv, FlagsInv, Blocks
      <4> QED
        BY <4>1 DEF IInv, OrderInv
    <3> QED
      BY <2>2, <3>1
  <2>4. referenced = used
    BY <2>3 DEF IInv, FlagsInv
  <2>5. \A b \in used : Touched(b) \subseteq used
    <3> SUFFICES ASSUME NEW b \in used, NEW j \in 1 .. Len(program[b].links),
                        program[b].links[j].conditions = {},
                        program[b].links[j].name \in DOMAIN directory,
                        ~directory[program[b].links[j].name].isGroup
                 PROVE  directory[program[b].links[j].name].block \in used
      BY DEF Touched
    <3>1. program[b].links[j].name \in DOMAIN directory \ GroupNames
      BY EntryKinds
    <3> QED
      BY <2>2, <3>1 DEF LeadsInto
  <2> QED
    BY <2>2, <2>4, <2>5 DEF UsedExactly, Closed, Roots
<1> QED
  BY <1>1, Invariance, PTL

(* A link without conditions evaluates to where its section is, wrapped      *)
(* addresses and offsets of aliases included.                                *)
THEOREM Definition == Spec => []ResolvedToDefinition
<1>1. IInv => ResolvedToDefinition
  <2> SUFFICES ASSUME IInv, phase = "done", NEW b \in used,
                      NEW i \in 1 .. Len(program[b].links),
                      program[b].links[i].conditions = {},
                      program[b].links[i].name \in UNION {NameSet(program[d]) : d \in Blocks}
               PROVE  \E d \in used : \E j \in 1 .. Len(Names(program[d])) :
                        /\ Names(program[d])[j].name = program[b].links[i].name
                        /\ values[b][i].abs = Wrap(address[d] + Names(program[d])[j].offset)
                        /\ values[b][i].ext = Wrap(address[d] + program[d].bytes)
    BY DEF ResolvedToDefinition
  <2> DEFINE name == program[b].links[i].name
             entry == directory[name]
  <2>1. program \in Programs /\ stack = <<>> /\ Len(order) = Len(program)
    BY DEF IInv, ControlInv, StackInv, OrderInv, Created
  <2>2. name \notin GroupNames \cup {NoName}
    BY <2>1, NamesTypes, ZenonT(60) DEF NameSet
  <2>3. name \in DOMAIN directory /\ values[b][i] = Evaluated(entry)
    <3>1. PICK p \in 1 .. Len(order) : order[p] = b
      <4>1. b \in 1 .. Len(order)
        BY <2>1 DEF IInv, FlagsInv, Blocks
      <4> QED
        BY <4>1 DEF IInv, OrderInv
    <3>2. Patched(p) = Len(program[b].links)
      BY <3>1 DEF Patched
    <3>3. IsEvaluated(b, i)
      BY <3>1, <3>2 DEF IInv, ValueInv
    <3> QED
      BY <2>2, <3>3 DEF IsEvaluated
  <2>4. PICK d \in 1 .. Len(order) \ replaced : \E j \in 1 .. Len(Names(program[d])) :
            Names(program[d])[j].name = name /\ IsEntry(d, j)
    BY <2>2, <2>3 DEF IInv, DirectoryInv
  <2>5. PICK j \in 1 .. Len(Names(program[d])) :
            Names(program[d])[j].name = name /\ IsEntry(d, j)
    BY <2>4
  <2> DEFINE offset == Names(program[d])[j].offset
             bytes == program[d].bytes
  <2>6. entry.isGroup = FALSE /\ entry.block = d /\ entry.offset = offset
    BY <2>5 DEF IsEntry, BlockEntry
  <2>7. d \in used
    <3>1. LeadsInto(program[b].links[i], used)
      BY <2>1 DEF IInv, UseInv
    <3> QED
      BY <2>2, <2>3, <2>6, <3>1 DEF LeadsInto
  <2>8. address[d] \in Nat /\ offset \in Nat /\ bytes \in Nat
    <3>1. d \in Blocks
      BY <2>1 DEF Blocks
    <3>2. address[d] \in Value
      BY <3>1 DEF IInv, MemoryInv
    <3>3. offset \in Value
      BY <2>1, <3>1, NamesTypes
    <3>4. bytes \in Value
      BY <2>1, <3>1, SectionTypes DEF Sections
    <3> QED
      BY <3>2, <3>3, <3>4, ModulusNat
  <2> HIDE DEF entry, offset, bytes
  <2>9. /\ Evaluated(entry).abs = Wrap(address[d] + offset)
        /\ Evaluated(entry).ext = Wrap(Wrap(address[d] + offset) + Wrap(bytes - offset))
    BY <2>6 DEF Evaluated, bytes
  <2>10. Wrap(Wrap(address[d] + offset) + Wrap(bytes - offset)) = Wrap(address[d] + bytes)
    <3>1. /\ address[d] + offset \in Int /\ bytes - offset \in Int
          /\ (address[d] + offset) + (bytes - offset) = address[d] + bytes
      BY <2>8, SMTT(30)
    <3>2. Wrap(Wrap(address[d] + offset) + Wrap(bytes - offset))
            = Wrap((address[d] + offset) + (bytes - offset))
      BY <3>1, WrapSum
    <3> QED
      BY <3>1, <3>2
  <2> QED
    BY <2>3, <2>5, <2>7, <2>9, <2>10, Zenon DEF offset, bytes, entry
<1> QED
  BY <1>1, Invariance, PTL
-------------------------------------------------------------------------------
(* Where sections without fixed addresses end up.                            *)

(* The images that sections without a fixed address are stored in.           *)
Images == {CodeImage, DataImage, ConstImage}

\* What the block at the cursor asks its image for.
Asked ==
    LET section == program[order[cursor]]
    IN  IF section.group = NoName THEN section.bytes ELSE directory[section.group].offset

(* What Arrange does, in terms of the allocation that it asks the image for. *)
LEMMA ArrangeAsks ==
    ASSUME IInv, Arrange
    PROVE  LET block == order[cursor]
               section == program[block]
               image == ImageOf(section)
               result == Allocate(images[image], section, Asked)
           IN  /\ cursor \in 1 .. Len(order) /\ block \in used /\ block \in Blocks
               /\ phase = "arrange" /\ used' = used
               /\ section \in Sections /\ (~section.fixed => section.at # 0)
               /\ section.bytes \in Nat /\ section.at \in Nat
               /\ image \in Images /\ IsProper(images[image])
               /\ IsRequest(section) /\ Asked \in Value
               /\ images' = [images EXCEPT ![image] = result.arrangement]
               /\ address' = [address EXCEPT ![block] = result.address]
               /\ IF Refuses(section, result.address) THEN phase' = "failed"
                  ELSE /\ phase' = phase /\ cursor' = cursor + 1
                       /\ previousCode' = IF IsCode(section.type) THEN block ELSE previousCode
<1> DEFINE block == order[cursor]
           section == program[block]
           image == ImageOf(section)
           result == Allocate(images[image], section, Asked)
<1>1. /\ phase = "arrange" /\ cursor <= Len(order) /\ block \in used /\ used' = used
      /\ images' = [images EXCEPT ![image] = result.arrangement]
      /\ address' = [address EXCEPT ![block] = result.address]
      /\ IF Refuses(section, result.address) THEN phase' = "failed"
         ELSE /\ phase' = phase /\ cursor' = cursor + 1
              /\ previousCode' = IF IsCode(section.type) THEN block ELSE previousCode
  BY Zenon DEF Arrange, Asked, flags
<1>2. cursor \in 1 .. Len(order)
  BY <1>1, SectionTypes DEF IInv, ControlInv, OrderInv
<1>3. block \in Blocks
  BY <1>2 DEF IInv, OrderInv
<1>4. section \in Sections /\ (~section.fixed => section.at # 0)
  BY <1>3, SectionTypes DEF IInv, ControlInv
<1>5. image \in Images /\ IsProper(images[image])
  <2>1. image \in Images
    BY DEF ImageOf, Images
  <2> QED
    BY <2>1, Zenon DEF IInv, MemoryInv, Images
<1>6. IsRequest(section) /\ section.bytes \in Nat /\ section.at \in Nat
  BY <1>4, ModulusNat DEF IsRequest, Sections
<1>7. Asked \in Value
  <2>1. section.bytes \in Value
    BY <1>4 DEF Sections
  <2>2. section.group # NoName =>
            directory[section.group] \in GroupEntries
    BY <1>1, <1>3, GroupEntered
  <2> QED
    BY <2>1, <2>2, GroupEntryTypes DEF Asked
<1> HIDE DEF section, image, result, block
<1> QED
  BY <1>1, <1>2, <1>3, <1>4, <1>5, <1>6, <1>7 DEF section, image, result, block

(* Images only grow, so that one that is ample has always been.              *)
LEMMA ArrangeGrows ==
    ASSUME IInv, Arrange, NEW image \in Images, Ample(image)'
    PROVE  Ample(image)
<1> DEFINE own == ImageOf(program[order[cursor]])
           grown == Allocate(images[own], program[order[cursor]], Asked).arrangement
<1>1. own \in Images /\ images' = [images EXCEPT ![own] = grown] /\ used' = used
  BY ArrangeAsks
<1>2. images[own].extent <= grown.extent
  BY ArrangeAsks, AllocateGrows
<1>3. \A i \in Images : images[i].extent \in Nat
  <2>1. \A i \in Images : IsProper(images[i])
    BY Zenon DEF IInv, MemoryInv, Images
  <2> QED
    BY <2>1, ModulusNat DEF IsProper, Arrangement
<1>4. DOMAIN images = Images
  BY DEF IInv, MemoryInv, Images
<1>5. grown.extent \in Nat
  <2>1. IsProper(grown)
    BY ArrangeAsks, AllocateKeeps
  <2> QED
    BY <2>1, ModulusNat DEF IsProper, Arrangement
<1> HIDE DEF own, grown
<1>6. images[image].extent <= images'[image].extent /\ images'[image].extent \in Nat
  BY <1>1, <1>2, <1>3, <1>4, <1>5
<1>7. program' = program
  BY Framed DEF Next
<1> SUFFICES ASSUME NEW b \in used, ImageOf(program[b]) = image
             PROVE  ~program[b].fixed /\ images[image].extent + program[b].at <= Modulus
  BY DEF Ample
<1>8. ~program[b].fixed /\ images'[image].extent + program[b].at <= Modulus
  BY <1>1, <1>7 DEF Ample
<1>9. program[b].at \in Nat
  <2>1. b \in Blocks
    BY DEF IInv, FlagsInv
  <2>2. program[b].at \in Value
    BY <2>1, SectionTypes DEF IInv, ControlInv, Sections
  <2> QED
    BY <2>2, ModulusNat
<1> QED
  BY <1>3, <1>6, <1>8, <1>9, ModulusNat

(* A block that is arranged in an ample image follows the others there.      *)
LEMMA ArrangeFollows ==
    ASSUME IInv, Arrange, phase' # "failed",
           Ample(ImageOf(program[order[cursor]])),
           IsCompact(images[ImageOf(program[order[cursor]])])
    PROVE  LET block == order[cursor]
               section == program[block]
               image == ImageOf(section)
           IN  /\ images[image].extent \in Nat /\ address'[block] \in Nat
               /\ images[image].extent <= address'[block]
               /\ images[image].extent % section.at = 0 => address'[block] = images[image].extent
               /\ address'[block] + section.bytes < Modulus
               /\ IsCompact(images'[image])
               /\ images'[image].extent = address'[block] + section.bytes
               /\ ~Refuses(section, address'[block])
<1> DEFINE block == order[cursor]
           section == program[block]
           image == ImageOf(section)
           result == Allocate(images[image], section, Asked)
<1>1. /\ block \in used /\ block \in Blocks
      /\ section.bytes \in Nat /\ section.at \in Nat
      /\ image \in Images /\ IsProper(images[image])
      /\ IsRequest(section) /\ Asked \in Value
      /\ images' = [images EXCEPT ![image] = result.arrangement]
      /\ address' = [address EXCEPT ![block] = result.address]
      /\ ~Refuses(section, result.address)
  BY ArrangeAsks
<1>2. ~section.fixed /\ images[image].extent + section.at <= Modulus
  BY <1>1 DEF Ample
<1>3. images[image].extent \in Nat
  BY <1>1, ModulusNat DEF IsProper, Arrangement
<1>4. /\ result.address \in Nat /\ images[image].extent <= result.address
      /\ images[image].extent % section.at = 0 => result.address = images[image].extent
      /\ Wrap(result.address + section.bytes) >= result.address =>
           /\ result.address + section.bytes < Modulus
           /\ IsCompact(result.arrangement)
           /\ result.arrangement.extent = result.address + section.bytes
  BY <1>1, <1>2, AllocateCompact
<1> HIDE DEF result
<1>5. Wrap(result.address + section.bytes) >= result.address
  <2>1. ~(Wrap(result.address + section.bytes) < result.address)
    BY <1>1, Zenon DEF Refuses, End
  <2>2. Wrap(result.address + section.bytes) \in Nat
    <3>1. result.address + section.bytes \in Nat
      BY <1>1, <1>4
    <3> QED
      BY <3>1, WrapValue, ModulusNat
  <2> QED
    BY <1>4, <2>1, <2>2
<1>6. /\ DOMAIN images = Images /\ DOMAIN address = Blocks
  BY DEF IInv, MemoryInv, Images
<1> HIDE DEF block, section, image
<1>7. images'[image] = result.arrangement /\ address'[block] = result.address
  BY <1>1, <1>6
<1> QED
  BY <1>1, <1>3, <1>4, <1>5, <1>7 DEF block, section, image

(* Addresses are given from the moment that the blocks are arranged.         *)
Placing == phase \in {"arrange", "link", "done"}

\* Whether the block at a position of the list has an address.
IsArranged(p) == order[p] \in used /\ (phase = "arrange" => p < cursor)

IsIn(p, image) == IsArranged(p) /\ ImageOf(program[order[p]]) = image

EndOf(p) == address[order[p]] + program[order[p]].bytes

PlaceInv ==
    /\ phase \in {"add", "reference"} => \A image \in Images : images[image] = EmptyArrangement
    /\ Placing => \A image \in Images : Ample(image) =>
         /\ IsCompact(images[image])
         /\ \A p \in 1 .. Len(order) : IsIn(p, image) =>
              /\ EndOf(p) <= images[image].extent
              /\ \A q \in 1 .. p - 1 : IsIn(q, image) => EndOf(q) <= address[order[p]]

(* The types that the proofs about positions of the list keep needing.       *)
LEMMA PlaceTypes ==
    ASSUME IInv
    PROVE  /\ program \in Programs /\ order \in Seq(Blocks) /\ Len(order) \in Nat
           /\ cursor \in Nat /\ cursor >= 1
           /\ \A p \in 1 .. Len(order) :
                /\ order[p] \in Blocks /\ address[order[p]] \in Nat
                /\ program[order[p]] \in Sections
                /\ program[order[p]].bytes \in Nat /\ program[order[p]].at \in Nat
                /\ ImageOf(program[order[p]]) \in Images
                /\ EndOf(p) \in Nat
           /\ \A p, q \in 1 .. Len(order) : order[p] = order[q] => p = q
           /\ images \in [Images -> Arrangement] /\ address \in [Blocks -> Value]
           /\ \A image \in Images : images[image].extent \in Nat
<1>1. /\ program \in Programs /\ order \in Seq(Blocks) /\ Len(order) \in Nat
      /\ cursor \in Nat /\ cursor >= 1
      /\ images \in [Images -> Arrangement] /\ address \in [Blocks -> Value]
      /\ \A p, q \in 1 .. Len(order) : order[p] = order[q] => p = q
  <2>1. program \in Programs /\ order \in Seq(Blocks)
    BY DEF IInv, ControlInv, OrderInv
  <2>2. Len(program) \in Nat
    BY <2>1, SectionTypes
  <2>3. cursor \in Nat /\ cursor >= 1
    BY <2>2 DEF IInv, ControlInv
  <2>4. images \in [Images -> Arrangement] /\ address \in [Blocks -> Value]
    BY DEF IInv, MemoryInv, Images
  <2>5. \A p, q \in 1 .. Len(order) : order[p] = order[q] => p = q
    BY DEF IInv, OrderInv
  <2> QED
    BY <2>1, <2>3, <2>4, <2>5
<1>2. ASSUME NEW p \in 1 .. Len(order)
      PROVE  /\ order[p] \in Blocks /\ address[order[p]] \in Nat
             /\ program[order[p]] \in Sections
             /\ program[order[p]].bytes \in Nat /\ program[order[p]].at \in Nat
             /\ ImageOf(program[order[p]]) \in Images
             /\ EndOf(p) \in Nat
  <2>1. order[p] \in Blocks
    BY <1>1
  <2>2. program[order[p]] \in Sections
    BY <1>1, <2>1, SectionTypes
  <2>3. program[order[p]].bytes \in Nat /\ program[order[p]].at \in Nat
    BY <2>2, ModulusNat DEF Sections
  <2>4. address[order[p]] \in Nat
    BY <1>1, <2>1, ModulusNat
  <2>5. ImageOf(program[order[p]]) \in Images
    BY DEF ImageOf, Images
  <2> QED
    BY <2>1, <2>2, <2>3, <2>4, <2>5 DEF EndOf
<1>3. \A image \in Images : images[image].extent \in Nat
  <2>1. \A image \in Images : images[image] \in Arrangement
    BY <1>1
  <2> QED
    BY <2>1, ModulusNat DEF Arrangement
<1> QED
  BY <1>1, <1>2, <1>3

(* While blocks are arranged and linked, only Arrange gives addresses.       *)
LEMMA PlacesKept ==
    ASSUME IInv, Next, ~Arrange
    PROVE  /\ images' = images /\ address' = address /\ index' = index
           /\ previousCode' = previousCode
           /\ phase # "arrange" => phase' # "arrange" \/ EndReference
           /\ Placing =>
                /\ used' = used /\ order' = order /\ program' = program
                /\ directory' = directory
                /\ \A p \in 1 .. Len(order) : Placing' => IsArranged(p)' = IsArranged(p)
           /\ ~Placing => (Placing' => EndReference)
<1>1. stack # <<>> => phase = "reference"
  BY DEF IInv, StackInv
<1>2. /\ images' = images /\ address' = address /\ index' = index
      /\ previousCode' = previousCode
  BY DEF Next, Create, Enter, Join, Start, Refer, Resolve, Return, EndReference, Pass,
         EndArrange, Copy, Patch, EndLink, memory
<1>3. /\ phase # "arrange" => phase' # "arrange" \/ EndReference
      /\ ~Placing => (Placing' => EndReference)
  <2>1. CASE phase \in {"arrange", "link", "done"}
    BY <1>1, <2>1 DEF Next, Create, Enter, Join, Start, Refer, Resolve, Return, Pass,
         EndArrange, Copy, Patch, EndLink, Placing
  <2>2. CASE phase \notin {"arrange", "link", "done"}
    <3>1. phase' = phase \/ Start \/ EndReference
      BY <1>1, <2>2, Zenon DEF Next, Create, Enter, Join, Refer, Resolve, Return, Pass,
         EndArrange, Copy, Patch, EndLink, control
    <3>2. Start => phase' \in {"failed", "reference"}
      BY DEF Start
    <3> QED
      BY <2>2, <3>1, <3>2 DEF Placing
  <2> QED
    BY <2>1, <2>2
<1>4. ASSUME Placing
      PROVE  /\ used' = used /\ order' = order /\ program' = program /\ directory' = directory
             /\ \A p \in 1 .. Len(order) : Placing' => IsArranged(p)' = IsArranged(p)
  <2>1. Pass \/ EndArrange \/ Copy \/ Patch \/ EndLink
    BY <1>1, <1>4 DEF Placing, Next, Create, Enter, Join, Start, Refer, Resolve, Return,
                      EndReference
  <2>2. used' = used /\ order' = order /\ program' = program /\ directory' = directory
    BY <2>1, Zenon DEF Pass, EndArrange, Copy, Patch, EndLink, flags
  <2>3. ASSUME NEW p \in 1 .. Len(order), Placing' PROVE IsArranged(p)' = IsArranged(p)
    <3>1. cursor \in Nat /\ p \in Nat /\ Len(order) \in Nat
      BY PlaceTypes
    <3>2. CASE Pass
      <4>1. /\ order[cursor] \notin used /\ phase' = phase /\ cursor' = cursor + 1
        BY <3>2 DEF Pass
      <4>2. order[p] \in used => (p < cursor' <=> p < cursor)
        BY <3>1, <4>1
      <4> QED
        BY <2>2, <4>1, <4>2 DEF IsArranged
    <3>3. CASE EndArrange
      <4>1. phase = "arrange" /\ phase' = "link" /\ cursor > Len(order)
        BY <3>3 DEF EndArrange
      <4>2. p < cursor
        BY <3>1, <4>1
      <4> QED
        BY <2>2, <4>1, <4>2 DEF IsArranged
    <3>4. CASE Copy \/ Patch \/ EndLink
      <4>1. phase # "arrange" /\ phase' # "arrange"
        BY <3>4 DEF Copy, Patch, EndLink
      <4> QED
        BY <2>2, <4>1 DEF IsArranged
    <3> QED
      BY <2>1, <3>2, <3>3, <3>4
  <2> QED
    BY <2>2, <2>3
<1> QED
  BY <1>2, <1>3, <1>4

(* An image is compact before anything is stored in it.                      *)
LEMMA EmptyCompact == IsCompact(EmptyArrangement)
BY DEF EmptyArrangement, IsCompact

(* Nothing is placed at first.                                               *)
LEMMA PlaceInit == Init => PlaceInv
BY DEF Init, PlaceInv, Placing, Images

(* What is placed in an ample image stays behind what was placed before it.  *)
LEMMA PlaceStep ==
    ASSUME IInv, PlaceInv, Next
    PROVE  PlaceInv'
<1>1. CASE phase' \in {"add", "reference"}
  <2>1. phase \in {"add", "reference"}
    <3>1. phase # "add" => phase \in {"reference", "arrange", "link"}
      BY Phases
    <3>2. phase \in {"arrange", "link"} => phase' \notin {"add", "reference"}
      <4>1. stack # <<>> => phase = "reference"
        BY DEF IInv, StackInv
      <4> QED
        BY <4>1, Zenon DEF Next, Create, Enter, Join, Start, Refer, Resolve, Return, EndReference,
                    Pass, Arrange, EndArrange, Copy, Patch, EndLink
    <3> QED
      BY <1>1, <3>1, <3>2
  <2>2. ~Arrange
    BY <2>1 DEF Arrange
  <2>3. images' = images
    BY <2>2, PlacesKept
  <2> QED
    BY <1>1, <2>1, <2>3 DEF PlaceInv, Placing
<1>2. CASE Placing' /\ ~Placing
  <2>1. EndReference /\ images' = images
    <3>1. ~Arrange
      BY <1>2 DEF Arrange, Placing
    <3> QED
      BY <1>2, <3>1, PlacesKept
  <2>2. phase = "reference" /\ phase' = "arrange" /\ cursor' = 1
    BY <1>2, <2>1 DEF EndReference, Placing
  <2>3. \A image \in Images : IsCompact(images'[image])
    BY <2>1, <2>2, EmptyCompact DEF PlaceInv
  <2>4. \A p \in 1 .. Len(order') : ~IsArranged(p)'
    BY <2>2, PlaceTypes DEF IsArranged
  <2> QED
    BY <1>2, <2>2, <2>3, <2>4 DEF PlaceInv, IsIn
<1>3. CASE Placing' /\ Placing /\ ~Arrange
  <2>1. /\ images' = images /\ address' = address /\ used' = used /\ order' = order
        /\ program' = program
        /\ \A p \in 1 .. Len(order) : IsArranged(p)' = IsArranged(p)
    BY <1>3, PlacesKept
  <2>2. \A image : Ample(image)' = Ample(image)
    BY <2>1 DEF Ample
  <2>3. \A p \in 1 .. Len(order) : \A image : IsIn(p, image)' = IsIn(p, image)
    BY <2>1 DEF IsIn
  <2>4. \A p \in 1 .. Len(order) : \A q \in 1 .. p - 1 : q \in 1 .. Len(order)
    BY PlaceTypes
  <2> QED
    BY <1>3, <2>1, <2>2, <2>3, <2>4 DEF PlaceInv, Placing, EndOf
<1>4. CASE Placing' /\ Arrange
  <2>0. PICK block, own : block = order[cursor] /\ own = ImageOf(program[order[cursor]])
    OBVIOUS
  <2>1. /\ cursor \in 1 .. Len(order) /\ block \in used /\ block \in Blocks /\ own \in Images
        /\ phase = "arrange" /\ used' = used /\ order' = order /\ program' = program
        /\ phase' = phase /\ cursor' = cursor + 1
    <3>1. phase' # "failed"
      BY <1>4 DEF Placing
    <3>2. order' = order /\ program' = program
      BY <1>4, Zenon DEF Arrange
    <3> QED
      BY <1>4, <2>0, <3>1, <3>2, ArrangeAsks
  <2>2. PICK grown, begin : /\ images' = [images EXCEPT ![own] = grown]
                            /\ address' = [address EXCEPT ![block] = begin]
    BY <1>4, <2>0, ArrangeAsks
  <2>3. ASSUME NEW image \in Images, Ample(image)' PROVE Ample(image)
    BY <1>4, <2>3, ArrangeGrows
  <2>4. Ample(own)' =>
            /\ Ample(own) /\ IsCompact(images[own])
            /\ images[own].extent \in Nat /\ begin \in Nat
            /\ images[own].extent <= begin
            /\ IsCompact(grown)
            /\ grown.extent = begin + program[block].bytes
    <3> SUFFICES ASSUME Ample(own)' 
                 PROVE
            /\ Ample(own) /\ IsCompact(images[own])
            /\ images[own].extent \in Nat /\ begin \in Nat
            /\ images[own].extent <= begin
            /\ IsCompact(grown)
            /\ grown.extent = begin + program[block].bytes
      OBVIOUS
    <3>1. Ample(own) /\ IsCompact(images[own])
      BY <2>1, <2>3 DEF PlaceInv, Placing
    <3>2. phase' # "failed"
      BY <2>1
    <3>3. images'[own] = grown /\ address'[block] = begin
      <4>1. DOMAIN images = Images /\ DOMAIN address = Blocks
        BY PlaceTypes
      <4> QED
        BY <2>1, <2>2, <4>1
    <3>4. /\ images[own].extent \in Nat /\ address'[block] \in Nat
          /\ images[own].extent <= address'[block]
          /\ IsCompact(images'[own])
          /\ images'[own].extent = address'[block] + program[block].bytes
      BY <1>4, <2>0, <3>1, <3>2, ArrangeFollows
    <3> QED
      BY <3>1, <3>3, <3>4
  <2>12. program[block].bytes \in Nat
    BY <2>0, <2>1, PlaceTypes
  <2>13. Ample(own)' => grown.extent \in Nat /\ images[own].extent <= grown.extent
    <3> SUFFICES ASSUME Ample(own)' PROVE grown.extent \in Nat /\ images[own].extent <= grown.extent
      OBVIOUS
    <3>1. /\ images[own].extent \in Nat /\ begin \in Nat /\ images[own].extent <= begin
          /\ grown.extent = begin + program[block].bytes
      BY <2>4
    <3> QED
      BY <2>12, <3>1
  <2>5. \A p \in 1 .. Len(order) : IsArranged(p)' = (IsArranged(p) \/ p = cursor)
    <3> SUFFICES ASSUME NEW p \in 1 .. Len(order)
                 PROVE  IsArranged(p)' = (IsArranged(p) \/ p = cursor)
      OBVIOUS
    <3>1. p < cursor' <=> (p < cursor \/ p = cursor)
      BY <2>1, PlaceTypes
    <3> QED
      BY <2>0, <2>1, <3>1 DEF IsArranged
  <2>6. \A p \in 1 .. Len(order) :
            address'[order[p]] = IF p = cursor THEN begin ELSE address[order[p]]
    <3>1. \A p \in 1 .. Len(order) : order[p] \in Blocks /\ (order[p] = block => p = cursor)
      BY <2>0, <2>1, PlaceTypes
    <3>2. address \in [Blocks -> Value]
      BY PlaceTypes
    <3>3. \A b \in Blocks : address'[b] = IF b = block THEN begin ELSE address[b]
      BY <2>1, <2>2, <3>2
    <3> QED
      BY <2>0, <3>1, <3>3
  <2>7. \A i \in Images : images'[i] = IF i = own THEN grown ELSE images[i]
    <3>1. DOMAIN images = Images
      BY PlaceTypes
    <3> QED
      BY <2>1, <2>2, <3>1
  <2>8. \A p \in 1 .. Len(order) :
            EndOf(p)' = IF p = cursor THEN begin + program[block].bytes ELSE EndOf(p)
    BY <2>0, <2>1, <2>6 DEF EndOf
  <2>9. ASSUME NEW image \in Images, Ample(image)', NEW p \in 1 .. Len(order), IsIn(p, image)'
        PROVE  /\ EndOf(p)' <= images'[image].extent
               /\ \A q \in 1 .. p - 1 : IsIn(q, image)' => EndOf(q)' <= address'[order[p]]
    <3>1. Ample(image) /\ (p = cursor => image = own) /\ ImageOf(program[order[p]]) = image
      BY <2>0, <2>1, <2>3, <2>9 DEF IsIn
    <3>2. \A q \in 1 .. p - 1 : /\ q \in 1 .. Len(order) /\ q < p
                                /\ IsIn(q, image)' = (IsIn(q, image) \/ (q = cursor /\ image = own))
      <4> SUFFICES ASSUME NEW q \in 1 .. p - 1
                   PROVE  /\ q \in 1 .. Len(order) /\ q < p
                          /\ IsIn(q, image)' = (IsIn(q, image) \/ (q = cursor /\ image = own))
        OBVIOUS
      <4>1. q \in 1 .. Len(order) /\ q < p
        BY PlaceTypes
      <4> QED
        BY <2>0, <2>1, <2>5, <4>1 DEF IsIn
    <3>3. CASE p = cursor
      <4>1. \A q \in 1 .. p - 1 : q # cursor
        BY <3>2, <3>3
      <4>2. ASSUME NEW q \in 1 .. p - 1, IsIn(q, image)' PROVE EndOf(q)' <= begin
        <5>1. IsIn(q, image) /\ EndOf(q)' = EndOf(q)
          BY <2>8, <3>2, <4>1, <4>2
        <5>2. EndOf(q) <= images[image].extent
          BY <2>1, <3>1, <3>2, <5>1 DEF PlaceInv, Placing
        <5> QED
          BY <2>4, <2>9, <3>1, <3>2, <3>3, <5>1, <5>2, PlaceTypes
      <4>3. EndOf(p)' = grown.extent /\ images'[image] = grown /\ address'[order[p]] = begin
        BY <2>4, <2>6, <2>7, <2>8, <2>9, <3>1, <3>3
      <4>4. grown.extent \in Nat
        BY <2>13, <2>9, <3>1, <3>3
      <4> QED
        BY <4>2, <4>3, <4>4
    <3>4. CASE p # cursor
      <4>1. IsIn(p, image) /\ EndOf(p)' = EndOf(p) /\ address'[order[p]] = address[order[p]]
        BY <2>1, <2>5, <2>6, <2>8, <2>9, <3>4 DEF IsIn
      <4>2. p < cursor
        BY <2>1, <4>1 DEF IsIn, IsArranged
      <4>3. /\ EndOf(p) <= images[image].extent
            /\ \A q \in 1 .. p - 1 : IsIn(q, image) => EndOf(q) <= address[order[p]]
        BY <2>1, <3>1, <4>1 DEF PlaceInv, Placing
      <4>4. \A q \in 1 .. p - 1 : IsIn(q, image)' => EndOf(q)' <= address'[order[p]]
        <5> SUFFICES ASSUME NEW q \in 1 .. p - 1, IsIn(q, image)'
                     PROVE  EndOf(q)' <= address'[order[p]]
          OBVIOUS
        <5>1. q # cursor
          BY <3>2, <4>2, PlaceTypes
        <5>2. IsIn(q, image) /\ EndOf(q)' = EndOf(q)
          BY <2>8, <3>2, <5>1
        <5> QED
          BY <4>1, <4>3, <5>2
      <4>5. images[image].extent <= images'[image].extent
        <5>1. CASE image = own
          BY <2>13, <2>7, <2>9, <5>1
        <5>2. CASE image # own
          BY <2>7, <5>2, PlaceTypes
        <5> QED
          BY <5>1, <5>2
      <4>6. images'[image].extent \in Nat /\ images[image].extent \in Nat /\ EndOf(p) \in Nat
        BY <2>13, <2>7, <2>9, PlaceTypes
      <4> QED
        BY <4>1, <4>3, <4>4, <4>5, <4>6
    <3> QED
      BY <3>3, <3>4
  <2>10. ASSUME NEW image \in Images, Ample(image)' PROVE IsCompact(images'[image])
    <3>1. Ample(image)
      BY <2>3, <2>10
    <3>2. IsCompact(images[image])
      BY <2>1, <3>1 DEF PlaceInv, Placing
    <3> QED
      BY <2>4, <2>7, <2>10, <3>2
  <2>11. phase' \notin {"add", "reference"}
    BY <2>1
  <2> QED
    BY <2>1, <2>9, <2>10, <2>11 DEF PlaceInv, Images
<1>5. CASE ~Placing' /\ phase' \notin {"add", "reference"}
  BY <1>5 DEF PlaceInv
<1> QED
  BY <1>1, <1>2, <1>3, <1>4, <1>5

\* The code that is executed follows the code before it; what was arranged last
\* is the end of the image.
ExecInv ==
    Placing /\ Ample(CodeImage) =>
        /\ \A i, j \in 1 .. Len(order) :
             /\ i < j /\ IsArranged(i) /\ IsArranged(j)
             /\ Executed(order[i]) /\ Executed(order[j])
             /\ \A k \in i + 1 .. j - 1 : ~Executed(order[k])
             => address[order[j]] = EndOf(i)
        /\ phase = "arrange" => \A p \in 1 .. Len(order) :
             /\ p < cursor /\ Executed(order[p])
             /\ \A k \in p + 1 .. cursor - 1 : order[k] \notin used
             => previousCode = order[p] /\ images[CodeImage].extent = EndOf(p)

(* Executed blocks are arranged in the image of code, without a group.       *)
LEMMA ExecutedCode ==
    ASSUME IInv, NEW b, Executed(b)
    PROVE  /\ b \in used /\ b \in Blocks /\ ~program[b].fixed /\ Placement(program[b]) \in 2 .. 4
           /\ IsCode(program[b].type) /\ ImageOf(program[b]) = CodeImage
<1>1. b \in used /\ b \in Blocks /\ Placement(program[b]) \in 2 .. 4
  BY DEF Executed, IInv, FlagsInv
<1>2. program[b] \in Sections
  BY <1>1, SectionTypes DEF IInv, ControlInv
<1>3. program[b].type \in Types /\ ~program[b].fixed
  BY <1>1, <1>2, PlacementNat DEF Sections
<1> DEFINE placements == [header |-> 1, initdata |-> 2, initcode |-> 3, code |-> 5,
                          const |-> 6, data |-> 7, trailer |-> 8]
<1>4. CASE IsEntryPoint(program[b])
  BY <1>1, <1>3, <1>4 DEF IsEntryPoint, IsCode, ImageOf
<1>5. CASE ~IsEntryPoint(program[b])
  <2>1. Placement(program[b]) = placements[program[b].type]
    BY <1>3, <1>5, Zenon DEF Placement
  <2>2. \A type \in Types : placements[type] \in 2 .. 4 => type \in {"initdata", "initcode"}
    BY DEF Types
  <2>3. program[b].type \in {"initdata", "initcode"}
    BY <1>1, <1>3, <2>1, <2>2
  <2> QED
    BY <1>1, <1>3, <2>3 DEF IsCode, ImageOf
<1> QED
  BY <1>4, <1>5

(* What is executed is neighboured in the list.                              *)
LEMMA ExecutedBetween ==
    ASSUME IInv, NEW i \in 1 .. Len(order), NEW j \in 1 .. Len(order), NEW k \in i + 1 .. j - 1,
           Executed(order[i]), Executed(order[j]), order[k] \in used
    PROVE  Executed(order[k])
<1>1. Len(order) \in Nat
  BY PlaceTypes
<1>2. k \in 1 .. Len(order) /\ i < k /\ k < j
  BY <1>1
<1>3. ~Less(program[order[k]], program[order[i]]) /\ ~Less(program[order[j]], program[order[k]])
  BY <1>2 DEF IInv, OrderInv, InOccurrence
<1>4. /\ program[order[i]] \in Sections /\ program[order[j]] \in Sections
      /\ program[order[k]] \in Sections
  BY <1>2, PlaceTypes
<1>5. /\ Placement(program[order[i]]) \in Nat /\ Placement(program[order[j]]) \in Nat
      /\ Placement(program[order[k]]) \in Nat
  BY <1>4, PlacementNat
<1>6. /\ ~(Placement(program[order[k]]) < Placement(program[order[i]]))
      /\ ~(Placement(program[order[j]]) < Placement(program[order[k]]))
  <2>1. \A s, t : Placement(s) \in Nat /\ Placement(t) \in Nat /\ Placement(s) < Placement(t) => Less(s, t)
    BY DEF Less
  <2> QED
    BY <1>3, <1>5, <2>1
<1> QED
  BY <1>5, <1>6 DEF Executed

(* Nothing is executed at first.                                             *)
LEMMA ExecInit == Init => ExecInv
BY DEF Init, ExecInv, Placing

(* Arrange reports an error unless executed code follows the code before it. *)
LEMMA ExecStep ==
    ASSUME IInv, PlaceInv, ExecInv, Next
    PROVE  ExecInv'
<1>1. CASE Placing' /\ ~Placing
  <2>1. EndReference
    <3>1. ~Arrange
      BY <1>1 DEF Arrange, Placing
    <3> QED
      BY <1>1, <3>1, PlacesKept
  <2>2. phase' = "arrange" /\ cursor' = 1 /\ order' = order
    BY <1>1, <2>1 DEF EndReference, Placing
  <2>3. \A p \in 1 .. Len(order) : ~(p < cursor')
    BY <2>2, PlaceTypes
  <2> QED
    BY <2>2, <2>3 DEF ExecInv, IsArranged
<1>2. CASE Placing' /\ Placing /\ ~Arrange
  <2>1. /\ images' = images /\ address' = address /\ used' = used /\ order' = order
        /\ program' = program /\ previousCode' = previousCode
        /\ \A p \in 1 .. Len(order) : IsArranged(p)' = IsArranged(p)
    BY <1>2, PlacesKept
  <2>2. Ample(CodeImage)' = Ample(CodeImage) /\ \A b : Executed(b)' = Executed(b)
    BY <2>1 DEF Ample, Executed
  <2>3. \A p : EndOf(p)' = EndOf(p)
    BY <2>1 DEF EndOf
  <2>4. ASSUME Ample(CodeImage)', NEW i \in 1 .. Len(order), NEW j \in 1 .. Len(order),
               i < j, IsArranged(i), IsArranged(j), Executed(order[i]), Executed(order[j]),
               \A k \in i + 1 .. j - 1 : ~Executed(order[k])
        PROVE  address[order[j]] = EndOf(i)
    BY <1>2, <2>2, <2>4 DEF ExecInv
  <2>5. ASSUME Ample(CodeImage)', phase' = "arrange", NEW p \in 1 .. Len(order),
               p < cursor', Executed(order[p]),
               \A k \in p + 1 .. cursor' - 1 : order[k] \notin used
        PROVE  previousCode = order[p] /\ images[CodeImage].extent = EndOf(p)
    <3>1. phase = "arrange" /\ (cursor' = cursor \/ Pass)
      <4>1. phase = "arrange"
        <5>1. EndReference => ~Placing
          BY DEF EndReference, Placing
        <5> QED
          BY <1>2, <2>5, <5>1, PlacesKept
      <4>2. Pass \/ EndArrange
        <5>1. stack # <<>> => phase = "reference"
          BY DEF IInv, StackInv
        <5> QED
          BY <1>2, <4>1, <5>1 DEF Next, Create, Enter, Join, Start, Refer, Resolve, Return, EndReference,
             Copy, Patch, EndLink
      <4>3. ~EndArrange
        BY <2>5 DEF EndArrange
      <4> QED
        BY <4>1, <4>2, <4>3
    <3>2. p < cursor /\ \A k \in p + 1 .. cursor - 1 : order[k] \notin used
      <4>1. CASE cursor' = cursor
        BY <2>5, <4>1
      <4>2. CASE Pass
        <5>1. order[cursor] \notin used /\ cursor' = cursor + 1
          BY <4>2 DEF Pass
        <5>2. p # cursor
          BY <2>5, <5>1, ExecutedCode
        <5>3. cursor \in Nat /\ p \in Nat
          BY PlaceTypes
        <5>4. p < cursor /\ p + 1 .. cursor - 1 \subseteq p + 1 .. cursor' - 1
          BY <2>5, <5>1, <5>2, <5>3
        <5> QED
          BY <2>5, <5>4
      <4> QED
        BY <3>1, <4>1, <4>2
    <3> QED
      BY <1>2, <2>2, <2>5, <3>1, <3>2 DEF ExecInv
  <2> QED
    BY <2>1, <2>2, <2>3, <2>4, <2>5 DEF ExecInv
<1>3. CASE Placing' /\ Arrange
  <2>0. PICK block, own : block = order[cursor] /\ own = ImageOf(program[order[cursor]])
    OBVIOUS
  <2>1. /\ cursor \in 1 .. Len(order) /\ block \in used /\ block \in Blocks /\ own \in Images
        /\ phase = "arrange" /\ used' = used /\ order' = order /\ program' = program
        /\ phase' = phase /\ cursor' = cursor + 1 /\ phase' # "failed"
        /\ previousCode' = IF IsCode(program[block].type) THEN block ELSE previousCode
    <3>1. phase' # "failed"
      BY <1>3 DEF Placing
    <3>2. order' = order /\ program' = program
      BY <1>3, Zenon DEF Arrange
    <3> QED
      BY <1>3, <2>0, <3>1, <3>2, ArrangeAsks
  <2>2. PICK grown, begin : /\ images' = [images EXCEPT ![own] = grown]
                            /\ address' = [address EXCEPT ![block] = begin]
    BY <1>3, <2>0, ArrangeAsks
  <2>3. CodeImage \in Images
    BY DEF Images
  <2> SUFFICES ASSUME Ample(CodeImage)' PROVE ExecInv'
    BY DEF ExecInv
  <2>4. Ample(CodeImage) /\ IsCompact(images[CodeImage])
    <3>1. Ample(CodeImage)
      BY <1>3, <2>3, ArrangeGrows
    <3> QED
      BY <2>1, <2>3, <3>1 DEF PlaceInv, Placing
  <2>5. /\ \A p \in 1 .. Len(order) :
               address'[order[p]] = IF p = cursor THEN begin ELSE address[order[p]]
        /\ address'[block] = begin
    <3>1. \A p \in 1 .. Len(order) : order[p] \in Blocks /\ (order[p] = block => p = cursor)
      BY <2>0, <2>1, PlaceTypes
    <3>2. address \in [Blocks -> Value]
      BY PlaceTypes
    <3>3. \A b \in Blocks : address'[b] = IF b = block THEN begin ELSE address[b]
      BY <2>1, <2>2, <3>2
    <3> QED
      BY <2>0, <2>1, <3>1, <3>3
  <2>6. own = CodeImage =>
           /\ images[CodeImage].extent \in Nat
           /\ images[CodeImage].extent % program[block].at = 0 => begin = images[CodeImage].extent
           /\ images'[CodeImage].extent = begin + program[block].bytes
           /\ ~Refuses(program[block], begin)
    BY <1>3, <2>0, <2>1, <2>4, <2>5, ArrangeFollows
  <2>7. \A b : Executed(b)' = Executed(b)
    BY <2>1 DEF Executed
  <2>8. ASSUME NEW i \in 1 .. Len(order), NEW j \in 1 .. Len(order),
               i < j, IsArranged(i)', IsArranged(j)', Executed(order[i]), Executed(order[j]),
               \A k \in i + 1 .. j - 1 : ~Executed(order[k])
        PROVE  address'[order[j]] = EndOf(i)'
    <3>1. cursor \in Nat /\ i \in Nat /\ j \in Nat
      BY PlaceTypes
    <3>2. i < cursor /\ j <= cursor
      BY <2>1, <2>8, <3>1 DEF IsArranged
    <3>3. EndOf(i)' = EndOf(i)
      BY <2>1, <2>5, <3>1, <3>2 DEF EndOf
    <3>4. IsArranged(i)
      BY <3>2, <2>8, ExecutedCode DEF IsArranged
    <3>5. CASE j < cursor
      <4>1. IsArranged(j) /\ address'[order[j]] = address[order[j]]
        BY <2>5, <2>8, <3>1, <3>5, ExecutedCode DEF IsArranged
      <4> QED
        BY <2>1, <2>4, <2>8, <3>3, <3>4, <4>1 DEF ExecInv, Placing
    <3>6. CASE j = cursor
      <4>1. \A k \in i + 1 .. cursor - 1 : order[k] \notin used
        BY <2>8, <3>6, ExecutedBetween
      <4>2. previousCode = order[i] /\ images[CodeImage].extent = EndOf(i)
        BY <2>1, <2>4, <2>8, <3>2, <4>1 DEF ExecInv, Placing
      <4>3. /\ own = CodeImage /\ ~program[block].fixed /\ Placement(program[block]) \in 2 .. 4
        BY <2>0, <2>8, <3>6, ExecutedCode
      <4>4. order[i] # NoBlock
        BY SectionTypes, PlaceTypes
      <4>5. ~LeavesPadding(program[block])
        BY <2>6, <4>2, <4>3, <4>4, Zenon DEF Refuses
      <4>6. End(program[order[i]], address[order[i]]) % program[block].at = 0
        BY <4>2, <4>3, <4>5 DEF LeavesPadding
      <4>7. End(program[order[i]], address[order[i]]) = images[CodeImage].extent
        <5>1. End(program[order[i]], address[order[i]]) = Wrap(images[CodeImage].extent)
          BY <4>2 DEF End, EndOf
        <5>2. images[CodeImage] \in Arrangement
          BY <2>3, PlaceTypes
        <5>3. images[CodeImage].extent \in Nat /\ images[CodeImage].extent < Modulus
          BY <5>2, ModulusNat DEF Arrangement
        <5> QED
          BY <5>1, <5>3, WrapValue
      <4> QED
        BY <2>5, <2>6, <3>3, <3>6, <4>2, <4>3, <4>6, <4>7
    <3> QED
      BY <3>1, <3>2, <3>5, <3>6
  <2>9. ASSUME NEW p \in 1 .. Len(order), p < cursor', Executed(order[p]),
               \A k \in p + 1 .. cursor' - 1 : order[k] \notin used
        PROVE  previousCode' = order[p] /\ images'[CodeImage].extent = EndOf(p)'
    <3>1. cursor \in Nat /\ p \in Nat
      BY PlaceTypes
    <3>2. p = cursor
      <4>1. ~(p < cursor)
        BY <2>0, <2>1, <2>9, <3>1
      <4> QED
        BY <2>1, <2>9, <3>1, <4>1
    <3>3. own = CodeImage /\ IsCode(program[block].type)
      BY <2>0, <2>9, <3>2, ExecutedCode
    <3> QED
      BY <2>0, <2>1, <2>5, <2>6, <3>2, <3>3 DEF EndOf
  <2> QED
    BY <2>1, <2>7, <2>8, <2>9 DEF ExecInv
<1>4. CASE ~Placing'
  BY <1>4 DEF ExecInv
<1> QED
  BY <1>1, <1>2, <1>3, <1>4

(* The partial sums of the bytes of some blocks, up to a block.              *)
IsSum(sum, k, blocks) ==
    sum = [b \in 0 .. k |->
             IF b = 0 THEN 0
             ELSE sum[b - 1] + IF b \in blocks THEN program[b].bytes ELSE 0]

(* There are such sums, which are natural numbers.                           *)
LEMMA SumExists ==
    ASSUME NEW n \in Nat, NEW blocks
    PROVE  \E sum : IsSum(sum, n, blocks)
<1> DEFINE U == {k \in 0 .. n : ~\E sum : IsSum(sum, k, blocks)}
           More(b) == IF b \in blocks THEN program[b].bytes ELSE 0
<1>1. U \in SUBSET Nat
  OBVIOUS
<1>2. ASSUME U # {} PROVE FALSE
  <2>1. PICK m \in U : \A k \in U : m <= k
    BY <1>1, <1>2, LeastNatural
  <2>2. m # 0
    <3> DEFINE f == [b \in 0 .. 0 |-> 0]
    <3>1. IsSum(f, 0, blocks)
      BY DEF IsSum
    <3> QED
      BY <2>1, <3>1
  <2>3. m \in Nat /\ m - 1 \in 0 .. n /\ m - 1 \notin U
    BY <2>1, <2>2
  <2>4. PICK g : IsSum(g, m - 1, blocks)
    BY <2>3
  <2> DEFINE f == [b \in 0 .. m |-> IF b = m THEN g[m - 1] + More(m) ELSE g[b]]
  <2>5. \A b \in 0 .. m - 1 : f[b] = g[b]
    BY <2>3
  <2>6. ASSUME NEW b \in 0 .. m
        PROVE  f[b] = IF b = 0 THEN 0 ELSE f[b - 1] + More(b)
    <3>1. CASE b = m
      BY <2>2, <2>3, <2>5, <3>1
    <3>2. CASE b # m
      <4>1. b \in 0 .. m - 1 /\ f[b] = g[b]
        BY <2>3, <3>2
      <4>2. g[b] = IF b = 0 THEN 0 ELSE g[b - 1] + More(b)
        BY <2>4, <4>1 DEF IsSum
      <4>3. b # 0 => b - 1 \in 0 .. m - 1 /\ f[b - 1] = g[b - 1]
        BY <2>3, <2>5, <4>1
      <4> QED
        BY <4>1, <4>2, <4>3
    <3> QED
      BY <3>1, <3>2
  <2>7. IsSum(f, m, blocks)
    <3> DEFINE h == [b \in 0 .. m |-> IF b = 0 THEN 0 ELSE f[b - 1] + More(b)]
    <3>1. \A b \in 0 .. m : f[b] = h[b]
      BY <2>6
    <3>2. f = h
      BY <3>1
    <3> QED
      BY <3>2 DEF IsSum
  <2> QED
    BY <2>1, <2>7
<1> QED
  BY <1>2

(* Bytes is the last of them.                                                *)
LEMMA BytesIsSum ==
    ASSUME Len(program) \in Nat, NEW blocks
    PROVE  \E sum : IsSum(sum, Len(program), blocks) /\ Bytes(blocks) = sum[Len(program)]
<1> DEFINE h == CHOOSE f : f = [b \in 0 .. Len(program) |->
                                  IF b = 0 THEN 0
                                  ELSE f[b - 1] + IF b \in blocks THEN program[b].bytes ELSE 0]
<1>0. PICK g : IsSum(g, Len(program), blocks)
  BY SumExists
<1>1. g = [b \in 0 .. Len(program) |->
             IF b = 0 THEN 0 ELSE g[b - 1] + IF b \in blocks THEN program[b].bytes ELSE 0]
  BY <1>0, Zenon DEF IsSum
<1>2. h = [b \in 0 .. Len(program) |->
             IF b = 0 THEN 0 ELSE h[b - 1] + IF b \in blocks THEN program[b].bytes ELSE 0]
  BY <1>1
<1>3. Bytes(blocks) = h[Len(program)]
  BY Zenon DEF Bytes
<1> QED
  BY <1>2, <1>3, Zenon DEF IsSum

(* A block more adds its bytes.                                              *)
LEMMA BytesAdded ==
    ASSUME program \in Programs, NEW blocks, NEW more, NEW block \in Blocks,
           block \notin blocks, more = blocks \cup {block}
    PROVE  Bytes(blocks) \in Nat /\ Bytes(more) = Bytes(blocks) + program[block].bytes
<1>1. /\ Len(program) \in Nat /\ block \in Nat \ {0} /\ block <= Len(program)
      /\ \A b \in 1 .. Len(program) : program[b].bytes \in Nat
  <2>1. \A b \in Blocks : program[b].bytes \in Value
    BY SectionTypes DEF Sections
  <2> QED
    BY <2>1, SectionTypes, ModulusNat DEF Blocks
<1>2. PICK n \in Nat : n = Len(program)
  BY <1>1
<1>3. PICK f : IsSum(f, n, blocks) /\ Bytes(blocks) = f[n]
  BY <1>2, BytesIsSum
<1>4. PICK g : IsSum(g, n, more) /\ Bytes(more) = g[n]
  BY <1>2, BytesIsSum
<1>5. /\ f[0] = 0 /\ g[0] = 0
      /\ \A b \in 1 .. n : /\ f[b] = f[b - 1] + IF b \in blocks THEN program[b].bytes ELSE 0
                           /\ g[b] = g[b - 1] + IF b \in more THEN program[b].bytes ELSE 0
  <2>1. ASSUME NEW b \in 0 .. n
        PROVE  /\ f[b] = IF b = 0 THEN 0
                         ELSE f[b - 1] + IF b \in blocks THEN program[b].bytes ELSE 0
               /\ g[b] = IF b = 0 THEN 0
                         ELSE g[b - 1] + IF b \in more THEN program[b].bytes ELSE 0
    BY <1>3, <1>4 DEF IsSum
  <2> QED
    BY <2>1
<1> DEFINE Agrees(b) == f[b] \in Nat /\ g[b] = f[b] + IF b < block THEN 0 ELSE program[block].bytes
           U == {b \in 0 .. n : ~Agrees(b)}
<1>6. ASSUME U # {} PROVE FALSE
  <2>1. U \in SUBSET Nat
    OBVIOUS
  <2>2. PICK m \in U : \A b \in U : m <= b
    BY <1>6, <2>1, LeastNatural
  <2>3. m \in 0 .. n /\ ~Agrees(m)
    BY <2>2
  <2>4. m # 0
    <3>1. 0 < block
      BY <1>1
    <3>2. Agrees(0)
      BY <1>5, <3>1
    <3> QED
      BY <2>3, <3>2
  <2>5. m - 1 \in 0 .. n /\ m \in 1 .. n /\ Agrees(m - 1)
    <3>1. m - 1 \in 0 .. n /\ m \in 1 .. n /\ m - 1 < m
      BY <2>3, <2>4
    <3>2. m - 1 \notin U
      BY <2>2, <2>3, <3>1
    <3> QED
      BY <3>1, <3>2
  <2>6. program[m].bytes \in Nat /\ program[block].bytes \in Nat
    BY <1>1, <1>2, <2>5
  <2>7. CASE m = block
    BY <1>5, <2>3, <2>5, <2>6, <2>7
  <2>8. CASE m # block
    <3>1. m \in more <=> m \in blocks
      BY <2>8
    <3>2. m < block <=> m - 1 < block
      BY <1>1, <2>5, <2>8
    <3> QED
      BY <1>5, <2>3, <2>5, <2>6, <3>1, <3>2
  <2> QED
    BY <2>7, <2>8
<1>7. Agrees(n)
  BY <1>6
<1> QED
  BY <1>1, <1>2, <1>3, <1>4, <1>7

(* No blocks have no bytes.                                                  *)
LEMMA BytesOfNone ==
    ASSUME program \in Programs
    PROVE  Bytes({}) = 0
<1>1. PICK n \in Nat : n = Len(program)
  BY SectionTypes
<1>2. PICK f : IsSum(f, n, {}) /\ Bytes({}) = f[n]
  BY <1>1, BytesIsSum
<1>3. \A b \in 0 .. n : f[b] = IF b = 0 THEN 0 ELSE f[b - 1] + 0
  BY <1>2 DEF IsSum
<1> DEFINE U == {b \in 0 .. n : f[b] # 0}
<1>4. ASSUME U # {} PROVE FALSE
  <2>1. PICK m \in U : \A b \in U : m <= b
    <3>1. U \in SUBSET Nat
      OBVIOUS
    <3> QED
      BY <1>4, <3>1, LeastNatural
  <2>2. m # 0 /\ m \in 0 .. n /\ f[m] # 0
    BY <1>3, <2>1
  <2>3. m - 1 \in 0 .. n /\ m - 1 < m
    BY <2>2
  <2>4. f[m - 1] = 0
    BY <2>1, <2>2, <2>3
  <2> QED
    BY <1>3, <2>2, <2>4
<1> QED
  BY <1>2, <1>4

-------------------------------------------------------------------------------
(* The members of a group are of a kind, once they joined it.                *)

HasJoined(b) ==
    /\ b \in Blocks \ replaced /\ program[b].group # NoName
    /\ phase = "add" => b < cursor

AlikeInv ==
    phase # "failed" /\ (phase = "add" => ~errors) =>
        \A b \in Blocks : HasJoined(b) =>
            /\ ~program[b].fixed
            /\ phase = "add" =>
                 LET first == directory[program[b].group].block
                 IN  first # NoBlock /\ Placement(program[b]) = Placement(program[first])
            /\ \A c \in Blocks : HasJoined(c) /\ program[c].group = program[b].group =>
                 Placement(program[c]) = Placement(program[b])

(* No block joined its group at first.                                       *)
LEMMA AlikeInit == Init => AlikeInv
<1> SUFFICES ASSUME Init PROVE AlikeInv
  OBVIOUS
<1>1. program \in Programs /\ cursor = 1 /\ phase = "add"
  BY DEF Init
<1>2. \A b \in Blocks : ~HasJoined(b)
  BY <1>1, SectionTypes DEF HasJoined, NoBlock
<1> QED
  BY <1>2 DEF AlikeInv

(* What joining a group does to the directory when it reports no error.      *)
LEMMA JoinCases ==
    ASSUME IInv, Join
    PROVE  LET group == program[cursor].group
           IN  /\ phase = "add" /\ phase' = "add" /\ inner # 0 /\ replaced' = replaced
               /\ order' = order /\ program' = program
               /\ \/ errors' = TRUE
                  \/ /\ cursor' = cursor + 1 /\ errors' = errors
                     /\ \/ group = NoName \/ cursor \in replaced
                        \/ ~IsInvalidMember(program[cursor], directory[group])
                     /\ directory' = IF group = NoName \/ cursor \in replaced THEN directory
                                     ELSE [directory EXCEPT ![group].block = cursor]
BY Zenon DEF Join, AddError

(* Sections that join a group are like those that did before them.           *)
LEMMA AlikeStep ==
    ASSUME IInv, AlikeInv, Next
    PROVE  AlikeInv'
<1>1. program' = program /\ Blocks' = Blocks /\ Len(program) \in Nat /\ cursor \in Nat
  BY Framed, SectionTypes, PlaceTypes DEF IInv, ControlInv
<1>2. CASE phase # "add"
  <2>1. phase \in {"reference", "arrange", "link"} /\ phase' # "add" /\ replaced' = replaced
    BY <1>2, Phases
  <2>2. \A b : HasJoined(b)' = HasJoined(b)
    BY <1>1, <1>2, <2>1 DEF HasJoined
  <2> QED
    BY <1>1, <1>2, <2>1, <2>2 DEF AlikeInv
<1>3. CASE Create
  <2>1. /\ phase = "add" /\ phase' = "add" /\ UNCHANGED <<cursor, errors, replaced>>
        /\ inner = 0 /\ cursor <= Len(program)
    BY <1>3, Zenon DEF Create, flags
  <2>2. \A b : HasJoined(b)' = HasJoined(b)
    BY <1>1, <2>1 DEF HasJoined
  <2>3. ASSUME NEW b \in Blocks, HasJoined(b)
        PROVE  directory'[program[b].group] = directory[program[b].group]
    <3>1. b \in 1 .. Len(order)
      <4>1. b < cursor /\ b \in Nat /\ b >= 1 /\ Len(order) = cursor - 1
        BY <1>1, <2>1, <2>3 DEF HasJoined, IInv, OrderInv, Created, Blocks
      <4> QED
        BY <1>1, <4>1
    <3>2. program[b].group \in DOMAIN directory
      BY <2>3, <3>1 DEF HasJoined, IInv, DirectoryInv
    <3>3. \/ directory' = directory
          \/ /\ program[cursor].group \notin DOMAIN directory
             /\ directory' = With(directory, program[cursor].group, GroupEntry)
      BY <1>3, Zenon DEF Create
    <3> QED
      BY <3>2, <3>3 DEF With
  <2> QED
    BY <1>1, <2>1, <2>2, <2>3 DEF AlikeInv
<1>4. CASE Enter
  <2>1. /\ phase = "add" /\ phase' = "add" /\ inner # 0
        /\ errors' = TRUE \/ (UNCHANGED <<errors, cursor>> /\ replaced \subseteq replaced')
    <3>1. Extends \/ Withdraws \/ Displaces => replaced \subseteq replaced'
      BY DEF Extends, Withdraws, Displaces
    <3> QED
      BY <1>4, <3>1, EnterCases, Zenon
  <2>2. CASE errors' = TRUE
    BY <2>1, <2>2 DEF AlikeInv
  <2>3. CASE UNCHANGED <<errors, cursor>> /\ replaced \subseteq replaced'
    <3>1. \A b \in Blocks : HasJoined(b)' => HasJoined(b)
      BY <1>1, <2>1, <2>3 DEF HasJoined
    <3>2. ASSUME NEW b \in Blocks, HasJoined(b)
          PROVE  directory'[program[b].group] = directory[program[b].group]
      <4>1. b \in 1 .. Len(order)
        <5>1. b < cursor /\ b \in Nat /\ b >= 1 /\ Len(order) = cursor
          BY <1>1, <2>1, <3>2 DEF HasJoined, IInv, OrderInv, Created, Blocks
        <5> QED
          BY <1>1, <5>1
      <4>2. program[b].group \in DOMAIN directory \cap GroupNames
        <5>1. program[b].group \in DOMAIN directory
          BY <3>2, <4>1 DEF HasJoined, IInv, DirectoryInv
        <5> QED
          BY <3>2, <5>1 DEF HasJoined, GroupNames
      <4> QED
        BY <1>4, <4>2, DirectoryEntered
    <3> QED
      BY <1>1, <2>1, <2>3, <3>1, <3>2 DEF AlikeInv
  <2> QED
    BY <2>1, <2>2, <2>3
<1>5. CASE Join
  <2>1. /\ phase = "add" /\ phase' = "add" /\ inner # 0 /\ replaced' = replaced
        /\ cursor \in Blocks /\ Len(order) = cursor
    BY <1>5, JoinCases, CurrentBlock
  <2> SUFFICES ASSUME errors' # TRUE PROVE AlikeInv'
    BY <2>1 DEF AlikeInv
  <2>2. PICK group : group = program[cursor].group
    OBVIOUS
  <2>3. /\ cursor' = cursor + 1 /\ errors' = errors
        /\ group = NoName \/ cursor \in replaced \/ ~IsInvalidMember(program[cursor], directory[group])
        /\ directory' = IF group = NoName \/ cursor \in replaced THEN directory
                        ELSE [directory EXCEPT ![group].block = cursor]
    BY <1>5, <2>2, JoinCases
  <2>4. \A b \in Blocks :
            /\ b \in Nat
            /\ HasJoined(b)' <=>
                 HasJoined(b) \/ (b = cursor /\ cursor \notin replaced /\ group # NoName)
    <3> SUFFICES ASSUME NEW b \in Blocks
                 PROVE  /\ b \in Nat
                        /\ HasJoined(b)' <=>
                             HasJoined(b)
                                \/ (b = cursor /\ cursor \notin replaced /\ group # NoName)
      OBVIOUS
    <3>1. b \in Nat /\ (b < cursor' <=> b < cursor \/ b = cursor)
      BY <1>1, <2>3 DEF Blocks
    <3> QED
      BY <1>1, <2>1, <2>2, <3>1 DEF HasJoined
  <2>5. \A b \in Blocks : HasJoined(b) =>
            /\ ~program[b].fixed /\ program[b].group # NoName
            /\ directory[program[b].group].block # NoBlock
            /\ Placement(program[b]) = Placement(program[directory[program[b].group].block])
            /\ \A c \in Blocks : HasJoined(c) /\ program[c].group = program[b].group =>
                 Placement(program[c]) = Placement(program[b])
    BY <2>1, <2>3 DEF AlikeInv, HasJoined
  <2>6. CASE group = NoName \/ cursor \in replaced
    <3>1. directory' = directory
      BY <2>3, <2>6
    <3>2. \A b \in Blocks : HasJoined(b)' <=> HasJoined(b)
      BY <2>4, <2>6, Zenon
    <3> QED
      BY <1>1, <2>1, <2>5, <3>1, <3>2 DEF AlikeInv
  <2>7. CASE group # NoName /\ cursor \notin replaced
    <3>1. /\ ~program[cursor].fixed
          /\ directory[group].block # NoBlock =>
                Placement(program[cursor]) = Placement(program[directory[group].block])
      BY <2>3, <2>7, Zenon DEF IsInvalidMember
    <3>2. group \in DOMAIN directory /\ directory[group] \in GroupEntries
      <4>1. cursor \in 1 .. Len(order)
        BY <1>5, <2>1, CurrentBlock
      <4>2. group \in DOMAIN directory
        BY <2>2, <2>7, <4>1 DEF IInv, DirectoryInv
      <4>3. group \in GroupNames
        BY <2>1, <2>2, <2>7 DEF GroupNames
      <4> QED
        BY <4>2, <4>3 DEF IInv, DirectoryInv
    <3>3. directory' = [directory EXCEPT ![group].block = cursor]
      BY <2>3, <2>7
    <3>4. [directory[group] EXCEPT !.block = cursor].block = cursor
      BY <3>2 DEF GroupEntries
    <3>5. /\ directory'[group].block = cursor
          /\ \A n \in DOMAIN directory : n # group => directory'[n] = directory[n]
      BY <3>2, <3>3, <3>4
    <3>6. ASSUME NEW b \in Blocks, HasJoined(b), program[b].group # group
          PROVE  directory'[program[b].group] = directory[program[b].group]
      <4>1. b \in 1 .. Len(order)
        BY <2>1, <2>4, <3>6 DEF HasJoined, Blocks
      <4>2. program[b].group \in DOMAIN directory
        BY <3>6, <4>1 DEF HasJoined, IInv, DirectoryInv
      <4> QED
        BY <3>5, <3>6, <4>2
    <3>7. \A b \in Blocks : HasJoined(b) /\ program[b].group = group =>
              Placement(program[b]) = Placement(program[cursor])
      BY <2>5, <3>1
    <3>8. ASSUME NEW b \in Blocks, HasJoined(b)'
          PROVE  /\ ~program[b].fixed
                 /\ directory'[program[b].group].block # NoBlock
                 /\ Placement(program[b])
                        = Placement(program[directory'[program[b].group].block])
                 /\ \A c \in Blocks : HasJoined(c)' /\ program[c].group = program[b].group =>
                        Placement(program[c]) = Placement(program[b])
      <4>1. cursor # NoBlock
        BY <2>1, SectionTypes DEF IInv, ControlInv
      <4>2. CASE program[b].group = group
        <5>1. \A c \in Blocks : HasJoined(c)' /\ program[c].group = group =>
                    Placement(program[c]) = Placement(program[cursor])
          BY <2>4, <3>7
        <5>2. ~program[b].fixed
          BY <2>4, <2>5, <3>1, <3>8
        <5> QED
          BY <3>5, <3>8, <4>1, <4>2, <5>1, <5>2
      <4>3. CASE program[b].group # group
        <5>1. HasJoined(b) /\ directory'[program[b].group] = directory[program[b].group]
          BY <2>2, <2>4, <3>6, <3>8, <4>3
        <5>2. \A c \in Blocks : HasJoined(c)' /\ program[c].group = program[b].group => HasJoined(c)
          BY <2>2, <2>4, <4>3
        <5> QED
          BY <2>5, <5>1, <5>2
      <4> QED
        BY <4>2, <4>3
    <3> QED
      BY <1>1, <2>1, <3>8 DEF AlikeInv
  <2> QED
    BY <2>6, <2>7
<1>6. CASE Start
  <2>1. /\ phase = "add" /\ cursor > Len(program) /\ replaced' = replaced
        /\ phase' = "failed" \/ (phase' = "reference" /\ ~errors)
    BY <1>6 DEF Start
  <2>2. \A b \in Blocks : b < cursor
    BY <1>1, <2>1 DEF Blocks
  <2>3. \A b \in Blocks : phase' = "reference" => HasJoined(b)' = HasJoined(b)
    BY <1>1, <2>1, <2>2 DEF HasJoined
  <2> QED
    BY <1>1, <2>1, <2>3 DEF AlikeInv
<1> QED
  BY <1>2, <1>3, <1>4, <1>5, <1>6, Phases

(* Sections of a group are stored in the same image then.                    *)
LEMMA AlikeImages ==
    ASSUME NEW s \in Sections, NEW t \in Sections, ~s.fixed, ~t.fixed,
           s.group # NoName, t.group # NoName, Placement(s) = Placement(t)
    PROVE  ImageOf(s) = ImageOf(t)
<1> DEFINE placements == [header |-> 1, initdata |-> 2, initcode |-> 3, code |-> 5,
                          const |-> 6, data |-> 7, trailer |-> 8]
<1>1. s.type \in Types /\ t.type \in Types
  BY DEF Sections
<1>2. Placement(s) = placements[s.type] /\ Placement(t) = placements[t.type]
  BY Zenon DEF Placement, IsEntryPoint
<1>3. \A y, z \in Types : placements[y] = placements[z] => y = z
  BY DEF Types
<1>4. s.type = t.type
  BY <1>1, <1>2, <1>3
<1> QED
  BY <1>4 DEF ImageOf

-------------------------------------------------------------------------------
(* The sizes of groups.                                                      *)

ReferencedIn(name) == {b \in referenced : program[b].group = name}

SizeInv ==
    \A name \in DOMAIN directory \cap GroupNames :
        directory[name].offset = Wrap(Bytes(ReferencedIn(name)))

(* No groups have a size at first.                                           *)
LEMMA SizeInit == Init => SizeInv
BY DEF Init, SizeInv

(* The sum of bytes depends on nothing but the program.                      *)
LEMMA FramedBytes ==
    ASSUME program' = program, NEW name, NEW blocks, blocks = ReferencedIn(name)'
    PROVE  Bytes(ReferencedIn(name))' = Bytes(blocks)
BY DEF Bytes, ReferencedIn

(* Only visiting a block that is referenced for the first time changes       *)
(* sizes.                                                                    *)
LEMMA VisitSizes ==
    ASSUME IInv, SizeInv, phase # "add", program' = program,
           NEW block \in Blocks, NEW callers, Visit(block, callers)
    PROVE  \A name \in DOMAIN directory \cap GroupNames :
                directory'[name].offset = Wrap(Bytes(ReferencedIn(name)))'
<1> SUFFICES ASSUME NEW name \in DOMAIN directory \cap GroupNames
             PROVE  directory'[name].offset = Wrap(Bytes(ReferencedIn(name)))'
  OBVIOUS
<1> DEFINE group == program[block].group
<1>1. PICK old, new : old = ReferencedIn(name) /\ new = ReferencedIn(name)'
  OBVIOUS
<1>2. Wrap(Bytes(ReferencedIn(name)))' = Wrap(Bytes(new))
  BY <1>1, FramedBytes DEF Wrap
<1>3. directory[name].offset = Wrap(Bytes(old)) /\ directory[name] \in GroupEntries
  BY <1>1 DEF SizeInv, IInv, DirectoryInv
<1>4. CASE block \in referenced
  <2>1. referenced' = referenced /\ directory' = directory
    BY <1>4 DEF Visit, IsReferenced
  <2>2. new = old
    BY <1>1, <2>1 DEF ReferencedIn
  <2> QED
    BY <1>2, <1>3, <2>1, <2>2
<1>5. CASE block \notin referenced
  <2>1. /\ referenced' = referenced \cup {block}
        /\ directory' = IF group = NoName THEN directory
                        ELSE [directory EXCEPT
                                ![group].block = block,
                                ![group].offset = Wrap(@ + program[block].bytes)]
    BY <1>5, Zenon DEF Visit, IsReferenced
  <2>2. CASE group # name
    <3>1. new = old
      BY <1>1, <2>1, <2>2 DEF ReferencedIn
    <3>2. directory'[name] = directory[name]
      BY <2>1, <2>2
    <3> QED
      BY <1>2, <1>3, <3>1, <3>2
  <2>3. CASE group = name
    <3>1. new = old \cup {block} /\ block \notin old
      BY <1>1, <1>5, <2>1, <2>3 DEF ReferencedIn
    <3>2. group # NoName
      BY <2>3 DEF GroupNames
    <3>3. directory'[name].offset = Wrap(directory[name].offset + program[block].bytes)
      <4>1. directory' = [directory EXCEPT ![name] =
                [directory[name] EXCEPT
                    !.block = block,
                    !.offset = Wrap(directory[name].offset + program[block].bytes)]]
        BY <1>3, <2>1, <2>3, <3>2 DEF GroupEntries
      <4>2. PICK entry : entry = directory[name]
        OBVIOUS
      <4>3. PICK size : size = Wrap(directory[name].offset + program[block].bytes)
        OBVIOUS
      <4>4. [entry EXCEPT !.block = block, !.offset = size].offset = size
        BY <1>3, <4>2 DEF GroupEntries
      <4> QED
        BY <4>1, <4>2, <4>3, <4>4
    <3>4. Bytes(old) \in Nat /\ Bytes(new) = Bytes(old) + program[block].bytes
      BY <3>1, BytesAdded DEF IInv, ControlInv
    <3>5. program[block].bytes \in Value /\ program[block].bytes \in Nat
      BY SectionTypes, ModulusNat DEF IInv, ControlInv, Sections
    <3>6. PICK x \in Nat, y \in Nat : x = Bytes(old) /\ y = program[block].bytes
      BY <3>4, <3>5
    <3>7. Wrap(y) = y
      BY <3>5, <3>6, WrapValue, ModulusNat
    <3>8. Wrap(Wrap(x) + Wrap(y)) = Wrap(x + y)
      BY WrapSum
    <3>9. directory[name].offset = Wrap(x) /\ Bytes(new) = x + y
      BY <1>3, <3>4, <3>6
    <3> QED
      BY <1>2, <3>3, <3>6, <3>7, <3>8, <3>9
  <2> QED
    BY <2>2, <2>3
<1> QED
  BY <1>4, <1>5

(* What Arrange does to the directory and to the indices.                    *)
LEMMA ArrangeIndexes ==
    ASSUME IInv, Arrange
    PROVE  LET block == order[cursor]
               group == program[block].group
           IN  /\ DOMAIN directory' = DOMAIN directory
               /\ \A n \in DOMAIN directory \cap GroupNames :
                    directory'[n].offset = directory[n].offset
               /\ \A n \in DOMAIN directory \ {group} : directory'[n] = directory[n]
               /\ phase' # "failed" =>
                    IF group = NoName THEN directory' = directory /\ index' = index
                    ELSE /\ group \in DOMAIN directory \cap GroupNames
                         /\ directory'[group].count = directory[group].count + 1
                         /\ index' = [index EXCEPT ![block] = directory[group].count]
<1> DEFINE block == order[cursor]
           group == program[block].group
           old == directory[group]
           new == [old EXCEPT !.count = old.count + 1,
                              !.block = IF address'[old.block] = 0 THEN block ELSE old.block]
<1>1. /\ phase = "arrange" /\ block \in Blocks
      /\ \/ directory' = directory
         \/ /\ group # NoName
            /\ directory' = [directory EXCEPT
                                ![group].count = @ + 1,
                                ![group].block = IF address'[@] = 0 THEN block ELSE @]
      /\ phase' # "failed" =>
            IF group = NoName THEN directory' = directory /\ index' = index
            ELSE /\ index' = [index EXCEPT ![block] = directory[group].count]
                 /\ directory' = [directory EXCEPT
                                    ![group].count = @ + 1,
                                    ![group].block = IF address'[@] = 0 THEN block ELSE @]
  <2>1. block \in Blocks /\ phase = "arrange"
    BY ArrangeAsks
  <2>2. \/ phase' = "failed" /\ UNCHANGED <<cursor, directory, index, previousCode>>
        \/ IF group = NoName THEN UNCHANGED <<directory, index>>
           ELSE /\ index' = [index EXCEPT ![block] = directory[group].count]
                /\ directory' = [directory EXCEPT
                                    ![group].count = @ + 1,
                                    ![group].block = IF address'[@] = 0 THEN block ELSE @]
    BY Zenon DEF Arrange
  <2> HIDE DEF block, group
  <2> QED
    BY <2>1, <2>2, Zenon
<1>2. group # NoName => group \in DOMAIN directory \cap GroupNames /\ old \in GroupEntries
  BY <1>1, GroupEntered
<1>3. group # NoName => [directory EXCEPT
                            ![group].count = @ + 1,
                            ![group].block = IF address'[@] = 0 THEN block ELSE @]
                        = [directory EXCEPT ![group] = new]
  BY <1>2 DEF GroupEntries
<1>4. group # NoName => new.count = old.count + 1 /\ new.offset = old.offset
  <2>1. PICK entry : entry = old
    OBVIOUS
  <2>2. PICK count, first : count = old.count + 1
                            /\ first = (IF address'[old.block] = 0 THEN block ELSE old.block)
    OBVIOUS
  <2>3. entry \in GroupEntries =>
            /\ [entry EXCEPT !.count = count, !.block = first].count = count
            /\ [entry EXCEPT !.count = count, !.block = first].offset = entry.offset
    BY DEF GroupEntries
  <2> QED
    BY <1>2, <2>1, <2>2, <2>3
<1> HIDE DEF new, old, group, block
<1>5. CASE directory' = directory /\ phase' = "failed"
  BY <1>5 DEF block, group
<1>6. CASE directory' = directory /\ group = NoName
  BY <1>1, <1>6, Zenon DEF block, group
<1>7. CASE group # NoName /\ directory' = [directory EXCEPT ![group] = new]
  <2>1. /\ DOMAIN directory' = DOMAIN directory /\ directory'[group] = new
        /\ \A n \in DOMAIN directory \ {group} : directory'[n] = directory[n]
    BY <1>2, <1>7
  <2>2. \A n \in DOMAIN directory \cap GroupNames : directory'[n].offset = directory[n].offset
    BY <1>4, <1>7, <2>1 DEF old
  <2>3. directory'[group].count = directory[group].count + 1
    BY <1>4, <1>7, <2>1 DEF old
  <2>4. phase' # "failed" => index' = [index EXCEPT ![block] = directory[group].count]
    BY <1>1, <1>7
  <2> QED
    BY <1>2, <1>7, <2>1, <2>2, <2>3, <2>4, Zenon DEF block, group
<1> QED
  BY <1>1, <1>3, <1>5, <1>6, <1>7

(* A group grows by the bytes of a member when the member is referenced.     *)
LEMMA SizeStep ==
    ASSUME IInv, SizeInv, Next
    PROVE  SizeInv'
<1>1. program' = program /\ GroupNames' = GroupNames
  BY Framed
<1>2. ASSUME \A name \in DOMAIN directory' \cap GroupNames :
                name \in DOMAIN directory /\ directory'[name].offset = directory[name].offset,
             referenced' = referenced
      PROVE  SizeInv'
  <2> SUFFICES ASSUME NEW name \in DOMAIN directory' \cap GroupNames
               PROVE  directory'[name].offset = Wrap(Bytes(ReferencedIn(name)))'
    BY <1>1 DEF SizeInv
  <2>1. ReferencedIn(name)' = ReferencedIn(name)
    BY <1>1, <1>2 DEF ReferencedIn
  <2>2. PICK blocks : blocks = ReferencedIn(name)'
    OBVIOUS
  <2>3. Bytes(ReferencedIn(name))' = Bytes(blocks)
    BY <1>1, <2>2, FramedBytes
  <2>4. Wrap(Bytes(ReferencedIn(name)))' = Wrap(Bytes(blocks))
    BY <2>3 DEF Wrap
  <2> QED
    BY <1>2, <2>1, <2>2, <2>4 DEF SizeInv
<1>3. CASE phase = "add"
  <2>1. CASE Create
    <3>1. referenced' = referenced /\ referenced = {}
      <4>1. used = {} /\ referenced \subseteq used
        BY <1>3 DEF IInv, FlagsInv
      <4> QED
        BY <2>1, <4>1, Zenon DEF Create, flags
    <3> SUFFICES ASSUME NEW name \in DOMAIN directory' \cap GroupNames
                 PROVE  directory'[name].offset = Wrap(Bytes(ReferencedIn(name)))'
      BY <1>1 DEF SizeInv
    <3>2. ReferencedIn(name) = {} /\ ReferencedIn(name)' = {}
      BY <3>1 DEF ReferencedIn
    <3>3. Wrap(Bytes({})) = 0
      <4>1. Bytes({}) = 0
        BY BytesOfNone DEF IInv, ControlInv
      <4> QED
        BY <4>1, WrapValue, ModulusNat
    <3>4. Bytes(ReferencedIn(name))' = Bytes({})
      BY <1>1, <3>2, FramedBytes
    <3>5. Wrap(Bytes(ReferencedIn(name)))' = 0
      BY <3>3, <3>4 DEF Wrap
    <3>6. \/ name \in DOMAIN directory /\ directory'[name] = directory[name]
          \/ directory'[name] = GroupEntry
      BY <2>1 DEF Create, With
    <3>7. name \in DOMAIN directory => directory[name].offset = 0
      BY <3>2, <3>3 DEF SizeInv
    <3> QED
      BY <3>5, <3>6, <3>7 DEF GroupEntry
  <2>2. CASE Enter
    BY <1>2, <2>2, DirectoryEntered, EnterCases
  <2>3. CASE Join
    <3> DEFINE group == program[cursor].group
    <3>1. /\ referenced' = referenced
          /\ directory' = directory \/ directory' = [directory EXCEPT ![group].block = cursor]
      BY <2>3, Zenon DEF Join, AddError
    <3>2. ASSUME NEW name \in DOMAIN directory' \cap GroupNames
          PROVE  name \in DOMAIN directory /\ directory'[name].offset = directory[name].offset
      <4>1. name \in DOMAIN directory /\ directory[name] \in GroupEntries
        BY <3>1 DEF IInv, DirectoryInv
      <4>2. [directory[name] EXCEPT !.block = cursor].offset = directory[name].offset
        BY <4>1 DEF GroupEntries
      <4> QED
        BY <3>1, <4>1, <4>2
    <3> QED
      BY <1>2, <3>1, <3>2
  <2>4. CASE Start
    BY <1>2, <2>4 DEF Start
  <2> QED
    BY <1>3, <2>1, <2>2, <2>3, <2>4, Phases
<1>4. CASE phase # "add"
  <2>1. DOMAIN directory' = DOMAIN directory
    BY <1>4, EntriesKept DEF KeepsEntries
  <2>2. ASSUME NEW block \in Blocks, NEW callers, Visit(block, callers) PROVE SizeInv'
    BY <1>1, <1>4, <2>1, <2>2, VisitSizes DEF SizeInv
  <2>3. CASE directory' = directory /\ referenced' = referenced
    BY <1>2, <2>3
  <2>4. CASE Refer
    BY <2>2, <2>3, <2>4, ReferVisits
  <2>5. CASE Resolve
    BY <2>2, <2>3, <2>5, ResolveVisits
  <2>6. CASE Arrange
    <3>1. referenced' = referenced
      BY <2>6, Zenon DEF Arrange, flags
    <3> QED
      BY <1>2, <2>6, <3>1, ArrangeIndexes
  <2>7. CASE ~(Refer \/ Resolve \/ Arrange)
    <3>1. ~(Create \/ Enter \/ Join \/ Start)
      BY <1>4 DEF Create, Enter, Join, Start
    <3>2. directory' = directory /\ referenced' = referenced
      BY <2>7, <3>1 DEF Next, Return, EndReference, Pass, EndArrange, Copy, Patch, EndLink, flags
    <3> QED
      BY <2>3, <3>2
  <2> QED
    BY <2>4, <2>5, <2>6, <2>7
<1> QED
  BY <1>3, <1>4

-------------------------------------------------------------------------------
(* The members of groups are numbered in the order of the list.              *)

IsMember(p, name) == IsArranged(p) /\ program[order[p]].group = name

Numbered(name) == {b \in Blocks : \E p \in 1 .. Len(order) : order[p] = b /\ IsMember(p, name)}

IndexInv ==
    Placing => \A name \in DOMAIN directory \cap GroupNames :
        /\ directory[name].count = Cardinality(Numbered(name))
        /\ {index[b] : b \in Numbered(name)} = 0 .. directory[name].count - 1
        /\ \A p \in 1 .. Len(order) : \A q \in 1 .. p - 1 :
             IsMember(p, name) /\ IsMember(q, name) => index[order[q]] < index[order[p]]

(* Sets of blocks are finite, and so have a cardinality.                     *)
LEMMA NumberedFinite ==
    ASSUME IInv, NEW blocks \in SUBSET Blocks
    PROVE  IsFiniteSet(blocks) /\ Cardinality(blocks) \in Nat
<1>1. Len(program) \in Nat
  BY SectionTypes DEF IInv, ControlInv
<1>2. IsFiniteSet(Blocks)
  BY <1>1, FS_Interval DEF Blocks
<1>3. IsFiniteSet(blocks)
  BY <1>2, FS_Subset
<1> QED
  BY <1>3, FS_CardinalityType

(* No members are numbered at first.                                         *)
LEMMA IndexInit == Init => IndexInv
BY DEF Init, IndexInv, Placing

(* Arrange numbers a member with the count of its group and counts it.       *)
LEMMA IndexStep ==
    ASSUME IInv, IndexInv, Next
    PROVE  IndexInv'
<1>1. program' = program /\ GroupNames' = GroupNames /\ Blocks' = Blocks
  BY Framed
<1>2. CASE Placing' /\ ~Placing
  <2>1. EndReference
    <3>1. ~Arrange
      BY <1>2 DEF Arrange, Placing
    <3> QED
      BY <1>2, <3>1, PlacesKept
  <2>2. /\ phase = "reference" /\ phase' = "arrange" /\ cursor' = 1 /\ order' = order
        /\ directory' = directory
    BY <1>2, <2>1 DEF EndReference, Placing
  <2>3. \A p \in 1 .. Len(order) : ~(p < cursor')
    BY <2>2, PlaceTypes
  <2>4. \A p \in 1 .. Len(order') : \A name : ~IsMember(p, name)'
    BY <2>2, <2>3 DEF IsMember, IsArranged
  <2>5. \A name \in DOMAIN directory \cap GroupNames : directory[name].count = 0
    BY <2>2 DEF IInv, MemoryInv
  <2> SUFFICES ASSUME NEW name \in DOMAIN directory' \cap GroupNames
               PROVE  /\ directory'[name].count = Cardinality(Numbered(name)')
                      /\ {index'[b] : b \in Numbered(name)'} = 0 .. directory'[name].count - 1
    BY <1>1, <2>2, <2>4, PlaceTypes DEF IndexInv
  <2>6. Numbered(name)' = {}
    BY <1>1, <2>4 DEF Numbered
  <2>7. directory'[name].count = 0
    BY <1>1, <2>2, <2>5
  <2> QED
    BY <2>6, <2>7, FS_EmptySet
<1>3. CASE Placing' /\ Placing /\ ~Arrange
  <2>1. /\ index' = index /\ order' = order /\ directory' = directory
        /\ \A p \in 1 .. Len(order) : IsArranged(p)' = IsArranged(p)
    BY <1>3, PlacesKept
  <2>2. \A p \in 1 .. Len(order) : \A name : IsMember(p, name)' <=> IsMember(p, name)
    BY <1>1, <2>1 DEF IsMember
  <2>3. \A name : Numbered(name)' = Numbered(name)
    BY <1>1, <2>1, <2>2 DEF Numbered
  <2>4. \A p \in 1 .. Len(order) : 1 .. p - 1 \subseteq 1 .. Len(order)
    BY PlaceTypes
  <2> SUFFICES ASSUME NEW name \in DOMAIN directory' \cap GroupNames
               PROVE  /\ directory'[name].count = Cardinality(Numbered(name)')
                      /\ {index'[b] : b \in Numbered(name)'} = 0 .. directory'[name].count - 1
                      /\ \A p \in 1 .. Len(order) : \A q \in 1 .. p - 1 :
                           IsMember(p, name)' /\ IsMember(q, name)' =>
                               index'[order[q]] < index'[order[p]]
    BY <1>1, <2>1 DEF IndexInv
  <2>5. /\ directory[name].count = Cardinality(Numbered(name))
        /\ {index[b] : b \in Numbered(name)} = 0 .. directory[name].count - 1
        /\ \A p \in 1 .. Len(order) : \A q \in 1 .. p - 1 :
             IsMember(p, name) /\ IsMember(q, name) => index[order[q]] < index[order[p]]
    BY <1>1, <1>3, <2>1 DEF IndexInv
  <2> QED
    BY <2>1, <2>2, <2>3, <2>4, <2>5
<1>4. CASE Placing' /\ Arrange
  <2>0. PICK block, group : block = order[cursor] /\ group = program[order[cursor]].group
    OBVIOUS
  <2>1. /\ cursor \in 1 .. Len(order) /\ block \in used /\ block \in Blocks
        /\ phase = "arrange" /\ used' = used /\ order' = order
        /\ phase' = phase /\ cursor' = cursor + 1 /\ phase' # "failed"
    <3>1. phase' # "failed"
      BY <1>4 DEF Placing
    <3>2. order' = order
      BY <1>4, Zenon DEF Arrange
    <3> QED
      BY <1>4, <2>0, <3>1, <3>2, ArrangeAsks
  <2>2. /\ DOMAIN directory' = DOMAIN directory
        /\ \A n \in DOMAIN directory \ {group} : directory'[n] = directory[n]
        /\ IF group = NoName THEN directory' = directory /\ index' = index
           ELSE /\ group \in DOMAIN directory \cap GroupNames
                /\ directory'[group].count = directory[group].count + 1
                /\ index' = [index EXCEPT ![block] = directory[group].count]
    BY <1>4, <2>0, <2>1, ArrangeIndexes
  <2>3. \A p \in 1 .. Len(order) : order[p] \in Blocks /\ (order[p] = block <=> p = cursor)
    BY <2>0, <2>1, PlaceTypes
  <2>4. \A p \in 1 .. Len(order) : IsArranged(p)' <=> (IsArranged(p) \/ p = cursor)
    <3> SUFFICES ASSUME NEW p \in 1 .. Len(order)
                 PROVE  IsArranged(p)' <=> (IsArranged(p) \/ p = cursor)
      OBVIOUS
    <3>1. p < cursor' <=> (p < cursor \/ p = cursor)
      BY <2>1, PlaceTypes
    <3> QED
      BY <2>0, <2>1, <3>1 DEF IsArranged
  <2>5. \A p \in 1 .. Len(order) : IsArranged(p) => p < cursor
    BY <2>1 DEF IsArranged
  <2>6. \A name : \A p \in 1 .. Len(order) :
            IsMember(p, name)' <=> (IsMember(p, name) \/ (p = cursor /\ group = name))
    BY <1>1, <2>0, <2>1, <2>4 DEF IsMember
  <2>7. \A name : Numbered(name)' =
            IF name = group THEN Numbered(name) \cup {block} ELSE Numbered(name)
    BY <1>1, <2>0, <2>1, <2>6 DEF Numbered
  <2>8. index \in [Blocks -> 0 .. Len(program)]
    BY DEF IInv, MemoryInv
  <2>9. \A b \in Blocks : b # block => index'[b] = index[b]
    BY <2>2, <2>8
  <2> SUFFICES ASSUME NEW name \in DOMAIN directory' \cap GroupNames
               PROVE  /\ directory'[name].count = Cardinality(Numbered(name)')
                      /\ {index'[b] : b \in Numbered(name)'} = 0 .. directory'[name].count - 1
                      /\ \A p \in 1 .. Len(order) : \A q \in 1 .. p - 1 :
                           IsMember(p, name)' /\ IsMember(q, name)' =>
                               index'[order[q]] < index'[order[p]]
    BY <1>1, <2>1 DEF IndexInv
  <2>10. /\ directory[name].count = Cardinality(Numbered(name))
         /\ {index[b] : b \in Numbered(name)} = 0 .. directory[name].count - 1
         /\ \A p \in 1 .. Len(order) : \A q \in 1 .. p - 1 :
              IsMember(p, name) /\ IsMember(q, name) => index[order[q]] < index[order[p]]
    BY <1>1, <2>1, <2>2 DEF IndexInv, Placing
  <2>11. block \notin Numbered(name)
    <3>1. ~IsArranged(cursor)
      BY <2>1, <2>5, PlaceTypes
    <3> QED
      BY <2>3, <3>1 DEF Numbered, IsMember
  <2>12. \A p \in 1 .. Len(order) : 1 .. p - 1 \subseteq 1 .. Len(order)
    BY PlaceTypes
  <2>13. CASE name # group
    <3>1. directory'[name] = directory[name] /\ Numbered(name)' = Numbered(name)
      BY <1>1, <2>2, <2>7, <2>13
    <3>2. \A b \in Numbered(name) : index'[b] = index[b]
      BY <2>9, <2>11 DEF Numbered
    <3>3. \A p \in 1 .. Len(order) : IsMember(p, name)' => IsMember(p, name) /\ p # cursor
      BY <2>6, <2>13, <2>3, <2>11 DEF Numbered
    <3>4. \A p \in 1 .. Len(order) : p # cursor => index'[order[p]] = index[order[p]]
      BY <2>3, <2>9
    <3>5. {index'[b] : b \in Numbered(name)} = {index[b] : b \in Numbered(name)}
      BY <3>2
    <3> HIDE DEF Numbered
    <3>6. \A p \in 1 .. Len(order) : \A q \in 1 .. p - 1 :
            IsMember(p, name)' /\ IsMember(q, name)' => index'[order[q]] < index'[order[p]]
      BY <2>10, <2>12, <3>3, <3>4
    <3> QED
      BY <2>10, <3>1, <3>5, <3>6
  <2>14. CASE name = group
    <3>1. /\ group # NoName /\ directory'[name].count = directory[name].count + 1
          /\ index' = [index EXCEPT ![block] = directory[name].count]
          /\ Numbered(name)' = Numbered(name) \cup {block}
      BY <1>1, <2>2, <2>7, <2>14 DEF GroupNames
    <3>2. Numbered(name) \in SUBSET Blocks
      BY DEF Numbered
    <3>3. IsFiniteSet(Numbered(name)) /\ Cardinality(Numbered(name)) \in Nat
      BY <3>2, NumberedFinite
    <3>4. Cardinality(Numbered(name) \cup {block}) = Cardinality(Numbered(name)) + 1
      BY <2>11, <3>3, FS_AddElement
    <3>5. PICK n \in Nat : n = directory[name].count
      BY <2>10, <3>3
    <3>6. index'[block] = n /\ \A b \in Numbered(name) : index'[b] = index[b]
      BY <2>1, <2>8, <2>9, <2>11, <3>1, <3>2, <3>5
    <3>7. {index'[b] : b \in Numbered(name) \cup {block}} = 0 .. (n + 1) - 1
      <4>1. {index'[b] : b \in Numbered(name) \cup {block}}
                = {index[b] : b \in Numbered(name)} \cup {n}
        BY <3>6
      <4>2. (0 .. n - 1) \cup {n} = 0 .. (n + 1) - 1
        OBVIOUS
      <4> QED
        BY <2>10, <3>5, <4>1, <4>2
    <3>8. ASSUME NEW p \in 1 .. Len(order), NEW q \in 1 .. p - 1,
                 IsMember(p, name)', IsMember(q, name)'
          PROVE  index'[order[q]] < index'[order[p]]
      <4>1. /\ q \in 1 .. Len(order) /\ q < p /\ cursor \in Nat /\ p \in Nat /\ q \in Nat
            /\ p <= cursor
        <5>1. q \in 1 .. Len(order) /\ q < p /\ cursor \in Nat /\ p \in Nat /\ q \in Nat
          BY PlaceTypes
        <5>2. p < cursor \/ p = cursor
          BY <2>5, <2>6, <3>8 DEF IsMember
        <5> QED
          BY <5>1, <5>2
      <4>2. q # cursor /\ IsMember(q, name) /\ index'[order[q]] = index[order[q]]
        BY <2>3, <2>6, <2>9, <3>8, <4>1
      <4>3. CASE p = cursor
        <5>1. index'[order[p]] = n
          BY <2>3, <3>6, <4>3
        <5>2. index[order[q]] \in 0 .. n - 1
          <6>1. order[q] \in Numbered(name)
            BY <2>3, <4>1, <4>2 DEF Numbered
          <6> HIDE DEF Numbered
          <6> QED
            BY <2>10, <3>5, <6>1
        <5> QED
          BY <4>2, <5>1, <5>2
      <4>4. CASE p # cursor
        <5>1. IsMember(p, name) /\ index'[order[p]] = index[order[p]]
          BY <2>3, <2>6, <2>9, <3>8, <4>4
        <5> QED
          BY <2>10, <4>2, <5>1
      <4> QED
        BY <4>3, <4>4
    <3> HIDE DEF Numbered
    <3>9. directory'[name].count = Cardinality(Numbered(name)')
      BY <2>10, <3>1, <3>4
    <3> QED
      BY <3>1, <3>5, <3>7, <3>8, <3>9
  <2> QED
    BY <2>13, <2>14
<1>5. CASE ~Placing'
  BY <1>5 DEF IndexInv
<1> QED
  BY <1>2, <1>3, <1>4, <1>5

LayoutInv ==
    IInv /\ PlaceInv /\ ExecInv /\ AlikeInv /\ SizeInv /\ IndexInv

(* The strengthened invariant depends on the variables alone.                *)
LEMMA LayoutStutter ==
    ASSUME LayoutInv, UNCHANGED vars
    PROVE  LayoutInv'
<1>1. UNCHANGED <<program, phase, cursor, inner, order, directory, replaced, used, referenced,
                  errors, images, address, index, previousCode>>
  BY DEF vars, control, flags, memory
<1>2. Blocks' = Blocks /\ GroupNames' = GroupNames /\ Placing' = Placing
  BY <1>1 DEF Blocks, GroupNames, Placing
<1>3. /\ \A p : IsArranged(p)' = IsArranged(p) /\ EndOf(p)' = EndOf(p)
      /\ \A b : Executed(b)' = Executed(b) /\ HasJoined(b)' = HasJoined(b)
      /\ \A image : Ample(image)' = Ample(image)
  BY <1>1, <1>2 DEF IsArranged, EndOf, Executed, HasJoined, Ample
<1>4. PlaceInv'
  BY <1>1, <1>2, <1>3 DEF LayoutInv, PlaceInv, IsIn
<1>5. ExecInv'
  BY <1>1, <1>2, <1>3 DEF LayoutInv, ExecInv
<1>6. AlikeInv'
  BY <1>1, <1>2, <1>3 DEF LayoutInv, AlikeInv
<1>7. SizeInv'
  BY <1>1, <1>2 DEF LayoutInv, SizeInv, ReferencedIn, Bytes
<1>8. IndexInv'
  <2>1. \A p : \A name : IsMember(p, name)' <=> IsMember(p, name)
    BY <1>1, <1>3 DEF IsMember
  <2>2. \A name : Numbered(name)' = Numbered(name)
    BY <1>1, <1>2, <2>1 DEF Numbered
  <2> SUFFICES ASSUME Placing, NEW name \in DOMAIN directory \cap GroupNames
               PROVE  /\ directory[name].count = Cardinality(Numbered(name)')
                      /\ {index[b] : b \in Numbered(name)'} = 0 .. directory[name].count - 1
                      /\ \A p \in 1 .. Len(order) : \A q \in 1 .. p - 1 :
                           IsMember(p, name)' /\ IsMember(q, name)' =>
                               index[order[q]] < index[order[p]]
    BY <1>1, <1>2 DEF IndexInv
  <2>3. /\ directory[name].count = Cardinality(Numbered(name))
        /\ {index[b] : b \in Numbered(name)} = 0 .. directory[name].count - 1
        /\ \A p \in 1 .. Len(order) : \A q \in 1 .. p - 1 :
             IsMember(p, name) /\ IsMember(q, name) => index[order[q]] < index[order[p]]
    BY DEF LayoutInv, IndexInv
  <2> QED
    BY <2>1, <2>2, <2>3
<1>9. IInv'
  BY StutterStep DEF LayoutInv
<1> QED
  BY <1>4, <1>5, <1>6, <1>7, <1>8, <1>9 DEF LayoutInv

(* It is an invariant of the linker.                                         *)
LEMMA LayoutInvariance == Spec => []LayoutInv
<1>1. Init => PlaceInv /\ ExecInv /\ AlikeInv /\ SizeInv /\ IndexInv
  BY PlaceInit, ExecInit, AlikeInit, SizeInit, IndexInit
<1>2. IInv /\ IInv' /\ LayoutInv /\ [Next]_vars => LayoutInv'
  <2> SUFFICES ASSUME IInv, IInv', LayoutInv, [Next]_vars PROVE LayoutInv'
    OBVIOUS
  <2>1. CASE Next
    BY <2>1, PlaceStep, ExecStep, AlikeStep, SizeStep, IndexStep DEF LayoutInv
  <2>2. CASE UNCHANGED vars
    BY <2>2, LayoutStutter
  <2> QED
    BY <2>1, <2>2
<1>3. Init /\ IInv => LayoutInv
  BY <1>1 DEF LayoutInv
<1> QED
  BY <1>2, <1>3, Invariance, PTL DEF Spec

(* Code that is executed before the entry point, and the entry point, follow *)
(* each other without a gap: the error that Arrange reports otherwise is all *)
(* it takes, as long as addresses do not wrap around.                        *)
THEOREM Execution == Spec => []ExecutesInOrder
<1>1. LayoutInv => ExecutesInOrder
  <2> SUFFICES ASSUME LayoutInv, phase \in {"link", "done"}, Ample(CodeImage),
                      NEW i \in 1 .. Len(order), NEW j \in 1 .. Len(order),
                      i < j, Executed(order[i]), Executed(order[j]),
                      \A k \in i + 1 .. j - 1 : ~Executed(order[k])
               PROVE  address[order[j]] = End(program[order[i]], address[order[i]])
    BY DEF ExecutesInOrder
  <2>1. IInv
    BY DEF LayoutInv
  <2>2. IsArranged(i) /\ IsArranged(j)
    BY DEF IsArranged, Executed
  <2>3. address[order[j]] = EndOf(i)
    BY <2>2 DEF LayoutInv, ExecInv, Placing
  <2>4. EndOf(i) \in Nat /\ EndOf(i) < Modulus
    <3>1. order[j] \in Blocks /\ address \in [Blocks -> Value]
      BY <2>1, PlaceTypes
    <3>2. address[order[j]] \in Value
      BY <3>1
    <3> QED
      BY <2>3, <3>2, ModulusNat
  <2>5. Wrap(EndOf(i)) = EndOf(i)
    BY <2>4, WrapValue
  <2> QED
    BY <2>3, <2>5 DEF End, EndOf
<1> QED
  BY <1>1, LayoutInvariance, PTL

(* Everything that is used has been referenced once blocks are arranged.     *)
LEMMA ReferencedWhenPlaced ==
    ASSUME IInv, Placing
    PROVE  referenced = used
<1>1. \A p \in 1 .. Len(order) : order[p] \in used => order[p] \in referenced
  BY DEF IInv, UseInv, Placing
<1>2. \A b \in used : \E p \in 1 .. Len(order) : order[p] = b
  <2>1. Len(order) = Len(program)
    BY DEF IInv, OrderInv, Created, Placing
  <2>2. used \subseteq 1 .. Len(order)
    BY <2>1 DEF IInv, FlagsInv, Blocks
  <2> QED
    BY <2>2 DEF IInv, OrderInv
<1>3. used \subseteq referenced
  BY <1>1, <1>2
<1> QED
  BY <1>3 DEF IInv, FlagsInv

(* The sizes and counts of groups are those of their members, whatever is    *)
(* used and in which order, and members are numbered as they are arranged.   *)
THEOREM Grouping == Spec => []GroupTotals
<1>1. LayoutInv => GroupTotals
  <2> SUFFICES ASSUME LayoutInv, phase \in {"link", "done"},
                      NEW name \in DOMAIN directory, directory[name].isGroup
               PROVE  /\ directory[name].offset = Wrap(Bytes(Members(name)))
                      /\ directory[name].count = Cardinality(Members(name))
                      /\ {index[b] : b \in Members(name)} = 0 .. Cardinality(Members(name)) - 1
                      /\ \A b, c \in Members(name) :
                            index[b] < index[c] /\ Ample(ImageOf(program[b])) =>
                                address[b] + program[b].bytes <= address[c]
    BY DEF GroupTotals
  <2>1. IInv /\ Placing /\ name \in GroupNames
    <3>1. IInv /\ Placing
      BY DEF LayoutInv, Placing
    <3> QED
      BY <3>1, EntryKinds
  <2>2. ReferencedIn(name) = Members(name)
    BY <2>1, ReferencedWhenPlaced DEF ReferencedIn, Members
  <2>3. directory[name].offset = Wrap(Bytes(Members(name)))
    BY <2>1, <2>2 DEF LayoutInv, SizeInv
  <2>4. \A b \in used : b \in Blocks /\ \E p \in 1 .. Len(order) : order[p] = b
    <3>1. Len(order) = Len(program)
      BY <2>1 DEF IInv, OrderInv, Created, Placing
    <3>2. used \subseteq 1 .. Len(order) /\ used \subseteq Blocks
      BY <2>1, <3>1 DEF IInv, FlagsInv, Blocks
    <3> QED
      BY <2>1, <3>2 DEF IInv, OrderInv
  <2>5. \A p \in 1 .. Len(order) : IsArranged(p) <=> order[p] \in used
    BY DEF IsArranged
  <2>6. Numbered(name) = Members(name)
    BY <2>4, <2>5 DEF Numbered, IsMember, Members
  <2>7. /\ directory[name].count = Cardinality(Numbered(name))
        /\ {index[b] : b \in Numbered(name)} = 0 .. directory[name].count - 1
        /\ \A p \in 1 .. Len(order) : \A q \in 1 .. p - 1 :
             IsMember(p, name) /\ IsMember(q, name) => index[order[q]] < index[order[p]]
    BY <2>1 DEF LayoutInv, IndexInv
  <2>8. ASSUME NEW b \in Members(name), NEW c \in Members(name),
               index[b] < index[c], Ample(ImageOf(program[b]))
        PROVE  address[b] + program[b].bytes <= address[c]
    <3>1. /\ b \in used /\ b \in Blocks /\ program[b].group = name /\ program[b] \in Sections
          /\ c \in used /\ c \in Blocks /\ program[c].group = name /\ program[c] \in Sections
      <4>1. b \in used /\ c \in used /\ program[b].group = name /\ program[c].group = name
        BY DEF Members
      <4>2. b \in Blocks /\ c \in Blocks
        BY <2>4, <4>1
      <4> QED
        BY <2>1, <4>1, <4>2, SectionTypes DEF IInv, ControlInv
    <3>2. ImageOf(program[b]) = ImageOf(program[c])
      <4>1. HasJoined(b) /\ HasJoined(c)
        BY <2>1, <3>1 DEF HasJoined, IInv, FlagsInv, GroupNames, Placing
      <4>2. /\ ~program[b].fixed /\ ~program[c].fixed
            /\ Placement(program[b]) = Placement(program[c])
        BY <2>1, <3>1, <4>1 DEF LayoutInv, AlikeInv, Placing
      <4>3. name # NoName
        BY <2>1 DEF GroupNames
      <4> QED
        BY <3>1, <4>2, <4>3, AlikeImages
    <3>3. PICK q \in 1 .. Len(order), p \in 1 .. Len(order) : order[q] = b /\ order[p] = c
      BY <2>4, <3>1
    <3>4. q \in Nat /\ p \in Nat /\ index[b] \in Nat /\ index[c] \in Nat
      <4>1. index \in [Blocks -> 0 .. Len(program)] /\ Len(program) \in Nat
        BY <2>1, SectionTypes DEF IInv, MemoryInv, ControlInv
      <4>2. index[b] \in 0 .. Len(program) /\ index[c] \in 0 .. Len(program)
        BY <3>1, <4>1
      <4> QED
        BY <2>1, <4>1, <4>2, PlaceTypes
    <3>5. IsMember(p, name) /\ IsMember(q, name)
      BY <2>5, <3>1, <3>3 DEF IsMember
    <3>6. ~(p < q)
      <4> SUFFICES ASSUME p < q PROVE FALSE
        OBVIOUS
      <4>1. p \in 1 .. q - 1
        BY <3>4
      <4>2. index[order[p]] < index[order[q]]
        BY <2>7, <3>5, <4>1
      <4> QED
        BY <2>8, <3>3, <3>4, <4>2
    <3>7. p # q
      BY <2>8, <3>3, <3>4
    <3>8. q \in 1 .. p - 1
      BY <3>4, <3>6, <3>7
    <3>9. PICK image : image = ImageOf(program[b])
      OBVIOUS
    <3>10. IsIn(p, image) /\ IsIn(q, image) /\ image \in Images
      BY <2>1, <2>5, <3>1, <3>2, <3>3, <3>9, PlaceTypes DEF IsIn
    <3>11. EndOf(q) <= address[order[p]]
      BY <2>1, <2>8, <3>8, <3>9, <3>10 DEF LayoutInv, PlaceInv
    <3> QED
      BY <3>3, <3>11 DEF EndOf
  <2> QED
    BY <2>3, <2>6, <2>7, <2>8
<1> QED
  BY <1>1, LayoutInvariance, PTL

-------------------------------------------------------------------------------
(* The proof that Linker implements Linking: every step of the linker is one *)
(* of Linking, or none.                                                      *)

(* The blocks and names of Linking are those of Linker.                      *)
LEMMA SameBlocks == Contract!Blocks = Blocks /\ Contract!Live = Blocks \ replaced
BY DEF Contract!Blocks, Contract!Live, Blocks

LEMMA SameNames == \A s : Contract!NameSet(s) = NameSet(s)
BY DEF Contract!NameSet, NameSet, Contract!Names, Names

LEMMA SameEntryPoint == \A s : Contract!IsEntryPoint(s) <=> IsEntryPoint(s)
BY DEF Contract!IsEntryPoint, IsEntryPoint, Contract!NoName, NoName

(* So are the images.                                                        *)
LEMMA SameImages == \A s : Contract!ImageOf(s) = ImageOf(s)
BY DEF Contract!ImageOf, ImageOf, Contract!IsCode, IsCode

(* So is the order of sections.                                              *)
LEMMA SameOrder == \A s, t : Contract!Less(s, t) <=> Less(s, t)
<1>1. \A s : Contract!Placement(s) = Placement(s)
  BY SameEntryPoint DEF Contract!Placement, Placement
<1> QED
  BY <1>1, Zenon DEF Contract!Less, Less, Contract!NoName, NoName

(* What the phases are to Linking, now and after a step.                     *)
LEMMA StatusOf ==
    /\ phase = "add" => Status = "reading"
    /\ phase = "reference" => Status = "searching"
    /\ phase \in {"arrange", "link"} => Status = "placing"
    /\ phase = "done" => Status = "done"
    /\ phase \in {"failed", "aborted"} => Status = "failed"
BY DEF Status

LEMMA NextStatusOf ==
    /\ phase' = "add" => Status' = "reading"
    /\ phase' = "reference" => Status' = "searching"
    /\ phase' \in {"arrange", "link"} => Status' = "placing"
    /\ phase' = "done" => Status' = "done"
    /\ phase' \in {"failed", "aborted"} => Status' = "failed"
BY DEF Status

(* Nothing has a place before sections are arranged, or after an error.      *)
LEMMA NothingPlaced ==
    phase \in {"add", "reference", "failed", "aborted"} => Addresses = Contract!Nowhere
BY DEF Addresses, Arranged, Contract!Nowhere

LEMMA NothingPlacedNext ==
    phase' \in {"add", "reference", "failed", "aborted"} => Addresses' = Contract!Nowhere
BY DEF Addresses, Arranged, Contract!Nowhere

(* A step that changes none of what Linking looks at is none of its steps.   *)
LEMMA Unseen ==
    ASSUME program' = program, Status' = Status, replaced' = replaced, used' = used,
           Addresses' = Addresses
    PROVE  UNCHANGED Contract!vars
BY DEF Contract!vars

(* An error is one in all phases.                                            *)
LEMMA Fails ==
    ASSUME phase \in {"add", "reference", "arrange", "link"}, phase' \in {"failed", "aborted"},
           program' = program, replaced' = replaced, used' = used
    PROVE  Contract!Fail
BY StatusOf, NextStatusOf, NothingPlacedNext DEF Contract!Fail

(* The initial states are those of Linking.                                  *)
LEMMA Begins == Init => Contract!Init
<1> SUFFICES ASSUME Init PROVE Contract!Init
  OBVIOUS
<1>1. phase = "add" /\ replaced = {} /\ used = {}
  BY DEF Init
<1> QED
  BY <1>1, StatusOf, NothingPlaced DEF Contract!Init

-------------------------------------------------------------------------------
(* Reading.                                                                  *)

(* A block that is replaced gives way to the one of the same name.           *)
LEMMA Discards ==
    ASSUME IInv, Enter
    PROVE  Contract!Discard \/ UNCHANGED Contract!vars
<1> DEFINE other == directory[CurrentName].block
<1>1. /\ phase = "add" /\ phase' = "add" /\ cursor \notin replaced /\ inner # 0
      /\ CurrentName \in NameSet(program[cursor])
      /\ UNCHANGED <<program, used>>
      /\ UNCHANGED replaced \/ Extends \/ Withdraws \/ Displaces
  BY EnterCases
<1>2. cursor \in Blocks \ replaced
  BY <1>1, CurrentBlock
<1>3. Status = "reading" /\ Status' = "reading" /\ Addresses' = Addresses
  BY <1>1, StatusOf, NextStatusOf, NothingPlaced, NothingPlacedNext
<1>4. CASE UNCHANGED replaced \/ Extends
  BY <1>1, <1>3, <1>4, Unseen DEF Extends
<1>5. ASSUME CurrentName \in DOMAIN directory \ GroupNames, other # cursor
      PROVE  /\ other \in Blocks \ replaced
             /\ CurrentName \in NameSet(program[cursor]) \cap NameSet(program[other])
  BY <1>1, <1>5, EntryKinds
<1>6. ASSUME NEW b \in Blocks \ replaced, NEW c \in Blocks \ replaced, b # c,
             CurrentName \in NameSet(program[b]) \cap NameSet(program[c]),
             Contract!IsSubstitute(program[b], program[c]), replaced' = replaced \cup {b}
      PROVE  Contract!Discard
  <2>1. /\ b \in Contract!Live /\ c \in Contract!Live
        /\ Contract!NameSet(program[b]) \cap Contract!NameSet(program[c]) # {}
    BY <1>6, SameBlocks, SameNames
  <2> QED
    BY <1>1, <1>3, <1>6, <2>1 DEF Contract!Discard
<1>7. CASE Withdraws
  <2>1. /\ CurrentName \in DOMAIN directory \ GroupNames /\ other # cursor
        /\ replaced' = replaced \cup {cursor}
        /\ Contract!IsSubstitute(program[cursor], program[other])
    BY <1>7 DEF Withdraws, Contract!IsSubstitute
  <2> QED
    BY <1>2, <1>5, <1>6, <2>1
<1>8. CASE Displaces
  <2>1. /\ CurrentName \in DOMAIN directory \ GroupNames /\ other # cursor
        /\ replaced' = replaced \cup {other}
        /\ Contract!IsSubstitute(program[other], program[cursor])
    BY <1>8 DEF Displaces, Contract!IsSubstitute
  <2> QED
    BY <1>2, <1>5, <1>6, <2>1
<1> QED
  BY <1>1, <1>4, <1>7, <1>8

(* What a link may lead to in the directory are sections of that name.       *)
LEMMA TargetsLinked ==
    ASSUME IInv, NEW b, NEW i \in 1 .. Len(program[b].links),
           NEW name \in {program[b].links[i].name, program[b].links[i].otherwise},
           name \in DOMAIN directory \ GroupNames
    PROVE  directory[name].block \in Contract!Linked(b)
<1>1. /\ directory[name].block \in Blocks \ replaced
      /\ name \in NameSet(program[directory[name].block])
  BY EntryKinds
<1> QED
  BY <1>1, SameBlocks, SameNames DEF Contract!Linked

LEMMA TouchedLinked ==
    ASSUME IInv, NEW b
    PROVE  Touched(b) \subseteq Contract!Linked(b)
<1> SUFFICES ASSUME NEW i \in 1 .. Len(program[b].links),
                    program[b].links[i].name \in DOMAIN directory,
                    ~directory[program[b].links[i].name].isGroup
             PROVE  directory[program[b].links[i].name].block \in Contract!Linked(b)
  BY DEF Touched
<1>1. program[b].links[i].name \in DOMAIN directory \ GroupNames
  BY EntryKinds
<1> QED
  BY <1>1, TargetsLinked

(* The search begins with what Use has marked, unless there was an error or  *)
(* there is no entry point.                                                  *)
LEMMA Selects ==
    ASSUME IInv, Start
    PROVE  Contract!Select \/ Contract!Fail
<1> DEFINE entry == directory[EntryPoint].block
           roots == {entry} \cup Required
<1>1. /\ phase = "add" /\ UNCHANGED <<program, replaced>>
      /\ \/ phase' = "failed" /\ UNCHANGED used
         \/ phase' = "reference" /\ HasEntryPoint /\ used' = Reached(roots)
  BY Zenon DEF Start
<1>2. CASE phase' = "failed" /\ UNCHANGED used
  BY <1>1, <1>2, Fails
<1>3. CASE phase' = "reference" /\ HasEntryPoint /\ used' = Reached(roots)
  <2>1. /\ EntryPoint \in DOMAIN directory \ GroupNames /\ IsEntryPoint(program[entry])
        /\ used' \subseteq Blocks \ replaced
    BY <1>3, SectionTypes, ReachedIsLive DEF HasEntryPoint, IInv, ControlInv
  <2>2. entry \in Contract!Live /\ Contract!IsEntryPoint(program[entry])
        /\ used' \subseteq Contract!Live
    BY <2>1, EntryKinds, SameBlocks, SameEntryPoint
  <2>3. {b \in Contract!Live : program[b].required} = Required
    BY SameBlocks DEF Required
  <2>4. roots \subseteq used'
    BY <1>3, <2>2, SameBlocks DEF Reached, Required
  <2>5. Contract!IsGrounded(used', roots)
    <3> SUFFICES ASSUME NEW grounds \in SUBSET Blocks, roots \subseteq grounds,
                        \A b \in grounds : Contract!Linked(b) \subseteq grounds
                 PROVE  used' \subseteq grounds
      BY SameBlocks DEF Contract!IsGrounded
    <3>1. \A b \in grounds : Touched(b) \subseteq grounds
      BY TouchedLinked
    <3> QED
      BY <1>3, <3>1 DEF Reached
  <2>6. /\ Status = "reading" /\ Status' = "searching" /\ Addresses' = Addresses
    BY <1>1, <1>3, StatusOf, NextStatusOf, NothingPlaced, NothingPlacedNext
  <2> HIDE DEF entry
  <2>7. \E e \in Contract!Live :
            LET r == {e} \cup {b \in Contract!Live : program[b].required}
            IN  /\ Contract!IsEntryPoint(program[e])
                /\ r \subseteq used' /\ used' \subseteq Contract!Live
                /\ Contract!IsGrounded(used', r)
    BY <2>2, <2>3, <2>4, <2>5
  <2> QED
    BY <1>1, <2>6, <2>7 DEF Contract!Select
<1> QED
  BY <1>1, <1>2, <1>3

LEMMA Reads ==
    ASSUME IInv, Next, phase = "add"
    PROVE  Contract!Next \/ UNCHANGED Contract!vars
<1>1. CASE Create \/ Join
  <2>1. phase' = "add" /\ UNCHANGED <<program, replaced, used>>
    BY <1>1, Zenon DEF Create, Join, AddError, flags
  <2>2. Status' = Status /\ Addresses' = Addresses
    BY <2>1, StatusOf, NextStatusOf, NothingPlaced, NothingPlacedNext
  <2> QED
    BY <2>1, <2>2, Unseen
<1>2. CASE Enter
  BY <1>2, Discards DEF Contract!Next
<1>3. CASE Start
  BY <1>3, Selects DEF Contract!Next
<1> QED
  BY <1>1, <1>2, <1>3, Phases

-------------------------------------------------------------------------------
(* Searching.                                                                *)

(* A visit adds a block that what is used links to.                          *)
LEMMA Searches ==
    ASSUME IInv, Next, phase = "reference"
    PROVE  Contract!Next \/ UNCHANGED Contract!vars
<1>1. program' = program /\ replaced' = replaced /\ order' = order
  BY Framed, Phases
<1>2. ASSUME phase' = "reference", UNCHANGED used
      PROVE  UNCHANGED Contract!vars
  <2>1. Status' = Status /\ Addresses' = Addresses
    BY <1>2, StatusOf, NextStatusOf, NothingPlaced, NothingPlacedNext
  <2> QED
    BY <1>1, <1>2, <2>1, Unseen
<1>3. \A block, callers : Visit(block, callers) => used' = used \/ used' = used \cup {block}
  BY Zenon DEF Visit
<1>4. CASE Refer
  <2>1. phase' = "reference" /\ used' = used
    BY <1>3, <1>4, ReferVisits
  <2> QED
    BY <1>2, <2>1
<1>5. CASE Resolve
  <2> DEFINE top == Head(stack)
             link == program[top.block].links[top.link]
             target == directory[Target(link)].block
  <2>1. /\ phase' = "reference"
        /\ top.block \in referenced /\ top.link \in 1 .. Len(program[top.block].links)
        /\ \/ used' = used
           \/ used' = used \cup {target} /\ Target(link) \in DOMAIN directory \ GroupNames
    BY <1>3, <1>5, ResolveVisits
  <2>2. CASE used' = used
    BY <1>2, <2>1, <2>2
  <2>3. CASE used' = used \cup {target} /\ Target(link) \in DOMAIN directory \ GroupNames
    <3>1. top.block \in used
      BY <2>1 DEF IInv, FlagsInv
    <3>2. Target(link) \in {link.name, link.otherwise}
      BY DEF Target
    <3> HIDE DEF top
    <3>3. target \in Contract!Linked(top.block)
      BY <2>1, <2>3, <3>2, TargetsLinked
    <3>4. Status = "searching" /\ Status' = Status /\ Addresses' = Addresses
      BY <2>1, StatusOf, NextStatusOf, NothingPlaced, NothingPlacedNext
    <3> HIDE DEF target
    <3>5. Contract!Search
      BY <1>1, <2>3, <3>1, <3>3, <3>4 DEF Contract!Search
    <3> QED
      BY <3>5 DEF Contract!Next
  <2> QED
    BY <2>1, <2>2, <2>3
<1>6. CASE Return
  <2>1. phase' = "reference" /\ used' = used
    BY <1>6 DEF Return, control, flags
  <2> QED
    BY <1>2, <2>1
<1>7. CASE EndReference
  <2>1. phase' \in {"failed", "arrange"} /\ cursor' = 1 /\ used' = used
    BY <1>7 DEF EndReference, flags
  <2>2. CASE phase' = "failed"
    BY <1>1, <2>1, <2>2, Fails DEF Contract!Next
  <2>3. CASE phase' = "arrange"
    <3>1. Arranged' = {}
      BY <2>1, <2>3 DEF Arranged
    <3>2. Addresses' = Addresses
      BY <3>1, NothingPlaced DEF Addresses, Contract!Nowhere
    <3> QED
      BY <1>1, <2>1, <2>3, <3>2, StatusOf, NextStatusOf DEF Contract!Settle, Contract!Next
  <2> QED
    BY <2>1, <2>2, <2>3
<1> QED
  BY <1>4, <1>5, <1>6, <1>7
    DEF Next, Create, Enter, Join, Start, Pass, Arrange, EndArrange, Copy, Patch, EndLink

-------------------------------------------------------------------------------
(* Placing.                                                                  *)

(* All blocks are in the list, in the order of their placements.             *)
LEMMA Listed ==
    ASSUME IInv, phase # "add"
    PROVE  /\ Len(order) = Len(program) /\ Len(order) \in Nat
           /\ \A b \in Blocks : \E i \in 1 .. Len(order) : order[i] = b
           /\ \A i \in 1 .. Len(order) : order[i] \in Blocks
           /\ \A i, j \in 1 .. Len(order) : order[i] = order[j] => i = j
           /\ \A i, j \in 1 .. Len(order) :
                i <= j => ~Less(program[order[j]], program[order[i]])
<1>1. /\ Len(order) = Len(program) /\ Len(order) \in Nat
      /\ \A b \in Blocks : \E i \in 1 .. Len(order) : order[i] = b
      /\ \A i \in 1 .. Len(order) : order[i] \in Blocks
      /\ \A i, j \in 1 .. Len(order) : order[i] = order[j] => i = j
      /\ InOccurrence
  <2>1. order \in Seq(Blocks) /\ OrderInv
    BY DEF IInv, OrderInv
  <2>2. Len(order) = Len(program)
    BY <2>1 DEF OrderInv, Created
  <2>3. \A b \in Blocks : \E i \in 1 .. Len(order) : order[i] = b
    BY <2>1, <2>2, Zenon DEF OrderInv, Blocks
  <2>4. /\ \A i, j \in 1 .. Len(order) : order[i] = order[j] => i = j
        /\ InOccurrence
    BY <2>1 DEF OrderInv
  <2>5. Len(order) \in Nat /\ \A i \in 1 .. Len(order) : order[i] \in Blocks
    BY <2>1
  <2> QED
    BY <2>2, <2>3, <2>4, <2>5
<1>2. \A i, j \in 1 .. Len(order) : i <= j => ~Less(program[order[j]], program[order[i]])
  <2> TAKE i, j \in 1 .. Len(order)
  <2> HAVE i <= j
  <2>1. CASE i < j
    BY <1>1, <2>1 DEF InOccurrence
  <2>2. CASE i = j
    <3>1. program[order[i]] \in Sections
      BY <1>1, SectionTypes DEF IInv, ControlInv
    <3> QED
      BY <2>2, <3>1, LessOrder
  <2> QED
    BY <2>1, <2>2
<1> QED
  BY <1>1, <1>2

(* The address of a section that Arrange accepts is of its kind.             *)
LEMMA AllocatesPlace ==
    ASSUME NEW arr, IsProper(arr), NEW request, IsRequest(request), NEW size \in Value,
           request.fixed => Allocate(arr, request, size).address = request.at
    PROVE  Contract!IsPlace(request, Allocate(arr, request, size).address)
<1> DEFINE based == Rebase(arr, request)
           begin == Begin(based, request, size)
           result == Allocate(arr, request, size)
<1>1. IsProper(based)
  BY RebaseProper
<1>2. ~request.fixed => begin % request.at = 0
  BY <1>1, BeginValue
<1>3. result.address \in {begin, IF request.at = 0 THEN 1 ELSE 0}
  BY DEF Allocate
<1>4. ~request.fixed => request.at \in Nat \ {0}
  BY ModulusNat DEF IsRequest
<1> HIDE DEF result, begin, based
<1>5. ~request.fixed => result.address % request.at = 0
  <2> SUFFICES ASSUME ~request.fixed PROVE result.address % request.at = 0
    OBVIOUS
  <2>1. CASE result.address = begin
    BY <1>2, <2>1
  <2>2. CASE result.address = 0
    BY <1>4, <2>2
  <2> QED
    BY <1>3, <1>4, <2>1, <2>2
<1> QED
  BY <1>5 DEF Contract!IsPlace, result

(* What was arranged in an image stays there.                                *)
LEMMA AllocatesMore ==
    ASSUME NEW arr, IsProper(arr), NEW request, IsRequest(request), NEW size \in Value
    PROVE  Cover(arr.layout) \subseteq Cover(Allocate(arr, request, size).arrangement.layout)
<1> DEFINE based == Rebase(arr, request)
           begin == Begin(based, request, size)
<1>1. IsProper(based) /\ begin \in Value
  BY RebaseProper, BeginValue
<1>2. Cover(arr.layout) \subseteq Cover(based.layout)
  <2>1. based = arr \/ arr.layout = {}
    BY RebaseProper
  <2>2. Cover({}) = {}
    BY DEF Cover
  <2> QED
    BY <2>1, <2>2
<1>3. CASE Collides(based, request, begin)
  <2>1. Allocate(arr, request, size).arrangement = based
    BY <1>3 DEF Allocate
  <2> QED
    BY <1>2, <2>1
<1>4. CASE ~Collides(based, request, begin)
  <2>1. Allocate(arr, request, size).arrangement = Occupy(based, request, begin)
    BY <1>4 DEF Allocate
  <2>2. Cover(based.layout) \subseteq Cover(Occupy(based, request, begin).layout)
    BY <1>1, <1>4, OccupyKeeps
  <2> QED
    BY <1>2, <2>1, <2>2
<1> QED
  BY <1>3, <1>4

(* The bytes of a section that gets its origin were free, and are taken now. *)
LEMMA AllocatesOrigin ==
    ASSUME NEW arr, IsProper(arr), NEW request, IsRequest(request), NEW size \in Value,
           request.fixed, Allocate(arr, request, size).address = request.at,
           ~(Wrap(request.at + request.bytes) < request.at)
    PROVE  \A v \in Value : request.at <= v /\ v < request.at + request.bytes =>
                /\ v \in Cover(Allocate(arr, request, size).arrangement.layout)
                /\ v \notin Cover(arr.layout)
<1> DEFINE based == Rebase(arr, request)
           begin == Begin(based, request, size)
           next == Occupy(based, request, begin)
<1>1. /\ request.at \in Nat /\ request.bytes \in Nat /\ Modulus \in Nat /\ Modulus > 0
      /\ request.at < Modulus /\ request.bytes < Modulus /\ request.at \in Value
  BY ModulusNat DEF IsRequest
<1>2. IsProper(based) /\ begin = request.at
  BY RebaseProper DEF Begin
<1>3. ~Collides(based, request, begin)
  <2> SUFFICES ASSUME Collides(based, request, begin) PROVE FALSE
    OBVIOUS
  <2>1. Allocate(arr, request, size).address = IF request.at = 0 THEN 1 ELSE 0
    BY DEF Allocate
  <2> QED
    BY <1>1, <2>1
<1>4. Allocate(arr, request, size).arrangement = next
  BY <1>3 DEF Allocate
<1>5. begin + request.bytes < Modulus
  <2> SUFFICES ASSUME Modulus <= request.at + request.bytes PROVE FALSE
    BY <1>1, <1>2
  <2> DEFINE sum == request.at + request.bytes
  <2>1. sum \in Nat /\ Modulus <= sum /\ sum < 2 * Modulus /\ sum - Modulus < request.at
    BY <1>1
  <2>2. ~(Wrap(sum) < request.at)
    OBVIOUS
  <2> HIDE DEF sum
  <2> QED
    BY <2>1, <2>2, WrapOnce
<1> HIDE DEF next, based
<1>6. \A v \in Value : request.at <= v /\ v < request.at + request.bytes =>
          v \in Cover(next.layout) /\ v \notin Cover(based.layout)
  BY <1>1, <1>2, <1>3, <1>5, OccupyKeeps DEF next
<1>7. Cover(arr.layout) \subseteq Cover(based.layout)
  <2>1. based = arr \/ arr.layout = {}
    BY RebaseProper DEF based
  <2>2. Cover({}) = {}
    BY DEF Cover
  <2> QED
    BY <2>1, <2>2
<1> QED
  BY <1>4, <1>6, <1>7

\* An offset of a section that begins at another one.
IsWithin(begin, section, v) == begin <= v /\ v < begin + section.bytes

(* Besides IInv, the refinement needs that the layout of an image has all    *)
(* bytes of the sections that got their origin in it.                        *)
OriginInv ==
    phase = "arrange" =>
        \A b \in Arranged : program[b].fixed =>
            \A v \in Value : IsWithin(address[b], program[b], v) =>
                v \in Cover(images[ImageOf(program[b])].layout)

(* What Arrange does with the block at the cursor, if there is no error: its *)
(* address is of its kind, and one that is fixed meets no other.             *)
LEMMA ArrangeStep ==
    ASSUME IInv, Arrange, phase' # "failed"
    PROVE  LET block == order[cursor]
               section == program[block]
               image == ImageOf(section)
           IN  /\ phase = "arrange" /\ phase' = "arrange" /\ cursor' = cursor + 1
               /\ cursor \in 1 .. Len(order) /\ block \in used /\ block \in Blocks
               /\ UNCHANGED <<program, order, replaced, used>>
               /\ image \in DOMAIN images
               /\ address'[block] \in Value /\ Contract!IsPlace(section, address'[block])
               /\ \A c \in Blocks \ {block} : address'[c] = address[c]
               /\ \A i \in DOMAIN images : i # image => images'[i] = images[i]
               /\ Cover(images[image].layout) \subseteq Cover(images'[image].layout)
               /\ section.fixed => \A v \in Value : IsWithin(address'[block], section, v) =>
                    v \in Cover(images'[image].layout) /\ v \notin Cover(images[image].layout)
<1> DEFINE block == order[cursor]
           section == program[block]
           group == section.group
           image == ImageOf(section)
           size == IF group = NoName THEN section.bytes ELSE directory[group].offset
           result == Allocate(images[image], section, size)
<1>1. /\ phase = "arrange" /\ cursor <= Len(order) /\ block \in used
      /\ address' = [address EXCEPT ![block] = result.address]
      /\ images' = [images EXCEPT ![image] = result.arrangement]
      /\ UNCHANGED <<program, order, replaced, used>>
      /\ ~Refuses(section, result.address) /\ phase' = "arrange" /\ cursor' = cursor + 1
  BY Zenon DEF Arrange, flags
<1>2. /\ block \in Blocks /\ cursor \in 1 .. Len(order)
      /\ address \in [Blocks -> Value] /\ image \in DOMAIN images
  <2>1. used \subseteq Blocks /\ Len(order) \in Nat
    BY <1>1, Listed DEF IInv, FlagsInv
  <2>2. cursor \in Int /\ cursor >= 1
    BY DEF IInv, ControlInv
  <2>3. address \in [Blocks -> Value] /\ DOMAIN images = {CodeImage, DataImage, ConstImage}
    BY DEF IInv, MemoryInv
  <2> QED
    BY <1>1, <2>1, <2>2, <2>3 DEF ImageOf
<1>3. section \in Sections /\ IsRequest(section)
  BY <1>2, SectionTypes DEF IInv, ControlInv, IsRequest, Sections
<1>4. size \in Value
  <2>1. section.bytes \in Value
    BY <1>3 DEF Sections
  <2>2. group # NoName => directory[group].offset \in Value
    BY <1>1, <1>2, GroupEntered, GroupEntryTypes
  <2> QED
    BY <2>1, <2>2
<1>5. IsProper(images[image])
  BY DEF IInv, MemoryInv, ImageOf
<1>6. /\ section.fixed => result.address = section.at
      /\ ~(Wrap(result.address + section.bytes) < result.address)
  BY <1>1 DEF Refuses, End
<1> HIDE DEF size, image, section, result
<1>7. /\ address'[block] = result.address /\ images'[image] = result.arrangement
      /\ \A c \in Blocks \ {block} : address'[c] = address[c]
      /\ \A i \in DOMAIN images : i # image => images'[i] = images[i]
  BY <1>1, <1>2
<1>8. result.address \in Value /\ Contract!IsPlace(section, result.address)
  BY <1>3, <1>4, <1>5, <1>6, AllocateKeeps, AllocatesPlace DEF result
<1>9. Cover(images[image].layout) \subseteq Cover(result.arrangement.layout)
  BY <1>3, <1>4, <1>5, AllocatesMore DEF result
<1>10. section.fixed => \A v \in Value : IsWithin(address'[block], section, v) =>
          v \in Cover(result.arrangement.layout) /\ v \notin Cover(images[image].layout)
  <2> SUFFICES ASSUME section.fixed
               PROVE  \A v \in Value : IsWithin(address'[block], section, v) =>
                        /\ v \in Cover(result.arrangement.layout)
                        /\ v \notin Cover(images[image].layout)
    OBVIOUS
  <2>1. result.address = section.at /\ ~(Wrap(section.at + section.bytes) < section.at)
    BY <1>6
  <2>2. \A v \in Value : section.at <= v /\ v < section.at + section.bytes =>
            /\ v \in Cover(result.arrangement.layout)
            /\ v \notin Cover(images[image].layout)
    BY <1>3, <1>4, <1>5, <2>1, AllocatesOrigin DEF result
  <2> QED
    BY <1>7, <2>1, <2>2 DEF IsWithin
<1> QED
  BY <1>1, <1>2, <1>7, <1>8, <1>9, <1>10 DEF section, image

(* What is placed then is that block, too.                                   *)
LEMMA ArrangedNext ==
    ASSUME IInv, Arrange, phase' # "failed"
    PROVE  /\ Arranged' = Arranged \cup {order[cursor]}
           /\ order[cursor] \notin Arranged /\ Arranged \subseteq Blocks
           /\ \A c \in used \ Arranged : ~Less(program[c], program[order[cursor]])
           /\ \A c \in Arranged : ~Less(program[order[cursor]], program[c])
<1> DEFINE block == order[cursor]
<1>1. /\ phase = "arrange" /\ phase' = "arrange" /\ cursor' = cursor + 1
      /\ cursor \in 1 .. Len(order) /\ block \in used
      /\ UNCHANGED <<program, order, used>>
  BY ArrangeStep
<1>2. used \subseteq Blocks /\ Len(order) \in Nat /\ cursor \in Nat
  BY <1>1, Listed DEF IInv, FlagsInv
<1>3. Arranged = used \cap {order[i] : i \in 1 .. cursor - 1}
  BY <1>1 DEF Arranged
<1>4. Arranged' = used \cap {order[i] : i \in 1 .. cursor}
  BY <1>1, <1>2 DEF Arranged
<1>5. Arranged' = Arranged \cup {block}
  <2>1. 1 .. cursor = 1 .. (cursor - 1) \cup {cursor}
    BY <1>1, <1>2
  <2> QED
    BY <1>1, <1>3, <1>4, <2>1
<1>6. block \notin Arranged
  BY <1>1, <1>2, <1>3, Listed
<1>7. ASSUME NEW c \in used \ Arranged
      PROVE  ~Less(program[c], program[block])
  <2>1. PICK i \in 1 .. Len(order) : order[i] = c
    BY <1>1, <1>2, Listed
  <2>2. cursor <= i
    BY <1>2, <1>3, <2>1
  <2> QED
    BY <1>1, <2>1, <2>2, Listed
<1>8. ASSUME NEW c \in Arranged
      PROVE  ~Less(program[block], program[c])
  <2>1. PICK i \in 1 .. cursor - 1 : order[i] = c
    BY <1>3
  <2>2. i \in 1 .. Len(order) /\ i <= cursor
    BY <1>1, <1>2
  <2> QED
    BY <1>1, <2>1, <2>2, Listed
<1> QED
  BY <1>2, <1>3, <1>5, <1>6, <1>7, <1>8

LEMMA PassKeeps ==
    ASSUME IInv, Pass, phase = "arrange"
    PROVE  Arranged' = Arranged /\ Addresses' = Addresses
<1>1. /\ phase' = "arrange" /\ cursor' = cursor + 1 /\ cursor <= Len(order)
      /\ order[cursor] \notin used /\ UNCHANGED <<used, address, order>>
  BY DEF Pass, flags, memory
<1>2. Len(order) \in Nat /\ cursor \in Nat
  BY Listed DEF IInv, ControlInv
<1>3. /\ Arranged = used \cap {order[i] : i \in 1 .. cursor - 1}
      /\ Arranged' = used \cap {order[i] : i \in 1 .. cursor}
  BY <1>1, <1>2 DEF Arranged
<1>4. Arranged' = Arranged
  <2>1. 1 .. cursor = 1 .. (cursor - 1) \cup {cursor} \/ cursor = 0
    BY <1>2
  <2> QED
    BY <1>1, <1>2, <1>3, <2>1
<1> QED
  BY <1>1, <1>4 DEF Addresses

LEMMA OriginStep ==
    ASSUME IInv, OriginInv, [Next]_vars
    PROVE  OriginInv'
<1> SUFFICES ASSUME phase' = "arrange"
             PROVE  \A b \in Arranged' : program'[b].fixed =>
                        \A v \in Value : IsWithin(address'[b], program'[b], v) =>
                            v \in Cover(images'[ImageOf(program'[b])].layout)
  BY DEF OriginInv, IsWithin
<1>1. CASE UNCHANGED <<program, images, address>> /\ Arranged' = {}
  BY <1>1
<1>2. CASE UNCHANGED <<program, images, address>> /\ Arranged' = Arranged /\ phase = "arrange"
  BY <1>2 DEF OriginInv, IsWithin
<1>3. CASE Arrange
  <2> DEFINE block == order[cursor]
  <2>1. /\ phase = "arrange" /\ program' = program /\ block \in Blocks
        /\ Arranged' = Arranged \cup {block}
        /\ block \notin Arranged /\ Arranged \subseteq Blocks
    BY <1>3, ArrangeStep, ArrangedNext
  <2> SUFFICES ASSUME NEW b \in Arranged', program[b].fixed, NEW v \in Value,
                      IsWithin(address'[b], program[b], v)
               PROVE  v \in Cover(images'[ImageOf(program[b])].layout)
    BY <2>1
  <2>2. CASE b = block
    BY <1>3, <2>2, ArrangeStep
  <2>3. CASE b # block
    <3>1. b \in Arranged /\ address'[b] = address[b]
      BY <1>3, <2>1, <2>3, ArrangeStep
    <3>2. IsWithin(address[b], program[b], v)
      BY <3>1
    <3>3. v \in Cover(images[ImageOf(program[b])].layout)
      BY <2>1, <3>1, <3>2 DEF OriginInv
    <3>4. ImageOf(program[b]) \in DOMAIN images
      BY DEF IInv, MemoryInv, ImageOf
    <3> QED
      BY <1>3, <3>3, <3>4, ArrangeStep
  <2> QED
    BY <2>2, <2>3
<1>4. CASE UNCHANGED vars
  <2>1. UNCHANGED <<program, images, address>> /\ Arranged' = Arranged /\ phase = "arrange"
    BY <1>4 DEF vars, control, flags, memory, Arranged
  <2> QED
    BY <1>2, <2>1
<1>5. CASE EndReference
  <2>1. cursor' = 1 /\ UNCHANGED <<program, images, address>>
    BY <1>5 DEF EndReference, memory
  <2>2. Arranged' = {}
    BY <2>1 DEF Arranged
  <2> QED
    BY <1>1, <2>1, <2>2
<1>6. CASE Pass
  <2>1. phase = "arrange" /\ UNCHANGED <<program, images, address>>
    BY <1>6 DEF Pass, memory, control
  <2>2. Arranged' = Arranged
    BY <1>6, <2>1, PassKeeps
  <2> QED
    BY <1>2, <2>1, <2>2
<1>7. ~(Create \/ Enter \/ Join \/ Start \/ Refer \/ Resolve \/ Return)
  BY Zenon DEF Create, Enter, Join, Start, Refer, Resolve, Return, AddError, control, IInv, StackInv
<1>8. ~(EndArrange \/ Copy \/ Patch \/ EndLink)
  BY DEF EndArrange, Copy, Patch, EndLink
<1> QED
  BY <1>3, <1>4, <1>5, <1>6, <1>7, <1>8 DEF Next

(* The next block of the list that is used gets its place, or there is an    *)
(* error.                                                                    *)
LEMMA Places ==
    ASSUME IInv, OriginInv, Arrange
    PROVE  Contract!Place \/ Contract!Fail
<1> DEFINE block == order[cursor]
           section == program[block]
           begin == address'[block]
<1>1. UNCHANGED <<program, replaced, used>> /\ phase = "arrange"
  BY Zenon DEF Arrange, flags
<1>2. CASE phase' = "failed"
  BY <1>1, <1>2, Fails
<1>3. CASE phase' # "failed"
  <2>1. /\ phase' = "arrange" /\ block \in used /\ block \in Blocks
        /\ begin \in Value /\ Contract!IsPlace(section, begin)
        /\ \A c \in Blocks \ {block} : address'[c] = address[c]
    BY <1>3, ArrangeStep
  <2>2. /\ Arranged' = Arranged \cup {block}
        /\ block \notin Arranged /\ Arranged \subseteq Blocks
        /\ \A c \in used \ Arranged : ~Contract!Less(program[c], section)
    BY <1>3, ArrangedNext, SameOrder
  <2>3. DOMAIN Addresses = Arranged /\ \A c \in Arranged : Addresses[c] = address[c]
    BY DEF Addresses
  <2>4. Addresses' = [c \in DOMAIN Addresses \cup {block} |->
                        IF c = block THEN begin ELSE Addresses[c]]
    <3>1. Addresses' = [c \in Arranged' |-> address'[c]]
      BY DEF Addresses
    <3>2. \A c \in Arranged \cup {block} :
              address'[c] = IF c = block THEN begin ELSE Addresses[c]
      BY <2>1, <2>2, <2>3
    <3> QED
      BY <2>2, <2>3, <3>1, <3>2
  <2>5. Contract!IsFree(section, begin)
    <3> SUFFICES ASSUME section.fixed, NEW c \in Arranged, ImageOf(program[c]) = ImageOf(section),
                        NEW v \in Value, begin <= v, v < begin + section.bytes,
                        address[c] <= v, v < address[c] + program[c].bytes
                 PROVE  FALSE
      BY <2>3, SameImages DEF Contract!IsFree, Contract!Value, Value
    <3>1. program[c].fixed
      <4>1. ~Less(section, program[c])
        BY <1>3, ArrangedNext
      <4>2. section \in Sections /\ program[c] \in Sections
        BY <2>1, <2>2, SectionTypes DEF IInv, ControlInv
      <4>3. /\ Placement(section) = 0
            /\ Placement(program[c]) \in Nat /\ (Placement(program[c]) = 0 => program[c].fixed)
        BY <4>2, PlacementNat
      <4> HIDE DEF section
      <4> QED
        BY <4>1, <4>3 DEF Less
    <3>2. v \in Cover(images[ImageOf(section)].layout)
      BY <1>1, <3>1 DEF OriginInv, IsWithin
    <3>3. IsWithin(begin, section, v)
      BY DEF IsWithin
    <3> QED
      BY <1>3, <3>2, <3>3, ArrangeStep
  <2>6. Status = "placing" /\ Status' = "placing"
    BY <1>1, <2>1, StatusOf, NextStatusOf
  <2>7. block \in used \ DOMAIN Addresses
    BY <2>1, <2>2, <2>3
  <2> HIDE DEF block, begin
  <2>8. \E b \in used \ DOMAIN Addresses : \E e \in Value :
            /\ \A c \in used \ DOMAIN Addresses : ~Contract!Less(program[c], program[b])
            /\ Contract!IsPlace(program[b], e) /\ Contract!IsFree(program[b], e)
            /\ Addresses' = [c \in DOMAIN Addresses \cup {b} |->
                                IF c = b THEN e ELSE Addresses[c]]
    BY <2>1, <2>2, <2>3, <2>4, <2>5, <2>7
  <2> QED
    BY <1>1, <2>6, <2>8 DEF Contract!Place, Contract!Value, Value
<1> QED
  BY <1>2, <1>3

LEMMA Arranges ==
    ASSUME IInv, OriginInv, Next, phase = "arrange"
    PROVE  Contract!Next \/ UNCHANGED Contract!vars
<1>1. program' = program /\ replaced' = replaced /\ order' = order
  BY Framed, Phases
<1>2. /\ Len(order) \in Nat /\ cursor \in Nat /\ used \subseteq Blocks
      /\ Arranged = used \cap {order[i] : i \in 1 .. cursor - 1}
  BY Listed DEF Arranged, IInv, ControlInv, FlagsInv
<1>3. CASE Pass
  <2>1. phase' = "arrange" /\ used' = used
    BY <1>3 DEF Pass, flags
  <2>2. Addresses' = Addresses
    BY <1>3, PassKeeps
  <2> QED
    BY <1>1, <2>1, <2>2, StatusOf, NextStatusOf, Unseen
<1>4. CASE Arrange
  BY <1>4, Places DEF Contract!Next
<1>5. CASE EndArrange
  <2>1. phase' = "link" /\ cursor > Len(order) /\ used' = used /\ address' = address
    BY <1>5 DEF EndArrange, flags, memory
  <2>2. used \subseteq {order[i] : i \in 1 .. cursor - 1}
    <3> SUFFICES ASSUME NEW b \in used PROVE b \in {order[i] : i \in 1 .. cursor - 1}
      OBVIOUS
    <3>1. PICK i \in 1 .. Len(order) : order[i] = b
      BY <1>2, Listed
    <3>2. i \in 1 .. cursor - 1
      BY <1>2, <2>1
    <3> QED
      BY <3>1, <3>2
  <2>3. Arranged' = Arranged
    BY <1>2, <2>1, <2>2 DEF Arranged
  <2>4. Addresses' = Addresses
    BY <2>1, <2>3 DEF Addresses
  <2> QED
    BY <1>1, <2>1, <2>4, StatusOf, NextStatusOf, Unseen
<1> QED
  <2>1. stack = <<>>
    BY DEF IInv, StackInv
  <2> QED
    BY <1>3, <1>4, <1>5, <2>1
      DEF Next, Create, Enter, Join, Start, Refer, Resolve, Return, EndReference, Copy, Patch,
          EndLink

(* At the end, every link without conditions led to something used.          *)
LEMMA Completes ==
    ASSUME IInv, IInv', Next, phase = "link", phase' = "done"
    PROVE  Contract!IsComplete
<1>1. program' = program /\ replaced' = replaced /\ order' = order /\ GroupNames' = GroupNames
  BY Framed, Phases
<1>2. EndLink
  BY Phases DEF Next, Create, Enter, Join, Start, Refer, Resolve, Return, EndReference, Pass,
       Arrange, EndArrange, Copy, Patch, control
<1>3. directory' = directory /\ used' = used /\ stack = <<>>
  BY <1>2 DEF EndLink, flags, IInv, StackInv
<1> SUFFICES ASSUME NEW b \in used, NEW i \in 1 .. Len(program[b].links),
                    program[b].links[i].conditions = {}, program[b].links[i].name # NoName
             PROVE  \/ \E c \in used : program[b].links[i].name \in NameSet(program[c])
                    \/ \E c \in Blocks : program[b].links[i].name = program[c].group
  BY SameBlocks, SameNames DEF Contract!IsComplete, Contract!NoName, NoName
<1> DEFINE name == program[b].links[i].name
<1>4. CASE name \in GroupNames
  BY <1>4 DEF GroupNames
<1>5. CASE name \notin GroupNames
  <2>1. PICK p \in 1 .. Len(order) : order[p] = b
    BY Listed DEF IInv, FlagsInv
  <2>2. IsEvaluated(b, i)'
    <3>1. Patched(p)' = Len(program[b].links)
      BY <1>1, <2>1 DEF Patched
    <3>2. \A j \in 1 .. Patched(p)' : IsEvaluated(order[p], j)'
      BY <1>1, <1>3, <2>1 DEF IInv, ValueInv
    <3> QED
      BY <1>1, <2>1, <3>1, <3>2
  <2>3. name \in DOMAIN directory
    BY <1>1, <1>3, <1>5, <2>2 DEF IsEvaluated
  <2>4. directory[name].block \in used
    <3>1. LeadsInto(program[b].links[i], used)
      BY <1>3 DEF IInv, UseInv
    <3> QED
      BY <1>5, <2>3, <3>1 DEF LeadsInto
  <2> QED
    BY <1>5, <2>3, <2>4, EntryKinds
<1> QED
  BY <1>4, <1>5

LEMMA Finishes ==
    ASSUME IInv, IInv', Next, phase = "link"
    PROVE  Contract!Next \/ UNCHANGED Contract!vars
<1>1. program' = program /\ replaced' = replaced
  BY Framed, Phases
<1>2. used' = used /\ address' = address /\ phase' \in {"link", "failed", "aborted", "done"}
  <2>1. stack = <<>>
    BY DEF IInv, StackInv
  <2> QED
    BY <2>1, Zenon DEF Next, Create, Enter, Join, Start, Refer, Resolve, Return, EndReference,
         Pass, Arrange, EndArrange, Copy, Patch, EndLink, flags, memory
<1>3. CASE phase' \in {"failed", "aborted"}
  BY <1>1, <1>2, <1>3, Fails DEF Contract!Next
<1>4. ASSUME phase' \in {"link", "done"}
      PROVE  DOMAIN Addresses = used /\ Addresses' = Addresses
  <2>1. Arranged = used /\ Arranged' = used
    BY <1>2, <1>4 DEF Arranged
  <2> QED
    BY <1>2, <2>1 DEF Addresses
<1>5. CASE phase' = "link"
  BY <1>1, <1>2, <1>4, <1>5, StatusOf, NextStatusOf, Unseen
<1>6. CASE phase' = "done"
  <2>1. Status = "placing" /\ Status' = "done" /\ DOMAIN Addresses = used /\ Addresses' = Addresses
    BY <1>4, <1>6, StatusOf, NextStatusOf
  <2>2. Contract!Finish
    BY <1>1, <1>2, <1>6, <2>1, Completes DEF Contract!Finish
  <2> QED
    BY <2>2 DEF Contract!Next
<1> QED
  BY <1>2, <1>3, <1>5, <1>6

-------------------------------------------------------------------------------
LEMMA Implements ==
    ASSUME IInv, IInv', OriginInv, [Next]_vars
    PROVE  [Contract!Next]_(Contract!vars)
<1>1. CASE UNCHANGED vars
  <2>1. /\ UNCHANGED <<program, phase, cursor, order, replaced, used, address>>
    BY <1>1 DEF vars, control, flags, memory
  <2>2. Status' = Status /\ Addresses' = Addresses
    BY <2>1 DEF Status, Addresses, Arranged
  <2> QED
    BY <2>1, <2>2, Unseen
<1>2. CASE Next
  BY <1>2, Reads, Searches, Arranges, Finishes, Phases
<1> QED
  BY <1>1, <1>2

(* The linker does what Linking promises: whatever a run does while it       *)
(* reads, searches and places the sections of a program is a step of         *)
(* Linking, or none that it looks at.                                        *)
THEOREM Implementation == Spec => LinksAsPromised
<1>1. Init => Contract!Init
  BY Begins
<1>2. Spec => []OriginInv
  <2>1. Init => OriginInv
    BY DEF Init, OriginInv
  <2>2. IInv /\ OriginInv /\ [Next]_vars => OriginInv'
    BY OriginStep
  <2> QED
    BY <2>1, <2>2, Invariance, PTL DEF Spec
<1>3. IInv /\ IInv' /\ OriginInv /\ [Next]_vars => [Contract!Next]_(Contract!vars)
  BY Implements
<1> QED
  BY <1>1, <1>2, <1>3, Invariance, PTL DEF Spec, LinksAsPromised, Contract!Spec
===============================================================================
