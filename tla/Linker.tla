-------------------------------- MODULE Linker --------------------------------
(*****************************************************************************)
(* One run of the object file linker (class Linker::Context of               *)
(* tools/objlinker.cpp): it enters the names of all sections in a directory, *)
(* lets duplicable and replaceable sections give way to others, finds the    *)
(* sections that are needed, gives them addresses and evaluates their links. *)
(*                                                                           *)
(* A block is the index of its section in the program.  The values a link    *)
(* evaluates to are kept instead of the patterns that store them.  What is   *)
(* marked as faulty is a variant with a bug, see Ranges.                     *)
(*****************************************************************************)
EXTENDS ObjectFiles, FiniteSets

CONSTANT Programs       \* the sequences of sections to link, as read from object files

NoBlock == 0

(* A group has another name than sections, aliases and the entry point, and  *)
(* no condition of a link names a group: the code dereferences null pointers *)
(* otherwise.                                                                *)
ReservesGroups(sections) ==
    \A i, j \in 1 .. Len(sections) :
        LET group == sections[i].group
            other == sections[j]
        IN  group # NoName =>
                /\ group \notin {EntryPoint, other.name}
                /\ \A k \in 1 .. Len(other.aliases) : other.aliases[k].name # group
                /\ \A k \in 1 .. Len(other.links) : group \notin other.links[k].conditions

ASSUME ProgramAssumption ==
    \A sections \in Programs :
        /\ sections \in Seq(Sections)
        /\ \A i \in 1 .. Len(sections) : ~sections[i].fixed => sections[i].at # 0
        /\ ReservesGroups(sections)

VARIABLES
    program,        \* the sections given
    phase,          \* where Process is
    cursor,         \* the loop variable of the phase
    inner,          \* the loop variable within: a name entered, a link patched
    order,          \* the list of blocks
    directory,      \* the directory, from names to sections and groups
    replaced, used, referenced,     \* the blocks with the flag
    stack,          \* the activations of Reference, last first, with their next links
    errors,         \* whether a batch caught an error
    images,         \* the arrangements
    address, index, \* the members of the blocks
    previousCode,   \* the last code block arranged
    values          \* what the links of each block evaluate to

control == <<phase, cursor, inner>>
flags == <<replaced, used, referenced>>
memory == <<images, address, index, previousCode>>
vars == <<program, control, order, directory, flags, stack, errors, memory, values>>

Blocks == 1 .. Len(program)

-------------------------------------------------------------------------------
(* Blocks and entries.                                                       *)

\* An entry of the directory: a block and an offset into it, or a group, whose
\* size shares the storage of the offset.
BlockEntry(block, offset) ==
    [isGroup |-> FALSE, block |-> block, offset |-> offset, count |-> 0]

GroupEntry == [isGroup |-> TRUE, block |-> NoBlock, offset |-> 0, count |-> 0]

With(function, key, value) ==
    [k \in DOMAIN function \cup {key} |-> IF k = key THEN value ELSE function[k]]

Without(function, keys) == [k \in DOMAIN function \ keys |-> function[k]]

-------------------------------------------------------------------------------
(* Context::Add: a block is created and sorted in, its names are entered one *)
(* by one until it is replaced, and it joins its group.                      *)

Init ==
    /\ program \in Programs
    /\ phase = "add"
    /\ cursor = 1
    /\ inner = 0
    /\ order = <<>>
    /\ directory = << >>
    /\ replaced = {} /\ used = {} /\ referenced = {}
    /\ stack = <<>>
    /\ errors = FALSE
    /\ images = [i \in {CodeImage, DataImage, ConstImage} |-> EmptyArrangement]
    /\ address = [b \in Blocks |-> 0]
    /\ index = [b \in Blocks |-> 0]
    /\ previousCode = NoBlock
    /\ values = [b \in Blocks |-> <<>>]

\* Faulty: the lower bound, before the blocks that are equivalent.
UpperBound_Lower(block) ==
    CHOOSE p \in 1 .. Len(order) + 1 :
        /\ p <= Len(order) => ~Less(program[order[p]], program[block])
        /\ \A q \in 1 .. p - 1 : Less(program[order[q]], program[block])

\* The position of the first block that follows the given one.
UpperBound(block) ==
    CHOOSE p \in 1 .. Len(order) + 1 :
        /\ p <= Len(order) => Less(program[block], program[order[p]])
        /\ \A q \in 1 .. p - 1 : ~Less(program[block], program[order[q]])

\* The list with a block inserted at its upper bound.
Sorted(block) ==
    SubSeq(order, 1, UpperBound(block) - 1) \o <<block>>
        \o SubSeq(order, UpperBound(block), Len(order))

Create ==
    /\ phase = "add" /\ inner = 0 /\ cursor <= Len(program)
    /\ order' = Sorted(cursor)
    /\ LET group == program[cursor].group
       IN  directory' = IF group = NoName \/ group \in DOMAIN directory THEN directory
                        ELSE With(directory, group, GroupEntry)
    /\ inner' = 1
    /\ UNCHANGED <<program, phase, cursor, flags, stack, errors, memory, values>>

\* What the name being entered is from now on.
Entered == BlockEntry(cursor, Names(program[cursor])[inner].offset)

\* Faulty: the name still leads to the block that gave way.
Redirected_Not(name) == directory[name]

\* Faulty: the offset of the other block's alias is kept.
Redirected_KeepsOffset(name) == [directory[name] EXCEPT !.block = cursor]

\* The name of a block that gave way to the current one.
Redirected(name) == Entered

\* Faulty: the aliases of the block that gives way are kept.
ErasedNames_NoAliases(block, name) == {program[block].name} \ {name}

\* The names that Replace erases, all of the block but the one replaced.
ErasedNames(block, name) == NameSet(program[block]) \ {name}

\* Context::Replace, and the redirection of the name where the other gave way.
Replace(block, name) ==
    /\ replaced' = replaced \cup {block}
    /\ directory' = LET remaining == Without(directory, ErasedNames(block, name))
                    IN  IF block = cursor THEN remaining
                        ELSE With(remaining, name, Redirected(name))

\* An error leaves Add for the next section of the batch.
AddError ==
    /\ errors' = TRUE
    /\ cursor' = cursor + 1
    /\ inner' = 0
    /\ UNCHANGED <<directory, replaced>>

\* Faulty: the block that may not be replaced gives way.
Replaceable_Not(section, other) == IF section.replaceable THEN other ELSE cursor

\* Which of the current block and another one gives way.
Replaceable(section, other) == IF section.replaceable THEN cursor ELSE other

\* Context::Enter
Enter ==
    /\ phase = "add" /\ inner # 0 /\ inner <= Len(Names(program[cursor]))
    /\ cursor \notin replaced
    /\ LET section == program[cursor]
           name == Names(section)[inner].name
           other == directory[name].block
           rival == program[other]
       IN  \/ /\ name \notin DOMAIN directory
              /\ directory' = With(directory, name, Entered)
              /\ inner' = inner + 1
              /\ UNCHANGED <<cursor, replaced, errors>>
           \/ /\ name \in DOMAIN directory /\ directory[name].isGroup
              /\ AddError
           \/ /\ name \in DOMAIN directory /\ ~directory[name].isGroup
              /\ section.replaceable # rival.replaceable
              /\ Replace(Replaceable(section, other), name)
              /\ inner' = inner + 1
              /\ UNCHANGED <<cursor, errors>>
           \/ /\ name \in DOMAIN directory /\ ~directory[name].isGroup
              /\ section.replaceable = rival.replaceable
              /\ IF (section.duplicable \/ rival.duplicable) /\ section = rival /\ other # cursor
                 THEN /\ Replace(cursor, name)
                      /\ inner' = inner + 1
                      /\ UNCHANGED <<cursor, errors>>
                 ELSE AddError
    /\ UNCHANGED <<program, phase, order, used, referenced, stack, memory, values>>

\* Whether the current block may not be a member of the group it names.
IsInvalidMember(section, entry) ==
    \/ ~entry.isGroup
    \/ section.fixed
    \/ entry.block # NoBlock /\ Placement(section) # Placement(program[entry.block])
    \/ entry.block # NoBlock /\ section.at # program[entry.block].at

Join ==
    /\ phase = "add" /\ inner # 0
    /\ cursor \in replaced \/ inner > Len(Names(program[cursor]))
    /\ LET section == program[cursor]
           group == section.group
       IN  IF group # NoName /\ IsInvalidMember(section, directory[group])
           THEN AddError
           ELSE /\ directory' = IF group = NoName \/ cursor \in replaced THEN directory
                                ELSE [directory EXCEPT ![group].block = cursor]
                /\ cursor' = cursor + 1
                /\ inner' = 0
                /\ UNCHANGED <<replaced, errors>>
    /\ UNCHANGED <<program, phase, order, used, referenced, stack, memory, values>>

-------------------------------------------------------------------------------
(* The entry point is used, and so are the required sections and whatever    *)
(* links without conditions lead to: Context::Use and Context::Touch.        *)

Touched(block) ==
    LET links == program[block].links
    IN  {directory[links[i].name].block : i \in
            {j \in 1 .. Len(links) : /\ links[j].conditions = {}
                                     /\ links[j].name \in DOMAIN directory
                                     /\ ~directory[links[j].name].isGroup}}

\* The blocks that Use reaches from some blocks: the least set closed under
\* Touched that holds them.
Reached(blocks) ==
    {b \in Blocks : \A set \in SUBSET Blocks :
        blocks \subseteq set /\ (\A c \in set : Touched(c) \subseteq set) => b \in set}

Required == {b \in Blocks : program[b].required /\ b \notin replaced}

HasEntryPoint ==
    /\ EntryPoint \in DOMAIN directory
    /\ directory[EntryPoint].block \notin replaced
    /\ directory[EntryPoint].offset = 0
    /\ IsEntryPoint(program[directory[EntryPoint].block])

Start ==
    /\ phase = "add" /\ cursor > Len(program)
    /\ IF errors \/ ~HasEntryPoint
       THEN phase' = "failed" /\ UNCHANGED used
       ELSE /\ phase' = "reference"
            /\ used' = Reached({directory[EntryPoint].block} \cup Required)
    /\ cursor' = 1
    /\ UNCHANGED <<program, inner, order, directory, replaced, referenced, stack,
                   errors, images, address, index, previousCode, values>>

-------------------------------------------------------------------------------
(* What is used is referenced, depth first, and every link is resolved.      *)

\* Context::IsRequired.  A condition is the name of a section, never of a group.
IsRequired(link) ==
    link.conditions = {} \/
    \E name \in link.conditions \cap DOMAIN directory : directory[name].block \in used

\* StripConditionals: the name a link stands for at the moment, if any.
Target(link) == IF IsRequired(link) THEN link.name ELSE link.otherwise

\* Faulty: a section is referenced as often as links lead to it.
IsReferenced_Never(block) == FALSE

\* Faulty: what Use found counts as referenced.
IsReferenced_WhenUsed(block) == block \in used

IsReferenced(block) == block \in referenced

\* Context::Reference: a call on top of some activations.
Visit(block, callers) ==
    IF IsReferenced(block)
    THEN stack' = callers /\ UNCHANGED <<directory, used, referenced>>
    ELSE LET group == program[block].group
         IN  /\ used' = used \cup {block}
             /\ referenced' = referenced \cup {block}
             /\ directory' = IF group = NoName THEN directory
                             ELSE [directory EXCEPT
                                    ![group].block = block,
                                    ![group].offset = Wrap(@ + program[block].bytes)]
             /\ stack' = <<[block |-> block, link |-> 1]>> \o callers

\* Faulty: every block of the list is referenced.
IsReferable_Always(block) == TRUE

IsReferable(block) == block \in used

Refer ==
    /\ phase = "reference" /\ stack = <<>> /\ cursor <= Len(order)
    /\ IF IsReferable(order[cursor])
       THEN Visit(order[cursor], <<>>)
       ELSE UNCHANGED <<directory, used, referenced, stack>>
    /\ cursor' = cursor + 1
    /\ UNCHANGED <<program, phase, inner, order, replaced, errors, memory, values>>

\* Faulty: the activation stays at its link.
Advanced_Not == Head(stack)

\* The last activation, at its next link.
Advanced == [Head(stack) EXCEPT !.link = @ + 1]

\* Context::Resolve, for the next link of the last activation.
Resolve ==
    /\ stack # <<>>
    /\ LET top == Head(stack)
           links == program[top.block].links
           callers == <<Advanced>> \o Tail(stack)
           name == Target(links[top.link])
       IN  /\ top.link <= Len(links)
           /\ errors' = (errors \/ (name # NoName /\ name \notin DOMAIN directory))
           /\ IF name \in DOMAIN directory /\ ~directory[name].isGroup
              THEN Visit(directory[name].block, callers)
              ELSE stack' = callers /\ UNCHANGED <<directory, used, referenced>>
    /\ UNCHANGED <<program, control, order, replaced, memory, values>>

Return ==
    /\ stack # <<>>
    /\ Head(stack).link > Len(program[Head(stack).block].links)
    /\ stack' = Tail(stack)
    /\ UNCHANGED <<program, control, order, directory, flags, errors, memory, values>>

EndReference ==
    /\ phase = "reference" /\ stack = <<>> /\ cursor > Len(order)
    /\ phase' = IF errors THEN "failed" ELSE "arrange"
    /\ cursor' = 1
    /\ UNCHANGED <<program, inner, order, directory, flags, stack, errors, memory, values>>

-------------------------------------------------------------------------------
(* Every block used is arranged and then linked, in the order of the blocks. *)

Pass ==
    /\ phase \in {"arrange", "link"} /\ cursor <= Len(order)
    /\ order[cursor] \notin used
    /\ cursor' = cursor + 1
    /\ UNCHANGED <<program, phase, inner, order, directory, flags, stack, errors, memory, values>>

End(section, begin) == Wrap(begin + section.bytes)

\* Faulty: only the beginning of the previous code is looked at.
LeavesPadding_Begin(section) ==
    /\ Placement(section) < 5 /\ ~section.fixed
    /\ address[previousCode] % section.at # 0

\* Whether code that is executed after the previous one cannot follow directly.
LeavesPadding(section) ==
    /\ Placement(section) < 5 /\ ~section.fixed
    /\ End(program[previousCode], address[previousCode]) % section.at # 0

\* The errors of Context::Arrange; the first one stops the linker.
Refuses(section, begin) ==
    \/ section.fixed /\ begin # section.at
    \/ End(section, begin) < begin
    \/ /\ previousCode # NoBlock
       /\ program[previousCode].bytes = 0 \/ LeavesPadding(section)

\* Context::Arrange
Arrange ==
    /\ phase = "arrange" /\ cursor <= Len(order) /\ order[cursor] \in used
    /\ LET block == order[cursor]
           section == program[block]
           group == section.group
           image == ImageOf(section)
           result == Allocate(images[image], section,
                        IF group = NoName THEN section.bytes ELSE directory[group].offset)
       IN  /\ images' = [images EXCEPT ![image] = result.arrangement]
           /\ address' = [address EXCEPT ![block] = result.address]
           /\ IF Refuses(section, result.address)
              THEN phase' = "failed" /\ UNCHANGED <<cursor, directory, index, previousCode>>
              ELSE /\ previousCode' = IF IsCode(section.type) THEN block ELSE previousCode
                   /\ IF group = NoName THEN UNCHANGED <<directory, index>>
                      ELSE /\ index' = [index EXCEPT ![block] = directory[group].count]
                           /\ directory' = [directory EXCEPT
                                ![group].count = @ + 1,
                                ![group].block = IF address'[@] = 0 THEN block ELSE @]
                   /\ cursor' = cursor + 1
                   /\ UNCHANGED phase
    /\ UNCHANGED <<program, inner, order, flags, stack, errors, values>>

EndArrange ==
    /\ phase = "arrange" /\ cursor > Len(order)
    /\ phase' = "link" /\ cursor' = 1
    /\ UNCHANGED <<program, inner, order, directory, flags, stack, errors, memory, values>>

\* What the modes of a patch select from: Context::Patch.  The position of a
\* group reads its size as the offset.
Evaluated(entry) ==
    LET block == entry.block
        section == program[block]
        absolute == Wrap(address[block] + IF entry.isGroup THEN 0 ELSE entry.offset)
        size == IF entry.isGroup THEN entry.offset ELSE Wrap(section.bytes - entry.offset)
    IN  [abs |-> absolute, siz |-> size, ext |-> Wrap(absolute + size),
         pos |-> IF section.group = NoName THEN 0
                 ELSE Wrap(address[block] + entry.offset
                            - address[directory[section.group].block]),
         idx |-> index[block],
         cnt |-> IF entry.isGroup THEN entry.count ELSE 0]

\* A patch that is reset, because its link stands for no name.
ResetValues == [abs |-> 0, siz |-> 0, ext |-> 0, pos |-> 0, idx |-> 0, cnt |-> 0]

\* Context::Link copies the bytes of the block (inner = 0).
Copy ==
    /\ phase = "link" /\ inner = 0 /\ cursor <= Len(order) /\ order[cursor] \in used
    /\ LET block == order[cursor]
       IN  IF Designates(images[ImageOf(program[block])],
                         [address |-> address[block], bytes |-> program[block].bytes])
           THEN inner' = 1 /\ UNCHANGED phase
           ELSE phase' = "aborted" /\ UNCHANGED inner
    /\ UNCHANGED <<program, cursor, order, directory, flags, stack, errors, memory, values>>

\* Context::Patch: the assertion on the entry, or a group without sections,
\* abort the linker; a group without used ones is an error.
Patch ==
    /\ phase = "link" /\ cursor <= Len(order)
    /\ inner \in 1 .. Len(program[order[cursor]].links)
    /\ LET block == order[cursor]
           name == Target(program[block].links[inner])
           Evaluate(record) ==
                /\ values' = [values EXCEPT ![block] = Append(@, record)]
                /\ inner' = inner + 1
                /\ UNCHANGED phase
       IN  \/ /\ name = NoName
              /\ Evaluate(ResetValues)
           \/ /\ name # NoName
              /\ name \in DOMAIN directory => directory[name].block = NoBlock
              /\ phase' = "aborted" /\ UNCHANGED <<inner, values>>
           \/ /\ name \in DOMAIN directory /\ directory[name].block # NoBlock
              /\ IF directory[name].isGroup /\ directory[name].block \notin used
                 THEN phase' = "failed" /\ UNCHANGED <<inner, values>>
                 ELSE Evaluate(Evaluated(directory[name]))
    /\ UNCHANGED <<program, cursor, order, directory, flags, stack, errors, memory>>

EndLink ==
    /\ phase = "link"
    /\ \/ /\ cursor <= Len(order) /\ inner > Len(program[order[cursor]].links)
          /\ inner' = 0 /\ cursor' = cursor + 1
          /\ UNCHANGED phase
       \/ /\ cursor > Len(order)
          /\ phase' = "done"
          /\ UNCHANGED <<cursor, inner>>
    /\ UNCHANGED <<program, order, directory, flags, stack, errors, memory, values>>

Next ==
    \/ Create \/ Enter \/ Join \/ Start
    \/ Refer \/ Resolve \/ Return \/ EndReference
    \/ Pass \/ Arrange \/ EndArrange \/ Copy \/ Patch \/ EndLink

\* The linker is one thread that never waits.
Spec == Init /\ [][Next]_vars /\ WF_vars(Next)
-------------------------------------------------------------------------------
(* The members of the context have their types: an entry of the directory    *)
(* that is no group leads to a block, and nobody but blocks have flags.      *)
Entry == [isGroup : BOOLEAN, block : Blocks \cup {NoBlock}, offset : Value, count : Nat]

TypeOK ==
    /\ phase \in {"add", "reference", "arrange", "link", "done", "failed", "aborted"}
    /\ cursor \in 1 .. Len(program) + 1 /\ inner \in Nat
    /\ \A i \in 1 .. Len(order) : order[i] \in Blocks
    /\ \A name \in DOMAIN directory :
            /\ directory[name] \in Entry
            /\ directory[name].block = NoBlock => directory[name].isGroup
    /\ replaced \subseteq Blocks /\ used \subseteq Blocks /\ referenced \subseteq used
    /\ \A i \in 1 .. Len(stack) : stack[i].block \in referenced
    /\ errors \in BOOLEAN
    /\ address \in [Blocks -> Value] /\ index \in [Blocks -> 0 .. Len(program)]
    /\ previousCode \in used \cup {NoBlock}

(* A section that gave way to another one is never used again, under none of *)
(* its names: Use and Reference do not test whether a block was replaced.    *)
DiscardedIsGone == replaced \cap used = {}

(* A section only gives way to one of the same name or alias: a replaceable  *)
(* one to one that is not, any other to one that is equal and duplicable.    *)
GivesWay ==
    \A b \in replaced : \E c \in Blocks \ {b} :
        /\ NameSet(program[b]) \cap NameSet(program[c]) # {}
        /\ \/ program[b].replaceable /\ ~program[c].replaceable
           \/ program[b].duplicable /\ program[b] = program[c]

(* A name of a section that was not replaced leads to that section, unless   *)
(* a replaced section had aliases: then Replace also erases names of others. *)
LiveNamesResolve ==
    phase \notin {"add", "failed"} /\ (\A b \in replaced : program[b].aliases = <<>>) =>
        \A b \in Blocks \ replaced : \A i \in 1 .. Len(Names(program[b])) :
            LET name == Names(program[b])[i].name
            IN  /\ name \in DOMAIN directory
                /\ directory[name] = BlockEntry(b, Names(program[b])[i].offset)

(* Sections that no rule puts in another order keep the order in which they  *)
(* are given, so that initialising code can rely on code before it.          *)
InOccurrence ==
    \A i, j \in 1 .. Len(order) : i < j =>
        /\ ~Less(program[order[j]], program[order[i]])
        /\ Less(program[order[i]], program[order[j]]) \/ order[i] < order[j]

(* What a program is linked from: all that the entry point and the required  *)
(* sections need through links without conditions, nothing that no link      *)
(* leads to, and every block of it referenced, whatever the order of blocks. *)
Closed(set, targets(_)) == \A b \in set : targets(b) \subseteq set

PossibleTargets(block) ==
    LET links == program[block].links
        names == UNION {{links[i].name, links[i].otherwise} : i \in 1 .. Len(links)}
    IN  {directory[name].block : name \in
            {n \in names \cap DOMAIN directory : ~directory[n].isGroup}}

UsedExactly ==
    phase = "done" =>
        LET roots == Required \cup {directory[EntryPoint].block}
        IN  /\ roots \subseteq used /\ referenced = used
            /\ Closed(used, Touched)
            /\ \A set \in SUBSET Blocks :
                    roots \subseteq set /\ Closed(set, PossibleTargets) => used \subseteq set

(* No section is referenced while it is being referenced: sections that link *)
(* to each other neither recurse forever nor count twice in their groups.    *)
ActivationsDistinct ==
    \A i, j \in 1 .. Len(stack) : stack[i].block = stack[j].block => i = j

Members(group) == {b \in used : program[b].group = group}

\* How many bytes some blocks have altogether.
Bytes(blocks) ==
    LET sum[b \in 0 .. Len(program)] ==
            IF b = 0 THEN 0
            ELSE sum[b - 1] + IF b \in blocks THEN program[b].bytes ELSE 0
    IN  sum[Len(program)]

\* Whether an image holds no sections with origins, and ends that far below the
\* end of all addresses that no alignment wraps around.
Ample(image) ==
    \A b \in used : ImageOf(program[b]) = image =>
        ~program[b].fixed /\ images[image].extent + program[b].at <= Modulus

(* Once all is arranged, a group has the size and the number of its used     *)
(* members, which are numbered from zero in the order of their addresses,    *)
(* and share none, as long as their image is ample.                          *)
GroupTotals ==
    phase \in {"link", "done"} =>
        \A name \in DOMAIN directory : directory[name].isGroup =>
            LET members == Members(name)
            IN  /\ directory[name].offset = Wrap(Bytes(members))
                /\ directory[name].count = Cardinality(members)
                /\ {index[b] : b \in members} = 0 .. Cardinality(members) - 1
                /\ \A b, c \in members : index[b] < index[c] /\ Ample(ImageOf(program[b])) =>
                        address[b] + program[b].bytes <= address[c]

(* A link without conditions to a section evaluates to the address that the  *)
(* one used section of that name was given, aliases included.                *)
ResolvedToDefinition ==
    phase = "done" =>
        \A b \in used : \A i \in 1 .. Len(program[b].links) :
            LET link == program[b].links[i]
                Defines(d, j) ==
                    /\ Names(program[d])[j].name = link.name
                    /\ values[b][i].abs = Wrap(address[d] + Names(program[d])[j].offset)
                    /\ values[b][i].ext = Wrap(address[d] + program[d].bytes)
            IN  link.conditions = {} /\ link.name \in UNION {NameSet(program[d]) : d \in Blocks} =>
                    \E d \in used : \E j \in 1 .. Len(Names(program[d])) : Defines(d, j)

Executed(block) == block \in used /\ Placement(program[block]) \in 2 .. 4

(* Initialising code runs into the next one and at last into the entry point *)
(* without a gap, as long as the code image is ample.                        *)
ExecutesInOrder ==
    phase \in {"link", "done"} /\ Ample(CodeImage) =>
        \A i, j \in 1 .. Len(order) :
            /\ i < j /\ Executed(order[i]) /\ Executed(order[j])
            /\ \A k \in i + 1 .. j - 1 : ~Executed(order[k])
            => address[order[j]] = End(program[order[i]], address[order[i]])

(* The linker comes to an end, with cyclic links and groups, too.            *)
Termination == <>(phase \in {"done", "failed", "aborted"})

(* Equal duplicable sections are merged, and all names of the one discarded  *)
(* are redirected to the other one.                                          *)
AliasesRedirected ==
    phase = "reference" =>
        \A b \in replaced : \A c \in Blocks \ replaced :
            program[b] = program[c] => NameSet(program[b]) \subseteq DOMAIN directory

(* A position is relative to the beginning of the group.                     *)
PositionInGroup ==
    phase = "done" =>
        \A b \in used : \A i \in 1 .. Len(program[b].links) :
            LET link == program[b].links[i]
                entry == directory[link.name]
                group == program[entry.block].group
            IN  link.conditions = {} /\ ~entry.isGroup /\ group # NoName =>
                    \E first \in Members(group) :
                        /\ \A c \in Members(group) : address[first] <= address[c]
                        /\ values[b][i].pos
                            = address[entry.block] + entry.offset - address[first]

(* The assertion of Patch: a link that was resolved is still resolved when   *)
(* it is evaluated.                                                          *)
EntryExists ==
    phase = "link" /\ cursor <= Len(order) =>
        LET links == program[order[cursor]].links
        IN  inner \in 1 .. Len(links) =>
                Target(links[inner]) \in DOMAIN directory \cup {NoName}

-------------------------------------------------------------------------------
(* What Linking promises, with what a run of the linker has done so far.     *)

Status == [add |-> "reading", reference |-> "searching", arrange |-> "placing", link |-> "placing",
           done |-> "done", failed |-> "failed", aborted |-> "failed"][phase]

Arranged ==
    IF phase = "arrange" THEN used \cap {order[i] : i \in 1 .. cursor - 1}
    ELSE IF phase \in {"link", "done"} THEN used ELSE {}

Addresses == [b \in Arranged |-> address[b]]

Contract == INSTANCE Linking WITH
    status <- Status, discarded <- replaced, addresses <- Addresses

(* The linker links programs as its users expect: whatever it does while it  *)
(* reads, searches and places sections is a step of Linking, or none.        *)
LinksAsPromised == Contract!Spec
===============================================================================
