# A verification of the Eigen Compiler Suite

The Eigen Compiler Suite is a family of compilers, assemblers, interpreters and a linker. Its tools
are small drivers around classes of `tools/`; each driver reads its input files, calls one class and
stops at the first error or, where a *batch* is processed, after the last element of the batch with an
error. No tool has threads, persistent state or a network. What is hard about it is sequential:

* state that is computed in one pass and trusted in a later one (labels, sizes of instructions, flags of
  sections, registers), although the later pass decides some conditions anew;
* errors in the middle of an operation after which a batch goes on with what the operation left behind;
* arithmetic on unsigned addresses that wraps around, and zero standing for "not yet known";
* order: of sections, of the names they enter, of ranges of addresses.

All paths below are relative to `src/`; a path without directory is one of `src/tools/`.

## Inventory

| Component | State | Operations and interactions | What is hard | Correct means |
|---|---|---|---|---|
| Range set (`rangeset.hpp`) | ordered, disjoint ranges | `insert`, `operator []`; called by the linker's arrangement and the Oberon checker | joining with neighbours at the end of all values; only two neighbours are looked at | holds just what was inserted; answers exactly |
| Byte arrangement (`objlinker.cpp` 117-149) | layout, bytes, origin, placement | `Allocate`, `NextFit`, `Designate`; called by the linker, once per image | gaps between fixed sections, alignment, wrap-around, collisions reported by a wrong address only | sections disjoint, in order, placed as required |
| Object file linker (`objlinker.cpp`) | blocks, directory of names, flags, groups, images | `Add`, `Enter`, `Replace`, `Use`/`Touch`, `Reference`/`Resolve`, `Arrange`, `Link`/`Patch` | one section replacing another in the middle of entering its names; circular links; conditional links; a group's members | what is needed is linked once, every link leads to its definition |
| Section assembler (`asmchecker.cpp`, `asmassembler.cpp`) | labels, conditionals, offset, sizes, attributes of the section | three passes: label, parse, emit | conditions, sizes and attributes depend on labels that earlier passes did not know | branches as nested, code where parsing saw it, attributes as specified |
| Object files (`object.cpp`) | sections, aliases, links, patches | written by assemblers and generators, read by the linker | names of conditional links; patterns | what is written is read |
| Hex and map files (`objhexfile.cpp`, `objmap.cpp`) | none | an image is split into records | 64 KiB boundaries | the records describe the image |
| Assembly lexer, parser, printer | position in the text | yield the lines of a section | text only | print and parse agree |
| Instruction sets | none | encode and decode instructions | tables | decode inverts encode |
| Machine code generators (`asmgenerator.cpp` and others) | fixes, uses and mapping of registers, labels | `Process` and `Encode` turn intermediate code into instructions; `Acquire`, `Release`, `Fix`, `Unfix` | counts of uses and fixes released separately; registers saved across runtime functions; instructions that go on after an error, a section given up | no register holds two values, none is released while it is needed |
| Intermediate code (`code.cpp`, `cdchecker.cpp`, `cdoptimizer.cpp`) | a section of instructions | checked, optimised, translated | typing rules; removing instructions that branches skip | same meaning |
| Emitter (`cdemitter.cpp`) | counted uses and protections of registers, saved registers, labels | used by the front ends; simplifies, folds constants, allocates registers | rules of simplification that call each other, registers that are reused, operands that live across calls | every operand has its value |
| Code interpreter (`cdinterpreter.cpp`) | memory, registers, stack | one step per instruction | - | what emitted code means |
| FALSE tools (`fal*.cpp`) | stack, variables | interpreter, emitter and transpilers define one language | several definitions of it | they agree |
| Oberon and C++ front ends | scopes, types, syntax trees | parse, check, emit | size | typing rules |
| C++ preprocessor (`cpppreprocessor.cpp`) | macros with the flag `replacing`, tokens put back, conditionals of the current file, states of the files around it, one stream | `Include`, `RestorePreviousState`, the directives, `Evaluate...Expression`, `ReplaceCurrent`, `Expand` which call each other | one stream reopened for each file, operands evaluated although they do not matter, tokens that are replaced twice | lines by the structure of the files, tokens by the definition of the language |
| Debugging information, documentation tools | trees | convert formats | text | - |
| Drivers (`driver.cpp`, `error.hpp`) | counts of errors | run a tool over files | `Batch` goes on after an error | fails in the end |
| Runtime, libraries, utilities | outside | bindings, test runner | - | - |

The path of a program through them: a front end parses and checks its source and drives the *emitter*;
a *generator* or the *assembler* turns sections of intermediate or assembly code into *object files*;
the *linker* puts object files together and a *hex file* or an image is written.

## Modules

| Module | Models | Code |
|---|---|---|
| `Ranges` | the operators of `RangeSet` as pure definitions on sets of ranges | `rangeset.hpp` |
| `RangeSet` | an object of that class as its users drive it | `rangeset.hpp`, `objlinker.cpp:131-135` |
| `Arrangements` | `Allocate`, `NextFit` and the assertions of `Designate` on a record [layout, origin, placement, extent] | `objlinker.cpp:130-149` |
| `ByteArrangement` | one image while sections are arranged, with the addresses `Arrange` refuses | `objlinker.cpp:243-254` |
| `ObjectFiles` | sections, their names and links, and the order in which they are linked | `object.hpp:116-171`, `objlinker.cpp:297-317` |
| `Linking` | abstract: sections give way, are searched for, and get addresses | `objlinker.cpp:174-254` |
| `Linker` | a run of the linker, from the first section added to the last link patched; implements `Linking` | `objlinker.cpp:155-271` |
| `MCLinker` | families of programs for it | |
| `SectionAssembler` | three passes over the lines of one section | `asmchecker.cpp`, `asmassembler.cpp` |
| `MCSectionAssembler` | families of sections for it | |
| `HexFile` | the records of the hex file of such an image, and what they program | `objhexfile.cpp:28-52` |
| `CodeOperands` | types, operands, instructions, and the arithmetic of intermediate code | `code.cpp`, `cdinterpreter.cpp:320-457` |
| `Evaluation` | abstract: operands have values, operations combine them | |
| `CodeEmitter` | the emitter as a front end drives it; implements `Evaluation` | `cdemitter.cpp`, `cdinterpreter.cpp` |
| `CodeGenerator` | how a generator maps the registers of a section | `asmgenerator.cpp` |
| `Compilation` | the sections of `CodeEmitter` handed over to `CodeGenerator` | |
| `MCCompilation` | front ends and sections for it | |
| `FalseElements` | the elements of FALSE programs and what they expect | `false.hpp`, `falinterpreter.cpp` |
| `FalseInterpreter` | abstract: the interpreter of FALSE programs | `falinterpreter.cpp` |
| `FalseEmitter` | the code emitted for them, as it is executed; implements `FalseInterpreter` | `falemitter.cpp` |
| `MCFalse` | families of FALSE programs | |
| `MacroReplacement` | the calls that replace macros | `cpppreprocessor.cpp:145-293` |
| `Preprocessor` | directives, conditionals, included files; extends `MacroReplacement` | `cpppreprocessor.cpp:301-561` |
| `Conditions` | how conditions are evaluated, and what they mean | `cpppreprocessor.cpp:568-757` |
| `Replacement` | abstract: the tokens macros are replaced by | |
| `Inclusion` | abstract: the text included, by the structure of the files; properties of `Preprocessor` | |
| `MCPreprocessor` | families of source files | |
| `*_proofs` | theorems and their proofs | |

`Ranges` is used by `RangeSet` and `Arrangements`, `Arrangements` by `ByteArrangement` and, through `ObjectFiles`, by
`Linker`, which has one arrangement for each image; `HexFile` extends `ByteArrangement` with the file of its image.
`CodeOperands` is shared by `Evaluation`, `CodeEmitter`, `CodeGenerator` and, for the width of integers,
`FalseEmitter`. `Compilation` composes emitter and generator. In each of the modules a definition that is marked *faulty* is
what the definition after it would be with a plausible bug; nothing refers to it. It documents which
bug a property notices: putting it in the place of the correct one violates the property.

### Correspondence

**Ranges.** The `std::set` of ranges becomes a set of records. Its iterators become `After`
(`upper_bound`) and `Before` (its predecessor), both sets of at most one range. The loop of `insert` that
erases ranges becomes `Erased`. Values wrap around at `Modulus`, which is 2^64 for the linker.

**Arrangements.** The bytes of an image are reduced to their number, `extent`. `Rebase` is the change of
the origin that a section before all others causes. `Allocate` returns an address and the new state, in
the order of the code: a section that collides with another one is not entered at all, and an address is returned
that `Arrange` has to refuse; one whose end wraps around is not entered either.

**Linker.** A block is the index of its section; a name is a number in lexicographic order. `phase` and
`cursor` stand for the statements and loops of `Process`; `inner` is the name being entered or the link
being patched. `UpperBound` is the search for the place of a block. `Create`, `Enter` and `Join` are the steps of `Context::Add`: an error in one of them
(`AddError`) leaves the directory as it is and goes on with the next section of the batch. `Start` is the
search for the entry point with `Use` and `Touch`, which have no other effect than to mark a closure and
are one step. `Refer`, `Resolve` and `Return` are the recursion of `Reference`, whose call stack is the
variable `stack`. `Arrange`, `Copy` and `Patch` are the two last loops. A failed assertion and a
dereferenced null pointer are the phase `aborted`. The directory's union of a group's size and an alias'
offset is one field, as the code reads one for the other when it evaluates the position of a group.

**Linking.** The abstract specification has no directory, no list of blocks and no recursion. A section may be
discarded for a live substitute of the same name (`Discard`); `Select` takes the entry point, the required sections and
any live ones that links lead to from there; `Search` adds what a used section links to; `Place` gives an address of
its kind to a section that none of those left has to precede, and to one with an origin only if that is free in its image;
`Finish` demands that all that is used has a place and that every link without conditions leads to a used section or a
group. Until then the linker may `Fail`, which keeps nothing. The refinement maps phases to `Status`, the flag
`replaced` to `discarded`, and the addresses of the blocks that the loop of line 181 has passed to `addresses`.
Sections without an origin do not overlap either as long as addresses suffice; `ByteArrangement` is about that.

**SectionAssembler.** A line is a directive or an instruction with a label and an operand. `LabelLine` is
the loop of the first pass, `EndLabel` its end, `ProcessLine` a line of the second and third, `EndPass`
the assertions and the reset after each. `conditional` and `conditionals` are the state and the stack
of `Context`. An operand may be a number, a label with a displacement, or a number less a label, enough
for values that are zero, negative or clamped while labels are unknown. `Bytes` is the empty set where
the code emits an error. An instruction is represented by a jump that is short or long, as its operand
demands; the encoding itself is external. `attributes` are those of the section, whose origin and alignment share
a field as they share a `union` (`object.hpp:130`): a directive changes them if `Settings` has an element. An
operand may read them, as `.alignment` and the like do in an expression. `Raised` is `Assembler::Align` at the
end of a section. The constant `Inlined` is the flag of code that is assembled into a section of the code
generators: it begins at any offset (`Origin`) and may not set attributes.

**HexFile.** A byte is its offset in the image. The loop of the constructor is the recursive function in
`Records`, from the offset at which a record begins. `Programmed` is external: what a device does with the
records, by the definition of the format. The two bytes of an upper half hold it modulo `Banks`.

**CodeOperands.** A type is a model and a number of bits. Operands are records whose equality is that of the
code (`code.cpp:550-580`). `Compute` is the arithmetic of the interpreter (`cdinterpreter.cpp:341-457`),
which truncates each result to its type, and which the emitter uses for constants, too.

**CodeEmitter.** A slot stands for a `SmartOperand` variable of a front end: `Serve` is what happens to the
counters when a result comes into being and its operands are destroyed. The actions are the operations of a
front end. Each operator named like a function of `cdemitter.cpp` yields the operand it returns and the
instructions it emits, in the order of its rules. The front ends keep two rules themselves, which are guards
here: they hold a register by a single operand unless one protects it (`Exclusive`), and before a call they
announce all operands in registers by `SaveRegister`, in the order opposite to `RestoreRegister`, as
`savedRegisters` asserts (`cdemitter.cpp:316`). The emitted instructions are executed at once (`Execute`), as the
interpreter would. A register keeps the type of its value, so that reading it as another type is noticed.
`Evaluation` is what the front ends rely on, as operations on values only; the refinement maps each slot to
its `Meaning`: the value of the operand if it is executed now, found on the stack if it was saved.

**CodeGenerator.** A step is one instruction of a section: `FixRegister`, `UnfixRegister`, `Generate` (an
instruction the target supports) or `CallRuntime` (all others, `Encode` from line 400). The operations `Acquire`,
`Release`, `Fix`, `Unfix` are functions on a record of uses, fixes and mapping with the first failure, after which
nothing of the instruction is done any more (`After`). `Proceed` is `Batch` (`error.hpp:29-35`): the failure is added to the
`errors` of the section, and the next instruction is generated with the uses, fixes and mappings left behind, such as the
uses without a mapping after a shortage (183). The end of a section with errors is the handler (`GiveUp`,
121-125): it releases what is in use, and the next section follows (67). A register that was fixed but not in use
stays mapped; `leaked` keeps such registers for the properties. A failed assertion is a phase that nothing follows,
as it ends the program. Code is discarded with its section, so that the contents of registers are
followed up to the first error only (`Flawless`). How a target chooses a physical register is that of `arma64generator.cpp`. Beside
the allocation, `virtual` and `physical` hold where the contents of the registers were computed, in the
intermediate code and in the machine; `stale` collects the registers for which they differ when they are read.

**Compilation.** A section goes to the generator when the front end has finished it. Sections written by hand,
which a front end may never ask for, go there directly.

**FALSE.** In `FalseInterpreter`, the recursion of `Interpret` is the sequence `active` of functions; an exception
is the status `error`. In `FalseEmitter` the program counter is a function, an element, and a point in the code of
that element; `memory` is the stack with the saved words in its first part, which `Enter` reserves. Return
addresses and the functions of loops are saved there by decrementing the frame pointer. The refinement reads
the functions that are active off the saved words. What the interpreter rejects, compiled code does in some
undefined way, as it checks nothing: a status of its own, which maps to the error.

**Preprocessor.** A line is a directive or text. The stream that the preprocessor is given is `read`, the member
`file` is the other one; `streambuf` says which of them the lexer reads. A position of a stream is the number of lines
read from it. The lines are found by the name of the file that was opened last, as for the code, and not by the
state of the files around it. `conditional` and `conditionals` are set aside by `Include` and come back by
`RestorePreviousState`. An error (`Fail`) ends everything, as `Error` is thrown. Files do not change while they
are read. The tokens of a line that is included go through `MacroReplacement` (`BeginText`, `ReplaceText`,
`EndText`), with the macros defined so far. In `Inclusion`, lines are nested by counting (`Depth`), each is included
if the last head before it in every conditional around it is the only true one (`IsIncluded`), and files are included
by recursion on the path that leads to them.

**Conditions.** An expression is its tree, where a chain of `&&` or `||` is one node as it is one loop. `Conjunction`,
`Disjunction` and `Choice` pass the flag `validate` on as the code does. All operators that have nothing to do with it
are represented by negation, `<` and division. `Meaning` is a set with the value, or none where the language
leaves it undefined.

**MacroReplacement.** The recursion of `ReplaceCurrent`, `Replace`, `ReplaceFunctionLike` and `Expand` is the variable
`stack`; `tokens` and `available` are the members that `Expand` saves in locals. A token has a name for its symbol and
spelling. The operator `##` of a replacement list is the token `Concatenator`, as in the code. Where `Expand` would take
the last of no tokens, which is undefined, the phase is `aborted`. In `Replacement` each token has the set of
macros it results from, so that neither calls nor flags are needed.

## Runs

| Run | Shows | Bounds |
|---|---|---|
| `range_set` | the ranges are canonical and stand for what was inserted; `operator []` is exact | 8 values: all reachable sets of ranges, both ends included |
| `byte_arrangement` | sections disjoint, at their origin or alignment, in order; `Designate` in bounds; `NextFit` finds the first address | 4 sections, 32 addresses, 5 origins, one near the end, 2 alignments, sizes 0, 1, 3: gaps that are too small, just large enough and misaligned |
| `byte_arrangement_tight` | *violated*: the assertion of `Designate`, as an alignment wraps around to address zero | 16 addresses |
| `linker` | the properties of the linker, its termination, and that it implements `Linking` | five families of programs of three or four sections, below |
| `linker_aliases` | *violated*: aliases of equal duplicable sections are redirected | family `Directory` |
| `linker_position` | *violated*: positions are relative to the group | family `Groups` |
| `linker_entry` | *violated*: the assertion of `Patch` | family `Conditionals` |
| `section_assembler` | branches, assertions, labels, and attributes: those of a section are what its lines give it with all labels known, each by one line | four families of sections of up to nine lines |
| `section_assembler_labels` | *violated*: the value of a label is its offset | inlined code at offset 2 |
| `compilation` | the emitter implements `Evaluation`, counts its registers exactly, and emits sections that are accepted; registers are mapped while needed and apart, after errors, too, and hold what is read from them | 2 general registers, 2 physical ones, types of 1 and 2 bits, target without `SUB`, three front ends and four sections, below |
| `false` | the code emitted for FALSE programs implements the interpreter, and saves and removes in balance | integers of 6 bits, 8 saved and 10 other words, nine families of programs |
| `preprocessor` | the text included, its macros, files and lines, and the errors are those of `Inclusion`; files are resumed where they were left; nothing of the source is read within an expansion; an end is reached unless macros come back to one another | eleven families of files, below; 4 levels of `#include` for 256 |

The families of `MCLinker` each make one part of the linker interesting. `Directory`: two sections of the
same name with every combination of duplicable and replaceable, and an alias that is the name or alias of a
third one, in different orders. `Circles`: all links among three sections and the entry point, some required
and some initialising code. `Groups`: members of each type, size and alignment, some equal, some not.
`Conditionals`: chains of links that are decided by each other, one to a missing section. `Origins`: code and data with
origins that meet or not, one near the end of all addresses, and others behind them. Four sections are
enough for a replacement of a replacement, for circles of length three, and for a group between two others.

The families of `MCSectionAssembler` are all sequences of five lines of conditional directives (and of six
with bytes between them), which covers nesting to depth three and every malformed order; all sequences of
four lines that define and use labels; and two branches with labels in them, under conditions that depend
on the labels; and two branches that specify attributes and read them, under conditions that depend on labels or on
the attributes (`Specified`). `ShortReach` is small enough that the size of a jump changes between the passes.

The run `byte_arrangement` also checks `HexFile`, with an upper half that changes every 8 addresses and records
of 4 bytes: images begin in any bank and cross up to all of them, with records that end early at a boundary.

The front ends of `MCCompilation`: `Arithmetic` applies all operations to all values of 2 bits, known and
unknown, and all rules of simplification to their results, two operations deep. `Expressions` holds three operands,
protects some, and reuses the registers of others around a call. `Callers` nests two calls with operands saved by
both. Two bits suffice for the values the rules distinguish: zero, one, minus one, and the smallest, which is
its own negation. Three registers suffice for the emitter to run short of them, which ends a compilation, and for
a reuse that would clobber; the machine has two, so that the generator runs short of them, too. One section by hand has a
fixed register on two paths that join again, another one results of functions that are saved and popped. `SUB`, which is not
supported, occurs in the latter and in what is emitted, so that its runtime function is called while results and
saved registers are in use. `FaultySection` reads and unfixes registers that are not, fixes one twice, and leaves it
fixed and others in use, with correct instructions in between; `LeakingSection` fixes a register that it does not use
again, which stays mapped. The four follow one another in any order and number, so that every section also finds the
allocation that any other one has left. What is left mapped takes registers from the sections behind, up to a shortage within
a section, whose instructions go on, too.

`MCFalse` has all sequences of some length of operations on numbers, truth values, functions and variables, and
loops within loops, recursion, and loops whose parts leave too little or too much on the stack. It leaves out
what is known to differ (see *Divergences*): equal values are not compared by `>`, and `&`, `|` and `~` are
applied to truth values. What is compared by `=` has one type, with all pairs of equal and of different values of each
type. All states of these programs were checked for `Room` and `Exact`, the assumptions of the theorem about them.

`MCPreprocessor` has all sequences of four conditional directives, and of six with text between them; all conditions of
one or two operators over operands that are zero, one, undefined, defined macros, or division by zero; macros defined in
some branches; two headers that include each other or themselves, guarded or not; files of the same name in all
subsets of four directories; errors and ends in lines that are included or not. Within a conditional, four
directives reach every one of the five values of `conditional`, and two headers and a file all ways of reopening the
stream. For macros it has all chains of two macros and two predefined ones with replacement lists of up to two tokens, cycles
of macros that the text names or leads to, invocations of five signatures with all sequences of three tokens for arguments, invocations within
arguments and replacement lists, and macros that are defined and undefined between texts, in a header, or in branches.
The final states for those of these files whose replacement ends, more than 26 000, were compared with the output of the
preprocessor itself (built with 4 levels instead of 256): they agree, but for the spelling of a string within a string. The texts
of `Cycles` were run together with all others over two macros whose replacement lists have up to two tokens: just those that
`NeverEnds` applies to never end.

The deadlock check is off in all runs as all these programs stop.

### What is assumed

* *Fairness.* `Linker`, `Preprocessor`, `FalseInterpreter` and `FalseEmitter` have `WF_vars(Next)`: the linker, the
  preprocessor, the interpreter and the machine are one thread each that never waits, so that it takes a step as long as there is one. For FALSE
  this makes the refinement say that a compiled program ends whenever an interpreted one does. The other
  modules have no liveness property: they take each line, section or instruction once, in order, and a
  front end may stop asking.
* *Programs of the linker.* A group has another name than sections, aliases and `main`, and no condition
  names a group (`ReservesGroups`). Otherwise the code reads pointers that are null (see below), whose result is
  undefined. An unfixed section has an alignment, as `Assembler::Align` gives it one and the reader of object files
  does (`object.cpp:173`); the linker would divide by zero otherwise. `AttributesMatch` says so of the assembler.
* *Sections of the assembler.* Lines with conditional directives have no label, and `.equals` has a number.
  Code that is not inlined begins at offset zero. Origins are below the limit of `asmchecker.cpp:223`.
* *Near the end of addresses.* The properties of `ByteArrangement` but `PlacedAsRequired` are claimed until
  a request comes within its own size and alignment of the last address (`tight`); the run
  `byte_arrangement_tight` shows why.
* *Front ends* of the emitter neither divide by a zero they know nor subtract from a null pointer, and apply to
  pointers only what the interpreter has for them. A value is not taken modulo itself (`RepeatedModulo`), see below.
* *Sections of the generator* branch forwards, and their branches skip no `FIX`.
* *FALSE programs* do not overflow, divide by zero, or nest deeper than the words reserved (`Room` and `Exact`). Variables are
  letters, and functions in a program are functions of the program (`ProgramsAssumption`), as the parser makes them. The
  characters read are in the range of integers (`InputsAssumption`), and words are as wide as integers.
* *Front ends and slots* in the theorems about `Compilation`: slots are finitely many numbers, and a front end uses those slots
  and asks for operations there are (`CompilationAssumption`).
* *Macros* are such that two of the divergences below do not matter: operands on the left
  of `##` name no macros, and the name of a function-like macro is followed by `(` or by what is not a macro, or
  ends the file. Invocations end in the line they begin in. The third one, that a macro may be replaced for ever, is part of
  the model: `MaxLength` bounds tokens and calls, and where it would be exceeded nothing is replaced any more (`IsTooLong`).
  Only texts that are replaced for ever come to this, and `Termination` exempts these: `NeverEnds` says which they
  are, by what the macros name and not by what the preprocessor does. Without the exemption TLC finds
  `Termination` violated by such a text, and with it every other one of the run comes to an end. In the family `Cycles`
  it is exact: no text it applies to is ever finished.
* *Conditions* of the run have the operands zero and one, and a file that is included has no `#pragma end` in a line
  that is included, for the same reason.
* *Alignments* of the assembler are at most 64 (`PowersOfTwo`), its offsets do not reach 2^64.

## Proofs

The theorems hold for every value of the constants, so for 2^64 addresses and any number of sections.

**`Arrangements_proofs`** has the lemmas on the operators that sets of ranges, images and the linker share.
`OverlapsMeets`: looking at two neighbours is enough in a canonical set. `InsertAdds`: `insert` keeps a set canonical and
adds just the values of the range. They rest on `BeforeExists` and `AfterExists`, that a bounded set of values has a last
and a first one. `WrapSum`: a sum that
wraps around at each addition is the wrapped sum. `AlignLeast`: `Align` yields the least multiple. `NextFitFits`:
`NextFit`, which only looks at the next range, returns an address followed by enough free bytes; `NextFitLeast`: it
skips none, by `SkipLeast`, that an address before the end of the range it moves behind would collide. `RebaseProper`,
`OccupyKeeps` and `AllocateKeeps` are the changes of the state.

**`RangeSet_proofs`**: `Correctness` proves the inductive invariant `Inv == TypeOK /\ Canonical /\
Represents`. Each part needs the others: without canonical ranges `operator []` would miss an overlap, and
`insert` would then lose values. `Canonicity`, `Representation`, `Exactness` and `Typing` follow.

**`ByteArrangement_proofs`**: `Invariance` proves `IInv`, from which `Disjointness`, `Placement`, `Order`,
`Containment`, `Typing` and `FirstFit` follow. The properties are not inductive by themselves: what makes sections
disjoint is that the layout of the image is canonical and covers every byte of every section, what keeps
them in order is that the placement is beyond every section without origin, and what keeps `Designate` in
bounds is that every range of the layout is within the bytes from the origin.
`Programming` is about the hex file of an image. `Records` is recursive, and its inductive invariant is one on its results:
`Covers`, that records send the bytes from an offset on, each once and to its address, given the upper half of the address
that was set before them. `CoversData`, `CoversUpper` and `CoversEnd` say what a record in front keeps of it, `AfterCovers`
that this holds of all offsets, downwards from the end. It takes that records end at the end of a bank, which keeps the
upper half right for each byte of a record. The format has 2^32 addresses (`Bank * Banks`), the linker 2^64, and the code does not
compare them: an image beyond is written with the addresses cut off, and the property exempts it.

**`Linker_proofs`** proves ten of the properties of the linker, for any sections that `ReservesGroups` allows, any
images and widths of addresses. `Invariance` establishes `IInv`, a conjunction of nine parts, each with a
lemma that all steps keep it:

* `ControlInv`: the phase, and the cursors within its loops;
* `OrderInv`: `order` is a permutation of the blocks created, sorted by `Less` and otherwise by occurrence. `LessOrder`
  shows that `Less` is a strict weak order, without which `upper_bound` would not keep it; from it follows `Occurrence`;
* `DirectoryInv`: an entry is a name of the block it leads to or a group's, and no entry leads to a replaced block;
* `NamesInv`: the names of a block that was not replaced lead to it; `Resolution` follows;
* `FlagsInv`: replaced blocks gave way to a substitute and are not used (`GivingWay`, `Discarding`), and only used ones
  are referenced. `ReachedIsLive`: the closure of `Use` never reaches a replaced block, as it goes by the directory;
* `StackInv`: the blocks on the stack are referenced and distinct (`Recursion`), as a block gets the flag when it is pushed;
* `MemoryInv`: the types of arrangements and addresses, by `AllocateKeeps`;
* `UseInv`: the used blocks lie in any set that is closed under links, and a block that is referenced and not on the
  stack has all its targets used (`Usage`). The last is why the depth-first search must not miss a link of an activation
  that another one interrupts;
* `ValueInv`: the values of the links patched so far are those of their entries. `Definition` follows with `NamesInv`.

`EnterCases` splits the step of entering a name into the changes of the directory it can make (`Extends`, `Withdraws`,
`Displaces`), on which the lemmas for the directory, names and flags rest. The phases up to the search change none of
what the others rely on (`Framed`, `Phases`), so that a lemma only looks at the actions that can disturb its part.

`Execution` and `Grouping` are about where sections without origins end up, and rest on a second invariant, `LayoutInv`, on
top of `IInv`:

* `PlaceInv`: an image that is ample is compact, that is, its layout and its placement end where its bytes end. `NextFit`
  then has no other place for a section than the end (`NextFitCompact`), which `ArrangeFollows` turns into one of `Arrange`;
  so what is arranged later in an image lies behind what was arranged there earlier. Images only grow (`ArrangeGrows`), so
  that one that is ample at the end always was;
* `ExecInv`: each executed block ends where the executed one before it ends its image. Blocks of code without groups
  are neighbours in the list (`ExecutedBetween`), as `Less` puts them there;
* `AlikeInv`: the members of a group have been found alike by `Join`, and so belong to one image (`AlikeImages`);
* `SizeInv`: the size of a group is the sum of the bytes of its members that are referenced, in any state of the recursion.
  The sum is a function over the blocks, so that one of them more adds its bytes (`BytesAdded`) is an argument about
  the least block at which two such sums differ otherwise;
* `IndexInv`: the members arranged so far are numbered from zero to the count of their group, in the order of the list.

`Ample` is what a property of addresses has to assume. Near the end of all addresses an alignment wraps around to zero, and
the section is placed in a gap that an earlier one left in front of it: with 16 addresses, sections of one byte, of six bytes
aligned to 8, and of one byte aligned to 4 are placed at 0, 8 and 4, so that an initializing section precedes the one it should
follow, without an error. Sections with origins leave gaps that later sections of a group fill as well. `Ample` demands room for
one more alignment behind the image, no more.

The last part of it proves that `Linker` implements `Linking` (`Implementation`), from `Invariance`: the initial states map
to initial states, and a step of the linker to one of `Linking` or to a stutter, with one lemma for each phase (`Reads`,
`Searches`, `Arranges`, `Finishes`). `Discards` goes by the cases of `EnterCases`; `Selects` by what the closure of `Use`
is the least set of, as whatever it touches is linked; `Places` by the order of the list, since all blocks behind the
cursor do not precede the one at it (`Listed`); `Completes` by `UseInv` and `ValueInv` at the end of the run. That an origin
is free needs one more invariant, `OriginInv`: the layout of an image has all bytes of the sections with an origin placed
in it (`AllocatesOrigin`), and loses none (`AllocatesMore`). It needs no assumption on addresses that suffice, unlike
`Disjointness` of images.

**`SectionAssembler_proofs`**: `Typing`; `AttributesFinal`; `Assertions`, that the assertions on the conditionals at the end of
a pass cannot fail; and `Places`, that code is emitted where it was parsed and labels have the offsets of
their lines. `Assertions` rests on `AssertInv`: the stack of conditionals is as high as the number of
`#if` directives still open (`Balanced`), and its first element is `including` (`Rooted`). That number depends
on the lines and not on the values of conditions, so that a pass closes what the first pass closed. `Places`
rests on `PlaceInv`: in the third pass the offset is the place recorded for the line and all later places
follow from it by the recorded sizes (`Recorded`), as a line of another size is an error. `AttributesFinal` rests on
`AttributeInv`: a directive that the last pass accepts finds the attribute it sets (`Attributed`), and no later line
changes it (`SettingsStay`), although parsing may have taken other labels or another branch.
`Matching` and `Branching` rest on what the stack of conditionals stands for: there is one conditional for each `#if` that
encloses the line and not its `#endif`, which knows whether `#else` was seen (`Nested`) and whether the line is in the first
branch with a true condition of this and of all outer directives (`Chooses`). Both are statements on the lines alone, which
`EnclosesNext`, `HeadsNext` and `EnclosesOnce` relate for a line and the next one, and one lemma for each kind of directive
keeps them. What the first pass found (`Matched`) then holds of all lines for good. `Uniqueness` and `SpecifiedJustOnce` follow
as each pass has the same lines (`PassChosen`): the labels of the first pass are those of the last (`LabelInv`), and what
parsing finds in the attributes is what the lines before have specified (`GivenOnly`, `GivenAll`).

**`Compilation_proofs`**, about generator and emitter: `RegistersMappedWhileNeeded` and `RegistersMappedApart`, for any number of registers
and any sections, supported or not, whatever errors they contain. The invariant `Inv` has these parts: the mapping is injective
(`Apart`); what is mapped is in use, fixed, or left over from a section that was given up (`NoneIdle`); and what
is in use or fixed is mapped, unless there was a shortage in the section (`NoneMissing`). Each operation on a state
has a lemma that it keeps a sound state sound (`MapState`, `AcquireForSound` and so on), also if it fails halfway, as the
next instruction begins with what it left. Two operations break it
for a moment, `AcquireFor`, which counts before it maps, and the result of a runtime function, which is mapped
while its register has no uses; their lemmas state what holds instead, that the next operation restores it, and that
only a shortage can come between. `GiveUpSound` is about the end of a section with errors: what is in use is
unmapped, and what was only fixed is left over. The theorems need no assumption on the number of uses that
`Acquire` counts ahead. `Typing` does:
a use that is counted down was counted up, so that `UsesFrom` has to be a natural number. It counts by recursion over the
rest of the section, together with the fixes on the way (`IsAhead`); such counts exist (`AheadExists`) and are natural numbers
(`AheadCounts`), the least instruction for which they are not being one with a successor.

`Counting` is about the emitter: the counters of each register are the numbers of operands that refer to it, protected or not,
for any front end, number of slots and width of integers. The invariant is `Counted`, which adds to the equality of counters
(`Counts`) that operands refer to registers there are, that only slots with an operand are protected, and that what calls have
saved are slots, which `EndCall` takes up again. `ReferringFinite` and the lemmas around it say how a set of
referring slots changes with one slot more, one fewer, or one with another operand. An operation of a front end changes many
slots at once: it uses up those of its operands and fills a vacant one, which may be among those. `ServeCounted` proves this
once for any result of the right type, and one lemma for each operation says that its results have it (`CombineTyped`,
`MakeRegisterTyped` and so on), whatever is folded, reused or moved. `Add` and `Subtract` of the code call
each other (`cdemitter.cpp:152`, 173), each at most once: a subtrahend that was negated is not negated again, which `Difference`
has without recursion.
`Composition` lifts the theorems about the mapping to `CompilationSpec`: whatever the emitter hands over is a
sequence of instructions, and the generator needs no more.

`NothingStale` and `SectionsAccepted` are `NeverStale` and `SectionAccepted`, which do not hold of every section: a register that only one
of two paths modifies is wrong on the other one, and a use without a modification is an error. The code does not state what it
expects of a section. `IsRegular` and `IsProper` of `CodeGenerator` do: the first is a hypothesis of both theorems, the second one a
part of what `SectionAccepted` says.

* *regular* is what keeps counting down in step with counting ahead. A register modified in code that a branch skips has
  been fixed before the branch, or is not needed later (`SkipsRight`). What calls the runtime library leaves no register fixed,
  as one without uses is not saved; reaches its target without a register, which may be clobbered by then; and, if it
  reads and modifies the result register, follows something that modified it (`RuntimeRight`). A call neither goes by way of the
  result register nor pops a negative number of words, and fixing a register mentions no other one;
* *proper* is that registers other than the result register are modified before they are read, that a register is fixed
  and unfixed in turns and not fixed in the end, and that branches are supported.

`MCCompilation` assumes (`SectionsRegular`) that all of its sections by hand are regular and two of them proper, so that TLC
evaluates both: sections with branches, fixed registers, calls and unsupported instructions satisfy them. The invariant is
`StaleInv`, which says of each position as long as nothing is left behind by errors (`Synced`): the uses left of a register are
those that `Acquire` would count from there, and it is fixed
if and only if the section says so (`Tracked`); a physical register holds what the register mapped to it does in the intermediate
code, and the stacks agree (`Held`); and what is skipped lies between a branch and its target (`Targeted`). There is a lemma for
each kind of instruction, and one for each part of a call of the runtime library, which saves registers, pushes operands, moves
the result, and restores registers in the opposite order. `SectionAccepted` is inductive together with it: a step that does not
fail, or fails for a shortage, keeps it (`ProceedAccepted`). After an error, or in a section that is not proper, nothing is
claimed up to the end of the section (`FlawedStale`, `FlawedAccepted`), and the next one begins with nothing in use, fixed or
mapped (`ProcessStale`), unless a register is left over. Such a one may run into the assertion of
`arma64generator.cpp:311`, see *Divergences*.

`Compiled` is both of them for `CompilationSpec`: any front end, any number of slots, any width. Its hypothesis about sections
is that those written by hand are regular, since the emitter is shown to emit regular and proper ones; the latter is
`HandedOver`, without which `SectionAccepted` would say nothing of them. `EmittedInv` says that what was emitted
so far is `WellFormed`: plain instructions, which read what earlier ones have modified, and blocks, which fix a register,
branch, move, and unfix it again; and that the registers of all operands are among those modified. `WellFormedJoined` appends to such
a sequence, `WellFormedRegular` takes one to be regular and proper, `CombineComputes` and `MinimizeComputes` are about whatever is
simplified on the way, and each kind of operation of a front end has a lemma (`ServeEmitted`, `BeginCallEmitted`, `RestoreEmitted`,
`EndCallEmitted`). The invariant is the conjunction of `TypedSection`, `Inv`, `StaleInv`, `SectionAccepted`, `Counted`, `EmittedInv`, and `HandedOver`.

`OnlyArithmetic` is the hypothesis of `Compiled` about the target: conversions and arithmetic are left to the runtime library at
most. The generators support moves of integers and operations on the stack; branches they do not support for
floats (`avr32generator.cpp:283`, `m68kgenerator.cpp:303`), which are not modelled, and for integers of 8 bytes on 32-bit PowerPC
(`ppcgenerator.cpp:290`). `Minimize`, the one operation modelled that branches, is only asked for with pointers (`obemitter.cpp:1397`). Without
the hypothesis the claim is false, see *Divergences*.

**`FalseEmitter_proofs`**: `Balance`, for all programs. The addresses of functions to return to and the functions of loops share
one area of words, and what is popped from it has no mark of its own. `IsBalanced` says, of the words from any frame on, that a
return address into a loop has the two functions of the loop behind it, that all other words are return addresses, and that the
outermost is one of the main function, so that a function that returns finds one. Saving and removing either has a lemma
(`ReturnSaved`, `ReturnTaken`, `LoopSaved`, `LoopTaken`), and pushing and popping leave the area alone (`ReplaceKeeps`). The theorem
assumes `[]Room`: the stack does not grow beyond memory, nor what is saved beyond the words reserved, which the code does not see
to. A function that returns the top of an empty stack takes one word more than there is; `IsAbove` bounds by how much.

`Implementation` is the safety part of `Interprets`, for all programs, memories and widths: under `[]Room` and `[]Exact` the
code that is emitted starts as the interpreter does, and each of its steps is a step of the interpreter or none. `Exact`
excludes what is listed under *Divergences* and no more: integers stay in the range of words, `&`, `|` and `~` have truth
values, `>` compares values that differ, `=` compares values of one type that were assigned, nothing is divided by zero, and
nothing above the top of the stack is selected. What the interpreter rejects is not excluded: `FailsSame` shows that an
element fails on the stack of words if and only if it does on the values. The argument:

* `Typed` adds to the invariant of `Balance` that words on the stack, in variables and saved by loops are words of the program
  (integers within `Size`, its letters, its functions but the main one), and that only the outermost return address
  leads to the main function (`SavedTyped`);
* the values of the interpreter are the words from the bottom up (`Up`); what `Replace` does to the words it does to the values
  (`UpReplaced`), and elements that neither call nor branch follow by `ElementSame`, with a lemma for each (`LiteralSame`,
  `ComparisonSame`, ...);
* the functions that are active are read off the saved words, level by level (`Outer`, `Levels`): a return address is one level, and
  words of loops belong to the level of the address above them. `OuterMore` adds a level, `IsActive` relates all of them to
  the sequence of the interpreter. A call is a step of the interpreter when it pushes the return address; saving it in the
  function and pushing the result are stutters (`PrologueSame`, `PushSame`);
* truncation is the identity on what is in range (`TruncatedInRange`), and the operations on bits are the logical ones on truth values
  (`TruthSums`). The provers know nothing of exponentiation, so that `PowersAssumption` has what is needed of powers of two.

**`Preprocessor_proofs`**, for any files, search paths, macros, and values of conditions:

* `BehindInclude` rests on `FilesInvariant`. What says where a file was left is only a name and a position of the one stream
  that reads all files, so that the invariant has to know what the lexer reads (`StreamsKept`: the file that was opened last,
  the stream that was given only while no file is included) and what was saved (`StatesKept`);
* `SourceKeptByExpansions` and `MarkedWhileReplaced` rest on `CallsInvariant`: calls of `Expand` and of what calls it
  alternate (`WellFormed`), the lexer is available to the outermost one only, and the macros with the flag are those of the
  calls of `Replace` under way, each once (`Distinct`). The second theorem is the assertion that a macro is not replaced
  while it is replaced (`cpppreprocessor.cpp:222`), for any nesting of macros within operands of macros.

Only model-checked are:

* `Termination` of `Linker` and of `Preprocessor`, and the fairness in `Interprets` of `FalseEmitter`, which are liveness;
* `Evaluates` of `CodeEmitter`: that simplified code computes what the operands mean is an argument by induction over the
  instructions of a section, and over integers for each identity of arithmetic on bits;
* what `Preprocessor` yields (`Preprocessed`), which is recursive over files and replacement lists.

Recursive functions (`NextFit`, `Records`, `UsesFrom`, `Outer`) are reasoned about by the least number for which a claim fails.

## Divergences

The first five are shown by runs.

1. *Addresses that wrap around.* Near the end of all addresses the alignment in `NextFit` wraps around to address zero
   (`objlinker.cpp:141`). If the image begins at an origin, what lies before counts as taken (132), so that the section
   collides there and is not entered, which `Allocate` reports by an address: `!binary.origin` (134), which is zero as the
   member is the alignment. `Arrange` refuses only a fixed section with another address than its origin (247) and one whose own
   end wraps around (248). The section is taken for placed at address zero, before the origin of the image, and the
   assertion `offset >= origin` of `Designate` (147) fails when its bytes are copied: with 16 addresses, after a section of
   one byte at origin 12, this happens to another one of one byte that is aligned to 4.
2. *Aliases of duplicable sections.* When a section gives way to its equal, `Replace` erases all its names
   but one from the directory, although its aliases lead to the section that is kept (213-214). Links to
   such an alias are unresolved.
3. *Positions in groups.* `Arrange` sets the beginning of a group if its block has address zero (252), which it
   also has after it was arranged at address zero. `pos` is then relative to the second member.
4. *Conditional links.* `Resolve` and `Patch` both decide what a conditional link stands for, and what is used
   changes in between. A link that was resolved to one name may be patched with another one, which fails the
   assertion of `Patch` (266) if it is undefined.
5. *Labels of excluded lines.* `Process` sets the label of every line (`asmchecker.cpp:79-80`), included or not,
   so that a label defined in two branches has the offset of the last one. A constant of the same name is
   overwritten, too.

Others were found by reading and have no run of their own. Those of the preprocessor were confirmed by running it.

* for an instruction that the target does not support, `Encode` moves the result to its target after the call and before
  it restores registers (`asmgenerator.cpp:419`). If the target is memory and this is the last use of its address register, that register was not saved, and the result is stored
  at whatever address the function left there. Oberon's `INC` of a 64-bit variable by way of a pointer is emitted
  like this (`obemitter.cpp:1406`), and the functions are compiled code that clobbers registers
  (`runtime/runtime.cpp:564`);
* `ProcessPragma` ends a file by the token for the end of a file, and no directive that would return to the file around it
  follows (`cpppreprocessor.cpp:552`): with `#pragma end` in a header, what is behind the `#include` is lost, too
  (`documentation/cpp.tex:407` has it that the remaining part of the source file is ignored);
* `validate &= value` keeps the last bit of an integer (`cpppreprocessor.cpp:727`): `#if 2 && 1` is false, and in
  `#if 2 && 0 / 0` the division is not noticed (`tests/extcppcheck.tst:1218` has it as an error for the operand true);
* what `Replace` puts back is looked at again by an `Expand` around it, when the flag of the macro is cleared already
  (`cpppreprocessor.cpp:223-224`, 236): with `#define A x A` and `#define B A`, `B` is replaced for ever. The run `preprocessor`
  has such texts, which `Termination` exempts (`IsCaught`);
* `ReplaceFunctionLike` tests the parameter instead of the token behind it (281), so that an argument on the left of `##` is
  expanded; if that leaves no token, `Expand` reads and writes the last one of none (232);
* the token behind the name of a function-like macro is put back, and tokens that were put back are not replaced (148,
  259): with `#define f(p) p` and `#define B b`, the source `f B` stays as it is;
* a function-like macro that ends a replacement list takes no arguments from the tokens behind the macro, as `Expand` never
  reads the source (230);
* members of a group are not adjacent if fixed sections lie between them (`documentation/object.tex:166`);
  neither is initialising code;
* a link to a group all of whose members were replaced (`objlinker.cpp:268`), or a condition that names a group
  (170), dereferences a null pointer;
* the alias of a replaceable section that is also a name of another one erases that name (214);
* a section keeps an attribute that only a branch specifies which parsing included and the last pass excludes, as
  nothing resets the flags (`asmchecker.cpp:126`); and an attribute may be specified twice (`documentation/assembly.tex:783`
  has it that it may not) if only the last pass includes both lines, as parsing alone looks for it (125, 213);
* labels that conditions depend on may be duplicated unnoticed, as duplicates are only looked for in the
  first pass;
* `Modulo` of two equal operands yields the operand instead of zero (`cdemitter.cpp:222`); with the constant
  `RepeatedModulo` the run `compilation` shows it;
* `IsMinusOne` of a floating-point value compares with one (`code.cpp:491`), and `Subtract` from a null pointer emits
  a negation of a pointer, which no type checker accepts (`cdemitter.cpp:169`);
* the interpreter of intermediate code cannot divide pointers (`cdinterpreter.cpp:380`), which the Oberon emitter
  asks for (`obemitter.cpp:1270`);
* an error while a register is fixed but not in use leaves it mapped (`asmgenerator.cpp:124`), and the assertion of
  `arma64generator.cpp:311` fails in a later section that uses it. A shortage of registers sets the uses before there is a
  mapping (`asmgenerator.cpp:183`); in every state of the run the assertion of `arma64generator.cpp:316` fails afterwards, when an
  instruction behind counts these uses down to zero (222), or in the handler of the error (124), so that the error is
  reported, but the program does not end properly;
* a register that is fixed but has no uses left is not saved around a call of the runtime library (`asmgenerator.cpp:402`), so that a
  branch that is not supported loses it if it is taken: `Minimize` fixes its result over a branch (`cdemitter.cpp:621`). With `BRLT` added to
  `Unsupported`, and without the assumptions of `MCCompilation` that exclude this, TLC finds `NeverStale` violated by the first
  section written by hand. Floats would be compared like this
  (`runtime/runtime.cpp:1724`), but `Minimize` is only asked for with pointers now;
* `Acquire` counts the uses of a register up to an instruction that modifies it, and only looks at the operands read by arithmetic
  (`asmgenerator.cpp:203`): a `CALL` by way of the result register reads it as well, and is not counted; and an
  instruction that is not supported, reads and modifies the result register, and is the first to use it, counts one use too many;
* a branch that is not supported aborts if the result register is used later on (`asmgenerator.cpp:420`); saving
  registers for a runtime function is not accounted for in operands relative to the stack pointer (402, 407);
* in compiled FALSE programs `>` means at least (`falemitter.cpp:117`), `&`, `|` and `~` work on bits, `=` compares words whatever
  their type, so that a variable never assigned may equal a number or itself, which it does not for the interpreter
  (`falinterpreter.cpp:193`), `.` writes nothing, strings end with a line break, and nesting deeper than 32 saved words overwrites the stack (72); in the interpreter
  duplicating the top of an empty stack is undefined (`falinterpreter.cpp:131`);
* a hex file truncates addresses of more than 32 bits (`objhexfile.cpp:37`).

## Not modelled

*Of the linker*: `Combine` (108-113), the map of a `MappedByteArrangement` (151-154), patterns and scales; of
the values that links evaluate to, `rel` follows from `abs`. *Of the assembler*: strings and addresses
as operands, links, `.embed`, `.assert`, `.trace` and bit modes; names of groups that are definitions. *Of the emitter*: hints, `Set`, addresses of sections,
floating-point values, stores to memory, and labels except those of `Minimize`; a shortage of registers is fatal to
the front ends (`obemitter.cpp:984`, `cppemitter.cpp:379`) and ends the behaviour. *Of the generators*: branches
backwards, directives, debugging information, and the selection of instructions with the scratch registers it takes (`GetFree`), whose shortage
is one more error within an instruction. *Of FALSE*: strings, `.`, flushing,
references to other programs, assembly code, and targets that keep the return address in a register. *Of hex files*:
checksums and text. *Of the preprocessor*: white space, the operator `_Pragma`, `__has_attribute`, header names made of
macros, `#line` with a file name, what `#error` and `#warning` write, and directives within invocations.

The components marked `not_modelled` in `PROJECT.json` are left out as formatting and parsing (text in, text out),
tables (instruction sets), typing rules and translation schemes over large syntax trees (front ends), conversions
(debugging information, documentation), or bindings to what is outside (runtime, libraries, utilities). These are most
of the lines of the suite: a small instance of a syntax tree exercises few of their cases, and each case is a rule of
its own that a model could only repeat. What they have in common and what is hard about them, the operands, registers,
labels and sections they work with, is in the modules above.

## Plan

Done are the arrangement of addresses, the linker, the assembler of a section, hex files, the emitter with the
generator behind it, FALSE, and the preprocessor. What would come next:

1. Stores to memory and labels in `CodeEmitter`, and branches backwards in `CodeGenerator`.
2. The theorems about sections with labels and branches backwards, where paths meet that are not ordered by position: what is
   modified before an instruction then depends on the path to it.
