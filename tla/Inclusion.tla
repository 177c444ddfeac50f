------------------------------- MODULE Inclusion -------------------------------
(*****************************************************************************)
(* What the preprocessor should include: a definition by the structure of    *)
(* the files, with neither a stack of conditionals nor streams, and the      *)
(* properties of the preprocessor.                                           *)
(*****************************************************************************)
EXTENDS Preprocessor, Replacement, Conditions, FiniteSets, Functions

Opening == {"if", "ifdef", "ifndef"}

-----------------------------------------------------------------------------
(* The structure of the lines of a file.                                     *)

\* The number of conditionals open before a line.
Depth(lines, i) ==
    Cardinality({j \in 1 .. i - 1 : lines[j].directive \in Opening})
        - Cardinality({j \in 1 .. i - 1 : lines[j].directive = "endif"})

\* The line i belongs to the conditional that the line k opens.
Encloses(lines, k, i) ==
    /\ k < i
    /\ lines[k].directive \in Opening
    /\ \A j \in k + 1 .. i : Depth(lines, j) > Depth(lines, k)

\* The lines before i that begin a group of that conditional.
Heads(lines, k, i) ==
    {k} \cup {j \in k + 1 .. i - 1 : /\ lines[j].directive \in {"elif", "else"}
                                     /\ Encloses(lines, k, j)
                                     /\ Depth(lines, j) = Depth(lines, k) + 1}

\* No head before is true, and the last of them is if that is asked for.
TakesPart(lines, k, i, true, last) ==
    LET heads == Heads(lines, k, i)
    IN  heads \cap true = IF last THEN {h \in heads : \A j \in heads : j <= h} ELSE {}

Around(lines, i) == {k \in 1 .. i - 1 : Encloses(lines, k, i)}

\* The line takes part, given the heads that were found to be true.
IsIncluded(lines, i, true) == \A k \in Around(lines, i) : TakesPart(lines, k, i, true, TRUE)

\* The condition of the line matters: its conditional takes part, but none of
\* the groups before it.
IsAsked(lines, i, true) ==
    LET inner == {k \in Around(lines, i) : Depth(lines, k) + 1 = Depth(lines, i)}
    IN  IF lines[i].directive \in Opening THEN IsIncluded(lines, i, true)
        ELSE /\ \A k \in inner : TakesPart(lines, k, i, true, FALSE)
             /\ \A k \in Around(lines, i) \ inner : TakesPart(lines, k, i, true, TRUE)

Misplaced(lines, i) ==
    \/ lines[i].directive \in {"elif", "else", "endif"} /\ Depth(lines, i) = 0
    \/ /\ lines[i].directive \in {"elif", "else"}
       /\ \E k \in Around(lines, i) :
            /\ Depth(lines, k) + 1 = Depth(lines, i)
            /\ \E h \in Heads(lines, k, i) : lines[h].directive = "else"

-----------------------------------------------------------------------------
(* The text of a file with that of the files it includes.                    *)

Search(files, including, name, form) ==
    LET directories ==
            (IF form = "source" THEN <<including.directory>> \o SourceDirectories ELSE <<>>)
                \o HeaderDirectories
        Named(i) == [directory |-> directories[i], name |-> name]
    IN  {Named(i) : i \in {i \in DOMAIN directories :
            /\ Named(i) \in DOMAIN files
            /\ \A j \in 1 .. i - 1 : Named(j) \notin DOMAIN files}}

Holds(files, including, definitions, each) ==
    LET known == [macros |-> DOMAIN definitions \cup DOMAIN Predefined,
                  headers |-> {f.name : f \in {f \in DOMAIN files :
                                Search(files, including, f.name, "header") # {}}}]
    IN  CASE each.directive = "ifdef" -> {Truth(each.name \in known.macros)}
          [] each.directive = "ifndef" -> {Truth(each.name \notin known.macros)}
          [] each.directive = "else" -> {1}
          [] OTHER -> Meaning(each.condition, known)

RECURSIVE Included(_, _, _, _, _)

\* What becomes of the text so far, with macros defined and lines known to be
\* true, by the lines of a file from i on.  It has the field failed if they
\* are in error.
Included(files, path, i, number, so) ==
    LET lines == files[Last(path)]
        each == lines[i]
        Then(next) == Included(files, path, i + 1, number + 1, next)
        Failed == [so EXCEPT !.failed = TRUE]
        included == IsIncluded(lines, i, so.true)
    IN  IF i > Len(lines) THEN IF Depth(lines, i) = 0 THEN so ELSE Failed
        ELSE IF each.directive = "unsupported" \/ Misplaced(lines, i) THEN Failed
        ELSE IF each.directive \in Opening \cup {"elif", "else"}
        THEN LET values == Holds(files, Last(path), so.definitions, each)
             IN  IF ~IsAsked(lines, i, so.true) \/ values = {0} THEN Then(so)
                 ELSE IF values = {} THEN Failed
                 ELSE Then([so EXCEPT !.true = @ \cup {i}])
        ELSE IF ~included THEN Then(so)
        ELSE CASE each.directive = "text" ->
                    LET replaced == ReplacementOf(so.definitions, each.tokens)
                    IN  IF replaced.failed THEN Failed
                        ELSE Then([so EXCEPT !.output = Append(@, [tokens |-> replaced.tokens,
                                                                   file |-> Last(path), line |-> number])])
               [] each.directive = "define" ->
                    IF \E name \in DOMAIN so.definitions \cap {each.name} : so.definitions[name] # each.macro
                    THEN Failed
                    ELSE Then([so EXCEPT !.definitions = @ @@ (each.name :> each.macro)])
               [] each.directive = "undef" ->
                    Then([so EXCEPT !.definitions = Restrict(@, DOMAIN @ \ {each.name})])
               [] each.directive = "line" -> Included(files, path, i + 1, each.number, so)
               [] each.directive = "include" ->
                    LET found == Search(files, Last(path), each.name, each.form)
                    IN  IF found = {} \/ Len(path) > MaxNesting THEN Failed
                        ELSE LET header == CHOOSE f \in found : TRUE
                                 after == Included(files, Append(path, header), 1, 1,
                                                   [so EXCEPT !.true = {}])
                             IN  IF after.failed THEN after
                                 ELSE Then([after EXCEPT !.true = so.true])
               [] each.directive = "end" -> IF Depth(lines, i) = 0 THEN so ELSE Failed
               [] each.directive = "error" -> Failed
               [] OTHER -> Then(so)

Expected ==
    Included(project, <<Main>>, 1, 1, [definitions |-> [name \in {} |-> Placemarker], output |-> <<>>,
                                       true |-> {}, failed |-> FALSE])

-----------------------------------------------------------------------------
(* Texts that are replaced for ever.  The flag of a macro only tells while   *)
(* its own replacement list is expanded.  When one macro leads to another    *)
(* that comes back to itself, what this other one results in is put back and *)
(* replaced once more while the list of the first one is expanded.           *)

\* The macros a list names, those included that ## may yield.
MacrosNamed(list) ==
    DOMAIN macros \cap (ToSet(list) \cup IF Concatenator \in ToSet(list) THEN Range(Joins) ELSE {})

\* Some of these macros lead to others, but for one that is being replaced,
\* over more steps than there are macros, so that they come back to one.
ComeBack(names, replaced) ==
    LET Then[n \in Nat] ==
            IF n = 0 THEN names \ replaced
            ELSE UNION {MacrosNamed(macros[name].replacementList) : name \in Then[n - 1]} \ replaced
    IN  Then[Cardinality(DOMAIN macros)] # {}

\* What follows a function-like macro may be its arguments, which are expanded
\* before it counts as being replaced.
NeverEnds(text) ==
    \E i \in {i \in DOMAIN text : text[i] \in DOMAIN macros} :
        \/ ComeBack(MacrosNamed(macros[text[i]].replacementList), {text[i]})
        \/ /\ macros[text[i]].model = "function"
           /\ ComeBack(MacrosNamed(SubSeq(text, i + 1, Len(text))), {})

\* The preprocessor is at such a text.
IsCaught == phase \notin {"idle", "failed", "aborted"} /\ NeverEnds(CurrentLine.tokens)

-----------------------------------------------------------------------------
(* Properties.                                                               *)

(* Once the preprocessor has come to an end, the text included, with macros  *)
(* replaced, and the lines and files it is attributed to, are what the       *)
(* structure of the files and the definition of macro replacement demand,    *)
(* and there is an error just if these are in error, whatever is included in *)
(* what: unless macros come back to one another (Termination), the flags,    *)
(* the tokens put back and the stack of conditionals do replace the sets of  *)
(* macros that every token would have to keep (cpppreprocessor.cpp:145-179,  *)
(* 202-292, 366-527).  Conditions are those of Evaluation, whose operands of *)
(* && on the left are zero or one (727).                                     *)
Preprocessed ==
    /\ phase # "aborted"
    /\ status = "done" => output = Expected.output /\ ~Expected.failed
    /\ status = "failed" => output = Expected.output /\ Expected.failed

(* The preprocessor comes to an end, even if files include each other and    *)
(* macros name themselves or each other, unless it comes to a text that      *)
(* leads, by way of a first macro or an argument, to one that comes back to  *)
(* itself without the first: each round of replacement in Expand then        *)
(* results in what is replaced in the next (cpppreprocessor.cpp:223-224,     *)
(* 236), such as B if B is A, and A is x A.  Texts that only lead back to    *)
(* the macros that they name themselves come to an end.                      *)
Termination == <>(status # "running" \/ IsCaught)
===============================================================================
