---------------------------- MODULE MacroReplacement ----------------------------
(*****************************************************************************)
(* Macro replacement in C++ sources (tools/cpppreprocessor.cpp): the tokens  *)
(* of a text go through SkipCurrent, which replaces macros by means of       *)
(* ReplaceCurrent and Expand, which call each other.                         *)
(*                                                                           *)
(* A token is a record [name, literal].  Its name stands for symbol and      *)
(* spelling; a literal is the names that # made a string.  White space and   *)
(* locations are left out; for directives see Preprocessor.                  *)
(*                                                                           *)
(* What is marked as faulty is a variant with a bug that no step takes.      *)
(*****************************************************************************)
EXTENDS Integers, Sequences, SequencesExt

CONSTANTS
    Predefined, \* the names that predefined macros are replaced by
    Joins,      \* the name that concatenating two names yields, by valid pairs
    MaxLength   \* of tokens and calls together; nothing is replaced beyond it

Placemarker == "placemarker"
Concatenator == "concatenator"  \* what ## is in a replacement list

VARIABLES
    macros,     \* records [model, parameters, replacementList], by name
    source,     \* the tokens that the lexer is going to read
    tokens,     \* those put back, or those being expanded
    available,  \* lexerAvailable
    current,    \* the token at hand
    replacing,  \* the macros whose replacing is true
    stack,      \* calls of Replace, ReplaceFunctionLike and Expand
    phase,      \* what is to be done next, "idle" while there is no text
    returned    \* the tokens returned by SkipCurrent for the text

reading == <<source, tokens, available>>
calls == <<replacing, stack>>
replacement == <<reading, current, calls, phase, returned>>

Token(name) == [name |-> name, literal |-> <<>>]

Tokens(names) == [i \in DOMAIN names |-> Token(names[i])]

ReplacementInit ==
    /\ source = <<>>
    /\ tokens = <<>>
    /\ available = TRUE
    /\ current = Token(Placemarker)
    /\ replacing = {}
    /\ stack = <<>>
    /\ phase = "idle"
    /\ returned = <<>>

\* The lexer comes to a text.
Begin(text) ==
    /\ phase = "idle"
    /\ source' = Tokens(text)
    /\ phase' = "skip"
    /\ returned' = <<>>
    /\ UNCHANGED <<tokens, available, current, calls>>

-----------------------------------------------------------------------------
(* Operators # and ##.                                                       *)

Stringize(argument) ==
    [Token("string") EXCEPT !.literal = [i \in DOMAIN argument |-> argument[i].name]]

\* Concatenate: the token it yields, if that is valid.
Concatenate(first, second) ==
    IF first.name = Placemarker THEN {second}
    ELSE IF second.name = Placemarker THEN {first}
    ELSE {Token(Joins[pair]) : pair \in {<<first.name, second.name>>} \cap DOMAIN Joins}

\* The first loop of Expand: the tokens it leaves, unless an operator is
\* missing an operand, which is undefined behaviour, or yields no token.
Concatenated(list) ==
    LET Put(so, token) ==
            IF so.missing \/ so.invalid THEN so
            ELSE IF so.joining
            THEN LET results == Concatenate(Last(so.list), token)
                 IN  IF results = {} THEN [so EXCEPT !.invalid = TRUE]
                     ELSE [so EXCEPT !.list = Append(Front(@), CHOOSE t \in results : TRUE),
                                     !.joining = FALSE]
            ELSE IF token.name # Concatenator THEN [so EXCEPT !.list = Append(@, token)]
            ELSE IF so.list = <<>> THEN [so EXCEPT !.missing = TRUE]
            ELSE [so EXCEPT !.joining = TRUE]
    IN  FoldLeft(Put, [list |-> <<>>, joining |-> FALSE, missing |-> FALSE, invalid |-> FALSE], list)

-----------------------------------------------------------------------------
(* Invocations of function-like macros.                                      *)

Count(list, name) == Len(SelectSeq(list, LAMBDA token : token.name = name))

\* The parentheses that are open before a token.
Nesting(list, i) == Count(SubSeq(list, 1, i - 1), "(") - Count(SubSeq(list, 1, i - 1), ")")

\* The token that closes an invocation whose parenthesis is before the list.
Closing(list) ==
    LET closing == {i \in DOMAIN list : list[i].name = ")" /\ Nesting(list, i) = 0}
    IN  {i \in closing : \A j \in closing : i <= j}

\* The arguments between the parentheses: the last parameter of a macro with
\* an ellipsis takes the remaining ones.
Split(macro, list) ==
    LET commas == SelectSeq([i \in DOMAIN list |-> i],
                            LAMBDA i : list[i].name = "," /\ Nesting(list, i) = 0)
        count == Len(macro.parameters)
        separators == IF count > 0 /\ Last(macro.parameters) = "__VA_ARGS__" /\ count <= Len(commas)
                      THEN SubSeq(commas, 1, count - 1) ELSE commas
        bounds == <<0>> \o separators \o <<Len(list) + 1>>
    IN  IF list = <<>> /\ count = 0 THEN <<>>
        ELSE [i \in 1 .. Len(bounds) - 1 |-> SubSeq(list, bounds[i] + 1, bounds[i + 1] - 1)]

-----------------------------------------------------------------------------
(* Calls and how they return.                                                *)

Top == Last(stack)

\* Expand is called with a list, while the calls below it are on the stack.
Enter(below, list) ==
    LET result == Concatenated(list) IN
        /\ phase' = IF result.missing THEN "aborted" ELSE IF result.invalid THEN "failed" ELSE "expand"
        /\ tokens' = result.list
        /\ stack' = Append(below, [call |-> "expand", buffer |-> tokens,
                                   available |-> available, expansion |-> <<>>])
        /\ available' = FALSE
        /\ UNCHANGED <<source, current, returned>>

\* ReplaceCurrent returns true: its caller goes on with the next token.
Replaced ==
    /\ phase' = IF stack = <<>> THEN "skip" ELSE "expand"
    /\ UNCHANGED <<stack, returned>>

\* It returns false: its caller passes the token on.
NotReplaced(token) ==
    /\ phase' = IF stack = <<>> THEN "skip" ELSE "expand"
    /\ IF stack = <<>>
       THEN returned' = Append(returned, token) /\ UNCHANGED stack
       ELSE /\ stack' = [stack EXCEPT ![Len(stack)].expansion = Append(@, token)]
            /\ UNCHANGED returned

-----------------------------------------------------------------------------
(* SkipCurrent.                                                              *)

\* Tokens that were put back are not replaced.
SkipPutback ==
    /\ phase = "skip" /\ tokens # <<>>
    /\ current' = Head(tokens)
    /\ tokens' = Tail(tokens)
    /\ returned' = Append(returned, Head(tokens))
    /\ UNCHANGED <<source, available, calls, phase>>

SkipLexed ==
    /\ phase = "skip" /\ tokens = <<>> /\ source # <<>>
    /\ current' = Head(source)
    /\ source' = Tail(source)
    /\ phase' = "replace"
    /\ UNCHANGED <<tokens, available, calls, returned>>

FinishText ==
    /\ phase = "skip" /\ tokens = <<>> /\ source = <<>>
    /\ phase' = "done"
    /\ UNCHANGED <<reading, current, calls, returned>>

-----------------------------------------------------------------------------
(* ReplaceCurrent.                                                           *)

IsMacro == current.name \in DOMAIN macros \ DOMAIN Predefined

Macro == macros[current.name]

PassCurrent ==
    /\ phase = "replace" /\ ~IsMacro /\ current.name \notin DOMAIN Predefined
    /\ IF current.name = Placemarker THEN Replaced ELSE NotReplaced(current)
    /\ UNCHANGED <<reading, current, replacing>>

\* Predefined macros are replaced by a single token in place.
ReplacePredefined ==
    /\ phase = "replace" /\ current.name \in DOMAIN Predefined
    /\ current' = Token(Predefined[current.name])
    /\ IF current'.name = Placemarker THEN Replaced ELSE NotReplaced(current')
    /\ UNCHANGED <<reading, replacing>>

PassReplacing ==
    /\ phase = "replace" /\ IsMacro /\ current.name \in replacing
    /\ NotReplaced(current)
    /\ UNCHANGED <<reading, current, replacing>>

\* Only texts that are replaced for ever come to this.
IsTooLong ==
    LET passed == IF stack = <<>> THEN returned ELSE Top.expansion
    IN  Len(tokens) + Len(passed) + Len(stack) > MaxLength

\* A faulty variant that replaces macros while they are replaced.
IsReplaceableAgain(model) ==
    /\ phase = "replace" /\ IsMacro /\ Macro.model = model
    /\ ~IsTooLong

IsReplaceable(model) ==
    /\ phase = "replace" /\ IsMacro /\ Macro.model = model
    /\ current.name \notin replacing
    /\ ~IsTooLong

ReplaceObjectLike ==
    /\ IsReplaceable("object")
    /\ replacing' = replacing \cup {current.name}
    /\ Enter(Append(stack, [call |-> "replace", macro |-> current.name]),
             Tokens(Macro.replacementList))

\* A faulty variant that reads the source in any case.
UpcomingAlways == tokens \o source

\* What SkipCurrentReplaced is going to yield.
Upcoming == IF available THEN tokens \o source ELSE tokens

IsInvocation == Upcoming # <<>> /\ Head(Upcoming).name = "("

\* The token behind the name was read and is put back.
PassName ==
    /\ IsReplaceable("function") /\ ~IsInvocation
    /\ IF tokens = <<>> /\ Upcoming # <<>>
       THEN tokens' = <<Head(source)>> /\ source' = Tail(source)
       ELSE UNCHANGED <<tokens, source>>
    /\ NotReplaced(current)
    /\ UNCHANGED <<available, current, replacing>>

ReplaceFunctionLike ==
    /\ IsReplaceable("function") /\ IsInvocation
    /\ \E i \in Closing(Tail(Upcoming)) :
        LET arguments == Split(Macro, SubSeq(Upcoming, 2, i))
            rest == SubSeq(Upcoming, i + 2, Len(Upcoming))
        IN  /\ Len(arguments) = Len(Macro.parameters)
            \* Tokens that were put back and the source are never both read.
            /\ tokens' = IF tokens = <<>> THEN tokens ELSE rest
            /\ source' = IF tokens = <<>> THEN rest ELSE source
            /\ stack' = Append(stack, [call |-> "substitute", macro |-> current.name,
                                       arguments |-> arguments, next |-> 1, list |-> <<>>])
    /\ phase' = "substitute"
    /\ UNCHANGED <<available, current, replacing, returned>>

\* No closing parenthesis, or too few or too many arguments.
RefuseInvocation ==
    /\ IsReplaceable("function") /\ IsInvocation
    /\ \A i \in Closing(Tail(Upcoming)) :
        Len(Split(Macro, SubSeq(Upcoming, 2, i))) # Len(Macro.parameters)
    /\ phase' = "failed"
    /\ UNCHANGED <<reading, current, calls, returned>>

-----------------------------------------------------------------------------
(* The loop of ReplaceFunctionLike over the replacement list.                *)

Invoked == macros[Top.macro]

InLoop == phase = "substitute" /\ Top.next <= Len(Invoked.replacementList)

Each == Invoked.replacementList[Top.next]

\* The token before is the last of the list, or else there is white space.
IsBehind(operators) == Top.next > 1 /\ Invoked.replacementList[Top.next - 1] \in operators

\* The argument of the token, if that is a parameter.
Argument ==
    {Top.arguments[i] : i \in {i \in DOMAIN Invoked.parameters : Invoked.parameters[i] = Each}}

\* What the list becomes, if no argument has to be expanded.
Inserted ==
    IF Argument = {} THEN {Append(Top.list, Token(Each))}
    ELSE {IF IsBehind({"#"}) THEN Append(Front(Top.list), Stringize(argument))
          ELSE IF argument = <<>> THEN Append(Top.list, Token(Placemarker))
          ELSE Top.list \o argument :
            argument \in {a \in Argument : a = <<>> \/ IsBehind({"#", Concatenator})}}

Substitute ==
    /\ InLoop
    /\ \E list \in Inserted :
        stack' = [stack EXCEPT ![Len(stack)].list = list, ![Len(stack)].next = @ + 1]
    /\ UNCHANGED <<reading, current, replacing, phase, returned>>

ExpandArgument ==
    /\ InLoop /\ Inserted = {}
    /\ \E argument \in Argument : Enter(stack, argument)
    /\ UNCHANGED replacing

ReplaceInvocation ==
    /\ phase = "substitute" /\ ~InLoop
    /\ replacing' = replacing \cup {Top.macro}
    /\ Enter(Append(Front(stack), [call |-> "replace", macro |-> Top.macro]), Top.list)

-----------------------------------------------------------------------------
(* The second loop of Expand, and its return.                                *)

ExpandNext ==
    /\ phase = "expand" /\ tokens # <<>>
    /\ current' = Head(tokens)
    /\ tokens' = Tail(tokens)
    /\ phase' = "replace"
    /\ UNCHANGED <<source, available, calls, returned>>

Caller == stack[Len(stack) - 1]

Leave(call) ==
    /\ phase = "expand" /\ tokens = <<>> /\ Caller.call = call
    /\ available' = Top.available
    /\ UNCHANGED <<source, current, returned>>

Released == replacing \ {Caller.macro}

ReturnReplacement ==
    /\ Leave("replace")
    /\ tokens' = Top.expansion \o Top.buffer
    /\ replacing' = Released
    /\ stack' = SubSeq(stack, 1, Len(stack) - 2)
    /\ phase' = IF Len(stack) = 2 THEN "skip" ELSE "expand"

ReturnArgument ==
    /\ Leave("substitute")
    /\ tokens' = Top.buffer
    /\ stack' = Append(SubSeq(stack, 1, Len(stack) - 2),
                       [Caller EXCEPT !.list = @ \o Top.expansion, !.next = @ + 1])
    /\ phase' = "substitute"
    /\ UNCHANGED replacing

ReplacementStep ==
    \/ SkipPutback \/ SkipLexed \/ FinishText
    \/ PassCurrent \/ ReplacePredefined \/ PassReplacing
    \/ ReplaceObjectLike \/ PassName \/ ReplaceFunctionLike \/ RefuseInvocation
    \/ Substitute \/ ExpandArgument \/ ReplaceInvocation
    \/ ExpandNext \/ ReturnReplacement \/ ReturnArgument
===============================================================================
