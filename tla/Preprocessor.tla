------------------------------ MODULE Preprocessor ------------------------------
(*****************************************************************************)
(* Directives of the C++ preprocessor (tools/cpppreprocessor.cpp): which     *)
(* lines of a source file and of the files it includes take part.            *)
(*                                                                           *)
(* A line is a record [directive, name, number, form, condition, tokens,     *)
(* macro] of which each directive uses some: "text" stands for a line        *)
(* without directive, "end" for #pragma end, and "unsupported" for one of    *)
(* another name.  A file is a record [directory, name].  Invocations of      *)
(* macros end in the line they begin in.                                     *)
(*                                                                           *)
(* What is marked as faulty is a variant with a bug that no step takes.      *)
(*****************************************************************************)
EXTENDS MacroReplacement

CONSTANTS
    Projects,           \* families of source files: functions from files to lines
    Main,               \* the file that is preprocessed
    SourceDirectories,  \* the directories searched for source files,
    HeaderDirectories,  \* and for headers, too
    MaxNesting,         \* of #include directives
    Decide(_, _)        \* what a condition is evaluated to, if anything

Conditionals == {"including", "includingElse", "skipping", "ignoring", "ignoringElse"}

IsSequence(s) == Len(s) \in Nat /\ s = [i \in 1 .. Len(s) |-> s[i]]

ASSUME ProjectsAssumption ==
    \A family \in Projects : \A files \in family :
        Main \in DOMAIN files /\ \A f \in DOMAIN files : IsSequence(files[f])

ASSUME DirectoriesAssumption == IsSequence(SourceDirectories) /\ IsSequence(HeaderDirectories)

ASSUME NestingAssumption == MaxNesting \in Nat

VARIABLES
    project,        \* the files
    status,         \* "running" until the preprocessor is done or failed
    read,           \* the lines read from the stream it was given
    file,           \* the one other stream, with the lines read from it
    streambuf,      \* which of them the lexer reads, "stream" or "file"
    filename,       \* of the current file
    line,           \* its number, which #line overrides
    states,         \* of the files that include this one, outermost first
    conditional,    \* whether lines are included, and if not, why
    conditionals,   \* those of the enclosing directives of this file
    output          \* the text included, with macros replaced

lexer == <<read, file, streambuf, line>>
branching == <<conditional, conditionals>>
inclusion == <<filename, states>>
vars == <<project, status, lexer, inclusion, branching, macros, replacement, output>>

\* A stream that is not open.
Closed == [name |-> Main, read |-> 0]

Init ==
    /\ \E family \in Projects : project \in family
    /\ status = "running"
    /\ read = 0
    /\ file = Closed
    /\ streambuf = "stream"
    /\ filename = Main
    /\ line = 1
    /\ states = <<>>
    /\ conditional = "including"
    /\ conditionals = <<>>
    /\ macros = [name \in {} |-> Placemarker]
    /\ output = <<>>
    /\ ReplacementInit

-----------------------------------------------------------------------------
IsIncluding == conditional \in {"including", "includingElse"}

\* The lexer does not know files, only streams.
Lines == IF streambuf = "stream" THEN project[Main] ELSE project[file.name]

LinesRead == IF streambuf = "stream" THEN read ELSE file.read

AtEof == LinesRead = Len(Lines)

CurrentLine == Lines[LinesRead + 1]

Advance ==
    IF streambuf = "stream" THEN /\ read' = read + 1
                                 /\ UNCHANGED <<file, streambuf>>
                            ELSE /\ file' = [file EXCEPT !.read = file.read + 1]
                                 /\ UNCHANGED <<read, streambuf>>

\* Context::Open: the files a directive may lead to, in the order of the search.
Candidates(name, form) ==
    LET In(directories) == [i \in DOMAIN directories |->
                                [directory |-> directories[i], name |-> name]]
    IN  IF form = "source"
        THEN <<[directory |-> filename.directory, name |-> name]>>
                \o In(SourceDirectories) \o In(HeaderDirectories)
        ELSE In(HeaderDirectories)

Opened(name, form) ==
    LET candidates == Candidates(name, form)
        found == {i \in DOMAIN candidates : candidates[i] \in DOMAIN project}
    IN  {candidates[i] : i \in {i \in found : \A j \in found : i <= j}}

IsDefined(name) == name \in DOMAIN macros \cup DOMAIN Predefined

\* What conditions may ask for.
Known ==
    [macros |-> DOMAIN macros \cup DOMAIN Predefined,
     headers |-> {f.name : f \in {f \in DOMAIN project : Opened(f.name, "header") # {}}}]

Chosen(condition) ==
    IF Decide(condition, Known) = {TRUE} THEN "including" ELSE "skipping"

-----------------------------------------------------------------------------
(* Errors, of which no code catches any: Error is thrown.                    *)

IsMisplaced ==
    \/ /\ CurrentLine.directive \in {"elif", "else"}
       /\ \/ conditional = "including" /\ conditionals = <<>>
          \/ conditional \in {"includingElse", "ignoringElse"}
    \/ CurrentLine.directive = "endif" /\ conditionals = <<>>

\* Errors that occur in any line, included or not.
IsMalformed == CurrentLine.directive = "unsupported" \/ IsMisplaced

IsTooDeep == Len(states) = MaxNesting

\* Those that occur only in lines that are included.
IsRefused ==
    CASE CurrentLine.directive = "if" -> Decide(CurrentLine.condition, Known) = {}
      [] CurrentLine.directive = "include" ->
            IsTooDeep \/ Opened(CurrentLine.name, CurrentLine.form) = {}
      [] CurrentLine.directive = "define" ->
            CurrentLine.name \in DOMAIN macros /\ macros[CurrentLine.name] # CurrentLine.macro
      [] CurrentLine.directive = "end" -> conditionals # <<>>
      [] CurrentLine.directive = "error" -> TRUE
      [] OTHER -> FALSE

IsUndecided ==
    /\ CurrentLine.directive = "elif" /\ conditional = "skipping"
    /\ Decide(CurrentLine.condition, Known) = {}

Fail ==
    /\ status = "running"
    /\ \/ phase \in {"failed", "aborted"}
       \/ phase = "idle" /\ AtEof /\ conditionals # <<>>
       \/ /\ phase = "idle" /\ ~AtEof
          /\ IsMalformed \/ IsUndecided \/ (IsIncluding /\ IsRefused)
    /\ status' = "failed"
    /\ UNCHANGED <<project, lexer, inclusion, branching, macros, replacement, output>>

-----------------------------------------------------------------------------
At(directives) ==
    /\ status = "running" /\ phase = "idle"
    /\ ~AtEof /\ CurrentLine.directive \in directives
    /\ ~IsMalformed /\ ~IsUndecided /\ ~(IsIncluding /\ IsRefused)
    /\ UNCHANGED <<project, status>>

NextLine == Advance /\ line' = line + 1

SkipText ==
    /\ At({"text"})
    /\ ~IsIncluding
    /\ NextLine
    /\ UNCHANGED <<inclusion, branching, macros, replacement, output>>

BeginText ==
    /\ At({"text"})
    /\ IsIncluding
    /\ Begin(CurrentLine.tokens)
    /\ UNCHANGED <<lexer, inclusion, branching, macros, output>>

ReplaceText ==
    /\ status = "running"
    /\ ReplacementStep
    /\ UNCHANGED <<project, status, lexer, inclusion, branching, macros, output>>

EndText ==
    /\ status = "running" /\ phase = "done"
    /\ phase' = "idle"
    /\ output' = Append(output, [tokens |-> returned, file |-> filename, line |-> line])
    /\ NextLine
    /\ UNCHANGED <<project, status, inclusion, branching, macros, reading, current, calls, returned>>

ProcessDefineDirective ==
    /\ At({"define"})
    /\ macros' = IF IsIncluding THEN macros @@ (CurrentLine.name :> CurrentLine.macro) ELSE macros
    /\ NextLine
    /\ UNCHANGED <<inclusion, branching, replacement, output>>

ProcessUndefDirective ==
    /\ At({"undef"})
    /\ macros' = IF IsIncluding
                 THEN Restrict(macros, DOMAIN macros \ {CurrentLine.name}) ELSE macros
    /\ NextLine
    /\ UNCHANGED <<inclusion, branching, replacement, output>>

ProcessLineDirective ==
    /\ At({"line"})
    /\ Advance
    /\ line' = IF IsIncluding THEN CurrentLine.number ELSE line + 1
    /\ UNCHANGED <<inclusion, branching, macros, replacement, output>>

\* Directives #error and #pragma end, if they are skipped.
SkipDirective ==
    /\ At({"error", "end"})
    /\ ~IsIncluding
    /\ NextLine
    /\ UNCHANGED <<inclusion, branching, macros, replacement, output>>

-----------------------------------------------------------------------------
(* Conditional inclusion.                                                    *)

ProcessIfDirective ==
    /\ At({"if"})
    /\ conditionals' = Append(conditionals, conditional)
    /\ conditional' = IF IsIncluding THEN Chosen(CurrentLine.condition) ELSE "ignoring"
    /\ NextLine
    /\ UNCHANGED <<inclusion, macros, replacement, output>>

ProcessIfdefDirective ==
    /\ At({"ifdef", "ifndef"})
    /\ conditionals' = Append(conditionals, conditional)
    /\ conditional' = IF ~IsIncluding THEN "ignoring"
                      ELSE IF IsDefined(CurrentLine.name) = (CurrentLine.directive = "ifdef")
                      THEN "including" ELSE "skipping"
    /\ NextLine
    /\ UNCHANGED <<inclusion, macros, replacement, output>>

\* A faulty variant that asks again although a group was included.
ConditionalAfterElifAgain ==
    IF conditional = "ignoring" THEN "ignoring" ELSE Chosen(CurrentLine.condition)

ConditionalAfterElif ==
    IF conditional = "skipping" THEN Chosen(CurrentLine.condition) ELSE "ignoring"

ProcessElifDirective ==
    /\ At({"elif"})
    /\ conditional' = ConditionalAfterElif
    /\ NextLine
    /\ UNCHANGED <<inclusion, conditionals, macros, replacement, output>>

ProcessElseDirective ==
    /\ At({"else"})
    /\ conditional' = IF conditional = "skipping" THEN "includingElse" ELSE "ignoringElse"
    /\ NextLine
    /\ UNCHANGED <<inclusion, conditionals, macros, replacement, output>>

ProcessEndifDirective ==
    /\ At({"endif"})
    /\ conditional' = Last(conditionals)
    /\ conditionals' = Front(conditionals)
    /\ NextLine
    /\ UNCHANGED <<inclusion, macros, replacement, output>>

-----------------------------------------------------------------------------
(* Files.  There is one stream for all the files included: before another    *)
(* one is opened, the position in the current one is kept.                   *)

\* A faulty variant that begins each file again.
PositionLost == 0

Position == IF states = <<>> THEN 0 ELSE file.read + 1

SkipInclude ==
    /\ At({"include"})
    /\ ~IsIncluding
    /\ NextLine
    /\ UNCHANGED <<inclusion, branching, macros, replacement, output>>

Include ==
    /\ At({"include"})
    /\ IsIncluding
    /\ \E opened \in Opened(CurrentLine.name, CurrentLine.form) :
        /\ filename' = opened
        /\ file' = [name |-> opened, read |-> 0]
    /\ states' = Append(states, [streambuf |-> streambuf, line |-> line + 1,
                                 filename |-> filename, conditional |-> conditional,
                                 streampos |-> Position, conditionals |-> conditionals])
    /\ read' = IF streambuf = "stream" THEN read + 1 ELSE read
    /\ streambuf' = "file"
    /\ line' = 1
    /\ conditional' = "including"
    /\ conditionals' = <<>>
    /\ UNCHANGED <<macros, replacement, output>>

RestorePreviousState ==
    /\ status = "running" /\ phase = "idle"
    /\ AtEof /\ conditionals = <<>>
    /\ states # <<>>
    /\ LET state == Last(states) IN
        /\ filename' = state.filename
        /\ conditional' = state.conditional
        /\ conditionals' = state.conditionals
        /\ file' = IF state.streambuf = "file"
                   THEN [name |-> state.filename, read |-> state.streampos] ELSE Closed
        /\ streambuf' = state.streambuf
        /\ line' = state.line
    /\ states' = Front(states)
    /\ UNCHANGED <<project, status, read, macros, replacement, output>>

\* The end of the file that is preprocessed, or #pragma end in any file.
Finish ==
    /\ status = "running" /\ phase = "idle"
    /\ conditionals = <<>>
    /\ IF AtEof THEN states = <<>>
                ELSE ~IsMalformed /\ CurrentLine.directive = "end" /\ IsIncluding
    /\ status' = "done"
    /\ UNCHANGED <<project, lexer, inclusion, branching, macros, replacement, output>>

Next ==
    \/ SkipText \/ BeginText \/ ReplaceText \/ EndText
    \/ ProcessDefineDirective \/ ProcessUndefDirective \/ ProcessLineDirective \/ SkipDirective
    \/ ProcessIfDirective \/ ProcessIfdefDirective \/ ProcessElifDirective
    \/ ProcessElseDirective \/ ProcessEndifDirective
    \/ SkipInclude \/ Include \/ RestorePreviousState \/ Finish \/ Fail

\* The preprocessor is one thread that never waits.
Spec == Init /\ [][Next]_vars /\ WF_vars(Next)

-----------------------------------------------------------------------------
(* Properties; Inclusion has those that take a definition of the result.     *)

\* The files that the lexer is in the middle of, and the lines it resumes at.
Resumed(i) ==
    IF states[i].streambuf = "stream" THEN [name |-> Main, read |-> read]
    ELSE [name |-> states[i].filename, read |-> states[i].streampos]

Inner(i) == IF i = Len(states) THEN filename ELSE states[i + 1].filename

(* The positions that are kept while files are included are those behind the *)
(* #include directives that led to these files, although all these files are *)
(* read by one stream and a name is all that is kept of them                 *)
(* (cpppreprocessor.cpp:506-527).                                            *)
ResumesBehindInclude ==
    \A i \in DOMAIN states :
        LET lines == project[Resumed(i).name] IN
            /\ states[i].streambuf = "stream" <=> i = 1
            /\ states[i].conditional \in {"including", "includingElse"}
            /\ \E k \in DOMAIN lines :
                /\ k = Resumed(i).read
                /\ lines[k].directive = "include" /\ lines[k].name = Inner(i).name

(* While the tokens of a macro or an argument are expanded, at any depth, no *)
(* token is taken from the source behind the macro, and none is returned     *)
(* (cpppreprocessor.cpp:161-166, 227-240).                                   *)
SourceKept ==
    [][(\E i \in DOMAIN stack : stack[i].call = "expand") => UNCHANGED <<source, returned>>]_vars
===============================================================================
