--------------------------- MODULE Preprocessor_proofs ---------------------------
(*****************************************************************************)
(* Proofs about the preprocessor, for all files, search paths and macros,    *)
(* and whatever conditions are evaluated to.                                 *)
(*****************************************************************************)
EXTENDS Preprocessor, SequenceTheorems, TLAPS

-----------------------------------------------------------------------------
(* Sequences of any elements.                                                *)

(* A sequence in the sense of the library.                                   *)
LEMMA SequenceIn ==
    ASSUME NEW s, IsSequence(s)
    PROVE  s \in Seq({s[i] : i \in 1 .. Len(s)}) /\ DOMAIN s = 1 .. Len(s)
<1>1. s \in [1 .. Len(s) -> {s[i] : i \in 1 .. Len(s)}] /\ Len(s) \in Nat
  BY DEF IsSequence
<1> QED
  BY <1>1, SeqDef, Zenon

LEMMA SequenceOf ==
    ASSUME NEW S, NEW s \in Seq(S)
    PROVE  IsSequence(s)
<1>1. Len(s) \in Nat /\ s \in [1 .. Len(s) -> S]
  BY LenProperties
<1> QED
  BY <1>1 DEF IsSequence

LEMMA AppendSequence ==
    ASSUME NEW s, IsSequence(s), NEW e
    PROVE  /\ IsSequence(Append(s, e))
           /\ Append(s, e) # <<>>
           /\ Len(Append(s, e)) = Len(s) + 1
           /\ \A i \in 1 .. Len(s) : Append(s, e)[i] = s[i]
           /\ Append(s, e)[Len(s) + 1] = e
<1> DEFINE S == {s[i] : i \in 1 .. Len(s)} \cup {e}
<1>1. s \in Seq(S)
  <2> DEFINE T == {s[i] : i \in 1 .. Len(s)}
  <2>1. s \in Seq(T)
    BY SequenceIn
  <2>2. T \subseteq S
    OBVIOUS
  <2> HIDE DEF T, S
  <2> QED
    BY <2>1, <2>2, SeqMonotonic
<1>2. e \in S
  OBVIOUS
<1> HIDE DEF S
<1>3. Append(s, e) \in Seq(S)
  BY <1>1, <1>2, AppendProperties
<1>4. IsSequence(Append(s, e))
  BY <1>3, SequenceOf
<1> QED
  BY <1>1, <1>2, <1>4, AppendProperties

(* A beginning of a sequence.                                                *)
LEMMA BeginningOfSequence ==
    ASSUME NEW s, IsSequence(s), NEW n \in 0 .. Len(s)
    PROVE  /\ IsSequence(SubSeq(s, 1, n))
           /\ Len(SubSeq(s, 1, n)) = n
           /\ \A i \in 1 .. n : SubSeq(s, 1, n)[i] = s[i]
<1> DEFINE S == {s[i] : i \in 1 .. Len(s)}
<1>1. Len(s) \in Nat
  BY DEF IsSequence
<1>2. \A i \in 1 .. n : s[i] \in S
  BY <1>1
<1> HIDE DEF S
<1>3. /\ SubSeq(s, 1, n) \in Seq(S)
      /\ Len(SubSeq(s, 1, n)) = IF 1 <= n THEN n - 1 + 1 ELSE 0
      /\ \A i \in 1 .. n - 1 + 1 : SubSeq(s, 1, n)[i] = s[1 + i - 1]
  BY <1>1, <1>2, SubSeqProperties
<1>4. IsSequence(SubSeq(s, 1, n))
  BY <1>3, SequenceOf
<1> QED
  BY <1>1, <1>3, <1>4

LEMMA FrontSequence ==
    ASSUME NEW s, IsSequence(s), s # <<>>
    PROVE  /\ Len(s) \in Nat \ {0}
           /\ IsSequence(Front(s))
           /\ Len(Front(s)) = Len(s) - 1
           /\ \A i \in 1 .. Len(s) - 1 : Front(s)[i] = s[i]
<1>1. Len(s) \in Nat \ {0}
  BY SequenceIn, EmptySeq
<1>2. Len(s) - 1 \in 0 .. Len(s)
  BY <1>1
<1> QED
  BY <1>1, <1>2, BeginningOfSequence DEF Front

LEMMA EmptySequence ==
    ASSUME NEW s, IsSequence(s)
    PROVE  s = <<>> <=> Len(s) = 0
BY SequenceIn, EmptySeq

-----------------------------------------------------------------------------
(* Streams.                                                                  *)

(* The states are those of files, and only the outermost was read from the   *)
(* stream that the preprocessor was given.                                   *)
StatesKept ==
    /\ IsSequence(states)
    /\ Len(states) <= MaxNesting
    /\ \A i \in 1 .. Len(states) : states[i].filename \in DOMAIN project
    /\ \A i \in 1 .. Len(states) : states[i].streambuf = IF i = 1 THEN "stream" ELSE "file"

(* What the lexer reads is the current file.                                 *)
StreamsKept ==
    /\ \E family \in Projects : project \in family
    /\ read \in 0 .. Len(project[Main])
    /\ file.name \in DOMAIN project
    /\ file = [name |-> file.name, read |-> file.read]
    /\ file.read \in 0 .. Len(project[file.name])
    /\ streambuf = IF states = <<>> THEN "stream" ELSE "file"
    /\ filename = IF states = <<>> THEN Main ELSE file.name
    /\ states # <<>> => states[1].filename = Main
    /\ phase # "idle" => ~AtEof

FilesInvariant == StatesKept /\ StreamsKept /\ ResumesBehindInclude

LEMMA ProjectTyped ==
    ASSUME \E family \in Projects : project \in family
    PROVE  /\ Main \in DOMAIN project
           /\ \A f \in DOMAIN project : IsSequence(project[f])
BY ProjectsAssumption

(* What a directive leads to is a file of the name it asks for.              *)
LEMMA OpenedNamed ==
    ASSUME NEW name, NEW form, NEW opened \in Opened(name, form)
    PROVE  opened \in DOMAIN project /\ opened.name = name
<1> DEFINE Directory(d) == [directory |-> d, name |-> name]
           own == <<Directory(filename.directory)>>
           In(directories) == [i \in DOMAIN directories |-> Directory(directories[i])]
           D == {filename.directory}
                    \cup {SourceDirectories[i] : i \in DOMAIN SourceDirectories}
                    \cup {HeaderDirectories[i] : i \in DOMAIN HeaderDirectories}
           F == {Directory(d) : d \in D}
<1>1. own \in Seq(F)
  OBVIOUS
<1>2. /\ SourceDirectories \in Seq({SourceDirectories[i] : i \in 1 .. Len(SourceDirectories)})
      /\ HeaderDirectories \in Seq({HeaderDirectories[i] : i \in 1 .. Len(HeaderDirectories)})
      /\ DOMAIN SourceDirectories = 1 .. Len(SourceDirectories)
      /\ DOMAIN HeaderDirectories = 1 .. Len(HeaderDirectories)
  BY SequenceIn, DirectoriesAssumption
<1>3. In(SourceDirectories) \in Seq(F) /\ In(HeaderDirectories) \in Seq(F)
  <2>1. Len(SourceDirectories) \in Nat /\ Len(HeaderDirectories) \in Nat
    BY DirectoriesAssumption DEF IsSequence
  <2>2. /\ In(SourceDirectories) \in [1 .. Len(SourceDirectories) -> F]
        /\ In(HeaderDirectories) \in [1 .. Len(HeaderDirectories) -> F]
    BY <1>2
  <2> HIDE DEF In, F
  <2> QED
    BY <2>1, <2>2, SeqDef, Zenon
<1>4. Candidates(name, form) \in Seq(F)
  <2>1. Candidates(name, form) = IF form = "source"
                                 THEN own \o In(SourceDirectories) \o In(HeaderDirectories)
                                 ELSE In(HeaderDirectories)
    BY DEF Candidates
  <2> HIDE DEF own, In, F
  <2>2. own \o In(SourceDirectories) \in Seq(F)
    BY <1>1, <1>3, ConcatProperties
  <2>3. own \o In(SourceDirectories) \o In(HeaderDirectories) \in Seq(F)
    BY <1>3, <2>2, ConcatProperties
  <2> QED
    BY <1>3, <2>1, <2>3
<1>5. PICK i \in DOMAIN Candidates(name, form) :
        opened = Candidates(name, form)[i] /\ opened \in DOMAIN project
  BY DEF Opened
<1>6. opened \in F
  <2> HIDE DEF F
  <2> QED
    BY <1>4, <1>5, LenProperties, ElementOfSeq
<1> QED
  BY <1>5, <1>6

(* The steps by what they do to the streams.                                 *)
StreamsStay ==
    /\ UNCHANGED <<project, read, file, streambuf, filename, states>>
    /\ phase' # "idle" => phase # "idle" \/ ~AtEof

StreamsAdvance ==
    /\ ~AtEof
    /\ Advance
    /\ UNCHANGED <<project, filename, states>>
    /\ phase' = "idle"

LEMMA StreamSteps ==
    ASSUME phase # "idle" => ~AtEof, [Next]_vars
    PROVE  StreamsStay \/ StreamsAdvance \/ Include \/ RestorePreviousState
<1> USE DEF lexer, inclusion, replacement, reading, calls, NextLine
<1>1. CASE \/ SkipText \/ ProcessDefineDirective \/ ProcessUndefDirective \/ ProcessLineDirective
           \/ SkipDirective \/ ProcessIfDirective \/ ProcessIfdefDirective \/ ProcessElifDirective
           \/ ProcessElseDirective \/ ProcessEndifDirective \/ SkipInclude
  BY <1>1 DEF StreamsAdvance, At, SkipText, ProcessDefineDirective, ProcessUndefDirective,
        ProcessLineDirective, SkipDirective, ProcessIfDirective, ProcessIfdefDirective,
        ProcessElifDirective, ProcessElseDirective, ProcessEndifDirective, SkipInclude
<1>2. CASE EndText
  BY <1>2 DEF EndText, StreamsAdvance
<1>3. CASE BeginText
  BY <1>3 DEF BeginText, At, StreamsStay
<1>4. CASE ReplaceText
  <2>1. phase # "idle"
    BY <1>4 DEF ReplaceText, ReplacementStep, SkipPutback, SkipLexed, FinishText, PassCurrent,
        ReplacePredefined, PassReplacing, IsReplaceable, ReplaceObjectLike, PassName,
        ReplaceFunctionLike, RefuseInvocation, InLoop, Substitute, ExpandArgument,
        ReplaceInvocation, ExpandNext, Leave, ReturnReplacement, ReturnArgument
  <2> QED
    BY <1>4, <2>1 DEF ReplaceText, StreamsStay
<1>5. CASE Finish \/ Fail \/ UNCHANGED vars
  BY <1>5 DEF Finish, Fail, vars, StreamsStay
<1> QED
  BY <1>1, <1>2, <1>3, <1>4, <1>5 DEF Next

LEMMA InitFiles == Init => FilesInvariant
<1> SUFFICES ASSUME Init PROVE FilesInvariant
  OBVIOUS
<1>1. IsSequence(states) /\ Len(states) = 0 /\ DOMAIN states = {}
  <2>1. states \in Seq({}) /\ Len(states) = 0
    BY EmptySeq DEF Init
  <2>2. IsSequence(states)
    BY <2>1, SequenceOf
  <2> QED
    BY <2>1, <2>2, SequenceIn
<1>2. Main \in DOMAIN project /\ Len(project[Main]) \in Nat
  BY ProjectTyped DEF Init, IsSequence
<1> QED
  BY <1>1, <1>2, NestingAssumption
  DEF Init, FilesInvariant, StatesKept, StreamsKept, ResumesBehindInclude, Closed, ReplacementInit

(* What is known of the lines of the current file.                           *)
LEMMA LinesTyped ==
    ASSUME FilesInvariant
    PROVE  /\ IsSequence(Lines)
           /\ LinesRead \in 0 .. Len(Lines)
           /\ ~AtEof => LinesRead + 1 \in DOMAIN Lines
<1>1. Main \in DOMAIN project /\ \A f \in DOMAIN project : IsSequence(project[f])
  BY ProjectTyped DEF FilesInvariant, StreamsKept
<1>2. IsSequence(Lines) /\ LinesRead \in 0 .. Len(Lines)
  BY <1>1 DEF FilesInvariant, StreamsKept, Lines, LinesRead
<1>3. Len(Lines) \in Nat /\ DOMAIN Lines = 1 .. Len(Lines)
  BY <1>2, SequenceIn DEF IsSequence
<1>4. ASSUME LinesRead # Len(Lines) PROVE LinesRead + 1 \in 1 .. Len(Lines)
  <2>1. \A r, l \in Nat : r \in 0 .. l /\ r # l => r + 1 \in 1 .. l
    OBVIOUS
  <2>2. LinesRead \in Nat
    BY <1>2, <1>3
  <2> QED
    BY <1>2, <1>3, <1>4, <2>1, <2>2
<1> QED
  BY <1>2, <1>3, <1>4 DEF AtEof

LEMMA FilesStay == FilesInvariant /\ StreamsStay => FilesInvariant'
<1> SUFFICES ASSUME FilesInvariant, StreamsStay PROVE FilesInvariant'
  OBVIOUS
<1>1. StatesKept' /\ ResumesBehindInclude'
  BY DEF FilesInvariant, StreamsStay, StatesKept, ResumesBehindInclude, Resumed, Inner
<1>2. StreamsKept'
  BY DEF FilesInvariant, StreamsStay, StreamsKept, AtEof, Lines, LinesRead
<1> QED
  BY <1>1, <1>2 DEF FilesInvariant

LEMMA FilesAdvance == FilesInvariant /\ StreamsAdvance => FilesInvariant'
<1> SUFFICES ASSUME FilesInvariant, StreamsAdvance PROVE FilesInvariant'
  OBVIOUS
<1>1. LinesRead \in 0 .. Len(Lines) - 1
  BY LinesTyped DEF StreamsAdvance, AtEof, IsSequence
<1>2. StatesKept'
  BY DEF FilesInvariant, StreamsAdvance, StatesKept
<1>3. streambuf' = streambuf
  BY DEF StreamsAdvance, Advance
<1>4. StreamsKept'
  <2>1. CASE streambuf = "stream"
    BY <1>1, <1>3, <2>1
    DEF FilesInvariant, StreamsKept, StreamsAdvance, Advance, Lines, LinesRead
  <2>2. CASE streambuf # "stream"
    BY <1>1, <1>3, <2>2
    DEF FilesInvariant, StreamsKept, StreamsAdvance, Advance, Lines, LinesRead
  <2> QED
    BY <2>1, <2>2
<1>5. ResumesBehindInclude'
  <2>1. CASE streambuf = "stream"
    <3>1. states = <<>>
      BY <2>1 DEF FilesInvariant, StreamsKept
    <3>2. DOMAIN states = {}
      BY <3>1, EmptySequence, SequenceIn DEF FilesInvariant, StatesKept
    <3> QED
      BY <3>2 DEF StreamsAdvance, ResumesBehindInclude
  <2>2. CASE streambuf # "stream"
    <3>1. UNCHANGED <<project, read, filename, states>>
      BY <2>2 DEF StreamsAdvance, Advance
    <3> QED
      BY <3>1 DEF FilesInvariant, ResumesBehindInclude, Resumed, Inner
  <2> QED
    BY <2>1, <2>2
<1> QED
  BY <1>2, <1>4, <1>5 DEF FilesInvariant

LEMMA FilesInclude == FilesInvariant /\ Include => FilesInvariant'
<1> SUFFICES ASSUME FilesInvariant, Include PROVE FilesInvariant'
  OBVIOUS
<1>n. PICK n \in Nat : n = Len(states)
  BY DEF FilesInvariant, StatesKept, IsSequence
<1> DEFINE state == [streambuf |-> streambuf, line |-> line + 1, filename |-> filename,
                     conditional |-> conditional, streampos |-> Position,
                     conditionals |-> conditionals]
<1>1. /\ status = "running" /\ phase = "idle" /\ ~AtEof
      /\ CurrentLine.directive = "include" /\ IsIncluding /\ ~IsRefused
      /\ UNCHANGED <<project, phase>>
  BY DEF Include, At, replacement
<1>2. n < MaxNesting
  <2>1. n # MaxNesting
    BY <1>1, <1>n DEF IsRefused, IsTooDeep
  <2> QED
    BY <2>1, <1>n, NestingAssumption DEF FilesInvariant, StatesKept, IsSequence
<1>3. PICK opened \in Opened(CurrentLine.name, CurrentLine.form) :
        filename' = opened /\ file' = [name |-> opened, read |-> 0]
  BY DEF Include
<1>4. opened \in DOMAIN project /\ opened.name = CurrentLine.name
  BY <1>3, OpenedNamed
<1>5. states' = Append(states, state) /\ streambuf' = "file"
      /\ read' = IF streambuf = "stream" THEN read + 1 ELSE read
  BY DEF Include
<1>6. /\ IsSequence(states') /\ states' # <<>> /\ Len(states') = n + 1
      /\ \A i \in 1 .. n : states'[i] = states[i]
      /\ states'[n + 1] = state
  <2> HIDE DEF state
  <2> QED
    BY <1>5, <1>n, AppendSequence DEF FilesInvariant, StatesKept
<1>7. n \in Nat /\ DOMAIN states = 1 .. n /\ DOMAIN states' = 1 .. n + 1
      /\ (states = <<>> <=> n = 0)
  BY <1>6, <1>n, SequenceIn, EmptySequence DEF FilesInvariant, StatesKept, IsSequence
<1>8. filename \in DOMAIN project
  BY ProjectTyped DEF FilesInvariant, StreamsKept
<1>9. StatesKept'
  <2>1. ASSUME NEW i \in 1 .. n + 1 
        PROVE  /\ states'[i].filename \in DOMAIN project
               /\ states'[i].streambuf = IF i = 1 THEN "stream" ELSE "file"
    BY <1>6, <1>7, <1>8, <2>1 DEF FilesInvariant, StatesKept, StreamsKept
  <2> QED
    BY <1>1, <1>2, <1>6, <1>7, <2>1, NestingAssumption DEF StatesKept
<1>10. LinesRead + 1 \in DOMAIN Lines
  BY <1>1, LinesTyped
<1>11. StreamsKept'
  <2>1. read' \in 0 .. Len(project[Main])
    <3>1. CASE streambuf = "stream"
      BY <1>1, <1>5, <3>1, LinesTyped DEF FilesInvariant, StreamsKept, AtEof, Lines, LinesRead, IsSequence
    <3>2. CASE streambuf # "stream"
      BY <1>1, <1>5, <3>2 DEF FilesInvariant, StreamsKept
    <3> QED
      BY <3>1, <3>2
  <2>2. Len(project[opened]) \in Nat
    <3>1. IsSequence(project[opened])
      BY <1>4, ProjectTyped DEF FilesInvariant, StreamsKept
    <3> QED
      BY <3>1 DEF IsSequence
  <2>3. states'[1].filename = Main
    <3>1. CASE n = 0
      BY <1>6, <1>7, <3>1 DEF FilesInvariant, StreamsKept
    <3>2. CASE n # 0
      BY <1>6, <1>7, <3>2 DEF FilesInvariant, StreamsKept
    <3> QED
      BY <3>1, <3>2
  <2> QED
    BY <1>1, <1>3, <1>4, <1>5, <1>6, <2>1, <2>2, <2>3 DEF FilesInvariant, StreamsKept
<1>12. ResumesBehindInclude'
  <2>1. ASSUME NEW i \in 1 .. n
        PROVE  /\ Resumed(i)' = Resumed(i) /\ Inner(i)' = Inner(i)
               /\ states'[i] = states[i]
    <3>1. read' = read
      BY <1>5, <1>7, <2>1 DEF FilesInvariant, StreamsKept
    <3>2. states'[i] = states[i] /\ Resumed(i)' = Resumed(i)
      BY <1>6, <3>1 DEF Resumed
    <3>3. CASE i = n
      <4>1. Inner(i) = filename
        BY <1>n, <3>3 DEF Inner
      <4>2. Inner(i)' = states'[n + 1].filename
        BY <1>6, <3>3 DEF Inner
      <4> QED
        BY <1>6, <3>2, <4>1, <4>2
    <3>4. CASE i # n
      <4>1. i + 1 \in 1 .. n
        BY <3>4
      <4>2. Inner(i) = states[i + 1].filename
        BY <1>n, <3>4 DEF Inner
      <4>3. Inner(i)' = states'[i + 1].filename
        BY <1>6, <4>1 DEF Inner
      <4> QED
        BY <1>6, <3>2, <4>1, <4>2, <4>3
    <3> QED
      BY <3>3, <3>4
  <2>2. Inner(n + 1)' = opened
    BY <1>3, <1>6 DEF Inner
  <2>3. streambuf = "stream" <=> n = 0
    BY <1>7 DEF FilesInvariant, StreamsKept
  <2>4. project[Resumed(n + 1)'.name] = Lines /\ Resumed(n + 1)'.read = LinesRead + 1
    <3>1. CASE n = 0
      BY <1>5, <1>6, <2>3, <3>1 DEF Resumed, Lines, LinesRead
    <3>2. CASE n # 0
      BY <1>5, <1>6, <1>7, <2>3, <3>2 DEF Resumed, Lines, LinesRead, Position, FilesInvariant, StreamsKept
    <3> QED
      BY <3>1, <3>2
  <2>5. ASSUME NEW i \in 1 .. n + 1
        PROVE  LET lines == project'[Resumed(i)'.name] IN
                /\ states'[i].streambuf = "stream" <=> i = 1
                /\ states'[i].conditional \in {"including", "includingElse"}
                /\ \E k \in DOMAIN lines :
                    /\ k = Resumed(i)'.read
                    /\ lines[k].directive = "include" /\ lines[k].name = Inner(i)'.name
    <3>1. CASE i = n + 1
      BY <1>1, <1>4, <1>6, <1>7, <1>10, <2>2, <2>3, <2>4, <3>1 DEF CurrentLine, IsIncluding
    <3>2. CASE i \in 1 .. n
      BY <1>1, <1>7, <2>1, <3>2 DEF FilesInvariant, ResumesBehindInclude
    <3> QED
      BY <1>7, <2>5, <3>1, <3>2
  <2> QED
    BY <1>7, <2>5 DEF ResumesBehindInclude
<1> QED
  BY <1>9, <1>11, <1>12 DEF FilesInvariant

LEMMA FilesRestore == FilesInvariant /\ RestorePreviousState => FilesInvariant'
<1> SUFFICES ASSUME FilesInvariant, RestorePreviousState PROVE FilesInvariant'
  OBVIOUS
<1> DEFINE n == Len(states)
           state == states[n]
<1>1. /\ states # <<>> /\ states' = Front(states)
      /\ filename' = state.filename
      /\ file' = IF state.streambuf = "file"
                 THEN [name |-> state.filename, read |-> state.streampos] ELSE Closed
      /\ streambuf' = state.streambuf
      /\ UNCHANGED <<project, read, phase>> /\ phase = "idle"
  BY DEF RestorePreviousState, Last, replacement
<1>2. /\ n \in Nat \ {0} /\ IsSequence(states') /\ Len(states') = n - 1
      /\ \A i \in 1 .. n - 1 : states'[i] = states[i]
  BY <1>1, FrontSequence DEF FilesInvariant, StatesKept
<1>3. DOMAIN states = 1 .. n /\ DOMAIN states' = 1 .. n - 1
      /\ (states' = <<>> <=> n = 1)
  BY <1>2, SequenceIn, EmptySequence DEF FilesInvariant, StatesKept
<1>4. StatesKept'
  BY <1>1, <1>2, NestingAssumption DEF FilesInvariant, StatesKept
<1>5. /\ state.streambuf = "stream" <=> n = 1
      /\ state.streambuf = IF n = 1 THEN "stream" ELSE "file"
      /\ n # 1 => \E k \in DOMAIN project[state.filename] : k = state.streampos
  <2>1. n \in DOMAIN states
    BY <1>2, <1>3
  <2>2. /\ state.streambuf = "stream" <=> n = 1
        /\ \E k \in DOMAIN project[Resumed(n).name] : k = Resumed(n).read
    BY <2>1 DEF FilesInvariant, ResumesBehindInclude
  <2> QED
    BY <1>2, <2>2 DEF Resumed, FilesInvariant, StatesKept
<1>6. state.filename \in DOMAIN project
  BY <1>2 DEF FilesInvariant, StatesKept
<1>7. StreamsKept'
  <2>1. Main \in DOMAIN project /\ \A f \in DOMAIN project :
            /\ Len(project[f]) \in Nat
            /\ DOMAIN project[f] = 1 .. Len(project[f])
    BY ProjectTyped, SequenceIn DEF FilesInvariant, StreamsKept, IsSequence
  <2>2. n # 1 => state.streampos \in 0 .. Len(project[state.filename])
    BY <1>5, <1>6, <2>1
  <2>3. n = 1 => state.filename = Main
    BY <1>1 DEF FilesInvariant, StreamsKept
  <2>4. states' # <<>> => states'[1].filename = Main
    BY <1>1, <1>2, <1>3 DEF FilesInvariant, StreamsKept
  <2>5. CASE n = 1
    BY <1>1, <1>3, <1>5, <2>1, <2>3, <2>5 DEF FilesInvariant, StreamsKept, Closed
  <2>6. CASE n # 1
    BY <1>1, <1>3, <1>5, <1>6, <2>2, <2>4, <2>6 DEF FilesInvariant, StreamsKept
  <2> QED
    BY <2>5, <2>6
<1>8. ResumesBehindInclude'
  <2>1. ASSUME NEW i \in 1 .. n - 1
        PROVE  Resumed(i)' = Resumed(i) /\ Inner(i)' = Inner(i) /\ states'[i] = states[i]
    <3>1. states'[i] = states[i]
      BY <1>2
    <3>2. CASE i = n - 1
      BY <1>1, <1>2, <3>1, <3>2 DEF Resumed, Inner
    <3>3. CASE i # n - 1
      BY <1>1, <1>2, <2>1, <3>1, <3>3 DEF Resumed, Inner
    <3> QED
      BY <3>2, <3>3
  <2> QED
    BY <1>1, <1>2, <1>3, <2>1 DEF FilesInvariant, ResumesBehindInclude
<1> QED
  BY <1>4, <1>7, <1>8 DEF FilesInvariant

(* The positions that are kept while files are included are those behind the *)
(* #include directives that led to these files, although all these files are *)
(* read by one stream: for all files and any depth of inclusion              *)
(* (cpppreprocessor.cpp:506-527).                                            *)
THEOREM BehindInclude == Spec => []ResumesBehindInclude
<1>1. FilesInvariant /\ [Next]_vars => FilesInvariant'
  <2> SUFFICES ASSUME FilesInvariant, [Next]_vars PROVE FilesInvariant'
    OBVIOUS
  <2>1. StreamsStay \/ StreamsAdvance \/ Include \/ RestorePreviousState
    BY StreamSteps DEF FilesInvariant, StreamsKept
  <2> QED
    BY <2>1, FilesStay, FilesAdvance, FilesInclude, FilesRestore
<1>2. FilesInvariant => ResumesBehindInclude
  BY DEF FilesInvariant
<1> QED
  BY <1>1, <1>2, InitFiles, PTL DEF Spec


-----------------------------------------------------------------------------
(* Calls.                                                                    *)

IsExpand(s, i) == s[i].call = "expand"

IsReplace(s, i) == s[i].call = "replace"

(* The records of the calls.                                                 *)
Fields(call) ==
    CASE call = "expand" -> {"call", "buffer", "available", "expansion"}
      [] call = "replace" -> {"call", "macro"}
      [] call = "substitute" -> {"call", "macro", "arguments", "next", "list"}

(* Calls of Expand and of functions that call it alternate, and only the     *)
(* outermost of Expand found the lexer available.                            *)
WellFormed(s) ==
    /\ IsSequence(s)
    /\ \A i \in 1 .. Len(s) :
        /\ s[i].call \in {"expand", "replace", "substitute"}
        /\ DOMAIN s[i] = Fields(s[i].call)
        /\ IsExpand(s, i) <=> i > 1 /\ ~IsExpand(s, i - 1)
        /\ IsExpand(s, i) => (s[i].available <=> i = 2)

(* The macros that are being replaced.                                       *)
Marks(s) == {s[i].macro : i \in {i \in 1 .. Len(s) : IsReplace(s, i)}}

(* None of them is replaced or invoked once more.                            *)
Distinct(s) ==
    \A i, j \in 1 .. Len(s) :
        i < j /\ IsReplace(s, i) /\ ~IsExpand(s, j) => s[i].macro # s[j].macro

(* What is to be done next belongs to the innermost call.                    *)
PhaseOfTop ==
    /\ phase \in {"idle", "skip", "done"} => stack = <<>>
    /\ phase = "replace" /\ stack # <<>> => Top.call = "expand"
    /\ phase = "expand" => stack # <<>> /\ Top.call = "expand"
    /\ phase = "substitute" => stack # <<>> /\ Top.call = "substitute"

CallsInvariant ==
    /\ WellFormed(stack)
    /\ Distinct(stack)
    /\ replacing = Marks(stack)
    /\ available <=> Len(stack) < 2
    /\ PhaseOfTop

(* No macro is replaced while it is replaced, so that the assertion of       *)
(* Replace holds, and none is marked when a text has been replaced           *)
(* (cpppreprocessor.cpp:222-224).                                            *)
ReplacedOnce ==
    /\ phase = "substitute" => Top.macro \notin replacing
    /\ phase = "expand" /\ Caller.call = "replace" => Caller.macro \in replacing
    /\ stack = <<>> => replacing = {}

(* A call is made by the innermost one.                                      *)
LEMMA PushCall ==
    ASSUME NEW s, WellFormed(s), NEW e, DOMAIN e = Fields(e.call),
           \/ /\ e.call \in {"replace", "substitute"}
              /\ s = <<>> \/ Last(s).call = "expand"
           \/ /\ e.call = "expand" /\ (e.available <=> Len(s) = 1)
              /\ s # <<>> /\ Last(s).call # "expand"
    PROVE  WellFormed(Append(s, e))
<1> DEFINE t == Append(s, e)
           n == Len(s)
<1>1. /\ n \in Nat /\ IsSequence(t) /\ Len(t) = n + 1
      /\ \A i \in 1 .. n : t[i] = s[i]
      /\ t[n + 1] = e
  BY AppendSequence DEF WellFormed, IsSequence
<1>2. s = <<>> <=> n = 0
  BY EmptySequence DEF WellFormed
<1> HIDE DEF t
<1>3. IsExpand(t, n + 1) <=> n + 1 > 1 /\ ~IsExpand(t, n)
  BY <1>1, <1>2 DEF IsExpand, Last
<1>4. IsExpand(t, n + 1) => (e.available <=> n + 1 = 2)
  <2>1. IsExpand(t, n + 1) => (e.available <=> n = 1)
    BY <1>1, Zenon DEF IsExpand
  <2>2. \A k \in Nat : k = 1 <=> k + 1 = 2
    OBVIOUS
  <2> QED
    BY <1>1, <2>1, <2>2, Zenon
<1>5. e.call \in {"expand", "replace", "substitute"}
  OBVIOUS
<1>6. ASSUME NEW i \in 1 .. n + 1
      PROVE  /\ t[i].call \in {"expand", "replace", "substitute"}
             /\ DOMAIN t[i] = Fields(t[i].call)
             /\ IsExpand(t, i) <=> i > 1 /\ ~IsExpand(t, i - 1)
             /\ IsExpand(t, i) => (t[i].available <=> i = 2)
  <2>1. CASE i = n + 1
    BY <1>1, <1>3, <1>4, <1>5, <2>1
  <2>2. CASE i \in 1 .. n
    <3>1. t[i] = s[i] /\ (i > 1 => t[i - 1] = s[i - 1])
      BY <1>1, <2>2
    <3> QED
      BY <2>2, <3>1 DEF WellFormed, IsExpand
  <2> QED
    BY <1>1, <2>1, <2>2
<1>7. WellFormed(t)
  BY <1>1, <1>6 DEF WellFormed
<1> QED
  BY <1>7 DEF t

LEMMA MarkCall ==
    ASSUME NEW s, WellFormed(s), Distinct(s), NEW e,
           e.call \in {"expand", "replace", "substitute"},
           e.call # "expand" => e.macro \notin Marks(s)
    PROVE  /\ Distinct(Append(s, e))
           /\ Marks(Append(s, e)) = IF e.call = "replace" THEN Marks(s) \cup {e.macro} ELSE Marks(s)
<1> DEFINE t == Append(s, e)
           n == Len(s)
<1>1. /\ n \in Nat /\ Len(t) = n + 1
      /\ \A i \in 1 .. n : t[i] = s[i]
      /\ t[n + 1] = e
  BY AppendSequence DEF WellFormed, IsSequence
<1> HIDE DEF t
<1>2. Distinct(t)
  <2> SUFFICES ASSUME NEW i \in 1 .. n + 1, NEW j \in 1 .. n + 1,
                      i < j, IsReplace(t, i), ~IsExpand(t, j)
               PROVE  t[i].macro # t[j].macro
    BY <1>1 DEF Distinct
  <2>1. i \in 1 .. n /\ t[i] = s[i] /\ IsReplace(s, i)
    BY <1>1 DEF IsReplace
  <2>2. CASE j = n + 1
    <3>1. s[i].macro \in Marks(s)
      BY <2>1 DEF Marks
    <3> QED
      BY <1>1, <2>1, <2>2, <3>1 DEF IsExpand
  <2>3. CASE j \in 1 .. n
    <3>1. t[j] = s[j] /\ ~IsExpand(s, j)
      BY <1>1, <2>3 DEF IsExpand
    <3> QED
      BY <2>1, <2>3, <3>1 DEF Distinct
  <2> QED
    BY <1>1, <2>2, <2>3
<1>3. ASSUME NEW i \in 1 .. n
      PROVE  t[i] = s[i] /\ (IsReplace(t, i) <=> IsReplace(s, i))
  BY <1>1 DEF IsReplace
<1>4. IsReplace(t, n + 1) <=> e.call = "replace"
  BY <1>1 DEF IsReplace
<1>5. Marks(s) \subseteq Marks(t)
  BY <1>1, <1>3 DEF Marks
<1>6. e.call = "replace" => e.macro \in Marks(t)
  <2>1. n + 1 \in 1 .. Len(t)
    BY <1>1
  <2> QED
    BY <1>1, <1>4, <2>1 DEF Marks
<1>7. ASSUME NEW m \in Marks(t)
      PROVE  m \in Marks(s) \/ (e.call = "replace" /\ m = e.macro)
  <2>1. PICK i \in 1 .. n + 1 : IsReplace(t, i) /\ m = t[i].macro
    BY <1>1 DEF Marks
  <2>2. CASE i = n + 1
    BY <1>1, <1>4, <2>1, <2>2
  <2>3. CASE i \in 1 .. n
    BY <1>3, <2>1, <2>3 DEF Marks
  <2> QED
    BY <1>1, <2>2, <2>3
<1>8. Marks(t) = IF e.call = "replace" THEN Marks(s) \cup {e.macro} ELSE Marks(s)
  BY <1>5, <1>6, <1>7
<1> QED
  BY <1>2, <1>8 DEF t

(* Calls return.                                                             *)
LEMMA PopCalls ==
    ASSUME NEW s, WellFormed(s), Distinct(s), NEW n \in 0 .. Len(s)
    PROVE  /\ WellFormed(SubSeq(s, 1, n))
           /\ Distinct(SubSeq(s, 1, n))
           /\ Len(SubSeq(s, 1, n)) = n
           /\ Marks(s) = Marks(SubSeq(s, 1, n))
                            \cup {s[i].macro : i \in {i \in n + 1 .. Len(s) : IsReplace(s, i)}}
<1> DEFINE t == SubSeq(s, 1, n)
<1>1. /\ Len(s) \in Nat /\ IsSequence(t) /\ Len(t) = n
      /\ \A i \in 1 .. n : t[i] = s[i]
  BY BeginningOfSequence DEF WellFormed, IsSequence
<1> HIDE DEF t
<1>2. \A i \in 1 .. n : /\ i \in 1 .. Len(s)
                        /\ i > 1 => i - 1 \in 1 .. n
  BY <1>1
<1>3. WellFormed(t)
  BY <1>1, <1>2 DEF WellFormed, IsExpand
<1>4. Distinct(t)
  BY <1>1, <1>2 DEF Distinct, IsExpand, IsReplace
<1>5. ASSUME NEW m
      PROVE  m \in Marks(s) <=>
                \/ m \in Marks(t)
                \/ m \in {s[i].macro : i \in {i \in n + 1 .. Len(s) : IsReplace(s, i)}}
  <2>1. m \in Marks(t) <=> \E i \in 1 .. n : IsReplace(s, i) /\ m = s[i].macro
    BY <1>1 DEF Marks, IsReplace
  <2>2. \A i : i \in 1 .. Len(s) <=> i \in 1 .. n \/ i \in n + 1 .. Len(s)
    BY <1>1
  <2> QED
    BY <2>1, <2>2 DEF Marks
<1> QED
  BY <1>1, <1>3, <1>4, <1>5 DEF t

(* The innermost call goes on.                                               *)
LEMMA ChangeTop ==
    ASSUME NEW s, WellFormed(s), Distinct(s), s # <<>>,
           NEW e, e.call = Last(s).call, DOMAIN e = DOMAIN Last(s),
           e.call = "expand" => e.available = Last(s).available,
           e.call # "expand" => e.macro = Last(s).macro
    PROVE  LET t == [s EXCEPT ![Len(s)] = e] IN
            /\ WellFormed(t) /\ Distinct(t) /\ Marks(t) = Marks(s)
            /\ Len(t) = Len(s) /\ t # <<>> /\ Last(t) = e
<1> DEFINE n == Len(s)
           t == [s EXCEPT ![n] = e]
           S == {s[i] : i \in 1 .. n} \cup {e}
<1>1. n \in Nat \ {0} /\ IsSequence(s)
  BY FrontSequence DEF WellFormed
<1>2. /\ IsSequence(t) /\ Len(t) = n
      /\ \A i \in 1 .. n : t[i] = IF i = n THEN e ELSE s[i]
  <2>1. s \in Seq(S)
    <3> DEFINE T == {s[i] : i \in 1 .. n}
    <3>1. s \in Seq(T) /\ T \subseteq S
      BY <1>1, SequenceIn
    <3> HIDE DEF T, S
    <3> QED
      BY <3>1, SeqMonotonic
  <2>2. e \in S /\ n \in 1 .. Len(s)
    BY <1>1
  <2> HIDE DEF S
  <2>3. /\ t \in Seq(S) /\ Len(t) = n
        /\ \A i \in 1 .. n : t[i] = IF i = n THEN e ELSE s[i]
    BY <2>1, <2>2, ExceptSeq
  <2> QED
    BY <2>3, SequenceOf
<1> HIDE DEF t
<1>3. e.call = s[n].call /\ DOMAIN e = DOMAIN s[n]
      /\ (e.call = "expand" => e.available = s[n].available)
      /\ (e.call # "expand" => e.macro = s[n].macro)
  BY DEF Last
<1>4. ASSUME NEW i \in 1 .. n
      PROVE  /\ t[i].call = s[i].call /\ DOMAIN t[i] = DOMAIN s[i]
             /\ IsExpand(t, i) <=> IsExpand(s, i)
             /\ IsReplace(t, i) <=> IsReplace(s, i)
             /\ IsExpand(s, i) => t[i].available = s[i].available
             /\ ~IsExpand(s, i) => t[i].macro = s[i].macro
  BY <1>2, <1>3 DEF IsExpand, IsReplace
<1>5. WellFormed(t)
  <2> SUFFICES ASSUME NEW i \in 1 .. n
               PROVE  /\ t[i].call \in {"expand", "replace", "substitute"}
                      /\ DOMAIN t[i] = Fields(t[i].call)
                      /\ IsExpand(t, i) <=> i > 1 /\ ~IsExpand(t, i - 1)
                      /\ IsExpand(t, i) => (t[i].available <=> i = 2)
    BY <1>2 DEF WellFormed
  <2>1. i > 1 => (IsExpand(t, i - 1) <=> IsExpand(s, i - 1))
    BY <1>1, <1>4
  <2> QED
    BY <1>4, <2>1 DEF WellFormed
<1>6. Distinct(t)
  <2>1. \A i \in 1 .. n : IsReplace(s, i) => ~IsExpand(s, i)
    BY DEF IsReplace, IsExpand
  <2> QED
    BY <1>2, <1>4, <2>1 DEF Distinct
<1>7. Marks(t) = Marks(s)
  <2>1. \A i \in 1 .. n : IsReplace(s, i) => ~IsExpand(s, i)
    BY DEF IsReplace, IsExpand
  <2> QED
    BY <1>2, <1>4, <2>1 DEF Marks
<1>8. t # <<>> /\ Last(t) = e
  BY <1>1, <1>2, EmptySequence DEF Last
<1> QED
  BY <1>2, <1>5, <1>6, <1>7, <1>8 DEF t

-----------------------------------------------------------------------------
(* Steps of macro replacement.                                               *)

LEMMA TopOfCalls ==
    ASSUME NEW s, WellFormed(s), s # <<>>
    PROVE  /\ Len(s) \in Nat \ {0}
           /\ DOMAIN s[Len(s)] = Fields(s[Len(s)].call)
           /\ s[Len(s)].call \in {"expand", "replace", "substitute"}
           /\ s[Len(s)].call = "expand" =>
                /\ Len(s) >= 2 /\ Len(s) # 3
                /\ s[Len(s)].available <=> Len(s) = 2
                /\ s[Len(s) - 1].call \in {"replace", "substitute"}
                /\ Len(s) > 2 => s[Len(s) - 2].call = "expand"
           /\ s[Len(s)].call # "expand" =>
                Len(s) # 2 /\ (Len(s) > 1 => s[Len(s) - 1].call = "expand")
<1> DEFINE n == Len(s)
<1>1. n \in Nat \ {0} /\ n \in 1 .. n
  <2>1. n \in Nat \ {0}
    BY FrontSequence DEF WellFormed
  <2> HIDE DEF n
  <2> QED
    BY <2>1
<1>2. \A i \in 1 .. n :
        /\ s[i].call \in {"expand", "replace", "substitute"}
        /\ s[i].call = "expand" <=> i > 1 /\ s[i - 1].call # "expand"
  BY Zenon DEF WellFormed, IsExpand
<1>3. DOMAIN s[n] = Fields(s[n].call) /\ (s[n].call = "expand" => (s[n].available <=> n = 2))
  BY <1>1, Zenon DEF WellFormed, IsExpand
<1>4. s[1].call # "expand" /\ (n >= 2 => s[2].call = "expand") /\ (n >= 3 => s[3].call # "expand")
  <2>1. 1 \in 1 .. n /\ (n >= 2 => 2 \in 1 .. n) /\ (n >= 3 => 3 \in 1 .. n)
    BY <1>1
  <2>2. s[1].call # "expand"
    BY <1>2, <2>1
  <2>3. ASSUME n >= 2 PROVE s[2].call = "expand"
    <3>1. s[2].call = "expand" <=> s[2 - 1].call # "expand"
      BY <1>2, <2>1, <2>3
    <3>2. 2 - 1 = 1
      OBVIOUS
    <3> QED
      BY <2>2, <3>1, <3>2
  <2>4. ASSUME n >= 3 PROVE s[3].call # "expand"
    <3>1. s[3].call = "expand" <=> s[3 - 1].call # "expand"
      BY <1>2, <2>1, <2>4
    <3>2. 3 - 1 = 2 /\ n >= 2
      BY <1>1, <2>4
    <3> QED
      BY <2>3, <3>1, <3>2
  <2> QED
    BY <2>2, <2>3, <2>4
<1>5. s[n].call = "expand" =>
        /\ n >= 2 /\ n # 3
        /\ s[n - 1].call \in {"replace", "substitute"}
        /\ n > 2 => s[n - 2].call = "expand"
  <2> SUFFICES ASSUME s[n].call = "expand"
               PROVE  /\ n >= 2 /\ n # 3
                      /\ s[n - 1].call \in {"replace", "substitute"}
                      /\ n > 2 => s[n - 2].call = "expand"
    OBVIOUS
  <2> HIDE DEF n
  <2>1. n >= 2 /\ n # 3 /\ s[n - 1].call # "expand"
    <3>1. n > 1 /\ s[n - 1].call # "expand"
      BY <1>1, <1>2
    <3>2. n # 3
      BY <1>4
    <3> QED
      BY <1>1, <3>1, <3>2
  <2>2. n - 1 \in 1 .. n
    BY <1>1, <2>1
  <2>3. s[n - 1].call = "expand" <=> n - 1 > 1 /\ s[n - 1 - 1].call # "expand"
    BY <1>2, <2>2
  <2>4. n > 2 => s[n - 1 - 1].call = "expand"
    BY <1>1, <2>1, <2>3
  <2> QED
    BY <1>1, <1>2, <2>1, <2>2, <2>4
<1>6. s[n].call # "expand" => n # 2 /\ (n > 1 => s[n - 1].call = "expand")
  <2> HIDE DEF n
  <2>1. s[n].call # "expand" /\ n > 1 => s[n - 1].call = "expand"
    BY <1>1, <1>2
  <2>2. s[n].call # "expand" => n # 2
    BY <1>4
  <2> QED
    BY <2>1, <2>2
<1> QED
  BY <1>1, <1>2, <1>3, <1>5, <1>6, Zenon

(* The call of Expand for a list.                                            *)
LEMMA EnterKeeps ==
    ASSUME NEW below, NEW list, Enter(below, list),
           WellFormed(below), Distinct(below), replacing' = Marks(below),
           below # <<>>, Last(below).call # "expand", available <=> Len(below) = 1
    PROVE  CallsInvariant'
<1> DEFINE e == [call |-> "expand", buffer |-> tokens, available |-> available, expansion |-> <<>>]
<1>1. /\ stack' = Append(below, e) /\ available' = FALSE
      /\ phase' \in {"aborted", "failed", "expand"}
  BY DEF Enter
<1>2. e.call = "expand" /\ e.available = available /\ DOMAIN e = Fields(e.call)
  BY DEF Fields
<1> HIDE DEF e
<1>3. WellFormed(stack')
  BY <1>1, <1>2, PushCall
<1>4. Distinct(stack') /\ Marks(stack') = Marks(below)
  BY <1>1, <1>2, MarkCall
<1>5. /\ stack' # <<>> /\ Last(stack') = e
      /\ Len(stack') = Len(below) + 1 /\ Len(below) \in Nat \ {0}
  BY <1>1, AppendSequence, FrontSequence DEF WellFormed, Last
<1>6. PhaseOfTop'
  BY <1>1, <1>2, <1>5 DEF PhaseOfTop, Top
<1> QED
  BY <1>1, <1>3, <1>4, <1>5, <1>6 DEF CallsInvariant

(* A token is passed on by SkipCurrent or added to an expansion.             *)
LEMMA PassKeeps ==
    ASSUME CallsInvariant, phase = "replace", UNCHANGED <<available, replacing>>,
           NEW token, Replaced \/ NotReplaced(token)
    PROVE  CallsInvariant' /\ (stack # <<>> => returned' = returned)
<1>1. CASE stack = <<>>
  BY <1>1 DEF Replaced, NotReplaced, CallsInvariant, PhaseOfTop
<1>2. CASE stack # <<>> /\ stack' = stack
  BY <1>2 DEF Replaced, NotReplaced, CallsInvariant, PhaseOfTop, Top
<1>3. CASE stack # <<>> /\ stack' # stack
  <2> DEFINE n == Len(stack)
             e == [stack[n] EXCEPT !.expansion = Append(@, token)]
  <2>1. /\ stack' = [stack EXCEPT ![n] = e] /\ phase' = "expand" /\ returned' = returned
    BY <1>3 DEF Replaced, NotReplaced
  <2>2. Top.call = "expand" /\ Top = stack[n] /\ DOMAIN Top = Fields("expand")
    BY <1>3, TopOfCalls DEF CallsInvariant, PhaseOfTop, Top, Last
  <2>3. e.call = "expand" /\ e.available = Top.available /\ DOMAIN e = DOMAIN Top
    BY <2>2 DEF Fields
  <2> HIDE DEF e
  <2>4. /\ WellFormed(stack') /\ Distinct(stack') /\ Marks(stack') = Marks(stack)
        /\ Len(stack') = Len(stack) /\ stack' # <<>> /\ Last(stack') = e
    BY <1>3, <2>1, <2>2, <2>3, ChangeTop DEF CallsInvariant, Top
  <2>5. PhaseOfTop'
    BY <2>1, <2>3, <2>4 DEF PhaseOfTop, Top
  <2> QED
    BY <2>1, <2>4, <2>5 DEF CallsInvariant
<1> QED
  BY <1>1, <1>2, <1>3

LEMMA ReplaceObjectLikeKeeps ==
    ASSUME CallsInvariant, ReplaceObjectLike
    PROVE  CallsInvariant'
<1> DEFINE e == [call |-> "replace", macro |-> current.name]
           below == Append(stack, e)
<1>1. /\ phase = "replace" /\ current.name \notin replacing
      /\ replacing' = replacing \cup {current.name}
      /\ Enter(below, Tokens(Macro.replacementList))
  BY DEF ReplaceObjectLike, IsReplaceable
<1>2. e.call = "replace" /\ e.macro = current.name /\ DOMAIN e = Fields(e.call)
  BY DEF Fields
<1> HIDE DEF e
<1>3. stack = <<>> \/ Last(stack).call = "expand"
  BY <1>1 DEF CallsInvariant, PhaseOfTop, Top
<1>4. WellFormed(below)
  BY <1>2, <1>3, PushCall DEF CallsInvariant
<1>5. Distinct(below) /\ Marks(below) = replacing'
  BY <1>1, <1>2, MarkCall DEF CallsInvariant
<1>6. below # <<>> /\ Last(below) = e /\ Len(below) = Len(stack) + 1 /\ Len(stack) \in Nat
  BY AppendSequence DEF CallsInvariant, WellFormed, Last, IsSequence
<1>7. Len(stack) < 2 <=> Len(below) = 1
  <2>1. CASE stack = <<>>
    BY <1>6, <2>1, EmptySequence DEF CallsInvariant, WellFormed
  <2>2. CASE stack # <<>>
    <3>1. Len(stack) >= 2
      BY <1>3, <2>2, TopOfCalls DEF CallsInvariant, Last
    <3> HIDE DEF below
    <3> QED
      BY <1>6, <3>1
  <2> QED
    BY <2>1, <2>2
<1> HIDE DEF below
<1>8. available <=> Len(below) = 1
  BY <1>7, Zenon DEF CallsInvariant
<1> QED
  BY <1>1, <1>2, <1>4, <1>5, <1>6, <1>8, EnterKeeps

LEMMA ExpandArgumentKeeps ==
    ASSUME CallsInvariant, ExpandArgument
    PROVE  CallsInvariant'
<1>1. PICK argument \in Argument : Enter(stack, argument)
  BY DEF ExpandArgument
<1>2. phase = "substitute" /\ replacing' = Marks(stack)
  BY DEF ExpandArgument, InLoop, CallsInvariant
<1>3. stack # <<>> /\ Last(stack).call = "substitute"
  BY <1>2 DEF CallsInvariant, PhaseOfTop, Top
<1>4. Len(stack) \in Nat \ {0} /\ Len(stack) # 2
  BY <1>3, TopOfCalls DEF CallsInvariant, Last
<1>5. Len(stack) < 2 <=> Len(stack) = 1
  <2>1. \A k \in Nat \ {0} : k < 2 <=> k = 1
    OBVIOUS
  <2> QED
    BY <1>4, <2>1
<1>6. available <=> Len(stack) = 1
  BY <1>5, Zenon DEF CallsInvariant
<1> QED
  BY <1>1, <1>2, <1>3, <1>6, EnterKeeps DEF CallsInvariant

LEMMA ReplaceInvocationKeeps ==
    ASSUME CallsInvariant, ReplaceInvocation
    PROVE  CallsInvariant' /\ Top.macro \notin replacing
<1> DEFINE n == Len(stack)
           front == Front(stack)
           e == [call |-> "replace", macro |-> Top.macro]
           below == Append(front, e)
<1>1. /\ phase = "substitute" /\ replacing' = replacing \cup {Top.macro}
      /\ Enter(below, Top.list)
  BY DEF ReplaceInvocation
<1>2. stack # <<>> /\ Top = stack[n] /\ Top.call = "substitute"
  BY <1>1 DEF CallsInvariant, PhaseOfTop, Top, Last
<1>3. /\ n \in Nat \ {0} /\ n # 2
      /\ n > 1 => stack[n - 1].call = "expand"
  BY <1>2, TopOfCalls DEF CallsInvariant
<1>4. /\ IsSequence(front) /\ Len(front) = n - 1
      /\ \A i \in 1 .. n - 1 : front[i] = stack[i]
  BY <1>2, FrontSequence DEF CallsInvariant, WellFormed
<1>5. WellFormed(front) /\ Distinct(front) /\ Marks(front) = replacing
  <2>1. front = SubSeq(stack, 1, n - 1) /\ n - 1 \in 0 .. n
    BY <1>3 DEF Front
  <2>2. {stack[i].macro : i \in {i \in n - 1 + 1 .. n : IsReplace(stack, i)}} = {}
    <3>1. \A i : i \in n - 1 + 1 .. n <=> i = n
      BY <1>3
    <3> QED
      BY <1>2, <3>1 DEF IsReplace
  <2>3. Marks(stack) = Marks(front)
    <3>1. Marks(stack) = Marks(SubSeq(stack, 1, n - 1))
            \cup {stack[i].macro : i \in {i \in n - 1 + 1 .. Len(stack) : IsReplace(stack, i)}}
      BY <2>1, PopCalls DEF CallsInvariant
    <3> QED
      BY <2>1, <2>2, <3>1
  <2> QED
    BY <2>1, <2>3, PopCalls DEF CallsInvariant
<1> HIDE DEF front
<1>6. Top.macro \notin replacing
  <2> SUFFICES ASSUME Top.macro \in Marks(front) PROVE FALSE
    BY <1>5
  <2>1. PICK i \in 1 .. n - 1 : IsReplace(front, i) /\ front[i].macro = Top.macro
    BY <1>4 DEF Marks
  <2>2. /\ i \in 1 .. n /\ n \in 1 .. n /\ i < n
        /\ IsReplace(stack, i) /\ ~IsExpand(stack, n) /\ stack[i].macro = stack[n].macro
    BY <1>2, <1>3, <1>4, <2>1 DEF IsReplace, IsExpand
  <2> QED
    BY <2>2 DEF CallsInvariant, Distinct
<1>7. e.call = "replace" /\ e.macro = Top.macro /\ DOMAIN e = Fields(e.call)
  BY DEF Fields
<1>8. front = <<>> \/ Last(front).call = "expand"
  <2>1. CASE n = 1
    BY <1>4, <2>1, EmptySequence
  <2>2. CASE n > 1
    <3>1. n - 1 \in 1 .. n - 1
      BY <1>3, <2>2
    <3>2. Last(front) = stack[n - 1]
      BY <1>4, <3>1 DEF Last
    <3> QED
      BY <1>3, <2>2, <3>2
  <2>3. n = 1 \/ n > 1
    <3>1. \A k \in Nat \ {0} : k = 1 \/ k > 1
      OBVIOUS
    <3> QED
      BY <1>3, <3>1
  <2> QED
    BY <2>1, <2>2, <2>3
<1> HIDE DEF e
<1>9. WellFormed(below)
  BY <1>5, <1>7, <1>8, PushCall
<1>10. Distinct(below) /\ Marks(below) = replacing'
  BY <1>1, <1>5, <1>6, <1>7, MarkCall
<1>11. below # <<>> /\ Last(below) = e /\ Len(below) = n
  BY <1>3, <1>4, AppendSequence DEF Last
<1> HIDE DEF below
<1>12. n < 2 <=> Len(below) = 1
  BY <1>3, <1>11
<1>13. available <=> Len(below) = 1
  BY <1>12, Zenon DEF CallsInvariant
<1> QED
  BY <1>1, <1>6, <1>7, <1>9, <1>10, <1>11, <1>13, EnterKeeps

LEMMA ReplaceFunctionLikeKeeps ==
    ASSUME CallsInvariant, ReplaceFunctionLike
    PROVE  CallsInvariant'
<1>1. PICK i \in Closing(Tail(Upcoming)) :
        stack' = Append(stack, [call |-> "substitute", macro |-> current.name,
                                arguments |-> Split(Macro, SubSeq(Upcoming, 2, i)),
                                next |-> 1, list |-> <<>>])
  BY DEF ReplaceFunctionLike
<1> DEFINE e == [call |-> "substitute", macro |-> current.name,
                 arguments |-> Split(Macro, SubSeq(Upcoming, 2, i)), next |-> 1, list |-> <<>>]
<1>2. /\ phase = "replace" /\ phase' = "substitute" /\ stack' = Append(stack, e)
      /\ current.name \notin replacing /\ UNCHANGED <<available, replacing>>
  BY <1>1 DEF ReplaceFunctionLike, IsReplaceable
<1>3. e.call = "substitute" /\ e.macro = current.name /\ DOMAIN e = Fields(e.call)
  BY DEF Fields
<1> HIDE DEF e
<1>4. stack = <<>> \/ Last(stack).call = "expand"
  BY <1>2 DEF CallsInvariant, PhaseOfTop, Top
<1>5. WellFormed(stack')
  BY <1>2, <1>3, <1>4, PushCall DEF CallsInvariant
<1>6. Distinct(stack') /\ Marks(stack') = replacing'
  BY <1>2, <1>3, MarkCall DEF CallsInvariant
<1>7. stack' # <<>> /\ Last(stack') = e /\ Len(stack') = Len(stack) + 1 /\ Len(stack) \in Nat
  BY <1>2, AppendSequence DEF CallsInvariant, WellFormed, Last, IsSequence
<1>8. PhaseOfTop'
  BY <1>2, <1>3, <1>7 DEF PhaseOfTop, Top
<1>9. Len(stack) < 2 <=> Len(stack') < 2
  <2>1. CASE stack = <<>>
    BY <1>7, <2>1, EmptySequence DEF CallsInvariant, WellFormed
  <2>2. CASE stack # <<>>
    BY <1>4, <1>7, <2>2, TopOfCalls DEF CallsInvariant, Last
  <2> QED
    BY <2>1, <2>2
<1>10. available' <=> Len(stack') < 2
  BY <1>2, <1>9, Zenon DEF CallsInvariant
<1> QED
  BY <1>2, <1>5, <1>6, <1>8, <1>10, Zenon DEF CallsInvariant

LEMMA SubstituteKeeps ==
    ASSUME CallsInvariant, Substitute
    PROVE  CallsInvariant'
<1> DEFINE n == Len(stack)
<1>1. PICK list \in Inserted :
        stack' = [stack EXCEPT ![Len(stack)].list = list, ![Len(stack)].next = @ + 1]
  BY DEF Substitute
<1>2. phase = "substitute" /\ UNCHANGED <<available, replacing, phase>>
  BY DEF Substitute, InLoop, reading
<1>3. stack # <<>> /\ Top = stack[n] /\ Top.call = "substitute"
  BY <1>2 DEF CallsInvariant, PhaseOfTop, Top, Last
<1>4. n \in Nat \ {0} /\ DOMAIN Top = Fields("substitute") /\ DOMAIN stack = 1 .. n
  BY <1>3, TopOfCalls, SequenceIn DEF CallsInvariant, WellFormed
<1> DEFINE e == [stack[n] EXCEPT !.list = list, !.next = @ + 1]
<1>5. stack' = [stack EXCEPT ![n] = e]
  BY <1>1, <1>4
<1>6. e.call = "substitute" /\ e.macro = Top.macro /\ DOMAIN e = DOMAIN Top
  BY <1>3, <1>4 DEF Fields
<1> HIDE DEF e
<1>7. /\ WellFormed(stack') /\ Distinct(stack') /\ Marks(stack') = Marks(stack)
      /\ Len(stack') = Len(stack) /\ stack' # <<>> /\ Last(stack') = e
  BY <1>3, <1>5, <1>6, ChangeTop DEF CallsInvariant, Top
<1>8. PhaseOfTop'
  BY <1>2, <1>6, <1>7 DEF PhaseOfTop, Top
<1> QED
  BY <1>2, <1>7, <1>8 DEF CallsInvariant

(* Expand returns to its caller.                                             *)
LEMMA CallerOfExpand ==
    ASSUME CallsInvariant, NEW call, Leave(call)
    PROVE  /\ phase = "expand" /\ stack # <<>> /\ Top.call = "expand"
           /\ Len(stack) \in Nat /\ Len(stack) >= 2 /\ Len(stack) # 3
           /\ Top = stack[Len(stack)] /\ Caller = stack[Len(stack) - 1]
           /\ Caller.call = call /\ call \in {"replace", "substitute"}
           /\ DOMAIN Caller = Fields(call)
           /\ Len(stack) > 2 => stack[Len(stack) - 2].call = "expand"
           /\ available' <=> Len(stack) = 2
           /\ UNCHANGED <<source, returned>>
<1>1. /\ phase = "expand" /\ Caller.call = call /\ available' = Top.available
      /\ UNCHANGED <<source, returned>>
  BY DEF Leave
<1>2. stack # <<>> /\ Top.call = "expand" /\ Top = stack[Len(stack)]
  BY <1>1 DEF CallsInvariant, PhaseOfTop, Top, Last
<1>3. /\ Len(stack) \in Nat /\ Len(stack) >= 2 /\ Len(stack) # 3
      /\ stack[Len(stack) - 1].call \in {"replace", "substitute"}
      /\ Len(stack) > 2 => stack[Len(stack) - 2].call = "expand"
  BY <1>2, TopOfCalls DEF CallsInvariant
<1>4. stack[Len(stack)].available <=> Len(stack) = 2
  BY <1>2, TopOfCalls, Zenon DEF CallsInvariant
<1>5. DOMAIN Caller = Fields(call)
  BY <1>1, <1>3 DEF CallsInvariant, WellFormed, Caller
<1>6. available' <=> Len(stack) = 2
  BY <1>1, <1>2, <1>4, Zenon
<1> QED
  BY <1>1, <1>2, <1>3, <1>5, <1>6 DEF Caller

LEMMA ReturnReplacementKeeps ==
    ASSUME CallsInvariant, ReturnReplacement
    PROVE  CallsInvariant' /\ Caller.macro \in replacing
<1>n. PICK n \in Nat : n = Len(stack)
  BY DEF CallsInvariant, WellFormed, IsSequence
<1>1. /\ Leave("replace") /\ replacing' = replacing \ {Caller.macro}
      /\ stack' = SubSeq(stack, 1, n - 2)
      /\ phase' = IF n = 2 THEN "skip" ELSE "expand"
  BY <1>n DEF ReturnReplacement, Released
<1>2. /\ n >= 2 /\ n # 3 /\ Top = stack[n] /\ Caller = stack[n - 1]
      /\ Top.call = "expand" /\ Caller.call = "replace"
      /\ n > 2 => stack[n - 2].call = "expand"
      /\ available' <=> n = 2
  BY <1>1, <1>n, CallerOfExpand
<1>3. n - 2 \in 0 .. n
  BY <1>2
<1>4. /\ WellFormed(stack') /\ Distinct(stack') /\ Len(stack') = n - 2
      /\ replacing = Marks(stack')
            \cup {stack[i].macro : i \in {i \in n - 2 + 1 .. n : IsReplace(stack, i)}}
      /\ IsSequence(stack')
      /\ \A i \in 1 .. n - 2 : stack'[i] = stack[i]
  <2>1. /\ IsSequence(stack')
        /\ \A i \in 1 .. n - 2 : stack'[i] = stack[i]
    BY <1>1, <1>3, <1>n, BeginningOfSequence DEF CallsInvariant, WellFormed
  <2> QED
    BY <1>1, <1>3, <1>n, <2>1, PopCalls DEF CallsInvariant
<1>5. {stack[i].macro : i \in {i \in n - 2 + 1 .. n : IsReplace(stack, i)}} = {Caller.macro}
  <2>1. \A i : i \in n - 2 + 1 .. n <=> i = n - 1 \/ i = n
    BY <1>2
  <2>2. IsReplace(stack, n - 1) /\ ~IsReplace(stack, n)
    BY <1>2 DEF IsReplace
  <2> QED
    BY <1>2, <2>1, <2>2
<1>6. Caller.macro \notin Marks(stack')
  <2> SUFFICES ASSUME Caller.macro \in Marks(stack') PROVE FALSE
    OBVIOUS
  <2>1. PICK i \in 1 .. n - 2 : IsReplace(stack', i) /\ stack'[i].macro = Caller.macro
    BY <1>4 DEF Marks
  <2>2. /\ i \in 1 .. n /\ n - 1 \in 1 .. n /\ i < n - 1
        /\ IsReplace(stack, i) /\ stack[i].macro = stack[n - 1].macro
        /\ ~IsExpand(stack, n - 1)
    BY <1>2, <1>4, <2>1 DEF IsReplace, IsExpand
  <2> QED
    BY <1>n, <2>2 DEF CallsInvariant, Distinct
<1>7. replacing' = Marks(stack') /\ Caller.macro \in replacing
  BY <1>1, <1>4, <1>5, <1>6
<1>8. n - 2 < 2 <=> n = 2
  BY <1>2
<1>9. available' <=> Len(stack') < 2
  BY <1>2, <1>4, <1>8, Zenon
<1>10. PhaseOfTop'
  <2>1. CASE n = 2
    BY <1>1, <1>4, <2>1, EmptySequence DEF PhaseOfTop
  <2>2. CASE n # 2
    <3>1. n - 2 \in 1 .. n - 2 /\ n > 2 /\ n - 2 # 0
      BY <1>2, <2>2
    <3>2. Last(stack') = stack[n - 2] /\ stack' # <<>>
      BY <1>4, <3>1, EmptySequence DEF Last
    <3> QED
      BY <1>1, <1>2, <2>2, <3>1, <3>2 DEF PhaseOfTop, Top
  <2> QED
    BY <2>1, <2>2
<1> QED
  BY <1>4, <1>7, <1>9, <1>10, Zenon DEF CallsInvariant

LEMMA ReturnArgumentKeeps ==
    ASSUME CallsInvariant, ReturnArgument
    PROVE  CallsInvariant'
<1>n. PICK n \in Nat : n = Len(stack)
  BY DEF CallsInvariant, WellFormed, IsSequence
<1> DEFINE below == SubSeq(stack, 1, n - 2)
           e == [Caller EXCEPT !.list = @ \o Top.expansion, !.next = @ + 1]
<1>1. /\ Leave("substitute") /\ replacing' = replacing /\ phase' = "substitute"
      /\ stack' = Append(below, e)
  BY <1>n DEF ReturnArgument
<1>2. /\ n >= 2 /\ n # 3 /\ Top = stack[n] /\ Caller = stack[n - 1]
      /\ Top.call = "expand" /\ Caller.call = "substitute"
      /\ DOMAIN Caller = Fields("substitute")
      /\ n > 2 => stack[n - 2].call = "expand"
      /\ available' <=> n = 2
  BY <1>1, <1>n, CallerOfExpand
<1>3. n - 2 \in 0 .. n
  BY <1>2
<1>4. /\ WellFormed(below) /\ Distinct(below) /\ Len(below) = n - 2
      /\ IsSequence(below)
      /\ \A i \in 1 .. n - 2 : below[i] = stack[i]
  <2>1. /\ IsSequence(below)
        /\ \A i \in 1 .. n - 2 : below[i] = stack[i]
    BY <1>3, <1>n, BeginningOfSequence DEF CallsInvariant, WellFormed
  <2> QED
    BY <1>3, <1>n, <2>1, PopCalls DEF CallsInvariant
<1>5. Marks(below) = replacing
  <2>1. \A i : i \in n - 2 + 1 .. n <=> i = n - 1 \/ i = n
    BY <1>2
  <2>2. ~IsReplace(stack, n - 1) /\ ~IsReplace(stack, n)
    BY <1>2 DEF IsReplace
  <2>3. {stack[i].macro : i \in {i \in n - 2 + 1 .. n : IsReplace(stack, i)}} = {}
    BY <2>1, <2>2
  <2>4. Marks(stack) = Marks(below)
            \cup {stack[i].macro : i \in {i \in n - 2 + 1 .. n : IsReplace(stack, i)}}
    BY <1>3, <1>n, PopCalls DEF CallsInvariant
  <2> QED
    BY <2>3, <2>4 DEF CallsInvariant
<1> HIDE DEF below
<1>6. Caller.macro \notin replacing
  <2> SUFFICES ASSUME Caller.macro \in Marks(below) PROVE FALSE
    BY <1>5
  <2>1. PICK i \in 1 .. n - 2 : IsReplace(below, i) /\ below[i].macro = Caller.macro
    BY <1>4 DEF Marks
  <2>2. /\ i \in 1 .. n /\ n - 1 \in 1 .. n /\ i < n - 1
        /\ IsReplace(stack, i) /\ stack[i].macro = stack[n - 1].macro
        /\ ~IsExpand(stack, n - 1)
    BY <1>2, <1>4, <2>1 DEF IsReplace, IsExpand
  <2> QED
    BY <1>n, <2>2 DEF CallsInvariant, Distinct
<1>7. e.call = "substitute" /\ e.macro = Caller.macro /\ DOMAIN e = Fields(e.call)
  BY <1>2 DEF Fields
<1> HIDE DEF e
<1>8. below = <<>> \/ Last(below).call = "expand"
  <2>1. CASE n = 2
    BY <1>4, <2>1, EmptySequence
  <2>2. CASE n # 2
    <3>1. n - 2 \in 1 .. n - 2 /\ n > 2
      BY <1>2, <2>2
    <3>2. Last(below) = stack[n - 2]
      BY <1>4, <3>1 DEF Last
    <3> QED
      BY <1>2, <3>1, <3>2
  <2> QED
    BY <2>1, <2>2
<1>9. WellFormed(stack')
  BY <1>1, <1>4, <1>7, <1>8, PushCall
<1>10. Distinct(stack') /\ Marks(stack') = replacing'
  BY <1>1, <1>4, <1>5, <1>6, <1>7, MarkCall
<1>11. stack' # <<>> /\ Last(stack') = e /\ Len(stack') = n - 1
  BY <1>1, <1>2, <1>4, AppendSequence DEF Last
<1>12. n - 1 < 2 <=> n = 2
  BY <1>2
<1>13. available' <=> Len(stack') < 2
  BY <1>2, <1>11, <1>12, Zenon
<1>14. PhaseOfTop'
  BY <1>1, <1>7, <1>11 DEF PhaseOfTop, Top
<1> QED
  BY <1>9, <1>10, <1>13, <1>14, Zenon DEF CallsInvariant

(* A step of macro replacement keeps the invariant, and the source while     *)
(* Expand is called.                                                         *)
LEMMA ReplacementKeeps ==
    ASSUME CallsInvariant, ReplacementStep
    PROVE  CallsInvariant' /\ (Len(stack) >= 2 => UNCHANGED <<source, returned>>)
<1> USE DEF reading, calls
<1>l. Len(stack) >= 2 => stack # <<>>
  <2>1. stack = <<>> => Len(stack) = 0
    BY EmptySequence DEF CallsInvariant, WellFormed
  <2> QED
    BY <2>1
<1>1. CASE SkipPutback \/ SkipLexed \/ FinishText
  <2>1. /\ stack = <<>> /\ UNCHANGED <<stack, replacing, available>>
        /\ phase' \in {"skip", "replace", "done"}
    BY <1>1 DEF SkipPutback, SkipLexed, FinishText, CallsInvariant, PhaseOfTop
  <2>2. available' = available /\ stack' = stack /\ replacing' = replacing
    BY <2>1
  <2>3. PhaseOfTop'
    BY <2>1 DEF PhaseOfTop
  <2>4. CallsInvariant'
    BY <2>2, <2>3 DEF CallsInvariant
  <2> QED
    BY <2>1, <2>4, <1>l
<1>2. CASE PassCurrent \/ ReplacePredefined \/ PassReplacing
  <2>1. /\ phase = "replace" /\ UNCHANGED <<available, replacing, source>>
        /\ Replaced \/ (\E token : NotReplaced(token))
    BY <1>2 DEF PassCurrent, ReplacePredefined, PassReplacing
  <2>2. CallsInvariant' /\ (stack # <<>> => returned' = returned)
    BY <2>1, PassKeeps
  <2> QED
    BY <2>1, <2>2, <1>l
<1>3. CASE PassName
  <2>1. phase = "replace" /\ UNCHANGED <<available, replacing>> /\ NotReplaced(current)
    BY <1>3 DEF PassName, IsReplaceable
  <2>2. CallsInvariant' /\ (stack # <<>> => returned' = returned)
    BY <2>1, PassKeeps
  <2>3. Len(stack) >= 2 => ~available
    BY DEF CallsInvariant, WellFormed, IsSequence
  <2>4. ~available => source' = source
    BY <1>3 DEF PassName, Upcoming
  <2> QED
    BY <2>2, <2>3, <2>4, <1>l
<1>4. CASE ReplaceFunctionLike
  <2>1. Len(stack) >= 2 => ~available
    BY DEF CallsInvariant, WellFormed, IsSequence
  <2>2. ~available => source' = source
    BY <1>4 DEF ReplaceFunctionLike, IsInvocation, Upcoming
  <2>3. returned' = returned
    BY <1>4 DEF ReplaceFunctionLike
  <2> QED
    BY <1>4, <2>1, <2>2, <2>3, ReplaceFunctionLikeKeeps
<1>5. CASE RefuseInvocation
  BY <1>5 DEF RefuseInvocation, CallsInvariant, PhaseOfTop
<1>6. CASE ReplaceObjectLike
  BY <1>6, ReplaceObjectLikeKeeps DEF ReplaceObjectLike, Enter
<1>7. CASE Substitute
  BY <1>7, SubstituteKeeps DEF Substitute
<1>8. CASE ExpandArgument
  BY <1>8, ExpandArgumentKeeps DEF ExpandArgument, Enter
<1>9. CASE ReplaceInvocation
  BY <1>9, ReplaceInvocationKeeps DEF ReplaceInvocation, Enter
<1>10. CASE ExpandNext
  BY <1>10 DEF ExpandNext, CallsInvariant, PhaseOfTop, Top
<1>11. CASE ReturnReplacement
  BY <1>11, ReturnReplacementKeeps DEF ReturnReplacement, Leave
<1>12. CASE ReturnArgument
  BY <1>12, ReturnArgumentKeeps DEF ReturnArgument, Leave
<1> QED
  BY <1>1, <1>2, <1>3, <1>4, <1>5, <1>6, <1>7, <1>8, <1>9, <1>10, <1>11, <1>12
  DEF ReplacementStep

LEMMA InitCalls == Init => CallsInvariant
<1> SUFFICES ASSUME Init PROVE CallsInvariant
  OBVIOUS
<1>1. stack \in Seq({}) /\ Len(stack) = 0
  BY EmptySeq DEF Init, ReplacementInit
<1>2. IsSequence(stack)
  BY <1>1, SequenceOf
<1> QED
  BY <1>1, <1>2
  DEF Init, ReplacementInit, CallsInvariant, WellFormed, Distinct, Marks, PhaseOfTop

LEMMA CallSteps ==
    ASSUME CallsInvariant, [Next]_vars
    PROVE  CallsInvariant' /\ (Len(stack) >= 2 => UNCHANGED <<source, returned>>)
<1>1. CASE ReplaceText
  BY <1>1, ReplacementKeeps DEF ReplaceText
<1>2. CASE BeginText \/ EndText
  <2>1. /\ stack = <<>> /\ UNCHANGED <<stack, replacing, available>>
        /\ phase' \in {"idle", "skip"}
    BY <1>2 DEF BeginText, EndText, Begin, At, CallsInvariant, PhaseOfTop, calls, reading
  <2>2. ~(Len(stack) >= 2)
    BY <2>1, EmptySequence DEF CallsInvariant, WellFormed
  <2>3. PhaseOfTop'
    BY <2>1 DEF PhaseOfTop
  <2>4. CallsInvariant'
    BY <2>1, <2>3 DEF CallsInvariant
  <2> QED
    BY <2>2, <2>4
<1>3. CASE UNCHANGED replacement
  BY <1>3 DEF replacement, reading, calls, CallsInvariant, PhaseOfTop, Top
<1>4. Next => ReplaceText \/ BeginText \/ EndText \/ UNCHANGED replacement
  BY DEF Next, SkipText, ProcessDefineDirective, ProcessUndefDirective, ProcessLineDirective,
        SkipDirective, ProcessIfDirective, ProcessIfdefDirective, ProcessElifDirective,
        ProcessElseDirective, ProcessEndifDirective, SkipInclude, Include, RestorePreviousState,
        Finish, Fail
<1>5. UNCHANGED vars => UNCHANGED replacement
  BY DEF vars
<1> QED
  BY <1>1, <1>2, <1>3, <1>4, <1>5

LEMMA CallsKept == Spec => []CallsInvariant
<1>1. CallsInvariant /\ [Next]_vars => CallsInvariant'
  BY CallSteps
<1> QED
  BY <1>1, InitCalls, PTL DEF Spec

(* While the tokens of a macro or an argument are expanded, at any depth, no *)
(* token is taken from the source behind the macro, and none is returned, for*)
(* all macros and texts (cpppreprocessor.cpp:161-166, 227-240).              *)
THEOREM SourceKeptByExpansions == Spec => SourceKept
<1> DEFINE Expanding == \E i \in DOMAIN stack : stack[i].call = "expand"
           Kept == Expanding => UNCHANGED <<source, returned>>
<1>1. CallsInvariant /\ [Next]_vars => [Kept]_vars
  <2> SUFFICES ASSUME CallsInvariant, [Next]_vars, Expanding
               PROVE  UNCHANGED <<source, returned>>
    OBVIOUS
  <2>1. PICK i \in 1 .. Len(stack) : IsExpand(stack, i)
    BY SequenceIn DEF CallsInvariant, WellFormed, IsExpand
  <2>2. i > 1
    BY <2>1 DEF CallsInvariant, WellFormed
  <2>3. Len(stack) >= 2
    BY <2>1, <2>2 DEF CallsInvariant, WellFormed, IsSequence
  <2> QED
    BY <2>3, CallSteps
<1> QED
  BY <1>1, CallsKept, PTL DEF Spec, SourceKept

(* No macro is replaced while it is replaced, so that the assertion of       *)
(* Replace holds, and none is marked when a text has been replaced, for all  *)
(* macros and texts (cpppreprocessor.cpp:207, 220-225).                      *)
THEOREM MarkedWhileReplaced == Spec => []ReplacedOnce
<1>1. CallsInvariant => ReplacedOnce
  <2> SUFFICES ASSUME CallsInvariant PROVE ReplacedOnce
    OBVIOUS
  <2> DEFINE n == Len(stack)
  <2>1. stack # <<>> => n \in Nat \ {0} /\ Top = stack[n]
    BY TopOfCalls DEF CallsInvariant, Top, Last
  <2>2. ASSUME phase = "substitute" PROVE Top.macro \notin replacing
    <3>1. stack # <<>> /\ Top.call = "substitute"
      BY <2>2 DEF CallsInvariant, PhaseOfTop
    <3>2. ASSUME NEW i \in 1 .. n, IsReplace(stack, i) PROVE stack[i].macro # Top.macro
      <4>1. i # n /\ ~IsExpand(stack, n)
        BY <2>1, <3>1, <3>2 DEF IsReplace, IsExpand
      <4>2. n \in 1 .. n /\ i < n
        BY <2>1, <3>1, <4>1
      <4> QED
        BY <2>1, <3>1, <3>2, <4>1, <4>2 DEF CallsInvariant, Distinct
    <3> QED
      BY <3>2 DEF CallsInvariant, Marks
  <2>3. ASSUME phase = "expand", Caller.call = "replace" PROVE Caller.macro \in replacing
    <3>1. stack # <<>> /\ Top.call = "expand"
      BY <2>3 DEF CallsInvariant, PhaseOfTop
    <3>2. n >= 2
      BY <2>1, <3>1, TopOfCalls DEF CallsInvariant
    <3>3. n - 1 \in 1 .. n /\ IsReplace(stack, n - 1)
      BY <2>1, <2>3, <3>1, <3>2 DEF IsReplace, Caller
    <3> QED
      BY <3>3 DEF CallsInvariant, Marks, Caller
  <2>4. stack = <<>> => replacing = {}
    BY EmptySequence DEF CallsInvariant, Marks, WellFormed
  <2> QED
    BY <2>2, <2>3, <2>4 DEF ReplacedOnce
<1> QED
  BY <1>1, CallsKept, PTL


===============================================================================
