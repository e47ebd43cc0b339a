--------------------------- MODULE SourceAnalyzer ---------------------------
(***************************************************************************)
(* The source code analyzer of a registry: an uploaded program is compared *)
(* with the template line by line, its calls with the library, and the     *)
(* attributes that reach its result become the Output of the processing    *)
(* specification, which a provider compares with what its policy allows    *)
(* to disclose.                                                            *)
(*                                                                         *)
(* A name is the sequence of the parts between its underscores: a key is   *)
(* such a name, a path a sequence of keys, an argument <<type, digits,     *)
(* ...>>.  A leaf <<p, path>> is an attribute of the p-th argument.        *)
(***************************************************************************)
EXTENDS Naturals, SequencesExt

CONSTANTS
    Template,           \* the lines of template.py that are not blank
    ProcessLine, EndLine,  \* PROCESS_LINE_NUM and END_LINE_NUM, from 0
    Lines,              \* the lines a program is made of
    Libs,               \* the contents of plib.py
    Schemas,            \* for each data type the paths of its attributes
    Words,              \* the parts of names
    Digits,             \* the words for which isdigit holds
    Digit,              \* the text of each argument's position
    Rests,              \* what a program may have after EndLine
    MaxBody             \* bound of the lines of process_data before its return

ASSUME TemplateAssumption ==
    /\ Template \in Seq(Lines)
    /\ {ProcessLine, EndLine} \subseteq Nat /\ MaxBody \in Nat
    /\ ProcessLine + 2 <= EndLine /\ EndLine < Len(Template)
Leaves == (1..Len(Digit)) \X Seq(Seq(Words))
ASSUME ProgramAssumption ==
    /\ Rests \subseteq Seq(Lines)
    /\ Digits \subseteq Words /\ Digit \in Seq(Digits)
    /\ \A l \in Lines :
         /\ l.is = "def" => l.args \in Seq(Seq(Words)) /\ Len(l.args) <= Len(Digit)
         /\ l.is = "return" => l.leaves \subseteq Leaves
         /\ l.is = "call" => l.leaf \in Leaves
ASSUME LibAssumption == \A text \in Libs : text \in Seq(Range(text))
ASSUME SchemaAssumption ==
    \A t \in DOMAIN Schemas : Schemas[t] \subseteq Seq(Seq(Words) \ {<<>>}) \ {<<>>}

VARIABLES
    stage,              \* what the server does with the uploaded program
    lines, current,     \* the program as far as it is read, template line
    args, result,       \* process_data's arguments, the answer
    sources,            \* the taint sources of general.pysa
    outputs,            \* the specification's Output
    lib                 \* plib.py

scan == <<lines, current, args>>
vars == <<stage, scan, result, sources, outputs, lib>>

Pending == 1

Init ==
    /\ stage = "idle" /\ lib \in Libs
    /\ lines = <<>> /\ current = 0 /\ args = <<>>
    /\ result = Pending /\ sources = {} /\ outputs = {}

\* The analyzer's return code; 500 when it raises an exception.
Answer(r) == stage' = "idle" /\ result' = r
-----------------------------------------------------------------------------
\* FunctionSpec.get_function_spec: the specification of a function is the last
\* line before its def that is not a def itself, if it is an Output comment.
Defs == {i \in DOMAIN lib : lib[i].is = "def"}
Before(i) == Max({0} \cup {j \in 1..(i - 1) : j \notin Defs})
LastDef(f) == Max({i \in Defs : lib[i].name = f})
Registered == {lib[i].name : i \in Defs}

\* Mutant: what stands before the def is forgotten.
PassesNothing(f) == FALSE

Passes(f) ==
    LET i == Before(LastDef(f))
    IN  i # 0 /\ lib[i].is = "output" /\ lib[i].passes

Forget ==
    /\ lines' = <<>> /\ current' = 0 /\ args' = <<>>
    /\ result' = Pending /\ sources' = {} /\ outputs' = {}

\* verify: the program is stored and the analysis begins.
Verify ==
    /\ stage = "idle" /\ stage' = "format"
    /\ Forget
    /\ UNCHANGED lib

\* update stores another library; the last answer was about the one before.
Update ==
    /\ stage = "idle" /\ lib' \in Libs
    /\ Forget
    /\ UNCHANGED stage
-----------------------------------------------------------------------------
InProcess == current = ProcessLine

\* check_format, one line of the program at a time.
ReadLine(l) ==
    /\ stage = "format"
    /\ InProcess /\ l.is # "return" => Len(lines) < ProcessLine + MaxBody
    /\ lines' = Append(lines, l)
    /\ UNCHANGED <<sources, outputs, lib>>

\* The second part has to be a number, which need not be the position.  A
\* header without arguments has one, of the part "".
\* Mutant: the number is not looked at.
BadArgumentShort(a) == Len(a) < 2

BadArgument(a) == Len(a) < 2 \/ a[2] \notin Digits

Header(l) ==
    /\ ReadLine(l) /\ InProcess /\ l.is = "def"
    /\ args' = l.args
    /\ IF \E i \in DOMAIN l.args : BadArgument(l.args[i])
       THEN Answer(10) ELSE UNCHANGED <<stage, result>>
    /\ UNCHANGED current

\* Mutant: the line after the return is taken for the template's.
ReturnNext(l) ==
    /\ ReadLine(l) /\ InProcess /\ l.is = "return"
    /\ current' = current + 3
    /\ UNCHANGED <<stage, args, result>>

Return(l) ==
    /\ ReadLine(l) /\ InProcess /\ l.is = "return"
    /\ current' = current + 2
    /\ UNCHANGED <<stage, args, result>>

Pass(l) ==
    /\ ReadLine(l) /\ InProcess /\ l.is \notin {"def", "return"}
    /\ UNCHANGED <<stage, current, args, result>>

Same(l) ==
    /\ ReadLine(l) /\ ~InProcess /\ l = Template[current + 1]
    /\ IF current = EndLine
       THEN stage' = "rest" /\ UNCHANGED current
       ELSE current' = current + 1 /\ UNCHANGED stage
    /\ UNCHANGED <<args, result>>

Differs(l) ==
    /\ ReadLine(l) /\ ~InProcess /\ l # Template[current + 1]
    /\ Answer(10)
    /\ UNCHANGED <<current, args>>

\* The program ends before the last line that is compared.
EndOfFile ==
    /\ stage = "format"
    /\ Answer(10)
    /\ UNCHANGED <<scan, sources, outputs, lib>>

\* What the program has after that line is not read.
Rest(r) ==
    /\ stage = "rest"
    /\ stage' = "calls"
    /\ lines' = lines \o r
    /\ UNCHANGED <<current, args, result, sources, outputs, lib>>
-----------------------------------------------------------------------------
\* The body of process_data: from its last header to the return.
ReturnAt == Min({i \in DOMAIN lines : i > ProcessLine /\ lines[i].is = "return"})
HeaderAt == Max({0} \cup {i \in (ProcessLine + 1)..ReturnAt : lines[i].is = "def"})
Calls == IF HeaderAt = 0 THEN {}
         ELSE {lines[i] : i \in {j \in HeaderAt..ReturnAt : lines[j].is = "call"}}

\* check_func: every call is of a function of the library.
CheckFunc ==
    /\ stage = "calls"
    /\ IF \A c \in Calls : c.name \in Registered
       THEN stage' = "schema" /\ UNCHANGED result
       ELSE Answer(11)
    /\ UNCHANGED <<scan, sources, outputs, lib>>

\* get_taint_name.  The path is joined to the name with underscores, and the
\* keys above the attribute are split at them again for the return path.
TaintName(p, path) == args[p] \o <<Digit[p]>> \o FlattenSeq(path)
ReturnPath(path) ==
    LET above == FlattenSeq(Front(path))
    IN  [i \in DOMAIN above |-> <<above[i]>>] \o <<Last(path)>>

Known == \A p \in DOMAIN args : args[p][1] \in DOMAIN Schemas
Taints == UNION {{[name |-> TaintName(p, path), leaf |-> <<p, ReturnPath(path)>>] :
                  path \in Schemas[args[p][1]]} : p \in DOMAIN args}

\* Without its schema an argument has no sources.
Sources ==
    /\ stage = "schema" /\ Known
    /\ stage' = "model"
    /\ sources' = Taints
    /\ UNCHANGED <<scan, result, outputs, lib>>

\* get_schema is asked for every argument, twice; the data type server may
\* refuse, or not be reached, which no handler catches.
NoSchema ==
    /\ stage \in {"schema", "model"} /\ args # <<>>
    /\ \/ Answer(IF stage = "schema" THEN 12 ELSE 13)
       \/ Answer(500)
    /\ UNCHANGED <<scan, sources, outputs, lib>>

\* modeling_app calls process_data with its first argument and the others; a
\* program without a header has none.
ModelApp ==
    /\ stage = "model"
    /\ IF args = <<>> THEN Answer(500)
       ELSE stage' = "analyze" /\ UNCHANGED result
    /\ UNCHANGED <<scan, sources, outputs, lib>>

\* The leaves that reach the result of process_data when the functions in
\* passing hand their argument on.
Reach(passing) ==
    lines[ReturnAt].leaves
        \cup {c.leaf : c \in {d \in Calls : d.name \in passing}}

PysaFails ==
    /\ stage = "analyze"
    /\ Answer(14)
    /\ UNCHANGED <<scan, sources, outputs, lib>>

\* Mutant: the parts are counted from the position.
SinkNameShort(taint) == [argument |-> SubSeq(taint, 1, 2),
                         attribute |-> SubSeq(taint, 5, Len(taint))]

\* A taint's name becomes the argument, of two parts, and the attribute; the
\* position between them is dropped.
SinkName(taint) == [argument |-> SubSeq(taint, 1, 2),
                    attribute |-> SubSeq(taint, 4, Len(taint))]

\* pysa reports the sources that reach the result through the functions as
\* they are specified, each as the root of a forward trace.
Reported ==
    LET reached == Reach({f \in Registered : Passes(f)})
    IN  {SinkName(s.name) : s \in {t \in sources : t.leaf \in reached}}

Analyze ==
    /\ stage = "analyze"
    /\ Answer(0)
    /\ outputs' = Reported
    /\ UNCHANGED <<scan, sources, lib>>

Scan(l) == Header(l) \/ Return(l) \/ Pass(l) \/ Same(l) \/ Differs(l)

Next ==
    \/ Verify \/ Update
    \/ \E l \in Lines : Scan(l)
    \/ EndOfFile
    \/ \E r \in Rests : Rest(r)
    \/ CheckFunc \/ Sources \/ NoSchema \/ ModelApp \/ PysaFails \/ Analyze

Spec == Init /\ [][Next]_vars

\* The provider's test of a specification for its data of type ty as argument n:
\* every output is the type and n, and one of the attributes in disclosing.
Disclosable(ty, n, disclosing) ==
    \A o \in outputs : /\ o.argument = <<ty, Digit[n]>>
                       /\ o.attribute \in disclosing /\ Len(o.attribute) = 1
-----------------------------------------------------------------------------
Later == {"rest", "calls", "schema", "model", "analyze"}
Results == {Pending, 0, 500} \cup 10..14

\* "person_1": a type and a number.
Numbered(a) == Len(a) >= 2 /\ a[2] \in Digits

TypeOK ==
    /\ stage \in {"idle", "format"} \cup Later
    /\ lib \in Libs /\ result \in Results
    /\ lines \in Seq(Lines) /\ current \in 0..EndLine
    /\ stage # "idle" => \A i \in DOMAIN args : Numbered(args[i])
    /\ \A s \in sources : s.leaf[1] \in DOMAIN args
    /\ \A o \in outputs : o.attribute # <<>>

\* As far as ls goes it is the template, but for a process_data that ends with
\* the first return and whose headers name their arguments' numbers.
Conforms(ls) ==
    /\ \A i \in DOMAIN ls : i <= ProcessLine => ls[i] = Template[i]
    /\ LET returns == {i \in DOMAIN ls : i > ProcessLine /\ ls[i].is = "return"}
           end == Min(returns \cup {Len(ls) + 1})
       IN  /\ \A i \in (ProcessLine + 1)..(end - 1) : ls[i].is = "def" =>
                \A k \in DOMAIN ls[i].args : Numbered(ls[i].args[k])
           /\ \A i \in DOMAIN ls :
                i > end /\ ProcessLine + 2 + i - end <= EndLine + 1 =>
                    ls[i] = Template[ProcessLine + 2 + i - end]

Complete(ls) ==
    \E i \in DOMAIN ls : /\ i > ProcessLine /\ ls[i].is = "return"
                         /\ Len(ls) - i >= EndLine - ProcessLine - 1

\* The line-by-line comparison with its jump over process_data finds exactly
\* the programs that are the template around one process_data
\* (analyzer.py 146-174).
FormatIsTheTemplates ==
    /\ stage = "format" => Conforms(lines) /\ ~Complete(lines)
    /\ (stage \in Later \/ result \notin {Pending, 10}) => Conforms(lines) /\ Complete(lines)

\* A line is turned down only if no program that goes on from it conforms.
RejectedLineIsWrong ==
    [][stage = "format" /\ result' = 10 /\ lines' # lines => ~Conforms(lines')]_vars

\* What a function hands on, by the last Output comment above it.
HandsOn(f) == LET c == Max({0} \cup {j \in 1..LastDef(f) : lib[j].is = "output"})
              IN  c # 0 /\ lib[c].passes
Documented == \A i \in Defs : i > 1 /\ lib[i - 1].is = "output"

\* The attributes of the arguments that do reach the result.
Leaks == {leaf \in Reach({f \in Registered : HandsOn(f)}) :
              leaf[1] \in DOMAIN args /\ leaf[2] \in Schemas[args[leaf[1]][1]]}

\* An underscore in a key above another makes a return path that does not exist.
PlainPath(path) == \A i \in 1..(Len(path) - 1) : Len(path[i]) = 1

Keys == {path[Len(path)] : path \in UNION {Schemas[t] : t \in DOMAIN Schemas}}
Unchanged == \A i \in DOMAIN lines : i > ReturnAt =>
                 lines[i] = Template[ProcessLine + 2 + i - ReturnAt]

\* A provider that accepts a specification for its data as argument n discloses
\* no attribute that its policy withholds, however arguments and attributes are
\* named: through taint names, the Output and the provider's test (analyzer.py
\* 126-129, 325-329, provider/main.py 296).
DisclosedOnlyAsAllowed ==
    stage = "idle" /\ result = 0 /\ Documented /\ Unchanged =>
        \A leaf \in {l \in Leaks : PlainPath(l[2])}, ty \in DOMAIN Schemas :
        \A disclosing \in SUBSET Keys :
            Disclosable(ty, leaf[1], disclosing) =>
                /\ args[leaf[1]][1] = ty
                /\ \E k \in disclosing : leaf[2] = <<k>>

\* A program that takes from argument n only what is allowed, from no other
\* argument anything (an attribute that no schema has included: its path may
\* be another's return path), and numbers its arguments in order, is accepted.
AllowedIsAccepted ==
    stage = "idle" /\ result = 0 /\ Documented =>
        \A n \in DOMAIN args : \A disclosing \in SUBSET Keys :
            /\ \A l \in Reach({f \in Registered : HandsOn(f)}) :
                   l[1] = n /\ \E k \in disclosing : l[2] = <<k>> /\ Len(k) = 1
            /\ args[n] = <<args[n][1], Digit[n]>>
            => Disclosable(args[n][1], n, disclosing)

=============================================================================
