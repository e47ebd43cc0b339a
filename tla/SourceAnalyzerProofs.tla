------------------------ MODULE SourceAnalyzerProofs ------------------------
(***************************************************************************)
(* Proofs about SourceAnalyzer, for every template, alphabet of lines,     *)
(* library, schema and numbering of arguments.                             *)
(***************************************************************************)
EXTENDS SourceAnalyzer, SequenceTheorems, WellFoundedInduction, TLAPS

\* The returns of process_data's place, and the first of them; a program
\* without one may still get it in its next line.
Returns(ls) == {i \in DOMAIN ls : i > ProcessLine /\ ls[i].is = "return"}
EndsAt(ls, e) == /\ e \in Returns(ls) \cup {Len(ls) + 1}
                 /\ \A i \in Returns(ls) : e <= i

\* ls is the template around a process_data that ends at line e.
Prefix(ls) == \A i \in DOMAIN ls : i <= ProcessLine => ls[i] = Template[i]
Body(ls, e) == \A i \in (ProcessLine + 1)..(e - 1) : ls[i].is = "def" =>
                   \A k \in DOMAIN ls[i].args : Numbered(ls[i].args[k])
Suffix(ls, e) == \A i \in DOMAIN ls :
                     i > e /\ ProcessLine + 2 + i - e <= EndLine + 1 =>
                         ls[i] = Template[ProcessLine + 2 + i - e]
Follows(ls, e) == EndsAt(ls, e) /\ Prefix(ls) /\ Body(ls, e) /\ Suffix(ls, e)

\* The template line that is compared next, and what is read before it.
AtLine(e) ==
    \/ e = Len(lines) + 1 /\ current < ProcessLine /\ Len(lines) = current
    \/ e = Len(lines) + 1 /\ current = ProcessLine /\ Len(lines) >= ProcessLine
    \/ e \in Returns(lines) /\ current = ProcessLine + 2 + Len(lines) - e

Whole(e) == e \in Returns(lines) /\ Len(lines) - e >= EndLine - ProcessLine - 1

Reading == stage = "format" => \E e \in Nat : Follows(lines, e) /\ AtLine(e)
WasRead == stage \in Later \/ result \notin {Pending, 10} =>
               \E e \in Nat : Follows(lines, e) /\ Whole(e)

\* The invariant of the comparison.
Read ==
    /\ stage \in {"idle", "format"} \cup Later /\ result \in Results
    /\ lines \in Seq(Lines) /\ current \in 0..EndLine
    /\ stage # "idle" => result = Pending
    /\ Reading /\ WasRead

\* The invariant of the analysis: the arguments are those of the last header,
\* the sources all of theirs, the outputs what the library lets through.
ArgsNumbered ==
    stage # "idle" \/ result \notin {Pending, 10} =>
        /\ args \in Seq(Seq(Words)) /\ Len(args) <= Len(Digit)
        /\ \A i \in DOMAIN args : Numbered(args[i])
SourcesKnown ==
    /\ stage \in {"format", "rest", "calls", "schema"} => sources = {}
    /\ stage \in {"model", "analyze"} \/ result = 0 => sources = Taints /\ Known
OutputsReported == result = 0 => outputs = Reported
OutputsNamed == \A o \in outputs : o.attribute # <<>>
SourcesPlaced == \A s \in sources : s.leaf[1] \in DOMAIN args

Analyzed ==
    /\ lib \in Libs /\ ArgsNumbered /\ SourcesKnown
    /\ OutputsReported /\ OutputsNamed /\ SourcesPlaced

-----------------------------------------------------------------------------
(* The comparison with the template.                                       *)

LEMMA SeqFacts ==
    ASSUME NEW S, NEW ls \in Seq(S)
    PROVE  Len(ls) \in Nat /\ DOMAIN ls = 1..Len(ls) /\ \A i \in DOMAIN ls : ls[i] \in S
  BY LenProperties, ElementOfSeq

LEMMA Appended ==
    ASSUME NEW ls \in Seq(Lines), NEW l \in Lines
    PROVE  /\ Append(ls, l) \in Seq(Lines)
           /\ Len(Append(ls, l)) = Len(ls) + 1
           /\ DOMAIN Append(ls, l) = 1..(Len(ls) + 1)
           /\ \A i \in 1..Len(ls) : Append(ls, l)[i] = ls[i]
           /\ Append(ls, l)[Len(ls) + 1] = l
           /\ Len(ls) \in Nat /\ DOMAIN ls = 1..Len(ls)
  <1>1. Append(ls, l) \in Seq(Lines) /\ Len(Append(ls, l)) = Len(ls) + 1
    BY AppendProperties
  <1> QED
    BY <1>1, AppendProperties, SeqFacts

\* The minimum in Conforms is the first return, or what is behind the end.
LEMMA ConformsIffFollows ==
    ASSUME NEW ls \in Seq(Lines), NEW e \in Nat, EndsAt(ls, e)
    PROVE  Conforms(ls) <=> Prefix(ls) /\ Body(ls, e) /\ Suffix(ls, e)
  <1> DEFINE ends == Returns(ls) \cup {Len(ls) + 1}
  <1>1. Len(ls) \in Nat /\ DOMAIN ls = 1..Len(ls)
    BY SeqFacts
  <1>2. e \in ends /\ ends \subseteq Nat /\ \A i \in ends : e <= i
    BY <1>1 DEF EndsAt, Returns
  <1>3. Min(ends) = e
    <2>1. \A m \in ends : (\A i \in ends : m <= i) => m = e
      BY <1>2
    <2> HIDE DEF ends
    <2> QED
      BY <1>2, <2>1 DEF Min
  <1>4. Conforms(ls) <=> Prefix(ls) /\ Body(ls, Min(ends)) /\ Suffix(ls, Min(ends))
    BY DEF Conforms, Prefix, Body, Suffix, Returns
  <1> QED
    BY <1>3, <1>4

\* Where process_data ends when one more line is read.
LEMMA EndsAppended ==
    ASSUME NEW ls \in Seq(Lines), NEW l \in Lines, NEW e \in Nat, EndsAt(ls, e),
           NEW new, new = Append(ls, l)
    PROVE  /\ e \in Returns(ls) => EndsAt(new, e) /\ e \in Returns(new)
           /\ e = Len(ls) + 1 /\ e > ProcessLine /\ l.is = "return"
                => EndsAt(new, e) /\ e \in Returns(new)
           /\ e = Len(ls) + 1 /\ ~(e > ProcessLine /\ l.is = "return")
                => EndsAt(new, e + 1)
  <1>1. Returns(new) \subseteq Returns(ls) \cup {Len(ls) + 1}
    BY Appended DEF Returns
  <1>2. Returns(ls) \subseteq Returns(new) /\ Returns(ls) \subseteq 1..Len(ls)
    BY Appended DEF Returns
  <1>3. Len(ls) + 1 \in Returns(new) <=> Len(ls) + 1 > ProcessLine /\ l.is = "return"
    BY Appended DEF Returns
  <1>4. Len(ls) \in Nat /\ Len(new) = Len(ls) + 1
    BY Appended
  <1>5. CASE e \in Returns(ls)
    BY <1>1, <1>2, <1>4, <1>5 DEF EndsAt
  <1>6. CASE e = Len(ls) + 1
    <2>1. Returns(ls) = {}
      BY <1>2, <1>4, <1>6 DEF EndsAt
    <2>2. e \in Returns(new) => Returns(new) = {e}
      BY <1>1, <1>6, <2>1
    <2>3. e \notin Returns(new) => Returns(new) = {}
      BY <1>1, <1>6, <2>1
    <2> QED
      BY <1>2, <1>3, <1>4, <1>6, <2>1, <2>2, <2>3 DEF EndsAt
  <1> QED
    BY <1>5, <1>6 DEF EndsAt

\* A line that is read where the comparison stands goes on with a program that
\* follows the template just when it is the line that belongs there.
LEMMA BodyLine ==
    ASSUME NEW ls \in Seq(Lines), NEW l \in Lines, NEW e, e = Len(ls) + 1,
           Follows(ls, e), Len(ls) >= ProcessLine,
           NEW new, new = Append(ls, l)
    PROVE  /\ l.is = "return" => Follows(new, e) /\ e \in Returns(new)
           /\ l.is = "def" =>
                (Conforms(new) <=> \A k \in DOMAIN l.args : Numbered(l.args[k]))
           /\ l.is # "return" /\ (l.is = "def" => \A k \in DOMAIN l.args : Numbered(l.args[k]))
                => Follows(new, e + 1)
  <1>1. /\ e \in Nat /\ e + 1 \in Nat /\ e > ProcessLine /\ Len(ls) \in Nat /\ ProcessLine \in Nat
        /\ Len(new) = e /\ new \in Seq(Lines) /\ new[e] = l
        /\ DOMAIN new = 1..e /\ DOMAIN ls = 1..Len(ls)
        /\ \A i \in 1..Len(ls) : new[i] = ls[i]
    BY Appended, TemplateAssumption
  <1>2. Prefix(new)
    BY <1>1 DEF Follows, Prefix
  <1>3. Suffix(new, e) /\ Suffix(new, e + 1)
    BY <1>1 DEF Suffix
  <1>4. Body(new, e)
    BY <1>1 DEF Follows, Body
  <1>5. Body(new, e + 1) <=> (l.is = "def" => \A k \in DOMAIN l.args : Numbered(l.args[k]))
    BY <1>1, <1>4 DEF Body
  <1>6. /\ l.is = "return" => EndsAt(new, e) /\ e \in Returns(new)
        /\ l.is # "return" => EndsAt(new, e + 1)
    BY <1>1, EndsAppended DEF Follows
  <1>7. l.is # "return" => (Conforms(new) <=> Prefix(new) /\ Body(new, e + 1) /\ Suffix(new, e + 1))
    BY <1>1, <1>6, ConformsIffFollows
  <1> QED
    BY <1>1, <1>2, <1>3, <1>4, <1>5, <1>6, <1>7 DEF Follows

LEMMA PrefixLine ==
    ASSUME NEW ls \in Seq(Lines), NEW l \in Lines, NEW e, e = Len(ls) + 1,
           Follows(ls, e), Len(ls) < ProcessLine,
           NEW new, new = Append(ls, l)
    PROVE  /\ l = Template[e] => Follows(new, e + 1)
           /\ l # Template[e] => ~Conforms(new)
  <1>1. /\ e \in Nat /\ e + 1 \in Nat /\ e <= ProcessLine /\ Len(ls) \in Nat /\ ProcessLine \in Nat
        /\ Len(new) = e /\ new \in Seq(Lines) /\ new[e] = l
        /\ DOMAIN new = 1..e /\ DOMAIN ls = 1..Len(ls)
        /\ \A i \in 1..Len(ls) : new[i] = ls[i]
    BY Appended, TemplateAssumption
  <1>2. Prefix(new) <=> l = Template[e]
    BY <1>1 DEF Follows, Prefix
  <1>3. Suffix(new, e + 1) /\ Body(new, e + 1)
    BY <1>1 DEF Suffix, Body
  <1>4. EndsAt(new, e + 1)
    <2>1. EndsAt(ls, e) /\ ~(e > ProcessLine)
      BY <1>1 DEF Follows
    <2> QED
      BY <1>1, <2>1, EndsAppended
  <1>5. Conforms(new) <=> Prefix(new) /\ Body(new, e + 1) /\ Suffix(new, e + 1)
    BY <1>1, <1>4, ConformsIffFollows
  <1> QED
    BY <1>1, <1>2, <1>3, <1>4, <1>5 DEF Follows

LEMMA SuffixLine ==
    ASSUME NEW ls \in Seq(Lines), NEW l \in Lines, NEW e \in Nat, Follows(ls, e),
           e \in Returns(ls), ProcessLine + 2 + Len(ls) - e <= EndLine,
           NEW new, new = Append(ls, l)
    PROVE  /\ e \in Returns(new)
           /\ l = Template[ProcessLine + 3 + Len(ls) - e] => Follows(new, e)
           /\ l # Template[ProcessLine + 3 + Len(ls) - e] => ~Conforms(new)
  <1> DEFINE n == Len(ls) + 1
  <1>1. /\ n \in Nat /\ Len(ls) \in Nat /\ ProcessLine \in Nat /\ EndLine \in Nat
        /\ Len(new) = n /\ new \in Seq(Lines) /\ new[n] = l
        /\ DOMAIN new = 1..n /\ DOMAIN ls = 1..Len(ls)
        /\ \A i \in 1..Len(ls) : new[i] = ls[i]
    BY Appended, TemplateAssumption
  <1>2. e \in 1..Len(ls) /\ e > ProcessLine
    BY <1>1 DEF Returns
  <1>3. EndsAt(new, e) /\ e \in Returns(new)
    BY EndsAppended DEF Follows
  <1>4. Prefix(new) /\ Body(new, e)
    BY <1>1, <1>2 DEF Follows, Prefix, Body
  <1>5. Suffix(new, e) <=> l = Template[ProcessLine + 2 + n - e]
    <2>1. n > e /\ ProcessLine + 2 + n - e <= EndLine + 1
      BY <1>1, <1>2
    <2>2. \A i \in 1..n : i = n \/ i \in 1..Len(ls)
      BY <1>1
    <2>3. Suffix(ls, e)
      BY DEF Follows
    <2> DEFINE at(i) == ProcessLine + 2 + i - e
    <2>4. Suffix(new, e) <=>
            \A i \in 1..n : i > e /\ at(i) <= EndLine + 1 => new[i] = Template[at(i)]
      BY <1>1 DEF Suffix
    <2>5. \A i \in 1..Len(ls) : i > e /\ at(i) <= EndLine + 1 => new[i] = Template[at(i)]
      BY <1>1, <2>3 DEF Suffix
    <2>6. n \in 1..n /\ at(n) <= EndLine + 1 /\ new[n] = l
      BY <1>1, <2>1
    <2> HIDE DEF n, at
    <2>7. Suffix(new, e) <=> l = Template[at(n)]
      BY <2>1, <2>2, <2>4, <2>5, <2>6
    <2> QED
      BY <2>7 DEF at
  <1>6. Conforms(new) <=> Prefix(new) /\ Body(new, e) /\ Suffix(new, e)
    BY <1>1, <1>3, ConformsIffFollows
  <1>7. ProcessLine + 3 + Len(ls) - e = ProcessLine + 2 + n - e
    BY <1>1, <1>2
  <1> HIDE DEF n
  <1> QED
    BY <1>3, <1>4, <1>5, <1>6, <1>7 DEF Follows

\* The rest of the file is behind every line that is compared.
LEMMA RestLines ==
    ASSUME NEW ls \in Seq(Lines), NEW r \in Seq(Lines), NEW e \in Nat,
           Follows(ls, e), e \in Returns(ls),
           Len(ls) - e >= EndLine - ProcessLine - 1,
           NEW new, new = ls \o r
    PROVE  /\ new \in Seq(Lines) /\ Follows(new, e) /\ e \in Returns(new)
           /\ Len(new) - e >= EndLine - ProcessLine - 1
  <1>1. /\ Len(ls) \in Nat /\ Len(r) \in Nat /\ ProcessLine \in Nat /\ EndLine \in Nat
        /\ new \in Seq(Lines) /\ Len(new) = Len(ls) + Len(r)
        /\ DOMAIN new = 1..Len(new) /\ DOMAIN ls = 1..Len(ls)
    BY ConcatProperties, SeqFacts, TemplateAssumption
  <1>2. \A i \in 1..Len(ls) : new[i] = ls[i]
    BY <1>1, ConcatProperties
  <1>3. e \in 1..Len(ls) /\ e > ProcessLine /\ e \in Returns(new)
    BY <1>1, <1>2 DEF Returns
  <1>4. \A i \in Returns(new) : e <= i
    <2> SUFFICES ASSUME NEW i \in Returns(new), i < e PROVE FALSE
      BY <1>1, <1>3 DEF Returns
    <2>1. i \in Returns(ls)
      BY <1>1, <1>2, <1>3 DEF Returns
    <2> QED
      BY <1>1, <1>3, <2>1 DEF Follows, EndsAt, Returns
  <1>5. Prefix(new) /\ Body(new, e)
    BY <1>1, <1>2, <1>3 DEF Follows, Prefix, Body
  <1>6. Suffix(new, e)
    <2> SUFFICES ASSUME NEW i \in 1..Len(new), i > e, ProcessLine + 2 + i - e <= EndLine + 1
                 PROVE  new[i] = Template[ProcessLine + 2 + i - e]
      BY <1>1 DEF Suffix
    <2>1. i \in 1..Len(ls)
      BY <1>1, <1>3
    <2> QED
      BY <1>1, <1>2, <2>1 DEF Follows, Suffix
  <1> QED
    BY <1>1, <1>3, <1>4, <1>5, <1>6 DEF Follows, EndsAt

-----------------------------------------------------------------------------
(* The invariant of the comparison.                                        *)

LEMMA EmptyFollows ==
    Follows(<<>>, 1) /\ Len(<<>>) = 0 /\ ProcessLine \in Nat
  <1>1. Len(<<>>) = 0 /\ DOMAIN <<>> = {}
    BY EmptySeq
  <1>2. ProcessLine \in Nat
    BY TemplateAssumption
  <1>3. Returns(<<>>) = {}
    BY <1>1 DEF Returns
  <1> QED
    BY <1>1, <1>2, <1>3 DEF Follows, EndsAt, Prefix, Body, Suffix

LEMMA InitRead == Init => Read
  BY TemplateAssumption, EmptySeq DEF Init, Read, Reading, WasRead, Pending, Results, Later

LEMMA ForgetRead ==
    ASSUME Read, Verify \/ Update
    PROVE  Read'
  <1>1. lines' = <<>> /\ current' = 0 /\ result' = Pending /\ stage' \in {"idle", "format"}
    BY DEF Verify, Update, Forget, Read
  <1>2. Follows(lines, 1)' /\ AtLine(1)'
    BY <1>1, EmptyFollows DEF AtLine
  <1>3. lines' \in Seq(Lines) /\ current' \in 0..EndLine
    BY <1>1, EmptySeq, TemplateAssumption
  <1> QED
    BY <1>1, <1>2, <1>3 DEF Read, Reading, WasRead, Pending, Results, Later

\* An argument is turned down just when it is not numbered.
LEMMA BadIsNotNumbered ==
    ASSUME NEW l \in Lines, l.is = "def", NEW i \in DOMAIN l.args
    PROVE  BadArgument(l.args[i]) <=> ~Numbered(l.args[i])
  <1>1. l.args[i] \in Seq(Words)
    BY ProgramAssumption, SeqFacts
  <1>2. Len(l.args[i]) \in Nat
    BY <1>1, LenProperties
  <1> QED
    BY <1>2 DEF BadArgument, Numbered

LEMMA ReadsOne ==
    ASSUME Read, NEW l \in Lines, ReadLine(l)
    PROVE  /\ stage = "format" /\ result = Pending
           /\ lines' = Append(lines, l) /\ lines' \in Seq(Lines)
           /\ Len(lines') = Len(lines) + 1 /\ Len(lines) \in Nat
           /\ ProcessLine \in Nat /\ EndLine \in Nat /\ ProcessLine + 2 <= EndLine
           /\ lines \in Seq(Lines) /\ current \in 0..EndLine
           /\ \E e \in Nat : Follows(lines, e) /\ AtLine(e)
  BY Appended, TemplateAssumption DEF Read, Reading, ReadLine

\* In process_data: its headers, its return and every other line.
LEMMA ProcessRead ==
    ASSUME Read, NEW l \in Lines, Header(l) \/ Return(l) \/ Pass(l)
    PROVE  Read' /\ (result' = 10 => ~Conforms(lines'))
  <1>1. ReadLine(l) /\ InProcess
    BY DEF Header, Return, Pass
  <1>2. PICK e \in Nat : Follows(lines, e) /\ AtLine(e)
    BY <1>1, ReadsOne
  <1>3. e = Len(lines) + 1 /\ Len(lines) >= ProcessLine /\ current = ProcessLine
    BY <1>1, <1>2, ReadsOne, SeqFacts DEF AtLine, InProcess, Returns
  <1>4. /\ l.is = "return" => Follows(lines', e) /\ e \in Returns(lines')
        /\ l.is = "def" =>
             (Conforms(lines') <=> \A k \in DOMAIN l.args : Numbered(l.args[k]))
        /\ l.is # "return" /\ (l.is = "def" => \A k \in DOMAIN l.args : Numbered(l.args[k]))
             => Follows(lines', e + 1)
    BY <1>1, <1>2, <1>3, ReadsOne, BodyLine
  <1>5. CASE Header(l) /\ \E i \in DOMAIN l.args : BadArgument(l.args[i])
    <2>1. stage' = "idle" /\ result' = 10 /\ current' = current /\ l.is = "def"
      BY <1>5 DEF Header, Answer
    <2>2. ~Conforms(lines')
      BY <1>4, <1>5, <2>1, BadIsNotNumbered
    <2> QED
      BY <1>1, <2>1, <2>2, ReadsOne DEF Read, Reading, WasRead, Results, Later, Pending
  <1>6. CASE (Header(l) /\ ~\E i \in DOMAIN l.args : BadArgument(l.args[i])) \/ Pass(l)
    <2>1. /\ stage' = stage /\ result' = result /\ current' = current
          /\ l.is # "return"
          /\ l.is = "def" => \A k \in DOMAIN l.args : Numbered(l.args[k])
      BY <1>6, BadIsNotNumbered DEF Header, Pass
    <2>2. Follows(lines', e + 1) /\ e + 1 = Len(lines') + 1 /\ e + 1 \in Nat
      BY <1>1, <1>3, <1>4, <2>1, ReadsOne
    <2>3. AtLine(e + 1)'
      BY <1>1, <1>3, <2>1, <2>2, ReadsOne DEF AtLine
    <2> QED
      BY <1>1, <2>1, <2>2, <2>3, ReadsOne DEF Read, Reading, WasRead, Results, Later, Pending
  <1>7. CASE Return(l)
    <2>1. /\ stage' = stage /\ result' = result /\ current' = ProcessLine + 2
          /\ l.is = "return"
      BY <1>3, <1>7 DEF Return
    <2>2. Follows(lines', e) /\ e \in Returns(lines') /\ current' = ProcessLine + 2 + Len(lines') - e
      BY <1>1, <1>3, <1>4, <2>1, ReadsOne
    <2>3. AtLine(e)' /\ current' \in 0..EndLine
      BY SMTT(30), <1>1, <2>1, <2>2, ReadsOne DEF AtLine
    <2>4. stage' = "format" /\ result' = Pending /\ lines' \in Seq(Lines)
      BY <1>1, <2>1, ReadsOne
    <2>5. Reading' /\ WasRead'
      BY <2>2, <2>3, <2>4 DEF Reading, WasRead, Later
    <2> QED
      BY <2>3, <2>4, <2>5 DEF Read, Results, Later, Pending
  <1> QED
    BY <1>5, <1>6, <1>7

\* Before and after it: a line is compared with the template's.
LEMMA TemplateRead ==
    ASSUME Read, NEW l \in Lines, Same(l) \/ Differs(l)
    PROVE  Read' /\ (result' = 10 => ~Conforms(lines'))
  <1>1. ReadLine(l) /\ ~InProcess
    BY DEF Same, Differs
  <1>2. PICK e \in Nat : Follows(lines, e) /\ AtLine(e)
    BY <1>1, ReadsOne
  <1>3. CASE Differs(l)
    <2>1. stage' = "idle" /\ result' = 10 /\ current' = current /\ l # Template[current + 1]
      BY <1>3 DEF Differs, Answer
    <2>2. ~Conforms(lines')
      <3>1. CASE e = Len(lines) + 1 /\ current < ProcessLine /\ Len(lines) = current
        BY <1>1, <1>2, <2>1, <3>1, ReadsOne, PrefixLine
      <3>2. CASE e \in Returns(lines) /\ current = ProcessLine + 2 + Len(lines) - e
        <4>1. current + 1 = ProcessLine + 3 + Len(lines) - e
          BY SMTT(30), <1>1, <3>2, ReadsOne
        <4> QED
          BY SMTT(30), <1>1, <1>2, <2>1, <3>2, <4>1, ReadsOne, SuffixLine
      <3> QED
        BY <1>1, <1>2, <3>1, <3>2 DEF AtLine, InProcess
    <2>3. Read'
      BY <1>1, <2>1, ReadsOne DEF Read, Reading, WasRead, Results, Later, Pending
    <2> QED
      BY <2>2, <2>3
  <1>4. CASE Same(l)
    <2>1. l = Template[current + 1] /\ result' = result
      BY <1>4 DEF Same
    <2>2. CASE e = Len(lines) + 1 /\ current < ProcessLine /\ Len(lines) = current
      <3>1. Follows(lines', e + 1)
        BY <1>1, <1>2, <2>1, <2>2, ReadsOne, PrefixLine
      <3>2. stage' = "format" /\ current' = current + 1
        BY <1>1, <1>4, <2>2, ReadsOne DEF Same
      <3>3. AtLine(e + 1)' /\ e + 1 \in Nat /\ current' \in 0..EndLine
        BY <1>1, <2>2, <3>2, ReadsOne DEF AtLine
      <3> QED
        BY <1>1, <2>1, <3>1, <3>2, <3>3, ReadsOne
           DEF Read, Reading, WasRead, Results, Later, Pending
    <2>3. CASE e \in Returns(lines) /\ current = ProcessLine + 2 + Len(lines) - e
      <3>1. current + 1 = ProcessLine + 3 + Len(lines) - e
        BY SMTT(30), <1>1, <2>3, ReadsOne
      <3>2. Follows(lines', e) /\ e \in Returns(lines')
        BY SMTT(30), <1>1, <1>2, <2>1, <2>3, <3>1, ReadsOne, SuffixLine
      <3>3. CASE current = EndLine
        <4>1. stage' = "rest" /\ current' = current
          BY <1>4, <3>3 DEF Same
        <4>2. Whole(e)'
          BY SMTT(30), <1>1, <2>3, <3>2, <3>3, ReadsOne DEF Whole
        <4> QED
          BY <1>1, <2>1, <3>2, <4>1, <4>2, ReadsOne
             DEF Read, Reading, WasRead, Results, Later, Pending
      <3>4. CASE current # EndLine
        <4>1. stage' = "format" /\ current' = current + 1
          BY <1>1, <1>4, <3>4, ReadsOne DEF Same
        <4>2. AtLine(e)' /\ current' \in 0..EndLine
          BY SMTT(30), <1>1, <2>3, <3>2, <3>4, <4>1, ReadsOne DEF AtLine
        <4> QED
          BY <1>1, <2>1, <3>2, <4>1, <4>2, ReadsOne
             DEF Read, Reading, WasRead, Results, Later, Pending
      <3> QED
        BY <3>3, <3>4
    <2> QED
      BY <1>1, <1>2, <2>2, <2>3 DEF AtLine, InProcess
  <1> QED
    BY <1>3, <1>4

LEMMA FoundRead ==
    ASSUME Read, NEW r \in Rests, Rest(r)
    PROVE  Read'
  <1>1. /\ stage = "rest" /\ stage' = "calls" /\ lines' = lines \o r
        /\ current' = current /\ result' = result
    BY DEF Rest
  <1>2. PICK e \in Nat : Follows(lines, e) /\ Whole(e)
    BY <1>1 DEF Read, WasRead, Later
  <1>3. lines' \in Seq(Lines) /\ Follows(lines', e) /\ Whole(e)'
    BY <1>1, <1>2, RestLines, ProgramAssumption DEF Read, Whole
  <1> QED
    BY <1>1, <1>3 DEF Read, Reading, WasRead, Later

\* The analysis and the end of the file leave the lines alone.
LEMMA KeptRead ==
    ASSUME Read, UNCHANGED <<lines, current>>, result' \in Results,
           \/ stage \in Later /\ stage' \in {"idle"} \cup Later
           \/ stage' = "idle" /\ result' = 10
           \/ UNCHANGED <<stage, result>>,
           stage' # "idle" => result' = Pending
    PROVE  Read'
  <1>1. \A e : Follows(lines, e) => Follows(lines', e)
    OBVIOUS
  <1>2. \A e : (Whole(e) => Whole(e)') /\ (AtLine(e) => AtLine(e)')
    BY DEF Whole, AtLine
  <1> QED
    BY <1>1, <1>2 DEF Read, Reading, WasRead, Later

LEMMA NextRead == Read /\ [Next]_vars => Read'
  <1> SUFFICES ASSUME Read, [Next]_vars PROVE Read'
    OBVIOUS
  <1>1. CASE Verify \/ Update
    BY <1>1, ForgetRead
  <1>2. CASE \E l \in Lines : Scan(l)
    BY <1>2, ProcessRead, TemplateRead DEF Scan
  <1>3. CASE EndOfFile
    BY <1>3, KeptRead DEF EndOfFile, Answer, scan, Results
  <1>4. CASE \E r \in Rests : Rest(r)
    BY <1>4, FoundRead
  <1>5. CASE CheckFunc
    BY <1>5, KeptRead DEF CheckFunc, Answer, scan, Results, Later, Read
  <1>6. CASE Sources
    BY <1>6, KeptRead DEF Sources, scan, Later, Read
  <1>7. CASE NoSchema
    BY <1>7, KeptRead DEF NoSchema, Answer, scan, Results, Later, Read
  <1>8. CASE ModelApp
    BY <1>8, KeptRead DEF ModelApp, Answer, scan, Results, Later, Read
  <1>9. CASE PysaFails
    BY <1>9, KeptRead DEF PysaFails, Answer, scan, Results, Later, Read
  <1>10. CASE Analyze
    BY <1>10, KeptRead DEF Analyze, Answer, scan, Results, Later, Read
  <1>11. CASE UNCHANGED vars
    BY <1>11, KeptRead DEF vars, scan, Read
  <1> QED
    BY <1>1, <1>2, <1>3, <1>4, <1>5, <1>6, <1>7, <1>8, <1>9, <1>10, <1>11 DEF Next

\* A return that is first among those of a program is the one Complete asks for.
LEMMA CompleteAt ==
    ASSUME NEW ls \in Seq(Lines), NEW e \in Nat, EndsAt(ls, e)
    PROVE  Complete(ls) <=> e \in Returns(ls) /\ Len(ls) - e >= EndLine - ProcessLine - 1
  <1>1. Len(ls) \in Nat /\ DOMAIN ls = 1..Len(ls) /\ ProcessLine \in Nat /\ EndLine \in Nat
    BY SeqFacts, TemplateAssumption
  <1>2. Complete(ls) <=>
          \E i \in Returns(ls) : Len(ls) - i >= EndLine - ProcessLine - 1
    BY DEF Complete, Returns
  <1>3. Returns(ls) \subseteq 1..Len(ls)
    BY <1>1 DEF Returns
  <1>4. \A i \in Returns(ls) : e <= i /\ e \in Returns(ls)
    BY <1>1, <1>3 DEF EndsAt
  <1> QED
    BY <1>1, <1>2, <1>3, <1>4

LEMMA ReadIsFormat == Read => FormatIsTheTemplates
  <1> SUFFICES ASSUME Read PROVE FormatIsTheTemplates
    OBVIOUS
  <1>1. lines \in Seq(Lines) /\ Len(lines) \in Nat /\ ProcessLine \in Nat /\ EndLine \in Nat
    BY SeqFacts, TemplateAssumption DEF Read
  <1>2. ASSUME stage = "format" PROVE Conforms(lines) /\ ~Complete(lines)
    <2>1. PICK e \in Nat : Follows(lines, e) /\ AtLine(e)
      BY <1>2 DEF Read, Reading
    <2>2. ~(e \in Returns(lines) /\ Len(lines) - e >= EndLine - ProcessLine - 1)
      <3>1. current <= EndLine /\ current \in Nat
        BY <1>1 DEF Read
      <3>2. e \in Returns(lines) => e <= Len(lines)
        BY SeqFacts, <1>1 DEF Returns
      <3> QED
        BY <1>1, <2>1, <3>1, <3>2 DEF AtLine
    <2> QED
      BY <1>1, <2>1, <2>2, ConformsIffFollows, CompleteAt DEF Follows
  <1>3. ASSUME stage \in Later \/ result \notin {Pending, 10}
        PROVE  Conforms(lines) /\ Complete(lines)
    <2>1. PICK e \in Nat : Follows(lines, e) /\ Whole(e)
      BY <1>3 DEF Read, WasRead
    <2> QED
      BY <1>1, <2>1, ConformsIffFollows, CompleteAt DEF Follows, Whole
  <1> QED
    BY <1>2, <1>3 DEF FormatIsTheTemplates

\* The line-by-line comparison with its jump over process_data finds exactly
\* the programs that are the template around one process_data, whatever the
\* template and the places of process_data and of the last line in it
\* (analyzer.py 146-174).
THEOREM ComparisonFindsTheTemplate == Spec => []FormatIsTheTemplates
  BY InitRead, NextRead, ReadIsFormat, PTL DEF Spec

LEMMA RejectionIsRight ==
    ASSUME Read, [Next]_vars, stage = "format", result' = 10, lines' # lines
    PROVE  ~Conforms(lines')
  <1>1. PICK l \in Lines : Scan(l)
    BY DEF Next, Verify, Update, Forget, Pending, EndOfFile, Rest, CheckFunc, Sources,
           NoSchema, ModelApp, PysaFails, Analyze, vars, scan
  <1> QED
    BY <1>1, ProcessRead, TemplateRead DEF Scan

\* A line is turned down only if no program that goes on from it conforms
\* (analyzer.py 151-170).
THEOREM RejectionsAreFinal == Spec => RejectedLineIsWrong
  <1>1. Read /\ [Next]_vars =>
          [stage = "format" /\ result' = 10 /\ lines' # lines => ~Conforms(lines')]_vars
    BY RejectionIsRight
  <1> QED
    BY InitRead, NextRead, <1>1, PTL DEF Spec, RejectedLineIsWrong

-----------------------------------------------------------------------------
(* Names: what joining the keys of a path gives.                           *)

LEMMA LeastOf ==
    ASSUME NEW T \in SUBSET Nat, T # {}
    PROVE  \E n \in T : \A m \in T : n <= m
  <1> DEFINE R == {ss \in Nat \X Nat : ss[1] < ss[2]}
  <1>1. IsWellFoundedOn(R, Nat)
    BY NatLessThanWellFounded DEF OpToRel
  <1>2. \A m, n \in Nat : <<m, n>> \in R <=> m < n
    OBVIOUS
  <1> HIDE DEF R
  <1>3. PICK n \in T : \A m \in T : ~ (<<m, n>> \in R)
    BY <1>1, WFMin
  <1>4. \A m \in T : ~(m < n)
    BY <1>2, <1>3
  <1>5. n \in T /\ n \in Nat /\ \A m \in T : m \in Nat
    BY <1>3
  <1> QED
    BY <1>4, <1>5

\* The joins of the first keys, one after the other.
Joins(s, n, f) == f = [i \in 1..n |-> IF i = 1 THEN s[i] ELSE f[i - 1] \o s[i]]

LEMMA JoinsExist ==
    ASSUME NEW s, NEW N \in Nat
    PROVE  \A n \in 1..N : \E f : Joins(s, n, f)
  <1> DEFINE T == {n \in 1..N : ~\E f : Joins(s, n, f)}
  <1> SUFFICES ASSUME T # {} PROVE FALSE
    OBVIOUS
  <1>1. T \in SUBSET Nat
    OBVIOUS
  <1> HIDE DEF T
  <1>2. PICK n \in T : \A m \in T : n <= m
    BY <1>1, LeastOf
  <1>3. n \in 1..N /\ ~\E f : Joins(s, n, f)
    BY DEF T
  <1>4. CASE n = 1
    <2>1. Joins(s, 1, [i \in 1..1 |-> s[1]])
      BY DEF Joins
    <2> QED
      BY <1>3, <1>4, <2>1
  <1>5. CASE n > 1
    <2>1. n - 1 \in 1..N /\ n - 1 \notin T
      BY <1>2, <1>3, <1>5
    <2>2. PICK f : Joins(s, n - 1, f)
      BY <2>1 DEF T
    <2> DEFINE join == f[n - 1] \o s[n]
               g == [i \in 1..n |-> IF i = n THEN join ELSE f[i]]
    <2>3. /\ g[n] = join /\ n - 1 \in 1..(n - 1)
          /\ \A i \in 1..(n - 1) : g[i] = f[i]
      <3> HIDE DEF join
      <3> QED
        BY <1>3, <1>5
    <2>4. \A i \in 1..(n - 1) : f[i] = IF i = 1 THEN s[i] ELSE f[i - 1] \o s[i]
      BY <2>2 DEF Joins
    <2>5. \A i \in 1..n : i = n \/ (i \in 1..(n - 1) /\ (i # 1 => i - 1 \in 1..(n - 1)))
      BY <1>3
    <2>6. ASSUME NEW i \in 1..n
          PROVE  g[i] = IF i = 1 THEN s[i] ELSE g[i - 1] \o s[i]
      <3> HIDE DEF g
      <3>1. CASE i = n
        <4>1. g[n - 1] = f[n - 1] /\ n # 1
          BY <1>5, <2>3
        <4>2. g[n] = g[n - 1] \o s[n]
          BY <2>3, <4>1
        <4> QED
          BY <3>1, <4>1, <4>2
      <3>2. CASE i \in 1..(n - 1) /\ i = 1
        BY <2>3, <2>4, <3>2
      <3>3. CASE i \in 1..(n - 1) /\ i # 1
        <4>1. i - 1 \in 1..(n - 1)
          BY <2>5, <3>3
        <4>2. g[i - 1] = f[i - 1] /\ g[i] = f[i]
          BY <2>3, <3>3, <4>1
        <4> QED
          BY <2>4, <3>3, <4>2
      <3> QED
        BY <2>5, <3>1, <3>2, <3>3
    <2>7. Joins(s, n, g)
      <3>1. g = [i \in 1..n |-> g[i]]
        OBVIOUS
      <3> HIDE DEF g
      <3> QED
        BY <2>6, <3>1 DEF Joins
    <2> QED
      BY <1>3, <2>7
  <1> QED
    BY <1>3, <1>4, <1>5

\* FlattenSeq is the last of them.
LEMMA FlattenIsJoin ==
    ASSUME NEW s, Len(s) \in Nat, Len(s) # 0
    PROVE  \E f : Joins(s, Len(s), f) /\ FlattenSeq(s) = f[Len(s)]
  <1> DEFINE Step(f) == [i \in 1..Len(s) |-> IF i = 1 THEN s[i] ELSE f[i - 1] \o s[i]]
             flatten == CHOOSE f : f = Step(f)
  <1>1. PICK f : Joins(s, Len(s), f)
    <2>1. Len(s) \in 1..Len(s)
      OBVIOUS
    <2> QED
      BY <2>1, JoinsExist
  <1>2. f = Step(f)
    BY <1>1 DEF Joins
  <1>3. flatten = Step(flatten)
    <2> HIDE DEF Step
    <2> QED
      BY <1>2
  <1>4. FlattenSeq(s) = flatten[Len(s)]
    BY DEF FlattenSeq
  <1>5. Joins(s, Len(s), flatten)
    <2> HIDE DEF flatten
    <2> QED
      BY <1>3 DEF Joins
  <1> QED
    BY <1>4, <1>5

\* A join of keys, none of which is empty, has at least a part for every key.
LEMMA JoinOfKeys ==
    ASSUME NEW S, NEW s \in Seq(Seq(S) \ {<<>>}), NEW f, Joins(s, Len(s), f)
    PROVE  \A n \in 1..Len(s) : f[n] \in Seq(S) /\ Len(f[n]) >= n
  <1> DEFINE T == {n \in 1..Len(s) : ~(f[n] \in Seq(S) /\ Len(f[n]) >= n)}
  <1> SUFFICES ASSUME T # {} PROVE FALSE
    OBVIOUS
  <1>1. T \in SUBSET Nat
    OBVIOUS
  <1> HIDE DEF T
  <1>2. PICK n \in T : \A m \in T : n <= m
    BY <1>1, LeastOf
  <1>3. n \in 1..Len(s) /\ ~(f[n] \in Seq(S) /\ Len(f[n]) >= n)
    BY DEF T
  <1>4. Len(s) \in Nat /\ s[n] \in Seq(S) /\ s[n] # <<>>
    BY <1>3, SeqFacts
  <1>5. Len(s[n]) \in Nat /\ Len(s[n]) >= 1
    BY <1>4, EmptySeq, LenProperties
  <1>6. n # 1
    BY <1>3, <1>4, <1>5 DEF Joins
  <1>7. n - 1 \in 1..Len(s) /\ n - 1 \notin T
    BY <1>2, <1>3, <1>4, <1>6
  <1>8. f[n - 1] \in Seq(S) /\ Len(f[n - 1]) >= n - 1
    BY <1>7 DEF T
  <1>9. f[n] = f[n - 1] \o s[n]
    BY <1>3, <1>6 DEF Joins
  <1>10. f[n] \in Seq(S) /\ Len(f[n]) = Len(f[n - 1]) + Len(s[n])
    BY <1>4, <1>8, <1>9, ConcatProperties
  <1>11. Len(f[n - 1]) \in Nat
    BY <1>8, LenProperties
  <1>12. Len(f[n]) >= n
    <2>1. \A a, b \in Nat : a >= n - 1 /\ b >= 1 => a + b >= n
      BY <1>3
    <2> QED
      BY <1>5, <1>8, <1>10, <1>11, <2>1
  <1> QED
    BY <1>3, <1>10, <1>12

\* A path's name has as many parts as the path has keys, or more; a path of one
\* key is named by the key.
LEMMA NameOfPath ==
    ASSUME NEW S, NEW s \in Seq(Seq(S) \ {<<>>})
    PROVE  /\ FlattenSeq(s) \in Seq(S) /\ Len(FlattenSeq(s)) >= Len(s)
           /\ Len(s) = 1 => FlattenSeq(s) = s[1]
  <1>1. Len(s) \in Nat
    BY LenProperties
  <1>2. CASE Len(s) = 0
    <2>1. s = <<>> /\ FlattenSeq(s) = s
      BY <1>2, EmptySeq DEF FlattenSeq
    <2>2. s \in Seq(S)
      BY <2>1, EmptySeq
    <2>3. Len(s) >= Len(s) /\ Len(s) # 1
      BY <1>2
    <2> QED
      BY <2>1, <2>2, <2>3
  <1>3. CASE Len(s) # 0
    <2>1. PICK f : Joins(s, Len(s), f) /\ FlattenSeq(s) = f[Len(s)]
      BY <1>1, <1>3, FlattenIsJoin
    <2>2. f[Len(s)] \in Seq(S) /\ Len(f[Len(s)]) >= Len(s)
      BY <1>1, <1>3, <2>1, JoinOfKeys
    <2>3. Len(s) = 1 => f[1] = s[1]
      BY <2>1 DEF Joins
    <2> QED
      BY <2>1, <2>2, <2>3
  <1> QED
    BY <1>2, <1>3

\* A path of keys without underscores is named by its keys, one after the other.
LEMMA NameOfPlainPath ==
    ASSUME NEW S, NEW s \in Seq(Seq(S) \ {<<>>}), \A i \in 1..Len(s) : Len(s[i]) = 1
    PROVE  /\ FlattenSeq(s) \in Seq(S) /\ Len(FlattenSeq(s)) = Len(s)
           /\ \A i \in 1..Len(s) : FlattenSeq(s)[i] = s[i][1]
  <1>1. Len(s) \in Nat
    BY LenProperties
  <1>2. CASE Len(s) = 0
    BY <1>1, <1>2, EmptySeq DEF FlattenSeq
  <1>3. CASE Len(s) # 0
    <2>1. PICK f : Joins(s, Len(s), f) /\ FlattenSeq(s) = f[Len(s)]
      BY <1>1, <1>3, FlattenIsJoin
    <2> DEFINE Plain(n) == Len(f[n]) = n /\ \A i \in 1..n : f[n][i] = s[i][1]
               T == {n \in 1..Len(s) : ~Plain(n)}
    <2>2. \A n \in 1..Len(s) : f[n] \in Seq(S)
      BY <2>1, JoinOfKeys
    <2>3. T = {}
      <3> SUFFICES ASSUME T # {} PROVE FALSE
        OBVIOUS
      <3>1. T \in SUBSET Nat
        OBVIOUS
      <3> HIDE DEF T
      <3>2. PICK n \in T : \A m \in T : n <= m
        BY <3>1, LeastOf
      <3>3. n \in 1..Len(s) /\ ~Plain(n)
        BY DEF T
      <3>4. s[n] \in Seq(S) /\ Len(s[n]) = 1
        BY <3>3, SeqFacts
      <3>5. n # 1
        <4>1. f[1] = s[1]
          BY <2>1, <3>3 DEF Joins
        <4>2. n = 1 => \A i \in 1..n : i = 1
          OBVIOUS
        <4> QED
          BY <3>3, <3>4, <4>1, <4>2
      <3>6. n - 1 \in 1..Len(s) /\ n - 1 \notin T
        BY <1>1, <3>2, <3>3, <3>5
      <3>7. f[n - 1] \in Seq(S) /\ Len(f[n - 1]) = n - 1
            /\ \A i \in 1..(n - 1) : f[n - 1][i] = s[i][1]
        BY <2>2, <3>6 DEF T
      <3>8. f[n] = f[n - 1] \o s[n]
        BY <2>1, <3>3, <3>5 DEF Joins
      <3>9. /\ Len(f[n]) = n
            /\ \A i \in 1..n : f[n][i] = IF i <= n - 1 THEN f[n - 1][i] ELSE s[n][i - (n - 1)]
        <4>1. (n - 1) + 1 = n /\ n \in Nat
          BY <1>1, <3>3
        <4>2. /\ Len(f[n]) = Len(f[n - 1]) + Len(s[n])
              /\ \A i \in 1..(Len(f[n - 1]) + Len(s[n])) :
                   f[n][i] = IF i <= Len(f[n - 1]) THEN f[n - 1][i]
                             ELSE s[n][i - Len(f[n - 1])]
          <5> DEFINE t == f[n - 1]
                     u == s[n]
          <5>1. t \in Seq(S) /\ u \in Seq(S) /\ f[n] = t \o u
            BY <3>4, <3>7, <3>8
          <5> HIDE DEF t, u
          <5>2. /\ Len(f[n]) = Len(t) + Len(u)
                /\ \A i \in 1..(Len(t) + Len(u)) :
                     f[n][i] = IF i <= Len(t) THEN t[i] ELSE u[i - Len(t)]
            BY <5>1, ConcatProperties
          <5> QED
            BY <5>2 DEF t, u
        <4> QED
          BY <3>4, <3>7, <4>1, <4>2
      <3>10. \A i \in 1..n : (i \in 1..(n - 1) /\ i <= n - 1)
                             \/ (i = n /\ ~(i <= n - 1) /\ i - (n - 1) = 1)
        BY <1>1, <3>3
      <3>11. \A i \in 1..n : f[n][i] = s[i][1]
        BY <3>7, <3>9, <3>10
      <3> QED
        BY <3>3, <3>9, <3>11
    <2>4. Plain(Len(s))
      BY SMTT(30), <1>1, <1>3, <2>3
    <2> QED
      BY <1>1, <1>3, <2>1, <2>2, <2>4
  <1> QED
    BY <1>2, <1>3

Joint(u, v) == u \o v

LEMMA Joined ==
    ASSUME NEW S, NEW u \in Seq(S), NEW v \in Seq(S)
    PROVE  /\ Len(u) \in Nat /\ Len(v) \in Nat
           /\ Joint(u, v) \in Seq(S) /\ Len(Joint(u, v)) = Len(u) + Len(v)
           /\ \A i \in 1..Len(u) : Joint(u, v)[i] = u[i]
           /\ \A j \in (Len(u) + 1)..(Len(u) + Len(v)) : Joint(u, v)[j] = v[j - Len(u)]
  <1>1. Len(u) \in Nat /\ Len(v) \in Nat
    BY LenProperties
  <1>2. u \o v \in Seq(S) /\ Len(u \o v) = Len(u) + Len(v)
    BY ConcatProperties
  <1>3. \A i \in 1..(Len(u) + Len(v)) :
          (u \o v)[i] = IF i <= Len(u) THEN u[i] ELSE v[i - Len(u)]
    BY ConcatProperties
  <1>4. \A i \in 1..Len(u) : i \in 1..(Len(u) + Len(v)) /\ i <= Len(u)
    BY <1>1
  <1>5. \A j \in (Len(u) + 1)..(Len(u) + Len(v)) :
          j \in 1..(Len(u) + Len(v)) /\ ~(j <= Len(u))
    BY <1>1
  <1>6. \A i \in 1..Len(u) : (u \o v)[i] = u[i]
    BY <1>3, <1>4
  <1>7. \A j \in (Len(u) + 1)..(Len(u) + Len(v)) : (u \o v)[j] = v[j - Len(u)]
    BY <1>3, <1>5
  <1> QED
    BY <1>1, <1>2, <1>6, <1>7 DEF Joint

\* Both halves of get_taint_name and of the way back: the argument is the first
\* two parts of the name, the attribute what is behind the third.
LEMMA SinkOfTaint ==
    ASSUME NEW a \in Seq(Words), Len(a) >= 2, NEW d \in Words,
           NEW path \in Seq(Seq(Words) \ {<<>>}), path # <<>>,
           NEW name, name = a \o <<d>> \o FlattenSeq(path)
    PROVE  /\ SinkName(name).argument = <<a[1], a[2]>>
           /\ SinkName(name).attribute \in Seq(Words)
           /\ Len(SinkName(name).attribute) = Len(a) - 2 + Len(FlattenSeq(path))
           /\ Len(a) = 2 => SinkName(name).attribute = FlattenSeq(path)
  <1> DEFINE F == FlattenSeq(path)
             b == a \o <<d>>
             attribute == SubSeq(name, 4, Len(name))
             argument == SubSeq(name, 1, 2)
  <1>1. /\ F \in Seq(Words) /\ Len(F) \in Nat /\ Len(F) >= 1
        /\ Len(a) \in Nat
    <2>1. F \in Seq(Words) /\ Len(F) >= Len(path)
      BY NameOfPath
    <2>2. Len(path) \in Nat /\ Len(path) # 0
      BY EmptySeq
    <2>3. Len(F) \in Nat /\ Len(a) \in Nat
      BY <2>1, LenProperties
    <2> QED
      BY <2>1, <2>2, <2>3
  <1> HIDE DEF F
  <1>2. /\ b \in Seq(Words) /\ Len(b) = Len(a) + 1
        /\ \A i \in 1..Len(a) : b[i] = a[i]
    <2>1. <<d>> \in Seq(Words) /\ Len(<<d>>) = 1
      OBVIOUS
    <2> QED
      BY <1>1, <2>1, ConcatProperties
  <1>3. name = Joint(b, F)
    BY DEF F, Joint
  <1> HIDE DEF b
  <1>4. /\ name \in Seq(Words) /\ Len(name) = Len(a) + 1 + Len(F)
        /\ \A i \in 1..(Len(a) + 1) : name[i] = b[i]
        /\ \A i \in 1..Len(F) : name[Len(a) + 1 + i] = F[i]
    <2>1. /\ name \in Seq(Words) /\ Len(name) = Len(b) + Len(F)
          /\ \A i \in 1..Len(b) : name[i] = b[i]
          /\ \A j \in (Len(b) + 1)..(Len(b) + Len(F)) : name[j] = F[j - Len(b)]
      <3>1. b \in Seq(Words) /\ F \in Seq(Words)
        BY <1>1, <1>2
      <3>2. /\ Joint(b, F) \in Seq(Words) /\ Len(Joint(b, F)) = Len(b) + Len(F)
            /\ \A i \in 1..Len(b) : Joint(b, F)[i] = b[i]
            /\ \A j \in (Len(b) + 1)..(Len(b) + Len(F)) : Joint(b, F)[j] = F[j - Len(b)]
        BY <3>1, Joined
      <3> QED
        BY <1>3, <3>2
    <2>2. ASSUME NEW i \in 1..Len(F) PROVE name[Len(a) + 1 + i] = F[i]
      <3>1. /\ Len(a) + 1 + i \in (Len(b) + 1)..(Len(b) + Len(F))
            /\ Len(a) + 1 + i - Len(b) = i
        BY <1>1, <1>2
      <3> QED
        BY <2>1, <3>1
    <2> QED
      BY <1>2, <2>1, <2>2
  <1>5. name[1] = a[1] /\ name[2] = a[2]
    BY <1>1, <1>2, <1>4
  <1>6. \A i \in 1..Len(name) : name[i] \in Words
    BY <1>4, ElementOfSeq
  <1>7. argument = <<a[1], a[2]>>
    <2>1. /\ argument \in Seq(Words) /\ Len(argument) = 2
          /\ \A i \in 1..2 : argument[i] = name[i]
      <3>1. \A i \in 1..2 : name[i] \in Words /\ 1 + i - 1 = i
        BY <1>1, <1>4, <1>6
      <3> QED
        BY <3>1, SubSeqProperties
    <2>2. a[1] \in Words /\ a[2] \in Words
      BY <1>1, ElementOfSeq
    <2>3. <<a[1], a[2]>> \in Seq(Words) /\ Len(<<a[1], a[2]>>) = 2
      BY <2>2
    <2> HIDE DEF argument
    <2> QED
      BY <1>5, <2>1, <2>3, SeqEqual
  <1>8. /\ attribute \in Seq(Words) /\ Len(attribute) = Len(name) - 3
        /\ \A i \in 1..(Len(name) - 3) : attribute[i] = name[3 + i]
    <2>1. \A i \in 4..Len(name) : name[i] \in Words
      BY <1>1, <1>4, <1>6
    <2>2. 4 <= Len(name) /\ Len(name) \in Int /\ Len(name) - 4 + 1 = Len(name) - 3
      BY <1>1, <1>4
    <2>3. \A i \in 1..(Len(name) - 3) : 4 + i - 1 = 3 + i
      BY <2>2
    <2> QED
      BY <2>1, <2>2, <2>3, SubSeqProperties
  <1>9. ASSUME Len(a) = 2 PROVE attribute = F
    <2>1. Len(attribute) = Len(F) /\ Len(name) - 3 = Len(F)
      BY <1>1, <1>4, <1>8, <1>9
    <2>2. \A i \in 1..Len(F) : name[3 + i] = F[i]
      BY SMTT(30), <1>1, <1>4, <1>9
    <2> HIDE DEF attribute
    <2> QED
      BY <1>1, <1>8, <2>1, <2>2, SeqEqual
  <1>10. SinkName(name).argument = argument /\ SinkName(name).attribute = attribute
    BY DEF SinkName
  <1>11. Len(attribute) = Len(a) - 2 + Len(F)
    <2>1. Len(attribute) = Len(name) - 3 /\ Len(name) = Len(a) + 1 + Len(F)
      BY <1>4, <1>8
    <2> HIDE DEF attribute
    <2> QED
      BY <1>1, <2>1
  <1> HIDE DEF argument, attribute
  <1> QED
    BY <1>7, <1>8, <1>9, <1>10, <1>11 DEF F

\* The return path of a path that is split again at every underscore.
LEMMA SplitAgain ==
    ASSUME NEW path \in Seq(Seq(Words) \ {<<>>}), path # <<>>
    PROVE  /\ PlainPath(path) => ReturnPath(path) = path
           /\ \A k : ReturnPath(path) = <<k>> => path = <<k>>
  <1> DEFINE n == Len(path) - 1
             front == Front(path)
             above == FlattenSeq(front)
             g == [i \in DOMAIN above |-> <<above[i]>>]
  <1>1. n \in Nat /\ Len(path) = n + 1 /\ DOMAIN path = 1..(n + 1)
        /\ \A i \in 1..(n + 1) : path[i] \in Seq(Words) \ {<<>>}
    <2>1. Len(path) \in Nat /\ Len(path) # 0
      BY EmptySeq
    <2> QED
      BY <2>1, SeqFacts
  <1> HIDE DEF n
  <1>2. /\ front \in Seq(Seq(Words) \ {<<>>}) /\ Len(front) = n
        /\ \A i \in 1..n : front[i] = path[i]
    <2>1. \A i \in 1..n : path[i] \in Seq(Words) \ {<<>>} /\ 1 + i - 1 = i
      BY <1>1
    <2>2. front = SubSeq(path, 1, n)
      BY DEF Front, n
    <2>3. n \in Int /\ n - 1 + 1 = n /\ (1 <= n \/ n = 0)
      BY <1>1
    <2> HIDE DEF front
    <2> QED
      BY <2>1, <2>2, <2>3, SubSeqProperties
  <1> HIDE DEF front
  <1>3. above \in Seq(Words) /\ Len(above) >= n
    BY <1>2, NameOfPath
  <1>4. Len(above) \in Nat /\ DOMAIN above = 1..Len(above)
        /\ \A i \in 1..Len(above) : above[i] \in Words
    BY <1>3, SeqFacts
  <1> HIDE DEF above
  <1>5. /\ g \in Seq(Seq(Words)) /\ Len(g) = Len(above)
        /\ \A i \in 1..Len(above) : g[i] = <<above[i]>>
    <2>1. g \in [1..Len(above) -> Seq(Words)]
      BY <1>4
    <2>2. \A i \in 1..Len(above) : g[i] = <<above[i]>>
      BY <1>4
    <2>3. DOMAIN g = 1..Len(above)
      BY <1>4
    <2> HIDE DEF g
    <2>4. g \in Seq(Seq(Words))
      BY SMTT(30), <1>4, <2>1, SeqDef
    <2>5. Len(g) = Len(above)
      BY <1>4, <2>3, <2>4, LenProperties
    <2> QED
      BY <2>2, <2>4, <2>5
  <1>6. ReturnPath(path) = g \o <<path[n + 1]>>
    BY <1>1 DEF ReturnPath, Last, above, front
  <1> HIDE DEF g
  <1>7. path \in Seq(Seq(Words))
    BY SeqMonotonic
  <1>8. /\ ReturnPath(path) \in Seq(Seq(Words)) /\ Len(ReturnPath(path)) = Len(above) + 1
        /\ \A i \in 1..Len(above) : ReturnPath(path)[i] = <<above[i]>>
        /\ ReturnPath(path)[Len(above) + 1] = path[n + 1]
    <2> DEFINE last == <<path[n + 1]>>
    <2>1. path[n + 1] \in Seq(Words)
      BY <1>1
    <2>2. last \in Seq(Seq(Words)) /\ Len(last) = 1 /\ last[1] = path[n + 1]
      BY <2>1
    <2>3. ReturnPath(path) = Joint(g, last)
      BY <1>6 DEF Joint
    <2> HIDE DEF last
    <2>4. /\ ReturnPath(path) \in Seq(Seq(Words)) /\ Len(ReturnPath(path)) = Len(g) + Len(last)
          /\ \A i \in 1..Len(g) : ReturnPath(path)[i] = g[i]
          /\ \A j \in (Len(g) + 1)..(Len(g) + Len(last)) :
               ReturnPath(path)[j] = last[j - Len(g)]
      <3>1. g \in Seq(Seq(Words)) /\ last \in Seq(Seq(Words))
        BY <1>5, <2>2
      <3>2. /\ Joint(g, last) \in Seq(Seq(Words))
            /\ Len(Joint(g, last)) = Len(g) + Len(last)
            /\ \A i \in 1..Len(g) : Joint(g, last)[i] = g[i]
            /\ \A j \in (Len(g) + 1)..(Len(g) + Len(last)) :
                 Joint(g, last)[j] = last[j - Len(g)]
        BY <3>1, Joined
      <3> QED
        BY <2>3, <3>2
    <2>5. /\ Len(above) + 1 \in (Len(g) + 1)..(Len(g) + Len(last))
          /\ Len(above) + 1 - Len(g) = 1
      BY <1>4, <1>5, <2>2
    <2>6. ReturnPath(path)[Len(above) + 1] = path[n + 1]
      BY <2>2, <2>4, <2>5
    <2>7. \A i \in 1..Len(above) : ReturnPath(path)[i] = <<above[i]>>
      BY <1>5, <2>4
    <2>8. Len(ReturnPath(path)) = Len(above) + 1
      BY <1>5, <2>2, <2>4
    <2> QED
      BY <2>4, <2>6, <2>7, <2>8
  <1>9. ASSUME PlainPath(path) PROVE ReturnPath(path) = path
    <2>1. \A i \in 1..n : Len(path[i]) = 1
      BY <1>1, <1>9 DEF PlainPath
    <2>2. Len(above) = n /\ \A i \in 1..n : above[i] = path[i][1]
      <3>1. \A i \in 1..Len(front) : Len(front[i]) = 1
        BY <1>2, <2>1
      <3>2. /\ Len(above) = Len(front)
            /\ \A i \in 1..Len(front) : above[i] = front[i][1]
        BY <1>2, <3>1, NameOfPlainPath DEF above
      <3> QED
        BY <1>2, <3>2
    <2>3. ASSUME NEW i \in 1..n PROVE ReturnPath(path)[i] = path[i]
      <3>1. path[i] \in Seq(Words) /\ Len(path[i]) = 1
        BY <1>1, <2>1
      <3>2. path[i][1] \in Words
        BY <3>1, ElementOfSeq
      <3>3. <<path[i][1]>> \in Seq(Words) /\ Len(<<path[i][1]>>) = 1
        BY <3>2
      <3>4. <<path[i][1]>> = path[i]
        BY <3>1, <3>3, SeqEqual
      <3> QED
        BY <1>8, <2>2, <3>4
    <2>4. \A i \in 1..(n + 1) : i \in 1..n \/ i = n + 1
      BY <1>1
    <2>5. Len(ReturnPath(path)) = Len(path) /\ \A i \in 1..Len(path) : ReturnPath(path)[i] = path[i]
      BY <1>1, <1>8, <2>2, <2>3, <2>4
    <2> QED
      BY <1>7, <1>8, <2>5, SeqEqual
  <1>10. ASSUME NEW k, ReturnPath(path) = <<k>> PROVE path = <<k>>
    <2>1. Len(<<k>>) = 1 /\ <<k>>[1] = k
      OBVIOUS
    <2>2. Len(above) = 0 /\ n = 0
      <3>1. Len(above) + 1 = 1
        BY <1>8, <1>10, <2>1
      <3> QED
        BY <1>1, <1>3, <1>4, <3>1
    <2>3. path[1] = k /\ Len(path) = 1
      BY <1>1, <1>8, <1>10, <2>1, <2>2
    <2>4. <<k>> \in Seq(Seq(Words))
      BY <1>8, <1>10
    <2> QED
      BY <1>7, <2>1, <2>3, <2>4, SeqEqual
  <1> QED
    BY <1>9, <1>10

-----------------------------------------------------------------------------
(* The library: what a function passes on.                                 *)

LEMMA MaxIs ==
    ASSUME NEW T \in SUBSET Nat, NEW n \in T, \A m \in T : n >= m
    PROVE  Max(T) = n
  <1>1. \A x \in T : (\A m \in T : x >= m) => x = n
    OBVIOUS
  <1> QED
    BY <1>1 DEF Max

LEMMA MaxThere ==
    ASSUME NEW T \in SUBSET Nat, T # {}, NEW N \in Nat, \A m \in T : m <= N
    PROVE  Max(T) \in T
  <1> DEFINE D == {N - m : m \in T}
  <1>1. D \in SUBSET Nat /\ D # {}
    <2>1. PICK m \in T : TRUE
      OBVIOUS
    <2>2. N - m \in D
      OBVIOUS
    <2>3. \A n \in T : N - n \in Nat
      OBVIOUS
    <2> QED
      BY <2>2, <2>3
  <1>2. PICK d \in D : \A c \in D : d <= c
    <2> HIDE DEF D
    <2> QED
      BY <1>1, LeastOf
  <1>3. PICK n \in T : d = N - n
    BY <1>2
  <1>4. \A m \in T : n >= m
    <2> SUFFICES ASSUME NEW m \in T PROVE n >= m
      OBVIOUS
    <2>1. N - n <= N - m
      BY <1>2, <1>3
    <2>2. n \in Nat /\ m \in Nat
      OBVIOUS
    <2> QED
      BY <2>1, <2>2
  <1>5. Max(T) = n
    BY <1>4, MaxIs
  <1> QED
    BY <1>5

LEMMA LibIndices ==
    ASSUME lib \in Libs
    PROVE  Len(lib) \in Nat /\ DOMAIN lib = 1..Len(lib) /\ Defs \subseteq 1..Len(lib)
  <1>1. lib \in Seq(Range(lib))
    BY LibAssumption
  <1>2. Len(lib) \in Nat /\ DOMAIN lib = 1..Len(lib)
    BY <1>1, LenProperties
  <1> QED
    BY <1>2 DEF Defs

LEMMA LastDefThere ==
    ASSUME lib \in Libs, NEW f \in Registered
    PROVE  LastDef(f) \in Defs
  <1> DEFINE T == {i \in Defs : lib[i].name = f}
  <1>1. T # {}
    BY DEF Registered
  <1>2. T \in SUBSET Nat /\ \A m \in T : m <= Len(lib)
    BY LibIndices
  <1>3. Max(T) \in T
    <2> HIDE DEF T
    <2> QED
      BY <1>1, <1>2, MaxThere, LibIndices
  <1>4. LastDef(f) = Max(T)
    BY DEF LastDef
  <1> QED
    BY <1>3, <1>4

\* In a documented library the line before a def is the last Output comment
\* above it, so that what get_function_spec reads is what the comment says.
LEMMA PassesAsDocumented ==
    ASSUME lib \in Libs, Documented
    PROVE  {f \in Registered : Passes(f)} = {f \in Registered : HandsOn(f)}
  <1> SUFFICES ASSUME NEW f \in Registered PROVE Passes(f) <=> HandsOn(f)
    OBVIOUS
  <1> DEFINE i == LastDef(f)
             B == {0} \cup {j \in 1..(i - 1) : j \notin Defs}
             C == {0} \cup {j \in 1..i : lib[j].is = "output"}
  <1>1. i \in Defs /\ i \in 1..Len(lib) /\ Len(lib) \in Nat /\ DOMAIN lib = 1..Len(lib)
    BY LastDefThere, LibIndices
  <1> HIDE DEF i
  <1>2. i > 1 /\ lib[i - 1].is = "output" /\ lib[i].is = "def"
    BY <1>1 DEF Documented, Defs
  <1>3. i - 1 \in 1..(i - 1) /\ i - 1 \in 1..i /\ i - 1 # 0 /\ i - 1 \in Nat
    BY <1>1, <1>2
  <1>4. i - 1 \notin Defs
    BY <1>2 DEF Defs
  <1>5. Max(B) = i - 1
    <2>1. B \in SUBSET Nat /\ i - 1 \in B /\ \A m \in B : i - 1 >= m
      BY <1>1, <1>3, <1>4
    <2> HIDE DEF B
    <2> QED
      BY <2>1, MaxIs
  <1>6. Max(C) = i - 1
    <2>1. i \notin C
      BY <1>1, <1>2
    <2>2. C \in SUBSET Nat /\ i - 1 \in C /\ \A m \in C : m = 0 \/ m \in 1..i
      BY <1>1, <1>2, <1>3
    <2>3. \A m \in C : i - 1 >= m
      BY <1>1, <1>3, <2>1, <2>2
    <2> HIDE DEF C
    <2> QED
      BY <2>2, <2>3, MaxIs
  <1>7. Before(i) = i - 1
    BY <1>5 DEF Before
  <1>8. Passes(f) <=> i - 1 # 0 /\ lib[i - 1].is = "output" /\ lib[i - 1].passes
    BY <1>7 DEF Passes, i
  <1>9. HandsOn(f) <=> i - 1 # 0 /\ lib[i - 1].passes
    BY <1>6 DEF HandsOn, i
  <1> QED
    BY <1>2, <1>8, <1>9

-----------------------------------------------------------------------------
(* The invariant of the analysis.                                          *)

Analysis == Read /\ Analyzed

\* What an attribute's name becomes in the output.
LEMMA TaintSink ==
    ASSUME args \in Seq(Seq(Words)), Len(args) <= Len(Digit), NEW p \in DOMAIN args,
           Numbered(args[p]), Known, NEW path \in Schemas[args[p][1]]
    PROVE  LET o == SinkName(TaintName(p, path))
           IN  /\ o.argument = <<args[p][1], args[p][2]>>
               /\ o.attribute \in Seq(Words) /\ Len(o.attribute) \in Nat
               /\ Len(path) \in Nat /\ Len(path) >= 1
               /\ Len(o.attribute) >= Len(path)
               /\ Len(o.attribute) = 1 => path = <<o.attribute>>
               /\ Len(args[p]) = 2 /\ Len(path) = 1 => path = <<o.attribute>>
               /\ path \in Seq(Seq(Words) \ {<<>>}) /\ path # <<>>
  <1> DEFINE a == args[p]
             F == FlattenSeq(path)
             o == SinkName(TaintName(p, path))
  <1>1. a \in Seq(Words) /\ Len(a) >= 2 /\ Len(a) \in Nat
    BY SeqFacts DEF Numbered
  <1>2. Digit[p] \in Words
    <2>1. Digit \in Seq(Words)
      BY ProgramAssumption
    <2>2. p \in 1..Len(args) /\ Len(args) \in Nat
      BY LenProperties
    <2>3. p \in 1..Len(Digit)
      BY <2>1, <2>2, LenProperties
    <2> QED
      BY <2>1, <2>3, ElementOfSeq
  <1>3. path \in Seq(Seq(Words) \ {<<>>}) /\ path # <<>>
    BY SchemaAssumption DEF Known
  <1>4. Len(path) \in Nat /\ Len(path) >= 1
    BY <1>3, EmptySeq
  <1>5. /\ o.argument = <<a[1], a[2]>>
        /\ o.attribute \in Seq(Words)
        /\ Len(o.attribute) = Len(a) - 2 + Len(F)
        /\ Len(a) = 2 => o.attribute = F
    <2> HIDE DEF a
    <2>1. TaintName(p, path) = a \o <<Digit[p]>> \o F
      BY DEF TaintName, a
    <2> QED
      BY <1>1, <1>2, <1>3, <2>1, SinkOfTaint
  <1>6. /\ F \in Seq(Words) /\ Len(F) \in Nat /\ Len(F) >= Len(path)
        /\ Len(path) = 1 => F = path[1]
    <2>1. F \in Seq(Words) /\ Len(F) >= Len(path) /\ (Len(path) = 1 => F = path[1])
      BY <1>3, NameOfPath
    <2> QED
      BY <2>1, LenProperties
  <1>7. Len(path) = 1 => path = <<path[1]>>
    <2> SUFFICES ASSUME Len(path) = 1 PROVE path = <<path[1]>>
      OBVIOUS
    <2>1. path[1] \in Seq(Words) \ {<<>>}
      BY <1>3, <1>4, ElementOfSeq
    <2>2. <<path[1]>> \in Seq(Seq(Words) \ {<<>>}) /\ Len(<<path[1]>>) = 1
      BY <2>1
    <2> QED
      BY <1>3, <2>2, SeqEqual
  <1> HIDE DEF a, F, o
  <1>8. Len(o.attribute) \in Nat /\ Len(o.attribute) >= Len(F)
    BY <1>1, <1>5, <1>6
  <1>9. Len(o.attribute) >= Len(path)
    BY <1>4, <1>6, <1>8
  <1>10. Len(o.attribute) = 1 => Len(a) = 2 /\ Len(path) = 1
    <2>1. \A x, y, z \in Nat : x >= 2 /\ z >= 1 /\ y >= z /\ x - 2 + y = 1 => x = 2 /\ z = 1
      OBVIOUS
    <2> QED
      BY <1>1, <1>4, <1>5, <1>6, <2>1
  <1>11. Len(a) = 2 /\ Len(path) = 1 => path = <<o.attribute>>
    BY <1>5, <1>6, <1>7
  <1> QED
    BY <1>3, <1>4, <1>5, <1>8, <1>9, <1>10, <1>11 DEF a, o

LEMMA ReportedIsNamed ==
    ASSUME ArgsNumbered, stage # "idle", sources = Taints, Known
    PROVE  \A o \in Reported : o.attribute # <<>>
  <1> SUFFICES ASSUME NEW s \in sources PROVE SinkName(s.name).attribute # <<>>
    BY DEF Reported
  <1>0. PICK p \in DOMAIN args :
          \E path \in Schemas[args[p][1]] : s.name = TaintName(p, path)
    BY DEF Taints
  <1>1. PICK path \in Schemas[args[p][1]] : s.name = TaintName(p, path)
    BY <1>0
  <1>2. /\ args \in Seq(Seq(Words)) /\ Len(args) <= Len(Digit) /\ Numbered(args[p])
    BY DEF ArgsNumbered
  <1>3. Len(SinkName(s.name).attribute) >= 1
    <2>1. /\ Len(path) \in Nat /\ Len(path) >= 1
          /\ Len(SinkName(s.name).attribute) \in Nat
          /\ Len(SinkName(s.name).attribute) >= Len(path)
      BY <1>1, <1>2, TaintSink
    <2> QED
      BY <2>1
  <1>4. Len(<<>>) = 0
    BY EmptySeq
  <1> QED
    BY <1>3, <1>4

TaintsOf(as) ==
    UNION {{[name |-> as[p] \o <<Digit[p]>> \o FlattenSeq(path),
             leaf |-> <<p, ReturnPath(path)>>] : path \in Schemas[as[p][1]]} :
           p \in DOMAIN as}

LEMMA SameTaints ==
    ASSUME UNCHANGED args
    PROVE  Taints' = Taints /\ Known' = Known
  <1>1. Taints = TaintsOf(args) /\ Taints' = TaintsOf(args')
    BY DEF Taints, TaintsOf, TaintName
  <1>2. Known' = Known
    BY DEF Known
  <1> QED
    BY <1>1, <1>2

LEMMA SameReported ==
    ASSUME UNCHANGED <<lines, sources, lib>>
    PROVE  Reported' = Reported
  <1>1. Registered' = Registered /\ Defs' = Defs
    BY DEF Registered, Defs
  <1>2. \A f : LastDef(f)' = LastDef(f)
    BY <1>1 DEF LastDef
  <1>3. \A i : Before(i)' = Before(i)
    BY <1>1 DEF Before
  <1>4. \A f : Passes(f)' = Passes(f)
    BY <1>2, <1>3 DEF Passes
  <1>5. ReturnAt' = ReturnAt
    BY DEF ReturnAt
  <1>6. HeaderAt' = HeaderAt
    BY <1>5 DEF HeaderAt
  <1>7. Calls' = Calls
    BY <1>5, <1>6 DEF Calls
  <1>8. \A passing : Reach(passing)' = Reach(passing)
    BY <1>5, <1>7 DEF Reach
  <1> QED
    BY <1>1, <1>4, <1>8 DEF Reported

LEMMA InitAnalyzed == Init => Analyzed
  BY DEF Init, Analyzed, ArgsNumbered, SourcesKnown, OutputsReported, OutputsNamed,
         SourcesPlaced, Pending

LEMMA ForgetAnalyzed ==
    ASSUME Analysis, Verify \/ Update
    PROVE  Analyzed'
  <1>1. /\ lib' \in Libs /\ stage' \in {"idle", "format"} /\ result' = Pending
        /\ args' = <<>> /\ sources' = {} /\ outputs' = {}
    BY DEF Verify, Update, Forget, Analysis, Analyzed, Read
  <1>2. /\ <<>> \in Seq(Seq(Words)) /\ Len(<<>>) <= Len(Digit) /\ DOMAIN <<>> = {}
    <2>1. Len(Digit) \in Nat
      BY ProgramAssumption, LenProperties
    <2> QED
      BY <2>1, EmptySeq
  <1> QED
    BY <1>1, <1>2 DEF Analyzed, ArgsNumbered, SourcesKnown, OutputsReported,
                      OutputsNamed, SourcesPlaced, Pending

\* While lines are compared there are neither sources nor outputs to keep.
LEMMA ScanAnalyzed ==
    ASSUME Analysis, NEW l \in Lines, Scan(l)
    PROVE  Analyzed'
  <1>1. /\ stage = "format" /\ result = Pending /\ l \in Lines
        /\ sources' = sources /\ outputs' = outputs /\ lib' = lib
    BY DEF Scan, Header, Return, Pass, Same, Differs, ReadLine, Analysis, Read
  <1>2. sources = {} /\ lib \in Libs /\ OutputsNamed
        /\ args \in Seq(Seq(Words)) /\ Len(args) <= Len(Digit)
        /\ \A i \in DOMAIN args : Numbered(args[i])
    BY <1>1 DEF Analysis, Analyzed, SourcesKnown, ArgsNumbered
  <1>3. /\ stage' \in {"idle", "format", "rest"} /\ result' \in {Pending, 10}
        /\ stage' = "idle" => result' = 10
    BY <1>1 DEF Scan, Header, Return, Pass, Same, Differs, Answer
  <1>4. stage' # "idle" => args' = args \/ (l.is = "def" /\ args' = l.args
                             /\ \A i \in DOMAIN l.args : ~BadArgument(l.args[i]))
    BY <1>1 DEF Scan, Header, Return, Pass, Same, Differs, Answer
  <1>5. ArgsNumbered'
    BY <1>2, <1>3, <1>4, ProgramAssumption, BadIsNotNumbered DEF ArgsNumbered, Numbered
  <1> QED
    BY <1>1, <1>2, <1>3, <1>5 DEF Analyzed, SourcesKnown, OutputsReported,
                                  OutputsNamed, SourcesPlaced, Pending

\* Behind the last line that is compared the arguments stand.
LEMMA KeptAnalyzed ==
    ASSUME Analysis, UNCHANGED <<args, lib, sources, outputs>>,
           stage # "idle", result' # 0,
           stage' \in {"calls", "schema"} => stage \in {"rest", "calls"},
           stage' \in {"model", "analyze"} => stage = "model",
           stage' \in {"idle", "calls", "schema", "model", "analyze"}
    PROVE  Analyzed'
  <1>1. ArgsNumbered'
    BY DEF Analysis, Analyzed, ArgsNumbered
  <1>2. SourcesKnown'
    BY SameTaints DEF Analysis, Analyzed, SourcesKnown
  <1> QED
    BY <1>1, <1>2 DEF Analysis, Analyzed, OutputsReported, OutputsNamed, SourcesPlaced

LEMMA NextAnalyzed == Analysis /\ [Next]_vars => Analyzed'
  <1> SUFFICES ASSUME Analysis, [Next]_vars PROVE Analyzed'
    OBVIOUS
  <1>0. stage # "idle" => result = Pending
    BY DEF Analysis, Read
  <1>1. CASE Verify \/ Update
    BY <1>1, ForgetAnalyzed
  <1>2. CASE \E l \in Lines : Scan(l)
    BY <1>2, ScanAnalyzed
  <1>3. CASE EndOfFile
    BY <1>3, KeptAnalyzed DEF EndOfFile, Answer, scan
  <1>4. CASE \E r \in Rests : Rest(r)
    BY <1>0, <1>4, KeptAnalyzed DEF Rest, Pending
  <1>5. CASE CheckFunc
    BY <1>0, <1>5, KeptAnalyzed DEF CheckFunc, Answer, scan, Pending
  <1>6. CASE Sources
    <2>1. /\ stage = "schema" /\ stage' = "model" /\ result' = Pending /\ sources' = Taints
          /\ Known /\ UNCHANGED <<args, lib, outputs>>
      BY <1>0, <1>6 DEF Sources, scan
    <2>2. Taints' = Taints /\ Known'
      BY <2>1, SameTaints
    <2>3. \A s \in Taints : s.leaf[1] \in DOMAIN args
      BY DEF Taints
    <2>4. ArgsNumbered' /\ OutputsNamed' /\ lib' \in Libs
      BY <2>1 DEF Analysis, Analyzed, ArgsNumbered, OutputsNamed
    <2> QED
      BY <2>1, <2>2, <2>3, <2>4
         DEF Analyzed, SourcesKnown, OutputsReported, SourcesPlaced, Pending
  <1>7. CASE NoSchema
    BY <1>7, KeptAnalyzed DEF NoSchema, Answer, scan
  <1>8. CASE ModelApp
    BY <1>0, <1>8, KeptAnalyzed DEF ModelApp, Answer, scan, Pending
  <1>9. CASE PysaFails
    BY <1>9, KeptAnalyzed DEF PysaFails, Answer, scan
  <1>10. CASE Analyze
    <2>1. /\ stage = "analyze" /\ stage' = "idle" /\ result' = 0 /\ outputs' = Reported
          /\ UNCHANGED <<lines, args, sources, lib>>
      BY <1>10 DEF Analyze, Answer, scan
    <2>2. sources = Taints /\ Known /\ ArgsNumbered
      BY <2>1 DEF Analysis, Analyzed, SourcesKnown
    <2>3. \A o \in outputs' : o.attribute # <<>>
      BY <2>1, <2>2, ReportedIsNamed
    <2>4. Taints' = Taints /\ Known' = Known /\ Reported' = Reported
      BY <2>1, SameTaints, SameReported
    <2>5. ArgsNumbered'
      BY <2>1 DEF Analysis, Analyzed, ArgsNumbered
    <2> QED
      BY <2>1, <2>2, <2>3, <2>4, <2>5
         DEF Analysis, Analyzed, SourcesKnown, OutputsReported, OutputsNamed, SourcesPlaced
  <1>11. CASE UNCHANGED vars
    <2>1. UNCHANGED <<stage, lines, args, result, sources, outputs, lib>>
      BY <1>11 DEF vars, scan
    <2>2. Taints' = Taints /\ Known' = Known /\ Reported' = Reported
      BY <2>1, SameTaints, SameReported
    <2> QED
      BY <2>1, <2>2 DEF Analysis, Analyzed, ArgsNumbered, SourcesKnown, OutputsReported,
                        OutputsNamed, SourcesPlaced
  <1> QED
    BY <1>1, <1>2, <1>3, <1>4, <1>5, <1>6, <1>7, <1>8, <1>9, <1>10, <1>11 DEF Next

LEMMA InitAnalysis == Init => Analysis
  BY InitRead, InitAnalyzed DEF Analysis

LEMMA NextAnalysis == Analysis /\ [Next]_vars => Analysis'
  BY NextRead, NextAnalyzed DEF Analysis

LEMMA AnalysisIsTyped == Analysis => TypeOK
  BY DEF Analysis, Read, Analyzed, ArgsNumbered, SourcesPlaced, OutputsNamed, TypeOK

\* The state of the analyzer has its type: arguments past their check are
\* numbered, every source belongs to an argument and every output names an
\* attribute (analyzer.py 124-129, 151-160, 301-330).
THEOREM AnalyzerTypeCorrect == Spec => []TypeOK
  BY InitAnalysis, NextAnalysis, AnalysisIsTyped, PTL DEF Spec

-----------------------------------------------------------------------------
(* What a provider may conclude from the outputs.                          *)

\* A program that is accepted has its return, and the leaves that reach its
\* result are of its arguments.
LEMMA ReachedAreLeaves ==
    ASSUME Read, result = 0, NEW passing
    PROVE  Reach(passing) \subseteq Leaves
  <1>1. PICK e \in Nat : Follows(lines, e) /\ Whole(e)
    BY DEF Read, WasRead, Pending
  <1>2. Len(lines) \in Nat /\ DOMAIN lines = 1..Len(lines) /\ ProcessLine \in Nat
    BY SeqFacts, TemplateAssumption DEF Read
  <1>3. e \in Returns(lines) /\ Returns(lines) \subseteq 1..Len(lines)
    BY <1>1, <1>2 DEF Whole, Returns
  <1>4. ReturnAt = e
    <2>1. \A m \in Returns(lines) : (\A i \in Returns(lines) : m <= i) => m = e
      BY <1>1, <1>3 DEF Follows, EndsAt
    <2>2. \A i \in Returns(lines) : e <= i
      BY <1>1 DEF Follows, EndsAt
    <2>3. Min(Returns(lines)) = e
      BY <1>3, <2>1, <2>2 DEF Min
    <2> QED
      BY <2>3 DEF ReturnAt, Returns
  <1>5. lines[ReturnAt] \in Lines /\ lines[ReturnAt].is = "return"
    BY <1>3, <1>4, ElementOfSeq DEF Read, Returns
  <1>6. Calls \subseteq {l \in Lines : l.is = "call"}
    <2> DEFINE T == {0} \cup {i \in (ProcessLine + 1)..ReturnAt : lines[i].is = "def"}
    <2>1. T \in SUBSET Nat /\ T # {} /\ \A m \in T : m <= ReturnAt
      BY <1>2, <1>3, <1>4
    <2>2. HeaderAt \in T
      <3>1. HeaderAt = Max(T)
        BY DEF HeaderAt
      <3> HIDE DEF T
      <3> QED
        BY <1>4, <2>1, <3>1, MaxThere
    <2>3. HeaderAt # 0 => HeaderAt \in Nat /\ HeaderAt >= 1
      BY <2>1, <2>2
    <2> HIDE DEF T
    <2>4. HeaderAt # 0 => HeaderAt..ReturnAt \subseteq 1..Len(lines)
      BY <1>2, <1>3, <1>4, <2>3
    <2>5. \A i \in 1..Len(lines) : lines[i] \in Lines
      BY ElementOfSeq DEF Read
    <2> QED
      BY <2>4, <2>5 DEF Calls
  <1> QED
    BY <1>5, <1>6, ProgramAssumption DEF Reach

LEMMA OutputsAreDisclosed ==
    ASSUME Analysis, result = 0, Documented, NEW leaf \in Leaks, PlainPath(leaf[2]),
           NEW ty, NEW disclosing, Disclosable(ty, leaf[1], disclosing)
    PROVE  args[leaf[1]][1] = ty /\ \E k \in disclosing : leaf[2] = <<k>>
  <1> DEFINE p == leaf[1]
             path == leaf[2]
             reached == Reach({f \in Registered : Passes(f)})
             s == [name |-> TaintName(p, path), leaf |-> <<p, ReturnPath(path)>>]
             o == SinkName(TaintName(p, path))
  <1>1. /\ args \in Seq(Seq(Words)) /\ Len(args) <= Len(Digit)
        /\ \A i \in DOMAIN args : Numbered(args[i])
        /\ sources = Taints /\ Known /\ outputs = Reported /\ lib \in Libs /\ Read
    BY DEF Analysis, Analyzed, ArgsNumbered, SourcesKnown, OutputsReported, Pending
  <1>2. leaf \in reached /\ p \in DOMAIN args /\ path \in Schemas[args[p][1]]
    BY <1>1, PassesAsDocumented DEF Leaks
  <1>3. leaf = <<p, path>>
    <2>1. leaf \in Leaves
      BY <1>1, <1>2, ReachedAreLeaves
    <2> QED
      BY <2>1 DEF Leaves
  <1>4. /\ o.argument = <<args[p][1], args[p][2]>>
        /\ Len(o.attribute) = 1 => path = <<o.attribute>>
        /\ path \in Seq(Seq(Words) \ {<<>>}) /\ path # <<>>
    BY <1>1, <1>2, TaintSink
  <1>5. ReturnPath(path) = path
    BY <1>4, SplitAgain
  <1>6. s \in sources
    <2> DEFINE S(q) == {[name |-> TaintName(q, r), leaf |-> <<q, ReturnPath(r)>>] :
                        r \in Schemas[args[q][1]]}
    <2>1. s \in S(p)
      BY <1>2
    <2>2. Taints = UNION {S(q) : q \in DOMAIN args}
      BY DEF Taints
    <2> HIDE DEF S, s
    <2>3. s \in UNION {S(q) : q \in DOMAIN args}
      BY <1>2, <2>1
    <2> QED
      BY <1>1, <2>2, <2>3
  <1>7. s.leaf = leaf /\ s.name = TaintName(p, path)
    BY <1>3, <1>5
  <1>8. o \in outputs
    <2> HIDE DEF s, reached
    <2>1. SinkName(s.name) \in {SinkName(t.name) : t \in {u \in sources : u.leaf \in reached}}
      BY <1>2, <1>6, <1>7
    <2> QED
      BY <1>1, <1>7, <2>1 DEF Reported, reached
  <1> HIDE DEF o, s, reached
  <1>9. o.argument = <<ty, Digit[p]>> /\ o.attribute \in disclosing /\ Len(o.attribute) = 1
    BY <1>8 DEF Disclosable
  <1> QED
    BY <1>4, <1>9

\* A provider that accepts a specification for its data as argument n discloses
\* no attribute that its policy withholds, for every naming of arguments and
\* attributes: an underscore in a key can be mistaken for the joint of two keys,
\* but never so that a longer name passes the test of one attribute
\* (analyzer.py 126-129, 325-329, provider/main.py 296).
THEOREM NothingWithheldIsDisclosed == Spec => []DisclosedOnlyAsAllowed
  <1>1. Analysis => DisclosedOnlyAsAllowed
    BY OutputsAreDisclosed DEF DisclosedOnlyAsAllowed
  <1> QED
    BY InitAnalysis, NextAnalysis, <1>1, PTL DEF Spec

LEMMA AllowedOutputs ==
    ASSUME Analysis, result = 0, Documented, NEW n \in DOMAIN args, NEW disclosing,
           \A l \in Reach({f \in Registered : HandsOn(f)}) :
               l[1] = n /\ \E k \in disclosing : l[2] = <<k>> /\ Len(k) = 1,
           args[n] = <<args[n][1], Digit[n]>>
    PROVE  Disclosable(args[n][1], n, disclosing)
  <1> DEFINE reached == Reach({f \in Registered : Passes(f)})
  <1>1. /\ args \in Seq(Seq(Words)) /\ Len(args) <= Len(Digit)
        /\ \A i \in DOMAIN args : Numbered(args[i])
        /\ sources = Taints /\ Known /\ outputs = Reported /\ lib \in Libs
    BY DEF Analysis, Analyzed, ArgsNumbered, SourcesKnown, OutputsReported, Pending
  <1>2. \A l \in reached : l[1] = n /\ \E k \in disclosing : l[2] = <<k>> /\ Len(k) = 1
    BY <1>1, PassesAsDocumented
  <1> HIDE DEF reached
  <1> SUFFICES ASSUME NEW o \in outputs
               PROVE  /\ o.argument = <<args[n][1], Digit[n]>>
                      /\ o.attribute \in disclosing /\ Len(o.attribute) = 1
    BY DEF Disclosable
  <1>3. PICK s \in sources : s.leaf \in reached /\ o = SinkName(s.name)
    BY <1>1 DEF Reported, reached
  <1>4. PICK p \in DOMAIN args :
          \E path \in Schemas[args[p][1]] :
              s = [name |-> TaintName(p, path), leaf |-> <<p, ReturnPath(path)>>]
    BY <1>1, <1>3 DEF Taints
  <1>5. PICK path \in Schemas[args[p][1]] :
          s = [name |-> TaintName(p, path), leaf |-> <<p, ReturnPath(path)>>]
    BY <1>4
  <1>6. s.name = TaintName(p, path) /\ s.leaf[1] = p /\ s.leaf[2] = ReturnPath(path)
    BY <1>5
  <1>7. p = n
    BY <1>2, <1>3, <1>6
  <1>8. PICK k \in disclosing : ReturnPath(path) = <<k>> /\ Len(k) = 1
    BY <1>2, <1>3, <1>6
  <1>9. /\ o.argument = <<args[n][1], args[n][2]>>
        /\ path \in Seq(Seq(Words) \ {<<>>}) /\ path # <<>>
        /\ Len(args[n]) = 2 /\ Len(path) = 1 => path = <<o.attribute>>
    BY SMTT(30), <1>1, <1>3, <1>6, <1>7, TaintSink
  <1>10. path = <<k>>
    BY <1>8, <1>9, SplitAgain
  <1>11. Len(args[n]) = 2 /\ args[n][2] = Digit[n]
    <2> DEFINE t == args[n][1]
    <2>1. args[n] = <<t, Digit[n]>>
      OBVIOUS
    <2> HIDE DEF t
    <2> QED
      BY <2>1
  <1>12. o.attribute = k
    <2>1. Len(path) = 1
      BY <1>10
    <2> QED
      BY <1>9, <1>10, <1>11, <2>1
  <1> QED
    BY <1>8, <1>9, <1>11, <1>12

\* A program that takes from argument n only what is allowed, from no other
\* argument anything, and numbers its arguments in order, is accepted, however
\* long its keys and whatever else the schemas have
\* (analyzer.py 126-129, 301-330, provider/main.py 290-306).
THEOREM AllowedProgramsAreAccepted == Spec => []AllowedIsAccepted
  <1>1. Analysis => AllowedIsAccepted
    BY AllowedOutputs DEF AllowedIsAccepted
  <1> QED
    BY InitAnalysis, NextAnalysis, <1>1, PTL DEF Spec

=============================================================================
