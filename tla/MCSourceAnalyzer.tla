-------------------------- MODULE MCSourceAnalyzer --------------------------
(* SourceAnalyzer with a template of six lines, some alike and the last after
   EndLine, two data types and two libraries.                               *)
EXTENDS SourceAnalyzer

Text(n) == [is |-> "text", n |-> n]
Header_(as) == [is |-> "def", args |-> as]
Returning(ls) == [is |-> "return", leaves |-> ls]
Call(f, l) == [is |-> "call", name |-> f, leaf |-> l]

MCTemplate == <<Text(1), Header_(<<<<"data">>>>), Returning({}), Text(2), Text(1), Text(2)>>

Id == <<<<"id">>>>
Birth == <<<<"birth", "date">>>>
Date == <<<<"date">>>>
PersonId == <<<<"person">>, <<"id">>>>
HomeId == <<<<"home", "address">>, <<"id">>>>

MCSchemas == [person |-> {Id, Birth}, visitor |-> {Date, PersonId, HomeId}]
MCDigit == <<"1", "2">>
MCDigits == {"1", "2", "01"}
MCWords == {"person", "visitor", "home", "address", "data", "id", "birth", "date",
            "x", ""} \cup MCDigits

Headers == { <<<<"person", "1">>>>,
             <<<<"person", "1">>, <<"visitor", "2">>>>,
             <<<<"visitor", "2">>, <<"person", "1">>>>,
             <<<<"person", "1">>, <<"person", "1", "x">>>>,
             <<<<"data", "1">>>>, <<<<"person", "01">>>>,
             <<<<"person", "x">>>>, <<<<"">>>> }

MCLines ==
    Range(MCTemplate) \cup {Header_(as) : as \in Headers}
    \cup {Returning(ls) : ls \in {{<<1, Id>>, <<2, Id>>}, {<<1, Birth>>}, {<<2, Date>>}, {<<1, PersonId>>}}}
    \cup {Call(f, <<1, Id>>) : f \in {"drop", "pass", "late", "print"}}
    \cup {Call("pass", <<2, HomeId>>)}

MCRests == {<<>>, <<Text(2)>>, <<Header_(<<<<"person", "1">>>>)>>}

Def(f) == [is |-> "def", name |-> f]
Output(b) == [is |-> "output", passes |-> b]
Other == [is |-> "other"]

MCLibs == { <<Output(FALSE), Def("drop"), Other, Output(TRUE), Def("pass"), Other>>,
            <<Output(TRUE), Other, Def("late"), Def("drop"), Other>> }

=============================================================================
