----------------------------- MODULE MCProvider -----------------------------
(* Provider with an app that wants one data identifier, two consumers, two *)
(* registries and one or two request threads.                              *)
EXTENDS Provider

CONSTANTS a1, a2, both, x, c1, c2, t1, t2, JP, person, age, gender

MCThreads == {t1, t2}
MCOneThread == {t1}
MCApps == {a1}
MCData == {x}
MCConsumers == {c1, c2}

\* One specification without outputs, and one that discloses the first
\* argument's age.
Silent == [inputs |-> {person}, outputs |-> {}]
Disclosing == [inputs |-> {person}, outputs |-> {[arg |-> 1, field |-> age]}]
MCSpecs == {Silent, Disclosing}

Terms(c, l, d, e) == [counter |-> c, location |-> l, duration |-> d, expiration |-> e]

Row1 == [app |-> a1, apps |-> {a1}, data |-> x, type |-> person, consumers |-> {c1, c2},
         disclosing |-> {age}, terms |-> Terms(2, JP, 3, 5)]
\* The same key with other terms: an edit replaces the one by the other.
Row2 == [Row1 EXCEPT !.disclosing = {gender}, !.terms = Terms(1, JP, None, None)]
MCExactPolicies == {Row1, Row2}
\* Two apps for the same data in one row's text; another app.
Row3 == [Row1 EXCEPT !.app = both, !.apps = {a1, a2}, !.consumers = {c1}]
Row4 == [Row1 EXCEPT !.app = a2, !.apps = {a2}]
MCSharedPolicies == {Row3, Row4}

Request(c, tms) == [cn |-> c, consumer |-> c, app |-> a1, data |-> x, arg |-> 1,
                    signed |-> TRUE, terms |-> tms]
MCFewRequests == { Request(c1, Terms(1, JP, 0, 4)), Request(c2, Terms(2, None, 3, None)) }
MCRequests ==
    MCFewRequests \cup
    { Request(c1, Terms(2, JP, 3, 4)),
      [Request(c1, Terms(1, JP, 0, 4)) EXCEPT !.signed = FALSE],
      [Request(c1, Terms(0, JP, 0, 4)) EXCEPT !.consumer = c2] }

=============================================================================
