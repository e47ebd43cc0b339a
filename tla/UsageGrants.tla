---------------------------- MODULE UsageGrants ----------------------------
(***************************************************************************)
(* What the data provision server promises about the uses it grants.  An   *)
(* application is decided in one step, on a policy that the provider has   *)
(* had and a specification that every registry has had; an app has one     *)
(* grant for a data identifier, which stays as it was made.  Its token is  *)
(* given out once, to the applicant, or never when the server dies or      *)
(* fails first; data is provided on a grant only.  There are neither       *)
(* threads nor tables.                                                     *)
(***************************************************************************)
EXTENDS UsagePolicy

CONSTANTS
    Applications,   \* the declarations consumers may send
    Specs           \* processing specifications

VARIABLES
    allowed,        \* policies the provider has had
    endorsed,       \* <<app, specification>> that every registry has had
    grants,         \* what is granted, as it is saved
    due,            \* tokens of grants that are not given out yet
    tokens,         \* tokens given out
    provided        \* the grant that data was last provided on, if any

vars == <<allowed, endorsed, grants, due, tokens, provided>>

Init == grants = {} /\ due = {} /\ tokens = {} /\ provided = {}

\* The provider and the registries may allow more, and what they no longer
\* allow they have allowed.
Allow ==
    /\ allowed \subseteq allowed' /\ endorsed \subseteq endorsed'
    /\ UNCHANGED <<grants, due, tokens, provided>>

\* The applicant has signed for itself and is named by a policy for the app and
\* data; the app takes such data, and all that it outputs is of the declared
\* argument and disclosed by the policy.
Permits(p, s, a) ==
    /\ a.signed /\ a.cn = a.consumer /\ a.consumer \in p.consumers
    /\ a.app \in p.apps /\ p.data = a.data
    /\ p.type \in s.inputs
    /\ \A o \in s.outputs : o.arg = a.arg /\ o.field \in p.disclosing

Token(a, terms) == [consumer |-> a.consumer, app |-> a.app, data |-> a.data,
                    arg |-> a.arg, terms |-> terms]

GrantOf(token) == [consumer |-> token.consumer, app |-> token.app,
                   data |-> token.data, terms |-> SavedRow(token.terms)]

Grant(a) ==
    /\ ~\E g \in grants : g.app = a.app /\ g.data = a.data
    /\ \E p \in allowed, s \in Specs :
         /\ <<a.app, s>> \in endorsed
         /\ Permits(p, s, a)
         /\ LET decision == Merge(p.terms, a.terms)
                token == Token(a, decision.value)
            IN  /\ decision.status = "save"
                /\ grants' = grants \cup {GrantOf(token)}
                /\ due' = due \cup {token}
    /\ UNCHANGED <<allowed, endorsed, tokens, provided>>

GiveOut ==
    /\ \E token \in due : tokens' = tokens \cup {token} /\ due' = due \ {token}
    /\ UNCHANGED <<allowed, endorsed, grants, provided>>

\* The server dies, or fails after the grant: the grants stay, and tokens that
\* were due are never made.
Lose ==
    /\ due' \in SUBSET due
    /\ UNCHANGED <<allowed, endorsed, grants, tokens, provided>>

Provide ==
    /\ \E g \in grants : provided' = {g}
    /\ UNCHANGED <<allowed, endorsed, grants, due, tokens>>

Next ==
    \/ Allow \/ GiveOut \/ Lose \/ Provide
    \/ \E a \in Applications : Grant(a)

Spec == Init /\ [][Next]_vars

=============================================================================
