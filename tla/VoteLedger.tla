----------------------------- MODULE VoteLedger -----------------------------
(***************************************************************************)
(* What the registries promise about the functions they vote on: under     *)
(* each name there is one function, votes are cast on it one at a time,    *)
(* every vote counts on the function as the votes before it left it, and a *)
(* rejected function is out until another is suggested in its place.       *)
(***************************************************************************)
CONSTANTS
    Names,
    Bodies,
    Voters,
    NoFunction   \* under a name nothing was suggested for

VARIABLE functions

Init == functions = [n \in Names |-> NoFunction]

\* Any electorate may be asked; nobody has voted yet.
Suggest(n) ==
    \E b \in Bodies, E \in SUBSET Voters :
        functions' = [functions EXCEPT ![n] =
                        [body |-> b, status |-> "Pending", electors |-> E, yes |-> {}]]

Open(n) == functions[n] # NoFunction /\ functions[n].status # "Rejected"

\* Whoever approves is one of the electors from then on; the approval that makes
\* them unanimous accepts the function.
Approve(n, id) ==
    /\ Open(n)
    /\ LET old == functions[n]
           electors == old.electors \cup {id}
           yes == old.yes \cup {id}
       IN  functions' = [functions EXCEPT ![n] =
             [body |-> old.body, electors |-> electors, yes |-> yes,
              status |-> IF electors \subseteq yes THEN "Accepted" ELSE old.status]]

Reject(n) ==
    /\ Open(n)
    /\ functions' = [functions EXCEPT ![n].status = "Rejected"]

Next ==
    \E n \in Names :
        Suggest(n) \/ (\E id \in Voters : Approve(n, id)) \/ Reject(n)

Spec == Init /\ [][Next]_functions

=============================================================================
