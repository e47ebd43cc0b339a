--------------------------- MODULE GrantLifecycle ---------------------------
(***************************************************************************)
(* One grant from end to end: a provider's policy and a consumer's         *)
(* declaration meet in apply, the merged terms are saved as text, a later  *)
(* request turns the saved row into a condition, and the enclave looks at  *)
(* that condition at the moment of use.  Each step is taken by a different *)
(* program; the properties relate its two ends.                            *)
(***************************************************************************)
EXTENDS UsagePolicy

CONSTANTS
    Limits,       \* policy counters and durations, None included
    Declared,     \* counters and durations a declaration states (0: absent)
    Dates,        \* expiration dates, None included
    Locations,    \* location conditions, None and Anywhere included
    Places,       \* country codes the location service answers
    MaxTime       \* bound of the clock, in ticks

ASSUME TermsAssumption ==
    /\ Limits \subseteq Int \cup {None} /\ Declared \subseteq Int
    /\ Dates \subseteq Int \cup {None}
ASSUME ClockAssumption == MaxTime \in Nat

VARIABLES
    stage,        \* how far the grant has come
    policy,       \* the row of table policy
    declaration,  \* the parsed DataUsageDeclaration
    row,          \* the row of table saved_policy
    condition,    \* the condition inside the enclave
    fetched,      \* the day the condition was made
    now, here     \* clock and place at the enclave

vars == <<stage, policy, declaration, row, condition, fetched, now, here>>

PolicyTerms ==
    [counter : Limits, location : Locations,
     duration : Limits, expiration : Dates]

DeclaredTerms ==
    [counter : Declared, location : Locations,
     duration : Declared, expiration : Dates]

Init ==
    /\ stage = "declared"
    /\ policy \in PolicyTerms
    /\ declaration \in DeclaredTerms
    /\ row = None /\ condition = None /\ fetched = 0
    /\ now = 0
    /\ here \in Places

\* apply.post saves the merged terms ...
ApplyGranted ==
    /\ stage = "declared"
    /\ LET m == Merge(policy, declaration)
       IN  /\ m.status = "save"
           /\ Storable(SavedRow(m.value))
           /\ row' = SavedRow(m.value)
    /\ stage' = "saved"
    /\ UNCHANGED <<policy, declaration, condition, fetched, now, here>>

\* ... or refuses, or fails on a None that met a number.
ApplyFailed ==
    /\ stage = "declared"
    /\ LET m == Merge(policy, declaration)
       IN  m.status = "save" => ~Storable(SavedRow(m.value))
    /\ stage' = "refused"
    /\ UNCHANGED <<policy, declaration, row, condition, fetched, now, here>>

\* provide_data answers the enclave ...
Provide ==
    /\ stage = "saved"
    /\ Providable(row)
    /\ condition' = ProvidedCondition(row, now)
    /\ fetched' = Today(now)
    /\ stage' = "cached"
    /\ UNCHANGED <<policy, declaration, row, now, here>>

\* ... or raises on the date.
ProvideFailed ==
    /\ stage = "saved"
    /\ ~Providable(row)
    /\ stage' = "unprovidable"
    /\ UNCHANGED <<policy, declaration, row, condition, fetched, now, here>>

\* check_condition_phase finds the condition met, and the data is used.
Use ==
    /\ stage = "cached"
    /\ CheckConditionPhase(condition, now, here)[1]
    /\ stage' = "used"
    /\ UNCHANGED <<policy, declaration, row, condition, fetched, now, here>>

\* The grant stays saved and the copy stays cached while time goes by.
Tick ==
    /\ stage \in {"saved", "cached"}
    /\ now < MaxTime
    /\ now' = now + 1
    /\ UNCHANGED <<stage, policy, declaration, row, condition, fetched, here>>

Next ==
    \/ ApplyGranted \/ ApplyFailed
    \/ Provide \/ ProvideFailed
    \/ Use
    \/ Tick

Spec == Init /\ [][Next]_vars
-----------------------------------------------------------------------------
TypeOK ==
    /\ stage \in {"declared", "saved", "refused", "cached", "unprovidable", "used"}
    /\ policy \in PolicyTerms /\ declaration \in DeclaredTerms
    /\ fetched \in 0..Today(MaxTime) /\ now \in 0..MaxTime /\ here \in Places
    /\ condition # None => condition.counter \in Int /\ condition.expiration \in Int

\* The counter the enclave starts from never exceeds the provider's counter,
\* nor the consumer's own when both stated one: the merge of lines 308-325
\* and the passage through text lose nothing.
CounterWithinPolicy ==
    stage \in {"cached", "used"} =>
        /\ policy.counter \in Nat => condition.counter <= policy.counter
        /\ (policy.counter # 0 /\ declaration.counter # 0)
             => condition.counter <= declaration.counter

Held == stage \in {"cached", "used"}

\* The condition an enclave holds is good for no place that the policy rules
\* out: a declared, saved and re-read location never widens the provider's.
HeldWherePolicyAllows ==
    Held /\ CheckLocation(condition, here)[1] =>
        policy.location \in {None, Anywhere, here}

\* The condition an enclave holds is good for no moment after the policy's
\* date, the declared date and, when the policy has a duration, that many days
\* after the fetch.
HeldWhilePolicyAllows ==
    Held /\ CheckExpiration(condition, now)[1] =>
        /\ policy.expiration # None => now <= Midnight(policy.expiration)
        /\ declaration.expiration # None
             => now <= Midnight(declaration.expiration)
        /\ policy.duration # None => now <= Midnight(fetched + policy.duration)

=============================================================================
