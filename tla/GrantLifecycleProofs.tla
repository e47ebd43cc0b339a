------------------------ MODULE GrantLifecycleProofs ------------------------
(***************************************************************************)
(* Proofs about GrantLifecycle, for every policy, declaration, clock bound *)
(* and length of a day.                                                    *)
(***************************************************************************)
EXTENDS GrantLifecycle, TLAPS

\* What is known of a grant at each stage: the row is the saved merge of policy
\* and declaration, and the condition was made from it on the day of the fetch.
RowIsMerge ==
    stage \in {"saved", "cached", "used", "unprovidable"} =>
        /\ Merge(policy, declaration).status = "save"
        /\ row = SavedRow(Merge(policy, declaration).value)

ConditionIsProvided ==
    Held =>
        /\ Providable(row)
        /\ condition = [counter |-> row.counter, location |-> row.location,
                        expiration |-> Earlier(fetched + row.duration, row.expiration)]

NoConditionYet == ~Held => condition = None

Grants == TypeOK /\ RowIsMerge /\ ConditionIsProvided /\ NoConditionYet

-----------------------------------------------------------------------------
(* What the merges of apply return, for every policy and declaration.      *)

\* What a row of table policy and a declaration may say.
PolicySays(pol) ==
    /\ pol.counter \in Int \cup {None}
    /\ pol.duration \in Int \cup {None}
    /\ pol.expiration \in Int \cup {None}

DeclarationSays(dec) ==
    /\ dec.counter \in Int
    /\ dec.duration \in Int
    /\ dec.expiration \in Int \cup {None}

\* A limit that is saved is a number, the declared one when both sides state
\* one, and never above the policy's.
LEMMA LimitSaved ==
    ASSUME NEW pol \in Int \cup {None}, NEW dec \in Int,
           MergeLimit(pol, dec).status = "save"
    PROVE  /\ MergeLimit(pol, dec).value \in Int
           /\ pol \in Int => MergeLimit(pol, dec).value <= pol
           /\ pol # 0 /\ dec # 0 => MergeLimit(pol, dec).value = dec
  BY NoneAssumption DEF MergeLimit, Save, Refuse, TypeError

\* A location that is saved is the one of whoever states one.
LEMMA LocationSaved ==
    ASSUME NEW pol, NEW dec, MergeLocation(pol, dec).status = "save"
    PROVE  /\ pol # None => MergeLocation(pol, dec).value = pol
           /\ dec # None => MergeLocation(pol, dec).value = dec
  BY DEF MergeLocation, Save, Refuse

\* A date that is saved is not after any date that was stated.
LEMMA ExpirationSaved ==
    ASSUME NEW pol \in Int \cup {None}, NEW dec \in Int \cup {None},
           MergeExpiration(pol, dec).status = "save"
    PROVE  /\ MergeExpiration(pol, dec).value \in Int \cup {None}
           /\ pol # None => MergeExpiration(pol, dec).value \in Int
                            /\ MergeExpiration(pol, dec).value <= pol
           /\ dec # None => MergeExpiration(pol, dec).value = dec
  BY NoneAssumption DEF MergeExpiration, Save, Refuse

\* The row that is stored under a policy and a declaration is within both.
LEMMA SavedRowWithin ==
    ASSUME NEW pol, NEW dec, PolicySays(pol), DeclarationSays(dec),
           Merge(pol, dec).status = "save"
    PROVE  LET stored == SavedRow(Merge(pol, dec).value)
           IN  /\ stored.counter \in Int /\ stored.duration \in Int
               /\ stored.expiration \in Int \cup {NoneText}
               /\ pol.counter \in Int => stored.counter <= pol.counter
               /\ pol.counter # 0 /\ dec.counter # 0 => stored.counter = dec.counter
               /\ pol.duration \in Int => stored.duration <= pol.duration
               /\ pol.location # None => stored.location = pol.location
               /\ pol.expiration # None => stored.expiration \in Int
                                           /\ stored.expiration <= pol.expiration
               /\ dec.expiration # None => stored.expiration = dec.expiration
  <1> DEFINE c == MergeLimit(pol.counter, dec.counter)
             l == MergeLocation(pol.location, dec.location)
             d == MergeLimit(pol.duration, dec.duration)
             e == MergeExpiration(pol.expiration, dec.expiration)
             stored == SavedRow(Merge(pol, dec).value)
  <1>1. /\ stored.counter = AsText(c.value) /\ stored.location = AsText(l.value)
        /\ stored.duration = AsText(d.value) /\ stored.expiration = AsText(e.value)
        /\ c.status = "save" /\ l.status = "save"
        /\ d.status = "save" /\ e.status = "save"
    <2> HIDE DEF c, l, d, e
    <2> QED
      BY DEF Merge, Save, SavedRow, c, l, d, e
  <1>2. /\ c.value \in Int
        /\ pol.counter \in Int => c.value <= pol.counter
        /\ pol.counter # 0 /\ dec.counter # 0 => c.value = dec.counter
    BY <1>1, LimitSaved DEF PolicySays, DeclarationSays
  <1>3. d.value \in Int /\ (pol.duration \in Int => d.value <= pol.duration)
    BY <1>1, LimitSaved DEF PolicySays, DeclarationSays
  <1>4. pol.location # None => l.value = pol.location
    BY <1>1, LocationSaved
  <1>5. /\ e.value \in Int \cup {None}
        /\ pol.expiration # None => e.value \in Int /\ e.value <= pol.expiration
        /\ dec.expiration # None => e.value = dec.expiration
    BY <1>1, ExpirationSaved DEF PolicySays, DeclarationSays
  <1> HIDE DEF c, l, d, e, stored
  <1>6. /\ stored.counter = c.value /\ stored.duration = d.value
        /\ pol.location # None => stored.location = pol.location
    BY <1>1, <1>2, <1>3, <1>4, NoneAssumption DEF AsText
  <1>7. /\ stored.expiration \in Int \cup {NoneText}
        /\ pol.expiration # None => stored.expiration = e.value
        /\ dec.expiration # None => stored.expiration = e.value
    BY <1>1, <1>5, NoneAssumption DEF AsText, DeclarationSays
  <1> QED
    BY <1>2, <1>3, <1>5, <1>6, <1>7 DEF stored

-----------------------------------------------------------------------------
\* The terms of a grant are such as the merge is about.
LEMMA TermsSay ==
    ASSUME TypeOK
    PROVE  PolicySays(policy) /\ DeclarationSays(declaration)
  BY TermsAssumption
     DEF TypeOK, PolicyTerms, DeclaredTerms, PolicySays, DeclarationSays

\* A later moment is on no earlier day, and a later day begins no earlier.
LEMMA TodayMonotonic ==
    ASSUME NEW s \in Nat, NEW t \in Nat, s <= t
    PROVE  Today(s) \in Nat /\ Today(t) \in Nat /\ Today(s) <= Today(t)
  BY TicksPerDayAssumption DEF Today

LEMMA MidnightMonotonic ==
    ASSUME NEW a \in Int, NEW b \in Int, a <= b
    PROVE  Midnight(a) \in Int /\ Midnight(b) \in Int /\ Midnight(a) <= Midnight(b)
  BY TicksPerDayAssumption DEF Midnight

\* The row and the condition of a grant, in terms of its two ends.
LEMMA HeldWithin ==
    ASSUME Grants, Held
    PROVE  /\ condition.counter \in Int /\ condition.expiration \in Int
           /\ policy.counter \in Int => condition.counter <= policy.counter
           /\ policy.counter # 0 /\ declaration.counter # 0
                => condition.counter = declaration.counter
           /\ policy.location # None => condition.location = policy.location
           /\ policy.expiration # None => condition.expiration <= policy.expiration
           /\ declaration.expiration # None
                => condition.expiration <= declaration.expiration
           /\ policy.duration # None
                => condition.expiration <= fetched + policy.duration
  <1>1. /\ row.counter \in Int /\ row.duration \in Int
        /\ row.expiration \in Int \cup {NoneText}
        /\ policy.counter \in Int => row.counter <= policy.counter
        /\ policy.counter # 0 /\ declaration.counter # 0
             => row.counter = declaration.counter
        /\ policy.duration \in Int => row.duration <= policy.duration
        /\ policy.location # None => row.location = policy.location
        /\ policy.expiration # None => row.expiration <= policy.expiration
        /\ declaration.expiration # None => row.expiration = declaration.expiration
    BY TermsSay, SavedRowWithin DEF Grants, RowIsMerge, Held
  <1>2. row.expiration \in Int
    BY <1>1 DEF Grants, ConditionIsProvided, Providable
  <1>3. /\ condition.counter = row.counter /\ condition.location = row.location
        /\ condition.expiration = Earlier(fetched + row.duration, row.expiration)
    BY DEF Grants, ConditionIsProvided
  <1>4. fetched \in Int
    BY TodayMonotonic, ClockAssumption DEF Grants, TypeOK
  <1>5. /\ condition.expiration \in Int
        /\ condition.expiration <= row.expiration
        /\ condition.expiration <= fetched + row.duration
    BY <1>1, <1>2, <1>3, <1>4 DEF Earlier
  <1>6. policy.duration # None => policy.duration \in Int
    BY TermsSay DEF PolicySays, Grants
  <1>7. /\ policy.expiration # None => policy.expiration \in Int
        /\ declaration.expiration # None => declaration.expiration \in Int
    BY TermsSay DEF PolicySays, DeclarationSays, Grants
  <1> QED
    BY <1>1, <1>2, <1>3, <1>4, <1>5, <1>6, <1>7

-----------------------------------------------------------------------------
LEMMA InitGrants == Init => Grants
  <1> SUFFICES ASSUME Init PROVE Grants
    OBVIOUS
  <1>1. Today(0) \in Nat /\ Today(MaxTime) \in Nat /\ Today(0) <= Today(MaxTime)
    BY TodayMonotonic, ClockAssumption
  <1>2. TypeOK
    BY <1>1, ClockAssumption DEF Init, TypeOK
  <1> QED
    BY <1>2 DEF Init, Grants, RowIsMerge, ConditionIsProvided, NoConditionYet, Held

LEMMA NextGrants == Grants /\ [Next]_vars => Grants'
  <1> SUFFICES ASSUME Grants, [Next]_vars PROVE Grants'
    OBVIOUS
  <1> USE DEF Grants
  <1>1. CASE ApplyGranted
    BY <1>1 DEF ApplyGranted, TypeOK, RowIsMerge, ConditionIsProvided,
                NoConditionYet, Held
  <1>2. CASE ApplyFailed
    BY <1>2 DEF ApplyFailed, TypeOK, RowIsMerge, ConditionIsProvided,
                NoConditionYet, Held
  <1>3. CASE Provide
    <2>1. /\ condition' = [counter |-> row.counter, location |-> row.location,
                           expiration |-> Earlier(fetched' + row.duration, row.expiration)]
          /\ stage' = "cached" /\ row' = row /\ policy' = policy
          /\ declaration' = declaration /\ now' = now /\ here' = here
          /\ Providable(row)
      BY <1>3 DEF Provide, ProvidedCondition
    <2>2. RowIsMerge' /\ ConditionIsProvided' /\ NoConditionYet'
      BY <1>3, <2>1 DEF Provide, RowIsMerge, ConditionIsProvided, NoConditionYet, Held,
                       Providable
    <2>3. fetched' \in 0..Today(MaxTime) /\ fetched' \in Int
      BY <1>3, TodayMonotonic, ClockAssumption DEF Provide, TypeOK
    <2>4. condition'.counter \in Int /\ condition'.expiration \in Int
      <3>1. /\ row.counter \in Int /\ row.duration \in Int
            /\ row.expiration \in Int \cup {NoneText}
        BY <1>3, TermsSay, SavedRowWithin DEF Provide, RowIsMerge
      <3>2. row.expiration \in Int
        BY <2>1, <3>1 DEF Providable
      <3> QED
        BY <2>1, <2>3, <3>1, <3>2 DEF Earlier
    <2> QED
      BY <2>1, <2>2, <2>3, <2>4 DEF TypeOK
  <1>4. CASE ProvideFailed
    BY <1>4 DEF ProvideFailed, TypeOK, RowIsMerge, ConditionIsProvided,
                NoConditionYet, Held
  <1>5. CASE Use
    BY <1>5 DEF Use, TypeOK, RowIsMerge, ConditionIsProvided, NoConditionYet, Held
  <1>6. CASE Tick
    BY <1>6, ClockAssumption
       DEF Tick, TypeOK, RowIsMerge, ConditionIsProvided, NoConditionYet, Held
  <1>7. CASE UNCHANGED vars
    BY <1>7 DEF vars, TypeOK, RowIsMerge, ConditionIsProvided, NoConditionYet, Held
  <1> QED
    BY <1>1, <1>2, <1>3, <1>4, <1>5, <1>6, <1>7 DEF Next

\* Every variable keeps its type; in particular a condition that an enclave gets
\* has a number for its counter and a date that parsed (provider/main.py
\* 117-181), whatever text the saved row is made of.
THEOREM TypeCorrect == Spec => []TypeOK
  <1>1. Grants => TypeOK
    BY DEF Grants
  <1> QED
    BY InitGrants, NextGrants, <1>1, PTL DEF Spec

\* The counter an enclave starts from is at most the provider's and the
\* consumer's, for every pair of them.
THEOREM CounterIsWithin == Spec => []CounterWithinPolicy
  <1>1. Grants => CounterWithinPolicy
    <2> SUFFICES ASSUME Grants, stage \in {"cached", "used"}
                 PROVE  /\ policy.counter \in Nat => condition.counter <= policy.counter
                        /\ (policy.counter # 0 /\ declaration.counter # 0)
                             => condition.counter <= declaration.counter
      BY DEF CounterWithinPolicy
    <2>1. Held
      BY DEF Held
    <2> QED
      BY <2>1, HeldWithin
  <1> QED
    BY InitGrants, NextGrants, <1>1, PTL DEF Spec

\* A condition is good for no place that the policy rules out, for every set of
\* places.
THEOREM PlacesAreWithin == Spec => []HeldWherePolicyAllows
  <1>1. Grants => HeldWherePolicyAllows
    <2> SUFFICES ASSUME Grants, Held, CheckLocation(condition, here)[1],
                        policy.location # None
                 PROVE  policy.location \in {Anywhere, here}
      BY DEF HeldWherePolicyAllows
    <2>1. condition.location = policy.location
      BY HeldWithin
    <2> QED
      BY <2>1 DEF CheckLocation
  <1> QED
    BY InitGrants, NextGrants, <1>1, PTL DEF Spec

\* A condition is good for no moment after the dates and the duration behind
\* it, for every length of a day and however late it is looked at.
THEOREM TimesAreWithin == Spec => []HeldWhilePolicyAllows
  <1>1. Grants => HeldWhilePolicyAllows
    <2> SUFFICES ASSUME Grants, Held, CheckExpiration(condition, now)[1]
                 PROVE  /\ policy.expiration # None => now <= Midnight(policy.expiration)
                        /\ declaration.expiration # None
                             => now <= Midnight(declaration.expiration)
                        /\ policy.duration # None
                             => now <= Midnight(fetched + policy.duration)
      BY DEF HeldWhilePolicyAllows
    <2>1. condition.expiration \in Int /\ now \in Int /\ fetched \in Int
      BY HeldWithin, TodayMonotonic, ClockAssumption DEF Grants, TypeOK
    <2>2. now <= Midnight(condition.expiration)
      BY DEF CheckExpiration
    <2>3. \A day \in Int : condition.expiration <= day => now <= Midnight(day)
      <3> SUFFICES ASSUME NEW day \in Int, condition.expiration <= day
                   PROVE  now <= Midnight(day)
        OBVIOUS
      <3>1. /\ Midnight(condition.expiration) \in Int /\ Midnight(day) \in Int
            /\ Midnight(condition.expiration) <= Midnight(day)
        BY <2>1, MidnightMonotonic
      <3> QED
        BY <2>1, <2>2, <3>1
    <2>4. /\ policy.expiration \in Int \cup {None} /\ policy.duration \in Int \cup {None}
          /\ declaration.expiration \in Int \cup {None}
      BY TermsSay DEF PolicySays, DeclarationSays, Grants
    <2>5. /\ policy.expiration # None => condition.expiration <= policy.expiration
          /\ declaration.expiration # None
               => condition.expiration <= declaration.expiration
          /\ policy.duration # None
               => condition.expiration <= fetched + policy.duration
      BY HeldWithin
    <2> QED
      BY <2>1, <2>3, <2>4, <2>5
  <1> QED
    BY InitGrants, NextGrants, <1>1, PTL DEF Spec

=============================================================================
