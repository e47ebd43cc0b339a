---------------------------- MODULE UsagePolicy ----------------------------
(***************************************************************************)
(* The arithmetic of a usage condition, from the policy a provider keeps   *)
(* and the declaration a consumer signs to the test an enclave runs before *)
(* every use.  The operators are pure; GrantLifecycle chains them for one  *)
(* grant, Provider and ConsumerApp use them inside their actions.          *)
(*                                                                         *)
(* Days are natural numbers.  A clock reading is a number of ticks, with   *)
(* TicksPerDay ticks to the day, so that the tick TicksPerDay * d is       *)
(* midnight at the start of day d: the enclave compares a date with a      *)
(* clock that also has hours.                                              *)
(***************************************************************************)
EXTENDS Integers

CONSTANTS
    None,        \* Python's None, SQL's NULL: a condition nobody stated
    NoneText,    \* the string 'None', which formatting None produces
    Anywhere,    \* the empty location "", which restricts nothing
    TicksPerDay

ASSUME TicksPerDayAssumption == TicksPerDay \in Nat \ {0}
ASSUME NoneAssumption == None \notin Int
ASSUME NoneTextAssumption == NoneText \notin Int /\ NoneText # None

Today(now) == now \div TicksPerDay
Midnight(day) == day * TicksPerDay
\* Mutant: the later of two dates.
EarlierSwapped(a, b) == IF a < b THEN b ELSE a

Earlier(a, b) == IF a < b THEN a ELSE b

(***************************************************************************)
(* The four merges of apply.post.  Each returns what the handler does:     *)
(* save a value, refuse with 400, or die on comparing None with a number   *)
(* (the server answers 500).                                               *)
(***************************************************************************)
Save(v) == [status |-> "save", value |-> v]
Refuse == [status |-> "refuse", value |-> None]
TypeError == [status |-> "error", value |-> None]

\* Mutant: the comparison with the policy's limit is left out.
MergeLimitUnchecked(pol, dec) ==
    IF pol # 0 /\ dec # 0 THEN Save(dec)
    ELSE IF pol # None THEN Save(pol) ELSE Save(dec)

\* Mutant: a declaration of zero takes the policy's value, NULL or not.
MergeLimitNull(pol, dec) ==
    IF pol # 0 /\ dec # 0
    THEN IF pol = None THEN TypeError
         ELSE IF pol < dec THEN Refuse ELSE Save(dec)
    ELSE Save(pol)

\* A limit counted in uses or in days: 0 and None both escape the comparison,
\* but only None escapes being saved.
MergeLimit(pol, dec) ==
    IF pol # 0 /\ dec # 0
    THEN IF pol = None THEN TypeError
         ELSE IF pol < dec THEN Refuse ELSE Save(dec)
    ELSE IF pol # None THEN Save(pol) ELSE Save(dec)

\* Mutant: the declared location wins.
MergeLocationDeclared(pol, dec) ==
    IF dec # None THEN Save(dec) ELSE Save(pol)

MergeLocation(pol, dec) ==
    IF pol # None /\ dec # None
    THEN IF pol # dec THEN Refuse ELSE Save(dec)
    ELSE IF pol # None THEN Save(pol) ELSE Save(dec)

MergeExpiration(pol, dec) ==
    IF pol # None /\ dec # None
    THEN IF pol < dec THEN Refuse ELSE Save(dec)
    ELSE IF pol # None THEN Save(pol) ELSE Save(dec)

\* The merges in the order of the handler: the first that does not save
\* decides the answer.
Merge(pol, dec) ==
    LET c == MergeLimit(pol.counter, dec.counter)
        l == MergeLocation(pol.location, dec.location)
        d == MergeLimit(pol.duration, dec.duration)
        e == MergeExpiration(pol.expiration, dec.expiration)
    IN  IF c.status # "save" THEN c
        ELSE IF l.status # "save" THEN l
        ELSE IF d.status # "save" THEN d
        ELSE IF e.status # "save" THEN e
        ELSE Save([counter |-> c.value, location |-> l.value,
                   duration |-> d.value, expiration |-> e.value])

\* The INSERT interpolates every value into quotes: None becomes text.
AsText(v) == IF v = None THEN NoneText ELSE v

SavedRow(terms) ==
    [counter    |-> AsText(terms.counter),
     location   |-> AsText(terms.location),
     duration   |-> AsText(terms.duration),
     expiration |-> AsText(terms.expiration)]

\* The row cannot be stored when text stands where data_duration, the one
\* integer column, is.
Storable(row) == row.duration # NoneText

(***************************************************************************)
(* What provide_data derives from a saved row on a given day.  A date that *)
(* does not parse raises inside the handler (500, nothing is provided).    *)
(***************************************************************************)
Providable(row) == row.expiration # NoneText

ProvidedCondition(row, now) ==
    [counter    |-> row.counter,
     location   |-> row.location,
     expiration |-> Earlier(Today(now) + row.duration, row.expiration)]

(***************************************************************************)
(* The enclave's checks of a provided condition.  Each of the two answers  *)
(* with a pair: whether the condition holds, and a flag nobody reads.      *)
(***************************************************************************)
CheckExpiration(cond, now) ==
    IF now <= Midnight(cond.expiration) THEN <<TRUE, 1>> ELSE <<FALSE, 0>>

CheckLocation(cond, here) ==
    IF cond.location \in {Anywhere, here} THEN <<TRUE, 1>> ELSE <<FALSE, 1>>

\* Python's "not": of a tuple, whether it is empty.
Not(tuple) == tuple = <<>>

\* Whether the condition is met, and is_expired.
CheckConditionPhase(cond, now, here) ==
    IF Not(CheckExpiration(cond, now)) THEN <<FALSE, 1>>
    ELSE IF Not(CheckLocation(cond, here)) THEN <<FALSE, 0>>
    ELSE <<TRUE, 0>>

=============================================================================
