---------------------------- MODULE UsageControl ----------------------------
(***************************************************************************)
(* What the data processing app promises about counters: each data         *)
(* identifier has a purse of uses.  A use takes one from the purse of      *)
(* every data it is made of, and is not made when one is empty.  Until it  *)
(* is settled a fault may undo the charge, and nothing else ever does; a   *)
(* settled charge stands until the data is fetched anew, which fills the   *)
(* purse.                                                                  *)
(***************************************************************************)
EXTENDS Naturals

CONSTANTS
    Data,
    Paid    \* the uses a fetched copy is good for, at least one

VARIABLES
    left,       \* uses still in the purse of each data identifier
    unsettled,  \* data of the last use whose charge may still be undone
    faults

vars == <<left, unsettled, faults>>

Init == left = Paid /\ unsettled = {} /\ faults = 0

Fetch(d) ==
    /\ unsettled = {}
    /\ left' = [left EXCEPT ![d] = Paid[d]]
    /\ UNCHANGED <<unsettled, faults>>

Use(S) ==
    /\ unsettled = {}
    /\ \A d \in S : left[d] >= 1
    /\ left' = [d \in Data |-> IF d \in S THEN left[d] - 1 ELSE left[d]]
    /\ unsettled' = S
    /\ UNCHANGED faults

Settle(S) ==
    /\ unsettled' = unsettled \ S
    /\ UNCHANGED <<left, faults>>

Fault ==
    /\ left' = [d \in Data |-> IF d \in unsettled THEN left[d] + 1 ELSE left[d]]
    /\ unsettled' = {}
    /\ faults' = faults + 1

Next ==
    \/ \E d \in Data : Fetch(d)
    \/ \E S \in SUBSET Data : Use(S) \/ Settle(S)
    \/ Fault

Spec == Init /\ [][Next]_vars

=============================================================================
