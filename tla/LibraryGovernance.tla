------------------------- MODULE LibraryGovernance -------------------------
(***************************************************************************)
(* The registries' vote on the library functions an app may call           *)
(* (chaincode2).  Each registry runs a chaincode process of its own; a     *)
(* transaction is executed by every one of them (the endorsement policy    *)
(* wants all), each at its own time, and its write reaches the ledger only *)
(* if all proposed the same and what they read has not changed since.  The *)
(* list of participants is a variable of the chaincode process and not in  *)
(* the ledger.                                                             *)
(*                                                                         *)
(* Fabric's endorsement and validation are external: Agreed and Valid say  *)
(* what the chaincode gets from them.  IsApproved, a map from ids to       *)
(* booleans, is kept as its keys and those that are true.                  *)
(***************************************************************************)
EXTENDS Integers, FiniteSets

CONSTANTS
    Peers,        \* registries: one peer, one chaincode process, one MSP id each
    Names,        \* function names, the keys of the ledger
    Bodies,       \* function texts
    Slots,        \* transactions that may be in flight at once
    NoFunction,   \* a name nothing was suggested under
    NoTx,         \* a slot with no transaction in it
    MaxCalls      \* bound of the transactions submitted

Functions == [body : Bodies, status : {"Pending", "Accepted", "Rejected"},
              electors : SUBSET Peers, yes : SUBSET Peers]

ASSUME NoFunctionAssumption == NoFunction \notin Functions
ASSUME LibraryBounds == MaxCalls \in Nat

Calls ==
    [op : {"register"}, by : Peers]
      \cup [op : {"suggest"}, name : Names, body : Bodies]
      \cup [op : {"approve"}, by : Peers, name : Names]
      \cup [op : {"reject"}, name : Names]

VARIABLES
    ledger,        \* world state: the function under each name
    version,       \* of each name
    participants,  \* Participants, in the memory of each chaincode process
    tx,            \* the transactions in flight
    calls,         \* number of transactions submitted
    \* history
    registered,    \* ids whose RegisterID ran at every peer
    restarted,     \* peers whose chaincode process was ever restarted
    due,           \* of each name: registered when its function was suggested
    ballots,       \* ... ids an approval of which was executed on it
    acknowledged   \* ... ids an approval of which was committed

history == <<registered, restarted, due, ballots, acknowledged>>
vars == <<ledger, version, participants, tx, calls, history>>

NoProposal == [read |-> 0, write |-> NoFunction]

Init ==
    /\ ledger = [n \in Names |-> NoFunction]
    /\ version = [n \in Names |-> 0]
    /\ participants = [p \in Peers |-> {}]
    /\ tx = [s \in Slots |-> NoTx]
    /\ calls = 0
    /\ registered = {} /\ restarted = {}
    /\ due = [n \in Names |-> {}]
    /\ ballots = [n \in Names |-> {}]
    /\ acknowledged = [n \in Names |-> {}]
-----------------------------------------------------------------------------
\* Mutant: a function suggested again keeps the approvals of the former one.
SuggestedKeeping(p, n, b) ==
    [body |-> b, status |-> "Pending", electors |-> participants[p],
     yes |-> IF ledger[n] = NoFunction THEN {} ELSE ledger[n].yes]

\* Mutant: only the first participant is asked.
SuggestedOne(p, n, b) ==
    [body |-> b, status |-> "Pending", yes |-> {},
     electors |-> IF participants[p] = {} THEN {} ELSE {CHOOSE q \in participants[p] : TRUE}]

\* SuggestFunc overwrites whatever is there, and reads nothing.
Suggested(p, n, b) ==
    [body |-> b, status |-> "Pending", electors |-> participants[p], yes |-> {}]

\* Mutant: the approval replaces the map instead of joining it.
ApprovedAlone(f, id) ==
    [f EXCEPT !.yes = {id}, !.electors = @ \cup {id},
              !.status = IF f.electors \subseteq {id} THEN "Accepted" ELSE @]

\* Mutant: the approvals are counted before this one is among them.
ApprovedUncounted(f, id) ==
    [f EXCEPT !.yes = @ \cup {id}, !.electors = @ \cup {id},
              !.status = IF f.electors \subseteq f.yes THEN "Accepted" ELSE @]

\* Vote(1): an approval makes its sender an elector if he was none; when all
\* have approved the function is accepted.
Approved(f, id) ==
    [f EXCEPT !.yes = @ \cup {id}, !.electors = @ \cup {id},
              !.status = IF f.electors \subseteq f.yes \cup {id} THEN "Accepted" ELSE @]

\* Mutant: the status is cleared instead of set.
RejectedStatusless(f) == [f EXCEPT !.status = NoFunction]

\* Vote of anything but 1 rejects, an accepted function too.
Rejected(f) == [f EXCEPT !.status = "Rejected"]

\* Mutant: a rejected function may still be voted on.
VotableAlways(n) == ledger[n] # NoFunction

\* Vote fails on a name nothing is suggested under and on a rejected function.
Votable(n) == ledger[n] # NoFunction /\ ledger[n].status # "Rejected"

\* What the chaincode at p proposes for a call.
Proposal(p, c) ==
    CASE c.op = "register" -> NoProposal
      [] c.op = "suggest" -> [read |-> 0, write |-> Suggested(p, c.name, c.body)]
      [] c.op = "approve" -> [read |-> version[c.name],
                              write |-> Approved(ledger[c.name], c.by)]
      [] c.op = "reject" -> [read |-> version[c.name],
                             write |-> Rejected(ledger[c.name])]

\* The endorsements so far are the same as this one.
Agreed(t, p) == t.proposal = Proposal(p, t.call)

\* What was read is still what the ledger holds (a suggestion read nothing).
Valid(t) == t.proposal.read \in {0, version[t.call.name]}
-----------------------------------------------------------------------------
\* The chaincode process of one registry executes a call.  RegisterID appends
\* to Participants there and then, whatever becomes of the transaction.
Execute(s, p, t) ==
    /\ t.call.op \in {"approve", "reject"} => Votable(t.call.name)
    /\ tx' = [tx EXCEPT ![s] = [t EXCEPT !.endorsed = @ \cup {p},
                                        !.proposal = Proposal(p, t.call)]]
    /\ participants' = IF t.call.op = "register"
                       THEN [participants EXCEPT ![p] = @ \cup {t.call.by}]
                       ELSE participants
    /\ ballots' = IF t.call.op = "approve"
                  THEN [ballots EXCEPT ![t.call.name] = @ \cup {t.call.by}]
                  ELSE ballots
    /\ UNCHANGED <<ledger, version, registered, restarted, due, acknowledged>>

\* Some registry's user invokes the chaincode, and one peer is the first to
\* execute the call.
Submit(s, p) ==
    /\ tx[s] = NoTx
    /\ calls < MaxCalls /\ calls' = calls + 1
    /\ \E c \in Calls :
         /\ Execute(s, p, [call |-> c, endorsed |-> {}, proposal |-> NoProposal,
                           due |-> IF c.op = "suggest" THEN registered ELSE {}])

\* Another peer executes it, to the same result.
Endorse(s, p) ==
    /\ tx[s] # NoTx
    /\ p \notin tx[s].endorsed
    /\ Agreed(tx[s], p)
    /\ Execute(s, p, tx[s])
    /\ UNCHANGED calls

\* The transaction comes to nothing: its call failed or was answered
\* differently at some peer, its reads are out of date, or its client or a
\* peer went away.  Where it was executed, it was executed.
Drop(s) ==
    /\ tx[s] # NoTx
    /\ tx' = [tx EXCEPT ![s] = NoTx]
    /\ UNCHANGED <<ledger, version, participants, calls, history>>

CommitRegister(s) ==
    /\ tx[s] # NoTx
    /\ tx[s].call.op = "register" /\ tx[s].endorsed = Peers
    /\ registered' = registered \cup {tx[s].call.by}
    /\ tx' = [tx EXCEPT ![s] = NoTx]
    /\ UNCHANGED <<ledger, version, participants, calls, restarted, due,
                   ballots, acknowledged>>

Commit(s) ==
    /\ tx[s] # NoTx
    /\ LET t == tx[s]
           c == t.call
       IN  /\ c.op # "register" /\ t.endorsed = Peers
           /\ Valid(t)
           /\ ledger' = [ledger EXCEPT ![c.name] = t.proposal.write]
           /\ version' = [version EXCEPT ![c.name] = @ + 1]
           /\ IF c.op = "suggest"
              THEN /\ due' = [due EXCEPT ![c.name] = t.due]
                   /\ ballots' = [ballots EXCEPT ![c.name] = {}]
                   /\ acknowledged' = [acknowledged EXCEPT ![c.name] = {}]
              ELSE /\ acknowledged' = [acknowledged EXCEPT ![c.name] =
                                         IF c.op = "approve" THEN @ \cup {c.by} ELSE @]
                   /\ UNCHANGED <<due, ballots>>
    /\ tx' = [tx EXCEPT ![s] = NoTx]
    /\ UNCHANGED <<participants, calls, registered, restarted>>

\* A chaincode process is started again with an empty list (once each, a bound).
Restart(p) ==
    /\ p \notin restarted
    /\ participants' = [participants EXCEPT ![p] = {}]
    /\ restarted' = restarted \cup {p}
    /\ UNCHANGED <<ledger, version, tx, calls, registered, due, ballots, acknowledged>>

Next ==
    \/ \E s \in Slots, p \in Peers : Submit(s, p) \/ Endorse(s, p)
    \/ \E s \in Slots : Drop(s) \/ CommitRegister(s) \/ Commit(s)
    \/ \E p \in Peers : Restart(p)

Spec == Init /\ [][Next]_vars
-----------------------------------------------------------------------------
Transactions ==
    [call : Calls, endorsed : SUBSET Peers, due : SUBSET Peers,
     proposal : [read : Nat, write : Functions \cup {NoFunction}]]

TypeOK ==
    /\ ledger \in [Names -> Functions \cup {NoFunction}]
    /\ version \in [Names -> Nat] /\ calls \in 0..MaxCalls
    /\ participants \in [Peers -> SUBSET Peers]
    /\ tx \in [Slots -> Transactions \cup {NoTx}]
    /\ registered \subseteq Peers /\ restarted \subseteq Peers
    /\ due \in [Names -> SUBSET Peers]
    /\ ballots \in [Names -> SUBSET Peers]
    /\ acknowledged \in [Names -> SUBSET Peers]

\* A function is accepted only with the approval of every id that had
\* registered at all peers when it was suggested, as long as one peer has kept
\* its list: peers whose lists differ cannot agree on a suggestion, so a
\* partial loss of the lists blocks suggestions and never shrinks an
\* electorate (lines 53-58, 103-127).
UnanimousUnlessAllRestarted ==
    \A n \in Names :
        (ledger[n] # NoFunction /\ restarted # Peers) =>
            (ledger[n].status = "Accepted" => due[n] \subseteq ledger[n].yes)

\* Every approval in the ledger was executed on the function that is there: an
\* approval of a function suggested under the same name before does not carry
\* over, whether it was committed or still in flight.
BallotsOfThisSuggestion ==
    \A n \in Names : ledger[n] # NoFunction => ledger[n].yes \subseteq ballots[n]

\* An approval whose transaction was committed is not lost to another vote that
\* was executed at the same time, as long as the function stands.
AcknowledgedVotesStand ==
    \A n \in Names : ledger[n] # NoFunction => acknowledged[n] \subseteq ledger[n].yes

\* A rejected function stays rejected, whatever votes are still in flight,
\* until its name is suggested again.
RejectedIsFinal ==
    [][ \A n \in Names :
          (ledger[n] # NoFunction /\ ledger[n].status = "Rejected" /\ ledger'[n] # ledger[n])
             => ledger'[n].status = "Pending" /\ ledger'[n].yes = {} ]_vars

Vote == INSTANCE VoteLedger WITH Voters <- Peers, functions <- ledger

\* The ledger is one on which votes are cast one at a time, each counting on what
\* the votes before it left, however long a vote is in flight, at whichever
\* peers it is executed first and whatever is committed or restarted meanwhile
\* (lines 42-135).
ImplementsVoteLedger == Vote!Spec

=============================================================================
