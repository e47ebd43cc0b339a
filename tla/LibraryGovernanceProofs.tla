---------------------- MODULE LibraryGovernanceProofs ----------------------
(***************************************************************************)
(* Proofs about LibraryGovernance, for any number of registries, names,    *)
(* function texts, transactions in flight, calls and restarts.             *)
(***************************************************************************)
EXTENDS LibraryGovernance, TLAPS

-----------------------------------------------------------------------------
(* The operators the actions are built from.                               *)

LEMMA CallCases ==
    ASSUME NEW c \in Calls
    PROVE  \/ c.op = "register" /\ c.by \in Peers
           \/ c.op = "suggest" /\ c.name \in Names /\ c.body \in Bodies
           \/ c.op = "approve" /\ c.by \in Peers /\ c.name \in Names
           \/ c.op = "reject" /\ c.name \in Names
  BY DEF Calls

\* An approval adds its sender to the electors and to the approvals, and a
\* function becomes accepted, and stays so, only when all electors approve.
LEMMA ApprovedIs ==
    ASSUME NEW f \in Functions, NEW id \in Peers
    PROVE  /\ Approved(f, id) \in Functions
           /\ Approved(f, id).yes = f.yes \cup {id}
           /\ Approved(f, id).electors = f.electors \cup {id}
           /\ Approved(f, id).body = f.body
           /\ Approved(f, id).status =
                IF f.electors \subseteq f.yes \cup {id} THEN "Accepted" ELSE f.status
  BY DEF Approved, Functions

LEMMA RejectedIs ==
    ASSUME NEW f \in Functions
    PROVE  /\ Rejected(f) \in Functions
           /\ Rejected(f).status = "Rejected"
           /\ Rejected(f).yes = f.yes /\ Rejected(f).electors = f.electors
           /\ Rejected(f).body = f.body
  BY DEF Rejected, Functions

-----------------------------------------------------------------------------
(* Type correctness.                                                       *)

\* A name nothing was committed under has version 0, the version that a
\* suggestion pretends to have read.
Versioned == \A n \in Names : ledger[n] # NoFunction => version[n] > 0

\* What is proposed for a call is a function when the call is one about one.
ProposalTyped(t) ==
    t.call.op # "register" => t.proposal.write \in Functions

Typed ==
    /\ TypeOK /\ Versioned
    /\ \A s \in Slots : tx[s] # NoTx => ProposalTyped(tx[s])

LEMMA InitTyped == Init => Typed
  BY LibraryBounds DEF Init, Typed, TypeOK, Versioned

LEMMA ProposalType ==
    ASSUME Typed, NEW p \in Peers, NEW c \in Calls,
           c.op \in {"approve", "reject"} => Votable(c.name)
    PROVE  /\ Proposal(p, c) \in [read : Nat, write : Functions \cup {NoFunction}]
           /\ c.op = "register" => Proposal(p, c) = NoProposal
           /\ c.op # "register" => Proposal(p, c).write \in Functions
           /\ c.op = "suggest" => Proposal(p, c) = [read |-> 0, write |-> Suggested(p, c.name, c.body)]
           /\ c.op = "approve" => Proposal(p, c) = [read |-> version[c.name],
                                                   write |-> Approved(ledger[c.name], c.by)]
           /\ c.op = "reject" => Proposal(p, c) = [read |-> version[c.name],
                                                  write |-> Rejected(ledger[c.name])]
  <1>1. CASE c.op = "register"
    BY <1>1 DEF Proposal, NoProposal
  <1>2. CASE c.op = "suggest" /\ c.name \in Names /\ c.body \in Bodies
    <2>1. Suggested(p, c.name, c.body) \in Functions
      BY <1>2 DEF Suggested, Functions, Typed, TypeOK
    <2> QED
      BY <1>2, <2>1 DEF Proposal
  <1>3. CASE c.op = "approve" /\ c.by \in Peers /\ c.name \in Names
    <2>1. ledger[c.name] \in Functions /\ version[c.name] \in Nat
      BY <1>3 DEF Votable, Typed, TypeOK
    <2> QED
      BY <1>3, <2>1, ApprovedIs DEF Proposal
  <1>4. CASE c.op = "reject" /\ c.name \in Names
    <2>1. ledger[c.name] \in Functions /\ version[c.name] \in Nat
      BY <1>4 DEF Votable, Typed, TypeOK
    <2> QED
      BY <1>4, <2>1, RejectedIs DEF Proposal
  <1> QED
    BY <1>1, <1>2, <1>3, <1>4, CallCases

LEMMA ExecuteTyped ==
    ASSUME Typed, NEW s \in Slots, NEW p \in Peers,
           NEW t \in Transactions, Execute(s, p, t), calls' \in 0..MaxCalls
    PROVE  Typed'
  <1>1. t.call \in Calls
    BY DEF Transactions
  <1>2. Proposal(p, t.call) \in [read : Nat, write : Functions \cup {NoFunction}]
    BY <1>1, ProposalType DEF Execute
  <1>3. t.call.op # "register" => Proposal(p, t.call).write \in Functions
    BY <1>1, ProposalType DEF Execute
  <1> DEFINE u == [t EXCEPT !.endorsed = @ \cup {p}, !.proposal = Proposal(p, t.call)]
  <1>4. u \in Transactions /\ u.call = t.call /\ u.proposal = Proposal(p, t.call)
    BY <1>2 DEF Transactions
  <1>5. tx' = [tx EXCEPT ![s] = u]
    BY DEF Execute
  <1> HIDE DEF u
  <1>6. tx' \in [Slots -> Transactions \cup {NoTx}]
    BY <1>4, <1>5 DEF Typed, TypeOK
  <1>7. \A r \in Slots : tx'[r] # NoTx => ProposalTyped(tx'[r])
    BY <1>3, <1>4, <1>5 DEF Typed, TypeOK, ProposalTyped
  <1>8. participants' \in [Peers -> SUBSET Peers]
    BY <1>1, CallCases DEF Execute, Typed, TypeOK
  <1>9. ballots' \in [Names -> SUBSET Peers]
    BY <1>1, CallCases DEF Execute, Typed, TypeOK
  <1>10. UNCHANGED <<ledger, version, registered, restarted, due, acknowledged>>
    BY DEF Execute
  <1> QED
    BY <1>6, <1>7, <1>8, <1>9, <1>10 DEF Typed, TypeOK, Versioned, ProposalTyped

\* The transaction of a call that is submitted.
LEMMA SubmittedIs ==
    ASSUME Typed, NEW s \in Slots, NEW p \in Peers, Submit(s, p)
    PROVE  \E c \in Calls, D \in SUBSET registered :
             LET t == [call |-> c, endorsed |-> {}, proposal |-> NoProposal, due |-> D]
             IN  t \in Transactions /\ Execute(s, p, t)
  <1>1. PICK c \in Calls :
          Execute(s, p, [call |-> c, endorsed |-> {}, proposal |-> NoProposal,
                         due |-> IF c.op = "suggest" THEN registered ELSE {}])
    BY DEF Submit
  <1>2. registered \subseteq Peers
    BY DEF Typed, TypeOK
  <1> DEFINE D == IF c.op = "suggest" THEN registered ELSE {}
  <1>3. [call |-> c, endorsed |-> {}, proposal |-> NoProposal, due |-> D] \in Transactions
    BY <1>2 DEF Transactions, NoProposal
  <1> QED
    BY <1>1, <1>3

LEMMA NextTyped == Typed /\ [Next]_vars => Typed'
  <1> SUFFICES ASSUME Typed, [Next]_vars PROVE Typed'
    OBVIOUS
  <1>1. ASSUME NEW s \in Slots, NEW p \in Peers, Submit(s, p) PROVE Typed'
    <2>1. calls' \in 0..MaxCalls
      BY <1>1, LibraryBounds DEF Submit, Typed, TypeOK
    <2> QED
      BY <1>1, <2>1, SubmittedIs, ExecuteTyped
  <1>2. ASSUME NEW s \in Slots, NEW p \in Peers, Endorse(s, p) PROVE Typed'
    BY <1>2, ExecuteTyped DEF Endorse, Typed, TypeOK
  <1>3. ASSUME NEW s \in Slots, Drop(s) PROVE Typed'
    BY <1>3 DEF Drop, history, Typed, TypeOK, Versioned, ProposalTyped
  <1>4. ASSUME NEW s \in Slots, CommitRegister(s) PROVE Typed'
    <2>1. tx[s] \in Transactions /\ tx[s].call \in Calls
      BY <1>4 DEF CommitRegister, Typed, TypeOK, Transactions
    <2>2. tx[s].call.by \in Peers
      BY <1>4, <2>1, CallCases DEF CommitRegister
    <2> QED
      BY <1>4, <2>2 DEF CommitRegister, Typed, TypeOK, Versioned, ProposalTyped
  <1>5. ASSUME NEW s \in Slots, Commit(s) PROVE Typed'
    <2> DEFINE t == tx[s]
               c == t.call
    <2>1. t \in Transactions /\ c \in Calls /\ c.op # "register"
      BY <1>5 DEF Commit, Typed, TypeOK, Transactions
    <2>2. c.name \in Names /\ (c.op = "approve" => c.by \in Peers)
      BY <2>1, CallCases
    <2>3. t.proposal.write \in Functions /\ t.due \in SUBSET Peers
      BY <1>5, <2>1 DEF Commit, Typed, ProposalTyped, Transactions
    <2>4. /\ ledger' = [ledger EXCEPT ![c.name] = t.proposal.write]
          /\ version' = [version EXCEPT ![c.name] = @ + 1]
          /\ tx' = [tx EXCEPT ![s] = NoTx]
          /\ UNCHANGED <<participants, calls, registered, restarted>>
      BY <1>5 DEF Commit
    <2>5. \/ /\ due' = [due EXCEPT ![c.name] = t.due]
             /\ ballots' = [ballots EXCEPT ![c.name] = {}]
             /\ acknowledged' = [acknowledged EXCEPT ![c.name] = {}]
          \/ /\ acknowledged' = [acknowledged EXCEPT ![c.name] =
                                   IF c.op = "approve" THEN @ \cup {c.by} ELSE @]
             /\ UNCHANGED <<due, ballots>>
      BY <1>5 DEF Commit
    <2> HIDE DEF t, c
    <2>6. /\ due' \in [Names -> SUBSET Peers] /\ ballots' \in [Names -> SUBSET Peers]
          /\ acknowledged' \in [Names -> SUBSET Peers]
      BY <2>2, <2>3, <2>5 DEF Typed, TypeOK
    <2>7. /\ ledger' \in [Names -> Functions \cup {NoFunction}]
          /\ version' \in [Names -> Nat] /\ Versioned'
      BY <2>2, <2>3, <2>4 DEF Typed, TypeOK, Versioned
    <2> QED
      BY <2>4, <2>6, <2>7 DEF Typed, TypeOK, ProposalTyped
  <1>6. ASSUME NEW p \in Peers, Restart(p) PROVE Typed'
    BY <1>6 DEF Restart, Typed, TypeOK, Versioned, ProposalTyped
  <1>7. CASE UNCHANGED vars
    BY <1>7 DEF vars, history, Typed, TypeOK, Versioned, ProposalTyped
  <1> QED
    BY <1>1, <1>2, <1>3, <1>4, <1>5, <1>6, <1>7 DEF Next

\* Every variable keeps its type: what is in the ledger, and what any peer
\* proposes for it, is a function (chaincode2, lines 53-127).
THEOREM TypeCorrect == Spec => []TypeOK
  <1>1. Typed => TypeOK
    BY DEF Typed
  <1> QED
    BY InitTyped, NextTyped, <1>1, PTL DEF Spec

-----------------------------------------------------------------------------
(***************************************************************************)
(* What is in flight, and what it will do when it is committed.            *)
(***************************************************************************)

\* What a vote does to the function as it is in the ledger now.
Outcome(c) ==
    IF c.op = "approve" THEN Approved(ledger[c.name], c.by) ELSE Rejected(ledger[c.name])

\* A vote has read a version that was there.  If it is still there, the vote
\* was executed on what the ledger holds.
VoteIsCurrent(t) ==
    LET c == t.call
    IN  c.op \in {"approve", "reject"} =>
          /\ t.proposal.read > 0 /\ t.proposal.read <= version[c.name]
          /\ t.proposal.read = version[c.name] =>
               /\ Votable(c.name) /\ t.proposal.write = Outcome(c)
               /\ c.op = "approve" => c.by \in ballots[c.name]

\* A suggestion starts a vote; once a peer that kept its list has endorsed it,
\* whoever had registered before it was submitted is an elector.
SuggestionStarts(t) ==
    t.call.op = "suggest" =>
      /\ t.proposal.read = 0
      /\ t.proposal.write.status = "Pending" /\ t.proposal.write.yes = {}
      /\ t.due \subseteq registered
      /\ (\E p \in t.endorsed : p \notin restarted)
           => t.due \subseteq t.proposal.write.electors

\* A registration is in the list of every peer that executed it and kept it.
RegistrationListed(t) ==
    t.call.op = "register" =>
      \A p \in t.endorsed : p \notin restarted => t.call.by \in participants[p]

InFlight(t) == VoteIsCurrent(t) /\ SuggestionStarts(t) /\ RegistrationListed(t)

ListsComplete == \A p \in Peers : p \notin restarted => registered \subseteq participants[p]

\* A function and the history of its votes.
FunctionStands(n) ==
    ledger[n] # NoFunction =>
      /\ ledger[n].yes \subseteq ballots[n]
      /\ acknowledged[n] \subseteq ledger[n].yes
      /\ restarted # Peers => due[n] \subseteq ledger[n].electors
      /\ ledger[n].status = "Accepted" => ledger[n].electors \subseteq ledger[n].yes

Votes ==
    /\ \A s \in Slots : tx[s] # NoTx => InFlight(tx[s])
    /\ ListsComplete
    /\ \A n \in Names : FunctionStands(n)

\* A transaction that is in flight is one about the ledger's names.
LEMMA InFlightTyped ==
    ASSUME Typed, NEW s \in Slots, tx[s] # NoTx
    PROVE  /\ tx[s] \in Transactions /\ tx[s].call \in Calls
           /\ tx[s].endorsed \subseteq Peers
           /\ tx[s].call.op # "register" => tx[s].call.name \in Names
           /\ tx[s].proposal.read \in Nat
           /\ tx[s].call.op # "register" => tx[s].proposal.write \in Functions
  <1>1. tx[s] \in Transactions /\ tx[s].call \in Calls
    BY DEF Typed, TypeOK, Transactions
  <1> QED
    BY <1>1, CallCases DEF Transactions, Typed, ProposalTyped

\* A step that leaves ledger, lists and registrations alone, keeps every
\* transaction but one or drops it, and only adds ballots.
LEMMA OthersInFlight ==
    ASSUME Typed, Votes, NEW s \in Slots,
           UNCHANGED <<ledger, version, registered, restarted>>,
           \A p \in Peers : participants[p] \subseteq participants'[p],
           \A n \in Names : ballots[n] \subseteq ballots'[n],
           \A r \in Slots \ {s} : tx'[r] = tx[r],
           NEW r \in Slots, r # s, tx'[r] # NoTx
    PROVE  InFlight(tx[r])' /\ tx'[r] = tx[r]
  <1>1. InFlight(tx[r]) /\ tx'[r] = tx[r] /\ tx[r] # NoTx
    BY DEF Votes
  <1> DEFINE t == tx[r]
  <1>2. /\ t.call.op # "register" => t.call.name \in Names
        /\ t.endorsed \subseteq Peers
    BY <1>1, InFlightTyped
  <1> HIDE DEF t
  <1>3. t' = t
    BY <1>1 DEF t
  <1>4. VoteIsCurrent(t)'
    <2>1. VoteIsCurrent(t)
      BY <1>1 DEF t, InFlight
    <2> QED
      BY <1>2, <1>3, <2>1 DEF VoteIsCurrent, Votable, Outcome, Approved, Rejected
  <1>5. SuggestionStarts(t)'
    BY <1>1, <1>3 DEF t, InFlight, SuggestionStarts
  <1>6. RegistrationListed(t)'
    BY <1>1, <1>2, <1>3 DEF t, InFlight, RegistrationListed
  <1> QED
    BY <1>1, <1>4, <1>5, <1>6 DEF InFlight, t

\* A peer executes a call: the transaction becomes one whose proposal is this
\* peer's, and any peer's before it.
LEMMA ExecuteVotes ==
    ASSUME Typed, Votes, NEW s \in Slots, NEW p \in Peers,
           NEW t \in Transactions, Execute(s, p, t),
           t.call.op = "suggest" => t.due \subseteq registered,
           t.endorsed = {} \/ (Agreed(t, p) /\ InFlight(t))
    PROVE  Votes'
  <1>a. PICK c : c = t.call
    OBVIOUS
  <1>b. PICK u : u = [t EXCEPT !.endorsed = @ \cup {p}, !.proposal = Proposal(p, c)]
    OBVIOUS
  <1>1. c \in Calls /\ t.endorsed \subseteq Peers
    BY <1>a DEF Transactions
  <1>2. /\ u.call = c /\ u.due = t.due /\ u.endorsed = t.endorsed \cup {p}
        /\ u.proposal = Proposal(p, c)
    BY <1>a, <1>b DEF Transactions
  <1>3. /\ c.op \in {"approve", "reject"} => Votable(c.name)
        /\ tx' = [tx EXCEPT ![s] = u]
        /\ participants' = IF c.op = "register" THEN [participants EXCEPT ![p] = @ \cup {c.by}]
                           ELSE participants
        /\ ballots' = IF c.op = "approve" THEN [ballots EXCEPT ![c.name] = @ \cup {c.by}]
                      ELSE ballots
        /\ UNCHANGED <<ledger, version, registered, restarted, due, acknowledged>>
    BY <1>a, <1>b DEF Execute
  <1>4. /\ tx'[s] = u /\ \A r \in Slots \ {s} : tx'[r] = tx[r]
        /\ \A q \in Peers : participants[q] \subseteq participants'[q]
        /\ c.op = "register" => c.by \in participants'[p]
        /\ \A n \in Names : ballots[n] \subseteq ballots'[n]
        /\ c.op = "approve" => c.by \in ballots'[c.name]
    BY <1>1, <1>3, CallCases DEF Typed, TypeOK
  <1>5. VoteIsCurrent(u)'
    <2>1. CASE c.op = "approve"
      <3>1. c.name \in Names /\ version[c.name] > 0 /\ version[c.name] \in Nat
        BY <1>1, <1>3, <2>1, CallCases DEF Votable, Typed, TypeOK, Versioned
      <3>2. u.proposal = [read |-> version[c.name], write |-> Approved(ledger[c.name], c.by)]
        BY <1>1, <1>2, <1>3, <2>1, ProposalType
      <3> QED
        BY <1>2, <1>3, <1>4, <2>1, <3>1, <3>2 DEF VoteIsCurrent, Votable, Outcome, Approved
    <2>2. CASE c.op = "reject"
      <3>1. c.name \in Names /\ version[c.name] > 0 /\ version[c.name] \in Nat
        BY <1>1, <1>3, <2>2, CallCases DEF Votable, Typed, TypeOK, Versioned
      <3>2. u.proposal = [read |-> version[c.name], write |-> Rejected(ledger[c.name])]
        BY <1>1, <1>2, <1>3, <2>2, ProposalType
      <3> QED
        BY <1>2, <1>3, <1>4, <2>2, <3>1, <3>2 DEF VoteIsCurrent, Votable, Outcome, Rejected
    <2> QED
      BY <1>2, <2>1, <2>2 DEF VoteIsCurrent
  <1>6. SuggestionStarts(u)'
    <2> SUFFICES ASSUME c.op = "suggest" PROVE SuggestionStarts(u)'
      BY <1>2 DEF SuggestionStarts
    <2>1. u.proposal = [read |-> 0, write |-> Suggested(p, c.name, c.body)]
      BY <1>1, <1>2, <1>3, ProposalType
    <2>2. /\ u.proposal.read = 0 /\ u.proposal.write.status = "Pending"
          /\ u.proposal.write.yes = {}
          /\ u.proposal.write.electors = participants[p]
      BY <2>1 DEF Suggested
    <2>3. ASSUME NEW q \in u.endorsed, q \notin restarted
          PROVE  u.due \subseteq u.proposal.write.electors
      <3>1. CASE q = p
        BY <1>a, <1>2, <2>2, <2>3, <3>1 DEF Votes, ListsComplete
      <3>2. CASE q # p
        <4>1. q \in t.endorsed /\ u.proposal = t.proposal /\ InFlight(t)
          BY <1>a, <1>2, <2>3, <3>2 DEF Agreed
        <4> QED
          BY <1>a, <1>2, <2>3, <4>1 DEF InFlight, SuggestionStarts
      <3> QED
        BY <3>1, <3>2
    <2> QED
      BY <1>a, <1>2, <1>3, <2>2, <2>3 DEF SuggestionStarts
  <1>7. RegistrationListed(u)'
    <2> SUFFICES ASSUME c.op = "register", NEW q \in u.endorsed, q \notin restarted
                 PROVE  c.by \in participants'[q]
      BY <1>2, <1>3 DEF RegistrationListed
    <2>1. CASE q = p
      BY <1>4, <2>1
    <2>2. CASE q # p
      <3>1. q \in t.endorsed /\ InFlight(t)
        BY <1>2, <2>2
      <3>2. q \in Peers /\ c.by \in participants[q]
        BY <1>a, <1>1, <2>2, <3>1 DEF InFlight, RegistrationListed
      <3> QED
        BY <1>4, <3>2
    <2> QED
      BY <2>1, <2>2
  <1>8. ASSUME NEW r \in Slots, tx'[r] # NoTx PROVE InFlight(tx[r])'
    <2>1. CASE r = s
      <3>1. InFlight(u)'
        BY <1>5, <1>6, <1>7 DEF InFlight
      <3> QED
        BY <1>4, <2>1, <3>1 DEF InFlight, VoteIsCurrent, SuggestionStarts, RegistrationListed, Outcome
    <2>2. CASE r # s
      BY <1>3, <1>4, <1>8, <2>2, OthersInFlight
    <2> QED
      BY <2>1, <2>2
  <1>9. ListsComplete'
    BY <1>3, <1>4 DEF Votes, ListsComplete
  <1>10. ASSUME NEW n \in Names PROVE FunctionStands(n)'
    BY <1>3, <1>4 DEF Votes, FunctionStands
  <1> QED
    BY <1>8, <1>9, <1>10 DEF Votes

\* A commit of another transaction leaves what is in flight right: a vote on the
\* same name has read an older version than the one there is now.
LEMMA OthersUncommitted ==
    ASSUME Typed, Votes, NEW s \in Slots, Commit(s),
           NEW r \in Slots, r # s, tx[r] # NoTx
    PROVE  InFlight(tx[r])'
  <1>1. PICK t : t = tx[r]
    OBVIOUS
  <1>2. PICK n \in Names :
          /\ version' = [version EXCEPT ![n] = @ + 1]
          /\ \A m \in Names : m # n => ledger'[m] = ledger[m] /\ ballots'[m] = ballots[m]
    <2>1. PICK n : n = tx[s].call.name
      OBVIOUS
    <2>2. n \in Names
      BY <2>1, InFlightTyped DEF Commit
    <2> QED
      BY <2>1, <2>2 DEF Commit, Typed, TypeOK
  <1>3. /\ UNCHANGED <<participants, registered, restarted>>
        /\ tx'[r] = t
    BY <1>1 DEF Commit, Typed, TypeOK
  <1>4. /\ InFlight(t) /\ t.proposal.read \in Nat
        /\ t.call.op # "register" => t.call.name \in Names
    BY <1>1, InFlightTyped DEF Votes
  <1>5. VoteIsCurrent(t)'
    <2> SUFFICES ASSUME t.call.op \in {"approve", "reject"} PROVE VoteIsCurrent(t)'
      BY DEF VoteIsCurrent
    <2>1. version \in [Names -> Nat] /\ t.call.name \in Names
      BY <1>4 DEF Typed, TypeOK
    <2>2. VoteIsCurrent(t)
      BY <1>4 DEF InFlight
    <2>3. CASE t.call.name = n
      BY <1>2, <1>4, <2>1, <2>2, <2>3 DEF VoteIsCurrent
    <2>4. CASE t.call.name # n
      BY <1>2, <1>4, <2>1, <2>2, <2>4 DEF VoteIsCurrent, Votable, Outcome, Approved, Rejected
    <2> QED
      BY <2>3, <2>4
  <1>6. SuggestionStarts(t)' /\ RegistrationListed(t)'
    BY <1>3, <1>4 DEF InFlight, SuggestionStarts, RegistrationListed
  <1> QED
    BY <1>3, <1>5, <1>6 DEF InFlight

\* What a commit makes of the function it is about.
LEMMA CommitStands ==
    ASSUME Typed, Votes, NEW s \in Slots, Commit(s), NEW n \in Names
    PROVE  FunctionStands(n)'
  <1>1. PICK t : t = tx[s]
    OBVIOUS
  <1>2. PICK c : c = t.call
    OBVIOUS
  <1>3. /\ InFlight(t) /\ c \in Calls /\ c.op # "register" /\ c.name \in Names
        /\ t.proposal.read \in Nat /\ t.proposal.write \in Functions
        /\ t.endorsed = Peers /\ t.proposal.read \in {0, version[c.name]}
    BY <1>1, <1>2, InFlightTyped DEF Commit, Valid, Votes
  <1>4. /\ ledger' = [ledger EXCEPT ![c.name] = t.proposal.write]
        /\ \/ /\ c.op = "suggest"
              /\ due' = [due EXCEPT ![c.name] = t.due]
              /\ ballots' = [ballots EXCEPT ![c.name] = {}]
              /\ acknowledged' = [acknowledged EXCEPT ![c.name] = {}]
           \/ /\ c.op # "suggest"
              /\ acknowledged' = [acknowledged EXCEPT ![c.name] =
                                   IF c.op = "approve" THEN @ \cup {c.by} ELSE @]
              /\ UNCHANGED <<due, ballots>>
        /\ UNCHANGED restarted
    BY <1>1, <1>2 DEF Commit
  <1>5. CASE n # c.name
    <2>1. /\ ledger'[n] = ledger[n] /\ due'[n] = due[n] /\ ballots'[n] = ballots[n]
          /\ acknowledged'[n] = acknowledged[n]
      BY <1>4, <1>5 DEF Typed, TypeOK
    <2> QED
      BY <1>4, <2>1 DEF Votes, FunctionStands
  <1>6. CASE n = c.name /\ c.op = "suggest"
    <2>1. /\ ledger'[n] = t.proposal.write /\ due'[n] = t.due
          /\ ballots'[n] = {} /\ acknowledged'[n] = {}
      BY <1>3, <1>4, <1>6 DEF Typed, TypeOK
    <2>2. /\ t.proposal.write.status = "Pending" /\ t.proposal.write.yes = {}
          /\ (\E p \in Peers : p \notin restarted) => t.due \subseteq t.proposal.write.electors
      BY <1>2, <1>3, <1>6 DEF InFlight, SuggestionStarts
    <2>3. restarted # Peers => \E p \in Peers : p \notin restarted
      BY DEF Typed, TypeOK
    <2> QED
      BY <1>4, <2>1, <2>2, <2>3 DEF FunctionStands
  <1>7. CASE n = c.name /\ c.op \in {"approve", "reject"}
    <2>1. /\ ledger'[n] = Outcome(c) /\ Votable(n)
          /\ c.op = "approve" => c.by \in ballots[n]
      BY <1>2, <1>3, <1>4, <1>7 DEF InFlight, VoteIsCurrent, Typed, TypeOK
    <2>2. PICK f : f = ledger[n]
      OBVIOUS
    <2>3. f \in Functions /\ ledger[n] # NoFunction
      BY <2>1, <2>2 DEF Votable, Typed, TypeOK
    <2>4. /\ f.yes \subseteq ballots[n] /\ acknowledged[n] \subseteq f.yes
          /\ restarted # Peers => due[n] \subseteq f.electors
          /\ f.status = "Accepted" => f.electors \subseteq f.yes
      BY <2>2, <2>3 DEF Votes, FunctionStands
    <2>5. UNCHANGED <<due, ballots>>
      BY <1>4, <1>7
    <2>6. CASE c.op = "approve"
      <3>1. c.by \in Peers /\ ledger'[n] = Approved(f, c.by)
        BY <1>3, <1>7, <2>1, <2>2, <2>6, CallCases DEF Outcome
      <3>2. acknowledged'[n] = acknowledged[n] \cup {c.by}
        BY <1>4, <1>7, <2>6 DEF Typed, TypeOK
      <3>3. /\ ledger'[n].yes = f.yes \cup {c.by}
            /\ ledger'[n].electors = f.electors \cup {c.by}
            /\ ledger'[n].status = IF f.electors \subseteq f.yes \cup {c.by}
                                   THEN "Accepted" ELSE f.status
        BY <2>3, <3>1, ApprovedIs
      <3> QED
        BY <1>4, <2>1, <2>4, <2>5, <2>6, <3>2, <3>3 DEF FunctionStands
    <2>7. CASE c.op = "reject"
      <3>1. ledger'[n] = Rejected(f)
        BY <1>7, <2>1, <2>2, <2>7 DEF Outcome
      <3>2. acknowledged'[n] = acknowledged[n]
        BY <1>4, <1>7, <2>7 DEF Typed, TypeOK
      <3>3. /\ ledger'[n].yes = f.yes /\ ledger'[n].electors = f.electors
            /\ ledger'[n].status = "Rejected"
        BY <2>3, <3>1, RejectedIs
      <3> QED
        BY <1>4, <2>4, <2>5, <3>2, <3>3 DEF FunctionStands
    <2> QED
      BY <1>7, <2>6, <2>7
  <1> QED
    BY <1>3, <1>5, <1>6, <1>7, CallCases

LEMMA InitVotes == Init => Votes
  BY DEF Init, Votes, ListsComplete, FunctionStands

LEMMA NextVotes == Typed /\ Votes /\ [Next]_vars => Votes'
  <1> SUFFICES ASSUME Typed, Votes, [Next]_vars PROVE Votes'
    OBVIOUS
  <1>1. ASSUME NEW s \in Slots, NEW p \in Peers, Submit(s, p) PROVE Votes'
    <2>1. PICK c \in Calls, D \in SUBSET registered :
            LET t == [call |-> c, endorsed |-> {}, proposal |-> NoProposal, due |-> D]
            IN  t \in Transactions /\ Execute(s, p, t)
      BY <1>1, SubmittedIs
    <2> QED
      BY <2>1, ExecuteVotes
  <1>2. ASSUME NEW s \in Slots, NEW p \in Peers, Endorse(s, p) PROVE Votes'
    <2>1. tx[s] \in Transactions /\ InFlight(tx[s])
      BY <1>2, InFlightTyped DEF Endorse, Votes
    <2> QED
      BY <1>2, <2>1, ExecuteVotes DEF Endorse, InFlight, SuggestionStarts
  <1>3. ASSUME NEW s \in Slots, Drop(s) PROVE Votes'
    <2>1. /\ UNCHANGED <<ledger, version, registered, restarted, participants, ballots, due,
                         acknowledged>>
          /\ tx' = [tx EXCEPT ![s] = NoTx]
      BY <1>3 DEF Drop, history
    <2>2. tx'[s] = NoTx /\ \A r \in Slots \ {s} : tx'[r] = tx[r]
      BY <2>1 DEF Typed, TypeOK
    <2>3. ASSUME NEW r \in Slots, tx'[r] # NoTx PROVE InFlight(tx[r])'
      BY <2>1, <2>2, <2>3, OthersInFlight
    <2> QED
      BY <2>1, <2>3 DEF Votes, ListsComplete, FunctionStands
  <1>4. ASSUME NEW s \in Slots, CommitRegister(s) PROVE Votes'
    <2>1. /\ UNCHANGED <<ledger, version, restarted, participants, ballots, due, acknowledged>>
          /\ tx' = [tx EXCEPT ![s] = NoTx] /\ tx[s] # NoTx
          /\ registered' = registered \cup {tx[s].call.by}
          /\ tx[s].call.op = "register" /\ tx[s].endorsed = Peers
      BY <1>4 DEF CommitRegister
    <2>2. tx'[s] = NoTx /\ \A r \in Slots \ {s} : tx'[r] = tx[r]
      BY <2>1 DEF Typed, TypeOK
    <2>3. ASSUME NEW r \in Slots, tx'[r] # NoTx PROVE InFlight(tx[r])'
      <3>1. PICK t : t = tx[r]
        OBVIOUS
      <3>2. InFlight(t) /\ tx'[r] = t
        BY <2>2, <2>3, <3>1 DEF Votes
      <3>3. VoteIsCurrent(t)'
        BY <2>1, <3>2 DEF InFlight, VoteIsCurrent, Votable, Outcome, Approved, Rejected
      <3>4. SuggestionStarts(t)'
        BY <2>1, <3>2 DEF InFlight, SuggestionStarts
      <3>5. RegistrationListed(t)'
        BY <2>1, <3>2 DEF InFlight, RegistrationListed
      <3> QED
        BY <3>2, <3>3, <3>4, <3>5 DEF InFlight
    <2>4. ListsComplete'
      BY <2>1 DEF Votes, InFlight, RegistrationListed, ListsComplete
    <2> QED
      BY <2>1, <2>3, <2>4 DEF Votes, FunctionStands
  <1>5. ASSUME NEW s \in Slots, Commit(s) PROVE Votes'
    <2>1. tx'[s] = NoTx /\ \A r \in Slots \ {s} : tx'[r] = tx[r]
      BY <1>5 DEF Commit, Typed, TypeOK
    <2>2. \A r \in Slots : tx'[r] # NoTx => InFlight(tx[r])'
      BY <1>5, <2>1, OthersUncommitted
    <2>3. ListsComplete'
      BY <1>5 DEF Commit, Votes, ListsComplete
    <2> QED
      BY <1>5, <2>2, <2>3, CommitStands DEF Votes
  <1>6. ASSUME NEW p \in Peers, Restart(p) PROVE Votes'
    <2>1. /\ UNCHANGED <<ledger, version, tx, registered, due, ballots, acknowledged>>
          /\ restarted' = restarted \cup {p}
          /\ \A q \in Peers : q # p => participants'[q] = participants[q]
      BY <1>6 DEF Restart, Typed, TypeOK
    <2>2. ASSUME NEW r \in Slots, tx'[r] # NoTx PROVE InFlight(tx[r])'
      <3>1. PICK t : t = tx[r]
        OBVIOUS
      <3>2. InFlight(t) /\ tx'[r] = t /\ t.endorsed \subseteq Peers
        BY <2>1, <2>2, <3>1, InFlightTyped DEF Votes
      <3>3. VoteIsCurrent(t)'
        BY <2>1, <3>2 DEF InFlight, VoteIsCurrent, Votable, Outcome, Approved, Rejected
      <3>4. SuggestionStarts(t)'
        BY <2>1, <3>2 DEF InFlight, SuggestionStarts
      <3>5. RegistrationListed(t)'
        BY <2>1, <3>2 DEF InFlight, RegistrationListed
      <3> QED
        BY <3>2, <3>3, <3>4, <3>5 DEF InFlight
    <2>3. restarted' # Peers => restarted # Peers
      BY <2>1
    <2> QED
      BY <2>1, <2>2, <2>3 DEF Votes, ListsComplete, FunctionStands
  <1>7. CASE UNCHANGED vars
    <2>1. UNCHANGED <<ledger, version, registered, restarted, participants, ballots, due,
                      acknowledged, tx>>
      BY <1>7 DEF vars, history
    <2>2. ASSUME NEW r \in Slots, tx'[r] # NoTx PROVE InFlight(tx[r])'
      <3>1. PICK t : t = tx[r]
        OBVIOUS
      <3>2. InFlight(t) /\ tx'[r] = t
        BY <2>1, <2>2, <3>1 DEF Votes
      <3>3. VoteIsCurrent(t)'
        BY <2>1, <3>2 DEF InFlight, VoteIsCurrent, Votable, Outcome, Approved, Rejected
      <3>4. SuggestionStarts(t)'
        BY <2>1, <3>2 DEF InFlight, SuggestionStarts
      <3>5. RegistrationListed(t)'
        BY <2>1, <3>2 DEF InFlight, RegistrationListed
      <3> QED
        BY <3>2, <3>3, <3>4, <3>5 DEF InFlight
    <2> QED
      BY <2>1, <2>2 DEF Votes, ListsComplete, FunctionStands
  <1> QED
    BY <1>1, <1>2, <1>3, <1>4, <1>5, <1>6, <1>7 DEF Next

LEMMA VotesAlways == Spec => [](Typed /\ Votes)
  BY InitTyped, InitVotes, NextTyped, NextVotes, PTL DEF Spec

\* A function is accepted only with the approval of every id that was registered
\* at all peers when it was suggested, as long as one peer has kept its list
\* (chaincode2, lines 53-58 and 103-127).
THEOREM AcceptedIsUnanimous == Spec => []UnanimousUnlessAllRestarted
  <1>1. Typed /\ Votes => UnanimousUnlessAllRestarted
    BY DEF Votes, FunctionStands, UnanimousUnlessAllRestarted
  <1> QED
    BY <1>1, VotesAlways, PTL

\* No approval of a function suggested before under the same name counts for
\* the function that is there (chaincode2, lines 53-58).
THEOREM BallotsDoNotCarryOver == Spec => []BallotsOfThisSuggestion
  <1>1. Typed /\ Votes => BallotsOfThisSuggestion
    BY DEF Votes, FunctionStands, BallotsOfThisSuggestion
  <1> QED
    BY <1>1, VotesAlways, PTL

\* A committed approval is not overwritten by a vote executed at the same time
\* (chaincode2, lines 60-127).
THEOREM AcknowledgedStand == Spec => []AcknowledgedVotesStand
  <1>1. Typed /\ Votes => AcknowledgedVotesStand
    BY DEF Votes, FunctionStands, AcknowledgedVotesStand
  <1> QED
    BY <1>1, VotesAlways, PTL

-----------------------------------------------------------------------------
(***************************************************************************)
(* The ledger under a commit: one vote or one suggestion, counted on the   *)
(* function that is there.                                                 *)
(***************************************************************************)

\* A commit replaces one function: by a new one, or by what the vote makes of it.
LEMMA CommitCounts ==
    ASSUME Typed, Votes, NEW s \in Slots, Commit(s)
    PROVE  \E n \in Names, f \in Functions :
             /\ ledger' = [ledger EXCEPT ![n] = f]
             /\ \/ f.status = "Pending" /\ f.yes = {}
                \/ /\ Votable(n) /\ ledger[n] \in Functions
                   /\ \/ \E id \in Peers : f = Approved(ledger[n], id)
                      \/ f = Rejected(ledger[n])
  <1>1. PICK t : t = tx[s]
    OBVIOUS
  <1>2. PICK c : c = t.call
    OBVIOUS
  <1>3. /\ InFlight(t) /\ c \in Calls /\ c.op # "register" /\ c.name \in Names
        /\ t.proposal.read \in Nat /\ t.proposal.write \in Functions
        /\ t.proposal.read \in {0, version[c.name]}
        /\ ledger' = [ledger EXCEPT ![c.name] = t.proposal.write]
    BY <1>1, <1>2, InFlightTyped DEF Commit, Valid, Votes
  <1>4. CASE c.op = "suggest"
    BY <1>2, <1>3, <1>4 DEF InFlight, SuggestionStarts
  <1>5. CASE c.op \in {"approve", "reject"}
    <2>1. Votable(c.name) /\ t.proposal.write = Outcome(c)
      BY <1>2, <1>3, <1>5 DEF InFlight, VoteIsCurrent
    <2>2. ledger[c.name] \in Functions
      BY <1>3, <2>1 DEF Votable, Typed, TypeOK
    <2>3. c.op = "approve" => c.by \in Peers
      BY <1>3, CallCases
    <2> QED
      BY <1>3, <1>5, <2>1, <2>2, <2>3 DEF Outcome
  <1> QED
    BY <1>3, <1>4, <1>5, CallCases

\* Every other step leaves the ledger alone.
LEMMA OnlyCommitsWrite ==
    ASSUME [Next]_vars
    PROVE  (\E s \in Slots : Commit(s)) \/ UNCHANGED ledger
  BY ZenonT(40)
  DEF Next, vars, history, Submit, Endorse, Execute, Drop, CommitRegister, Restart

\* A rejected function stays rejected, whatever votes are in flight, until its
\* name is suggested again (chaincode2, lines 88-101).
THEOREM RejectedStay == Spec => RejectedIsFinal
  <1> DEFINE A == \A n \in Names :
        (ledger[n] # NoFunction /\ ledger[n].status = "Rejected" /\ ledger'[n] # ledger[n])
           => ledger'[n].status = "Pending" /\ ledger'[n].yes = {}
  <1>1. Typed /\ Votes /\ [Next]_vars => A
    <2> SUFFICES ASSUME Typed, Votes, [Next]_vars PROVE A
      OBVIOUS
    <2>1. ASSUME NEW s \in Slots, Commit(s) PROVE A
      <3>1. PICK n \in Names, f \in Functions :
             /\ ledger' = [ledger EXCEPT ![n] = f]
             /\ (f.status = "Pending" /\ f.yes = {}) \/ Votable(n)
        BY <2>1, CommitCounts
      <3> QED
        BY <3>1 DEF Votable, Typed, TypeOK
    <2> QED
      BY <2>1, OnlyCommitsWrite
  <1>2. Typed /\ Votes /\ [Next]_vars => [A]_vars
    BY <1>1
  <1> HIDE DEF A
  <1>3. Spec => [][A]_vars
    BY <1>2, VotesAlways, PTL DEF Spec
  <1> QED
    BY <1>3 DEF A, RejectedIsFinal

\* Every commit is one step of VoteLedger, and nothing else is a step of it.
LEMMA NextVote ==
    ASSUME Typed, Votes, [Next]_vars
    PROVE  [Vote!Next]_ledger
  <1>1. ASSUME NEW s \in Slots, Commit(s) PROVE Vote!Next
    <2>1. PICK n \in Names, f \in Functions :
             /\ ledger' = [ledger EXCEPT ![n] = f]
             /\ \/ f.status = "Pending" /\ f.yes = {}
                \/ /\ Votable(n) /\ ledger[n] \in Functions
                   /\ \/ \E id \in Peers : f = Approved(ledger[n], id)
                      \/ f = Rejected(ledger[n])
      BY <1>1, CommitCounts
    <2>2. CASE f.status = "Pending" /\ f.yes = {}
      <3>1. f = [body |-> f.body, status |-> "Pending", electors |-> f.electors, yes |-> {}]
        BY <2>2 DEF Functions
      <3>2. f.body \in Bodies /\ f.electors \in SUBSET Peers
        BY DEF Functions
      <3> QED
        BY <2>1, <3>1, <3>2 DEF Vote!Next, Vote!Suggest
    <2>3. ASSUME Votable(n), ledger[n] \in Functions,
                 NEW id \in Peers, f = Approved(ledger[n], id)
          PROVE  Vote!Approve(n, id)
      <3>1. PICK g \in Functions : g = ledger[n]
        BY <2>3
      <3>2. f = [body |-> g.body, electors |-> g.electors \cup {id}, yes |-> g.yes \cup {id},
                 status |-> IF g.electors \cup {id} \subseteq g.yes \cup {id}
                            THEN "Accepted" ELSE g.status]
        BY ZenonT(40), <2>3, <3>1, ApprovedIs DEF Functions
      <3> QED
        BY <2>1, <2>3, <3>1, <3>2 DEF Vote!Approve, Vote!Open, Votable
    <2>4. ASSUME Votable(n), ledger[n] \in Functions, f = Rejected(ledger[n])
          PROVE  Vote!Reject(n)
      BY <2>1, <2>4 DEF Vote!Reject, Vote!Open, Votable, Rejected
    <2> QED
      BY <2>1, <2>2, <2>3, <2>4 DEF Vote!Next
  <1> QED
    BY <1>1, OnlyCommitsWrite

\* Votes executed by several peers at different times, validated or given up,
\* count as if they were cast on the ledger one after the other: every behaviour
\* of the registries is one of VoteLedger (chaincode2, lines 42-135).
THEOREM VotesAreSerial == Spec => ImplementsVoteLedger
  <1>1. Init => Vote!Init
    BY DEF Init, Vote!Init
  <1> QED
    BY <1>1, NextVote, VotesAlways, PTL DEF Spec, ImplementsVoteLedger, Vote!Spec

=============================================================================
