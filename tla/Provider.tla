------------------------------ MODULE Provider ------------------------------
(***************************************************************************)
(* The data provision server (docker/provider/main.py): a threaded web     *)
(* server over two SQL tables.  apply decides whether a consumer's app may *)
(* use a data identifier, on the registries' processing specification and  *)
(* the provider's policy, and saves the merged terms; provide_data hands   *)
(* the data to an attested enclave for which terms are saved.  Each thread *)
(* is in one apply request; its calls to the registries, to the policy     *)
(* table and to the saved table are separate steps, with the other threads *)
(* and the registries' ledgers moving in between.                          *)
(*                                                                         *)
(* The registries and the person who edits table policy are external.      *)
(***************************************************************************)
EXTENDS UsagePolicy, FiniteSets

CONSTANTS
    Threads,      \* request threads of the server
    Apps,         \* MRENCLAVEs
    Data,         \* data identifiers
    Consumers,    \* common names in client certificates
    Registries,   \* files/registries names Registry 1 .. Registries
    Specs,        \* processing specifications [inputs, outputs]
    NoSpec,       \* a registry that answers without one
    Policies,     \* rows table policy may hold
    Requests,     \* applications that may arrive
    Flaky,        \* registries a call to which may fail, or never be answered
    MaxCommits,   \* bound of the ledger's changes
    MaxCrashes    \* bound of the server's restarts

ASSUME NoSpecAssumption == NoSpec \notin Specs
ASSUME ProviderBounds ==
    /\ Registries \in Nat \ {0} /\ Flaky \subseteq 1..Registries
    /\ MaxCommits \in Nat /\ MaxCrashes \in Nat
ASSUME RequestAssumption ==
    /\ Requests # {}
    /\ \A r \in Requests :
         /\ r.consumer \in Consumers /\ r.app \in Apps /\ r.data \in Data
         /\ {r.terms.counter, r.terms.duration} \subseteq Int
         /\ r.terms.expiration \in Int \cup {None}
ASSUME PolicyAssumption ==
    \A p \in Policies :
        {p.terms.counter, p.terms.duration, p.terms.expiration} \subseteq Int \cup {None}

VARIABLES
    \* database
    policies,   \* table policy
    saved,      \* table saved_policy
    \* threads
    pc, req, spec, asked, policy, terms, answer,
    \* registries
    ledger,     \* the specification of each app last committed
    peer,       \* what each registry's own peer has of it
    commits, crashes,
    \* history
    held,       \* specifications each registry has had
    onceAllowed,\* rows table policy has had
    tokens,     \* tokens issued
    delivered   \* the last data provided, if any: to whom and on which row

db == <<policies, saved>>
threads == <<pc, req, spec, asked, policy, terms, answer>>
registry == <<ledger, peer, commits>>
history == <<held, onceAllowed, tokens, delivered>>
vars == <<db, threads, registry, crashes, history>>

Peers == 1..Registries
Answers == {"none", "ok", "badSignature", "noSpec", "registryError", "noPolicy",
            "refused", "typeError", "conflict", "serverError"}

Init ==
    /\ policies \in SUBSET Policies
    /\ \A p, q \in policies : (p.app = q.app /\ p.data = q.data) => p = q
    /\ saved = {}
    /\ pc = [t \in Threads |-> "idle"]
    /\ req \in [Threads -> {CHOOSE r \in Requests : TRUE}]
    /\ spec = [t \in Threads |-> NoSpec]
    /\ asked = [t \in Threads |-> 0]
    /\ policy = [t \in Threads |-> None]
    /\ terms = [t \in Threads |-> None]
    /\ answer = [t \in Threads |-> "none"]
    /\ ledger \in [Apps -> Specs \cup {NoSpec}]
    /\ peer = [r \in Peers |-> ledger]
    /\ commits = 0 /\ crashes = 0
    /\ held = [r \in Peers |-> {<<a, ledger[a]>> : a \in Apps}]
    /\ onceAllowed = policies
    /\ tokens = {} /\ delivered = {}
-----------------------------------------------------------------------------
Goto(t, label) == pc' = [pc EXCEPT ![t] = label]

\* The thread answers and is free for another request.
Reply(t, a) ==
    /\ answer' = [answer EXCEPT ![t] = a]
    /\ Goto(t, "idle")
    /\ spec' = [spec EXCEPT ![t] = NoSpec]
    /\ asked' = [asked EXCEPT ![t] = 0]
    /\ policy' = [policy EXCEPT ![t] = None]
    /\ terms' = [terms EXCEPT ![t] = None]

\* DataUsageDeclaration verifies the signature before anything is looked up.
Receive(t) ==
    /\ pc[t] = "idle"
    /\ \E r \in Requests :
         /\ req' = [req EXCEPT ![t] = r]
         /\ \/ r.signed /\ Goto(t, "spec")
               /\ answer' = [answer EXCEPT ![t] = "none"]
               /\ UNCHANGED <<spec, asked, policy, terms>>
            \/ ~r.signed /\ Reply(t, "badSignature")
    /\ UNCHANGED <<db, registry, crashes, history>>

\* A body without one of the fields, or with a limit that is no number, raises
\* outside the except clause: the handler answers 500.
ReceiveMalformed(t) ==
    /\ pc[t] = "idle"
    /\ Reply(t, "serverError")
    /\ UNCHANGED <<db, req, registry, crashes, history>>

(***************************************************************************)
(* get_processing_spec asks every registry in turn and wants the same      *)
(* answer from each.                                                       *)
(***************************************************************************)
Told(t) == peer[asked[t] + 1][req[t].app]
\* Mutant: a registry without the specification counts as an answer.
AgreesEmpty(t, s) == asked[t] = 0 \/ s = spec[t]

\* Mutant: the answers are not compared.
AgreesAnything(t, s) == s # NoSpec

Agrees(t, s) == s # NoSpec /\ (asked[t] = 0 \/ s = spec[t])

\* The thread is in a call that may never return: requests.get has no timeout.
Waiting(t) == pc[t] = "spec" /\ asked[t] < Registries /\ asked[t] + 1 \in Flaky

AskRegistry(t) ==
    /\ pc[t] = "spec" /\ asked[t] < Registries
    /\ Agrees(t, Told(t))
    /\ spec' = [spec EXCEPT ![t] = IF asked[t] = 0 THEN Told(t) ELSE @]
    /\ asked' = [asked EXCEPT ![t] = @ + 1]
    /\ UNCHANGED <<db, pc, req, policy, terms, answer, registry, crashes, history>>

\* Mutant: on a disagreement the registries are asked again, for as long as it lasts.
DisagreementRetrying(t) ==
    /\ pc[t] = "spec" /\ asked[t] < Registries
    /\ ~Agrees(t, Told(t))
    /\ spec' = [spec EXCEPT ![t] = NoSpec]
    /\ asked' = [asked EXCEPT ![t] = 0]
    /\ UNCHANGED <<db, pc, req, policy, terms, answer, registry, crashes, history>>

Disagreement(t) ==
    /\ pc[t] = "spec" /\ asked[t] < Registries
    /\ ~Agrees(t, Told(t))
    /\ Reply(t, "noSpec")
    /\ UNCHANGED <<db, req, registry, crashes, history>>

\* requests.get raises outside the try: the handler answers 500.
RegistryUnreachable(t) ==
    /\ Waiting(t)
    /\ Reply(t, "registryError")
    /\ UNCHANGED <<db, req, registry, crashes, history>>

SpecObtained(t) ==
    /\ pc[t] = "spec" /\ asked[t] = Registries
    /\ Goto(t, "policy")
    /\ UNCHANGED <<db, req, spec, asked, policy, terms, answer, registry,
                   crashes, history>>

(***************************************************************************)
(* get_providing_policy selects by data_id alone and wants exactly one row.*)
(***************************************************************************)
RowsFor(d) == {p \in policies : p.data = d}

ReadPolicy(t) ==
    /\ pc[t] = "policy"
    /\ \E p \in Policies :
         /\ RowsFor(req[t].data) = {p}
         /\ policy' = [policy EXCEPT ![t] = p]
    /\ Goto(t, "decide")
    /\ UNCHANGED <<db, req, spec, asked, terms, answer, registry, crashes, history>>

NoPolicy(t) ==
    /\ pc[t] = "policy"
    /\ Cardinality(RowsFor(req[t].data)) # 1
    /\ Reply(t, "noPolicy")
    /\ UNCHANGED <<db, req, registry, crashes, history>>

\* The database refuses the connection or breaks it off, in reading the policy
\* or before the insert is committed.
DatabaseFails(t) ==
    /\ pc[t] \in {"policy", "insert"}
    /\ Reply(t, "serverError")
    /\ UNCHANGED <<db, req, registry, crashes, history>>

(***************************************************************************)
(* Whether or not to provide: input type, who asks, for which app, what    *)
(* the app outputs.  The app is looked for in the text of the policy's     *)
(* app_id: p.apps are the MRENCLAVEs that occur in it.  An output is a     *)
(* field of one numbered argument, and all of them are compared with the   *)
(* argument number of this declaration; the empty output, at which the     *)
(* comparison breaks off, is how a registry writes that there is none.     *)
(***************************************************************************)
\* Mutant: the policy's list of consumers is not consulted.
EligibleAnyone(r, s, p) ==
    /\ p.type \in s.inputs
    /\ r.cn = r.consumer
    /\ r.app \in p.apps
    /\ \A o \in s.outputs : o.arg = r.arg /\ o.field \in p.disclosing

Eligible(r, s, p) ==
    /\ p.type \in s.inputs
    /\ r.cn = r.consumer
    /\ r.cn \in p.consumers
    /\ r.app \in p.apps
    /\ \A o \in s.outputs : o.arg = r.arg /\ o.field \in p.disclosing

Decision(t) == Merge(policy[t].terms, req[t].terms)

Decide(t) ==
    /\ pc[t] = "decide"
    /\ Eligible(req[t], spec[t], policy[t])
    /\ Decision(t).status = "save"
    /\ terms' = [terms EXCEPT ![t] = Decision(t).value]
    /\ Goto(t, "insert")
    /\ UNCHANGED <<db, req, spec, asked, policy, answer, registry, crashes, history>>

NotEligible(t) ==
    /\ pc[t] = "decide"
    /\ \/ ~Eligible(req[t], spec[t], policy[t]) /\ Reply(t, "refused")
       \/ /\ Eligible(req[t], spec[t], policy[t])
          /\ \/ Decision(t).status = "refuse" /\ Reply(t, "refused")
             \/ Decision(t).status = "error" /\ Reply(t, "typeError")
    /\ UNCHANGED <<db, req, registry, crashes, history>>

Row(t) == [consumer |-> req[t].consumer, app |-> req[t].app, data |-> req[t].data,
           terms |-> SavedRow(terms[t])]

\* The primary key of saved_policy leaves the consumer out.
KeyTaken(a, d) == \E row \in saved : row.app = a /\ row.data = d

\* Mutant: REPLACE INTO instead of INSERT.
InsertRowReplacing(t) ==
    /\ pc[t] = "insert"
    /\ saved' = {row \in saved : row.app # req[t].app \/ row.data # req[t].data}
                  \cup {Row(t)}
    /\ Goto(t, "token")
    /\ UNCHANGED <<policies, req, spec, asked, policy, terms, answer, registry,
                   crashes, history>>

InsertRow(t) ==
    /\ pc[t] = "insert"
    /\ ~KeyTaken(req[t].app, req[t].data)
    /\ saved' = saved \cup {Row(t)}
    /\ Goto(t, "token")
    /\ UNCHANGED <<policies, req, spec, asked, policy, terms, answer, registry,
                   crashes, history>>

\* Mutant: ON DUPLICATE KEY UPDATE, before the failure is noticed.
InsertConflictUpdating(t) ==
    /\ pc[t] = "insert"
    /\ KeyTaken(req[t].app, req[t].data)
    /\ saved' = {row \in saved : row.app # req[t].app \/ row.data # req[t].data}
                  \cup {Row(t)}
    /\ Reply(t, "conflict")
    /\ UNCHANGED <<policies, req, registry, crashes, history>>

\* The uncaught integrity error.
InsertConflict(t) ==
    /\ pc[t] = "insert"
    /\ KeyTaken(req[t].app, req[t].data)
    /\ Reply(t, "conflict")
    /\ UNCHANGED <<db, req, registry, crashes, history>>

\* The signed token carries the merged terms as they were before they became
\* text.
Token(t) == [consumer |-> req[t].consumer, app |-> req[t].app, data |-> req[t].data,
             arg |-> req[t].arg, terms |-> terms[t]]

IssueToken(t) ==
    /\ pc[t] = "token"
    /\ tokens' = tokens \cup {Token(t)}
    /\ Reply(t, "ok")
    /\ UNCHANGED <<db, req, registry, crashes, held, onceAllowed, delivered>>

\* What comes after the commit may fail, too: the answer of the commit itself, the
\* reading of the key and the certificate, the signing.  The row stays.
TokenFails(t) ==
    /\ pc[t] = "token"
    /\ Reply(t, "serverError")
    /\ UNCHANGED <<db, req, registry, crashes, history>>

\* provide_data: the row is found by app and data; the certificate's common
\* name is not looked at.  Requests that fail change nothing.
ProvideData ==
    /\ \E row \in saved, cn \in Consumers :
         /\ Providable(row.terms)
         /\ delivered' = {[cn |-> cn, row |-> row]}
    /\ UNCHANGED <<db, threads, registry, crashes, held, onceAllowed, tokens>>

\* The server dies and is started again; an insert not yet committed is gone,
\* a committed one stays without its token.
Crash ==
    /\ crashes < MaxCrashes
    /\ crashes' = crashes + 1
    /\ pc' = [t \in Threads |-> "idle"]
    /\ spec' = [t \in Threads |-> NoSpec]
    /\ asked' = [t \in Threads |-> 0]
    /\ policy' = [t \in Threads |-> None]
    /\ terms' = [t \in Threads |-> None]
    /\ answer' = [t \in Threads |-> "none"]
    /\ UNCHANGED <<db, req, registry, history>>
-----------------------------------------------------------------------------
(* The world around the server.                                            *)

\* A registration or a revocation is ordered by the ledger ...
Commit ==
    /\ commits < MaxCommits
    /\ commits' = commits + 1
    /\ \E a \in Apps, s \in Specs \cup {NoSpec} :
         /\ s # ledger[a]
         /\ ledger' = [ledger EXCEPT ![a] = s]
    /\ UNCHANGED <<db, threads, peer, crashes, history>>

\* ... and reaches each registry's peer in its own time.
CatchUp ==
    /\ \E r \in Peers :
         /\ peer[r] # ledger
         /\ peer' = [peer EXCEPT ![r] = ledger]
         /\ held' = [held EXCEPT ![r] = @ \cup {<<a, ledger[a]>> : a \in Apps}]
    /\ UNCHANGED <<db, threads, ledger, commits, crashes, onceAllowed, tokens,
                   delivered>>

\* The provider edits its policy table; its primary key is app and data.
EditPolicy ==
    /\ \E p \in Policies :
         \/ /\ p \in policies
            /\ policies' = policies \ {p}
            /\ UNCHANGED onceAllowed
         \/ /\ ~\E q \in policies : q.app = p.app /\ q.data = p.data
            /\ policies' = policies \cup {p}
            /\ onceAllowed' = onceAllowed \cup {p}
    /\ UNCHANGED <<saved, threads, registry, crashes, held, tokens, delivered>>

ApplyStep(t) ==
    \/ Receive(t) \/ ReceiveMalformed(t)
    \/ AskRegistry(t) \/ Disagreement(t) \/ RegistryUnreachable(t) \/ SpecObtained(t)
    \/ ReadPolicy(t) \/ NoPolicy(t) \/ DatabaseFails(t)
    \/ Decide(t) \/ NotEligible(t)
    \/ InsertRow(t) \/ InsertConflict(t)
    \/ IssueToken(t) \/ TokenFails(t)

Next ==
    \/ \E t \in Threads : ApplyStep(t)
    \/ ProvideData \/ Crash
    \/ Commit \/ CatchUp \/ EditPolicy

Spec == Init /\ [][Next]_vars

\* A thread that is in a request keeps running, unless it waits for a registry
\* that may never answer; clients need not send any.
FairSpec ==
    Spec /\ \A t \in Threads : WF_vars(ApplyStep(t) /\ pc[t] # "idle" /\ ~Waiting(t))
-----------------------------------------------------------------------------
RowKey == [consumer : Consumers, app : Apps, data : Data]

TypeOK ==
    /\ policies \subseteq onceAllowed /\ onceAllowed \subseteq Policies
    /\ \A row \in saved : [consumer |-> row.consumer, app |-> row.app,
                          data |-> row.data] \in RowKey
    /\ pc \in [Threads -> {"idle", "spec", "policy", "decide", "insert", "token"}]
    /\ req \in [Threads -> Requests]
    /\ spec \in [Threads -> Specs \cup {NoSpec}]
    /\ \A t \in Threads : pc[t] \in {"policy", "decide", "insert", "token"} =>
           spec[t] \in Specs /\ asked[t] = Registries
    /\ asked \in [Threads -> 0..Registries]
    /\ policy \in [Threads -> Policies \cup {None}]
    /\ answer \in [Threads -> Answers]
    /\ ledger \in [Apps -> Specs \cup {NoSpec}]
    /\ peer \in [Peers -> [Apps -> Specs \cup {NoSpec}]]
    /\ held \in [Peers -> SUBSET (Apps \X (Specs \cup {NoSpec}))]
    /\ commits \in 0..MaxCommits /\ crashes \in 0..MaxCrashes

\* What a policy's terms demand of the terms saved under it.
Within(rt, pt) ==
    /\ pt.counter \in Int => rt.counter <= pt.counter
    /\ pt.duration \in Int => rt.duration <= pt.duration
    /\ pt.location # None => rt.location = pt.location
    /\ pt.expiration # None => rt.expiration <= pt.expiration

\* The rows that data is, or was last, provided under.
Provided == {d.row : d \in delivered}
Effective == saved \cup Provided

\* A policy row and a specification, once held by the table and by every
\* registry, that together allow a saved row.
AllowedBy(row, p, s) ==
    /\ row.app \in p.apps /\ p.data = row.data
    /\ row.consumer \in p.consumers
    /\ Within(row.terms, p.terms)
    /\ \A r \in Peers : <<row.app, s>> \in held[r]
    /\ p.type \in s.inputs
    /\ \A o \in s.outputs : o.field \in p.disclosing

\* Every such row was allowed when it was decided on: by one policy row that
\* names its app, data and consumer, and by one specification that every
\* registry has held and whose outputs that policy discloses; the saved terms
\* are within that policy's.  Policies and ledgers may have changed since.
RowsWereAllowed ==
    \A row \in Effective : \E p \in onceAllowed, s \in Specs : AllowedBy(row, p, s)

\* Every token given out, whoever else applied meanwhile and whether or not
\* the server restarted, is for the terms that provide_data will find.
TokensMatchRows ==
    \A tk \in tokens :
        \A row \in saved :
            (row.app = tk.app /\ row.data = tk.data) =>
                /\ row.consumer = tk.consumer
                /\ row.terms = SavedRow(tk.terms)

\* Every application is answered, whatever registries, policies and other threads
\* do: only one whose call a registry leaves unanswered for ever is not.
EveryApplicationAnswered ==
    \A t \in Threads : <>[]Waiting(t) \/ (pc[t] # "idle" ~> pc[t] = "idle")

\* What UsageGrants calls endorsed and due.
Endorsed == {e \in Apps \X Specs : \A r \in Peers : e \in held[r]}
Due == {Token(t) : t \in {u \in Threads : pc[u] = "token"}}

\* Rows of which nobody has the token and nobody is about to.
Lost ==
    {row \in saved : \A tk \in tokens \cup Due : tk.app # row.app \/ tk.data # row.data}

\* A row that a restart, or an error after the commit, has left without its token
\* is never taken over: no application made again, by the same consumer or by
\* another, gets a token for it or other terms into it (lines 393-431).
LostGrantsStayLost == [][ Lost \subseteq Lost' ]_vars

Grants == INSTANCE UsageGrants WITH
    Applications <- Requests, allowed <- onceAllowed, endorsed <- Endorsed,
    grants <- saved, due <- Due, provided <- Provided

\* However many applications are under way, whatever registries and policies do
\* between their steps and whenever the server dies: it is as if each was decided
\* at once, on a policy and a specification that there were, and nothing but a
\* grant ever leads to a row, a token or data (lines 151-205, 251-433).
ImplementsUsageGrants == Grants!Spec

=============================================================================
