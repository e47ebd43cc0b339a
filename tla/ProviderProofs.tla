--------------------------- MODULE ProviderProofs ---------------------------
(***************************************************************************)
(* Proofs about Provider, for any number of request threads, registries,   *)
(* policies, applications, ledger changes and restarts.                    *)
(***************************************************************************)
EXTENDS Provider, TLAPS

-----------------------------------------------------------------------------
(* Type correctness.                                                       *)

\* A thread that is free has forgotten its request; one that is not has not
\* answered it.  Once a registry has answered there is a specification.
Fresh ==
    \A t \in Threads : /\ pc[t] = "idle" => asked[t] = 0
                       /\ pc[t] # "idle" => answer[t] = "none"
                       /\ asked[t] > 0 => spec[t] \in Specs

\* TypeOK says nothing of the merged terms, which may hold any location.
Typed == TypeOK /\ Fresh /\ DOMAIN terms = Threads

LEMMA InitTyped == Init => Typed
  <1> SUFFICES ASSUME Init PROVE Typed
    OBVIOUS
  <1>1. (CHOOSE r \in Requests : TRUE) \in Requests
    BY RequestAssumption
  <1>2. req \in [Threads -> Requests]
    BY <1>1 DEF Init
  <1>3. held \in [Peers -> SUBSET (Apps \X (Specs \cup {NoSpec}))]
    BY DEF Init
  <1> QED
    BY <1>2, <1>3, ProviderBounds DEF Init, Typed, TypeOK, Fresh, Answers

\* An answer frees the thread and touches no other.
LEMMA ReplyTyped ==
    ASSUME Typed, NEW t \in Threads, NEW a \in Answers, Reply(t, a),
           req' \in [Threads -> Requests],
           UNCHANGED <<db, registry, crashes, held, onceAllowed>>
    PROVE  Typed'
  <1> USE DEF Typed, TypeOK, Reply, Goto, db, registry
  <1>1. /\ pc' \in [Threads -> {"idle", "spec", "policy", "decide", "insert", "token"}]
        /\ spec' \in [Threads -> Specs \cup {NoSpec}]
        /\ asked' \in [Threads -> 0..Registries]
        /\ policy' \in [Threads -> Policies \cup {None}]
        /\ answer' \in [Threads -> Answers]
    BY ProviderBounds
  <1>2. \A u \in Threads : pc'[u] \in {"policy", "decide", "insert", "token"} =>
            spec'[u] \in Specs /\ asked'[u] = Registries
    OBVIOUS
  <1>3. Fresh'
    BY DEF Fresh
  <1> QED
    BY <1>1, <1>2, <1>3

LEMMA NextTyped == Typed /\ [Next]_vars => Typed'
  <1> SUFFICES ASSUME Typed, [Next]_vars PROVE Typed'
    OBVIOUS
  <1> USE DEF db, registry, history, threads
  <1>1. ASSUME NEW t \in Threads, Receive(t) PROVE Typed'
    <2>1. req' \in [Threads -> Requests] /\ UNCHANGED <<db, registry, crashes, held, onceAllowed>>
      BY <1>1 DEF Receive, Typed, TypeOK
    <2>2. CASE Reply(t, "badSignature")
      BY <2>1, <2>2, ReplyTyped DEF Answers
    <2>3. CASE /\ Goto(t, "spec") /\ answer' = [answer EXCEPT ![t] = "none"]
               /\ UNCHANGED <<spec, asked, policy, terms>>
      BY <2>1, <2>3 DEF Goto, Typed, TypeOK, Fresh, Answers
    <2> QED
      BY <1>1, <2>2, <2>3 DEF Receive
  <1>2. ASSUME NEW t \in Threads, AskRegistry(t) PROVE Typed'
    <2>1. asked[t] + 1 \in Peers /\ req[t].app \in Apps
      BY <1>2, ProviderBounds, RequestAssumption DEF AskRegistry, Typed, TypeOK, Peers
    <2>2. Told(t) \in Specs \cup {NoSpec}
      BY <2>1 DEF Told, Typed, TypeOK
    <2>3. /\ spec' \in [Threads -> Specs \cup {NoSpec}] /\ spec'[t] \in Specs
          /\ asked' \in [Threads -> 0..Registries]
      BY <1>2, <2>1, <2>2, ProviderBounds DEF AskRegistry, Agrees, Typed, TypeOK, Peers, Fresh
    <2> QED
      BY <1>2, <2>3 DEF AskRegistry, Typed, TypeOK, Fresh
  <1>3. ASSUME NEW t \in Threads, Disagreement(t) PROVE Typed'
    BY <1>3, ReplyTyped DEF Disagreement, Answers, Typed, TypeOK
  <1>4. ASSUME NEW t \in Threads, RegistryUnreachable(t) PROVE Typed'
    BY <1>4, ReplyTyped DEF RegistryUnreachable, Answers, Typed, TypeOK
  <1>5. ASSUME NEW t \in Threads, SpecObtained(t) PROVE Typed'
    BY <1>5, ProviderBounds DEF SpecObtained, Goto, Typed, TypeOK, Fresh
  <1>6. ASSUME NEW t \in Threads, ReadPolicy(t) PROVE Typed'
    BY <1>6 DEF ReadPolicy, Goto, Typed, TypeOK, Fresh
  <1>7. ASSUME NEW t \in Threads, NoPolicy(t) PROVE Typed'
    BY <1>7, ReplyTyped DEF NoPolicy, Answers, Typed, TypeOK
  <1>8. ASSUME NEW t \in Threads, Decide(t) PROVE Typed'
    BY <1>8 DEF Decide, Goto, Typed, TypeOK, Fresh
  <1>9. ASSUME NEW t \in Threads, NotEligible(t) PROVE Typed'
    BY <1>9, ReplyTyped DEF NotEligible, Answers, Typed, TypeOK
  <1>10. ASSUME NEW t \in Threads, InsertRow(t) PROVE Typed'
    BY <1>10, RequestAssumption DEF InsertRow, Goto, Row, RowKey, Typed, TypeOK, Fresh
  <1>11. ASSUME NEW t \in Threads, InsertConflict(t) PROVE Typed'
    BY <1>11, ReplyTyped DEF InsertConflict, Answers, Typed, TypeOK
  <1>12. ASSUME NEW t \in Threads, IssueToken(t) PROVE Typed'
    BY <1>12, ReplyTyped DEF IssueToken, Answers, Typed, TypeOK
  <1>12a. ASSUME NEW t \in Threads, ReceiveMalformed(t) \/ DatabaseFails(t) \/ TokenFails(t)
          PROVE  Typed'
    BY <1>12a, ReplyTyped DEF ReceiveMalformed, DatabaseFails, TokenFails, Answers, Typed, TypeOK
  <1>13. CASE ProvideData
    BY <1>13 DEF ProvideData, Typed, TypeOK, Fresh
  <1>14. CASE Crash
    BY <1>14, ProviderBounds DEF Crash, Typed, TypeOK, Fresh, Answers
  <1>15. CASE Commit
    BY <1>15, ProviderBounds DEF Commit, Typed, TypeOK, Fresh
  <1>16. CASE CatchUp
    BY <1>16 DEF CatchUp, Typed, TypeOK, Fresh
  <1>17. CASE EditPolicy
    BY <1>17 DEF EditPolicy, Typed, TypeOK, Fresh
  <1>18. CASE UNCHANGED vars
    BY <1>18 DEF vars, Typed, TypeOK, Fresh
  <1> QED
    BY <1>1, <1>2, <1>3, <1>4, <1>5, <1>6, <1>7, <1>8, <1>9, <1>10, <1>11, <1>12,
       <1>12a, <1>13, <1>14, <1>15, <1>16, <1>17, <1>18 DEF Next, ApplyStep

\* Every variable keeps its type; in particular a thread that decides has one
\* specification, from all the registries (provider/main.py 260-340).
THEOREM TypeCorrect == Spec => []TypeOK
  <1>1. Typed => TypeOK
    BY DEF Typed
  <1> QED
    BY InitTyped, NextTyped, <1>1, PTL DEF Spec

-----------------------------------------------------------------------------
(***************************************************************************)
(* One row to a key, and one row to a token.                               *)
(***************************************************************************)
KeysAreUnique ==
    \A row1 \in saved, row2 \in saved :
        row1.app = row2.app /\ row1.data = row2.data => row1 = row2

\* Between the insert and the token the row is there ...
InsertedFirst == \A t \in Threads : pc[t] = "token" => Row(t) \in saved

\* ... and stays, since nothing removes a row.
RowOf(tk) == [consumer |-> tk.consumer, app |-> tk.app, data |-> tk.data,
              terms |-> SavedRow(tk.terms)]

TokensHaveRows == \A tk \in tokens : RowOf(tk) \in saved

Issued == KeysAreUnique /\ InsertedFirst /\ TokensHaveRows

\* A step that leaves rows and tokens alone, and brings no thread to "token".
LEMMA QuietIssued ==
    ASSUME Issued, UNCHANGED <<saved, tokens>>,
           \A t \in Threads : pc'[t] = "token" =>
               pc[t] = "token" /\ req'[t] = req[t] /\ terms'[t] = terms[t]
    PROVE  Issued'
  BY DEF Issued, KeysAreUnique, InsertedFirst, TokensHaveRows, RowOf, Row

LEMMA InitIssued == Init => Issued
  BY DEF Init, Issued, KeysAreUnique, InsertedFirst, TokensHaveRows

LEMMA NextIssued == Typed /\ Issued /\ [Next]_vars => Issued'
  <1> SUFFICES ASSUME Typed, Issued, [Next]_vars PROVE Issued'
    OBVIOUS
  <1> USE DEF db, registry, history, threads
  <1>1. /\ pc \in [Threads -> {"idle", "spec", "policy", "decide", "insert", "token"}]
        /\ req \in [Threads -> Requests] /\ DOMAIN terms = Threads
    BY DEF Typed, TypeOK
  <1>2. ASSUME NEW t \in Threads, NEW a, Reply(t, a), UNCHANGED <<saved, tokens>>,
               \A u \in Threads \ {t} : req'[u] = req[u]
        PROVE  Issued'
    BY <1>1, <1>2, QuietIssued DEF Reply, Goto
  <1>3. ASSUME NEW t \in Threads, Receive(t) PROVE Issued'
    <2>1. \A u \in Threads \ {t} : req'[u] = req[u]
      BY <1>1, <1>3 DEF Receive
    <2>2. CASE Reply(t, "badSignature")
      BY <1>2, <1>3, <2>1, <2>2 DEF Receive
    <2>3. CASE Goto(t, "spec") /\ terms' = terms
      BY <1>1, <1>3, <2>1, <2>3, QuietIssued DEF Receive, Goto
    <2> QED
      BY <1>3, <2>2, <2>3 DEF Receive
  <1>4. ASSUME NEW t \in Threads, AskRegistry(t) PROVE Issued'
    BY <1>4, QuietIssued DEF AskRegistry
  <1>5. ASSUME NEW t \in Threads,
               ReceiveMalformed(t) \/ Disagreement(t) \/ RegistryUnreachable(t)
                 \/ NoPolicy(t) \/ DatabaseFails(t) \/ NotEligible(t)
                 \/ InsertConflict(t) \/ TokenFails(t)
        PROVE  Issued'
    BY <1>2, <1>5 DEF ReceiveMalformed, Disagreement, RegistryUnreachable, NoPolicy,
                      DatabaseFails, NotEligible, InsertConflict, TokenFails
  <1>6. ASSUME NEW t \in Threads, SpecObtained(t) \/ ReadPolicy(t) \/ Decide(t)
        PROVE  Issued'
    <2>1. \A u \in Threads : pc'[u] = "token" =>
              pc[u] = "token" /\ req'[u] = req[u] /\ terms'[u] = terms[u]
      BY <1>1, <1>6 DEF SpecObtained, ReadPolicy, Decide, Goto
    <2> QED
      BY <1>6, <2>1, QuietIssued DEF SpecObtained, ReadPolicy, Decide
  <1>7. ASSUME NEW t \in Threads, InsertRow(t) PROVE Issued'
    <2>1. KeysAreUnique'
      BY <1>7 DEF InsertRow, KeyTaken, Row, Issued, KeysAreUnique
    <2>2. InsertedFirst'
      BY <1>1, <1>7 DEF InsertRow, Goto, Row, Issued, InsertedFirst
    <2>3. TokensHaveRows'
      BY <1>7 DEF InsertRow, Issued, TokensHaveRows, RowOf
    <2> QED
      BY <2>1, <2>2, <2>3 DEF Issued
  <1>8. ASSUME NEW t \in Threads, IssueToken(t) PROVE Issued'
    <2>1. KeysAreUnique'
      BY <1>8 DEF IssueToken, Issued, KeysAreUnique
    <2>2. InsertedFirst'
      BY <1>1, <1>8 DEF IssueToken, Reply, Goto, Row, Issued, InsertedFirst
    <2>3. TokensHaveRows'
      BY <1>8 DEF IssueToken, Token, Issued, InsertedFirst, TokensHaveRows, Row, RowOf
    <2> QED
      BY <2>1, <2>2, <2>3 DEF Issued
  <1>9. CASE ProvideData \/ Commit \/ CatchUp \/ EditPolicy
    BY <1>9, QuietIssued DEF ProvideData, Commit, CatchUp, EditPolicy
  <1>10. CASE Crash
    BY <1>10, QuietIssued DEF Crash
  <1>11. CASE UNCHANGED vars
    BY <1>11, QuietIssued DEF vars
  <1> QED
    BY <1>3, <1>4, <1>5, <1>6, <1>7, <1>8, <1>9, <1>10, <1>11 DEF Next, ApplyStep

\* A token is for the terms that provide_data will find, whatever other
\* applications came in between and however often the server restarted: the
\* primary key of saved_policy leaves one row to each token (provider/main.py
\* 388-420).
THEOREM TokensAreForRows == Spec => []TokensMatchRows
  <1>1. Issued => TokensMatchRows
    <2> SUFFICES ASSUME Issued, NEW tk \in tokens, NEW row \in saved,
                        row.app = tk.app, row.data = tk.data
                 PROVE  row.consumer = tk.consumer /\ row.terms = SavedRow(tk.terms)
      BY DEF TokensMatchRows
    <2>1. RowOf(tk) \in saved /\ RowOf(tk).app = row.app /\ RowOf(tk).data = row.data
      BY DEF Issued, TokensHaveRows, RowOf
    <2>2. row = RowOf(tk)
      BY <2>1 DEF Issued, KeysAreUnique
    <2> QED
      BY <2>2 DEF RowOf
  <1> QED
    BY InitTyped, NextTyped, InitIssued, NextIssued, <1>1, PTL DEF Spec

-----------------------------------------------------------------------------
(***************************************************************************)
(* A row and what allowed it.                                              *)
(***************************************************************************)
\* What a registry's peer has, it has had.
PeersAreHeld == \A r \in Peers : \A a \in Apps : <<a, peer[r][a]>> \in held[r]

\* The registries that a thread has asked have had its specification.
SpecIsHeld ==
    \A t \in Threads : \A r \in 1..asked[t] : <<req[t].app, spec[t]>> \in held[r]

\* A thread decides on a row of table policy for its data, and inserts what one
\* such row and its specification allow.
PolicyWasRead ==
    \A t \in Threads : pc[t] = "decide" =>
        policy[t] \in onceAllowed /\ policy[t].data = req[t].data

Warranted(row) == \E p \in onceAllowed, s \in Specs : AllowedBy(row, p, s)

InsertIsAllowed == \A t \in Threads : pc[t] = "insert" => Warranted(Row(t))

Grounds ==
    PeersAreHeld /\ SpecIsHeld /\ PolicyWasRead /\ InsertIsAllowed /\ RowsWereAllowed

\* What the registries have had and the table has allowed only grows, and with
\* it what is warranted.
Grows == onceAllowed \subseteq onceAllowed' /\ \A r \in Peers : held[r] \subseteq held'[r]

LEMMA StaysWarranted ==
    ASSUME Grows, NEW row, Warranted(row)
    PROVE  Warranted(row)'
  <1>1. PICK p \in onceAllowed, s \in Specs : AllowedBy(row, p, s)
    BY DEF Warranted
  <1>2. p \in onceAllowed' /\ \A r \in Peers : <<row.app, s>> \in held'[r]
    BY <1>1 DEF Grows, AllowedBy
  <1> QED
    BY <1>1, <1>2 DEF Warranted, AllowedBy

\* What the merges save, as the INSERT stores it, is within the policy.
LEMMA SavedTermsWithin ==
    ASSUME NEW pol, NEW dec, Merge(pol, dec).status = "save",
           pol.counter \in Int \cup {None}, dec.counter \in Int,
           pol.duration \in Int \cup {None}, dec.duration \in Int,
           pol.expiration \in Int \cup {None}, dec.expiration \in Int \cup {None}
    PROVE  Within(SavedRow(Merge(pol, dec).value), pol)
  <1> DEFINE c == MergeLimit(pol.counter, dec.counter)
             l == MergeLocation(pol.location, dec.location)
             d == MergeLimit(pol.duration, dec.duration)
             e == MergeExpiration(pol.expiration, dec.expiration)
             row == SavedRow(Merge(pol, dec).value)
  <1>1. /\ row.counter = AsText(c.value) /\ row.location = AsText(l.value)
        /\ row.duration = AsText(d.value) /\ row.expiration = AsText(e.value)
        /\ c.status = "save" /\ l.status = "save"
        /\ d.status = "save" /\ e.status = "save"
    <2> HIDE DEF c, l, d, e
    <2> QED
      BY DEF Merge, Save, SavedRow, c, l, d, e
  <1>2. /\ c.value \in Int /\ (pol.counter \in Int => c.value <= pol.counter)
        /\ d.value \in Int /\ (pol.duration \in Int => d.value <= pol.duration)
    BY <1>1, NoneAssumption DEF MergeLimit, Save, Refuse, TypeError
  <1>3. pol.location # None => l.value = pol.location
    BY <1>1 DEF MergeLocation, Save, Refuse
  <1>4. pol.expiration # None => e.value \in Int /\ e.value <= pol.expiration
    BY <1>1, NoneAssumption DEF MergeExpiration, Save, Refuse
  <1> HIDE DEF c, l, d, e, row
  <1> QED
    BY <1>1, <1>2, <1>3, <1>4, NoneAssumption DEF AsText, Within, row

\* What an eligible application is granted is within the policy.
LEMMA DecisionIsAllowed ==
    ASSUME Typed, Grounds, NEW t \in Threads, pc[t] = "decide",
           Eligible(req[t], spec[t], policy[t]), Decision(t).status = "save"
    PROVE  Warranted([consumer |-> req[t].consumer, app |-> req[t].app,
                      data |-> req[t].data, terms |-> SavedRow(Decision(t).value)])
  <1> DEFINE p == policy[t]
             row == [consumer |-> req[t].consumer, app |-> req[t].app,
                     data |-> req[t].data, terms |-> SavedRow(Decision(t).value)]
  <1>1. /\ p \in onceAllowed /\ p \in Policies /\ p.data = req[t].data
        /\ req[t] \in Requests
    BY DEF Grounds, PolicyWasRead, Typed, TypeOK
  <1>2. Within(SavedRow(Decision(t).value), p.terms)
    BY <1>1, PolicyAssumption, RequestAssumption, SavedTermsWithin DEF Decision
  <1>3. spec[t] \in Specs /\ \A r \in Peers : <<req[t].app, spec[t]>> \in held[r]
    BY DEF Typed, TypeOK, Grounds, SpecIsHeld, Peers
  <1>4. AllowedBy(row, p, spec[t])
    BY <1>1, <1>2, <1>3 DEF AllowedBy, Eligible
  <1> QED
    BY <1>1, <1>3, <1>4 DEF Warranted

\* A step that leaves rows and deliveries alone.
LEMMA QuietRows ==
    ASSUME RowsWereAllowed, Grows, UNCHANGED <<saved, delivered>>
    PROVE  RowsWereAllowed'
  <1>1. \A row \in Effective : Warranted(row)
    BY DEF RowsWereAllowed, Warranted
  <1>2. Effective' = Effective
    BY DEF Effective, Provided
  <1>3. \A row \in Effective' : Warranted(row)'
    BY <1>1, <1>2, StaysWarranted
  <1> QED
    BY <1>3 DEF RowsWereAllowed, Warranted

\* A step of one thread: what is to be shown of it alone.
LEMMA ThreadGrounds ==
    ASSUME Typed, Grounds, NEW t \in Threads,
           UNCHANGED <<peer, held, onceAllowed>>,
           \A u \in Threads \ {t} :
               /\ pc'[u] = pc[u] /\ req'[u] = req[u] /\ spec'[u] = spec[u]
               /\ asked'[u] = asked[u] /\ policy'[u] = policy[u] /\ terms'[u] = terms[u],
           \A r \in 1..asked'[t] : <<req'[t].app, spec'[t]>> \in held[r],
           pc'[t] = "decide" => policy'[t] \in onceAllowed /\ policy'[t].data = req'[t].data,
           pc'[t] = "insert" => Warranted(Row(t)'),
           RowsWereAllowed'
    PROVE  Grounds'
  <1>1. PeersAreHeld'
    BY DEF Grounds, PeersAreHeld
  <1>2. SpecIsHeld'
    BY DEF Grounds, SpecIsHeld
  <1>3. PolicyWasRead'
    BY DEF Grounds, PolicyWasRead
  <1>4. InsertIsAllowed'
    <2>1. \A row : Warranted(row) => Warranted(row)'
      BY StaysWarranted DEF Grows
    <2> SUFFICES ASSUME NEW u \in Threads, pc'[u] = "insert" PROVE Warranted(Row(u))'
      BY DEF InsertIsAllowed
    <2>2. CASE u = t
      <3>1. Warranted(Row(t)')
        BY <2>2
      <3> QED
        BY <2>2, <3>1 DEF Warranted, AllowedBy
    <2>3. CASE u # t
      <3>1. Row(u)' = Row(u) /\ Warranted(Row(u))
        BY <2>3 DEF Row, Grounds, InsertIsAllowed
      <3> QED
        BY ZenonT(40), <3>1 DEF Warranted, AllowedBy
    <2> QED
      BY <2>2, <2>3
  <1> QED
    BY <1>1, <1>2, <1>3, <1>4 DEF Grounds

\* A thread that answers.
LEMMA ReplyGrounds ==
    ASSUME Typed, Grounds, NEW t \in Threads, NEW a, Reply(t, a),
           \A u \in Threads \ {t} : req'[u] = req[u],
           UNCHANGED <<saved, peer, held, onceAllowed, delivered>>
    PROVE  Grounds'
  <1>1. RowsWereAllowed'
    BY QuietRows DEF Grounds, Grows
  <1>2. pc'[t] = "idle" /\ asked'[t] = 0
    BY DEF Reply, Goto, Typed, TypeOK
  <1>3. \A u \in Threads \ {t} :
            /\ pc'[u] = pc[u] /\ spec'[u] = spec[u] /\ asked'[u] = asked[u]
            /\ policy'[u] = policy[u] /\ terms'[u] = terms[u]
    BY DEF Reply, Goto, Typed, TypeOK
  <1>4. \A r \in 1..asked'[t] : <<req'[t].app, spec'[t]>> \in held[r]
    BY <1>2
  <1>5. pc'[t] # "decide" /\ pc'[t] # "insert"
    BY <1>2
  <1> QED
    BY <1>1, <1>3, <1>4, <1>5, ThreadGrounds

LEMMA InitGrounds == Init => Grounds
  <1> SUFFICES ASSUME Init PROVE Grounds
    OBVIOUS
  <1>1. PeersAreHeld /\ SpecIsHeld /\ PolicyWasRead /\ InsertIsAllowed
    BY DEF Init, PeersAreHeld, SpecIsHeld, PolicyWasRead, InsertIsAllowed
  <1>2. Effective = {}
    BY DEF Init, Effective, Provided
  <1> QED
    BY <1>1, <1>2 DEF Grounds, RowsWereAllowed

LEMMA NextGrounds == Typed /\ Grounds /\ [Next]_vars => Grounds'
  <1> SUFFICES ASSUME Typed, Grounds, [Next]_vars PROVE Grounds'
    OBVIOUS
  <1> USE DEF db, registry, history, threads
  <1>1. /\ pc \in [Threads -> {"idle", "spec", "policy", "decide", "insert", "token"}]
        /\ req \in [Threads -> Requests] /\ spec \in [Threads -> Specs \cup {NoSpec}]
        /\ asked \in [Threads -> 0..Registries] /\ policy \in [Threads -> Policies \cup {None}]
        /\ DOMAIN terms = Threads
    BY DEF Typed, TypeOK
  <1>2. UNCHANGED <<saved, held, onceAllowed, delivered>> => RowsWereAllowed'
    BY QuietRows DEF Grounds, Grows
  <1>3. ASSUME NEW t \in Threads, Receive(t) PROVE Grounds'
    <2>1. \A u \in Threads \ {t} : req'[u] = req[u]
      BY <1>1, <1>3 DEF Receive
    <2>2. CASE Reply(t, "badSignature")
      BY <1>3, <2>1, <2>2, ReplyGrounds DEF Receive
    <2>3. CASE Goto(t, "spec") /\ UNCHANGED <<spec, asked, policy, terms>>
      <3>1. pc'[t] = "spec" /\ \A u \in Threads \ {t} : pc'[u] = pc[u]
        BY <1>1, <2>3 DEF Goto
      <3>2. asked'[t] = 0
        BY <1>3, <2>3 DEF Receive, Typed, Fresh
      <3>3. \A r \in 1..asked'[t] : <<req'[t].app, spec'[t]>> \in held[r]
        BY <3>2
      <3> QED
        BY <1>2, <1>3, <2>1, <2>3, <3>1, <3>3, ThreadGrounds DEF Receive
    <2> QED
      BY <1>3, <2>2, <2>3 DEF Receive
  <1>4. ASSUME NEW t \in Threads, AskRegistry(t) PROVE Grounds'
    <2>1. asked[t] + 1 \in Peers /\ req[t].app \in Apps /\ asked'[t] = asked[t] + 1
      BY <1>1, <1>4, ProviderBounds, RequestAssumption DEF AskRegistry, Peers
    <2>2. spec'[t] = Told(t) /\ (asked[t] # 0 => spec'[t] = spec[t])
      BY <1>1, <1>4 DEF AskRegistry, Agrees
    <2>3. <<req[t].app, spec'[t]>> \in held[asked[t] + 1]
      BY <2>1, <2>2 DEF Told, Grounds, PeersAreHeld
    <2>4. \A r \in 1..asked'[t] : r = asked[t] + 1 \/ (r \in 1..asked[t] /\ asked[t] # 0)
      BY <1>1, <2>1, ProviderBounds
    <2>5. \A r \in 1..asked'[t] : <<req'[t].app, spec'[t]>> \in held[r]
      BY <1>4, <2>2, <2>3, <2>4 DEF AskRegistry, Grounds, SpecIsHeld
    <2>6. pc' = pc /\ pc[t] = "spec"
      BY <1>4 DEF AskRegistry
    <2>7. \A u \in Threads \ {t} : spec'[u] = spec[u] /\ asked'[u] = asked[u]
      BY <1>1, <1>4 DEF AskRegistry
    <2> QED
      BY <1>2, <1>4, <2>5, <2>6, <2>7, ThreadGrounds DEF AskRegistry
  <1>5. ASSUME NEW t \in Threads,
               ReceiveMalformed(t) \/ Disagreement(t) \/ RegistryUnreachable(t)
                 \/ NoPolicy(t) \/ DatabaseFails(t) \/ NotEligible(t)
                 \/ InsertConflict(t) \/ IssueToken(t) \/ TokenFails(t)
        PROVE  Grounds'
    <2>1. UNCHANGED <<req, saved, peer, held, onceAllowed, delivered>>
      BY <1>5 DEF ReceiveMalformed, Disagreement, RegistryUnreachable, NoPolicy,
                  DatabaseFails, NotEligible, InsertConflict, IssueToken, TokenFails
    <2>2. \E a : Reply(t, a)
      BY <1>5 DEF ReceiveMalformed, Disagreement, RegistryUnreachable, NoPolicy,
                  DatabaseFails, NotEligible, InsertConflict, IssueToken, TokenFails
    <2> QED
      BY <2>1, <2>2, ReplyGrounds
  <1>6. ASSUME NEW t \in Threads, SpecObtained(t) PROVE Grounds'
    <2>1. pc'[t] = "policy" /\ \A u \in Threads \ {t} : pc'[u] = pc[u]
      BY <1>1, <1>6 DEF SpecObtained, Goto
    <2> QED
      BY <1>2, <1>6, <2>1, ThreadGrounds DEF SpecObtained, Grounds, SpecIsHeld
  <1>7. ASSUME NEW t \in Threads, ReadPolicy(t) PROVE Grounds'
    <2>1. pc'[t] = "decide" /\ \A u \in Threads \ {t} : pc'[u] = pc[u]
      BY <1>1, <1>7 DEF ReadPolicy, Goto
    <2>2. /\ policy'[t] \in onceAllowed /\ policy'[t].data = req[t].data
          /\ \A u \in Threads \ {t} : policy'[u] = policy[u]
      BY <1>1, <1>7 DEF ReadPolicy, RowsFor, Typed, TypeOK
    <2> QED
      BY <1>2, <1>7, <2>1, <2>2, ThreadGrounds DEF ReadPolicy, Grounds, SpecIsHeld
  <1>8. ASSUME NEW t \in Threads, Decide(t) PROVE Grounds'
    <2>1. pc'[t] = "insert" /\ \A u \in Threads \ {t} : pc'[u] = pc[u]
      BY <1>1, <1>8 DEF Decide, Goto
    <2>2. terms'[t] = Decision(t).value /\ \A u \in Threads \ {t} : terms'[u] = terms[u]
      BY <1>1, <1>8 DEF Decide
    <2>3. Row(t)' = [consumer |-> req[t].consumer, app |-> req[t].app,
                     data |-> req[t].data, terms |-> SavedRow(Decision(t).value)]
      BY <1>8, <2>2 DEF Decide, Row, SavedRow, AsText
    <2>4. Warranted(Row(t)')
      BY <1>8, <2>3, DecisionIsAllowed DEF Decide
    <2> QED
      BY <1>2, <1>8, <2>1, <2>2, <2>4, ThreadGrounds DEF Decide, Grounds, SpecIsHeld
  <1>9. ASSUME NEW t \in Threads, InsertRow(t) PROVE Grounds'
    <2>1. pc'[t] = "token" /\ \A u \in Threads \ {t} : pc'[u] = pc[u]
      BY <1>1, <1>9 DEF InsertRow, Goto
    <2>2. Grows
      BY <1>9 DEF InsertRow, Grows
    <2>3. Effective' \subseteq Effective \cup {Row(t)}
      BY <1>9 DEF InsertRow, Effective, Provided
    <2>4. \A row \in Effective' : Warranted(row)
      BY <1>9, <2>3 DEF InsertRow, Grounds, RowsWereAllowed, Warranted, InsertIsAllowed
    <2>5. RowsWereAllowed'
      BY <2>2, <2>4, StaysWarranted DEF RowsWereAllowed, Warranted
    <2> QED
      BY <1>9, <2>1, <2>5, ThreadGrounds DEF InsertRow, Grounds, SpecIsHeld
  <1>10. CASE ProvideData
    <2>1. Grows
      BY <1>10 DEF ProvideData, Grows
    <2>2. Effective' \subseteq saved
      BY <1>10 DEF ProvideData, Effective, Provided
    <2>3. RowsWereAllowed'
      BY <2>1, <2>2, StaysWarranted DEF Grounds, RowsWereAllowed, Warranted, Effective, Provided
    <2>4. PeersAreHeld' /\ SpecIsHeld' /\ PolicyWasRead'
      BY <1>10 DEF ProvideData, Grounds, PeersAreHeld, SpecIsHeld, PolicyWasRead
    <2>5. InsertIsAllowed'
      BY ZenonT(40), <1>10
      DEF ProvideData, Grounds, InsertIsAllowed, Warranted, AllowedBy, Row
    <2> QED
      BY <2>3, <2>4, <2>5 DEF Grounds
  <1>11. CASE Crash
    <2>1. \A t \in Threads : pc'[t] = "idle" /\ asked'[t] = 0
      BY <1>11 DEF Crash
    <2>2. PeersAreHeld' /\ SpecIsHeld' /\ PolicyWasRead' /\ InsertIsAllowed'
      BY <1>11, <2>1 DEF Crash, Grounds, PeersAreHeld, SpecIsHeld, PolicyWasRead,
                         InsertIsAllowed
    <2> QED
      BY <1>2, <1>11, <2>2 DEF Crash, Grounds
  <1>12. CASE Commit \/ CatchUp \/ EditPolicy \/ UNCHANGED vars
    <2>1. Grows
      BY <1>12 DEF Commit, CatchUp, EditPolicy, vars, Grows, Typed, TypeOK
    <2>2. UNCHANGED <<saved, delivered, pc, req, spec, asked, policy, terms>>
      BY <1>12 DEF Commit, CatchUp, EditPolicy, vars
    <2>3. PeersAreHeld'
      BY <1>12 DEF Commit, CatchUp, EditPolicy, vars, Grounds, PeersAreHeld, Typed, TypeOK
    <2>4. SpecIsHeld'
      <3>1. \A t \in Threads : \A r \in 1..asked[t] : r \in Peers
        BY <1>1, ProviderBounds DEF Peers
      <3> QED
        BY <2>1, <2>2, <3>1 DEF Grounds, SpecIsHeld, Grows
    <2>5. PolicyWasRead'
      BY <2>1, <2>2 DEF Grounds, PolicyWasRead, Grows
    <2>6. InsertIsAllowed'
      <3> SUFFICES ASSUME NEW t \in Threads, pc'[t] = "insert" PROVE Warranted(Row(t))'
        BY DEF InsertIsAllowed
      <3>1. Row(t)' = Row(t) /\ Warranted(Row(t))
        BY <2>2 DEF Row, Grounds, InsertIsAllowed
      <3>2. Warranted(Row(t)')
        BY <3>1
      <3> QED
        BY <2>1, <3>1, StaysWarranted DEF Warranted, AllowedBy
    <2> QED
      BY <2>1, <2>2, <2>3, <2>4, <2>5, <2>6, QuietRows DEF Grounds
  <1> QED
    BY <1>3, <1>4, <1>5, <1>6, <1>7, <1>8, <1>9, <1>10, <1>11, <1>12 DEF Next, ApplyStep

\* Every row that data is, or was last, provided under was allowed by a policy
\* and by a specification that every registry had, and is within that policy's
\* terms, for every number of concurrent applications and whatever policies and
\* ledgers do meanwhile (provider/main.py 277-397).
THEOREM RowsAreAllowed == Spec => []RowsWereAllowed
  <1>1. Grounds => RowsWereAllowed
    BY DEF Grounds
  <1> QED
    BY InitTyped, NextTyped, InitGrounds, NextGrounds, <1>1, PTL DEF Spec

-----------------------------------------------------------------------------
(***************************************************************************)
(* The server refines UsageGrants: the insert is where an application is   *)
(* decided.                                                                *)
(***************************************************************************)
\* Only a signed application is worked on.
Signed == \A t \in Threads : pc[t] # "idle" => req[t].signed

\* What a thread inserts is the decision on what it has read.
InsertIsDecided ==
    \A t \in Threads : pc[t] = "insert" =>
        /\ policy[t] \in onceAllowed /\ policy[t].data = req[t].data
        /\ Eligible(req[t], spec[t], policy[t])
        /\ Decision(t).status = "save" /\ terms[t] = Decision(t).value

\* One thread is about to sign a token for a row.
OneSigner ==
    \A t, u \in Threads :
        /\ pc[t] = "token" /\ pc[u] = "token"
        /\ req[t].app = req[u].app /\ req[t].data = req[u].data
        => t = u

Decided == Signed /\ InsertIsDecided /\ OneSigner

\* A step of one thread: what is to be shown of it alone.
LEMMA ThreadDecided ==
    ASSUME Typed, Decided, NEW t \in Threads, UNCHANGED onceAllowed,
           \A u \in Threads \ {t} :
               /\ pc'[u] = pc[u] /\ req'[u] = req[u] /\ spec'[u] = spec[u]
               /\ policy'[u] = policy[u] /\ terms'[u] = terms[u],
           pc'[t] # "idle" => req'[t].signed,
           pc'[t] = "insert" =>
               /\ policy'[t] \in onceAllowed /\ policy'[t].data = req'[t].data
               /\ Eligible(req'[t], spec'[t], policy'[t])
               /\ Merge(policy'[t].terms, req'[t].terms).status = "save"
               /\ terms'[t] = Merge(policy'[t].terms, req'[t].terms).value,
           pc'[t] = "token" =>
               \A u \in Threads \ {t} : pc[u] = "token" =>
                   req[u].app # req'[t].app \/ req[u].data # req'[t].data
    PROVE  Decided'
  <1>1. Signed'
    BY DEF Decided, Signed
  <1>2. InsertIsDecided'
    <2> SUFFICES ASSUME NEW u \in Threads, pc'[u] = "insert"
                 PROVE  /\ policy'[u] \in onceAllowed /\ policy'[u].data = req'[u].data
                        /\ Eligible(req'[u], spec'[u], policy'[u])
                        /\ Merge(policy'[u].terms, req'[u].terms).status = "save"
                        /\ terms'[u] = Merge(policy'[u].terms, req'[u].terms).value
      BY DEF InsertIsDecided, Decision, Eligible
    <2> QED
      BY DEF Decided, InsertIsDecided, Decision
  <1>3. OneSigner'
    BY DEF Decided, OneSigner
  <1> QED
    BY <1>1, <1>2, <1>3 DEF Decided

\* A thread that answers.
LEMMA ReplyDecided ==
    ASSUME Typed, Decided, NEW t \in Threads, NEW a, Reply(t, a),
           \A u \in Threads \ {t} : req'[u] = req[u], UNCHANGED onceAllowed
    PROVE  Decided'
  <1>1. pc'[t] = "idle"
    BY DEF Reply, Goto, Typed, TypeOK
  <1>2. \A u \in Threads \ {t} :
            /\ pc'[u] = pc[u] /\ spec'[u] = spec[u]
            /\ policy'[u] = policy[u] /\ terms'[u] = terms[u]
    BY DEF Reply, Goto, Typed, TypeOK
  <1>3. pc'[t] # "insert" /\ pc'[t] # "token"
    BY <1>1
  <1> QED
    BY <1>1, <1>2, <1>3, ThreadDecided

LEMMA NextDecided == Typed /\ Issued /\ Grounds /\ Decided /\ [Next]_vars => Decided'
  <1> SUFFICES ASSUME Typed, Issued, Grounds, Decided, [Next]_vars PROVE Decided'
    OBVIOUS
  <1> USE DEF db, registry, history, threads
  <1>1. /\ pc \in [Threads -> {"idle", "spec", "policy", "decide", "insert", "token"}]
        /\ req \in [Threads -> Requests] /\ spec \in [Threads -> Specs \cup {NoSpec}]
        /\ policy \in [Threads -> Policies \cup {None}] /\ DOMAIN terms = Threads
    BY DEF Typed, TypeOK
  <1>2. \A t \in Threads : pc[t] # "idle" => req[t].signed
    BY DEF Decided, Signed
  <1>3. ASSUME NEW t \in Threads, Receive(t) PROVE Decided'
    <2>1. \A u \in Threads \ {t} : req'[u] = req[u]
      BY <1>1, <1>3 DEF Receive
    <2>2. CASE Reply(t, "badSignature")
      BY <1>3, <2>1, <2>2, ReplyDecided DEF Receive
    <2>3. CASE /\ Goto(t, "spec") /\ UNCHANGED <<spec, policy, terms>>
               /\ req'[t].signed
      <3>1. pc'[t] = "spec" /\ \A u \in Threads \ {t} : pc'[u] = pc[u]
        BY <1>1, <2>3 DEF Goto
      <3> QED
        BY <1>3, <2>1, <2>3, <3>1, ThreadDecided DEF Receive
    <2>4. PICK r \in Requests :
             /\ req' = [req EXCEPT ![t] = r]
             /\ \/ r.signed /\ Goto(t, "spec") /\ UNCHANGED <<spec, policy, terms>>
                \/ Reply(t, "badSignature")
      BY <1>3 DEF Receive
    <2>5. req'[t] = r
      BY <1>1, <2>4
    <2> QED
      BY <2>2, <2>3, <2>4, <2>5
  <1>4. ASSUME NEW t \in Threads, AskRegistry(t) PROVE Decided'
    <2>1. pc' = pc /\ pc[t] = "spec" /\ UNCHANGED <<req, policy, terms, onceAllowed>>
      BY <1>4 DEF AskRegistry
    <2>2. \A u \in Threads \ {t} : spec'[u] = spec[u]
      BY <1>1, <1>4 DEF AskRegistry
    <2> QED
      BY <1>2, <2>1, <2>2, ThreadDecided
  <1>5. ASSUME NEW t \in Threads,
               ReceiveMalformed(t) \/ Disagreement(t) \/ RegistryUnreachable(t)
                 \/ NoPolicy(t) \/ DatabaseFails(t) \/ NotEligible(t)
                 \/ InsertConflict(t) \/ IssueToken(t) \/ TokenFails(t)
        PROVE  Decided'
    <2>1. UNCHANGED <<req, onceAllowed>> /\ \E a : Reply(t, a)
      BY <1>5 DEF ReceiveMalformed, Disagreement, RegistryUnreachable, NoPolicy,
                  DatabaseFails, NotEligible, InsertConflict, IssueToken, TokenFails
    <2> QED
      BY <2>1, ReplyDecided
  <1>6. ASSUME NEW t \in Threads, SpecObtained(t) \/ ReadPolicy(t) PROVE Decided'
    <2>1. /\ pc'[t] \in {"policy", "decide"} /\ pc[t] \in {"spec", "policy"}
          /\ \A u \in Threads \ {t} : pc'[u] = pc[u] /\ policy'[u] = policy[u]
          /\ UNCHANGED <<req, spec, terms, onceAllowed>>
      BY <1>1, <1>6 DEF SpecObtained, ReadPolicy, Goto
    <2> QED
      BY <1>2, <2>1, ThreadDecided
  <1>7. ASSUME NEW t \in Threads, Decide(t) PROVE Decided'
    <2>1. /\ pc'[t] = "insert" /\ \A u \in Threads \ {t} : pc'[u] = pc[u]
          /\ terms'[t] = Decision(t).value
          /\ \A u \in Threads \ {t} : terms'[u] = terms[u]
      BY <1>1, <1>7 DEF Decide, Goto
    <2>2. policy[t] \in onceAllowed /\ policy[t].data = req[t].data
      BY <1>7 DEF Decide, Grounds, PolicyWasRead
    <2>3. pc[t] = "decide" /\ UNCHANGED <<req, spec, policy, onceAllowed>>
          /\ Eligible(req[t], spec[t], policy[t]) /\ Decision(t).status = "save"
      BY <1>7 DEF Decide
    <2> QED
      BY <1>2, <2>1, <2>2, <2>3, ThreadDecided DEF Decision
  <1>8. ASSUME NEW t \in Threads, InsertRow(t) PROVE Decided'
    <2>1. /\ pc'[t] = "token" /\ pc[t] = "insert"
          /\ \A u \in Threads \ {t} : pc'[u] = pc[u]
          /\ UNCHANGED <<req, spec, policy, terms, onceAllowed>>
      BY <1>1, <1>8 DEF InsertRow, Goto
    <2>2. \A u \in Threads : pc[u] = "token" =>
              req[u].app # req[t].app \/ req[u].data # req[t].data
      BY <1>8 DEF InsertRow, KeyTaken, Issued, InsertedFirst, Row
    <2> QED
      BY <1>2, <2>1, <2>2, ThreadDecided
  <1>9. CASE Crash
    <2>1. \A t \in Threads : pc'[t] = "idle"
      BY <1>9 DEF Crash
    <2> QED
      BY <2>1 DEF Decided, Signed, InsertIsDecided, OneSigner
  <1>10. CASE ProvideData \/ Commit \/ CatchUp \/ EditPolicy \/ UNCHANGED vars
    <2>1. onceAllowed \subseteq onceAllowed' /\ UNCHANGED <<pc, req, spec, policy, terms>>
      BY <1>10 DEF ProvideData, Commit, CatchUp, EditPolicy, vars
    <2>2. Signed' /\ OneSigner'
      BY <2>1 DEF Decided, Signed, OneSigner
    <2>3. InsertIsDecided'
      BY <2>1 DEF Decided, InsertIsDecided, Decision, Eligible
    <2> QED
      BY <2>2, <2>3 DEF Decided
  <1> QED
    BY <1>3, <1>4, <1>5, <1>6, <1>7, <1>8, <1>9, <1>10 DEF Next, ApplyStep

-----------------------------------------------------------------------------
\* The arithmetic that UsageGrants speaks of is the handler's.
LEMMA SameMerge ==
    ASSUME NEW pol, NEW dec
    PROVE  Grants!Merge(pol, dec) = Merge(pol, dec)
  BY DEF Grants!Merge, Merge, Grants!MergeLimit, MergeLimit, Grants!MergeLocation,
         MergeLocation, Grants!MergeExpiration, MergeExpiration, Grants!Save, Save,
         Grants!Refuse, Refuse, Grants!TypeError, TypeError

\* A thread's row and token are what UsageGrants makes of its application.
LEMMA SameRowAndToken ==
    ASSUME NEW t \in Threads
    PROVE  /\ Grants!Token(req[t], terms[t]) = Token(t)
           /\ Grants!GrantOf(Token(t)) = Row(t)
  BY DEF Grants!Token, Token, Grants!GrantOf, Row, Grants!SavedRow, SavedRow,
         Grants!AsText, AsText

\* A step after which the same threads are about to sign the same tokens.
LEMMA DueStays ==
    ASSUME \A t \in Threads : pc'[t] = "token" <=> pc[t] = "token",
           \A t \in Threads : pc[t] = "token" => req'[t] = req[t] /\ terms'[t] = terms[t]
    PROVE  Due' = Due
  BY DEF Due, Token

\* The insert is the decision of UsageGrants.
LEMMA InsertGrants ==
    ASSUME Typed, Issued, Grounds, Decided, NEW t \in Threads, InsertRow(t)
    PROVE  Grants!Grant(req[t])
  <1> USE DEF db, registry, history
  <1>1. /\ pc[t] = "insert" /\ saved' = saved \cup {Row(t)}
        /\ ~\E g \in saved : g.app = req[t].app /\ g.data = req[t].data
        /\ UNCHANGED <<req, terms, onceAllowed, held, tokens, delivered>>
    BY DEF InsertRow, KeyTaken
  <1>2. pc' = [pc EXCEPT ![t] = "token"] /\ DOMAIN pc = Threads
    BY DEF InsertRow, Goto, Typed, TypeOK
  <1>3. Due' = Due \cup {Token(t)}
    BY <1>1, <1>2 DEF Due, Token
  <1>4. spec[t] \in Specs /\ asked[t] = Registries /\ req[t] \in Requests
    BY <1>1 DEF Typed, TypeOK
  <1>5. <<req[t].app, spec[t]>> \in Endorsed
    BY <1>4, RequestAssumption DEF Endorsed, Peers, Grounds, SpecIsHeld
  <1>6. /\ policy[t] \in onceAllowed /\ Grants!Permits(policy[t], spec[t], req[t])
        /\ Merge(policy[t].terms, req[t].terms).status = "save"
        /\ terms[t] = Merge(policy[t].terms, req[t].terms).value
    BY <1>1 DEF Decided, Signed, InsertIsDecided, Decision, Eligible, Grants!Permits
  <1>7. UNCHANGED <<onceAllowed, Endorsed, tokens, Provided>>
    BY <1>1 DEF Endorsed, Provided
  <1> QED
    BY <1>1, <1>3, <1>4, <1>5, <1>6, <1>7, SameMerge, SameRowAndToken DEF Grants!Grant

\* Nobody else is about to sign the token that is issued.
LEMMA IssueGivesOut ==
    ASSUME Typed, Decided, NEW t \in Threads, IssueToken(t)
    PROVE  Grants!GiveOut
  <1> USE DEF db, registry, history
  <1>1. /\ pc[t] = "token" /\ tokens' = tokens \cup {Token(t)}
        /\ UNCHANGED <<saved, req, onceAllowed, held, delivered>>
    BY DEF IssueToken
  <1>2. /\ pc' = [pc EXCEPT ![t] = "idle"] /\ DOMAIN pc = Threads
        /\ \A u \in Threads \ {t} : terms'[u] = terms[u]
    BY DEF IssueToken, Reply, Goto, Typed, TypeOK
  <1>3. \A u \in Threads \ {t} : Token(u)' = Token(u)
    BY <1>1, <1>2 DEF Token
  <1>4. \A u \in Threads \ {t} : pc[u] = "token" => Token(u) # Token(t)
    BY <1>1 DEF Decided, OneSigner, Token
  <1>5. Due' = Due \ {Token(t)}
    <2>1. Due' = {Token(u) : u \in {v \in Threads \ {t} : pc[v] = "token"}}
      BY <1>2, <1>3 DEF Due
    <2> QED
      BY <1>1, <1>4, <2>1 DEF Due
  <1>6. Token(t) \in Due
    BY <1>1 DEF Due
  <1>7. UNCHANGED <<onceAllowed, Endorsed, saved, Provided>>
    BY <1>1 DEF Endorsed, Provided
  <1> QED
    BY <1>1, <1>5, <1>6, <1>7 DEF Grants!GiveOut

\* Every insert, token, failure, delivery and restart is the step of UsageGrants of that
\* name, registries and edits add to what is allowed, and nothing else is seen.
LEMMA NextGrants ==
    ASSUME Typed, Issued, Grounds, Decided, [Next]_vars
    PROVE  [Grants!Next]_(Grants!vars)
  <1> USE DEF db, registry, history, threads
  <1>1. DOMAIN pc = Threads
    BY DEF Typed, TypeOK
  <1>2. ASSUME NEW t \in Threads, ApplyStep(t), ~InsertRow(t), ~IssueToken(t), ~TokenFails(t)
        PROVE  UNCHANGED Grants!vars
    <2>1. UNCHANGED <<saved, tokens, onceAllowed, held, delivered>>
      BY <1>2 DEF ApplyStep, Receive, ReceiveMalformed, AskRegistry, Disagreement,
                  RegistryUnreachable, SpecObtained, ReadPolicy, NoPolicy, DatabaseFails,
                  Decide, NotEligible, InsertConflict
    <2>2. /\ pc[t] # "token" /\ pc'[t] # "token"
          /\ \A u \in Threads \ {t} :
                 pc'[u] = pc[u] /\ req'[u] = req[u] /\ terms'[u] = terms[u]
      <3>1. DOMAIN req = Threads /\ DOMAIN terms = Threads
        BY DEF Typed, TypeOK
      <3>2. CASE ReceiveMalformed(t) \/ DatabaseFails(t)
        BY <1>1, <3>1, <3>2 DEF ReceiveMalformed, DatabaseFails, Reply, Goto
      <3>3. CASE ~ReceiveMalformed(t) /\ ~DatabaseFails(t)
        BY <1>1, <1>2, <3>1, <3>3
           DEF ApplyStep, Receive, AskRegistry, Disagreement, RegistryUnreachable, Waiting,
               SpecObtained, ReadPolicy, NoPolicy, Decide, NotEligible, InsertConflict,
               Reply, Goto
      <3> QED
        BY <3>2, <3>3
    <2>3. Due' = Due
      BY <2>2, DueStays
    <2> QED
      BY <2>1, <2>3 DEF Grants!vars, Endorsed, Provided
  <1>3. ASSUME NEW t \in Threads, InsertRow(t) PROVE Grants!Next
    BY <1>3, InsertGrants DEF Grants!Next, Typed, TypeOK
  <1>4. ASSUME NEW t \in Threads, IssueToken(t) PROVE Grants!Next
    BY <1>4, IssueGivesOut DEF Grants!Next
  <1>4a. ASSUME NEW t \in Threads, TokenFails(t) PROVE Grants!Next
    <2>1. /\ UNCHANGED <<saved, req, tokens, onceAllowed, held, delivered>>
          /\ pc' = [pc EXCEPT ![t] = "idle"] /\ DOMAIN terms = Threads
          /\ terms' = [terms EXCEPT ![t] = None]
      BY <1>4a DEF TokenFails, Reply, Goto, Typed, TypeOK
    <2>2. \A u \in Threads : pc'[u] = "token" => pc[u] = "token" /\ Token(u)' = Token(u)
      BY <1>1, <2>1 DEF Token
    <2>3. Due' \in SUBSET Due
      BY <2>2 DEF Due
    <2> QED
      BY <2>1, <2>3 DEF Endorsed, Provided, Grants!Lose, Grants!Next
  <1>5. CASE ProvideData
    <2>1. \E g \in saved : Provided' = {g}
      BY <1>5 DEF ProvideData, Provided
    <2>2. Due' = Due
      BY <1>5, DueStays DEF ProvideData
    <2> QED
      BY <1>5, <2>1, <2>2 DEF ProvideData, Endorsed, Grants!Provide, Grants!Next
  <1>6. CASE Crash
    <2>1. Due' = {}
      BY <1>6 DEF Crash, Due
    <2> QED
      BY <1>6, <2>1 DEF Crash, Endorsed, Provided, Grants!Lose, Grants!Next
  <1>7. CASE Commit \/ CatchUp \/ EditPolicy \/ UNCHANGED vars
    <2>1. Grows /\ UNCHANGED <<saved, tokens, delivered, pc, req, terms>>
      BY <1>7 DEF Commit, CatchUp, EditPolicy, vars, Grows, Typed, TypeOK
    <2>2. Due' = Due
      BY <2>1, DueStays
    <2>3. Endorsed \subseteq Endorsed'
      BY <2>1 DEF Grows, Endorsed
    <2> QED
      BY <2>1, <2>2, <2>3 DEF Grows, Provided, Grants!Allow, Grants!Next
  <1> QED
    BY <1>2, <1>3, <1>4, <1>4a, <1>5, <1>6, <1>7 DEF Next, ApplyStep

\* Any number of threads, whose calls to registries and tables interleave with
\* each other, with edits, ledger changes and restarts, grant what a server would
\* that decides one application at a time in one step: every behaviour of the
\* data provision server is one of UsageGrants (provider/main.py 151-205,
\* 251-420).
THEOREM ApplicationsAreSerial == Spec => ImplementsUsageGrants
  <1>1. Init => Grants!Init
    BY DEF Init, Grants!Init, Due, Provided
  <1>2. Init => Decided
    BY DEF Init, Decided, Signed, InsertIsDecided, OneSigner
  <1> QED
    BY <1>1, <1>2, InitTyped, NextTyped, InitIssued, NextIssued, InitGrounds, NextGrounds,
       NextDecided, NextGrants, PTL DEF Spec, ImplementsUsageGrants, Grants!Spec

\* Tokens come from grants only, and a grant is of an app and data that have none.
LEMMA GrantsLeaveLost ==
    ASSUME [Grants!Next]_(Grants!vars)
    PROVE  Lost \subseteq Lost'
  <1>1. ASSUME UNCHANGED saved, tokens' \cup Due' \subseteq tokens \cup Due
        PROVE  Lost \subseteq Lost'
    BY <1>1 DEF Lost
  <1>2. ASSUME NEW a \in Requests, Grants!Grant(a) PROVE Lost \subseteq Lost'
    <2>1. PICK tk :
            /\ tk.app = a.app /\ tk.data = a.data
            /\ saved \subseteq saved' /\ tokens' = tokens /\ Due' = Due \cup {tk}
      BY <1>2 DEF Grants!Grant, Grants!Token
    <2>2. \A row \in Lost : tk.app # row.app \/ tk.data # row.data
      BY <1>2, <2>1 DEF Grants!Grant, Lost
    <2> QED
      BY <2>1, <2>2 DEF Lost
  <1>3. CASE Grants!Allow \/ Grants!Provide \/ UNCHANGED Grants!vars
    BY <1>1, <1>3 DEF Grants!Allow, Grants!Provide, Grants!vars
  <1>4. CASE Grants!GiveOut
    BY <1>1, <1>4 DEF Grants!GiveOut
  <1>5. CASE Grants!Lose
    BY <1>1, <1>5 DEF Grants!Lose
  <1> QED
    BY <1>2, <1>3, <1>4, <1>5 DEF Grants!Next

\* A row that a restart or an error after the commit has left without its token
\* stays so: however often it is applied for again, by whomever and by how many
\* at once, there is no token for its app and data and no other row in its place
\* (provider/main.py 393-431).
THEOREM LostStaysLost == Spec => LostGrantsStayLost
  <1>1. Init => Decided
    BY DEF Init, Decided, Signed, InsertIsDecided, OneSigner
  <1>2. Typed /\ Issued /\ Grounds /\ Decided /\ [Next]_vars => [Lost \subseteq Lost']_vars
    BY NextGrants, GrantsLeaveLost
  <1> QED
    BY <1>1, <1>2, InitTyped, NextTyped, InitIssued, NextIssued, InitGrounds, NextGrounds,
       NextDecided, PTL DEF Spec, LostGrantsStayLost

=============================================================================
