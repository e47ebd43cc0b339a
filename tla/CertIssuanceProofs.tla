------------------------- MODULE CertIssuanceProofs -------------------------
(***************************************************************************)
(* Proofs about CertIssuance, for any number of enclaves, clients, keys,   *)
(* threads, crashes and roots of the authority.                            *)
(***************************************************************************)
EXTENDS CertIssuance, TLAPS

-----------------------------------------------------------------------------
(* Requests, certificates and files.                                       *)

LEMMA SubjectTyped == ASSUME NEW r \in Askers PROVE Subject(r) \in Subjects
  <1>1. CASE r = Server
    <2>1. Subject(r) \in [{"commonName"} -> Values] /\ {"commonName"} \in SUBSET Copied
      BY <1>1 DEF Subject, Values, Copied
    <2> QED
      BY <2>1 DEF Subjects
  <1>2. CASE r # Server
    <2> DEFINE F == {f \in DOMAIN Client[r] \cap Copied : Client[r][f] # Unset}
    <2>1. r \in Enclaves /\ F \in SUBSET Copied
      BY <1>2 DEF Askers
    <2>2. ASSUME NEW f \in F PROVE Client[r][f] \in Values
      <3>1. Client[r][f] \in Range(Client[r]) /\ Client[r][f] # Unset
        BY DEF Range
      <3> QED
        BY <2>1, <3>1 DEF Values
    <2>3. Subject(r) = [f \in F |-> Client[r][f]]
      BY <1>2 DEF Subject, Restrict
    <2>4. Subject(r) \in [F -> Values]
      BY <2>2, <2>3
    <2> QED
      BY <2>1, <2>4 DEF Subjects
  <1> QED
    BY <1>1, <1>2

\* The policy takes attributes away and adds none.
LEMMA PolicyTyped == ASSUME NEW s \in Subjects PROVE InPolicy(s) \in Subjects
  <1>1. PICK F \in SUBSET Copied : s \in [F -> Values]
    BY DEF Subjects
  <1>2. InPolicy(s) = [f \in F \cap Matched |-> s[f]]
    BY <1>1 DEF InPolicy, Restrict
  <1>3. InPolicy(s) \in [F \cap Matched -> Values] /\ F \cap Matched \in SUBSET Copied
    BY <1>1, <1>2
  <1> QED
    BY <1>3 DEF Subjects

NameOf(r) == IF r = Server THEN Host ELSE None

ReportsOf(r, k) == IF r = Server THEN {None} ELSE Attested(k)

\* A request is of a key nobody else bears, for the asker's own subject, and
\* attested for that key.
LEMMA RequestIs ==
    ASSUME NEW r \in Askers, FreshKeys # {}, NEW q \in Requests(r)
    PROVE  /\ q \in SigningRequests
           /\ q.subject = Subject(r) /\ q.report \in ReportsOf(r, q.key)
  <1>1. PICK k \in FreshKeys : k = CHOOSE f \in FreshKeys : TRUE
    OBVIOUS
  <1>2. k \in Keys
    BY DEF FreshKeys
  <1>3. /\ q \in [key : {k}, subject : {Subject(r)}, report : ReportsOf(r, k)]
    BY <1>1 DEF Requests, ReportsOf
  <1>4. ReportsOf(r, k) \subseteq Reports
    BY <1>2 DEF ReportsOf, Attested, Reports
  <1> QED
    BY <1>2, <1>3, <1>4, SubjectTyped DEF SigningRequests

\* What the authority's files and an asker's certificate file can be.
LEMMA FileKinds ==
    /\ Absent \in Files /\ Torn \in Files /\ Text \in Files
    /\ Absent.file = "absent" /\ Torn.file = "torn" /\ Text.file = "text"
    /\ \A c \in Files : /\ c.file = "cert" => c \in Certificates
                        /\ c.file = "absent" => c = Absent
  BY DEF Files, Certificates, Absent, Torn, Text

LEMMA IdleTyped == Idle \in ThreadStates /\ Idle.pc = "idle" /\ Idle.out = Absent
  BY FileKinds DEF Idle, ThreadStates

-----------------------------------------------------------------------------
(* Type correctness.                                                       *)

\* A thread that is active has a request, and who waits for an answer has a
\* thread of its own, that is not done with anything else.
Serving ==
    /\ \A t \in Threads :
         thread[t].pc \in {"san", "csr", "sign", "read"} => thread[t].csr # None
    /\ \A r \in Askers :
         /\ asked[r] # None <=> pc[r] \in {"wait", "save"}
         /\ asked[r] # None => thread[asked[r]].pc # "idle"
         /\ pc[r] = "save" => thread[asked[r]].pc = "done"
    /\ \A r, q \in Askers : asked[r] # None /\ asked[r] = asked[q] => r = q

Typed == TypeOK /\ Serving

LEMMA InitTyped == Init => Typed
  <1> SUFFICES ASSUME Init PROVE Typed
    OBVIOUS
  <1>1. 1 \in 1..MaxRoots /\ 0 \in 0..MaxCrashes
    BY BoundAssumption
  <1>2. thread \in [Threads -> ThreadStates] /\ \A t \in Threads : thread[t].pc = "idle"
    BY IdleTyped DEF Init
  <1> QED
    BY <1>1, <1>2, FileKinds DEF Init, Typed, TypeOK, Serving

\* The thread that serves an asker is a thread.
LEMMA AskedTyped ==
    ASSUME Typed, NEW r \in Askers, pc[r] \in {"wait", "save"}
    PROVE  /\ asked[r] \in Threads /\ thread[asked[r]] \in ThreadStates
           /\ \A q \in Askers : asked[q] = asked[r] => q = r
           /\ asked[r] # None
  BY DEF Typed, TypeOK, Serving

\* A step of thread t: it goes on, or is done or idle when it has read.
LEMMA ThreadStepIs ==
    ASSUME Typed, NEW t \in Threads, ThreadStep(t)
    PROVE  \E h \in ThreadStates :
             /\ thread' = [thread EXCEPT ![t] = h] /\ t \in Active
             /\ \/ h.pc \in {"csr", "sign", "read"} /\ h.csr = thread[t].csr
                   /\ h.san = thread[t].san /\ h.out = thread[t].out
                \/ h.pc = "done" /\ h.out = IF crt.file = "cert" THEN crt ELSE Text
                \/ h = Idle /\ \A r \in Askers : asked[r] # t
             /\ san' \in {Host, None} /\ csr' \in SigningRequests \cup {None} /\ crt' \in Files
             /\ UNCHANGED <<asker, root, crashes, overlapped, disturbed>>
  <1>0. thread[t] \in ThreadStates
    BY DEF Typed, TypeOK
  <1>1. CASE WriteSan(t)
    <2>1. [thread[t] EXCEPT !.pc = "csr"] \in ThreadStates
      BY <1>0 DEF ThreadStates
    <2>2. thread' = [thread EXCEPT ![t] = [thread[t] EXCEPT !.pc = "csr"]]
      BY <1>1 DEF WriteSan
    <2> QED
      BY <1>0, <1>1, <2>1, <2>2 DEF WriteSan, Active, ThreadStates, Typed, TypeOK
  <1>2. CASE WriteCsr(t)
    <2>1. [thread[t] EXCEPT !.pc = "sign"] \in ThreadStates
      BY <1>0 DEF ThreadStates
    <2>2. thread' = [thread EXCEPT ![t] = [thread[t] EXCEPT !.pc = "sign"]]
      BY <1>2 DEF WriteCsr
    <2> QED
      BY <1>0, <1>2, <2>1, <2>2 DEF WriteCsr, Active, ThreadStates, Typed, TypeOK
  <1>3. CASE Sign(t) \/ SignFails(t)
    <2>1. [thread[t] EXCEPT !.pc = "read"] \in ThreadStates
      BY <1>0 DEF ThreadStates
    <2>2. thread' = [thread EXCEPT ![t] = [thread[t] EXCEPT !.pc = "read"]]
      BY <1>3 DEF Sign, SignFails
    <2>3. crt' \in Files
      <3>1. csr # None => Signed(t) \in Certificates
        BY PolicyTyped DEF Signed, Certificates, SigningRequests, Typed, TypeOK
      <3> QED
        BY <1>3, <3>1, FileKinds DEF Sign, SignFails, Files, Typed, TypeOK
    <2> QED
      BY <1>0, <1>3, <2>1, <2>2, <2>3 DEF Sign, SignFails, Active, ThreadStates, Typed, TypeOK
  <1>4. CASE Read(t)
    <2>1. PICK h : h = IF \A r \in Askers : asked[r] # t THEN Idle
             ELSE [Idle EXCEPT !.pc = "done", !.out = IF crt.file = "cert" THEN crt ELSE Text]
      OBVIOUS
    <2>2. /\ h \in ThreadStates
          /\ \/ h.pc = "done" /\ h.out = IF crt.file = "cert" THEN crt ELSE Text
             \/ h = Idle /\ \A r \in Askers : asked[r] # t
      BY <2>1, FileKinds DEF Idle, ThreadStates, Typed, TypeOK
    <2>3. thread' = [thread EXCEPT ![t] = h]
      BY <1>4, <2>1 DEF Read
    <2>4. /\ san' \in {Host, None} /\ csr' \in SigningRequests \cup {None} /\ crt' \in Files
          /\ UNCHANGED <<asker, root, crashes, overlapped, disturbed>> /\ t \in Active
      BY <1>4, FileKinds DEF Read, Active, Typed, TypeOK
    <2> QED
      BY <2>2, <2>3, <2>4
  <1> QED
    BY <1>1, <1>2, <1>3, <1>4 DEF ThreadStep

LEMMA AskTyped ==
    ASSUME Typed, NEW r \in Askers, NEW t \in Threads, Ask(r, t)
    PROVE  Typed'
  <1>1. PICK q \in Requests(r) :
          /\ key' = [key EXCEPT ![r] = q.key]
          /\ thread' = [thread EXCEPT ![t] =
               [Idle EXCEPT !.csr = q, !.san = IF r = Server THEN Host ELSE None,
                            !.pc = IF r = Server THEN "san" ELSE "csr"]]
    BY DEF Ask
  <1>2. q \in SigningRequests /\ q.key \in Keys /\ q # None
    BY <1>1, RequestIs, NoneAssumption DEF Ask, SigningRequests
  <1>3. PICK h \in ThreadStates :
          thread' = [thread EXCEPT ![t] = h] /\ h.pc \in {"san", "csr"} /\ h.csr # None
    <2> DEFINE h == [Idle EXCEPT !.csr = q, !.san = IF r = Server THEN Host ELSE None,
                                 !.pc = IF r = Server THEN "san" ELSE "csr"]
    <2>1. h \in ThreadStates /\ h.pc \in {"san", "csr"} /\ h.csr = q
      BY <1>2, FileKinds DEF Idle, ThreadStates
    <2> QED
      BY <1>1, <1>2, <2>1
  <1>4. /\ pc[r] = "ask" /\ thread[t] = Idle
        /\ asked' = [asked EXCEPT ![r] = t] /\ pc' = [pc EXCEPT ![r] = "wait"]
        /\ overlapped' = (overlapped \ {t}) \cup (IF Active = {} THEN {} ELSE Active \cup {t})
        /\ UNCHANGED <<cert, trust, san, csr, crt, root, crashes, disturbed>>
    BY DEF Ask
  <1>5. t # None /\ thread[t].pc = "idle"
    BY <1>4, NoneAssumption, IdleTyped
  <1>6. TypeOK'
    <2>1. key' \in [Askers -> Keys \cup {None}]
      BY <1>1, <1>2 DEF Typed, TypeOK
    <2>2. thread' \in [Threads -> ThreadStates] /\ overlapped' \subseteq Threads
      BY <1>3, <1>4 DEF Typed, TypeOK, Active
    <2> QED
      BY <1>4, <2>1, <2>2 DEF Typed, TypeOK
  <1>7. \A q1 \in Askers : q1 # r => asked'[q1] = asked[q1] /\ asked[q1] # t /\ pc'[q1] = pc[q1]
    BY <1>4, <1>5 DEF Typed, TypeOK, Serving
  <1>8. /\ asked'[r] = t /\ pc'[r] = "wait" /\ thread'[t] = h
        /\ \A u \in Threads : u # t => thread'[u] = thread[u]
    BY <1>3, <1>4 DEF Typed, TypeOK
  <1>9. \A q1 \in Askers : asked[q1] \in Threads \cup {None}
    BY DEF Typed, TypeOK
  <1>10. Serving'
    BY <1>3, <1>5, <1>7, <1>8, <1>9 DEF Typed, Serving
  <1> QED
    BY <1>6, <1>10 DEF Typed

LEMMA NextTyped == Typed /\ [Next]_vars => Typed'
  <1> SUFFICES ASSUME Typed, [Next]_vars PROVE Typed'
    OBVIOUS
  <1>1. ASSUME NEW r \in Askers, Boot(r) PROVE Typed'
    <2>1. PICK next \in {"ask", "run"} : BootTo(r, next)
      BY <1>1 DEF Boot
    <2>2. /\ pc' = [pc EXCEPT ![r] = next] /\ pc[r] = "boot"
          /\ UNCHANGED <<asked, authority, root, crashes, overlapped, disturbed>>
      BY <2>1 DEF BootTo
    <2>3. /\ key' \in [Askers -> Keys \cup {None}] /\ cert' \in [Askers -> Files]
          /\ trust' \in [Askers -> (1..MaxRoots) \cup {None}]
      BY <2>1, FileKinds DEF BootTo, Typed, TypeOK
    <2>4. TypeOK'
      BY <2>2, <2>3 DEF authority, Typed, TypeOK
    <2> QED
      BY <2>2, <2>4 DEF authority, Typed, TypeOK, Serving
  <1>2. ASSUME NEW r \in Askers, NEW t \in Threads, Ask(r, t) PROVE Typed'
    BY <1>2, AskTyped
  <1>3. ASSUME NEW r \in Askers, Open(r) PROVE Typed'
    BY <1>3, FileKinds DEF Open, authority, Typed, TypeOK, Serving
  <1>4. ASSUME NEW r \in Askers, Save(r) PROVE Typed'
    <2>1. PICK t \in Threads : t = asked[r] /\ (\A q \in Askers : asked[q] = t => q = r)
      BY <1>4, AskedTyped DEF Save
    <2>2. /\ pc[r] = "save" /\ cert' = [cert EXCEPT ![r] = thread[t].out]
          /\ overlapped' = overlapped \ {t}
          /\ disturbed' = IF t \in overlapped THEN disturbed \cup {r} ELSE disturbed \ {r}
          /\ thread' = [thread EXCEPT ![t] = Idle] /\ asked' = [asked EXCEPT ![r] = None]
          /\ pc' = [pc EXCEPT ![r] = IF r = Server THEN "load" ELSE "run"]
          /\ UNCHANGED <<key, trust, san, csr, crt, root, crashes>>
      BY <1>4, <2>1 DEF Save
    <2>3. thread[t].out \in Files
      BY DEF Typed, TypeOK, ThreadStates
    <2>4. TypeOK'
      BY <2>2, <2>3, IdleTyped DEF Typed, TypeOK
    <2>5. \A u \in Threads : u # t => thread'[u] = thread[u]
      BY <2>2 DEF Typed, TypeOK
    <2>6. \A q \in Askers : q # r => pc'[q] = pc[q] /\ asked'[q] = asked[q] /\ asked[q] # t
      BY <2>1, <2>2 DEF Typed, TypeOK
    <2>7. asked'[r] = None /\ pc'[r] \in {"load", "run"} /\ thread'[t].pc = "idle"
      BY <2>2, IdleTyped DEF Typed, TypeOK
    <2> QED
      BY <2>4, <2>5, <2>6, <2>7 DEF Typed, TypeOK, Serving
  <1>5. CASE Load
    BY <1>5 DEF Load, authority, Askers, Typed, TypeOK, Serving
  <1>6. ASSUME NEW r \in Askers, Crash(r) PROVE Typed'
    <2>1. /\ crashes < MaxCrashes /\ crashes' = crashes + 1
          /\ pc' = [pc EXCEPT ![r] = "boot"] /\ asked' = [asked EXCEPT ![r] = None]
          /\ disturbed' \subseteq disturbed \cup {r}
          /\ UNCHANGED <<key, cert, trust, san, csr, crt, root, overlapped>>
      BY <1>6 DEF Crash
    <2>2. \/ thread' = thread
          \/ /\ pc[r] \in {"wait", "save"} /\ thread[asked[r]].pc = "done"
             /\ thread' = [thread EXCEPT ![asked[r]] = Idle]
      BY <1>6 DEF Crash
    <2>3. crashes' \in 0..MaxCrashes
      BY <2>1, BoundAssumption DEF Typed, TypeOK
    <2>4. TypeOK'
      BY <2>1, <2>2, <2>3, IdleTyped DEF Typed, TypeOK
    <2>5. \A q \in Askers : q # r => pc'[q] = pc[q] /\ asked'[q] = asked[q]
      BY <2>1 DEF Typed, TypeOK
    <2>6. asked'[r] = None /\ pc'[r] = "boot"
      BY <2>1 DEF Typed, TypeOK
    <2>7. CASE thread' = thread
      BY <2>4, <2>5, <2>6, <2>7 DEF Typed, TypeOK, Serving
    <2>8. CASE /\ pc[r] \in {"wait", "save"} /\ thread[asked[r]].pc = "done"
               /\ thread' = [thread EXCEPT ![asked[r]] = Idle]
      <3>1. PICK t \in Threads : t = asked[r] /\ (\A q \in Askers : asked[q] = t => q = r)
        BY <2>8, AskedTyped
      <3>2. /\ thread'[t].pc = "idle"
            /\ \A u \in Threads : u # t => thread'[u] = thread[u]
        BY <2>8, <3>1, IdleTyped DEF Typed, TypeOK
      <3> QED
        BY <2>4, <2>5, <2>6, <3>1, <3>2 DEF Typed, TypeOK, Serving
    <2> QED
      BY <2>2, <2>7, <2>8
  <1>7. ASSUME NEW t \in Threads, ThreadStep(t) PROVE Typed'
    <2>1. PICK h \in ThreadStates :
            /\ thread' = [thread EXCEPT ![t] = h] /\ t \in Active
            /\ \/ h.pc \in {"csr", "sign", "read"} /\ h.csr = thread[t].csr
               \/ h.pc = "done"
               \/ h = Idle /\ \A r \in Askers : asked[r] # t
            /\ san' \in {Host, None} /\ csr' \in SigningRequests \cup {None} /\ crt' \in Files
            /\ UNCHANGED <<asker, root, crashes, overlapped, disturbed>>
      BY <1>7, ThreadStepIs
    <2>2. UNCHANGED <<pc, key, cert, trust, asked, root, crashes, overlapped, disturbed>>
      BY <2>1 DEF asker
    <2>3. thread[t].pc \in {"san", "csr", "sign", "read"} /\ thread[t].csr # None
      BY <2>1 DEF Active, Typed, TypeOK, ThreadStates, Serving
    <2>4. TypeOK'
      BY <2>1, <2>2 DEF Typed, TypeOK
    <2>5. thread'[t] = h /\ \A u \in Threads : u # t => thread'[u] = thread[u]
      BY <2>1 DEF Typed, TypeOK
    <2>6. \A r \in Askers : asked[r] = t => h.pc # "idle" /\ pc[r] # "save"
      BY <2>1, <2>3 DEF Typed, Serving
    <2> QED
      BY <2>1, <2>2, <2>3, <2>4, <2>5, <2>6, IdleTyped DEF Typed, TypeOK, Serving
  <1>8. CASE RestartAuthority
    <2> DEFINE failed == {r \in Askers : pc[r] = "wait" /\ thread[asked[r]].pc # "done"}
    <2>1. /\ root < MaxRoots /\ root' = root + 1
          /\ pc' = [r \in Askers |-> IF r \notin failed THEN pc[r]
                                    ELSE IF r = Server THEN "boot" ELSE "run"]
          /\ asked' = [r \in Askers |-> IF r \in failed THEN None ELSE asked[r]]
          /\ disturbed' = disturbed \cup failed
          /\ thread' = [t \in Threads |-> IF t \in Active THEN Idle ELSE thread[t]]
          /\ UNCHANGED <<key, cert, trust, san, csr, crt, crashes, overlapped>>
      BY <1>8 DEF RestartAuthority
    <2>2. root' \in 1..MaxRoots
      BY <2>1, BoundAssumption DEF Typed, TypeOK
    <2>3. TypeOK'
      BY <2>1, <2>2, IdleTyped DEF Typed, TypeOK
    <2>4. \A t \in Threads : thread'[t].pc \in {"idle", "done"} /\ (thread[t].pc = "done" => thread'[t].pc = "done")
      BY <2>1, IdleTyped DEF Active
    <2>5. ASSUME NEW r \in Askers, asked'[r] # None
          PROVE  /\ asked'[r] = asked[r] /\ pc'[r] = pc[r]
                 /\ asked[r] \in Threads /\ thread[asked[r]].pc = "done"
      BY <2>1, <2>5 DEF Typed, TypeOK, Serving
    <2>6. ASSUME NEW r \in Askers, asked'[r] = None PROVE pc'[r] \notin {"wait", "save"}
      <3>1. CASE r \in failed
        BY <2>1, <3>1
      <3>2. CASE r \notin failed
        BY <2>1, <2>6, <3>2 DEF Typed, Serving
      <3> QED
        BY <3>1, <3>2
    <2> QED
      BY <2>3, <2>4, <2>5, <2>6 DEF Typed, Serving
  <1>9. CASE UNCHANGED vars
    BY <1>9 DEF vars, asker, authority, Typed, TypeOK, Serving
  <1>10. ASSUME NEW e \in Enclaves, AskFails(e) PROVE Typed'
    BY <1>10 DEF AskFails, authority, Askers, Typed, TypeOK, Serving
  <1> QED
    BY <1>1, <1>2, <1>3, <1>4, <1>5, <1>6, <1>7, <1>8, <1>9, <1>10 DEF Next, AskerStep

\* Every variable keeps its type: whatever threads leave in the shared files, an
\* answer is a certificate for copied attributes of a known subject, a torn file
\* or an error page (run.sh 18-23, ca/main.py 20-43).
THEOREM TypeCorrect == Spec => []TypeOK
  <1>1. Typed => TypeOK
    BY DEF Typed
  <1> QED
    BY InitTyped, NextTyped, <1>1, PTL DEF Spec

-----------------------------------------------------------------------------
(***************************************************************************)
(* Who is served alone.                                                    *)
(***************************************************************************)

\* The request of asker r, and a certificate made of it and of nothing else.
RequestOf(q, r) ==
    q.key = key[r] /\ q.subject = Subject(r) /\ q.report \in ReportsOf(r, key[r])

CertificateOf(c, r) ==
    /\ c.file = "cert" /\ c.key = key[r] /\ c.subject = InPolicy(Subject(r))
    /\ c.report \in ReportsOf(r, key[r]) /\ c.san = NameOf(r)

\* What thread t has done for asker r.
Serves(t, r) ==
    /\ t \in Active => RequestOf(thread[t].csr, r) /\ thread[t].san = NameOf(r)
    /\ t \notin overlapped =>
         /\ t \in Active => Active = {t}
         /\ thread[t].pc \in {"csr", "sign"} /\ r = Server => san = Host
         /\ thread[t].pc = "sign" => csr = thread[t].csr
         /\ thread[t].pc = "read" => CertificateOf(crt, r)
         /\ thread[t].pc = "done" => CertificateOf(thread[t].out, r)

\* What asker r has of certificates.
Holds(r) ==
    /\ pc[r] \in {"ask", "wait"} => cert[r] = Absent
    /\ r \notin disturbed =>
         /\ pc[r] \in {"boot", "load"} => cert[r].file = "absent" \/ CertificateOf(cert[r], r)
         /\ pc[r] = "run" => CertificateOf(cert[r], r)

Certified ==
    \A r \in Askers : Holds(r) /\ (asked[r] # None => Serves(asked[r], r))

LEMMA InitCertified == Init => Certified
  BY FileKinds DEF Init, Certified, Holds

\* Active threads are between their start and their answer.
LEMMA ActiveIs ==
    ASSUME Typed, NEW t \in Threads
    PROVE  t \in Active <=> thread[t].pc \in {"san", "csr", "sign", "read"}
  BY DEF Typed, TypeOK, ThreadStates, Active

\* A step that leaves the authority alone, or only starts other threads beside
\* t and records that they overlap, does not change what t has done for r.
LEMMA ServesStill ==
    ASSUME NEW t \in Threads, NEW r \in Askers, Serves(t, r),
           UNCHANGED <<san, csr, crt>>, key'[r] = key[r], thread'[t] = thread[t],
           t \notin overlapped' => t \notin overlapped,
           t \notin overlapped' /\ t \in Active /\ Active = {t} => Active' = {t},
           t \in Active' => t \in Active
    PROVE  Serves(t, r)'
  <1>1. \A q : RequestOf(q, r) => RequestOf(q, r)'
    BY DEF RequestOf, Subject, ReportsOf, Attested
  <1>2. \A c : CertificateOf(c, r) => CertificateOf(c, r)'
    BY <1>1 DEF CertificateOf, NameOf
  <1> QED
    BY <1>1, <1>2 DEF Serves, NameOf

LEMMA HoldsStill ==
    ASSUME NEW r \in Askers, Holds(r), pc'[r] = pc[r], key'[r] = key[r], cert'[r] = cert[r],
           r \notin disturbed' => r \notin disturbed
    PROVE  Holds(r)'
  <1>1. \A c : CertificateOf(c, r) => CertificateOf(c, r)'
    BY DEF CertificateOf, InPolicy, RequestOf, Subject, ReportsOf, Attested, NameOf
  <1> QED
    BY <1>1 DEF Holds

\* Askers that neither do the step nor are served by a thread that does.
LEMMA BootCertified ==
    ASSUME Typed, Certified, NEW r \in Askers, Boot(r)
    PROVE  Certified'
  <1>1. PICK next \in {"ask", "run"} :
          BootTo(r, next) /\ (next = "run" => cert[r].file # "absent")
    BY DEF Boot
  <1>2. /\ pc[r] = "boot" /\ pc' = [pc EXCEPT ![r] = next]
        /\ UNCHANGED <<asked, thread, san, csr, crt, overlapped, disturbed>>
        /\ \/ /\ next = "ask"
              /\ key' = [key EXCEPT ![r] = None] /\ cert' = [cert EXCEPT ![r] = Absent]
           \/ next = "run" /\ UNCHANGED <<key, cert>>
    BY <1>1 DEF BootTo, authority
  <1>3. asked[r] = None
    BY <1>2 DEF Typed, Serving
  <1>4. Active' = Active
    BY <1>2 DEF Active
  <1>5. ASSUME NEW q \in Askers, q # r
        PROVE  Holds(q)' /\ (asked'[q] # None => Serves(asked[q], q)')
    <2>1. /\ pc'[q] = pc[q] /\ key'[q] = key[q] /\ cert'[q] = cert[q]
          /\ Holds(q) /\ (asked[q] # None => Serves(asked[q], q))
      BY <1>2, <1>5 DEF Typed, TypeOK, Certified
    <2>2. Holds(q)'
      BY <1>2, <2>1, HoldsStill
    <2>3. ASSUME asked[q] # None PROVE Serves(asked[q], q)'
      <3>1. PICK t \in Threads : t = asked[q]
        BY <2>3 DEF Typed, TypeOK
      <3>2. Serves(t, q)'
        BY <1>2, <1>4, <2>1, <2>3, <3>1, ServesStill
      <3> QED
        BY <1>2, <3>1, <3>2 DEF Serves
    <2> QED
      BY <1>2, <2>2, <2>3
  <1>6. Holds(r)' /\ asked'[r] = None
    <2>1. pc'[r] = next
      BY <1>2 DEF Typed, TypeOK
    <2>2. CASE next = "ask"
      <3>1. cert'[r] = Absent
        BY <1>2, <2>2 DEF Typed, TypeOK
      <3> QED
        BY <1>2, <1>3, <2>1, <2>2, <3>1 DEF Holds
    <2>3. CASE next = "run" /\ UNCHANGED <<key, cert>>
      <3>1. r \notin disturbed => CertificateOf(cert[r], r)
        BY <1>1, <1>2, <2>3 DEF Certified, Holds
      <3>2. CertificateOf(cert[r], r) => CertificateOf(cert[r], r)'
        BY <2>3 DEF CertificateOf, InPolicy, RequestOf, Subject, ReportsOf, Attested, NameOf
      <3> QED
        BY <1>2, <1>3, <2>1, <2>3, <3>1, <3>2 DEF Holds
    <2> QED
      BY <1>2, <2>2, <2>3
  <1> QED
    BY <1>2, <1>5, <1>6 DEF Certified

LEMMA AskCertified ==
    ASSUME Typed, Certified, NEW r \in Askers, NEW t \in Threads, Ask(r, t)
    PROVE  Certified'
  <1>1. PICK q \in Requests(r) :
          /\ key' = [key EXCEPT ![r] = q.key]
          /\ thread' = [thread EXCEPT ![t] =
               [Idle EXCEPT !.csr = q, !.san = IF r = Server THEN Host ELSE None,
                            !.pc = IF r = Server THEN "san" ELSE "csr"]]
    BY DEF Ask
  <1>2. /\ pc[r] = "ask" /\ thread[t] = Idle /\ FreshKeys # {}
        /\ asked' = [asked EXCEPT ![r] = t] /\ pc' = [pc EXCEPT ![r] = "wait"]
        /\ overlapped' = (overlapped \ {t}) \cup (IF Active = {} THEN {} ELSE Active \cup {t})
        /\ UNCHANGED <<cert, trust, san, csr, crt, root, crashes, disturbed>>
    BY DEF Ask
  <1>3. /\ thread'[t].csr = q /\ thread'[t].san = NameOf(r)
        /\ thread'[t].pc = IF r = Server THEN "san" ELSE "csr"
        /\ \A u \in Threads : u # t => thread'[u] = thread[u]
    BY <1>1 DEF Idle, NameOf, Typed, TypeOK
  <1>4. /\ key'[r] = q.key /\ asked'[r] = t /\ pc'[r] = "wait"
        /\ \A o \in Askers : o # r => /\ pc'[o] = pc[o] /\ key'[o] = key[o]
                                     /\ asked'[o] = asked[o]
    BY <1>1, <1>2 DEF Typed, TypeOK
  <1>5. RequestOf(q, r)'
    <2>1. q.subject = Subject(r) /\ q.report \in ReportsOf(r, q.key)
      BY <1>1, <1>2, RequestIs
    <2> QED
      BY <1>4, <2>1 DEF RequestOf, Subject, ReportsOf, Attested
  <1>6. ASSUME NEW u \in Threads, u \notin overlapped', u \in Active' PROVE u = t /\ Active' = {t}
    <2>1. u = t \/ u \in Active
      BY <1>3, <1>6 DEF Active
    <2>2. Active = {}
      BY <1>2, <1>6, <2>1
    <2>3. \A o \in Threads : o # t => o \notin Active'
      BY <1>3, <2>2 DEF Active
    <2> QED
      BY <1>6, <2>1, <2>2, <2>3 DEF Active
  <1>7. Serves(t, r)'
    <2>1. t \in Active'
      BY <1>3 DEF Active
    <2>2. thread'[t].pc \notin {"sign", "read", "done"} /\ (r = Server => thread'[t].pc # "csr")
      BY <1>3
    <2>3. RequestOf(thread[t].csr, r)'
      BY <1>3, <1>5 DEF RequestOf
    <2> QED
      BY <1>3, <1>6, <2>1, <2>2, <2>3 DEF Serves, NameOf
  <1>8. Holds(r)'
    BY <1>2, <1>4 DEF Certified, Holds
  <1>9. ASSUME NEW o \in Askers, o # r
        PROVE  Holds(o)' /\ (asked'[o] # None => Serves(asked[o], o)')
    <2>1. Holds(o) /\ (asked[o] # None => Serves(asked[o], o))
      BY DEF Certified
    <2>2. Holds(o)'
      BY <1>2, <1>4, <1>9, <2>1, HoldsStill
    <2>3. ASSUME asked[o] # None PROVE Serves(asked[o], o)'
      <3>1. PICK u \in Threads : u = asked[o] /\ thread[u].pc # "idle"
        BY <2>3 DEF Typed, TypeOK, Serving
      <3>2. u # t /\ thread'[u] = thread[u]
        BY <1>2, <1>3, <3>1, IdleTyped
      <3>3. /\ u \notin overlapped' => u \notin overlapped /\ u \notin Active
            /\ u \in Active' => u \in Active
        BY <1>2, <3>2 DEF Active
      <3>4. Serves(u, o)'
        BY <1>2, <1>4, <1>9, <2>1, <2>3, <3>1, <3>2, <3>3, ServesStill
      <3> QED
        BY <1>4, <1>9, <3>1, <3>4 DEF Serves
    <2> QED
      BY <1>4, <1>9, <2>2, <2>3
  <1> QED
    BY <1>4, <1>7, <1>8, <1>9 DEF Certified

\* Another asker's state and its thread are as they were.
LEMMA OtherAsker ==
    ASSUME Typed, Certified, NEW q \in Askers,
           pc'[q] = pc[q], key'[q] = key[q], cert'[q] = cert[q], asked'[q] = asked[q],
           q \notin disturbed' => q \notin disturbed,
           UNCHANGED <<san, csr, crt>>, Active' \subseteq Active,
           asked[q] # None =>
             /\ thread'[asked[q]] = thread[asked[q]]
             /\ asked[q] \notin overlapped' => asked[q] \notin overlapped
    PROVE  Holds(q)' /\ (asked'[q] # None => Serves(asked[q], q)')
  <1>1. Holds(q) /\ (asked[q] # None => Serves(asked[q], q))
    BY DEF Certified
  <1>2. Holds(q)'
    BY <1>1, HoldsStill
  <1>3. ASSUME asked[q] # None PROVE Serves(asked[q], q)'
    <2>1. PICK t \in Threads : t = asked[q]
      BY <1>3 DEF Typed, TypeOK
    <2>2. t \in Active => t \in Active'
      BY <1>3, <2>1 DEF Active
    <2>3. Serves(t, q)'
      BY <1>1, <1>3, <2>1, <2>2, ServesStill
    <2> QED
      BY <2>1, <2>3 DEF Serves
  <1> QED
    BY <1>2, <1>3

LEMMA AskerCertified ==
    ASSUME Typed, Certified, NEW r \in Askers,
           Open(r) \/ Save(r) \/ Crash(r) \/ AskFails(r) \/ (r = Server /\ Load)
    PROVE  Certified'
  <1>1. UNCHANGED <<san, csr, crt, key>>
    BY DEF Open, Save, Crash, AskFails, Load, authority
  <1>a. \A c : CertificateOf(c, r) => CertificateOf(c, r)'
    BY <1>1 DEF CertificateOf, InPolicy, RequestOf, Subject, ReportsOf, Attested, NameOf
  <1>2. ASSUME NEW q \in Askers, q # r
        PROVE  /\ pc'[q] = pc[q] /\ cert'[q] = cert[q] /\ asked'[q] = asked[q]
               /\ q \notin disturbed' => q \notin disturbed
    BY <1>2 DEF Open, Save, Crash, AskFails, Load, authority, Typed, TypeOK
  <1>3. \/ thread' = thread
        \/ /\ asked[r] \in Threads /\ thread' = [thread EXCEPT ![asked[r]] = Idle]
           /\ \A q \in Askers : q # r => asked[q] # asked[r]
    <2>1. pc[r] \in {"wait", "save"} \/ thread' = thread
      BY DEF Open, Save, Crash, AskFails, Load, authority
    <2>2. CASE pc[r] \in {"wait", "save"}
      BY <2>2, AskedTyped DEF Open, Save, Crash, AskFails, Load, authority
    <2> QED
      BY <2>1, <2>2
  <1>4. Active' \subseteq Active
    BY <1>3, IdleTyped DEF Active, Typed, TypeOK
  <1>5. overlapped \subseteq overlapped' \cup {asked[r]} /\ (overlapped' = overlapped \/ pc[r] = "save")
    BY DEF Open, Save, Crash, AskFails, Load, authority
  <1>6. ASSUME NEW q \in Askers, q # r
        PROVE  Holds(q)' /\ (asked'[q] # None => Serves(asked[q], q)')
    <2>1. asked[q] # None =>
             /\ thread'[asked[q]] = thread[asked[q]]
             /\ asked[q] \notin overlapped' => asked[q] \notin overlapped
      BY <1>3, <1>5, <1>6, AskedTyped DEF Typed, TypeOK
    <2> QED
      BY <1>1, <1>2, <1>4, <1>6, <2>1, OtherAsker
  <1>7. Holds(r)' /\ (asked'[r] # None => Serves(asked[r], r)')
    <2>0. Holds(r) /\ (asked[r] # None => Serves(asked[r], r))
      BY DEF Certified
    <2>1. CASE Open(r)
      <3>1. /\ pc'[r] = "save" /\ asked' = asked
            /\ UNCHANGED <<thread, overlapped>>
        BY <2>1 DEF Open, authority, Typed, TypeOK
      <3>2. Holds(r)'
        BY <3>1 DEF Holds
      <3>3. ASSUME asked[r] # None PROVE Serves(asked[r], r)'
        <4>1. PICK t \in Threads : t = asked[r]
          BY <3>3 DEF Typed, TypeOK
        <4>2. Active' = Active
          BY <3>1 DEF Active
        <4>3. Serves(t, r)'
          BY <1>1, <2>0, <3>1, <3>3, <4>1, <4>2, ServesStill
        <4> QED
          BY <3>1, <4>1, <4>3 DEF Serves
      <3> QED
        BY <3>1, <3>2, <3>3
    <2>2. CASE Save(r)
      <3>1. PICK t \in Threads : t = asked[r] /\ asked[r] # None
        BY <2>2, AskedTyped DEF Save
      <3>2. /\ pc[r] = "save" /\ pc'[r] \in {"load", "run"} /\ asked'[r] = None
            /\ cert'[r] = thread[t].out
            /\ t \in overlapped => r \in disturbed'
        BY <2>2, <3>1 DEF Save, Typed, TypeOK
      <3>3. thread[t].pc = "done"
        BY <3>1, <3>2 DEF Typed, Serving
      <3>4. t \notin overlapped => CertificateOf(thread[t].out, r)
        BY <2>0, <3>1, <3>3 DEF Serves
      <3> QED
        BY <1>a, <3>2, <3>4 DEF Holds
    <2>3. CASE r = Server /\ Load
      <3>1. /\ pc[r] = "load" /\ asked' = asked /\ cert' = cert /\ disturbed' = disturbed
            /\ pc'[r] \in {"run", "boot"}
            /\ pc'[r] = "run" => cert[r].file = "cert"
        BY <2>3 DEF Load, authority, Typed, TypeOK
      <3>2. asked[r] = None
        BY <3>1 DEF Typed, Serving
      <3>3. r \notin disturbed => cert[r].file = "absent" \/ CertificateOf(cert[r], r)
        BY <2>0, <3>1 DEF Holds
      <3> QED
        BY <1>a, <3>1, <3>2, <3>3 DEF Holds
    <2>4. CASE Crash(r)
      <3>1. /\ pc[r] # "boot" /\ pc'[r] = "boot" /\ asked'[r] = None /\ cert' = cert
            /\ disturbed \subseteq disturbed' /\ (pc[r] = "save" => r \in disturbed')
        BY <2>4 DEF Crash, Typed, TypeOK
      <3>2. pc[r] \in {"ask", "wait", "save", "load", "run"}
        BY <3>1 DEF Typed, TypeOK
      <3>3. r \notin disturbed' => cert[r].file = "absent" \/ CertificateOf(cert[r], r)
        BY <2>0, <3>1, <3>2, FileKinds DEF Holds
      <3> QED
        BY <1>a, <3>1, <3>3 DEF Holds
    <2>5. CASE AskFails(r)
      <3>1. /\ pc[r] = "ask" /\ pc'[r] = "run" /\ asked' = asked /\ r \in disturbed'
        BY <2>5 DEF AskFails, Typed, TypeOK
      <3> QED
        BY <3>1 DEF Holds, Typed, Serving
    <2> QED
      BY <2>1, <2>2, <2>3, <2>4, <2>5
  <1> QED
    BY <1>2, <1>6, <1>7 DEF Certified

\* A thread goes on.  No other is active if it is served alone, and it finds in
\* the files what it wrote there.
LEMMA ThreadCertified ==
    ASSUME Typed, Certified, NEW t \in Threads, ThreadStep(t)
    PROVE  Certified'
  <1>1. PICK h \in ThreadStates :
           /\ thread' = [thread EXCEPT ![t] = h] /\ t \in Active
           /\ \/ h.pc \in {"csr", "sign", "read"} /\ h.csr = thread[t].csr
                 /\ h.san = thread[t].san /\ h.out = thread[t].out
              \/ h.pc = "done" /\ h.out = IF crt.file = "cert" THEN crt ELSE Text
              \/ h = Idle /\ \A r \in Askers : asked[r] # t
           /\ UNCHANGED <<asker, root, crashes, overlapped, disturbed>>
    BY ThreadStepIs
  <1>2. UNCHANGED <<pc, key, cert, trust, asked, root, crashes, overlapped, disturbed>>
    BY <1>1 DEF asker
  <1>3. /\ thread'[t] = h /\ \A u \in Threads : u # t => thread'[u] = thread[u]
        /\ Active' \subseteq Active
    BY <1>1, <1>2 DEF Active, Typed, TypeOK
  <1>4. \A c, r : CertificateOf(c, r) => CertificateOf(c, r)'
    BY <1>2 DEF CertificateOf, InPolicy, RequestOf, Subject, ReportsOf, Attested, NameOf
  <1>5. \A r \in Askers : Holds(r)'
    BY <1>2, HoldsStill DEF Certified
  <1>6. ASSUME NEW r \in Askers, NEW u \in Threads, u = asked[r], u # None, u # t
        PROVE  Serves(u, r)'
    <2>1. Serves(u, r)
      BY <1>6 DEF Certified
    <2>2. u \notin overlapped => u \notin Active
      BY <1>1, <1>6, <2>1 DEF Serves
    <2>3. u \in Active' <=> u \in Active
      BY <1>3, <1>6 DEF Active
    <2>4. u \notin Active => thread[u].pc \in {"idle", "done"}
      BY DEF Active
    <2>5. \A q : RequestOf(q, r) => RequestOf(q, r)'
      BY <1>2 DEF RequestOf, Subject, ReportsOf, Attested
    <2> QED
      BY <1>2, <1>3, <1>4, <1>6, <2>1, <2>2, <2>3, <2>4, <2>5 DEF Serves, NameOf
  <1>7. ASSUME NEW r \in Askers, t = asked[r], t # None
        PROVE  Serves(t, r)'
    <2>1. Serves(t, r)
      BY <1>7 DEF Certified
    <2>2. RequestOf(thread[t].csr, r) /\ thread[t].san = NameOf(r) /\ thread[t].csr # None
      BY <1>1, <2>1, ActiveIs DEF Serves, Typed, Serving
    <2>3. RequestOf(thread[t].csr, r)'  <=> RequestOf(h.csr, r)'
      BY <1>3 DEF RequestOf
    <2>4. t \in Active' => RequestOf(thread[t].csr, r)' /\ thread'[t].san = NameOf(r)
      <3>1. t \in Active' => h.csr = thread[t].csr /\ h.san = thread[t].san
        BY <1>1, <1>3, <1>7 DEF Active
      <3>2. \A q : RequestOf(q, r) => RequestOf(q, r)'
        BY <1>2 DEF RequestOf, Subject, ReportsOf, Attested
      <3> QED
        BY <1>3, <2>2, <2>3, <3>1, <3>2
    <2>5. ASSUME t \notin overlapped PROVE Active = {t} /\ (t \in Active' => Active' = {t})
      BY <1>1, <1>3, <2>1, <2>5 DEF Serves
    <2>6. ASSUME t \notin overlapped
          PROVE  /\ h.pc \in {"csr", "sign"} /\ r = Server => san' = Host
                 /\ h.pc = "sign" => csr' = h.csr
                 /\ h.pc = "read" => CertificateOf(crt, r)'
                 /\ h.pc = "done" => CertificateOf(h.out, r)
      <3>1. CASE WriteSan(t)
        <4>1. h.pc = "csr" /\ san' = thread[t].san
          BY <1>3, <3>1 DEF WriteSan, Typed, TypeOK, ThreadStates
        <4> QED
          BY <2>2, <4>1 DEF NameOf
      <3>2. CASE WriteCsr(t)
        <4>1. /\ thread[t].pc = "csr" /\ h.pc = "sign" /\ h.csr = thread[t].csr
              /\ csr' = thread[t].csr /\ san' = san
          BY <1>3, <3>2 DEF WriteCsr, Typed, TypeOK, ThreadStates
        <4> QED
          BY <2>1, <2>6, <4>1 DEF Serves
      <3>3. CASE Sign(t)
        <4>1. /\ thread[t].pc = "sign" /\ h.pc = "read" /\ crt' = Signed(t)
          BY <1>3, <3>3 DEF Sign, Typed, TypeOK, ThreadStates
        <4>2. csr = thread[t].csr /\ (r = Server => san = Host)
          BY <2>1, <2>6, <4>1 DEF Serves
        <4>3. CertificateOf(Signed(t), r)
          BY <2>2, <4>2, AskerAssumption DEF Signed, CertificateOf, RequestOf, NameOf
        <4>4. CertificateOf(crt, r)'
          BY <1>4, <4>1, <4>3 DEF CertificateOf, RequestOf
        <4> QED
          BY <4>1, <4>4
      <3>4. CASE SignFails(t)
        BY <2>1, <2>2, <2>5, <2>6, <3>4 DEF SignFails, Serves
      <3>5. CASE Read(t)
        <4>1. thread[t].pc = "read" /\ h.pc \notin {"csr", "sign", "read"}
          <5>1. PICK g : g = IF \A q \in Askers : asked[q] # t THEN Idle
                    ELSE [Idle EXCEPT !.pc = "done", !.out = IF crt.file = "cert" THEN crt ELSE Text]
            OBVIOUS
          <5>2. g.pc \in {"idle", "done"}
            BY <5>1 DEF Idle
          <5>3. thread[t].pc = "read" /\ thread' = [thread EXCEPT ![t] = g]
            BY <3>5, <5>1 DEF Read
          <5>4. h = g
            BY <1>3, <5>3 DEF Typed, TypeOK
          <5> QED
            BY <5>2, <5>3, <5>4
        <4>2. CertificateOf(crt, r)
          BY <2>1, <2>6, <4>1 DEF Serves
        <4>3. h.pc = "done" => h.out = crt
          BY <1>1, <1>7, <4>1, <4>2, IdleTyped DEF CertificateOf
        <4> QED
          BY <4>1, <4>2, <4>3
      <3> QED
        BY <3>1, <3>2, <3>3, <3>4, <3>5 DEF ThreadStep
    <2> QED
      BY <1>2, <1>3, <1>4, <2>4, <2>5, <2>6 DEF Serves, NameOf
  <1>8. ASSUME NEW r \in Askers, asked[r] # None PROVE Serves(asked[r], r)'
    <2>1. PICK u \in Threads : u = asked[r]
      BY <1>8 DEF Typed, TypeOK
    <2>2. Serves(u, r)'
      BY <1>6, <1>7, <1>8, <2>1
    <2> QED
      BY <1>2, <2>1, <2>2 DEF Serves
  <1> QED
    BY <1>2, <1>5, <1>8 DEF Certified

LEMMA RestartCertified ==
    ASSUME Typed, Certified, RestartAuthority
    PROVE  Certified'
  <1> DEFINE failed == {r \in Askers : pc[r] = "wait" /\ thread[asked[r]].pc # "done"}
  <1>1. /\ pc' = [r \in Askers |-> IF r \notin failed THEN pc[r]
                                  ELSE IF r = Server THEN "boot" ELSE "run"]
        /\ asked' = [r \in Askers |-> IF r \in failed THEN None ELSE asked[r]]
        /\ disturbed' = disturbed \cup failed
        /\ thread' = [t \in Threads |-> IF t \in Active THEN Idle ELSE thread[t]]
        /\ UNCHANGED <<key, cert, trust, san, csr, crt, crashes, overlapped>>
    BY DEF RestartAuthority
  <1>2. Active' \subseteq Active
    BY <1>1, IdleTyped DEF Active
  <1>3. ASSUME NEW r \in failed
        PROVE  Holds(r)' /\ asked'[r] = None
    BY <1>1, <1>3 DEF Holds
  <1>4. ASSUME NEW r \in Askers, r \notin failed
        PROVE  Holds(r)' /\ (asked'[r] # None => Serves(asked[r], r)')
    <2>1. /\ pc'[r] = pc[r] /\ key'[r] = key[r] /\ cert'[r] = cert[r] /\ asked'[r] = asked[r]
          /\ r \notin disturbed' => r \notin disturbed
      BY <1>1, <1>4
    <2>2. ASSUME asked[r] # None
          PROVE  thread'[asked[r]] = thread[asked[r]] /\ overlapped' = overlapped
      <3>1. asked[r] \in Threads /\ thread[asked[r]].pc = "done"
        BY <1>4, <2>2 DEF Typed, TypeOK, Serving
      <3> QED
        BY <1>1, <3>1 DEF Active
    <2> QED
      BY <1>1, <1>2, <2>1, <2>2, OtherAsker
  <1> QED
    BY <1>3, <1>4 DEF Certified

LEMMA NextCertified == Typed /\ Certified /\ [Next]_vars => Certified'
  <1> SUFFICES ASSUME Typed, Certified, [Next]_vars PROVE Certified'
    OBVIOUS
  <1>1. CASE UNCHANGED vars
    <2>1. UNCHANGED <<pc, key, cert, asked, thread, san, csr, crt, overlapped, disturbed>>
      BY <1>1 DEF vars, asker, authority
    <2>2. Active' = Active
      BY <2>1 DEF Active
    <2>3. ASSUME NEW r \in Askers PROVE Holds(r)' /\ (asked'[r] # None => Serves(asked[r], r)')
      BY <2>1, <2>2, OtherAsker
    <2> QED
      BY <2>3 DEF Certified
  <1> QED
    BY <1>1, BootCertified, AskCertified, AskerCertified, ThreadCertified, RestartCertified
    DEF Next, AskerStep

\* An asker that runs, served alone and answered whole, has a certificate of its
\* own key, subject, name and attestation, whatever was in the shared files
\* (run.sh 18-23, ca/main.py 20-43).
THEOREM ServedAloneIsCertified == Spec => []UndisturbedIsCertified
  <1>1. Certified => UndisturbedIsCertified
    BY DEF Certified, Holds, CertificateOf, RequestOf, NameOf, UndisturbedIsCertified
  <1> QED
    BY InitTyped, InitCertified, NextTyped, NextCertified, <1>1, PTL DEF Spec

-----------------------------------------------------------------------------
(* Roots.                                                                  *)

\* The roots that certificates are signed with, and that are trusted, are ones
\* the authority has had.
RootOf(c) == c.file = "cert" => c.root <= root

RootsPast ==
    /\ \A r \in Askers : /\ RootOf(cert[r])
                         /\ trust[r] # None => trust[r] <= root
                         /\ pc[r] # "boot" => trust[r] # None
    /\ RootOf(crt)
    /\ \A t \in Threads : RootOf(thread[t].out)

LEMMA InitRoots == Init => RootsPast
  BY FileKinds, IdleTyped DEF Init, RootsPast, RootOf

LEMMA NextRoots == Typed /\ RootsPast /\ [Next]_vars => RootsPast'
  <1> SUFFICES ASSUME Typed, RootsPast, [Next]_vars PROVE RootsPast'
    OBVIOUS
  <1>0. root \in Nat /\ RootOf(Absent) /\ RootOf(Torn) /\ RootOf(Text) /\ RootOf(Idle.out)
    BY BoundAssumption, FileKinds, IdleTyped DEF Typed, TypeOK, RootOf
  <1>1. ASSUME NEW r \in Askers, Boot(r) PROVE RootsPast'
    <2>1. PICK next \in {"ask", "run"} : BootTo(r, next)
      BY <1>1 DEF Boot
    <2>2. root # None
      BY NoneAssumption DEF Typed, TypeOK
    <2>3. /\ trust' = [trust EXCEPT ![r] = root] /\ pc' = [pc EXCEPT ![r] = next]
          /\ \/ cert' = [cert EXCEPT ![r] = Absent]
             \/ cert' = cert
          /\ UNCHANGED <<thread, crt, root>>
      BY <2>1 DEF BootTo, authority
    <2>4. \A q \in Askers : /\ RootOf(cert[q])'
                            /\ trust'[q] # None => trust'[q] <= root
                            /\ pc'[q] # "boot" => trust'[q] # None
      BY <1>0, <2>2, <2>3 DEF RootsPast, RootOf, Typed, TypeOK
    <2> QED
      BY <2>3, <2>4 DEF RootsPast, RootOf
  <1>2. ASSUME NEW r \in Askers, NEW t \in Threads, Ask(r, t) PROVE RootsPast'
    <2>1. PICK q : thread' = [thread EXCEPT ![t] =
               [Idle EXCEPT !.csr = q, !.san = IF r = Server THEN Host ELSE None,
                            !.pc = IF r = Server THEN "san" ELSE "csr"]]
      BY <1>2 DEF Ask
    <2>2. \A u \in Threads : RootOf(thread[u].out)'
      <3>1. \A u \in Threads : thread'[u].out = IF u = t THEN Idle.out ELSE thread[u].out
        BY <2>1 DEF Idle, Typed, TypeOK
      <3>2. UNCHANGED root
        BY <1>2 DEF Ask
      <3> QED
        BY <1>0, <3>1, <3>2 DEF RootsPast, RootOf
    <2>3. /\ pc[r] = "ask" /\ pc' = [pc EXCEPT ![r] = "wait"]
          /\ UNCHANGED <<cert, trust, crt, root>>
      BY <1>2 DEF Ask
    <2> QED
      BY <2>2, <2>3 DEF RootsPast, RootOf, Typed, TypeOK
  <1>3. ASSUME NEW r \in Askers, Open(r) PROVE RootsPast'
    <2>1. /\ pc[r] = "wait" /\ pc' = [pc EXCEPT ![r] = "save"] /\ cert' = [cert EXCEPT ![r] = Torn]
          /\ UNCHANGED <<trust, thread, crt, root>>
      BY <1>3 DEF Open, authority
    <2> QED
      BY <1>0, <2>1 DEF RootsPast, RootOf, Typed, TypeOK
  <1>4. ASSUME NEW r \in Askers, Save(r) PROVE RootsPast'
    <2>1. PICK t \in Threads : t = asked[r]
      BY <1>4, AskedTyped DEF Save
    <2>2. /\ pc[r] = "save" /\ cert' = [cert EXCEPT ![r] = thread[t].out]
          /\ thread' = [thread EXCEPT ![t] = Idle] /\ UNCHANGED <<trust, crt, root>>
          /\ pc' = [pc EXCEPT ![r] = IF r = Server THEN "load" ELSE "run"]
      BY <1>4, <2>1 DEF Save
    <2> QED
      BY <1>0, <2>2 DEF RootsPast, RootOf, Typed, TypeOK
  <1>5. CASE Load
    <2>1. /\ pc[Server] = "load" /\ UNCHANGED <<cert, trust, thread, crt, root>>
          /\ \A q \in Askers : q # Server => pc'[q] = pc[q]
      BY <1>5 DEF Load, authority, Typed, TypeOK
    <2> QED
      BY <2>1 DEF RootsPast, RootOf, Askers
  <1>6. ASSUME NEW r \in Askers, Crash(r) PROVE RootsPast'
    <2>1. /\ pc' = [pc EXCEPT ![r] = "boot"] /\ UNCHANGED <<cert, trust, crt, root>>
          /\ thread' \in {thread, [thread EXCEPT ![asked[r]] = Idle]}
      BY <1>6 DEF Crash
    <2>2. \A t \in Threads : thread'[t] \in {thread[t], Idle}
      BY <2>1 DEF Typed, TypeOK
    <2> QED
      BY <1>0, <2>1, <2>2 DEF RootsPast, RootOf, Typed, TypeOK
  <1>7. ASSUME NEW t \in Threads, ThreadStep(t) PROVE RootsPast'
    <2>1. /\ UNCHANGED <<pc, cert, trust, root>>
          /\ \A u \in Threads : thread'[u].out \in {thread[u].out, Idle.out, crt, Text}
      <3>1. PICK h \in ThreadStates :
           /\ thread' = [thread EXCEPT ![t] = h]
           /\ h.out \in {thread[t].out, Idle.out, crt, Text}
           /\ UNCHANGED <<asker, root>>
        BY <1>7, ThreadStepIs
      <3> QED
        BY <3>1 DEF asker, Typed, TypeOK
    <2>2. RootOf(crt)'
      <3>1. crt' \in {crt, Absent, Torn} \/ crt' = Signed(t)
        BY <1>7 DEF ThreadStep, WriteSan, WriteCsr, Sign, SignFails, Read
      <3>2. RootOf(Signed(t))
        BY <1>0 DEF RootOf, Signed
      <3> QED
        BY <1>0, <2>1, <3>1, <3>2 DEF RootOf, RootsPast, Signed
    <2> QED
      BY <1>0, <2>1, <2>2 DEF RootsPast, RootOf
  <1>8. CASE RestartAuthority
    <2>1. /\ root' = root + 1 /\ UNCHANGED <<cert, trust, crt>>
          /\ \A t \in Threads : thread'[t] \in {thread[t], Idle}
          /\ \A r \in Askers : pc'[r] = pc[r] \/ pc[r] = "wait"
      BY <1>8 DEF RestartAuthority
    <2>2. /\ \A r \in Askers : /\ cert[r].file = "cert" => cert[r].root \in Nat
                               /\ trust[r] # None => trust[r] \in Nat
          /\ crt.file = "cert" => crt.root \in Nat
          /\ \A t \in Threads : thread[t].out.file = "cert" => thread[t].out.root \in Nat
      BY BoundAssumption, FileKinds DEF Typed, TypeOK, ThreadStates, Certificates
    <2>3. \A t \in Threads : RootOf(thread[t].out)'
      BY <1>0, <2>1, <2>2, IdleTyped, FileKinds DEF RootsPast, RootOf
    <2> QED
      BY <1>0, <2>1, <2>2, <2>3 DEF RootsPast, RootOf
  <1>9. CASE UNCHANGED vars
    BY <1>9 DEF vars, asker, authority, RootsPast, RootOf
  <1>10. ASSUME NEW e \in Enclaves, AskFails(e) PROVE RootsPast'
    BY <1>10 DEF AskFails, authority, RootsPast, RootOf, Typed, TypeOK
  <1> QED
    BY <1>1, <1>2, <1>3, <1>4, <1>5, <1>6, <1>7, <1>8, <1>9, <1>10 DEF Next, AskerStep

\* The server turns an undisturbed enclave away only for the verdict of the
\* attestation service, or because the authority was restarted between the two
\* certificates (provider/main.py verify_request, ca/main.py 20-43).
THEOREM RejectedWithReason == Spec => []RejectedForAReason
  <1>1. Typed /\ Certified /\ RootsPast => RejectedForAReason
    <2> SUFFICES ASSUME Typed, Certified, RootsPast, NEW e \in Enclaves,
                        pc[e] = "run", e \notin disturbed, pc[Server] = "run"
                 PROVE  \/ Verified(cert[e]) /\ cert[e].root = trust[Server]
                        \/ cert[e].report.status = "bad"
                        \/ cert[e].root # trust[Server] /\ root > 1
      BY DEF RejectedForAReason
    <2>1. e \in Askers /\ e # Server /\ Server \in Askers
      BY AskerAssumption DEF Askers
    <2>2. /\ cert[e].file = "cert" /\ cert[e].key = key[e]
          /\ cert[e].report \in Attested(key[e])
      BY <2>1 DEF Certified, Holds, CertificateOf, RequestOf, ReportsOf
    <2>3. cert[e].report.hash = cert[e].key /\ cert[e].report.status \in {"OK", "bad"}
      BY <2>2 DEF Attested, Statuses
    <2>4. cert[e].report.status = "OK" => Verified(cert[e])
      BY <2>2, <2>3 DEF Verified
    <2>5. /\ cert[e].root \in Nat \ {0} /\ cert[e].root <= root
          /\ trust[Server] \in Nat \ {0} /\ trust[Server] <= root
      BY <2>1, <2>2, BoundAssumption, FileKinds
      DEF RootsPast, RootOf, Typed, TypeOK, Certificates
    <2>6. cert[e].root # trust[Server] => root > 1
      BY <2>5, BoundAssumption DEF Typed, TypeOK
    <2> QED
      BY <2>3, <2>4, <2>6
  <1> QED
    BY InitTyped, InitCertified, InitRoots, NextTyped, NextCertified, NextRoots, <1>1, PTL DEF Spec

=============================================================================
