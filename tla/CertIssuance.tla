---------------------------- MODULE CertIssuance ----------------------------
(***************************************************************************)
(* How the enclaves and the provision server come to their certificates.   *)
(* An enclave's container starts with run.sh, which has gen_cert.py make a *)
(* key and an attested request unless certs/client.pem exists; the server  *)
(* asks for a new certificate whenever it starts.  The certificate         *)
(* authority serves each request in a thread of its own, over one san.txt, *)
(* one tmp.csr and one tmp_pem.crt, and makes a new root when it starts.   *)
(*                                                                         *)
(* overlapped and disturbed are history variables.                         *)
(***************************************************************************)
EXTENDS Naturals, Functions

CONSTANTS
    Enclaves, Server,   \* those who ask for certificates
    Client,             \* subject of the client that connects to each enclave
    Host,               \* HOST_NAME: the server's name, and its subjectAltName
    None, Unset,
    MaxKeys, MaxThreads,  \* bounds of the keys in use, of the threads at once
    MaxCrashes,         \* bound of the crashes of enclaves and server
    MaxRoots            \* bound of the starts of the authority

Askers == Enclaves \cup {Server}

ASSUME AskerAssumption == Server \notin Enclaves /\ Host # None
ASSUME BoundAssumption ==
    MaxCrashes \in Nat /\ {MaxKeys, MaxThreads, MaxRoots} \subseteq Nat \ {0}

Keys == 1..MaxKeys
Threads == 1..MaxThreads

VARIABLES
    pc,                     \* where run.sh or the server's main is
    key, cert,              \* private.key, and client.pem or server.pem
    trust,                  \* RootCA.pem
    asked,                  \* the thread that serves the asker's request
    thread, san, csr, crt,  \* the authority's threads and files
    root,                   \* which of its roots the authority uses
    crashes,
    overlapped,             \* threads that served a request beside another
    disturbed               \* askers that did not get their answer whole, or
                            \* got it from an overlapped thread

asker == <<pc, key, cert, trust, asked>>
authority == <<thread, san, csr, crt>>
vars == <<asker, authority, root, crashes, overlapped, disturbed>>

\* The attributes gen_certificate_request takes over; the address is looked up
\* under "mail", a name no peer certificate has.
Copied == {"countryName", "stateOrProvinceName", "localityName",
           "organizationName", "commonName"}

\* Mutant: every attribute is taken over, as the "mail" parameter intends.
SubjectWhole(r) ==
    IF r = Server THEN [f \in {"commonName"} |-> Host]
    ELSE Restrict(Client[r], {f \in DOMAIN Client[r] : Client[r][f] # Unset})

Subject(r) ==
    IF r = Server THEN [f \in {"commonName"} |-> Host]
    ELSE Restrict(Client[r], {f \in DOMAIN Client[r] \cap Copied : Client[r][f] # Unset})

\* "bad": a status in the server's rejection_list, or no report at all.
Statuses == {"OK", "bad"}
Reports == [hash : Keys \cup {None}, status : Statuses] \cup {None}
Values == {Host} \cup {v \in UNION {Range(Client[e]) : e \in Enclaves} : v # Unset}
Subjects == UNION {[F -> Values] : F \in SUBSET Copied}
SigningRequests == [key : Keys, subject : Subjects, report : Reports]
Certificates == [file : {"cert"}, key : Keys, subject : Subjects,
                 report : Reports, san : {Host, None}, root : 1..MaxRoots]
Absent == [file |-> "absent"]
Torn == [file |-> "torn"]
Text == [file |-> "text"]                   \* the authority's error page
Files == Certificates \cup {Absent, Torn, Text}

ASSUME NoneAssumption == None \notin Threads \cup 1..MaxRoots \cup SigningRequests

Idle == [pc |-> "idle", csr |-> None, san |-> None, out |-> Absent]
Active == {t \in Threads : thread[t].pc \notin {"idle", "done"}}

Init ==
    /\ pc = [r \in Askers |-> "boot"]
    /\ key = [r \in Askers |-> None] /\ cert = [r \in Askers |-> Absent]
    /\ trust = [r \in Askers |-> None] /\ asked = [r \in Askers |-> None]
    /\ thread = [t \in Threads |-> Idle]
    /\ san = None /\ csr = None /\ crt = Absent
    /\ root = 1 /\ crashes = 0
    /\ overlapped = {} /\ disturbed = {}
-----------------------------------------------------------------------------
\* get_subject_pkey makes a key that nothing else in the system bears.
FreshKeys ==
    Keys \ ( Range(key)
             \cup {c.key : c \in {f \in Range(cert) \cup {crt} : f.file = "cert"}}
             \cup {q.key : q \in ({csr} \cup {thread[t].csr : t \in Threads}) \ {None}}
             \cup {thread[t].out.key : t \in {u \in Threads : thread[u].out.file = "cert"}} )

\* Mutant: REPORT_DATA is not written before the quote is read.
AttestedBefore(k) == {[hash |-> None, status |-> s] : s \in Statuses}

\* The quote's REPORT_DATA is the hash of the request's public key.
Attested(k) == {[hash |-> k, status |-> s] : s \in Statuses}

\* gen_certificate_request: both encoders are given the same, so the signature
\* covers what is sent.  The server's request, made by openssl, has no report.
Requests(r) ==
    LET k == CHOOSE f \in FreshKeys : TRUE
    IN  [key : {k}, subject : {Subject(r)},
         report : IF r = Server THEN {None} ELSE Attested(k)]

\* run.sh, or the server's container, begins.  Files that are sure to be written
\* before they are read count as absent.
BootTo(r, next) ==
    /\ pc[r] = "boot"
    /\ pc' = [pc EXCEPT ![r] = next]
    /\ trust' = [trust EXCEPT ![r] = root]
    /\ IF next = "ask"
       THEN key' = [key EXCEPT ![r] = None] /\ cert' = [cert EXCEPT ![r] = Absent]
       ELSE UNCHANGED <<key, cert>>
    /\ UNCHANGED <<asked, authority, root, crashes, overlapped, disturbed>>

\* Mutant: an enclave of which there is a private.key is not given another.
BootByKey(r) == BootTo(r, IF r \in Enclaves /\ key[r] # None THEN "run" ELSE "ask")

\* Mutant: the server, too, keeps the file it finds.
BootKeeping(r) ==
    BootTo(r, IF cert[r].file = "absent" THEN "ask" ELSE IF r = Server THEN "load" ELSE "run")

Boot(r) == BootTo(r, IF r \in Enclaves /\ cert[r].file # "absent" THEN "run" ELSE "ask")

\* An enclave's client connects, or the server goes on: key and request are
\* made, private.key is written and the request posted.
Ask(r, t) ==
    /\ pc[r] = "ask" /\ FreshKeys # {}   \* the bound MaxKeys
    /\ thread[t] = Idle /\ \A u \in 1..(t - 1) : thread[u] # Idle
    /\ \E q \in Requests(r) :
         /\ key' = [key EXCEPT ![r] = q.key]
         /\ thread' = [thread EXCEPT ![t] =
              [Idle EXCEPT !.csr = q, !.san = IF r = Server THEN Host ELSE None,
                           !.pc = IF r = Server THEN "san" ELSE "csr"]]
    /\ overlapped' = (overlapped \ {t}) \cup (IF Active = {} THEN {} ELSE Active \cup {t})
    /\ asked' = [asked EXCEPT ![r] = t]
    /\ pc' = [pc EXCEPT ![r] = "wait"]
    /\ UNCHANGED <<cert, trust, san, csr, crt, root, crashes, disturbed>>

\* gen_cert.py ends before it posts a request: no client certificate, a line
\* missing, no quote or no report.  run.sh goes on to the app all the same.
AskFails(e) ==
    /\ pc[e] = "ask"
    /\ pc' = [pc EXCEPT ![e] = "run"]
    /\ disturbed' = disturbed \cup {e}
    /\ UNCHANGED <<key, cert, trust, asked, authority, root, crashes, overlapped>>

\* The answer, whatever it says, is to go into the certificate file.
Open(r) ==
    /\ pc[r] = "wait" /\ thread[asked[r]].pc = "done"
    /\ cert' = [cert EXCEPT ![r] = Torn]
    /\ pc' = [pc EXCEPT ![r] = "save"]
    /\ UNCHANGED <<key, trust, asked, authority, root, crashes, overlapped, disturbed>>

Save(r) ==
    /\ pc[r] = "save"
    /\ cert' = [cert EXCEPT ![r] = thread[asked[r]].out]
    /\ disturbed' = IF asked[r] \in overlapped THEN disturbed \cup {r} ELSE disturbed \ {r}
    /\ overlapped' = overlapped \ {asked[r]}
    /\ thread' = [thread EXCEPT ![asked[r]] = Idle]
    /\ asked' = [asked EXCEPT ![r] = None]
    /\ pc' = [pc EXCEPT ![r] = IF r = Server THEN "load" ELSE "run"]
    /\ UNCHANGED <<key, trust, san, csr, crt, root, crashes>>

\* load_cert_chain takes a certificate with its key, or the container restarts.
Load ==
    /\ pc[Server] = "load"
    /\ LET c == cert[Server]
       IN  pc' = [pc EXCEPT ![Server] =
                    IF c.file = "cert" /\ c.key = key[Server] THEN "run" ELSE "boot"]
    /\ UNCHANGED <<key, cert, trust, asked, authority, root, crashes, overlapped, disturbed>>

\* The container dies and is started again; a request it made is still served.
Crash(r) ==
    /\ crashes < MaxCrashes /\ pc[r] # "boot"
    /\ crashes' = crashes + 1
    /\ pc' = [pc EXCEPT ![r] = "boot"]
    /\ asked' = [asked EXCEPT ![r] = None]
    /\ thread' = IF pc[r] \in {"wait", "save"} /\ thread[asked[r]].pc = "done"
                 THEN [thread EXCEPT ![asked[r]] = Idle] ELSE thread
    /\ disturbed' = IF pc[r] = "save" THEN disturbed \cup {r} ELSE disturbed
    /\ UNCHANGED <<key, cert, trust, san, csr, crt, root, overlapped>>
-----------------------------------------------------------------------------
WriteSan(t) ==
    /\ thread[t].pc = "san"
    /\ san' = thread[t].san
    /\ thread' = [thread EXCEPT ![t].pc = "csr"]
    /\ UNCHANGED <<asker, csr, crt, root, crashes, overlapped, disturbed>>

WriteCsr(t) ==
    /\ thread[t].pc = "csr"
    /\ csr' = thread[t].csr
    /\ thread' = [thread EXCEPT ![t].pc = "sign"]
    /\ UNCHANGED <<asker, san, crt, root, crashes, overlapped, disturbed>>

\* The policy of openssl.cnf: attributes it does not name are dropped.
Matched == {"countryName", "stateOrProvinceName", "organizationName", "commonName"}
InPolicy(s) == Restrict(s, DOMAIN s \cap Matched)

\* The certificate openssl makes of tmp.csr; -extfile is given with a san only.
Signed(t) == [file |-> "cert", key |-> csr.key, subject |-> InPolicy(csr.subject),
              report |-> csr.report, root |-> root,
              san |-> IF thread[t].san = None THEN None ELSE san]

Sign(t) ==
    /\ thread[t].pc = "sign" /\ csr # None
    /\ crt' = Signed(t)
    /\ thread' = [thread EXCEPT ![t].pc = "read"]
    /\ UNCHANGED <<asker, san, csr, root, crashes, overlapped, disturbed>>

\* openssl finds no tmp.csr, or finds it or its own database in the hands of
\* another thread; its return code is not looked at.
SignFails(t) ==
    /\ thread[t].pc = "sign"
    /\ csr = None \/ Active # {t}
    /\ crt' \in {crt, Torn}
    /\ thread' = [thread EXCEPT ![t].pc = "read"]
    /\ UNCHANGED <<asker, san, csr, root, crashes, overlapped, disturbed>>

\* The answer is read and both files are removed; when there is nothing to
\* read, the error page comes before the removal.
Read(t) ==
    /\ thread[t].pc = "read"
    /\ thread' = [thread EXCEPT ![t] =
         IF \A r \in Askers : asked[r] # t THEN Idle
         ELSE [Idle EXCEPT !.pc = "done", !.out = IF crt.file = "cert" THEN crt ELSE Text]]
    /\ IF crt = Absent THEN UNCHANGED <<csr, crt>> ELSE csr' = None /\ crt' = Absent
    /\ UNCHANGED <<asker, san, root, crashes, overlapped, disturbed>>

\* The authority starts anew, with a new root, over the files it left.  Whoever
\* waits for an answer has an exception: gen_cert.py ends, and run.sh goes on to
\* the app without a certificate; the server's container restarts.
RestartAuthority ==
    /\ root < MaxRoots
    /\ root' = root + 1
    /\ LET failed == {r \in Askers : pc[r] = "wait" /\ thread[asked[r]].pc # "done"}
       IN  /\ pc' = [r \in Askers |-> IF r \notin failed THEN pc[r]
                                      ELSE IF r = Server THEN "boot" ELSE "run"]
           /\ asked' = [r \in Askers |-> IF r \in failed THEN None ELSE asked[r]]
           /\ disturbed' = disturbed \cup failed
    /\ thread' = [t \in Threads |-> IF t \in Active THEN Idle ELSE thread[t]]
    /\ UNCHANGED <<key, cert, trust, san, csr, crt, crashes, overlapped>>

AskerStep(r) ==
    \/ Boot(r) \/ Open(r) \/ Save(r)
    \/ \E t \in Threads : Ask(r, t)
    \/ r \in Enclaves /\ AskFails(r)
    \/ r = Server /\ Load

ThreadStep(t) == WriteSan(t) \/ WriteCsr(t) \/ Sign(t) \/ SignFails(t) \/ Read(t)

Next ==
    \/ \E r \in Askers : AskerStep(r) \/ Crash(r)
    \/ \E t \in Threads : ThreadStep(t)
    \/ RestartAuthority

Spec == Init /\ [][Next]_vars

\* The server and the authority's threads run; clients need not connect.
FairSpec ==
    /\ Spec
    /\ WF_vars(AskerStep(Server))
    /\ \A t \in Threads : WF_vars(ThreadStep(t))
    /\ \A e \in Enclaves : WF_vars(Open(e) \/ Save(e))
-----------------------------------------------------------------------------
\* The server's verify_request: the header, the report's signature and status,
\* and REPORT_DATA against the key; a certificate without a report passes.
Verified(c) ==
    /\ c.file = "cert"
    /\ c.report = None \/ (c.report.status = "OK" /\ c.report.hash = c.key)

ThreadStates == [pc : {"idle", "san", "csr", "sign", "read", "done"},
                 csr : SigningRequests \cup {None}, san : {Host, None}, out : Files]

TypeOK ==
    /\ pc \in [Askers -> {"boot", "ask", "wait", "save", "load", "run"}]
    /\ key \in [Askers -> Keys \cup {None}] /\ cert \in [Askers -> Files]
    /\ trust \in [Askers -> (1..MaxRoots) \cup {None}]
    /\ asked \in [Askers -> Threads \cup {None}]
    /\ thread \in [Threads -> ThreadStates]
    /\ san \in {Host, None} /\ csr \in SigningRequests \cup {None} /\ crt \in Files
    /\ root \in 1..MaxRoots /\ crashes \in 0..MaxCrashes
    /\ overlapped \subseteq Threads /\ disturbed \subseteq Askers

\* An asker that runs, and whose request the authority served alone and answered
\* whole, has a certificate of the key in its private.key, for what the policy
\* leaves of its own subject, and for its own name - over all that earlier
\* requests, crashes and restarts left in the shared files (run.sh 18-23,
\* ca/main.py 20-43).
UndisturbedIsCertified ==
    \A r \in Askers : pc[r] = "run" /\ r \notin disturbed =>
        LET c == cert[r]
        IN  /\ c.file = "cert" /\ c.key = key[r] /\ c.subject = InPolicy(Subject(r))
            /\ c.san = IF r = Server THEN Host ELSE None

\* The server turns an undisturbed enclave away only for the attestation
\* service's verdict, or because the authority was restarted between the two
\* certificates.
RejectedForAReason ==
    \A e \in Enclaves :
        (pc[e] = "run" /\ e \notin disturbed /\ pc[Server] = "run") =>
            \/ Verified(cert[e]) /\ cert[e].root = trust[Server]
            \/ cert[e].report.status = "bad"
            \/ cert[e].root # trust[Server] /\ root > 1

\* However its requests are disturbed, the server comes to run: it asks again at
\* every start, and in the end is served alone.
ServerComesToRun == <>(pc[Server] = "run")

=============================================================================
