# TLA+ models of VDDPI

VDDPI lets a data provider decide, before any data leaves, what a consumer's
program may do with it: registries agree on a processing specification of every
program, the provider grants the use under a usage condition, and an enclave
processes the data only while that condition holds. This directory models the
parts of the repository that keep those promises, checks them with TLC and
proves the central ones with TLAPS.

## The system

```
 registrant --> Registry API --UpdateLib, RegisterProgram--> chaincode1, chaincode2
                    |                                 (one process per registry)
                    | /spec                     writes a shared file, then asks
                    v                                   v              v
 client --apply--> Provider (two SQL tables)     build server     analyzer
   |                  ^ provide_data
   | tokens           | quote, TLS
   +-------------> Consumer enclave app (cache files on disk)
```

| component | state it keeps | operations | correct when |
|---|---|---|---|
| provision server, `apply` (docker/provider/main.py) | table `policy`, table `saved_policy` | verify declaration, ask every registry, read the policy, decide, insert, sign a token | a row is saved only if some policy and a specification all registries had allow it; a grant that lost its token is never taken over; a token says what will be provided; every request is answered unless a registry stays silent |
| provision server, `provide_data` | reads `saved_policy` | derive a condition from the row, send data | the condition is never wider than the policy; the data goes to the applicant |
| consumer app (docker/gramine_consumer/code/main.py, and code_eval_0x, which differ in process_data only) | one encrypted file per data identifier, the session in memory | verify tokens, cache or fetch, check condition, process, decrement, send, write back; restarted by run.sh | a copy is used at most as often as its counter, only while its condition holds, whatever crashes; every session ends |
| chaincode 1 | world state: specification by MRENCLAVE; /tmp/program.py | RegisterProgram, RevokeProcessingSpec, queries | a specification describes the program its key measures |
| chaincode 2 | world state: library functions; `Participants` in memory; /tmp/plib.py | RegisterID, SuggestFunc, Vote, UpdateLib, queries | a function is accepted by everyone registered; votes are not lost or carried over |
| registry API server | none | register (two transactions), spec, library | a registration uses the accepted library |
| build server (docker/gramine_registry) | upload, source, interpreter, library (files) | upload and build, update, updateFilters | the measurement is of the program sent |
| analyzer (docker/analyzer) | source, library | verify (compare with the template, check the calls, name the taints, run pysa), update | same library as the build server after an update; only programs built on the template are analysed; the output suffices for the provider's decision |
| certificate authority (docker/ca) | three temporary files, the root | issue, root-crt | a certificate is for the request's key, name and report |
| gen_cert.py, run.sh, get_server_cert | private.key, client.pem / server.pem, RootCA.pem | make a key and a request, store the answer | who runs has a certificate of its own key |
| benchmark client (benchmark/client.py) | none | request and process, with up to 20 attempts | a repetition does not charge twice; a call ends |

What is hard to test in them: a crash between the decrement in memory and the
file on disk; files that are emptied before they are written; counters, dates
and locations that are absent on one side or both and pass through text; two
applications that decide concurrently over one primary key; registries that
answer from different moments; votes and registrations that every registry
executes at its own time, some of them never committed; requests and
transactions that share files; a session repeated by a client that does not know
how far the first one came; reads that are counted in lines; a program that is
told from a template by a loop with a jump in it, and names that are joined with
underscores and taken apart at them. `PROJECT.json` lists each at its line under
`hazards`.

## The modules

| module | models | uses |
|---|---|---|
| UsagePolicy | the arithmetic of a usage condition | |
| GrantLifecycle | one grant from policy to use | UsagePolicy |
| UsageControl | abstract: what the app promises about counters | |
| ConsumerApp | the sessions of the enclave app | UsagePolicy, UsageControl (INSTANCE) |
| RetriedCall | clients that repeat calls, and the app's connections | |
| UsageGrants | abstract: what the server promises about grants | UsagePolicy |
| Provider | apply and provide_data, concurrent | UsagePolicy, UsageGrants (INSTANCE) |
| VoteLedger | abstract: what the registries promise about a vote | |
| LibraryGovernance | votes on library functions | VoteLedger (INSTANCE) |
| ProgramRegistry | registration of programs | |
| SourceAnalyzer | format check and analysis of a program | |
| CertIssuance | keys, requests, certificates and the authority | |
| ...Proofs | the theorems about a module, one each for GrantLifecycle, ConsumerApp, RetriedCall, Provider, LibraryGovernance, ProgramRegistry, SourceAnalyzer and CertIssuance | it |
| MC... | instances for TLC | |

**UsagePolicy** - pure operators. `MergeLimit` (counter and duration),
`MergeLocation` and `MergeExpiration` are the merges of `apply`; each returns
what the handler does (save, refuse, or fail on comparing None with a number).
`SavedRow` is the passage through the INSERT, which turns None into the text
'None'. `ProvidedCondition` is what provide_data makes of a row on a day,
`CheckExpiration` and `CheckLocation` the enclave's two tests, each a pair as in
the code, and `CheckConditionPhase` what their caller makes of the pairs. A day
has `TicksPerDay` ticks, because dates are compared with a clock that has hours.

**GrantLifecycle** - one grant from policy and declaration to use: `apply`,
`provide_data` and the enclave's check each take one step, time passes in
between. Its properties relate the two ends.

**UsageControl** - a purse of uses for every data identifier. A use takes one
from each data it is made of and is not made when one is empty; until it is
settled a fault may undo it; only fetching fills a purse. It knows neither
files nor sessions.

**ConsumerApp** - the enclave's main loop. `pc` names the place in `request`
and its callees:

| pc | code | actions |
|---|---|---|
| accept | 354-366 | Accept, AcceptFails |
| receive | 367-371 | Receive, AcceptFails |
| verify | 238-262 | VerifyToken, TokensVerified |
| token | 265-279, 297-304 | ReadCache, Acquire, AcquireFails, Process, SendOrWithhold, ReadTorn, WrongArity |
| write | 214-216 | WriteCache |
| check | 281-295 | Check |
| send | 306-307 | SendOrWithhold |
| save, store | 309-314, 218-227 | Remove, OpenStore, Store, Finish |
| down | run.sh 26-31 | Restart |

A file is absent, torn (opened and emptied, not yet written) or whole. `Crash`
may come at every pc; `AcceptFails`, `ReadTorn` and `WrongArity` are the
uncaught exceptions the code itself raises: a handshake that fails, a reset or a
first line that is no number; a torn file; too few arguments. `uses` and `lost`
are history variables: how often the present copy of a data identifier was
processed and how many of those decrements a crash swallowed. The provider is
the constant `Grant`; the answers of the time and location services are any time
and place. `Check` has both outcomes of the check, as the code has; the second
is never taken (Findings). `CERTIFICATE_DN_CHECKED` is the variable `cnChecked`:
the client's name is compared once in the life of the process. The refinement
mapping: `left` is what a copy's counter paid for and is not used, `unsettled`
the data processed in this session whose entry has not been written back
(`Pending`), `faults` the crashes. Fetching is `Acquire`, `Use` is `Process`,
`Settle` the removal or the writing of an entry; every other step stutters, and
an exception the code raises itself comes before anything is charged.

**RetriedCall** - clients and the app's accept loop, seen from the connection.
A client's attempt is refused, reset, or ended by an empty read, which client.py
takes for success; the app reads the record as many times as it has lines,
`ReadSize` bytes at most at a time. Inside the session the token loop is one
step, and the copies are written back one by one, so that a crash may fall
between two of them. A token is the data it is for, its argument number and
where its line ends in the client's record, so that `got` bytes hold the lines
that end within them. `charged` counts how often a client's call was processed
since it last saw a reset, `owing` who is charged in memory only; both are
history. The four copies of main.py have the same loop; the lines given are of
code_eval_01/main.py, which the benchmark runs.

**Provider** - `apply` as threads of steps. Asking one registry, reading the
policy table, deciding, inserting and signing are separate, with the other
threads, the registries' ledgers (`Commit`, `CatchUp`), the policy table
(`EditPolicy`) and `Crash` in between. Each may fail as the code lets it: a
malformed body (`ReceiveMalformed`), a registry that cannot be reached or never
answers (`RegistryUnreachable`, `Waiting`), the database (`DatabaseFails`), and,
after the commit, the signing (`TokenFails`, which leaves the row without its
token). The app is looked for in the text of the policy's app_id (main.py:285),
so that a policy has the set of MRENCLAVEs that occur in it. `provide_data` is
one action: it reads one row. History: what each registry ever had, which policy
rows there ever were, which tokens were issued. The refinement mapping: `grants`
is the saved table, `due` the tokens of the threads between the insert and the
signature (`Due`), `endorsed` what every registry has had (`Endorsed`),
`provided` the row last provided on. `InsertRow` is `Grant`, `IssueToken` is
`GiveOut`, `Crash` and `TokenFails` are `Lose`; the other steps of a thread
stutter.

**UsageGrants** - an application is decided in one step, on a policy that the
provider has had and a specification that every registry has had, with the merge
of UsagePolicy; a grant stays as it was made and is the only one for its app and
data; its token is given out once, or never when the server dies or fails first.
It knows neither threads nor calls.

**VoteLedger** - a function under each name, its electors and its votes; a
suggestion, an approval and a rejection each take effect at once. It knows
neither peers nor transactions, and leaves open who is asked.

**LibraryGovernance** - RegisterID, SuggestFunc and Vote. A transaction is
executed by one peer after another (`Submit`, `Endorse`), each in its own
chaincode process, and committed if all proposed the same and nothing it read
has changed (`Commit`). `Participants` is per process: RegisterID changes it
when it is executed, not when it is committed, and a restart empties it. It
implements VoteLedger with the ledger as its functions: only `Commit` changes
them.

**ProgramRegistry** - a call of `/register`: UpdateLib at every registry, then
RegisterProgram at every registry, step by step over the shared files. An
MRENCLAVE is the pair of program and library that was compiled, or, since
chaincode1 takes any answer for one, the text of a refusal (`Refused`); a
specification is the pair that was analysed. A call may be given up while its
executions go on. Four steps may fail without anyone being told, `MaxFaults`
times in all: the library is not installed (`SkipLib`, chaincode2:138), not
written by the build server, which answers 200 (`GramineKeeps`, main.go:84), the
upload is not stored (`UploadKeeps`, main.go:26), the interpreter is not built
and the former one measured (`BuildKeeps`, build.sh:12). History: `disturbed`
executions are those that another one, or such a fault, came across; `apart` are
the registries whose last update was disturbed or stopped half-way, so that the
two servers may differ; `suspect` the keys last recorded by a call that was
disturbed everywhere.

**SourceAnalyzer** - one program at a time in one analyzer. A program is a
sequence of lines that are not blank, read one per step while `check_format`
compares it with `Template`; a line is a def of process_data, a return, a call
of plib or a text. plib.py is a sequence of Output comments, defs and others,
read as `get_function_spec` reads it. A name is the sequence of its parts
between underscores, so that joining is concatenation and splitting takes the
parts: "person_1" is <<"person", "1">>. `Digits` are the texts that Python's
isdigit accepts, "01" among them (analyzer.py:155). `sources` is what
general.pysa says, `outputs` the specification's Output. pysa itself is
external: `Reach` is what flows into the result when every function hands on
what the analyzer's model of it says. `Disclosable` is the provider's test of
that Output.

**CertIssuance** - run.sh and gen_cert.py of each enclave, the server's
get_server_cert, and the authority's threads over san.txt, tmp.csr and
tmp_pem.crt. Each access to a file is a step; openssl may fail when there is no
request or when another thread is active. openssl's policy_match takes over the
matched fields of a subject only (`InPolicy`), and gen_cert.py may end before its
request is sent, after which run.sh goes on without a certificate (`AskFails`).
Each start downloads the root
(run.sh:11, provider/entrypoint.sh:22). The server runs Flask with its reloader,
which executes main a second time after the first has its certificate: to the
authority that is one more start. A key that is made is one nobody bears; which
one makes no difference. A container may die at any step, and
the authority may start anew with a new root. A key is a number, an attestation
report the key whose hash is in its REPORT_DATA and a status. History:
`overlapped` threads and `disturbed` askers, who were not served alone or did
not get their whole answer.

The modules meet through what they exchange. SourceAnalyzer's verdict is
ProgramRegistry's `Leaky`, ProgramRegistry's `specs` is Provider's `ledger`,
LibraryGovernance's accepted functions are ProgramRegistry's `lib`, Provider's
saved row is ConsumerApp's `Grant`, CertIssuance's `Verified` is what Provider
takes for an attested MRENCLAVE, and a session of ConsumerApp is one `Process`
and its `Store`s in RetriedCall. Each is an input of the consuming module that
ranges over everything the producing one can deliver; they are composed at those
points and not multiplied together. SourceAnalyzer holds the provider's test
itself, since its properties are about both ends.

## Runs

| run | question | instance | result |
|---|---|---|---|
| grant_lifecycle | is a condition ever wider than the policy and the declaration behind it? | counters and durations NULL, 0, 1, 2 (declared -1, 0, 1, 2), dates NULL, 0, 1, locations NULL, "", two countries, two days of two ticks | never |
| consumer_app | do counters and files stay right over any sessions and crashes, do sessions end, does it all implement UsageControl? | two data, two clients, six token lists, two crashes, three ticks | holds |
| retried_call | what does a client that repeats know, and does its call end? | two clients, two data, five token files, two attempts, two crashes | holds |
| provider_race | what can two concurrent applications do, and is it one application at a time as UsageGrants sees it? | one app, two consumers, two registries (one flaky), two policies of one key, one ledger change, any call failing | holds |
| provider_sequence | what can every kind of application do, one after another, with a restart? | two apps, five requests, any ledger and one change of it, one restart, a registry that may stay silent | holds, and each is answered if the registries answer |
| library_governance | are votes lost, carried over, or passed over, and is it one vote at a time as the ledger sees it? | two registries, one name, six transactions, two of them in flight, each process restarted once | holds |
| program_registry | can a race or an abandoned call put a wrong specification into the ledger? | two registries, two calls, two programs, two libraries | not while one registry is undisturbed |
| registration_faults | what do steps that fail unnoticed, refused uploads and leaks leave behind at a registry? | one registry, two calls, two programs, two libraries, two faults, one refusal, one leak | who comes after them undisturbed is registered as called; the servers agree after an undisturbed update |
| source_analyzer | which programs pass the format check, and can a provider trust their Output? | a template of six lines, every program over 19 lines with up to three in process_data before its return, two libraries, two data types | exactly those of the template; it can, under the assumptions below |
| cert_issuance | what do shared files, crashes and new roots leave an asker with? | one enclave and the server, two threads, seven keys, one crash, two roots | who is served alone is certified |
| consumer_client, program_details | see Findings | the instances of consumer_app and program_registry | violated |

Why the bounds are enough. A merge has three cases on each side (absent, below,
above), which the values of grant_lifecycle cover with both boundaries; two
ticks per day distinguish midnight from noon. In ConsumerApp, a copy's life is
fetch, use, write back, use, removal, fetch; the counter 2 of d1 passes through
all of it and the counter 0 of d2 is the edge. Two tokens for the same data, a
wrong argument number, a bad signature and another's token are each in a list.
Two crashes are one in a session and one in the session that finds what the
first left. In RetriedCall two attempts are the last and one that is not; the
token files are one record that fits one read, one that is longer, two lines
that need two reads, two that come in exactly two, and two that come in one. In
CertIssuance everything an asker can suffer comes from one other request at a
time, the server is the one with a subjectAltName, and seven keys are one for
each key in use (two askers with a private.key and a certificate each, the
shared files and the threads). In SourceAnalyzer the template repeats a line on
either side of the jump and has one line behind the last one compared; the
attributes have an underscore in a last key, in a first key, and none. In the
provider and the registries every interference is between two actors, or between
an actor and what one earlier one left behind. Faults and refusals are run at
one registry, program_registry without them, for its size; the theorems have
both at any number of registries. Six transactions are enough for everyone to
register, a suggestion, both approvals and one more that interferes, and for a
second suggestion with votes on the first still in flight. Symmetry is used in
the registry runs, over peers and slots, which no definition tells apart, and
where only safety is checked. CHECK_DEADLOCK is off for GrantLifecycle, where a
grant comes to its end, for library_governance and the registration runs, where
the calls run out (`MaxCalls`), for retried_call, where every call comes to an
end or waits for a record that is too short, and for cert_issuance, where
everyone runs in the end.

Fairness. `SessionsEnd` assumes `WF_vars(Step)` in ConsumerApp: one process, a
sequential loop, which takes its next step when it has one; run.sh restarts it
when it is down. Clients, crashes, the clock and the place are not fair: a
client that has connected need not send its record (`Receive`), and recv has no
timeout. The time and location services and the provider are taken to answer or
to break off: the code waits for them without a timeout. `CallsEnd` assumes the
same of app and clients together: whenever one of them can go on, one does. That
suffices, since every step brings some call nearer to its end and crashes are
bounded. `EveryApplicationAnswered` assumes weak fairness of each thread of the
provider that is inside a request, except in a call to a registry that may stay
silent (`Waiting`): the server has a thread for each, but requests.get has no
timeout. The database is taken to answer or to fail. Arrivals, registries'
catching up, policy edits and crashes are not fair. `ServerComesToRun` assumes
it of the server's container (docker starts it again: `restart:
unless-stopped`), of each thread of the authority, and of an enclave that stores
an answer it has; enclaves' clients need not connect. It holds because the
interference, crashes and new roots, is bounded, and because an enclave asks
only once per start.

What the properties say in short: `BoundedUses` counts the uses of one copy
against its counter, with one more for every crash that lost a decrement;
`FilesAccountForUses` says it of the files between sessions; `TornOnlyByCrash`
says no order of sessions leaves an unreadable file; `ImplementsUsageControl`
says that seen from outside nothing else can happen than uses that are paid for.
`HeldWherePolicyAllows` and `HeldWhilePolicyAllows` compare the condition in the
enclave with the policy it came from. `WholeCall` says when counting reads is
counting lines; `OncePerReset` and `CompletedIsStored` relate what a client saw
to what was charged and written. `RowsWereAllowed` and `TokensMatchRows` relate
the saved table to what was true when it was written; `LostGrantsStayLost` says
that a row which a restart or an error has left without its token gets neither a
token nor other terms by any later application, and `ImplementsUsageGrants` says
that rows, tokens and deliveries are those of applications decided one at a
time. `UnanimousUnlessAllRestarted`, `BallotsOfThisSuggestion`,
`AcknowledgedVotesStand` and `RejectedIsFinal` relate a function to the
executions of its votes, and `ImplementsVoteLedger` says that all of them
together leave what votes cast one after another would;
`SpecDescribesItsProgram`, `RegisteredAsCalled` and `ServersAgree` say what one
undisturbed registry is worth, and what an undisturbed execution makes good
after faults. `FormatIsTheTemplates` and `RejectedLineIsWrong` compare the loop
with a definition that looks at the whole program; `DisclosedOnlyAsAllowed` and
`AllowedIsAccepted` are soundness and completeness of the disclosure test, from
what flows in the program to what the provider decides. `UndisturbedIsCertified`
and `RejectedForAReason` say what an asker has in the end, and why a server
would turn it away. Every property has a mutant of the code that breaks it,
before the definition it changes in the module.

Assumed by the properties of SourceAnalyzer, each a hazard in `PROJECT.json`:
every def of the library directly follows its Output comment (`Documented`: a
blank line in between loses it, policy.py:38); no key that has keys below it
contains an underscore (`PlainPath`, analyzer.py:318); the lines after the last
one compared are the template's (`Unchanged`, analyzer.py:136).

## Findings

Where the code does something else than it says. Each is a run that TLC ends
with a behaviour of the model.

- `CacheIsPerClient`: a cached copy of another client is reported as failed (194)
  and returned (195).
- `GivenDetails`: two registrations that run at once share /tmp/program.py; when
  they overlap so at every registry, one program's specification is recorded
  under the other's MRENCLAVE with every endorsement.

Also met while modelling, visible in the models, and without a run of their own:

- check_expiration_date and check_location return pairs, and
  check_condition_phase negates the pair (consumer main.py:52, 55). A pair is
  never false, so every condition counts as met, at any time and in any place;
  "The usage condition is not met" (285) is never sent. `ConditionAlwaysMet`
  proves it for every condition. The baseline program of the benchmark has the
  same two tests, returns plain booleans and does check
  (consumer_benchmark_nosgx/eval_01.py).
- GetMRENCLAVE does not look at the status of the build server's answer
  (chaincode1:198-208; "obtain MRENCLAVE of the program", 157), so a refusal of
  400 (gramine_registry main.go:20-54), which all registries give alike, is taken
  for the MRENCLAVE: the program is analysed, recorded under the text, and its
  call answered with success (`Refused`).
- The branch for a condition that is not met would do the wrong thing:
  check_condition_phase returns is_expired 1 for a date that has passed and the
  caller marks the copy when it is 0 (53, 286), so an expired copy would be kept.
- The expiration date is an optional argument (provider main.py:217); without
  one on either side the text 'None' is saved, and provide_data raises on it for
  ever (`ProvideFailed`).
- With no location on either side the text 'None' is stored, and only "" is
  unrestricted (consumer main.py:123); with no duration on either side 0 is
  stored, and the copy runs out at the midnight before it is fetched.
- A used-up copy is removed and the next session fetches it again with the full
  counter: provide_data never decrements the saved row. A counter bounds the
  uses of one copy, not of the data (`Fetch` of UsageControl).
- provide_data looks the saved row up by app and data, whoever applied; the
  protocol model compares the consumer as well (proverif/main.pv:235).
- A data whose argument number was refused is decremented with the others
  (consumer main.py:301-304). UsageControl counts uses, and does not notice.
- One registry that cannot be reached fails every application (provider
  main.py:533), while README.md:5 speaks of no single point of failure; and one
  that takes the connection and stays silent holds the thread for ever, since
  requests.get has no timeout (`Waiting`).
- Table policy has one row per app and data, get_providing_policy selects by
  data and wants exactly one row: policies for two apps exclude both.
- A crash between the insert and the token, or an error in between (404-431: the
  key or the certificate cannot be read, the signing fails), leaves a row that
  makes every repetition of the application fail on the primary key, by whoever;
  `LostGrantsStayLost` states it.
- What a registry fails to do without saying so: an error in reading the accepted
  functions is answered with success (chaincode2:138), a library that cannot be
  opened with 200 (gramine_registry main.go:84), a file that is not created is
  built as it was (26), and an interpreter that does not compile is measured as
  it was (build.sh:12). Each marks the execution `disturbed` in ProgramRegistry.
- When every chaincode2 process has restarted, `Participants` is empty
  everywhere: the next suggestion is accepted by a single vote. The property
  excludes exactly that case.
- END_LINE_NUM is 280 (analyzer.py:136) while template.py has more lines than
  that, below "The following codes must not be changed" (template.py:31): what
  comes after is neither compared nor analysed.
- client.py takes the end of a connection for the end of a session (107-110):
  an app that dies closes it as well, and the call counts as done although the
  attempt "should raise on failure" (37).
- run.sh keeps any certs/client.pem it finds (18): an interrupted write or the
  authority's error page is never replaced. After a gen_cert.py that ended before
  its request it starts the app without a certificate (24-31).
- A restarted authority has a new root (startup.sh:4); an enclave keeps its
  certificate of the old one, and every peer with the new root turns it away.
- A client whose lines fit into fewer reads than it has lines waits for ever,
  and the app with it, which serves one client at a time (code/main.py:370); so
  does one that connects and sends nothing (368). A handshake that fails, a
  reset, or a first line that is no number ends the process for everyone
  (`AcceptFails`).
- A process_data without arguments is refused like one with a wrong argument
  (10, analyzer.py:154-160: its only argument is ""). A program without any def
  of process_data conforms, and ends in an IndexError in modeling_app (292),
  answered with 500. So is a schema server that cannot be reached (245).
- A blank line between an Output comment and its def makes the analysis forget
  the comment (policy.py:38), and a key with an underscore above another key
  makes a return path that no schema has, so that what flows from it is not
  reported (analyzer.py:318): the two cases DisclosedOnlyAsAllowed leaves out.
- registry-client.py's interactive table names ProposeFunc, GetProgramInfo and
  others that no chaincode has; api_registry reads "Functions" of a
  specification whose JSON name is CalledFunctions.

## Proofs

For every value of the constants that the named assumptions allow: any sets of
data, clients, peers, programs, policies and token lists, any number of threads,
calls, crashes and restarts.

| module | theorem | states |
|---|---|---|
| GrantLifecycleProofs | TypeCorrect, CounterIsWithin, PlacesAreWithin, TimesAreWithin | TypeOK, CounterWithinPolicy, HeldWherePolicyAllows, HeldWhilePolicyAllows |
| ConsumerAppProofs | TypeCorrect, UsesAreBounded, FilesAreAccounts, TornFilesComeFromCrashes | TypeOK, BoundedUses, FilesAccountForUses, TornOnlyByCrash |
| | SessionsImplementPurses | ImplementsUsageControl (refinement) |
| | ConditionAlwaysMet | the check of a condition returns (True, 0) whatever the condition, the time and the place |
| RetriedCallProofs | TypeCorrect, ChargedOncePerReset, CompletionIsStored, FittingCallsAreWhole | TypeOK, OncePerReset, CompletedIsStored, WholeCall |
| ProviderProofs | TypeCorrect, RowsAreAllowed, TokensAreForRows | TypeOK, RowsWereAllowed, TokensMatchRows |
| | LostStaysLost | LostGrantsStayLost (action property) |
| | ApplicationsAreSerial | ImplementsUsageGrants (refinement) |
| LibraryGovernanceProofs | TypeCorrect, AcceptedIsUnanimous, BallotsDoNotCarryOver, AcknowledgedStand | TypeOK, UnanimousUnlessAllRestarted, BallotsOfThisSuggestion, AcknowledgedVotesStand |
| | RejectedStay | RejectedIsFinal (action property) |
| | VotesAreSerial | ImplementsVoteLedger (refinement) |
| ProgramRegistryProofs | TypeCorrect, SpecsDescribe, AnswersAreForCalls, LibrariesAgree | TypeOK, SpecDescribesItsProgram, RegisteredAsCalled, ServersAgree |
| SourceAnalyzerProofs | AnalyzerTypeCorrect, ComparisonFindsTheTemplate, NothingWithheldIsDisclosed, AllowedProgramsAreAccepted | TypeOK, FormatIsTheTemplates, DisclosedOnlyAsAllowed, AllowedIsAccepted |
| | RejectionsAreFinal | RejectedLineIsWrong (action property) |
| CertIssuanceProofs | TypeCorrect, ServedAloneIsCertified, RejectedWithReason | TypeOK, UndisturbedIsCertified, RejectedForAReason |

Assumed are only the named assumptions of the modules, which TLC evaluates in
each run. None, NoneText, Nobody, Nothing, NoFunction and the like are values
of their own (`NoneAssumption`, `NobodyAssumption`, `NothingAssumption` and
their kin); bounds are natural numbers; Owner is a client, Grant, TokenLists,
Calls, Libraries and Requests are well-typed, and there is a request
(`RequestAssumption`, which Init takes one from); the lines of a token file end
one after the other (`CallAssumption`); policies and declarations hold integers
or nothing, as the two tables and DataUsageDeclaration do (`TermsAssumption`,
`PolicyAssumption`); a day has at least one tick (`TicksPerDayAssumption`); the
server is no enclave, and its name is one (`AskerAssumption`). In SourceAnalyzer,
process_data's places lie in the template (`TemplateAssumption`); a program
takes from arguments that have a position with a text, and its arguments' names
are sequences of parts (`ProgramAssumption`); a library is a sequence of lines
(`LibAssumption`); an attribute is a nonempty sequence of nonempty keys
(`SchemaAssumption`).

The arguments, each an invariant that is inductive where the property is not:

**Merges.** What a row that is saved has of its policy and its declaration,
through all four merges and the INSERT: `SavedRowWithin` for a grant, which looks
at the counter, the places and the times, and `SavedTermsWithin` for the rows of
Provider.

**GrantLifecycle** (`Grants`). The properties speak of the condition in the
enclave, two steps after the merge. `RowIsMerge` keeps what the row was made of
and `ConditionIsProvided` what the condition was; both are forgotten by the
properties.

**ConsumerApp** (`Accounts`). BoundedUses is not inductive: after a use the file
is behind by one until the write-back, and two tokens may name one file.
`Accounts` therefore keeps a balance for each place a copy can be. An entry in
memory is never behind: uses are at most the granted counter, less the entry's,
plus the lost ones (`EntriesAccount`). A file may be behind by one loan, the use
that is in memory and not yet saved (`FilesAccount`, `Loan`); a crash turns the
loan into a loss. `ArgumentsHaveEntries` says that what is processed has an
entry, so that the decrement covers every use. `Charged` bounds how low a
counter in memory may be. For the refinement, `InitPurse` maps the initial state
and `NextPurse` each action: `ProcessUses` needs the accounts (an entry's
counter shows that its purse is not empty), `AcquireFills` and `CrashUndoes` are
the other two that change a purse, and `SettlingStep` covers the rest.

**RetriedCall** (`Charges`, `Debts`, `Reads`). That a call is charged once holds
because whoever is about to call, or is being read, has not been charged since
its last reset: a client only comes back by a reset, since an empty read ends
its call. A debt in memory belongs to the client that is served and to entries
still to be stored. `Reads` is the loop invariant of the reads: until the wire
is empty every one was full.

**Provider** (`Issued`, `Grounds`, `Decided`). TokensMatchRows needs that the
row of a token is in the table (`TokensHaveRows`) from the insert on
(`InsertedFirst`), and that its key is no other row's (`KeysAreUnique`),
whatever the other threads insert. RowsWereAllowed needs the grounds of a
decision carried from the first registry to the insert, while ledgers and
policies change: every registry asked so far once held the specification, and
the policy that was read was one. The refinement takes the insert for the
decision (`InsertGrants`), although policy and specification were read before it
and may be gone: `InsertIsDecided` keeps what was read and that the terms are
its merge. `OneSigner`: no two threads sign for one key, so that a token given
out is no longer due (`IssueGivesOut`). LostGrantsStayLost follows from the
refinement: only a grant makes a token due, and a grant is of an app and data
that have none (`GrantsLeaveLost`).

**LibraryGovernance** (`Votes`). The votes in flight make it hard.
`VoteIsCurrent`: a vote whose version of the function is still the ledger's was
executed on what the ledger holds, so that committing it counts on every vote
before; a vote on an older version cannot be committed. `SuggestionStarts` and
`RegistrationListed`: once a peer that kept its list has endorsed a suggestion,
everyone registered before is an elector; `FunctionStands` keeps that for the
function. The refinement maps a commit to the step of VoteLedger it makes.

**ProgramRegistry** (`Due`, `Undisturbed`). Library versions only grow along the
files they are copied through (`InOrder`), also when executions race for them;
`DueLib` says that an execution that is past a copy finds no older library than
its call is due. An undisturbed execution runs alone and without a fault, and
what it finds in a shared file it has written (`Alone`); its registry's servers
have the same library (`LibsAgree`), because an update that was disturbed, or
stopped between the two, leaves the registry in `apart`. A refusal makes a key
that measures nothing, of which the properties claim nothing but that the
specification under it is of the program. Since every registry must endorse the
same, one of them is enough.

**SourceAnalyzer** (`Read`, `Analyzed`). The comparison remembers two numbers,
the lines read and the template's line. `Read` says what they stand for: before
process_data the lines are the template's (`Prefix`), inside it no header was
bad and there was no return (`Body`), after it the template's line follows the
last one read at a fixed distance from the return (`Suffix`, `AtLine`). Both
FormatIsTheTemplates and RejectedLineIsWrong then compare `Read` with
`Conforms`, which looks for the return itself. `Analyzed` keeps what the names
are made of: the arguments are those of a header that passed, the sources all of
their attributes (`SourcesKnown`), the outputs all of the sources that pysa
reports (`OutputsReported`). The rest is about names. `NameOfPath` takes a taint
name apart as analyzer.py:126-129 does and finds the type, the number and the
joined keys; `SplitAgain` says when the return path is the path (`PlainPath`),
and `PassesAsDocumented` when the library's comments are read as they are
written. What FlattenSeq, a fold, returns is an induction over data; the lemmas
about it (`FlattenIsJoin`, `JoinOfKeys`) take the least sequence length that
fails (`LeastOf`, from the library's well-foundedness of <), which needs no
theorem with an operator parameter. AllowedIsAccepted was first stated of the
attributes that some schema has, and is not true then for every constant: an
access to a path that no schema has is reported when its return path is another
attribute's. It now speaks of everything the program takes.

**CertIssuance** (`Certified`, `RootsPast`). `Serves` says what the authority's
thread has done for an asker it serves alone, at each of its steps: the shared
file it has written is that asker's. `Holds` carries that to the asker's own
file, over its restarts. `RootsPast`: no certificate or trust is of a root yet
to come. Subjects are compared as the authority's policy leaves them (`InPolicy`,
`CertificateOf`).

Only model-checked, and why: liveness (`SessionsEnd`, `CallsEnd`,
`EveryApplicationAnswered`, `ServerComesToRun`), since fairness and ENABLED are
outside the prover. Every invariant, action property and refinement that a
passing run checks has a theorem.

## Plan

Done: all the modules above, the three refinements, and the proofs listed. What
is left: RetriedCall composed with ConsumerApp's sessions instead of its own
summary of a session, which would relate a client's repetition to the files of
ConsumerApp in one model.

## Not modelled

Process bodies and libraries (pure computation); pysa and code2flow (external
tools, represented by what flows and what is called); cryptography and the
encodings of requests, quotes and certificates (a key, a name and a report are
values; a signature that verifies is one over the same values);
proverif/main.pv (itself a model); the pseudo time, location and attestation
services (stand-ins for external ones); the data type server (static files); the
baseline benchmark without SGX (one run without state); demo scripts and plots.

Left out of the modelled parts: the answer of 400 of `apply` when a policy row
lists a field without a dot (provider main.py:301-305; the break at 293-294 is
at the empty Output) and the 500 for an expiration date that strptime does not
parse (373-374), which refuse like the others before anything is saved; which
trace of a source pysa lists first (analyzer.py:124-130 reads only that one, and
a KeyError there keeps the Output made so far): `Reach` is external and stands
for what pysa finds.
