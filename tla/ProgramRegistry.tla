--------------------------- MODULE ProgramRegistry ---------------------------
(***************************************************************************)
(* Registering a data processing program.  Every registry executes the     *)
(* same two transactions: UpdateLib of chaincode2 installs the accepted    *)
(* library functions on its build server and then on its analyzer, and     *)
(* RegisterProgram of chaincode1 has the build server measure the program  *)
(* and the analyzer derive its processing specification.  Transactions     *)
(* that a registry executes at the same time share its files: the two      *)
(* files in /tmp of the chaincode containers, the build server's upload    *)
(* and library, the analyzer's library.                                    *)
(*                                                                         *)
(* MRENCLAVE is an injective function of the program compiled into the     *)
(* interpreter and of the library, and is written as that pair; so is a    *)
(* specification, as the program and the library it was derived from.      *)
(* Chaincode1 takes whatever the build server answers for the MRENCLAVE,   *)
(* the text of a refusal as well.  Fabric's endorsement is external.       *)
(***************************************************************************)
EXTENDS Integers, FiniteSets

CONSTANTS
    Peers,      \* registries, each with its containers
    Slots,      \* calls that may be in flight at once
    Programs,   \* data processing programs
    Leaky,      \* [program, lib] pairs in which the analyzer finds a leak
    Refusals,   \* the texts with which the build server refuses an upload
    Nothing,    \* a file not yet written, a slot without a call, no value
    MaxLib,     \* bound of the versions of the accepted library
    MaxCalls,   \* bound of the number of calls
    MaxFaults   \* bound of the steps that fail unnoticed

Libraries == 0..MaxLib
Analyses == [program : Programs, lib : Libraries]
\* The interpreter of the image, before any build, has no program in it.
Builds == [program : Programs \cup {Nothing}, lib : Libraries]
Keys == Builds \cup Refusals
Requests == [program : Programs, stage : {"update", "register", "over"}, due : Libraries]

ASSUME NothingAssumption ==
    Nothing \notin Programs \cup Keys \cup Analyses \cup Requests
ASSUME RefusalAssumption == Refusals \cap Builds = {}
ASSUME RegistryBounds ==
    MaxLib \in Nat /\ MaxCalls \in Nat /\ MaxFaults \in Nat /\ Leaky \subseteq Analyses

VARIABLES
    lib,         \* version of the library the votes have accepted
    files,       \* the shared files of each registry
    call,        \* calls in flight
    calls,       \* number of calls so far
    exec,        \* how far each registry is with each call
    specs,       \* chaincode1's world state: specification by MRENCLAVE
    faults,      \* number of steps that failed unnoticed so far
    \* history
    disturbed,   \* <<call, registry>>: executions that another one, or a fault, came across
    apart,       \* registries whose last update did not run undisturbed to its end
    suspect,     \* keys last recorded by a call that was disturbed at every registry
    registered   \* calls answered with success, undisturbed at some registry

history == <<disturbed, apart, suspect, registered>>
vars == <<lib, files, call, calls, exec, specs, faults, history>>

Idle == [at |-> "idle", key |-> Nothing, spec |-> Nothing]

Init ==
    /\ lib = 0
    /\ files = [p \in Peers |->
                  [tmpLib |-> 0, tmpProgram |-> Nothing, upload |-> Nothing,
                   interpreter |-> Nothing, plib |-> 0, analyzerLib |-> 0]]
    /\ call = [s \in Slots |-> Nothing] /\ calls = 0
    /\ exec = [s \in Slots |-> [p \in Peers |-> Idle]]
    /\ specs = [k \in Keys |-> Nothing] /\ faults = 0
    /\ disturbed = {} /\ apart = {} /\ suspect = {} /\ registered = {}
-----------------------------------------------------------------------------
\* Positions from which an execution still uses the shared files.
Midway == {"gramine", "analyzer", "upload", "build", "verify"}

MidwayAt(s, p) == exec[s][p].at \in Midway

Overlapping(s, p) == \E o \in Slots \ {s} : MidwayAt(o, p)

\* Execution of s at p goes from one position to another, writing one file.
Go(s, p, from, to) ==
    /\ exec[s][p].at = from
    /\ exec' = [exec EXCEPT ![s][p].at = to]

Write(p, file, value) == files' = [files EXCEPT ![p][file] = value]

\* The first step of a transaction at a registry: if that is busy with another,
\* both are disturbed; a registration also by servers that may differ.
Crossing(s, p) ==
    IF Overlapping(s, p) THEN {o \in Slots : o = s \/ MidwayAt(o, p)} \X {p} ELSE {}

Entering(s, p, unsafe) ==
    disturbed' = disturbed \cup Crossing(s, p) \cup (IF p \in unsafe THEN {<<s, p>>} ELSE {})

\* A step that does not do what it should, without anyone being told.
Unnoticed(s, p) ==
    /\ faults < MaxFaults /\ faults' = faults + 1
    /\ disturbed' = disturbed \cup {<<s, p>>}

\* The call in s is over at every registry.
Clear(s) == disturbed' = disturbed \ ({s} \X Peers)

\* A request to a registry's API installs the library before it registers; the
\* batch client may register only.
Start(s) ==
    /\ call[s] = Nothing
    /\ calls < MaxCalls /\ calls' = calls + 1
    /\ \E prog \in Programs :
         \/ /\ call' = [call EXCEPT ![s] = [program |-> prog, stage |-> "update", due |-> lib]]
            /\ exec' = [exec EXCEPT ![s] = [p \in Peers |-> [Idle EXCEPT !.at = "library"]]]
         \/ /\ call' = [call EXCEPT ![s] = [program |-> prog, stage |-> "register", due |-> 0]]
            /\ exec' = [exec EXCEPT ![s] = [p \in Peers |-> [Idle EXCEPT !.at = "program"]]]
    /\ UNCHANGED <<lib, files, specs, faults, history>>

(***************************************************************************)
(* UpdateLib at one registry.  The file is opened again for each server.   *)
(***************************************************************************)
WriteLib(s, p) ==
    /\ Go(s, p, "library", "gramine")
    /\ Write(p, "tmpLib", lib)
    /\ Entering(s, p, {})
    /\ UNCHANGED <<lib, call, calls, specs, faults, apart, suspect, registered>>

\* An error in reading the functions is answered with success.
SkipLib(s, p) ==
    /\ Go(s, p, "library", "updated")
    /\ Unnoticed(s, p)
    /\ UNCHANGED <<lib, files, call, calls, specs, apart, suspect, registered>>

UpdateGramine(s, p) ==
    /\ Go(s, p, "gramine", "analyzer")
    /\ Write(p, "plib", files[p].tmpLib)
    /\ UNCHANGED <<lib, call, calls, specs, faults, history>>

\* "Cannot open library" is answered with status 200.
GramineKeeps(s, p) ==
    /\ Go(s, p, "gramine", "analyzer")
    /\ Unnoticed(s, p)
    /\ UNCHANGED <<lib, files, call, calls, specs, apart, suspect, registered>>

\* Mutant: the analyzer, too, answers 200 when it cannot write.
UpdateAnalyzerKeeping(s, p) ==
    /\ Go(s, p, "analyzer", "updated")
    /\ apart' = IF <<s, p>> \in disturbed THEN apart \cup {p} ELSE apart \ {p}
    /\ UNCHANGED <<lib, files, call, calls, specs, faults, disturbed, suspect, registered>>

\* An update that comes undisturbed to its end makes up for the ones before.
UpdateAnalyzer(s, p) ==
    /\ Go(s, p, "analyzer", "updated")
    /\ Write(p, "analyzerLib", files[p].tmpLib)
    /\ apart' = IF <<s, p>> \in disturbed THEN apart \cup {p} ELSE apart \ {p}
    /\ UNCHANGED <<lib, call, calls, specs, faults, disturbed, suspect, registered>>

\* The API has its answer of 200, and registers the program.
Updated(s) ==
    /\ call[s] # Nothing /\ call[s].stage = "update"
    /\ \A p \in Peers : exec[s][p].at = "updated"
    /\ call' = [call EXCEPT ![s].stage = "register"]
    /\ exec' = [exec EXCEPT ![s] = [p \in Peers |-> [Idle EXCEPT !.at = "program"]]]
    /\ UNCHANGED <<lib, files, calls, specs, faults, history>>

(***************************************************************************)
(* RegisterProgram at one registry.  The program is written to a file that *)
(* is opened again for the measurement and for the analysis.               *)
(***************************************************************************)
WriteProgram(s, p) ==
    /\ Go(s, p, "program", "upload")
    /\ Write(p, "tmpProgram", call[s].program)
    /\ Entering(s, p, apart)
    /\ UNCHANGED <<lib, call, calls, specs, faults, apart, suspect, registered>>

\* Mutant: a file that is there is not overwritten.
UploadKeeping(s, p) ==
    /\ Go(s, p, "upload", "build")
    /\ Write(p, "upload", IF files[p].upload = Nothing THEN files[p].tmpProgram
                          ELSE files[p].upload)
    /\ UNCHANGED <<lib, call, calls, specs, faults, history>>

Upload(s, p) ==
    /\ Go(s, p, "upload", "build")
    /\ Write(p, "upload", files[p].tmpProgram)
    /\ UNCHANGED <<lib, call, calls, specs, faults, history>>

\* os.Create and io.Copy may fail; what is there is built.
UploadKeeps(s, p) ==
    /\ Go(s, p, "upload", "build")
    /\ Unnoticed(s, p)
    /\ UNCHANGED <<lib, files, call, calls, specs, apart, suspect, registered>>

Measured(s, p, key) ==
    exec' = [exec EXCEPT ![s][p].at = "verify", ![s][p].key = key]

\* Mutant: the library is not measured.
BuildAlone(s, p) ==
    /\ exec[s][p].at = "build"
    /\ Write(p, "interpreter", files[p].upload)
    /\ Measured(s, p, [program |-> files[p].upload])
    /\ UNCHANGED <<lib, call, calls, specs, faults, history>>

\* build.sh copies the upload, compiles its hash into the interpreter and
\* measures that together with the library.  All of it is shared: another
\* upload that comes in between has the effect of one that comes before.
Build(s, p) ==
    /\ exec[s][p].at = "build"
    /\ Write(p, "interpreter", files[p].upload)
    /\ Measured(s, p, [program |-> files[p].upload, lib |-> files[p].plib])
    /\ UNCHANGED <<lib, call, calls, specs, faults, history>>

\* When the interpreter cannot be built, build.sh measures the one that is there.
BuildKeeps(s, p) ==
    /\ exec[s][p].at = "build"
    /\ Measured(s, p, [program |-> files[p].interpreter, lib |-> files[p].plib])
    /\ Unnoticed(s, p)
    /\ UNCHANGED <<lib, files, call, calls, specs, apart, suspect, registered>>

\* The build server refuses, before it stores the upload ("Program not sent") or
\* after it (no SPID, no isLinkable, build.sh cannot be run); GetMRENCLAVE does
\* not look at the status.
Refused(s, p) ==
    /\ exec[s][p].at \in {"upload", "build"}
    /\ \E text \in Refusals : Measured(s, p, text)
    /\ UNCHANGED <<lib, files, call, calls, specs, faults, history>>

Analyzed(p) == [program |-> files[p].tmpProgram, lib |-> files[p].analyzerLib]

Verify(s, p) ==
    /\ exec[s][p].at = "verify"
    /\ Analyzed(p) \notin Leaky
    /\ exec' = [exec EXCEPT ![s][p].at = "endorsed", ![s][p].spec = Analyzed(p)]
    /\ UNCHANGED <<lib, files, call, calls, specs, faults, history>>

Failed(s, p) == exec' = [exec EXCEPT ![s][p] = [Idle EXCEPT !.at = "failed"]]

LeakFound(s, p) ==
    /\ exec[s][p].at = "verify"
    /\ Analyzed(p) \in Leaky
    /\ Failed(s, p)
    /\ UNCHANGED <<lib, files, call, calls, specs, faults, history>>

\* A server does not answer, answers an update or an analysis with an error, or
\* a build with nothing.  An update that stops here may have reached the build
\* server only.
Fail(s, p) ==
    /\ exec[s][p].at \in Midway
    /\ Failed(s, p)
    /\ apart' = IF exec[s][p].at = "analyzer" THEN apart \cup {p} ELSE apart
    /\ UNCHANGED <<lib, files, call, calls, specs, faults, disturbed, suspect, registered>>
-----------------------------------------------------------------------------
\* Mutant: one endorsement is enough.
EndorsedBy(s, key, spec) ==
    \E p \in Peers : exec[s][p].at = "endorsed" /\ exec[s][p].key = key /\ exec[s][p].spec = spec

\* Every registry has endorsed, and all with the same result.
Endorsed(s, key, spec) ==
    \A p \in Peers : exec[s][p].at = "endorsed" /\ exec[s][p].key = key /\ exec[s][p].spec = spec

\* Nothing came across the executions of s at some registry, where the servers
\* had the same library.
Vouched(s) == \E p \in Peers : <<s, p>> \notin disturbed

Commit(s) ==
    /\ call[s] # Nothing /\ call[s].stage = "register"
    /\ \E key \in Keys, spec \in Analyses :
         /\ Endorsed(s, key, spec)
         /\ specs' = [specs EXCEPT ![key] = spec]
         /\ suspect' = IF Vouched(s) THEN suspect \ {key} ELSE suspect \cup {key}
         /\ registered' = IF ~Vouched(s) THEN registered
                          ELSE registered \cup {[program |-> call[s].program, due |-> call[s].due,
                                                 key |-> key, spec |-> spec]}
    /\ call' = [call EXCEPT ![s] = Nothing]
    /\ exec' = [exec EXCEPT ![s] = [p \in Peers |-> Idle]]
    /\ Clear(s)
    /\ UNCHANGED <<lib, files, calls, faults, apart>>

\* The caller is answered with an error, or waits no longer: what the
\* registries are executing goes on to its end without being committed.
GiveUp(s) ==
    /\ call[s] # Nothing /\ call[s].stage # "over"
    /\ call' = [call EXCEPT ![s].stage = "over"]
    /\ UNCHANGED <<lib, files, calls, exec, specs, faults, history>>

Forget(s) ==
    /\ call[s] # Nothing /\ call[s].stage = "over"
    /\ \A p \in Peers : ~MidwayAt(s, p)
    /\ call' = [call EXCEPT ![s] = Nothing]
    /\ exec' = [exec EXCEPT ![s] = [p \in Peers |-> Idle]]
    /\ Clear(s)
    /\ UNCHANGED <<lib, files, calls, specs, faults, apart, suspect, registered>>

\* The votes accept another function (LibraryGovernance).
AcceptLib ==
    /\ lib < MaxLib
    /\ lib' = lib + 1
    /\ UNCHANGED <<files, call, calls, exec, specs, faults, history>>

\* RevokeProcessingSpec: Fabric's validation makes its reading and deleting one step.
Revoke(k) ==
    /\ specs[k] # Nothing
    /\ specs' = [specs EXCEPT ![k] = Nothing]
    /\ UNCHANGED <<lib, files, call, calls, exec, faults, history>>

ExecStep(s, p) ==
    \/ WriteLib(s, p) \/ SkipLib(s, p)
    \/ UpdateGramine(s, p) \/ GramineKeeps(s, p) \/ UpdateAnalyzer(s, p)
    \/ WriteProgram(s, p) \/ Upload(s, p) \/ UploadKeeps(s, p)
    \/ Build(s, p) \/ BuildKeeps(s, p) \/ Refused(s, p)
    \/ Verify(s, p) \/ LeakFound(s, p) \/ Fail(s, p)

Next ==
    \/ \E s \in Slots : Start(s) \/ Updated(s) \/ Commit(s) \/ GiveUp(s) \/ Forget(s)
    \/ \E s \in Slots, p \in Peers : ExecStep(s, p)
    \/ AcceptLib
    \/ \E k \in Keys : Revoke(k)

Spec == Init /\ [][Next]_vars
-----------------------------------------------------------------------------
Positions == Midway \cup {"idle", "library", "updated", "program", "endorsed", "failed"}

Executions == [at : Positions, key : Keys \cup {Nothing}, spec : Analyses \cup {Nothing}]

Files == [tmpLib : Libraries, tmpProgram : Programs \cup {Nothing},
          upload : Programs \cup {Nothing}, interpreter : Programs \cup {Nothing},
          plib : Libraries, analyzerLib : Libraries]

TypeOK ==
    /\ lib \in Libraries
    /\ files \in [Peers -> Files]
    /\ call \in [Slots -> Requests \cup {Nothing}]
    /\ exec \in [Slots -> [Peers -> Executions]]
    /\ specs \in [Keys -> Analyses \cup {Nothing}]
    /\ calls \in 0..MaxCalls /\ faults \in 0..MaxFaults
    /\ disturbed \subseteq Slots \X Peers /\ apart \subseteq Peers /\ suspect \subseteq Keys
    /\ registered \subseteq [program : Programs, due : Libraries, key : Keys, spec : Analyses]

\* A specification recorded under a measurement was derived from the very program
\* and library that were measured, if the call that recorded it last ran at one
\* registry without another coming across it and without a fault, or on an
\* installation that did: what races and faults do at the other registries is
\* not endorsed (lines 41-88 of chaincode1, with every registry's endorsement).
\* A registration made again so repairs what an earlier one recorded.
SpecDescribesItsProgram ==
    \A k \in Builds \ suspect : specs[k] \in {k, Nothing}

\* Such a registration is of the program it was called with, and of a library no
\* older than the one accepted when it was called; its key measures them both, or
\* is the text of a refusal.
RegisteredAsCalled ==
    \A r \in registered :
        /\ r.spec.program = r.program
        /\ r.key \in Builds => r.key = r.spec /\ r.due <= r.key.lib

\* A registry's build server and analyzer have the same library from the end of an
\* undisturbed update until the next one reaches the build server, whatever
\* skipped writes, overlaps and half-done updates came before.
ServersAgree ==
    \A p \in Peers \ apart :
        (\A s \in Slots : exec[s][p].at # "analyzer") => files[p].plib = files[p].analyzerLib

(***************************************************************************)
(* What the code says and the program does not do.                         *)
(***************************************************************************)

\* "RegisterProgram issues a new program info to the world state with given
\* details" (chaincode1 line 40): also when two programs are registered at once.
GivenDetails == \A k \in Builds : specs[k] \in {k, Nothing}

=============================================================================
