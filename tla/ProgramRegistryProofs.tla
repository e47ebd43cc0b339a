----------------------- MODULE ProgramRegistryProofs -----------------------
(***************************************************************************)
(* Proofs about ProgramRegistry, for any number of registries, calls in    *)
(* flight, programs, versions of the library and faults.                   *)
(***************************************************************************)
EXTENDS ProgramRegistry, TLAPS

-----------------------------------------------------------------------------
(* Steps of a transaction.                                                 *)

\* What an execution needs to be there: the call it is of, the file it has
\* written, the measurement it has made.
Founded(s, p) ==
    LET e == exec[s][p]
    IN  /\ e.at # "idle" => call[s] # Nothing
        /\ e.at \in {"upload", "build", "verify"} => files[p].tmpProgram # Nothing
        /\ e.at \in {"verify", "endorsed"} => e.key # Nothing

Typed == TypeOK /\ \A s \in Slots, p \in Peers : Founded(s, p)

\* From execution d and files g of registry p to e and f: the steps of the two
\* transactions, one line each; those that enter the files, those that do what
\* they should, those that do not and are not noticed, and the failures.
Enters(s, p, d, g, e, f) ==
    /\ apart' = apart
    /\ \/ /\ d.at = "library" /\ e = [d EXCEPT !.at = "gramine"]
          /\ f = [g EXCEPT !.tmpLib = lib] /\ Entering(s, p, {})
       \/ /\ d.at = "program" /\ e = [d EXCEPT !.at = "upload"]
          /\ f = [g EXCEPT !.tmpProgram = call[s].program] /\ Entering(s, p, apart)

Proceeds(d, g, e, f) ==
    /\ disturbed' = disturbed /\ apart' = apart
    /\ \/ d.at = "gramine" /\ e = [d EXCEPT !.at = "analyzer"] /\ f = [g EXCEPT !.plib = g.tmpLib]
       \/ d.at = "upload" /\ e = [d EXCEPT !.at = "build"] /\ f = [g EXCEPT !.upload = g.tmpProgram]
       \/ /\ d.at = "build" /\ f = [g EXCEPT !.interpreter = g.upload]
          /\ e = [d EXCEPT !.at = "verify", !.key = [program |-> g.upload, lib |-> g.plib]]
       \/ /\ d.at \in {"upload", "build"} /\ f = g
          /\ \E text \in Refusals : e = [d EXCEPT !.at = "verify", !.key = text]
       \/ /\ d.at = "verify" /\ f = g
          /\ e = [d EXCEPT !.at = "endorsed",
                           !.spec = [program |-> g.tmpProgram, lib |-> g.analyzerLib]]

EndsUpdate(s, p, d, g, e, f) ==
    /\ d.at = "analyzer" /\ e = [d EXCEPT !.at = "updated"]
    /\ f = [g EXCEPT !.analyzerLib = g.tmpLib]
    /\ disturbed' = disturbed
    /\ apart' = IF <<s, p>> \in disturbed THEN apart \cup {p} ELSE apart \ {p}

Slips(s, p, d, g, e, f) ==
    /\ disturbed' = disturbed \cup {<<s, p>>} /\ apart' = apart /\ f = g
    /\ \/ d.at = "library" /\ e = [d EXCEPT !.at = "updated"]
       \/ d.at = "gramine" /\ e = [d EXCEPT !.at = "analyzer"]
       \/ d.at = "upload" /\ e = [d EXCEPT !.at = "build"]
       \/ /\ d.at = "build"
          /\ e = [d EXCEPT !.at = "verify", !.key = [program |-> g.interpreter, lib |-> g.plib]]

Stops(p, d, g, e, f) ==
    /\ d.at \in Midway /\ e = [Idle EXCEPT !.at = "failed"] /\ f = g
    /\ disturbed' = disturbed
    /\ apart' \in {apart, apart \cup {p}} /\ (d.at = "analyzer" => p \in apart')

Moves(s, p, d, g, e, f) ==
    \/ Enters(s, p, d, g, e, f)
    \/ Proceeds(d, g, e, f)
    \/ EndsUpdate(s, p, d, g, e, f)
    \/ Slips(s, p, d, g, e, f)
    \/ Stops(p, d, g, e, f)

Step(s, p, d, g, e, f) ==
    /\ d = exec[s][p] /\ g = files[p]
    /\ exec' = [exec EXCEPT ![s] = [@ EXCEPT ![p] = e]]
    /\ files' = [files EXCEPT ![p] = f]
    /\ UNCHANGED <<lib, call, calls, specs, suspect, registered>>
    /\ faults' \in 0..MaxFaults
    /\ Moves(s, p, d, g, e, f)

\* A step of a transaction at one registry moves one execution and writes at
\* most one of that registry's files.
LEMMA StepIs ==
    ASSUME Typed, NEW s \in Slots, NEW p \in Peers, ExecStep(s, p)
    PROVE  \E d \in Executions, e \in Executions, g \in Files, f \in Files :
             Step(s, p, d, g, e, f)
  <1>1. PICK d \in Executions, g \in Files : d = exec[s][p] /\ g = files[p]
    BY DEF Typed, TypeOK
  <1>2. /\ lib \in Libraries
        /\ \A q \in Positions : [d EXCEPT !.at = q] \in Executions
        /\ files = [files EXCEPT ![p] = g]
    BY <1>1 DEF Typed, TypeOK, Executions
  <1>a. faults \in 0..MaxFaults /\ (faults < MaxFaults => faults + 1 \in 0..MaxFaults)
    BY RegistryBounds DEF Typed, TypeOK
  <1>3. /\ call[s] # Nothing => call[s].program \in Programs
        /\ d.at # "idle" => call[s] # Nothing
        /\ d.at \in {"upload", "build", "verify"} => g.tmpProgram \in Programs
    BY <1>1 DEF Typed, TypeOK, Requests, Founded, Files
  <1>4. {"idle", "library", "gramine", "analyzer", "updated", "program", "upload", "build",
         "verify", "endorsed", "failed"} \subseteq Positions
    BY DEF Positions, Midway
  <1>5. CASE WriteLib(s, p)
    <2>1. PICK e, f : /\ e = [d EXCEPT !.at = "gramine"]
                      /\ f = [g EXCEPT !.tmpLib = lib]
      OBVIOUS
    <2>2. /\ exec' = [exec EXCEPT ![s] = [@ EXCEPT ![p] = e]]
          /\ files' = [files EXCEPT ![p] = f]
      BY <1>1, <1>2, <1>5, <2>1 DEF WriteLib, Go, Write
    <2>3. e \in Executions /\ f \in Files
      BY <1>1, <1>2, <1>3, <1>4, <1>5, <2>1 DEF WriteLib, Go, Write, Executions, Files, Keys, Builds, Analyses
    <2>4. Enters(s, p, d, g, e, f)
      BY <1>1, <1>5, <2>1 DEF Enters, Midway, WriteLib, Go, Write
    <2>5. UNCHANGED <<lib, call, calls, specs, suspect, registered>> /\ faults' \in 0..MaxFaults
      BY <1>a, <1>5 DEF WriteLib, history
    <2> QED
      BY <1>1, <2>2, <2>3, <2>4, <2>5 DEF Step, Moves
  <1>6. CASE SkipLib(s, p)
    <2>1. PICK e, f : /\ e = [d EXCEPT !.at = "updated"]
                      /\ f = g
      OBVIOUS
    <2>2. /\ exec' = [exec EXCEPT ![s] = [@ EXCEPT ![p] = e]]
          /\ files' = [files EXCEPT ![p] = f]
      BY <1>1, <1>2, <1>6, <2>1 DEF SkipLib, Go, Unnoticed
    <2>3. e \in Executions /\ f \in Files
      BY <1>1, <1>2, <1>3, <1>4, <1>6, <2>1 DEF SkipLib, Go, Unnoticed, Executions, Files, Keys, Builds, Analyses
    <2>4. Slips(s, p, d, g, e, f)
      BY <1>1, <1>6, <2>1 DEF Slips, Midway, SkipLib, Go, Unnoticed
    <2>5. UNCHANGED <<lib, call, calls, specs, suspect, registered>> /\ faults' \in 0..MaxFaults
      BY <1>a, <1>6 DEF SkipLib, history, Unnoticed
    <2> QED
      BY <1>1, <2>2, <2>3, <2>4, <2>5 DEF Step, Moves
  <1>7. CASE UpdateGramine(s, p)
    <2>1. PICK e, f : /\ e = [d EXCEPT !.at = "analyzer"]
                      /\ f = [g EXCEPT !.plib = g.tmpLib]
      OBVIOUS
    <2>2. /\ exec' = [exec EXCEPT ![s] = [@ EXCEPT ![p] = e]]
          /\ files' = [files EXCEPT ![p] = f]
      BY <1>1, <1>2, <1>7, <2>1 DEF UpdateGramine, Go, Write
    <2>3. e \in Executions /\ f \in Files
      BY <1>1, <1>2, <1>3, <1>4, <1>7, <2>1 DEF UpdateGramine, Go, Write, Executions, Files, Keys, Builds, Analyses
    <2>4. Proceeds(d, g, e, f)
      BY <1>1, <1>7, <2>1 DEF Proceeds, Midway, UpdateGramine, Go, Write, history
    <2>5. UNCHANGED <<lib, call, calls, specs, suspect, registered>> /\ faults' \in 0..MaxFaults
      BY <1>a, <1>7 DEF UpdateGramine, history
    <2> QED
      BY <1>1, <2>2, <2>3, <2>4, <2>5 DEF Step, Moves
  <1>8. CASE GramineKeeps(s, p)
    <2>1. PICK e, f : /\ e = [d EXCEPT !.at = "analyzer"]
                      /\ f = g
      OBVIOUS
    <2>2. /\ exec' = [exec EXCEPT ![s] = [@ EXCEPT ![p] = e]]
          /\ files' = [files EXCEPT ![p] = f]
      BY <1>1, <1>2, <1>8, <2>1 DEF GramineKeeps, Go, Unnoticed
    <2>3. e \in Executions /\ f \in Files
      BY <1>1, <1>2, <1>3, <1>4, <1>8, <2>1 DEF GramineKeeps, Go, Unnoticed, Executions, Files, Keys, Builds, Analyses
    <2>4. Slips(s, p, d, g, e, f)
      BY <1>1, <1>8, <2>1 DEF Slips, Midway, GramineKeeps, Go, Unnoticed
    <2>5. UNCHANGED <<lib, call, calls, specs, suspect, registered>> /\ faults' \in 0..MaxFaults
      BY <1>a, <1>8 DEF GramineKeeps, history, Unnoticed
    <2> QED
      BY <1>1, <2>2, <2>3, <2>4, <2>5 DEF Step, Moves
  <1>9. CASE UpdateAnalyzer(s, p)
    <2>1. PICK e, f : /\ e = [d EXCEPT !.at = "updated"]
                      /\ f = [g EXCEPT !.analyzerLib = g.tmpLib]
      OBVIOUS
    <2>2. /\ exec' = [exec EXCEPT ![s] = [@ EXCEPT ![p] = e]]
          /\ files' = [files EXCEPT ![p] = f]
      BY <1>1, <1>2, <1>9, <2>1 DEF UpdateAnalyzer, Go, Write
    <2>3. e \in Executions /\ f \in Files
      BY <1>1, <1>2, <1>3, <1>4, <1>9, <2>1 DEF UpdateAnalyzer, Go, Write, Executions, Files, Keys, Builds, Analyses
    <2>4. EndsUpdate(s, p, d, g, e, f)
      BY <1>1, <1>9, <2>1 DEF EndsUpdate, Midway, UpdateAnalyzer, Go, Write
    <2>5. UNCHANGED <<lib, call, calls, specs, suspect, registered>> /\ faults' \in 0..MaxFaults
      BY <1>a, <1>9 DEF UpdateAnalyzer, history
    <2> QED
      BY <1>1, <2>2, <2>3, <2>4, <2>5 DEF Step, Moves
  <1>10. CASE WriteProgram(s, p)
    <2>1. PICK e, f : /\ e = [d EXCEPT !.at = "upload"]
                      /\ f = [g EXCEPT !.tmpProgram = call[s].program]
      OBVIOUS
    <2>2. /\ exec' = [exec EXCEPT ![s] = [@ EXCEPT ![p] = e]]
          /\ files' = [files EXCEPT ![p] = f]
      BY <1>1, <1>2, <1>10, <2>1 DEF WriteProgram, Go, Write
    <2>3. e \in Executions /\ f \in Files
      BY <1>1, <1>2, <1>3, <1>4, <1>10, <2>1 DEF WriteProgram, Go, Write, Executions, Files, Keys, Builds, Analyses
    <2>4. Enters(s, p, d, g, e, f)
      BY <1>1, <1>10, <2>1 DEF Enters, Midway, WriteProgram, Go, Write
    <2>5. UNCHANGED <<lib, call, calls, specs, suspect, registered>> /\ faults' \in 0..MaxFaults
      BY <1>a, <1>10 DEF WriteProgram, history
    <2> QED
      BY <1>1, <2>2, <2>3, <2>4, <2>5 DEF Step, Moves
  <1>11. CASE Upload(s, p)
    <2>1. PICK e, f : /\ e = [d EXCEPT !.at = "build"]
                      /\ f = [g EXCEPT !.upload = g.tmpProgram]
      OBVIOUS
    <2>2. /\ exec' = [exec EXCEPT ![s] = [@ EXCEPT ![p] = e]]
          /\ files' = [files EXCEPT ![p] = f]
      BY <1>1, <1>2, <1>11, <2>1 DEF Upload, Go, Write
    <2>3. e \in Executions /\ f \in Files
      BY <1>1, <1>2, <1>3, <1>4, <1>11, <2>1 DEF Upload, Go, Write, Executions, Files, Keys, Builds, Analyses
    <2>4. Proceeds(d, g, e, f)
      BY <1>1, <1>11, <2>1 DEF Proceeds, Midway, Upload, Go, Write, history
    <2>5. UNCHANGED <<lib, call, calls, specs, suspect, registered>> /\ faults' \in 0..MaxFaults
      BY <1>a, <1>11 DEF Upload, history
    <2> QED
      BY <1>1, <2>2, <2>3, <2>4, <2>5 DEF Step, Moves
  <1>12. CASE UploadKeeps(s, p)
    <2>1. PICK e, f : /\ e = [d EXCEPT !.at = "build"]
                      /\ f = g
      OBVIOUS
    <2>2. /\ exec' = [exec EXCEPT ![s] = [@ EXCEPT ![p] = e]]
          /\ files' = [files EXCEPT ![p] = f]
      BY <1>1, <1>2, <1>12, <2>1 DEF UploadKeeps, Go, Unnoticed
    <2>3. e \in Executions /\ f \in Files
      BY <1>1, <1>2, <1>3, <1>4, <1>12, <2>1 DEF UploadKeeps, Go, Unnoticed, Executions, Files, Keys, Builds, Analyses
    <2>4. Slips(s, p, d, g, e, f)
      BY <1>1, <1>12, <2>1 DEF Slips, Midway, UploadKeeps, Go, Unnoticed
    <2>5. UNCHANGED <<lib, call, calls, specs, suspect, registered>> /\ faults' \in 0..MaxFaults
      BY <1>a, <1>12 DEF UploadKeeps, history, Unnoticed
    <2> QED
      BY <1>1, <2>2, <2>3, <2>4, <2>5 DEF Step, Moves
  <1>13. CASE Build(s, p)
    <2>1. PICK e, f : /\ e = [d EXCEPT !.at = "verify", !.key = [program |-> g.upload, lib |-> g.plib]]
                      /\ f = [g EXCEPT !.interpreter = g.upload]
      OBVIOUS
    <2>a. exec' = [exec EXCEPT ![s] = [@ EXCEPT ![p] = e]]
      BY ZenonT(40), <1>1, <1>13, <2>1 DEF Build, Measured, Typed, TypeOK
    <2>b. files' = [files EXCEPT ![p] = f]
      BY <1>1, <1>13, <2>1 DEF Build, Write
    <2>2. /\ exec' = [exec EXCEPT ![s] = [@ EXCEPT ![p] = e]]
          /\ files' = [files EXCEPT ![p] = f]
      BY <2>a, <2>b
    <2>3. e \in Executions /\ f \in Files
      BY <1>1, <1>2, <1>3, <1>4, <1>13, <2>1 DEF Build, Measured, Write, Executions, Files, Keys, Builds, Analyses
    <2>4. Proceeds(d, g, e, f)
      BY <1>1, <1>13, <2>1 DEF Proceeds, Midway, Build, Measured, Write, history
    <2>5. UNCHANGED <<lib, call, calls, specs, suspect, registered>> /\ faults' \in 0..MaxFaults
      BY <1>a, <1>13 DEF Build, history
    <2> QED
      BY <1>1, <2>2, <2>3, <2>4, <2>5 DEF Step, Moves
  <1>14. CASE BuildKeeps(s, p)
    <2>1. PICK e, f : /\ e = [d EXCEPT !.at = "verify", !.key = [program |-> g.interpreter, lib |-> g.plib]]
                      /\ f = g
      OBVIOUS
    <2>2. /\ exec' = [exec EXCEPT ![s] = [@ EXCEPT ![p] = e]]
          /\ files' = [files EXCEPT ![p] = f]
      BY ZenonT(40), <1>1, <1>2, <1>14, <2>1 DEF BuildKeeps, Measured, Unnoticed, Typed, TypeOK
    <2>3. e \in Executions /\ f \in Files
      BY <1>1, <1>2, <1>3, <1>4, <1>14, <2>1 DEF BuildKeeps, Measured, Unnoticed, Executions, Files, Keys, Builds, Analyses
    <2>4. Slips(s, p, d, g, e, f)
      BY <1>1, <1>14, <2>1 DEF Slips, Midway, BuildKeeps, Measured, Unnoticed
    <2>5. UNCHANGED <<lib, call, calls, specs, suspect, registered>> /\ faults' \in 0..MaxFaults
      BY <1>a, <1>14 DEF BuildKeeps, history, Unnoticed
    <2> QED
      BY <1>1, <2>2, <2>3, <2>4, <2>5 DEF Step, Moves
  <1>15. CASE Refused(s, p)
    <2>0. PICK text \in Refusals : Measured(s, p, text)
      BY <1>15 DEF Refused
    <2>1. PICK e, f : /\ e = [d EXCEPT !.at = "verify", !.key = text]
                      /\ f = g
      OBVIOUS
    <2>a. exec' = [exec EXCEPT ![s] = [@ EXCEPT ![p] = e]]
      BY ZenonT(40), <1>1, <2>0, <2>1 DEF Measured, Typed, TypeOK
    <2>b. files' = [files EXCEPT ![p] = f]
      BY <1>1, <1>2, <1>15, <2>1 DEF Refused
    <2>2. /\ exec' = [exec EXCEPT ![s] = [@ EXCEPT ![p] = e]]
          /\ files' = [files EXCEPT ![p] = f]
      BY <2>a, <2>b
    <2>3. e \in Executions /\ f \in Files
      BY <1>1, <1>2, <1>3, <1>4, <1>15, <2>0, <2>1 DEF Refused, Measured, Executions, Files, Keys, Builds, Analyses
    <2>4. Proceeds(d, g, e, f)
      BY <1>1, <1>15, <2>0, <2>1 DEF Proceeds, Midway, Refused, Measured, history
    <2>5. UNCHANGED <<lib, call, calls, specs, suspect, registered>> /\ faults' \in 0..MaxFaults
      BY <1>a, <1>15 DEF Refused, history
    <2> QED
      BY <1>1, <2>2, <2>3, <2>4, <2>5 DEF Step, Moves
  <1>16. CASE Verify(s, p)
    <2>1. PICK e, f : /\ e = [d EXCEPT !.at = "endorsed", !.spec = Analyzed(p)]
                      /\ f = g
      OBVIOUS
    <2>2. /\ exec' = [exec EXCEPT ![s] = [@ EXCEPT ![p] = e]]
          /\ files' = [files EXCEPT ![p] = f]
      BY ZenonT(40), <1>1, <1>2, <1>16, <2>1 DEF Verify, Analyzed, Typed, TypeOK
    <2>3. e \in Executions /\ f \in Files
      BY <1>1, <1>2, <1>3, <1>4, <1>16, <2>1 DEF Verify, Analyzed, Executions, Files, Keys, Builds, Analyses
    <2>4. Proceeds(d, g, e, f)
      BY <1>1, <1>16, <2>1 DEF Proceeds, Midway, Verify, Analyzed, history
    <2>5. UNCHANGED <<lib, call, calls, specs, suspect, registered>> /\ faults' \in 0..MaxFaults
      BY <1>a, <1>16 DEF Verify, history
    <2> QED
      BY <1>1, <2>2, <2>3, <2>4, <2>5 DEF Step, Moves
  <1>17. CASE LeakFound(s, p)
    <2>1. PICK e, f : /\ e = [Idle EXCEPT !.at = "failed"]
                      /\ f = g
      OBVIOUS
    <2>2. /\ exec' = [exec EXCEPT ![s] = [@ EXCEPT ![p] = e]]
          /\ files' = [files EXCEPT ![p] = f]
      BY <1>1, <1>2, <1>17, <2>1 DEF LeakFound, Failed
    <2>3. e \in Executions /\ f \in Files
      BY <1>1, <1>2, <1>3, <1>4, <1>17, <2>1 DEF LeakFound, Failed, Executions, Files, Keys, Builds, Analyses, Idle
    <2>4. Stops(p, d, g, e, f)
      BY <1>1, <1>17, <2>1 DEF Stops, Midway, LeakFound, Failed, history
    <2>5. UNCHANGED <<lib, call, calls, specs, suspect, registered>> /\ faults' \in 0..MaxFaults
      BY <1>a, <1>17 DEF LeakFound, history
    <2> QED
      BY <1>1, <2>2, <2>3, <2>4, <2>5 DEF Step, Moves
  <1>18. CASE Fail(s, p)
    <2>1. PICK e, f : /\ e = [Idle EXCEPT !.at = "failed"]
                      /\ f = g
      OBVIOUS
    <2>2. /\ exec' = [exec EXCEPT ![s] = [@ EXCEPT ![p] = e]]
          /\ files' = [files EXCEPT ![p] = f]
      BY <1>1, <1>2, <1>18, <2>1 DEF Fail, Failed
    <2>3. e \in Executions /\ f \in Files
      BY <1>1, <1>2, <1>3, <1>4, <1>18, <2>1 DEF Fail, Failed, Executions, Files, Keys, Builds, Analyses, Idle
    <2>4. Stops(p, d, g, e, f)
      BY <1>1, <1>18, <2>1 DEF Stops, Midway, Fail, Failed, history
    <2>5. UNCHANGED <<lib, call, calls, specs, suspect, registered>> /\ faults' \in 0..MaxFaults
      BY <1>a, <1>18 DEF Fail, history
    <2> QED
      BY <1>1, <2>2, <2>3, <2>4, <2>5 DEF Step, Moves
  <1> QED
    BY <1>5, <1>6, <1>7, <1>8, <1>9, <1>10, <1>11, <1>12, <1>13, <1>14, <1>15, <1>16, <1>17, <1>18 DEF ExecStep

\* Such a step is of a call, and leaves the other executions and the other
\* registries alone.
LEMMA StepLeaves ==
    ASSUME Typed, NEW s \in Slots, NEW p \in Peers,
           NEW d \in Executions, NEW g \in Files, NEW e \in Executions, NEW f \in Files,
           Step(s, p, d, g, e, f)
    PROVE  /\ \A o \in Slots, q \in Peers :
                exec'[o][q] = IF o = s /\ q = p THEN e ELSE exec[o][q]
           /\ \A q \in Peers : files'[q] = IF q = p THEN f ELSE files[q]
           /\ d.at # "idle" /\ call[s] \in Requests
           /\ disturbed \subseteq disturbed' /\ disturbed' \subseteq disturbed \cup (Slots \X {p})
           /\ apart \ {p} \subseteq apart' /\ apart' \subseteq apart \cup {p}
  <1>1. /\ exec' = [exec EXCEPT ![s] = [@ EXCEPT ![p] = e]]
        /\ files' = [files EXCEPT ![p] = f]
        /\ Moves(s, p, d, g, e, f) /\ d = exec[s][p]
    BY DEF Step
  <1>2. d.at # "idle" /\ call[s] \in Requests
    BY <1>1 DEF Moves, Enters, Proceeds, EndsUpdate, Slips, Stops, Midway, Typed, TypeOK, Founded
  <1>3. disturbed \subseteq disturbed' /\ disturbed' \subseteq disturbed \cup (Slots \X {p})
    <2>1. Crossing(s, p) \subseteq Slots \X {p} /\ <<s, p>> \in Slots \X {p}
      BY DEF Crossing
    <2>2. CASE Enters(s, p, d, g, e, f)
      BY <2>1, <2>2 DEF Enters, Entering
    <2>3. CASE ~Enters(s, p, d, g, e, f)
      BY <1>1, <2>1, <2>3 DEF Moves, Proceeds, EndsUpdate, Slips, Stops
    <2> QED
      BY <2>2, <2>3
  <1>4. apart \ {p} \subseteq apart' /\ apart' \subseteq apart \cup {p}
    BY <1>1 DEF Moves, Enters, Proceeds, EndsUpdate, Slips, Stops
  <1>5. \A o \in Slots, q \in Peers :
          exec'[o][q] = IF o = s /\ q = p THEN e ELSE exec[o][q]
    BY <1>1 DEF Typed, TypeOK
  <1>6. \A q \in Peers : files'[q] = IF q = p THEN f ELSE files[q]
    BY <1>1 DEF Typed, TypeOK
  <1> QED
    BY <1>2, <1>3, <1>4, <1>5, <1>6

-----------------------------------------------------------------------------
(* Type correctness.                                                       *)

LEMMA InitTyped == Init => Typed
  <1> SUFFICES ASSUME Init PROVE Typed
    OBVIOUS
  <1>1. 0 \in Libraries /\ 0 \in 0..MaxCalls /\ 0 \in 0..MaxFaults
    BY RegistryBounds DEF Libraries
  <1>2. Idle \in Executions
    BY DEF Idle, Executions, Positions
  <1>3. \A p \in Peers : files[p] \in Files
    BY <1>1 DEF Init, Files
  <1> QED
    BY <1>1, <1>2, <1>3 DEF Init, Typed, TypeOK, Founded, Idle

LEMMA StepTyped ==
    ASSUME Typed, NEW s \in Slots, NEW p \in Peers, ExecStep(s, p)
    PROVE  Typed'
  <1>1. PICK d \in Executions, e \in Executions, g \in Files, f \in Files :
          Step(s, p, d, g, e, f)
    BY StepIs
  <1>2. /\ \A o \in Slots, q \in Peers :
             exec'[o][q] = IF o = s /\ q = p THEN e ELSE exec[o][q]
        /\ \A q \in Peers : files'[q] = IF q = p THEN f ELSE files[q]
        /\ d.at # "idle" /\ call[s] \in Requests
        /\ disturbed' \subseteq disturbed \cup (Slots \X {p})
        /\ apart' \subseteq apart \cup {p}
    BY <1>1, StepLeaves
  <1>3. /\ d = exec[s][p] /\ g = files[p]
        /\ exec' = [exec EXCEPT ![s] = [@ EXCEPT ![p] = e]]
        /\ files' = [files EXCEPT ![p] = f]
        /\ UNCHANGED <<lib, call, calls, specs, suspect, registered>>
        /\ faults' \in 0..MaxFaults
        /\ Moves(s, p, d, g, e, f)
    BY <1>1 DEF Step
  <1>5. TypeOK'
    <2>1. exec' \in [Slots -> [Peers -> Executions]] /\ files' \in [Peers -> Files]
      BY <1>3 DEF Typed, TypeOK
    <2>2. disturbed' \subseteq Slots \X Peers /\ apart' \subseteq Peers
      BY <1>2 DEF Typed, TypeOK
    <2> QED
      BY <1>3, <2>1, <2>2 DEF Typed, TypeOK
  <1>6. Founded(s, p)
    BY DEF Typed
  <1>a. Nothing \notin Keys /\ call[s].program # Nothing
    BY <1>2, NothingAssumption DEF Requests
  <1>7. g.tmpProgram # Nothing => f.tmpProgram # Nothing
    <2>1. CASE Enters(s, p, d, g, e, f)
      BY <1>a, <2>1 DEF Enters, Files
    <2>2. CASE ~Enters(s, p, d, g, e, f)
      BY <1>3, <2>2 DEF Moves, Proceeds, EndsUpdate, Slips, Stops, Files
    <2> QED
      BY <2>1, <2>2
  <1>9. /\ e.at \in {"upload", "build", "verify"} => f.tmpProgram # Nothing
        /\ e.at \in {"verify", "endorsed"} => e.key # Nothing
    <2>a. CASE Enters(s, p, d, g, e, f)
      BY <1>a, <2>a DEF Enters, Executions, Files
    <2>b. CASE Proceeds(d, g, e, f)
      <3>1. /\ [program |-> g.upload, lib |-> g.plib] \in Keys
            /\ Refusals \subseteq Keys
        BY DEF Files, Keys, Builds
      <3>2. e.at \in {"verify", "endorsed"} => e.key # Nothing
        <4>1. CASE d.at \in {"upload", "build"}
          BY <1>a, <2>b, <3>1, <4>1 DEF Proceeds, Executions
        <4>2. CASE d.at \notin {"upload", "build"}
          BY <1>3, <1>6, <2>b, <4>2 DEF Proceeds, Executions, Founded
        <4> QED
          BY <4>1, <4>2
      <3>3. f.tmpProgram = g.tmpProgram
        BY <2>b DEF Proceeds, Files
      <3>4. e.at \in {"upload", "build", "verify"} => d.at \in {"upload", "build"}
        BY <2>b DEF Proceeds, Executions
      <3> QED
        BY <1>3, <1>6, <3>2, <3>3, <3>4 DEF Founded
    <2>c. CASE EndsUpdate(s, p, d, g, e, f)
      BY <2>c DEF EndsUpdate, Executions
    <2>d. CASE Slips(s, p, d, g, e, f)
      <3>1. [program |-> g.interpreter, lib |-> g.plib] \in Keys
        BY DEF Files, Keys, Builds
      <3> QED
        BY <1>3, <1>6, <1>a, <2>d, <3>1 DEF Slips, Executions, Files, Founded
    <2>e. CASE Stops(p, d, g, e, f)
      BY <2>e DEF Stops, Idle
    <2> QED
      BY <1>3, <2>a, <2>b, <2>c, <2>d, <2>e DEF Moves
  <1>10. ASSUME NEW o \in Slots, NEW q \in Peers PROVE Founded(o, q)'
    <2>1. Founded(o, q)
      BY DEF Typed
    <2>2. CASE o = s /\ q = p
      BY <1>2, <1>3, <1>9, <2>2, NothingAssumption DEF Founded
    <2>3. CASE q # p
      BY <1>2, <1>3, <2>1, <2>3 DEF Founded
    <2>4. CASE q = p /\ o # s
      BY <1>2, <1>3, <1>7, <2>1, <2>4 DEF Founded
    <2> QED
      BY <2>2, <2>3, <2>4
  <1> QED
    BY <1>5, <1>10 DEF Typed

LEMMA NextTyped == Typed /\ [Next]_vars => Typed'
  <1> SUFFICES ASSUME Typed, [Next]_vars PROVE Typed'
    OBVIOUS
  <1>0. /\ {"idle", "library", "program"} \subseteq Positions
        /\ 0 \in Libraries
    BY RegistryBounds DEF Positions, Libraries
  <1>a. \A q \in Positions : [Idle EXCEPT !.at = q] \in Executions /\ [Idle EXCEPT !.at = q].at = q
    BY DEF Idle, Executions
  <1>1. ASSUME NEW s \in Slots, Start(s) PROVE Typed'
    <2>1. PICK r \in Requests, e \in Executions :
            /\ call' = [call EXCEPT ![s] = r]
            /\ exec' = [exec EXCEPT ![s] = [p \in Peers |-> e]]
            /\ e.at \in {"library", "program"}
      <3>1. lib \in Libraries
        BY DEF Typed, TypeOK
      <3>2. ASSUME NEW prog \in Programs
            PROVE  /\ [program |-> prog, stage |-> "update", due |-> lib] \in Requests
                   /\ [program |-> prog, stage |-> "register", due |-> 0] \in Requests
        BY <1>0, <3>1 DEF Requests
      <3> QED
        BY <1>0, <1>1, <1>a, <3>1, <3>2 DEF Start
    <2>2. /\ calls' \in 0..MaxCalls
          /\ UNCHANGED <<lib, files, specs, faults, disturbed, apart, suspect, registered>>
      BY <1>1, RegistryBounds DEF Start, history, Typed, TypeOK
    <2>3. TypeOK'
      BY <2>1, <2>2 DEF Typed, TypeOK
    <2> QED
      BY <2>1, <2>2, <2>3, NothingAssumption DEF Typed, TypeOK, Founded
  <1>2. ASSUME NEW s \in Slots, Updated(s) PROVE Typed'
    <2>1. PICK r \in Requests, e \in Executions :
            /\ call' = [call EXCEPT ![s] = r]
            /\ exec' = [exec EXCEPT ![s] = [p \in Peers |-> e]]
            /\ e.at = "program"
      <3>1. call[s] \in Requests
        BY <1>2 DEF Updated, Typed, TypeOK
      <3>2. [call[s] EXCEPT !.stage = "register"] \in Requests
        BY <3>1 DEF Requests
      <3>3. call' = [call EXCEPT ![s] = [call[s] EXCEPT !.stage = "register"]]
        BY <1>2 DEF Updated
      <3> QED
        BY <1>0, <1>2, <1>a, <3>2, <3>3 DEF Updated
    <2>2. UNCHANGED <<lib, files, calls, specs, faults, disturbed, apart, suspect, registered>>
      BY <1>2 DEF Updated, history
    <2>3. TypeOK'
      BY <2>1, <2>2 DEF Typed, TypeOK
    <2> QED
      BY <2>1, <2>2, <2>3, NothingAssumption DEF Typed, TypeOK, Founded
  <1>3. ASSUME NEW s \in Slots, Commit(s) PROVE Typed'
    <2>1. PICK key \in Keys, spec \in Analyses :
            /\ specs' = [specs EXCEPT ![key] = spec]
            /\ suspect' \in {suspect \ {key}, suspect \cup {key}}
            /\ registered' \in {registered, registered \cup
                 {[program |-> call[s].program, due |-> call[s].due, key |-> key, spec |-> spec]}}
      BY <1>3 DEF Commit
    <2>2. /\ UNCHANGED <<lib, files, calls, faults, apart>>
          /\ call' = [call EXCEPT ![s] = Nothing]
          /\ exec' = [exec EXCEPT ![s] = [p \in Peers |-> Idle]]
          /\ disturbed' \subseteq disturbed
          /\ call[s] \in Requests
      BY <1>3 DEF Commit, Clear, Typed, TypeOK
    <2>3. TypeOK'
      <3>1. /\ call' \in [Slots -> Requests \cup {Nothing}]
            /\ exec' \in [Slots -> [Peers -> Executions]]
        BY <1>0, <2>2 DEF Typed, TypeOK, Idle, Executions
      <3>2. specs' \in [Keys -> Analyses \cup {Nothing}] /\ suspect' \subseteq Keys
        BY <2>1 DEF Typed, TypeOK
      <3>3. registered' \subseteq [program : Programs, due : Libraries, key : Keys, spec : Analyses]
        BY <2>1, <2>2 DEF Typed, TypeOK, Requests
      <3> QED
        BY <2>2, <3>1, <3>2, <3>3 DEF Typed, TypeOK
    <2> QED
      BY <2>2, <2>3, NothingAssumption DEF Typed, TypeOK, Founded, Idle
  <1>4. ASSUME NEW s \in Slots, GiveUp(s) PROVE Typed'
    <2>1. /\ UNCHANGED <<lib, files, calls, exec, specs, faults, disturbed, apart, suspect, registered>>
          /\ call[s] \in Requests /\ call' = [call EXCEPT ![s].stage = "over"]
      BY <1>4 DEF GiveUp, history, Typed, TypeOK
    <2>2. \A o \in Slots : call'[o] \in Requests \/ call'[o] = call[o]
      BY <2>1 DEF Typed, TypeOK, Requests
    <2>3. TypeOK'
      BY <2>1, <2>2 DEF Typed, TypeOK
    <2> QED
      BY <2>1, <2>2, <2>3, NothingAssumption DEF Typed, Founded
  <1>5. ASSUME NEW s \in Slots, Forget(s) PROVE Typed'
    <2>1. /\ UNCHANGED <<lib, files, calls, specs, faults, apart, suspect, registered>>
          /\ call' = [call EXCEPT ![s] = Nothing]
          /\ exec' = [exec EXCEPT ![s] = [p \in Peers |-> Idle]]
          /\ disturbed' \subseteq disturbed
      BY <1>5 DEF Forget, Clear
    <2>2. TypeOK'
      BY <1>0, <2>1 DEF Typed, TypeOK, Idle, Executions
    <2> QED
      BY <2>1, <2>2 DEF Typed, TypeOK, Founded, Idle
  <1>6. ASSUME NEW s \in Slots, NEW p \in Peers, ExecStep(s, p) PROVE Typed'
    BY <1>6, StepTyped
  <1>7. CASE AcceptLib
    <2>1. lib' \in Libraries
      BY <1>7, RegistryBounds DEF AcceptLib, Libraries, Typed, TypeOK
    <2> QED
      BY <1>7, <2>1 DEF AcceptLib, history, Typed, TypeOK, Founded
  <1>8. ASSUME NEW k \in Keys, Revoke(k) PROVE Typed'
    BY <1>8 DEF Revoke, history, Typed, TypeOK, Founded
  <1>9. CASE UNCHANGED vars
    BY <1>9 DEF vars, history, Typed, TypeOK, Founded
  <1> QED
    BY <1>1, <1>2, <1>3, <1>4, <1>5, <1>6, <1>7, <1>8, <1>9 DEF Next

\* Every variable keeps its type: a program is measured and analysed only when
\* its files were written, and only specifications of programs reach the ledger
\* (chaincode1, lines 41-88, and chaincode2's UpdateLib).
THEOREM TypeCorrect == Spec => []TypeOK
  <1>1. Typed => TypeOK
    BY DEF Typed
  <1> QED
    BY InitTyped, NextTyped, <1>1, PTL DEF Spec

-----------------------------------------------------------------------------
(***************************************************************************)
(* The library.  Its versions only grow, also when executions race for the *)
(* files, so an update that no fault came across never leaves a registry   *)
(* with a library older than the one due.                                  *)
(***************************************************************************)

InOrder(f) == f.plib <= f.tmpLib /\ f.tmpLib <= lib

DueLib(s, p) ==
    LET e == exec[s][p]
        due == call[s].due
    IN  /\ e.at \in {"gramine", "analyzer"} => due <= files[p].tmpLib
        /\ e.at \in {"analyzer", "updated", "program", "upload", "build"} => due <= files[p].plib
        /\ e.at \in {"verify", "endorsed"} /\ e.key \in Builds => due <= e.key.lib

Due ==
    /\ \A p \in Peers : InOrder(files[p])
    /\ \A s \in Slots : call[s] # Nothing => call[s].due <= lib
    /\ \A s \in Slots, p \in Peers : <<s, p>> \notin disturbed => DueLib(s, p)

LEMMA InitDue == Init => Due
  BY DEF Init, Due, InOrder, DueLib, Idle

\* The types that the comparisons need.
LEMMA DueTyped ==
    ASSUME Typed
    PROVE  /\ lib \in Nat
           /\ \A p \in Peers : files[p].tmpLib \in Nat /\ files[p].plib \in Nat
           /\ \A s \in Slots : call[s] # Nothing => call[s] \in Requests /\ call[s].due \in Nat
           /\ \A s \in Slots, p \in Peers : exec[s][p].at # "idle" => call[s] # Nothing
           /\ \A k \in Builds : k.lib \in Nat
  BY RegistryBounds DEF Typed, TypeOK, Founded, Requests, Builds, Files, Libraries

LEMMA StepDue ==
    ASSUME Typed, Due, NEW s \in Slots, NEW p \in Peers, ExecStep(s, p)
    PROVE  Due'
  <1>1. PICK d \in Executions, e \in Executions, g \in Files, f \in Files :
          Step(s, p, d, g, e, f)
    BY StepIs
  <1>2. /\ \A o \in Slots, q \in Peers :
             exec'[o][q] = IF o = s /\ q = p THEN e ELSE exec[o][q]
        /\ \A q \in Peers : files'[q] = IF q = p THEN f ELSE files[q]
        /\ d.at # "idle" /\ call[s] \in Requests
        /\ disturbed \subseteq disturbed'
    BY <1>1, StepLeaves
  <1>3. /\ d = exec[s][p] /\ g = files[p] /\ UNCHANGED <<lib, call>>
        /\ Moves(s, p, d, g, e, f)
    BY <1>1 DEF Step
  <1>4. /\ lib \in Nat /\ g.tmpLib \in Nat /\ g.plib \in Nat /\ f.tmpLib \in Nat /\ f.plib \in Nat
        /\ call[s].due \in Nat /\ call[s] # Nothing
        /\ \A k \in Builds : k.lib \in Nat
    BY <1>2, DueTyped, NothingAssumption, RegistryBounds DEF Files, Libraries
  <1>5. InOrder(g) /\ call[s].due <= lib
    BY <1>3, <1>4 DEF Due
  <1>6. InOrder(f) /\ g.tmpLib <= f.tmpLib /\ g.plib <= f.plib
    <2>1. CASE Enters(s, p, d, g, e, f)
      BY <1>4, <1>5, <2>1 DEF InOrder, Enters, Files
    <2>2. CASE Proceeds(d, g, e, f)
      <3>1. f.tmpLib = g.tmpLib /\ f.plib \in {g.plib, g.tmpLib}
        BY <2>2 DEF Proceeds, Files
      <3> QED
        BY <1>4, <1>5, <3>1 DEF InOrder
    <2>3. CASE EndsUpdate(s, p, d, g, e, f)
      BY <1>4, <1>5, <2>3 DEF InOrder, EndsUpdate, Files
    <2>4. CASE f = g
      BY <1>4, <1>5, <2>4
    <2> QED
      BY <1>3, <2>1, <2>2, <2>3, <2>4 DEF Moves, Slips, Stops
  <1>8. \A q \in Peers : InOrder(files[q])'
    BY <1>2, <1>3, <1>6 DEF Due, InOrder
  <1>9. ASSUME <<s, p>> \notin disturbed' PROVE DueLib(s, p)'
    <2>1. DueLib(s, p)
      BY <1>2, <1>9 DEF Due
    <2>2. /\ e.at \in {"gramine", "analyzer"} => call[s].due <= f.tmpLib
          /\ e.at \in {"analyzer", "updated", "program", "upload", "build"} => call[s].due <= f.plib
          /\ e.at \in {"verify", "endorsed"} /\ e.key \in Builds => call[s].due <= e.key.lib
      <3>1. CASE Enters(s, p, d, g, e, f)
        BY <1>3, <1>4, <1>5, <2>1, <3>1 DEF DueLib, Enters, Executions, Files
      <3>2. CASE Proceeds(d, g, e, f)
        <4>1. e.at = "analyzer" => d.at = "gramine" /\ f.tmpLib = g.tmpLib /\ f.plib = g.tmpLib
          BY <3>2 DEF Proceeds, Executions, Files
        <4>2. e.at = "build" => d.at = "upload" /\ f.plib = g.plib
          BY <3>2 DEF Proceeds, Executions, Files
        <4>3. e.at = "verify" /\ e.key \in Builds => e.key.lib = g.plib /\ d.at \in {"upload", "build"}
          <5>1. SUFFICES ASSUME e.at = "verify", e.key \in Builds
                         PROVE  e.key.lib = g.plib /\ d.at \in {"upload", "build"}
            OBVIOUS
          <5>2. e.key \notin Refusals
            BY <5>1, RefusalAssumption
          <5>3. e.key = [program |-> g.upload, lib |-> g.plib] /\ d.at \in {"upload", "build"}
            BY <3>2, <5>1, <5>2 DEF Proceeds, Executions
          <5> QED
            BY <5>3
        <4>4. e.at = "endorsed" => d.at = "verify" /\ e.key = d.key
          BY <3>2 DEF Proceeds, Executions
        <4>5. e.at \in {"analyzer", "build", "verify", "endorsed"}
          BY <3>2 DEF Proceeds, Executions
        <4> QED
          BY <1>3, <2>1, <4>1, <4>2, <4>3, <4>4, <4>5 DEF DueLib
      <3>3. CASE EndsUpdate(s, p, d, g, e, f)
        BY <1>3, <2>1, <3>3 DEF DueLib, EndsUpdate, Executions, Files
      <3>4. ~Slips(s, p, d, g, e, f)
        BY <1>9 DEF Slips
      <3>5. CASE Stops(p, d, g, e, f)
        BY <3>5 DEF Stops, Idle
      <3> QED
        BY <1>3, <3>1, <3>2, <3>3, <3>4, <3>5 DEF Moves
    <2> QED
      BY <1>2, <1>3, <2>2 DEF DueLib
  <1>10. ASSUME NEW o \in Slots, NEW q \in Peers, o # s \/ q # p, <<o, q>> \notin disturbed'
         PROVE  DueLib(o, q)'
    <2>1. DueLib(o, q) /\ exec'[o][q] = exec[o][q]
      BY <1>2, <1>10 DEF Due
    <2>2. exec[o][q].at # "idle" => call[o].due \in Nat
      BY DueTyped
    <2>3. /\ files[q].tmpLib <= files'[q].tmpLib /\ files[q].plib <= files'[q].plib
          /\ files'[q].tmpLib \in Int /\ files'[q].plib \in Int
          /\ files[q].tmpLib \in Int /\ files[q].plib \in Int
      BY <1>2, <1>3, <1>4, <1>6, DueTyped
    <2> QED
      BY <1>3, <2>1, <2>2, <2>3 DEF DueLib
  <1>11. \A o \in Slots : call'[o] # Nothing => call'[o].due <= lib'
    BY <1>3 DEF Due
  <1> QED
    BY <1>8, <1>9, <1>10, <1>11 DEF Due

LEMMA NextDue == Typed /\ Due /\ [Next]_vars => Due'
  <1> SUFFICES ASSUME Typed, Due, [Next]_vars PROVE Due'
    OBVIOUS
  <1> USE DueTyped
  \* A step that moves only the executions of one call, to where nothing is due.
  <1>0. ASSUME NEW s \in Slots, UNCHANGED <<lib, files>>,
               \A o \in Slots \ {s} : exec'[o] = exec[o] /\ call'[o] = call[o],
               \A o \in Slots \ {s}, p \in Peers : <<o, p>> \in disturbed' <=> <<o, p>> \in disturbed,
               call'[s] # Nothing => call'[s].due <= lib,
               \A p \in Peers : <<s, p>> \notin disturbed' => DueLib(s, p)'
        PROVE  Due'
    <2>1. ASSUME NEW o \in Slots, NEW p \in Peers, <<o, p>> \notin disturbed', o # s
          PROVE  DueLib(o, p)'
      BY <1>0, <2>1 DEF Due, DueLib
    <2> QED
      BY <1>0, <2>1 DEF Due, InOrder
  <1>1. ASSUME NEW s \in Slots, Start(s) PROVE Due'
    <2>1. /\ UNCHANGED <<lib, files, disturbed>>
          /\ \A o \in Slots \ {s} : exec'[o] = exec[o] /\ call'[o] = call[o]
      BY <1>1 DEF Start, history, Typed, TypeOK
    <2>2. \/ /\ call'[s].due = lib /\ \A p \in Peers : exec'[s][p].at = "library"
          \/ /\ call'[s].due = 0 /\ \A p \in Peers : exec'[s][p].at = "program"
      BY <1>1 DEF Start, Idle, Typed, TypeOK
    <2>3. call'[s].due <= lib /\ \A p \in Peers : DueLib(s, p)'
      BY <2>1, <2>2 DEF DueLib
    <2> QED
      BY <1>0, <2>1, <2>3
  <1>2. ASSUME NEW s \in Slots, Updated(s) PROVE Due'
    <2>1. /\ UNCHANGED <<lib, files, disturbed>>
          /\ \A o \in Slots \ {s} : exec'[o] = exec[o] /\ call'[o] = call[o]
          /\ \A p \in Peers : exec'[s][p].at = "program" /\ exec[s][p].at = "updated"
          /\ call[s] # Nothing /\ call'[s].due = call[s].due
      BY <1>2 DEF Updated, history, Idle, Typed, TypeOK
    <2>2. \A p \in Peers : <<s, p>> \notin disturbed => DueLib(s, p)'
      BY <2>1 DEF Due, DueLib
    <2> QED
      BY <1>0, <2>1, <2>2 DEF Due
  <1>3. ASSUME NEW s \in Slots, Commit(s) \/ Forget(s) PROVE Due'
    <2>1. /\ UNCHANGED <<lib, files>>
          /\ \A o \in Slots \ {s} : exec'[o] = exec[o] /\ call'[o] = call[o]
          /\ call'[s] = Nothing /\ \A p \in Peers : exec'[s][p].at = "idle"
      BY <1>3 DEF Commit, Forget, Idle, Typed, TypeOK
    <2>2. \A o \in Slots \ {s}, p \in Peers : <<o, p>> \in disturbed' <=> <<o, p>> \in disturbed
      BY <1>3 DEF Commit, Forget, Clear
    <2>3. \A p \in Peers : DueLib(s, p)'
      BY <2>1 DEF DueLib
    <2> QED
      BY <1>0, <2>1, <2>2, <2>3
  <1>4. ASSUME NEW s \in Slots, GiveUp(s) PROVE Due'
    <2>1. /\ UNCHANGED <<lib, files, exec, disturbed>>
          /\ \A o \in Slots : call'[o] # Nothing => call[o] # Nothing
          /\ \A o \in Slots : call[o] # Nothing => call'[o].due = call[o].due
      BY <1>4 DEF GiveUp, history, Typed, TypeOK
    <2> QED
      BY <2>1 DEF Due, InOrder, DueLib
  <1>5. ASSUME NEW s \in Slots, NEW p \in Peers, ExecStep(s, p) PROVE Due'
    BY <1>5, StepDue
  <1>6. CASE AcceptLib
    BY <1>6 DEF AcceptLib, history, Due, InOrder, DueLib
  <1>7. ASSUME NEW k \in Keys, Revoke(k) PROVE Due'
    BY <1>7 DEF Revoke, history, Due, InOrder, DueLib
  <1>8. CASE UNCHANGED vars
    BY <1>8 DEF vars, history, Due, InOrder, DueLib
  <1> QED
    BY <1>1, <1>2, <1>3, <1>4, <1>5, <1>6, <1>7, <1>8 DEF Next

-----------------------------------------------------------------------------
(***************************************************************************)
(* What an execution finds in the shared files it has written itself, if   *)
(* nothing came across it; and an update that nothing came across leaves   *)
(* the two servers of its registry with the same library.                  *)
(***************************************************************************)

Alone(s, p) ==
    LET e == exec[s][p]
        f == files[p]
        prog == call[s].program
    IN  /\ e.at \in Midway => ~Overlapping(s, p)
        /\ e.at = "analyzer" => f.plib = f.tmpLib
        /\ e.at \in {"upload", "build", "verify"} => f.tmpProgram = prog /\ p \notin apart
        /\ e.at = "build" => f.upload = prog
        /\ e.at = "verify" => e.key \in Refusals \/ e.key = [program |-> prog, lib |-> f.plib]
        /\ e.at = "endorsed" => /\ e.spec.program = prog
                                /\ e.key \in Refusals \/ e.spec = e.key

LibsAgree(p) ==
    (\A s \in Slots : exec[s][p].at # "analyzer") => files[p].plib = files[p].analyzerLib

Undisturbed ==
    /\ \A p \in Peers \ apart : LibsAgree(p)
    /\ \A s \in Slots, p \in Peers : <<s, p>> \notin disturbed => Alone(s, p)

\* What went into the ledger and into the answers.
Answers == SpecDescribesItsProgram /\ RegisteredAsCalled

LEMMA InitUndisturbed == Init => Undisturbed /\ Answers
  BY DEF Init, Undisturbed, LibsAgree, Alone, Idle, Midway, Answers, Keys,
         SpecDescribesItsProgram, RegisteredAsCalled

LEMMA StepUndisturbed ==
    ASSUME Typed, Undisturbed, NEW s \in Slots, NEW p \in Peers, ExecStep(s, p)
    PROVE  Undisturbed'
  <1>1. PICK d \in Executions, e \in Executions, g \in Files, f \in Files :
          Step(s, p, d, g, e, f)
    BY StepIs
  <1>2. /\ \A o \in Slots, q \in Peers :
             exec'[o][q] = IF o = s /\ q = p THEN e ELSE exec[o][q]
        /\ \A q \in Peers : files'[q] = IF q = p THEN f ELSE files[q]
        /\ disturbed \subseteq disturbed'
        /\ apart \ {p} \subseteq apart' /\ apart' \subseteq apart \cup {p}
    BY <1>1, StepLeaves
  <1>3. d = exec[s][p] /\ g = files[p] /\ call' = call /\ Moves(s, p, d, g, e, f)
    BY <1>1 DEF Step
  <1>4. ASSUME NEW q \in Peers, q # p
        PROVE  /\ q \notin apart' => LibsAgree(q)'
               /\ \A o \in Slots : <<o, q>> \notin disturbed' => Alone(o, q)'
    <2>1. q \in apart' <=> q \in apart
      BY <1>2, <1>4
    <2>2. files'[q] = files[q] /\ \A o \in Slots : exec'[o][q] = exec[o][q]
      BY <1>2, <1>4
    <2>3. q \notin apart' => LibsAgree(q)'
      BY <2>1, <2>2 DEF Undisturbed, LibsAgree
    <2>4. ASSUME NEW o \in Slots, <<o, q>> \notin disturbed' PROVE Alone(o, q)'
      <3>1. Alone(o, q)
        BY <1>2, <2>4 DEF Undisturbed
      <3>2. Overlapping(o, q)' <=> Overlapping(o, q)
        BY <2>2 DEF Overlapping, MidwayAt
      <3> QED
        BY <1>3, <2>1, <2>2, <3>1, <3>2 DEF Alone
    <2> QED
      BY <2>3, <2>4
  <1>5. ASSUME p \notin apart' PROVE LibsAgree(p)'
    <2> SUFFICES ASSUME \A o \in Slots : exec'[o][p].at # "analyzer"
                 PROVE  f.plib = f.analyzerLib
      BY <1>2 DEF LibsAgree
    <2>1. /\ e.at # "analyzer"
          /\ \A o \in Slots \ {s} : exec[o][p].at # "analyzer"
      BY <1>2
    <2>2. CASE EndsUpdate(s, p, d, g, e, f)
      <3>1. <<s, p>> \notin disturbed
        BY <1>5, <2>2 DEF EndsUpdate
      <3>2. g.plib = g.tmpLib
        BY <1>3, <2>2, <3>1 DEF EndsUpdate, Undisturbed, Alone
      <3> QED
        BY <2>2, <3>2 DEF EndsUpdate, Files
    <2>3. CASE ~EndsUpdate(s, p, d, g, e, f)
      <3>1. /\ d.at # "analyzer" /\ p \notin apart
            /\ f.plib = g.plib /\ f.analyzerLib = g.analyzerLib
        <4>1. CASE Enters(s, p, d, g, e, f)
          BY <1>5, <4>1 DEF Enters, Files
        <4>2. CASE Proceeds(d, g, e, f)
          <5>1. d.at # "gramine" /\ apart' = apart
            BY <2>1, <4>2 DEF Proceeds, Executions
          <5> QED
            BY <1>5, <4>2, <5>1 DEF Proceeds, Files
        <4>3. CASE Slips(s, p, d, g, e, f)
          BY <1>5, <4>3 DEF Slips
        <4>4. CASE Stops(p, d, g, e, f)
          BY <1>5, <4>4 DEF Stops
        <4> QED
          BY <1>3, <2>3, <4>1, <4>2, <4>3, <4>4 DEF Moves
      <3>2. g.plib = g.analyzerLib
        BY <1>3, <2>1, <3>1 DEF Undisturbed, LibsAgree
      <3> QED
        BY <3>1, <3>2
    <2> QED
      BY <2>2, <2>3
  \* An execution that nothing comes across is the only one to use the files.
  <1>6. ASSUME NEW o \in Slots, o # s, <<o, p>> \notin disturbed' PROVE Alone(o, p)'
    <2>1. Alone(o, p) /\ exec'[o][p] = exec[o][p]
      BY <1>2, <1>6 DEF Undisturbed
    <2>2. CASE exec[o][p].at \notin Midway
      BY <1>2, <1>3, <2>1, <2>2 DEF Alone, Midway
    <2>3. CASE exec[o][p].at \in Midway
      <3>1. /\ ~Overlapping(o, p) /\ d.at \notin Midway
        BY <1>3, <1>6, <2>1, <2>3 DEF Alone, Overlapping, MidwayAt
      <3>2. ~Enters(s, p, d, g, e, f)
        <4> SUFFICES ASSUME Enters(s, p, d, g, e, f) PROVE <<o, p>> \in disturbed'
          BY <1>6
        <4>1. MidwayAt(o, p) /\ Overlapping(s, p)
          BY <1>6, <2>3 DEF MidwayAt, Overlapping
        <4>2. <<o, p>> \in Crossing(s, p)
          BY <4>1 DEF Crossing
        <4> QED
          BY <4>2 DEF Enters, Entering
      <3>3. e.at = "updated" /\ f = g /\ apart' = apart
        BY <1>3, <3>1, <3>2 DEF Moves, Proceeds, EndsUpdate, Slips, Stops, Midway, Executions
      <3>4. ~Overlapping(o, p)'
        BY <1>2, <3>1, <3>3 DEF Overlapping, MidwayAt, Midway
      <3>5. files'[p] = files[p]
        BY <1>2, <1>3, <3>3
      <3> QED
        BY <1>3, <2>1, <3>3, <3>4, <3>5 DEF Alone
    <2> QED
      BY <2>2, <2>3
  <1>7. ASSUME <<s, p>> \notin disturbed' PROVE Alone(s, p)'
    <2>1. Alone(s, p)
      BY <1>2, <1>7 DEF Undisturbed
    <2>2. Overlapping(s, p)' <=> Overlapping(s, p)
      BY <1>2 DEF Overlapping, MidwayAt
    <2>3. /\ e.at \in Midway => ~Overlapping(s, p)
          /\ e.at = "analyzer" => f.plib = f.tmpLib
          /\ e.at \in {"upload", "build", "verify"}
               => f.tmpProgram = call[s].program /\ p \notin apart'
          /\ e.at = "build" => f.upload = call[s].program
          /\ e.at = "verify" => \/ e.key \in Refusals
                                \/ e.key = [program |-> call[s].program, lib |-> f.plib]
          /\ e.at = "endorsed" => /\ e.spec.program = call[s].program
                                  /\ e.key \in Refusals \/ e.spec = e.key
      <3>1. CASE Enters(s, p, d, g, e, f)
        <4>1. ~Overlapping(s, p)
          BY <1>7, <3>1 DEF Enters, Entering, Crossing
        <4>2. d.at = "program" => p \notin apart'
          BY <1>7, <3>1 DEF Enters, Entering
        <4> QED
          BY <3>1, <4>1, <4>2 DEF Enters, Executions, Files
      <3>2. CASE Proceeds(d, g, e, f)
        <4>0. /\ d.at \in Midway /\ apart' = apart
              /\ e.at \in {"analyzer", "build", "verify", "endorsed"}
          BY <3>2 DEF Proceeds, Midway, Executions
        <4>1. ~Overlapping(s, p)
          BY <1>3, <2>1, <4>0 DEF Alone
        <4>2. e.at = "analyzer" => f.plib = f.tmpLib
          BY <3>2 DEF Proceeds, Executions, Files
        <4>3. e.at \in {"build", "verify"} =>
                f.tmpProgram = g.tmpProgram /\ d.at \in {"upload", "build"}
          BY <3>2 DEF Proceeds, Executions, Files
        <4>4. e.at = "build" => f.upload = g.tmpProgram /\ d.at = "upload"
          BY <3>2 DEF Proceeds, Executions, Files
        <4>5. e.at = "verify" /\ e.key \notin Refusals =>
                d.at = "build" /\ e.key = [program |-> g.upload, lib |-> g.plib] /\ f.plib = g.plib
          BY <3>2 DEF Proceeds, Executions, Files
        <4>6. ASSUME e.at = "endorsed"
              PROVE  /\ e.spec.program = call[s].program
                     /\ e.key \in Refusals \/ e.spec = e.key
          <5>1. /\ d.at = "verify" /\ e.key = d.key
                /\ e.spec = [program |-> g.tmpProgram, lib |-> g.analyzerLib]
            BY <3>2, <4>6 DEF Proceeds, Executions
          <5>2. /\ g.tmpProgram = call[s].program /\ p \notin apart
                /\ d.key \in Refusals \/ d.key = [program |-> call[s].program, lib |-> g.plib]
            BY <1>3, <2>1, <5>1 DEF Alone
          <5>3. \A o \in Slots : exec[o][p].at # "analyzer"
            BY <1>3, <4>1, <5>1 DEF Overlapping, MidwayAt, Midway
          <5>4. g.plib = g.analyzerLib
            BY <1>3, <5>2, <5>3 DEF Undisturbed, LibsAgree
          <5> QED
            BY <5>1, <5>2, <5>4
        <4>7. d.at \in {"upload", "build"} => g.tmpProgram = call[s].program /\ p \notin apart
          BY <1>3, <2>1 DEF Alone
        <4>8. d.at = "build" => g.upload = call[s].program
          BY <1>3, <2>1 DEF Alone
        <4> QED
          BY <4>0, <4>1, <4>2, <4>3, <4>4, <4>5, <4>6, <4>7, <4>8
      <3>3. CASE EndsUpdate(s, p, d, g, e, f)
        BY <3>3 DEF EndsUpdate, Executions, Midway
      <3>4. ~Slips(s, p, d, g, e, f)
        BY <1>7 DEF Slips
      <3>5. CASE Stops(p, d, g, e, f)
        BY <3>5 DEF Stops, Idle, Midway
      <3> QED
        BY <1>3, <3>1, <3>2, <3>3, <3>4, <3>5 DEF Moves
    <2> QED
      BY <1>2, <1>3, <2>2, <2>3 DEF Alone
  <1> QED
    BY <1>4, <1>5, <1>6, <1>7 DEF Undisturbed

LEMMA NextUndisturbed ==
    Typed /\ Due /\ Undisturbed /\ Answers /\ [Next]_vars => (Undisturbed /\ Answers)'
  <1> SUFFICES ASSUME Typed, Due, Undisturbed, Answers, [Next]_vars
               PROVE  Undisturbed' /\ Answers'
    OBVIOUS
  \* A step that leaves the files alone and moves only the executions of one call,
  \* none of them to or from a position where it uses the files.
  <1>0. ASSUME NEW s \in Slots, UNCHANGED <<files, apart>>,
               \A o \in Slots \ {s} : exec'[o] = exec[o] /\ call'[o] = call[o],
               \A o \in Slots \ {s}, p \in Peers : <<o, p>> \in disturbed' <=> <<o, p>> \in disturbed,
               \A p \in Peers : /\ exec'[s][p].at \notin Midway \cup {"endorsed"}
                                /\ exec[s][p].at \notin Midway
        PROVE  Undisturbed'
    <2>1. ASSUME NEW p \in Peers, p \notin apart PROVE LibsAgree(p)'
      BY <1>0, <2>1 DEF Undisturbed, LibsAgree, Midway
    <2>2. ASSUME NEW o \in Slots, NEW p \in Peers, o # s, <<o, p>> \notin disturbed'
          PROVE  Alone(o, p)'
      <3>1. ~Overlapping(o, p) => ~Overlapping(o, p)'
        BY <1>0 DEF Overlapping, MidwayAt
      <3>2. Alone(o, p)
        BY <1>0, <2>2 DEF Undisturbed
      <3> QED
        BY <1>0, <2>2, <3>1, <3>2 DEF Alone
    <2>3. \A p \in Peers : Alone(s, p)'
      BY <1>0 DEF Alone, Midway
    <2> QED
      BY <1>0, <2>1, <2>2, <2>3 DEF Undisturbed
  <1>1. ASSUME NEW s \in Slots, Start(s) PROVE Undisturbed' /\ Answers'
    <2>1. /\ UNCHANGED <<files, specs, disturbed, apart, suspect, registered>>
          /\ \A o \in Slots \ {s} : exec'[o] = exec[o] /\ call'[o] = call[o]
          /\ \A p \in Peers : exec'[s][p].at \in {"library", "program"}
          /\ call[s] = Nothing
      BY <1>1 DEF Start, history, Idle, Typed, TypeOK
    <2>2. \A p \in Peers : exec[s][p].at = "idle"
      BY <2>1 DEF Typed, Founded
    <2>3. \A p \in Peers : /\ exec'[s][p].at \notin Midway \cup {"endorsed"}
                           /\ exec[s][p].at \notin Midway
      BY <2>1, <2>2 DEF Midway
    <2> QED
      BY <1>0, <2>1, <2>3 DEF Answers, SpecDescribesItsProgram, RegisteredAsCalled
  <1>2. ASSUME NEW s \in Slots, Updated(s) PROVE Undisturbed' /\ Answers'
    <2>1. /\ UNCHANGED <<files, specs, disturbed, apart, suspect, registered>>
          /\ \A o \in Slots \ {s} : exec'[o] = exec[o] /\ call'[o] = call[o]
          /\ \A p \in Peers : exec'[s][p].at = "program" /\ exec[s][p].at = "updated"
      BY <1>2 DEF Updated, history, Idle, Typed, TypeOK
    <2>2. \A p \in Peers : /\ exec'[s][p].at \notin Midway \cup {"endorsed"}
                           /\ exec[s][p].at \notin Midway
      BY <2>1 DEF Midway
    <2> QED
      BY <1>0, <2>1, <2>2 DEF Answers, SpecDescribesItsProgram, RegisteredAsCalled
  <1>3. ASSUME NEW s \in Slots, Commit(s) PROVE Undisturbed' /\ Answers'
    <2>1. /\ UNCHANGED <<files, apart>>
          /\ \A o \in Slots \ {s} : exec'[o] = exec[o] /\ call'[o] = call[o]
          /\ \A p \in Peers : exec'[s][p].at = "idle" /\ exec[s][p].at = "endorsed"
          /\ call[s] # Nothing
      BY <1>3 DEF Commit, Endorsed, Idle, Typed, TypeOK
    <2>2. \A p \in Peers : /\ exec'[s][p].at \notin Midway \cup {"endorsed"}
                           /\ exec[s][p].at \notin Midway
      BY <2>1 DEF Midway
    <2>3. \A o \in Slots \ {s}, p \in Peers : <<o, p>> \in disturbed' <=> <<o, p>> \in disturbed
      BY <1>3 DEF Commit, Clear
    <2>4. Undisturbed'
      BY <1>0, <2>1, <2>2, <2>3
    <2>5. PICK key \in Keys, spec \in Analyses :
            /\ Endorsed(s, key, spec)
            /\ specs' = [specs EXCEPT ![key] = spec]
            /\ suspect' = IF Vouched(s) THEN suspect \ {key} ELSE suspect \cup {key}
            /\ registered' = IF ~Vouched(s) THEN registered
                             ELSE registered \cup {[program |-> call[s].program, due |-> call[s].due,
                                                    key |-> key, spec |-> spec]}
      BY <1>3 DEF Commit
    \* One registry's undisturbed execution vouches for what all have endorsed.
    <2>6. ASSUME Vouched(s)
          PROVE  /\ spec.program = call[s].program
                 /\ key \in Builds => spec = key /\ call[s].due <= key.lib
      <3>1. PICK p \in Peers : <<s, p>> \notin disturbed
        BY <2>6 DEF Vouched
      <3>2. exec[s][p].at = "endorsed" /\ exec[s][p].key = key /\ exec[s][p].spec = spec
        BY <2>5 DEF Endorsed
      <3>3. Alone(s, p) /\ DueLib(s, p)
        BY <3>1 DEF Undisturbed, Due
      <3>4. key \in Builds => key \notin Refusals
        BY RefusalAssumption
      <3> QED
        BY <3>2, <3>3, <3>4 DEF Alone, DueLib
    <2>7. SpecDescribesItsProgram'
      <3> SUFFICES ASSUME NEW k \in Builds, k \notin suspect' PROVE specs'[k] \in {k, Nothing}
        BY DEF SpecDescribesItsProgram
      <3>1. CASE k = key
        <4>1. Vouched(s)
          BY <2>5, <3>1
        <4> QED
          BY <2>5, <2>6, <3>1, <4>1 DEF Typed, TypeOK
      <3>2. CASE k # key
        <4>1. k \notin suspect
          BY <2>5, <3>2
        <4> QED
          BY <2>5, <3>2, <4>1 DEF Answers, SpecDescribesItsProgram, Typed, TypeOK
      <3> QED
        BY <3>1, <3>2
    <2>8. RegisteredAsCalled'
      BY <2>5, <2>6 DEF Answers, RegisteredAsCalled
    <2> QED
      BY <2>4, <2>7, <2>8 DEF Answers
  <1>4. ASSUME NEW s \in Slots, GiveUp(s) PROVE Undisturbed' /\ Answers'
    <2>1. /\ UNCHANGED <<files, exec, specs, disturbed, apart, suspect, registered>>
          /\ \A o \in Slots : call'[o].program = call[o].program
      BY <1>4 DEF GiveUp, history, Typed, TypeOK, Requests
    <2>2. Undisturbed'
      BY <2>1 DEF Undisturbed, LibsAgree, Alone, Overlapping, MidwayAt
    <2> QED
      BY <2>1, <2>2 DEF Answers, SpecDescribesItsProgram, RegisteredAsCalled
  <1>5. ASSUME NEW s \in Slots, Forget(s) PROVE Undisturbed' /\ Answers'
    <2>1. /\ UNCHANGED <<files, specs, apart, suspect, registered>>
          /\ \A o \in Slots \ {s} : exec'[o] = exec[o] /\ call'[o] = call[o]
          /\ \A p \in Peers : exec'[s][p].at = "idle" /\ exec[s][p].at \notin Midway
      BY <1>5 DEF Forget, Idle, MidwayAt, Typed, TypeOK
    <2>2. \A p \in Peers : exec'[s][p].at \notin Midway \cup {"endorsed"}
      BY <2>1 DEF Midway
    <2>3. \A o \in Slots \ {s}, p \in Peers : <<o, p>> \in disturbed' <=> <<o, p>> \in disturbed
      BY <1>5 DEF Forget, Clear
    <2> QED
      BY <1>0, <2>1, <2>2, <2>3 DEF Answers, SpecDescribesItsProgram, RegisteredAsCalled
  <1>6. ASSUME NEW s \in Slots, NEW p \in Peers, ExecStep(s, p) PROVE Undisturbed' /\ Answers'
    <2>1. PICK d \in Executions, e \in Executions, g \in Files, f \in Files :
            Step(s, p, d, g, e, f)
      BY <1>6, StepIs
    <2>2. UNCHANGED <<specs, suspect, registered>>
      BY <2>1 DEF Step
    <2> QED
      BY <1>6, <2>2, StepUndisturbed DEF Answers, SpecDescribesItsProgram, RegisteredAsCalled
  <1>7. CASE AcceptLib
    BY <1>7 DEF AcceptLib, history, Undisturbed, LibsAgree, Alone, Overlapping, MidwayAt, Answers,
                SpecDescribesItsProgram, RegisteredAsCalled
  <1>8. ASSUME NEW k \in Keys, Revoke(k) PROVE Undisturbed' /\ Answers'
    <2>1. Undisturbed'
      BY <1>8 DEF Revoke, history, Undisturbed, LibsAgree, Alone, Overlapping, MidwayAt
    <2>2. SpecDescribesItsProgram'
      BY <1>8 DEF Revoke, history, Answers, SpecDescribesItsProgram, Typed, TypeOK, Keys
    <2>3. RegisteredAsCalled'
      BY <1>8 DEF Revoke, history, Answers, RegisteredAsCalled
    <2> QED
      BY <2>1, <2>2, <2>3 DEF Answers
  <1>9. CASE UNCHANGED vars
    BY <1>9 DEF vars, history, Undisturbed, LibsAgree, Alone, Overlapping, MidwayAt, Answers,
                SpecDescribesItsProgram, RegisteredAsCalled
  <1> QED
    BY <1>1, <1>2, <1>3, <1>4, <1>5, <1>6, <1>7, <1>8, <1>9 DEF Next

LEMMA RegistryAlways == Spec => [](Typed /\ Due /\ Undisturbed /\ Answers)
  BY InitTyped, InitDue, InitUndisturbed, NextTyped, NextDue, NextUndisturbed, PTL DEF Spec

\* A specification under a measurement was derived from the program and the
\* library that were measured, if at one registry nothing came across the call
\* that recorded it last: no overlapping call, no write or build that failed
\* unnoticed, no servers left apart (chaincode1, lines 41-88; build.sh, line 12).
THEOREM SpecsDescribe == Spec => []SpecDescribesItsProgram
  <1>1. Answers => SpecDescribesItsProgram
    BY DEF Answers
  <1> QED
    BY <1>1, RegistryAlways, PTL

\* A registration answered with success, with one registry at which nothing came
\* across it, is of the program of the call; its key measures that program with a
\* library no older than the one accepted when it was called, or is the text of a
\* refusal (chaincode1, lines 41-88 and 198-208, chaincode2's UpdateLib).
THEOREM AnswersAreForCalls == Spec => []RegisteredAsCalled
  <1>1. Answers => RegisteredAsCalled
    BY DEF Answers
  <1> QED
    BY <1>1, RegistryAlways, PTL

\* An update that nothing came across repairs its registry: the build server and
\* the analyzer have the same library until the next update reaches the build
\* server, whatever left them apart before (chaincode2's UpdateLib, main.go 84-88).
THEOREM LibrariesAgree == Spec => []ServersAgree
  <1>1. Undisturbed => ServersAgree
    BY DEF Undisturbed, LibsAgree, ServersAgree
  <1> QED
    BY <1>1, RegistryAlways, PTL

=============================================================================
