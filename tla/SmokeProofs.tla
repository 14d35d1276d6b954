---------------------------- MODULE SmokeProofs ----------------------------
(***************************************************************************)
(* Proofs about Smoke, for every command line and every file.              *)
(*                                                                         *)
(* The stages run once each and in order, so what a stage has not found    *)
(* yet is blank (Blank), and the verdict in ci is that of the stages so    *)
(* far (VerdictSoFar).  What failed before the release manifest was made   *)
(* is in its status (ReleaseTells), from there in the gate of the audit    *)
(* and in the decision (GoIsClean).  The index holds what is on disk until *)
(* a later stage writes (IndexSoFar).  A decision is made by the audit     *)
(* alone, and nothing it is made from is written after it: that it covers  *)
(* every part is a chain of facts about the audit's operators              *)
(* (PartsAreIssues, NothingLeft, AuditCovers).                             *)
(***************************************************************************)
EXTENDS Smoke, FiniteSetTheorems, TLAPS

Fields == {"gate", "mismatches", "repro", "verify", "matrix", "flakes", "index", "zipStatus",
           "zip", "evidence", "decision", "release", "att", "sbom", "audit", "issues",
           "waivers", "todos", "calendar"}
(* What the report starts with is every field it ever has.                 *)
LEMMA FieldsAre == DOMAIN Nothing = Fields
BY DEF Nothing, Fields

(* What a stage does, whatever its files: it goes on, or the process ends. *)
Aborted == pc' = "exit" /\ code' = 2 /\ UNCHANGED <<in, ci, rep>>
GoesOn(next, newCi, newRep) ==
    pc' = next /\ ci' = newCi /\ rep' = newRep /\ UNCHANGED <<in, code>>

(* Every stage either goes on or ends the process with 2.                  *)
LEMMA StageEnds ==
    ASSUME NEW here, NEW next, NEW events, NEW newCi, NEW newRep,
           Stage(here, next, events, newCi, newRep)
    PROVE  /\ pc = here
           /\ Aborted \/ GoesOn(next, newCi, newRep)
BY DEF Stage, Proceed, Abort, Aborted, GoesOn

-----------------------------------------------------------------------------
(* Verdicts.                                                               *)
LEMMA VerdictIs ==
    ASSUME NEW checks, NEW best
    PROVE  /\ Verdict(checks, best) \in {"fail", "warn", best}
           /\ (\E c \in checks : c.status = "fail") => Verdict(checks, best) = "fail"
BY DEF Verdict, Failing, Warning

(* The summary of a bundle: exit code 1 is status fail.                    *)
LEMMA SummaryIs ==
    ASSUME NEW b
    PROVE  /\ BuildCISummary(b) \in [status : {"pass", "warn", "fail"}, exit : {0, 1}]
           /\ BuildCISummary(b).exit = 1 <=> BuildCISummary(b).status = "fail"
BY DEF BuildCISummary

(* The CI gate: exit code 1 is status fail.                                *)
LEMMA GateIs ==
    ASSUME NEW b, NEW lines, NEW baseline, NEW policy
    PROVE  LET g == BuildCIGateReport(b, lines, baseline, policy)
           IN  g.exit \in {0, 1} /\ (g.exit = 1 <=> g.status = "fail")
BY DEF BuildCIGateReport

(* The release gate: exit code 1 is status fail.                           *)
LEMMA ReleaseGateIs ==
    ASSUME NEW p, NEW policy
    PROVE  LET g == BuildReleaseVerificationGateReport(p, policy)
           IN  g.exit \in {0, 1} /\ (g.exit = 1 <=> g.status = "fail")
BY DEF BuildReleaseVerificationGateReport

-----------------------------------------------------------------------------
(* The invariant.                                                          *)
Blank ==
    /\ pc \in {"start", "verify"} => rep.mismatches = 0
    /\ pc \in {"start", "verify", "gate"} => rep.gate.status = "pass"
    /\ pc \in {"start", "verify", "gate", "repro"} => rep.repro = ""
    /\ pc \in {"start", "verify", "gate", "repro", "checksum"} => rep.verify = ""
    /\ pc \in Stages \ {"audit", "evidence", "finish", "exit"} =>
          rep.zip = NoZip /\ rep.zipStatus = ""
    /\ pc \in Stages \ {"finish", "exit"} => rep.evidence = ""
    /\ pc \in Stages \ {"evidence", "finish", "exit"} => rep.decision = ""

(* What failed before the release manifest is made, and what failed so far.*)
FailedEarly ==
    \/ BuildCISummary(in.bundle.of).status = "fail"
    \/ rep.mismatches > 0
    \/ rep.gate.status = "fail"
    \/ rep.repro = "fail" \/ rep.verify = "fail"
FailedSoFar ==
    \/ FailedEarly
    \/ rep.zip.status = "fail" \/ rep.evidence = "fail"
    \/ Given("inspect-zip") /\ rep.zipStatus = "fail"

VerdictSoFar ==
    /\ ci.exit = 1 <=> ci.status = "fail"
    /\ pc \notin {"start", "exit"} => (ci.exit = 1 <=> FailedSoFar)

(* Behind the audit the gate's exit code is its status.                    *)
AuditTells ==
    pc \in {"evidence", "finish"} =>
        LET g == rep.audit.gate
        IN  g.exit \in {0, 1} /\ (g.exit = 1 <=> g.status = "fail")

ReleaseTells ==
    pc \in {"package", "audit", "evidence", "finish"} =>
        (FailedEarly => rep.release.status = "fail")
GoIsClean ==
    rep.decision \in {"go", "go-with-watch"} /\ pc \in {"evidence", "finish"} =>
        /\ rep.audit.gate.status # "fail"
        /\ ~FailedEarly /\ rep.zip.status # "fail"

(* A run that only inspects a package starts and exits.                    *)
OnlyInspects == in.inspect.only => pc \in {"start", "exit"} /\ rep.decision = ""
Running == pc # "exit" => code = 0

DiskTyped == disk \in [Outputs -> {"none", "stale", "new", "partial"}]

Found ==
    /\ TypeOK /\ Blank /\ VerdictSoFar /\ AuditTells /\ ReleaseTells /\ GoIsClean
    /\ OnlyInspects /\ Running /\ FailureExits /\ GoMeansClean

(* The process is over early: nothing is claimed of an exit code 2.        *)
LEMMA AbortFound ==
    ASSUME Found, Aborted, DiskTyped'
    PROVE  Found'
<1>1. TypeOK'
  BY DEF Found, TypeOK, DiskTyped, Aborted, Stages
<1>2. Blank' /\ VerdictSoFar'
  BY DEF Found, Blank, VerdictSoFar, Aborted, Stages
<1>4. AuditTells' /\ ReleaseTells' /\ GoIsClean'
  BY DEF AuditTells, ReleaseTells, GoIsClean, Aborted
<1>5. Running' /\ FailureExits' /\ GoMeansClean'
  BY DEF Running, FailureExits, GoMeansClean, Aborted
<1>3. OnlyInspects'
  BY DEF Found, OnlyInspects, Aborted
<1> QED BY <1>1, <1>2, <1>3, <1>4, <1>5 DEF Found

(* Load: the bundle's own verdict.                                         *)
LEMMA LoadFound ==
    ASSUME Found, Load, DiskTyped'
    PROVE  Found'
<1>1. CASE Aborted
  BY <1>1, AbortFound
<1>2. CASE GoesOn("verify", BuildCISummary(in.bundle.of), rep)
  <2> DEFINE s == BuildCISummary(in.bundle.of)
  <2>1. /\ s \in [status : {"pass", "warn", "fail"}, exit : {0, 1}]
        /\ s.exit = 1 <=> s.status = "fail"
    BY SummaryIs
  <2>2. /\ pc = "start" /\ pc' = "verify" /\ ~in.inspect.only
        /\ ci' = s /\ rep' = rep /\ in' = in /\ code' = code
    BY <1>2, StageEnds DEF GoesOn, Load, Aborted
  <2>3. s = BuildCISummary(in.bundle.of)
    OBVIOUS
  <2> HIDE DEF s
  <2>4. TypeOK'
    BY <2>1, <2>2 DEF Found, TypeOK, DiskTyped, Stages
  <2>5. Blank'
    BY <2>2 DEF Found, Blank, Stages
  <2>9. /\ rep.gate.status = "pass" /\ rep.repro = "" /\ rep.verify = ""
        /\ rep.zip = NoZip /\ rep.zipStatus = "" /\ rep.evidence = ""
    BY <2>2 DEF Found, Blank, Stages
  <2>13. rep.mismatches = 0
    BY <2>2 DEF Found, Blank, Stages
  <2>10. ~(rep.mismatches > 0) /\ NoZip.status = ""
    BY <2>13 DEF NoZip
  <2>11. FailedEarly' <=> s.status = "fail"
    BY <2>2, <2>3, <2>9, <2>10 DEF FailedEarly
  <2>12. FailedSoFar' <=> s.status = "fail"
    BY <2>2, <2>9, <2>10, <2>11 DEF FailedSoFar
  <2>6. VerdictSoFar'
    BY <2>1, <2>2, <2>12 DEF VerdictSoFar
  <2>7. AuditTells' /\ ReleaseTells' /\ GoIsClean' /\ FailureExits' /\ GoMeansClean'
    BY <2>2 DEF AuditTells, ReleaseTells, GoIsClean, FailureExits, GoMeansClean
  <2>8. OnlyInspects' /\ Running'
    BY <2>2 DEF Found, OnlyInspects, Running
  <2> QED BY <2>4, <2>5, <2>6, <2>7, <2>8 DEF Found
<1> QED BY <1>1, <1>2, StageEnds DEF Load, Aborted
(* A stage that goes on and adds the fields fs to the report.              *)
Goes(here, next, fs) ==
    /\ pc = here /\ pc' = next /\ here \notin {"start", "exit"}
    /\ next \in Stages \ {"start", "exit"}
    /\ in' = in /\ code' = code /\ DiskTyped'
    /\ DOMAIN rep' = Fields /\ \A f \in Fields \ fs : rep'[f] = rep[f]

(* A stage that goes on keeps the types, and the process runs.             *)
LEMMA GoesTyped ==
    ASSUME Found, NEW here, NEW next, NEW fs, Goes(here, next, fs),
           ci' \in [status : {"pass", "warn", "fail"}, exit : {0, 1}]
    PROVE  TypeOK' /\ OnlyInspects' /\ Running' /\ FailureExits' /\ GoMeansClean'
<1>1. TypeOK' /\ Running'
  BY FieldsAre DEF Found, TypeOK, DiskTyped, Goes, Stages, Running
<1>2. OnlyInspects'
  BY DEF Found, OnlyInspects, Goes
<1>3. FailureExits' /\ GoMeansClean'
  BY DEF FailureExits, GoMeansClean, Goes
<1> QED BY <1>1, <1>2, <1>3

(* A verdict stays a verdict when one more check fails.                    *)
LEMMA FailIfTyped ==
    ASSUME Found, NEW c
    PROVE  FailIf(c) \in [status : {"pass", "warn", "fail"}, exit : {0, 1}]
BY DEF Found, TypeOK, FailIf

(* The verdict so far, with one more thing that may have failed.           *)
LEMMA FailIfTells ==
    ASSUME Found, NEW c, NEW here, NEW next, NEW fs, Goes(here, next, fs),
           ci' = FailIf(c), FailedSoFar' <=> FailedSoFar \/ c
    PROVE  VerdictSoFar'
BY DEF Found, VerdictSoFar, FailIf, Goes

(* What failed early stays so when none of its fields is written.          *)
LEMMA EarlyStays ==
    ASSUME in' = in,
           \A f \in {"mismatches", "gate", "repro", "verify"} : rep'[f] = rep[f]
    PROVE  FailedEarly' <=> FailedEarly
BY DEF FailedEarly

(* What failed late stays so when none of its fields is written.           *)
LEMMA LateStays ==
    ASSUME in' = in,
           \A f \in {"zip", "zipStatus", "evidence"} : rep'[f] = rep[f],
           NEW c, FailedEarly' <=> FailedEarly \/ c
    PROVE  FailedSoFar' <=> FailedSoFar \/ c
BY DEF FailedSoFar, Given

Early == {"verify", "gate", "repro", "checksum", "reports", "index"}

(* Before the release manifest there is nothing to say of it.              *)
LEMMA EarlyFound ==
    ASSUME pc' \in Early \cup {"attest"}
    PROVE  AuditTells' /\ ReleaseTells' /\ GoIsClean'
BY DEF Early, AuditTells, ReleaseTells, GoIsClean
(* A stage before the release manifest, whose check c may have failed.     *)
LEMMA EarlyStage ==
    ASSUME Found, NEW here, NEW next, NEW fs, Goes(here, next, fs), NEW c, ci' = FailIf(c),
           fs \cap {"zip", "zipStatus", "evidence"} = {}, next \in Early \cup {"attest"},
           FailedEarly' <=> FailedEarly \/ c, Blank'
    PROVE  Found'
<1>1. \A f \in {"zip", "zipStatus", "evidence"} : rep'[f] = rep[f]
  BY DEF Goes, Fields
<1>2. FailedSoFar' <=> FailedSoFar \/ c
  BY <1>1, LateStays DEF Goes
<1>3. VerdictSoFar'
  BY <1>2, FailIfTells
<1>4. AuditTells' /\ ReleaseTells' /\ GoIsClean'
  BY EarlyFound DEF Goes
<1>5. TypeOK' /\ OnlyInspects' /\ Running' /\ FailureExits' /\ GoMeansClean'
  BY FailIfTyped, GoesTyped
<1> QED BY <1>3, <1>4, <1>5 DEF Found

(* verifyArtifacts.                                                        *)
LEMMA VerifyFound == ASSUME Found, verifyArtifacts, DiskTyped'  PROVE Found'
<1>1. CASE Aborted
  BY <1>1, AbortFound
<1>2. PICK bad : GoesOn("gate", FailIf(bad > 0), [rep EXCEPT !.mismatches = bad]) \/ Aborted
  BY StageEnds DEF verifyArtifacts
<1>3. CASE GoesOn("gate", FailIf(bad > 0), [rep EXCEPT !.mismatches = bad])
  <2>1. Goes("verify", "gate", {"mismatches"})
    BY <1>3, StageEnds, FieldsAre
    DEF verifyArtifacts, GoesOn, Goes, Fields, Stages, Found, TypeOK
  <2>2. rep'.mismatches = bad /\ ci' = FailIf(bad > 0)
    BY <1>3, FieldsAre DEF GoesOn, Found, TypeOK, Fields
  <2>3. rep.mismatches = 0
    BY <2>1 DEF Goes, Found, Blank
  <2>4. ~(rep.mismatches > 0)
    BY <2>3
  <2>5. FailedEarly' <=> FailedEarly \/ bad > 0
    BY <2>1, <2>2, <2>4 DEF FailedEarly, Goes, Fields
  <2>6. Blank'
    BY <2>1 DEF Found, Blank, Goes, Fields, Stages
  <2>9. {"mismatches"} \cap {"zip", "zipStatus", "evidence"} = {}
    OBVIOUS
  <2>10. "gate" \in Early \cup {"attest"}
    BY DEF Early
  <2> QED BY <2>1, <2>2, <2>5, <2>6, <2>9, <2>10, EarlyStage
<1> QED BY <1>1, <1>2, <1>3

(* A gate's report counts as a failed check.                               *)
LEMMA ApplyGateIs ==
    ASSUME NEW gate, gate.exit \in {0, 1}, gate.exit = 1 <=> gate.status = "fail"
    PROVE  ApplyGate(gate) = FailIf(gate.status = "fail")
BY DEF ApplyGate, FailIf

(* The CI gate adds its own status to what failed.                         *)
LEMMA GateFound == ASSUME Found, Gate, DiskTyped'  PROVE Found'
<1> DEFINE gate == BuildCIGateReport(in.bundle.of, in.lines, Given("baseline"),
                                     PolicyTemplate(in.policy))
<1>1. /\ ApplyGate(gate) = FailIf(gate.status = "fail")
      /\ pc = "gate"
      /\ GoesOn("repro", ApplyGate(gate), [rep EXCEPT !.gate = gate]) \/ Aborted
  <2>1. pc = "gate" /\ (GoesOn("repro", ApplyGate(gate), [rep EXCEPT !.gate = gate]) \/ Aborted)
    BY StageEnds DEF Gate, Gated
  <2> QED BY <2>1, GateIs, ApplyGateIs
<1> HIDE DEF gate
<1>2. CASE Aborted
  BY <1>2, AbortFound
<1>3. CASE GoesOn("repro", ApplyGate(gate), [rep EXCEPT !.gate = gate])
  <2>1. Goes("gate", "repro", {"gate"})
    BY <1>1, <1>3, FieldsAre DEF GoesOn, Goes, Fields, Stages, Found, TypeOK
  <2>2. rep'.gate = gate /\ ci' = FailIf(gate.status = "fail")
    BY <1>1, <1>3, FieldsAre DEF GoesOn, Found, TypeOK, Fields
  <2>3. rep.gate.status = "pass"
    BY <2>1 DEF Goes, Found, Blank
  <2>4. FailedEarly' <=> FailedEarly \/ gate.status = "fail"
    BY <2>1, <2>2, <2>3 DEF FailedEarly, Goes, Fields
  <2>5. Blank'
    BY <2>1 DEF Found, Blank, Goes, Fields, Stages
  <2>9. {"gate"} \cap {"zip", "zipStatus", "evidence"} = {}
    OBVIOUS
  <2>10. "repro" \in Early \cup {"attest"}
    BY DEF Early
  <2> QED BY <2>1, <2>2, <2>4, <2>5, <2>9, <2>10, EarlyStage
<1> QED BY <1>1, <1>2, <1>3

(* An inspected repro package that fails counts.                           *)
LEMMA ReproFound == ASSUME Found, Repro, DiskTyped'  PROVE Found'
<1> DEFINE found == IF Given("inspect-repro") THEN InspectMinimalReproZipBytes(in.repro) ELSE ""
           m == MatrixStatus(in.results)
           f == FlakeStatus(in.results)
<1>1. /\ pc = "repro"
      /\ \/ Aborted
         \/ GoesOn("checksum", FailIf(found = "fail"),
                   [rep EXCEPT !.repro = found, !.matrix = m, !.flakes = f])
  BY StageEnds DEF Repro
<1> HIDE DEF found, m, f
<1>2. CASE Aborted
  BY <1>2, AbortFound
<1>3. CASE GoesOn("checksum", FailIf(found = "fail"),
                  [rep EXCEPT !.repro = found, !.matrix = m, !.flakes = f])
  <2>1. Goes("repro", "checksum", {"repro", "matrix", "flakes"})
    BY <1>1, <1>3, FieldsAre DEF GoesOn, Goes, Fields, Stages, Found, TypeOK
  <2>2. rep'.repro = found /\ ci' = FailIf(found = "fail")
    BY <1>3, FieldsAre DEF GoesOn, Found, TypeOK, Fields
  <2>3. rep.repro = ""
    BY <2>1 DEF Goes, Found, Blank
  <2>4. FailedEarly' <=> FailedEarly \/ found = "fail"
    BY <2>1, <2>2, <2>3 DEF FailedEarly, Goes, Fields
  <2>5. Blank'
    BY <2>1 DEF Found, Blank, Goes, Fields, Stages
  <2>9. {"repro", "matrix", "flakes"} \cap {"zip", "zipStatus", "evidence"} = {}
    OBVIOUS
  <2>10. "checksum" \in Early \cup {"attest"}
    BY DEF Early
  <2> QED BY <2>1, <2>2, <2>4, <2>5, <2>9, <2>10, EarlyStage
<1> QED BY <1>1, <1>2, <1>3

(* So do its checksums, when they were asked for.                          *)
LEMMA ChecksumFound == ASSUME Found, Checksum, DiskTyped'  PROVE Found'
<1> DEFINE asked == rep.repro # "" /\ Given("checksums")
           found == IF asked THEN VerifyReproZipChecksumManifest(in.reproBase, in.repro) ELSE ""
<1>1. /\ pc = "checksum"
      /\ \/ Aborted
         \/ GoesOn("reports", FailIf(found = "fail"), [rep EXCEPT !.verify = found])
  BY StageEnds DEF Checksum
<1> HIDE DEF asked, found
<1>2. CASE Aborted
  BY <1>2, AbortFound
<1>3. CASE GoesOn("reports", FailIf(found = "fail"), [rep EXCEPT !.verify = found])
  <2>1. Goes("checksum", "reports", {"verify"})
    BY <1>1, <1>3, FieldsAre DEF GoesOn, Goes, Fields, Stages, Found, TypeOK
  <2>2. rep'.verify = found /\ ci' = FailIf(found = "fail")
    BY <1>3, FieldsAre DEF GoesOn, Found, TypeOK, Fields
  <2>3. rep.verify = ""
    BY <2>1 DEF Goes, Found, Blank
  <2>4. FailedEarly' <=> FailedEarly \/ found = "fail"
    BY <2>1, <2>2, <2>3 DEF FailedEarly, Goes, Fields
  <2>5. Blank'
    BY <2>1 DEF Found, Blank, Goes, Fields, Stages
  <2>9. {"verify"} \cap {"zip", "zipStatus", "evidence"} = {}
    OBVIOUS
  <2>10. "reports" \in Early \cup {"attest"}
    BY DEF Early
  <2> QED BY <2>1, <2>2, <2>4, <2>5, <2>9, <2>10, EarlyStage
<1> QED BY <1>1, <1>2, <1>3

(* The reports and the index fail nothing.                                 *)
LEMMA IndexFound == ASSUME Found, WriteReports \/ Index, DiskTyped'  PROVE Found'
<1>1. CASE Aborted
  BY <1>1, AbortFound
<1>2. ASSUME NEW next \in {"index", "attest"}, NEW here \in {"reports", "index"},
             Goes(here, next, {"index"}), ci' = ci
      PROVE  Found'
  <2>1. ci' = FailIf(FALSE)
    BY <1>2 DEF FailIf
  <2>2. FailedEarly' <=> FailedEarly \/ FALSE
    BY <1>2, EarlyStays DEF Goes, Fields
  <2>3. Blank'
    BY <1>2 DEF Found, Blank, Goes, Fields, Stages
  <2>9. {"index"} \cap {"zip", "zipStatus", "evidence"} = {}
    OBVIOUS
  <2>10. next \in Early \cup {"attest"}
    BY DEF Early
  <2> QED BY <1>2, <2>1, <2>2, <2>3, <2>9, <2>10, EarlyStage
<1>3. CASE WriteReports /\ ~Aborted
  <2>1. pc = "reports" /\ GoesOn("index", ci, rep)
    BY <1>3, StageEnds DEF WriteReports
  <2>2. Goes("reports", "index", {"index"}) /\ ci' = ci
    BY <2>1, FieldsAre DEF GoesOn, Goes, Fields, Stages, Found, TypeOK
  <2> QED BY <1>2, <2>2
<1>4. CASE Index /\ ~Aborted
  <2> DEFINE i == buildCIArtifactIndexFromPaths
  <2>1. pc = "index" /\ GoesOn("attest", ci, [rep EXCEPT !.index = i])
    BY <1>4, StageEnds DEF Index
  <2> HIDE DEF i
  <2>2. Goes("index", "attest", {"index"}) /\ ci' = ci
    BY <2>1, FieldsAre DEF GoesOn, Goes, Fields, Stages, Found, TypeOK
  <2> QED BY <1>2, <2>2
<1> QED BY <1>1, <1>3, <1>4
-----------------------------------------------------------------------------
(* From the release manifest on.                                           *)
LEMMA ReleaseIs == ci.status = "fail" => ReleaseOf.status = "fail"
<1> SUFFICES ASSUME ci.status = "fail"  PROVE ReleaseOf.status = "fail"
  OBVIOUS
<1> DEFINE all == {ci.status, rep.gate.status, rep.index.status, rep.matrix, rep.flakes, rep.verify}
           checks == {[status |-> s] : s \in all}
<1>1. \E c \in checks : c.status = "fail"
  <2>1. [status |-> ci.status] \in checks
    OBVIOUS
  <2> QED BY <2>1
<1>2. ReleaseOf.status = Verdict(checks, "pass")
  BY DEF ReleaseOf, BuildReleaseBundleManifest
<1> HIDE DEF checks
<1> QED BY <1>1, <1>2, VerdictIs

(* The release manifest takes in the verdict of the stages before it.      *)
LEMMA AttestFound == ASSUME Found, Attest, DiskTyped'  PROVE Found'
<1> DEFINE release == ReleaseOf
           a == AttestationOf(release, Inventory)
           s == CompareDependencyInventory(Inventory, SbomFile)
<1>1. /\ pc = "attest"
      /\ \/ Aborted
         \/ GoesOn("package", ci, [rep EXCEPT !.release = release, !.att = a, !.sbom = s])
  BY StageEnds DEF Attest, Attested
<1>2. ci.status = "fail" => release.status = "fail"
  BY ReleaseIs
<1> HIDE DEF release, a, s
<1>3. CASE Aborted
  BY <1>3, AbortFound
<1>4. CASE GoesOn("package", ci, [rep EXCEPT !.release = release, !.att = a, !.sbom = s])
  <2> DEFINE fs == {"release", "att", "sbom"}
  <2>1. Goes("attest", "package", fs)
    BY <1>1, <1>4, FieldsAre DEF GoesOn, Goes, Fields, Stages, Found, TypeOK
  <2>2. rep'.release = release /\ ci' = ci
    BY <1>4, FieldsAre DEF GoesOn, Found, TypeOK, Fields
  <2>3. \A f \in {"mismatches", "gate", "repro", "verify", "zip", "zipStatus", "evidence"} :
           rep'[f] = rep[f]
    BY <2>1 DEF Goes, Fields
  <2>4. FailedEarly' <=> FailedEarly
    BY <2>1, <2>3, EarlyStays DEF Goes
  <2>5. FailedSoFar' <=> FailedSoFar \/ FALSE
    <3>1. FailedEarly' <=> FailedEarly \/ FALSE
      BY <2>4
    <3> QED BY <2>1, <2>3, <3>1, LateStays DEF Goes
  <2>6. ci' = FailIf(FALSE)
    BY <2>2 DEF FailIf
  <2>7. VerdictSoFar'
    BY <2>1, <2>5, <2>6, FailIfTells
  <2>8. Blank'
    BY <2>1, <2>3 DEF Found, Blank, Goes, Fields, Stages
  <2>9. FailedEarly => ci.status = "fail"
    BY <2>1 DEF Found, VerdictSoFar, FailedSoFar, Goes
  <2>10. ReleaseTells'
    BY <1>2, <2>2, <2>4, <2>9 DEF ReleaseTells
  <2>11. AuditTells' /\ GoIsClean'
    BY <2>1 DEF AuditTells, GoIsClean, Goes
  <2>12. ci' \in [status : {"pass", "warn", "fail"}, exit : {0, 1}]
    BY <2>6, FailIfTyped
  <2>13. TypeOK' /\ OnlyInspects' /\ Running' /\ FailureExits' /\ GoMeansClean'
    BY <2>1, <2>12, GoesTyped
  <2> QED BY <2>7, <2>8, <2>10, <2>11, <2>13 DEF Found
<1> QED BY <1>1, <1>3, <1>4

(* The package that was given for inspection, and the comparison, count.   *)
LEMMA PackageFound == ASSUME Found, Package, DiskTyped'  PROVE Found'
<1> DEFINE asked == Given("inspect-zip")
           inspected == CASE asked -> InspectReleaseHandoffZipBytes(in.zip)
                          [] OTHER -> IF OwnPackage THEN "pass" ELSE ""
           files == IF asked THEN FilesOf(in.zip) ELSE [p \in HandoffFiles |-> {"new"}]
           compared == IF Given("zip-baseline") /\ inspected # ""
                         THEN CompareReleaseHandoffPackageInspection(files, in.zipBase) ELSE NoZip
           c == (asked /\ inspected = "fail") \/ compared.status = "fail"
<1>1. /\ pc = "package"
      /\ \/ Aborted
         \/ GoesOn("audit", FailIf((asked /\ inspected = "fail") \/ compared.status = "fail"),
                   [rep EXCEPT !.zipStatus = inspected, !.zip = compared])
  BY StageEnds DEF Package, Packaged
<1>2. asked = Given("inspect-zip")
  OBVIOUS
<1> HIDE DEF asked, inspected, files, compared
<1>3. CASE Aborted
  BY <1>3, AbortFound
<1>4. CASE GoesOn("audit", FailIf(c), [rep EXCEPT !.zipStatus = inspected, !.zip = compared])
  <2>1. Goes("package", "audit", {"zip", "zipStatus"})
    BY <1>1, <1>4, FieldsAre DEF GoesOn, Goes, Fields, Stages, Found, TypeOK
  <2>2. rep'.zipStatus = inspected /\ rep'.zip = compared /\ ci' = FailIf(c)
    BY <1>4, FieldsAre DEF GoesOn, Found, TypeOK, Fields
  <2>3. \A f \in {"mismatches", "gate", "repro", "verify", "evidence", "release", "decision"} :
           rep'[f] = rep[f]
    BY <2>1 DEF Goes, Fields
  <2>4. FailedEarly' <=> FailedEarly
    BY <2>1, <2>3, EarlyStays DEF Goes
  <2>5. rep.zip = NoZip /\ rep.zipStatus = "" /\ rep.evidence = "" /\ rep.decision = ""
    BY <2>1 DEF Found, Blank, Goes, Stages
  <2>6. NoZip.status = ""
    BY DEF NoZip
  <2>7. FailedSoFar' <=> FailedSoFar \/ c
    BY <1>2, <2>1, <2>2, <2>3, <2>4, <2>5, <2>6 DEF FailedSoFar, Goes, Given
  <2>8. VerdictSoFar'
    BY <2>1, <2>2, <2>7, FailIfTells
  <2>9. Blank'
    BY <2>1, <2>3, <2>5 DEF Blank, Goes, Stages
  <2>10. ReleaseTells'
    BY <2>1, <2>3, <2>4 DEF Found, ReleaseTells, Goes
  <2>11. AuditTells' /\ GoIsClean'
    BY <2>1 DEF AuditTells, GoIsClean, Goes
  <2>12. ci' \in [status : {"pass", "warn", "fail"}, exit : {0, 1}]
    BY <2>2, FailIfTyped
  <2>13. TypeOK' /\ OnlyInspects' /\ Running' /\ FailureExits' /\ GoMeansClean'
    BY <2>1, <2>12, GoesTyped
  <2> QED BY <2>8, <2>9, <2>10, <2>11, <2>13 DEF Found
<1> QED BY <1>1, <1>3, <1>4
(* The audit's gate fails when the release or the package did, and a       *)
(* release whose gate fails is a no-go.                                    *)
LEMMA ReleaseGateFails ==
    ASSUME NEW p, NEW policy, p.release.status = "fail" \/ p.zip.status = "fail"
    PROVE  BuildReleaseVerificationGateReport(p, policy).status = "fail"
<1> DEFINE checks == ReleaseGateChecks(p, policy)
<1>1. CASE p.release.status = "fail"
  <2>1. Check("release-status", "fail") \in Grade("release-status", p.release.status \in Failing
            \/ (policy.releasePass /\ p.release.status # "pass"), FALSE)
    BY <1>1 DEF Grade, Failing
  <2>2. Check("release-status", "fail") \in checks
    BY <2>1 DEF ReleaseGateChecks
  <2> QED BY <2>2, VerdictIs DEF BuildReleaseVerificationGateReport, Check
<1>2. CASE p.zip.status = "fail"
  <2>1. Check("release-zip-compare", "fail") \in
            Grade("release-zip-compare", p.zip.status = "fail", p.zip.status = "warn")
    BY <1>2 DEF Grade
  <2>2. Check("release-zip-compare", "fail") \in checks
    BY <2>1 DEF ReleaseGateChecks
  <2> QED BY <2>2, VerdictIs DEF BuildReleaseVerificationGateReport, Check
<1> QED BY <1>1, <1>2

(* A release that failed fails the audit, a comparison that failed too.    *)
LEMMA AuditIs ==
    ASSUME NEW p, NEW retention, NEW policy
    PROVE  LET a == BuildReleaseAuditReport(p, retention, policy)
           IN  /\ a.gate.exit \in {0, 1} /\ (a.gate.exit = 1 <=> a.gate.status = "fail")
               /\ a.gate.status # "fail" => p.release.status # "fail" /\ p.zip.status # "fail"
<1> DEFINE audit == BuildRetentionAudit(retention, policy)
           score == BuildReleaseVerificationScore(
                       [release |-> p.release.status, attestation |-> p.att.status,
                        sbom |-> p.sbom.status, release_zip |-> p.zip.status,
                        retention |-> audit.status, matrix_flakes |-> p.flakes])
           whole == [release |-> p.release, att |-> p.att, sbom |-> p.sbom, zip |-> p.zip,
                     audit |-> audit, score |-> score]
           gate == BuildReleaseVerificationGateReport(whole, policy)
<1>1. BuildReleaseAuditReport(p, retention, policy).gate = gate
  BY DEF BuildReleaseAuditReport
<1>2. whole.release = p.release /\ whole.zip = p.zip
  OBVIOUS
<1> HIDE DEF whole
<1>3. gate.exit \in {0, 1} /\ (gate.exit = 1 <=> gate.status = "fail")
  BY ReleaseGateIs
<1>4. gate.status # "fail" => whole.release.status # "fail" /\ whole.zip.status # "fail"
  BY ReleaseGateFails
<1> HIDE DEF gate
<1> QED BY <1>1, <1>2, <1>3, <1>4

(* The decision is no-go when the gate of the audit failed.                *)
LEMMA DecisionIs ==
    ASSUME NEW a, NEW w, NEW calendar, NEW policy, a.gate.status = "fail"
    PROVE  BuildFinalReleaseDecision(a, w, calendar, policy) = "no-go"
BY DEF BuildFinalReleaseDecision, Blocking

(* The audit: a go means that gate, manifest and comparison did not fail.  *)
LEMMA AuditFound == ASSUME Found, Audit, DiskTyped'  PROVE Found'
<1> DEFINE audit == AuditOf
           issues == ExtractReleaseAuditIssues(audit)
           waivers == BuildReleaseWaiverReport(issues, WaiverFile)
           calendar == BuildWaiverExpiryCalendar(WaiverFile, Policy.soonDays)
           todos == BuildReleaseAuditTodoReport(issues, waivers)
           decision == BuildFinalReleaseDecision(audit, waivers, calendar, Policy)
           found == [rep EXCEPT !.audit = audit, !.issues = issues, !.waivers = waivers,
                                !.todos = todos, !.calendar = calendar, !.decision = decision]
<1>1. pc = "audit" /\ (Aborted \/ GoesOn("evidence", ci, found))
  BY StageEnds DEF Audit, Judged, Audited, Decided
<1>2. /\ audit.gate.exit \in {0, 1} /\ (audit.gate.exit = 1 <=> audit.gate.status = "fail")
      /\ audit.gate.status # "fail" => rep.release.status # "fail" /\ rep.zip.status # "fail"
  <2> DEFINE p == [release |-> rep.release, att |-> rep.att, sbom |-> rep.sbom, zip |-> rep.zip,
                   flakes |-> rep.flakes]
  <2>1. audit = BuildReleaseAuditReport(p, BuildRetentionManifest(rep.index, rep.release), Policy)
    BY DEF AuditOf
  <2>2. p.release = rep.release /\ p.zip = rep.zip
    OBVIOUS
  <2> HIDE DEF p, audit
  <2> QED BY <2>1, <2>2, AuditIs
<1>3. decision \in {"go", "go-with-watch"} => audit.gate.status # "fail"
  BY DecisionIs
<1> HIDE DEF audit, issues, waivers, calendar, todos, decision
<1>4. CASE Aborted
  BY <1>4, AbortFound
<1>5. CASE GoesOn("evidence", ci, found)
  <2> DEFINE fs == {"audit", "issues", "waivers", "todos", "calendar", "decision"}
  <2>1. Goes("audit", "evidence", fs)
    BY <1>1, <1>5, FieldsAre DEF GoesOn, Goes, Fields, Stages, Found, TypeOK
  <2>2. rep'.audit = audit /\ rep'.decision = decision /\ ci' = ci
    BY <1>5, FieldsAre DEF GoesOn, Found, TypeOK, Fields
  <2>3. \A f \in {"mismatches", "gate", "repro", "verify", "zip", "zipStatus", "evidence",
                  "release"} : rep'[f] = rep[f]
    BY <2>1 DEF Goes, Fields
  <2>4. FailedEarly' <=> FailedEarly
    BY <2>1, <2>3, EarlyStays DEF Goes
  <2>5. FailedSoFar' <=> FailedSoFar \/ FALSE
    <3>1. FailedEarly' <=> FailedEarly \/ FALSE
      BY <2>4
    <3> QED BY <2>1, <2>3, <3>1, LateStays DEF Goes
  <2>6. ci' = FailIf(FALSE)
    BY <2>2 DEF FailIf
  <2>7. VerdictSoFar'
    BY <2>1, <2>5, <2>6, FailIfTells
  <2>8. Blank'
    BY <2>1, <2>3 DEF Found, Blank, Goes, Stages
  <2>9. ReleaseTells /\ ReleaseTells'
    BY <2>1, <2>3, <2>4 DEF Found, ReleaseTells, Goes
  <2>10. AuditTells'
    BY <1>2, <2>2 DEF AuditTells
  <2>11. GoIsClean'
    BY <1>2, <1>3, <2>1, <2>2, <2>3, <2>4, <2>9 DEF GoIsClean, ReleaseTells, Goes
  <2>12. ci' \in [status : {"pass", "warn", "fail"}, exit : {0, 1}]
    BY <2>6, FailIfTyped
  <2>13. TypeOK' /\ OnlyInspects' /\ Running' /\ FailureExits' /\ GoMeansClean'
    BY <2>1, <2>12, GoesTyped
  <2> QED BY <2>7, <2>8, <2>9, <2>10, <2>11, <2>13 DEF Found
<1> QED BY <1>1, <1>4, <1>5

(* An inspected evidence package that fails counts, after the decision.    *)
LEMMA EvidenceFound == ASSUME Found, Evidence, DiskTyped'  PROVE Found'
<1> DEFINE found == IF Given("inspect-evidence")
                      THEN InspectReleaseEvidenceBundleZipBytes(in.evidence, EvidenceFiles)
                      ELSE ""
<1>1. /\ pc = "evidence"
      /\ Aborted \/ GoesOn("finish", FailIf(found = "fail"), [rep EXCEPT !.evidence = found])
  BY StageEnds DEF Evidence
<1> HIDE DEF found
<1>2. CASE Aborted
  BY <1>2, AbortFound
<1>3. CASE GoesOn("finish", FailIf(found = "fail"), [rep EXCEPT !.evidence = found])
  <2>1. Goes("evidence", "finish", {"evidence"})
    BY <1>1, <1>3, FieldsAre DEF GoesOn, Goes, Fields, Stages, Found, TypeOK
  <2>2. rep'.evidence = found /\ ci' = FailIf(found = "fail")
    BY <1>3, FieldsAre DEF GoesOn, Found, TypeOK, Fields
  <2>3. \A f \in {"mismatches", "gate", "repro", "verify", "zip", "zipStatus", "release",
                  "audit", "decision"} : rep'[f] = rep[f]
    BY <2>1 DEF Goes, Fields
  <2>4. FailedEarly' <=> FailedEarly
    BY <2>1, <2>3, EarlyStays DEF Goes
  <2>5. rep.evidence = ""
    BY <2>1 DEF Found, Blank, Goes, Stages
  <2>6. FailedSoFar' <=> FailedSoFar \/ found = "fail"
    BY <2>1, <2>2, <2>3, <2>4, <2>5 DEF FailedSoFar, Goes, Given
  <2>7. VerdictSoFar'
    BY <2>1, <2>2, <2>6, FailIfTells
  <2>8. Blank'
    BY <2>1, <2>3 DEF Found, Blank, Goes, Stages
  <2>9. ReleaseTells' /\ AuditTells' /\ GoIsClean'
    BY <2>1, <2>3, <2>4 DEF Found, ReleaseTells, AuditTells, GoIsClean, Goes
  <2>12. ci' \in [status : {"pass", "warn", "fail"}, exit : {0, 1}]
    BY <2>2, FailIfTyped
  <2>13. TypeOK' /\ OnlyInspects' /\ Running' /\ FailureExits' /\ GoMeansClean'
    BY <2>1, <2>12, GoesTyped
  <2> QED BY <2>7, <2>8, <2>9, <2>13 DEF Found
<1> QED BY <1>1, <1>2, <1>3
(* The end of a run that went through: the exit code tells what failed.    *)
LEMMA FinishFound == ASSUME Found, Finish  PROVE Found'
<1> DEFINE gate == rep.audit.gate
<1>1. /\ pc = "finish" /\ pc' = "exit" /\ in' = in /\ rep' = rep /\ disk' = disk
      /\ ci' = IF releaseAuditRequested THEN ApplyGate(gate) ELSE ci
      /\ code' = IF in.never THEN 0 ELSE ci'.exit
  BY DEF Finish
<1>2. gate.exit \in {0, 1} /\ (gate.exit = 1 <=> gate.status = "fail")
  BY <1>1 DEF Found, AuditTells
<1>3. ApplyGate(gate) = FailIf(gate.status = "fail")
  BY <1>2, ApplyGateIs
<1>4. releaseAuditRequested' = releaseAuditRequested
  BY <1>1 DEF releaseAuditRequested
<1> HIDE DEF gate
<1>5. /\ ci \in [status : {"pass", "warn", "fail"}, exit : {0, 1}]
      /\ ci.exit = 1 <=> ci.status = "fail"
      /\ ci.exit = 1 <=> FailedSoFar
  BY <1>1 DEF Found, TypeOK, VerdictSoFar
<1>6. /\ ci' \in [status : {"pass", "warn", "fail"}, exit : {0, 1}]
      /\ ci'.exit = 1 <=> ci'.status = "fail"
      /\ ci'.exit = 1 <=> FailedSoFar \/ (releaseAuditRequested /\ gate.status = "fail")
  BY <1>1, <1>3, <1>5 DEF FailIf
<1>7. Failed' <=> FailedSoFar \/ (releaseAuditRequested /\ gate.status = "fail")
  BY <1>1, <1>4 DEF Failed, FailedSoFar, FailedEarly, Given, gate
<1>8. FailureExits'
  BY <1>1, <1>6, <1>7 DEF FailureExits
<1>9. GoMeansClean'
  <2> SUFFICES ASSUME code' = 1, rep.decision \in {"go", "go-with-watch"}
               PROVE  (Given("inspect-zip") /\ rep.zipStatus = "fail") \/ rep.evidence = "fail"
    BY <1>1 DEF GoMeansClean, Given
  <2>1. ci'.exit = 1
    BY <1>1, <1>6
  <2>2. gate.status # "fail" /\ ~FailedEarly /\ rep.zip.status # "fail"
    BY <1>1 DEF Found, GoIsClean, gate
  <2> QED BY <1>6, <2>1, <2>2 DEF FailedSoFar
<1>10. code' \in 0 .. 2
  BY <1>1, <1>6
<1>11. TypeOK'
  BY <1>1, <1>6, <1>10 DEF Found, TypeOK, Stages
<1>12. Blank' /\ AuditTells' /\ ReleaseTells' /\ GoIsClean' /\ Running'
  BY <1>1 DEF Blank, AuditTells, ReleaseTells, GoIsClean, Running, Stages
<1>13. VerdictSoFar'
  BY <1>1, <1>6 DEF VerdictSoFar
<1>14. OnlyInspects'
  BY <1>1 DEF Found, OnlyInspects
<1> QED BY <1>8, <1>9, <1>11, <1>12, <1>13, <1>14 DEF Found

(* A run that only inspects a package reports no decision.                 *)
LEMMA InspectFound == ASSUME Found, InspectOnly  PROVE Found'
<1>1. /\ in.inspect.only /\ pc' = "exit" /\ code' \in 0 .. 2
      /\ in' = in /\ ci' = ci /\ rep' = rep /\ disk' = disk
  BY DEF InspectOnly
<1>2. TypeOK'
  BY <1>1 DEF Found, TypeOK, Stages
<1>3. Blank' /\ AuditTells' /\ ReleaseTells' /\ GoIsClean' /\ Running'
  BY <1>1 DEF Blank, AuditTells, ReleaseTells, GoIsClean, Running, Stages
<1>4. VerdictSoFar'
  BY <1>1 DEF Found, VerdictSoFar
<1>5. OnlyInspects' /\ FailureExits' /\ GoMeansClean'
  BY <1>1 DEF Found, OnlyInspects, FailureExits, GoMeansClean
<1> QED BY <1>2, <1>3, <1>4, <1>5 DEF Found

-----------------------------------------------------------------------------
(* Files: a stage leaves each output as it was, or writes it.              *)
LEMMA WrittenTyped ==
    ASSUME DiskTyped, NEW events, NEW n
    PROVE  WrittenBefore(events, n) \in [Outputs -> {"none", "stale", "new", "partial"}]
BY DEF DiskTyped, WrittenBefore

(* A stage leaves the disk typed, finished or aborted.                     *)
LEMMA StageTyped ==
    ASSUME DiskTyped, NEW here, NEW next, NEW events, NEW newCi, NEW newRep,
           Stage(here, next, events, newCi, newRep)
    PROVE  DiskTyped'
BY WrittenTyped DEF Stage, Proceed, Abort, DiskTyped, Zips, Outputs

(* And so does every step.                                                 *)
LEMMA NextTyped ==
    ASSUME DiskTyped, Next
    PROVE  DiskTyped'
<1>1. CASE InspectOnly \/ Finish
  BY <1>1 DEF InspectOnly, Finish, DiskTyped
<1>2. CASE Load
  BY <1>2, StageTyped DEF Load, DiskTyped
<1>3. CASE verifyArtifacts
  BY <1>3, StageTyped DEF verifyArtifacts
<1>4. CASE Gate
  BY <1>4, StageTyped DEF Gate, Gated
<1>5. CASE Repro
  BY <1>5, StageTyped DEF Repro
<1>6. CASE Checksum
  BY <1>6, StageTyped DEF Checksum
<1>7. CASE WriteReports
  BY <1>7, StageTyped DEF WriteReports
<1>8. CASE Index
  BY <1>8, StageTyped DEF Index
<1>9. CASE Attest
  BY <1>9, StageTyped DEF Attest, Attested
<1>10. CASE Package
  BY <1>10, StageTyped DEF Package, Packaged
<1>11. CASE Audit
  BY <1>11, StageTyped DEF Audit, Judged, Audited, Decided
<1>12. CASE Evidence
  BY <1>12, StageTyped DEF Evidence
<1> QED BY <1>1, <1>2, <1>3, <1>4, <1>5, <1>6, <1>7, <1>8, <1>9, <1>10, <1>11, <1>12 DEF Next
-----------------------------------------------------------------------------
(* The invariant holds of a run that has not started.                      *)
LEMMA FoundInit == Init => Found
<1> SUFFICES ASSUME Init  PROVE Found
  OBVIOUS
<1>1. TypeOK
  BY DEF Init, TypeOK, Stages
<1>2. /\ rep.mismatches = 0 /\ rep.gate.status = "pass" /\ rep.repro = "" /\ rep.verify = ""
      /\ rep.zip = NoZip /\ rep.zipStatus = "" /\ rep.evidence = "" /\ rep.decision = ""
  BY DEF Init, Nothing
<1>3. Blank
  BY <1>2 DEF Blank
<1>4. VerdictSoFar /\ Running
  BY DEF Init, VerdictSoFar, Running
<1>6. OnlyInspects
  BY <1>2 DEF Init, OnlyInspects
<1>5. AuditTells /\ ReleaseTells /\ GoIsClean /\ FailureExits /\ GoMeansClean
  BY DEF Init, AuditTells, ReleaseTells, GoIsClean, FailureExits, GoMeansClean
<1> QED BY <1>1, <1>3, <1>4, <1>5, <1>6 DEF Found

(* Every stage keeps it.                                                   *)
LEMMA FoundStep == Found /\ [Next]_vars => Found'
<1> SUFFICES ASSUME Found, [Next]_vars  PROVE Found'
  OBVIOUS
<1>1. CASE UNCHANGED vars
  <2>1. TypeOK' /\ Blank' /\ VerdictSoFar' /\ Running' /\ OnlyInspects'
    BY <1>1 DEF Found, vars, TypeOK, Blank, VerdictSoFar, FailedSoFar, FailedEarly, Given,
                Running, OnlyInspects
  <2>2. AuditTells' /\ ReleaseTells' /\ GoIsClean'
    BY <1>1 DEF Found, vars, AuditTells, ReleaseTells, GoIsClean, FailedEarly
  <2>3. FailureExits' /\ GoMeansClean'
    BY <1>1 DEF Found, vars, FailureExits, GoMeansClean, Failed, Given, releaseAuditRequested
  <2> QED BY <2>1, <2>2, <2>3 DEF Found
<1>2. CASE Next
  <2>1. DiskTyped'
    BY <1>2, NextTyped DEF Found, TypeOK, DiskTyped
  <2> QED BY <1>2, <2>1, InspectFound, LoadFound, VerifyFound, GateFound, ReproFound,
             ChecksumFound, IndexFound, AttestFound, PackageFound, AuditFound,
             EvidenceFound, FinishFound DEF Next
<1> QED BY <1>1, <1>2

(* It holds throughout a run.                                              *)
LEMMA FoundThroughout == Spec => []Found
BY FoundInit, FoundStep, PTL DEF Spec

(* The fields of a run keep their types.                                   *)
THEOREM TypeCorrect == Spec => []TypeOK
<1>1. Found => TypeOK
  BY DEF Found
<1> QED BY <1>1, FoundThroughout, PTL

(* Whatever a stage found that it was asked to check, and whatever later   *)
(* stages found, the process exits with 1 exactly when something failed.   *)
THEOREM ExitTellsFailure == Spec => []FailureExits
<1>1. Found => FailureExits
  BY DEF Found
<1> QED BY <1>1, FoundThroughout, PTL

(* A go beside a failure of the process means a failure found behind the   *)
(* release manifest, in a package given for inspection.                    *)
THEOREM GoIsNotContradicted == Spec => []GoMeansClean
<1>1. Found => GoMeansClean
  BY DEF Found
<1> QED BY <1>1, FoundThroughout, PTL
-----------------------------------------------------------------------------
(* A set as a sequence: InOrder folds Append over it.                      *)

(* A non-empty set of naturals has a least element.                        *)
LEMMA LeastNatural ==
    ASSUME NEW T \in SUBSET Nat, T # {}
    PROVE  \E m \in T : \A n \in T : m <= n
<1>1. PICK m \in T : \A n \in T : <<n, m>> \notin OpToRel(<, Nat)
  BY NatLessThanWellFounded, WFMin, Zenon
<1>2. ASSUME NEW n \in T, n < m  PROVE <<n, m>> \in OpToRel(<, Nat)
  <2>1. <<n, m>> \in Nat \X Nat /\ <<n, m>>[1] < <<n, m>>[2]
    BY <1>2
  <2> QED BY <2>1, Zenon DEF OpToRel
<1>3. \A n \in T : ~(n < m)
  BY <1>1, <1>2, Zenon
<1> QED BY <1>3

Pick(s) == CHOOSE x \in s : TRUE
Listing(g, s) == IF s = {} THEN <<>> ELSE Append(g[s \ {Pick(s)}], Pick(s))
Lists(g, S) == g = [s \in SUBSET S |-> Listing(g, s)]

(* The fold is a choice of a function over all subsets.                    *)
LEMMA InOrderIs ==
    ASSUME NEW S
    PROVE  InOrder(S) = (CHOOSE g : Lists(g, S))[S]
BY DEF InOrder, FoldSet, MapThenFoldSet, Lists, Listing, Pick

(* Without the picked element a finite set is smaller.                     *)
LEMMA PickRemoves ==
    ASSUME NEW S, IsFiniteSet(S), NEW s \in SUBSET S, s # {}
    PROVE  /\ Pick(s) \in s /\ s \ {Pick(s)} \in SUBSET S
           /\ Cardinality(s) \in Nat \ {0}
           /\ Cardinality(s \ {Pick(s)}) = Cardinality(s) - 1
<1>1. Pick(s) \in s
  BY DEF Pick
<1>2. IsFiniteSet(s)
  BY FS_Subset
<1>3. Cardinality(s) \in Nat /\ Cardinality(s) # 0
  BY <1>2, FS_CardinalityType, FS_EmptySet
<1>4. Cardinality(s \ {Pick(s)}) = Cardinality(s) - 1
  BY <1>1, <1>2, FS_RemoveElement
<1> QED BY <1>1, <1>3, <1>4

(* There is such a listing of every finite set: of sets up to any size.    *)
LEMMA ListingExists ==
    ASSUME NEW S, IsFiniteSet(S)
    PROVE  \E g : Lists(g, S)
<1> DEFINE Upto(n) == \E g : /\ g = [s \in SUBSET S |-> g[s]]
                             /\ \A s \in SUBSET S : Cardinality(s) <= n => g[s] = Listing(g, s)
           Bad == {n \in Nat : ~Upto(n)}
<1>1. Bad = {}
  <2> SUFFICES ASSUME Bad # {}  PROVE FALSE
    OBVIOUS
  <2>1. PICK n \in Bad : \A i \in Bad : n <= i
    <3>1. Bad \in SUBSET Nat
      OBVIOUS
    <3>2. \E n \in Bad : \A i \in Bad : n <= i
      BY <3>1, LeastNatural, Zenon
    <3> QED BY <3>2
  <2>2. \E f : /\ f = [s \in SUBSET S |-> f[s]]
               /\ \A s \in SUBSET S : Cardinality(s) < n => f[s] = Listing(f, s)
    <3>1. CASE n = 0
      <4> DEFINE f == [s \in SUBSET S |-> <<>>]
      <4>1. f = [s \in SUBSET S |-> f[s]]
        OBVIOUS
      <4>2. \A s \in SUBSET S : ~(Cardinality(s) < n)
        BY <3>1, FS_Subset, FS_CardinalityType
      <4> QED BY <4>1, <4>2
    <3>2. CASE n # 0
      <4>1. Upto(n - 1)
        <5> HIDE DEF Upto
        <5>1. n \in Nat /\ n - 1 \in Nat
          BY <2>1, <3>2
        <5>2. n - 1 \notin Bad
          <6> HIDE DEF Bad
          <6> QED BY <2>1, <5>1
        <5> QED BY <5>1, <5>2
      <4>2. PICK f : /\ f = [s \in SUBSET S |-> f[s]]
                     /\ \A s \in SUBSET S : Cardinality(s) <= n - 1 => f[s] = Listing(f, s)
        BY <4>1
      <4>3. n \in Nat /\ \A s \in SUBSET S : Cardinality(s) \in Nat
        BY <2>1, FS_Subset, FS_CardinalityType
      <4>4. \A s \in SUBSET S : Cardinality(s) < n => f[s] = Listing(f, s)
        <5> SUFFICES ASSUME NEW s \in SUBSET S, Cardinality(s) < n
                     PROVE  f[s] = Listing(f, s)
          OBVIOUS
        <5>1. Cardinality(s) <= n - 1
          BY <4>3
        <5> QED BY <4>2, <5>1
      <4> QED BY <4>2, <4>4
    <3> QED BY <3>1, <3>2
  <2>3. PICK f : /\ f = [s \in SUBSET S |-> f[s]]
                 /\ \A s \in SUBSET S : Cardinality(s) < n => f[s] = Listing(f, s)
    BY <2>2
  <2> DEFINE g == [s \in SUBSET S |-> Listing(f, s)]
  <2>4. ASSUME NEW s \in SUBSET S, Cardinality(s) <= n  PROVE g[s] = Listing(g, s)
    <3>1. CASE s = {}
      BY <3>1 DEF Listing
    <3>2. CASE s # {}
      <4> DEFINE r == s \ {Pick(s)}
      <4>1. r \in SUBSET S /\ Cardinality(r) < n
        BY <2>4, <3>2, PickRemoves
      <4>2. g[r] = Listing(f, r) /\ f[r] = Listing(f, r)
        BY <2>3, <4>1
      <4>3. g[s] = Append(f[r], Pick(s)) /\ Listing(g, s) = Append(g[r], Pick(s))
        BY <3>2 DEF Listing
      <4> QED BY <4>2, <4>3
    <3> QED BY <3>1, <3>2
  <2>5. g = [s \in SUBSET S |-> g[s]]
    OBVIOUS
  <2> HIDE DEF g
  <2>6. Upto(n)
    BY <2>4, <2>5
  <2> QED BY <2>1, <2>6
<1>2. Cardinality(S) \in Nat
  BY FS_CardinalityType
<1>3. PICK g : /\ g = [s \in SUBSET S |-> g[s]]
               /\ \A s \in SUBSET S : Cardinality(s) <= Cardinality(S) => g[s] = Listing(g, s)
  BY <1>1, <1>2
<1>4. \A s \in SUBSET S : g[s] = Listing(g, s)
  BY <1>3, FS_Subset
<1> QED BY <1>3, <1>4 DEF Lists

(* The sequence of a finite set holds nothing but its elements.            *)
LEMMA InOrderHolds ==
    ASSUME NEW S, IsFiniteSet(S)
    PROVE  InOrder(S) \in Seq(S)
<1> DEFINE g == CHOOSE f : Lists(f, S)
<1>1. Lists(g, S)
  BY ListingExists, Zenon
<1>2. InOrder(S) = g[S]
  BY InOrderIs
<1> HIDE DEF g
<1> DEFINE Bad == {n \in Nat : \E s \in SUBSET S : Cardinality(s) = n /\ g[s] \notin Seq(S)}
<1>3. Bad = {}
  <2> SUFFICES ASSUME Bad # {}  PROVE FALSE
    OBVIOUS
  <2>1. PICK n \in Bad : \A i \in Bad : n <= i
    <3>1. Bad \in SUBSET Nat
      OBVIOUS
    <3>2. \E n \in Bad : \A i \in Bad : n <= i
      BY <3>1, LeastNatural, Zenon
    <3> QED BY <3>2
  <2>2. PICK s \in SUBSET S : Cardinality(s) = n /\ g[s] \notin Seq(S)
    BY <2>1
  <2>3. g[s] = Listing(g, s)
    BY <1>1 DEF Lists
  <2>4. s # {}
    BY <2>2, <2>3 DEF Listing
  <2> DEFINE r == s \ {Pick(s)}
  <2>5. /\ Pick(s) \in S /\ r \in SUBSET S
        /\ Cardinality(r) = n - 1 /\ n - 1 \in Nat
    BY <2>2, <2>4, PickRemoves
  <2>6. g[r] \in Seq(S)
    BY <2>1, <2>5
  <2>7. g[s] = Append(g[r], Pick(s))
    BY <2>3, <2>4 DEF Listing
  <2> HIDE DEF r
  <2> QED BY <2>2, <2>5, <2>6, <2>7
<1>4. S \in SUBSET S /\ Cardinality(S) \in Nat
  BY FS_CardinalityType
<1> QED BY <1>2, <1>3, <1>4

-----------------------------------------------------------------------------
(* The index.  The events of a stage that writes nothing but S.            *)
ReadPaths == {"bundle", "trace", "console", "baseline", "policy", "inspect-repro", "checksums",
              "sbom-baseline", "inspect-zip", "release-zip", "zip-baseline", "release-policy",
              "audit-baseline", "waivers", "release-evidence-zip", "inspect-evidence"}
Into(S) == {v \in [do : {"read", "write"}, path : ReadPaths \cup Outputs] : 
                                                v.do = "write" => v.path \in S /\ ~in.dry}

Writing(S) == Seq(Into(S))

(* A file that is read may be any, one that is written is in S, and none   *)
(* is in a dry run.                                                        *)
LEMMA EventsInto ==
    ASSUME NEW S, NEW p \in ReadPaths \cup Outputs
    PROVE  Reads(p) \in Writing(S) /\ (p \in S => Writes(p) \in Writing(S))
<1> DEFINE r == [do |-> "read", path |-> p]
           w == [do |-> "write", path |-> p]
<1>1. r \in Into(S) /\ (p \in S /\ ~in.dry => w \in Into(S))
  BY DEF Into
<1>2. /\ Reads(p) \in {<<>>, <<r>>} /\ Writes(p) \in {<<>>, <<w>>}
      /\ in.dry => Writes(p) = <<>>
  BY DEF Reads, Writes
<1> HIDE DEF r, w
<1>3. /\ <<>> \in Writing(S)
      /\ \A v \in Into(S) : <<v>> \in Writing(S)
  BY DEF Writing
<1>4. <<>> \in Writing(S) /\ <<r>> \in Writing(S)
  BY <1>1, <1>3
<1>5. p \in S /\ ~in.dry => <<w>> \in Writing(S)
  BY <1>1, <1>3
<1> QED BY <1>2, <1>4, <1>5, Zenon

(* One stretch of events behind another.                                   *)
LEMMA BothInto ==
    ASSUME NEW S, NEW d \in Writing(S), NEW e \in Writing(S)
    PROVE  d \o e \in Writing(S)
BY DEF Writing

(* Events that write S leave every other file as it was; a dry run leaves  *)
(* them all.                                                               *)
Leaves(S) == \A o \in Outputs : \/ disk'[o] = disk[o]
                                \/ o \in S /\ ~in.dry /\ disk'[o] = "new"
Kept(S) == /\ in' = in /\ code' = code /\ rep'.index = rep.index
           /\ Leaves(S)
(* A stage that writes into S alone leaves the other outputs as they were. *)
LEMMA StageKeeps ==
    ASSUME NEW here, NEW next, NEW events, NEW newCi, NEW newRep, NEW S,
           Stage(here, next, events, newCi, newRep),
           events \in Writing(S)
    PROVE  \/ Aborted
           \/ /\ pc = here /\ pc' = next /\ in' = in /\ code' = code /\ rep' = newRep
              /\ Leaves(S)
<1>1. CASE Abort(events)
  BY <1>1 DEF Abort, Aborted
<1>2. CASE Proceed(next, events, newCi, newRep)
  <2>1. ASSUME NEW o \in Outputs
        PROVE  disk'[o] = disk[o] \/ (o \in S /\ ~in.dry /\ disk'[o] = "new")
    <3>1. ASSUME NEW i \in 1 .. Len(events), events[i] = [do |-> "write", path |-> o]
          PROVE  o \in S /\ ~in.dry
      <4>1. events[i] \in Into(S)
        BY DEF Writing
      <4> QED BY <3>1, <4>1 DEF Into
    <3>2. 1 .. (Len(events) + 1) - 1 = 1 .. Len(events)
      BY DEF Writing
    <3> QED BY <1>2, <3>1, <3>2 DEF Proceed, WrittenBefore
  <2>2. Leaves(S)
    BY <2>1 DEF Leaves
  <2> QED BY <1>2, <2>2 DEF Proceed, Stage
<1> QED BY <1>1, <1>2 DEF Stage

-----------------------------------------------------------------------------
(* What the index says, before it is made and from then on.                *)
EarlyOutputs == {"matrix-summary", "checksum-verify", "junit", "html", "sarif", "repro-zip"}
(* Three kinds of outputs: before the index, behind it, and its own.       *)
LEMMA OutputsAre ==
    /\ Outputs = EarlyOutputs \cup WrittenLater \cup NotIndexed
    /\ EarlyOutputs \cap WrittenLater = {} /\ NotIndexed \cap WrittenLater = {}
    /\ EarlyOutputs \cap NotIndexed = {}
BY DEF Outputs, EarlyOutputs, WrittenLater, NotIndexed, AuditOutputs

AsLeft == \A o \in WrittenLater : disk[o] = IF o \in in.stale THEN "stale" ELSE "none"
Told(e) ==
    \/ /\ e.path \in in.stale \cap WrittenLater /\ e.data = "stale"
       /\ disk[e.path] = "stale" \/ (~in.dry /\ disk[e.path] = "new")
    \/ e.path \in EarlyOutputs /\ e.data = disk[e.path]
IndexSoFar ==
    /\ pc \in {"start"} \cup Early => rep.index.entries = {} /\ AsLeft
    /\ code # 2 => \A e \in rep.index.entries : Told(e)

(* Before the index is made only reports are written.                      *)
LEMMA EarlyKeeps ==
    ASSUME IndexSoFar, Kept(EarlyOutputs), pc \in {"start"} \cup Early
    PROVE  IndexSoFar'
<1>1. rep'.index.entries = {}
  BY DEF IndexSoFar, Kept
<1>2. AsLeft'
  BY OutputsAre DEF IndexSoFar, AsLeft, Kept, Leaves
<1> QED BY <1>1, <1>2 DEF IndexSoFar

(* Behind it, only what may have been left by an earlier run.              *)
LEMMA LateKeeps ==
    ASSUME IndexSoFar, Kept(WrittenLater), pc' \notin {"start"} \cup Early
    PROVE  IndexSoFar'
<1> SUFFICES ASSUME code # 2, NEW e \in rep.index.entries  PROVE Told(e)'
  BY DEF IndexSoFar, Kept
<1>1. Told(e)
  BY DEF IndexSoFar
<1> QED BY <1>1, OutputsAre DEF Told, Kept, Leaves

(* An end with exit code 2 claims nothing.                                 *)
LEMMA AbortKeeps ==
    ASSUME Aborted
    PROVE  IndexSoFar'
BY DEF Aborted, IndexSoFar, Early

(* What a stage may read, and what it writes.                              *)
LEMMA PathsAre ==
    /\ \A p \in ReadPaths : Reads(p) \in Writing(EarlyOutputs) /\ Reads(p) \in Writing(WrittenLater)
    /\ \A p \in EarlyOutputs : Writes(p) \in Writing(EarlyOutputs)
    /\ \A p \in WrittenLater : Writes(p) \in Writing(WrittenLater)
    /\ \A p \in NotIndexed : Writes(p) \in Writing(NotIndexed)
<1> QED BY OutputsAre, EventsInto
(* No events at all write nothing.                                         *)
LEMMA NoEvents == \A S : <<>> \in Writing(S)
BY DEF Writing

(* The stages before the index.                                            *)
LEMMA EarlyStagesKeep ==
    ASSUME Found, Load \/ verifyArtifacts \/ Gate \/ Repro \/ Checksum \/ WriteReports
    PROVE  Aborted \/ (Kept(EarlyOutputs) /\ pc \in {"start"} \cup Early)
<1>0. "index" \in DOMAIN rep
  BY FieldsAre DEF Found, TypeOK, Fields
<1>1. CASE Load
  <2>1. Reads("bundle") \o Reads("trace") \o Reads("console") \in Writing(EarlyOutputs)
    <3>1. \A p \in {"bundle", "trace", "console"} : Reads(p) \in Writing(EarlyOutputs)
      BY PathsAre DEF ReadPaths
    <3> QED BY <3>1, BothInto
  <2>2. CASE Aborted
    BY <2>2
  <2>3. CASE ~Aborted
    <3>1. pc = "start" /\ in' = in /\ code' = code /\ rep' = rep
          /\ Leaves(EarlyOutputs)
      BY <1>1, <2>1, <2>3, StageKeeps DEF Load, Aborted
    <3> QED BY <3>1 DEF Kept
  <2> QED BY <2>2, <2>3
<1>2. CASE verifyArtifacts
  <2>1. PICK bad : Stage("verify", "gate", <<>>, FailIf(bad > 0), [rep EXCEPT !.mismatches = bad])
    BY <1>2 DEF verifyArtifacts
  <2> QED BY <1>0, <2>1, NoEvents, StageKeeps DEF Kept, Early
<1>3. CASE Gate
  <2> DEFINE events == Reads("baseline") \o Reads("policy")
  <2>1. events \in Writing(EarlyOutputs)
    <3>1. \A p \in {"baseline", "policy"} : Reads(p) \in Writing(EarlyOutputs)
      BY PathsAre DEF ReadPaths
    <3> QED BY <3>1, BothInto
  <2>2. PICK gate : Stage("gate", "repro", events, ApplyGate(gate), [rep EXCEPT !.gate = gate])
    BY <1>3 DEF Gate, Gated
  <2> HIDE DEF events
  <2> QED BY <1>0, <2>1, <2>2, StageKeeps DEF Kept, Early
<1>4. CASE Repro
  <2> DEFINE events == Reads("inspect-repro")
                         \o (IF in.results = <<>> THEN <<>> ELSE Writes("matrix-summary"))
  <2>1. Writes("matrix-summary") \in Writing(EarlyOutputs)
    BY PathsAre DEF EarlyOutputs
  <2>5. Reads("inspect-repro") \in Writing(EarlyOutputs)
    BY PathsAre DEF ReadPaths
  <2>2. events \in Writing(EarlyOutputs)
    BY <2>1, <2>5, NoEvents, BothInto
  <2>3. PICK found, m, f : Stage("repro", "checksum", events, FailIf(found = "fail"),
                           [rep EXCEPT !.repro = found, !.matrix = m, !.flakes = f])
    BY <1>4 DEF Repro
  <2> HIDE DEF events
  <2>4. \/ Aborted
        \/ /\ pc = "repro" /\ in' = in /\ code' = code
           /\ rep' = [rep EXCEPT !.repro = found, !.matrix = m, !.flakes = f]
           /\ Leaves(EarlyOutputs)
    BY <2>2, <2>3, StageKeeps
  <2>6. pc = "repro" => pc \in {"start"} \cup Early
    BY DEF Early
  <2> QED BY <1>0, <2>4, <2>6 DEF Kept
<1>5. CASE Checksum
  <2> DEFINE asked == rep.repro # "" /\ Given("checksums")
             events == IF asked THEN Reads("checksums") \o Writes("checksum-verify") ELSE <<>>
  <2>1. Writes("checksum-verify") \in Writing(EarlyOutputs)
    BY PathsAre DEF EarlyOutputs
  <2>4. Reads("checksums") \in Writing(EarlyOutputs)
    BY PathsAre DEF ReadPaths
  <2>2. events \in Writing(EarlyOutputs)
    BY <2>1, <2>4, NoEvents, BothInto
  <2>3. PICK found : Stage("checksum", "reports", events, FailIf(found = "fail"),
                           [rep EXCEPT !.verify = found])
    BY <1>5 DEF Checksum
  <2> HIDE DEF events
  <2> QED BY <1>0, <2>2, <2>3, StageKeeps DEF Kept, Early
<1>6. CASE WriteReports
  <2> DEFINE events == Writes("junit") \o Writes("html") \o Writes("sarif") \o Writes("repro-zip")
  <2>1. \A p \in {"junit", "html", "sarif", "repro-zip"} : Writes(p) \in Writing(EarlyOutputs)
    BY PathsAre DEF EarlyOutputs
  <2>4. Writes("junit") \o Writes("html") \in Writing(EarlyOutputs)
    BY <2>1, BothInto
  <2>5. Writes("junit") \o Writes("html") \o Writes("sarif") \in Writing(EarlyOutputs)
    BY <2>1, <2>4, BothInto
  <2>2. events \in Writing(EarlyOutputs)
    BY <2>1, <2>5, BothInto
  <2> HIDE DEF events
  <2>3. Stage("reports", "index", events, ci, rep)
    BY <1>6 DEF WriteReports, events
  <2> QED BY <2>2, <2>3, StageKeeps DEF Kept, Early
<1> QED BY <1>1, <1>2, <1>3, <1>4, <1>5, <1>6

-----------------------------------------------------------------------------
(* The index itself: of the outputs that are on disk when it is made.      *)
LEMMA OutputsFinite == IsFiniteSet(Outputs)
<1> DEFINE q == <<"matrix-summary", "checksum-verify", "junit", "html", "sarif", "repro-zip",
                  "artifact-index", "release-manifest", "sbom", "attestation", "sbom-diff",
                  "release-zip", "release-zip-compare", "retention-manifest", "release-audit",
                  "waiver-calendar", "final-decision", "release-evidence-zip">>
<1>1. q \in Seq(Outputs) /\ \A o \in Outputs : \E n \in 1 .. Len(q) : q[n] = o
  BY DEF Outputs
<1> HIDE DEF q
<1> QED BY <1>1 DEF IsFiniteSet

(* Finitely many outputs, finitely many inputs of the index.               *)
LEMMA InputsFinite ==
    ASSUME NEW F \in SUBSET Outputs
    PROVE  IsFiniteSet({IndexInput(o) : o \in F})
<1> DEFINE S == {IndexInput(o) : o \in F}
<1>1. IsFiniteSet(F)
  BY OutputsFinite, FS_Subset
<1>2. PICK q \in Seq(F) : \A o \in F : \E n \in 1 .. Len(q) : q[n] = o
  BY <1>1 DEF IsFiniteSet
<1> DEFINE r == [n \in 1 .. Len(q) |-> IndexInput(q[n])]
<1>3. /\ Len(q) \in Nat /\ \A n \in 1 .. Len(q) : q[n] \in F
  OBVIOUS
<1>4. \A n \in 1 .. Len(q) : r[n] \in S
  BY <1>3
<1>5. r \in Seq(S) /\ Len(r) = Len(q)
  BY <1>3, <1>4
<1>6. \A s \in S : \E n \in 1 .. Len(r) : r[n] = s
  BY <1>2, <1>5
<1> HIDE DEF r, S
<1>7. IsFiniteSet(S)
  BY <1>5, <1>6 DEF IsFiniteSet
<1> QED BY <1>7 DEF S

(* Every entry is one of the inputs of the index.                          *)
LEMMA EntriesAre ==
    ASSUME TypeOK
    PROVE  \A e \in buildCIArtifactIndexFromPaths.entries :
               \E o \in Outputs \ NotIndexed : disk[o] # "none" /\ e = IndexInput(o)
<1> DEFINE F == {x \in Indexable : disk[x] # "none"}
           S == {IndexInput(o) : o \in F}
           q == InOrder(S)
<1>1. F \in SUBSET Outputs
  BY SmokeAssumption DEF TypeOK, Indexable
<1>2. IsFiniteSet(S)
  BY <1>1, InputsFinite
<1>3. q \in Seq(S)
  <2> HIDE DEF S
  <2> QED BY <1>2, InOrderHolds
<1>4. buildCIArtifactIndexFromPaths = BuildCIArtifactIndex(q)
  BY DEF buildCIArtifactIndexFromPaths
<1> HIDE DEF q
<1>5. BuildCIArtifactIndex(q).entries \subseteq {q[i] : i \in 1 .. Len(q)}
  BY DEF BuildCIArtifactIndex, Range1
<1>6. \A i \in 1 .. Len(q) : q[i] \in S
  <2> HIDE DEF S
  <2> QED BY <1>3
<1>7. \A e \in S : \E o \in Outputs \ NotIndexed : disk[o] # "none" /\ e = IndexInput(o)
  BY <1>1 DEF Indexable
<1> HIDE DEF S
<1> QED BY <1>4, <1>5, <1>6, <1>7

(* The index is right when it is made, whatever an earlier run had left.   *)
LEMMA IndexKeeps ==
    ASSUME Found, IndexSoFar, Index
    PROVE  IndexSoFar'
<1> DEFINE i == buildCIArtifactIndexFromPaths
<1>0. "index" \in DOMAIN rep
  BY FieldsAre DEF Found, TypeOK, Fields
<1>1. Writes("artifact-index") \o Writes("release-manifest") \in Writing(NotIndexed)
  <2>1. \A p \in {"artifact-index", "release-manifest"} : Writes(p) \in Writing(NotIndexed)
    BY PathsAre DEF NotIndexed
  <2> QED BY <2>1, BothInto
<1>2. \/ Aborted
      \/ /\ pc = "index" /\ pc' = "attest" /\ in' = in /\ code' = code
         /\ rep' = [rep EXCEPT !.index = i]
         /\ Leaves(NotIndexed)
  BY <1>1, StageKeeps DEF Index
<1>3. \A e \in i.entries : \E o \in Outputs \ NotIndexed : disk[o] # "none" /\ e = IndexInput(o)
  BY EntriesAre DEF Found
<1> HIDE DEF i
<1>4. CASE Aborted
  BY <1>4, AbortKeeps
<1>5. CASE ~Aborted
  <2>1. pc = "index" /\ pc' = "attest" /\ in' = in
    BY <1>2, <1>5
  <2>2. rep'.index = i
    BY <1>0, <1>2, <1>5
  <2>3. AsLeft
    BY <2>1 DEF IndexSoFar, Early
  <2>4. ASSUME NEW e \in i.entries  PROVE Told(e)'
    <3>1. PICK o \in Outputs \ NotIndexed : disk[o] # "none" /\ e = IndexInput(o)
      BY <1>3, <2>4
    <3>2. e.path = o /\ e.data = disk[o]
      BY <3>1 DEF IndexInput
    <3>3. disk'[o] = disk[o]
      BY <1>2, <1>5, <3>1 DEF Leaves
    <3>4. CASE o \in WrittenLater
      BY <2>1, <2>3, <3>1, <3>2, <3>3, <3>4 DEF AsLeft, Told
    <3>5. CASE o \in EarlyOutputs
      BY <3>2, <3>3, <3>5 DEF Told
    <3> QED BY <3>1, <3>4, <3>5, OutputsAre
  <2>5. pc' \notin {"start"} \cup Early
    BY <2>1 DEF Early
  <2> QED BY <2>2, <2>4, <2>5 DEF IndexSoFar
<1> QED BY <1>4, <1>5

(* The stages behind the index.                                            *)
LEMMA LateStagesKeep ==
    ASSUME Found, Attest \/ Package \/ Audit \/ Evidence
    PROVE  Aborted \/ (Kept(WrittenLater) /\ pc' \notin {"start"} \cup Early)
<1>0. "index" \in DOMAIN rep
  BY FieldsAre DEF Found, TypeOK, Fields
<1> DEFINE W == Writing(WrittenLater)
<1>8. \A p \in WrittenLater : Writes(p) \in W
  BY PathsAre
<1>9. \A p \in ReadPaths : Reads(p) \in W
  BY PathsAre
<1>7. /\ <<>> \in W /\ \A d, e \in W : d \o e \in W
  BY NoEvents, BothInto
<1>1. CASE Attest
  <2> DEFINE d == Writes("sbom") \o Writes("attestation")
             events == Writes("sbom") \o Writes("attestation") \o Reads("sbom-baseline")
                         \o Writes("sbom-diff")
  <2>1. /\ \A p \in {"sbom", "attestation", "sbom-diff"} : Writes(p) \in W
        /\ Reads("sbom-baseline") \in W
    BY <1>8, <1>9 DEF WrittenLater, ReadPaths
  <2>2. events \in W
    <3> HIDE DEF W
    <3>1. d \in W
      BY <1>7, <2>1
    <3>2. d \o Reads("sbom-baseline") \in W
      <4> HIDE DEF d
      <4> QED BY <1>7, <2>1, <3>1
    <3> QED BY <1>7, <2>1, <3>2
  <2>3. PICK release, a, c : Stage("attest", "package", events, ci,
                           [rep EXCEPT !.release = release, !.att = a, !.sbom = c])
    BY <1>1 DEF Attest, Attested
  <2> HIDE DEF events
  <2>4. \/ Aborted
        \/ /\ pc' = "package" /\ in' = in /\ code' = code
           /\ rep' = [rep EXCEPT !.release = release, !.att = a, !.sbom = c]
           /\ Leaves(WrittenLater)
    BY <2>2, <2>3, StageKeeps
  <2>5. "package" \notin {"start"} \cup Early
    BY DEF Early
  <2> QED BY <1>0, <2>4, <2>5 DEF Kept
<1>2. CASE Package
  <2>1. PICK asked, inspected, compared : Packaged(asked, inspected, compared)
    BY <1>2 DEF Package
  <2> DEFINE r == IF asked THEN Reads("inspect-zip") ELSE Reads("release-zip")
             x == IF compared.status # ""
                    THEN Reads("zip-baseline") \o Writes("release-zip-compare") ELSE <<>>
             events == Writes("release-zip") \o r \o x \o Writes("retention-manifest")
  <2>2. /\ \A p \in {"release-zip", "release-zip-compare", "retention-manifest"} : Writes(p) \in W
        /\ \A p \in {"inspect-zip", "release-zip", "zip-baseline"} : Reads(p) \in W
    BY <1>8, <1>9 DEF WrittenLater, ReadPaths
  <2>3. events \in W
    <3> HIDE DEF W
    <3>1. r \in W /\ x \in W
      BY <1>7, <2>2
    <3> HIDE DEF r, x
    <3>2. Writes("release-zip") \o r \in W
      BY <1>7, <2>2, <3>1
    <3>3. Writes("release-zip") \o r \o x \in W
      BY <1>7, <3>1, <3>2
    <3> QED BY <1>7, <2>2, <3>3
  <2>4. PICK v : Stage("package", "audit", events, v,
                       [rep EXCEPT !.zipStatus = inspected, !.zip = compared])
    BY <2>1 DEF Packaged
  <2> HIDE DEF events
  <2>5. \/ Aborted
        \/ /\ pc' = "audit" /\ in' = in /\ code' = code
           /\ rep' = [rep EXCEPT !.zipStatus = inspected, !.zip = compared]
           /\ Leaves(WrittenLater)
    BY <2>3, <2>4, StageKeeps
  <2>6. "audit" \notin {"start"} \cup Early
    BY DEF Early
  <2> QED BY <1>0, <2>5, <2>6 DEF Kept
<1>3. CASE Audit
  <2> DEFINE reads == Reads("release-policy") \o Reads("audit-baseline") \o Reads("waivers")
             events == Reads("release-policy") \o Reads("audit-baseline") \o Reads("waivers")
                         \o Writes("release-audit") \o Writes("waiver-calendar")
                         \o Writes("final-decision")
  <2>1. /\ \A p \in {"release-audit", "waiver-calendar", "final-decision"} : Writes(p) \in W
        /\ \A p \in {"release-policy", "audit-baseline", "waivers"} : Reads(p) \in W
    BY <1>8, <1>9 DEF WrittenLater, AuditOutputs, ReadPaths
  <2>2. events \in W
    <3> HIDE DEF W
    <3>1. Reads("release-policy") \o Reads("audit-baseline") \in W
      BY <1>7, <2>1
    <3>2. reads \in W
      BY <1>7, <2>1, <3>1
    <3> HIDE DEF reads
    <3>3. reads \o Writes("release-audit") \in W
      BY <1>7, <2>1, <3>2
    <3>4. reads \o Writes("release-audit") \o Writes("waiver-calendar") \in W
      BY <1>7, <2>1, <3>3
    <3>5. reads \o Writes("release-audit") \o Writes("waiver-calendar")
            \o Writes("final-decision") \in W
      BY <1>7, <2>1, <3>4
    <3> QED BY <3>5 DEF reads
  <2>3. PICK audit, issues, waivers, todos, calendar, decision :
            Stage("audit", "evidence", events, ci,
                  [rep EXCEPT !.audit = audit, !.issues = issues, !.waivers = waivers,
                              !.todos = todos, !.calendar = calendar, !.decision = decision])
    BY <1>3 DEF Audit, Judged, Audited, Decided
  <2> HIDE DEF events
  <2>4. \/ Aborted
        \/ /\ pc' = "evidence" /\ in' = in /\ code' = code
           /\ rep' = [rep EXCEPT !.audit = audit, !.issues = issues, !.waivers = waivers,
                              !.todos = todos, !.calendar = calendar, !.decision = decision]
           /\ Leaves(WrittenLater)
    BY <2>2, <2>3, StageKeeps
  <2>5. "evidence" \notin {"start"} \cup Early
    BY DEF Early
  <2> QED BY <1>0, <2>4, <2>5 DEF Kept
<1>4. CASE Evidence
  <2> DEFINE own == IF in.dry THEN <<>> ELSE Reads("release-evidence-zip")
             events == Writes("release-evidence-zip") \o own \o Reads("inspect-evidence")
  <2>1. /\ Writes("release-evidence-zip") \in W
        /\ \A p \in {"release-evidence-zip", "inspect-evidence"} : Reads(p) \in W
    BY <1>8, <1>9 DEF WrittenLater, AuditOutputs, ReadPaths
  <2>2. events \in W
    <3> HIDE DEF W
    <3>1. own \in W
      BY <1>7, <2>1
    <3> HIDE DEF own
    <3>2. Writes("release-evidence-zip") \o own \in W
      BY <1>7, <2>1, <3>1
    <3> QED BY <1>7, <2>1, <3>2
  <2>3. PICK found : Stage("evidence", "finish", events, FailIf(found = "fail"),
                           [rep EXCEPT !.evidence = found])
    BY <1>4 DEF Evidence
  <2> HIDE DEF events
  <2>4. \/ Aborted
        \/ /\ pc' = "finish" /\ in' = in /\ code' = code
           /\ rep' = [rep EXCEPT !.evidence = found]
           /\ Leaves(WrittenLater)
    BY <2>2, <2>3, StageKeeps
  <2>5. "finish" \notin {"start"} \cup Early
    BY DEF Early
  <2> QED BY <1>0, <2>4, <2>5 DEF Kept
<1> QED BY <1>1, <1>2, <1>3, <1>4

(* The last step of a run writes nothing.                                  *)
LEMMA EndKeeps ==
    ASSUME Found, IndexSoFar, InspectOnly \/ Finish
    PROVE  IndexSoFar'
<1>1. pc # "exit" /\ pc' = "exit" /\ in' = in /\ rep' = rep /\ disk' = disk
  BY DEF InspectOnly, Finish
<1>2. code # 2
  BY <1>1 DEF Found, Running
<1>3. \A e \in rep'.index.entries : Told(e)'
  BY <1>1, <1>2 DEF IndexSoFar, Told
<1> QED BY <1>1, <1>3 DEF IndexSoFar, Early

(* At the start there are only the files of an earlier run.                *)
LEMMA IndexInit == Init => IndexSoFar
<1> SUFFICES ASSUME Init  PROVE IndexSoFar
  OBVIOUS
<1>1. rep.index.entries = {}
  BY DEF Init, Nothing
<1>2. AsLeft
  BY OutputsAre DEF Init, AsLeft
<1> QED BY <1>1, <1>2 DEF IndexSoFar

(* Every stage leaves the index right.                                     *)
LEMMA IndexStep == Found /\ IndexSoFar /\ [Next]_vars => IndexSoFar'
<1> SUFFICES ASSUME Found, IndexSoFar, [Next]_vars  PROVE IndexSoFar'
  OBVIOUS
<1>1. CASE UNCHANGED vars
  <2>1. AsLeft => AsLeft'
    BY <1>1 DEF vars, AsLeft
  <2>2. \A e \in rep.index.entries : Told(e) => Told(e)'
    BY <1>1 DEF vars, Told
  <2> QED BY <1>1, <2>1, <2>2 DEF vars, IndexSoFar
<1>2. CASE InspectOnly \/ Finish
  BY <1>2, EndKeeps
<1>3. CASE Load \/ verifyArtifacts \/ Gate \/ Repro \/ Checksum \/ WriteReports
  BY <1>3, EarlyStagesKeep, EarlyKeeps, AbortKeeps
<1>4. CASE Index
  BY <1>4, IndexKeeps
<1>5. CASE Attest \/ Package \/ Audit \/ Evidence
  BY <1>5, LateStagesKeep, LateKeeps, AbortKeeps
<1> QED BY <1>1, <1>2, <1>3, <1>4, <1>5 DEF Next

(* At the end of a run that went through, every entry of the index says    *)
(* what the file holds, but for those of files an earlier run left and a   *)
(* later stage of this run wrote anew.                                     *)
THEOREM IndexTellsDisk == Spec => []IndexMatchesDisk
<1>1. Spec => []IndexSoFar
  BY IndexInit, IndexStep, FoundThroughout, PTL DEF Spec
<1>2. IndexSoFar => IndexMatchesDisk
  BY DEF IndexSoFar, IndexMatchesDisk, Told
<1> QED BY <1>1, <1>2, PTL

-----------------------------------------------------------------------------
(* What a decision covers.                                                 *)

(* A part of the release that did not pass is an issue of the audit.       *)
LEMMA PartsAreIssues ==
    ASSUME NEW p, NEW retention, NEW policy, NEW part \in DOMAIN Weights
    PROVE  LET a == BuildReleaseAuditReport(p, retention, policy)
               status == CASE part = "release" -> p.release.status
                           [] part = "attestation" -> p.att.status
                           [] part = "sbom" -> p.sbom.status
                           [] part = "release_zip" -> p.zip.status
                           [] part = "retention" -> a.parts.audit.status
                           [] part = "matrix_flakes" -> p.flakes
           IN  status # "pass" =>
                 [kind |-> "score", name |-> part, status |-> OrElse(status, "empty")]
                    \in ExtractReleaseAuditIssues(a)
<1> DEFINE audit == BuildRetentionAudit(retention, policy)
           statuses == [release |-> p.release.status, attestation |-> p.att.status,
                        sbom |-> p.sbom.status, release_zip |-> p.zip.status,
                        retention |-> audit.status, matrix_flakes |-> p.flakes]
           score == BuildReleaseVerificationScore(statuses)
           a == BuildReleaseAuditReport(p, retention, policy)
           status == CASE part = "release" -> p.release.status
                       [] part = "attestation" -> p.att.status
                       [] part = "sbom" -> p.sbom.status
                       [] part = "release_zip" -> p.zip.status
                       [] part = "retention" -> a.parts.audit.status
                       [] part = "matrix_flakes" -> p.flakes
           known == OrElse(status, "empty")
           check == Check(part, known)
           issue == [kind |-> "score", name |-> part, status |-> known]
<1>1. a.parts.audit = audit /\ a.score = score
  BY DEF BuildReleaseAuditReport
<1>2. part \in {"release", "attestation", "sbom", "release_zip", "retention", "matrix_flakes"}
  BY DEF Weights
<1> HIDE DEF a, audit
<1>3. status = statuses[part]
  BY <1>1, <1>2
<1> HIDE DEF statuses, status
<1>4. check \in score.parts
  BY <1>3 DEF BuildReleaseVerificationScore
<1>5. status # "pass" => known # "pass"
  BY DEF OrElse
<1> HIDE DEF score, known
<1>6. check.name = part /\ check.status = known
  BY DEF Check
<1> HIDE DEF check
<1>7. known # "pass" => issue \in IssuesIn("score", score.parts)
  BY <1>4, <1>6 DEF IssuesIn
<1> HIDE DEF issue
<1>8. status # "pass" => issue \in ExtractReleaseAuditIssues(a)
  BY <1>1, <1>5, <1>7 DEF ExtractReleaseAuditIssues
<1> QED BY <1>8 DEF issue, known, status, a

(* A time that is not past is still to come.                               *)
LEMMA StillToCome ==
    ASSUME NEW at \in Int, ~(at <= 0)
    PROVE  at > 0
  OBVIOUS

(* Nothing unwaived and no rule lapsed: every issue is one a valid rule    *)
(* excuses, and there is nothing left to do.                               *)
LEMMA NothingLeft ==
    ASSUME NEW issues, NEW file, NEW days,
           file.text = "" => file.of = {}, file.text \in {"", "bad", "ok"},
           \A r \in file.of : r.expires.at \in Int,
           BuildReleaseWaiverReport(issues, file).unwaived = {},
           BuildWaiverExpiryCalendar(file, days).lapsed = {}
    PROVE  /\ BuildReleaseAuditTodoReport(issues, BuildReleaseWaiverReport(issues, file)).todos = {}
           /\ \A i \in issues : \E r \in file.of :
                 /\ r.id # "" /\ r.expires.text = "time" /\ r.expires.at > 0
                 /\ waiverRuleMatches(r, i)
           /\ issues # {} => file.text = "ok"
<1>1. CASE file.text = "bad"
  <2>1. issues = {}
    BY <1>1 DEF BuildReleaseWaiverReport
  <2> QED BY <2>1 DEF BuildReleaseAuditTodoReport
<1>2. CASE file.text # "bad"
  <2> DEFINE waived == WaivedBy(issues, file.of)
  <2>1. /\ BuildReleaseWaiverReport(issues, file).waived = waived
        /\ BuildReleaseWaiverReport(issues, file).unwaived = issues \ waived
    BY <1>2 DEF BuildReleaseWaiverReport
  <2>2. \A r \in file.of : EntryStatus(r, days) \notin {"expired", "invalid"}
    BY <1>2 DEF BuildWaiverExpiryCalendar
  <2>3. ASSUME NEW i \in issues
        PROVE  \E r \in file.of :
                 /\ r.id # "" /\ r.expires.text = "time" /\ r.expires.at > 0
                 /\ waiverRuleMatches(r, i)
    <3>1. PICK r \in file.of : waiverRuleMatches(r, i) /\ ~Expired(r.expires)
      BY <2>1 DEF WaivedBy
    <3>2. r.id # ""
      BY <3>1 DEF waiverRuleMatches
    <3>3. r.expires.text = "time"
      BY <2>2 DEF EntryStatus
    <3>4. ~(r.expires.at <= 0) /\ r.expires.at \in Int
      BY <3>1, <3>3 DEF Expired
    <3> DEFINE at == r.expires.at
    <3> HIDE DEF at
    <3>5. at \in Int /\ ~(at <= 0)
      BY <3>4 DEF at
    <3>6. at > 0
      BY <3>5, StillToCome
    <3> QED BY <3>1, <3>2, <3>3, <3>6 DEF at
  <2>4. issues # {} => file.of # {}
    BY <2>3
  <2> HIDE DEF waived
  <2>5. BuildReleaseAuditTodoReport(issues, BuildReleaseWaiverReport(issues, file)).todos = {}
    BY <2>1 DEF BuildReleaseAuditTodoReport
  <2> QED BY <1>2, <2>3, <2>4, <2>5
<1> QED BY <1>1, <1>2

(* The audit stage: a go covers every part.                                *)
JudgedFields == {"decision", "release", "att", "sbom", "zip", "audit", "flakes", "todos", "issues"}

LEMMA AuditCovers ==
    ASSUME Found, Audit, ~Aborted
    PROVE  DecisionCovers'
<1> DEFINE p == [release |-> rep.release, att |-> rep.att, sbom |-> rep.sbom, zip |-> rep.zip,
                 flakes |-> rep.flakes]
           retention == BuildRetentionManifest(rep.index, rep.release)
           audit == AuditOf
           issues == ExtractReleaseAuditIssues(audit)
           waivers == BuildReleaseWaiverReport(issues, WaiverFile)
           calendar == BuildWaiverExpiryCalendar(WaiverFile, Policy.soonDays)
           todos == BuildReleaseAuditTodoReport(issues, waivers)
           decision == BuildFinalReleaseDecision(audit, waivers, calendar, Policy)
           found == [rep EXCEPT !.audit = audit, !.issues = issues, !.waivers = waivers,
                                !.todos = todos, !.calendar = calendar, !.decision = decision]
<1>1. in' = in /\ rep' = found
  BY StageEnds DEF Audit, Judged, Audited, Decided, GoesOn
<1>2. audit = BuildReleaseAuditReport(p, retention, Policy)
  BY DEF AuditOf
<1>3. /\ p.release = rep.release /\ p.att = rep.att /\ p.sbom = rep.sbom /\ p.zip = rep.zip
      /\ p.flakes = rep.flakes
  OBVIOUS
<1> HIDE DEF p, retention, audit
<1>4. decision \in {"go", "go-with-watch"} => waivers.unwaived = {} /\ calendar.lapsed = {}
  BY DEF BuildFinalReleaseDecision, Blocking
<1>5. /\ WaiverFile.text = "" => WaiverFile.of = {}
      /\ WaiverFile.text \in {"", "bad", "ok"}
      /\ \A r \in WaiverFile.of : r.expires.at \in Int /\ r \in in.waivers.of
  BY SmokeAssumption DEF WaiverFile, Found, TypeOK
<1>6. decision \in {"go", "go-with-watch"} =>
        /\ todos.todos = {}
        /\ \A i \in issues : \E r \in WaiverFile.of :
              /\ r.id # "" /\ r.expires.text = "time" /\ r.expires.at > 0
              /\ waiverRuleMatches(r, i)
        /\ issues # {} => WaiverFile.text = "ok"
  <2> DEFINE file == WaiverFile
             days == Policy.soonDays
  <2>1. /\ waivers = BuildReleaseWaiverReport(issues, file)
        /\ calendar = BuildWaiverExpiryCalendar(file, days)
        /\ todos = BuildReleaseAuditTodoReport(issues, BuildReleaseWaiverReport(issues, file))
    OBVIOUS
  <2> HIDE DEF issues, decision, waivers, calendar, todos, days
  <2> SUFFICES ASSUME decision \in {"go", "go-with-watch"}
               PROVE  /\ todos.todos = {}
                      /\ \A i \in issues : \E r \in WaiverFile.of :
                            /\ r.id # "" /\ r.expires.text = "time" /\ r.expires.at > 0
                            /\ waiverRuleMatches(r, i)
                      /\ issues # {} => WaiverFile.text = "ok"
    OBVIOUS
  <2>2. /\ BuildReleaseWaiverReport(issues, file).unwaived = {}
        /\ BuildWaiverExpiryCalendar(file, days).lapsed = {}
    BY <1>4, <2>1
  <2>3. /\ file.text = "" => file.of = {}
        /\ file.text \in {"", "bad", "ok"}
        /\ \A r \in file.of : r.expires.at \in Int
    BY <1>5
  <2> HIDE DEF file
  <2>4. /\ BuildReleaseAuditTodoReport(issues, BuildReleaseWaiverReport(issues, file)).todos = {}
        /\ \A i \in issues : \E r \in file.of :
              /\ r.id # "" /\ r.expires.text = "time" /\ r.expires.at > 0
              /\ waiverRuleMatches(r, i)
        /\ issues # {} => file.text = "ok"
    BY <2>2, <2>3, NothingLeft
  <2>5. todos.todos = {}
    BY <2>1, <2>4
  <2> QED BY <2>4, <2>5 DEF file
<1> HIDE DEF waivers, calendar, todos, decision
<1>7. /\ rep'.decision = decision /\ rep'.todos = todos /\ rep'.issues = issues
      /\ rep'.audit = audit /\ rep'.release = rep.release /\ rep'.att = rep.att
      /\ rep'.sbom = rep.sbom /\ rep'.zip = rep.zip /\ rep'.flakes = rep.flakes
  BY <1>1, FieldsAre DEF Found, TypeOK, Fields
<1> SUFFICES ASSUME rep'.decision \in {"go", "go-with-watch"}
             PROVE  /\ \A part \in DOMAIN Weights : \/ PartStatus(part)' = "pass"
                                                    \/ Excused(part, PartStatus(part))'
                    /\ rep'.todos.todos = {}
                    /\ rep'.issues # {} => WaiverFile.text' = "ok"
  BY DEF DecisionCovers
<1>8. WaiverFile' = WaiverFile
  BY <1>1 DEF WaiverFile, Given
<1>9. ASSUME NEW part \in DOMAIN Weights
      PROVE  PartStatus(part)' = "pass" \/ Excused(part, PartStatus(part))'
  <2> DEFINE status == CASE part = "release" -> p.release.status
                         [] part = "attestation" -> p.att.status
                         [] part = "sbom" -> p.sbom.status
                         [] part = "release_zip" -> p.zip.status
                         [] part = "retention" -> audit.parts.audit.status
                         [] part = "matrix_flakes" -> p.flakes
             issue == [kind |-> "score", name |-> part, status |-> OrElse(status, "empty")]
  <2>1. PartStatus(part)' = status
    BY <1>3, <1>7 DEF PartStatus
  <2>2. status # "pass" => issue \in issues
    BY <1>2, PartsAreIssues DEF issues
  <2> HIDE DEF status, issues
  <2>3. status # "pass" => \E r \in in'.waivers.of :
            /\ r.id # "" /\ r.expires.text = "time" /\ r.expires.at > 0
            /\ waiverRuleMatches(r, issue)
    BY <1>1, <1>5, <1>6, <1>7, <2>2
  <2> QED BY <2>1, <2>3 DEF Excused
<1> QED BY <1>6, <1>7, <1>8, <1>9

(* A decision covers what it covers whatever else is written.              *)
LEMMA SameCovers ==
    ASSUME DecisionCovers, in' = in,
           \A f \in JudgedFields : rep'[f] = rep[f]
    PROVE  DecisionCovers'
<1>1. /\ rep'.decision = rep.decision /\ rep'.todos = rep.todos /\ rep'.issues = rep.issues
      /\ rep'.audit = rep.audit /\ rep'.release = rep.release /\ rep'.att = rep.att
      /\ rep'.sbom = rep.sbom /\ rep'.zip = rep.zip /\ rep'.flakes = rep.flakes
  BY DEF JudgedFields
<1>2. WaiverFile' = WaiverFile
  BY DEF WaiverFile, Given
<1>3. ASSUME NEW part \in DOMAIN Weights
      PROVE  /\ PartStatus(part)' = PartStatus(part)
             /\ Excused(part, PartStatus(part))' <=> Excused(part, PartStatus(part))
  <2>1. PartStatus(part)' = PartStatus(part)
    BY <1>1 DEF PartStatus
  <2> QED BY <2>1 DEF Excused
<1> QED BY <1>1, <1>2, <1>3 DEF DecisionCovers

(* A stage before the audit goes on to one where nothing is decided yet.   *)
Undecided == {"verify", "gate", "repro", "checksum", "reports", "index", "attest", "package", "audit"}

LEMMA ToUndecided ==
    ASSUME \/ Load \/ verifyArtifacts \/ Gate \/ Repro \/ Checksum
           \/ WriteReports \/ Index \/ Attest \/ Package
    PROVE  Aborted \/ pc' \in Undecided
<1>1. CASE Load
  BY <1>1, StageEnds DEF Load, Aborted, GoesOn, Undecided
<1>2. CASE verifyArtifacts
  BY <1>2, StageEnds DEF verifyArtifacts, GoesOn, Undecided
<1>3. CASE Gate
  BY <1>3, StageEnds DEF Gate, Gated, GoesOn, Undecided
<1>4. CASE Repro
  BY <1>4, StageEnds DEF Repro, GoesOn, Undecided
<1>5. CASE Checksum
  BY <1>5, StageEnds DEF Checksum, GoesOn, Undecided
<1>6. CASE WriteReports
  BY <1>6, StageEnds DEF WriteReports, GoesOn, Undecided
<1>7. CASE Index
  BY <1>7, StageEnds DEF Index, GoesOn, Undecided
<1>8. CASE Attest
  BY <1>8, StageEnds DEF Attest, Attested, GoesOn, Undecided
<1>9. CASE Package
  BY <1>9, StageEnds DEF Package, Packaged, GoesOn, Undecided
<1> QED BY <1>1, <1>2, <1>3, <1>4, <1>5, <1>6, <1>7, <1>8, <1>9

(* The evidence bundle is none of what was judged.                         *)
LEMMA EvidenceKeeps ==
    ASSUME Found, Evidence, ~Aborted
    PROVE  in' = in /\ \A f \in JudgedFields : rep'[f] = rep[f]
<1> DEFINE found == IF Given("inspect-evidence")
                      THEN InspectReleaseEvidenceBundleZipBytes(in.evidence, EvidenceFiles)
                      ELSE ""
<1>1. GoesOn("finish", FailIf(found = "fail"), [rep EXCEPT !.evidence = found])
  BY StageEnds DEF Evidence
<1> HIDE DEF found
<1>2. in' = in /\ rep' = [rep EXCEPT !.evidence = found]
  BY <1>1 DEF GoesOn
<1> QED BY <1>2, FieldsAre DEF JudgedFields, Found, TypeOK, Fields

(* Every stage keeps what a decision covers: only the audit makes one, and *)
(* nothing it is made from is written after it.                            *)
LEMMA CoverStep == Found /\ DecisionCovers /\ [Next]_vars => DecisionCovers'
<1> SUFFICES ASSUME Found, DecisionCovers, [Next]_vars
             PROVE  DecisionCovers'
  OBVIOUS
<1>1. CASE in' = in /\ rep' = rep
  BY <1>1, SameCovers
<1>2. CASE Aborted \/ InspectOnly \/ Finish \/ UNCHANGED vars
  <2>1. in' = in /\ rep' = rep
    BY <1>2 DEF Aborted, InspectOnly, Finish, vars
  <2> QED BY <1>1, <2>1
<1>3. CASE Audit /\ ~Aborted
  BY <1>3, AuditCovers
<1>4. CASE Evidence /\ ~Aborted
  BY <1>4, EvidenceKeeps, SameCovers
<1>5. CASE pc' \in Undecided
  <2>1. Blank'
    BY FoundStep DEF Found
  <2>2. rep'.decision = ""
    BY <1>5, <2>1 DEF Blank, Undecided, Stages
  <2> QED BY <2>2 DEF DecisionCovers
<1> QED BY <1>2, <1>3, <1>4, <1>5, ToUndecided DEF Next

(* A decision other than no-go means that every part of the release passed *)
(* or is excused by a rule that names it and whose date lies ahead, that   *)
(* nothing is left to do, and that the waiver file could be read if there  *)
(* was anything to excuse: BuildFinalReleaseDecision over the score, the   *)
(* issues, the waivers and the calendar the audit derives.                 *)
THEOREM GoIsCovered == Spec => []DecisionCovers
<1>1. Init => DecisionCovers
  <2>1. Init => Found /\ pc = "start"
    BY FoundInit DEF Init
  <2>2. Found /\ pc = "start" => rep.decision = ""
    BY DEF Found, Blank, Stages
  <2> QED BY <2>1, <2>2 DEF DecisionCovers
<1> QED BY <1>1, CoverStep, FoundThroughout, PTL DEF Spec
=============================================================================
