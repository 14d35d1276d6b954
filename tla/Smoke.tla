------------------------------- MODULE Smoke -------------------------------
(***************************************************************************)
(* One run of rvsmoke (cmd/rvsmoke/main.go): the stages of main in order,  *)
(* each with the files it reads and writes.  A file that cannot be read or *)
(* written ends the process at once with exit code 2 and leaves what was   *)
(* written before; otherwise the stages collect a verdict `ci' that        *)
(* decides the exit code.  What the stages compute is module Release and   *)
(* module Reports.                                                         *)
(***************************************************************************)
EXTENDS Release

CONSTANTS
    Inputs        \* the command lines and the files they name, see InputFields

(* An input: inspect, [only, what, zip], for a run that only inspects a    *)
(* package; the bundle (a file), line counts, policy; the artifact files;*)
(* reads and outputs, the paths given; broken, the paths that fail; stale, *)
(* the outputs an earlier run left; dry and never, the modes; repro,       *)
(* reproBase, results, goMod, sbomBase, zip, zipBase, releasePolicy,       *)
(* waivers and evidence, what those paths hold.                 *)
InputFields == {"inspect", "bundle", "lines", "policy", "files", "reads", "outputs", "broken",
                "stale", "dry", "never", "repro", "reproBase", "results", "goMod", "sbomBase",
                "zip", "zipBase", "releasePolicy", "waivers", "evidence"}
VARIABLES
    in,           \* the input of this run, never changed
    pc,           \* the stage to come, "exit" at the end
    code,         \* the exit code
    ci,           \* CISummary: status and exit code
    rep,          \* what the stages found so far
    disk          \* the output files: "none", "stale", "new" or "partial"

vars == <<in, pc, code, ci, rep, disk>>

Outputs == {"matrix-summary", "checksum-verify", "junit", "html", "sarif", "repro-zip",
            "artifact-index", "release-manifest", "sbom", "attestation", "sbom-diff",
            "release-zip", "release-zip-compare", "retention-manifest", "release-audit",
            "waiver-calendar", "final-decision", "release-evidence-zip"}
ASSUME SmokeAssumption ==
    \A i \in Inputs :
        /\ DOMAIN i = InputFields /\ i.outputs \subseteq Outputs
        /\ i.waivers.text = "" => i.waivers.of = {}    \* no text, no rule
        /\ i.waivers.text \in {"", "bad", "ok"}
        /\ \A r \in i.waivers.of : r.expires.at \in Int
Zips == {"repro-zip", "release-zip", "release-evidence-zip"}
NotIndexed == {"artifact-index", "release-manifest"}
AuditOutputs == {"release-audit", "waiver-calendar", "final-decision", "release-evidence-zip"}
AuditReads == {"audit-baseline", "waivers", "inspect-evidence"}

Nothing == [gate |-> [status |-> "pass", exit |-> 0, checks |-> {}], mismatches |-> 0,
            repro |-> "", verify |-> "", matrix |-> "empty", flakes |-> "empty",
            index |-> [status |-> "ok", entries |-> {}], zipStatus |-> "", zip |-> NoZip,
            evidence |-> "", decision |-> "", release |-> "", att |-> "", sbom |-> "",
            audit |-> "", issues |-> {}, waivers |-> "", todos |-> "", calendar |-> ""]
Init ==
    /\ in \in Inputs
    /\ pc = "start" /\ code = 0
    /\ ci = [status |-> "pass", exit |-> 0]
    /\ rep = Nothing
    /\ disk = [o \in Outputs |-> IF o \in in.stale THEN "stale" ELSE "none"]

(***************************************************************************)
(* Files.  A stage is a sequence of reads and writes; paths not given are  *)
(* skipped, a dry run skips every write.                                   *)
(***************************************************************************)
Given(path) == path \in in.reads \cup in.outputs
Reads(path) == IF Given(path) THEN <<[do |-> "read", path |-> path]>> ELSE <<>>
Writes(path) == IF Given(path) /\ ~in.dry THEN <<[do |-> "write", path |-> path]>> ELSE <<>>
(* main reads its own package back, whether or not it wrote it.            *)
Stops(events, i) ==
    \/ events[i].path \in in.broken
    \/ /\ events[i].do = "read" /\ events[i].path \in Outputs
       /\ disk[events[i].path] = "none"
       /\ \A j \in 1 .. i - 1 : events[j] # [do |-> "write", path |-> events[i].path]
StopAt(events) == {i \in Range1(events) : Stops(events, i) /\ \A j \in 1 .. i - 1 : ~Stops(events, j)}
WrittenBefore(events, n) ==
    [o \in Outputs |-> IF \E i \in 1 .. n - 1 : events[i] = [do |-> "write", path |-> o]
                         THEN "new" ELSE disk[o]]

(* exit 2: a package that could not be finished stays as far as it got.    *)
Abort(events) ==
    \E i \in StopAt(events) :
        /\ pc' = "exit" /\ code' = 2
        /\ \/ disk' = WrittenBefore(events, i)
           \/ /\ events[i].do = "write" /\ events[i].path \in Zips
              /\ disk' = [WrittenBefore(events, i) EXCEPT ![events[i].path] = "partial"]
        /\ UNCHANGED <<in, ci, rep>>
Proceed(next, events, newCi, newRep) ==
    /\ StopAt(events) = {}
    /\ pc' = next
    /\ disk' = WrittenBefore(events, Len(events) + 1)
    /\ ci' = newCi
    /\ rep' = newRep
    /\ UNCHANGED <<in, code>>
Stage(here, next, events, newCi, newRep) ==
    /\ pc = here
    /\ Proceed(next, events, newCi, newRep) \/ Abort(events)
FailIf(condition) == IF condition THEN [status |-> "fail", exit |-> 1] ELSE ci

(***************************************************************************)
(* The stages.                                                             *)
(***************************************************************************)
EvidenceFiles == {"README.md", "release-audit.json", "release-waivers.json",
                  "waiver-calendar.json", "final-decision.json"}

(* Without a bundle or manifest an inspection option is all there is; its  *)
(* failure exits with 1 in every exit-code mode.                           *)
InspectOnly ==
    LET zip == in.inspect.zip
        status == CASE in.inspect.what = "release" -> InspectReleaseHandoffZipBytes(zip)
                    [] in.inspect.what = "evidence" ->
                         InspectReleaseEvidenceBundleZipBytes(zip, EvidenceFiles)
                    [] in.inspect.what = "repro" -> InspectMinimalReproZipBytes(zip)
    IN  /\ pc = "start" /\ in.inspect.only
        /\ pc' = "exit"
        /\ code' = IF "inspect" \in in.broken THEN 2 ELSE IF status = "fail" THEN 1 ELSE 0
        /\ UNCHANGED <<in, ci, rep, disk>>

Load ==
    /\ ~in.inspect.only
    /\ IF in.bundle.text = "bad"
         THEN /\ pc = "start" /\ pc' = "exit" /\ code' = 2
              /\ UNCHANGED <<in, ci, rep, disk>>
         ELSE Stage("start", "verify", Reads("bundle") \o Reads("trace") \o Reads("console"),
                    BuildCISummary(in.bundle.of), rep)

verifyArtifacts ==
    LET bad == Cardinality({f \in in.files : ~VerifyArtifactBytes(f, in.bundle.of)})
    IN  Stage("verify", "gate", <<>>, FailIf(bad > 0), [rep EXCEPT !.mismatches = bad])

ApplyGate_Overwrites(gate) == [status |-> IF gate.exit # 0 THEN "fail" ELSE ci.status,
                               exit |-> gate.exit]
ApplyGate(gate) == IF gate.exit # 0 THEN [status |-> "fail", exit |-> gate.exit] ELSE ci
Gated(gate) == Stage("gate", "repro", Reads("baseline") \o Reads("policy"), ApplyGate(gate),
                     [rep EXCEPT !.gate = gate])
Gate == Gated(BuildCIGateReport(in.bundle.of, in.lines, Given("baseline"),
                                PolicyTemplate(in.policy)))

Repro ==
    LET found == IF Given("inspect-repro") THEN InspectMinimalReproZipBytes(in.repro) ELSE ""
    IN  Stage("repro", "checksum",
              Reads("inspect-repro")
                \o (IF in.results = <<>> THEN <<>> ELSE Writes("matrix-summary")),
              FailIf(found = "fail"),
              [rep EXCEPT !.repro = found, !.matrix = MatrixStatus(in.results),
                          !.flakes = FlakeStatus(in.results)])

(* A checksum manifest lists the files and may carry a digest of itself,   *)
(* <<>> for none.  It covers the package's own hash: packages of the same  *)
(* files, packed differently, differ in it, which is worth a warning.      *)
DigestOf(zip) == <<zip.opens, zip.files>>
VerifyReproZipChecksumManifest(file, zip) ==
    LET compared == CompareFiles(file.of.files, FilesOf(zip))
        differ == file.of.digest # <<>> /\ file.of.digest # DigestOf(zip)
    IN  CASE file.text = "" -> "warn" [] file.text = "bad" -> "fail"
          [] OTHER -> IF compared = "pass" /\ differ THEN "warn" ELSE compared
Checksum ==
    LET asked == rep.repro # "" /\ Given("checksums")
        found == IF asked THEN VerifyReproZipChecksumManifest(in.reproBase, in.repro) ELSE ""
    IN  Stage("checksum", "reports",
              IF asked THEN Reads("checksums") \o Writes("checksum-verify") ELSE <<>>,
              FailIf(found = "fail"), [rep EXCEPT !.verify = found])

WriteReports ==
    Stage("reports", "index",
          Writes("junit") \o Writes("html") \o Writes("sarif") \o Writes("repro-zip"), ci, rep)

(* The index takes the files that are on disk now: outputs of later stages *)
(* only if an earlier run left them.                                       *)
Indexable == in.outputs \ NotIndexed
InOrder(set) == FoldSet(LAMBDA x, seq : Append(seq, x), <<>>, set)
IndexInput(o) == [path |-> o, kind |-> o, data |-> disk[o], required |-> FALSE]
buildCIArtifactIndexFromPaths_Missing ==
    BuildCIArtifactIndex(InOrder({IndexInput(o) : o \in Indexable}))
buildCIArtifactIndexFromPaths ==
    BuildCIArtifactIndex(InOrder({IndexInput(o) : o \in {x \in Indexable : disk[x] # "none"}}))
Index ==
    Stage("index", "attest", Writes("artifact-index") \o Writes("release-manifest"), ci,
          [rep EXCEPT !.index = buildCIArtifactIndexFromPaths])

(* The parts of the release audit.                                         *)
ReleaseOf_WithoutSummary ==
    BuildReleaseBundleManifest(in.bundle, {rep.gate.status, rep.index.status, rep.matrix,
                                           rep.flakes, rep.verify})
ReleaseOf == BuildReleaseBundleManifest(in.bundle, {ci.status, rep.gate.status, rep.index.status,
                                                    rep.matrix, rep.flakes, rep.verify})
Inventory == BuildDependencyInventory(in.goMod, rep.index)
AttestationOf(release, inventory) ==
    VerifyProvenanceAttestation(BuildProvenanceAttestation(release, inventory, rep.index),
                                release, inventory, rep.index)
SbomFile == IF Given("sbom-baseline") THEN in.sbomBase ELSE [text |-> "", of |-> NoMod]
Attested(release) ==
    Stage("attest", "package",
          Writes("sbom") \o Writes("attestation") \o Reads("sbom-baseline") \o Writes("sbom-diff"),
          ci, [rep EXCEPT !.release = release, !.att = AttestationOf(release, Inventory),
                          !.sbom = CompareDependencyInventory(Inventory, SbomFile)])
Attest == Attested(ReleaseOf)

(* The package: one to inspect, or the one main writes and reads back.     *)
(* Only the inspection of a package that was asked for counts.             *)
OwnPackage == "release-zip" \in in.outputs
Packaged(asked, inspected, compared) ==
    Stage("package", "audit",
          Writes("release-zip")
            \o (IF asked THEN Reads("inspect-zip") ELSE Reads("release-zip"))
            \o (IF compared.status # "" THEN Reads("zip-baseline") \o Writes("release-zip-compare")
                ELSE <<>>)
            \o Writes("retention-manifest"),
          FailIf((asked /\ inspected = "fail") \/ compared.status = "fail"),
          [rep EXCEPT !.zipStatus = inspected, !.zip = compared])
Package ==
    LET asked == Given("inspect-zip")
        inspected == CASE asked -> InspectReleaseHandoffZipBytes(in.zip)
                       [] OTHER -> IF OwnPackage THEN "pass" ELSE ""
        files == IF asked THEN FilesOf(in.zip) ELSE [p \in HandoffFiles |-> {"new"}]
    IN  Packaged(asked, inspected,
                 IF Given("zip-baseline") /\ inspected # ""
                   THEN CompareReleaseHandoffPackageInspection(files, in.zipBase) ELSE NoZip)

(* Audit, waivers, to-dos, calendar and decision.                          *)
WaiverFile == IF Given("waivers") THEN in.waivers ELSE [text |-> "", of |-> {}]
Policy == ReleasePolicyTemplate(in.releasePolicy)
AuditOf == BuildReleaseAuditReport(
              [release |-> rep.release, att |-> rep.att, sbom |-> rep.sbom, zip |-> rep.zip,
               flakes |-> rep.flakes], BuildRetentionManifest(rep.index, rep.release), Policy)
Decided(audit, issues, waivers, calendar) ==
    Stage("audit", "evidence",
          Reads("release-policy") \o Reads("audit-baseline") \o Reads("waivers")
            \o Writes("release-audit") \o Writes("waiver-calendar") \o Writes("final-decision"),
          ci, [rep EXCEPT !.audit = audit, !.issues = issues, !.waivers = waivers,
                          !.todos = BuildReleaseAuditTodoReport(issues, waivers),
                          !.calendar = calendar,
                          !.decision = BuildFinalReleaseDecision(audit, waivers, calendar, Policy)])
Audited(audit, issues) ==
    Decided(audit, issues, BuildReleaseWaiverReport(issues, WaiverFile),
            BuildWaiverExpiryCalendar(WaiverFile, Policy.soonDays))
Judged(audit) == Audited(audit, ExtractReleaseAuditIssues(audit))
Audit == Judged(AuditOf)

(* A dry run does not read its own package back here.                      *)
Evidence ==
    LET own == IF in.dry THEN <<>> ELSE Reads("release-evidence-zip")
        found == IF Given("inspect-evidence")
                   THEN InspectReleaseEvidenceBundleZipBytes(in.evidence, EvidenceFiles)
                   ELSE ""
    IN  Stage("evidence", "finish",
              Writes("release-evidence-zip") \o own \o Reads("inspect-evidence"),
              FailIf(found = "fail"), [rep EXCEPT !.evidence = found])

(* The release gate counts when any output or input of the audit was named.*)
releaseAuditRequested == (in.outputs \cap AuditOutputs) \cup (in.reads \cap AuditReads) # {}
Finish ==
    /\ pc = "finish"
    /\ pc' = "exit"
    /\ ci' = IF releaseAuditRequested THEN ApplyGate(rep.audit.gate) ELSE ci
    /\ code' = IF in.never THEN 0 ELSE ci'.exit
    /\ UNCHANGED <<in, rep, disk>>

Next == \/ InspectOnly \/ Load \/ verifyArtifacts \/ Gate \/ Repro \/ Checksum \/ WriteReports
        \/ Index \/ Attest \/ Package \/ Audit \/ Evidence \/ Finish

Spec == Init /\ [][Next]_vars

(***************************************************************************)
(* What must hold.                                                         *)
(***************************************************************************)
Stages == {"start", "verify", "gate", "repro", "checksum", "reports", "index", "attest",
           "package", "audit", "evidence", "finish", "exit"}
TypeOK ==
    /\ in \in Inputs
    /\ pc \in Stages
    /\ code \in 0 .. 2
    /\ ci \in [status : {"pass", "warn", "fail"}, exit : {0, 1}]
    /\ DOMAIN rep = DOMAIN Nothing
    /\ disk \in [Outputs -> {"none", "stale", "new", "partial"}]

(* The process exits with 1 exactly when something it was asked to check   *)
(* failed, whichever stage found it and whatever later stages found:       *)
(* integrity, smoke runs, artifact hashes, the gates, the packages.        *)
Failed ==
    \/ BuildCISummary(in.bundle.of).status = "fail"
    \/ rep.mismatches > 0
    \/ rep.gate.status = "fail"
    \/ "fail" \in {rep.repro, rep.verify, rep.zip.status, rep.evidence}
    \/ Given("inspect-zip") /\ rep.zipStatus = "fail"
    \/ releaseAuditRequested /\ rep.audit.gate.status = "fail"
FailureExits ==
    pc = "exit" /\ ~in.inspect.only /\ code # 2 =>
        code = IF Failed /\ ~in.never THEN 1 ELSE 0

(* A decision other than no-go means that every part of the release passed *)
(* or is excused by a rule that names it and whose date lies ahead; that   *)
(* nothing is left to do; and that the waiver file could be read if there  *)
(* was anything to excuse.  The parts are looked at directly, not through  *)
(* score, gate and issues.                                                 *)
PartStatus(part) ==
    CASE part = "release" -> rep.release.status
      [] part = "attestation" -> rep.att.status
      [] part = "sbom" -> rep.sbom.status
      [] part = "release_zip" -> rep.zip.status
      [] part = "retention" -> rep.audit.parts.audit.status
      [] part = "matrix_flakes" -> rep.flakes
Excused(part, status) ==
    \E r \in in.waivers.of :
        /\ r.id # "" /\ r.expires.text = "time" /\ r.expires.at > 0
        /\ waiverRuleMatches(r, [kind |-> "score", name |-> part, status |-> OrElse(status, "empty")])
DecisionCovers ==
    rep.decision \in {"go", "go-with-watch"} =>
        /\ \A part \in DOMAIN Weights : \/ PartStatus(part) = "pass"
                                       \/ Excused(part, PartStatus(part))
        /\ rep.todos.todos = {}
        /\ rep.issues # {} => WaiverFile.text = "ok"

(* A go stands even though the process reports a failure only where the    *)
(* failure was found after the release manifest was made and is none of    *)
(* the audit: in a package given for inspection.                           *)
GoMeansClean ==
    pc = "exit" /\ code = 1 /\ rep.decision \in {"go", "go-with-watch"} =>
        (Given("inspect-zip") /\ rep.zipStatus = "fail") \/ rep.evidence = "fail"

(* At the end of a run that went through, the index (and the attestation,  *)
(* whose subjects it is) says of every file what the file holds, with one  *)
(* exception the order of the stages brings: an entry of an earlier run's  *)
(* file that a later stage of this run, not a dry one, wrote anew.         *)
WrittenLater == {"sbom", "attestation", "sbom-diff", "release-zip", "release-zip-compare",
                 "retention-manifest"} \cup AuditOutputs
IndexMatchesDisk ==
    pc = "exit" /\ code # 2 =>
        \A e \in rep.index.entries : \/ e.data = disk[e.path]
                                     \/ /\ e.path \in in.stale \cap WrittenLater /\ ~in.dry
                                        /\ e.data = "stale" /\ disk[e.path] = "new"
=============================================================================
