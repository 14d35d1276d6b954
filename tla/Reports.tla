------------------------------ MODULE Reports ------------------------------
(***************************************************************************)
(* The verdicts rvsmoke computes from a diagnostic bundle: integrity,      *)
(* summary and gate of internal/analyze/ci_repro.go, ci_gate.go and        *)
(* ci_matrix.go, the matrix aggregate of ci_matrix_ext3.go,                *)
(* and the inspections of its packages.  A report is the set of its        *)
(* checks, each with a status; hashes, names and causes are values that    *)
(* only compare.  Wording, order and formats of the reports are left out.  *)
(***************************************************************************)
EXTENDS Integers, Sequences, FiniteSets

(* Ranks: worstStatus, releaseWorstStatus, severityFromStatus and          *)
(* statusFromChecks all order statuses so.                                 *)
Failing == {"fail", "error"}
Warning == {"warn", "warning"}
Passing == {"pass", "ok"}
Rank(s) == CASE s \in Failing -> 3 [] s \in Warning -> 2 [] s \in Passing -> 1 [] OTHER -> 0
worstStatus(a, b) == IF Rank(b) > Rank(a) THEN b ELSE a
OrElse(s, default) == IF s = "" THEN default ELSE s

(* The status a set of checks adds up to, from `best' for no bad one.      *)
Verdict(checks, best) ==
    CASE \E c \in checks : c.status \in Failing -> "fail"
      [] (\A c \in checks : c.status \notin Failing) /\ (\E c \in checks : c.status \in Warning)
           -> "warn"
      [] OTHER -> best
Check(name, status) == [name |-> name, status |-> status]

(***************************************************************************)
(* Bundle.  harts: count; bootArgs: recorded?; artifacts: [role, hash,     *)
(* bytes, span], span being end - load + 1; causes and triage: categories  *)
(* of stop causes and of the triage's candidates, the top one first;       *)
(* suggested: [complete, command]; smoke: [cause, status, overran];        *)
(* anomalies: count.                                                       *)
(***************************************************************************)
Range1(seq) == 1 .. Len(seq)
TopCause(b) == IF b.causes = <<>> THEN "" ELSE b.causes[1]
bundleTopCause(b) == IF b.causes = <<>> /\ b.triage # <<>> THEN b.triage[1] ELSE TopCause(b)
GoodHash(h) == h \notin {"", "malformed"}

(* BuildBundleIntegrityReport: the issues, by severity.                    *)
Issues(b) ==
    LET art(i) == b.artifacts[i]
        issue(sev, what, where) == {[sev |-> sev, what |-> what, where |-> i] : i \in where}
        reversed == {i \in Range1(b.artifacts) : art(i).bytes # 0 /\ art(i).span <= 0}
    IN  issue("warn", "hart_count", {0 : x \in {y \in {0} : b.harts <= 0}})
        \cup issue("info", "boot_args", {y \in {0} : ~b.bootArgs})
        \cup issue("warn", "no artifacts", {y \in {0} : b.artifacts = <<>>})
        \cup issue("error", "role", {i \in Range1(b.artifacts) : art(i).role = ""})
        \cup issue("warn", "duplicate", {i \in Range1(b.artifacts) :
                                           \E j \in 1 .. i - 1 : art(j).role = art(i).role})
        \cup issue("error", "hash", {i \in Range1(b.artifacts) :
                                       art(i).bytes > 0 /\ ~GoodHash(art(i).hash)})
        \cup issue("error", "range", reversed)
        \cup issue("warn", "length", {i \in Range1(b.artifacts) \ reversed :
                                        art(i).bytes > 0 /\ art(i).span # art(i).bytes})
        \cup issue("info", "no suggestions", {y \in {0} : b.suggested = <<>> /\ b.causes # <<>>})
        \cup issue("warn", "suggestion", {i \in Range1(b.suggested) : ~b.suggested[i].complete})
        \cup issue("info", "command", {i \in Range1(b.suggested) : ~b.suggested[i].command})
        \cup issue("warn", "steps", {i \in Range1(b.smoke) : b.smoke[i].overran})
Count(b, sev) == Cardinality({i \in Issues(b) : i.sev = sev})
IntegrityStatus(b) == CASE Count(b, "error") > 0 -> "error"
                        [] Count(b, "error") = 0 /\ Count(b, "warn") > 0 -> "warn"
                        [] OTHER -> "ok"

(* The patterns a cause contains.  RankStopCauses writes its categories    *)
(* with hyphens; the top cause of a smoke run is a category with its       *)
(* summary, which for an oops also speaks of a fault.                      *)
Containing ==
    [panic |-> {"kernel-panic"}, oops |-> {"kernel-oops"},
     illegal |-> {"illegal-instruction", "illegal instruction"},
     fault |-> {"page-fault", "access-fault", "page fault", "access fault"}]
Says(cause) == {cause} \cup {p \in DOMAIN Containing : cause \in Containing[p]}
RunSays(cause) == Says(cause) \cup (IF cause = "kernel-oops" THEN {"fault"} ELSE {})

(* BuildCISummary: status and exit code before any gate.                   *)
SmokeFailures(b) ==
    Cardinality({i \in Range1(b.smoke) :
        RunSays(b.smoke[i].cause) \cap {"panic", "fault", "illegal", "virtqueue"} # {}})
BuildCISummary(b) ==
    CASE \/ Count(b, "error") > 0
         \/ SmokeFailures(b) > 0
         \/ Says(TopCause(b)) \cap {"panic", "illegal"} # {} -> [status |-> "fail", exit |-> 1]
      [] OTHER -> [status |-> IF Count(b, "warn") > 0 \/ b.anomalies > 0 \/ TopCause(b) # ""
                                THEN "warn" ELSE "pass", exit |-> 0]

(* BuildCIGateReport.  A negative limit disables its check.  `lines' are   *)
(* the lengths of trace and console, `baseline' says one was compared.     *)
GateSmokeFailures(b) ==
    Cardinality({i \in Range1(b.smoke) :
        (RunSays(b.smoke[i].cause) \cup Says(b.smoke[i].status))
            \cap {"panic", "oops", "fault", "illegal", "virtqueue", "fail"} # {}})
Threshold(name, observed, max) ==
    {Check(name, IF max >= 0 /\ observed > max THEN "fail" ELSE "pass")}
AtLeast(name, observed, min) ==
    IF min > 0 THEN {Check(name, IF observed < min THEN "fail" ELSE "pass")} ELSE {}
IntegrityWarnings(n, policy) ==
    {Check("integrity_warnings", CASE policy.warnings < 0 \/ n <= policy.warnings -> "pass"
                                   [] OTHER -> IF policy.strict THEN "fail" ELSE "warn")}
GateChecks(b, lines, baseline, policy) ==
    Threshold("integrity_errors", Count(b, "error"), policy.errors)
    \cup IntegrityWarnings(Count(b, "warn"), policy)
    \cup Threshold("virtqueue_anomalies", b.anomalies, policy.anomalies)
    \cup Threshold("smoke_failures", GateSmokeFailures(b), policy.smoke)
    \cup AtLeast("trace_lines", lines.trace, policy.trace)
    \cup AtLeast("console_lines", lines.console, policy.console)
    \cup {Check(r,
                IF \E i \in Range1(b.artifacts) : b.artifacts[i].role = r THEN "pass" ELSE "fail") :
            r \in policy.require}
    \cup {Check("top_stop_cause", "fail") : c \in policy.causes \cap Says(bundleTopCause(b))}
    \cup {Check("baseline", "warn") : x \in {y \in {0} : policy.baseline /\ ~baseline}}
BuildCIGateReport(b, lines, baseline, policy) ==
    LET checks == GateChecks(b, lines, baseline, policy)
        verdict == Verdict(checks, "pass")
        failed == verdict = "fail" \/ (verdict = "warn" /\ policy.strict)
    IN  [checks |-> checks, status |-> IF failed THEN "fail" ELSE verdict,
         exit |-> IF failed THEN 1 ELSE 0]

(* The built-in policies; any other name is the default policy's.          *)
PolicyTemplate(name) ==
    LET limits(e, w, a, s) == [errors |-> e, warnings |-> w, anomalies |-> a, smoke |-> s]
        rest(t, c, req, causes, strict) ==
            [trace |-> t, console |-> c, require |-> req, causes |-> causes,
             baseline |-> FALSE, strict |-> strict]
        all(l, r) == [f \in DOMAIN l \cup DOMAIN r |-> IF f \in DOMAIN l THEN l[f] ELSE r[f]]
        boot == {"firmware", "payload"}
    IN  CASE name = "strict" ->
               all(limits(0, 0, 0, 0),
                   rest(10, 1, boot, {"panic", "oops", "illegal", "fault", "virtqueue"}, TRUE))
          [] name = "linux-boot" ->
               all(limits(0, 1, 0, 0),
                   rest(100, 5, boot, {"panic", "oops", "illegal instruction", "page fault",
                                       "access fault"}, FALSE))
          [] name = "artifact-only" ->
               all(limits(0, -1, -1, -1), rest(0, 0, {"firmware"}, {}, FALSE))
          [] name = "lenient" -> all(limits(0, -1, -1, -1), rest(0, 0, {}, {}, FALSE))
          [] OTHER -> all(limits(0, -1, -1, 0), rest(0, 0, {}, {"panic", "oops", "illegal"}, FALSE))

(* verifyArtifacts: files named on the command line against the pins of    *)
(* the manifest; a file that cannot be read is no match.                   *)
VerifyArtifactBytes(file, b) ==
    LET pins == {i \in Range1(b.artifacts) : b.artifacts[i].role = file.role}
    IN  /\ file.readable
        /\ pins # {}
        /\ LET pin == b.artifacts[CHOOSE i \in pins : \A j \in pins : i <= j]
           IN  pin.hash = file.hash /\ pin.bytes \in {0, file.bytes}

(***************************************************************************)
(* Other runs' results (BuildMatrixResultAggregate, BuildMatrixFlakeReport)*)
(* A result: group, whether it parses, and the statuses found in it, ""    *)
(* for a report it does not hold.                                          *)
(***************************************************************************)
MatrixRow(r) ==
    LET ci == OrElse(r.ci, "fail")
        worst == worstStatus(worstStatus(ci, r.gate), r.integrity)
    IN  IF ~r.parses \/ r.mismatches > 0 \/ r.exit # 0 \/ r.gateExit # 0 THEN "fail" ELSE worst
MatrixStatus(results) ==
    IF results = <<>> THEN "empty"
    ELSE Verdict({[status |-> IF Rank(MatrixRow(results[i])) = 0 THEN "fail"
                                ELSE MatrixRow(results[i])] : i \in Range1(results)}, "pass")
canonicalMatrixStatus(s) == IF Rank(s) \in {1, 2} THEN Rank(s) ELSE 3
FlakyGroups(results) ==
    LET rows(g) == {i \in Range1(results) : results[i].group = g}
        found(g) == {canonicalMatrixStatus(MatrixRow(results[i])) : i \in rows(g)}
    IN  {g \in {results[i].group : i \in Range1(results)} : Cardinality(found(g)) > 1}
FlakeStatus(results) == CASE results = <<>> -> "empty"
                          [] results # <<>> /\ FlakyGroups(results) # {} -> "warn"
                          [] OTHER -> "pass"

(***************************************************************************)
(* Packages.  A package: opens, and files [path, reads, parses, hash].  A  *)
(* path is a name of the package, "unsafe", or another name.               *)
(***************************************************************************)
PathsOf(zip) == {zip.files[i].path : i \in Range1(zip.files)}
Duplicated(zip) == {i \in Range1(zip.files) :
                      \E j \in 1 .. i - 1 : zip.files[j].path = zip.files[i].path}
CommonChecks(zip, required, parsed) ==
    {Check("read", "fail") : i \in {j \in Range1(zip.files) : ~zip.files[j].reads}}
    \cup {Check("path-safety", "fail") : x \in PathsOf(zip) \cap {"unsafe"}}
    \cup {Check("duplicate", "warn") : i \in Duplicated(zip)}
    \cup {Check("required-files", IF required \subseteq PathsOf(zip) THEN "pass" ELSE "fail")}
    \cup {Check("parse", "fail") :
            i \in {j \in Range1(zip.files) : zip.files[j].reads /\ ~zip.files[j].parses
                                             /\ zip.files[j].path \in parsed}}

(* The handoff package: its four JSON files must parse.                    *)
HandoffJSON == {"release-manifest.json", "ci-artifact-index.json", "dependency-inventory.json",
                "provenance-attestation.json"}
HandoffFiles == HandoffJSON \cup {"README.md", "release.html"}
InspectReleaseHandoffZipBytes(zip) ==
    IF ~zip.opens THEN "fail" ELSE Verdict(CommonChecks(zip, HandoffFiles, HandoffJSON), "pass")

(* What an inspection lists: of every path the last entry it could read.   *)
Readable(zip) == IF zip.opens THEN {i \in Range1(zip.files) : zip.files[i].reads} ELSE {}
Contents(zip, path) ==
    LET at == {i \in Readable(zip) : zip.files[i].path = path}
    IN  {zip.files[i] : i \in {j \in at : \A k \in at : k <= j}}
FilesOf(zip) ==
    [p \in {zip.files[i].path : i \in Readable(zip)} |-> {f.hash : f \in Contents(zip, p)}]

(* The minimal reproduction package also compares its two manifests, and   *)
(* only warns about its policy and its script.                             *)
ReproFiles == {"README.md", "diagnostic-bundle.json", "manifest.json", "runner-spec.json",
               "ci-policy.json", "ci-summary.json", "scripts/rvsmoke.sh",
               "policy-violation-tree.md", "history.txt"}
InspectMinimalReproZipBytes(zip) ==
    LET soft == {"ci-policy.json", "scripts/rvsmoke.sh"}
        hard == {"diagnostic-bundle.json", "manifest.json"}
        broken(paths) == {f \in UNION {Contents(zip, p) : p \in paths} : ~f.parses}
        bundle == Contents(zip, "diagnostic-bundle.json")
        manifest == Contents(zip, "manifest.json")
        differ == \E x \in bundle, y \in manifest : x.parses /\ y.parses /\ x.manifest # y.manifest
        checks == CommonChecks(zip, ReproFiles, {})
                  \cup {Check("parse", "fail") : f \in broken(hard)}
                  \cup {Check("soft", "warn") : f \in broken(soft)}
                  \cup {Check("manifest-vs-bundle", "fail") : x \in {y \in {0} : differ}}
    IN  IF ~zip.opens THEN "fail" ELSE Verdict(checks, "pass")

(* The evidence package allows no duplicate, and looks into its JSON files *)
(* only, required or not.                                                  *)
InspectReleaseEvidenceBundleZipBytes(zip, required) ==
    IF \/ ~zip.opens
       \/ "unsafe" \in PathsOf(zip)
       \/ Duplicated(zip) # {}
       \/ \E i \in Range1(zip.files) : LET f == zip.files[i]
                                       IN  f.path # "README.md" /\ ~(f.reads /\ f.parses)
       \/ ~(required \subseteq PathsOf(zip))
      THEN "fail" ELSE "pass"

(* VerifyReproZipChecksumManifest and CompareReleaseHandoffPackage-        *)
(* Inspection: two lists of files, as functions from paths to contents.    *)
Missing(base, cur) == DOMAIN base \ DOMAIN cur
Changed(base, cur) == {p \in DOMAIN base \cap DOMAIN cur : base[p] # cur[p]}
Extra(base, cur) == DOMAIN cur \ DOMAIN base
CompareFiles(base, cur) ==
    CASE Missing(base, cur) \cup Changed(base, cur) # {} -> "fail"
      [] Missing(base, cur) \cup Changed(base, cur) = {} /\ Extra(base, cur) # {} -> "warn"
      [] OTHER -> "pass"
=============================================================================
