------------------------------ MODULE Release ------------------------------
(***************************************************************************)
(* The release half of rvsmoke: index, dependency inventory, attestation,  *)
(* retention, score, gate, audit, waivers and decision, the pure functions *)
(* of ci_release_ext4.go, ci_attest_ext5.go, ci_verify_ext6.go,            *)
(* ci_audit_ext7.go, ci_audit_ext8.go and ci_release_ext9.go.  A digest is *)
(* the value it stands for.  A file to compare with is [text, of]: no text, *)
(* bad text or good text, and what it holds.  A time is [text, at], in half *)
(* days from the moment of the audit.                                       *)
(***************************************************************************)
EXTENDS Reports, SequencesExt

(* BuildCIArtifactIndex.  An input: path, kind, data, required.            *)
BuildCIArtifactIndex(inputs) ==
    LET empty(i) == inputs[i].path = ""
        again(i) == \E j \in 1 .. i - 1 : inputs[j].path = inputs[i].path
        hollow(i) == inputs[i].required /\ inputs[i].data = "empty"
        warned == \E i \in Range1(inputs) : empty(i) \/ again(i) \/ hollow(i)
    IN  [status |-> IF warned THEN "warn" ELSE "ok",
         entries |-> {inputs[i] : i \in {j \in Range1(inputs) : ~empty(j)}}]

(* parseGoModInventory: one line at a time, in or out of the two blocks.   *)
(* A line: word, and its argument, `Broken' when it does not parse.        *)
Broken == [path |-> "", to |-> ""]
NoMod == [path |-> "", go |-> "", modules |-> {}, replaces |-> {}, bad |-> 0,
          inRequire |-> FALSE, inReplace |-> FALSE]
Require(mod, arg) == IF arg = Broken THEN [mod EXCEPT !.bad = @ + 1]
                     ELSE [mod EXCEPT !.modules = @ \cup {arg}]
ParseLine(mod, line) ==
    CASE line.word = "module" -> [mod EXCEPT !.path = line.arg.path]
      [] line.word = "go" -> [mod EXCEPT !.go = line.arg.path]
      [] line.word = "require (" -> [mod EXCEPT !.inRequire = TRUE]
      [] line.word = "replace (" -> [mod EXCEPT !.inReplace = TRUE]
      [] line.word = ")" -> [mod EXCEPT !.inRequire = FALSE, !.inReplace = FALSE]
      [] line.word = "require" \/ (line.word \in {"replace", "item"} /\ mod.inRequire)
           -> Require(mod, line.arg)
      [] ~mod.inRequire /\ (line.word = "replace" \/ (line.word = "item" /\ mod.inReplace))
           -> IF line.arg = Broken THEN [mod EXCEPT !.bad = @ + 1]
              ELSE [mod EXCEPT !.replaces = {r \in @ : r.path # line.arg.path} \cup {line.arg}]
      [] OTHER -> mod
parseGoModInventory(lines) ==
    LET mod == FoldLeft(ParseLine, NoMod, lines)
        to(m) == {r.to : r \in {x \in mod.replaces : x.path = m.path}}
    IN  [path |-> mod.path, go |-> mod.go,
         modules |-> {[path |-> m.path, version |-> m.to, replace |-> to(m)] : m \in mod.modules}]

(* BuildDependencyInventory and its comparison with a baseline.            *)
BuildDependencyInventory(lines, index) ==
    LET mod == parseGoModInventory(lines)
        kinds == {e.kind : e \in index.entries}
    IN  [status |-> IF mod.path = "" THEN "warn" ELSE "ok", path |-> mod.path, go |-> mod.go,
         modules |-> mod.modules,
         kinds |-> {<<k, Cardinality({e \in index.entries : e.kind = k})>> : k \in kinds}]
Paths(modules) == {m.path : m \in modules}
NoDiff == [status |-> "pass", moved |-> FALSE, go |-> FALSE, added |-> {}, removed |-> {},
           changed |-> {}, kinds |-> {}, issues |-> {}]
CompareDependencyInventory(cur, file) ==
    LET base == file.of
        added == Paths(cur.modules) \ Paths(base.modules)
        removed == Paths(base.modules) \ Paths(cur.modules)
        changed == Paths(cur.modules \ base.modules) \ added
        kinds == {k[1] : k \in (cur.kinds \ base.kinds) \cup (base.kinds \ cur.kinds)}
        drift == added \cup changed \cup kinds
    IN  CASE file.text = "" -> [NoDiff EXCEPT !.status = "warn", !.issues = {"no baseline"}]
          [] file.text = "bad" -> [NoDiff EXCEPT !.status = "fail", !.issues = {"cannot parse"}]
          [] OTHER -> [status |-> CASE base.path # cur.path \/ removed # {} -> "fail"
                                    [] OTHER -> IF base.go # cur.go \/ drift # {} THEN "warn"
                                                ELSE "pass",
                       moved |-> base.path # cur.path, go |-> base.go # cur.go, added |-> added,
                       removed |-> removed, changed |-> changed, kinds |-> kinds, issues |-> {}]

(* BuildReleaseBundleManifest: the worst of its parts, absent ones aside.  *)
BuildReleaseBundleManifest(bundle, statuses) ==
    [bundle |-> bundle, status |-> Verdict({[status |-> s] : s \in statuses}, "pass")]

(* BuildProvenanceAttestation and VerifyProvenanceAttestation.             *)
Materials(release, inventory) ==
    {<<"diagnostic-bundle", release.bundle>>, <<"dependency-inventory", inventory>>}
Subjects(index) == {<<e.path, e.data>> : e \in index.entries}
BuildProvenanceAttestation(release, inventory, index) ==
    [materials |-> Materials(release, inventory), subjects |-> Subjects(index), intact |-> TRUE]
VerifyProvenanceAttestation(att, release, inventory, index) ==
    LET wanted == Materials(release, inventory) \cup Subjects(index)
        got == att.materials \cup att.subjects
        names == {x[1] : x \in got}
        missing == {w[1] : w \in wanted} \ names
        mismatch == {w[1] : w \in wanted \ got} \ missing
        all == mismatch \cup {x \in {"attestation_sha256"} : ~att.intact}
    IN  [missing |-> missing, mismatch |-> all,
         warnings |-> {x \in {"no subjects"} : index.entries = {}},
         status |-> CASE missing \cup all # {} -> "fail"
                      [] OTHER -> IF index.entries = {} THEN "warn" ELSE "pass"]

(* The release package against a baseline; "" when none is compared.       *)
NoZip == [status |-> "", missing |-> {}, changed |-> {}, extra |-> {}, issues |-> {}]
CompareReleaseHandoffPackageInspection(cur, file) ==
    LET base == file.of
    IN  CASE file.text = "" -> [NoZip EXCEPT !.status = "warn", !.issues = {"no baseline"}]
          [] file.text = "bad" -> [NoZip EXCEPT !.status = "fail", !.issues = {"cannot parse"}]
          [] OTHER -> [status |-> CompareFiles(base, cur), missing |-> Missing(base, cur),
                       changed |-> Changed(base, cur), extra |-> Extra(base, cur), issues |-> {}]

(***************************************************************************)
(* Policies, retention, score and gate.                                    *)
(***************************************************************************)
DefaultReleaseVerificationGatePolicy ==
    [name |-> "default", releasePass |-> FALSE, sbomFail |-> TRUE, expired |-> TRUE,
     attWarnings |-> 2, sbomWarnings |-> -1, extras |-> 3, retWarnings |-> -1,
     minDays |-> 7, soonDays |-> 14]
ReleasePolicyTemplate(name) ==
    LET default == DefaultReleaseVerificationGatePolicy
    IN  CASE name = "strict" ->
               [default EXCEPT !.name = name, !.releasePass = TRUE, !.attWarnings = 0,
                               !.sbomWarnings = 0, !.extras = 0, !.retWarnings = 0,
                               !.minDays = 30, !.soonDays = 30]
          [] name = "lenient" ->
               [default EXCEPT !.name = name, !.sbomFail = FALSE, !.expired = FALSE,
                               !.attWarnings = -1, !.extras = -1, !.minDays = 0, !.soonDays = 7]
          [] name = "archive" ->
               [default EXCEPT !.name = name, !.extras = -1, !.minDays = 90, !.soonDays = 45]
          [] OTHER -> default

(* Kinds are the names main gives its outputs.                             *)
retentionDaysForKind(kind, failed) ==
    CASE kind \in {"sarif", "junit"} -> IF failed THEN 180 ELSE 90
      [] kind \in {"html", "markdown"} -> IF failed THEN 180 ELSE 60
      [] kind = "json" -> IF failed THEN 180 ELSE 90
      [] kind \in {"zip", "workflow"} -> 365
      [] OTHER -> IF failed THEN 90 ELSE 30
Time(t) == [text |-> "time", at |-> t]
BuildRetentionManifest(index, release) ==
    {[path |-> e.path, days |-> retentionDaysForKind(e.kind, release.status = "fail"),
      expires |-> Time(2 * retentionDaysForKind(e.kind, release.status = "fail"))] :
        e \in index.entries}

(* BuildRetentionAudit: a set of entries, each with its status, and counts.*)
Days(time) == time.at \div 2
Expired(time) == time.text = "time" /\ time.at <= 0
Soon(time, days) ==
    time.text = "time" /\ time.at > 0 /\ days > 0 /\ Days(time) <= days
AuditRow(e, policy) ==
    LET short == policy.minDays > 0 /\ e.days < policy.minDays
        poor == e.expires.text # "time" \/ Soon(e.expires, policy.soonDays)
    IN  CASE short \/ Expired(e.expires) -> "fail"
          [] OTHER -> IF poor THEN "warn" ELSE "pass"
BuildRetentionAudit(retention, policy) ==
    LET rows == {[path |-> e.path, status |-> AuditRow(e, policy)] : e \in retention}
        count(P(_)) == Cardinality({e \in retention : P(e)})
        expired(e) == Expired(e.expires)
        soon(e) == Soon(e.expires, policy.soonDays)
        short(e) == policy.minDays > 0 /\ e.days < policy.minDays
        bad(e) == e.expires.text = "bad"
    IN  [rows |-> rows, status |-> Verdict(rows, "pass"), expired |-> count(expired),
         soon |-> count(soon), short |-> count(short), warnings |-> count(bad)]

(* BuildReleaseVerificationScore.  A part without a status scores in full, *)
(* and is listed as "empty".                                               *)
Weights == [release |-> 25, attestation |-> 20, sbom |-> 15, release_zip |-> 15,
            retention |-> 15, matrix_flakes |-> 10]
Points(weight, status) == CASE status \in Failing -> 0
                            [] status \in {"warn", "empty"} -> weight \div 2
                            [] OTHER -> weight
BuildReleaseVerificationScore(statuses) ==
    LET points(part) == Points(Weights[part], statuses[part])
        score == FoldFunction(+, 0, [part \in DOMAIN Weights |-> points(part)])
        lost == \E part \in DOMAIN Weights : points(part) < Weights[part]
    IN  [score |-> score,
         parts |-> {Check(part, OrElse(statuses[part], "empty")) : part \in DOMAIN Weights},
         status |-> CASE score < 60 -> "fail"
                      [] OTHER -> IF score < 85 \/ lost THEN "warn" ELSE "pass"]

(* BuildReleaseVerificationGateReport: `p' holds the parts it looks at.    *)
Grade(name, fails, warns) ==
    {Check(name, CASE fails -> "fail" [] OTHER -> IF warns THEN "warn" ELSE "pass")}
Within(name, count, max) == IF max < 0 THEN {} ELSE Grade(name, count > max, FALSE)
SbomDrift(d) == Cardinality(d.issues) + Cardinality(d.added) + Cardinality(d.changed)
                + Cardinality(d.kinds)
ReleaseGateChecks(p, policy) ==
    Grade("release-status", p.release.status \in Failing
            \/ (policy.releasePass /\ p.release.status # "pass"), FALSE)
    \cup Grade("attestation", p.att.status = "fail", p.att.status = "warn")
    \cup Within("attestation-warnings", Cardinality(p.att.warnings), policy.attWarnings)
    \cup Grade("sbom-diff", policy.sbomFail /\ p.sbom.status = "fail", p.sbom.status = "warn")
    \cup Within("sbom-warning-count", SbomDrift(p.sbom), policy.sbomWarnings)
    \cup Grade("release-zip-compare", p.zip.status = "fail", p.zip.status = "warn")
    \cup Within("release-zip-extra-files", Cardinality(p.zip.extra), policy.extras)
    \cup {CASE policy.expired /\ p.audit.expired # 0 -> Check("retention-expired", "fail")
            [] OTHER -> IF p.audit.soon # 0 THEN Check("retention-expiring-soon", "warn")
                        ELSE Check("retention-expiry", "pass")}
    \cup Within("retention-warnings", p.audit.warnings, policy.retWarnings)
    \cup Grade("retention-min-days", policy.minDays > 0 /\ p.audit.short # 0, FALSE)
    \cup Grade("release-score", p.score.status = "fail", p.score.status = "warn")
BuildReleaseVerificationGateReport(p, policy) ==
    LET checks == ReleaseGateChecks(p, policy)
    IN  [checks |-> checks, status |-> Verdict(checks, "pass"),
         exit |-> IF Verdict(checks, "pass") = "fail" THEN 1 ELSE 0]

(* BuildReleaseAuditReport: all of it, for the parts release, att, sbom,   *)
(* zip and flakes, and the retention manifest.                             *)
BuildReleaseAuditReport(p, retention, policy) ==
    LET audit == BuildRetentionAudit(retention, policy)
        score == BuildReleaseVerificationScore(
                    [release |-> p.release.status, attestation |-> p.att.status,
                     sbom |-> p.sbom.status, release_zip |-> p.zip.status,
                     retention |-> audit.status, matrix_flakes |-> p.flakes])
        whole == [release |-> p.release, att |-> p.att, sbom |-> p.sbom, zip |-> p.zip,
                  audit |-> audit, score |-> score]
        gate == BuildReleaseVerificationGateReport(whole, policy)
    IN  [parts |-> whole, gate |-> gate, score |-> score,
         status |-> IF gate.status = "pass" THEN score.status ELSE gate.status]

(***************************************************************************)
(* What is left to do: issues, waivers, to-dos, the waiver calendar and    *)
(* the decision.                                                           *)
(***************************************************************************)
severityFromStatus(s) == CASE Rank(s) = 3 -> "fail" [] Rank(s) = 2 -> "warn"
                           [] Rank(s) = 1 -> "pass" [] OTHER -> "info"

(* ExtractReleaseAuditIssues.                                              *)
IssuesOf(kind, names, status) == {[kind |-> kind, name |-> n, status |-> status] : n \in names}
IssuesIn(kind, checks) ==
    {[kind |-> kind, name |-> c.name, status |-> c.status] :
        c \in {x \in checks : x.status # "pass"}}
ExtractReleaseAuditIssues(a) ==
    LET att == a.parts.att
        sbom == a.parts.sbom
        zip == a.parts.zip
    IN  IssuesIn("gate", a.gate.checks)
        \cup IssuesIn("score", a.score.parts)
        \cup IssuesIn("retention", {Check(r.path, r.status) : r \in a.parts.audit.rows})
        \cup IssuesOf("attestation", att.missing \cup att.mismatch, "fail")
        \cup IssuesOf("attestation", att.warnings, "warn")
        \cup IssuesOf("sbom", sbom.issues, sbom.status)
        \cup IssuesOf("sbom", sbom.added \cup sbom.changed, "warn")
        \cup IssuesOf("release_zip", zip.issues, zip.status)
        \cup IssuesOf("release_zip", zip.missing \cup zip.changed, "fail")
        \cup IssuesOf("release_zip", zip.extra, "warn")

(* A waiver rule: id, kind, name, status, contains and expires; "" asks    *)
(* for nothing.  `contains' is looked for in what the issue is made of.    *)
waiverRuleMatches(rule, issue) ==
    /\ rule.id # ""
    /\ rule.kind \in {"", issue.kind}
    /\ rule.name \in {"", issue.name}
    /\ rule.status \in {"", issue.status}
    /\ rule.contains \in {"", issue.kind, issue.name, issue.status}

(* The worst severity of what no rule waives.                              *)
Remaining(issues) == CASE \E i \in issues : severityFromStatus(i.status) = "fail" -> "fail"
                       [] OTHER -> IF issues # {} THEN "warn" ELSE "pass"

(* BuildReleaseWaiverReport: `waived' are the issues an active rule        *)
(* matches, `expired' the matches of expired rules.  The decision compares *)
(* what the code counts with zero only: here the sets it counts.           *)
WaivedBy(issues, rules) ==
    {i \in issues : \E r \in rules : waiverRuleMatches(r, i) /\ ~Expired(r.expires)}
BuildReleaseWaiverReport(issues, file) ==
    LET waived == WaivedBy(issues, file.of)
        stale == {x \in issues \X file.of : waiverRuleMatches(x[2], x[1]) /\ Expired(x[2].expires)}
        rest == Remaining(issues \ waived)
    IN  IF file.text = "bad"
          THEN [waived |-> {}, unwaived |-> issues, expired |-> {}, status |-> "fail"]
          ELSE [waived |-> waived, unwaived |-> issues \ waived, expired |-> stale,
                status |-> IF rest = "pass" /\ stale # {} THEN "warn" ELSE rest]

(* BuildReleaseAuditTodoReport.                                            *)
Priority(i) == CASE severityFromStatus(i.status) = "fail" -> "P0"
                 [] OTHER -> IF i.kind \in {"retention", "sbom"} THEN "P1" ELSE "P2"
BuildReleaseAuditTodoReport(issues, waivers) ==
    LET left == issues \ waivers.waived
    IN  [todos |-> {[issue |-> i, priority |-> Priority(i)] : i \in left},
         status |-> Remaining(left)]

(* BuildWaiverExpiryCalendar: the rules that lapsed and those that soon do.*)
EntryStatus(rule, soonDays) ==
    CASE rule.id = "" \/ rule.expires.text # "time" -> "invalid"
      [] rule.id # "" /\ Expired(rule.expires) -> "expired"
      [] OTHER -> IF Soon(rule.expires, IF soonDays <= 0 THEN 14 ELSE soonDays)
                    THEN "expiring-soon" ELSE "active"
BuildWaiverExpiryCalendar(file, soonDays) ==
    LET of(statuses) == {r \in file.of : EntryStatus(r, soonDays) \in statuses}
        lapsed == of({"expired", "invalid"})
        soon == of({"expiring-soon"})
    IN  IF file.text = "bad" THEN [lapsed |-> {}, soon |-> {}, status |-> "fail"]
        ELSE [lapsed |-> lapsed, soon |-> soon,
              status |-> CASE lapsed # {} -> "fail"
                           [] OTHER -> IF soon # {} THEN "warn" ELSE "pass"]

(* BuildFinalReleaseDecision.                                              *)
Blocking(a, waivers, calendar, policy) ==
    \/ a.gate.status = "fail"
    \/ a.score.status = "fail" \/ a.score.score < 60
    \/ waivers.unwaived # {}
    \/ waivers.expired # {} \/ calendar.lapsed # {}
    \/ policy.releasePass /\ a.parts.release.status # "pass"
Watching(a, calendar) ==
    \/ a.gate.status = "warn"
    \/ a.score.status = "warn" \/ a.score.score < 80
    \/ calendar.soon # {}
BuildFinalReleaseDecision_NoCalendar(a, waivers, calendar, policy) ==
    CASE Blocking(a, waivers, [calendar EXCEPT !.lapsed = {}], policy) -> "no-go"
      [] OTHER -> IF Watching(a, calendar) THEN "go-with-watch" ELSE "go"
BuildFinalReleaseDecision(a, waivers, calendar, policy) ==
    CASE Blocking(a, waivers, calendar, policy) -> "no-go"
      [] OTHER -> IF Watching(a, calendar) THEN "go-with-watch" ELSE "go"
=============================================================================
