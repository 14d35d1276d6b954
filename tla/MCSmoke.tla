------------------------------ MODULE MCSmoke ------------------------------
(* Command lines for Smoke: one that passes everywhere and leads to "go",  *)
(* and its variations: bundles and policies, releases, and files that fail.*)
EXTENDS Smoke
LOCAL INSTANCE SequencesExt

File(text, of) == [text |-> text, of |-> of]
Artifact(role, hash, bytes, span) == [role |-> role, hash |-> hash, bytes |-> bytes, span |-> span]
Pins == <<Artifact("firmware", "f", 2, 2), Artifact("payload", "p", 3, 3)>>
Bundle == [harts |-> 1, bootArgs |-> TRUE, artifacts |-> Pins, causes |-> <<>>,
           triage |-> <<>>, suggested |-> <<>>, smoke |-> <<>>, anomalies |-> 0]
Ran(cause, status, overran) == [cause |-> cause, status |-> status, overran |-> overran]
Entry(path, hash) == [path |-> path, reads |-> TRUE, parses |-> TRUE, hash |-> hash, manifest |-> "m"]
Pkg(paths) == [opens |-> TRUE, files |-> InOrder({Entry(p, "h") : p \in paths})]
Add(zip, file) == [zip EXCEPT !.files = Append(@, file)]
Result(group, status) == [group |-> group, parses |-> TRUE, mismatches |-> 0, exit |-> 0,
                          gateExit |-> 0, ci |-> status, gate |-> "pass", integrity |-> "ok"]
Line(word, path, to) == [word |-> word, arg |-> [path |-> path, to |-> to]]
GoMod == <<Line("module", "rvwasm", ""), Line("go", "1.22", ""), Line("require (", "", ""),
           Line("item", "a", "v1"), Line(")", "", ""), Line("replace", "a", "b")>>
Rule(id, kind, name, at) == [id |-> id, kind |-> kind, name |-> name, status |-> "",
                             contains |-> "", expires |-> [text |-> "time", at |-> at]]
Listed(paths, digest) == [files |-> [p \in paths |-> {"h"}], digest |-> digest]
NoList == Listed({}, <<>>)
NoPkg == [only |-> FALSE, what |-> "", zip |-> Pkg({})]
OwnFiles == [p \in HandoffFiles |-> {"new"}]
AllOutputs == {"matrix-summary", "junit", "html", "sarif", "repro-zip", "artifact-index",
               "release-manifest", "sbom", "attestation", "release-zip", "release-audit",
               "final-decision", "release-evidence-zip"}
(* What the inventory looks like when those outputs are indexed.           *)
Inventory0(outs) == [path |-> "rvwasm", go |-> "1.22",
                     modules |-> {[path |-> "a", version |-> "v1", replace |-> {"b"}]},
                     kinds |-> {<<o, 1>> : o \in outs}]
First == {"matrix-summary", "junit", "html", "sarif", "repro-zip"}

Base == [inspect |-> NoPkg, bundle |-> File("ok", Bundle), lines |-> [trace |-> 20, console |-> 5],
         policy |-> "default", files |-> {}, broken |-> {}, stale |-> {}, dry |-> FALSE,
         never |-> FALSE, reads |-> {"bundle", "sbom-baseline", "zip-baseline", "waivers"},
         outputs |-> AllOutputs, repro |-> Pkg(ReproFiles), reproBase |-> File("", NoList),
         results |-> <<Result("a", "pass"), Result("a", "pass")>>, goMod |-> GoMod,
         sbomBase |-> File("ok", Inventory0(First)), zip |-> Pkg(HandoffFiles),
         zipBase |-> File("ok", OwnFiles), releasePolicy |-> "default",
         waivers |-> File("", {}), evidence |-> Pkg(EvidenceFiles)]

(* The stop causes of the program, and two of a report of other origin.    *)
Categories == {"kernel-panic", "kernel-oops", "illegal-instruction", "page-fault", "access-fault",
               "virtqueue", "device-probe", "page fault", "oops"}
(* Bundles of every verdict, artifact files, policies, packages to inspect.*)
Bundles ==
    {Bundle, [Bundle EXCEPT !.harts = 0], [Bundle EXCEPT !.anomalies = 1],
     [Bundle EXCEPT !.artifacts = <<>>],
     [Bundle EXCEPT !.artifacts = <<Artifact("firmware", "malformed", 2, 2)>>],
     [Bundle EXCEPT !.artifacts = Append(Pins, Artifact("firmware", "f", 2, 3))],
     [Bundle EXCEPT !.artifacts = <<Artifact("", "f", 2, 0)>>],
     [Bundle EXCEPT !.smoke = <<Ran("kernel-oops", "running", FALSE)>>],
     [Bundle EXCEPT !.smoke = <<Ran("device-probe", "fault", TRUE)>>],
     [Bundle EXCEPT !.suggested = <<[complete |-> FALSE, command |-> TRUE]>>]}
    \cup {[Bundle EXCEPT !.causes = <<c>>] : c \in Categories}
    \cup {[Bundle EXCEPT !.triage = <<c, "virtqueue">>] : c \in Categories}
    \cup {[Bundle EXCEPT !.smoke = <<Ran(c, "running", FALSE)>>] : c \in Categories}
Held(role, hash, bytes) == [role |-> role, readable |-> TRUE, hash |-> hash, bytes |-> bytes]
HeldFiles == {{}, {Held("firmware", "f", 2)}, {Held("payload", "x", 3)}, {Held("initrd", "i", 1)},
              {[Held("firmware", "f", 2) EXCEPT !.readable = FALSE]}}
Checking ==
    {[Base EXCEPT !.bundle = File("ok", b), !.policy = p] :
        b \in Bundles, p \in {"default", "strict", "linux-boot", "artifact-only", "lenient"}}
    \cup {[Base EXCEPT !.files = f, !.never = n] : f \in HeldFiles, n \in BOOLEAN}
    \cup {[Base EXCEPT !.bundle = File("bad", "")],
           [Base EXCEPT !.policy = "strict", !.lines = [trace |-> 3, console |-> 0]]}

(* Packages, one fault each.                                               *)
Faulty(paths) ==
    LET zip == Pkg(paths)
    IN  {zip, [zip EXCEPT !.opens = FALSE], Add(zip, Entry("unsafe", "h")),
         Add(zip, Entry("README.md", "h")),
         Add(zip, [Entry("README.md", "x") EXCEPT !.reads = FALSE]),
         Add(Pkg(paths \ {"README.md"}), [Entry("README.md", "h") EXCEPT !.parses = FALSE]),
         Add(zip, [Entry("other.json", "h") EXCEPT !.parses = FALSE]),
         Add(zip, [Entry("more.json", "h") EXCEPT !.reads = FALSE]),
         Pkg(paths \ {"README.md"})}
Sets == [release |-> HandoffFiles, evidence |-> EvidenceFiles, repro |-> ReproFiles]
Inspecting ==
    UNION {{[Base EXCEPT !.inspect = [only |-> TRUE, what |-> w, zip |-> z], !.never = TRUE] :
              z \in Faulty(Sets[w])} : w \in DOMAIN Sets}
    \cup {[Base EXCEPT !.repro = z, !.reads = @ \cup {"inspect-repro", "checksums"},
                       !.outputs = @ \cup {"checksum-verify"}, !.reproBase = f] :
            z \in Faulty(ReproFiles)
                  \cup {Add(Pkg(ReproFiles \ {p}), [Entry(p, "h") EXCEPT !.parses = FALSE]) :
                          p \in {"manifest.json", "ci-policy.json"}}
                  \cup {Add(Pkg(ReproFiles \ {"manifest.json"}),
                            [Entry("manifest.json", "h") EXCEPT !.manifest = "n"])},
            f \in {File("", NoList), File("bad", NoList), File("ok", Listed(ReproFiles, <<>>)),
                   File("ok", Listed(ReproFiles, DigestOf(Pkg(ReproFiles)))),
                   File("ok", Listed(ReproFiles, DigestOf(Pkg({"README.md"})))),
                   File("ok", Listed(ReproFiles \cup {"gone"}, <<>>))}}
    \cup {[Base EXCEPT !.evidence = z, !.reads = @ \cup {"inspect-evidence"}] :
            z \in Faulty(EvidenceFiles)}
    \cup {[Base EXCEPT !.zip = z, !.reads = @ \cup {"inspect-zip"}, !.zipBase = f,
                       !.releasePolicy = p] :
            z \in Faulty(HandoffFiles), p \in {"default", "lenient"},
            f \in {File("", <<>>), File("bad", <<>>), File("ok", [q \in HandoffFiles |-> {"h"}]),
                   File("ok", [q \in HandoffFiles |-> {"old"}])}}

(* Releases: matrix results, inventories, policies, waivers.               *)
WaiverSets ==
    {File("", {}), File("bad", {}), File("ok", {Rule("w", "", "", 60)}),
     File("ok", {Rule("w", "", "", 4)}), File("ok", {Rule("w", "", "", 0)}),
     File("ok", {Rule("w", "score", "", 60), Rule("v", "gate", "", 60)}),
     File("ok", {Rule("w", "score", "sbom", 60), Rule("x", "sbom", "", 60), Rule("v", "gate", "", 60)}),
     File("ok", {Rule("w", "", "", 60), Rule("old", "gate", "", -2)}),
     File("ok", {Rule("", "", "", 60)}),
     File("ok", {[Rule("w", "", "", 60) EXCEPT !.expires = [text |-> "", at |-> 0]]}),
     File("ok", {[Rule("w", "", "", 60) EXCEPT !.contains = "warn"], Rule("v", "retention", "", 60)})}
Matrices == {<<>>, <<Result("a", "pass"), Result("a", "pass")>>,
             <<Result("a", "pass"), Result("a", "warn")>>, <<Result("b", "fail")>>,
             <<[Result("a", "pass") EXCEPT !.parses = FALSE]>>}
Inv0 == Inventory0(First)
Inventories ==
    {File("", NoMod), File("bad", NoMod), File("ok", Inv0), File("ok", [Inv0 EXCEPT !.go = "1.21"]),
     File("ok", [Inv0 EXCEPT !.path = "other"]), File("ok", [Inv0 EXCEPT !.modules = {}]),
     File("ok", [Inv0 EXCEPT !.modules = @ \cup {[path |-> "b", version |-> "v1", replace |-> {}]}])}
Releasing ==
    {[Base EXCEPT !.waivers = w, !.results = m, !.releasePolicy = p] :
        w \in WaiverSets, m \in Matrices, p \in {"default", "strict", "lenient", "archive"}}
    \cup {[Base EXCEPT !.waivers = w, !.sbomBase = s, !.releasePolicy = p] :
            w \in WaiverSets, s \in Inventories, p \in {"default", "strict", "lenient"}}
    \cup {[Base EXCEPT !.outputs = {"release-audit"}, !.goMod = g, !.never = n] :
            n \in BOOLEAN,
            g \in {<<>>, <<Line("replace (", "", ""), Line("item", "a", "b"), Line(")", "", ""),
                           Line("require", "", ""), Line("module", "rvwasm", "")>>}}

(* Files: every path that may fail, earlier outputs, dry runs.             *)
AllReads == {"bundle", "trace", "console", "baseline", "policy", "inspect-repro", "checksums",
             "sbom-baseline", "inspect-zip", "zip-baseline", "release-policy", "audit-baseline",
             "waivers", "inspect-evidence"}
Filing ==
    {[Base EXCEPT !.broken = b, !.stale = s, !.dry = d, !.outputs = o,
                  !.reads = AllReads \ {"inspect-zip"}] :
        b \in {{}} \cup {{x} : x \in AllOutputs \cup (AllReads \ {"inspect-zip"})},
        s \in {{}, {"junit", "release-zip"}, AllOutputs}, d \in BOOLEAN,
        o \in {AllOutputs, AllOutputs \ AuditOutputs}}
    \cup {[Base EXCEPT !.broken = b, !.reads = AllReads] : b \in {{"inspect-zip"}, {"waivers"}}}

MCInputs == Checking \cup Inspecting \cup Releasing \cup Filing
=============================================================================
