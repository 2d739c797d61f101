---------------------------- MODULE SecurityScan ----------------------------
(***************************************************************************)
(* The security scan of one provider's image (container-security.yml,      *)
(* published-container-security.yml): grype lists what it found, in a      *)
(* report and as SARIF; the gate compares the report with the reviewed     *)
(* baseline; the filter takes out of the SARIF what needs no action, and   *)
(* the rest is uploaded.  Filter and upload run whatever the gate said.    *)
(*                                                                         *)
(* The scan is run again and again.  Reviews expire, also in the middle of *)
(* a scan, and the baseline is replaced between two scans.                 *)
(***************************************************************************)
EXTENDS Integers, FiniteSets

CONSTANTS
  Reports,    \* what grype may report
  Baselines,  \* the baselines the repository may hold
  Debian,     \* packages of type deb
  MaxDay      \* bound: the last day

(***************************************************************************)
(* A report is [platform, base, matches]: base is the image's, matches is  *)
(* a set of findings.  A finding is [rule, severity, package, state,       *)
(* fixable, arch]: rule its id and package name, package the rest of its   *)
(* identity, state and fixable what is said of a fix, arch whether its     *)
(* architecture is the platform's or all.                                  *)
(*                                                                         *)
(* A baseline is [base, reviewed, expires, entries], an entry [rule,       *)
(* severity, package, state, platforms, reviewed, expires, documented];    *)
(* days are numbers, and documented says that rationale, owner and         *)
(* evidence are well-formed.                                               *)
(***************************************************************************)
BlockingSeverities == {"High", "Critical"}
NoFixStates == {"not-fixed", "wont-fix"}
Platforms == {"linux/amd64", "linux/arm64"}
Unclear == "unclear"  \* a rule whose text names no severity, or that is there twice

VARIABLES
  day,
  baseline,
  step,       \* the next step of the workflow
  report,
  sarif,      \* what the SARIF says: a severity for each rule, and whether it contradicts itself
  verdict,    \* of the gate, and its day
  actionable  \* the SARIF that is uploaded: from the filter or raw, its results, and its day

vars == <<day, baseline, step, report, sarif, verdict, actionable>>

NoVerdict == [kind |-> "none", day |-> 0]
NoResults == [kind |-> "none", results |-> {}, day |-> 0]
NoReport == [platform |-> "none", base |-> "none", matches |-> {}]
NoSarif == [severity |-> <<>>, indexed |-> FALSE]

RulesOf(matches) == {f.rule : f \in matches}

Init ==
  /\ day = 1
  /\ baseline \in Baselines
  /\ step = "idle"
  /\ report = NoReport
  /\ sarif = NoSarif
  /\ verdict = NoVerdict
  /\ actionable = NoResults

-----------------------------------------------------------------------------
(* container_vulnerability_policy.py                                       *)

\* review_dates
InForce(review) == review.reviewed <= day /\ day <= review.expires

\* An entry that reviewed_identities does not refuse.  It compares the two ends
\* as texts, which is the order of the days if both are in one ISO format.
Admissible(entry) ==
  /\ InForce(entry)
  /\ entry.expires <= baseline.expires
  /\ entry.documented
  /\ entry.severity \in BlockingSeverities
  /\ entry.state \in NoFixStates
  /\ entry.platforms # {} /\ entry.platforms \subseteq Platforms

\* evaluate raises otherwise: one bad entry invalidates the baseline, and so
\* does an image that was built on another base.
Valid ==
  /\ InForce(baseline)
  /\ \A e \in baseline.entries : Admissible(e)
  /\ report.platform \in Platforms
  /\ report.base = baseline.base

\* reviewed_identities, in which a finding is found by Finding.identity.
Reviewed(f) ==
  \E e \in baseline.entries :
    /\ <<e.rule, e.severity, e.package, e.state>> = <<f.rule, f.severity, f.package, f.state>>
    /\ report.platform \in e.platforms

Accepted(f) ==
  /\ Reviewed(f)
  /\ f.state \in NoFixStates
  /\ ~f.fixable
  /\ f.package \in Debian
  /\ f.arch

\* verify: the findings that fail the gate.
Unreviewed == {f \in report.matches : f.severity \in BlockingSeverities /\ ~Accepted(f)}

-----------------------------------------------------------------------------
(* filter-reviewed-container-sarif.py                                      *)

\* _omission_evidence: the rules that nothing unreviewed goes by, with the
\* severities that call for no action.
Nonblocking(rule) ==
  /\ rule \notin RulesOf(Unreviewed)
  /\ \E f \in report.matches : f.rule = rule /\ f.severity \notin BlockingSeverities

\* Fault: a rule counts as reviewed if one of its findings is.
ReviewedByRule(rule) == {f.severity : f \in {g \in report.matches : g.rule = rule /\ Accepted(g)}}

ReviewedSeverities(rule) ==
  IF rule \in RulesOf(Unreviewed) THEN {}
  ELSE {f.severity : f \in {g \in report.matches : g.rule = rule /\ Accepted(g)}}

\* filter_sarif, for the result of one finding.
Omitted(f) ==
  LET severity == IF sarif.indexed THEN sarif.severity[f.rule] ELSE Unclear IN
    \/ severity \notin BlockingSeverities \union {Unclear} /\ Nonblocking(f.rule)
    \/ severity \in ReviewedSeverities(f.rule)

-----------------------------------------------------------------------------
(* The workflow.                                                           *)

\* grype gives a rule the severity of one of the findings it stands for; its
\* text may not tell, and results may refer to another rule than they name.
Scan ==
  /\ step = "idle"
  /\ report' \in Reports
  /\ \E severity \in [RulesOf(report'.matches) -> BlockingSeverities \union {"Low", Unclear}],
        indexed \in BOOLEAN :
       /\ \A rule \in DOMAIN severity :
            severity[rule] \in {Unclear} \union {f.severity : f \in {g \in report'.matches : g.rule = rule}}
       /\ sarif' = [severity |-> severity, indexed |-> indexed]
  /\ step' = "gate"
  /\ UNCHANGED <<day, baseline, verdict, actionable>>

Gate ==
  /\ step = "gate"
  /\ verdict' = [kind |-> IF Valid /\ Unreviewed = {} THEN "passed" ELSE "failed", day |-> day]
  /\ step' = "filter"
  /\ UNCHANGED <<day, baseline, report, sarif, actionable>>

\* Fault: the file that the filter was to write is uploaded.
FilterFailsEmpty ==
  /\ step = "filter"
  /\ actionable' = [kind |-> "raw", results |-> {}, day |-> day]
  /\ step' = "over"
  /\ UNCHANGED <<day, baseline, report, sarif, verdict>>

\* The filter ends well, and what it left is uploaded.
Filter ==
  /\ step = "filter"
  /\ Valid
  /\ actionable' = [kind |-> "filtered", results |-> {f \in report.matches : ~Omitted(f)}, day |-> day]
  /\ step' = "over"
  /\ UNCHANGED <<day, baseline, report, sarif, verdict>>

\* The review is not valid, or the SARIF is malformed: the raw one is uploaded.
FilterFails ==
  /\ step = "filter"
  /\ actionable' = [kind |-> "raw", results |-> report.matches, day |-> day]
  /\ step' = "over"
  /\ UNCHANGED <<day, baseline, report, sarif, verdict>>

\* The runner is discarded; a next scan will run on another.
Discard ==
  /\ step = "over"
  /\ step' = "idle"
  /\ report' = NoReport /\ sarif' = NoSarif
  /\ verdict' = NoVerdict /\ actionable' = NoResults
  /\ UNCHANGED <<day, baseline>>

\* A review is committed between two scans.
Review ==
  /\ step = "idle"
  /\ baseline' \in Baselines
  /\ UNCHANGED <<day, step, report, sarif, verdict, actionable>>

Midnight ==
  /\ day < MaxDay
  /\ day' = day + 1
  /\ UNCHANGED <<baseline, step, report, sarif, verdict, actionable>>

Next == Scan \/ Gate \/ Filter \/ FilterFails \/ Discard \/ Review \/ Midnight

Spec == Init /\ [][Next]_vars

-----------------------------------------------------------------------------
(* What the reviews say of a finding, on a day, without going through the  *)
(* scripts: somebody reviewed this very finding on this platform, the      *)
(* review and all the others are in force, and there is no fix.            *)
ReviewedOn(f, d) ==
  /\ \A r \in {baseline} \union baseline.entries : d \in r.reviewed..r.expires
  /\ baseline.base = report.base
  /\ f.package \in Debian /\ f.arch /\ ~f.fixable
  /\ \E e \in baseline.entries :
       /\ e.documented /\ report.platform \in e.platforms
       /\ e.expires <= baseline.expires
       /\ e.rule = f.rule /\ e.package = f.package
       /\ e.severity = f.severity /\ e.severity \in BlockingSeverities
       /\ e.state = f.state /\ e.state \in NoFixStates

(* No scan hides a finding: the gate passes only if somebody reviewed each *)
(* High or Critical one, and the upload shows each one that nobody has     *)
(* reviewed, although results and findings only meet in the rule they go   *)
(* by, whether or not the filter ends well or the review expires between   *)
(* the two.  And gate and upload agree: on the day of a gate that passed,  *)
(* the filter leaves nothing to act on if the SARIF is consistent.         *)
NothingHidden ==
  LET blocking == {f \in report.matches : f.severity \in BlockingSeverities} IN
    /\ verdict.kind = "passed" => \A f \in blocking : ReviewedOn(f, verdict.day)
    /\ actionable.kind # "none" =>
         \A f \in blocking : ReviewedOn(f, actionable.day) \/ f \in actionable.results
    /\ actionable.kind = "filtered" /\ verdict.kind = "passed" /\ verdict.day = actionable.day
       /\ sarif.indexed /\ (\A rule \in DOMAIN sarif.severity : sarif.severity[rule] # Unclear)
         => actionable.results = {}
=============================================================================
