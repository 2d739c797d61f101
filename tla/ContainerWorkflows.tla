------------------------- MODULE ContainerWorkflows -------------------------
(***************************************************************************)
(* The workflows that handle the images of a provider: those that release  *)
(* them and the one that scans them.  They share no state but what is      *)
(* published, so that one of each kind stands for all.                     *)
(***************************************************************************)
EXTENDS ReleasePipeline

CONSTANTS
  Reports,    \* what grype may report
  Baselines,  \* the reviewed baselines
  Debian,     \* packages of type deb
  MaxDay      \* bound: the last day

ASSUME ScanAssumption ==
  /\ MaxDay \in Nat
  /\ \A b \in Baselines : \A review \in {b} \union b.entries : {review.reviewed, review.expires} \subseteq Nat

VARIABLES
  workflow,  \* which kind is looked at
  day, baseline, step, report, sarif, verdict, actionable

Security == INSTANCE SecurityScan

scanVars == <<day, baseline, step, report, sarif, verdict, actionable>>

\* The other kind stays where it starts.
WorkflowsInit ==
  /\ Init
  /\ Security!Init
  /\ \/ workflow = "release" /\ baseline = CHOOSE b \in Baselines : TRUE
     \/ workflow = "security" /\ prerelease = CHOOSE p \in Prereleases : TRUE

ReleaseStep == workflow = "release" /\ Next /\ UNCHANGED <<workflow, scanVars>>
SecurityStep == workflow = "security" /\ Security!Next /\ UNCHANGED <<workflow, vars>>

WorkflowsNext == ReleaseStep \/ SecurityStep

WorkflowsSpec == WorkflowsInit /\ [][WorkflowsNext]_<<workflow, vars, scanVars>>

-----------------------------------------------------------------------------

(* Of a scan: neither the gate nor the filter hides a finding that nobody  *)
(* has reviewed, see SecurityScan.                                         *)
NothingHidden == Security!NothingHidden
=============================================================================
