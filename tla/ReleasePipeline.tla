-------------------------- MODULE ReleasePipeline --------------------------
(***************************************************************************)
(* The release of one provider's images to two registries: the image       *)
(* workflow of each version (provider-release.yml), the Release workflow   *)
(* it triggers (release.yml), and the reconciliation of the alias latest   *)
(* (provider-latest.yml).                                                  *)
(*                                                                         *)
(* Workflows of different versions run side by side, and any of them may   *)
(* die between two steps.  A dead one may be rerun from the job that died, *)
(* and any one from its beginning, which builds another digest.            *)
(* Reconciliation runs one at a time; one more request may wait, and a     *)
(* further one replaces it.                                                *)
(***************************************************************************)
EXTENDS Integers, FiniteSets

CONSTANTS
  Versions,     \* version numbers of the provider, in their order
  Prereleases,  \* the sets of versions that may be the prereleases
  MaxBuilds,    \* bound: builds of each version
  MaxDeaths     \* bound: workflows that die

ASSUME PipelineAssumption ==
  /\ Versions \subseteq Nat \ {0} /\ IsFiniteSet(Versions)
  /\ Prereleases \subseteq SUBSET Versions
  /\ MaxBuilds \in [Versions -> Nat \ {0}]
  /\ MaxDeaths \in Nat

\* The digest of a build of a version.
Digests == UNION {[version : {v}, build : 1..MaxBuilds[v]] : v \in Versions}
None == [version |-> 0, build |-> 0]
Registries == {"ghcr", "hub"}

VARIABLES
  prerelease, \* the versions whose number is that of a prerelease: it never changes
  image,     \* the image workflow of each version: its step, build, and whether it runs
  signed,    \* the signatures: registry and digest
  tag,       \* what the version tags of each registry point to
  release,   \* the step of the Release workflow that each digest triggered
  released,  \* the versions with a GitHub Release
  pending,   \* a reconciliation waits
  reconcile, \* the running reconciliation, and whether the last one ended well
  latest,    \* what latest points to in each registry
  deaths

vars == <<prerelease, image, signed, tag, release, released, pending, reconcile, latest, deaths>>
registryVars == <<signed, tag>>
releaseVars == <<release, released>>
latestVars == <<prerelease, reconcile, latest>>

Resting(well) == [step |-> "idle", version |-> 0, digest |-> None, ok |-> well]

Init ==
  /\ prerelease \in Prereleases
  /\ image = [v \in Versions |-> [step |-> "none", build |-> 1, runs |-> FALSE]]
  /\ signed = {}
  /\ tag = [r \in Registries |-> [v \in Versions |-> None]]
  /\ release = [d \in Digests |-> "none"]
  /\ released = {}
  /\ pending = FALSE
  /\ reconcile = Resting(TRUE)
  /\ latest = [r \in Registries |-> None]
  /\ deaths = 0

Die ==
  /\ deaths < MaxDeaths
  /\ deaths' = deaths + 1

-----------------------------------------------------------------------------
(* provider-release.yml: one job after the other, each waiting for the     *)
(* success of those before it.                                             *)

DigestOf(v) == [version |-> v, build |-> image[v].build]

\* The workflow of v goes on from one step to the next.
Advance(v, from, to) ==
  /\ image[v].step = from /\ image[v].runs
  /\ image' = [image EXCEPT ![v].step = to, ![v].runs = to # "done"]
  /\ UNCHANGED <<released, pending, latestVars, deaths>>

\* A version tag is pushed.
Push(v) ==
  /\ image[v].step = "none"
  /\ image' = [image EXCEPT ![v].step = "building", ![v].runs = TRUE]
  /\ UNCHANGED <<registryVars, releaseVars, pending, latestVars, deaths>>

Build(v) == Advance(v, "building", "validating") /\ UNCHANGED <<registryVars, release>>

\* The candidate of each platform is scanned and started.
Validate(v) == Advance(v, "validating", "publishing") /\ UNCHANGED <<registryVars, release>>

ValidateRejects(v) ==
  /\ image[v].step = "validating" /\ image[v].runs
  /\ image' = [image EXCEPT ![v].runs = FALSE]
  /\ UNCHANGED <<registryVars, releaseVars, pending, latestVars, deaths>>

\* Fault: the promotion does not wait for the signatures.
PublishPromotes(v) ==
  Advance(v, "publishing", "promoting") /\ UNCHANGED <<registryVars, release>>

\* The index of both platforms, with the same digest in both registries, under a
\* candidate tag.
Publish(v) == Advance(v, "publishing", "signing") /\ UNCHANGED <<registryVars, release>>

SignGhcr(v) ==
  /\ Advance(v, "signing", "signing hub")
  /\ signed' = signed \union {<<"ghcr", DigestOf(v)>>}
  /\ UNCHANGED <<tag, release>>

\* The second signature, and the verification of both.
SignHub(v) ==
  /\ Advance(v, "signing hub", "promoting")
  /\ signed' = signed \union {<<"hub", DigestOf(v)>>}
  /\ UNCHANGED <<tag, release>>

\* GHCR moves a tag that exists.
PromoteGhcr(v) ==
  /\ Advance(v, "promoting", "promoting hub")
  /\ tag' = [tag EXCEPT !["ghcr"][v] = DigestOf(v)]
  /\ UNCHANGED <<signed, release>>

\* Fault: a tag that Docker Hub does not move is passed over.
PromoteHubAnyway(v) ==
  /\ Advance(v, "promoting hub", "uploading")
  /\ tag' = [tag EXCEPT !["hub"][v] = IF @ = None THEN DigestOf(v) ELSE @]
  /\ UNCHANGED <<signed, release>>

\* Docker Hub does not move a version tag: the promotion ends well when the tag is
\* new, or has the digest already.
PromoteHub(v) ==
  /\ tag["hub"][v] \in {None, DigestOf(v)}
  /\ Advance(v, "promoting hub", "uploading")
  /\ tag' = [tag EXCEPT !["hub"][v] = DigestOf(v)]
  /\ UNCHANGED <<signed, release>>

HubRefuses(v) ==
  /\ tag["hub"][v] \notin {None, DigestOf(v)}
  /\ image[v].step = "promoting hub" /\ image[v].runs
  /\ image' = [image EXCEPT ![v].runs = FALSE]
  /\ UNCHANGED <<registryVars, releaseVars, pending, latestVars, deaths>>

\* The metadata of the release; with it the workflow ends in success, which triggers
\* the Release workflow.
Upload(v) ==
  /\ Advance(v, "uploading", "done")
  /\ release' = [release EXCEPT ![DigestOf(v)] = "verifying"]
  /\ UNCHANGED registryVars

ImageDies(v) ==
  /\ image[v].runs
  /\ image' = [image EXCEPT ![v].runs = FALSE]
  /\ Die
  /\ UNCHANGED <<registryVars, releaseVars, pending, latestVars>>

\* The step its job starts with.
JobStart(step) ==
  CASE step \in {"signing", "signing hub"} -> "signing"
    [] step \in {"promoting", "promoting hub", "uploading"} -> "promoting"
    [] OTHER -> step

RerunFailed(v) ==
  /\ image[v].step \notin {"none", "done"} /\ ~image[v].runs
  /\ image' = [image EXCEPT ![v].step = JobStart(@), ![v].runs = TRUE]
  /\ UNCHANGED <<registryVars, releaseVars, pending, latestVars, deaths>>

\* All jobs again, the build included.
RerunAll(v) ==
  /\ image[v].step # "none" /\ ~image[v].runs
  /\ image[v].build < MaxBuilds[v]
  /\ image' = [image EXCEPT ![v] = [step |-> "building", build |-> @.build + 1, runs |-> TRUE]]
  /\ UNCHANGED <<registryVars, releaseVars, pending, latestVars, deaths>>

-----------------------------------------------------------------------------
(* release.yml: one run for each image workflow that ended in success.     *)

Verify(d) ==
  /\ release[d] = "verifying"
  /\ \A r \in Registries : <<r, d>> \in signed
  /\ release' = [release EXCEPT ![d] = "creating"]
  /\ UNCHANGED <<image, registryVars, released, pending, latestVars, deaths>>

\* A GitHub Release that exists is kept.
Create(d) ==
  /\ release[d] = "creating"
  /\ release' = [release EXCEPT ![d] = "dispatching"]
  /\ released' = released \union {d.version}
  /\ UNCHANGED <<image, registryVars, pending, latestVars, deaths>>

\* Fault: a request that meets a running reconciliation is left out.
DispatchUnlessRunning(d) ==
  /\ release[d] = "dispatching"
  /\ release' = [release EXCEPT ![d] = "done"]
  /\ pending' = (pending \/ reconcile.step = "idle")
  /\ UNCHANGED <<image, registryVars, released, latestVars, deaths>>

Dispatch(d) ==
  /\ release[d] = "dispatching"
  /\ release' = [release EXCEPT ![d] = "done"]
  /\ pending' = TRUE
  /\ UNCHANGED <<image, registryVars, released, latestVars, deaths>>

ReleaseDies(d) ==
  /\ release[d] \in {"verifying", "creating", "dispatching"}
  /\ release' = [release EXCEPT ![d] = "failed"]
  /\ Die
  /\ UNCHANGED <<image, registryVars, released, pending, latestVars>>

ReleaseRerun(d) ==
  /\ release[d] = "failed"
  /\ release' = [release EXCEPT ![d] = "verifying"]
  /\ UNCHANGED <<image, registryVars, released, pending, latestVars, deaths>>

-----------------------------------------------------------------------------
(* provider-latest.yml: one run at a time.                                 *)

reconcileOnly == <<prerelease, image, registryVars, releaseVars, deaths>>

\* By hand.
Request ==
  /\ ~pending
  /\ pending' = TRUE
  /\ UNCHANGED <<reconcileOnly, latestVars>>

Stable == released \ prerelease

\* Fault: the releases are not compared.
AnyStable == Stable

\* The highest stable release, if there is one.
Highest == {v \in Stable : \A w \in Stable : w <= v}

\* The run that waited selects the release; without one it has nothing to do.
Start ==
  /\ pending /\ reconcile.step = "idle"
  /\ pending' = FALSE
  /\ IF Highest = {}
       THEN reconcile' = Resting(TRUE)
       ELSE \E v \in Highest :
              reconcile' = [step |-> "reading", version |-> v, digest |-> None, ok |-> TRUE]
  /\ UNCHANGED <<latest, reconcileOnly>>

ReadGhcr ==
  /\ reconcile.step = "reading"
  /\ reconcile' = [reconcile EXCEPT !.step = "comparing", !.digest = tag["ghcr"][reconcile.version]]
  /\ UNCHANGED <<pending, latest, reconcileOnly>>

\* Both registries must have one digest under the version, and both signatures.
Compare ==
  LET d == reconcile.digest
      well == /\ d # None
              /\ tag["hub"][reconcile.version] = d
              /\ \A r \in Registries : <<r, d>> \in signed
  IN /\ reconcile.step = "comparing"
     /\ reconcile' = IF well THEN [reconcile EXCEPT !.step = "moving"] ELSE Resting(FALSE)
     /\ UNCHANGED <<pending, latest, reconcileOnly>>

MoveGhcr ==
  /\ reconcile.step = "moving"
  /\ reconcile' = [reconcile EXCEPT !.step = "moving hub"]
  /\ latest' = [latest EXCEPT !["ghcr"] = reconcile.digest]
  /\ UNCHANGED <<pending, reconcileOnly>>

MoveHub ==
  /\ reconcile.step = "moving hub"
  /\ reconcile' = Resting(TRUE)
  /\ latest' = [latest EXCEPT !["hub"] = reconcile.digest]
  /\ UNCHANGED <<pending, reconcileOnly>>

ReconcileDies ==
  /\ reconcile.step # "idle"
  /\ reconcile' = Resting(FALSE)
  /\ Die
  /\ UNCHANGED <<prerelease, image, registryVars, releaseVars, pending, latest>>

-----------------------------------------------------------------------------
ImageGoes(v) ==
  \/ Push(v) \/ Build(v) \/ Validate(v) \/ ValidateRejects(v) \/ Publish(v)
  \/ SignGhcr(v) \/ SignHub(v) \/ PromoteGhcr(v) \/ PromoteHub(v) \/ HubRefuses(v)
  \/ Upload(v) \/ ImageDies(v) \/ RerunFailed(v) \/ RerunAll(v)

ReleaseGoes(d) == Verify(d) \/ Create(d) \/ Dispatch(d) \/ ReleaseDies(d) \/ ReleaseRerun(d)

ReconcileGoes == Start \/ ReadGhcr \/ Compare \/ MoveGhcr \/ MoveHub

Next ==
  \/ \E v \in Versions : ImageGoes(v)
  \/ \E d \in Digests : ReleaseGoes(d)
  \/ Request \/ ReconcileGoes \/ ReconcileDies

Spec == Init /\ [][Next]_vars

-----------------------------------------------------------------------------

\* Whatever dies and is rerun, every tag a user may pull, of a version or latest, points
\* to a digest that is signed in both registries (RELEASING.md, Failure And Rollback);
\* latest only ever to a version that has a GitHub Release and is no prerelease; and an
\* image workflow that reports its release left the digest it built, and signed, under the
\* version tag of both registries, although an earlier run may have left another.
PublishedIsSigned ==
  /\ \A d \in {tag[r][v] : r \in Registries, v \in Versions} \union {latest[r] : r \in Registries} :
       d # None => \A r \in Registries : <<r, d>> \in signed
  /\ \A r \in Registries : latest[r] # None => latest[r].version \in released \ prerelease
  /\ \A v \in Versions : image[v].step \in {"uploading", "done"} =>
       \A r \in Registries : tag[r][v] = DigestOf(v)

\* A release that ends late, or is run again, never takes latest back to a lower version.
LatestNeverBack ==
  [][\A r \in Registries : latest'[r].version >= latest[r].version]_latest

\* When no reconciliation runs or waits and the last one ended well, latest is the same
\* digest in both registries, and of no lower version than any stable release whose
\* workflow asked for it: a request that was replaced is not lost.
LatestSettles ==
  reconcile.step = "idle" /\ reconcile.ok /\ ~pending =>
    /\ latest["ghcr"] = latest["hub"]
    /\ \A d \in Digests : release[d] = "done" /\ d.version \notin prerelease =>
         latest["hub"].version >= d.version

=============================================================================
