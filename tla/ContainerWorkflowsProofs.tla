---------------------- MODULE ContainerWorkflowsProofs ----------------------
(***************************************************************************)
(* Proofs about ContainerWorkflows: about releasing, for any finite set of *)
(* versions, any prereleases among them, and any number of builds and      *)
(* deaths; and about scanning, for any reports and baselines.              *)
(*                                                                         *)
(* The invariant Inv of ReleasePipeline says of each workflow what it has  *)
(* achieved at its step, however often it died and was rerun: signatures   *)
(* before tags, a tag in GHCR before one in Docker Hub, a GitHub Release   *)
(* before the request to reconcile, and of a running reconciliation that   *)
(* no lower version than the alias was selected.                           *)
(*                                                                         *)
(* Beside NothingHidden, ScanInv says that the SARIF has a severity for    *)
(* exactly the rules of the report, each of them that of some finding if   *)
(* it can be read, and that verdict and upload are empty before their      *)
(* steps: only the latter lets a new baseline or a new report leave        *)
(* NothingHidden alone.                                                    *)
(***************************************************************************)
EXTENDS ContainerWorkflows, TLAPS, FiniteSetTheorems, WellFoundedInduction

ImageSteps == {"none", "building", "validating", "publishing", "signing", "signing hub",
               "promoting", "promoting hub", "uploading", "done"}

ImageStates == [step : ImageSteps, build : Nat, runs : BOOLEAN]

Pointers == [version : Nat, build : Nat]

BothSigned(d) == \A r \in Registries : <<r, d>> \in signed

ImageTypes ==
  /\ image \in [Versions -> ImageStates]
  /\ \A v \in Versions : image[v].build \in 1..MaxBuilds[v]

RegistryTypes ==
  /\ tag \in [Registries -> [Versions -> Pointers]]
  /\ latest \in [Registries -> Pointers]

ReleaseTypes ==
  /\ prerelease \subseteq Versions /\ released \subseteq Versions
  /\ release \in [Digests -> {"none", "verifying", "creating", "dispatching", "done", "failed"}]

ReconcileTypes ==
  /\ pending \in BOOLEAN
  /\ reconcile \in [step : {"idle", "reading", "comparing", "moving", "moving hub"},
                    version : Nat, digest : Pointers, ok : BOOLEAN]

TypeOK == ImageTypes /\ RegistryTypes /\ ReleaseTypes /\ ReconcileTypes

\* What a workflow of v has achieved at its step.
Achieved(v) ==
  LET at == image[v].step IN
    /\ at = "signing hub" => <<"ghcr", DigestOf(v)>> \in signed
    /\ at \in {"promoting", "promoting hub", "uploading", "done"} => BothSigned(DigestOf(v))
    /\ at \in {"promoting hub", "uploading", "done"} => tag["ghcr"][v] = DigestOf(v)
    /\ at \in {"uploading", "done"} => tag["hub"][v] = DigestOf(v)

ImagesInOrder == \A v \in Versions : Achieved(v)

TagsSigned ==
  \A r \in Registries, v \in Versions :
    tag[r][v] # None => tag[r][v].version = v /\ BothSigned(tag[r][v])

LatestKept ==
  \A r \in Registries :
    latest[r] # None => latest[r].version \in Stable /\ BothSigned(latest[r])

ReconcileInOrder ==
  /\ reconcile.step # "idle" =>
       /\ reconcile.version \in Stable
       /\ \A r \in Registries : latest[r].version <= reconcile.version
  /\ reconcile.step \in {"comparing", "moving", "moving hub"} /\ reconcile.digest # None =>
       reconcile.digest.version = reconcile.version
  /\ reconcile.step \in {"moving", "moving hub"} =>
       reconcile.digest # None /\ BothSigned(reconcile.digest)
  /\ reconcile.step = "moving hub" => latest["ghcr"] = reconcile.digest
  /\ reconcile.step = "idle" /\ reconcile.ok => latest["ghcr"] = latest["hub"]

\* Somebody has seen, or is about to see, the version v.
Noticed(v) ==
  IF reconcile.step = "idle" THEN reconcile.ok => latest["hub"].version >= v
  ELSE reconcile.version >= v

ReleasesInOrder ==
  \A d \in Digests :
    /\ release[d] \in {"dispatching", "done"} => d.version \in released
    /\ release[d] = "done" /\ ~pending /\ d.version \notin prerelease => Noticed(d.version)

Inv ==
  /\ TypeOK
  /\ ImagesInOrder
  /\ TagsSigned
  /\ LatestKept
  /\ ReconcileInOrder
  /\ ReleasesInOrder

-----------------------------------------------------------------------------
(* Constants.                                                              *)

\* Versions and their builds are counted from one.
LEMMA VersionsPositive ==
  \A v \in Versions : v \in Nat /\ v > 0 /\ MaxBuilds[v] \in Nat /\ MaxBuilds[v] > 0
  BY PipelineAssumption DEF PipelineAssumption

\* An image that latest does not name yet counts as version 0.
LEMMA NoneIsPointer == None \in Pointers /\ None.version = 0
  BY DEF None, Pointers

\* A digest is a version and one of its builds.
LEMMA DigestsKnown ==
  /\ \A v \in Versions : \A b \in 1..MaxBuilds[v] : [version |-> v, build |-> b] \in Digests
  /\ \A d \in Digests : d.version \in Versions
<1>1. ASSUME NEW v \in Versions, NEW b \in 1..MaxBuilds[v]
      PROVE  [version |-> v, build |-> b] \in Digests
  <2>1. [version |-> v, build |-> b] \in [version : {v}, build : 1..MaxBuilds[v]]
    BY <1>1
  <2> QED
    BY <2>1 DEF Digests
<1>2. ASSUME NEW d \in Digests
      PROVE  d.version \in Versions
  <2>1. PICK v \in Versions : d \in [version : {v}, build : 1..MaxBuilds[v]]
    BY DEF Digests
  <2> QED
    BY <2>1
<1> QED
  BY <1>1, <1>2

\* The image of a version that was built.
LEMMA DigestOfIsDigest ==
  ASSUME ImageTypes, NEW v \in Versions
  PROVE  /\ DigestOf(v) \in Digests
         /\ DigestOf(v) \in Pointers
         /\ DigestOf(v).version = v
         /\ DigestOf(v) # None
  BY DigestsKnown, VersionsPositive DEF ImageTypes, ImageStates, DigestOf, Pointers, None

(* A finite set of versions has a highest one unless it is empty: the one  *)
(* that the fewest others exceed.                                          *)
LEMMA StableHasHighest ==
  ASSUME released \subseteq Versions, Highest = {}
  PROVE  Stable = {}
<1> SUFFICES ASSUME Stable # {} PROVE FALSE
  OBVIOUS
<1> DEFINE Above(v) == {w \in Stable : w > v}
           Counts == {Cardinality(Above(v)) : v \in Stable}
<1>1. IsFiniteSet(Stable) /\ Stable \subseteq Nat
  <2>1. Stable \subseteq Versions
    BY DEF Stable
  <2> QED
    BY <2>1, PipelineAssumption, FS_Subset DEF PipelineAssumption
<1>2. \A v \in Stable : IsFiniteSet(Above(v)) /\ Cardinality(Above(v)) \in Nat
  <2>1. \A v \in Stable : Above(v) \subseteq Stable
    OBVIOUS
  <2>2. \A v \in Stable : IsFiniteSet(Above(v))
    BY <1>1, <2>1, FS_Subset
  <2> QED
    BY <2>2, FS_CardinalityType
<1>3. PICK n \in Counts : \A m \in Counts : ~(m < n)
  <2>1. Counts \subseteq Nat /\ Counts # {}
    BY <1>2
  <2>2. IsWellFoundedOn(OpToRel(<, Nat), Nat)
    BY NatLessThanWellFounded
  <2>3. PICK n \in Counts : \A m \in Counts : ~(<<m, n>> \in OpToRel(<, Nat))
    BY <2>1, <2>2, WFMin
  <2> QED
    BY <2>1, <2>3 DEF OpToRel
<1>4. PICK v \in Stable : n = Cardinality(Above(v))
  BY <1>3
<1>5. PICK w \in Stable : w > v
  <2>1. v \notin Highest
    OBVIOUS
  <2>2. PICK w \in Stable : ~(w <= v)
    BY <1>4, <2>1 DEF Highest
  <2> QED
    BY <1>1, <1>4, <2>2
<1>6. Above(w) \subseteq Above(v) /\ Above(w) # Above(v)
  <2>1. w \in Above(v) /\ w \notin Above(w)
    BY <1>1, <1>5
  <2>2. \A x \in Above(w) : x \in Above(v)
    BY <1>1, <1>4, <1>5
  <2> QED
    BY <2>1, <2>2
<1>7. Cardinality(Above(w)) < Cardinality(Above(v))
  <2>1. /\ Cardinality(Above(w)) <= Cardinality(Above(v))
        /\ Cardinality(Above(w)) # Cardinality(Above(v))
    BY <1>2, <1>4, <1>5, <1>6, FS_Subset
  <2> QED
    BY <1>2, <1>4, <1>5, <2>1
<1> QED
  BY <1>3, <1>4, <1>5, <1>7

-----------------------------------------------------------------------------
(* What a step leaves alone.                                               *)

Grown == signed \subseteq signed' /\ released \subseteq released' /\ prerelease' = prerelease

\* A signature is never withdrawn.
LEMMA SignaturesLast ==
  ASSUME Grown, NEW d, BothSigned(d)
  PROVE  BothSigned(d)'
  BY DEF Grown, BothSigned

\* A stable version stays one.
LEMMA StableGrows ==
  ASSUME Grown
  PROVE  Stable \subseteq Stable'
  BY DEF Grown, Stable

\* What is tagged stays signed while the tags stay.
LEMMA TagsStay ==
  ASSUME TagsSigned, Grown, tag' = tag
  PROVE  TagsSigned'
  BY SignaturesLast DEF TagsSigned

\* latest keeps what it promises while it stays.
LEMMA LatestStays ==
  ASSUME LatestKept, Grown, latest' = latest
  PROVE  LatestKept'
  BY SignaturesLast, StableGrows DEF LatestKept

\* So does a reconciliation that does not move.
LEMMA ReconcileStays ==
  ASSUME ReconcileInOrder, Grown, latest' = latest, reconcile' = reconcile
  PROVE  ReconcileInOrder'
  BY SignaturesLast, StableGrows DEF ReconcileInOrder

\* So do the releases that do not move.
LEMMA ReleasesStay ==
  ASSUME ReleasesInOrder, Grown, latest' = latest, reconcile' = reconcile,
         release' = release, pending' = pending
  PROVE  ReleasesInOrder'
  BY DEF ReleasesInOrder, Grown, Noticed

\* So do the image runs that do not move.
LEMMA ImagesStay ==
  ASSUME ImagesInOrder, Grown, image' = image, tag' = tag
  PROVE  ImagesInOrder'
  BY SignaturesLast DEF ImagesInOrder, Achieved, Grown, DigestOf

-----------------------------------------------------------------------------
(* Steps of an image workflow.                                             *)

\* The workflow of v goes to a step, with its build unless it starts all over,
\* and no other one moves.
Goes(v, to) ==
  /\ image' \in [Versions -> ImageStates]
  /\ image'[v].step = to /\ image'[v].build \in 1..MaxBuilds[v]
  /\ to # "building" => image'[v].build = image[v].build
  /\ \A w \in Versions : w # v => image'[w] = image[w]

\* An image run that is given a step.
LEMMA GoesByStep ==
  ASSUME ImageTypes, NEW v \in Versions, NEW to \in ImageSteps, NEW on \in BOOLEAN,
         image' = [image EXCEPT ![v].step = to, ![v].runs = on]
  PROVE  Goes(v, to)
<1> DEFINE next == [[image[v] EXCEPT !.step = to] EXCEPT !.runs = on]
<1>1. image[v] \in [step : ImageSteps, build : Nat, runs : BOOLEAN]
  BY DEF ImageTypes, ImageStates
<1>2. next \in ImageStates /\ next.step = to /\ next.build = image[v].build
  BY <1>1 DEF ImageStates
<1>3. image' = [image EXCEPT ![v] = next]
  BY DEF ImageTypes
<1> HIDE DEF next
<1> QED
  BY <1>2, <1>3 DEF ImageTypes, Goes

\* An image run that stops where it is.
LEMMA GoesByStop ==
  ASSUME ImageTypes, NEW v \in Versions, image' = [image EXCEPT ![v].runs = FALSE]
  PROVE  Goes(v, image[v].step)
<1> DEFINE next == [image[v] EXCEPT !.runs = FALSE]
<1>1. image[v] \in [step : ImageSteps, build : Nat, runs : BOOLEAN]
  BY DEF ImageTypes, ImageStates
<1>2. next \in ImageStates /\ next.step = image[v].step /\ next.build = image[v].build
  BY <1>1 DEF ImageStates
<1>3. image' = [image EXCEPT ![v] = next]
  OBVIOUS
<1> HIDE DEF next
<1> QED
  BY <1>2, <1>3 DEF ImageTypes, Goes

\* An image run that passes from one step to the next.
LEMMA GoesOn ==
  ASSUME ImageTypes, NEW v \in Versions, NEW from, NEW to \in ImageSteps, Advance(v, from, to)
  PROVE  Goes(v, to) /\ image[v].step = from
  BY GoesByStep DEF Advance

(* All that has to be seen of a step of v: what v has achieved by it, and  *)
(* that the tags it has moved point to what is signed.                     *)
LEMMA ImageStepKeeps ==
  ASSUME Inv, NEW v \in Versions, NEW to, Goes(v, to), Grown,
         UNCHANGED <<released, pending, latestVars>>,
         \/ release' = release
         \/ \E d \in Digests : release' = [release EXCEPT ![d] = "verifying"],
         \A r \in Registries : \A w \in Versions : w # v => tag'[r][w] = tag[r][w],
         RegistryTypes', TagsSigned',
         Achieved(v) /\ DigestOf(v)' = DigestOf(v) => Achieved(v)'
  PROVE  Inv'
<1>1. ImageTypes'
  BY DEF Inv, TypeOK, ImageTypes, Goes
<1>2. ASSUME NEW w \in Versions
      PROVE  Achieved(w)'
  <2>1. Achieved(w)
    BY DEF Inv, ImagesInOrder
  <2>2. CASE w = v
    <3>1. CASE to = "building"
      BY <2>2, <3>1 DEF Achieved, Goes
    <3>2. CASE to # "building"
      <4>1. DigestOf(v)' = DigestOf(v)
        BY <3>2 DEF DigestOf, Goes
      <4> QED
        BY <2>1, <2>2, <4>1
    <3> QED
      BY <3>1, <3>2
  <2>3. CASE w # v
    <3>1. image'[w] = image[w] /\ DigestOf(w)' = DigestOf(w)
      BY <2>3 DEF Goes, DigestOf
    <3>2. tag'["ghcr"][w] = tag["ghcr"][w] /\ tag'["hub"][w] = tag["hub"][w]
      BY <2>3 DEF Registries
    <3> QED
      BY <2>1, <3>1, <3>2 DEF Achieved, Grown, BothSigned
  <2> QED
    BY <2>2, <2>3
<1>3. ImagesInOrder'
  BY <1>2 DEF ImagesInOrder
<1>4. latest' = latest /\ reconcile' = reconcile
  BY DEF latestVars
<1>5. ReleaseTypes' /\ \A d \in Digests : release'[d] \in {release[d], "verifying"}
  BY DEF Inv, TypeOK, ReleaseTypes, Grown
<1>6. TypeOK'
  BY <1>1, <1>4, <1>5 DEF Inv, TypeOK, ReconcileTypes
<1>7. ReleasesInOrder'
  BY <1>4, <1>5 DEF Inv, ReleasesInOrder, Noticed, Grown
<1> QED
  BY <1>3, <1>4, <1>6, <1>7, LatestStays, ReconcileStays DEF Inv

(* Steps that write neither tags nor signatures nor releases.              *)
LEMMA QuietStepKeeps ==
  ASSUME Inv, NEW v \in Versions, NEW to, Goes(v, to),
         UNCHANGED <<registryVars, releaseVars, pending, latestVars>>,
         Achieved(v) /\ DigestOf(v)' = DigestOf(v) => Achieved(v)'
  PROVE  Inv'
<1>1. Grown /\ tag' = tag /\ latest' = latest /\ release' = release /\ released' = released
  BY DEF Grown, registryVars, releaseVars, latestVars
<1>2. RegistryTypes'
  BY <1>1 DEF Inv, TypeOK, RegistryTypes
<1>3. TagsSigned'
  BY <1>1, TagsStay DEF Inv
<1> QED
  BY <1>1, <1>2, <1>3, ImageStepKeeps

\* release.yml: an image run that fails or dies.
LEMMA StopsKeep ==
  ASSUME Inv, NEW v \in Versions, ValidateRejects(v) \/ HubRefuses(v) \/ ImageDies(v)
  PROVE  Inv'
<1>1. Goes(v, image[v].step)
  BY GoesByStop DEF ValidateRejects, HubRefuses, ImageDies, Inv, TypeOK
<1>2. UNCHANGED <<registryVars, releaseVars, pending, latestVars>>
  BY DEF ValidateRejects, HubRefuses, ImageDies
<1>3. Achieved(v) /\ DigestOf(v)' = DigestOf(v) => Achieved(v)'
  BY <1>1, <1>2 DEF Achieved, BothSigned, registryVars, Goes
<1> QED
  BY <1>1, <1>2, <1>3, QuietStepKeeps

\* release.yml: the steps that move nothing but the run itself.
LEMMA EarlyStepsKeep ==
  ASSUME Inv, NEW v \in Versions, Push(v) \/ Build(v) \/ Validate(v) \/ Publish(v)
  PROVE  Inv'
<1>1. UNCHANGED <<registryVars, releaseVars, pending, latestVars>>
  BY DEF Push, Build, Validate, Publish, Advance, releaseVars
<1>2. PICK to \in {"building", "validating", "publishing", "signing"} : Goes(v, to)
  <2>1. ImageTypes
    BY DEF Inv, TypeOK
  <2>2. CASE Push(v)
    BY <2>1, <2>2, GoesByStep DEF Push, ImageSteps
  <2>3. CASE Build(v)
    BY <2>1, <2>3, GoesOn DEF Build, ImageSteps
  <2>4. CASE Validate(v)
    BY <2>1, <2>4, GoesOn DEF Validate, ImageSteps
  <2>5. CASE Publish(v)
    BY <2>1, <2>5, GoesOn DEF Publish, ImageSteps
  <2> QED
    BY <2>2, <2>3, <2>4, <2>5
<1>3. Achieved(v)'
  BY <1>2 DEF Achieved, Goes
<1> QED
  BY <1>1, <1>2, <1>3, QuietStepKeeps

\* release.yml: the signature on the GHCR image.
LEMMA SignGhcrKeeps ==
  ASSUME Inv, NEW v \in Versions, SignGhcr(v)
  PROVE  Inv'
<1>1. Goes(v, "signing hub")
  BY GoesOn DEF SignGhcr, Inv, TypeOK, ImageSteps
<1>2. UNCHANGED <<released, release, pending, latestVars, tag>>
  BY DEF SignGhcr, Advance
<1>3. Grown
  BY <1>2 DEF Grown, SignGhcr, latestVars
<1>4. RegistryTypes' /\ TagsSigned'
  BY <1>2, <1>3, TagsStay DEF Inv, TypeOK, RegistryTypes, latestVars
<1>5. DigestOf(v)' = DigestOf(v) => Achieved(v)'
  BY <1>1 DEF Achieved, Goes, SignGhcr
<1> QED
  BY <1>1, <1>2, <1>3, <1>4, <1>5, ImageStepKeeps

\* release.yml: the signature on the Docker Hub image.
LEMMA SignHubKeeps ==
  ASSUME Inv, NEW v \in Versions, SignHub(v)
  PROVE  Inv'
<1>1. Goes(v, "promoting") /\ image[v].step = "signing hub"
  BY GoesOn DEF SignHub, Inv, TypeOK, ImageSteps
<1>2. UNCHANGED <<released, release, pending, latestVars, tag>>
  BY DEF SignHub, Advance
<1>3. Grown
  BY <1>2 DEF Grown, SignHub, latestVars
<1>4. RegistryTypes' /\ TagsSigned'
  BY <1>2, <1>3, TagsStay DEF Inv, TypeOK, RegistryTypes, latestVars
<1>5. Achieved(v) /\ DigestOf(v)' = DigestOf(v) => Achieved(v)'
  BY <1>1 DEF Achieved, Goes, SignHub, BothSigned, Registries
<1> QED
  BY <1>1, <1>2, <1>3, <1>4, <1>5, ImageStepKeeps

(* A promotion moves the tag of v in one registry to what v has signed.    *)
LEMMA PromotionKeepsTags ==
  ASSUME Inv, NEW v \in Versions, NEW r \in Registries, BothSigned(DigestOf(v)),
         tag' = [tag EXCEPT ![r][v] = DigestOf(v)], signed' = signed
  PROVE  /\ tag' \in [Registries -> [Versions -> Pointers]]
         /\ TagsSigned'
         /\ tag'[r][v] = DigestOf(v)
         /\ \A s \in Registries : \A w \in Versions :
              s # r \/ w # v => tag'[s][w] = tag[s][w]
<1>1. DigestOf(v) \in Pointers /\ DigestOf(v).version = v
  BY DigestOfIsDigest DEF Inv, TypeOK
<1>2. tag \in [Registries -> [Versions -> Pointers]]
  BY DEF Inv, TypeOK, RegistryTypes
<1>3. /\ tag' \in [Registries -> [Versions -> Pointers]]
      /\ tag'[r][v] = DigestOf(v)
      /\ \A s \in Registries : \A w \in Versions :
              s # r \/ w # v => tag'[s][w] = tag[s][w]
  BY <1>1, <1>2
<1>4. ASSUME NEW s \in Registries, NEW w \in Versions, tag'[s][w] # None
      PROVE  tag'[s][w].version = w /\ \A q \in Registries : <<q, tag'[s][w]>> \in signed
  <2>1. CASE s = r /\ w = v
    BY <1>1, <1>3, <2>1 DEF BothSigned
  <2>2. CASE ~(s = r /\ w = v)
    BY <1>3, <1>4, <2>2 DEF Inv, TagsSigned, BothSigned
  <2> QED
    BY <2>1, <2>2
<1>5. TagsSigned'
  BY <1>4 DEF TagsSigned, BothSigned, None
<1> QED
  BY <1>3, <1>5

\* release.yml: the version tag in GHCR.
LEMMA PromoteGhcrKeeps ==
  ASSUME Inv, NEW v \in Versions, PromoteGhcr(v)
  PROVE  Inv'
<1>1. Goes(v, "promoting hub") /\ image[v].step = "promoting"
  BY GoesOn DEF PromoteGhcr, Inv, TypeOK, ImageSteps
<1>2. UNCHANGED <<released, release, pending, latestVars, signed>>
  BY DEF PromoteGhcr, Advance
<1>3. Grown
  BY <1>2 DEF Grown, latestVars
<1>4. BothSigned(DigestOf(v))
  BY <1>1 DEF Inv, ImagesInOrder, Achieved
<1>5. /\ tag' \in [Registries -> [Versions -> Pointers]]
      /\ TagsSigned'
      /\ tag'["ghcr"][v] = DigestOf(v)
      /\ \A s \in Registries : \A w \in Versions :
           s # "ghcr" \/ w # v => tag'[s][w] = tag[s][w]
  BY <1>2, <1>4, PromotionKeepsTags DEF PromoteGhcr, Registries
<1>6. RegistryTypes'
  BY <1>2, <1>5 DEF RegistryTypes, Inv, TypeOK, latestVars
<1>7. DigestOf(v)' = DigestOf(v) => Achieved(v)'
  BY <1>1, <1>2, <1>4, <1>5 DEF Achieved, Goes, BothSigned
<1> QED
  BY <1>1, <1>2, <1>3, <1>5, <1>6, <1>7, ImageStepKeeps

\* release.yml: the version tag in Docker Hub.
LEMMA PromoteHubKeeps ==
  ASSUME Inv, NEW v \in Versions, PromoteHub(v)
  PROVE  Inv'
<1>1. Goes(v, "uploading") /\ image[v].step = "promoting hub"
  BY GoesOn DEF PromoteHub, Inv, TypeOK, ImageSteps
<1>2. UNCHANGED <<released, release, pending, latestVars, signed>>
  BY DEF PromoteHub, Advance
<1>3. Grown
  BY <1>2 DEF Grown, latestVars
<1>4. BothSigned(DigestOf(v)) /\ tag["ghcr"][v] = DigestOf(v)
  BY <1>1 DEF Inv, ImagesInOrder, Achieved
<1>5. /\ tag' \in [Registries -> [Versions -> Pointers]]
      /\ TagsSigned'
      /\ tag'["hub"][v] = DigestOf(v)
      /\ \A s \in Registries : \A w \in Versions :
           s # "hub" \/ w # v => tag'[s][w] = tag[s][w]
  BY <1>2, <1>4, PromotionKeepsTags DEF PromoteHub, Registries
<1>6. RegistryTypes'
  BY <1>2, <1>5 DEF RegistryTypes, Inv, TypeOK, latestVars
<1>7. tag'["ghcr"][v] = tag["ghcr"][v]
  BY <1>5 DEF Registries
<1>8. DigestOf(v)' = DigestOf(v) => Achieved(v)'
  BY <1>1, <1>2, <1>4, <1>5, <1>7 DEF Achieved, Goes, BothSigned
<1> QED
  BY <1>1, <1>2, <1>3, <1>5, <1>6, <1>8, ImageStepKeeps

\* release.yml: the release's metadata, with which the run triggers a Release workflow.
LEMMA UploadKeeps ==
  ASSUME Inv, NEW v \in Versions, Upload(v)
  PROVE  Inv'
<1>1. Goes(v, "done") /\ image[v].step = "uploading"
  BY GoesOn DEF Upload, Inv, TypeOK, ImageSteps
<1>2. /\ UNCHANGED <<released, pending, latestVars, signed, tag>>
      /\ \E d \in Digests : release' = [release EXCEPT ![d] = "verifying"]
  BY DigestOfIsDigest DEF Upload, Advance, registryVars, Inv, TypeOK
<1>3. Grown
  BY <1>2 DEF Grown, latestVars
<1>4. RegistryTypes' /\ TagsSigned'
  BY <1>2, <1>3, TagsStay DEF Inv, TypeOK, RegistryTypes, latestVars
<1>5. Achieved(v) /\ DigestOf(v)' = DigestOf(v) => Achieved(v)'
  BY <1>1, <1>2 DEF Achieved, Goes, BothSigned
<1> QED
  BY <1>1, <1>2, <1>3, <1>4, <1>5, ImageStepKeeps

(* A job that died starts over: it has achieved no more than its start.    *)
LEMMA RerunsKeep ==
  ASSUME Inv, NEW v \in Versions, RerunFailed(v) \/ RerunAll(v)
  PROVE  Inv'
<1>1. ImageTypes
  BY DEF Inv, TypeOK
<1>2. UNCHANGED <<registryVars, releaseVars, pending, latestVars>>
  BY DEF RerunFailed, RerunAll
<1>3. CASE RerunFailed(v)
  <2> DEFINE to == JobStart(image[v].step)
  <2>1. image[v].step \in ImageSteps
    BY <1>1 DEF ImageTypes, ImageStates
  <2>2. to \in ImageSteps
    BY <2>1 DEF JobStart, ImageSteps
  <2>3. Goes(v, to)
    BY <1>1, <1>3, <2>2, GoesByStep DEF RerunFailed
  <2>4. to = "promoting" => image[v].step \in {"promoting", "promoting hub", "uploading"}
    BY <2>1 DEF JobStart, ImageSteps
  <2>5. to \notin {"signing hub", "promoting hub", "uploading", "done"}
    BY <1>3, <2>1 DEF JobStart, ImageSteps, RerunFailed
  <2> HIDE DEF to
  <2>6. Achieved(v) /\ DigestOf(v)' = DigestOf(v) => Achieved(v)'
    BY <1>2, <2>3, <2>4, <2>5 DEF Achieved, BothSigned, registryVars, Goes
  <2> QED
    BY <1>2, <2>3, <2>6, QuietStepKeeps
<1>4. CASE RerunAll(v)
  <2>1. Goes(v, "building")
    <3> DEFINE next == [step |-> "building", build |-> image[v].build + 1, runs |-> TRUE]
    <3>1. image[v].build \in 1..MaxBuilds[v] /\ image[v].build < MaxBuilds[v]
      BY <1>1, <1>4 DEF ImageTypes, RerunAll
    <3>2. image[v].build + 1 \in 1..MaxBuilds[v] /\ image[v].build + 1 \in Nat
      BY <3>1, VersionsPositive
    <3>3. next \in ImageStates
      BY <3>2 DEF ImageStates, ImageSteps
    <3>4. image' = [image EXCEPT ![v] = next]
      BY <1>4 DEF RerunAll
    <3>5. next.step = "building" /\ next.build \in 1..MaxBuilds[v]
      BY <3>2
    <3> HIDE DEF next
    <3> QED
      BY <1>1, <3>3, <3>4, <3>5 DEF Goes, ImageTypes
  <2>2. Achieved(v)'
    BY <2>1 DEF Achieved, Goes
  <2> QED
    BY <1>2, <2>1, <2>2, QuietStepKeeps
<1> QED
  BY <1>3, <1>4

\* Any step of an image run.
LEMMA ImageGoesKeeps ==
  ASSUME Inv, NEW v \in Versions, ImageGoes(v)
  PROVE  Inv'
  BY StopsKeep, EarlyStepsKeep, SignGhcrKeeps, SignHubKeeps, PromoteGhcrKeeps, PromoteHubKeeps,
     UploadKeeps, RerunsKeep DEF ImageGoes

-----------------------------------------------------------------------------
(* Steps of a Release workflow.                                            *)

\* Any step of a release run.
LEMMA ReleaseGoesKeeps ==
  ASSUME Inv, NEW d \in Digests, ReleaseGoes(d)
  PROVE  Inv'
<1>1. /\ Grown
      /\ UNCHANGED <<image, tag, latest, reconcile>>
  BY DEF ReleaseGoes, Verify, Create, Dispatch, ReleaseDies, ReleaseRerun, Grown,
         registryVars, latestVars
<1>2. /\ pending' \in BOOLEAN /\ (pending => pending')
      /\ released' \in {released, released \union {d.version}}
      /\ \E to \in {"verifying", "creating", "dispatching", "done", "failed"} :
           /\ release' = [release EXCEPT ![d] = to]
           /\ to = "dispatching" => d.version \in released'
           /\ to = "done" => release[d] = "dispatching" /\ pending'
  BY DEF ReleaseGoes, Verify, Create, Dispatch, ReleaseDies, ReleaseRerun, Inv, TypeOK, ReconcileTypes
<1>3. PICK to \in {"verifying", "creating", "dispatching", "done", "failed"} :
        /\ release' = [release EXCEPT ![d] = to]
        /\ to = "dispatching" => d.version \in released'
        /\ to = "done" => release[d] = "dispatching" /\ pending'
  BY <1>2
<1>4. TypeOK'
  <2>1. ReleaseTypes'
    BY <1>1, <1>2, <1>3, DigestsKnown DEF Inv, TypeOK, ReleaseTypes, Grown
  <2> QED
    BY <1>1, <1>2, <2>1 DEF Inv, TypeOK, ImageTypes, RegistryTypes, ReconcileTypes
<1>5. ReleasesInOrder'
  <2>1. ASSUME NEW e \in Digests
        PROVE  /\ release'[e] \in {"dispatching", "done"} => e.version \in released'
               /\ release'[e] = "done" /\ ~pending' /\ e.version \notin prerelease' =>
                    Noticed(e.version)'
    <3>1. CASE e = d
      <4>1. release'[d] = to
        BY <1>3 DEF Inv, TypeOK, ReleaseTypes
      <4> QED
        BY <1>1, <1>3, <3>1, <4>1 DEF Inv, ReleasesInOrder, Grown
    <3>2. CASE e # d
      <4>1. release'[e] = release[e]
        BY <1>3, <3>2 DEF Inv, TypeOK, ReleaseTypes
      <4>2. Noticed(e.version) => Noticed(e.version)'
        BY <1>1 DEF Noticed
      <4> QED
        BY <1>1, <1>2, <4>1, <4>2 DEF Inv, ReleasesInOrder, Grown
    <3> QED
      BY <3>1, <3>2
  <2> QED
    BY <2>1 DEF ReleasesInOrder
<1> QED
  BY <1>1, <1>4, <1>5, TagsStay, LatestStays, ReconcileStays, ImagesStay DEF Inv

-----------------------------------------------------------------------------
(* Steps of the reconciliation.                                            *)

(* All that has to be seen of them: the alias, the run, and what it saw.   *)
LEMMA ReconcileStepKeeps ==
  ASSUME Inv, UNCHANGED reconcileOnly, RegistryTypes', ReconcileTypes',
         LatestKept', ReconcileInOrder', ReleasesInOrder'
  PROVE  Inv'
<1>1. Grown /\ UNCHANGED <<image, tag, signed, release, released, prerelease>>
  BY DEF Grown, reconcileOnly, registryVars, releaseVars
<1>2. TypeOK'
  BY <1>1 DEF Inv, TypeOK, ImageTypes, ReleaseTypes
<1> QED
  BY <1>1, <1>2, TagsStay, ImagesStay DEF Inv

\* A reconciliation is asked for by hand.
LEMMA RequestKeeps ==
  ASSUME Inv, Request
  PROVE  Inv'
<1>1. UNCHANGED <<reconcileOnly, latest, reconcile>> /\ pending' = TRUE
  BY DEF Request, latestVars
<1>2. Grown
  BY <1>1 DEF Grown, reconcileOnly, registryVars, releaseVars
<1>3. RegistryTypes' /\ ReconcileTypes'
  BY <1>1 DEF Inv, TypeOK, RegistryTypes, ReconcileTypes, reconcileOnly, registryVars
<1>4. ReleasesInOrder'
  BY <1>1, <1>2 DEF Inv, ReleasesInOrder, Grown, reconcileOnly, releaseVars
<1> QED
  BY <1>1, <1>2, <1>3, <1>4, LatestStays, ReconcileStays, ReconcileStepKeeps DEF Inv

(* The alias never points above the highest stable release.                *)
LEMMA LatestBelow ==
  ASSUME Inv, NEW v \in Highest, NEW r \in Registries
  PROVE  v \in Stable /\ v \in Nat /\ latest[r].version <= v
<1>1. v \in Stable /\ \A w \in Stable : w <= v
  BY DEF Highest
<1>2. v \in Versions
  BY <1>1 DEF Stable, Inv, TypeOK, ReleaseTypes
<1>3. CASE latest[r] = None
  BY <1>1, <1>2, <1>3, VersionsPositive DEF None
<1>4. CASE latest[r] # None
  BY <1>1, <1>2, <1>4, VersionsPositive DEF Inv, LatestKept
<1> QED
  BY <1>3, <1>4

\* A reconciliation starts, and selects the highest stable version.
LEMMA StartKeeps ==
  ASSUME Inv, Start
  PROVE  Inv'
<1>1. UNCHANGED <<reconcileOnly, latest>>
  BY DEF Start
<1>2. Grown /\ Stable' = Stable
  BY <1>1 DEF Grown, reconcileOnly, registryVars, releaseVars, Stable
<1>3. RegistryTypes'
  BY <1>1 DEF Inv, TypeOK, RegistryTypes, reconcileOnly, registryVars
<1>4. \A d \in Digests : release[d] = "done" /\ d.version \notin prerelease => d.version \in Stable
  BY DEF Inv, ReleasesInOrder, Stable
<1>5. CASE Highest = {}
  <2>1. reconcile' = [step |-> "idle", version |-> 0, digest |-> None, ok |-> TRUE] /\ pending' = FALSE
    BY <1>5 DEF Start, Resting
  <2>2. ReconcileTypes'
    BY <2>1, NoneIsPointer DEF ReconcileTypes
  <2>3. Stable = {}
    BY <1>5, StableHasHighest DEF Inv, TypeOK, ReleaseTypes
  <2>4. latest["ghcr"] = latest["hub"]
    BY <2>3 DEF Inv, LatestKept, Registries
  <2>5. ReconcileInOrder'
    BY <1>1, <2>1, <2>4 DEF ReconcileInOrder
  <2>6. ReleasesInOrder'
    BY <1>1, <1>2, <1>4, <2>3 DEF Inv, ReleasesInOrder, Grown, reconcileOnly, releaseVars
  <2> QED
    BY <1>1, <1>2, <1>3, <2>2, <2>5, <2>6, LatestStays, ReconcileStepKeeps DEF Inv
<1>6. CASE Highest # {}
  <2>1. PICK v \in Highest :
          reconcile' = [step |-> "reading", version |-> v, digest |-> None, ok |-> TRUE]
    BY <1>6 DEF Start
  <2>2. v \in Stable /\ v \in Nat /\ \A r \in Registries : latest[r].version <= v
    BY LatestBelow DEF Registries
  <2>3. ReconcileTypes'
    BY <2>1, <2>2, NoneIsPointer DEF ReconcileTypes, Start
  <2>4. ReconcileInOrder'
    BY <1>1, <1>2, <2>1, <2>2 DEF ReconcileInOrder
  <2>5. \A d \in Digests : release[d] = "done" /\ d.version \notin prerelease =>
                              Noticed(d.version)'
    BY <1>4, <2>1 DEF Noticed, Highest
  <2>6. ReleasesInOrder'
    BY <1>1, <1>2, <2>5 DEF Inv, ReleasesInOrder, Grown, reconcileOnly, releaseVars
  <2> QED
    BY <1>1, <1>2, <1>3, <2>3, <2>4, <2>6, LatestStays, ReconcileStepKeeps DEF Inv
<1> QED
  BY <1>5, <1>6

(* The digest that is read is one of the version that was selected, and it *)
(* is moved only if it is signed.                                          *)
LEMMA ReadsKeep ==
  ASSUME Inv, ReadGhcr \/ Compare
  PROVE  Inv'
<1>1. UNCHANGED <<reconcileOnly, latest, pending>> /\ reconcile.step # "idle"
  BY DEF ReadGhcr, Compare
<1>2. Grown /\ Stable' = Stable
  BY <1>1 DEF Grown, reconcileOnly, registryVars, releaseVars, Stable
<1>3. RegistryTypes'
  BY <1>1 DEF Inv, TypeOK, RegistryTypes, reconcileOnly, registryVars
<1>4. reconcile.version \in Versions
  BY <1>1 DEF Inv, TypeOK, ReleaseTypes, ReconcileInOrder, Stable
<1>5. ReconcileTypes' /\ ReconcileInOrder' /\
      (reconcile'.step = "idle" => ~reconcile'.ok) /\
      (reconcile'.step # "idle" => reconcile'.version = reconcile.version)
  <2>1. CASE ReadGhcr
    <3> DEFINE d == tag["ghcr"][reconcile.version]
    <3>1. d \in Pointers /\ (d # None => d.version = reconcile.version)
      BY <1>4 DEF Inv, TypeOK, RegistryTypes, TagsSigned, Registries
    <3>2. /\ reconcile'.step = "comparing" /\ reconcile'.digest = d
          /\ reconcile'.version = reconcile.version
      BY <2>1 DEF ReadGhcr, Inv, TypeOK, ReconcileTypes
    <3>3. ReconcileTypes'
      BY <1>1, <2>1, <3>1 DEF ReadGhcr, Inv, TypeOK, ReconcileTypes
    <3> HIDE DEF d
    <3>4. ReconcileInOrder'
      BY <1>1, <1>2, <3>1, <3>2 DEF Inv, ReconcileInOrder
    <3> QED
      BY <3>2, <3>3, <3>4
  <2>2. CASE Compare /\ reconcile'.step = "moving"
    <3>1. /\ reconcile.digest # None /\ BothSigned(reconcile.digest)
          /\ reconcile' = [reconcile EXCEPT !.step = "moving"]
          /\ reconcile.step = "comparing"
      BY <2>2 DEF Compare, BothSigned, Resting
    <3>2. /\ ReconcileTypes' /\ reconcile'.digest = reconcile.digest
          /\ reconcile'.version = reconcile.version
      BY <1>1, <3>1 DEF Inv, TypeOK, ReconcileTypes
    <3>3. BothSigned(reconcile.digest)'
      BY <1>2, <3>1, <3>2 DEF BothSigned, Grown
    <3>4. ReconcileInOrder'
      BY <1>1, <1>2, <2>2, <3>1, <3>2, <3>3 DEF Inv, ReconcileInOrder
    <3> QED
      BY <2>2, <3>2, <3>4
  <2>3. CASE Compare /\ reconcile'.step # "moving"
    <3>1. reconcile' = [step |-> "idle", version |-> 0, digest |-> None, ok |-> FALSE]
      BY <2>3 DEF Compare, Resting, Inv, TypeOK, ReconcileTypes
    <3>2. ReconcileTypes'
      BY <1>1, <3>1, NoneIsPointer DEF ReconcileTypes, Inv, TypeOK
    <3> QED
      BY <3>1, <3>2 DEF ReconcileInOrder
  <2> QED
    BY <2>1, <2>2, <2>3
<1>6. ReleasesInOrder'
  BY <1>1, <1>2, <1>5 DEF Inv, ReleasesInOrder, Noticed, Grown, reconcileOnly, releaseVars
<1> QED
  BY <1>1, <1>2, <1>3, <1>5, <1>6, LatestStays, ReconcileStepKeeps DEF Inv

\* It moves latest, in one registry after the other.
LEMMA MovesKeep ==
  ASSUME Inv, MoveGhcr \/ MoveHub
  PROVE  Inv'
<1> DEFINE d == reconcile.digest
<1>1. UNCHANGED <<reconcileOnly, pending>> /\ reconcile.step \in {"moving", "moving hub"}
  BY DEF MoveGhcr, MoveHub
<1>2. Grown /\ Stable' = Stable
  BY <1>1 DEF Grown, reconcileOnly, registryVars, releaseVars, Stable
<1>3. /\ d \in Pointers /\ d # None /\ BothSigned(d)
      /\ d.version = reconcile.version /\ d.version \in Stable
  BY <1>1 DEF Inv, TypeOK, ReconcileTypes, ReconcileInOrder
<1>4. \E r \in Registries : latest' = [latest EXCEPT ![r] = d]
  BY DEF MoveGhcr, MoveHub, Registries
<1>5. RegistryTypes'
  BY <1>1, <1>3, <1>4 DEF Inv, TypeOK, RegistryTypes, reconcileOnly, registryVars
<1>6. \A r \in Registries : latest'[r] \in {latest[r], d}
  BY <1>4 DEF Inv, TypeOK, RegistryTypes
<1>7. LatestKept'
  <2>1. ASSUME NEW r \in Registries, latest'[r] # None
        PROVE  latest'[r].version \in Stable /\ \A s \in Registries : <<s, latest'[r]>> \in signed
    BY <1>3, <1>6, <2>1 DEF Inv, LatestKept, BothSigned
  <2>2. signed' = signed
    BY <1>1 DEF reconcileOnly, registryVars
  <2> QED
    BY <1>2, <2>1, <2>2 DEF LatestKept, BothSigned, None
<1>8. CASE MoveGhcr
  <2>1. reconcile' = [reconcile EXCEPT !.step = "moving hub"] /\ reconcile.step = "moving"
    BY <1>8 DEF MoveGhcr
  <2>2. /\ ReconcileTypes' /\ reconcile'.step = "moving hub" /\ reconcile'.digest = d
        /\ reconcile'.version = reconcile.version
    BY <1>1, <2>1 DEF Inv, TypeOK, ReconcileTypes
  <2>3. latest'["ghcr"] = d
    BY <1>8 DEF MoveGhcr, Inv, TypeOK, RegistryTypes, Registries
  <2>4. BothSigned(d)'
    BY <1>2, <1>3, <2>2 DEF BothSigned, Grown
  <2>5. \A r \in Registries : latest'[r].version <= reconcile.version
    <3>1. reconcile.version \in Nat
      BY DEF Inv, TypeOK, ReconcileTypes
    <3>2. \A r \in Registries : latest[r].version <= reconcile.version
      BY <2>1 DEF Inv, ReconcileInOrder
    <3>3. d.version <= reconcile.version
      BY <1>3, <3>1
    <3> HIDE DEF d
    <3> QED
      BY <1>6, <3>2, <3>3
  <2>6. ReconcileInOrder'
    BY <1>2, <1>3, <2>2, <2>3, <2>4, <2>5 DEF ReconcileInOrder, None
  <2>7. ReleasesInOrder'
    BY <1>1, <1>2, <2>1, <2>2 DEF Inv, ReleasesInOrder, Noticed, Grown, reconcileOnly, releaseVars
  <2> QED
    BY <1>1, <1>5, <1>7, <2>2, <2>6, <2>7, ReconcileStepKeeps
<1>9. CASE MoveHub
  <2>1. /\ reconcile' = [step |-> "idle", version |-> 0, digest |-> None, ok |-> TRUE]
        /\ reconcile.step = "moving hub"
    BY <1>9 DEF MoveHub, Resting
  <2>2. ReconcileTypes'
    BY <1>1, <2>1, NoneIsPointer DEF ReconcileTypes, Inv, TypeOK
  <2>3. latest'["ghcr"] = d /\ latest'["hub"] = d
    BY <1>9, <2>1 DEF MoveHub, Inv, TypeOK, RegistryTypes, Registries, ReconcileInOrder
  <2>4. ReconcileInOrder'
    BY <2>1, <2>3 DEF ReconcileInOrder
  <2>5. ReleasesInOrder'
    BY <1>1, <1>2, <1>3, <2>1, <2>3 DEF Inv, ReleasesInOrder, Noticed, Grown, reconcileOnly, releaseVars
  <2> QED
    BY <1>1, <1>5, <1>7, <2>2, <2>4, <2>5, ReconcileStepKeeps
<1> QED
  BY <1>8, <1>9

\* It dies between any two of its steps.
LEMMA ReconcileDiesKeeps ==
  ASSUME Inv, ReconcileDies
  PROVE  Inv'
<1>1. /\ UNCHANGED <<image, tag, signed, released, release, latest, pending, prerelease>>
      /\ reconcile' = [step |-> "idle", version |-> 0, digest |-> None, ok |-> FALSE]
  BY DEF ReconcileDies, registryVars, releaseVars, Resting
<1>2. Grown
  BY <1>1 DEF Grown
<1>3. TypeOK'
  BY <1>1, NoneIsPointer DEF Inv, TypeOK, ImageTypes, RegistryTypes, ReleaseTypes, ReconcileTypes
<1>4. ReconcileInOrder' /\ ReleasesInOrder'
  BY <1>1 DEF Inv, ReconcileInOrder, ReleasesInOrder, Noticed
<1> QED
  BY <1>1, <1>2, <1>3, <1>4, TagsStay, LatestStays, ImagesStay DEF Inv

-----------------------------------------------------------------------------
\* Nothing is built, signed or released.
LEMMA InvInitially == Init => Inv
<1> SUFFICES ASSUME Init PROVE Inv
  OBVIOUS
<1> USE DEF Init
<1>1. TypeOK
  <2>1. ImageTypes
    BY VersionsPositive DEF ImageTypes, ImageStates, ImageSteps
  <2>2. RegistryTypes
    BY NoneIsPointer DEF RegistryTypes
  <2>3. ReleaseTypes
    BY PipelineAssumption DEF ReleaseTypes, PipelineAssumption
  <2>4. ReconcileTypes
    BY NoneIsPointer DEF ReconcileTypes, Resting
  <2> QED
    BY <2>1, <2>2, <2>3, <2>4 DEF TypeOK
<1>2. ImagesInOrder
  BY DEF ImagesInOrder, Achieved
<1>3. TagsSigned /\ LatestKept
  BY DEF TagsSigned, LatestKept
<1>4. ReconcileInOrder
  BY DEF ReconcileInOrder, Resting, Registries
<1>5. ReleasesInOrder
  BY DEF ReleasesInOrder
<1> QED
  BY <1>1, <1>2, <1>3, <1>4, <1>5 DEF Inv

\* Every step of every workflow keeps the invariant.
LEMMA InvKept == Inv /\ [Next]_vars => Inv'
<1> SUFFICES ASSUME Inv, [Next]_vars PROVE Inv'
  OBVIOUS
<1>1. CASE Next
  BY <1>1, ImageGoesKeeps, ReleaseGoesKeeps, RequestKeeps, StartKeeps, ReadsKeep, MovesKeep,
     ReconcileDiesKeeps DEF Next, ReconcileGoes
<1>2. CASE UNCHANGED vars
  <2>1. /\ UNCHANGED <<image, tag, signed, released, release, latest, pending, prerelease, reconcile>>
        /\ Grown
    BY <1>2 DEF vars, Grown
  <2>2. TypeOK'
    BY <2>1 DEF Inv, TypeOK, ImageTypes, RegistryTypes, ReleaseTypes, ReconcileTypes
  <2> QED
    BY <2>1, <2>2, TagsStay, LatestStays, ReconcileStays, ReleasesStay, ImagesStay DEF Inv
<1> QED
  BY <1>1, <1>2

\* The invariant of the release workflows.
LEMMA InvHolds == Spec => []Inv
  BY InvInitially, InvKept, PTL DEF Spec

(* What is pulled is signed, latest is a stable release, and a workflow    *)
(* that reports its release has published it: provider-release.yml,        *)
(* release.yml and provider-latest.yml, with any deaths and reruns.        *)
THEOREM WhatIsPublishedIsSigned == Spec => []PublishedIsSigned
<1>1. Inv => PublishedIsSigned
  <2> SUFFICES ASSUME Inv PROVE PublishedIsSigned
    OBVIOUS
  <2>1. ASSUME NEW d \in {tag[r][v] : r \in Registries, v \in Versions}
                          \union {latest[r] : r \in Registries},
               d # None
        PROVE  \A r \in Registries : <<r, d>> \in signed
    BY <2>1 DEF Inv, TagsSigned, LatestKept, BothSigned
  <2>2. \A r \in Registries : latest[r] # None => latest[r].version \in released \ prerelease
    BY DEF Inv, LatestKept, Stable
  <2>3. \A v \in Versions : image[v].step \in {"uploading", "done"} =>
          \A r \in Registries : tag[r][v] = DigestOf(v)
    BY DEF Inv, ImagesInOrder, Achieved, Registries
  <2> QED
    BY <2>1, <2>2, <2>3 DEF PublishedIsSigned
<1> QED
  BY <1>1, InvHolds, PTL

(* No release, however late or often repeated, is lost to latest once the  *)
(* reconciliations have settled: the concurrency group of                  *)
(* provider-latest.yml, which replaces a waiting request.                  *)
THEOREM LatestSettlesAlways == Spec => []LatestSettles
<1>1. Inv => LatestSettles
  BY DEF Inv, ReconcileInOrder, ReleasesInOrder, Noticed, LatestSettles
<1> QED
  BY <1>1, InvHolds, PTL

(* latest never goes back to a lower version: the selection and the two    *)
(* writes of provider-latest.yml.                                          *)
THEOREM LatestGoesForward == Spec => LatestNeverBack
<1>1. Inv /\ [Next]_vars =>
        [\A r \in Registries : latest'[r].version >= latest[r].version]_latest
  <2> SUFFICES ASSUME Inv, Next, latest' # latest
               PROVE  \A r \in Registries : latest'[r].version >= latest[r].version
    BY DEF vars
  <2>1. MoveGhcr \/ MoveHub
    BY DEF Next, ImageGoes, ReleaseGoes, ReconcileGoes, Push, Build, Validate, ValidateRejects,
           Publish, SignGhcr, SignHub, PromoteGhcr, PromoteHub, HubRefuses, Upload, ImageDies,
           RerunFailed, RerunAll, Advance, Verify, Create, Dispatch, ReleaseDies, ReleaseRerun,
           Request, Start, ReadGhcr, Compare, ReconcileDies, latestVars
  <2>2. \A r \in Registries : latest'[r] \in {latest[r], reconcile.digest}
    BY <2>1 DEF MoveGhcr, MoveHub, Inv, TypeOK, RegistryTypes
  <2>3. \A r \in Registries : latest[r].version <= reconcile.digest.version
    BY <2>1 DEF MoveGhcr, MoveHub, Inv, ReconcileInOrder
  <2>4. \A r \in Registries : latest[r].version \in Nat
    BY DEF Inv, TypeOK, RegistryTypes, Pointers
  <2>5. reconcile.digest.version \in Nat
    BY DEF Inv, TypeOK, ReconcileTypes, Pointers
  <2> QED
    BY <2>2, <2>3, <2>4, <2>5
<1> QED
  BY <1>1, InvHolds, PTL DEF Spec, LatestNeverBack

-----------------------------------------------------------------------------
(* Scanning.                                                               *)

allVars == <<workflow, vars, scanVars>>

Dated(r) == r.reviewed \in Nat /\ r.expires \in Nat

BaselineKnown ==
  /\ day \in Nat
  /\ Dated(baseline)
  /\ \A e \in baseline.entries : Dated(e)
  /\ baseline \in Baselines

SarifFits ==
  \A f \in report.matches :
    \/ sarif.severity[f.rule] = Security!Unclear
    \/ \E g \in report.matches : g.rule = f.rule /\ g.severity = sarif.severity[f.rule]

SarifRules == DOMAIN sarif.severity = Security!RulesOf(report.matches)

StepsInOrder ==
  /\ step \in {"idle", "gate", "filter", "over"}
  /\ step \in {"idle", "gate"} => verdict.kind = "none"
  /\ step # "over" => actionable.kind = "none"

ScanInv ==
  /\ BaselineKnown
  /\ SarifFits
  /\ SarifRules
  /\ StepsInOrder
  /\ NothingHidden

Blocking == {f \in report.matches : f.severity \in Security!BlockingSeverities}

-----------------------------------------------------------------------------
(* The policy accepts a finding on the day it looks exactly if somebody    *)
(* reviewed it and the whole baseline is in force.                         *)
LEMMA ValidReviewsHold ==
  ASSUME BaselineKnown, Security!Valid, NEW f, Security!Accepted(f)
  PROVE  Security!ReviewedOn(f, day)
<1>1. PICK e \in baseline.entries :
        /\ <<e.rule, e.severity, e.package, e.state>> = <<f.rule, f.severity, f.package, f.state>>
        /\ report.platform \in e.platforms
  BY DEF Security!Accepted, Security!Reviewed
<1>2. Security!Admissible(e)
  BY DEF Security!Valid
<1>3. \A r \in {baseline} \union baseline.entries : day \in r.reviewed..r.expires
  <2>1. ASSUME NEW r \in {baseline} \union baseline.entries
        PROVE  day \in r.reviewed..r.expires
    <3>1. Security!InForce(r)
      BY <2>1 DEF Security!Valid, Security!Admissible
    <3>2. Dated(r) /\ day \in Nat
      BY <2>1 DEF BaselineKnown
    <3> QED
      BY <3>1, <3>2 DEF Security!InForce, Dated
  <2> QED
    BY <2>1
<1>4. /\ e.rule = f.rule /\ e.package = f.package
      /\ e.severity = f.severity /\ e.state = f.state
  BY <1>1
<1>5. baseline.base = report.base
  BY DEF Security!Valid
<1>6. /\ e.documented /\ e.expires <= baseline.expires
      /\ e.severity \in Security!BlockingSeverities /\ e.state \in Security!NoFixStates
  BY <1>2 DEF Security!Admissible
<1>7. f.package \in Debian /\ f.arch /\ ~f.fixable
  BY DEF Security!Accepted
<1> QED
  BY <1>1, <1>3, <1>4, <1>5, <1>6, <1>7 DEF Security!ReviewedOn

(* Conversely, what somebody reviewed the policy accepts on any day.       *)
LEMMA ReviewedIsAccepted ==
  ASSUME NEW f, NEW d, Security!ReviewedOn(f, d)
  PROVE  Security!Accepted(f)
<1>1. PICK e \in baseline.entries :
        /\ report.platform \in e.platforms
        /\ e.rule = f.rule /\ e.package = f.package
        /\ e.severity = f.severity /\ e.state = f.state
        /\ e.state \in Security!NoFixStates
  BY DEF Security!ReviewedOn
<1>2. Security!Reviewed(f)
  BY <1>1 DEF Security!Reviewed
<1> QED
  BY <1>1, <1>2 DEF Security!Accepted, Security!ReviewedOn

(* The filter leaves a finding out only if nothing unreviewed goes by its  *)
(* rule: the severity that the SARIF gives the rule is not trusted.        *)
LEMMA OmittedRuleIsReviewed ==
  ASSUME NEW f \in report.matches, f.severity \in Security!BlockingSeverities, Security!Omitted(f)
  PROVE  Security!Accepted(f)
<1>1. f.rule \notin Security!RulesOf(Security!Unreviewed)
  BY DEF Security!Omitted, Security!Nonblocking, Security!ReviewedSeverities
<1>2. f \notin Security!Unreviewed
  BY <1>1 DEF Security!RulesOf
<1> QED
  BY <1>2 DEF Security!Unreviewed

(* If nothing is unreviewed and the SARIF can be read and agrees with the  *)
(* report, the filter leaves every finding out.                            *)
LEMMA NothingLeft ==
  ASSUME SarifFits, Security!Unreviewed = {}, sarif.indexed,
         NEW f \in report.matches, sarif.severity[f.rule] # Security!Unclear
  PROVE  Security!Omitted(f)
<1> DEFINE s == sarif.severity[f.rule]
<1>1. PICK g \in report.matches : g.rule = f.rule /\ g.severity = s
  BY DEF SarifFits
<1>2. f.rule \notin Security!RulesOf(Security!Unreviewed)
  BY DEF Security!RulesOf
<1>3. CASE s \in Security!BlockingSeverities
  <2>1. Security!Accepted(g)
    BY <1>1, <1>3 DEF Security!Unreviewed
  <2>2. s \in Security!ReviewedSeverities(f.rule)
    BY <1>1, <1>2, <2>1 DEF Security!ReviewedSeverities
  <2> QED
    BY <2>2 DEF Security!Omitted
<1>4. CASE s \notin Security!BlockingSeverities
  <2>1. Security!Nonblocking(f.rule)
    BY <1>1, <1>2, <1>4 DEF Security!Nonblocking
  <2> QED
    BY <1>4, <2>1 DEF Security!Omitted
<1> QED
  BY <1>3, <1>4

-----------------------------------------------------------------------------
(* No report yet, and a baseline that has been checked in.                *)
LEMMA ScanInvInitially == WorkflowsInit => ScanInv
<1> SUFFICES ASSUME WorkflowsInit PROVE ScanInv
  OBVIOUS
<1> USE DEF WorkflowsInit, Security!Init, Security!NoReport, Security!NoSarif, Security!NoVerdict,
            Security!NoResults
<1>1. BaselineKnown
  BY ScanAssumption DEF ScanAssumption, BaselineKnown, Dated
<1>2. SarifFits /\ SarifRules
  BY DEF SarifFits, SarifRules, Security!RulesOf
<1>3. StepsInOrder
  BY DEF StepsInOrder
<1>4. NothingHidden
  BY DEF NothingHidden, Security!NothingHidden
<1> QED
  BY <1>1, <1>2, <1>3, <1>4 DEF ScanInv

(* Steps that leave report, baseline, SARIF, verdict and upload alone.     *)
LEMMA NothingHiddenStays ==
  ASSUME NothingHidden, UNCHANGED <<baseline, report, sarif, verdict, actionable>>
  PROVE  NothingHidden'
  BY DEF NothingHidden, Security!NothingHidden, Security!ReviewedOn

(* A report and its SARIF agree, and no verdict or upload is left over.    *)
LEMMA ScanKeeps ==
  ASSUME ScanInv, Security!Scan
  PROVE  ScanInv'
<1> USE DEF Security!Scan
<1>1. BaselineKnown'
  BY DEF ScanInv, BaselineKnown, Dated
<1>2. PICK severity \in [Security!RulesOf(report'.matches) ->
                          Security!BlockingSeverities \union {"Low", Security!Unclear}],
           indexed \in BOOLEAN :
        /\ \A rule \in DOMAIN severity :
             severity[rule] \in {Security!Unclear} \union
               {f.severity : f \in {g \in report'.matches : g.rule = rule}}
        /\ sarif' = [severity |-> severity, indexed |-> indexed]
  OBVIOUS
<1>3. SarifRules'
  BY <1>2 DEF SarifRules, Security!RulesOf
<1>4. SarifFits'
  <2>1. ASSUME NEW f \in report'.matches
        PROVE  f.rule \in DOMAIN severity
    BY <1>2, <2>1 DEF Security!RulesOf
  <2> QED
    BY <1>2, <2>1 DEF SarifFits, Security!Unclear
<1>5. StepsInOrder'
  BY DEF ScanInv, StepsInOrder
<1>6. verdict'.kind = "none" /\ actionable'.kind = "none"
  BY DEF ScanInv, StepsInOrder
<1>7. NothingHidden'
  BY <1>6 DEF NothingHidden, Security!NothingHidden
<1> QED
  BY <1>1, <1>3, <1>4, <1>5, <1>7 DEF ScanInv

(* verify passes only if every blocking finding is accepted.              *)
LEMMA GateKeeps ==
  ASSUME ScanInv, Security!Gate
  PROVE  ScanInv'
<1> USE DEF Security!Gate
<1>1. BaselineKnown'
  BY DEF ScanInv, BaselineKnown, Dated
<1>2. SarifRules' /\ SarifFits'
  BY DEF ScanInv, SarifRules, SarifFits, Security!RulesOf
<1>3. StepsInOrder'
  BY DEF ScanInv, StepsInOrder
<1>4. actionable'.kind = "none"
  BY DEF ScanInv, StepsInOrder
<1>5. ASSUME verdict'.kind = "passed",
             NEW f \in report.matches, f.severity \in Security!BlockingSeverities
      PROVE  Security!ReviewedOn(f, day)
  <2>1. Security!Valid /\ Security!Unreviewed = {}
    BY <1>5
  <2>2. Security!Accepted(f)
    BY <1>5, <2>1 DEF Security!Unreviewed
  <2> QED
    BY <2>1, <2>2, ValidReviewsHold DEF ScanInv
<1>6. NothingHidden'
  <2>1. verdict'.kind = "passed" => verdict'.day = day
    OBVIOUS
  <2> QED
    BY <1>4, <1>5, <2>1 DEF NothingHidden, Security!NothingHidden, Security!ReviewedOn
<1> QED
  BY <1>1, <1>2, <1>3, <1>6 DEF ScanInv

(* filter_sarif leaves out reviewed findings only, and nothing is left for *)
(* the upload when the gate passed and the SARIF can be read throughout.   *)
LEMMA FilterKeeps ==
  ASSUME ScanInv, Security!Filter \/ Security!FilterFails
  PROVE  ScanInv'
<1>0. /\ step = "filter" /\ step' = "over"
      /\ UNCHANGED <<day, baseline, report, sarif, verdict>>
  BY DEF Security!Filter, Security!FilterFails
<1>1. BaselineKnown'
  BY <1>0 DEF ScanInv, BaselineKnown, Dated
<1>2. SarifRules' /\ SarifFits'
  BY <1>0 DEF ScanInv, SarifRules, SarifFits, Security!RulesOf
<1>3. StepsInOrder'
  BY <1>0 DEF ScanInv, StepsInOrder
<1>4. verdict.kind = "passed" =>
        \A f \in Blocking : Security!ReviewedOn(f, verdict.day)
  BY DEF ScanInv, NothingHidden, Security!NothingHidden, Blocking
<1>5. ASSUME NEW f \in Blocking, f \notin actionable'.results
      PROVE  Security!ReviewedOn(f, actionable'.day)
  <2>1. CASE Security!FilterFails
    BY <1>5, <2>1 DEF Security!FilterFails, Blocking
  <2>2. CASE Security!Filter
    <3>1. Security!Omitted(f) /\ Security!Valid /\ actionable'.day = day
      BY <1>5, <2>2 DEF Security!Filter, Blocking
    <3>2. Security!Accepted(f)
      BY <1>5, <3>1, OmittedRuleIsReviewed DEF Blocking
    <3> QED
      BY <3>1, <3>2, ValidReviewsHold DEF ScanInv
  <2> QED
    BY <2>1, <2>2
<1>6. ASSUME actionable'.kind = "filtered", verdict.kind = "passed", sarif.indexed,
             \A rule \in DOMAIN sarif.severity : sarif.severity[rule] # Security!Unclear
      PROVE  actionable'.results = {}
  <2>1. Security!Filter
    BY <1>6 DEF Security!FilterFails
  <2>2. Security!Unreviewed = {}
    BY <1>4, <1>6, ReviewedIsAccepted DEF Security!Unreviewed, Blocking
  <2>3. ASSUME NEW f \in report.matches
        PROVE  Security!Omitted(f)
    <3>1. sarif.severity[f.rule] # Security!Unclear
      BY <1>6, <2>3 DEF ScanInv, SarifRules, Security!RulesOf
    <3> QED
      BY <1>6, <2>2, <3>1, NothingLeft DEF ScanInv
  <2> QED
    BY <2>1, <2>3 DEF Security!Filter
<1>7. NothingHidden'
  BY <1>0, <1>4, <1>5, <1>6 DEF NothingHidden, Security!NothingHidden, Security!ReviewedOn, Blocking
<1> QED
  BY <1>1, <1>2, <1>3, <1>7 DEF ScanInv

(* The next scan starts from nothing.                                      *)
LEMMA DiscardKeeps ==
  ASSUME ScanInv, Security!Discard
  PROVE  ScanInv'
<1> USE DEF Security!Discard, Security!NoReport, Security!NoSarif, Security!NoVerdict,
            Security!NoResults
<1>1. BaselineKnown'
  BY DEF ScanInv, BaselineKnown, Dated
<1>2. SarifFits' /\ SarifRules'
  BY DEF SarifFits, SarifRules, Security!RulesOf
<1>3. StepsInOrder'
  BY DEF StepsInOrder
<1>4. NothingHidden'
  BY DEF NothingHidden, Security!NothingHidden
<1> QED
  BY <1>1, <1>2, <1>3, <1>4 DEF ScanInv

(* A baseline is replaced only between scans.                              *)
LEMMA ReviewKeeps ==
  ASSUME ScanInv, Security!Review
  PROVE  ScanInv'
<1> USE DEF Security!Review
<1>1. BaselineKnown'
  BY ScanAssumption DEF ScanAssumption, ScanInv, BaselineKnown, Dated
<1>2. SarifFits' /\ SarifRules'
  BY DEF ScanInv, SarifFits, SarifRules, Security!RulesOf
<1>3. StepsInOrder'
  BY DEF ScanInv, StepsInOrder
<1>4. verdict'.kind = "none" /\ actionable'.kind = "none"
  BY DEF ScanInv, StepsInOrder
<1>5. NothingHidden'
  BY <1>4 DEF NothingHidden, Security!NothingHidden
<1> QED
  BY <1>1, <1>2, <1>3, <1>5 DEF ScanInv

(* A new day changes no verdict: each names the day it was made on.        *)
LEMMA MidnightKeeps ==
  ASSUME ScanInv, Security!Midnight \/ UNCHANGED scanVars
  PROVE  ScanInv'
<1>0. /\ day' \in {day, day + 1}
      /\ UNCHANGED <<baseline, step, report, sarif, verdict, actionable>>
  BY DEF Security!Midnight, scanVars
<1>1. BaselineKnown'
  BY <1>0 DEF ScanInv, BaselineKnown, Dated
<1>2. SarifFits' /\ SarifRules'
  BY <1>0 DEF ScanInv, SarifFits, SarifRules, Security!RulesOf
<1>3. StepsInOrder'
  BY <1>0 DEF ScanInv, StepsInOrder
<1>4. NothingHidden'
  BY <1>0, NothingHiddenStays DEF ScanInv
<1> QED
  BY <1>1, <1>2, <1>3, <1>4 DEF ScanInv

(* ScanInv is inductive: a releasing workflow leaves the scan alone.       *)
LEMMA ScanInvKept == ScanInv /\ [WorkflowsNext]_allVars => ScanInv'
<1> SUFFICES ASSUME ScanInv, [WorkflowsNext]_allVars PROVE ScanInv'
  OBVIOUS
<1>1. CASE ReleaseStep
  BY <1>1, MidnightKeeps DEF ReleaseStep
<1>2. CASE SecurityStep
  <2>1. Security!Next
    BY <1>2 DEF SecurityStep
  <2> QED
    BY <2>1, ScanKeeps, GateKeeps, FilterKeeps, DiscardKeeps, ReviewKeeps, MidnightKeeps
       DEF Security!Next
<1>3. CASE UNCHANGED allVars
  BY <1>3, MidnightKeeps DEF allVars
<1> QED
  BY <1>1, <1>2, <1>3 DEF WorkflowsNext

(* No scan hides a finding that nobody reviewed, whatever is reported,     *)
(* whatever the SARIF says, and however reviews are replaced and expire:   *)
(* verify and filter_sarif.                                                *)
THEOREM NoFindingHidden == WorkflowsSpec => []NothingHidden
<1>1. WorkflowsInit => ScanInv
  BY ScanInvInitially
<1>2. ScanInv /\ [WorkflowsNext]_allVars => ScanInv'
  BY ScanInvKept
<1>3. ScanInv => NothingHidden
  BY DEF ScanInv
<1> QED
  BY <1>1, <1>2, <1>3, PTL DEF WorkflowsSpec, allVars

(* Beside the scans the releases are what ReleasePipeline says: nothing of *)
(* a scan writes what a releasing workflow reads.                          *)
LEMMA WorkflowsRelease == WorkflowsSpec => Spec
<1>1. WorkflowsInit => Init
  BY DEF WorkflowsInit
<1>2. [WorkflowsNext]_allVars => [Next]_vars
  BY DEF WorkflowsNext, ReleaseStep, SecurityStep, allVars
<1> QED
  BY <1>1, <1>2, PTL DEF WorkflowsSpec, Spec, allVars

(* The promises of the releasing workflows hold in the composition too.    *)
THEOREM ReleasesKeepTheirPromises ==
  WorkflowsSpec => []PublishedIsSigned /\ []LatestSettles /\ LatestNeverBack
  BY WorkflowsRelease, WhatIsPublishedIsSigned, LatestSettlesAlways, LatestGoesForward, PTL
=============================================================================
