-------------------------- MODULE GetComicsProofs --------------------------
(***************************************************************************)
(* What a resolve request of GetComics promises, for any set of links and  *)
(* any width of the semaphore, and in the provider as a whole.  The        *)
(* argument is about the one exception that gather keeps: while there is   *)
(* none, no task has raised or was cancelled; the first is a cancellation  *)
(* only after the deadline cancelled every task, and then none of them     *)
(* asks the source any more; and a request is over only if all its tasks   *)
(* have ended or an exception was raised.  The last part is about search,  *)
(* for any intents, releases and limit.                                    *)
(***************************************************************************)
EXTENDS GetComics, SubsequenceProofs

Endings == {"resolved", "dropped", "broken", "cancelled"}
Asking == {"queued", "validating", "sending"}

TypeOK ==
  /\ pc \in {"idle", "page", "gathering", "over"}
  /\ link \in [Links -> {"absent"} \union Unfinished \union Ended]
  /\ ending \in [Links -> {"none"} \union Endings]
  /\ raised \in {"none", "internal", "cancelled"}
  /\ page \in Pages
  /\ artifacts \in [Groups -> SUBSET Links]
  /\ result \in {"none", "refused", "error", "deadline", "internal", "layout", "artifacts"}

\* No link has been asked, nor will be.
NoneStarted == \A l \in Links : link[l] = "absent"

\* There is nothing to unwrap before the page is read.
PageFirst ==
  pc \in {"idle", "page"} =>
    /\ raised = "none"
    /\ ~Expiring
    /\ NoneStarted

CleansUpForAReason == \A l \in Links : link[l] = "closing" => ending[l] \in Endings

\* What gather remembers, and what its tasks came to.
FirstRaised ==
  /\ raised = "none" => \A l \in Links : link[l] \notin {"broken", "cancelled"}
  /\ raised = "internal" => \E l \in Links : link[l] = "broken"
  /\ raised = "cancelled" => Expiring

\* The deadline reaches every task before it asks again.
CancelledTogether == Expiring => \A l \in Links : link[l] \notin Asking

\* The reply is what the release comes to.
Assembled ==
  /\ AllEnded
  /\ raised = "none"
  /\ artifacts = Offered(page)
  /\ result = ReleaseOf(page, artifacts)

OverForAReason ==
  /\ pc = "over" => AllEnded \/ raised # "none"
  /\ result # "none" => pc = "over"
  /\ result = "error" => NoneStarted
  /\ result = "internal" => NoneStarted \/ raised = "internal" \/ Assembled
  /\ result \in {"layout", "artifacts"} => Assembled

Inv ==
  /\ TypeOK
  /\ PageFirst
  /\ CleansUpForAReason
  /\ FirstRaised
  /\ CancelledTogether
  /\ OverForAReason

\* The semaphore admits no more links than it was made for.
LimiterHolds == Cardinality(Holders) <= MaxConcurrency

-----------------------------------------------------------------------------
(* The steps of a link's task.                                             *)

\* Every step of a task, by what it does to its link and to gather's exception.
LEMMA TaskKeeps ==
  ASSUME Inv, NEW l \in Links, NEW how \in Unfinished \union Ended,
         link[l] \in Unfinished,
         link' = [link EXCEPT ![l] = how],
         ending' \in [Links -> {"none"} \union Endings],
         \A m \in Links \ {l} : ending'[m] = ending[m],
         \/ ending'[l] = ending[l]
         \/ link[l] \in Asking /\ ending'[l] # "cancelled",
         how = "closing" => ending'[l] \in Endings,
         how \in Asking => link[l] \in Asking,
         how = "cancelled" => ending[l] = "cancelled",
         raised' = IF raised # "none" THEN raised
                   ELSE IF how = "broken" THEN "internal"
                   ELSE IF how = "cancelled" THEN "cancelled"
                   ELSE "none",
         UNCHANGED request
  PROVE  Inv'
<1>1. TypeOK'
  BY DEF Inv, TypeOK, request
<1>2. link'[l] = how /\ \A m \in Links \ {l} : link'[m] = link[m]
  BY DEF Inv, TypeOK
<1>3. ~AllEnded /\ pc \notin {"idle", "page"}
  BY DEF AllEnded, Inv, PageFirst, NoneStarted, Unfinished
<1>4. Expiring' <=> Expiring
  <2>1. link[l] # "cancelled"
    BY DEF Unfinished
  <2>2. Expiring => ending'[l] = ending[l]
    BY DEF Inv, CancelledTogether
  <2>3. Expiring' => Expiring
    BY <1>2, <2>1 DEF Expiring
  <2>4. Expiring => Expiring'
    BY <1>2, <2>1, <2>2 DEF Expiring
  <2> QED
    BY <2>3, <2>4
<1>5. PageFirst'
  BY <1>3 DEF PageFirst, request
<1>6. CleansUpForAReason'
  BY <1>2 DEF Inv, CleansUpForAReason
<1>7. FirstRaised'
  <2>1. raised' = "none" => \A m \in Links : link'[m] \notin {"broken", "cancelled"}
    BY <1>2 DEF Inv, FirstRaised
  <2>2. raised' = "internal" => \E m \in Links : link'[m] = "broken"
    BY <1>2 DEF Inv, FirstRaised, Unfinished
  <2>3. raised' = "cancelled" => Expiring
    BY DEF Inv, FirstRaised, Expiring
  <2> QED
    BY <1>4, <2>1, <2>2, <2>3 DEF FirstRaised
<1>8. CancelledTogether'
  BY <1>2, <1>4 DEF Inv, CancelledTogether
<1>9. OverForAReason'
  <2>1. ~NoneStarted /\ ~Assembled
    BY <1>3 DEF NoneStarted, Assembled, Unfinished
  <2>2. raised = "internal" => raised' = "internal"
    OBVIOUS
  <2> QED
    BY <1>3, <2>1, <2>2 DEF Inv, OverForAReason, request
<1> QED
  BY <1>1, <1>5, <1>6, <1>7, <1>8, <1>9 DEF Inv

\* A step that ends the task.
LEMMA EndKeeps ==
  ASSUME Inv, NEW l \in Links, NEW how \in Ended, link[l] \in Unfinished, End(l, how),
         how = "cancelled" => ending[l] = "cancelled"
  PROVE  Inv'
<1>1. ending' \in [Links -> {"none"} \union Endings] /\ ending'[l] = ending[l]
  BY DEF End, Inv, TypeOK
<1>2. how # "closing" /\ how \notin Asking
  BY DEF Ended, Asking
<1> QED
  BY <1>1, <1>2, TaskKeeps DEF End

\* A task goes on, whatever its link answers.
LEMMA TasksKeep ==
  ASSUME Inv, NEW l \in Links, Task(l)
  PROVE  Inv'
<1>1. /\ ending \in [Links -> {"none"} \union Endings]
      /\ raised \in {"none", "internal", "cancelled"}
  BY DEF Inv, TypeOK
<1>2. CASE Acquire(l)
  BY <1>1, <1>2, TaskKeeps DEF Acquire, Unfinished, Asking
<1>3. CASE LinkAccepted(l)
  BY <1>1, <1>3, TaskKeeps DEF LinkAccepted, Unfinished, Asking
<1>4. CASE LinkAnswered(l)
  <2>1. PICK how \in {"resolved", "dropped", "broken"} : CleanUp(l, how)
    BY <1>4 DEF LinkAnswered
  <2>2. ending' = [ending EXCEPT ![l] = how]
    BY <2>1 DEF CleanUp
  <2>3. ending'[l] = how /\ \A m \in Links \ {l} : ending'[m] = ending[m]
    BY <1>1, <2>2
  <2>4. ending' \in [Links -> {"none"} \union Endings]
    BY <1>1, <2>2 DEF Endings
  <2>5. link[l] \in Unfinished /\ link[l] \in Asking /\ link' = [link EXCEPT ![l] = "closing"]
        /\ raised' = raised /\ UNCHANGED request
    BY <1>4, <2>1 DEF LinkAnswered, CleanUp, Unfinished, Asking
  <2> QED
    BY <1>1, <2>3, <2>4, <2>5, TaskKeeps DEF Endings, Unfinished, Asking
<1>5. CASE LinkRejected(l)
  BY <1>5, EndKeeps DEF LinkRejected, Unfinished, Ended
<1>6. CASE CleanedUp(l)
  <2>1. link[l] = "closing" /\ End(l, ending[l]) /\ ending[l] \in Ended
    BY <1>6 DEF CleanedUp, Inv, CleansUpForAReason, Endings, Ended
  <2> QED
    BY <2>1, EndKeeps DEF Unfinished
<1>7. CASE CleanUpBreaks(l)
  BY <1>7, EndKeeps DEF CleanUpBreaks, Unfinished, Ended
<1> QED
  BY <1>2, <1>3, <1>4, <1>5, <1>6, <1>7 DEF Task

-----------------------------------------------------------------------------
(* The steps of the request.                                               *)

\* A reply that changes nothing else and is not an answer.
LEMMA ReplyKeeps ==
  ASSUME Inv, NEW outcome \in {"refused", "error", "deadline", "internal"}, Reply(outcome),
         UNCHANGED <<link, ending, raised, page, artifacts>>,
         AllEnded \/ raised # "none",
         outcome = "error" => NoneStarted,
         outcome = "internal" => NoneStarted \/ raised = "internal"
  PROVE  Inv'
<1>1. pc' = "over" /\ result' = outcome
  BY DEF Reply
<1>2. TypeOK'
  BY <1>1 DEF Inv, TypeOK
<1>3. PageFirst' /\ OverForAReason'
  BY <1>1 DEF PageFirst, OverForAReason, AllEnded, NoneStarted
<1>4. CleansUpForAReason' /\ FirstRaised' /\ CancelledTogether'
  BY DEF Inv, CleansUpForAReason, FirstRaised, CancelledTogether, Expiring
<1> QED
  BY <1>2, <1>3, <1>4 DEF Inv

\* resolve begins.
LEMMA BeginKeeps ==
  ASSUME Inv, Begin
  PROVE  Inv'
<1>1. AllEnded /\ NoneStarted
  BY DEF Begin, Inv, PageFirst, AllEnded, NoneStarted, Unfinished
<1>2. CASE \E outcome \in {"refused", "internal"} : Reply(outcome)
  <2>1. PICK outcome \in {"refused", "internal"} : Reply(outcome)
    BY <1>2
  <2> QED
    BY <1>1, <2>1, ReplyKeeps DEF Begin
<1>3. CASE pc' = "page" /\ UNCHANGED result
  <2>1. TypeOK' /\ PageFirst' /\ OverForAReason'
    BY <1>1, <1>3 DEF Begin, Inv, TypeOK, PageFirst, NoneStarted, OverForAReason, Expiring
  <2>2. CleansUpForAReason' /\ FirstRaised' /\ CancelledTogether'
    BY DEF Begin, Inv, CleansUpForAReason, FirstRaised, CancelledTogether, Expiring
  <2> QED
    BY <2>1, <2>2 DEF Inv
<1> QED
  BY <1>2, <1>3 DEF Begin

\* The release page, or one of its controls, cannot be read.
LEMMA PageFailsKeeps ==
  ASSUME Inv, PageFails \/ ControlMalformed
  PROVE  Inv'
<1>1. AllEnded /\ NoneStarted
  BY DEF PageFails, ControlMalformed, Inv, PageFirst, AllEnded, NoneStarted, Unfinished
<1>2. PICK outcome \in {"error", "internal"} : Reply(outcome)
  BY DEF PageFails, ControlMalformed
<1> QED
  BY <1>1, <1>2, ReplyKeeps DEF PageFails, ControlMalformed

\* The release page is read, and a task created for each of its links.
LEMMA PageReadKeeps ==
  ASSUME Inv, PageRead
  PROVE  Inv'
<1>1. /\ raised = "none" /\ ~Expiring /\ result = "none"
      /\ pc' = "gathering" /\ UNCHANGED <<ending, raised, page, artifacts, result>>
  BY DEF PageRead, Inv, PageFirst, OverForAReason
<1>2. PICK wrapped \in SUBSET Links :
        link' = [l \in Links |-> IF l \in wrapped THEN "queued" ELSE "absent"]
  BY DEF PageRead
<1>3. \A l \in Links : link'[l] \in {"queued", "absent"}
  BY <1>2
<1>4. TypeOK'
  BY <1>1, <1>2 DEF Inv, TypeOK, Unfinished
<1>5. ~Expiring'
  BY <1>1, <1>3 DEF Expiring
<1>6. PageFirst' /\ OverForAReason'
  BY <1>1 DEF PageFirst, OverForAReason
<1>7. CleansUpForAReason' /\ FirstRaised' /\ CancelledTogether'
  BY <1>1, <1>3, <1>5 DEF CleansUpForAReason, FirstRaised, CancelledTogether
<1> QED
  BY <1>4, <1>6, <1>7 DEF Inv

\* gather has every result.
LEMMA GatheredKeeps ==
  ASSUME Inv, Gathered
  PROVE  Inv'
<1>1. PICK release \in Pages : Release(release, Offered(release))
  BY DEF Gathered
<1>2. /\ pc' = "over" /\ raised = "none" /\ AllEnded
      /\ page' = release /\ artifacts' = Offered(release)
      /\ result' = ReleaseOf(release, Offered(release))
      /\ UNCHANGED <<link, ending, raised>>
  BY <1>1 DEF Gathered, GatherReturns, Release, Reply
<1>3. result' \in {"layout", "internal", "artifacts"}
  BY <1>2 DEF ReleaseOf
<1>4. artifacts' \in [Groups -> SUBSET Links]
  BY <1>2 DEF Offered, Pages
<1>5. TypeOK'
  BY <1>2, <1>3, <1>4 DEF Inv, TypeOK
<1>6. Assembled'
  BY <1>2 DEF Assembled, Offered, AllEnded
<1>7. PageFirst' /\ OverForAReason'
  BY <1>2, <1>3, <1>6 DEF PageFirst, OverForAReason, AllEnded
<1>8. CleansUpForAReason' /\ FirstRaised' /\ CancelledTogether'
  BY <1>2 DEF Inv, CleansUpForAReason, FirstRaised, CancelledTogether, Expiring
<1> QED
  BY <1>5, <1>7, <1>8 DEF Inv

\* gather raises what the first task raised.
LEMMA GatherRaisesKeeps ==
  ASSUME Inv, GatherRaises
  PROVE  Inv'
BY ReplyKeeps DEF GatherRaises, Inv, TypeOK

\* The deadline: the request ends at once, or its tasks are cancelled together.
LEMMA ExpireKeeps ==
  ASSUME Inv, Expire
  PROVE  Inv'
<1>1. CASE /\ pc = "page" \/ (pc = "gathering" /\ (AllEnded \/ raised # "none"))
           /\ Reply("deadline")
           /\ UNCHANGED <<link, ending, raised, page, artifacts>>
  <2>1. AllEnded \/ raised # "none"
    BY <1>1 DEF Inv, PageFirst, NoneStarted, AllEnded, Unfinished
  <2> QED
    BY <1>1, <2>1, ReplyKeeps
<1>2. CASE pc = "gathering" /\ ~AllEnded /\ raised = "none" /\ CancelTasks /\ UNCHANGED request
  <2> DEFINE hit == {l \in Links : link[l] \in {"queued", "validating", "closing"}}
  <2>1. /\ link' = [l \in Links |-> IF l \in hit THEN "cancelled"
                                 ELSE IF link[l] = "sending" THEN "closing" ELSE link[l]]
        /\ ending' = [l \in Links |-> IF link[l] = "sending" THEN "cancelled" ELSE ending[l]]
        /\ raised' = IF hit # {} THEN "cancelled" ELSE raised
    BY <1>2 DEF CancelTasks
  <2>2. TypeOK'
    BY <1>2, <2>1 DEF Inv, TypeOK, request, Unfinished, Ended, Endings
  <2>3. \A l \in Links :
          /\ link'[l] = IF link[l] \in {"queued", "validating", "closing"} THEN "cancelled"
                        ELSE IF link[l] = "sending" THEN "closing" ELSE link[l]
          /\ ending'[l] = IF link[l] = "sending" THEN "cancelled" ELSE ending[l]
    BY <2>1
  <2>4. \A l \in Links : link'[l] \notin Asking
    BY <2>3 DEF Asking
  <2>5. PageFirst' /\ CancelledTogether'
    BY <1>2, <2>4 DEF PageFirst, CancelledTogether, request
  <2>6. CleansUpForAReason'
    BY <2>3 DEF Inv, CleansUpForAReason, Endings
  <2>7. FirstRaised'
    <3>1. CASE hit = {}
      <4>1. raised' = "none" /\ \A l \in Links : link[l] \notin {"queued", "validating", "closing"}
        BY <1>2, <2>1, <3>1
      <4> QED
        BY <1>2, <2>3, <4>1 DEF Inv, FirstRaised
    <3>2. CASE hit # {}
      <4>1. PICK l \in Links : link[l] \in {"queued", "validating", "closing"}
        BY <3>2
      <4>2. raised' = "cancelled" /\ link'[l] = "cancelled"
        BY <2>1, <2>3, <3>2, <4>1
      <4> QED
        BY <4>2 DEF FirstRaised, Expiring
    <3> QED
      BY <3>1, <3>2
  <2>8. OverForAReason'
    BY <1>2 DEF Inv, OverForAReason, request
  <2> QED
    BY <2>2, <2>5, <2>6, <2>7, <2>8 DEF Inv
<1> QED
  BY <1>1, <1>2 DEF Expire

-----------------------------------------------------------------------------
(* The inductive invariant of a resolve request, and what follows from it. *)

\* Nothing has begun.
LEMMA InitEstablishes ==
  ASSUME Init
  PROVE  Inv
<1>1. TypeOK
  BY DEF Init, TypeOK, Pages, NoControls, Endings
<1>2. PageFirst /\ CleansUpForAReason /\ FirstRaised /\ CancelledTogether /\ OverForAReason
  BY DEF Init, PageFirst, NoneStarted, CleansUpForAReason, FirstRaised, CancelledTogether,
         OverForAReason, Expiring
<1> QED
  BY <1>1, <1>2 DEF Inv

\* Every step keeps the invariant.
LEMMA NextKeeps ==
  ASSUME Inv, [Next]_vars
  PROVE  Inv'
<1>1. CASE Begin
  BY <1>1, BeginKeeps
<1>2. CASE PageFails \/ ControlMalformed
  BY <1>2, PageFailsKeeps
<1>3. CASE PageRead
  BY <1>3, PageReadKeeps
<1>4. CASE Gathered
  BY <1>4, GatheredKeeps
<1>5. CASE GatherRaises
  BY <1>5, GatherRaisesKeeps
<1>6. CASE Expire
  BY <1>6, ExpireKeeps
<1>7. CASE \E l \in Links : Task(l)
  BY <1>7, TasksKeep
<1>8. CASE UNCHANGED vars
  <2>1. UNCHANGED <<pc, link, ending, raised, page, artifacts, result>>
    BY <1>8 DEF vars
  <2>2. TypeOK' /\ PageFirst' /\ CleansUpForAReason' /\ FirstRaised' /\ CancelledTogether'
    BY <2>1 DEF Inv, TypeOK, PageFirst, NoneStarted, CleansUpForAReason, FirstRaised,
                CancelledTogether, Expiring
  <2>3. OverForAReason'
    BY <2>1 DEF Inv, OverForAReason, NoneStarted, Assembled, AllEnded, Offered, ReleaseOf
  <2> QED
    BY <2>2, <2>3 DEF Inv
<1> QED
  BY <1>1, <1>2, <1>3, <1>4, <1>5, <1>6, <1>7, <1>8 DEF Next

\* A task is where the request's own state, the deadline and the limiter let it be:
\* Inv, of every reachable state of resolve and its tasks.
THEOREM TasksKeepTheirPlace == Spec => []Inv
<1>1. Init => Inv
  BY InitEstablishes
<1>2. Inv /\ [Next]_vars => Inv'
  BY NextKeeps
<1> QED
  BY <1>1, <1>2, PTL DEF Spec

\* What is assembled is what is left, and the reply says whether it fits.
LEMMA AssembledKnown ==
  ASSUME Inv, Assembled
  PROVE  /\ artifacts = [g \in Groups |-> Left(g)]
         /\ result = "layout" => ~page.known \/ \A g \in Groups : Left(g) = {}
         /\ result = "internal" => page.known /\ TooMuch
         /\ result = "artifacts" => page.known /\ ~TooMuch /\ \E g \in Groups : artifacts[g] # {}
<1> DEFINE filled == {g \in Groups : Left(g) # {}}
<1>1. artifacts = [g \in Groups |-> Left(g)]
  BY DEF Assembled, Offered, Left
<1>2. Nonempty(artifacts) = filled
  BY <1>1 DEF Nonempty
<1>3. page.odd \subseteq Groups
  BY DEF Inv, TypeOK, Pages
<1>4. \A g \in Groups : Cardinality(Left(g)) > MaxMirrors => Left(g) # {}
  BY FS_EmptySet, LinksAssumption DEF LinksAssumption
<1>5. TooMuch <=> \/ \E g \in filled : Cardinality(artifacts[g]) > MaxMirrors \/ g \in page.odd
                  \/ Cardinality(filled) > MaxArtifacts
  BY <1>1, <1>3, <1>4 DEF TooMuch
<1>6. result = IF ~page.known \/ filled = {} THEN "layout"
               ELSE IF TooMuch THEN "internal" ELSE "artifacts"
  BY <1>2, <1>5 DEF Assembled, ReleaseOf
<1> QED
  BY <1>1, <1>6

\* A failure of one link leaves the others' results.
LEMMA InvImpliesLocal == Inv => FailureIsLocal
<1> SUFFICES ASSUME Inv PROVE FailureIsLocal
  OBVIOUS
<1>1. result = "error" => \A l \in Links : link[l] = "absent"
  BY DEF Inv, OverForAReason, NoneStarted
<1>2. result = "internal" =>
        \/ \A l \in Links : link[l] = "absent"
        \/ raised = "internal" /\ \E l \in Links : link[l] = "broken"
        \/ page.known /\ TooMuch
  BY AssembledKnown DEF Inv, OverForAReason, FirstRaised, NoneStarted
<1>3. result = "layout" => ~page.known \/ \A g \in Groups : Left(g) = {}
  BY AssembledKnown DEF Inv, OverForAReason
<1>4. ASSUME result = "artifacts", NEW l \in Links
      PROVE  link[l] \in {"absent", "resolved", "dropped"}
  <2>1. link[l] \notin Unfinished /\ link[l] \notin {"broken", "cancelled"}
    BY <1>4 DEF Inv, OverForAReason, Assembled, FirstRaised, AllEnded
  <2>2. link[l] \in {"absent"} \union Unfinished \union Ended
    BY DEF Inv, TypeOK
  <2> QED
    BY <2>1, <2>2 DEF Ended
<1>5. result = "artifacts" =>
        /\ page.known /\ ~TooMuch
        /\ artifacts = [g \in Groups |-> Left(g)]
        /\ \E g \in Groups : artifacts[g] # {}
  BY AssembledKnown DEF Inv, OverForAReason
<1> QED
  BY <1>1, <1>2, <1>3, <1>4, <1>5 DEF FailureIsLocal

\* After the reply no task is at work.
LEMMA InvImpliesNoStragglers == Inv => NoStragglers
<1> SUFFICES ASSUME Inv, pc = "over", NEW l \in Links, link[l] \in Asking
             PROVE  raised = "internal"
  BY DEF NoStragglers, Asking
<1>1. ~AllEnded /\ ~Expiring
  BY DEF Inv, CancelledTogether, AllEnded, Asking, Unfinished
<1> QED
  BY <1>1 DEF Inv, TypeOK, OverForAReason, FirstRaised

(* A link that cannot be unwrapped costs a resolve request only itself: the *)
(* request fails as a whole only before any link is asked, for a task that  *)
(* raised what is no RuntimeError, or for a release that the contract has   *)
(* no room for (resolve, resolve_source_redirect, parse_release_html).      *)
THEOREM LinksFailAlone == Spec => []FailureIsLocal
BY TasksKeepTheirPlace, InvImpliesLocal, PTL

(* No task asks the source behind a reply, unless another raised what is   *)
(* no RuntimeError (_resolve_link under asyncio.gather).                   *)
THEOREM NobodyAsksBehindTheReply == Spec => []NoStragglers
BY TasksKeepTheirPlace, InvImpliesNoStragglers, PTL

-----------------------------------------------------------------------------
(* The semaphore, and the provider that serves searches besides.           *)

\* Every other step takes tasks from under the semaphore or leaves them there.
LEMMA OnlyAcquireAdmits ==
  ASSUME Inv, [Next]_vars, \A l \in Links : ~Acquire(l)
  PROVE  Holders' \subseteq Holders
<1> SUFFICES ASSUME NEW m \in Links, link'[m] \in {"validating", "sending", "closing"}
             PROVE  link[m] \in {"validating", "sending", "closing"}
  BY DEF Holders
<1>1. link \in [Links -> {"absent"} \union Unfinished \union Ended]
  BY DEF Inv, TypeOK
<1>2. CASE UNCHANGED link
  BY <1>2
<1>3. CASE PageRead
  BY <1>3 DEF PageRead
<1>4. CASE CancelTasks
  BY <1>4 DEF CancelTasks
<1>5. ASSUME NEW l \in Links, Task(l)
      PROVE  link[m] \in {"validating", "sending", "closing"}
  <2>1. ASSUME NEW how, link' = [link EXCEPT ![l] = how],
               how \in Ended \/ link[l] \in {"validating", "sending"}
        PROVE  link[m] \in {"validating", "sending", "closing"}
    BY <1>1, <2>1 DEF Ended
  <2>2. CASE LinkRejected(l)
    BY <2>1, <2>2 DEF LinkRejected, End, Ended
  <2>3. CASE LinkAccepted(l)
    BY <2>1, <2>3 DEF LinkAccepted
  <2>4. CASE LinkAnswered(l)
    BY <2>1, <2>4 DEF LinkAnswered, CleanUp
  <2>5. CASE CleanedUp(l)
    BY <2>1, <2>5 DEF CleanedUp, End, Inv, CleansUpForAReason, Endings, Ended
  <2>6. CASE CleanUpBreaks(l)
    BY <2>1, <2>6 DEF CleanUpBreaks, End, Ended
  <2> QED
    BY <1>5, <2>2, <2>3, <2>4, <2>5, <2>6 DEF Task
<1> QED
  BY <1>2, <1>3, <1>4, <1>5
  DEF Next, vars, Begin, PageFails, ControlMalformed, Gathered, Release, GatherRaises, Expire

\* Every step keeps the holders of the limiter within its bound.
LEMMA LimiterKeeps ==
  ASSUME LinksAssumption, Inv, LimiterHolds, [Next]_vars
  PROVE  LimiterHolds'
<1>1. IsFiniteSet(Holders)
  BY FS_Subset DEF Holders, LinksAssumption
<1>2. CASE \E l \in Links : Acquire(l)
  <2>1. PICK l \in Links : Acquire(l)
    BY <1>2
  <2>2. Holders' = Holders \union {l} /\ l \notin Holders
    BY <2>1 DEF Acquire, Holders, Inv, TypeOK
  <2>3. Cardinality(Holders') = Cardinality(Holders) + 1
    BY <1>1, <2>2, FS_AddElement
  <2>4. Cardinality(Holders) < MaxConcurrency /\ Cardinality(Holders) \in Nat
    BY <1>1, <2>1, FS_CardinalityType DEF Acquire
  <2> QED
    BY <2>3, <2>4 DEF LimiterHolds, LinksAssumption
<1>3. CASE \A l \in Links : ~Acquire(l)
  <2>1. Holders' \subseteq Holders
    BY <1>3, OnlyAcquireAdmits
  <2>2. /\ Cardinality(Holders') <= Cardinality(Holders)
        /\ Cardinality(Holders') \in Nat /\ Cardinality(Holders) \in Nat
    BY <1>1, <2>1, FS_Subset, FS_CardinalityType
  <2> QED
    BY <2>2 DEF LimiterHolds, LinksAssumption
<1> QED
  BY <1>2, <1>3

(* No more links are asked at once than _MAX_REDIRECT_CONCURRENCY, also    *)
(* when tasks run on behind the reply or are cancelled in the middle.      *)
THEOREM SlotsStayBounded == Spec => []LimiterHolds
<1>1. Init => LimiterHolds
  <2> SUFFICES ASSUME Init PROVE LimiterHolds
    OBVIOUS
  <2>1. Holders = {}
    BY DEF Init, Holders
  <2> QED
    BY <2>1, FS_EmptySet, LinksAssumption DEF LimiterHolds, LinksAssumption
<1>2. Inv /\ LimiterHolds /\ [Next]_vars => LimiterHolds'
  BY LimiterKeeps, LinksAssumption
<1> QED
  BY <1>1, <1>2, TasksKeepTheirPlace, PTL DEF Spec

\* A resolve request does not notice that its provider searches as well.
LEMMA ServiceResolves == ServiceSpec => Spec
<1>1. ServiceInit => Init
  BY DEF ServiceInit
<1>2. [ServiceNext]_<<endpoint, vars, searchVars>> => [Next]_vars
  BY DEF ServiceNext, ResolveStep, SearchStep
<1> QED
  BY <1>1, <1>2, PTL DEF ServiceSpec, Spec

(* What a resolve request promises, it promises in the provider that also  *)
(* serves searches.                                                        *)
THEOREM ServiceKeepsItsPromises ==
  ServiceSpec => []FailureIsLocal /\ []NoStragglers /\ []LimiterHolds
BY ServiceResolves, LinksFailAlone, NobodyAsksBehindTheReply, SlotsStayBounded, PTL

-----------------------------------------------------------------------------
(* Searches.  What a search found so far is two lists without a common     *)
(* release; a response is a rearrangement of both.                         *)

\* What is counted and selected there is the same here.
LEMMA SameCount ==
  ASSUME NEW S
  PROVE  Search!Cardinality(S) = Cardinality(S)
BY DEF Search!Cardinality, Cardinality

\* The instance's list operators are those that SubsequenceProofs is about.
LEMMA SameLists ==
  ASSUME NEW s, NEW P, NEW count, NEW D
  PROVE  /\ Search!Selected(s, P) = Selected(s, P)
         /\ Search!Firsts(s) = Firsts(s)
         /\ Search!NewFirsts(s, D) = NewFirsts(s, D)
         /\ Search!First(s, count) = First(s, count)
<1>1. \A k : Search!Place(P, k) = Place(P, k)
  BY DEF Search!Place, Place, Search!Cardinality, Cardinality
<1>0. Search!Cardinality(P) = Cardinality(P)
  BY SameCount
<1>2. Search!Selected(s, P) = Selected(s, P)
  BY <1>0, <1>1 DEF Search!Selected, Selected
<1>3. Search!Firsts(s) = Firsts(s)
  BY DEF Search!Firsts, Firsts
<1>4. Search!NewFirsts(s, D) = NewFirsts(s, D)
  BY <1>3 DEF Search!NewFirsts, NewFirsts
<1>5. Search!First(s, count) = First(s, count)
  BY DEF Search!First, First
<1> QED
  BY <1>2, <1>3, <1>4, <1>5

Lists == Seq(Search!Candidate)

\* No release is named twice.
Differ(s) == \A i, j \in 1..Len(s) : s[i].id = s[j].id => i = j

\* Two lists without a common release.
LEMMA BothDiffer ==
  ASSUME NEW s \in Lists, NEW t \in Lists, Differ(s), Differ(t),
         Search!IdsOf(s) \cap Search!IdsOf(t) = {}
  PROVE  /\ s \o t \in Lists /\ Differ(s \o t)
         /\ Search!IdsOf(s \o t) = Search!IdsOf(s) \union Search!IdsOf(t)
         /\ Len(s) \in Nat /\ Len(s \o t) = Len(s) + Len(t)
         /\ \A i \in 1..Len(s \o t) :
              \/ i \in 1..Len(s) /\ (s \o t)[i] = s[i]
              \/ i > Len(s) /\ i - Len(s) \in 1..Len(t) /\ (s \o t)[i] = t[i - Len(s)]
<1> DEFINE u == s \o t
<1>1. /\ Len(s) \in Nat /\ Len(t) \in Nat /\ u \in Lists /\ Len(u) = Len(s) + Len(t)
      /\ DOMAIN s = 1..Len(s) /\ DOMAIN t = 1..Len(t) /\ DOMAIN u = 1..Len(u)
      /\ \A i \in 1..Len(u) : u[i] = IF i <= Len(s) THEN s[i] ELSE t[i - Len(s)]
  BY ConcatProperties DEF Lists
<1> HIDE DEF u
<1>2. \A i \in 1..Len(s) : i \in 1..Len(u) /\ u[i] = s[i]
  BY <1>1
<1>3. \A i \in 1..Len(t) : i + Len(s) \in 1..Len(u) /\ u[i + Len(s)] = t[i]
  BY <1>1
<1>4. \A i \in 1..Len(u) :
        \/ i \in 1..Len(s) /\ u[i] = s[i]
        \/ i > Len(s) /\ i - Len(s) \in 1..Len(t) /\ u[i] = t[i - Len(s)]
  BY <1>1
<1>5. Search!IdsOf(u) = Search!IdsOf(s) \union Search!IdsOf(t)
  <2>1. \A x \in Search!IdsOf(u) : x \in Search!IdsOf(s) \union Search!IdsOf(t)
    BY <1>1, <1>4 DEF Search!IdsOf
  <2>2. \A x \in Search!IdsOf(s) \union Search!IdsOf(t) : x \in Search!IdsOf(u)
    <3>1. \A i \in DOMAIN s : s[i].id \in Search!IdsOf(u)
      BY <1>1, <1>2 DEF Search!IdsOf
    <3>2. \A i \in DOMAIN t : t[i].id \in Search!IdsOf(u)
      <4> SUFFICES ASSUME NEW i \in 1..Len(t) PROVE t[i].id \in Search!IdsOf(u)
        BY <1>1
      <4>1. i + Len(s) \in DOMAIN u /\ u[i + Len(s)] = t[i]
        BY <1>1, <1>3
      <4> QED
        BY <4>1 DEF Search!IdsOf
    <3> QED
      BY <3>1, <3>2 DEF Search!IdsOf
  <2> QED
    BY <2>1, <2>2
<1>6. ASSUME NEW i \in 1..Len(u), NEW j \in 1..Len(u), u[i].id = u[j].id
      PROVE  i = j
  <2>1. \A k \in 1..Len(s), l \in 1..Len(t) : s[k].id # t[l].id
    BY <1>1 DEF Search!IdsOf
  <2>2. CASE i \in 1..Len(s) /\ j \in 1..Len(s)
    BY <1>2, <1>6, <2>2 DEF Differ
  <2>3. CASE i \notin 1..Len(s) /\ j \notin 1..Len(s)
    <3>0. /\ i - Len(s) \in 1..Len(t) /\ u[i] = t[i - Len(s)]
          /\ j - Len(s) \in 1..Len(t) /\ u[j] = t[j - Len(s)]
      BY <1>4, <2>3
    <3>1. i - Len(s) = j - Len(s)
      BY <1>6, <3>0 DEF Differ
    <3> QED
      BY <1>1, <3>1
  <2>4. CASE i \in 1..Len(s) /\ j \notin 1..Len(s)
    BY <1>4, <1>6, <2>1, <2>4
  <2>5. CASE i \notin 1..Len(s) /\ j \in 1..Len(s)
    BY <1>4, <1>6, <2>1, <2>5
  <2> QED
    BY <2>2, <2>3, <2>4, <2>5
<1> QED
  BY <1>1, <1>4, <1>5, <1>6 DEF Differ, u

\* A part of a list.
LEMMA PartDiffers ==
  ASSUME NEW s \in Lists, Differ(s), NEW P \in SUBSET (1..Len(s))
  PROVE  LET t == Search!Selected(s, P) IN
           /\ t \in Lists /\ Differ(t)
           /\ Search!IdsOf(t) = {s[i].id : i \in P}
           /\ \A k \in 1..Len(t) : \E i \in P : t[k] = s[i]
<1> DEFINE t == Selected(s, P)
<1>1. /\ t \in Lists /\ Len(t) \in Nat
      /\ \A k \in 1..Len(t) : Place(P, k) \in P /\ t[k] = s[Place(P, k)]
      /\ \A i \in P : \E k \in 1..Len(t) : Place(P, k) = i
      /\ \A k, l \in 1..Len(t) : k < l <=> Place(P, k) < Place(P, l)
  BY SelectedKnown DEF Lists
<1> HIDE DEF t
<1>2. DOMAIN t = 1..Len(t)
  BY <1>1 DEF Lists
<1>3. ASSUME NEW k \in 1..Len(t), NEW l \in 1..Len(t), t[k].id = t[l].id
      PROVE  k = l
  <2>1. Place(P, k) = Place(P, l) /\ Place(P, k) \in 1..Len(s)
    BY <1>1, <1>3 DEF Differ
  <2>2. ~(k < l) /\ ~(l < k)
    BY <1>1, <2>1
  <2> QED
    BY <1>1, <2>2
<1>4. Search!IdsOf(t) = {s[i].id : i \in P}
  <2>1. \A x \in Search!IdsOf(t) : \E i \in P : x = s[i].id
    BY <1>1, <1>2 DEF Search!IdsOf
  <2>2. \A i \in P : s[i].id \in Search!IdsOf(t)
    BY <1>1, <1>2 DEF Search!IdsOf
  <2> QED
    BY <2>1, <2>2
<1>5. Search!Selected(s, P) = t
  BY SameLists DEF t
<1> QED
  BY <1>1, <1>3, <1>4, <1>5 DEF Differ

\* The candidates of a page are different ones.
LEMMA PagesKnown ==
  ASSUME NEW p \in Search!Pages
  PROVE  p \in Lists /\ Differ(p)
<1>1. PICK n \in Nat : p \in [1..n -> Search!Candidate]
  BY SearchAssumption DEF Search!Pages, Search!BoundedSeq, Search!SeqOf
<1>2. p \in Lists /\ DOMAIN p = 1..Len(p)
  BY <1>1 DEF Lists
<1> QED
  BY <1>2 DEF Search!Pages, Differ

\* A list has as many releases as places.
LEMMA CountKnown ==
  ASSUME NEW s \in Lists, Differ(s)
  PROVE  Search!Cardinality(Search!IdsOf(s)) = Len(s)
<1> DEFINE D == 1..Len(s)
           T == Search!IdsOf(s)
           f == [i \in D |-> s[i].id]
<1>1. Len(s) \in Nat /\ DOMAIN s = D
  BY DEF Lists
<1>2. f \in [D -> T]
  BY <1>1 DEF Search!IdsOf
<1>3. \A i, j \in D : f[i] = f[j] => i = j
  BY DEF Differ
<1>4. \A x \in T : \E i \in D : f[i] = x
  BY <1>1 DEF Search!IdsOf
<1> HIDE DEF f, T, D
<1>5. f \in Bijection(D, T)
  BY <1>2, <1>3, <1>4 DEF Bijection, Injection, Surjection, IsInjective
<1>6. IsFiniteSet(D) /\ Cardinality(D) = Len(s)
  <2>1. \A n \in Nat : IsFiniteSet(1..n) /\ Cardinality(1..n) = n
    BY FS_Interval
  <2>2. Len(s) \in Nat
    BY <1>1
  <2> QED
    BY <2>1, <2>2 DEF D
<1>7. Cardinality(T) = Cardinality(D)
  BY <1>5, <1>6, FS_Bijection DEF ExistsBijection
<1> QED
  BY <1>6, <1>7, SameCount DEF T

\* A response names what the page holds, and says if that is not all.
LEMMA RespondKnown ==
  ASSUME NEW c \in Lists, Differ(c)
  PROVE  LET r == Search!Respond(c) IN
           /\ r.kind \in {"found", "empty"}
           /\ r.candidates \in Lists
           /\ Search!Cardinality(Search!IdsOf(r.candidates)) = Len(r.candidates)
           /\ \A i \in DOMAIN r.candidates : i \in 1..Len(c) /\ r.candidates[i] = c[i]
           /\ r.truncated <=> Len(c) > PageLimit
           /\ IF r.truncated
                THEN Len(r.candidates) = PageLimit
                     /\ Search!IdsOf(c) \ Search!IdsOf(r.candidates) # {}
                ELSE Search!IdsOf(r.candidates) = Search!IdsOf(c)
<1> DEFINE r == Search!Respond(c)
           n == PageLimit
           shown == First(c, n)
           spare == First(c, n + 1)
<1>0. DOMAIN c = 1..Len(c)
  BY DEF Lists
<1>1. n \in Nat /\ n # 0 /\ n + 1 \in Nat /\ Len(c) \in Nat
  BY SearchAssumption DEF Lists
<1>2. /\ r.kind \in {"found", "empty"} /\ r.candidates = shown
      /\ r.truncated <=> Len(spare) > n
  BY SameLists DEF Search!Respond, Search!Limit
<1>3. /\ shown \in Lists /\ Len(shown) = IF Len(c) < n THEN Len(c) ELSE n
      /\ \A i \in 1..Len(shown) : i \in 1..Len(c) /\ shown[i] = c[i]
  BY <1>1, FirstKnown DEF Lists
<1>4. Len(spare) = IF Len(c) < n + 1 THEN Len(c) ELSE n + 1
  BY <1>1, FirstKnown DEF Lists
<1> HIDE DEF shown, spare, r, n
<1>5. DOMAIN shown = 1..Len(shown)
  BY <1>3 DEF Lists
<1>6. Differ(shown)
  BY <1>3 DEF Differ
<1>7. Search!Cardinality(Search!IdsOf(shown)) = Len(shown)
  BY <1>3, <1>6, CountKnown
<1>8. r.truncated <=> Len(c) > n
  BY <1>1, <1>2, <1>4
<1>9. CASE Len(c) > n
  <2>1. Len(shown) = n /\ n + 1 \in 1..Len(c) /\ n + 1 \notin 1..Len(shown)
    BY <1>1, <1>3, <1>9
  <2>2. c[n + 1].id \notin Search!IdsOf(shown)
    <3> SUFFICES ASSUME NEW i \in 1..Len(shown), shown[i].id = c[n + 1].id PROVE FALSE
      BY <1>5 DEF Search!IdsOf
    <3>1. i \in 1..Len(c) /\ c[i].id = c[n + 1].id
      BY <1>3
    <3>2. i = n + 1
      BY <2>1, <3>1 DEF Differ
    <3> QED
      BY <2>1, <3>2
  <2>3. c[n + 1].id \in Search!IdsOf(c)
    BY <1>0, <2>1 DEF Search!IdsOf
  <2> QED
    BY <1>2, <1>3, <1>5, <1>7, <1>8, <1>9, <2>1, <2>2, <2>3 DEF r, n
<1>10. CASE ~(Len(c) > n)
  <2>1. Len(shown) = Len(c)
    BY <1>1, <1>3, <1>10
  <2>2. Search!IdsOf(shown) = Search!IdsOf(c)
    BY <1>0, <1>3, <1>5, <2>1 DEF Search!IdsOf
  <2> QED
    BY <1>2, <1>3, <1>5, <1>7, <1>8, <1>10, <2>2 DEF r, n
<1> QED
  BY <1>9, <1>10

\* The queries of an issue, of a collection, and of the packs of an issue.
LEMMA IssueQueriesCounted ==
  ASSUME NEW i
  PROVE  LET n == Len(Search!ExactIssueQueries(i)) IN n \in Nat /\ n >= 1
<1> DEFINE preferred == Search!PreferredYear(i)
           compatible == Search!CompatibilityYear(i)
           base == <<i.series, i.issue>>
           dated(year) == IF year = Absent THEN <<>> ELSE << Append(base, year) >>
           issues == dated(preferred) \o << base >> \o dated(compatible)
           E == {base, Append(base, preferred), Append(base, compatible)}
<1>1. CASE i.issue = Absent
  BY <1>1 DEF Search!ExactIssueQueries
<1>2. CASE i.issue # Absent
  <2>1. Search!ExactIssueQueries(i) = First(Selected(issues, Firsts(issues)), 3)
    BY <1>2, SameLists DEF Search!ExactIssueQueries, Search!Distinct
  <2>2. issues \in Seq(E) /\ Len(issues) \in Nat /\ 1 \in 1..Len(issues)
    <3>1. /\ dated(preferred) \in Seq(E) /\ dated(compatible) \in Seq(E) /\ <<base>> \in Seq(E)
      <4> DEFINE d1 == Append(base, preferred)
                 d2 == Append(base, compatible)
      <4>1. d1 \in E /\ d2 \in E /\ base \in E
        OBVIOUS
      <4> HIDE DEF base, d1, d2, E
      <4>2. <<d1>> \in Seq(E) /\ <<d2>> \in Seq(E) /\ <<base>> \in Seq(E) /\ <<>> \in Seq(E)
        BY <4>1
      <4> DEFINE Q == Seq(E)
      <4>3. <<d1>> \in Q /\ <<d2>> \in Q /\ <<>> \in Q
        BY <4>2
      <4> HIDE DEF Q, preferred, compatible
      <4>4. dated(preferred) \in Q /\ dated(compatible) \in Q
        BY <4>3 DEF d1, d2
      <4> QED
        BY <4>2, <4>4 DEF Q
    <3> DEFINE p == dated(preferred)
               q == dated(compatible)
    <3> HIDE DEF p, q, base, E
    <3>2. p \in Seq(E) /\ q \in Seq(E) /\ <<base>> \in Seq(E) /\ Len(<<base>>) = 1
      BY <3>1 DEF p, q
    <3>3. p \o <<base>> \in Seq(E) /\ Len(p \o <<base>>) = Len(p) + 1 /\ Len(p) \in Nat /\ Len(q) \in Nat
      BY <3>2, ConcatProperties
    <3>4. (p \o <<base>>) \o q \in Seq(E) /\ Len((p \o <<base>>) \o q) = Len(p) + 1 + Len(q)
      BY <3>2, <3>3, ConcatProperties
    <3> QED
      BY <3>3, <3>4 DEF p, q
  <2> HIDE DEF issues, E
  <2>3. PICK j \in Firsts(issues) : TRUE
    BY <2>2, FirstOccurs
  <2>4. Firsts(issues) \in SUBSET (1..Len(issues))
    BY <2>2 DEF Firsts
  <2> DEFINE P == Firsts(issues)
             t == Selected(issues, P)
  <2>5. t \in Seq(E) /\ Len(t) \in Nat /\ \E k \in 1..Len(t) : Place(P, k) = j
    <3> HIDE DEF P
    <3>1. issues \in Seq(E) /\ P \in SUBSET (1..Len(issues))
      BY <2>2, <2>4 DEF P
    <3>2. /\ t \in Seq(E) /\ Len(t) \in Nat
          /\ \A k \in P : \E l \in 1..Len(t) : Place(P, l) = k
      BY <3>1, SelectedKnown
    <3>3. j \in P
      BY <2>3 DEF P
    <3> QED
      BY <3>2, <3>3
  <2> HIDE DEF t
  <2>6. Len(t) >= 1
    BY <2>5
  <2>7. Len(First(t, 3)) = IF Len(t) < 3 THEN Len(t) ELSE 3
    <3>1. 3 \in Nat
      OBVIOUS
    <3> QED
      BY <2>5, <3>1, FirstKnown
  <2> QED
    BY <2>1, <2>5, <2>6, <2>7 DEF t
<1> QED
  BY <1>1, <1>2

\* What a collection could be asked for: up to three queries by its title, and
\* some that are added.
LEMMA CollectionPartsKnown ==
  ASSUME NEW i
  PROVE  LET titled == Search!TitledQueries(i)
             added == Search!AddedQueries(i) IN
           /\ Len(titled) \in Nat /\ 1 <= Len(titled) /\ Len(titled) <= 3
           /\ Len(added) \in Nat
           /\ \E E : titled \in Seq(E) /\ added \in Seq(E)
<1> DEFINE titled == Search!TitledQueries(i)
           added == Search!AddedQueries(i)
           number == Search!Either(i.volume, i.issue)
           released == Search!Either(i.release, i.year)
           a1 == Search!BuildQuery(i)
           a2 == <<i.series>> \o i.title
           a3 == <<i.series, "Vol", number>>
           a4 == <<i.series, "Volume", number>>
           b1 == <<i.series, "Vol", i.titleNumber>>
           b2 == <<i.series, "Volume", i.titleNumber>>
           b3 == Search!Known(<<i.series, released>>)
           b4 == <<i.series, i.seriesYear>>
           A == {a1, a2, a3, a4, b1, b2, b3, b4}
<1>1. titled = IF i.title = Absent THEN <<a1>>
               ELSE <<a2>> \o (IF number = Absent THEN <<>>
                               ELSE <<a3>> \o (IF i.spelled THEN <<a4>> ELSE <<>>))
  BY DEF Search!TitledQueries
<1>2. added = (IF i.titleNumber = Absent THEN <<>> ELSE <<b1, b2>>)
              \o (IF i.volume = Absent THEN <<>>
                  ELSE <<b3>> \o (IF i.seriesYear \in {Absent, released} THEN <<>> ELSE <<b4>>))
  BY DEF Search!AddedQueries
<1> HIDE DEF a1, a2, a3, a4, b1, b2, b3, b4, titled, added, number, released
<1>3. titled \in Seq(A) /\ Len(titled) \in Nat /\ Len(titled) >= 1 /\ Len(titled) <= 3
  <2>1. CASE i.title = Absent
    <3>1. titled = <<a1>>
      BY <1>1, <2>1
    <3> QED
      BY <3>1
  <2>2. CASE i.title # Absent /\ number = Absent
    <3>1. titled = <<a2>> \o <<>>
      BY <1>1, <2>2
    <3> QED
      BY <3>1
  <2>3. CASE i.title # Absent /\ number # Absent /\ i.spelled
    <3>1. titled = <<a2>> \o (<<a3>> \o <<a4>>)
      BY <1>1, <2>3
    <3> QED
      BY <3>1
  <2>4. CASE i.title # Absent /\ number # Absent /\ ~i.spelled
    <3>1. titled = <<a2>> \o (<<a3>> \o <<>>)
      BY <1>1, <2>4
    <3> QED
      BY <3>1
  <2> QED
    BY <2>1, <2>2, <2>3, <2>4
<1>4. added \in Seq(A) /\ Len(added) \in Nat
  <2> DEFINE p == IF i.titleNumber = Absent THEN <<>> ELSE <<b1, b2>>
             q == IF i.volume = Absent THEN <<>>
                  ELSE <<b3>> \o (IF i.seriesYear \in {Absent, released} THEN <<>> ELSE <<b4>>)
  <2>0. <<>> \in Seq(A) /\ <<b1, b2>> \in Seq(A) /\ <<b3>> \in Seq(A) /\ <<b4>> \in Seq(A)
    OBVIOUS
  <2>1. p \in Seq(A)
    <3> DEFINE Q == Seq(A)
    <3>1. <<>> \in Q /\ <<b1, b2>> \in Q
      BY <2>0
    <3> HIDE DEF Q
    <3>2. p \in Q
      BY <3>1
    <3> QED
      BY <3>2 DEF Q
  <2>2. q \in Seq(A)
    <3>1. <<b3>> \in Seq(A) /\ (IF i.seriesYear \in {Absent, released} THEN <<>> ELSE <<b4>>) \in Seq(A)
      <4> DEFINE Q == Seq(A)
      <4>1. <<>> \in Q /\ <<b4>> \in Q
        BY <2>0
      <4> HIDE DEF Q
      <4>2. (IF i.seriesYear \in {Absent, released} THEN <<>> ELSE <<b4>>) \in Q
        BY <4>1
      <4> QED
        BY <2>0, <4>2 DEF Q
    <3>2. <<b3>> \o (IF i.seriesYear \in {Absent, released} THEN <<>> ELSE <<b4>>) \in Seq(A)
      BY <3>1, ConcatProperties
    <3>3. <<>> \in Seq(A)
      OBVIOUS
    <3> HIDE DEF A
    <3> QED
      BY <3>2, <3>3
  <2> HIDE DEF p, q, A
  <2> QED
    BY <1>2, <2>1, <2>2 DEF p, q
<1> HIDE DEF A
<1> QED
  BY <1>3, <1>4 DEF titled, added

\* A collection is asked for by at least one query (_build_queries).
LEMMA CollectionQueriesCounted ==
  ASSUME NEW i
  PROVE  LET n == Len(Search!CollectionQueries(i)) IN n \in Nat /\ n >= 1
<1> DEFINE titled == Search!TitledQueries(i)
           added == Search!AddedQueries(i)
<1>1. /\ Len(titled) \in Nat /\ Len(titled) >= 1 /\ Len(added) \in Nat
      /\ \E E : titled \in Seq(E) /\ added \in Seq(E)
  BY CollectionPartsKnown
<1>0. PICK E : titled \in Seq(E) /\ added \in Seq(E)
  BY <1>1
<1> DEFINE P == NewFirsts(added, Search!Range(titled))
           t == Selected(added, P)
           all == titled \o t
<1>2. Search!CollectionQueries(i) = First(all, 5)
  BY SameLists DEF Search!CollectionQueries
<1> HIDE DEF titled, added
<1>3. P \in SUBSET (1..Len(added))
  BY <1>0 DEF NewFirsts, Firsts
<1> HIDE DEF P
<1>4. t \in Seq(E)
  BY <1>0, <1>3, SelectedKnown
<1> HIDE DEF t
<1>5. all \in Seq(E) /\ Len(all) = Len(titled) + Len(t) /\ Len(t) \in Nat
  BY <1>0, <1>4, ConcatProperties
<1> HIDE DEF all
<1>6. Len(First(all, 5)) = IF Len(all) < 5 THEN Len(all) ELSE 5
  <2>1. 5 \in Nat
    OBVIOUS
  <2> QED
    BY <1>5, <2>1, FirstKnown
<1>7. Len(all) \in Nat /\ Len(all) >= 1
  BY <1>1, <1>5
<1>8. Len(First(all, 5)) \in Nat /\ Len(First(all, 5)) >= 1
  BY <1>6, <1>7
<1> QED
  BY <1>2, <1>8

\* Only an issue is broadened to packs (_standard_issue_fallback_queries).
LEMMA FallbackQueriesCounted ==
  ASSUME NEW i
  PROVE  LET queries == Search!FallbackQueries(i) IN
           /\ Len(queries) \in Nat
           /\ queries = <<>> <=> Len(queries) = 0
           /\ i.collection => queries = <<>>
<1> DEFINE parts == <<Search!PreferredYear(i), Search!CompatibilityYear(i)>>
           known == Search!Known(parts)
           years == Search!Distinct(known)
           queries == Search!FallbackQueries(i)
           E == {Search!PreferredYear(i), Search!CompatibilityYear(i)}
<1>1. known \in Seq(E)
  <2> DEFINE P == {j \in DOMAIN parts : parts[j] # Absent}
  <2>1. parts \in Seq(E) /\ P \in SUBSET (1..Len(parts))
    OBVIOUS
  <2>2. known = Selected(parts, P)
    BY SameLists DEF Search!Known
  <2> HIDE DEF parts, P, E
  <2>3. Selected(parts, P) \in Seq(E)
    BY ONLY <2>1, SelectedKnown
  <2> QED
    BY <2>2, <2>3
<1> HIDE DEF known, E
<1>2. years \in Seq(E)
  <2>1. Firsts(known) \in SUBSET (1..Len(known))
    BY <1>1 DEF Firsts
  <2>2. years = Selected(known, Firsts(known))
    BY SameLists DEF Search!Distinct
  <2> QED
    BY <1>1, <2>1, <2>2, SelectedKnown
<1>3. Len(years) \in Nat /\ DOMAIN years = 1..Len(years) /\ (years # <<>> => Len(years) # 0)
  BY <1>2, EmptySeq
<1>4. queries = IF i.collection \/ i.issue = Absent THEN <<>>
                ELSE IF years = <<>> THEN << <<i.series>> >>
                ELSE [j \in DOMAIN years |-> <<i.series, years[j]>>]
  BY DEF Search!FallbackQueries, known
<1> HIDE DEF years
<1>5. CASE i.collection \/ i.issue = Absent
  BY <1>4, <1>5
<1>6. CASE ~(i.collection \/ i.issue = Absent) /\ years = <<>>
  BY <1>4, <1>6
<1>7. CASE ~(i.collection \/ i.issue = Absent) /\ years # <<>>
  <2> DEFINE Q == {<<i.series, years[j]>> : j \in 1..Len(years)}
  <2>1. queries = [j \in 1..Len(years) |-> <<i.series, years[j]>>]
    BY <1>3, <1>4, <1>7
  <2>2. Len(queries) = Len(years)
    BY <1>3, <2>1
  <2> QED
    BY <1>3, <1>7, <2>2
<1> QED
  BY <1>5, <1>6, <1>7

\* Every search asks at least once.
LEMMA QueriesCounted ==
  ASSUME NEW i
  PROVE  /\ Len(Search!ExactQueries(i)) \in Nat /\ Len(Search!ExactQueries(i)) >= 1
         /\ Len(Search!FallbackQueries(i)) \in Nat
         /\ Search!FallbackQueries(i) = <<>> <=> Len(Search!FallbackQueries(i)) = 0
         /\ i.collection => Search!FallbackQueries(i) = <<>>
BY IssueQueriesCounted, CollectionQueriesCounted, FallbackQueriesCounted DEF Search!ExactQueries

\* Dropping repeats of a list that is no longer than its limit: each element is
\* kept once, the first one in front, and no later than its first occurrence.
LEMMA RepeatsDropped ==
  ASSUME NEW S, NEW s \in Seq(S)
  PROVE  LET t == Search!Distinct(s) IN
           /\ t \in Seq(S) /\ Len(t) \in Nat /\ Len(t) <= Len(s) /\ DOMAIN t = 1..Len(t)
           /\ \A k \in 1..Len(t) : \E i \in 1..Len(s) : t[k] = s[i]
           /\ \A k, l \in 1..Len(t) : t[k] = t[l] => k = l
           /\ \A i \in 1..Len(s) : \E k \in 1..Len(t) : t[k] = s[i]
           /\ \A i, j \in 1..Len(s) :
                i < j /\ (\A m \in 1..i : s[m] # s[j]) =>
                  \E k, l \in 1..Len(t) : k < l /\ t[k] = s[i] /\ t[l] = s[j]
           /\ Len(s) >= 1 => Len(t) >= 1 /\ t[1] = s[1]
<1> DEFINE P == NewFirsts(s, {})
           t == Selected(s, P)
<1>1. Search!Distinct(s) = t
  <2>1. P = Firsts(s)
    BY DEF NewFirsts
  <2> QED
    BY <2>1, SameLists DEF Search!Distinct
<1>2. /\ t \in Seq(S) /\ Len(t) \in Nat /\ Len(t) <= Len(s)
      /\ \A k \in 1..Len(t) : Place(P, k) \in 1..Len(s) /\ t[k] = s[Place(P, k)]
      /\ \A k, l \in 1..Len(t) : k < l <=> Place(P, k) < Place(P, l)
      /\ \A k, l \in 1..Len(t) : t[k] = t[l] => k = l
      /\ \A i \in 1..Len(s) : \E k \in 1..Len(t) : t[k] = s[i] /\ Place(P, k) <= i
  <2> HIDE DEF P, t
  <2>1. \A i \in 1..Len(s) : s[i] \notin {}
    OBVIOUS
  <2> QED
    BY <2>1, DistinctKnown DEF P, t
<1> HIDE DEF t, P
<1>3. DOMAIN t = 1..Len(t) /\ Len(s) \in Nat
  BY <1>2
<1>4. ASSUME NEW i \in 1..Len(s), NEW j \in 1..Len(s), i < j, \A m \in 1..i : s[m] # s[j]
      PROVE  \E k, l \in 1..Len(t) : k < l /\ t[k] = s[i] /\ t[l] = s[j]
  <2>1. PICK k \in 1..Len(t) : t[k] = s[i] /\ Place(P, k) <= i
    BY <1>2
  <2>2. PICK l \in 1..Len(t) : t[l] = s[j]
    BY <1>2
  <2>3. Place(P, l) \in 1..Len(s) /\ s[Place(P, l)] = s[j] /\ Place(P, k) \in 1..Len(s)
    BY <1>2, <2>2
  <2>4. Place(P, l) \notin 1..i
    BY <1>4, <2>3
  <2>5. Place(P, k) < Place(P, l)
    BY <1>3, <2>1, <2>3, <2>4
  <2> QED
    BY <1>2, <2>1, <2>2, <2>5
<1>5. ASSUME Len(s) >= 1 PROVE Len(t) >= 1 /\ t[1] = s[1]
  <2>0. 1 \in 1..Len(s)
    BY <1>3, <1>5
  <2>1. PICK k \in 1..Len(t) : t[k] = s[1] /\ Place(P, k) <= 1
    BY <1>2, <2>0
  <2>2. 1 \in 1..Len(t)
    BY <1>2, <2>1
  <2>3. Place(P, 1) \in 1..Len(s)
    BY <1>2, <2>2
  <2>4. ~(1 < k)
    BY <1>2, <1>3, <2>1, <2>2, <2>3
  <2> QED
    BY <2>1, <2>2, <2>4
<1>6. \A k \in 1..Len(t) : \E i \in 1..Len(s) : t[k] = s[i]
  BY <1>2
<1>7. \A i \in 1..Len(s) : \E k \in 1..Len(t) : t[k] = s[i]
  BY <1>2
<1> QED
  BY <1>1, <1>2, <1>3, <1>4, <1>5, <1>6, <1>7

\* A limit that a list keeps leaves all of it.
LEMMA AllKept ==
  ASSUME NEW S, NEW s \in Seq(S), NEW count \in Nat, Len(s) <= count
  PROVE  Search!First(s, count) = s
<1>1. First(s, count) \in Seq(S) /\ Len(First(s, count)) = Len(s) /\ Len(s) \in Nat
  BY FirstKnown
<1>2. \A i \in 1..Len(s) : First(s, count)[i] = s[i]
  BY <1>1, FirstKnown
<1>3. First(s, count) = s
  <2> DEFINE f == First(s, count)
  <2> HIDE DEF f
  <2>1. f \in Seq(S) /\ Len(f) = Len(s) /\ \A i \in 1..Len(s) : f[i] = s[i]
    BY <1>1, <1>2 DEF f
  <2>2. f = s
    BY <2>1, SeqEqual
  <2> QED
    BY <2>2 DEF f
<1> QED
  BY <1>3, SameLists

\* Short lists, written out.
LEMMA TuplesKnown ==
  ASSUME NEW a, NEW b, NEW c
  PROVE  /\ Append(<<a, b>>, c) = <<a, b, c>>
         /\ <<>> \o <<a>> = <<a>> /\ <<a>> \o <<>> = <<a>>
         /\ <<a>> \o <<b>> = <<a, b>> /\ <<a, b>> \o <<>> = <<a, b>>
         /\ <<a, b>> \o <<c>> = <<a, b, c>> /\ <<a>> \o <<b, c>> = <<a, b, c>>
<1> DEFINE S == {a, b, c}
           ab == <<a, b>>
           bc == <<b, c>>
           abc == <<a, b, c>>
<1>1. /\ <<a>> \in Seq(S) /\ <<b>> \in Seq(S) /\ <<c>> \in Seq(S) /\ ab \in Seq(S) /\ bc \in Seq(S)
      /\ abc \in Seq(S) /\ <<>> \in Seq(S)
      /\ Len(<<a>>) = 1 /\ Len(<<b>>) = 1 /\ Len(<<c>>) = 1 /\ Len(ab) = 2 /\ Len(bc) = 2 /\ Len(abc) = 3
      /\ <<a>>[1] = a /\ <<b>>[1] = b /\ <<c>>[1] = c /\ ab[1] = a /\ ab[2] = b /\ bc[1] = b /\ bc[2] = c
      /\ abc[1] = a /\ abc[2] = b /\ abc[3] = c
  OBVIOUS
<1>2. Append(ab, c) = abc
  <2>1. /\ Append(ab, c) \in Seq(S) /\ Len(Append(ab, c)) = 3
        /\ \A k \in 1..3 : Append(ab, c)[k] = abc[k]
    <3>1. c \in S
      OBVIOUS
    <3> HIDE DEF S, ab, abc
    <3>2. /\ Append(ab, c) \in Seq(S) /\ Len(Append(ab, c)) = Len(ab) + 1
          /\ \A k \in 1..Len(ab) : Append(ab, c)[k] = ab[k]
          /\ Append(ab, c)[Len(ab) + 1] = c
      <4>1. ab \in Seq(S)
        BY <1>1
      <4> QED
        BY ONLY <3>1, <4>1, AppendProperties
    <3>3. \A k \in 1..3 : k = 1 \/ k = 2 \/ k = 3
      OBVIOUS
    <3> QED
      BY <1>1, <3>2, <3>3
  <2> HIDE DEF S, ab, abc
  <2> QED
    BY <1>1, <2>1, SeqEqual
<1> HIDE DEF S, ab, bc, abc
<1>3. <<a>> \o <<b>> = ab
  <2>1. /\ <<a>> \o <<b>> \in Seq(S) /\ Len(<<a>> \o <<b>>) = 2
        /\ \A k \in 1..2 : (<<a>> \o <<b>>)[k] = ab[k]
    BY <1>1, ConcatProperties
  <2> QED
    BY <1>1, <2>1, SeqEqual
<1>4. ab \o <<c>> = abc
  <2> DEFINE s == <<c>>
  <2>1. s \in Seq(S) /\ ab \in Seq(S) /\ Len(s) = 1 /\ Len(ab) = 2 /\ s[1] = c /\ ab[1] = a /\ ab[2] = b
    BY <1>1
  <2> HIDE DEF s
  <2>2. /\ ab \o s \in Seq(S) /\ Len(ab \o s) = 3
        /\ (ab \o s)[1] = a /\ (ab \o s)[2] = b /\ (ab \o s)[3] = c
    <3>1. /\ ab \o s \in Seq(S) /\ Len(ab \o s) = Len(ab) + Len(s)
          /\ \A k \in 1..Len(ab) + Len(s) : (ab \o s)[k] = IF k <= Len(ab) THEN ab[k] ELSE s[k - Len(ab)]
      BY ONLY <2>1, ConcatProperties
    <3>2. (ab \o s)[1] = ab[1] /\ (ab \o s)[2] = ab[2] /\ (ab \o s)[3] = s[3 - 2]
      BY ONLY <2>1, <3>1
    <3> QED
      BY ONLY <2>1, <3>1, <3>2
  <2>3. \A k \in 1..3 : (ab \o s)[k] = abc[k]
    <3>1. \A k \in 1..3 : k = 1 \/ k = 2 \/ k = 3
      OBVIOUS
    <3>2. abc[1] = a /\ abc[2] = b /\ abc[3] = c
      BY <1>1
    <3> QED
      BY <2>2, <3>1, <3>2
  <2>4. abc \in Seq(S) /\ Len(abc) = 3
    BY <1>1
  <2>5. ab \o s = abc
    BY ONLY <2>2, <2>3, <2>4, SeqEqual
  <2> QED
    BY <2>5 DEF s
<1>5. <<a>> \o bc = abc
  <2> DEFINE s == <<a>>
  <2>1. s \in Seq(S) /\ bc \in Seq(S) /\ Len(s) = 1 /\ Len(bc) = 2 /\ s[1] = a /\ bc[1] = b /\ bc[2] = c
    BY <1>1
  <2> HIDE DEF s
  <2>2. /\ s \o bc \in Seq(S) /\ Len(s \o bc) = 3
        /\ (s \o bc)[1] = a /\ (s \o bc)[2] = b /\ (s \o bc)[3] = c
    <3> HIDE DEF bc
    <3>1. /\ s \o bc \in Seq(S) /\ Len(s \o bc) = Len(s) + Len(bc)
          /\ \A k \in 1..Len(s) + Len(bc) : (s \o bc)[k] = IF k <= Len(s) THEN s[k] ELSE bc[k - Len(s)]
      BY ONLY <2>1, ConcatProperties
    <3>2. (s \o bc)[1] = s[1] /\ (s \o bc)[2] = bc[2 - 1] /\ (s \o bc)[3] = bc[3 - 1]
      BY ONLY <2>1, <3>1
    <3> QED
      BY ONLY <2>1, <3>1, <3>2
  <2>3. \A k \in 1..3 : (s \o bc)[k] = abc[k]
    <3>1. \A k \in 1..3 : k = 1 \/ k = 2 \/ k = 3
      OBVIOUS
    <3>2. abc[1] = a /\ abc[2] = b /\ abc[3] = c
      BY <1>1
    <3> QED
      BY <2>2, <3>1, <3>2
  <2>4. abc \in Seq(S) /\ Len(abc) = 3
    BY <1>1
  <2>5. s \o bc = abc
    BY ONLY <2>2, <2>3, <2>4, SeqEqual
  <2> QED
    BY <2>5 DEF s
<1>6. <<>> \o <<a>> = <<a>> /\ <<a>> \o <<>> = <<a>> /\ ab \o <<>> = ab
  BY <1>1, ConcatEmptySeq
<1> QED
  BY <1>2, <1>3, <1>4, <1>5, <1>6 DEF ab, bc, abc

\* The queries of an issue: the issue itself, and for each of two years that is
\* known the issue with that year.
Dated(i, year) == <<i.series, i.issue, year>>

\* An issue that has a number.
Numbered(i) == ~i.collection /\ i.issue # Absent

\* They are different ones; the preferred year precedes the issue alone and
\* that precedes a second year (_standard_issue_exact_queries).
LEMMA IssueQueriesKnown ==
  ASSUME NEW i, Numbered(i)
  PROVE  LET t == Search!ExactIssueQueries(i)
             p == Search!PreferredYear(i)
             c == Search!CompatibilityYear(i) IN
           /\ Len(t) \in Nat /\ 1 <= Len(t) /\ Len(t) <= 3 /\ DOMAIN t = 1..Len(t)
           /\ t \in Seq({ <<i.series, i.issue>>, Dated(i, p), Dated(i, c)})
           /\ \A k, l \in 1..Len(t) : t[k] = t[l] => k = l
           /\ \E k \in 1..Len(t) : t[k] = <<i.series, i.issue>>
           /\ p # Absent =>
                \E k, l \in 1..Len(t) : k < l /\ t[k] = Dated(i, p) /\ t[l] = <<i.series, i.issue>>
           /\ c # Absent => \E k \in 1..Len(t) : t[k] = Dated(i, c)
           /\ c \notin {Absent, p} =>
                \E k, l \in 1..Len(t) : k < l /\ t[k] = <<i.series, i.issue>> /\ t[l] = Dated(i, c)
<1> DEFINE p == Search!PreferredYear(i)
           c == Search!CompatibilityYear(i)
           base == <<i.series, i.issue>>
           dp == Dated(i, p)
           dc == Dated(i, c)
           E == {base, dp, dc}
           b == IF p = Absent THEN 1 ELSE 2
           s == (IF p = Absent THEN <<>> ELSE <<dp>>) \o <<base>>
                \o (IF c = Absent THEN <<>> ELSE <<dc>>)
           t == Search!Distinct(s)
<1>1. Search!ExactIssueQueries(i) = Search!First(t, 3)
  <2>1. Append(base, p) = dp /\ Append(base, c) = dc
    BY TuplesKnown DEF Dated
  <2> QED
    BY <2>1 DEF Search!ExactIssueQueries, Numbered
<1>2. dp # base /\ dc # base /\ (c # p => dc # dp)
  <2>1. Len(dp) = 3 /\ Len(dc) = 3 /\ Len(base) = 2 /\ dp[3] = p /\ dc[3] = c
    BY DEF Dated
  <2> HIDE DEF dp, dc, base, p, c
  <2> QED
    BY <2>1
<1> HIDE DEF base, dp, dc, p, c
<1>3. /\ s \in Seq(E) /\ Len(s) = b + (IF c = Absent THEN 0 ELSE 1)
      /\ s[b] = base
      /\ p # Absent => s[1] = dp
      /\ c # Absent => s[b + 1] = dc
  <2>1. CASE p = Absent /\ c = Absent
    <3>1. s = <<>> \o <<base>> \o <<>>
      BY <2>1
    <3>2. s = <<base>>
      BY <3>1
    <3> HIDE DEF s
    <3> QED
      BY <2>1, <3>2
  <2>2. CASE p # Absent /\ c = Absent
    <3>1. s = <<dp>> \o <<base>> \o <<>>
      BY <2>2
    <3> HIDE DEF s
    <3>2. s = <<dp, base>>
      BY <3>1, TuplesKnown
    <3> QED
      BY <2>2, <3>2
  <2>3. CASE p = Absent /\ c # Absent
    <3>1. s = <<>> \o <<base>> \o <<dc>>
      BY <2>3
    <3> HIDE DEF s
    <3>2. s = <<base, dc>>
      BY <3>1, TuplesKnown
    <3> QED
      BY <2>3, <3>2
  <2>4. CASE p # Absent /\ c # Absent
    <3>1. s = <<dp>> \o <<base>> \o <<dc>>
      BY <2>4
    <3> HIDE DEF s
    <3>2. s = <<dp, base, dc>>
      <4>1. <<dp>> \o <<base>> = <<dp, base>>
        BY TuplesKnown
      <4>2. <<dp, base>> \o <<dc>> = <<dp, base, dc>>
        BY TuplesKnown
      <4> QED
        BY <3>1, <4>1, <4>2
    <3> QED
      BY <2>4, <3>2
  <2> QED
    BY <2>1, <2>2, <2>3, <2>4
<1> HIDE DEF s, E
<1>4. Len(s) \in Nat /\ 1 <= Len(s) /\ Len(s) <= 3 /\ b \in 1..Len(s) /\ (p # Absent => b = 2)
      /\ (p = Absent => b = 1) /\ (c # Absent => b + 1 \in 1..Len(s))
  BY <1>3
<1> HIDE DEF t
<1>5. /\ t \in Seq(E) /\ Len(t) \in Nat /\ Len(t) <= Len(s) /\ DOMAIN t = 1..Len(t)
      /\ \A k \in 1..Len(t) : \E j \in 1..Len(s) : t[k] = s[j]
      /\ \A k, l \in 1..Len(t) : t[k] = t[l] => k = l
      /\ \A j \in 1..Len(s) : \E k \in 1..Len(t) : t[k] = s[j]
      /\ \A h, j \in 1..Len(s) :
           h < j /\ (\A m \in 1..h : s[m] # s[j]) =>
             \E k, l \in 1..Len(t) : k < l /\ t[k] = s[h] /\ t[l] = s[j]
      /\ Len(s) >= 1 => Len(t) >= 1 /\ t[1] = s[1]
  <2>1. s \in Seq(E)
    BY <1>3
  <2> QED
    BY ONLY <2>1, RepeatsDropped DEF t
<1> HIDE DEF b
<1>6. 1 <= Len(t) /\ Len(t) <= 3
  BY <1>4, <1>5
<1>7. Search!First(t, 3) = t
  <2>1. t \in Seq(E) /\ Len(t) <= 3 /\ 3 \in Nat
    BY <1>5, <1>6
  <2> QED
    BY <2>1, AllKept
<1>8. \E k \in 1..Len(t) : t[k] = base
  BY <1>3, <1>4, <1>5
<1>9. ASSUME p # Absent
      PROVE  \E k, l \in 1..Len(t) : k < l /\ t[k] = dp /\ t[l] = base
  <2>1. b = 2 /\ 1 \in 1..Len(s) /\ 2 \in 1..Len(s)
    BY <1>4, <1>9
  <2>2. s[1] = dp /\ s[2] = base
    BY <1>3, <1>9, <2>1
  <2> DEFINE h == 1
             j == 2
  <2>3. h \in 1..Len(s) /\ j \in 1..Len(s) /\ h < j /\ s[h] = dp /\ s[j] = base /\ \A m \in 1..h : s[m] # s[j]
    BY <1>2, <2>1, <2>2
  <2> HIDE DEF h, j
  <2>4. \E k, l \in 1..Len(t) : k < l /\ t[k] = s[h] /\ t[l] = s[j]
    BY <1>5, <2>3
  <2> QED
    BY <2>3, <2>4
<1>10. ASSUME c # Absent PROVE \E k \in 1..Len(t) : t[k] = dc
  BY <1>3, <1>4, <1>5, <1>10
<1>11. ASSUME c \notin {Absent, p}
       PROVE  \E k, l \in 1..Len(t) : k < l /\ t[k] = base /\ t[l] = dc
  <2>1. s[b] = base /\ s[b + 1] = dc /\ b + 1 \in 1..Len(s) /\ b \in 1..Len(s) /\ b < b + 1
    BY <1>3, <1>4, <1>11
  <2>2. \A m \in 1..b : s[m] # s[b + 1]
    <3>1. \A m \in 1..b : m = b \/ (m = 1 /\ p # Absent)
      BY <1>4
    <3>2. p # Absent => s[1] = dp
      BY <1>3
    <3>3. dp # dc /\ base # dc
      BY <1>2, <1>11
    <3> QED
      BY <2>1, <3>1, <3>2, <3>3
  <2> HIDE DEF b
  <2>3. \E m, n \in 1..Len(t) : m < n /\ t[m] = s[b] /\ t[n] = s[b + 1]
    <3> DEFINE e == b + 1
    <3>1. e \in 1..Len(s) /\ b \in 1..Len(s) /\ b < e /\ \A m \in 1..b : s[m] # s[e]
      BY <2>1, <2>2
    <3> HIDE DEF e
    <3>2. \E m, n \in 1..Len(t) : m < n /\ t[m] = s[b] /\ t[n] = s[e]
      BY <1>5, <3>1
    <3> QED
      BY <3>2 DEF e
  <2> QED
    BY <2>1, <2>3
<1>12. Search!ExactIssueQueries(i) = t
  BY <1>1, <1>7
<1>13. \A k, l \in 1..Len(t) : t[k] = t[l] => k = l
  BY <1>5
<1>14. t \in Seq(E) /\ Len(t) \in Nat /\ DOMAIN t = 1..Len(t)
  BY <1>5
<1> QED
  BY <1>6, <1>8, <1>9, <1>10, <1>11, <1>12, <1>13, <1>14 DEF E, base, dp, dc, p, c

\* The packs of an issue: one query for each year that is known, the preferred
\* one first, or one without a year (_standard_issue_fallback_queries).
LEMMA FallbackQueriesKnown ==
  ASSUME NEW i, Numbered(i)
  PROVE  LET t == Search!FallbackQueries(i)
             p == Search!PreferredYear(i)
             c == Search!CompatibilityYear(i) IN
           /\ \E E : t \in Seq(E)
           /\ Len(t) \in Nat /\ 1 <= Len(t) /\ Len(t) <= 2 /\ DOMAIN t = 1..Len(t)
           /\ \A k, l \in 1..Len(t) : t[k] = t[l] => k = l
           /\ \A k \in 1..Len(t) :
                \/ t[k] = <<i.series>> /\ p = Absent /\ c = Absent
                \/ t[k] = <<i.series, p>> /\ p # Absent
                \/ t[k] = <<i.series, c>> /\ c # Absent
           /\ p # Absent => t[1] = <<i.series, p>>
           /\ c # Absent => \E k \in 1..Len(t) : t[k] = <<i.series, c>>
           /\ p = Absent /\ c = Absent => t = << <<i.series>> >>
<1> DEFINE p == Search!PreferredYear(i)
           c == Search!CompatibilityYear(i)
           parts == <<p, c>>
           P == {k \in DOMAIN parts : parts[k] # Absent}
           s == Selected(parts, P)
           years == Search!Distinct(s)
           t == Search!FallbackQueries(i)
<1>0. t = IF years = <<>> THEN << <<i.series>> >>
          ELSE [k \in DOMAIN years |-> <<i.series, years[k]>>]
  <2>1. Search!Known(parts) = s
    BY SameLists DEF Search!Known
  <2> QED
    BY <2>1 DEF Search!FallbackQueries, Numbered
<1> HIDE DEF p, c, t
<1>1. parts \in Seq({p, c}) /\ Len(parts) = 2 /\ parts[1] = p /\ parts[2] = c
  OBVIOUS
<1> HIDE DEF parts
<1>2. P \in SUBSET (1..Len(parts)) /\ (1 \in P <=> p # Absent) /\ (2 \in P <=> c # Absent)
      /\ \A k \in P : k = 1 \/ k = 2
  BY <1>1
<1> HIDE DEF P
<1>3. /\ s \in Seq({p, c}) /\ Len(s) = Cardinality(P) /\ Len(s) \in Nat /\ Len(s) <= 2
      /\ \A k \in 1..Len(s) : Place(P, k) \in P /\ s[k] = parts[Place(P, k)]
      /\ \A k \in P : \E l \in 1..Len(s) : Place(P, l) = k
      /\ \A k, l \in 1..Len(s) : k < l <=> Place(P, k) < Place(P, l)
  <2>1. /\ s \in Seq({p, c}) /\ Len(s) = Cardinality(P) /\ Len(s) \in Nat /\ Len(s) <= Len(parts)
        /\ \A k \in 1..Len(s) : Place(P, k) \in P /\ s[k] = parts[Place(P, k)]
        /\ \A k \in P : \E l \in 1..Len(s) : Place(P, l) = k
        /\ \A k, l \in 1..Len(s) : k < l <=> Place(P, k) < Place(P, l)
    <3>1. parts \in Seq({p, c}) /\ P \in SUBSET (1..Len(parts))
      BY <1>1, <1>2
    <3> QED
      BY ONLY <3>1, SelectedKnown, SMTT(60)
  <2> HIDE DEF s
  <2> QED
    BY <1>1, <2>1
<1> HIDE DEF s
<1>4. \A k \in 1..Len(s) : s[k] # Absent /\ (s[k] = p \/ s[k] = c)
  BY <1>1, <1>2, <1>3
<1>5. ASSUME p # Absent PROVE Len(s) >= 1 /\ s[1] = p
  <2>1. PICK l \in 1..Len(s) : Place(P, l) = 1
    BY <1>2, <1>3, <1>5
  <2>2. 1 \in 1..Len(s)
    BY <1>3
  <2>3. Place(P, 1) = 1 \/ Place(P, 1) = 2
    BY <1>2, <1>3, <2>2
  <2>4. ~(1 < l)
    BY <1>3, <2>1, <2>2, <2>3
  <2>5. l = 1
    BY <1>3, <2>1, <2>4
  <2> QED
    BY <1>1, <1>3, <2>1, <2>2, <2>5
<1>6. ASSUME c # Absent PROVE \E k \in 1..Len(s) : s[k] = c
  BY <1>1, <1>2, <1>3, <1>6
<1>7. /\ years \in Seq({p, c}) /\ Len(years) \in Nat /\ Len(years) <= Len(s) /\ DOMAIN years = 1..Len(years)
      /\ \A k \in 1..Len(years) : \E l \in 1..Len(s) : years[k] = s[l]
      /\ \A k, l \in 1..Len(years) : years[k] = years[l] => k = l
      /\ \A k \in 1..Len(s) : \E l \in 1..Len(years) : years[l] = s[k]
      /\ Len(s) >= 1 => Len(years) >= 1 /\ years[1] = s[1]
  <2>1. s \in Seq({p, c})
    BY <1>3
  <2> QED
    BY ONLY <2>1, RepeatsDropped
<1> HIDE DEF years
<1>8. CASE p = Absent /\ c = Absent
  <2>1. Len(s) = 0
    BY <1>3, <1>4, <1>8
  <2>2. years = <<>>
    BY <1>3, <1>7, <2>1, EmptySeq
  <2> DEFINE q == <<i.series>>
  <2>3. t = <<q>>
    BY <1>0, <2>2
  <2> HIDE DEF q
  <2>4. t \in Seq({q})
    BY <2>3
  <2>5. \E E : t \in Seq(E)
    BY <2>4
  <2> USE DEF q
  <2> QED
    BY <1>8, <2>3, <2>5 DEF t, p, c
<1>9. CASE ~(p = Absent /\ c = Absent)
  <2>1. 1 <= Len(years) /\ Len(years) <= 2
    <3>1. Len(s) >= 1
      BY <1>3, <1>5, <1>6, <1>9
    <3> QED
      BY <1>3, <1>7, <3>1
  <2> DEFINE pack(y) == <<i.series, y>>
             n == Len(years)
  <2>0. years # <<>> /\ DOMAIN years = 1..n /\ n \in Nat
    BY <1>7, <2>1
  <2>2. t = [k \in 1..n |-> pack(years[k])]
    BY <1>0, <2>0
  <2>3. \A y, z : pack(y) = pack(z) => y = z
    <3> SUFFICES ASSUME NEW y, NEW z, <<i.series, y>> = <<i.series, z>> PROVE y = z
      OBVIOUS
    <3> QED
      OBVIOUS
  <2>4. /\ \A k, l \in 1..n : years[k] = years[l] => k = l
        /\ \A k \in 1..n : (years[k] = p /\ p # Absent) \/ (years[k] = c /\ c # Absent)
        /\ p # Absent => years[1] = p
        /\ c # Absent => \E k \in 1..n : years[k] = c
        /\ 1 <= n /\ n <= 2
    <3>1. \A k \in 1..n : (years[k] = p /\ p # Absent) \/ (years[k] = c /\ c # Absent)
      BY <1>4, <1>7
    <3>2. p # Absent => years[1] = p
      BY <1>5, <1>7
    <3>3. ASSUME c # Absent PROVE \E k \in 1..n : years[k] = c
      <4>1. PICK k \in 1..Len(s) : s[k] = c
        BY <1>6, <3>3
      <4>2. \E l \in 1..Len(years) : years[l] = s[k]
        BY <1>7
      <4> QED
        BY <4>1, <4>2
    <3> QED
      BY <1>7, <2>1, <3>1, <3>2, <3>3
  <2> HIDE DEF pack, n
  <2>5. /\ Len(t) = n /\ DOMAIN t = 1..n
        /\ \A k \in 1..n : t[k] = pack(years[k])
    <3>1. DOMAIN t = 1..n /\ \A k \in 1..n : t[k] = pack(years[k])
      BY <2>2
    <3>2. Len(t) = n
      BY <2>0, <2>2
    <3> QED
      BY <3>1, <3>2
  <2>6. 1 \in 1..n
    BY <2>0, <2>4
  <2>7. /\ \A k, l \in 1..n : t[k] = t[l] => k = l
        /\ \A k \in 1..n : (t[k] = pack(p) /\ p # Absent) \/ (t[k] = pack(c) /\ c # Absent)
        /\ p # Absent => t[1] = pack(p)
        /\ c # Absent => \E k \in 1..n : t[k] = pack(c)
    BY <2>3, <2>4, <2>5, <2>6
  <2>8. /\ Len(t) \in Nat /\ 1 <= Len(t) /\ Len(t) <= 2 /\ DOMAIN t = 1..Len(t)
        /\ \A k, l \in 1..Len(t) : t[k] = t[l] => k = l
        /\ \A k \in 1..Len(t) : (t[k] = pack(p) /\ p # Absent) \/ (t[k] = pack(c) /\ c # Absent)
        /\ p # Absent => t[1] = pack(p)
        /\ c # Absent => \E k \in 1..Len(t) : t[k] = pack(c)
    BY <2>0, <2>4, <2>5, <2>7
  <2>9. t \in Seq({pack(years[k]) : k \in 1..n})
    BY <2>0, <2>2
  <2>10. \E E : t \in Seq(E)
    BY <2>9
  <2> QED
    BY <1>9, <2>8, <2>10 DEF t, p, c, pack
<1> QED
  BY <1>8, <1>9

\* What is kept of a collection's queries: five at most, all that are titled, the
\* added ones that repeat none, and nothing in place of one that comes earlier.
LEMMA CollectionQueriesKnown ==
  ASSUME NEW i
  PROVE  LET titled == Search!TitledQueries(i)
             wanted == titled \o Search!AddedQueries(i)
             sent == Search!CollectionQueries(i) IN
           /\ \E E : sent \in Seq(E)
           /\ Len(sent) \in Nat /\ 1 <= Len(sent) /\ Len(sent) <= 5 /\ DOMAIN sent = 1..Len(sent)
           /\ \A k, l \in 1..Len(sent) :
                k < l /\ sent[k] = sent[l] =>
                  /\ k \in 1..Len(titled) /\ l \in 1..Len(titled)
                  /\ titled[k] = titled[l]
           /\ DOMAIN wanted = 1..Len(wanted) /\ Len(wanted) \in Nat
           /\ \A k \in 1..Len(wanted) :
                \/ \E m \in 1..Len(sent) : sent[m] = wanted[k]
                \/ /\ Len(sent) = 5
                   /\ \A m \in 1..Len(sent) : \E j \in 1..(k - 1) : sent[m] = wanted[j]
<1> DEFINE titled == Search!TitledQueries(i)
           added == Search!AddedQueries(i)
           n == Len(titled)
<1>1. n \in Nat /\ 1 <= n /\ n <= 3 /\ Len(added) \in Nat
  BY CollectionPartsKnown
<1>2. PICK E : titled \in Seq(E) /\ added \in Seq(E)
  BY CollectionPartsKnown
<1> DEFINE known == Search!Range(titled)
           P == NewFirsts(added, known)
           t == Selected(added, P)
           all == titled \o t
           wanted == titled \o added
           sent == First(all, 5)
<1>3. Search!CollectionQueries(i) = sent
  BY SameLists DEF Search!CollectionQueries
<1> HIDE DEF titled, added
<1>4. \A k \in 1..n : titled[k] \in known
  BY <1>1, <1>2 DEF Search!Range
<1>5. \A q \in known : \E k \in 1..n : titled[k] = q
  BY <1>1, <1>2 DEF Search!Range
<1> HIDE DEF known
<1>6. /\ t \in Seq(E) /\ Len(t) \in Nat
      /\ \A k \in 1..Len(t) : Place(P, k) \in 1..Len(added) /\ t[k] = added[Place(P, k)] /\ t[k] \notin known
      /\ \A k, l \in 1..Len(t) : k < l <=> Place(P, k) < Place(P, l)
      /\ \A k, l \in 1..Len(t) : t[k] = t[l] => k = l
      /\ \A k \in 1..Len(added) :
           added[k] \notin known => \E l \in 1..Len(t) : t[l] = added[k] /\ Place(P, l) <= k
  BY <1>2, DistinctKnown
<1> HIDE DEF t, P
<1>7. /\ all \in Seq(E) /\ Len(all) = n + Len(t)
      /\ \A k \in 1..Len(all) : all[k] = IF k <= n THEN titled[k] ELSE t[k - n]
  BY <1>2, <1>6, ConcatProperties
<1>8. /\ wanted \in Seq(E) /\ Len(wanted) = n + Len(added)
      /\ \A k \in 1..Len(wanted) : wanted[k] = IF k <= n THEN titled[k] ELSE added[k - n]
  BY <1>2, ConcatProperties
<1>9. DOMAIN wanted = 1..Len(wanted) /\ Len(wanted) \in Nat
  BY <1>8
<1> HIDE DEF all, wanted
<1>10. /\ sent \in Seq(E) /\ Len(sent) = IF Len(all) < 5 THEN Len(all) ELSE 5
       /\ \A k \in 1..Len(sent) : k \in 1..Len(all) /\ sent[k] = all[k]
  <2>1. 5 \in Nat
    OBVIOUS
  <2> QED
    BY <1>7, <2>1, FirstKnown
<1> HIDE DEF sent, n
<1>11. Len(sent) \in Nat /\ 1 <= Len(sent) /\ Len(sent) <= 5 /\ DOMAIN sent = 1..Len(sent)
  <2>1. DOMAIN sent = 1..Len(sent)
    <3>1. sent \in Seq(E)
      BY <1>10
    <3> QED
      BY ONLY <3>1
  <2> DEFINE kept == Len(sent)
             offered == Len(all)
             new == Len(t)
  <2>2. kept = (IF offered < 5 THEN offered ELSE 5) /\ offered = n + new /\ new \in Nat /\ n \in Nat /\ 1 <= n
    BY <1>1, <1>6, <1>7, <1>10 DEF n
  <2> HIDE DEF kept, offered, new
  <2>3. kept \in Nat /\ 1 <= kept /\ kept <= 5
    BY <2>2
  <2> QED
    BY <2>1, <2>3 DEF kept
<1>12. /\ \A k \in 1..Len(sent) : k <= n => k \in 1..n /\ sent[k] = titled[k]
       /\ \A k \in 1..Len(sent) : k > n => k - n \in 1..Len(t) /\ sent[k] = t[k - n]
  BY <1>1, <1>6, <1>7, <1>10, <1>11
<1>13. ASSUME NEW k \in 1..Len(sent), NEW l \in 1..Len(sent), k < l, sent[k] = sent[l]
       PROVE  k \in 1..n /\ l \in 1..n /\ titled[k] = titled[l]
  <2>0. n \in Nat /\ k \in Nat /\ l \in Nat
    BY <1>1, <1>11
  <2>1. CASE l <= n
    <3>1. k <= n
      BY <1>13, <2>0, <2>1
    <3>2. k \in 1..n /\ sent[k] = titled[k] /\ l \in 1..n /\ sent[l] = titled[l]
      BY <1>12, <2>1, <3>1
    <3> QED
      BY <1>13, <3>2
  <2>2. CASE l > n /\ k <= n
    <3>1. l - n \in 1..Len(t) /\ sent[l] = t[l - n]
      BY <1>12, <2>2
    <3>2. sent[l] \notin known
      BY <1>6, <3>1
    <3>3. k \in 1..n /\ sent[k] = titled[k]
      BY <1>12, <2>2
    <3>4. titled[k] \in known
      BY <1>4, <3>3
    <3>5. sent[k] = sent[l]
      BY <1>13
    <3> QED
      BY ONLY <3>2, <3>3, <3>4, <3>5
  <2>3. CASE l > n /\ k > n
    <3>1. /\ k - n \in 1..Len(t) /\ sent[k] = t[k - n]
          /\ l - n \in 1..Len(t) /\ sent[l] = t[l - n]
      BY <1>12, <2>3
    <3>2. t[k - n] = t[l - n]
      BY <1>13, <3>1
    <3>3. k - n = l - n
      BY <1>6, <3>1, <3>2
    <3> QED
      BY <1>13, <2>0, <3>3
  <2> QED
    BY <2>0, <2>1, <2>2, <2>3
<1>14. ASSUME NEW k \in 1..Len(wanted), ~ \E m \in 1..Len(sent) : sent[m] = wanted[k]
       PROVE  Len(sent) = 5 /\ \A m \in 1..Len(sent) : \E j \in 1..(k - 1) : sent[m] = wanted[j]
  <2>0. n \in Nat /\ k \in Nat /\ Len(wanted) \in Nat /\ Len(added) \in Nat /\ k >= 1
    BY <1>1, <1>9
  <2>1. \A m \in 1..n : m \in 1..Len(sent) /\ sent[m] = titled[m]
    <3>1. n <= Len(sent)
      BY <1>1, <1>6, <1>7, <1>10
    <3>2. \A m \in 1..n : m \in 1..Len(sent) /\ m <= n
      BY <1>11, <2>0, <3>1
    <3> QED
      BY <1>12, <3>2
  <2>2. k > n
    <3>1. k <= n => k \in 1..n /\ wanted[k] = titled[k]
      BY <1>8, <2>0
    <3> QED
      BY <1>14, <2>0, <2>1, <3>1
  <2> DEFINE a == k - n
  <2>3. a \in 1..Len(added) /\ wanted[k] = added[a]
    BY <1>8, <2>0, <2>2
  <2>4. added[a] \notin known
    BY <1>5, <1>14, <2>1, <2>3
  <2> HIDE DEF a
  <2>5. PICK p \in 1..Len(t) : t[p] = added[a] /\ Place(P, p) <= a
    BY <1>6, <2>3, <2>4
  <2>6. n + p > Len(sent)
    <3>1. n + p <= Len(sent) => n + p \in 1..Len(sent) /\ n + p > n /\ (n + p) - n = p
      BY <1>1, <1>6, <1>11
    <3> DEFINE w == n + p
    <3> HIDE DEF w
    <3>2. w <= Len(sent) => sent[w] = t[w - n] /\ w - n = p /\ w \in 1..Len(sent)
      BY <1>12, <3>1 DEF w
    <3>3. ~(w <= Len(sent))
      BY <1>14, <2>3, <2>5, <3>2
    <3> QED
      BY <1>1, <1>6, <1>11, <3>3 DEF w
  <2>7. Len(sent) = 5
    BY <1>1, <1>6, <1>7, <1>10, <2>6
  <2>8. ASSUME NEW m \in 1..Len(sent) PROVE \E j \in 1..(k - 1) : sent[m] = wanted[j]
    <3>0. m \in Nat /\ m >= 1
      BY <1>11
    <3>1. CASE m <= n
      <4>1. m \in 1..(k - 1) /\ m \in 1..Len(wanted)
        BY <2>0, <2>2, <3>0, <3>1
      <4>2. sent[m] = wanted[m]
        BY <1>8, <1>12, <3>1, <4>1
      <4> QED
        BY <4>1, <4>2
    <3>2. CASE m > n
      <4> DEFINE q == m - n
                 j == n + Place(P, q)
      <4>1. q \in 1..Len(t) /\ sent[m] = t[q] /\ q < p
        BY <1>1, <1>6, <1>12, <2>6, <3>0, <3>2
      <4> HIDE DEF q
      <4>2. /\ Place(P, q) \in 1..Len(added) /\ t[q] = added[Place(P, q)]
            /\ Place(P, q) < Place(P, p) /\ Place(P, p) \in 1..Len(added)
        BY <1>6, <2>5, <4>1
      <4>3. Place(P, q) < a /\ a \in Nat
        BY <2>0, <2>3, <2>5, <4>2
      <4>4. j \in 1..(k - 1) /\ j \in 1..Len(wanted) /\ j > n /\ j - n = Place(P, q)
        BY <1>8, <2>0, <2>3, <4>2, <4>3 DEF a
      <4> HIDE DEF j
      <4>5. wanted[j] = added[j - n]
        BY <1>8, <2>0, <4>4
      <4> QED
        BY <4>1, <4>2, <4>4, <4>5
    <3> QED
      BY <2>0, <3>0, <3>1, <3>2
  <2> QED
    BY <2>7, <2>8
<1> QED
  BY <1>3, <1>9, <1>10, <1>11, <1>13, <1>14 DEF wanted, titled, added, n

\* A title is a list of words.
Spelled(i) == i.title = Absent \/ i.title \in Seq({i.title[k] : k \in DOMAIN i.title})

\* A titled query repeats another only if the title spells it out.
LEMMA TitledRepeats ==
  ASSUME NEW i, Spelled(i)
  PROVE  LET titled == Search!TitledQueries(i)
             number == Search!Either(i.volume, i.issue) IN
           \A k, l \in 1..Len(titled) :
             k < l /\ titled[k] = titled[l] => i.title \in {<<"Vol", number>>, <<"Volume", number>>}
<1> DEFINE titled == Search!TitledQueries(i)
           number == Search!Either(i.volume, i.issue)
           title == i.title
           W == {title[k] : k \in DOMAIN title}
           series == i.series
           a1 == Search!BuildQuery(i)
           a2 == <<series>> \o title
           a3 == <<series, "Vol", number>>
           a4 == <<series, "Volume", number>>
<1>1. titled = IF title = Absent THEN <<a1>>
               ELSE <<a2>> \o (IF number = Absent THEN <<>>
                               ELSE <<a3>> \o (IF i.spelled THEN <<a4>> ELSE <<>>))
  BY DEF Search!TitledQueries
<1>2. title = Absent \/ title \in Seq(W)
  BY DEF Spelled
<1> HIDE DEF titled, number, title, W, series, a1
<1>3. a3 # a4
  <2>1. a3[2] = "Vol" /\ a4[2] = "Volume"
    OBVIOUS
  <2> HIDE DEF a3, a4
  <2> QED
    BY <2>1
<1>4. ASSUME title \in Seq(W), NEW label, a2 = <<series, label, number>>
      PROVE  title = <<label, number>>
  <2> DEFINE U == W \union {series, label, number}
             q == <<label, number>>
             one == <<series>>
  <2>1. title \in Seq(U) /\ one \in Seq(U) /\ Len(one) = 1 /\ q \in Seq(U) /\ Len(q) = 2
        /\ q[1] = label /\ q[2] = number
    BY <1>4
  <2>2. Len(a2) = 3 /\ a2[2] = label /\ a2[3] = number
    <3> HIDE DEF a2
    <3> QED
      BY <1>4
  <2> HIDE DEF U, q, one
  <2>3. /\ Len(one \o title) = Len(one) + Len(title) /\ Len(title) \in Nat
        /\ \A k \in 1..Len(one) + Len(title) :
             (one \o title)[k] = IF k <= Len(one) THEN one[k] ELSE title[k - Len(one)]
    <3>1. one \in Seq(U) /\ title \in Seq(U)
      BY <2>1
    <3>2. Len(title) \in Nat
      BY <3>1
    <3> QED
      BY ONLY <3>1, <3>2, ConcatProperties
  <2>4. a2 = one \o title
    BY DEF one
  <2> HIDE DEF a2
  <2>5. Len(title) = 2 /\ a2[2] = title[2 - 1] /\ a2[3] = title[3 - 1]
    BY ONLY <2>1, <2>2, <2>3, <2>4
  <2>6. title[1] = label /\ title[2] = number
    BY ONLY <2>2, <2>5
  <2>7. \A k \in 1..Len(title) : title[k] = q[k]
    <3>1. \A k \in 1..2 : k = 1 \/ k = 2
      OBVIOUS
    <3> QED
      BY ONLY <2>1, <2>5, <2>6, <3>1
  <2>8. title = q
    BY ONLY <2>1, <2>5, <2>7, SeqEqual
  <2> QED
    BY <2>8 DEF q
<1>5. a2 = a3 => title = <<"Vol", number>> \/ title = Absent
  BY <1>2, <1>4
<1>6. a2 = a4 => title = <<"Volume", number>> \/ title = Absent
  BY <1>2, <1>4
<1> HIDE DEF a2, a3, a4
<1>7. title # Absent /\ (a2 = a3 \/ a2 = a4) => title \in {<<"Vol", number>>, <<"Volume", number>>}
  BY <1>5, <1>6
<1> DEFINE Good == title \in {<<"Vol", number>>, <<"Volume", number>>}
<1> HIDE DEF Good
<1>8. title # Absent /\ (a2 = a3 \/ a2 = a4) => Good
  BY <1>7 DEF Good
<1>9. ASSUME NEW k \in 1..Len(titled), NEW l \in 1..Len(titled), k < l, titled[k] = titled[l]
      PROVE  Good
  <2>1. CASE title = Absent
    <3>1. titled = <<a1>>
      BY <1>1, <2>1
    <3> QED
      BY <1>9, <3>1
  <2>2. CASE title # Absent /\ number = Absent
    <3>1. titled = <<a2>>
      BY <1>1, <2>2, TuplesKnown
    <3> QED
      BY <1>9, <3>1
  <2>3. CASE title # Absent /\ number # Absent /\ ~i.spelled
    <3>1. titled = <<a2, a3>>
      <4>1. titled = <<a2>> \o (<<a3>> \o <<>>)
        BY <1>1, <2>3
      <4> QED
        BY <4>1, TuplesKnown
    <3>2. k = 1 /\ l = 2
      BY <1>9, <3>1
    <3> QED
      BY <1>8, <1>9, <2>3, <3>1, <3>2
  <2>4. CASE title # Absent /\ number # Absent /\ i.spelled
    <3>1. titled = <<a2, a3, a4>>
      <4>1. titled = <<a2>> \o (<<a3>> \o <<a4>>)
        BY <1>1, <2>4
      <4>2. <<a3>> \o <<a4>> = <<a3, a4>>
        BY TuplesKnown
      <4>3. <<a2>> \o <<a3, a4>> = <<a2, a3, a4>>
        BY TuplesKnown
      <4> QED
        BY <4>1, <4>2, <4>3
    <3>2. (k = 1 /\ l = 2) \/ (k = 1 /\ l = 3) \/ (k = 2 /\ l = 3)
      BY <1>9, <3>1
    <3> QED
      BY <1>3, <1>8, <1>9, <2>4, <3>1, <3>2
  <2> QED
    BY <2>1, <2>2, <2>3, <2>4
<1> QED
  BY <1>9 DEF Good, titled, number, title

-----------------------------------------------------------------------------
\* What an answer adds is not known yet.
LEMMA NewKnown ==
  ASSUME NEW p \in Search!Pages, NEW c
  PROVE  LET t == Search!New(p, c) IN
           /\ t \in Lists /\ Differ(t)
           /\ Search!IdsOf(t) \cap Search!IdsOf(exact) = {}
           /\ Search!IdsOf(t) \cap Search!IdsOf(packs) = {}
<1> DEFINE P == {i \in DOMAIN p : p[i].id \notin Search!IdsOf(exact) \union Search!IdsOf(packs)}
           t == Search!Selected(p, P)
<1>1. p \in Lists /\ Differ(p) /\ DOMAIN p = 1..Len(p)
  BY PagesKnown DEF Lists
<1>2. P \in SUBSET (1..Len(p))
  BY <1>1
<1>3. \A i \in P : p[i].id \notin Search!IdsOf(exact) \union Search!IdsOf(packs)
  OBVIOUS
<1> HIDE DEF P
<1>4. t \in Lists /\ Differ(t) /\ Search!IdsOf(t) = {p[i].id : i \in P}
  BY <1>1, <1>2, PartDiffers
<1>5. Search!New(p, c) = t
  BY DEF Search!New, P
<1> QED
  BY <1>3, <1>4, <1>5

\* A list falls into what covers the issue and what does not.
LEMMA CoveringKnown ==
  ASSUME NEW c \in Lists, Differ(c)
  PROVE  LET a == Search!Covering(c)
             b == Search!Others(c) IN
           /\ a \in Lists /\ Differ(a) /\ \A i \in 1..Len(a) : Search!Covers(a[i])
           /\ b \in Lists /\ Differ(b) /\ \A i \in 1..Len(b) : ~Search!Covers(b[i])
           /\ Search!IdsOf(a) \union Search!IdsOf(b) = Search!IdsOf(c)
           /\ Search!IdsOf(a) \cap Search!IdsOf(b) = {}
<1> DEFINE P == {i \in DOMAIN c : Search!Covers(c[i])}
           Q == {i \in DOMAIN c : ~Search!Covers(c[i])}
           a == Search!Selected(c, P)
           b == Search!Selected(c, Q)
<1>1. DOMAIN c = 1..Len(c)
  BY DEF Lists
<1>2. P \in SUBSET (1..Len(c)) /\ Q \in SUBSET (1..Len(c))
  BY <1>1
<1>3. /\ \A i \in P : Search!Covers(c[i])
      /\ \A i \in Q : ~Search!Covers(c[i])
      /\ P \union Q = DOMAIN c
  OBVIOUS
<1> HIDE DEF P, Q
<1>4. /\ a \in Lists /\ Differ(a) /\ Search!IdsOf(a) = {c[i].id : i \in P}
      /\ \A k \in 1..Len(a) : \E i \in P : a[k] = c[i]
  BY <1>2, PartDiffers
<1>5. /\ b \in Lists /\ Differ(b) /\ Search!IdsOf(b) = {c[i].id : i \in Q}
      /\ \A k \in 1..Len(b) : \E i \in Q : b[k] = c[i]
  BY <1>2, PartDiffers
<1> HIDE DEF a, b
<1>6. Search!IdsOf(a) \union Search!IdsOf(b) = Search!IdsOf(c)
  <2>1. \A x \in Search!IdsOf(c) : \E i \in P \union Q : x = c[i].id
    BY <1>3 DEF Search!IdsOf
  <2>2. \A i \in P \union Q : c[i].id \in Search!IdsOf(c)
    BY <1>3 DEF Search!IdsOf
  <2> QED
    BY <1>4, <1>5, <2>1, <2>2
<1>7. Search!IdsOf(a) \cap Search!IdsOf(b) = {}
  BY <1>2, <1>3, <1>4, <1>5 DEF Differ
<1>8. Search!Covering(c) = a /\ Search!Others(c) = b
  BY DEF Search!Covering, Search!Others, a, b, P, Q
<1> QED
  BY <1>3, <1>4, <1>5, <1>6, <1>7, <1>8

\* The order of a response.
Ordered(c, packIds) ==
  \A i, j \in 1..Len(c) :
    i < j => /\ Search!Covers(c[j]) => Search!Covers(c[i])
             /\ c[i].id \in packIds /\ ~Search!Covers(c[i]) => c[j].id \in packIds

\* The covering releases come first, and none is lost or repeated
\* (_prioritize_requested_issue_coverage).
LEMMA CoveringFirstKnown ==
  ASSUME NEW c \in Lists, Differ(c)
  PROVE  LET r == Search!CoveringFirst(c) IN
           /\ r \in Lists /\ Differ(r) /\ Search!IdsOf(r) = Search!IdsOf(c)
           /\ Ordered(r, {})
<1> DEFINE a == Search!Covering(c)
           b == Search!Others(c)
           r == a \o b
<1>1. /\ a \in Lists /\ Differ(a) /\ \A i \in 1..Len(a) : Search!Covers(a[i])
      /\ b \in Lists /\ Differ(b) /\ \A i \in 1..Len(b) : ~Search!Covers(b[i])
      /\ Search!IdsOf(a) \union Search!IdsOf(b) = Search!IdsOf(c)
      /\ Search!IdsOf(a) \cap Search!IdsOf(b) = {}
  BY CoveringKnown
<1>2. Search!CoveringFirst(c) = r
  BY DEF Search!CoveringFirst
<1> HIDE DEF a, b
<1>3. /\ r \in Lists /\ Differ(r) /\ Search!IdsOf(r) = Search!IdsOf(a) \union Search!IdsOf(b)
      /\ Len(a) \in Nat /\ Len(r) = Len(a) + Len(b)
      /\ \A i \in 1..Len(r) :
           \/ i \in 1..Len(a) /\ r[i] = a[i]
           \/ i > Len(a) /\ i - Len(a) \in 1..Len(b) /\ r[i] = b[i - Len(a)]
  BY <1>1, BothDiffer
<1> HIDE DEF r
<1>4. \A i, j \in 1..Len(r) : i < j /\ Search!Covers(r[j]) => Search!Covers(r[i])
  BY <1>1, <1>3
<1> QED
  BY <1>1, <1>2, <1>3, <1>4 DEF Ordered

\* Covering packs, then exact candidates, then the other packs, each once (search).
LEMMA MergedKnown ==
  ASSUME NEW e \in Lists, Differ(e), NEW k \in Lists, Differ(k),
         Search!IdsOf(e) \cap Search!IdsOf(k) = {}, ~Search!HasCoverage(e)
  PROVE  LET r == Search!Merged(e, k) IN
           /\ r \in Lists /\ Differ(r) /\ Search!IdsOf(r) = Search!IdsOf(e) \union Search!IdsOf(k)
           /\ Ordered(r, Search!IdsOf(k))
<1> DEFINE a == Search!Covering(k)
           b == Search!Others(k)
           u == a \o e
           r == u \o b
<1>1. /\ a \in Lists /\ Differ(a) /\ \A i \in 1..Len(a) : Search!Covers(a[i])
      /\ b \in Lists /\ Differ(b) /\ \A i \in 1..Len(b) : ~Search!Covers(b[i])
      /\ Search!IdsOf(a) \union Search!IdsOf(b) = Search!IdsOf(k)
      /\ Search!IdsOf(a) \cap Search!IdsOf(b) = {}
  BY CoveringKnown
<1>2. Search!Merged(e, k) = r
  BY DEF Search!Merged
<1>3. DOMAIN e = 1..Len(e) /\ DOMAIN b = 1..Len(b) /\ DOMAIN a = 1..Len(a)
  BY <1>1 DEF Lists
<1>4. \A i \in 1..Len(e) : ~Search!Covers(e[i]) /\ e[i].id \notin Search!IdsOf(k)
  BY <1>3 DEF Search!HasCoverage, Search!IdsOf
<1>5. \A i \in 1..Len(b) : b[i].id \in Search!IdsOf(k)
  BY <1>1, <1>3 DEF Search!IdsOf
<1> HIDE DEF a, b
<1>6. Search!IdsOf(a) \cap Search!IdsOf(e) = {}
  BY <1>1
<1>7. /\ u \in Lists /\ Differ(u) /\ Search!IdsOf(u) = Search!IdsOf(a) \union Search!IdsOf(e)
      /\ Len(a) \in Nat /\ Len(u) = Len(a) + Len(e)
      /\ \A i \in 1..Len(u) :
           \/ i \in 1..Len(a) /\ u[i] = a[i]
           \/ i > Len(a) /\ i - Len(a) \in 1..Len(e) /\ u[i] = e[i - Len(a)]
  BY <1>1, <1>6, BothDiffer
<1> HIDE DEF u
<1>8. Search!IdsOf(u) \cap Search!IdsOf(b) = {}
  BY <1>1, <1>7
<1>9. /\ r \in Lists /\ Differ(r) /\ Search!IdsOf(r) = Search!IdsOf(u) \union Search!IdsOf(b)
      /\ Len(u) \in Nat /\ Len(r) = Len(u) + Len(b)
      /\ \A i \in 1..Len(r) :
           \/ i \in 1..Len(u) /\ r[i] = u[i]
           \/ i > Len(u) /\ i - Len(u) \in 1..Len(b) /\ r[i] = b[i - Len(u)]
  BY <1>1, <1>7, <1>8, BothDiffer
<1> HIDE DEF r
<1>10. \A i \in 1..Len(r) :
         \/ i <= Len(a) /\ Search!Covers(r[i])
         \/ i > Len(a) /\ i <= Len(u) /\ ~Search!Covers(r[i]) /\ r[i].id \notin Search!IdsOf(k)
         \/ i > Len(u) /\ ~Search!Covers(r[i]) /\ r[i].id \in Search!IdsOf(k)
  <2> SUFFICES ASSUME NEW i \in 1..Len(r)
               PROVE  \/ i <= Len(a) /\ Search!Covers(r[i])
                      \/ i > Len(a) /\ i <= Len(u) /\ ~Search!Covers(r[i]) /\ r[i].id \notin Search!IdsOf(k)
                      \/ i > Len(u) /\ ~Search!Covers(r[i]) /\ r[i].id \in Search!IdsOf(k)
    OBVIOUS
  <2>1. CASE i \in 1..Len(u) /\ r[i] = u[i]
    BY <1>1, <1>4, <1>7, <2>1
  <2>2. CASE i > Len(u) /\ i - Len(u) \in 1..Len(b) /\ r[i] = b[i - Len(u)]
    BY <1>1, <1>5, <2>2
  <2> QED
    BY <1>9, <2>1, <2>2
<1>11. Len(e) \in Nat /\ Len(b) \in Nat /\ Len(r) \in Nat
  BY <1>1, <1>9 DEF Lists
<1>12. Ordered(r, Search!IdsOf(k))
  <2> SUFFICES ASSUME NEW i \in 1..Len(r), NEW j \in 1..Len(r), i < j
               PROVE  /\ Search!Covers(r[j]) => Search!Covers(r[i])
                      /\ r[i].id \in Search!IdsOf(k) /\ ~Search!Covers(r[i]) => r[j].id \in Search!IdsOf(k)
    BY DEF Ordered
  <2>1. i \in Nat /\ j \in Nat /\ Len(a) \in Nat /\ Len(u) \in Nat
    BY <1>7, <1>9, <1>11
  <2>2. CASE i <= Len(a)
    <3>1. ~(i > Len(a)) /\ ~(i > Len(u))
      BY <1>1, <1>7, <2>1, <2>2 DEF Lists
    <3> QED
      BY <1>10, <3>1
  <2>3. CASE i > Len(a) /\ i <= Len(u)
    <3>1. ~(i <= Len(a)) /\ ~(i > Len(u)) /\ ~(j <= Len(a))
      BY <2>1, <2>3
    <3> QED
      BY <1>10, <3>1
  <2>4. CASE i > Len(a) /\ i > Len(u)
    <3>1. ~(i <= Len(a)) /\ ~(i <= Len(u)) /\ ~(j <= Len(a)) /\ ~(j <= Len(u))
      BY <2>1, <2>4
    <3> QED
      BY <1>10, <3>1
  <2> QED
    BY <2>1, <2>2, <2>3, <2>4
<1> QED
  BY <1>1, <1>2, <1>7, <1>9, <1>12

-----------------------------------------------------------------------------
Covered(c) == Search!HasCoverage(c)
Asks == Len(Search!ExactQueries(intent))
Broadens == Len(Search!FallbackQueries(intent))

\* No release is kept twice, in either list.
ApartInv ==
  /\ exact \in Lists /\ packs \in Lists
  /\ Differ(exact) /\ Differ(packs)
  /\ Search!IdsOf(exact) \cap Search!IdsOf(packs) = {}

\* A search goes on only while the issue was not found, and knows how far it is.
StageInv ==
  /\ searching \in {"idle", "exact", "packs", "over"} /\ asked \in Nat
  /\ searching # "over" => reply = Search!NoReply
  /\ searching = "idle" => asked = 0 /\ exact = <<>>
  /\ searching \in {"idle", "exact"} => packs = <<>>
  /\ searching = "exact" => asked < Asks
  /\ searching = "packs" => /\ ~intent.collection /\ ~Covered(exact)
                            /\ Asks <= asked /\ asked < Asks + Broadens

SearchInv == ApartInv /\ StageInv /\ Search!ReplyFaithful /\ Search!AskedEnough

\* What covers a part covers the whole.
LEMMA CoversBoth ==
  ASSUME NEW s \in Lists, NEW t \in Lists, Covered(s) \/ Covered(t)
  PROVE  Covered(s \o t)
<1>1. /\ Len(s) \in Nat /\ Len(t) \in Nat /\ Len(s \o t) = Len(s) + Len(t)
      /\ \A i \in 1..Len(s) : (s \o t)[i] = s[i]
      /\ \A i \in 1..Len(t) : (s \o t)[i + Len(s)] = t[i]
  BY ConcatProperties DEF Lists
<1>2. DOMAIN s = 1..Len(s) /\ DOMAIN t = 1..Len(t) /\ DOMAIN (s \o t) = 1..Len(s \o t)
  <2>1. s \o t \in Lists
    BY ConcatProperties DEF Lists
  <2> QED
    BY <2>1 DEF Lists
<1> DEFINE u == s \o t
<1> HIDE DEF u
<1>3. CASE Covered(s)
  <2>1. PICK i \in 1..Len(s) : Search!Covers(s[i])
    BY <1>2, <1>3 DEF Covered, Search!HasCoverage
  <2>2. i \in 1..Len(u) /\ u[i] = s[i]
    BY <1>1 DEF u
  <2> QED
    BY <1>2, <2>1, <2>2 DEF Covered, Search!HasCoverage, u
<1>4. CASE Covered(t)
  <2>1. PICK i \in 1..Len(t) : Search!Covers(t[i])
    BY <1>2, <1>4 DEF Covered, Search!HasCoverage
  <2>2. i + Len(s) \in 1..Len(u) /\ u[i + Len(s)] = t[i]
    BY <1>1 DEF u
  <2> QED
    BY <1>2, <2>1, <2>2 DEF Covered, Search!HasCoverage, u
<1> QED
  BY <1>3, <1>4

\* A response that holds everything that was found, in order.
LEMMA ReportsFaithfully ==
  ASSUME intent' = intent, NEW c \in Lists, Differ(c), reply' = Search!Respond(c),
         Search!IdsOf(c) = Search!IdsOf(exact') \union Search!IdsOf(packs'),
         ~intent.collection => Ordered(c, Search!IdsOf(packs'))
  PROVE  Search!ReplyFaithful'
<1> DEFINE r == Search!Respond(c)
<1>1. /\ Search!Cardinality(Search!IdsOf(r.candidates)) = Len(r.candidates)
      /\ \A i \in DOMAIN r.candidates : i \in 1..Len(c) /\ r.candidates[i] = c[i]
      /\ IF r.truncated
           THEN Len(r.candidates) = PageLimit
                /\ Search!IdsOf(c) \ Search!IdsOf(r.candidates) # {}
           ELSE Search!IdsOf(r.candidates) = Search!IdsOf(c)
  BY RespondKnown
<1> HIDE DEF r
<1>2. reply' = r
  BY DEF r
<1>3. Search!NothingLost'
  BY <1>1, <1>2 DEF Search!NothingLost, Search!Shown, Search!Found
<1>4. Search!RequestedFirst'
  BY <1>1, <1>2 DEF Search!RequestedFirst, Ordered, Search!Covers
<1> QED
  BY <1>3, <1>4 DEF Search!ReplyFaithful

\* A response after which nothing more was worth asking.
LEMMA ReportsInTime ==
  ASSUME intent' = intent, NEW c \in Lists, Differ(c), reply' = Search!Respond(c),
         \/ ~intent.collection /\ Covered(exact' \o packs')
         \/ intent.collection /\ Len(c) > PageLimit
         \/ asked' = Asks + Broadens
  PROVE  Search!AskedEnough'
<1>1. reply'.truncated <=> Len(c) > PageLimit
  BY RespondKnown
<1>2. Search!HasCoverage(exact \o packs)' <=> Covered(exact' \o packs')
  BY DEF Covered, Search!HasCoverage, Search!Covers
<1> QED
  BY <1>1, <1>2 DEF Search!AskedEnough, Asks, Broadens

\* No response yet, or none any more.
LEMMA NothingReported ==
  ASSUME reply'.kind \notin {"found", "empty"}
  PROVE  Search!ReplyFaithful' /\ Search!AskedEnough'
BY DEF Search!ReplyFaithful, Search!AskedEnough, Search!Answered

\* An exact query is answered.
LEMMA ExactKeeps ==
  ASSUME SearchInv, Search!ExactLists
  PROVE  SearchInv'
<1>1. PICK p \in Search!Pages : exact' = exact \o Search!New(p, exact)
  BY DEF Search!ExactLists
<1>2. /\ searching = "exact" /\ asked' = asked + 1 /\ intent' = intent /\ packs' = packs
      /\ packs = <<>> /\ asked \in Nat /\ asked < Asks /\ reply = Search!NoReply
      /\ exact \in Lists /\ packs \in Lists /\ Differ(exact) /\ Differ(packs)
      /\ Search!IdsOf(exact) \cap Search!IdsOf(packs) = {}
  BY DEF SearchInv, ApartInv, StageInv, Search!ExactLists
<1> DEFINE t == Search!New(p, exact)
<1>3. /\ t \in Lists /\ Differ(t)
      /\ Search!IdsOf(t) \cap Search!IdsOf(exact) = {} /\ Search!IdsOf(t) \cap Search!IdsOf(packs) = {}
  BY NewKnown
<1> HIDE DEF t
<1>4. /\ exact' \in Lists /\ Differ(exact')
      /\ Search!IdsOf(exact') = Search!IdsOf(exact) \union Search!IdsOf(t)
  BY <1>1, <1>2, <1>3, BothDiffer DEF t
<1>5. ApartInv'
  BY <1>2, <1>3, <1>4 DEF ApartInv, Differ
<1>6. Search!IdsOf(packs') = {}
  BY <1>2 DEF Search!IdsOf
<1>7. /\ Asks \in Nat /\ Asks >= 1 /\ Broadens \in Nat
      /\ Search!FallbackQueries(intent) = <<>> <=> Broadens = 0
      /\ intent.collection => Search!FallbackQueries(intent) = <<>>
  BY QueriesCounted DEF Asks, Broadens
<1>8. Asks' = Asks /\ Broadens' = Broadens
  BY <1>2 DEF Asks, Broadens
<1> DEFINE found == ~intent.collection /\ Covered(exact')
           last == asked' = Asks
           broader == Search!FallbackQueries(intent) # <<>>
<1>9. \/ found /\ searching' = "over" /\ reply' = Search!Respond(Search!CoveringFirst(exact'))
      \/ ~found /\ ~last /\ searching' = searching /\ reply' = reply
      \/ ~found /\ last /\ broader /\ searching' = "packs" /\ reply' = reply
      \/ /\ ~found /\ (Search!Full(exact') \/ (last /\ ~broader))
         /\ searching' = "over" /\ reply' = Search!Respond(exact')
  BY DEF Search!ExactLists, Covered, Asks
<1>10. CASE found /\ searching' = "over" /\ reply' = Search!Respond(Search!CoveringFirst(exact'))
  <2> DEFINE c == Search!CoveringFirst(exact')
  <2>1. c \in Lists /\ Differ(c) /\ Search!IdsOf(c) = Search!IdsOf(exact') /\ Ordered(c, {})
    BY <1>4, CoveringFirstKnown
  <2> HIDE DEF c
  <2>2. reply' = Search!Respond(c)
    BY <1>10 DEF c
  <2>3. Search!ReplyFaithful'
    BY <1>2, <1>6, <2>1, <2>2, ReportsFaithfully
  <2>4. ~intent.collection /\ Covered(exact' \o packs')
    <3>1. packs' \in Lists /\ exact' \in Lists /\ Covered(exact') /\ ~intent.collection
      BY <1>2, <1>4, <1>10
    <3> QED
      BY <3>1, CoversBoth
  <2>5. Search!AskedEnough'
    BY <1>2, <2>1, <2>2, <2>4, ReportsInTime
  <2>6. StageInv'
    BY <1>2, <1>10 DEF StageInv
  <2> QED
    BY <1>5, <2>3, <2>5, <2>6 DEF SearchInv
<1>11. CASE ~found /\ ~last /\ searching' = searching /\ reply' = reply
  <2>1. reply'.kind = "none"
    BY <1>2, <1>11 DEF Search!NoReply
  <2>2. asked' \in Nat /\ asked' < Asks
    BY <1>2, <1>7, <1>11
  <2>3. StageInv'
    BY <1>2, <1>8, <1>11, <2>2 DEF StageInv, Search!NoReply
  <2> QED
    BY <1>5, <2>1, <2>3, NothingReported DEF SearchInv
<1>12. CASE ~found /\ last /\ broader /\ searching' = "packs" /\ reply' = reply
  <2>1. reply'.kind = "none"
    BY <1>2, <1>12 DEF Search!NoReply
  <2>2. asked' \in Nat /\ Asks <= asked' /\ asked' < Asks + Broadens
    BY <1>2, <1>7, <1>12
  <2>3. ~intent'.collection /\ ~Covered(exact)'
    <3>1. ~intent.collection /\ ~Covered(exact')
      BY <1>7, <1>12
    <3> QED
      BY <1>2, <3>1 DEF Covered, Search!HasCoverage, Search!Covers
  <2>4. StageInv'
    BY <1>2, <1>8, <1>12, <2>2, <2>3 DEF StageInv, Search!NoReply
  <2> QED
    BY <1>5, <2>1, <2>4, NothingReported DEF SearchInv
<1>13. CASE /\ ~found /\ (Search!Full(exact') \/ (last /\ ~broader))
            /\ searching' = "over" /\ reply' = Search!Respond(exact')
  <2>1. ~intent.collection => Ordered(exact', Search!IdsOf(packs'))
    <3>1. DOMAIN exact' = 1..Len(exact')
      BY <1>4 DEF Lists
    <3> QED
      BY <1>6, <1>13, <3>1 DEF Ordered, Covered, Search!HasCoverage
  <2>2. Search!ReplyFaithful'
    BY <1>2, <1>4, <1>6, <1>13, <2>1, ReportsFaithfully
  <2>3. (intent.collection /\ Len(exact') > PageLimit) \/ asked' = Asks + Broadens
    <3>1. Len(exact') \in Nat /\ PageLimit \in Nat
      BY <1>4, SearchAssumption DEF Lists
    <3>2. Search!Full(exact') => intent.collection /\ Len(exact') > PageLimit
      BY <3>1 DEF Search!Full, Search!Limit
    <3>3. last /\ ~broader => asked' = Asks + Broadens
      BY <1>7
    <3> QED
      BY <1>13, <3>2, <3>3
  <2>4. Search!AskedEnough'
    BY <1>2, <1>4, <1>13, <2>3, ReportsInTime
  <2>5. StageInv'
    BY <1>2, <1>13 DEF StageInv
  <2> QED
    BY <1>5, <2>2, <2>4, <2>5 DEF SearchInv
<1> QED
  BY <1>9, <1>10, <1>11, <1>12, <1>13

\* A query for packs is answered.
LEMMA PacksKeep ==
  ASSUME SearchInv, Search!PacksList
  PROVE  SearchInv'
<1>1. PICK p \in Search!Pages : packs' = packs \o Search!New(p, packs)
  BY DEF Search!PacksList
<1>2. /\ searching = "packs" /\ asked' = asked + 1 /\ intent' = intent /\ exact' = exact
      /\ asked \in Nat /\ Asks <= asked /\ asked < Asks + Broadens /\ reply = Search!NoReply
      /\ ~intent.collection /\ ~Covered(exact)
      /\ exact \in Lists /\ packs \in Lists /\ Differ(exact) /\ Differ(packs)
      /\ Search!IdsOf(exact) \cap Search!IdsOf(packs) = {}
  BY DEF SearchInv, ApartInv, StageInv, Search!PacksList
<1> DEFINE t == Search!New(p, packs)
<1>3. /\ t \in Lists /\ Differ(t)
      /\ Search!IdsOf(t) \cap Search!IdsOf(exact) = {} /\ Search!IdsOf(t) \cap Search!IdsOf(packs) = {}
  BY NewKnown
<1> HIDE DEF t
<1>4. /\ packs' \in Lists /\ Differ(packs')
      /\ Search!IdsOf(packs') = Search!IdsOf(packs) \union Search!IdsOf(t)
  BY <1>1, <1>2, <1>3, BothDiffer DEF t
<1>5. Search!IdsOf(exact') \cap Search!IdsOf(packs') = {}
  BY <1>2, <1>3, <1>4
<1>6. ApartInv'
  BY <1>2, <1>4, <1>5 DEF ApartInv, Differ
<1>7. Asks \in Nat /\ Broadens \in Nat
  BY QueriesCounted DEF Asks, Broadens
<1>8. Asks' = Asks /\ Broadens' = Broadens
  BY <1>2 DEF Asks, Broadens
<1> DEFINE done == Covered(packs') \/ asked' = Asks + Broadens
<1>9. \/ done /\ searching' = "over" /\ reply' = Search!Respond(Search!Merged(exact, packs'))
      \/ ~done /\ searching' = searching /\ reply' = reply
  BY DEF Search!PacksList, Search!PacksDone, Covered, Asks, Broadens
<1>10. CASE done /\ searching' = "over" /\ reply' = Search!Respond(Search!Merged(exact, packs'))
  <2> DEFINE c == Search!Merged(exact, packs')
  <2>1. /\ c \in Lists /\ Differ(c)
        /\ Search!IdsOf(c) = Search!IdsOf(exact) \union Search!IdsOf(packs')
        /\ Ordered(c, Search!IdsOf(packs'))
    BY <1>2, <1>4, <1>5, MergedKnown DEF Covered
  <2> HIDE DEF c
  <2>2. reply' = Search!Respond(c)
    BY <1>10 DEF c
  <2>3. Search!ReplyFaithful'
    BY <1>2, <2>1, <2>2, ReportsFaithfully
  <2>4. (~intent.collection /\ Covered(exact' \o packs')) \/ asked' = Asks + Broadens
    BY <1>2, <1>4, <1>10, CoversBoth
  <2>5. Search!AskedEnough'
    BY <1>2, <2>1, <2>2, <2>4, ReportsInTime
  <2>6. StageInv'
    BY <1>2, <1>10 DEF StageInv
  <2> QED
    BY <1>6, <2>3, <2>5, <2>6 DEF SearchInv
<1>11. CASE ~done /\ searching' = searching /\ reply' = reply
  <2>1. reply'.kind = "none"
    BY <1>2, <1>11 DEF Search!NoReply
  <2>2. asked' \in Nat /\ Asks <= asked' /\ asked' < Asks + Broadens
    BY <1>2, <1>7, <1>11
  <2>3. ~Covered(exact)'
    BY <1>2 DEF Covered, Search!HasCoverage, Search!Covers
  <2>4. StageInv'
    BY <1>2, <1>8, <1>11, <2>2, <2>3 DEF StageInv, Search!NoReply
  <2> QED
    BY <1>6, <2>1, <2>4, NothingReported DEF SearchInv
<1> QED
  BY <1>9, <1>10, <1>11

\* The request begins, is refused or fails.
LEMMA OthersKeep ==
  ASSUME SearchInv, Search!Refuse \/ Search!Begin \/ Search!QueryFails
  PROVE  SearchInv'
<1>1. /\ intent' = intent /\ asked' = asked /\ exact' = exact /\ packs' = packs
  BY DEF Search!Refuse, Search!Begin, Search!QueryFails
<1>2. ApartInv'
  BY <1>1 DEF SearchInv, ApartInv, Differ
<1>3. searching' = "over" \/ (searching = "idle" /\ searching' = "exact" /\ reply' = reply)
  BY DEF Search!Refuse, Search!Begin, Search!QueryFails
<1>4. reply'.kind \notin {"found", "empty"}
  BY DEF Search!Refuse, Search!Begin, Search!QueryFails, SearchInv, StageInv, Search!NoReply
<1>5. Asks' = Asks /\ Asks \in Nat /\ Asks >= 1
  BY <1>1, QueriesCounted DEF Asks
<1>6. StageInv'
  BY <1>1, <1>3, <1>5 DEF SearchInv, StageInv, Search!NoReply
<1> QED
  BY <1>2, <1>4, <1>6, NothingReported DEF SearchInv

\* A step that no search takes.
LEMMA NoSearchKeeps ==
  ASSUME SearchInv, UNCHANGED searchVars
  PROVE  SearchInv'
BY DEF searchVars, SearchInv, ApartInv, StageInv, Asks, Broadens, Covered, Differ,
       Search!ReplyFaithful, Search!AskedEnough, Search!Answered, Search!NothingLost, Search!Shown,
       Search!Found, Search!RequestedFirst, Search!Covers, Search!HasCoverage, Search!NoReply

(* Whatever a search was answered so far, no release is kept twice and it  *)
(* has not asked more or less than its plan.                               *)
THEOREM SearchesKeepTheirPlace == ServiceSpec => []SearchInv
<1>1. ServiceInit => SearchInv
  <2> SUFFICES ASSUME ServiceInit PROVE SearchInv
    OBVIOUS
  <2>1. /\ searching = "idle" /\ asked = 0 /\ exact = <<>> /\ packs = <<>> /\ reply = Search!NoReply
    BY DEF ServiceInit, Search!Init
  <2>2. ApartInv
    BY <2>1 DEF ApartInv, Differ, Lists, Search!IdsOf
  <2>3. StageInv
    BY <2>1 DEF StageInv
  <2>4. Search!ReplyFaithful /\ Search!AskedEnough
    BY <2>1 DEF Search!ReplyFaithful, Search!AskedEnough, Search!Answered, Search!NoReply
  <2> QED
    BY <2>2, <2>3, <2>4 DEF SearchInv
<1>2. SearchInv /\ [ServiceNext]_<<endpoint, vars, searchVars>> => SearchInv'
  BY ExactKeeps, PacksKeep, OthersKeep, NoSearchKeeps
  DEF ServiceNext, ResolveStep, SearchStep, Search!Next
<1> QED
  BY <1>1, <1>2, PTL DEF ServiceSpec

(* A response names every release that any query found exactly once, or    *)
(* says that it does not, with the ones that cover the issue first         *)
(* (_append_search_candidates and the orderings of search), for any        *)
(* intents, releases and limit.                                            *)
THEOREM RepliesAreFaithful == ServiceSpec => []ReplyFaithful
<1>1. SearchInv => ReplyFaithful
  BY DEF SearchInv, ReplyFaithful
<1> QED
  BY <1>1, SearchesKeepTheirPlace, PTL

(* A search gives up only when nothing is left to ask.                     *)
THEOREM SearchesAskEnough == ServiceSpec => []AskedEnough
<1>1. SearchInv => AskedEnough
  BY DEF SearchInv, AskedEnough
<1> QED
  BY <1>1, SearchesKeepTheirPlace, PTL

-----------------------------------------------------------------------------
(* The queries of a search, for any intents.                               *)

\* One list behind another.
LEMMA JoinedKnown ==
  ASSUME NEW A, NEW B, NEW s \in Seq(A), NEW t \in Seq(B)
  PROVE  LET u == s \o t IN
           /\ Len(u) = Len(s) + Len(t) /\ Len(s) \in Nat /\ Len(t) \in Nat /\ DOMAIN u = 1..Len(u)
           /\ \A k \in 1..Len(s) : u[k] = s[k]
           /\ \A k \in 1..Len(u) : k > Len(s) => k - Len(s) \in 1..Len(t) /\ u[k] = t[k - Len(s)]
<1> DEFINE C == A \union B
           u == s \o t
<1>1. s \in Seq(C) /\ t \in Seq(C)
  <2>1. A \subseteq C /\ B \subseteq C
    OBVIOUS
  <2> HIDE DEF C
  <2> QED
    BY <2>1, SeqMonotonic
<1> HIDE DEF C
<1>2. /\ u \in Seq(C) /\ Len(u) = Len(s) + Len(t)
      /\ \A k \in 1..Len(s) + Len(t) : u[k] = IF k <= Len(s) THEN s[k] ELSE t[k - Len(s)]
  BY ONLY <1>1, ConcatProperties
<1> HIDE DEF u
<1>3. Len(s) \in Nat /\ Len(t) \in Nat /\ DOMAIN u = 1..Len(u)
  BY <1>2
<1>4. \A k \in 1..Len(s) : u[k] = s[k]
  BY <1>2, <1>3
<1>5. \A k \in 1..Len(u) : k > Len(s) => k - Len(s) \in 1..Len(t) /\ u[k] = t[k - Len(s)]
  BY <1>2, <1>3
<1> QED
  BY <1>2, <1>3, <1>4, <1>5 DEF u

\* Five queries at most, and what may repeat.
LEMMA FewQueries ==
  ASSUME intent \in Intents
  PROVE  Search!FiveDifferent
<1> DEFINE sent == Search!ExactQueries(intent)
           broader == Search!FallbackQueries(intent)
           plan == sent \o broader
           number == Search!Either(intent.volume, intent.issue)
           titled == intent.title \in {<<"Vol", number>>, <<"Volume", number>>}
           years == {intent.release, intent.seriesYear, intent.year}
           dated == intent.issue \in years
<1>0. Spelled(intent)
  BY SearchAssumption DEF Spelled
<1>1. CASE intent.collection
  <2>1. broader = <<>> /\ sent = Search!CollectionQueries(intent)
    BY <1>1 DEF Search!FallbackQueries, Search!ExactQueries
  <2>2. /\ \E E : sent \in Seq(E)
        /\ Len(sent) \in Nat /\ 1 <= Len(sent) /\ Len(sent) <= 5 /\ DOMAIN sent = 1..Len(sent)
        /\ \A k, l \in 1..Len(sent) : k < l /\ sent[k] = sent[l] => titled
    <3> DEFINE queries == Search!TitledQueries(intent)
    <3>1. /\ \E E : sent \in Seq(E)
          /\ Len(sent) \in Nat /\ 1 <= Len(sent) /\ Len(sent) <= 5 /\ DOMAIN sent = 1..Len(sent)
          /\ \A k, l \in 1..Len(sent) :
               k < l /\ sent[k] = sent[l] =>
                 k \in 1..Len(queries) /\ l \in 1..Len(queries) /\ queries[k] = queries[l]
      BY <2>1, CollectionQueriesKnown
    <3>2. \A k, l \in 1..Len(queries) : k < l /\ queries[k] = queries[l] => titled
      BY <1>0, TitledRepeats
    <3> HIDE DEF sent, queries, titled
    <3> QED
      BY <3>1, <3>2
  <2> HIDE DEF sent, broader, titled, dated
  <2>3. plan = sent
    BY <2>1, <2>2, ConcatEmptySeq
  <2> HIDE DEF plan
  <2>4. Len(plan) \in 1..5
    BY <2>2, <2>3
  <2>5. \A k, l \in DOMAIN plan :
          plan[k] = plan[l] /\ k < l =>
            (intent.collection /\ titled) \/ (k <= Len(sent) /\ Len(sent) < l /\ dated)
    BY <1>1, <2>2, <2>3
  <2> QED
    BY <2>4, <2>5 DEF Search!FiveDifferent, Search!Plan, plan, sent, broader, titled, dated, number, years
<1>2. CASE Numbered(intent)
  <2> DEFINE p == Search!PreferredYear(intent)
             c == Search!CompatibilityYear(intent)
             issue == intent.issue
             base == <<intent.series, issue>>
  <2>1. PICK A : sent \in Seq(A)
    BY <1>2, IssueQueriesKnown DEF Search!ExactQueries, Numbered
  <2>2. PICK B : broader \in Seq(B)
    BY <1>2, FallbackQueriesKnown
  <2>3. /\ Len(sent) \in Nat /\ 1 <= Len(sent) /\ Len(sent) <= 3
        /\ sent \in Seq({base, Dated(intent, p), Dated(intent, c)})
        /\ \A k, l \in 1..Len(sent) : sent[k] = sent[l] => k = l
    BY <1>2, IssueQueriesKnown DEF Search!ExactQueries, Numbered
  <2>4. /\ Len(broader) \in Nat /\ 1 <= Len(broader) /\ Len(broader) <= 2
        /\ \A k, l \in 1..Len(broader) : broader[k] = broader[l] => k = l
        /\ \A k \in 1..Len(broader) :
             \/ broader[k] = <<intent.series>>
             \/ broader[k] = <<intent.series, p>> /\ p # Absent
             \/ broader[k] = <<intent.series, c>> /\ c # Absent
    BY <1>2, FallbackQueriesKnown
  <2>5. p \in years /\ c \in years
    BY DEF Search!PreferredYear, Search!CompatibilityYear, Search!Either
  <2> HIDE DEF sent, broader, p, c, years
  <2>6. \A k \in 1..Len(sent) : sent[k] \in {base, Dated(intent, p), Dated(intent, c)}
    BY <2>3
  <2>7. \A k \in 1..Len(sent), l \in 1..Len(broader) : sent[k] = broader[l] => dated
    <3> SUFFICES ASSUME NEW k \in 1..Len(sent), NEW l \in 1..Len(broader), sent[k] = broader[l]
                 PROVE  dated
      OBVIOUS
    <3>1. broader[l] # Dated(intent, p) /\ broader[l] # Dated(intent, c)
      <4>1. /\ Len(Dated(intent, p)) = 3 /\ Len(Dated(intent, c)) = 3
            /\ Len(<<intent.series>>) = 1 /\ Len(<<intent.series, p>>) = 2 /\ Len(<<intent.series, c>>) = 2
        BY DEF Dated
      <4>2. Len(broader[l]) = 1 \/ Len(broader[l]) = 2
        BY <2>4, <4>1
      <4> DEFINE d == Dated(intent, p)
                 e == Dated(intent, c)
                 f == broader[l]
      <4> HIDE DEF d, e, f
      <4>3. Len(d) = 3 /\ Len(e) = 3 /\ (Len(f) = 1 \/ Len(f) = 2)
        BY <4>1, <4>2 DEF d, e, f
      <4> DEFINE length == Len(f)
      <4>4. length = 1 \/ length = 2
        BY <4>3
      <4>5. (f = d => length = Len(d)) /\ (f = e => length = Len(e))
        OBVIOUS
      <4> HIDE DEF length
      <4>6. f # d /\ f # e
        BY ONLY <4>3, <4>4, <4>5
      <4> QED
        BY <4>6 DEF d, e, f
    <3>2. broader[l] = base
      BY <2>6, <3>1
    <3>3. broader[l] # <<intent.series>>
      <4>1. Len(base) = 2 /\ Len(<<intent.series>>) = 1
        OBVIOUS
      <4> QED
        BY <3>2, <4>1
    <3>4. base = <<intent.series, p>> \/ base = <<intent.series, c>>
      BY <2>4, <3>2, <3>3
    <3>5. base[2] = issue /\ <<intent.series, p>>[2] = p /\ <<intent.series, c>>[2] = c
      OBVIOUS
    <3>6. issue = p \/ issue = c
      BY <3>4, <3>5
    <3> QED
      BY <2>5, <3>6
  <2> HIDE DEF titled, dated, issue, base
  <2>8. /\ Len(plan) = Len(sent) + Len(broader) /\ DOMAIN plan = 1..Len(plan)
        /\ \A k \in 1..Len(sent) : plan[k] = sent[k]
        /\ \A k \in 1..Len(plan) :
             k > Len(sent) => k - Len(sent) \in 1..Len(broader) /\ plan[k] = broader[k - Len(sent)]
    BY <2>1, <2>2, JoinedKnown
  <2> HIDE DEF plan
  <2> DEFINE m == Len(sent)
             n == Len(broader)
             o == Len(plan)
  <2>9. /\ m \in Nat /\ 1 <= m /\ m <= 3 /\ n \in Nat /\ 1 <= n /\ n <= 2 /\ o = m + n
        /\ \A k, l \in 1..m : sent[k] = sent[l] => k = l
        /\ \A k, l \in 1..n : broader[k] = broader[l] => k = l
        /\ \A k \in 1..m, l \in 1..n : sent[k] = broader[l] => dated
        /\ \A k \in 1..m : plan[k] = sent[k]
        /\ \A k \in 1..o : k > m => k - m \in 1..n /\ plan[k] = broader[k - m]
    BY <2>3, <2>4, <2>7, <2>8
  <2>10. DOMAIN plan = 1..o
    BY <2>8
  <2> HIDE DEF m, n, o
  <2>11. ASSUME NEW k \in 1..o, NEW l \in 1..o, plan[k] = plan[l], k < l
         PROVE  k <= m /\ m < l /\ dated
    <3>1. k \in Nat /\ l \in Nat /\ k >= 1 /\ l >= 1
      BY <2>9
    <3>2. CASE l <= m
      <4>1. k \in 1..m /\ l \in 1..m
        BY <2>9, <2>11, <3>1, <3>2
      <4>2. k = l
        BY <2>9, <2>11, <4>1
      <4> QED
        BY <2>11, <3>1, <4>2
    <3>3. CASE k > m
      <4>1. k - m \in 1..n /\ l - m \in 1..n /\ broader[k - m] = broader[l - m]
        BY <2>9, <2>11, <3>1, <3>3
      <4>2. k - m = l - m
        BY <2>9, <4>1
      <4> QED
        BY <2>9, <2>11, <3>1, <4>2
    <3>4. CASE k <= m /\ m < l
      <4>1. k \in 1..m /\ l - m \in 1..n /\ sent[k] = broader[l - m]
        BY <2>9, <2>11, <3>1, <3>4
      <4> QED
        BY <2>9, <3>4, <4>1
    <3> QED
      BY <2>9, <3>1, <3>2, <3>3, <3>4
  <2>12. o \in 1..5
    BY <2>9
  <2> QED
    BY <2>10, <2>11, <2>12
    DEF Search!FiveDifferent, Search!Plan, plan, sent, broader, titled, dated, number, years, issue, m, o
<1>3. CASE ~intent.collection /\ ~Numbered(intent)
  <2> DEFINE q == Search!BuildQuery(intent)
  <2>1. broader = <<>> /\ sent = <<q>>
    BY <1>3 DEF Numbered, Search!FallbackQueries, Search!ExactQueries, Search!ExactIssueQueries
  <2> HIDE DEF q, sent, broader, titled, dated
  <2>2. plan = <<q>>
    BY <2>1, TuplesKnown
  <2> HIDE DEF plan
  <2>3. Len(plan) = 1 /\ DOMAIN plan = {1}
    BY <2>2
  <2>4. Len(plan) \in 1..5
    BY <2>3
  <2>5. \A k, l \in DOMAIN plan : ~(k < l)
    BY <2>3
  <2> QED
    BY <2>4, <2>5 DEF Search!FiveDifferent, Search!Plan, plan, sent, broader
<1> QED
  BY <1>1, <1>2, <1>3 DEF Numbered

\* The years of an issue, of its exact queries and of those for packs.
LEMMA YearsOrdered == Search!YearsInOrder
<1> SUFFICES ASSUME Numbered(intent) PROVE Search!YearsInOrder
  BY DEF Numbered, Search!YearsInOrder
<1> DEFINE sent == Search!ExactQueries(intent)
           broader == Search!FallbackQueries(intent)
           p == Search!PreferredYear(intent)
           c == Search!CompatibilityYear(intent)
           undated == <<intent.series, intent.issue>>
           old == IF intent.seriesYear # Absent THEN intent.seriesYear ELSE intent.year
           new == IF {intent.release, intent.seriesYear} = {Absent} THEN intent.year ELSE intent.release
<1>1. new = p /\ old = c
  <2>1. {intent.release, intent.seriesYear} = {Absent} <=>
          intent.release = Absent /\ intent.seriesYear = Absent
    OBVIOUS
  <2> QED
    BY <2>1 DEF Search!PreferredYear, Search!CompatibilityYear, Search!Either
<1>2. sent = Search!ExactIssueQueries(intent)
  BY DEF Numbered, Search!ExactQueries
<1>3. /\ DOMAIN sent = 1..Len(sent)
      /\ \E k \in 1..Len(sent) : sent[k] = undated
      /\ p # Absent => \E k, l \in 1..Len(sent) : k < l /\ sent[k] = Dated(intent, p) /\ sent[l] = undated
      /\ c # Absent => \E k \in 1..Len(sent) : sent[k] = Dated(intent, c)
      /\ c \notin {Absent, p} =>
           \E k, l \in 1..Len(sent) : k < l /\ sent[k] = undated /\ sent[l] = Dated(intent, c)
  BY <1>2, IssueQueriesKnown
<1>4. /\ DOMAIN broader = 1..Len(broader)
      /\ p # Absent => broader[1] = <<intent.series, p>>
      /\ c # Absent => \E k \in 1..Len(broader) : broader[k] = <<intent.series, c>>
      /\ p = Absent /\ c = Absent => broader = << <<intent.series>> >>
  BY FallbackQueriesKnown
<1>5. /\ \A y : Dated(intent, y) = <<intent.series, intent.issue, y>>
      /\ ~intent.collection /\ intent.issue # Absent
  BY DEF Dated, Numbered
<1> HIDE DEF sent, broader, p, c, old, new
<1>6. undated \in Search!Range(sent)
  BY <1>3 DEF Search!Range
<1>7. new # Absent =>
        /\ Search!Precedes(sent, <<intent.series, intent.issue, new>>, undated)
        /\ broader[1] = <<intent.series, new>>
  BY <1>1, <1>3, <1>4, <1>5 DEF Search!Precedes
<1>8. old # Absent =>
        /\ <<intent.series, intent.issue, old>> \in Search!Range(sent)
        /\ <<intent.series, old>> \in Search!Range(broader)
  BY <1>1, <1>3, <1>4, <1>5 DEF Search!Range
<1>9. old \notin {Absent, new} =>
        Search!Precedes(sent, undated, <<intent.series, intent.issue, old>>)
  BY <1>1, <1>3, <1>5 DEF Search!Precedes
<1>10. {old, new} = {Absent} => broader = << <<intent.series>> >>
  <2>1. {old, new} = {Absent} => old = Absent /\ new = Absent
    OBVIOUS
  <2> QED
    BY <1>1, <1>4, <2>1
<1> QED
  BY <1>6, <1>7, <1>8, <1>9, <1>10 DEF Search!YearsInOrder, sent, broader, old, new

\* Which of a collection's queries are sent.
LEMMA FirstFiveSent == Search!FirstFiveKept
<1> SUFFICES ASSUME intent.collection PROVE Search!FirstFiveKept
  BY DEF Search!FirstFiveKept
<1> DEFINE wanted == Search!TitledQueries(intent) \o Search!AddedQueries(intent)
           sent == Search!ExactQueries(intent)
<1>1. /\ DOMAIN sent = 1..Len(sent)
      /\ DOMAIN wanted = 1..Len(wanted)
      /\ \A k \in 1..Len(wanted) :
           \/ \E m \in 1..Len(sent) : sent[m] = wanted[k]
           \/ /\ Len(sent) = 5
              /\ \A m \in 1..Len(sent) : \E j \in 1..(k - 1) : sent[m] = wanted[j]
  <2>1. sent = Search!CollectionQueries(intent)
    BY DEF Search!ExactQueries
  <2> DEFINE kept == Search!CollectionQueries(intent)
             all == Search!TitledQueries(intent) \o Search!AddedQueries(intent)
  <2>2. /\ DOMAIN kept = 1..Len(kept)
        /\ DOMAIN all = 1..Len(all)
        /\ \A k \in 1..Len(all) :
             \/ \E m \in 1..Len(kept) : kept[m] = all[k]
             \/ /\ Len(kept) = 5
                /\ \A m \in 1..Len(kept) : \E j \in 1..(k - 1) : kept[m] = all[j]
    <3> HIDE DEF kept, all
    <3> QED
      BY CollectionQueriesKnown DEF kept, all
  <2> HIDE DEF all, kept, sent
  <2>3. sent = kept
    BY <2>1 DEF kept
  <2> QED
    BY <2>2, <2>3 DEF wanted, all
<1> HIDE DEF wanted, sent
<1>2. ASSUME NEW k \in DOMAIN wanted
      PROVE  \/ Search!Contains(sent, wanted[k])
             \/ Len(sent) = 5 /\ Search!Range(sent) \subseteq {wanted[j] : j \in 1..(k - 1)}
  <2>1. CASE \E m \in 1..Len(sent) : sent[m] = wanted[k]
    BY <2>1 DEF Search!Contains
  <2>2. CASE Len(sent) = 5 /\ \A m \in 1..Len(sent) : \E j \in 1..(k - 1) : sent[m] = wanted[j]
    <3>1. Search!Range(sent) = {sent[m] : m \in 1..Len(sent)}
      BY <1>1 DEF Search!Range
    <3> QED
      BY <2>2, <3>1
  <2> QED
    BY <1>1, <1>2, <2>1, <2>2
<1> QED
  BY <1>2 DEF Search!FirstFiveKept, wanted, sent

(* What GetComics is asked for one intent - few different queries, in the  *)
(* order of the years, the first ones of those that make sense             *)
(* (_build_queries, _standard_issue_exact_queries,                         *)
(* _standard_issue_fallback_queries) - for any intents.                    *)
THEOREM PlansAreSound == ServiceSpec => []PlanSound
<1> DEFINE Known == intent \in Intents
<1>1. ServiceInit => Known
  BY DEF ServiceInit, Search!Init
<1>2. Known /\ [ServiceNext]_<<endpoint, vars, searchVars>> => Known'
  BY DEF ServiceNext, ResolveStep, SearchStep, searchVars, Search!Next, Search!Refuse, Search!Begin,
         Search!ExactLists, Search!PacksList, Search!QueryFails
<1>3. Known => PlanSound
  BY FewQueries, YearsOrdered, FirstFiveSent DEF PlanSound, Search!PlanSound
<1> QED
  BY <1>1, <1>2, <1>3, PTL DEF ServiceSpec
=============================================================================
