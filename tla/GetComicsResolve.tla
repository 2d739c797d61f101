-------------------------- MODULE GetComicsResolve --------------------------
(***************************************************************************)
(* POST /v1/resolve of the GetComics provider (service.py): the release    *)
(* page is read, and then the links it wraps are unwrapped in parallel,    *)
(* one task per link under a semaphore, collected by asyncio.gather.       *)
(*                                                                         *)
(* gather answers as soon as one task has raised or was cancelled, and     *)
(* does not stop the others: they run on behind the reply.  Cancelling it  *)
(* cancels every task that has not ended.                                  *)
(*                                                                         *)
(* A RuntimeError is a failure that the code reckons with: it costs the    *)
(* link, or is replied as an error of the source.  Whatever else is raised *)
(* passes every handler and fails the request ("internal").                *)
(***************************************************************************)
EXTENDS Integers, FiniteSets

CONSTANTS
  Links,           \* links a release page may have
  Groups,          \* groups of download controls a release page may have
  MaxConcurrency,  \* _MAX_REDIRECT_CONCURRENCY
  MaxMirrors,      \* mirrors that an Artifact may have
  MaxArtifacts     \* artifacts that a ResolveResponse may have

ASSUME LinksAssumption ==
  /\ IsFiniteSet(Links)
  /\ IsFiniteSet(Groups)
  /\ MaxConcurrency \in Nat \ {0}
  /\ MaxMirrors \in Nat
  /\ MaxArtifacts \in Nat

VARIABLES
  pc,
  link,     \* the state of each link's task
  ending,   \* how a link's task is going to end once it has cleaned up
  raised,   \* the exception gather got first: none, internal or cancelled
  page,       \* what parse_release_html makes of the page
  artifacts,  \* of each group, the links that became mirrors
  result

vars == <<pc, link, ending, raised, page, artifacts, result>>
request == <<pc, page, artifacts, result>>

Unfinished == {"queued", "validating", "sending", "closing"}
Ended == {"resolved", "dropped", "broken", "cancelled"}

(***************************************************************************)
(* Whether the layout is known; of each group, the links of those controls *)
(* whose label fits where the link leads; and the groups whose description *)
(* no Artifact can hold (a size that is no number).                        *)
(***************************************************************************)
Pages == [known : BOOLEAN, controls : [Groups -> SUBSET Links], odd : SUBSET Groups]

NoControls == [g \in Groups |-> {}]

Init ==
  /\ pc = "idle"
  /\ link = [l \in Links |-> "absent"]
  /\ ending = [l \in Links |-> "none"]
  /\ raised = "none"
  /\ page = [known |-> FALSE, controls |-> NoControls, odd |-> {}]
  /\ artifacts = NoControls
  /\ result = "none"

\* Fault: a task that raises keeps its place under the semaphore.
BrokenHolds == {l \in Links : link[l] \in {"validating", "sending", "closing", "broken"}}

\* The tasks inside "async with limiter".
Holders == {l \in Links : link[l] \in {"validating", "sending", "closing"}}

Reply(outcome) == pc' = "over" /\ result' = outcome

-----------------------------------------------------------------------------
(* The page.                                                               *)

\* A passed deadline or a forged id is refused at once; an id that is not
\* ASCII breaks base64.
Begin ==
  /\ pc = "idle"
  /\ \/ \E outcome \in {"refused", "internal"} : Reply(outcome)
     \/ pc' = "page" /\ UNCHANGED result
  /\ UNCHANGED <<link, ending, raised, page, artifacts>>

\* The source fails; or, with what is no RuntimeError, the cleanup does.
PageFails ==
  /\ pc = "page"
  /\ \E outcome \in {"error", "internal"} : Reply(outcome)
  /\ UNCHANGED <<link, ending, raised, page, artifacts>>

\* One control whose URL urlsplit rejects spoils the page.
ControlMalformed ==
  /\ pc = "page"
  /\ Reply("internal")
  /\ UNCHANGED <<link, ending, raised, page, artifacts>>

\* A task for every link that the page wraps; other links are direct.
PageRead ==
  /\ pc = "page"
  /\ pc' = "gathering"
  /\ \E wrapped \in SUBSET Links :
       link' = [l \in Links |-> IF l \in wrapped THEN "queued" ELSE "absent"]
  /\ UNCHANGED <<ending, raised, page, artifacts, result>>

-----------------------------------------------------------------------------
(* _resolve_link and resolve_source_redirect: the task of one link.        *)

End(l, how) ==
  /\ link' = [link EXCEPT ![l] = how]
  /\ raised' = IF raised # "none" THEN raised
               ELSE IF how = "broken" THEN "internal"
               ELSE IF how = "cancelled" THEN "cancelled"
               ELSE "none"
  /\ UNCHANGED <<request, ending>>

CleanUp(l, how) ==
  /\ link' = [link EXCEPT ![l] = "closing"]
  /\ ending' = [ending EXCEPT ![l] = how]
  /\ UNCHANGED <<request, raised>>

Acquire(l) ==
  /\ link[l] = "queued"
  /\ Cardinality(Holders) < MaxConcurrency
  /\ link' = [link EXCEPT ![l] = "validating"]
  /\ UNCHANGED <<request, ending, raised>>

\* A RuntimeError only costs the link itself.
LinkRejected(l) == link[l] = "validating" /\ End(l, "dropped")

LinkAccepted(l) ==
  /\ link[l] = "validating"
  /\ link' = [link EXCEPT ![l] = "sending"]
  /\ UNCHANGED <<request, ending, raised>>

\* A redirect to a safe place; an unreachable source, no redirect, or one to an
\* unsafe place; or a URL that httpx rejects, with what is no RuntimeError.
LinkAnswered(l) ==
  /\ link[l] = "sending"
  /\ \E how \in {"resolved", "dropped", "broken"} : CleanUp(l, how)

CleanedUp(l) == link[l] = "closing" /\ End(l, ending[l])

\* What closing raises is no RuntimeError either: it leaves the task.
CleanUpBreaks(l) == link[l] = "closing" /\ End(l, "broken")

Task(l) ==
  Acquire(l) \/ LinkRejected(l) \/ LinkAccepted(l) \/ LinkAnswered(l)
  \/ CleanedUp(l) \/ CleanUpBreaks(l)

-----------------------------------------------------------------------------
(* gather, and what becomes of its answer.                                 *)

AllEnded == \A l \in Links : link[l] \notin Unfinished

\* A link that led somewhere, or is no wrapper.
Offered(release) ==
  [g \in Groups |-> {l \in release.controls[g] : link[l] \in {"absent", "resolved"}}]

Nonempty(offered) == {g \in Groups : offered[g] # {}}

\* parse_release_html finds out only now that a layout is unknown, and the
\* models of the contract that they cannot hold a release.
ReleaseOf(release, offered) ==
  IF ~release.known \/ Nonempty(offered) = {} THEN "layout"
  ELSE IF \/ \E g \in Nonempty(offered) :
               Cardinality(offered[g]) > MaxMirrors \/ g \in release.odd
          \/ Cardinality(Nonempty(offered)) > MaxArtifacts
    THEN "internal"
  ELSE "artifacts"

Release(release, offered) ==
  /\ page' = release
  /\ artifacts' = offered
  /\ Reply(ReleaseOf(release, offered))
  /\ UNCHANGED <<link, ending, raised>>

GatherReturns == pc = "gathering" /\ raised = "none" /\ AllEnded

\* Fault: one link that failed discards the others.
GatheredAllOrNothing ==
  GatherReturns /\ \E release \in Pages :
    Release(release, IF \E l \in Links : link[l] = "dropped" THEN NoControls
                     ELSE Offered(release))

\* The rest of the page is drawn where the code first looks at it.
Gathered ==
  GatherReturns /\ \E release \in Pages : Release(release, Offered(release))

GatherRaises ==
  /\ pc = "gathering"
  /\ raised # "none"
  /\ Reply(IF raised = "cancelled" THEN "deadline" ELSE "internal")
  /\ UNCHANGED <<link, ending, raised, page, artifacts>>

\* A task that waits for the semaphore or for a name lookup, or that cleans
\* up, ends at once; one that waits for the source cleans up first.
CancelTasks ==
  LET hit == {l \in Links : link[l] \in {"queued", "validating", "closing"}} IN
    /\ link' = [l \in Links |-> IF l \in hit THEN "cancelled"
                                ELSE IF link[l] = "sending" THEN "closing"
                                ELSE link[l]]
    /\ ending' = [l \in Links |-> IF link[l] = "sending" THEN "cancelled" ELSE ending[l]]
    /\ raised' = IF hit # {} THEN "cancelled" ELSE raised

Expiring == \E l \in Links : ending[l] = "cancelled" \/ link[l] = "cancelled"

\* Fault: the deadline ends the request but not the tasks.
ExpireAbandons ==
  /\ pc \in {"page", "gathering"}
  /\ ~Expiring
  /\ Reply("deadline")
  /\ UNCHANGED <<link, ending, raised, page, artifacts>>

\* The deadline cancels the request once, and with it what it waits for; a
\* gather that has its answer already no longer cancels anything.
Expire ==
  /\ ~Expiring
  /\ \/ /\ pc = "page" \/ (pc = "gathering" /\ (AllEnded \/ raised # "none"))
        /\ Reply("deadline")
        /\ UNCHANGED <<link, ending, raised, page, artifacts>>
     \/ /\ pc = "gathering" /\ ~AllEnded /\ raised = "none"
        /\ CancelTasks
        /\ UNCHANGED request

Next ==
  \/ Begin \/ PageFails \/ ControlMalformed \/ PageRead \/ Gathered \/ GatherRaises \/ Expire
  \/ \E l \in Links : Task(l)

Spec == Init /\ [][Next]_vars

(***************************************************************************)
(* The deadline comes, the loop runs what can run, a freed place under the *)
(* semaphore is taken, and each wait of a link's task ends: httpx bounds   *)
(* the asking, and the cleanup is assumed to end.  The page need never     *)
(* arrive.                                                                 *)
(***************************************************************************)
Fairness ==
  /\ WF_vars(Expire)
  /\ WF_vars(Gathered)
  /\ WF_vars(GatherRaises)
  /\ \A l \in Links :
       /\ SF_vars(Acquire(l))
       /\ WF_vars(LinkRejected(l) \/ LinkAccepted(l))
       /\ WF_vars(LinkAnswered(l))
       /\ WF_vars(CleanedUp(l) \/ CleanUpBreaks(l))

-----------------------------------------------------------------------------

\* The links of a group that can be offered.
Left(g) == {l \in page.controls[g] : link[l] \in {"absent", "resolved"}}

\* What the contract has no room for.
TooMuch ==
  \/ \E g \in Groups : Cardinality(Left(g)) > MaxMirrors
  \/ \E g \in page.odd : Left(g) # {}
  \/ Cardinality({g \in Groups : Left(g) # {}}) > MaxArtifacts

(* A link that cannot be unwrapped, or leads elsewhere than its label says, *)
(* costs only itself.  The request fails as a whole before any link is      *)
(* asked (the id, the page or one of its controls cannot be read), or       *)
(* because a task raised what is no RuntimeError, or because what is left   *)
(* is more than a response can hold.  It finds nothing only if the layout   *)
(* is unknown or no link is left, and otherwise offers each link that is,   *)
(* in every group that has it.                                              *)
FailureIsLocal ==
  /\ result = "error" => \A l \in Links : link[l] = "absent"
  /\ result = "internal" =>
       \/ \A l \in Links : link[l] = "absent"
       \/ raised = "internal" /\ \E l \in Links : link[l] = "broken"
       \/ page.known /\ TooMuch
  /\ result = "layout" => ~page.known \/ \A g \in Groups : Left(g) = {}
  /\ result = "artifacts" =>
       /\ \A l \in Links : link[l] \in {"absent", "resolved", "dropped"}
       /\ page.known /\ ~TooMuch
       /\ artifacts = [g \in Groups |-> Left(g)]
       /\ \E g \in Groups : artifacts[g] # {}

(* No task asks the source, or waits to ask it, behind a reply, unless     *)
(* another task raised what is no RuntimeError (httpx rejected its URL, or *)
(* its cleanup failed): then the others run on, outside the deadline, and  *)
(* nobody waits for them.                                                  *)
NoStragglers ==
  pc = "over" /\ (\E l \in Links : link[l] \in {"queued", "validating", "sending"}) =>
    raised = "internal"

(* Every task ends, whatever the other tasks and the request came to: each *)
(* gives its place under the semaphore back.                               *)
TasksEnd == pc = "gathering" ~> AllEnded

=============================================================================
