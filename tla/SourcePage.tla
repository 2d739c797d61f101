----------------------------- MODULE SourcePage -----------------------------
(***************************************************************************)
(* fetch_source_html (source_http.py), by which GetComics and Anna's       *)
(* Archive read a page: one redirect within the origin, the page or a      *)
(* challenge, the challenge's solution by the resolver that all fetches    *)
(* share, and the cleanup of response and client.                          *)
(*                                                                         *)
(* The resolver stands behind the gate of FailFastGate, which              *)
(* ResolverRuntime implements.  A step lies between two waits, and at each *)
(* wait the deadline of the request may cancel the fetch.                  *)
(***************************************************************************)
EXTENDS FailFastGate

CONSTANT MaxClock  \* bound: the clock stops here

ASSUME PageAssumption ==
  /\ IsFiniteSet(Callers)
  /\ MaxConcurrency \in 1..4
  /\ FailureThreshold \in Nat \ {0}
  /\ Cooldown \in Nat \ {0}
  /\ MaxClock \in Nat

VARIABLE fetch  \* the state of every fetch; the fetches are the gate's Callers

vars == <<gateVars, fetch>>

MaxSourceRedirects == 1

Idle == [pc |-> "idle", redirects |-> 0, sends |-> 0, solves |-> 0, client |-> "none",
         body |-> "none", solved |-> FALSE, expired |-> FALSE, ending |-> "none",
         result |-> "none"]

Init == GateInit /\ fetch = [c \in Callers |-> Idle]

\* The finally block: the response is closed first, then the client.
Closing(state, ending) == [state EXCEPT !.pc = "closing", !.ending = ending]
Leaving(state, ending) == [state EXCEPT !.pc = "leaving", !.ending = ending]
Raise(state, result) == [state EXCEPT !.pc = "over", !.result = result]

Go(c, from, successors) ==
  /\ fetch[c].pc = from
  /\ \E state \in successors : fetch' = [fetch EXCEPT ![c] = state]

\* A step that leaves the resolver's gate alone.
Own(c, from, successors) == Go(c, from, successors) /\ UNCHANGED gateVars

-----------------------------------------------------------------------------
(* The redirects and the body.                                             *)

Begin(c) == Own(c, "idle", {[fetch[c] EXCEPT !.pc = "validating"]})

\* Without a client there is nothing to clean up.
TargetRejected(c) ==
  Own(c, "validating", {IF fetch[c].client = "none" THEN Raise(fetch[c], "error")
                        ELSE Leaving(fetch[c], "error")})

TargetAccepted(c) ==
  Own(c, "validating",
      {[fetch[c] EXCEPT !.pc = "sending", !.client = "open", !.sends = @ + 1]})

Unreachable(c) == Own(c, "sending", {Leaving(fetch[c], "error")})

Responds(c) == Own(c, "sending", {[fetch[c] EXCEPT !.pc = "reading"]})

\* A redirect within the origin: its response is closed before it is
\* followed.
Redirects(c) ==
  /\ fetch[c].redirects < MaxSourceRedirects
  /\ Own(c, "sending", {[fetch[c] EXCEPT !.pc = "dropping"]})

\* One redirect too many, or one that leaves the origin.
RedirectRefused(c) == Own(c, "sending", {Closing(fetch[c], "error")})

\* Fault: the redirect that was followed is not counted.
DroppedUncounted(c) == Own(c, "dropping", {[fetch[c] EXCEPT !.pc = "validating"]})

Dropped(c) ==
  Own(c, "dropping", {[fetch[c] EXCEPT !.pc = "validating", !.redirects = @ + 1]})

\* The body breaks off or is too large, or the dropped response did not close.
BodyBroken(c) == \E pc \in {"reading", "dropping"} : Own(c, pc, {Closing(fetch[c], "error")})

\* Fault: status codes are not looked at.
StatusIgnored(state) ==
  CASE state.body = "challenge" -> Closing(state, "challenge")
    [] OTHER -> Closing(state, "page")

\* What is done with a body that calls for no resolver.
AfterBody(state) ==
  CASE state.body = "page" -> Closing(state, "page")
    [] state.body = "failure" -> Closing(state, "error")
    [] state.body = "challenge" -> Closing(state, "challenge")

\* A page, a status that tells of failure, or a challenge nobody can solve.
BodyRead(c) ==
  Own(c, "reading", {AfterBody([fetch[c] EXCEPT !.body = body]) :
                       body \in {"page", "failure", "challenge"}})

-----------------------------------------------------------------------------
(* resolve_after_challenge.                                                *)

\* The target fails validation, or the gate refuses.
ChallengeUnsolved(c) ==
  Own(c, "reading", {Closing([fetch[c] EXCEPT !.body = "challenge"], "error")})

ChallengeTaken(c) ==
  /\ Go(c, "reading",
        {[fetch[c] EXCEPT !.pc = "solving", !.body = "challenge", !.solves = @ + 1]})
  /\ Enter(c)

SolverAnswers(c) == Go(c, "solving", {[fetch[c] EXCEPT !.pc = "recorded"]}) /\ Success(c)

\* The solution is the page, whatever the status it came with.
SolutionUsed(c) ==
  Go(c, "recorded", {Closing([fetch[c] EXCEPT !.solved = TRUE], "page")}) /\ Leave(c)

SolverFails(c) == Go(c, "solving", {[fetch[c] EXCEPT !.pc = "charging"]}) /\ Leave(c)

\* The breaker is told only after the slot was given back.
ChargeFailure(c) == Go(c, "charging", {Closing(fetch[c], "error")}) /\ Failure(c)

SolutionRejected(c) == Go(c, "solving", {Closing(fetch[c], "error")}) /\ Leave(c)

-----------------------------------------------------------------------------
(* The cleanup and the deadline.                                           *)

ResponseCloses(c) == Own(c, "closing", {Leaving(fetch[c], fetch[c].ending)})

\* What response.aclose() raises replaces everything, and the client is not
\* closed.
ResponseBreaks(c) == Own(c, "closing", {Raise(fetch[c], "internal")})

ClientCloses(c) ==
  Own(c, "leaving", {Raise([fetch[c] EXCEPT !.client = "closed"], fetch[c].ending)})

ExpireOwn(c) ==
  LET state == [fetch[c] EXCEPT !.expired = TRUE] IN
    \/ state.client = "none" /\ Own(c, "validating", {Raise(state, "deadline")})
    \/ state.client # "none" /\ Own(c, "validating", {Leaving(state, "deadline")})
    \/ Own(c, "sending", {Leaving(state, "deadline")})
    \/ \E pc \in {"reading", "dropping"} : Own(c, pc, {Closing(state, "deadline")})
    \/ Own(c, "closing", {Raise(state, "deadline")})
    \/ Own(c, "leaving", {Raise([state EXCEPT !.client = "interrupted"], "deadline")})

\* Fault: a fetch that is cancelled while it reads is not cleaned up after.
ExpireSkipsCleanup(c) ==
  /\ ~fetch[c].expired
  /\ \/ ExpireOwn(c)
     \/ Own(c, "reading", {Raise([fetch[c] EXCEPT !.expired = TRUE], "deadline")})

\* The deadline cancels the fetch once.  A response that was being closed is
\* given up, and its client with it.
Expire(c) ==
  LET state == [fetch[c] EXCEPT !.expired = TRUE] IN
    /\ ~fetch[c].expired
    /\ \/ ExpireOwn(c)
       \/ \E pc \in {"solving", "recorded"} :
            Go(c, pc, {Closing(state, "deadline")}) /\ Leave(c)
       \/ Go(c, "charging", {Closing(state, "deadline")}) /\ Failure(c)

Tick ==
  /\ now < MaxClock
  /\ Pass
  /\ UNCHANGED fetch

Step(c) ==
  \/ Begin(c) \/ TargetRejected(c) \/ TargetAccepted(c)
  \/ Unreachable(c) \/ Responds(c) \/ Redirects(c) \/ RedirectRefused(c) \/ Dropped(c)
  \/ BodyBroken(c) \/ BodyRead(c)
  \/ ChallengeUnsolved(c) \/ ChallengeTaken(c) \/ SolverAnswers(c) \/ SolutionUsed(c)
  \/ SolverFails(c) \/ ChargeFailure(c) \/ SolutionRejected(c)
  \/ ResponseCloses(c) \/ ResponseBreaks(c) \/ ClientCloses(c) \/ Expire(c)

Next == Tick \/ \E c \in Callers : Step(c)

Spec == Init /\ [][Next]_vars

-----------------------------------------------------------------------------

(* A source that redirects and challenges without end costs two requests   *)
(* and one solution per page, and the resolver's slots are held by the     *)
(* fetches that are solving a challenge and by nobody else.                *)
BoundedFetch ==
  /\ \A c \in Callers : fetch[c].sends <= 2 /\ fetch[c].solves <= 1
  /\ inflight = {c \in Callers : fetch[c].pc \in {"solving", "recorded"}}

(* What is returned is a page the source or the resolver gave: never the   *)
(* challenge itself, nor the body of a failure; and the resolver is asked  *)
(* only about a challenge met over ordinary HTTP.                          *)
PageGenuine ==
  \A c \in Callers :
    /\ fetch[c].result = "page" => fetch[c].body = "page" \/ fetch[c].solved
    /\ fetch[c].solves > 0 => fetch[c].body = "challenge"

(* A fetch that ends with a page or a reported failure has closed its      *)
(* client, and so has one that the deadline stops at its work.  A client   *)
(* stays open only if closing the response raised, or if the deadline came *)
(* when nothing but the cleanup was left and cut that short.               *)
ClientReleased ==
  \A c \in Callers : fetch[c].pc = "over" =>
    \/ fetch[c].client \in {"none", "closed"}
    \/ fetch[c].result = "internal"
    \/ fetch[c].result = "deadline" /\ fetch[c].ending \in {"page", "error", "challenge"}
=============================================================================
