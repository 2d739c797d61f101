--------------------------- MODULE LibGenResolve ---------------------------
(***************************************************************************)
(* Concurrent POST /v1/resolve requests to the LibGen provider: per origin *)
(* one source session that reads the file's and perhaps the edition's      *)
(* metadata and then asks for the artifact's link (service.py), solves the *)
(* challenges it meets on the way (transport.py), and fails over.          *)
(*                                                                         *)
(* The challenge resolver that all requests share stands behind the gate   *)
(* of FailFastGate, which ResolverRuntime implements.  As in LibGenSearch, *)
(* a step lies between two waits and the deadline may strike at each one.  *)
(* The HTTP responses are left out: they end with the session's client.    *)
(***************************************************************************)
EXTENDS FailFastGate, Sequences

CONSTANTS
  Preferred,  \* source_url of the provider's configuration
  Known,      \* KNOWN_SOURCE_URLS
  Budgets,    \* time a request may have left when it arrives
  MaxClock    \* bound: the clock stops here

ASSUME ResolveAssumption ==
  /\ IsFiniteSet(Callers)
  /\ MaxConcurrency \in 1..4
  /\ FailureThreshold \in Nat \ {0}
  /\ Cooldown \in Nat \ {0}
  /\ Budgets \subseteq Nat
  /\ MaxClock \in Nat

VARIABLE op  \* the state of every request; the requests are the gate's Callers

gate == <<inflight, streak, trippedAt>>
vars == <<gateVars, op>>

\* What one request does at one origin is told by its stage: file, edition,
\* link, and retry, the link asked for again after its challenge was solved.
Nobody == "default"  \* a session that has solved no challenge

Idle == [pc |-> "idle", deadline |-> 0, origins |-> <<>>, attempt |-> 0,
         session |-> "none", identity |-> Nobody, stage |-> "none", sends |-> 0, solves |-> 0,
         ending |-> "none", unsafeAt |-> 0, result |-> "none"]

Init == GateInit /\ op = [r \in Callers |-> Idle]

Origin(state) == state.origins[state.attempt]
Reply(state, result) == [state EXCEPT !.pc = "over", !.result = result, !.deadline = 0]

\* _resolve_origin is left: its session is all that is left of it.
Closing(state, ending) ==
  [state EXCEPT !.pc = "closing", !.ending = ending, !.stage = "none", !.sends = 0, !.solves = 0]

Sending(state, stage) ==
  [state EXCEPT !.pc = "sending", !.stage = stage, !.sends = @ + 1]

\* A step of r that leaves the resolver's gate alone.
Own(r, from, successors) ==
  /\ op[r].pc = from
  /\ \E state \in successors : op' = [op EXCEPT ![r] = state]
  /\ UNCHANGED gateVars

-----------------------------------------------------------------------------
(* The handler: the deadline, the candidate's identity, the origins.       *)

\* A malformed candidate id is refused before anything is looked up.
Begin(r, budget) ==
  /\ now + budget <= MaxClock
  /\ Own(r, "idle",
       IF budget = 0
         THEN {Reply(op[r], "deadline")}
         ELSE {Reply(op[r], "candidate"),
               [op[r] EXCEPT !.pc = "validating", !.deadline = now + budget]})

RejectOrigin(r) == Own(r, "validating", {Reply(op[r], "configuration")})

ChooseOrigins(r) ==
  Own(r, "validating",
    {[op[r] EXCEPT !.pc = "trying", !.origins = origins, !.attempt = 1] :
       origins \in {<<Preferred>>} \union {<<Preferred, other>> : other \in Known \ {Preferred}}})

OpenSession(r) ==
  Own(r, "trying",
    {Sending([op[r] EXCEPT !.session = "open"],
             "file")})

-----------------------------------------------------------------------------
(* One exchange with the source: _resolve_origin, fetch_text,              *)
(* resolve_redirect.                                                       *)

\* The next page to ask for; metadata that contradicts the candidate ends
\* the origin.
AfterPage(state) ==
  {Closing(state, "failover"), Sending(state, "link")}
    \union IF state.stage = "file" THEN {Sending(state, "edition")} ELSE {}

PageRead(r) ==
  /\ op[r].stage \in {"file", "edition"}
  /\ Own(r, "sending", AfterPage(op[r]))

\* Unreachable, too large, an error status, a redirect of a page or no
\* redirect of the link.
SourceFails(r) == Own(r, "sending", {Closing(op[r], "failover")})

\* The location of the redirect is looked up.
Redirected(r) ==
  /\ op[r].stage \in {"link", "retry"}
  /\ Own(r, "sending", {[op[r] EXCEPT !.pc = "checking"]})

DestinationPublic(r) == Own(r, "checking", {Closing(op[r], "found")})
DestinationUnknown(r) == Own(r, "checking", {Closing(op[r], "failover")})

\* Fault: an unsafe destination is worked around at the next origin.
UnsafeFailsOver(r) ==
  Own(r, "checking", {Closing([op[r] EXCEPT !.unsafeAt = op[r].attempt], "failover")})

DestinationUnsafe(r) ==
  Own(r, "checking", {Closing([op[r] EXCEPT !.unsafeAt = op[r].attempt], "raise")})

-----------------------------------------------------------------------------
(* _resolve_page: a challenge, through the gate, to the resolver and back. *)

Challenged(stage) == stage # "retry"

\* No resolver profile, a target that fails validation, or the gate refuses.
ChallengeUnsolved(r) ==
  /\ Challenged(op[r].stage)
  /\ Own(r, "sending", {Closing(op[r], "failover")})

Through(r, from, to) ==
  /\ op[r].pc = from
  /\ op' = [op EXCEPT ![r] = to]

ChallengeTaken(r) ==
  /\ Challenged(op[r].stage)
  /\ Through(r, "sending", [op[r] EXCEPT !.pc = "solving", !.solves = @ + 1])
  /\ Enter(r)

\* The resolver answered: the breaker is told before the answer is used.
SolverAnswers(r) ==
  /\ Through(r, "solving", [op[r] EXCEPT !.pc = "recorded"])
  /\ Success(r)

\* Cookies and user agent are kept, then the page is read or, for a link,
\* the source is asked again.
SolutionUsed(r) ==
  /\ op[r].pc = "recorded"
  /\ LET solved == [op[r] EXCEPT !.identity = Origin(op[r])] IN
       \E state \in IF solved.stage = "link" THEN {Sending(solved, "retry")} ELSE AfterPage(solved) :
         Through(r, "recorded", state)
  /\ Leave(r)

\* Fault: the link is asked for again whatever the resolver brought back.
UnusableRetried(r) ==
  /\ Through(r, "recorded", IF op[r].stage = "link" THEN Sending(op[r], "retry")
                                                    ELSE Closing(op[r], "failover"))
  /\ Leave(r)

\* An error page, too large a page or an invalid user agent: nothing is kept.
SolutionUnusable(r) ==
  /\ Through(r, "recorded", Closing(op[r], "failover"))
  /\ Leave(r)

SolverFails(r) ==
  /\ Through(r, "solving", [op[r] EXCEPT !.pc = "charging"])
  /\ Leave(r)

ChargeFailure(r) ==
  /\ Through(r, "charging", Closing(op[r], "failover"))
  /\ Failure(r)

\* resolver_redirect_rejected is not charged to the breaker.
SolutionRejected(r) ==
  /\ Through(r, "solving", Closing(op[r], "failover"))
  /\ Leave(r)

-----------------------------------------------------------------------------
(* The end of an origin and the deadline, as in LibGenSearch.              *)

AfterOrigin(state) ==
  CASE state.ending = "found" -> Reply(state, "artifact")
    [] state.ending = "cancelled" -> Reply(state, "deadline")
    [] state.ending = "failover" /\ state.attempt < Len(state.origins) ->
         [state EXCEPT !.pc = "trying", !.attempt = @ + 1]
    [] OTHER -> Reply(state, "error")

SessionCloses(r) ==
  Own(r, "closing", {AfterOrigin([op[r] EXCEPT !.session = "closed", !.identity = Nobody])})

\* Faults: the call to the resolver is not under the deadline; the slot of a
\* cancelled call is not given back.
ExpireNotSolving(r) ==
  \/ Through(r, "recorded", Closing(op[r], "cancelled")) /\ Leave(r)
  \/ Through(r, "charging", Closing(op[r], "cancelled")) /\ Failure(r)
ExpireSolvingLeaks(r) ==
  /\ Through(r, "solving", Closing(op[r], "cancelled"))
  /\ UNCHANGED gateVars

\* The resolver's part of a cancelled operation: its slot is given back, and
\* what it had learnt is recorded all the same.
ExpireSolving(r) ==
  \/ Through(r, "solving", Closing(op[r], "cancelled")) /\ Leave(r)
  \/ Through(r, "recorded", Closing(op[r], "cancelled")) /\ Leave(r)
  \/ Through(r, "charging", Closing(op[r], "cancelled")) /\ Failure(r)

\* aclose() forgets the identity before it waits for the client to close.
Interrupt(state) ==
  Reply([state EXCEPT !.session = "interrupted", !.identity = Nobody, !.ending = "cancelled"],
        "deadline")

Expire(r) ==
  /\ now >= op[r].deadline
  /\ \/ Own(r, "validating", {Reply(op[r], "deadline")})
     \/ Own(r, "sending", {Closing(op[r], "cancelled")})
     \/ Own(r, "checking", {Closing(op[r], "cancelled")})
     \/ op[r].ending # "cancelled" /\ Own(r, "closing", {Interrupt(op[r])})
     \/ ExpireSolving(r)

Waiting(r) ==
  \/ op[r].pc \in {"validating", "sending", "checking", "solving"}
  \/ op[r].pc = "closing" /\ op[r].ending # "cancelled"

Tick ==
  /\ now < MaxClock
  /\ \A r \in Callers :
       /\ op[r].pc \notin {"trying", "recorded", "charging"}
       /\ Waiting(r) => now < op[r].deadline
  /\ Pass
  /\ UNCHANGED op

Step(r) ==
  \/ \E budget \in Budgets : Begin(r, budget)
  \/ RejectOrigin(r) \/ ChooseOrigins(r) \/ OpenSession(r)
  \/ PageRead(r) \/ SourceFails(r) \/ Redirected(r)
  \/ DestinationPublic(r) \/ DestinationUnknown(r) \/ DestinationUnsafe(r)
  \/ ChallengeUnsolved(r) \/ ChallengeTaken(r) \/ SolverAnswers(r)
  \/ SolutionUsed(r) \/ SolutionUnusable(r)
  \/ SolverFails(r) \/ ChargeFailure(r) \/ SolutionRejected(r)
  \/ SessionCloses(r) \/ Expire(r)

Next == Tick \/ \E r \in Callers : Step(r)

Spec == Init /\ [][Next]_vars

\* As in LibGenSearch: no source and no resolver need ever answer.
Fairness ==
  /\ WF_vars(Tick)
  /\ \A r \in Callers :
       /\ WF_vars(Expire(r))
       /\ WF_vars(OpenSession(r))
       /\ WF_vars(SolutionUsed(r) \/ SolutionUnusable(r))
       /\ WF_vars(ChargeFailure(r))
       /\ WF_vars(SessionCloses(r))

-----------------------------------------------------------------------------

(* What challenges cost.  The resolver's slots are held by the requests    *)
(* that are solving one and by nobody else: whatever happens to a request, *)
(* a deadline in the middle of the exchange included, its slot does not    *)
(* outlive it.  And a source that answers everything with a challenge      *)
(* keeps an operation busy for at most four requests and three solutions   *)
(* per origin.                                                             *)
ChallengeCost ==
  /\ inflight = {r \in Callers : op[r].pc \in {"solving", "recorded"}}
  /\ \A r \in Callers : op[r].sends <= 4 /\ op[r].solves <= 3

(* What a resolver brought back for one origin is used in the session in   *)
(* which it was asked for and nowhere else, and a link is asked for again  *)
(* only with it.                                                           *)
SolutionScoped ==
  \A r \in Callers :
    /\ op[r].identity # Nobody =>
         op[r].session = "open" /\ op[r].identity = Origin(op[r])
    /\ op[r].stage = "retry" /\ op[r].session = "open" =>
         op[r].identity = Origin(op[r])

(* A source that redirects to an unsafe destination ends the operation:    *)
(* no other origin is asked in order to work around it.                    *)
UnsafeIsFinal ==
  \A r \in Callers : op[r].unsafeAt # 0 =>
    /\ op[r].attempt = op[r].unsafeAt
    /\ op[r].pc \in {"closing", "over"}
    /\ op[r].result \in {"none", "error", "deadline"}

(* Every request is answered although neither source nor resolver ever     *)
(* answers.                                                                *)
ResolveAnswered == \A r \in Callers : op[r].pc = "validating" ~> op[r].pc = "over"
=============================================================================
