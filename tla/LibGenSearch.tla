---------------------------- MODULE LibGenSearch ----------------------------
(***************************************************************************)
(* Concurrent POST /v1/search requests to the LibGen provider: the request *)
(* deadline (api.py), the choice of origins, the search cache, one session *)
(* per origin and the failover between them (service.py).                  *)
(*                                                                         *)
(* A step lies between two points at which the request's task waits: for a *)
(* name lookup, for an answer of the source, or for its session to close.  *)
(* At each of them the deadline may cancel it.                             *)
(***************************************************************************)
EXTENDS CacheOps, LibGenQueries, FiniteSets

CONSTANTS
  Requests,   \* the search requests
  Preferred,  \* source_url of the provider's configuration
  Known,      \* KNOWN_SOURCE_URLS
  Intents,    \* what the requests may search for
  Budgets,    \* time a request may have left when it arrives
  MaxClock    \* bound: the clock stops here

Hits == "hits"  \* a non-empty tuple of candidates

ASSUME SearchAssumption ==
  /\ IsFiniteSet(Requests)
  /\ Nothing # Hits
  /\ Budgets \subseteq Nat
  /\ MaxClock \in Nat

VARIABLES
  clock,
  entries,  \* self._search_cache, shared by all requests
  req       \* the state of every request

vars == <<clock, entries, req>>

Idle == [pc |-> "idle", intent |-> Absent, deadline |-> 0, origins |-> <<>>, attempt |-> 0,
         answers |-> <<>>, session |-> "none", ending |-> "none", result |-> "none"]

Init ==
  /\ clock = 0
  /\ entries = <<>>
  /\ req = [r \in Requests |-> Idle]

Origin(r) == req[r].origins[req[r].attempt]
Key(r) == <<Origin(r), req[r].intent>>
Plans == [intent \in Intents |-> QueryPlan(intent)]
Plan(r) == Plans[req[r].intent]

Reply(state, result) ==
  [state EXCEPT !.pc = "over", !.result = result, !.intent = Absent, !.deadline = 0]

-----------------------------------------------------------------------------
(* The handler up to the origins: validate_request, within_deadline and    *)
(* _operation_origins, which looks up the preferred origin and the others. *)

Begin(r, intent, budget) ==
  /\ req[r].pc = "idle"
  /\ clock + budget <= MaxClock
  /\ req' = [req EXCEPT ![r] =
       IF budget = 0
         THEN Reply(@, "deadline")
         ELSE [@ EXCEPT !.pc = "validating", !.intent = intent, !.deadline = clock + budget]]
  /\ UNCHANGED <<clock, entries>>

RejectOrigin(r) ==
  /\ req[r].pc = "validating"
  /\ req' = [req EXCEPT ![r] = Reply(@, "configuration")]
  /\ UNCHANGED <<clock, entries>>

\* The preferred origin and the first other one that passes validation.
ChooseOrigins(r) ==
  /\ req[r].pc = "validating"
  /\ \E origins \in {<<Preferred>>} \union {<<Preferred, other>> : other \in Known \ {Preferred}} :
       req' = [req EXCEPT ![r].pc = "trying", ![r].origins = origins, ![r].attempt = 1]
  /\ UNCHANGED <<clock, entries>>

-----------------------------------------------------------------------------
(* _search_origin: the cache, the queries in turn, the session's end.      *)

StartClosing(r, ending) ==
  [req[r] EXCEPT !.pc = "closing", !.ending = ending, !.answers = <<>>]

ServeCached(r) ==
  /\ req[r].pc = "trying"
  /\ LET found == Lookup(entries, Key(r), clock) IN
       /\ found.hit
       /\ req' = [req EXCEPT ![r] = Reply(@, IF found.value = Nothing THEN "empty" ELSE "found")]
  /\ entries' = AfterGet(entries, Key(r), clock)
  /\ UNCHANGED clock

OpenSession(r) ==
  /\ req[r].pc = "trying"
  /\ ~Lookup(entries, Key(r), clock).hit
  /\ entries' = AfterGet(entries, Key(r), clock)
  /\ req' = [req EXCEPT ![r].pc = "querying", ![r].session = "open"]
  /\ UNCHANGED clock

\* A query has results: no further one is sent.
Found(r) ==
  /\ req[r].pc = "querying"
  /\ Len(req[r].answers) < Len(Plan(r))
  /\ entries' = AfterSet(entries, Key(r), Hits, clock)
  /\ req' = [req EXCEPT ![r] = StartClosing(r, "found")]
  /\ UNCHANGED clock

EmptyAnswer(r) ==
  /\ req[r].pc = "querying"
  /\ Len(req[r].answers) < Len(Plan(r))
  /\ req' = [req EXCEPT ![r].answers = Append(@, "empty")]
  /\ UNCHANGED <<clock, entries>>

\* No query had results: that is remembered too.
Exhausted(r) ==
  /\ req[r].pc = "querying"
  /\ Len(req[r].answers) = Len(Plan(r))
  /\ entries' = AfterSet(entries, Key(r), Nothing, clock)
  /\ req' = [req EXCEPT ![r] = StartClosing(r, "empty")]
  /\ UNCHANGED clock

\* Faults: a failure is remembered as "no result"; it ends the operation
\* with the session still open.
FailureCached(r) ==
  /\ req[r].pc = "querying"
  /\ Len(req[r].answers) < Len(Plan(r))
  /\ \E ending \in {"failover", "raise"} : req' = [req EXCEPT ![r] = StartClosing(r, ending)]
  /\ entries' = AfterSet(entries, Key(r), Nothing, clock)
  /\ UNCHANGED clock
FailureSkipsClose(r) ==
  /\ req[r].pc = "querying"
  /\ Len(req[r].answers) < Len(Plan(r))
  /\ \E ending \in {"failover", "raise"} :
       req' = [req EXCEPT ![r] = Reply([@ EXCEPT !.ending = ending], "error")]
  /\ UNCHANGED <<clock, entries>>

\* A challenge, an unknown layout, a resolver error or a source error that
\* may be retried leads to the next origin; anything else ends the search.
QueryFails(r) ==
  /\ req[r].pc = "querying"
  /\ Len(req[r].answers) < Len(Plan(r))
  /\ \E ending \in {"failover", "raise"} : req' = [req EXCEPT ![r] = StartClosing(r, ending)]
  /\ UNCHANGED <<clock, entries>>

\* Fault: the alternate origin is not tried.
NoFailover(state) ==
  CASE state.ending \in {"found", "empty"} -> Reply(state, state.ending)
    [] state.ending = "cancelled" -> Reply(state, "deadline")
    [] OTHER -> Reply(state, "error")

\* _search, once _search_origin has returned or raised.
AfterOrigin(state) ==
  CASE state.ending \in {"found", "empty"} -> Reply(state, state.ending)
    [] state.ending = "cancelled" -> Reply(state, "deadline")
    [] state.ending = "failover" /\ state.attempt < Len(state.origins) ->
         [state EXCEPT !.pc = "trying", !.attempt = @ + 1]
    [] OTHER -> Reply(state, "error")

SessionCloses(r) ==
  /\ req[r].pc = "closing"
  /\ req' = [req EXCEPT ![r] = AfterOrigin([@ EXCEPT !.session = "closed"])]
  /\ UNCHANGED <<clock, entries>>

-----------------------------------------------------------------------------
(* The deadline cancels the task once, wherever it waits.  The session is  *)
(* still closed, without any bound, unless it was being closed already.    *)

\* Fault: the deadline does not reach a request that waits for the source.
ExpireBeforeSource(r) ==
  /\ req[r].pc = "validating"
  /\ clock >= req[r].deadline
  /\ req' = [req EXCEPT ![r] = Reply(@, "deadline")]
  /\ UNCHANGED <<clock, entries>>

Expire(r) ==
  /\ clock >= req[r].deadline
  /\ \/ /\ req[r].pc = "validating"
        /\ req' = [req EXCEPT ![r] = Reply(@, "deadline")]
     \/ /\ req[r].pc = "querying"
        /\ req' = [req EXCEPT ![r] = StartClosing(r, "cancelled")]
     \/ /\ req[r].pc = "closing"
        /\ req[r].ending # "cancelled"
        /\ req' = [req EXCEPT ![r] =
                     Reply([@ EXCEPT !.session = "interrupted", !.ending = "cancelled"], "deadline")]
  /\ UNCHANGED <<clock, entries>>

NoTimerOverdue ==
  \A r \in Requests :
    req[r].pc \in {"validating", "querying"} \/ (req[r].pc = "closing" /\ req[r].ending # "cancelled")
    => clock < req[r].deadline

NothingReady ==
  \A r \in Requests :
    /\ req[r].pc # "trying"
    /\ req[r].pc = "querying" => Len(req[r].answers) < Len(Plan(r))

Tick ==
  /\ clock < MaxClock
  /\ NoTimerOverdue
  /\ NothingReady
  /\ clock' = clock + 1
  /\ UNCHANGED <<entries, req>>

Step(r) ==
  \/ \E intent \in Intents, budget \in Budgets : Begin(r, intent, budget)
  \/ RejectOrigin(r) \/ ChooseOrigins(r)
  \/ ServeCached(r) \/ OpenSession(r)
  \/ Found(r) \/ EmptyAnswer(r) \/ Exhausted(r) \/ QueryFails(r)
  \/ SessionCloses(r) \/ Expire(r)

Next == Tick \/ \E r \in Requests : Step(r)

Spec == Init /\ [][Next]_vars

(***************************************************************************)
(* Time passes, the deadline fires, what can run does, and a session that  *)
(* is closed is closed in the end: nothing in search bounds that wait.  No *)
(* source need ever answer.                                                *)
(***************************************************************************)
FairSpec ==
  /\ Spec
  /\ WF_vars(Tick)
  /\ \A r \in Requests :
       /\ WF_vars(Expire(r))
       /\ WF_vars(ServeCached(r) \/ OpenSession(r))
       /\ WF_vars(Exhausted(r))
       /\ WF_vars(SessionCloses(r))

-----------------------------------------------------------------------------

(* A session lives for one origin of one operation: it is given up before  *)
(* the next origin is tried and before the reply, whatever happened to the *)
(* fetch.  Only a deadline that strikes while it closes leaves it half way.*)
SessionReleased ==
  \A r \in Requests : req[r].pc \in {"trying", "over"} =>
    \/ req[r].session \in {"none", "closed"}
    \/ req[r].session = "interrupted" /\ req[r].result = "deadline"

(* An error is reported only after every origin of the operation was tried *)
(* or one failed in a way that must not be retried, and an empty result    *)
(* never stands for a failure.                                             *)
FailoverExhausted ==
  \A r \in Requests :
    /\ req[r].result = "error" =>
         req[r].ending = "raise" \/ req[r].attempt = Len(req[r].origins)
    /\ req[r].result = "empty" => req[r].ending \in {"none", "failover", "empty"}

NegativeKeys == {entries[i].key : i \in {j \in DOMAIN entries : entries[j].value = Nothing}}

(* "No result" is remembered for an origin only by a request to which that *)
(* very origin answered every query of its plan, all of them without       *)
(* results: never after a failure, a cancellation or a partial search.     *)
NegativeEarned ==
  [][\A key \in NegativeKeys' \ NegativeKeys :
       \E r \in Requests :
         /\ req[r].pc = "querying"
         /\ key = Key(r)
         /\ req[r].answers = [i \in 1..Len(Plan(r)) |-> "empty"]]_vars

(* No query is sent twice to an origin, and none is empty.                 *)
NoQueryTwice ==
  \A r \in Requests : req[r].intent # Absent =>
    \A i \in DOMAIN Plan(r) :
      /\ Plan(r)[i] # <<>>
      /\ \A j \in DOMAIN Plan(r) : Plan(r)[i] = Plan(r)[j] => i = j

(* A request gives up on an origin as empty only when the first three      *)
(* different variants of its intent, and the title alone, were all asked   *)
(* for: a repeated or empty variant takes no other one's place.            *)
FirstThreeKept ==
  \A r \in Requests : req[r].pc = "querying" /\ Len(req[r].answers) = Len(Plan(r)) =>
    LET variants == Variants(req[r].intent)
        query(i) == Words(variants[i])
        earlier(i) == {query(j) : j \in 1..(i - 1)} \ {<<>>} IN
      /\ \A i \in DOMAIN variants :
           \/ query(i) = <<>>
           \/ Cardinality(earlier(i)) >= 3
           \/ Contains(Plan(r), query(i))
      /\ req[r].intent.series # Absent => Contains(Plan(r), <<req[r].intent.series>>)

(* What is sent to an origin before it counts as empty is complete and     *)
(* without repetition.                                                     *)
PlanSound == NoQueryTwice /\ FirstThreeKept

(* Every request is answered although no source ever answers it.           *)
Answered == \A r \in Requests : req[r].pc = "validating" ~> req[r].pc = "over"

(* README.md:221 says that search is bounded to three query variants.      *)
ThreeQueryVariants == \A r \in Requests : Len(req[r].answers) <= 3
=============================================================================
