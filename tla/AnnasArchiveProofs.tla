------------------------- MODULE AnnasArchiveProofs -------------------------
(***************************************************************************)
(* Proofs about AnnasArchive, for any finite set of fetches and any gate   *)
(* that the configuration allows, any hosts, files and limits.             *)
(*                                                                         *)
(* Of fetches: Fine says what one of them may be; SlotsHeld ties the gate  *)
(* to all of them.  Of a resolve: ResolveInv says what its turns have left *)
(* behind.  Of a search: SearchInv says what its response was made from.   *)
(* None needs the clock: no promise made here rests on time.               *)
(***************************************************************************)
EXTENDS AnnasArchive, SubsequenceProofs

Endings == {"page", "error", "challenge"}

States ==
  [pc : {"idle", "validating", "sending", "reading", "dropping", "solving", "recorded",
         "charging", "closing", "leaving", "over"},
   redirects : Nat, sends : Nat, solves : Nat,
   client : {"none", "open", "closed", "interrupted"},
   body : {"none", "page", "failure", "challenge"}, solved : BOOLEAN, expired : BOOLEAN,
   ending : {"none", "deadline"} \union Endings,
   result : {"none", "deadline", "internal"} \union Endings]

\* Before a challenge is taken to the resolver.
Early == {"idle", "validating", "sending", "reading", "dropping"}

\* Each request but the first follows a redirect, and there is one redirect.
Counted(s) ==
  /\ s.redirects <= MaxSourceRedirects
  /\ s.sends <= s.redirects + 1
  /\ s.pc \in {"idle", "validating"} => s.sends <= s.redirects
  /\ s.pc = "dropping" => s.redirects < MaxSourceRedirects
  /\ s.solves <= 1
  /\ s.pc \in Early => s.solves = 0

Genuine(s) ==
  /\ s.ending = "page" \/ s.result = "page" => s.body = "page" \/ s.solved
  /\ s.solves > 0 => s.body = "challenge"
  /\ s.pc \notin {"closing", "leaving", "over"} => s.ending = "none"
  /\ s.pc # "over" => s.result = "none"

\* Whoever cleans up knows why, and the deadline is the reason only of a fetch that
\* it has cancelled.
Released(s) ==
  /\ s.pc \in {"closing", "leaving"} =>
       s.ending \in Endings \/ (s.ending = "deadline" /\ s.expired)
  /\ s.pc = "over" =>
       \/ s.client \in {"none", "closed"}
       \/ s.result = "internal"
       \/ s.result = "deadline" /\ s.ending \in Endings

Fine(s) == s \in States /\ Counted(s) /\ Genuine(s) /\ Released(s)

FetchesFine == fetch \in [Callers -> States] /\ \A c \in Callers : Fine(fetch[c])

SlotsHeld ==
  /\ inflight = {c \in Callers : fetch[c].pc \in {"solving", "recorded"}}
  /\ Cardinality(inflight) <= MaxConcurrency

Inv == FetchesFine /\ SlotsHeld

-----------------------------------------------------------------------------
(* The ways a fetch's state changes.                                       *)

\* A fetch ends, and its client is closed.
LEMMA ClosingFine ==
  ASSUME NEW s, Fine(s), s.pc # "over", NEW why \in {"deadline"} \union Endings,
         why = "deadline" => s.expired,
         why = "page" => s.body = "page" \/ s.solved
  PROVE  Fine(Closing(s, why)) /\ Closing(s, why).pc = "closing"
<1> DEFINE t == Closing(s, why)
<1>1. t \in States
  BY DEF Fine, States, Endings, Closing
<1>2. /\ t.pc = "closing" /\ t.redirects = s.redirects /\ t.sends = s.sends
      /\ t.solves = s.solves /\ t.client = s.client /\ t.body = s.body /\ t.solved = s.solved
      /\ t.expired = s.expired /\ t.ending = why /\ t.result = s.result
  BY DEF Fine, States, Closing
<1> HIDE DEF t
<1>3. Counted(t)
  BY <1>2 DEF Fine, States, Counted, Early, MaxSourceRedirects
<1>4. Genuine(t)
  BY <1>2 DEF Fine, States, Counted, Genuine, Early
<1>5. Released(t)
  BY <1>2 DEF Fine, States, Released, Endings
<1> QED
  BY <1>1, <1>2, <1>3, <1>4, <1>5 DEF Fine, t

\* A fetch ends with a response that is still open.
LEMMA LeavingFine ==
  ASSUME NEW s, Fine(s), s.pc # "over", NEW why \in {"deadline"} \union Endings,
         why = "deadline" => s.expired,
         why = "page" => s.body = "page" \/ s.solved
  PROVE  Fine(Leaving(s, why)) /\ Leaving(s, why).pc = "leaving"
<1> DEFINE t == Leaving(s, why)
<1>1. t \in States
  BY DEF Fine, States, Endings, Leaving
<1>2. /\ t.pc = "leaving" /\ t.redirects = s.redirects /\ t.sends = s.sends
      /\ t.solves = s.solves /\ t.client = s.client /\ t.body = s.body /\ t.solved = s.solved
      /\ t.expired = s.expired /\ t.ending = why /\ t.result = s.result
  BY DEF Fine, States, Leaving
<1> HIDE DEF t
<1>3. Counted(t)
  BY <1>2 DEF Fine, States, Counted, Early, MaxSourceRedirects
<1>4. Genuine(t)
  BY <1>2 DEF Fine, States, Counted, Genuine, Early
<1>5. Released(t)
  BY <1>2 DEF Fine, States, Released, Endings
<1> QED
  BY <1>1, <1>2, <1>3, <1>4, <1>5 DEF Fine, t

\* A fetch is over.
LEMMA RaiseFine ==
  ASSUME NEW s, Fine(s), NEW outcome \in {"deadline", "internal"} \union Endings,
         outcome = "page" => s.body = "page" \/ s.solved,
         \/ s.client \in {"none", "closed"}
         \/ outcome = "internal"
         \/ outcome = "deadline" /\ s.ending \in Endings
  PROVE  Fine(Raise(s, outcome)) /\ Raise(s, outcome).pc = "over"
<1> DEFINE t == Raise(s, outcome)
<1>1. t \in States
  BY DEF Fine, States, Endings, Raise
<1>2. /\ t.pc = "over" /\ t.redirects = s.redirects /\ t.sends = s.sends
      /\ t.solves = s.solves /\ t.client = s.client /\ t.body = s.body /\ t.solved = s.solved
      /\ t.expired = s.expired /\ t.ending = s.ending /\ t.result = outcome
  BY DEF Fine, States, Raise
<1> HIDE DEF t
<1>3. Counted(t)
  BY <1>2 DEF Fine, States, Counted, Early, MaxSourceRedirects
<1>4. Genuine(t)
  BY <1>2 DEF Fine, States, Counted, Genuine, Early
<1>5. Released(t)
  BY <1>2 DEF Fine, States, Released, Endings
<1> QED
  BY <1>1, <1>2, <1>3, <1>4, <1>5 DEF Fine, t

(* The steps on the way to the body.                                       *)
LEMMA BeginFine ==
  ASSUME NEW s, Fine(s), s.pc = "idle"
  PROVE  LET t == [s EXCEPT !.pc = "validating"] IN Fine(t) /\ t.pc = "validating"
  BY DEF Fine, States, Counted, Genuine, Released, Early, Endings

\* A target that passed validation is asked for.
LEMMA SendFine ==
  ASSUME NEW s, Fine(s), s.pc = "validating"
  PROVE  LET t == [s EXCEPT !.pc = "sending", !.client = "open", !.sends = @ + 1] IN
           Fine(t) /\ t.pc = "sending"
<1> DEFINE t == [s EXCEPT !.pc = "sending", !.client = "open", !.sends = s.sends + 1]
<1>1. s.sends + 1 \in Nat
  BY DEF Fine, States
<1>2. t \in States
  BY <1>1 DEF Fine, States, Endings
<1>3. /\ t.pc = "sending" /\ t.redirects = s.redirects /\ t.sends = s.sends + 1
      /\ t.solves = s.solves /\ t.client = "open" /\ t.body = s.body /\ t.solved = s.solved
      /\ t.expired = s.expired /\ t.ending = s.ending /\ t.result = s.result
  BY <1>1 DEF Fine, States
<1> HIDE DEF t
<1>4. Counted(t)
  BY <1>3 DEF Fine, States, Counted, Early, MaxSourceRedirects
<1>5. Genuine(t)
  BY <1>3 DEF Fine, States, Counted, Genuine, Early
<1>6. Released(t)
  BY <1>3 DEF Fine, States, Released, Endings
<1> QED
  BY <1>2, <1>3, <1>4, <1>5, <1>6 DEF Fine, t

\* The headers have arrived.
LEMMA AnsweredFine ==
  ASSUME NEW s, Fine(s), s.pc = "sending", NEW to \in {"reading", "dropping"},
         to = "dropping" => s.redirects < MaxSourceRedirects
  PROVE  LET t == [s EXCEPT !.pc = to] IN Fine(t) /\ t.pc = to
  BY DEF Fine, States, Counted, Genuine, Released, Early, Endings

\* A redirect is followed, while there are any left.
LEMMA FollowFine ==
  ASSUME NEW s, Fine(s), s.pc = "dropping"
  PROVE  LET t == [s EXCEPT !.pc = "validating", !.redirects = @ + 1] IN
           Fine(t) /\ t.pc = "validating"
<1> DEFINE t == [s EXCEPT !.pc = "validating", !.redirects = s.redirects + 1]
<1>1. s.redirects + 1 \in Nat
  BY DEF Fine, States
<1>2. t \in States
  BY <1>1 DEF Fine, States, Endings
<1>3. /\ t.pc = "validating" /\ t.redirects = s.redirects + 1 /\ t.sends = s.sends
      /\ t.solves = s.solves /\ t.client = s.client /\ t.body = s.body /\ t.solved = s.solved
      /\ t.expired = s.expired /\ t.ending = s.ending /\ t.result = s.result
  BY <1>1 DEF Fine, States
<1> HIDE DEF t
<1>4. Counted(t)
  BY <1>3 DEF Fine, States, Counted, Early, MaxSourceRedirects
<1>5. Genuine(t)
  BY <1>3 DEF Fine, States, Counted, Genuine, Early
<1>6. Released(t)
  BY <1>3 DEF Fine, States, Released, Endings
<1> QED
  BY <1>2, <1>3, <1>4, <1>5, <1>6 DEF Fine, t

\* The body has been read.
LEMMA BodyFine ==
  ASSUME NEW s, Fine(s), s.pc = "reading", NEW body \in {"page", "failure", "challenge"}
  PROVE  LET t == [s EXCEPT !.body = body] IN Fine(t) /\ t.pc = "reading" /\ t.body = body
<1> DEFINE t == [s EXCEPT !.body = body]
<1>1. t \in States
  BY DEF Fine, States, Endings
<1>2. /\ t.pc = s.pc /\ t.redirects = s.redirects /\ t.sends = s.sends /\ t.solves = s.solves
      /\ t.client = s.client /\ t.body = body /\ t.solved = s.solved /\ t.expired = s.expired
      /\ t.ending = s.ending /\ t.result = s.result
  BY DEF Fine, States
<1> HIDE DEF t
<1>3. Counted(t)
  BY <1>2 DEF Fine, States, Counted, Early, MaxSourceRedirects
<1>4. Genuine(t)
  BY <1>2 DEF Fine, States, Counted, Genuine, Early
<1>5. Released(t)
  BY <1>2 DEF Fine, States, Released, Endings
<1> QED
  BY <1>1, <1>2, <1>3, <1>4, <1>5 DEF Fine, t

(* The steps at the resolver.                                              *)
LEMMA SolvingFine ==
  ASSUME NEW s, Fine(s), s.pc = "reading"
  PROVE  LET t == [s EXCEPT !.pc = "solving", !.body = "challenge", !.solves = @ + 1] IN
           Fine(t) /\ t.pc = "solving"
<1> DEFINE t == [s EXCEPT !.pc = "solving", !.body = "challenge", !.solves = s.solves + 1]
<1>1. s.solves + 1 \in Nat
  BY DEF Fine, States
<1>2. t \in States
  BY <1>1 DEF Fine, States, Endings
<1>3. /\ t.pc = "solving" /\ t.redirects = s.redirects /\ t.sends = s.sends
      /\ t.solves = s.solves + 1 /\ t.client = s.client /\ t.body = "challenge"
      /\ t.solved = s.solved /\ t.expired = s.expired /\ t.ending = s.ending
      /\ t.result = s.result
  BY <1>1 DEF Fine, States
<1> HIDE DEF t
<1>4. Counted(t)
  BY <1>3 DEF Fine, States, Counted, Early, MaxSourceRedirects
<1>5. Genuine(t)
  BY <1>3 DEF Fine, States, Counted, Genuine, Early
<1>6. Released(t)
  BY <1>3 DEF Fine, States, Released, Endings
<1> QED
  BY <1>2, <1>3, <1>4, <1>5, <1>6 DEF Fine, t

\* The resolver answered, or failed.
LEMMA SolverStepFine ==
  ASSUME NEW s, Fine(s), s.pc = "solving", NEW to \in {"recorded", "charging"}
  PROVE  LET t == [s EXCEPT !.pc = to] IN Fine(t) /\ t.pc = to
  BY DEF Fine, States, Counted, Genuine, Released, Early, Endings

\* The solution is a page.
LEMMA SolvedFine ==
  ASSUME NEW s, Fine(s)
  PROVE  LET t == [s EXCEPT !.solved = TRUE] IN Fine(t) /\ t.solved
<1> DEFINE t == [s EXCEPT !.solved = TRUE]
<1>1. t \in States
  BY DEF Fine, States, Endings
<1>2. /\ t.pc = s.pc /\ t.redirects = s.redirects /\ t.sends = s.sends /\ t.solves = s.solves
      /\ t.client = s.client /\ t.body = s.body /\ t.solved = TRUE /\ t.expired = s.expired
      /\ t.ending = s.ending /\ t.result = s.result
  BY DEF Fine, States
<1> HIDE DEF t
<1>3. Counted(t)
  BY <1>2 DEF Fine, States, Counted, Early, MaxSourceRedirects
<1>4. Genuine(t)
  BY <1>2 DEF Fine, States, Counted, Genuine, Early
<1>5. Released(t)
  BY <1>2 DEF Fine, States, Released, Endings
<1> QED
  BY <1>1, <1>2, <1>3, <1>4, <1>5 DEF Fine, t

(* The cleanup.                                                            *)
LEMMA ClientFine ==
  ASSUME NEW s, Fine(s), s.pc = "leaving", NEW left \in {"closed", "interrupted"}
  PROVE  LET t == [s EXCEPT !.client = left] IN
           Fine(t) /\ t.pc = "leaving" /\ t.client = left /\ t.ending = s.ending
           /\ t.body = s.body /\ t.solved = s.solved
  BY DEF Fine, States, Counted, Genuine, Released, Early, Endings

\* The deadline has cancelled the fetch.
LEMMA ExpiredFine ==
  ASSUME NEW s, Fine(s)
  PROVE  LET t == [s EXCEPT !.expired = TRUE] IN
           Fine(t) /\ t.expired /\ t.pc = s.pc /\ t.client = s.client /\ t.ending = s.ending
           /\ t.body = s.body /\ t.solved = s.solved
<1> DEFINE t == [s EXCEPT !.expired = TRUE]
<1>1. t \in States
  BY DEF Fine, States, Endings
<1>2. /\ t.pc = s.pc /\ t.redirects = s.redirects /\ t.sends = s.sends /\ t.solves = s.solves
      /\ t.client = s.client /\ t.body = s.body /\ t.solved = s.solved /\ t.expired = TRUE
      /\ t.ending = s.ending /\ t.result = s.result
  BY DEF Fine, States
<1> HIDE DEF t
<1>3. Counted(t)
  BY <1>2 DEF Fine, States, Counted, Early, MaxSourceRedirects
<1>4. Genuine(t)
  BY <1>2 DEF Fine, States, Counted, Genuine, Early
<1>5. Released(t)
  BY <1>2 DEF Fine, States, Released, Endings
<1> QED
  BY <1>1, <1>2, <1>3, <1>4, <1>5 DEF Fine, t

(* What is done with a body: only a page is returned.                      *)
LEMMA AfterBodyFine ==
  ASSUME NEW s, Fine(s), s.pc = "reading", NEW body \in {"page", "failure", "challenge"}
  PROVE  LET t == AfterBody([s EXCEPT !.body = body]) IN Fine(t) /\ t.pc = "closing"
<1> DEFINE b == [s EXCEPT !.body = body]
           t == AfterBody(b)
<1>1. Fine(b) /\ b.pc = "reading" /\ b.body = body
  BY BodyFine
<1> HIDE DEF b
<1>2. \E why \in Endings : t = Closing(b, why) /\ (why = "page" => b.body = "page")
  BY <1>1 DEF AfterBody, Endings
<1> HIDE DEF t
<1>3. Fine(t) /\ t.pc = "closing"
  BY <1>1, <1>2, ClosingFine DEF Endings
<1> QED
  BY <1>3 DEF t, b

-----------------------------------------------------------------------------
(* One fetch moves, and the gate with it or not.                           *)

Slot == {"solving", "recorded"}

\* The gate holds finitely many callers.
LEMMA GateFinite ==
  ASSUME SlotsHeld
  PROVE  inflight \subseteq Callers /\ IsFiniteSet(inflight) /\ Cardinality(inflight) \in Nat
<1>1. inflight \subseteq Callers
  BY DEF SlotsHeld
<1> QED
  BY <1>1, PageAssumption, FS_Subset, FS_CardinalityType DEF PageAssumption

\* One fetch moves, and the gate with it.
LEMMA FetchMoves ==
  ASSUME Inv, NEW c \in Callers, NEW t, Fine(t), fetch' = [fetch EXCEPT ![c] = t],
         inflight' = IF t.pc \in Slot THEN inflight \union {c} ELSE inflight \ {c},
         Cardinality(inflight') <= MaxConcurrency
  PROVE  Inv'
<1>1. /\ fetch' \in [Callers -> States]
      /\ \A q \in Callers : fetch'[q] = IF q = c THEN t ELSE fetch[q]
  BY DEF Inv, FetchesFine, Fine
<1>2. FetchesFine'
  BY <1>1 DEF Inv, FetchesFine
<1>3. inflight' = {q \in Callers : fetch'[q].pc \in {"solving", "recorded"}}
  BY <1>1 DEF Inv, SlotsHeld, Slot
<1> QED
  BY <1>2, <1>3 DEF Inv, SlotsHeld

\* A step of a fetch that leaves the gate alone.
LEMMA OwnKeeps ==
  ASSUME Inv, NEW c \in Callers, NEW from, NEW successors, Own(c, from, successors),
         from \notin Slot,
         \A t \in successors : Fine(t) /\ t.pc \notin Slot
  PROVE  Inv'
<1>1. PICK t \in successors : fetch' = [fetch EXCEPT ![c] = t]
  BY DEF Own, Go
<1>2. fetch[c].pc = from /\ UNCHANGED gateVars
  BY DEF Own, Go
<1>3. c \notin inflight
  BY <1>2 DEF Inv, SlotsHeld, Slot
<1>4. inflight' = inflight \ {c}
  BY <1>2, <1>3 DEF gateVars
<1>5. Cardinality(inflight') <= MaxConcurrency
  BY <1>2 DEF gateVars, Inv, SlotsHeld
<1> QED
  BY <1>1, <1>4, <1>5, FetchMoves

\* A step of a fetch that leaves the gate.
LEMMA LeaveKeeps ==
  ASSUME Inv, NEW c \in Callers, NEW from, NEW t, Go(c, from, {t}), Leave(c),
         Fine(t), t.pc \notin Slot
  PROVE  Inv'
<1>1. inflight' = inflight \ {c} /\ fetch' = [fetch EXCEPT ![c] = t]
  BY DEF Leave, Go
<1>2. Cardinality(inflight') <= MaxConcurrency
  <2>1. inflight' \subseteq inflight
    BY <1>1
  <2>2. Cardinality(inflight') \in Nat /\ Cardinality(inflight') <= Cardinality(inflight)
    BY <2>1, GateFinite, FS_Subset, FS_CardinalityType DEF Inv
  <2> QED
    BY <2>2, GateFinite, PageAssumption DEF Inv, SlotsHeld, PageAssumption
<1> QED
  BY <1>1, <1>2, FetchMoves

(* A verdict for the breaker moves no slot.                                *)
LEMMA VerdictKeeps ==
  ASSUME Inv, NEW c \in Callers, NEW from, NEW t, Go(c, from, {t}), Success(c) \/ Failure(c),
         Fine(t), from \in Slot <=> t.pc \in Slot
  PROVE  Inv'
<1>1. inflight' = inflight /\ fetch[c].pc = from /\ fetch' = [fetch EXCEPT ![c] = t]
  BY DEF Success, Failure, Go
<1>2. inflight' = IF t.pc \in Slot THEN inflight \union {c} ELSE inflight \ {c}
  BY <1>1 DEF Inv, SlotsHeld, Slot
<1> QED
  BY <1>1, <1>2, FetchMoves DEF Inv, SlotsHeld

\* A step of a fetch that enters the gate.
LEMMA EnterKeeps ==
  ASSUME Inv, NEW c \in Callers, NEW from, NEW t, Go(c, from, {t}), Enter(c),
         Fine(t), t.pc \in Slot
  PROVE  Inv'
<1>1. inflight' = inflight \union {c} /\ fetch' = [fetch EXCEPT ![c] = t]
  BY DEF Enter, Go
<1>2. Cardinality(inflight') <= MaxConcurrency
  <2>1. Cardinality(inflight \union {c}) = Cardinality(inflight) + 1
    BY GateFinite, FS_AddElement DEF Inv, Enter
  <2> QED
    BY <1>1, <2>1, GateFinite, PageAssumption DEF Inv, Enter, PageAssumption
<1> QED
  BY <1>1, <1>2, FetchMoves

-----------------------------------------------------------------------------
(* The steps of a fetch.                                                   *)

\* The steps of the requests and their redirects.
LEMMA RequestKeeps ==
  ASSUME Inv, NEW c \in Callers,
         \/ Begin(c) \/ TargetRejected(c) \/ TargetAccepted(c)
         \/ Responds(c) \/ Redirects(c) \/ Dropped(c)
  PROVE  Inv'
<1> DEFINE s == fetch[c]
<1>1. Fine(s)
  BY DEF Inv, FetchesFine
<1>2. CASE Begin(c)
  <2> DEFINE t == [s EXCEPT !.pc = "validating"]
  <2>1. Own(c, "idle", {t}) /\ s.pc = "idle"
    BY <1>2 DEF Begin, Own, Go
  <2>2. Fine(t) /\ t.pc = "validating"
    BY <1>1, <2>1, BeginFine
  <2> HIDE DEF t
  <2> QED
    BY <2>1, <2>2, OwnKeeps DEF Slot
<1>3. CASE TargetRejected(c)
  <2> DEFINE t == IF s.client = "none" THEN Raise(s, "error") ELSE Leaving(s, "error")
  <2>1. Own(c, "validating", {t}) /\ s.pc = "validating"
    BY <1>3 DEF TargetRejected, Own, Go
  <2>2. Fine(t) /\ t.pc \in {"over", "leaving"}
    BY <1>1, <2>1, RaiseFine, LeavingFine DEF Endings
  <2> HIDE DEF t
  <2> QED
    BY <2>1, <2>2, OwnKeeps DEF Slot
<1>4. CASE TargetAccepted(c)
  <2> DEFINE t == [s EXCEPT !.pc = "sending", !.client = "open", !.sends = @ + 1]
  <2>1. Own(c, "validating", {t}) /\ s.pc = "validating"
    BY <1>4 DEF TargetAccepted, Own, Go
  <2>2. Fine(t) /\ t.pc = "sending"
    BY <1>1, <2>1, SendFine
  <2> HIDE DEF t
  <2> QED
    BY <2>1, <2>2, OwnKeeps DEF Slot
<1>5. CASE Responds(c) \/ Redirects(c)
  <2> DEFINE t(to) == [s EXCEPT !.pc = to]
  <2>1. s.pc = "sending"
    BY <1>5 DEF Responds, Redirects, Own, Go
  <2>2. PICK to \in {"reading", "dropping"} :
          Own(c, "sending", {t(to)}) /\ (to = "dropping" => s.redirects < MaxSourceRedirects)
    BY <1>5 DEF Responds, Redirects
  <2>3. Fine(t(to)) /\ t(to).pc = to
    BY <1>1, <2>1, <2>2, AnsweredFine
  <2> HIDE DEF t
  <2> QED
    BY <2>2, <2>3, OwnKeeps DEF Slot
<1>6. CASE Dropped(c)
  <2> DEFINE t == [s EXCEPT !.pc = "validating", !.redirects = @ + 1]
  <2>1. Own(c, "dropping", {t}) /\ s.pc = "dropping"
    BY <1>6 DEF Dropped, Own, Go
  <2>2. Fine(t) /\ t.pc = "validating"
    BY <1>1, <2>1, FollowFine
  <2> HIDE DEF t
  <2> QED
    BY <2>1, <2>2, OwnKeeps DEF Slot
<1> QED
  BY <1>2, <1>3, <1>4, <1>5, <1>6

\* The steps from a response to its body, or to a failure.
LEMMA BodyKeeps ==
  ASSUME Inv, NEW c \in Callers,
         \/ Unreachable(c) \/ RedirectRefused(c) \/ BodyBroken(c) \/ BodyRead(c)
         \/ ChallengeUnsolved(c)
  PROVE  Inv'
<1> DEFINE s == fetch[c]
<1>1. Fine(s)
  BY DEF Inv, FetchesFine
<1>2. CASE Unreachable(c)
  <2>1. s.pc = "sending"
    BY <1>2 DEF Unreachable, Own, Go
  <2>2. Fine(Leaving(s, "error")) /\ Leaving(s, "error").pc = "leaving"
    BY <1>1, <2>1, LeavingFine DEF Endings
  <2> QED
    BY <1>2, <2>2, OwnKeeps DEF Unreachable, Slot
<1>3. ASSUME NEW from \in {"sending", "reading", "dropping"}, Own(c, from, {Closing(s, "error")})
      PROVE  Inv'
  <2>1. s.pc = from
    BY <1>3 DEF Own, Go
  <2>2. Fine(Closing(s, "error")) /\ Closing(s, "error").pc = "closing"
    BY <1>1, <2>1, ClosingFine DEF Endings
  <2> QED
    BY <1>3, <2>2, OwnKeeps DEF Slot
<1>4. CASE BodyRead(c)
  <2> DEFINE After(body) == AfterBody([s EXCEPT !.body = body])
             bodies == {"page", "failure", "challenge"}
  <2>1. Own(c, "reading", {After(body) : body \in bodies}) /\ s.pc = "reading"
    BY <1>4 DEF BodyRead, Own, Go
  <2>2. \A body \in bodies : Fine(After(body)) /\ After(body).pc = "closing"
    BY <1>1, <2>1, AfterBodyFine
  <2> HIDE DEF After, bodies
  <2>3. \A t \in {After(body) : body \in bodies} : Fine(t) /\ t.pc \notin Slot
    BY <2>2 DEF Slot
  <2> QED
    BY <2>1, <2>3, OwnKeeps DEF Slot
<1>5. CASE ChallengeUnsolved(c)
  <2> DEFINE b == [s EXCEPT !.body = "challenge"]
             t == Closing(b, "error")
  <2>1. Own(c, "reading", {t}) /\ s.pc = "reading"
    BY <1>5 DEF ChallengeUnsolved, Own, Go
  <2>2. Fine(b) /\ b.pc = "reading"
    BY <1>1, <2>1, BodyFine
  <2> HIDE DEF b
  <2>3. Fine(t) /\ t.pc = "closing"
    BY <2>2, ClosingFine DEF Endings
  <2> HIDE DEF t
  <2> QED
    BY <2>1, <2>3, OwnKeeps DEF Slot
<1> QED
  BY <1>2, <1>3, <1>4, <1>5 DEF RedirectRefused, BodyBroken

\* The steps through the gate, to the resolver and back.
LEMMA ChallengeKeeps ==
  ASSUME Inv, NEW c \in Callers,
         \/ ChallengeTaken(c) \/ SolverAnswers(c) \/ SolutionUsed(c)
         \/ SolverFails(c) \/ ChargeFailure(c) \/ SolutionRejected(c)
  PROVE  Inv'
<1> DEFINE s == fetch[c]
<1>1. Fine(s)
  BY DEF Inv, FetchesFine
<1>2. CASE ChallengeTaken(c)
  <2> DEFINE t == [s EXCEPT !.pc = "solving", !.body = "challenge", !.solves = @ + 1]
  <2>1. Go(c, "reading", {t}) /\ Enter(c) /\ s.pc = "reading"
    BY <1>2 DEF ChallengeTaken, Go
  <2>2. Fine(t) /\ t.pc = "solving"
    BY <1>1, <2>1, SolvingFine
  <2> HIDE DEF t
  <2> QED
    BY <2>1, <2>2, EnterKeeps DEF Slot
<1>3. CASE SolverAnswers(c)
  <2> DEFINE t == [s EXCEPT !.pc = "recorded"]
  <2>1. Go(c, "solving", {t}) /\ Success(c) /\ s.pc = "solving"
    BY <1>3 DEF SolverAnswers, Go
  <2>2. Fine(t) /\ t.pc = "recorded"
    BY <1>1, <2>1, SolverStepFine
  <2> HIDE DEF t
  <2> QED
    BY <2>1, <2>2, VerdictKeeps DEF Slot
<1>4. CASE SolutionUsed(c)
  <2> DEFINE b == [s EXCEPT !.solved = TRUE]
             t == Closing(b, "page")
  <2>1. Go(c, "recorded", {t}) /\ Leave(c) /\ s.pc = "recorded"
    BY <1>4 DEF SolutionUsed, Go
  <2>2. Fine(b) /\ b.solved /\ b.pc = "recorded"
    BY <1>1, <2>1, SolvedFine
  <2> HIDE DEF b
  <2>3. Fine(t) /\ t.pc = "closing"
    BY <2>2, ClosingFine DEF Endings
  <2> HIDE DEF t
  <2> QED
    BY <2>1, <2>3, LeaveKeeps DEF Slot
<1>5. CASE SolverFails(c)
  <2> DEFINE t == [s EXCEPT !.pc = "charging"]
  <2>1. Go(c, "solving", {t}) /\ Leave(c) /\ s.pc = "solving"
    BY <1>5 DEF SolverFails, Go
  <2>2. Fine(t) /\ t.pc = "charging"
    BY <1>1, <2>1, SolverStepFine
  <2> HIDE DEF t
  <2> QED
    BY <2>1, <2>2, LeaveKeeps DEF Slot
<1>6. CASE ChargeFailure(c) \/ SolutionRejected(c)
  <2>1. s.pc \in {"charging", "solving"}
    BY <1>6 DEF ChargeFailure, SolutionRejected, Go
  <2>2. Fine(Closing(s, "error")) /\ Closing(s, "error").pc = "closing"
    BY <1>1, <2>1, ClosingFine DEF Endings
  <2> QED
    BY <1>6, <2>2, VerdictKeeps, LeaveKeeps DEF ChargeFailure, SolutionRejected, Slot
<1> QED
  BY <1>2, <1>3, <1>4, <1>5, <1>6

\* The response and the client are closed, or fail to.
LEMMA CleanupKeeps ==
  ASSUME Inv, NEW c \in Callers, ResponseCloses(c) \/ ResponseBreaks(c) \/ ClientCloses(c)
  PROVE  Inv'
<1> DEFINE s == fetch[c]
<1>1. Fine(s)
  BY DEF Inv, FetchesFine
<1>2. s.pc \in {"closing", "leaving"}
  BY DEF ResponseCloses, ResponseBreaks, ClientCloses, Own, Go
<1>3. /\ s.ending \in {"deadline"} \union Endings
      /\ s.ending = "deadline" => s.expired
      /\ s.ending = "page" => s.body = "page" \/ s.solved
  BY <1>1, <1>2 DEF Fine, States, Released, Genuine, Endings
<1>4. CASE ResponseCloses(c)
  <2>1. Fine(Leaving(s, s.ending)) /\ Leaving(s, s.ending).pc = "leaving"
    BY <1>1, <1>2, <1>3, LeavingFine
  <2> QED
    BY <1>4, <2>1, OwnKeeps DEF ResponseCloses, Slot
<1>5. CASE ResponseBreaks(c)
  <2>1. Fine(Raise(s, "internal")) /\ Raise(s, "internal").pc = "over"
    BY <1>1, RaiseFine DEF Endings
  <2> QED
    BY <1>5, <2>1, OwnKeeps DEF ResponseBreaks, Slot
<1>6. CASE ClientCloses(c)
  <2> DEFINE b == [s EXCEPT !.client = "closed"]
             t == Raise(b, s.ending)
  <2>1. Own(c, "leaving", {t}) /\ s.pc = "leaving"
    BY <1>6 DEF ClientCloses, Own, Go
  <2>2. Fine(b) /\ b.client = "closed" /\ b.body = s.body /\ b.solved = s.solved
    BY <1>1, <2>1, ClientFine
  <2> HIDE DEF b
  <2>3. Fine(t) /\ t.pc = "over"
    BY <1>3, <2>2, RaiseFine
  <2> HIDE DEF t
  <2> QED
    BY <2>1, <2>3, OwnKeeps DEF Slot
<1> QED
  BY <1>4, <1>5, <1>6

\* The deadline, wherever it strikes.
LEMMA ExpireKeeps ==
  ASSUME Inv, NEW c \in Callers, Expire(c)
  PROVE  Inv'
<1> DEFINE s == fetch[c]
           e == [s EXCEPT !.expired = TRUE]
<1>1. Fine(s) /\ ~s.expired
  BY DEF Inv, FetchesFine, Expire
<1>2. /\ Fine(e) /\ e.expired /\ e.pc = s.pc /\ e.client = s.client /\ e.ending = s.ending
  BY <1>1, ExpiredFine
<1>3. \/ e.client = "none" /\ Own(c, "validating", {Raise(e, "deadline")})
      \/ e.client # "none" /\ Own(c, "validating", {Leaving(e, "deadline")})
      \/ Own(c, "sending", {Leaving(e, "deadline")})
      \/ \E from \in {"reading", "dropping"} : Own(c, from, {Closing(e, "deadline")})
      \/ Own(c, "closing", {Raise(e, "deadline")})
      \/ Own(c, "leaving", {Raise([e EXCEPT !.client = "interrupted"], "deadline")})
      \/ \E from \in {"solving", "recorded"} : Go(c, from, {Closing(e, "deadline")}) /\ Leave(c)
      \/ Go(c, "charging", {Closing(e, "deadline")}) /\ Failure(c)
  BY DEF Expire, ExpireOwn
<1>4. e.pc \in {"closing", "leaving"} => e.ending \in Endings
  BY <1>1, <1>2 DEF Fine, Released
<1>5. e.pc # "over" => /\ Fine(Closing(e, "deadline")) /\ Closing(e, "deadline").pc = "closing"
                       /\ Fine(Leaving(e, "deadline")) /\ Leaving(e, "deadline").pc = "leaving"
  BY <1>2, ClosingFine, LeavingFine
<1>6. e.client = "none" \/ e.ending \in Endings =>
        Fine(Raise(e, "deadline")) /\ Raise(e, "deadline").pc = "over"
  BY <1>2, RaiseFine DEF Endings
<1> HIDE DEF e
<1>7. ASSUME NEW from, NEW successors, Own(c, from, successors) \/ Go(c, from, successors)
      PROVE  e.pc = from
  BY <1>2, <1>7 DEF Own, Go
<1>8. CASE e.client = "none" /\ Own(c, "validating", {Raise(e, "deadline")})
  BY <1>6, <1>8, OwnKeeps DEF Slot
<1>9. CASE Own(c, "validating", {Leaving(e, "deadline")}) \/ Own(c, "sending", {Leaving(e, "deadline")})
  <2>1. e.pc # "over"
    BY <1>7, <1>9
  <2> QED
    BY <1>5, <1>9, <2>1, OwnKeeps DEF Slot
<1>10. ASSUME NEW from \in {"reading", "dropping"}, Own(c, from, {Closing(e, "deadline")})
       PROVE  Inv'
  <2>1. e.pc # "over"
    BY <1>7, <1>10
  <2> QED
    BY <1>5, <1>10, <2>1, OwnKeeps DEF Slot
<1>11. CASE Own(c, "closing", {Raise(e, "deadline")})
  <2>1. e.pc = "closing"
    BY <1>7, <1>11
  <2> QED
    BY <1>4, <1>6, <1>11, <2>1, OwnKeeps DEF Slot
<1>12. CASE Own(c, "leaving", {Raise([e EXCEPT !.client = "interrupted"], "deadline")})
  <2> DEFINE b == [e EXCEPT !.client = "interrupted"]
             t == Raise(b, "deadline")
  <2>1. e.pc = "leaving"
    BY <1>7, <1>12
  <2>2. Fine(b) /\ b.ending \in Endings
    BY <1>2, <1>4, <2>1, ClientFine
  <2> HIDE DEF b
  <2>3. Fine(t) /\ t.pc = "over"
    BY <2>2, RaiseFine DEF Endings
  <2>4. Own(c, "leaving", {t})
    BY <1>12 DEF b
  <2> HIDE DEF t
  <2> QED
    BY <2>3, <2>4, OwnKeeps DEF Slot
<1>13. ASSUME NEW from \in {"solving", "recorded"}, Go(c, from, {Closing(e, "deadline")}), Leave(c)
       PROVE  Inv'
  <2>1. e.pc # "over"
    BY <1>7, <1>13
  <2> QED
    BY <1>5, <1>13, <2>1, LeaveKeeps DEF Slot
<1>14. CASE Go(c, "charging", {Closing(e, "deadline")}) /\ Failure(c)
  <2>1. e.pc # "over"
    BY <1>7, <1>14
  <2> QED
    BY <1>5, <1>14, <2>1, VerdictKeeps DEF Slot
<1> QED
  BY <1>3, <1>8, <1>9, <1>10, <1>11, <1>12, <1>13, <1>14

\* Time passes.
LEMMA TickKeeps ==
  ASSUME Inv, Tick \/ UNCHANGED vars
  PROVE  Inv'
<1>1. UNCHANGED <<inflight, fetch>>
  BY DEF Tick, Pass, vars, gateVars
<1> QED
  BY <1>1 DEF Inv, FetchesFine, SlotsHeld

\* No fetch has begun.
LEMMA InvInitially == Init => Inv
<1> SUFFICES ASSUME Init PROVE Inv
  OBVIOUS
<1>1. Fine(Idle) /\ Idle.pc = "idle"
  BY DEF Fine, States, Idle, Counted, Genuine, Released, Endings, Early, MaxSourceRedirects
<1>2. FetchesFine
  BY <1>1 DEF Init, FetchesFine, Fine
<1>3. SlotsHeld
  <2>1. inflight = {} /\ \A c \in Callers : fetch[c].pc = "idle"
    BY <1>1 DEF Init, GateInit
  <2>2. Cardinality(inflight) = 0
    BY <2>1, FS_EmptySet
  <2> QED
    BY <2>1, <2>2, PageAssumption DEF SlotsHeld, PageAssumption
<1> QED
  BY <1>2, <1>3 DEF Inv

\* Every step keeps the invariant.
LEMMA InvKept == Inv /\ [Next]_vars => Inv'
  BY RequestKeeps, BodyKeeps, ChallengeKeeps, CleanupKeeps, ExpireKeeps, TickKeeps DEF Next, Step

\* The invariant of the fetches and the gate.
LEMMA InvHolds == Spec => []Inv
  BY InvInitially, InvKept, PTL DEF Spec

-----------------------------------------------------------------------------
(* However a source redirects and challenges, a page costs two requests    *)
(* and one solution, and a slot of the resolver is held only while it      *)
(* solves: fetch_source_html and resolve_after_challenge.                  *)
THEOREM FetchesAreBounded == Spec => []BoundedFetch
<1>1. Inv => BoundedFetch
  <2> SUFFICES ASSUME Inv PROVE BoundedFetch
    OBVIOUS
  <2>1. ASSUME NEW c \in Callers
        PROVE  fetch[c].sends <= 2 /\ fetch[c].solves <= 1
    <3>1. fetch[c] \in States /\ Counted(fetch[c])
      BY DEF Inv, FetchesFine, Fine
    <3> QED
      BY <3>1 DEF States, Counted, MaxSourceRedirects
  <2> QED
    BY <2>1 DEF BoundedFetch, Inv, SlotsHeld
<1> QED
  BY <1>1, InvHolds, PTL

(* What fetch_source_html returns is never a challenge or the body of a    *)
(* failure, and only a challenge is taken to the resolver.                 *)
THEOREM PagesAreGenuine == Spec => []PageGenuine
<1>1. Inv => PageGenuine
  BY DEF Inv, FetchesFine, Fine, Genuine, PageGenuine
<1> QED
  BY <1>1, InvHolds, PTL

(* The client of a fetch outlives it in two cases only: closing the        *)
(* response raised, or the deadline came during the cleanup: the finally   *)
(* block of fetch_source_html.                                             *)
THEOREM ClientsAreReleased == Spec => []ClientReleased
<1>1. Inv => ClientReleased
  BY DEF Inv, FetchesFine, Fine, Released, ClientReleased, Endings
<1> QED
  BY <1>1, InvHolds, PTL

(* The resolver never has more fetches to solve for than the configuration *)
(* says, whichever of them the deadline cancels.                           *)
THEOREM SlotsStayBounded ==
  Spec => [](Cardinality({c \in Callers : fetch[c].pc \in {"solving", "recorded"}}) <= MaxConcurrency)
<1>1. Inv => Cardinality({c \in Callers : fetch[c].pc \in {"solving", "recorded"}}) <= MaxConcurrency
  BY DEF Inv, SlotsHeld
<1> QED
  BY <1>1, InvHolds, PTL

(* Seen from the resolver, the fetches are callers of the gate that        *)
(* ResolverRuntime implements, and do nothing else to it.                  *)
THEOREM FetchesUseTheGate == Spec => GateSpec
<1>1. Init => GateInit
  BY DEF Init
<1>2. [Next]_vars => [GateNext]_gateVars
  BY DEF Next, Step, Tick, GateNext, vars, gateVars, Own, Begin, TargetRejected, TargetAccepted,
         Unreachable, Responds, Redirects, RedirectRefused, Dropped, BodyBroken, BodyRead,
         ChallengeUnsolved, ChallengeTaken, SolverAnswers, SolutionUsed, SolverFails,
         ChargeFailure, SolutionRejected, ResponseCloses, ResponseBreaks, ClientCloses,
         Expire, ExpireOwn
<1> QED
  BY <1>1, <1>2, PTL DEF Spec, GateSpec

-----------------------------------------------------------------------------
(* Resolves.  The answers that are kept are those of different servers, in *)
(* the order in which these are asked.                                     *)

\* The instances' list operators are those that SubsequenceProofs is about.
LEMMA ResolveLists ==
  ASSUME NEW s, NEW P, NEW D
  PROVE  /\ Resolve!Selected(s, P) = Selected(s, P)
         /\ Resolve!NewFirsts(s, D) = NewFirsts(s, D)
<1>1. \A k : Resolve!Place(P, k) = Place(P, k)
  BY DEF Resolve!Place, Place, Resolve!Cardinality, Cardinality
<1>2. Resolve!Cardinality(P) = Cardinality(P)
  BY DEF Resolve!Cardinality, Cardinality
<1>3. Resolve!Selected(s, P) = Selected(s, P)
  BY <1>1, <1>2 DEF Resolve!Selected, Selected
<1>4. Resolve!Firsts(s) = Firsts(s)
  BY DEF Resolve!Firsts, Firsts
<1>5. Resolve!NewFirsts(s, D) = NewFirsts(s, D)
  BY <1>4 DEF Resolve!NewFirsts, NewFirsts
<1> QED
  BY <1>3, <1>5

Origins == Hosts \union {Resolve!NoLink}
Payload == [server : Nat, host : Origins]
Payloads == Seq(Payload)

Climbing(kept) == \A i, j \in 1..Len(kept) : i < j => kept[i].server < kept[j].server
Below(kept, server) == \A i \in 1..Len(kept) : kept[i].server < server

\* Each host that granted a link, once, by its first server, in server order.
Exact(m, kept) ==
  /\ {m[i].host : i \in DOMAIN m} = {kept[i].host : i \in DOMAIN kept} \ {Resolve!NoLink}
  /\ \A i, j \in DOMAIN m : i < j => m[i].server < m[j].server /\ m[i].host # m[j].host
  /\ \A i \in DOMAIN m, j \in DOMAIN kept :
       kept[j].host = m[i].host => m[i].server <= kept[j].server

\* The mirrors of the answers that are kept: exact, and led by the first server's.
LEMMA MirrorsKnown ==
  ASSUME NEW kept \in Payloads, Climbing(kept)
  PROVE  /\ Exact(Resolve!Mirrors(kept), kept)
         /\ kept # <<>> /\ kept[1].host # Resolve!NoLink =>
              Resolve!Mirrors(kept) # <<>> /\ Resolve!Mirrors(kept)[1] = kept[1]
<1> DEFINE D == {Resolve!NoLink}
           hosts == [i \in 1..Len(kept) |-> kept[i].host]
           P == NewFirsts(hosts, D)
           h == Selected(hosts, P)
           m == Selected(kept, P)
<1>1. /\ Len(kept) \in Nat /\ DOMAIN kept = 1..Len(kept)
      /\ \A i \in 1..Len(kept) : kept[i].server \in Nat /\ kept[i].host \in Origins
  <2>1. Len(kept) \in Nat /\ DOMAIN kept = 1..Len(kept)
    BY DEF Payloads
  <2>2. \A i \in 1..Len(kept) : kept[i] \in Payload
    BY ElementOfSeq DEF Payloads
  <2> QED
    BY <2>1, <2>2 DEF Payload
<1>2. hosts \in Seq(Origins) /\ Len(hosts) = Len(kept) /\ \A i \in 1..Len(kept) : hosts[i] = kept[i].host
  BY <1>1
<1>3. Resolve!Mirrors(kept) = m
  <2>1. Resolve!Mirrors(kept) = Resolve!Selected(kept, Resolve!NewFirsts(hosts, D))
    BY <1>1 DEF Resolve!Mirrors
  <2> QED
    BY <2>1, ResolveLists
<1> HIDE DEF hosts, D
<1>4. P \in SUBSET (1..Len(kept))
  BY <1>2 DEF NewFirsts, Firsts
<1>5. /\ Len(h) \in Nat
      /\ \A k \in 1..Len(h) : Place(P, k) \in 1..Len(hosts) /\ h[k] = hosts[Place(P, k)] /\ h[k] \notin D
      /\ \A k, l \in 1..Len(h) : k < l <=> Place(P, k) < Place(P, l)
      /\ \A k, l \in 1..Len(h) : h[k] = h[l] => k = l
      /\ \A i \in 1..Len(hosts) : hosts[i] \notin D => \E k \in 1..Len(h) : h[k] = hosts[i] /\ Place(P, k) <= i
  <2>1. hosts \in Seq(Origins)
    BY <1>2
  <2> QED
    BY <2>1, DistinctKnown
<1> HIDE DEF P, h
<1>15. Len(hosts) = Len(kept)
  BY <1>2
<1>6. Len(h) = Cardinality(P)
  BY <1>2, <1>4, SelectedKnown DEF h
<1>7. /\ Len(m) = Len(h) /\ m \in Payloads
      /\ \A k \in 1..Len(m) : m[k] = kept[Place(P, k)]
  BY <1>4, <1>6, SelectedKnown DEF Payloads
<1> HIDE DEF m
<1>8. DOMAIN m = 1..Len(h)
  BY <1>7 DEF Payloads
<1>9. \A k \in 1..Len(h) : m[k].host = h[k] /\ m[k] = kept[Place(P, k)]
  BY <1>2, <1>5, <1>15, <1>7
<1>10. {m[i].host : i \in DOMAIN m} = {kept[i].host : i \in DOMAIN kept} \ D
  <2>1. ASSUME NEW k \in 1..Len(h)
        PROVE  m[k].host \in {kept[i].host : i \in 1..Len(kept)} \ D
    <3>1. m[k].host \notin D
      BY <1>5, <1>9
    <3>2. Place(P, k) \in 1..Len(kept) /\ m[k] = kept[Place(P, k)]
      BY <1>5, <1>15, <1>9
    <3> QED
      BY <3>1, <3>2
  <2>2. \A i \in 1..Len(kept) : kept[i].host \notin D => \E k \in 1..Len(h) : m[k].host = kept[i].host
    <3> SUFFICES ASSUME NEW i \in 1..Len(kept), kept[i].host \notin D
                 PROVE  \E k \in 1..Len(h) : m[k].host = kept[i].host
      OBVIOUS
    <3>1. hosts[i] = kept[i].host
      BY <1>2
    <3> QED
      BY <1>5, <1>15, <1>9, <3>1
  <2> QED
    BY <1>1, <1>8, <2>1, <2>2
<1>11. ASSUME NEW i \in 1..Len(h), NEW j \in 1..Len(h), i < j
       PROVE  m[i].server < m[j].server /\ m[i].host # m[j].host
  <2>1. Place(P, i) < Place(P, j) /\ Place(P, i) \in 1..Len(kept) /\ Place(P, j) \in 1..Len(kept)
    BY <1>5, <1>15, <1>11
  <2>2. m[i].server < m[j].server
    BY <1>9, <2>1 DEF Climbing
  <2>3. i # j
    BY <1>11
  <2> QED
    BY <1>5, <1>15, <1>9, <2>2, <2>3
<1>12. ASSUME NEW i \in 1..Len(h), NEW j \in 1..Len(kept), kept[j].host = m[i].host
       PROVE  m[i].server <= kept[j].server
  <2>1. Place(P, i) <= j /\ Place(P, i) \in 1..Len(kept)
    BY <1>2, <1>5, <1>15, <1>9, <1>12
  <2>2. kept[Place(P, i)].server <= kept[j].server
    <3>1. Place(P, i) = j \/ Place(P, i) < j
      BY <2>1
    <3>2. Place(P, i) < j => kept[Place(P, i)].server < kept[j].server
      BY <2>1 DEF Climbing
    <3> QED
      BY <1>1, <2>1, <3>1, <3>2
  <2> QED
    BY <1>9, <2>2
<1>13. ASSUME kept # <<>>, kept[1].host # Resolve!NoLink
       PROVE  m # <<>> /\ m[1] = kept[1]
  <2>1. 1 \in 1..Len(kept) /\ hosts[1] \notin D
    <3>1. Len(kept) # 0
      BY <1>13, EmptySeq DEF Payloads
    <3>2. 1 \in 1..Len(kept)
      BY <1>1, <3>1
    <3> QED
      BY <1>2, <1>13, <3>2 DEF D
  <2>2. PICK k \in 1..Len(h) : Place(P, k) <= 1
    BY <1>5, <1>15, <2>1
  <2>3. 1 \in 1..Len(h) /\ (k = 1 \/ 1 < k)
    BY <1>5, <1>15, <2>2
  <2>4. Place(P, 1) <= Place(P, k) /\ Place(P, 1) \in 1..Len(kept) /\ Place(P, k) \in 1..Len(kept)
    BY <1>5, <1>15, <2>3
  <2>5. Place(P, 1) = 1
    BY <2>2, <2>4
  <2>6. Len(m) # 0
    BY <1>5, <1>15, <1>7, <2>3
  <2> QED
    BY <1>9, <2>3, <2>5, <2>6
<1>14. Exact(m, kept)
  <2>1. \A i, j \in DOMAIN m : i < j => m[i].server < m[j].server /\ m[i].host # m[j].host
    BY <1>8, <1>11
  <2>2. \A i \in DOMAIN m, j \in DOMAIN kept :
          kept[j].host = m[i].host => m[i].server <= kept[j].server
    BY <1>1, <1>8, <1>12
  <2> QED
    BY <1>10, <2>1, <2>2 DEF D, Exact
<1> QED
  BY <1>3, <1>13, <1>14

Busy == {"sending", "reading", "closing", "leaving"}

\* Which server is asked, what the ones before it have granted, and why a turn ends.
TurnInv ==
  /\ pc \in {"idle", "over"} \union Busy
  /\ payloads \in Payloads /\ Climbing(payloads)
  /\ answer \in Resolve!Answers \union {Resolve!NoAnswer}
  /\ pc = "idle" => payloads = <<>>
  /\ pc \in Busy => turn \in 1..4 /\ Below(payloads, 2 * (turn - 1))
  /\ pc \in Busy /\ turn = 1 => payloads = <<>>
  /\ pc \in {"closing", "leaving"} =>
       \/ ending \in {"answered", "failed", "broken"}
       \/ ending = "cancelled" /\ expired

\* A used-up quota is remembered in the turn that ends with it.
QuotaInv ==
  /\ pc = "idle" => refused = Resolve!NoTurn
  /\ refused # Resolve!NoTurn =>
       /\ turn = refused /\ turn > 1
       /\ pc \in {"closing", "leaving", "over"}
       /\ pc # "over" => ending # "failed" /\ (ending = "answered" => Resolve!QuotaRefused(answer))

\* A link of the first server is lost to the deadline or to a broken cleanup only.
OutcomeInv ==
  /\ pc # "over" => result = "none"
  /\ result = "artifact" => Resolve!Mirrors(payloads) # <<>>
  /\ pc = "over" /\ payloads # <<>> /\ payloads[1].host # Resolve!NoLink =>
       \/ result = "artifact"
       \/ result = "deadline" /\ expired
       \/ result = "internal" /\ ending = "broken"

ResolveInv == TurnInv /\ QuotaInv /\ OutcomeInv

\* A request that ends without an artifact, for a reason.
LEMMA RaisingKeeps ==
  ASSUME ResolveInv, NEW outcome, outcome # "artifact",
         pc' = "over", result' = outcome, UNCHANGED <<turn, payloads, expired, ending, refused>>,
         answer' \in Resolve!Answers \union {Resolve!NoAnswer},
         \/ payloads = <<>>
         \/ outcome = "deadline" /\ expired
         \/ outcome = "internal" /\ ending = "broken"
  PROVE  ResolveInv'
<1>1. TurnInv'
  BY DEF ResolveInv, TurnInv, Busy, Climbing
<1>2. QuotaInv'
  BY DEF ResolveInv, QuotaInv
<1>3. OutcomeInv'
  BY DEF ResolveInv, OutcomeInv
<1> QED
  BY <1>1, <1>2, <1>3 DEF ResolveInv

\* A request that ends with what was granted.
LEMMA SettlingKeeps ==
  ASSUME ResolveInv, NEW kept \in Payloads, Climbing(kept), Resolve!Settle(kept),
         UNCHANGED <<expired, refused>>, answer' = Resolve!NoAnswer
  PROVE  ResolveInv'
<1>1. /\ pc' = "over" /\ payloads' = kept /\ turn' = turn /\ ending' = ending
      /\ result' = IF Resolve!Mirrors(kept) = <<>> THEN "malformed" ELSE "artifact"
  BY DEF Resolve!Settle
<1>2. TurnInv'
  BY <1>1 DEF ResolveInv, TurnInv, Busy, Climbing
<1>3. QuotaInv'
  BY <1>1 DEF ResolveInv, QuotaInv
<1>4. OutcomeInv'
  <2>1. Resolve!Mirrors(payloads)' = Resolve!Mirrors(kept)
    BY <1>1
  <2>2. kept # <<>> /\ kept[1].host # Resolve!NoLink => Resolve!Mirrors(kept) # <<>>
    BY MirrorsKnown
  <2> QED
    BY <1>1, <2>1, <2>2 DEF OutcomeInv
<1> QED
  BY <1>2, <1>3, <1>4 DEF ResolveInv

\* The next server is asked, or the request ends with what was granted.
LEMMA ContinuingKeeps ==
  ASSUME ResolveInv, pc \in Busy, refused = Resolve!NoTurn,
         NEW kept \in Payloads, Climbing(kept), Below(kept, 2 * turn), Resolve!Continue(kept),
         UNCHANGED <<expired, refused>>, answer' = Resolve!NoAnswer
  PROVE  ResolveInv'
<1>1. turn \in 1..4 /\ result = "none"
  BY DEF ResolveInv, TurnInv, OutcomeInv, Busy
<1>2. Len(Resolve!DomainIndices) = 4
  BY DEF Resolve!DomainIndices
<1>3. CASE turn < 4
  <2>1. /\ pc' = "sending" /\ turn' = turn + 1 /\ payloads' = kept /\ result' = result
        /\ ending' = "none"
    BY <1>2, <1>3 DEF Resolve!Continue, Resolve!Ask
  <2>2. turn' \in 1..4 /\ 2 * (turn' - 1) = 2 * turn /\ turn' # 1
    BY <1>1, <1>3, <2>1
  <2>3. TurnInv'
    BY <2>1, <2>2 DEF TurnInv, Busy, Climbing, Below
  <2>4. QuotaInv'
    BY <2>1 DEF QuotaInv
  <2>5. OutcomeInv'
    BY <1>1, <2>1 DEF OutcomeInv
  <2> QED
    BY <2>3, <2>4, <2>5 DEF ResolveInv
<1>4. CASE ~(turn < 4)
  <2>1. Resolve!Settle(kept)
    BY <1>2, <1>4 DEF Resolve!Continue
  <2> QED
    BY <2>1, SettlingKeeps
<1> QED
  BY <1>3, <1>4

\* A turn is over: the request goes on with the next one, or ends.
LEMMA ClientClosesKeeps ==
  ASSUME ResolveInv, Resolve!ClientCloses
  PROVE  ResolveInv'
<1>1. /\ pc = "leaving" /\ pc \in Busy /\ answer' = Resolve!NoAnswer
      /\ UNCHANGED <<expired, refused>>
      /\ turn \in 1..4 /\ payloads \in Payloads /\ Climbing(payloads)
      /\ Below(payloads, 2 * (turn - 1)) /\ (turn = 1 => payloads = <<>>)
  BY DEF Resolve!ClientCloses, ResolveInv, TurnInv, Busy
<1>2. Below(payloads, 2 * turn)
  <2> SUFFICES ASSUME NEW i \in 1..Len(payloads) PROVE payloads[i].server < 2 * turn
    BY DEF Below
  <2>1. payloads[i] \in Payload
    BY <1>1, ElementOfSeq DEF Payloads
  <2>2. payloads[i].server < 2 * (turn - 1) /\ payloads[i].server \in Nat
    BY <1>1, <2>1 DEF Below, Payload
  <2> QED
    BY <1>1, <2>2
<1>3. ASSUME NEW outcome, outcome # "artifact", Resolve!Raise(outcome),
             \/ payloads = <<>>
             \/ outcome = "deadline" /\ expired
             \/ outcome = "internal" /\ ending = "broken"
      PROVE  ResolveInv'
  <2>1. pc' = "over" /\ result' = outcome /\ UNCHANGED <<turn, payloads, ending>>
    BY <1>3 DEF Resolve!Raise, Resolve!Over
  <2> QED
    BY <1>1, <1>3, <2>1, RaisingKeeps
<1>4. ASSUME ending = "failed" \/ (ending = "answered" /\ (turn = 1 \/ ~Resolve!QuotaRefused(answer)))
      PROVE  refused = Resolve!NoTurn
  BY <1>1, <1>4 DEF ResolveInv, QuotaInv
<1>5. CASE ending = "cancelled" /\ Resolve!Raise("deadline")
  <2>1. expired
    BY <1>1, <1>5 DEF ResolveInv, TurnInv
  <2> QED
    BY <1>3, <1>5, <2>1
<1>6. CASE ending = "broken" /\ Resolve!Raise("internal")
  BY <1>3, <1>6
<1>7. CASE ending = "failed" /\ Resolve!TurnFailed
  <2>1. CASE turn = 1
    BY <1>1, <1>3, <1>7, <2>1 DEF Resolve!TurnFailed
  <2>2. CASE turn # 1
    <3>1. Resolve!Continue(payloads)
      BY <1>7, <2>2 DEF Resolve!TurnFailed
    <3> QED
      BY <1>1, <1>2, <1>4, <1>7, <3>1, ContinuingKeeps
  <2> QED
    BY <2>1, <2>2
<1>8. CASE ending = "answered" /\ Resolve!TurnAnswered
  <2> DEFINE p == [server |-> Resolve!DomainIndices[turn], host |-> answer.host]
             kept == Append(payloads, p)
  <2>1. Resolve!DomainIndices[turn] = 2 * (turn - 1) /\ 2 * (turn - 1) \in Nat /\ 2 * (turn - 1) < 2 * turn
    BY <1>1 DEF Resolve!DomainIndices
  <2>2. answer.host \in Origins
    BY DEF ResolveInv, TurnInv, Resolve!Answers, Resolve!NoAnswer, Origins
  <2>3. p \in Payload /\ p.server = 2 * (turn - 1)
    BY <2>1, <2>2 DEF Payload
  <2> HIDE DEF p
  <2>4. kept \in Payloads /\ Climbing(kept) /\ Below(kept, 2 * turn)
    <3>1. /\ kept \in Payloads /\ Len(kept) = Len(payloads) + 1 /\ Len(payloads) \in Nat
          /\ \A i \in 1..Len(payloads) : kept[i] = payloads[i]
          /\ kept[Len(payloads) + 1] = p
      BY <1>1, <2>3, AppendProperties DEF Payloads
    <3> HIDE DEF kept
    <3>2. \A i \in 1..Len(kept) : i \in 1..Len(payloads) \/ i = Len(payloads) + 1
      BY <3>1
    <3>3. Climbing(kept)
      <4> SUFFICES ASSUME NEW i \in 1..Len(kept), NEW j \in 1..Len(kept), i < j
                   PROVE  kept[i].server < kept[j].server
        BY DEF Climbing
      <4>1. i \in 1..Len(payloads)
        BY <3>1
      <4> QED
        BY <1>1, <2>3, <3>1, <3>2, <4>1 DEF Climbing, Below
    <3>4. Below(kept, 2 * turn)
      BY <1>2, <2>1, <2>3, <3>1, <3>2 DEF Below
    <3> QED
      BY <3>1, <3>3, <3>4
  <2>5. Resolve!Kept = kept
    BY DEF Resolve!Kept, p
  <2> HIDE DEF kept
  <2>6. CASE turn > 1 /\ Resolve!QuotaRefused(answer)
    <3>1. Resolve!Settle(payloads)
      BY <1>8, <2>6 DEF Resolve!TurnAnswered, Resolve!AlternateAnswered
    <3> QED
      BY <1>1, <3>1, SettlingKeeps
  <2>7. CASE turn > 1 /\ ~Resolve!QuotaRefused(answer)
    <3>1. Resolve!Continue(kept) \/ Resolve!Continue(payloads)
      BY <1>8, <2>5, <2>7 DEF Resolve!TurnAnswered, Resolve!AlternateAnswered
    <3>2. refused = Resolve!NoTurn
      BY <1>4, <1>8, <2>7
    <3> QED
      BY <1>1, <1>2, <2>4, <3>1, <3>2, ContinuingKeeps
  <2>8. CASE turn = 1
    <3>1. \/ Resolve!Continue(kept)
          \/ Resolve!Raise(Resolve!PrimaryError(answer))
      BY <1>8, <2>5, <2>8 DEF Resolve!TurnAnswered
    <3>2. Resolve!PrimaryError(answer) # "artifact"
      BY DEF Resolve!PrimaryError
    <3>3. refused = Resolve!NoTurn /\ payloads = <<>>
      BY <1>1, <1>4, <1>8, <2>8
    <3> QED
      BY <1>1, <1>3, <2>4, <3>1, <3>2, <3>3, ContinuingKeeps
  <2> QED
    BY <1>1, <2>6, <2>7, <2>8
<1> QED
  BY <1>1, <1>5, <1>6, <1>7, <1>8 DEF Resolve!ClientCloses, ResolveInv, TurnInv

\* The request begins, or is refused.
LEMMA BeginningKeeps ==
  ASSUME ResolveInv, NEW budget, Resolve!Begin(budget)
  PROVE  ResolveInv'
<1>1. /\ pc = "idle" /\ payloads = <<>> /\ refused = Resolve!NoTurn /\ result = "none"
      /\ UNCHANGED <<expired, answer, refused>>
      /\ answer \in Resolve!Answers \union {Resolve!NoAnswer}
  BY DEF Resolve!Begin, ResolveInv, TurnInv, QuotaInv, OutcomeInv, Busy
<1>2. CASE Resolve!Ask(1, <<>>)
  <2>1. pc' = "sending" /\ turn' = 1 /\ payloads' = <<>> /\ result' = "none"
    BY <1>1, <1>2 DEF Resolve!Ask
  <2>2. <<>> \in Payloads /\ Climbing(<<>>) /\ Below(<<>>, 0)
    BY DEF Payloads, Climbing, Below
  <2>3. TurnInv'
    BY <1>1, <2>1, <2>2 DEF TurnInv, Busy, Below
  <2>4. QuotaInv' /\ OutcomeInv'
    BY <1>1, <2>1 DEF QuotaInv, OutcomeInv
  <2> QED
    BY <2>3, <2>4 DEF ResolveInv
<1>3. CASE \E outcome \in {"deadline", "domain", "candidate", "authentication"} :
             Resolve!Over(outcome) /\ UNCHANGED <<client, ending>>
  BY <1>1, <1>3, RaisingKeeps DEF Resolve!Over
<1> QED
  BY <1>2, <1>3 DEF Resolve!Begin

\* The wait for the API, for the body and for the response to close.
LEMMA WaitingKeeps ==
  ASSUME ResolveInv,
         \/ Resolve!ApiUnreachable \/ Resolve!ResponseStarts \/ Resolve!BodyMalformed
         \/ Resolve!BodyRead \/ Resolve!ResponseCloses
  PROVE  ResolveInv'
<1>1. /\ pc \in {"sending", "reading", "closing"} /\ pc' \in {"reading", "closing", "leaving"}
      /\ UNCHANGED <<expired, turn, payloads, result>>
  BY DEF Resolve!ApiUnreachable, Resolve!ResponseStarts, Resolve!BodyMalformed, Resolve!BodyRead,
         Resolve!ResponseCloses, Resolve!request
<1>2. answer' \in Resolve!Answers \union {Resolve!NoAnswer}
  BY DEF Resolve!ApiUnreachable, Resolve!ResponseStarts, Resolve!BodyMalformed, Resolve!BodyRead,
         Resolve!ResponseCloses, ResolveInv, TurnInv
<1>3. pc' \in {"closing", "leaving"} =>
        \/ ending' \in {"answered", "failed", "broken"}
        \/ ending' = "cancelled" /\ expired
  BY DEF Resolve!ApiUnreachable, Resolve!ResponseStarts, Resolve!BodyMalformed, Resolve!BodyRead,
         Resolve!ResponseCloses, ResolveInv, TurnInv
<1>4. TurnInv'
  BY <1>1, <1>2, <1>3 DEF ResolveInv, TurnInv, Busy, Climbing, Below
<1>5. QuotaInv'
  <2>1. CASE Resolve!BodyRead
    <3>1. /\ pc = "reading" /\ pc' = "closing" /\ ending' = "answered"
          /\ refused' = IF Resolve!QuotaRefused(answer') /\ turn > 1 THEN turn ELSE refused
      BY <2>1 DEF Resolve!BodyRead
    <3>2. refused = Resolve!NoTurn
      BY <3>1 DEF ResolveInv, QuotaInv
    <3> QED
      BY <1>1, <3>1, <3>2 DEF QuotaInv, Resolve!QuotaRefused
  <2>2. CASE Resolve!ResponseCloses
    BY <1>1, <2>2 DEF Resolve!ResponseCloses, ResolveInv, QuotaInv, Resolve!QuotaRefused
  <2>3. CASE Resolve!ApiUnreachable \/ Resolve!ResponseStarts \/ Resolve!BodyMalformed
    <3>1. refused' = refused /\ pc \in {"sending", "reading"}
      BY <2>3 DEF Resolve!ApiUnreachable, Resolve!ResponseStarts, Resolve!BodyMalformed
    <3>2. refused = Resolve!NoTurn
      BY <3>1 DEF ResolveInv, QuotaInv
    <3> QED
      BY <3>1, <3>2 DEF QuotaInv
  <2> QED
    BY <2>1, <2>2, <2>3
<1>6. OutcomeInv'
  BY <1>1 DEF ResolveInv, OutcomeInv
<1> QED
  BY <1>4, <1>5, <1>6 DEF ResolveInv

\* The deadline: the turn is left, or the request ends where its client was closing.
LEMMA ExpiringKeeps ==
  ASSUME ResolveInv, Resolve!Expire
  PROVE  ResolveInv'
<1>1. expired' /\ UNCHANGED <<answer, refused>>
  BY DEF Resolve!Expire
<1>2. CASE /\ pc \in {"sending", "reading", "closing"} /\ pc' \in {"closing", "leaving"}
           /\ ending' = "cancelled"
           /\ UNCHANGED <<turn, payloads, result>>
  <2>1. TurnInv'
    BY <1>1, <1>2 DEF ResolveInv, TurnInv, Busy, Climbing, Below
  <2>2. QuotaInv'
    BY <1>1, <1>2 DEF ResolveInv, QuotaInv
  <2>3. OutcomeInv'
    BY <1>2 DEF ResolveInv, OutcomeInv
  <2> QED
    BY <2>1, <2>2, <2>3 DEF ResolveInv
<1>3. CASE pc = "leaving" /\ Resolve!Over("deadline") /\ UNCHANGED ending
  <2>1. pc' = "over" /\ result' = "deadline" /\ UNCHANGED <<turn, payloads, ending>>
    BY <1>3 DEF Resolve!Over
  <2>2. TurnInv'
    BY <1>1, <2>1 DEF ResolveInv, TurnInv, Busy, Climbing
  <2>3. QuotaInv'
    BY <1>1, <2>1 DEF ResolveInv, QuotaInv
  <2>4. OutcomeInv'
    BY <1>1, <2>1 DEF OutcomeInv
  <2> QED
    BY <2>2, <2>3, <2>4 DEF ResolveInv
<1> QED
  BY <1>2, <1>3 DEF Resolve!Expire

\* A step that does nothing to the request.
LEMMA NoTurnKeeps ==
  ASSUME ResolveInv, UNCHANGED <<pc, expired, turn, payloads, result, ending, answer, refused>>
  PROVE  ResolveInv'
<1>1. TurnInv'
  BY DEF ResolveInv, TurnInv, Climbing, Below
<1>2. QuotaInv'
  BY DEF ResolveInv, QuotaInv, Resolve!QuotaRefused
<1>3. OutcomeInv'
  <2>1. Resolve!Mirrors(payloads)' = Resolve!Mirrors(payloads)
    BY DEF Resolve!Mirrors
  <2> QED
    BY <2>1 DEF ResolveInv, OutcomeInv
<1> QED
  BY <1>1, <1>2, <1>3 DEF ResolveInv

\* A resolve request does not notice the other requests of its provider.
LEMMA ServiceResolves == ServiceSpec => Resolve!Spec
<1>1. ServiceInit => Resolve!Init
  BY DEF ServiceInit
<1>2. [ServiceNext]_<<followed, vars, resolveVars, searchVars>> => [Resolve!Next]_(Resolve!vars)
  BY DEF ServiceNext, PageStep, ResolveStep, SearchStep, resolveVars, Resolve!vars
<1> QED
  BY <1>1, <1>2, PTL DEF ServiceSpec, Resolve!Spec

\* What is kept is what the servers before this one granted, and a turn, a used-up
\* quota and an outcome are where its answers let them be: ResolveInv, of every
\* reachable state of a resolve.
THEOREM TurnsKeepTheirPlace == ServiceSpec => []ResolveInv
<1>1. Resolve!Init => ResolveInv
  <2> SUFFICES ASSUME Resolve!Init PROVE ResolveInv
    OBVIOUS
  <2>1. /\ pc = "idle" /\ payloads = <<>> /\ answer = Resolve!NoAnswer /\ result = "none"
        /\ refused = Resolve!NoTurn
    BY DEF Resolve!Init
  <2>2. TurnInv
    BY <2>1 DEF TurnInv, Busy, Payloads, Climbing
  <2>3. QuotaInv /\ OutcomeInv
    BY <2>1 DEF QuotaInv, OutcomeInv
  <2> QED
    BY <2>2, <2>3 DEF ResolveInv
<1>2. ResolveInv /\ [Resolve!Next]_(Resolve!vars) => ResolveInv'
  <2> SUFFICES ASSUME ResolveInv, [Resolve!Next]_(Resolve!vars) PROVE ResolveInv'
    OBVIOUS
  <2>1. CASE Resolve!Tick \/ UNCHANGED Resolve!vars
    BY <2>1, NoTurnKeeps DEF Resolve!Tick, Resolve!vars, Resolve!request
  <2> QED
    BY <2>1, BeginningKeeps, WaitingKeeps, ClientClosesKeeps, ExpiringKeeps DEF Resolve!Next
<1> QED
  BY <1>1, <1>2, ServiceResolves, PTL DEF Resolve!Spec

(* Whatever the other three servers answer or fail with, a link that the   *)
(* first one granted is listed first unless the deadline passes or closing *)
(* a response raises, nobody is asked after a used-up quota, and mirrors   *)
(* are exact: resolve and _secure_fast_download_mirrors.                   *)
THEOREM GrantedLinksAreKept == ServiceSpec => []PrimaryKept
<1>1. ResolveInv => PrimaryKept
  <2> SUFFICES ASSUME ResolveInv PROVE Resolve!PrimaryKept
    BY DEF PrimaryKept
  <2>1. /\ Exact(Resolve!Mirrors(payloads), payloads)
        /\ payloads # <<>> /\ payloads[1].host # Resolve!NoLink =>
             Resolve!Mirrors(payloads)[1] = payloads[1]
    BY MirrorsKnown DEF ResolveInv, TurnInv
  <2>2. Resolve!MirrorsExact
    BY <2>1 DEF ResolveInv, OutcomeInv, Exact, Resolve!MirrorsExact
  <2>3. refused # Resolve!NoTurn => turn = refused
    BY DEF ResolveInv, QuotaInv
  <2>4. pc = "over" /\ payloads # <<>> /\ payloads[1].host # Resolve!NoLink =>
          \/ result = "artifact" /\ Resolve!Mirrors(payloads)[1] = payloads[1]
          \/ result = "deadline" /\ expired
          \/ result = "internal" /\ ending = "broken"
    BY <2>1 DEF ResolveInv, OutcomeInv
  <2> QED
    BY <2>2, <2>3, <2>4 DEF Resolve!PrimaryKept
<1> QED
  BY <1>1, TurnsKeepTheirPlace, PTL

-----------------------------------------------------------------------------
(* Searches.  The catalogue's answer is reordered, thinned out and cut     *)
(* off, and each of these keeps the order that it finds.                   *)

\* The instance's list operators are those that SubsequenceProofs is about.
LEMMA SearchLists ==
  ASSUME NEW s, NEW P, NEW count, NEW D
  PROVE  /\ Search!Cardinality(P) = Cardinality(P)
         /\ Search!Selected(s, P) = Selected(s, P)
         /\ Search!NewFirsts(s, D) = NewFirsts(s, D)
         /\ Search!First(s, count) = First(s, count)
<1>1. \A k : Search!Place(P, k) = Place(P, k)
  BY DEF Search!Place, Place, Search!Cardinality, Cardinality
<1>2. Search!Cardinality(P) = Cardinality(P)
  BY DEF Search!Cardinality, Cardinality
<1>3. Search!Selected(s, P) = Selected(s, P)
  BY <1>1, <1>2 DEF Search!Selected, Selected
<1>4. Search!Firsts(s) = Firsts(s)
  BY DEF Search!Firsts, Firsts
<1>5. Search!NewFirsts(s, D) = NewFirsts(s, D)
  BY <1>4 DEF Search!NewFirsts, NewFirsts
<1>6. Search!First(s, count) = First(s, count)
  BY DEF Search!First, First
<1> QED
  BY <1>2, <1>3, <1>5, <1>6

Lists == Seq(Search!CatalogCandidate)
Derived(x) == x.mobile

\* Mobile derivatives come last.
DerivedLast(s) == \A i, j \in 1..Len(s) : Derived(s[i]) /\ i < j => Derived(s[j])

\* The same candidates, in another order.
SameMembers(s, t) ==
  /\ \A i \in 1..Len(s) : \E j \in 1..Len(t) : s[i] = t[j]
  /\ \A j \in 1..Len(t) : \E i \in 1..Len(s) : s[i] = t[j]

\* The sort moves the derivatives to the end, and nothing else.
LEMMA RankedKnown ==
  ASSUME NEW c \in Lists
  PROVE  /\ Search!Ranked(c) \in Lists
         /\ SameMembers(Search!Ranked(c), c)
         /\ DerivedLast(Search!Ranked(c))
<1> DEFINE A == {i \in 1..Len(c) : ~Derived(c[i])}
           B == {i \in 1..Len(c) : Derived(c[i])}
           a == Selected(c, A)
           b == Selected(c, B)
           r == a \o b
<1>1. Search!Ranked(c) = r
  <2>1. DOMAIN c = 1..Len(c)
    BY DEF Lists
  <2>2. Search!Ranked(c) = Search!Selected(c, A) \o Search!Selected(c, B)
    BY <2>1 DEF Search!Ranked, Derived
  <2> QED
    BY <2>2, SearchLists
<1>2. A \in SUBSET (1..Len(c)) /\ B \in SUBSET (1..Len(c))
  OBVIOUS
<1>3. \A i \in 1..Len(c) : i \in A \/ i \in B
  OBVIOUS
<1>4. (\A i \in A : ~Derived(c[i])) /\ (\A i \in B : Derived(c[i]))
  OBVIOUS
<1> HIDE DEF A, B
<1>5. /\ a \in Lists /\ Len(a) \in Nat
      /\ \A k \in 1..Len(a) : Place(A, k) \in A /\ a[k] = c[Place(A, k)]
      /\ \A i \in A : \E k \in 1..Len(a) : Place(A, k) = i
  BY <1>2, SelectedKnown DEF Lists
<1>6. /\ b \in Lists /\ Len(b) \in Nat
      /\ \A k \in 1..Len(b) : Place(B, k) \in B /\ b[k] = c[Place(B, k)]
      /\ \A i \in B : \E k \in 1..Len(b) : Place(B, k) = i
  BY <1>2, SelectedKnown DEF Lists
<1> HIDE DEF a, b
<1>7. /\ r \in Lists /\ Len(r) = Len(a) + Len(b)
      /\ \A i \in 1..Len(r) : r[i] = IF i <= Len(a) THEN a[i] ELSE b[i - Len(a)]
  BY <1>5, <1>6, ConcatProperties DEF Lists
<1> HIDE DEF r
<1>8. \A i \in 1..Len(r) :
        \/ i \in 1..Len(a) /\ r[i] = a[i]
        \/ i > Len(a) /\ i - Len(a) \in 1..Len(b) /\ r[i] = b[i - Len(a)]
  BY <1>5, <1>6, <1>7
<1>9. \A i \in 1..Len(a) : i \in 1..Len(r) /\ r[i] = a[i]
  BY <1>5, <1>6, <1>7
<1>10. \A i \in 1..Len(b) : i + Len(a) \in 1..Len(r) /\ r[i + Len(a)] = b[i]
  BY <1>5, <1>6, <1>7
<1>11. /\ \A k \in 1..Len(a) : ~Derived(a[k])
       /\ \A k \in 1..Len(b) : Derived(b[k])
  BY <1>4, <1>5, <1>6
<1>12. DerivedLast(r)
  <2> SUFFICES ASSUME NEW i \in 1..Len(r), NEW j \in 1..Len(r), Derived(r[i]), i < j
               PROVE  Derived(r[j])
    BY DEF DerivedLast
  <2>1. i \notin 1..Len(a)
    BY <1>9, <1>11
  <2>2. i > Len(a)
    BY <1>8, <2>1
  <2>3. j \notin 1..Len(a)
    BY <1>5, <2>2
  <2> QED
    BY <1>8, <1>11, <2>3
<1>13. \A i \in 1..Len(r) : \E j \in 1..Len(c) : r[i] = c[j]
  <2>1. \A k \in 1..Len(a) : \E j \in 1..Len(c) : a[k] = c[j]
    BY <1>2, <1>5
  <2>2. \A k \in 1..Len(b) : \E j \in 1..Len(c) : b[k] = c[j]
    BY <1>2, <1>6
  <2> SUFFICES ASSUME NEW i \in 1..Len(r) PROVE \E j \in 1..Len(c) : r[i] = c[j]
    OBVIOUS
  <2>3. (\E k \in 1..Len(a) : r[i] = a[k]) \/ (\E k \in 1..Len(b) : r[i] = b[k])
    BY <1>8
  <2> QED
    BY <2>1, <2>2, <2>3
<1>14. ASSUME NEW j \in 1..Len(c)
       PROVE  \E i \in 1..Len(r) : r[i] = c[j]
  <2>1. CASE j \in A
    <3>1. PICK k \in 1..Len(a) : a[k] = c[j]
      BY <1>5, <2>1
    <3> QED
      BY <1>9, <3>1
  <2>2. CASE j \in B
    <3>1. PICK k \in 1..Len(b) : b[k] = c[j]
      BY <1>6, <2>2
    <3> QED
      BY <1>10, <3>1
  <2> QED
    BY <1>3, <2>1, <2>2
<1> QED
  BY <1>1, <1>7, <1>12, <1>13, <1>14 DEF SameMembers

\* No file is listed twice, or unknown.
KnownOnce(s) ==
  /\ \A i \in 1..Len(s) : s[i].md5 # Search!Unknown
  /\ \A i, j \in 1..Len(s) : s[i].md5 = s[j].md5 => i = j

\* The pass lists each known file at its first place, and keeps the order.
LEMMA ListedKnown ==
  ASSUME NEW r \in Lists, DerivedLast(r)
  PROVE  LET t == Search!Listed(r) IN
           /\ t \in Lists /\ KnownOnce(t) /\ DerivedLast(t)
           /\ \A k \in 1..Len(t) : \E i \in 1..Len(r) : t[k] = r[i]
           /\ \A i \in 1..Len(r) : r[i].md5 # Search!Unknown =>
                \E k \in 1..Len(t) : t[k].md5 = r[i].md5 /\ (Derived(t[k]) => Derived(r[i]))
<1> DEFINE D == {Search!Unknown}
           M == Md5s \union D
           md5s == [i \in 1..Len(r) |-> r[i].md5]
           P == NewFirsts(md5s, D)
           h == Selected(md5s, P)
           t == Selected(r, P)
<1>1. Len(r) \in Nat /\ DOMAIN r = 1..Len(r)
  BY DEF Lists
<1>2. \A i \in 1..Len(r) : r[i].md5 \in M
  <2>1. \A i \in 1..Len(r) : r[i] \in Search!CatalogCandidate
    BY ElementOfSeq DEF Lists
  <2> QED
    BY <2>1 DEF Search!CatalogCandidate
<1>3. md5s \in Seq(M) /\ Len(md5s) = Len(r) /\ \A i \in 1..Len(r) : md5s[i] = r[i].md5
  BY <1>1, <1>2
<1>4. Search!Listed(r) = t
  <2>1. Search!Listed(r) = Search!Selected(r, Search!NewFirsts(md5s, D))
    BY <1>1 DEF Search!Listed
  <2> QED
    BY <2>1, SearchLists
<1> HIDE DEF md5s, D
<1>5. P \in SUBSET (1..Len(r))
  BY <1>3 DEF NewFirsts, Firsts
<1>6. /\ Len(h) \in Nat
      /\ \A k \in 1..Len(h) : Place(P, k) \in 1..Len(md5s) /\ h[k] = md5s[Place(P, k)] /\ h[k] \notin D
      /\ \A k, l \in 1..Len(h) : k < l <=> Place(P, k) < Place(P, l)
      /\ \A k, l \in 1..Len(h) : h[k] = h[l] => k = l
      /\ \A i \in 1..Len(md5s) : md5s[i] \notin D => \E k \in 1..Len(h) : h[k] = md5s[i] /\ Place(P, k) <= i
  <2>1. md5s \in Seq(M)
    BY <1>3
  <2> QED
    BY <2>1, DistinctKnown
<1> HIDE DEF P
<1>7. Len(h) = Cardinality(P)
  BY <1>3, <1>5, SelectedKnown
<1>8. /\ Len(t) = Len(h) /\ t \in Lists
      /\ \A k \in 1..Len(t) : t[k] = r[Place(P, k)]
  BY <1>5, <1>7, SelectedKnown DEF Lists
<1> HIDE DEF h, t
<1>9. Len(md5s) = Len(r)
  BY <1>3
<1>10. \A k \in 1..Len(h) : Place(P, k) \in 1..Len(r) /\ t[k] = r[Place(P, k)] /\ t[k].md5 = h[k]
  BY <1>3, <1>6, <1>8, <1>9
<1>11. KnownOnce(t)
  BY <1>6, <1>8, <1>10 DEF KnownOnce, D
<1>12. DerivedLast(t)
  <2> SUFFICES ASSUME NEW k \in 1..Len(t), NEW l \in 1..Len(t), Derived(t[k]), k < l
               PROVE  Derived(t[l])
    BY DEF DerivedLast
  <2>1. Place(P, k) < Place(P, l)
    BY <1>6, <1>8
  <2>2. /\ Place(P, k) \in 1..Len(r) /\ t[k] = r[Place(P, k)]
        /\ Place(P, l) \in 1..Len(r) /\ t[l] = r[Place(P, l)]
    BY <1>8, <1>10
  <2>3. Derived(r[Place(P, l)])
    BY <2>1, <2>2 DEF DerivedLast
  <2> QED
    BY <2>2, <2>3
<1>13. ASSUME NEW i \in 1..Len(r), r[i].md5 # Search!Unknown
       PROVE  \E k \in 1..Len(t) : t[k].md5 = r[i].md5 /\ (Derived(t[k]) => Derived(r[i]))
  <2>1. md5s[i] = r[i].md5 /\ md5s[i] \notin D
    BY <1>3, <1>13 DEF D
  <2>2. PICK k \in 1..Len(h) : h[k] = md5s[i] /\ Place(P, k) <= i
    BY <1>6, <1>9, <2>1
  <2>3. t[k].md5 = r[i].md5 /\ t[k] = r[Place(P, k)] /\ Place(P, k) \in 1..Len(r)
    BY <1>10, <2>1, <2>2
  <2>4. Place(P, k) = i \/ Place(P, k) < i
    BY <2>2, <2>3
  <2>5. Derived(t[k]) => Derived(r[i])
    BY <2>3, <2>4 DEF DerivedLast
  <2> QED
    BY <1>8, <2>3, <2>5
<1>14. \A k \in 1..Len(t) : \E i \in 1..Len(r) : t[k] = r[i]
  BY <1>8, <1>10
<1> QED
  BY <1>4, <1>8, <1>11, <1>12, <1>13, <1>14

\* Different files are as many as their places.
LEMMA FilesCounted ==
  ASSUME NEW s \in Lists, KnownOnce(s)
  PROVE  Search!Cardinality({s[i].md5 : i \in DOMAIN s}) = Len(s)
<1> DEFINE D == 1..Len(s)
           T == {s[i].md5 : i \in DOMAIN s}
           f == [i \in D |-> s[i].md5]
<1>1. Len(s) \in Nat /\ DOMAIN s = D
  BY DEF Lists
<1>2. f \in [D -> T]
  BY <1>1
<1>3. \A i, j \in D : f[i] = f[j] => i = j
  BY DEF KnownOnce
<1>4. \A x \in T : \E i \in D : f[i] = x
  BY <1>1
<1>5. IsFiniteSet(D) /\ Cardinality(D) = Len(s)
  <2>1. \A n \in Nat : IsFiniteSet(1..n) /\ Cardinality(1..n) = n
    BY FS_Interval
  <2> HIDE DEF T, f
  <2> QED
    BY <1>1, <2>1
<1> HIDE DEF f, T, D
<1>6. f \in Bijection(D, T)
  BY <1>2, <1>3, <1>4 DEF Bijection, Injection, Surjection, IsInjective
<1>7. Cardinality(T) = Cardinality(D)
  BY <1>5, <1>6, FS_Bijection DEF ExistsBijection
<1>8. Search!Cardinality(T) = Cardinality(T)
  BY SearchLists
<1> QED
  BY <1>5, <1>7, <1>8 DEF T

\* What the catalogue's answer is made into: every known file once, derivatives last
\* and only of files that are not listed themselves.
LEMMA FromCatalogKnown ==
  ASSUME NEW c \in Lists
  PROVE  LET t == Search!Listed(Search!Ranked(c)) IN
           /\ t \in Lists /\ KnownOnce(t) /\ DerivedLast(t)
           /\ \A k \in 1..Len(t) : \E i \in 1..Len(c) : t[k] = c[i]
           /\ \A i \in 1..Len(c) : c[i].md5 # Search!Unknown =>
                \E k \in 1..Len(t) : t[k].md5 = c[i].md5 /\ (Derived(t[k]) => Derived(c[i]))
<1> DEFINE r == Search!Ranked(c)
           t == Search!Listed(r)
<1>1. r \in Lists /\ SameMembers(r, c) /\ DerivedLast(r)
  BY RankedKnown
<1> HIDE DEF r
<1>2. /\ t \in Lists /\ KnownOnce(t) /\ DerivedLast(t)
      /\ \A k \in 1..Len(t) : \E i \in 1..Len(r) : t[k] = r[i]
      /\ \A i \in 1..Len(r) : r[i].md5 # Search!Unknown =>
           \E k \in 1..Len(t) : t[k].md5 = r[i].md5 /\ (Derived(t[k]) => Derived(r[i]))
  BY <1>1, ListedKnown
<1> HIDE DEF t
<1>3. \A k \in 1..Len(t) : \E i \in 1..Len(c) : t[k] = c[i]
  BY <1>1, <1>2 DEF SameMembers
<1>4. ASSUME NEW i \in 1..Len(c), c[i].md5 # Search!Unknown
      PROVE  \E k \in 1..Len(t) : t[k].md5 = c[i].md5 /\ (Derived(t[k]) => Derived(c[i]))
  <2>1. PICK j \in 1..Len(r) : r[j] = c[i]
    BY <1>1 DEF SameMembers
  <2> QED
    BY <1>2, <1>4, <2>1
<1> QED
  BY <1>2, <1>3, <1>4 DEF r, t

\* What is shown of it is its beginning, and flagged if that is not all.
LEMMA ShownKnown ==
  ASSUME NEW c \in Lists
  PROVE  LET t == Search!Listed(Search!Ranked(c))
             r == Search!Respond(Search!FromCatalog(c))
             shown == r.candidates IN
           /\ shown \in Lists
           /\ \A i \in 1..Len(shown) : i \in 1..Len(t) /\ shown[i] = t[i]
           /\ r.truncated <=> Len(t) > PageLimit
           /\ Len(shown) = IF Len(t) > PageLimit THEN PageLimit ELSE Len(t)
           /\ r.kind \in {"found", "empty"}
<1> DEFINE n == PageLimit
           t == Search!Listed(Search!Ranked(c))
           kept == First(t, n + 1)
           shown == First(kept, n)
           r == Search!Respond(Search!FromCatalog(c))
<1>1. n \in Nat /\ n + 1 \in Nat
  BY ArchiveAssumption DEF ArchiveAssumption
<1>2. t \in Lists
  BY FromCatalogKnown
<1>3. /\ r.candidates = shown /\ (r.truncated <=> Len(kept) > n)
      /\ r.kind \in {"found", "empty"}
  <2>1. Search!FromCatalog(c) = kept
    BY SearchLists DEF Search!FromCatalog, Search!Limit
  <2>2. Search!First(kept, n) = shown
    BY SearchLists
  <2> HIDE DEF kept, shown
  <2> QED
    BY <2>1, <2>2 DEF Search!Respond
<1> HIDE DEF t
<1>4. /\ kept \in Lists /\ Len(kept) = IF Len(t) < n + 1 THEN Len(t) ELSE n + 1
      /\ \A i \in 1..Len(kept) : i \in 1..Len(t) /\ kept[i] = t[i]
  BY <1>1, <1>2, FirstKnown DEF Lists
<1> HIDE DEF kept
<1>5. /\ shown \in Lists /\ Len(shown) = IF Len(kept) < n THEN Len(kept) ELSE n
      /\ \A i \in 1..Len(shown) : i \in 1..Len(kept) /\ shown[i] = kept[i]
  BY <1>1, <1>4, FirstKnown DEF Lists
<1> HIDE DEF shown, r, n
<1>6. Len(t) \in Nat
  BY <1>2 DEF Lists
<1>7. r.truncated <=> Len(t) > n
  BY <1>1, <1>3, <1>4, <1>6
<1>8. Len(shown) = IF Len(t) > n THEN n ELSE Len(t)
  BY <1>1, <1>4, <1>5, <1>6
<1>9. \A i \in 1..Len(shown) : i \in 1..Len(t) /\ shown[i] = t[i]
  BY <1>4, <1>5
<1> QED
  BY <1>3, <1>5, <1>7, <1>8, <1>9 DEF t, r, n

\* An answered catalogue is listed faithfully.
LEMMA ListsFaithfully ==
  ASSUME catalog \in Lists, reply = Search!Respond(Search!FromCatalog(catalog))
  PROVE  Search!CatalogFaithful
<1> DEFINE t == Search!Listed(Search!Ranked(catalog))
           shown == reply.candidates
           names == {shown[i].md5 : i \in DOMAIN shown}
           n == PageLimit
<1>1. /\ t \in Lists /\ KnownOnce(t) /\ DerivedLast(t)
      /\ \A k \in 1..Len(t) : \E i \in 1..Len(catalog) : t[k] = catalog[i]
      /\ \A i \in 1..Len(catalog) : catalog[i].md5 # Search!Unknown =>
           \E k \in 1..Len(t) : t[k].md5 = catalog[i].md5 /\ (Derived(t[k]) => Derived(catalog[i]))
  BY FromCatalogKnown
<1>2. /\ shown \in Lists
      /\ \A i \in 1..Len(shown) : i \in 1..Len(t) /\ shown[i] = t[i]
      /\ reply.truncated <=> Len(t) > n
      /\ Len(shown) = IF Len(t) > n THEN n ELSE Len(t)
  BY ShownKnown
<1> HIDE DEF t, shown
<1>3. /\ Len(shown) \in Nat /\ Len(t) \in Nat /\ n \in Nat
      /\ DOMAIN shown = 1..Len(shown) /\ DOMAIN catalog = 1..Len(catalog)
  <2>1. Len(shown) \in Nat /\ DOMAIN shown = 1..Len(shown)
    BY <1>2 DEF Lists
  <2>2. Len(t) \in Nat
    BY <1>1 DEF Lists
  <2>3. DOMAIN catalog = 1..Len(catalog)
    BY DEF Lists
  <2>4. n \in Nat
    BY ArchiveAssumption DEF ArchiveAssumption
  <2> QED
    BY <2>1, <2>2, <2>3, <2>4
<1>4. KnownOnce(shown) /\ DerivedLast(shown)
  <2>1. \A i \in 1..Len(shown) : i \in 1..Len(t) /\ shown[i] = t[i]
    BY <1>2
  <2>2. KnownOnce(shown)
    BY <1>1, <2>1 DEF KnownOnce
  <2>3. DerivedLast(shown)
    BY <1>1, <2>1 DEF DerivedLast
  <2> QED
    BY <2>2, <2>3
<1>5. Search!Cardinality(names) = Len(shown)
  <2>1. shown \in Lists /\ KnownOnce(shown)
    BY <1>2, <1>4
  <2> QED
    BY <2>1, FilesCounted
<1>6. \A k \in 1..Len(t) : t[k].md5 \in Search!Known
  <2> SUFFICES ASSUME NEW k \in 1..Len(t) PROVE t[k].md5 \in Search!Known
    OBVIOUS
  <2>1. PICK i \in 1..Len(catalog) : t[k] = catalog[i]
    BY <1>1
  <2>2. t[k].md5 # Search!Unknown
    BY <1>1 DEF KnownOnce
  <2> QED
    BY <1>3, <2>1, <2>2 DEF Search!Known
<1>7. names \subseteq Search!Known
  BY <1>2, <1>3, <1>6
<1>8. ASSUME ~reply.truncated
      PROVE  Search!Known \subseteq names
  <2> SUFFICES ASSUME NEW i \in 1..Len(catalog), catalog[i].md5 # Search!Unknown
               PROVE  catalog[i].md5 \in names
    BY <1>3 DEF Search!Known
  <2>1. PICK k \in 1..Len(t) : t[k].md5 = catalog[i].md5
    BY <1>1
  <2>2. k \in 1..Len(shown) /\ shown[k] = t[k]
    BY <1>2, <1>8
  <2> QED
    BY <1>3, <2>1, <2>2
<1>9. ASSUME reply.truncated
      PROVE  Len(shown) = n /\ names # Search!Known
  <2>1. Len(shown) = n /\ n + 1 \in 1..Len(t) /\ n + 1 \notin 1..Len(shown)
    BY <1>2, <1>3, <1>9
  <2>2. t[n + 1].md5 \notin names
    <3> SUFFICES ASSUME NEW i \in 1..Len(shown), shown[i].md5 = t[n + 1].md5 PROVE FALSE
      BY <1>3
    <3>1. i \in 1..Len(t) /\ t[i].md5 = t[n + 1].md5
      BY <1>2
    <3>2. i = n + 1
      BY <1>1, <2>1, <3>1 DEF KnownOnce
    <3> QED
      BY <2>1, <3>2
  <2> QED
    BY <1>6, <2>1, <2>2
<1>10. ASSUME NEW i \in 1..Len(shown), Derived(shown[i]), NEW x \in Search!Canonical
       PROVE  \E k \in 1..Len(shown) : shown[k].md5 = x /\ ~Derived(shown[k])
  <2>1. PICK j \in 1..Len(catalog) : ~Derived(catalog[j]) /\ catalog[j].md5 = x /\ x # Search!Unknown
    BY <1>3 DEF Search!Canonical, Derived
  <2>2. PICK k \in 1..Len(t) : t[k].md5 = x /\ ~Derived(t[k])
    BY <1>1, <2>1
  <2>3. i \in 1..Len(t) /\ Derived(t[i])
    BY <1>2, <1>10
  <2>4. ~(i < k) /\ i # k
    BY <1>1, <2>2, <2>3 DEF DerivedLast
  <2>5. k \in 1..Len(shown)
    BY <1>3, <2>4
  <2> QED
    BY <1>2, <2>2, <2>5
<1>11. ASSUME NEW i \in 1..Len(shown), Derived(shown[i])
       PROVE  shown[i].md5 \notin Search!Canonical /\ Search!Canonical \subseteq names
  <2>1. shown[i].md5 \notin Search!Canonical
    <3> SUFFICES ASSUME shown[i].md5 \in Search!Canonical PROVE FALSE
      OBVIOUS
    <3>1. PICK k \in 1..Len(shown) : shown[k].md5 = shown[i].md5 /\ ~Derived(shown[k])
      BY <1>10, <1>11
    <3>2. k = i
      BY <1>4, <3>1 DEF KnownOnce
    <3> QED
      BY <1>11, <3>1, <3>2
  <2>2. \A x \in Search!Canonical : x \in names
    BY <1>3, <1>10, <1>11
  <2> QED
    BY <2>1, <2>2
<1>12. \A i \in DOMAIN shown :
         shown[i].mobile => shown[i].md5 \notin Search!Canonical /\ Search!Canonical \subseteq names
  BY <1>3, <1>11 DEF Derived
<1>13. \A i, j \in DOMAIN shown : shown[i].mobile /\ i < j => shown[j].mobile
  BY <1>3, <1>4 DEF DerivedLast, Derived
<1>14. ~reply.truncated => names = Search!Known
  BY <1>7, <1>8
<1>15. reply.truncated => Len(shown) = n /\ names # Search!Known
  BY <1>9
<1> QED
  BY <1>5, <1>7, <1>12, <1>13, <1>14, <1>15 DEF Search!CatalogFaithful, shown

\* Where a search is, and what its sources have said; an answer of the catalogue is
\* what the response was made from.
SearchInv ==
  /\ searching \in {"idle", "primary", "fallback", "over"}
  /\ searching # "over" => reply = Search!NoReply /\ fallback = "none"
  /\ searching \in {"idle", "primary"} => primary = "none"
  /\ searching = "fallback" => primary \in {"empty"} \union Search!PageFailures
  /\ primary = "listed" => fallback = "none"
  /\ fallback = "answered" =>
       catalog \in Lists /\ reply = Search!Respond(Search!FromCatalog(catalog))
  /\ Search!FailureSurfaces

\* An answer of a source is a list of candidates.
LEMMA CatalogsKnown ==
  ASSUME NEW c \in Search!Catalogs
  PROVE  c \in Lists
<1>1. PICK n : c \in [1..n -> Search!CatalogCandidate] /\ n \in Nat
  BY ArchiveAssumption
  DEF ArchiveAssumption, Search!Catalogs, Search!Limit, Search!BoundedSeq, Search!SeqOf
<1> QED
  BY <1>1 DEF Lists

\* A page that lists something finds something.
LEMMA PageFinds ==
  ASSUME NEW page, page # <<>>
  PROVE  Search!Respond(page).kind = "found"
BY DEF Search!Respond

\* The request is refused or begins, or its page is awaited.
LEMMA PageKeeps ==
  ASSUME SearchInv,
         \/ Search!Refuse \/ Search!AskPage \/ Search!PageLists \/ Search!PageIsEmpty
         \/ Search!PageFails
  PROVE  SearchInv'
<1>1. CASE Search!Refuse
  BY <1>1 DEF Search!Refuse, Search!Report, Search!NoReply, SearchInv, Search!FailureSurfaces,
              Search!PageFailures
<1>2. CASE Search!AskPage
  BY <1>2 DEF Search!AskPage, SearchInv, Search!NoReply, Search!FailureSurfaces, Search!PageFailures
<1>3. CASE Search!PageLists
  <2>1. /\ searching = "primary" /\ searching' = "over" /\ primary' = "listed"
        /\ UNCHANGED <<fallback, catalog>>
    BY <1>3 DEF Search!PageLists
  <2>2. reply'.kind = "found"
    BY <1>3, PageFinds DEF Search!PageLists
  <2>3. fallback = "none"
    BY <2>1 DEF SearchInv
  <2> QED
    BY <2>1, <2>2, <2>3 DEF SearchInv, Search!FailureSurfaces, Search!PageFailures
<1>4. CASE Search!PageIsEmpty \/ Search!PageFails
  BY <1>4 DEF Search!PageIsEmpty, Search!PageFails, SearchInv, Search!NoReply,
              Search!FailureSurfaces, Search!PageFailures
<1> QED
  BY <1>1, <1>2, <1>3, <1>4

\* The catalogue is awaited, or the deadline passes.
LEMMA CatalogKeeps ==
  ASSUME SearchInv,
         \/ Search!CatalogAnswers \/ Search!CatalogFails \/ Search!CatalogRejects \/ Search!Expire
  PROVE  SearchInv'
<1>1. CASE Search!CatalogAnswers
  <2>1. PICK c \in Search!Catalogs :
          catalog' = c /\ reply' = Search!Respond(Search!FromCatalog(c))
    BY <1>1 DEF Search!CatalogAnswers
  <2>2. /\ searching' = "over" /\ fallback' = "answered" /\ primary' = primary
        /\ primary \in {"empty"} \union Search!PageFailures
    BY <1>1 DEF Search!CatalogAnswers, SearchInv
  <2>3. catalog' \in Lists
    BY <2>1, CatalogsKnown
  <2>4. reply' = Search!Respond(Search!FromCatalog(catalog'))
    BY <2>1
  <2>5. Search!FailureSurfaces'
    BY <2>2 DEF Search!FailureSurfaces
  <2> QED
    BY <2>2, <2>3, <2>4, <2>5 DEF SearchInv, Search!PageFailures
<1>2. CASE Search!CatalogFails
  <2>1. /\ searching = "fallback" /\ searching' = "over" /\ fallback' = "failed"
        /\ primary \in {"empty"} \union Search!PageFailures
        /\ reply' = IF primary \in Search!PageFailures THEN Search!Report(primary)
                    ELSE Search!Respond(<<>>)
        /\ UNCHANGED <<primary, catalog>>
    BY <1>2 DEF Search!CatalogFails, SearchInv
  <2>2. primary \in Search!PageFailures => reply'.kind = primary
    BY <2>1 DEF Search!Report, Search!NoReply
  <2> QED
    BY <2>1, <2>2 DEF SearchInv, Search!FailureSurfaces, Search!PageFailures
<1>3. CASE Search!CatalogRejects \/ Search!Expire
  <2>1. /\ searching' = "over" /\ fallback' \in {"none", "rejected"}
        /\ reply'.kind \in {"libgen", "deadline"} /\ primary' = primary
    BY <1>3 DEF Search!CatalogRejects, Search!Expire, Search!Report, Search!NoReply, SearchInv
  <2>2. primary = "listed" => fallback' = "none"
    BY <1>3 DEF Search!CatalogRejects, Search!Expire, SearchInv, Search!PageFailures
  <2> QED
    BY <2>1, <2>2 DEF SearchInv, Search!FailureSurfaces
<1> QED
  BY <1>1, <1>2, <1>3

\* A search does not notice the other requests of its provider.
LEMMA ServiceSearches == ServiceSpec => Search!Spec
<1>1. ServiceInit => Search!Init
  BY DEF ServiceInit
<1>2. [ServiceNext]_<<followed, vars, resolveVars, searchVars>> => [Search!Next]_(Search!vars)
  BY DEF ServiceNext, PageStep, ResolveStep, SearchStep, searchVars, Search!vars
<1> QED
  BY <1>1, <1>2, PTL DEF ServiceSpec, Search!Spec

\* A response is made from what the sources have said: SearchInv, of every reachable
\* state of a search.
THEOREM SearchesKeepTheirPlace == ServiceSpec => []SearchInv
<1>1. Search!Init => SearchInv
  BY DEF Search!Init, SearchInv, Search!NoReply, Search!FailureSurfaces, Search!PageFailures
<1>2. SearchInv /\ [Search!Next]_(Search!vars) => SearchInv'
  <2> SUFFICES ASSUME SearchInv, [Search!Next]_(Search!vars) PROVE SearchInv'
    OBVIOUS
  <2>1. CASE UNCHANGED Search!vars
    BY <2>1 DEF Search!vars, SearchInv, Search!FailureSurfaces
  <2> QED
    BY <2>1, PageKeeps, CatalogKeeps DEF Search!Next
<1> QED
  BY <1>1, <1>2, ServiceSearches, PTL DEF Search!Spec

(* "Nothing found" is what a source has said, and the failure of the page  *)
(* is what a search reports whose fallback fails as well: search of        *)
(* service.py and the handler's order of exceptions.                       *)
THEOREM FailuresSurface == ServiceSpec => []FailureSurfaces
<1>1. SearchInv => FailureSurfaces
  BY DEF SearchInv, FailureSurfaces
<1> QED
  BY <1>1, SearchesKeepTheirPlace, PTL

(* Every known file of the catalogue's answer is listed once, canonical    *)
(* ones first, and what the limit drops comes from the end and is flagged: *)
(* _anna_candidates_from_catalog, for any answer and any limit.            *)
THEOREM CatalogsAreListedFaithfully == ServiceSpec => []CatalogFaithful
<1>1. SearchInv => CatalogFaithful
  BY ListsFaithfully DEF SearchInv, CatalogFaithful, Search!CatalogFaithful
<1> QED
  BY <1>1, SearchesKeepTheirPlace, PTL

-----------------------------------------------------------------------------
\* A fetch does not notice what else is requested of its provider.
LEMMA ServiceFetches == ServiceSpec => Spec
<1>1. ServiceInit => Init
  BY DEF ServiceInit
<1>2. [ServiceNext]_<<followed, vars, resolveVars, searchVars>> => [Next]_vars
  BY DEF ServiceNext, PageStep, ResolveStep, SearchStep
<1> QED
  BY <1>1, <1>2, PTL DEF ServiceSpec, Spec

(* What a fetch of a page promises, it promises in the provider that also  *)
(* serves resolves and searches.                                           *)
THEOREM ServiceKeepsItsPromises ==
  ServiceSpec => []BoundedFetch /\ []PageGenuine /\ []ClientReleased
BY ServiceFetches, FetchesAreBounded, PagesAreGenuine, ClientsAreReleased, PTL
=============================================================================
