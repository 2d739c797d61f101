---------------------------- MODULE LibGenProofs ----------------------------
(***************************************************************************)
(* Proofs about the LibGen provider's resolve and health endpoints.        *)
(*                                                                         *)
(* Resolve, for any finite set of requests and origins, any budgets, and   *)
(* any gate that the configuration allows: what one request may be is said *)
(* by Fine, a predicate on its state alone, for nearly every step changes  *)
(* one state and leaves the others and the gate as they are.  The gate is  *)
(* tied to the requests by SlotsHeld.                                      *)
(*                                                                         *)
(* Health, for any set of mirrors and any bounds on the fetch and on the   *)
(* close: HonestAnswer follows from what has become of the session of a    *)
(* probe at each place of the probe (Session), and from what a task group  *)
(* that aborts has left behind (Group).  Prompt needs the ends of the      *)
(* timeouts besides (Timed): a probe that waits has not outlived its       *)
(* timeout, a request that runs has such a probe whenever time passes, and *)
(* a timeout never ends later than the request may take.                   *)
(***************************************************************************)
EXTENDS LibGen, FiniteSetTheorems, TLAPS

Origins == {Preferred} \union Known

States ==
  [pc : {"idle", "validating", "trying", "sending", "checking", "solving", "recorded",
         "charging", "closing", "over"},
   deadline : Nat, origins : Seq(Origins), attempt : Nat,
   session : {"none", "open", "closed", "interrupted"}, identity : Origins \union {Nobody},
   stage : {"none", "file", "edition", "link", "retry"}, sends : Nat, solves : Nat,
   ending : {"none", "failover", "found", "raise", "cancelled"}, unsafeAt : Nat,
   result : {"none", "deadline", "candidate", "configuration", "artifact", "error"}]

\* A request is at work on an origin from its session's start to its end.
Solving == {"solving", "recorded", "charging"}
Working == {"sending", "checking"} \union Solving

\* The number of a stage: the pages and links asked for so far at most.
Rank == [file |-> 1, edition |-> 2, link |-> 3, retry |-> 4]

Asking(s) ==
  IF s.pc \in Working
    THEN /\ s.stage \in DOMAIN Rank
         /\ s.sends <= Rank[s.stage]
         /\ s.solves <= IF s.pc \in Solving THEN Rank[s.stage] ELSE Rank[s.stage] - 1
         /\ s.pc = "checking" => s.stage \in {"link", "retry"}
         /\ s.pc \in Solving => s.stage # "retry"
    ELSE s.stage = "none" /\ s.sends = 0 /\ s.solves = 0

AtOrigin(s) ==
  /\ s.pc \in Working \union {"trying", "closing"} => s.attempt \in 1..Len(s.origins)
  /\ s.session = "open" <=> s.pc \in Working \union {"closing"}

Scoped(s) ==
  /\ s.identity # Nobody => s.session = "open" /\ s.identity = Origin(s)
  /\ s.stage = "retry" => s.identity = Origin(s)

Final(s) ==
  /\ s.pc # "over" => s.result = "none"
  /\ s.unsafeAt # 0 =>
       /\ s.attempt = s.unsafeAt
       /\ s.pc \in {"closing", "over"}
       /\ s.pc = "closing" => s.ending \in {"raise", "cancelled"}
       /\ s.pc = "over" => s.result \in {"error", "deadline"}

Fine(s) == s \in States /\ Asking(s) /\ AtOrigin(s) /\ Scoped(s) /\ Final(s)

OpsFine == op \in [Callers -> States] /\ \A r \in Callers : Fine(op[r])

SlotsHeld ==
  /\ inflight = {r \in Callers : op[r].pc \in {"solving", "recorded"}}
  /\ Cardinality(inflight) <= MaxConcurrency

ClockKnown == now \in Nat

Inv == ClockKnown /\ OpsFine /\ SlotsHeld

-----------------------------------------------------------------------------
(* The ways a request's state changes.                                     *)

\* The stages and their numbers.
LEMMA RankKnown ==
  /\ DOMAIN Rank = {"file", "edition", "link", "retry"}
  /\ Rank["file"] = 1 /\ Rank["edition"] = 2 /\ Rank["link"] = 3 /\ Rank["retry"] = 4
  BY DEF Rank

\* The fields of a state that begins to close.
LEMMA ClosingKnown ==
  ASSUME NEW s \in States, NEW ending \in {"failover", "found", "raise", "cancelled"}
  PROVE  LET t == Closing(s, ending) IN
           /\ t \in States /\ t.pc = "closing" /\ t.ending = ending
           /\ t.stage = "none" /\ t.sends = 0 /\ t.solves = 0
           /\ t.origins = s.origins /\ t.attempt = s.attempt /\ t.session = s.session
           /\ t.identity = s.identity /\ t.unsafeAt = s.unsafeAt /\ t.result = s.result
<1> DEFINE t == Closing(s, ending)
<1>1. t \in States
  BY ZenonT(60) DEF States, Closing
<1>2. t.pc = "closing" /\ t.ending = ending /\ t.stage = "none" /\ t.sends = 0 /\ t.solves = 0
  BY DEF States, Closing
<1>3. /\ t.origins = s.origins /\ t.attempt = s.attempt /\ t.session = s.session
      /\ t.identity = s.identity /\ t.unsafeAt = s.unsafeAt /\ t.result = s.result
  BY DEF States, Closing
<1> QED
  BY <1>1, <1>2, <1>3

\* The fields of a state that sends a request.
LEMMA SendingKnown ==
  ASSUME NEW s \in States, NEW stage \in {"file", "edition", "link", "retry"}
  PROVE  LET t == Sending(s, stage) IN
           /\ t \in States /\ t.pc = "sending" /\ t.stage = stage /\ t.sends = s.sends + 1
           /\ t.solves = s.solves /\ t.origins = s.origins /\ t.attempt = s.attempt
           /\ t.session = s.session /\ t.identity = s.identity /\ t.unsafeAt = s.unsafeAt
           /\ t.result = s.result
<1>1. s.sends + 1 \in Nat
  BY DEF States
<1>2. Sending(s, stage) \in States
  BY <1>1 DEF States, Sending
<1> QED
  BY <1>2 DEF States, Sending

\* The fields of a state that is replied to.
LEMMA ReplyKnown ==
  ASSUME NEW s \in States,
         NEW result \in {"deadline", "candidate", "configuration", "artifact", "error"}
  PROVE  LET t == Reply(s, result) IN
           /\ t \in States /\ t.pc = "over" /\ t.result = result
           /\ t.stage = s.stage /\ t.sends = s.sends /\ t.solves = s.solves
           /\ t.origins = s.origins /\ t.attempt = s.attempt /\ t.session = s.session
           /\ t.identity = s.identity /\ t.unsafeAt = s.unsafeAt /\ t.ending = s.ending
<1>1. Reply(s, result) \in States
  BY ZenonT(60) DEF States, Reply
<1> QED
  BY <1>1 DEF States, Reply

\* An origin is given up from any point of the work on it.
LEMMA ClosingFine ==
  ASSUME NEW s, Fine(s), s.pc \in Working,
         NEW ending \in {"failover", "found", "raise", "cancelled"}
  PROVE  Fine(Closing(s, ending)) /\ Closing(s, ending).pc = "closing"
<1> DEFINE t == Closing(s, ending)
<1>1. /\ t \in States /\ t.pc = "closing" /\ t.stage = "none" /\ t.sends = 0 /\ t.solves = 0
      /\ t.origins = s.origins /\ t.attempt = s.attempt /\ t.session = s.session
      /\ t.identity = s.identity /\ t.unsafeAt = s.unsafeAt /\ t.result = s.result
  BY ClosingKnown DEF Fine
<1> HIDE DEF t
<1>2. Fine(t)
  BY <1>1 DEF Fine, Asking, AtOrigin, Scoped, Final, Working, Solving, Origin
<1> QED
  BY <1>1, <1>2 DEF t

(* An unsafe destination closes the session, and nothing is tried after.   *)
LEMMA UnsafeFine ==
  ASSUME NEW s, Fine(s), s.pc \in Working
  PROVE  LET t == Closing([s EXCEPT !.unsafeAt = s.attempt], "raise") IN
           Fine(t) /\ t.pc = "closing"
<1> DEFINE u == [s EXCEPT !.unsafeAt = s.attempt]
           t == Closing(u, "raise")
<1>1. /\ u \in States /\ u.unsafeAt = s.attempt /\ u.origins = s.origins
      /\ u.attempt = s.attempt /\ u.session = s.session /\ u.identity = s.identity
      /\ u.result = s.result
  BY DEF Fine, States
<1> HIDE DEF u
<1>2. /\ t \in States /\ t.pc = "closing" /\ t.stage = "none" /\ t.sends = 0 /\ t.solves = 0
      /\ t.origins = s.origins /\ t.attempt = s.attempt /\ t.session = s.session
      /\ t.identity = s.identity /\ t.unsafeAt = s.attempt /\ t.result = s.result
      /\ t.ending = "raise"
  BY <1>1, ClosingKnown
<1> HIDE DEF t
<1>3. Fine(t)
  BY <1>2 DEF Fine, Asking, AtOrigin, Scoped, Final, Working, Solving, Origin
<1> QED
  BY <1>2, <1>3 DEF t, u

(* A later stage is asked for, once the one before was read or solved; a   *)
(* link again only with what was kept for its origin.                      *)
LEMMA SendingFine ==
  ASSUME NEW s, Fine(s), s.pc \in {"sending", "recorded"},
         NEW stage \in {"edition", "link", "retry"}, Rank[s.stage] < Rank[stage],
         stage = "retry" => s.identity = Origin(s)
  PROVE  Fine(Sending(s, stage)) /\ Sending(s, stage).pc = "sending"
<1> DEFINE t == Sending(s, stage)
<1>1. /\ t \in States /\ t.pc = "sending" /\ t.stage = stage /\ t.sends = s.sends + 1
      /\ t.solves = s.solves /\ t.origins = s.origins /\ t.attempt = s.attempt
      /\ t.session = s.session /\ t.identity = s.identity /\ t.unsafeAt = s.unsafeAt
      /\ t.result = s.result
  BY SendingKnown DEF Fine
<1> HIDE DEF t
<1>2. Asking(t)
  BY <1>1, RankKnown DEF Fine, States, Asking, Working, Solving
<1>3. AtOrigin(t) /\ Scoped(t) /\ Final(t)
  BY <1>1 DEF Fine, AtOrigin, Scoped, Final, Working, Solving, Origin
<1> QED
  BY <1>1, <1>2, <1>3 DEF Fine, t

\* A page was read: the next one, the link, or the end of the origin.
LEMMA AfterPageFine ==
  ASSUME NEW s, Fine(s), s.pc \in {"sending", "recorded"}, s.stage \in {"file", "edition"},
         NEW t \in AfterPage(s)
  PROVE  Fine(t) /\ t.pc \in {"sending", "closing"}
  BY RankKnown, ClosingFine, SendingFine DEF AfterPage, Working, Solving

\* A reply before any origin was tried.
LEMMA ReplyFine ==
  ASSUME NEW s, Fine(s), s.pc \in {"idle", "validating"},
         NEW result \in {"deadline", "candidate", "configuration"}
  PROVE  Fine(Reply(s, result)) /\ Reply(s, result).pc = "over"
  BY DEF Fine, States, Asking, AtOrigin, Scoped, Final, Working, Solving, Reply, Origin

(* What a solution brought is kept for the origin that is worked on.       *)
LEMMA SolvedFine ==
  ASSUME NEW s, Fine(s), s.pc = "recorded"
  PROVE  LET t == [s EXCEPT !.identity = Origin(s)] IN
           Fine(t) /\ t.pc = "recorded" /\ t.stage = s.stage /\ t.identity = Origin(t)
<1> DEFINE t == [s EXCEPT !.identity = Origin(s)]
<1>1. Origin(s) \in Origins
  BY DEF Fine, AtOrigin, States, Origin, Working, Solving
<1>2. t \in States
  BY <1>1 DEF Fine, States
<1>3. /\ t.pc = "recorded" /\ t.stage = s.stage /\ t.sends = s.sends
      /\ t.solves = s.solves /\ t.origins = s.origins /\ t.attempt = s.attempt
      /\ t.session = s.session /\ t.identity = Origin(s) /\ t.unsafeAt = s.unsafeAt
      /\ t.result = s.result
  BY DEF Fine, States
<1> HIDE DEF t
<1>4. Asking(t) /\ AtOrigin(t) /\ Final(t)
  BY <1>3 DEF Fine, Asking, AtOrigin, Final, Working, Solving
<1>5. Scoped(t) /\ t.identity = Origin(t)
  BY <1>3 DEF Fine, Scoped, AtOrigin, Origin, Working, Solving
<1> QED
  BY <1>2, <1>3, <1>4, <1>5 DEF Fine, t

(* The next origin is tried only after a failover; else there is a reply.  *)
LEMMA AfterOriginFine ==
  ASSUME NEW s, Fine(s), s.pc = "closing"
  PROVE  LET t == AfterOrigin([s EXCEPT !.session = "closed", !.identity = Nobody]) IN
           Fine(t) /\ t.pc \in {"trying", "over"}
<1> DEFINE c == [s EXCEPT !.session = "closed", !.identity = Nobody]
           t == AfterOrigin(c)
<1>1. c \in States
  BY DEF Fine, States
<1>2. /\ c.stage = s.stage /\ c.sends = s.sends /\ c.solves = s.solves
      /\ c.origins = s.origins /\ c.attempt = s.attempt /\ c.session = "closed"
      /\ c.identity = Nobody /\ c.unsafeAt = s.unsafeAt /\ c.result = s.result
      /\ c.ending = s.ending
  BY DEF Fine, States
<1> HIDE DEF c
<1>3. CASE c.ending = "failover" /\ c.attempt < Len(c.origins)
  <2>1. t = [c EXCEPT !.pc = "trying", !.attempt = c.attempt + 1]
    BY <1>3 DEF AfterOrigin
  <2>2. c.attempt + 1 \in Nat
    BY <1>1 DEF States
  <2>3. /\ t \in States /\ t.pc = "trying" /\ t.attempt = c.attempt + 1 /\ t.stage = c.stage
        /\ t.sends = c.sends /\ t.solves = c.solves /\ t.origins = c.origins
        /\ t.session = c.session /\ t.identity = c.identity /\ t.unsafeAt = c.unsafeAt
        /\ t.result = c.result
    BY <1>1, <2>1, <2>2 DEF States
  <2> HIDE DEF t
  <2>4. Asking(t) /\ Scoped(t) /\ Final(t)
    BY <1>2, <1>3, <2>3 DEF Fine, Asking, Scoped, Final, Working, Solving
  <2>5. AtOrigin(t)
    BY <1>2, <1>3, <2>3 DEF Fine, States, AtOrigin, Working, Solving
  <2> QED
    BY <2>3, <2>4, <2>5 DEF Fine, t, c
<1>4. CASE ~(c.ending = "failover" /\ c.attempt < Len(c.origins))
  <2>1. PICK result \in {"artifact", "deadline", "error"} :
          t = Reply(c, result) /\ (result = "artifact" => c.ending = "found")
    BY <1>4 DEF AfterOrigin
  <2>2. /\ t \in States /\ t.pc = "over" /\ t.result = result
        /\ t.stage = c.stage /\ t.sends = c.sends /\ t.solves = c.solves
        /\ t.attempt = c.attempt /\ t.session = c.session
        /\ t.identity = c.identity /\ t.unsafeAt = c.unsafeAt
    BY <1>1, <2>1, ReplyKnown
  <2> HIDE DEF t
  <2>3. Fine(t)
    BY <1>2, <2>1, <2>2 DEF Fine, Asking, AtOrigin, Scoped, Final, Working, Solving
  <2> QED
    BY <2>2, <2>3 DEF t, c
<1> QED
  BY <1>3, <1>4

\* The deadline strikes while the session is closed.
LEMMA InterruptFine ==
  ASSUME NEW s, Fine(s), s.pc = "closing"
  PROVE  Fine(Interrupt(s)) /\ Interrupt(s).pc = "over"
  BY DEF Fine, States, Asking, AtOrigin, Scoped, Final, Working, Solving, Interrupt, Reply, Origin

(* Of the states between: what was validated, chosen, opened, redirected,  *)
(* handed to the resolver.                                                 *)
LEMMA ValidatingFine ==
  ASSUME NEW s, Fine(s), s.pc = "idle", NEW deadline \in Nat
  PROVE  LET t == [s EXCEPT !.pc = "validating", !.deadline = deadline] IN
           Fine(t) /\ t.pc = "validating"
  BY DEF Fine, States, Asking, AtOrigin, Scoped, Final, Working, Solving, Origin

\* The first of the chosen origins is tried.
LEMMA TryingFine ==
  ASSUME NEW s, Fine(s), s.pc = "validating", NEW origins \in Seq(Origins), Len(origins) >= 1
  PROVE  LET t == [s EXCEPT !.pc = "trying", !.origins = origins, !.attempt = 1] IN
           Fine(t) /\ t.pc = "trying"
<1> DEFINE t == [s EXCEPT !.pc = "trying", !.origins = origins, !.attempt = 1]
<1>1. t \in States
  BY DEF Fine, States
<1>2. /\ t.pc = "trying" /\ t.stage = s.stage /\ t.sends = s.sends /\ t.solves = s.solves
      /\ t.origins = origins /\ t.attempt = 1 /\ t.session = s.session
      /\ t.identity = s.identity /\ t.unsafeAt = s.unsafeAt /\ t.result = s.result
  BY DEF Fine, States
<1> HIDE DEF t
<1>3. Asking(t) /\ Scoped(t) /\ Final(t)
  BY <1>2 DEF Fine, Asking, AtOrigin, Scoped, Final, Working, Solving
<1>4. AtOrigin(t)
  BY <1>2 DEF Fine, AtOrigin, Working, Solving
<1> QED
  BY <1>1, <1>2, <1>3, <1>4 DEF Fine, t

\* A session is opened, and the file's page asked for.
LEMMA OpenedFine ==
  ASSUME NEW s, Fine(s), s.pc = "trying"
  PROVE  LET t == Sending([s EXCEPT !.session = "open"], "file") IN
           Fine(t) /\ t.pc = "sending"
<1> DEFINE o == [s EXCEPT !.session = "open"]
           t == Sending(o, "file")
<1>1. o \in States
  BY DEF Fine, States
<1>2. /\ o.sends = 0 /\ o.solves = 0 /\ o.origins = s.origins /\ o.attempt = s.attempt
      /\ o.session = "open" /\ o.identity = Nobody /\ o.unsafeAt = 0 /\ o.result = "none"
  BY DEF Fine, States, Asking, AtOrigin, Scoped, Final, Working, Solving
<1> HIDE DEF o
<1>3. /\ t \in States /\ t.pc = "sending" /\ t.stage = "file" /\ t.sends = 1
      /\ t.solves = 0 /\ t.origins = s.origins /\ t.attempt = s.attempt
      /\ t.session = "open" /\ t.identity = Nobody /\ t.unsafeAt = 0
      /\ t.result = "none"
  BY <1>1, <1>2, SendingKnown
<1> HIDE DEF t
<1>4. Asking(t)
  BY <1>3, RankKnown DEF Asking, Working, Solving
<1>5. AtOrigin(t) /\ Scoped(t) /\ Final(t)
  BY <1>3 DEF Fine, AtOrigin, Scoped, Final, Working, Solving
<1> QED
  BY <1>3, <1>4, <1>5 DEF Fine, t, o

\* The destination of the redirect is looked up.
LEMMA CheckingFine ==
  ASSUME NEW s, Fine(s), s.pc = "sending", s.stage \in {"link", "retry"}
  PROVE  LET t == [s EXCEPT !.pc = "checking"] IN Fine(t) /\ t.pc = "checking"
<1> DEFINE t == [s EXCEPT !.pc = "checking"]
<1>1. t \in States
  BY DEF Fine, States
<1>2. /\ t.pc = "checking" /\ t.stage = s.stage /\ t.sends = s.sends /\ t.solves = s.solves
      /\ t.origins = s.origins /\ t.attempt = s.attempt /\ t.session = s.session
      /\ t.identity = s.identity /\ t.unsafeAt = s.unsafeAt /\ t.result = s.result
  BY DEF Fine, States
<1> HIDE DEF t
<1>3. Fine(t)
  BY <1>1, <1>2 DEF Fine, Asking, AtOrigin, Scoped, Final, Working, Solving, Origin
<1> QED
  BY <1>2, <1>3 DEF t

\* The challenge is handed to the resolver.
LEMMA SolvingFine ==
  ASSUME NEW s, Fine(s), s.pc = "sending", s.stage # "retry"
  PROVE  LET t == [s EXCEPT !.pc = "solving", !.solves = @ + 1] IN
           Fine(t) /\ t.pc = "solving"
<1> DEFINE n == s.solves + 1
           t == [s EXCEPT !.pc = "solving", !.solves = n]
<1>1. n \in Nat
  BY DEF Fine, States
<1> HIDE DEF n
<1>2. t \in States
  BY <1>1 DEF Fine, States
<1>3. /\ t.pc = "solving" /\ t.stage = s.stage /\ t.sends = s.sends /\ t.solves = n
      /\ t.origins = s.origins /\ t.attempt = s.attempt /\ t.session = s.session
      /\ t.identity = s.identity /\ t.unsafeAt = s.unsafeAt /\ t.result = s.result
  BY DEF Fine, States
<1> HIDE DEF t
<1>4. Asking(t)
  BY <1>1, <1>3, RankKnown DEF Fine, States, Asking, Working, Solving, n
<1>5. AtOrigin(t) /\ Scoped(t) /\ Final(t)
  BY <1>3 DEF Fine, AtOrigin, Scoped, Final, Working, Solving, Origin
<1> QED
  BY <1>2, <1>3, <1>4, <1>5 DEF Fine, t, n

\* The resolver answered, or failed.
LEMMA SolverStepFine ==
  ASSUME NEW s, Fine(s), s.pc = "solving", NEW to \in {"recorded", "charging"}
  PROVE  LET t == [s EXCEPT !.pc = to] IN Fine(t) /\ t.pc = to
<1> DEFINE t == [s EXCEPT !.pc = to]
<1>1. t \in States
  BY DEF Fine, States
<1>2. /\ t.pc = to /\ t.stage = s.stage /\ t.sends = s.sends /\ t.solves = s.solves
      /\ t.origins = s.origins /\ t.attempt = s.attempt /\ t.session = s.session
      /\ t.identity = s.identity /\ t.unsafeAt = s.unsafeAt /\ t.result = s.result
  BY DEF Fine, States
<1> HIDE DEF t
<1>3. Fine(t)
  BY <1>1, <1>2 DEF Fine, Asking, AtOrigin, Scoped, Final, Working, Solving, Origin
<1> QED
  BY <1>2, <1>3 DEF t

-----------------------------------------------------------------------------
(* One request moves, and the gate with it or not.                         *)

Slot == {"solving", "recorded"}

\* The gate holds finitely many callers.
LEMMA GateFinite ==
  ASSUME SlotsHeld
  PROVE  inflight \subseteq Callers /\ IsFiniteSet(inflight) /\ Cardinality(inflight) \in Nat
<1>1. inflight \subseteq Callers
  BY DEF SlotsHeld
<1> QED
  BY <1>1, ResolveAssumption, FS_Subset, FS_CardinalityType DEF ResolveAssumption

\* One request moves, and the gate with it.
LEMMA RequestMoves ==
  ASSUME Inv, now' \in Nat, NEW r \in Callers, NEW t, Fine(t), op' = [op EXCEPT ![r] = t],
         inflight' = IF t.pc \in Slot THEN inflight \union {r} ELSE inflight \ {r},
         Cardinality(inflight') <= MaxConcurrency
  PROVE  Inv'
<1>1. op' \in [Callers -> States] /\ \A q \in Callers : op'[q] = IF q = r THEN t ELSE op[q]
  BY DEF Inv, OpsFine, Fine
<1>2. OpsFine'
  BY <1>1 DEF Inv, OpsFine
<1>3. inflight' = {q \in Callers : op'[q].pc \in {"solving", "recorded"}}
  BY <1>1 DEF Inv, SlotsHeld, Slot
<1> QED
  BY <1>2, <1>3 DEF Inv, ClockKnown, SlotsHeld

\* A step of a request that leaves the gate alone.
LEMMA OwnKeeps ==
  ASSUME Inv, NEW r \in Callers, NEW from, NEW successors, Own(r, from, successors),
         from \notin Slot,
         \A t \in successors : Fine(t) /\ t.pc \notin Slot
  PROVE  Inv'
<1>1. PICK t \in successors : op' = [op EXCEPT ![r] = t]
  BY DEF Own
<1>2. op[r].pc = from /\ UNCHANGED gateVars
  BY DEF Own
<1>3. r \notin inflight
  BY <1>2 DEF Inv, SlotsHeld, Slot
<1>4. inflight' = inflight \ {r} /\ now' = now
  BY <1>2, <1>3 DEF gateVars
<1>5. Cardinality(inflight') <= MaxConcurrency
  BY <1>2 DEF gateVars, Inv, SlotsHeld
<1> QED
  BY <1>1, <1>4, <1>5, RequestMoves DEF Inv, ClockKnown

\* A step of a request that leaves the gate.
LEMMA LeaveKeeps ==
  ASSUME Inv, NEW r \in Callers, NEW from, NEW t, Through(r, from, t), Leave(r),
         Fine(t), t.pc \notin Slot
  PROVE  Inv'
<1>1. inflight' = inflight \ {r} /\ now' = now
  BY DEF Leave
<1>2. Cardinality(inflight') <= MaxConcurrency
  <2>1. inflight' \subseteq inflight
    BY <1>1
  <2>2. Cardinality(inflight') \in Nat /\ Cardinality(inflight') <= Cardinality(inflight)
    BY <2>1, GateFinite, FS_Subset, FS_CardinalityType DEF Inv
  <2> QED
    BY <2>2, GateFinite, ResolveAssumption DEF Inv, SlotsHeld, ResolveAssumption
<1> QED
  BY <1>1, <1>2, RequestMoves DEF Inv, ClockKnown, Through

(* A verdict for the breaker moves no slot.                                *)
LEMMA VerdictKeeps ==
  ASSUME Inv, NEW r \in Callers, NEW from, NEW t, Through(r, from, t),
         Success(r) \/ Failure(r), Fine(t), from \in Slot <=> t.pc \in Slot
  PROVE  Inv'
<1>1. inflight' = inflight /\ now' = now
  BY DEF Success, Failure
<1>2. inflight' = IF t.pc \in Slot THEN inflight \union {r} ELSE inflight \ {r}
  BY <1>1 DEF Inv, SlotsHeld, Slot, Through
<1> QED
  BY <1>1, <1>2, RequestMoves DEF Inv, ClockKnown, Through, SlotsHeld

\* A step of a request that enters the gate.
LEMMA EnterKeeps ==
  ASSUME Inv, NEW r \in Callers, NEW from, NEW t, Through(r, from, t), Enter(r),
         Fine(t), t.pc \in Slot
  PROVE  Inv'
<1>1. inflight' = inflight \union {r} /\ now' = now
  BY DEF Enter
<1>2. Cardinality(inflight') <= MaxConcurrency
  <2>1. Cardinality(inflight \union {r}) = Cardinality(inflight) + 1
    BY GateFinite, FS_AddElement DEF Inv, Enter
  <2> QED
    BY <1>1, <2>1, GateFinite, ResolveAssumption DEF Inv, Enter, ResolveAssumption
<1> QED
  BY <1>1, <1>2, RequestMoves DEF Inv, ClockKnown, Through

-----------------------------------------------------------------------------
(* The steps of a request.                                                 *)

\* The steps up to the session.
LEMMA HandlerKeeps ==
  ASSUME Inv, NEW r \in Callers,
         \/ \E budget \in Budgets : Begin(r, budget)
         \/ RejectOrigin(r) \/ ChooseOrigins(r) \/ OpenSession(r)
  PROVE  Inv'
<1>1. Fine(op[r])
  BY DEF Inv, OpsFine
<1>2. ASSUME NEW budget \in Budgets, Begin(r, budget) PROVE Inv'
  <2>1. op[r].pc = "idle"
    BY <1>2 DEF Begin, Own
  <2>2. now + budget \in Nat
    BY ResolveAssumption DEF ResolveAssumption, Inv, ClockKnown
  <2> DEFINE refused == Reply(op[r], "deadline")
             malformed == Reply(op[r], "candidate")
             begun == [op[r] EXCEPT !.pc = "validating", !.deadline = now + budget]
  <2>3. Own(r, "idle", IF budget = 0 THEN {refused} ELSE {malformed, begun})
    BY <1>2 DEF Begin
  <2>4. /\ Fine(refused) /\ refused.pc = "over"
        /\ Fine(malformed) /\ malformed.pc = "over"
        /\ Fine(begun) /\ begun.pc = "validating"
    BY <1>1, <2>1, <2>2, ReplyFine, ValidatingFine
  <2> HIDE DEF refused, malformed, begun
  <2>5. \A t \in IF budget = 0 THEN {refused} ELSE {malformed, begun} : Fine(t) /\ t.pc \notin Slot
    BY <2>4 DEF Slot
  <2> QED
    BY <2>3, <2>5, OwnKeeps DEF Slot
<1>3. CASE RejectOrigin(r)
  <2>1. op[r].pc = "validating"
    BY <1>3 DEF RejectOrigin, Own
  <2> QED
    BY <1>1, <1>3, <2>1, ReplyFine, OwnKeeps DEF RejectOrigin, Slot
<1>4. CASE ChooseOrigins(r)
  <2>1. op[r].pc = "validating"
    BY <1>4 DEF ChooseOrigins, Own
  <2>2. \A origins \in {<<Preferred>>} \union {<<Preferred, other>> : other \in Known \ {Preferred}} :
          origins \in Seq(Origins) /\ Len(origins) >= 1
    BY DEF Origins
  <2> DEFINE Chosen(origins) == [op[r] EXCEPT !.pc = "trying", !.origins = origins, !.attempt = 1]
             choices == {<<Preferred>>} \union {<<Preferred, other>> : other \in Known \ {Preferred}}
  <2>3. Own(r, "validating", {Chosen(origins) : origins \in choices})
    BY <1>4 DEF ChooseOrigins
  <2>4. \A origins \in choices : Fine(Chosen(origins)) /\ Chosen(origins).pc = "trying"
    BY <1>1, <2>1, <2>2, TryingFine
  <2> HIDE DEF Chosen, choices
  <2>5. \A t \in {Chosen(origins) : origins \in choices} : Fine(t) /\ t.pc \notin Slot
    BY <2>4 DEF Slot
  <2> QED
    BY <2>3, <2>5, OwnKeeps DEF Slot
<1>5. CASE OpenSession(r)
  <2>1. op[r].pc = "trying"
    BY <1>5 DEF OpenSession, Own
  <2> QED
    BY <1>1, <1>5, <2>1, OpenedFine, OwnKeeps DEF OpenSession, Slot
<1> QED
  BY <1>2, <1>3, <1>4, <1>5

\* The steps of the exchange with the source.
LEMMA ExchangeKeeps ==
  ASSUME Inv, NEW r \in Callers,
         \/ PageRead(r) \/ SourceFails(r) \/ Redirected(r) \/ ChallengeUnsolved(r)
         \/ DestinationPublic(r) \/ DestinationUnknown(r) \/ DestinationUnsafe(r)
  PROVE  Inv'
<1>1. Fine(op[r])
  BY DEF Inv, OpsFine
<1>2. op[r].pc \in {"sending", "checking"} /\ op[r].pc \in Working
  BY DEF PageRead, SourceFails, Redirected, ChallengeUnsolved, DestinationPublic,
         DestinationUnknown, DestinationUnsafe, Own, Working
<1>3. CASE PageRead(r)
  <2>1. op[r].pc = "sending" /\ op[r].stage \in {"file", "edition"}
    BY <1>3 DEF PageRead, Own
  <2> QED
    BY <1>1, <1>3, <2>1, AfterPageFine, OwnKeeps DEF PageRead, Slot
<1>4. CASE SourceFails(r) \/ ChallengeUnsolved(r) \/ DestinationUnknown(r)
  BY <1>1, <1>2, <1>4, ClosingFine, OwnKeeps
     DEF SourceFails, ChallengeUnsolved, DestinationUnknown, Slot
<1>5. CASE Redirected(r)
  <2>1. op[r].pc = "sending"
    BY <1>5 DEF Redirected, Own
  <2> DEFINE t == [op[r] EXCEPT !.pc = "checking"]
  <2>2. Own(r, "sending", {t}) /\ op[r].stage \in {"link", "retry"}
    BY <1>5 DEF Redirected
  <2>3. Fine(t) /\ t.pc = "checking"
    BY <1>1, <2>1, <2>2, CheckingFine
  <2> HIDE DEF t
  <2> QED
    BY <2>2, <2>3, OwnKeeps DEF Slot
<1>6. CASE DestinationPublic(r)
  BY <1>1, <1>2, <1>6, ClosingFine, OwnKeeps DEF DestinationPublic, Slot
<1>7. CASE DestinationUnsafe(r)
  BY <1>1, <1>2, <1>7, UnsafeFine, OwnKeeps DEF DestinationUnsafe, Slot
<1> QED
  BY <1>3, <1>4, <1>5, <1>6, <1>7

\* The steps through the gate, to the resolver and back.
LEMMA ChallengeKeeps ==
  ASSUME Inv, NEW r \in Callers,
         \/ ChallengeTaken(r) \/ SolverAnswers(r) \/ SolutionUsed(r) \/ SolutionUnusable(r)
         \/ SolverFails(r) \/ ChargeFailure(r) \/ SolutionRejected(r)
  PROVE  Inv'
<1>1. Fine(op[r])
  BY DEF Inv, OpsFine
<1>2. CASE ChallengeTaken(r)
  <2>1. op[r].pc = "sending" /\ op[r].stage # "retry"
    BY <1>2 DEF ChallengeTaken, Challenged, Through
  <2> QED
    BY <1>1, <1>2, <2>1, SolvingFine, EnterKeeps DEF ChallengeTaken, Slot
<1>3. CASE SolverAnswers(r)
  <2>1. op[r].pc = "solving"
    BY <1>3 DEF SolverAnswers, Through
  <2> QED
    BY <1>1, <1>3, <2>1, SolverStepFine, VerdictKeeps DEF SolverAnswers, Slot
<1>4. CASE SolutionUsed(r)
  <2> DEFINE solved == [op[r] EXCEPT !.identity = Origin(op[r])]
  <2>1. op[r].pc = "recorded"
    BY <1>4 DEF SolutionUsed
  <2>2. /\ Fine(solved) /\ solved.pc = "recorded" /\ solved.stage = op[r].stage
        /\ solved.identity = Origin(solved)
    BY <1>1, <2>1, SolvedFine
  <2>3. PICK t \in IF solved.stage = "link" THEN {Sending(solved, "retry")} ELSE AfterPage(solved) :
          Through(r, "recorded", t)
    BY <1>4 DEF SolutionUsed
  <2>4. op[r].stage \in {"file", "edition", "link"}
    BY <1>1, <2>1, RankKnown DEF Fine, Asking, Working, Solving
  <2> HIDE DEF solved
  <2>5. Fine(t) /\ t.pc \in {"sending", "closing"}
    BY <2>2, <2>3, <2>4, RankKnown, SendingFine, AfterPageFine
  <2> QED
    BY <1>4, <2>3, <2>5, LeaveKeeps DEF SolutionUsed, Slot
<1>5. CASE SolutionUnusable(r) \/ SolutionRejected(r)
  <2>1. op[r].pc \in Working
    BY <1>5 DEF SolutionUnusable, SolutionRejected, Through, Working, Solving
  <2> QED
    BY <1>1, <1>5, <2>1, ClosingFine, LeaveKeeps DEF SolutionUnusable, SolutionRejected, Slot
<1>6. CASE SolverFails(r)
  <2>1. op[r].pc = "solving"
    BY <1>6 DEF SolverFails, Through
  <2> QED
    BY <1>1, <1>6, <2>1, SolverStepFine, LeaveKeeps DEF SolverFails, Slot
<1>7. CASE ChargeFailure(r)
  <2>1. op[r].pc \in Working
    BY <1>7 DEF ChargeFailure, Through, Working, Solving
  <2> QED
    BY <1>1, <1>7, <2>1, ClosingFine, VerdictKeeps DEF ChargeFailure, Slot
<1> QED
  BY <1>2, <1>3, <1>4, <1>5, <1>6, <1>7

\* The session's end and the deadline.
LEMMA EndKeeps ==
  ASSUME Inv, NEW r \in Callers, SessionCloses(r) \/ Expire(r)
  PROVE  Inv'
<1>1. Fine(op[r])
  BY DEF Inv, OpsFine
<1>2. CASE SessionCloses(r)
  <2>1. op[r].pc = "closing"
    BY <1>2 DEF SessionCloses, Own
  <2> DEFINE t == AfterOrigin([op[r] EXCEPT !.session = "closed", !.identity = Nobody])
  <2>2. Own(r, "closing", {t})
    BY <1>2 DEF SessionCloses
  <2>3. Fine(t) /\ t.pc \in {"trying", "over"}
    BY <1>1, <2>1, AfterOriginFine
  <2> HIDE DEF t
  <2> QED
    BY <2>2, <2>3, OwnKeeps DEF Slot
<1>3. CASE Own(r, "validating", {Reply(op[r], "deadline")})
  <2>1. op[r].pc = "validating"
    BY <1>3 DEF Own
  <2> QED
    BY <1>1, <1>3, <2>1, ReplyFine, OwnKeeps DEF Slot
<1>4. ASSUME NEW from \in {"sending", "checking"}, Own(r, from, {Closing(op[r], "cancelled")})
      PROVE  Inv'
  <2>1. op[r].pc \in Working
    BY <1>4 DEF Own, Working
  <2> QED
    BY <1>1, <1>4, <2>1, ClosingFine, OwnKeeps DEF Slot
<1>5. CASE Own(r, "closing", {Interrupt(op[r])})
  <2>1. op[r].pc = "closing"
    BY <1>5 DEF Own
  <2> QED
    BY <1>1, <1>5, <2>1, InterruptFine, OwnKeeps DEF Slot
<1>6. CASE ExpireSolving(r)
  <2>1. op[r].pc \in Working
    BY <1>6 DEF ExpireSolving, Through, Working, Solving
  <2>2. Fine(Closing(op[r], "cancelled")) /\ Closing(op[r], "cancelled").pc = "closing"
    BY <1>1, <2>1, ClosingFine
  <2> QED
    BY <1>6, <2>2, LeaveKeeps, VerdictKeeps DEF ExpireSolving, Slot
<1> QED
  BY <1>2, <1>3, <1>4, <1>5, <1>6 DEF Expire

\* Time passes.
LEMMA TickKeeps ==
  ASSUME Inv, Tick \/ UNCHANGED vars
  PROVE  Inv'
<1>1. UNCHANGED <<inflight, op>> /\ now' \in {now, now + 1}
  BY DEF Tick, Pass, vars, gateVars
<1> QED
  BY <1>1 DEF Inv, ClockKnown, OpsFine, SlotsHeld

\* No request has begun.
LEMMA InvInitially == Init => Inv
<1> SUFFICES ASSUME Init PROVE Inv
  OBVIOUS
<1>1. Fine(Idle)
  BY DEF Fine, States, Idle, Asking, AtOrigin, Scoped, Final, Working, Solving
<1>2. Idle.pc = "idle"
  BY DEF Idle
<1>3. OpsFine
  BY <1>1 DEF Init, OpsFine, Fine
<1>4. ClockKnown
  BY DEF Init, GateInit, ClockKnown
<1>5. SlotsHeld
  <2>1. inflight = {} /\ \A r \in Callers : op[r].pc = "idle"
    BY <1>2 DEF Init, GateInit
  <2>2. Cardinality(inflight) = 0
    BY <2>1, FS_EmptySet
  <2> QED
    BY <2>1, <2>2, ResolveAssumption DEF SlotsHeld, ResolveAssumption
<1> QED
  BY <1>3, <1>4, <1>5 DEF Inv

\* Every step keeps the invariant.
LEMMA InvKept == Inv /\ [Next]_vars => Inv'
  BY HandlerKeeps, ExchangeKeeps, ChallengeKeeps, EndKeeps, TickKeeps DEF Next, Step

\* The invariant of the requests and the gate.
LEMMA InvHolds == Spec => []Inv
  BY InvInitially, InvKept, PTL DEF Spec

-----------------------------------------------------------------------------
(* A request holds a slot of the resolver exactly while it solves, and no  *)
(* source can make it ask or solve more often than four and three times    *)
(* per origin: _resolve_page, resolve_redirect.                            *)
THEOREM ChallengesCostLittle == Spec => []ChallengeCost
<1>1. Inv => ChallengeCost
  <2> SUFFICES ASSUME Inv PROVE ChallengeCost
    OBVIOUS
  <2>1. ASSUME NEW r \in Callers
        PROVE  op[r].sends <= 4 /\ op[r].solves <= 3
    <3>1. op[r] \in States /\ Asking(op[r])
      BY DEF Inv, OpsFine, Fine
    <3> QED
      BY <3>1, RankKnown DEF States, Asking, Working, Solving
  <2> QED
    BY <2>1 DEF ChallengeCost, Inv, SlotsHeld
<1> QED
  BY <1>1, InvHolds, PTL

(* Cookies and user agent of a solution never leave the session and the    *)
(* origin they were asked for: _remember_solution and aclose().            *)
THEOREM SolutionsStayScoped == Spec => []SolutionScoped
<1>1. Inv => SolutionScoped
  BY DEF Inv, OpsFine, Fine, Scoped, SolutionScoped
<1> QED
  BY <1>1, InvHolds, PTL

(* No origin is asked after an unsafe destination: resolve() raises it.    *)
THEOREM UnsafeEndsTheOperation == Spec => []UnsafeIsFinal
<1>1. Inv => UnsafeIsFinal
  BY DEF Inv, OpsFine, Fine, Final, UnsafeIsFinal
<1> QED
  BY <1>1, InvHolds, PTL

(* However the requests interleave and are cancelled, the resolver never   *)
(* has more of them to solve for than the configuration says.              *)
THEOREM SlotsStayBounded ==
  Spec => [](Cardinality({r \in Callers : op[r].pc \in {"solving", "recorded"}}) <= MaxConcurrency)
<1>1. Inv => Cardinality({r \in Callers : op[r].pc \in {"solving", "recorded"}}) <= MaxConcurrency
  BY DEF Inv, SlotsHeld
<1> QED
  BY <1>1, InvHolds, PTL

(* Seen from the resolver, the requests are callers of the gate that       *)
(* ResolverRuntime implements, and do nothing else to it.                  *)
THEOREM RequestsUseTheGate == Spec => GateSpec
<1>1. Init => GateInit
  BY DEF Init
<1>2. [Next]_vars => [GateNext]_gateVars
  BY DEF Next, Step, Tick, GateNext, vars, gateVars, Own, Begin, RejectOrigin, ChooseOrigins,
         OpenSession, PageRead, SourceFails, Redirected, DestinationPublic, DestinationUnknown,
         DestinationUnsafe, ChallengeUnsolved, ChallengeTaken, SolverAnswers, SolutionUsed,
         SolutionUnusable, SolverFails, ChargeFailure, SolutionRejected, SessionCloses, Expire,
         ExpireSolving
<1> QED
  BY <1>1, <1>2, PTL DEF Spec, GateSpec

-----------------------------------------------------------------------------
(* The health check.                                                       *)

HealthTyped ==
  /\ clock \in Nat
  /\ request \in {"running", "returned", "failed", "cancelled"}
  /\ cancelledAt \in Nat \union {Health!None}
  /\ aborting \in BOOLEAN
  /\ pc \in [Known -> {"created", "fetching", "closing"} \union Health!Over]
  /\ status \in [Known -> Health!Verdicts \union {"none"}]
  /\ timer \in [Known -> Int]
  /\ cancelling \in [Known -> BOOLEAN]
  /\ close \in [Known -> {"absent", "running", "closed", "broken", "detached", "released"}]

\* A session is opened with the fetch and awaited with the close; a probe that
\* ends with a status has one that tells what became of its session.
Session(o) ==
  /\ pc[o] \in {"created", "fetching"} => close[o] = "absent" /\ ~cancelling[o]
  /\ pc[o] = "closing" =>
       /\ close[o] \in {"running", "closed", "broken"}
       /\ cancelling[o] \/ status[o] \in Health!Verdicts
  /\ pc[o] \in Health!Over => close[o] # "running"
  /\ pc[o] = "done" =>
       /\ status[o] \in Health!Verdicts
       /\ close[o] \in {"detached", "released"} => status[o] = "unavailable"

Sessions == \A o \in Known : Session(o)

\* A task group that aborts has a reason, leaves no child before its close, and
\* alone makes children end as cancelled.
Group ==
  /\ cancelledAt # Health!None => aborting
  /\ aborting => cancelledAt # Health!None \/ Health!SomeFailed
  /\ aborting => \A o \in Known : pc[o] \notin {"created", "fetching"}
  /\ ~aborting => \A o \in Known : pc[o] # "cancelled" /\ ~cancelling[o]
  /\ request # "running" => Health!AllOver
  /\ request = "returned" => cancelledAt = Health!None /\ ~Health!SomeFailed

\* What a probe waits for ends in time, counted from the start of the request
\* and from its cancellation.
Timed(o) ==
  /\ pc[o] = "created" => clock = 0
  /\ pc[o] = "fetching" => timer[o] = ProbeTimeout /\ clock <= timer[o]
  /\ pc[o] = "closing" =>
       /\ clock <= timer[o]
       /\ timer[o] <= clock + CloseTimeout
       /\ timer[o] <= ProbeTimeout + CloseTimeout
       /\ cancelledAt # Health!None => timer[o] <= cancelledAt + CloseTimeout

Timers == \A o \in Known : Timed(o)

HealthInv == HealthTyped /\ Sessions /\ Group /\ Timers /\ Health!Prompt

-----------------------------------------------------------------------------
(* The steps of one probe.                                                 *)

\* What a step at one probe owes, when it leaves the others and the group alone.
LEMMA OneProbe ==
  ASSUME HealthInv, HealthTyped', UNCHANGED <<clock, Health!group>>, NEW o \in Known,
         \A p \in Known \ {o} :
           /\ pc'[p] = pc[p] /\ status'[p] = status[p] /\ timer'[p] = timer[p]
           /\ cancelling'[p] = cancelling[p] /\ close'[p] = close[p],
         Session(o)', Timed(o)',
         aborting => pc'[o] \notin {"created", "fetching"},
         ~aborting => pc'[o] # "cancelled" /\ ~cancelling'[o],
         pc'[o] = pc[o] \/ pc[o] \notin Health!Over
  PROVE  HealthInv'
<1>1. Sessions'
  <2> SUFFICES ASSUME NEW p \in Known PROVE Session(p)'
    BY DEF Sessions
  <2>1. CASE p = o
    BY <2>1
  <2>2. CASE p # o
    <3>1. Session(p)
      BY DEF HealthInv, Sessions
    <3> QED
      BY <2>2, <3>1 DEF Session
  <2> QED
    BY <2>1, <2>2
<1>2. Timers'
  <2> SUFFICES ASSUME NEW p \in Known PROVE Timed(p)'
    BY DEF Timers
  <2>1. CASE p = o
    BY <2>1
  <2>2. CASE p # o
    <3>1. Timed(p)
      BY DEF HealthInv, Timers
    <3> QED
      BY <2>2, <3>1 DEF Timed, Health!group
  <2> QED
    BY <2>1, <2>2
<1>3. Group'
  <2>1. \A p \in Known : pc[p] \in Health!Over => pc'[p] = pc[p]
    OBVIOUS
  <2>2. request # "running" => \A p \in Known : pc'[p] = pc[p]
    BY <2>1 DEF HealthInv, Group, Health!AllOver
  <2>3. Health!SomeFailed => Health!SomeFailed'
    BY <2>1 DEF Health!SomeFailed, Health!Over
  <2>4. request # "running" => Health!AllOver' /\ (Health!SomeFailed' => Health!SomeFailed)
    BY <2>2 DEF HealthInv, Group, Health!AllOver, Health!SomeFailed
  <2>5. aborting => \A p \in Known : pc'[p] \notin {"created", "fetching"}
    BY DEF HealthInv, Group
  <2>6. ~aborting => \A p \in Known : pc'[p] # "cancelled" /\ ~cancelling'[p]
    BY DEF HealthInv, Group
  <2> QED
    BY <2>3, <2>4, <2>5, <2>6 DEF HealthInv, Group, Health!group
<1>4. Health!Prompt'
  BY DEF HealthInv, Health!Prompt, Health!group
<1> QED
  BY <1>1, <1>2, <1>3, <1>4 DEF HealthInv

\* A fetch starts with the request, before time passes.
LEMMA StartKeeps ==
  ASSUME HealthAssumption, HealthInv, NEW o \in Known, Health!Start(o)
  PROVE  HealthInv'
<1> USE DEF Health!None, Health!Over, Health!Verdicts
<1>1. HealthTyped' /\ UNCHANGED <<clock, Health!group>>
  BY DEF HealthInv, HealthTyped, Health!Start, Health!group, HealthAssumption
<1>2. /\ pc[o] = "created" /\ pc'[o] = "fetching" /\ timer'[o] = clock + ProbeTimeout
      /\ status'[o] = status[o] /\ cancelling'[o] = cancelling[o] /\ close'[o] = close[o]
  BY DEF HealthInv, HealthTyped, Health!Start
<1>3. \A p \in Known \ {o} :
        /\ pc'[p] = pc[p] /\ status'[p] = status[p] /\ timer'[p] = timer[p]
        /\ cancelling'[p] = cancelling[p] /\ close'[p] = close[p]
  BY DEF HealthInv, HealthTyped, Health!Start
<1>4. Session(o) /\ Timed(o)
  BY DEF HealthInv, Sessions, Timers
<1>5. Session(o)'
  BY <1>2, <1>4 DEF Session
<1>6. Timed(o)'
  BY <1>1, <1>2, <1>4 DEF Timed, HealthAssumption, HealthTyped
<1>7. ~aborting /\ ~cancelling'[o]
  BY <1>2, <1>4 DEF HealthInv, Group, Session
<1> QED
  BY <1>1, <1>2, <1>3, <1>5, <1>6, <1>7, OneProbe

\* Whatever the fetch comes to, the close starts before the fetch's timeout is over.
LEMMA EndFetchKeeps ==
  ASSUME HealthAssumption, HealthInv, NEW o \in Known, NEW verdict \in Health!Verdicts,
         Health!EndFetch(o, verdict)
  PROVE  HealthInv'
<1> USE DEF Health!None, Health!Over
<1>1. HealthTyped' /\ UNCHANGED <<clock, Health!group>>
  BY DEF HealthInv, HealthTyped, Health!EndFetch, Health!group, HealthAssumption
<1>2. /\ pc[o] = "fetching" /\ pc'[o] = "closing" /\ timer'[o] = clock + CloseTimeout
      /\ status'[o] = verdict /\ cancelling'[o] = cancelling[o] /\ close'[o] = "running"
  BY DEF HealthInv, HealthTyped, Health!EndFetch
<1>3. \A p \in Known \ {o} :
        /\ pc'[p] = pc[p] /\ status'[p] = status[p] /\ timer'[p] = timer[p]
        /\ cancelling'[p] = cancelling[p] /\ close'[p] = close[p]
  BY DEF HealthInv, HealthTyped, Health!EndFetch
<1>4. Session(o) /\ Timed(o)
  BY DEF HealthInv, Sessions, Timers
<1>5. ~aborting /\ cancelledAt = Health!None /\ ~cancelling'[o]
  BY <1>2, <1>4 DEF HealthInv, Group, Session
<1>6. Session(o)'
  BY <1>2, <1>4 DEF Session
<1>7. Timed(o)'
  BY <1>1, <1>2, <1>4, <1>5 DEF Timed, HealthAssumption, HealthTyped, Health!group
<1> QED
  BY <1>1, <1>2, <1>3, <1>5, <1>6, <1>7, OneProbe

\* A probe that ends with its close task ended.
LEMMA ClosedKeeps ==
  ASSUME HealthInv, NEW o \in Known, Health!Closed(o)
  PROVE  HealthInv'
<1> USE DEF Health!None, Health!Over
<1>1. HealthTyped' /\ UNCHANGED <<clock, Health!group>>
  BY DEF HealthInv, HealthTyped, Health!Closed, Health!EndProbe, Health!group
<1>2. /\ pc[o] = "closing" /\ close[o] \in {"closed", "broken"}
      /\ pc'[o] = IF close[o] = "broken" THEN "failed"
                  ELSE IF cancelling[o] THEN "cancelled" ELSE "done"
      /\ status'[o] = status[o] /\ cancelling'[o] = cancelling[o] /\ close'[o] = close[o]
  BY DEF HealthInv, HealthTyped, Health!Closed, Health!EndProbe
<1>3. \A p \in Known \ {o} :
        /\ pc'[p] = pc[p] /\ status'[p] = status[p] /\ timer'[p] = timer[p]
        /\ cancelling'[p] = cancelling[p] /\ close'[p] = close[p]
  BY DEF HealthInv, HealthTyped, Health!Closed, Health!EndProbe
<1>4. Session(o)
  BY DEF HealthInv, Sessions
<1>5. pc'[o] \in Health!Over /\ (cancelling[o] => aborting) /\ (pc'[o] = "cancelled" => aborting)
  BY <1>2 DEF HealthInv, Group
<1>6. Session(o)'
  BY <1>2, <1>4, <1>5 DEF Session
<1>7. Timed(o)'
  BY <1>5 DEF Timed
<1> QED
  BY <1>1, <1>2, <1>3, <1>5, <1>6, <1>7, OneProbe

\* A probe that leaves its close task behind.
LEMMA CloseTimesOutKeeps ==
  ASSUME HealthInv, NEW o \in Known, Health!CloseTimesOut(o)
  PROVE  HealthInv'
<1> USE DEF Health!None, Health!Over
<1>1. HealthTyped' /\ UNCHANGED <<clock, Health!group>>
  BY DEF HealthInv, HealthTyped, Health!CloseTimesOut, Health!EndProbe, Health!group, Health!Verdicts
<1>2. /\ pc[o] = "closing" /\ pc'[o] = IF cancelling[o] THEN "cancelled" ELSE "done"
      /\ status'[o] = "unavailable" /\ cancelling'[o] = cancelling[o]
      /\ close'[o] = "detached"
  BY DEF HealthInv, HealthTyped, Health!CloseTimesOut, Health!EndProbe
<1>3. \A p \in Known \ {o} :
        /\ pc'[p] = pc[p] /\ status'[p] = status[p] /\ timer'[p] = timer[p]
        /\ cancelling'[p] = cancelling[p] /\ close'[p] = close[p]
  BY DEF HealthInv, HealthTyped, Health!CloseTimesOut, Health!EndProbe
<1>4. pc'[o] \in Health!Over /\ (cancelling[o] => aborting) /\ (pc'[o] = "cancelled" => aborting)
  BY <1>2 DEF HealthInv, Group
<1>5. Session(o)'
  BY <1>2, <1>4 DEF Session, Health!Verdicts
<1>6. Timed(o)'
  BY <1>4 DEF Timed
<1> QED
  BY <1>1, <1>2, <1>3, <1>4, <1>5, <1>6, OneProbe

\* A close task that ends in its own time, awaited or not.
LEMMA CloseEndsKeeps ==
  ASSUME HealthInv, NEW o \in Known, Health!CloseEnds(o)
  PROVE  HealthInv'
<1> USE DEF Health!None, Health!Over
<1>1. HealthTyped' /\ UNCHANGED <<clock, Health!group>>
  BY DEF HealthInv, HealthTyped, Health!CloseEnds, Health!group
<1>2. /\ \/ close[o] = "running" /\ close'[o] \in {"closed", "broken"}
         \/ close[o] = "detached" /\ close'[o] = "released"
      /\ pc'[o] = pc[o] /\ status'[o] = status[o] /\ cancelling'[o] = cancelling[o]
      /\ timer'[o] = timer[o]
  BY DEF HealthInv, HealthTyped, Health!CloseEnds
<1>3. \A p \in Known \ {o} :
        /\ pc'[p] = pc[p] /\ status'[p] = status[p] /\ timer'[p] = timer[p]
        /\ cancelling'[p] = cancelling[p] /\ close'[p] = close[p]
  BY DEF HealthInv, HealthTyped, Health!CloseEnds
<1>4. Session(o) /\ Timed(o)
  BY DEF HealthInv, Sessions, Timers
<1>5. Session(o)'
  BY <1>2, <1>4 DEF Session
<1>6. Timed(o)'
  BY <1>1, <1>2, <1>4 DEF Timed, Health!group
<1>7. /\ aborting => pc'[o] \notin {"created", "fetching"}
      /\ ~aborting => pc'[o] # "cancelled" /\ ~cancelling'[o]
  BY <1>2 DEF HealthInv, Group
<1> QED
  BY <1>1, <1>2, <1>3, <1>5, <1>6, <1>7, OneProbe

-----------------------------------------------------------------------------
(* The steps of the task group, and of time.                               *)

\* What aborting leaves behind: every wait ends within a close timeout.
LEMMA AbortKeeps ==
  ASSUME HealthAssumption, HealthInv, Health!Abort, UNCHANGED <<clock, request, status>>,
         \/ request = "running" /\ cancelledAt = Health!None /\ cancelledAt' = clock
         \/ Health!SomeFailed /\ UNCHANGED cancelledAt
  PROVE  HealthInv'
<1> USE DEF Health!None, Health!Over
<1>1. ~aborting /\ aborting' /\ cancelledAt = Health!None
  BY DEF HealthInv, Group, Health!Abort
<1>2. HealthTyped'
  BY DEF HealthInv, HealthTyped, Health!Abort, Health!Stopped, Health!SessionsClosing, Health!Interrupted, HealthAssumption
<1>3. \A o \in Known :
        /\ pc'[o] = CASE pc[o] = "created" -> "cancelled"
                      [] pc[o] = "fetching" -> "closing"
                      [] OTHER -> pc[o]
        /\ close'[o] = IF pc[o] = "fetching" THEN "running" ELSE close[o]
        /\ timer'[o] = IF pc[o] = "fetching" THEN clock + CloseTimeout ELSE timer[o]
        /\ cancelling'[o] = (pc[o] \in {"fetching", "closing"})
        /\ status'[o] = status[o]
  BY DEF Health!Abort, Health!Stopped, Health!SessionsClosing, Health!Interrupted
<1>4. Sessions'
  <2> SUFFICES ASSUME NEW o \in Known PROVE Session(o)'
    BY DEF Sessions
  <2>1. Session(o)
    BY DEF HealthInv, Sessions
  <2> QED
    BY <1>3, <2>1 DEF Session
<1>5. Timers'
  <2> SUFFICES ASSUME NEW o \in Known PROVE Timed(o)'
    BY DEF Timers
  <2>1. Timed(o)
    BY DEF HealthInv, Timers
  <2>2. clock \in Nat /\ timer[o] \in Int /\ ProbeTimeout \in Nat /\ CloseTimeout \in Nat
    BY DEF HealthInv, HealthTyped, HealthAssumption
  <2> QED
    BY <1>1, <1>3, <2>1, <2>2 DEF Timed
<1>6. Group'
  <2>1. cancelledAt' # Health!None \/ Health!SomeFailed'
    BY <1>3 DEF Health!SomeFailed, HealthInv, HealthTyped
  <2>2. \A o \in Known : pc'[o] \notin {"created", "fetching"}
    BY <1>3
  <2>3. request # "running" => Health!AllOver' /\ request # "returned"
    BY <1>3 DEF HealthInv, Group, Health!AllOver
  <2> QED
    BY <1>1, <2>1, <2>2, <2>3 DEF Group
<1>7. Health!Prompt'
  BY <1>1 DEF HealthInv, Health!Prompt, HealthTyped, HealthAssumption
<1> QED
  BY <1>2, <1>4, <1>5, <1>6, <1>7 DEF HealthInv

\* The request is cancelled, and with it the probes that are gathered.
LEMMA CancelRequestKeeps ==
  ASSUME HealthAssumption, HealthInv, Health!CancelRequest
  PROVE  HealthInv'
<1> USE DEF Health!None, Health!Over
<1>1. CASE Health!Abort
  BY <1>1, AbortKeeps DEF Health!CancelRequest
<1>2. CASE aborting /\ UNCHANGED <<aborting, pc, timer, cancelling, close>>
  <2>1. HealthTyped'
    BY <1>2 DEF HealthInv, HealthTyped, Health!CancelRequest
  <2>2. Sessions'
    BY <1>2 DEF HealthInv, Sessions, Session, Health!CancelRequest
  <2>3. Timers'
    <3> SUFFICES ASSUME NEW o \in Known PROVE Timed(o)'
      BY DEF Timers
    <3>1. Timed(o) /\ timer[o] \in Int
      BY DEF HealthInv, Timers, HealthTyped
    <3> QED
      BY <1>2, <3>1 DEF Timed, Health!CancelRequest
  <2>4. Group'
    BY <1>2 DEF HealthInv, Group, Health!CancelRequest, Health!SomeFailed, Health!AllOver, HealthTyped
  <2>5. Health!Prompt'
    BY <1>2 DEF HealthInv, Health!Prompt, Health!CancelRequest, HealthTyped, HealthAssumption
  <2> QED
    BY <2>1, <2>2, <2>3, <2>4, <2>5 DEF HealthInv
<1> QED
  BY <1>1, <1>2 DEF Health!CancelRequest

\* A probe that raised ends the whole group.
LEMMA AbortOnFailureKeeps ==
  ASSUME HealthAssumption, HealthInv, Health!AbortOnFailure
  PROVE  HealthInv'
BY AbortKeeps DEF Health!AbortOnFailure

\* The group is complete, and the answer is given.
LEMMA FinishKeeps ==
  ASSUME HealthInv, Health!Finish
  PROVE  HealthInv'
<1> USE DEF Health!None
<1>1. HealthTyped' /\ Health!AllOver' /\ (Health!SomeFailed' <=> Health!SomeFailed)
  BY DEF HealthInv, HealthTyped, Health!Finish, Health!AllOver, Health!SomeFailed
<1>2. request' = "returned" => cancelledAt' = Health!None /\ ~Health!SomeFailed'
  BY <1>1 DEF Health!Finish
<1>3. Group'
  BY <1>1, <1>2 DEF HealthInv, Group, Health!Finish
<1>4. Sessions' /\ Timers' /\ Health!Prompt'
  BY DEF HealthInv, Sessions, Session, Timers, Timed, Health!Prompt, Health!Finish
<1> QED
  BY <1>1, <1>3, <1>4 DEF HealthInv

\* Time passes under the request only while a probe waits, whose timeout bounds it.
LEMMA HealthTickKeeps ==
  ASSUME HealthAssumption, HealthInv, Health!Tick
  PROVE  HealthInv'
<1> USE DEF Health!None, Health!Over
<1>1. HealthTyped'
  BY DEF HealthInv, HealthTyped, Health!Tick, Health!group
<1>2. Sessions' /\ Group'
  BY DEF HealthInv, Sessions, Session, Group, Health!Tick, Health!group, Health!SomeFailed, Health!AllOver
<1>3. clock \in Nat /\ clock' = clock + 1 /\ ProbeTimeout \in Nat /\ CloseTimeout \in Nat
  BY DEF HealthInv, HealthTyped, Health!Tick, HealthAssumption
<1>4. \A o \in Known :
        /\ Timed(o) /\ timer[o] \in Int
        /\ pc[o] # "created" /\ pc'[o] = pc[o] /\ timer'[o] = timer[o]
        /\ pc[o] \in {"fetching", "closing"} => clock < timer[o]
  BY DEF HealthInv, Timers, HealthTyped, Health!Tick, Health!NothingReady, Health!NoTimerOverdue
<1>5. Timers'
  BY <1>3, <1>4 DEF Timers, Timed, Health!Tick, Health!group, HealthInv, HealthTyped
<1>6. Health!Prompt'
  <2> SUFFICES ASSUME request = "running"
               PROVE  /\ clock + 1 <= ProbeTimeout + CloseTimeout
                      /\ cancelledAt # Health!None => clock + 1 <= cancelledAt + CloseTimeout
    BY <1>3 DEF Health!Prompt, Health!Tick, Health!group
  <2>1. PICK o \in Known : pc[o] \notin Health!Over
    BY DEF Health!Tick, Health!NothingReady, Health!AllOver
  <2>2. pc[o] \in {"fetching", "closing"} /\ (cancelledAt # Health!None => pc[o] = "closing")
    BY <1>4, <2>1 DEF HealthInv, HealthTyped, Group
  <2>3. clock < timer[o] /\ Timed(o) /\ timer[o] \in Int /\ cancelledAt \in Int
    BY <1>4, <2>2 DEF HealthInv, HealthTyped
  <2> QED
    BY <1>3, <2>2, <2>3 DEF Timed
<1> QED
  BY <1>1, <1>2, <1>5, <1>6 DEF HealthInv

-----------------------------------------------------------------------------
(* The inductive invariant, and what follows from it.                      *)

\* No probe has begun.
LEMMA HealthInitially ==
  ASSUME HealthAssumption, Health!Init
  PROVE  HealthInv
<1> USE DEF Health!Init, Health!None, Health!Over
<1>1. HealthTyped
  <2>1. timer \in [Known -> Int] /\ clock \in Nat /\ cancelledAt \in Nat \union {Health!None}
    OBVIOUS
  <2>2. cancelling \in [Known -> BOOLEAN] /\ aborting \in BOOLEAN
    BY Zenon
  <2>3. /\ request = "running"
        /\ pc \in [Known -> {"created", "fetching", "closing"} \union Health!Over]
        /\ status \in [Known -> Health!Verdicts \union {"none"}]
        /\ close \in [Known -> {"absent", "running", "closed", "broken",
                                  "detached", "released"}]
    OBVIOUS
  <2> QED
    BY <2>1, <2>2, <2>3 DEF HealthTyped
<1>2. Sessions /\ Timers
  BY DEF Sessions, Session, Timers, Timed
<1>3. Group
  BY DEF Group, Health!SomeFailed
<1>4. Health!Prompt
  BY DEF Health!Prompt, HealthAssumption
<1> QED
  BY <1>1, <1>2, <1>3, <1>4 DEF HealthInv

\* Every step keeps the invariant.
LEMMA HealthKept ==
  ASSUME HealthAssumption, HealthInv, [Health!Next]_(Health!vars)
  PROVE  HealthInv'
<1>1. CASE Health!Tick
  BY <1>1, HealthTickKeeps
<1>2. CASE Health!CancelRequest
  BY <1>2, CancelRequestKeeps
<1>3. CASE Health!AbortOnFailure
  BY <1>3, AbortOnFailureKeeps
<1>4. CASE Health!Finish
  BY <1>4, FinishKeeps
<1>5. CASE \E o \in Known : Health!Probe(o)
  <2>1. PICK o \in Known : Health!Probe(o)
    BY <1>5
  <2>2. CASE Health!Start(o)
    BY <2>2, StartKeeps
  <2>3. CASE Health!Fetched(o) \/ Health!FetchTimesOut(o)
    <3>1. PICK verdict \in Health!Verdicts : Health!EndFetch(o, verdict)
      BY <2>3 DEF Health!Fetched, Health!FetchTimesOut, Health!Verdicts
    <3> QED
      BY <3>1, EndFetchKeeps
  <2>4. CASE Health!Closed(o)
    BY <2>4, ClosedKeeps
  <2>5. CASE Health!CloseTimesOut(o)
    BY <2>5, CloseTimesOutKeeps
  <2>6. CASE Health!CloseEnds(o)
    BY <2>6, CloseEndsKeeps
  <2> QED
    BY <2>1, <2>2, <2>3, <2>4, <2>5, <2>6 DEF Health!Probe
<1>6. CASE UNCHANGED Health!vars
  <2>1. HealthTyped' /\ Sessions' /\ Timers' /\ Health!Prompt'
    BY <1>6 DEF HealthInv, HealthTyped, Sessions, Session, Timers, Timed, Health!Prompt, Health!vars
  <2>2. Group'
    BY <1>6 DEF HealthInv, Group, Health!SomeFailed, Health!AllOver, Health!vars
  <2> QED
    BY <2>1, <2>2 DEF HealthInv
<1> QED
  BY <1>1, <1>2, <1>3, <1>4, <1>5, <1>6 DEF Health!Next

\* A health check of the provider is one of HealthProbe.
LEMMA ServiceChecks == ServiceSpec => Health!Spec
<1>1. ServiceInit => Health!Init
  BY DEF ServiceInit
<1>2. [ServiceNext]_<<endpoint, vars, healthVars>> => [Health!Next]_(Health!vars)
  BY DEF ServiceNext, ResolveStep, HealthStep, healthVars, Health!vars
<1> QED
  BY <1>1, <1>2, PTL DEF ServiceSpec, Health!Spec

\* A resolve of the provider is one of LibGenResolve.
LEMMA ServiceResolves == ServiceSpec => Spec
<1>1. ServiceInit => Init
  BY DEF ServiceInit
<1>2. [ServiceNext]_<<endpoint, vars, healthVars>> => [Next]_vars
  BY DEF ServiceNext, ResolveStep, HealthStep
<1> QED
  BY <1>1, <1>2, PTL DEF ServiceSpec, Spec

\* A probe, its session and its timers are where the group's state and the clock let
\* them be: HealthInv, of every reachable state of the health check.
THEOREM ProbesKeepTheirPlace == ServiceSpec => []HealthInv
<1>1. Health!Init => HealthInv
  BY HealthAssumption, HealthInitially
<1>2. HealthInv /\ [Health!Next]_(Health!vars) => HealthInv'
  BY HealthAssumption, HealthKept
<1> QED
  BY <1>1, <1>2, ServiceChecks, PTL DEF Health!Spec

(* The health answer takes no longer than a fetch and a close may, and a   *)
(* cancelled request no longer than a close may, however many mirrors hang *)
(* and whichever probe fails when.                                         *)
THEOREM HealthIsPrompt == ServiceSpec => []Prompt
<1>1. HealthInv => Prompt
  BY DEF HealthInv, Prompt
<1> QED
  BY <1>1, ProbesKeepTheirPlace, PTL

(* No session is left running with nobody to collect its result, and an    *)
(* answer is given only by a request that was not cancelled, about every   *)
(* mirror, and calls none healthy that held on to its session.             *)
THEOREM HealthIsHonest == ServiceSpec => []HonestAnswer
<1>1. HealthInv => HonestAnswer
  <2> SUFFICES ASSUME HealthInv PROVE HonestAnswer
    OBVIOUS
  <2>1. \A o \in Known : Session(o)
    BY DEF HealthInv, Sessions
  <2>2. request # "running" =>
          \A o \in Known : pc[o] \in Health!Over /\ close[o] # "running"
    BY <2>1 DEF HealthInv, Group, Health!AllOver, Session
  <2>3. request = "returned" =>
          cancelledAt = Health!None /\ \A o \in Known : pc[o] = "done"
    BY <2>2 DEF HealthInv, Group, Health!SomeFailed, Health!Over
  <2> QED
    BY <2>1, <2>2, <2>3 DEF HonestAnswer, Health!HonestAnswer, Session
<1> QED
  BY <1>1, ProbesKeepTheirPlace, PTL

(* The promises of both kinds of request hold of the provider that the run *)
(* checks: what challenges cost, whom their solutions serve, and the end   *)
(* that an unsafe destination puts to a resolve.                           *)
THEOREM ServiceKeepsItsPromises ==
  ServiceSpec => [](ChallengeCost /\ SolutionScoped /\ UnsafeIsFinal /\ Prompt /\ HonestAnswer)
BY ServiceResolves, ChallengesCostLittle, SolutionsStayScoped, UnsafeEndsTheOperation,
   HealthIsPrompt, HealthIsHonest, PTL
=============================================================================
