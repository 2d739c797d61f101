------------------------- MODULE LibGenSearchProofs -------------------------
(***************************************************************************)
(* Proofs about LibGenSearch, for any requests, intents, origins, budgets  *)
(* and query plans, and any size and lifetimes of the cache, and about     *)
(* CatalogPage, the reading of the pages it asks for.                      *)
(*                                                                         *)
(* What one request may be is said by Fine, a predicate on its state       *)
(* alone.  Of the shared cache the proofs need that a lookup leaves nothing*)
(* but entries that were there, and that a write adds one at most: AfterGet*)
(* and AfterSet are typed by the set of the entries they may hold.         *)
(***************************************************************************)
EXTENDS LibGenSearch, CatalogPage, SubsequenceProofs

Origins == {Preferred} \union Known

States ==
  [pc : {"idle", "validating", "trying", "querying", "closing", "over"},
   intent : Intents \union {Absent}, deadline : Nat,
   origins : Seq(Origins), attempt : Nat, answers : Seq({"empty"}),
   session : {"none", "open", "closed", "interrupted"},
   ending : {"none", "found", "empty", "failover", "raise", "cancelled"},
   result : {"none", "found", "empty", "error", "deadline", "configuration"}]

\* A request is at an origin from its choice to the end of the session with it.
AtOrigin(s) ==
  /\ s.pc \in {"trying", "querying", "closing"} => s.attempt \in 1..Len(s.origins)
  /\ s.pc \in {"validating", "trying", "querying", "closing"} => s.intent \in Intents

\* The session is open while the origin is asked and while it is closed.
SessionFits(s) ==
  /\ s.pc \in {"idle", "validating"} => s.session = "none"
  /\ s.pc = "trying" => s.session \in {"none", "closed"}
  /\ s.pc \in {"querying", "closing"} => s.session = "open"
  /\ s.pc = "over" => s.session # "open" /\ (s.session = "interrupted" => s.result = "deadline")

\* How the last origin ended, and what was made of it.
EndingFits(s) ==
  /\ s.pc # "over" => s.result = "none"
  /\ s.pc \in {"idle", "validating"} => s.ending = "none"
  /\ s.pc \in {"trying", "querying"} => s.ending \in {"none", "failover"}
  /\ s.pc = "closing" => s.ending # "none"
  /\ s.result = "error" => s.ending = "raise" \/ s.attempt = Len(s.origins)
  /\ s.result = "empty" => s.ending \in {"none", "failover", "empty"}

Fine(s) == s \in States /\ AtOrigin(s) /\ SessionFits(s) /\ EndingFits(s)

RequestsFine == req \in [Requests -> States] /\ \A r \in Requests : Fine(req[r])

Entries ==
  [key : Origins \X Intents, value : {Hits, Nothing}, expires : Nat]

CacheTyped == entries \in Seq(Entries) /\ clock \in Nat

Inv == RequestsFine /\ CacheTyped

-----------------------------------------------------------------------------
(* The ways a request's state changes.                                     *)

\* A state that is replied to, whatever it was before.
LEMMA ReplyFine ==
  ASSUME NEW s, s \in States, s.session # "open",
         NEW reply \in {"found", "empty", "error", "deadline", "configuration"},
         s.session = "interrupted" => reply = "deadline",
         reply = "error" => s.ending = "raise" \/ s.attempt = Len(s.origins),
         reply = "empty" => s.ending \in {"none", "failover", "empty"}
  PROVE  Fine(Reply(s, reply))
<1> DEFINE t == Reply(s, reply)
<1>1. t \in States
  BY DEF Reply, States
<1>2. /\ t.pc = "over" /\ t.result = reply /\ t.session = s.session /\ t.ending = s.ending
      /\ t.attempt = s.attempt /\ t.origins = s.origins
  BY DEF Reply, States
<1> HIDE DEF t
<1>3. AtOrigin(t) /\ SessionFits(t) /\ EndingFits(t)
  BY <1>2 DEF AtOrigin, SessionFits, EndingFits
<1> QED
  BY <1>1, <1>3 DEF Fine, t

\* validate_request: the intent is known, the origins are looked up.
LEMMA ValidatingFine ==
  ASSUME NEW s, Fine(s), s.pc = "idle", NEW intent \in Intents, NEW deadline \in Nat
  PROVE  Fine([s EXCEPT !.pc = "validating", !.intent = intent, !.deadline = deadline])
<1> DEFINE t == [s EXCEPT !.pc = "validating", !.intent = intent, !.deadline = deadline]
<1>1. t \in States
  BY DEF Fine, States
<1>2. /\ t.pc = "validating" /\ t.intent = intent /\ t.result = s.result
      /\ t.session = s.session /\ t.ending = s.ending
  BY DEF Fine, States
<1> HIDE DEF t
<1>3. AtOrigin(t) /\ SessionFits(t) /\ EndingFits(t)
  BY <1>2 DEF Fine, AtOrigin, SessionFits, EndingFits
<1> QED
  BY <1>1, <1>3 DEF Fine, t

\* _operation_origins: the first of one or two origins is tried.
LEMMA TryingFine ==
  ASSUME NEW s, Fine(s), s.pc = "validating", NEW origins \in Seq(Origins), Len(origins) >= 1
  PROVE  Fine([s EXCEPT !.pc = "trying", !.origins = origins, !.attempt = 1])
<1> DEFINE t == [s EXCEPT !.pc = "trying", !.origins = origins, !.attempt = 1]
<1>1. t \in States
  BY DEF Fine, States
<1>2. /\ t.pc = "trying" /\ t.intent = s.intent /\ t.origins = origins /\ t.attempt = 1
      /\ t.session = s.session /\ t.ending = s.ending /\ t.result = s.result
  BY DEF Fine, States
<1> HIDE DEF t
<1>3. AtOrigin(t) /\ SessionFits(t) /\ EndingFits(t)
  BY <1>2 DEF Fine, AtOrigin, SessionFits, EndingFits
<1> QED
  BY <1>1, <1>3 DEF Fine, t

\* A session is opened for the origin.
LEMMA QueryingFine ==
  ASSUME NEW s, Fine(s), s.pc = "trying"
  PROVE  Fine([s EXCEPT !.pc = "querying", !.session = "open"])
<1> DEFINE t == [s EXCEPT !.pc = "querying", !.session = "open"]
<1>1. t \in States
  BY DEF Fine, States
<1>2. /\ t.pc = "querying" /\ t.intent = s.intent /\ t.origins = s.origins
      /\ t.attempt = s.attempt /\ t.session = "open" /\ t.ending = s.ending
      /\ t.result = s.result
  BY DEF Fine, States
<1> HIDE DEF t
<1>3. AtOrigin(t) /\ SessionFits(t) /\ EndingFits(t)
  BY <1>2 DEF Fine, AtOrigin, SessionFits, EndingFits
<1> QED
  BY <1>1, <1>3 DEF Fine, t

\* One more query had no results.
LEMMA AnsweredFine ==
  ASSUME NEW s, Fine(s), s.pc = "querying"
  PROVE  Fine([s EXCEPT !.answers = Append(s.answers, "empty")])
<1> DEFINE t == [s EXCEPT !.answers = Append(s.answers, "empty")]
<1>1. t \in States
  <2>1. Append(s.answers, "empty") \in Seq({"empty"})
    BY DEF Fine, States
  <2> QED
    BY <2>1 DEF Fine, States
<1>2. /\ t.pc = s.pc /\ t.intent = s.intent /\ t.origins = s.origins
      /\ t.attempt = s.attempt /\ t.session = s.session /\ t.ending = s.ending
      /\ t.result = s.result
  BY DEF Fine, States
<1> HIDE DEF t
<1>3. AtOrigin(t) /\ SessionFits(t) /\ EndingFits(t)
  BY <1>2 DEF Fine, AtOrigin, SessionFits, EndingFits
<1> QED
  BY <1>1, <1>3 DEF Fine, t

\* The finally block of _search_origin, from any way out of it.
LEMMA ClosingFine ==
  ASSUME NEW r \in Requests, Fine(req[r]), req[r].pc = "querying",
         NEW ending \in {"found", "empty", "failover", "raise", "cancelled"}
  PROVE  Fine(StartClosing(r, ending))
<1> DEFINE s == req[r]
           t == StartClosing(r, ending)
<1>1. t \in States
  <2>1. <<>> \in Seq({"empty"})
    OBVIOUS
  <2> QED
    BY <2>1 DEF Fine, States, StartClosing
<1>2. /\ t.pc = "closing" /\ t.intent = s.intent /\ t.origins = s.origins
      /\ t.attempt = s.attempt /\ t.session = s.session /\ t.ending = ending
      /\ t.result = s.result
  BY DEF Fine, States, StartClosing
<1> HIDE DEF t
<1>3. AtOrigin(t) /\ SessionFits(t) /\ EndingFits(t)
  BY <1>2 DEF Fine, AtOrigin, SessionFits, EndingFits
<1> QED
  BY <1>1, <1>3 DEF Fine, t

\* _search, once the session is closed: the next origin or the reply.
LEMMA AfterOriginFine ==
  ASSUME NEW s, Fine(s), s.pc = "closing"
  PROVE  Fine(AfterOrigin([s EXCEPT !.session = "closed"]))
<1> DEFINE c == [s EXCEPT !.session = "closed"]
<1>1. c \in States
  BY DEF Fine, States
<1>2. /\ c.pc = "closing" /\ c.intent = s.intent /\ c.origins = s.origins
      /\ c.attempt = s.attempt /\ c.session = "closed" /\ c.ending = s.ending
      /\ c.result = "none"
  BY DEF Fine, States, EndingFits
<1>3. c.attempt \in 1..Len(c.origins) /\ c.intent \in Intents
  BY <1>2 DEF Fine, AtOrigin
<1> HIDE DEF c
<1>4. Len(c.origins) \in Nat /\ c.attempt \in Nat
  BY <1>1 DEF States
<1>5. CASE c.ending \in {"found", "empty"}
  <2>1. AfterOrigin(c) = Reply(c, c.ending)
    BY <1>5 DEF AfterOrigin
  <2> QED
    BY <1>1, <1>2, <1>5, <2>1, ReplyFine DEF c
<1>6. CASE c.ending = "cancelled"
  <2>1. AfterOrigin(c) = Reply(c, "deadline")
    BY <1>6 DEF AfterOrigin
  <2> QED
    BY <1>1, <1>2, <2>1, ReplyFine DEF c
<1>7. CASE c.ending = "failover" /\ c.attempt < Len(c.origins)
  <2> DEFINE t == [c EXCEPT !.pc = "trying", !.attempt = c.attempt + 1]
  <2>1. AfterOrigin(c) = t
    BY <1>7 DEF AfterOrigin
  <2>2. c.attempt + 1 \in 1..Len(c.origins) /\ c.attempt + 1 \in Nat
    BY <1>4, <1>7
  <2>3. t \in States
    BY <1>1, <2>2 DEF States
  <2>4. /\ t.pc = "trying" /\ t.intent = c.intent /\ t.origins = c.origins
        /\ t.attempt = c.attempt + 1 /\ t.session = "closed" /\ t.ending = "failover"
        /\ t.result = "none"
    BY <1>1, <1>2, <1>7 DEF States
  <2> HIDE DEF t
  <2>5. AtOrigin(t) /\ SessionFits(t) /\ EndingFits(t)
    BY <1>3, <2>2, <2>4 DEF AtOrigin, SessionFits, EndingFits
  <2> QED
    BY <2>1, <2>3, <2>5 DEF Fine, c
<1>8. CASE c.ending = "failover" /\ ~(c.attempt < Len(c.origins))
  <2>1. AfterOrigin(c) = Reply(c, "error")
    BY <1>8 DEF AfterOrigin
  <2>2. c.attempt = Len(c.origins)
    BY <1>3, <1>4, <1>8
  <2> QED
    BY <1>1, <1>2, <2>1, <2>2, ReplyFine DEF c
<1>9. CASE c.ending \in {"none", "raise"}
  <2>1. AfterOrigin(c) = Reply(c, "error")
    BY <1>9 DEF AfterOrigin
  <2>2. c.ending = "raise"
    BY <1>2, <1>9 DEF Fine, EndingFits
  <2> QED
    BY <1>1, <1>2, <2>1, <2>2, ReplyFine DEF c
<1> QED
  BY <1>1, <1>5, <1>6, <1>7, <1>8, <1>9 DEF States

\* The deadline strikes while the session is closed.
LEMMA InterruptedFine ==
  ASSUME NEW s, Fine(s), s.pc = "closing"
  PROVE  Fine(Reply([s EXCEPT !.session = "interrupted", !.ending = "cancelled"], "deadline"))
<1> DEFINE c == [s EXCEPT !.session = "interrupted", !.ending = "cancelled"]
<1>1. c \in States /\ c.session = "interrupted"
  BY DEF Fine, States
<1> HIDE DEF c
<1>2. Fine(Reply(c, "deadline"))
  BY <1>1, ReplyFine
<1> QED
  BY <1>2 DEF c

\* One request moves, to a state it may have.
LEMMA OneMoves ==
  ASSUME RequestsFine, NEW r \in Requests, NEW t, Fine(t), req' = [req EXCEPT ![r] = t]
  PROVE  RequestsFine'
<1>1. t \in States
  BY DEF Fine
<1>2. req' \in [Requests -> States]
  BY <1>1 DEF RequestsFine
<1>3. \A q \in Requests : req'[q] = IF q = r THEN t ELSE req[q]
  BY DEF RequestsFine
<1>4. \A q \in Requests : Fine(req'[q])
  BY <1>3 DEF RequestsFine
<1> QED
  BY <1>2, <1>4 DEF RequestsFine, Fine, AtOrigin, SessionFits, EndingFits

-----------------------------------------------------------------------------
(* The cache.                                                              *)

\* What is left of a sequence holds nothing else.
LEMMA WithoutTyped ==
  ASSUME NEW S, NEW es \in Seq(S), NEW key
  PROVE  /\ Without(es, key) \in Seq(S)
         /\ key \in KeysOf(es) => EntryOf(es, key) \in S
<1>1. Len(es) \in Nat /\ DOMAIN es = 1..Len(es)
  OBVIOUS
<1>2. CASE key \in KeysOf(es)
  <2> DEFINE n == PlaceOf(es, key)
  <2>1. n \in 1..Len(es)
    BY <1>1, <1>2 DEF KeysOf, PlaceOf
  <2>2. Without(es, key) = SubSeq(es, 1, n - 1) \o SubSeq(es, n + 1, Len(es))
    BY <1>2 DEF Without, RemoveAt
  <2>3. EntryOf(es, key) = es[n]
    BY DEF EntryOf
  <2> HIDE DEF n
  <2>4. SubSeq(es, 1, n - 1) \in Seq(S) /\ SubSeq(es, n + 1, Len(es)) \in Seq(S)
    BY <1>1, <2>1
  <2>5. Without(es, key) \in Seq(S)
    BY <2>2, <2>4, ConcatProperties
  <2> QED
    BY <2>1, <2>3, <2>5
<1>3. CASE key \notin KeysOf(es)
  BY <1>3 DEF Without
<1> QED
  BY <1>2, <1>3

\* A lookup leaves nothing but entries that were there.
LEMMA AfterGetTyped ==
  ASSUME NEW S, NEW es \in Seq(S), NEW key, NEW now
  PROVE  AfterGet(es, key, now) \in Seq(S)
<1>1. Without(es, key) \in Seq(S) /\ (key \in KeysOf(es) => EntryOf(es, key) \in S)
  BY WithoutTyped
<1> QED
  BY <1>1, AppendProperties DEF AfterGet, Live

\* A write adds one entry.
LEMMA AfterSetTyped ==
  ASSUME NEW S, NEW es \in Seq(S), NEW key, NEW value, NEW now,
         [key |-> key, value |-> value, expires |-> now + Lifetime(value)] \in S
  PROVE  AfterSet(es, key, value, now) \in Seq(S)
<1> DEFINE e == [key |-> key, value |-> value, expires |-> now + Lifetime(value)]
           gs == Append(Without(es, e.key), e)
<1>1. AfterSet(es, key, value, now) = Trimmed(gs)
  BY DEF AfterSet, Placed
<1>2. gs \in Seq(S)
  BY WithoutTyped, AppendProperties
<1> HIDE DEF gs
<1>3. Len(gs) \in Nat /\ MaxEntries \in Nat /\ MaxEntries > 0
  BY <1>2, CacheAssumption
<1>4. CASE Len(gs) > MaxEntries
  <2>1. Trimmed(gs) = SubSeq(gs, Len(gs) - MaxEntries + 1, Len(gs))
    BY <1>4 DEF Trimmed
  <2>2. Len(gs) - MaxEntries + 1 \in 1..Len(gs)
    BY <1>3, <1>4
  <2> QED
    BY <1>1, <1>2, <1>3, <2>1, <2>2
<1>5. CASE ~(Len(gs) > MaxEntries)
  BY <1>1, <1>2, <1>5 DEF Trimmed
<1> QED
  BY <1>4, <1>5

\* The key of a request that is at an origin, and what it may write.
LEMMA KeyKnown ==
  ASSUME Inv, NEW r \in Requests, req[r].pc \in {"trying", "querying"},
         NEW value \in {Hits, Nothing}
  PROVE  [key |-> Key(r), value |-> value, expires |-> clock + Lifetime(value)] \in Entries
<1>1. Fine(req[r])
  BY DEF Inv, RequestsFine
<1>2. req[r].origins \in Seq(Origins) /\ req[r].attempt \in 1..Len(req[r].origins)
  BY <1>1 DEF Fine, States, AtOrigin
<1>3. Origin(r) \in Origins
  BY <1>2 DEF Origin
<1>4. Key(r) \in Origins \X Intents
  BY <1>1, <1>3 DEF Key, Fine, AtOrigin
<1>5. clock + Lifetime(value) \in Nat
  BY CacheAssumption DEF Inv, CacheTyped, Lifetime
<1> QED
  BY <1>4, <1>5 DEF Entries

-----------------------------------------------------------------------------
(* The steps of the requests.                                              *)

\* A request begins.
LEMMA BeginFine ==
  ASSUME Inv, NEW r \in Requests, NEW intent \in Intents, NEW budget \in Budgets,
         Begin(r, intent, budget)
  PROVE  RequestsFine'
<1>1. Fine(req[r]) /\ req[r] \in States /\ RequestsFine /\ req[r].pc = "idle" /\ budget \in Nat
      /\ clock \in Nat
  BY SearchAssumption DEF Inv, CacheTyped, RequestsFine, Fine, Begin
<1>2. CASE budget = 0
  <2>1. req' = [req EXCEPT ![r] = Reply(req[r], "deadline")]
    BY <1>2 DEF Begin
  <2>2. req[r].session = "none"
    BY <1>1 DEF Fine, SessionFits
  <2>3. Fine(Reply(req[r], "deadline"))
    BY <1>1, <2>2, ReplyFine
  <2> QED
    BY <1>1, <2>1, <2>3, OneMoves
<1>3. CASE budget # 0
  <2> DEFINE t == [req[r] EXCEPT !.pc = "validating", !.intent = intent, !.deadline = clock + budget]
  <2>1. req' = [req EXCEPT ![r] = t]
    BY <1>3 DEF Begin
  <2>2. clock + budget \in Nat
    BY <1>1
  <2>3. Fine(t)
    BY <1>1, <2>2, ValidatingFine
  <2> HIDE DEF t
  <2> QED
    BY <1>1, <2>1, <2>3, OneMoves
<1> QED
  BY <1>2, <1>3

\* No origin can be used.
LEMMA RejectOriginFine ==
  ASSUME Inv, NEW r \in Requests, RejectOrigin(r)
  PROVE  RequestsFine'
<1>1. Fine(req[r]) /\ req[r] \in States /\ RequestsFine /\ req[r].pc = "validating"
  BY DEF Inv, RequestsFine, Fine, RejectOrigin
<1>2. req' = [req EXCEPT ![r] = Reply(req[r], "configuration")]
  BY DEF RejectOrigin
<1>3. req[r].session = "none"
  BY <1>1 DEF Fine, SessionFits
<1>4. Fine(Reply(req[r], "configuration"))
  BY <1>1, <1>3, ReplyFine
<1> QED
  BY <1>1, <1>2, <1>4, OneMoves

\* The origins are chosen.
LEMMA ChooseOriginsFine ==
  ASSUME Inv, NEW r \in Requests, ChooseOrigins(r)
  PROVE  RequestsFine'
<1>1. Fine(req[r]) /\ RequestsFine /\ req[r].pc = "validating"
  BY DEF Inv, RequestsFine, Fine, ChooseOrigins
<1>2. PICK origins \in {<<Preferred>>} \union {<<Preferred, other>> : other \in Known \ {Preferred}} :
        req' = [req EXCEPT ![r].pc = "trying", ![r].origins = origins, ![r].attempt = 1]
  BY DEF ChooseOrigins
<1>3. origins \in Seq(Origins) /\ Len(origins) >= 1
  <2>1. CASE origins = <<Preferred>>
    BY <2>1 DEF Origins
  <2>2. CASE origins \in {<<Preferred, other>> : other \in Known \ {Preferred}}
    <3>1. PICK other \in Known : origins = <<Preferred, other>>
      BY <2>2
    <3> QED
      BY <3>1 DEF Origins
  <2> QED
    BY <1>2, <2>1, <2>2
<1> DEFINE t == [req[r] EXCEPT !.pc = "trying", !.origins = origins, !.attempt = 1]
<1>4. req' = [req EXCEPT ![r] = t]
  BY <1>1, <1>2 DEF RequestsFine
<1>5. Fine(t)
  BY <1>1, <1>3, TryingFine
<1> HIDE DEF t
<1> QED
  BY <1>1, <1>4, <1>5, OneMoves

\* The cache has the answer: no session is opened.
LEMMA ServeCachedFine ==
  ASSUME Inv, NEW r \in Requests, ServeCached(r)
  PROVE  RequestsFine'
<1>1. Fine(req[r]) /\ req[r] \in States /\ RequestsFine /\ req[r].pc = "trying"
  BY DEF Inv, RequestsFine, Fine, ServeCached
<1>2. PICK reply \in {"empty", "found"} : req' = [req EXCEPT ![r] = Reply(req[r], reply)]
  BY DEF ServeCached
<1>3. req[r].session \in {"none", "closed"} /\ req[r].ending \in {"none", "failover"}
  BY <1>1 DEF Fine, SessionFits, EndingFits
<1>4. Fine(Reply(req[r], reply))
  BY <1>1, <1>3, ReplyFine
<1> QED
  BY <1>1, <1>2, <1>4, OneMoves

\* It has not: the origin is asked.
LEMMA OpenSessionFine ==
  ASSUME Inv, NEW r \in Requests, OpenSession(r)
  PROVE  RequestsFine'
<1>1. Fine(req[r]) /\ RequestsFine /\ req[r].pc = "trying"
  BY DEF Inv, RequestsFine, OpenSession
<1> DEFINE t == [req[r] EXCEPT !.pc = "querying", !.session = "open"]
<1>2. req' = [req EXCEPT ![r] = t]
  BY <1>1 DEF OpenSession, RequestsFine
<1>3. Fine(t)
  BY <1>1, QueryingFine
<1> HIDE DEF t
<1> QED
  BY <1>1, <1>2, <1>3, OneMoves

\* A query had no results.
LEMMA EmptyAnswerFine ==
  ASSUME Inv, NEW r \in Requests, EmptyAnswer(r)
  PROVE  RequestsFine'
<1>1. Fine(req[r]) /\ RequestsFine /\ req[r].pc = "querying"
  BY DEF Inv, RequestsFine, EmptyAnswer
<1> DEFINE t == [req[r] EXCEPT !.answers = Append(req[r].answers, "empty")]
<1>2. req' = [req EXCEPT ![r] = t]
  BY <1>1 DEF EmptyAnswer, RequestsFine
<1>3. Fine(t)
  BY <1>1, AnsweredFine
<1> HIDE DEF t
<1> QED
  BY <1>1, <1>2, <1>3, OneMoves

\* The origin is given up, with results, without any or with a failure.
LEMMA ClosesFine ==
  ASSUME Inv, NEW r \in Requests, Found(r) \/ Exhausted(r) \/ QueryFails(r)
  PROVE  RequestsFine'
<1>1. Fine(req[r]) /\ RequestsFine /\ req[r].pc = "querying"
  BY DEF Inv, RequestsFine, Found, Exhausted, QueryFails
<1>2. PICK ending \in {"found", "empty", "failover", "raise", "cancelled"} :
        req' = [req EXCEPT ![r] = StartClosing(r, ending)]
  BY DEF Found, Exhausted, QueryFails
<1>3. Fine(StartClosing(r, ending))
  BY <1>1, ClosingFine
<1> QED
  BY <1>1, <1>2, <1>3, OneMoves

\* The session is closed.
LEMMA SessionClosesFine ==
  ASSUME Inv, NEW r \in Requests, SessionCloses(r)
  PROVE  RequestsFine'
<1>1. Fine(req[r]) /\ RequestsFine /\ req[r].pc = "closing"
  BY DEF Inv, RequestsFine, SessionCloses
<1> DEFINE t == AfterOrigin([req[r] EXCEPT !.session = "closed"])
<1>2. req' = [req EXCEPT ![r] = t]
  BY DEF SessionCloses
<1>3. Fine(t)
  BY <1>1, AfterOriginFine
<1> HIDE DEF t
<1> QED
  BY <1>1, <1>2, <1>3, OneMoves

\* The deadline, wherever it strikes.
LEMMA ExpireFine ==
  ASSUME Inv, NEW r \in Requests, Expire(r)
  PROVE  RequestsFine'
<1>1. Fine(req[r]) /\ req[r] \in States /\ RequestsFine
  BY DEF Inv, RequestsFine, Fine
<1>2. CASE req[r].pc = "validating"
  <2>1. req' = [req EXCEPT ![r] = Reply(req[r], "deadline")]
    BY <1>2 DEF Expire
  <2>2. req[r].session = "none"
    BY <1>1, <1>2 DEF Fine, SessionFits
  <2>3. Fine(Reply(req[r], "deadline"))
    BY <1>1, <2>2, ReplyFine
  <2> QED
    BY <1>1, <2>1, <2>3, OneMoves
<1>3. CASE req[r].pc = "querying"
  <2>1. req' = [req EXCEPT ![r] = StartClosing(r, "cancelled")]
    BY <1>3 DEF Expire
  <2>2. Fine(StartClosing(r, "cancelled"))
    BY <1>1, <1>3, ClosingFine
  <2> QED
    BY <1>1, <2>1, <2>2, OneMoves
<1>4. CASE req[r].pc = "closing"
  <2> DEFINE t == Reply([req[r] EXCEPT !.session = "interrupted", !.ending = "cancelled"], "deadline")
  <2>1. req' = [req EXCEPT ![r] = t]
    BY <1>4 DEF Expire
  <2>2. Fine(t)
    BY <1>1, <1>4, InterruptedFine
  <2> HIDE DEF t
  <2> QED
    BY <1>1, <2>1, <2>2, OneMoves
<1> QED
  BY <1>2, <1>3, <1>4 DEF Expire

-----------------------------------------------------------------------------
(* Together.                                                               *)

\* The cache holds what the requests at its origins wrote.
LEMMA CacheKept ==
  ASSUME Inv, [Next]_vars
  PROVE  CacheTyped'
<1>1. entries \in Seq(Entries) /\ clock \in Nat
  BY DEF Inv, CacheTyped
<1>2. clock' \in Nat
  <2>1. CASE Tick
    BY <1>1, <2>1 DEF Tick
  <2>2. CASE UNCHANGED clock
    BY <1>1, <2>2
  <2>3. ASSUME NEW r \in Requests, Step(r) PROVE UNCHANGED clock
    BY <2>3 DEF Step, Begin, RejectOrigin, ChooseOrigins, ServeCached, OpenSession, Found,
                EmptyAnswer, Exhausted, QueryFails, SessionCloses, Expire
  <2> QED
    BY <2>1, <2>2, <2>3 DEF Next, vars
<1>3. entries' \in Seq(Entries)
  <2>1. CASE UNCHANGED entries
    BY <1>1, <2>1
  <2>2. ASSUME NEW r \in Requests, ServeCached(r) \/ OpenSession(r)
        PROVE  entries' \in Seq(Entries)
    <3>1. entries' = AfterGet(entries, Key(r), clock)
      BY <2>2 DEF ServeCached, OpenSession
    <3> QED
      BY <1>1, <3>1, AfterGetTyped
  <2>3. ASSUME NEW r \in Requests, Found(r) \/ Exhausted(r)
        PROVE  entries' \in Seq(Entries)
    <3>1. req[r].pc = "querying"
      BY <2>3 DEF Found, Exhausted
    <3>2. PICK value \in {Hits, Nothing} : entries' = AfterSet(entries, Key(r), value, clock)
      BY <2>3 DEF Found, Exhausted
    <3>3. [key |-> Key(r), value |-> value, expires |-> clock + Lifetime(value)] \in Entries
      BY <3>1, KeyKnown
    <3> QED
      BY <1>1, <3>2, <3>3, AfterSetTyped
  <2> QED
    BY <2>1, <2>2, <2>3 DEF Next, Step, Tick, Begin, RejectOrigin, ChooseOrigins, EmptyAnswer,
                            QueryFails, SessionCloses, Expire, vars
<1> QED
  BY <1>2, <1>3 DEF CacheTyped

\* Every step keeps every request in a state it may have.
LEMMA RequestsKept ==
  ASSUME Inv, [Next]_vars
  PROVE  RequestsFine'
<1>1. CASE UNCHANGED req
  BY <1>1 DEF Inv, RequestsFine, Fine, AtOrigin, SessionFits, EndingFits
<1>2. ASSUME NEW r \in Requests, Step(r)
      PROVE  RequestsFine'
  BY <1>2, BeginFine, RejectOriginFine, ChooseOriginsFine, ServeCachedFine, OpenSessionFine,
     ClosesFine, EmptyAnswerFine, SessionClosesFine, ExpireFine DEF Step
<1> QED
  BY <1>1, <1>2 DEF Next, Tick, vars

(* Every request is in a state it may have, and every entry of the cache   *)
(* belongs to an origin and an intent.                                     *)
THEOREM SearchesKeepTheirPlace == Spec => []Inv
<1>1. Init => Inv
  <2> SUFFICES ASSUME Init PROVE Inv
    OBVIOUS
  <2>1. Idle \in States
    BY DEF Idle, States
  <2>2. Fine(Idle)
    BY <2>1 DEF Idle, Fine, AtOrigin, SessionFits, EndingFits
  <2>3. RequestsFine
    BY <2>1, <2>2 DEF Init, RequestsFine
  <2>4. CacheTyped
    BY DEF Init, CacheTyped
  <2> QED
    BY <2>3, <2>4 DEF Inv
<1>2. Inv /\ [Next]_vars => Inv'
  BY CacheKept, RequestsKept DEF Inv
<1> QED
  BY <1>1, <1>2, PTL DEF Spec

(* The session with an origin is given up before the next origin is tried  *)
(* and before the reply, in every interleaving of the requests, failures   *)
(* and deadlines (the finally block of _search_origin).                    *)
THEOREM SessionsAreReleased == Spec => []SessionReleased
<1>1. Inv => SessionReleased
  BY DEF Inv, RequestsFine, Fine, States, SessionFits, SessionReleased
<1> QED
  BY <1>1, SearchesKeepTheirPlace, PTL

(* An error is replied only when no origin is left to try or a failure     *)
(* must not be retried, and an empty result never stands for a failure     *)
(* (_search), for any number of origins.                                   *)
THEOREM ErrorsComeLast == Spec => []FailoverExhausted
<1>1. Inv => FailoverExhausted
  BY DEF Inv, RequestsFine, Fine, EndingFits, FailoverExhausted
<1> QED
  BY <1>1, SearchesKeepTheirPlace, PTL

-----------------------------------------------------------------------------
(* The queries.  Filters and slices are sequences of the elements at some  *)
(* positions (SubsequenceProofs); what remains is that a query that is     *)
(* left out repeats an earlier one or comes after three different ones.    *)

\* Three different elements.
LEMMA AtLeastThree ==
  ASSUME NEW E, IsFiniteSet(E), NEW a \in E, NEW b \in E, NEW c \in E, a # b, a # c, b # c
  PROVE  Cardinality(E) >= 3
<1>1. IsFiniteSet({a}) /\ Cardinality({a}) = 1
  BY FS_Singleton
<1> DEFINE A == {a}
           B == A \union {b}
           C == B \union {c}
<1>0. b \notin A /\ c \notin B /\ C \subseteq E
  OBVIOUS
<1> HIDE DEF A
<1>2. IsFiniteSet(A) /\ Cardinality(A) = 1
  BY <1>1 DEF A
<1>3. IsFiniteSet(B) /\ Cardinality(B) = Cardinality(A) + 1
  BY <1>0, <1>2, FS_AddElement
<1> HIDE DEF B
<1>4. IsFiniteSet(C) /\ Cardinality(C) = Cardinality(B) + 1
  BY <1>0, <1>3, FS_AddElement
<1> HIDE DEF C
<1>5. Cardinality(C) <= Cardinality(E) /\ Cardinality(E) \in Nat
  BY <1>0, FS_Subset, FS_CardinalityType
<1> QED
  BY <1>2, <1>3, <1>4, <1>5

\* The words of a query that an intent carries.
LEMMA WordsKnown ==
  ASSUME NEW W, NEW parts \in Seq(W)
  PROVE  Words(parts) \in Seq(W)
<1> DEFINE P == {i \in DOMAIN parts : parts[i] # Absent}
<1>1. P \in SUBSET (1..Len(parts))
  OBVIOUS
<1> HIDE DEF P
<1>2. Selected(parts, P) \in Seq(W)
  BY <1>1, SelectedKnown
<1> QED
  BY <1>2 DEF Words, P

\* What an intent may be asked for by, at most four ways.
WordsOf(intent) ==
  {intent.series, intent.title, intent.year, intent.alternate, intent.issue, "Vol",
   IssueOrVolume(intent), ZeroPadded(intent.issue)}

LEMMA VariantsKnown ==
  ASSUME NEW intent
  PROVE  /\ Variants(intent) \in Seq(Seq(WordsOf(intent)))
         /\ Len(Variants(intent)) \in Nat /\ Len(Variants(intent)) <= 4
<1> DEFINE W == WordsOf(intent)
           number == IssueOrVolume(intent)
           padded == ZeroPadded(intent.issue)
<1>1. /\ <<intent.series, intent.title, intent.year>> \in Seq(W)
      /\ <<intent.series, "Vol", number, intent.year>> \in Seq(W)
      /\ <<intent.series, intent.title>> \in Seq(W)
      /\ <<intent.alternate, "Vol", number, intent.year>> \in Seq(W)
      /\ <<intent.series, padded, intent.year>> \in Seq(W)
      /\ <<intent.series, intent.issue, intent.year>> \in Seq(W)
      /\ <<intent.series, intent.issue>> \in Seq(W)
      /\ <<intent.alternate, intent.issue, intent.year>> \in Seq(W)
  BY DEF WordsOf
<1> HIDE DEF W
<1>2. /\ CollectionVariants(intent) \in Seq(Seq(W))
      /\ Len(CollectionVariants(intent)) \in Nat /\ Len(CollectionVariants(intent)) <= 3
  BY <1>1 DEF CollectionVariants
<1>3. /\ IssueVariants(intent) \in Seq(Seq(W))
      /\ Len(IssueVariants(intent)) \in Nat /\ Len(IssueVariants(intent)) <= 4
  BY <1>1 DEF IssueVariants
<1> QED
  BY <1>2, <1>3 DEF Variants, W

\* The queries are the words of the variants.
LEMMA QueriesKnown ==
  ASSUME NEW intent
  PROVE  LET queries == Queries(intent)
             variants == Variants(intent) IN
           /\ queries \in Seq(Seq(WordsOf(intent))) /\ Len(queries) = Len(variants)
           /\ Len(queries) \in Nat /\ Len(queries) <= 4
           /\ DOMAIN variants = 1..Len(queries)
           /\ \A i \in 1..Len(queries) : queries[i] = Words(variants[i])
<1> DEFINE W == WordsOf(intent)
           variants == Variants(intent)
           queries == Queries(intent)
<1>1. variants \in Seq(Seq(W)) /\ Len(variants) \in Nat /\ Len(variants) <= 4
  BY VariantsKnown
<1> HIDE DEF variants, W
<1>2. DOMAIN variants = 1..Len(variants)
  BY <1>1
<1>3. \A i \in DOMAIN variants : Words(variants[i]) \in Seq(W)
  <2> SUFFICES ASSUME NEW i \in DOMAIN variants PROVE Words(variants[i]) \in Seq(W)
    OBVIOUS
  <2>1. variants[i] \in Seq(W)
    BY <1>1, <1>2, ElementOfSeq
  <2> QED
    BY <2>1, WordsKnown
<1>4. queries = [i \in 1..Len(variants) |-> Words(variants[i])]
  BY <1>2 DEF Queries, variants
<1> DEFINE n == Len(variants)
           Q == Seq(W)
<1>5. queries \in Seq(Q) /\ Len(queries) = n
  <2> HIDE DEF queries, Q
  <2>1. n \in Nat /\ \A i \in 1..n : Words(variants[i]) \in Q
    BY <1>1, <1>2, <1>3 DEF Q
  <2> HIDE DEF n
  <2> QED
    BY <1>4, <2>1 DEF n
<1>6. \A i \in 1..Len(queries) : queries[i] = Words(variants[i])
  BY <1>4, <1>5
<1> HIDE DEF queries
<1> QED
  BY <1>1, <1>2, <1>5, <1>6 DEF queries, variants, W

\* Exact queries are different, not empty, and the first three of the useful ones.
LEMMA ExactKnown ==
  ASSUME NEW intent
  PROVE  LET queries == Queries(intent)
             exact == BuildQueries(intent) IN
           /\ exact \in Seq(Seq(WordsOf(intent))) /\ Len(exact) \in Nat
           /\ \A k \in 1..Len(exact) : exact[k] # <<>>
           /\ \A k, l \in 1..Len(exact) : exact[k] = exact[l] => k = l
           /\ \A i \in 1..Len(queries) :
                \/ queries[i] = <<>>
                \/ Cardinality({queries[j] : j \in 1..(i - 1)} \ {<<>>}) >= 3
                \/ \E k \in 1..Len(exact) : exact[k] = queries[i]
<1> DEFINE W == WordsOf(intent)
           queries == Queries(intent)
           D == {<<>>}
           P == NewFirsts(queries, D)
           t == Selected(queries, P)
           exact == First(t, 3)
<1>1. queries \in Seq(Seq(W)) /\ Len(queries) \in Nat /\ Len(queries) <= 4
  BY QueriesKnown
<1> HIDE DEF queries, W, D
<1>2. /\ t \in Seq(Seq(W)) /\ Len(t) \in Nat
      /\ \A k \in 1..Len(t) : /\ Place(P, k) \in 1..Len(queries)
                              /\ t[k] = queries[Place(P, k)] /\ t[k] \notin D
      /\ \A k, l \in 1..Len(t) : k < l <=> Place(P, k) < Place(P, l)
      /\ \A k, l \in 1..Len(t) : t[k] = t[l] => k = l
      /\ \A i \in 1..Len(queries) :
           queries[i] \notin D => \E k \in 1..Len(t) : t[k] = queries[i] /\ Place(P, k) <= i
  <2> HIDE DEF P, t
  <2> DEFINE Q == Seq(W)
  <2> HIDE DEF Q
  <2>1. queries \in Seq(Q)
    BY <1>1 DEF Q
  <2>2. /\ t \in Seq(Q) /\ Len(t) \in Nat
        /\ \A k \in 1..Len(t) : Place(P, k) \in 1..Len(queries) /\ t[k] = queries[Place(P, k)] /\ t[k] \notin D
        /\ \A k, l \in 1..Len(t) : k < l <=> Place(P, k) < Place(P, l)
        /\ \A k, l \in 1..Len(t) : t[k] = t[l] => k = l
        /\ \A i \in 1..Len(queries) :
             queries[i] \notin D => \E k \in 1..Len(t) : t[k] = queries[i] /\ Place(P, k) <= i
    BY <2>1, DistinctKnown DEF P, t
  <2> QED
    BY <2>2 DEF Q
<1>3. BuildQueries(intent) = exact
  BY DEF BuildQueries, Useful, queries, D
<1> HIDE DEF P, t
<1>4. /\ exact \in Seq(Seq(W)) /\ Len(exact) = IF Len(t) < 3 THEN Len(t) ELSE 3
      /\ \A k \in 1..Len(exact) : k \in 1..Len(t) /\ exact[k] = t[k]
  <2> DEFINE Q == Seq(W)
  <2> HIDE DEF Q
  <2>1. t \in Seq(Q) /\ 3 \in Nat
    BY <1>2 DEF Q
  <2>2. /\ First(t, 3) \in Seq(Q)
        /\ Len(First(t, 3)) = IF Len(t) < 3 THEN Len(t) ELSE 3
        /\ \A i \in 1..Len(First(t, 3)) : i \in 1..Len(t) /\ First(t, 3)[i] = t[i]
    BY <2>1, FirstKnown
  <2> QED
    BY <2>2 DEF Q
<1> HIDE DEF exact
<1>5. ASSUME NEW i \in 1..Len(queries), queries[i] # <<>>
      PROVE  \/ Cardinality({queries[j] : j \in 1..(i - 1)} \ {<<>>}) >= 3
             \/ \E k \in 1..Len(exact) : exact[k] = queries[i]
  <2> DEFINE earlier == {queries[j] : j \in 1..(i - 1)} \ {<<>>}
  <2>1. PICK k \in 1..Len(t) : t[k] = queries[i] /\ Place(P, k) <= i
    BY <1>2, <1>5 DEF D
  <2>2. CASE k \in 1..Len(exact)
    BY <1>4, <2>1, <2>2
  <2>3. CASE k \notin 1..Len(exact)
    <3>1. k > 3 /\ 1 \in 1..Len(t) /\ 2 \in 1..Len(t) /\ 3 \in 1..Len(t)
      BY <1>2, <1>4, <2>3
    <3>2. ASSUME NEW l \in 1..3 PROVE t[l] \in earlier
      <4>1. l \in 1..Len(t) /\ l < k
        BY <1>2, <3>1
      <4>2. Place(P, l) \in 1..Len(queries) /\ Place(P, k) \in 1..Len(queries)
        BY <1>2, <4>1
      <4>3. Place(P, l) < Place(P, k)
        BY <1>2, <4>1
      <4>4. Place(P, l) \in 1..(i - 1)
        BY <1>1, <2>1, <4>2, <4>3
      <4> QED
        BY <1>2, <4>1, <4>4 DEF D
    <3>3. t[1] # t[2] /\ t[1] # t[3] /\ t[2] # t[3]
      BY <1>2, <3>1
    <3>4. IsFiniteSet(earlier)
      <4>1. earlier \subseteq {queries[1]} \union {queries[2]} \union {queries[3]}
        <5>1. \A j \in 1..(i - 1) : j \in {1, 2, 3}
          BY <1>1
        <5> QED
          BY <5>1
      <4>2. IsFiniteSet({queries[1]} \union {queries[2]} \union {queries[3]})
        <5>1. IsFiniteSet({queries[1]})
          BY FS_Singleton
        <5>2. IsFiniteSet({queries[1]} \union {queries[2]})
          BY <5>1, FS_AddElement
        <5> QED
          BY <5>2, FS_AddElement
      <4> QED
        BY <4>1, <4>2, FS_Subset
    <3> HIDE DEF earlier
    <3>5. Cardinality(earlier) >= 3
      BY <3>2, <3>3, <3>4, AtLeastThree
    <3> QED
      BY <3>5 DEF earlier
  <2> QED
    BY <2>2, <2>3
<1>6. /\ \A k \in 1..Len(exact) : exact[k] # <<>>
      /\ \A k, l \in 1..Len(exact) : exact[k] = exact[l] => k = l
  <2>1. \A k \in 1..Len(exact) : exact[k] # <<>>
    BY <1>2, <1>4 DEF D
  <2>2. ASSUME NEW k \in 1..Len(exact), NEW l \in 1..Len(exact), exact[k] = exact[l] PROVE k = l
    <3>1. k \in 1..Len(t) /\ l \in 1..Len(t) /\ t[k] = t[l]
      BY <1>4, <2>2
    <3> QED
      BY <1>2, <3>1
  <2> QED
    BY <2>1, <2>2
<1>7. exact \in Seq(Seq(W)) /\ Len(exact) \in Nat
  BY <1>2, <1>4
<1> QED
  BY <1>3, <1>5, <1>6, <1>7 DEF queries, W

\* The title alone.
LEMMA FallbackKnown ==
  ASSUME NEW intent
  PROVE  /\ FallbackQuery(intent) \in Seq(WordsOf(intent))
         /\ intent.series # Absent =>
              FallbackQuery(intent) = <<intent.series>> /\ FallbackQuery(intent) # <<>>
<1> DEFINE W == WordsOf(intent)
           parts == <<intent.series>>
           P == {i \in DOMAIN parts : parts[i] # Absent}
           t == Selected(parts, P)
<1>1. parts \in Seq(W) /\ Len(parts) = 1 /\ DOMAIN parts = {1} /\ parts[1] = intent.series
  BY DEF WordsOf
<1>2. FallbackQuery(intent) = t
  BY DEF FallbackQuery, Words
<1>3. P \in SUBSET (1..Len(parts))
  BY <1>1
<1>4. intent.series # Absent => P = {1}
  BY <1>1
<1> HIDE DEF parts, P, W
<1>5. /\ t \in Seq(W) /\ Len(t) = Cardinality(P)
      /\ \A k \in 1..Len(t) : Place(P, k) \in P /\ t[k] = parts[Place(P, k)]
  <2>1. parts \in Seq(W)
    BY <1>1
  <2> QED
    BY <1>3, <2>1, SelectedKnown
<1> HIDE DEF t
<1>6. ASSUME intent.series # Absent
      PROVE  t = <<intent.series>> /\ t # <<>>
  <2>1. P = {1} /\ Cardinality({1}) = 1
    BY <1>4, <1>6, FS_Singleton
  <2>2. Len(t) = 1
    BY <1>5, <2>1
  <2>3. t[1] = intent.series
    BY <1>1, <1>5, <2>1, <2>2
  <2>4. <<intent.series>> \in Seq(W) /\ Len(<<intent.series>>) = 1 /\ <<intent.series>>[1] = intent.series
    BY DEF W, WordsOf
  <2>5. t = <<intent.series>>
    BY <1>5, <2>2, <2>3, <2>4, SeqEqual
  <2> QED
    BY <2>2, <2>5
<1> QED
  BY <1>2, <1>5, <1>6 DEF W

\* The plan has no query twice and none of the first three different ones is missing.
LEMMA PlanKnown ==
  ASSUME NEW intent
  PROVE  LET plan == QueryPlan(intent)
             query(i) == Words(Variants(intent)[i]) IN
           /\ \A i \in DOMAIN plan :
                plan[i] # <<>> /\ \A j \in DOMAIN plan : plan[i] = plan[j] => i = j
           /\ \A i \in DOMAIN Variants(intent) :
                \/ query(i) = <<>>
                \/ Cardinality({query(j) : j \in 1..(i - 1)} \ {<<>>}) >= 3
                \/ Contains(plan, query(i))
           /\ intent.series # Absent => Contains(plan, <<intent.series>>)
<1> DEFINE Q == Seq(WordsOf(intent))
           queries == Queries(intent)
           exact == BuildQueries(intent)
           fallback == FallbackQuery(intent)
           plan == QueryPlan(intent)
           query(i) == Words(Variants(intent)[i])
<1>1. /\ exact \in Seq(Q) /\ Len(exact) \in Nat
      /\ \A k \in 1..Len(exact) : exact[k] # <<>>
      /\ \A k, l \in 1..Len(exact) : exact[k] = exact[l] => k = l
      /\ \A i \in 1..Len(queries) :
           \/ queries[i] = <<>>
           \/ Cardinality({queries[j] : j \in 1..(i - 1)} \ {<<>>}) >= 3
           \/ \E k \in 1..Len(exact) : exact[k] = queries[i]
  BY ExactKnown
<1>2. /\ fallback \in Q
      /\ intent.series # Absent => fallback = <<intent.series>> /\ fallback # <<>>
  BY FallbackKnown
<1>3. /\ Len(queries) \in Nat /\ DOMAIN Variants(intent) = 1..Len(queries)
      /\ \A i \in 1..Len(queries) : queries[i] = query(i)
  BY QueriesKnown
<1>4. plan = IF fallback = <<>> \/ Contains(exact, fallback) THEN exact ELSE Append(exact, fallback)
  BY DEF QueryPlan
<1> HIDE DEF Q, queries, exact, fallback, plan
<1>5. /\ plan \in Seq(Q) /\ Len(plan) \in Nat /\ DOMAIN plan = 1..Len(plan)
      /\ \A k \in 1..Len(exact) : k \in 1..Len(plan) /\ plan[k] = exact[k]
      /\ \A i \in 1..Len(plan) :
           \/ i \in 1..Len(exact)
           \/ i = Len(exact) + 1 /\ plan[i] = fallback /\ fallback # <<>> /\ ~Contains(exact, fallback)
      /\ fallback = <<>> \/ \E i \in 1..Len(plan) : plan[i] = fallback
  <2>1. CASE fallback = <<>> \/ Contains(exact, fallback)
    <3>1. plan = exact
      BY <1>4, <2>1
    <3> QED
      BY <1>1, <2>1, <3>1 DEF Contains
  <2>2. CASE ~(fallback = <<>> \/ Contains(exact, fallback))
    <3>1. plan = Append(exact, fallback)
      BY <1>4, <2>2
    <3>2. /\ plan \in Seq(Q) /\ Len(plan) = Len(exact) + 1
          /\ \A k \in 1..Len(exact) : plan[k] = exact[k]
          /\ plan[Len(exact) + 1] = fallback
      BY <1>1, <1>2, <3>1, AppendProperties
    <3> QED
      BY <1>1, <2>2, <3>2
  <2> QED
    BY <2>1, <2>2
<1>6. ASSUME NEW i \in DOMAIN plan
      PROVE  plan[i] # <<>> /\ \A j \in DOMAIN plan : plan[i] = plan[j] => i = j
  <2>1. plan[i] # <<>>
    BY <1>1, <1>5
  <2>2. ASSUME NEW j \in DOMAIN plan, plan[i] = plan[j] PROVE i = j
    <3>1. CASE i \in 1..Len(exact) /\ j \in 1..Len(exact)
      BY <1>1, <1>5, <2>2, <3>1
    <3>2. CASE i \in 1..Len(exact) /\ j \notin 1..Len(exact)
      BY <1>1, <1>5, <2>2, <3>2 DEF Contains
    <3>3. CASE i \notin 1..Len(exact) /\ j \in 1..Len(exact)
      BY <1>1, <1>5, <2>2, <3>3 DEF Contains
    <3>4. CASE i \notin 1..Len(exact) /\ j \notin 1..Len(exact)
      BY <1>5, <3>4
    <3> QED
      BY <3>1, <3>2, <3>3, <3>4
  <2> QED
    BY <2>1, <2>2
<1>7. ASSUME NEW i \in DOMAIN Variants(intent)
      PROVE  \/ query(i) = <<>>
             \/ Cardinality({query(j) : j \in 1..(i - 1)} \ {<<>>}) >= 3
             \/ Contains(plan, query(i))
  <2>1. i \in 1..Len(queries) /\ queries[i] = query(i)
    BY <1>3
  <2>2. \A j \in 1..(i - 1) : queries[j] = query(j)
    BY <1>3, <2>1
  <2>3. {queries[j] : j \in 1..(i - 1)} = {query(j) : j \in 1..(i - 1)}
    BY <2>2
  <2>4. (\E k \in 1..Len(exact) : exact[k] = queries[i]) => Contains(plan, query(i))
    BY <1>5, <2>1 DEF Contains
  <2> QED
    BY <1>1, <2>1, <2>3, <2>4
<1>8. intent.series # Absent => Contains(plan, <<intent.series>>)
  BY <1>2, <1>5 DEF Contains
<1> QED
  BY <1>6, <1>7, <1>8 DEF plan

(* For any intent: no query is sent twice to an origin or empty, and a     *)
(* request gives up on an origin as empty only after the title alone and   *)
(* the first three different ways to name the issue were all asked for     *)
(* (_build_queries, _title_fallback_query).                                *)
THEOREM PlansAreSound == Spec => []PlanSound
<1>1. Inv => PlanSound
  <2> SUFFICES ASSUME Inv PROVE PlanSound
    OBVIOUS
  <2>1. ASSUME NEW r \in Requests, req[r].intent \in Intents
        PROVE  Plan(r) = QueryPlan(req[r].intent)
    BY <2>1 DEF Plan, Plans
  <2>2. \A r \in Requests : req[r].intent # Absent => req[r].intent \in Intents
    BY DEF Inv, RequestsFine, Fine, States
  <2>3. \A r \in Requests : req[r].pc = "querying" => req[r].intent \in Intents
    BY DEF Inv, RequestsFine, Fine, AtOrigin
  <2>4. NoQueryTwice
    <3> SUFFICES ASSUME NEW r \in Requests, req[r].intent # Absent
                 PROVE  \A i \in DOMAIN Plan(r) :
                          /\ Plan(r)[i] # <<>>
                          /\ \A j \in DOMAIN Plan(r) : Plan(r)[i] = Plan(r)[j] => i = j
      BY DEF NoQueryTwice
    <3>1. Plan(r) = QueryPlan(req[r].intent)
      BY <2>1, <2>2
    <3> QED
      BY <3>1, PlanKnown
  <2>5. FirstThreeKept
    <3> DEFINE query(r, i) == Words(Variants(req[r].intent)[i])
    <3>1. ASSUME NEW r \in Requests, req[r].pc = "querying"
          PROVE  /\ \A i \in DOMAIN Variants(req[r].intent) :
                      \/ query(r, i) = <<>>
                      \/ Cardinality({query(r, j) : j \in 1..(i - 1)} \ {<<>>}) >= 3
                      \/ Contains(Plan(r), query(r, i))
                 /\ req[r].intent.series # Absent => Contains(Plan(r), <<req[r].intent.series>>)
      <4>1. Plan(r) = QueryPlan(req[r].intent)
        BY <2>1, <2>3, <3>1
      <4> QED
        BY <4>1, PlanKnown
    <3> QED
      BY <3>1 DEF FirstThreeKept
  <2> QED
    BY <2>4, <2>5 DEF PlanSound
<1> QED
  BY <1>1, SearchesKeepTheirPlace, PTL

-----------------------------------------------------------------------------
(* What is remembered as empty.                                            *)

Earned(key) ==
  \E r \in Requests :
    /\ req[r].pc = "querying"
    /\ key = Key(r)
    /\ req[r].answers = [i \in 1..Len(Plan(r)) |-> "empty"]

Present == {entries[i] : i \in 1..Len(entries)}

\* The entries are among the present ones, and among any more.
LEMMA PresentTyped ==
  ASSUME Inv, NEW S, Present \subseteq S
  PROVE  entries \in Seq(S)
<1>1. Len(entries) \in Nat /\ entries \in [1..Len(entries) -> Present]
  BY DEF Inv, CacheTyped, Present
<1>2. entries \in [1..Len(entries) -> S]
  BY <1>1
<1> QED
  BY <1>1, <1>2, SeqDef

\* A key becomes negative only with an entry that was not there.
LEMMA OnlyNewNegative ==
  ASSUME Inv, NEW S, entries' \in Seq(S),
         NEW key, key \in NegativeKeys', key \notin NegativeKeys
  PROVE  \E e \in S \ Present : e.value = Nothing /\ key = e.key
<1>1. PICK j \in DOMAIN entries' : entries'[j].value = Nothing /\ key = entries'[j].key
  BY DEF NegativeKeys
<1>2. entries'[j] \in S
  BY <1>1
<1>3. DOMAIN entries = 1..Len(entries)
  BY DEF Inv, CacheTyped
<1>4. entries'[j] \notin Present
  BY <1>1, <1>3 DEF NegativeKeys, Present
<1> QED
  BY <1>1, <1>2, <1>4

\* A request whose every query was answered without results.
LEMMA AllEmpty ==
  ASSUME Inv, NEW r \in Requests, Exhausted(r)
  PROVE  Earned(Key(r))
<1>1. req[r].answers \in Seq({"empty"}) /\ Len(req[r].answers) = Len(Plan(r))
  BY DEF Inv, RequestsFine, Fine, States, Exhausted
<1>2. /\ req[r].answers = [i \in 1..Len(req[r].answers) |-> req[r].answers[i]]
      /\ \A i \in 1..Len(req[r].answers) : req[r].answers[i] = "empty"
  BY <1>1
<1>3. req[r].answers = [i \in 1..Len(Plan(r)) |-> "empty"]
  BY <1>1, <1>2
<1> QED
  BY <1>3 DEF Earned, Exhausted

(* "No result" is remembered for an origin and an intent only by a request *)
(* that this origin answered completely and without results: no failure,   *)
(* cancellation, lookup or eviction by any other request ever makes up a   *)
(* negative entry (_search_origin and the cache it shares).                *)
THEOREM NegativesAreEarned == Spec => NegativeEarned
<1>1. ASSUME Inv, Next, NEW key \in NegativeKeys' \ NegativeKeys
      PROVE  Earned(key)
  <2>1. ~UNCHANGED entries
    BY <1>1 DEF NegativeKeys
  <2>2. PICK r \in Requests : ServeCached(r) \/ OpenSession(r) \/ Found(r) \/ Exhausted(r)
    BY <1>1, <2>1 DEF Next, Step, Tick, Begin, RejectOrigin, ChooseOrigins, EmptyAnswer,
                      QueryFails, SessionCloses, Expire
  <2>3. CASE ServeCached(r) \/ OpenSession(r)
    <3>1. entries' = AfterGet(entries, Key(r), clock)
      BY <2>3 DEF ServeCached, OpenSession
    <3>2. entries' \in Seq(Present)
      BY <1>1, <3>1, PresentTyped, AfterGetTyped
    <3> QED
      BY <1>1, <3>2, OnlyNewNegative
  <2>4. CASE Found(r) \/ Exhausted(r)
    <3>1. PICK value \in {Hits, Nothing} :
            /\ entries' = AfterSet(entries, Key(r), value, clock)
            /\ value = Nothing => Exhausted(r)
      BY <2>4, SearchAssumption DEF Found, Exhausted
    <3> DEFINE e == [key |-> Key(r), value |-> value, expires |-> clock + Lifetime(value)]
               S == Present \union {e}
    <3>2. entries' \in Seq(S)
      BY <1>1, <3>1, PresentTyped, AfterSetTyped
    <3>3. e.key = Key(r) /\ e.value = value /\ S \ Present \subseteq {e}
      OBVIOUS
    <3> HIDE DEF e, S
    <3>4. \E d \in S \ Present : d.value = Nothing /\ key = d.key
      BY <1>1, <3>2, OnlyNewNegative
    <3>5. value = Nothing /\ key = Key(r)
      BY <3>3, <3>4
    <3> QED
      BY <1>1, <3>1, <3>5, AllEmpty
  <2> QED
    BY <2>2, <2>3, <2>4
<1>2. Inv /\ [Next]_vars =>
        [\A key \in NegativeKeys' \ NegativeKeys :
           \E r \in Requests :
             /\ req[r].pc = "querying"
             /\ key = Key(r)
             /\ req[r].answers = [i \in 1..Len(Plan(r)) |-> "empty"]]_vars
  BY <1>1 DEF Earned
<1> QED
  BY <1>2, SearchesKeepTheirPlace, PTL DEF Spec, NegativeEarned
-----------------------------------------------------------------------------
(* The reading of a search page, for any pages, layouts, md5s and texts.   *)
(*                                                                         *)
(* PageInv says of each place in the page what the parser has read up to   *)
(* it: the nesting of tables, the rows that were ended, and, in a row that *)
(* is not damaged, each cell up to the tag.  A nested table ends the row   *)
(* that holds it (Spilled), and a row without its end is read together     *)
(* with the next one, so a row is found where as many rows end (Closed).   *)

Reading == place.row \in 1..Len(page.rows)
Current == page.rows[place.row]

InCell == Reading /\ place.cell \in 1..Len(Current.cells)

\* A place is in the page or behind it; the tags around the cells have one step.
PlaceOK ==
  /\ place \in [row : Nat, cell : Nat, step : Nat]
  /\ place.row <= Len(page.rows) + 3
  /\ Reading => /\ place.cell <= Len(Current.cells) + 1
                /\ place.step \in 1..CellSteps
                /\ place.cell = 0 \/ place.cell > Len(Current.cells) => place.step = 1

Parsers ==
  [found : BOOLEAN, rows : Seq(Seq(Cell)), depth : Nat, row : Seq(Cell) \union {None},
   cell : Cell \union {None}, link : Link \union {None}, small : Nat]

\* A link and small print are in a cell, a cell is in a row.
Tidy(p) ==
  /\ p.cell = None => p.link = None /\ p.small = 0
  /\ p.row = None => p.cell = None

\* The rows up to the i-th whose end the parser has met.
Ended(i) == {j \in 1..i : page.rows[j].damage # "open row"}
Closed(i) == Cardinality(Ended(i))

InNested ==
  /\ Reading /\ Current.damage = "nested"
  /\ place.cell = Current.at /\ place.step \in 9..14

\* The end of the nested row was taken for the end of the row.
Spilled ==
  /\ Reading /\ Current.damage = "nested"
  /\ \/ place.cell > Current.at
     \/ place.cell = Current.at /\ place.step > 13

\* The tables that are open, and the rows that were collected.
Depth ==
  IF place.row = 0 \/ place.row > Len(page.rows) + 1 THEN 0 ELSE IF InNested THEN 2 ELSE 1

Counted ==
  IF place.row = 0 THEN 0
  ELSE IF place.row > Len(page.rows) THEN Closed(Len(page.rows))
  ELSE Closed(place.row - 1) + IF Spilled THEN 1 ELSE 0

\* No cell was begun since the row was, or the last one has ended.
Between ==
  IF Reading
    THEN place.cell = 0 \/ (place.cell = Len(Current.cells) + 1 /\ Current.damage = "open row")
    ELSE TRUE

\* Where a row is open, and where no cell is.
RowStands ==
  /\ Between => parser.cell = None
  /\ place.row = 0 => parser.row = None
  /\ Reading /\ place.cell = 0 /\ (place.row > 1 => page.rows[place.row - 1].damage # "open row")
       => parser.row = None
  /\ Reading /\ place.cell > 0 => (parser.row = None <=> Spilled)

\* What was read of the parts and links of a cell before a step through it.
ReadParts(cell, step) ==
  IF step <= 3 THEN <<>>
  ELSE IF step <= 6 THEN Given(cell.text, [text |-> cell.text, small |-> FALSE])
  ELSE MeantParts(cell)

ReadLinks(cell, step) == IF step <= 4 THEN <<>> ELSE MeantLinks(cell)

\* A cell and a link with what was read of them.
Holding(cell, parts, links) ==
  [tag |-> cell.tag, span |-> cell.span, parts |-> parts, links |-> links]
Linked(href, text) == [href |-> href, text |-> text]

ReadCell(cell, step) ==
  IF step = 1 THEN None
  ELSE Holding(cell, ReadParts(cell, step), ReadLinks(cell, step))

ReadLink(cell, step) ==
  IF cell.href = None \/ step \notin {3, 4} THEN None
  ELSE Linked(cell.href, IF step = 3 THEN <<>> ELSE Given(cell.text, cell.text))

ReadSmall(cell, step) == IF cell.small # None /\ step \in {6, 7} THEN 1 ELSE 0

\* A row that is safe is read cell by cell as it is meant.
SafeRead ==
  place.row \in Safe /\ place.cell > 0 =>
    /\ parser.row = [j \in 1..(place.cell - 1) |-> Meant(Current.cells[j])]
    /\ place.cell <= Len(Current.cells) =>
         /\ parser.cell = ReadCell(Current.cells[place.cell], place.step)
         /\ parser.link = ReadLink(Current.cells[place.cell], place.step)
         /\ parser.small = ReadSmall(Current.cells[place.cell], place.step)

\* Once it was read it is kept among the rows.
SafeKept ==
  \A i \in Safe : i < place.row =>
    Closed(i) \in 1..Len(parser.rows) /\ parser.rows[Closed(i)] = MeantRow(i)

ParserInv ==
  /\ parser \in Parsers /\ Tidy(parser)
  /\ parser.found = (place.row > 0)
  /\ parser.depth = Depth
  /\ Len(parser.rows) = Counted
  /\ RowStands
  /\ SafeRead
  /\ SafeKept

PageInv ==
  /\ page \in Pages
  /\ PlaceOK
  /\ IF page.named THEN ParserInv ELSE parser = NewParser
  /\ result = Unread \/ (Fed /\ result = Outcome(parser))

-----------------------------------------------------------------------------
LEMMA NoneIsNothingElse ==
  /\ None \notin Seq(Cell) /\ None \notin Cell /\ None \notin Link
  /\ None \notin Texts /\ None \notin Hrefs /\ None # "tablelibgen"
  /\ {"inner", "footer"} \subseteq Texts
BY CatalogAssumption DEF Hrefs

(* What each handler does with each tag.                                   *)
LEMMA QuietHandled ==
  ASSUME NEW p, p.depth \in Nat, NEW value
  PROVE  /\ Handle(p, NoToken) = p
         /\ Handle(p, Start("a", value)) =
              IF p.depth > 0 /\ p.cell # None /\ p.link = None
                THEN [p EXCEPT !.link = NewLink(value)] ELSE p
         /\ Handle(p, Start("font", value)) =
              IF p.depth > 0 /\ p.cell # None THEN [p EXCEPT !.small = p.small + 1] ELSE p
         /\ Handle(p, Data(value)) = HandleData(p, value)
         /\ Handle(p, End("a")) =
              IF p.depth > 0 /\ p.link # None /\ p.cell # None
                THEN [p EXCEPT !.cell = [p.cell EXCEPT !.links = Append(p.cell.links, p.link)],
                               !.link = None]
                ELSE p
         /\ Handle(p, End("font")) =
              IF p.depth > 0 /\ p.small > 0 THEN [p EXCEPT !.small = p.small - 1] ELSE p
<1>1. Handle(p, NoToken) = p
  BY DEF Handle, NoToken
<1>2. /\ Handle(p, Start("a", value)) = HandleStart(p, "a", value)
      /\ Handle(p, Start("font", value)) = HandleStart(p, "font", value)
      /\ Handle(p, Data(value)) = HandleData(p, value)
      /\ Handle(p, End("a")) = HandleEnd(p, "a")
      /\ Handle(p, End("font")) = HandleEnd(p, "font")
  BY DEF Handle, Start, Data, End
<1>3. HandleStart(p, "a", value) =
        IF p.depth > 0 /\ p.cell # None /\ p.link = None
          THEN [p EXCEPT !.link = NewLink(value)] ELSE p
  BY DEF HandleStart
<1>4. HandleStart(p, "font", value) =
        IF p.depth > 0 /\ p.cell # None THEN [p EXCEPT !.small = p.small + 1] ELSE p
  BY DEF HandleStart
<1>5. HandleEnd(p, "a") =
        IF p.depth > 0 /\ p.link # None /\ p.cell # None
          THEN [p EXCEPT !.cell = [p.cell EXCEPT !.links = Append(p.cell.links, p.link)],
                         !.link = None]
          ELSE p
  BY DEF HandleEnd
<1>6. HandleEnd(p, "font") =
        IF p.depth > 0 /\ p.small > 0 THEN [p EXCEPT !.small = p.small - 1] ELSE p
  BY DEF HandleEnd
<1> QED
  BY <1>1, <1>2, <1>3, <1>4, <1>5, <1>6

LEMMA TableHandled ==
  ASSUME NEW p, p.depth \in Nat, NEW value, NEW tag \in {"td", "th"}
  PROVE  /\ Handle(p, Start("table", value)) = StartTable(p, value)
         /\ Handle(p, End("table")) = IF p.depth > 0 THEN [p EXCEPT !.depth = p.depth - 1] ELSE p
         /\ Handle(p, Start("tr", value)) =
              IF p.depth > 0 /\ p.row = None THEN [p EXCEPT !.row = <<>>] ELSE p
         /\ Handle(p, End("tr")) = IF p.depth > 0 /\ p.row # None THEN EndRow(p) ELSE p
         /\ Handle(p, Start(tag, value)) =
              IF p.depth > 0 /\ p.row # None /\ p.cell = None
                THEN [p EXCEPT !.cell = NewCell(tag, value)]
                ELSE p
         /\ Handle(p, End(tag)) =
              IF p.depth > 0 /\ p.cell # None /\ p.row # None THEN EndCell(p) ELSE p
<1>1. /\ Handle(p, Start("table", value)) = HandleStart(p, "table", value)
      /\ Handle(p, End("table")) = HandleEnd(p, "table")
      /\ Handle(p, Start("tr", value)) = HandleStart(p, "tr", value)
      /\ Handle(p, End("tr")) = HandleEnd(p, "tr")
      /\ Handle(p, Start(tag, value)) = HandleStart(p, tag, value)
      /\ Handle(p, End(tag)) = HandleEnd(p, tag)
  BY DEF Handle, Start, End
<1>2. HandleStart(p, "table", value) = StartTable(p, value)
  BY DEF HandleStart
<1>3. HandleEnd(p, "table") = IF p.depth > 0 THEN [p EXCEPT !.depth = p.depth - 1] ELSE p
  BY DEF HandleEnd
<1>4. HandleStart(p, "tr", value) = IF p.depth > 0 /\ p.row = None THEN [p EXCEPT !.row = <<>>] ELSE p
  BY DEF HandleStart
<1>5. HandleEnd(p, "tr") = IF p.depth > 0 /\ p.row # None THEN EndRow(p) ELSE p
  BY DEF HandleEnd
<1>6. HandleStart(p, tag, value) =
        IF p.depth > 0 /\ p.row # None /\ p.cell = None
          THEN [p EXCEPT !.cell = NewCell(tag, value)]
          ELSE p
  BY DEF HandleStart
<1>7. HandleEnd(p, tag) = IF p.depth > 0 /\ p.cell # None /\ p.row # None THEN EndCell(p) ELSE p
  BY DEF HandleEnd
<1> QED
  BY <1>1, <1>2, <1>3, <1>4, <1>5, <1>6, <1>7

(* Links, small print and texts change nothing but the cell being read.    *)
Quiet ==
  {NoToken, Start("font", None), End("a"), End("font")}
    \union {Start("a", h) : h \in Hrefs} \union {Data(t) : t \in Texts}

SameRow(p, q) ==
  /\ q \in Parsers /\ Tidy(q)
  /\ q.found = p.found /\ q.rows = p.rows /\ q.depth = p.depth /\ q.row = p.row
  /\ q.cell = None <=> p.cell = None

LEMMA QuietKnown ==
  ASSUME NEW p \in Parsers, Tidy(p), NEW token \in Quiet
  PROVE  SameRow(p, Handle(p, token))
<1>1. p.depth \in Nat /\ p.small \in Nat /\ SameRow(p, p)
  BY DEF Parsers, SameRow
<1>2. CASE token = NoToken
  BY <1>1, <1>2, QuietHandled
<1>3. CASE token = Start("font", None)
  <2>1. SameRow(p, [p EXCEPT !.small = p.small + 1]) \/ p.cell = None
    BY <1>1 DEF Parsers, SameRow, Tidy
  <2> QED
    BY <1>1, <1>3, <2>1, QuietHandled
<1>4. CASE token = End("a")
  <2> DEFINE cell == [p.cell EXCEPT !.links = Append(p.cell.links, p.link)]
  <2>1. ASSUME p.link # None, p.cell # None
        PROVE  SameRow(p, [p EXCEPT !.cell = cell, !.link = None])
    <3>1. p.cell \in Cell /\ p.link \in Link
      BY <2>1 DEF Parsers
    <3>2. cell \in Cell
      <4> DEFINE links == Append(p.cell.links, p.link)
      <4>1. links \in Seq(Link)
        <5>1. p.cell.links \in Seq(Link)
          BY <3>1 DEF Cell
        <5> QED
          BY <3>1, <5>1
      <4> HIDE DEF links
      <4>2. [p.cell EXCEPT !.links = links] \in Cell
        BY <3>1, <4>1 DEF Cell
      <4> QED
        BY <4>2 DEF links
    <3>3. cell # None
      BY <3>2, NoneIsNothingElse
    <3> HIDE DEF cell
    <3> QED
      BY <2>1, <3>2, <3>3 DEF Parsers, SameRow, Tidy
  <2> QED
    BY <1>1, <1>4, <2>1, QuietHandled
<1>5. CASE token = End("font")
  <2>1. ASSUME p.small > 0
        PROVE  SameRow(p, [p EXCEPT !.small = p.small - 1])
    <3>1. p.small - 1 \in Nat /\ p.cell # None
      BY <1>1, <2>1 DEF Tidy
    <3> QED
      BY <2>1, <3>1 DEF Parsers, SameRow, Tidy
  <2> QED
    BY <1>1, <1>5, <2>1, QuietHandled
<1>6. ASSUME NEW h \in Hrefs, token = Start("a", h)
      PROVE  SameRow(p, Handle(p, token))
  <2> DEFINE link == NewLink(h)
  <2>1. link \in Link
    BY DEF Link, NewLink
  <2> HIDE DEF link
  <2>2. SameRow(p, [p EXCEPT !.link = link]) \/ p.cell = None
    BY <1>1, <2>1 DEF Parsers, SameRow, Tidy
  <2>3. Handle(p, token) = IF p.depth > 0 /\ p.cell # None /\ p.link = None
                             THEN [p EXCEPT !.link = link] ELSE p
    BY <1>1, <1>6, QuietHandled DEF link
  <2> QED
    BY <1>1, <2>2, <2>3
<1>7. ASSUME NEW t \in Texts, token = Data(t)
      PROVE  SameRow(p, Handle(p, token))
  <2> DEFINE part == [text |-> t, small |-> p.small > 0]
             cell == [p.cell EXCEPT !.parts = Append(p.cell.parts, part)]
             link == IF p.link = None THEN None
                     ELSE [p.link EXCEPT !.text = Append(p.link.text, t)]
  <2>1. CASE p.cell = None
    BY <1>1, <1>7, <2>1, QuietHandled DEF HandleData
  <2>2. CASE p.cell # None
    <3>1. p.cell \in Cell /\ p.link \in Link \union {None} /\ part \in Part
      BY <2>2 DEF Parsers, Part
    <3>2. cell \in Cell
      <4> DEFINE parts == Append(p.cell.parts, part)
      <4>1. parts \in Seq(Part)
        <5>1. p.cell.parts \in Seq(Part)
          BY <3>1 DEF Cell
        <5> QED
          BY <3>1, <5>1
      <4> HIDE DEF parts
      <4>2. [p.cell EXCEPT !.parts = parts] \in Cell
        BY <3>1, <4>1 DEF Cell
      <4> QED
        BY <4>2 DEF parts
    <3>3. link \in Link \union {None}
      <4> DEFINE text == Append(p.link.text, t)
      <4>1. CASE p.link = None
        BY <4>1
      <4>2. CASE p.link # None
        <5>1. p.link \in Link /\ p.link.text \in Seq(Texts)
          BY <3>1, <4>2 DEF Link
        <5>2. text \in Seq(Texts)
          BY <5>1
        <5> HIDE DEF text
        <5>3. [p.link EXCEPT !.text = text] \in Link
          BY <5>1, <5>2 DEF Link
        <5> QED
          BY <4>2, <5>3 DEF text
      <4> QED
        BY <4>1, <4>2
    <3>4. cell # None
      BY <3>2, NoneIsNothingElse
    <3>5. Handle(p, token) = [p EXCEPT !.cell = cell, !.link = link]
      BY <1>1, <1>7, <2>2, QuietHandled DEF HandleData
    <3> HIDE DEF cell, link
    <3> QED
      BY <2>2, <3>2, <3>3, <3>4, <3>5 DEF Parsers, SameRow, Tidy
  <2> QED
    BY <2>1, <2>2
<1> QED
  BY <1>2, <1>3, <1>4, <1>5, <1>6, <1>7 DEF Quiet

LEMMA TrStarted ==
  ASSUME NEW p \in Parsers, Tidy(p), p.depth > 0,
         NEW q, q = Handle(p, Start("tr", None))
  PROVE  /\ q \in Parsers /\ Tidy(q)
         /\ q.found = p.found /\ q.rows = p.rows /\ q.depth = p.depth
         /\ q.cell = p.cell /\ q.link = p.link /\ q.small = p.small
         /\ q.row # None /\ (p.row = None => q.row = <<>>)
<1>1. p.depth \in Nat /\ p.row \in Seq(Cell) \union {None}
  BY DEF Parsers
<1>2. q = IF p.row = None THEN [p EXCEPT !.row = <<>>] ELSE p
  BY <1>1, TableHandled
<1>3. <<>> \in Seq(Cell) /\ <<>> # None
  <2>1. <<>> \in Seq(Cell)
    OBVIOUS
  <2> QED
    BY <2>1, NoneIsNothingElse
<1>4. CASE p.row = None
  BY <1>2, <1>3, <1>4 DEF Parsers, Tidy
<1>5. CASE p.row # None
  BY <1>2, <1>5
<1> QED
  BY <1>4, <1>5

LEMMA TrEnded ==
  ASSUME NEW p \in Parsers, Tidy(p), p.depth > 0,
         NEW q, q = Handle(p, End("tr"))
  PROVE  /\ q \in Parsers /\ Tidy(q)
         /\ q.found = p.found /\ q.depth = p.depth
         /\ q.rows = IF p.row = None THEN p.rows ELSE Append(p.rows, p.row)
         /\ q.row = None /\ q.cell = None
<1>1. p.depth \in Nat /\ p.row \in Seq(Cell) \union {None} /\ p.rows \in Seq(Seq(Cell))
  BY DEF Parsers
<1>2. q = IF p.row # None THEN EndRow(p) ELSE p
  BY <1>1, TableHandled
<1>3. CASE p.row = None
  BY <1>2, <1>3 DEF Tidy
<1>4. CASE p.row # None
  <2> DEFINE rows == Append(p.rows, p.row)
  <2>1. rows \in Seq(Seq(Cell))
    BY <1>1, <1>4
  <2>2. q = [p EXCEPT !.rows = rows, !.row = None, !.cell = None, !.link = None, !.small = 0]
    BY <1>2, <1>4 DEF EndRow
  <2> HIDE DEF rows
  <2>3. q = [found |-> p.found, rows |-> rows, depth |-> p.depth, row |-> None, cell |-> None,
             link |-> None, small |-> 0]
    BY <2>2 DEF Parsers
  <2>4. q \in Parsers
    BY <2>1, <2>3 DEF Parsers
  <2>5. /\ Tidy(q) /\ q.found = p.found /\ q.depth = p.depth
        /\ q.rows = rows /\ q.row = None /\ q.cell = None
    BY <2>3 DEF Tidy
  <2> QED
    BY <1>4, <2>4, <2>5 DEF rows
<1> QED
  BY <1>3, <1>4

LEMMA TdStarted ==
  ASSUME NEW p \in Parsers, Tidy(p), p.depth > 0, NEW tag \in {"td", "th"}, NEW span \in Nat,
         NEW q, q = Handle(p, Start(tag, span))
  PROVE  /\ q \in Parsers /\ Tidy(q)
         /\ q.found = p.found /\ q.depth = p.depth /\ q.rows = p.rows /\ q.row = p.row
         /\ p.row # None /\ p.cell = None =>
              /\ q.cell = NewCell(tag, span)
              /\ q.link = None /\ q.small = 0
<1> DEFINE cell == NewCell(tag, span)
<1>1. p.depth \in Nat
  BY DEF Parsers
<1>2. q = IF p.row # None /\ p.cell = None THEN [p EXCEPT !.cell = cell] ELSE p
  BY <1>1, TableHandled
<1>3. cell \in Cell
  BY DEF Cell, NewCell
<1>4. cell # None
  BY <1>3, NoneIsNothingElse
<1> HIDE DEF cell
<1>5. CASE p.row # None /\ p.cell = None
  BY <1>2, <1>3, <1>4, <1>5 DEF Parsers, Tidy, cell
<1>6. CASE ~(p.row # None /\ p.cell = None)
  BY <1>2, <1>6
<1> QED
  BY <1>5, <1>6 DEF cell

LEMMA TdEnded ==
  ASSUME NEW p \in Parsers, Tidy(p), p.depth > 0, NEW tag \in {"td", "th"},
         NEW q, q = Handle(p, End(tag))
  PROVE  /\ q \in Parsers /\ Tidy(q)
         /\ q.found = p.found /\ q.depth = p.depth /\ q.rows = p.rows
         /\ q.row = None <=> p.row = None
         /\ q.cell = None
         /\ p.row # None /\ p.cell # None => q.row = Append(p.row, p.cell)
<1> DEFINE row == Append(p.row, p.cell)
<1>1. p.depth \in Nat
  BY DEF Parsers
<1>2. q = IF p.cell # None /\ p.row # None THEN EndCell(p) ELSE p
  BY <1>1, TableHandled
<1>3. CASE p.cell # None /\ p.row # None
  <2>1. p.row \in Seq(Cell) /\ p.cell \in Cell
    BY <1>3 DEF Parsers
  <2>2. row \in Seq(Cell)
    BY <2>1
  <2>3. q = [p EXCEPT !.row = row, !.cell = None, !.link = None, !.small = 0]
    BY <1>2, <1>3 DEF EndCell
  <2> HIDE DEF row
  <2>4. row # None
    BY <2>2, NoneIsNothingElse
  <2>5. q = [found |-> p.found, rows |-> p.rows, depth |-> p.depth, row |-> row, cell |-> None,
             link |-> None, small |-> 0]
    BY <2>3 DEF Parsers
  <2>6. q \in Parsers
    BY <2>2, <2>5 DEF Parsers
  <2>7. /\ Tidy(q) /\ q.found = p.found /\ q.depth = p.depth /\ q.rows = p.rows
        /\ q.row = row /\ q.cell = None
    BY <2>5 DEF Tidy
  <2> QED
    BY <1>3, <2>4, <2>6, <2>7 DEF row
<1>4. CASE ~(p.cell # None /\ p.row # None)
  BY <1>2, <1>4 DEF Tidy
<1> QED
  BY <1>3, <1>4

LEMMA TableCounted ==
  ASSUME NEW p \in Parsers, Tidy(p), p.depth > 0
  PROVE  /\ Handle(p, Start("table", None)) = [p EXCEPT !.depth = p.depth + 1]
         /\ Handle(p, End("table")) = [p EXCEPT !.depth = p.depth - 1]
         /\ [p EXCEPT !.depth = p.depth + 1] \in Parsers
         /\ [p EXCEPT !.depth = p.depth - 1] \in Parsers
         /\ Tidy([p EXCEPT !.depth = p.depth + 1]) /\ Tidy([p EXCEPT !.depth = p.depth - 1])
<1>1. p.depth \in Nat /\ p.depth - 1 \in Nat /\ p.depth + 1 \in Nat
  BY DEF Parsers
<1>2. /\ Handle(p, Start("table", None)) = StartTable(p, None)
      /\ Handle(p, End("table")) = [p EXCEPT !.depth = p.depth - 1]
  BY <1>1, TableHandled
<1>3. StartTable(p, None) = [p EXCEPT !.depth = p.depth + 1]
  BY DEF StartTable
<1>4. /\ [p EXCEPT !.depth = p.depth + 1] \in Parsers
      /\ [p EXCEPT !.depth = p.depth - 1] \in Parsers
  BY <1>1 DEF Parsers
<1>5. Tidy([p EXCEPT !.depth = p.depth + 1]) /\ Tidy([p EXCEPT !.depth = p.depth - 1])
  BY DEF Tidy, Parsers
<1> QED
  BY <1>2, <1>3, <1>4, <1>5

(* Outside of the table nothing is read.                                   *)
LEMMA OutsideNothing ==
  ASSUME NEW p, p.depth = 0, p.cell = None, p.small = 0,
         NEW token,
         \/ token \in Quiet \union {Start("table", None), End("table"), Start("tr", None), End("tr")}
         \/ \E tag \in {"td", "th"}, span \in Nat : token \in {Start(tag, span), End(tag)}
  PROVE  Handle(p, token) = p
<1>1. p.depth \in Nat /\ ~(p.depth > 0)
  OBVIOUS
<1>2. CASE token \in Quiet
  <2>1. CASE token = NoToken
    BY <1>1, <2>1, QuietHandled
  <2>2. CASE token = Start("font", None)
    BY <1>1, <2>2, QuietHandled
  <2>3. CASE token = End("a")
    BY <1>1, <2>3, QuietHandled
  <2>4. CASE token = End("font")
    BY <1>1, <2>4, QuietHandled
  <2>5. ASSUME NEW h \in Hrefs, token = Start("a", h)
        PROVE  Handle(p, token) = p
    BY <1>1, <2>5, QuietHandled
  <2>6. ASSUME NEW t \in Texts, token = Data(t)
        PROVE  Handle(p, token) = p
    BY <1>1, <2>6, QuietHandled DEF HandleData
  <2>7. \/ token \in {NoToken, Start("font", None), End("a"), End("font")}
        \/ \E h \in Hrefs : token = Start("a", h)
        \/ \E t \in Texts : token = Data(t)
    BY <1>2 DEF Quiet
  <2> QED
    BY <2>1, <2>2, <2>3, <2>4, <2>5, <2>6, <2>7
<1>3. CASE token = Start("table", None)
  <2>1. None # "tablelibgen"
    BY NoneIsNothingElse
  <2>2. StartTable(p, None) = p
    BY <1>1, <2>1 DEF StartTable
  <2> QED
    BY <1>1, <1>3, <2>2, TableHandled
<1>4. CASE token = End("table")
  BY <1>1, <1>4, TableHandled
<1>5. CASE token = Start("tr", None)
  BY <1>1, <1>5, TableHandled
<1>6. CASE token = End("tr")
  BY <1>1, <1>6, TableHandled
<1>7. ASSUME NEW tag \in {"td", "th"}, NEW span \in Nat, token = Start(tag, span)
      PROVE  Handle(p, token) = p
  BY <1>1, <1>7, TableHandled
<1>8. ASSUME NEW tag \in {"td", "th"}, token = End(tag)
      PROVE  Handle(p, token) = p
  BY <1>1, <1>8, TableHandled
<1> QED
  BY <1>2, <1>3, <1>4, <1>5, <1>6, <1>7, <1>8

-----------------------------------------------------------------------------
(* The rows of a page and how many of them were ended.                     *)
LEMMA RowsKnown ==
  ASSUME page \in Pages
  PROVE  /\ page.named \in BOOLEAN /\ page.rows \in Seq(SourceRow) /\ Len(page.rows) \in Nat
         /\ DOMAIN page.rows = 1..Len(page.rows)
         /\ \A r \in 1..Len(page.rows) :
              /\ page.rows[r].cells \in Seq(SourceCell) /\ Len(page.rows[r].cells) \in Nat
              /\ DOMAIN page.rows[r].cells = 1..Len(page.rows[r].cells)
              /\ page.rows[r].damage \in Damages /\ page.rows[r].at \in Nat \ {0}
              /\ \A j \in 1..Len(page.rows[r].cells) : page.rows[r].cells[j] \in SourceCell
<1>1. page \in SourceTable
  BY CatalogAssumption
<1>2. page.named \in BOOLEAN /\ page.rows \in Seq(SourceRow)
  BY <1>1 DEF SourceTable
<1>3. Len(page.rows) \in Nat /\ DOMAIN page.rows = 1..Len(page.rows)
  BY <1>2
<1>4. ASSUME NEW r \in 1..Len(page.rows)
      PROVE  /\ page.rows[r].cells \in Seq(SourceCell) /\ Len(page.rows[r].cells) \in Nat
             /\ DOMAIN page.rows[r].cells = 1..Len(page.rows[r].cells)
             /\ page.rows[r].damage \in Damages /\ page.rows[r].at \in Nat \ {0}
             /\ \A j \in 1..Len(page.rows[r].cells) : page.rows[r].cells[j] \in SourceCell
  <2>1. page.rows[r] \in SourceRow
    BY <1>2, <1>4
  <2>2. /\ page.rows[r].cells \in Seq(SourceCell)
        /\ page.rows[r].damage \in Damages /\ page.rows[r].at \in Nat \ {0}
    BY <2>1 DEF SourceRow
  <2> QED
    BY <2>2
<1> QED
  BY <1>2, <1>3, <1>4

LEMMA ClosedKnown ==
  ASSUME page \in Pages
  PROVE  LET n == Len(page.rows) IN
         /\ Closed(0) = 0
         /\ \A i \in 0..n : Closed(i) \in Nat
         /\ \A i \in 1..n : Closed(i) = Closed(i - 1) + IF page.rows[i].damage = "open row" THEN 0 ELSE 1
         /\ \A i, j \in 1..n : i < j /\ page.rows[j].damage # "open row" => Closed(i) < Closed(j)
         /\ (\A i \in 1..n : page.rows[i].damage # "open row") => \A i \in 0..n : Closed(i) = i
<1> DEFINE n == Len(page.rows)
<1>1. n \in Nat
  BY RowsKnown
<1> HIDE DEF n
<1>2. ASSUME NEW i \in 0..n
      PROVE  IsFiniteSet(Ended(i)) /\ Closed(i) \in Nat
  <2>1. IsFiniteSet(1..i)
    BY <1>1, FS_Interval
  <2>2. Ended(i) \subseteq 1..i
    BY DEF Ended
  <2>3. IsFiniteSet(Ended(i))
    BY <2>1, <2>2, FS_Subset
  <2> QED
    BY <2>3, FS_CardinalityType DEF Closed
<1>3. Closed(0) = 0
  <2>1. Ended(0) = {}
    BY DEF Ended
  <2> QED
    BY <2>1, FS_EmptySet DEF Closed
<1>4. ASSUME NEW i \in 1..n
      PROVE  Closed(i) = Closed(i - 1) + IF page.rows[i].damage = "open row" THEN 0 ELSE 1
  <2>1. i - 1 \in 0..n /\ 1..i = 1..(i - 1) \union {i} /\ i \notin 1..(i - 1)
    BY <1>1
  <2>2. CASE page.rows[i].damage = "open row"
    <3>1. Ended(i) = Ended(i - 1)
      BY <2>1, <2>2 DEF Ended
    <3>2. Closed(i - 1) \in Nat
      BY <1>2, <2>1
    <3>3. Closed(i) = Closed(i - 1)
      BY <3>1 DEF Closed
    <3>4. Closed(i) = Closed(i - 1) + 0
      BY <3>2, <3>3
    <3> QED
      BY <2>2, <3>4
  <2>3. CASE page.rows[i].damage # "open row"
    <3>1. Ended(i) = Ended(i - 1) \union {i} /\ i \notin Ended(i - 1)
      BY <2>1, <2>3 DEF Ended
    <3>2. IsFiniteSet(Ended(i - 1))
      BY <1>2, <2>1
    <3>3. Cardinality(Ended(i - 1) \union {i}) = Cardinality(Ended(i - 1)) + 1
      BY <3>1, <3>2, FS_AddElement
    <3> QED
      BY <2>3, <3>1, <3>3 DEF Closed
  <2> QED
    BY <2>2, <2>3
<1>5. ASSUME NEW i \in 1..n, NEW j \in 1..n, i < j, page.rows[j].damage # "open row"
      PROVE  Closed(i) < Closed(j)
  <2>1. j - 1 \in 0..n /\ i \in 0..n
    BY <1>1
  <2>2. Ended(i) \subseteq Ended(j - 1)
    <3>1. i \in Nat /\ j \in Nat
      BY <1>1
    <3>2. i < j
      BY <1>5
    <3>3. \A k \in 1..i : k \in 1..(j - 1)
      BY ONLY <3>1, <3>2
    <3> QED
      BY <3>3 DEF Ended
  <2>3. Closed(i) <= Closed(j - 1)
    BY <1>2, <2>1, <2>2, FS_Subset DEF Closed
  <2>4. Closed(j) = Closed(j - 1) + 1
    BY <1>4, <1>5
  <2>5. Closed(i) \in Nat /\ Closed(j - 1) \in Nat
    BY <1>2, <2>1
  <2> QED
    BY <2>3, <2>4, <2>5
<1>6. ASSUME \A i \in 1..n : page.rows[i].damage # "open row", NEW i \in 0..n
      PROVE  Closed(i) = i
  <2>1. Ended(i) = 1..i
    <3>1. \A k \in 1..i : k \in 1..n
      BY <1>1
    <3> QED
      BY <1>6, <3>1 DEF Ended
  <2>2. Cardinality(1..i) = i
    BY <1>1, FS_Interval
  <2> QED
    BY <2>1, <2>2 DEF Closed
<1> QED
  BY <1>2, <1>3, <1>4, <1>5, <1>6 DEF n

(* What is fed at each place, and what comes after it.                     *)
LEMMA TokensPlaced ==
  ASSUME page \in Pages, PlaceOK, ~Fed
  PROVE  LET n == Len(page.rows)
             m == Len(Current.cells)
             token == Token(page, place) IN
         /\ After(page, place) \in [row : Nat, cell : Nat, step : Nat]
         /\ place.row = 0 =>
              /\ token = Start("table", IF page.named THEN "tablelibgen" ELSE None)
              /\ After(page, place) = Beginning(1)
         /\ place.row = n + 1 => token = End("table") /\ After(page, place) = Beginning(n + 2)
         /\ place.row = n + 2 => token = Data("footer") /\ After(page, place) = Beginning(n + 3)
         /\ place.row = 0 \/ Reading \/ place.row \in {n + 1, n + 2}
         /\ Reading /\ place.cell = 0 =>
              token = Start("tr", None) /\ After(page, place) = [row |-> place.row, cell |-> 1, step |-> 1]
         /\ Reading /\ place.cell > m =>
              /\ token = If(Current.damage # "open row", End("tr"))
              /\ After(page, place) = Beginning(place.row + 1)
         /\ InCell =>
              /\ token = CellToken(Current, place.cell, place.step)
              /\ place.step < 15 =>
                   After(page, place) = [row |-> place.row, cell |-> place.cell, step |-> place.step + 1]
              /\ place.step = 15 =>
                   After(page, place) = [row |-> place.row, cell |-> place.cell + 1, step |-> 1]
         /\ Reading => place.cell = 0 \/ InCell \/ place.cell > m
<1> DEFINE n == Len(page.rows)
           m == Len(Current.cells)
           token == Token(page, place)
<1>1. /\ n \in Nat /\ place.row \in Nat /\ place.cell \in Nat /\ place.step \in Nat
      /\ Reading => m \in Nat
  BY RowsKnown DEF PlaceOK, Reading, Current
<1>2. Reading <=> place.row \in 1..n
  BY DEF Reading
<1>3. place.row <= n + 2
  BY <1>1 DEF Fed
<1> HIDE DEF n
<1>4. place.row = 0 \/ Reading \/ place.row \in {n + 1, n + 2}
  BY <1>1, <1>2, <1>3
<1>5. /\ place.row = 0 => token = Start("table", IF page.named THEN "tablelibgen" ELSE None)
      /\ place.row = n + 1 => token = End("table")
      /\ place.row = n + 2 => token = Data("footer")
      /\ Reading => token = RowToken(Current, place.cell, place.step)
  BY <1>1, <1>2 DEF Token, Current, n
<1>6. /\ place.row = 0 => After(page, place) = Beginning(1)
      /\ place.row = n + 1 => After(page, place) = Beginning(n + 2)
      /\ place.row = n + 2 => After(page, place) = Beginning(n + 3)
  BY <1>1 DEF After, n
<1>7. ASSUME Reading
      PROVE  /\ place.cell > m => After(page, place) = Beginning(place.row + 1)
             /\ place.cell = 0 => After(page, place) = [row |-> place.row, cell |-> 1, step |-> 1]
             /\ place.cell \in 1..m /\ place.step < 15 =>
                  After(page, place) = [row |-> place.row, cell |-> place.cell, step |-> place.step + 1]
             /\ place.cell \in 1..m /\ place.step = 15 =>
                  After(page, place) = [row |-> place.row, cell |-> place.cell + 1, step |-> 1]
  <2>1. /\ After(page, place) =
              IF place.cell > m THEN Beginning(place.row + 1)
              ELSE IF place.cell = 0 \/ place.step = 15
                     THEN [row |-> place.row, cell |-> place.cell + 1, step |-> 1]
              ELSE [row |-> place.row, cell |-> place.cell, step |-> place.step + 1]
    BY <1>2, <1>7 DEF After, n, Current, CellSteps
  <2>2. m \in Nat /\ place.cell \in Nat /\ place.step \in Nat
    BY <1>1, <1>7
  <2> HIDE DEF m
  <2>3. place.cell = 0 => ~(place.cell > m) /\ place.cell + 1 = 1
    BY <2>2
  <2>4. place.cell \in 1..m => ~(place.cell > m) /\ place.cell # 0
    BY <2>2
  <2>5. place.step < 15 => place.step # 15
    BY <2>2
  <2> QED
    BY <2>1, <2>3, <2>4, <2>5
<1>8. ASSUME Reading
      PROVE  /\ place.cell = 0 => token = Start("tr", None)
             /\ place.cell > m => token = If(Current.damage # "open row", End("tr"))
             /\ place.cell \in 1..m => token = CellToken(Current, place.cell, place.step)
             /\ place.cell = 0 \/ place.cell \in 1..m \/ place.cell > m
  <2>1. token = IF place.cell = 0 THEN Start("tr", None)
                ELSE IF place.cell > m THEN If(Current.damage # "open row", End("tr"))
                ELSE CellToken(Current, place.cell, place.step)
    BY <1>5, <1>8 DEF RowToken
  <2>2. m \in Nat /\ place.cell \in Nat
    BY <1>1, <1>8
  <2> HIDE DEF m, token
  <2>3. /\ place.cell > m => place.cell # 0
        /\ place.cell \in 1..m => ~(place.cell > m) /\ place.cell # 0
        /\ place.cell = 0 \/ place.cell \in 1..m \/ place.cell > m
    BY <2>2
  <2> QED
    BY <2>1, <2>3
<1>9. After(page, place) \in [row : Nat, cell : Nat, step : Nat]
  BY <1>1 DEF After, Beginning
<1>10. InCell <=> Reading /\ place.cell \in 1..m
  BY DEF InCell
<1> HIDE DEF m, token
<1> QED
  BY <1>4, <1>5, <1>6, <1>7, <1>8, <1>9, <1>10 DEF n, m, token

LEMMA PlaceStep ==
  ASSUME page \in Pages, PlaceOK, ~Fed, page' = page, place' = After(page, place)
  PROVE  PlaceOK'
<1> DEFINE n == Len(page.rows)
           m == Len(Current.cells)
<1>1. /\ n \in Nat /\ place.row \in Nat /\ place.cell \in Nat /\ place.step \in Nat
      /\ Reading => m \in Nat
      /\ \A r \in 1..n : Len(page.rows[r].cells) \in Nat
  BY RowsKnown DEF PlaceOK, Reading, Current
<1>2. Len(page.rows)' = n /\ (Reading' <=> place'.row \in 1..n)
      /\ (place'.row = place.row => Current' = Current)
      /\ Current' = page.rows[place'.row]
  BY DEF Reading, Current
<1>3. place' \in [row : Nat, cell : Nat, step : Nat]
  BY TokensPlaced
<1>4. CASE \E r \in 1..(n + 3) : place' = Beginning(r)
  BY <1>1, <1>2, <1>3, <1>4 DEF PlaceOK, Beginning, CellSteps
<1>5. CASE Reading /\ place.cell = 0
  <2>1. place' = [row |-> place.row, cell |-> 1, step |-> 1]
    BY <1>5, TokensPlaced
  <2> QED
    BY <1>1, <1>2, <1>3, <1>5, <2>1 DEF PlaceOK, Reading, CellSteps
<1>6. CASE InCell
  <2>1. place.step \in 1..15 /\ Reading /\ place.cell \in 1..m
    BY <1>6 DEF PlaceOK, CellSteps, InCell
  <2>2. CASE place.step < 15
    <3>1. place' = [row |-> place.row, cell |-> place.cell, step |-> place.step + 1]
      BY <1>6, <2>2, TokensPlaced
    <3>2. /\ place'.row = place.row /\ place'.cell = place.cell /\ place'.step = place.step + 1
          /\ place.cell # 0 /\ ~(place.cell > m)
      BY <1>1, <2>1, <3>1
    <3>3. Reading' /\ Current' = Current
      BY <1>2, <2>1, <3>2 DEF Reading
    <3>4. place.row <= n + 3 /\ place.cell <= m + 1
      BY <2>1 DEF PlaceOK
    <3>5. place.step + 1 \in 1..15
      <4>1. \A s \in 1..15 : s < 15 => s + 1 \in 1..15
        OBVIOUS
      <4>2. place.step \in 1..15
        BY <2>1
      <4> QED
        BY <2>2, <4>1, <4>2
    <3> QED
      BY <1>2, <1>3, <3>2, <3>3, <3>4, <3>5 DEF PlaceOK, CellSteps
  <2>3. CASE place.step = 15
    <3>1. place' = [row |-> place.row, cell |-> place.cell + 1, step |-> 1]
      BY <1>6, <2>3, TokensPlaced
    <3>2. place'.row = place.row /\ place'.cell = place.cell + 1 /\ place'.step = 1
      BY <3>1
    <3>3. /\ 1 \in 1..15 /\ place.cell + 1 # 0 /\ place.cell + 1 <= m + 1
          /\ place.row \in 1..n /\ place.row <= n + 3
      BY <1>1, <2>1 DEF Reading
    <3>4. Reading' /\ Current' = Current
      BY <1>2, <3>2, <3>3
    <3> HIDE DEF n, m
    <3> QED
      BY <1>2, <1>3, <3>2, <3>3, <3>4 DEF PlaceOK, CellSteps, m, n
  <2> QED
    BY <2>1, <2>2, <2>3
<1>7. \/ \E r \in 1..(n + 3) : place' = Beginning(r)
      \/ Reading /\ place.cell = 0
      \/ InCell
  <2>1. CASE place.row = 0 \/ place.row = n + 1 \/ place.row = n + 2
    <3>1. 1 \in 1..(n + 3) /\ n + 2 \in 1..(n + 3) /\ n + 3 \in 1..(n + 3)
      BY <1>1
    <3>2. place' = Beginning(1) \/ place' = Beginning(n + 2) \/ place' = Beginning(n + 3)
      BY <2>1, TokensPlaced
    <3> QED
      BY <3>1, <3>2
  <2>2. CASE Reading /\ place.cell > m
    <3>1. place' = Beginning(place.row + 1)
      BY <2>2, TokensPlaced
    <3>2. place.row + 1 \in 1..(n + 3)
      BY <1>1, <2>2 DEF Reading
    <3> QED
      BY <3>1, <3>2
  <2>3. place.row = 0 \/ Reading \/ place.row = n + 1 \/ place.row = n + 2
    BY TokensPlaced
  <2>4. Reading => place.cell = 0 \/ InCell \/ place.cell > m
    BY TokensPlaced
  <2> QED
    BY <2>1, <2>2, <2>3, <2>4
<1> QED
  BY <1>4, <1>5, <1>6, <1>7

Harmed(row, number, damage) == number = row.at /\ row.damage = damage

LEMMA CellTokens ==
  ASSUME NEW row, NEW number
  PROVE  LET cell == row.cells[number] IN
         /\ CellToken(row, number, 1) = Start(cell.tag, cell.span)
         /\ CellToken(row, number, 2) = If(cell.href # None, Start("a", cell.href))
         /\ CellToken(row, number, 3) = If(cell.text # None, Data(cell.text))
         /\ CellToken(row, number, 4) = If(cell.href # None /\ ~Harmed(row, number, "open link"), End("a"))
         /\ CellToken(row, number, 5) = If(cell.small # None, Start("font", None))
         /\ CellToken(row, number, 6) = If(cell.small # None, Data(cell.small))
         /\ CellToken(row, number, 7) = If(cell.small # None /\ ~Harmed(row, number, "open small"), End("font"))
         /\ CellToken(row, number, 8) = If(Harmed(row, number, "nested"), Start("table", None))
         /\ CellToken(row, number, 9) = If(Harmed(row, number, "nested"), Start("tr", None))
         /\ CellToken(row, number, 10) = If(Harmed(row, number, "nested"), Start("td", 1))
         /\ CellToken(row, number, 11) = If(Harmed(row, number, "nested"), Data("inner"))
         /\ CellToken(row, number, 12) = If(Harmed(row, number, "nested"), End("td"))
         /\ CellToken(row, number, 13) = If(Harmed(row, number, "nested"), End("tr"))
         /\ CellToken(row, number, 14) = If(Harmed(row, number, "nested"), End("table"))
         /\ CellToken(row, number, 15) = If(~Harmed(row, number, "open cell"), End(cell.tag))
<1> DEFINE cell == row.cells[number]
           damage == IF number = row.at THEN row.damage ELSE Intact
<1>1. \A d \in {"nested", "open cell", "open link", "open small"} : damage = d <=> Harmed(row, number, d)
  BY DEF Intact, Harmed
<1>2. /\ CellToken(row, number, 1) = Start(cell.tag, cell.span)
      /\ CellToken(row, number, 2) = If(cell.href # None, Start("a", cell.href))
      /\ CellToken(row, number, 3) = If(cell.text # None, Data(cell.text))
      /\ CellToken(row, number, 4) = If(cell.href # None /\ damage # "open link", End("a"))
      /\ CellToken(row, number, 5) = If(cell.small # None, Start("font", None))
      /\ CellToken(row, number, 6) = If(cell.small # None, Data(cell.small))
      /\ CellToken(row, number, 7) = If(cell.small # None /\ damage # "open small", End("font"))
      /\ CellToken(row, number, 15) = If(damage # "open cell", End(cell.tag))
  BY DEF CellToken
<1>4. /\ NestedTable[1] = Start("table", None) /\ NestedTable[2] = Start("tr", None)
      /\ NestedTable[3] = Start("td", 1) /\ NestedTable[4] = Data("inner")
      /\ NestedTable[5] = End("td") /\ NestedTable[6] = End("tr") /\ NestedTable[7] = End("table")
  BY DEF NestedTable
<1>5. /\ CellToken(row, number, 8) = If(damage = "nested", NestedTable[1])
      /\ CellToken(row, number, 9) = If(damage = "nested", NestedTable[2])
      /\ CellToken(row, number, 10) = If(damage = "nested", NestedTable[3])
      /\ CellToken(row, number, 11) = If(damage = "nested", NestedTable[4])
      /\ CellToken(row, number, 12) = If(damage = "nested", NestedTable[5])
      /\ CellToken(row, number, 13) = If(damage = "nested", NestedTable[6])
      /\ CellToken(row, number, 14) = If(damage = "nested", NestedTable[7])
  BY DEF CellToken
<1> HIDE DEF damage
<1>6. \A token : /\ If(damage = "nested", token) = If(Harmed(row, number, "nested"), token)
                  /\ If(damage # "open cell", token) = If(~Harmed(row, number, "open cell"), token)
                  /\ If(cell.href # None /\ damage # "open link", token) =
                       If(cell.href # None /\ ~Harmed(row, number, "open link"), token)
                  /\ If(cell.small # None /\ damage # "open small", token) =
                       If(cell.small # None /\ ~Harmed(row, number, "open small"), token)
  BY <1>1 DEF If
<1> HIDE DEF cell
<1>7. /\ CellToken(row, number, 4) = If(cell.href # None /\ ~Harmed(row, number, "open link"), End("a"))
      /\ CellToken(row, number, 7) =
           If(cell.small # None /\ ~Harmed(row, number, "open small"), End("font"))
      /\ CellToken(row, number, 15) = If(~Harmed(row, number, "open cell"), End(cell.tag))
  BY <1>2, <1>6
<1>8. /\ CellToken(row, number, 8) = If(damage = "nested", Start("table", None))
      /\ CellToken(row, number, 9) = If(damage = "nested", Start("tr", None))
      /\ CellToken(row, number, 10) = If(damage = "nested", Start("td", 1))
      /\ CellToken(row, number, 11) = If(damage = "nested", Data("inner"))
      /\ CellToken(row, number, 12) = If(damage = "nested", End("td"))
      /\ CellToken(row, number, 13) = If(damage = "nested", End("tr"))
      /\ CellToken(row, number, 14) = If(damage = "nested", End("table"))
  BY <1>4, <1>5
<1>9. /\ CellToken(row, number, 8) = If(Harmed(row, number, "nested"), Start("table", None))
      /\ CellToken(row, number, 9) = If(Harmed(row, number, "nested"), Start("tr", None))
      /\ CellToken(row, number, 10) = If(Harmed(row, number, "nested"), Start("td", 1))
      /\ CellToken(row, number, 11) = If(Harmed(row, number, "nested"), Data("inner"))
      /\ CellToken(row, number, 12) = If(Harmed(row, number, "nested"), End("td"))
      /\ CellToken(row, number, 13) = If(Harmed(row, number, "nested"), End("tr"))
      /\ CellToken(row, number, 14) = If(Harmed(row, number, "nested"), End("table"))
  BY <1>6, <1>8
<1> QED
  BY <1>2, <1>7, <1>9 DEF cell

CellRead(row, number, step, p, q) ==
  /\ q \in Parsers /\ Tidy(q) /\ q.found = p.found
  /\ q.depth = IF Harmed(row, number, "nested") /\ step = 8 THEN p.depth + 1
               ELSE IF Harmed(row, number, "nested") /\ step = 14 THEN p.depth - 1
               ELSE p.depth
  /\ q.rows = IF Harmed(row, number, "nested") /\ step = 13 THEN Append(p.rows, p.row)
              ELSE p.rows
  /\ q.row = None <=> p.row = None \/ (Harmed(row, number, "nested") /\ step = 13)
  /\ step = 15 /\ ~Harmed(row, number, "open cell") => q.cell = None

(* Whatever a cell holds, it leaves the rows alone unless it has a table.  *)
LEMMA CellFed ==
  ASSUME NEW row, NEW number, row.cells[number] \in SourceCell, NEW step \in 1..15,
         NEW p \in Parsers, Tidy(p), p.depth > 0,
         Harmed(row, number, "nested") /\ step <= 13 => p.row # None,
         NEW q, q = Handle(p, CellToken(row, number, step))
  PROVE  CellRead(row, number, step, p, q)
<1> DEFINE cell == row.cells[number]
           token == CellToken(row, number, step)
<1> SUFFICES /\ q \in Parsers /\ Tidy(q) /\ q.found = p.found
             /\ q.depth = IF Harmed(row, number, "nested") /\ step = 8 THEN p.depth + 1
                          ELSE IF Harmed(row, number, "nested") /\ step = 14 THEN p.depth - 1
                          ELSE p.depth
             /\ q.rows = IF Harmed(row, number, "nested") /\ step = 13 THEN Append(p.rows, p.row)
                         ELSE p.rows
             /\ q.row = None <=> p.row = None \/ (Harmed(row, number, "nested") /\ step = 13)
             /\ step = 15 /\ ~Harmed(row, number, "open cell") => q.cell = None
  BY DEF CellRead
<1>1. /\ cell.tag \in {"td", "th"} /\ cell.span \in Nat
      /\ cell.text # None => cell.text \in Texts
      /\ cell.small # None => cell.small \in Texts
      /\ cell.href # None => cell.href \in Hrefs
  BY DEF SourceCell
<1>0. /\ CellToken(row, number, 1) = Start(cell.tag, cell.span)
      /\ CellToken(row, number, 2) = If(cell.href # None, Start("a", cell.href))
      /\ CellToken(row, number, 3) = If(cell.text # None, Data(cell.text))
      /\ CellToken(row, number, 4) = If(cell.href # None /\ ~Harmed(row, number, "open link"), End("a"))
      /\ CellToken(row, number, 5) = If(cell.small # None, Start("font", None))
      /\ CellToken(row, number, 6) = If(cell.small # None, Data(cell.small))
      /\ CellToken(row, number, 7) = If(cell.small # None /\ ~Harmed(row, number, "open small"), End("font"))
      /\ CellToken(row, number, 8) = If(Harmed(row, number, "nested"), Start("table", None))
      /\ CellToken(row, number, 9) = If(Harmed(row, number, "nested"), Start("tr", None))
      /\ CellToken(row, number, 10) = If(Harmed(row, number, "nested"), Start("td", 1))
      /\ CellToken(row, number, 11) = If(Harmed(row, number, "nested"), Data("inner"))
      /\ CellToken(row, number, 12) = If(Harmed(row, number, "nested"), End("td"))
      /\ CellToken(row, number, 13) = If(Harmed(row, number, "nested"), End("tr"))
      /\ CellToken(row, number, 14) = If(Harmed(row, number, "nested"), End("table"))
      /\ CellToken(row, number, 15) = If(~Harmed(row, number, "open cell"), End(cell.tag))
  BY ONLY CellTokens
<1>2. p.depth \in Nat
  BY DEF Parsers
<1>3. ASSUME token \in Quiet
      PROVE  /\ q \in Parsers /\ Tidy(q) /\ q.found = p.found /\ q.depth = p.depth
             /\ q.rows = p.rows /\ q.row = p.row
  <2>1. SameRow(p, q)
    BY <1>3, QuietKnown
  <2> QED
    BY <2>1 DEF SameRow
<1>4. CASE step = 1
  <2>1. token = Start(cell.tag, cell.span)
    BY <1>0, <1>4
  <2>2. /\ q \in Parsers /\ Tidy(q) /\ q.found = p.found /\ q.depth = p.depth
        /\ q.rows = p.rows /\ q.row = p.row
    <3>1. cell.tag \in {"td", "th"} /\ cell.span \in Nat /\ q = Handle(p, Start(cell.tag, cell.span))
      BY <1>1, <2>1
    <3>2. p \in Parsers /\ Tidy(p) /\ p.depth > 0
      OBVIOUS
    <3> QED
      BY ONLY <3>1, <3>2, TdStarted
  <2>3. step # 8 /\ step # 13 /\ step # 14 /\ step # 15
    BY <1>4
  <2> QED
    BY <2>2, <2>3
<1>5. CASE step \in 2..7
  <2>1. token = NoToken \/ token \in {Start("font", None), End("a"), End("font")}
          \/ (\E h \in Hrefs : token = Start("a", h)) \/ (\E t \in Texts : token = Data(t))
    <3>1. CASE step = 2
      <4>1. token = If(cell.href # None, Start("a", cell.href))
        BY <1>0, <3>1
      <4> QED
        BY <1>1, <4>1 DEF If
    <3>2. CASE step = 3
      <4>1. token = If(cell.text # None, Data(cell.text))
        BY <1>0, <3>2
      <4> QED
        BY <1>1, <4>1 DEF If
    <3>3. CASE step = 4
      <4>1. \E b \in BOOLEAN : token = If(b, End("a"))
        BY <1>0, <3>3
      <4> QED
        BY <4>1 DEF If
    <3>4. CASE step = 5
      <4>1. token = If(cell.small # None, Start("font", None))
        BY <1>0, <3>4
      <4> QED
        BY <4>1 DEF If
    <3>5. CASE step = 6
      <4>1. token = If(cell.small # None, Data(cell.small))
        BY <1>0, <3>5
      <4> QED
        BY <1>1, <4>1 DEF If
    <3>6. CASE step = 7
      <4>1. \E b \in BOOLEAN : token = If(b, End("font"))
        BY <1>0, <3>6
      <4> QED
        BY <4>1 DEF If
    <3> QED
      BY <1>5, <3>1, <3>2, <3>3, <3>4, <3>5, <3>6
  <2>2. token \in Quiet
    BY <2>1 DEF Quiet
  <2>3. step # 8 /\ step # 13 /\ step # 14 /\ step # 15
    BY <1>5
  <2> QED
    BY <1>3, <2>2, <2>3
<1>6. CASE step \in 8..14 /\ ~Harmed(row, number, "nested")
  <2>1. token = NoToken
    <3>1. \E other : token = If(Harmed(row, number, "nested"), other)
      <4> HIDE DEF token
      <4>1. step \in {8, 9, 10, 11, 12, 13, 14}
        BY <1>6
      <4> QED
        BY <1>0, <4>1 DEF token
    <3> QED
      BY <1>6, <3>1 DEF If
  <2>2. token \in Quiet
    BY <2>1 DEF Quiet
  <2>3. step # 15
    BY <1>6
  <2> QED
    BY <1>3, <1>6, <2>2, <2>3
<1>7. CASE step \in 8..14 /\ Harmed(row, number, "nested")
  <2>1. /\ step = 8 => token = Start("table", None)
        /\ step = 9 => token = Start("tr", None)
        /\ step = 10 => token = Start("td", 1)
        /\ step = 11 => token = Data("inner")
        /\ step = 12 => token = End("td")
        /\ step = 13 => token = End("tr")
        /\ step = 14 => token = End("table")
    BY <1>0, <1>7 DEF If
  <2>2. CASE step = 8
    <3>1. q = [p EXCEPT !.depth = p.depth + 1] /\ q \in Parsers /\ Tidy(q)
      BY <2>1, <2>2, TableCounted
    <3>2. /\ q.found = p.found /\ q.rows = p.rows /\ q.row = p.row
          /\ q.depth = p.depth + 1
      BY <3>1 DEF Parsers
    <3> QED
      BY <1>7, <2>2, <3>1, <3>2
  <2>3. CASE step = 9
    <3>1. /\ q \in Parsers /\ Tidy(q) /\ q.found = p.found /\ q.rows = p.rows
          /\ q.depth = p.depth /\ q.row # None
      BY <2>1, <2>3, TrStarted
    <3>2. p.row # None
      BY <1>7, <2>3
    <3> QED
      BY <1>7, <2>3, <3>1, <3>2
  <2>4. CASE step = 10
    <3>1. /\ q \in Parsers /\ Tidy(q) /\ q.found = p.found /\ q.depth = p.depth
          /\ q.rows = p.rows /\ q.row = p.row
      <4>1. q = Handle(p, Start("td", 1)) /\ "td" \in {"td", "th"} /\ 1 \in Nat
        BY <2>1, <2>4
      <4>2. p \in Parsers /\ Tidy(p) /\ p.depth > 0
        OBVIOUS
      <4> QED
        BY ONLY <4>1, <4>2, TdStarted
    <3> QED
      BY <1>7, <2>4, <3>1
  <2>5. CASE step = 11
    <3>1. token \in Quiet
      BY <2>1, <2>5, NoneIsNothingElse DEF Quiet
    <3>2. step # 8 /\ step # 13 /\ step # 14 /\ step # 15
      BY <2>5
    <3> QED
      BY <1>3, <3>1, <3>2
  <2>6. CASE step = 12
    <3>1. /\ q \in Parsers /\ Tidy(q) /\ q.found = p.found /\ q.depth = p.depth
          /\ q.rows = p.rows /\ (q.row = None <=> p.row = None)
      BY <2>1, <2>6, TdEnded
    <3> QED
      BY <1>7, <2>6, <3>1
  <2>7. CASE step = 13
    <3>1. /\ q \in Parsers /\ Tidy(q) /\ q.found = p.found /\ q.depth = p.depth
          /\ q.rows = IF p.row = None THEN p.rows ELSE Append(p.rows, p.row)
          /\ q.row = None
      BY <2>1, <2>7, TrEnded
    <3>2. p.row # None
      BY <1>7, <2>7
    <3> QED
      BY <1>7, <2>7, <3>1, <3>2
  <2>8. CASE step = 14
    <3>1. q = [p EXCEPT !.depth = p.depth - 1] /\ q \in Parsers /\ Tidy(q)
      BY <2>1, <2>8, TableCounted
    <3>2. /\ q.found = p.found /\ q.rows = p.rows /\ q.row = p.row
          /\ q.depth = p.depth - 1
      BY <3>1 DEF Parsers
    <3> QED
      BY <1>7, <2>8, <3>1, <3>2
  <2>9. step \in {8, 9, 10, 11, 12, 13, 14}
    BY <1>7
  <2> QED
    BY <2>2, <2>3, <2>4, <2>5, <2>6, <2>7, <2>8, <2>9
<1>8. CASE step = 15
  <2>1. token = If(~Harmed(row, number, "open cell"), End(cell.tag))
    BY <1>0, <1>8
  <2>2. CASE Harmed(row, number, "open cell")
    <3>1. token = NoToken /\ token \in Quiet
      BY <2>1, <2>2 DEF If, Quiet
    <3>2. step # 8 /\ step # 13 /\ step # 14
      BY <1>8
    <3> QED
      BY <1>3, <2>2, <3>1, <3>2
  <2>3. CASE ~Harmed(row, number, "open cell")
    <3>1. token = End(cell.tag)
      BY <2>1, <2>3 DEF If
    <3>2. /\ q \in Parsers /\ Tidy(q) /\ q.found = p.found /\ q.depth = p.depth
          /\ q.rows = p.rows /\ (q.row = None <=> p.row = None) /\ q.cell = None
      BY <1>1, <3>1, TdEnded
    <3>3. step # 8 /\ step # 13 /\ step # 14
      BY <1>8
    <3> QED
      BY <3>2, <3>3
  <2> QED
    BY <2>2, <2>3
<1>9. step = 1 \/ step \in 2..7 \/ step \in 8..14 \/ step = 15
  OBVIOUS
<1> QED
  BY <1>4, <1>5, <1>6, <1>7, <1>8, <1>9

-----------------------------------------------------------------------------
(* The invariant, place by place.                                          *)
LEMMA SameMeaning ==
  ASSUME page' = page
  PROVE  /\ Safe' = Safe /\ \A i : Closed(i)' = Closed(i) /\ MeantRow(i)' = MeantRow(i)
         /\ Len(page.rows)' = Len(page.rows)
         /\ place'.row = place.row => Reading' = Reading /\ Current' = Current
BY DEF Safe, Closed, Ended, MeantRow, Reading, Current

\* Rows that were collected stay where they are.
LEMMA RowsKept ==
  ASSUME parser.rows \in Seq(Seq(Cell)), SafeKept,
         parser'.rows = parser.rows \/ \E row \in Seq(Cell) : parser'.rows = Append(parser.rows, row)
  PROVE  \A i \in Safe : i < place.row =>
           Closed(i) \in 1..Len(parser'.rows) /\ parser'.rows[Closed(i)] = MeantRow(i)
<1> SUFFICES ASSUME NEW i \in Safe, i < place.row
             PROVE  Closed(i) \in 1..Len(parser'.rows) /\ parser'.rows[Closed(i)] = MeantRow(i)
  OBVIOUS
<1>1. Closed(i) \in 1..Len(parser.rows) /\ parser.rows[Closed(i)] = MeantRow(i)
  BY DEF SafeKept
<1>2. CASE parser'.rows = parser.rows
  BY <1>1, <1>2
<1>3. ASSUME NEW row \in Seq(Cell), parser'.rows = Append(parser.rows, row)
      PROVE  Closed(i) \in 1..Len(parser'.rows) /\ parser'.rows[Closed(i)] = MeantRow(i)
  <2> DEFINE k == Closed(i)
             meant == MeantRow(i)
             rows == parser.rows
             after == parser'.rows
  <2>1. k \in 1..Len(rows) /\ rows[k] = meant /\ rows \in Seq(Seq(Cell)) /\ after = Append(rows, row)
    BY <1>1, <1>3
  <2> HIDE DEF k, meant, rows, after
  <2>2. k \in 1..Len(after) /\ after[k] = meant
    BY <2>1
  <2> QED
    BY <2>2 DEF k, meant, rows, after
<1> QED
  BY <1>2, <1>3

Kept ==
  /\ parser \in Parsers /\ Tidy(parser)
  /\ parser.found = (place.row > 0)
  /\ parser.depth = Depth
  /\ Len(parser.rows) = Counted
  /\ RowStands
  /\ SafeKept

LEMMA CellStep ==
  ASSUME page \in Pages, PlaceOK, Kept, InCell, ~Fed, page' = page, place' = After(page, place),
         parser' = Handle(parser, Token(page, place))
  PROVE  Kept'
<1> DEFINE r == place.row
           c == place.cell
           s == place.step
           m == Len(Current.cells)
           nested == Harmed(Current, c, "nested")
<1>1. /\ Reading /\ c \in 1..m /\ m \in Nat /\ r \in 1..Len(page.rows) /\ s \in 1..15
      /\ r \in Nat /\ c \in Nat
      /\ Len(page.rows) \in Nat /\ Current.at \in Nat /\ Current.cells[c] \in SourceCell
  BY RowsKnown DEF InCell, PlaceOK, Reading, Current, CellSteps
<1>2. c > 0 /\ c <= m /\ 1 <= r /\ r <= Len(page.rows)
  BY <1>1
<1>3. /\ Token(page, place) = CellToken(Current, c, s)
      /\ s < 15 => place' = [row |-> r, cell |-> c, step |-> s + 1]
      /\ s = 15 => place' = [row |-> r, cell |-> c + 1, step |-> 1]
  BY <1>1, TokensPlaced
<1>4. /\ s < 15 => place'.row = r /\ place'.cell = c /\ place'.step = s + 1
      /\ s = 15 => place'.row = r /\ place'.cell = c + 1 /\ place'.step = 1
      /\ s < 15 \/ s = 15
  <2>1. ASSUME s < 15 PROVE place'.row = r /\ place'.cell = c /\ place'.step = s + 1
    BY <1>3, <2>1
  <2>2. ASSUME s = 15 PROVE place'.row = r /\ place'.cell = c + 1 /\ place'.step = 1
    BY <1>3, <2>2
  <2>3. s < 15 \/ s = 15
    <3>1. \A k \in 1..15 : k < 15 \/ k = 15
      OBVIOUS
    <3> QED
      BY ONLY <1>1, <3>1
  <2> QED
    BY <2>1, <2>2, <2>3
<1>5. /\ place'.row = r /\ Reading' /\ Current' = Current /\ place'.cell > 0
      /\ Len(page.rows)' = Len(page.rows) /\ \A i : Closed(i)' = Closed(i)
  <2>1. place'.row = r /\ place'.cell > 0
    BY <1>1, <1>4
  <2> QED
    BY <1>1, <2>1, SameMeaning
<1> HIDE DEF m
<1>6. /\ Spilled <=> Current.damage = "nested" /\ (c > Current.at \/ (c = Current.at /\ s > 13))
      /\ InNested <=> nested /\ s \in 9..14
      /\ nested <=> c = Current.at /\ Current.damage = "nested"
  BY <1>1 DEF Spilled, InNested, Harmed
<1>7. /\ Spilled' <=> Current.damage = "nested"
                         /\ (place'.cell > Current.at \/ (place'.cell = Current.at /\ place'.step > 13))
      /\ InNested' <=> Current.damage = "nested" /\ place'.cell = Current.at /\ place'.step \in 9..14
  BY <1>5 DEF Spilled, InNested
<1>8. /\ Spilled' <=> Spilled \/ (nested /\ s = 13)
      /\ nested /\ s = 13 => ~Spilled
      /\ InNested' <=> nested /\ s \in 8..13
      /\ nested /\ s <= 13 => ~Spilled
  <2> DEFINE at == Current.at
             hit == Current.damage = "nested"
             c1 == place'.cell
             s1 == place'.step
  <2>1. /\ c \in Nat /\ s \in 1..15 /\ at \in Nat
        /\ s < 15 => c1 = c /\ s1 = s + 1
        /\ s = 15 => c1 = c + 1 /\ s1 = 1
    BY <1>1, <1>4
  <2>2. /\ Spilled <=> hit /\ (c > at \/ (c = at /\ s > 13))
        /\ nested <=> c = at /\ hit
        /\ Spilled' <=> hit /\ (c1 > at \/ (c1 = at /\ s1 > 13))
        /\ InNested' <=> hit /\ c1 = at /\ s1 \in 9..14
    BY <1>6, <1>7
  <2> HIDE DEF c, s, nested, at, hit, c1, s1
  <2>3. s < 15 \/ s = 15
    BY <2>1
  <2>4. CASE s < 15
    <3>1. c1 = c /\ s1 = s + 1
      BY <2>1, <2>4
    <3>2. (s1 > 13 <=> s > 13 \/ s = 13) /\ (s1 \in 9..14 <=> s \in 8..13)
      BY <2>1, <2>4, <3>1
    <3>3. (s = 13 => ~(s > 13)) /\ (s <= 13 => ~(s > 13)) /\ ~(at > at)
      BY <2>1
    <3> QED
      BY <2>2, <3>1, <3>2, <3>3
  <2>5. CASE s = 15
    <3>1. c1 = c + 1 /\ s1 = 1
      BY <2>1, <2>5
    <3>2. (c1 > at <=> c > at \/ c = at) /\ ~(s1 > 13) /\ ~(s1 \in 9..14) /\ s > 13
             /\ s \notin 8..13 /\ s # 13 /\ ~(s <= 13)
      BY <2>1, <2>5, <3>1
    <3> QED
      BY <2>2, <3>1, <3>2
  <2> QED
    BY <2>3, <2>4, <2>5
<1>10. /\ parser \in Parsers /\ Tidy(parser) /\ parser.depth = (IF InNested THEN 2 ELSE 1)
       /\ Len(parser.rows) = Closed(r - 1) + (IF Spilled THEN 1 ELSE 0)
       /\ parser.row = None <=> Spilled
       /\ parser.found = (r > 0)
       /\ SafeKept
  <2>1. Depth = IF InNested THEN 2 ELSE 1
    BY <1>1, <1>2 DEF Depth
  <2>2. Counted = Closed(r - 1) + IF Spilled THEN 1 ELSE 0
    BY <1>1, <1>2 DEF Counted
  <2>3. parser.row = None <=> Spilled
    BY <1>1, <1>2 DEF Kept, RowStands
  <2> QED
    BY <2>1, <2>2, <2>3 DEF Kept
<1>11. parser.depth > 0 /\ (nested /\ s <= 13 => parser.row # None)
  <2>1. parser.depth > 0
    BY <1>10
  <2> HIDE DEF nested
  <2> QED
    BY <1>8, <1>10, <2>1
<1>12. /\ parser' \in Parsers /\ Tidy(parser') /\ parser'.found = parser.found
       /\ parser'.depth = IF nested /\ s = 8 THEN parser.depth + 1
                          ELSE IF nested /\ s = 14 THEN parser.depth - 1
                          ELSE parser.depth
       /\ parser'.rows = IF nested /\ s = 13 THEN Append(parser.rows, parser.row) ELSE parser.rows
       /\ parser'.row = None <=> parser.row = None \/ (nested /\ s = 13)
       /\ s = 15 /\ ~Harmed(Current, c, "open cell") => parser'.cell = None
  <2> DEFINE p == parser
             q == parser'
             row == Current
  <2>1. /\ row.cells[c] \in SourceCell /\ s \in 1..15 /\ p \in Parsers /\ Tidy(p)
        /\ p.depth > 0 /\ (Harmed(row, c, "nested") /\ s <= 13 => p.row # None)
        /\ q = Handle(p, CellToken(row, c, s))
    BY <1>1, <1>3, <1>10, <1>11
  <2> HIDE DEF p, q, row, c, s
  <2>2. CellRead(row, c, s, p, q)
    BY ONLY <2>1, CellFed
  <2> QED
    BY <2>2 DEF p, q, row, CellRead
<1>13. parser'.found = (place'.row > 0)
  BY <1>5, <1>10, <1>12
<1>14. parser'.depth = Depth'
  <2>1. Depth' = IF InNested' THEN 2 ELSE 1
    BY <1>1, <1>2, <1>5 DEF Depth
  <2>2. s \in 1..15
    BY <1>1
  <2> HIDE DEF nested, s
  <2>3. s = 8 \/ s = 14 \/ (s \in 9..13) \/ (s \notin 8..14)
    BY <2>2
  <2>4. /\ s = 8 => s \in 8..13 /\ s \notin 9..14
        /\ s = 14 => s \notin 8..13 /\ s \in 9..14
        /\ s \in 9..13 => s \in 8..13 /\ s \in 9..14 /\ s # 8 /\ s # 14
        /\ s \notin 8..14 => s \notin 8..13 /\ s \notin 9..14 /\ s # 8 /\ s # 14
    BY <2>2
  <2>5. 1 + 1 = 2 /\ 2 - 1 = 1
    OBVIOUS
  <2> QED
    BY <1>6, <1>8, <1>10, <1>12, <2>1, <2>3, <2>4, <2>5
<1>15. Len(parser'.rows) = Counted'
  <2>1. Counted' = Closed(r - 1) + IF Spilled' THEN 1 ELSE 0
    BY <1>1, <1>2, <1>5 DEF Counted
  <2>2. Closed(r - 1) \in Nat
    <3>1. r - 1 \in 0..Len(page.rows)
      BY <1>1
    <3> QED
      BY <3>1, ClosedKnown
  <2>3. parser.rows \in Seq(Seq(Cell)) /\ parser.row \in Seq(Cell) \union {None}
    BY <1>10 DEF Parsers
  <2>4. CASE nested /\ s = 13
    <3>1. parser.row \in Seq(Cell)
      BY <1>8, <1>10, <2>3, <2>4
    <3>2. Len(parser'.rows) = Len(parser.rows) + 1
      BY <1>12, <2>3, <2>4, <3>1
    <3>3. ~Spilled /\ Spilled'
      BY <1>8, <2>4
    <3> QED
      BY <1>10, <2>1, <2>2, <3>2, <3>3
  <2>5. CASE ~(nested /\ s = 13)
    <3>1. parser'.rows = parser.rows /\ (Spilled' <=> Spilled)
      BY <1>8, <1>12, <2>5
    <3> QED
      BY <1>10, <2>1, <3>1
  <2> QED
    BY <2>4, <2>5
<1>16. RowStands'
  <2>1. (parser'.row = None) <=> Spilled'
    BY <1>8, <1>10, <1>12
  <2>2. ASSUME Between'
        PROVE  parser'.cell = None
    <3>1. place'.cell = m + 1 /\ Current.damage = "open row"
      <4>1. place'.cell = 0 \/ (place'.cell = Len(Current'.cells) + 1 /\ Current'.damage = "open row")
        BY <1>5, <2>2 DEF Between
      <4>2. place'.cell # 0
        BY <1>1, <1>4
      <4> QED
        BY <1>5, <4>1, <4>2 DEF m
    <3>2. s = 15
      <4>1. c # m + 1
        BY <1>1, <1>2
      <4> QED
        BY <1>4, <3>1, <4>1
    <3>3. ~Harmed(Current, c, "open cell")
      BY <3>1 DEF Harmed
    <3> QED
      BY <1>12, <3>2, <3>3
  <2>3. place'.cell # 0 /\ place'.row # 0
    BY <1>1, <1>4
  <2> QED
    BY <2>1, <2>2, <2>3 DEF RowStands
<1>17. SafeKept'
  <2>1. parser.rows \in Seq(Seq(Cell)) /\ parser.row \in Seq(Cell) \union {None}
    BY <1>10 DEF Parsers
  <2>2. parser'.rows = parser.rows \/ \E row \in Seq(Cell) : parser'.rows = Append(parser.rows, row)
    BY <1>8, <1>10, <1>12, <2>1
  <2>3. \A i \in Safe : i < r =>
          Closed(i) \in 1..Len(parser'.rows) /\ parser'.rows[Closed(i)] = MeantRow(i)
    BY <1>10, <2>1, <2>2, RowsKept
  <2> QED
    BY <1>5, <2>3, SameMeaning DEF SafeKept
<1> QED
  BY <1>12, <1>13, <1>14, <1>15, <1>16, <1>17 DEF Kept

LEMMA BeginningKnown ==
  ASSUME NEW k
  PROVE  Beginning(k).row = k /\ Beginning(k).cell = 0 /\ Beginning(k).step = 1
BY DEF Beginning

LEMMA CountedNext ==
  ASSUME page' = page
  PROVE  Counted' = IF place'.row = 0 THEN 0
                    ELSE IF place'.row > Len(page.rows) THEN Closed(Len(page.rows))
                    ELSE Closed(place'.row - 1) + IF Spilled' THEN 1 ELSE 0
BY DEF Counted, Closed, Ended

\* The start of the table.
LEMMA TableStarted ==
  ASSUME page \in Pages, PlaceOK, Kept, ~Fed, place.row = 0, page.named,
         page' = page, place' = After(page, place), parser' = Handle(parser, Token(page, place))
  PROVE  Kept' /\ SafeRead'
<1> DEFINE n == Len(page.rows)
<1>1. /\ parser \in Parsers /\ Tidy(parser) /\ parser.depth = 0 /\ Len(parser.rows) = 0
      /\ parser.cell = None /\ parser.row = None
  <2>1. Depth = 0 /\ Counted = 0 /\ ~Reading /\ Between
    BY DEF Depth, Counted, Reading, Between
  <2> QED
    BY <2>1 DEF Kept, RowStands
<1>2. parser' = [parser EXCEPT !.found = TRUE, !.depth = 1]
  <2>1. parser' = StartTable(parser, "tablelibgen")
    <3>1. Token(page, place) = Start("table", "tablelibgen")
      BY TokensPlaced
    <3> QED
      BY <1>1, <3>1, TableHandled
  <2> QED
    BY <1>1, <2>1 DEF StartTable
<1>3. parser' = [found |-> TRUE, rows |-> parser.rows, depth |-> 1, row |-> parser.row,
                 cell |-> parser.cell, link |-> parser.link, small |-> parser.small]
  BY <1>1, <1>2 DEF Parsers
<1>4. parser' \in Parsers /\ Tidy(parser')
  BY <1>1, <1>3 DEF Parsers, Tidy
<1>5. place'.row = 1 /\ place'.cell = 0 /\ place'.step = 1 /\ n \in Nat /\ Len(page.rows)' = n
      /\ (Reading' => Current'.at \in Nat \ {0})
  <2>0. place' = Beginning(1)
    BY TokensPlaced
  <2>1. place'.row = 1 /\ place'.cell = 0 /\ place'.step = 1
    BY <2>0 DEF Beginning
  <2> QED
    BY <2>1, RowsKnown DEF Reading, Current
<1> HIDE DEF n
<1>6. Depth' = 1
  <2>1. ~InNested'
    BY <1>5 DEF InNested
  <2> QED
    BY <1>5, <2>1 DEF Depth
<1>7. Counted' = 0
  <2>1. ~Spilled'
    BY <1>5 DEF Spilled
  <2>2. Closed(0) = 0
    BY ClosedKnown
  <2>3. Counted' = IF 1 > n THEN Closed(n) ELSE Closed(1 - 1) + 0
    BY <1>5, <2>1, CountedNext DEF n
  <2>4. 1 > n => n = 0
    BY <1>5
  <2>5. 1 - 1 = 0 /\ 0 + 0 = 0
    OBVIOUS
  <2> QED
    BY <2>2, <2>3, <2>4, <2>5
<1>8. RowStands'
  BY <1>1, <1>3, <1>5 DEF RowStands
<1>9. SafeKept'
  <2>1. \A i \in Safe : i \in 1..n
    BY RowsKnown DEF Safe, n
  <2>2. Safe' = Safe
    BY SameMeaning
  <2> QED
    BY <1>5, <2>1, <2>2 DEF SafeKept
<1>10. SafeRead'
  BY <1>5 DEF SafeRead
<1>11. parser'.found = (place'.row > 0)
  <2>1. place'.row > 0
    BY <1>5
  <2>2. (place'.row > 0) = TRUE /\ parser'.found = TRUE
    BY <1>3, <2>1
  <2> QED
    BY <2>2
<1>12. parser'.depth = 1 /\ Len(parser'.rows) = 0
  BY <1>1, <1>3
<1> QED
  BY <1>4, <1>6, <1>7, <1>8, <1>9, <1>10, <1>11, <1>12 DEF Kept

\* Its end and what follows.
LEMMA TableEnded ==
  ASSUME page \in Pages, PlaceOK, Kept, ~Fed, place.row > Len(page.rows),
         page' = page, place' = After(page, place), parser' = Handle(parser, Token(page, place))
  PROVE  Kept' /\ SafeRead'
<1> DEFINE n == Len(page.rows)
           r == place.row
<1>1. n \in Nat /\ r \in Nat /\ r > n /\ Len(page.rows)' = n /\ r # 0
  BY RowsKnown, SameMeaning DEF PlaceOK
<1>2. (r = n + 1 \/ r = n + 2) /\ ~Reading
  <2>1. ~Reading
    BY <1>1 DEF Reading
  <2> QED
    BY <1>1, <2>1, TokensPlaced
<1>3. place'.row = r + 1 /\ place'.cell = 0
  <2>1. place' = Beginning(n + 2) \/ place' = Beginning(n + 3)
    BY <1>2, TokensPlaced
  <2>2. r = n + 1 => place' = Beginning(n + 2)
    BY TokensPlaced
  <2>3. r = n + 2 => place' = Beginning(n + 3)
    BY TokensPlaced
  <2> QED
    BY <1>1, <1>2, <2>2, <2>3 DEF Beginning
<1>4. ~Reading' /\ r + 1 > n /\ r + 1 # 0 /\ r + 1 > n + 1
  BY <1>1, <1>3 DEF Reading
<1>5. /\ parser \in Parsers /\ Tidy(parser) /\ parser.depth = Depth /\ Len(parser.rows) = Closed(n)
      /\ parser.cell = None /\ parser.found = TRUE
  <2>1. Counted = Closed(n) /\ Between
    BY <1>1, <1>2 DEF Counted, Between
  <2>2. place.row > 0
    BY <1>1
  <2>3. parser.found = TRUE
    BY <2>2 DEF Kept
  <2> QED
    BY <2>1, <2>3 DEF Kept, RowStands
<1>6. /\ parser' \in Parsers /\ Tidy(parser') /\ parser'.depth = 0 /\ parser'.rows = parser.rows
      /\ parser'.cell = None /\ parser'.found = TRUE
  <2>1. CASE r = n + 1
    <3>1. parser.depth = 1
      <4>1. ~InNested /\ ~(r > n + 1)
        BY <1>1, <1>2, <2>1 DEF InNested
      <4> QED
        BY <1>1, <1>5, <4>1 DEF Depth
    <3>2. Token(page, place) = End("table")
      BY <2>1, TokensPlaced
    <3>3. parser' = [parser EXCEPT !.depth = 0]
      <4>1. parser.depth > 0 /\ parser.depth - 1 = 0
        BY <3>1
      <4> QED
        BY <1>5, <3>2, <4>1, TableCounted
    <3>4. parser' = [found |-> parser.found, rows |-> parser.rows, depth |-> 0, row |-> parser.row,
                     cell |-> parser.cell, link |-> parser.link, small |-> parser.small]
      BY <1>5, <3>3 DEF Parsers
    <3> QED
      BY <1>5, <3>4 DEF Parsers, Tidy
  <2>2. CASE r = n + 2
    <3>1. parser.depth = 0
      <4>1. r > n + 1
        BY <1>1, <2>2
      <4> QED
        BY <1>5, <4>1 DEF Depth
    <3>2. Token(page, place) = Data("footer")
      BY <2>2, TokensPlaced
    <3>3. parser' = HandleData(parser, "footer")
      <4>1. parser.depth \in Nat
        BY <3>1
      <4>2. parser' = Handle(parser, Data("footer"))
        BY <3>2
      <4>3. Handle(parser, Data("footer")) = HandleData(parser, "footer")
        BY <4>1, QuietHandled
      <4> QED
        BY <4>2, <4>3
    <3>4. parser' = parser
      BY <1>5, <3>3 DEF HandleData
    <3> QED
      BY <1>5, <3>1, <3>4
  <2> QED
    BY <1>2, <2>1, <2>2
<1>7. Depth' = 0 /\ Counted' = Closed(n)' /\ Closed(n)' = Closed(n)
  BY <1>1, <1>3, <1>4, SameMeaning DEF Depth, Counted
<1>8. RowStands'
  BY <1>3, <1>4, <1>6 DEF RowStands
<1>9. SafeKept'
  <2>1. \A i \in Safe : i \in 1..n
    BY RowsKnown DEF Safe
  <2>2. \A i \in Safe : i < r
    BY <1>1, <2>1
  <2>3. \A i \in Safe : Closed(i) \in 1..Len(parser.rows) /\ parser.rows[Closed(i)] = MeantRow(i)
    BY <2>2 DEF Kept, SafeKept
  <2>4. Safe' = Safe /\ \A i : Closed(i)' = Closed(i) /\ MeantRow(i)' = MeantRow(i)
    BY SameMeaning
  <2> QED
    BY <1>6, <2>3, <2>4 DEF SafeKept
<1>10. SafeRead'
  BY <1>3 DEF SafeRead
<1>11. parser'.found = (place'.row > 0)
  <2>1. place'.row > 0
    BY <1>1, <1>3
  <2> QED
    BY <1>6, <2>1
<1> QED
  BY <1>5, <1>6, <1>7, <1>8, <1>9, <1>10, <1>11 DEF Kept

\* The start of a row.
LEMMA RowStarted ==
  ASSUME page \in Pages, PlaceOK, Kept, ~Fed, Reading, place.cell = 0,
         page' = page, place' = After(page, place), parser' = Handle(parser, Token(page, place))
  PROVE  Kept' /\ SafeRead'
<1> DEFINE n == Len(page.rows)
           r == place.row
<1>1. /\ n \in Nat /\ r \in 1..n /\ r \in Nat /\ r > 0 /\ ~(r > n) /\ ~(r > n + 1) /\ r # 0
      /\ Current.at \in Nat /\ Current.at > 0 /\ Len(Current.cells) \in Nat
  <2>1. n \in Nat /\ r \in 1..n
    BY RowsKnown DEF Reading
  <2>2. Current.at \in Nat \ {0} /\ Len(Current.cells) \in Nat
    BY <2>1, RowsKnown DEF Current
  <2> QED
    BY <2>1, <2>2
<1>2. Token(page, place) = Start("tr", None) /\ place' = [row |-> r, cell |-> 1, step |-> 1]
  BY TokensPlaced
<1>3. /\ place'.row = r /\ place'.cell = 1 /\ place'.step = 1
      /\ Reading' /\ Current' = Current /\ Len(page.rows)' = n
      /\ \A i : Closed(i)' = Closed(i)
  BY <1>2, SameMeaning
<1>4. ~InNested /\ ~InNested' /\ ~Spilled /\ ~Spilled' /\ Between
  <2>1. ~(1 > Current.at) /\ ~(0 > Current.at) /\ 0 # Current.at /\ ~(1 > 13) /\ 1 \notin 9..14
    BY <1>1
  <2>2. ~InNested'
    BY <1>3, <2>1 DEF InNested
  <2>3. ~Spilled'
    BY <1>3, <2>1 DEF Spilled
  <2> QED
    BY <2>1, <2>2, <2>3 DEF InNested, Spilled, Between
<1>5. /\ Depth = 1 /\ Depth' = 1
      /\ Counted = Closed(r - 1) + 0 /\ Counted' = Closed(r - 1) + 0
  BY <1>1, <1>3, <1>4 DEF Depth, Counted
<1>6. /\ parser \in Parsers /\ Tidy(parser) /\ parser.depth = 1 /\ Len(parser.rows) = Closed(r - 1) + 0
      /\ parser.cell = None /\ parser.found = TRUE
      /\ (r > 1 => page.rows[r - 1].damage # "open row") => parser.row = None
  <2>1. parser.found = TRUE
    BY <1>1 DEF Kept
  <2> QED
    BY <1>4, <1>5, <2>1 DEF Kept, RowStands
<1>7. /\ parser' \in Parsers /\ Tidy(parser') /\ parser'.found = TRUE /\ parser'.depth = 1
      /\ parser'.rows = parser.rows /\ parser'.row # None /\ parser'.cell = None
      /\ parser'.link = None /\ parser'.small = 0
      /\ parser.row = None => parser'.row = <<>>
  <2>0. parser' = Handle(parser, Start("tr", None))
    BY <1>2
  <2>1. parser.depth > 0
    <3>1. parser.depth = 1
      BY <1>6
    <3> QED
      BY <3>1
  <2>2. /\ parser' \in Parsers /\ Tidy(parser') /\ parser'.found = parser.found
        /\ parser'.depth = parser.depth /\ parser'.rows = parser.rows /\ parser'.cell = parser.cell
        /\ parser'.row # None /\ (parser.row = None => parser'.row = <<>>)
    BY <1>6, <2>0, <2>1, TrStarted
  <2> QED
    BY <1>6, <2>2 DEF Tidy
<1>8. RowStands'
  BY <1>1, <1>3, <1>4, <1>7 DEF RowStands
<1>9. SafeKept'
  <2>1. \A i \in Safe : i < r =>
          Closed(i) \in 1..Len(parser.rows) /\ parser.rows[Closed(i)] = MeantRow(i)
    BY DEF Kept, SafeKept
  <2> QED
    BY <1>3, <1>7, <2>1, SameMeaning DEF SafeKept
<1>10. SafeRead'
  <2>1. Safe' = Safe
    BY SameMeaning
  <2>2. ASSUME r \in Safe
        PROVE  parser'.row = <<>>
    <3>1. r > 1 => page.rows[r - 1].damage # "open row"
      BY <2>2 DEF Safe
    <3> QED
      BY <1>6, <1>7, <3>1
  <2>3. \A cell : /\ ReadCell(cell, 1) = None /\ ReadLink(cell, 1) = None
                  /\ ReadSmall(cell, 1) = 0
    BY DEF ReadCell, ReadLink, ReadSmall
  <2>4. [j \in 1..(1 - 1) |-> Meant(Current'.cells[j])] = <<>>
    OBVIOUS
  <2> QED
    BY <1>3, <1>7, <2>1, <2>2, <2>3, <2>4 DEF SafeRead
<1>11. parser'.found = (place'.row > 0)
  BY <1>1, <1>3, <1>7
<1> QED
  BY <1>5, <1>6, <1>7, <1>8, <1>9, <1>10, <1>11 DEF Kept

\* The end of a row, or where it should be.
LEMMA RowEnded ==
  ASSUME page \in Pages, PlaceOK, Kept, SafeRead, ~Fed, Reading, place.cell > Len(Current.cells),
         page' = page, place' = After(page, place), parser' = Handle(parser, Token(page, place))
  PROVE  Kept' /\ SafeRead'
<1> DEFINE n == Len(page.rows)
           r == place.row
           m == Len(Current.cells)
           open == Current.damage = "open row"
<1>1. /\ n \in Nat /\ r \in 1..n /\ r \in Nat /\ r > 0 /\ ~(r > n) /\ ~(r > n + 1) /\ r # 0
      /\ m \in Nat /\ place.cell = m + 1 /\ place.step = 1 /\ place.cell > 0
  <2>1. n \in Nat /\ r \in 1..n
    BY RowsKnown DEF Reading
  <2>2. m \in Nat
    BY <2>1, RowsKnown DEF Current
  <2>3. place.cell \in Nat /\ place.cell <= m + 1 /\ place.step = 1 /\ place.cell > m
    BY DEF PlaceOK
  <2> HIDE DEF m, n
  <2>4. place.cell = m + 1
    BY <2>2, <2>3
  <2> QED
    BY <2>1, <2>2, <2>3, <2>4
<1>2. Token(page, place) = If(~open, End("tr")) /\ place' = Beginning(r + 1)
  BY TokensPlaced
<1>3. /\ place'.row = r + 1 /\ place'.cell = 0 /\ place'.step = 1 /\ r + 1 # 0 /\ ~(r + 1 > n + 1)
      /\ r + 1 - 1 = r /\ Len(page.rows)' = n /\ page.rows[r] = Current
      /\ (r + 1 > n => r = n) /\ (Reading' => Current'.at \in Nat \ {0})
      /\ \A i : Closed(i)' = Closed(i)
  <2>1. place'.row = r + 1 /\ place'.cell = 0 /\ place'.step = 1
    BY <1>2, BeginningKnown
  <2>2. Reading' => Current'.at \in Nat \ {0}
    BY <2>1, RowsKnown DEF Reading, Current
  <2>3. Len(page.rows)' = n /\ page.rows[r] = Current /\ \A i : Closed(i)' = Closed(i)
    BY SameMeaning DEF Current
  <2>4. r + 1 # 0 /\ ~(r + 1 > n + 1) /\ r + 1 - 1 = r /\ (r + 1 > n => r = n)
    BY <1>1
  <2> QED
    BY <2>1, <2>2, <2>3, <2>4
<1> HIDE DEF n, m
<1>14. place'.row - 1 = r /\ place'.row # 0 /\ (place'.row > n <=> r + 1 > n)
  <2>1. place'.row = r + 1 /\ r \in Nat
    BY <1>1, <1>3
  <2> HIDE DEF r
  <2>2. place'.row - 1 = r /\ place'.row # 0
    BY <2>1
  <2>3. place'.row > n <=> r + 1 > n
    BY <2>1
  <2> QED
    BY <2>2, <2>3
<1>4. ~InNested /\ ~InNested' /\ ~Spilled' /\ (Spilled => ~open)
  <2>1. ~InNested
    BY <1>1 DEF InNested
  <2>2. ~InNested'
    BY <1>3 DEF InNested
  <2>3. ~Spilled'
    <3>1. Reading' => ~(0 > Current'.at) /\ 0 # Current'.at
      BY <1>3
    <3> QED
      BY <1>3, <3>1 DEF Spilled
  <2> QED
    BY <2>1, <2>2, <2>3 DEF Spilled
<1>5. /\ Depth = 1 /\ Depth' = 1
      /\ Counted = Closed(r - 1) + (IF Spilled THEN 1 ELSE 0)
      /\ Counted' = Closed(r)
  <2>1. Depth = 1 /\ Counted = Closed(r - 1) + (IF Spilled THEN 1 ELSE 0)
    BY <1>1, <1>4 DEF Depth, Counted, n
  <2>2. Depth' = 1
    BY <1>3, <1>4 DEF Depth
  <2>3. Counted' = Closed(r)
    <3>0. Counted' = IF r + 1 > n THEN Closed(n) ELSE Closed(r) + 0
      <4>1. Counted' = IF place'.row = 0 THEN 0
                       ELSE IF place'.row > n THEN Closed(n)
                       ELSE Closed(place'.row - 1) + IF Spilled' THEN 1 ELSE 0
        BY CountedNext DEF n
      <4>2. Counted' = IF place'.row > n THEN Closed(n) ELSE Closed(r) + 0
        BY <1>4, <1>14, <4>1
      <4> QED
        BY <1>14, <4>2
    <3>1. CASE r + 1 > n
      BY <1>3, <3>0, <3>1
    <3>2. CASE ~(r + 1 > n)
      <4>1. Counted' = Closed(r) + 0
        BY <3>0, <3>2
      <4>2. Closed(r) \in Nat
        <5>1. r \in 0..n
          BY <1>1
        <5> QED
          BY <5>1, ClosedKnown DEF n
      <4> QED
        BY <4>1, <4>2
    <3> QED
      BY <3>1, <3>2
  <2> QED
    BY <2>1, <2>2, <2>3
<1>6. /\ parser \in Parsers /\ Tidy(parser) /\ parser.depth = 1 /\ parser.found = TRUE
      /\ Len(parser.rows) = Closed(r - 1) + (IF Spilled THEN 1 ELSE 0)
      /\ parser.row = None <=> Spilled
      /\ parser.rows \in Seq(Seq(Cell)) /\ parser.row \in Seq(Cell) \union {None}
      /\ open => parser.cell = None
      /\ SafeKept
  <2>1. parser.found = TRUE
    BY <1>1 DEF Kept
  <2>2. parser.row = None <=> Spilled
    BY <1>1 DEF Kept, RowStands
  <2>3. open => Between
    BY <1>1 DEF Between, m
  <2>4. parser.rows \in Seq(Seq(Cell)) /\ parser.row \in Seq(Cell) \union {None}
    BY DEF Kept, Parsers
  <2> QED
    BY <1>5, <2>1, <2>2, <2>3, <2>4 DEF Kept, RowStands
<1>0. parser.depth \in Nat /\ parser.depth > 0
  <2>1. parser.depth = 1
    BY <1>6
  <2> QED
    BY <2>1
<1>7. Closed(r) = Closed(r - 1) + (IF open THEN 0 ELSE 1) /\ Closed(r - 1) \in Nat
  <2>1. r - 1 \in 0..n /\ r \in 1..n
    BY <1>1
  <2>2. Closed(r) = Closed(r - 1) + IF page.rows[r].damage = "open row" THEN 0 ELSE 1
    BY <2>1, ClosedKnown DEF n
  <2>3. Closed(r - 1) \in Nat
    BY <2>1, ClosedKnown DEF n
  <2> QED
    BY <1>3, <2>2, <2>3
<1>8. /\ parser' \in Parsers /\ Tidy(parser') /\ parser'.found = TRUE /\ parser'.depth = 1
      /\ parser'.cell = None
      /\ parser'.rows = IF open \/ Spilled THEN parser.rows ELSE Append(parser.rows, parser.row)
      /\ ~open => parser'.row = None
  <2>1. CASE open
    <3>1. parser' = parser
      <4>1. Token(page, place) = NoToken
        BY <1>2, <2>1 DEF If
      <4>2. Handle(parser, NoToken) = parser
        BY <1>0, QuietHandled
      <4> QED
        BY <4>1, <4>2
    <3> QED
      BY <1>6, <2>1, <3>1
  <2>2. CASE ~open
    <3>1. parser' = Handle(parser, End("tr"))
      BY <1>2, <2>2 DEF If
    <3>2. /\ parser' \in Parsers /\ Tidy(parser')
          /\ parser'.found = parser.found /\ parser'.depth = parser.depth
          /\ parser'.rows = IF parser.row = None THEN parser.rows ELSE Append(parser.rows, parser.row)
          /\ parser'.row = None /\ parser'.cell = None
      BY <1>0, <1>6, <3>1, TrEnded
    <3> QED
      BY <1>6, <2>2, <3>2
  <2> QED
    BY <2>1, <2>2
<1> HIDE DEF open
<1>9. Len(parser'.rows) = Counted'
  <2>1. CASE open \/ Spilled
    BY <1>4, <1>5, <1>6, <1>7, <1>8, <2>1
  <2>2. CASE ~(open \/ Spilled)
    <3>1. parser.row \in Seq(Cell)
      BY <1>6, <2>2
    <3>2. Len(parser'.rows) = Len(parser.rows) + 1
      BY <1>6, <1>8, <2>2, <3>1
    <3> QED
      BY <1>5, <1>6, <1>7, <2>2, <3>2
  <2> QED
    BY <2>1, <2>2
<1>10. RowStands'
  <2>1. page'.rows[place'.row - 1] = Current
    <3>1. page'.rows[place'.row - 1] = page.rows[r]
      BY <1>14
    <3> QED
      BY <3>1 DEF Current
  <2>2. place'.row > 1 /\ place'.row # 0
    BY <1>1, <1>3
  <2>3. page'.rows[place'.row - 1].damage # "open row" => parser'.row = None
    BY <1>8, <2>1 DEF open
  <2>4. ~(place'.cell > 0)
    BY <1>3
  <2> QED
    BY <1>8, <2>2, <2>3, <2>4 DEF RowStands
<1>11. SafeKept'
  <2>1. parser'.rows = parser.rows \/ \E row \in Seq(Cell) : parser'.rows = Append(parser.rows, row)
    BY <1>6, <1>8
  <2>2. \A i \in Safe : i < r =>
          Closed(i) \in 1..Len(parser'.rows) /\ parser'.rows[Closed(i)] = MeantRow(i)
    BY <1>6, <2>1, RowsKept
  <2>3. ASSUME r \in Safe
        PROVE  Closed(r) \in 1..Len(parser'.rows) /\ parser'.rows[Closed(r)] = MeantRow(r)
    <3>1. Current.damage = Intact
      BY <2>3 DEF Safe, Current
    <3>2. ~open /\ ~Spilled
      BY <3>1 DEF open, Spilled, Intact
    <3>3. /\ parser.row \in Seq(Cell) /\ parser'.rows = Append(parser.rows, parser.row)
          /\ Len(parser.rows) = Closed(r - 1) /\ Closed(r) = Closed(r - 1) + 1
      BY <1>6, <1>7, <1>8, <3>2
    <3>4. Len(parser'.rows) = Closed(r) /\ parser'.rows[Closed(r)] = parser.row /\ Closed(r) \in 1..Closed(r)
      <4> DEFINE rows == parser.rows
                 row == parser.row
                 after == parser'.rows
                 k == Closed(r)
      <4>1. /\ rows \in Seq(Seq(Cell)) /\ row \in Seq(Cell) /\ after = Append(rows, row)
            /\ k = Len(rows) + 1
        BY <1>6, <3>3
      <4> HIDE DEF rows, row, after, k
      <4>2. Len(after) = k /\ after[k] = row /\ k \in 1..k
        BY <4>1
      <4> QED
        BY <4>2 DEF rows, row, after, k
    <3>5. parser.row = [j \in 1..(place.cell - 1) |-> Meant(Current.cells[j])]
      BY <1>1, <2>3 DEF SafeRead
    <3>6. place.cell - 1 = m /\ DOMAIN Current.cells = 1..m
      <4>1. DOMAIN page.rows[r].cells = 1..Len(page.rows[r].cells)
        BY <1>1, RowsKnown DEF n
      <4> QED
        BY <1>1, <1>3, <4>1 DEF m
    <3>7. parser.row = MeantRow(r)
      BY <1>3, <3>5, <3>6 DEF MeantRow
    <3> QED
      BY <3>4, <3>7
  <2>4. \A i \in Safe : i < place'.row => i < r \/ i = r
    <3>1. \A i \in Safe : i \in 1..n
      BY RowsKnown DEF Safe, n
    <3> QED
      BY <1>1, <1>3, <3>1
  <2>5. Safe' = Safe /\ \A i : Closed(i)' = Closed(i) /\ MeantRow(i)' = MeantRow(i)
    BY SameMeaning
  <2> QED
    BY <2>2, <2>3, <2>4, <2>5 DEF SafeKept
<1>12. SafeRead'
  BY <1>3 DEF SafeRead
<1>13. parser'.found = (place'.row > 0)
  <2>1. place'.row > 0
    BY <1>1, <1>3
  <2>2. (place'.row > 0) = TRUE /\ parser'.found = TRUE
    BY <1>8, <2>1
  <2> QED
    BY <2>2
<1> QED
  BY <1>5, <1>8, <1>9, <1>10, <1>11, <1>12, <1>13 DEF Kept

(* What each tag does to the cell that is being read, exactly.             *)
LEMMA GivenKnown ==
  ASSUME NEW v, NEW x, NEW y
  PROVE  /\ Append(<<>>, x) = <<x>>
         /\ Append(Given(v, x), y) = Given(v, x) \o <<y>>
         /\ Given(v, x) \o <<>> = Given(v, x) /\ <<>> \o <<>> = <<>>
<1> DEFINE S == {x, y}
           s == Given(v, x)
<1>1. s \in Seq(S) /\ x \in S /\ y \in S /\ <<y>> \in Seq(S) /\ <<>> \in Seq(S)
      /\ Len(<<y>>) = 1 /\ <<y>>[1] = y
  <2>1. <<>> \in Seq(S) /\ <<x>> \in Seq(S) /\ <<y>> \in Seq(S) /\ Len(<<y>>) = 1 /\ <<y>>[1] = y
    OBVIOUS
  <2>2. s = <<>> \/ s = <<x>>
    BY DEF Given
  <2>3. s \in Seq(S)
    BY <2>1, <2>2
  <2> QED
    BY <2>1, <2>3
<1> HIDE DEF S, s
<1>2. Append(<<>>, x) = <<x>>
  OBVIOUS
<1>3. Append(s, y) = s \o <<y>>
  BY <1>1
<1>4. s \o <<>> = s
  BY <1>1
<1>5. <<>> \o <<>> = <<>>
  OBVIOUS
<1> QED
  BY <1>2, <1>3, <1>4, <1>5 DEF s

LEMMA GivenTyped ==
  ASSUME NEW S, NEW v, NEW x, v # None => x \in S
  PROVE  Given(v, x) \in Seq(S) /\ <<>> \in Seq(S)
<1>1. <<>> \in Seq(S)
  OBVIOUS
<1>2. CASE v = None
  BY <1>1, <1>2 DEF Given
<1>3. CASE v # None
  <2>1. <<x>> \in Seq(S)
    BY <1>3
  <2> QED
    BY <1>1, <1>3, <2>1 DEF Given
<1> QED
  BY <1>2, <1>3

TextKept(cell, parts, links, text, p, q) ==
  /\ q.row = p.row /\ q.small = p.small
  /\ q.cell = Holding(cell, Append(parts, [text |-> text, small |-> p.small > 0]), links)
  /\ p.link = None => q.link = None
  /\ p.link # None =>
       \A href, t : p.link = Linked(href, t) => q.link = Linked(href, Append(t, text))

LEMMA TextHeld ==
  ASSUME NEW p \in Parsers, NEW cell, NEW parts, NEW links, p.cell = Holding(cell, parts, links),
         p.cell # None, NEW text, NEW q, q = Handle(p, Data(text))
  PROVE  TextKept(cell, parts, links, text, p, q)
<1> DEFINE part == [text |-> text, small |-> p.small > 0]
           held == [p.cell EXCEPT !.parts = Append(p.cell.parts, part)]
           link == IF p.link = None THEN None ELSE [p.link EXCEPT !.text = Append(p.link.text, text)]
<1>1. p.depth \in Nat
  BY DEF Parsers
<1>2. q = [p EXCEPT !.cell = held, !.link = link]
  BY <1>1, QuietHandled DEF HandleData
<1>3. q.row = p.row /\ q.small = p.small /\ q.cell = held /\ q.link = link
  <2> HIDE DEF held, link
  <2>1. q = [found |-> p.found, rows |-> p.rows, depth |-> p.depth, row |-> p.row, cell |-> held,
             link |-> link, small |-> p.small]
    BY <1>2 DEF Parsers
  <2> QED
    BY <2>1
<1>4. held = Holding(cell, Append(parts, part), links)
  <2> HIDE DEF part
  <2>1. p.cell.parts = parts
    BY DEF Holding
  <2>2. held = [Holding(cell, parts, links) EXCEPT !.parts = Append(parts, part)]
    BY <2>1
  <2> DEFINE longer == Append(parts, part)
  <2> HIDE DEF longer
  <2>3. [Holding(cell, parts, links) EXCEPT !.parts = longer] = Holding(cell, longer, links)
    BY DEF Holding
  <2> QED
    BY <2>2, <2>3 DEF longer
<1>5. ASSUME p.link # None, NEW href, NEW t, p.link = Linked(href, t)
      PROVE  link = Linked(href, Append(t, text))
  <2> DEFINE longer == Append(t, text)
  <2>1. p.link.text = t
    BY <1>5 DEF Linked
  <2>2. link = [Linked(href, t) EXCEPT !.text = longer]
    BY <1>5, <2>1
  <2> HIDE DEF longer, link
  <2>3. [Linked(href, t) EXCEPT !.text = longer] = Linked(href, longer)
    BY DEF Linked
  <2> QED
    BY <2>2, <2>3 DEF longer
<1>6. p.link = None => link = None
  OBVIOUS
<1> HIDE DEF held, link
<1> QED
  BY <1>3, <1>4, <1>5, <1>6 DEF TextKept

LinkKept(cell, parts, links, p, q) ==
  /\ q.row = p.row /\ q.small = p.small /\ q.link = None
  /\ q.cell = Holding(cell, parts, Append(links, p.link))

LEMMA LinkHeld ==
  ASSUME NEW p \in Parsers, p.depth > 0, NEW cell, NEW parts, NEW links,
         p.cell = Holding(cell, parts, links), p.cell # None, p.link # None,
         NEW q, q = Handle(p, End("a"))
  PROVE  LinkKept(cell, parts, links, p, q)
<1> DEFINE more == Append(links, p.link)
           held == [p.cell EXCEPT !.links = Append(p.cell.links, p.link)]
<1>1. p.depth \in Nat
  BY DEF Parsers
<1>2. q = [p EXCEPT !.cell = held, !.link = None]
  BY <1>1, QuietHandled
<1>3. q.row = p.row /\ q.small = p.small /\ q.cell = held /\ q.link = None
  <2> HIDE DEF held
  <2>1. q = [found |-> p.found, rows |-> p.rows, depth |-> p.depth, row |-> p.row, cell |-> held,
             link |-> None, small |-> p.small]
    BY <1>2 DEF Parsers
  <2> QED
    BY <2>1
<1>4. p.cell.links = links
  BY DEF Holding
<1>5. held = [Holding(cell, parts, links) EXCEPT !.links = more]
  BY <1>4
<1> HIDE DEF more
<1>6. [Holding(cell, parts, links) EXCEPT !.links = more] = Holding(cell, parts, more)
  BY DEF Holding
<1> QED
  BY <1>3, <1>5, <1>6 DEF more, LinkKept

\* What an undamaged cell is read as.
SafeStep(cell, step, p, q) ==
  IF step = 15
    THEN q.row = Append(p.row, Meant(cell)) /\ q.cell = None /\ q.link = None /\ q.small = 0
    ELSE /\ q.row = p.row /\ q.cell = ReadCell(cell, step + 1)
         /\ q.link = ReadLink(cell, step + 1) /\ q.small = ReadSmall(cell, step + 1)

LEMMA ReadKnown ==
  ASSUME NEW cell
  PROVE  LET parts == Given(cell.text, [text |-> cell.text, small |-> FALSE])
             link == Linked(cell.href, Given(cell.text, cell.text)) IN
         /\ ReadCell(cell, 1) = None
         /\ ReadCell(cell, 2) = Holding(cell, <<>>, <<>>) /\ ReadCell(cell, 3) = Holding(cell, <<>>, <<>>)
         /\ ReadCell(cell, 4) = Holding(cell, parts, <<>>)
         /\ ReadCell(cell, 5) = Holding(cell, parts, Given(cell.href, link))
         /\ ReadCell(cell, 6) = Holding(cell, parts, Given(cell.href, link))
         /\ \A k \in 7..15 : ReadCell(cell, k) = Meant(cell)
         /\ Meant(cell) =
              Holding(cell, parts \o Given(cell.small, [text |-> cell.small, small |-> TRUE]),
                      Given(cell.href, link))
         /\ ReadLink(cell, 3) = IF cell.href = None THEN None ELSE Linked(cell.href, <<>>)
         /\ ReadLink(cell, 4) = IF cell.href = None THEN None ELSE link
         /\ \A k \in {1, 2} \union (5..15) : ReadLink(cell, k) = None
         /\ ReadSmall(cell, 6) = (IF cell.small = None THEN 0 ELSE 1)
         /\ ReadSmall(cell, 7) = (IF cell.small = None THEN 0 ELSE 1)
         /\ \A k \in (1..5) \union (8..15) : ReadSmall(cell, k) = 0
<1> DEFINE parts == Given(cell.text, [text |-> cell.text, small |-> FALSE])
           link == Linked(cell.href, Given(cell.text, cell.text))
           all == parts \o Given(cell.small, [text |-> cell.small, small |-> TRUE])
<1>1. MeantParts(cell) = all
  BY DEF MeantParts
<1>2. MeantLinks(cell) = Given(cell.href, link)
  BY DEF MeantLinks, Linked
<1>3. Meant(cell) = Holding(cell, all, Given(cell.href, link))
  BY <1>1, <1>2 DEF Meant, Holding
<1>4. /\ ReadParts(cell, 2) = <<>> /\ ReadParts(cell, 3) = <<>> /\ ReadParts(cell, 4) = parts
      /\ ReadParts(cell, 5) = parts /\ ReadParts(cell, 6) = parts
      /\ \A k \in 7..15 : ReadParts(cell, k) = all
  <2> HIDE DEF parts, all
  <2>1. \A k \in 7..15 : ~(k <= 3) /\ ~(k <= 6)
    OBVIOUS
  <2>2. \A k : ReadParts(cell, k) = IF k <= 3 THEN <<>> ELSE IF k <= 6 THEN parts ELSE all
    BY <1>1 DEF ReadParts, parts
  <2> QED
    BY <2>1, <2>2
<1>5. /\ ReadLinks(cell, 2) = <<>> /\ ReadLinks(cell, 3) = <<>> /\ ReadLinks(cell, 4) = <<>>
      /\ ReadLinks(cell, 5) = Given(cell.href, link) /\ ReadLinks(cell, 6) = Given(cell.href, link)
      /\ \A k \in 7..15 : ReadLinks(cell, k) = Given(cell.href, link)
  <2>1. \A k \in 7..15 : ~(k <= 4)
    OBVIOUS
  <2>2. \A k : ReadLinks(cell, k) = IF k <= 4 THEN <<>> ELSE Given(cell.href, link)
    BY <1>2 DEF ReadLinks
  <2> HIDE DEF link
  <2> QED
    BY <2>1, <2>2
<1> HIDE DEF parts, link, all
<1>6. /\ ReadCell(cell, 1) = None
      /\ ReadCell(cell, 2) = Holding(cell, <<>>, <<>>) /\ ReadCell(cell, 3) = Holding(cell, <<>>, <<>>)
      /\ ReadCell(cell, 4) = Holding(cell, parts, <<>>)
      /\ ReadCell(cell, 5) = Holding(cell, parts, Given(cell.href, link))
      /\ ReadCell(cell, 6) = Holding(cell, parts, Given(cell.href, link))
  BY <1>4, <1>5 DEF ReadCell
<1>7. \A k \in 7..15 : ReadCell(cell, k) = Meant(cell)
  <2>1. \A k \in 7..15 : k # 1
    OBVIOUS
  <2> QED
    BY <1>3, <1>4, <1>5, <2>1 DEF ReadCell
<1>8. /\ ReadLink(cell, 3) = IF cell.href = None THEN None ELSE Linked(cell.href, <<>>)
      /\ ReadLink(cell, 4) = IF cell.href = None THEN None ELSE link
  BY DEF ReadLink, link
<1>9. \A k \in {1, 2} \union (5..15) : ReadLink(cell, k) = None
  <2>1. \A k \in {1, 2} \union (5..15) : k \notin {3, 4}
    OBVIOUS
  <2> QED
    BY <2>1 DEF ReadLink
<1>10. /\ ReadSmall(cell, 6) = (IF cell.small = None THEN 0 ELSE 1)
       /\ ReadSmall(cell, 7) = (IF cell.small = None THEN 0 ELSE 1)
  BY DEF ReadSmall
<1>11. \A k \in (1..5) \union (8..15) : ReadSmall(cell, k) = 0
  <2>1. \A k \in (1..5) \union (8..15) : k \notin {6, 7}
    OBVIOUS
  <2> QED
    BY <2>1 DEF ReadSmall
<1> QED
  BY <1>3, <1>6, <1>7, <1>8, <1>9, <1>10, <1>11 DEF parts, link, all

LEMMA ReadPoints ==
  ASSUME NEW cell
  PROVE  /\ ReadCell(cell, 7) = Meant(cell) /\ ReadCell(cell, 8) = Meant(cell)
         /\ ReadCell(cell, 15) = Meant(cell)
         /\ ReadLink(cell, 1) = None /\ ReadLink(cell, 2) = None /\ ReadLink(cell, 5) = None
         /\ ReadLink(cell, 6) = None /\ ReadLink(cell, 7) = None /\ ReadLink(cell, 8) = None
         /\ ReadSmall(cell, 1) = 0 /\ ReadSmall(cell, 2) = 0 /\ ReadSmall(cell, 3) = 0
         /\ ReadSmall(cell, 4) = 0 /\ ReadSmall(cell, 5) = 0 /\ ReadSmall(cell, 8) = 0
<1>1. /\ \A k \in 7..15 : ReadCell(cell, k) = Meant(cell)
      /\ \A k \in {1, 2} \union (5..15) : ReadLink(cell, k) = None
      /\ \A k \in (1..5) \union (8..15) : ReadSmall(cell, k) = 0
  BY ReadKnown
<1>2. /\ \A k \in {7, 8, 15} : k \in 7..15
      /\ \A k \in {1, 2, 5, 6, 7, 8} : k \in {1, 2} \union (5..15)
      /\ \A k \in {1, 2, 3, 4, 5, 8} : k \in (1..5) \union (8..15)
  OBVIOUS
<1> QED
  BY <1>1, <1>2

LEMMA PresentCell ==
  ASSUME NEW cell \in SourceCell, NEW step \in 2..15
  PROVE  ReadCell(cell, step) # None
<1> DEFINE part == [text |-> cell.text, small |-> FALSE]
           print == [text |-> cell.small, small |-> TRUE]
           parts == Given(cell.text, part)
           prints == Given(cell.small, print)
           text == Given(cell.text, cell.text)
           link == Linked(cell.href, text)
           links == Given(cell.href, link)
<1>1. /\ cell.tag \in {"td", "th"} /\ cell.span \in Nat
      /\ cell.text # None => cell.text \in Texts
      /\ cell.small # None => cell.small \in Texts
      /\ cell.href # None => cell.href \in Hrefs
  BY DEF SourceCell
<1>2. parts \in Seq(Part) /\ prints \in Seq(Part)
  <2>1. /\ cell.text # None => part \in Part
        /\ cell.small # None => print \in Part
    BY <1>1 DEF Part
  <2> HIDE DEF part, print
  <2> QED
    BY <2>1, GivenTyped
<1>3. links \in Seq(Link)
  <2>1. text \in Seq(Texts)
    BY <1>1, GivenTyped
  <2> HIDE DEF text
  <2>2. cell.href # None => link \in Link
    BY <1>1, <2>1 DEF Linked, Link
  <2> HIDE DEF link
  <2> QED
    BY <2>2, GivenTyped
<1>4. parts \o prints \in Seq(Part) /\ <<>> \in Seq(Part) /\ <<>> \in Seq(Link)
  <2> HIDE DEF parts, prints
  <2> QED
    BY <1>2
<1>5. ASSUME NEW some \in Seq(Part), NEW linked \in Seq(Link)
      PROVE  Holding(cell, some, linked) # None
  <2>1. Holding(cell, some, linked) \in Cell
    BY <1>1 DEF Holding, Cell
  <2> QED
    BY <2>1, NoneIsNothingElse
<1>6. \E some \in Seq(Part), linked \in Seq(Link) : ReadCell(cell, step) = Holding(cell, some, linked)
  <2>1. /\ ReadCell(cell, 2) = Holding(cell, <<>>, <<>>) /\ ReadCell(cell, 3) = Holding(cell, <<>>, <<>>)
        /\ ReadCell(cell, 4) = Holding(cell, parts, <<>>)
        /\ ReadCell(cell, 5) = Holding(cell, parts, links)
        /\ ReadCell(cell, 6) = Holding(cell, parts, links)
        /\ \A k \in 7..15 : ReadCell(cell, k) = Holding(cell, parts \o prints, links)
    BY ReadKnown
  <2> HIDE DEF parts, prints, links
  <2>2. step = 2 \/ step = 3 \/ step = 4 \/ step = 5 \/ step = 6 \/ step \in 7..15
    OBVIOUS
  <2> QED
    BY <1>2, <1>3, <1>4, <2>1, <2>2
<1> QED
  BY <1>5, <1>6

LEMMA SafeCell ==
  ASSUME NEW row, NEW number, NEW cell, cell = row.cells[number], cell \in SourceCell,
         row.damage = Intact, NEW step \in 1..15,
         NEW p \in Parsers, Tidy(p), p.depth > 0, p.row # None,
         p.cell = ReadCell(cell, step), p.link = ReadLink(cell, step), p.small = ReadSmall(cell, step),
         NEW q, q = Handle(p, CellToken(row, number, step))
  PROVE  SafeStep(cell, step, p, q)
<1> DEFINE text == cell.text
           href == cell.href
           small == cell.small
           part == [text |-> text, small |-> FALSE]
           print == [text |-> small, small |-> TRUE]
           parts == Given(text, part)
           link == Linked(href, Given(text, text))
           links == Given(href, link)
           token == CellToken(row, number, step)
<1>1. /\ cell.tag \in {"td", "th"} /\ cell.span \in Nat
      /\ text # None => text \in Texts
      /\ small # None => small \in Texts
      /\ href # None => href \in Hrefs
  BY DEF SourceCell
<1>2. /\ step = 1 => token = Start(cell.tag, cell.span)
      /\ step = 2 => token = If(href # None, Start("a", href))
      /\ step = 3 => token = If(text # None, Data(text))
      /\ step = 4 => token = If(href # None, End("a"))
      /\ step = 5 => token = If(small # None, Start("font", None))
      /\ step = 6 => token = If(small # None, Data(small))
      /\ step = 7 => token = If(small # None, End("font"))
      /\ step \in 8..14 => token = NoToken
      /\ step = 15 => token = End(cell.tag)
  <2>1. \A d \in {"nested", "open cell", "open link", "open small"} : ~Harmed(row, number, d)
    BY DEF Harmed, Intact
  <2> DEFINE other == row.cells[number]
  <2>6. /\ CellToken(row, number, 1) = Start(other.tag, other.span)
        /\ CellToken(row, number, 2) = If(other.href # None, Start("a", other.href))
        /\ CellToken(row, number, 3) = If(other.text # None, Data(other.text))
        /\ CellToken(row, number, 4) =
             If(other.href # None /\ ~Harmed(row, number, "open link"), End("a"))
        /\ CellToken(row, number, 5) = If(other.small # None, Start("font", None))
        /\ CellToken(row, number, 6) = If(other.small # None, Data(other.small))
        /\ CellToken(row, number, 7) =
             If(other.small # None /\ ~Harmed(row, number, "open small"), End("font"))
        /\ CellToken(row, number, 8) = If(Harmed(row, number, "nested"), Start("table", None))
        /\ CellToken(row, number, 9) = If(Harmed(row, number, "nested"), Start("tr", None))
        /\ CellToken(row, number, 10) = If(Harmed(row, number, "nested"), Start("td", 1))
        /\ CellToken(row, number, 11) = If(Harmed(row, number, "nested"), Data("inner"))
        /\ CellToken(row, number, 12) = If(Harmed(row, number, "nested"), End("td"))
        /\ CellToken(row, number, 13) = If(Harmed(row, number, "nested"), End("tr"))
        /\ CellToken(row, number, 14) = If(Harmed(row, number, "nested"), End("table"))
        /\ CellToken(row, number, 15) = If(~Harmed(row, number, "open cell"), End(other.tag))
    BY ONLY CellTokens
  <2>7. other = cell
    OBVIOUS
  <2> HIDE DEF other
  <2>2. /\ CellToken(row, number, 1) = Start(cell.tag, cell.span)
        /\ CellToken(row, number, 2) = If(href # None, Start("a", href))
        /\ CellToken(row, number, 3) = If(text # None, Data(text))
        /\ CellToken(row, number, 4) = If(href # None /\ ~Harmed(row, number, "open link"), End("a"))
        /\ CellToken(row, number, 5) = If(small # None, Start("font", None))
        /\ CellToken(row, number, 6) = If(small # None, Data(small))
        /\ CellToken(row, number, 7) = If(small # None /\ ~Harmed(row, number, "open small"), End("font"))
        /\ CellToken(row, number, 15) = If(~Harmed(row, number, "open cell"), End(cell.tag))
    BY ONLY <2>6, <2>7
  <2>3. \A k \in {8, 9, 10, 11, 12, 13, 14} : CellToken(row, number, k) = NoToken
    BY <2>1, <2>6 DEF If
  <2>4. step \in 8..14 => step \in {8, 9, 10, 11, 12, 13, 14}
    OBVIOUS
  <2>5. /\ CellToken(row, number, 4) = If(href # None, End("a"))
        /\ CellToken(row, number, 7) = If(small # None, End("font"))
        /\ CellToken(row, number, 15) = End(cell.tag)
    BY <2>1, <2>2 DEF If
  <2> QED
    BY <2>2, <2>3, <2>4, <2>5
<1>3. p.depth \in Nat /\ Handle(p, NoToken) = p /\ \A other : If(FALSE, other) = NoToken /\ If(TRUE, other) = other
  <2>1. p.depth \in Nat
    BY DEF Parsers
  <2> QED
    BY <2>1, QuietHandled DEF If
<1>4. p.cell # None => p.cell \in Cell
  BY DEF Parsers
<1>0. step # 1 => p.cell # None
  <2>1. step # 1 => step \in 2..15
    OBVIOUS
  <2> QED
    BY <2>1, PresentCell
<1>5. CASE step = 1
  <2>1. /\ p.cell = None /\ ReadCell(cell, 2) = Holding(cell, <<>>, <<>>)
        /\ ReadLink(cell, 2) = None /\ ReadSmall(cell, 2) = 0
    BY <1>5, ReadKnown, ReadPoints
  <2>2. q = Handle(p, Start(cell.tag, cell.span))
    BY <1>2, <1>5
  <2>3. /\ q.row = p.row /\ q.cell = NewCell(cell.tag, cell.span)
        /\ q.link = None /\ q.small = 0
    <3>1. cell.tag \in {"td", "th"} /\ cell.span \in Nat /\ p \in Parsers /\ Tidy(p) /\ p.depth > 0
      BY <1>1
    <3>2. p.row # None /\ p.cell = None
      BY <2>1
    <3> QED
      BY ONLY <2>2, <3>1, <3>2, TdStarted
  <2>4. NewCell(cell.tag, cell.span) = Holding(cell, <<>>, <<>>)
    BY DEF NewCell, Holding
  <2>5. 1 + 1 = 2
    OBVIOUS
  <2> QED
    BY <1>5, <2>1, <2>3, <2>4, <2>5 DEF SafeStep
<1>6. CASE step = 2
  <2>1. /\ p.cell = Holding(cell, <<>>, <<>>) /\ p.link = None /\ p.small = 0
        /\ ReadCell(cell, 3) = Holding(cell, <<>>, <<>>)
        /\ ReadLink(cell, 3) = (IF href = None THEN None ELSE Linked(href, <<>>))
        /\ ReadSmall(cell, 3) = 0
    BY <1>6, ReadKnown, ReadPoints
  <2>2. q.row = p.row /\ q.cell = p.cell /\ q.small = p.small
        /\ q.link = (IF href = None THEN None ELSE Linked(href, <<>>))
    <3>1. CASE href = None
      BY <1>2, <1>3, <1>6, <2>1, <3>1
    <3>2. CASE href # None
      <4>1. q = Handle(p, Start("a", href))
        BY <1>2, <1>3, <1>6, <3>2
      <4>2. p.cell # None
        BY <1>0, <1>6
      <4>3. q = [p EXCEPT !.link = NewLink(href)]
        BY <1>3, <2>1, <4>1, <4>2, QuietHandled
      <4> DEFINE new == NewLink(href)
      <4>4. new = Linked(href, <<>>)
        BY DEF NewLink, Linked
      <4> HIDE DEF new
      <4>5. q.row = p.row /\ q.cell = p.cell /\ q.small = p.small /\ q.link = new
        BY <4>3 DEF Parsers, new
      <4> QED
        BY <3>2, <4>4, <4>5
    <3> QED
      BY <3>1, <3>2
  <2>3. 2 + 1 = 3
    OBVIOUS
  <2> QED
    BY <1>6, <2>1, <2>2, <2>3 DEF SafeStep
<1>7. CASE step = 3
  <2>1. /\ p.cell = Holding(cell, <<>>, <<>>) /\ p.small = 0
        /\ p.link = (IF href = None THEN None ELSE Linked(href, <<>>))
        /\ ReadCell(cell, 4) = Holding(cell, parts, <<>>)
        /\ ReadLink(cell, 4) = (IF href = None THEN None ELSE link)
        /\ ReadSmall(cell, 4) = 0
    BY <1>7, ReadKnown, ReadPoints
  <2>2. q.row = p.row /\ q.cell = Holding(cell, parts, <<>>) /\ q.small = p.small
        /\ q.link = (IF href = None THEN None ELSE link)
    <3>1. CASE text = None
      <4>1. q = p
        BY <1>2, <1>3, <1>7, <3>1
      <4>2. parts = <<>> /\ Given(text, text) = <<>>
        BY <3>1 DEF Given
      <4> HIDE DEF parts
      <4> QED
        BY <2>1, <4>1, <4>2
    <3>2. CASE text # None
      <4>1. q = Handle(p, Data(text))
        BY <1>2, <1>3, <1>7, <3>2
      <4>2. p.cell # None /\ p.cell = Holding(cell, <<>>, <<>>)
        BY <1>0, <1>7, <2>1
      <4>10. TextKept(cell, <<>>, <<>>, text, p, q)
        BY ONLY <4>1, <4>2, TextHeld, p \in Parsers
      <4>3. /\ q.row = p.row /\ q.small = p.small
            /\ q.cell = Holding(cell, Append(<<>>, [text |-> text, small |-> p.small > 0]), <<>>)
            /\ p.link = None => q.link = None
            /\ p.link # None =>
                 \A h, t : p.link = Linked(h, t) => q.link = Linked(h, Append(t, text))
        BY <4>10 DEF TextKept
      <4>4. [text |-> text, small |-> p.small > 0] = part
        <5>1. (p.small > 0) = FALSE
          BY <2>1
        <5> QED
          BY <5>1
      <4>5. parts = <<part>> /\ Given(text, text) = <<text>>
        BY <3>2 DEF Given
      <4>6. Append(<<>>, part) = <<part>> /\ Append(<<>>, text) = <<text>>
        BY GivenKnown
      <4>7. q.cell = Holding(cell, parts, <<>>)
        BY <4>3, <4>4, <4>5, <4>6
      <4>8. href = None => q.link = None
        BY <2>1, <4>3
      <4>9. href # None => q.link = link
        <5>1. p.link # None
              => (p.link = Linked(href, <<>>) => q.link = Linked(href, Append(<<>>, text)))
          BY <4>3
        <5>2. ASSUME href # None
              PROVE  p.link = Linked(href, <<>>) /\ Linked(href, <<>>) # None
          <6>1. Linked(href, <<>>) \in Link
            BY <1>1, <5>2 DEF Linked, Link
          <6> QED
            BY <2>1, <5>2, <6>1, NoneIsNothingElse
        <5> QED
          BY <4>5, <4>6, <5>1, <5>2
      <4> QED
        BY <4>3, <4>7, <4>8, <4>9
    <3> QED
      BY <3>1, <3>2
  <2>3. 3 + 1 = 4
    OBVIOUS
  <2> QED
    BY <1>7, <2>1, <2>2, <2>3 DEF SafeStep
<1>8. CASE step = 4
  <2>1. /\ p.cell = Holding(cell, parts, <<>>) /\ p.small = 0
        /\ p.link = (IF href = None THEN None ELSE link)
        /\ ReadCell(cell, 5) = Holding(cell, parts, links)
        /\ ReadLink(cell, 5) = None
        /\ ReadSmall(cell, 5) = 0
    BY <1>8, ReadKnown, ReadPoints
  <2>2. q.row = p.row /\ q.cell = Holding(cell, parts, links) /\ q.small = p.small /\ q.link = None
    <3>1. CASE href = None
      <4>1. q = p
        BY <1>2, <1>3, <1>8, <3>1
      <4>2. links = <<>>
        BY <3>1 DEF Given
      <4> HIDE DEF links
      <4> QED
        BY <2>1, <3>1, <4>1, <4>2
    <3>2. CASE href # None
      <4>1. q = Handle(p, End("a"))
        BY <1>2, <1>3, <1>8, <3>2
      <4>2. p.cell # None /\ p.cell = Holding(cell, parts, <<>>)
        BY <1>0, <1>8, <2>1
      <4>3. p.link = link
        BY <2>1, <3>2
      <4>4. p.link # None
        <5>1. text # None => text \in Texts
          BY <1>1
        <5>2. Given(text, text) \in Seq(Texts)
          BY <5>1, GivenTyped
        <5>3. link \in Link
          BY <1>1, <3>2, <5>2 DEF Linked, Link
        <5> QED
          BY <4>3, <5>3, NoneIsNothingElse
      <4> HIDE DEF parts, link
      <4>7. LinkKept(cell, parts, <<>>, p, q)
        BY ONLY <4>1, <4>2, <4>4, LinkHeld, p \in Parsers, p.depth > 0
      <4>5. /\ q.row = p.row /\ q.small = p.small /\ q.link = None
            /\ q.cell = Holding(cell, parts, Append(<<>>, p.link))
        BY <4>7 DEF LinkKept
      <4>6. links = <<link>> /\ Append(<<>>, link) = <<link>>
        BY <3>2, GivenKnown DEF Given
      <4> QED
        BY <4>3, <4>5, <4>6
    <3> QED
      BY <3>1, <3>2
  <2>3. 4 + 1 = 5
    OBVIOUS
  <2> QED
    BY <1>8, <2>1, <2>2, <2>3 DEF SafeStep
<1>9. CASE step = 5
  <2>1. /\ p.cell = Holding(cell, parts, links) /\ p.link = None /\ p.small = 0
        /\ ReadCell(cell, 6) = Holding(cell, parts, links) /\ ReadLink(cell, 6) = None
        /\ ReadSmall(cell, 6) = (IF small = None THEN 0 ELSE 1)
    BY <1>9, ReadKnown, ReadPoints
  <2>2. q.row = p.row /\ q.cell = p.cell /\ q.link = p.link
        /\ q.small = (IF small = None THEN 0 ELSE 1)
    <3>1. CASE small = None
      <4>1. q = p
        BY <1>2, <1>3, <1>9, <3>1
      <4> QED
        BY <2>1, <3>1, <4>1
    <3>2. CASE small # None
      <4>0. p.cell # None
        BY <1>0, <1>9
      <4>5. token = If(small # None, Start("font", None))
        BY <1>2, <1>9
      <4>1. q = Handle(p, Start("font", None))
        BY <3>2, <4>5 DEF If
      <4>2. q = [p EXCEPT !.small = p.small + 1]
        BY <1>3, <4>0, <4>1, QuietHandled
      <4>3. q.row = p.row /\ q.cell = p.cell /\ q.link = p.link /\ q.small = p.small + 1
        BY <4>2 DEF Parsers
      <4>4. 0 + 1 = 1
        OBVIOUS
      <4> QED
        BY <2>1, <3>2, <4>3, <4>4
    <3> QED
      BY <3>1, <3>2
  <2>3. 5 + 1 = 6
    OBVIOUS
  <2> QED
    BY <1>9, <2>1, <2>2, <2>3 DEF SafeStep
<1>10. CASE step = 6
  <2>1. /\ p.cell = Holding(cell, parts, links) /\ p.link = None
        /\ p.small = (IF small = None THEN 0 ELSE 1)
        /\ ReadCell(cell, 7) = Holding(cell, parts \o Given(small, print), links)
        /\ ReadLink(cell, 7) = None
        /\ ReadSmall(cell, 7) = (IF small = None THEN 0 ELSE 1)
    BY <1>10, ReadKnown, ReadPoints
  <2>2. q.row = p.row /\ q.cell = Holding(cell, parts \o Given(small, print), links)
        /\ q.link = None /\ q.small = p.small
    <3>1. CASE small = None
      <4>1. q = p
        BY <1>2, <1>3, <1>10, <3>1
      <4>2. Given(small, print) = <<>> /\ parts \o <<>> = parts
        BY <3>1, GivenKnown DEF Given
      <4> QED
        BY <2>1, <4>1, <4>2
    <3>2. CASE small # None
      <4>1. q = Handle(p, Data(small))
        BY <1>2, <1>3, <1>10, <3>2
      <4>2. p.cell # None /\ p.cell = Holding(cell, parts, links)
        BY <1>0, <1>10, <2>1
      <4>3. [text |-> small, small |-> p.small > 0] = print
        <5>1. (p.small > 0) = TRUE
          BY <2>1, <3>2
        <5> QED
          BY <5>1
      <4>4. Given(small, print) = <<print>> /\ Append(parts, print) = parts \o <<print>>
        <5> HIDE DEF part, print
        <5>1. Append(parts, print) = parts \o <<print>>
          BY GivenKnown
        <5> QED
          BY <3>2, <5>1 DEF Given
      <4> HIDE DEF parts, links, print
      <4>6. TextKept(cell, parts, links, small, p, q)
        BY ONLY <4>1, <4>2, TextHeld, p \in Parsers
      <4>5. /\ q.row = p.row /\ q.small = p.small
            /\ q.cell = Holding(cell, Append(parts, [text |-> small, small |-> p.small > 0]), links)
            /\ p.link = None => q.link = None
        BY <4>6 DEF TextKept
      <4> QED
        BY <2>1, <4>3, <4>4, <4>5
    <3> QED
      BY <3>1, <3>2
  <2>3. 6 + 1 = 7
    OBVIOUS
  <2> QED
    BY <1>10, <2>1, <2>2, <2>3 DEF SafeStep
<1>11. CASE step = 7
  <2>1. /\ p.cell = Meant(cell) /\ p.link = None
        /\ p.small = (IF small = None THEN 0 ELSE 1)
        /\ ReadCell(cell, 8) = Meant(cell) /\ ReadLink(cell, 8) = None /\ ReadSmall(cell, 8) = 0
    BY <1>11, ReadKnown, ReadPoints
  <2>2. q.row = p.row /\ q.cell = p.cell /\ q.link = p.link /\ q.small = 0
    <3>1. CASE small = None
      BY <1>2, <1>3, <1>11, <2>1, <3>1
    <3>2. CASE small # None
      <4>1. q = Handle(p, End("font")) /\ p.small = 1
        BY <1>2, <1>3, <1>11, <2>1, <3>2
      <4>2. 1 > 0 /\ 1 - 1 = 0
        OBVIOUS
      <4>4. Handle(p, End("font")) = IF p.depth > 0 /\ p.small > 0
                                       THEN [p EXCEPT !.small = p.small - 1] ELSE p
        BY <1>3, QuietHandled
      <4>3. q = [p EXCEPT !.small = 0]
        BY <4>1, <4>2, <4>4
      <4> QED
        BY <4>3 DEF Parsers
    <3> QED
      BY <3>1, <3>2
  <2>3. 7 + 1 = 8
    OBVIOUS
  <2> QED
    BY <1>11, <2>1, <2>2, <2>3 DEF SafeStep
<1>12. CASE step \in 8..14
  <2>1. q = p
    BY <1>2, <1>3, <1>12
  <2>2. step \in 7..15 /\ step + 1 \in 7..15 /\ step \in 5..15 /\ step + 1 \in 5..15
        /\ step \in 8..15 /\ step + 1 \in 8..15 /\ step # 15
    BY <1>12
  <2>3. /\ p.cell = Meant(cell) /\ p.link = None /\ p.small = 0
        /\ ReadCell(cell, step + 1) = Meant(cell) /\ ReadLink(cell, step + 1) = None
        /\ ReadSmall(cell, step + 1) = 0
    BY <2>2, ReadKnown
  <2> QED
    BY <2>1, <2>2, <2>3 DEF SafeStep
<1>13. CASE step = 15
  <2>1. p.cell = Meant(cell) /\ p.cell # None
    BY <1>0, <1>13, ReadPoints
  <2>2. q = Handle(p, End(cell.tag))
    BY <1>2, <1>13
  <2>3. Tidy(q) /\ q.cell = None /\ q.row = Append(p.row, p.cell)
    <3>1. cell.tag \in {"td", "th"} /\ p \in Parsers /\ Tidy(p) /\ p.depth > 0
      BY <1>1
    <3>2. p.row # None /\ p.cell # None
      BY <2>1
    <3> QED
      BY ONLY <2>2, <3>1, <3>2, TdEnded
  <2> QED
    BY <1>13, <2>1, <2>3 DEF SafeStep, Tidy
<1>14. \/ step = 1 \/ step = 2 \/ step = 3 \/ step = 4 \/ step = 5 \/ step = 6 \/ step = 7
       \/ step \in 8..14 \/ step = 15
  OBVIOUS
<1> QED
  BY <1>5, <1>6, <1>7, <1>8, <1>9, <1>10, <1>11, <1>12, <1>13, <1>14

\* What was read of an undamaged row after one more step through a cell.
LEMMA SafeReadStep ==
  ASSUME page \in Pages, PlaceOK, Kept, SafeRead, InCell, ~Fed, page' = page,
         place' = After(page, place), parser' = Handle(parser, Token(page, place))
  PROVE  SafeRead'
<1> DEFINE r == place.row
           c == place.cell
           s == place.step
           cells == Current.cells
           m == Len(cells)
           cell == cells[c]
<1>1. /\ Reading /\ c \in 1..m /\ m \in Nat /\ r \in 1..Len(page.rows) /\ s \in 1..15
      /\ c \in Nat /\ c > 0 /\ c <= m /\ c # 0 /\ cell \in SourceCell
  <2>1. /\ Reading /\ c \in 1..m /\ m \in Nat /\ r \in 1..Len(page.rows) /\ s \in 1..15
        /\ cell \in SourceCell
    BY RowsKnown DEF InCell, PlaceOK, Reading, Current, CellSteps
  <2>2. c \in Nat /\ c > 0 /\ c <= m /\ c # 0
    <3>1. c \in 1..m /\ m \in Nat
      BY <2>1
    <3> HIDE DEF c, m
    <3> QED
      BY <3>1
  <2> QED
    BY <2>1, <2>2
<1>2. /\ Token(page, place) = CellToken(Current, c, s)
      /\ s < 15 => place' = [row |-> r, cell |-> c, step |-> s + 1]
      /\ s = 15 => place' = [row |-> r, cell |-> c + 1, step |-> 1]
  BY <1>1, TokensPlaced
<1>3. /\ s < 15 => place'.row = r /\ place'.cell = c /\ place'.step = s + 1
      /\ s = 15 => place'.row = r /\ place'.cell = c + 1 /\ place'.step = 1
      /\ s < 15 \/ s = 15
  BY <1>1, <1>2
<1>4. place'.row = r /\ Current' = Current /\ Safe' = Safe
  BY <1>1, <1>3, SameMeaning
<1>5. SUFFICES ASSUME r \in Safe
               PROVE  /\ parser'.row = [j \in 1..(place'.cell - 1) |-> Meant(cells[j])]
                      /\ place'.cell <= m =>
                           /\ parser'.cell = ReadCell(cells[place'.cell], place'.step)
                           /\ parser'.link = ReadLink(cells[place'.cell], place'.step)
                           /\ parser'.small = ReadSmall(cells[place'.cell], place'.step)
  BY <1>4 DEF SafeRead
<1>6. Current.damage = Intact
  BY <1>5 DEF Safe, Current
<1>7. /\ parser.row = [j \in 1..(c - 1) |-> Meant(cells[j])]
      /\ parser.cell = ReadCell(cell, s) /\ parser.link = ReadLink(cell, s)
      /\ parser.small = ReadSmall(cell, s)
  BY <1>1, <1>5 DEF SafeRead
<1>8. parser \in Parsers /\ Tidy(parser) /\ parser.depth > 0 /\ parser.row # None
      /\ parser.row \in Seq(Cell)
  <2>1. ~Spilled /\ ~InNested
    BY <1>6 DEF Spilled, InNested, Intact
  <2>2. r # 0 /\ ~(r > Len(page.rows) + 1)
    <3>1. Len(page.rows) \in Nat
      BY RowsKnown
    <3> QED
      BY <1>1, <3>1
  <2>3. Depth = 1
    BY <2>1, <2>2 DEF Depth
  <2>4. parser \in Parsers /\ Tidy(parser) /\ parser.depth = 1 /\ parser.row # None
    BY <1>1, <2>1, <2>3 DEF Kept, RowStands
  <2>5. parser.depth > 0
    <3>1. parser.depth = 1
      BY <2>4
    <3> QED
      BY <3>1
  <2> QED
    BY <2>4, <2>5 DEF Parsers
<1>9. SafeStep(cell, s, parser, parser')
  <2> DEFINE p == parser
             q == parser'
             row == Current
  <2>1. /\ cell = row.cells[c] /\ cell \in SourceCell /\ row.damage = Intact /\ s \in 1..15
        /\ p \in Parsers /\ Tidy(p) /\ p.depth > 0 /\ p.row # None
        /\ p.cell = ReadCell(cell, s) /\ p.link = ReadLink(cell, s) /\ p.small = ReadSmall(cell, s)
        /\ q = Handle(p, CellToken(row, c, s))
    BY <1>1, <1>2, <1>6, <1>7, <1>8
  <2> HIDE DEF p, q, row, cell, c, s
  <2>2. SafeStep(cell, s, p, q)
    BY ONLY <2>1, SafeCell
  <2> QED
    BY <2>2 DEF p, q
<1>10. CASE s < 15
  <2>1. s # 15 /\ place'.cell = c /\ place'.step = s + 1
    BY <1>1, <1>3, <1>10
  <2>2. /\ parser'.row = parser.row /\ parser'.cell = ReadCell(cell, s + 1)
        /\ parser'.link = ReadLink(cell, s + 1) /\ parser'.small = ReadSmall(cell, s + 1)
    BY <1>9, <2>1 DEF SafeStep
  <2> QED
    BY <1>7, <2>1, <2>2
<1>11. CASE s = 15
  <2>1. place'.cell = c + 1 /\ place'.step = 1
    BY <1>3, <1>11
  <2>2. parser'.row = Append(parser.row, Meant(cell)) /\ parser'.cell = None /\ parser'.link = None
        /\ parser'.small = 0
    BY <1>9, <1>11 DEF SafeStep
  <2>3. \A other : ReadCell(other, 1) = None /\ ReadLink(other, 1) = None /\ ReadSmall(other, 1) = 0
    BY ReadKnown, ReadPoints
  <2>4. Append(parser.row, Meant(cell)) = [j \in 1..c |-> Meant(cells[j])]
    <3> DEFINE meant(j) == Meant(cells[j])
               old == parser.row
               new == [j \in 1..c |-> meant(j)]
    <3>1. old = [j \in 1..(c - 1) |-> meant(j)] /\ meant(c) = Meant(cell) /\ c \in Nat /\ c - 1 \in Nat
      BY <1>1, <1>7
    <3> HIDE DEF meant, old, c, cell
    <3>2. Append(old, meant(c)) = new
      <4> DEFINE S == {meant(j) : j \in 1..c}
      <4>1. old \in Seq(S) /\ Len(old) = c - 1 /\ meant(c) \in S /\ new \in Seq(S) /\ Len(new) = c
        <5>1. \A j \in 1..(c - 1) : meant(j) \in S
          BY <3>1
        <5>2. \A j \in 1..c : meant(j) \in S
          OBVIOUS
        <5>3. c \in 1..c
          BY <1>1
        <5> HIDE DEF S
        <5> QED
          BY <3>1, <5>1, <5>2, <5>3
      <4>2. /\ \A j \in 1..(c - 1) : old[j] = meant(j)
            /\ \A j \in 1..c : new[j] = meant(j)
        BY <3>1
      <4> HIDE DEF S, new
      <4>3. /\ Append(old, meant(c)) \in Seq(S) /\ Len(Append(old, meant(c))) = c
            /\ \A j \in 1..c : Append(old, meant(c))[j] = new[j]
        <5>1. /\ Append(old, meant(c)) \in Seq(S) /\ Len(Append(old, meant(c))) = Len(old) + 1
              /\ \A j \in 1..Len(old) : Append(old, meant(c))[j] = old[j]
              /\ Append(old, meant(c))[Len(old) + 1] = meant(c)
          BY <4>1
        <5>2. Len(old) + 1 = c
          BY <3>1, <4>1
        <5>3. \A j \in 1..c : j \in 1..(c - 1) \/ j = c
          BY <3>1
        <5>4. c \in 1..c
          BY <3>1
        <5> QED
          BY <4>1, <4>2, <5>1, <5>2, <5>3, <5>4
      <4> QED
        BY <4>1, <4>3, SeqEqual
    <3> QED
      BY <3>1, <3>2 DEF meant, old
  <2>6. place'.cell - 1 = c
    <3>1. place'.cell = c + 1 /\ c \in Nat
      BY <1>1, <2>1
    <3> HIDE DEF c
    <3> QED
      BY <3>1
  <2>7. parser'.row = [j \in 1..(place'.cell - 1) |-> Meant(cells[j])]
    BY <2>2, <2>4, <2>6
  <2>8. /\ parser'.cell = ReadCell(cells[place'.cell], place'.step)
        /\ parser'.link = ReadLink(cells[place'.cell], place'.step)
        /\ parser'.small = ReadSmall(cells[place'.cell], place'.step)
    BY <2>1, <2>2, <2>3
  <2> QED
    BY <2>7, <2>8
<1> QED
  BY <1>3, <1>10, <1>11

\* A table under another id is passed over.
LEMMA PassedOver ==
  ASSUME page \in Pages, PlaceOK, ~Fed, ~page.named
  PROVE  Handle(NewParser, Token(page, place)) = NewParser
<1> DEFINE token == Token(page, place)
<1>1. NewParser.depth = 0 /\ NewParser.cell = None /\ NewParser.small = 0
  BY DEF NewParser
<1>2. \/ token \in Quiet \union {Start("table", None), End("table"), Start("tr", None), End("tr")}
      \/ \E tag \in {"td", "th"}, span \in Nat : token \in {Start(tag, span), End(tag)}
  <2>1. CASE place.row = 0
    BY <2>1, TokensPlaced
  <2>2. CASE place.row = Len(page.rows) + 1
    BY <2>2, TokensPlaced
  <2>3. CASE place.row = Len(page.rows) + 2
    <3>1. token = Data("footer")
      BY <2>3, TokensPlaced
    <3>2. token \in Quiet
      BY <3>1, NoneIsNothingElse DEF Quiet
    <3> QED
      BY <3>2
  <2>4. CASE Reading /\ place.cell = 0
    BY <2>4, TokensPlaced
  <2>5. CASE Reading /\ place.cell > Len(Current.cells)
    <3>1. token = If(Current.damage # "open row", End("tr"))
      BY <2>5, TokensPlaced
    <3>2. token = NoToken \/ token = End("tr")
      BY <3>1 DEF If
    <3> QED
      BY <3>2 DEF Quiet
  <2>6. CASE InCell
    <3> DEFINE row == Current
               c == place.cell
               s == place.step
               cell == row.cells[c]
    <3>1. cell \in SourceCell /\ s \in 1..15 /\ token = CellToken(row, c, s)
      <4>1. cell \in SourceCell /\ s \in 1..15
        BY <2>6, RowsKnown DEF InCell, PlaceOK, Reading, Current, CellSteps
      <4> QED
        BY <2>6, <4>1, TokensPlaced
    <3>2. /\ cell.tag \in {"td", "th"} /\ cell.span \in Nat
          /\ cell.text # None => cell.text \in Texts
          /\ cell.small # None => cell.small \in Texts
          /\ cell.href # None => cell.href \in Hrefs
      <4> HIDE DEF cell
      <4> QED
        BY <3>1 DEF SourceCell
    <3> HIDE DEF row, c, s, token
    <3>3. /\ CellToken(row, c, 1) = Start(cell.tag, cell.span)
          /\ CellToken(row, c, 2) = If(cell.href # None, Start("a", cell.href))
          /\ CellToken(row, c, 3) = If(cell.text # None, Data(cell.text))
          /\ CellToken(row, c, 4) = If(cell.href # None /\ ~Harmed(row, c, "open link"), End("a"))
          /\ CellToken(row, c, 5) = If(cell.small # None, Start("font", None))
          /\ CellToken(row, c, 6) = If(cell.small # None, Data(cell.small))
          /\ CellToken(row, c, 7) =
               If(cell.small # None /\ ~Harmed(row, c, "open small"), End("font"))
          /\ CellToken(row, c, 8) = If(Harmed(row, c, "nested"), Start("table", None))
          /\ CellToken(row, c, 9) = If(Harmed(row, c, "nested"), Start("tr", None))
          /\ CellToken(row, c, 10) = If(Harmed(row, c, "nested"), Start("td", 1))
          /\ CellToken(row, c, 11) = If(Harmed(row, c, "nested"), Data("inner"))
          /\ CellToken(row, c, 12) = If(Harmed(row, c, "nested"), End("td"))
          /\ CellToken(row, c, 13) = If(Harmed(row, c, "nested"), End("tr"))
          /\ CellToken(row, c, 14) = If(Harmed(row, c, "nested"), End("table"))
          /\ CellToken(row, c, 15) = If(~Harmed(row, c, "open cell"), End(cell.tag))
      BY ONLY CellTokens
    <3> HIDE DEF cell
    <3> DEFINE Passed(t) ==
          \/ t \in Quiet \union {Start("table", None), End("table"), Start("tr", None), End("tr")}
          \/ \E tag \in {"td", "th"}, span \in Nat : t \in {Start(tag, span), End(tag)}
    <3>4. \A t \in Quiet : Passed(t)
      OBVIOUS
    <3>5. Passed(Start("table", None)) /\ Passed(End("table")) /\ Passed(Start("tr", None))
          /\ Passed(End("tr"))
      OBVIOUS
    <3>6. \A tag \in {"td", "th"}, span \in Nat : Passed(Start(tag, span)) /\ Passed(End(tag))
      OBVIOUS
    <3>7. NoToken \in Quiet /\ Start("font", None) \in Quiet /\ End("a") \in Quiet
          /\ End("font") \in Quiet /\ Data("inner") \in Quiet
          /\ (\A h \in Hrefs : Start("a", h) \in Quiet) /\ \A t \in Texts : Data(t) \in Quiet
      <4>1. "inner" \in Texts
        BY NoneIsNothingElse
      <4> QED
        BY <4>1 DEF Quiet
    <3> HIDE DEF Passed
    <3>8. Passed(Start(cell.tag, cell.span)) /\ Passed(End(cell.tag))
      BY <3>2, <3>6
    <3>9. Passed(Start("td", 1)) /\ Passed(End("td"))
      BY <3>6
    <3>10. Passed(NoToken) /\ Passed(Start("font", None)) /\ Passed(End("a")) /\ Passed(End("font"))
           /\ Passed(Data("inner"))
      BY <3>4, <3>7
    <3>11. /\ cell.href # None => Passed(Start("a", cell.href))
           /\ cell.text # None => Passed(Data(cell.text))
           /\ cell.small # None => Passed(Data(cell.small))
      BY <3>2, <3>4, <3>7
    <3>12. /\ Passed(CellToken(row, c, 1)) /\ Passed(CellToken(row, c, 2))
           /\ Passed(CellToken(row, c, 3)) /\ Passed(CellToken(row, c, 4))
           /\ Passed(CellToken(row, c, 5)) /\ Passed(CellToken(row, c, 6))
           /\ Passed(CellToken(row, c, 7))
      BY <3>3, <3>8, <3>10, <3>11 DEF If
    <3>13. /\ Passed(CellToken(row, c, 8))
           /\ Passed(CellToken(row, c, 9)) /\ Passed(CellToken(row, c, 10))
           /\ Passed(CellToken(row, c, 11)) /\ Passed(CellToken(row, c, 12))
           /\ Passed(CellToken(row, c, 13)) /\ Passed(CellToken(row, c, 14))
           /\ Passed(CellToken(row, c, 15))
      BY <3>3, <3>5, <3>8, <3>9, <3>10 DEF If
    <3>14. s \in {1, 2, 3, 4, 5, 6, 7, 8, 9, 10, 11, 12, 13, 14, 15}
      BY <3>1
    <3>15. Passed(token)
      BY <3>1, <3>12, <3>13, <3>14
    <3> QED
      BY <3>15 DEF Passed
  <2> HIDE DEF token
  <2> QED
    BY <2>1, <2>2, <2>3, <2>4, <2>5, <2>6, TokensPlaced
<1> HIDE DEF token
<1>3. Handle(NewParser, token) = NewParser
  BY <1>1, <1>2, OutsideNothing
<1> QED
  BY <1>3 DEF token

\* Whatever is fed next, the parser stays where PageInv has it.
LEMMA FedStep ==
  ASSUME page \in Pages, PlaceOK, ParserInv, page.named, ~Fed, page' = page,
         place' = After(page, place), parser' = Handle(parser, Token(page, place))
  PROVE  ParserInv'
<1>1. Kept /\ SafeRead
  BY DEF ParserInv, Kept
<1>2. Kept' /\ SafeRead'
  <2>1. CASE place.row = 0
    BY <1>1, <2>1, TableStarted
  <2>2. CASE place.row > Len(page.rows)
    BY <1>1, <2>2, TableEnded
  <2>3. CASE Reading /\ place.cell = 0
    BY <1>1, <2>3, RowStarted
  <2>4. CASE Reading /\ place.cell > Len(Current.cells)
    BY <1>1, <2>4, RowEnded
  <2>5. CASE InCell
    BY <1>1, <2>5, CellStep, SafeReadStep
  <2>6. place.row = 0 \/ Reading \/ place.row > Len(page.rows)
    <3>1. Len(page.rows) \in Nat /\ place.row \in Nat
      BY RowsKnown DEF PlaceOK
    <3> QED
      BY <3>1 DEF Reading
  <2>7. Reading => place.cell = 0 \/ InCell \/ place.cell > Len(Current.cells)
    BY TokensPlaced
  <2> QED
    BY <2>1, <2>2, <2>3, <2>4, <2>5, <2>6, <2>7
<1> QED
  BY <1>2 DEF ParserInv, Kept

(* Tag by tag, _CatalogParser is in the tables, the row and the cell that  *)
(* the place in the page and the damage before it imply, and has of each   *)
(* row that is not damaged what was fed of it.                             *)
THEOREM PageInvariant == PageSpec => []PageInv
<1>1. PageInit => PageInv
  <2> SUFFICES ASSUME PageInit PROVE PageInv
    OBVIOUS
  <2>1. /\ page \in Pages /\ place = Beginning(0) /\ parser = NewParser /\ result = Unread
    BY DEF PageInit
  <2>2. place.row = 0 /\ place.cell = 0 /\ place.step = 1 /\ place \in [row : Nat, cell : Nat, step : Nat]
    BY <2>1 DEF Beginning
  <2>3. Len(page.rows) \in Nat /\ ~Reading
    BY <2>1, <2>2, RowsKnown DEF Reading
  <2>4. PlaceOK
    BY <2>2, <2>3 DEF PlaceOK
  <2>5. ParserInv
    <3>1. parser = [found |-> FALSE, rows |-> <<>>, depth |-> 0, row |-> None, cell |-> None,
                    link |-> None, small |-> 0]
      BY <2>1 DEF NewParser
    <3>2. parser \in Parsers /\ Tidy(parser)
      BY <3>1 DEF Parsers, Tidy
    <3>3. parser.found = (place.row > 0)
      <4>1. (place.row > 0) = FALSE /\ parser.found = FALSE
        BY <2>2, <3>1
      <4> QED
        BY <4>1
    <3>4. parser.depth = Depth /\ Len(parser.rows) = Counted
      BY <2>2, <3>1 DEF Depth, Counted
    <3>5. RowStands
      BY <2>2, <3>1 DEF RowStands
    <3>6. SafeRead
      BY <2>2 DEF SafeRead
    <3>7. SafeKept
      <4>1. \A i \in Safe : i \in 1..Len(page.rows)
        BY <2>1, RowsKnown DEF Safe
      <4>2. \A i \in Safe : ~(i < 0)
        BY <2>3, <4>1
      <4> QED
        BY <2>2, <4>2 DEF SafeKept
    <3> QED
      BY <3>2, <3>3, <3>4, <3>5, <3>6, <3>7 DEF ParserInv
  <2> QED
    BY <2>1, <2>4, <2>5 DEF PageInv
<1>2. PageInv /\ [PageNext]_pageVars => PageInv'
  <2> SUFFICES ASSUME PageInv, [PageNext]_pageVars PROVE PageInv'
    OBVIOUS
  <2>1. CASE Feed
    <3>1. ~Fed /\ place' = After(page, place) /\ parser' = Handle(parser, Token(page, place))
          /\ page' = page /\ result' = result
      BY <2>1 DEF Feed
    <3>2. page \in Pages /\ PlaceOK /\ result = Unread
      BY <3>1 DEF PageInv
    <3>3. PlaceOK'
      BY <3>1, <3>2, PlaceStep
    <3>4. CASE page.named
      <4>1. ParserInv
        BY <3>4 DEF PageInv
      <4>2. ParserInv'
        BY <3>1, <3>2, <3>4, <4>1, FedStep
      <4> QED
        BY <3>1, <3>2, <3>3, <3>4, <4>2 DEF PageInv
    <3>5. CASE ~page.named
      <4>1. parser = NewParser
        BY <3>5 DEF PageInv
      <4>2. parser' = NewParser
        BY <3>1, <3>2, <3>5, <4>1, PassedOver
      <4>3. NewParser' = NewParser
        BY DEF NewParser
      <4> QED
        BY <3>1, <3>2, <3>3, <3>5, <4>2, <4>3 DEF PageInv
    <3> QED
      BY <3>4, <3>5
  <2>2. CASE Finish \/ UNCHANGED pageVars
    <3>1. page' = page /\ place' = place /\ parser' = parser
      BY <2>2 DEF Finish, pageVars
    <3>2. PlaceOK' /\ page' \in Pages
      BY <3>1 DEF PageInv, PlaceOK, Reading, Current
    <3>3. IF page'.named THEN ParserInv' ELSE parser' = NewParser'
      <4>1. /\ Reading' = Reading /\ Current' = Current /\ InNested' = InNested /\ Spilled' = Spilled
            /\ Safe' = Safe
        BY <3>1 DEF Reading, Current, InNested, Spilled, Safe
      <4>2. Depth' = Depth /\ Counted' = Counted /\ Between' = Between
        BY <3>1, <4>1 DEF Depth, Counted, Between, Closed, Ended
      <4>3. RowStands' = RowStands /\ SafeRead' = SafeRead /\ SafeKept' = SafeKept
        BY <3>1, <4>1, <4>2 DEF RowStands, SafeRead, SafeKept, Closed, Ended, MeantRow
      <4>4. NewParser' = NewParser
        BY DEF NewParser
      <4> QED
        BY <3>1, <4>2, <4>3, <4>4 DEF PageInv, ParserInv
    <3>4. result' = Unread \/ (Fed' /\ result' = Outcome(parser'))
      BY <2>2, <3>1 DEF PageInv, Finish, pageVars, Fed, Unread
    <3> QED
      BY <3>2, <3>3, <3>4 DEF PageInv
  <2> QED
    BY <2>1, <2>2 DEF PageNext
<1> QED
  BY <1>1, <1>2, PTL DEF PageSpec

\* What the parser has when the whole of a named page was fed.
LEMMA AllRead ==
  ASSUME PageInv, page.named, result # Unread
  PROVE  /\ result = Outcome(parser) /\ parser.found = TRUE /\ page \in Pages
         /\ parser.rows \in Seq(Seq(Cell))
         /\ Len(parser.rows) = Closed(Len(page.rows))
         /\ Safe \subseteq 1..Len(page.rows)
         /\ \A i \in Safe : Closed(i) \in 1..Len(parser.rows) /\ parser.rows[Closed(i)] = MeantRow(i)
<1>1. page \in Pages /\ PlaceOK /\ ParserInv /\ Fed /\ result = Outcome(parser)
  BY DEF PageInv
<1>2. Len(page.rows) \in Nat /\ place.row \in Nat /\ Safe \subseteq 1..Len(page.rows)
  BY <1>1, RowsKnown DEF PlaceOK, Safe
<1>3. place.row > 0 /\ place.row > Len(page.rows) /\ place.row # 0
  BY <1>1, <1>2 DEF Fed
<1>4. \A i \in Safe : i < place.row
  BY <1>2, <1>3
<1>5. parser.found = TRUE
  BY <1>1, <1>3 DEF ParserInv
<1>6. Counted = Closed(Len(page.rows))
  BY <1>3 DEF Counted
<1> QED
  BY <1>1, <1>2, <1>4, <1>5, <1>6 DEF ParserInv, Parsers, SafeKept

\* If no row is damaged the parser has row for row what the page means.
LEMMA Undamaged ==
  ASSUME PageInv, page.named, result # Unread, Safe = DOMAIN page.rows
  PROVE  /\ Len(parser.rows) = Len(page.rows) /\ Safe = 1..Len(page.rows)
         /\ \A i \in Safe : Closed(i) = i /\ parser.rows[i] = MeantRow(i)
<1>1. page \in Pages /\ Len(parser.rows) = Closed(Len(page.rows))
      /\ \A i \in Safe : parser.rows[Closed(i)] = MeantRow(i)
  BY AllRead
<1>2. Len(page.rows) \in Nat /\ Safe = 1..Len(page.rows)
  BY <1>1, RowsKnown
<1>3. \A i \in 1..Len(page.rows) : page.rows[i].damage # "open row"
  BY <1>2 DEF Safe, Intact
<1>4. \A i \in 0..Len(page.rows) : Closed(i) = i
  BY <1>1, <1>3, ClosedKnown
<1>5. Len(page.rows) \in 0..Len(page.rows) /\ \A i \in 1..Len(page.rows) : i \in 0..Len(page.rows)
  BY <1>2
<1> QED
  BY <1>1, <1>2, <1>4, <1>5

(* Whatever a page's rows are like, parse_search_html finds each row that  *)
(* is not damaged, and does not follow a missing end of one, with exactly  *)
(* its cells, links and small print, in the order of the page.             *)
THEOREM DamageStaysLocal == PageSpec => []DamageIsLocal
<1>1. PageInv => DamageIsLocal
  <2> SUFFICES ASSUME PageInv, page.named, result # Unread
               PROVE  /\ \E position \in [Safe -> DOMAIN parser.rows] :
                           /\ \A i, j \in Safe : i < j => position[i] < position[j]
                           /\ \A i \in Safe : parser.rows[position[i]] = MeantRow(i)
                      /\ Safe = DOMAIN page.rows => Len(parser.rows) = Len(page.rows)
    BY DEF DamageIsLocal
  <2>1. /\ page \in Pages /\ parser.rows \in Seq(Seq(Cell)) /\ Safe \subseteq 1..Len(page.rows)
        /\ \A i \in Safe : Closed(i) \in 1..Len(parser.rows) /\ parser.rows[Closed(i)] = MeantRow(i)
    BY AllRead
  <2>2. DOMAIN parser.rows = 1..Len(parser.rows)
    BY <2>1
  <2>3. \A i, j \in Safe : i < j => Closed(i) < Closed(j)
    <3>1. \A j \in Safe : page.rows[j].damage # "open row"
      BY DEF Safe, Intact
    <3> QED
      BY <2>1, <3>1, ClosedKnown
  <2> DEFINE position == [i \in Safe |-> Closed(i)]
  <2>4. position \in [Safe -> DOMAIN parser.rows]
    BY <2>1, <2>2
  <2>5. /\ \A i, j \in Safe : i < j => position[i] < position[j]
        /\ \A i \in Safe : parser.rows[position[i]] = MeantRow(i)
    BY <2>1, <2>3
  <2>6. Safe = DOMAIN page.rows => Len(parser.rows) = Len(page.rows)
    BY Undamaged
  <2> HIDE DEF position
  <2> QED
    BY <2>4, <2>5, <2>6
<1> QED
  BY <1>1, PageInvariant, PTL

\* A header is no row of a known layout.
LEMMA HeaderHasNoRecord ==
  ASSUME NEW row \in Seq(Cell), IsHeader(row)
  PROVE  ~Supported(row) /\ RecordOf(row) = None
<1>1. 1 \in DOMAIN row
  BY DEF IsHeader
<1>2. row[1].tag = "th"
  BY <1>1 DEF IsHeader
<1>3. ~Supported(row)
  BY <1>1, <1>2 DEF Supported
<1> QED
  BY <1>3 DEF RecordOf

LEMMA BodyKnown ==
  ASSUME NEW S, NEW rows \in Seq(S), rows # <<>>
  PROVE  /\ Tail(rows) \in Seq(S) /\ Len(rows) \in Nat \ {0} /\ 1 \in 1..Len(rows)
         /\ Len(Tail(rows)) = Len(rows) - 1
         /\ \A i \in 2..Len(rows) : i - 1 \in 1..Len(Tail(rows)) /\ Tail(rows)[i - 1] = rows[i]
         /\ \A i \in 1..Len(Tail(rows)) : i + 1 \in 2..Len(rows) /\ Tail(rows)[i] = rows[i + 1]
<1>1. Len(rows) \in Nat \ {0}
  BY EmptySeq
<1>2. Tail(rows) \in Seq(S) /\ Len(Tail(rows)) = Len(rows) - 1
  BY HeadTailProperties
<1>3. \A i \in 1..Len(Tail(rows)) : Tail(rows)[i] = rows[i + 1]
  BY HeadTailProperties
<1> DEFINE body == Tail(rows)
           n == Len(rows)
<1>4. n \in Nat \ {0} /\ Len(body) = n - 1 /\ \A i \in 1..Len(body) : body[i] = rows[i + 1]
  BY <1>1, <1>2, <1>3
<1> HIDE DEF body, n
<1>5. ASSUME NEW i \in 2..n
      PROVE  i - 1 \in 1..Len(body) /\ body[i - 1] = rows[i]
  <2>1. i - 1 \in 1..Len(body) /\ i - 1 + 1 = i
    BY <1>4
  <2> QED
    BY <1>4, <2>1
<1>6. ASSUME NEW i \in 1..Len(body)
      PROVE  i + 1 \in 2..n
  BY <1>4
<1>7. 1 \in 1..n
  BY <1>4
<1> QED
  BY <1>1, <1>2, <1>3, <1>5, <1>6, <1>7 DEF body, n

\* The records of the rows behind a header.
LEMMA RecordsKnown ==
  ASSUME NEW body \in Seq(Seq(Cell))
  PROVE  LET records == [i \in DOMAIN body |-> RecordOf(body[i])]
             P == NewFirsts(records, {None})
             t == Records(body) IN
           /\ DOMAIN t = 1..Len(t) /\ Len(t) \in Nat
           /\ \A k \in 1..Len(t) :
                Place(P, k) \in 1..Len(body) /\ t[k] = RecordOf(body[Place(P, k)]) /\ t[k] # None
           /\ \A k, l \in 1..Len(t) : k < l => Place(P, k) < Place(P, l)
           /\ \A k, l \in 1..Len(t) : t[k] = t[l] => k = l
           /\ \A i \in 1..Len(body) :
                RecordOf(body[i]) # None =>
                  \E k \in 1..Len(t) : t[k] = RecordOf(body[i]) /\ Place(P, k) <= i
<1> DEFINE records == [i \in DOMAIN body |-> RecordOf(body[i])]
           P == NewFirsts(records, {None})
           t == Records(body)
           S == {RecordOf(body[i]) : i \in DOMAIN body}
<1>1. DOMAIN body = 1..Len(body) /\ Len(body) \in Nat
  OBVIOUS
<1>2. records \in Seq(S) /\ Len(records) = Len(body)
      /\ \A i \in 1..Len(body) : records[i] = RecordOf(body[i])
  <2>1. \A i \in 1..Len(body) : RecordOf(body[i]) \in S
    BY <1>1
  <2> HIDE DEF S
  <2> QED
    BY <1>1, <2>1
<1>3. t = Selected(records, P)
  BY DEF Records
<1> HIDE DEF records, S, t
<1>4. LET u == Selected(records, P) IN
           /\ u \in Seq(S) /\ Len(u) \in Nat /\ Len(u) <= Len(records)
           /\ \A k \in 1..Len(u) :
                Place(P, k) \in 1..Len(records) /\ u[k] = records[Place(P, k)] /\ u[k] \notin {None}
           /\ \A k, l \in 1..Len(u) : k < l <=> Place(P, k) < Place(P, l)
           /\ \A k, l \in 1..Len(u) : u[k] = u[l] => k = l
           /\ \A i \in 1..Len(records) :
                records[i] \notin {None} => \E k \in 1..Len(u) : u[k] = records[i] /\ Place(P, k) <= i
  BY <1>2, DistinctKnown
<1> HIDE DEF P
<1>5. DOMAIN t = 1..Len(t) /\ Len(t) \in Nat
  BY <1>3, <1>4
<1>6. \A k \in 1..Len(t) :
        Place(P, k) \in 1..Len(body) /\ t[k] = RecordOf(body[Place(P, k)]) /\ t[k] # None
  BY <1>2, <1>3, <1>4
<1>7. /\ \A k, l \in 1..Len(t) : k < l => Place(P, k) < Place(P, l)
      /\ \A k, l \in 1..Len(t) : t[k] = t[l] => k = l
  BY <1>3, <1>4
<1>8. \A i \in 1..Len(body) :
        RecordOf(body[i]) # None =>
          \E k \in 1..Len(t) : t[k] = RecordOf(body[i]) /\ Place(P, k) <= i
  BY <1>2, <1>3, <1>4
<1> QED
  BY <1>5, <1>6, <1>7, <1>8 DEF P, records, t

\* Where a sound row is behind a header, and that it is of a known layout.
LEMMA SoundRead ==
  ASSUME PageInv, page.named, result # Unread, parser.rows # <<>>, IsHeader(parser.rows[1]),
         NEW i \in Sound
  PROVE  LET body == Tail(parser.rows) IN
         /\ Closed(i) - 1 \in 1..Len(body)
         /\ body[Closed(i) - 1] = MeantRow(i)
         /\ Supported(MeantRow(i)) /\ RecordOf(MeantRow(i)) # None
<1>1. i \in Safe /\ RecordOf(MeantRow(i)) # None
  BY DEF Sound
<1>2. Supported(MeantRow(i))
  BY <1>1 DEF RecordOf
<1>3. /\ parser.rows \in Seq(Seq(Cell))
      /\ Closed(i) \in 1..Len(parser.rows) /\ parser.rows[Closed(i)] = MeantRow(i)
  BY <1>1, AllRead
<1> DEFINE rows == parser.rows
           k == Closed(i)
<1>4. Len(rows) \in Nat /\ 1 \in 1..Len(rows)
      /\ \A j \in 2..Len(rows) : j - 1 \in 1..Len(Tail(rows)) /\ Tail(rows)[j - 1] = rows[j]
  BY <1>3, BodyKnown
<1>5. rows[1] \in Seq(Cell)
  BY <1>3, <1>4
<1>6. k # 1
  BY <1>1, <1>3, <1>5, HeaderHasNoRecord
<1>7. k \in 2..Len(rows)
  <2>1. k \in 1..Len(rows) /\ Len(rows) \in Nat
    BY <1>3, <1>4
  <2> HIDE DEF k, rows
  <2> QED
    BY <1>6, <2>1
<1> QED
  BY <1>1, <1>2, <1>3, <1>4, <1>7

(* Whatever a page's rows are like, no sound row of it is missing from     *)
(* what parse_search_html returns, nothing is returned twice, and rows of  *)
(* unknown layouts alone are an error, never an empty list.                *)
THEOREM DriftNeverAnswers == PageSpec => []DriftIsNoAnswer
<1>1. PageInv => DriftIsNoAnswer
  <2> DEFINE listed == result.records
             md5(i) == RecordOf(MeantRow(i))
             rows == parser.rows
             body == Tail(rows)
             records == [i \in DOMAIN body |-> RecordOf(body[i])]
             P == NewFirsts(records, {None})
  <2> SUFFICES ASSUME PageInv, result # Unread
               PROVE  /\ ~page.named => result = LayoutError
                      /\ result.kind = "records" =>
                           /\ \A i \in Sound : \E k \in DOMAIN listed : listed[k] = md5(i)
                           /\ \A k, l \in DOMAIN listed : listed[k] = listed[l] => k = l
                           /\ Safe = DOMAIN page.rows =>
                                \E first \in [DOMAIN listed -> Sound] :
                                  /\ \A k, l \in DOMAIN listed : k < l => first[k] < first[l]
                                  /\ \A k \in DOMAIN listed :
                                       listed[k] = md5(first[k])
                                         /\ \A i \in 1..(first[k] - 1) : md5(i) # md5(first[k])
                      /\ result = LayoutError /\ page.named /\ 1 \in Safe /\ IsHeader(MeantRow(1))
                           => Sound = {}
                      /\ result = [kind |-> "records", records |-> <<>>] =>
                           Len(parser.rows) = 1 \/ \E i \in DOMAIN parser.rows : Supported(parser.rows[i])
    BY DEF DriftIsNoAnswer
  <2>1. CASE ~page.named
    <3>1. result = Outcome(parser) /\ parser = NewParser
      BY <2>1 DEF PageInv
    <3>2. result = LayoutError
      BY <3>1 DEF Outcome, NewParser
    <3>3. result.kind # "records"
      BY <3>2 DEF LayoutError
    <3>4. result # [kind |-> "records", records |-> <<>>]
      BY <3>3
    <3> QED
      BY <2>1, <3>2, <3>3, <3>4
  <2>2. CASE page.named
    <3>1. /\ result = Outcome(parser) /\ parser.found = TRUE /\ page \in Pages
          /\ rows \in Seq(Seq(Cell)) /\ DOMAIN rows = 1..Len(rows)
          /\ Safe \subseteq 1..Len(page.rows)
      <4>1. /\ result = Outcome(parser) /\ parser.found = TRUE /\ page \in Pages
            /\ rows \in Seq(Seq(Cell)) /\ Safe \subseteq 1..Len(page.rows)
        BY <2>2, AllRead
      <4> HIDE DEF rows
      <4>2. DOMAIN rows = 1..Len(rows)
        BY <4>1
      <4> QED
        BY <4>1, <4>2
    <3>2. ASSUME result.kind = "records"
          PROVE  /\ rows # <<>> /\ IsHeader(rows[1]) /\ ~Drifted(body)
                 /\ listed = Records(body)
      BY <3>1, <3>2 DEF Outcome, LayoutError
    <3>8. ASSUME result.kind = "records"
          PROVE  /\ DOMAIN listed = 1..Len(listed) /\ Len(listed) \in Nat
                 /\ \A k \in 1..Len(listed) :
                      Place(P, k) \in 1..Len(body) /\ listed[k] = RecordOf(body[Place(P, k)])
                        /\ listed[k] # None
                 /\ \A k, l \in 1..Len(listed) : k < l => Place(P, k) < Place(P, l)
                 /\ \A k, l \in 1..Len(listed) : listed[k] = listed[l] => k = l
                 /\ \A i \in 1..Len(body) :
                      RecordOf(body[i]) # None =>
                        \E k \in 1..Len(listed) : listed[k] = RecordOf(body[i]) /\ Place(P, k) <= i
      <4>1. listed = Records(body) /\ body \in Seq(Seq(Cell))
        BY <3>1, <3>2, <3>8, BodyKnown
      <4> HIDE DEF body, listed
      <4> QED
        BY <4>1, RecordsKnown
    <3>3. ASSUME result.kind = "records", NEW i \in Sound
          PROVE  \E k \in DOMAIN listed : listed[k] = md5(i)
      <4>1. /\ Closed(i) - 1 \in 1..Len(body) /\ body[Closed(i) - 1] = MeantRow(i)
            /\ md5(i) # None
        BY <2>2, <3>2, <3>3, SoundRead
      <4>3. /\ DOMAIN listed = 1..Len(listed)
            /\ \A j \in 1..Len(body) :
                 RecordOf(body[j]) # None => \E k \in 1..Len(listed) : listed[k] = RecordOf(body[j])
        <5> HIDE DEF P, body, listed
        <5> QED
          BY <3>3, <3>8
      <4> HIDE DEF body, listed
      <4> QED
        BY <4>1, <4>3
    <3>4. ASSUME result.kind = "records"
          PROVE  \A k, l \in DOMAIN listed : listed[k] = listed[l] => k = l
      <4> HIDE DEF P, body, listed
      <4> QED
        BY <3>4, <3>8
    <3>5. ASSUME result.kind = "records", Safe = DOMAIN page.rows
          PROVE  \E first \in [DOMAIN listed -> Sound] :
                   /\ \A k, l \in DOMAIN listed : k < l => first[k] < first[l]
                   /\ \A k \in DOMAIN listed :
                        listed[k] = md5(first[k])
                          /\ \A i \in 1..(first[k] - 1) : md5(i) # md5(first[k])
      <4>1. /\ body \in Seq(Seq(Cell)) /\ 1 \in 1..Len(rows)
            /\ \A i \in 1..Len(body) : i + 1 \in 2..Len(rows) /\ body[i] = rows[i + 1]
            /\ \A i \in 2..Len(rows) : i - 1 \in 1..Len(body) /\ body[i - 1] = rows[i]
            /\ Len(body) \in Nat /\ Len(rows) \in Nat
        BY <3>1, <3>2, <3>5, BodyKnown
      <4>2. Safe = 1..Len(rows) /\ \A i \in 1..Len(rows) : rows[i] = MeantRow(i)
        BY <2>2, <3>5, Undamaged
      <4>3. /\ DOMAIN listed = 1..Len(listed) /\ Len(listed) \in Nat
            /\ \A k \in 1..Len(listed) :
                 Place(P, k) \in 1..Len(body) /\ listed[k] = RecordOf(body[Place(P, k)])
                   /\ listed[k] # None
            /\ \A k, l \in 1..Len(listed) : k < l => Place(P, k) < Place(P, l)
            /\ \A k, l \in 1..Len(listed) : listed[k] = listed[l] => k = l
            /\ \A i \in 1..Len(body) :
                 RecordOf(body[i]) # None =>
                   \E k \in 1..Len(listed) : listed[k] = RecordOf(body[i]) /\ Place(P, k) <= i
        BY ONLY <3>5, <3>8
      <4>4. md5(1) = None
        <5>1. rows[1] \in Seq(Cell) /\ IsHeader(rows[1])
          BY <3>1, <3>2, <3>5, <4>1
        <5> QED
          BY <4>1, <4>2, <5>1, HeaderHasNoRecord
      <4> DEFINE first == [k \in DOMAIN listed |-> Place(P, k) + 1]
      <4> HIDE DEF P, body, listed, rows
      <4>5. ASSUME NEW k \in DOMAIN listed
            PROVE  /\ Place(P, k) + 1 \in Sound /\ listed[k] = md5(Place(P, k) + 1)
                   /\ Place(P, k) \in Nat
        <5>1. /\ Place(P, k) \in 1..Len(body) /\ listed[k] = RecordOf(body[Place(P, k)])
              /\ listed[k] # None
          BY <4>3
        <5>2. Place(P, k) + 1 \in 2..Len(rows) /\ body[Place(P, k)] = rows[Place(P, k) + 1]
          BY <4>1, <5>1
        <5>3. Place(P, k) + 1 \in 1..Len(rows)
          BY <4>1, <5>2
        <5>4. body[Place(P, k)] = MeantRow(Place(P, k) + 1)
          BY <4>2, <5>2, <5>3
        <5> QED
          BY <4>2, <5>1, <5>3, <5>4 DEF Sound
      <4>6. first \in [DOMAIN listed -> Sound]
        BY <4>5
      <4>7. \A k, l \in DOMAIN listed : k < l => first[k] < first[l]
        <5> SUFFICES ASSUME NEW k \in DOMAIN listed, NEW l \in DOMAIN listed, k < l
                     PROVE  Place(P, k) + 1 < Place(P, l) + 1
          OBVIOUS
        <5>1. Place(P, k) < Place(P, l) /\ Place(P, k) \in Nat /\ Place(P, l) \in Nat
          BY <4>3, <4>5
        <5> QED
          BY <5>1
      <4>8. ASSUME NEW k \in DOMAIN listed, NEW i \in 1..(first[k] - 1), md5(i) = md5(first[k])
            PROVE  FALSE
        <5>1. first[k] = Place(P, k) + 1 /\ Place(P, k) \in 1..Len(body) /\ k \in 1..Len(listed)
          BY <4>3
        <5>2. listed[k] = md5(i) /\ listed[k] # None
          BY <4>3, <4>5, <4>8, <5>1
        <5>3. i # 1
          BY <4>4, <5>2
        <5>4. Len(body) \in Nat /\ Place(P, k) + 1 \in 2..Len(rows)
          BY <4>1, <5>1
        <5> DEFINE here == Place(P, k)
        <5>5. here \in Nat /\ here + 1 <= Len(rows) /\ i \in 1..(here + 1 - 1) /\ Len(rows) \in Nat
          BY <4>1, <4>8, <5>1, <5>4
        <5> HIDE DEF here
        <5>6. i \in 2..Len(rows) /\ i \in 1..Len(rows) /\ i - 1 < here /\ i - 1 \in Nat
          BY <5>3, <5>5
        <5>7. i - 1 \in 1..Len(body) /\ RecordOf(body[i - 1]) = md5(i)
          BY <4>1, <4>2, <5>6
        <5>8. PICK l \in 1..Len(listed) : listed[l] = md5(i) /\ Place(P, l) <= i - 1
          BY <4>3, <5>2, <5>7
        <5>9. l = k
          BY <4>3, <5>1, <5>2, <5>8
        <5>10. here <= i - 1
          BY <5>8, <5>9 DEF here
        <5> QED
          BY <5>5, <5>6, <5>10
      <4>9. \A k \in DOMAIN listed :
              listed[k] = md5(first[k]) /\ \A i \in 1..(first[k] - 1) : md5(i) # md5(first[k])
        BY <4>5, <4>8
      <4> HIDE DEF first, md5
      <4> QED
        BY <4>6, <4>7, <4>9
    <3>6. ASSUME result = LayoutError, 1 \in Safe, IsHeader(MeantRow(1)), NEW i \in Sound
          PROVE  FALSE
      <4>1. Closed(1) = 1
        <5>1. 1 \in 1..Len(page.rows) /\ page.rows[1].damage # "open row"
          BY <3>1, <3>6 DEF Safe, Intact
        <5>2. Closed(1) = Closed(1 - 1) + 1
          BY <3>1, <5>1, ClosedKnown
        <5>3. Closed(0) = 0
          BY <3>1, ClosedKnown
        <5>4. 1 - 1 = 0 /\ 0 + 1 = 1
          OBVIOUS
        <5> QED
          BY <5>2, <5>3, <5>4
      <4>2. 1 \in 1..Len(rows) /\ rows[1] = MeantRow(1)
        BY <2>2, <3>6, <4>1, AllRead
      <4>3. rows # <<>>
        BY <4>2
      <4>4. Drifted(body)
        <5>1. [kind |-> "records", records |-> Records(body)] # LayoutError
          BY DEF LayoutError
        <5> HIDE DEF body
        <5> QED
          BY <3>1, <3>6, <4>2, <4>3, <5>1 DEF Outcome, body
      <4>5. Closed(i) - 1 \in 1..Len(body) /\ Supported(body[Closed(i) - 1])
        BY <2>2, <3>6, <4>2, <4>3, SoundRead
      <4>6. body \in Seq(Seq(Cell))
        BY <3>1, <4>3, BodyKnown
      <4>7. DOMAIN body = 1..Len(body)
        BY <4>6
      <4> HIDE DEF body
      <4> QED
        BY <4>4, <4>5, <4>7 DEF Drifted
    <3>7. ASSUME result = [kind |-> "records", records |-> <<>>]
          PROVE  Len(rows) = 1 \/ \E i \in DOMAIN rows : Supported(rows[i])
      <4>1. result.kind = "records"
        BY <3>7
      <4>2. rows # <<>> /\ ~Drifted(body)
        BY <3>2, <4>1
      <4>3. /\ body \in Seq(Seq(Cell)) /\ Len(rows) \in Nat /\ Len(body) = Len(rows) - 1
            /\ \A i \in 1..Len(body) : i + 1 \in 2..Len(rows) /\ body[i] = rows[i + 1]
        BY <3>1, <4>2, BodyKnown
      <4> HIDE DEF body
      <4>4. DOMAIN body = 1..Len(body)
        BY <4>3
      <4>5. CASE body = <<>>
        <5>1. Len(body) = 0
          BY <4>5
        <5> QED
          BY <4>3, <5>1
      <4>6. CASE body # <<>>
        <5>1. PICK i \in 1..Len(body) : Supported(body[i])
          BY <4>2, <4>4, <4>6 DEF Drifted
        <5>2. i + 1 \in 2..Len(rows) /\ body[i] = rows[i + 1]
          BY <4>3
        <5>3. 2..Len(rows) \subseteq 1..Len(rows)
          BY <4>3
        <5>4. i + 1 \in 1..Len(rows) /\ Supported(rows[i + 1])
          BY <5>1, <5>2, <5>3
        <5> QED
          BY <3>1, <5>4
      <4> QED
        BY <4>5, <4>6
    <3> QED
      BY <2>2, <3>3, <3>4, <3>5, <3>6, <3>7
  <2> QED
    BY <2>1, <2>2
<1> QED
  BY <1>1, PageInvariant, PTL
=============================================================================
