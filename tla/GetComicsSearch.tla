-------------------------- MODULE GetComicsSearch --------------------------
(***************************************************************************)
(* POST /v1/search of the GetComics provider (service.py, app.py): the     *)
(* queries of GetComicsQueries are sent one after the other, each answered *)
(* by a page of candidates, until the requested issue is found or a        *)
(* collection's limit is reached.  The packs of an issue are only asked    *)
(* for if no exact query found it.                                         *)
(*                                                                         *)
(* The service keeps no state, so that one request stands for all.         *)
(***************************************************************************)
EXTENDS GetComicsQueries, FiniteSets

CONSTANTS
  Intents,     \* intents that are searched for
  Ids,         \* identities of releases
  PageLimit,   \* the limit of the request
  MaxPage      \* bound: candidates on a page

Limit == PageLimit + 1  \* what the handler asks the service for

\* parse_search_html lists a release once per page.  The same release may go
\* by titles that cover an issue on one page and not on another.
Candidate == [id : Ids, covers : BOOLEAN]
Pages ==
  {page \in BoundedSeq(Candidate, MaxPage) :
     \A i, j \in DOMAIN page : page[i].id = page[j].id => i = j}

VARIABLES
  pc,
  intent,
  asked,     \* how many queries of the intent's plan were answered
  exact,     \* candidates of the exact queries
  packs,     \* candidates of the fallback queries
  reply

vars == <<pc, intent, asked, exact, packs, reply>>

NoReply == [kind |-> "none", candidates |-> <<>>, truncated |-> FALSE]

Init ==
  /\ pc = "idle"
  /\ intent \in Intents
  /\ asked = 0
  /\ exact = <<>>
  /\ packs = <<>>
  /\ reply = NoReply

-----------------------------------------------------------------------------
(* Candidates.                                                             *)

IdsOf(candidates) == {candidates[i].id : i \in DOMAIN candidates}

\* _candidate_covers_intent
Covers(candidate) == intent.issue # Absent /\ candidate.covers

\* _has_requested_issue_coverage
HasCoverage(candidates) == \E i \in DOMAIN candidates : Covers(candidates[i])

Covering(candidates) == Selected(candidates, {i \in DOMAIN candidates : Covers(candidates[i])})
Others(candidates) == Selected(candidates, {i \in DOMAIN candidates : ~Covers(candidates[i])})

\* _prioritize_requested_issue_coverage
CoveringFirst(candidates) == Covering(candidates) \o Others(candidates)

\* Fault: the two lists do not know of each other's candidates.
NewPerList(page, candidates) ==
  Selected(page, {i \in DOMAIN page : page[i].id \notin IdsOf(candidates)})

\* _append_search_candidates: seen_candidate_ids is shared by both lists.
New(page, candidates) ==
  Selected(page, {i \in DOMAIN page : page[i].id \notin IdsOf(exact) \union IdsOf(packs)})

\* Fault: the exact candidates stay in front of every pack.
MergedInOrder(candidates, others) == candidates \o others

\* Packs that contain the issue, then the exact candidates, then the rest.
Merged(candidates, others) == Covering(others) \o candidates \o Others(others)

\* Fault: a collection is cut when its page is full, and nothing tells that.
FullWithoutSpare(candidates) == intent.collection /\ Len(candidates) >= PageLimit

\* The early exit of collections.
Full(candidates) == intent.collection /\ Len(candidates) >= Limit

\* A pack with the issue, or no fallback query left.
PacksDone(count, others) ==
  \/ HasCoverage(others)
  \/ count = Len(ExactQueries(intent)) + Len(FallbackQueries(intent))

\* The service's cut to Limit and the handler's to PageLimit.
Respond(candidates) ==
  [kind |-> IF candidates = <<>> THEN "empty" ELSE "found",
   candidates |-> First(candidates, PageLimit),
   truncated |-> Len(First(candidates, Limit)) > PageLimit]

-----------------------------------------------------------------------------
(* The request.                                                            *)

\* A passed deadline.
Refuse ==
  /\ pc = "idle"
  /\ pc' = "over"
  /\ reply' = [NoReply EXCEPT !.kind = "deadline"]
  /\ UNCHANGED <<intent, asked, exact, packs>>

Begin ==
  /\ pc = "idle"
  /\ pc' = "exact"
  /\ UNCHANGED <<intent, asked, exact, packs, reply>>

\* An exact query is answered.  The issue found, a collection's limit
\* reached, or nothing more to ask ends the search.
ExactLists ==
  /\ pc = "exact"
  /\ \E page \in Pages : exact' = exact \o New(page, exact)
  /\ asked' = asked + 1
  /\ LET found == ~intent.collection /\ HasCoverage(exact')
         last == asked' = Len(ExactQueries(intent))
         broader == FallbackQueries(intent) # <<>> IN
       \/ found /\ pc' = "over" /\ reply' = Respond(CoveringFirst(exact'))
       \/ ~found /\ ~Full(exact') /\ ~last /\ UNCHANGED <<pc, reply>>
       \/ ~found /\ ~Full(exact') /\ last /\ broader /\ pc' = "packs" /\ UNCHANGED reply
       \/ /\ ~found /\ (Full(exact') \/ (last /\ ~broader))
          /\ pc' = "over" /\ reply' = Respond(exact')
  /\ UNCHANGED <<intent, packs>>

\* A fallback query is answered.
PacksList ==
  /\ pc = "packs"
  /\ \E page \in Pages : packs' = packs \o New(page, packs)
  /\ asked' = asked + 1
  /\ \/ PacksDone(asked', packs') /\ pc' = "over" /\ reply' = Respond(Merged(exact, packs'))
     \/ ~PacksDone(asked', packs') /\ UNCHANGED <<pc, reply>>
  /\ UNCHANGED <<intent, exact>>

\* A query fails, or its deadline passes: what was found before is lost.
QueryFails ==
  /\ pc \in {"exact", "packs"}
  /\ pc' = "over"
  /\ \E kind \in {"challenge", "resolver", "source", "deadline"} :
       reply' = [NoReply EXCEPT !.kind = kind]
  /\ UNCHANGED <<intent, asked, exact, packs>>

Next == Refuse \/ Begin \/ ExactLists \/ PacksList \/ QueryFails

Spec == Init /\ [][Next]_vars

-----------------------------------------------------------------------------
Shown == IdsOf(reply.candidates)
Found == IdsOf(exact) \union IdsOf(packs)
Answered == reply.kind \in {"found", "empty"}

(* A search that did not find what it was asked for has asked all it       *)
(* could: an issue that was not found was asked for by every exact query   *)
(* and every pack, and a collection that is not truncated by every query,  *)
(* although the issue that it may name was found.                          *)
AskedEnough ==
  LET missed == IF intent.collection THEN ~reply.truncated ELSE ~HasCoverage(exact \o packs) IN
    Answered /\ missed =>
      asked = Len(ExactQueries(intent)) + Len(FallbackQueries(intent))

\* No release is lost: a response names each once unless it is truncated; then
\* it is full, and something was left out.
NothingLost ==
  /\ Cardinality(Shown) = Len(reply.candidates)
  /\ IF reply.truncated THEN Len(reply.candidates) = PageLimit /\ Found \ Shown # {}
     ELSE Shown = Found

\* Releases that contain the issue come first, whichever query found them: noise
\* of an earlier query never takes their place, and an exact candidate precedes
\* every pack that does not contain the issue.
RequestedFirst ==
  ~intent.collection =>
    \A i, j \in DOMAIN reply.candidates :
      i < j => /\ Covers(reply.candidates[j]) => Covers(reply.candidates[i])
               /\ reply.candidates[i].id \in IdsOf(packs) /\ ~Covers(reply.candidates[i])
                    => reply.candidates[j].id \in IdsOf(packs)

(* A response names every release that was found once, the ones with the   *)
(* requested issue first, and leaves one out only if it says so.           *)
ReplyFaithful == Answered => NothingLost /\ RequestedFirst

Plan == ExactQueries(intent) \o FallbackQueries(intent)

(* A search asks GetComics at most five times, and no query twice, except  *)
(* when the title of a collection spells out the volume that is asked for, *)
(* for those queries are not compared, or when the number of the issue is  *)
(* a year, for a query for packs is then the one for the issue.            *)
FiveDifferent ==
  LET number == Either(intent.volume, intent.issue)
      sent == Len(ExactQueries(intent)) IN
    /\ Len(Plan) \in 1..5
    /\ \A i, j \in DOMAIN Plan :
         Plan[i] = Plan[j] /\ i < j =>
           \/ intent.collection /\ intent.title \in {<<"Vol", number>>, <<"Volume", number>>}
           \/ i <= sent /\ sent < j /\ intent.issue \in {intent.release, intent.seriesYear, intent.year}

Precedes(queries, one, other) ==
  \E i, j \in DOMAIN queries : i < j /\ queries[i] = one /\ queries[j] = other

(* An issue is asked for with its release year first, then without a year, *)
(* then with the year of its series; packs are asked for by the same years *)
(* in the same order.  Without release and series year, year is both.      *)
YearsInOrder ==
  ~intent.collection /\ intent.issue # Absent =>
    LET sent == ExactQueries(intent)
        broader == FallbackQueries(intent)
        undated == <<intent.series, intent.issue>>
        dated(year) == <<intent.series, intent.issue, year>>
        pack(year) == <<intent.series, year>>
        old == IF intent.seriesYear # Absent THEN intent.seriesYear ELSE intent.year
        new == IF {intent.release, intent.seriesYear} = {Absent} THEN intent.year ELSE intent.release IN
      /\ undated \in Range(sent)
      /\ new # Absent => Precedes(sent, dated(new), undated) /\ broader[1] = pack(new)
      /\ old # Absent => dated(old) \in Range(sent) /\ pack(old) \in Range(broader)
      /\ old \notin {Absent, new} => Precedes(sent, undated, dated(old))
      /\ {old, new} = {Absent} => broader = << <<intent.series>> >>

(* A collection's queries are the first five of those it could be asked    *)
(* by: one is left out only if five others come before it.                 *)
FirstFiveKept ==
  LET wanted == TitledQueries(intent) \o AddedQueries(intent)
      sent == ExactQueries(intent) IN
    intent.collection =>
      \A i \in DOMAIN wanted :
        \/ Contains(sent, wanted[i])
        \/ Len(sent) = 5 /\ Range(sent) \subseteq {wanted[j] : j \in 1..(i - 1)}

(* What GetComics can be asked for one intent: few different queries, in   *)
(* the order of the years, and the first ones of those that make sense.    *)
(* They follow from the intent alone: one look at each intent suffices.    *)
PlanSound == pc = "idle" => FiveDifferent /\ YearsInOrder /\ FirstFiveKept
=============================================================================
