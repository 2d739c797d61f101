---------------------------- MODULE AnnasSearch ----------------------------
(***************************************************************************)
(* POST /v1/search of the Anna's Archive provider (service.py, app.py):    *)
(* the official page first, then, if it fails or lists nothing, LibGen's   *)
(* catalogue, whose candidates are filtered, reordered and renamed.        *)
(*                                                                         *)
(* The service keeps no state, so that one request stands for all; the     *)
(* deadline may pass at either of its two waits.                           *)
(***************************************************************************)
EXTENDS Subsequences, SequencesExt

CONSTANTS
  Md5s,        \* identities of files
  PageLimit,   \* the limit of the request
  MaxCatalog   \* bound: candidates in an answer of a source

Limit == PageLimit + 1  \* what the handler asks the service for

\* A candidate without a well-formed and matching identity.
Unknown == "unknown"

CatalogCandidate == [md5 : Md5s \union {Unknown}, mobile : BOOLEAN]

\* LibGen's search returns at most as many candidates as it is asked for.
Catalogs == BoundedSeq(CatalogCandidate, IF MaxCatalog < Limit THEN MaxCatalog ELSE Limit)

\* How the official page may fail, told apart by the handler.
PageFailures == {"challenge", "resolver", "source"}

VARIABLES
  pc,
  primary,   \* how the official page ended: listed, empty, or a failure
  fallback,  \* how LibGen's search ended: answered or failed
  catalog,   \* what LibGen answered
  reply      \* the response: its kind, its candidates and its truncated flag

vars == <<pc, primary, fallback, catalog, reply>>

NoReply == [kind |-> "none", candidates |-> <<>>, truncated |-> FALSE]

Init ==
  /\ pc = "idle"
  /\ primary = "none"
  /\ fallback = "none"
  /\ catalog = <<>>
  /\ reply = NoReply

-----------------------------------------------------------------------------
(* _anna_candidates_from_catalog.                                          *)

\* The stable sort by _catalog_candidate_rank.
Ranked(candidates) ==
  Selected(candidates, {i \in DOMAIN candidates : ~candidates[i].mobile})
  \o Selected(candidates, {i \in DOMAIN candidates : candidates[i].mobile})

\* Neither unknown nor seen before.
Listed(candidates) ==
  LET md5s == [i \in DOMAIN candidates |-> candidates[i].md5] IN
    Selected(candidates, NewFirsts(md5s, {Unknown}))

\* Fault: repeats are dropped before the sort.
DedupedBeforeRanking(candidates) == Ranked(First(Listed(candidates), Limit))

FromCatalog(candidates) == First(Listed(Ranked(candidates)), Limit)

-----------------------------------------------------------------------------
(* The request.                                                            *)

\* The handler's slice of the candidates.
Respond(candidates) ==
  [kind |-> IF candidates = <<>> THEN "empty" ELSE "found",
   candidates |-> First(candidates, PageLimit),
   truncated |-> Len(candidates) > PageLimit]

Report(kind) == [NoReply EXCEPT !.kind = kind]

\* The deadline has passed already, or the domain is not an official one.
Refuse ==
  /\ pc = "idle"
  /\ pc' = "over"
  /\ \E kind \in {"deadline", "domain"} : reply' = Report(kind)
  /\ UNCHANGED <<primary, fallback, catalog>>

AskPage ==
  /\ pc = "idle"
  /\ pc' = "primary"
  /\ UNCHANGED <<primary, fallback, catalog, reply>>

\* The page lists candidates: each md5 once, the first ones.
PageLists ==
  /\ pc = "primary"
  /\ \E page \in Catalogs :
       /\ page # <<>>
       /\ \A i, j \in DOMAIN page : page[i].md5 # Unknown /\ (page[i].md5 = page[j].md5 => i = j)
       /\ reply' = Respond(page)
  /\ primary' = "listed"
  /\ pc' = "over"
  /\ UNCHANGED <<fallback, catalog>>

PageIsEmpty ==
  /\ pc = "primary"
  /\ primary' = "empty"
  /\ pc' = "fallback"
  /\ UNCHANGED <<fallback, catalog, reply>>

\* A challenge nobody solves, a failing resolver, or a source that is
\* unreachable or has an unknown layout.
PageFails ==
  /\ pc = "primary"
  /\ \E failure \in PageFailures : primary' = failure
  /\ pc' = "fallback"
  /\ UNCHANGED <<fallback, catalog, reply>>

CatalogAnswers ==
  /\ pc = "fallback"
  /\ \E candidates \in Catalogs :
       /\ catalog' = candidates
       /\ reply' = Respond(FromCatalog(candidates))
  /\ fallback' = "answered"
  /\ pc' = "over"
  /\ UNCHANGED primary

\* Fault: a failed fallback always counts as "nothing found".
FallbackFailureIsEmpty ==
  /\ pc = "fallback"
  /\ fallback' = "failed"
  /\ reply' = Respond(<<>>)
  /\ pc' = "over"
  /\ UNCHANGED <<primary, catalog>>

\* RuntimeError or ValueError: the failure of the page is what is raised.
CatalogFails ==
  /\ pc = "fallback"
  /\ fallback' = "failed"
  /\ reply' = IF primary \in PageFailures THEN Report(primary) ELSE Respond(<<>>)
  /\ pc' = "over"
  /\ UNCHANGED <<primary, catalog>>

\* A ProtocolError of LibGen's search, say of its configuration, is neither:
\* it is the reply, whatever the page had said.
CatalogRejects ==
  /\ pc = "fallback"
  /\ fallback' = "rejected"
  /\ reply' = Report("libgen")
  /\ pc' = "over"
  /\ UNCHANGED <<primary, catalog>>

Expire ==
  /\ pc \in {"primary", "fallback"}
  /\ reply' = Report("deadline")
  /\ pc' = "over"
  /\ UNCHANGED <<primary, fallback, catalog>>

Next ==
  \/ Refuse \/ AskPage \/ PageLists \/ PageIsEmpty \/ PageFails
  \/ CatalogAnswers \/ CatalogFails \/ CatalogRejects \/ Expire

Spec == Init /\ [][Next]_vars

-----------------------------------------------------------------------------

(* "Nothing found" is what a source has said: a page that failed is        *)
(* reported as that very failure unless the catalogue has answered.        *)
FailureSurfaces ==
  /\ reply.kind = "empty" => primary = "empty" \/ fallback = "answered"
  /\ primary \in PageFailures /\ fallback = "failed" => reply.kind = primary

Known == {catalog[i].md5 : i \in DOMAIN catalog} \ {Unknown}
Canonical == {catalog[i].md5 : i \in {j \in DOMAIN catalog : ~catalog[j].mobile}} \ {Unknown}

(* Of the catalogue's answer every known file is listed once, canonical    *)
(* files before mobile derivatives, a file that is listed both ways as the *)
(* canonical one; what the limit drops is flagged and comes from the end.  *)
CatalogFaithful ==
  fallback = "answered" =>
    LET shown == reply.candidates
        names == {shown[i].md5 : i \in DOMAIN shown} IN
      /\ names \subseteq Known
      /\ Cardinality(names) = Len(shown)
      /\ ~reply.truncated => names = Known
      /\ reply.truncated => Len(shown) = PageLimit /\ names # Known
      /\ \A i \in DOMAIN shown :
           shown[i].mobile => shown[i].md5 \notin Canonical /\ Canonical \subseteq names
      /\ \A i, j \in DOMAIN shown : shown[i].mobile /\ i < j => shown[j].mobile
=============================================================================
