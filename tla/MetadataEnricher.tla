-------------------------- MODULE MetadataEnricher --------------------------
(***************************************************************************)
(* LibGenMetadataEnricher (metadata.py): the rows of a search page are     *)
(* completed with what the JSON API of their origin says about their files *)
(* and editions.  enrich asks for one row, enrich_many for the rows of a   *)
(* page at once; both remember evidence, and the lack of it, in one cache. *)
(*                                                                         *)
(* Requests wait only for the API.  What a request does between two waits  *)
(* is split into steps, during which no other request moves (Runs).  The   *)
(* rows of a page share one origin, which is left out of the keys.         *)
(***************************************************************************)
EXTENDS CacheOps, Subsequences

CONSTANTS
  Requests,
  Pages,       \* sequences of rows of different md5, as parse_search_html lists them
  Files,       \* positive ids of files
  Editions,    \* positive ids of editions
  Sources,     \* what the API may know
  Absent,      \* a field a row or a record does not carry
  MaxClock,    \* bound: the clock stops here
  MaxTroubles  \* bound: how often the source changes or answers badly

ASSUME EnricherAssumption ==
  /\ IsFiniteSet(Requests)
  /\ Files \subseteq Nat \ {0}
  /\ Editions \subseteq Nat \ {0}
  /\ Absent \notin Files \union Editions
  /\ \A page \in Pages :
       /\ page \in Seq(Range(page))
       /\ \A i, j \in DOMAIN page : page[i].md5 = page[j].md5 => i = j
  /\ NegativeTTL <= TTL
  /\ MaxClock \in Nat /\ MaxTroubles \in Nat

(***************************************************************************)
(* A row is [md5, file, edition, shape]: the fields that its evidence must *)
(* not contradict, size, tolerance and extension taken together as shape.  *)
(* A source is [file, edition]: a record [md5, usable, shape, editions] of *)
(* a file, a set of files related to an edition, or Absent where there is  *)
(* none.  A record of a file is not usable if it is malformed, broken or   *)
(* not visible; it counts among those with its md5 nevertheless.           *)
(***************************************************************************)
VARIABLES
  clock,
  entries,    \* self._cache
  source,     \* what the API knows now
  troubles,   \* how often it changed or answered badly
  disturbed,  \* when it last did, or Never
  req         \* the state of every request

vars == <<clock, entries, source, troubles, disturbed, req>>
outside == <<clock, source, troubles, disturbed>>

Never == -1 - TTL

Idle == [pc |-> "idle", page |-> <<>>, began |-> 0, rows |-> <<>>, single |-> FALSE, later |-> <<>>,
         asked |-> <<>>, files |-> <<>>, related |-> <<>>, found |-> <<>>]

Init ==
  /\ clock = 0
  /\ entries = <<>>
  /\ source \in Sources
  /\ troubles = 0
  /\ disturbed = Never
  /\ req = [r \in Requests |-> Idle]

-----------------------------------------------------------------------------
(* Keys and evidence.                                                      *)

\* Fault: the evidence for a file is remembered whatever the row expects of it.
FileKeyOfMd5(row) == <<"file", row.md5>>

\* _file_cache_key: all that parse_file_metadata compares with.
FileKey(row) == <<"file", row>>

\* Fault: nor for an edition which file it was related to.
EditionKeyAlone(file) == <<"edition", file.edition>>

EditionKey(file) == <<"edition", file.edition, file.file>>

Agrees(expected, actual) == expected = Absent \/ actual = Absent \/ expected = actual

\* The record the row names, or the only one with its md5.
RecordOf(row, known) ==
  LET matches == {f \in Files : known.file[f] # Absent /\ known.file[f].md5 = row.md5} IN
    IF row.file # Absent THEN row.file
    ELSE IF Cardinality(matches) = 1 THEN CHOOSE f \in matches : TRUE
    ELSE Absent

Smallest(ids) == CHOOSE e \in ids : \A other \in ids : e <= other

\* parse_file_metadata; Nothing stands for its LibGenMetadataError.
FileEvidence(row, known) ==
  LET f == RecordOf(row, known)
      record == IF f = Absent THEN Absent ELSE known.file[f] IN
    IF \/ record = Absent
       \/ record.md5 # row.md5
       \/ ~record.usable
       \/ ~Agrees(row.shape, record.shape)
       \/ row.edition # Absent /\ record.editions # {} /\ row.edition \notin record.editions
      THEN Nothing
      ELSE [file |-> f, md5 |-> record.md5, shape |-> record.shape,
            edition |-> IF row.edition # Absent THEN row.edition
                        ELSE IF record.editions = {} THEN Absent
                        ELSE Smallest(record.editions)]

\* parse_edition_metadata; the file is kept as history.
EditionEvidence(file, known) ==
  LET related == known.edition[file.edition] IN
    IF related = Absent \/ (related # {} /\ file.file \notin related)
      THEN Nothing
      ELSE [edition |-> file.edition, for |-> file.file]

-----------------------------------------------------------------------------
(* The cache, used for several keys in a row.                              *)

Hit(key) == Lookup(entries, key, clock).hit
Cached(key) == Lookup(entries, key, clock).value

Others(cache, keys) == Selected(cache, {i \in DOMAIN cache : cache[i].key \notin Range(keys)})

\* What is hit moves to the end in the order of the last hits.
AfterGets(cache, keys, now) ==
  LET used == Selected(keys, {i \in Lasts(keys) : Live(cache, keys[i], now)}) IN
    Others(cache, keys) \o [k \in DOMAIN used |-> EntryOf(cache, used[k])]

\* The last value of each key counts.
AfterSets(cache, keys, values, now) ==
  LET fresh == [i \in DOMAIN keys |->
                  [key |-> keys[i], value |-> values[i], expires |-> now + Lifetime(values[i])]] IN
    Trimmed(Others(cache, keys) \o Selected(fresh, Lasts(keys)))

-----------------------------------------------------------------------------
(* A dict is the sequence of its assignments [key, value], of which the    *)
(* last one of a key counts.                                               *)

Has(dict, key) == \E i \in DOMAIN dict : dict[i].key = key

LastOf(dict, key) ==
  CHOOSE i \in DOMAIN dict : dict[i].key = key /\ \A j \in (i + 1)..Len(dict) : dict[j].key # key

Got(dict, key) == IF Has(dict, key) THEN dict[LastOf(dict, key)].value ELSE Nothing

Assigned(keys, values) == [i \in DOMAIN keys |-> [key |-> keys[i], value |-> values[i]]]

-----------------------------------------------------------------------------
(* The steps of a request.                                                 *)

Ready == {"lookup", "filed", "completed"}

\* r goes on; a task that does not wait is not interrupted by another one.
At(r, pc) == req[r].pc = pc /\ \A other \in Requests \ {r} : req[other].pc \notin Ready

Begin(r, page) ==
  /\ At(r, "idle")
  /\ req' = [req EXCEPT ![r] =
       [@ EXCEPT !.pc = "lookup", !.page = page, !.rows = page, !.single = Len(page) = 1,
                 !.began = clock]]
  /\ UNCHANGED <<outside, entries>>

FileKeys(rows) == [i \in DOMAIN rows |-> FileKey(rows[i])]
EditionKeys(files) == [i \in DOMAIN files |-> EditionKey(files[i])]
Md5sOf(rows) == [i \in DOMAIN rows |-> rows[i].md5]
IdsOf(files) == [i \in DOMAIN files |-> files[i].file]

\* What the cache knows of the files.  A batch asks for the others by their
\* ids, and leaves the rows that name no file for later, one by one.
LookUpFiles(r) ==
  /\ At(r, "lookup")
  /\ LET rows == req[r].rows
         hits == {i \in DOMAIN rows : Hit(FileKey(rows[i]))}
         unnamed == {i \in DOMAIN rows : ~req[r].single /\ rows[i].file = Absent}
         known == Selected(rows, hits)
         asked == Selected(rows, DOMAIN rows \ (hits \union unnamed)) IN
       /\ req' = [req EXCEPT ![r] =
            [@ EXCEPT !.pc = IF asked = <<>> THEN "filed" ELSE "files",
                      !.asked = asked,
                      !.files = Assigned(Md5sOf(known), [i \in DOMAIN known |-> Cached(FileKey(known[i]))]),
                      !.later = IF req[r].single THEN req[r].later ELSE Selected(rows, unnamed \ hits)]]
       /\ entries' = AfterGets(entries, FileKeys(rows), clock)
  /\ UNCHANGED outside

FilesAnswered(r, known) ==
  /\ At(r, "files")
  /\ LET asked == req[r].asked
         evidence == [i \in DOMAIN asked |-> FileEvidence(asked[i], known)] IN
       /\ req' = [req EXCEPT ![r] =
            [@ EXCEPT !.pc = "filed", !.asked = <<>>,
                      !.files = req[r].files \o Assigned(Md5sOf(asked), evidence)]]
       /\ entries' = AfterSets(entries, FileKeys(asked), evidence, clock)

LookUpEditions(r) ==
  /\ At(r, "filed")
  /\ LET files == [i \in DOMAIN req[r].files |-> req[r].files[i].value]
         wanted == {i \in DOMAIN files : files[i] # Nothing /\ files[i].edition # Absent}
         hits == {i \in wanted : Hit(EditionKey(files[i]))}
         known == Selected(files, hits)
         asked == Selected(files, wanted \ hits) IN
       /\ req' = [req EXCEPT ![r] =
            [@ EXCEPT !.pc = IF asked = <<>> THEN "completed" ELSE "editions",
                      !.asked = asked,
                      !.related = Assigned(IdsOf(known), [i \in DOMAIN known |-> Cached(EditionKey(known[i]))])]]
       /\ entries' = AfterGets(entries, EditionKeys(Selected(files, wanted)), clock)
  /\ UNCHANGED outside

EditionsAnswered(r, known) ==
  /\ At(r, "editions")
  /\ LET asked == req[r].asked
         evidence == [i \in DOMAIN asked |-> EditionEvidence(asked[i], known)] IN
       /\ req' = [req EXCEPT ![r] =
            [@ EXCEPT !.pc = "completed", !.asked = <<>>,
                      !.related = req[r].related \o Assigned(IdsOf(asked), evidence)]]
       /\ entries' = AfterSets(entries, EditionKeys(asked), evidence, clock)

\* build_candidate; rows without evidence for their file give none.
CandidateOf(q, row) ==
  LET file == Got(q.files, row.md5) IN
    [row |-> row, file |-> file,
     edition |-> IF file.edition = Absent THEN Nothing ELSE Got(q.related, file.file)]

\* The candidates of the page, in its order.
Listing(page, found) ==
  LET listed == Selected(page, {i \in DOMAIN page : Has(found, page[i].md5)}) IN
    [k \in DOMAIN listed |-> Got(found, listed[k].md5)]

\* candidates_by_md5, with the rows that were left for later still to follow.
Found(q) ==
  LET known == Selected(q.rows, {i \in DOMAIN q.rows : Got(q.files, q.rows[i].md5) # Nothing}) IN
    q.found \o Assigned(Md5sOf(known), [i \in DOMAIN known |-> CandidateOf(q, known[i])])

\* The rows that were left for later follow, each on its own.
Complete(r) ==
  /\ At(r, "completed")
  /\ LET found == Found(req[r])
         later == req[r].later IN
       req' = [req EXCEPT ![r] =
         IF later = <<>>
           THEN [Idle EXCEPT !.pc = "over", !.page = req[r].page, !.began = req[r].began,
                             !.found = Listing(req[r].page, found)]
           ELSE [@ EXCEPT !.pc = "lookup", !.rows = <<Head(later)>>, !.single = TRUE,
                          !.later = Tail(later), !.found = found, !.files = <<>>, !.related = <<>>]]
  /\ UNCHANGED <<outside, entries>>

-----------------------------------------------------------------------------
(* The API.                                                                *)

Answered(r, known) == FilesAnswered(r, known) \/ EditionsAnswered(r, known)

ApiAnswers(r) == Answered(r, source) /\ UNCHANGED outside

Trouble == troubles < MaxTroubles /\ troubles' = troubles + 1 /\ disturbed' = clock

\* No JSON object, or one of no use: each row of the request is refused.
Unreadable == [file |-> [f \in Files |-> Absent], edition |-> [e \in Editions |-> Absent]]

\* Or what the API knew or will know: the source changed while the answer was
\* on its way.  enrich takes a LibGenMetadataError of the fetcher, too, for an
\* answer of no use.
ApiAnswersBadly(r) ==
  /\ \E known \in {Unreadable} \union (Sources \ {source}) : Answered(r, known)
  /\ Trouble
  /\ UNCHANGED <<clock, source>>

\* The fetcher raises, or the request is cancelled: nothing is remembered.
FetchFails(r) ==
  /\ At(r, "files") \/ At(r, "editions")
  /\ req' = [req EXCEPT ![r] = [Idle EXCEPT !.pc = "failed"]]
  /\ UNCHANGED <<outside, entries>>

SourceChanges ==
  /\ Trouble
  /\ source' \in Sources \ {source}
  /\ UNCHANGED <<clock, entries, req>>

Tick ==
  /\ clock < MaxClock
  /\ \A r \in Requests : req[r].pc \notin Ready
  /\ clock' = clock + 1
  /\ UNCHANGED <<entries, source, troubles, disturbed, req>>

Step(r) ==
  \/ \E page \in Pages : Begin(r, page)
  \/ LookUpFiles(r) \/ LookUpEditions(r) \/ Complete(r)
  \/ ApiAnswers(r) \/ ApiAnswersBadly(r) \/ FetchFails(r)

Next == Tick \/ SourceChanges \/ \E r \in Requests : Step(r)

Spec == Init /\ [][Next]_vars

-----------------------------------------------------------------------------
Listings == {req[r].found : r \in {q \in Requests : req[q].pc = "over"}}

(* A candidate never rests on evidence that was validated for something    *)
(* else: its file has the row's md5, is the one the row names, does not    *)
(* contradict its shape, and its edition is the one the row or the file    *)
(* names, related to that file; whoever asked for it, and whichever answer *)
(* was cached meanwhile.  Two candidates of one file share what was found  *)
(* last for it, so the edition is only right for files that differ.        *)
EvidenceMatches ==
  \A listing \in Listings : \A i \in DOMAIN listing :
    LET row == listing[i].row
        file == listing[i].file
        edition == listing[i].edition IN
      /\ file.md5 = row.md5
      /\ row.file # Absent => file.file = row.file
      /\ row.edition # Absent => file.edition = row.edition
      /\ Agrees(row.shape, file.shape)
      /\ edition # Nothing /\ (\A j \in DOMAIN listing \ {i} : listing[j].file.file # file.file) =>
           edition = [edition |-> file.edition, for |-> file.file]

\* The candidate for a row by itself, without batches and without a cache.
Truth(row) ==
  LET file == FileEvidence(row, source) IN
    [row |-> row, file |-> file,
     edition |-> IF file.edition = Absent THEN Nothing ELSE EditionEvidence(file, source)]

(* Batches and the cache do not show: a page that is asked for when the    *)
(* source has been steady for a lifetime is completed as if each row had   *)
(* been asked for alone just now.  One that is asked for a negative        *)
(* lifetime after a bad answer, which makes a whole batch of rows count as *)
(* missing, lists at least the rows that the source vouches for.           *)
Transparent ==
  \A r \in Requests : req[r].pc = "over" =>
    LET page == req[r].page
        genuine == Selected(page, {i \in DOMAIN page : FileEvidence(page[i], source) # Nothing})
        listed == {req[r].found[i].row : i \in DOMAIN req[r].found} IN
      /\ disturbed + TTL <= req[r].began =>
           req[r].found = [k \in DOMAIN genuine |-> Truth(genuine[k])]
      /\ disturbed + NegativeTTL <= req[r].began => Range(genuine) \subseteq listed
=============================================================================
