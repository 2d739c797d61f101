--------------------------- MODULE LibGenQueries ---------------------------
(***************************************************************************)
(* The queries one search sends to one LibGen origin (service.py): at most *)
(* three exact ones, built from the intent by _build_queries, then the     *)
(* title alone.  A query is the sequence of its words; an intent is a      *)
(* record [collection, series, alternate, issue, volume, title, year].     *)
(* Fields are Absent when the intent does not carry them, and a series     *)
(* title of blanks only counts as Absent; year stands for                  *)
(* release_year or year, title for collection_title_fragment's result and  *)
(* alternate for the first alternate title.                                *)
(***************************************************************************)
EXTENDS Subsequences, SequencesExt

CONSTANT Absent

\* _zero_padded_issue_number: digits only, filled up to three places.
ZeroPadded(issue) ==
  CASE issue = "7" -> "007"
    [] issue = "112" -> "112"
    [] OTHER -> Absent

IssueOrVolume(intent) ==
  IF intent.volume # Absent THEN intent.volume ELSE intent.issue

CollectionVariants(intent) ==
  LET number == IssueOrVolume(intent)
      titled == intent.title # Absent IN
    (IF titled THEN << <<intent.series, intent.title, intent.year>> >> ELSE <<>>)
    \o (IF number # Absent THEN << <<intent.series, "Vol", number, intent.year>> >> ELSE <<>>)
    \o (IF titled THEN << <<intent.series, intent.title>> >>
        ELSE IF intent.alternate # Absent
          THEN << <<intent.alternate, "Vol", number, intent.year>> >>
          ELSE <<>>)

IssueVariants(intent) ==
  LET padded == ZeroPadded(intent.issue) IN
    (IF padded # Absent /\ padded # intent.issue
       THEN << <<intent.series, padded, intent.year>> >> ELSE <<>>)
    \o << <<intent.series, intent.issue, intent.year>>, <<intent.series, intent.issue>> >>
    \o (IF intent.alternate # Absent
          THEN << <<intent.alternate, intent.issue, intent.year>> >> ELSE <<>>)

Variants(intent) ==
  IF intent.collection THEN CollectionVariants(intent) ELSE IssueVariants(intent)

Words(parts) == Selected(parts, {i \in DOMAIN parts : parts[i] # Absent})

Queries(intent) == LET variants == Variants(intent) IN [i \in DOMAIN variants |-> Words(variants[i])]

\* Neither empty nor sent before.
Useful(queries) == NewFirsts(queries, {<<>>})

\* Fault: the first three are kept before repeated queries are dropped.
CutFirst(intent) ==
  LET queries == First(Queries(intent), 3) IN Selected(queries, Useful(queries))

\* Empty and repeated queries are dropped, then the first three are kept.
BuildQueries(intent) ==
  LET queries == Queries(intent) IN First(Selected(queries, Useful(queries)), 3)

FallbackQuery(intent) == Words(<<intent.series>>)

\* The queries in the order in which they are sent until one has results.
QueryPlan(intent) ==
  LET exact == BuildQueries(intent) IN
    IF FallbackQuery(intent) = <<>> \/ Contains(exact, FallbackQuery(intent))
      THEN exact
      ELSE Append(exact, FallbackQuery(intent))
=============================================================================
