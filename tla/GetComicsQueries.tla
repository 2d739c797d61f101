-------------------------- MODULE GetComicsQueries --------------------------
(***************************************************************************)
(* The queries one search sends to GetComics (service.py): exact ones, and *)
(* for an issue broader ones for packs that contain it.  A query is the    *)
(* sequence of its words; an intent is a record [collection, spelled,      *)
(* series, issue, volume, title, titleNumber, release, seriesYear, year],  *)
(* with Absent for what it does not carry; no text of it is empty.         *)
(* collection and spelled say whether its issue_type is a collection's,    *)
(* and "volume"; title and titleNumber are the words that                  *)
(* collection_title_fragment finds and collection_title_number's number.   *)
(***************************************************************************)
EXTENDS Subsequences, SequencesExt

CONSTANT Absent

Known(words) == Selected(words, {i \in DOMAIN words : words[i] # Absent})

\* The first of two values that the intent carries.
Either(value, other) == IF value # Absent THEN value ELSE other

\* list(dict.fromkeys(queries))
Distinct(queries) == Selected(queries, Firsts(queries))

\* _build_query
BuildQuery(intent) == Known(<<intent.series, intent.issue, intent.year>>)

PreferredYear(intent) ==
  IF intent.release = Absent /\ intent.seriesYear = Absent THEN intent.year
  ELSE intent.release

CompatibilityYear(intent) == Either(intent.seriesYear, intent.year)

\* _standard_issue_exact_queries: the middle one names no year.
ExactIssueQueries(intent) ==
  LET base == <<intent.series, intent.issue>>
      dated(year) == IF year = Absent THEN <<>> ELSE << Append(base, year) >> IN
    IF intent.issue = Absent THEN << BuildQuery(intent) >>
    ELSE First(Distinct(dated(PreferredYear(intent)) \o << base >>
                        \o dated(CompatibilityYear(intent))), 3)

\* The collection queries that are sent without looking for repeats.
TitledQueries(intent) ==
  LET number == Either(intent.volume, intent.issue)
      labelled(label) == << <<intent.series, label, number>> >> IN
    IF intent.title = Absent THEN << BuildQuery(intent) >>
    ELSE << <<intent.series>> \o intent.title >>
         \o (IF number = Absent THEN <<>>
             ELSE labelled("Vol") \o (IF intent.spelled THEN labelled("Volume") ELSE <<>>))

\* The number the title names, then the years, if a volume is asked for.
AddedQueries(intent) ==
  LET released == Either(intent.release, intent.year) IN
    (IF intent.titleNumber = Absent THEN <<>>
     ELSE << <<intent.series, "Vol", intent.titleNumber>>,
             <<intent.series, "Volume", intent.titleNumber>> >>)
    \o (IF intent.volume = Absent THEN <<>>
        ELSE << Known(<<intent.series, released>>) >>
             \o (IF intent.seriesYear \in {Absent, released} THEN <<>>
                 ELSE << <<intent.series, intent.seriesYear>> >>))

\* Fault: the five are counted before repeats are dropped.
CollectionCutFirst(intent) ==
  Distinct(First(TitledQueries(intent) \o AddedQueries(intent), 5))

CollectionQueries(intent) ==
  LET titled == TitledQueries(intent)
      added == AddedQueries(intent) IN
    First(titled \o Selected(added, NewFirsts(added, Range(titled))), 5)

\* _build_queries
ExactQueries(intent) ==
  IF intent.collection THEN CollectionQueries(intent) ELSE ExactIssueQueries(intent)

\* _standard_issue_fallback_queries
FallbackQueries(intent) ==
  LET years == Distinct(Known(<<PreferredYear(intent), CompatibilityYear(intent)>>)) IN
    IF intent.collection \/ intent.issue = Absent THEN <<>>
    ELSE IF years = <<>> THEN << <<intent.series>> >>
    ELSE [i \in DOMAIN years |-> <<intent.series, years[i]>>]
=============================================================================
