--------------------------- MODULE MCLibGenSearch ---------------------------
EXTENDS LibGenSearch

CONSTANTS gl, li, r1, r2

\* "Saga" alone: the exact queries collapse into the title, one query in all.
Plain == [collection |-> FALSE, series |-> "Saga", alternate |-> Absent, issue |-> Absent,
          volume |-> Absent, title |-> Absent, year |-> Absent]
\* A titled volume of a year: three exact queries and the fallback.
Book == [Plain EXCEPT !.collection = TRUE, !.volume = "2", !.title = "Dawn", !.year = "2024"]
\* Issue 7 of a year: three exact queries and the fallback.
Issue == [Plain EXCEPT !.issue = "7", !.year = "2024"]
\* Issue 7 of no year by two titles: the padded number, the number twice over, and the
\* alternate title, which is the third query once the repeated one is dropped.
Twice == [Plain EXCEPT !.issue = "7", !.alternate = "Epos"]

TwoOrigins == {gl, li}
MixedIntents == {Plain, Twice, Book}
IssueIntent == {Issue}
OneRequest == {r1}
TwoRequests == {r1, r2}
TwoBudgets == {0, 2}
=============================================================================
