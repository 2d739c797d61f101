---------------------------- MODULE MCGetComics ----------------------------
EXTENDS GetComics

CONSTANTS l1, l2, l3, g1, g2, r1, r2, r3

ThreeLinks == {l1, l2, l3}
TwoGroups == {g1, g2}
ThreeReleases == {r1, r2, r3}

Maybe(values) == values \union {Absent}

\* A title may name a number, and may spell the volume out.
Titles == {[title |-> Absent, number |-> Absent], [title |-> Absent, number |-> "2"],
           [title |-> <<"Dawn">>, number |-> Absent],
           [title |-> <<"Vol", "Two">>, number |-> Absent],
           [title |-> <<"Vol", "2", "Dawn">>, number |-> "2"],
           [title |-> <<"Vol", "3", "Dawn">>, number |-> "3"],
           [title |-> <<"Volume", "Two">>, number |-> Absent]}

\* A collection by each of those titles, and an issue or a series.
SmallIntents ==
  {[collection |-> TRUE, spelled |-> s, series |-> "Saga", issue |-> i, volume |-> v,
    title |-> t.title, titleNumber |-> t.number, release |-> r, seriesYear |-> y, year |-> x] :
     s \in BOOLEAN, i \in Maybe({"7"}), v \in Maybe({"2", "Two"}),
     t \in Titles, r \in Maybe({"2024"}), y \in Maybe({"2024", "2022"}),
     x \in {"2020"}}
  \union
  {[collection |-> FALSE, spelled |-> FALSE, series |-> "Saga", issue |-> i, volume |-> Absent,
    title |-> Absent, titleNumber |-> Absent, release |-> r, seriesYear |-> y, year |-> x] :
     i \in Maybe({"7", "2024"}), r \in Maybe({"2024", "2022"}), y \in Maybe({"2024", "2022"}),
     x \in Maybe({"2024", "2020"})}
=============================================================================
