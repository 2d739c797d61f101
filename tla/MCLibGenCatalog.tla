-------------------------- MODULE MCLibGenCatalog --------------------------
EXTENDS LibGenCatalog, TLC

CONSTANTS a, b, m1, m2, cbz, pdf, k1, k2, k3, v1, v2

TwoRequests == {a, b}
TwoFiles == {1, 2}
TwoEditions == {1, 2}

MCKeys == {k1, k2, k3}
MCValues == {v1, v2}

RequestSymmetry == Permutations(TwoRequests)
KeySymmetry == Permutations(MCKeys) \union Permutations(MCValues)

OnlyEnricher == {"enricher"}
OnlyCache == {"cache"}

Row(md5, file, edition, shape) == [md5 |-> md5, file |-> file, edition |-> edition, shape |-> shape]
Record(md5, shape, editions) ==
  [md5 |-> md5, usable |-> TRUE, shape |-> shape, editions |-> editions]
Broken(md5) == [Record(md5, Absent, {}) EXCEPT !.usable = FALSE]

\* A row that names all it can, two that contradict it, and two sparse ones.
Full == Row(m1, 1, 1, cbz)
OtherEdition == Row(m1, 1, 2, cbz)
OtherShape == Row(m1, 1, 1, pdf)
Unnamed == Row(m1, Absent, Absent, Absent)
Sparse == Row(m2, 2, Absent, Absent)
Shared == Row(m2, 1, 2, Absent)

SmallPages ==
  {<<Full>>, <<Unnamed>>, <<OtherShape>>, <<Full, Sparse>>, <<Sparse, OtherEdition>>,
   <<Unnamed, Sparse>>, <<Full, Shared>>}

Related(first, second) == [e \in TwoEditions |-> IF e = 1 THEN first ELSE second]
Known(first, second) == [f \in TwoFiles |-> IF f = 1 THEN first ELSE second]

\* Both files in one edition; the first in both, the second a broken copy of
\* it; the ids exchanged.
SmallSources ==
  {[file |-> Known(Record(m1, cbz, {1}), Record(m2, Absent, {1})),
    edition |-> Related({1, 2}, Absent)],
   [file |-> Known(Record(m1, Absent, {1, 2}), Broken(m1)),
    edition |-> Related({2}, {1})],
   [file |-> Known(Record(m2, pdf, {}), Record(m1, cbz, {2})),
    edition |-> Related({1}, {})]}

\* What AfterGets and AfterSets say in one piece is what gets and sets do in a row.
SmallCaches ==
  {c \in UNION {[1..n -> [key : MCKeys \union {m1}, value : {v1}, expires : {0, 1}]] : n \in 0..MaxEntries} :
     \A i, j \in DOMAIN c : c[i].key = c[j].key => i = j}

KeyLists == UNION {[1..n -> MCKeys] : n \in 0..4}

ASSUME
  \A cache \in SmallCaches : \A keys \in KeyLists :
    LET values == [i \in DOMAIN keys |-> IF i % 2 = 0 THEN Nothing ELSE <<i>>]
        get(c, i) == AfterGet(c, keys[i], 0)
        set(c, i) == AfterSet(c, keys[i], values[i], 0)
        places == [i \in DOMAIN keys |-> i] IN
      /\ AfterGets(cache, keys, 0) = FoldLeft(get, cache, places)
      /\ AfterSets(cache, keys, values, 0) = FoldLeft(set, cache, places)
=============================================================================
