------------------------ MODULE LibGenCatalogProofs ------------------------
(***************************************************************************)
(* Proofs about MetadataEnricher and BoundedTTLCache as LibGenCatalog      *)
(* composes them, for any requests, pages, sources, keys, values, cache    *)
(* size and lifetimes.                                                     *)
(*                                                                         *)
(* First the enricher: what a request and the cache know fits what it was  *)
(* validated for; no row that the source vouches for is lost (Covered);    *)
(* and what was learned after the last disturbance is what the source      *)
(* says (Exact).  Then the cache by itself.                                *)
(***************************************************************************)
EXTENDS LibGenCatalog, SubsequenceProofs, WellFoundedInduction

List(s) == s \in Seq(Range(s))

\* Every element at one place only, told by its md5.
Distinct(rows) == \A i, j \in DOMAIN rows : rows[i].md5 = rows[j].md5 => i = j

\* Every key with one value only.
Functional(dict) == \A x, y \in Range(dict) : x.key = y.key => x = y

Avoids(dict, rows) == \A x \in Range(dict) : \A row \in Range(rows) : x.key # row.md5
Apart(rows, others) == \A row \in Range(rows) : \A other \in Range(others) : row.md5 # other.md5

FileFits(row, file) ==
  /\ file.md5 = row.md5
  /\ row.file # Absent => file.file = row.file
  /\ row.edition # Absent => file.edition = row.edition
  /\ Agrees(row.shape, file.shape)

-----------------------------------------------------------------------------
(* The cache: an entry fits its key, and is what the source says if it was *)
(* made after the last disturbance.                                        *)

Made(e) == e.expires - Lifetime(e.value)

EntryFits(e) ==
  /\ e.key[1] = "file" => e.value = Nothing \/ FileFits(e.key[2], e.value)
  /\ e.key[1] = "edition" => e.value = Nothing \/ e.value = [edition |-> e.key[2], for |-> e.key[3]]

EntryTrue(e, since, known) ==
  Made(e) > since =>
    /\ e.key[1] = "file" => e.value = FileEvidence(e.key[2], known)
    /\ e.key[1] = "edition" =>
         e.value = EditionEvidence([edition |-> e.key[2], file |-> e.key[3]], known)

CacheSound(cache, now, since, known) ==
  /\ List(cache)
  /\ \A e \in Range(cache) :
       /\ e.expires \in Int /\ Made(e) <= now
       /\ EntryFits(e) /\ EntryTrue(e, since, known)

-----------------------------------------------------------------------------
(* A request.                                                              *)

Active == {"lookup", "files", "filed", "editions", "completed"}
Filed == {"files", "filed", "editions", "completed"}

IsRequest(q) ==
  DOMAIN q = {"pc", "page", "began", "rows", "single", "later", "asked", "files", "related", "found"}

RowsFit(q) ==
  /\ q.page \in Pages
  /\ List(q.rows) /\ List(q.later) /\ Distinct(q.rows) /\ Distinct(q.later)
  /\ Range(q.rows) \subseteq Range(q.page) /\ Range(q.later) \subseteq Range(q.page)
  /\ IF q.single THEN Apart(q.rows, q.later) ELSE q.rows = q.page

FilesFit(q) ==
  /\ List(q.files) /\ List(q.asked) /\ Functional(q.files) /\ Avoids(q.files, q.later)
  /\ \A x \in Range(q.files) : \E row \in Range(q.rows) :
       x.key = row.md5 /\ (x.value = Nothing \/ FileFits(row, x.value))
  /\ q.pc = "files" =>
       /\ Range(q.asked) \subseteq Range(q.rows)
       /\ Apart(q.asked, q.later) /\ Avoids(q.files, q.asked)

RelatedFit(q) ==
  /\ List(q.related)
  /\ q.pc \in {"lookup", "files", "filed"} => q.related = <<>>
  /\ \A x \in Range(q.related) : \E f \in Range(q.files) :
       /\ f.value # Nothing /\ f.value.file = x.key
       /\ x.value = Nothing \/ x.value = [edition |-> f.value.edition, for |-> x.key]
  /\ q.pc = "editions" =>
       \A f \in Range(q.asked) : f # Nothing /\ \E x \in Range(q.files) : x.value = f
  /\ q.pc \in {"editions", "completed"} =>
       \A x \in Range(q.files) : x.value # Nothing /\ x.value.edition # Absent =>
         \/ Has(q.related, x.value.file)
         \/ q.pc = "editions" /\ x.value \in Range(q.asked)

\* Edition evidence is that of a file listed under the same id.
Founded(c, candidates) ==
  c.edition # Nothing =>
    \E other \in candidates :
      /\ other.file.file = c.file.file
      /\ c.edition = [edition |-> other.file.edition, for |-> c.file.file]

ValuesOf(dict) == {x.value : x \in Range(dict)}

FoundFit(q) ==
  /\ List(q.found) /\ Functional(q.found) /\ Avoids(q.found, q.rows) /\ Avoids(q.found, q.later)
  /\ \A x \in Range(q.found) :
       /\ \E row \in Range(q.page) :
            x.key = row.md5 /\ x.value.row = row /\ FileFits(row, x.value.file)
       /\ Founded(x.value, ValuesOf(q.found))

TruthOf(row, known) ==
  LET file == FileEvidence(row, known) IN
    [row |-> row, file |-> file,
     edition |-> IF file.edition = Absent THEN Nothing ELSE EditionEvidence(file, known)]

\* No row that the source vouches for has been lost.
Covered(q, known) ==
  \A row \in Range(q.page) : FileEvidence(row, known) # Nothing =>
    \/ Has(q.found, row.md5)
    \/ q.pc \in Filed /\ \E x \in Range(q.files) : x.key = row.md5 /\ x.value # Nothing
    \/ q.pc = "lookup" /\ row \in Range(q.rows)
    \/ q.pc = "files" /\ row \in Range(q.asked)
    \/ row \in Range(q.later)

\* What was found so far is what the source says.
Exact(q, known) ==
  /\ \A x \in Range(q.files) : \E row \in Range(q.rows) :
       x.key = row.md5 /\ x.value = FileEvidence(row, known)
  /\ \A x \in Range(q.related) : \E f \in Range(q.files) :
       f.value # Nothing /\ f.value.file = x.key /\ x.value = EditionEvidence(f.value, known)
  /\ \A x \in Range(q.found) : \E row \in Range(q.page) :
       x.key = row.md5 /\ FileEvidence(row, known) # Nothing /\ x.value = TruthOf(row, known)

ListingFits(listing) ==
  \A i \in DOMAIN listing :
    /\ FileFits(listing[i].row, listing[i].file)
    /\ /\ listing[i].edition # Nothing
       /\ \A j \in DOMAIN listing \ {i} : listing[j].file.file # listing[i].file.file
       => listing[i].edition = [edition |-> listing[i].file.edition, for |-> listing[i].file.file]

Genuine(page, known) == Selected(page, {i \in DOMAIN page : FileEvidence(page[i], known) # Nothing})

RequestSound(q, now, since, known) ==
  /\ IsRequest(q)
  /\ q.pc \in {"idle", "over", "failed"} \union Active
  /\ q.pc \in {"idle", "failed"} => q = [Idle EXCEPT !.pc = q.pc]
  /\ q.pc \in Active \union {"over"} => q.began \in Int /\ q.began <= now
  /\ q.pc \in Active =>
       /\ RowsFit(q) /\ FilesFit(q) /\ RelatedFit(q) /\ FoundFit(q)
       /\ since + NegativeTTL <= q.began => Covered(q, known)
       /\ since + TTL <= q.began => Exact(q, known)
  /\ q.pc = "over" =>
       /\ ListingFits(q.found)
       /\ since + TTL <= q.began =>
            q.found = [k \in DOMAIN Genuine(q.page, known) |-> TruthOf(Genuine(q.page, known)[k], known)]
       /\ since + NegativeTTL <= q.began =>
            Range(Genuine(q.page, known)) \subseteq {q.found[i].row : i \in DOMAIN q.found}

TimeSound == clock \in Nat /\ disturbed \in Int /\ disturbed <= clock

Inv ==
  /\ TimeSound
  /\ CacheSound(entries, clock, disturbed, source)
  /\ req = [r \in Requests |-> req[r]]
  /\ \A r \in Requests : RequestSound(req[r], clock, disturbed, source)

-----------------------------------------------------------------------------
(* Lists.                                                                  *)

LEMMA ListKnown ==
  ASSUME NEW S, NEW s \in Seq(S)
  PROVE  /\ List(s) /\ Range(s) \subseteq S
         /\ Len(s) \in Nat /\ DOMAIN s = 1..Len(s)
<1>1. Len(s) \in Nat /\ DOMAIN s = 1..Len(s) /\ s \in [1..Len(s) -> S]
  BY LenProperties
<1>2. Range(s) \subseteq S /\ \A i \in 1..Len(s) : s[i] \in Range(s)
  BY <1>1 DEF Range
<1>3. s \in [1..Len(s) -> Range(s)]
  BY <1>1, <1>2
<1> QED
  BY <1>1, <1>2, <1>3 DEF List

LEMMA ListBasics ==
  ASSUME NEW s, List(s)
  PROVE  /\ Len(s) \in Nat /\ DOMAIN s = 1..Len(s) /\ s \in Seq(Range(s))
         /\ \A x : x \in Range(s) <=> \E i \in 1..Len(s) : s[i] = x
         /\ s = <<>> <=> Range(s) = {}
<1>1. Len(s) \in Nat /\ DOMAIN s = 1..Len(s) /\ s \in Seq(Range(s))
  BY ListKnown DEF List
<1>2. \A x : x \in Range(s) <=> \E i \in 1..Len(s) : s[i] = x
  BY <1>1 DEF Range
<1>3. s = <<>> => Range(s) = {}
  BY <1>1, <1>2
<1>4. Range(s) = {} => s = <<>>
  <2>1. SUFFICES ASSUME Range(s) = {} PROVE s = <<>>
    OBVIOUS
  <2>2. Len(s) = 0
    BY <1>1, <1>2, <2>1
  <2> QED
    BY <1>1, <2>2, EmptySeq
<1> QED
  BY <1>1, <1>2, <1>3, <1>4

LEMMA ConcatKnown ==
  ASSUME NEW s, NEW t, List(s), List(t)
  PROVE  List(s \o t) /\ Range(s \o t) = Range(s) \union Range(t)
<1> DEFINE S == Range(s) \union Range(t)
           u == s \o t
<1>1. s \in Seq(S) /\ t \in Seq(S)
  <2>1. s \in Seq(Range(s)) /\ t \in Seq(Range(t))
    BY DEF List
  <2>2. Range(s) \subseteq S /\ Range(t) \subseteq S
    OBVIOUS
  <2> QED
    BY <2>1, <2>2, SeqMonotonic
<1>2. u \in Seq(S)
  BY <1>1
<1>3. /\ Len(s) \in Nat /\ Len(t) \in Nat
      /\ Len(u) = Len(s) + Len(t)
      /\ \A i \in 1..Len(s) : u[i] = s[i]
      /\ \A i \in 1..Len(t) : u[Len(s) + i] = t[i]
  BY <1>1
<1> HIDE DEF u, S
<1>4. List(u) /\ Range(u) \subseteq S
  BY <1>2, ListKnown
<1>5. \A x : x \in Range(u) <=> \E i \in 1..Len(u) : u[i] = x
  BY <1>4, ListBasics
<1>6. ASSUME NEW x \in Range(s) PROVE x \in Range(u)
  <2>1. PICK i \in 1..Len(s) : s[i] = x
    BY ListBasics
  <2>2. i \in 1..Len(u) /\ u[i] = x
    BY <1>3, <2>1
  <2> QED
    BY <1>5, <2>2
<1>7. ASSUME NEW x \in Range(t) PROVE x \in Range(u)
  <2>1. PICK i \in 1..Len(t) : t[i] = x
    BY ListBasics
  <2>2. Len(s) + i \in 1..Len(u) /\ u[Len(s) + i] = x
    BY <1>3, <2>1
  <2> QED
    BY <1>5, <2>2
<1>8. Range(u) = S
  BY <1>4, <1>6, <1>7 DEF S
<1> QED
  BY <1>4, <1>8 DEF u, S

\* A selection, and that nothing is selected twice.
LEMMA SelectionKnown ==
  ASSUME NEW s, List(s), NEW P \in SUBSET (DOMAIN s)
  PROVE  /\ List(Selected(s, P))
         /\ \A x : x \in Range(Selected(s, P)) <=> \E i \in P : s[i] = x
         /\ Selected(s, P) = <<>> <=> P = {}
<1> DEFINE t == Selected(s, P)
<1>1. s \in Seq(Range(s)) /\ P \in SUBSET (1..Len(s))
  BY ListBasics
<1>2. /\ t \in Seq(Range(s))
      /\ \A k \in 1..Len(t) : Place(P, k) \in P /\ t[k] = s[Place(P, k)]
      /\ \A i \in P : \E k \in 1..Len(t) : Place(P, k) = i
  BY <1>1, SelectedKnown
<1> HIDE DEF t
<1>3. List(t)
  BY <1>2, ListKnown
<1>6. \A x : x \in Range(t) <=> \E k \in 1..Len(t) : t[k] = x
  BY <1>3, ListBasics
<1>4. \A x : x \in Range(t) <=> \E i \in P : s[i] = x
  <2>1. ASSUME NEW x, x \in Range(t) PROVE \E i \in P : s[i] = x
    BY <1>2, <1>6, <2>1
  <2>2. ASSUME NEW i \in P PROVE s[i] \in Range(t)
    BY <1>2, <1>6
  <2> QED
    BY <2>1, <2>2
<1>5. t = <<>> <=> P = {}
  BY <1>3, <1>4, ListBasics
<1> QED
  BY <1>3, <1>4, <1>5 DEF t

LEMMA SelectionDistinct ==
  ASSUME NEW s, List(s), Distinct(s), NEW P \in SUBSET (DOMAIN s)
  PROVE  Distinct(Selected(s, P))
<1> DEFINE t == Selected(s, P)
<1>1. s \in Seq(Range(s)) /\ P \in SUBSET (1..Len(s)) /\ DOMAIN s = 1..Len(s)
  BY ListBasics
<1>2. /\ t \in Seq(Range(s)) /\ Len(t) = Cardinality(P)
      /\ \A k \in 1..Len(t) : Place(P, k) \in P /\ t[k] = s[Place(P, k)]
  BY <1>1, SelectedKnown
<1>3. \A k, l \in 1..Cardinality(P) : k < l <=> Place(P, k) < Place(P, l)
  BY <1>1, PlacesKnown, ListBasics
<1> HIDE DEF t
<1>4. DOMAIN t = 1..Len(t) /\ Len(t) \in Nat
  BY <1>2
<1>5. ASSUME NEW k \in 1..Len(t), NEW l \in 1..Len(t), t[k].md5 = t[l].md5
      PROVE  k = l
  <2>1. Place(P, k) = Place(P, l)
    BY <1>1, <1>2, <1>5 DEF Distinct
  <2>2. ~(k < l) /\ ~(l < k)
    BY <1>1, <1>2, <1>3, <2>1
  <2> QED
    BY <1>4, <2>2
<1> QED
  BY <1>4, <1>5 DEF Distinct, t

LEMMA ListMade ==
  ASSUME NEW n \in Nat, NEW f, f = [i \in 1..n |-> f[i]]
  PROVE  List(f) /\ DOMAIN f = 1..n /\ Len(f) = n
<1>1. DOMAIN f = 1..n
  BY Zenon
<1>2. \A i \in 1..n : f[i] \in Range(f)
  BY <1>1 DEF Range
<1>3. f \in [1..n -> Range(f)]
  BY <1>2
<1>4. f \in Seq(Range(f))
  BY <1>3
<1> QED
  BY <1>1, <1>4 DEF List

\* What is assigned to a list of keys.
LEMMA AssignedKnown ==
  ASSUME NEW keys, List(keys), NEW values
  PROVE  /\ List(Assigned(keys, values))
         /\ \A x : x \in Range(Assigned(keys, values)) <=>
              \E i \in 1..Len(keys) : x = [key |-> keys[i], value |-> values[i]]
<1> DEFINE d == Assigned(keys, values)
<1>1. DOMAIN keys = 1..Len(keys) /\ Len(keys) \in Nat
  BY ListBasics
<1>2. d = [i \in 1..Len(keys) |-> [key |-> keys[i], value |-> values[i]]]
  BY <1>1 DEF Assigned
<1>3. \A i \in 1..Len(keys) : d[i] = [key |-> keys[i], value |-> values[i]]
  BY <1>2
<1>4. d = [i \in 1..Len(keys) |-> d[i]]
  BY <1>2
<1> HIDE DEF d
<1>5. List(d) /\ Len(d) = Len(keys)
  BY <1>1, <1>4, ListMade
<1>6. \A x : x \in Range(d) <=> \E i \in 1..Len(keys) : d[i] = x
  BY <1>5, ListBasics
<1>7. \A x : x \in Range(d) <=> \E i \in 1..Len(keys) : x = [key |-> keys[i], value |-> values[i]]
  <2>1. \A x : x \in Range(d) <=> \E i \in 1..Len(keys) : d[i] = x
    BY <1>5, <1>6
  <2>2. ASSUME NEW x \in Range(d)
        PROVE  \E i \in 1..Len(keys) : x = [key |-> keys[i], value |-> values[i]]
    <3>1. PICK i \in 1..Len(keys) : d[i] = x
      BY <2>1
    <3>2. x = [key |-> keys[i], value |-> values[i]]
      BY <1>3, <3>1
    <3> QED
      BY <3>2
  <2>3. ASSUME NEW i \in 1..Len(keys)
        PROVE  [key |-> keys[i], value |-> values[i]] \in Range(d)
    BY <1>3, <2>1
  <2> QED
    BY <2>2, <2>3
<1> QED
  BY <1>5, <1>7 DEF d

\* What a dict has for a key is one of its assignments.
LEMMA GotKnown ==
  ASSUME NEW dict, List(dict), NEW key
  PROVE  /\ Has(dict, key) <=> \E x \in Range(dict) : x.key = key
         /\ Has(dict, key) => \E x \in Range(dict) : x.key = key /\ Got(dict, key) = x.value
         /\ ~Has(dict, key) => Got(dict, key) = Nothing
<1> DEFINE P == {i \in 1..Len(dict) : dict[i].key = key}
           N == Cardinality(P)
<1>1. /\ DOMAIN dict = 1..Len(dict) /\ Len(dict) \in Nat
      /\ \A x : x \in Range(dict) <=> \E i \in 1..Len(dict) : dict[i] = x
  BY ListBasics
<1>2. Has(dict, key) <=> \E x \in Range(dict) : x.key = key
  BY <1>1 DEF Has
<1>3. ~Has(dict, key) => Got(dict, key) = Nothing
  BY DEF Got
<1>4. ASSUME Has(dict, key)
      PROVE  \E x \in Range(dict) : x.key = key /\ Got(dict, key) = x.value
  <2>1. /\ IsFiniteSet(P) /\ N \in Nat
        /\ \A k \in 1..N : Place(P, k) \in P
        /\ \A j \in P : \E k \in 1..N : Place(P, k) = j
        /\ \A k, l \in 1..N : k < l <=> Place(P, k) < Place(P, l)
    BY <1>1, PlacesKnown
  <2>2. N \in 1..N
    <3>1. P # {}
      BY <1>1, <1>4 DEF Has
    <3>2. N # 0
      BY <2>1, <3>1, FS_EmptySet
    <3> QED
      BY <2>1, <3>2
  <2> DEFINE last == Place(P, N)
  <2>3. last \in P
    BY <2>1, <2>2
  <2>4. \A j \in P : ~(last < j)
    <3>1. SUFFICES ASSUME NEW k \in 1..N PROVE ~(last < Place(P, k))
      BY <2>1
    <3>2. ~(N < k)
      BY <2>1
    <3> QED
      BY <2>1, <2>2, <3>2
  <2> HIDE DEF last, N
  <2>5. /\ last \in DOMAIN dict /\ dict[last].key = key
        /\ \A j \in (last + 1)..Len(dict) : dict[j].key # key
    <3>1. last \in 1..Len(dict) /\ dict[last].key = key
      BY <2>3
    <3>2. ASSUME NEW j \in (last + 1)..Len(dict), dict[j].key = key PROVE FALSE
      <4>1. j \in 1..Len(dict) /\ last < j
        BY <1>1, <3>1
      <4>2. j \in P
        BY <3>2, <4>1
      <4> QED
        BY <2>4, <4>1, <4>2
    <3> QED
      BY <1>1, <3>1, <3>2
  <2>6. LastOf(dict, key) \in DOMAIN dict /\ dict[LastOf(dict, key)].key = key
    BY <2>5 DEF LastOf
  <2> QED
    BY <1>1, <1>4, <2>6 DEF Got
<1> QED
  BY <1>2, <1>3, <1>4

-----------------------------------------------------------------------------
(* The cache.                                                              *)

LEMMA OthersKnown ==
  ASSUME NEW cache, List(cache), NEW keys
  PROVE  List(Others(cache, keys)) /\ Range(Others(cache, keys)) \subseteq Range(cache)
<1> DEFINE P == {i \in DOMAIN cache : cache[i].key \notin Range(keys)}
<1>1. P \in SUBSET (DOMAIN cache)
  OBVIOUS
<1>2. Others(cache, keys) = Selected(cache, P)
  BY DEF Others
<1>3. /\ List(Selected(cache, P))
      /\ \A x : x \in Range(Selected(cache, P)) => \E i \in P : cache[i] = x
  BY <1>1, SelectionKnown
<1>4. \A i \in P : cache[i] \in Range(cache)
  BY DEF Range
<1> QED
  BY <1>2, <1>3, <1>4

LEMMA EntryKnown ==
  ASSUME NEW cache, NEW key, NEW now, Live(cache, key, now)
  PROVE  /\ EntryOf(cache, key) \in Range(cache) /\ EntryOf(cache, key).key = key
         /\ EntryOf(cache, key).expires > now
<1>1. PICK i \in DOMAIN cache : cache[i].key = key
  BY DEF Live, KeysOf
<1>2. PlaceOf(cache, key) \in DOMAIN cache /\ cache[PlaceOf(cache, key)].key = key
  BY <1>1 DEF PlaceOf
<1> QED
  BY <1>2 DEF EntryOf, Live, Range

\* Lookups leave only what was there.
LEMMA GetsKeep ==
  ASSUME NEW cache, List(cache), NEW keys, List(keys), NEW now
  PROVE  /\ List(AfterGets(cache, keys, now))
         /\ Range(AfterGets(cache, keys, now)) \subseteq Range(cache)
<1> DEFINE P == {i \in Lasts(keys) : Live(cache, keys[i], now)}
           used == Selected(keys, P)
           hits == [k \in DOMAIN used |-> EntryOf(cache, used[k])]
<1>1. P \in SUBSET (DOMAIN keys)
  BY DEF Lasts
<1>2. /\ List(used)
      /\ \A x : x \in Range(used) => \E i \in P : keys[i] = x
  BY <1>1, SelectionKnown
<1>3. \A x \in Range(used) : Live(cache, x, now)
  BY <1>2
<1> HIDE DEF used
<1>4. DOMAIN used = 1..Len(used) /\ Len(used) \in Nat
      /\ \A k \in 1..Len(used) : used[k] \in Range(used)
  BY <1>2, ListBasics
<1>5. hits = [k \in 1..Len(used) |-> hits[k]] /\ \A k \in 1..Len(used) : hits[k] = EntryOf(cache, used[k])
  BY <1>4
<1> HIDE DEF hits
<1>6. List(hits) /\ Len(hits) = Len(used)
  BY <1>4, <1>5, ListMade
<1>7. \A k \in 1..Len(used) : hits[k] \in Range(cache)
  BY <1>3, <1>4, <1>5, EntryKnown
<1>8. Range(hits) \subseteq Range(cache)
  BY <1>6, <1>7, ListBasics
<1>9. AfterGets(cache, keys, now) = Others(cache, keys) \o hits
  BY DEF AfterGets, hits, used
<1> QED
  BY <1>6, <1>8, <1>9, OthersKnown, ConcatKnown

\* Writes add what is written.
LEMMA SetsKeep ==
  ASSUME NEW cache, List(cache), NEW keys, List(keys), NEW values, NEW now
  PROVE  /\ List(AfterSets(cache, keys, values, now))
         /\ \A e \in Range(AfterSets(cache, keys, values, now)) :
              \/ e \in Range(cache)
              \/ \E i \in 1..Len(keys) :
                   e = [key |-> keys[i], value |-> values[i], expires |-> now + Lifetime(values[i])]
<1> DEFINE fresh == [i \in DOMAIN keys |->
                       [key |-> keys[i], value |-> values[i], expires |-> now + Lifetime(values[i])]]
           new == Selected(fresh, Lasts(keys))
           all == Others(cache, keys) \o new
<1>1. DOMAIN keys = 1..Len(keys) /\ Len(keys) \in Nat
  BY ListBasics
<1>2. /\ fresh = [i \in 1..Len(keys) |-> fresh[i]]
      /\ \A i \in 1..Len(keys) :
           fresh[i] = [key |-> keys[i], value |-> values[i], expires |-> now + Lifetime(values[i])]
  BY <1>1
<1> HIDE DEF fresh
<1>3. List(fresh) /\ DOMAIN fresh = 1..Len(keys)
  BY <1>1, <1>2, ListMade
<1>4. Lasts(keys) \in SUBSET (DOMAIN fresh)
  BY <1>1, <1>3 DEF Lasts
<1>5. /\ List(new)
      /\ \A x : x \in Range(new) => \E i \in Lasts(keys) : fresh[i] = x
  BY <1>3, <1>4, SelectionKnown
<1> HIDE DEF new
<1>6. List(all) /\ Range(all) = Range(Others(cache, keys)) \union Range(new)
  BY <1>5, OthersKnown, ConcatKnown
<1>7. \A e \in Range(all) :
        \/ e \in Range(cache)
        \/ \E i \in 1..Len(keys) :
             e = [key |-> keys[i], value |-> values[i], expires |-> now + Lifetime(values[i])]
  BY <1>1, <1>2, <1>3, <1>4, <1>5, <1>6, OthersKnown
<1> HIDE DEF all
<1>8. List(Trimmed(all)) /\ Range(Trimmed(all)) \subseteq Range(all)
  <2>1. all \in Seq(Range(all)) /\ Len(all) \in Nat
    BY <1>6, ListBasics
  <2>2. Trimmed(all) \in Seq(Range(all))
    BY <2>1, CacheAssumption DEF Trimmed
  <2> QED
    BY <2>2, ListKnown
<1>9. AfterSets(cache, keys, values, now) = Trimmed(all)
  BY DEF AfterSets, all, new, fresh
<1> QED
  BY <1>7, <1>8, <1>9

-----------------------------------------------------------------------------
(* Evidence.                                                               *)

LEMMA EvidenceFits ==
  ASSUME NEW row, NEW known, FileEvidence(row, known) # Nothing
  PROVE  LET file == FileEvidence(row, known) IN
           FileFits(row, file) /\ file.md5 = known.file[file.file].md5
<1> DEFINE f == RecordOf(row, known)
           record == IF f = Absent THEN Absent ELSE known.file[f]
           file == FileEvidence(row, known)
<1>1. /\ record # Absent /\ record.md5 = row.md5 /\ Agrees(row.shape, record.shape)
      /\ file.file = f /\ file.md5 = record.md5 /\ file.shape = record.shape
      /\ row.edition # Absent => file.edition = row.edition
  BY DEF FileEvidence
<1>2. f # Absent /\ record = known.file[f]
  BY <1>1
<1>3. row.file # Absent => f = row.file
  BY DEF RecordOf
<1> HIDE DEF f, record, file
<1>4. FileFits(row, file) /\ file.md5 = known.file[file.file].md5
  BY <1>1, <1>2, <1>3 DEF FileFits
<1> QED
  BY <1>4 DEF file

LEMMA EditionFits ==
  ASSUME NEW file, NEW known
  PROVE  /\ EditionEvidence(file, known) =
              EditionEvidence([edition |-> file.edition, file |-> file.file], known)
         /\ \/ EditionEvidence(file, known) = Nothing
            \/ EditionEvidence(file, known) = [edition |-> file.edition, for |-> file.file]
BY DEF EditionEvidence

LEMMA Lifetimes ==
  ASSUME NEW value
  PROVE  Lifetime(value) \in Int /\ 0 < Lifetime(value) /\ Lifetime(value) <= TTL
BY CacheAssumption, EnricherAssumption DEF Lifetime

LEMMA HitKnown ==
  ASSUME NEW key, Hit(key)
  PROVE  \E e \in Range(entries) : e.key = key /\ Cached(key) = e.value /\ e.expires > clock
<1>1. Live(entries, key, clock)
  BY DEF Hit, Lookup
<1> QED
  BY <1>1, EntryKnown DEF Cached, Lookup

\* What the cache knows of a file fits the row; it is what the source says now
\* if there was no disturbance for as long as it is kept.
LEMMA FileCached ==
  ASSUME TimeSound, CacheSound(entries, clock, disturbed, source), NEW row, Hit(FileKey(row))
  PROVE  LET value == Cached(FileKey(row)) IN
           /\ value = Nothing \/ FileFits(row, value)
           /\ disturbed + Lifetime(value) <= clock => value = FileEvidence(row, source)
<1>1. PICK e \in Range(entries) :
        e.key = FileKey(row) /\ Cached(FileKey(row)) = e.value /\ e.expires > clock
  BY HitKnown
<1>2. e.key[1] = "file" /\ e.key[2] = row
  BY <1>1 DEF FileKey
<1>3. e.expires \in Int /\ EntryFits(e) /\ EntryTrue(e, disturbed, source)
  BY DEF CacheSound
<1>4. disturbed + Lifetime(e.value) <= clock => Made(e) > disturbed
  <2>1. clock \in Int /\ disturbed \in Int /\ Lifetime(e.value) \in Int
    BY Lifetimes DEF TimeSound
  <2> QED
    BY <1>1, <1>3, <2>1 DEF Made
<1> QED
  BY <1>1, <1>2, <1>3, <1>4 DEF EntryFits, EntryTrue

LEMMA EditionCached ==
  ASSUME TimeSound, CacheSound(entries, clock, disturbed, source), NEW file, Hit(EditionKey(file))
  PROVE  LET value == Cached(EditionKey(file)) IN
           /\ value = Nothing \/ value = [edition |-> file.edition, for |-> file.file]
           /\ disturbed + Lifetime(value) <= clock => value = EditionEvidence(file, source)
<1>1. PICK e \in Range(entries) :
        e.key = EditionKey(file) /\ Cached(EditionKey(file)) = e.value /\ e.expires > clock
  BY HitKnown
<1>2. e.key[1] = "edition" /\ e.key[2] = file.edition /\ e.key[3] = file.file
  BY <1>1 DEF EditionKey
<1>3. e.expires \in Int /\ EntryFits(e) /\ EntryTrue(e, disturbed, source)
  BY DEF CacheSound
<1>4. disturbed + Lifetime(e.value) <= clock => Made(e) > disturbed
  <2>1. clock \in Int /\ disturbed \in Int /\ Lifetime(e.value) \in Int
    BY Lifetimes DEF TimeSound
  <2> QED
    BY <1>1, <1>3, <2>1 DEF Made
<1>5. EditionEvidence(file, source) =
        EditionEvidence([edition |-> file.edition, file |-> file.file], source)
  BY EditionFits
<1> QED
  BY <1>1, <1>2, <1>3, <1>4, <1>5 DEF EntryFits, EntryTrue

\* A cache that only loses entries stays sound.
LEMMA CacheShrinks ==
  ASSUME NEW cache, NEW now, NEW since, NEW known, CacheSound(cache, now, since, known),
         NEW less, List(less), Range(less) \subseteq Range(cache)
  PROVE  CacheSound(less, now, since, known)
BY DEF CacheSound

\* What was made before the last disturbance need not be true.
LEMMA CacheAges ==
  ASSUME NEW cache, NEW now \in Int, NEW since \in Int, NEW known,
         CacheSound(cache, now, since, known),
         NEW later \in Int, now <= later
  PROVE  /\ CacheSound(cache, later, since, known)
         /\ \A other : CacheSound(cache, now, now, other)
<1>1. ASSUME NEW e \in Range(cache)
      PROVE  /\ e.expires \in Int /\ Made(e) \in Int /\ Made(e) <= now
             /\ EntryFits(e) /\ EntryTrue(e, since, known)
  BY Lifetimes DEF CacheSound, Made
<1>2. ASSUME NEW e \in Range(cache) PROVE Made(e) <= later /\ ~(Made(e) > now)
  BY <1>1
<1> QED
  BY <1>1, <1>2 DEF CacheSound, EntryTrue

\* What is written is sound if it fits and if it is true or there has just been
\* a disturbance.
LEMMA CacheGrows ==
  ASSUME NEW cache, NEW now \in Int, NEW since \in Int, NEW known,
         CacheSound(cache, now, since, known), NEW keys, List(keys), NEW values,
         \A i \in 1..Len(keys) : LET e == [key |-> keys[i], value |-> values[i],
                                           expires |-> now + Lifetime(values[i])] IN
           EntryFits(e) /\ (since < now => EntryTrue(e, since, known))
  PROVE  CacheSound(AfterSets(cache, keys, values, now), now, since, known)
<1> DEFINE after == AfterSets(cache, keys, values, now)
<1>1. List(after) /\ \A e \in Range(after) :
        \/ e \in Range(cache)
        \/ \E i \in 1..Len(keys) :
             e = [key |-> keys[i], value |-> values[i], expires |-> now + Lifetime(values[i])]
  BY SetsKeep DEF CacheSound
<1> HIDE DEF after
<1>2. ASSUME NEW i \in 1..Len(keys), NEW e,
             e = [key |-> keys[i], value |-> values[i], expires |-> now + Lifetime(values[i])]
      PROVE  /\ e.expires \in Int /\ Made(e) <= now
             /\ EntryFits(e) /\ EntryTrue(e, since, known)
  <2>1. e.expires \in Int /\ Made(e) = now
    BY <1>2, Lifetimes DEF Made
  <2>2. EntryFits(e) /\ (since < now => EntryTrue(e, since, known))
    BY <1>2
  <2>3. ~(since < now) => EntryTrue(e, since, known)
    BY <2>1 DEF EntryTrue
  <2> QED
    BY <2>1, <2>2, <2>3
<1>3. ASSUME NEW e \in Range(after)
      PROVE  /\ e.expires \in Int /\ Made(e) <= now
             /\ EntryFits(e) /\ EntryTrue(e, since, known)
  <2>1. CASE e \in Range(cache)
    BY <2>1 DEF CacheSound
  <2>2. CASE e \notin Range(cache)
    BY <1>1, <1>2, <2>2
  <2> QED
    BY <2>1, <2>2
<1> QED
  BY <1>1, <1>3 DEF CacheSound, after

-----------------------------------------------------------------------------
(* Dicts that are made from a list of rows or of files.                    *)

LEMMA AssignedOver ==
  ASSUME NEW items, List(items), NEW keys, NEW values, keys = [i \in DOMAIN items |-> keys[i]],
         NEW k, NEW v, \A i \in DOMAIN items : keys[i] = k[items[i]] /\ values[i] = v[items[i]]
  PROVE  /\ List(Assigned(keys, values))
         /\ \A x : x \in Range(Assigned(keys, values)) <=>
              \E y \in Range(items) : x = [key |-> k[y], value |-> v[y]]
<1>1. /\ DOMAIN items = 1..Len(items) /\ Len(items) \in Nat
      /\ \A y : y \in Range(items) <=> \E i \in 1..Len(items) : items[i] = y
  BY ListBasics
<1>2. List(keys) /\ Len(keys) = Len(items)
  BY <1>1, ListMade
<1> DEFINE dict == Assigned(keys, values)
<1>3. List(dict) /\ \A x : x \in Range(dict) <=>
        \E i \in 1..Len(items) : x = [key |-> keys[i], value |-> values[i]]
  <2>1. List(dict) /\ \A x : x \in Range(dict) <=>
          \E i \in 1..Len(keys) : x = [key |-> keys[i], value |-> values[i]]
    <3>1. List(keys)
      BY <1>2
    <3> QED
      BY ONLY <3>1, AssignedKnown
  <2> QED
    BY <1>2, <2>1
<1> HIDE DEF dict
<1>4. ASSUME NEW x \in Range(dict)
      PROVE  \E y \in Range(items) : x = [key |-> k[y], value |-> v[y]]
  <2>1. PICK i \in 1..Len(items) : x = [key |-> keys[i], value |-> values[i]]
    BY <1>3
  <2>2. keys[i] = k[items[i]] /\ values[i] = v[items[i]] /\ items[i] \in Range(items)
    BY <1>1
  <2> QED
    BY <2>1, <2>2
<1>5. ASSUME NEW y \in Range(items) PROVE [key |-> k[y], value |-> v[y]] \in Range(dict)
  <2>1. PICK i \in 1..Len(items) : items[i] = y
    BY <1>1
  <2>2. keys[i] = k[y] /\ values[i] = v[y]
    BY <1>1, <2>1
  <2> QED
    BY <1>3, <2>2
<1>6. \A x : x \in Range(dict) <=> \E y \in Range(items) : x = [key |-> k[y], value |-> v[y]]
  BY <1>4, <1>5
<1> QED
  BY <1>3, <1>6 DEF dict

LEMMA FilesCached ==
  ASSUME NEW rows, List(rows)
  PROVE  LET dict == Assigned(Md5sOf(rows), [i \in DOMAIN rows |-> Cached(FileKey(rows[i]))]) IN
           /\ List(dict)
           /\ \A x : x \in Range(dict) <=>
                \E row \in Range(rows) : x = [key |-> row.md5, value |-> Cached(FileKey(row))]
<1> DEFINE keys == Md5sOf(rows)
           values == [i \in DOMAIN rows |-> Cached(FileKey(rows[i]))]
           k == [row \in Range(rows) |-> row.md5]
           v == [row \in Range(rows) |-> Cached(FileKey(row))]
<1>1. \A i \in DOMAIN rows : rows[i] \in Range(rows)
  BY DEF Range
<1>2. /\ keys = [i \in DOMAIN rows |-> keys[i]]
      /\ \A i \in DOMAIN rows : keys[i] = k[rows[i]] /\ values[i] = v[rows[i]]
  BY <1>1 DEF Md5sOf
<1>3. /\ List(Assigned(keys, values))
      /\ \A x : x \in Range(Assigned(keys, values)) <=>
           \E y \in Range(rows) : x = [key |-> k[y], value |-> v[y]]
  <2> HIDE DEF keys, values, k, v
  <2> QED
    BY <1>2, AssignedOver
<1> QED
  BY <1>3

LEMMA FilesLearned ==
  ASSUME NEW rows, List(rows), NEW known
  PROVE  LET dict == Assigned(Md5sOf(rows), [i \in DOMAIN rows |-> FileEvidence(rows[i], known)]) IN
           /\ List(dict)
           /\ \A x : x \in Range(dict) <=>
                \E row \in Range(rows) : x = [key |-> row.md5, value |-> FileEvidence(row, known)]
<1> DEFINE keys == Md5sOf(rows)
           values == [i \in DOMAIN rows |-> FileEvidence(rows[i], known)]
           k == [row \in Range(rows) |-> row.md5]
           v == [row \in Range(rows) |-> FileEvidence(row, known)]
<1>1. \A i \in DOMAIN rows : rows[i] \in Range(rows)
  BY DEF Range
<1>2. /\ keys = [i \in DOMAIN rows |-> keys[i]]
      /\ \A i \in DOMAIN rows : keys[i] = k[rows[i]] /\ values[i] = v[rows[i]]
  BY <1>1 DEF Md5sOf
<1>3. /\ List(Assigned(keys, values))
      /\ \A x : x \in Range(Assigned(keys, values)) <=>
           \E y \in Range(rows) : x = [key |-> k[y], value |-> v[y]]
  <2> HIDE DEF keys, values, k, v
  <2> QED
    BY <1>2, AssignedOver
<1> QED
  BY <1>3

LEMMA EditionsCached ==
  ASSUME NEW files, List(files)
  PROVE  LET dict == Assigned(IdsOf(files), [i \in DOMAIN files |-> Cached(EditionKey(files[i]))]) IN
           /\ List(dict)
           /\ \A x : x \in Range(dict) <=>
                \E f \in Range(files) : x = [key |-> f.file, value |-> Cached(EditionKey(f))]
<1> DEFINE keys == IdsOf(files)
           values == [i \in DOMAIN files |-> Cached(EditionKey(files[i]))]
           k == [f \in Range(files) |-> f.file]
           v == [f \in Range(files) |-> Cached(EditionKey(f))]
<1>1. \A i \in DOMAIN files : files[i] \in Range(files)
  BY DEF Range
<1>2. /\ keys = [i \in DOMAIN files |-> keys[i]]
      /\ \A i \in DOMAIN files : keys[i] = k[files[i]] /\ values[i] = v[files[i]]
  BY <1>1 DEF IdsOf
<1>3. /\ List(Assigned(keys, values))
      /\ \A x : x \in Range(Assigned(keys, values)) <=>
           \E y \in Range(files) : x = [key |-> k[y], value |-> v[y]]
  <2> HIDE DEF keys, values, k, v
  <2> QED
    BY <1>2, AssignedOver
<1> QED
  BY <1>3

LEMMA EditionsLearned ==
  ASSUME NEW files, List(files), NEW known
  PROVE  LET dict == Assigned(IdsOf(files), [i \in DOMAIN files |-> EditionEvidence(files[i], known)]) IN
           /\ List(dict)
           /\ \A x : x \in Range(dict) <=>
                \E f \in Range(files) : x = [key |-> f.file, value |-> EditionEvidence(f, known)]
<1> DEFINE keys == IdsOf(files)
           values == [i \in DOMAIN files |-> EditionEvidence(files[i], known)]
           k == [f \in Range(files) |-> f.file]
           v == [f \in Range(files) |-> EditionEvidence(f, known)]
<1>1. \A i \in DOMAIN files : files[i] \in Range(files)
  BY DEF Range
<1>2. /\ keys = [i \in DOMAIN files |-> keys[i]]
      /\ \A i \in DOMAIN files : keys[i] = k[files[i]] /\ values[i] = v[files[i]]
  BY <1>1 DEF IdsOf
<1>3. /\ List(Assigned(keys, values))
      /\ \A x : x \in Range(Assigned(keys, values)) <=>
           \E y \in Range(files) : x = [key |-> k[y], value |-> v[y]]
  <2> HIDE DEF keys, values, k, v
  <2> QED
    BY <1>2, AssignedOver
<1> QED
  BY <1>3

LEMMA CandidatesBuilt ==
  ASSUME NEW rows, List(rows), NEW q
  PROVE  LET dict == Assigned(Md5sOf(rows), [i \in DOMAIN rows |-> CandidateOf(q, rows[i])]) IN
           /\ List(dict)
           /\ \A x : x \in Range(dict) <=>
                \E row \in Range(rows) : x = [key |-> row.md5, value |-> CandidateOf(q, row)]
<1> DEFINE keys == Md5sOf(rows)
           values == [i \in DOMAIN rows |-> CandidateOf(q, rows[i])]
           k == [row \in Range(rows) |-> row.md5]
           v == [row \in Range(rows) |-> CandidateOf(q, row)]
<1>1. \A i \in DOMAIN rows : rows[i] \in Range(rows)
  BY DEF Range
<1>2. /\ keys = [i \in DOMAIN rows |-> keys[i]]
      /\ \A i \in DOMAIN rows : keys[i] = k[rows[i]] /\ values[i] = v[rows[i]]
  BY <1>1 DEF Md5sOf
<1>3. /\ List(Assigned(keys, values))
      /\ \A x : x \in Range(Assigned(keys, values)) <=>
           \E y \in Range(rows) : x = [key |-> k[y], value |-> v[y]]
  <2> HIDE DEF keys, values, k, v
  <2> QED
    BY <1>2, AssignedOver
<1> QED
  BY <1>3

-----------------------------------------------------------------------------
(* The steps of a request.                                                 *)

LEMMA PageKnown ==
  ASSUME NEW page \in Pages
  PROVE  /\ List(page) /\ Distinct(page)
         /\ \A a, b \in Range(page) : a.md5 = b.md5 => a = b
<1>1. List(page) /\ Distinct(page)
  BY EnricherAssumption DEF EnricherAssumption, List, Distinct
<1> QED
  BY <1>1 DEF Distinct, Range

LEMMA NoneKnown == List(<<>>) /\ Range(<<>>) = {}
<1>1. <<>> \in Seq({}) /\ DOMAIN <<>> = {}
  OBVIOUS
<1>2. Range(<<>>) = {}
  BY <1>1 DEF Range
<1> QED
  BY <1>1, <1>2 DEF List

\* What a lookup of files, or of editions, is made of.
FileHits(q) == {i \in DOMAIN q.rows : Hit(FileKey(q.rows[i]))}
Unnamed(q) == {i \in DOMAIN q.rows : ~q.single /\ q.rows[i].file = Absent}
KnownFiles(rows) == Assigned(Md5sOf(rows), [i \in DOMAIN rows |-> Cached(FileKey(rows[i]))])

FilesOf(q) == [i \in DOMAIN q.files |-> q.files[i].value]
Wanted(files) == {i \in DOMAIN files : files[i] # Nothing /\ files[i].edition # Absent}
EditionHits(files, wanted) == {i \in wanted : Hit(EditionKey(files[i]))}
KnownEditions(files) == Assigned(IdsOf(files), [i \in DOMAIN files |-> Cached(EditionKey(files[i]))])

\* What the cache knows of the files.
LEMMA FilesLookedUp ==
  ASSUME TimeSound, CacheSound(entries, clock, disturbed, source),
         NEW q, RequestSound(q, clock, disturbed, source), q.pc = "lookup",
         NEW hits, hits = FileHits(q),
         NEW unnamed, unnamed = Unnamed(q),
         NEW known, known = Selected(q.rows, hits),
         NEW p, IsRequest(p), p.page = q.page, p.began = q.began, p.rows = q.rows,
         p.single = q.single, p.related = q.related, p.found = q.found,
         p.asked = Selected(q.rows, DOMAIN q.rows \ (hits \union unnamed)),
         p.pc = IF p.asked = <<>> THEN "filed" ELSE "files",
         p.files = KnownFiles(known),
         p.later = IF q.single THEN q.later ELSE Selected(q.rows, unnamed \ hits)
  PROVE  RequestSound(p, clock, disturbed, source)
<1> USE DEF FileHits, Unnamed, KnownFiles
<1> DEFINE R == Range(q.rows)
<1>1. /\ RowsFit(q) /\ FilesFit(q) /\ RelatedFit(q) /\ FoundFit(q)
      /\ disturbed + NegativeTTL <= q.began => Covered(q, source)
      /\ disturbed + TTL <= q.began => Exact(q, source)
      /\ q.began \in Int /\ q.began <= clock
  BY DEF RequestSound, Active
<1>2. /\ List(q.rows) /\ List(q.later) /\ Distinct(q.rows) /\ q.page \in Pages
      /\ R \subseteq Range(q.page) /\ Range(q.later) \subseteq Range(q.page)
      /\ IF q.single THEN Apart(q.rows, q.later) ELSE q.rows = q.page
  BY <1>1 DEF RowsFit
<1>3. \A a, b \in Range(q.page) : a.md5 = b.md5 => a = b
  BY <1>2, PageKnown
<1>4. /\ \A x : x \in R <=> \E i \in DOMAIN q.rows : q.rows[i] = x
      /\ hits \in SUBSET (DOMAIN q.rows) /\ unnamed \ hits \in SUBSET (DOMAIN q.rows)
      /\ DOMAIN q.rows \ (hits \union unnamed) \in SUBSET (DOMAIN q.rows)
  BY DEF Range
<1>5. List(known) /\ \A x : x \in Range(known) <=> x \in R /\ Hit(FileKey(x))
  <2>1. List(known) /\ \A x : x \in Range(known) <=> \E i \in hits : q.rows[i] = x
    BY <1>2, <1>4, SelectionKnown
  <2> QED
    BY <1>4, <2>1
<1>6. /\ List(p.asked)
      /\ \A x : x \in Range(p.asked) <=>
           x \in R /\ ~Hit(FileKey(x)) /\ (q.single \/ x.file # Absent)
  <2>1. List(p.asked) /\ \A x : x \in Range(p.asked) <=>
          \E i \in DOMAIN q.rows \ (hits \union unnamed) : q.rows[i] = x
    BY <1>2, <1>4, SelectionKnown
  <2> QED
    BY <1>4, <2>1
<1>7. /\ List(p.later) /\ Distinct(p.later)
      /\ q.single => p.later = q.later
      /\ ~q.single => \A x : x \in Range(p.later) <=> x \in R /\ ~Hit(FileKey(x)) /\ x.file = Absent
  <2>1. CASE q.single
    BY <1>1, <2>1 DEF RowsFit
  <2>2. CASE ~q.single
    <3>1. /\ List(p.later)
          /\ \A x : x \in Range(p.later) <=> \E i \in unnamed \ hits : q.rows[i] = x
      BY <1>2, <1>4, <2>2, SelectionKnown
    <3>2. Distinct(p.later)
      BY <1>2, <1>4, <2>2, SelectionDistinct
    <3> QED
      BY <1>4, <2>2, <3>1, <3>2
  <2> QED
    BY <2>1, <2>2
<1>8. /\ List(p.files)
      /\ \A x : x \in Range(p.files) <=>
           \E row \in Range(known) : x = [key |-> row.md5, value |-> Cached(FileKey(row))]
  <2>1. List(known)
    BY <1>5
  <2> DEFINE dict == Assigned(Md5sOf(known), [i \in DOMAIN known |-> Cached(FileKey(known[i]))])
  <2>2. /\ List(dict)
        /\ \A x : x \in Range(dict) <=>
             \E row \in Range(known) : x = [key |-> row.md5, value |-> Cached(FileKey(row))]
    BY ONLY <2>1, FilesCached
  <2> HIDE DEF dict
  <2>3. p.files = dict
    BY DEF dict
  <2> QED
    BY ONLY <2>2, <2>3
<1> HIDE DEF R
<1>9. ASSUME NEW x \in Range(p.files)
      PROVE  \E row \in R :
               /\ Hit(FileKey(row)) /\ x = [key |-> row.md5, value |-> Cached(FileKey(row))]
               /\ x.value = Nothing \/ FileFits(row, x.value)
               /\ disturbed + Lifetime(x.value) <= clock => x.value = FileEvidence(row, source)
  <2>1. PICK row \in Range(known) : x = [key |-> row.md5, value |-> Cached(FileKey(row))]
    BY <1>8
  <2>2. row \in R /\ Hit(FileKey(row)) /\ x.value = Cached(FileKey(row))
    BY <1>5, <2>1
  <2> QED
    BY <2>1, <2>2, FileCached
<1>10. RowsFit(p)
  <2>1. Range(p.later) \subseteq Range(q.page)
    BY <1>2, <1>7 DEF R
  <2> QED
    BY <1>1, <1>7, <2>1 DEF RowsFit
<1>11. Functional(p.files)
  <2>1. SUFFICES ASSUME NEW x \in Range(p.files), NEW y \in Range(p.files), x.key = y.key
                 PROVE  x = y
    BY DEF Functional
  <2>2. PICK a \in R : x = [key |-> a.md5, value |-> Cached(FileKey(a))]
    BY <1>9
  <2>3. PICK b \in R : y = [key |-> b.md5, value |-> Cached(FileKey(b))]
    BY <1>9
  <2>4. a.md5 = b.md5 /\ a \in Range(q.page) /\ b \in Range(q.page)
    BY <1>2, <2>1, <2>2, <2>3 DEF R
  <2> QED
    BY <1>3, <2>2, <2>3, <2>4
<1>12. Avoids(p.files, p.later) /\ Avoids(p.files, p.asked)
  <2>1. ASSUME NEW x \in Range(p.files), NEW row \in Range(p.later) PROVE x.key # row.md5
    <3>1. PICK a \in R : Hit(FileKey(a)) /\ x.key = a.md5
      BY <1>9
    <3>2. CASE q.single
      BY <1>2, <1>7, <3>1, <3>2 DEF Apart, R
    <3>3. CASE ~q.single
      <4>1. row \in R /\ ~Hit(FileKey(row))
        BY <1>7, <3>3
      <4> QED
        BY <1>2, <1>3, <3>1, <4>1 DEF R
    <3> QED
      BY <3>2, <3>3
  <2>2. ASSUME NEW x \in Range(p.files), NEW row \in Range(p.asked) PROVE x.key # row.md5
    <3>1. PICK a \in R : Hit(FileKey(a)) /\ x.key = a.md5
      BY <1>9
    <3>2. row \in R /\ ~Hit(FileKey(row))
      BY <1>6
    <3> QED
      BY <1>2, <1>3, <3>1, <3>2 DEF R
  <2> QED
    BY <2>1, <2>2 DEF Avoids
<1>13. Apart(p.asked, p.later)
  <2>1. SUFFICES ASSUME NEW row \in Range(p.asked), NEW other \in Range(p.later), row.md5 = other.md5
                 PROVE  FALSE
    BY DEF Apart
  <2>2. row \in R
    BY <1>6
  <2>3. CASE q.single
    BY <1>2, <1>7, <2>1, <2>2, <2>3 DEF Apart, R
  <2>4. CASE ~q.single
    <3>1. other \in R /\ other.file = Absent /\ row.file # Absent
      BY <1>6, <1>7, <2>4
    <3> QED
      BY <1>2, <1>3, <2>1, <2>2, <3>1 DEF R
  <2> QED
    BY <2>3, <2>4
<1>14. FilesFit(p)
  <2>1. \A x \in Range(p.files) : \E row \in Range(p.rows) :
          x.key = row.md5 /\ (x.value = Nothing \/ FileFits(row, x.value))
    BY <1>9 DEF R
  <2>2. Range(p.asked) \subseteq Range(p.rows)
    BY <1>6 DEF R
  <2> QED
    BY <1>6, <1>8, <1>11, <1>12, <1>13, <2>1, <2>2 DEF FilesFit
<1>15. p.pc \in {"files", "filed"} /\ p.related = <<>>
  BY <1>1 DEF RelatedFit
<1>16. RelatedFit(p)
  BY <1>15, NoneKnown DEF RelatedFit
<1>17. FoundFit(p)
  <2>1. Avoids(q.found, p.later)
    BY <1>1, <1>7 DEF FoundFit, Avoids, R
  <2> QED
    BY <1>1, <2>1 DEF FoundFit
<1>18. ASSUME disturbed + NegativeTTL <= q.began PROVE Covered(p, source)
  <2>1. SUFFICES ASSUME NEW row \in Range(q.page), FileEvidence(row, source) # Nothing,
                        ~Has(q.found, row.md5), row \notin Range(p.later)
                 PROVE  \/ p.pc = "files" /\ row \in Range(p.asked)
                        \/ \E x \in Range(p.files) : x.key = row.md5 /\ x.value # Nothing
    BY <1>15 DEF Covered, Filed
  <2>2. row \in R
    BY <1>1, <1>2, <1>7, <1>18, <2>1 DEF Covered, Filed, R
  <2>3. CASE Hit(FileKey(row))
    <3> DEFINE x == [key |-> row.md5, value |-> Cached(FileKey(row))]
    <3>1. x \in Range(p.files) /\ x.key = row.md5
      BY <1>5, <1>8, <2>2, <2>3
    <3>2. x.value # Nothing
      <4>1. SUFFICES ASSUME Cached(FileKey(row)) = Nothing PROVE FALSE
        OBVIOUS
      <4>2. disturbed + Lifetime(Nothing) <= clock
        BY <1>1, <1>18, CacheAssumption DEF Lifetime, TimeSound
      <4> QED
        BY <2>1, <2>3, <4>1, <4>2, FileCached
    <3> QED
      BY <3>1, <3>2
  <2>4. CASE ~Hit(FileKey(row))
    <3>1. row \in Range(p.asked)
      BY <1>6, <1>7, <2>1, <2>2, <2>4
    <3>2. p.asked # <<>>
      BY <3>1, NoneKnown
    <3> QED
      BY <3>1, <3>2
  <2> QED
    BY <2>3, <2>4
<1>19. ASSUME disturbed + TTL <= q.began PROVE Exact(p, source)
  <2>1. ASSUME NEW x \in Range(p.files)
        PROVE  \E row \in Range(p.rows) : x.key = row.md5 /\ x.value = FileEvidence(row, source)
    <3>1. disturbed + Lifetime(x.value) <= clock
      BY <1>1, <1>19, Lifetimes, CacheAssumption DEF TimeSound
    <3> QED
      BY <1>9, <3>1 DEF R
  <2>2. Range(p.related) = {}
    BY <1>15, NoneKnown
  <2> QED
    BY <1>1, <1>19, <2>1, <2>2 DEF Exact
<1> QED
  BY <1>1, <1>10, <1>14, <1>15, <1>16, <1>17, <1>18, <1>19 DEF RequestSound, Active

\* What the source answers about files: p is where q goes on.
LEMMA FilesAreAnswered ==
  ASSUME NEW q, NEW now \in Int, NEW since \in Int, NEW source0, RequestSound(q, now, since, source0),
         q.pc = "files",
         NEW known, NEW later \in Int, (later = since /\ known = source0) \/ later = now,
         NEW p, IsRequest(p), p.page = q.page, p.began = q.began, p.rows = q.rows,
         p.single = q.single, p.later = q.later, p.related = q.related, p.found = q.found,
         p.pc = "filed", p.asked = <<>>,
         p.files = q.files \o Assigned(Md5sOf(q.asked),
                                       [i \in DOMAIN q.asked |-> FileEvidence(q.asked[i], known)])
  PROVE  RequestSound(p, now, later, source0)
<1>1. /\ RowsFit(q) /\ FilesFit(q) /\ RelatedFit(q) /\ FoundFit(q)
      /\ since + NegativeTTL <= q.began => Covered(q, source0)
      /\ since + TTL <= q.began => Exact(q, source0)
      /\ q.began \in Int /\ q.began <= now
  BY DEF RequestSound, Active
<1>2. \A a, b \in Range(q.page) : a.md5 = b.md5 => a = b
  BY <1>1, PageKnown DEF RowsFit
<1>3. Range(q.rows) \subseteq Range(q.page)
  BY <1>1 DEF RowsFit
<1>4. /\ List(q.files) /\ List(q.asked) /\ Functional(q.files) /\ Avoids(q.files, q.later)
      /\ Range(q.asked) \subseteq Range(q.rows)
      /\ Apart(q.asked, q.later) /\ Avoids(q.files, q.asked)
  BY <1>1 DEF FilesFit
<1> DEFINE dict == Assigned(Md5sOf(q.asked), [i \in DOMAIN q.asked |-> FileEvidence(q.asked[i], known)])
<1>5. /\ List(dict)
      /\ \A x : x \in Range(dict) <=>
           \E row \in Range(q.asked) : x = [key |-> row.md5, value |-> FileEvidence(row, known)]
  <2>1. List(q.asked)
    BY <1>4
  <2> QED
    BY ONLY <2>1, FilesLearned
<1> HIDE DEF dict
<1>6. List(p.files) /\ Range(p.files) = Range(q.files) \union Range(dict)
  <2>1. p.files = q.files \o dict
    BY DEF dict
  <2>2. List(q.files) /\ List(dict)
    BY <1>4, <1>5
  <2> QED
    BY ONLY <2>1, <2>2, ConcatKnown
<1>7. ASSUME NEW x \in Range(dict)
      PROVE  \E row \in Range(q.asked) :
               /\ x = [key |-> row.md5, value |-> FileEvidence(row, known)]
               /\ x.value = Nothing \/ FileFits(row, x.value)
  <2>1. PICK row \in Range(q.asked) : x = [key |-> row.md5, value |-> FileEvidence(row, known)]
    BY <1>5
  <2> QED
    BY <2>1, EvidenceFits
<1>8. Functional(p.files)
  <2>1. ASSUME NEW x \in Range(dict), NEW y \in Range(dict), x.key = y.key PROVE x = y
    <3>1. PICK a \in Range(q.asked) : x = [key |-> a.md5, value |-> FileEvidence(a, known)]
      BY <1>7
    <3>2. PICK b \in Range(q.asked) : y = [key |-> b.md5, value |-> FileEvidence(b, known)]
      BY <1>7
    <3>3. a.md5 = b.md5 /\ a \in Range(q.page) /\ b \in Range(q.page)
      BY <1>3, <1>4, <2>1, <3>1, <3>2
    <3> QED
      BY <1>2, <3>1, <3>2, <3>3
  <2>2. ASSUME NEW x \in Range(q.files), NEW y \in Range(dict) PROVE x.key # y.key
    <3>1. PICK b \in Range(q.asked) : y.key = b.md5
      BY <1>7
    <3> QED
      BY <1>4, <3>1 DEF Avoids
  <2> QED
    BY <1>4, <1>6, <2>1, <2>2 DEF Functional
<1>9. Avoids(p.files, p.later)
  <2>1. ASSUME NEW x \in Range(dict), NEW row \in Range(q.later) PROVE x.key # row.md5
    <3>1. PICK b \in Range(q.asked) : x.key = b.md5
      BY <1>7
    <3> QED
      BY <1>4, <3>1 DEF Apart
  <2> QED
    BY <1>4, <1>6, <2>1 DEF Avoids
<1>10. FilesFit(p)
  <2>1. ASSUME NEW x \in Range(p.files)
        PROVE  \E row \in Range(p.rows) :
                 x.key = row.md5 /\ (x.value = Nothing \/ FileFits(row, x.value))
    <3>1. CASE x \in Range(q.files)
      BY <1>1, <3>1 DEF FilesFit
    <3>2. CASE x \in Range(dict)
      <4>1. PICK row \in Range(q.asked) :
              /\ x = [key |-> row.md5, value |-> FileEvidence(row, known)]
              /\ x.value = Nothing \/ FileFits(row, x.value)
        BY <1>7, <3>2
      <4>2. x.key = row.md5 /\ row \in Range(p.rows)
        BY <1>4, <4>1
      <4> QED
        BY <4>1, <4>2
    <3> QED
      BY <1>6, <3>1, <3>2
  <2> QED
    BY <1>6, <1>8, <1>9, <2>1, NoneKnown DEF FilesFit
<1>11. p.related = <<>>
  BY <1>1 DEF RelatedFit
<1>12. RowsFit(p) /\ RelatedFit(p) /\ FoundFit(p)
  BY <1>1, <1>11, NoneKnown DEF RowsFit, RelatedFit, FoundFit
<1>13. ASSUME later + NegativeTTL <= q.began PROVE Covered(p, source0)
  <2>1. later = since /\ known = source0
    BY <1>1, <1>13, CacheAssumption
  <2>2. Covered(q, source0)
    BY <1>1, <1>13, <2>1
  <2>3. ASSUME NEW row \in Range(q.asked), FileEvidence(row, source0) # Nothing
        PROVE  \E x \in Range(p.files) : x.key = row.md5 /\ x.value # Nothing
    <3>1. [key |-> row.md5, value |-> FileEvidence(row, source0)] \in Range(p.files)
      BY <1>5, <1>6, <2>1
    <3> QED
      BY <2>3, <3>1
  <2>4. ASSUME NEW row \in Range(q.page), FileEvidence(row, source0) # Nothing,
               ~Has(q.found, row.md5), row \notin Range(q.later)
        PROVE  \E x \in Range(p.files) : x.key = row.md5 /\ x.value # Nothing
    <3>1. \/ \E x \in Range(q.files) : x.key = row.md5 /\ x.value # Nothing
          \/ row \in Range(q.asked)
      BY <2>2, <2>4 DEF Covered
    <3> QED
      BY <1>6, <2>3, <2>4, <3>1
  <2> QED
    BY <2>4 DEF Covered, Filed
<1>14. ASSUME later + TTL <= q.began PROVE Exact(p, source0)
  <2>1. later = since /\ known = source0
    BY <1>1, <1>14, CacheAssumption
  <2>2. Exact(q, source0)
    BY <1>1, <1>14, <2>1
  <2>3. ASSUME NEW x \in Range(p.files)
        PROVE  \E row \in Range(p.rows) : x.key = row.md5 /\ x.value = FileEvidence(row, source0)
    <3>1. CASE x \in Range(q.files)
      BY <2>2, <3>1 DEF Exact
    <3>2. CASE x \in Range(dict)
      <4>1. PICK row \in Range(q.asked) : x = [key |-> row.md5, value |-> FileEvidence(row, source0)]
        BY <1>7, <2>1, <3>2
      <4>2. x.key = row.md5 /\ x.value = FileEvidence(row, source0) /\ row \in Range(p.rows)
        BY <1>4, <4>1
      <4> QED
        BY <4>2
    <3> QED
      BY <1>6, <3>1, <3>2
  <2> QED
    BY <1>11, <2>2, <2>3, NoneKnown DEF Exact
<1> QED
  BY <1>1, <1>10, <1>12, <1>13, <1>14 DEF RequestSound, Active

\* What the cache knows of the editions.
LEMMA EditionsLookedUp ==
  ASSUME TimeSound, CacheSound(entries, clock, disturbed, source),
         NEW q, RequestSound(q, clock, disturbed, source), q.pc = "filed",
         NEW files, files = FilesOf(q), NEW wanted, wanted = Wanted(files),
         NEW hits, hits = EditionHits(files, wanted),
         NEW known, known = Selected(files, hits),
         NEW p, IsRequest(p), p.page = q.page, p.began = q.began, p.rows = q.rows,
         p.single = q.single, p.later = q.later, p.files = q.files, p.found = q.found,
         p.asked = Selected(files, wanted \ hits),
         p.pc = IF p.asked = <<>> THEN "completed" ELSE "editions",
         p.related = KnownEditions(known)
  PROVE  /\ RequestSound(p, clock, disturbed, source)
         /\ List(Selected(files, wanted))
<1> USE DEF FilesOf, Wanted, EditionHits, KnownEditions
<1>1. /\ RowsFit(q) /\ FilesFit(q) /\ RelatedFit(q) /\ FoundFit(q)
      /\ disturbed + NegativeTTL <= q.began => Covered(q, source)
      /\ disturbed + TTL <= q.began => Exact(q, source)
      /\ q.began \in Int /\ q.began <= clock
  BY DEF RequestSound, Active
<1>2. List(q.files)
  BY <1>1 DEF FilesFit
<1>3. /\ DOMAIN q.files = 1..Len(q.files) /\ Len(q.files) \in Nat
      /\ \A x : x \in Range(q.files) <=> \E i \in 1..Len(q.files) : q.files[i] = x
  BY <1>2, ListBasics
<1>4. files = [i \in 1..Len(q.files) |-> files[i]] /\ \A i \in 1..Len(q.files) : files[i] = q.files[i].value
  BY <1>3
<1>5. List(files) /\ DOMAIN files = 1..Len(q.files)
  <2>1. Len(q.files) \in Nat /\ files = [i \in 1..Len(q.files) |-> files[i]]
    BY <1>3, <1>4
  <2> QED
    BY ONLY <2>1, ListMade
<1>6. /\ wanted \in SUBSET (DOMAIN files) /\ hits \in SUBSET (DOMAIN files)
      /\ wanted \ hits \in SUBSET (DOMAIN files)
  OBVIOUS
<1>7. List(Selected(files, wanted))
  BY ONLY <1>5, <1>6, SelectionKnown
<1>8. List(known) /\ \A f : f \in Range(known) <=> \E i \in hits : files[i] = f
  <2>1. List(Selected(files, hits))
        /\ \A f : f \in Range(Selected(files, hits)) <=> \E i \in hits : files[i] = f
    BY ONLY <1>5, <1>6, SelectionKnown
  <2> QED
    BY ONLY <2>1, known = Selected(files, hits)
<1>9. List(p.asked) /\ \A f : f \in Range(p.asked) <=> \E i \in wanted \ hits : files[i] = f
  <2>1. List(Selected(files, wanted \ hits))
        /\ \A f : f \in Range(Selected(files, wanted \ hits)) <=> \E i \in wanted \ hits : files[i] = f
    BY ONLY <1>5, <1>6, SelectionKnown
  <2> QED
    BY ONLY <2>1, p.asked = Selected(files, wanted \ hits)
<1>10. /\ List(p.related)
       /\ \A x : x \in Range(p.related) <=>
            \E f \in Range(known) : x = [key |-> f.file, value |-> Cached(EditionKey(f))]
  <2>1. List(known)
    BY <1>8
  <2> DEFINE dict == Assigned(IdsOf(known), [i \in DOMAIN known |-> Cached(EditionKey(known[i]))])
  <2>2. /\ List(dict)
        /\ \A x : x \in Range(dict) <=>
             \E f \in Range(known) : x = [key |-> f.file, value |-> Cached(EditionKey(f))]
    BY ONLY <2>1, EditionsCached
  <2> HIDE DEF dict
  <2>3. p.related = dict
    BY DEF dict
  <2> QED
    BY ONLY <2>2, <2>3
<1>11. ASSUME NEW i \in wanted
       PROVE  /\ files[i] # Nothing /\ files[i].edition # Absent
              /\ \E x \in Range(q.files) : x.value = files[i]
  BY <1>3, <1>4, <1>5
<1>12. ASSUME NEW x \in Range(p.related)
       PROVE  \E f \in Range(q.files) :
                /\ f.value # Nothing /\ f.value.file = x.key
                /\ x.value = Nothing \/ x.value = [edition |-> f.value.edition, for |-> x.key]
                /\ disturbed + Lifetime(x.value) <= clock => x.value = EditionEvidence(f.value, source)
  <2>1. PICK f \in Range(known) : x = [key |-> f.file, value |-> Cached(EditionKey(f))]
    BY <1>10
  <2>2. PICK i \in hits : files[i] = f
    BY <1>8
  <2>3. f # Nothing /\ Hit(EditionKey(f)) /\ \E y \in Range(q.files) : y.value = f
    BY <1>11, <2>2
  <2>4. x.key = f.file /\ x.value = Cached(EditionKey(f))
    BY <2>1
  <2>5. /\ x.value = Nothing \/ x.value = [edition |-> f.edition, for |-> f.file]
        /\ disturbed + Lifetime(x.value) <= clock => x.value = EditionEvidence(f, source)
    BY <2>3, <2>4, EditionCached
  <2> QED
    BY <2>3, <2>4, <2>5
<1>13. FilesFit(p)
  BY <1>1, <1>9 DEF FilesFit
<1>14. p.pc \in {"editions", "completed"} /\ (p.pc = "completed" => p.asked = <<>>)
  OBVIOUS
<1>15. ASSUME NEW x \in Range(q.files), x.value # Nothing, x.value.edition # Absent
       PROVE  \/ Has(p.related, x.value.file)
              \/ p.pc = "editions" /\ x.value \in Range(p.asked)
  <2>1. PICK i \in wanted : files[i] = x.value
    <3>1. PICK i \in 1..Len(q.files) : q.files[i] = x
      BY <1>3
    <3>2. i \in DOMAIN files /\ files[i] = x.value
      BY <1>4, <1>5, <3>1
    <3>3. i \in wanted
      BY <1>15, <3>2
    <3> QED
      BY <3>2, <3>3
  <2>2. CASE i \in hits
    <3>1. x.value \in Range(known)
      BY <1>8, <2>1, <2>2
    <3>2. [key |-> x.value.file, value |-> Cached(EditionKey(x.value))] \in Range(p.related)
      BY <1>10, <3>1
    <3>3. \E y \in Range(p.related) : y.key = x.value.file
      BY <3>2
    <3>4. List(p.related)
      BY <1>10
    <3> QED
      BY ONLY <3>3, <3>4, GotKnown
  <2>3. CASE i \notin hits
    <3>1. x.value \in Range(p.asked)
      <4>1. i \in wanted \ hits
        BY <2>3
      <4> QED
        BY ONLY <1>9, <2>1, <4>1
    <3>2. p.asked # <<>>
      BY <3>1, NoneKnown
    <3> QED
      BY <1>14, <3>1, <3>2
  <2> QED
    BY <2>2, <2>3
<1>16. ASSUME NEW f \in Range(p.asked) PROVE f # Nothing /\ \E x \in Range(q.files) : x.value = f
  <2>1. PICK i \in wanted \ hits : files[i] = f
    BY <1>9
  <2>2. i \in wanted
    OBVIOUS
  <2> QED
    BY <1>11, <2>1, <2>2
<1>17. RelatedFit(p)
  <2>1. \A x \in Range(p.related) : \E f \in Range(p.files) :
          /\ f.value # Nothing /\ f.value.file = x.key
          /\ x.value = Nothing \/ x.value = [edition |-> f.value.edition, for |-> x.key]
    BY ONLY <1>12, p.files = q.files
  <2>2. \A x \in Range(p.files) : x.value # Nothing /\ x.value.edition # Absent =>
          \/ Has(p.related, x.value.file)
          \/ p.pc = "editions" /\ x.value \in Range(p.asked)
    BY ONLY <1>15, p.files = q.files
  <2>3. \A f \in Range(p.asked) : f # Nothing /\ \E x \in Range(p.files) : x.value = f
    BY ONLY <1>16, p.files = q.files
  <2> QED
    BY ONLY <1>10, <1>14, <2>1, <2>2, <2>3 DEF RelatedFit
<1>18. RowsFit(p) /\ FoundFit(p)
  BY <1>1 DEF RowsFit, FoundFit
<1>19. ASSUME disturbed + NegativeTTL <= q.began PROVE Covered(p, source)
  <2>1. ASSUME NEW row \in Range(q.page), FileEvidence(row, source) # Nothing
        PROVE  \/ Has(q.found, row.md5)
               \/ \E x \in Range(q.files) : x.key = row.md5 /\ x.value # Nothing
               \/ row \in Range(q.later)
    BY <1>1, <1>19, <2>1 DEF Covered
  <2> QED
    BY <1>14, <2>1 DEF Covered, Filed
<1>20. ASSUME disturbed + TTL <= q.began PROVE Exact(p, source)
  <2>1. ASSUME NEW x \in Range(p.related)
        PROVE  \E f \in Range(q.files) :
                 f.value # Nothing /\ f.value.file = x.key /\ x.value = EditionEvidence(f.value, source)
    <3>1. disturbed + Lifetime(x.value) <= clock
      <4>1. /\ disturbed \in Int /\ clock \in Int /\ q.began \in Int
            /\ q.began <= clock /\ disturbed + TTL <= q.began
        BY ONLY TimeSound, <1>1, <1>20 DEF TimeSound
      <4> QED
        BY ONLY <4>1, Lifetimes, CacheAssumption
    <3> QED
      BY <1>12, <3>1
  <2>2. Exact(q, source)
    BY <1>1, <1>20
  <2> QED
    BY ONLY <2>1, <2>2, p.files = q.files, p.rows = q.rows, p.found = q.found, p.page = q.page DEF Exact
<1> QED
  BY <1>1, <1>7, <1>13, <1>14, <1>17, <1>18, <1>19, <1>20 DEF RequestSound, Active

\* What the source answers about editions.
LEMMA EditionsAreAnswered ==
  ASSUME NEW q, NEW now \in Int, NEW since \in Int, NEW source0, RequestSound(q, now, since, source0),
         q.pc = "editions",
         NEW known, NEW later \in Int, (later = since /\ known = source0) \/ later = now,
         NEW p, IsRequest(p), p.page = q.page, p.began = q.began, p.rows = q.rows,
         p.single = q.single, p.later = q.later, p.files = q.files, p.found = q.found,
         p.pc = "completed", p.asked = <<>>,
         p.related = q.related \o Assigned(IdsOf(q.asked),
                                     [i \in DOMAIN q.asked |-> EditionEvidence(q.asked[i], known)])
  PROVE  RequestSound(p, now, later, source0)
<1>1. /\ RowsFit(q) /\ FilesFit(q) /\ RelatedFit(q) /\ FoundFit(q)
      /\ since + NegativeTTL <= q.began => Covered(q, source0)
      /\ since + TTL <= q.began => Exact(q, source0)
      /\ q.began \in Int /\ q.began <= now
  BY DEF RequestSound, Active
<1>2. /\ List(q.related)
      /\ \A x \in Range(q.related) : \E f \in Range(q.files) :
           /\ f.value # Nothing /\ f.value.file = x.key
           /\ x.value = Nothing \/ x.value = [edition |-> f.value.edition, for |-> x.key]
      /\ \A f \in Range(q.asked) : f # Nothing /\ \E x \in Range(q.files) : x.value = f
      /\ \A x \in Range(q.files) : x.value # Nothing /\ x.value.edition # Absent =>
           Has(q.related, x.value.file) \/ x.value \in Range(q.asked)
  BY <1>1 DEF RelatedFit
<1>3. List(q.asked)
  BY <1>1 DEF FilesFit
<1> DEFINE dict == Assigned(IdsOf(q.asked), [i \in DOMAIN q.asked |-> EditionEvidence(q.asked[i], known)])
<1>4. /\ List(dict)
      /\ \A x : x \in Range(dict) <=>
           \E f \in Range(q.asked) : x = [key |-> f.file, value |-> EditionEvidence(f, known)]
  BY ONLY <1>3, EditionsLearned
<1> HIDE DEF dict
<1>5. List(p.related) /\ Range(p.related) = Range(q.related) \union Range(dict)
  <2>1. p.related = q.related \o dict
    BY DEF dict
  <2>2. List(q.related) /\ List(dict)
    BY <1>2, <1>4
  <2> QED
    BY ONLY <2>1, <2>2, ConcatKnown
<1>6. ASSUME NEW x \in Range(dict)
      PROVE  \E f \in Range(q.files) :
               /\ f.value # Nothing /\ f.value.file = x.key
               /\ x.value = Nothing \/ x.value = [edition |-> f.value.edition, for |-> x.key]
               /\ x.value = EditionEvidence(f.value, known)
  <2>1. PICK g \in Range(q.asked) : x = [key |-> g.file, value |-> EditionEvidence(g, known)]
    BY <1>4
  <2>2. PICK f \in Range(q.files) : f.value = g
    BY <1>2
  <2>3. g # Nothing
    BY <1>2
  <2>4. x.key = f.value.file /\ x.value = EditionEvidence(f.value, known)
    BY <2>1, <2>2
  <2>5. \/ EditionEvidence(f.value, known) = Nothing
        \/ EditionEvidence(f.value, known) = [edition |-> f.value.edition, for |-> f.value.file]
    BY EditionFits
  <2> QED
    BY <2>2, <2>3, <2>4, <2>5
<1>7. ASSUME NEW key, Has(q.related, key) \/ \E x \in Range(dict) : x.key = key PROVE Has(p.related, key)
  <2>1. List(q.related) /\ List(p.related)
    BY <1>2, <1>5
  <2>2. Has(q.related, key) => \E x \in Range(q.related) : x.key = key
    BY ONLY <2>1, GotKnown
  <2>3. \E x \in Range(p.related) : x.key = key
    BY <1>5, <1>7, <2>2
  <2> QED
    BY ONLY <2>1, <2>3, GotKnown
<1>8. ASSUME NEW x \in Range(q.files), x.value # Nothing, x.value.edition # Absent
      PROVE  Has(p.related, x.value.file)
  <2>1. CASE Has(q.related, x.value.file)
    BY <1>7, <2>1
  <2>2. CASE x.value \in Range(q.asked)
    <3>1. [key |-> x.value.file, value |-> EditionEvidence(x.value, known)] \in Range(dict)
      BY <1>4, <2>2
    <3>2. \E y \in Range(dict) : y.key = x.value.file
      BY <3>1
    <3> QED
      BY <1>7, <3>2
  <2> QED
    BY <1>2, <1>8, <2>1, <2>2
<1>9. \A x \in Range(p.related) : \E f \in Range(q.files) :
        /\ f.value # Nothing /\ f.value.file = x.key
        /\ x.value = Nothing \/ x.value = [edition |-> f.value.edition, for |-> x.key]
  BY <1>2, <1>5, <1>6
<1>10. RelatedFit(p)
  BY <1>5, <1>8, <1>9 DEF RelatedFit
<1>11. FilesFit(p)
  BY <1>1, NoneKnown DEF FilesFit
<1>12. RowsFit(p) /\ FoundFit(p)
  BY <1>1 DEF RowsFit, FoundFit
<1>13. ASSUME later + NegativeTTL <= q.began PROVE Covered(p, source0)
  <2>1. Covered(q, source0)
    BY <1>1, <1>13, CacheAssumption
  <2>2. ASSUME NEW row \in Range(q.page), FileEvidence(row, source0) # Nothing
        PROVE  \/ Has(q.found, row.md5)
               \/ \E x \in Range(q.files) : x.key = row.md5 /\ x.value # Nothing
               \/ row \in Range(q.later)
    BY <2>1, <2>2 DEF Covered
  <2> QED
    BY <2>2 DEF Covered, Filed
<1>14. ASSUME later + TTL <= q.began PROVE Exact(p, source0)
  <2>1. later = since /\ known = source0
    BY <1>1, <1>14, CacheAssumption
  <2>2. Exact(q, source0)
    BY <1>1, <1>14, <2>1
  <2>3. \A x \in Range(p.related) : \E f \in Range(q.files) :
          f.value # Nothing /\ f.value.file = x.key /\ x.value = EditionEvidence(f.value, source0)
    BY <1>5, <1>6, <2>1, <2>2 DEF Exact
  <2> QED
    BY <2>2, <2>3 DEF Exact
<1> QED
  BY <1>1, <1>10, <1>11, <1>12, <1>13, <1>14 DEF RequestSound, Active


LEMMA GotFunctional ==
  ASSUME NEW dict, List(dict), Functional(dict), NEW x \in Range(dict)
  PROVE  Has(dict, x.key) /\ Got(dict, x.key) = x.value
<1>1. Has(dict, x.key)
  <2>1. \E y \in Range(dict) : y.key = x.key
    OBVIOUS
  <2> QED
    BY <2>1, GotKnown
<1>2. PICK y \in Range(dict) : y.key = x.key /\ Got(dict, x.key) = y.value
  BY <1>1, GotKnown
<1> QED
  BY <1>1, <1>2 DEF Functional

\* Evidence for one file is evidence for one row.
LEMMA OneRow ==
  ASSUME NEW rows, \A a, b \in rows : a.md5 = b.md5 => a = b, NEW known,
         NEW a \in rows, NEW b \in rows,
         FileEvidence(a, known) # Nothing, FileEvidence(b, known) # Nothing,
         FileEvidence(a, known).file = FileEvidence(b, known).file
  PROVE  a = b
<1>1. /\ FileEvidence(a, known).md5 = a.md5 /\ FileEvidence(b, known).md5 = b.md5
      /\ FileEvidence(a, known).md5 = FileEvidence(b, known).md5
  BY EvidenceFits DEF FileFits
<1> QED
  BY <1>1

\* The candidates of a request, with those of the rows that are complete now.
LEMMA FoundKnown ==
  ASSUME NEW q, NEW now, NEW since, NEW known, RequestSound(q, now, since, known), q.pc = "completed",
         NEW found, found = Found(q)
  PROVE  /\ List(found) /\ Functional(found) /\ Avoids(found, q.later)
         /\ \A x \in Range(found) :
              /\ \E row \in Range(q.page) :
                   x.key = row.md5 /\ x.value.row = row /\ FileFits(row, x.value.file)
              /\ Founded(x.value, ValuesOf(found))
         /\ since + NegativeTTL <= q.began =>
              \A row \in Range(q.page) : FileEvidence(row, known) # Nothing =>
                Has(found, row.md5) \/ row \in Range(q.later)
         /\ since + TTL <= q.began =>
              \A x \in Range(found) : \E row \in Range(q.page) :
                x.key = row.md5 /\ FileEvidence(row, known) # Nothing /\ x.value = TruthOf(row, known)
<1> DEFINE P == {i \in DOMAIN q.rows : Got(q.files, q.rows[i].md5) # Nothing}
           rows == Selected(q.rows, P)
           dict == Assigned(Md5sOf(rows), [i \in DOMAIN rows |-> CandidateOf(q, rows[i])])
<1>1. /\ RowsFit(q) /\ FilesFit(q) /\ RelatedFit(q) /\ FoundFit(q)
      /\ since + NegativeTTL <= q.began => Covered(q, known)
      /\ since + TTL <= q.began => Exact(q, known)
  BY DEF RequestSound, Active
<1>2. /\ List(q.rows) /\ Range(q.rows) \subseteq Range(q.page)
      /\ \A a, b \in Range(q.page) : a.md5 = b.md5 => a = b
  BY <1>1, PageKnown DEF RowsFit
<1>3. /\ List(q.files) /\ Functional(q.files) /\ Avoids(q.files, q.later)
      /\ \A x \in Range(q.files) : \E row \in Range(q.rows) :
           x.key = row.md5 /\ (x.value = Nothing \/ FileFits(row, x.value))
  BY <1>1 DEF FilesFit
<1>4. List(rows) /\ \A x : x \in Range(rows) <=> x \in Range(q.rows) /\ Got(q.files, x.md5) # Nothing
  <2>1. P \in SUBSET (DOMAIN q.rows)
    OBVIOUS
  <2>2. List(rows) /\ \A x : x \in Range(rows) <=> \E i \in P : q.rows[i] = x
    BY ONLY <1>2, <2>1, SelectionKnown
  <2>3. \A x : x \in Range(q.rows) <=> \E i \in DOMAIN q.rows : q.rows[i] = x
    BY DEF Range
  <2> HIDE DEF rows
  <2> QED
    BY <2>2, <2>3
<1> HIDE DEF rows, P
<1>5. /\ List(dict)
      /\ \A x : x \in Range(dict) <=>
           \E row \in Range(rows) : x = [key |-> row.md5, value |-> CandidateOf(q, row)]
  BY ONLY <1>4, CandidatesBuilt
<1> HIDE DEF dict
<1>6. List(found) /\ Range(found) = Range(q.found) \union Range(dict)
  <2>1. found = q.found \o dict
    BY DEF Found, dict, rows, P
  <2>2. List(q.found) /\ List(dict)
    BY <1>1, <1>5 DEF FoundFit
  <2> QED
    BY ONLY <2>1, <2>2, ConcatKnown
\* What is known of a row's file.
<1>7. ASSUME NEW row \in Range(rows)
      PROVE  \E x \in Range(q.files) : /\ x.key = row.md5 /\ x.value = Got(q.files, row.md5)
                                       /\ x.value # Nothing /\ FileFits(row, x.value)
  <2>1. Got(q.files, row.md5) # Nothing /\ row \in Range(q.rows)
    BY <1>4
  <2>2. PICK x \in Range(q.files) : x.key = row.md5 /\ x.value = Got(q.files, row.md5)
    BY <1>3, <2>1, GotKnown
  <2>3. PICK a \in Range(q.rows) : x.key = a.md5 /\ (x.value = Nothing \/ FileFits(a, x.value))
    BY <1>3
  <2>4. a = row
    BY <1>2, <2>1, <2>2, <2>3
  <2> QED
    BY <2>1, <2>2, <2>3, <2>4
<1>8. ASSUME NEW row, NEW c, c = CandidateOf(q, row)
      PROVE  /\ c.row = row /\ c.file = Got(q.files, row.md5)
             /\ c = [row |-> row, file |-> c.file, edition |-> c.edition]
             /\ c.edition = IF c.file.edition = Absent THEN Nothing ELSE Got(q.related, c.file.file)
  BY <1>8 DEF CandidateOf
<1>9. Functional(found)
  <2>1. ASSUME NEW x \in Range(dict), NEW y \in Range(dict), x.key = y.key PROVE x = y
    <3>1. PICK a \in Range(rows) : x = [key |-> a.md5, value |-> CandidateOf(q, a)]
      BY <1>5
    <3>2. PICK b \in Range(rows) : y = [key |-> b.md5, value |-> CandidateOf(q, b)]
      BY <1>5
    <3>3. a.md5 = b.md5 /\ a \in Range(q.page) /\ b \in Range(q.page)
      BY <1>2, <1>4, <2>1, <3>1, <3>2
    <3> QED
      BY <1>2, <3>1, <3>2, <3>3
  <2>2. ASSUME NEW x \in Range(q.found), NEW y \in Range(dict) PROVE x.key # y.key
    <3>1. PICK b \in Range(rows) : y = [key |-> b.md5, value |-> CandidateOf(q, b)]
      BY <1>5
    <3>2. b \in Range(q.rows) /\ y.key = b.md5
      BY <1>4, <3>1
    <3> QED
      BY <1>1, <3>2 DEF FoundFit, Avoids
  <2> QED
    BY <1>1, <1>6, <2>1, <2>2 DEF Functional, FoundFit
<1>10. Avoids(found, q.later)
  <2>1. ASSUME NEW x \in Range(dict), NEW row \in Range(q.later) PROVE x.key # row.md5
    <3>1. PICK b \in Range(rows) : x = [key |-> b.md5, value |-> CandidateOf(q, b)]
      BY <1>5
    <3>2. PICK y \in Range(q.files) : y.key = b.md5
      BY <1>7
    <3> QED
      BY <1>3, <3>1, <3>2 DEF Avoids
  <2> QED
    BY <1>1, <1>6, <2>1 DEF Avoids, FoundFit
<1>11. ASSUME NEW x \in Range(dict)
       PROVE  \E row \in Range(q.page) :
                x.key = row.md5 /\ x.value.row = row /\ FileFits(row, x.value.file)
  <2>1. PICK row \in Range(rows) : x = [key |-> row.md5, value |-> CandidateOf(q, row)]
    BY <1>5
  <2>2. x.key = row.md5 /\ x.value.row = row /\ x.value.file = Got(q.files, row.md5)
    BY <1>8, <2>1
  <2>3. FileFits(row, x.value.file) /\ row \in Range(q.page)
    BY <1>2, <1>4, <1>7, <2>2
  <2> QED
    BY <2>2, <2>3
<1>12. ASSUME NEW x \in Range(dict) PROVE Founded(x.value, ValuesOf(found))
  <2>1. PICK row \in Range(rows) : x = [key |-> row.md5, value |-> CandidateOf(q, row)]
    BY <1>5
  <2> DEFINE c == x.value
  <2>2. /\ c.file = Got(q.files, row.md5)
        /\ c.edition = IF c.file.edition = Absent THEN Nothing ELSE Got(q.related, c.file.file)
    BY <1>8, <2>1
  <2> HIDE DEF c
  <2>3. SUFFICES ASSUME c.edition # Nothing
                 PROVE  \E other \in ValuesOf(found) :
                          /\ other.file.file = c.file.file
                          /\ c.edition = [edition |-> other.file.edition, for |-> c.file.file]
    BY DEF Founded, c
  <2>4. Got(q.related, c.file.file) # Nothing /\ c.edition = Got(q.related, c.file.file)
    BY <2>2, <2>3
  <2>5. List(q.related)
    BY <1>1 DEF RelatedFit
  <2>6. PICK y \in Range(q.related) : y.key = c.file.file /\ c.edition = y.value
    BY <2>4, <2>5, GotKnown
  <2>7. PICK f \in Range(q.files) :
          /\ f.value # Nothing /\ f.value.file = y.key
          /\ y.value = Nothing \/ y.value = [edition |-> f.value.edition, for |-> y.key]
    BY <1>1 DEF RelatedFit
  <2>8. PICK other \in Range(q.rows) : f.key = other.md5
    BY <1>3
  <2>9. Got(q.files, other.md5) = f.value
    <3>1. List(q.files) /\ Functional(q.files)
      BY <1>3
    <3> QED
      BY <2>8, <3>1, GotFunctional
  <2>10. other \in Range(rows)
    BY <1>4, <2>7, <2>9
  <2> DEFINE d == CandidateOf(q, other)
  <2>11. d.file = f.value
    BY <1>8, <2>9
  <2>12. [key |-> other.md5, value |-> d] \in Range(found)
    BY <1>5, <1>6, <2>10
  <2> HIDE DEF d
  <2>13. d \in ValuesOf(found)
    BY <2>12 DEF ValuesOf
  <2> QED
    BY <2>3, <2>6, <2>7, <2>11, <2>13
<1>13. ASSUME NEW x \in Range(q.found) PROVE Founded(x.value, ValuesOf(found))
  <2>1. ValuesOf(q.found) \subseteq ValuesOf(found)
    BY <1>6 DEF ValuesOf
  <2>2. Founded(x.value, ValuesOf(q.found))
    BY <1>1 DEF FoundFit
  <2> QED
    BY <2>1, <2>2 DEF Founded
<1>14. ASSUME NEW x \in Range(found)
       PROVE  /\ \E row \in Range(q.page) :
                   x.key = row.md5 /\ x.value.row = row /\ FileFits(row, x.value.file)
              /\ Founded(x.value, ValuesOf(found))
  BY <1>1, <1>6, <1>11, <1>12, <1>13 DEF FoundFit
<1>15. ASSUME since + NegativeTTL <= q.began, NEW row \in Range(q.page),
              FileEvidence(row, known) # Nothing, row \notin Range(q.later)
       PROVE  Has(found, row.md5)
  <2>1. \/ Has(q.found, row.md5)
        \/ \E x \in Range(q.files) : x.key = row.md5 /\ x.value # Nothing
    BY <1>1, <1>15 DEF Covered
  <2>2. SUFFICES \E x \in Range(found) : x.key = row.md5
    BY <1>6, GotKnown
  <2>3. CASE Has(q.found, row.md5)
    <3>1. List(q.found)
      BY <1>1 DEF FoundFit
    <3>2. \E x \in Range(q.found) : x.key = row.md5
      BY <2>3, <3>1, GotKnown
    <3> QED
      BY <1>6, <3>2
  <2>4. CASE \E x \in Range(q.files) : x.key = row.md5 /\ x.value # Nothing
    <3>1. PICK x \in Range(q.files) : x.key = row.md5 /\ x.value # Nothing
      BY <2>4
    <3>2. Got(q.files, row.md5) = x.value
      BY <1>3, <3>1, GotFunctional
    <3>3. PICK a \in Range(q.rows) : x.key = a.md5
      BY <1>3
    <3>4. a \in Range(rows)
      BY <1>4, <3>1, <3>2, <3>3
    <3>5. [key |-> a.md5, value |-> CandidateOf(q, a)] \in Range(found)
      BY <1>5, <1>6, <3>4
    <3> QED
      BY <3>1, <3>3, <3>5
  <2> QED
    BY <2>1, <2>3, <2>4
<1>16. ASSUME since + TTL <= q.began, NEW x \in Range(found)
       PROVE  \E row \in Range(q.page) :
                x.key = row.md5 /\ FileEvidence(row, known) # Nothing /\ x.value = TruthOf(row, known)
  <2>1. Exact(q, known)
    BY <1>1, <1>16
  <2>2. CASE x \in Range(q.found)
    BY <2>1, <2>2 DEF Exact
  <2>3. CASE x \in Range(dict)
    <3>1. PICK row \in Range(rows) : x = [key |-> row.md5, value |-> CandidateOf(q, row)]
      BY <1>5, <2>3
    <3> DEFINE c == x.value
    <3>2. /\ x.key = row.md5 /\ c.file = Got(q.files, row.md5)
          /\ c = [row |-> row, file |-> c.file, edition |-> c.edition]
          /\ c.edition = IF c.file.edition = Absent THEN Nothing ELSE Got(q.related, c.file.file)
      BY <1>8, <3>1
    <3> HIDE DEF c
    <3>3. row \in Range(q.page) /\ Range(q.rows) \subseteq Range(q.page)
      BY <1>2, <1>4
    \* A file of the request is the evidence for its row.
    <3>4. ASSUME NEW f \in Range(q.files), NEW a \in Range(q.page), f.key = a.md5
          PROVE  f.value = FileEvidence(a, known)
      <4>1. PICK b \in Range(q.rows) : f.key = b.md5 /\ f.value = FileEvidence(b, known)
        BY <2>1 DEF Exact
      <4>2. a = b
        BY <1>2, <3>3, <3>4, <4>1
      <4> QED
        BY <4>1, <4>2
    <3>5. PICK g \in Range(q.files) : /\ g.key = row.md5 /\ g.value = c.file /\ g.value # Nothing
      BY <1>7, <3>2
    <3>6. c.file = FileEvidence(row, known) /\ c.file # Nothing
      BY <3>3, <3>4, <3>5
    <3>7. c.edition = IF c.file.edition = Absent THEN Nothing ELSE EditionEvidence(c.file, known)
      <4>1. CASE c.file.edition = Absent
        BY <3>2, <4>1
      <4>2. CASE c.file.edition # Absent
        <5>1. List(q.related) /\ Has(q.related, c.file.file)
          BY <1>1, <3>5, <4>2 DEF RelatedFit
        <5>2. PICK y \in Range(q.related) : y.key = c.file.file /\ c.edition = y.value
          BY <3>2, <4>2, <5>1, GotKnown
        <5>3. PICK f \in Range(q.files) :
                f.value # Nothing /\ f.value.file = y.key /\ y.value = EditionEvidence(f.value, known)
          BY <2>1 DEF Exact
        <5>4. PICK b \in Range(q.page) : f.key = b.md5
          BY <1>3, <3>3
        <5>5. f.value = FileEvidence(b, known)
          BY <3>4, <5>4
        <5>6. row = b
          BY <1>2, <3>3, <3>6, <5>2, <5>3, <5>5, OneRow
        <5>7. f.value = c.file
          BY <3>6, <5>5, <5>6
        <5> QED
          BY <4>2, <5>2, <5>3, <5>7
      <4> QED
        BY <4>1, <4>2
    <3>8. c = TruthOf(row, known)
      BY <3>2, <3>6, <3>7 DEF TruthOf
    <3> QED
      BY <3>2, <3>3, <3>6, <3>8 DEF c
  <2> QED
    BY <1>6, <2>2, <2>3
<1> QED
  BY <1>6, <1>9, <1>10, <1>14, <1>15, <1>16


LEMMA OneKnown ==
  ASSUME NEW x
  PROVE  List(<<x>>) /\ Range(<<x>>) = {x} /\ Distinct(<<x>>)
<1>1. <<x>> \in Seq({x}) /\ DOMAIN <<x>> = {1} /\ <<x>>[1] = x
  OBVIOUS
<1>2. Range(<<x>>) = {x}
  BY <1>1 DEF Range
<1> QED
  BY <1>1, <1>2 DEF List, Distinct

LEMMA RestKnown ==
  ASSUME NEW s, List(s), Distinct(s), s # <<>>
  PROVE  /\ List(Tail(s)) /\ Distinct(Tail(s))
         /\ Head(s) \in Range(s) /\ Range(Tail(s)) \subseteq Range(s)
         /\ \A x \in Range(s) : x = Head(s) \/ x \in Range(Tail(s))
         /\ Apart(<<Head(s)>>, Tail(s))
<1> DEFINE n == Len(s)
           t == Tail(s)
<1>1. /\ s \in Seq(Range(s)) /\ n \in Nat /\ DOMAIN s = 1..n
      /\ \A x : x \in Range(s) <=> \E i \in 1..n : s[i] = x
  BY ListBasics
<1>2. n # 0
  BY <1>1, EmptySeq
<1>3. /\ t \in Seq(Range(s)) /\ Len(t) = n - 1
      /\ \A i \in 1..(n - 1) : t[i] = s[i + 1]
      /\ Head(s) = s[1]
  BY <1>1, <1>2
<1> HIDE DEF t, n
<1>4. List(t) /\ Range(t) \subseteq Range(s) /\ DOMAIN t = 1..(n - 1)
  BY <1>3, ListKnown
<1>5. \A x : x \in Range(t) <=> \E i \in 1..(n - 1) : t[i] = x
  BY <1>3, <1>4, ListBasics
<1>6. Distinct(t)
  <2>1. ASSUME NEW i \in 1..(n - 1), NEW j \in 1..(n - 1), t[i].md5 = t[j].md5 PROVE i = j
    <3>1. i + 1 \in DOMAIN s /\ j + 1 \in DOMAIN s
      BY <1>1
    <3>2. t[i] = s[i + 1] /\ t[j] = s[j + 1]
      BY <1>3
    <3>3. i + 1 = j + 1
      BY <2>1, <3>1, <3>2 DEF Distinct
    <3> QED
      BY <1>1, <3>3
  <2> QED
    BY <1>4, <2>1 DEF Distinct
<1>7. Head(s) \in Range(s)
  BY <1>1, <1>2, <1>3
<1>8. ASSUME NEW x \in Range(s), x # Head(s) PROVE x \in Range(t)
  <2>1. PICK i \in 1..n : s[i] = x
    BY <1>1
  <2>2. i - 1 \in 1..(n - 1) /\ t[i - 1] = x
    <3>1. i # 1
      BY <1>3, <1>8, <2>1
    <3>2. i - 1 \in 1..(n - 1) /\ (i - 1) + 1 = i
      BY <1>1, <3>1
    <3> QED
      BY <1>3, <2>1, <3>2
  <2> QED
    BY <1>5, <2>2
<1>9. ASSUME NEW x \in Range(t) PROVE Head(s).md5 # x.md5
  <2>1. PICK i \in 1..(n - 1) : t[i] = x
    BY <1>5
  <2>2. 1 \in DOMAIN s /\ i + 1 \in DOMAIN s /\ 1 # i + 1 /\ s[i + 1] = x
    BY <1>1, <1>2, <1>3, <2>1
  <2> QED
    BY <1>3, <2>2 DEF Distinct
<1>10. Apart(<<Head(s)>>, t)
  BY <1>9, OneKnown DEF Apart
<1> QED
  BY <1>4, <1>6, <1>7, <1>8, <1>10 DEF t

\* The next row that was left for later.
LEMMA OneFollows ==
  ASSUME NEW q, NEW now, NEW since, NEW known, RequestSound(q, now, since, known), q.pc = "completed",
         q.later # <<>>,
         NEW p, IsRequest(p), p.page = q.page, p.began = q.began, p.rows = <<Head(q.later)>>,
         p.single = TRUE, p.later = Tail(q.later), p.asked = q.asked, p.files = <<>>,
         p.related = <<>>, p.found = Found(q), p.pc = "lookup"
  PROVE  RequestSound(p, now, since, known)
<1>1. /\ RowsFit(q) /\ FilesFit(q)
      /\ q.began \in Int /\ q.began <= now
  BY DEF RequestSound, Active
<1>2. /\ q.page \in Pages /\ List(q.later) /\ Distinct(q.later) /\ Range(q.later) \subseteq Range(q.page)
  BY <1>1 DEF RowsFit
<1>3. /\ List(p.later) /\ Distinct(p.later)
      /\ Head(q.later) \in Range(q.later) /\ Range(p.later) \subseteq Range(q.later)
      /\ \A x \in Range(q.later) : x = Head(q.later) \/ x \in Range(p.later)
      /\ Apart(p.rows, p.later)
  BY <1>2, RestKnown
<1>4. List(p.rows) /\ Range(p.rows) = {Head(q.later)} /\ Distinct(p.rows)
  BY OneKnown
<1>5. RowsFit(p)
  BY <1>2, <1>3, <1>4 DEF RowsFit
<1>6. List(p.files) /\ Range(p.files) = {} /\ List(p.related) /\ Range(p.related) = {}
  BY NoneKnown
<1>7. FilesFit(p) /\ RelatedFit(p)
  BY <1>1, <1>6 DEF FilesFit, RelatedFit, Functional, Avoids
<1>8. /\ List(p.found) /\ Functional(p.found) /\ Avoids(p.found, q.later)
      /\ \A x \in Range(p.found) :
           /\ \E row \in Range(q.page) :
                x.key = row.md5 /\ x.value.row = row /\ FileFits(row, x.value.file)
           /\ Founded(x.value, ValuesOf(p.found))
      /\ since + NegativeTTL <= q.began =>
           \A row \in Range(q.page) : FileEvidence(row, known) # Nothing =>
             Has(p.found, row.md5) \/ row \in Range(q.later)
      /\ since + TTL <= q.began =>
           \A x \in Range(p.found) : \E row \in Range(q.page) :
             x.key = row.md5 /\ FileEvidence(row, known) # Nothing /\ x.value = TruthOf(row, known)
  BY FoundKnown
<1>9. FoundFit(p)
  <2>1. Avoids(p.found, p.rows) /\ Avoids(p.found, p.later)
    BY <1>3, <1>4, <1>8 DEF Avoids
  <2> QED
    BY <1>8, <2>1 DEF FoundFit
<1>10. ASSUME since + NegativeTTL <= q.began PROVE Covered(p, known)
  BY <1>3, <1>4, <1>8, <1>10 DEF Covered
<1>11. ASSUME since + TTL <= q.began PROVE Exact(p, known)
  BY <1>6, <1>8, <1>11 DEF Exact
<1> QED
  BY <1>1, <1>5, <1>7, <1>9, <1>10, <1>11 DEF RequestSound, Active


\* The listing of a request that is over.
LEMMA ListingKnown ==
  ASSUME NEW q, NEW now, NEW since \in Int, NEW known, RequestSound(q, now, since, known), q.pc = "completed",
         q.later = <<>>,
         NEW p, IsRequest(p), p.page = q.page, p.began = q.began, p.found = Listing(q.page, Found(q)),
         p.pc = "over"
  PROVE  RequestSound(p, now, since, known)
<1> DEFINE page == q.page
           found == Found(q)
           P == {i \in DOMAIN page : Has(found, page[i].md5)}
           listed == Selected(page, P)
           G == {i \in DOMAIN page : FileEvidence(page[i], known) # Nothing}
<1>1. page \in Pages /\ q.began \in Int /\ q.began <= now
  BY DEF RequestSound, Active, RowsFit
<1>2. List(page) /\ Distinct(page) /\ \A a, b \in Range(page) : a.md5 = b.md5 => a = b
  BY <1>1, PageKnown
<1>3. /\ List(found) /\ Functional(found)
      /\ \A x \in Range(found) :
           /\ \E row \in Range(page) :
                x.key = row.md5 /\ x.value.row = row /\ FileFits(row, x.value.file)
           /\ Founded(x.value, ValuesOf(found))
      /\ since + NegativeTTL <= q.began =>
           \A row \in Range(page) : FileEvidence(row, known) # Nothing => Has(found, row.md5)
      /\ since + TTL <= q.began =>
           \A x \in Range(found) : \E row \in Range(page) :
             x.key = row.md5 /\ FileEvidence(row, known) # Nothing /\ x.value = TruthOf(row, known)
  BY FoundKnown, NoneKnown
<1>4. \A i \in DOMAIN page : page[i] \in Range(page)
  BY DEF Range
<1>5. \A row \in Range(page) : \E i \in DOMAIN page : page[i] = row
  BY DEF Range
<1> HIDE DEF found, page
<1>6. List(listed) /\ \A x : x \in Range(listed) <=> \E i \in P : page[i] = x
  <2>1. P \in SUBSET (DOMAIN page)
    OBVIOUS
  <2> QED
    BY ONLY <1>2, <2>1, SelectionKnown
<1>7. \A x : x \in Range(listed) <=> x \in Range(page) /\ Has(found, x.md5)
  <2> HIDE DEF listed
  <2> QED
    BY <1>4, <1>5, <1>6
<1>8. p.found = [k \in DOMAIN listed |-> Got(found, listed[k].md5)]
  BY DEF Listing, found, page
<1> HIDE DEF listed, P
<1>9. DOMAIN listed = 1..Len(listed) /\ \A x : x \in Range(listed) <=> \E k \in 1..Len(listed) : listed[k] = x
  BY <1>6, ListBasics
<1>10. DOMAIN p.found = DOMAIN listed /\ \A k \in DOMAIN listed : p.found[k] = Got(found, listed[k].md5)
  BY <1>8
\* What is listed for a row is what was found for it.
<1>11. ASSUME NEW k \in DOMAIN listed
       PROVE  /\ listed[k] \in Range(page)
              /\ \E x \in Range(found) : x.key = listed[k].md5 /\ p.found[k] = x.value /\ x.value.row = listed[k]
              /\ FileFits(listed[k], p.found[k].file)
  <2>1. listed[k] \in Range(page) /\ Has(found, listed[k].md5)
    BY <1>7, <1>9
  <2>2. PICK x \in Range(found) : x.key = listed[k].md5 /\ p.found[k] = x.value
    BY <1>3, <1>10, <2>1, GotKnown
  <2>3. PICK row \in Range(page) : x.key = row.md5 /\ x.value.row = row /\ FileFits(row, x.value.file)
    BY <1>3
  <2>4. row = listed[k]
    BY <1>2, <2>1, <2>2, <2>3
  <2> QED
    BY <2>1, <2>2, <2>3, <2>4
<1>12. ASSUME NEW row \in Range(page), Has(found, row.md5) PROVE \E k \in DOMAIN listed : listed[k] = row
  BY <1>7, <1>9, <1>12
<1>13. ListingFits(p.found)
  <2>1. SUFFICES ASSUME NEW i \in DOMAIN listed, p.found[i].edition # Nothing,
                        \A j \in DOMAIN p.found \ {i} : p.found[j].file.file # p.found[i].file.file
                 PROVE  p.found[i].edition =
                          [edition |-> p.found[i].file.edition, for |-> p.found[i].file.file]
    <3>1. \A i \in DOMAIN listed : FileFits(p.found[i].row, p.found[i].file)
      BY <1>11
    <3> QED
      BY <1>10, <3>1 DEF ListingFits
  <2>2. Founded(p.found[i], ValuesOf(found))
    BY <1>3, <1>11
  <2>3. PICK other \in ValuesOf(found) :
          /\ other.file.file = p.found[i].file.file
          /\ p.found[i].edition = [edition |-> other.file.edition, for |-> p.found[i].file.file]
    BY <2>1, <2>2 DEF Founded
  <2>4. PICK y \in Range(found) : other = y.value
    BY DEF ValuesOf
  <2>5. PICK row \in Range(page) : y.key = row.md5
    BY <1>3
  <2>6. Has(found, row.md5) /\ Got(found, row.md5) = other
    BY <1>3, <2>4, <2>5, GotFunctional
  <2>7. PICK j \in DOMAIN listed : listed[j] = row
    BY <1>12, <2>6
  <2>8. p.found[j] = other /\ j \in DOMAIN p.found
    BY <1>10, <2>6, <2>7
  <2>9. j = i
    BY <2>1, <2>3, <2>8
  <2> QED
    BY <2>3, <2>8, <2>9
<1>14. ASSUME since + NegativeTTL <= q.began
       PROVE  Range(Genuine(page, known)) \subseteq {p.found[i].row : i \in DOMAIN p.found}
  <2>1. G \in SUBSET (DOMAIN page) /\ Genuine(page, known) = Selected(page, G)
    BY DEF Genuine
  <2>2. \A x \in Range(Selected(page, G)) : \E i \in G : page[i] = x
    BY ONLY <1>2, <2>1, SelectionKnown
  <2>3. ASSUME NEW x \in Range(Genuine(page, known)) PROVE \E i \in DOMAIN p.found : p.found[i].row = x
    <3>1. PICK i \in G : page[i] = x
      BY <2>1, <2>2
    <3>2. x \in Range(page) /\ Has(found, x.md5)
      BY <1>3, <1>4, <1>14, <3>1
    <3>3. PICK k \in DOMAIN listed : listed[k] = x
      BY <1>12, <3>2
    <3> QED
      BY <1>10, <1>11, <3>3
  <2> QED
    BY <2>3
<1>15. ASSUME since + TTL <= q.began
       PROVE  p.found = [k \in DOMAIN Genuine(page, known) |-> TruthOf(Genuine(page, known)[k], known)]
  <2>1. \A row \in Range(page) : FileEvidence(row, known) # Nothing => Has(found, row.md5)
    BY <1>1, <1>3, <1>15, CacheAssumption, EnricherAssumption
  <2>2. ASSUME NEW row \in Range(page), Has(found, row.md5)
        PROVE  FileEvidence(row, known) # Nothing /\ Got(found, row.md5) = TruthOf(row, known)
    <3>1. PICK x \in Range(found) : x.key = row.md5 /\ Got(found, row.md5) = x.value
      BY <1>3, <2>2, GotKnown
    <3>2. PICK a \in Range(page) :
            x.key = a.md5 /\ FileEvidence(a, known) # Nothing /\ x.value = TruthOf(a, known)
      BY <1>3, <1>15
    <3>3. a = row
      BY <1>2, <3>1, <3>2
    <3> QED
      BY <3>1, <3>2, <3>3
  <2>3. P = G
    BY <1>4, <2>1, <2>2 DEF P
  <2>4. listed = Genuine(page, known)
    BY <2>3 DEF listed, Genuine
  <2>5. \A k \in DOMAIN listed : Got(found, listed[k].md5) = TruthOf(listed[k], known)
    BY <1>7, <1>9, <2>2
  <2>6. p.found = [k \in DOMAIN listed |-> TruthOf(listed[k], known)]
    BY <1>8, <2>5
  <2> QED
    BY <2>4, <2>6
<1> QED
  BY <1>1, <1>13, <1>14, <1>15 DEF RequestSound, Active, page


LEMMA RequestAges ==
  ASSUME NEW q, NEW now \in Int, NEW since \in Int, NEW known, RequestSound(q, now, since, known),
         NEW later \in Int, now <= later
  PROVE  /\ RequestSound(q, later, since, known)
         /\ \A other : RequestSound(q, now, now, other)
<1>1. RequestSound(q, later, since, known)
  <2>1. q.began \in Int /\ q.began <= now => q.began <= later
    OBVIOUS
  <2> QED
    BY <2>1 DEF RequestSound
<1>2. ASSUME NEW other PROVE RequestSound(q, now, now, other)
  <2>1. q.began \in Int /\ q.began <= now => ~(now + TTL <= q.began) /\ ~(now + NegativeTTL <= q.began)
    BY CacheAssumption
  <2>2. q.pc \in Active \union {"over"} => ~(now + TTL <= q.began) /\ ~(now + NegativeTTL <= q.began)
    BY <2>1 DEF RequestSound
  <2> QED
    BY <2>2 DEF RequestSound
<1> QED
  BY <1>1, <1>2

\* A request is done with: at first, or because it failed.
LEMMA IdleSound ==
  ASSUME NEW now, NEW since, NEW known, NEW pc \in {"idle", "failed"}
  PROVE  RequestSound([Idle EXCEPT !.pc = pc], now, since, known)
<1> DEFINE p == [Idle EXCEPT !.pc = pc]
<1>1. IsRequest(p) /\ p.pc = pc
  BY DEF IsRequest, Idle
<1>2. p = [Idle EXCEPT !.pc = p.pc]
  BY <1>1
<1>3. p.pc \notin Active /\ p.pc # "over"
  BY <1>1 DEF Active
<1> HIDE DEF p
<1>4. RequestSound(p, now, since, known)
  BY <1>1, <1>2, <1>3 DEF RequestSound
<1> QED
  BY <1>4 DEF p

LEMMA BeginSound ==
  ASSUME NEW now \in Int, NEW since, NEW known, NEW page \in Pages,
         NEW p, p = [Idle EXCEPT !.pc = "lookup", !.page = page, !.rows = page, !.single = Len(page) = 1,
                                 !.began = now]
  PROVE  RequestSound(p, now, since, known)
<1>1. /\ IsRequest(p) /\ p.pc = "lookup" /\ p.page = page /\ p.rows = page /\ p.began = now
      /\ p.later = <<>> /\ p.asked = <<>> /\ p.files = <<>> /\ p.related = <<>> /\ p.found = <<>>
  BY DEF Idle, IsRequest
<1>2. List(page) /\ Distinct(page)
  BY PageKnown
<1>3. List(<<>>) /\ Range(<<>>) = {} /\ Distinct(<<>>)
  BY NoneKnown DEF Distinct
<1>4. RowsFit(p)
  BY <1>1, <1>2, <1>3 DEF RowsFit, Apart
<1>5. FilesFit(p) /\ RelatedFit(p) /\ FoundFit(p)
  BY <1>1, <1>3 DEF FilesFit, RelatedFit, FoundFit, Functional, Avoids
<1>6. Covered(p, known) /\ Exact(p, known)
  BY <1>1, <1>3 DEF Covered, Exact
<1> QED
  BY <1>1, <1>4, <1>5, <1>6 DEF RequestSound, Active

-----------------------------------------------------------------------------
(* The invariant is kept.                                                  *)

\* One request goes on; the others see the time, the source and its
\* disturbances as they are then.
LEMMA OneMoves ==
  ASSUME Inv, NEW r \in Requests, NEW p, req' = [req EXCEPT ![r] = p],
         TimeSound', CacheSound(entries', clock', disturbed', source'),
         RequestSound(p, clock', disturbed', source'),
         clock' = clock, \/ disturbed' = disturbed /\ source' = source
                         \/ disturbed' = clock
  PROVE  Inv'
<1>1. req = [o \in Requests |-> req[o]] /\ clock \in Int /\ disturbed \in Int
  BY DEF Inv, TimeSound
<1>2. \A o \in Requests : req'[o] = IF o = r THEN p ELSE req[o]
  BY <1>1
<1>3. req' = [o \in Requests |-> req'[o]]
  BY <1>1
<1>4. ASSUME NEW o \in Requests PROVE RequestSound(req[o], clock', disturbed', source')
  <2>1. RequestSound(req[o], clock, disturbed, source)
    BY DEF Inv
  <2>2. RequestSound(req[o], clock, clock, source')
    BY <1>1, <2>1, RequestAges
  <2> QED
    BY <2>1, <2>2
<1>5. \A o \in Requests : RequestSound(req'[o], clock', disturbed', source')
  BY <1>2, <1>4
<1> QED
  BY <1>3, <1>5 DEF Inv

LEMMA BeginKeeps ==
  ASSUME Inv, NEW r \in Requests, NEW page \in Pages, Begin(r, page)
  PROVE  Inv'
<1> DEFINE p == [req[r] EXCEPT !.pc = "lookup", !.page = page, !.rows = page,
                               !.single = Len(page) = 1, !.began = clock]
<1>1. /\ req[r].pc = "idle" /\ req' = [req EXCEPT ![r] = p]
      /\ UNCHANGED <<clock, entries, source, troubles, disturbed>>
  BY DEF Begin, At, outside
<1>2. RequestSound(req[r], clock, disturbed, source) /\ clock \in Int
  BY DEF Inv, TimeSound
<1>3. req[r] = Idle
  BY <1>1, <1>2 DEF RequestSound, Idle
<1>4. RequestSound(p, clock, disturbed, source)
  BY <1>2, <1>3, BeginSound
<1> HIDE DEF p
<1>5. TimeSound' /\ CacheSound(entries', clock', disturbed', source')
  BY <1>1 DEF Inv, TimeSound
<1> QED
  BY <1>1, <1>4, <1>5, OneMoves


LEMMA LookUpFilesKeeps ==
  ASSUME Inv, NEW r \in Requests, LookUpFiles(r)
  PROVE  Inv'
<1> DEFINE q == req[r]
           hits == FileHits(q)
           unnamed == Unnamed(q)
           known == Selected(q.rows, hits)
           asked == Selected(q.rows, DOMAIN q.rows \ (hits \union unnamed))
           p == [q EXCEPT !.pc = IF asked = <<>> THEN "filed" ELSE "files",
                          !.asked = asked,
                          !.files = KnownFiles(known),
                          !.later = IF q.single THEN q.later ELSE Selected(q.rows, unnamed \ hits)]
<1>1. /\ q.pc = "lookup" /\ req' = [req EXCEPT ![r] = p]
      /\ entries' = AfterGets(entries, FileKeys(q.rows), clock)
      /\ UNCHANGED <<clock, source, troubles, disturbed>>
  <2>1. req[r].pc = "lookup"
    BY DEF LookUpFiles, At
  <2>2. req' = [req EXCEPT ![r] = p]
    BY DEF LookUpFiles, FileHits, Unnamed, KnownFiles
  <2>3. entries' = AfterGets(entries, FileKeys(q.rows), clock)
    BY Zenon DEF LookUpFiles
  <2>4. UNCHANGED <<clock, source, troubles, disturbed>>
    BY DEF LookUpFiles, outside
  <2> QED
    BY <2>1, <2>2, <2>3, <2>4
<1>2. RequestSound(q, clock, disturbed, source) /\ TimeSound /\ CacheSound(entries, clock, disturbed, source)
  BY DEF Inv
<1> HIDE DEF q
<1>3. IsRequest(q) /\ List(q.rows)
  BY <1>1, <1>2 DEF RequestSound, Active, RowsFit
<1>4. /\ IsRequest(p) /\ p.page = q.page /\ p.began = q.began /\ p.rows = q.rows
      /\ p.single = q.single /\ p.related = q.related /\ p.found = q.found
      /\ p.asked = asked /\ p.pc = IF p.asked = <<>> THEN "filed" ELSE "files"
      /\ p.files = KnownFiles(known)
      /\ p.later = IF q.single THEN q.later ELSE Selected(q.rows, unnamed \ hits)
  <2> HIDE DEF asked, known, hits, unnamed
  <2> QED
    BY <1>3 DEF IsRequest
<1> HIDE DEF p
<1>5. RequestSound(p, clock, disturbed, source)
  <2>1. /\ q.pc = "lookup" /\ hits = FileHits(q) /\ unnamed = Unnamed(q)
        /\ known = Selected(q.rows, hits)
        /\ asked = Selected(q.rows, DOMAIN q.rows \ (hits \union unnamed))
    BY <1>1
  <2> HIDE DEF hits, unnamed, known, asked
  <2> QED
    BY ONLY <1>2, <1>4, <2>1, FilesLookedUp
<1>6. List(FileKeys(q.rows))
  <2> DEFINE keys == FileKeys(q.rows)
  <2>1. DOMAIN q.rows = 1..Len(q.rows) /\ Len(q.rows) \in Nat
    BY <1>3, ListBasics
  <2>2. keys = [i \in 1..Len(q.rows) |-> keys[i]]
    BY <2>1 DEF FileKeys
  <2> HIDE DEF keys
  <2>3. List(keys)
    BY ONLY <2>1, <2>2, ListMade
  <2> QED
    BY <2>3 DEF keys
<1>7. CacheSound(entries', clock, disturbed, source)
  <2>1. List(entries)
    BY <1>2 DEF CacheSound
  <2> QED
    BY <1>1, <1>2, <1>6, <2>1, GetsKeep, CacheShrinks
<1>8. TimeSound' /\ CacheSound(entries', clock', disturbed', source')
      /\ RequestSound(p, clock', disturbed', source')
  BY <1>1, <1>2, <1>5, <1>7 DEF TimeSound
<1> HIDE DEF hits, unnamed, known, asked
<1> QED
  BY <1>1, <1>8, OneMoves

LEMMA LookUpEditionsKeeps ==
  ASSUME Inv, NEW r \in Requests, LookUpEditions(r)
  PROVE  Inv'
<1> DEFINE q == req[r]
           files == FilesOf(q)
           wanted == Wanted(files)
           hits == EditionHits(files, wanted)
           known == Selected(files, hits)
           asked == Selected(files, wanted \ hits)
           p == [q EXCEPT !.pc = IF asked = <<>> THEN "completed" ELSE "editions",
                          !.asked = asked,
                          !.related = KnownEditions(known)]
           keys == EditionKeys(Selected(files, wanted))
<1>1. /\ q.pc = "filed" /\ req' = [req EXCEPT ![r] = p]
      /\ entries' = AfterGets(entries, keys, clock)
      /\ UNCHANGED <<clock, source, troubles, disturbed>>
  <2>1. req[r].pc = "filed"
    BY DEF LookUpEditions, At
  <2>2. req' = [req EXCEPT ![r] = p]
    BY Zenon DEF LookUpEditions, FilesOf, Wanted, EditionHits, KnownEditions
  <2>3. entries' = AfterGets(entries, keys, clock)
    BY Zenon DEF LookUpEditions, FilesOf, Wanted
  <2>4. UNCHANGED <<clock, source, troubles, disturbed>>
    BY DEF LookUpEditions, outside
  <2> QED
    BY <2>1, <2>2, <2>3, <2>4
<1>2. RequestSound(q, clock, disturbed, source) /\ TimeSound /\ CacheSound(entries, clock, disturbed, source)
  BY DEF Inv
<1> HIDE DEF q
<1>3. IsRequest(q)
  BY <1>2 DEF RequestSound
<1>4. /\ IsRequest(p) /\ p.page = q.page /\ p.began = q.began /\ p.rows = q.rows
      /\ p.single = q.single /\ p.later = q.later /\ p.files = q.files /\ p.found = q.found
      /\ p.asked = asked /\ p.pc = IF p.asked = <<>> THEN "completed" ELSE "editions"
      /\ p.related = KnownEditions(known)
  <2> HIDE DEF asked, known, hits, wanted, files
  <2> QED
    BY <1>3 DEF IsRequest
<1> HIDE DEF p
<1>5. RequestSound(p, clock, disturbed, source) /\ List(Selected(files, wanted))
  <2>1. /\ q.pc = "filed" /\ files = FilesOf(q) /\ wanted = Wanted(files)
        /\ hits = EditionHits(files, wanted)
        /\ known = Selected(files, hits)
        /\ asked = Selected(files, wanted \ hits)
    BY <1>1
  <2> HIDE DEF files, wanted, hits, known, asked
  <2> QED
    BY ONLY <1>2, <1>4, <2>1, EditionsLookedUp
<1>6. List(keys)
  <2> DEFINE some == Selected(files, wanted)
  <2>1. List(some)
    BY <1>5
  <2> HIDE DEF some
  <2>2. DOMAIN some = 1..Len(some) /\ Len(some) \in Nat
    BY <2>1, ListBasics
  <2>3. EditionKeys(some) = [i \in 1..Len(some) |-> EditionKeys(some)[i]]
    BY <2>2 DEF EditionKeys
  <2>4. List(EditionKeys(some))
    BY ONLY <2>2, <2>3, ListMade
  <2> QED
    BY <2>4 DEF some
<1> HIDE DEF keys, hits, wanted, known, asked, files
<1>7. CacheSound(entries', clock, disturbed, source)
  <2>1. List(entries)
    BY <1>2 DEF CacheSound
  <2> QED
    BY <1>1, <1>2, <1>6, <2>1, GetsKeep, CacheShrinks
<1>8. TimeSound' /\ CacheSound(entries', clock', disturbed', source')
      /\ RequestSound(p, clock', disturbed', source')
  BY <1>1, <1>2, <1>5, <1>7 DEF TimeSound
<1> QED
  BY <1>1, <1>8, OneMoves

LEMMA CompleteKeeps ==
  ASSUME Inv, NEW r \in Requests, Complete(r)
  PROVE  Inv'
<1> DEFINE q == req[r]
           found == Found(q)
           over == [Idle EXCEPT !.pc = "over", !.page = q.page, !.began = q.began,
                                !.found = Listing(q.page, found)]
           next == [q EXCEPT !.pc = "lookup", !.rows = <<Head(q.later)>>, !.single = TRUE,
                             !.later = Tail(q.later), !.found = found, !.files = <<>>, !.related = <<>>]
           p == IF q.later = <<>> THEN over ELSE next
<1>1. /\ q.pc = "completed" /\ req' = [req EXCEPT ![r] = p]
      /\ UNCHANGED <<clock, entries, source, troubles, disturbed>>
  BY DEF Complete, At, outside
<1>2. /\ RequestSound(q, clock, disturbed, source) /\ TimeSound
      /\ CacheSound(entries, clock, disturbed, source)
  BY DEF Inv
<1> HIDE DEF q
<1>3. IsRequest(q) /\ clock \in Int /\ disturbed \in Int
  BY <1>2 DEF RequestSound, TimeSound
<1>4. CASE q.later = <<>>
  <2>1. /\ IsRequest(over) /\ over.page = q.page /\ over.began = q.began
        /\ over.found = Listing(q.page, Found(q)) /\ over.pc = "over"
    BY DEF IsRequest, Idle
  <2> HIDE DEF over
  <2>2. RequestSound(over, clock, disturbed, source)
    BY <1>1, <1>2, <1>3, <1>4, <2>1, ListingKnown
  <2>3. p = over
    BY <1>4
  <2> HIDE DEF p
  <2>4. TimeSound' /\ CacheSound(entries', clock', disturbed', source')
        /\ RequestSound(p, clock', disturbed', source')
    BY <1>1, <1>2, <2>2, <2>3 DEF TimeSound
  <2> QED
    BY <1>1, <2>4, OneMoves
<1>5. CASE q.later # <<>>
  <2>1. /\ IsRequest(next) /\ next.page = q.page /\ next.began = q.began
        /\ next.rows = <<Head(q.later)>> /\ next.single = TRUE /\ next.later = Tail(q.later)
        /\ next.asked = q.asked /\ next.files = <<>> /\ next.related = <<>>
        /\ next.found = Found(q) /\ next.pc = "lookup"
    BY <1>3 DEF IsRequest
  <2> HIDE DEF next
  <2>2. RequestSound(next, clock, disturbed, source)
    BY <1>1, <1>2, <1>5, <2>1, OneFollows
  <2>3. p = next
    BY <1>5
  <2> HIDE DEF p
  <2>4. TimeSound' /\ CacheSound(entries', clock', disturbed', source')
        /\ RequestSound(p, clock', disturbed', source')
    BY <1>1, <1>2, <2>2, <2>3 DEF TimeSound
  <2> QED
    BY <1>1, <2>4, OneMoves
<1> QED
  BY <1>4, <1>5


\* What is written is evidence for its key.
LEMMA FilesWritten ==
  ASSUME NEW asked, List(asked), NEW known, NEW now \in Int, NEW since \in Int, NEW source0,
         since < now => known = source0, NEW cache, CacheSound(cache, now, since, source0),
         NEW values, values = [i \in DOMAIN asked |-> FileEvidence(asked[i], known)]
  PROVE  CacheSound(AfterSets(cache, FileKeys(asked), values, now), now, since, source0)
<1> DEFINE keys == FileKeys(asked)
<1>1. DOMAIN asked = 1..Len(asked) /\ Len(asked) \in Nat
  BY ListBasics
<1>2. /\ keys = [i \in 1..Len(asked) |-> keys[i]]
      /\ \A i \in 1..Len(asked) : keys[i] = <<"file", asked[i]>>
  BY <1>1 DEF FileKeys, FileKey
<1>3. \A i \in 1..Len(asked) : values[i] = FileEvidence(asked[i], known)
  BY <1>1
<1> HIDE DEF keys
<1>4. List(keys) /\ Len(keys) = Len(asked)
  BY ONLY <1>1, <1>2, ListMade
<1>5. ASSUME NEW i \in 1..Len(keys), NEW e,
             e = [key |-> keys[i], value |-> values[i], expires |-> now + Lifetime(values[i])]
      PROVE  EntryFits(e) /\ (since < now => EntryTrue(e, since, source0))
  <2>1. /\ e.key[1] = "file" /\ e.key[2] = asked[i]
        /\ e.value = FileEvidence(asked[i], known)
    BY <1>2, <1>3, <1>4, <1>5
  <2>2. EntryFits(e)
    BY <2>1, EvidenceFits DEF EntryFits
  <2> QED
    BY <2>1, <2>2 DEF EntryTrue
<1>6. \A i \in 1..Len(keys) : LET e == [key |-> keys[i], value |-> values[i],
                                        expires |-> now + Lifetime(values[i])] IN
        EntryFits(e) /\ (since < now => EntryTrue(e, since, source0))
  BY ONLY <1>5
<1>7. CacheSound(AfterSets(cache, keys, values, now), now, since, source0)
  BY ONLY <1>4, <1>6, CacheGrows, now \in Int, since \in Int, CacheSound(cache, now, since, source0)
<1> QED
  BY <1>7 DEF keys

LEMMA EditionsWritten ==
  ASSUME NEW asked, List(asked), NEW known, NEW now \in Int, NEW since \in Int, NEW source0,
         since < now => known = source0, NEW cache, CacheSound(cache, now, since, source0),
         NEW values, values = [i \in DOMAIN asked |-> EditionEvidence(asked[i], known)]
  PROVE  CacheSound(AfterSets(cache, EditionKeys(asked), values, now), now, since, source0)
<1> DEFINE keys == EditionKeys(asked)
<1>1. DOMAIN asked = 1..Len(asked) /\ Len(asked) \in Nat
  BY ListBasics
<1>2. /\ keys = [i \in 1..Len(asked) |-> keys[i]]
      /\ \A i \in 1..Len(asked) : keys[i] = <<"edition", asked[i].edition, asked[i].file>>
  BY <1>1 DEF EditionKeys, EditionKey
<1>3. \A i \in 1..Len(asked) : values[i] = EditionEvidence(asked[i], known)
  BY <1>1
<1> HIDE DEF keys
<1>4. List(keys) /\ Len(keys) = Len(asked)
  BY ONLY <1>1, <1>2, ListMade
<1>5. ASSUME NEW i \in 1..Len(keys), NEW e,
             e = [key |-> keys[i], value |-> values[i], expires |-> now + Lifetime(values[i])]
      PROVE  EntryFits(e) /\ (since < now => EntryTrue(e, since, source0))
  <2>1. /\ e.key[1] = "edition" /\ e.key[2] = asked[i].edition /\ e.key[3] = asked[i].file
        /\ e.value = EditionEvidence(asked[i], known)
    BY <1>2, <1>3, <1>4, <1>5
  <2>2. /\ \/ e.value = Nothing
           \/ e.value = [edition |-> e.key[2], for |-> e.key[3]]
        /\ e.value = EditionEvidence([edition |-> e.key[2], file |-> e.key[3]], known)
    BY <2>1, EditionFits
  <2>3. EntryFits(e)
    BY <2>1, <2>2 DEF EntryFits
  <2> QED
    BY <2>1, <2>2, <2>3 DEF EntryTrue
<1>6. \A i \in 1..Len(keys) : LET e == [key |-> keys[i], value |-> values[i],
                                        expires |-> now + Lifetime(values[i])] IN
        EntryFits(e) /\ (since < now => EntryTrue(e, since, source0))
  BY ONLY <1>5
<1>7. CacheSound(AfterSets(cache, keys, values, now), now, since, source0)
  BY ONLY <1>4, <1>6, CacheGrows, now \in Int, since \in Int, CacheSound(cache, now, since, source0)
<1> QED
  BY <1>7 DEF keys

\* The answer of the source, or a bad one, by which the source counts as
\* disturbed.
LEMMA FilesAnsweredKeeps ==
  ASSUME Inv, NEW r \in Requests, NEW known, FilesAnswered(r, known), UNCHANGED <<clock, source>>,
         (disturbed' = disturbed /\ known = source) \/ disturbed' = clock
  PROVE  Inv'
<1> DEFINE q == req[r]
           values == [i \in DOMAIN q.asked |-> FileEvidence(q.asked[i], known)]
           p == [q EXCEPT !.pc = "filed", !.asked = <<>>,
                          !.files = q.files \o Assigned(Md5sOf(q.asked), values)]
<1>1. /\ q.pc = "files" /\ req' = [req EXCEPT ![r] = p]
      /\ entries' = AfterSets(entries, FileKeys(q.asked), values, clock)
  BY DEF FilesAnswered, At
<1>2. /\ RequestSound(q, clock, disturbed, source) /\ TimeSound
      /\ CacheSound(entries, clock, disturbed, source)
      /\ clock \in Int /\ disturbed \in Int /\ disturbed' \in Int /\ TimeSound'
  BY DEF Inv, TimeSound
<1> HIDE DEF q
<1>3. IsRequest(q) /\ List(q.asked)
  BY <1>1, <1>2 DEF RequestSound, Active, FilesFit
<1>4. /\ IsRequest(p) /\ p.page = q.page /\ p.began = q.began /\ p.rows = q.rows
      /\ p.single = q.single /\ p.later = q.later /\ p.related = q.related /\ p.found = q.found
      /\ p.pc = "filed" /\ p.asked = <<>>
      /\ p.files = q.files \o Assigned(Md5sOf(q.asked),
                                       [i \in DOMAIN q.asked |-> FileEvidence(q.asked[i], known)])
  BY <1>3 DEF IsRequest
<1> HIDE DEF p
<1>5. RequestSound(p, clock, disturbed', source)
  <2>1. /\ clock \in Int /\ disturbed \in Int /\ disturbed' \in Int
        /\ (disturbed' = disturbed /\ known = source) \/ disturbed' = clock
        /\ RequestSound(q, clock, disturbed, source) /\ q.pc = "files"
    BY <1>1, <1>2
  <2> QED
    BY ONLY <1>4, <2>1, FilesAreAnswered
<1>6. CacheSound(entries, clock, disturbed', source)
  BY <1>2, CacheAges
<1> HIDE DEF values
<1>7. CacheSound(entries', clock, disturbed', source)
  <2>1. values = [i \in DOMAIN q.asked |-> FileEvidence(q.asked[i], known)]
    BY DEF values
  <2>2. disturbed' < clock => known = source
    BY <1>2
  <2> QED
    BY ONLY <1>1, <1>2, <1>3, <1>6, <2>1, <2>2, FilesWritten
<1>8. CacheSound(entries', clock', disturbed', source') /\ RequestSound(p, clock', disturbed', source')
  BY <1>5, <1>7
<1> QED
  BY <1>1, <1>2, <1>8, OneMoves

LEMMA EditionsAnsweredKeeps ==
  ASSUME Inv, NEW r \in Requests, NEW known, EditionsAnswered(r, known), UNCHANGED <<clock, source>>,
         (disturbed' = disturbed /\ known = source) \/ disturbed' = clock
  PROVE  Inv'
<1> DEFINE q == req[r]
           values == [i \in DOMAIN q.asked |-> EditionEvidence(q.asked[i], known)]
           p == [q EXCEPT !.pc = "completed", !.asked = <<>>,
                          !.related = q.related \o Assigned(IdsOf(q.asked), values)]
<1>1. /\ q.pc = "editions" /\ req' = [req EXCEPT ![r] = p]
      /\ entries' = AfterSets(entries, EditionKeys(q.asked), values, clock)
  BY DEF EditionsAnswered, At
<1>2. /\ RequestSound(q, clock, disturbed, source) /\ TimeSound
      /\ CacheSound(entries, clock, disturbed, source)
      /\ clock \in Int /\ disturbed \in Int /\ disturbed' \in Int /\ TimeSound'
  BY DEF Inv, TimeSound
<1> HIDE DEF q
<1>3. IsRequest(q) /\ List(q.asked)
  BY <1>1, <1>2 DEF RequestSound, Active, FilesFit
<1>4. /\ IsRequest(p) /\ p.page = q.page /\ p.began = q.began /\ p.rows = q.rows
      /\ p.single = q.single /\ p.later = q.later /\ p.files = q.files /\ p.found = q.found
      /\ p.pc = "completed" /\ p.asked = <<>>
      /\ p.related = q.related \o Assigned(IdsOf(q.asked),
                                   [i \in DOMAIN q.asked |-> EditionEvidence(q.asked[i], known)])
  BY <1>3 DEF IsRequest
<1> HIDE DEF p
<1>5. RequestSound(p, clock, disturbed', source)
  <2>1. /\ clock \in Int /\ disturbed \in Int /\ disturbed' \in Int
        /\ (disturbed' = disturbed /\ known = source) \/ disturbed' = clock
        /\ RequestSound(q, clock, disturbed, source) /\ q.pc = "editions"
    BY <1>1, <1>2
  <2> QED
    BY ONLY <1>4, <2>1, EditionsAreAnswered
<1>6. CacheSound(entries, clock, disturbed', source)
  BY <1>2, CacheAges
<1> HIDE DEF values
<1>7. CacheSound(entries', clock, disturbed', source)
  <2>1. values = [i \in DOMAIN q.asked |-> EditionEvidence(q.asked[i], known)]
    BY DEF values
  <2>2. disturbed' < clock => known = source
    BY <1>2
  <2> QED
    BY ONLY <1>1, <1>2, <1>3, <1>6, <2>1, <2>2, EditionsWritten
<1>8. CacheSound(entries', clock', disturbed', source') /\ RequestSound(p, clock', disturbed', source')
  BY <1>5, <1>7
<1> QED
  BY <1>1, <1>2, <1>8, OneMoves

LEMMA FetchFailsKeeps ==
  ASSUME Inv, NEW r \in Requests, FetchFails(r)
  PROVE  Inv'
<1> DEFINE p == [Idle EXCEPT !.pc = "failed"]
<1>1. /\ req' = [req EXCEPT ![r] = p]
      /\ UNCHANGED <<clock, entries, source, troubles, disturbed>>
  BY DEF FetchFails, outside
<1>2. RequestSound(p, clock', disturbed', source')
  BY IdleSound
<1> HIDE DEF p
<1>3. TimeSound' /\ CacheSound(entries', clock', disturbed', source')
  BY <1>1 DEF Inv, TimeSound
<1> QED
  BY <1>1, <1>2, <1>3, OneMoves


\* The source changes, or time passes, while the requests stay as they are.
LEMMA OutsideKeeps ==
  ASSUME Inv, SourceChanges \/ Tick
  PROVE  Inv'
<1>1. /\ clock \in Int /\ disturbed \in Int /\ req' = req /\ entries' = entries
      /\ CacheSound(entries, clock, disturbed, source) /\ TimeSound
  BY DEF Inv, TimeSound, SourceChanges, Tick
<1>2. CASE SourceChanges
  <2>1. clock' = clock /\ disturbed' = clock
    BY <1>2 DEF SourceChanges, Trouble
  <2>2. CacheSound(entries', clock', disturbed', source')
    BY <1>1, <2>1, CacheAges
  <2>3. ASSUME NEW r \in Requests PROVE RequestSound(req[r], clock', disturbed', source')
    <3>1. RequestSound(req[r], clock, disturbed, source)
      BY DEF Inv
    <3> QED
      BY <1>1, <2>1, <3>1, RequestAges
  <2> QED
    BY <1>1, <2>1, <2>2, <2>3 DEF Inv, TimeSound
<1>3. CASE Tick
  <2>1. clock' = clock + 1 /\ disturbed' = disturbed /\ source' = source
    BY <1>3 DEF Tick
  <2>2. clock' \in Int /\ clock <= clock' /\ clock' \in Nat /\ disturbed' <= clock'
    BY <1>1, <2>1 DEF TimeSound
  <2>3. CacheSound(entries', clock', disturbed', source')
    BY <1>1, <2>1, <2>2, CacheAges
  <2>4. ASSUME NEW r \in Requests PROVE RequestSound(req[r], clock', disturbed', source')
    <3>1. RequestSound(req[r], clock, disturbed, source)
      BY DEF Inv
    <3> QED
      BY <1>1, <2>1, <2>2, <3>1, RequestAges
  <2> QED
    BY <1>1, <2>1, <2>2, <2>3, <2>4 DEF Inv, TimeSound
<1> QED
  BY <1>2, <1>3

LEMMA InitSound == Init => Inv
<1> SUFFICES ASSUME Init PROVE Inv
  OBVIOUS
<1>1. /\ clock = 0 /\ entries = <<>> /\ disturbed = -1 - TTL
      /\ req = [r \in Requests |-> Idle]
  BY DEF Init, Never
<1>2. TimeSound
  BY <1>1, CacheAssumption DEF TimeSound
<1>3. CacheSound(entries, clock, disturbed, source)
  BY <1>1, NoneKnown DEF CacheSound
<1>4. ASSUME NEW r \in Requests PROVE RequestSound(req[r], clock, disturbed, source)
  <2>1. RequestSound([Idle EXCEPT !.pc = "idle"], clock, disturbed, source)
    BY IdleSound
  <2>2. req[r] = [Idle EXCEPT !.pc = "idle"]
    BY <1>1 DEF Idle
  <2> QED
    BY <2>1, <2>2
<1>5. req = [r \in Requests |-> req[r]]
  BY <1>1
<1> QED
  BY <1>2, <1>3, <1>4, <1>5 DEF Inv

LEMMA NextKeeps ==
  ASSUME Inv, [Next]_vars
  PROVE  Inv'
<1>1. CASE Tick \/ SourceChanges
  BY <1>1, OutsideKeeps
<1>2. ASSUME NEW r \in Requests, Step(r) PROVE Inv'
  <2>1. CASE \E page \in Pages : Begin(r, page)
    BY <2>1, BeginKeeps
  <2>2. CASE LookUpFiles(r)
    BY <2>2, LookUpFilesKeeps
  <2>3. CASE LookUpEditions(r)
    BY <2>3, LookUpEditionsKeeps
  <2>4. CASE Complete(r)
    BY <2>4, CompleteKeeps
  <2>5. CASE ApiAnswers(r)
    <3>1. UNCHANGED <<clock, source>> /\ disturbed' = disturbed
      BY <2>5 DEF ApiAnswers, outside
    <3> QED
      BY <2>5, <3>1, FilesAnsweredKeeps, EditionsAnsweredKeeps DEF ApiAnswers, Answered
  <2>6. CASE ApiAnswersBadly(r)
    <3>1. UNCHANGED <<clock, source>> /\ disturbed' = clock
      BY <2>6 DEF ApiAnswersBadly, Trouble
    <3>2. PICK known \in {Unreadable} \union (Sources \ {source}) : Answered(r, known)
      BY <2>6 DEF ApiAnswersBadly
    <3> QED
      BY <3>1, <3>2, FilesAnsweredKeeps, EditionsAnsweredKeeps DEF Answered
  <2>7. CASE FetchFails(r)
    BY <2>7, FetchFailsKeeps
  <2> QED
    BY <1>2, <2>1, <2>2, <2>3, <2>4, <2>5, <2>6, <2>7 DEF Step
<1>3. CASE UNCHANGED vars
  BY <1>3 DEF vars, Inv, TimeSound
<1> QED
  BY <1>1, <1>2, <1>3 DEF Next

(* Every request is sound at any time: what it and the cache know fits what *)
(* it was validated for, and is what the source says if the source has been *)
(* steady long enough (_enrich_many_locked, _cached_files, _cached_edition). *)
THEOREM RequestsStaySound == CatalogSpec => []Inv
<1>1. CatalogInit => Inv
  BY InitSound DEF CatalogInit
<1>2. Inv /\ [CatalogNext]_<<followed, vars, cacheVars>> => Inv'
  <2>1. [CatalogNext]_<<followed, vars, cacheVars>> => [Next]_vars
    BY DEF CatalogNext, EnricherStep, CacheStep
  <2> QED
    BY <2>1, NextKeeps
<1> QED
  BY <1>1, <1>2, PTL DEF CatalogSpec

LEMMA OverKnown ==
  ASSUME Inv, NEW r \in Requests, req[r].pc = "over"
  PROVE  RequestSound(req[r], clock, disturbed, source)
BY DEF Inv

(* No candidate rests on evidence that was validated for something else.   *)
THEOREM EvidenceAlwaysMatches == CatalogSpec => []EvidenceMatches
<1>1. Inv => EvidenceMatches
  <2> SUFFICES ASSUME Inv, NEW r \in Requests, req[r].pc = "over"
               PROVE  LET listing == req[r].found IN \A i \in DOMAIN listing :
                        LET row == listing[i].row
                            file == listing[i].file
                            edition == listing[i].edition IN
                          /\ file.md5 = row.md5
                          /\ row.file # Absent => file.file = row.file
                          /\ row.edition # Absent => file.edition = row.edition
                          /\ Agrees(row.shape, file.shape)
                          /\ edition # Nothing
                             /\ (\A j \in DOMAIN listing \ {i} : listing[j].file.file # file.file) =>
                               edition = [edition |-> file.edition, for |-> file.file]
    BY DEF EvidenceMatches, Listings
  <2>1. ListingFits(req[r].found)
    BY OverKnown DEF RequestSound
  <2> QED
    BY <2>1 DEF ListingFits, FileFits
<1> QED
  BY RequestsStaySound, <1>1, PTL

(* Batches and the cache do not show when the source has been steady.      *)
THEOREM AlwaysTransparent == CatalogSpec => []Transparent
<1>1. Inv => Transparent
  <2> SUFFICES ASSUME Inv, NEW r \in Requests, req[r].pc = "over"
               PROVE  LET page == req[r].page
                          genuine == Genuine(page, source)
                          listed == {req[r].found[i].row : i \in DOMAIN req[r].found} IN
                        /\ disturbed + TTL <= req[r].began =>
                             req[r].found = [k \in DOMAIN genuine |-> Truth(genuine[k])]
                        /\ disturbed + NegativeTTL <= req[r].began => Range(genuine) \subseteq listed
    BY DEF Transparent, Genuine
  <2>1. \A row : TruthOf(row, source) = Truth(row)
    BY DEF TruthOf, Truth
  <2>2. RequestSound(req[r], clock, disturbed, source)
    BY OverKnown
  <2> QED
    BY <2>1, <2>2 DEF RequestSound
<1> QED
  BY RequestsStaySound, <1>1, PTL

-----------------------------------------------------------------------------
(* The cache by itself, for any keys and any values.  HitIsCurrent rests   *)
(* on Remembered: an entry is the last write of its key.  RecentKept rests *)
(* on InOrder: the entries stand in the order in which their keys were     *)
(* used.  The entry that is pushed out is the first one, so that all the   *)
(* others were used after it, and there are MaxEntries of them.            *)

\* The operators of CacheOps are the same ones there.
LEMMA SameOperators ==
  ASSUME NEW es, NEW key, NEW now, NEW value
  PROVE  /\ Cache!Lookup(es, key, now) = Lookup(es, key, now)
         /\ Cache!AfterGet(es, key, now) = AfterGet(es, key, now)
         /\ Cache!AfterSet(es, key, value, now) = AfterSet(es, key, value, now)
         /\ Cache!Lifetime(value) = Lifetime(value)
         /\ Cache!KeysOf(es) = KeysOf(es)
         /\ Cache!RemoveFirst(es, key) = RemoveFirst(es, key)
<1>1. Cache!KeysOf(es) = KeysOf(es) /\ Cache!EntryOf(es, key) = EntryOf(es, key)
  BY DEF Cache!KeysOf, KeysOf, Cache!EntryOf, EntryOf, Cache!PlaceOf, PlaceOf
<1>2. Cache!Live(es, key, now) = Live(es, key, now)
  BY <1>1 DEF Cache!Live, Live
<1>3. \A k : Cache!Without(es, k) = Without(es, k)
  BY DEF Cache!Without, Without, Cache!RemoveAt, RemoveAt, Cache!PlaceOf, PlaceOf, Cache!KeysOf, KeysOf
<1>4. Cache!Lookup(es, key, now) = Lookup(es, key, now)
  BY <1>1, <1>2 DEF Cache!Lookup, Lookup
<1>5. Cache!AfterGet(es, key, now) = AfterGet(es, key, now)
  BY <1>1, <1>2, <1>3 DEF Cache!AfterGet, AfterGet
<1>6. Cache!Lifetime(value) = Lifetime(value)
  BY DEF Cache!Lifetime, Lifetime
<1>7. Cache!AfterSet(es, key, value, now) = AfterSet(es, key, value, now)
  BY <1>3, <1>6 DEF Cache!AfterSet, AfterSet, Cache!Trimmed, Trimmed, Cache!Placed, Placed
<1>8. Cache!RemoveFirst(es, key) = RemoveFirst(es, key)
  BY DEF Cache!RemoveFirst, RemoveFirst, Cache!RemoveAt, RemoveAt, Cache!SelectInSeq, SelectInSeq,
         Cache!Min, Min
<1> QED
  BY <1>1, <1>4, <1>5, <1>6, <1>7, <1>8

\* A get and a set, in terms of these operators.
LEMMA GetKnown ==
  ASSUME NEW key, Cache!Get(key)
  PROVE  LET found == Lookup(lru, key, time) IN
           /\ reply' = [key |-> key, hit |-> found.hit, value |-> found.value]
           /\ recency' = IF found.hit THEN Append(RemoveFirst(recency, key), key) ELSE recency
           /\ lru' = AfterGet(lru, key, time)
<1>1. /\ Cache!Lookup(lru, key, time) = Lookup(lru, key, time)
      /\ Cache!AfterGet(lru, key, time) = AfterGet(lru, key, time)
      /\ Cache!RemoveFirst(recency, key) = RemoveFirst(recency, key)
  BY SameOperators
<1> QED
  BY <1>1 DEF Cache!Get, Cache!Used

\* set writes, counts as a use and may evict (BoundedTTLCache.set).
LEMMA SetKnown ==
  ASSUME NEW key, NEW value, Cache!Set(key, value)
  PROVE  /\ written' = [written EXCEPT ![key] =
                           [value |-> value, expires |-> time + Lifetime(value)]]
         /\ recency' = Append(RemoveFirst(recency, key), key)
         /\ lru' = AfterSet(lru, key, value, time)
<1>1. /\ Cache!AfterSet(lru, key, value, time) = AfterSet(lru, key, value, time)
      /\ Cache!RemoveFirst(recency, key) = RemoveFirst(recency, key)
      /\ Cache!Lifetime(value) = Lifetime(value)
  BY SameOperators
<1> QED
  BY <1>1 DEF Cache!Set, Cache!Used

Results == Values \union {Nothing}
CacheEntries == [key : Keys, value : Results, expires : Nat]
Writes == [Keys -> [value : Results, expires : Nat]]

CacheTypeOK ==
  /\ lru \in Seq(CacheEntries)
  /\ time \in Nat
  /\ reply.hit \in BOOLEAN
  /\ reply.hit => reply.key \in Keys
  /\ written \in Writes
  /\ recency \in Seq(Keys)

\* _entries is a dict, and a key counts only where it was used last.
Differ(es, rs) ==
  /\ \A i, j \in 1..Len(es) : es[i].key = es[j].key => i = j
  /\ \A p, q \in 1..Len(rs) : rs[p] = rs[q] => p = q

\* An entry is what was last written for its key, which was then used.
Remembered(es, rs, wr) ==
  \A i \in 1..Len(es) :
    /\ es[i].value = wr[es[i].key].value
    /\ es[i].expires = wr[es[i].key].expires
    /\ \E p \in 1..Len(rs) : rs[p] = es[i].key

\* The entries stand in the order in which their keys were used.
InOrder(es, rs) ==
  \A i, j \in 1..Len(es) : \A p, q \in 1..Len(rs) :
    rs[p] = es[i].key /\ rs[q] = es[j].key /\ i < j => p < q

Sound(es, rs, wr) == Differ(es, rs) /\ Remembered(es, rs, wr) /\ InOrder(es, rs)

\* The second half of RecentKept.
Kept(es, rs, wr, now) ==
  \A i \in 1..Len(rs) :
    \/ i <= Len(rs) - MaxEntries
    \/ wr[rs[i]].expires <= now
    \/ \E j \in 1..Len(es) : es[j].key = rs[i]

\* What holds of entries es, uses rs and writes wr at the time now.
Holds(es, rs, wr, now) ==
  /\ es \in Seq(CacheEntries) /\ rs \in Seq(Keys) /\ Len(es) <= MaxEntries
  /\ Sound(es, rs, wr)
  /\ Kept(es, rs, wr, now)

CacheInv ==
  /\ CacheTypeOK
  /\ Holds(lru, recency, written, time)
  /\ Cache!HitIsCurrent

-----------------------------------------------------------------------------
(* Sequences.                                                              *)

\* w is s without its element n, or all of s if n is beyond its end.
Past(i, n) == IF i < n THEN i ELSE i + 1
Skips(s, w, n) ==
  /\ n \in 1..(Len(s) + 1)
  /\ Len(w) = IF n <= Len(s) THEN Len(s) - 1 ELSE Len(s)
  /\ \A i \in 1..Len(w) : w[i] = s[Past(i, n)]

\* RemoveAt skips one element.
LEMMA RemoveAtSkips ==
  ASSUME NEW S, NEW s \in Seq(S), NEW n \in 1..Len(s)
  PROVE  RemoveAt(s, n) \in Seq(S) /\ Skips(s, RemoveAt(s, n), n)
<1> DEFINE a == SubSeq(s, 1, n - 1)
           b == SubSeq(s, n + 1, Len(s))
<1>1. Len(s) \in Nat /\ n \in Int /\ 1 <= n /\ n <= Len(s)
  OBVIOUS
<1>2. a \in Seq(S) /\ Len(a) = n - 1 /\ \A i \in 1..(n - 1) : a[i] = s[i]
  BY <1>1
<1>3. b \in Seq(S) /\ Len(b) = Len(s) - n /\ \A i \in 1..(Len(s) - n) : b[i] = s[n + i]
  BY <1>1
<1> HIDE DEF a, b
<1>4. /\ a \o b \in Seq(S) /\ Len(a \o b) = Len(s) - 1
      /\ \A i \in 1..(Len(s) - 1) : (a \o b)[i] = IF i <= n - 1 THEN a[i] ELSE b[i - (n - 1)]
  <2>1. /\ a \o b \in Seq(S) /\ Len(a \o b) = Len(a) + Len(b)
        /\ \A i \in 1..(Len(a) + Len(b)) : (a \o b)[i] = IF i <= Len(a) THEN a[i] ELSE b[i - Len(a)]
    BY <1>2, <1>3, ConcatProperties
  <2>2. Len(a) = n - 1 /\ Len(a) + Len(b) = Len(s) - 1
    BY <1>1, <1>2, <1>3
  <2> QED
    BY <2>1, <2>2
<1>5. \A i \in 1..(Len(s) - 1) : (a \o b)[i] = s[Past(i, n)]
  <2> SUFFICES ASSUME NEW i \in 1..(Len(s) - 1) PROVE (a \o b)[i] = s[Past(i, n)]
    OBVIOUS
  <2>1. CASE i < n
    BY <1>1, <1>2, <1>4, <2>1 DEF Past
  <2>2. CASE i >= n
    <3>1. i - (n - 1) \in 1..(Len(s) - n) /\ n + (i - (n - 1)) = i + 1
      BY <1>1, <2>2
    <3>2. b[i - (n - 1)] = s[i + 1]
      BY <1>3, <3>1
    <3> QED
      BY <1>1, <1>4, <2>2, <3>2 DEF Past
  <2>3. i < n \/ i >= n
    BY <1>1
  <2> QED
    BY <2>1, <2>2, <2>3
<1>6. RemoveAt(s, n) = a \o b
  BY DEF RemoveAt, a, b
<1> DEFINE w == RemoveAt(s, n)
<1>7. w \in Seq(S) /\ Len(w) = Len(s) - 1
  BY <1>4, <1>6
<1>8. \A i \in 1..Len(w) : w[i] = s[Past(i, n)]
  BY <1>5, <1>6, <1>7
<1>9. n \in 1..(Len(s) + 1) /\ n <= Len(s)
  BY <1>1
<1> HIDE DEF w
<1> QED
  BY <1>7, <1>8, <1>9 DEF Skips, w

\* Nothing is skipped beyond the end.
LEMMA NothingSkipped ==
  ASSUME NEW S, NEW s \in Seq(S)
  PROVE  Skips(s, s, Len(s) + 1)
<1>1. Len(s) \in Nat /\ Len(s) + 1 \in 1..(Len(s) + 1) /\ ~(Len(s) + 1 <= Len(s))
  OBVIOUS
<1>2. \A i \in 1..Len(s) : Past(i, Len(s) + 1) = i
  BY <1>1 DEF Past
<1> QED
  BY <1>1, <1>2 DEF Skips

\* Every element but the skipped one is still there.
LEMMA SkippedStay ==
  ASSUME NEW S, NEW s \in Seq(S), NEW w \in Seq(S), NEW n \in Int, Skips(s, w, n)
  PROVE  /\ \A i \in 1..Len(w) : Past(i, n) \in 1..Len(s) /\ Past(i, n) # n
         /\ \A i, j \in 1..Len(w) : i < j <=> Past(i, n) < Past(j, n)
         /\ \A j \in 1..Len(s) : j # n => \E i \in 1..Len(w) : j = Past(i, n)
<1>1. Len(s) \in Nat /\ Len(w) \in Nat
  OBVIOUS
<1>2. \A i \in 1..Len(w) : Past(i, n) \in 1..Len(s) /\ Past(i, n) # n
  BY <1>1 DEF Skips, Past
<1>3. \A i, j \in 1..Len(w) : i < j <=> Past(i, n) < Past(j, n)
  BY <1>1 DEF Past
<1>4. ASSUME NEW j \in 1..Len(s), j # n
      PROVE  \E i \in 1..Len(w) : j = Past(i, n)
  <2>1. CASE j < n
    <3>1. j \in 1..Len(w) /\ Past(j, n) = j
      BY <1>1, <2>1 DEF Skips, Past
    <3> QED
      BY <3>1
  <2>2. CASE j > n
    <3>1. j - 1 \in 1..Len(w) /\ Past(j - 1, n) = j
      BY <1>1, <2>2 DEF Skips, Past
    <3> QED
      BY <3>1
  <2> QED
    BY <1>4, <2>1, <2>2
<1> QED
  BY <1>2, <1>3, <1>4

\* A strictly increasing sequence of integers climbs by at least one a step.
LEMMA IncreasingClimbs ==
  ASSUME NEW n \in Nat, NEW f \in [1..n -> Int],
         \A i, j \in 1..n : i < j => f[i] < f[j]
  PROVE  \A j \in 1..n : f[j] >= f[1] + j - 1
<1> DEFINE Low == {j \in 1..n : f[j] < f[1] + j - 1}
<1> SUFFICES ASSUME Low # {} PROVE FALSE
  <2> SUFFICES ASSUME NEW j \in 1..n PROVE f[j] >= f[1] + j - 1
    OBVIOUS
  <2>1. f[j] \in Int /\ f[1] \in Int /\ j \notin Low
    OBVIOUS
  <2> QED
    BY <2>1
<1>1. PICK m \in Low : \A j \in Low : ~(<<j, m>> \in OpToRel(<, Nat))
  <2>1. Low \subseteq Nat
    OBVIOUS
  <2>2. IsWellFoundedOn(OpToRel(<, Nat), Nat)
    BY NatLessThanWellFounded
  <2> QED
    BY <2>1, <2>2, WFMin
<1>2. m \in 1..n /\ f[m] < f[1] + m - 1 /\ f[m] \in Int /\ f[1] \in Int
  OBVIOUS
<1>3. m > 1
  BY <1>2
<1>4. m - 1 \notin Low
  <2>1. m \in Nat /\ m - 1 \in Nat /\ m - 1 < m
    BY <1>2, <1>3
  <2>2. <<m - 1, m>> \in OpToRel(<, Nat)
    BY <2>1 DEF OpToRel
  <2> QED
    BY <1>1, <2>2
<1>5. m - 1 \in 1..n /\ f[m - 1] < f[m] /\ f[m - 1] \in Int
  BY <1>2, <1>3
<1> QED
  BY <1>2, <1>3, <1>4, <1>5

-----------------------------------------------------------------------------
(* Entries and uses.                                                       *)

\* An entry that leaves.
LEMMA EntryLeaves ==
  ASSUME NEW es \in Seq(CacheEntries), NEW rs \in Seq(Keys), NEW wr \in Writes, Sound(es, rs, wr),
         NEW w \in Seq(CacheEntries), NEW n \in Int, Skips(es, w, n)
  PROVE  Sound(w, rs, wr)
<1>1. /\ \A i \in 1..Len(w) : Past(i, n) \in 1..Len(es) /\ w[i] = es[Past(i, n)]
      /\ \A i, j \in 1..Len(w) : i < j <=> Past(i, n) < Past(j, n)
  <2>1. /\ \A i \in 1..Len(w) : Past(i, n) \in 1..Len(es)
        /\ \A i, j \in 1..Len(w) : i < j <=> Past(i, n) < Past(j, n)
    BY SkippedStay
  <2> QED
    BY <2>1 DEF Skips
<1>2. ASSUME NEW i \in 1..Len(w), NEW j \in 1..Len(w), Past(i, n) = Past(j, n)
      PROVE  i = j
  BY <1>2 DEF Past
<1>3. Differ(w, rs)
  <2>1. ASSUME NEW i \in 1..Len(w), NEW j \in 1..Len(w), w[i].key = w[j].key
        PROVE  i = j
    <3>1. Past(i, n) \in 1..Len(es) /\ Past(j, n) \in 1..Len(es)
      BY <1>1
    <3>2. es[Past(i, n)].key = es[Past(j, n)].key
      BY <1>1, <2>1
    <3>3. Past(i, n) = Past(j, n)
      BY <3>1, <3>2 DEF Sound, Differ
    <3> QED
      BY <1>2, <3>3
  <2> QED
    BY <2>1 DEF Sound, Differ
<1>4. Remembered(w, rs, wr)
  BY <1>1 DEF Sound, Remembered
<1>5. InOrder(w, rs)
  BY <1>1 DEF Sound, InOrder
<1> QED
  BY <1>3, <1>4, <1>5 DEF Sound

\* A use that is forgotten, of a key without an entry.
LEMMA UseLeaves ==
  ASSUME NEW es \in Seq(CacheEntries), NEW rs \in Seq(Keys), NEW wr \in Writes, Sound(es, rs, wr),
         NEW v \in Seq(Keys), NEW m \in Int, Skips(rs, v, m),
         m \in 1..Len(rs) => \A i \in 1..Len(es) : es[i].key # rs[m]
  PROVE  Sound(es, v, wr)
<1>1. /\ \A p \in 1..Len(v) : Past(p, m) \in 1..Len(rs) /\ v[p] = rs[Past(p, m)]
      /\ \A p, q \in 1..Len(v) : p < q <=> Past(p, m) < Past(q, m)
      /\ \A q \in 1..Len(rs) : q # m => \E p \in 1..Len(v) : q = Past(p, m)
  <2>1. /\ \A p \in 1..Len(v) : Past(p, m) \in 1..Len(rs)
        /\ \A p, q \in 1..Len(v) : p < q <=> Past(p, m) < Past(q, m)
    BY SkippedStay
  <2>2. \A q \in 1..Len(rs) : q # m => \E p \in 1..Len(v) : q = Past(p, m)
    BY SkippedStay
  <2> QED
    BY <2>1, <2>2 DEF Skips
<1>2. ASSUME NEW p \in 1..Len(v), NEW q \in 1..Len(v), Past(p, m) = Past(q, m)
      PROVE  p = q
  BY <1>2 DEF Past
<1>3. Differ(es, v)
  <2>1. ASSUME NEW p \in 1..Len(v), NEW q \in 1..Len(v), v[p] = v[q]
        PROVE  p = q
    <3>1. /\ Past(p, m) \in 1..Len(rs) /\ Past(q, m) \in 1..Len(rs)
          /\ rs[Past(p, m)] = rs[Past(q, m)]
      BY <1>1, <2>1
    <3>2. Past(p, m) = Past(q, m)
      BY <3>1 DEF Sound, Differ
    <3> QED
      BY <1>2, <3>2
  <2> QED
    BY <2>1 DEF Sound, Differ
<1>4. Remembered(es, v, wr)
  <2> SUFFICES ASSUME NEW i \in 1..Len(es) PROVE \E p \in 1..Len(v) : v[p] = es[i].key
    BY DEF Sound, Remembered
  <2>1. PICK q \in 1..Len(rs) : rs[q] = es[i].key
    BY DEF Sound, Remembered
  <2>2. q # m
    BY <2>1
  <2> QED
    BY <1>1, <2>1, <2>2
<1>5. InOrder(es, v)
  <2> SUFFICES ASSUME NEW i \in 1..Len(es), NEW j \in 1..Len(es),
                      NEW p \in 1..Len(v), NEW q \in 1..Len(v),
                      v[p] = es[i].key, v[q] = es[j].key, i < j
               PROVE  p < q
    BY DEF InOrder
  <2>1. InOrder(es, rs)
    BY DEF Sound
  <2>2. /\ Past(p, m) \in 1..Len(rs) /\ Past(q, m) \in 1..Len(rs)
        /\ rs[Past(p, m)] = es[i].key /\ rs[Past(q, m)] = es[j].key
    BY <1>1
  <2>3. Past(p, m) < Past(q, m)
    BY <2>1, <2>2 DEF InOrder
  <2> QED
    BY <1>1, <2>3
<1> QED
  BY <1>3, <1>4, <1>5 DEF Sound

\* An entry that is used or written last.
LEMMA EntryArrives ==
  ASSUME NEW es \in Seq(CacheEntries), NEW rs \in Seq(Keys), NEW wr \in Writes, Sound(es, rs, wr),
         NEW e \in CacheEntries, NEW later \in Writes,
         \A i \in 1..Len(es) : es[i].key # e.key,
         \A p \in 1..Len(rs) : rs[p] # e.key,
         \A k \in Keys \ {e.key} : later[k] = wr[k],
         later[e.key].value = e.value, later[e.key].expires = e.expires
  PROVE  Sound(Append(es, e), Append(rs, e.key), later)
<1> DEFINE fs == Append(es, e)
           ts == Append(rs, e.key)
<1>1. /\ fs \in Seq(CacheEntries) /\ Len(fs) = Len(es) + 1 /\ Len(es) \in Nat
      /\ fs[Len(es) + 1] = e /\ \A i \in 1..Len(es) : fs[i] = es[i] /\ es[i].key \in Keys
  <2>1. /\ fs \in Seq(CacheEntries) /\ Len(fs) = Len(es) + 1 /\ Len(es) \in Nat
        /\ fs[Len(es) + 1] = e /\ \A i \in 1..Len(es) : fs[i] = es[i]
    BY AppendProperties
  <2>2. \A i \in 1..Len(es) : es[i] \in CacheEntries
    BY ElementOfSeq
  <2>3. \A i \in 1..Len(es) : es[i].key \in Keys
    BY <2>2 DEF CacheEntries
  <2> QED
    BY <2>1, <2>3
<1>2. /\ e.key \in Keys /\ ts \in Seq(Keys) /\ Len(ts) = Len(rs) + 1 /\ Len(rs) \in Nat
      /\ ts[Len(rs) + 1] = e.key /\ \A p \in 1..Len(rs) : ts[p] = rs[p]
  BY DEF CacheEntries
<1> HIDE DEF fs, ts
<1>3. /\ \A i \in 1..Len(fs) : i = Len(es) + 1 \/ i \in 1..Len(es)
      /\ \A p \in 1..Len(ts) : p = Len(rs) + 1 \/ p \in 1..Len(rs)
  BY <1>1, <1>2
<1>4. Differ(fs, ts)
  <2>1. \A i, j \in 1..Len(fs) : fs[i].key = fs[j].key => i = j
    BY <1>1, <1>3 DEF Sound, Differ
  <2>2. \A p, q \in 1..Len(ts) : ts[p] = ts[q] => p = q
    BY <1>2, <1>3 DEF Sound, Differ
  <2> QED
    BY <2>1, <2>2 DEF Differ
<1>5. Remembered(fs, ts, later)
  <2> SUFFICES ASSUME NEW i \in 1..Len(fs)
               PROVE  /\ fs[i].value = later[fs[i].key].value
                      /\ fs[i].expires = later[fs[i].key].expires
                      /\ \E p \in 1..Len(ts) : ts[p] = fs[i].key
    BY DEF Remembered
  <2>1. CASE i = Len(es) + 1
    BY <1>1, <1>2, <2>1
  <2>2. CASE i \in 1..Len(es)
    <3>1. PICK p \in 1..Len(rs) : rs[p] = es[i].key
      BY <2>2 DEF Sound, Remembered
    <3>2. p \in 1..Len(ts) /\ ts[p] = fs[i].key
      BY <1>1, <1>2, <2>2, <3>1
    <3>3. later[es[i].key] = wr[es[i].key]
      BY <1>1, <2>2
    <3> QED
      BY <1>1, <2>2, <3>2, <3>3 DEF Sound, Remembered
  <2> QED
    BY <1>3, <2>1, <2>2
<1>6. InOrder(fs, ts)
  <2> SUFFICES ASSUME NEW i \in 1..Len(fs), NEW j \in 1..Len(fs),
                      NEW p \in 1..Len(ts), NEW q \in 1..Len(ts),
                      ts[p] = fs[i].key, ts[q] = fs[j].key, i < j
               PROVE  p < q
    BY DEF InOrder
  <2>1. i \in 1..Len(es) /\ p \in 1..Len(rs)
    BY <1>1, <1>2, <1>3
  <2>2. CASE j = Len(es) + 1
    <3>1. q = Len(rs) + 1
      BY <1>1, <1>2, <1>3, <2>2
    <3> QED
      BY <1>2, <2>1, <3>1
  <2>3. CASE j \in 1..Len(es)
    <3>1. q \in 1..Len(rs)
      BY <1>1, <1>2, <1>3, <2>3
    <3>2. rs[p] = es[i].key /\ rs[q] = es[j].key
      BY <1>1, <1>2, <2>1, <2>3, <3>1
    <3> QED
      BY <2>1, <2>3, <3>1, <3>2 DEF Sound, InOrder
  <2> QED
    BY <1>3, <2>2, <2>3
<1> QED
  BY <1>4, <1>5, <1>6 DEF Sound, fs, ts

\* The first of n entries is followed by n - 1 later uses.
LEMMA FirstIsOldest ==
  ASSUME NEW es \in Seq(CacheEntries), NEW rs \in Seq(Keys), NEW wr \in Writes, Sound(es, rs, wr),
         NEW p \in 1..Len(rs), Len(es) > 0, rs[p] = es[1].key
  PROVE  p <= Len(rs) - (Len(es) - 1)
<1> DEFINE place == [i \in 1..Len(es) |-> CHOOSE q \in 1..Len(rs) : rs[q] = es[i].key]
<1>1. \A i \in 1..Len(es) : place[i] \in 1..Len(rs) /\ rs[place[i]] = es[i].key
  BY DEF Sound, Remembered
<1>2. Len(es) \in Nat /\ Len(rs) \in Nat /\ place \in [1..Len(es) -> Int]
  BY <1>1
<1> HIDE DEF place
<1>3. \A i, j \in 1..Len(es) : i < j => place[i] < place[j]
  BY <1>1 DEF Sound, InOrder
<1>4. \A j \in 1..Len(es) : place[j] >= place[1] + j - 1
  BY <1>2, <1>3, IncreasingClimbs
<1>5. place[1] = p
  BY <1>1, <1>2 DEF Sound, Differ
<1> QED
  BY <1>1, <1>2, <1>4, <1>5

\* Without takes out the one entry of the key, if there is one.
LEMMA WithoutSkips ==
  ASSUME NEW es \in Seq(CacheEntries), NEW rs, Differ(es, rs), NEW key
  PROVE  /\ Without(es, key) \in Seq(CacheEntries)
         /\ \A i \in 1..Len(Without(es, key)) : Without(es, key)[i].key # key
         /\ IF key \in KeysOf(es)
              THEN /\ PlaceOf(es, key) \in 1..Len(es) /\ es[PlaceOf(es, key)].key = key
                   /\ Skips(es, Without(es, key), PlaceOf(es, key))
              ELSE Without(es, key) = es /\ Skips(es, es, Len(es) + 1)
<1>1. Len(es) \in Nat /\ DOMAIN es = 1..Len(es)
  OBVIOUS
<1>2. CASE key \in KeysOf(es)
  <2> DEFINE n == PlaceOf(es, key)
             w == Without(es, key)
  <2>1. n \in 1..Len(es) /\ es[n].key = key
    BY <1>1, <1>2 DEF KeysOf, PlaceOf
  <2>2. w = RemoveAt(es, n)
    BY <1>2 DEF Without
  <2> HIDE DEF n, w
  <2>3. w \in Seq(CacheEntries) /\ Skips(es, w, n)
    BY <2>1, <2>2, RemoveAtSkips
  <2>4. \A i \in 1..Len(w) : Past(i, n) \in 1..Len(es) /\ Past(i, n) # n
    BY <2>1, <2>3, SkippedStay
  <2>5. \A i \in 1..Len(w) : w[i].key # key
    BY <2>1, <2>3, <2>4 DEF Skips, Differ
  <2> QED
    BY <1>2, <2>1, <2>3, <2>5 DEF n, w
<1>3. CASE key \notin KeysOf(es)
  <2>1. Without(es, key) = es
    BY <1>3 DEF Without
  <2>2. Skips(es, es, Len(es) + 1)
    BY NothingSkipped
  <2>3. \A i \in 1..Len(es) : es[i].key # key
    BY <1>1, <1>3 DEF KeysOf
  <2> QED
    BY <1>3, <2>1, <2>2, <2>3
<1> QED
  BY <1>2, <1>3

\* RemoveFirst forgets the one use of the key, if there is one.
LEMMA RemoveFirstSkips ==
  ASSUME NEW rs \in Seq(Keys), NEW es, Differ(es, rs), NEW key
  PROVE  /\ RemoveFirst(rs, key) \in Seq(Keys)
         /\ \A i \in 1..Len(RemoveFirst(rs, key)) : RemoveFirst(rs, key)[i] # key
         /\ \E m \in 1..(Len(rs) + 1) :
              /\ m \in 1..Len(rs) => rs[m] = key
              /\ Skips(rs, RemoveFirst(rs, key), m)
<1>1. Len(rs) \in Nat
  OBVIOUS
<1>2. CASE \E i \in 1..Len(rs) : rs[i] = key
  <2>1. PICK m \in 1..Len(rs) : rs[m] = key
    BY <1>2
  <2>2. {i \in 1..Len(rs) : rs[i] = key} = {m}
    BY <2>1 DEF Differ
  <2>3. Min({m}) = m
    BY <2>1 DEF Min
  <2>4. SelectInSeq(rs, LAMBDA k : k = key) = m
    BY <2>2, <2>3 DEF SelectInSeq
  <2>5. RemoveFirst(rs, key) = RemoveAt(rs, m)
    BY <1>2, <2>4 DEF RemoveFirst
  <2> DEFINE v == RemoveFirst(rs, key)
  <2> HIDE DEF v
  <2>6. v \in Seq(Keys) /\ Skips(rs, v, m)
    BY <2>5, RemoveAtSkips DEF v
  <2>7. \A i \in 1..Len(v) : Past(i, m) \in 1..Len(rs) /\ Past(i, m) # m
    BY <2>6, SkippedStay
  <2>8. \A i \in 1..Len(v) : v[i] # key
    BY <2>1, <2>6, <2>7 DEF Skips, Differ
  <2>9. m \in 1..(Len(rs) + 1)
    BY <1>1
  <2> QED
    BY <2>1, <2>6, <2>8, <2>9 DEF v
<1>3. CASE \A i \in 1..Len(rs) : rs[i] # key
  <2>1. RemoveFirst(rs, key) = rs
    BY <1>3 DEF RemoveFirst
  <2>2. Skips(rs, rs, Len(rs) + 1)
    BY NothingSkipped
  <2>3. Len(rs) + 1 \in 1..(Len(rs) + 1) /\ Len(rs) + 1 \notin 1..Len(rs)
    BY <1>1
  <2> QED
    BY <1>3, <2>1, <2>2, <2>3
<1> QED
  BY <1>2, <1>3

\* A write of one key, or none.
Rewrites(wr, later, e) ==
  /\ \A k \in Keys \ {e.key} : later[k] = wr[k]
  /\ later[e.key].value = e.value
  /\ later[e.key].expires = e.expires

\* What set does, and get with a hit: the entry and its use become the last ones, and
\* the first entry leaves if there is one too many.
LEMMA UsedLast ==
  ASSUME NEW es \in Seq(CacheEntries), NEW rs \in Seq(Keys), NEW wr \in Writes, NEW now \in Nat,
         Holds(es, rs, wr, now),
         NEW e \in CacheEntries, NEW later \in Writes, Rewrites(wr, later, e),
         NEW fs, fs = Trimmed(Placed(es, e)),
         NEW ts, ts = Append(RemoveFirst(rs, e.key), e.key)
  PROVE  Holds(fs, ts, later, now)
<1> USE DEF Holds
<1> DEFINE w == Without(es, e.key)
           v == RemoveFirst(rs, e.key)
           gs == Append(w, e)
<1>1. MaxEntries \in Nat /\ MaxEntries > 0 /\ Len(es) \in Nat /\ Len(rs) \in Nat /\ e.key \in Keys
  BY CacheAssumption DEF CacheEntries
<1>2. /\ w \in Seq(CacheEntries) /\ \A i \in 1..Len(w) : w[i].key # e.key
      /\ \E n \in 1..(Len(es) + 1) :
           /\ Skips(es, w, n)
           /\ n \in 1..Len(es) => es[n].key = e.key
  <2>1. /\ w \in Seq(CacheEntries) /\ \A i \in 1..Len(w) : w[i].key # e.key
        /\ IF e.key \in KeysOf(es)
             THEN /\ PlaceOf(es, e.key) \in 1..Len(es) /\ es[PlaceOf(es, e.key)].key = e.key
                  /\ Skips(es, w, PlaceOf(es, e.key))
             ELSE w = es /\ Skips(es, es, Len(es) + 1)
    BY WithoutSkips DEF Sound
  <2>2. CASE e.key \in KeysOf(es)
    BY <1>1, <2>1, <2>2
  <2>3. CASE e.key \notin KeysOf(es)
    <3>1. Len(es) + 1 \in 1..(Len(es) + 1) /\ Len(es) + 1 \notin 1..Len(es)
      BY <1>1
    <3> QED
      BY <2>1, <2>3, <3>1
  <2> QED
    BY <2>2, <2>3
<1>3. /\ v \in Seq(Keys) /\ \A p \in 1..Len(v) : v[p] # e.key
      /\ \E m \in 1..(Len(rs) + 1) :
           /\ m \in 1..Len(rs) => rs[m] = e.key
           /\ Skips(rs, v, m)
  BY RemoveFirstSkips DEF Sound
<1>4. ts = Append(v, e.key) /\ fs = Trimmed(gs)
  BY DEF Placed
<1> HIDE DEF w, v
<1>5. PICK n \in 1..(Len(es) + 1) : Skips(es, w, n) /\ (n \in 1..Len(es) => es[n].key = e.key)
  BY <1>2
<1>6. PICK m \in 1..(Len(rs) + 1) : Skips(rs, v, m) /\ (m \in 1..Len(rs) => rs[m] = e.key)
  BY <1>3
<1>7. n \in Int /\ m \in Int
  BY <1>1
<1>8. Sound(w, rs, wr)
  BY <1>2, <1>5, <1>7, EntryLeaves
<1>9. Sound(w, v, wr)
  BY <1>2, <1>3, <1>6, <1>7, <1>8, UseLeaves
<1>10. Sound(gs, ts, later)
  <2>1. /\ \A k \in Keys \ {e.key} : later[k] = wr[k]
        /\ later[e.key].value = e.value /\ later[e.key].expires = e.expires
    BY DEF Rewrites
  <2> QED
    BY <1>2, <1>3, <1>4, <1>9, <2>1, EntryArrives
<1>11. /\ gs \in Seq(CacheEntries) /\ Len(gs) = Len(w) + 1 /\ gs[Len(w) + 1] = e /\ Len(w) \in Nat
       /\ \A i \in 1..Len(w) : gs[i] = w[i]
  BY <1>2, AppendProperties
<1>12. /\ ts \in Seq(Keys) /\ Len(ts) = Len(v) + 1 /\ ts[Len(v) + 1] = e.key /\ Len(v) \in Nat
       /\ \A p \in 1..Len(v) : ts[p] = v[p]
  BY <1>1, <1>3, <1>4, AppendProperties
<1>13. Len(gs) <= MaxEntries + 1 /\ Len(rs) <= Len(ts)
  BY <1>1, <1>5, <1>6, <1>11, <1>12 DEF Skips
<1> HIDE DEF gs
<1>14. \/ fs = gs /\ Len(gs) <= MaxEntries
       \/ /\ Len(gs) = MaxEntries + 1 /\ fs \in Seq(CacheEntries) /\ Skips(gs, fs, 1)
  <2>1. CASE Len(gs) <= MaxEntries
    <3>1. ~(Len(gs) > MaxEntries)
      BY <1>1, <1>11, <2>1
    <3> QED
      BY <1>4, <2>1, <3>1 DEF Trimmed
  <2>2. CASE Len(gs) > MaxEntries
    <3>1. Len(gs) = MaxEntries + 1
      BY <1>1, <1>11, <1>13, <2>2
    <3>2. fs = SubSeq(gs, 2, Len(gs))
      <4>1. Len(gs) - MaxEntries + 1 = 2
        BY <1>1, <3>1
      <4> QED
        BY <1>4, <2>2, <4>1 DEF Trimmed
    <3>3. /\ fs \in Seq(CacheEntries) /\ Len(fs) = Len(gs) - 1
          /\ \A i \in 1..Len(fs) : fs[i] = gs[i + 1]
      BY <1>1, <1>11, <3>1, <3>2
    <3>4. Skips(gs, fs, 1)
      BY <1>1, <3>1, <3>3 DEF Skips, Past
    <3> QED
      BY <3>1, <3>3, <3>4
  <2> QED
    BY <1>1, <1>11, <2>1, <2>2
<1>15. fs \in Seq(CacheEntries) /\ Len(fs) <= MaxEntries /\ Sound(fs, ts, later)
  <2>1. CASE fs = gs /\ Len(gs) <= MaxEntries
    BY <1>10, <1>11, <2>1
  <2>2. CASE Len(gs) = MaxEntries + 1 /\ fs \in Seq(CacheEntries) /\ Skips(gs, fs, 1)
    <3>1. Sound(fs, ts, later)
      <4>1. 1 \in Int
        OBVIOUS
      <4> QED
        BY <1>10, <1>11, <1>12, <2>2, <4>1, EntryLeaves
    <3>2. Len(fs) = MaxEntries
      BY <1>1, <2>2 DEF Skips
    <3> QED
      BY <1>1, <2>2, <3>1, <3>2
  <2> QED
    BY <1>14, <2>1, <2>2
\* Whoever was among the entries still is, or was used long ago.
<1>16. ASSUME NEW j \in 1..Len(gs), NEW p \in 1..Len(ts), ts[p] = gs[j].key
       PROVE  p <= Len(ts) - MaxEntries \/ \E i \in 1..Len(fs) : fs[i].key = ts[p]
  <2>1. CASE fs = gs
    BY <1>16, <2>1
  <2>2. CASE Len(gs) = MaxEntries + 1 /\ Skips(gs, fs, 1) /\ fs \in Seq(CacheEntries)
    <3>1. CASE j = 1
      <4>1. Len(gs) > 0
        BY <1>1, <2>2
      <4>2. p <= Len(ts) - (Len(gs) - 1)
        BY <1>10, <1>11, <1>12, <1>16, <3>1, <4>1, FirstIsOldest
      <4> QED
        BY <1>1, <1>12, <2>2, <4>2
    <3>2. CASE j # 1
      <4>1. j - 1 \in 1..Len(fs) /\ fs[j - 1] = gs[j]
        <5>1. Len(fs) = Len(gs) - 1
          BY <1>1, <2>2 DEF Skips
        <5>2. j - 1 \in 1..Len(fs) /\ Past(j - 1, 1) = j
          BY <1>1, <2>2, <3>2, <5>1 DEF Past
        <5> QED
          BY <2>2, <5>2 DEF Skips
      <4> QED
        BY <1>16, <4>1
    <3> QED
      BY <3>1, <3>2
  <2> QED
    BY <1>14, <2>1, <2>2
<1>17. Kept(fs, ts, later, now)
  <2> SUFFICES ASSUME NEW p \in 1..Len(ts)
               PROVE  \/ p <= Len(ts) - MaxEntries
                      \/ later[ts[p]].expires <= now
                      \/ \E i \in 1..Len(fs) : fs[i].key = ts[p]
    BY DEF Kept
  <2>1. CASE p = Len(v) + 1
    <3>1. Len(gs) \in 1..Len(gs) /\ gs[Len(gs)] = e /\ ts[p] = e.key
      BY <1>11, <1>12, <2>1
    <3> QED
      BY <1>16, <3>1
  <2>2. CASE p \in 1..Len(v)
    <3> DEFINE q == Past(p, m)
    <3>1. q \in 1..Len(rs) /\ ts[p] = rs[q] /\ rs[q] # e.key /\ p <= q
      <4>1. q \in 1..Len(rs)
        BY <1>3, <1>6, <1>7, <2>2, SkippedStay
      <4>2. v[p] = rs[q] /\ v[p] # e.key /\ ts[p] = v[p]
        BY <1>3, <1>6, <1>12, <2>2 DEF Skips
      <4>3. p <= q
        BY <1>7, <1>12 DEF Past
      <4> QED
        BY <4>1, <4>2, <4>3
    <3> HIDE DEF q
    <3>2. rs[q] \in Keys /\ later[rs[q]] = wr[rs[q]]
      BY <3>1 DEF Rewrites
    <3>3. CASE q <= Len(rs) - MaxEntries
      BY <1>1, <1>12, <1>13, <3>1, <3>3
    <3>4. CASE wr[rs[q]].expires <= now
      BY <3>1, <3>2, <3>4
    <3>5. CASE \E j \in 1..Len(es) : es[j].key = rs[q]
      <4>1. PICK j \in 1..Len(es) : es[j].key = rs[q]
        BY <3>5
      <4>2. j # n
        BY <1>5, <3>1, <4>1
      <4>3. PICK i \in 1..Len(w) : j = Past(i, n)
        BY <1>2, <1>5, <1>7, <4>2, SkippedStay
      <4>4. gs[i].key = ts[p] /\ i \in 1..Len(gs)
        <5>1. w[i] = es[j]
          BY <1>5, <4>3 DEF Skips
        <5>2. gs[i] = w[i] /\ i \in 1..Len(gs)
          BY <1>11
        <5> QED
          BY <3>1, <4>1, <5>1, <5>2
      <4> QED
        BY <1>16, <4>4
    <3> QED
      BY <3>1, <3>3, <3>4, <3>5 DEF Kept
  <2> QED
    BY <1>12, <2>1, <2>2
<1> QED
  BY <1>12, <1>15, <1>17 DEF Holds

-----------------------------------------------------------------------------
(* The operations.                                                         *)

\* An entry that has expired may leave.
LEMMA StaleLeaves ==
  ASSUME NEW es \in Seq(CacheEntries), NEW rs \in Seq(Keys), NEW wr \in Writes, NEW now \in Nat,
         Sound(es, rs, wr), Kept(es, rs, wr, now),
         NEW w \in Seq(CacheEntries), NEW n \in 1..Len(es), Skips(es, w, n), es[n].expires <= now
  PROVE  Kept(w, rs, wr, now)
<1> SUFFICES ASSUME NEW p \in 1..Len(rs)
             PROVE  \/ p <= Len(rs) - MaxEntries
                    \/ wr[rs[p]].expires <= now
                    \/ \E i \in 1..Len(w) : w[i].key = rs[p]
  BY DEF Kept
<1>1. CASE \E j \in 1..Len(es) : es[j].key = rs[p]
  <2>1. PICK j \in 1..Len(es) : es[j].key = rs[p]
    BY <1>1
  <2>2. CASE j = n
    BY <2>1, <2>2 DEF Sound, Remembered
  <2>3. CASE j # n
    <3>1. n \in Int
      OBVIOUS
    <3>2. Len(es) \in Nat /\ Len(w) = Len(es) - 1
      BY DEF Skips
    <3>3. PICK i \in 1..Len(w) : j = Past(i, n)
      <4> DEFINE i == IF j < n THEN j ELSE j - 1
      <4> i \in 1..Len(w) /\ j = Past(i, n)
        BY <2>3, <3>1, <3>2 DEF Past
      <4> QED
        OBVIOUS
    <3>4. w[i] = es[j]
      BY <3>3 DEF Skips
    <3> QED
      BY <2>1, <3>4
  <2> QED
    BY <2>2, <2>3
<1> QED
  BY <1>1 DEF Kept

\* get: a hit is moved to the end, an expired entry is dropped.
LEMMA GetKeeps ==
  ASSUME CacheInv, NEW key \in Keys, Cache!Get(key)
  PROVE  CacheInv'
<1> DEFINE w == Without(lru, key)
           n == PlaceOf(lru, key)
           e == EntryOf(lru, key)
<1>1. /\ lru \in Seq(CacheEntries) /\ time \in Nat /\ written \in Writes /\ recency \in Seq(Keys)
      /\ Sound(lru, recency, written) /\ Kept(lru, recency, written, time)
      /\ Len(lru) <= MaxEntries /\ Len(lru) \in Nat /\ MaxEntries \in Nat
  BY CacheAssumption DEF CacheInv, CacheTypeOK, Holds
<1>2. time' = time /\ written' = written
  BY DEF Cache!Get
<1>3. /\ w \in Seq(CacheEntries)
      /\ IF key \in KeysOf(lru)
           THEN n \in 1..Len(lru) /\ lru[n].key = key /\ Skips(lru, w, n)
           ELSE w = lru
  BY <1>1, WithoutSkips DEF Sound
<1>4. CASE Live(lru, key, time)
  <2>1. /\ n \in 1..Len(lru) /\ lru[n].key = key /\ Skips(lru, w, n)
        /\ e = lru[n] /\ e.expires > time
    BY <1>3, <1>4 DEF Live, EntryOf
  <2>2. e \in CacheEntries /\ e.key = key
    BY <1>1, <2>1
  <2>3. /\ reply'.hit = TRUE /\ reply'.key = key /\ reply'.value = e.value
        /\ recency' = Append(RemoveFirst(recency, e.key), e.key)
        /\ lru' = Append(w, e)
    BY <1>4, <2>2, GetKnown DEF Lookup, AfterGet
  <2>4. e.value = written[key].value /\ e.expires = written[key].expires
    BY <1>1, <2>1 DEF Sound, Remembered
  <2>5. lru' = Trimmed(Placed(lru, e))
    <3>1. Placed(lru, e) = Append(w, e)
      BY <2>2 DEF Placed
    <3> HIDE DEF w, e
    <3>2. Len(w) = Len(lru) - 1 /\ Len(Append(w, e)) = Len(w) + 1
      BY <1>1, <1>3, <2>1, <2>2, AppendProperties DEF Skips
    <3>3. ~(Len(Append(w, e)) > MaxEntries)
      BY <1>1, <3>2
    <3> QED
      BY <2>3, <3>1, <3>3 DEF Trimmed
  <2> HIDE DEF w, n, e
  <2>6. Rewrites(written, written, e) /\ Holds(lru, recency, written, time)
    BY <2>2, <2>4 DEF CacheInv, Rewrites
  <2>7. Holds(lru', recency', written, time)
    BY <1>1, <2>2, <2>3, <2>5, <2>6, UsedLast
  <2>8. CacheTypeOK'
    BY <1>1, <1>2, <2>3, <2>7 DEF CacheTypeOK, Holds
  <2>9. Cache!HitIsCurrent'
    BY <1>2, <2>1, <2>3, <2>4 DEF Cache!HitIsCurrent
  <2> QED
    BY <1>2, <2>7, <2>8, <2>9 DEF CacheInv, Holds, Sound, Kept, Differ, Remembered, InOrder
<1>5. CASE ~Live(lru, key, time)
  <2>1. reply'.hit = FALSE /\ recency' = recency /\ lru' = w
    BY <1>5, GetKnown DEF Lookup, AfterGet
  <2>2. ASSUME key \in KeysOf(lru)
        PROVE  Holds(w, recency, written, time)
    <3>1. n \in 1..Len(lru) /\ lru[n].key = key /\ Skips(lru, w, n)
      BY <1>3, <2>2
    <3>2. lru[n].expires <= time
      <4>1. lru[n] \in CacheEntries /\ ~(lru[n].expires > time)
        BY <1>1, <1>5, <2>2, <3>1 DEF Live, EntryOf
      <4> QED
        BY <1>1, <4>1 DEF CacheEntries
    <3> HIDE DEF w, n
    <3>3. n \in Int /\ Len(w) <= MaxEntries
      BY <1>1, <3>1 DEF Skips
    <3>4. Sound(w, recency, written)
      BY <1>1, <1>3, <3>1, <3>3, EntryLeaves
    <3>5. Kept(w, recency, written, time)
      BY <1>1, <1>3, <3>1, <3>2, StaleLeaves
    <3> QED
      BY <1>1, <1>3, <2>1, <3>3, <3>4, <3>5 DEF Holds
  <2>3. ASSUME key \notin KeysOf(lru)
        PROVE  Holds(w, recency, written, time)
    <3>1. w = lru
      BY <1>3, <2>3
    <3> QED
      BY <1>1, <3>1 DEF Holds
  <2> HIDE DEF w
  <2>4. Holds(w, recency, written, time)
    BY <2>2, <2>3
  <2>5. Holds(lru', recency', written', time')
    BY <1>2, <2>1, <2>4
  <2>6. written' \in Writes /\ time' \in Nat
    BY <1>1, <1>2
  <2> QED
    BY <2>1, <2>5, <2>6
    DEF CacheInv, CacheTypeOK, Cache!HitIsCurrent, Holds, Sound, Kept, Differ, Remembered, InOrder
<1> QED
  BY <1>4, <1>5

\* set: the entry becomes the last one, and the oldest leaves if there is no room.
LEMMA SetKeeps ==
  ASSUME CacheInv, NEW key \in Keys, NEW value \in Results, Cache!Set(key, value)
  PROVE  CacheInv'
<1> DEFINE e == [key |-> key, value |-> value, expires |-> time + Lifetime(value)]
<1>1. /\ lru \in Seq(CacheEntries) /\ time \in Nat /\ written \in Writes /\ recency \in Seq(Keys)
      /\ Holds(lru, recency, written, time)
  BY DEF CacheInv, CacheTypeOK
<1>2. time + Lifetime(value) \in Nat
  BY <1>1, CacheAssumption DEF Lifetime
<1>3. e \in CacheEntries /\ e.key = key
  BY <1>2 DEF CacheEntries
<1>4. /\ written' \in Writes
      /\ Rewrites(written, written', e)
  BY <1>1, <1>2, SetKnown DEF Writes, Rewrites
<1>5. /\ lru' = Trimmed(Placed(lru, e))
      /\ recency' = Append(RemoveFirst(recency, e.key), e.key)
  BY SetKnown DEF AfterSet
<1>6. reply'.hit = FALSE /\ time' = time
  BY DEF Cache!Set, Cache!NoReply
<1> HIDE DEF e
<1>7. Holds(lru', recency', written', time)
  BY <1>1, <1>3, <1>4, <1>5, UsedLast
<1> QED
  BY <1>1, <1>4, <1>6, <1>7
  DEF CacheInv, Holds, CacheTypeOK, Cache!HitIsCurrent, Sound, Kept, Differ, Remembered, InOrder

\* Time passes: what is kept may expire, and no reply is pending.
LEMMA TickKeeps ==
  ASSUME CacheInv, Cache!Tick
  PROVE  CacheInv'
<1>1. /\ time \in Nat /\ time' = time + 1 /\ reply'.hit = FALSE
      /\ lru' = lru /\ written' = written /\ recency' = recency
      /\ written \in Writes /\ recency \in Seq(Keys)
  BY DEF CacheInv, CacheTypeOK, Cache!Tick, Cache!NoReply
<1>2. Kept(lru, recency, written, time + 1)
  <2>1. Kept(lru, recency, written, time)
    BY DEF CacheInv, Holds
  <2>2. \A i \in 1..Len(recency) : written[recency[i]].expires \in Nat
    BY <1>1 DEF Writes
  <2> SUFFICES ASSUME NEW i \in 1..Len(recency)
               PROVE  \/ i <= Len(recency) - MaxEntries
                      \/ written[recency[i]].expires <= time + 1
                      \/ \E j \in 1..Len(lru) : lru[j].key = recency[i]
    BY DEF Kept
  <2>3. \/ i <= Len(recency) - MaxEntries
        \/ written[recency[i]].expires <= time
        \/ \E j \in 1..Len(lru) : lru[j].key = recency[i]
    BY <2>1 DEF Kept
  <2>4. written[recency[i]].expires \in Nat
    BY <2>2
  <2>5. written[recency[i]].expires <= time => written[recency[i]].expires <= time + 1
    BY ONLY <1>1, <2>4
  <2> QED
    BY ONLY <2>3, <2>5
<1>3. Holds(lru', recency', written', time')
  BY <1>1, <1>2 DEF CacheInv, Holds, CacheTypeOK
<1>4. written' \in Writes /\ time' \in Nat
  BY <1>1
<1> QED
  BY <1>1, <1>3, <1>4
  DEF CacheInv, CacheTypeOK, Cache!HitIsCurrent, Holds, Sound, Kept, Differ, Remembered, InOrder

\* The cache starts empty.
LEMMA CacheInitSound == Cache!Init => CacheInv
<1> SUFFICES ASSUME Cache!Init PROVE CacheInv
  OBVIOUS
<1>1. Len(lru) = 0 /\ Len(recency) = 0 /\ MaxEntries \in Nat
  BY CacheAssumption DEF Cache!Init
<1>2. CacheTypeOK
  BY DEF Cache!Init, CacheTypeOK, Writes, Results, Cache!Unwritten, Cache!NoReply
<1>3. Sound(lru, recency, written) /\ Kept(lru, recency, written, time)
  BY <1>1 DEF Sound, Kept, Differ, Remembered, InOrder
<1> QED
  BY <1>1, <1>2, <1>3 DEF CacheInv, Holds, CacheTypeOK, Cache!HitIsCurrent, Cache!Init, Cache!NoReply

\* Every operation keeps the invariant.
LEMMA CacheNextKeeps == CacheInv /\ [Cache!Next]_(Cache!vars) => CacheInv'
<1> SUFFICES ASSUME CacheInv, [Cache!Next]_(Cache!vars) PROVE CacheInv'
  OBVIOUS
<1>1. CASE Cache!Tick
  BY <1>1, TickKeeps
<1>2. ASSUME NEW key \in Keys, Cache!Get(key) PROVE CacheInv'
  BY <1>2, GetKeeps
<1>3. ASSUME NEW key \in Keys, NEW value \in Values \union {Nothing}, Cache!Set(key, value) PROVE CacheInv'
  BY <1>3, SetKeeps DEF Results
<1>4. CASE UNCHANGED Cache!vars
  BY <1>4 DEF Cache!vars, CacheInv, Holds, CacheTypeOK, Cache!HitIsCurrent, Sound, Kept, Differ, Remembered, InOrder
<1> QED
  BY <1>1, <1>2, <1>3, <1>4 DEF Cache!Next

-----------------------------------------------------------------------------
(* What follows.                                                           *)

(* Every reachable cache is a sequence of at most MaxEntries entries with  *)
(* distinct keys, each the last write of its key, in the order of use.     *)
THEOREM EntriesStayInOrder == CatalogSpec => []CacheInv
<1>1. CatalogInit => CacheInv
  BY CacheInitSound DEF CatalogInit
<1>2. CacheInv /\ [CatalogNext]_<<followed, vars, cacheVars>> => CacheInv'
  <2>1. [CatalogNext]_<<followed, vars, cacheVars>> => [Cache!Next]_(Cache!vars)
    BY DEF CatalogNext, EnricherStep, CacheStep, Cache!vars, cacheVars
  <2> QED
    BY <2>1, CacheNextKeeps
<1> QED
  BY <1>1, <1>2, PTL DEF CatalogSpec

(* The cache never serves what is stale, and forgets nothing but what is   *)
(* stale or was least recently used: get and set together, for any number  *)
(* of keys and values, any bound and any lifetimes.                        *)
THEOREM CacheKeepsItsPromises == CatalogSpec => []CacheFaithful
<1>1. CacheInv => CacheFaithful
  <2> SUFFICES ASSUME CacheInv PROVE CacheFaithful
    OBVIOUS
  <2>1. DOMAIN recency = 1..Len(recency) /\ DOMAIN lru = 1..Len(lru)
    BY DEF CacheInv, CacheTypeOK
  <2>2. Cache!RecentKept
    BY <2>1 DEF CacheInv, Holds, Kept, Cache!RecentKept, Cache!KeysOf
  <2> QED
    BY <2>2 DEF CacheInv, CacheFaithful, Cache!CacheFaithful
<1> QED
  BY <1>1, EntriesStayInOrder, PTL
=============================================================================
