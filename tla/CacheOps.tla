------------------------------ MODULE CacheOps ------------------------------
(***************************************************************************)
(* The two operations of BoundedTTLCache (cache.py) as functions of the    *)
(* OrderedDict it keeps: a sequence of entries with distinct keys, the     *)
(* least recently used one first.                                          *)
(***************************************************************************)
EXTENDS Integers, SequencesExt

CONSTANTS
  MaxEntries,   \* max_entries
  TTL,          \* ttl_seconds
  NegativeTTL,  \* negative_ttl_seconds
  Nothing       \* the cached value None, which stands for "no result"

ASSUME CacheAssumption ==
  /\ MaxEntries \in Nat \ {0}
  /\ TTL \in Nat \ {0}
  /\ NegativeTTL \in Nat \ {0}

KeysOf(entries) == {entries[i].key : i \in DOMAIN entries}

PlaceOf(entries, key) == CHOOSE i \in DOMAIN entries : entries[i].key = key
EntryOf(entries, key) == entries[PlaceOf(entries, key)]

Without(entries, key) ==
  IF key \in KeysOf(entries) THEN RemoveAt(entries, PlaceOf(entries, key)) ELSE entries

\* Fault: an entry is served in the instant at which it expires.
LiveLate(entries, key, now) ==
  key \in KeysOf(entries) /\ EntryOf(entries, key).expires >= now

Live(entries, key, now) ==
  key \in KeysOf(entries) /\ EntryOf(entries, key).expires > now

Lookup(entries, key, now) ==
  IF Live(entries, key, now)
    THEN [hit |-> TRUE, value |-> EntryOf(entries, key).value]
    ELSE [hit |-> FALSE, value |-> Nothing]

\* A hit moves the entry to the end, an expired entry is deleted.
AfterGet(entries, key, now) ==
  IF Live(entries, key, now)
    THEN Append(Without(entries, key), EntryOf(entries, key))
    ELSE Without(entries, key)

Lifetime(value) == IF value = Nothing THEN NegativeTTL ELSE TTL

Placed(entries, entry) == Append(Without(entries, entry.key), entry)

\* The oldest entries leave until the bound is met.
Trimmed(entries) ==
  IF Len(entries) > MaxEntries
    THEN SubSeq(entries, Len(entries) - MaxEntries + 1, Len(entries))
    ELSE entries

AfterSet(entries, key, value, now) ==
  Trimmed(Placed(entries, [key |-> key, value |-> value, expires |-> now + Lifetime(value)]))
=============================================================================
