-------------------------- MODULE BoundedTTLCache --------------------------
(***************************************************************************)
(* BoundedTTLCache (cache.py), the LRU cache with a lifetime for results   *)
(* and a shorter one for "no result" that the LibGen provider keeps in     *)
(* memory.  Its methods do not suspend, so each is one action.             *)
(***************************************************************************)
EXTENDS CacheOps, FiniteSets

CONSTANTS
  Keys,     \* the cache keys
  Values,   \* the results other than Nothing
  MaxClock  \* bound: the clock stops here

VARIABLES
  entries,  \* self._entries
  clock,    \* self._clock()
  reply,    \* what the last get returned
  written,  \* history: the last set of every key
  recency   \* history: the keys ever set, by last hit or set, oldest first

vars == <<entries, clock, reply, written, recency>>

NoReply == [key |-> Nothing, hit |-> FALSE, value |-> Nothing]
Unwritten == [value |-> Nothing, expires |-> 0]

Used(key) == Append(RemoveFirst(recency, key), key)

Init ==
  /\ entries = <<>>
  /\ clock = 0
  /\ reply = NoReply
  /\ written = [k \in Keys |-> Unwritten]
  /\ recency = <<>>

\* Fault: a hit does not count as a use.
GetUntouched(key) ==
  /\ LET found == Lookup(entries, key, clock) IN
       /\ reply' = [key |-> key, hit |-> found.hit, value |-> found.value]
       /\ recency' = IF found.hit THEN Used(key) ELSE recency
       /\ entries' = IF found.hit THEN entries ELSE Without(entries, key)
  /\ UNCHANGED <<clock, written>>

Get(key) ==
  /\ LET found == Lookup(entries, key, clock) IN
       /\ reply' = [key |-> key, hit |-> found.hit, value |-> found.value]
       /\ recency' = IF found.hit THEN Used(key) ELSE recency
  /\ entries' = AfterGet(entries, key, clock)
  /\ UNCHANGED <<clock, written>>

Set(key, value) ==
  /\ entries' = AfterSet(entries, key, value, clock)
  /\ written' = [written EXCEPT ![key] =
                   [value |-> value, expires |-> clock + Lifetime(value)]]
  /\ recency' = Used(key)
  /\ reply' = NoReply
  /\ UNCHANGED clock

Tick ==
  /\ clock < MaxClock
  /\ clock' = clock + 1
  /\ reply' = NoReply
  /\ UNCHANGED <<entries, written, recency>>

Next ==
  \/ Tick
  \/ \E key \in Keys :
       \/ Get(key)
       \/ \E value \in Values \union {Nothing} : Set(key, value)

Spec == Init /\ [][Next]_vars

-----------------------------------------------------------------------------

\* A hit is the last value written for that key and still within the lifetime that
\* value was given, so a "no result" is never served for as long as a result.
HitIsCurrent ==
  reply.hit =>
    /\ reply.value = written[reply.key].value
    /\ clock < written[reply.key].expires

\* The entries pushed out are the least recently used ones: a key that has not
\* expired is still cached unless MaxEntries others were hit or set since it was.
\* Expired entries of other keys count: they take room, but never more than the
\* bound.
RecentKept ==
  /\ Len(entries) <= MaxEntries
  /\ \A i \in DOMAIN recency :
       \/ i <= Len(recency) - MaxEntries
       \/ written[recency[i]].expires <= clock
       \/ recency[i] \in KeysOf(entries)

(* The cache never serves what is stale, and forgets nothing but what is   *)
(* stale or was least recently used.                                       *)
CacheFaithful == HitIsCurrent /\ RecentKept
=============================================================================
