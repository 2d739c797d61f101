--------------------------- MODULE LibGenCatalog ---------------------------
(***************************************************************************)
(* What a LibGen search rests on once it has rows (metadata.py, cache.py): *)
(* the rows are enriched, and what was learned is remembered.  The         *)
(* enricher has its cache to itself, and the cache also serves the search, *)
(* so that each of them can be followed by itself.                         *)
(***************************************************************************)
EXTENDS MetadataEnricher

CONSTANTS
  Keys,       \* the keys of a cache
  Values,     \* the results it is given other than Nothing
  LruClock,   \* bound: the clock of the cache stops here
  Parts       \* the parts that are followed, one at a time

ASSUME CatalogAssumption ==
  Parts \subseteq {"enricher", "cache"} /\ Nothing \notin Values

VARIABLES
  followed,   \* the part that is followed
  lru,        \* self._entries of the cache
  time,       \* its self._clock()
  reply, written, recency

Cache == INSTANCE BoundedTTLCache WITH entries <- lru, clock <- time, MaxClock <- LruClock

cacheVars == <<lru, time, reply, written, recency>>

\* One source is enough where it is not asked.
CatalogInit ==
  /\ followed \in Parts
  /\ Init
  /\ followed = "enricher" \/ source = CHOOSE s \in Sources : TRUE
  /\ Cache!Init

EnricherStep ==
  followed = "enricher" /\ Next /\ UNCHANGED <<followed, cacheVars>>
CacheStep ==
  followed = "cache" /\ Cache!Next /\ UNCHANGED <<followed, vars>>

CatalogNext == EnricherStep \/ CacheStep

CatalogSpec == CatalogInit /\ [][CatalogNext]_<<followed, vars, cacheVars>>

-----------------------------------------------------------------------------

(* Of the cache: it never serves what is stale, and forgets nothing but    *)
(* what is stale or was least recently used, see BoundedTTLCache.          *)
CacheFaithful == Cache!CacheFaithful
=============================================================================
