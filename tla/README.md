# Formal model of the Pullbox direct providers

This directory holds TLA+ specifications of `pullbox-direct-providers`, the TLC
configurations that check them on small instances, and proofs about them that
TLAPS checks. Every definition is translated from the Python source; `PROJECT.json`
maps each one to the lines it stands for, and lists the runs, the deliberate
faults each property is tested against, the hazards and the theorems.

## 1. The system

A provider is a small FastAPI service in its own container. Pullbox calls
`/v1/search`, `/v1/resolve` and `/v1/health` with a bearer token and an absolute
deadline. A provider scrapes one source site (GetComics, Anna's Archive, LibGen) and
answers with candidates or with artifact links. All of a provider's requests are
tasks of one asyncio event loop in one process, and nothing is stored on disk:
concurrency is interleaving at `await`, and failure is an exception, a timeout or a
cancellation at an `await`.

### Inventory

| Component | State | Operations | What is hard | What makes it correct |
| --- | --- | --- | --- | --- |
| Challenge resolver runtime (`resolver.py`) | `_active`, `_failures`, `_state`, `_opened_at`, one runtime per endpoint | `slot`, `record_success`, `record_failure`, called by `resolve_after_challenge` | overlapping calls, failures recorded after the slot was given back, cancellation | slots are counted exactly; breaker fields agree; a probe is alone; the gate refuses and recovers as promised |
| LibGen cache (`cache.py`) | an ordered dict with expiry times | `get`, `set` | boundary of expiry, refresh and eviction order | bounded; never stale; least recently used goes first |
| LibGen health (`service.py`) | one task and one close task per mirror, a process-wide set of detached close tasks | `source_health` | nested timeouts, shielded awaits, cancellation of the task group | answers in bounded time; no orphaned close; honest verdicts |
| LibGen search (`service.py`, `app.py`) | the shared cache, per request a session and a place in the failover | `search` | concurrent searches, failures in the middle of a query plan, deadline at each wait | sessions given up; failover complete; negative results earned |
| LibGen resolve and session (`service.py`, `transport.py`) | per session cookies and user agent; the shared gate | `resolve`, `fetch_text`, `resolve_redirect`, `aclose` | challenges in the middle, one retry, unsafe destinations, deadline while the resolver works | slots and identities do not outlive their use; bounded work; unsafe is final |
| Request deadline (`api.py`) | none | `validate_request`, `within_deadline` | cancels a task wherever it waits | every request is answered |
| LibGen enricher (`metadata.py`) | a cache of evidence about files and editions | `enrich`, `enrich_many` | batches that fail as one, evidence reused for other rows, a source that changes | a candidate rests on evidence validated for it; batches and the cache do not show |
| LibGen catalogue parser (`parser.py`) | the table, row, cell and link being read | `feed`, `parse_search_html` | damaged rows, nested tables, layout drift | damage is local; an unknown layout is an error |
| Anna's, GetComics parsers | none | parse a page | layout drift | pure functions |
| Source pages (`source_http.py`) | the shared gate; per fetch an HTTP client | `fetch_source_html`, `resolve_source_redirect` | a redirect, then a challenge, failures in the cleanup, deadline at each wait | bounded work; a challenge or a failure is never taken for a page; clients are closed |
| Anna's Archive (`annas_archive`) | none of its own; an account quota outside | `search` with LibGen fallback, `resolve` over four servers, health | paid links, quota errors, deadline | the primary link is kept; a quota error stops; a failure is not an empty result |
| GetComics (`getcomics`) | per resolve one task per link under a semaphore | `search`, `resolve` | early exits, query plans, tasks that outlive their request | requested issue comes first; nothing lost; a failing link costs only itself |
| Contract (`models`, `configuration`, `compatibility`, `conformance`, `search_terms`, `comic_parser`, `auth`, `redaction`) | none | validation, negotiation, parsing | boundaries | pure functions |
| Release pipeline (`.github/workflows`, `.github/scripts`) | tags, aliases and signatures in two registries | publish, sign, promote, reconcile `latest` | reruns, crashes between two registries, concurrent releases | what may be pulled is signed; registries agree once it settles; the alias never goes back |
| Container scan (`.github/scripts`, workflows) | the reviewed baseline, per scan a report, a SARIF and a verdict | scan, gate, filter, upload | reviews that expire in the middle, findings that share a rule, a filter that fails | no unreviewed finding passes the gate or is left out of the upload |
| Synthetic provider, images, smoke tests | none | | | fixtures and build recipes |

The handlers call a service; a LibGen or source-page fetch that meets a challenge
calls `resolve_after_challenge`, which goes through the runtime's gate; the LibGen
service is also the fallback catalogue of Anna's Archive search. Shared state between
requests is: the resolver runtimes, the LibGen caches and the set of detached
close tasks. `PROJECT.json` lists every component with its status and every hazard
with the line where it bites.

## 2. Modules

| Module | Models | Notes |
| --- | --- | --- |
| `FailFastGate` | what the gate promises: a bound on concurrency, a failure streak, a cooldown | abstract specification, no breaker states |
| `ResolverRuntime` | `ProviderResolverRuntime` and the path of `resolve_after_challenge` through it | implements `FailFastGate` (`Gate == INSTANCE ... WITH`) |
| `ResolverRuntimeProofs` | | theorems about `ResolverRuntime` |
| `CacheOps` | `get` and `set` of `BoundedTTLCache` as operators on a sequence of entries | used by `BoundedTTLCache`, `LibGenSearch` and `MetadataEnricher` |
| `BoundedTTLCache` | the cache on its own, with a history of writes | |
| `HealthProbe` | `source_health`, its task group, probes and close tasks | |
| `Subsequences` | what filters, "not in" tests, `dict.fromkeys` and slices leave of a list | used by both query modules, `GetComicsSearch`, `AnnasResolve`, `AnnasSearch` and `CatalogPage` |
| `LibGenQueries` | `_build_queries` and `_title_fallback_query` as operators | |
| `LibGenSearch` | concurrent search requests: deadline, origins, cache, session, query plan, failover | extends `CacheOps` and `LibGenQueries` |
| `LibGenResolve` | concurrent resolve requests: deadline, origins, session, challenge, retry, failover | built on `FailFastGate`, whose actions are the resolver's part of its steps |
| `LibGen` | the provider apart from its search: it resolves or is asked for its health | extends `LibGenResolve`, composes it with `HealthProbe` |
| `MetadataEnricher` | concurrent `enrich` and `enrich_many`: file and edition evidence, batches, the cache, a changing source | extends `CacheOps` |
| `CatalogPage` | `_CatalogParser` fed tag by tag, and `parse_search_html` | pages are tables that may be damaged |
| `LibGenCatalog` | what a LibGen search rests on once it has rows: enricher and cache | extends `MetadataEnricher`, composes it with `BoundedTTLCache` |
| `AnnasResolve` | one resolve request: the member API at four server indices, quota, mirrors, client, deadline | |
| `AnnasSearch` | one search request: the official page, the fallback catalogue, ranking and truncation | |
| `AnnasArchive` | the provider: fetches of pages, a resolve or a search | extends `SourcePage`, composes it with the two above |
| `SourcePage` | concurrent `fetch_source_html`: redirect, body, challenge, cleanup, deadline | built on `FailFastGate` like `LibGenResolve` |
| `GetComicsResolve` | one resolve request: the page, one `resolve_source_redirect` task per link, `asyncio.gather`, the semaphore | |
| `GetComicsQueries` | the query plans of GetComics search as operators | |
| `GetComicsSearch` | one search request: exact queries, packs, early exits, merging and truncation | extends `GetComicsQueries` |
| `GetComics` | the provider: a request is a resolve or a search | composes `GetComicsResolve` and `GetComicsSearch` |
| `ReleasePipeline` | image workflow, Release workflow and reconciliation of `latest`, for several versions | |
| `SecurityScan` | the vulnerability policy, the gate, the SARIF filter and the workflow around them, over several days | |
| `ContainerWorkflows` | the workflows that handle images: releasing or scanning | composes the two above |
| `SubsequenceProofs`, `LibGenSearchProofs`, `LibGenCatalogProofs`, `LibGenProofs`, `AnnasArchiveProofs`, `GetComicsProofs`, `ContainerWorkflowsProofs` | | theorems about the modules they are named after and, for the last five, about the modules composed there; those about `CatalogPage` are in `LibGenSearchProofs` |

The `MC*` modules only name model values and small sets for TLC.

### Correspondence with the code

*`ResolverRuntime`.* `active`, `failures`, `state` and `openedAt` are the four fields;
`openedAt = -1` is `None`. `pc` is where a caller is in `resolve_after_challenge`. Each
`async with self._lock` block is one action: the lock is only held across code that does
not wait, so it is never contended and its blocks are atomic. `RefuseOpen`, `RefuseBusy`
and `Admit` are the three ways the block of `slot()` ends (the second has already moved
the circuit to half open), `Leave` is the `finally` of `slot()`, and a failing caller goes
through `failing` and `charging` because its slot is given back before its failure is
recorded. The four error codes that are not recorded go straight to `leaving`, and so does
a cancellation. `probes` is a history variable that only properties read.

*`CacheOps`, `BoundedTTLCache`.* The ordered dict is a sequence whose last entry is the
most recently used one. `AfterGet` drops an expired entry and moves a live one to the
end; `AfterSet` replaces, appends and trims from the front. `None`, which the code uses
for a remembered "no result", is the model value `Nothing`.

*`HealthProbe`.* A probe goes `created -> fetching -> closing -> done`, or `failed` if
`aclose()` raised, or `cancelled`. `close` is the task that runs `aclose()`: it is awaited
behind a shield until `timer`, then cancelled and `detached` into
`_DETACHED_HEALTH_CLOSE_TASKS`, whether or not it ever ends. `Abort` is the task group
cancelling its children, because one failed or because the request was cancelled; a
probe that was already closing keeps waiting until the same instant.

*`LibGenSearch`, `LibGenResolve`.* One record per request; `pc` names the wait the task is
at. `closing` is the `finally: await session.aclose()`, and `ending` is what the code will
do after it (`found`, `empty`, `failover`, `raise`, `cancelled`). `Expire` is
`asyncio.timeout` in `within_deadline`: it cancels once, from any wait, and a request that
is cancelled while its session closes leaves that session `interrupted`. In
`LibGenResolve`, `stage` says which request an origin is at (`file`, `edition`, `link`,
`retry`), `identity` stands for the cookies and the user agent a resolver brought back, and
`solving`, `recorded` and `charging` are the waits inside `resolve_after_challenge`, whose
effects on the gate are the actions `Enter`, `Success`, `Leave` and `Failure` of
`FailFastGate`. That a gate behaves like this is what `ResolverRuntimeProofs` proves of the
runtime.

*`AnnasResolve`.* `turn` counts the four domain indices, `payloads` is `indexed_payloads`.
Each turn opens a client, sends, reads, closes the response and closes the client; `ending`
is what the turn will do once both are closed. An answer is abstracted to its HTTP status
class, the class of its error text and the host of its link, which is what
`_raise_primary_fast_download_error`, `_is_quota_error` and the mirrors look at. `refused` is
a history variable.

*`AnnasSearch`.* The two waits are the page and LibGen's search, which is taken at its
promise (at most as many candidates as asked for, or a failure). `FromCatalog` is
`_anna_candidates_from_catalog`: `Ranked` is the stable sort by rank, which has two values,
`Listed` drops the unknown and the repeated, and the slice comes last.

*`LibGen`, `LibGenCatalog`, `AnnasArchive`, `GetComics`, `ContainerWorkflows`.* What is followed is of one kind
from the start (`endpoint`, `followed`, `workflow`), and the state of the other kinds stays
where it begins: requests of different kinds share nothing but the resolver gate and the
LibGen cache, which are the subject of `SourcePage`, `LibGenResolve` and `LibGenSearch`, where
requests do run concurrently. `LibGenCatalog` follows the enricher or the cache;
the runs choose which with `Parts`, the theorems are about any choice. The enricher has a
cache of its own, `entries`; `lru` is a cache that any caller may use with any keys.

*`MetadataEnricher`.* One record per request. It waits at `files` and `editions`, for the
API; `lookup`, `filed` and `completed` are the steps between two waits, and `At` keeps other
tasks from moving in between. `files` and `related` are the dictionaries
`file_metadata_by_md5` and `edition_metadata_by_file_id`, each as the sequence of its
assignments, of which the last one of a key counts (`Got`), `later` the
rows of `individual`, which follow one by one. The loops that read or write the cache for one row
after the other are `AfterGets` and `AfterSets`, which say in one piece what becomes of the
cache; `MCLibGenCatalog` has an assumption that both are what folding `AfterGet` and
`AfterSet` over the keys gives, evaluated by TLC for every cache within the bounds and up to four
keys. `parse_file_metadata` is `FileEvidence`: the
record the row names, or the only one with its md5, unless it contradicts the row. Size,
tolerance and extension are one field, `shape`, that is equal or absent. A batch whose
payload cannot be read is refused row by row (`ApiAnswersBadly`), and one that was on its way
while the source changed is answered as by the other source, at the instant it arrives; one
whose fetch raises fails the request (`FetchFails`). A record that is malformed, broken or not
visible is refused (`usable`), but makes another with its md5 ambiguous.

*`CatalogPage`.* The fields of `parser` are those of `_CatalogParser`, and each branch of its
handlers is a case, in the code's order. A page is the table the source means; damage is a
missing `</td>`, `</tr>`, `</a>` or `</font>`, or a table within a cell. `feed` is a walk
through the page: `place` is a row, a cell of it and one of 15 steps through the cell,
`Token` the tag or text that is met there, if any, and `After` the next place. A row that
`_parse_record` refuses and one on which it raises are both skipped, and both are `None`.
The layouts are a constant; TLC has one of three columns and one of two instead of nine and
five, since the rules only look at the first column, the last and whether those between are
well-formed.

*`SecurityScan`.* One scan at a time, again and again. Gate and filter each evaluate the
baseline on the day they run, and `Midnight` may fall between them. One bad entry, or an
image built on another base, invalidates the whole baseline: then the gate fails and the
raw SARIF is uploaded, as it is whenever the filter fails. What the SARIF says is at the
mercy of the scanner: a rule has the severity of any of its findings, or none that can be
read, and results may contradict their rule. Dates are days. The policy compares the end of
an entry with that of its baseline as texts, which differs from the order of the days only
between ISO formats (`2025-01-01` and `20250101`); such a mixture is not modelled.

*`SourcePage`, `GetComicsResolve`.* `closing` and `leaving` are the two awaits of the
`finally` block: the response, then the client. A cleanup may raise, and a deadline may
interrupt it; both are outcomes of their own. In `GetComicsResolve` a link goes
`queued -> validating -> sending -> closing` and ends `resolved`, `dropped`, `broken` or
`cancelled`. A `RuntimeError` drops it; whatever else is raised, by httpx for a URL it rejects
(`httpx.InvalidURL`) or by a cleanup, leaves the task and makes it `broken`. A link without a
task, `absent`, is a direct one. What else the page says is drawn in `Gathered`, where
`parse_release_html` first looks at it: whether its layout is known, which links each group
offers under a label that fits where they lead, and whether the group's description can be
held by an `Artifact` (`odd`: a size such as a number of a thousand digits cannot). Two things
are looked at earlier: which links are wrapped, and whether `urlsplit` rejects a control
(`ControlMalformed`). `ReleaseOf` has the limits of the contract's models, 50 mirrors and
100 artifacts, as constants; `GatherRaises` is `asyncio.gather` answering at the first exception
without stopping the other tasks, `CancelTasks` is the cancellation of the gathering task.

*`GetComicsQueries`, `GetComicsSearch`.* A query is a sequence of words, as in
`LibGenQueries`. Every query is one wait; between two queries the code does not suspend, so
an answer, the early exits that follow it and the merged reply are one action. A release is
an identity and whether the title of this listing covers the requested issue.

*`ReleasePipeline`.* A digest is a version and a build of it. The steps of a job in a
workflow that write to a registry are actions, in their order; a workflow may die before
any of them, and is rerun from the job that died or, building anew, from the start. Docker
Hub refuses to move a version tag (`HubRefuses`), GHCR does not (RELEASING.md). `pending`
and `reconcile` are the concurrency group of `provider-latest.yml`: one run, one waiting
request, which a newer one replaces.

*`LibGenQueries`.* A query is a sequence of words. The 500-character cut of a query (700 for
GetComics) and the normalisation of white space are left out: they act on single strings and no property is
about them. The plan is what `_search_origin` sends to one origin when no query has results.

*`Subsequences`.* A loop that appends an element if it passes a test, a comprehension with a
condition and `dict.fromkeys` all leave the elements at some positions of the list they go
through, in their order. They are written as that, `Selected(s, positions)`, and the test as
the set of positions, so that nothing recursive stands between the code and a proof about it.

## 3. Runs

| Run | Question | Instance | States | Properties |
| --- | --- | --- | --- | --- |
| `resolver_gate` | do overlapping calls, late records and cancellations keep the gate right, and does every slot come back? | 3 callers, concurrency 2, threshold 2, cooldown 2, 6 calls, clock to 5 | 55,521 | `TypeOK`, `SlotAccounting`, `CircuitConsistent`, `ProbeAlone`, `HalfOpenHasCooled`, `ImplementsGate`, `SlotReturned` |
| `cache_lru_ttl` | is the cache fresh, bounded and LRU? | 3 keys, 2 entries, lifetimes 3 and 1 | 10,828 | `CacheFaithful` |
| `search_failover` | are sessions, failover, query plans and negative caching right, and is every search answered? | 2 requests, 3 intents, 2 origins, 2 cache entries, clock to 3 | 289,535 | `SessionReleased`, `FailoverExhausted`, `NegativeEarned`, `PlanSound`, `Answered` |
| `search_four_queries` | does search stay within three query variants? (it does not) | 1 request | | `ThreeQueryVariants` (violated) |
| `libgen_provider` | do slots, solved identities, work and unsafe links stay right, and is every resolve answered? is the health answer prompt and honest whatever hangs, and does it come? | 2 requests, 2 origins, 1 slot, threshold 2, clock to 2; 2 mirrors, both timeouts 2, clock to 5 | 353,973 | `ChallengeCost`, `SolutionScoped`, `UnsafeIsFinal`, `Prompt`, `HonestAnswer`, `ResolveAnswered`, `Answers` |
| `annas_archive` | what does a page cost, what counts as one, are clients closed? is a granted link kept with exact mirrors, is a used-up quota respected? are failures reported as such, is the catalogue listed faithfully? | 2 fetches, 1 slot, threshold 1, cooldown 1, clock to 2; 2 hosts, budgets 0 and 2, clock to 3; 3 files, limit 2, catalogues of up to 3 | 73,398 | `BoundedFetch`, `PageGenuine`, `ClientReleased`, `PrimaryKept`, `FailureSurfaces`, `CatalogFaithful` |
| `getcomics` | does a failing link cost only itself, and does every task end? are the plans sound, is enough asked, is nothing lost, does the issue come first? | 3 links in 2 groups, semaphore of 2, at most 2 mirrors and 1 artifact; 585 intents, 3 releases, pages of up to 2, limit 2 | 336,374 | `FailureIsLocal`, `NoStragglers`, `ReplyFaithful`, `AskedEnough`, `PlanSound`, `TasksEnd` |
| `container_workflows` | is what may be pulled signed and what is reported published, does `latest` settle and never go back? does a scan hide a finding? | 2 versions, the first built up to twice, the second perhaps a prerelease, 1 death; 114 reports over 10 findings, 11 baselines, 3 days | 280,677 | `PublishedIsSigned`, `LatestSettles`, `NothingHidden`, `LatestNeverBack` |
| `metadata_enricher` | does a candidate rest on evidence meant for it, do batches and the cache show? | 2 requests, 7 pages, 2 files, 2 editions, 3 cache entries, lifetimes 2 and 1, 3 sources, 1 trouble | 1,300,068 | `EvidenceMatches`, `Transparent` |
| `catalog_page` | is a damaged row damaged alone, is an unknown layout an error? | a header, intact or not, and up to 2 rows of 7 kinds, 5 kinds of damage; no header, an empty row, another table | 258,330 | `DamageIsLocal`, `DriftIsNoAnswer` |

Why the bounds are enough. The gate needs a caller admitted before the circuit opens, one
whose failure opens it and one that probes: three callers, threshold 2 so that one failure
does not open it, concurrency 2 so that calls overlap, and a clock that runs through two
cooldowns. The cache needs one key more than entries and both lifetimes shorter than the
run. Health needs one mirror that fails while the other is at each of its stages, and a
clock beyond the sum of the two timeouts; probes only meet in the task group, so a third
mirror adds no new kind of meeting. Search and resolve need two requests for one key, or
for the one slot, an alternate origin, and a budget that ends in the middle of the
operation; every deadline instant relative to every other wait occurs. The three intents
of search have a plan of one query, a plan in which two variants coincide, and a plan of
four. Anna's resolve runs through all four indices with every answer at each; two hosts
make mirrors coincide. GetComics needs one link more than the semaphore admits and
than an artifact may have mirrors, one group more than a response may have artifacts, and one
release more than the limit of a search. The pipeline needs a lower version that ends after a higher
one, a build that replaces another, and one death at any step of any workflow. The scan
needs two findings that share a rule and differ in one respect, each respect in turn, and a
review that ends between two of three days. The enricher needs two requests that meet in
the cache, an eviction, two rows for one md5 that disagree, two for one file, and one
change of the source or one stale answer; one trouble may fall at any point. The parser needs a damaged row
before, between and after sound ones, the header row included.

`MaxClock`, `ResolveClock`, `HealthClock`, `MaxCalls`, `MaxBuilds`, `MaxDeaths`, `MaxCatalog`,
`MaxPage`, `MaxTroubles` and `MaxDay` are the bounds that the code does not have; they stand in guards or in the sets inputs come from.
`CHECK_DEADLOCK FALSE` is set where the models stop because the clock does or because all
requests are over; the workflows never stop and are checked for deadlock.

## 4. Time and fairness

Clocks are integers. In the modules with deadlines time does not pass an armed timer
(`NoTimerOverdue`) and does not pass while a task could run (`NothingReady`): the event
loop is not blocked for longer than the timers' resolution, which the code obtains by
sending blocking work to threads. `ResolverRuntime` has no such assumption.

Fairness is weak fairness of what the event loop does by itself: ready tasks run, timers
fire, the clock advances. No fairness is put on a source, a resolver or a client: none
need ever answer, and no request need ever be cancelled. Two assumptions go further. A
name lookup inside `_perform_resolution` ends, because the operating system bounds it.
In search and resolve `session.aclose()` ends: the code awaits it without any bound, even
after the deadline, so without this assumption the liveness properties do not hold. In
health the close is bounded by the code, and `Answers` needs no such assumption. The
fairness of `LibGen` is that of the endpoint in question.

`SourcePage`, `AnnasSearch` and `GetComicsResolve` do not count time for the request: its
deadline may pass at any wait, which includes every real instant of it. `TasksEnd` assumes
that the deadline comes, that httpx ends each exchange and that a cleanup ends, and strong
fairness of `Acquire`: `asyncio.Semaphore` serves its waiters in order, so a task is not
passed over for ever while places become free. `ReleasePipeline` has safety properties only:
nobody is obliged to rerun a workflow.

## 5. What is proved

`ResolverRuntimeProofs` is about any finite set of callers and any concurrency, threshold
and cooldown that `RuntimeAssumption` allows (it states what the constructor validates;
`MaxClock` and `MaxCalls` are any naturals). The proofs depend on no other assumption.

* `TypesKept`, `SlotsAccounted`, `CircuitStaysConsistent`, `ProbesAreAlone`,
  `HalfOpenCooled`: `Spec => []TypeOK` and the same for the four safety invariants.
* `RuntimeImplementsGate`: `Spec => ImplementsGate`, the refinement of `FailFastGate`.

The inductive invariant `IInv` is the conjunction of the five invariants and
`ProbeKeepsTripped`: while a probe is at the resolver the circuit is not closed.
`ProbeAlone` is not inductive without it, for if the circuit could close under a probe, the
next call would be admitted beside it. That it cannot close is seen from `RecordSuccess`,
which is executed inside the slot: the caller that records is in `InSlot`, which holds the
probe only. `CircuitConsistent` is what turns "not closed" into the abstract gate's
"tripped", and `HalfOpenHasCooled` supplies its cooldown, so the refinement of `Admit`
uses all of them. Each group of actions has a lemma of its own, and `GoMovesOne`,
`GoInside` and `HoldersCounted` say what one moving caller does to the set of slot holders
and to its cardinality.

`ContainerWorkflowsProofs` has two parts. The one on scans is about any reports, any number
of baselines and days that `ScanAssumption` allows: `NoFindingHidden` is
`WorkflowsSpec => []NothingHidden`. The
inductive invariant `ScanInv` adds to `NothingHidden` that the SARIF names exactly the
rules of the report, each with the severity of one of its findings unless it cannot be read,
that dates are numbers, and that verdict and upload are empty before their steps.
`NothingHidden` is not inductive by itself: a baseline that is replaced, or a second report
beside the verdict of the first, would break it, and it is the order of the workflow's steps
that excludes both. The argument that no finding is lost rests on `OmittedRuleIsReviewed`:
`filter_sarif` takes a severity from the SARIF, which gives a rule only one where the
report may have several, but it leaves a result out only if no finding of the rule is
unreviewed, so a wrong severity can keep a result and never lose one. `NothingLeft` is the
converse for a readable SARIF, and `ValidReviewsHold` turns the policy's checks on dates
into the reviews that `NothingHidden` speaks of.

The part on releases is about any finite set of versions (`PipelineAssumption`), any builds
and deaths: `WhatIsPublishedIsSigned`, `LatestSettlesAlways` and `LatestGoesForward` state
`PublishedIsSigned`, `LatestSettles` and `LatestNeverBack`, and `ReleasesKeepTheirPromises`
carries them to the composition. The invariant says what each job has achieved at
each of its steps: signatures before tags, GHCR before Docker Hub, both before the release
is created, the release before the request to reconcile; a reconciliation on its way has
selected a version no lower than either alias, and, unless a request is waiting, no lower
than any release that was reported done (`Noticed`). `StableHasHighest` is where the set must be finite: there is a highest stable
release.

`LibGenProofs` and the first part of `AnnasArchiveProofs` are about any finite set of requests
behind any gate their assumptions allow. Both invariants say, request by request (`Fine`), what
may be true at each wait, and, for all of them together, that the slots of the gate are held by
exactly those who are at the resolver (`SlotsHeld`). For LibGen, `Asking` ranks the stages
of an origin (file, edition, link, retry), which bounds the work, `AtOrigin` and `Scoped` tie
a solved identity to the origin and the session it was solved for, and `Final` keeps an
unsafe link from being followed by anything: `ChallengesCostLittle`,
`SolutionsStayScoped` and `UnsafeEndsTheOperation`. For source pages, `Counted` relates
requests sent to redirects followed, `Genuine` says where a body comes from, and `Released`
what has become of the client at each wait: `FetchesAreBounded`, `PagesAreGenuine` and
`ClientsAreReleased`. `RequestsUseTheGate` and `FetchesUseTheGate` are the refinements
`Spec => GateSpec`: whatever the callers do, what they do to the gate is what
`FailFastGate` allows, so with `RuntimeImplementsGate` the abstract gate is justified from
both sides. `SlotsStayBounded` is the bound on concurrent solving that follows.

`LibGenProofs` goes on with the health check, for any mirrors and timeouts. Besides the types,
`HealthInv` says which sessions are open at each stage of a probe (`Sessions`), what the task
group has done once it is aborted or over (`Group`), and when each armed timer ends (`Timers`):
`Prompt` is not inductive without the last, for its bound is the sum of two timeouts that
are armed one after the other. Theorems: `ProbesKeepTheirPlace`, `HealthIsPrompt`,
`HealthIsHonest`.

`AnnasArchiveProofs` goes on with a resolve, for any hosts and budgets. `GrantedLinksAreKept` is
`ServiceSpec => []PrimaryKept`. `ResolveInv` has three parts: the links granted so far come from
servers before the ones of this turn, in climbing order, and a turn that closes its client
has a reason (`TurnInv`); a quota error is the answer of the turn that is ending, so that no
further turn begins after it (`QuotaInv`); and the outcome fits what was granted, a link of
the first server being lost to the deadline or a broken cleanup only (`OutcomeInv`).
The turns must be in the invariant because an answer is acted on only after the response and
the client have been closed, which may fail or be cut off by the deadline; one lemma for each
way a turn ends (`RaisingKeeps`, `SettlingKeeps`, `ContinuingKeeps`) is what all
actions come down to. Exactness of the mirrors is `MirrorsKnown`: `DistinctKnown`, applied to
the hosts of the links, and `SelectedKnown`, applied to the links, select the same places, so
each host that granted a link occurs once, by its first server, in the order of servers.

Its third part is about searches, for any files and limits: `FailuresSurface`
(`FailureSurfaces`) and `CatalogsAreListedFaithfully` (`CatalogFaithful`). `SearchInv` keeps
which of the two sources said what at each wait and that a response of the catalogue is
made from its answer; `ListsFaithfully` then says what such a response is, along the
code's order of operations. `RankedKnown`: the sort has the same members, counts none
twice and puts derived formats last. `ListedKnown`: what is dropped is unknown or
listed before. `FilesCounted`: a list that names no file twice is as long as its set of
files, so the slice (`ShownKnown`) leaves one out only if the limit is reached.
`ServiceKeepsItsPromises` of both modules carries the theorems about `Spec` to the composition.

`GetComicsProofs` is about any links, groups, limits and width of the semaphore: `LinksFailAlone`
(`FailureIsLocal`), `NobodyAsksBehindTheReply` (`NoStragglers`), `SlotsStayBounded`, and the
same for the service. The invariant says that tasks exist only once the page is there, that
a task cleans up for a reason (`CleansUpForAReason`), that what the request reports is the
first exception raised (`FirstRaised`), that a cancellation reaches every task that is not
over (`CancelledTogether`), and that a request which is over failed before any link was asked,
reports what a task raised, or has `Assembled` its release from tasks that all ended
(`OverForAReason`). `AssembledKnown` says what such a release is and when it does not fit. The lemmas on `LimiterHolds` count the holders of the semaphore.

Its second part is about any intents, releases and limits of the search:
`RepliesAreFaithful` (`ReplyFaithful`) and `SearchesAskEnough` (`AskedEnough`). The invariant
`SearchInv` says that the two lists name no release twice, neither within one nor across
(`ApartInv`), what has been asked and not found at each stage, and that a reply fits them.
What makes it hold through an answer is `NewKnown`: a release is new if neither list has it,
which is the `seen_candidate_ids` that both lists share. That no release is lost is a matter
of counting: `Merged` and `CoveringFirst` rearrange two parts that have no release in common
(`MergedKnown`, `CoveringFirstKnown`), so a response that is not cut has as many
different releases as were found, and one that is cut has fewer. `QueriesCounted` says
that every plan has an exact query and that only issues are broadened.

`PlansAreSound` (`PlanSound`) is its third part, for any intent whose title, if there is one,
is a list of words. `RepeatsDropped` says what `list(dict.fromkeys(...))` keeps: each query
once, and of two queries the one that first occurs earlier, so the year of the release stays
before the issue alone and that before the year of the series (`IssueQueriesKnown`); the packs
follow the same years (`FallbackQueriesKnown`). Lengths tell the two kinds apart, unless the
number of an issue is a year. For a collection `CollectionQueriesKnown` counts: an added query
that is not sent repeats an earlier one, or its first occurrence is behind five others, which are all
wanted before it. That the titled queries may repeat each other is not excluded, since the code
does not compare them; `TitledRepeats` shows that the title is then `Vol` or `Volume` and
the number, which is what `FiveDifferent` allows.

`LibGenSearchProofs` is about any requests, intents, origins and cache sizes
(`SearchAssumption`). Per request, `Fine` says where it may be, that its origin is one of its
origins, that its session is open exactly while that origin is asked and being closed, and
that its ending fits: `SessionsAreReleased` and `ErrorsComeLast` (`FailoverExhausted`). `NegativesAreEarned`
(`NegativeEarned`) is about two actors: a remembered "no result" outlives the request that
earned it, and it stays true because a lookup leaves only entries that were there
(`OnlyNewNegative`) and only a plan whose queries have all come back empty writes a new one
(`AllEmpty`).

`PlansAreSound` (`PlanSound`) is about what one origin is asked. That a plan repeats nothing,
has no empty query and misses none of the first three is a fact about a loop over variants,
which would be an induction. With `Selected` it is not one: `SubsequenceProofs` shows once,
by the cardinality of the positions up to a place, that `Selected` is a bijection from its
places to the positions and keeps their order (`PlacesKnown`, `SelectedKnown`), and that
leaving out repeats keeps every element at its first occurrence (`FirstOccurs`,
`DistinctKnown`). The argument is then: a variant that is not in the plan is empty, or it
occurs earlier, or its place is after the third; in the last case the three queries kept are
different from each other and come earlier (`AtLeastThree`).

Its last part is about `CatalogPage`, for any pages, layouts, md5s and texts
(`CatalogAssumption`, which says that pages are tables that may be damaged and that `None` is
no text). `DamageStaysLocal` (`DamageIsLocal`) and `DriftNeverAnswers` (`DriftIsNoAnswer`) speak of the end of the
page only; `PageInv` says what the parser has at each tag. There are three things it must
know besides the cells read so far. Where a cell holds a table, the inner `</tr>` ends the outer
row, and everything up to the real `</tr>` is met without a row (`Spilled`); the inner
`</table>` has to find the depth at two, or the rest of the page would be lost (`Depth`).
A row without its `</tr>` and the next one are one row of the parser, so a row of the page is
found where as many rows have ended (`Closed`), which is why positions in `DamageIsLocal`
exist and are increasing (`ClosedKnown`). And no open link, small print or cell survives the
end of a cell or row (`Tidy`, `RowStands`), so that damage in one row is not seen in the next
(`SafeRead`, `SafeKept`). `CellFed` goes through the tags of a cell that may be damaged,
`SafeCell` through those of one that is not. From the rows to the answer it is `DistinctKnown`
once more: `Records` keeps each md5 at its first occurrence (`RecordsKnown`).

`LibGenCatalogProofs` begins with the enricher, for any requests, pages, sources, cache size
and lifetimes (`EnricherAssumption`, which states what the constructors validate, that a page
names no md5 twice, and that a negative lifetime is no longer than a positive one, as with the
lifetimes the code passes). `EvidenceAlwaysMatches` (`EvidenceMatches`) and
`AlwaysTransparent` (`Transparent`) follow from `RequestsStaySound`. Its invariant `Inv` says of
the cache that each entry was made no later than now, fits its key (`EntryFits`), and, if
it was made after the last disturbance, is what the source says (`EntryTrue`); and of a
request the same about what it knows, row by row: `RowsFit`, `FilesFit`, `RelatedFit` and
`FoundFit` for what fits, `Covered` for what must not be lost, `Exact` for what is
true. Neither property is inductive: both speak of the finished list only, which is made of
evidence that was fetched, cached, evicted and looked up by several requests before. That evidence
stays right in the cache is seen from the keys, which hold all the row is compared with
(`FileCached`, `EditionCached`); that stale evidence is gone is a matter of time: a request that
began a lifetime after the last disturbance finds only entries that were made after it,
because older ones have expired (`RequestAges`, `CacheAges`). For `Covered` a negative lifetime
is enough, for a bad answer leaves only "no result" behind. `OneFollows` is the step from a batch
to the rows that follow it one by one, `ListingKnown` the last one, from the dict of
candidates to a list in the order of the page.

Its second part is about the cache with any keys, values, lifetimes and size (`CacheAssumption`):
`CacheKeepsItsPromises` is `CatalogSpec => []CacheFaithful`. The invariant relates the sequence to
its history: entries are ordered by their last use, each is the last write of its key, and a
key that was written and is neither present nor expired has been followed by uses of as
many other keys as the cache has places. The last part is why least recently
used is what goes: the first entry is the oldest use (`FirstIsOldest`), and
`IncreasingClimbs` counts that many later uses behind it. `RemoveAtSkips`,
`NothingSkipped` and `SkippedStay` say what removing one place does to a sequence.

Every inductive invariant was checked by TLC as an invariant of the run of its module
before it was proved (`PageInv`, which is slow to evaluate, on the kinds of row in two halves).

Only model-checked, not proved: the liveness properties (`SlotReturned`, `Answers`,
`Answered`, `ResolveAnswered`, `TasksEnd`), which rest on fairness, and that `AfterGets` and
`AfterSets` are folds (`MCLibGenCatalog`), which would be an induction. Every invariant and every action property
of the runs is a theorem.

## 6. Finding

`search_four_queries`: `README.md:220-221` says that search is bounded to three query
variants. `_search_origin` sends up to three exact queries and then, if none had results,
the title alone, which is a fourth query to the same origin when it differs from the
first three. `tests/unit/test_libgen_service.py` expects that fallback, so the sentence
seems to be older than the code.

## 7. What is not modelled, and why

* Contents: HTML, titles, JSON payloads, cookies, headers. Parsing is one step with the
  outcomes the callers tell apart.
* HTTP responses and connections of the LibGen session: they end with its client.
* The table of runtimes by endpoint, concurrency and mode: one runtime is modelled.
* The mapping of exceptions to status codes, logging and observations.
* Anna's and GetComics health (one page fetch mapped to a status, no state), the value of the
  reported quota, edge builds and commit tags of the release pipeline, the choice of the
  image that is scanned.
* What a single column of a page, a field of a JSON record or of a report may hold, the
  arithmetic of size and tolerance included: values are well-formed or not, equal or not.
* The components of the inventory marked `not_modelled` in `PROJECT.json`, each with its
  reason.

Behaviours that the models contain and that no document settles: a `response.aclose()`
that raises leaves the HTTP client of a source page open (`ClientReleased` says exactly
when). A link whose URL httpx rejects or whose cleanup raises fails the whole GetComics
resolve, with status 500, while the other tasks run on outside the deadline
(`NoStragglers`); so do, without any task left, a control whose URL `urlsplit` rejects
(`_is_source_redirect` has no `try`, `_is_source_url` has one), an id that is not ASCII, and
a release beyond the limits of the contract, although its links are good (`FailureIsLocal`
lists them). After a full rerun of the image
workflow, GHCR's version tag is the new digest while Docker Hub keeps the old one; the run
then fails at its promotion and is never reported (`PublishedIsSigned`). `enrich_many` keeps
the evidence for editions by file, so that two rows of one page that name one file and
different editions both get the evidence found last (`EvidenceMatches` speaks of the
edition for rows of different files only). A scan whose review ends at midnight may pass
the gate and then upload the raw findings.

## 8. Plan

Every component that keeps state is modelled, and what its runs check of safety is proved.
What is left to model: several resolver profiles for one endpoint, and pure operators with
reference definitions, namely version negotiation, size tolerance and source-origin selection.
