---------------------------- MODULE AnnasArchive ----------------------------
(***************************************************************************)
(* The Anna's Archive provider (service.py, app.py): what is followed is a *)
(* search, a resolve or, from closer by, the concurrent fetches of pages   *)
(* that searches ask for.  Searches and resolves share no state, so that   *)
(* one of each stands for all; fetches share the resolver's gate.          *)
(***************************************************************************)
EXTENDS SourcePage

CONSTANTS
  Hosts,         \* the origins of safe download links
  Budgets,       \* time a resolve may have left when it arrives
  ResolveClock,  \* bound: the clock of a resolve stops here
  Md5s,          \* identities of files
  PageLimit,     \* the limit of a search request
  MaxCatalog     \* bound: candidates in an answer of a source

ASSUME ArchiveAssumption ==
  /\ Budgets \subseteq Nat
  /\ ResolveClock \in Nat
  /\ IsFiniteSet(Md5s)
  /\ PageLimit \in Nat \ {0}
  /\ MaxCatalog \in Nat

VARIABLES
  followed,   \* "pages", "search" or "resolve"
  clock, pc, deadline, expired, turn, client, ending, answer, payloads, result, refused,
  searching,  \* pc of a search
  primary, fallback, catalog, reply

Resolve == INSTANCE AnnasResolve WITH MaxClock <- ResolveClock
Search == INSTANCE AnnasSearch WITH pc <- searching

resolveVars ==
  <<clock, pc, deadline, expired, turn, client, ending, answer, payloads, result, refused>>
searchVars == <<searching, primary, fallback, catalog, reply>>

ServiceInit ==
  /\ followed \in {"pages", "search", "resolve"}
  /\ Init
  /\ Resolve!Init
  /\ Search!Init

PageStep == followed = "pages" /\ Next /\ UNCHANGED <<followed, resolveVars, searchVars>>
ResolveStep ==
  followed = "resolve" /\ Resolve!Next /\ UNCHANGED <<followed, vars, searchVars>>
SearchStep ==
  followed = "search" /\ Search!Next /\ UNCHANGED <<followed, vars, resolveVars>>

ServiceNext == PageStep \/ ResolveStep \/ SearchStep

ServiceSpec ==
  ServiceInit /\ [][ServiceNext]_<<followed, vars, resolveVars, searchVars>>

-----------------------------------------------------------------------------

(* Of a resolve: a granted link is not lost, a used-up quota is respected, *)
(* and mirrors are exact, see AnnasResolve.                                *)
PrimaryKept == Resolve!PrimaryKept

(* Of a search: "nothing found" is what a source has said, and a failure   *)
(* of the page is reported unless the catalogue answered.                  *)
FailureSurfaces == Search!FailureSurfaces

(* Of a search: the catalogue's answer is listed faithfully, see           *)
(* AnnasSearch.                                                            *)
CatalogFaithful == Search!CatalogFaithful
=============================================================================
