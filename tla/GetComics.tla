----------------------------- MODULE GetComics -----------------------------
(***************************************************************************)
(* The GetComics provider as Pullbox sees it (app.py): a request is a      *)
(* search or a resolve.  Requests share no state, so that one of each kind *)
(* stands for all.                                                         *)
(***************************************************************************)
EXTENDS GetComicsResolve, Sequences

CONSTANTS
  Absent,
  Intents,     \* intents that are searched for
  Ids,         \* identities of releases
  PageLimit,   \* the limit of a search request
  MaxPage      \* bound: candidates on a page

ASSUME SearchAssumption ==
  /\ IsFiniteSet(Ids)
  /\ PageLimit \in Nat \ {0}
  /\ MaxPage \in Nat
  \* The title of an intent is a list of words.
  /\ \A i \in Intents :
       i.title = Absent \/ i.title \in Seq({i.title[k] : k \in DOMAIN i.title})

VARIABLES
  endpoint,   \* where the request was posted
  searching,  \* pc of a search
  intent, asked, exact, packs, reply

Search == INSTANCE GetComicsSearch WITH pc <- searching

searchVars == <<searching, intent, asked, exact, packs, reply>>

\* A resolve has no intent: any will do.
ServiceInit ==
  /\ Init
  /\ Search!Init
  /\ \/ endpoint = "search"
     \/ endpoint = "resolve" /\ intent = CHOOSE i \in Intents : TRUE

ResolveStep == endpoint = "resolve" /\ Next /\ UNCHANGED <<endpoint, searchVars>>
SearchStep == endpoint = "search" /\ Search!Next /\ UNCHANGED <<endpoint, vars>>

ServiceNext == ResolveStep \/ SearchStep

ServiceSpec == ServiceInit /\ [][ServiceNext]_<<endpoint, vars, searchVars>> /\ Fairness

-----------------------------------------------------------------------------

(* Of a search: what is found is reported in full and in order, and        *)
(* nothing is reported when a query failed, see GetComicsSearch.           *)
ReplyFaithful == Search!ReplyFaithful

(* Of a search: one that does not cover what it was asked for has asked    *)
(* all it could, see GetComicsSearch.                                      *)
AskedEnough == Search!AskedEnough

(* Of a search: the queries are few, different and in the order of the     *)
(* years, see GetComicsSearch.                                             *)
PlanSound == Search!PlanSound
=============================================================================
