------------------------------- MODULE LibGen -------------------------------
(***************************************************************************)
(* The LibGen provider as Pullbox sees it (app.py), apart from its search: *)
(* it resolves, and it is asked for its health.  A health check opens      *)
(* sessions of its own and never asks the resolver, so that it shares      *)
(* nothing with requests that resolve: one kind at a time stands for both. *)
(***************************************************************************)
EXTENDS LibGenResolve

CONSTANTS
  ProbeTimeout,  \* _SOURCE_HEALTH_TIMEOUT_SECONDS
  CloseTimeout,  \* _SOURCE_HEALTH_CLOSE_TIMEOUT_SECONDS
  HealthClock    \* bound: the clock of a health check stops here

ASSUME HealthAssumption ==
  /\ IsFiniteSet(Known)
  /\ Known # {}
  /\ ProbeTimeout \in Nat \ {0}
  /\ CloseTimeout \in Nat \ {0}
  /\ HealthClock \in Nat

VARIABLES
  endpoint,   \* where requests are posted
  clock, request, cancelledAt, aborting, pc, status, timer, cancelling, close

Health == INSTANCE HealthProbe WITH Origins <- Known, MaxClock <- HealthClock

healthVars == <<clock, request, cancelledAt, aborting, pc, status, timer, cancelling, close>>

ServiceInit ==
  /\ endpoint \in {"resolve", "health"}
  /\ Init
  /\ Health!Init

ResolveStep == endpoint = "resolve" /\ Next /\ UNCHANGED <<endpoint, healthVars>>
HealthStep == endpoint = "health" /\ Health!Next /\ UNCHANGED <<endpoint, vars>>

ServiceNext == ResolveStep \/ HealthStep

ServiceFairness ==
  \/ endpoint = "resolve" /\ Fairness
  \/ endpoint = "health" /\ Health!Fairness

ServiceSpec ==
  ServiceInit /\ [][ServiceNext]_<<endpoint, vars, healthVars>> /\ ServiceFairness

-----------------------------------------------------------------------------

(* Of a health check: the answer takes at most one probe timeout and one   *)
(* close timeout, and one close timeout once it is cancelled, see          *)
(* HealthProbe.                                                            *)
Prompt == Health!Prompt

(* Of a health check: the answer is honest and no session is left behind   *)
(* with nobody to collect it, see HealthProbe.                             *)
HonestAnswer == Health!HonestAnswer

(* Of a health check: it ends although mirrors may never answer, sessions  *)
(* never close and cancelled close tasks never stop.                       *)
Answers == endpoint = "health" /\ request = "running" ~> request # "running"
=============================================================================
