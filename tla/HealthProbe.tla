---------------------------- MODULE HealthProbe ----------------------------
(***************************************************************************)
(* LibGenProviderService.source_health (service.py): a task group that     *)
(* probes every known mirror once, each probe under a timeout, each of     *)
(* their sessions closed by a task of its own that is awaited, shielded,   *)
(* for a while and then cancelled and left behind.                         *)
(*                                                                         *)
(* Time is discrete.  A timer fires before time passes its instant: the    *)
(* event loop is assumed not to be blocked (NoTimerOverdue).               *)
(***************************************************************************)
EXTENDS Integers, FiniteSets

CONSTANTS
  Origins,       \* KNOWN_SOURCE_URLS
  ProbeTimeout,  \* _SOURCE_HEALTH_TIMEOUT_SECONDS
  CloseTimeout,  \* _SOURCE_HEALTH_CLOSE_TIMEOUT_SECONDS
  MaxClock       \* bound: the clock stops here

VARIABLES
  clock,        \* the loop's time; the request starts at 0
  request,      \* the task that runs source_health
  cancelledAt,  \* when that task was cancelled, or None
  aborting,     \* the task group has cancelled its children
  pc,           \* where each probe is
  status,       \* the status each probe is going to report
  timer,        \* the end of the timeout each probe waits under
  cancelling,   \* a CancelledError passes through the probe
  close         \* the close task of the probe's session

vars == <<clock, request, cancelledAt, aborting, pc, status, timer, cancelling, close>>
group == <<request, cancelledAt, aborting>>

None == -1

(***************************************************************************)
(* A probe: created -> fetching -> closing -> done, failed or cancelled.   *)
(* A close task: absent, running, then closed or broken (aclose raised);   *)
(* or detached, that is cancelled and held only by                         *)
(* _DETACHED_HEALTH_CLOSE_TASKS, until it ends by itself: released.        *)
(***************************************************************************)
Verdicts == {"healthy", "challenge_required", "rate_limited", "unavailable"}
Over == {"done", "failed", "cancelled"}

AllOver == \A o \in Origins : pc[o] \in Over
SomeFailed == \E o \in Origins : pc[o] = "failed"

Init ==
  /\ clock = 0
  /\ request = "running"
  /\ cancelledAt = None
  /\ aborting = FALSE
  /\ pc = [o \in Origins |-> "created"]
  /\ status = [o \in Origins |-> "none"]
  /\ timer = [o \in Origins |-> None]
  /\ cancelling = [o \in Origins |-> FALSE]
  /\ close = [o \in Origins |-> "absent"]

\* What can run without waiting runs before time passes.
NothingReady ==
  /\ \A o \in Origins :
       /\ pc[o] # "created"
       /\ pc[o] = "closing" => close[o] = "running"
  /\ SomeFailed => aborting
  /\ AllOver => request # "running"

NoTimerOverdue ==
  \A o \in Origins : pc[o] \in {"fetching", "closing"} => clock < timer[o]

Tick ==
  /\ clock < MaxClock
  /\ NothingReady
  /\ NoTimerOverdue
  /\ clock' = clock + 1
  /\ UNCHANGED <<group, pc, status, timer, cancelling, close>>

-----------------------------------------------------------------------------
(* _source_health_probe, with _close_health_session as its finally block.  *)

Start(o) ==
  /\ pc[o] = "created"
  /\ pc' = [pc EXCEPT ![o] = "fetching"]
  /\ timer' = [timer EXCEPT ![o] = clock + ProbeTimeout]
  /\ UNCHANGED <<clock, group, status, cancelling, close>>

EndFetch(o, verdict) ==
  /\ pc[o] = "fetching"
  /\ status' = [status EXCEPT ![o] = verdict]
  /\ pc' = [pc EXCEPT ![o] = "closing"]
  /\ close' = [close EXCEPT ![o] = "running"]
  /\ timer' = [timer EXCEPT ![o] = clock + CloseTimeout]
  /\ UNCHANGED <<clock, group, cancelling>>

Fetched(o) == \E verdict \in Verdicts : EndFetch(o, verdict)

\* Fault: the fetch is not bounded.
FetchUnbounded(o) == FALSE /\ EndFetch(o, "unavailable")

FetchTimesOut(o) == clock >= timer[o] /\ EndFetch(o, "unavailable")

EndProbe(o, outcome) ==
  /\ pc[o] = "closing"
  /\ pc' = [pc EXCEPT ![o] = outcome]
  /\ UNCHANGED <<clock, group, timer, cancelling>>

\* The awaited close task has ended; what it raised replaces a cancellation.
Closed(o) ==
  /\ close[o] \in {"closed", "broken"}
  /\ EndProbe(o, IF close[o] = "broken" THEN "failed"
                 ELSE IF cancelling[o] THEN "cancelled" ELSE "done")
  /\ UNCHANGED <<status, close>>

\* Faults: the close task is left running; the verdict outlives it.
LeavesCloseRunning(o) ==
  /\ close[o] = "running"
  /\ clock >= timer[o]
  /\ EndProbe(o, IF cancelling[o] THEN "cancelled" ELSE "done")
  /\ status' = [status EXCEPT ![o] = "unavailable"]
  /\ UNCHANGED close
KeepsVerdict(o) ==
  /\ close[o] = "running"
  /\ clock >= timer[o]
  /\ EndProbe(o, IF cancelling[o] THEN "cancelled" ELSE "done")
  /\ close' = [close EXCEPT ![o] = "detached"]
  /\ UNCHANGED status

\* _cancel_health_close_task, from either of the two waits.
CloseTimesOut(o) ==
  /\ close[o] = "running"
  /\ clock >= timer[o]
  /\ EndProbe(o, IF cancelling[o] THEN "cancelled" ELSE "done")
  /\ close' = [close EXCEPT ![o] = "detached"]
  /\ status' = [status EXCEPT ![o] = "unavailable"]

\* session.aclose() returns or raises, in its own task and its own time.
CloseEnds(o) ==
  /\ \/ /\ close[o] = "running"
        /\ \E end \in {"closed", "broken"} : close' = [close EXCEPT ![o] = end]
     \/ /\ close[o] = "detached"
        /\ close' = [close EXCEPT ![o] = "released"]
  /\ UNCHANGED <<clock, group, pc, status, timer, cancelling>>

-----------------------------------------------------------------------------
(* The task group of source_health, which cancels its children only once.  *)

Stopped == [o \in Origins |->
  CASE pc[o] = "created" -> "cancelled"
    [] pc[o] = "fetching" -> "closing"
    [] OTHER -> pc[o]]

Interrupted == [o \in Origins |-> pc[o] \in {"fetching", "closing"}]

SessionsClosing == [o \in Origins |-> IF pc[o] = "fetching" THEN "running" ELSE close[o]]

\* Fault: a close that is cancelled starts its budget again.
AbortRestartsClose ==
  /\ ~aborting
  /\ aborting' = TRUE
  /\ pc' = Stopped
  /\ close' = SessionsClosing
  /\ timer' = [o \in Origins |-> IF Interrupted[o] THEN clock + CloseTimeout ELSE timer[o]]
  /\ cancelling' = Interrupted

\* A probe that has not started never opens a session; one that fetches
\* goes on to close it; one that closes waits on, until the same instant.
Abort ==
  /\ ~aborting
  /\ aborting' = TRUE
  /\ pc' = Stopped
  /\ close' = SessionsClosing
  /\ timer' = [o \in Origins |->
                 IF pc[o] = "fetching" THEN clock + CloseTimeout ELSE timer[o]]
  /\ cancelling' = Interrupted

\* The request's task is cancelled; a group that is aborting ignores it.
CancelRequest ==
  /\ request = "running"
  /\ cancelledAt = None
  /\ cancelledAt' = clock
  /\ Abort \/ (aborting /\ UNCHANGED <<aborting, pc, timer, cancelling, close>>)
  /\ UNCHANGED <<clock, request, status>>

AbortOnFailure ==
  /\ SomeFailed
  /\ Abort
  /\ UNCHANGED <<clock, request, cancelledAt, status>>

Finish ==
  /\ request = "running"
  /\ AllOver
  /\ request' = IF SomeFailed THEN "failed"
                ELSE IF cancelledAt # None THEN "cancelled" ELSE "returned"
  /\ UNCHANGED <<clock, cancelledAt, aborting, pc, status, timer, cancelling, close>>

Probe(o) ==
  Start(o) \/ Fetched(o) \/ FetchTimesOut(o) \/ Closed(o) \/ CloseTimesOut(o) \/ CloseEnds(o)

Next ==
  \/ Tick \/ CancelRequest \/ AbortOnFailure \/ Finish
  \/ \E o \in Origins : Probe(o)

Spec == Init /\ [][Next]_vars

(***************************************************************************)
(* Time passes, timers fire, and a task that can run does.  No mirror need *)
(* ever answer, and no session need ever close, cancelled or not.          *)
(***************************************************************************)
Fairness ==
  /\ WF_vars(Tick)
  /\ WF_vars(AbortOnFailure)
  /\ WF_vars(Finish)
  /\ \A o \in Origins :
       /\ WF_vars(Start(o))
       /\ WF_vars(FetchTimesOut(o))
       /\ WF_vars(Closed(o))
       /\ WF_vars(CloseTimesOut(o))

-----------------------------------------------------------------------------

(* The health answer takes at most one probe timeout and one close         *)
(* timeout, however many mirrors and sessions hang; a cancelled request    *)
(* ends within one close timeout of its cancellation.                      *)
Prompt ==
  request = "running" =>
    /\ clock <= ProbeTimeout + CloseTimeout
    /\ cancelledAt # None => clock <= cancelledAt + CloseTimeout

(* Whatever way the request ends, every session that was opened has been   *)
(* closed, or its close task was cancelled and handed to the set that      *)
(* keeps it: none is left running with nobody to collect its result.  And  *)
(* an answer reports every mirror, was not asked to stop, and calls        *)
(* healthy only mirrors that also let go of their session in time.         *)
HonestAnswer ==
  /\ request # "running" =>
       \A o \in Origins : pc[o] \in Over /\ close[o] # "running"
  /\ request = "returned" =>
       /\ cancelledAt = None
       /\ \A o \in Origins :
            /\ pc[o] = "done"
            /\ status[o] \in Verdicts
            /\ close[o] \in {"detached", "released"} => status[o] = "unavailable"

(* The request ends although mirrors may never answer, sessions never      *)
(* close and cancelled close tasks never stop.                             *)
Answers == request = "running" ~> request # "running"
=============================================================================
