---------------------------- MODULE AnnasResolve ----------------------------
(***************************************************************************)
(* POST /v1/resolve of the Anna's Archive provider (service.py, app.py):   *)
(* the member API is asked for a download link on four servers in turn.    *)
(* The first answer decides whether there is an artifact at all; the       *)
(* others may only add mirrors, and one of them may end the asking.        *)
(*                                                                         *)
(* The service keeps no state, so that one request stands for all.  Every  *)
(* ask has a client of its own, and the deadline may cancel the request at *)
(* each wait: for the API, for the response and for the client to close.   *)
(***************************************************************************)
EXTENDS Subsequences

CONSTANTS
  Hosts,     \* the origins of safe download links
  Budgets,   \* time the request may have left when it arrives
  MaxClock   \* bound: the clock stops here

NoLink == "no link"  \* download_url is missing or fails _safe_download_origin
NoTurn == 0

\* An answer of the API: its status, what payload["error"] says, its link.
Answers ==
  [status : {"ok", "auth", "quota", "other"}, error : {"none", "quota", "missing"},
   host : Hosts \union {NoLink}]
NoAnswer == [status |-> "none", error |-> "none", host |-> NoLink]

VARIABLES
  clock,
  pc,        \* what the request's task waits for
  deadline,
  expired,   \* the deadline has cancelled the task
  turn,      \* which server is asked, from 1
  client,    \* the HTTP client of this turn
  ending,    \* how this turn ends: answered, failed, cancelled or broken
  answer,    \* the answer of this turn
  payloads,  \* indexed_payloads: the answers that are kept
  result,
  refused    \* history: the turn in which the quota was used up, or NoTurn

vars == <<clock, pc, deadline, expired, turn, client, ending, answer, payloads, result, refused>>
request == <<deadline, expired, turn, payloads, result>>

DomainIndices == <<0, 2, 4, 6>>

Init ==
  /\ clock = 0
  /\ pc = "idle"
  /\ deadline = 0
  /\ expired = FALSE
  /\ turn = 0
  /\ client = "none"
  /\ ending = "none"
  /\ answer = NoAnswer
  /\ payloads = <<>>
  /\ result = "none"
  /\ refused = NoTurn

-----------------------------------------------------------------------------
(* What an answer means.                                                   *)

QuotaRefused(a) == a.status = "quota" \/ a.error = "quota"

\* _raise_primary_fast_download_error, in the order of its tests.
PrimaryError(a) ==
  CASE a.status = "auth" -> "authentication"
    [] a.status # "auth" /\ QuotaRefused(a) -> "quota"
    [] a.status # "auth" /\ ~QuotaRefused(a) /\ a.error = "missing" -> "candidate"
    [] a.status = "other" /\ a.error = "none" -> "unavailable"
    [] OTHER -> "none"

\* Fault: a later server replaces the mirror of an earlier one.
LatestMirrors(kept) ==
  Selected(kept, {i \in DOMAIN kept :
                    /\ kept[i].host # NoLink
                    /\ \A j \in DOMAIN kept : kept[j].host = kept[i].host => j <= i})

\* _secure_fast_download_mirrors: safe links, the first of each host.
Mirrors(kept) ==
  LET hosts == [i \in DOMAIN kept |-> kept[i].host] IN
    Selected(kept, NewFirsts(hosts, {NoLink}))

-----------------------------------------------------------------------------
(* The request between two waits.                                          *)

Over(outcome) ==
  /\ pc' = "over"
  /\ result' = outcome
  /\ UNCHANGED <<turn, payloads>>

\* A fresh client, and a request to the next server.
Ask(next, kept) ==
  /\ pc' = "sending"
  /\ turn' = next
  /\ client' = "open"
  /\ ending' = "none"
  /\ payloads' = kept
  /\ UNCHANGED result

Settle(kept) ==
  /\ pc' = "over"
  /\ result' = IF Mirrors(kept) = <<>> THEN "malformed" ELSE "artifact"
  /\ payloads' = kept
  /\ client' = "closed"
  /\ UNCHANGED <<turn, ending>>

Continue(kept) == IF turn < Len(DomainIndices) THEN Ask(turn + 1, kept) ELSE Settle(kept)

Raise(outcome) == Over(outcome) /\ client' = "closed" /\ UNCHANGED ending

Kept == Append(payloads, [server |-> DomainIndices[turn], host |-> answer.host])

\* Fault: the failure of an alternate is final.
AlternateFailureRaises == Raise("unavailable")

\* The turn failed: final for the first server, passed over for the others.
TurnFailed == IF turn = 1 THEN Raise("unavailable") ELSE Continue(payloads)

AlternateAnswered ==
  IF QuotaRefused(answer) THEN Settle(payloads)
  ELSE Continue(IF answer.status = "ok" THEN Kept ELSE payloads)

TurnAnswered ==
  IF turn > 1 THEN AlternateAnswered
  ELSE IF PrimaryError(answer) = "none" THEN Continue(Kept)
  ELSE Raise(PrimaryError(answer))

-----------------------------------------------------------------------------
(* The actions: resolve and _fetch_fast_download.                          *)

\* Before the first ask: the deadline, the domain, the id, the member key.
Begin(budget) ==
  /\ pc = "idle"
  /\ clock + budget <= MaxClock
  /\ deadline' = clock + budget
  /\ IF budget = 0
       THEN Over("deadline") /\ UNCHANGED <<client, ending>>
       ELSE \/ Ask(1, <<>>)
            \/ /\ \E outcome \in {"domain", "candidate", "authentication"} : Over(outcome)
               /\ UNCHANGED <<client, ending>>
  /\ UNCHANGED <<clock, expired, answer, refused>>

\* The API cannot be reached: there is no response to close.
ApiUnreachable ==
  /\ pc = "sending"
  /\ pc' = "leaving"
  /\ ending' = "failed"
  /\ UNCHANGED <<clock, request, client, answer, refused>>

ResponseStarts ==
  /\ pc = "sending"
  /\ pc' = "reading"
  /\ UNCHANGED <<clock, request, client, ending, answer, refused>>

\* The body breaks off, is too large or is no JSON object.
BodyMalformed ==
  /\ pc = "reading"
  /\ pc' = "closing"
  /\ ending' = "failed"
  /\ UNCHANGED <<clock, request, client, answer, refused>>

BodyRead ==
  /\ pc = "reading"
  /\ pc' = "closing"
  /\ ending' = "answered"
  /\ \E a \in Answers :
       /\ answer' = a
       /\ refused' = IF QuotaRefused(a) /\ turn > 1 THEN turn ELSE refused
  /\ UNCHANGED <<clock, request, client>>

\* response.aclose(); what it raises is no ProtocolError.
ResponseCloses ==
  /\ pc = "closing"
  /\ pc' = "leaving"
  /\ \E end \in {ending, "broken"} : ending' = end
  /\ UNCHANGED <<clock, request, client, answer, refused>>

\* The client is closed, and the turn is over.
ClientCloses ==
  /\ pc = "leaving"
  /\ CASE ending = "cancelled" -> Raise("deadline")
       [] ending = "broken" -> Raise("internal")
       [] ending = "failed" -> TurnFailed
       [] ending = "answered" -> TurnAnswered
  /\ answer' = NoAnswer
  /\ UNCHANGED <<clock, deadline, expired, refused>>

\* The deadline cancels the task once.  The response is still closed if it
\* was not being closed already, and then the client likewise.
Expire ==
  /\ clock >= deadline
  /\ ~expired
  /\ expired' = TRUE
  /\ \/ /\ pc \in {"sending", "reading", "closing"}
        /\ pc' = IF pc = "reading" THEN "closing" ELSE "leaving"
        /\ ending' = "cancelled"
        /\ UNCHANGED <<turn, client, payloads, result>>
     \/ /\ pc = "leaving"
        /\ client' = "interrupted"
        /\ Over("deadline")
        /\ UNCHANGED ending
  /\ UNCHANGED <<clock, deadline, answer, refused>>

Waiting == pc \in {"sending", "reading", "closing", "leaving"}

Tick ==
  /\ clock < MaxClock
  /\ Waiting /\ ~expired => clock < deadline
  /\ clock' = clock + 1
  /\ UNCHANGED <<pc, request, client, ending, answer, refused>>

Next ==
  \/ Tick
  \/ \E budget \in Budgets : Begin(budget)
  \/ ApiUnreachable \/ ResponseStarts \/ BodyMalformed \/ BodyRead
  \/ ResponseCloses \/ ClientCloses \/ Expire

Spec == Init /\ [][Next]_vars

-----------------------------------------------------------------------------

\* An artifact has a mirror for every host that granted a safe link, one each, that
\* of the first server to name the host, in server order; and there is no artifact
\* without a mirror.
MirrorsExact ==
  result = "artifact" =>
    LET mirrors == Mirrors(payloads) IN
      /\ mirrors # <<>>
      /\ {mirrors[i].host : i \in DOMAIN mirrors}
           = {payloads[i].host : i \in DOMAIN payloads} \ {NoLink}
      /\ \A i, j \in DOMAIN mirrors : i < j =>
           mirrors[i].server < mirrors[j].server /\ mirrors[i].host # mirrors[j].host
      /\ \A i \in DOMAIN mirrors, j \in DOMAIN payloads :
           payloads[j].host = mirrors[i].host => mirrors[i].server <= payloads[j].server

(* Once the first server has granted a safe link, no failure, refusal or   *)
(* odd answer of the other three can lose it: the request ends with an     *)
(* artifact that lists this link first, unless its deadline passes or the  *)
(* closing of a response raises.  An account without quota is not asked    *)
(* on: the turn in which an alternate reported it is the last one.  And    *)
(* what the others granted is listed behind it, each host once.            *)
PrimaryKept ==
  /\ pc = "over" /\ payloads # <<>> /\ payloads[1].host # NoLink =>
       \/ result = "artifact" /\ Mirrors(payloads)[1] = payloads[1]
       \/ result = "deadline" /\ expired
       \/ result = "internal" /\ ending = "broken"
  /\ refused # NoTurn => turn = refused
  /\ MirrorsExact
=============================================================================
