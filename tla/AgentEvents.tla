----------------------------- MODULE AgentEvents -----------------------------
(***************************************************************************)
(* The events of one agent run: who appends them, the stream that sends    *)
(* them to a browser, and what the browser shows of the run.               *)
(*                                                                         *)
(* An event gets the number after the greatest one in a transaction of its *)
(* own; the unique constraint on (run_id, sequence) refuses the second of  *)
(* two that computed the same number.  The stream polls the table for      *)
(* numbers above its cursor.                                               *)
(***************************************************************************)
EXTENDS Integers, FiniteSetsExt

CONSTANTS
  None,        \* no value
  MaxDrops,    \* bound: connections that break
  MaxRefreshes \* bound: refreshes of a browser that are told apart while they wait

ASSUME RefreshesAssumption == MaxRefreshes \in Nat \ {0}

VARIABLES
  status,  \* agent_runs.status
  events,  \* agent_events: with each number the outcome its event announces, or "step"
  number,  \* the number each writer has computed and not yet inserted, or 0
  stream,  \* the request of the browser: its step, its cursor, what is on the wire
  browser, \* its connection, the numbers it received, the status it shows
  drops    \* connections that broke

eventVars == <<status, events, number, stream, browser, drops>>

Writers == {"engine", "route"}
Outcomes == {"awaiting_review", "completed", "failed", "cancelled"}
ActiveStatuses == {"running"} \* of a run that executes

Greatest(numbers) == Max(numbers \cup {0})

\* A browser has opened the run and shows it running; watched: it has a connection.
EventsInit(watched) ==
  /\ status = "running"
  /\ events = [n \in {1} |-> "step"]  \* claim_run's event
  /\ number = [w \in Writers |-> 0]
  /\ stream = [at |-> "closed", cursor |-> 0, wire |-> {}]
  /\ browser = [link |-> IF watched THEN "opening" ELSE "closed",
                seen |-> {}, shows |-> "running", asked |-> 0]
  /\ drops = 0

-----------------------------------------------------------------------------
(* append_agent_event.                                                     *)

\* Seeded defect: numbers are drawn from a counter and committed in any order.
NumberFromCounter(w) ==
  /\ number[w] = 0
  /\ number' = [number EXCEPT ![w] =
       Greatest(DOMAIN events \cup {number[v] : v \in Writers}) + 1]

NumberEvent(w) ==
  /\ number[w] = 0
  /\ number' = [number EXCEPT ![w] = Greatest(DOMAIN events) + 1]

\* Committed; the publication on Redis that follows may fail, see who appends.
InsertEvent(w, kind) ==
  /\ number[w] # 0 /\ number[w] \notin DOMAIN events
  /\ events' = [n \in DOMAIN events \cup {number[w]} |->
                  IF n = number[w] THEN kind ELSE events[n]]
  /\ number' = [number EXCEPT ![w] = 0]

\* The unique constraint.
InsertFails(w) ==
  /\ number[w] \in DOMAIN events
  /\ number' = [number EXCEPT ![w] = 0]

-----------------------------------------------------------------------------
(* stream_agent_events, one transaction per step.                          *)

OfStream == UNCHANGED <<status, events, number, drops>>

\* The request authenticates, which waits for the session row: see Answer.
Subscribe ==
  /\ browser.link = "opening" /\ stream.at = "closed"
  /\ browser' = [browser EXCEPT !.link = "open"]
  /\ stream' = [at |-> "rows", cursor |-> Greatest(browser.seen), wire |-> {}]
  /\ OfStream

ReadRows ==
  /\ stream.at = "rows" /\ browser.link = "open"
  /\ LET rows == {n \in DOMAIN events : n > stream.cursor} IN
     stream' = [at |-> "status", cursor |-> Max(rows \cup {stream.cursor}),
                wire |-> stream.wire \cup rows]
  /\ UNCHANGED browser /\ OfStream

\* Seeded defect: a run that awaits review is not finished for the stream.
ReadStatusUntilTerminal ==
  /\ stream.at = "status"
  /\ stream' = [stream EXCEPT !.at =
       IF status \in Outcomes \ {"awaiting_review"} THEN "ended" ELSE "wait"]
  /\ UNCHANGED browser /\ OfStream

ReadStatus ==
  /\ stream.at = "status"
  /\ stream' = [stream EXCEPT !.at = IF status \in Outcomes THEN "ended" ELSE "wait"]
  /\ UNCHANGED browser /\ OfStream

\* A message of Redis or 15 seconds.
WakeUp ==
  /\ stream.at = "wait" /\ browser.link = "open"
  /\ stream' = [stream EXCEPT !.at = "rows"]
  /\ UNCHANGED browser /\ OfStream

\* The response is complete, or the server has noticed that the browser is gone;
\* only then does get_db end the transaction of the request.
CloseStream ==
  /\ stream.at # "closed"
  /\ (stream.at = "ended" /\ stream.wire = {}) \/ browser.link # "open"
  /\ stream' = [stream EXCEPT !.at = "closed", !.wire = {}]
  /\ browser' = [browser EXCEPT !.link = IF @ = "open" THEN "closed" ELSE @]
  /\ OfStream

-----------------------------------------------------------------------------
(* The browser: openStream, refreshCurrent and cancelCurrent of the store. *)

\* Seeded defect: the run is not fetched again.
ReceiveOnly ==
  /\ browser.link = "open" /\ stream.wire # {}
  /\ LET n == Min(stream.wire) IN
     /\ stream' = [stream EXCEPT !.wire = @ \ {n}]
     /\ browser' = [browser EXCEPT !.seen = @ \cup {n}]
  /\ OfStream

\* An event arrives, and the run is fetched again.
Receive ==
  /\ browser.link = "open" /\ stream.wire # {}
  /\ LET n == Min(stream.wire) IN
     /\ stream' = [stream EXCEPT !.wire = @ \ {n}]
     /\ browser' = [browser EXCEPT !.seen = @ \cup {n},
                                     !.asked = Min({@ + 1, MaxRefreshes})]
  /\ OfStream

\* Each authenticated request of a browser updates its session row and keeps it
\* locked until its response is sent, so a refresh is answered after the stream.
Answer ==
  /\ browser.asked > 0 /\ stream.at = "closed"
  /\ browser' = [browser EXCEPT !.shows = status, !.asked = @ - 1]
  /\ UNCHANGED stream /\ OfStream

\* The connection breaks; the store opens another if the run it shows is active,
\* and does not if the stream ended without an error.
Drop ==
  /\ browser.link = "open" /\ drops < MaxDrops
  /\ browser' = [browser EXCEPT !.link = IF browser.shows \in ActiveStatuses
                                         THEN "opening" ELSE "closed"]
  /\ stream' = [stream EXCEPT !.wire = {}]
  /\ drops' = drops + 1
  /\ UNCHANGED <<status, events, number>>

StreamStep == Subscribe \/ ReadRows \/ ReadStatus \/ WakeUp \/ CloseStream
BrowserStep == Receive \/ Answer

-----------------------------------------------------------------------------
(* Properties.                                                             *)

EventsTypeOK ==
  /\ status \in {"running"} \cup Outcomes
  /\ DOMAIN events = 1..Greatest(DOMAIN events)
  /\ number \in [Writers -> Nat]
  /\ stream.cursor \in Nat /\ stream.wire \subseteq DOMAIN events
  /\ browser.seen \subseteq DOMAIN events

\* A browser that has received an event has received all that were appended
\* before it, however the writers of events interleave and the connection breaks
\* (append_agent_event, stream_agent_events, Last-Event-ID).
NoEventIsSkipped ==
  \A n \in browser.seen : 1..n \subseteq browser.seen

\* A browser that has received the event of an outcome and waits for no refresh shows
\* an outcome, and the one its event announced while the run still has it: the status
\* is committed before its event is appended.  A run whose outcome is overwritten
\* later, by a failed append or a late cancellation, ends with a browser that has not
\* been told (agent_engine.py:300, 1295-1316, agent.py:264-284).
OutcomeIsShown ==
  \A n \in browser.seen :
    events[n] \in Outcomes /\ browser.asked = 0
      => /\ browser.shows \in Outcomes
         /\ status = events[n] => browser.shows = status

\* The stream of a run that has an outcome ends.
StreamsEnd == (status \in Outcomes) ~> (stream.at = "closed")
=============================================================================
