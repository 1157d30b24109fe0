-------------------------- MODULE AgentEngineProofs --------------------------
(***************************************************************************)
(* Theorems about AgentEngine and AgentEvents, for any runs, files,        *)
(* records and plans: type correctness, that no browser misses an event    *)
(* or an outcome, and that a run under review shows its workspace, in      *)
(* which every unit of its blueprint was written.                          *)
(***************************************************************************)
EXTENDS AgentEngine, Numbers, FiniteSetTheorems, TLAPS

-----------------------------------------------------------------------------
(* The inductive invariants.                                               *)

StreamPoints == {"closed", "rows", "status", "wait", "ended"}

\* n events are appended and the browser has received the first m of them; what is
\* on the wire follows what was received, up to the cursor of the stream.
EventsAre(n, m) ==
  /\ m <= n /\ DOMAIN events = 1..n
  /\ number \in [Writers -> 0..(n + 1)]
  /\ stream \in [at : StreamPoints, cursor : 0..n, wire : SUBSET (1..n)]
  /\ browser \in [link : {"closed", "opening", "open"}, seen : {1..m},
                  shows : {"running"} \cup Outcomes, asked : Nat]
  /\ browser.link = "open" =>
       /\ stream.at # "closed" /\ m <= stream.cursor
       /\ stream.wire = (m + 1)..stream.cursor

EventsInv == \E n, m \in Nat : EventsAre(n, m)

\* The event of an outcome is the last thing of the engine, unless its append raises an
\* error and a failure follows; no status returns after another, so a browser that has
\* received the event of the present one was refreshed after it.
OutcomeEvent(n) ==
  /\ pc \in {"failed", "end"}
  /\ events[n] = "failed" => pc = "end"
  /\ events[n] = "cancelled" => route # "idle"

Informed(n) ==
  browser.asked = 0 =>
    /\ browser.shows \in Outcomes
    /\ status = events[n] => browser.shows = status

OutcomeInv ==
  /\ pc \in Outcomes \cup {"end"} => status \in Outcomes
  /\ pc = "end" => ~announcing
  /\ pc = "cancelled" => route # "idle"
  /\ \A n \in DOMAIN events : events[n] \in Outcomes => OutcomeEvent(n)
  /\ \A n \in browser.seen : events[n] \in Outcomes => Informed(n)

\* Once the audit has begun the changes are those of the workspace.
ReviewInv ==
  /\ UnderReview => case.mode = "write" /\ pc \in {"awaiting_review", "end"}
  /\ case.mode = "write" /\ (pc \in {"audit", "settle"} \/ UnderReview) =>
       moved \/ changes = [files |-> FileChanges, knowledge |-> ops]

Executed == pc \in {"audit", "correct", "settle"} \/ UnderReview
Executing == pc = "step" \/ Executed

PlannedStep ==
  {s \in [tool : ReadTools \cup WriteTools, role : PlanningRoles \cup {"reviser"},
          units : SUBSET Units, output : Files \cup {None}] :
     /\ s.role \in ToolRoles(s.tool)
     /\ s.tool \in FileTools <=> s.output # None}

\* What step i has written is in the workspace until a later step has touched the file.
Written(i) ==
  \/ work[plan[i].output] = Text("run", loop, i)
  \/ \E j \in (i + 1)..done : plan[j].output = plan[i].output

PlanInv ==
  /\ plan \in Seq(PlannedStep) /\ done \in 0..Len(plan)
  /\ DOMAIN work = Files /\ DOMAIN project = Files
  /\ pc \in {"context", "blueprint", "plan"} => done = 0
  /\ Executing => ValidPlan(plan)
  /\ Executed => done = Len(plan)
  /\ \A i \in 1..done : plan[i].tool = "write_file" => Written(i)

\* What else the types rest on.
DataInv ==
  /\ case \in Cases
  /\ pc \in Asking \cup Outcomes \cup {"context", "correct", "settle", "end"}
  /\ announcing \in BOOLEAN
  /\ loop \in 0..MaxCorrections
  /\ pc = "correct" => loop < MaxCorrections
  /\ records \subseteq Records /\ context \subseteq case.base
  /\ {c.path : c \in changes.files} \subseteq Files
  /\ status \in {"running"} \cup Outcomes

-----------------------------------------------------------------------------
(* The numbers of events.                                                  *)

\* The greatest number of an interval, or of one that adds to a cursor.
LEMMA GreatestNumber ==
  ASSUME NEW n \in Nat
  PROVE  /\ Greatest(1..n) = n
         /\ \A c \in 0..n : Max({k \in 1..n : k > c} \cup {c}) = n
<1>1. ASSUME NEW S, n \in S, \A y \in S : y \in 0..n
      PROVE  Max(S) = n
  <2>1. n \in S /\ \A y \in S : n >= y
    BY <1>1
  <2>2. Max(S) \in S /\ \A y \in S : Max(S) >= y
    BY <2>1 DEF Max
  <2> DEFINE max == Max(S)
  <2>3. max \in S /\ \A y \in S : max >= y
    BY <2>2
  <2> HIDE DEF max
  <2>4. max \in 0..n /\ max >= n
    BY <1>1, <2>3
  <2>5. max = n
    BY <2>4
  <2> QED BY <2>5 DEF max
<1>2. Greatest(1..n) = n
  <2>1. n \in (1..n) \cup {0} /\ \A y \in (1..n) \cup {0} : y \in 0..n
    OBVIOUS
  <2> QED BY <1>1, <2>1 DEF Greatest
<1>3. ASSUME NEW c \in 0..n
      PROVE  Max({k \in 1..n : k > c} \cup {c}) = n
  <2> DEFINE S == {k \in 1..n : k > c} \cup {c}
  <2>1. n \in S /\ \A y \in S : y \in 0..n
    OBVIOUS
  <2> QED BY <1>1, <2>1
<1> QED BY <1>2, <1>3

-----------------------------------------------------------------------------
(* What appends, sends and receives events keeps EventsInv.                *)

\* A step that touches neither table, stream nor browser keeps the event invariant.
LEMMA EventsStay ==
  ASSUME EventsInv, UNCHANGED <<events, number, stream, browser>>
  PROVE  EventsInv'
BY DEF EventsInv, EventsAre

\* Drawing the next number for an event keeps the event invariant.
LEMMA NumberEventKeeps ==
  ASSUME EventsInv, NEW w \in Writers, NumberEvent(w), UNCHANGED <<events, stream, browser>>
  PROVE  EventsInv'
<1>1. PICK n \in Nat, m \in Nat : EventsAre(n, m)
  BY DEF EventsInv
<1>2. Greatest(DOMAIN events) = n
  BY <1>1, GreatestNumber DEF EventsAre
<1>3. number' \in [Writers -> 0..(n + 1)]
  BY <1>1, <1>2 DEF EventsAre, NumberEvent
<1>4. EventsAre(n, m)'
  BY <1>1, <1>3 DEF EventsAre
<1> QED BY <1>4 DEF EventsInv

\* Inserting an event adds one row under a number nothing has seen, and rewrites none.
LEMMA InsertEventKeeps ==
  ASSUME EventsInv, NEW w \in Writers, NEW kind, InsertEvent(w, kind), UNCHANGED <<stream, browser>>
  PROVE  /\ EventsInv'
         /\ \A n \in DOMAIN events : n \in DOMAIN events' /\ events'[n] = events[n]
         /\ \A n \in DOMAIN events' : n \in DOMAIN events \/ events'[n] = kind
         /\ browser.seen \subseteq DOMAIN events
<1>1. PICK n \in Nat, m \in Nat : EventsAre(n, m)
  BY DEF EventsInv
<1>2. number[w] = n + 1 /\ DOMAIN events' = 1..(n + 1)
  BY <1>1 DEF EventsAre, InsertEvent
<1>3. /\ \A k \in DOMAIN events : k \in DOMAIN events' /\ events'[k] = events[k]
      /\ \A k \in DOMAIN events' : k \in DOMAIN events \/ events'[k] = kind
  BY <1>1, <1>2 DEF EventsAre, InsertEvent
<1>4. number' \in [Writers -> 0..(n + 2)]
  BY <1>1 DEF EventsAre, InsertEvent
<1>5. /\ stream \in [at : StreamPoints, cursor : 0..(n + 1), wire : SUBSET (1..(n + 1))]
      /\ browser.seen \subseteq DOMAIN events /\ m <= n + 1
  BY <1>1 DEF EventsAre
<1>6. EventsAre(n + 1, m)'
  BY <1>1, <1>2, <1>4, <1>5 DEF EventsAre
<1> QED BY <1>3, <1>5, <1>6 DEF EventsInv

\* A refused insert keeps the event invariant.
LEMMA InsertFailsKeeps ==
  ASSUME EventsInv, NEW w \in Writers, InsertFails(w), UNCHANGED <<events, stream, browser>>
  PROVE  EventsInv'
<1>1. PICK n \in Nat, m \in Nat : EventsAre(n, m)
  BY DEF EventsInv
<1>2. number' \in [Writers -> 0..(n + 1)]
  BY <1>1 DEF EventsAre, InsertFails
<1>3. EventsAre(n, m)'
  BY <1>1, <1>2 DEF EventsAre
<1> QED BY <1>3 DEF EventsInv

\* The stream reads, in order, what follows its cursor.
LEMMA StreamStepKeeps ==
  ASSUME EventsInv, StreamStep
  PROVE  /\ EventsInv' /\ UNCHANGED <<status, events>>
         /\ browser'.seen = browser.seen /\ browser'.shows = browser.shows
         /\ browser'.asked = browser.asked
<1> USE DEF StreamPoints, OfStream
<1>1. PICK n \in Nat, m \in Nat : EventsAre(n, m)
  BY DEF EventsInv
<1>2. ASSUME EventsAre(n, m)' PROVE EventsInv'
  BY <1>2 DEF EventsInv
<1>3. CASE Subscribe
  <2>1. Greatest(browser.seen) = m
    BY <1>1, GreatestNumber DEF EventsAre
  <2>2. (m + 1)..m = {}
    OBVIOUS
  <2>3. EventsAre(n, m)'
    BY <1>1, <1>3, <2>1, <2>2 DEF EventsAre, Subscribe
  <2> QED BY <1>1, <1>2, <1>3, <2>3 DEF Subscribe, EventsAre
<1>4. CASE ReadRows
  <2> DEFINE rows == {k \in 1..n : k > stream.cursor}
  <2>1. Max(rows \cup {stream.cursor}) = n
    BY <1>1, GreatestNumber DEF EventsAre
  <2>2. stream' = [at |-> "status", cursor |-> n, wire |-> stream.wire \cup rows]
    BY <1>1, <1>4, <2>1 DEF EventsAre, ReadRows
  <2>3. stream.wire \cup rows = (m + 1)..n /\ stream.wire \cup rows \in SUBSET (1..n)
    BY <1>1, <1>4 DEF EventsAre, ReadRows
  <2>4. stream' \in [at : StreamPoints, cursor : 0..n, wire : SUBSET (1..n)]
    BY <2>2, <2>3
  <2>5. UNCHANGED <<events, number, browser>> /\ m <= n
    BY <1>1, <1>4 DEF EventsAre, ReadRows
  <2>6. stream'.at # "closed" /\ stream'.cursor = n /\ stream'.wire = (m + 1)..n
    BY <2>2, <2>3
  <2>7. EventsAre(n, m)'
    BY <1>1, <2>4, <2>5, <2>6 DEF EventsAre
  <2> QED BY <1>2, <1>4, <2>7 DEF ReadRows
<1>5. CASE ReadStatus
  <2>1. EventsAre(n, m)'
    BY <1>1, <1>5 DEF EventsAre, ReadStatus
  <2> QED BY <1>2, <1>5, <2>1 DEF ReadStatus
<1>6. CASE WakeUp
  <2>1. EventsAre(n, m)'
    BY <1>1, <1>6 DEF EventsAre, WakeUp
  <2> QED BY <1>2, <1>6, <2>1 DEF WakeUp
<1>7. CASE CloseStream
  <2>1. EventsAre(n, m)'
    BY <1>1, <1>7 DEF EventsAre, CloseStream
  <2> QED BY <1>1, <1>2, <1>7, <2>1 DEF CloseStream, EventsAre
<1> QED BY <1>3, <1>4, <1>5, <1>6, <1>7 DEF StreamStep

\* A browser that receives an event waits for a refresh.
LEMMA ReceiveKeeps ==
  ASSUME EventsInv, Receive
  PROVE  EventsInv' /\ browser'.asked > 0 /\ UNCHANGED <<status, events>>
<1> USE DEF StreamPoints, OfStream
<1>1. PICK n \in Nat, m \in Nat : EventsAre(n, m)
  BY DEF EventsInv
<1>2. stream.wire = (m + 1)..stream.cursor /\ m + 1 <= stream.cursor /\ stream.cursor <= n
  BY <1>1 DEF EventsAre, Receive
<1>3. Min(stream.wire) = m + 1
  BY <1>1, <1>2, LeastOfInterval DEF EventsAre
<1>4. \A k \in Nat : Min({k + 1, MaxRefreshes}) \in Nat \ {0}
  BY LeastNumber, RefreshesAssumption
<1>5. /\ stream' = [stream EXCEPT !.wire = @ \ {m + 1}]
      /\ browser' = [browser EXCEPT !.seen = @ \cup {m + 1},
                                    !.asked = Min({@ + 1, MaxRefreshes})]
  BY <1>3 DEF Receive
<1>6. /\ stream.wire \ {m + 1} = (m + 2)..stream.cursor
      /\ stream.wire \ {m + 1} \in SUBSET (1..n)
      /\ browser.seen \cup {m + 1} = 1..(m + 1)
      /\ m + 1 \in Nat /\ m + 1 <= n
  BY <1>1, <1>2 DEF EventsAre
<1>7. browser'.asked \in Nat \ {0}
  BY <1>1, <1>4, <1>5 DEF EventsAre
<1>8. EventsAre(n, m + 1)'
  <2>1. stream' \in [at : StreamPoints, cursor : 0..n, wire : SUBSET (1..n)]
        /\ stream'.at = stream.at /\ stream'.cursor = stream.cursor
        /\ stream'.wire = (m + 2)..stream.cursor
    BY <1>1, <1>5, <1>6 DEF EventsAre
  <2>2. browser' \in [link : {"closed", "opening", "open"}, seen : {1..(m + 1)},
                      shows : {"running"} \cup Outcomes, asked : Nat]
    BY <1>1, <1>5, <1>6, <1>7 DEF EventsAre
  <2> QED BY <1>1, <1>2, <1>6, <2>1, <2>2 DEF EventsAre, Receive
<1> QED BY <1>6, <1>7, <1>8 DEF EventsInv, Receive

\* An answered poll shows the run's status and neither loses nor skips an event.
LEMMA AnswerKeeps ==
  ASSUME EventsInv, Answer, status \in {"running"} \cup Outcomes
  PROVE  /\ EventsInv' /\ UNCHANGED <<status, events>>
         /\ browser'.seen = browser.seen /\ browser'.shows = status
<1>1. PICK n \in Nat, m \in Nat : EventsAre(n, m)
  BY DEF EventsInv
<1>2. browser' = [browser EXCEPT !.shows = status, !.asked = @ - 1]
  BY DEF Answer
<1>3. browser.asked \in Nat /\ browser.asked > 0
  BY <1>1 DEF EventsAre, Answer
<1>4. /\ browser' \in [link : {"closed", "opening", "open"}, seen : {1..m},
                       shows : {"running"} \cup Outcomes, asked : Nat]
      /\ browser'.link = browser.link /\ browser'.seen = browser.seen
      /\ browser'.shows = status
  <2>1. browser \in [link : {"closed", "opening", "open"}, seen : {1..m},
                     shows : {"running"} \cup Outcomes, asked : Nat]
    BY <1>1 DEF EventsAre
  <2>2. browser.asked - 1 \in Nat
    BY <1>3
  <2> QED BY <1>2, <2>1, <2>2
<1>5. EventsAre(n, m)'
  BY <1>1, <1>4 DEF EventsAre, Answer, OfStream
<1> QED BY <1>4, <1>5 DEF EventsInv, Answer, OfStream

\* A dropped connection keeps what the browser has seen and shows.
LEMMA DropKeeps ==
  ASSUME EventsInv, Drop
  PROVE  /\ EventsInv' /\ UNCHANGED <<status, events>>
         /\ browser'.seen = browser.seen /\ browser'.shows = browser.shows
         /\ browser'.asked = browser.asked
<1>1. PICK n \in Nat, m \in Nat : EventsAre(n, m)
  BY DEF EventsInv
<1>2. EventsAre(n, m)'
  BY <1>1 DEF EventsAre, Drop
<1> QED BY <1>1, <1>2 DEF EventsInv, EventsAre, Drop

-----------------------------------------------------------------------------
(* The steps of the run.                                                   *)

\* The engine goes on.
Working ==
  \/ BuildContext \/ AnswerBlueprint \/ AnswerPlan \/ UseTool \/ AnswerFinish
  \/ AnswerAudit \/ Correct \/ Reject

\* An error or a cancellation ends it.
Stopping ==
  /\ \E p \in Asking \cup {"context", "correct"} : At(p)
  /\ \E outcome \in {"failed", "cancelled"} : Stop(outcome) /\ (outcome = "cancelled" => Cancelled)

\* An append raises an error.
AppendRaises == EngineInsertFails \/ EnginePublishFails

\* The steps of the engine, the routes and the browser, grouped by what they may change.
LEMMA KindsOfSteps ==
  ASSUME [Next]_vars
  PROVE  \/ Working \/ Stopping \/ Settle
         \/ EngineNumbers \/ EngineInserts \/ AppendRaises
         \/ Cancel \/ RouteAppends \/ PublishAnother
         \/ (StreamStep \/ Receive \/ Answer \/ Drop) /\ Following
         \/ UNCHANGED vars
<1>1. Interrupt => Stopping
  BY DEF Interrupt, Stopping
<1>2. EngineFails => Stopping
  BY DEF EngineFails, Fail, Stopping, Asks
<1>3. CorrectFails => Stopping
  BY DEF CorrectFails, Fail, Stopping
<1>4. Next \/ UNCHANGED vars
  OBVIOUS
<1>5. EngineStep => Working \/ Stopping \/ Settle \/ EngineNumbers \/ EngineInserts \/ AppendRaises
  BY <1>1, <1>2, <1>3 DEF EngineStep, Working, AppendRaises
<1> QED BY <1>4, <1>5 DEF Next, FollowStream, FollowEvents, BrowserStep

\* What the engine does before its outcome is not seen by the browser.
LEMMA WorkingIsQuiet ==
  ASSUME Working
  PROVE  /\ UNCHANGED <<case, status, events, number, stream, browser, drops, project, moved, route>>
         /\ ~announcing /\ pc \in Asking \cup {"context", "correct"}
         /\ pc' \in Asking \cup {"correct", "settle"}
<1> USE DEF At, Asks, Goto, Announce, Quiet, OfEvents, others, Asking
<1>1. CASE BuildContext
  BY <1>1 DEF BuildContext
<1>2. CASE AnswerBlueprint
  BY <1>2 DEF AnswerBlueprint
<1>3. CASE AnswerPlan
  BY <1>3 DEF AnswerPlan
<1>4. CASE UseTool
  BY <1>4 DEF UseTool
<1>5. CASE AnswerFinish
  BY <1>5 DEF AnswerFinish
<1>6. CASE AnswerAudit
  BY <1>6 DEF AnswerAudit
<1>7. CASE Correct
  BY <1>7 DEF Correct
<1>8. CASE Reject
  BY <1>8 DEF Reject
<1> QED BY <1>1, <1>2, <1>3, <1>4, <1>5, <1>6, <1>7, <1>8 DEF Working

\* A stopping engine changes the run's outcome and forgets its work, nothing else.
LEMMA StoppingStops ==
  ASSUME Stopping
  PROVE  /\ UNCHANGED <<case, events, number, stream, browser, drops, project, moved, route>>
         /\ ~announcing /\ pc \in Asking \cup {"context", "correct"} /\ announcing'
         /\ pc' \in {"failed", "cancelled"} /\ status' = pc' /\ Forget
         /\ pc' = "cancelled" => route # "idle"
BY DEF Stopping, Stop, At, Announce, OfEvents, others, Asking, Cancelled

\* Every step keeps EventsInv.
LEMMA EventsInvKept ==
  ASSUME EventsInv, DataInv, [Next]_vars
  PROVE  EventsInv'
<1> USE DEF Writers
<1>1. CASE Working
  BY <1>1, WorkingIsQuiet, EventsStay
<1>2. CASE Stopping
  BY <1>2, StoppingStops, EventsStay
<1>3. CASE Settle
  BY <1>3, EventsStay DEF Settle, OfEvents
<1>4. CASE EngineNumbers
  BY <1>4, NumberEventKeeps DEF EngineNumbers
<1>5. CASE EngineInserts
  BY <1>5, InsertEventKeeps DEF EngineInserts
<1>6. CASE AppendRaises
  BY <1>6, InsertFailsKeeps, InsertEventKeeps DEF AppendRaises, EngineInsertFails, EnginePublishFails
<1>7. CASE Cancel
  BY <1>7, EventsStay DEF Cancel
<1>8. CASE RouteAppends
  <2>1. CASE NumberEvent("route") /\ UNCHANGED <<route, events>>
    BY <1>8, <2>1, NumberEventKeeps DEF RouteAppends
  <2>2. CASE InsertEvent("route", "step")
    BY <1>8, <2>2, InsertEventKeeps DEF RouteAppends
  <2>3. CASE InsertFails("route") /\ UNCHANGED events
    BY <1>8, <2>3, InsertFailsKeeps DEF RouteAppends
  <2> QED BY <1>8, <2>1, <2>2, <2>3 DEF RouteAppends
<1>9. CASE PublishAnother
  BY <1>9, EventsStay DEF PublishAnother, eventVars
<1>10. CASE StreamStep
  BY <1>10, StreamStepKeeps
<1>11. CASE Receive
  BY <1>11, ReceiveKeeps
<1>12. CASE Answer
  BY <1>12, AnswerKeeps DEF DataInv
<1>13. CASE Drop
  BY <1>13, DropKeeps
<1>14. CASE UNCHANGED vars
  BY <1>14, EventsStay DEF vars, eventVars
<1>15. \/ Working \/ Stopping \/ Settle
       \/ EngineNumbers \/ EngineInserts \/ AppendRaises
       \/ Cancel \/ RouteAppends \/ PublishAnother
       \/ StreamStep \/ Receive \/ Answer \/ Drop \/ UNCHANGED vars
  BY KindsOfSteps
<1> QED BY <1>15, <1>1, <1>2, <1>3, <1>4, <1>5, <1>6, <1>7, <1>8, <1>9,
          <1>10, <1>11, <1>12, <1>13, <1>14

-----------------------------------------------------------------------------
(* The data of the run.                                                    *)

\* Working steps keep the engine's data consistent.
LEMMA WorkingKeepsData ==
  ASSUME DataInv, Working
  PROVE  DataInv'
<1> USE DEF At, Asks, Goto, Announce, Quiet, Asking, Outcomes
<1>0. DataInv /\ UNCHANGED <<case, status>> /\ announcing' \in BOOLEAN
      /\ pc' \in Asking \cup {"correct", "settle"}
  BY WorkingIsQuiet DEF Working, BuildContext, AnswerBlueprint, AnswerPlan, UseTool,
     AnswerFinish, AnswerAudit, Correct, Reject
<1>1. CASE BuildContext
  <2>1. records' \subseteq Records /\ context' \subseteq case.base
    BY <1>1, CasesAssumption DEF BuildContext, DataInv
  <2> QED BY <1>0, <1>1, <2>1 DEF BuildContext, DataInv
<1>2. CASE AnswerBlueprint
  BY <1>0, <1>2 DEF AnswerBlueprint, DataInv, effects
<1>3. CASE AnswerPlan
  BY <1>0, <1>3 DEF AnswerPlan, DataInv, effects
<1>4. CASE UseTool
  <2>1. records' \subseteq Records
    BY <1>4 DEF UseTool, DataInv, WriteFile, DeleteFile, UpsertKnowledge, DeleteKnowledge,
       ReadOnly, effects
  <2> QED BY <1>0, <1>4, <2>1 DEF UseTool, DataInv
<1>5. CASE AnswerFinish
  <2>1. {c.path : c \in changes'.files} \subseteq Files
    BY <1>5 DEF AnswerFinish, Collected, FileChanges, Absent
  <2> QED BY <1>0, <1>5, <2>1 DEF AnswerFinish, DataInv, effects
<1>6. CASE AnswerAudit
  BY <1>0, <1>6 DEF AnswerAudit, DataInv, effects, answers
<1>7. CASE Correct
  <2>1. loop' \in 0..MaxCorrections
    BY <1>7, CorrectionsAssumption DEF Correct, DataInv
  <2> QED BY <1>0, <1>7, <2>1 DEF Correct, DataInv, effects
<1>8. CASE Reject
  BY <1>0, <1>8 DEF Reject, DataInv, effects
<1> QED BY <1>1, <1>2, <1>3, <1>4, <1>5, <1>6, <1>7, <1>8 DEF Working

\* An engine that fails or is cancelled keeps its data consistent.
LEMMA ForgettingKeepsData ==
  ASSUME DataInv, Forget, UNCHANGED case, pc' \in {"failed", "cancelled"},
         announcing', status' \in {"failed", "cancelled"}
  PROVE  DataInv'
BY CorrectionsAssumption DEF DataInv, Forget, Absent, Outcomes

\* Every step keeps the engine's data consistent.
LEMMA DataInvKept ==
  ASSUME DataInv, [Next]_vars
  PROVE  DataInv'
<1> USE DEF Outcomes
<1>1. CASE Working
  BY <1>1, WorkingKeepsData
<1>2. CASE Stopping
  BY <1>2, StoppingStops, ForgettingKeepsData
<1>3. CASE Settle
  BY <1>3 DEF Settle, DataInv, At, Announce, effects, answers
<1>4. CASE EngineNumbers
  BY <1>4 DEF EngineNumbers, DataInv, effects, answers
<1>5. CASE EngineInserts
  BY <1>5 DEF EngineInserts, DataInv, effects, answers, Goto
<1>6. CASE AppendRaises
  <2>1. CASE pc \in {"failed", "cancelled"}
    BY <1>6, <2>1 DEF AppendRaises, EngineInsertFails, EnginePublishFails, AppendFailed, DataInv, effects, answers, Goto
  <2>2. CASE pc \notin {"failed", "cancelled"}
    BY <1>6, <2>2, ForgettingKeepsData DEF AppendRaises, EngineInsertFails, EnginePublishFails, AppendFailed, Announce
  <2> QED BY <2>1, <2>2
<1>7. CASE Cancel
  BY <1>7 DEF Cancel, DataInv, effects, answers
<1>8. CASE RouteAppends
  BY <1>8 DEF RouteAppends, DataInv, effects, answers
<1>9. CASE PublishAnother
  BY <1>9 DEF PublishAnother, eventVars, DataInv, effects, answers
<1>10. CASE Following /\ UNCHANGED status
  BY <1>10 DEF Following, DataInv, effects, answers
<1>11. StreamStep \/ Receive \/ Answer \/ Drop => UNCHANGED status
  BY DEF StreamStep, Subscribe, ReadRows, ReadStatus, WakeUp, CloseStream, Receive, Answer,
     Drop, OfStream
<1>12. CASE UNCHANGED vars
  BY <1>12 DEF vars, eventVars, DataInv, effects, answers
<1> QED BY KindsOfSteps, <1>1, <1>2, <1>3, <1>4, <1>5, <1>6, <1>7, <1>8, <1>9, <1>10, <1>11, <1>12

-----------------------------------------------------------------------------
(* Outcomes are appended once, and shown.                                  *)

\* An insert leaves what the browser has received as it was.
LEMMA InsertKeepsOutcome ==
  ASSUME EventsInv, OutcomeInv, NEW w \in Writers, NEW kind, InsertEvent(w, kind),
         UNCHANGED <<stream, browser>>,
         pc' \in Outcomes \cup {"end"} => status' \in Outcomes,
         pc' = "end" => ~announcing',
         pc' = "cancelled" => route' # "idle",
         status' = status \/ status' = "failed",
         route # "idle" => route' # "idle",
         \A n \in DOMAIN events : events[n] \in Outcomes => pc' \in {pc, "end"} /\ status' = status,
         kind \in Outcomes => /\ pc' \in {"failed", "end"}
                              /\ kind = "failed" => pc' = "end"
                              /\ kind = "cancelled" => route' # "idle"
  PROVE  OutcomeInv'
<1>1. /\ \A n \in DOMAIN events : n \in DOMAIN events' /\ events'[n] = events[n]
      /\ \A n \in DOMAIN events' : n \in DOMAIN events \/ events'[n] = kind
      /\ browser.seen \subseteq DOMAIN events
  BY InsertEventKeeps
<1>2. ASSUME NEW n \in DOMAIN events', events'[n] \in Outcomes
      PROVE  OutcomeEvent(n)'
  <2>1. CASE n \in DOMAIN events
    BY <1>1, <1>2, <2>1 DEF OutcomeInv, OutcomeEvent
  <2>2. CASE events'[n] = kind
    BY <1>2, <2>2 DEF OutcomeEvent
  <2> QED BY <1>1, <2>1, <2>2
<1>3. ASSUME NEW n \in browser'.seen, events'[n] \in Outcomes
      PROVE  Informed(n)'
  BY <1>1, <1>3 DEF OutcomeInv, Informed
<1> QED BY <1>2, <1>3 DEF OutcomeInv

\* Every step keeps the link between a run's status and its outcome event.
LEMMA OutcomeInvKept ==
  ASSUME EventsInv, DataInv, OutcomeInv, [Next]_vars
  PROVE  OutcomeInv'
<1> USE DEF OutcomeEvent, Informed
<1>0. browser.seen \subseteq DOMAIN events
  BY DEF EventsInv, EventsAre
<1>1. CASE Working
  BY <1>1, WorkingIsQuiet DEF OutcomeInv, Outcomes, Asking
<1>2. CASE Stopping
  <2>1. \A n \in DOMAIN events : events[n] \notin Outcomes
    BY <1>2, StoppingStops DEF OutcomeInv, Asking
  <2> QED BY <1>0, <1>2, <2>1, StoppingStops DEF OutcomeInv, Outcomes
<1>3. CASE Settle
  <2>1. \A n \in DOMAIN events : events[n] \notin Outcomes
    BY <1>3 DEF Settle, At, OutcomeInv
  <2> QED BY <1>0, <1>3, <2>1 DEF Settle, At, Announce, OfEvents, OutcomeInv, Outcomes
<1>4. CASE EngineNumbers
  BY <1>4 DEF EngineNumbers, OutcomeInv, others
<1>5. CASE EngineInserts
  <2> DEFINE kind == IF pc \in Outcomes THEN pc ELSE "step"
  <2>1. /\ InsertEvent("engine", kind) /\ ~announcing' /\ announcing
        /\ pc' = IF pc \in Outcomes THEN "end" ELSE pc
        /\ UNCHANGED <<status, stream, browser, route>>
    BY <1>5 DEF EngineInserts, Goto, others
  <2>2. /\ pc' \in Outcomes \cup {"end"} => status' \in Outcomes
        /\ pc' = "cancelled" => route' # "idle"
        /\ \A n \in DOMAIN events : events[n] \in Outcomes => pc' \in {pc, "end"}
        /\ kind \in Outcomes => pc' = "end" /\ (kind = "cancelled" => route' # "idle")
    BY <2>1 DEF OutcomeInv, Outcomes
  <2> HIDE DEF kind
  <2> QED BY <2>1, <2>2, InsertKeepsOutcome DEF Writers
<1>6. CASE EngineInsertFails
  <2>1. announcing /\ AppendFailed /\ UNCHANGED <<route, events, stream, browser>>
    BY <1>6 DEF EngineInsertFails, others
  <2>2. CASE pc \in {"failed", "cancelled"}
    BY <1>0, <2>1, <2>2 DEF AppendFailed, OutcomeInv, Outcomes, Goto
  <2>3. CASE pc \notin {"failed", "cancelled"}
    <3>1. \A n \in DOMAIN events : events[n] \notin Outcomes
      BY <2>1, <2>3 DEF OutcomeInv
    <3> QED BY <1>0, <2>1, <2>3, <3>1 DEF AppendFailed, OutcomeInv, Outcomes, Announce
  <2> QED BY <2>2, <2>3
<1>15. CASE EnginePublishFails
  <2> DEFINE kind == IF pc \in Outcomes THEN pc ELSE "step"
  <2>1. /\ announcing /\ AppendFailed /\ UNCHANGED <<route, stream, browser>>
        /\ InsertEvent("engine", kind)
    BY <1>15 DEF EnginePublishFails, others
  <2>2. CASE pc \in {"failed", "cancelled"}
    <3>1. pc' = "end" /\ ~announcing' /\ UNCHANGED status /\ kind = pc
      BY <2>1, <2>2 DEF AppendFailed, Goto, Outcomes
    <3>2. status \in Outcomes /\ (kind = "cancelled" => route' # "idle")
      BY <2>1, <2>2, <3>1 DEF OutcomeInv, Outcomes
    <3> HIDE DEF kind
    <3> QED BY <2>1, <3>1, <3>2, InsertKeepsOutcome DEF Writers
  <2>3. CASE pc \notin {"failed", "cancelled"}
    <3>1. pc' = "failed" /\ status' = "failed" /\ kind \notin {"failed", "cancelled"}
      BY <2>1, <2>3 DEF AppendFailed, Announce
    <3>2. \A n \in DOMAIN events : events[n] \notin Outcomes
      BY <2>1, <2>3 DEF OutcomeInv
    <3>3. status' \in Outcomes
      BY <3>1 DEF Outcomes
    <3> HIDE DEF kind
    <3> QED BY <2>1, <3>1, <3>2, <3>3, InsertKeepsOutcome DEF Writers
  <2> QED BY <2>2, <2>3
<1>7. CASE Cancel
  <2>1. /\ route = "idle" /\ route' = "append" /\ status' \in {status, "cancelled"}
        /\ UNCHANGED <<pc, announcing, events, browser>>
    BY <1>7 DEF Cancel
  <2>2. \A n \in DOMAIN events : events[n] # "cancelled"
    BY <2>1 DEF OutcomeInv, Outcomes
  <2> QED BY <1>0, <2>1, <2>2 DEF OutcomeInv, Outcomes
<1>8. CASE RouteAppends
  <2>0. UNCHANGED <<pc, announcing, status, stream, browser>> /\ route' # "idle"
    BY <1>8 DEF RouteAppends
  <2>1. CASE UNCHANGED events
    BY <2>0, <2>1 DEF OutcomeInv
  <2>2. CASE InsertEvent("route", "step")
    <3>1. "step" \notin Outcomes
      BY DEF Outcomes
    <3>2. /\ pc' \in Outcomes \cup {"end"} => status' \in Outcomes
          /\ pc' = "end" => ~announcing'
      BY <2>0 DEF OutcomeInv
    <3> QED BY <2>0, <2>2, <3>1, <3>2, InsertKeepsOutcome DEF Writers
  <2> QED BY <1>8, <2>1, <2>2 DEF RouteAppends
<1>9. CASE PublishAnother
  BY <1>9 DEF PublishAnother, eventVars, OutcomeInv
<1>10. CASE StreamStep /\ Following
  BY <1>10, StreamStepKeeps DEF Following, OutcomeInv, others
<1>11. CASE Receive /\ Following
  BY <1>11, ReceiveKeeps DEF Following, OutcomeInv, others
<1>12. CASE Answer /\ Following
  <2>1. (\E n \in browser.seen : events[n] \in Outcomes) => status \in Outcomes
    BY <1>0 DEF OutcomeInv, Outcomes
  <2> QED BY <1>12, <2>1, AnswerKeeps DEF Following, OutcomeInv, DataInv, others
<1>13. CASE Drop /\ Following
  BY <1>13, DropKeeps DEF Following, OutcomeInv, others
<1>14. CASE UNCHANGED vars
  BY <1>14 DEF vars, eventVars, OutcomeInv, others
<1> QED BY KindsOfSteps, <1>1, <1>2, <1>3, <1>4, <1>5, <1>6, <1>7, <1>8, <1>9,
          <1>10, <1>11, <1>12, <1>13, <1>14, <1>15 DEF AppendRaises

-----------------------------------------------------------------------------
(* What is reviewed is what the run has written.                           *)

\* Every step keeps a review built from the workspace it shows.
LEMMA ReviewInvKept ==
  ASSUME DataInv, OutcomeInv, ReviewInv, [Next]_vars
  PROVE  ReviewInv'
<1> USE DEF UnderReview
<1>1. CASE Working
  <2>1. /\ UNCHANGED <<case, status, project, moved>>
        /\ ~UnderReview /\ pc' \in Asking \cup {"correct", "settle"}
    BY <1>1, WorkingIsQuiet DEF ReviewInv, Asking
  <2>2. case.mode = "write" /\ pc' \in {"audit", "settle"} =>
          moved' \/ changes' = [files |-> FileChanges', knowledge |-> ops']
    <3> USE <2>1 DEF At, Asks, Goto, Announce, Asking
    <3>1. CASE BuildContext
      BY <3>1 DEF BuildContext
    <3>2. CASE AnswerBlueprint
      BY <3>2 DEF AnswerBlueprint
    <3>3. CASE AnswerPlan
      BY <3>3 DEF AnswerPlan
    <3>4. CASE UseTool
      BY <3>4 DEF UseTool
    <3>5. CASE AnswerFinish
      BY <3>5 DEF AnswerFinish, Collected, FileChanges, effects
    <3>6. CASE AnswerAudit
      BY <3>6 DEF AnswerAudit, ReviewInv, FileChanges, effects, answers
    <3>7. CASE Correct
      BY <3>7 DEF Correct
    <3>8. CASE Reject
      BY <3>8 DEF Reject, ReviewInv, FileChanges, effects
    <3> QED BY <1>1, <3>1, <3>2, <3>3, <3>4, <3>5, <3>6, <3>7, <3>8 DEF Working
  <2> QED BY <2>1, <2>2 DEF ReviewInv
<1>2. CASE Stopping
  BY <1>2, StoppingStops DEF ReviewInv
<1>3. CASE Settle
  <2>1. /\ pc = "settle" /\ UNCHANGED <<case, changes, work, project, ops, moved>>
        /\ status' = (IF case.mode = "write" THEN "awaiting_review" ELSE "completed")
        /\ pc' = status'
    BY <1>3 DEF Settle, At, Announce, answers, effects, others
  <2> QED BY <2>1 DEF ReviewInv, FileChanges
<1>4. ASSUME UNCHANGED <<case, pc, status, changes, work, project, ops, moved>>
      PROVE  ReviewInv'
  BY <1>4 DEF ReviewInv, FileChanges
<1>5. CASE EngineNumbers
  BY <1>4, <1>5 DEF EngineNumbers, effects, answers, others
<1>6. CASE EngineInserts
  <2>1. /\ pc' = (IF pc \in Outcomes THEN "end" ELSE pc)
        /\ UNCHANGED <<case, status, changes, work, project, ops, moved>>
    BY <1>6 DEF EngineInserts, Goto, effects, answers, others
  <2> QED BY <2>1 DEF ReviewInv, FileChanges, Outcomes
<1>7. CASE AppendRaises
  <2>1. CASE pc \in {"failed", "cancelled"}
    BY <1>7, <2>1 DEF AppendRaises, EngineInsertFails, EnginePublishFails, AppendFailed, ReviewInv, OutcomeInv, Outcomes, Goto
  <2>2. CASE pc \notin {"failed", "cancelled"}
    BY <1>7, <2>2 DEF AppendRaises, EngineInsertFails, EnginePublishFails, AppendFailed, ReviewInv, Announce
  <2> QED BY <2>1, <2>2
<1>8. CASE Cancel
  <2>1. status' = status \/ status' = "cancelled"
    BY <1>8 DEF Cancel
  <2>2. UNCHANGED <<case, pc, changes, work, project, ops, moved>>
    BY <1>8 DEF Cancel, effects, answers
  <2> QED BY <2>1, <2>2 DEF ReviewInv, FileChanges
<1>9. CASE RouteAppends
  BY <1>4, <1>9 DEF RouteAppends, effects, answers
<1>10. CASE PublishAnother
  BY <1>10 DEF PublishAnother, eventVars, ReviewInv
<1>11. CASE Following /\ UNCHANGED status
  BY <1>4, <1>11 DEF Following, effects, answers, others
<1>12. StreamStep \/ Receive \/ Answer \/ Drop => UNCHANGED status
  BY DEF StreamStep, Subscribe, ReadRows, ReadStatus, WakeUp, CloseStream, Receive, Answer,
     Drop, OfStream
<1>13. CASE UNCHANGED vars
  BY <1>4, <1>13 DEF vars, eventVars, effects, answers, others
<1> QED BY KindsOfSteps, <1>1, <1>2, <1>3, <1>5, <1>6, <1>7, <1>8, <1>9,
          <1>10, <1>11, <1>12, <1>13

-----------------------------------------------------------------------------
(* Plans.                                                                  *)

\* A step of a plan gets the first role of the order that may use its tool.
LEMMA RoleIsPlanned ==
  ASSUME NEW t, PlannedRoles(t) # {}
  PROVE  RoleOf(t) \in PlannedRoles(t)
<1> DEFINE S == {i \in 1..Len(ExecutionOrder) : ExecutionOrder[i] \in PlannedRoles(t)}
<1>1. \A r \in PlanningRoles : \E i \in 1..Len(ExecutionOrder) : ExecutionOrder[i] = r
  BY DEF PlanningRoles, ExecutionOrder
<1>2. \E r \in PlannedRoles(t) : r \in PlanningRoles
  BY DEF PlannedRoles
<1>3. PICK x \in S : TRUE
  BY <1>1, <1>2
<1>4. S \in SUBSET Nat
  OBVIOUS
<1>5. Min(S) \in S
  BY <1>3, <1>4, LeastNumber
<1> QED BY <1>5 DEF RoleOf

\* A step that a model may answer.
LEMMA StepIsPlanned == PlanSteps \subseteq PlannedStep
<1> SUFFICES ASSUME NEW s \in PlanSteps PROVE s \in PlannedStep
  OBVIOUS
<1>1. PICK t \in PlannedTools, us \in (SUBSET Units) \ {{}}, f \in Files \cup {None} :
        s = [tool |-> t, role |-> RoleOf(t), units |-> us, output |-> f]
  BY DEF PlanSteps, Steps
<1>2. t \in ReadTools \cup WriteTools /\ PlannedRoles(t) # {}
  BY DEF PlannedTools
<1>3. RoleOf(t) \in PlanningRoles /\ RoleOf(t) \in ToolRoles(t)
  BY <1>2, RoleIsPlanned DEF PlannedRoles
<1>4. s.tool \in FileTools <=> s.output # None
  BY DEF PlanSteps
<1> QED BY <1>1, <1>2, <1>3, <1>4 DEF PlannedStep

\* A revised step differs in its role only, which may use the tool as well.
LEMMA RevisedStep ==
  ASSUME NEW s \in PlannedStep
  PROVE  /\ Revised(s) \in PlannedStep
         /\ Revised(s).tool = s.tool /\ Revised(s).units = s.units /\ Revised(s).output = s.output
<1>1. s \in [tool : ReadTools \cup WriteTools, role : PlanningRoles \cup {"reviser"},
             units : SUBSET Units, output : Files \cup {None}]
      /\ s.role \in ToolRoles(s.tool) /\ (s.tool \in FileTools <=> s.output # None)
  BY DEF PlannedStep
<1> DEFINE role == IF s.role = "writer" THEN "reviser" ELSE s.role
<1>2. Revised(s) = [s EXCEPT !.role = role]
  BY DEF Revised
<1>3. role \in PlanningRoles \cup {"reviser"}
  BY <1>1
<1>4. role \in ToolRoles(s.tool)
  BY <1>1 DEF ToolRoles, WriteTools, FileTools, KnowledgeTools, ReadTools, PlanningRoles
<1> HIDE DEF role
<1>5. /\ Revised(s).tool = s.tool /\ Revised(s).units = s.units /\ Revised(s).output = s.output
      /\ Revised(s).role = role
      /\ Revised(s) \in [tool : ReadTools \cup WriteTools, role : PlanningRoles \cup {"reviser"},
             units : SUBSET Units, output : Files \cup {None}]
  BY <1>1, <1>2, <1>3
<1> QED BY <1>1, <1>4, <1>5 DEF PlannedStep

\* Whether a plan is valid depends on the tools, units and outputs of its steps.
LEMMA SameStepsSameValidity ==
  ASSUME NEW p, NEW q, ValidPlan(p), DOMAIN q = DOMAIN p,
         \A i \in DOMAIN p : /\ q[i].tool = p[i].tool /\ q[i].units = p[i].units
                             /\ q[i].output = p[i].output
  PROVE  ValidPlan(q)
<1>1. UNION {q[i].units : i \in DOMAIN q} = UNION {p[i].units : i \in DOMAIN p}
  OBVIOUS
<1>2. ASSUME NEW u PROVE FirstStep(q, u) = FirstStep(p, u)
  <2>1. {i \in DOMAIN q : u \in q[i].units} = {i \in DOMAIN p : u \in p[i].units}
    OBVIOUS
  <2> QED BY <2>1 DEF FirstStep
<1>3. ASSUME NEW u PROVE WritesOf(q, u) = WritesOf(p, u)
  BY DEF WritesOf
<1> QED BY <1>1, <1>2, <1>3 DEF ValidPlan

\* The workspace after a step of the tool loop.
LEMMA UseToolEffects ==
  ASSUME PlanInv, UseTool
  PROVE  /\ DOMAIN work' = Files /\ done' = done + 1 /\ done' \in 1..Len(plan)
         /\ \A f \in Files : work'[f] = work[f] \/ f = plan[done'].output
         /\ plan[done'].tool = "write_file" =>
              work'[plan[done'].output] = Text("run", loop, done')
<1>1. done \in Nat /\ done' = done + 1 /\ done' \in 1..Len(plan) /\ plan[done'] \in PlannedStep
  BY DEF PlanInv, UseTool
<1>2. plan[done'] = Current
  BY <1>1 DEF Current
<1>3. Current.tool \in FileTools => Current.output \in Files
  BY <1>1, <1>2 DEF PlannedStep
<1>4. CASE WriteFile
  BY <1>1, <1>2, <1>3, <1>4 DEF WriteFile, PlanInv, FileTools
<1>5. CASE DeleteFile
  BY <1>1, <1>2, <1>3, <1>5 DEF DeleteFile, PlanInv, FileTools
<1>6. CASE UpsertKnowledge \/ DeleteKnowledge \/ ReadOnly
  BY <1>1, <1>2, <1>6 DEF UpsertKnowledge, DeleteKnowledge, ReadOnly, effects, PlanInv, ReadTools
<1> QED BY <1>4, <1>5, <1>6 DEF UseTool

\* Nothing that the plan and the workspace are made of changes.
LEMMA PlanStays ==
  ASSUME PlanInv, UNCHANGED <<case, blueprint, plan, done, loop, work, project>>,
         Executing' => Executing, Executed' => Executed,
         pc' \in {"context", "blueprint", "plan"} => pc' = pc
  PROVE  PlanInv'
<1>1. PlannedStep' = PlannedStep
  BY DEF PlannedStep, Units
<1>2. ValidPlan(plan)' <=> ValidPlan(plan)
  BY DEF ValidPlan, Units, FirstStep, WritesOf
<1>3. \A i \in 1..done : Written(i)' <=> Written(i)
  BY DEF Written
<1> QED BY <1>1, <1>2, <1>3 DEF PlanInv

\* An engine that fails or is cancelled keeps the plan's invariant.
LEMMA ForgettingKeepsPlan ==
  ASSUME PlanInv, Forget, UNCHANGED <<case, project>>, pc' \in {"failed", "cancelled"},
         status' = pc'
  PROVE  PlanInv'
<1>1. <<>> \in Seq(PlannedStep') /\ Len(<<>>) = 0
  OBVIOUS
<1>2. ~Executing'
  BY DEF Executing, Executed, UnderReview
<1> QED BY <1>1, <1>2 DEF PlanInv, Forget, Executing

\* Working steps keep the plan's invariant.
LEMMA WorkingKeepsPlan ==
  ASSUME PlanInv, ReviewInv, Working
  PROVE  PlanInv'
<1> USE DEF At, Asks, Goto, Announce, Asking
<1>1. /\ UNCHANGED <<case, status, project>> /\ ~UnderReview /\ ~UnderReview'
      /\ pc' \in Asking \cup {"correct", "settle"}
  BY WorkingIsQuiet DEF ReviewInv, UnderReview
<1>2. PlannedStep' = PlannedStep /\ Units' = Units
  BY <1>1 DEF PlannedStep, Units
<1>3. CASE BuildContext
  <2>1. UNCHANGED <<plan, done, blueprint, loop>> /\ work' = project /\ pc' = "blueprint" /\ done = 0
    BY <1>3 DEF BuildContext, PlanInv
  <2>2. ~Executing'
    BY <1>1, <2>1 DEF Executing, Executed
  <2> QED BY <1>1, <1>2, <2>1, <2>2 DEF PlanInv, Executing
<1>4. CASE AnswerBlueprint
  <2>1. UNCHANGED <<plan, done, work>> /\ pc' = "plan" /\ done = 0
    BY <1>4 DEF AnswerBlueprint, PlanInv, effects
  <2>2. ~Executing'
    BY <1>1, <2>1 DEF Executing, Executed
  <2> QED BY <1>1, <1>2, <2>1, <2>2 DEF PlanInv, Executing
<1>5. CASE AnswerPlan
  <2>1. UNCHANGED <<blueprint, done, work>> /\ pc' = "step" /\ done = 0
    BY <1>5 DEF AnswerPlan, PlanInv, effects
  <2>2. PICK n \in 1..case.steps : \E p \in [1..n -> PlanSteps] : ValidPlan(p) /\ plan' = p
    BY <1>5 DEF AnswerPlan
  <2>3. n \in Nat /\ plan' \in [1..n -> PlannedStep] /\ ValidPlan(plan')
    BY <2>2, StepIsPlanned
  <2>4. plan' \in Seq(PlannedStep) /\ Len(plan') \in Nat
    BY <2>3
  <2>5. ValidPlan(plan)'
    BY <1>1, <1>2, <2>1, <2>3 DEF ValidPlan, FirstStep, WritesOf
  <2>6. ~Executed'
    BY <1>1, <2>1 DEF Executed
  <2> QED BY <1>1, <1>2, <2>1, <2>4, <2>5, <2>6 DEF PlanInv
<1>6. CASE UseTool
  <2>1. UNCHANGED <<blueprint, plan, loop>> /\ pc = "step" /\ pc' = "step"
    BY <1>6 DEF UseTool
  <2>2. /\ DOMAIN work' = Files /\ done' = done + 1 /\ done' \in 1..Len(plan)
        /\ \A f \in Files : work'[f] = work[f] \/ f = plan[done'].output
        /\ plan[done'].tool = "write_file" =>
             work'[plan[done'].output] = Text("run", loop, done')
    BY <1>6, UseToolEffects
  <2>3. plan \in Seq(PlannedStep) /\ done \in Nat /\ done <= Len(plan) /\ Len(plan) \in Nat
    BY DEF PlanInv
  <2>4. ASSUME NEW i \in 1..done', plan[i].tool = "write_file"
        PROVE  Written(i)'
    <3>1. CASE i = done'
      BY <2>1, <2>2, <2>4, <3>1 DEF Written
    <3>2. CASE i # done'
      <4>1. i \in 1..done /\ i \in 1..Len(plan) /\ plan[i] \in PlannedStep
        BY <2>2, <2>3, <3>2
      <4>2. plan[i].output \in Files
        BY <2>4, <4>1 DEF PlannedStep, FileTools
      <4>3. CASE work[plan[i].output] = Text("run", loop, i)
        <5>1. CASE plan[i].output = plan[done'].output
          <6>1. done' \in (i + 1)..done'
            BY <2>2, <2>3, <4>1
          <6> QED BY <2>1, <5>1, <6>1 DEF Written
        <5>2. CASE plan[i].output # plan[done'].output
          BY <2>1, <2>2, <4>2, <4>3, <5>2 DEF Written
        <5> QED BY <5>1, <5>2
      <4>4. ASSUME NEW j \in (i + 1)..done, plan[j].output = plan[i].output
            PROVE  Written(i)'
        <5>1. j \in (i + 1)..done'
          BY <2>2, <2>3
        <5> QED BY <2>1, <4>4, <5>1 DEF Written
      <4>5. Written(i)
        BY <2>4, <4>1 DEF PlanInv
      <4> QED BY <4>3, <4>4, <4>5 DEF Written
    <3> QED BY <3>1, <3>2
  <2>5. ValidPlan(plan)'
    BY <1>1, <1>2, <2>1 DEF PlanInv, Executing, ValidPlan, FirstStep, WritesOf
  <2>6. ~Executed'
    BY <1>1, <2>1 DEF Executed
  <2> QED BY <1>1, <1>2, <2>1, <2>2, <2>3, <2>4, <2>5, <2>6 DEF PlanInv
<1>7. CASE AnswerFinish
  <2>1. UNCHANGED <<blueprint, plan, done, loop, work>> /\ done = Len(plan) /\ pc = "step"
        /\ pc' \in {"audit", "settle"}
    BY <1>7 DEF AnswerFinish, effects
  <2>2. ValidPlan(plan)' /\ \A i \in 1..done : Written(i)' <=> Written(i)
    BY <1>1, <1>2, <2>1, ZenonT(40) DEF PlanInv, Executing, ValidPlan, FirstStep, WritesOf, Written
  <2> QED BY <1>1, <1>2, <2>1, <2>2 DEF PlanInv
<1>8. CASE AnswerAudit
  <2>1. UNCHANGED <<case, blueprint, plan, done, loop, work, project>>
    BY <1>1, <1>8 DEF AnswerAudit, answers, effects
  <2>2. Executing /\ Executed /\ pc' \in {"settle", "correct"}
    BY <1>8 DEF AnswerAudit, Executing, Executed
  <2> QED BY <2>1, <2>2, PlanStays
<1>9. CASE Correct
  <2>1. UNCHANGED <<blueprint, work>> /\ plan' = RevisedPlan /\ done' = 0 /\ pc = "correct"
        /\ pc' = "step"
    BY <1>9 DEF Correct, effects
  <2>2. plan \in Seq(PlannedStep) /\ DOMAIN plan = 1..Len(plan) /\ Len(plan) \in Nat
    BY DEF PlanInv
  <2>3. \A i \in DOMAIN plan : plan[i] \in PlannedStep
    BY <2>2
  <2>4. /\ DOMAIN plan' = DOMAIN plan
        /\ \A i \in DOMAIN plan : plan'[i] = Revised(plan[i])
    BY <2>1 DEF RevisedPlan
  <2>5. \A i \in DOMAIN plan : /\ plan'[i].tool = plan[i].tool /\ plan'[i].units = plan[i].units
                               /\ plan'[i].output = plan[i].output /\ plan'[i] \in PlannedStep
    BY <2>3, <2>4, RevisedStep
  <2>6. plan' \in Seq(PlannedStep) /\ Len(plan') = Len(plan)
    BY <2>1, <2>2, <2>4, <2>5 DEF RevisedPlan
  <2>7. ValidPlan(plan)
    BY <2>1 DEF PlanInv, Executing, Executed
  <2>8. ValidPlan(plan')
    BY <2>4, <2>5, <2>7, SameStepsSameValidity
  <2>9. ValidPlan(plan)'
    BY <1>1, <1>2, <2>1, <2>8, SMTT(20) DEF ValidPlan, FirstStep, WritesOf
  <2>10. ~Executed'
    BY <1>1, <2>1 DEF Executed
  <2>11. done' \in 0..Len(plan') /\ \A i \in 1..done' : FALSE
    BY <2>1, <2>2, <2>6
  <2>12. DOMAIN work' = Files /\ DOMAIN project' = Files
    BY <1>1, <2>1 DEF PlanInv
  <2> QED BY <1>2, <2>1, <2>6, <2>9, <2>10, <2>11, <2>12 DEF PlanInv
<1>10. CASE Reject
  <2>1. UNCHANGED <<case, blueprint, plan, done, loop, work, project>> /\ pc' = pc
    BY <1>1, <1>10 DEF Reject, effects
  <2> QED BY <1>1, <2>1, PlanStays DEF Executing, Executed
<1> QED BY <1>3, <1>4, <1>5, <1>6, <1>7, <1>8, <1>9, <1>10 DEF Working

\* Every step keeps the plan's invariant.
LEMMA PlanInvKept ==
  ASSUME PlanInv, ReviewInv, OutcomeInv, [Next]_vars
  PROVE  PlanInv'
<1>1. CASE Working
  BY <1>1, WorkingKeepsPlan
<1>2. CASE Stopping
  BY <1>2, StoppingStops, ForgettingKeepsPlan
<1>3. CASE Settle
  <2>1. UNCHANGED <<case, blueprint, plan, done, loop, work, project>>
    BY <1>3 DEF Settle, At, answers, effects, others
  <2>2. Executing /\ Executed /\ pc' \in {"awaiting_review", "completed"}
    BY <1>3 DEF Settle, At, Announce, Executing, Executed
  <2> QED BY <2>1, <2>2, PlanStays
<1>4. ASSUME UNCHANGED <<case, blueprint, plan, done, loop, work, project, pc, status>>
      PROVE  PlanInv'
  BY <1>4, PlanStays DEF Executing, Executed, UnderReview
<1>5. CASE EngineNumbers
  BY <1>4, <1>5 DEF EngineNumbers, effects, answers, others
<1>6. CASE EngineInserts
  <2>1. UNCHANGED <<case, blueprint, plan, done, loop, work, project, status>>
    BY <1>6 DEF EngineInserts, effects, answers, others
  <2>2. pc' = IF pc \in Outcomes THEN "end" ELSE pc
    BY <1>6 DEF EngineInserts, Goto
  <2> QED BY <2>1, <2>2, PlanStays DEF Executing, Executed, UnderReview
<1>7. CASE AppendRaises
  <2>1. UNCHANGED <<case, project>>
    BY <1>7 DEF AppendRaises, EngineInsertFails, EnginePublishFails, AppendFailed, others
  <2>2. CASE pc \in {"failed", "cancelled"}
    <3>1. UNCHANGED <<blueprint, plan, done, loop, work, status>> /\ pc' = "end"
      BY <1>7, <2>2 DEF AppendRaises, EngineInsertFails, EnginePublishFails, AppendFailed, answers, effects, Goto
    <3> QED BY <2>1, <2>2, <3>1, PlanStays DEF Executing, Executed, UnderReview
  <2>3. CASE pc \notin {"failed", "cancelled"}
    BY <1>7, <2>1, <2>3, ForgettingKeepsPlan DEF AppendRaises, EngineInsertFails, EnginePublishFails, AppendFailed, Announce
  <2> QED BY <2>2, <2>3
<1>8. CASE Cancel
  <2>1. UNCHANGED <<case, blueprint, plan, done, loop, work, project, pc>>
        /\ (status' = status \/ status' = "cancelled")
    BY <1>8 DEF Cancel, effects, answers
  <2> QED BY <2>1, PlanStays DEF Executing, Executed, UnderReview
<1>9. CASE RouteAppends
  BY <1>4, <1>9 DEF RouteAppends, effects, answers
<1>10. CASE PublishAnother
  <2>1. UNCHANGED <<case, blueprint, plan, done, loop, work, pc, status>>
    BY <1>10 DEF PublishAnother, eventVars, effects, answers
  <2>2. DOMAIN project' = Files
    BY <1>10 DEF PublishAnother, PlanInv
  <2>3. /\ PlannedStep' = PlannedStep
        /\ ValidPlan(plan)' <=> ValidPlan(plan)
        /\ \A i \in 1..done : Written(i)' <=> Written(i)
    BY <2>1 DEF PlannedStep, Units, ValidPlan, FirstStep, WritesOf, Written
  <2> QED BY <2>1, <2>2, <2>3 DEF PlanInv, Executing, Executed, UnderReview
<1>11. CASE Following /\ UNCHANGED status
  BY <1>4, <1>11 DEF Following, effects, answers, others
<1>12. StreamStep \/ Receive \/ Answer \/ Drop => UNCHANGED status
  BY DEF StreamStep, Subscribe, ReadRows, ReadStatus, WakeUp, CloseStream, Receive, Answer,
     Drop, OfStream
<1>13. CASE UNCHANGED vars
  BY <1>4, <1>13 DEF vars, eventVars, effects, answers, others
<1> QED BY KindsOfSteps, <1>1, <1>2, <1>3, <1>5, <1>6, <1>7, <1>8, <1>9,
          <1>10, <1>11, <1>12, <1>13

-----------------------------------------------------------------------------
(* The replay of the operations: induction by the least counterexample.    *)

\* The function that FoldLeft builds: what the operations numbered in a set give.
Fold(base, operations) ==
  CHOOSE g : g = [s \in SUBSET DOMAIN operations |->
                    IF s = {} THEN base ELSE Apply(g[s \ {Max(s)}], operations[Max(s)])]

\* g folds the first n operations.
Folds(g, n, base, operations) ==
  g = [s \in SUBSET (1..n) |->
         IF s = {} THEN base ELSE Apply(g[s \ {Max(s)}], operations[Max(s)])]

\* The library's fold is the recursive function the induction is about.
LEMMA FoldLeftIsFold ==
  ASSUME NEW base, NEW operations
  PROVE  FoldLeft(Apply, base, operations) = Fold(base, operations)[DOMAIN operations]
BY DEF FoldLeft, MapThenFoldSet, Fold

\* The greatest of numbers up to n + 1, and the others.
LEMMA GreatestOfSome ==
  ASSUME NEW n \in Nat, NEW s \in SUBSET (1..(n + 1)), s # {}
  PROVE  Max(s) \in s /\ s \ {Max(s)} \in SUBSET (1..n)
<1> DEFINE T == {k \in Nat : \A y \in s : y <= k}
<1>1. n + 1 \in T /\ T \in SUBSET Nat
  OBVIOUS
<1> DEFINE m == Min(T)
<1>2. m \in T /\ \A k \in T : m <= k
  BY <1>1, LeastNumber
<1> HIDE DEF m
<1>3. m \in s
  <2> SUFFICES ASSUME m \notin s PROVE FALSE
    OBVIOUS
  <2>1. m # 0
    <3>1. PICK y \in s : y \in 1..(n + 1) /\ y <= m
      BY <1>2
    <3> QED BY <1>2, <3>1
  <2>2. m - 1 \in Nat /\ \A y \in s : y <= m - 1
    BY <1>2, <2>1
  <2> QED BY <1>2, <2>2
<1>4. \A y \in s : m >= y
  BY <1>2
<1> DEFINE g == Max(s)
<1>5. g \in s /\ \A y \in s : g >= y
  BY <1>3, <1>4 DEF Max
<1> HIDE DEF g
<1>6. s \ {g} \in SUBSET (1..n)
  BY <1>5
<1> QED BY <1>5, <1>6 DEF g

\* There is such a function, for any number of operations.
LEMMA FoldExists ==
  ASSUME NEW base, NEW operations, NEW n \in Nat
  PROVE  \E g : Folds(g, n, base, operations)
<1> DEFINE P(k) == \E g : Folds(g, k, base, operations)
           Wrong == {k \in Nat : ~P(k)}
<1>1. P(0)
  <2> DEFINE g == [s \in SUBSET (1..0) |-> base]
  <2>1. SUBSET (1..0) = {{}}
    OBVIOUS
  <2>2. Folds(g, 0, base, operations)
    BY <2>1 DEF Folds
  <2> QED BY <2>2
<1>2. ASSUME NEW k \in Nat, P(k) PROVE P(k + 1)
  <2>1. PICK g : Folds(g, k, base, operations)
    BY <1>2
  <2> DEFINE Next1(f, s) == IF s = {} THEN base ELSE Apply(f[s \ {Max(s)}], operations[Max(s)])
             h == [s \in SUBSET (1..(k + 1)) |-> Next1(g, s)]
  <2>2. ASSUME NEW s \in SUBSET (1..k) PROVE h[s] = g[s]
    <3>1. s \in SUBSET (1..(k + 1))
      OBVIOUS
    <3>2. g[s] = Next1(g, s)
      BY <2>1 DEF Folds
    <3> QED BY <3>1, <3>2
  <2>3. ASSUME NEW s \in SUBSET (1..(k + 1)) PROVE Next1(g, s) = Next1(h, s)
    <3>1. CASE s = {}
      BY <3>1
    <3>2. CASE s # {}
      <4>1. s \ {Max(s)} \in SUBSET (1..k)
        BY <3>2, GreatestOfSome
      <4>2. h[s \ {Max(s)}] = g[s \ {Max(s)}]
        BY <2>2, <4>1
      <4> HIDE DEF h
      <4> QED BY <4>2
    <3> QED BY <3>1, <3>2
  <2>4. h = [s \in SUBSET (1..(k + 1)) |-> Next1(h, s)]
    <3>1. h = [s \in SUBSET (1..(k + 1)) |-> Next1(g, s)]
      OBVIOUS
    <3> HIDE DEF h, Next1
    <3> QED BY <2>3, <3>1
  <2>5. Folds(h, k + 1, base, operations)
    <3> HIDE DEF h
    <3> QED BY <2>4 DEF Folds
  <2> QED BY <2>5
<1> HIDE DEF P
<1>3. Wrong = {}
  <2> SUFFICES ASSUME NEW x \in Wrong PROVE FALSE
    OBVIOUS
  <2> DEFINE k == Min(Wrong)
  <2>1. k \in Wrong /\ \A j \in Wrong : k <= j
    BY LeastNumber
  <2> HIDE DEF k
  <2>2. k # 0
    BY <1>1, <2>1
  <2>3. k - 1 \in Nat /\ k - 1 \notin Wrong
    BY <2>1, <2>2
  <2>4. P((k - 1) + 1)
    BY <1>2, <2>3
  <2> QED BY <2>1, <2>4
<1> QED BY <1>3 DEF P

\* That function satisfies its own recursion, up to the number of operations.
LEMMA FoldFolds ==
  ASSUME NEW base, NEW operations, NEW n \in Nat, DOMAIN operations = 1..n
  PROVE  Folds(Fold(base, operations), n, base, operations)
<1> DEFINE IsFold(g) == g = [s \in SUBSET DOMAIN operations |->
             IF s = {} THEN base ELSE Apply(g[s \ {Max(s)}], operations[Max(s)])]
<1>1. \A g : IsFold(g) <=> Folds(g, n, base, operations)
  BY DEF Folds
<1>2. \E g : IsFold(g)
  BY <1>1, FoldExists
<1>3. Fold(base, operations) = CHOOSE g : IsFold(g)
  BY DEF Fold
<1> HIDE DEF IsFold
<1>4. IsFold(Fold(base, operations))
  BY <1>2, <1>3
<1> QED BY <1>1, <1>4

\* What it gives for the operations up to a number depends on those only.
LEMMA FoldsAgree ==
  ASSUME NEW base, NEW o, NEW p, NEW g, NEW h, NEW m \in Nat, NEW n \in Nat, n <= m,
         Folds(g, m, base, o), Folds(h, n, base, p), \A i \in 1..n : o[i] = p[i]
  PROVE  \A s \in SUBSET (1..n) : g[s] = h[s]
<1> DEFINE Wrong == {k \in 0..n : \E s \in SUBSET (1..k) : g[s] # h[s]}
<1>1. ASSUME NEW s \in SUBSET (1..n), s # {}
      PROVE  /\ g[s] = Apply(g[s \ {Max(s)}], o[Max(s)])
             /\ h[s] = Apply(h[s \ {Max(s)}], p[Max(s)])
  <2>1. s \in SUBSET (1..m)
    OBVIOUS
  <2> QED BY <1>1, <2>1 DEF Folds
<1>2. {} \in SUBSET (1..m) /\ {} \in SUBSET (1..n)
  OBVIOUS
<1>3. g[{}] = base /\ h[{}] = base
  BY <1>2 DEF Folds
<1>4. Wrong = {}
  <2> SUFFICES ASSUME NEW x \in Wrong PROVE FALSE
    OBVIOUS
  <2> DEFINE k == Min(Wrong)
  <2>1. k \in Wrong /\ \A j \in Wrong : k <= j
    <3>1. Wrong \in SUBSET Nat
      OBVIOUS
    <3> HIDE DEF Wrong
    <3> QED BY <3>1, LeastNumber
  <2> HIDE DEF k
  <2>2. PICK s \in SUBSET (1..k) : g[s] # h[s]
    BY <2>1
  <2>3. k \in 0..n /\ s # {}
    BY <1>3, <2>1, <2>2
  <2>4. k # 0
    <3>1. PICK y \in s : y \in 1..k
      BY <2>2, <2>3
    <3> QED BY <2>3, <3>1
  <2>5. k - 1 \in 0..n /\ k - 1 \notin Wrong /\ k - 1 \in Nat /\ (k - 1) + 1 = k
    <3>1. k - 1 \in 0..n /\ ~(k <= k - 1)
      BY <2>3, <2>4
    <3> HIDE DEF Wrong
    <3> QED BY <2>1, <3>1, <2>3
  <2>6. Max(s) \in s /\ s \ {Max(s)} \in SUBSET (1..(k - 1))
    BY <2>3, <2>5, GreatestOfSome
  <2>7. g[s \ {Max(s)}] = h[s \ {Max(s)}]
    BY <2>5, <2>6
  <2>8. s \in SUBSET (1..n) /\ Max(s) \in 1..n
    <3>1. \A y \in 1..k : y \in 1..n
      BY <2>3
    <3> QED BY <2>2, <2>6, <3>1
  <2>9. o[Max(s)] = p[Max(s)]
    BY <2>8
  <2> QED BY <1>1, <2>2, <2>3, <2>7, <2>8, <2>9
<1> QED BY <1>4

\* Nothing is replayed.
LEMMA ReplayOfNothing ==
  ASSUME NEW base
  PROVE  FoldLeft(Apply, base, <<>>) = base
<1>1. DOMAIN <<>> = 1..0
  OBVIOUS
<1>2. Folds(Fold(base, <<>>), 0, base, <<>>)
  BY <1>1, FoldFolds
<1>3. {} \in SUBSET (1..0) /\ 1..0 = {}
  OBVIOUS
<1> QED BY <1>1, <1>2, <1>3, FoldLeftIsFold DEF Folds

\* One more operation is applied to what those before it give.
LEMMA ReplayOfOneMore ==
  ASSUME NEW base, NEW S, NEW o \in Seq(S), NEW x
  PROVE  FoldLeft(Apply, base, Append(o, x)) = Apply(FoldLeft(Apply, base, o), x)
<1> DEFINE n == Len(o)
           p == Append(o, x)
           g == Fold(base, p)
           h == Fold(base, o)
<1>1. /\ n \in Nat /\ DOMAIN o = 1..n /\ DOMAIN p = 1..(n + 1)
      /\ p[n + 1] = x /\ \A i \in 1..n : p[i] = o[i]
  OBVIOUS
<1> HIDE DEF n, p
<1>2. Folds(g, n + 1, base, p)
  BY <1>1, FoldFolds
<1>3. Folds(h, n, base, o)
  BY <1>1, FoldFolds
<1> HIDE DEF g, h
<1>4. \A s \in SUBSET (1..n) : g[s] = h[s]
  BY <1>1, <1>2, <1>3, FoldsAgree
<1> DEFINE all == 1..(n + 1)
<1>5. all \in SUBSET (1..(n + 1)) /\ all # {}
  <2>1. n + 1 \in all
    <3>1. n \in Nat
      BY <1>1
    <3> QED BY <3>1
  <2> QED BY <2>1
<1>6. Max(all) = n + 1
  BY <1>1, GreatestOfInterval
<1>7. all \ {n + 1} = 1..n
  <2>1. n \in Nat
    BY <1>1
  <2>2. \A y : y \in all \ {n + 1} <=> y \in 1..n
    BY <2>1
  <2> QED BY <2>2
<1>8. g[all] = Apply(g[1..n], p[n + 1])
  <2> HIDE DEF all
  <2> QED BY <1>2, <1>5, <1>6, <1>7 DEF Folds
<1>9. FoldLeft(Apply, base, p) = g[all] /\ FoldLeft(Apply, base, o) = h[1..n]
  BY <1>1, FoldLeftIsFold DEF g, h
<1> QED BY <1>1, <1>4, <1>8, <1>9 DEF p

-----------------------------------------------------------------------------
(* The operations of a run give the knowledge it works with.               *)

Operation == [operation : {"upsert", "delete"}, record : Records]
Live == pc \in {"blueprint", "plan", "step", "audit", "correct", "settle"} \/ UnderReview

\* Over all corrections, the operations applied to the base give the records; what is
\* under review are those operations.
ReplayInv ==
  /\ ops \in Seq(Operation)
  /\ pc = "context" => ops = <<>>
  /\ Live => FoldLeft(Apply, case.base, ops) = records
  /\ case.mode = "write" /\ (pc \in {"audit", "settle"} \/ UnderReview) => changes.knowledge = ops

\* A step that leaves the operations alone and enters no later phase keeps the replay invariant.
LEMMA ReplayStays ==
  ASSUME ReplayInv, UNCHANGED <<case, ops, records, changes>>, Live' => Live, pc' # "context",
         pc' \in {"audit", "settle"} => pc \in {"audit", "settle"} \/ UnderReview,
         UnderReview' => pc \in {"audit", "settle"} \/ UnderReview
  PROVE  ReplayInv'
BY DEF ReplayInv

\* A step that touches neither operations nor phase keeps the replay invariant.
LEMMA ReplayUnchanged ==
  ASSUME ReplayInv, UNCHANGED <<case, ops, records, changes, pc, status>>
  PROVE  ReplayInv'
BY DEF ReplayInv, Live, UnderReview

\* An engine that fails or is cancelled keeps the replay invariant.
LEMMA ForgettingKeepsReplay ==
  ASSUME ReplayInv, Forget, pc' \in {"failed", "cancelled"}, status' = pc'
  PROVE  ReplayInv'
<1>1. <<>> \in Seq(Operation)
  OBVIOUS
<1> QED BY <1>1 DEF ReplayInv, Forget, Live, UnderReview

\* Working steps keep the replay invariant: each operation recorded is one applied.
LEMMA WorkingKeepsReplay ==
  ASSUME DataInv, ReviewInv, ReplayInv, Working
  PROVE  ReplayInv'
<1> USE DEF At, Asks, Goto, Announce, Asking
<1>1. UNCHANGED <<case, status>> /\ ~UnderReview /\ ~UnderReview'
      /\ pc' \in Asking \cup {"correct", "settle"}
  BY WorkingIsQuiet DEF ReviewInv, UnderReview
<1>2. CASE BuildContext
  <2>1. ops = <<>> /\ ops' = ops /\ records' = case.base /\ pc' = "blueprint"
    BY <1>2 DEF BuildContext, ReplayInv
  <2> QED BY <1>1, <2>1, ReplayOfNothing DEF ReplayInv
<1>3. CASE AnswerBlueprint
  BY <1>1, <1>3, ReplayStays DEF AnswerBlueprint, effects, Live
<1>4. CASE AnswerPlan
  BY <1>1, <1>4, ReplayStays DEF AnswerPlan, effects, Live
<1>5. CASE UseTool
  <2>1. pc = "step" /\ pc' = "step" /\ UNCHANGED changes
    BY <1>5 DEF UseTool
  <2>2. FoldLeft(Apply, case.base, ops) = records /\ ops \in Seq(Operation)
    BY <2>1 DEF ReplayInv, Live
  <2>3. records # None
    BY NoneAssumption DEF DataInv
  <2>4. ASSUME NEW r \in Records, NEW kind \in {"upsert", "delete"},
               ops' = Append(ops, [operation |-> kind, record |-> r]),
               kind = "upsert" => records' = records \cup {r},
               kind = "delete" => r \in records /\ records' = records \ {r}
        PROVE  ReplayInv'
    <3> DEFINE o == [operation |-> kind, record |-> r]
    <3>1. o \in Operation /\ o.operation = kind /\ o.record = r
      BY DEF Operation
    <3>2. ops' \in Seq(Operation)
      BY <2>2, <2>4, <3>1
    <3> HIDE DEF o
    <3>3. Apply(records, o) = records'
      BY <2>3, <2>4, <3>1 DEF Apply
    <3>4. FoldLeft(Apply, case.base, Append(ops, o)) = Apply(FoldLeft(Apply, case.base, ops), o)
      BY <2>2, ReplayOfOneMore
    <3>5. ops' = Append(ops, o)
      BY <2>4 DEF o
    <3>6. FoldLeft(Apply, case.base, ops)' = records'
      BY <1>1, <2>2, <3>3, <3>4, <3>5
    <3> QED BY <1>1, <2>1, <3>2, <3>6 DEF ReplayInv
  <2>5. CASE UpsertKnowledge
    BY <2>4, <2>5 DEF UpsertKnowledge
  <2>6. CASE DeleteKnowledge
    BY <2>4, <2>6 DEF DeleteKnowledge, DataInv
  <2>7. CASE UNCHANGED <<records, ops>>
    BY <1>1, <2>1, <2>7, ReplayUnchanged
  <2> QED BY <1>5, <2>5, <2>6, <2>7 DEF UseTool, WriteFile, DeleteFile, ReadOnly, effects
<1>6. CASE AnswerFinish
  <2>1. UNCHANGED <<records, ops>> /\ pc = "step" /\ changes' = Collected /\ pc' \in {"audit", "settle"}
    BY <1>6 DEF AnswerFinish, effects
  <2> QED BY <1>1, <2>1 DEF ReplayInv, Live, Collected
<1>7. CASE AnswerAudit
  BY <1>1, <1>7, ReplayStays DEF AnswerAudit, effects, answers, Live
<1>8. CASE Correct
  BY <1>1, <1>8, ReplayStays DEF Correct, effects, Live
<1>9. CASE Reject
  BY <1>1, <1>9, ReplayUnchanged DEF Reject, effects
<1> QED BY <1>2, <1>3, <1>4, <1>5, <1>6, <1>7, <1>8, <1>9 DEF Working

\* Every step keeps the replay invariant.
LEMMA ReplayInvKept ==
  ASSUME DataInv, OutcomeInv, ReviewInv, ReplayInv, [Next]_vars
  PROVE  ReplayInv'
<1>1. CASE Working
  BY <1>1, WorkingKeepsReplay
<1>2. CASE Stopping
  BY <1>2, StoppingStops, ForgettingKeepsReplay
<1>3. CASE Settle
  <2>1. UNCHANGED <<case, ops, records, changes>> /\ pc = "settle"
        /\ pc' \in {"awaiting_review", "completed"}
    BY <1>3 DEF Settle, At, Announce, answers, effects
  <2> QED BY <2>1, ReplayStays DEF Live
<1>5. CASE EngineNumbers
  BY <1>5, ReplayUnchanged DEF EngineNumbers, effects, answers
<1>6. CASE EngineInserts
  <2>1. UNCHANGED <<case, ops, records, changes, status>>
        /\ pc' = IF pc \in Outcomes THEN "end" ELSE pc
    BY <1>6 DEF EngineInserts, Goto, effects, answers
  <2>2. CASE pc \in Outcomes
    BY <2>1, <2>2, ReplayStays DEF Live, UnderReview, Outcomes
  <2>3. CASE pc \notin Outcomes
    BY <2>1, <2>3, ReplayUnchanged
  <2> QED BY <2>2, <2>3
<1>7. CASE AppendRaises
  <2>1. CASE pc \in {"failed", "cancelled"}
    <3>1. UNCHANGED <<case, ops, records, changes, status>> /\ pc' = "end"
      BY <1>7, <2>1 DEF AppendRaises, EngineInsertFails, EnginePublishFails, AppendFailed, Goto, effects, answers
    <3> QED BY <3>1, ReplayStays DEF Live, UnderReview
  <2>2. CASE pc \notin {"failed", "cancelled"}
    BY <1>7, <2>2, ForgettingKeepsReplay DEF AppendRaises, EngineInsertFails, EnginePublishFails, AppendFailed, Announce
  <2> QED BY <2>1, <2>2
<1>8. CASE Cancel
  <2>1. UNCHANGED <<case, ops, records, changes, pc>>
        /\ (status' = status \/ status' = "cancelled")
    BY <1>8 DEF Cancel, effects, answers
  <2> QED BY <2>1 DEF ReplayInv, Live, UnderReview
<1>9. CASE RouteAppends
  BY <1>9, ReplayUnchanged DEF RouteAppends, effects, answers
<1>10. CASE PublishAnother
  BY <1>10, ReplayUnchanged DEF PublishAnother, eventVars, effects, answers
<1>11. CASE Following /\ UNCHANGED status
  BY <1>11, ReplayUnchanged DEF Following, effects, answers
<1>12. StreamStep \/ Receive \/ Answer \/ Drop => UNCHANGED status
  BY DEF StreamStep, Subscribe, ReadRows, ReadStatus, WakeUp, CloseStream, Receive, Answer,
     Drop, OfStream
<1>13. CASE UNCHANGED vars
  BY <1>13, ReplayUnchanged DEF vars, eventVars, effects, answers
<1> QED BY KindsOfSteps, <1>1, <1>2, <1>3, <1>5, <1>6, <1>7, <1>8, <1>9,
          <1>10, <1>11, <1>12, <1>13

-----------------------------------------------------------------------------
(* The theorems.                                                           *)

Inv == DataInv /\ EventsInv /\ OutcomeInv /\ ReviewInv /\ PlanInv /\ ReplayInv

\* What holds of a run that begins holds until it is over.
LEMMA Invariance == Spec => []Inv
<1>1. Init => Inv
  <2> SUFFICES ASSUME Init PROVE Inv
    OBVIOUS
  <2> USE DEF Init, EventsInit
  <2>1. DataInv
    <3>1. {c.path : c \in changes.files} \subseteq Files
      BY DEF Absent
    <3>2. case \in Cases /\ loop \in 0..MaxCorrections
      BY CorrectionsAssumption
    <3>3. records \subseteq Records /\ context \subseteq case.base
      OBVIOUS
    <3>4. pc = "context" /\ announcing \in BOOLEAN /\ status \in {"running"} \cup Outcomes
      OBVIOUS
    <3> QED BY <3>1, <3>2, <3>3, <3>4 DEF DataInv
  <2>2. EventsInv
    <3>1. EventsAre(1, 0)
      BY DEF EventsAre, Writers, StreamPoints
    <3> QED BY <3>1 DEF EventsInv
  <2>3. OutcomeInv
    BY DEF OutcomeInv, Outcomes
  <2>4. ReviewInv
    BY DEF ReviewInv, UnderReview
  <2>5. PlanInv
    BY DEF PlanInv, Executing, Executed, UnderReview
  <2>6. ReplayInv
    <3>1. <<>> \in Seq(Operation)
      OBVIOUS
    <3> QED BY <3>1 DEF ReplayInv, Live, UnderReview
  <2> QED BY <2>1, <2>2, <2>3, <2>4, <2>5, <2>6 DEF Inv
<1>2. Inv /\ [Next]_vars => Inv'
  BY DataInvKept, EventsInvKept, OutcomeInvKept, ReviewInvKept, PlanInvKept,
     ReplayInvKept DEF Inv
<1> QED BY <1>1, <1>2, PTL DEF Spec

\* Types, and what the schemas require of a plan.
THEOREM TypeCorrect == Spec => []TypeOK
<1>1. Inv => TypeOK
  <2> SUFFICES ASSUME Inv PROVE TypeOK
    OBVIOUS
  <2>1. PICK n \in Nat, m \in Nat : EventsAre(n, m)
    BY DEF Inv, EventsInv
  <2>2. EventsTypeOK
    <3>1. Greatest(DOMAIN events) = n /\ DOMAIN events = 1..n
      BY <2>1, GreatestNumber DEF EventsAre
    <3>2. /\ number \in [Writers -> Nat]
          /\ stream.cursor \in Nat /\ stream.wire \subseteq DOMAIN events
          /\ browser.seen \subseteq DOMAIN events
      BY <2>1 DEF EventsAre
    <3> QED BY <3>1, <3>2 DEF EventsTypeOK, Inv, DataInv
  <2>3. \A i \in DOMAIN plan : plan[i] \in PlannedStep
    BY DEF Inv, PlanInv
  <2>4. \A i \in DOMAIN plan :
          plan[i] \in [tool : ReadTools \cup WriteTools, role : ToolRoles(plan[i].tool),
                       units : SUBSET Units, output : Files \cup {None}]
    BY <2>3 DEF PlannedStep
  <2> QED BY <2>2, <2>4 DEF TypeOK, Inv, DataInv, PlanInv
<1> QED BY <1>1, Invariance, PTL

\* However the writers of events interleave and the connection breaks, a browser
\* that has received an event has received all before it.
THEOREM StreamsAreGapless == Spec => []NoEventIsSkipped
<1>1. Inv => NoEventIsSkipped
  BY DEF Inv, EventsInv, EventsAre, NoEventIsSkipped
<1> QED BY <1>1, Invariance, PTL

\* A browser that has received the event of an outcome shows an outcome once its
\* refreshes are answered, and the one that was announced unless it was overwritten;
\* with appends that fail before or after their commit, and late cancellations.
THEOREM OutcomesAreShown == Spec => []OutcomeIsShown
<1>1. Inv => OutcomeIsShown
  BY DEF Inv, OutcomeInv, Informed, OutcomeIsShown
<1> QED BY <1>1, Invariance, PTL

\* A review shows the files and operations of the workspace, over all corrections.
THEOREM ReviewsShowTheWorkspace == Spec => []ReviewShowsWorkspace
<1>1. Inv => ReviewShowsWorkspace
  BY DEF Inv, ReviewInv, ReviewShowsWorkspace
<1> QED BY <1>1, Invariance, PTL

\* Every unit of a run under review was written by its step of the last loop, unless
\* a later step has touched the file again.
THEOREM UnitsReachTheReview == Spec => []UnitsAreDelivered
<1>1. Inv => UnitsAreDelivered
  <2> SUFFICES ASSUME Inv, UnderReview, NEW u \in Units
               PROVE  \E i \in WritesOf(plan, u) :
                        \/ work[blueprint.target[u]] = Text("run", loop, i)
                        \/ \E j \in DOMAIN plan : j > i /\ plan[j].output = blueprint.target[u]
    BY DEF UnitsAreDelivered
  <2>1. /\ plan \in Seq(PlannedStep) /\ done = Len(plan) /\ case.mode = "write"
        /\ Cardinality(WritesOf(plan, u)) = 1
    BY DEF Inv, ReviewInv, PlanInv, Executing, Executed, ValidPlan
  <2>2. WritesOf(plan, u) # {}
    <3> SUFFICES ASSUME WritesOf(plan, u) = {} PROVE FALSE
      OBVIOUS
    <3>1. Cardinality({}) = 0
      BY FS_EmptySet
    <3> QED BY <2>1, <3>1
  <2>3. PICK i \in WritesOf(plan, u) : TRUE
    BY <2>2
  <2>4. /\ i \in 1..done /\ DOMAIN plan = 1..done /\ done \in Nat
        /\ plan[i].tool = "write_file" /\ plan[i].output = blueprint.target[u]
    BY <2>1 DEF WritesOf
  <2>5. Written(i)
    BY <2>4 DEF Inv, PlanInv
  <2> QED BY <2>4, <2>5 DEF Written
<1> QED BY <1>1, Invariance, PTL

\* The operations under review, applied to the base, give the knowledge the run worked
\* with, and are refused only if a relation loses its ends.
THEOREM OperationsReplay == Spec => []KnowledgeReplays
<1>1. Inv => KnowledgeReplays
  <2> SUFFICES ASSUME Inv, UnderReview
               PROVE  Applied(case.base, changes.knowledge) =
                        (IF Connected(records) THEN records ELSE None)
    BY DEF KnowledgeReplays
  <2>1. changes.knowledge = ops /\ FoldLeft(Apply, case.base, ops) = records
    BY DEF Inv, ReviewInv, ReplayInv, Live
  <2>2. records # None
    BY NoneAssumption DEF Inv, DataInv
  <2> QED BY <2>1, <2>2 DEF Applied
<1> QED BY <1>1, Invariance, PTL
=============================================================================
