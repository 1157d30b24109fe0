----------------------------- MODULE AgentEngine -----------------------------
(***************************************************************************)
(* One execution of an agent run: context, blueprint, plan, tool loop,     *)
(* validation, audit and corrections, while the run may be cancelled,      *)
(* another run may be published and a browser follows the events.          *)
(*                                                                         *)
(* What the model answers is chosen freely among the answers its schema    *)
(* allows.  Text is abstracted to who wrote it: the project's own text, a  *)
(* publication of another run, or a step of a loop of this run.            *)
(***************************************************************************)
EXTENDS SequencesExt, AgentEvents

CONSTANTS
  Files,          \* paths the run may write
  Records,        \* ids of knowledge records
  Required,       \* those that are required constraints
  Ends,           \* the records a relation connects; no relation: {}
  Cases,          \* the runs of the instance, see Init
  MaxRejections,  \* bound: answers that violate their schema or the context
  MaxCorrections  \* bound: loops after the first

ASSUME NoneAssumption == \A s \in SUBSET Records : s # None
ASSUME CorrectionsAssumption == MaxCorrections \in Nat
ASSUME CasesAssumption == \A c \in Cases : c.base \subseteq Records /\ c.steps \in Nat

VARIABLES
  case,        \* mode, skill, base knowledge, files; what else happens; size of answers
  pc,          \* where the engine is
  announcing,  \* it first appends an event
  context,     \* CreativeContextBundle: ids of the knowledge in it
  blueprint,   \* CreativeBlueprint: target and dependencies of each unit
  plan,        \* CreationPlan: the steps of this loop
  done,        \* len(history): the steps executed in this loop
  loop,        \* corrections made
  project,     \* the files of the project
  work,        \* the files of the run's workspace
  records,     \* tool_context.knowledge_records
  ops,         \* tool_context.knowledge_operations
  finish,      \* AgentFinish
  changes,     \* ChangeSet
  rejections,  \* answers rejected so far
  route,       \* the request that cancels the run: idle, appends its event, ended
  moved        \* another run was published since this one began

answers == <<context, blueprint, plan, done, loop, finish, changes, rejections>>
effects == <<work, records, ops>>
others  == <<project, route, moved>>
vars == <<case, pc, announcing, answers, effects, others, eventVars>>

-----------------------------------------------------------------------------
(* Skills, roles and tools.                                                *)

ReadTools  == {"read_file", "knowledge_get"}  \* and those that list and search
FileTools  == {"write_file", "delete_file"}
KnowledgeTools == {"knowledge_upsert", "knowledge_delete"}
WriteTools == FileTools \cup KnowledgeTools

PlanningRoles == {"writer", "evaluator", "updater", "memory_builder", "graph_extractor"}
ExecutionOrder == <<"writer", "evaluator", "updater", "memory_builder", "graph_extractor">>

ToolRoles(tool) ==
  CASE tool \in ReadTools      -> PlanningRoles \cup {"planner", "composer", "auditor", "reviser"}
    [] tool \in FileTools      -> {"writer", "reviser"}
    [] tool \in KnowledgeTools -> {"updater", "memory_builder", "graph_extractor"}

Skill(modes, roles, tools) == [modes |-> modes, roles |-> roles, tools |-> tools]

Skills ==
  [general |-> Skill({"write", "analyze", "suggest"},
                     PlanningRoles \cup {"auditor", "reviser"}, ReadTools \cup WriteTools),
   analyzer |-> Skill({"analyze"}, {"auditor", "evaluator"}, ReadTools),
   continuation |-> Skill({"write", "suggest"}, {"writer", "auditor", "reviser"},
                          ReadTools \cup WriteTools),
   rewriter |-> Skill({"write"}, {"writer", "auditor", "reviser"}, ReadTools \cup {"write_file"}),
   outliner |-> Skill({"write", "analyze"}, {"writer", "auditor"}, ReadTools \cup {"write_file"}),
   critic |-> Skill({"analyze"}, {"auditor", "evaluator"}, ReadTools),
   knowledgeBuilder |-> Skill({"write", "analyze"}, {"updater", "memory_builder", "graph_extractor"},
                              ReadTools \cup KnowledgeTools),
   coauthor |-> Skill({"suggest"}, {"writer", "auditor"}, ReadTools)]

\* resolve_project_skill: the mode and the role it is started with.
Startable(mode, slug) ==
  /\ mode \in Skills[slug].modes
  /\ (IF mode = "analyze" THEN "auditor" ELSE "writer") \in Skills[slug].roles

TheSkill == Skills[case.slug]

\* The tools a plan may use, and the role each of its steps gets.
PlannedRoles(tool) == TheSkill.roles \cap PlanningRoles \cap ToolRoles(tool)
PlannedTools ==
  {t \in TheSkill.tools \cap (IF case.mode = "write" THEN WriteTools ELSE ReadTools) :
     PlannedRoles(t) # {}}
RoleOf(tool) ==
  ExecutionOrder[Min({i \in 1..Len(ExecutionOrder) : ExecutionOrder[i] \in PlannedRoles(tool)})]

AllowedTools == TheSkill.tools \ (IF case.mode = "write" THEN {} ELSE WriteTools)

-----------------------------------------------------------------------------
(* What the model may answer.                                              *)

Units == 1..case.units

\* validate_references and the checks of _create_blueprint.
Blueprints ==
  {b \in [target : [Units -> Files \cup {None}], deps : [Units -> SUBSET Units]] :
     /\ \A u \in Units : u \notin b.deps[u]
     /\ case.mode # "write" => \A u \in Units : b.target[u] = None
     /\ case.mode = "write" => \A u, v \in Units : u # v => b.target[u] # b.target[v]}

Steps ==
  {[tool |-> t, role |-> RoleOf(t), units |-> us, output |-> f] :
     t \in PlannedTools, us \in (SUBSET Units) \ {{}}, f \in Files \cup {None}}

PlanSteps == {s \in Steps : s.tool \in FileTools <=> s.output # None}

FirstStep(p, u) == Min({i \in DOMAIN p : u \in p[i].units})
WritesOf(p, u) ==
  {i \in DOMAIN p : /\ p[i].tool = "write_file" /\ u \in p[i].units
                    /\ p[i].output = blueprint.target[u]}

\* Seeded defect: a unit without its writing is accepted.
ValidPlanAtMostOnce(p) ==
  /\ UNION {p[i].units : i \in DOMAIN p} = Units
  /\ \A u \in Units : \A d \in blueprint.deps[u] : FirstStep(p, d) < FirstStep(p, u)
  /\ case.mode = "write" =>
       \A u \in Units : blueprint.target[u] # None /\ Cardinality(WritesOf(p, u)) <= 1

\* The checks of _create_plan.
ValidPlan(p) ==
  /\ UNION {p[i].units : i \in DOMAIN p} = Units
  /\ \A u \in Units : \A d \in blueprint.deps[u] : FirstStep(p, d) < FirstStep(p, u)
  /\ case.mode = "write" =>
       \A u \in Units : blueprint.target[u] # None /\ Cardinality(WritesOf(p, u)) = 1

-----------------------------------------------------------------------------
(* Initial states.                                                         *)

Text(by, in, step) == [by |-> by, loop |-> in, step |-> step]

Absent == [files |-> {}, knowledge |-> <<>>]

Init ==
  /\ case \in {c \in Cases : Startable(c.mode, c.slug)}
  /\ pc = "context" /\ announcing = FALSE
  /\ project = [f \in Files |-> IF f \in case.files THEN Text("project", 0, 0) ELSE None]
  /\ context = {} /\ records = {} /\ ops = <<>>
  /\ blueprint = None /\ plan = <<>> /\ done = 0 /\ loop = 0
  /\ work = [f \in Files |-> None]
  /\ finish = None /\ changes = Absent
  /\ rejections = 0 /\ route = "idle" /\ moved = FALSE
  /\ EventsInit(case.watched)

-----------------------------------------------------------------------------
(* The engine.  A step is what happens between two transactions that others *)
(* can see; every step that asks the model first looks for a cancellation. *)

At(p) == pc = p /\ ~announcing /\ UNCHANGED case
Goto(p) == pc' = p /\ announcing' = FALSE
Announce(p) == pc' = p /\ announcing' = TRUE
OfEvents == UNCHANGED <<events, number, stream, browser, drops>>
Quiet == UNCHANGED status /\ OfEvents

\* The except blocks: what the try block had computed is out of scope, the workspace
\* is deleted and the status committed; the event follows.
Forget ==
  /\ work' = [f \in Files |-> None] /\ records' = {} /\ ops' = <<>>
  /\ context' = {} /\ blueprint' = None /\ plan' = <<>> /\ done' = 0 /\ loop' = 0
  /\ finish' = None /\ changes' = Absent /\ rejections' = 0

Stop(outcome) ==
  /\ Announce(outcome)
  /\ status' = outcome
  /\ Forget
  /\ UNCHANGED others /\ OfEvents

Fail == Stop("failed")

\* _check_cancelled.
Cancelled == route # "idle"

Asking == {"blueprint", "plan", "step", "audit"}
Asks(p) == At(p) /\ ~Cancelled

Interrupt == (\E p \in Asking : At(p)) /\ Cancelled /\ Stop("cancelled")

\* The memory service or a model fails or is not configured; the plan is refused by
\* _create_plan, the finish by _validate_changes; a tool finds no such file or record;
\* a writer answers with a fence.
EngineFails == (At("context") \/ \E p \in Asking : Asks(p)) /\ Fail

\* _llm_json and _create_blueprint: the answer is rejected, which is recorded, and
\* asked for again.
Reject ==
  /\ \/ \E p \in Asking \ {"step"} : Asks(p)
     \/ Asks("step") /\ \A i \in {done + 1} \cap DOMAIN plan : plan[i].tool # "write_file"
  /\ rejections < MaxRejections /\ rejections' = rejections + 1
  /\ Announce(pc)
  /\ UNCHANGED <<context, blueprint, plan, done, loop, finish, changes, effects, others>> /\ Quiet

\* The workspace is copied, and the context holds what recall and the reranker
\* return and every constraint.
BuildContext ==
  /\ At("context")
  /\ work' = project /\ records' = case.base
  /\ \E recalled \in SUBSET case.base : context' = recalled \cup (case.base \cap Required)
  /\ Goto("blueprint")
  /\ UNCHANGED <<blueprint, plan, done, loop, finish, changes, rejections, ops, others>> /\ Quiet

AnswerBlueprint ==
  /\ Asks("blueprint")
  /\ blueprint' \in Blueprints
  /\ Announce("plan")
  /\ UNCHANGED <<context, plan, done, loop, finish, changes, rejections, effects, others>> /\ Quiet

AnswerPlan ==
  /\ Asks("plan")
  /\ \E n \in 1..case.steps : \E p \in [1..n -> PlanSteps] :
       /\ ValidPlan(p)
       /\ plan' = p
  /\ Announce("step")
  /\ UNCHANGED <<context, blueprint, done, loop, finish, changes, rejections, effects, others>>
  /\ Quiet

Current == plan[done + 1]

\* The files of the dependencies, which _run_tool_loop reads for a write.
DependencyFiles ==
  {blueprint.target[d] : d \in UNION {blueprint.deps[u] : u \in Current.units}} \ {None}

Permitted ==
  Current.tool \in AllowedTools /\ Current.role \in ToolRoles(Current.tool)

\* What a tool does; LookupError and FileNotFoundError are errors of the run.
WriteFile ==
  /\ Current.tool = "write_file"
  /\ \A f \in DependencyFiles : work[f] # None
  /\ work' = [work EXCEPT ![Current.output] = Text("run", loop, done + 1)]
  /\ UNCHANGED <<records, ops>>

DeleteFile ==
  /\ Current.tool = "delete_file" /\ work[Current.output] # None
  /\ work' = [work EXCEPT ![Current.output] = None]
  /\ UNCHANGED <<records, ops>>

UpsertKnowledge ==
  /\ Current.tool = "knowledge_upsert"
  /\ \E r \in Records :
       /\ records' = records \cup {r}
       /\ ops' = Append(ops, [operation |-> "upsert", record |-> r])
  /\ UNCHANGED work

DeleteKnowledge ==
  /\ Current.tool = "knowledge_delete"
  /\ \E r \in records :
       /\ records' = records \ {r}
       /\ ops' = Append(ops, [operation |-> "delete", record |-> r])
  /\ UNCHANGED work

ReadOnly == Current.tool \in ReadTools /\ UNCHANGED effects

UseTool ==
  /\ Asks("step") /\ done < Len(plan) /\ Permitted
  /\ WriteFile \/ DeleteFile \/ UpsertKnowledge \/ DeleteKnowledge \/ ReadOnly
  /\ done' = done + 1
  /\ Announce("step")
  /\ UNCHANGED <<context, blueprint, plan, loop, finish, changes, rejections, others>> /\ Quiet

\* collect_file_changes compares the workspace with the project of now.
FileChanges == {[path |-> f, after |-> work[f]] : f \in {f \in Files : work[f] # project[f]}}
\* Seeded defect: the changes are collected before the first audit only.
CollectedOnce == IF loop > 0 THEN changes ELSE [files |-> FileChanges, knowledge |-> ops]

Collected == IF case.mode = "write" THEN [files |-> FileChanges, knowledge |-> ops] ELSE Absent

\* _validate_changes, of an answer that is right about the units, the knowledge of the
\* plan and the number of operations.
Validated(answer, found) ==
  /\ {c.path : c \in found.files} = answer.files
  /\ answer.used \subseteq context
  /\ case.mode = "write" =>
       context \cap Required \subseteq answer.used /\ (found.files # {} \/ found.knowledge # <<>>)

\* AgentFinish, the files it declares and the knowledge it says it used, and what
\* follows without waiting: the changes are collected and validated.
AnswerFinish ==
  /\ Asks("step") /\ done = Len(plan)
  /\ changes' = Collected
  /\ \E declared \in SUBSET Files, used \in SUBSET Records :
       finish' = [files |-> declared, used |-> used]
  /\ Validated(finish', changes')
  /\ Goto(IF case.mode = "write" THEN "audit" ELSE "settle")
  /\ UNCHANGED <<context, blueprint, plan, done, loop, rejections, effects, others>> /\ Quiet

\* _audit; what it says is recorded before the loop goes on.
AnswerAudit ==
  /\ Asks("audit")
  /\ \/ Announce("settle")
     \/ loop < MaxCorrections /\ Announce("correct")
  /\ UNCHANGED <<answers, effects, others>> /\ Quiet

Revised(step) == [step EXCEPT !.role = IF @ = "writer" THEN "reviser" ELSE @]
RevisedPlan == [i \in DOMAIN plan |-> Revised(plan[i])]

\* Seeded defect: the operations of the loop before are forgotten.
CorrectForgetting ==
  /\ At("correct")
  /\ \A i \in DOMAIN plan : RevisedPlan[i].role \in TheSkill.roles
  /\ plan' = RevisedPlan /\ done' = 0 /\ loop' = loop + 1
  /\ ops' = <<>>
  /\ Goto("step")
  /\ UNCHANGED <<context, blueprint, finish, changes, rejections, work, records, others>> /\ Quiet

\* The whole plan is executed again, on the same workspace and operations.
Correct ==
  /\ At("correct")
  /\ \A i \in DOMAIN plan : RevisedPlan[i].role \in TheSkill.roles
  /\ plan' = RevisedPlan /\ done' = 0 /\ loop' = loop + 1
  /\ Goto("step")
  /\ UNCHANGED <<context, blueprint, finish, changes, rejections, effects, others>> /\ Quiet

CorrectFails ==
  /\ At("correct")
  /\ \E i \in DOMAIN plan : RevisedPlan[i].role \notin TheSkill.roles
  /\ Fail

Settle ==
  /\ At("settle")
  /\ status' = IF case.mode = "write" THEN "awaiting_review" ELSE "completed"
  /\ Announce(status')
  /\ UNCHANGED <<answers, effects, others>> /\ OfEvents

-----------------------------------------------------------------------------
(* The events of the engine and of the route.                              *)

EngineNumbers ==
  /\ announcing /\ NumberEvent("engine")
  /\ UNCHANGED <<case, pc, announcing, answers, effects, others, status, events, stream, browser, drops>>

EngineInserts ==
  /\ announcing
  /\ InsertEvent("engine", IF pc \in Outcomes THEN pc ELSE "step")
  /\ Goto(IF pc \in Outcomes THEN "end" ELSE pc)
  /\ UNCHANGED <<case, answers, effects, others, status, stream, browser, drops>>

\* Within the try block an append that fails fails the run, also one that awaits
\* review already; in the except blocks the error goes to the worker.
AppendFailed ==
  IF pc \in {"failed", "cancelled"}
  THEN Goto("end") /\ UNCHANGED <<status, answers, effects>>
  ELSE Announce("failed") /\ status' = "failed" /\ Forget

EngineInsertFails ==
  /\ announcing /\ InsertFails("engine")
  /\ AppendFailed
  /\ UNCHANGED <<case, others, events, stream, browser, drops>>

\* The event is committed and its publication on Redis fails.
EnginePublishFails ==
  /\ announcing
  /\ InsertEvent("engine", IF pc \in Outcomes THEN pc ELSE "step")
  /\ AppendFailed
  /\ UNCHANGED <<case, others, stream, browser, drops>>

\* cancel_agent_run has read the run active, and commits the request whatever the run
\* has become: a cancelled status, too, if it had read the run in the queue.  It
\* appends an event.
Cancel ==
  /\ case.cancelled /\ route = "idle"
  /\ route' = "append"
  /\ status' \in {status, "cancelled"}
  /\ UNCHANGED <<case, pc, announcing, answers, effects, project, moved,
                 events, number, stream, browser, drops>>

\* A publication that fails ends the request like one that succeeds.
RouteAppends ==
  /\ route = "append"
  /\ \/ NumberEvent("route") /\ UNCHANGED <<route, events>>
     \/ InsertEvent("route", "step") /\ route' = "end"
     \/ InsertFails("route") /\ route' = "end" /\ UNCHANGED events
  /\ UNCHANGED <<case, pc, announcing, answers, effects, project, moved, status, stream, browser, drops>>

\* A review of another run publishes its files.
PublishAnother ==
  /\ case.published /\ ~moved
  /\ \E f \in Files : project' = [project EXCEPT ![f] = Text("other", 0, 0)]
  /\ moved' = TRUE
  /\ UNCHANGED <<case, pc, announcing, answers, effects, route, eventVars>>

EngineStep ==
  \/ BuildContext \/ AnswerBlueprint \/ AnswerPlan \/ UseTool \/ AnswerFinish
  \/ AnswerAudit \/ Correct \/ CorrectFails \/ Settle
  \/ Interrupt \/ EngineFails \/ Reject
  \/ EngineNumbers \/ EngineInserts \/ EngineInsertFails \/ EnginePublishFails

Following == UNCHANGED <<case, pc, announcing, answers, effects, others>>
FollowStream == StreamStep /\ Following
FollowEvents == BrowserStep /\ Following

Next ==
  \/ EngineStep \/ Cancel \/ RouteAppends \/ PublishAnother
  \/ FollowStream \/ FollowEvents \/ (Drop /\ Following)

\* The server goes on with a stream and the browser reads what has arrived.
Spec == Init /\ [][Next]_vars /\ WF_vars(FollowStream) /\ WF_vars(FollowEvents)

-----------------------------------------------------------------------------
(* Properties.                                                             *)

UnderReview == status = "awaiting_review"

\* Types, and what the pydantic models of the answers require.
TypeOK ==
  /\ EventsTypeOK
  /\ pc \in Asking \cup Outcomes \cup {"context", "correct", "settle", "end"}
  /\ done \in 0..Len(plan) /\ loop \in 0..MaxCorrections
  /\ records \subseteq Records /\ context \subseteq case.base
  /\ {c.path : c \in changes.files} \subseteq Files
  /\ \A i \in DOMAIN plan : plan[i] \in [tool : ReadTools \cup WriteTools, role : ToolRoles(plan[i].tool),
       units : SUBSET Units, output : Files \cup {None}]

\* A run under review shows the changes of its workspace, whatever the audits sent
\* back, unless another run was published since it began (collect_file_changes).
ReviewShowsWorkspace ==
  UnderReview => moved \/ changes = [files |-> FileChanges, knowledge |-> ops]

\* apply_knowledge_operations: the records, or None where it raises an error.
Apply(current, o) ==
  CASE current = None                                         -> None
    [] current # None /\ o.operation = "upsert"               -> current \cup {o.record}
    [] current # None /\ o.operation = "delete" /\ o.record \in current -> current \ {o.record}
    [] OTHER                                                  -> None
Connected(current) == \A r \in current : Ends[r] \subseteq current
Applied(base, operations) ==
  LET result == FoldLeft(Apply, base, operations) IN
  IF result # None /\ Connected(result) THEN result ELSE None

\* The operations under review, applied to the base as a review does it, give the
\* knowledge the run worked with, over all its loops; they are refused only if that
\* leaves a relation without its ends, which no tool checks.
KnowledgeReplays ==
  UnderReview => Applied(case.base, changes.knowledge) = (IF Connected(records) THEN records ELSE None)

\* Every unit of the blueprint was written to its file by its own step of the last
\* loop, unless a later step of the plan writes or deletes that file again, which
\* _create_plan does not exclude.
UnitsAreDelivered ==
  UnderReview =>
    \A u \in Units : \E i \in WritesOf(plan, u) :
      \/ work[blueprint.target[u]] = Text("run", loop, i)
      \/ \E j \in DOMAIN plan : j > i /\ plan[j].output = blueprint.target[u]
=============================================================================
