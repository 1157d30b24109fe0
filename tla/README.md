# MuseGraph: specifications, checks and proofs

MuseGraph is a writing platform: a FastAPI process serves projects (a Git
repository of text files plus a knowledge dataset), worker processes execute
Agent runs that propose changes, and a user reviews what a run proposes before
it is published as a new revision. This directory models the parts of the
server whose correctness depends on the order of steps: what is concurrent,
what is transactional, and what happens when one step of several fails.

Paths below are relative to `src/apps/server-py/app/` unless they start with
`src/`.

## 1. Inventory

| Component | Where | State | Operations | Interacts with |
|---|---|---|---|---|
| Agent run queue and workers | `agent_worker_main.py`, `services/agent_engine.py`, `routers/agent.py` | rows of `agent_runs` (status, lease, owner, cancel flag), two asyncio tasks per worker | submit, cancel, claim, heartbeat, execute, settle, abort | database rows, run workspaces, events |
| Agent engine pipeline | `services/agent_engine.py`, `services/agent/` | context, blueprint, plan, tool results of one execution | blueprint, plan, tool loop, validation, audit, correction | workspace, memory, providers, events |
| Agent events and stream | `services/agent_engine.py:281-301`, `routers/agent.py:200-261`, `src/apps/web-vue/src/stores/agent.ts` | `agent_events`, the cursor of a stream, what a browser has seen | append (max+1), stream, reconnect with the last number, refresh | engine and cancel route append; Redis wakes the stream |
| Run workspaces | `services/agent_workspace.py` | `runs/<id>/workspace` on a shared volume | copy, write, delete, compare, publish, remove | workers write, the API reads |
| Knowledge operations | `services/agent_workspace.py`, `services/agent/tool_registry.py` | records and operations of a tool loop | upsert, delete; apply to a base | engine, review |
| Review and publication | `routers/agent.py:287-418`, `services/agent_workspace.py` | run row, project row, revisions, Git, datasets | accept, reject, conflict, compensation | everything of a project; holds the run row and the project row |
| Direct file edits and revisions | `routers/project_files.py`, `services/project_files.py`, `services/project_git.py` | project row, revisions, Git | upload, create, update, rename, delete | project row lock, Git |
| Version restore, manual knowledge changes | `routers/project_versions.py`, `routers/memory.py` | run rows born in `awaiting_review` | propose | review |
| Memory Supervisor | `services/memory_runtime.py`, `memory_service_main.py` | one process and queue pair per project, two kinds of locks, storage | start, stop, health, remember, records, recall, forget | API and workers by HTTP |
| Project lifecycle | `routers/projects.py`, `services/memory_client.py` | project, first revision, Git, memory | create, delete | Git, Memory Supervisor, database |
| Project access | `services/project_access.py` | members, visibility | role of a user | every request of a project |
| Project agents and prompt templates | `routers/project_agents.py`, `routers/prompt_templates.py`, `services/agent/configuration.py` | agents, templates, active agent | create, update, activate, delete, bind | runs, providers |
| Providers and pricing | `routers/admin.py`, `routers/user_providers.py`, `services/provider_*.py` | providers with their models, pricing rules, references to models | register, discover, remove, switch, drop, price, rename | projects and agents by `provider::model` |
| Users, sessions, payments, usage | `routers/auth.py`, `routers/admin.py`, `services/payment.py`, `services/usage_*.py`, `services/payment_adapters/` | users with balances, sessions, orders, deposits, adapter, usage rows, retention | login, revoke, change, credit, order, callback, charge, retain | each other through one row per user |
| Skills and packs, administration, web client, deployment, provider calls, export and lists | see `PROJECT.json` | | | |

What is hard, by component:

* **Queue and workers.** Two processes may hold one run when a lease ends
  early; the API cancels a row it read without a lock; each job is two tasks
  that end each other; result, event and workspace are separate writes. Correct
  means: a running run can always be claimed again, a settled one never is; one
  executor per run; what a reviewer sees nobody writes and accept can publish.
* **Engine.** A long protocol of answers, tools and corrections on state that
  stays from one loop to the next, while the project may change and a
  cancellation may come. Correct means: what is under review is what the last
  loop left, every unit was delivered, and the knowledge operations give the
  knowledge the run worked with.
* **Events.** `max(sequence)+1` under concurrency; a stream that reads rows and
  status in two transactions; a session row that every request of a browser
  updates. Correct means: no gap in what a reader has seen, and it shows an
  outcome it was told of while the run has it.
* **Review and publication, edits, restores, knowledge changes.** Four stores
  (dataset, Git branch, Git remote, database) and one transaction; compensation
  runs after the locks are free, and the worker and the cancel route write the
  status of a run without reading it. Correct means: revisions form one line, a
  run is published at most once and only on the revision it was prepared for, and
  stays published whatever its status says later, Git and datasets are those of
  the revisions the database shows.
* **Memory Supervisor.** Two levels of locks, queues between processes,
  processes that are replaced, stopped or dead, callers that give up. Correct
  means: it behaves like one store whose calls take effect once.
* **Project lifecycle.** Three stores without a common transaction. Correct
  means: a project exists with all its parts or not at all.
* **Accounts and configuration.** READ COMMITTED transactions that read, check
  and write without locks; references in JSON columns the database does not
  check. Correct means what each property says, and that only overlapping
  requests of the kinds it names are an excuse.

The full list of hazards, each at its line with the properties that watch it,
is `hazards` in `PROJECT.json`.

## 2. Modules

| Module | Role |
|---|---|
| `AgentRuns` | queue, workers, execution, heartbeat, cancellation |
| `AgentEvents` | the events of one run, the stream and the browser that follows it |
| `AgentEngine` | one execution of a run, composed with `AgentEvents` |
| `Publication` | abstract: what reviewing and editing a project promises, one atomic step per request |
| `ProjectRevisions` | the requests that review and edit, step by step, with locks, external writes, faults and compensation; implements `Publication` |
| `MemoryStore` | abstract: what the memory service promises its callers |
| `MemorySupervisor` | the service: handlers, locks, processes, queues, faults |
| `ProjectLifecycle` | requests that create, use and delete projects, composed with `MemorySupervisor`; implements `MemoryStore` |
| `ProjectAccess` | pure: roles and permissions |
| `ProjectConfiguration` | providers, prices, components, agents, templates, members; uses `ProjectAccess` |
| `Accounts` | users, sessions, payments, usage |
| `AgentRunsProofs`, `AgentEngineProofs`, `ProjectRevisionsProofs`, `ProjectFilesProofs`, `ProjectLifecycleProofs`, `ProjectConfigurationProofs`, `AccountsProofs` | theorems; `ProjectFilesProofs` builds on `ProjectRevisionsProofs` |
| `Numbers` | lemmas on the least and greatest elements of sets of naturals |
| `...MC` | instances for TLC: symmetry, and the runs of `AgentEngine` |

### AgentRuns and the code

One step is one database transaction, or one stretch of code without an
`await`. `status`, `mode`, `owner`, `lease` and `cancelRequested` are columns of
`agent_runs`; `lease` abstracts `lease_expires_at` to NULL, ahead or passed.
`cancelRead` is the status a cancel request holds between its read
(`ReadForCancel`) and its commit (`CommitCancel`). `pc` is where `main()` of a
worker is, `exec` and `beat` its two tasks. `workspace` is the run's directory:
absent, complete, or partial (recreated by a late write after a deletion).

`claim_run` is `ClaimRun`; `execute_claimed_run` is `StartTasks`, `FinishJob`,
`AbortJob`, `SettleAborted` and `CleanAborted`; `maintain_lease` is `ReadLease`,
`RenewLease` and `RereadStatus`, whose UPDATE and re-read are separate
statements; `execute_agent_run` is `LoadRun`, the loop `CheckCancelled` ->
`Heartbeat` -> `UseTool`, and the ways out: `SettleResult` then the event
(`Notified`, `NotifyFails`), or `Raise`/interruption, `DropWorkspace` and the
write of the row. The order of workspace and row writes is the code's. A reject
is `BeginReject`, which deletes the workspace, and then `CommitReject` or
`RejectFails` (`routers/agent.py:323`, `:403`); `rejecting` are the runs between
the two. Mode `suggest` behaves like `analyze` here. `CheckCancelled` stands for
the check before every model request as well: nothing but a tool writes in
between.

Faults: a worker process dies (`crash`), also half-way through copying the
workspace; an event append fails after a result
was written (`event`), a database call of the heartbeat fails (`database`), the
commit of a reject fails (`commit`).
`TimelyLeases` says whether a live worker always renews before its lease ends.
The code does not enforce it: heartbeat and execution share an event loop that
file copies block, and `_heartbeat` takes a lease back without comparing the
owner. So properties are divided into those that hold anyway and those that
need it.

### ProjectRevisions and the code

One project, its runs, and requests of the API. A request is split where it
awaits. The API is one process (one uvicorn worker) and calls Git and the file
system synchronously, so publishing a change set, saving a file and resetting
the branch are single steps for other handlers. The content of a file is the
id of the run or edit that wrote it; a request makes at most one commit, one
dataset and one revision, so its id names these too.

* `text_projects` and `project_revisions`: `active`, `exists`, `parent`,
  `gitCommit`, `dataset`, `activeRows`. The partial unique index
  `uq_project_revisions_one_active` (`models/runtime.py:45-50`) is a guard of
  `InsertRevision`.
* Git: `files`, `index`, `head`, `remote`, `tree`, `past`. `ResetTo` is a hard
  reset: untracked files stay.
* Memory service: the set `datasets`, and calls that fail.
* Row locks: `projectLock`, `runLock`. `Take` and `LockRun` are
  `SELECT ... FOR UPDATE`, `Release` the end of a transaction. Inserting a run
  needs a share lock of the project row (its foreign key), hence
  `projectLock = None` in `StartRun` and the two proposals; in
  `propose_version_restore` the row is flushed before files are compared, so
  the comparison and the commit are one step for the holders of that lock.
* `pc[q]` is where a request is: `accept`/`reject` (run row held), `remember`,
  `hung` (a call of the memory service that is never answered), `publish`,
  `completed`/`rejected`/`conflicted` (about to commit that verdict), `undo`,
  `cleanup`; `write`, `record`, `edited` for an edit.
* `undo[q]` is `git_published` and `dataset_created`.

The status `accepting` is written and overwritten inside one transaction, so no
other session sees it; the model has no such state, and the check for it in
`_lock_project_for_write` never fires. A request that is refused (404, 409)
leaves no trace and stays `new`. A `FOR UPDATE` read gives the row as committed:
SQLAlchemy does not refresh an object that is already in the session, and the
handlers are right only because they do not keep the project that
`require_project_permission` loaded.

`CopyProject`, `FinishRun` and `FailRun` are what the worker of a run does, seen
from here, and `writers[r]` who will still write the status of `r` without
reading it: its worker; a cancel request that read it queued (`ReadToCancel`,
then `CommitCancel` at any time, `routers/agent.py:264-284`); an engine whose
event will not be stored or announced (`event`), whose failure handler deletes
the workspace (`DeleteLate`) and writes `failed` (`FailLate`,
`services/agent_engine.py:1295-1331`), whatever the review has done by then. A
run is executed by one worker here; takeovers are in `AgentRuns`.

Eleven faults: the memory service fails before or after a dataset exists, or
never answers; `forget` fails; a commit fails; a push fails; a transaction is
rolled back; the answer of an applied commit is lost; the API process dies; the
event of a result fails; a cancel comes late.

### AgentEngine, AgentEvents and the code

One step of the engine is what `execute_agent_run` does up to the next model
answer or event. `pc` is the answer it waits for; `announcing` says that it
appends an event first, so that `append_agent_event` is two steps
(`NumberEvent`: read the greatest number; `InsertEvent` or `EngineInsertFails`:
insert and commit, or fail, at the unique constraint for instance) between which
the cancel route may append (`RouteAppends`). `EnginePublishFails` commits the
event and fails to publish it on Redis (`services/agent_engine.py:300`), so that
a stream may show it. After either failure `AppendFailed` says what the failure
handler makes of the run, also of one that awaits review. A cancel may read the
run queued and commit at any later time. `context`, `blueprint`, `plan`, `done`,
`loop`, `finish` and `changes` are the local variables of that function, `ops`
and `records` those of `ToolContext`, which stay from loop to loop. `Blueprints`
and `ValidPlan` are the answers that `_create_blueprint` and `_create_plan` let
through; `RoleOf` is the assignment of roles; `Skills` the table of
`skill_catalog.py`. Text is abstracted to who wrote it: loop and step. An answer
that violates its schema is recorded and asked for again (`Reject`); everything
the engine raises for an answer that conforms is `EngineFails`. `Forget` is the
end of both except blocks: what the try block had computed is out of scope.

`ValidPlan` bounds plans by `case.steps`; a plan of a run in mode `write` has one
writing per unit, and may have further steps of any tool the skill allows.

In `AgentEvents`, `stream` is the generator of `stream_agent_events` (`rows` and
`status` are its two reads) with what it has put on the wire, and `browser` the
store of the web client: its connection, the numbers it has received, the
status it shows and the refreshes it waits for. `Answer` is guarded by
`stream.at = "closed"`: `get_current_session` assigns `last_used_at`, the query
for the user flushes it, and the row stays locked until `get_db` commits after
the response (`pyproject.toml` asks for FastAPI >= 0.139, which runs that code
after the last byte). So a refresh of the same browser is answered when the
stream has ended.

### MemorySupervisor, ProjectLifecycle and the code

`instance` is `MemorySupervisor.instances`, `guard` the call that holds `_lock`,
`proc` the processes with `ProjectMemoryInstance.lock` and the two queues,
`storage` the datasets in each project's directory and `rooted` the projects
whose directory exists. `call[c].pc` is where the handler of a call is: `start`
and `stop` wait for `_lock`, `enter` for the lock of the instance, `await` polls
for an answer, `join` waits for a process, `remove` deletes the directory
(`RemoveStorage`, or `RemovalFails` when another process is alive on it and the
deletion stops half-way). A poll that finds nothing (`EmptyPoll` sets `missed`)
and the look whether the process is alive (`LookAtProcess`) are two steps, as
`services/memory_runtime.py:213-218` returns to the event loop in between: the
process may answer and exit there. A handler goes on when its caller has left:
HTTP handlers are not cancelled. The process takes one command after the other
(`Execute`) and ends after a shutdown (`Exit`). `Spawn` gives a new process the
least id that nobody refers to any more: which one it is makes no difference.

`client` holds the requests of the API server, `row` the committed projects,
`holder` who has a project row locked, `git` the projects with Git storage.
`leaked` is the end of a creation that leaves something behind: it could not
start or stop the memory, or its commit failed. Two requests of one project
overlap unless `alone`.

Faults: a process dies; the service dies with its processes; a command fails
after it took effect; a process outlives `join(10)`; an answer goes to a poll
that was given up; a call is given up after 60 seconds; Git storage cannot be
written; a commit fails; the API server dies.

### ProjectAccess, ProjectConfiguration and the code

`Permits` is `require_project_permission` with `get_project_role`. The queries
that list projects are not modelled. `RunPermission` says what a mode asks for:
`analyze` and `suggest` need to see a project, `write` needs to edit it
(`routers/agent.py:92`).

In `ProjectConfiguration` a request has two steps: `Begin...` authenticates,
reads and checks, and its commit writes what was computed from what was read;
whatever else happens to it is `Rollback`. Unique constraints and foreign keys
are guards of the commit. `req[q].seen` is what was read of a column that is
written as a whole: `Assigned` leaves the column alone if the assigned value
equals it, as the ORM does. Deleting a user cascades to templates and
memberships, deleting an agent to its runs. Agents and templates are updated one
field at a time; requests that change several fields write the same columns.

### Accounts and the code

As above; a request is authenticated by a session row (`req[q].session`), and a
session row that a request has used or deleted stays locked until it ends
(`Held`), so the `DELETE` of `revoke_user_sessions` waits for it and some
requests have a third step between (`flushed`). Ids are UUIDs: an account that
was deleted does not come back under its old id (`Fresh`), and the row of an
adapter that was removed and created anew is another row (`SameAdapter`).
`ledger` is the balance that the requests meant: the sum of what was credited
and charged since the balance was last set. A deposit is keyed by the payment id
of its callback, which is unique and which the caller supplies: any value, the
empty one included (`routers/payment.py:104-111`).

## 3. Runs

| Run | Result | Distinct states | What it shows |
|---|---|---|---|
| `agent_runs_timely` | pass | 1,899,712 | two runs of any mode, two workers, one crash or database error, heartbeats in time: one executor per run, results written by the lease owner, a run under review has its complete workspace, but while a reject is about to settle it, and nobody writes it |
| `agent_runs_late` | pass | 685,265 | one run, two workers, two faults of any kind, leases that end under live workers: a running row stays claimable, a settled one is never executed again, and the outcome of a run no worker holds changes by review or by a cancel that had read it queued |
| `agent_runs_liveness` | pass | 111,828 | two runs, one worker as deployed, two crashes or database errors: a recorded cancellation takes the run from its worker, though tool and audit loops may go on for ever; and if a worker comes free again and again, a run whose worker died is claimed again and a cancelled one ends |
| `agent_engine` | pass | 1,652,356 | every plan of up to three steps for up to two units, with an audit that sends back, a rejected answer, errors, appends and publications of events that fail, an early or late cancellation, another publication and a broken connection: what is under review is what plan and audits made, the stream leaves no gap, and the browser shows the outcome it was told while the run has it |
| `revisions_faults` | pass | 2,200,270 | two proposals, two reviews, an edit, any three faults of all eleven kinds: revisions form a line, completed runs have their own revision, and `Publication` is implemented |
| `revisions_memory` | pass | 1,189,263 | two files, failures of the memory service and late cancellations: between requests files, index, branch and remote are those of the active revision; a published revision differs from its base exactly by the reviewed change |
| `revisions_datasets` | pass | 130,182 | three reviews and an edit, a failure of memory, commit, push, event or transaction, or a late cancellation: every revision has its dataset and no other dataset stays |
| `revisions_liveness` | pass | 359,833 | after any single fault every request that took a lock ends, unless the fault is a memory call that hangs |
| `revisions_files_lost` | violation | - | section 6 |
| `project_lifecycle` | pass | 644,184 | two requests for a project, any two faults of nine kinds: the memory service implements `MemoryStore`, its calls end, and projects are complete or gone |
| `project_configuration` | pass | 345,202 | any two requests on two providers, models, kinds, agents, phases, a template, a price and three users, from every initial configuration: references hold unless requests of the kinds a property names overlapped |
| `accounts` | pass | 230,134 | any three requests of one or two administrators and of users who register, with one order: balances, payments, sessions and the adapter are right unless such requests overlapped, and the last active administrator goes by suspending himself or by such an overlap only |

**Bounds.** `MaxFaults` bounds faults in a behaviour; the sets of ids bound runs
and requests, each of which is used once. Two workers are what a takeover needs;
two runs are what the order of claims and a worker between two jobs need. The
liveness run has one worker, as `src/docker/docker-compose.yml:114-130` deploys:
fewer workers than runs are what starves a run. In `ProjectRevisions` two
reviews race for one run or for two runs of one base, and one or two edits come
between a proposal and its review or between a rollback and its compensation;
two paths give a change set with an order in which one path fails before the
other; a third review is what a dataset needs to be used as a base, kept and
compensated. One fault at a time is where the compensation code claims to work;
`revisions_faults` takes three, so that one compensation can undo the base of
another while a late writer overwrites an outcome, and `agent_runs_late` takes
two, so that a takeover can itself crash.

In `AgentEngine` two units give a dependency, three steps a plan with a step
beside the two writings, two records a relation, one correction
(`MaxCorrections`) a second loop on the state of the first, and one rejected
answer (`MaxRejections`) a retry. One broken connection (`MaxDrops`) gives a
reconnect; `MaxRefreshes` only bounds how many waiting refreshes are told apart.
What a run, a cancellation, a publication and a browser do at the same time is
spread over the cases of `AgentEngineMC`, each of which varies one of them. In
`ProjectLifecycle` two requests give every pair of creation, deletion, store and
read, with three processes, so that a replaced one may still be alive when the
next is started. Two requests are what an overlap needs in
`ProjectConfiguration`, which starts with every combination of platform and own
providers, prices, selected models and bound templates; in `Accounts`, which
begins with administrators only, the third is one that comes before the two (an
order before two callbacks, a registration before a login and a reset) or after
them. A request that is rolled back leaves no trace, so its id is used again and
such requests are not bounded.

Symmetry is used in runs without liveness only: workers are interchangeable,
runs of `AgentRuns` are not (`created_at` orders them); requests, runs and paths
of `ProjectRevisions` are, and so are ids of users, requests and rows.
`CHECK_DEADLOCK FALSE` is stated because the system may stop: all runs settled,
all requests done.

**Which faults a property bears.** `AwaitingReviewIsPublishable` fails when an
event append fails, and when the commit of a reject fails (section 6), so its run
leaves `event` and `commit` out.
`ProjectShowsActiveRevision` fails with `git`, `push` and `database` faults, and
a crash between push and commit leaves Git ahead of the database: nothing
reconciles them; and with `event`, whose handler may delete a workspace that an
accept is about to publish. `DatasetsExist` fails when the answer of a commit is lost, as
the handler then forgets the dataset of the revision it has published;
`NoOrphanDatasets` fails when `remember` fails after it created the dataset
(`dataset_created` is set after it returns) or `forget` fails.
`OrphanIsReclaimed` and the second half of `CancelTakesEffect` need that a worker
comes free again and again (`AWorkerComesFree`): the audit loop has no bound, so
the one worker that is deployed may never leave another run (section 6).

**What a run does not list.** Each module has a type invariant. All are proved
(the theorems `TypeCorrect`); those of `AgentRuns` and `ProjectRevisions` are
listed by a run too. `ExecutorInvariant`, `RequestInvariant` and the other
inductive invariants of section 4 are proved; the runs check what follows from
them. `ReferencesHold` is the conjunction of the three rules defined before it.

**Exceptions in properties.** The properties of `Accounts` and
`ProjectConfiguration` are of the form "the relation holds, or two committed
requests of these kinds overlapped": the code takes no locks there, and each
exception was needed by a counterexample. `NothingIsLeftBehind` excepts
creations that ended `leaked` and deletions that another request overlapped;
`CallsEnd` calls whose answer was lost; `ReviewShowsWorkspace` runs during which
another was published; `UnitsAreDelivered` units whose file a later step of the
plan writes again; `OutcomeIsShown` outcomes that are overwritten after they were
announced; `CompletedRunsArePublished` published runs that a late failure or
cancellation overwrites (`LateWrites`); `RequestsEnd` requests from the time on
that a memory call hangs; `AnAdministratorRemains` an administrator who suspends
himself. Section 6 says what happens then.

**Fairness.** `AgentRuns`: weak fairness of each worker's main loop, execution
and heartbeat (an event loop that keeps scheduling its tasks; compose restarts a
dead container, `src/docker/docker-compose.yml:114-130`) and of the clock for a
lease nobody renews. Nothing is assumed of users, of a tool loop's end, of late
heartbeats or of faults; that a worker comes free is a premise of the properties
that need it, not a fairness condition. `ProjectRevisions`: weak fairness of
each request the server has accepted. Beginning a review or an edit is not fair.
A request waits for a lock only while another holds it; as each request runs
once, none waits for ever. `remember` has no timeout
(`services/memory_client.py:39`) and may hang (`MemoryHangs`): nothing is
promised then. `ProjectLifecycle`: weak fairness of each handler and each
process of the memory service, whose event loop and operating system go on; none
of the requests of the API server. `AgentEngine`: weak fairness of the stream
and of the browser's side of it; none of the engine, whose answers may never
come.

## 4. Theorems

Every safety invariant and every action property that a passing run checks, and
both refinements, are theorems. They hold for every set of users, projects, runs,
workers, requests, paths, files and records, and any number of faults, from the
named assumptions of the modules: NULL and ids are distinct (`NullsAssumption`,
`NoneAssumption`, `IdsAssumption`, `RowsAssumption`, `NamesAssumption`,
`RootAssumption`), fault kinds are those listed and bounds are naturals
(`FaultsAssumption`, `ProcsAssumption`, `CorrectionsAssumption`,
`RefreshesAssumption`), parameters are in their range (`ModesAssumption`,
`CasesAssumption`, `AmountsAssumption`, `ChatAssumption`). A theorem that needs
more says so in its statement, and below.

Each invariant rests on an inductive one, whose proof has one lemma per action
or group of actions. The theorems say `Spec`, but none uses its fairness.

### Runs and workers (`AgentRunsProofs`)

* `TypeCorrect`: `Spec => []TypeOK`. Not just types: it contains that a worker
  that holds a run knows which, and that no task lives outside its job, which
  every other proof uses.
* `RunningRecoverable`: `Spec => []RunningIsRecoverable`, for late leases and
  all faults. Inductive with `TypeOK`: the claim writes status, owner and lease
  together, every settling write clears them with the status, and the writes
  that leave status alone set both.
* `NeverReexecuted`: `Spec => SettledNeverReexecuted`, for late leases and all
  faults: each of the writers of `status` that does not compare it writes a
  settled status or `awaiting_review`.
* `OutcomesAreKept`: `Spec => OutcomesStand`, for late leases and all faults. A
  worker writes the row of the run it holds only (`WorkersLeaveOutcomes`), so what
  remains are the writes of the API: a review of a run under review, and a cancel
  that had read `queued`.
* `ExecutorsSafe`, with `OneExecutor`, `ReviewedFilesQuiet` and `ResultByOwner`
  from it, under `TimelyLeases`. One executor per run is not inductive: a claim
  is safe only if a held run cannot be claimed, that is, has left `queued` and,
  while running, has a live lease (`HeldRunIsLeased`); and that the settling write
  of one worker does not disturb another needs that an editing worker owns the
  row (`EditorOwnsRun`). `ExecutorInvariant` is the conjunction of the three.
* `ReviewsFindTheirFiles`: `AwaitingReviewIsPublishable`, under `TimelyLeases`
  and without failures of event appends and of the commits of rejects. A run
  under review has its complete workspace *and* whoever still holds it is past
  its event or about to settle a cancellation over it (`ReviewIsComplete`); with
  `OneExecutor` no other worker is left to delete the directory.

### The engine and events (`AgentEngineProofs`)

* `TypeCorrect`: `Spec => []TypeOK`, the state of `AgentEvents` included.
* `StreamsAreGapless`: `NoEventIsSkipped`. The strengthening `EventsAre(n, m)`:
  the events are numbered 1 to n, the browser has received the first m, what is
  on the wire follows them up to the cursor of the stream, and no writer has
  read a greater number than n + 1.
* `OutcomesAreShown`: `OutcomeIsShown`, failures of the append and of its
  publication included. The status is committed before its event is appended, so
  a refresh a browser asks for after that answers an outcome, and the announced
  one as long as neither the failure handler nor a late cancel has overwritten it
  (`OutcomeInv`).
* `ReviewsShowTheWorkspace`: `ReviewShowsWorkspace`. From the audit on, `changes`
  are those of the workspace, corrections included (`ReviewInv`).
* `UnitsReachTheReview`: `UnitsAreDelivered`. The executed steps are a prefix of
  a valid plan, and what each of them wrote is there until a later one touched
  its file (`PlanInv`); past the last step that is what `ValidPlan` promises of
  the units.
* `OperationsReplay`: `KnowledgeReplays`, for any number of operations. Folding
  the operations over the base gives the records (`ReplayInv`). That one more
  operation is one more application is an induction over their number; the
  induction theorems of the library cannot be instantiated here, so it is by
  least counterexample, on the recursive function that the fold unfolds to.

### Review and publication (`ProjectRevisionsProofs`)

With every fault, crashes included:

* `TypeCorrect`: `Spec => []TypeOK`.
* `LocksHold`, `OneLine`, `OneRevisionPerRun`: `RequestInvariant`,
  `RevisionsFormALine` and `CompletedRunsArePublished`. Their conjunction with
  `TypeOK` is inductive. That revisions form a line needs that the revision a
  request builds on is still the active one when it commits; that needs the
  project lock from the comparison to the commit, and the run lock for the
  status (`RequestInvariant`); that a request does not insert a revision twice
  needs that a request whose revision exists is over. Also: the unique index on
  active revisions never refuses an insert. That a run which has a revision still
  says so holds without `LateWrites` only; with them it says completed, failed or
  cancelled, and the revision stays.
* `ImplementsPublication`: `Spec => PublicationSpec`. The initial state maps to
  that of `Publication`, `ApplyAccept` to `Accept`, `CommitEdit` to `Edit`, each
  verdict to `Reject` or `Conflict`, proposals to `Prepare` and `Open`, a late
  failure or cancellation to `Overwrite`, and every other step to a stutter.

### Files and datasets (`ProjectFilesProofs`)

A rollback does not undo what is outside the database, so these theorems name the
faults they bear. The hypotheses are about constants only, and without them TLC
finds the property violated.

* `RevisionsKeepTheirDataset`: `DatasetsExist`, whatever fails but the answer of
  a commit. A dataset that a revision names, or that a request is about to record,
  is undone by nobody (`AllStored`).
* `NoDatasetIsOrphaned`: `NoOrphanDatasets`, under `UndoableFaults`: failures of
  calls that change nothing, of commits and pushes, of events, late
  cancellations, and at most one lost transaction. The undo resets the branch
  before it forgets the dataset, so that it gets there needs that its base
  commit is still on the branch (`ResetInvariant`: until something fails, the
  commits the database names or will name are on the branch, and at most one
  undo resets it). A second lost transaction lets two undos meet; then the reset
  of one takes the base of the other off the branch, its reset fails and its
  dataset stays.
* `FilesFollowTheDatabase` and `ReviewedChangeIsPublished`:
  `ProjectShowsActiveRevision` and `RevisionIsReviewedChange`, under
  `MemoryFaults`: anything the memory service does wrong, and late
  cancellations. `FilesInvariant` says that both branches, the index and the
  files always agree and are those of the active revision unless somebody is
  between commit of the files and commit of the transaction; and that a run that
  can still be accepted holds the files it writes and finds those it deletes.
  The last part is subtle: while a writer has published and not recorded, it
  does not hold; a run proposed against these files has a base that the writer's
  commit makes obsolete, so accept refuses it.

### The memory service and projects (`ProjectLifecycleProofs`)

With every fault. `BaseInv` is inductive: types; at most one command or answer is
under way in a process, for the call that holds its lock (`QueueOK`); each call
waits for a process of its project and a starting call keeps the lock of the
supervisor until the old process has ended (`CallOK`); each live process is the
current one of its project or somebody shuts it down (`Accounted`).

* `TypeCorrect`, `AnswersReachTheirCall` (`AnswersBelongToTheLock`) and
  `ReplacedProcessesEnd` (`ReplacedProcessesShutDown`) follow from it. The first
  is about live processes and those whose lock is held: a process that answers
  and exits between the empty poll and the look at it leaves its answer in a
  queue that nobody reads again.
* `ServiceIsAtomic`: `Spec => MemoryStoreSpec`. A call takes effect when the
  process executes its command or a stop removes the directory, or it fails with
  or without effect, a removal also with a part of it (`Tear`); every other step
  of handlers, processes and faults is a stutter. That an answer is reported to
  the call it belongs to is `BaseInv`.
* `ProjectsKeepTheirData`: `ProjectsAreComplete`. `RequestsInv` says what a
  request has called at each of its steps (`ClientOK`), that a project being
  created has no row and no other request (`CreatorOK`), and that what was
  acknowledged is stored while nobody deletes (`CompleteFor`).
* `RemovalsAreComplete`: `NothingIsLeftBehind`. `RemovalInv`: a stop takes the
  instance out of the table before it removes the storage, and while no other
  request is open no process can appear and write it again.

### Configuration and accounts (`ProjectConfigurationProofs`, `AccountsProofs`)

The proofs of both modules share one argument. Any two requests that are open at
the same time are recorded as overlapping (`OpenRequestsMeet`). What an open
request has read therefore stands until it commits, or a request that could
change it has committed meanwhile and overlapped it (`Met`). For each rule one
inductive invariant says which kinds these are, and each commit either finds what
it read, and keeps the rule, or proves the exception that the property names.

* `TypeCorrect`, twice: rows and open requests are well typed and rows refer to
  rows that exist.
* `RunsOutliveTheirAgents` (`AcceptedRunsStay`), `PricesOutliveProviders`
  (`OfferedModelsKeepTheirPrice`) and `ReferencesAreHeld` (`ReferencesHold`, with
  `ModelsInv`, `TemplatesInv` and `ActiveInv`).
* `BalancesFollowLedgers` (`BalanceFollowsLedger`), `RevokedSessionsAreGone`
  (`RevokedSessionsEnd`; a revocation has two steps, and a login that commits
  between them overlaps it), `OrdersArePaidOnce` (`PaidOnce`),
  `EnabledAdaptersAreComplete` (`EnabledAdapterIsComplete`) and
  `AnAdministratorStays` (`AnAdministratorRemains`, an action property: a request
  that takes an active administrator away leaves its caller, who was an active
  administrator when it was read, unless it suspends that caller or overlapped
  another such request).

Proving these corrected the model of `Accounts`: it had let an id be used again
for a new account, a new adapter row count as the row a request had read, and a
deleted session row be used before its transaction ended. A property fails from
that only after at least four requests, one more than the run has, so TLC had
not shown it.

### Model-checked only

Liveness (`OrphanIsReclaimed`, `CancelTakesEffect`, `StreamsEnd`, `RequestsEnd`,
`CallsEnd`), as the prover does not treat ENABLED; and that
`FailedPublishKeepsFiles` is violated.

## 5. Seeded defects

For every property of a passing run `PROJECT.json` (`mutants`) names a mapped
definition and a defective form of it, defined just before it and marked
"Seeded defect": a claim without a lease or of queued runs only, a
heartbeat that writes the status, an abort that leaves a settled row alone but
deletes its workspace, changes collected from the first loop only, corrections
that forget the operations of the loop before, event numbers from a counter, a
row read without FOR UPDATE, a revision inserted without moving the pointer, a
missing undo, an abort that forgets which run it reviews, a second process beside
the first, a supervisor that gives up after an empty poll or never looks whether
the process is alive, a callback that does not look whether the order is
paid, a model removed without a search for references. With the defect in place
the run finds the property violated.

## 6. Where the code and its documentation differ, and what else was seen

One divergence has a run: **a failed publish deletes files**
(`revisions_files_lost`, `FailedPublishKeepsFiles`). `src/ARCHITECTURE.md:69`
says that a failing step of an accept undoes the external writes of the
candidate. When a candidate file is missing, existing files that
`publish_file_changes` had not reached are taken for new ones and deleted. One way
there: a reject deletes the workspace, its commit fails, and the run is accepted
later.

The following is behaviour of the models too. Where it limits a property, the
property names it or its run leaves the fault out; a reader of the properties
should know it.

Runs and their results:

* A cancelled run may go on: `cancel_agent_run` reads `queued`, a worker claims
  the run, the cancel commits `cancelled` and the execution overwrites it. By the
  same read a cancel may commit over any later state, that of a published run
  included (`OutcomesStand` and `CompletedRunsArePublished` name it).
  `src/ARCHITECTURE.md:50-53` has no edge out of `cancelled`.
* A run under review becomes failed when the append of its event fails: it is
  in the try block whose handler deletes the workspace and writes `failed`. Two
  appends of one run that meet in the unique constraint are such a failure. The
  handler does not read the status, so a run that was reviewed meanwhile shows
  `failed` although its revision is published.
* The event of an outcome is committed and then published on Redis, in the same
  try block: when that fails, a browser may have been shown the outcome and ended
  its stream, and is not told that the run became failed.
* A reject deletes the workspace before its commit. If the commit fails, or the
  process dies, the run still awaits review and has no files.
* One worker is deployed and the audit loop has no bound, so a run whose auditor
  keeps finding blockers keeps all others waiting until somebody cancels it; a
  cancelled run whose worker died waits as well.
* `_heartbeat` takes a lease back that another worker has got, so `OwnerSettles`
  needs `TimelyLeases`.
* A run starts from the working files of the time it is claimed, not from its
  base commit as `src/ARCHITECTURE.md:57` says; `RevisionIsReviewedChange` shows
  that to be harmless as accept refuses a base that has moved.
* Workspaces of `analyze` and `suggest` runs that complete are never deleted.

Review and edits:

* A commit that fails leaves the candidate staged, a push that fails leaves its
  commit on the branch; an edit whose transaction fails leaves its commit.
* The locks are free before an undo resets the branch, so the commit of a
  revision made in between is taken off the branch.
* `get_db` commits after the handler has returned: an answer may report writes
  that then fail.
* An accept calls the memory service with the rows of the run and the project
  locked, and without a timeout: if the answer never comes, neither row can be
  written again until the API is restarted (`RequestsEnd`).

The engine and events:

* Dependencies are compared by the first step that mentions a unit, whatever its
  tool, so a unit may be written before one it depends on, although
  `src/ARCHITECTURE.md:63` says that a writer reads the finished units it depends
  on; a later step may overwrite or delete the file of a unit.
* A correction executes the whole plan again: a step that deletes a file then
  fails the run, as the file is gone. Corrections need the role `reviser`, which
  the skill `outliner` does not have, so its corrections fail. No skill lets a
  run start with `knowledge-builder`.
* Tools do not check the ends of relations, so a run may be under review that
  can only be rejected (`KnowledgeReplays`).
* The session row a stream has locked blocks the refreshes and the cancel button
  of the same browser until the stream ends. After a clean end the browser does
  not reconnect, so it misses an event that was committed between the two
  reads; it shows the outcome all the same (`OutcomeIsShown`).

The memory service and the lifecycle of projects:

* An answer taken by a poll that was given up blocks its requester and, with it,
  the locks of the instance and of the supervisor, for ever (`CallsEnd` excepts
  it).
* A process that answers and exits between the empty poll of its requester and
  the look at it leaves the answer in its queue: the request is reported as failed
  although it took effect.
* A stop takes its instance out of the table first; a start that comes then has
  a second live process on the same storage, which the stop removes, or removes
  in part when the deletion meets a file that appears meanwhile.
* A creation that cannot stop the memory it has started, or whose commit fails
  after all else, leaves Git storage or memory behind (`leaked`).

Accounts and configuration:

* Balances are written from a row that was read without a lock: of two
  overlapping charges or credits one may be lost. Two callbacks of one order are
  both credited if their payment ids differ.
* A login that overlaps a change of the password keeps its session.
* Two administrators can demote, delete or suspend each other at the same time.
  An administrator cannot demote or delete himself but can suspend himself
  (`routers/admin.py:768-774`), also the last one (`AnAdministratorRemains`).
* A provider can be turned off while projects and agents
  have selected its models: the references stay, and runs with them fail
  (`services/provider_resolution.py:63-82`).
* The list of projects leaves out public projects that a guest may open
  (`services/project_access.py:89-102`).
* Administrators cannot create users: the route `create_user`
  (`routers/admin.py:709-737`) has the name of the service function it calls,
  and calls itself with the wrong arguments. It is no action for that reason.
  Rows of `create_deposit` stay `PENDING`: nothing reads them.
* Deleting a user who has created an agent is refused by the foreign key.
  Templates deleted with an account leave agents that cannot start
  (`BoundTemplatesFit`).
* An agent that is deleted while a run with it is accepted takes the run with it
  (`AcceptedRunsStay`).
* Renaming a pricing rule renames models of providers and leaves references
  `provider::model` with the old name. Removing a model removes its price even if
  the same provider still lists it as another kind.
* Discovery merges into a list of models read before the request to the provider,
  so what was changed meanwhile is undone.

## 7. Plan

Done since the first version of the project: events and their stream, the
engine, the memory service with the lifecycle of projects, accounts, the
configuration of projects and access to them; theorems for all of them, and for
the files and datasets of `ProjectRevisions`. Left, in this order:

1. `AgentRuns` with `ProjectRevisions`, so that takeovers by a second worker race
   with reviews, too. The late writers of a status are in `ProjectRevisions`.
2. An abstract specification of the queue (each run is executed by one worker at
   a time and settled once) that `AgentRuns` implements under `TimelyLeases`.
3. An exact statement of which commits `ProjectShowsActiveRevision` loses after
   one failure of Git, and its proof.

## 8. Not modelled

* Calls of providers (`services/ai.py`, `services/llm_runtime.py`): requests with
  retries inside an SDK, whose outcome is an answer, chosen freely in
  `AgentEngine`, or an error.
* Prompts and the text of files, skills, packs and knowledge; custom skills and
  packs are texts that nothing refers to.
* Export, lists (those of projects included) and statistics, which read; the
  profile of a user, settings of mail and OAuth, which are single rows nothing
  else depends on.
* Expiry of sessions and rate limits, which usage rows are old, how a cost is
  computed: each is a function of a clock or of numbers the properties do not
  tell apart.
* Path checks of workspaces and projects: pure validation.
* Disk use; clients of the API other than the store of the web client.

`PROJECT.json` lists every component with its status.
