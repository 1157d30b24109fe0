----------------------------- MODULE AgentRuns -----------------------------
(***************************************************************************)
(* The Agent run queue of MuseGraph: rows of agent_runs that API requests  *)
(* create and cancel, worker processes that claim them under a database    *)
(* lease, the two asyncio tasks a worker runs for a claimed run (the       *)
(* execution and the lease heartbeat), and the run workspace on the shared *)
(* volume.                                                                 *)
(*                                                                         *)
(* One step is one database transaction, or one stretch of code without an *)
(* await.  Handlers that read a row in one transaction and decide in a     *)
(* later one (cancel_agent_run, maintain_lease) are split at that point.   *)
(* The model of what an accepted review publishes is ProjectRevisions.     *)
(***************************************************************************)
EXTENDS Naturals, FiniteSets

CONSTANTS
  Runs,          \* run ids, numbered in the order of created_at
  Workers,       \* identities of the worker processes
  Modes,         \* the run modes submitted, a subset of {"write", "analyze"}
  NoWorker,      \* NULL in lease_owner
  NoRun,         \* a worker that holds no run
  TimelyLeases,  \* TRUE: a live worker always renews before its lease ends
  FaultKinds,    \* the faults that happen, a subset of AllFaults
  MaxFaults      \* bound on the number of faults in a behaviour

\* A worker process dies; an event append fails after a result was written; a
\* database call of the heartbeat fails; the commit of a reject fails, or the API
\* process dies before it.
AllFaults == {"crash", "event", "database", "commit"}

ASSUME RunsAssumption == Runs \subseteq Nat
ASSUME ModesAssumption == Modes \subseteq {"write", "analyze"}
ASSUME NullsAssumption == NoWorker \notin Workers /\ NoRun \notin Runs
ASSUME FaultsAssumption == FaultKinds \subseteq AllFaults /\ MaxFaults \in Nat
ASSUME TimelyAssumption == TimelyLeases \in BOOLEAN

VARIABLES
  status,          \* agent_runs.status; "absent" before the row exists
  mode,            \* agent_runs.mode
  owner,           \* agent_runs.lease_owner
  lease,           \* agent_runs.lease_expires_at: NULL, ahead, or passed
  cancelRequested, \* agent_runs.cancel_requested
  cancelRead,      \* the status a cancel request in flight has read
  rejecting,       \* a reject holds the row's lock and has removed the workspace
  workspace,       \* the directory runs/<run id>/workspace
  pc,              \* main() of each worker
  job,             \* the run a worker has claimed
  exec,            \* its execute_agent_run task
  beat,            \* its maintain_lease task
  faults           \* faults so far

requests == <<cancelRead, rejecting>>
row    == <<status, mode, owner, lease, cancelRequested, requests>>
worker == <<pc, job, exec, beat>>
vars   == <<row, workspace, worker, faults>>

Settled    == {"completed", "rejected", "conflicted", "failed", "cancelled"}
Statuses   == {"absent", "queued", "running", "awaiting_review"} \cup Settled
Holding    == {"claimed", "running", "aborting", "cleaning"}
Editing    == {"load", "loop", "heartbeat", "act"}
ExecStates == Editing \cup {"off", "notify", "interrupted", "cancelling",
                            "broken", "failing", "done"}
BeatStates == {"off", "sleep", "renew", "reread", "stopped", "cancelled", "lost"}

TypeOK ==
  /\ status \in [Runs -> Statuses]
  /\ mode \in [Runs -> {"write", "analyze"}]
  /\ owner \in [Runs -> Workers \cup {NoWorker}]
  /\ lease \in [Runs -> {"none", "live", "expired"}]
  /\ cancelRequested \in [Runs -> BOOLEAN]
  /\ cancelRead \in [Runs -> {"none", "queued", "running"}]
  /\ rejecting \in [Runs -> BOOLEAN]
  /\ \A r \in Runs : rejecting[r] => status[r] = "awaiting_review"
  /\ workspace \in [Runs -> {"absent", "complete", "partial"}]
  /\ pc \in [Workers -> Holding \cup {"idle", "down"}]
  /\ job \in [Workers -> Runs \cup {NoRun}]
  /\ \A w \in Workers : pc[w] \in Holding => job[w] \in Runs
  /\ exec \in [Workers -> ExecStates]
  /\ beat \in [Workers -> BeatStates]
  /\ \A w \in Workers : pc[w] # "running" => exec[w] = "off" /\ beat[w] = "off"
  /\ faults \in 0..MaxFaults

Init ==
  /\ status = [r \in Runs |-> "absent"]
  /\ mode \in [Runs -> Modes]
  /\ owner = [r \in Runs |-> NoWorker]
  /\ lease = [r \in Runs |-> "none"]
  /\ cancelRequested = [r \in Runs |-> FALSE]
  /\ cancelRead = [r \in Runs |-> "none"]
  /\ rejecting = [r \in Runs |-> FALSE]
  /\ workspace = [r \in Runs |-> "absent"]
  /\ pc = [w \in Workers |-> "idle"]
  /\ job = [w \in Workers |-> NoRun]
  /\ exec = [w \in Workers |-> "off"]
  /\ beat = [w \in Workers |-> "off"]
  /\ faults = 0

FaultHappens(kind) ==
  /\ kind \in FaultKinds
  /\ faults < MaxFaults
  /\ faults' = faults + 1

-----------------------------------------------------------------------------
(* Requests of the API process. *)

\* start_agent_run: the row is committed as queued, in created_at order.
StartRun(r) ==
  /\ status[r] = "absent"
  /\ \A q \in Runs : q < r => status[q] # "absent"
  /\ status' = [status EXCEPT ![r] = "queued"]
  /\ UNCHANGED <<mode, owner, lease, cancelRequested, requests, workspace,
                 worker, faults>>

\* cancel_agent_run loads the row without a lock and refuses a settled run.
ReadForCancel(r) ==
  /\ cancelRead[r] = "none"
  /\ status[r] \in {"queued", "running"}
  /\ cancelRead' = [cancelRead EXCEPT ![r] = status[r]]
  /\ UNCHANGED <<status, mode, owner, lease, cancelRequested, rejecting, workspace,
                 worker, faults>>

\* Seeded defect: the status is written whatever was read.
CancelledStatusAlways(r) == "cancelled"

\* Its commit: the status written depends on the status read, whatever the
\* row holds by now.  Only the assigned columns are written, and the write waits
\* for the row's lock.
CancelledStatus(r) ==
  IF cancelRead[r] = "queued" THEN "cancelled" ELSE status[r]

CommitCancel(r) ==
  /\ cancelRead[r] # "none"
  /\ ~rejecting[r]
  /\ cancelRequested' = [cancelRequested EXCEPT ![r] = TRUE]
  /\ status' = [status EXCEPT ![r] = CancelledStatus(r)]
  /\ cancelRead' = [cancelRead EXCEPT ![r] = "none"]
  /\ UNCHANGED <<mode, owner, lease, rejecting, workspace, worker, faults>>

\* review_agent_run settles a run that awaits review, in one transaction on
\* the locked row, and removes the workspace after its commit.  An accept copies
\* the candidate files first and rolls back when they are gone.
Review(r, decision) ==
  /\ status[r] = "awaiting_review"
  /\ ~rejecting[r]
  /\ decision = "completed" => workspace[r] # "absent"
  /\ status' = [status EXCEPT ![r] = decision]
  /\ workspace' = [workspace EXCEPT ![r] = "absent"]
  /\ UNCHANGED <<mode, owner, lease, cancelRequested, requests, worker, faults>>

\* A reject removes the workspace before its commit, holding the row's lock.
BeginReject(r) ==
  /\ status[r] = "awaiting_review"
  /\ ~rejecting[r]
  /\ rejecting' = [rejecting EXCEPT ![r] = TRUE]
  /\ workspace' = [workspace EXCEPT ![r] = "absent"]
  /\ UNCHANGED <<status, mode, owner, lease, cancelRequested, cancelRead, worker, faults>>

CommitReject(r) ==
  /\ rejecting[r]
  /\ status' = [status EXCEPT ![r] = "rejected"]
  /\ rejecting' = [rejecting EXCEPT ![r] = FALSE]
  /\ UNCHANGED <<mode, owner, lease, cancelRequested, cancelRead, workspace, worker, faults>>

\* The rolled back row awaits review still; the workspace is gone.
RejectFails(r) ==
  /\ rejecting[r]
  /\ rejecting' = [rejecting EXCEPT ![r] = FALSE]
  /\ FaultHappens("commit")
  /\ UNCHANGED <<status, mode, owner, lease, cancelRequested, cancelRead, workspace, worker>>

-----------------------------------------------------------------------------
(* main() of a worker. *)

\* Defects seeded to test the properties: the lease is not compared, or a
\* running row is never taken over, or not when its run is to be cancelled.
ClaimableAnyRunning(r) == status[r] \in {"queued", "running"}
ClaimableQueuedOnly(r) == status[r] = "queued"
ClaimableUncancelled(r) ==
  \/ status[r] = "queued"
  \/ status[r] = "running" /\ lease[r] = "expired" /\ ~cancelRequested[r]

Claimable(r) ==
  \/ status[r] = "queued"
  \/ status[r] = "running" /\ lease[r] = "expired"

\* Seeded defect: a claim without a lease.
ClaimRowWithoutLease(w, r) ==
  /\ status' = [status EXCEPT ![r] = "running"]
  /\ owner' = [owner EXCEPT ![r] = w]
  /\ UNCHANGED <<mode, lease, cancelRequested, requests>>

\* cancel_requested is not reset.
ClaimRow(w, r) ==
  /\ status' = [status EXCEPT ![r] = "running"]
  /\ owner' = [owner EXCEPT ![r] = w]
  /\ lease' = [lease EXCEPT ![r] = "live"]
  /\ UNCHANGED <<mode, cancelRequested, requests>>

\* claim_run: the oldest claimable row, locked with SKIP LOCKED.
ClaimRun(w, r) ==
  /\ pc[w] = "idle"
  /\ Claimable(r)
  /\ \A q \in Runs : q < r => ~Claimable(q)
  /\ ClaimRow(w, r)
  /\ pc' = [pc EXCEPT ![w] = "claimed"]
  /\ job' = [job EXCEPT ![w] = r]
  /\ UNCHANGED <<workspace, exec, beat, faults>>

\* The "running" event is appended and both tasks are created.
StartTasks(w) ==
  /\ pc[w] = "claimed"
  /\ pc' = [pc EXCEPT ![w] = "running"]
  /\ exec' = [exec EXCEPT ![w] = "load"]
  /\ beat' = [beat EXCEPT ![w] = "sleep"]
  /\ UNCHANGED <<row, workspace, job, faults>>

\* Seeded defect: only the heartbeat is stopped.
StopHeartbeatOnly(w) ==
  /\ beat' = [beat EXCEPT ![w] = "off"]
  /\ UNCHANGED exec

\* No task outlives the wait of main() for it.
StopTasks(w) ==
  /\ exec' = [exec EXCEPT ![w] = "off"]
  /\ beat' = [beat EXCEPT ![w] = "off"]

\* A process that dies, or an exception that leaves main(): claim_run is
\* outside its try block, so a failed "running" event ends the process.  It may
\* die while create_run_workspace removes and copies the directory.
Interrupted(w) ==
  IF exec[w] = "load"
    THEN {[workspace EXCEPT ![job[w]] = ws] :
            ws \in {"absent", "partial", workspace[job[w]]}}
    ELSE {workspace}

Crash(w) ==
  /\ pc[w] # "down"
  /\ FaultHappens("crash")
  /\ pc' = [pc EXCEPT ![w] = "down"]
  /\ job' = [job EXCEPT ![w] = NoRun]
  /\ StopTasks(w)
  /\ workspace' \in Interrupted(w)
  /\ UNCHANGED row

\* docker-compose restarts the worker container.
Restart(w) ==
  /\ pc[w] = "down"
  /\ pc' = [pc EXCEPT ![w] = "idle"]
  /\ UNCHANGED <<row, workspace, job, exec, beat, faults>>

\* execute_claimed_run returns once the execution has ended and the heartbeat
\* has not raised.
FinishJob(w) ==
  /\ pc[w] = "running"
  /\ exec[w] = "done"
  /\ beat[w] \notin {"cancelled", "lost"}
  /\ pc' = [pc EXCEPT ![w] = "idle"]
  /\ job' = [job EXCEPT ![w] = NoRun]
  /\ StopTasks(w)
  /\ UNCHANGED <<row, workspace, faults>>

\* The heartbeat raised: the execution task is cancelled where it stands.  A
\* lost lease leaves the row to its new owner.
AbortJob(w) ==
  /\ pc[w] = "running"
  /\ beat[w] \in {"cancelled", "lost"}
  /\ IF beat[w] = "cancelled"
       THEN /\ pc' = [pc EXCEPT ![w] = "aborting"]
            /\ UNCHANGED job
       ELSE /\ pc' = [pc EXCEPT ![w] = "idle"]
            /\ job' = [job EXCEPT ![w] = NoRun]
  /\ StopTasks(w)
  /\ UNCHANGED <<row, workspace, faults>>

\* A worker settles the row it works on: no owner or status is compared, but the
\* write waits for the row's lock.
SettleRow(w, s) ==
  /\ ~rejecting[job[w]]
  /\ status' = [status EXCEPT ![job[w]] = s]
  /\ owner' = [owner EXCEPT ![job[w]] = NoWorker]
  /\ lease' = [lease EXCEPT ![job[w]] = "none"]
  /\ UNCHANGED <<mode, cancelRequested, requests>>

\* Seeded defect: a row that is settled already is left alone.
SettleAbortedRunning(w) ==
  /\ pc[w] = "aborting"
  /\ IF status[job[w]] = "running" THEN SettleRow(w, "cancelled") ELSE UNCHANGED row
  /\ pc' = [pc EXCEPT ![w] = "cleaning"]
  /\ UNCHANGED <<workspace, job, exec, beat, faults>>

\* After a cancellation seen by the heartbeat: status, then workspace.
SettleAborted(w) ==
  /\ pc[w] = "aborting"
  /\ SettleRow(w, "cancelled")
  /\ pc' = [pc EXCEPT ![w] = "cleaning"]
  /\ UNCHANGED <<workspace, job, exec, beat, faults>>

CleanAborted(w) ==
  /\ pc[w] = "cleaning"
  /\ workspace' = [workspace EXCEPT ![job[w]] = "absent"]
  /\ pc' = [pc EXCEPT ![w] = "idle"]
  /\ job' = [job EXCEPT ![w] = NoRun]
  /\ UNCHANGED <<row, exec, beat, faults>>

-----------------------------------------------------------------------------
(* The execution task, execute_agent_run. *)

ExecStep(w, from, to) ==
  /\ exec[w] = from
  /\ exec' = [exec EXCEPT ![w] = to]
  /\ UNCHANGED <<pc, job, beat>>

\* create_run_workspace replaces whatever the directory held; context,
\* blueprint and plan follow.
LoadRun(w) ==
  /\ ExecStep(w, "load", "loop")
  /\ workspace' = [workspace EXCEPT ![job[w]] = "complete"]
  /\ UNCHANGED <<row, faults>>

\* _check_cancelled, first statement of every tool-loop iteration.  _llm_json
\* checks before every request as well; as nothing is written between its
\* checks and the next iteration but by a tool, this step stands for them.
CheckCancelled(w) ==
  /\ ExecStep(w, "loop",
       IF cancelRequested[job[w]] \/ status[job[w]] = "cancelled"
         THEN "interrupted" ELSE "heartbeat")
  /\ UNCHANGED <<row, workspace, faults>>

\* Seeded defect: the heartbeat also writes the status.
HeartbeatWritingStatus(w) ==
  /\ ExecStep(w, "heartbeat", "act")
  /\ status' = [status EXCEPT ![job[w]] = "running"]
  /\ owner' = [owner EXCEPT ![job[w]] = w]
  /\ lease' = [lease EXCEPT ![job[w]] = "live"]
  /\ UNCHANGED <<mode, cancelRequested, requests, workspace, faults>>

\* _heartbeat takes the lease without comparing owner or status.
Heartbeat(w) ==
  /\ ExecStep(w, "heartbeat", "act")
  /\ ~rejecting[job[w]]
  /\ owner' = [owner EXCEPT ![job[w]] = w]
  /\ lease' = [lease EXCEPT ![job[w]] = "live"]
  /\ UNCHANGED <<status, mode, cancelRequested, requests, workspace, faults>>

\* One planned tool call, or an audit whose blockers start another tool loop.
\* write_run_file creates missing parent directories.
AfterEdit(ws) == IF ws = "absent" THEN "partial" ELSE ws

UseTool(w, edits) ==
  /\ ExecStep(w, "act", "loop")
  /\ edits => mode[job[w]] = "write"
  /\ workspace' = [workspace EXCEPT ![job[w]] = IF edits THEN AfterEdit(@) ELSE @]
  /\ UNCHANGED <<row, faults>>

\* Validation and audit passed.  The files a write run changed must be those it
\* declares, and in a workspace that is gone every project file counts as
\* deleted; the other modes read no workspace here.
SettleResult(w) ==
  /\ ExecStep(w, "act", "notify")
  /\ mode[job[w]] = "write" => workspace[job[w]] = "complete"
  /\ SettleRow(w, IF mode[job[w]] = "write" THEN "awaiting_review" ELSE "completed")
  /\ UNCHANGED <<workspace, faults>>

\* The event of the result is appended inside the same try block.
Notified(w) ==
  /\ ExecStep(w, "notify", "done")
  /\ UNCHANGED <<row, workspace, faults>>

NotifyFails(w) ==
  /\ ExecStep(w, "notify", "broken")
  /\ FaultHappens("event")
  /\ UNCHANGED <<row, workspace>>

\* A provider, validation, tool or infrastructure error.
Raise(w) ==
  /\ \E from \in Editing : ExecStep(w, from, "broken")
  /\ UNCHANGED <<row, workspace, faults>>

\* Both handlers delete the workspace before they write the row.
DropWorkspace(w) ==
  /\ \/ ExecStep(w, "interrupted", "cancelling")
     \/ ExecStep(w, "broken", "failing")
  /\ workspace' = [workspace EXCEPT ![job[w]] = "absent"]
  /\ UNCHANGED <<row, faults>>

SettleInterrupted(w) ==
  /\ ExecStep(w, "cancelling", "done")
  /\ SettleRow(w, "cancelled")
  /\ UNCHANGED <<workspace, faults>>

SettleFailed(w) ==
  /\ ExecStep(w, "failing", "done")
  /\ SettleRow(w, "failed")
  /\ UNCHANGED <<workspace, faults>>

-----------------------------------------------------------------------------
(* The heartbeat task, maintain_lease. *)

BeatStep(w, from, to) ==
  /\ beat[w] = from
  /\ beat' = [beat EXCEPT ![w] = to]
  /\ UNCHANGED <<pc, job, exec, workspace, faults>>

ReadLease(w) ==
  /\ BeatStep(w, "sleep",
       IF cancelRequested[job[w]] THEN "cancelled"
       ELSE IF status[job[w]] # "running" THEN "stopped"
       ELSE IF owner[job[w]] # w THEN "lost"
       ELSE "renew")
  /\ UNCHANGED row

\* The guarded UPDATE compares status and owner again.
Renewable(w) == status[job[w]] = "running" /\ owner[job[w]] = w

RenewLease(w) ==
  /\ BeatStep(w, "renew", IF Renewable(w) THEN "sleep" ELSE "reread")
  /\ lease' = [lease EXCEPT ![job[w]] = IF Renewable(w) THEN "live" ELSE @]
  /\ UNCHANGED <<status, mode, owner, cancelRequested, requests>>

RereadStatus(w) ==
  /\ BeatStep(w, "reread",
       IF status[job[w]] # "running" THEN "stopped" ELSE "lost")
  /\ UNCHANGED row

\* A database error in the heartbeat ends the job like a lost lease.
BeatFails(w) ==
  /\ beat[w] \in {"sleep", "renew", "reread"}
  /\ beat' = [beat EXCEPT ![w] = "lost"]
  /\ FaultHappens("database")
  /\ UNCHANGED <<row, workspace, pc, job, exec>>

-----------------------------------------------------------------------------
Holds(w, r) == pc[w] \in Holding /\ job[w] = r
Orphaned(r) == \A w \in Workers : ~Holds(w, r)

\* Wall-clock time passes lease_expires_at.
Expire(r) ==
  /\ lease[r] = "live"
  /\ TimelyLeases => Orphaned(r)
  /\ lease' = [lease EXCEPT ![r] = "expired"]
  /\ UNCHANGED <<status, mode, owner, cancelRequested, requests, workspace,
                 worker, faults>>

Request(r) ==
  \/ StartRun(r)
  \/ ReadForCancel(r)
  \/ CommitCancel(r)
  \/ \E decision \in {"completed", "conflicted"} : Review(r, decision)
  \/ BeginReject(r)
  \/ CommitReject(r)
  \/ RejectFails(r)

MainStep(w) ==
  \/ \E r \in Runs : ClaimRun(w, r)
  \/ StartTasks(w)
  \/ Restart(w)
  \/ FinishJob(w)
  \/ AbortJob(w)
  \/ SettleAborted(w)
  \/ CleanAborted(w)

Execute(w) ==
  \/ LoadRun(w)
  \/ CheckCancelled(w)
  \/ Heartbeat(w)
  \/ \E edits \in BOOLEAN : UseTool(w, edits)
  \/ SettleResult(w)
  \/ Notified(w)
  \/ DropWorkspace(w)
  \/ SettleInterrupted(w)
  \/ SettleFailed(w)

MaintainLease(w) ==
  \/ ReadLease(w)
  \/ RenewLease(w)
  \/ RereadStatus(w)

Fault(w) ==
  \/ Crash(w)
  \/ NotifyFails(w)
  \/ Raise(w)
  \/ BeatFails(w)

Next ==
  \/ \E r \in Runs : Request(r) \/ Expire(r)
  \/ \E w \in Workers : MainStep(w) \/ Execute(w) \/ MaintainLease(w) \/ Fault(w)

Spec == Init /\ [][Next]_vars

\* Workers keep scheduling their tasks, containers are restarted, and a lease
\* that nobody renews ends.  Nothing makes a user act, a tool loop conclude, a
\* heartbeat come late or a call fail.
FairSpec ==
  /\ Spec
  /\ \A w \in Workers : WF_vars(MainStep(w)) /\ WF_vars(Execute(w))
                        /\ WF_vars(MaintainLease(w))
  /\ \A r \in Runs : WF_vars(Orphaned(r) /\ Expire(r))

-----------------------------------------------------------------------------
(* Properties of every behaviour, late heartbeats and crashes included. *)

\* claim_run finds a running row only through lease_expires_at < now, and NULL
\* never compares: a running row without a lease and an owner would be stuck
\* for ever.  Eight writers touch these columns (agent_worker_main.py:43-51,
\* 76-89, 119-123, agent_engine.py:335-344, 1284-1353, agent.py:277-281).
RunningIsRecoverable ==
  \A r \in Runs :
    status[r] = "running" => lease[r] # "none" /\ owner[r] # NoWorker

\* Once a run has left queued and running no later step, of the worker that
\* settled it or of one that lost the lease, makes it claimable again.
SettledNeverReexecuted ==
  [][\A r \in Runs :
       status[r] \notin {"absent", "queued", "running"}
         => status'[r] \notin {"absent", "queued", "running"}]_vars

\* ARCHITECTURE.md:50-53 draws no edge out of an outcome and leaves awaiting_review
\* by a review.  That holds of a run no worker holds any more, but for a cancellation
\* that had read the run while it was queued (agent.py:264-284): it is committed over
\* whatever the run has become, a published revision included.
OutcomesStand ==
  [][\A r \in Runs :
       status[r] \notin {"absent", "queued", "running"} /\ Orphaned(r)
         => \/ status'[r] = status[r]
            \/ status[r] = "awaiting_review" /\ status'[r] \in {"completed", "rejected", "conflicted"}
            \/ status'[r] = "cancelled" /\ cancelRead[r] = "queued"]_vars

(* Properties that need TimelyLeases. *)

\* Two workers never hold the same run, so they never share its workspace
\* directory, which is named by the run alone (agent_workspace.py:29-33).
AtMostOneExecutor ==
  \A r \in Runs : \A v, w \in Workers :
    Holds(v, r) /\ Holds(w, r) => v = w

\* While a reviewer looks at a run nobody can still write its files: accept
\* copies them from the workspace and never compares them with the reviewed
\* ChangeSet (agent_workspace.py:183-214).
ReviewedFilesAreQuiet ==
  \A r \in Runs : \A w \in Workers :
    status[r] = "awaiting_review" /\ Holds(w, r) => exec[w] \notin Editing

\* The result of a run is written by the worker that owns its lease.
OwnerSettles ==
  [][\A w \in Workers :
       SettleResult(w) => owner[job[w]] = w]_vars

\* The inductive strengthening of the three: a held run has left the queue and
\* cannot be claimed, and a worker that can still write files or a result owns
\* a run that is running, or was cancelled over its head.
HeldRunIsLeased ==
  \A w \in Workers, r \in Runs :
    Holds(w, r) => /\ status[r] \notin {"absent", "queued"}
                   /\ status[r] = "running" => lease[r] = "live"

EditorOwnsRun ==
  \A w \in Workers, r \in Runs :
    Holds(w, r) /\ (pc[w] = "claimed" \/ exec[w] \in Editing)
      => owner[r] = w /\ status[r] \in {"running", "cancelled"}

ExecutorInvariant == AtMostOneExecutor /\ HeldRunIsLeased /\ EditorOwnsRun

(* A property that needs event appends and the commits of rejects to succeed as
   well, so that only workers that crash and heartbeats that fail disturb it. *)

\* A write run that awaits review, and that no reject under way is about to settle,
\* has the complete workspace that accept publishes.  With a failed event append
\* (agent_engine.py:1295-1310) or a failed commit of a reject (agent.py:323, 403) the
\* row awaits review without the files.
AwaitingReviewIsPublishable ==
  \A r \in Runs :
    status[r] = "awaiting_review" /\ ~rejecting[r] => workspace[r] = "complete"

(* Liveness. *)

Ended(r) == status[r] \notin {"queued", "running"}

\* A worker is free again and again.  Nothing bounds the tool and audit loop of a
\* run (agent_engine.py:1198), so as many runs as there are workers can keep the
\* others waiting for ever; docker-compose.yml:114-130 deploys one worker.
AWorkerComesFree == \E w \in Workers : []<>(pc[w] = "idle")

\* A cancellation that was recorded takes the run from the worker that holds it,
\* however long its tool and audit loop would go on, and ends the run whose worker
\* died when another comes free.
CancelTakesEffect ==
  /\ \A r \in Runs : cancelRequested[r] ~> Ended(r) \/ Orphaned(r)
  /\ AWorkerComesFree => \A r \in Runs : cancelRequested[r] ~> Ended(r)

\* ARCHITECTURE.md:43: a running run whose worker is gone is claimed again, when a
\* worker comes free.
OrphanIsReclaimed ==
  AWorkerComesFree =>
    \A r \in Runs :
      (status[r] = "running" /\ Orphaned(r))
        ~> (status[r] # "running" \/ ~Orphaned(r))

=============================================================================
