-------------------------- MODULE AgentRunsProofs --------------------------
(***************************************************************************)
(* Theorems about AgentRuns, for any set of runs and workers and any bound *)
(* on faults: type correctness, the recoverability of running rows, that a *)
(* settled run is never executed again, and, when heartbeats are timely,   *)
(* that a run has one executor and that the executor owns the lease.       *)
(***************************************************************************)
EXTENDS AgentRuns, TLAPS

USE DEF requests, row, worker, vars, Holding, Editing, Settled, Statuses, ExecStates,
        BeatStates, ClaimRow, StopTasks

-----------------------------------------------------------------------------

\* A request of the routes keeps the types.
LEMMA RequestTypeOK ==
  ASSUME TypeOK, NEW r \in Runs, Request(r)
  PROVE  TypeOK'
<1>1. CASE StartRun(r)
  BY <1>1 DEF TypeOK, StartRun
<1>2. CASE ReadForCancel(r)
  BY <1>2 DEF TypeOK, ReadForCancel
<1>3. CASE CommitCancel(r)
  BY <1>3 DEF TypeOK, CommitCancel, CancelledStatus
<1>4. ASSUME NEW decision \in {"completed", "conflicted"}, Review(r, decision)
      PROVE  TypeOK'
  BY <1>4 DEF TypeOK, Review
<1>5. CASE BeginReject(r)
  BY <1>5 DEF TypeOK, BeginReject
<1>6. CASE CommitReject(r)
  BY <1>6 DEF TypeOK, CommitReject
<1>7. CASE RejectFails(r)
  BY <1>7, FaultsAssumption DEF TypeOK, RejectFails, FaultHappens
<1> QED BY <1>1, <1>2, <1>3, <1>4, <1>5, <1>6, <1>7 DEF Request

\* A step of a worker's main loop keeps the types.
LEMMA MainStepTypeOK ==
  ASSUME TypeOK, NEW w \in Workers, MainStep(w)
  PROVE  TypeOK'
<1>1. ASSUME NEW r \in Runs, ClaimRun(w, r) PROVE TypeOK'
  BY <1>1 DEF TypeOK, ClaimRun, Claimable
<1>2. CASE StartTasks(w)
  BY <1>2 DEF TypeOK, StartTasks
<1>3. CASE Restart(w)
  BY <1>3 DEF TypeOK, Restart
<1>4. CASE FinishJob(w)
  BY <1>4 DEF TypeOK, FinishJob
<1>5. CASE AbortJob(w)
  BY <1>5 DEF TypeOK, AbortJob
<1>6. CASE SettleAborted(w)
  BY <1>6 DEF TypeOK, SettleAborted, SettleRow
<1>7. CASE CleanAborted(w)
  BY <1>7 DEF TypeOK, CleanAborted
<1> QED BY <1>1, <1>2, <1>3, <1>4, <1>5, <1>6, <1>7 DEF MainStep

\* A task runs only in a worker whose main() waits for it.
LEMMA TaskHasJob ==
  ASSUME TypeOK, NEW w \in Workers, exec[w] # "off" \/ beat[w] # "off"
  PROVE  pc[w] = "running" /\ job[w] \in Runs
BY DEF TypeOK

\* A step of a worker's execution keeps the types.
LEMMA ExecuteTypeOK ==
  ASSUME TypeOK, NEW w \in Workers, Execute(w)
  PROVE  TypeOK'
<1> USE DEF ExecStep
<1>0. pc[w] = "running" /\ job[w] \in Runs
  BY TaskHasJob DEF Execute, LoadRun, CheckCancelled, Heartbeat, UseTool,
     SettleResult, Notified, DropWorkspace, SettleInterrupted, SettleFailed
<1>1. CASE LoadRun(w)
  BY <1>0, <1>1 DEF TypeOK, LoadRun
<1>2. CASE CheckCancelled(w)
  BY <1>0, <1>2 DEF TypeOK, CheckCancelled
<1>3. CASE Heartbeat(w)
  BY <1>0, <1>3 DEF TypeOK, Heartbeat
<1>4. ASSUME NEW edits \in BOOLEAN, UseTool(w, edits) PROVE TypeOK'
  BY <1>0, <1>4 DEF TypeOK, UseTool, AfterEdit
<1>5. CASE SettleResult(w)
  BY <1>0, <1>5 DEF TypeOK, SettleResult, SettleRow
<1>6. CASE Notified(w)
  BY <1>0, <1>6 DEF TypeOK, Notified
<1>7. CASE DropWorkspace(w)
  BY <1>0, <1>7 DEF TypeOK, DropWorkspace
<1>8. CASE SettleInterrupted(w)
  BY <1>0, <1>8 DEF TypeOK, SettleInterrupted, SettleRow
<1>9. CASE SettleFailed(w)
  BY <1>0, <1>9 DEF TypeOK, SettleFailed, SettleRow
<1> QED BY <1>1, <1>2, <1>3, <1>4, <1>5, <1>6, <1>7, <1>8, <1>9 DEF Execute

\* A heartbeat keeps the types.
LEMMA MaintainLeaseTypeOK ==
  ASSUME TypeOK, NEW w \in Workers, MaintainLease(w)
  PROVE  TypeOK'
<1> USE DEF BeatStep
<1>0. pc[w] = "running" /\ job[w] \in Runs
  BY TaskHasJob DEF MaintainLease, ReadLease, RenewLease, RereadStatus
<1>1. CASE ReadLease(w)
  BY <1>0, <1>1 DEF TypeOK, ReadLease
<1>2. CASE RenewLease(w)
  BY <1>0, <1>2 DEF TypeOK, RenewLease
<1>3. CASE RereadStatus(w)
  BY <1>0, <1>3 DEF TypeOK, RereadStatus
<1> QED BY <1>1, <1>2, <1>3 DEF MaintainLease

\* A fault keeps the types.
LEMMA FaultTypeOK ==
  ASSUME TypeOK, NEW w \in Workers, Fault(w)
  PROVE  TypeOK'
<1> USE FaultsAssumption DEF FaultHappens, ExecStep
<1>1. CASE Crash(w)
  <2>1. workspace' \in [Runs -> {"absent", "complete", "partial"}]
    BY <1>1, TaskHasJob DEF TypeOK, Crash, Interrupted
  <2> QED BY <1>1, <2>1 DEF TypeOK, Crash, StopTasks
<1>2. CASE NotifyFails(w)
  BY <1>2, TaskHasJob DEF TypeOK, NotifyFails
<1>3. CASE Raise(w)
  BY <1>3, TaskHasJob DEF TypeOK, Raise
<1>4. CASE BeatFails(w)
  BY <1>4, TaskHasJob DEF TypeOK, BeatFails
<1> QED BY <1>1, <1>2, <1>3, <1>4 DEF Fault

\* Every reachable state is well typed: statuses, leases and task states stay
\* in the sets the code uses, and a task exists only in a worker that awaits it.
THEOREM TypeCorrect == Spec => []TypeOK
<1>1. Init => TypeOK
  <2> SUFFICES ASSUME Init PROVE TypeOK
    OBVIOUS
  <2>1. mode \in [Runs -> {"write", "analyze"}]
    BY ModesAssumption DEF Init
  <2>2. faults \in 0..MaxFaults
    BY FaultsAssumption DEF Init
  <2> QED BY <2>1, <2>2 DEF Init, TypeOK
<1>2. TypeOK /\ [Next]_vars => TypeOK'
  <2> SUFFICES ASSUME TypeOK, [Next]_vars PROVE TypeOK'
    OBVIOUS
  <2>1. CASE UNCHANGED vars
    BY <2>1 DEF TypeOK
  <2>2. CASE Next
    <3>1. ASSUME NEW r \in Runs, Expire(r) PROVE TypeOK'
      BY <3>1 DEF TypeOK, Expire
    <3> QED BY <2>2, <3>1, RequestTypeOK, MainStepTypeOK, ExecuteTypeOK,
               MaintainLeaseTypeOK, FaultTypeOK DEF Next
  <2> QED BY <2>1, <2>2
<1> QED BY <1>1, <1>2, PTL DEF Spec

-----------------------------------------------------------------------------

\* No step leaves a running row without a lease or an owner: each writer that
\* clears them writes another status in the same transaction, and each writer
\* that sets running sets them.
THEOREM RunningRecoverable == Spec => []RunningIsRecoverable
<1>1. Init => RunningIsRecoverable
  BY DEF Init, RunningIsRecoverable
<1>2. TypeOK /\ RunningIsRecoverable /\ [Next]_vars => RunningIsRecoverable'
  <2> SUFFICES ASSUME TypeOK, RunningIsRecoverable, [Next]_vars,
                      NEW q \in Runs, status'[q] = "running"
               PROVE  lease'[q] # "none" /\ owner'[q] # NoWorker
    BY DEF RunningIsRecoverable
  <2> DEFINE Good == lease'[q] # "none" /\ owner'[q] # NoWorker
  <2>0. status[q] = "running" => lease[q] # "none" /\ owner[q] # NoWorker
    BY DEF RunningIsRecoverable
  <2>1. CASE UNCHANGED vars
    BY <2>0, <2>1
  <2>2. ASSUME NEW r \in Runs, Request(r) PROVE Good
    BY <2>0, <2>2 DEF TypeOK, Request, StartRun, ReadForCancel, CommitCancel,
       CancelledStatus, Review, BeginReject, CommitReject, RejectFails
  <2>3. ASSUME NEW r \in Runs, Expire(r) PROVE Good
    BY <2>0, <2>3 DEF TypeOK, Expire
  <2>4. ASSUME NEW w \in Workers, MainStep(w) PROVE Good
    <3>1. ASSUME NEW r \in Runs, ClaimRun(w, r) PROVE Good
      BY <2>0, <3>1, NullsAssumption DEF TypeOK, ClaimRun
    <3>2. CASE SettleAborted(w)
      BY <2>0, <3>2 DEF TypeOK, SettleAborted, SettleRow
    <3>3. ASSUME StartTasks(w) \/ Restart(w) \/ FinishJob(w) \/ AbortJob(w)
                 \/ CleanAborted(w)
          PROVE  Good
      BY <2>0, <3>3 DEF StartTasks, Restart, FinishJob, AbortJob, CleanAborted
    <3> QED BY <2>4, <3>1, <3>2, <3>3 DEF MainStep
  <2>5. ASSUME NEW w \in Workers, Execute(w) PROVE Good
    <3>0. job[w] \in Runs
      BY <2>5, TaskHasJob DEF Execute, LoadRun, CheckCancelled, Heartbeat,
         UseTool, SettleResult, Notified, DropWorkspace, SettleInterrupted,
         SettleFailed, ExecStep
    <3>1. CASE Heartbeat(w)
      BY <2>0, <3>0, <3>1, NullsAssumption DEF TypeOK, Heartbeat
    <3>2. CASE SettleResult(w)
      BY <2>0, <3>0, <3>2 DEF TypeOK, SettleResult, SettleRow
    <3>3. CASE SettleInterrupted(w) \/ SettleFailed(w)
      BY <2>0, <3>0, <3>3 DEF TypeOK, SettleInterrupted, SettleFailed, SettleRow
    <3>4. ASSUME LoadRun(w) \/ CheckCancelled(w) \/ Notified(w)
                 \/ DropWorkspace(w) \/ \E edits \in BOOLEAN : UseTool(w, edits)
          PROVE  Good
      BY <2>0, <3>4 DEF LoadRun, CheckCancelled, Notified, DropWorkspace, UseTool
    <3> QED BY <2>5, <3>1, <3>2, <3>3, <3>4 DEF Execute
  <2>6. ASSUME NEW w \in Workers, MaintainLease(w) PROVE Good
    <3>0. job[w] \in Runs
      BY <2>6, TaskHasJob DEF MaintainLease, ReadLease, RenewLease,
         RereadStatus, BeatStep
    <3> QED BY <2>0, <2>6, <3>0 DEF TypeOK, MaintainLease, ReadLease,
               RenewLease, RereadStatus
  <2>7. ASSUME NEW w \in Workers, Fault(w) PROVE Good
    BY <2>0, <2>7 DEF Fault, Crash, NotifyFails, Raise, BeatFails
  <2> QED BY <2>1, <2>2, <2>3, <2>4, <2>5, <2>6, <2>7 DEF Next
<1> QED BY <1>1, <1>2, TypeCorrect, PTL DEF Spec

-----------------------------------------------------------------------------

\* A run that left the queue never returns to it: claim_run is the only writer
\* of running and it takes queued or running rows, and no other transaction
\* writes queued over an existing row.
THEOREM NeverReexecuted == Spec => SettledNeverReexecuted
<1> DEFINE Left(s) == s \notin {"absent", "queued", "running"}
           Stays == \A q \in Runs : Left(status[q]) => Left(status'[q])
<1>1. ASSUME TypeOK, Next PROVE Stays
  <2> SUFFICES ASSUME NEW q \in Runs, Left(status[q]) PROVE Left(status'[q])
    OBVIOUS
  <2>1. ASSUME NEW r \in Runs, Request(r) PROVE Left(status'[q])
    BY <1>1, <2>1 DEF TypeOK, Request, StartRun, ReadForCancel, CommitCancel,
       CancelledStatus, Review, BeginReject, CommitReject, RejectFails
  <2>2. ASSUME NEW r \in Runs, Expire(r) PROVE Left(status'[q])
    BY <2>2 DEF Expire
  <2>3. ASSUME NEW w \in Workers, MainStep(w) PROVE Left(status'[q])
    <3>1. ASSUME NEW r \in Runs, ClaimRun(w, r) PROVE Left(status'[q])
      BY <1>1, <3>1 DEF TypeOK, ClaimRun, Claimable
    <3>2. CASE SettleAborted(w)
      BY <1>1, <3>2 DEF TypeOK, SettleAborted, SettleRow
    <3>3. ASSUME StartTasks(w) \/ Restart(w) \/ FinishJob(w) \/ AbortJob(w)
                 \/ CleanAborted(w)
          PROVE  Left(status'[q])
      BY <3>3 DEF StartTasks, Restart, FinishJob, AbortJob, CleanAborted
    <3> QED BY <2>3, <3>1, <3>2, <3>3 DEF MainStep
  <2>4. ASSUME NEW w \in Workers, Execute(w) PROVE Left(status'[q])
    <3>1. CASE SettleResult(w)
      BY <1>1, <3>1 DEF TypeOK, SettleResult, SettleRow
    <3>2. CASE SettleInterrupted(w) \/ SettleFailed(w)
      BY <1>1, <3>2 DEF TypeOK, SettleInterrupted, SettleFailed, SettleRow
    <3>3. ASSUME LoadRun(w) \/ CheckCancelled(w) \/ Heartbeat(w) \/ Notified(w)
                 \/ DropWorkspace(w) \/ \E edits \in BOOLEAN : UseTool(w, edits)
          PROVE  Left(status'[q])
      BY <3>3 DEF LoadRun, CheckCancelled, Heartbeat, Notified, DropWorkspace, UseTool
    <3> QED BY <2>4, <3>1, <3>2, <3>3 DEF Execute
  <2>5. ASSUME NEW w \in Workers, MaintainLease(w) PROVE Left(status'[q])
    <3>1. UNCHANGED status
      BY <2>5 DEF MaintainLease, ReadLease, RenewLease, RereadStatus
    <3> QED BY <3>1
  <2>6. ASSUME NEW w \in Workers, Fault(w) PROVE Left(status'[q])
    BY <2>6 DEF Fault, Crash, NotifyFails, Raise, BeatFails
  <2> QED BY <1>1, <2>1, <2>2, <2>3, <2>4, <2>5, <2>6 DEF Next
<1>2. TypeOK /\ [Next]_vars => [Stays]_vars
  BY <1>1
<1>3. [Stays]_vars => [\A r \in Runs :
         status[r] \notin {"absent", "queued", "running"}
           => status'[r] \notin {"absent", "queued", "running"}]_vars
  OBVIOUS
<1> QED BY <1>2, <1>3, TypeCorrect, PTL DEF Spec, SettledNeverReexecuted

\* What a step may make of a run that has left the queue and that nobody holds.
Stands(q) ==
  \/ status'[q] = status[q]
  \/ status[q] = "awaiting_review" /\ status'[q] \in {"completed", "rejected", "conflicted"}
  \/ status'[q] = "cancelled" /\ cancelRead[q] = "queued"

\* A worker writes the status of the run it holds and, claiming, of one in the queue.
LEMMA WorkersLeaveOutcomes ==
  ASSUME TypeOK, NEW q \in Runs, Orphaned(q), status[q] \notin {"absent", "queued", "running"},
         NEW w \in Workers,
         MainStep(w) \/ Execute(w) \/ MaintainLease(w) \/ Fault(w)
  PROVE  status'[q] = status[q]
<1>0. ~Holds(w, q)
  BY DEF Orphaned
<1>1. CASE MainStep(w)
  <2>1. ASSUME NEW r \in Runs, ClaimRun(w, r) PROVE status'[q] = status[q]
    BY <2>1 DEF TypeOK, ClaimRun, ClaimRow, Claimable
  <2>2. CASE SettleAborted(w)
    BY <1>0, <2>2 DEF TypeOK, SettleAborted, SettleRow, Holds, Holding
  <2>3. ASSUME StartTasks(w) \/ Restart(w) \/ FinishJob(w) \/ AbortJob(w) \/ CleanAborted(w)
        PROVE  status'[q] = status[q]
    BY <2>3 DEF StartTasks, Restart, FinishJob, AbortJob, CleanAborted, row
  <2> QED BY <1>1, <2>1, <2>2, <2>3 DEF MainStep
<1>2. CASE Execute(w)
  <2>1. CASE SettleResult(w)
    BY <1>0, <2>1 DEF TypeOK, SettleResult, SettleRow, ExecStep, Holds, Holding
  <2>2. CASE SettleInterrupted(w) \/ SettleFailed(w)
    BY <1>0, <2>2 DEF TypeOK, SettleInterrupted, SettleFailed, SettleRow, ExecStep, Holds, Holding
  <2>3. ASSUME LoadRun(w) \/ CheckCancelled(w) \/ Heartbeat(w) \/ Notified(w)
               \/ DropWorkspace(w) \/ \E edits \in BOOLEAN : UseTool(w, edits)
        PROVE  status'[q] = status[q]
    BY <2>3 DEF LoadRun, CheckCancelled, Heartbeat, Notified, DropWorkspace, UseTool, row
  <2> QED BY <1>2, <2>1, <2>2, <2>3 DEF Execute
<1>3. CASE MaintainLease(w)
  BY <1>3 DEF MaintainLease, ReadLease, RenewLease, RereadStatus, row
<1>4. CASE Fault(w)
  BY <1>4 DEF Fault, Crash, NotifyFails, Raise, BeatFails, row
<1> QED BY <1>1, <1>2, <1>3, <1>4

\* The outcome of a run that nobody holds any more stands, but for a review and for
\* a cancellation that had read the run in the queue, with late leases and all faults.
THEOREM OutcomesAreKept == Spec => OutcomesStand
<1> DEFINE Kept == \A q \in Runs :
      status[q] \notin {"absent", "queued", "running"} /\ Orphaned(q) => Stands(q)
<1>1. ASSUME TypeOK, Next PROVE Kept
  <2> SUFFICES ASSUME NEW q \in Runs, Orphaned(q),
                      status[q] \notin {"absent", "queued", "running"}
               PROVE  Stands(q)
    OBVIOUS
  <2>1. ASSUME NEW r \in Runs, Request(r) PROVE Stands(q)
    BY <1>1, <2>1 DEF TypeOK, Stands, Request, StartRun, ReadForCancel, CommitCancel,
       CancelledStatus, Review, BeginReject, CommitReject, RejectFails
  <2>2. ASSUME NEW r \in Runs, Expire(r) PROVE Stands(q)
    BY <2>2 DEF Expire, Stands
  <2>3. ASSUME NEW w \in Workers,
               MainStep(w) \/ Execute(w) \/ MaintainLease(w) \/ Fault(w)
        PROVE  Stands(q)
    BY <1>1, <2>3, WorkersLeaveOutcomes DEF Stands
  <2> QED BY <1>1, <2>1, <2>2, <2>3 DEF Next
<1>2. TypeOK /\ [Next]_vars => [Kept]_vars
  BY <1>1
<1>3. [Kept]_vars => [\A r \in Runs :
         status[r] \notin {"absent", "queued", "running"} /\ Orphaned(r)
           => \/ status'[r] = status[r]
              \/ status[r] = "awaiting_review" /\ status'[r] \in {"completed", "rejected", "conflicted"}
              \/ status'[r] = "cancelled" /\ cancelRead[r] = "queued"]_vars
  BY DEF Stands
<1> QED BY <1>2, <1>3, TypeCorrect, PTL DEF Spec, OutcomesStand

-----------------------------------------------------------------------------
(* Timely heartbeats: one executor per run, which owns the lease.          *)

\* What one step must keep for the run q and the workers u and v, so that the
\* lemmas below fix all three once.
Safe(u, v, q) ==
  /\ Holds(u, q) /\ Holds(v, q) => u = v
  /\ Holds(u, q) => /\ status[q] \notin {"absent", "queued"}
                    /\ status[q] = "running" => lease[q] = "live"
  /\ Holds(u, q) /\ (pc[u] = "claimed" \/ exec[u] \in Editing)
       => owner[q] = u /\ status[q] \in {"running", "cancelled"}

\* The executor invariant, one pair of workers and one run at a time.
LEMMA ExecutorInvariantIsSafe ==
  ExecutorInvariant <=> \A u, v \in Workers, q \in Runs : Safe(u, v, q)
BY DEF ExecutorInvariant, AtMostOneExecutor, HeldRunIsLeased, EditorOwnsRun, Safe

\* API requests: a commit of cancel_agent_run leaves owner and lease alone,
\* and a review finds a run whose executor can no longer edit.
LEMMA RequestSafe ==
  ASSUME TypeOK, NEW u \in Workers, NEW v \in Workers, NEW q \in Runs,
         Safe(u, v, q), NEW r \in Runs, Request(r)
  PROVE  Safe(u, v, q)'
BY DEF TypeOK, Safe, Holds, Request, StartRun, ReadForCancel, CommitCancel,
       CancelledStatus, Review, BeginReject, CommitReject, RejectFails

\* With timely leases, an expiry meets no worker that still executes.
LEMMA ExpireSafe ==
  ASSUME TimelyLeases, TypeOK, NEW u \in Workers, NEW v \in Workers,
         NEW q \in Runs, Safe(u, v, q), NEW r \in Runs, Expire(r)
  PROVE  Safe(u, v, q)'
BY DEF TypeOK, Safe, Holds, Expire, Orphaned

\* A claim finds no holder: a held run is not queued and its lease is live.
LEMMA MainStepSafe ==
  ASSUME TypeOK, \A u, v \in Workers, q \in Runs : Safe(u, v, q),
         NEW u \in Workers, NEW v \in Workers, NEW q \in Runs,
         NEW w \in Workers, MainStep(w)
  PROVE  Safe(u, v, q)'
<1>0. Safe(u, v, q) /\ Safe(v, u, q) /\ Safe(w, u, q) /\ Safe(w, v, q)
  OBVIOUS
<1>1. ASSUME NEW r \in Runs, ClaimRun(w, r) PROVE Safe(u, v, q)'
  BY <1>0, <1>1 DEF TypeOK, Safe, Holds, ClaimRun, Claimable
<1>2. CASE StartTasks(w)
  BY <1>0, <1>2 DEF TypeOK, Safe, Holds, StartTasks
<1>3. CASE Restart(w) \/ FinishJob(w) \/ AbortJob(w) \/ CleanAborted(w)
  BY <1>0, <1>3 DEF TypeOK, Safe, Holds, Restart, FinishJob, AbortJob, CleanAborted
<1>4. CASE SettleAborted(w)
  BY <1>0, <1>4 DEF TypeOK, Safe, Holds, SettleAborted, SettleRow
<1> QED BY <1>1, <1>2, <1>3, <1>4 DEF MainStep

\* Only the holder of a run writes its row from the execution task.
LEMMA ExecuteSafe ==
  ASSUME TypeOK, \A u, v \in Workers, q \in Runs : Safe(u, v, q),
         NEW u \in Workers, NEW v \in Workers, NEW q \in Runs,
         NEW w \in Workers, Execute(w)
  PROVE  Safe(u, v, q)'
<1> USE DEF ExecStep
<1>0. /\ Safe(u, v, q) /\ Safe(w, u, q)
      /\ pc[w] = "running" /\ job[w] \in Runs
  BY TaskHasJob DEF Execute, LoadRun, CheckCancelled, Heartbeat, UseTool,
     SettleResult, Notified, DropWorkspace, SettleInterrupted, SettleFailed
<1>1. CASE LoadRun(w)
  BY <1>0, <1>1 DEF TypeOK, Safe, Holds, LoadRun
<1>2. CASE CheckCancelled(w)
  BY <1>0, <1>2 DEF TypeOK, Safe, Holds, CheckCancelled
<1>3. CASE Heartbeat(w)
  BY <1>0, <1>3 DEF TypeOK, Safe, Holds, Heartbeat
<1>4. ASSUME NEW edits \in BOOLEAN, UseTool(w, edits) PROVE Safe(u, v, q)'
  BY <1>0, <1>4 DEF TypeOK, Safe, Holds, UseTool
<1>5. CASE SettleResult(w)
  BY <1>0, <1>5 DEF TypeOK, Safe, Holds, SettleResult, SettleRow
<1>6. CASE Notified(w) \/ DropWorkspace(w)
  BY <1>0, <1>6 DEF TypeOK, Safe, Holds, Notified, DropWorkspace
<1>7. CASE SettleInterrupted(w) \/ SettleFailed(w)
  BY <1>0, <1>7 DEF TypeOK, Safe, Holds, SettleInterrupted, SettleFailed, SettleRow
<1> QED BY <1>1, <1>2, <1>3, <1>4, <1>5, <1>6, <1>7 DEF Execute

\* A heartbeat keeps two workers from executing the same run.
LEMMA MaintainLeaseSafe ==
  ASSUME TypeOK, NEW u \in Workers, NEW v \in Workers, NEW q \in Runs,
         Safe(u, v, q), NEW w \in Workers, MaintainLease(w)
  PROVE  Safe(u, v, q)'
<1>1. job[w] \in Runs
  BY TaskHasJob DEF MaintainLease, ReadLease, RenewLease, RereadStatus, BeatStep
<1> QED BY <1>1 DEF TypeOK, Safe, Holds, MaintainLease, ReadLease, RenewLease,
           RereadStatus, BeatStep

\* A fault keeps two workers from executing the same run.
LEMMA FaultSafe ==
  ASSUME TypeOK, NEW u \in Workers, NEW v \in Workers, NEW q \in Runs,
         Safe(u, v, q), NEW w \in Workers, Fault(w)
  PROVE  Safe(u, v, q)'
BY DEF TypeOK, Safe, Holds, Fault, Crash, NotifyFails, Raise, BeatFails, ExecStep

\* With timely heartbeats the strengthening is inductive.
THEOREM ExecutorsSafe ==
  ASSUME TimelyLeases
  PROVE  Spec => []ExecutorInvariant
<1>1. Init => ExecutorInvariant
  BY DEF Init, ExecutorInvariant, AtMostOneExecutor, HeldRunIsLeased,
     EditorOwnsRun, Holds
<1>2. TypeOK /\ ExecutorInvariant /\ [Next]_vars => ExecutorInvariant'
  <2> SUFFICES ASSUME TypeOK, ExecutorInvariant, [Next]_vars
               PROVE  ExecutorInvariant'
    OBVIOUS
  <2>0. \A u, v \in Workers, q \in Runs : Safe(u, v, q)
    BY ExecutorInvariantIsSafe
  <2>1. ASSUME NEW u \in Workers, NEW v \in Workers, NEW q \in Runs
        PROVE  Safe(u, v, q)'
    <3>0. Safe(u, v, q)
      BY <2>0
    <3>1. CASE UNCHANGED vars
      BY <3>0, <3>1 DEF Safe, Holds
    <3>2. CASE Next
      BY <2>0, <3>0, <3>2, RequestSafe, ExpireSafe, MainStepSafe, ExecuteSafe,
         MaintainLeaseSafe, FaultSafe DEF Next
    <3> QED BY <3>1, <3>2
  <2> QED
    BY <2>1 DEF ExecutorInvariant, AtMostOneExecutor, HeldRunIsLeased,
       EditorOwnsRun, Safe
<1> QED BY <1>1, <1>2, TypeCorrect, PTL DEF Spec

\* Two workers never execute the same run.
COROLLARY OneExecutor ==
  ASSUME TimelyLeases
  PROVE  Spec => []AtMostOneExecutor
<1>1. ExecutorInvariant => AtMostOneExecutor
  BY DEF ExecutorInvariant
<1> QED BY <1>1, ExecutorsSafe, PTL

\* No worker can edit the files of a run that awaits review.
COROLLARY ReviewedFilesQuiet ==
  ASSUME TimelyLeases
  PROVE  Spec => []ReviewedFilesAreQuiet
<1>1. ExecutorInvariant => ReviewedFilesAreQuiet
  BY DEF ExecutorInvariant, EditorOwnsRun, ReviewedFilesAreQuiet
<1> QED BY <1>1, ExecutorsSafe, PTL

\* The worker that writes a result owns the lease at that moment.
COROLLARY ResultByOwner ==
  ASSUME TimelyLeases
  PROVE  Spec => OwnerSettles
<1>1. TypeOK /\ ExecutorInvariant /\ [Next]_vars
        => [\A w \in Workers : SettleResult(w) => owner[job[w]] = w]_vars
  <2> SUFFICES ASSUME TypeOK, ExecutorInvariant, NEW w \in Workers, SettleResult(w)
               PROVE  owner[job[w]] = w
    OBVIOUS
  <2>1. exec[w] = "act"
    BY DEF SettleResult, ExecStep
  <2>2. pc[w] = "running" /\ job[w] \in Runs
    BY <2>1, TaskHasJob
  <2> QED BY <2>1, <2>2 DEF ExecutorInvariant, EditorOwnsRun, Holds
<1> QED BY <1>1, TypeCorrect, ExecutorsSafe, PTL DEF Spec, OwnerSettles

-----------------------------------------------------------------------------
(* Event appends and rejects succeed: what a review finds is complete.     *)

\* A run under review that no reject is settling has its complete workspace, and who
\* still holds it has written the result, or is about to settle a cancellation over it.
ReviewIsComplete(q) ==
  status[q] = "awaiting_review" =>
    /\ ~rejecting[q] => workspace[q] = "complete"
    /\ \A u \in Workers :
         Holds(u, q) => pc[u] = "aborting" \/ exec[u] \in {"notify", "done"}

\* A request puts no run under review, and leaves the workspace of one that stays there
\* but for a reject, which settles it.
LEMMA RequestKeepsReview ==
  ASSUME "commit" \notin FaultKinds, TypeOK, NEW q \in Runs, ReviewIsComplete(q),
         NEW r \in Runs, Request(r) \/ Expire(r)
  PROVE  ReviewIsComplete(q)'
BY DEF TypeOK, ReviewIsComplete, Holds, Request, StartRun, ReadForCancel, CommitCancel,
       CancelledStatus, Review, BeginReject, CommitReject, RejectFails,
       FaultHappens, Expire

\* main() claims no run under review, and cleans up after a run it has settled.
LEMMA MainStepKeepsReview ==
  ASSUME TypeOK, NEW q \in Runs, ReviewIsComplete(q), NEW w \in Workers, MainStep(w)
  PROVE  ReviewIsComplete(q)'
<1> USE DEF TypeOK, ReviewIsComplete, Holds
<1>1. ASSUME NEW r \in Runs, ClaimRun(w, r) PROVE ReviewIsComplete(q)'
  BY <1>1 DEF ClaimRun, Claimable
<1>2. CASE StartTasks(w) \/ Restart(w) \/ FinishJob(w)
  BY <1>2 DEF StartTasks, Restart, FinishJob
<1>3. CASE AbortJob(w)
  BY <1>3 DEF AbortJob
<1>4. CASE SettleAborted(w)
  BY <1>4 DEF SettleAborted, SettleRow
<1>5. CASE CleanAborted(w)
  BY <1>5 DEF CleanAborted
<1> QED BY <1>1, <1>2, <1>3, <1>4, <1>5 DEF MainStep

\* The execution that puts a run under review is the only holder of the run.
LEMMA ExecuteKeepsReview ==
  ASSUME TypeOK, \A u, v \in Workers, q \in Runs : Safe(u, v, q),
         NEW q \in Runs, ReviewIsComplete(q), NEW w \in Workers, Execute(w)
  PROVE  ReviewIsComplete(q)'
<1> USE DEF TypeOK, ReviewIsComplete, Holds, ExecStep
<1>0. /\ pc[w] = "running" /\ job[w] \in Runs
      /\ \A u \in Workers : Safe(u, w, q)
  BY TaskHasJob DEF Execute, LoadRun, CheckCancelled, Heartbeat, UseTool,
     SettleResult, Notified, DropWorkspace, SettleInterrupted, SettleFailed
<1>1. CASE LoadRun(w) \/ CheckCancelled(w) \/ Heartbeat(w) \/ Notified(w)
  BY <1>0, <1>1, SMTT(20) DEF LoadRun, CheckCancelled, Heartbeat, Notified
<1>2. ASSUME NEW edits \in BOOLEAN, UseTool(w, edits) PROVE ReviewIsComplete(q)'
  BY <1>0, <1>2 DEF UseTool, AfterEdit
<1>3. CASE SettleResult(w)
  BY <1>0, <1>3 DEF SettleResult, SettleRow, Safe
<1>4. ASSUME exec[w] \in {"interrupted", "broken", "cancelling", "failing"},
             status[q] = "awaiting_review"
      PROVE  job[w] # q
  BY <1>0, <1>4
<1>5. CASE DropWorkspace(w)
  <2>1. status' = status /\ pc' = pc /\ job' = job /\ rejecting' = rejecting
    BY <1>5 DEF DropWorkspace
  <2>2. exec[w] \in {"interrupted", "broken"}
    BY <1>5 DEF DropWorkspace
  <2>3. \A u \in Workers : u # w => exec'[u] = exec[u]
    BY <1>5 DEF DropWorkspace
  <2>4. workspace' = [workspace EXCEPT ![job[w]] = "absent"]
    BY <1>5 DEF DropWorkspace
  <2> QED BY <1>0, <1>4, <2>1, <2>2, <2>3, <2>4
<1>6. CASE SettleInterrupted(w) \/ SettleFailed(w)
  <2>1. pc' = pc /\ job' = job /\ workspace' = workspace /\ rejecting' = rejecting
    BY <1>6 DEF SettleInterrupted, SettleFailed, SettleRow
  <2>2. exec[w] \in {"cancelling", "failing"}
    BY <1>6 DEF SettleInterrupted, SettleFailed
  <2>3. \A u \in Workers : u # w => exec'[u] = exec[u]
    BY <1>6 DEF SettleInterrupted, SettleFailed
  <2>4. \/ status' = [status EXCEPT ![job[w]] = "cancelled"]
        \/ status' = [status EXCEPT ![job[w]] = "failed"]
    BY <1>6 DEF SettleInterrupted, SettleFailed, SettleRow
  <2> QED BY <1>0, <1>4, <2>1, <2>2, <2>3, <2>4
<1> QED BY <1>1, <1>2, <1>3, <1>5, <1>6 DEF Execute

\* A heartbeat, or a fault other than a failed append, leaves a run under review alone.
LEMMA FaultKeepsReview ==
  ASSUME "event" \notin FaultKinds, TypeOK, NEW q \in Runs, ReviewIsComplete(q),
         NEW w \in Workers, MaintainLease(w) \/ Fault(w)
  PROVE  ReviewIsComplete(q)'
<1> USE DEF TypeOK, ReviewIsComplete, Holds
<1>1. CASE MaintainLease(w)
  BY <1>1 DEF MaintainLease, ReadLease, RenewLease, RereadStatus, BeatStep
<1>2. CASE Crash(w)
  BY <1>2, TaskHasJob DEF Crash, Interrupted
<1>3. CASE Raise(w)
  BY <1>3, TaskHasJob DEF Raise, ExecStep
<1>4. CASE BeatFails(w)
  BY <1>4 DEF BeatFails
<1>5. ~ NotifyFails(w)
  BY DEF NotifyFails, FaultHappens
<1> QED BY <1>1, <1>2, <1>3, <1>4, <1>5 DEF Fault

\* Under timely leases, when event appends and the commits of rejects succeed, the
\* workspace of a run under review is the complete one its execution made: no worker,
\* crashing or failing otherwise, deletes or rewrites it before the review.
THEOREM ReviewsFindTheirFiles ==
  ASSUME TimelyLeases, "event" \notin FaultKinds, "commit" \notin FaultKinds
  PROVE  Spec => []AwaitingReviewIsPublishable
<1> DEFINE Complete == \A q \in Runs : ReviewIsComplete(q)
<1>1. Init => Complete
  BY DEF Init, ReviewIsComplete
<1>2. TypeOK /\ ExecutorInvariant /\ Complete /\ [Next]_vars => Complete'
  <2> SUFFICES ASSUME TypeOK, ExecutorInvariant, Complete, [Next]_vars, NEW q \in Runs
               PROVE  ReviewIsComplete(q)'
    OBVIOUS
  <2>1. CASE UNCHANGED vars
    BY <2>1 DEF ReviewIsComplete, Holds
  <2>2. CASE Next
    BY <2>2, ExecutorInvariantIsSafe, RequestKeepsReview, MainStepKeepsReview,
       ExecuteKeepsReview, FaultKeepsReview DEF Next
  <2> QED BY <2>1, <2>2
<1>3. Complete => AwaitingReviewIsPublishable
  BY DEF ReviewIsComplete, AwaitingReviewIsPublishable
<1> QED BY <1>1, <1>2, <1>3, TypeCorrect, ExecutorsSafe, PTL DEF Spec

=============================================================================
