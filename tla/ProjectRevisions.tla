-------------------------- MODULE ProjectRevisions --------------------------
(***************************************************************************)
(* One project of MuseGraph: its active revision pointer and revisions in  *)
(* the database, its Git repository and working files, its knowledge       *)
(* datasets, the runs that propose changes, and the requests that review   *)
(* them or edit files directly.                                            *)
(*                                                                         *)
(* The content of a file is the id of the run or edit that wrote it.  A    *)
(* request makes at most one commit, one dataset and one revision, so its  *)
(* id also names these.  A request is split where it awaits; Git and the   *)
(* file system are called without an await, so publishing a change set or  *)
(* saving a file is one step.  A run is executed by one worker: AgentRuns  *)
(* says what a lease that expires under its worker does to that.           *)
(***************************************************************************)
EXTENDS Naturals, FiniteSets

CONSTANTS
  Paths,       \* project files
  Runs,        \* proposals: Agent runs, version restores, knowledge changes
  Reviews,     \* requests to review a run
  Edits,       \* requests to write project files
  Root,        \* the revision, commit and dataset of project creation
  None,        \* NULL; no file
  FaultKinds,  \* the faults that happen, a subset of AllFaults
  MaxFaults    \* bound on the number of faults in a behaviour

\* memory: the memory service fails before a dataset exists; remember: it
\* fails after; forget: a dataset is not removed; git: a commit fails; push:
\* the push after a commit fails; database: a transaction is rolled back;
\* answer: a commit is applied and its answer lost; crash: the API process dies;
\* hang: remember never answers; event: the event of a finished run is not stored;
\* cancel: a request that read a queued run cancels it, whatever it is by then.
AllFaults == {"memory", "remember", "forget", "git", "push", "database",
              "answer", "crash", "hang", "event", "cancel"}

Requests  == Reviews \cup Edits
Revisions == Requests \cup {Root}
Contents  == Runs \cup Edits \cup {None}
Trees     == [Paths -> Contents]
NoFiles   == [p \in Paths |-> None]
NoChanges == [put |-> {}, del |-> {}]

ASSUME IdsAssumption ==
  Reviews \cap Edits = {} /\ Root \notin Requests /\ None \notin Revisions
ASSUME FaultsAssumption == FaultKinds \subseteq AllFaults /\ MaxFaults \in Nat

VARIABLES
  \* text_projects and project_revisions
  active,       \* active_revision_id
  exists,       \* the revisions committed
  parent,       \* parent_revision_id
  gitCommit,    \* git_commit
  dataset,      \* knowledge_dataset
  activeRows,   \* the revisions whose status is active
  \* agent_runs and their directories
  runStatus,    \* status; "prepared" while the request that creates it runs
  base,         \* base_revision_id
  result,       \* result_revision_id
  changes,      \* change_set.files: the paths written and deleted
  workspace,    \* the files in runs/<run id>/workspace
  writers,      \* who will set the status without reading it: "worker" executes
                \* the run, "cancel" read it queued, "event" will fail to announce
                \* it, "failure" has deleted its workspace after that
  \* Git and Cognee
  files,        \* the working files of the project
  index,        \* the Git index
  head,         \* the branch of the working repository
  remote,       \* the branch of the bare repository
  tree,         \* the files of each commit
  past,         \* each commit and its ancestors
  datasets,     \* the datasets in the memory service
  \* requests
  projectLock,  \* the request that holds the project row
  runLock,      \* the review that holds the row of a run
  pc,           \* where a request is
  target,       \* the run it reviews
  current,      \* the active revision an edit read under the lock
  recorded,     \* git_commit of the revision it will insert
  undo,         \* git_published and dataset_created
  faults        \* faults so far

revisions == <<active, exists, parent, gitCommit, dataset, activeRows>>
runs      == <<runStatus, base, result, changes, workspace, writers>>
git       == <<files, index, head, remote, tree, past>>
locks     == <<projectLock, runLock>>
requests  == <<pc, target, current, recorded, undo>>
vars      == <<revisions, runs, git, datasets, locks, requests, faults>>

Verdicts    == {"completed", "rejected", "conflicted"}
RunStatuses == Verdicts \cup {"absent", "prepared", "queued", "running",
                              "awaiting_review", "failed", "cancelled"}
Locked      == Verdicts \cup {"remember", "hung", "publish", "write", "record", "edited"}
Points      == Locked \cup {"new", "accept", "reject", "undo", "cleanup", "done"}

TypeOK ==
  /\ active \in Revisions
  /\ exists \subseteq Revisions
  /\ parent \in [Revisions -> Revisions \cup {None}]
  /\ gitCommit \in [Revisions -> Revisions]
  /\ dataset \in [Revisions -> Revisions]
  /\ activeRows \subseteq Revisions
  /\ runStatus \in [Runs -> RunStatuses]
  /\ base \in [Runs -> Revisions \cup {None}]
  /\ result \in [Runs -> Revisions \cup {None}]
  /\ changes \in [Runs -> [put : SUBSET Paths, del : SUBSET Paths]]
  /\ workspace \in [Runs -> Trees]
  /\ writers \in [Runs -> SUBSET {"worker", "cancel", "event", "failure"}]
  /\ files \in Trees
  /\ index \in Trees
  /\ head \in Revisions
  /\ remote \in Revisions
  /\ tree \in [Revisions -> Trees]
  /\ past \in [Revisions -> SUBSET Revisions]
  /\ datasets \subseteq Revisions
  /\ projectLock \in Requests \cup {None}
  /\ runLock \in [Runs -> Reviews \cup {None}]
  /\ pc \in [Requests -> Points]
  /\ target \in [Requests -> Runs \cup {None}]
  /\ \A v \in Reviews : pc[v] \notin {"new", "done"} => target[v] \in Runs
  /\ current \in [Edits -> Revisions]
  /\ recorded \in [Requests -> Revisions]
  /\ undo \in [Requests -> SUBSET {"git", "dataset"}]
  /\ faults \in 0..MaxFaults

\* create_project: one commit, an empty dataset, one revision.
Init ==
  /\ active = Root
  /\ exists = {Root}
  /\ parent = [i \in Revisions |-> None]
  /\ gitCommit = [i \in Revisions |-> Root]
  /\ dataset = [i \in Revisions |-> Root]
  /\ activeRows = {Root}
  /\ runStatus = [r \in Runs |-> "absent"]
  /\ base = [r \in Runs |-> None]
  /\ result = [r \in Runs |-> None]
  /\ changes = [r \in Runs |-> NoChanges]
  /\ workspace = [r \in Runs |-> NoFiles]
  /\ writers = [r \in Runs |-> {}]
  /\ files = NoFiles
  /\ index = NoFiles
  /\ head = Root
  /\ remote = Root
  /\ tree = [c \in Revisions |-> NoFiles]
  /\ past = [c \in Revisions |-> {Root}]
  /\ datasets = {Root}
  /\ projectLock = None
  /\ runLock = [r \in Runs |-> None]
  /\ pc = [q \in Requests |-> "new"]
  /\ target = [q \in Requests |-> None]
  /\ current = [e \in Edits |-> Root]
  /\ recorded = [q \in Requests |-> Root]
  /\ undo = [q \in Requests |-> {}]
  /\ faults = 0

FaultHappens(kind) ==
  /\ kind \in FaultKinds
  /\ faults < MaxFaults
  /\ faults' = faults + 1

-----------------------------------------------------------------------------
(* Proposals.  The row of a run is inserted while nobody has the project   *)
(* row locked: its foreign key needs a share lock of it.  Reading the      *)
(* active revision, claiming the run and finishing it need none.           *)

\* A request reads active_revision_id; its row is committed later.
Prepare(r) ==
  /\ runStatus[r] = "absent"
  /\ runStatus' = [runStatus EXCEPT ![r] = "prepared"]
  /\ base' = [base EXCEPT ![r] = active]
  /\ UNCHANGED <<revisions, result, changes, workspace, writers, git, datasets,
                 locks, requests, faults>>

\* The status is written over whatever it is; a review that has the row locked
\* is waited for.
SetStatus(r, to) ==
  /\ runLock[r] = None
  /\ runStatus' = [runStatus EXCEPT ![r] = to]
  /\ UNCHANGED <<revisions, base, result, git, datasets, locks, requests>>

MoveRun(r, from, to) ==
  /\ runStatus[r] = from
  /\ SetStatus(r, to)

\* start_agent_run.
StartRun(r) ==
  /\ projectLock = None
  /\ MoveRun(r, "prepared", "queued")
  /\ UNCHANGED <<changes, workspace, writers, faults>>

\* collect_file_changes: the workspace against the working files of now.
ChangesTo(candidate) ==
  [put |-> {p \in Paths : candidate[p] \notin {None, files[p]}},
   del |-> {p \in Paths : candidate[p] = None /\ files[p] # None}]

Propose(r, candidate) ==
  /\ SetStatus(r, "awaiting_review")
  /\ workspace' = [workspace EXCEPT ![r] = candidate]
  /\ changes' = [changes EXCEPT ![r] = ChangesTo(candidate)]

\* propose_version_restore: the files of a revision, from its commit, which
\* must be on the branch.
ProposeRestore(r, i) ==
  /\ projectLock = None
  /\ i \in exists
  /\ gitCommit[i] \in past[head]
  /\ runStatus[r] = "prepared"
  /\ Propose(r, tree[gitCommit[i]])
  /\ UNCHANGED <<writers, faults>>

\* propose_knowledge_changes: no file changes and no workspace.
ProposeKnowledge(r) ==
  /\ projectLock = None
  /\ MoveRun(r, "prepared", "awaiting_review")
  /\ UNCHANGED <<changes, workspace, writers, faults>>

\* A worker claims the run; create_run_workspace copies the working files,
\* whatever commit the run is based on.
CopyProject(r) ==
  /\ MoveRun(r, "queued", "running")
  /\ workspace' = [workspace EXCEPT ![r] = files]
  /\ writers' = [writers EXCEPT ![r] = @ \cup {"worker"}]
  /\ UNCHANGED <<changes, faults>>

\* The run has written some files, or only knowledge, and passed validation:
\* the paths that changed are the paths it declares (changed_files_match).
Candidate(r, written) ==
  [p \in Paths |-> IF p \in written THEN r ELSE workspace[r][p]]

FinishRun(r) ==
  /\ "worker" \in writers[r]
  /\ \E written \in SUBSET Paths :
       /\ ChangesTo(Candidate(r, written)) = [put |-> written, del |-> {}]
       /\ Propose(r, Candidate(r, written))
  /\ \/ /\ writers' = [writers EXCEPT ![r] = @ \ {"worker"}]
        /\ UNCHANGED faults
     \/ /\ writers' = [writers EXCEPT ![r] = (@ \ {"worker"}) \cup {"event"}]
        /\ FaultHappens("event")

\* Validation or anything else failed, or the run was cancelled.
FailRun(r) ==
  /\ "worker" \in writers[r]
  /\ \E to \in {"failed", "cancelled"} : SetStatus(r, to)
  /\ workspace' = [workspace EXCEPT ![r] = NoFiles]
  /\ writers' = [writers EXCEPT ![r] = @ \ {"worker"}]
  /\ UNCHANGED <<changes, faults>>

\* The event of awaiting_review is not stored: the worker deletes the workspace
\* and fails the run, although it may be reviewed by now.
DeleteLate(r) ==
  /\ "event" \in writers[r]
  /\ writers' = [writers EXCEPT ![r] = (@ \ {"event"}) \cup {"failure"}]
  /\ workspace' = [workspace EXCEPT ![r] = NoFiles]
  /\ UNCHANGED <<revisions, runStatus, base, result, changes, git, datasets,
                 locks, requests, faults>>

FailLate(r) ==
  /\ "failure" \in writers[r]
  /\ SetStatus(r, "failed")
  /\ writers' = [writers EXCEPT ![r] = @ \ {"failure"}]
  /\ UNCHANGED <<changes, workspace, faults>>

\* cancel_agent_run: the status is read, and written by the commit.
ReadToCancel(r) ==
  /\ runStatus[r] = "queued"
  /\ FaultHappens("cancel")
  /\ writers' = [writers EXCEPT ![r] = @ \cup {"cancel"}]
  /\ UNCHANGED <<revisions, runStatus, base, result, changes, workspace, git,
                 datasets, locks, requests>>

CommitCancel(r) ==
  /\ "cancel" \in writers[r]
  /\ SetStatus(r, "cancelled")
  /\ writers' = [writers EXCEPT ![r] = @ \ {"cancel"}]
  /\ UNCHANGED <<changes, workspace, faults>>

-----------------------------------------------------------------------------
(* Steps shared by requests. *)

Goto(q, from, to) ==
  /\ pc[q] = from
  /\ pc' = [pc EXCEPT ![q] = to]

\* SELECT ... FOR UPDATE of the project row.
Take(q) ==
  /\ projectLock = None
  /\ projectLock' = q

\* The end of a transaction.
Release(q) ==
  /\ projectLock' = IF projectLock = q THEN None ELSE projectLock
  /\ runLock' = [r \in Runs |-> IF runLock[r] = q THEN None ELSE runLock[r]]

Finish(q) ==
  /\ pc' = [pc EXCEPT ![q] = "done"]
  /\ target' = [target EXCEPT ![q] = None]
  /\ recorded' = [recorded EXCEPT ![q] = Root]
  /\ undo' = [undo EXCEPT ![q] = {}]

\* Seeded defect: a failed request undoes nothing.
AbortWithoutUndo(q) ==
  /\ Release(q)
  /\ Finish(q)
  /\ UNCHANGED <<revisions, runs, current>>

\* Seeded defect: the rollback forgets which run there is something to undo for.
AbortForgettingRun(q) ==
  /\ Release(q)
  /\ IF undo[q] = {}
       THEN Finish(q)
       ELSE /\ pc' = [pc EXCEPT ![q] = "undo"]
            /\ target' = [target EXCEPT ![q] = None]
            /\ UNCHANGED <<recorded, undo>>
  /\ UNCHANGED <<revisions, runs, current>>

\* An exception: the transaction is rolled back and its locks are free
\* before the handler undoes what it noted.
Abort(q) ==
  /\ Release(q)
  /\ IF undo[q] = {}
       THEN Finish(q)
       ELSE /\ pc' = [pc EXCEPT ![q] = "undo"]
            /\ UNCHANGED <<target, recorded, undo>>
  /\ UNCHANGED <<revisions, runs, current>>

\* Stage the given paths, commit the index, push the branch.
Staged(paths, new) ==
  [p \in Paths |-> IF p \in paths THEN new[p] ELSE index[p]]

CommitFiles(q, paths, new) ==
  /\ files' = new
  /\ index' = Staged(paths, new)
  /\ tree' = [tree EXCEPT ![q] = index']
  /\ past' = [past EXCEPT ![q] = past[head] \cup {q}]
  /\ head' = q

CommitAndPush(q, paths, new) ==
  /\ CommitFiles(q, paths, new)
  /\ remote' = q

\* Seeded defect: active_revision_id is not moved.
InsertRevisionOnly(q, i, knowledge) ==
  /\ exists' = exists \cup {q}
  /\ parent' = [parent EXCEPT ![q] = i]
  /\ gitCommit' = [gitCommit EXCEPT ![q] = recorded[q]]
  /\ dataset' = [dataset EXCEPT ![q] = knowledge]
  /\ activeRows' = (activeRows \ {i}) \cup {q}
  /\ UNCHANGED active

\* A new active revision on top of revision i, whose row is superseded.  The
\* index uq_project_revisions_one_active admits one active row.
InsertRevision(q, i, knowledge) ==
  /\ activeRows \subseteq {i}
  /\ exists' = exists \cup {q}
  /\ parent' = [parent EXCEPT ![q] = i]
  /\ gitCommit' = [gitCommit EXCEPT ![q] = recorded[q]]
  /\ dataset' = [dataset EXCEPT ![q] = knowledge]
  /\ activeRows' = (activeRows \ {i}) \cup {q}
  /\ active' = q

-----------------------------------------------------------------------------
(* review_agent_run. *)

\* Seeded defect: the row of the run is read without FOR UPDATE.
LockRunWithoutWaiting(v, r, decision) ==
  /\ runStatus[r] = "awaiting_review"
  /\ runLock' = [runLock EXCEPT ![r] = v]
  /\ Goto(v, "new", decision)
  /\ target' = [target EXCEPT ![v] = r]
  /\ UNCHANGED <<revisions, runs, git, datasets, projectLock, current, recorded,
                 undo, faults>>

\* The row of the run is locked, then its status read.  A request that finds
\* another status is refused and changes nothing.
LockRun(v, r, decision) ==
  /\ runLock[r] = None
  /\ runStatus[r] = "awaiting_review"
  /\ runLock' = [runLock EXCEPT ![r] = v]
  /\ Goto(v, "new", decision)
  /\ target' = [target EXCEPT ![v] = r]
  /\ UNCHANGED <<revisions, runs, git, datasets, projectLock, current, recorded,
                 undo, faults>>

\* The workspace is deleted before the rejection is committed.
LockForReject(v) ==
  /\ Take(v)
  /\ Goto(v, "reject", "rejected")
  /\ workspace' = [workspace EXCEPT ![target[v]] = NoFiles]
  /\ UNCHANGED <<revisions, runStatus, base, result, changes, writers, git,
                 datasets, runLock, target, current, recorded, undo, faults>>

AcceptPoint(v) == IF active = base[target[v]] THEN "remember" ELSE "conflicted"

LockForAccept(v) ==
  /\ Take(v)
  /\ Goto(v, "accept", AcceptPoint(v))
  /\ UNCHANGED <<revisions, runs, git, datasets, runLock, target, current,
                 recorded, undo, faults>>

\* The records of the base dataset, changed, become a new dataset.
Remember(v) ==
  /\ Goto(v, "remember", "publish")
  /\ dataset[base[target[v]]] \in datasets
  /\ datasets' = datasets \cup {v}
  /\ undo' = [undo EXCEPT ![v] = @ \cup {"dataset"}]
  /\ UNCHANGED <<revisions, runs, git, locks, target, current, recorded, faults>>

\* Seeded defect: a base dataset that the service does not have is waited for.
MemoryFailsByFault(v) ==
  /\ pc[v] = "remember"
  /\ FaultHappens("memory")
  /\ Abort(v)
  /\ UNCHANGED <<git, datasets>>

MemoryFails(v) ==
  /\ pc[v] = "remember"
  /\ \/ FaultHappens("memory")
     \/ dataset[base[target[v]]] \notin datasets /\ UNCHANGED faults
  /\ Abort(v)
  /\ UNCHANGED <<git, datasets>>

\* dataset_created is set only after the call returns.
RememberFails(v) ==
  /\ pc[v] = "remember"
  /\ FaultHappens("remember")
  /\ datasets' = datasets \cup {v}
  /\ Abort(v)
  /\ UNCHANGED git

\* The call has no timeout: the request stays in it with both rows locked.
MemoryHangs(v) ==
  /\ Goto(v, "remember", "hung")
  /\ FaultHappens("hang")
  /\ datasets' \in {datasets, datasets \cup {v}}
  /\ UNCHANGED <<revisions, runs, git, locks, target, current, recorded, undo>>

\* Seeded defect: the deletions of the change set are not applied.
PublishedWithoutDeletions(r) ==
  [p \in Paths |-> IF p \in changes[r].put THEN workspace[r][p] ELSE files[p]]

\* publish_file_changes.
Published(r) ==
  [p \in Paths |-> IF p \in changes[r].put THEN workspace[r][p]
                   ELSE IF p \in changes[r].del THEN None
                   ELSE files[p]]

ChangedPaths(r) == changes[r].put \cup changes[r].del

Missing(r) == {p \in changes[r].put : workspace[r][p] = None}
                \cup {p \in changes[r].del : files[p] = None}

Publish(v) ==
  LET r == target[v] IN
  /\ Goto(v, "publish", "completed")
  /\ Missing(r) = {}
  /\ IF ChangedPaths(r) = {}
       THEN /\ recorded' = [recorded EXCEPT ![v] = head]
            /\ UNCHANGED <<git, undo>>
       ELSE /\ CommitAndPush(v, ChangedPaths(r), Published(r))
            /\ recorded' = [recorded EXCEPT ![v] = v]
            /\ undo' = [undo EXCEPT ![v] = @ \cup {"git"}]
  /\ UNCHANGED <<revisions, runs, datasets, locks, target, current, faults>>

\* A file is missing.  The paths after it were not backed up: the restore
\* takes those that exist for new files and deletes them.
MissingFile(v) ==
  LET r == target[v] IN
  /\ pc[v] = "publish"
  /\ \E p \in Missing(r) : \E after \in SUBSET (ChangedPaths(r) \ {p}) :
       files' = [x \in Paths |-> IF x \in after THEN None ELSE files[x]]
  /\ Abort(v)
  /\ UNCHANGED <<index, head, remote, tree, past, datasets, faults>>

\* The files are restored, but not the index, nor the branch if the commit
\* was made.
CommitFails(v) ==
  LET r == target[v] IN
  /\ pc[v] = "publish"
  /\ Missing(r) = {} /\ ChangedPaths(r) # {}
  /\ FaultHappens("git")
  /\ index' = Staged(ChangedPaths(r), Published(r))
  /\ Abort(v)
  /\ UNCHANGED <<files, head, remote, tree, past, datasets>>

PushFails(v) ==
  LET r == target[v] IN
  /\ pc[v] = "publish"
  /\ Missing(r) = {} /\ ChangedPaths(r) # {}
  /\ FaultHappens("push")
  /\ index' = Staged(ChangedPaths(r), Published(r))
  /\ tree' = [tree EXCEPT ![v] = index']
  /\ past' = [past EXCEPT ![v] = past[head] \cup {v}]
  /\ head' = v
  /\ Abort(v)
  /\ UNCHANGED <<files, remote, datasets>>

ApplyAccept(v) ==
  /\ InsertRevision(v, base[target[v]], v)
  /\ runStatus' = [runStatus EXCEPT ![target[v]] = "completed"]
  /\ result' = [result EXCEPT ![target[v]] = v]
  /\ Release(v)
  /\ UNCHANGED <<base, changes, workspace, writers, git, datasets, target,
                 current, recorded>>

CommitAccept(v) ==
  /\ Goto(v, "completed", "cleanup")
  /\ ApplyAccept(v)
  /\ UNCHANGED <<undo, faults>>

\* The handler sees an exception although the commit was applied.
AnswerLost(v) ==
  /\ Goto(v, "completed", "undo")
  /\ ApplyAccept(v)
  /\ FaultHappens("answer")
  /\ UNCHANGED undo

CommitVerdict(v) ==
  /\ \E verdict \in {"rejected", "conflicted"} :
       /\ Goto(v, verdict, "cleanup")
       /\ runStatus' = [runStatus EXCEPT ![target[v]] = verdict]
  /\ Release(v)
  /\ UNCHANGED <<revisions, base, result, changes, workspace, writers, git,
                 datasets, target, current, recorded, undo, faults>>

Cleanup(v) ==
  /\ pc[v] = "cleanup"
  /\ workspace' = [workspace EXCEPT ![target[v]] = NoFiles]
  /\ Finish(v)
  /\ UNCHANGED <<revisions, runStatus, base, result, changes, writers, git,
                 datasets, locks, current, faults>>

\* restore_project_git_commit: a hard reset of the working files, the branch
\* and the bare branch to the base commit.  Untracked files stay.
ResetTo(c) ==
  /\ files' = [p \in Paths |-> IF index[p] = None /\ tree[c][p] = None
                                 THEN files[p] ELSE tree[c][p]]
  /\ index' = tree[c]
  /\ head' = c
  /\ remote' = c
  /\ UNCHANGED <<tree, past>>

UndoGit(v) ==
  LET c == gitCommit[base[target[v]]] IN
  /\ pc[v] = "undo" /\ "git" \in undo[v]
  /\ c \in past[head]
  /\ ResetTo(c)
  /\ undo' = [undo EXCEPT ![v] = @ \ {"git"}]
  /\ UNCHANGED <<revisions, runs, datasets, locks, pc, target, current,
                 recorded, faults>>

\* The commit is not on the branch: the exception skips the dataset.
UndoGitFails(v) ==
  /\ pc[v] = "undo" /\ "git" \in undo[v]
  /\ gitCommit[base[target[v]]] \notin past[head]
  /\ Finish(v)
  /\ UNCHANGED <<revisions, runs, git, datasets, locks, current, faults>>

\* Seeded defect: the dataset of the base revision is removed.
UndoBaseDataset(v) ==
  /\ pc[v] = "undo" /\ undo[v] = {"dataset"}
  /\ \/ datasets' = datasets \ {dataset[base[target[v]]]} /\ UNCHANGED faults
     \/ FaultHappens("forget") /\ UNCHANGED datasets
  /\ Finish(v)
  /\ UNCHANGED <<revisions, runs, git, locks, current>>

UndoDataset(v) ==
  /\ pc[v] = "undo" /\ undo[v] = {"dataset"}
  /\ \/ datasets' = datasets \ {v} /\ UNCHANGED faults
     \/ FaultHappens("forget") /\ UNCHANGED datasets
  /\ Finish(v)
  /\ UNCHANGED <<revisions, runs, git, locks, current>>

-----------------------------------------------------------------------------
(* Direct file operations (routers/project_files.py). *)

LockForEdit(e) ==
  /\ Take(e)
  /\ Goto(e, "new", "write")
  /\ current' = [current EXCEPT ![e] = active]
  /\ UNCHANGED <<revisions, runs, git, datasets, runLock, target, recorded,
                 undo, faults>>

\* Create or update, delete, rename.
EditedTo(e, new) ==
  \E p \in Paths :
    \/ new = [files EXCEPT ![p] = e]
    \/ files[p] # None /\ new = [files EXCEPT ![p] = None]
    \/ /\ files[p] # None
       /\ \E s \in Paths : /\ files[s] = None
                           /\ new = [files EXCEPT ![p] = None, ![s] = files[p]]

Touched(new) == {p \in Paths : new[p] # files[p]}

SaveFile(e) ==
  /\ Goto(e, "write", "record")
  /\ \E new \in Trees : /\ EditedTo(e, new)
                        /\ CommitAndPush(e, Touched(new), new)
  /\ UNCHANGED <<revisions, runs, datasets, locks, target, current, recorded,
                 undo, faults>>

\* Nothing is undone.
SaveFails(e) ==
  /\ pc[e] = "write"
  /\ \E new \in Trees :
       /\ EditedTo(e, new)
       /\ \/ /\ FaultHappens("git")
             /\ files' = new
             /\ index' = Staged(Touched(new), new)
             /\ UNCHANGED <<head, tree, past>>
          \/ /\ FaultHappens("push")
             /\ CommitFiles(e, Touched(new), new)
  /\ Abort(e)
  /\ UNCHANGED <<remote, datasets>>

\* Seeded defect: the commit of the revision before is named.
RecordOldCommit(e) ==
  /\ Goto(e, "record", "edited")
  /\ recorded' = [recorded EXCEPT ![e] = gitCommit[active]]
  /\ UNCHANGED <<revisions, runs, git, datasets, locks, target, current, undo,
                 faults>>

\* _record_revision names the commit on the branch by now.
RecordRevision(e) ==
  /\ Goto(e, "record", "edited")
  /\ recorded' = [recorded EXCEPT ![e] = head]
  /\ UNCHANGED <<revisions, runs, git, datasets, locks, target, current, undo,
                 faults>>

CommitEdit(e) ==
  /\ pc[e] = "edited"
  /\ InsertRevision(e, current[e], dataset[current[e]])
  /\ Release(e)
  /\ Finish(e)
  /\ UNCHANGED <<runs, git, datasets, current, faults>>

-----------------------------------------------------------------------------
\* A statement or the commit of a transaction fails.
TransactionFails(q) ==
  /\ pc[q] \in Verdicts \cup {"record", "edited"}
  /\ FaultHappens("database")
  /\ Abort(q)
  /\ UNCHANGED <<git, datasets>>

\* The API process dies with the requests it serves; the database frees their
\* locks.  Runs belong to workers and go on.
Crash ==
  /\ FaultHappens("crash")
  /\ projectLock' = None
  /\ runLock' = [r \in Runs |-> None]
  /\ runStatus' = [r \in Runs |-> IF runStatus[r] = "prepared" THEN "absent"
                                  ELSE runStatus[r]]
  /\ writers' = [r \in Runs |-> writers[r] \ {"cancel"}]
  /\ pc' = [q \in Requests |-> IF pc[q] = "new" THEN "new" ELSE "done"]
  /\ target' = [q \in Requests |-> None]
  /\ recorded' = [q \in Requests |-> Root]
  /\ undo' = [q \in Requests |-> {}]
  /\ current' = [e \in Edits |-> Root]
  /\ UNCHANGED <<revisions, base, result, changes, workspace, git, datasets>>

RunStep(r) ==
  \/ Prepare(r)
  \/ StartRun(r)
  \/ \E i \in Revisions : ProposeRestore(r, i)
  \/ ProposeKnowledge(r)
  \/ CopyProject(r)
  \/ FinishRun(r)
  \/ FailRun(r)
  \/ DeleteLate(r)
  \/ FailLate(r)
  \/ ReadToCancel(r)
  \/ CommitCancel(r)

BeginReview(v) ==
  \E r \in Runs, decision \in {"accept", "reject"} : LockRun(v, r, decision)

ReviewStep(v) ==
  \/ LockForReject(v)
  \/ LockForAccept(v)
  \/ Remember(v)
  \/ MemoryFails(v)
  \/ MemoryHangs(v)
  \/ RememberFails(v)
  \/ Publish(v)
  \/ MissingFile(v)
  \/ CommitFails(v)
  \/ PushFails(v)
  \/ CommitAccept(v)
  \/ AnswerLost(v)
  \/ CommitVerdict(v)
  \/ Cleanup(v)
  \/ UndoGit(v)
  \/ UndoGitFails(v)
  \/ UndoDataset(v)
  \/ TransactionFails(v)

EditStep(e) ==
  \/ SaveFile(e)
  \/ SaveFails(e)
  \/ RecordRevision(e)
  \/ CommitEdit(e)
  \/ TransactionFails(e)

Next ==
  \/ \E r \in Runs : RunStep(r)
  \/ \E v \in Reviews : BeginReview(v) \/ ReviewStep(v)
  \/ \E e \in Edits : LockForEdit(e) \/ EditStep(e)
  \/ Crash

Spec == Init /\ [][Next]_vars

\* The event loop keeps running the requests it has accepted.
FairSpec ==
  /\ Spec
  /\ \A v \in Reviews : WF_vars(ReviewStep(v))
  /\ \A e \in Edits : WF_vars(EditStep(e))

-----------------------------------------------------------------------------
(* Properties of every behaviour, whatever fails. *)

\* Publication, with a run taken as open until its worker has ended it and it is
\* reviewed, whatever its row says meanwhile.
Outcome(r) ==
  IF runStatus[r] \in {"absent", "prepared"} THEN "none"
  ELSE IF runStatus[r] \in {"queued", "running", "awaiting_review"} \/ "worker" \in writers[r]
  THEN "open"
  ELSE runStatus[r]

Promise == INSTANCE Publication WITH
  published <- exists, tip <- active, previous <- parent,
  outcome <- [r \in Runs |-> Outcome(r)], openedOn <- base

\* Locks, transactions and compensation implement it (routers/agent.py:287-418,
\* routers/project_files.py:65-114).
PublicationSpec == Promise!Spec

\* The revisions form one line that ends in the active one: what the project
\* lock is for.  Eight handlers insert revisions or read the pointer.
RevisionsFormALine ==
  /\ activeRows = {active} /\ active \in exists /\ Root \in exists
  /\ \A i \in exists \ {Root} : parent[i] \in exists \ {i, active}
  /\ \A i, j \in exists \ {Root} : parent[i] = parent[j] => i = j

\* The faults after which the status of a run is written without being read.
LateWrites == FaultKinds \cap {"event", "cancel"} # {}

\* A run is published once: a completed run has one revision of its own, built on
\* the revision it was prepared for, and a run that has one is completed unless a
\* late cancellation or failure hides that.
CompletedRunsArePublished ==
  /\ \A r \in Runs : runStatus[r] = "completed" => result[r] # None
  /\ \A r \in Runs : result[r] # None =>
       /\ result[r] \in exists \ {Root} /\ parent[result[r]] = base[r]
       /\ \/ runStatus[r] = "completed"
          \/ LateWrites /\ runStatus[r] \in {"failed", "cancelled"}
  /\ \A r, s \in Runs : result[r] = result[s] /\ result[r] # None => r = s

\* The inductive strengthening of the three.  The locks are held from the
\* first read to the end of the transaction, so what a request read under them
\* still holds when it commits, and a request commits once.
OnRun    == Verdicts \cup {"accept", "reject", "remember", "hung", "publish"}
Deciding == {"remember", "hung", "publish", "completed"}
Editing  == {"write", "record", "edited"}
Over     == {"undo", "cleanup", "done"}

ReviewInvariant(v) ==
  /\ pc[v] \notin Editing
  /\ pc[v] \in Deciding \cup Verdicts => projectLock = v
  /\ pc[v] \in OnRun =>
       runLock[target[v]] = v /\ runStatus[target[v]] = "awaiting_review"
  /\ pc[v] \in Deciding => base[target[v]] = active
  /\ pc[v] = "conflicted" => base[target[v]] # active
  /\ v \in exists => pc[v] \in Over

EditInvariant(e) ==
  /\ pc[e] \in Editing \cup {"new", "done"}
  /\ pc[e] \in Editing => projectLock = e /\ current[e] = active
  /\ e \in exists => pc[e] = "done"
  /\ undo[e] = {}

RunInvariant(r) ==
  /\ base[r] # None => base[r] \in exists
  /\ runStatus[r] # "absent" => base[r] # None
  /\ "worker" \in writers[r] => runStatus[r] \in {"running", "cancelled"} /\ result[r] = None
  /\ writers[r] # {} => runStatus[r] \notin {"absent", "prepared"}
  /\ "cancel" \in writers[r] => "cancel" \in FaultKinds
  /\ writers[r] \cap {"event", "failure"} # {} =>
       "event" \in FaultKinds /\ "worker" \notin writers[r] /\ runStatus[r] # "queued"

RequestInvariant ==
  /\ \A v \in Reviews : ReviewInvariant(v)
  /\ \A e \in Edits : EditInvariant(e)
  /\ \A r \in Runs : RunInvariant(r)

(* Properties that some faults break. *)

\* Every revision has its knowledge dataset, unless the answer of a commit is
\* lost: remember comes before the commit, forget only after a rollback, and
\* edits share the dataset of their parent.
DatasetsExist ==
  \A i \in exists : dataset[i] \in datasets

Quiet == projectLock = None /\ \A q \in Requests : pc[q] # "undo"

\* While nobody publishes, the working files, the index, both branches and the
\* dataset list are those of the revisions the database shows, so a proposal
\* prepared now is prepared for what the user sees.
ProjectShowsActiveRevision ==
  Quiet => /\ head = gitCommit[active] /\ remote = head
           /\ index = tree[head] /\ files = tree[head]

NoOrphanDatasets ==
  Quiet => datasets = {dataset[i] : i \in exists}

\* The revision of a run differs from the revision it was prepared for in the
\* reviewed paths and nowhere else, though the candidate was compared with
\* working files read without the lock.
RevisionIsReviewedChange ==
  \A r \in Runs : result[r] # None =>
    \A p \in Paths :
      LET before == tree[gitCommit[base[r]]][p]
          after  == tree[gitCommit[result[r]]][p]
      IN  /\ p \notin ChangedPaths(r) => after = before
          /\ p \in changes[r].put => after \notin {None, before}
          /\ p \in changes[r].del => after = None

(* ARCHITECTURE.md:69: a step of an accept that fails undoes the external  *)
(* writes of the candidate.  The code does not keep it.                    *)

\* A publish that fails leaves the working files alone.
FailedPublishKeepsFiles ==
  [][\A v \in Reviews :
       pc[v] = "publish" /\ pc'[v] \in {"undo", "done"} => files' = files]_vars

(* Liveness. *)

\* Every request that took a lock ends, since every handler locks the run before
\* the project: unless one waits for ever for the memory service, with no timeout
\* (services/memory_client.py:37-40), and the rest for the rows it has locked.
RequestsEnd ==
  \A q \in Requests :
    pc[q] # "new" ~> pc[q] = "done" \/ \E v \in Reviews : pc[v] = "hung"

=============================================================================
