------------------------- MODULE ProjectFilesProofs -------------------------
(***************************************************************************)
(* Theorems about the files and datasets of ProjectRevisions.  These are   *)
(* the writes outside the database, which its rollback does not undo, so   *)
(* each theorem names the faults that the compensation code covers.        *)
(***************************************************************************)
EXTENDS ProjectRevisionsProofs

USE DEF vars, revisions, runs, git, locks, requests, Locked, Verdicts, OnRun, Deciding,
        Editing, Over

\* What a request that gives up changes: nothing that was committed, and its own
\* place, which is the undo of what it noted or the end.
LEMMA AbortIs ==
  ASSUME TypeOK, NEW q \in Requests, Abort(q)
  PROVE  /\ UNCHANGED <<revisions, runs, current>>
         /\ \A p \in Requests \ {q} : /\ pc'[p] = pc[p] /\ target'[p] = target[p]
                                      /\ recorded'[p] = recorded[p] /\ undo'[p] = undo[p]
         /\ \/ undo[q] = {} /\ pc'[q] = "done" /\ undo'[q] = {}
            \/ undo[q] # {} /\ pc'[q] = "undo" /\ undo'[q] = undo[q] /\ target'[q] = target[q]
BY DEF TypeOK, Abort, Finish

\* What the end of a request changes.
LEMMA FinishIs ==
  ASSUME TypeOK, NEW q \in Requests, Finish(q)
  PROVE  /\ \A p \in Requests \ {q} : /\ pc'[p] = pc[p] /\ target'[p] = target[p]
                                      /\ recorded'[p] = recorded[p] /\ undo'[p] = undo[p]
         /\ pc'[q] = "done" /\ undo'[q] = {}
BY DEF TypeOK, Finish

-----------------------------------------------------------------------------
(* Datasets.                                                               *)

\* A revision has its dataset, and so has a review that is to become one; what a
\* review may still undo is no revision's.
Stored(i, v) ==
  /\ i \in exists => dataset[i] \in datasets
  /\ v \in Reviews =>
       /\ pc[v] \in {"publish", "completed"} => v \in datasets
       /\ i \in exists /\ v \notin exists => dataset[i] # v
       /\ pc[v] = "undo" => v \notin exists
AllStored == \A i, v \in Revisions : Stored(i, v)

\* A review inserts its revision with the dataset it has made, and forgets that only
\* if it has no revision.
LEMMA ReviewKeepsStored ==
  ASSUME "answer" \notin FaultKinds, Inv, AllStored,
         NEW v \in Reviews, BeginReview(v) \/ ReviewStep(v),
         NEW i \in Revisions, NEW x \in Revisions
  PROVE  Stored(i, x)'
<1> USE DEF Goto
<1>0. /\ v \in Requests /\ v \in Revisions /\ ReviewInvariant(v) /\ TypeOK
      /\ x \in Reviews => x \in Requests /\ ReviewInvariant(x)
      /\ Stored(i, x) /\ Stored(i, v)
  BY IdsAreApart DEF Inv, RequestInvariant, AllStored
<1>1. CASE BeginReview(v)
  <2>1. PICK s \in Runs, decision \in {"accept", "reject"} : LockRun(v, s, decision)
    BY <1>1 DEF BeginReview
  <2> QED BY <1>0, <2>1 DEF TypeOK, LockRun, Stored
<1>2. CASE LockForReject(v) \/ LockForAccept(v)
  BY <1>0, <1>2 DEF TypeOK, LockForReject, LockForAccept, AcceptPoint, Stored
<1>3. CASE Remember(v)
  BY <1>0, <1>3 DEF TypeOK, Remember, Stored
<1>12. CASE MemoryHangs(v)
  <2>1. pc' = [pc EXCEPT ![v] = "hung"] /\ pc[v] = "remember" /\ datasets \subseteq datasets'
        /\ UNCHANGED <<revisions>>
    BY <1>12 DEF MemoryHangs
  <2> QED BY <1>0, <2>1 DEF TypeOK, Stored
<1>4. CASE Publish(v)
  <2>1. pc' = [pc EXCEPT ![v] = "completed"] /\ pc[v] = "publish"
        /\ UNCHANGED <<revisions, datasets>>
    BY <1>4 DEF Publish
  <2> QED BY <1>0, <2>1 DEF TypeOK, Stored
<1>5. ASSUME Abort(v), pc[v] \in Deciding \cup Verdicts, datasets' \in {datasets, datasets \cup {v}}
      PROVE  Stored(i, x)'
  <2>1. v \notin exists
    BY <1>0, <1>5 DEF ReviewInvariant
  <2>2. pc'[v] \in {"undo", "done"} /\ (x \in Reviews \ {v} => pc'[x] = pc[x]) /\ UNCHANGED revisions
    BY <1>0, <1>5, AbortIs
  <2> QED BY <1>0, <1>5, <2>1, <2>2 DEF Stored
<1>6. CASE MemoryFails(v) \/ RememberFails(v) \/ MissingFile(v) \/ CommitFails(v) \/ PushFails(v)
           \/ TransactionFails(v)
  <2>1. pc[v] \in Deciding \cup Verdicts
    BY <1>0, <1>6 DEF MemoryFails, MemoryHangs, RememberFails, MissingFile, CommitFails, PushFails,
                      TransactionFails, ReviewInvariant
  <2> QED BY <1>5, <1>6, <2>1 DEF MemoryFails, MemoryHangs, RememberFails, MissingFile, CommitFails, PushFails,
                                  TransactionFails
<1>7. CASE CommitAccept(v)
  <2>1. /\ exists' = exists \cup {v} /\ dataset' = [dataset EXCEPT ![v] = v]
        /\ pc[v] = "completed" /\ pc' = [pc EXCEPT ![v] = "cleanup"] /\ datasets' = datasets
    BY <1>7 DEF CommitAccept, ApplyAccept, InsertRevision
  <2> QED BY <1>0, <2>1 DEF TypeOK, Stored, ReviewInvariant
<1>8. ~ AnswerLost(v)
  BY DEF AnswerLost, FaultHappens
<1>9. CASE CommitVerdict(v)
  BY <1>0, <1>9 DEF TypeOK, CommitVerdict, Stored
<1>10. CASE Cleanup(v) \/ UndoGitFails(v) \/ UndoDataset(v)
  <2>1. pc'[v] = "done" /\ (x \in Reviews \ {v} => pc'[x] = pc[x]) /\ UNCHANGED <<exists, dataset>>
    BY <1>0, <1>10, FinishIs DEF Cleanup, UndoGitFails, UndoDataset
  <2>2. datasets' = datasets \/ (datasets' = datasets \ {v} /\ pc[v] = "undo")
    BY <1>10 DEF Cleanup, UndoGitFails, UndoDataset
  <2>3. pc[x] \in {"publish", "completed"} /\ x = v => pc'[x] = "done"
    BY <2>1
  <2> QED BY <1>0, <2>1, <2>2 DEF Stored
<1>11. CASE UndoGit(v)
  BY <1>0, <1>11 DEF UndoGit, Stored
<1> QED BY <1>1, <1>2, <1>3, <1>4, <1>6, <1>7, <1>8, <1>9, <1>10, <1>11, <1>12 DEF ReviewStep

\* An edit shares the dataset of the revision before it.
LEMMA EditKeepsStored ==
  ASSUME Inv, AllStored, NEW e \in Edits, LockForEdit(e) \/ EditStep(e),
         NEW i \in Revisions, NEW x \in Revisions
  PROVE  Stored(i, x)'
<1> USE DEF Goto
<1>0. /\ e \in Requests /\ e \in Revisions /\ (x \in Reviews => x \in Requests /\ x # e)
      /\ EditInvariant(e) /\ TypeOK /\ Stored(i, x)
      /\ active \in exists /\ Stored(active, x) /\ active \in Revisions
  BY IdsAreApart DEF Inv, RequestInvariant, AllStored, RevisionsFormALine, TypeOK
<1>1. CASE LockForEdit(e) \/ SaveFile(e) \/ RecordRevision(e)
  <2>1. (x \in Reviews => pc'[x] = pc[x]) /\ UNCHANGED <<revisions, datasets>>
    BY <1>0, <1>1 DEF TypeOK, LockForEdit, SaveFile, RecordRevision
  <2> QED BY <1>0, <2>1 DEF Stored
<1>2. CASE SaveFails(e) \/ TransactionFails(e)
  <2>1. (x \in Reviews => pc'[x] = pc[x]) /\ UNCHANGED <<revisions, datasets>>
    BY <1>0, <1>2, AbortIs DEF SaveFails, TransactionFails
  <2> QED BY <1>0, <2>1 DEF Stored
<1>3. CASE CommitEdit(e)
  <2>1. /\ exists' = exists \cup {e} /\ dataset' = [dataset EXCEPT ![e] = dataset[active]]
        /\ datasets' = datasets /\ (x \in Reviews => pc'[x] = pc[x])
    BY <1>0, <1>3 DEF TypeOK, CommitEdit, InsertRevision, EditInvariant, Finish
  <2> QED BY <1>0, <2>1 DEF TypeOK, Stored
<1> QED BY <1>1, <1>2, <1>3 DEF EditStep

\* Runs have no datasets, and a crash leaves them where they are.
LEMMA OthersKeepStored ==
  ASSUME Inv, AllStored, (\E r \in Runs : RunStep(r)) \/ Crash,
         NEW i \in Revisions, NEW x \in Revisions
  PROVE  Stored(i, x)'
<1>0. (x \in Reviews => x \in Requests) /\ Stored(i, x)
  BY IdsAreApart DEF AllStored
<1>1. ASSUME NEW r \in Runs, RunStep(r) PROVE Stored(i, x)'
  BY <1>0, <1>1 DEF Stored, RunStep, Prepare, StartRun, ProposeRestore, ProposeKnowledge,
                    CopyProject, FinishRun, FailRun, DeleteLate,
     FailLate, ReadToCancel, CommitCancel, SetStatus, MoveRun, Propose
<1>2. CASE Crash
  BY <1>0, <1>2 DEF Stored, Crash
<1> QED BY <1>1, <1>2

\* Datasets are kept: the base of the next accept, what a user recalls from.
LEMMA StoredIsInvariant ==
  ASSUME "answer" \notin FaultKinds
  PROVE  Spec => []AllStored
<1>1. Init => AllStored
  BY IdsAreApart DEF Init, AllStored, Stored
<1>2. Inv /\ AllStored /\ [Next]_vars => AllStored'
  <2> SUFFICES ASSUME Inv, AllStored, [Next]_vars, NEW i \in Revisions, NEW x \in Revisions
               PROVE  Stored(i, x)'
    BY DEF AllStored
  <2>1. CASE UNCHANGED vars
    BY <2>1 DEF AllStored, Stored
  <2>2. CASE Next
    BY <2>2, ReviewKeepsStored, EditKeepsStored, OthersKeepStored DEF Next
  <2> QED BY <2>1, <2>2
<1> QED BY <1>1, <1>2, InvIsInvariant, PTL DEF Spec

\* Every revision has its knowledge dataset: remember comes before the commit, forget
\* only for a review without a revision, and an edit shares the dataset of its parent.
\* Holds with crashes and every failure but the lost answer of a commit, whose handler
\* forgets the dataset of a revision it does not know of (routers/agent.py:380-418).
THEOREM RevisionsKeepTheirDataset ==
  ASSUME "answer" \notin FaultKinds
  PROVE  Spec => []DatasetsExist
<1>1. Inv /\ AllStored => DatasetsExist
  BY DEF Inv, TypeOK, AllStored, Stored, DatasetsExist
<1> QED BY <1>1, InvIsInvariant, StoredIsInvariant, PTL

-----------------------------------------------------------------------------
(* What every step leaves as it is. *)

\* A step of a request moves no other request.
LEMMA OneRequestMoves ==
  ASSUME Inv, NEW q \in Requests,
         \/ q \in Reviews /\ (BeginReview(q) \/ ReviewStep(q))
         \/ q \in Edits /\ (LockForEdit(q) \/ EditStep(q))
  PROVE  \A p \in Requests \ {q} : /\ pc'[p] = pc[p] /\ target'[p] = target[p]
                                   /\ recorded'[p] = recorded[p] /\ undo'[p] = undo[p]
<1> USE DEF Goto
<1>0. TypeOK
  BY DEF Inv
<1>1. CASE q \in Reviews /\ BeginReview(q)
  BY <1>0, <1>1 DEF BeginReview, LockRun, TypeOK
<1>2. CASE q \in Reviews /\ ReviewStep(q)
  <2>1. CASE \/ MemoryFails(q) \/ RememberFails(q) \/ MissingFile(q) \/ CommitFails(q)
             \/ PushFails(q) \/ TransactionFails(q)
    BY <1>0, <2>1, AbortIs DEF MemoryFails, MemoryHangs, RememberFails, MissingFile, CommitFails, PushFails,
                               TransactionFails
  <2>2. CASE Cleanup(q) \/ UndoGitFails(q) \/ UndoDataset(q)
    BY <1>0, <2>2, FinishIs DEF Cleanup, UndoGitFails, UndoDataset
  <2>3. CASE Publish(q)
    BY <1>0, <2>3 DEF Publish, TypeOK
  <2>4. CASE \/ LockForReject(q) \/ LockForAccept(q) \/ Remember(q) \/ CommitAccept(q)
             \/ MemoryHangs(q) \/ AnswerLost(q) \/ CommitVerdict(q) \/ UndoGit(q)
    BY <1>0, <2>4 DEF MemoryHangs, LockForReject, LockForAccept, Remember, CommitAccept, AnswerLost,
                      ApplyAccept, CommitVerdict, UndoGit, TypeOK
  <2> QED BY <1>2, <2>1, <2>2, <2>3, <2>4 DEF ReviewStep
<1>3. CASE q \in Edits /\ LockForEdit(q)
  BY <1>0, <1>3 DEF LockForEdit, TypeOK
<1>4. CASE q \in Edits /\ EditStep(q)
  <2>1. CASE SaveFails(q) \/ TransactionFails(q)
    BY <1>0, <2>1, AbortIs DEF SaveFails, TransactionFails
  <2>2. CASE SaveFile(q) \/ RecordRevision(q)
    BY <1>0, <2>2 DEF SaveFile, RecordRevision, TypeOK
  <2>3. CASE CommitEdit(q)
    BY <1>0, <2>3, FinishIs DEF CommitEdit
  <2> QED BY <1>4, <2>1, <2>2, <2>3 DEF EditStep
<1> QED BY <1>1, <1>2, <1>3, <1>4

\* The row of a revision is written once.
LEMMA RowsAreKept ==
  ASSUME Inv, Next
  PROVE  /\ exists \subseteq exists'
         /\ \A i \in exists : gitCommit'[i] = gitCommit[i] /\ dataset'[i] = dataset[i]
<1>1. CASE \E v \in Reviews : pc[v] = "completed" /\ ApplyAccept(v)
  <2>1. PICK v \in Reviews : pc[v] = "completed" /\ ApplyAccept(v)
    BY <1>1
  <2>2. v \notin exists
    BY <2>1 DEF Inv, RequestInvariant, ReviewInvariant
  <2> QED BY <2>1, <2>2 DEF ApplyAccept, InsertRevision, Inv, TypeOK
<1>2. CASE \E e \in Edits : CommitEdit(e)
  <2>1. PICK e \in Edits : CommitEdit(e)
    BY <1>2
  <2>2. e \notin exists
    BY <2>1 DEF Inv, RequestInvariant, EditInvariant, CommitEdit
  <2> QED BY <2>1, <2>2 DEF CommitEdit, InsertRevision, Inv, TypeOK
<1>3. CASE /\ ~ \E v \in Reviews : pc[v] = "completed" /\ ApplyAccept(v)
           /\ ~ \E e \in Edits : CommitEdit(e)
  BY <1>3, WhoPublishes DEF Inv
<1> QED BY <1>1, <1>2, <1>3

Started(r) == runStatus[r] \notin {"absent", "prepared"}

\* A run that has started keeps the revision it is based on.
LEMMA StartedRunsKeepTheirBase ==
  ASSUME Inv, Next, NEW r \in Runs, Started(r)
  PROVE  Started(r)' /\ base'[r] = base[r]
<1> USE DEF Inv, TypeOK, Started
<1>1. ASSUME NEW s \in Runs, RunStep(s) PROVE Started(r)' /\ base'[r] = base[r]
  BY <1>1 DEF RunStep, Prepare, StartRun, ProposeRestore, ProposeKnowledge,
              CopyProject, FinishRun, FailRun, DeleteLate,
     FailLate, ReadToCancel, CommitCancel, SetStatus, MoveRun, Propose
<1>2. ASSUME NEW v \in Reviews, CommitVerdict(v) \/ ApplyAccept(v)
      PROVE  Started(r)' /\ base'[r] = base[r]
  BY <1>2 DEF CommitVerdict, ApplyAccept
<1>3. ASSUME NEW v \in Reviews, BeginReview(v) \/ ReviewStep(v)
      PROVE  Started(r)' /\ base'[r] = base[r]
  BY <1>2, <1>3 DEF BeginReview, LockRun, ReviewStep, LockForReject, LockForAccept,
     Remember, MemoryFails, MemoryHangs, RememberFails, Publish, MissingFile, CommitFails,
     PushFails, CommitAccept, AnswerLost, Cleanup, UndoGit, UndoGitFails,
     UndoDataset, TransactionFails, Abort
<1>4. ASSUME NEW e \in Edits, LockForEdit(e) \/ EditStep(e)
      PROVE  Started(r)' /\ base'[r] = base[r]
  BY <1>4 DEF LockForEdit, EditStep, SaveFile, SaveFails, RecordRevision, CommitEdit,
              TransactionFails, Abort
<1>5. CASE Crash
  BY <1>5 DEF Crash
<1> QED BY <1>1, <1>3, <1>4, <1>5 DEF Next

\* The branch moves to a commit on top of the last one, unless it is reset.
LEMMA HistoryGrows ==
  ASSUME Inv, Next, ~ \E v \in Reviews : UndoGit(v)
  PROVE  past[head] \subseteq past'[head']
<1>1. TypeOK /\ Requests \subseteq Revisions
  BY IdsAreApart DEF Inv
<1>2. ASSUME NEW q \in Requests, past' = [past EXCEPT ![q] = past[head] \cup {q}], head' = q
      PROVE  past[head] \subseteq past'[head']
  BY <1>1, <1>2 DEF TypeOK
<1>3. ASSUME NEW r \in Runs, RunStep(r) PROVE UNCHANGED <<head, past>>
  BY <1>3 DEF RunStep, Prepare, StartRun, ProposeRestore, ProposeKnowledge,
              CopyProject, FinishRun, FailRun, DeleteLate,
     FailLate, ReadToCancel, CommitCancel, SetStatus, MoveRun, Propose
<1>4. ASSUME NEW v \in Reviews, BeginReview(v) \/ ReviewStep(v)
      PROVE  past[head] \subseteq past'[head']
  <2>1. v \in Requests
    BY IdsAreApart
  <2>2. CASE Publish(v) \/ PushFails(v)
    BY <1>2, <2>1, <2>2 DEF Publish, PushFails, CommitAndPush, CommitFiles
  <2>3. CASE ~ (Publish(v) \/ PushFails(v))
    BY <1>4, <2>3 DEF BeginReview, LockRun, ReviewStep, LockForReject, LockForAccept,
       Remember, MemoryFails, MemoryHangs, RememberFails, MissingFile, CommitFails, CommitAccept,
       AnswerLost, ApplyAccept, CommitVerdict, Cleanup, UndoGitFails, UndoDataset,
       TransactionFails
  <2> QED BY <2>2, <2>3
<1>5. ASSUME NEW e \in Edits, LockForEdit(e) \/ EditStep(e)
      PROVE  past[head] \subseteq past'[head']
  <2>1. e \in Requests
    BY IdsAreApart
  <2>2. CASE SaveFile(e) \/ SaveFails(e)
    BY <1>2, <2>1, <2>2 DEF SaveFile, SaveFails, CommitAndPush, CommitFiles
  <2>3. CASE ~ (SaveFile(e) \/ SaveFails(e))
    BY <1>5, <2>3 DEF LockForEdit, EditStep, RecordRevision, CommitEdit, TransactionFails
  <2> QED BY <2>2, <2>3
<1>6. CASE Crash
  BY <1>6 DEF Crash
<1> QED BY <1>3, <1>4, <1>5, <1>6 DEF Next

-----------------------------------------------------------------------------
(* Undoing a publication. *)

\* The faults whose compensation reaches the dataset: the dataset is removed last, by
\* a call that succeeds, and the branch can still be reset to the base commit.  After a
\* second database fault another undo may have taken that commit off the branch.
UndoableFaults ==
  /\ FaultKinds \subseteq {"memory", "git", "push", "database", "event", "cancel"}
  /\ "database" \in FaultKinds => MaxFaults <= 1

\* Until something fails, the commits that the database names or will name are on
\* the branch.
Named(q) ==
  faults = 0 =>
    /\ head \in past[head] /\ gitCommit[active] \in past[head]
    /\ pc[q] \in {"completed", "edited"} => recorded[q] \in past[head]

\* A review undoes its commit by a reset to its base, which is on the branch; one
\* at a time.
Resetting(v) == pc[v] = "undo" /\ "git" \in undo[v]
Resets(v) ==
  /\ "git" \in undo[v] => pc[v] \in {"completed", "undo", "cleanup"}
  /\ pc[v] = "undo" => target[v] \in Runs /\ Started(target[v])
  /\ Resetting(v) => faults # 0 /\ gitCommit[base[target[v]]] \in past[head]
Apart(v, w) == Resetting(v) /\ Resetting(w) => v = w

ResetInvariant ==
  /\ \A q \in Requests : Named(q)
  /\ \A v \in Reviews : Resets(v)
  /\ \A v, w \in Reviews : Apart(v, w)

\* Faults are counted, and none that the undo does not cover happens.
LEMMA FaultsAreCounted ==
  ASSUME UndoableFaults, Inv, Next
  PROVE  /\ faults \in Nat
         /\ faults' = faults \/ (faults' = faults + 1 /\ faults' # 0)
         /\ ~ Crash
         /\ \A v \in Reviews : ~ AnswerLost(v) /\ ~ RememberFails(v) /\ ~ MemoryHangs(v)
         /\ \A q \in Requests : TransactionFails(q) => faults = 0 /\ faults' = 1
<1>1. faults \in Nat /\ MaxFaults \in Nat
  BY FaultsAssumption DEF Inv, TypeOK
<1>2. ASSUME NEW kind, FaultHappens(kind)
      PROVE  /\ faults' = faults + 1 /\ faults' # 0 /\ kind \in {"memory", "git", "push", "database", "event", "cancel"}
             /\ kind = "database" => faults = 0 /\ faults' = 1
  BY <1>1, <1>2 DEF FaultHappens, UndoableFaults
<1>3. /\ ~ Crash
      /\ \A v \in Reviews : ~ AnswerLost(v) /\ ~ RememberFails(v) /\ ~ MemoryHangs(v)
      /\ \A q \in Requests : TransactionFails(q) => faults = 0 /\ faults' = 1
  BY <1>2 DEF Crash, AnswerLost, RememberFails, MemoryHangs, TransactionFails
<1>4. faults' = faults \/ (faults' = faults + 1 /\ faults' # 0)
  <2>1. ASSUME NEW r \in Runs, RunStep(r)
        PROVE  faults' = faults \/ \E kind \in AllFaults : FaultHappens(kind)
    BY <2>1 DEF AllFaults, RunStep, Prepare, StartRun, ProposeRestore, ProposeKnowledge,
                CopyProject, FinishRun, FailRun, DeleteLate,
     FailLate, ReadToCancel, CommitCancel, SetStatus, MoveRun, Propose
  <2>2. ASSUME NEW v \in Reviews, BeginReview(v) \/ ReviewStep(v)
        PROVE  faults' = faults \/ \E kind \in AllFaults : FaultHappens(kind)
    BY <2>2 DEF AllFaults, BeginReview, LockRun, ReviewStep, LockForReject, LockForAccept,
       Remember, MemoryFails, MemoryHangs, RememberFails, Publish, MissingFile, CommitFails,
       PushFails, CommitAccept, AnswerLost, CommitVerdict, Cleanup, UndoGit,
       UndoGitFails, UndoDataset, TransactionFails
  <2>3. ASSUME NEW e \in Edits, LockForEdit(e) \/ EditStep(e)
        PROVE  faults' = faults \/ \E kind \in AllFaults : FaultHappens(kind)
    BY <2>3 DEF AllFaults, LockForEdit, EditStep, SaveFile, SaveFails, RecordRevision,
       CommitEdit, TransactionFails
  <2> QED BY <1>2, <1>3, <2>1, <2>2, <2>3 DEF Next
<1> QED BY <1>1, <1>3, <1>4

\* A step keeps what was named on the branch: it grows, a new revision names what was
\* recorded, and a publication records the commit it makes or finds.
LEMMA NamedIsKept ==
  ASSUME UndoableFaults, Inv, ResetInvariant, Next, NEW q \in Requests, faults' = 0
  PROVE  Named(q)'
<1> USE DEF Goto
<1>0. /\ TypeOK /\ faults = 0 /\ active \in exists /\ active \in Revisions
      /\ head \in past[head] /\ gitCommit[active] \in past[head]
      /\ \A p \in Requests : pc[p] \in {"completed", "edited"} => recorded[p] \in past[head]
      /\ Requests \subseteq Revisions /\ Reviews \subseteq Requests /\ Edits \subseteq Requests
  BY FaultsAreCounted, IdsAreApart DEF Inv, ResetInvariant, Named, RevisionsFormALine, TypeOK
<1>1. \A v \in Reviews : ~ UndoGit(v)
  BY <1>0 DEF ResetInvariant, Resets, Resetting, UndoGit
<1>2. past[head] \subseteq past'[head']
  BY <1>1, HistoryGrows
<1>3. head' \in past'[head']
  <2>1. ASSUME NEW p \in Requests, past' = [past EXCEPT ![p] = past[head] \cup {p}], head' = p
        PROVE  head' \in past'[head']
    BY <1>0, <2>1 DEF TypeOK
  <2>2. ASSUME NEW r \in Runs, RunStep(r) PROVE UNCHANGED <<head, past>>
    BY <2>2 DEF RunStep, Prepare, StartRun, ProposeRestore, ProposeKnowledge,
                CopyProject, FinishRun, FailRun, DeleteLate,
     FailLate, ReadToCancel, CommitCancel, SetStatus, MoveRun, Propose
  <2>3. ASSUME NEW v \in Reviews, BeginReview(v) \/ ReviewStep(v)
        PROVE  head' \in past'[head']
    <3>1. CASE Publish(v) \/ PushFails(v)
      BY <1>0, <2>1, <3>1 DEF Publish, PushFails, CommitAndPush, CommitFiles
    <3>2. CASE ~ (Publish(v) \/ PushFails(v))
      BY <1>0, <1>1, <2>3, <3>2 DEF BeginReview, LockRun, ReviewStep, LockForReject,
         LockForAccept, Remember, MemoryFails, MemoryHangs, RememberFails, MissingFile, CommitFails,
         CommitAccept, AnswerLost, ApplyAccept, CommitVerdict, Cleanup, UndoGitFails,
         UndoDataset, TransactionFails
    <3> QED BY <3>1, <3>2
  <2>4. ASSUME NEW e \in Edits, LockForEdit(e) \/ EditStep(e)
        PROVE  head' \in past'[head']
    <3>1. CASE SaveFile(e) \/ SaveFails(e)
      BY <1>0, <2>1, <3>1 DEF SaveFile, SaveFails, CommitAndPush, CommitFiles
    <3>2. CASE ~ (SaveFile(e) \/ SaveFails(e))
      BY <1>0, <2>4, <3>2 DEF LockForEdit, EditStep, RecordRevision, CommitEdit,
         TransactionFails
    <3> QED BY <3>1, <3>2
  <2> QED BY <1>0, <2>2, <2>3, <2>4, FaultsAreCounted DEF Next
<1>4. gitCommit'[active'] \in past'[head']
  <2>1. CASE \E v \in Reviews : pc[v] = "completed" /\ ApplyAccept(v)
    BY <1>0, <1>2, <2>1 DEF ApplyAccept, InsertRevision, TypeOK
  <2>2. CASE \E e \in Edits : CommitEdit(e)
    BY <1>0, <1>2, <2>2 DEF CommitEdit, InsertRevision, TypeOK
  <2>3. CASE /\ ~ \E v \in Reviews : pc[v] = "completed" /\ ApplyAccept(v)
             /\ ~ \E e \in Edits : CommitEdit(e)
    BY <1>0, <1>2, <2>3, WhoPublishes
  <2> QED BY <2>1, <2>2, <2>3
<1>5. ASSUME pc'[q] \in {"completed", "edited"} PROVE recorded'[q] \in past'[head']
  <2>1. CASE q \in Reviews /\ Publish(q)
    <3>1. recorded'[q] = head'
      BY <1>0, <2>1 DEF Publish, CommitAndPush, CommitFiles, TypeOK
    <3> QED BY <1>3, <3>1
  <2>2. CASE q \in Edits /\ RecordRevision(q)
    BY <1>0, <1>2, <2>2 DEF RecordRevision, TypeOK
  <2>3. ASSUME pc[q] \in {"completed", "edited"}, recorded'[q] = recorded[q]
        PROVE  recorded'[q] \in past'[head']
    BY <1>0, <1>2, <2>3
  <2>4. ASSUME NEW r \in Runs, RunStep(r) PROVE UNCHANGED <<pc, recorded>>
    BY <2>4 DEF RunStep, Prepare, StartRun, ProposeRestore, ProposeKnowledge,
                CopyProject, FinishRun, FailRun, DeleteLate,
     FailLate, ReadToCancel, CommitCancel, SetStatus, MoveRun, Propose
  <2>5. ASSUME NEW v \in Reviews, BeginReview(v) \/ ReviewStep(v), ~ Publish(v), q = v
        PROVE  FALSE
    <3>1. pc'[q] \notin {"completed", "edited"}
      <4>1. CASE \/ MemoryFails(v) \/ MissingFile(v) \/ CommitFails(v)
                 \/ PushFails(v) \/ TransactionFails(v)
        BY <1>0, <2>5, <4>1, AbortIs DEF MemoryFails, MemoryHangs, MissingFile, CommitFails,
           PushFails, TransactionFails
      <4>2. CASE Cleanup(v) \/ UndoGitFails(v) \/ UndoDataset(v)
        BY <1>0, <2>5, <4>2, FinishIs DEF Cleanup, UndoGitFails, UndoDataset
      <4>3. CASE \/ BeginReview(v) \/ LockForReject(v) \/ LockForAccept(v) \/ Remember(v)
                 \/ CommitAccept(v) \/ CommitVerdict(v)
        BY <1>0, <2>5, <4>3 DEF BeginReview, LockRun, LockForReject, LockForAccept,
           AcceptPoint, Remember, CommitAccept, CommitVerdict, TypeOK
      <4> QED BY <1>1, <2>5, <4>1, <4>2, <4>3, FaultsAreCounted DEF ReviewStep
    <3> QED BY <1>5, <3>1
  <2>6. ASSUME NEW e \in Edits, LockForEdit(e) \/ EditStep(e), ~ RecordRevision(e), q = e
        PROVE  FALSE
    <3>1. pc'[q] \notin {"completed", "edited"}
      <4>1. CASE SaveFails(e) \/ TransactionFails(e)
        BY <1>0, <2>6, <4>1, AbortIs DEF SaveFails, TransactionFails
      <4>2. CASE CommitEdit(e)
        BY <1>0, <2>6, <4>2, FinishIs DEF CommitEdit
      <4>3. CASE LockForEdit(e) \/ SaveFile(e)
        BY <1>0, <2>6, <4>3 DEF LockForEdit, SaveFile, TypeOK
      <4> QED BY <2>6, <4>1, <4>2, <4>3 DEF EditStep
    <3> QED BY <1>5, <3>1
  <2>7. ASSUME NEW v \in Reviews, BeginReview(v) \/ ReviewStep(v)
        PROVE  recorded'[q] \in past'[head']
    BY <1>0, <1>5, <2>1, <2>3, <2>5, <2>7, OneRequestMoves
  <2>8. ASSUME NEW e \in Edits, LockForEdit(e) \/ EditStep(e)
        PROVE  recorded'[q] \in past'[head']
    BY <1>0, <1>5, <2>2, <2>3, <2>6, <2>8, OneRequestMoves
  <2>9. ASSUME NEW r \in Runs, RunStep(r) PROVE recorded'[q] \in past'[head']
    BY <1>5, <2>3, <2>4, <2>9
  <2> QED BY <2>7, <2>8, <2>9, FaultsAreCounted DEF Next
<1> QED BY <1>3, <1>4, <1>5 DEF Named

\* Only a transaction that fails after a publication starts a reset.
LEMMA WhoResets ==
  ASSUME UndoableFaults, Inv, ResetInvariant, Next, NEW v \in Reviews, Resetting(v)'
  PROVE  \/ Resetting(v) /\ target'[v] = target[v]
         \/ TransactionFails(v) /\ pc[v] = "completed" /\ target'[v] = target[v]
<1> USE DEF Goto
<1>0. /\ TypeOK /\ v \in Requests /\ Reviews \subseteq Requests /\ Edits \subseteq Requests
      /\ Resets(v)
  BY IdsAreApart DEF Inv, ResetInvariant
<1>1. ASSUME NEW r \in Runs, RunStep(r) PROVE UNCHANGED <<pc, target, undo>>
  BY <1>1 DEF RunStep, Prepare, StartRun, ProposeRestore, ProposeKnowledge,
              CopyProject, FinishRun, FailRun, DeleteLate,
     FailLate, ReadToCancel, CommitCancel, SetStatus, MoveRun, Propose
<1>2. ASSUME NEW q \in Requests, q # v,
             \/ q \in Reviews /\ (BeginReview(q) \/ ReviewStep(q))
             \/ q \in Edits /\ (LockForEdit(q) \/ EditStep(q))
      PROVE  UNCHANGED <<pc[v], target[v], undo[v]>>
  BY <1>0, <1>2, OneRequestMoves
<1>3. ASSUME BeginReview(v) \/ ReviewStep(v)
      PROVE  \/ Resetting(v) /\ target'[v] = target[v]
             \/ TransactionFails(v) /\ pc[v] = "completed" /\ target'[v] = target[v]
  <2>1. ASSUME Abort(v), pc[v] \in Deciding \cup Verdicts
        PROVE  pc[v] = "completed" /\ target'[v] = target[v]
    BY <1>0, <2>1, AbortIs DEF Resetting, Resets
  <2>2. CASE \/ MemoryFails(v) \/ MissingFile(v) \/ CommitFails(v) \/ PushFails(v)
    BY <2>1, <2>2 DEF MemoryFails, MemoryHangs, MissingFile, CommitFails, PushFails
  <2>3. CASE TransactionFails(v)
    <3>1. pc[v] \in Deciding \cup Verdicts
      BY <1>0, <2>3 DEF TransactionFails, Inv, RequestInvariant, ReviewInvariant
    <3> QED BY <2>1, <2>3, <3>1 DEF TransactionFails
  <2>4. CASE Cleanup(v) \/ UndoGitFails(v) \/ UndoDataset(v)
    BY <1>0, <2>4, FinishIs DEF Cleanup, UndoGitFails, UndoDataset, Resetting
  <2>5. CASE \/ BeginReview(v) \/ LockForReject(v) \/ LockForAccept(v) \/ Remember(v)
             \/ CommitAccept(v) \/ CommitVerdict(v) \/ Publish(v)
    BY <1>0, <2>5 DEF BeginReview, LockRun, LockForReject, LockForAccept, AcceptPoint,
       Remember, CommitAccept, CommitVerdict, Publish, TypeOK, Resetting
  <2>6. CASE UndoGit(v)
    BY <1>0, <2>6 DEF UndoGit, TypeOK, Resetting
  <2> QED BY <1>3, <2>2, <2>3, <2>4, <2>5, <2>6, FaultsAreCounted DEF ReviewStep
<1>4. \/ \E r \in Runs : RunStep(r)
      \/ \E q \in Requests : \/ q \in Reviews /\ (BeginReview(q) \/ ReviewStep(q))
                             \/ q \in Edits /\ (LockForEdit(q) \/ EditStep(q))
  BY <1>0, FaultsAreCounted DEF Next
<1> QED BY <1>1, <1>2, <1>3, <1>4, IdsAreApart DEF Resetting

\* A review that undoes something keeps the run it worked on.
LEMMA WhoUndoes ==
  ASSUME UndoableFaults, Inv, ResetInvariant, Next, NEW v \in Reviews
  PROVE  /\ pc'[v] = "undo" => /\ target'[v] = target[v] /\ target[v] \in Runs
                               /\ Started(target[v])
         /\ "git" \in undo'[v] => pc'[v] \in {"completed", "undo", "cleanup"}
<1> USE DEF Goto
<1>0. /\ TypeOK /\ v \in Requests /\ Reviews \subseteq Requests /\ Edits \subseteq Requests
      /\ Resets(v) /\ ReviewInvariant(v)
  BY IdsAreApart DEF Inv, ResetInvariant, RequestInvariant
<1> DEFINE Goal == /\ pc'[v] = "undo" => /\ target'[v] = target[v] /\ target[v] \in Runs
                                         /\ Started(target[v])
                   /\ "git" \in undo'[v] => pc'[v] \in {"completed", "undo", "cleanup"}
<1>1. ASSUME UNCHANGED <<pc[v], target[v], undo[v]>> PROVE Goal
  BY <1>0, <1>1 DEF Resets
<1>2. ASSUME NEW r \in Runs, RunStep(r) PROVE UNCHANGED <<pc, target, undo>>
  BY <1>2 DEF RunStep, Prepare, StartRun, ProposeRestore, ProposeKnowledge,
              CopyProject, FinishRun, FailRun, DeleteLate,
     FailLate, ReadToCancel, CommitCancel, SetStatus, MoveRun, Propose
<1>3. ASSUME NEW q \in Requests, q # v,
             \/ q \in Reviews /\ (BeginReview(q) \/ ReviewStep(q))
             \/ q \in Edits /\ (LockForEdit(q) \/ EditStep(q))
      PROVE  UNCHANGED <<pc[v], target[v], undo[v]>>
  BY <1>0, <1>3, OneRequestMoves
<1>4. ASSUME BeginReview(v) \/ ReviewStep(v) PROVE Goal
  <2>1. ASSUME Abort(v), pc[v] \in Deciding \cup Verdicts PROVE Goal
    <3>1. target[v] \in Runs /\ Started(target[v])
      BY <1>0, <2>1 DEF ReviewInvariant, TypeOK, Started
    <3> QED BY <1>0, <2>1, <3>1, AbortIs
  <2>2. CASE \/ MemoryFails(v) \/ MissingFile(v) \/ CommitFails(v) \/ PushFails(v)
    BY <2>1, <2>2 DEF MemoryFails, MemoryHangs, MissingFile, CommitFails, PushFails
  <2>3. CASE TransactionFails(v)
    BY <1>0, <2>1, <2>3 DEF TransactionFails, ReviewInvariant
  <2>4. CASE Cleanup(v) \/ UndoGitFails(v) \/ UndoDataset(v)
    BY <1>0, <2>4, FinishIs DEF Cleanup, UndoGitFails, UndoDataset
  <2>5. CASE \/ BeginReview(v) \/ LockForReject(v) \/ LockForAccept(v) \/ Remember(v)
             \/ CommitAccept(v) \/ CommitVerdict(v) \/ Publish(v)
    BY <1>0, <2>5 DEF BeginReview, LockRun, LockForReject, LockForAccept, AcceptPoint,
       Remember, CommitAccept, ApplyAccept, CommitVerdict, Publish, TypeOK, Resets
  <2>6. CASE UndoGit(v)
    BY <1>0, <2>6 DEF UndoGit, TypeOK, Resets
  <2> QED BY <1>4, <2>2, <2>3, <2>4, <2>5, <2>6, FaultsAreCounted DEF ReviewStep
<1>5. \/ \E r \in Runs : RunStep(r)
      \/ \E q \in Requests : \/ q \in Reviews /\ (BeginReview(q) \/ ReviewStep(q))
                             \/ q \in Edits /\ (LockForEdit(q) \/ EditStep(q))
  BY <1>0, FaultsAreCounted DEF Next
<1> QED BY <1>1, <1>2, <1>3, <1>4, <1>5, IdsAreApart

\* The base commit stays on the branch while one review wants to return to it: others
\* only commit on top, and nobody else resets.
LEMMA ResetsAreKept ==
  ASSUME UndoableFaults, Inv, ResetInvariant, Next
  PROVE  ResetInvariant'
<1>1. ASSUME NEW q \in Requests PROVE Named(q)'
  BY NamedIsKept, <1>1 DEF Named
<1>2. ASSUME NEW v \in Reviews, NEW w \in Reviews, Resetting(v)', Resetting(w)' PROVE v = w
  <2>1. \A x \in Reviews : Resetting(x) => faults # 0
    BY DEF ResetInvariant, Resets
  <2>2. CASE Resetting(v) /\ Resetting(w)
    BY <2>2 DEF ResetInvariant, Apart
  <2>3. CASE TransactionFails(v) /\ TransactionFails(w)
    <3>1. (pc[v] = "completed" /\ pc[w] = "completed") \/ Resetting(v) \/ Resetting(w)
      BY <1>2, WhoResets
    <3> QED BY <2>1, <2>3, <3>1, FaultsAreCounted, IdsAreApart
            DEF Inv, RequestInvariant, ReviewInvariant
  <2> QED BY <1>2, <2>1, <2>2, <2>3, WhoResets, FaultsAreCounted, IdsAreApart
<1>3. ASSUME NEW v \in Reviews, Resetting(v)'
      PROVE  faults' # 0 /\ gitCommit'[base'[target'[v]]] \in past'[head']
  <2>1. /\ target'[v] = target[v] /\ target[v] \in Runs
        /\ base'[target[v]] = base[target[v]]
    BY <1>3, WhoUndoes, StartedRunsKeepTheirBase DEF Resetting
  <2>2. base[target[v]] \in exists
    BY <1>3, WhoUndoes DEF Resetting, Inv, RequestInvariant, RunInvariant, Started
  <2>3. gitCommit'[base[target[v]]] = gitCommit[base[target[v]]]
    BY <2>2, RowsAreKept
  <2>4. CASE Resetting(v)
    <3>1. \A w \in Reviews : ~ UndoGit(w)
      <4>1. ASSUME NEW w \in Reviews, UndoGit(w) PROVE FALSE
        <5>1. w = v
          BY <2>4, <4>1 DEF ResetInvariant, Apart, Resetting, UndoGit
        <5> QED BY <1>3, <4>1, <5>1, IdsAreApart DEF UndoGit, Resetting, Inv, TypeOK
      <4> QED BY <4>1
    <3>2. past[head] \subseteq past'[head']
      BY <3>1, HistoryGrows
    <3>3. faults # 0 /\ gitCommit[base[target[v]]] \in past[head]
      BY <2>4 DEF ResetInvariant, Resets
    <3>4. faults' # 0
      BY <3>3, FaultsAreCounted
    <3> QED BY <2>1, <2>3, <3>2, <3>3, <3>4
  <2>5. CASE TransactionFails(v) /\ pc[v] = "completed"
    <3>1. v \in Requests /\ faults = 0 /\ faults' = 1
      BY <2>5, FaultsAreCounted, IdsAreApart
    <3>2. base[target[v]] = active
      BY <2>5 DEF Inv, RequestInvariant, ReviewInvariant
    <3>3. gitCommit[active] \in past[head]
      BY <3>1 DEF ResetInvariant, Named
    <3>4. UNCHANGED <<head, past>>
      BY <2>5 DEF TransactionFails
    <3> QED BY <2>1, <2>3, <3>1, <3>2, <3>3, <3>4
  <2> QED BY <1>3, <2>4, <2>5, WhoResets
<1>4. ASSUME NEW v \in Reviews PROVE Resets(v)'
  <2>1. ASSUME pc'[v] = "undo"
        PROVE  target'[v] \in Runs /\ runStatus'[target'[v]] \notin {"absent", "prepared"}
    <3>1. target'[v] = target[v] /\ target[v] \in Runs /\ Started(target[v])
      BY <2>1, WhoUndoes
    <3>2. PICK r \in Runs : r = target[v]
      BY <3>1
    <3>3. Started(r)'
      BY <3>1, <3>2, StartedRunsKeepTheirBase
    <3> QED BY <3>1, <3>2, <3>3 DEF Started
  <2>2. "git" \in undo'[v] => pc'[v] \in {"completed", "undo", "cleanup"}
    BY WhoUndoes
  <2> QED BY <1>3, <2>1, <2>2 DEF Resets, Started, Resetting
<1> QED BY <1>1, <1>2, <1>4 DEF ResetInvariant, Apart

\* A dataset belongs to a revision, or a review still has it noted.
Pending(d) == d \in Reviews /\ pc[d] \in {"publish", "completed", "undo"} /\ "dataset" \in undo[d]
Owned(d)   == d \in datasets => Pending(d) \/ \E i \in exists : dataset[i] = d
NothingIsOrphaned == \A d \in Revisions : Owned(d)

\* The initial states and every step keep it: the branch can be reset, so the undo
\* always comes to the dataset.
LEMMA OwnedIsKept ==
  ASSUME UndoableFaults, Inv, ResetInvariant, Next, NEW d \in Revisions, Owned(d)
  PROVE  Owned(d)'
<1> USE DEF Goto
<1>0. /\ TypeOK /\ Reviews \subseteq Requests /\ Edits \subseteq Requests
      /\ d \in Reviews => d \in Requests
  BY IdsAreApart DEF Inv
<1>1. ASSUME \E i \in exists : dataset[i] = d PROVE Owned(d)'
  BY <1>1, RowsAreKept DEF Owned
<1>2. ASSUME datasets' = datasets, d \in Reviews => UNCHANGED <<pc[d], undo[d]>>
      PROVE  Owned(d)'
  BY <1>1, <1>2 DEF Owned, Pending
<1>3. ASSUME NEW r \in Runs, RunStep(r) PROVE Owned(d)'
  <2>1. UNCHANGED <<pc, undo, datasets>>
    BY <1>3 DEF RunStep, Prepare, StartRun, ProposeRestore, ProposeKnowledge,
                CopyProject, FinishRun, FailRun, DeleteLate,
     FailLate, ReadToCancel, CommitCancel, SetStatus, MoveRun, Propose
  <2> QED BY <1>2, <2>1
<1>4. ASSUME NEW e \in Edits, LockForEdit(e) \/ EditStep(e) PROVE Owned(d)'
  <2>1. datasets' = datasets
    BY <1>4 DEF LockForEdit, EditStep, SaveFile, SaveFails, RecordRevision, CommitEdit,
                TransactionFails
  <2> QED BY <1>0, <1>2, <1>4, <2>1, OneRequestMoves, IdsAreApart
<1>5. ASSUME NEW v \in Reviews, BeginReview(v) \/ ReviewStep(v), d # v PROVE Owned(d)'
  <2>1. d \in datasets' => d \in datasets
    BY <1>5, FaultsAreCounted DEF BeginReview, LockRun, ReviewStep, LockForReject, LockForAccept,
       Remember, MemoryFails, MemoryHangs, Publish, MissingFile, CommitFails, PushFails,
       CommitAccept, AnswerLost, ApplyAccept, CommitVerdict, Cleanup, UndoGit,
       UndoGitFails, UndoDataset, TransactionFails
  <2>2. d \in Reviews => UNCHANGED <<pc[d], undo[d]>>
    BY <1>0, <1>5, OneRequestMoves
  <2> QED BY <1>1, <2>1, <2>2 DEF Owned, Pending
<1>6. ASSUME d \in Reviews, BeginReview(d) \/ ReviewStep(d) PROVE Owned(d)'
  <2>0. d \in Requests /\ ReviewInvariant(d)
    BY <1>0, <1>6 DEF Inv, RequestInvariant
  <2>1. ASSUME Abort(d), datasets' = datasets, Pending(d) PROVE Owned(d)'
    BY <1>0, <1>6, <2>1, AbortIs DEF Owned, Pending
  <2>2. ASSUME Abort(d), datasets' = datasets PROVE Owned(d)'
    BY <1>1, <2>1, <2>2 DEF Owned
  <2>3. CASE \/ MemoryFails(d) \/ MissingFile(d) \/ CommitFails(d) \/ PushFails(d)
             \/ TransactionFails(d)
    BY <2>2, <2>3 DEF MemoryFails, MemoryHangs, MissingFile, CommitFails, PushFails, TransactionFails
  <2>4. CASE Remember(d)
    BY <1>0, <1>6, <2>0, <2>4 DEF Remember, TypeOK, Owned, Pending
  <2>5. CASE Publish(d)
    <3>1. pc'[d] = "completed" /\ pc[d] = "publish" /\ undo[d] \subseteq undo'[d]
          /\ datasets' = datasets
      BY <1>0, <2>0, <2>5 DEF Publish, TypeOK
    <3> QED BY <1>1, <1>6, <3>1 DEF Owned, Pending
  <2>6. CASE CommitAccept(d)
    <3>1. d \in exists' /\ dataset'[d] = d
      BY <1>0, <2>0, <2>6 DEF CommitAccept, ApplyAccept, InsertRevision, TypeOK
    <3> QED BY <3>1 DEF Owned
  <2>7. CASE UndoDataset(d)
    <3>1. datasets' = datasets \ {d}
      BY <2>7 DEF UndoDataset, FaultHappens, UndoableFaults
    <3> QED BY <3>1 DEF Owned
  <2>8. CASE UndoGit(d)
    <3>1. pc'[d] = pc[d] /\ undo'[d] = undo[d] \ {"git"} /\ datasets' = datasets
      BY <1>0, <2>0, <2>8 DEF UndoGit, TypeOK
    <3> QED BY <1>1, <3>1 DEF Owned, Pending
  <2>9. ~ UndoGitFails(d)
    BY <1>6 DEF UndoGitFails, ResetInvariant, Resets, Resetting
  <2>10. CASE \/ BeginReview(d) \/ LockForReject(d) \/ LockForAccept(d)
              \/ CommitVerdict(d) \/ Cleanup(d)
    <3>1. datasets' = datasets /\ ~ Pending(d)
      BY <1>0, <2>0, <2>10 DEF BeginReview, LockRun, LockForReject, LockForAccept, CommitVerdict,
         Cleanup, Pending
    <3> QED BY <1>1, <3>1 DEF Owned
  <2> QED BY <1>6, <2>3, <2>4, <2>5, <2>6, <2>7, <2>8, <2>9, <2>10, FaultsAreCounted
          DEF ReviewStep
<1> QED BY <1>3, <1>4, <1>5, <1>6, FaultsAreCounted DEF Next

\* No dataset is left without a revision, whichever of the undoable faults happens
\* where: while nobody publishes or undoes, the datasets are those the database names.
\* The undo returns the branch to the base commit and then forgets the dataset
\* (routers/agent.py:380-418, services/project_git.py restore_project_git_commit).
THEOREM NoDatasetIsOrphaned ==
  ASSUME UndoableFaults
  PROVE  Spec => []NoOrphanDatasets
<1>1. Init => ResetInvariant /\ NothingIsOrphaned
  BY IdsAreApart DEF Init, ResetInvariant, Named, Resets, Apart, Resetting, NothingIsOrphaned,
     Owned, Revisions
<1>2. Inv /\ ResetInvariant /\ NothingIsOrphaned /\ [Next]_vars
        => ResetInvariant' /\ NothingIsOrphaned'
  <2> SUFFICES ASSUME Inv, ResetInvariant, NothingIsOrphaned, [Next]_vars
               PROVE  ResetInvariant' /\ NothingIsOrphaned'
    OBVIOUS
  <2>1. CASE UNCHANGED vars
    BY <2>1 DEF ResetInvariant, Named, Resets, Apart, Resetting, Started, NothingIsOrphaned,
       Owned, Pending
  <2>2. CASE Next
    BY <2>2, ResetsAreKept, OwnedIsKept DEF NothingIsOrphaned
  <2> QED BY <2>1, <2>2
<1>3. Inv /\ AllStored /\ NothingIsOrphaned => NoOrphanDatasets
  <2> SUFFICES ASSUME Inv, AllStored, NothingIsOrphaned, Quiet
               PROVE  datasets = {dataset[i] : i \in exists}
    BY DEF NoOrphanDatasets
  <2>1. datasets \subseteq Revisions /\ exists \subseteq Revisions
    BY DEF Inv, TypeOK
  <2>2. ASSUME NEW d \in datasets PROVE \E i \in exists : dataset[i] = d
    <3>1. ~ Pending(d)
      BY IdsAreApart DEF Pending, Quiet, Inv, RequestInvariant, ReviewInvariant
    <3> QED BY <2>1, <3>1 DEF NothingIsOrphaned, Owned
  <2>3. ASSUME NEW i \in exists PROVE dataset[i] \in datasets
    BY <2>1 DEF AllStored, Stored
  <2> QED BY <2>2, <2>3
<1>4. "answer" \notin FaultKinds
  BY DEF UndoableFaults
<1> QED BY <1>1, <1>2, <1>3, <1>4, InvIsInvariant, StoredIsInvariant, PTL DEF Spec

-----------------------------------------------------------------------------
(* Files.                                                                  *)

\* The faults that leave Git and the workspaces alone.
MemoryFaults == FaultKinds \subseteq {"memory", "remember", "forget", "hang", "cancel"}

\* The working files, the index and both branches agree, and they are those of the
\* active revision unless a request has committed and its transaction has not.
Wrote     == {"completed", "record", "edited"}
Synced    == remote = head /\ index = tree[head] /\ files = tree[head]
InWriting == \E q \in Requests : pc[q] \in Wrote
AtRest    == InWriting \/ head = gitCommit[active]

\* Nobody makes a proposal of the run any more.
Decided(r) == runStatus[r] \in Verdicts \cup {"cancelled"} /\ "worker" \notin writers[r]

\* A request records the commit on the branch, and nobody names its commit before it
\* does; a commit is never undone, and a run that is cleaned up is decided.
Kept(q) ==
  /\ pc[q] \in {"completed", "edited"} => recorded[q] = head
  /\ q \notin exists => /\ \A i \in exists : gitCommit[i] # q
                        /\ pc[q] \notin Wrote => head # q
  /\ "git" \in undo[q] => pc[q] \in {"completed", "cleanup"}
  /\ q \in Reviews /\ pc[q] = "cleanup" => Decided(target[q])

\* A run that can still be accepted holds the files it writes and finds those it
\* deletes, whenever the review gets to look at the project.
Fits(r, before) ==
  /\ \A p \in changes[r].put : workspace[r][p] \notin {None, before[p]}
  /\ \A p \in changes[r].del : before[p] # None /\ p \notin changes[r].put
Rejecting(r) == \E v \in Reviews : pc[v] = "rejected" /\ target[v] = r
Proposed(r) ==
  /\ runStatus[r] \in {"absent", "prepared"} => changes[r] = NoChanges
  /\ runStatus[r] = "awaiting_review" /\ base[r] = active =>
       Fits(r, tree[gitCommit[active]]) \/ Rejecting(r) \/ InWriting

\* What was reviewed is what was published.
Changed(r, before, after) ==
  \A p \in Paths :
    /\ p \notin ChangedPaths(r) => after[p] = before[p]
    /\ p \in changes[r].put => after[p] \notin {None, before[p]}
    /\ p \in changes[r].del => after[p] = None
Accepted(v) ==
  pc[v] = "completed" =>
    Changed(target[v], tree[gitCommit[base[target[v]]]], tree[recorded[v]])
Shown(r) ==
  result[r] # None => Changed(r, tree[gitCommit[base[r]]], tree[gitCommit[result[r]]])

FilesInvariant ==
  /\ Synced /\ AtRest
  /\ \A q \in Requests : Kept(q)
  /\ \A r \in Runs : Proposed(r)
  /\ \A v \in Reviews : Accepted(v)
  /\ \A r \in Runs : Shown(r)

\* The steps that remain when only the memory service fails.
LEMMA OnlyMemoryFails ==
  ASSUME MemoryFaults
  PROVE  /\ ~ Crash
         /\ \A v \in Reviews : ~ AnswerLost(v) /\ ~ CommitFails(v) /\ ~ PushFails(v)
         /\ \A e \in Edits : ~ SaveFails(e)
         /\ \A q \in Requests : ~ TransactionFails(q)
         /\ "event" \notin FaultKinds
BY DEF MemoryFaults, Crash, AnswerLost, CommitFails, PushFails, SaveFails, TransactionFails,
       FaultHappens

\* One request at a time has the project row.
LEMMA OneWriter ==
  ASSUME Inv, NEW q \in Requests, NEW p \in Requests,
         pc[q] \in Wrote \cup {"remember", "publish", "write", "rejected", "conflicted"},
         pc[p] \in Wrote \cup {"remember", "publish", "write", "rejected", "conflicted"}
  PROVE  q = p /\ projectLock = q
<1>1. ASSUME NEW x \in Requests,
             pc[x] \in Wrote \cup {"remember", "publish", "write", "rejected", "conflicted"}
      PROVE  projectLock = x
  BY <1>1 DEF Inv, RequestInvariant, ReviewInvariant, EditInvariant, Requests, Wrote
<1> QED BY <1>1

\* A review that is about to publish finds the project at its base, and every file
\* it needs.
LEMMA PublishFits ==
  ASSUME Inv, FilesInvariant, NEW v \in Reviews, pc[v] = "publish"
  PROVE  /\ target[v] \in Runs /\ v \in Requests /\ v \notin exists
         /\ ~ InWriting /\ head = gitCommit[active] /\ files = tree[head]
         /\ base[target[v]] = active /\ gitCommit[active] # v
         /\ Fits(target[v], files) /\ Missing(target[v]) = {}
<1>1. /\ v \in Requests /\ target[v] \in Runs /\ v \notin exists
      /\ base[target[v]] = active /\ runStatus[target[v]] = "awaiting_review"
      /\ runLock[target[v]] = v /\ active \in exists
  BY IdsAreApart DEF Inv, TypeOK, RequestInvariant, ReviewInvariant, RevisionsFormALine
<1>2. ~ InWriting
  BY <1>1, OneWriter DEF InWriting, Wrote
<1>3. ~ Rejecting(target[v])
  BY <1>1 DEF Rejecting, Inv, RequestInvariant, ReviewInvariant
<1>4. head = gitCommit[active] /\ files = tree[head]
  BY <1>2 DEF FilesInvariant, AtRest, Synced
<1>5. Fits(target[v], files)
  BY <1>1, <1>2, <1>3, <1>4 DEF FilesInvariant, Proposed
<1>6. Missing(target[v]) = {}
  BY <1>5 DEF Fits, Missing
<1>7. gitCommit[active] # v
  BY <1>1 DEF FilesInvariant, Kept
<1> QED BY <1>1, <1>2, <1>4, <1>5, <1>6, <1>7

\* A request commits files: they, the index and the commit are alike afterwards.
Commits(q) ==
  /\ pc[q] \in {"publish", "write"} /\ pc'[q] \in {"completed", "record"}
  /\ head' = q /\ remote' = q /\ files' = index' /\ tree' = [tree EXCEPT ![q] = index']
  /\ UNCHANGED revisions

\* Git is written by publications and saved files only.
LEMMA WhoCommits ==
  ASSUME MemoryFaults, Inv, FilesInvariant, Next
  PROVE  UNCHANGED git \/ \E q \in Requests : q \notin exists /\ Commits(q)
<1> USE DEF Goto
<1>0. /\ TypeOK /\ Reviews \subseteq Requests /\ Edits \subseteq Requests
      /\ index = files /\ files \in Trees
  BY IdsAreApart DEF Inv, TypeOK, FilesInvariant, Synced
<1>1. ASSUME NEW r \in Runs, RunStep(r) PROVE UNCHANGED git
  BY <1>1 DEF RunStep, Prepare, StartRun, ProposeRestore, ProposeKnowledge,
              CopyProject, FinishRun, FailRun, DeleteLate,
     FailLate, ReadToCancel, CommitCancel, SetStatus, MoveRun, Propose
<1>2. ASSUME NEW v \in Reviews, BeginReview(v) \/ ReviewStep(v), ~ Publish(v)
      PROVE  UNCHANGED git
  <2>1. ~ UndoGit(v)
    BY <1>0 DEF UndoGit, FilesInvariant, Kept
  <2>2. ~ MissingFile(v)
    BY PublishFits DEF MissingFile
  <2> QED BY <1>2, <2>1, <2>2, <1>0, OnlyMemoryFails DEF BeginReview, LockRun, ReviewStep,
     LockForReject, LockForAccept, Remember, MemoryFails, MemoryHangs, RememberFails, CommitAccept,
     ApplyAccept, CommitVerdict, Cleanup, UndoGitFails, UndoDataset
<1>3. ASSUME NEW v \in Reviews, Publish(v), ChangedPaths(target[v]) # {}
      PROVE  v \notin exists /\ Commits(v)
  <2>1. CommitAndPush(v, ChangedPaths(target[v]), Published(target[v]))
    BY <1>3 DEF Publish
  <2>2. Staged(ChangedPaths(target[v]), Published(target[v])) = Published(target[v])
    BY <1>0 DEF Staged, Published, ChangedPaths
  <2>3. pc[v] = "publish" /\ pc' = [pc EXCEPT ![v] = "completed"] /\ UNCHANGED revisions
    BY <1>3 DEF Publish
  <2> QED BY <1>0, <2>1, <2>2, <2>3, PublishFits DEF Commits, CommitAndPush, CommitFiles, TypeOK
<1>4. ASSUME NEW v \in Reviews, Publish(v), ChangedPaths(target[v]) = {} PROVE UNCHANGED git
  BY <1>4 DEF Publish
<1>5. ASSUME NEW e \in Edits, SaveFile(e) PROVE e \notin exists /\ Commits(e)
  <2>1. PICK new \in Trees : CommitAndPush(e, Touched(new), new)
    BY <1>5 DEF SaveFile
  <2>2. Staged(Touched(new), new) = new
    BY <1>0 DEF Staged, Touched, Trees
  <2>3. /\ pc[e] = "write" /\ pc' = [pc EXCEPT ![e] = "record"] /\ UNCHANGED revisions
        /\ e \notin exists
    BY <1>5 DEF SaveFile, Inv, RequestInvariant, EditInvariant
  <2> QED BY <1>0, <2>1, <2>2, <2>3 DEF Commits, CommitAndPush, CommitFiles, TypeOK
<1>6. ASSUME NEW e \in Edits, LockForEdit(e) \/ EditStep(e), ~ SaveFile(e)
      PROVE  UNCHANGED git
  BY <1>6, <1>0, OnlyMemoryFails DEF LockForEdit, EditStep, RecordRevision, CommitEdit
<1> QED BY <1>0, <1>1, <1>2, <1>3, <1>4, <1>5, <1>6, OnlyMemoryFails DEF Next

\* A request that has written commits its revision on what it wrote.
Inserts(q) ==
  /\ exists' = exists \cup {q} /\ active' = q /\ gitCommit' = [gitCommit EXCEPT ![q] = recorded[q]]
  /\ pc[q] \in {"completed", "edited"} /\ pc'[q] \in {"cleanup", "done"} /\ UNCHANGED git

\* No other step changes the active revision or the commit of any.
LEMMA WhoInserts ==
  ASSUME MemoryFaults, Inv, Next
  PROVE  \/ UNCHANGED <<exists, active, gitCommit>>
         \/ \E q \in Requests : q \notin exists /\ Inserts(q)
<1> USE DEF Goto
<1>0. TypeOK /\ Reviews \subseteq Requests /\ Edits \subseteq Requests
  BY IdsAreApart DEF Inv
<1>1. ASSUME NEW v \in Reviews, CommitAccept(v) PROVE v \notin exists /\ Inserts(v)
  <2>1. pc[v] = "completed" /\ pc'[v] = "cleanup"
    BY <1>0, <1>1 DEF CommitAccept, TypeOK
  <2>2. v \notin exists
    BY <2>1 DEF Inv, RequestInvariant, ReviewInvariant, Over
  <2> QED BY <1>1, <2>1, <2>2 DEF CommitAccept, ApplyAccept, InsertRevision, Inserts
<1>2. ASSUME NEW e \in Edits, CommitEdit(e) PROVE e \notin exists /\ Inserts(e)
  <2>1. pc'[e] = "done"
    BY <1>0, <1>2, FinishIs DEF CommitEdit
  <2>2. e \notin exists
    BY <1>2 DEF CommitEdit, Inv, RequestInvariant, EditInvariant
  <2> QED BY <1>2, <2>1, <2>2 DEF CommitEdit, InsertRevision, Inserts
<1>3. ASSUME NEW r \in Runs, RunStep(r) PROVE UNCHANGED revisions
  BY <1>3 DEF RunStep, Prepare, StartRun, ProposeRestore, ProposeKnowledge,
              CopyProject, FinishRun, FailRun, DeleteLate,
     FailLate, ReadToCancel, CommitCancel, SetStatus, MoveRun, Propose
<1>4. ASSUME NEW v \in Reviews, BeginReview(v) \/ ReviewStep(v), ~ CommitAccept(v)
      PROVE  UNCHANGED revisions
  BY <1>0, <1>4, OnlyMemoryFails DEF BeginReview, LockRun, ReviewStep, LockForReject,
     LockForAccept, Remember, MemoryFails, MemoryHangs, RememberFails, Publish, MissingFile,
     CommitVerdict, Cleanup, UndoGit, UndoGitFails, UndoDataset, Abort
<1>5. ASSUME NEW e \in Edits, LockForEdit(e) \/ EditStep(e), ~ CommitEdit(e)
      PROVE  UNCHANGED revisions
  BY <1>0, <1>5, OnlyMemoryFails DEF LockForEdit, EditStep, SaveFile, RecordRevision
<1> QED BY <1>0, <1>1, <1>2, <1>3, <1>4, <1>5, OnlyMemoryFails DEF Next

\* What a request does in a step of its own: it records the commit on the branch, has
\* nothing of Git to undo, decides its run, and inserts what it has written.
LEMMA OwnStep ==
  ASSUME MemoryFaults, Inv, FilesInvariant, Next, NEW q \in Requests,
         \/ q \in Reviews /\ (BeginReview(q) \/ ReviewStep(q))
         \/ q \in Edits /\ (LockForEdit(q) \/ EditStep(q))
  PROVE  /\ pc'[q] \in {"completed", "edited"} => recorded'[q] = head'
         /\ "git" \in undo'[q] => pc'[q] \in {"completed", "cleanup"}
         /\ q \in Reviews /\ pc'[q] = "cleanup" => Decided(target[q])'
         /\ pc[q] \in Wrote => pc'[q] \in Wrote \/ Inserts(q)
<1> USE DEF Goto, Wrote
<1>0. /\ TypeOK /\ Kept(q) /\ (q \in Reviews => q \notin Edits /\ ReviewInvariant(q))
      /\ q \in Edits => EditInvariant(q)
  BY IdsAreApart DEF Inv, FilesInvariant, RequestInvariant
<1>1. CASE q \in Reviews /\ (MemoryFails(q) \/ RememberFails(q))
  <2>1. pc[q] = "remember" /\ Abort(q)
    BY <1>1 DEF MemoryFails, MemoryHangs, RememberFails
  <2> QED BY <1>0, <2>1, AbortIs DEF Kept
<1>2. CASE q \in Reviews /\ (Cleanup(q) \/ UndoGitFails(q) \/ UndoDataset(q))
  <2>1. pc[q] \in {"cleanup", "undo"} /\ Finish(q)
    BY <1>2 DEF Cleanup, UndoGitFails, UndoDataset
  <2> QED BY <1>0, <2>1, FinishIs
<1>3. CASE q \in Reviews /\ Publish(q)
  <2>1. pc[q] = "publish" /\ pc'[q] = "completed"
    BY <1>0, <1>3 DEF Publish, TypeOK
  <2>2. recorded'[q] = head'
    BY <1>0, <1>3 DEF Publish, CommitAndPush, CommitFiles, TypeOK
  <2> QED BY <2>1, <2>2
<1>4. CASE q \in Reviews /\ CommitAccept(q)
  <2>1. pc[q] = "completed" /\ pc'[q] = "cleanup" /\ target' = target
        /\ runStatus'[target[q]] = "completed" /\ Inserts(q) /\ writers' = writers
    BY <1>0, <1>4 DEF CommitAccept, ApplyAccept, InsertRevision, Inserts, TypeOK
  <2>2. "worker" \notin writers[target[q]]
    BY <1>0, <1>4, <2>1 DEF ReviewInvariant, Inv, RequestInvariant, RunInvariant, TypeOK
  <2> QED BY <2>1, <2>2 DEF Decided
<1>5. CASE q \in Reviews /\ CommitVerdict(q)
  <2>1. pc[q] \in {"rejected", "conflicted"} /\ pc'[q] = "cleanup" /\ target' = target
        /\ runStatus'[target[q]] \in Verdicts /\ undo' = undo /\ writers' = writers
    BY <1>0, <1>5 DEF CommitVerdict, TypeOK
  <2>2. "worker" \notin writers[target[q]]
    BY <1>0, <1>5, <2>1 DEF ReviewInvariant, Inv, RequestInvariant, RunInvariant, TypeOK
  <2> QED BY <2>1, <2>2 DEF Decided
<1>6. CASE q \in Reviews /\ \/ BeginReview(q) \/ LockForReject(q) \/ LockForAccept(q)
                            \/ Remember(q) \/ MemoryHangs(q)
  <2>1. /\ pc[q] \in {"new", "accept", "reject", "remember"}
        /\ pc'[q] \in {"accept", "reject", "remember", "hung", "rejected", "conflicted",
                       "publish"}
        /\ "git" \in undo'[q] => "git" \in undo[q]
    BY <1>0, <1>6 DEF MemoryHangs, BeginReview, LockRun, LockForReject, LockForAccept, AcceptPoint,
       Remember, TypeOK
  <2> QED BY <1>0, <2>1 DEF Kept
<1>7. CASE q \in Reviews /\ (UndoGit(q) \/ MissingFile(q))
  BY <1>0, <1>7, PublishFits DEF UndoGit, MissingFile, Kept
<1>8. CASE q \in Edits /\ (LockForEdit(q) \/ SaveFile(q) \/ RecordRevision(q))
  <2>1. /\ pc'[q] \in {"write", "record", "edited"} /\ undo' = undo
        /\ pc'[q] = "edited" => recorded'[q] = head'
        /\ pc'[q] = "write" => pc[q] = "new"
    BY <1>0, <1>8 DEF LockForEdit, SaveFile, RecordRevision, TypeOK
  <2> QED BY <1>0, <1>8, <2>1 DEF EditInvariant
<1>9. CASE q \in Edits /\ CommitEdit(q)
  <2>1. pc'[q] = "done" /\ undo'[q] = {}
    BY <1>0, <1>9, FinishIs DEF CommitEdit
  <2>2. Inserts(q)
    BY <1>9, <2>1 DEF CommitEdit, InsertRevision, Inserts
  <2> QED BY <2>1, <2>2
<1> QED BY <1>0, <1>1, <1>2, <1>3, <1>4, <1>5, <1>6, <1>7, <1>8, <1>9, OnlyMemoryFails
        DEF ReviewStep, EditStep

\* Whose step it is.
LEMMA WhoSteps ==
  ASSUME MemoryFaults, Inv, Next
  PROVE  \/ UNCHANGED <<requests, revisions, git>>
         \/ \E q \in Requests : \/ q \in Reviews /\ (BeginReview(q) \/ ReviewStep(q))
                                \/ q \in Edits /\ (LockForEdit(q) \/ EditStep(q))
<1>1. ASSUME NEW r \in Runs, RunStep(r) PROVE UNCHANGED <<requests, revisions, git>>
  BY <1>1 DEF RunStep, Prepare, StartRun, ProposeRestore, ProposeKnowledge,
              CopyProject, FinishRun, FailRun, DeleteLate,
     FailLate, ReadToCancel, CommitCancel, SetStatus, MoveRun, Propose
<1> QED BY <1>1, OnlyMemoryFails, IdsAreApart DEF Next

\* A request that has written stays until it inserts its revision.
LEMMA WriterStays ==
  ASSUME MemoryFaults, Inv, FilesInvariant, Next, NEW q \in Requests, pc[q] \in Wrote
  PROVE  pc'[q] \in Wrote \/ Inserts(q)
BY WhoSteps, OwnStep, OneRequestMoves

\* The working files stay those of the commit on both branches.
LEMMA SyncedIsKept ==
  ASSUME MemoryFaults, Inv, FilesInvariant, Next
  PROVE  Synced' /\ AtRest'
<1>0. TypeOK /\ Synced /\ AtRest /\ Requests \subseteq Revisions
  BY IdsAreApart DEF Inv, FilesInvariant
<1>1. Synced'
  BY <1>0, WhoCommits DEF Commits, Synced, TypeOK
<1>2. ASSUME NEW q \in Requests, pc[q] \in Wrote PROVE AtRest'
  <2>1. CASE pc'[q] \in Wrote
    BY <2>1 DEF AtRest, InWriting
  <2>2. CASE Inserts(q)
    <3>1. recorded[q] = head
      BY <2>2 DEF Inserts, FilesInvariant, Kept
    <3>2. q \in Revisions
      BY <1>0
    <3> QED BY <1>0, <2>2, <3>1, <3>2 DEF AtRest, Inserts, TypeOK
  <2> QED BY <1>2, <2>1, <2>2, WriterStays
<1>3. CASE ~ InWriting
  <2>1. UNCHANGED <<active, gitCommit>>
    BY <1>3, WhoInserts DEF Inserts, InWriting, Wrote
  <2>2. CASE UNCHANGED git
    BY <1>0, <1>1, <1>3, <2>1, <2>2 DEF AtRest
  <2>3. CASE \E q \in Requests : Commits(q)
    BY <1>1, <2>3 DEF Commits, AtRest, InWriting, Wrote
  <2> QED BY <2>2, <2>3, WhoCommits
<1> QED BY <1>1, <1>2, <1>3 DEF InWriting

\* A decided run stays so: no worker has it, and only a late cancellation writes it.
LEMMA DecidedStays ==
  ASSUME MemoryFaults, Inv, Next, NEW r \in Runs, Decided(r)
  PROVE  Decided(r)'
<1> USE DEF Inv, TypeOK, Decided
<1>1. ASSUME NEW s \in Runs, RunStep(s) PROVE Decided(r)'
  <2>1. RunInvariant(s) /\ "event" \notin FaultKinds
    BY OnlyMemoryFails DEF RequestInvariant
  <2>2. CASE \/ Prepare(s) \/ StartRun(s) \/ (\E i \in Revisions : ProposeRestore(s, i))
             \/ ProposeKnowledge(s) \/ CopyProject(s)
    BY <2>2 DEF Prepare, StartRun, ProposeRestore, ProposeKnowledge, CopyProject,
                SetStatus, MoveRun, Propose
  <2>3. CASE FinishRun(s) \/ FailRun(s)
    <3>1. s # r
      BY <2>3 DEF FinishRun, FailRun
    <3>2. runStatus'[r] = runStatus[r]
      BY <2>3, <3>1 DEF FinishRun, FailRun, SetStatus, Propose
    <3>3. writers'[r] = writers[r]
      BY <2>3, <3>1 DEF FinishRun, FailRun
    <3> QED BY <3>2, <3>3
  <2>4. ~ DeleteLate(s) /\ ~ FailLate(s)
    BY <2>1 DEF RunInvariant, DeleteLate, FailLate
  <2>5. CASE CommitCancel(s)
    BY <2>5 DEF CommitCancel, SetStatus
  <2>6. CASE ReadToCancel(s)
    BY <2>6 DEF ReadToCancel
  <2> QED BY <1>1, <2>2, <2>3, <2>4, <2>5, <2>6 DEF RunStep
<1>2. ASSUME NEW v \in Reviews, CommitVerdict(v) \/ (pc[v] = "completed" /\ ApplyAccept(v))
      PROVE  Decided(r)'
  <2>1. ReviewInvariant(v) /\ pc[v] \in Verdicts
    BY <1>2 DEF RequestInvariant, CommitVerdict, Goto
  <2>2. r # target[v]
    BY <2>1 DEF ReviewInvariant
  <2> QED BY <1>2, <2>2 DEF CommitVerdict, ApplyAccept
<1>3. ASSUME NEW v \in Reviews, BeginReview(v) \/ ReviewStep(v)
      PROVE  Decided(r)'
  BY <1>2, <1>3 DEF BeginReview, LockRun, ReviewStep, LockForReject, LockForAccept,
     Remember, MemoryFails, MemoryHangs, RememberFails, Publish, MissingFile, CommitFails, Goto,
     PushFails, CommitAccept, AnswerLost, Cleanup, UndoGit, UndoGitFails,
     UndoDataset, TransactionFails, Abort
<1>4. ASSUME NEW e \in Edits, LockForEdit(e) \/ EditStep(e)
      PROVE  Decided(r)'
  BY <1>4 DEF LockForEdit, EditStep, SaveFile, SaveFails, RecordRevision, CommitEdit,
              TransactionFails, Abort
<1> QED BY <1>1, <1>3, <1>4, OnlyMemoryFails DEF Next

\* Each request keeps its part.
LEMMA KeptIsKept ==
  ASSUME MemoryFaults, Inv, FilesInvariant, Next, NEW q \in Requests
  PROVE  Kept(q)'
<1>0. /\ TypeOK /\ Kept(q) /\ Requests \subseteq Revisions /\ Reviews \subseteq Requests
      /\ Edits \subseteq Requests
  BY IdsAreApart DEF Inv, FilesInvariant
<1>1. ASSUME pc'[q] \in {"completed", "edited"} PROVE recorded'[q] = head'
  <2>1. CASE \/ q \in Reviews /\ (BeginReview(q) \/ ReviewStep(q))
             \/ q \in Edits /\ (LockForEdit(q) \/ EditStep(q))
    BY <1>1, <2>1, OwnStep
  <2>2. CASE pc'[q] = pc[q] /\ recorded'[q] = recorded[q]
    <3>1. recorded[q] = head
      BY <1>0, <1>1, <2>2 DEF Kept
    <3>2. \A p \in Requests : ~ Commits(p)
      <4>1. ASSUME NEW p \in Requests, Commits(p) PROVE FALSE
        <5>1. p = q
          BY <1>1, <2>2, <4>1, OneWriter DEF Commits, Wrote
        <5> QED BY <1>1, <2>2, <4>1, <5>1 DEF Commits
      <4> QED BY <4>1
    <3> QED BY <2>2, <3>1, <3>2, WhoCommits
  <2> QED BY <2>1, <2>2, WhoSteps, OneRequestMoves
<1>2. ASSUME q \notin exists', NEW i \in exists' PROVE gitCommit'[i] # q
  <2>1. CASE UNCHANGED <<exists, active, gitCommit>>
    BY <1>0, <1>2, <2>1 DEF Kept
  <2>2. ASSUME NEW p \in Requests, Inserts(p) PROVE gitCommit'[i] # q
    <3>1. p # q /\ q \notin exists
      BY <1>2, <2>2 DEF Inserts
    <3>2. recorded[p] = head
      BY <2>2 DEF Inserts, FilesInvariant, Kept
    <3>3. pc[q] \notin Wrote
      BY <2>2, <3>1, OneWriter DEF Inserts, Wrote
    <3>4. head # q
      BY <1>0, <3>1, <3>3 DEF Kept
    <3> QED BY <1>0, <1>2, <2>2, <3>1, <3>2, <3>4 DEF Inserts, Kept, TypeOK
  <2> QED BY <2>1, <2>2, WhoInserts
<1>3. ASSUME q \notin exists', pc'[q] \notin Wrote PROVE head' # q
  <2>1. pc[q] \notin Wrote /\ q \notin exists
    BY <1>3, WriterStays, RowsAreKept DEF Inserts
  <2>2. head # q
    BY <1>0, <2>1 DEF Kept
  <2>3. ASSUME NEW p \in Requests, Commits(p) PROVE head' # q
    BY <1>3, <2>3 DEF Commits, Wrote
  <2> QED BY <2>2, <2>3, WhoCommits
<1>4. /\ "git" \in undo'[q] => pc'[q] \in {"completed", "cleanup"}
      /\ q \in Reviews /\ pc'[q] = "cleanup" => Decided(target[q])'
  <2>1. CASE \/ q \in Reviews /\ (BeginReview(q) \/ ReviewStep(q))
             \/ q \in Edits /\ (LockForEdit(q) \/ EditStep(q))
    BY <2>1, OwnStep
  <2>2. CASE UNCHANGED <<pc[q], target[q], undo[q]>>
    <3>1. ASSUME q \in Reviews, pc[q] = "cleanup" PROVE Decided(target[q])'
      <4>1. target[q] \in Runs /\ Decided(target[q])
        BY <1>0, <3>1 DEF TypeOK, Kept
      <4>2. PICK r \in Runs : r = target[q] /\ r = target'[q]
        BY <2>2, <4>1
      <4>3. Decided(r)'
        BY <4>1, <4>2, DecidedStays
      <4> QED BY <4>2, <4>3 DEF Decided
    <3> QED BY <1>0, <2>2, <3>1 DEF Kept
  <2> QED BY <2>1, <2>2, WhoSteps, OneRequestMoves
<1> QED BY <1>1, <1>2, <1>3, <1>4 DEF Kept

\* What a step of a run does to the rows of runs: a proposal is compared with the
\* working files of the moment, or changes none.
LEMMA RunStepIs ==
  ASSUME MemoryFaults, Inv, NEW s \in Runs, RunStep(s), NEW r \in Runs
  PROVE  /\ UNCHANGED <<requests, revisions, git, result>>
         /\ \/ /\ runStatus'[r] \in {runStatus[r], "cancelled"} /\ base'[r] = base[r]
               /\ changes'[r] = changes[r] /\ workspace'[r] = workspace[r]
            \/ /\ runStatus[r] \in {"absent", "prepared", "queued"} \/ "worker" \in writers[r]
               /\ changes'[r] = changes[r]
               /\ \/ runStatus[r] = "absent" /\ runStatus'[r] = "prepared"
                  \/ /\ base'[r] = base[r]
                     /\ \/ runStatus'[r] \in {"queued", "running", "failed", "cancelled"}
                        \/ runStatus[r] = "prepared" /\ runStatus'[r] = "awaiting_review"
            \/ /\ runStatus[r] = "prepared" \/ "worker" \in writers[r]
               /\ runStatus'[r] = "awaiting_review" /\ base'[r] = base[r]
               /\ changes'[r] = ChangesTo(workspace'[r])
<1> USE DEF Inv, TypeOK, SetStatus, MoveRun
<1>0. ~ DeleteLate(s) /\ ~ FailLate(s)
  BY OnlyMemoryFails DEF RequestInvariant, RunInvariant, DeleteLate, FailLate
<1>1. CASE Prepare(s)
  BY <1>1 DEF Prepare
<1>2. CASE StartRun(s) \/ ProposeKnowledge(s)
  BY <1>2 DEF StartRun, ProposeKnowledge
<1>3. CASE CopyProject(s)
  BY <1>3 DEF CopyProject
<1>4. CASE FailRun(s)
  BY <1>4 DEF FailRun
<1>5. ASSUME NEW candidate, Propose(s, candidate),
             runStatus[s] = "prepared" \/ "worker" \in writers[s]
      PROVE  /\ UNCHANGED <<requests, revisions, git, result>>
             /\ \/ /\ runStatus'[r] = runStatus[r] /\ base'[r] = base[r]
                   /\ changes'[r] = changes[r] /\ workspace'[r] = workspace[r]
                \/ /\ runStatus[r] = "prepared" \/ "worker" \in writers[r]
                   /\ runStatus'[r] = "awaiting_review" /\ base'[r] = base[r]
                   /\ changes'[r] = ChangesTo(workspace'[r])
  BY <1>5 DEF Propose
<1>6. CASE (\E i \in Revisions : ProposeRestore(s, i)) \/ FinishRun(s)
  BY <1>5, <1>6 DEF ProposeRestore, FinishRun
<1>7. CASE ReadToCancel(s) \/ CommitCancel(s)
  BY <1>7 DEF ReadToCancel, CommitCancel
<1> QED BY <1>0, <1>1, <1>2, <1>3, <1>4, <1>6, <1>7 DEF RunStep

\* What a step of a request does to the rows of runs.
LEMMA RequestsLeaveProposals ==
  ASSUME MemoryFaults, Inv, FilesInvariant, NEW q \in Requests, NEW r \in Runs,
         \/ q \in Reviews /\ (BeginReview(q) \/ ReviewStep(q))
         \/ q \in Edits /\ (LockForEdit(q) \/ EditStep(q))
  PROVE  /\ changes' = changes /\ base' = base
         /\ \/ runStatus'[r] \in Verdicts \cup {"cancelled"}
            \/ /\ runStatus'[r] = runStatus[r]
               /\ workspace'[r] = workspace[r] \/ Rejecting(r)'
<1> USE DEF Goto
<1>0. TypeOK
  BY DEF Inv
<1>1. CASE q \in Reviews /\ (CommitAccept(q) \/ CommitVerdict(q))
  BY <1>0, <1>1 DEF CommitAccept, ApplyAccept, CommitVerdict, TypeOK
<1>2. CASE q \in Reviews /\ LockForReject(q)
  BY <1>0, <1>2 DEF LockForReject, TypeOK, Rejecting
<1>3. CASE q \in Reviews /\ Cleanup(q)
  <2>1. runStatus[target[q]] \in Verdicts \cup {"cancelled"}
    BY <1>3 DEF Cleanup, FilesInvariant, Kept, Decided
  <2> QED BY <1>0, <1>3, <2>1 DEF Cleanup, TypeOK
<1>4. CASE /\ q \in Reviews /\ (BeginReview(q) \/ ReviewStep(q))
           /\ ~ (CommitAccept(q) \/ CommitVerdict(q) \/ LockForReject(q) \/ Cleanup(q))
  <2>1. UNCHANGED runs
    BY <1>0, <1>4, OnlyMemoryFails DEF BeginReview, LockRun, ReviewStep, LockForAccept,
       Remember, MemoryFails, MemoryHangs, RememberFails, Publish, MissingFile, UndoGit,
       UndoGitFails, UndoDataset, Abort
  <2> QED BY <2>1
<1>5. CASE q \in Edits /\ (LockForEdit(q) \/ EditStep(q))
  <2>1. UNCHANGED runs
    BY <1>5, OnlyMemoryFails DEF LockForEdit, EditStep, SaveFile, RecordRevision, CommitEdit
  <2> QED BY <2>1
<1> QED BY <1>1, <1>2, <1>3, <1>4, <1>5

\* A rejection goes on until the run is decided.
LEMMA RejectingStays ==
  ASSUME MemoryFaults, Inv, FilesInvariant, Next, NEW r \in Runs, Rejecting(r)
  PROVE  Rejecting(r)' \/ runStatus'[r] \in Verdicts
<1> USE DEF Goto
<1>0. TypeOK
  BY DEF Inv
<1>1. PICK v \in Reviews : pc[v] = "rejected" /\ target[v] = r
  BY DEF Rejecting
<1>2. v \in Requests /\ v \notin Edits
  BY <1>1, IdsAreApart
<1>3. CASE UNCHANGED <<pc[v], target[v]>>
  BY <1>1, <1>3 DEF Rejecting
<1>4. CASE BeginReview(v) \/ ReviewStep(v)
  <2>1. CommitVerdict(v)
    BY <1>1, <1>4, OnlyMemoryFails, <1>2 DEF BeginReview, LockRun, ReviewStep, LockForReject,
       LockForAccept, Remember, MemoryFails, MemoryHangs, RememberFails, Publish, MissingFile,
       CommitAccept, Cleanup, UndoGit, UndoGitFails, UndoDataset
  <2> QED BY <1>0, <1>1, <2>1 DEF CommitVerdict, TypeOK
<1> QED BY <1>2, <1>3, <1>4, WhoSteps, OneRequestMoves

\* While nobody writes, a proposal is compared with the files of the active revision,
\* and nobody inserts one.
LEMMA AtRestNothingMoves ==
  ASSUME MemoryFaults, Inv, FilesInvariant, Next, ~ InWriting', NEW r \in Runs,
         base'[r] = active', base'[r] = base[r] \/ base'[r] = active
  PROVE  /\ ~ InWriting /\ UNCHANGED <<active, gitCommit, git>>
         /\ files = tree[gitCommit[active]]
<1>1. \A q \in Requests : ~ Commits(q)
  BY DEF Commits, InWriting, Wrote
<1>2. UNCHANGED git
  BY <1>1, WhoCommits
<1>3. base[r] = None \/ base[r] \in exists
  BY DEF Inv, RequestInvariant, RunInvariant
<1>4. \A q \in Requests : q \notin exists => ~ Inserts(q)
  BY <1>3, IdsAreApart DEF Inserts, Inv, RevisionsFormALine
<1>5. UNCHANGED <<active, gitCommit>>
  BY <1>4, WhoInserts
<1>6. ~ InWriting
  <2>1. ASSUME NEW q \in Requests, pc[q] \in Wrote PROVE FALSE
    <3>1. Inserts(q)
      BY <2>1, WriterStays DEF InWriting
    <3>2. q \notin exists
      BY <2>1 DEF Inv, RequestInvariant, ReviewInvariant, EditInvariant, Wrote, Requests
    <3> QED BY <1>4, <3>1, <3>2
  <2> QED BY <2>1 DEF InWriting
<1> QED BY <1>2, <1>5, <1>6 DEF FilesInvariant, AtRest, Synced

\* A proposal fits the revision it is based on as long as that one is active.
LEMMA ProposedIsKept ==
  ASSUME MemoryFaults, Inv, FilesInvariant, Next, NEW r \in Runs
  PROVE  Proposed(r)'
<1>0. TypeOK /\ Proposed(r)
  BY DEF Inv, FilesInvariant
<1>1. ASSUME NEW s \in Runs, RunStep(s) PROVE Proposed(r)'
  <2>1. runStatus'[r] \in {"absent", "prepared"} => changes'[r] = NoChanges
    BY <1>0, <1>1, RunStepIs DEF Proposed
  <2>2. ASSUME runStatus'[r] = "awaiting_review", base'[r] = active', ~ InWriting'
        PROVE  Fits(r, tree[gitCommit[active]])' \/ Rejecting(r)'
    <3>1. active' = active /\ UNCHANGED <<requests, gitCommit, git>>
      BY <1>1, RunStepIs
    <3>2. ~ InWriting /\ files = tree[gitCommit[active]]
      BY <2>2, <3>1, AtRestNothingMoves
    <3>3. CASE /\ runStatus'[r] \in {runStatus[r], "cancelled"} /\ base'[r] = base[r]
               /\ changes'[r] = changes[r] /\ workspace'[r] = workspace[r]
      BY <1>0, <2>2, <3>1, <3>2, <3>3 DEF Proposed, Fits, Rejecting
    <3>4. CASE runStatus[r] = "prepared" /\ changes'[r] = changes[r]
      BY <1>0, <3>4 DEF Proposed, Fits, NoChanges
    <3>5. CASE changes'[r] = ChangesTo(workspace'[r])
      BY <3>1, <3>2, <3>5 DEF ChangesTo, Fits
    <3> QED BY <1>1, <2>2, <3>3, <3>4, <3>5, RunStepIs
  <2> QED BY <2>1, <2>2 DEF Proposed
<1>2. ASSUME NEW q \in Requests,
             \/ q \in Reviews /\ (BeginReview(q) \/ ReviewStep(q))
             \/ q \in Edits /\ (LockForEdit(q) \/ EditStep(q))
      PROVE  Proposed(r)'
  <2>0. /\ changes' = changes /\ base' = base
        /\ \/ runStatus'[r] \in Verdicts \cup {"cancelled"}
           \/ /\ runStatus'[r] = runStatus[r]
              /\ workspace'[r] = workspace[r] \/ Rejecting(r)'
    BY <1>2, RequestsLeaveProposals
  <2>1. ASSUME runStatus'[r] = "awaiting_review", base'[r] = active', ~ InWriting'
        PROVE  Fits(r, tree[gitCommit[active]])' \/ Rejecting(r)'
    <3>1. ~ InWriting /\ UNCHANGED <<active, gitCommit, git>>
      BY <2>0, <2>1, AtRestNothingMoves
    <3>2. CASE Rejecting(r)
      BY <2>1, <3>2, RejectingStays
    <3>3. CASE Fits(r, tree[gitCommit[active]])
      BY <2>0, <2>1, <3>1, <3>3 DEF Fits
    <3> QED BY <1>0, <2>0, <2>1, <3>1, <3>2, <3>3 DEF Proposed
  <2> QED BY <1>0, <2>0, <2>1 DEF Proposed
<1> QED BY <1>1, <1>2, OnlyMemoryFails, IdsAreApart DEF Next

\* A review enters completed by a publication.
LEMMA WhoAccepts ==
  ASSUME MemoryFaults, Inv, FilesInvariant, Next, NEW v \in Reviews, pc'[v] = "completed"
  PROVE  \/ Publish(v)
         \/ UNCHANGED <<pc[v], target[v], recorded[v]>>
<1> USE DEF Goto
<1>0. TypeOK /\ v \in Requests /\ v \notin Edits
  BY IdsAreApart DEF Inv
<1>1. ASSUME BeginReview(v) \/ ReviewStep(v), ~ Publish(v) PROVE FALSE
  <2>1. CASE MemoryFails(v) \/ RememberFails(v) \/ MissingFile(v)
    BY <1>0, <2>1, AbortIs DEF MemoryFails, MemoryHangs, RememberFails, MissingFile
  <2>2. CASE Cleanup(v) \/ UndoGitFails(v) \/ UndoDataset(v)
    BY <1>0, <2>2, FinishIs DEF Cleanup, UndoGitFails, UndoDataset
  <2>3. CASE \/ BeginReview(v) \/ LockForReject(v) \/ LockForAccept(v) \/ Remember(v)
             \/ MemoryHangs(v) \/ CommitAccept(v) \/ CommitVerdict(v) \/ UndoGit(v)
    BY <1>0, <2>3 DEF MemoryHangs, BeginReview, LockRun, LockForReject, LockForAccept, AcceptPoint,
       Remember, CommitAccept, CommitVerdict, UndoGit, TypeOK
  <2> QED BY <1>0, <1>1, <2>1, <2>2, <2>3, OnlyMemoryFails DEF ReviewStep
<1> QED BY <1>0, <1>1, WhoSteps, OneRequestMoves

\* A proposal that awaits its review, or is decided, is not changed.
LEMMA ProposalsStay ==
  ASSUME MemoryFaults, Inv, FilesInvariant, Next, NEW r \in Runs,
         runStatus[r] = "awaiting_review" \/ result[r] # None
  PROVE  changes'[r] = changes[r] /\ base'[r] = base[r] /\ base[r] \in exists
<1>0. /\ runStatus[r] \in {"awaiting_review", "completed", "failed", "cancelled"}
      /\ "worker" \notin writers[r]
  BY DEF Inv, RequestInvariant, RunInvariant, CompletedRunsArePublished
<1>1. base[r] \in exists
  BY <1>0 DEF Inv, RequestInvariant, RunInvariant
<1>2. ASSUME NEW s \in Runs, RunStep(s) PROVE changes'[r] = changes[r] /\ base'[r] = base[r]
  BY <1>0, <1>2, RunStepIs
<1>3. ASSUME NEW q \in Requests,
             \/ q \in Reviews /\ (BeginReview(q) \/ ReviewStep(q))
             \/ q \in Edits /\ (LockForEdit(q) \/ EditStep(q))
      PROVE  changes'[r] = changes[r] /\ base'[r] = base[r]
  BY <1>3, RequestsLeaveProposals
<1> QED BY <1>1, <1>2, <1>3, OnlyMemoryFails, IdsAreApart DEF Next

\* The files of a commit that a revision names, or that a publication has recorded,
\* are never written again.
LEMMA CommitsStay ==
  ASSUME MemoryFaults, Inv, FilesInvariant, Next, NEW i \in exists
  PROVE  gitCommit'[i] = gitCommit[i] /\ tree'[gitCommit[i]] = tree[gitCommit[i]]
<1>1. TypeOK /\ Requests \subseteq Revisions
  BY IdsAreApart DEF Inv
<1>2. ASSUME NEW q \in Requests, q \notin exists, Commits(q)
      PROVE  tree'[gitCommit[i]] = tree[gitCommit[i]]
  <2>1. gitCommit[i] # q /\ gitCommit[i] \in Revisions
    BY <1>1, <1>2 DEF FilesInvariant, Kept, TypeOK
  <2> QED BY <1>1, <1>2, <2>1 DEF Commits, TypeOK
<1> QED BY <1>2, WhoCommits, RowsAreKept

\* What is published differs from the base in the reviewed paths.
LEMMA AcceptedIsKept ==
  ASSUME MemoryFaults, Inv, FilesInvariant, Next, NEW v \in Reviews
  PROVE  Accepted(v)'
<1> SUFFICES ASSUME pc'[v] = "completed" PROVE Accepted(v)'
  BY DEF Accepted
<1>0. TypeOK /\ v \in Requests /\ v \in Revisions
  BY IdsAreApart DEF Inv
<1>1. CASE Publish(v)
  <2>1. /\ target[v] \in Runs /\ head = gitCommit[active] /\ files = tree[head]
        /\ base[target[v]] = active /\ gitCommit[active] # v
        /\ Fits(target[v], files) /\ pc[v] = "publish"
    BY <1>1, PublishFits DEF Publish, Goto
  <2>2. UNCHANGED <<target, runs, revisions>>
    BY <1>1 DEF Publish
  <2>3. gitCommit[active] \in Revisions
    BY <1>0 DEF TypeOK
  <2>4. CASE ChangedPaths(target[v]) = {}
    <3>1. recorded'[v] = head /\ UNCHANGED git
      BY <1>0, <1>1, <2>4 DEF Publish, TypeOK
    <3> QED BY <2>1, <2>2, <2>4, <3>1 DEF Accepted, Changed, ChangedPaths
  <2>5. CASE ChangedPaths(target[v]) # {}
    <3>1. /\ recorded'[v] = v /\ head' = v /\ files' = Published(target[v])
          /\ \A c \in Revisions \ {v} : tree'[c] = tree[c]
      BY <1>0, <1>1, <2>5 DEF Publish, CommitAndPush, CommitFiles, TypeOK
    <3>2. files' = tree'[v]
      BY <3>1, SyncedIsKept DEF Synced
    <3>3. tree'[v] = Published(target[v]) /\ tree'[gitCommit[active]] = files
      BY <2>1, <2>3, <3>1, <3>2
    <3>4. Changed(target[v], files, Published(target[v]))
      BY <2>1 DEF Changed, Published, ChangedPaths, Fits
    <3> QED BY <2>1, <2>2, <3>1, <3>3, <3>4 DEF Accepted, Changed, ChangedPaths
  <2> QED BY <2>4, <2>5
<1>2. CASE UNCHANGED <<pc[v], target[v], recorded[v]>> /\ ~ Publish(v)
  <2>1. /\ pc[v] = "completed" /\ target[v] \in Runs
        /\ Changed(target[v], tree[gitCommit[base[target[v]]]], tree[recorded[v]])
    BY <1>0, <1>2 DEF FilesInvariant, Accepted, TypeOK
  <2>2. runStatus[target[v]] = "awaiting_review"
    BY <2>1 DEF Inv, RequestInvariant, ReviewInvariant
  <2>3. /\ changes'[target[v]] = changes[target[v]]
        /\ base'[target[v]] = base[target[v]] /\ base[target[v]] \in exists
    BY <2>1, <2>2, ProposalsStay
  <2>4. \A q \in Requests : ~ Commits(q)
    <3>1. ASSUME NEW q \in Requests, Commits(q) PROVE FALSE
      <4>1. q = v
        BY <1>0, <2>1, <3>1, OneWriter DEF Commits, Wrote
      <4> QED BY <2>1, <3>1, <4>1 DEF Commits
    <3> QED BY <3>1
  <2>5. UNCHANGED git
    BY <2>4, WhoCommits
  <2>6. gitCommit'[base[target[v]]] = gitCommit[base[target[v]]]
    BY <2>3, RowsAreKept
  <2> QED BY <1>2, <2>1, <2>3, <2>5, <2>6 DEF Accepted, Changed, ChangedPaths
<1> QED BY <1>1, <1>2, WhoAccepts

\* A run shows its result from the commit of its review on.
LEMMA ShownIsKept ==
  ASSUME MemoryFaults, Inv, FilesInvariant, Next, NEW r \in Runs
  PROVE  Shown(r)'
<1> SUFFICES ASSUME result'[r] # None PROVE Shown(r)'
  BY DEF Shown
<1>0. TypeOK
  BY DEF Inv
<1>1. ASSUME NEW v \in Reviews, CommitAccept(v), target[v] = r PROVE Shown(r)'
  <2>1. /\ pc[v] = "completed" /\ v \in Revisions /\ v \notin exists
        /\ runStatus[r] = "awaiting_review" /\ r \in Runs
    BY <1>1, IdsAreApart DEF CommitAccept, Goto, Inv, RequestInvariant, ReviewInvariant
  <2>2. /\ result'[r] = v /\ gitCommit'[v] = recorded[v] /\ UNCHANGED git
    BY <1>0, <1>1, <2>1 DEF CommitAccept, ApplyAccept, InsertRevision, TypeOK
  <2>3. /\ changes'[r] = changes[r] /\ base'[r] = base[r] /\ base[r] \in exists
    BY <2>1, ProposalsStay
  <2>4. gitCommit'[base[r]] = gitCommit[base[r]]
    BY <2>3, RowsAreKept
  <2>5. Changed(r, tree[gitCommit[base[r]]], tree[recorded[v]])
    BY <1>1, <2>1 DEF FilesInvariant, Accepted
  <2> QED BY <2>2, <2>3, <2>4, <2>5 DEF Shown, Changed, ChangedPaths
<1>2. CASE result'[r] = result[r]
  <2>1. /\ result[r] # None /\ result[r] \in exists
        /\ Changed(r, tree[gitCommit[base[r]]], tree[gitCommit[result[r]]])
    BY <1>2 DEF Inv, CompletedRunsArePublished, FilesInvariant, Shown
  <2>2. /\ changes'[r] = changes[r] /\ base'[r] = base[r] /\ base[r] \in exists
    BY <2>1, ProposalsStay
  <2>3. \A i \in exists : /\ gitCommit'[i] = gitCommit[i]
                          /\ tree'[gitCommit[i]] = tree[gitCommit[i]]
    BY CommitsStay
  <2> QED BY <1>2, <2>1, <2>2, <2>3 DEF Shown, Changed, ChangedPaths
<1>3. result'[r] = result[r] \/ \E v \in Reviews : CommitAccept(v) /\ target[v] = r
  <2>1. ASSUME NEW s \in Runs, RunStep(s) PROVE result' = result
    BY <2>1, RunStepIs
  <2>2. ASSUME NEW v \in Reviews, CommitAccept(v), target[v] # r PROVE result'[r] = result[r]
    BY <1>0, <2>2 DEF CommitAccept, ApplyAccept, TypeOK
  <2>3. ASSUME NEW v \in Reviews, BeginReview(v) \/ ReviewStep(v), ~ CommitAccept(v)
        PROVE  result' = result
    BY <2>3, OnlyMemoryFails, IdsAreApart DEF BeginReview, LockRun, ReviewStep, LockForReject,
       LockForAccept, Remember, MemoryFails, MemoryHangs, RememberFails, Publish, MissingFile,
       CommitVerdict, Cleanup, UndoGit, UndoGitFails, UndoDataset, Abort
  <2>4. ASSUME NEW e \in Edits, LockForEdit(e) \/ EditStep(e) PROVE result' = result
    BY <2>4, OnlyMemoryFails, IdsAreApart DEF LockForEdit, EditStep, SaveFile, RecordRevision,
       CommitEdit
  <2> QED BY <2>1, <2>2, <2>3, <2>4, OnlyMemoryFails DEF Next
<1> QED BY <1>1, <1>2, <1>3

\* All of it together.
LEMMA FilesInvariantHolds ==
  ASSUME MemoryFaults
  PROVE  Spec => []FilesInvariant
<1>1. Init => FilesInvariant
  <2> SUFFICES ASSUME Init PROVE FilesInvariant
    OBVIOUS
  <2>1. Synced /\ AtRest
    BY DEF Init, Synced, AtRest, Revisions
  <2>2. \A q \in Requests : Kept(q)
    BY IdsAreApart DEF Init, Kept, Wrote, Revisions
  <2>3. (\A r \in Runs : Proposed(r)) /\ \A v \in Reviews : Accepted(v)
    BY IdsAreApart DEF Init, Proposed, Accepted
  <2>4. \A r \in Runs : Shown(r)
    BY DEF Init, Shown
  <2> QED BY <2>1, <2>2, <2>3, <2>4 DEF FilesInvariant
<1>2. Inv /\ FilesInvariant /\ [Next]_vars => FilesInvariant'
  <2> SUFFICES ASSUME Inv, FilesInvariant, [Next]_vars PROVE FilesInvariant'
    OBVIOUS
  <2>1. CASE UNCHANGED vars
    BY <2>1 DEF FilesInvariant, Synced, AtRest, InWriting, Kept, Decided, Proposed, Fits, Rejecting,
       Accepted, Shown, Changed, ChangedPaths
  <2>2. CASE Next
    BY <2>2, SyncedIsKept, KeptIsKept, ProposedIsKept, AcceptedIsKept, ShownIsKept
    DEF FilesInvariant
  <2> QED BY <2>1, <2>2
<1> QED BY <1>1, <1>2, InvIsInvariant, PTL DEF Spec

\* While nobody publishes, the branches, the index and the working files are those of
\* the revision the database shows, if only the memory service fails: the row of the
\* project is locked from the first write to the commit of the transaction, and a change
\* set that can still be accepted fits the files (routers/agent.py:298-372,
\* routers/project_files.py:65-114).
THEOREM FilesFollowTheDatabase ==
  ASSUME MemoryFaults
  PROVE  Spec => []ProjectShowsActiveRevision
<1>1. Inv /\ FilesInvariant => ProjectShowsActiveRevision
  <2> SUFFICES ASSUME Inv, FilesInvariant, Quiet
               PROVE  /\ head = gitCommit[active] /\ remote = head
                      /\ index = tree[head] /\ files = tree[head]
    BY DEF ProjectShowsActiveRevision
  <2>1. ~ InWriting
    BY OneWriter, IdsAreApart DEF InWriting, Quiet
  <2> QED BY <2>1 DEF FilesInvariant, AtRest, Synced
<1> QED BY <1>1, InvIsInvariant, FilesInvariantHolds, PTL

\* The revision of an accepted run differs from the revision it was prepared for in the
\* reviewed paths only, though the worker compares its candidate with working files it
\* reads without the lock: a candidate compared with the files of a writer is based on
\* a revision that is superseded when the writer commits, so it is never accepted.
THEOREM ReviewedChangeIsPublished ==
  ASSUME MemoryFaults
  PROVE  Spec => []RevisionIsReviewedChange
<1>1. FilesInvariant => RevisionIsReviewedChange
  BY DEF FilesInvariant, Shown, Changed, RevisionIsReviewedChange
<1> QED BY <1>1, FilesInvariantHolds, PTL

=============================================================================
