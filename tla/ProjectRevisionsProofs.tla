----------------------- MODULE ProjectRevisionsProofs -----------------------
(***************************************************************************)
(* Theorems about ProjectRevisions, for any set of files, runs, reviews    *)
(* and edits and any faults: type correctness, the invariant the row locks *)
(* give, the line of revisions, and that ProjectRevisions implements       *)
(* Publication.                                                            *)
(***************************************************************************)
EXTENDS ProjectRevisions, TLAPS

USE DEF vars, revisions, runs, git, locks, requests

-----------------------------------------------------------------------------
(* Types. *)

\* A step of a run keeps the types.
LEMMA RunStepTypeOK ==
  ASSUME TypeOK, NEW r \in Runs, RunStep(r)
  PROVE  TypeOK'
<1> USE DEF TypeOK, RunStatuses, Verdicts, Requests, Revisions, SetStatus, MoveRun,
            Propose, ChangesTo
<1>1. CASE Prepare(r)
  BY <1>1 DEF Prepare
<1>2. CASE StartRun(r)
  BY <1>2 DEF StartRun
<1>3. ASSUME NEW i \in Revisions, ProposeRestore(r, i) PROVE TypeOK'
  BY <1>3 DEF ProposeRestore
<1>4. CASE ProposeKnowledge(r)
  BY <1>4 DEF ProposeKnowledge
<1>5. CASE CopyProject(r)
  BY <1>5 DEF CopyProject
<1>6. CASE FinishRun(r)
  <2>1. PICK written \in SUBSET Paths : Propose(r, Candidate(r, written))
    BY <1>6 DEF FinishRun
  <2>2. Candidate(r, written) \in Trees
    BY DEF Candidate, Trees, Contents
  <2>3. faults' \in 0..MaxFaults
    BY <1>6, FaultsAssumption DEF FinishRun, FaultHappens
  <2>4. writers' \in [Runs -> SUBSET {"worker", "cancel", "event", "failure"}]
    <3>1. \E some \in SUBSET {"worker", "cancel", "event", "failure"} :
            writers' = [writers EXCEPT ![r] = some]
      BY <1>6 DEF FinishRun
    <3> QED BY <3>1
  <2> QED BY <2>1, <2>2, <2>3, <2>4
<1>7. CASE FailRun(r)
  BY <1>7 DEF FailRun, NoFiles, Trees, Contents
<1>8. CASE DeleteLate(r)
  BY <1>8 DEF DeleteLate, NoFiles, Trees, Contents
<1>9. CASE FailLate(r) \/ CommitCancel(r)
  <2>1. writers' \in [Runs -> SUBSET {"worker", "cancel", "event", "failure"}]
    <3>1. \E some \in SUBSET {"worker", "cancel", "event", "failure"} :
            writers' = [writers EXCEPT ![r] = some]
      BY <1>9 DEF FailLate, CommitCancel
    <3> QED BY <3>1
  <2>2. /\ runStatus' \in [Runs -> RunStatuses]
        /\ UNCHANGED <<revisions, base, result, git, datasets, locks, requests, changes,
                       workspace, faults>>
    BY <1>9 DEF FailLate, CommitCancel
  <2> QED BY <2>1, <2>2
<1>10. CASE ReadToCancel(r)
  BY <1>10, FaultsAssumption DEF ReadToCancel, FaultHappens
<1> QED BY <1>1, <1>2, <1>3, <1>4, <1>5, <1>6, <1>7, <1>8, <1>9, <1>10 DEF RunStep

\* What the ends of a request leave.
LEMMA AbortTypeOK ==
  ASSUME TypeOK, NEW q \in Requests, Abort(q)
  PROVE  /\ projectLock' \in Requests \cup {None}
         /\ runLock' \in [Runs -> Reviews \cup {None}]
         /\ pc' \in [Requests -> Points]
         /\ target' \in [Requests -> Runs \cup {None}]
         /\ recorded' \in [Requests -> Revisions]
         /\ undo' \in [Requests -> SUBSET {"git", "dataset"}]
         /\ pc[q] \notin {"new", "done"} =>
              \A v \in Reviews : pc'[v] \notin {"new", "done"} => target'[v] \in Runs
<1> USE DEF Abort, Release, Finish, TypeOK
<1>1. /\ projectLock' \in Requests \cup {None}
      /\ runLock' \in [Runs -> Reviews \cup {None}]
  OBVIOUS
<1>2. /\ pc' \in [Requests -> Points]
      /\ target' \in [Requests -> Runs \cup {None}]
      /\ undo' \in [Requests -> SUBSET {"git", "dataset"}]
  BY ZenonT(40) DEF Points
<1>3. recorded' \in [Requests -> Revisions]
  BY DEF Revisions
<1>4. ASSUME pc[q] \notin {"new", "done"}, NEW v \in Reviews,
             pc'[v] \notin {"new", "done"}
      PROVE  target'[v] \in Runs
  BY <1>4 DEF Requests
<1> QED BY <1>1, <1>2, <1>3, <1>4

\* A fault stays within the bound on faults.
LEMMA FaultTypeOK ==
  ASSUME TypeOK, NEW kind, FaultHappens(kind)
  PROVE  faults' \in 0..MaxFaults
BY FaultsAssumption DEF FaultHappens, TypeOK

\* Files written over the project's make a tree.
LEMMA FilesTypeOK ==
  ASSUME TypeOK, NEW paths, NEW new \in Trees
  PROVE  Staged(paths, new) \in Trees
BY DEF Staged, Trees, TypeOK

\* What a run publishes is a tree.
LEMMA PublishedTypeOK ==
  ASSUME TypeOK, NEW r \in Runs
  PROVE  Published(r) \in Trees
BY DEF Published, Trees, Contents, TypeOK

\* Committing files keeps the types of the repository.
LEMMA CommitFilesTypeOK ==
  ASSUME TypeOK, NEW q \in Requests, NEW paths, NEW new \in Trees,
         CommitFiles(q, paths, new)
  PROVE  /\ files' \in Trees /\ index' \in Trees /\ head' \in Revisions
         /\ tree' \in [Revisions -> Trees]
         /\ past' \in [Revisions -> SUBSET Revisions]
<1>1. index' \in Trees
  BY FilesTypeOK DEF CommitFiles
<1> QED BY <1>1 DEF CommitFiles, TypeOK, Revisions

\* A step of a review keeps the types.
LEMMA ReviewStepTypeOK ==
  ASSUME TypeOK, NEW v \in Reviews, ReviewStep(v)
  PROVE  TypeOK'
<1> USE DEF Requests, Goto
<1>0. v \in Requests /\ Requests \subseteq Revisions
  BY DEF Revisions
<1>1. CASE LockForReject(v)
  BY <1>0, <1>1 DEF TypeOK, LockForReject, Take, NoFiles, Trees, Contents,
     Points, Locked, Verdicts
<1>2. CASE LockForAccept(v)
  BY <1>0, <1>2 DEF TypeOK, LockForAccept, Take, AcceptPoint, Points, Locked,
     Verdicts
<1>3. CASE Remember(v)
  BY <1>0, <1>3 DEF TypeOK, Remember, Points, Locked
<1>4. CASE MemoryFails(v)
  BY <1>0, <1>4, AbortTypeOK, FaultTypeOK DEF TypeOK, MemoryFails, MemoryHangs, Abort
<1>5. CASE RememberFails(v)
  BY <1>0, <1>5, AbortTypeOK, FaultTypeOK DEF TypeOK, RememberFails, Abort
<1>19. CASE MemoryHangs(v)
  BY <1>0, <1>19, FaultTypeOK DEF TypeOK, MemoryHangs, Points, Locked
<1>6. CASE Publish(v)
  <2>1. target[v] \in Runs
    BY <1>6 DEF TypeOK, Publish
  <2>2. CASE ChangedPaths(target[v]) = {}
    BY <1>0, <1>6, <2>2, ZenonT(40) DEF TypeOK, Publish, Points, Locked, Verdicts
  <2>3. CASE ChangedPaths(target[v]) # {}
    <3>1. /\ CommitFiles(v, ChangedPaths(target[v]), Published(target[v]))
          /\ remote' = v
      BY <1>6, <2>3 DEF Publish, CommitAndPush
    <3>2. /\ files' \in Trees /\ index' \in Trees /\ head' \in Revisions
          /\ tree' \in [Revisions -> Trees]
          /\ past' \in [Revisions -> SUBSET Revisions]
      BY <1>0, <2>1, <3>1, PublishedTypeOK, CommitFilesTypeOK
    <3>3. /\ recorded' = [recorded EXCEPT ![v] = v]
          /\ undo' = [undo EXCEPT ![v] = @ \cup {"git"}]
          /\ pc' = [pc EXCEPT ![v] = "completed"]
          /\ UNCHANGED <<revisions, runs, datasets, locks, target, current, faults>>
      BY <1>6, <2>3 DEF Publish
    <3> QED BY <1>0, <2>1, <3>1, <3>2, <3>3 DEF TypeOK, Points, Locked, Verdicts
  <2> QED BY <2>2, <2>3
<1>7. CASE MissingFile(v)
  <2>1. files' \in Trees
    BY <1>7 DEF TypeOK, MissingFile, Trees, Contents
  <2> QED BY <1>0, <1>7, <2>1, AbortTypeOK DEF TypeOK, MissingFile, Abort
<1>8. CASE CommitFails(v)
  <2>1. index' \in Trees
    BY <1>8, FilesTypeOK, PublishedTypeOK DEF TypeOK, CommitFails
  <2> QED BY <1>0, <1>8, <2>1, AbortTypeOK, FaultTypeOK DEF TypeOK, CommitFails, Abort
<1>9. CASE PushFails(v)
  <2>1. index' \in Trees
    BY <1>9, FilesTypeOK, PublishedTypeOK DEF TypeOK, PushFails
  <2>2. /\ tree' \in [Revisions -> Trees]
        /\ past' \in [Revisions -> SUBSET Revisions]
        /\ head' \in Revisions
    BY <1>0, <1>9, <2>1 DEF TypeOK, PushFails
  <2> QED BY <1>0, <1>9, <2>1, <2>2, AbortTypeOK, FaultTypeOK
          DEF TypeOK, PushFails, Abort
<1>10. ASSUME pc[v] = "completed", ApplyAccept(v), Goto(v, "completed", "cleanup")
              \/ Goto(v, "completed", "undo"), UNCHANGED undo,
              faults' \in 0..MaxFaults
       PROVE  TypeOK'
  <2>1. target[v] \in Runs
    BY <1>10 DEF TypeOK
  <2>2. /\ exists' \subseteq Revisions /\ active' \in Revisions
        /\ parent' \in [Revisions -> Revisions \cup {None}]
        /\ gitCommit' \in [Revisions -> Revisions]
        /\ dataset' \in [Revisions -> Revisions]
        /\ activeRows' \subseteq Revisions
    BY <1>0, <1>10, <2>1 DEF TypeOK, ApplyAccept, InsertRevision
  <2>3. /\ runStatus' \in [Runs -> RunStatuses]
        /\ result' \in [Runs -> Revisions \cup {None}]
    BY <1>0, <1>10, <2>1 DEF TypeOK, ApplyAccept, RunStatuses, Verdicts
  <2>4. /\ projectLock' \in Requests \cup {None}
        /\ runLock' \in [Runs -> Reviews \cup {None}]
    BY <1>10 DEF TypeOK, ApplyAccept, Release
  <2>5. /\ pc' \in [Requests -> Points]
        /\ \A x \in Reviews : pc'[x] \notin {"new", "done"} => target'[x] \in Runs
    BY <1>10, <2>1 DEF TypeOK, ApplyAccept, Points
  <2> QED BY <1>10, <2>2, <2>3, <2>4, <2>5 DEF TypeOK, ApplyAccept
<1>11. CASE CommitAccept(v)
  BY <1>10, <1>11 DEF CommitAccept, TypeOK
<1>12. CASE AnswerLost(v)
  BY <1>10, <1>12, FaultTypeOK DEF AnswerLost
<1>13. CASE CommitVerdict(v)
  <2>1. target[v] \in Runs
    BY <1>13 DEF TypeOK, CommitVerdict
  <2> QED BY <1>0, <1>13, <2>1 DEF TypeOK, CommitVerdict, Release, RunStatuses,
             Verdicts, Points
<1>14. CASE Cleanup(v)
  BY <1>0, <1>14 DEF TypeOK, Cleanup, Finish, NoFiles, Trees, Contents, Points,
     Revisions
<1>15. CASE UndoGit(v)
  <2>1. gitCommit[base[target[v]]] \in Revisions
    BY <1>15 DEF TypeOK, UndoGit
  <2>2. files' \in Trees
    BY <1>15, <2>1 DEF TypeOK, UndoGit, ResetTo, Trees
  <2> QED BY <1>0, <1>15, <2>1, <2>2 DEF TypeOK, UndoGit, ResetTo
<1>16. CASE UndoGitFails(v)
  BY <1>0, <1>16 DEF TypeOK, UndoGitFails, Finish, Points, Revisions
<1>17. CASE UndoDataset(v)
  <2>1. faults' \in 0..MaxFaults
    BY <1>17, FaultTypeOK DEF TypeOK, UndoDataset
  <2> QED BY <1>0, <1>17, <2>1 DEF TypeOK, UndoDataset, Finish, Points, Revisions
<1>18. CASE TransactionFails(v)
  BY <1>0, <1>18, AbortTypeOK, FaultTypeOK DEF TypeOK, TransactionFails, Abort,
     Verdicts
<1> QED BY <1>1, <1>2, <1>3, <1>4, <1>5, <1>6, <1>7, <1>8, <1>9, <1>11, <1>12,
           <1>13, <1>14, <1>15, <1>16, <1>17, <1>18, <1>19 DEF ReviewStep

\* A step of a direct edit keeps the types.
LEMMA EditStepTypeOK ==
  ASSUME TypeOK, NEW e \in Edits, LockForEdit(e) \/ EditStep(e)
  PROVE  TypeOK'
<1> USE IdsAssumption DEF Requests, Goto
<1>0. e \in Requests /\ e \notin Reviews /\ Requests \subseteq Revisions
  BY DEF Revisions
<1>1. CASE LockForEdit(e)
  BY <1>0, <1>1 DEF TypeOK, LockForEdit, Take, Points, Locked
<1>2. CASE SaveFile(e)
  <2>1. PICK new \in Trees : CommitAndPush(e, Touched(new), new)
    BY <1>2 DEF SaveFile
  <2>2. /\ files' \in Trees /\ index' \in Trees /\ head' \in Revisions
        /\ tree' \in [Revisions -> Trees]
        /\ past' \in [Revisions -> SUBSET Revisions]
        /\ remote' \in Revisions
    BY <1>0, <2>1, CommitFilesTypeOK DEF CommitAndPush
  <2> QED BY <1>0, <1>2, <2>2 DEF TypeOK, SaveFile, Points, Locked
<1>3. CASE SaveFails(e)
  <2>1. PICK new \in Trees :
          \/ /\ FaultHappens("git")
             /\ files' = new
             /\ index' = Staged(Touched(new), new)
             /\ UNCHANGED <<head, tree, past>>
          \/ /\ FaultHappens("push")
             /\ CommitFiles(e, Touched(new), new)
    BY <1>3 DEF SaveFails
  <2>2. /\ files' \in Trees /\ index' \in Trees /\ head' \in Revisions
        /\ tree' \in [Revisions -> Trees]
        /\ past' \in [Revisions -> SUBSET Revisions]
        /\ faults' \in 0..MaxFaults
    BY <1>0, <2>1, CommitFilesTypeOK, FilesTypeOK, FaultTypeOK DEF TypeOK
  <2> QED BY <1>0, <1>3, <2>2, AbortTypeOK DEF TypeOK, SaveFails, Abort
<1>4. CASE RecordRevision(e)
  BY <1>0, <1>4 DEF TypeOK, RecordRevision, Points, Locked
<1>5. CASE CommitEdit(e)
  BY <1>0, <1>5 DEF TypeOK, CommitEdit, InsertRevision, Release, Finish, Points,
     Revisions
<1>6. CASE TransactionFails(e)
  BY <1>0, <1>6, AbortTypeOK, FaultTypeOK DEF TypeOK, TransactionFails, Abort,
     Verdicts
<1> QED BY <1>1, <1>2, <1>3, <1>4, <1>5, <1>6 DEF EditStep

\* Beginning a review keeps the types.
LEMMA BeginReviewTypeOK ==
  ASSUME TypeOK, NEW v \in Reviews, BeginReview(v)
  PROVE  TypeOK'
<1>1. PICK r \in Runs, decision \in {"accept", "reject"} : LockRun(v, r, decision)
  BY DEF BeginReview
<1> QED BY <1>1 DEF TypeOK, LockRun, Goto, Points, Requests

\* A crash keeps the types.
LEMMA CrashTypeOK ==
  ASSUME TypeOK, Crash
  PROVE  TypeOK'
BY FaultTypeOK DEF TypeOK, Crash, RunStatuses, Points, Revisions, Requests

\* The initial states have the types.
LEMMA InitTypeOK == Init => TypeOK
BY FaultsAssumption DEF Init, TypeOK, NoFiles, NoChanges, Trees, Contents,
   Revisions, Requests, RunStatuses, Points

\* Every step keeps the types.
LEMMA NextTypeOK ==
  ASSUME TypeOK, Next
  PROVE  TypeOK'
BY RunStepTypeOK, BeginReviewTypeOK, ReviewStepTypeOK, EditStepTypeOK, CrashTypeOK
DEF Next

\* Every reachable state is well typed: heads, datasets and revisions are ids
\* that exist, and a review at work has a run.
THEOREM TypeCorrect == Spec => []TypeOK
<1>1. TypeOK /\ UNCHANGED vars => TypeOK'
  BY DEF TypeOK
<1>2. TypeOK /\ [Next]_vars => TypeOK'
  BY <1>1, NextTypeOK
<1> QED BY <1>2, InitTypeOK, PTL DEF Spec

-----------------------------------------------------------------------------
(* Locks. *)

USE DEF Locked, Verdicts, OnRun, Deciding, Editing, Over

\* Reviews, edits, the root and None are all different.
LEMMA IdsAreApart ==
  /\ Requests \subseteq Revisions /\ Reviews \subseteq Requests /\ Edits \subseteq Requests
  /\ Reviews \cap Edits = {}
  /\ \A q \in Requests : q # None /\ q # Root
  /\ \A i \in Revisions : i # None
BY IdsAssumption DEF Requests, Revisions

\* The request invariant at a review, an edit and a run.
Keeps(x, e, r) ==
  /\ x \in Reviews => ReviewInvariant(x)
  /\ e \in Edits => EditInvariant(e)
  /\ r \in Runs => RunInvariant(r)

\* What a step of review v must keep of another review x, edit e and run r.
LEMMA ReviewStepKeepsLocks ==
  ASSUME TypeOK, RequestInvariant, active \in exists, NEW v \in Reviews,
         BeginReview(v) \/ ReviewStep(v),
         NEW x, NEW e, NEW r
  PROVE  Keeps(x, e, r)'
<1> USE DEF Keeps, ReviewInvariant, EditInvariant, RunInvariant, Goto
<1>0. /\ ReviewInvariant(v) /\ Keeps(x, e, r)
      /\ v \in Requests /\ v \in Revisions /\ v # None
      /\ x \in Reviews => x \in Requests /\ x \notin Edits
      /\ e \in Edits => e \in Requests /\ e # v
  BY IdsAreApart DEF RequestInvariant
<1>1. CASE BeginReview(v)
  <2>1. PICK s \in Runs, decision \in {"accept", "reject"} : LockRun(v, s, decision)
    BY <1>1 DEF BeginReview
  <2> QED BY <1>0, <2>1, IdsAreApart DEF TypeOK, LockRun
<1>2. CASE LockForReject(v)
  BY <1>0, <1>2, IdsAreApart DEF TypeOK, LockForReject, Take
<1>3. CASE LockForAccept(v)
  BY <1>0, <1>3, IdsAreApart DEF TypeOK, LockForAccept, Take, AcceptPoint
<1>4. CASE Remember(v)
  BY <1>0, <1>4 DEF TypeOK, Remember
<1>14. CASE MemoryHangs(v)
  BY <1>0, <1>14 DEF TypeOK, MemoryHangs
<1>5. CASE Publish(v)
  <2>1. e \in Edits => undo'[e] = undo[e]
    BY <1>0, <1>5 DEF TypeOK, Publish
  <2> QED BY <1>0, <1>5, <2>1 DEF TypeOK, Publish
<1>6. ASSUME pc[v] \in Deciding \cup Verdicts, Abort(v) PROVE Keeps(x, e, r)'
  BY <1>0, <1>6 DEF TypeOK, Abort, Release, Finish
<1>7. CASE \/ MemoryFails(v) \/ RememberFails(v) \/ MissingFile(v)
           \/ CommitFails(v) \/ PushFails(v)
  BY <1>6, <1>7 DEF MemoryFails, MemoryHangs, RememberFails, MissingFile, CommitFails, PushFails
<1>8. CASE TransactionFails(v)
  BY <1>0, <1>6, <1>8 DEF TransactionFails
<1>9. ASSUME ApplyAccept(v), UNCHANGED undo,
             Goto(v, "completed", "cleanup") \/ Goto(v, "completed", "undo")
      PROVE  Keeps(x, e, r)'
  <2> USE <1>0, <1>9 DEF TypeOK, ApplyAccept, InsertRevision, Release
  <2>1. x \in Reviews => ReviewInvariant(x)'
    OBVIOUS
  <2>2. e \in Edits => EditInvariant(e)'
    OBVIOUS
  <2>3. r \in Runs => RunInvariant(r)'
    OBVIOUS
  <2> QED BY <2>1, <2>2, <2>3
<1>10. CASE CommitAccept(v) \/ AnswerLost(v)
  BY <1>9, <1>10 DEF CommitAccept, AnswerLost
<1>11. CASE CommitVerdict(v)
  BY <1>0, <1>11 DEF TypeOK, CommitVerdict, Release
<1>12. CASE UndoGit(v)
  BY <1>0, <1>12 DEF TypeOK, UndoGit
<1>13. CASE Cleanup(v) \/ UndoGitFails(v) \/ UndoDataset(v)
  BY <1>0, <1>13 DEF TypeOK, Cleanup, UndoGitFails, UndoDataset, Finish
<1> QED
  BY <1>1, <1>2, <1>3, <1>4, <1>5, <1>7, <1>8, <1>10, <1>11, <1>12, <1>13, <1>14
  DEF ReviewStep

\* The same for a step of an edit.
LEMMA EditStepKeepsLocks ==
  ASSUME TypeOK, RequestInvariant, active \in exists, NEW d \in Edits,
         LockForEdit(d) \/ EditStep(d),
         NEW x, NEW e, NEW r
  PROVE  Keeps(x, e, r)'
<1> USE DEF Keeps, ReviewInvariant, EditInvariant, RunInvariant, Goto
<1>0. /\ EditInvariant(d) /\ Keeps(x, e, r)
      /\ d \in Requests /\ d \in Revisions /\ d # None
      /\ x \in Reviews => x \in Requests /\ x # d
      /\ e \in Edits => e \in Requests
  BY IdsAreApart DEF RequestInvariant
<1>1. CASE LockForEdit(d)
  BY <1>0, <1>1, IdsAreApart DEF TypeOK, LockForEdit, Take
<1>2. CASE SaveFile(d)
  BY <1>0, <1>2 DEF TypeOK, SaveFile
<1>3. CASE RecordRevision(d)
  BY <1>0, <1>3 DEF TypeOK, RecordRevision
<1>4. CASE SaveFails(d) \/ TransactionFails(d)
  <2>1. pc[d] \in Editing /\ Abort(d)
    BY <1>0, <1>4 DEF SaveFails, TransactionFails
  <2> QED BY <1>0, <2>1 DEF TypeOK, Abort, Release, Finish
<1>5. CASE CommitEdit(d)
  BY <1>0, <1>5 DEF TypeOK, CommitEdit, InsertRevision, Release, Finish
<1> QED BY <1>1, <1>2, <1>3, <1>4, <1>5 DEF EditStep

\* A step of a run writes no status that a review holds: a review waits or is
\* waited for.
LEMMA RunStepKeepsLocks ==
  ASSUME TypeOK, RequestInvariant, CompletedRunsArePublished, active \in exists,
         NEW s \in Runs, RunStep(s),
         NEW x, NEW e, NEW r
  PROVE  Keeps(x, e, r)'
<1> USE DEF Keeps, ReviewInvariant, EditInvariant, RunInvariant
<1>0. Keeps(x, e, r) /\ active # None /\ RunInvariant(s)
  BY IdsAreApart DEF RequestInvariant, TypeOK
<1>1. CASE Prepare(s)
  BY <1>0, <1>1, IdsAreApart DEF TypeOK, Prepare
<1>2. CASE StartRun(s) \/ ProposeKnowledge(s) \/ \E i \in Revisions : ProposeRestore(s, i)
  BY <1>0, <1>2, IdsAreApart DEF TypeOK, StartRun, ProposeKnowledge, ProposeRestore, Propose,
     MoveRun, SetStatus
<1>3. CASE CopyProject(s)
  <2>1. result[s] = None
    BY <1>3 DEF CopyProject, MoveRun, CompletedRunsArePublished
  <2> QED BY <1>0, <1>3, <2>1, IdsAreApart DEF TypeOK, CopyProject, MoveRun, SetStatus
<1>4. CASE FinishRun(s)
  <2>1. \/ writers' = [writers EXCEPT ![s] = @ \ {"worker"}]
        \/ /\ writers' = [writers EXCEPT ![s] = (@ \ {"worker"}) \cup {"event"}]
           /\ "event" \in FaultKinds
    BY <1>4 DEF FinishRun, FaultHappens
  <2>2. runStatus[s] \in {"running", "cancelled"} /\ SetStatus(s, "awaiting_review")
    BY <1>0, <1>4 DEF FinishRun, Propose
  <2> QED BY <1>0, <2>1, <2>2, IdsAreApart DEF TypeOK, SetStatus
<1>5. CASE FailRun(s)
  BY <1>0, <1>5, IdsAreApart DEF TypeOK, FailRun, SetStatus
<1>6. CASE DeleteLate(s)
  BY <1>0, <1>6, IdsAreApart DEF TypeOK, DeleteLate
<1>7. CASE FailLate(s)
  <2>1. /\ "failure" \in writers[s] /\ runLock[s] = None
        /\ writers' = [writers EXCEPT ![s] = @ \ {"failure"}]
        /\ runStatus' = [runStatus EXCEPT ![s] = "failed"]
        /\ UNCHANGED <<revisions, base, result, locks, requests>>
    BY <1>7 DEF FailLate, SetStatus
  <2>2. x \in Reviews => ReviewInvariant(x)'
    BY <1>0, <2>1, IdsAreApart DEF TypeOK
  <2>3. r \in Runs => RunInvariant(r)'
    BY <1>0, <2>1 DEF TypeOK
  <2> QED BY <1>0, <2>1, <2>2, <2>3
<1>8. CASE CommitCancel(s)
  BY <1>0, <1>8, IdsAreApart DEF TypeOK, CommitCancel, SetStatus
<1>9. CASE ReadToCancel(s)
  BY <1>0, <1>9, IdsAreApart DEF TypeOK, ReadToCancel, FaultHappens
<1> QED
  BY <1>1, <1>2, <1>3, <1>4, <1>5, <1>6, <1>7, <1>8, <1>9 DEF RunStep

\* A crash keeps what each request relies on.
LEMMA CrashKeepsLocks ==
  ASSUME TypeOK, RequestInvariant, Crash,
         NEW x, NEW e, NEW r
  PROVE  Keeps(x, e, r)'
<1> USE DEF RequestInvariant, Keeps, TypeOK, Crash
<1>1. x \in Reviews => ReviewInvariant(x)'
  BY IdsAreApart DEF ReviewInvariant
<1>2. e \in Edits => EditInvariant(e)'
  BY IdsAreApart DEF EditInvariant
<1>3. ASSUME r \in Runs PROVE RunInvariant(r)'
  <2>1. /\ writers'[r] = writers[r] \ {"cancel"} /\ UNCHANGED <<base, result, exists>>
        /\ runStatus'[r] = IF runStatus[r] = "prepared" THEN "absent" ELSE runStatus[r]
    BY <1>3
  <2> QED BY <1>3, <2>1 DEF RunInvariant
<1> QED BY <1>1, <1>2, <1>3

-----------------------------------------------------------------------------
(* The line of revisions and the results of runs. *)

\* Revisions change only in these two steps.
LEMMA WhoPublishes ==
  ASSUME TypeOK, Next,
         ~ \E v \in Reviews : pc[v] = "completed" /\ ApplyAccept(v),
         ~ \E e \in Edits : CommitEdit(e)
  PROVE  UNCHANGED revisions /\ result' = result
<1> USE DEF Goto
<1>1. ASSUME NEW r \in Runs, RunStep(r) PROVE UNCHANGED revisions /\ result' = result
  BY <1>1 DEF RunStep, Prepare, StartRun, ProposeRestore, ProposeKnowledge,
     CopyProject, FinishRun, FailRun, DeleteLate,
     FailLate, ReadToCancel, CommitCancel, SetStatus, MoveRun, Propose
<1>2. ASSUME NEW v \in Reviews, BeginReview(v) PROVE UNCHANGED revisions /\ result' = result
  BY <1>2 DEF BeginReview, LockRun
<1>3. ASSUME NEW v \in Reviews, ReviewStep(v) PROVE UNCHANGED revisions /\ result' = result
  BY <1>3 DEF ReviewStep, LockForReject, LockForAccept, Remember, MemoryFails, MemoryHangs,
     RememberFails, Publish, MissingFile, CommitFails, PushFails, CommitAccept,
     AnswerLost, CommitVerdict, Cleanup, UndoGit, UndoGitFails, UndoDataset,
     TransactionFails, Abort
<1>4. ASSUME NEW e \in Edits, LockForEdit(e) \/ EditStep(e)
      PROVE  UNCHANGED revisions /\ result' = result
  BY <1>4 DEF LockForEdit, EditStep, SaveFile, SaveFails, RecordRevision,
     TransactionFails, Abort
<1>5. CASE Crash
  BY <1>5 DEF Crash
<1> QED BY <1>1, <1>2, <1>3, <1>4, <1>5 DEF Next

\* A revision inserted on the active one by a request that has none keeps the
\* line.
LEMMA InsertKeepsLine ==
  ASSUME TypeOK, RevisionsFormALine, NEW q \in Requests, q \notin exists,
         NEW k \in Revisions, InsertRevision(q, active, k)
  PROVE  RevisionsFormALine'
<1> USE IdsAreApart DEF InsertRevision, RevisionsFormALine
<1>1. (activeRows = {active} /\ active \in exists /\ Root \in exists)'
  OBVIOUS
<1>2. parent'[q] = active /\ \A i \in exists : parent'[i] = parent[i]
  BY DEF TypeOK
<1>3. ASSUME NEW i \in exists' \ {Root} PROVE parent'[i] \in exists' \ {i, active'}
  BY <1>2
<1>4. ASSUME NEW i \in exists' \ {Root}, NEW j \in exists' \ {Root},
             parent'[i] = parent'[j]
      PROVE  i = j
  BY <1>2, <1>4
<1> QED BY <1>1, <1>3, <1>4

\* Every step keeps the revisions on one line.
LEMMA LineIsKept ==
  ASSUME TypeOK, RequestInvariant, RevisionsFormALine, Next
  PROVE  RevisionsFormALine'
<1>1. CASE \E v \in Reviews : pc[v] = "completed" /\ ApplyAccept(v)
  <2>1. PICK v \in Reviews : pc[v] = "completed" /\ ApplyAccept(v)
    BY <1>1
  <2>2. ReviewInvariant(v) /\ v \in Requests /\ v \in Revisions
    BY IdsAreApart DEF RequestInvariant
  <2>3. base[target[v]] = active /\ v \notin exists
    BY <2>1, <2>2 DEF ReviewInvariant
  <2> QED BY <2>1, <2>2, <2>3, InsertKeepsLine DEF ApplyAccept
<1>2. CASE \E e \in Edits : CommitEdit(e)
  <2>1. PICK e \in Edits : CommitEdit(e)
    BY <1>2
  <2>2. EditInvariant(e) /\ e \in Requests
    BY IdsAreApart DEF RequestInvariant
  <2>3. current[e] = active /\ e \notin exists /\ dataset[current[e]] \in Revisions
    BY <2>1, <2>2 DEF EditInvariant, CommitEdit, TypeOK
  <2> QED BY <2>1, <2>2, <2>3, InsertKeepsLine DEF CommitEdit
<1>3. CASE /\ ~ \E v \in Reviews : pc[v] = "completed" /\ ApplyAccept(v)
           /\ ~ \E e \in Edits : CommitEdit(e)
  BY <1>3, WhoPublishes DEF RevisionsFormALine
<1> QED BY <1>1, <1>2, <1>3

\* Every step keeps what each request relies on.
LEMMA RequestInvariantIsKept ==
  ASSUME TypeOK, RequestInvariant, CompletedRunsArePublished, active \in exists, Next
  PROVE  RequestInvariant'
<1>1. ASSUME NEW x, NEW e, NEW r PROVE Keeps(x, e, r)'
  BY <1>1, ReviewStepKeepsLocks, EditStepKeepsLocks, RunStepKeepsLocks,
     CrashKeepsLocks DEF Next
<1>2. ASSUME NEW v \in Reviews PROVE ReviewInvariant(v)'
  BY <1>1 DEF Keeps
<1>3. ASSUME NEW e \in Edits PROVE EditInvariant(e)'
  BY <1>1 DEF Keeps
<1>4. ASSUME NEW r \in Runs PROVE RunInvariant(r)'
  BY <1>1 DEF Keeps
<1> QED BY <1>2, <1>3, <1>4 DEF RequestInvariant

\* Only an accept completes a run, only a late write hides that it is completed, only
\* the row of a run that nobody committed can change its base, and rows of revisions
\* are never rewritten.
LEMMA RunsOtherwise ==
  ASSUME TypeOK, RequestInvariant, CompletedRunsArePublished, Next, NEW r \in Runs,
         ~ \E v \in Reviews : pc[v] = "completed" /\ ApplyAccept(v)
  PROVE  /\ runStatus'[r] = "completed" => runStatus[r] = "completed"
         /\ result'[r] = result[r]
         /\ result[r] # None =>
              /\ base'[r] = base[r]
              /\ \/ runStatus'[r] = runStatus[r]
                 \/ LateWrites /\ runStatus'[r] \in {"failed", "cancelled"}
         /\ exists \subseteq exists'
         /\ \A i \in exists : parent'[i] = parent[i]
<1> DEFINE Kept ==
      /\ runStatus'[r] = "completed" => runStatus[r] = "completed"
      /\ result'[r] = result[r]
      /\ result[r] # None =>
           /\ base'[r] = base[r]
           /\ \/ runStatus'[r] = runStatus[r]
              \/ LateWrites /\ runStatus'[r] \in {"failed", "cancelled"}
      /\ exists \subseteq exists'
      /\ \A i \in exists : parent'[i] = parent[i]
<1> USE DEF TypeOK
<1>0. /\ result[r] # None => runStatus[r] \in {"completed", "failed", "cancelled"}
      /\ \A s \in Runs : RunInvariant(s)
  BY DEF CompletedRunsArePublished, RequestInvariant
<1>1. ASSUME NEW s \in Runs, RunStep(s) PROVE Kept
  <2>1. UNCHANGED <<result, exists, parent>>
    BY <1>1 DEF RunStep, Prepare, StartRun, ProposeRestore, ProposeKnowledge,
       CopyProject, FinishRun, FailRun, DeleteLate, FailLate, ReadToCancel, CommitCancel,
       SetStatus, MoveRun, Propose
  <2>2. CASE Prepare(s)
    BY <1>0, <2>1, <2>2 DEF Prepare
  <2>3. CASE \/ StartRun(s) \/ ProposeKnowledge(s) \/ CopyProject(s)
             \/ \E i \in Revisions : ProposeRestore(s, i)
    BY <1>0, <2>1, <2>3 DEF StartRun, ProposeRestore, ProposeKnowledge, CopyProject,
       SetStatus, MoveRun, Propose
  <2>4. CASE FinishRun(s) \/ FailRun(s)
    <3>1. result[s] = None
      BY <1>0, <2>4 DEF RunInvariant, FinishRun, FailRun
    <3> QED BY <1>0, <2>1, <2>4, <3>1 DEF FinishRun, FailRun, SetStatus, Propose
  <2>5. CASE FailLate(s) \/ CommitCancel(s)
    <3>1. LateWrites
      BY <1>0, <2>5 DEF RunInvariant, FailLate, CommitCancel, LateWrites
    <3> QED BY <2>1, <2>5, <3>1 DEF FailLate, CommitCancel, SetStatus
  <2>6. CASE DeleteLate(s) \/ ReadToCancel(s)
    BY <2>1, <2>6 DEF DeleteLate, ReadToCancel
  <2> QED BY <1>1, <2>2, <2>3, <2>4, <2>5, <2>6 DEF RunStep
<1>2. ASSUME NEW v \in Reviews, CommitVerdict(v) PROVE Kept
  BY <1>0, <1>2 DEF CommitVerdict, Goto, RequestInvariant, ReviewInvariant
<1>3. ASSUME NEW v \in Reviews, BeginReview(v) \/ ReviewStep(v), ~ CommitVerdict(v)
      PROVE  Kept
  BY <1>3 DEF BeginReview, LockRun, ReviewStep, LockForReject, LockForAccept,
     Remember, MemoryFails, MemoryHangs, RememberFails, Publish, MissingFile, CommitFails,
     PushFails, CommitAccept, AnswerLost, Cleanup, UndoGit, UndoGitFails,
     UndoDataset, TransactionFails, Abort, Goto
<1>4. ASSUME NEW e \in Edits, LockForEdit(e) \/ EditStep(e) PROVE Kept
  <2>1. CASE CommitEdit(e)
    BY <2>1, IdsAreApart DEF CommitEdit, InsertRevision, RequestInvariant,
       EditInvariant
  <2>2. CASE ~ CommitEdit(e)
    BY <1>4, <2>2 DEF LockForEdit, EditStep, SaveFile, SaveFails,
       RecordRevision, TransactionFails, Abort
  <2> QED BY <2>1, <2>2
<1>5. CASE Crash
  BY <1>0, <1>5 DEF Crash
<1> QED BY <1>1, <1>2, <1>3, <1>4, <1>5 DEF Next

\* A run that is published was awaiting review, so it had no result, and the
\* review that publishes it had no revision.
LEMMA ResultsAreKept ==
  ASSUME TypeOK, RequestInvariant, RevisionsFormALine,
         CompletedRunsArePublished, Next
  PROVE  CompletedRunsArePublished'
<1> USE IdsAreApart DEF CompletedRunsArePublished
<1>1. CASE \E v \in Reviews : pc[v] = "completed" /\ ApplyAccept(v)
  <2>1. PICK v \in Reviews : pc[v] = "completed" /\ ApplyAccept(v)
    BY <1>1
  <2>2. /\ runStatus[target[v]] = "awaiting_review" /\ v \notin exists
        /\ target[v] \in Runs /\ v \in Requests
    BY <2>1 DEF RequestInvariant, ReviewInvariant, TypeOK
  <2>3. /\ exists' = exists \cup {v}
        /\ parent'[v] = base[target[v]] /\ base' = base
        /\ \A i \in exists : parent'[i] = parent[i]
    BY <2>1, <2>2 DEF ApplyAccept, InsertRevision, TypeOK
  <2>4. /\ runStatus' = [runStatus EXCEPT ![target[v]] = "completed"]
        /\ result' = [result EXCEPT ![target[v]] = v]
    BY <2>1 DEF ApplyAccept
  <2> QED BY <2>2, <2>3, <2>4 DEF TypeOK
<1>2. CASE ~ \E v \in Reviews : pc[v] = "completed" /\ ApplyAccept(v)
  BY <1>2, RunsOtherwise
<1> QED BY <1>1, <1>2

\* The inductive invariant.
Inv == TypeOK /\ RequestInvariant /\ RevisionsFormALine /\ CompletedRunsArePublished

\* The inductive invariant is an invariant of the specification.
LEMMA InvIsInvariant == Spec => []Inv
<1>1. Init => Inv
  <2> SUFFICES ASSUME Init PROVE Inv
    OBVIOUS
  <2>1. TypeOK
    BY InitTypeOK
  <2>2. RequestInvariant
    BY IdsAreApart DEF Init, RequestInvariant, ReviewInvariant, EditInvariant,
       RunInvariant
  <2>3. RevisionsFormALine /\ CompletedRunsArePublished
    BY DEF Init, RevisionsFormALine, CompletedRunsArePublished
  <2> QED BY <2>1, <2>2, <2>3 DEF Inv
<1>2. Inv /\ [Next]_vars => Inv'
  <2> SUFFICES ASSUME Inv, [Next]_vars PROVE Inv'
    OBVIOUS
  <2>1. CASE UNCHANGED vars
    BY <2>1 DEF Inv, TypeOK, RequestInvariant, ReviewInvariant, EditInvariant,
       RunInvariant, RevisionsFormALine, CompletedRunsArePublished
  <2>2. CASE Next
    BY <2>2, NextTypeOK, RequestInvariantIsKept, LineIsKept, ResultsAreKept
    DEF Inv, RevisionsFormALine
  <2> QED BY <2>1, <2>2
<1> QED BY <1>1, <1>2, PTL DEF Spec

\* What the row locks give: whoever publishes holds the project and still
\* sees the revision it compared or read, and a request publishes once
\* (routers/agent.py:298-336, routers/project_files.py:92-114).
THEOREM LocksHold == Spec => []RequestInvariant
<1>1. Inv => RequestInvariant
  BY DEF Inv
<1> QED BY <1>1, InvIsInvariant, PTL

\* The revisions form one line that ends in the active one, whatever fails
\* and however requests interleave.
THEOREM OneLine == Spec => []RevisionsFormALine
<1>1. Inv => RevisionsFormALine
  BY DEF Inv
<1> QED BY <1>1, InvIsInvariant, PTL

\* A run is published once: a completed run has a revision, its own, built on the
\* revision it was prepared for, and a run with a revision is completed unless a
\* cancellation or a failure was written over that without reading it
\* (routers/agent.py:271-281, services/agent_engine.py:1341-1354).
THEOREM OneRevisionPerRun == Spec => []CompletedRunsArePublished
<1>1. Inv => CompletedRunsArePublished
  BY DEF Inv
<1> QED BY <1>1, InvIsInvariant, PTL

-----------------------------------------------------------------------------
(* ProjectRevisions implements Publication. *)

\* A step that changes no outcome and no revision is no step of the promise.
LEMMA SameOutcomes ==
  ASSUME \A r \in Runs : Outcome(r)' = Outcome(r),
         UNCHANGED <<exists, active, parent, base, result>>
  PROVE  UNCHANGED Promise!pvars
BY DEF Promise!pvars

\* A step that changes the outcome of one run.
LEMMA OneOutcome ==
  ASSUME NEW r \in Runs, NEW to, Outcome(r)' = to,
         \A s \in Runs \ {r} : Outcome(s)' = Outcome(s)
  PROVE  [s \in Runs |-> Outcome(s)]' = [[s \in Runs |-> Outcome(s)] EXCEPT ![r] = to]
OBVIOUS

\* An accepted review is the promise's acceptance of its run.
LEMMA AcceptImplements ==
  ASSUME Inv, NEW v \in Reviews, pc[v] = "completed", ApplyAccept(v)
  PROVE  Promise!Accept(target[v], v)
<1>1. /\ runStatus[target[v]] = "awaiting_review" /\ v \notin exists
      /\ base[target[v]] = active
      /\ target[v] \in Runs /\ v \in Revisions
  BY IdsAreApart DEF Inv, RequestInvariant, ReviewInvariant, TypeOK
<1>2. /\ runStatus' = [runStatus EXCEPT ![target[v]] = "completed"]
      /\ result' = [result EXCEPT ![target[v]] = v]
      /\ base' = base
      /\ InsertRevision(v, active, v)
  BY <1>1 DEF ApplyAccept
<1>3. [r \in Runs |-> Outcome(r)]'
        = [[r \in Runs |-> Outcome(r)] EXCEPT ![target[v]] = "completed"]
  <2>1. PICK r \in Runs : r = target[v]
    BY <1>1
  <2>2. "worker" \notin writers[r] /\ writers' = writers
    BY <1>1, <2>1 DEF Inv, RequestInvariant, RunInvariant, ApplyAccept
  <2>3. runStatus'[r] = "completed" /\ \A s \in Runs \ {r} : runStatus'[s] = runStatus[s]
    BY <1>2, <2>1 DEF Inv, TypeOK
  <2>4. Outcome(r)' = "completed" /\ \A s \in Runs \ {r} : Outcome(s)' = Outcome(s)
    BY <2>2, <2>3 DEF Outcome
  <2> QED BY <2>1, <2>4, OneOutcome
<1>4. Outcome(target[v]) = "open"
  BY <1>1 DEF Outcome
<1> QED
  BY <1>1, <1>2, <1>3, <1>4 DEF Promise!Accept, Promise!Decide, Promise!Append,
     InsertRevision

\* A committed edit is the promise's edit.
LEMMA EditImplements ==
  ASSUME Inv, NEW e \in Edits, CommitEdit(e)
  PROVE  Promise!Edit(e)
<1>1. e \notin exists /\ current[e] = active /\ e \in Revisions
  BY IdsAreApart DEF Inv, RequestInvariant, EditInvariant, CommitEdit
<1>2. runStatus' = runStatus /\ writers' = writers
  BY DEF CommitEdit
<1>3. [r \in Runs |-> Outcome(r)]' = [r \in Runs |-> Outcome(r)]
  BY <1>2 DEF Outcome
<1> QED BY <1>1, <1>3 DEF CommitEdit, InsertRevision, Promise!Edit, Promise!Append

\* A committed verdict is the promise's rejection or conflict.
LEMMA VerdictImplements ==
  ASSUME Inv, NEW v \in Reviews, CommitVerdict(v)
  PROVE  Promise!Reject(target[v]) \/ Promise!Conflict(target[v])
<1>1. /\ runStatus[target[v]] = "awaiting_review"
      /\ pc[v] = "conflicted" => base[target[v]] # active
      /\ target[v] \in Runs
  BY IdsAreApart, SMTT(20) DEF Inv, RequestInvariant, ReviewInvariant, TypeOK,
     CommitVerdict, Goto
<1>2. PICK verdict \in {"rejected", "conflicted"} :
        /\ pc[v] = verdict
        /\ runStatus' = [runStatus EXCEPT ![target[v]] = verdict]
  BY DEF CommitVerdict, Goto
<1>3. [r \in Runs |-> Outcome(r)]'
        = [[r \in Runs |-> Outcome(r)] EXCEPT ![target[v]] = verdict]
  <2>1. PICK r \in Runs : r = target[v]
    BY <1>1
  <2>2. "worker" \notin writers[r] /\ writers' = writers
    BY <1>1, <2>1 DEF Inv, RequestInvariant, RunInvariant, CommitVerdict
  <2>3. runStatus'[r] = verdict /\ \A s \in Runs \ {r} : runStatus'[s] = runStatus[s]
    BY <1>2, <2>1 DEF Inv, TypeOK
  <2>4. Outcome(r)' = verdict /\ \A s \in Runs \ {r} : Outcome(s)' = Outcome(s)
    BY <2>2, <2>3 DEF Outcome
  <2> QED BY <2>1, <2>4, OneOutcome
<1>4. Outcome(target[v]) = "open"
  BY <1>1 DEF Outcome
<1>5. UNCHANGED <<exists, active, parent, base, result>>
  BY DEF CommitVerdict
<1> QED
  BY <1>1, <1>2, <1>3, <1>4, <1>5 DEF Promise!Reject, Promise!Conflict,
     Promise!Decide

\* A step of a run is one of the promise, or none that it shows.
LEMMA RunStepImplements ==
  ASSUME Inv, NEW r \in Runs, RunStep(r)
  PROVE  \/ Promise!Prepare(r) \/ Promise!Open(r) \/ Promise!Fail(r)
         \/ Promise!Overwrite(r) \/ UNCHANGED Promise!pvars
<1> USE DEF Inv, TypeOK
<1>1. CASE Prepare(r)
  <2>1. [s \in Runs |-> Outcome(s)]' = [s \in Runs |-> Outcome(s)]
    <3>1. /\ runStatus[r] = "absent" /\ runStatus'[r] = "prepared" /\ writers' = writers
          /\ \A s \in Runs \ {r} : runStatus'[s] = runStatus[s]
      BY <1>1 DEF Prepare
    <3>2. \A s \in Runs : Outcome(s)' = Outcome(s)
      BY <3>1 DEF Outcome
    <3> QED BY <3>2
  <2>2. Outcome(r) = "none"
    <3>1. runStatus[r] = "absent"
      BY <1>1 DEF Prepare
    <3> QED BY <3>1 DEF Outcome
  <2> QED BY <1>1, <2>1, <2>2 DEF Prepare, Promise!Prepare
<1>2. ASSUME NEW to \in {"queued", "awaiting_review"}, runStatus[r] = "prepared",
             SetStatus(r, to), UNCHANGED writers
      PROVE  Promise!Open(r)
  <2>1. [s \in Runs |-> Outcome(s)]' = [[s \in Runs |-> Outcome(s)] EXCEPT ![r] = "open"]
    <3>1. Outcome(r)' = "open" /\ \A s \in Runs \ {r} : Outcome(s)' = Outcome(s)
      BY <1>2 DEF SetStatus, Outcome
    <3> QED BY <3>1, OneOutcome
  <2>2. Outcome(r) = "none" /\ base[r] # None
    BY <1>2 DEF Outcome, RequestInvariant, RunInvariant
  <2> QED BY <1>2, <2>1, <2>2 DEF SetStatus, Promise!Open
<1>3. ASSUME Outcome(r)' = Outcome(r), \A s \in Runs \ {r} : Outcome(s)' = Outcome(s),
             UNCHANGED <<revisions, base, result>>
      PROVE  UNCHANGED Promise!pvars
  BY <1>3, SameOutcomes
<1>4. ASSUME Outcome(r) = "open", NEW to \in {"failed", "cancelled"}, Outcome(r)' = to,
             \A s \in Runs \ {r} : Outcome(s)' = Outcome(s),
             UNCHANGED <<revisions, base, result>>
      PROVE  Promise!Fail(r)
  <2>1. [s \in Runs |-> Outcome(s)]' = [[s \in Runs |-> Outcome(s)] EXCEPT ![r] = to]
    BY <1>4
  <2> QED BY <1>4, <2>1 DEF Promise!Fail, Promise!Decide
<1>5. ASSUME Outcome(r) \in Promise!Outcomes, NEW to \in {"failed", "cancelled"},
             Outcome(r)' = to, \A s \in Runs \ {r} : Outcome(s)' = Outcome(s),
             UNCHANGED <<revisions, base, result>>
      PROVE  Promise!Overwrite(r)
  <2>1. [s \in Runs |-> Outcome(s)]' = [[s \in Runs |-> Outcome(s)] EXCEPT ![r] = to]
    BY <1>5
  <2> QED BY <1>5, <2>1 DEF Promise!Overwrite
<1>6. CASE StartRun(r) \/ ProposeKnowledge(r) \/ \E i \in Revisions : ProposeRestore(r, i)
  BY <1>2, <1>6 DEF StartRun, ProposeRestore, ProposeKnowledge, MoveRun, Propose
<1>7. CASE CopyProject(r)
  BY <1>3, <1>7 DEF CopyProject, MoveRun, SetStatus, Outcome
<1>8. RunInvariant(r)
  BY DEF RequestInvariant
<1>9. CASE FinishRun(r)
  <2>1. /\ \A s \in Runs \ {r} : Outcome(s)' = Outcome(s)
        /\ runStatus'[r] = "awaiting_review" /\ UNCHANGED <<revisions, base, result>>
    BY <1>9 DEF FinishRun, Propose, SetStatus, Outcome
  <2>2. Outcome(r) = "open" /\ Outcome(r)' = "open"
    BY <1>8, <1>9, <2>1 DEF FinishRun, Outcome, RunInvariant
  <2> QED BY <1>3, <2>1, <2>2
<1>10. CASE FailRun(r)
  <2>1. PICK to \in {"failed", "cancelled"} : SetStatus(r, to)
    BY <1>10 DEF FailRun
  <2>2. /\ \A s \in Runs \ {r} : Outcome(s)' = Outcome(s)
        /\ runStatus'[r] = to /\ UNCHANGED <<revisions, base, result>>
        /\ "worker" \notin writers'[r]
    BY <1>10, <2>1 DEF FailRun, SetStatus, Outcome
  <2>3. Outcome(r) = "open" /\ Outcome(r)' = to
    BY <1>8, <1>10, <2>2 DEF FailRun, Outcome, RunInvariant
  <2> QED BY <1>4, <2>2, <2>3
<1>11. CASE FailLate(r) \/ CommitCancel(r)
  <2>1. PICK to \in {"failed", "cancelled"} : SetStatus(r, to)
    BY <1>11 DEF FailLate, CommitCancel
  <2>2. /\ \A s \in Runs \ {r} : Outcome(s)' = Outcome(s)
        /\ runStatus'[r] = to /\ UNCHANGED <<revisions, base, result>>
        /\ "worker" \in writers'[r] <=> "worker" \in writers[r]
        /\ runStatus[r] \notin {"absent", "prepared"}
    BY <1>8, <1>11, <2>1 DEF FailLate, CommitCancel, SetStatus, Outcome, RunInvariant
  <2>3. CASE "worker" \in writers[r]
    <3>1. Outcome(r) = "open" /\ Outcome(r)' = "open"
      BY <2>2, <2>3 DEF Outcome
    <3> QED BY <1>3, <2>2, <3>1
  <2>4. CASE "worker" \notin writers[r]
    <3>1. Outcome(r)' = to
      BY <2>2, <2>4 DEF Outcome
    <3>2. Outcome(r) \in {"open"} \cup Promise!Outcomes
      BY <2>2, <2>4 DEF Outcome, Promise!Outcomes, RunStatuses
    <3> QED BY <1>4, <1>5, <2>2, <3>1, <3>2
  <2> QED BY <2>3, <2>4
<1>12. CASE DeleteLate(r) \/ ReadToCancel(r)
  BY <1>3, <1>12 DEF DeleteLate, ReadToCancel, Outcome
<1> QED
  BY <1>1, <1>6, <1>7, <1>9, <1>10, <1>11, <1>12 DEF RunStep

\* Every other step of a request leaves the published state alone.
LEMMA OtherStepsStutter ==
  ASSUME \/ \E v \in Reviews : \/ BeginReview(v)
                               \/ ReviewStep(v) /\ ~ CommitVerdict(v)
                                    /\ ~ (pc[v] = "completed" /\ ApplyAccept(v))
         \/ \E e \in Edits : (LockForEdit(e) \/ EditStep(e)) /\ ~ CommitEdit(e)
         \/ Crash
  PROVE  UNCHANGED Promise!pvars
<1>1. ASSUME UNCHANGED <<exists, active, parent, base, result, runStatus, writers>>
      PROVE  UNCHANGED Promise!pvars
  BY <1>1, SameOutcomes DEF Outcome
<1>2. ASSUME NEW v \in Reviews, BeginReview(v) PROVE UNCHANGED Promise!pvars
  BY <1>1, <1>2 DEF BeginReview, LockRun
<1>3. ASSUME NEW v \in Reviews, ReviewStep(v), ~ CommitVerdict(v),
             ~ (pc[v] = "completed" /\ ApplyAccept(v))
      PROVE  UNCHANGED Promise!pvars
  BY <1>1, <1>3 DEF ReviewStep, LockForReject, LockForAccept, Remember,
     MemoryFails, MemoryHangs, RememberFails, Publish, MissingFile, CommitFails, PushFails,
     CommitAccept, AnswerLost, Cleanup, UndoGit, UndoGitFails, UndoDataset,
     TransactionFails, Abort, Goto
<1>4. ASSUME NEW e \in Edits, LockForEdit(e) \/ EditStep(e), ~ CommitEdit(e)
      PROVE  UNCHANGED Promise!pvars
  BY <1>1, <1>4 DEF LockForEdit, EditStep, SaveFile, SaveFails, RecordRevision,
     TransactionFails, Abort
<1>5. CASE Crash
  <2>1. \A r \in Runs : Outcome(r)' = Outcome(r)
    BY <1>5 DEF Crash, Outcome
  <2> QED BY <1>5, <2>1, SameOutcomes DEF Crash
<1> QED BY <1>2, <1>3, <1>4, <1>5

\* Every step is one of the promise, or none that it shows.
LEMMA NextImplements ==
  ASSUME Inv, Next
  PROVE  Promise!Next \/ UNCHANGED Promise!pvars
<1> USE IdsAreApart DEF Promise!Next
<1>1. ASSUME NEW r \in Runs, RunStep(r) PROVE Promise!Next \/ UNCHANGED Promise!pvars
  BY <1>1, RunStepImplements
<1>2. ASSUME NEW v \in Reviews, ReviewStep(v),
             CommitVerdict(v) \/ (pc[v] = "completed" /\ ApplyAccept(v))
      PROVE  Promise!Next
  <2>1. target[v] \in Runs /\ v \in Revisions
    BY <1>2 DEF Inv, TypeOK, CommitVerdict, Goto
  <2> QED BY <1>2, <2>1, VerdictImplements, AcceptImplements
<1>3. ASSUME NEW e \in Edits, CommitEdit(e) PROVE Promise!Next
  BY <1>3, EditImplements
<1> QED BY <1>1, <1>2, <1>3, OtherStepsStutter DEF Next

\* Whatever fails and however requests interleave, users see the atomic
\* protocol of Publication: a review publishes only on the revision its run was
\* prepared for, and decides a run once (routers/agent.py:287-418,
\* routers/project_files.py:65-114); a late failure or cancellation changes what the
\* run shows and nothing that was published.
THEOREM ImplementsPublication == Spec => PublicationSpec
<1>1. Init => Promise!Init
  BY DEF Init, Promise!Init, Outcome
<1>2. Inv /\ [Next]_vars => [Promise!Next]_(Promise!pvars)
  <2>1. UNCHANGED vars => UNCHANGED Promise!pvars
    BY SameOutcomes DEF Outcome
  <2> QED BY <2>1, NextImplements
<1> QED BY <1>1, <1>2, InvIsInvariant, PTL DEF Spec, PublicationSpec, Promise!Spec

=============================================================================
