-------------------------- MODULE ProjectLifecycle --------------------------
(***************************************************************************)
(* The life of a project: its row, its Git storage and its memory, which   *)
(* requests of the API server create, use and delete one after the other.  *)
(* Each request calls the memory service of MemorySupervisor and gives up  *)
(* some of its calls after 60 seconds; the call goes on.                   *)
(***************************************************************************)
EXTENDS MemorySupervisor

CONSTANT Root  \* the dataset of the first revision

VARIABLES
  client,  \* the requests of the API server, one per caller
  row,     \* text_projects: the projects that exist
  holder,  \* the request that holds the row lock of each project
  git      \* the projects with Git storage

vars == <<service, faults, client, row, holder, git>>

\* Other faults: a call is given up after 60 seconds, Git storage cannot be
\* written, a transaction fails at its commit, the API server dies.
AllFaults == ServiceFaults \cup {"timeout", "git", "commit", "server"}

ASSUME RootAssumption == Root \notin Callers \cup {None}
ASSUME FaultsAssumption == FaultKinds \subseteq AllFaults

Configs == {"empty", "models"}
Idle == [kind |-> None, project |-> None, config |-> None, pc |-> "idle", alone |-> TRUE]

\* A project of the beginning has been created, and no process runs yet.
Init ==
  /\ ServiceInit({Root})
  /\ client = [c \in Callers |-> Idle]
  /\ row = rooted /\ git = rooted
  /\ holder = [p \in Projects |-> None]

-----------------------------------------------------------------------------
(* Requests.                                                               *)

Done(c) == client[c].pc \in {"ok", "failed", "leaked"}
Open(c) == client[c].pc # "idle" /\ (~Done(c) \/ ~Ended(c))
Of(p, kinds) == {c \in Callers : client[c].project = p /\ client[c].kind \in kinds}
AtStep(c, kind, pc) == client[c].kind = kind /\ client[c].pc = pc

\* A request for p begins at step pc; alone says that no other of p overlaps it.
Begin(c, kind, p, config, pc) ==
  LET others == {d \in Callers : client[d].project = p /\ Open(d)} IN
  /\ client[c].pc = "idle"
  /\ client' = [d \in Callers |->
       CASE d = c -> [kind |-> kind, project |-> p, config |-> config, pc |-> pc,
                      alone |-> others = {}]
         [] d \in others -> [client[d] EXCEPT !.alone = FALSE]
         [] OTHER -> client[d]]

Reach(c, pc) == client' = [client EXCEPT ![c].pc = pc]

\* The request is over; its transaction releases the row.
Finish(c, pc) ==
  /\ Reach(c, pc)
  /\ holder' = [p \in Projects |-> IF holder[p] = c THEN None ELSE holder[p]]

Ask(c, name, dataset) ==
  Submit(c, name, client[c].project, dataset, client[c].config)

\* The call has failed, or httpx gives it up.  remember has no timeout.
Unanswered(c) ==
  \/ call[c].pc = "failed" /\ UNCHANGED faults
  \/ ~Ended(c) /\ call[c].name # "remember" /\ Fault("timeout")

Answer(c) == call[c].pc = "ok" /\ UNCHANGED faults

-----------------------------------------------------------------------------
(* create_project.                                                         *)

\* Git is set up; the id of the project is new.
BeginCreate(c, p) ==
  /\ p \notin row /\ Of(p, {"create", "delete", "store", "read"}) = {}
  /\ \/ /\ Begin(c, "create", p, "empty", "starting")
        /\ git' = git \cup {p}
        /\ Submit(c, "start", p, None, "empty")
        /\ UNCHANGED faults
     \/ /\ Fault("git")
        /\ Begin(c, "create", p, "empty", "failed")
        /\ UNCHANGED <<service, git>>
  /\ UNCHANGED <<row, holder>>

CreateStarted(c) ==
  /\ AtStep(c, "create", "starting") /\ Answer(c)
  /\ Ask(c, "remember", Root)
  /\ Reach(c, "remembering")
  /\ UNCHANGED <<row, holder, git>>

\* memory_started is not set: only Git is removed.
CreateStartFails(c) ==
  /\ AtStep(c, "create", "starting") /\ Unanswered(c)
  /\ git' = git \ {client[c].project}
  /\ Finish(c, "leaked")
  /\ UNCHANGED <<service, row>>

\* Seeded defect: the answer of remember is not looked at.
CreateRememberedOrNot(c) ==
  /\ AtStep(c, "create", "remembering") /\ Ended(c)
  /\ Reach(c, "committing")
  /\ UNCHANGED <<service, faults, row, holder, git>>

CreateRemembered(c) ==
  /\ AtStep(c, "create", "remembering") /\ Answer(c)
  /\ Reach(c, "committing")
  /\ UNCHANGED <<service, row, holder, git>>

\* Seeded defect: the memory is not stopped.
CreateRememberFailsGitOnly(c) ==
  /\ AtStep(c, "create", "remembering") /\ Unanswered(c)
  /\ git' = git \ {client[c].project}
  /\ Finish(c, "failed")
  /\ UNCHANGED <<service, row>>

CreateRememberFails(c) ==
  /\ AtStep(c, "create", "remembering") /\ Unanswered(c)
  /\ git' = git \ {client[c].project}
  /\ Ask(c, "stop", None)
  /\ Reach(c, "undoing")
  /\ UNCHANGED <<row, holder>>

CreateUndone(c) ==
  /\ AtStep(c, "create", "undoing")
  /\ \/ Answer(c) /\ Finish(c, "failed")
     \/ Unanswered(c) /\ Finish(c, "leaked")
  /\ UNCHANGED <<service, row, git>>

\* Nothing is undone if the commit fails.
CommitCreate(c) ==
  /\ AtStep(c, "create", "committing")
  /\ \/ row' = row \cup {client[c].project} /\ Finish(c, "ok") /\ UNCHANGED faults
     \/ Fault("commit") /\ Finish(c, "leaked") /\ UNCHANGED row
  /\ UNCHANGED <<service, git>>

-----------------------------------------------------------------------------
(* delete_project: the memory, Git and the row.                            *)

BeginDelete(c, p) ==
  /\ p \in row
  /\ Begin(c, "delete", p, None, "stopping")
  /\ Submit(c, "stop", p, None, None)
  /\ UNCHANGED <<faults, row, holder, git>>

DeleteStopped(c) ==
  /\ AtStep(c, "delete", "stopping") /\ call[c].pc = "ok"
  /\ \/ Reach(c, "committing") /\ UNCHANGED <<holder, faults>>
     \/ Fault("git") /\ Finish(c, "failed")
  /\ git' = git \ {client[c].project}
  /\ UNCHANGED <<service, row>>

DeleteFails(c) ==
  /\ AtStep(c, "delete", "stopping") /\ Unanswered(c)
  /\ Finish(c, "failed")
  /\ UNCHANGED <<service, row, git>>

\* DELETE waits for the row; a row that is gone already is no error.
CommitDelete(c) ==
  /\ AtStep(c, "delete", "committing") /\ holder[client[c].project] = None
  /\ \/ row' = row \ {client[c].project} /\ Finish(c, "ok") /\ UNCHANGED faults
     \/ Fault("commit") /\ Finish(c, "failed") /\ UNCHANGED row
  /\ UNCHANGED <<service, git>>

-----------------------------------------------------------------------------
(* Requests that use the memory: review_agent_run stores a dataset with the *)
(* row locked, the others only read.                                        *)

BeginUse(c, kind, p, config) ==
  /\ p \in row
  /\ kind = "store" => holder[p] = None
  /\ Begin(c, kind, p, config, "starting")
  /\ holder' = IF kind = "store" THEN [holder EXCEPT ![p] = c] ELSE holder
  /\ Submit(c, "start", p, None, config)
  /\ UNCHANGED <<faults, row, git>>

UseStarted(c) ==
  /\ client[c].kind \in {"store", "read"} /\ client[c].pc = "starting" /\ Answer(c)
  /\ Ask(c, "records", Root)
  /\ Reach(c, "reading")
  /\ UNCHANGED <<row, holder, git>>

UseRead(c) ==
  /\ client[c].pc = "reading" /\ Answer(c)
  /\ \/ /\ client[c].kind = "read"
        /\ Finish(c, "ok") /\ UNCHANGED service
     \/ /\ client[c].kind = "store"
        /\ Ask(c, "remember", c)
        /\ Reach(c, "remembering") /\ UNCHANGED holder
  /\ UNCHANGED <<row, git>>

StoreRemembered(c) ==
  /\ AtStep(c, "store", "remembering") /\ Answer(c)
  /\ Reach(c, "committing")
  /\ UNCHANGED <<service, row, holder, git>>

\* A call fails, and with it the request; a dataset that was not acknowledged is
\* not forgotten.
UseFails(c) ==
  /\ client[c].kind \in {"store", "read"}
  /\ client[c].pc \in {"starting", "reading", "remembering"} /\ Unanswered(c)
  /\ Finish(c, "failed")
  /\ UNCHANGED <<service, row, git>>

CommitStore(c) ==
  /\ AtStep(c, "store", "committing")
  /\ \/ Finish(c, "ok") /\ UNCHANGED <<service, faults>>
     \/ /\ Fault("commit")
        /\ Ask(c, "forget", c)
        /\ Finish(c, "undoing")
  /\ UNCHANGED <<row, git>>

StoreUndone(c) ==
  /\ AtStep(c, "store", "undoing") /\ (Answer(c) \/ Unanswered(c))
  /\ Finish(c, "failed")
  /\ UNCHANGED <<service, row, git>>

\* The API server dies in the middle of a request.
Die(c) ==
  /\ Fault("server")
  /\ client[c].pc # "idle" /\ ~Done(c)
  /\ Finish(c, IF client[c].kind = "create" THEN "leaked" ELSE "failed")
  /\ UNCHANGED <<service, row, git>>

RequestStep(c) ==
  \/ CreateStarted(c) \/ CreateStartFails(c) \/ CreateRemembered(c)
  \/ CreateRememberFails(c) \/ CreateUndone(c) \/ CommitCreate(c)
  \/ DeleteStopped(c) \/ DeleteFails(c) \/ CommitDelete(c)
  \/ UseStarted(c) \/ UseRead(c) \/ StoreRemembered(c) \/ UseFails(c)
  \/ CommitStore(c) \/ StoreUndone(c)

BeginRequest(c) ==
  \E p \in Projects :
    \/ BeginCreate(c, p)
    \/ BeginDelete(c, p)
    \/ \E kind \in {"store", "read"}, config \in Configs : BeginUse(c, kind, p, config)

Next ==
  \/ \E c \in Callers : BeginRequest(c) \/ RequestStep(c) \/ Die(c)
  \/ ServiceStep /\ UNCHANGED <<client, row, holder, git>>

\* The event loop of the service runs its handlers, and processes work.
Fairness ==
  /\ \A c \in Callers : WF_vars(HandlerStep(c) /\ UNCHANGED <<client, row, holder, git>>)
  /\ \A i \in Procs : WF_vars(ProcessStep(i) /\ UNCHANGED <<client, row, holder, git>>)

Spec == Init /\ [][Next]_vars /\ Fairness

-----------------------------------------------------------------------------
(* Properties.                                                             *)

Datasets == {Root} \cup Callers
Names == {"start", "stop", "remember", "records", "forget"}
Commands == {"health", "shutdown", "remember", "records", "forget"}
Kinds == {"create", "delete", "store", "read"}

ASSUME NamesAssumption == None \notin Commands \cup Kinds

ProcRows ==
  [state : {"none", "starting", "serving", "exiting", "dead"}, project : Projects \cup {None},
   config : Configs \cup {None}, lock : Callers \cup {None},
   inbox : Seq([by : Callers, command : Commands]), outbox : Seq([by : Callers, ok : BOOLEAN])]

CallRows ==
  [name : Names, project : Projects \cup {None}, dataset : Datasets \cup {None},
   config : Configs \cup {None},
   pc : {"none", "start", "stop", "enter", "await", "join", "remove", "ok", "failed"},
   command : Commands \cup {None}, target : Procs \cup {None}, missed : BOOLEAN,
   applied : BOOLEAN]

ClientRows ==
  [kind : Kinds \cup {None}, project : Projects \cup {None},
   config : Configs \cup {None}, alone : BOOLEAN,
   pc : {"idle", "starting", "remembering", "reading", "undoing", "committing", "stopping",
         "ok", "failed", "leaked"}]

\* Types of the variables (the rows, tables and queues of the code above).
TypeOK ==
  /\ instance \in [Projects -> Procs \cup {None}] /\ guard \in Callers \cup {None}
  /\ proc \in [Procs -> ProcRows] /\ call \in [Callers -> CallRows]
  /\ storage \in [Projects -> SUBSET Datasets] /\ rooted \subseteq Projects
  /\ client \in [Callers -> ClientRows] /\ holder \in [Projects -> Callers \cup {None}]
  /\ row \subseteq Projects /\ git \subseteq Projects
  /\ faults \in 0..MaxFaults

\* While a process lives, and while a call holds its instance, nothing but
\* answers to that call is in the response queue: the check for out-of-order
\* answers never fires and no call is told the result of another.  An answer may
\* stay only in the queue of a process that is dead: one put between an empty
\* poll and the look at the process (ProjectMemoryInstance.request).
AnswersBelongToTheLock ==
  \A i \in Procs : Alive(i) \/ proc[i].lock # None =>
    \A k \in DOMAIN proc[i].outbox : proc[i].outbox[k].by = proc[i].lock

\* Two processes work on one project's storage only while one of them is being
\* shut down: a process that start or stop has replaced has got its shutdown, or
\* a call that is going to send it (start and stop of MemorySupervisor).
ReplacedProcessesShutDown ==
  \A i \in Procs :
    \/ ~Alive(i) \/ proc[i].state = "exiting"
    \/ instance[proc[i].project] = i
    \/ \E c \in Callers : ~Ended(c) /\ call[c].target = i /\ call[c].command = "shutdown"

\* A project nobody has begun to delete has its Git storage, its first dataset
\* and those its reviews have committed, whatever fails, is retried elsewhere or
\* goes on after its caller has left (create_project, review_agent_run).
ProjectsAreComplete ==
  \A p \in row : Of(p, {"delete"}) = {} =>
    /\ p \in git
    /\ Root \in storage[p]
    /\ \A c \in Of(p, {"store"}) : client[c].pc = "ok" => c \in storage[p]

\* When the requests of a project and their calls have ended and it has no row,
\* it has no Git storage, no memory storage and no process, unless its creation
\* could not start or stop the memory or commit, or a request overlapped its
\* deletion.
NothingIsLeftBehind ==
  \A p \in Projects \ row :
    (\A c \in Callers : client[c].project = p =>
         /\ ~Open(c) /\ client[c].pc # "leaked"
         /\ client[c].kind = "delete" /\ client[c].pc = "ok" => client[c].alone)
      => /\ p \notin git /\ p \notin rooted /\ storage[p] = {}
         /\ \A i \in Procs : Alive(i) /\ proc[i].project = p => proc[i].state = "exiting"

\* The service takes effect like one atomic store: the names of MemoryStore.
CallStatus(c) ==
  CASE call[c].pc \in {"none", "ok", "failed"} -> call[c].pc
    [] OTHER -> IF call[c].applied THEN "applied" ELSE "pending"

Store == INSTANCE MemoryStore WITH
  data <- storage,
  op <- [c \in Callers |-> IF call[c].pc = "none" THEN None ELSE
          [name |-> call[c].name, project |-> call[c].project, dataset |-> call[c].dataset]],
  status <- [c \in Callers |-> CallStatus(c)]

\* Through queues, locks, restarts, replaced processes and lost answers, a call
\* takes effect at most once, before it ends, and never after it has failed
\* (MemorySupervisor and project_memory_process).
MemoryStoreSpec == Store!Spec

\* An answer was taken by a poll nobody waits for.
AnswerLost(i) ==
  /\ Alive(i) /\ proc[i].inbox = << >> /\ proc[i].outbox = << >>
  /\ proc[i].lock # None /\ call[proc[i].lock].pc = "await"

\* Every call of the memory service ends, whoever waits for whom, unless an
\* answer was lost: its call, and all that wait for its locks, wait for ever.
CallsEnd ==
  \A c \in Callers : ~Ended(c) ~> (Ended(c) \/ \E i \in Procs : AnswerLost(i))
=============================================================================
