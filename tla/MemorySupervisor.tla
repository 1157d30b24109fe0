-------------------------- MODULE MemorySupervisor --------------------------
(***************************************************************************)
(* The memory service of MuseGraph: an asyncio program that keeps one      *)
(* Cognee process per project (MemorySupervisor), the processes with their *)
(* request and response queues, and the storage of each project.  Calls    *)
(* are HTTP requests whose handlers run to their end even if the caller no *)
(* longer waits.                                                           *)
(*                                                                         *)
(* One step is what a handler does between two awaits, or one command of a *)
(* process.  The environment begins calls with Submit; ProjectLifecycle    *)
(* composes the service with its callers.                                  *)
(***************************************************************************)
EXTENDS Naturals, Sequences, FiniteSetsExt

CONSTANTS
  Callers,     \* each has one call at a time
  Projects,
  Procs,       \* operating system processes, a set of numbers: those alive at once
  None,
  FaultKinds,  \* the faults that happen
  MaxFaults    \* bound on the number of faults in a behaviour

\* A Cognee process dies; the service dies with its processes and comes back; a
\* command fails; a process takes more than the 10 seconds it is waited for; an
\* answer goes to a poll that was given up.
ServiceFaults == {"crash", "restart", "command", "slow", "lost"}

ASSUME NoneAssumption == None \notin Callers \cup Projects \cup Procs
ASSUME ProcsAssumption == Procs \subseteq Nat /\ MaxFaults \in Nat

VARIABLES
  instance,  \* MemorySupervisor.instances
  guard,     \* the call that holds MemorySupervisor._lock
  proc,      \* the processes, with their queues and ProjectMemoryInstance.lock
  storage,   \* the datasets in the storage of each project
  rooted,    \* the projects whose storage directory exists
  call,      \* the calls
  faults     \* faults so far

service == <<instance, guard, proc, storage, rooted, call>>

NoProc == [state |-> "none", project |-> None, config |-> None,
           lock |-> None, inbox |-> << >>, outbox |-> << >>]
NoCall == [name |-> "start", project |-> None, dataset |-> None, config |-> None,
           pc |-> "none", command |-> None, target |-> None, missed |-> FALSE,
           applied |-> FALSE]

\* Some projects have storage, with the datasets given.
ServiceInit(datasets) ==
  /\ instance = [p \in Projects |-> None]
  /\ guard = None
  /\ proc = [i \in Procs |-> NoProc]
  /\ rooted \in SUBSET Projects
  /\ storage = [p \in Projects |-> IF p \in rooted THEN datasets ELSE {}]
  /\ call = [c \in Callers |-> NoCall]
  /\ faults = 0

Fault(kind) ==
  /\ kind \in FaultKinds /\ faults < MaxFaults
  /\ faults' = faults + 1

Ended(c) == call[c].pc \in {"none", "ok", "failed"}
Goto(c, pc) == call' = [call EXCEPT ![c].pc = pc]
Alive(i) == proc[i].state \in {"starting", "serving", "exiting"}
Running(p) == instance[p] # None /\ Alive(instance[p])

-----------------------------------------------------------------------------
(* ProjectMemoryInstance.request: the lock of the instance is held from the *)
(* put of a command to its answer.                                          *)

\* Enter request(command) on process i.
Request(c, i, command) ==
  call' = [call EXCEPT ![c].pc = "enter", ![c].target = i, ![c].command = command]

\* An exception leaves the handler; async with frees the locks.
Raised(c) ==
  /\ Goto(c, "failed")
  /\ guard' = IF guard = c THEN None ELSE guard

\* The instance is locked, the process found alive and the command put.
Put(c) ==
  LET i == call[c].target IN
  /\ call[c].pc = "enter" /\ proc[i].lock = None
  /\ IF Alive(i)
     THEN /\ proc' = [proc EXCEPT ![i].lock = c,
                ![i].inbox = Append(@, [by |-> c, command |-> call[c].command])]
          /\ Goto(c, "await") /\ UNCHANGED guard
     ELSE Raised(c) /\ UNCHANGED proc
  /\ UNCHANGED <<instance, storage, rooted, faults>>

\* Where the handler goes on with the value of the answer.
Continued(c) ==
  IF call[c].command = "shutdown" THEN "join" ELSE "ok"

\* The poll of the response queue returns an answer.
Answered(c) ==
  LET i == call[c].target
      answer == Head(proc[i].outbox) IN
  /\ call[c].pc = "await" /\ ~call[c].missed /\ proc[i].outbox # << >>
  /\ proc' = [proc EXCEPT ![i].lock = None, ![i].outbox = Tail(@)]
  /\ IF answer.by = c /\ answer.ok
     THEN Goto(c, Continued(c)) /\ UNCHANGED guard
     ELSE Raised(c)
  /\ UNCHANGED <<instance, storage, rooted, faults>>

\* A poll finds nothing.  The handler goes on when the event loop gets to it:
\* until then the process may answer, or end.
EmptyPoll(c) ==
  /\ call[c].pc = "await" /\ ~call[c].missed /\ proc[call[c].target].outbox = << >>
  /\ call' = [call EXCEPT ![c].missed = TRUE]
  /\ UNCHANGED <<instance, guard, proc, storage, rooted, faults>>

\* Seeded defect: a poll that finds nothing fails the request.
GiveUpEmptyPoll(c) ==
  /\ call[c].pc = "await" /\ call[c].missed
  /\ proc' = [proc EXCEPT ![call[c].target].lock = None]
  /\ Raised(c)
  /\ UNCHANGED <<instance, storage, rooted, faults>>

\* Seeded defect: the process is not looked at.
PollOn(c) ==
  /\ call[c].pc = "await" /\ call[c].missed
  /\ call' = [call EXCEPT ![c].missed = FALSE]
  /\ UNCHANGED <<instance, guard, proc, storage, rooted, faults>>

\* is_alive after an empty poll: poll again, or "stopped unexpectedly".
LookAtProcess(c) ==
  LET i == call[c].target IN
  /\ call[c].pc = "await" /\ call[c].missed
  /\ IF Alive(i)
     THEN call' = [call EXCEPT ![c].missed = FALSE] /\ UNCHANGED <<guard, proc>>
     ELSE Raised(c) /\ proc' = [proc EXCEPT ![i].lock = None]
  /\ UNCHANGED <<instance, storage, rooted, faults>>

\* wait_for gave up a poll whose thread started late; the thread still takes
\* the next answer, and nobody reads what it returns.
LoseAnswer(i) ==
  /\ Fault("lost")
  /\ proc[i].outbox # << >>
  /\ proc' = [proc EXCEPT ![i].outbox = Tail(@)]
  /\ UNCHANGED <<instance, guard, storage, rooted, call>>

-----------------------------------------------------------------------------
(* Handlers of memory_service_main and the methods they call.              *)

\* A call arrives; get() refuses a command for a project without a process.
Submit(c, name, p, dataset, config) ==
  LET fields == [NoCall EXCEPT !.name = name, !.project = p,
                               !.dataset = dataset, !.config = config] IN
  /\ Ended(c)
  /\ call' = [call EXCEPT ![c] =
       CASE name \in {"start", "stop"} -> [fields EXCEPT !.pc = name]
         [] name \notin {"start", "stop"} /\ Running(p) ->
              [fields EXCEPT !.pc = "enter", !.target = instance[p], !.command = name]
         [] OTHER -> [fields EXCEPT !.pc = "failed"]]
  /\ UNCHANGED <<instance, guard, proc, storage, rooted>>

\* A process that nobody refers to any more.
Unused == {i \in Procs : /\ ~Alive(i)
                         /\ \A p \in Projects : instance[p] # i
                         /\ \A c \in Callers : Ended(c) \/ call[c].target # i}

\* A new process takes the place of the old one; start() gives up the
\* supervisor's lock and waits for the health of the new process.
Spawn(c) ==
  LET p == call[c].project
      i == Min(Unused) IN
  /\ Unused # {}
  /\ proc' = [proc EXCEPT ![i] =
       [NoProc EXCEPT !.state = "starting", !.project = p, !.config = call[c].config]]
  /\ instance' = [instance EXCEPT ![p] = i]
  /\ guard' = None
  /\ Request(c, i, "health")

\* Seeded defect: the process with the old configuration is not shut down.
StartBeside(c) ==
  LET p == call[c].project IN
  /\ call[c].pc = "start" /\ guard = None
  /\ \/ /\ Running(p) /\ proc[instance[p]].config = call[c].config
        /\ Goto(c, "ok")
        /\ UNCHANGED <<guard, instance, proc>>
     \/ /\ ~(Running(p) /\ proc[instance[p]].config = call[c].config)
        /\ Spawn(c)
  /\ UNCHANGED <<storage, rooted, faults>>

\* start() with the supervisor's lock.
Start(c) ==
  LET p == call[c].project
      i == instance[p] IN
  /\ call[c].pc = "start" /\ guard = None
  /\ \/ /\ Running(p) /\ proc[i].config = call[c].config
        /\ Goto(c, "ok")
        /\ UNCHANGED <<guard, instance, proc>>
     \/ /\ Running(p) /\ proc[i].config # call[c].config
        /\ guard' = c
        /\ Request(c, i, "shutdown")
        /\ UNCHANGED <<instance, proc>>
     \/ ~Running(p) /\ Spawn(c)
  /\ UNCHANGED <<storage, rooted, faults>>

\* stop() takes the instance out of the table, and goes on without the lock.
Stop(c) ==
  LET p == call[c].project
      i == instance[p] IN
  /\ call[c].pc = "stop" /\ guard = None
  /\ instance' = [instance EXCEPT ![p] = None]
  /\ IF Running(p) THEN Request(c, i, "shutdown") ELSE Goto(c, "remove")
  /\ UNCHANGED <<guard, proc, storage, rooted, faults>>

\* join(10) after the answer to a shutdown.
Join(c) ==
  /\ call[c].pc = "join"
  /\ \/ ~Alive(call[c].target) /\ UNCHANGED faults
     \/ Alive(call[c].target) /\ Fault("slow")
  /\ \/ call[c].name = "start" /\ Spawn(c)
     \/ call[c].name = "stop" /\ Goto(c, "remove") /\ UNCHANGED <<guard, instance, proc>>
  /\ UNCHANGED <<storage, rooted>>

\* Another process works on the storage: rmtree meets a file it does not expect,
\* and stops with some of the storage removed.
RemovalFails(c) ==
  LET p == call[c].project IN
  /\ call[c].pc = "remove"
  /\ \E i \in Procs : Alive(i) /\ proc[i].project = p
  /\ \E left \in SUBSET storage[p] : storage' = [storage EXCEPT ![p] = left]
  /\ Raised(c)
  /\ UNCHANGED <<instance, proc, rooted, faults>>

\* rmtree of the project's storage, and the answer.
RemoveStorage(c) ==
  LET p == call[c].project IN
  /\ call[c].pc = "remove"
  /\ storage' = [storage EXCEPT ![p] = {}]
  /\ rooted' = rooted \ {p}
  /\ call' = [call EXCEPT ![c].pc = "ok", ![c].applied = TRUE]
  /\ UNCHANGED <<instance, guard, proc, faults>>

-----------------------------------------------------------------------------
(* Processes.                                                              *)

\* _configure_cognee makes the directories of the project.
Configure(i) ==
  /\ proc[i].state = "starting"
  /\ proc' = [proc EXCEPT ![i].state = "serving"]
  /\ rooted' = rooted \cup {proc[i].project}
  /\ UNCHANGED <<instance, guard, storage, call, faults>>

\* _remember_dataset, _read_dataset_records and forget: what is stored after a
\* command, if it can be done.
Stored(c, before) ==
  LET d == call[c].dataset IN
  CASE call[c].name = "remember" -> before \cup {d}
    [] call[c].name = "forget"   -> before \ {d}
    [] OTHER                     -> before

\* Records are stored only by a process that has models.
Doable(i, c, command) ==
  LET d == call[c].dataset
      data == storage[proc[i].project] IN
  /\ command = "remember" =>
       d \notin data /\ (call[c].config = "models" => proc[i].config = "models")
  /\ command = "records" => d \in data

\* The loop of project_memory_process: one command, one answer.
Execute(i) ==
  LET item == Head(proc[i].inbox)
      c == item.by
      p == proc[i].project
      done(ok) ==
        proc' = [proc EXCEPT ![i].inbox = Tail(@),
                   ![i].outbox = Append(@, [by |-> c, ok |-> ok]),
                   ![i].state = IF item.command = "shutdown" THEN "exiting" ELSE @] IN
  /\ proc[i].state = "serving" /\ proc[i].inbox # << >>
  /\ \/ /\ Doable(i, c, item.command) /\ item.command \notin {"health", "shutdown"}
        /\ storage' = [storage EXCEPT ![p] = Stored(c, @)]
        /\ rooted' = rooted \cup {p}
        /\ call' = [call EXCEPT ![c].applied = TRUE]
        /\ \/ done(TRUE) /\ UNCHANGED faults
           \/ done(FALSE) /\ Fault("command")
     \/ /\ ~Doable(i, c, item.command)
        /\ done(FALSE)
        /\ UNCHANGED <<storage, rooted, call, faults>>
     \/ /\ item.command \in {"health", "shutdown"}
        /\ done(TRUE)
        /\ UNCHANGED <<storage, rooted, call, faults>>
  /\ UNCHANGED <<instance, guard>>

Exit(i) ==
  /\ proc[i].state = "exiting"
  /\ proc' = [proc EXCEPT ![i].state = "dead"]
  /\ UNCHANGED <<instance, guard, storage, rooted, call, faults>>

\* What a dead process has put into its response queue may be lost.
Crash(i) ==
  /\ Fault("crash")
  /\ Alive(i)
  /\ \E answers \in {proc[i].outbox, << >>} :
       proc' = [proc EXCEPT ![i].state = "dead", ![i].inbox = << >>, ![i].outbox = answers]
  /\ UNCHANGED <<instance, guard, storage, rooted, call>>

\* Seeded defect: the processes outlive the service.
RestartBesideProcesses ==
  /\ Fault("restart")
  /\ instance' = [p \in Projects |-> None]
  /\ guard' = None
  /\ call' = [c \in Callers |-> IF Ended(c) THEN call[c] ELSE [call[c] EXCEPT !.pc = "failed"]]
  /\ UNCHANGED <<proc, storage, rooted>>

\* The service dies with its processes and comes back without instances.
Restart ==
  /\ Fault("restart")
  /\ instance' = [p \in Projects |-> None]
  /\ guard' = None
  /\ proc' = [i \in Procs |-> NoProc]
  /\ call' = [c \in Callers |-> IF Ended(c) THEN call[c] ELSE [call[c] EXCEPT !.pc = "failed"]]
  /\ UNCHANGED <<storage, rooted>>

HandlerStep(c) ==
  \/ Put(c) \/ Answered(c) \/ EmptyPoll(c) \/ LookAtProcess(c)
  \/ Start(c) \/ Stop(c) \/ Join(c) \/ RemoveStorage(c) \/ RemovalFails(c)
ProcessStep(i) == Configure(i) \/ Execute(i) \/ Exit(i)
ServiceStep ==
  \/ \E c \in Callers : HandlerStep(c)
  \/ \E i \in Procs : ProcessStep(i) \/ Crash(i) \/ LoseAnswer(i)
  \/ Restart
=============================================================================
