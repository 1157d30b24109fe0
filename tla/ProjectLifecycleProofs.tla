----------------------- MODULE ProjectLifecycleProofs -----------------------
(***************************************************************************)
(* Theorems about ProjectLifecycle and MemorySupervisor, for any callers,  *)
(* projects, processes and faults: answers reach the call that waits for   *)
(* them, replaced processes are shut down, projects are complete while     *)
(* they exist and leave nothing behind, and the service implements         *)
(* MemoryStore.                                                            *)
(***************************************************************************)
EXTENDS ProjectLifecycle, Numbers

-----------------------------------------------------------------------------
(* The inductive invariants.                                               *)

Using == {"remember", "records", "forget"}

\* At most one command or answer is under way in a process, for the call that holds
\* its lock; an answer says what became of the command.  Only a process that is dead
\* may have an answer that its call did not wait for.
QueueOK(i) ==
  /\ Alive(i) => proc[i].project \in Projects
  /\ Len(proc[i].inbox) + Len(proc[i].outbox) <= 1
  /\ Alive(i) /\ proc[i].inbox # << >> =>
       /\ proc[i].lock # None
       /\ Head(proc[i].inbox).by = proc[i].lock
       /\ Head(proc[i].inbox).command = call[proc[i].lock].command
       /\ ~call[proc[i].lock].applied
  /\ Alive(i) /\ proc[i].outbox # << >> => proc[i].lock # None
  /\ proc[i].lock # None /\ proc[i].outbox # << >> =>
       /\ Head(proc[i].outbox).by = proc[i].lock
       /\ Head(proc[i].outbox).ok /\ call[proc[i].lock].command \in Using
            => call[proc[i].lock].applied
       /\ call[proc[i].lock].command = "shutdown" => proc[i].state \in {"exiting", "dead"}
  /\ proc[i].lock # None =>
       call[proc[i].lock].pc = "await" /\ call[proc[i].lock].target = i

\* A call waits for a process of its project, which holds its lock for it.  A start
\* keeps the supervisor's lock and the instance from its shutdown to its join.
CallOK(c) ==
  /\ call[c].pc # "none" => call[c].project \in Projects
  /\ call[c].name \in Using => call[c].dataset \in Datasets
  /\ call[c].pc \in {"enter", "await", "join"} =>
       call[c].target \in Procs /\ proc[call[c].target].project = call[c].project
  /\ call[c].pc = "await" => proc[call[c].target].lock = c
  /\ call[c].pc \in {"enter", "await"} =>
       \/ call[c].name \in Using /\ call[c].command = call[c].name
       \/ call[c].name = "start" /\ call[c].command \in {"health", "shutdown"}
       \/ call[c].name = "stop" /\ call[c].command = "shutdown"
  /\ call[c].pc = "start" => call[c].name = "start" /\ call[c].command = None
  /\ call[c].pc \in {"stop", "remove"} => call[c].name = "stop"
  /\ call[c].pc = "stop" => call[c].target = None
  /\ call[c].pc = "join" => call[c].name \in {"start", "stop"} /\ call[c].command = "shutdown"
  /\ call[c].pc \in {"join", "remove"} /\ call[c].target # None =>
       proc[call[c].target].state \in {"exiting", "dead"}
  /\ call[c].pc \in {"start", "stop", "enter", "join", "remove"} => ~call[c].applied
  /\ call[c].name = "start" => ~call[c].applied
  /\ call[c].name = "stop" /\ call[c].pc # "ok" => ~call[c].applied
  /\ call[c].name # "start" /\ call[c].pc = "ok" => call[c].applied
  /\ call[c].name = "start" /\ call[c].command = "shutdown" /\ ~Ended(c) =>
       guard = c /\ instance[call[c].project] = call[c].target

InstanceOK(p) == instance[p] # None => proc[instance[p]].project = p

ServiceInv ==
  /\ \A i \in Procs : QueueOK(i)
  /\ \A c \in Callers : CallOK(c)
  /\ \A p \in Projects : InstanceOK(p)

-----------------------------------------------------------------------------

Users(p) == {c \in Callers : client[c].project = p}

\* What a request has called, at each of its steps.
ClientOK(c) ==
  /\ client[c].pc = "idle" <=> client[c].kind = None
  /\ client[c].pc = "idle" =>
       client[c].project = None /\ call[c].pc = "none" /\ call[c].name = "start"
  /\ client[c].pc # "idle" => client[c].project \in Projects
  /\ call[c].pc # "none" => call[c].project = client[c].project
  /\ client[c].kind = "create" =>
       /\ client[c].pc \in {"starting", "remembering", "committing", "undoing",
                            "ok", "failed", "leaked"}
       /\ client[c].pc = "starting" => call[c].name = "start"
       /\ client[c].pc \in {"remembering", "committing"} =>
            call[c].name = "remember" /\ call[c].pc # "none"
       /\ client[c].pc = "committing" => call[c].pc = "ok"
       /\ client[c].pc = "undoing" => call[c].name = "stop" /\ call[c].pc # "none"
       /\ client[c].pc = "failed" =>
            call[c].pc = "none" \/ (call[c].name = "stop" /\ call[c].pc = "ok")
       /\ call[c].name = "remember" => call[c].dataset = Root
       /\ call[c].name = "stop" => client[c].pc \in {"undoing", "failed", "leaked"}
       /\ call[c].name \in {"start", "remember", "stop"}
  /\ client[c].kind = "delete" =>
       /\ client[c].pc \in {"stopping", "committing", "ok", "failed"}
       /\ call[c].name = "stop" /\ call[c].pc # "none"
       /\ client[c].pc \in {"committing", "ok"} => call[c].pc = "ok"
  /\ client[c].kind = "store" =>
       /\ client[c].pc \in {"starting", "reading", "remembering", "committing", "undoing",
                            "ok", "failed"}
       /\ call[c].pc # "none"
       /\ client[c].pc \in {"remembering", "committing", "ok"} => call[c].name = "remember"
       /\ client[c].pc \in {"committing", "ok"} => call[c].pc = "ok"
       /\ call[c].name = "forget" => client[c].pc \in {"undoing", "failed"}
       /\ call[c].name \in Using => call[c].name = "records" \/ call[c].dataset = c
       /\ call[c].name # "stop"
  /\ client[c].kind = "read" => 
       /\ client[c].pc \in {"starting", "reading", "ok", "failed"}
       /\ call[c].name \in {"start", "records"} /\ call[c].pc # "none"

\* A project that is being created has no row and no other request.
CreatorOK(c) ==
  client[c].kind = "create" /\ client[c].pc # "ok" =>
    /\ client[c].project \notin row /\ Users(client[c].project) = {c}
    /\ client[c].pc \in {"starting", "remembering", "committing"} => client[c].project \in git
    /\ client[c].pc \in {"undoing", "failed"} => client[c].project \notin git
    /\ call[c].name = "remember" /\ call[c].applied => Root \in storage[client[c].project]

\* While nobody deletes a project it has what was acknowledged.
CompleteFor(p) ==
  /\ p \in row => p \in git /\ Root \in storage[p]
  /\ \A c \in Of(p, {"store"}) :
       call[c].name = "remember" /\ call[c].applied => c \in storage[p]

RequestsInv ==
  /\ \A c \in Callers : ClientOK(c) /\ CreatorOK(c)
  /\ \A p \in Projects : Of(p, {"delete"}) = {} => CompleteFor(p)
  /\ \A p \in Projects \ row : Users(p) = {} => p \notin git

-----------------------------------------------------------------------------

\* Nothing of the project is stored and no process works on it.
Removed(p) ==
  /\ p \notin rooted /\ storage[p] = {}
  /\ \A i \in Procs : Alive(i) /\ proc[i].project = p => proc[i].state = "exiting"

\* Requests that stop the memory of a project while no other request uses it.
Removing(c) ==
  \/ client[c].kind = "create" /\ client[c].pc \in {"undoing", "failed"} /\ call[c].pc # "none"
  \/ client[c].kind = "delete" /\ client[c].alone /\ client[c].pc \in {"stopping", "committing", "ok"}

\* A stop takes the instance out of the table before it removes the storage.
StopGoes(c, p) ==
  /\ call[c].pc \in {"enter", "await", "join", "remove", "ok"} => instance[p] = None
  /\ call[c].pc = "ok" => Removed(p)

RemovalOK(c) ==
  Removing(c) =>
    /\ \A d \in Users(client[c].project) \ {c} : ~Open(d)
    /\ StopGoes(c, client[c].project)
    /\ client[c].kind = "delete" /\ client[c].pc \in {"committing", "ok"} =>
         client[c].project \notin git

RemovalInv ==
  /\ \A c \in Callers : RemovalOK(c)
  /\ \A c \in Callers : client[c].kind = "create" /\ client[c].pc = "failed" =>
       Removed(client[c].project)
  /\ \A c \in Callers : client[c].kind = "delete" /\ client[c].pc = "ok" =>
       client[c].project \notin row
  /\ \A p \in Projects \ row :
       \/ Users(p) = {} /\ p \notin git /\ Removed(p)
       \/ \E c \in Users(p) : client[c].kind = "create" /\ client[c].pc # "ok"
       \/ \E c \in Users(p) : client[c].kind = "delete" /\ client[c].pc = "ok"

-----------------------------------------------------------------------------
(* What the steps of the service do to calls and processes.                *)

ServiceTypes ==
  /\ instance \in [Projects -> Procs \cup {None}] /\ guard \in Callers \cup {None}
  /\ proc \in [Procs -> ProcRows] /\ call \in [Callers -> CallRows]
  /\ storage \in [Projects -> SUBSET Datasets] /\ rooted \subseteq Projects

\* The parts of a queue that is not empty.
LEMMA HeadAndTail ==
  ASSUME NEW S, NEW s \in Seq(S), s # << >>
  PROVE  /\ Head(s) \in S /\ Tail(s) \in Seq(S)
         /\ Len(s) >= 1 /\ Len(Tail(s)) = Len(s) - 1
OBVIOUS

\* A queue without elements is the empty one.
LEMMA EmptyQueue ==
  ASSUME NEW S, NEW s \in Seq(S)
  PROVE  /\ Len(s) \in Nat /\ Len(s) = 0 <=> s = << >>
OBVIOUS

\* The first of a queue that gets one more.
LEMMA HeadOfAppend ==
  ASSUME NEW S, NEW s \in Seq(S), NEW e \in S
  PROVE  /\ Append(s, e) \in Seq(S) /\ Append(s, e) # << >> /\ Len(Append(s, e)) = Len(s) + 1
         /\ s = << >> => Head(Append(s, e)) = e
OBVIOUS

\* Only call c changes, to the row given.
Becomes(c, r) ==
  /\ call' = [call EXCEPT ![c] = r]
  /\ call'[c] = r /\ \A d \in Callers : d # c => call'[d] = call[d]

\* What changes in the row of a call that goes on.
Continues(c, pc, target, command, applied) ==
  /\ call' \in [Callers -> CallRows] /\ \A d \in Callers : d # c => call'[d] = call[d]
  /\ call'[c].pc = pc /\ call'[c].target = target /\ call'[c].command = command
  /\ call'[c].applied = applied /\ call'[c].name = call[c].name
  /\ call'[c].project = call[c].project /\ call'[c].dataset = call[c].dataset
  /\ call'[c].config = call[c].config

\* What moving a call to its next point writes.
LEMMA GotoIs ==
  ASSUME ServiceTypes, NEW c \in Callers, NEW pc, Goto(c, pc)
  PROVE  Becomes(c, [call[c] EXCEPT !.pc = pc])
BY DEF Goto, Becomes, ServiceTypes

\* What handing a command to a worker process writes.
LEMMA RequestIs ==
  ASSUME ServiceTypes, NEW c \in Callers, NEW i, NEW command, Request(c, i, command)
  PROVE  Becomes(c, [call[c] EXCEPT !.pc = "enter", !.target = i, !.command = command])
BY DEF Request, Becomes, ServiceTypes

\* A call that arrives: a start, a stop, a command for a process, or refused at once.
LEMMA SubmitIs ==
  ASSUME ServiceTypes, NEW c \in Callers, NEW name \in Names, NEW p \in Projects,
         NEW dataset \in Datasets \cup {None}, NEW config \in Configs \cup {None},
         Submit(c, name, p, dataset, config)
  PROVE  /\ Ended(c) /\ UNCHANGED <<instance, guard, proc, storage, rooted>>
         /\ \A d \in Callers : d # c => call'[d] = call[d]
         /\ call' \in [Callers -> CallRows]
         /\ call'[c].name = name /\ call'[c].project = p /\ call'[c].dataset = dataset
         /\ call'[c].config = config /\ ~call'[c].applied
         /\ call'[c].pc \in {"start", "stop", "enter", "failed"}
         /\ call'[c].pc \in {"start", "stop"} =>
              /\ call'[c].pc = name /\ call'[c].command = None /\ call'[c].target = None
         /\ call'[c].pc = "enter" =>
              /\ name \in Using /\ call'[c].command = name
              /\ Running(p) /\ call'[c].target = instance[p]
         /\ call'[c].pc = "failed" => name \in Using /\ call'[c].command = None
<1> DEFINE fields == [NoCall EXCEPT !.name = name, !.project = p,
                                    !.dataset = dataset, !.config = config]
<1>0. NoCall \in CallRows
  BY DEF NoCall, CallRows, Names
<1>1. /\ fields.name = name /\ fields.project = p /\ fields.dataset = dataset
      /\ fields.config = config /\ fields.pc = "none" /\ fields.command = None
      /\ fields.target = None /\ fields.applied = FALSE
  BY DEF NoCall
<1>2. fields \in CallRows
  BY <1>0 DEF CallRows
<1> DEFINE r == CASE name \in {"start", "stop"} -> [fields EXCEPT !.pc = name]
                  [] name \notin {"start", "stop"} /\ Running(p) ->
                       [fields EXCEPT !.pc = "enter", !.target = instance[p], !.command = name]
                  [] OTHER -> [fields EXCEPT !.pc = "failed"]
<1>3. /\ Ended(c) /\ UNCHANGED <<instance, guard, proc, storage, rooted>>
      /\ call' = [call EXCEPT ![c] = r]
  BY DEF Submit
<1> HIDE DEF fields
<1>4. /\ r \in CallRows /\ r.name = name /\ r.project = p /\ r.dataset = dataset
      /\ r.config = config /\ ~r.applied /\ r.pc \in {"start", "stop", "enter", "failed"}
      /\ r.pc \in {"start", "stop"} => r.pc = name /\ r.command = None /\ r.target = None
      /\ r.pc = "enter" => /\ name \in Using /\ r.command = name
                           /\ Running(p) /\ r.target = instance[p]
      /\ r.pc = "failed" => name \in Using /\ r.command = None
  <2>1. CASE name \in {"start", "stop"}
    BY <1>1, <1>2, <2>1 DEF CallRows
  <2>2. CASE name \notin {"start", "stop"} /\ Running(p)
    <3>1. r = [fields EXCEPT !.pc = "enter", !.target = instance[p], !.command = name]
      BY <2>2
    <3>2. instance[p] \in Procs /\ name \in Using
      BY <2>2 DEF Running, ServiceTypes, Names, Using
    <3> HIDE DEF r
    <3> QED BY <1>1, <1>2, <2>2, <3>1, <3>2 DEF CallRows, Commands, Using
  <2>3. CASE name \notin {"start", "stop"} /\ ~Running(p)
    <3>1. r = [fields EXCEPT !.pc = "failed"]
      BY <2>3
    <3>2. name \in Using
      BY <2>3 DEF Names, Using
    <3> HIDE DEF r
    <3> QED BY <1>1, <1>2, <3>1, <3>2 DEF CallRows
  <2> QED BY <2>1, <2>2, <2>3
<1> HIDE DEF r
<1> QED BY <1>3, <1>4 DEF ServiceTypes

\* A new process is one nobody refers to.
LEMMA UnusedIs ==
  ASSUME Unused # {}
  PROVE  /\ Min(Unused) \in Procs /\ ~Alive(Min(Unused))
         /\ \A p \in Projects : instance[p] # Min(Unused)
         /\ \A c \in Callers : Ended(c) \/ call[c].target # Min(Unused)
<1>1. Unused \in SUBSET Nat
  BY ProcsAssumption DEF Unused
<1>2. Min(Unused) \in Unused
  BY <1>1, LeastNumber
<1> QED BY <1>2 DEF Unused

\* A spawned process is one nobody holds, runs or waits for.
LEMMA SpawnIs ==
  ASSUME ServiceTypes, NEW c \in Callers, call[c].project \in Projects, Spawn(c)
  PROVE  \E i \in Procs :
           /\ ~Alive(i)
           /\ \A p \in Projects : instance[p] # i
           /\ \A d \in Callers : Ended(d) \/ call[d].target # i
           /\ \A j \in Procs \ {i} : proc'[j] = proc[j]
           /\ proc' \in [Procs -> ProcRows]
           /\ proc'[i].state = "starting" /\ proc'[i].project = call[c].project
           /\ proc'[i].lock = None /\ proc'[i].inbox = << >> /\ proc'[i].outbox = << >>
           /\ instance' = [instance EXCEPT ![call[c].project] = i]
           /\ guard' = None
           /\ Becomes(c, [call[c] EXCEPT !.pc = "enter", !.target = i, !.command = "health"])
<1> DEFINE i == Min(Unused)
<1>1. Unused # {} /\ Request(c, i, "health") /\ guard' = None
      /\ instance' = [instance EXCEPT ![call[c].project] = i]
      /\ proc' = [proc EXCEPT ![i] = [NoProc EXCEPT !.state = "starting",
                    !.project = call[c].project, !.config = call[c].config]]
  BY DEF Spawn
<1>2. i \in Procs
  BY <1>1, UnusedIs
<1> DEFINE r == [NoProc EXCEPT !.state = "starting", !.project = call[c].project,
                               !.config = call[c].config]
<1>3. /\ r.state = "starting" /\ r.project = call[c].project
      /\ r.lock = None /\ r.inbox = << >> /\ r.outbox = << >>
  BY DEF NoProc
<1>4. NoProc \in ProcRows
  BY DEF NoProc, ProcRows
<1>5. r \in ProcRows
  BY <1>4 DEF ServiceTypes, CallRows, ProcRows
<1> HIDE DEF r
<1>6. proc' = [proc EXCEPT ![i] = r]
  BY <1>1 DEF r
<1> HIDE DEF i
<1>7. /\ \A j \in Procs \ {i} : proc'[j] = proc[j]
      /\ proc' \in [Procs -> ProcRows] /\ proc'[i] = r
  BY <1>2, <1>5, <1>6 DEF ServiceTypes
<1>8. Becomes(c, [call[c] EXCEPT !.pc = "enter", !.target = i, !.command = "health"])
  BY <1>1, RequestIs
<1>9. /\ ~Alive(i) /\ \A p \in Projects : instance[p] # i
      /\ \A d \in Callers : Ended(d) \/ call[d].target # i
  BY <1>1, UnusedIs DEF i
<1> QED BY <1>1, <1>2, <1>3, <1>7, <1>8, <1>9

\* Only process i changes, to the row given.
ProcBecomes(i, r) ==
  /\ r \in ProcRows /\ proc' \in [Procs -> ProcRows]
  /\ proc'[i] = r /\ \A j \in Procs : j # i => proc'[j] = proc[j]

\* What a call that raises writes: it fails, and lets the service's lock go.
LEMMA RaisedIs ==
  ASSUME ServiceTypes, NEW c \in Callers, Raised(c)
  PROVE  /\ Becomes(c, [call[c] EXCEPT !.pc = "failed"])
         /\ guard' = IF guard = c THEN None ELSE guard
BY GotoIs DEF Raised

\* What putting a command in a worker's inbox writes.
LEMMA PutIs ==
  ASSUME ServiceTypes, NEW c \in Callers, CallOK(c), Put(c)
  PROVE  LET i == call[c].target IN
         /\ call[c].pc = "enter" /\ i \in Procs /\ proc[i].lock = None
         /\ UNCHANGED <<instance, storage, rooted>>
         /\ \/ /\ Alive(i) /\ UNCHANGED guard
               /\ ProcBecomes(i, [proc[i] EXCEPT !.lock = c,
                    !.inbox = Append(@, [by |-> c, command |-> call[c].command])])
               /\ Becomes(c, [call[c] EXCEPT !.pc = "await"])
            \/ /\ ~Alive(i) /\ UNCHANGED proc
               /\ Becomes(c, [call[c] EXCEPT !.pc = "failed"])
               /\ guard' = IF guard = c THEN None ELSE guard
<1> DEFINE i == call[c].target
<1>1. call[c].pc = "enter" /\ proc[i].lock = None /\ UNCHANGED <<instance, storage, rooted>>
  BY DEF Put
<1>2. i \in Procs /\ call[c].command \in Commands
  BY <1>1 DEF CallOK, Commands, Using
<1>3. CASE Alive(i)
  <2> DEFINE r == [proc[i] EXCEPT !.lock = c,
                    !.inbox = Append(@, [by |-> c, command |-> call[c].command])]
  <2>1. proc' = [proc EXCEPT ![i] = r] /\ Goto(c, "await") /\ UNCHANGED guard
    BY <1>3 DEF Put
  <2>2. r \in ProcRows
    <3>1. proc[i] \in ProcRows /\ proc[i].inbox \in Seq([by : Callers, command : Commands])
      BY <1>2 DEF ServiceTypes, ProcRows
    <3>2. Append(proc[i].inbox, [by |-> c, command |-> call[c].command])
            \in Seq([by : Callers, command : Commands])
      BY <1>2, <3>1
    <3> QED BY <3>1, <3>2 DEF ProcRows
  <2> HIDE DEF r
  <2>3. ProcBecomes(i, r)
    BY <1>2, <2>1, <2>2 DEF ServiceTypes, ProcBecomes
  <2> QED BY <1>1, <1>2, <1>3, <2>1, <2>3, GotoIs DEF r
<1>4. CASE ~Alive(i)
  BY <1>1, <1>2, <1>4, RaisedIs DEF Put
<1> QED BY <1>3, <1>4

\* The process of an answer: its lock is free and its answer taken.
LEMMA AnsweredIs ==
  ASSUME ServiceTypes, NEW c \in Callers, CallOK(c), Answered(c)
  PROVE  LET i == call[c].target IN
         /\ call[c].pc = "await" /\ i \in Procs /\ proc[i].outbox # << >>
         /\ UNCHANGED <<instance, storage, rooted>>
         /\ ProcBecomes(i, [proc[i] EXCEPT !.lock = None, !.outbox = Tail(@)])
         /\ \/ /\ Head(proc[i].outbox).by = c /\ Head(proc[i].outbox).ok /\ UNCHANGED guard
               /\ Becomes(c, [call[c] EXCEPT !.pc = Continued(c)])
            \/ /\ ~(Head(proc[i].outbox).by = c /\ Head(proc[i].outbox).ok)
               /\ Becomes(c, [call[c] EXCEPT !.pc = "failed"])
               /\ guard' = IF guard = c THEN None ELSE guard
<1> DEFINE i == call[c].target
           r == [proc[i] EXCEPT !.lock = None, !.outbox = Tail(@)]
<1>1. /\ call[c].pc = "await" /\ proc[i].outbox # << >> /\ UNCHANGED <<instance, storage, rooted>>
      /\ proc' = [proc EXCEPT ![i] = r]
  BY DEF Answered
<1>2. i \in Procs
  BY <1>1 DEF CallOK
<1>3. r \in ProcRows
  <2>1. proc[i] \in ProcRows /\ proc[i].outbox \in Seq([by : Callers, ok : BOOLEAN])
    BY <1>2 DEF ServiceTypes, ProcRows
  <2>2. Tail(proc[i].outbox) \in Seq([by : Callers, ok : BOOLEAN])
    BY <1>1, <2>1
  <2> QED BY <2>1, <2>2 DEF ProcRows
<1> HIDE DEF r
<1>4. ProcBecomes(i, r)
  BY <1>1, <1>2, <1>3 DEF ServiceTypes, ProcBecomes
<1>5. \/ /\ Head(proc[i].outbox).by = c /\ Head(proc[i].outbox).ok /\ UNCHANGED guard
         /\ Becomes(c, [call[c] EXCEPT !.pc = Continued(c)])
      \/ /\ ~(Head(proc[i].outbox).by = c /\ Head(proc[i].outbox).ok)
         /\ Becomes(c, [call[c] EXCEPT !.pc = "failed"])
         /\ guard' = IF guard = c THEN None ELSE guard
  BY GotoIs, RaisedIs DEF Answered
<1> QED BY <1>1, <1>2, <1>4, <1>5 DEF r

\* A poll that finds nothing, and a look that finds the process alive, change nothing
\* but what the handler does next; a look that finds it dead ends the call.
LEMMA MissedIs ==
  ASSUME ServiceTypes, NEW c \in Callers, NEW missed \in BOOLEAN, call[c].pc = "await",
         call' = [call EXCEPT ![c].missed = missed]
  PROVE  Continues(c, "await", call[c].target, call[c].command, call[c].applied)
<1>1. call[c] \in CallRows /\ call'[c] = [call[c] EXCEPT !.missed = missed]
  BY DEF ServiceTypes
<1>2. call'[c] \in CallRows
  BY <1>1 DEF CallRows
<1> QED BY <1>1, <1>2 DEF Continues, ServiceTypes, CallRows

\* What an empty poll, or the look at the process after it, writes.
LEMMA LookIs ==
  ASSUME ServiceTypes, NEW c \in Callers, CallOK(c), EmptyPoll(c) \/ LookAtProcess(c)
  PROVE  LET i == call[c].target IN
         /\ call[c].pc = "await" /\ i \in Procs
         /\ UNCHANGED <<instance, storage, rooted>>
         /\ \/ /\ Continues(c, "await", i, call[c].command, call[c].applied)
               /\ UNCHANGED <<proc, guard>>
            \/ /\ ~Alive(i)
               /\ ProcBecomes(i, [proc[i] EXCEPT !.lock = None])
               /\ Becomes(c, [call[c] EXCEPT !.pc = "failed"])
               /\ guard' = IF guard = c THEN None ELSE guard
<1> DEFINE i == call[c].target
           r == [proc[i] EXCEPT !.lock = None]
<1>1. call[c].pc = "await" /\ UNCHANGED <<instance, storage, rooted>>
  BY DEF EmptyPoll, LookAtProcess
<1>2. i \in Procs
  BY <1>1 DEF CallOK
<1>3. \/ /\ \E missed \in BOOLEAN : call' = [call EXCEPT ![c].missed = missed]
         /\ UNCHANGED <<proc, guard>>
      \/ ~Alive(i) /\ Raised(c) /\ proc' = [proc EXCEPT ![i] = r]
  BY DEF EmptyPoll, LookAtProcess
<1>4. r \in ProcRows
  BY <1>2 DEF ServiceTypes, ProcRows
<1> HIDE DEF r
<1>5. ASSUME ~Alive(i), Raised(c), proc' = [proc EXCEPT ![i] = r]
      PROVE  /\ ProcBecomes(i, r) /\ Becomes(c, [call[c] EXCEPT !.pc = "failed"])
             /\ guard' = IF guard = c THEN None ELSE guard
  BY <1>2, <1>4, <1>5, RaisedIs DEF ServiceTypes, ProcBecomes
<1> QED BY <1>1, <1>2, <1>3, <1>5, MissedIs DEF r

\* A command is executed: what is stored, and the answer.
LEMMA ExecuteIs ==
  ASSUME ServiceTypes, NEW i \in Procs, Execute(i)
  PROVE  LET item == Head(proc[i].inbox)
             c == item.by IN
         /\ proc[i].state = "serving" /\ proc[i].inbox # << >>
         /\ c \in Callers /\ item.command \in Commands
         /\ UNCHANGED <<instance, guard>>
         /\ \E ok \in BOOLEAN :
              /\ ProcBecomes(i, [proc[i] EXCEPT !.inbox = Tail(@),
                   !.outbox = Append(@, [by |-> c, ok |-> ok]),
                   !.state = IF item.command = "shutdown" THEN "exiting" ELSE @])
              /\ \/ /\ Doable(i, c, item.command) /\ item.command \in Using
                    /\ storage' = [storage EXCEPT ![proc[i].project] = Stored(c, @)]
                    /\ rooted' = rooted \cup {proc[i].project}
                    /\ Becomes(c, [call[c] EXCEPT !.applied = TRUE])
                 \/ /\ ok => item.command \in {"health", "shutdown"}
                    /\ UNCHANGED <<storage, rooted, call>>
<1> DEFINE item == Head(proc[i].inbox)
           c == item.by
           r(ok) == [proc[i] EXCEPT !.inbox = Tail(@),
                       !.outbox = Append(@, [by |-> c, ok |-> ok]),
                       !.state = IF item.command = "shutdown" THEN "exiting" ELSE @]
<1>1. proc[i].state = "serving" /\ proc[i].inbox # << >> /\ UNCHANGED <<instance, guard>>
  BY DEF Execute
<1>2. /\ proc[i] \in ProcRows /\ proc[i].inbox \in Seq([by : Callers, command : Commands])
      /\ proc[i].outbox \in Seq([by : Callers, ok : BOOLEAN])
  BY DEF ServiceTypes, ProcRows
<1>3. /\ c \in Callers /\ item.command \in Commands
      /\ Tail(proc[i].inbox) \in Seq([by : Callers, command : Commands])
  <2>1. item \in [by : Callers, command : Commands]
    BY <1>1, <1>2, HeadAndTail
  <2>2. Tail(proc[i].inbox) \in Seq([by : Callers, command : Commands])
    BY <1>1, <1>2, HeadAndTail
  <2> HIDE DEF item
  <2> QED BY <2>1, <2>2
<1> HIDE DEF item, c
<1>4. ASSUME NEW ok \in BOOLEAN PROVE r(ok) \in ProcRows
  <2>1. Append(proc[i].outbox, [by |-> c, ok |-> ok]) \in Seq([by : Callers, ok : BOOLEAN])
    BY <1>2, <1>3
  <2> QED BY <1>2, <1>3, <2>1 DEF ProcRows
<1> HIDE DEF r
<1>5. ASSUME NEW ok \in BOOLEAN, proc' = [proc EXCEPT ![i] = r(ok)]
      PROVE  ProcBecomes(i, r(ok))
  BY <1>4, <1>5 DEF ServiceTypes, ProcBecomes
<1>6. \E ok \in BOOLEAN :
        /\ proc' = [proc EXCEPT ![i] = r(ok)]
        /\ \/ /\ Doable(i, c, item.command) /\ item.command \in Using
              /\ storage' = [storage EXCEPT ![proc[i].project] = Stored(c, @)]
              /\ rooted' = rooted \cup {proc[i].project}
              /\ call' = [call EXCEPT ![c].applied = TRUE]
           \/ /\ ok => item.command \in {"health", "shutdown"}
              /\ UNCHANGED <<storage, rooted, call>>
  BY <1>3 DEF Execute, r, item, c, Commands, Using
<1>7. call' = [call EXCEPT ![c].applied = TRUE] => Becomes(c, [call[c] EXCEPT !.applied = TRUE])
  BY <1>3 DEF Becomes, ServiceTypes
<1> QED BY <1>1, <1>3, <1>5, <1>6, <1>7 DEF r, item, c

\* A call takes the instance out of the table, or finds it and shuts it down.
LEMMA StartIs ==
  ASSUME ServiceTypes, NEW c \in Callers, call[c].project \in Projects, Start(c)
  PROVE  LET p == call[c].project IN
         /\ call[c].pc = "start" /\ guard = None /\ UNCHANGED <<storage, rooted>>
         /\ \/ /\ UNCHANGED <<guard, instance, proc>>
               /\ Becomes(c, [call[c] EXCEPT !.pc = "ok"])
            \/ /\ Running(p) /\ UNCHANGED <<instance, proc>> /\ guard' = c
               /\ Becomes(c, [call[c] EXCEPT !.pc = "enter", !.target = instance[p],
                                             !.command = "shutdown"])
            \/ ~Running(p) /\ Spawn(c)
BY GotoIs, RequestIs DEF Start

\* What asking for a project's worker to stop writes.
LEMMA StopIs ==
  ASSUME ServiceTypes, NEW c \in Callers, call[c].project \in Projects, Stop(c)
  PROVE  LET p == call[c].project IN
         /\ call[c].pc = "stop" /\ guard = None /\ UNCHANGED <<guard, proc, storage, rooted>>
         /\ instance' = [instance EXCEPT ![p] = None]
         /\ \/ /\ Running(p)
               /\ Becomes(c, [call[c] EXCEPT !.pc = "enter", !.target = instance[p],
                                             !.command = "shutdown"])
            \/ ~Running(p) /\ Becomes(c, [call[c] EXCEPT !.pc = "remove"])
BY GotoIs, RequestIs DEF Stop

\* What removing a project's storage writes.
LEMMA RemoveStorageIs ==
  ASSUME ServiceTypes, NEW c \in Callers, RemoveStorage(c)
  PROVE  /\ call[c].pc = "remove" /\ UNCHANGED <<instance, guard, proc>>
         /\ storage' = [storage EXCEPT ![call[c].project] = {}]
         /\ rooted' = rooted \ {call[c].project}
         /\ Becomes(c, [call[c] EXCEPT !.pc = "ok", !.applied = TRUE])
BY DEF RemoveStorage, Becomes, ServiceTypes

\* What a removal that stops half way writes.
LEMMA RemovalFailsIs ==
  ASSUME ServiceTypes, NEW c \in Callers, call[c].project \in Projects, RemovalFails(c)
  PROVE  /\ call[c].pc = "remove" /\ UNCHANGED <<instance, proc, rooted>>
         /\ storage' \in [Projects -> SUBSET Datasets]
         /\ \E left \in SUBSET storage[call[c].project] :
              storage' = [storage EXCEPT ![call[c].project] = left]
         /\ Becomes(c, [call[c] EXCEPT !.pc = "failed"])
         /\ guard' = IF guard = c THEN None ELSE guard
BY RaisedIs DEF RemovalFails, ServiceTypes

\* What a crashing worker leaves: an empty inbox, and its answers or none.
LEMMA CrashIs ==
  ASSUME ServiceTypes, NEW i \in Procs, Crash(i)
  PROVE  /\ Alive(i) /\ UNCHANGED <<instance, guard, storage, rooted, call>>
         /\ \E answers \in {proc[i].outbox, << >>} :
              ProcBecomes(i, [proc[i] EXCEPT !.state = "dead", !.inbox = << >>,
                                             !.outbox = answers])
<1>1. Alive(i) /\ UNCHANGED <<instance, guard, storage, rooted, call>>
  BY DEF Crash
<1>2. PICK answers \in {proc[i].outbox, << >>} :
        proc' = [proc EXCEPT ![i].state = "dead", ![i].inbox = << >>, ![i].outbox = answers]
  BY DEF Crash
<1> DEFINE r == [proc[i] EXCEPT !.state = "dead", !.inbox = << >>, !.outbox = answers]
<1>3. r \in ProcRows
  <2>1. proc[i] \in ProcRows
    BY DEF ServiceTypes
  <2>2. /\ proc[i].outbox \in Seq([by : Callers, ok : BOOLEAN])
        /\ << >> \in Seq([by : Callers, ok : BOOLEAN])
    BY <2>1 DEF ProcRows
  <2>4. answers \in Seq([by : Callers, ok : BOOLEAN])
    BY <1>2, <2>2
  <2>3. << >> \in Seq([by : Callers, command : Commands])
    OBVIOUS
  <2> QED BY <2>1, <2>3, <2>4 DEF ProcRows
<1>4. proc' = [proc EXCEPT ![i] = r]
  BY <1>2
<1> HIDE DEF r
<1>5. ProcBecomes(i, r)
  BY <1>3, <1>4 DEF ServiceTypes, ProcBecomes
<1> QED BY <1>1, <1>2, <1>5 DEF r

\* What a lost answer leaves: the rest of the worker's answers.
LEMMA LoseAnswerIs ==
  ASSUME ServiceTypes, NEW i \in Procs, LoseAnswer(i)
  PROVE  /\ proc[i].outbox # << >> /\ UNCHANGED <<instance, guard, storage, rooted, call>>
         /\ ProcBecomes(i, [proc[i] EXCEPT !.outbox = Tail(@)])
<1> DEFINE r == [proc[i] EXCEPT !.outbox = Tail(@)]
<1>1. /\ proc[i].outbox # << >> /\ UNCHANGED <<instance, guard, storage, rooted, call>>
      /\ proc' = [proc EXCEPT ![i] = r]
  BY DEF LoseAnswer
<1>2. proc[i] \in ProcRows /\ proc[i].outbox \in Seq([by : Callers, ok : BOOLEAN])
  BY DEF ServiceTypes, ProcRows
<1>3. Tail(proc[i].outbox) \in Seq([by : Callers, ok : BOOLEAN])
  BY <1>1, <1>2, HeadAndTail
<1>4. r \in ProcRows
  BY <1>2, <1>3 DEF ProcRows
<1> HIDE DEF r
<1>5. ProcBecomes(i, r)
  BY <1>1, <1>4 DEF ServiceTypes, ProcBecomes
<1> QED BY <1>1, <1>5 DEF r

\* A process starts to serve, or is over.
LEMMA ConfigureIs ==
  ASSUME ServiceTypes, NEW i \in Procs, Configure(i)
  PROVE  /\ proc[i].state = "starting" /\ UNCHANGED <<instance, guard, storage, call>>
         /\ rooted' = rooted \cup {proc[i].project}
         /\ ProcBecomes(i, [proc[i] EXCEPT !.state = "serving"])
BY ZenonT(40) DEF Configure, ServiceTypes, ProcBecomes, ProcRows

\* What an exiting worker leaves.
LEMMA ExitIs ==
  ASSUME ServiceTypes, NEW i \in Procs, Exit(i)
  PROVE  /\ proc[i].state = "exiting" /\ UNCHANGED <<instance, guard, storage, rooted, call>>
         /\ ProcBecomes(i, [proc[i] EXCEPT !.state = "dead"])
BY ZenonT(40) DEF Exit, ServiceTypes, ProcBecomes, ProcRows

-----------------------------------------------------------------------------
(* Every step of the service keeps ServiceInv.                             *)

\* A process whose queues, lock and caller stay.
LEMMA QueueStays ==
  ASSUME NEW j, QueueOK(j), proc'[j] = proc[j],
         proc[j].lock # None => call'[proc[j].lock] = call[proc[j].lock]
  PROVE  QueueOK(j)'
BY DEF QueueOK, Alive

\* A call that is not the one whose turn it is.
LEMMA CallStays ==
  ASSUME NEW d \in Callers, CallOK(d), call'[d] = call[d],
         call[d].pc \in {"enter", "await", "join"} =>
           proc'[call[d].target].project = proc[call[d].target].project,
         call[d].pc = "await" => proc'[call[d].target].lock = proc[call[d].target].lock,
         call[d].pc \in {"join", "remove"} /\ call[d].target # None =>
           \/ proc'[call[d].target].state = proc[call[d].target].state
           \/ proc'[call[d].target].state \in {"exiting", "dead"},
         guard = d => guard' = d /\ instance' = instance
  PROVE  CallOK(d)'
BY DEF CallOK, Ended, Using

\* The row of the calls of a step.
LEMMA BecomesTyped ==
  ASSUME ServiceTypes, NEW c \in Callers, NEW r \in CallRows, Becomes(c, r)
  PROVE  call' \in [Callers -> CallRows]
BY DEF ServiceTypes, Becomes

\* The queues of a process.
LEMMA QueueTypes ==
  ASSUME ServiceTypes, NEW j \in Procs
  PROVE  /\ proc[j] \in ProcRows
         /\ proc[j].inbox \in Seq([by : Callers, command : Commands])
         /\ proc[j].outbox \in Seq([by : Callers, ok : BOOLEAN])
         /\ Len(proc[j].inbox) \in Nat /\ Len(proc[j].outbox) \in Nat
<1>1. /\ proc[j].inbox \in Seq([by : Callers, command : Commands])
      /\ proc[j].outbox \in Seq([by : Callers, ok : BOOLEAN]) /\ proc[j] \in ProcRows
  BY DEF ServiceTypes, ProcRows
<1> QED BY <1>1, EmptyQueue

\* Where a call that waits for a lock stands.
LEMMA LockIs ==
  ASSUME ServiceTypes, NEW j \in Procs, QueueOK(j), proc[j].lock # None
  PROVE  /\ proc[j].lock \in Callers
         /\ call[proc[j].lock].pc = "await" /\ call[proc[j].lock].target = j
BY DEF ServiceTypes, QueueOK, ProcRows

\* An arriving call belongs to a project, and knows its dataset if it uses one.
SubmitOK(name, p, dataset, config) ==
  /\ name \in Names /\ p \in Projects /\ dataset \in Datasets \cup {None}
  /\ config \in Configs \cup {None}
  /\ name \in Using => dataset \in Datasets

\* Accepting a call keeps the service's invariant.
LEMMA SubmitKeepsService ==
  ASSUME ServiceTypes, ServiceInv, NEW c \in Callers, NEW name, NEW p, NEW dataset, NEW config,
         SubmitOK(name, p, dataset, config), Submit(c, name, p, dataset, config)
  PROVE  ServiceTypes' /\ ServiceInv'
<1>1. /\ Ended(c) /\ UNCHANGED <<instance, guard, proc, storage, rooted>>
      /\ \A d \in Callers : d # c => call'[d] = call[d]
      /\ call' \in [Callers -> CallRows]
      /\ call'[c].name = name /\ call'[c].project = p /\ call'[c].dataset = dataset
      /\ call'[c].config = config /\ ~call'[c].applied
      /\ call'[c].pc \in {"start", "stop", "enter", "failed"}
      /\ call'[c].pc \in {"start", "stop"} =>
           /\ call'[c].pc = name /\ call'[c].command = None /\ call'[c].target = None
      /\ call'[c].pc = "enter" =>
           /\ name \in Using /\ call'[c].command = name
           /\ Running(p) /\ call'[c].target = instance[p]
      /\ call'[c].pc = "failed" => name \in Using /\ call'[c].command = None
  BY SubmitIs DEF SubmitOK
<1>2. ServiceTypes'
  BY <1>1 DEF ServiceTypes
<1>3. ASSUME NEW j \in Procs PROVE QueueOK(j)'
  <2>1. QueueOK(j)
    BY DEF ServiceInv
  <2>2. proc[j].lock # None => proc[j].lock \in Callers /\ proc[j].lock # c
    BY <1>1, <2>1, LockIs DEF Ended
  <2> QED BY <1>1, <2>1, <2>2, QueueStays
<1>4. ASSUME NEW d \in Callers PROVE CallOK(d)'
  <2>1. CASE d # c
    BY <1>1, <2>1, CallStays DEF ServiceInv
  <2>2. CASE d = c
    <3>1. call'[c].pc = "enter" => call'[c].target \in Procs /\ proc'[call'[c].target].project = p
      BY <1>1 DEF Running, ServiceTypes, ServiceInv, InstanceOK, SubmitOK
    <3>2. None # "shutdown"
      BY NamesAssumption DEF Commands
    <3>3. name \in Using => dataset \in Datasets
      BY DEF SubmitOK
    <3>4. p \in Projects
      BY DEF SubmitOK
    <3> QED BY <1>1, <2>2, <3>1, <3>2, <3>3, <3>4 DEF CallOK, Using, Ended
  <2> QED BY <2>1, <2>2
<1>5. ASSUME NEW q \in Projects PROVE InstanceOK(q)'
  BY <1>1 DEF ServiceInv, InstanceOK
<1> QED BY <1>2, <1>3, <1>4, <1>5 DEF ServiceInv

\* A call that fails, wherever it stands.
LEMMA CallFails ==
  ASSUME ServiceTypes, NEW c \in Callers, CallOK(c), ~Ended(c),
         Becomes(c, [call[c] EXCEPT !.pc = "failed"])
  PROVE  CallOK(c)' /\ call' \in [Callers -> CallRows]
<1>1. /\ call[c] \in CallRows /\ call'[c] = [call[c] EXCEPT !.pc = "failed"]
  BY DEF ServiceTypes, Becomes
<1>2. call'[c] \in CallRows
  BY <1>1 DEF CallRows
<1>3. call' \in [Callers -> CallRows]
  BY <1>2 DEF ServiceTypes, Becomes
<1>4. /\ call'[c].pc = "failed" /\ call'[c].name = call[c].name
      /\ call'[c].project = call[c].project /\ call'[c].dataset = call[c].dataset
      /\ call'[c].applied = call[c].applied
  BY <1>1 DEF CallRows
<1> QED BY <1>3, <1>4 DEF CallOK, Ended

\* Putting a command in an inbox keeps the service's invariant.
LEMMA PutKeepsService ==
  ASSUME ServiceTypes, ServiceInv, NEW c \in Callers, Put(c)
  PROVE  ServiceTypes' /\ ServiceInv'
<1> DEFINE i == call[c].target
<1>0. CallOK(c)
  BY DEF ServiceInv
<1>1. /\ call[c].pc = "enter" /\ i \in Procs /\ proc[i].lock = None
      /\ UNCHANGED <<instance, storage, rooted>>
      /\ \/ /\ Alive(i) /\ UNCHANGED guard
            /\ ProcBecomes(i, [proc[i] EXCEPT !.lock = c,
                 !.inbox = Append(@, [by |-> c, command |-> call[c].command])])
            /\ Becomes(c, [call[c] EXCEPT !.pc = "await"])
         \/ /\ ~Alive(i) /\ UNCHANGED proc
            /\ Becomes(c, [call[c] EXCEPT !.pc = "failed"])
            /\ guard' = IF guard = c THEN None ELSE guard
  BY <1>0, PutIs
<1>2. ASSUME NEW j \in Procs, proc[j].lock # None
      PROVE  proc[j].lock \in Callers /\ proc[j].lock # c
  BY <1>1, <1>2, LockIs DEF ServiceInv
<1>3. CASE Alive(i)
  <2>1. /\ UNCHANGED guard /\ call[c] \in CallRows /\ proc[i] \in ProcRows
        /\ ProcBecomes(i, [proc[i] EXCEPT !.lock = c,
             !.inbox = Append(@, [by |-> c, command |-> call[c].command])])
        /\ Becomes(c, [call[c] EXCEPT !.pc = "await"])
    BY <1>1, <1>3 DEF ServiceTypes
  <2>2. /\ call'[c].pc = "await" /\ call'[c].name = call[c].name
        /\ call'[c].project = call[c].project /\ call'[c].dataset = call[c].dataset
        /\ call'[c].applied = call[c].applied /\ call'[c].target = i
        /\ call'[c].command = call[c].command /\ call'[c] \in CallRows
    BY <2>1 DEF Becomes, CallRows
  <2>3. \A d \in Callers : d # c => call'[d] = call[d]
    BY <2>1 DEF Becomes
  <2>4. call' \in [Callers -> CallRows]
    BY <2>1, <2>2 DEF Becomes, ServiceTypes
  <2>5. /\ proc[i].inbox \in Seq([by : Callers, command : Commands])
        /\ call[c].command \in Commands
    BY <1>0, <1>1, <2>1 DEF ProcRows, CallOK, Commands, Using
  <2>6. /\ proc'[i].lock = c /\ proc'[i].state = proc[i].state
        /\ proc'[i].project = proc[i].project /\ proc'[i].outbox = proc[i].outbox
        /\ proc'[i].inbox = Append(proc[i].inbox, [by |-> c, command |-> call[c].command])
        /\ proc' \in [Procs -> ProcRows] /\ \A j \in Procs : j # i => proc'[j] = proc[j]
    BY <2>1 DEF ProcBecomes, ProcRows
  <2>7. proc[i].inbox = << >> /\ proc[i].outbox = << >>
    BY <1>1, <1>3 DEF ServiceInv, QueueOK
  <2>8. ASSUME NEW j \in Procs PROVE QueueOK(j)'
    <3>1. CASE j # i
      BY <1>2, <2>3, <2>6, <3>1, QueueStays DEF ServiceInv
    <3>2. CASE j = i
      <4>1. Len(proc'[i].inbox) = 1 /\ Len(proc'[i].outbox) = 0
        BY <2>5, <2>6, <2>7, HeadOfAppend
      <4>2. Head(proc'[i].inbox) = [by |-> c, command |-> call[c].command]
        BY <2>5, <2>6, <2>7, HeadOfAppend
      <4>3. ~call'[c].applied /\ (Alive(i) => proc[i].project \in Projects)
        BY <1>0, <1>1, <2>2 DEF CallOK, ServiceInv, QueueOK
      <4>4. proc'[i].lock = c /\ proc'[i].outbox = << >> /\ c # None
        BY <2>6, <2>7, NoneAssumption
      <4>5. Head(proc'[i].inbox).by = c /\ Head(proc'[i].inbox).command = call'[c].command
        BY <2>2, <4>2
      <4>6. Alive(j)' => proc'[j].project \in Projects
        BY <2>6, <3>2, <4>3 DEF Alive
      <4> QED BY <2>2, <3>2, <4>1, <4>3, <4>4, <4>5, <4>6 DEF QueueOK
    <3> QED BY <3>1, <3>2
  <2>9. ASSUME NEW d \in Callers PROVE CallOK(d)'
    <3>1. CASE d # c
      <4>1. call[d].pc \in {"enter", "await", "join"} => call[d].target \in Procs
        BY DEF ServiceInv, CallOK
      <4>2. call[d].pc = "await" => call[d].target # i
        BY <1>1, NoneAssumption DEF ServiceInv, CallOK
      <4>3. call[d].pc \in {"join", "remove"} /\ call[d].target # None => call[d].target \in Procs
        BY DEF ServiceTypes, CallRows
      <4> QED BY <1>1, <2>1, <2>3, <2>6, <3>1, <4>1, <4>2, <4>3, CallStays DEF ServiceInv
    <3>2. CASE d = c
      BY <1>0, <1>1, <2>1, <2>2, <2>6, <3>2 DEF CallOK, Using, Ended
    <3> QED BY <3>1, <3>2
  <2>10. ASSUME NEW p \in Projects PROVE InstanceOK(p)'
    BY <1>1, <2>6 DEF ServiceInv, InstanceOK, ServiceTypes
  <2> QED BY <1>1, <2>1, <2>4, <2>6, <2>8, <2>9, <2>10 DEF ServiceTypes, ServiceInv
<1>4. CASE ~Alive(i)
  <2>1. /\ UNCHANGED proc /\ Becomes(c, [call[c] EXCEPT !.pc = "failed"])
        /\ guard' = IF guard = c THEN None ELSE guard
    BY <1>1, <1>4
  <2>2. CallOK(c)' /\ call' \in [Callers -> CallRows]
    BY <1>0, <1>1, <2>1, CallFails DEF Ended
  <2>3. \A d \in Callers : d # c => call'[d] = call[d]
    BY <2>1 DEF Becomes
  <2>4. ASSUME NEW j \in Procs PROVE QueueOK(j)'
    BY <1>2, <2>1, <2>3, QueueStays DEF ServiceInv
  <2>5. ASSUME NEW d \in Callers PROVE CallOK(d)'
    BY <1>1, <2>1, <2>2, <2>3, CallStays DEF ServiceInv
  <2>6. ASSUME NEW p \in Projects PROVE InstanceOK(p)'
    BY <1>1, <2>1 DEF ServiceInv, InstanceOK
  <2> QED BY <1>1, <2>1, <2>2, <2>4, <2>5, <2>6 DEF ServiceTypes, ServiceInv
<1> QED BY <1>3, <1>4

\* A call that is answered, or told that its process died, gives up its lock.
LEMMA ReleaseKeepsOthers ==
  ASSUME ServiceTypes, ServiceInv, NEW c \in Callers, NEW i \in Procs,
         call[c].pc = "await", call[c].target = i,
         proc' \in [Procs -> ProcRows], \A j \in Procs : j # i => proc'[j] = proc[j],
         proc'[i].lock = None, proc'[i].state = proc[i].state,
         proc'[i].project = proc[i].project,
         proc'[i].outbox = << >> \/ (~Alive(i) /\ proc'[i].outbox = proc[i].outbox),
         proc'[i].inbox = proc[i].inbox, Alive(i) => proc[i].inbox = << >>,
         \A d \in Callers : d # c => call'[d] = call[d],
         UNCHANGED instance, guard' \in {guard, IF guard = c THEN None ELSE guard}
  PROVE  /\ \A j \in Procs : QueueOK(j)'
         /\ \A d \in Callers : d # c => CallOK(d)'
         /\ \A p \in Projects : InstanceOK(p)'
<1>1. proc[i].lock = c
  BY DEF ServiceInv, CallOK
<1>2. ASSUME NEW j \in Procs PROVE QueueOK(j)'
  <2>1. CASE j # i
    <3>1. proc[j].lock # None => proc[j].lock \in Callers /\ proc[j].lock # c
      BY <2>1, LockIs DEF ServiceInv
    <3> QED BY <2>1, <3>1, QueueStays DEF ServiceInv
  <2>2. CASE j = i
    <3>1. /\ Len(proc'[i].outbox) = 0 \/ Len(proc'[i].outbox) = Len(proc[i].outbox)
          /\ Len(proc'[i].inbox) = Len(proc[i].inbox)
      OBVIOUS
    <3>2. /\ Len(proc[i].inbox) + Len(proc[i].outbox) <= 1
          /\ Len(proc[i].outbox) \in Nat /\ Len(proc[i].inbox) \in Nat
      BY QueueTypes DEF ServiceInv, QueueOK
    <3>3. Len(proc'[i].inbox) + Len(proc'[i].outbox) <= 1
      <4> DEFINE m == Len(proc[i].inbox)
                 n == Len(proc[i].outbox)
      <4>1. m \in Nat /\ n \in Nat /\ m + n <= 1
        BY <3>2
      <4> HIDE DEF m, n
      <4>2. m + 0 <= 1
        BY <4>1
      <4> QED BY <3>1, <4>1, <4>2 DEF m, n
    <3>4. /\ Alive(j)' => proc'[j].project \in Projects
          /\ Alive(j)' => proc'[j].inbox = << >> /\ proc'[j].outbox = << >>
      BY <2>2 DEF Alive, ServiceInv, QueueOK
    <3> QED BY <2>2, <3>3, <3>4 DEF QueueOK
  <2> QED BY <2>1, <2>2
<1>3. ASSUME NEW d \in Callers, d # c PROVE CallOK(d)'
  <2>1. call[d].pc \in {"enter", "await", "join"} => call[d].target \in Procs
    BY DEF ServiceInv, CallOK
  <2>2. call[d].pc = "await" => call[d].target # i
    BY <1>1, <1>3 DEF ServiceInv, CallOK
  <2>3. call[d].pc \in {"join", "remove"} /\ call[d].target # None => call[d].target \in Procs
    BY DEF ServiceTypes, CallRows
  <2>4. guard = d => guard' = d
    BY <1>3
  <2> QED BY <1>3, <2>1, <2>2, <2>3, <2>4, CallStays DEF ServiceInv
<1>4. ASSUME NEW p \in Projects PROVE InstanceOK(p)'
  BY DEF ServiceInv, InstanceOK, ServiceTypes
<1> QED BY <1>2, <1>3, <1>4

\* A call that only polls again keeps the service's invariant.
LEMMA PollingKeepsService ==
  ASSUME ServiceTypes, ServiceInv, NEW c \in Callers, call[c].pc = "await",
         UNCHANGED <<instance, guard, proc, storage, rooted>>,
         Continues(c, "await", call[c].target, call[c].command, call[c].applied)
  PROVE  ServiceTypes' /\ ServiceInv'
<1>1. ASSUME NEW d \in Callers
      PROVE  /\ call'[d].pc = call[d].pc /\ call'[d].target = call[d].target
             /\ call'[d].command = call[d].command /\ call'[d].applied = call[d].applied
             /\ call'[d].name = call[d].name /\ call'[d].project = call[d].project
             /\ call'[d].dataset = call[d].dataset
  BY DEF Continues
<1>2. ASSUME NEW j \in Procs PROVE QueueOK(j)'
  <2>1. QueueOK(j) /\ (proc[j].lock # None => proc[j].lock \in Callers)
    BY LockIs DEF ServiceInv
  <2> QED BY <1>1, <2>1 DEF QueueOK, Alive
<1>3. ASSUME NEW d \in Callers PROVE CallOK(d)'
  <2>1. CallOK(d)
    BY DEF ServiceInv
  <2> QED BY <1>1, <2>1 DEF CallOK, Ended
<1>4. ASSUME NEW p \in Projects PROVE InstanceOK(p)'
  BY DEF ServiceInv, InstanceOK
<1>5. ServiceTypes'
  BY DEF ServiceTypes, Continues
<1> QED BY <1>2, <1>3, <1>4, <1>5 DEF ServiceInv

\* An empty poll, and the look at the process after it, keep the service's invariant.
LEMMA LookKeepsService ==
  ASSUME ServiceTypes, ServiceInv, NEW c \in Callers, EmptyPoll(c) \/ LookAtProcess(c)
  PROVE  ServiceTypes' /\ ServiceInv'
<1>0. CallOK(c)
  BY DEF ServiceInv
<1>1. PICK i \in Procs :
      /\ i = call[c].target /\ call[c].pc = "await" /\ UNCHANGED <<instance, storage, rooted>>
      /\ \/ /\ Continues(c, "await", i, call[c].command, call[c].applied)
            /\ UNCHANGED <<proc, guard>>
         \/ /\ ~Alive(i)
            /\ ProcBecomes(i, [proc[i] EXCEPT !.lock = None])
            /\ Becomes(c, [call[c] EXCEPT !.pc = "failed"])
            /\ guard' = IF guard = c THEN None ELSE guard
  BY <1>0, LookIs
<1>2. CASE /\ Continues(c, "await", i, call[c].command, call[c].applied)
           /\ UNCHANGED <<proc, guard>>
  BY <1>1, <1>2, PollingKeepsService
<1>3. CASE /\ ~Alive(i)
           /\ ProcBecomes(i, [proc[i] EXCEPT !.lock = None])
           /\ Becomes(c, [call[c] EXCEPT !.pc = "failed"])
           /\ guard' = IF guard = c THEN None ELSE guard
  <2>1. /\ proc' \in [Procs -> ProcRows] /\ \A j \in Procs : j # i => proc'[j] = proc[j]
        /\ proc'[i].lock = None /\ proc'[i].state = proc[i].state
        /\ proc'[i].project = proc[i].project /\ proc'[i].outbox = proc[i].outbox
        /\ proc'[i].inbox = proc[i].inbox
    BY <1>3 DEF ProcBecomes, ServiceTypes, ProcRows
  <2>2. CallOK(c)' /\ call' \in [Callers -> CallRows]
    BY <1>0, <1>1, <1>3, CallFails DEF Ended
  <2>3. \A d \in Callers : d # c => call'[d] = call[d]
    BY <1>3 DEF Becomes
  <2>4. /\ \A j \in Procs : QueueOK(j)'
        /\ \A d \in Callers : d # c => CallOK(d)'
        /\ \A p \in Projects : InstanceOK(p)'
    BY <1>1, <1>3, <2>1, <2>3, ReleaseKeepsOthers
  <2>5. guard' \in Callers \cup {None}
    BY <1>3 DEF ServiceTypes
  <2> QED BY <1>1, <2>1, <2>2, <2>4, <2>5 DEF ServiceTypes, ServiceInv
<1> QED BY <1>1, <1>2, <1>3

\* Taking a worker's answer keeps the service's invariant.
LEMMA AnsweredKeepsService ==
  ASSUME ServiceTypes, ServiceInv, NEW c \in Callers, Answered(c)
  PROVE  ServiceTypes' /\ ServiceInv'
<1>0. CallOK(c) /\ call[c] \in CallRows
  BY DEF ServiceInv, ServiceTypes
<1>1. PICK i \in Procs :
      /\ i = call[c].target /\ call[c].pc = "await" /\ proc[i].outbox # << >>
      /\ UNCHANGED <<instance, storage, rooted>>
      /\ ProcBecomes(i, [proc[i] EXCEPT !.lock = None, !.outbox = Tail(@)])
      /\ \/ /\ Head(proc[i].outbox).by = c /\ Head(proc[i].outbox).ok /\ UNCHANGED guard
            /\ Becomes(c, [call[c] EXCEPT !.pc = Continued(c)])
         \/ /\ Becomes(c, [call[c] EXCEPT !.pc = "failed"])
            /\ guard' = IF guard = c THEN None ELSE guard
  BY <1>0, AnsweredIs
<1>2. /\ proc' \in [Procs -> ProcRows] /\ \A j \in Procs : j # i => proc'[j] = proc[j]
      /\ proc'[i].lock = None /\ proc'[i].state = proc[i].state
      /\ proc'[i].project = proc[i].project /\ proc'[i].outbox = Tail(proc[i].outbox)
      /\ proc'[i].inbox = proc[i].inbox
  BY <1>1 DEF ProcBecomes, ServiceTypes, ProcRows
<1>3. QueueOK(i) /\ proc[i].outbox \in Seq([by : Callers, ok : BOOLEAN])
      /\ proc[i].inbox \in Seq([by : Callers, command : Commands])
  BY DEF ServiceInv, ServiceTypes, ProcRows
<1>4. /\ Len(Tail(proc[i].outbox)) = Len(proc[i].outbox) - 1 /\ Len(proc[i].outbox) >= 1
      /\ Len(proc[i].outbox) \in Nat /\ Len(proc[i].inbox) \in Nat
      /\ Tail(proc[i].outbox) \in Seq([by : Callers, ok : BOOLEAN])
  BY <1>1, <1>3, HeadAndTail
<1>11. Len(proc[i].inbox) + Len(proc[i].outbox) <= 1
  BY <1>3 DEF QueueOK
<1>5. Len(proc[i].inbox) = 0 /\ Len(Tail(proc[i].outbox)) = 0
  <2> DEFINE m == Len(proc[i].inbox)
             n == Len(proc[i].outbox)
  <2>1. m \in Nat /\ n \in Nat /\ m + n <= 1 /\ n >= 1 /\ Len(Tail(proc[i].outbox)) = n - 1
    BY <1>4, <1>11
  <2> HIDE DEF m, n
  <2>2. m = 0 /\ n - 1 = 0
    BY <2>1
  <2> QED BY <2>1, <2>2 DEF m, n
<1>6. proc[i].inbox = << >> /\ Tail(proc[i].outbox) = << >>
  BY <1>3, <1>4, <1>5, EmptyQueue
<1>7. \A d \in Callers : d # c => call'[d] = call[d]
  BY <1>1 DEF Becomes
<1>8. /\ \A j \in Procs : QueueOK(j)'
      /\ \A d \in Callers : d # c => CallOK(d)'
      /\ \A p \in Projects : InstanceOK(p)'
  BY <1>1, <1>2, <1>6, <1>7, ReleaseKeepsOthers
<1>9. guard' \in Callers \cup {None}
  BY <1>1 DEF ServiceTypes
<1>10. CallOK(c)' /\ call' \in [Callers -> CallRows]
  <2>1. CASE Becomes(c, [call[c] EXCEPT !.pc = "failed"])
    BY <1>0, <1>1, <2>1, CallFails DEF Ended
  <2>2. CASE /\ Head(proc[i].outbox).by = c /\ Head(proc[i].outbox).ok /\ UNCHANGED guard
             /\ Becomes(c, [call[c] EXCEPT !.pc = Continued(c)])
    <3>1. Continued(c) \in {"join", "ok"}
      BY DEF Continued
    <3>2. call'[c] = [call[c] EXCEPT !.pc = Continued(c)]
      BY <2>2 DEF Becomes
    <3>3. /\ call'[c].pc = Continued(c) /\ call'[c].name = call[c].name
          /\ call'[c].project = call[c].project /\ call'[c].dataset = call[c].dataset
          /\ call'[c].applied = call[c].applied /\ call'[c].target = i
          /\ call'[c].command = call[c].command /\ call'[c] \in CallRows
      BY <1>0, <1>1, <3>1, <3>2 DEF CallRows
    <3>4. call' \in [Callers -> CallRows]
      BY <1>7, <2>2, <3>3 DEF Becomes, ServiceTypes
    <3>5. proc[i].lock = c
      BY <1>0, <1>1 DEF CallOK
    <3>6. CASE call[c].command = "shutdown"
      <4>1. call'[c].pc = "join" /\ call[c].name \in {"start", "stop"}
        BY <1>0, <1>1, <3>3, <3>6 DEF Continued, CallOK, Using
      <4>2. proc'[i].state \in {"exiting", "dead"}
        BY <1>1, <1>2, <1>3, <3>5, <3>6, NoneAssumption DEF QueueOK
      <4>3. ~call[c].applied
        BY <1>0, <1>1, <4>1 DEF CallOK
      <4>4. UNCHANGED <<guard, instance>>
        BY <1>1, <2>2
      <4> QED BY <1>0, <1>1, <1>2, <3>3, <3>4, <3>6, <4>1, <4>2, <4>3, <4>4
              DEF CallOK, Ended, Using
    <3>7. CASE call[c].command # "shutdown"
      <4>1. call'[c].pc = "ok"
        BY <3>3, <3>7 DEF Continued
      <4>2. call[c].name # "start" => call[c].command \in Using /\ call[c].name \in Using
        BY <1>0, <1>1, <3>7 DEF CallOK
      <4>3. call[c].name # "start" => call[c].applied
        BY <1>1, <1>3, <2>2, <3>5, <4>2, NoneAssumption DEF QueueOK
      <4> QED BY <1>0, <1>1, <3>3, <3>4, <4>1, <4>2, <4>3 DEF CallOK, Ended, Using
    <3> QED BY <3>6, <3>7
  <2> QED BY <1>1, <2>1, <2>2
<1> QED BY <1>1, <1>2, <1>8, <1>9, <1>10 DEF ServiceTypes, ServiceInv

\* A call goes on and the processes stay.
LEMMA HandlerKeepsOthers ==
  ASSUME ServiceTypes, ServiceInv, NEW c \in Callers, call[c].pc # "await", UNCHANGED proc,
         \A d \in Callers : d # c => call'[d] = call[d],
         \A d \in Callers : d # c /\ guard = d => guard' = d /\ instance' = instance
  PROVE  /\ \A j \in Procs : QueueOK(j)'
         /\ \A d \in Callers : d # c => CallOK(d)'
<1>1. ASSUME NEW j \in Procs PROVE QueueOK(j)'
  BY LockIs, QueueStays DEF ServiceInv
<1>2. ASSUME NEW d \in Callers, d # c PROVE CallOK(d)'
  BY <1>2, CallStays DEF ServiceInv
<1> QED BY <1>1, <1>2

\* A call that enters a worker's lock, as the record the invariant speaks of.
LEMMA EntersIs ==
  ASSUME ServiceTypes, NEW c \in Callers, NEW i \in Procs, NEW command \in Commands,
         Becomes(c, [call[c] EXCEPT !.pc = "enter", !.target = i, !.command = command])
  PROVE  Continues(c, "enter", i, command, call[c].applied)
<1>1. /\ call[c] \in CallRows
      /\ call'[c] = [call[c] EXCEPT !.pc = "enter", !.target = i, !.command = command]
  BY DEF ServiceTypes, Becomes
<1>2. call'[c] \in CallRows
  BY <1>1 DEF CallRows
<1> QED BY <1>1, <1>2 DEF Continues, Becomes, ServiceTypes, CallRows

\* A call that goes on with the same worker, as the record the invariant speaks of.
LEMMA GoesIs ==
  ASSUME ServiceTypes, NEW c \in Callers,
         NEW pc \in {"await", "join", "remove", "ok", "failed"},
         Becomes(c, [call[c] EXCEPT !.pc = pc])
  PROVE  Continues(c, pc, call[c].target, call[c].command, call[c].applied)
<1>1. /\ call[c] \in CallRows /\ call'[c] = [call[c] EXCEPT !.pc = pc]
  BY DEF ServiceTypes, Becomes
<1>2. call'[c] \in CallRows
  BY <1>1 DEF CallRows
<1> QED BY <1>1, <1>2 DEF Continues, Becomes, ServiceTypes, CallRows

\* Spawning a worker keeps the service's invariant.
LEMMA SpawnKeepsService ==
  ASSUME ServiceTypes, ServiceInv, NEW c \in Callers, call[c].pc \in {"start", "join"},
         call[c].name = "start", guard \in {None, c}, Spawn(c), UNCHANGED <<storage, rooted>>
  PROVE  ServiceTypes' /\ ServiceInv'
<1>0. call[c].project \in Projects /\ CallOK(c)
  BY DEF ServiceInv, CallOK
<1> DEFINE p == call[c].project
<1>1. PICK i \in Procs :
        /\ ~Alive(i)
        /\ \A q \in Projects : instance[q] # i
        /\ \A d \in Callers : Ended(d) \/ call[d].target # i
        /\ \A j \in Procs \ {i} : proc'[j] = proc[j]
        /\ proc' \in [Procs -> ProcRows]
        /\ proc'[i].state = "starting" /\ proc'[i].project = p
        /\ proc'[i].lock = None /\ proc'[i].inbox = << >> /\ proc'[i].outbox = << >>
        /\ instance' = [instance EXCEPT ![p] = i]
        /\ guard' = None
        /\ Becomes(c, [call[c] EXCEPT !.pc = "enter", !.target = i, !.command = "health"])
  BY <1>0, SpawnIs
<1>2. Continues(c, "enter", i, "health", call[c].applied)
  BY <1>1, EntersIs DEF Commands
<1>3. ASSUME NEW j \in Procs PROVE QueueOK(j)'
  <2>1. CASE j # i
    BY <1>1, <1>2, <2>1, LockIs, QueueStays DEF ServiceInv, Continues
  <2>2. CASE j = i
    <3>1. Len(proc'[i].inbox) + Len(proc'[i].outbox) <= 1
      BY <1>1
    <3> QED BY <1>0, <1>1, <2>2, <3>1 DEF QueueOK
  <2> QED BY <2>1, <2>2
<1>4. ASSUME NEW d \in Callers PROVE CallOK(d)'
  <2>1. CASE d # c
    <3>1. call[d].pc \in {"enter", "await", "join"} => call[d].target \in Procs \ {i}
      BY <1>1 DEF ServiceInv, CallOK, Ended
    <3>2. call[d].pc \in {"join", "remove"} /\ call[d].target # None =>
            call[d].target \in Procs \ {i}
      BY <1>1 DEF ServiceTypes, CallRows, Ended
    <3>3. guard # d
      BY <2>1, NoneAssumption
    <3> QED BY <1>1, <1>2, <2>1, <3>1, <3>2, <3>3, CallStays DEF ServiceInv, Continues
  <2>2. CASE d = c
    BY <1>0, <1>1, <1>2, <2>2 DEF Continues, CallOK, Using, Ended
  <2> QED BY <2>1, <2>2
<1>5. ASSUME NEW q \in Projects PROVE InstanceOK(q)'
  <2>1. CASE q = p
    BY <1>1, <2>1 DEF ServiceTypes, InstanceOK
  <2>2. CASE q # p
    BY <1>1, <2>2 DEF ServiceTypes, ServiceInv, InstanceOK
  <2> QED BY <2>1, <2>2
<1>6. ServiceTypes'
  BY <1>1, <1>2 DEF ServiceTypes, Continues
<1> QED BY <1>3, <1>4, <1>5, <1>6 DEF ServiceInv

\* Starting a project's worker keeps the service's invariant.
LEMMA StartKeepsService ==
  ASSUME ServiceTypes, ServiceInv, NEW c \in Callers, Start(c)
  PROVE  ServiceTypes' /\ ServiceInv'
<1>0. /\ call[c].pc = "start" /\ call[c].project \in Projects /\ CallOK(c)
      /\ call[c].name = "start"
  BY DEF ServiceInv, CallOK, Start
<1> DEFINE p == call[c].project
<1>1. /\ guard = None /\ UNCHANGED <<storage, rooted>>
      /\ \/ /\ UNCHANGED <<guard, instance, proc>>
            /\ Becomes(c, [call[c] EXCEPT !.pc = "ok"])
         \/ /\ Running(p) /\ UNCHANGED <<instance, proc>> /\ guard' = c
            /\ Becomes(c, [call[c] EXCEPT !.pc = "enter", !.target = instance[p],
                                          !.command = "shutdown"])
         \/ ~Running(p) /\ Spawn(c)
  BY <1>0, StartIs
<1>2. \A d \in Callers : guard # d
  BY <1>1, NoneAssumption
<1>3. CASE UNCHANGED <<guard, instance, proc>> /\ Becomes(c, [call[c] EXCEPT !.pc = "ok"])
  <2>1. Continues(c, "ok", call[c].target, call[c].command, call[c].applied)
    BY <1>3, GoesIs
  <2>2. CallOK(c)'
    BY <1>0, <1>3, <2>1 DEF Continues, CallOK, Using, Ended
  <2>3. /\ \A j \in Procs : QueueOK(j)'
        /\ \A d \in Callers : d # c => CallOK(d)'
    BY <1>0, <1>2, <1>3, <2>1, HandlerKeepsOthers DEF Continues
  <2>4. ASSUME NEW q \in Projects PROVE InstanceOK(q)'
    BY <1>3 DEF ServiceInv, InstanceOK
  <2>5. ServiceTypes'
    BY <1>1, <1>3, <2>1 DEF ServiceTypes, Continues
  <2> QED BY <2>2, <2>3, <2>4, <2>5 DEF ServiceInv
<1>4. CASE /\ Running(p) /\ UNCHANGED <<instance, proc>> /\ guard' = c
           /\ Becomes(c, [call[c] EXCEPT !.pc = "enter", !.target = instance[p],
                                         !.command = "shutdown"])
  <2>0. instance[p] \in Procs /\ proc[instance[p]].project = p
    BY <1>0, <1>4 DEF Running, ServiceInv, InstanceOK, ServiceTypes
  <2>1. Continues(c, "enter", instance[p], "shutdown", call[c].applied)
    BY <1>4, <2>0, EntersIs DEF Commands
  <2>2. CallOK(c)'
    BY <1>0, <1>4, <2>0, <2>1 DEF Continues, CallOK, Using, Ended
  <2>3. /\ \A j \in Procs : QueueOK(j)'
        /\ \A d \in Callers : d # c => CallOK(d)'
    BY <1>0, <1>2, <1>4, <2>1, HandlerKeepsOthers DEF Continues
  <2>4. ASSUME NEW q \in Projects PROVE InstanceOK(q)'
    BY <1>4 DEF ServiceInv, InstanceOK
  <2>5. ServiceTypes'
    BY <1>1, <1>4, <2>1 DEF ServiceTypes, Continues
  <2> QED BY <2>2, <2>3, <2>4, <2>5 DEF ServiceInv
<1>5. CASE ~Running(p) /\ Spawn(c)
  BY <1>0, <1>1, <1>5, SpawnKeepsService
<1> QED BY <1>1, <1>3, <1>4, <1>5

\* Asking for a worker to stop keeps the service's invariant.
LEMMA StopKeepsService ==
  ASSUME ServiceTypes, ServiceInv, NEW c \in Callers, Stop(c)
  PROVE  ServiceTypes' /\ ServiceInv'
<1>0. /\ call[c].pc = "stop" /\ call[c].project \in Projects /\ CallOK(c)
      /\ call[c].name = "stop"
  BY DEF ServiceInv, CallOK, Stop
<1> DEFINE p == call[c].project
<1>1. /\ guard = None /\ UNCHANGED <<guard, proc, storage, rooted>>
      /\ instance' = [instance EXCEPT ![p] = None]
      /\ \/ /\ Running(p)
            /\ Becomes(c, [call[c] EXCEPT !.pc = "enter", !.target = instance[p],
                                          !.command = "shutdown"])
         \/ ~Running(p) /\ Becomes(c, [call[c] EXCEPT !.pc = "remove"])
  BY <1>0, StopIs
<1>2. \A d \in Callers : guard # d
  BY <1>1, NoneAssumption
<1>3. ASSUME NEW q \in Projects PROVE InstanceOK(q)'
  BY <1>0, <1>1 DEF ServiceTypes, ServiceInv, InstanceOK
<1>4. CASE Running(p) /\ Becomes(c, [call[c] EXCEPT !.pc = "enter", !.target = instance[p],
                                                    !.command = "shutdown"])
  <2>0. instance[p] \in Procs /\ proc[instance[p]].project = p
    BY <1>0, <1>4 DEF Running, ServiceInv, InstanceOK, ServiceTypes
  <2>1. Continues(c, "enter", instance[p], "shutdown", call[c].applied)
    BY <1>4, <2>0, EntersIs DEF Commands
  <2>2. CallOK(c)'
    BY <1>0, <1>1, <2>0, <2>1 DEF Continues, CallOK, Using, Ended
  <2>3. /\ \A j \in Procs : QueueOK(j)'
        /\ \A d \in Callers : d # c => CallOK(d)'
    BY <1>0, <1>1, <1>2, <2>1, HandlerKeepsOthers DEF Continues
  <2>4. ServiceTypes'
    BY <1>1, <2>1 DEF ServiceTypes, Continues
  <2> QED BY <1>3, <2>2, <2>3, <2>4 DEF ServiceInv
<1>5. CASE ~Running(p) /\ Becomes(c, [call[c] EXCEPT !.pc = "remove"])
  <2>1. Continues(c, "remove", call[c].target, call[c].command, call[c].applied)
    BY <1>5, GoesIs
  <2>2. CallOK(c)'
    BY <1>0, <1>1, <2>1 DEF Continues, CallOK, Using, Ended
  <2>3. /\ \A j \in Procs : QueueOK(j)'
        /\ \A d \in Callers : d # c => CallOK(d)'
    BY <1>0, <1>1, <1>2, <2>1, HandlerKeepsOthers DEF Continues
  <2>4. ServiceTypes'
    BY <1>1, <2>1 DEF ServiceTypes, Continues
  <2> QED BY <1>3, <2>2, <2>3, <2>4 DEF ServiceInv
<1> QED BY <1>1, <1>4, <1>5

\* Waiting for a worker's end keeps the service's invariant.
LEMMA JoinKeepsService ==
  ASSUME ServiceTypes, ServiceInv, NEW c \in Callers, Join(c)
  PROVE  ServiceTypes' /\ ServiceInv'
<1>0. /\ call[c].pc = "join" /\ CallOK(c) /\ UNCHANGED <<storage, rooted>>
      /\ \/ call[c].name = "start" /\ Spawn(c)
         \/ call[c].name = "stop" /\ Goto(c, "remove") /\ UNCHANGED <<guard, instance, proc>>
  BY DEF ServiceInv, Join
<1>1. CASE call[c].name = "start" /\ Spawn(c)
  <2>1. guard = c
    BY <1>0, <1>1 DEF CallOK, Ended
  <2> QED BY <1>0, <1>1, <2>1, SpawnKeepsService
<1>2. CASE call[c].name = "stop" /\ Goto(c, "remove") /\ UNCHANGED <<guard, instance, proc>>
  <2>1. Continues(c, "remove", call[c].target, call[c].command, call[c].applied)
    BY <1>2, GotoIs, GoesIs
  <2>2. CallOK(c)'
    BY <1>0, <1>2, <2>1 DEF Continues, CallOK, Using, Ended
  <2>3. /\ \A j \in Procs : QueueOK(j)'
        /\ \A d \in Callers : d # c => CallOK(d)'
    BY <1>0, <1>2, <2>1, HandlerKeepsOthers DEF Continues
  <2>4. ASSUME NEW q \in Projects PROVE InstanceOK(q)'
    BY <1>2 DEF ServiceInv, InstanceOK
  <2>5. ServiceTypes'
    BY <1>0, <1>2, <2>1 DEF ServiceTypes, Continues
  <2> QED BY <2>2, <2>3, <2>4, <2>5 DEF ServiceInv
<1> QED BY <1>0, <1>1, <1>2

\* Removing a project's storage keeps the service's invariant.
LEMMA RemoveKeepsService ==
  ASSUME ServiceTypes, ServiceInv, NEW c \in Callers, RemoveStorage(c)
  PROVE  ServiceTypes' /\ ServiceInv'
<1>0. CallOK(c)
  BY DEF ServiceInv
<1>1. /\ call[c].pc = "remove" /\ UNCHANGED <<instance, guard, proc>>
      /\ storage' = [storage EXCEPT ![call[c].project] = {}]
      /\ rooted' = rooted \ {call[c].project}
      /\ Becomes(c, [call[c] EXCEPT !.pc = "ok", !.applied = TRUE])
  BY RemoveStorageIs
<1>2. Continues(c, "ok", call[c].target, call[c].command, TRUE)
  <2>1. /\ call[c] \in CallRows
        /\ call'[c] = [call[c] EXCEPT !.pc = "ok", !.applied = TRUE]
    BY <1>1 DEF ServiceTypes, Becomes
  <2>2. call'[c] \in CallRows
    BY <2>1 DEF CallRows
  <2> QED BY <1>1, <2>1, <2>2 DEF Continues, Becomes, ServiceTypes, CallRows
<1>3. CallOK(c)'
  BY <1>0, <1>1, <1>2 DEF Continues, CallOK, Using, Ended
<1>4. /\ \A j \in Procs : QueueOK(j)'
      /\ \A d \in Callers : d # c => CallOK(d)'
  BY <1>1, <1>2, HandlerKeepsOthers DEF Continues
<1>5. ASSUME NEW q \in Projects PROVE InstanceOK(q)'
  BY <1>1 DEF ServiceInv, InstanceOK
<1>6. ServiceTypes'
  BY <1>1, <1>2 DEF ServiceTypes, Continues
<1> QED BY <1>3, <1>4, <1>5, <1>6 DEF ServiceInv

\* A removal that stops half way keeps the service's invariant.
LEMMA RemovalFailsKeepsService ==
  ASSUME ServiceTypes, ServiceInv, NEW c \in Callers, RemovalFails(c)
  PROVE  ServiceTypes' /\ ServiceInv'
<1>0. CallOK(c) /\ call[c].pc = "remove" /\ call[c].project \in Projects
  BY DEF ServiceInv, CallOK, RemovalFails
<1>1. /\ UNCHANGED <<instance, proc, rooted>> /\ storage' \in [Projects -> SUBSET Datasets]
      /\ Becomes(c, [call[c] EXCEPT !.pc = "failed"])
      /\ guard' = IF guard = c THEN None ELSE guard
  BY <1>0, RemovalFailsIs
<1>2. CallOK(c)' /\ call' \in [Callers -> CallRows]
  BY <1>0, <1>1, CallFails DEF Ended
<1>3. /\ \A j \in Procs : QueueOK(j)'
      /\ \A d \in Callers : d # c => CallOK(d)'
  BY <1>0, <1>1, HandlerKeepsOthers DEF Becomes
<1>4. ASSUME NEW q \in Projects PROVE InstanceOK(q)'
  BY <1>1 DEF ServiceInv, InstanceOK
<1>5. ServiceTypes'
  BY <1>1, <1>2 DEF ServiceTypes
<1> QED BY <1>2, <1>3, <1>4, <1>5 DEF ServiceInv

\* A step of a process leaves the other processes alone, and the calls it does not serve.
LEMMA ProcessKeepsOthers ==
  ASSUME ServiceTypes, ServiceInv, NEW i \in Procs,
         proc' \in [Procs -> ProcRows], \A j \in Procs : j # i => proc'[j] = proc[j],
         proc'[i].lock = proc[i].lock, proc'[i].project = proc[i].project,
         proc[i].state \in {"exiting", "dead"} => proc'[i].state \in {"exiting", "dead"},
         UNCHANGED <<instance, guard>>,
         \A d \in Callers : d # proc[i].lock => call'[d] = call[d]
  PROVE  /\ \A j \in Procs : j # i => QueueOK(j)'
         /\ \A d \in Callers : call'[d] = call[d] => CallOK(d)'
         /\ \A p \in Projects : InstanceOK(p)'
<1>1. ASSUME NEW j \in Procs, j # i PROVE QueueOK(j)'
  <2>1. proc[j].lock # None => proc[j].lock \in Callers /\ proc[j].lock # proc[i].lock
    <3>1. proc[j].lock # None =>
            proc[j].lock \in Callers /\ call[proc[j].lock].target = j
      BY LockIs DEF ServiceInv
    <3>2. proc[i].lock # None => call[proc[i].lock].target = i
      BY LockIs DEF ServiceInv
    <3> QED BY <1>1, <3>1, <3>2
  <2> QED BY <1>1, <2>1, QueueStays DEF ServiceInv
<1>2. ASSUME NEW d \in Callers, call'[d] = call[d] PROVE CallOK(d)'
  <2>1. call[d].pc \in {"enter", "await", "join"} => call[d].target \in Procs
    BY DEF ServiceInv, CallOK
  <2>2. call[d].pc \in {"join", "remove"} /\ call[d].target # None =>
          call[d].target \in Procs /\ proc[call[d].target].state \in {"exiting", "dead"}
    BY DEF ServiceTypes, CallRows, ServiceInv, CallOK
  <2> QED BY <1>2, <2>1, <2>2, CallStays DEF ServiceInv
<1>3. ASSUME NEW p \in Projects PROVE InstanceOK(p)'
  BY DEF ServiceInv, InstanceOK, ServiceTypes
<1> QED BY <1>1, <1>2, <1>3

\* A worker that configures itself keeps the service's invariant.
LEMMA ConfigureKeepsService ==
  ASSUME ServiceTypes, ServiceInv, NEW i \in Procs, Configure(i)
  PROVE  ServiceTypes' /\ ServiceInv'
<1>1. /\ proc[i].state = "starting" /\ UNCHANGED <<instance, guard, storage, call>>
      /\ rooted' = rooted \cup {proc[i].project}
      /\ ProcBecomes(i, [proc[i] EXCEPT !.state = "serving"])
  BY ConfigureIs
<1>2. /\ proc' \in [Procs -> ProcRows] /\ \A j \in Procs : j # i => proc'[j] = proc[j]
      /\ proc'[i].lock = proc[i].lock /\ proc'[i].project = proc[i].project
      /\ proc'[i].inbox = proc[i].inbox /\ proc'[i].outbox = proc[i].outbox
      /\ proc'[i].state = "serving"
  BY <1>1 DEF ProcBecomes, ServiceTypes, ProcRows
<1>3. /\ \A j \in Procs : j # i => QueueOK(j)'
      /\ \A d \in Callers : CallOK(d)'
      /\ \A p \in Projects : InstanceOK(p)'
  BY <1>1, <1>2, ProcessKeepsOthers
<1>4. proc[i].project \in Projects /\ QueueOK(i)
  BY <1>1 DEF ServiceInv, QueueOK, Alive
<1>5. QueueOK(i)'
  BY <1>1, <1>2, <1>4 DEF QueueOK, Alive
<1>6. ServiceTypes'
  BY <1>1, <1>2, <1>4 DEF ServiceTypes
<1> QED BY <1>3, <1>5, <1>6 DEF ServiceInv

\* A worker that exits keeps the service's invariant.
LEMMA ExitKeepsService ==
  ASSUME ServiceTypes, ServiceInv, NEW i \in Procs, Exit(i)
  PROVE  ServiceTypes' /\ ServiceInv'
<1>1. /\ proc[i].state = "exiting" /\ UNCHANGED <<instance, guard, storage, rooted, call>>
      /\ ProcBecomes(i, [proc[i] EXCEPT !.state = "dead"])
  BY ExitIs
<1>2. /\ proc' \in [Procs -> ProcRows] /\ \A j \in Procs : j # i => proc'[j] = proc[j]
      /\ proc'[i].lock = proc[i].lock /\ proc'[i].project = proc[i].project
      /\ proc'[i].inbox = proc[i].inbox /\ proc'[i].outbox = proc[i].outbox
      /\ proc'[i].state = "dead"
  BY <1>1 DEF ProcBecomes, ServiceTypes, ProcRows
<1>3. /\ \A j \in Procs : j # i => QueueOK(j)'
      /\ \A d \in Callers : CallOK(d)'
      /\ \A p \in Projects : InstanceOK(p)'
  BY <1>1, <1>2, ProcessKeepsOthers
<1>4. QueueOK(i)'
  BY <1>1, <1>2, ZenonT(40) DEF ServiceInv, QueueOK, Alive
<1>5. ServiceTypes'
  BY <1>1, <1>2 DEF ServiceTypes
<1> QED BY <1>3, <1>4, <1>5 DEF ServiceInv

\* A worker that crashes keeps the service's invariant.
LEMMA CrashKeepsService ==
  ASSUME ServiceTypes, ServiceInv, NEW i \in Procs, Crash(i)
  PROVE  ServiceTypes' /\ ServiceInv'
<1>1. Alive(i) /\ UNCHANGED <<instance, guard, storage, rooted, call>>
  BY CrashIs
<1>2. PICK answers \in {proc[i].outbox, << >>} :
        ProcBecomes(i, [proc[i] EXCEPT !.state = "dead", !.inbox = << >>, !.outbox = answers])
  BY CrashIs
<1>3. /\ proc' \in [Procs -> ProcRows] /\ \A j \in Procs : j # i => proc'[j] = proc[j]
      /\ proc'[i].lock = proc[i].lock /\ proc'[i].project = proc[i].project
      /\ proc'[i].inbox = << >> /\ proc'[i].outbox = answers
      /\ proc'[i].state = "dead"
  BY <1>2 DEF ProcBecomes, ServiceTypes, ProcRows
<1>4. /\ \A j \in Procs : j # i => QueueOK(j)'
      /\ \A d \in Callers : CallOK(d)'
      /\ \A p \in Projects : InstanceOK(p)'
  BY <1>1, <1>3, ProcessKeepsOthers
<1>5. QueueOK(i)'
  <2>1. Len(proc[i].inbox) \in Nat /\ Len(proc[i].outbox) \in Nat
    BY QueueTypes
  <2>2. QueueOK(i)
    BY DEF ServiceInv
  <2>3. Len(proc'[i].inbox) + Len(proc'[i].outbox) <= 1
    <3> DEFINE m == Len(proc[i].inbox)
               n == Len(proc[i].outbox)
    <3>1. m \in Nat /\ n \in Nat /\ m + n <= 1
      BY <2>1, <2>2 DEF QueueOK
    <3>2. Len(proc'[i].inbox) = 0 /\ Len(proc'[i].outbox) \in {0, n}
      BY <1>2, <1>3
    <3> HIDE DEF m, n
    <3>3. 0 + n <= 1
      BY <3>1
    <3> QED BY <3>2, <3>3
  <2>4. proc'[i].outbox \in {proc[i].outbox, << >>}
    BY <1>3
  <2> QED BY <1>1, <1>3, <2>2, <2>3, <2>4 DEF QueueOK, Alive
<1>6. ServiceTypes'
  BY <1>1, <1>3 DEF ServiceTypes
<1> QED BY <1>4, <1>5, <1>6 DEF ServiceInv

\* A lost answer keeps the service's invariant.
LEMMA LoseAnswerKeepsService ==
  ASSUME ServiceTypes, ServiceInv, NEW i \in Procs, LoseAnswer(i)
  PROVE  ServiceTypes' /\ ServiceInv'
<1>1. /\ proc[i].outbox # << >> /\ UNCHANGED <<instance, guard, storage, rooted, call>>
      /\ ProcBecomes(i, [proc[i] EXCEPT !.outbox = Tail(@)])
  BY LoseAnswerIs
<1>2. /\ proc' \in [Procs -> ProcRows] /\ \A j \in Procs : j # i => proc'[j] = proc[j]
      /\ proc'[i].lock = proc[i].lock /\ proc'[i].project = proc[i].project
      /\ proc'[i].inbox = proc[i].inbox /\ proc'[i].outbox = Tail(proc[i].outbox)
      /\ proc'[i].state = proc[i].state
  BY <1>1 DEF ProcBecomes, ServiceTypes, ProcRows
<1>3. /\ \A j \in Procs : j # i => QueueOK(j)'
      /\ \A d \in Callers : CallOK(d)'
      /\ \A p \in Projects : InstanceOK(p)'
  BY <1>1, <1>2, ProcessKeepsOthers
<1>4. QueueOK(i) /\ proc[i].outbox \in Seq([by : Callers, ok : BOOLEAN])
      /\ proc[i].inbox \in Seq([by : Callers, command : Commands])
      /\ Len(proc[i].inbox) \in Nat /\ Len(proc[i].outbox) \in Nat
  BY QueueTypes DEF ServiceInv
<1>5. /\ Len(Tail(proc[i].outbox)) = Len(proc[i].outbox) - 1 /\ Len(proc[i].outbox) >= 1
      /\ Tail(proc[i].outbox) \in Seq([by : Callers, ok : BOOLEAN])
  BY <1>1, <1>4, HeadAndTail
<1>6. Len(proc[i].inbox) = 0 /\ Len(Tail(proc[i].outbox)) = 0
  <2> DEFINE m == Len(proc[i].inbox)
             n == Len(proc[i].outbox)
  <2>1. m \in Nat /\ n \in Nat /\ m + n <= 1 /\ n >= 1 /\ Len(Tail(proc[i].outbox)) = n - 1
    BY <1>4, <1>5 DEF QueueOK
  <2> HIDE DEF m, n
  <2>2. m = 0 /\ n - 1 = 0
    BY <2>1
  <2> QED BY <2>1, <2>2 DEF m, n
<1>7. proc[i].inbox = << >> /\ Tail(proc[i].outbox) = << >>
  BY <1>4, <1>5, <1>6, EmptyQueue
<1>8. QueueOK(i)'
  <2>1. proc'[i].inbox = << >> /\ proc'[i].outbox = << >>
    BY <1>2, <1>7
  <2>2. Len(proc'[i].inbox) + Len(proc'[i].outbox) <= 1
    BY <2>1
  <2> QED BY <1>1, <1>2, <1>4, <2>1, <2>2 DEF QueueOK, Alive
<1>9. ServiceTypes'
  BY <1>1, <1>2 DEF ServiceTypes
<1> QED BY <1>3, <1>8, <1>9 DEF ServiceInv

\* The command a process executes is the one of the call that holds its lock.
LEMMA ExecutedIs ==
  ASSUME ServiceTypes, ServiceInv, NEW i \in Procs,
         proc[i].state = "serving", proc[i].inbox # << >>
  PROVE  /\ proc[i].lock \in Callers /\ Head(proc[i].inbox).by = proc[i].lock
         /\ Head(proc[i].inbox).command = call[proc[i].lock].command
         /\ call[proc[i].lock].pc = "await" /\ call[proc[i].lock].target = i
         /\ proc[i].project = call[proc[i].lock].project /\ proc[i].project \in Projects
         /\ Tail(proc[i].inbox) = << >> /\ proc[i].outbox = << >>
         /\ ~call[proc[i].lock].applied
         /\ call[proc[i].lock].command \in Using =>
              call[proc[i].lock].name = call[proc[i].lock].command
<1>1. QueueOK(i) /\ proc[i].inbox \in Seq([by : Callers, command : Commands])
      /\ proc[i].outbox \in Seq([by : Callers, ok : BOOLEAN])
      /\ Len(proc[i].inbox) \in Nat /\ Len(proc[i].outbox) \in Nat
  BY QueueTypes DEF ServiceInv
<1>2. /\ proc[i].lock # None /\ Head(proc[i].inbox).by = proc[i].lock
      /\ Head(proc[i].inbox).command = call[proc[i].lock].command
      /\ ~call[proc[i].lock].applied /\ proc[i].project \in Projects
  BY <1>1 DEF QueueOK, Alive
<1>3. /\ proc[i].lock \in Callers
      /\ call[proc[i].lock].pc = "await" /\ call[proc[i].lock].target = i
  BY <1>1, <1>2, LockIs
<1>4. CallOK(proc[i].lock)
  BY <1>3 DEF ServiceInv
<1>5. /\ Len(Tail(proc[i].inbox)) = Len(proc[i].inbox) - 1 /\ Len(proc[i].inbox) >= 1
      /\ Tail(proc[i].inbox) \in Seq([by : Callers, command : Commands])
  BY <1>1, HeadAndTail
<1>6. Len(proc[i].outbox) = 0 /\ Len(Tail(proc[i].inbox)) = 0
  <2> DEFINE m == Len(proc[i].inbox)
             n == Len(proc[i].outbox)
  <2>1. m \in Nat /\ n \in Nat /\ m + n <= 1 /\ m >= 1 /\ Len(Tail(proc[i].inbox)) = m - 1
    BY <1>1, <1>5 DEF QueueOK
  <2> HIDE DEF m, n
  <2>2. n = 0 /\ m - 1 = 0
    BY <2>1
  <2> QED BY <2>1, <2>2 DEF m, n
<1>7. Tail(proc[i].inbox) = << >> /\ proc[i].outbox = << >>
  BY <1>1, <1>5, <1>6, EmptyQueue
<1>8. /\ proc[i].project = call[proc[i].lock].project
      /\ call[proc[i].lock].command \in Using =>
           call[proc[i].lock].name = call[proc[i].lock].command
  BY <1>3, <1>4 DEF CallOK, Using
<1> QED BY <1>2, <1>3, <1>7, <1>8

\* What executing a command of call c changes: the process, and what it has stored.
LEMMA ExecuteChanges ==
  ASSUME ServiceTypes, ServiceInv, NEW i \in Procs, Execute(i)
  PROVE  LET c == proc[i].lock IN
         /\ proc[i].state = "serving" /\ proc[i].inbox # << >> /\ UNCHANGED <<instance, guard>>
         /\ proc' \in [Procs -> ProcRows] /\ \A j \in Procs : j # i => proc'[j] = proc[j]
         /\ proc'[i].lock = c /\ proc'[i].project = proc[i].project
         /\ proc'[i].config = proc[i].config
         /\ proc'[i].inbox = << >> /\ Len(proc'[i].outbox) = 1
         /\ proc'[i].outbox # << >> /\ Head(proc'[i].outbox).by = c
         /\ proc'[i].state \in {"serving", "exiting"}
         /\ call[c].command = "shutdown" => proc'[i].state = "exiting"
         /\ \/ /\ Doable(i, c, call[c].command) /\ call[c].command \in Using
               /\ storage' = [storage EXCEPT ![proc[i].project] = Stored(c, @)]
               /\ rooted' = rooted \cup {proc[i].project}
               /\ Continues(c, "await", i, call[c].command, TRUE)
            \/ /\ Head(proc'[i].outbox).ok => call[c].command \notin Using
               /\ UNCHANGED <<storage, rooted, call>>
<1> DEFINE c == proc[i].lock
           item == Head(proc[i].inbox)
<1>1. proc[i].state = "serving" /\ proc[i].inbox # << >> /\ UNCHANGED <<instance, guard>>
  BY ExecuteIs
<1>2. /\ c \in Callers /\ item.by = c /\ item.command = call[c].command
      /\ call[c].pc = "await" /\ call[c].target = i
      /\ Tail(proc[i].inbox) = << >> /\ proc[i].outbox = << >>
  BY <1>1, ExecutedIs
<1>3. PICK ok \in BOOLEAN :
        /\ ProcBecomes(i, [proc[i] EXCEPT !.inbox = Tail(@),
             !.outbox = Append(@, [by |-> item.by, ok |-> ok]),
             !.state = IF item.command = "shutdown" THEN "exiting" ELSE @])
        /\ \/ /\ Doable(i, item.by, item.command) /\ item.command \in Using
              /\ storage' = [storage EXCEPT ![proc[i].project] = Stored(item.by, @)]
              /\ rooted' = rooted \cup {proc[i].project}
              /\ Becomes(item.by, [call[item.by] EXCEPT !.applied = TRUE])
           \/ /\ ok => item.command \in {"health", "shutdown"}
              /\ UNCHANGED <<storage, rooted, call>>
  BY ExecuteIs
<1>4. proc[i] \in ProcRows
  BY DEF ServiceTypes
<1>5. /\ proc' \in [Procs -> ProcRows] /\ \A j \in Procs : j # i => proc'[j] = proc[j]
      /\ proc'[i].lock = c /\ proc'[i].project = proc[i].project
      /\ proc'[i].config = proc[i].config
      /\ proc'[i].inbox = Tail(proc[i].inbox)
      /\ proc'[i].outbox = Append(proc[i].outbox, [by |-> item.by, ok |-> ok])
      /\ proc'[i].state = IF item.command = "shutdown" THEN "exiting" ELSE proc[i].state
  <2>1. ProcBecomes(i, [proc[i] EXCEPT !.inbox = Tail(@),
             !.outbox = Append(@, [by |-> item.by, ok |-> ok]),
             !.state = IF item.command = "shutdown" THEN "exiting" ELSE @])
    BY <1>3
  <2> HIDE DEF item
  <2> QED BY <1>4, <2>1 DEF ProcBecomes, ProcRows
<1>6. /\ Len(proc'[i].outbox) = 1 /\ proc'[i].outbox # << >>
      /\ Head(proc'[i].outbox) = [by |-> c, ok |-> ok]
  BY <1>2, <1>5
<1>7. ASSUME item.command \in Using,
             Becomes(item.by, [call[item.by] EXCEPT !.applied = TRUE])
      PROVE  Continues(c, "await", i, call[c].command, TRUE)
  <2>1. call[c] \in CallRows /\ call'[c] = [call[c] EXCEPT !.applied = TRUE]
    BY <1>2, <1>7 DEF Becomes, ServiceTypes
  <2>2. call'[c] \in CallRows
    BY <2>1 DEF CallRows
  <2>3. \A d \in Callers : d # c => call'[d] = call[d]
    BY <1>2, <1>7 DEF Becomes
  <2>4. call' \in [Callers -> CallRows]
    BY <1>2, <1>7, <2>2 DEF Becomes, ServiceTypes
  <2> HIDE DEF item, c
  <2> QED BY <1>2, <2>1, <2>2, <2>3, <2>4 DEF Continues, CallRows
<1>8. \/ /\ Doable(i, c, call[c].command) /\ call[c].command \in Using
         /\ storage' = [storage EXCEPT ![proc[i].project] = Stored(c, @)]
         /\ rooted' = rooted \cup {proc[i].project}
         /\ Continues(c, "await", i, call[c].command, TRUE)
      \/ /\ ok => call[c].command \notin Using
         /\ UNCHANGED <<storage, rooted, call>>
  BY <1>2, <1>3, <1>7 DEF Using
<1>9. Head(proc'[i].outbox).by = c /\ Head(proc'[i].outbox).ok = ok
  BY <1>6
<1>10. /\ proc'[i].state \in {"serving", "exiting"} /\ proc'[i].inbox = << >>
       /\ call[c].command = "shutdown" => proc'[i].state = "exiting"
  BY <1>1, <1>2, <1>5
<1> HIDE DEF c
<1> QED BY <1>1, <1>5, <1>6, <1>8, <1>9, <1>10 DEF c

\* A worker that executes a command keeps the service's invariant.
LEMMA ExecuteKeepsService ==
  ASSUME ServiceTypes, ServiceInv, NEW i \in Procs, Execute(i)
  PROVE  ServiceTypes' /\ ServiceInv'
<1>0. /\ proc[i].state = "serving" /\ proc[i].inbox # << >>
  BY DEF Execute
<1>1. PICK c \in Callers : c = proc[i].lock
  BY <1>0, ExecutedIs
<1>2. /\ proc' \in [Procs -> ProcRows] /\ \A j \in Procs : j # i => proc'[j] = proc[j]
      /\ proc'[i].lock = c /\ proc'[i].project = proc[i].project /\ UNCHANGED <<instance, guard>>
      /\ proc'[i].inbox = << >> /\ Len(proc'[i].outbox) = 1
      /\ proc'[i].outbox # << >> /\ Head(proc'[i].outbox).by = c
      /\ proc'[i].state \in {"serving", "exiting"}
      /\ call[c].command = "shutdown" => proc'[i].state = "exiting"
      /\ \/ /\ Doable(i, c, call[c].command) /\ call[c].command \in Using
            /\ storage' = [storage EXCEPT ![proc[i].project] = Stored(c, @)]
            /\ rooted' = rooted \cup {proc[i].project}
            /\ Continues(c, "await", i, call[c].command, TRUE)
         \/ /\ Head(proc'[i].outbox).ok => call[c].command \notin Using
            /\ UNCHANGED <<storage, rooted, call>>
  BY <1>1, ExecuteChanges
<1>3. /\ call[c].pc = "await" /\ call[c].target = i /\ proc[i].project = call[c].project
      /\ proc[i].project \in Projects
      /\ call[c].command \in Using => call[c].name = call[c].command
  BY <1>0, <1>1, ExecutedIs
<1>4. /\ call' \in [Callers -> CallRows] /\ \A d \in Callers : d # c => call'[d] = call[d]
      /\ call'[c].pc = "await" /\ call'[c].target = i /\ call'[c].command = call[c].command
      /\ call'[c].name = call[c].name /\ call'[c].project = call[c].project
      /\ call'[c].dataset = call[c].dataset
      /\ call'[c].applied # call[c].applied => call[c].name \in Using
      /\ Head(proc'[i].outbox).ok /\ call[c].command \in Using => call'[c].applied
  BY <1>2, <1>3 DEF Continues, ServiceTypes
<1>5. /\ \A j \in Procs : j # i => QueueOK(j)'
      /\ \A d \in Callers : call'[d] = call[d] => CallOK(d)'
      /\ \A p \in Projects : InstanceOK(p)'
  BY <1>0, <1>1, <1>2, <1>4, ProcessKeepsOthers
<1>6. CallOK(c)
  BY DEF ServiceInv
<1>7. CallOK(c)'
  BY <1>2, <1>3, <1>4, <1>6 DEF CallOK, Using, Ended
<1>8. QueueOK(i)'
  <2>1. Len(proc'[i].inbox) + Len(proc'[i].outbox) <= 1
    BY <1>2
  <2> QED BY <1>2, <1>3, <1>4, <2>1, NoneAssumption DEF QueueOK, Alive
<1>9. storage' \in [Projects -> SUBSET Datasets] /\ rooted' \subseteq Projects
  <2>1. ASSUME call[c].command \in Using PROVE Stored(c, storage[proc[i].project]) \subseteq Datasets
    BY <1>3, <1>6, <2>1 DEF Stored, CallOK, ServiceTypes
  <2> QED BY <1>2, <1>3, <2>1 DEF ServiceTypes
<1>10. ServiceTypes'
  BY <1>2, <1>4, <1>9 DEF ServiceTypes
<1> QED BY <1>4, <1>5, <1>7, <1>8, <1>10 DEF ServiceInv

\* A restart of the service keeps its invariant.
LEMMA RestartKeepsService ==
  ASSUME ServiceTypes, ServiceInv, Restart
  PROVE  ServiceTypes' /\ ServiceInv'
<1>1. /\ instance' = [p \in Projects |-> None] /\ guard' = None
      /\ proc' = [i \in Procs |-> NoProc] /\ UNCHANGED <<storage, rooted>>
      /\ call' = [c \in Callers |->
                    IF Ended(c) THEN call[c] ELSE [call[c] EXCEPT !.pc = "failed"]]
  BY DEF Restart
<1>2. /\ NoProc \in ProcRows /\ NoProc.state = "none" /\ NoProc.lock = None
      /\ NoProc.inbox = << >> /\ NoProc.outbox = << >>
  BY DEF NoProc, ProcRows
<1>3. ASSUME NEW j \in Procs PROVE QueueOK(j)'
  <2>1. proc'[j] = NoProc
    BY <1>1
  <2>2. /\ proc'[j].state = "none" /\ proc'[j].lock = None /\ proc'[j].inbox = << >>
        /\ proc'[j].outbox = << >>
    BY <1>2, <2>1
  <2>3. Len(proc'[j].inbox) + Len(proc'[j].outbox) <= 1
    BY <2>2
  <2> QED BY <2>2, <2>3 DEF QueueOK, Alive
<1>4. ASSUME NEW d \in Callers PROVE CallOK(d)' /\ call'[d] \in CallRows
  <2>1. CallOK(d) /\ call[d] \in CallRows
    BY DEF ServiceInv, ServiceTypes
  <2>2. CASE Ended(d)
    <3>1. call'[d] = call[d]
      BY <1>1, <2>2
    <3> QED BY <2>1, <2>2, <3>1 DEF CallOK, Ended, Using
  <2>3. CASE ~Ended(d)
    <3>1. call'[d] = [call[d] EXCEPT !.pc = "failed"]
      BY <1>1, <2>3
    <3>2. /\ call'[d] \in CallRows /\ call'[d].pc = "failed" /\ call'[d].name = call[d].name
          /\ call'[d].project = call[d].project /\ call'[d].dataset = call[d].dataset
          /\ call'[d].applied = call[d].applied
      BY <2>1, <3>1 DEF CallRows
    <3> QED BY <2>1, <2>3, <3>2 DEF CallOK, Ended, Using
  <2> QED BY <2>2, <2>3
<1>5. ASSUME NEW q \in Projects PROVE InstanceOK(q)'
  BY <1>1 DEF InstanceOK
<1>6. call' \in [Callers -> CallRows]
  <2>1. call' = [d \in Callers |-> call'[d]]
    BY <1>1
  <2> QED BY <1>4, <2>1
<1>7. ServiceTypes'
  BY <1>1, <1>2, <1>6 DEF ServiceTypes
<1> QED BY <1>3, <1>4, <1>5, <1>7 DEF ServiceInv

\* Every step of the service keeps its types and its invariant.
LEMMA ServiceStepKeepsService ==
  ASSUME ServiceTypes, ServiceInv, ServiceStep
  PROVE  ServiceTypes' /\ ServiceInv'
<1>1. ASSUME NEW c \in Callers, HandlerStep(c) PROVE ServiceTypes' /\ ServiceInv'
  BY <1>1, PutKeepsService, AnsweredKeepsService, LookKeepsService, StartKeepsService,
     StopKeepsService, JoinKeepsService, RemoveKeepsService, RemovalFailsKeepsService
     DEF HandlerStep
<1>2. ASSUME NEW i \in Procs, ProcessStep(i) \/ Crash(i) \/ LoseAnswer(i)
      PROVE  ServiceTypes' /\ ServiceInv'
  BY <1>2, ConfigureKeepsService, ExecuteKeepsService, ExitKeepsService, CrashKeepsService,
     LoseAnswerKeepsService DEF ProcessStep
<1> QED BY <1>1, <1>2, RestartKeepsService DEF ServiceStep

-----------------------------------------------------------------------------
(* Requests: what they change, and the types.                              *)

Points == {"idle", "starting", "remembering", "reading", "undoing", "committing", "stopping",
           "ok", "failed", "leaked"}

RequestTypes ==
  /\ client \in [Callers -> ClientRows] /\ holder \in [Projects -> Callers \cup {None}]
  /\ row \subseteq Projects /\ git \subseteq Projects
  /\ \A c \in Callers : client[c].pc # "idle" => client[c].project \in Projects

\* Request c goes on at pc.
Goes(c, pc) ==
  /\ client' \in [Callers -> ClientRows] /\ \A d \in Callers : d # c => client'[d] = client[d]
  /\ client'[c].pc = pc /\ client'[c].kind = client[c].kind
  /\ client'[c].project = client[c].project /\ client'[c].config = client[c].config
  /\ client'[c].alone = client[c].alone

\* Request c begins; the others of its project learn that it overlaps them.
Begun(c, kind, p, config, pc) ==
  /\ client[c].pc = "idle" /\ client' \in [Callers -> ClientRows]
  /\ client'[c].pc = pc /\ client'[c].kind = kind /\ client'[c].project = p
  /\ client'[c].config = config
  /\ client'[c].alone <=> \A d \in Callers : client[d].project = p => ~Open(d)
  /\ \A d \in Callers : d # c =>
       /\ client'[d].pc = client[d].pc /\ client'[d].kind = client[d].kind
       /\ client'[d].project = client[d].project /\ client'[d].config = client[d].config
       /\ client'[d].alone <=> client[d].alone /\ ~(client[d].project = p /\ Open(d))

\* A call of request c arrives at the service.
Asked(c) ==
  \E name \in Names, p \in Projects, dataset \in Datasets \cup {None},
     config \in Configs \cup {None} :
       SubmitOK(name, p, dataset, config) /\ Submit(c, name, p, dataset, config)

\* What a request that reaches its next point writes.
LEMMA ReachIs ==
  ASSUME RequestTypes, NEW c \in Callers, NEW pc \in Points, Reach(c, pc)
  PROVE  Goes(c, pc)
<1>1. client[c] \in ClientRows /\ client' = [client EXCEPT ![c].pc = pc]
  BY DEF RequestTypes, Reach
<1> DEFINE r == [client[c] EXCEPT !.pc = pc]
<1>2. /\ r \in ClientRows /\ r.pc = pc /\ r.kind = client[c].kind
      /\ r.project = client[c].project /\ r.config = client[c].config
      /\ r.alone = client[c].alone
  BY <1>1 DEF ClientRows, Points
<1>3. client' = [client EXCEPT ![c] = r]
  BY <1>1
<1> HIDE DEF r
<1> QED BY <1>2, <1>3 DEF Goes, RequestTypes

\* What a request that finishes writes: it gives up the project's lock.
LEMMA FinishIs ==
  ASSUME RequestTypes, NEW c \in Callers, NEW pc \in Points, Finish(c, pc)
  PROVE  /\ Goes(c, pc) /\ holder' \in [Projects -> Callers \cup {None}]
         /\ \A p \in Projects : holder'[p] = IF holder[p] = c THEN None ELSE holder[p]
<1>1. Goes(c, pc)
  BY ReachIs DEF Finish
<1> QED BY <1>1 DEF Finish, RequestTypes

\* What beginning a request writes.
LEMMA BeginIs ==
  ASSUME RequestTypes, NEW c \in Callers, NEW kind \in Kinds, NEW p \in Projects,
         NEW config \in Configs \cup {None}, NEW pc \in Points, Begin(c, kind, p, config, pc)
  PROVE  Begun(c, kind, p, config, pc)
<1> DEFINE others == {d \in Callers : client[d].project = p /\ Open(d)}
           r == [kind |-> kind, project |-> p, config |-> config, pc |-> pc,
                 alone |-> others = {}]
           f(d) == CASE d = c -> r
                     [] d \in others -> [client[d] EXCEPT !.alone = FALSE]
                     [] OTHER -> client[d]
<1>1. client[c].pc = "idle" /\ client' = [d \in Callers |-> f(d)]
  BY DEF Begin
<1>2. c \notin others
  BY <1>1 DEF Open
<1>3. r \in ClientRows /\ f(c) = r
  <2>1. f(c) = r
    BY <1>2
  <2> DEFINE alone == others = {}
  <2>2. alone \in BOOLEAN
    OBVIOUS
  <2> HIDE DEF alone
  <2>3. [kind |-> kind, project |-> p, config |-> config, pc |-> pc, alone |-> alone]
          \in ClientRows
    BY <2>2 DEF ClientRows, Points
  <2> QED BY <2>1, <2>3 DEF alone
<1>4. r.alone <=> \A d \in Callers : client[d].project = p => ~Open(d)
  OBVIOUS
<1>5. ASSUME NEW d \in Callers, d # c
      PROVE  /\ f(d) \in ClientRows
             /\ f(d).pc = client[d].pc /\ f(d).kind = client[d].kind
             /\ f(d).project = client[d].project /\ f(d).config = client[d].config
             /\ f(d).alone <=> client[d].alone /\ ~(client[d].project = p /\ Open(d))
  <2>1. client[d] \in ClientRows
    BY DEF RequestTypes
  <2>2. CASE d \in others
    <3>1. f(d) = [client[d] EXCEPT !.alone = FALSE]
      BY <1>5, <2>2
    <3>2. client[d].project = p /\ Open(d)
      BY <2>2
    <3> HIDE DEF f
    <3> QED BY <2>1, <3>1, <3>2 DEF ClientRows
  <2>3. CASE d \notin others
    <3>1. f(d) = client[d]
      BY <1>5, <2>3
    <3>2. ~(client[d].project = p /\ Open(d))
      BY <2>3
    <3> HIDE DEF f
    <3> QED BY <2>1, <3>1, <3>2
  <2> QED BY <2>2, <2>3
<1>6. r.kind = kind /\ r.project = p /\ r.config = config /\ r.pc = pc
  OBVIOUS
<1> HIDE DEF r, f
<1>7. client' \in [Callers -> ClientRows]
  BY <1>1, <1>3, <1>5
<1>8. client'[c] = r /\ \A d \in Callers : d # c => client'[d] = f(d)
  BY <1>1, <1>3
<1> HIDE DEF others
<1> QED BY <1>1, <1>4, <1>5, <1>6, <1>7, <1>8 DEF Begun

\* A request goes on, and what it has changed is of the right type.
LEMMA GoesKeepsTypes ==
  ASSUME RequestTypes, NEW c \in Callers, NEW pc \in Points, Goes(c, pc), client[c].pc # "idle",
         row' \subseteq Projects, git' \subseteq Projects,
         holder' \in [Projects -> Callers \cup {None}]
  PROVE  RequestTypes'
BY DEF RequestTypes, Goes

\* A begun request keeps the requests' types.
LEMMA BegunKeepsTypes ==
  ASSUME RequestTypes, NEW c \in Callers, NEW kind, NEW p \in Projects, NEW config, NEW pc,
         Begun(c, kind, p, config, pc),
         row' \subseteq Projects, git' \subseteq Projects,
         holder' \in [Projects -> Callers \cup {None}]
  PROVE  RequestTypes'
BY DEF RequestTypes, Begun

\* The calls of requests are of the kind the service expects.
LEMMA AskIs ==
  ASSUME RequestTypes, NEW c \in Callers, client[c].pc # "idle", NEW name \in Names,
         NEW dataset \in Datasets \cup {None}, name \in Using => dataset \in Datasets,
         Ask(c, name, dataset)
  PROVE  Asked(c)
<1>1. client[c].project \in Projects /\ client[c].config \in Configs \cup {None}
  BY DEF RequestTypes, ClientRows
<1>2. SubmitOK(name, client[c].project, dataset, client[c].config)
  BY <1>1 DEF SubmitOK
<1> QED BY <1>1, <1>2 DEF Ask, Asked

\* A start or a stop is a call the memory service was asked for.
LEMMA StartAsked ==
  ASSUME NEW c \in Callers, NEW name \in {"start", "stop"}, NEW p \in Projects,
         NEW config \in Configs \cup {None}, Submit(c, name, p, None, config)
  PROVE  Asked(c)
<1>1. SubmitOK(name, p, None, config) /\ name \in Names
  BY DEF SubmitOK, Names, Using
<1> QED BY <1>1 DEF Asked

\* Beginning a request keeps the types, and asks the memory service for at most one call.
LEMMA BeginKeepsTypes ==
  ASSUME RequestTypes, NEW c \in Callers, BeginRequest(c)
  PROVE  RequestTypes' /\ (UNCHANGED service \/ Asked(c))
<1>1. PICK p \in Projects :
        \/ BeginCreate(c, p)
        \/ BeginDelete(c, p)
        \/ \E kind \in {"store", "read"}, config \in Configs : BeginUse(c, kind, p, config)
  BY DEF BeginRequest
<1>2. /\ "empty" \in Configs /\ Kinds = {"create", "delete", "store", "read"}
      /\ "starting" \in Points /\ "failed" \in Points /\ "stopping" \in Points
  BY DEF Configs, Kinds, Points
<1>3. CASE BeginCreate(c, p)
  <2>1. CASE /\ Begin(c, "create", p, "empty", "starting") /\ git' = git \cup {p}
             /\ Submit(c, "start", p, None, "empty")
    <3>1. Begun(c, "create", p, "empty", "starting") /\ Asked(c)
      BY <1>2, <2>1, BeginIs, StartAsked
    <3> QED BY <1>3, <2>1, <3>1, BegunKeepsTypes DEF BeginCreate, RequestTypes
  <2>2. CASE Begin(c, "create", p, "empty", "failed") /\ UNCHANGED <<service, git>>
    <3>1. Begun(c, "create", p, "empty", "failed")
      BY <1>2, <2>2, BeginIs
    <3> QED BY <1>3, <2>2, <3>1, BegunKeepsTypes DEF BeginCreate, RequestTypes
  <2> QED BY <1>3, <2>1, <2>2 DEF BeginCreate
<1>4. CASE BeginDelete(c, p)
  <2>1. Begun(c, "delete", p, None, "stopping") /\ Asked(c)
    BY <1>2, <1>4, BeginIs, StartAsked DEF BeginDelete
  <2> QED BY <1>4, <2>1, BegunKeepsTypes DEF BeginDelete, RequestTypes
<1>5. ASSUME NEW kind \in {"store", "read"}, NEW config \in Configs, BeginUse(c, kind, p, config)
      PROVE  RequestTypes' /\ Asked(c)
  <2>1. Begun(c, kind, p, config, "starting") /\ Asked(c)
    BY <1>2, <1>5, BeginIs, StartAsked DEF BeginUse
  <2>2. holder' \in [Projects -> Callers \cup {None}]
    BY <1>5 DEF BeginUse, RequestTypes
  <2> QED BY <1>5, <2>1, <2>2, BegunKeepsTypes DEF BeginUse, RequestTypes
<1> QED BY <1>1, <1>3, <1>4, <1>5

\* A request that goes on: what it asks the service for.
LEMMA RequestStepKeepsTypes ==
  ASSUME RequestTypes, NEW c \in Callers, RequestStep(c) \/ Die(c)
  PROVE  RequestTypes' /\ (UNCHANGED service \/ Asked(c))
<1> USE DEF AtStep
<1>0. /\ Root \in Datasets /\ c \in Datasets /\ holder \in [Projects -> Callers \cup {None}]
      /\ row \subseteq Projects /\ git \subseteq Projects
      /\ Names = {"start", "stop", "remember", "records", "forget"}
  BY DEF Datasets, RequestTypes, Names
<1>1. ASSUME CreateStarted(c) PROVE RequestTypes' /\ Asked(c)
  <2>1. Goes(c, "remembering") /\ Asked(c)
    BY <1>0, <1>1, ReachIs, AskIs DEF CreateStarted, Points
  <2> QED BY <1>0, <1>1, <2>1, GoesKeepsTypes DEF CreateStarted, Points
<1>2. ASSUME CreateStartFails(c) PROVE RequestTypes' /\ UNCHANGED service
  BY <1>0, <1>2, FinishIs, GoesKeepsTypes DEF CreateStartFails, Points
<1>3. ASSUME CreateRemembered(c) PROVE RequestTypes' /\ UNCHANGED service
  BY <1>0, <1>3, ReachIs, GoesKeepsTypes DEF CreateRemembered, Points
<1>4. ASSUME CreateRememberFails(c) PROVE RequestTypes' /\ Asked(c)
  <2>1. Goes(c, "undoing") /\ Asked(c)
    BY <1>0, <1>4, ReachIs, AskIs DEF CreateRememberFails, Points, Using
  <2> QED BY <1>0, <1>4, <2>1, GoesKeepsTypes DEF CreateRememberFails, Points
<1>5. ASSUME CreateUndone(c) PROVE RequestTypes' /\ UNCHANGED service
  BY <1>0, <1>5, FinishIs, GoesKeepsTypes DEF CreateUndone, Points
<1>6. ASSUME CommitCreate(c) PROVE RequestTypes' /\ UNCHANGED service
  <2>1. client[c].project \in Projects
    BY <1>6 DEF CommitCreate, RequestTypes
  <2> QED BY <1>0, <1>6, <2>1, FinishIs, GoesKeepsTypes DEF CommitCreate, Points
<1>7. ASSUME DeleteStopped(c) PROVE RequestTypes' /\ UNCHANGED service
  BY <1>0, <1>7, ReachIs, FinishIs, GoesKeepsTypes DEF DeleteStopped, Points
<1>8. ASSUME DeleteFails(c) PROVE RequestTypes' /\ UNCHANGED service
  BY <1>0, <1>8, FinishIs, GoesKeepsTypes DEF DeleteFails, Points
<1>9. ASSUME CommitDelete(c) PROVE RequestTypes' /\ UNCHANGED service
  BY <1>0, <1>9, FinishIs, GoesKeepsTypes DEF CommitDelete, Points
<1>10. ASSUME UseStarted(c) PROVE RequestTypes' /\ Asked(c)
  <2>1. Goes(c, "reading") /\ Asked(c)
    BY <1>0, <1>10, ReachIs, AskIs DEF UseStarted, Points
  <2> QED BY <1>0, <1>10, <2>1, GoesKeepsTypes DEF UseStarted, Points
<1>11. ASSUME UseRead(c) PROVE RequestTypes' /\ (UNCHANGED service \/ Asked(c))
  <2>1. CASE Finish(c, "ok") /\ UNCHANGED service
    BY <1>0, <1>11, <2>1, FinishIs, GoesKeepsTypes DEF UseRead, Points
  <2>2. CASE Ask(c, "remember", c) /\ Reach(c, "remembering") /\ UNCHANGED holder
    <3>1. Goes(c, "remembering") /\ Asked(c)
      BY <1>0, <1>11, <2>2, ReachIs, AskIs DEF UseRead, Points
    <3> QED BY <1>0, <1>11, <2>2, <3>1, GoesKeepsTypes DEF UseRead, Points
  <2> QED BY <1>11, <2>1, <2>2 DEF UseRead
<1>12. ASSUME StoreRemembered(c) PROVE RequestTypes' /\ UNCHANGED service
  BY <1>0, <1>12, ReachIs, GoesKeepsTypes DEF StoreRemembered, Points
<1>13. ASSUME UseFails(c) PROVE RequestTypes' /\ UNCHANGED service
  BY <1>0, <1>13, FinishIs, GoesKeepsTypes DEF UseFails, Points
<1>14. ASSUME CommitStore(c) PROVE RequestTypes' /\ (UNCHANGED service \/ Asked(c))
  <2>1. CASE Finish(c, "ok") /\ UNCHANGED service
    BY <1>0, <1>14, <2>1, FinishIs, GoesKeepsTypes DEF CommitStore, Points
  <2>2. CASE Ask(c, "forget", c) /\ Finish(c, "undoing")
    <3>1. Goes(c, "undoing") /\ Asked(c) /\ holder' \in [Projects -> Callers \cup {None}]
      BY <1>0, <1>14, <2>2, FinishIs, AskIs DEF CommitStore, Points
    <3> QED BY <1>0, <1>14, <2>2, <3>1, GoesKeepsTypes DEF CommitStore, Points
  <2> QED BY <1>14, <2>1, <2>2 DEF CommitStore
<1>15. ASSUME StoreUndone(c) PROVE RequestTypes' /\ UNCHANGED service
  BY <1>0, <1>15, FinishIs, GoesKeepsTypes DEF StoreUndone, Points
<1>16. ASSUME Die(c) PROVE RequestTypes' /\ UNCHANGED service
  <2>1. PICK pc \in {"leaked", "failed"} : Finish(c, pc)
    BY <1>16 DEF Die
  <2> QED BY <1>0, <1>16, <2>1, FinishIs, GoesKeepsTypes DEF Die, Points
<1> QED BY <1>1, <1>2, <1>3, <1>4, <1>5, <1>6, <1>7, <1>8, <1>9, <1>10, <1>11, <1>12, <1>13,
           <1>14, <1>15, <1>16 DEF RequestStep

\* The number of faults stays within its bound.
LEMMA FaultsStay ==
  ASSUME faults \in 0..MaxFaults, Next
  PROVE  faults' \in 0..MaxFaults
<1>0. MaxFaults \in Nat
  BY ProcsAssumption
<1>1. ASSUME NEW kind, faults' = faults \/ Fault(kind)
      PROVE  faults' \in 0..MaxFaults
  BY <1>0, <1>1 DEF Fault
<1>2. ASSUME NEW c \in Callers, BeginRequest(c) PROVE faults' \in 0..MaxFaults
  BY <1>0, <1>2 DEF BeginRequest, BeginCreate, BeginDelete, BeginUse, Fault
<1>3. ASSUME NEW c \in Callers, RequestStep(c) PROVE faults' \in 0..MaxFaults
  BY <1>0, <1>3 DEF RequestStep, CreateStarted, CreateStartFails, CreateRemembered,
     CreateRememberFails, CreateUndone, CommitCreate, DeleteStopped, DeleteFails, CommitDelete,
     UseStarted, UseRead, StoreRemembered, UseFails, CommitStore, StoreUndone, Answer,
     Unanswered, Fault
<1>4. ASSUME NEW c \in Callers, Die(c) PROVE faults' \in 0..MaxFaults
  BY <1>0, <1>4 DEF Die, Fault
<1>5. ASSUME NEW c \in Callers, HandlerStep(c) PROVE faults' \in 0..MaxFaults
  <2>1. faults' = faults \/ Fault("slow")
    BY <1>5, ZenonT(40) DEF HandlerStep, Put, Answered, EmptyPoll, LookAtProcess, Start, Stop,
       Join, RemoveStorage, RemovalFails
  <2> QED BY <1>1, <2>1
<1>6. ASSUME NEW i \in Procs, ProcessStep(i) \/ Crash(i) \/ LoseAnswer(i)
      PROVE  faults' \in 0..MaxFaults
  <2>1. faults' = faults \/ Fault("command") \/ Fault("crash") \/ Fault("lost")
    BY <1>6, ZenonT(40) DEF ProcessStep, Configure, Execute, Exit, Crash, LoseAnswer
  <2> QED BY <1>1, <2>1
<1>7. ASSUME Restart PROVE faults' \in 0..MaxFaults
  BY <1>0, <1>7 DEF Restart, Fault
<1> QED BY <1>2, <1>3, <1>4, <1>5, <1>6, <1>7 DEF Next, ServiceStep

-----------------------------------------------------------------------------
(* Replaced processes.                                                     *)

\* Call c is going to shut process i down.
ShutsDown(c, i) == ~Ended(c) /\ call[c].target = i /\ call[c].command = "shutdown"

\* Process i is the instance of its project, is ending, or is going to be shut down.
Accounted(i) ==
  \/ ~Alive(i) \/ proc[i].state = "exiting"
  \/ instance[proc[i].project] = i
  \/ \E c \in Callers : ShutsDown(c, i)

\* A live process stays its project's own, or one that is being shut down.
LEMMA AccountedStays ==
  ASSUME NEW i \in Procs, Accounted(i), proc'[i].project = proc[i].project,
         \/ proc'[i].state = proc[i].state
         \/ proc[i].state = "starting" /\ proc'[i].state = "serving"
         \/ proc'[i].state \in {"exiting", "dead"},
         \/ instance'[proc[i].project] = instance[proc[i].project]
         \/ instance[proc[i].project] # i,
         \A c \in Callers : ShutsDown(c, i) => ShutsDown(c, i)'
  PROVE  Accounted(i)'
BY DEF Accounted, Alive

\* Accepting a call keeps every live process accounted for.
LEMMA SubmitKeepsAccounted ==
  ASSUME ServiceTypes, NEW c \in Callers, NEW name \in Names, NEW p \in Projects,
         NEW dataset \in Datasets \cup {None}, NEW config \in Configs \cup {None},
         Submit(c, name, p, dataset, config), NEW i \in Procs, Accounted(i)
  PROVE  Accounted(i)'
<1>1. /\ Ended(c) /\ UNCHANGED <<instance, proc>>
      /\ \A d \in Callers : d # c => call'[d] = call[d]
  BY SubmitIs
<1> QED BY <1>1, AccountedStays DEF ShutsDown, Ended

\* A call that goes on or ends loses no process.
LEMMA HandlerKeepsAccounted ==
  ASSUME ServiceTypes, ServiceInv, NEW c \in Callers,
         HandlerStep(c), NEW i \in Procs, Accounted(i)
  PROVE  Accounted(i)'
<1>0. CallOK(c) /\ call[c] \in CallRows
  BY DEF ServiceInv, ServiceTypes
<1>1. CASE Put(c)
  <2>1. CASE Alive(call[c].target)
    <3>1. PICK k \in Procs :
          /\ UNCHANGED instance
          /\ ProcBecomes(k, [proc[k] EXCEPT !.lock = c,
               !.inbox = Append(@, [by |-> c, command |-> call[c].command])])
          /\ Becomes(c, [call[c] EXCEPT !.pc = "await"])
      BY <1>0, <1>1, <2>1, PutIs
    <3>2. Continues(c, "await", call[c].target, call[c].command, call[c].applied)
      BY <3>1, GoesIs
    <3>3. /\ proc'[k].project = proc[k].project /\ proc'[k].state = proc[k].state
          /\ i # k => proc'[i] = proc[i]
      BY <3>1 DEF ProcBecomes, ServiceTypes, ProcRows
    <3> QED BY <3>1, <3>2, <3>3, AccountedStays DEF ShutsDown, Ended, Continues
  <2>2. CASE ~Alive(call[c].target)
    <3>1. /\ UNCHANGED <<instance, proc>>
          /\ \A d \in Callers : d # c => call'[d] = call[d]
      BY <1>0, <1>1, <2>2, PutIs DEF Becomes
    <3> QED BY <2>2, <3>1 DEF Accounted, Alive, ShutsDown, Ended
  <2> QED BY <2>1, <2>2
<1>2. CASE Answered(c)
  <2>0. PICK k \in Procs :
        /\ k = call[c].target /\ call[c].pc = "await" /\ proc[k].outbox # << >>
        /\ UNCHANGED <<instance>>
        /\ ProcBecomes(k, [proc[k] EXCEPT !.lock = None, !.outbox = Tail(@)])
        /\ \A d \in Callers : d # c => call'[d] = call[d]
    BY <1>0, <1>2, AnsweredIs DEF Becomes
  <2>4. /\ proc'[k].project = proc[k].project /\ proc'[k].state = proc[k].state
        /\ i # k => proc'[i] = proc[i]
    BY <2>0 DEF ProcBecomes, ServiceTypes, ProcRows
  <2>1. proc'[i].project = proc[i].project /\ proc'[i].state = proc[i].state
    BY <2>4
  <2>2. CASE ShutsDown(c, i)
    <3>1. proc[i].lock = c /\ QueueOK(i) /\ c # None
      BY <1>0, <2>0, <2>2, NoneAssumption DEF CallOK, ServiceInv, ShutsDown
    <3>2. proc[i].state \in {"exiting", "dead"}
      BY <2>0, <2>2, <3>1 DEF QueueOK, ShutsDown
    <3> QED BY <2>1, <3>2 DEF Accounted, Alive
  <2>3. CASE ~ShutsDown(c, i)
    BY <2>0, <2>1, <2>3, AccountedStays DEF ShutsDown, Ended
  <2> QED BY <2>2, <2>3
<1>3. CASE EmptyPoll(c) \/ LookAtProcess(c)
  <2>1. PICK k \in Procs :
        /\ UNCHANGED <<instance>>
        /\ \/ /\ Continues(c, "await", k, call[c].command, call[c].applied)
              /\ k = call[c].target /\ UNCHANGED proc
           \/ /\ k = call[c].target /\ ~Alive(k)
              /\ ProcBecomes(k, [proc[k] EXCEPT !.lock = None])
              /\ \A d \in Callers : d # c => call'[d] = call[d]
    BY <1>0, <1>3, LookIs DEF Becomes
  <2>2. CASE Continues(c, "await", k, call[c].command, call[c].applied) /\ UNCHANGED proc
    BY <2>1, <2>2, AccountedStays DEF ShutsDown, Ended, Continues
  <2>3. CASE /\ k = call[c].target /\ ~Alive(k)
             /\ ProcBecomes(k, [proc[k] EXCEPT !.lock = None])
             /\ \A d \in Callers : d # c => call'[d] = call[d]
    <3>1. proc'[i].project = proc[i].project /\ proc'[i].state = proc[i].state
      BY <2>3 DEF ProcBecomes, ServiceTypes, ProcRows
    <3>2. CASE i = k
      BY <2>3, <3>1, <3>2 DEF Accounted, Alive
    <3>3. CASE i # k
      BY <2>1, <2>3, <3>1, <3>3, AccountedStays DEF ShutsDown, Ended
    <3> QED BY <3>2, <3>3
  <2> QED BY <2>1, <2>2, <2>3
<1>4. ASSUME call[c].project \in Projects, Spawn(c),
             ~Running(call[c].project) \/
               proc[instance[call[c].project]].state \in {"exiting", "dead"},
             ShutsDown(c, i) => proc[i].state \in {"exiting", "dead"}
      PROVE  Accounted(i)'
  <2> DEFINE p == call[c].project
  <2>1. PICK k \in Procs :
        /\ ~Alive(k)
        /\ \A j \in Procs \ {k} : proc'[j] = proc[j]
        /\ proc'[k].project = p
        /\ instance' = [instance EXCEPT ![p] = k]
        /\ \A d \in Callers : d # c => call'[d] = call[d]
    BY <1>4, SpawnIs DEF Becomes
  <2>2. instance'[p] = k /\ \A q \in Projects : q # p => instance'[q] = instance[q]
    BY <1>4, <2>1 DEF ServiceTypes
  <2>3. CASE i = k
    BY <2>1, <2>2, <2>3 DEF Accounted
  <2>4. CASE i # k /\ (~Alive(i) \/ proc[i].state = "exiting")
    BY <2>1, <2>4 DEF Accounted, Alive
  <2>5. CASE i # k /\ Alive(i) /\ proc[i].state # "exiting"
    <3>1. proc'[i] = proc[i] /\ proc[i].project \in Projects
      BY <2>1, <2>5 DEF ServiceInv, QueueOK
    <3>2. instance[p] # i /\ ~ShutsDown(c, i)
      BY <1>4, <2>5, NoneAssumption DEF Running, Alive
    <3>3. \A d \in Callers : ShutsDown(d, i) => ShutsDown(d, i)'
      BY <2>1, <3>2 DEF ShutsDown, Ended
    <3>4. instance[proc[i].project] = i => instance'[proc[i].project] = i
      BY <2>2, <3>1, <3>2
    <3> QED BY <3>1, <3>3, <3>4, AccountedStays
  <2> QED BY <2>3, <2>4, <2>5
<1>5. CASE Start(c)
  <2>0. /\ call[c].project \in Projects /\ call[c].command # "shutdown"
    BY <1>0, <1>5, NamesAssumption DEF CallOK, Start, Commands
  <2>1. CASE Spawn(c) /\ ~Running(call[c].project)
    BY <1>4, <2>0, <2>1 DEF ShutsDown
  <2>2. CASE /\ UNCHANGED <<instance, proc>> /\ \A d \in Callers : d # c => call'[d] = call[d]
    BY <2>0, <2>2, AccountedStays DEF ShutsDown, Ended
  <2> QED BY <1>5, <2>0, <2>1, <2>2, StartIs DEF Becomes
<1>6. CASE Stop(c)
  <2> DEFINE p == call[c].project
  <2>0. /\ p \in Projects /\ call[c].target = None
    BY <1>0, <1>6 DEF CallOK, Stop
  <2>1. /\ UNCHANGED proc /\ instance' = [instance EXCEPT ![p] = None]
        /\ \A d \in Callers : d # c => call'[d] = call[d]
        /\ \/ Running(p) /\ Continues(c, "enter", instance[p], "shutdown", call[c].applied)
           \/ ~Running(p)
    <3>1. Running(p) => instance[p] \in Procs
      BY <2>0 DEF Running, ServiceTypes
    <3> QED BY <1>6, <2>0, <3>1, StopIs, EntersIs DEF Becomes, Commands
  <2>2. \A q \in Projects : q # p => instance'[q] = instance[q]
    BY <2>1 DEF ServiceTypes
  <2>3. ~ShutsDown(c, i)
    BY <2>0, NoneAssumption DEF ShutsDown
  <2>4. CASE instance[p] = i
    <3>1. CASE Running(p)
      BY <2>1, <2>4, <3>1 DEF Accounted, ShutsDown, Ended, Continues
    <3>2. CASE ~Running(p)
      BY <2>1, <2>4, <3>2, NoneAssumption DEF Accounted, Running, Alive
    <3> QED BY <3>1, <3>2
  <2>5. CASE instance[p] # i /\ Alive(i)
    <3>1. proc[i].project \in Projects
      BY <2>5 DEF ServiceInv, QueueOK
    <3> QED BY <2>1, <2>2, <2>3, <2>5, <3>1, AccountedStays DEF ShutsDown, Ended
  <2>6. CASE ~Alive(i)
    BY <2>1, <2>6 DEF Accounted, Alive
  <2> QED BY <2>4, <2>5, <2>6
<1>7. CASE Join(c)
  <2>0. /\ call[c].pc = "join" /\ call[c].target \in Procs /\ call[c].project \in Projects
        /\ proc[call[c].target].state \in {"exiting", "dead"}
    BY <1>0, <1>7, NoneAssumption DEF CallOK, Join
  <2>1. CASE call[c].name = "start" /\ Spawn(c)
    <3>1. instance[call[c].project] = call[c].target
      BY <1>0, <2>0, <2>1 DEF CallOK, Ended
    <3> QED BY <1>4, <2>0, <2>1, <3>1 DEF ShutsDown
  <2>2. CASE Goto(c, "remove") /\ UNCHANGED <<instance, proc>>
    <3>1. Continues(c, "remove", call[c].target, call[c].command, call[c].applied)
      BY <2>2, GotoIs, GoesIs
    <3> QED BY <2>2, <3>1, AccountedStays DEF ShutsDown, Ended, Continues
  <2> QED BY <1>7, <2>1, <2>2 DEF Join
<1>8. CASE RemoveStorage(c)
  <2>0. /\ call[c].pc = "remove" /\ UNCHANGED <<instance, proc>>
        /\ \A d \in Callers : d # c => call'[d] = call[d]
        /\ call[c].target # None => proc[call[c].target].state \in {"exiting", "dead"}
    BY <1>0, <1>8, RemoveStorageIs DEF CallOK, Becomes
  <2>1. CASE ShutsDown(c, i)
    BY <2>0, <2>1, NoneAssumption DEF Accounted, ShutsDown, Alive
  <2>2. CASE ~ShutsDown(c, i)
    BY <2>0, <2>2, AccountedStays DEF ShutsDown, Ended
  <2> QED BY <2>1, <2>2
<1>9. CASE RemovalFails(c)
  <2>0. /\ call[c].pc = "remove" /\ UNCHANGED <<instance, proc>>
        /\ \A d \in Callers : d # c => call'[d] = call[d]
        /\ call[c].target # None => proc[call[c].target].state \in {"exiting", "dead"}
    <3>1. call[c].pc = "remove" /\ call[c].project \in Projects
      BY <1>0, <1>9 DEF CallOK, RemovalFails
    <3> QED BY <1>0, <1>9, <3>1, RemovalFailsIs DEF CallOK, Becomes
  <2>1. CASE ShutsDown(c, i)
    BY <2>0, <2>1, NoneAssumption DEF Accounted, ShutsDown, Alive
  <2>2. CASE ~ShutsDown(c, i)
    BY <2>0, <2>2, AccountedStays DEF ShutsDown, Ended
  <2> QED BY <2>1, <2>2
<1> QED BY <1>1, <1>2, <1>3, <1>5, <1>6, <1>7, <1>8, <1>9 DEF HandlerStep

\* A step of a worker keeps every live process accounted for.
LEMMA ProcessKeepsAccounted ==
  ASSUME ServiceTypes, ServiceInv, NEW k \in Procs,
         ProcessStep(k) \/ Crash(k) \/ LoseAnswer(k), NEW i \in Procs, Accounted(i)
  PROVE  Accounted(i)'
<1>1. CASE Configure(k)
  BY <1>1, ConfigureIs, AccountedStays, ZenonT(40)
     DEF ProcBecomes, ServiceTypes, ProcRows, ShutsDown, Ended
<1>2. CASE Exit(k)
  BY <1>2, ExitIs, AccountedStays DEF ProcBecomes, ServiceTypes, ProcRows, ShutsDown, Ended
<1>3. CASE Crash(k)
  BY <1>3, CrashIs, AccountedStays, ZenonT(40) DEF ProcBecomes, ServiceTypes, ProcRows, ShutsDown, Ended
<1>4. CASE LoseAnswer(k)
  BY <1>4, LoseAnswerIs, AccountedStays, ZenonT(40)
     DEF ProcBecomes, ServiceTypes, ProcRows, ShutsDown, Ended
<1>5. CASE Execute(k)
  <2>0. proc[k].state = "serving" /\ proc[k].inbox # << >>
    BY <1>5 DEF Execute
  <2>1. PICK c \in Callers : c = proc[k].lock
    BY <2>0, ExecutedIs
  <2>2. /\ UNCHANGED instance /\ \A j \in Procs : j # k => proc'[j] = proc[j]
        /\ proc'[k].project = proc[k].project /\ proc'[k].state \in {"serving", "exiting"}
        /\ \/ Continues(c, "await", k, call[c].command, TRUE)
           \/ UNCHANGED call
    BY <1>5, <2>1, ExecuteChanges
  <2>3. \A d \in Callers : ShutsDown(d, i) => ShutsDown(d, i)'
    <3>1. call[c].target = k
      BY <2>0, <2>1, ExecutedIs
    <3> QED BY <2>1, <2>2, <3>1 DEF Continues, ShutsDown, Ended
  <2> QED BY <2>0, <2>2, <2>3, AccountedStays
<1> QED BY <1>1, <1>2, <1>3, <1>4, <1>5 DEF ProcessStep

\* Every step of the service keeps every live process accounted for.
LEMMA ServiceStepKeepsAccounted ==
  ASSUME ServiceTypes, ServiceInv, ServiceStep, \A i \in Procs : Accounted(i)
  PROVE  (\A i \in Procs : Accounted(i))'
<1>1. CASE Restart
  <2>1. ASSUME NEW i \in Procs PROVE proc'[i].state = "none"
    BY <1>1 DEF Restart, NoProc
  <2> QED BY <2>1 DEF Accounted, Alive
<1> QED BY <1>1, HandlerKeepsAccounted, ProcessKeepsAccounted DEF ServiceStep

-----------------------------------------------------------------------------
(* Types, answers and replaced processes.                                  *)

BaseInv ==
  /\ ServiceTypes /\ RequestTypes /\ faults \in 0..MaxFaults
  /\ ServiceInv /\ \A i \in Procs : Accounted(i)

\* Nothing is under way in the beginning.
LEMMA InitIsService ==
  ASSUME ServiceInit({Root})
  PROVE  ServiceTypes /\ ServiceInv /\ \A i \in Procs : Accounted(i)
<1>1. /\ instance = [p \in Projects |-> None] /\ guard = None
      /\ proc = [i \in Procs |-> NoProc] /\ rooted \in SUBSET Projects
      /\ storage = [p \in Projects |-> IF p \in rooted THEN {Root} ELSE {}]
      /\ call = [c \in Callers |-> NoCall]
  BY DEF ServiceInit
<1>2. /\ NoProc \in ProcRows /\ NoProc.state = "none" /\ NoProc.lock = None
      /\ NoProc.inbox = << >> /\ NoProc.outbox = << >>
      /\ NoCall \in CallRows /\ NoCall.pc = "none" /\ NoCall.name = "start"
      /\ ~NoCall.applied /\ NoCall.command = None
  BY DEF NoProc, ProcRows, NoCall, CallRows, Names
<1>3. ASSUME NEW i \in Procs PROVE QueueOK(i) /\ Accounted(i)
  <2>1. /\ proc[i].state = "none" /\ proc[i].lock = None
        /\ proc[i].inbox = << >> /\ proc[i].outbox = << >>
    BY <1>1, <1>2
  <2>2. Len(proc[i].inbox) + Len(proc[i].outbox) <= 1
    BY <2>1
  <2> QED BY <2>1, <2>2 DEF QueueOK, Alive, Accounted
<1>4. ASSUME NEW c \in Callers PROVE CallOK(c)
  <2>1. call[c] = NoCall
    BY <1>1
  <2> QED BY <1>2, <2>1 DEF CallOK, Using, Ended
<1>5. \A p \in Projects : InstanceOK(p)
  BY <1>1 DEF InstanceOK
<1>6. storage \in [Projects -> SUBSET Datasets]
  BY <1>1 DEF Datasets
<1> QED BY <1>1, <1>2, <1>3, <1>4, <1>5, <1>6 DEF ServiceTypes, ServiceInv

\* The base invariant holds at the start.
LEMMA InitIsBase == Init => BaseInv
<1> SUFFICES ASSUME Init PROVE BaseInv
  OBVIOUS
<1>1. ServiceInit({Root}) /\ client = [c \in Callers |-> Idle] /\ row = rooted /\ git = rooted
      /\ holder = [p \in Projects |-> None]
  BY DEF Init
<1>2. ServiceTypes /\ ServiceInv /\ \A i \in Procs : Accounted(i)
  BY <1>1, InitIsService
<1>3. Idle \in ClientRows /\ Idle.pc = "idle"
  BY DEF Idle, ClientRows
<1>4. RequestTypes
  BY <1>1, <1>2, <1>3 DEF RequestTypes, ServiceTypes
<1>5. faults \in 0..MaxFaults
  BY <1>1, ProcsAssumption DEF ServiceInit
<1> QED BY <1>2, <1>4, <1>5 DEF BaseInv

\* Nothing happens in the service.
LEMMA StutterKeepsService ==
  ASSUME ServiceTypes, ServiceInv, \A i \in Procs : Accounted(i), UNCHANGED service
  PROVE  ServiceTypes' /\ ServiceInv' /\ (\A i \in Procs : Accounted(i))'
<1>1. UNCHANGED <<instance, guard, proc, storage, rooted, call>>
  BY DEF service
<1>2. ASSUME NEW i \in Procs PROVE QueueOK(i)' /\ Accounted(i)'
  BY <1>1, QueueStays, AccountedStays DEF ServiceInv, ShutsDown, Ended
<1>3. ASSUME NEW c \in Callers PROVE CallOK(c)'
  BY <1>1, CallStays DEF ServiceInv
<1>4. ASSUME NEW p \in Projects PROVE InstanceOK(p)'
  BY <1>1 DEF ServiceInv, InstanceOK
<1>5. ServiceTypes'
  BY <1>1 DEF ServiceTypes
<1> QED BY <1>2, <1>3, <1>4, <1>5 DEF ServiceInv

\* A call that arrives, or nothing at all, at the service.
LEMMA AskedKeepsService ==
  ASSUME ServiceTypes, ServiceInv, \A i \in Procs : Accounted(i), NEW c \in Callers,
         UNCHANGED service \/ Asked(c)
  PROVE  ServiceTypes' /\ ServiceInv' /\ (\A i \in Procs : Accounted(i))'
<1>1. CASE UNCHANGED service
  BY <1>1, StutterKeepsService
<1>2. CASE Asked(c)
  <2>1. PICK name \in Names, p \in Projects, dataset \in Datasets \cup {None},
             config \in Configs \cup {None} :
               SubmitOK(name, p, dataset, config) /\ Submit(c, name, p, dataset, config)
    BY <1>2 DEF Asked
  <2> QED BY <2>1, SubmitKeepsService, SubmitKeepsAccounted
<1> QED BY <1>1, <1>2

\* Every step keeps the base invariant.
LEMMA BaseKept == BaseInv /\ [Next]_vars => BaseInv'
<1> SUFFICES ASSUME BaseInv, [Next]_vars PROVE BaseInv'
  OBVIOUS
<1>0. /\ ServiceTypes /\ RequestTypes /\ faults \in 0..MaxFaults
      /\ ServiceInv /\ \A i \in Procs : Accounted(i)
  BY DEF BaseInv
<1>1. ASSUME NEW c \in Callers, BeginRequest(c) \/ RequestStep(c) \/ Die(c) PROVE BaseInv'
  <2>1. RequestTypes' /\ (UNCHANGED service \/ Asked(c))
    BY <1>0, <1>1, BeginKeepsTypes, RequestStepKeepsTypes
  <2>2. ServiceTypes' /\ ServiceInv' /\ (\A i \in Procs : Accounted(i))'
    BY <1>0, <2>1, AskedKeepsService
  <2>3. faults' \in 0..MaxFaults
    BY <1>0, <1>1, FaultsStay DEF Next
  <2> QED BY <2>1, <2>2, <2>3 DEF BaseInv
<1>2. CASE ServiceStep /\ UNCHANGED <<client, row, holder, git>>
  <2>1. ServiceTypes' /\ ServiceInv' /\ (\A i \in Procs : Accounted(i))'
    BY <1>0, <1>2, ServiceStepKeepsService, ServiceStepKeepsAccounted
  <2>2. RequestTypes'
    BY <1>0, <1>2 DEF RequestTypes
  <2>3. faults' \in 0..MaxFaults
    BY <1>0, <1>2, FaultsStay DEF Next
  <2> QED BY <2>1, <2>2, <2>3 DEF BaseInv
<1>3. CASE UNCHANGED vars
  <2>1. UNCHANGED service /\ UNCHANGED <<faults, client, row, holder, git>>
    BY <1>3 DEF vars
  <2>2. ServiceTypes' /\ ServiceInv' /\ (\A i \in Procs : Accounted(i))'
    BY <1>0, <2>1, StutterKeepsService
  <2>3. RequestTypes' /\ faults' \in 0..MaxFaults
    BY <1>0, <2>1 DEF RequestTypes
  <2> QED BY <2>2, <2>3 DEF BaseInv
<1> QED BY <1>1, <1>2, <1>3 DEF Next

\* The base invariant is an invariant of the specification.
LEMMA BaseInvariance == Spec => []BaseInv
BY InitIsBase, BaseKept, PTL DEF Spec

\* The rows, tables and queues of the service and of its callers have the types of
\* the code.
THEOREM TypeCorrect == Spec => []TypeOK
<1>1. BaseInv => TypeOK
  BY DEF BaseInv, ServiceTypes, RequestTypes, TypeOK
<1> QED BY <1>1, BaseInvariance, PTL

\* ProjectMemoryInstance.request takes the answer to its own command, whatever
\* processes die, answers are lost or calls are given up.
THEOREM AnswersReachTheirCall == Spec => []AnswersBelongToTheLock
<1>1. BaseInv => AnswersBelongToTheLock
  <2> SUFFICES ASSUME BaseInv, NEW i \in Procs, NEW k \in DOMAIN proc[i].outbox,
                      Alive(i) \/ proc[i].lock # None
               PROVE  proc[i].outbox[k].by = proc[i].lock
    BY DEF AnswersBelongToTheLock
  <2>1. /\ QueueOK(i) /\ proc[i].outbox \in Seq([by : Callers, ok : BOOLEAN])
        /\ Len(proc[i].inbox) \in Nat /\ Len(proc[i].outbox) \in Nat
    BY QueueTypes DEF BaseInv, ServiceInv
  <2>2. k \in 1..Len(proc[i].outbox)
    BY <2>1
  <2>3. k = 1
    <3> DEFINE m == Len(proc[i].inbox)
               n == Len(proc[i].outbox)
    <3>1. m \in Nat /\ n \in Nat /\ m + n <= 1 /\ k \in 1..n
      BY <2>1, <2>2 DEF QueueOK
    <3> HIDE DEF m, n
    <3> QED BY <3>1
  <2>4. proc[i].outbox # << >> /\ Head(proc[i].outbox) = proc[i].outbox[1]
    BY <2>1, <2>2, <2>3
  <2> QED BY <2>1, <2>3, <2>4 DEF QueueOK
<1> QED BY <1>1, BaseInvariance, PTL

\* A process that start or stop has replaced is shut down, or a call is about to do
\* it, whatever other calls of the project do meanwhile.
THEOREM ReplacedProcessesEnd == Spec => []ReplacedProcessesShutDown
<1>1. BaseInv => ReplacedProcessesShutDown
  BY DEF BaseInv, Accounted, ShutsDown, ReplacedProcessesShutDown
<1> QED BY <1>1, BaseInvariance, PTL

-----------------------------------------------------------------------------
(* The service implements MemoryStore.                                     *)

\* The operation and the status of each call in MemoryStore.
MappedOp ==
  [c \in Callers |-> IF call[c].pc = "none" THEN None ELSE
     [name |-> call[c].name, project |-> call[c].project, dataset |-> call[c].dataset]]
MappedStatus == [c \in Callers |-> CallStatus(c)]

\* The status of a call at a point of its handler.
StatusAt(pc, applied) ==
  CASE pc \in {"none", "ok", "failed"} -> pc
    [] OTHER -> IF applied THEN "applied" ELSE "pending"

\* A call that goes on keeps its operation.
LEMMA GoingOnIs ==
  ASSUME ServiceTypes, NEW c \in Callers, NEW pc, NEW target, NEW command, NEW applied,
         Continues(c, pc, target, command, applied), call[c].pc # "none", pc # "none"
  PROVE  /\ MappedOp' = MappedOp
         /\ MappedStatus' = [MappedStatus EXCEPT ![c] = StatusAt(pc, applied)]
<1>1. ASSUME NEW d \in Callers
      PROVE  /\ MappedOp'[d] = MappedOp[d]
             /\ MappedStatus'[d] = IF d = c THEN StatusAt(pc, applied) ELSE MappedStatus[d]
  <2>1. CASE d # c
    BY <2>1 DEF Continues, MappedOp, MappedStatus, CallStatus
  <2>2. CASE d = c
    BY <2>2 DEF Continues, MappedOp, MappedStatus, CallStatus, StatusAt
  <2> QED BY <2>1, <2>2
<1>2. MappedOp' = [d \in Callers |-> MappedOp'[d]] /\ MappedOp = [d \in Callers |-> MappedOp[d]]
  BY DEF MappedOp
<1>3. /\ MappedStatus' = [d \in Callers |-> MappedStatus'[d]]
      /\ MappedStatus = [d \in Callers |-> MappedStatus[d]]
  BY DEF MappedStatus
<1>4. MappedOp' = MappedOp
  BY <1>1, <1>2
<1>5. MappedStatus' = [MappedStatus EXCEPT ![c] = StatusAt(pc, applied)]
  BY <1>1, <1>3
<1> QED BY <1>4, <1>5

\* Steps of the store, in the words of the mapping.
LEMMA StoreCalls ==
  ASSUME NEW c \in Callers, MappedStatus[c] \in {"none", "ok", "failed"},
         NEW new \in Store!Operations, MappedOp' = [MappedOp EXCEPT ![c] = new],
         NEW next \in {"pending", "failed"},
         MappedStatus' = [MappedStatus EXCEPT ![c] = next], UNCHANGED storage
  PROVE  Store!Next
BY DEF Store!Next, Store!Call, MappedOp, MappedStatus

\* A call that changes the storage is the store applying its operation.
LEMMA StoreApplies ==
  ASSUME NEW c \in Callers, MappedStatus[c] = "pending", call[c].pc # "none",
         NEW after, after \in Store!Effect(MappedOp[c], storage[call[c].project]),
         storage' = [storage EXCEPT ![call[c].project] = after],
         NEW next \in {"applied", "ok"},
         MappedStatus' = [MappedStatus EXCEPT ![c] = next], MappedOp' = MappedOp
  PROVE  Store!Next
<1>1. MappedOp[c].project = call[c].project
  BY DEF MappedOp
<1>2. Store!Apply(c)
  BY <1>1 DEF Store!Apply, MappedOp, MappedStatus
<1> QED BY <1>2 DEF Store!Next

\* A call that returns after it applied is the store returning.
LEMMA StoreReturns ==
  ASSUME NEW c \in Callers, MappedStatus[c] = "applied",
         MappedStatus' = [MappedStatus EXCEPT ![c] = "ok"], MappedOp' = MappedOp,
         UNCHANGED storage
  PROVE  Store!Next
BY DEF Store!Next, Store!Return, MappedOp, MappedStatus

\* Calls that fail are the store failing them, all at once on a restart.
LEMMA StoreFails ==
  ASSUME NEW some \in SUBSET Callers, \A c \in some : MappedStatus[c] \in {"pending", "applied"},
         MappedStatus' = [c \in Callers |-> IF c \in some THEN "failed" ELSE MappedStatus[c]],
         MappedOp' = MappedOp, UNCHANGED storage
  PROVE  Store!Next
<1>1. some \in SUBSET {c \in Callers : MappedStatus[c] \in {"pending", "applied"}}
  OBVIOUS
<1>2. Store!Fail
  BY <1>1 DEF Store!Fail, MappedOp, MappedStatus
<1> QED BY <1>2 DEF Store!Next

\* A step that neither the storage nor a caller sees is no step of the store.
LEMMA StoreStutters ==
  ASSUME MappedStatus' = MappedStatus, MappedOp' = MappedOp, UNCHANGED storage
  PROVE  UNCHANGED Store!svars
BY DEF Store!svars, MappedOp, MappedStatus

\* The status of a call whose handler runs.
LEMMA RunningStatus ==
  ASSUME NEW c \in Callers, ~Ended(c)
  PROVE  MappedStatus[c] = (IF call[c].applied THEN "applied" ELSE "pending")
BY DEF Ended, MappedStatus, CallStatus

\* A call that fails.
LEMMA FailingIs ==
  ASSUME ServiceTypes, NEW c \in Callers, ~Ended(c),
         Becomes(c, [call[c] EXCEPT !.pc = "failed"]), UNCHANGED storage
  PROVE  Store!Next
<1>1. Continues(c, "failed", call[c].target, call[c].command, call[c].applied)
  BY GoesIs
<1>2. MappedOp' = MappedOp /\ MappedStatus' = [MappedStatus EXCEPT ![c] = "failed"]
  BY <1>1, GoingOnIs DEF StatusAt, Ended
<1>3. MappedStatus[c] \in {"pending", "applied"}
  BY RunningStatus
<1>4. MappedStatus' = [d \in Callers |-> IF d \in {c} THEN "failed" ELSE MappedStatus[d]]
  BY <1>2 DEF MappedStatus
<1> QED BY <1>2, <1>3, <1>4, StoreFails

\* A stop that removes some of the datasets and fails.
LEMMA TearingIs ==
  ASSUME ServiceTypes, NEW c \in Callers, ~Ended(c), ~call[c].applied, call[c].name = "stop",
         Becomes(c, [call[c] EXCEPT !.pc = "failed"]),
         NEW left \in SUBSET storage[call[c].project],
         storage' = [storage EXCEPT ![call[c].project] = left]
  PROVE  Store!Next
<1>1. Continues(c, "failed", call[c].target, call[c].command, call[c].applied)
  BY GoesIs
<1>2. MappedOp' = MappedOp /\ MappedStatus' = [MappedStatus EXCEPT ![c] = "failed"]
  BY <1>1, GoingOnIs DEF StatusAt, Ended
<1>3. MappedStatus[c] = "pending"
  BY RunningStatus
<1>4. MappedOp[c].name = "stop" /\ MappedOp[c].project = call[c].project
  BY DEF MappedOp, Ended
<1>5. Store!Tear(c)
  BY <1>2, <1>3, <1>4 DEF Store!Tear, MappedOp, MappedStatus
<1> QED BY <1>5 DEF Store!Next

\* A call whose handler goes on without an effect.
LEMMA WaitingIs ==
  ASSUME ServiceTypes, NEW c \in Callers, ~Ended(c), NEW pc, NEW target, NEW command,
         Continues(c, pc, target, command, call[c].applied),
         pc \notin {"none", "ok", "failed"}, UNCHANGED storage
  PROVE  UNCHANGED Store!svars
<1>1. /\ MappedOp' = MappedOp
      /\ MappedStatus' = [MappedStatus EXCEPT ![c] = StatusAt(pc, call[c].applied)]
  BY GoingOnIs DEF Ended
<1>2. StatusAt(pc, call[c].applied) = MappedStatus[c]
  BY RunningStatus DEF StatusAt
<1>3. MappedStatus' = MappedStatus
  BY <1>1, <1>2 DEF MappedStatus
<1> QED BY <1>1, <1>3, StoreStutters

\* A call that takes effect with its end.
LEMMA EndingIs ==
  ASSUME ServiceTypes, NEW c \in Callers, ~Ended(c), ~call[c].applied,
         NEW target, NEW command, NEW applied, Continues(c, "ok", target, command, applied),
         NEW after, after \in Store!Effect(MappedOp[c], storage[call[c].project]),
         storage' = [storage EXCEPT ![call[c].project] = after]
  PROVE  Store!Next
<1>1. MappedOp' = MappedOp /\ MappedStatus' = [MappedStatus EXCEPT ![c] = "ok"]
  BY GoingOnIs DEF StatusAt, Ended
<1>2. MappedStatus[c] = "pending"
  BY RunningStatus
<1> QED BY <1>1, <1>2, StoreApplies DEF Ended

\* A start has no effect on what is stored.
LEMMA StartingIs ==
  ASSUME ServiceTypes, NEW c \in Callers, ~Ended(c), call[c].name = "start",
         call[c].project \in Projects, ~call[c].applied,
         Continues(c, "ok", call[c].target, call[c].command, call[c].applied),
         UNCHANGED storage
  PROVE  Store!Next
<1>1. MappedOp[c].name = "start"
  BY DEF MappedOp, Ended
<1>2. Store!Effect(MappedOp[c], storage[call[c].project]) = {storage[call[c].project]}
  BY <1>1 DEF Store!Effect
<1>3. storage' = [storage EXCEPT ![call[c].project] = storage[call[c].project]]
  BY DEF ServiceTypes
<1> QED BY <1>2, <1>3, EndingIs

\* Accepting a call is the store being called.
LEMMA SubmitIsCall ==
  ASSUME ServiceTypes, NEW c \in Callers, Asked(c)
  PROVE  Store!Next
<1>1. PICK name \in Names, p \in Projects, dataset \in Datasets \cup {None},
           config \in Configs \cup {None} : Submit(c, name, p, dataset, config)
  BY DEF Asked
<1>2. /\ Ended(c) /\ UNCHANGED storage
      /\ \A d \in Callers : d # c => call'[d] = call[d]
      /\ call'[c].name = name /\ call'[c].project = p /\ call'[c].dataset = dataset
      /\ ~call'[c].applied /\ call'[c].pc \in {"start", "stop", "enter", "failed"}
  BY <1>1, SubmitIs
<1> DEFINE new == [name |-> name, project |-> p, dataset |-> dataset]
           next == IF call'[c].pc = "failed" THEN "failed" ELSE "pending"
<1>3. new \in Store!Operations
  BY DEF Store!Operations, Names
<1>4. ASSUME NEW d \in Callers
      PROVE  /\ MappedOp'[d] = IF d = c THEN new ELSE MappedOp[d]
             /\ MappedStatus'[d] = IF d = c THEN next ELSE MappedStatus[d]
  BY <1>2 DEF MappedOp, MappedStatus, CallStatus
<1>5. MappedStatus[c] \in {"none", "ok", "failed"}
  BY <1>2 DEF MappedStatus, CallStatus, Ended
<1>6. next \in {"pending", "failed"}
  OBVIOUS
<1> HIDE DEF new, next
<1>7. MappedOp' = [MappedOp EXCEPT ![c] = new]
  BY <1>4 DEF MappedOp
<1>8. MappedStatus' = [MappedStatus EXCEPT ![c] = next]
  BY <1>4 DEF MappedStatus
<1> QED BY <1>2, <1>3, <1>5, <1>6, <1>7, <1>8, StoreCalls

\* A step of a handler is a step of the store or none.
LEMMA HandlerIsStore ==
  ASSUME ServiceTypes, ServiceInv, NEW c \in Callers, HandlerStep(c)
  PROVE  Store!Next \/ UNCHANGED Store!svars
<1>0. CallOK(c) /\ call[c] \in CallRows
  BY DEF ServiceInv, ServiceTypes
<1>1. CASE Put(c)
  <2>1. /\ call[c].pc = "enter" /\ UNCHANGED storage
        /\ \/ Becomes(c, [call[c] EXCEPT !.pc = "await"])
           \/ Becomes(c, [call[c] EXCEPT !.pc = "failed"])
    BY <1>0, <1>1, PutIs
  <2> QED BY <2>1, FailingIs, GoesIs, WaitingIs DEF Ended
<1>2. CASE Answered(c)
  <2>1. PICK i \in Procs :
        /\ i = call[c].target /\ call[c].pc = "await" /\ proc[i].outbox # << >>
        /\ UNCHANGED storage
        /\ \/ /\ Head(proc[i].outbox).by = c /\ Head(proc[i].outbox).ok
              /\ Becomes(c, [call[c] EXCEPT !.pc = Continued(c)])
           \/ Becomes(c, [call[c] EXCEPT !.pc = "failed"])
    BY <1>0, <1>2, AnsweredIs
  <2>2. CASE Becomes(c, [call[c] EXCEPT !.pc = "failed"])
    BY <2>1, <2>2, FailingIs DEF Ended
  <2>3. CASE /\ Head(proc[i].outbox).by = c /\ Head(proc[i].outbox).ok
             /\ Becomes(c, [call[c] EXCEPT !.pc = Continued(c)])
    <3>1. Continued(c) \in {"join", "ok"} /\ (Continued(c) = "join" <=> call[c].command = "shutdown")
      BY DEF Continued
    <3>2. Continues(c, Continued(c), call[c].target, call[c].command, call[c].applied)
      BY <2>3, <3>1, GoesIs
    <3>3. CASE Continued(c) = "join"
      BY <2>1, <3>2, <3>3, WaitingIs DEF Ended
    <3>4. CASE Continued(c) = "ok" /\ call[c].name = "start"
      <4>1. ~call[c].applied /\ call[c].project \in Projects
        BY <1>0, <2>1, <3>4 DEF CallOK
      <4> QED BY <2>1, <3>2, <3>4, <4>1, StartingIs DEF Ended
    <3>5. CASE Continued(c) = "ok" /\ call[c].name # "start"
      <4>1. call[c].command \in Using
        BY <1>0, <2>1, <3>1, <3>5 DEF CallOK
      <4>2. proc[i].lock = c /\ QueueOK(i)
        BY <1>0, <2>1 DEF CallOK, ServiceInv
      <4>3. call[c].applied
        BY <2>1, <2>3, <4>1, <4>2, NoneAssumption DEF QueueOK
      <4>4. MappedStatus[c] = "applied"
        BY <2>1, <4>3, RunningStatus DEF Ended
      <4>5. MappedOp' = MappedOp /\ MappedStatus' = [MappedStatus EXCEPT ![c] = "ok"]
        BY <2>1, <3>2, <3>5, GoingOnIs DEF StatusAt
      <4> QED BY <2>1, <4>4, <4>5, StoreReturns
    <3> QED BY <3>1, <3>3, <3>4, <3>5
  <2> QED BY <2>1, <2>2, <2>3
<1>3. CASE EmptyPoll(c) \/ LookAtProcess(c)
  <2>1. /\ call[c].pc = "await" /\ UNCHANGED storage
        /\ \/ Continues(c, "await", call[c].target, call[c].command, call[c].applied)
           \/ Becomes(c, [call[c] EXCEPT !.pc = "failed"])
    BY <1>0, <1>3, LookIs
  <2> QED BY <2>1, FailingIs, WaitingIs DEF Ended
<1>4. ASSUME Spawn(c), call[c].pc \in {"start", "join"}, UNCHANGED storage
      PROVE  UNCHANGED Store!svars
  <2>1. call[c].project \in Projects
    BY <1>0, <1>4 DEF CallOK
  <2>2. PICK i \in Procs :
          Becomes(c, [call[c] EXCEPT !.pc = "enter", !.target = i, !.command = "health"])
    BY <1>4, <2>1, SpawnIs
  <2>3. Continues(c, "enter", i, "health", call[c].applied)
    BY <2>2, EntersIs DEF Commands
  <2> QED BY <1>4, <2>3, WaitingIs DEF Ended
<1>5. CASE Start(c)
  <2>1. /\ call[c].pc = "start" /\ call[c].name = "start" /\ ~call[c].applied
        /\ call[c].project \in Projects
    BY <1>0, <1>5 DEF CallOK, Start
  <2>2. CASE Becomes(c, [call[c] EXCEPT !.pc = "ok"]) /\ UNCHANGED storage
    BY <2>1, <2>2, GoesIs, StartingIs DEF Ended
  <2>3. CASE /\ Running(call[c].project) /\ UNCHANGED storage
             /\ Becomes(c, [call[c] EXCEPT !.pc = "enter",
                              !.target = instance[call[c].project], !.command = "shutdown"])
    <3>1. instance[call[c].project] \in Procs
      BY <2>1, <2>3 DEF Running, ServiceTypes
    <3>2. "shutdown" \in Commands /\ "enter" \notin {"none", "ok", "failed"}
      BY DEF Commands
    <3>3. Continues(c, "enter", instance[call[c].project], "shutdown", call[c].applied)
      BY <2>3, <3>1, <3>2, EntersIs
    <3> QED BY <2>1, <3>2, <2>3, <3>3, WaitingIs DEF Ended
  <2> QED BY <1>4, <1>5, <2>1, <2>2, <2>3, StartIs
<1>6. CASE Stop(c)
  <2>1. call[c].pc = "stop" /\ call[c].project \in Projects /\ UNCHANGED storage
    BY <1>0, <1>6 DEF CallOK, Stop
  <2>2. CASE Becomes(c, [call[c] EXCEPT !.pc = "remove"])
    BY <2>1, <2>2, GoesIs, WaitingIs DEF Ended
  <2>3. CASE /\ Running(call[c].project)
             /\ Becomes(c, [call[c] EXCEPT !.pc = "enter",
                              !.target = instance[call[c].project], !.command = "shutdown"])
    <3>1. instance[call[c].project] \in Procs
      BY <2>1, <2>3 DEF Running, ServiceTypes
    <3>2. "shutdown" \in Commands /\ "enter" \notin {"none", "ok", "failed"}
      BY DEF Commands
    <3>3. Continues(c, "enter", instance[call[c].project], "shutdown", call[c].applied)
      BY <2>3, <3>1, <3>2, EntersIs
    <3> QED BY <2>1, <3>2, <3>3, WaitingIs DEF Ended
  <2> QED BY <1>6, <2>1, <2>2, <2>3, StopIs
<1>7. CASE Join(c)
  <2>1. call[c].pc = "join" /\ UNCHANGED storage /\ (Spawn(c) \/ Goto(c, "remove"))
    BY <1>7 DEF Join
  <2> QED BY <1>4, <2>1, GotoIs, GoesIs, WaitingIs, ZenonT(40) DEF Ended
<1>8. CASE RemoveStorage(c)
  <2>1. /\ call[c].pc = "remove" /\ storage' = [storage EXCEPT ![call[c].project] = {}]
        /\ Becomes(c, [call[c] EXCEPT !.pc = "ok", !.applied = TRUE])
    BY <1>8, RemoveStorageIs
  <2>2. Continues(c, "ok", call[c].target, call[c].command, TRUE)
    <3>1. call'[c] = [call[c] EXCEPT !.pc = "ok", !.applied = TRUE]
      BY <2>1 DEF Becomes
    <3>2. call'[c] \in CallRows
      BY <1>0, <3>1 DEF CallRows
    <3> QED BY <1>0, <2>1, <3>1, <3>2 DEF Continues, Becomes, ServiceTypes, CallRows
  <2>3. call[c].name = "stop" /\ ~call[c].applied
    BY <1>0, <2>1 DEF CallOK
  <2>4. MappedOp[c].name = "stop"
    BY <2>1, <2>3 DEF MappedOp
  <2>5. {} \in Store!Effect(MappedOp[c], storage[call[c].project])
    BY <2>4 DEF Store!Effect
  <2> QED BY <2>1, <2>2, <2>3, <2>5, EndingIs DEF Ended
<1>9. CASE RemovalFails(c)
  <2>1. /\ call[c].pc = "remove" /\ call[c].name = "stop" /\ ~call[c].applied
        /\ call[c].project \in Projects
    BY <1>0, <1>9 DEF CallOK, RemovalFails
  <2>2. PICK left \in SUBSET storage[call[c].project] :
          storage' = [storage EXCEPT ![call[c].project] = left]
    BY <1>9, <2>1, RemovalFailsIs
  <2>3. Becomes(c, [call[c] EXCEPT !.pc = "failed"])
    BY <1>9, <2>1, RemovalFailsIs
  <2> QED BY <2>1, <2>2, <2>3, TearingIs DEF Ended
<1> QED BY <1>1, <1>2, <1>3, <1>5, <1>6, <1>7, <1>8, <1>9 DEF HandlerStep

\* A command takes effect when its process executes it.
LEMMA ExecuteIsStore ==
  ASSUME ServiceTypes, ServiceInv, NEW i \in Procs, Execute(i)
  PROVE  Store!Next \/ UNCHANGED Store!svars
<1>0. proc[i].state = "serving" /\ proc[i].inbox # << >>
  BY DEF Execute
<1>1. PICK c \in Callers : c = proc[i].lock
  BY <1>0, ExecutedIs
<1>2. /\ call[c].pc = "await" /\ proc[i].project = call[c].project
      /\ ~call[c].applied
      /\ call[c].command \in Using => call[c].name = call[c].command
  BY <1>0, <1>1, ExecutedIs
<1>3. \/ /\ Doable(i, c, call[c].command) /\ call[c].command \in Using
         /\ storage' = [storage EXCEPT ![proc[i].project] = Stored(c, @)]
         /\ Continues(c, "await", i, call[c].command, TRUE)
      \/ UNCHANGED <<storage, call>>
  BY <1>1, ExecuteChanges
<1>4. CASE UNCHANGED <<storage, call>>
  BY <1>4, StoreStutters DEF MappedOp, MappedStatus, CallStatus
<1>5. CASE /\ Doable(i, c, call[c].command) /\ call[c].command \in Using
           /\ storage' = [storage EXCEPT ![proc[i].project] = Stored(c, @)]
           /\ Continues(c, "await", i, call[c].command, TRUE)
  <2>1. MappedOp' = MappedOp /\ MappedStatus' = [MappedStatus EXCEPT ![c] = "applied"]
    BY <1>2, <1>5, GoingOnIs DEF StatusAt
  <2>2. MappedStatus[c] = "pending"
    BY <1>2, RunningStatus DEF Ended
  <2>3. /\ MappedOp[c].name = call[c].name /\ MappedOp[c].dataset = call[c].dataset
    BY <1>2 DEF MappedOp
  <2>4. Stored(c, storage[call[c].project])
          \in Store!Effect(MappedOp[c], storage[call[c].project])
    BY <1>2, <1>5, <2>3 DEF Doable, Using, Stored, Store!Effect
  <2>5. storage' = [storage EXCEPT ![call[c].project] = Stored(c, storage[call[c].project])]
    BY <1>2, <1>5
  <2> QED BY <1>2, <2>1, <2>2, <2>4, <2>5, StoreApplies
<1> QED BY <1>3, <1>4, <1>5

\* All calls fail with the service.
LEMMA RestartIsFail ==
  ASSUME ServiceTypes, Restart
  PROVE  Store!Next
<1> DEFINE some == {c \in Callers : ~Ended(c)}
<1>1. /\ UNCHANGED storage
      /\ call' = [c \in Callers |->
                    IF Ended(c) THEN call[c] ELSE [call[c] EXCEPT !.pc = "failed"]]
  BY DEF Restart
<1>2. \A c \in some : MappedStatus[c] \in {"pending", "applied"}
  BY RunningStatus
<1>3. ASSUME NEW c \in Callers
      PROVE  /\ MappedOp'[c] = MappedOp[c]
             /\ MappedStatus'[c] = IF c \in some THEN "failed" ELSE MappedStatus[c]
  <2>1. CASE Ended(c)
    BY <1>1, <2>1 DEF MappedOp, MappedStatus, CallStatus
  <2>2. CASE ~Ended(c)
    <3>1. call[c] \in CallRows /\ call'[c] = [call[c] EXCEPT !.pc = "failed"]
      BY <1>1, <2>2 DEF ServiceTypes
    <3>2. /\ call'[c].pc = "failed" /\ call'[c].name = call[c].name
          /\ call'[c].project = call[c].project /\ call'[c].dataset = call[c].dataset
      BY <3>1 DEF CallRows
    <3> QED BY <2>2, <3>2 DEF MappedOp, MappedStatus, CallStatus, Ended
  <2> QED BY <2>1, <2>2
<1> HIDE DEF some
<1>4. MappedOp' = MappedOp
  BY <1>3 DEF MappedOp
<1>5. MappedStatus' = [c \in Callers |-> IF c \in some THEN "failed" ELSE MappedStatus[c]]
  BY <1>3 DEF MappedStatus
<1>6. some \in SUBSET Callers
  BY DEF some
<1> QED BY <1>1, <1>2, <1>4, <1>5, <1>6, StoreFails

\* Every step is one of the store, or none that it shows.
LEMMA StepIsStore == BaseInv /\ [Next]_vars => [Store!Next]_(Store!svars)
<1> SUFFICES ASSUME BaseInv, [Next]_vars PROVE Store!Next \/ UNCHANGED Store!svars
  OBVIOUS
<1>0. ServiceTypes /\ RequestTypes /\ ServiceInv
  BY DEF BaseInv
<1>1. ASSUME UNCHANGED <<storage, call>> PROVE UNCHANGED Store!svars
  BY <1>1, StoreStutters DEF MappedOp, MappedStatus, CallStatus
<1>2. ASSUME NEW c \in Callers, BeginRequest(c) \/ RequestStep(c) \/ Die(c)
      PROVE  Store!Next \/ UNCHANGED Store!svars
  <2>1. UNCHANGED service \/ Asked(c)
    BY <1>0, <1>2, BeginKeepsTypes, RequestStepKeepsTypes
  <2> QED BY <1>0, <1>1, <2>1, SubmitIsCall DEF service
<1>3. CASE ServiceStep
  <2>1. ASSUME NEW i \in Procs, ProcessStep(i) \/ Crash(i) \/ LoseAnswer(i)
        PROVE  Store!Next \/ UNCHANGED Store!svars
    BY <1>0, <1>1, <2>1, ExecuteIsStore, ConfigureIs, ExitIs, CrashIs, LoseAnswerIs
       DEF ProcessStep
  <2> QED BY <1>0, <1>3, <2>1, HandlerIsStore, RestartIsFail DEF ServiceStep
<1>4. CASE UNCHANGED vars
  BY <1>1, <1>4 DEF vars, service
<1> QED BY <1>2, <1>3, <1>4 DEF Next

\* The initial states are the store's.
LEMMA InitIsStore == Init => Store!Init
<1> SUFFICES ASSUME Init PROVE Store!Init
  OBVIOUS
<1>1. call = [c \in Callers |-> NoCall] /\ NoCall.pc = "none"
  BY DEF Init, ServiceInit, NoCall
<1>2. storage \in [Projects -> SUBSET Datasets]
  BY InitIsBase DEF BaseInv, ServiceTypes
<1> QED BY <1>1, <1>2 DEF Store!Init, CallStatus

\* Through queues, locks, restarts, replaced processes and lost answers a call of
\* the memory service takes effect at most once, between its beginning and its end.
THEOREM ServiceIsAtomic == Spec => MemoryStoreSpec
BY InitIsStore, StepIsStore, BaseInvariance, PTL DEF Spec, MemoryStoreSpec, Store!Spec

-----------------------------------------------------------------------------
(* What a step of the service does to the calls of requests and to what is  *)
(* stored for them.                                                        *)

\* A handler moves its own call.
LEMMA HandlerIs ==
  ASSUME ServiceTypes, ServiceInv, NEW c \in Callers, HandlerStep(c)
  PROVE  /\ ~Ended(c)
         /\ \/ UNCHANGED storage
            \/ /\ call[c].name = "stop"
               /\ \A q \in Projects : q # call[c].project => storage'[q] = storage[q]
         /\ \E pc, target, command, applied :
              /\ Continues(c, pc, target, command, applied) /\ pc # "none"
              /\ applied = call[c].applied \/ (RemoveStorage(c) /\ call[c].name = "stop")
<1>0. CallOK(c) /\ call[c] \in CallRows
  BY DEF ServiceInv, ServiceTypes
<1>1. CASE Put(c)
  <2>1. /\ call[c].pc = "enter" /\ UNCHANGED storage
        /\ \/ Becomes(c, [call[c] EXCEPT !.pc = "await"])
           \/ Becomes(c, [call[c] EXCEPT !.pc = "failed"])
    BY <1>0, <1>1, PutIs
  <2>2. \E pc \in {"await", "failed"} :
          Continues(c, pc, call[c].target, call[c].command, call[c].applied)
    BY <2>1, GoesIs
  <2> QED BY <2>1, <2>2 DEF Ended
<1>2. CASE Answered(c)
  <2>1. /\ call[c].pc = "await" /\ UNCHANGED storage
        /\ \/ Becomes(c, [call[c] EXCEPT !.pc = Continued(c)])
           \/ Becomes(c, [call[c] EXCEPT !.pc = "failed"])
    BY <1>0, <1>2, AnsweredIs
  <2>2. Continued(c) \in {"join", "ok"}
    BY DEF Continued
  <2>3. \E pc \in {"join", "ok", "failed"} :
          Continues(c, pc, call[c].target, call[c].command, call[c].applied)
    BY <2>1, <2>2, GoesIs
  <2> QED BY <2>1, <2>3 DEF Ended
<1>3. CASE EmptyPoll(c) \/ LookAtProcess(c)
  <2>1. /\ call[c].pc = "await" /\ UNCHANGED storage
        /\ \/ Continues(c, "await", call[c].target, call[c].command, call[c].applied)
           \/ Becomes(c, [call[c] EXCEPT !.pc = "failed"])
    BY <1>0, <1>3, LookIs
  <2>2. \E pc \in {"await", "failed"} :
          Continues(c, pc, call[c].target, call[c].command, call[c].applied)
    BY <2>1, GoesIs
  <2> QED BY <2>1, <2>2 DEF Ended
<1>4. ASSUME Spawn(c), call[c].project \in Projects
      PROVE  \E target, command : Continues(c, "enter", target, command, call[c].applied)
  <2>1. PICK i \in Procs :
          Becomes(c, [call[c] EXCEPT !.pc = "enter", !.target = i, !.command = "health"])
    BY <1>4, SpawnIs
  <2> QED BY <2>1, EntersIs DEF Commands
<1>5. ASSUME Running(call[c].project), call[c].project \in Projects,
             Becomes(c, [call[c] EXCEPT !.pc = "enter",
                           !.target = instance[call[c].project], !.command = "shutdown"])
      PROVE  \E target, command : Continues(c, "enter", target, command, call[c].applied)
  <2>1. instance[call[c].project] \in Procs /\ "shutdown" \in Commands
    BY <1>5 DEF Running, ServiceTypes, Commands
  <2> QED BY <1>5, <2>1, EntersIs
<1>6. CASE Start(c)
  <2>1. call[c].pc = "start" /\ call[c].project \in Projects /\ UNCHANGED storage
    BY <1>0, <1>6 DEF CallOK, Start
  <2>2. \/ Becomes(c, [call[c] EXCEPT !.pc = "ok"])
        \/ Running(call[c].project)
             /\ Becomes(c, [call[c] EXCEPT !.pc = "enter",
                              !.target = instance[call[c].project], !.command = "shutdown"])
        \/ Spawn(c)
    BY <1>6, <2>1, StartIs
  <2>3. \E target, command : \E pc \in {"ok", "enter"} :
          Continues(c, pc, target, command, call[c].applied)
    BY <1>4, <1>5, <2>1, <2>2, GoesIs
  <2> QED BY <2>1, <2>3 DEF Ended
<1>7. CASE Stop(c)
  <2>1. call[c].pc = "stop" /\ call[c].project \in Projects /\ UNCHANGED storage
    BY <1>0, <1>7 DEF CallOK, Stop
  <2>2. \/ Becomes(c, [call[c] EXCEPT !.pc = "remove"])
        \/ Running(call[c].project)
             /\ Becomes(c, [call[c] EXCEPT !.pc = "enter",
                              !.target = instance[call[c].project], !.command = "shutdown"])
    BY <1>7, <2>1, StopIs
  <2>3. \E target, command : \E pc \in {"remove", "enter"} :
          Continues(c, pc, target, command, call[c].applied)
    BY <1>5, <2>1, <2>2, GoesIs
  <2> QED BY <2>1, <2>3 DEF Ended
<1>8. CASE Join(c)
  <2>1. /\ call[c].pc = "join" /\ UNCHANGED storage /\ (Spawn(c) \/ Goto(c, "remove"))
        /\ call[c].project \in Projects
    BY <1>0, <1>8 DEF CallOK, Join
  <2>2. \E target, command : \E pc \in {"remove", "enter"} :
          Continues(c, pc, target, command, call[c].applied)
    BY <1>4, <2>1, GotoIs, GoesIs
  <2> QED BY <2>1, <2>2 DEF Ended
<1>9. CASE RemoveStorage(c)
  <2>1. /\ call[c].pc = "remove" /\ call[c].name = "stop"
        /\ \A q \in Projects : q # call[c].project => storage'[q] = storage[q]
        /\ Becomes(c, [call[c] EXCEPT !.pc = "ok", !.applied = TRUE])
    BY <1>0, <1>9, RemoveStorageIs DEF CallOK, ServiceTypes
  <2>2. Continues(c, "ok", call[c].target, call[c].command, TRUE)
    <3>1. call'[c] = [call[c] EXCEPT !.pc = "ok", !.applied = TRUE]
      BY <2>1 DEF Becomes
    <3>2. call'[c] \in CallRows
      BY <1>0, <3>1 DEF CallRows
    <3> QED BY <1>0, <2>1, <3>1, <3>2 DEF Continues, Becomes, ServiceTypes, CallRows
  <2> QED BY <1>9, <2>1, <2>2 DEF Ended
<1>10. CASE RemovalFails(c)
  <2>1. call[c].pc = "remove" /\ call[c].name = "stop" /\ call[c].project \in Projects
    BY <1>0, <1>10 DEF CallOK, RemovalFails
  <2>2. /\ \A q \in Projects : q # call[c].project => storage'[q] = storage[q]
        /\ Becomes(c, [call[c] EXCEPT !.pc = "failed"])
    BY <1>10, <2>1, RemovalFailsIs DEF ServiceTypes
  <2>3. Continues(c, "failed", call[c].target, call[c].command, call[c].applied)
    BY <2>2, GoesIs
  <2> QED BY <2>1, <2>2, <2>3 DEF Ended
<1> QED BY <1>1, <1>2, <1>3, <1>6, <1>7, <1>8, <1>9, <1>10 DEF HandlerStep

\* A call that has ended stays as it is; one that runs keeps its operation, and a
\* remember that has taken effect is in the storage.
Evolves(c) ==
  /\ Ended(c) => call'[c] = call[c]
  /\ ~Ended(c) =>
       /\ call'[c].pc # "none" /\ call'[c].name = call[c].name
       /\ call'[c].project = call[c].project /\ call'[c].dataset = call[c].dataset
  /\ call'[c].applied /\ call[c].name = "remember" =>
       call[c].applied \/ call[c].dataset \in storage'[call[c].project]

\* Dataset d is taken from the storage of p by a call for it.
TakenBy(c, p, d) ==
  /\ ~Ended(c) /\ call[c].project = p
  /\ call[c].name = "stop" \/ (call[c].name = "forget" /\ call[c].dataset = d)

\* A step of the service moves calls along, and takes datasets away only for one that removes them.
LEMMA ServiceEvolves ==
  ASSUME ServiceTypes, ServiceInv, ServiceStep
  PROVE  /\ \A c \in Callers : Evolves(c)
         /\ \A p \in Projects : \A d \in storage[p] \ storage'[p] :
              \E c \in Callers : TakenBy(c, p, d)
<1>1. ASSUME NEW c \in Callers, HandlerStep(c)
      PROVE  /\ \A d \in Callers : Evolves(d)
             /\ \A p \in Projects : \A d \in storage[p] \ storage'[p] :
                  \E e \in Callers : TakenBy(e, p, d)
  <2>1. PICK pc, target, command, applied :
          /\ Continues(c, pc, target, command, applied) /\ pc # "none"
          /\ applied = call[c].applied \/ (RemoveStorage(c) /\ call[c].name = "stop")
    BY <1>1, HandlerIs
  <2>2. /\ ~Ended(c)
        /\ \/ UNCHANGED storage
           \/ /\ call[c].name = "stop"
              /\ \A q \in Projects : q # call[c].project => storage'[q] = storage[q]
    BY <1>1, HandlerIs
  <2>3. ASSUME NEW d \in Callers PROVE Evolves(d)
    <3>1. CASE d # c
      BY <2>1, <3>1 DEF Continues, Evolves, Ended
    <3>2. CASE d = c
      <4>1. call[c].name = "remember" => call'[c].applied = call[c].applied
        BY <2>1 DEF Continues
      <4> QED BY <2>1, <2>2, <3>2, <4>1 DEF Continues, Evolves
    <3> QED BY <3>1, <3>2
  <2>4. ASSUME NEW p \in Projects, NEW d \in storage[p] \ storage'[p] PROVE TakenBy(c, p, d)
    <3>1. call[c].name = "stop" /\ call[c].project = p
      BY <2>2, <2>4
    <3> QED BY <2>2, <3>1 DEF TakenBy
  <2> QED BY <2>3, <2>4
<1>2. ASSUME UNCHANGED <<storage, call>>
      PROVE  /\ \A d \in Callers : Evolves(d)
             /\ \A p \in Projects : storage[p] \ storage'[p] = {}
  BY <1>2 DEF Evolves, Ended
<1>3. ASSUME NEW i \in Procs, Execute(i)
      PROVE  /\ \A d \in Callers : Evolves(d)
             /\ \A p \in Projects : \A d \in storage[p] \ storage'[p] :
                  \E e \in Callers : TakenBy(e, p, d)
  <2>0. proc[i].state = "serving" /\ proc[i].inbox # << >>
    BY <1>3 DEF Execute
  <2>1. PICK c \in Callers : c = proc[i].lock
    BY <2>0, ExecutedIs
  <2>2. /\ call[c].pc = "await" /\ proc[i].project = call[c].project
        /\ call[c].project \in Projects
        /\ call[c].command \in Using => call[c].name = call[c].command
    BY <2>0, <2>1, ExecutedIs
  <2>3. \/ /\ call[c].command \in Using
           /\ storage' = [storage EXCEPT ![proc[i].project] = Stored(c, @)]
           /\ Continues(c, "await", i, call[c].command, TRUE)
        \/ UNCHANGED <<storage, call>>
    BY <1>3, <2>1, ExecuteChanges
  <2>4. CASE /\ call[c].command \in Using
             /\ storage' = [storage EXCEPT ![proc[i].project] = Stored(c, @)]
             /\ Continues(c, "await", i, call[c].command, TRUE)
    <3>1. storage'[call[c].project] = Stored(c, storage[call[c].project])
      BY <2>2, <2>4 DEF ServiceTypes
    <3>2. \A p \in Projects : p # call[c].project => storage'[p] = storage[p]
      BY <2>2, <2>4 DEF ServiceTypes
    <3>3. call[c].name = "remember" => call[c].dataset \in storage'[call[c].project]
      BY <3>1 DEF Stored
    <3>4. \A d \in Callers : Evolves(d)
      BY <2>2, <2>4, <3>3 DEF Continues, Evolves, Ended
    <3>5. ASSUME NEW p \in Projects, NEW d \in storage[p] \ storage'[p] PROVE TakenBy(c, p, d)
      BY <2>2, <3>1, <3>2, <3>5 DEF Stored, TakenBy, Ended
    <3> QED BY <3>4, <3>5
  <2> QED BY <1>2, <2>3, <2>4
<1>4. ASSUME NEW i \in Procs, ProcessStep(i) \/ Crash(i) \/ LoseAnswer(i), ~Execute(i)
      PROVE  UNCHANGED <<storage, call>>
  BY <1>4 DEF ProcessStep, Configure, Exit, Crash, LoseAnswer
<1>5. ASSUME Restart
      PROVE  /\ \A d \in Callers : Evolves(d)
             /\ \A p \in Projects : storage[p] \ storage'[p] = {}
  <2>1. /\ UNCHANGED storage
        /\ call' = [c \in Callers |->
                      IF Ended(c) THEN call[c] ELSE [call[c] EXCEPT !.pc = "failed"]]
    BY <1>5 DEF Restart
  <2>2. ASSUME NEW d \in Callers PROVE Evolves(d)
    <3>1. CASE Ended(d)
      BY <2>1, <3>1 DEF Evolves
    <3>2. CASE ~Ended(d)
      <4>1. call[d] \in CallRows /\ call'[d] = [call[d] EXCEPT !.pc = "failed"]
        BY <2>1, <3>2 DEF ServiceTypes
      <4>2. /\ call'[d].pc = "failed" /\ call'[d].name = call[d].name
            /\ call'[d].project = call[d].project /\ call'[d].dataset = call[d].dataset
            /\ call'[d].applied = call[d].applied
        BY <4>1 DEF CallRows
      <4> QED BY <3>2, <4>2 DEF Evolves
    <3> QED BY <3>1, <3>2
  <2> QED BY <2>1, <2>2
<1> QED BY <1>1, <1>2, <1>3, <1>4, <1>5 DEF ServiceStep

-----------------------------------------------------------------------------
(* Projects are complete while they exist.                                 *)

\* Who takes a dataset from a project: its deletion, its creation that failed, or the
\* review that made it.
LEMMA TakersAre ==
  ASSUME RequestTypes, RequestsInv, NEW c \in Callers, NEW p \in Projects, NEW d,
         TakenBy(c, p, d)
  PROVE  /\ client[c].project = p
         /\ \/ c \in Of(p, {"delete"})
            \/ client[c].kind = "create" /\ client[c].pc # "ok"
            \/ client[c].kind = "store" /\ call[c].name = "forget" /\ d = c
<1>1. ClientOK(c) /\ call[c].pc # "none" /\ call[c].name \in {"stop", "forget"}
  BY DEF RequestsInv, TakenBy, Ended
<1>2. client[c].project = p /\ client[c].pc # "idle" /\ client[c].kind \in Kinds
  BY <1>1 DEF ClientOK, TakenBy, RequestTypes, ClientRows
<1>3. CASE client[c].kind = "create"
  BY <1>1, <1>2, <1>3 DEF ClientOK
<1>4. CASE client[c].kind = "delete"
  BY <1>2, <1>4 DEF Of
<1>5. CASE client[c].kind = "store"
  BY <1>1, <1>2, <1>5 DEF ClientOK, TakenBy, Using
<1>6. CASE client[c].kind = "read"
  BY <1>1, <1>6 DEF ClientOK
<1> QED BY <1>2, <1>3, <1>4, <1>5, <1>6 DEF Kinds

\* The service keeps what requests rely on.
LEMMA ServiceKeepsClient ==
  ASSUME NEW c \in Callers, ClientOK(c), Evolves(c), UNCHANGED client
  PROVE  ClientOK(c)'
<1>1. CASE Ended(c)
  <2>1. call'[c] = call[c]
    BY <1>1 DEF Evolves
  <2> QED BY <2>1 DEF ClientOK
<1>2. CASE ~Ended(c)
  <2>1. /\ call'[c].pc # "none" /\ call'[c].name = call[c].name
        /\ call'[c].project = call[c].project /\ call'[c].dataset = call[c].dataset
        /\ call[c].pc \notin {"none", "ok", "failed"}
    BY <1>2 DEF Evolves, Ended
  <2> QED BY <2>1 DEF ClientOK
<1> QED BY <1>1, <1>2

\* A step of the service keeps what the requests rely on.
LEMMA ServiceKeepsRequests ==
  ASSUME RequestTypes, RequestsInv, UNCHANGED <<client, row, git>>,
         \A c \in Callers : Evolves(c),
         \A p \in Projects : \A d \in storage[p] \ storage'[p] :
           \E c \in Callers : TakenBy(c, p, d)
  PROVE  RequestsInv'
<1>1. ASSUME NEW c \in Callers PROVE ClientOK(c)'
  BY ServiceKeepsClient DEF RequestsInv
<1>2. ASSUME NEW c \in Callers PROVE CreatorOK(c)'
  <2> SUFFICES ASSUME client[c].kind = "create" /\ client[c].pc # "ok" PROVE CreatorOK(c)'
    BY DEF CreatorOK
  <2>1. CreatorOK(c) /\ ClientOK(c) /\ Evolves(c)
    BY DEF RequestsInv
  <2>2. PICK p \in Projects : p = client[c].project
    BY <2>1 DEF ClientOK
  <2>3. Users(p) = {c}
    BY <2>1, <2>2 DEF CreatorOK
  <2>4. ASSUME call'[c].name = "remember", call'[c].applied PROVE Root \in storage'[p]
    <3>1. call[c].name = "remember" /\ (call[c].pc # "none" => call[c].project = p)
      BY <2>1, <2>2, <2>4 DEF Evolves, ClientOK
    <3>2. CASE call[c].applied
      <4>1. Root \in storage[p]
        BY <2>1, <2>2, <3>1, <3>2 DEF CreatorOK
      <4>2. ASSUME Root \notin storage'[p] PROVE FALSE
        <5>1. PICK e \in Callers : TakenBy(e, p, Root)
          BY <4>1, <4>2
        <5>2. client[e].project = p
          BY <5>1, TakersAre
        <5>3. e = c
          BY <2>3, <5>2 DEF Users
        <5> QED BY <3>1, <5>1, <5>3 DEF TakenBy
      <4> QED BY <4>2
    <3>3. CASE ~call[c].applied
      <4>1. ~Ended(c)
        BY <2>1, <2>4, <3>3 DEF Evolves
      <4>2. call[c].project = p /\ call[c].dataset = Root
        BY <2>1, <2>2, <3>1, <4>1 DEF ClientOK, Ended
      <4> QED BY <2>1, <2>4, <3>1, <3>3, <4>2 DEF Evolves
    <3> QED BY <3>2, <3>3
  <2>5. Users(p)' = Users(p)
    BY DEF Users
  <2> QED BY <2>1, <2>2, <2>3, <2>4, <2>5 DEF CreatorOK, Users
<1>3. ASSUME NEW p \in Projects, Of(p, {"delete"})' = {} PROVE CompleteFor(p)'
  <2>1. Of(p, {"delete"}) = {} /\ Of(p, {"store"})' = Of(p, {"store"})
    BY <1>3 DEF Of
  <2>2. CompleteFor(p)
    BY <2>1 DEF RequestsInv
  <2>3. ASSUME p \in row, Root \notin storage'[p] PROVE FALSE
    <3>1. PICK e \in Callers : TakenBy(e, p, Root)
      BY <2>2, <2>3 DEF CompleteFor
    <3>2. /\ client[e].project = p
          /\ \/ client[e].kind = "create" /\ client[e].pc # "ok"
             \/ Root = e
      BY <2>1, <3>1, TakersAre
    <3>3. CreatorOK(e)
      BY DEF RequestsInv
    <3> QED BY <2>3, <3>2, <3>3, RootAssumption DEF CreatorOK
  <2>4. ASSUME NEW c \in Of(p, {"store"}), call'[c].name = "remember", call'[c].applied
        PROVE  c \in storage'[p]
    <3>1. /\ c \in Callers /\ client[c].project = p /\ client[c].kind = "store"
          /\ ClientOK(c) /\ Evolves(c)
      BY <2>4 DEF Of, RequestsInv
    <3>2. call[c].name = "remember" /\ call[c].pc # "none" /\ call[c].project = p
          /\ call[c].dataset = c
      BY <2>4, <3>1 DEF Evolves, ClientOK, Using
    <3>3. CASE call[c].applied /\ c \notin storage'[p]
      <4>1. PICK e \in Callers : TakenBy(e, p, c)
        BY <2>2, <2>4, <3>2, <3>3 DEF CompleteFor
      <4>2. /\ client[e].project = p
            /\ \/ client[e].kind = "create" /\ client[e].pc # "ok"
               \/ call[e].name = "forget" /\ c = e
        BY <2>1, <4>1, TakersAre
      <4>3. CASE client[e].kind = "create" /\ client[e].pc # "ok"
        <5>1. Users(p) = {e}
          BY <4>2, <4>3 DEF RequestsInv, CreatorOK
        <5> QED BY <3>1, <4>3, <5>1 DEF Users
      <4> QED BY <3>2, <4>2, <4>3
    <3>4. CASE ~call[c].applied
      BY <2>4, <3>1, <3>2, <3>4 DEF Evolves
    <3> QED BY <3>3, <3>4
  <2> QED BY <2>1, <2>2, <2>3, <2>4 DEF CompleteFor
<1>4. ASSUME NEW p \in Projects \ row', Users(p)' = {} PROVE p \notin git'
  BY <1>4 DEF RequestsInv, Users
<1> QED BY <1>1, <1>2, <1>3, <1>4 DEF RequestsInv

\* A request goes on: only it, its call and its project change.
LEMMA GoKeepsRequests ==
  ASSUME RequestTypes, RequestsInv, NEW c \in Callers, NEW pc, Goes(c, pc),
         client[c].pc # "idle", NEW p \in Projects, p = client[c].project,
         \A d \in Callers : d # c => call'[d] = call[d], UNCHANGED storage,
         \A q \in Projects : q # p => (q \in row' <=> q \in row) /\ (q \in git' <=> q \in git),
         ClientOK(c)',
         client[c].kind = "create" /\ pc # "ok" =>
           /\ client[c].pc # "ok" /\ p \notin row'
           /\ pc \in {"starting", "remembering", "committing"} => p \in git'
           /\ pc \in {"undoing", "failed"} => p \notin git'
           /\ call'[c].name = "remember" /\ call'[c].applied => Root \in storage[p],
         Of(p, {"delete"}) = {} => CompleteFor(p)'
  PROVE  RequestsInv'
<1>0. /\ \A d \in Callers : /\ client'[d].kind = client[d].kind
                            /\ client'[d].project = client[d].project
      /\ \A d \in Callers : d # c => client'[d] = client[d]
      /\ client'[c].pc = pc
  BY DEF Goes
<1>1. \A q \in Projects : Users(q)' = Users(q)
  BY <1>0 DEF Users
<1>2. \A q \in Projects : /\ Of(q, {"delete"})' = Of(q, {"delete"})
                          /\ Of(q, {"store"})' = Of(q, {"store"})
  BY <1>0 DEF Of
<1>3. ASSUME NEW d \in Callers PROVE ClientOK(d)'
  <2>1. CASE d # c
    <3>1. client'[d] = client[d] /\ call'[d] = call[d] /\ ClientOK(d)
      BY <1>0, <2>1 DEF RequestsInv
    <3> QED BY <3>1 DEF ClientOK
  <2> QED BY <2>1
<1>4. ASSUME NEW d \in Callers PROVE CreatorOK(d)'
  <2> SUFFICES ASSUME client[d].kind = "create", client'[d].pc # "ok" PROVE CreatorOK(d)'
    BY <1>0 DEF CreatorOK
  <2>0. CreatorOK(d) /\ ClientOK(d)
    BY DEF RequestsInv
  <2>1. client[d].pc # "ok" /\ client[d].project \in Projects
    BY <1>0, <2>0 DEF ClientOK
  <2>2. PICK q \in Projects : q = client[d].project
    BY <2>1
  <2>3. Users(q) = {d}
    BY <2>0, <2>1, <2>2 DEF CreatorOK
  <2>4. Users(q)' = {d} /\ client'[d].project = q
    BY <1>0, <1>1, <2>2, <2>3
  <2>5. CASE d = c
    BY <1>0, <2>1, <2>2, <2>4, <2>5 DEF CreatorOK, Users
  <2>6. CASE d # c
    <3>1. q # p
      BY <2>3, <2>6 DEF Users
    <3>2. client'[d] = client[d] /\ call'[d] = call[d]
      BY <1>0, <2>6
    <3> QED BY <2>0, <2>2, <2>4, <3>1, <3>2 DEF CreatorOK, Users
  <2> QED BY <2>5, <2>6
<1>5. ASSUME NEW q \in Projects, Of(q, {"delete"})' = {} PROVE CompleteFor(q)'
  <2>1. CASE q = p
    BY <1>2, <1>5, <2>1
  <2>2. CASE q # p
    <3>1. CompleteFor(q)
      BY <1>2, <1>5 DEF RequestsInv
    <3>2. \A d \in Of(q, {"store"}) : d \in Callers /\ call'[d] = call[d]
      BY <2>2 DEF Of
    <3> QED BY <1>2, <2>2, <3>1, <3>2 DEF CompleteFor
  <2> QED BY <2>1, <2>2
<1>6. ASSUME NEW q \in Projects \ row', Users(q)' = {} PROVE q \notin git'
  <2>1. Users(q) = {} /\ q # p
    BY <1>1, <1>6 DEF Users
  <2> QED BY <1>6, <2>1 DEF RequestsInv
<1> QED BY <1>3, <1>4, <1>5, <1>6 DEF RequestsInv

\* A request begins on a project without a creation under way.
LEMMA BegunKeepsRequests ==
  ASSUME RequestTypes, RequestsInv, NEW c \in Callers, NEW kind \in Kinds, NEW p \in Projects,
         NEW config, NEW pc \in Points, pc # "idle", Begun(c, kind, p, config, pc),
         \A d \in Callers : d # c => call'[d] = call[d], UNCHANGED <<storage, row>>,
         \A q \in Projects : q # p => (q \in git' <=> q \in git),
         git \subseteq git',
         ClientOK(c)', ~call'[c].applied,
         kind # "create" => p \in row,
         kind = "create" =>
           /\ Users(p) = {} /\ p \notin row
           /\ pc = "starting" => p \in git'
           /\ pc = "failed" => p \notin git'
           /\ pc \in {"starting", "failed"}
  PROVE  RequestsInv'
<1>0. /\ \A d \in Callers : d # c => /\ client'[d].kind = client[d].kind
                                     /\ client'[d].project = client[d].project
                                     /\ client'[d].pc = client[d].pc
      /\ client'[c].pc = pc /\ client'[c].kind = kind /\ client'[c].project = p
      /\ client[c].pc = "idle" /\ ClientOK(c)
  BY DEF Begun, RequestsInv
<1>1. client[c].project = None /\ client[c].kind = None /\ None \notin Projects
  BY <1>0, NoneAssumption DEF ClientOK
<1>2. \A q \in Projects : q # p => Users(q)' = Users(q)
  BY <1>0, <1>1 DEF Users
<1>3. Users(p)' = Users(p) \cup {c}
  BY <1>0, <1>1 DEF Users
<1>4. ASSUME NEW d \in Callers PROVE ClientOK(d)'
  <2>1. CASE d # c
    <3>1. call'[d] = call[d] /\ ClientOK(d)
      BY <2>1 DEF RequestsInv
    <3> QED BY <1>0, <2>1, <3>1 DEF ClientOK
  <2> QED BY <2>1
<1>5. ASSUME NEW d \in Callers PROVE CreatorOK(d)'
  <2> SUFFICES ASSUME client'[d].kind = "create", client'[d].pc # "ok" PROVE CreatorOK(d)'
    BY DEF CreatorOK
  <2>1. CASE d = c
    BY <1>0, <1>3, <2>1 DEF CreatorOK, Users
  <2>2. CASE d # c
    <3>0. CreatorOK(d) /\ ClientOK(d) /\ client[d].kind = "create" /\ client[d].pc # "ok"
      BY <1>0, <2>2 DEF RequestsInv
    <3>1. PICK q \in Projects : q = client[d].project
      BY <3>0, NamesAssumption DEF ClientOK, Kinds
    <3>2. Users(q) = {d} /\ q \notin row
      BY <3>0, <3>1 DEF CreatorOK
    <3>3. q # p
      BY <3>2
    <3>4. Users(q)' = {d} /\ client'[d].project = q /\ client'[d].pc = client[d].pc
      BY <1>0, <1>2, <2>2, <3>1, <3>2, <3>3
    <3>5. call'[d] = call[d]
      BY <2>2
    <3> QED BY <3>0, <3>1, <3>3, <3>4, <3>5 DEF CreatorOK, Users
  <2> QED BY <2>1, <2>2
<1>6. ASSUME NEW q \in Projects, Of(q, {"delete"})' = {} PROVE CompleteFor(q)'
  <2>1. Of(q, {"delete"}) = {}
    BY <1>0, <1>1, <1>6 DEF Of
  <2>2. CompleteFor(q)
    BY <2>1 DEF RequestsInv
  <2>3. ASSUME NEW d \in Of(q, {"store"})', d # c
        PROVE  d \in Of(q, {"store"}) /\ call'[d] = call[d]
    BY <1>0, <2>3 DEF Of
  <2>4. q \in row' => q \in git' /\ Root \in storage'[q]
    BY <2>2 DEF CompleteFor
  <2>5. ASSUME NEW d \in Of(q, {"store"})', call'[d].name = "remember", call'[d].applied
        PROVE  d \in storage'[q]
    BY <2>2, <2>3, <2>5 DEF CompleteFor
  <2> QED BY <2>4, <2>5 DEF CompleteFor
<1>7. ASSUME NEW q \in Projects \ row', Users(q)' = {} PROVE q \notin git'
  <2>1. Users(q) = {} /\ q # p
    BY <1>2, <1>3, <1>7
  <2> QED BY <1>7, <2>1 DEF RequestsInv
<1> QED BY <1>4, <1>5, <1>6, <1>7 DEF RequestsInv

\* What a request has asked for.
LEMMA AskGives ==
  ASSUME ServiceTypes, RequestTypes, NEW c \in Callers, client[c].pc # "idle",
         NEW name \in Names, NEW dataset \in Datasets \cup {None}, Ask(c, name, dataset)
  PROVE  /\ Ended(c) /\ UNCHANGED <<storage, rooted, proc, instance>>
         /\ \A d \in Callers : d # c => call'[d] = call[d]
         /\ call'[c].name = name /\ call'[c].project = client[c].project
         /\ call'[c].dataset = dataset /\ ~call'[c].applied
         /\ call'[c].pc \in {"start", "stop", "enter", "failed"}
         /\ name = "stop" => call'[c].pc = "stop"
<1>1. client[c].project \in Projects /\ client[c].config \in Configs \cup {None}
  BY DEF RequestTypes, ClientRows
<1> QED BY <1>1, SubmitIs DEF Ask, Using

\* The call a begun request holds.
LEMMA BeginGives ==
  ASSUME ServiceTypes, NEW c \in Callers, NEW name \in {"start", "stop"}, NEW p \in Projects,
         NEW config \in Configs \cup {None}, Submit(c, name, p, None, config)
  PROVE  /\ Ended(c) /\ UNCHANGED <<storage, rooted, proc, instance>>
         /\ \A d \in Callers : d # c => call'[d] = call[d]
         /\ call'[c].name = name /\ call'[c].project = p /\ ~call'[c].applied
         /\ call'[c].pc = name
<1>1. name \in Names /\ name \notin Using
  BY DEF Names, Using
<1> QED BY <1>1, SubmitIs

\* The row of a request without a call.
LEMMA IdleIs ==
  ASSUME ServiceInv, RequestsInv, NEW c \in Callers, client[c].pc = "idle"
  PROVE  call[c].pc = "none" /\ call[c].name = "start" /\ ~call[c].applied
BY DEF ServiceInv, RequestsInv, ClientOK, CallOK

\* A project that nothing creates, deletes, stores or reads has no user.
LEMMA UsersAre ==
  ASSUME RequestTypes, RequestsInv, NEW p \in Projects,
         Of(p, {"create", "delete", "store", "read"}) = {}
  PROVE  Users(p) = {}
<1> SUFFICES ASSUME NEW c \in Callers, client[c].project = p PROVE FALSE
  BY DEF Users
<1>1. client[c].pc # "idle" /\ client[c].kind # None
  BY NoneAssumption DEF RequestsInv, ClientOK
<1> QED BY <1>1 DEF RequestTypes, ClientRows, Kinds, Of

\* Beginning a request keeps what the requests rely on.
LEMMA BeginKeepsRequests ==
  ASSUME ServiceTypes, RequestTypes, ServiceInv, RequestsInv, NEW c \in Callers,
         BeginRequest(c)
  PROVE  RequestsInv'
<1>1. PICK p \in Projects :
        \/ BeginCreate(c, p)
        \/ BeginDelete(c, p)
        \/ \E kind \in {"store", "read"}, config \in Configs : BeginUse(c, kind, p, config)
  BY DEF BeginRequest
<1>2. /\ "empty" \in Configs /\ Kinds = {"create", "delete", "store", "read"}
      /\ "starting" \in Points /\ "failed" \in Points /\ "stopping" \in Points
      /\ None \notin Kinds
  BY NamesAssumption DEF Configs, Kinds, Points
<1>3. CASE BeginCreate(c, p)
  <2>0. Users(p) = {} /\ p \notin row /\ p \notin git
    BY <1>3, UsersAre DEF BeginCreate, RequestsInv
  <2>1. CASE /\ Begin(c, "create", p, "empty", "starting") /\ git' = git \cup {p}
             /\ Submit(c, "start", p, None, "empty")
    <3>1. Begun(c, "create", p, "empty", "starting")
      BY <1>2, <2>1, BeginIs
    <3>2. /\ UNCHANGED storage /\ \A d \in Callers : d # c => call'[d] = call[d]
          /\ call'[c].name = "start" /\ call'[c].project = p /\ ~call'[c].applied
          /\ call'[c].pc = "start"
      BY <1>2, <2>1, BeginGives
    <3>3. ClientOK(c)'
      BY <1>2, <3>1, <3>2 DEF Begun, ClientOK, Using
    <3> QED BY <1>2, <1>3, <2>0, <2>1, <3>1, <3>2, <3>3, BegunKeepsRequests DEF BeginCreate
  <2>2. CASE Begin(c, "create", p, "empty", "failed") /\ UNCHANGED <<service, git>>
    <3>1. Begun(c, "create", p, "empty", "failed") /\ client[c].pc = "idle"
      BY <1>2, <2>2, BeginIs DEF Begin
    <3>2. /\ UNCHANGED <<storage, call>>
          /\ call[c].pc = "none" /\ call[c].name = "start" /\ ~call[c].applied
      BY <2>2, <3>1, IdleIs DEF service
    <3>3. ClientOK(c)'
      BY <1>2, <3>1, <3>2 DEF Begun, ClientOK, Using
    <3> QED BY <1>2, <1>3, <2>0, <2>2, <3>1, <3>2, <3>3, BegunKeepsRequests DEF BeginCreate
  <2> QED BY <1>3, <2>1, <2>2 DEF BeginCreate
<1>4. CASE BeginDelete(c, p)
  <2>1. Begun(c, "delete", p, None, "stopping")
    BY <1>2, <1>4, BeginIs DEF BeginDelete
  <2>2. /\ UNCHANGED storage /\ \A d \in Callers : d # c => call'[d] = call[d]
        /\ call'[c].name = "stop" /\ call'[c].project = p /\ ~call'[c].applied
        /\ call'[c].pc = "stop"
    BY <1>4, BeginGives DEF BeginDelete
  <2>3. ClientOK(c)'
    BY <1>2, <2>1, <2>2 DEF Begun, ClientOK
  <2> QED BY <1>2, <1>4, <2>1, <2>2, <2>3, BegunKeepsRequests DEF BeginDelete
<1>5. ASSUME NEW kind \in {"store", "read"}, NEW config \in Configs, BeginUse(c, kind, p, config)
      PROVE  RequestsInv'
  <2>1. Begun(c, kind, p, config, "starting")
    BY <1>2, <1>5, BeginIs DEF BeginUse
  <2>2. /\ UNCHANGED storage /\ \A d \in Callers : d # c => call'[d] = call[d]
        /\ call'[c].name = "start" /\ call'[c].project = p /\ ~call'[c].applied
        /\ call'[c].pc = "start"
    BY <1>5, BeginGives DEF BeginUse
  <2>3. ClientOK(c)'
    BY <1>2, <1>5, <2>1, <2>2 DEF Begun, ClientOK, Using
  <2> QED BY <1>2, <1>5, <2>1, <2>2, <2>3, BegunKeepsRequests DEF BeginUse
<1> QED BY <1>1, <1>3, <1>4, <1>5

\* A step of a request that neither creates nor ends its project.
LEMMA UseGoes ==
  ASSUME RequestTypes, RequestsInv, NEW c \in Callers, NEW pc, Goes(c, pc),
         client[c].pc # "idle", client[c].kind # "create",
         \A d \in Callers : d # c => call'[d] = call[d], UNCHANGED <<storage, row, git>>,
         call'[c] = call[c] \/ ~call'[c].applied, ClientOK(c)'
  PROVE  RequestsInv'
<1>1. PICK p \in Projects : p = client[c].project
  BY DEF RequestTypes
<1>2. ASSUME Of(p, {"delete"}) = {} PROVE CompleteFor(p)'
  <2>1. CompleteFor(p)
    BY <1>2 DEF RequestsInv
  <2>2. Of(p, {"store"})' = Of(p, {"store"})
    BY DEF Of, Goes
  <2>3. ASSUME NEW d \in Of(p, {"store"}), call'[d].name = "remember", call'[d].applied
        PROVE  call'[d] = call[d]
    BY <2>3 DEF Of
  <2> QED BY <2>1, <2>2, <2>3 DEF CompleteFor
<1> QED BY <1>1, <1>2, GoKeepsRequests

\* A step of a creation that does not end it well.
LEMMA CreatorGoes ==
  ASSUME RequestTypes, RequestsInv, NEW c \in Callers, NEW pc, Goes(c, pc),
         client[c].kind = "create", client[c].pc \notin {"idle", "ok"}, pc # "ok",
         NEW p \in Projects, p = client[c].project,
         \A d \in Callers : d # c => call'[d] = call[d], UNCHANGED <<storage, row>>,
         \A q \in Projects : q # p => (q \in git' <=> q \in git),
         pc \in {"starting", "remembering", "committing"} => p \in git',
         pc \in {"undoing", "failed"} => p \notin git',
         call'[c] = call[c] \/ ~call'[c].applied, ClientOK(c)'
  PROVE  RequestsInv'
<1>1. CreatorOK(c) /\ p \notin row /\ Users(p) = {c}
  BY DEF RequestsInv, CreatorOK
<1>2. call'[c].name = "remember" /\ call'[c].applied => Root \in storage[p]
  BY <1>1 DEF CreatorOK
<1>3. CompleteFor(p)'
  <2>1. Of(p, {"store"})' = {}
    BY <1>1 DEF Of, Users, Goes
  <2> QED BY <1>1, <2>1 DEF CompleteFor
<1> QED BY <1>1, <1>2, <1>3, GoKeepsRequests

\* The steps of create_project.
LEMMA CreateKeepsRequests ==
  ASSUME ServiceTypes, RequestTypes, ServiceInv, RequestsInv, NEW c \in Callers,
         CreateStarted(c) \/ CreateStartFails(c) \/ CreateRemembered(c)
           \/ CreateRememberFails(c) \/ CreateUndone(c) \/ CommitCreate(c)
  PROVE  RequestsInv'
<1> USE DEF AtStep
<1>0. /\ client[c].kind = "create" /\ client[c].pc \notin {"idle", "ok"}
      /\ Root \in Datasets /\ {"stop", "remember"} \subseteq Names
      /\ {"starting", "remembering", "committing", "undoing", "ok", "failed", "leaked"}
           \subseteq Points
  BY DEF CreateStarted, CreateStartFails, CreateRemembered, CreateRememberFails, CreateUndone,
         CommitCreate, Datasets, Names, Points
<1>1. PICK p \in Projects : p = client[c].project
  BY <1>0 DEF RequestTypes
<1>2. /\ ClientOK(c) /\ CreatorOK(c) /\ CallOK(c) /\ p \notin row /\ Users(p) = {c}
      /\ None \notin Kinds
  BY <1>0, <1>1, NamesAssumption DEF RequestsInv, ServiceInv, CreatorOK
<1>3. CASE CreateStarted(c)
  <2>1. /\ Goes(c, "remembering") /\ UNCHANGED <<storage, row, git>>
        /\ \A d \in Callers : d # c => call'[d] = call[d]
        /\ call'[c].name = "remember" /\ call'[c].project = p /\ call'[c].dataset = Root
        /\ ~call'[c].applied /\ call'[c].pc \in {"start", "stop", "enter", "failed"}
    BY <1>0, <1>1, <1>3, ReachIs, AskGives DEF CreateStarted
  <2>2. p \in git'
    BY <1>0, <1>1, <1>2, <1>3, <2>1 DEF CreateStarted, CreatorOK
  <2>3. ClientOK(c)'
    BY <1>0, <1>1, <1>2, <2>1 DEF Goes, ClientOK
  <2> QED BY <1>0, <1>1, <2>1, <2>2, <2>3, CreatorGoes
<1>4. CASE CreateStartFails(c)
  <2>1. /\ Goes(c, "leaked") /\ UNCHANGED <<storage, row, call>> /\ git' = git \ {p}
        /\ client[c].pc = "starting"
    BY <1>0, <1>1, <1>4, FinishIs DEF CreateStartFails, service
  <2>2. ClientOK(c)'
    BY <1>0, <1>1, <1>2, <2>1 DEF Goes, ClientOK
  <2> QED BY <1>0, <1>1, <2>1, <2>2, CreatorGoes
<1>5. CASE CreateRemembered(c)
  <2>1. /\ Goes(c, "committing") /\ UNCHANGED <<storage, row, git, call>>
        /\ client[c].pc = "remembering" /\ call[c].pc = "ok"
    BY <1>0, <1>5, ReachIs DEF CreateRemembered, service, Answer
  <2>2. ClientOK(c)'
    BY <1>0, <1>1, <1>2, <2>1 DEF Goes, ClientOK
  <2>3. p \in git'
    BY <1>0, <1>1, <1>2, <2>1 DEF CreatorOK
  <2> QED BY <1>0, <1>1, <2>1, <2>2, <2>3, CreatorGoes
<1>6. CASE CreateRememberFails(c)
  <2>1. /\ Goes(c, "undoing") /\ UNCHANGED <<storage, row>> /\ git' = git \ {p}
        /\ \A d \in Callers : d # c => call'[d] = call[d]
        /\ call'[c].name = "stop" /\ call'[c].project = p
        /\ ~call'[c].applied /\ call'[c].pc = "stop"
    BY <1>0, <1>1, <1>6, ReachIs, AskGives DEF CreateRememberFails
  <2>2. ClientOK(c)'
    BY <1>0, <1>1, <1>2, <2>1 DEF Goes, ClientOK
  <2> QED BY <1>0, <1>1, <2>1, <2>2, CreatorGoes
<1>7. CASE CreateUndone(c)
  <2>1. PICK pc \in {"failed", "leaked"} :
          /\ Goes(c, pc) /\ UNCHANGED <<storage, row, git, call>>
          /\ client[c].pc = "undoing" /\ (pc = "failed" => call[c].pc = "ok")
    BY <1>0, <1>7, FinishIs DEF CreateUndone, service, Answer
  <2>2. ClientOK(c)'
    BY <1>0, <1>1, <1>2, <2>1 DEF Goes, ClientOK
  <2>3. p \notin git'
    BY <1>0, <1>1, <1>2, <2>1 DEF CreatorOK
  <2> QED BY <1>0, <1>1, <2>1, <2>2, <2>3, CreatorGoes
<1>8. CASE CommitCreate(c)
  <2>1. /\ UNCHANGED <<storage, git, call>> /\ client[c].pc = "committing"
        /\ \/ Goes(c, "ok") /\ row' = row \cup {p}
           \/ Goes(c, "leaked") /\ UNCHANGED row
    BY <1>0, <1>1, <1>8, FinishIs DEF CommitCreate, service
  <2>2. ClientOK(c)'
    BY <1>0, <1>1, <1>2, <2>1 DEF Goes, ClientOK
  <2>3. CASE Goes(c, "leaked") /\ UNCHANGED row
    BY <1>0, <1>1, <2>1, <2>2, <2>3, CreatorGoes
  <2>4. CASE Goes(c, "ok") /\ row' = row \cup {p}
    <3>1. call[c].pc = "ok" /\ call[c].name = "remember" /\ p \in git
      BY <1>0, <1>1, <1>2, <2>1 DEF ClientOK, CreatorOK
    <3>2. Root \in storage[p]
      BY <1>0, <1>1, <1>2, <2>1, <3>1 DEF CallOK, CreatorOK
    <3>3. Of(p, {"store"})' = {}
      BY <1>0, <1>2, <2>4 DEF Of, Users, Goes
    <3>4. CompleteFor(p)'
      BY <2>1, <3>1, <3>2, <3>3 DEF CompleteFor
    <3> QED BY <1>0, <1>1, <2>1, <2>2, <2>4, <3>4, GoKeepsRequests
  <2> QED BY <2>1, <2>3, <2>4
<1> QED BY <1>3, <1>4, <1>5, <1>6, <1>7, <1>8

\* The steps of delete_project.
LEMMA DeleteKeepsRequests ==
  ASSUME ServiceTypes, RequestTypes, ServiceInv, RequestsInv, NEW c \in Callers,
         DeleteStopped(c) \/ DeleteFails(c) \/ CommitDelete(c)
  PROVE  RequestsInv'
<1> USE DEF AtStep
<1>0. /\ client[c].kind = "delete" /\ client[c].pc \in {"stopping", "committing"}
      /\ {"committing", "ok", "failed"} \subseteq Points
  BY DEF DeleteStopped, DeleteFails, CommitDelete, Points
<1>1. PICK p \in Projects : p = client[c].project
  BY <1>0 DEF RequestTypes
<1>2. /\ ClientOK(c) /\ c \in Of(p, {"delete"}) /\ None \notin Kinds
  BY <1>0, <1>1, NamesAssumption DEF RequestsInv, Of
<1>3. PICK pc \in {"committing", "ok", "failed"} :
        /\ Goes(c, pc) /\ UNCHANGED <<storage, call>> /\ (pc # "failed" => call[c].pc = "ok")
  <2>1. CASE DeleteStopped(c)
    BY <1>0, <2>1, ReachIs, FinishIs DEF DeleteStopped, service
  <2>2. CASE DeleteFails(c)
    BY <1>0, <2>2, FinishIs DEF DeleteFails, service
  <2>3. CASE CommitDelete(c)
    BY <1>0, <1>2, <2>3, FinishIs DEF CommitDelete, service, ClientOK
  <2> QED BY <2>1, <2>2, <2>3
<1>4. \A q \in Projects : q # p => (q \in row' <=> q \in row) /\ (q \in git' <=> q \in git)
  BY <1>1 DEF DeleteStopped, DeleteFails, CommitDelete
<1>5. ClientOK(c)'
  BY <1>0, <1>2, <1>3 DEF Goes, ClientOK
<1> QED BY <1>0, <1>1, <1>2, <1>3, <1>4, <1>5, GoKeepsRequests

\* The steps of requests that use the memory.
LEMMA UseKeepsRequests ==
  ASSUME ServiceTypes, RequestTypes, ServiceInv, RequestsInv, NEW c \in Callers,
         UseStarted(c) \/ UseRead(c) \/ StoreRemembered(c) \/ UseFails(c) \/ CommitStore(c)
           \/ StoreUndone(c)
  PROVE  RequestsInv'
<1> USE DEF AtStep
<1>0. /\ {"reading", "remembering", "committing", "undoing", "ok", "failed"} \subseteq Points
      /\ Root \in Datasets /\ c \in Datasets /\ {"records", "remember", "forget"} \subseteq Names
      /\ Using = {"remember", "records", "forget"}
  BY DEF Points, Datasets, Names, Using
<1>1. ClientOK(c) /\ CallOK(c) /\ None \notin Kinds /\ Kinds = {"create", "delete", "store", "read"}
  BY NamesAssumption DEF RequestsInv, ServiceInv, Kinds
<1>2. client[c].kind \in {"store", "read"} /\ client[c].pc # "idle"
  <2>1. CASE UseRead(c)
    BY <2>1, <1>1 DEF UseRead, ClientOK
  <2> QED BY <1>1, <2>1 DEF UseStarted, StoreRemembered, UseFails, CommitStore, StoreUndone
<1>3. call[c].pc # "none" /\ client[c].project \in Projects
  BY <1>1, <1>2 DEF ClientOK
<1>4. CASE UseStarted(c)
  <2>1. /\ Goes(c, "reading") /\ UNCHANGED <<storage, row, git>>
        /\ \A d \in Callers : d # c => call'[d] = call[d]
        /\ call'[c].name = "records" /\ call'[c].project = client[c].project
        /\ call'[c].dataset = Root
        /\ ~call'[c].applied /\ call'[c].pc \in {"start", "stop", "enter", "failed"}
    BY <1>0, <1>2, <1>4, ReachIs, AskGives DEF UseStarted
  <2>2. ClientOK(c)'
    BY <1>0, <1>1, <1>2, <2>1 DEF Goes, ClientOK
  <2> QED BY <1>2, <2>1, <2>2, UseGoes
<1>5. CASE UseRead(c)
  <2>1. CASE client[c].kind = "read" /\ Finish(c, "ok") /\ UNCHANGED service
    <3>1. Goes(c, "ok") /\ UNCHANGED <<storage, row, git, call>>
      BY <1>0, <1>5, <2>1, FinishIs DEF UseRead, service
    <3>2. ClientOK(c)'
      BY <1>1, <1>3, <2>1, <3>1 DEF Goes, ClientOK
    <3> QED BY <1>2, <3>1, <3>2, UseGoes
  <2>2. CASE client[c].kind = "store" /\ Ask(c, "remember", c) /\ Reach(c, "remembering")
    <3>1. /\ Goes(c, "remembering") /\ UNCHANGED <<storage, row, git>>
          /\ \A d \in Callers : d # c => call'[d] = call[d]
          /\ call'[c].name = "remember" /\ call'[c].project = client[c].project
          /\ call'[c].dataset = c
          /\ ~call'[c].applied /\ call'[c].pc \in {"start", "stop", "enter", "failed"}
      BY <1>0, <1>2, <1>5, <2>2, ReachIs, AskGives DEF UseRead
    <3>2. ClientOK(c)'
      BY <1>0, <1>1, <1>2, <2>2, <3>1 DEF Goes, ClientOK
    <3> QED BY <1>2, <3>1, <3>2, UseGoes
  <2> QED BY <1>5, <2>1, <2>2 DEF UseRead
<1>6. CASE StoreRemembered(c)
  <2>1. /\ Goes(c, "committing") /\ UNCHANGED <<storage, row, git, call>>
        /\ client[c].kind = "store" /\ client[c].pc = "remembering" /\ call[c].pc = "ok"
    BY <1>0, <1>6, ReachIs DEF StoreRemembered, service, Answer
  <2>2. ClientOK(c)'
    BY <1>1, <1>3, <2>1 DEF Goes, ClientOK
  <2> QED BY <1>2, <2>1, <2>2, UseGoes
<1>7. CASE UseFails(c) \/ StoreUndone(c)
  <2>1. Goes(c, "failed") /\ UNCHANGED <<storage, row, git, call>>
    BY <1>0, <1>7, FinishIs DEF UseFails, StoreUndone, service
  <2>2. ClientOK(c)'
    BY <1>1, <1>2, <1>3, <2>1 DEF Goes, ClientOK
  <2> QED BY <1>2, <2>1, <2>2, UseGoes
<1>8. CASE CommitStore(c)
  <2>0. client[c].kind = "store" /\ client[c].pc = "committing" /\ UNCHANGED <<row, git>>
    BY <1>8 DEF CommitStore
  <2>1. CASE Finish(c, "ok") /\ UNCHANGED service
    <3>1. Goes(c, "ok") /\ UNCHANGED <<storage, call>>
      BY <1>0, <2>1, FinishIs DEF service
    <3>2. ClientOK(c)'
      BY <1>1, <1>3, <2>0, <3>1 DEF Goes, ClientOK
    <3> QED BY <1>2, <2>0, <3>1, <3>2, UseGoes
  <2>2. CASE Ask(c, "forget", c) /\ Finish(c, "undoing")
    <3>1. /\ Goes(c, "undoing") /\ UNCHANGED storage
          /\ \A d \in Callers : d # c => call'[d] = call[d]
          /\ call'[c].name = "forget" /\ call'[c].project = client[c].project
          /\ call'[c].dataset = c
          /\ ~call'[c].applied /\ call'[c].pc \in {"start", "stop", "enter", "failed"}
      BY <1>0, <1>2, <2>2, FinishIs, AskGives
    <3>2. ClientOK(c)'
      BY <1>0, <1>1, <1>2, <2>0, <3>1 DEF Goes, ClientOK
    <3> QED BY <1>2, <2>0, <3>1, <3>2, UseGoes
  <2> QED BY <1>8, <2>1, <2>2 DEF CommitStore
<1> QED BY <1>4, <1>5, <1>6, <1>7, <1>8

\* The API server dies with a request.
LEMMA DieKeepsRequests ==
  ASSUME ServiceTypes, RequestTypes, ServiceInv, RequestsInv, NEW c \in Callers, Die(c)
  PROVE  RequestsInv'
<1>0. client[c].pc \notin {"idle", "ok"} /\ {"leaked", "failed"} \subseteq Points
  BY DEF Die, Done, Points
<1>1. PICK p \in Projects : p = client[c].project
  BY <1>0 DEF RequestTypes
<1>2. /\ ClientOK(c) /\ None \notin Kinds /\ Kinds = {"create", "delete", "store", "read"}
      /\ client[c].kind \in Kinds
  BY <1>0, NamesAssumption DEF RequestsInv, Kinds, ClientOK, RequestTypes, ClientRows
<1>3. PICK pc \in {"leaked", "failed"} :
        /\ Goes(c, pc) /\ UNCHANGED <<storage, row, git, call>>
        /\ pc = "leaked" <=> client[c].kind = "create"
  BY <1>0, FinishIs DEF Die, service
<1>4. ClientOK(c)'
  BY <1>0, <1>2, <1>3 DEF Goes, ClientOK
<1> QED BY <1>0, <1>1, <1>2, <1>3, <1>4, CreatorGoes, UseGoes

\* What the requests rely on holds at the start.
LEMMA InitIsRequests == Init => RequestsInv
<1> SUFFICES ASSUME Init PROVE RequestsInv
  OBVIOUS
<1>1. /\ \A c \in Callers : client[c] = Idle /\ call[c] = NoCall
      /\ \A p \in Projects : storage[p] = IF p \in rooted THEN {Root} ELSE {}
      /\ row = rooted /\ git = rooted /\ rooted \in SUBSET Projects
  BY DEF Init, ServiceInit
<1>2. None \notin Kinds /\ None \notin Projects /\ Kinds = {"create", "delete", "store", "read"}
  BY NamesAssumption, NoneAssumption DEF Kinds
<1>3. ASSUME NEW c \in Callers PROVE ClientOK(c) /\ CreatorOK(c)
  BY <1>1, <1>2 DEF ClientOK, CreatorOK, Idle, NoCall
<1>4. ASSUME NEW p \in Projects PROVE CompleteFor(p)
  <2>1. Of(p, {"store"}) = {}
    BY <1>1, <1>2 DEF Of, Idle
  <2> QED BY <1>1, <2>1 DEF CompleteFor
<1> QED BY <1>1, <1>3, <1>4 DEF RequestsInv

\* Every step keeps what the requests rely on.
LEMMA RequestsKept == BaseInv /\ RequestsInv /\ [Next]_vars => RequestsInv'
<1> SUFFICES ASSUME BaseInv, RequestsInv, [Next]_vars PROVE RequestsInv'
  OBVIOUS
<1> USE DEF BaseInv
<1>1. ASSUME NEW c \in Callers, BeginRequest(c) PROVE RequestsInv'
  BY <1>1, BeginKeepsRequests
<1>2. ASSUME NEW c \in Callers, RequestStep(c) \/ Die(c) PROVE RequestsInv'
  BY <1>2, CreateKeepsRequests, DeleteKeepsRequests, UseKeepsRequests, DieKeepsRequests
     DEF RequestStep
<1>3. ASSUME ServiceStep, UNCHANGED <<client, row, holder, git>> PROVE RequestsInv'
  BY <1>3, ServiceEvolves, ServiceKeepsRequests
<1>4. ASSUME UNCHANGED vars PROVE RequestsInv'
  BY <1>4 DEF vars, service, RequestsInv, ClientOK, CreatorOK, CompleteFor, Users, Of
<1> QED BY <1>1, <1>2, <1>3, <1>4 DEF Next

\* What the requests rely on is an invariant of the specification.
LEMMA RequestsInvariance == Spec => [](BaseInv /\ RequestsInv)
<1>1. Init => BaseInv /\ RequestsInv
  BY InitIsBase, InitIsRequests
<1>2. BaseInv /\ RequestsInv /\ [Next]_vars => BaseInv' /\ RequestsInv'
  BY BaseKept, RequestsKept
<1> QED BY <1>1, <1>2, PTL DEF Spec

\* A project nobody has begun to delete keeps its Git storage, its first dataset and
\* what its reviews have committed (ProjectsAreComplete).
THEOREM ProjectsKeepTheirData == Spec => []ProjectsAreComplete
<1>1. BaseInv /\ RequestsInv => ProjectsAreComplete
  <2> SUFFICES ASSUME BaseInv, RequestsInv, NEW p \in row, Of(p, {"delete"}) = {}
               PROVE  /\ p \in git /\ Root \in storage[p]
                      /\ \A c \in Of(p, {"store"}) : client[c].pc = "ok" => c \in storage[p]
    BY DEF ProjectsAreComplete
  <2>1. p \in Projects
    BY DEF BaseInv, RequestTypes
  <2>2. CompleteFor(p)
    BY <2>1 DEF RequestsInv
  <2>3. ASSUME NEW c \in Of(p, {"store"}), client[c].pc = "ok" PROVE c \in storage[p]
    <3>1. c \in Callers /\ client[c].kind = "store"
      BY <2>3 DEF Of
    <3>2. ClientOK(c) /\ CallOK(c)
      BY <3>1 DEF RequestsInv, BaseInv, ServiceInv
    <3>3. call[c].name = "remember" /\ call[c].applied
      BY <2>3, <3>1, <3>2 DEF ClientOK, CallOK
    <3> QED BY <2>2, <2>3, <3>3 DEF CompleteFor
  <2> QED BY <2>2, <2>3 DEF CompleteFor
<1> QED BY <1>1, RequestsInvariance, PTL

-----------------------------------------------------------------------------
(* What a step of the service does to a project that is being removed.     *)

\* A handler touches the project of its call, and only a start gives it a process.
LEMMA HandlerSpares ==
  ASSUME ServiceTypes, ServiceInv, NEW c \in Callers, HandlerStep(c)
  PROVE  /\ ~Ended(c) /\ call[c].project \in Projects
         /\ \A q \in Projects : q # call[c].project =>
              storage'[q] = storage[q] /\ (q \in rooted' <=> q \in rooted)
         /\ \A j \in Procs : Alive(j)' =>
              \/ proc'[j].state = proc[j].state /\ proc'[j].project = proc[j].project
              \/ proc'[j].project = call[c].project /\ call[c].name = "start"
         /\ \A q \in Projects :
              \/ instance'[q] \in {instance[q], None}
              \/ q = call[c].project /\ call[c].name = "start"
<1>0. CallOK(c) /\ ~Ended(c)
  BY HandlerIs DEF ServiceInv
<1>1. call[c].project \in Projects
  BY <1>0 DEF CallOK, Ended
<1>2. \A q \in Projects : q # call[c].project =>
        storage'[q] = storage[q] /\ (q \in rooted' <=> q \in rooted)
  <2>1. CASE RemoveStorage(c)
    BY <1>1, <2>1, RemoveStorageIs DEF ServiceTypes
  <2>2. CASE RemovalFails(c)
    BY <1>1, <2>2, RemovalFailsIs DEF ServiceTypes
  <2>3. CASE ~RemoveStorage(c) /\ ~RemovalFails(c)
    BY <2>3 DEF HandlerStep, Put, Answered, EmptyPoll, LookAtProcess, Start, Stop, Join
  <2> QED BY <2>1, <2>2, <2>3
<1> DEFINE Same(j) == proc'[j].state = proc[j].state /\ proc'[j].project = proc[j].project
           Tame == \A q \in Projects : instance'[q] \in {instance[q], None}
<1>3. CASE Put(c)
  <2>1. UNCHANGED instance
    BY <1>3 DEF Put
  <2>2. ASSUME NEW j \in Procs PROVE Same(j)
    <3>1. CASE Alive(call[c].target)
      <4>1. PICK k \in Procs :
              ProcBecomes(k, [proc[k] EXCEPT !.lock = c,
                !.inbox = Append(@, [by |-> c, command |-> call[c].command])])
        BY <1>0, <1>3, <3>1, PutIs
      <4> QED BY <4>1 DEF ProcBecomes, ServiceTypes, ProcRows
    <3>2. CASE ~Alive(call[c].target)
      BY <1>0, <1>3, <3>2, PutIs
    <3> QED BY <3>1, <3>2
  <2> QED BY <1>0, <1>1, <1>2, <2>1, <2>2
<1>4. CASE Answered(c)
  <2>1. PICK k \in Procs :
          UNCHANGED instance /\ ProcBecomes(k, [proc[k] EXCEPT !.lock = None, !.outbox = Tail(@)])
    BY <1>0, <1>4, AnsweredIs
  <2>2. ASSUME NEW j \in Procs PROVE Same(j)
    BY <2>1 DEF ProcBecomes, ServiceTypes, ProcRows
  <2> QED BY <1>0, <1>1, <1>2, <2>1, <2>2
<1>5. CASE EmptyPoll(c) \/ LookAtProcess(c)
  <2>1. PICK k \in Procs :
          /\ UNCHANGED instance
          /\ UNCHANGED proc \/ ProcBecomes(k, [proc[k] EXCEPT !.lock = None])
    BY <1>0, <1>5, LookIs
  <2>2. ASSUME NEW j \in Procs PROVE Same(j)
    BY <2>1 DEF ProcBecomes, ServiceTypes, ProcRows
  <2> QED BY <1>0, <1>1, <1>2, <2>1, <2>2
<1>6. ASSUME Spawn(c), call[c].name = "start"
      PROVE  /\ \A j \in Procs : Same(j) \/ proc'[j].project = call[c].project
             /\ \A q \in Projects : q # call[c].project => instance'[q] = instance[q]
  <2>1. PICK i \in Procs :
          /\ \A j \in Procs \ {i} : proc'[j] = proc[j]
          /\ proc'[i].project = call[c].project
          /\ instance' = [instance EXCEPT ![call[c].project] = i]
    BY <1>1, <1>6, SpawnIs
  <2> QED BY <1>1, <2>1 DEF ServiceTypes
<1>7. CASE Start(c)
  <2>1. call[c].name = "start"
    BY <1>0, <1>7 DEF CallOK, Start
  <2>2. CASE Spawn(c)
    BY <1>0, <1>1, <1>2, <1>6, <2>1, <2>2
  <2>3. CASE UNCHANGED <<instance, proc>>
    BY <1>0, <1>1, <1>2, <2>3
  <2> QED BY <1>1, <1>7, <2>2, <2>3, StartIs
<1>8. CASE Stop(c)
  <2>1. UNCHANGED proc /\ Tame
    BY <1>1, <1>8, StopIs DEF ServiceTypes
  <2> QED BY <1>0, <1>1, <1>2, <2>1
<1>9. CASE Join(c)
  <2>1. CASE call[c].name = "start" /\ Spawn(c)
    BY <1>0, <1>1, <1>2, <1>6, <2>1
  <2>2. CASE UNCHANGED <<instance, proc>>
    BY <1>0, <1>1, <1>2, <2>2
  <2> QED BY <1>9, <2>1, <2>2 DEF Join
<1>10. CASE RemoveStorage(c)
  BY <1>0, <1>1, <1>2, <1>10, RemoveStorageIs
<1>11. CASE RemovalFails(c)
  BY <1>0, <1>1, <1>2, <1>11, RemovalFailsIs
<1> QED BY <1>3, <1>4, <1>5, <1>7, <1>8, <1>9, <1>10, <1>11 DEF HandlerStep

\* What is removed stays removed while nobody calls the service for it.
LEMMA RemovedStays ==
  ASSUME ServiceTypes, ServiceInv, ServiceStep, NEW p \in Projects, Removed(p),
         \A d \in Callers : call[d].project = p => Ended(d)
  PROVE  Removed(p)'
<1>0. storage[p] = {} /\ p \notin rooted
      /\ \A i \in Procs : Alive(i) /\ proc[i].project = p => proc[i].state = "exiting"
  BY DEF Removed
<1>1. ASSUME NEW c \in Callers, HandlerStep(c) PROVE Removed(p)'
  <2>1. call[c].project # p
    BY <1>1, HandlerSpares
  <2>2. storage'[p] = {} /\ p \notin rooted'
    BY <1>0, <1>1, <2>1, HandlerSpares
  <2>3. ASSUME NEW j \in Procs, Alive(j)', proc'[j].project = p PROVE proc'[j].state = "exiting"
    <3>1. proc'[j].state = proc[j].state /\ proc'[j].project = proc[j].project
      BY <1>1, <2>1, <2>3, HandlerSpares
    <3> QED BY <1>0, <2>3, <3>1 DEF Alive
  <2> QED BY <2>2, <2>3 DEF Removed
<1>2. ASSUME NEW i \in Procs, NEW r, ProcBecomes(i, r), r.project = proc[i].project,
             r.state = proc[i].state \/ r.state \in {"exiting", "dead"} \/ proc[i].project # p,
             storage'[p] = {}, p \notin rooted'
      PROVE  Removed(p)'
  <2>1. ASSUME NEW j \in Procs, Alive(j)', proc'[j].project = p PROVE proc'[j].state = "exiting"
    <3>1. CASE j = i
      BY <1>0, <1>2, <2>1, <3>1 DEF ProcBecomes, Alive
    <3>2. CASE j # i
      BY <1>0, <1>2, <2>1, <3>2 DEF ProcBecomes, Alive
    <3> QED BY <3>1, <3>2
  <2> QED BY <1>2, <2>1 DEF Removed
<1>3. ASSUME NEW i \in Procs, Configure(i) PROVE Removed(p)'
  <2>1. proc[i].project # p
    BY <1>0, <1>3, ConfigureIs DEF Alive
  <2> DEFINE r == [proc[i] EXCEPT !.state = "serving"]
  <2>2. r.project = proc[i].project /\ r.state = "serving"
    BY DEF ServiceTypes, ProcRows
  <2>3. ProcBecomes(i, r) /\ storage'[p] = {} /\ p \notin rooted'
    BY <1>0, <1>3, <2>1, ConfigureIs
  <2> HIDE DEF r
  <2> QED BY <1>2, <2>1, <2>2, <2>3
<1>4. ASSUME NEW i \in Procs, Execute(i) PROVE Removed(p)'
  <2>0. proc[i].state = "serving"
    BY <1>4 DEF Execute
  <2>1. proc[i].project # p
    BY <1>0, <2>0 DEF Alive
  <2>2. storage'[p] = {} /\ p \notin rooted'
    BY <1>0, <1>4, <2>1 DEF Execute, ServiceTypes
  <2>3. PICK r : ProcBecomes(i, r) /\ r.project = proc[i].project
    <3>1. /\ \A j \in Procs : j # i => proc'[j] = proc[j]
          /\ proc'[i].project = proc[i].project /\ proc' \in [Procs -> ProcRows]
      <4>1. proc[i].inbox # << >>
        BY <1>4 DEF Execute
      <4>2. PICK c \in Callers : c = proc[i].lock
        BY <2>0, <4>1, ExecutedIs
      <4> QED BY <1>4, <4>2, ExecuteChanges, ExecuteIs DEF ProcBecomes
    <3>2. ProcBecomes(i, proc'[i])
      BY <3>1 DEF ProcBecomes
    <3> QED BY <3>1, <3>2
  <2> QED BY <1>2, <2>1, <2>2, <2>3
<1>5. ASSUME NEW i \in Procs, Exit(i) PROVE Removed(p)'
  <2> DEFINE r == [proc[i] EXCEPT !.state = "dead"]
  <2>1. r.project = proc[i].project /\ r.state = "dead"
    BY DEF ServiceTypes, ProcRows
  <2>2. ProcBecomes(i, r) /\ storage'[p] = {} /\ p \notin rooted'
    BY <1>0, <1>5, ExitIs
  <2> HIDE DEF r
  <2> QED BY <1>2, <2>1, <2>2
<1>6. ASSUME NEW i \in Procs, Crash(i) PROVE Removed(p)'
  <2>1. PICK answers :
          ProcBecomes(i, [proc[i] EXCEPT !.state = "dead", !.inbox = << >>, !.outbox = answers])
    BY <1>6, CrashIs
  <2> DEFINE r == [proc[i] EXCEPT !.state = "dead", !.inbox = << >>, !.outbox = answers]
  <2>2. r.project = proc[i].project /\ r.state = "dead"
    BY DEF ServiceTypes, ProcRows
  <2>3. ProcBecomes(i, r) /\ storage'[p] = {} /\ p \notin rooted'
    BY <1>0, <1>6, <2>1, CrashIs
  <2> HIDE DEF r
  <2> QED BY <1>2, <2>2, <2>3
<1>7. ASSUME NEW i \in Procs, LoseAnswer(i) PROVE Removed(p)'
  <2> DEFINE r == [proc[i] EXCEPT !.outbox = Tail(@)]
  <2>1. r.project = proc[i].project /\ r.state = proc[i].state
    BY DEF ServiceTypes, ProcRows
  <2>2. ProcBecomes(i, r) /\ storage'[p] = {} /\ p \notin rooted'
    BY <1>0, <1>7, LoseAnswerIs
  <2> HIDE DEF r
  <2> QED BY <1>2, <2>1, <2>2
<1>8. ASSUME Restart PROVE Removed(p)'
  <2>1. \A i \in Procs : proc'[i].state = "none"
    BY <1>8 DEF Restart, NoProc
  <2>2. UNCHANGED <<storage, rooted>>
    BY <1>8 DEF Restart
  <2> QED BY <1>0, <2>1, <2>2 DEF Removed, Alive
<1> QED BY <1>1, <1>3, <1>4, <1>5, <1>6, <1>7, <1>8 DEF ServiceStep, ProcessStep

\* The storage is removed by the only call under way for a project without instance.
LEMMA RemoveStorageRemoves ==
  ASSUME ServiceTypes, ServiceInv, NEW c \in Callers, RemoveStorage(c),
         NEW p \in Projects, p = call[c].project, instance[p] = None,
         \A i \in Procs : Accounted(i),
         \A d \in Callers : d # c /\ call[d].project = p => Ended(d)
  PROVE  Removed(p)'
<1>1. /\ call[c].pc = "remove" /\ UNCHANGED proc
      /\ storage'[p] = {} /\ p \notin rooted'
  BY RemoveStorageIs DEF ServiceTypes
<1>2. ASSUME NEW i \in Procs, Alive(i), proc[i].project = p PROVE proc[i].state = "exiting"
  <2>1. ASSUME NEW d \in Callers, ShutsDown(d, i) PROVE proc[i].state = "exiting"
    <3>1. CASE d = c
      <4>1. proc[i].state \in {"exiting", "dead"}
        BY <1>1, <2>1, <3>1, NoneAssumption DEF ServiceInv, CallOK, ShutsDown
      <4> QED BY <1>2, <4>1 DEF Alive
    <3>2. CASE d # c
      <4>1. CallOK(d) /\ call[d] \in CallRows /\ call[d].command = "shutdown" /\ ~Ended(d)
        BY <2>1 DEF ServiceInv, ServiceTypes, ShutsDown
      <4>2. call[d].pc \in {"enter", "await", "join", "remove"}
        <5>1. call[d].pc \in {"start", "stop", "enter", "await", "join", "remove"}
          BY <4>1 DEF CallRows, Ended
        <5>2. call[d].pc # "start"
          BY <4>1, NamesAssumption DEF CallOK, Commands
        <5>3. call[d].pc # "stop"
          BY <2>1, <4>1, NoneAssumption DEF CallOK, ShutsDown
        <5> QED BY <5>1, <5>2, <5>3
      <4>3. CASE call[d].pc = "remove"
        <5>1. proc[i].state \in {"exiting", "dead"}
          BY <2>1, <4>1, <4>3, NoneAssumption DEF CallOK, ShutsDown
        <5> QED BY <1>2, <5>1 DEF Alive
      <4>4. CASE call[d].pc # "remove"
        <5>1. call[d].project = p
          BY <1>2, <2>1, <4>1, <4>2, <4>4 DEF CallOK, ShutsDown
        <5> QED BY <3>2, <4>1, <5>1
      <4> QED BY <4>3, <4>4
    <3> QED BY <3>1, <3>2
  <2>2. instance[proc[i].project] # i
    BY <1>2, NoneAssumption
  <2> QED BY <1>2, <2>1, <2>2 DEF Accounted
<1> QED BY <1>1, <1>2 DEF Removed, Alive

\* While a removal is the project's only call, nothing brings its worker or its storage back.
LEMMA ServiceKeepsStop ==
  ASSUME ServiceTypes, ServiceInv, ServiceInv', ServiceStep, \A i \in Procs : Accounted(i),
         NEW c \in Callers, call[c].name = "stop", NEW p \in Projects, p = call[c].project,
         \A d \in Callers : d # c /\ call[d].project = p => Ended(d), StopGoes(c, p)
  PROVE  StopGoes(c, p)'
<1>0. CallOK(c) /\ CallOK(c)'
  BY DEF ServiceInv
<1>1. ASSUME HandlerStep(c) PROVE StopGoes(c, p)'
  <2>1. ~Ended(c) /\ call[c].pc # "start"
    BY <1>0, <1>1, HandlerSpares DEF CallOK
  <2>2. PICK pc, target, command, applied :
          /\ Continues(c, pc, target, command, applied)
          /\ applied = call[c].applied \/ (RemoveStorage(c) /\ call[c].name = "stop")
    BY <1>1, HandlerIs
  <2>3. instance'[p] = None
    <3>1. CASE call[c].pc = "stop"
      <4>1. Stop(c)
        BY <1>1, <3>1 DEF HandlerStep, Put, Answered, EmptyPoll, LookAtProcess,
           Start, Join, RemoveStorage, RemovalFails
      <4> QED BY <4>1 DEF Stop, ServiceTypes
    <3>2. CASE call[c].pc # "stop"
      <4>1. call[c].pc \in {"enter", "await", "join", "remove"}
        BY <2>1, <3>2 DEF ServiceTypes, CallRows, Ended
      <4> QED BY <1>1, <4>1, HandlerSpares DEF StopGoes
    <3> QED BY <3>1, <3>2
  <2>4. ASSUME call'[c].pc = "ok" PROVE Removed(p)'
    <3>1. call'[c].applied /\ ~call[c].applied
      BY <1>0, <2>1, <2>2, <2>4 DEF CallOK, Continues, Ended
    <3>2. RemoveStorage(c)
      BY <2>2, <3>1 DEF Continues
    <3>3. instance[p] = None
      BY <3>2 DEF RemoveStorage, StopGoes
    <3> QED BY <3>2, <3>3, RemoveStorageRemoves
  <2> QED BY <2>3, <2>4 DEF StopGoes
<1>2. ASSUME call'[c].pc \in {call[c].pc, "failed"},
             instance'[p] \in {instance[p], None}
      PROVE  StopGoes(c, p)'
  <2>1. ASSUME call'[c].pc = "ok" PROVE Removed(p)'
    <3>1. call[c].pc = "ok"
      BY <1>2, <2>1
    <3>2. Removed(p) /\ \A d \in Callers : call[d].project = p => Ended(d)
      BY <3>1 DEF StopGoes, Ended
    <3> QED BY <3>2, RemovedStays
  <2> QED BY <1>2, <2>1 DEF StopGoes
<1>3. ASSUME NEW d \in Callers, d # c, HandlerStep(d) PROVE StopGoes(c, p)'
  <2>1. call[d].project # p /\ instance'[p] \in {instance[p], None}
    BY <1>3, HandlerSpares
  <2>2. call'[c] = call[c]
    BY <1>3, HandlerIs DEF Continues
  <2> QED BY <1>2, <2>1, <2>2
<1>4. ASSUME NEW i \in Procs, Execute(i) PROVE StopGoes(c, p)'
  <2>0. proc[i].state = "serving" /\ proc[i].inbox # << >>
    BY <1>4 DEF Execute
  <2>1. PICK d \in Callers : d = proc[i].lock
    BY <2>0, ExecutedIs
  <2>2. call[d].pc = "await"
    BY <2>0, <2>1, ExecutedIs
  <2>3. UNCHANGED instance /\ (Continues(d, "await", i, call[d].command, TRUE) \/ UNCHANGED call)
    BY <1>4, <2>1, ExecuteChanges
  <2> QED BY <1>2, <2>2, <2>3 DEF Continues
<1>5. ASSUME NEW i \in Procs, ProcessStep(i) \/ Crash(i) \/ LoseAnswer(i), ~Execute(i)
      PROVE  StopGoes(c, p)'
  <2>1. UNCHANGED <<instance, call>>
    BY <1>5 DEF ProcessStep, Configure, Exit, Crash, LoseAnswer
  <2> QED BY <1>2, <2>1
<1>6. ASSUME Restart PROVE StopGoes(c, p)'
  <2>1. instance'[p] = None /\ call'[c].pc \in {call[c].pc, "failed"}
    BY <1>6 DEF Restart, ServiceTypes, CallRows
  <2> QED BY <1>2, <2>1
<1> QED BY <1>1, <1>3, <1>4, <1>5, <1>6 DEF ServiceStep

-----------------------------------------------------------------------------
(* Nothing is left behind.                                                 *)

\* What a call is under way for is a project of its caller, which is not done.
LEMMA UsersCall ==
  ASSUME RequestTypes, RequestsInv, NEW d \in Callers, ~Ended(d)
  PROVE  client[d].project = call[d].project /\ Open(d)
<1>1. ClientOK(d) /\ call[d].pc # "none"
  BY DEF RequestsInv, Ended
<1> QED BY <1>1 DEF ClientOK, Open

\* What a removal in progress looks like to the memory service.
LEMMA RemovingIs ==
  ASSUME RequestsInv, NEW c \in Callers, Removing(c)
  PROVE  /\ call[c].name = "stop" /\ call[c].pc # "none" /\ client[c].project \in Projects
         /\ call[c].project = client[c].project
         /\ client[c].kind = "create" /\ client[c].pc = "failed" => call[c].pc = "ok"
<1>1. ClientOK(c)
  BY DEF RequestsInv
<1>2. CASE client[c].kind = "create"
  BY <1>1, <1>2 DEF ClientOK, Removing
<1>3. CASE client[c].kind = "delete"
  BY <1>1, <1>3 DEF ClientOK, Removing
<1> QED BY <1>2, <1>3 DEF Removing

\* A call that has ended stays so.
LEMMA OpenStays ==
  ASSUME NEW d \in Callers, Evolves(d), UNCHANGED client, ~Open(d)
  PROVE  ~Open(d)'
<1>1. Ended(d) => Ended(d)'
  BY DEF Evolves, Ended
<1> QED BY <1>1 DEF Open, Done

\* A step of the service keeps removals on their way.
LEMMA ServiceKeepsRemoval ==
  ASSUME BaseInv, ServiceInv', RequestsInv, RemovalInv, ServiceStep,
         UNCHANGED <<client, row, holder, git>>
  PROVE  RemovalInv'
<1> USE DEF BaseInv
<1>0. \A d \in Callers : Evolves(d)
  BY ServiceEvolves
<1>1. ASSUME NEW c \in Callers, Removing(c)' PROVE RemovalOK(c)'
  <2>1. Removing(c)
    BY <1>0, <1>1 DEF Removing, Evolves, Ended
  <2>2. PICK p \in Projects : p = client[c].project
    BY <2>1, RemovingIs
  <2>3. RemovalOK(c) /\ call[c].name = "stop" /\ call[c].project = p
    BY <2>1, <2>2, RemovingIs DEF RemovalInv
  <2>4. ASSUME NEW d \in Callers, d # c, call[d].project = p PROVE Ended(d)
    <3> SUFFICES ASSUME ~Ended(d) PROVE FALSE
      OBVIOUS
    <3>1. client[d].project = p /\ Open(d)
      BY <2>4, UsersCall
    <3> QED BY <2>1, <2>2, <2>3, <2>4, <3>1 DEF RemovalOK, Users
  <2>5. StopGoes(c, p)
    BY <2>1, <2>2, <2>3 DEF RemovalOK
  <2>6. StopGoes(c, p)'
    BY <2>2, <2>3, <2>4, <2>5, ServiceKeepsStop
  <2>7. ASSUME NEW d \in Users(p) \ {c} PROVE ~Open(d)'
    <3>1. d \in Callers /\ ~Open(d)
      BY <2>1, <2>2, <2>3, <2>7 DEF RemovalOK, Users
    <3> QED BY <1>0, <3>1, OpenStays
  <2>8. client'[c].project = p /\ Users(p)' = Users(p)
    BY <2>2 DEF Users
  <2>9. client[c].kind = "delete" /\ client[c].pc \in {"committing", "ok"} => p \notin git
    BY <2>1, <2>2, <2>3 DEF RemovalOK
  <2> QED BY <2>2, <2>6, <2>7, <2>8, <2>9 DEF RemovalOK, Users
<1>2. ASSUME NEW p \in Projects, Removed(p),
             \A d \in Users(p) : Ended(d)
      PROVE  Removed(p)'
  <2>1. ASSUME NEW d \in Callers, call[d].project = p PROVE Ended(d)
    BY <1>2, <2>1, UsersCall DEF Users
  <2> QED BY <1>2, <2>1, RemovedStays
<1>3. ASSUME NEW c \in Callers, client[c].kind = "create", client[c].pc = "failed"
      PROVE  Removed(client[c].project)'
  <2>1. ClientOK(c) /\ CreatorOK(c) /\ Removed(client[c].project)
    BY <1>3 DEF RequestsInv, RemovalInv
  <2>2. PICK p \in Projects : p = client[c].project
    BY <1>3, <2>1 DEF ClientOK
  <2>3. Users(p) = {c} /\ Ended(c)
    BY <1>3, <2>1, <2>2 DEF CreatorOK, ClientOK, Ended
  <2>4. Removed(p)'
    BY <1>2, <2>1, <2>2, <2>3
  <2> QED BY <2>2, <2>4
<1>4. ASSUME NEW p \in Projects \ row, Users(p) = {} /\ p \notin git /\ Removed(p)
      PROVE  Removed(p)'
  BY <1>2, <1>4
<1>5. ASSUME NEW p \in Projects \ row'
      PROVE  (\/ Users(p) = {} /\ p \notin git /\ Removed(p)
              \/ \E c \in Users(p) : client[c].kind = "create" /\ client[c].pc # "ok"
              \/ \E c \in Users(p) : client[c].kind = "delete" /\ client[c].pc = "ok")'
  <2>1. \/ Users(p) = {} /\ p \notin git /\ Removed(p)
        \/ \E c \in Users(p) : client[c].kind = "create" /\ client[c].pc # "ok"
        \/ \E c \in Users(p) : client[c].kind = "delete" /\ client[c].pc = "ok"
    BY <1>5 DEF RemovalInv
  <2>2. p \in Projects \ row /\ Users(p)' = Users(p)
    BY <1>5 DEF Users
  <2>3. Users(p) = {} /\ p \notin git /\ Removed(p) => Removed(p)'
    BY <1>4, <2>2
  <2> QED BY <2>1, <2>2, <2>3
<1>6. ASSUME NEW c \in Callers PROVE RemovalOK(c)'
  BY <1>1, <1>6 DEF RemovalOK
<1>7. \A c \in Callers : client'[c].kind = "create" /\ client'[c].pc = "failed" =>
         Removed(client[c].project)'
  BY <1>3
<1>8. \A c \in Callers : client'[c].kind = "delete" /\ client'[c].pc = "ok" =>
         client'[c].project \notin row'
  BY DEF RemovalInv
<1>9. \A c \in Callers : (client[c].kind = "create" /\ client[c].pc = "failed" =>
         Removed(client[c].project))'
  BY <1>7 DEF Removed
<1> QED BY <1>5, <1>6, <1>8, <1>9 DEF RemovalInv

\* A request goes on: only it, its call and its project change.
LEMMA GoKeepsRemoval ==
  ASSUME RequestTypes, RequestsInv, RemovalInv, NEW c \in Callers, NEW pc, Goes(c, pc),
         client[c].pc # "idle", ~Done(c), NEW p \in Projects, p = client[c].project,
         \A d \in Callers : d # c => call'[d] = call[d],
         UNCHANGED <<storage, rooted, proc, instance>>,
         \A q \in Projects : q # p => (q \in row' <=> q \in row) /\ (q \in git' <=> q \in git),
         RemovalOK(c)',
         client[c].kind = "create" /\ pc = "failed" => Removed(p),
         client[c].kind = "create" /\ pc = "ok" => p \in row',
         client[c].kind = "delete" /\ pc = "ok" => p \notin row',
         p \in row' => p \in row \/ client[c].kind = "create",
         p \in row => p \in row' \/ (client[c].kind = "delete" /\ pc = "ok")
  PROVE  RemovalInv'
<1>0. /\ \A d \in Callers : d # c => client'[d] = client[d]
      /\ client'[c].pc = pc /\ client'[c].kind = client[c].kind /\ client'[c].project = p
      /\ Open(c) /\ client[c].pc \notin {"ok", "failed", "leaked"}
  BY DEF Goes, Open, Done
<1>1. \A q \in Projects : Users(q)' = Users(q) /\ (Removed(q)' <=> Removed(q))
  BY <1>0 DEF Users, Removed, Alive
<1>2. ASSUME NEW d \in Callers PROVE RemovalOK(d)'
  <2>1. CASE d # c
    <3> SUFFICES ASSUME Removing(d)' PROVE RemovalOK(d)'
      BY DEF RemovalOK
    <3>1. client'[d] = client[d] /\ call'[d] = call[d]
      BY <1>0, <2>1
    <3>2. Removing(d)
      BY <3>1 DEF Removing
    <3>3. PICK q \in Projects : q = client[d].project
      BY <3>2, RemovingIs
    <3>4. RemovalOK(d)
      BY DEF RemovalInv
    <3>5. q # p
      BY <1>0, <2>1, <3>2, <3>3, <3>4 DEF RemovalOK, Users
    <3>6. ASSUME NEW e \in Users(q) \ {d} PROVE ~Open(e)'
      <4>1. e \in Callers /\ e # c /\ ~Open(e)
        BY <3>2, <3>3, <3>4, <3>5, <3>6 DEF RemovalOK, Users
      <4> QED BY <1>0, <4>1 DEF Open, Done, Ended
    <3>7. StopGoes(d, q)'
      BY <1>1, <3>1, <3>2, <3>3, <3>4 DEF RemovalOK, StopGoes
    <3>8. client[d].kind = "delete" /\ client[d].pc \in {"committing", "ok"} => q \notin git'
      BY <3>2, <3>3, <3>4, <3>5 DEF RemovalOK
    <3>9. Users(q)' = Users(q)
      BY <1>1
    <3> QED BY <3>1, <3>3, <3>6, <3>7, <3>8, <3>9 DEF RemovalOK
  <2> QED BY <2>1
<1>3. ASSUME NEW d \in Callers, client'[d].kind = "create", client'[d].pc = "failed"
      PROVE  Removed(client[d].project)'
  <2>1. PICK q \in Projects : q = client'[d].project /\ q = client[d].project
    <3>1. ClientOK(d) /\ (d # c => client'[d] = client[d])
      BY <1>0 DEF RequestsInv
    <3> QED BY <1>0, <1>3, <3>1 DEF ClientOK
  <2>2. Removed(q)
    BY <1>0, <1>3, <2>1 DEF RemovalInv
  <2>3. Removed(q)'
    BY <1>1, <2>2
  <2> QED BY <2>1, <2>3
<1>4. ASSUME NEW d \in Callers, client'[d].kind = "delete", client'[d].pc = "ok"
      PROVE  client'[d].project \notin row'
  <2>1. CASE d = c
    BY <1>0, <1>4, <2>1
  <2>2. CASE d # c
    <3>1. client'[d] = client[d] /\ ClientOK(d) /\ client[d].project \notin row
      BY <1>0, <1>4, <2>2 DEF RequestsInv, RemovalInv
    <3>2. PICK q \in Projects : q = client[d].project
      BY <1>4, <3>1 DEF ClientOK
    <3>3. CASE q = p
      <4>1. client[c].kind = "create" => Users(p) = {c}
        BY <1>0 DEF RequestsInv, CreatorOK
      <4> QED BY <2>2, <3>1, <3>2, <3>3, <4>1 DEF Users
    <3>4. CASE q # p
      BY <3>1, <3>2, <3>4
    <3> QED BY <3>3, <3>4
  <2> QED BY <2>1, <2>2
<1>5. ASSUME NEW q \in Projects \ row'
      PROVE  (\/ Users(q) = {} /\ q \notin git /\ Removed(q)
              \/ \E d \in Users(q) : client[d].kind = "create" /\ client[d].pc # "ok"
              \/ \E d \in Users(q) : client[d].kind = "delete" /\ client[d].pc = "ok")'
  <2>0. \A d \in Users(q) : d \in Callers /\ (d # c => client'[d] = client[d])
    BY <1>0 DEF Users
  <2>1. CASE q \in row
    BY <1>0, <1>1, <1>5, <2>1 DEF Users
  <2>2. CASE q \notin row
    <3>1. \/ Users(q) = {} /\ q \notin git /\ Removed(q)
          \/ \E d \in Users(q) : client[d].kind = "create" /\ client[d].pc # "ok"
          \/ \E d \in Users(q) : client[d].kind = "delete" /\ client[d].pc = "ok"
      BY <1>5, <2>2 DEF RemovalInv
    <3>2. CASE Users(q) = {} /\ q \notin git /\ Removed(q)
      <4>1. q # p
        BY <3>2 DEF Users
      <4> QED BY <1>1, <1>5, <3>2, <4>1
    <3>3. ASSUME NEW d \in Users(q), client[d].kind = "create", client[d].pc # "ok"
          PROVE  client'[d].kind = "create" /\ client'[d].pc # "ok"
      BY <1>0, <1>5, <2>0, <3>3 DEF Users
    <3>4. ASSUME NEW d \in Users(q), client[d].kind = "delete", client[d].pc = "ok"
          PROVE  client'[d].kind = "delete" /\ client'[d].pc = "ok"
      BY <1>0, <2>0, <3>4
    <3> QED BY <1>1, <1>5, <3>1, <3>2, <3>3, <3>4
  <2> QED BY <2>1, <2>2
<1>6. \A d \in Callers : (client[d].kind = "create" /\ client[d].pc = "failed" =>
        Removed(client[d].project))'
  <2> SUFFICES ASSUME NEW d \in Callers, client'[d].kind = "create", client'[d].pc = "failed"
               PROVE  Removed(client[d].project)'
    OBVIOUS
  <2> QED BY <1>3
<1> QED BY <1>2, <1>4, <1>5, <1>6 DEF RemovalInv

\* A request that removes a project goes on with what its call has done.
LEMMA RemovingGoesOn ==
  ASSUME RequestsInv, RemovalInv, NEW c \in Callers, NEW pc, Goes(c, pc), Removing(c),
         NEW p \in Projects, p = client[c].project,
         UNCHANGED <<storage, rooted, proc, instance, call>>,
         client[c].kind = "delete" /\ pc \in {"committing", "ok"} => p \notin git'
  PROVE  RemovalOK(c)'
<1>1. /\ client'[c].project = p /\ client'[c].kind = client[c].kind /\ client'[c].pc = pc
      /\ \A d \in Callers : d # c => client'[d] = client[d]
      /\ Users(p)' = Users(p)
  BY DEF Goes, Users
<1>2. StopGoes(c, p) /\ \A d \in Users(p) \ {c} : ~Open(d)
  BY DEF RemovalInv, RemovalOK
<1>3. StopGoes(c, p)'
  BY <1>2 DEF StopGoes, Removed, Alive
<1>4. ASSUME NEW d \in Users(p) \ {c} PROVE ~Open(d)'
  <2>1. ~Open(d) /\ client'[d] = client[d]
    BY <1>1, <1>2, <1>4 DEF Users
  <2> QED BY <2>1 DEF Open, Done, Ended
<1> QED BY <1>1, <1>3, <1>4 DEF RemovalOK

\* The steps of create_project.
LEMMA CreateKeepsRemoval ==
  ASSUME ServiceTypes, RequestTypes, ServiceInv, RequestsInv, RemovalInv, NEW c \in Callers,
         CreateStarted(c) \/ CreateStartFails(c) \/ CreateRemembered(c)
           \/ CreateRememberFails(c) \/ CreateUndone(c) \/ CommitCreate(c)
  PROVE  RemovalInv'
<1> USE DEF AtStep
<1>0. /\ client[c].kind = "create" /\ client[c].pc # "idle" /\ ~Done(c)
      /\ Root \in Datasets /\ {"stop", "remember"} \subseteq Names
      /\ {"starting", "remembering", "committing", "undoing", "ok", "failed", "leaked"}
           \subseteq Points
  BY DEF CreateStarted, CreateStartFails, CreateRemembered, CreateRememberFails, CreateUndone,
         CommitCreate, Datasets, Names, Points, Done
<1>1. PICK p \in Projects : p = client[c].project
  BY <1>0 DEF RequestTypes
<1>2. ClientOK(c) /\ p \notin row /\ Users(p) = {c}
  BY <1>0, <1>1 DEF RequestsInv, CreatorOK, Done
<1>3. CASE CreateStarted(c)
  <2>1. /\ Goes(c, "remembering") /\ UNCHANGED <<storage, rooted, proc, instance, row, git>>
        /\ \A d \in Callers : d # c => call'[d] = call[d]
    BY <1>0, <1>3, ReachIs, AskGives DEF CreateStarted
  <2>2. RemovalOK(c)'
    BY <1>0, <2>1 DEF Goes, RemovalOK, Removing
  <2> QED BY <1>0, <1>1, <1>2, <2>1, <2>2, GoKeepsRemoval
<1>4. CASE CreateStartFails(c)
  <2>1. /\ Goes(c, "leaked") /\ UNCHANGED <<storage, rooted, proc, instance, call, row>>
        /\ git' = git \ {p}
    BY <1>0, <1>1, <1>4, FinishIs DEF CreateStartFails, service
  <2>2. RemovalOK(c)'
    BY <1>0, <2>1 DEF Goes, RemovalOK, Removing
  <2> QED BY <1>0, <1>1, <1>2, <2>1, <2>2, GoKeepsRemoval
<1>5. CASE CreateRemembered(c)
  <2>1. Goes(c, "committing") /\ UNCHANGED <<storage, rooted, proc, instance, call, row, git>>
    BY <1>0, <1>5, ReachIs DEF CreateRemembered, service
  <2>2. RemovalOK(c)'
    BY <1>0, <2>1 DEF Goes, RemovalOK, Removing
  <2> QED BY <1>0, <1>1, <1>2, <2>1, <2>2, GoKeepsRemoval
<1>6. CASE CreateRememberFails(c)
  <2>1. /\ Goes(c, "undoing") /\ UNCHANGED <<storage, rooted, proc, instance, row>>
        /\ git' = git \ {p} /\ \A d \in Callers : d # c => call'[d] = call[d]
        /\ call'[c].pc = "stop"
    BY <1>0, <1>1, <1>6, ReachIs, AskGives DEF CreateRememberFails
  <2>2. Users(p)' = {c} /\ client'[c].project = p /\ client'[c].kind = "create"
    BY <1>0, <1>1, <1>2, <2>1 DEF Goes, Users
  <2>3. RemovalOK(c)'
    BY <2>1, <2>2 DEF RemovalOK, StopGoes, Users
  <2> QED BY <1>0, <1>1, <1>2, <2>1, <2>3, GoKeepsRemoval
<1>7. CASE CreateUndone(c)
  <2>1. PICK pc \in {"failed", "leaked"} :
          /\ Goes(c, pc) /\ UNCHANGED <<storage, rooted, proc, instance, call, row, git>>
          /\ client[c].pc = "undoing" /\ (pc = "failed" => call[c].pc = "ok")
    BY <1>0, <1>7, FinishIs DEF CreateUndone, service, Answer
  <2>2. Removing(c) /\ RemovalOK(c)
    BY <1>0, <1>2, <2>1 DEF Removing, ClientOK, RemovalInv
  <2>3. RemovalOK(c)'
    BY <1>0, <1>1, <2>1, <2>2, RemovingGoesOn
  <2>4. pc = "failed" => Removed(p)
    BY <1>1, <2>1, <2>2 DEF RemovalOK, StopGoes
  <2> QED BY <1>0, <1>1, <1>2, <2>1, <2>3, <2>4, GoKeepsRemoval
<1>8. CASE CommitCreate(c)
  <2>1. /\ UNCHANGED <<storage, rooted, proc, instance, call, git>>
        /\ \/ Goes(c, "ok") /\ row' = row \cup {p}
           \/ Goes(c, "leaked") /\ UNCHANGED row
    BY <1>0, <1>1, <1>8, FinishIs DEF CommitCreate, service
  <2>2. RemovalOK(c)'
    BY <1>0, <2>1 DEF Goes, RemovalOK, Removing
  <2>3. CASE Goes(c, "leaked") /\ UNCHANGED row
    BY <1>0, <1>1, <1>2, <2>1, <2>2, <2>3, GoKeepsRemoval
  <2>4. CASE Goes(c, "ok") /\ row' = row \cup {p}
    BY <1>0, <1>1, <1>2, <2>1, <2>2, <2>4, GoKeepsRemoval
  <2> QED BY <2>1, <2>3, <2>4
<1> QED BY <1>3, <1>4, <1>5, <1>6, <1>7, <1>8

\* The steps of delete_project.
LEMMA DeleteKeepsRemoval ==
  ASSUME ServiceTypes, RequestTypes, ServiceInv, RequestsInv, RemovalInv, NEW c \in Callers,
         DeleteStopped(c) \/ DeleteFails(c) \/ CommitDelete(c)
  PROVE  RemovalInv'
<1> USE DEF AtStep
<1>0. /\ client[c].kind = "delete" /\ client[c].pc \in {"stopping", "committing"} /\ ~Done(c)
      /\ {"committing", "ok", "failed"} \subseteq Points
  BY DEF DeleteStopped, DeleteFails, CommitDelete, Points, Done
<1>1. PICK p \in Projects : p = client[c].project
  BY <1>0 DEF RequestTypes
<1>2. PICK pc \in {"committing", "ok", "failed"} :
        /\ Goes(c, pc) /\ UNCHANGED <<storage, rooted, proc, instance, call>>
        /\ pc = "committing" => DeleteStopped(c)
        /\ pc = "ok" => client[c].pc = "committing" /\ row' = row \ {p} /\ UNCHANGED git
        /\ pc # "ok" => UNCHANGED row
  <2>1. CASE DeleteStopped(c)
    BY <1>0, <2>1, ReachIs, FinishIs DEF DeleteStopped, service
  <2>2. CASE DeleteFails(c)
    BY <1>0, <2>2, FinishIs DEF DeleteFails, service
  <2>3. CASE CommitDelete(c)
    BY <1>0, <1>1, <2>3, FinishIs DEF CommitDelete, service
  <2> QED BY <2>1, <2>2, <2>3
<1>3. \A q \in Projects : q # p => (q \in row' <=> q \in row) /\ (q \in git' <=> q \in git)
  BY <1>1 DEF DeleteStopped, DeleteFails, CommitDelete
<1>4. RemovalOK(c)'
  <2> SUFFICES ASSUME Removing(c)' PROVE RemovalOK(c)'
    BY DEF RemovalOK
  <2>1. pc # "failed" /\ Removing(c)
    BY <1>0, <1>2 DEF Removing, Goes
  <2>2. CASE pc = "committing"
    <3>1. p \notin git'
      BY <1>1, <1>2, <2>2 DEF DeleteStopped
    <3> QED BY <1>1, <1>2, <2>1, <3>1, RemovingGoesOn
  <2>3. CASE pc = "ok"
    <3>1. p \notin git'
      BY <1>0, <1>1, <1>2, <2>1, <2>3 DEF RemovalInv, RemovalOK
    <3> QED BY <1>1, <1>2, <2>1, <3>1, RemovingGoesOn
  <2> QED BY <2>1, <2>2, <2>3
<1> QED BY <1>0, <1>1, <1>2, <1>3, <1>4, GoKeepsRemoval

\* The steps of requests that use the memory, and those that die.
LEMMA UseKeepsRemoval ==
  ASSUME ServiceTypes, RequestTypes, ServiceInv, RequestsInv, RemovalInv, NEW c \in Callers,
         NEW pc, Goes(c, pc), client[c].pc # "idle", ~Done(c),
         client[c].kind \in {"store", "read"} \/ pc = "leaked"
           \/ (client[c].kind = "delete" /\ pc = "failed"),
         \A d \in Callers : d # c => call'[d] = call[d],
         UNCHANGED <<storage, rooted, proc, instance, row, git>>
  PROVE  RemovalInv'
<1>1. PICK p \in Projects : p = client[c].project
  BY DEF RequestTypes
<1>2. RemovalOK(c)'
  BY DEF Goes, RemovalOK, Removing
<1> QED BY <1>1, <1>2, GoKeepsRemoval

\* A step of a storing or reading request keeps removals on their way.
LEMMA UseStepKeepsRemoval ==
  ASSUME ServiceTypes, RequestTypes, ServiceInv, RequestsInv, RemovalInv, NEW c \in Callers,
         UseStarted(c) \/ UseRead(c) \/ StoreRemembered(c) \/ UseFails(c) \/ CommitStore(c)
           \/ StoreUndone(c) \/ Die(c)
  PROVE  RemovalInv'
<1> USE DEF AtStep
<1>0. /\ {"reading", "remembering", "committing", "undoing", "ok", "failed", "leaked"}
           \subseteq Points
      /\ Root \in Datasets /\ c \in Datasets /\ {"records", "remember", "forget"} \subseteq Names
  BY DEF Points, Datasets, Names
<1>1. client[c].pc # "idle" /\ ~Done(c)
  <2>1. CASE UseRead(c)
    BY <2>1 DEF UseRead, Done
  <2>2. CASE Die(c)
    BY <2>2 DEF Die
  <2> QED BY <2>1, <2>2 DEF UseStarted, StoreRemembered, UseFails, CommitStore, StoreUndone, Done
<1>2. ClientOK(c) /\ client[c].kind \in {"create", "delete", "store", "read"}
  <2>1. ClientOK(c) /\ client[c].kind \in Kinds \cup {None}
    BY DEF RequestsInv, RequestTypes, ClientRows
  <2> QED BY <1>1, <2>1 DEF ClientOK, Kinds
<1>3. CASE UseStarted(c)
  <2>1. /\ Goes(c, "reading") /\ UNCHANGED <<storage, rooted, proc, instance, row, git>>
        /\ \A d \in Callers : d # c => call'[d] = call[d]
        /\ client[c].kind \in {"store", "read"}
    BY <1>0, <1>1, <1>3, ReachIs, AskGives DEF UseStarted
  <2> QED BY <1>1, <2>1, UseKeepsRemoval
<1>4. CASE UseRead(c)
  <2>1. CASE client[c].kind = "read" /\ Finish(c, "ok") /\ UNCHANGED service
    <3>1. Goes(c, "ok") /\ UNCHANGED <<storage, rooted, proc, instance, call, row, git>>
      BY <1>0, <1>4, <2>1, FinishIs DEF UseRead, service
    <3> QED BY <1>1, <2>1, <3>1, UseKeepsRemoval
  <2>2. CASE client[c].kind = "store" /\ Ask(c, "remember", c) /\ Reach(c, "remembering")
    <3>1. /\ Goes(c, "remembering") /\ UNCHANGED <<storage, rooted, proc, instance, row, git>>
          /\ \A d \in Callers : d # c => call'[d] = call[d]
      BY <1>0, <1>1, <1>4, <2>2, ReachIs, AskGives DEF UseRead
    <3> QED BY <1>1, <2>2, <3>1, UseKeepsRemoval
  <2> QED BY <1>4, <2>1, <2>2 DEF UseRead
<1>5. CASE StoreRemembered(c) \/ UseFails(c) \/ StoreUndone(c)
  <2>1. PICK pc \in {"committing", "failed"} :
          Goes(c, pc) /\ UNCHANGED <<storage, rooted, proc, instance, call, row, git>>
    BY <1>0, <1>5, ReachIs, FinishIs DEF StoreRemembered, UseFails, StoreUndone, service
  <2>2. client[c].kind \in {"store", "read"}
    BY <1>5 DEF StoreRemembered, UseFails, StoreUndone
  <2> QED BY <1>1, <2>1, <2>2, UseKeepsRemoval
<1>6. CASE CommitStore(c)
  <2>0. client[c].kind = "store" /\ UNCHANGED <<row, git>>
    BY <1>6 DEF CommitStore
  <2>1. CASE Finish(c, "ok") /\ UNCHANGED service
    <3>1. Goes(c, "ok") /\ UNCHANGED <<storage, rooted, proc, instance, call>>
      BY <1>0, <2>1, FinishIs DEF service
    <3> QED BY <1>1, <2>0, <3>1, UseKeepsRemoval
  <2>2. CASE Ask(c, "forget", c) /\ Finish(c, "undoing")
    <3>1. /\ Goes(c, "undoing") /\ UNCHANGED <<storage, rooted, proc, instance>>
          /\ \A d \in Callers : d # c => call'[d] = call[d]
      BY <1>0, <1>1, <2>2, FinishIs, AskGives
    <3> QED BY <1>1, <2>0, <3>1, UseKeepsRemoval
  <2> QED BY <1>6, <2>1, <2>2 DEF CommitStore
<1>7. CASE Die(c)
  <2>1. PICK pc \in {"leaked", "failed"} :
          /\ Goes(c, pc) /\ UNCHANGED <<storage, rooted, proc, instance, call, row, git>>
          /\ pc = "failed" => client[c].kind # "create"
    BY <1>0, <1>7, FinishIs DEF Die, service
  <2> QED BY <1>1, <1>2, <2>1, UseKeepsRemoval
<1> QED BY <1>3, <1>4, <1>5, <1>6, <1>7

\* A request begins: a removal it meets is no longer alone.
LEMMA BegunKeepsRemoval ==
  ASSUME RequestTypes, RequestsInv, RemovalInv, NEW c \in Callers, NEW kind \in Kinds,
         NEW p \in Projects, NEW config, NEW pc \in {"starting", "stopping", "failed"},
         Begun(c, kind, p, config, pc), \A d \in Callers : d # c => call'[d] = call[d],
         UNCHANGED <<storage, rooted, proc, instance, row>>,
         \A q \in Projects : q # p => (q \in git' <=> q \in git),
         kind # "create" => p \in row,
         kind = "create" =>
           /\ Users(p) = {} /\ p \notin row
           /\ pc = "starting" \/ (pc = "failed" /\ call'[c].pc = "none"),
         kind = "delete" => pc = "stopping" /\ call'[c].pc = "stop"
  PROVE  RemovalInv'
<1>0. /\ \A d \in Callers : d # c => /\ client'[d].kind = client[d].kind
                                     /\ client'[d].project = client[d].project
                                     /\ client'[d].pc = client[d].pc
                                     /\ call'[d] = call[d]
      /\ client'[c].pc = pc /\ client'[c].kind = kind /\ client'[c].project = p
      /\ client[c].pc = "idle" /\ ClientOK(c)
  BY DEF Begun, RequestsInv
<1>1. client[c].project = None /\ client[c].kind = None /\ None \notin Projects
  BY <1>0, NoneAssumption DEF ClientOK
<1>2. \A q \in Projects : q # p => Users(q)' = Users(q)
  BY <1>0, <1>1 DEF Users
<1>3. Users(p)' = Users(p) \cup {c} /\ c \notin Users(p)
  BY <1>0, <1>1 DEF Users
<1>4. \A q \in Projects : Removed(q)' <=> Removed(q)
  BY DEF Removed, Alive
<1>5. \A d \in Callers : d # c => (Open(d)' <=> Open(d))
  BY <1>0 DEF Open, Done, Ended
<1>6. ASSUME NEW d \in Callers PROVE RemovalOK(d)'
  <2> SUFFICES ASSUME Removing(d)' PROVE RemovalOK(d)'
    BY DEF RemovalOK
  <2>1. CASE d = c
    <3>1. client'[c].kind = "delete" /\ client'[c].alone /\ pc = "stopping"
      BY <1>0, <2>1 DEF Removing
    <3>2. \A e \in Users(p) : ~Open(e)
      BY <1>0, <3>1 DEF Begun, Users
    <3>3. \A e \in Users(p)' \ {c} : ~Open(e)'
      BY <1>3, <1>5, <3>2 DEF Users
    <3>4. call'[c].pc = "stop"
      BY <1>0, <3>1
    <3> QED BY <1>0, <2>1, <3>1, <3>3, <3>4 DEF RemovalOK, StopGoes
  <2>2. CASE d # c
    <3>1. Removing(d) /\ (client[d].kind = "delete" => ~(client[d].project = p /\ Open(d)))
      <4>1. client'[d].alone => client[d].alone /\ ~(client[d].project = p /\ Open(d))
        BY <2>2 DEF Begun
      <4> QED BY <1>0, <2>2, <4>1 DEF Removing
    <3>2. RemovalOK(d) /\ ClientOK(d)
      BY DEF RemovalInv, RequestsInv
    <3>3. PICK q \in Projects : q = client[d].project
      BY <3>1, RemovingIs
    <3>4. q # p
      <4> SUFFICES ASSUME q = p PROVE FALSE
        OBVIOUS
      <4>1. CASE client[d].kind = "create"
        <5>1. client[d].pc # "ok"
          BY <3>1, <4>1 DEF Removing
        <5>2. p \notin row /\ d \in Users(p)
          BY <3>3, <4>1, <5>1 DEF RequestsInv, CreatorOK, Users
        <5> QED BY <5>2
      <4>2. CASE client[d].kind = "delete"
        <5>1. ~Open(d) /\ client[d].pc \in {"stopping", "committing", "ok"}
          BY <3>1, <3>3, <4>2 DEF Removing
        <5>2. client[d].pc = "ok"
          BY <5>1 DEF Open, Done
        <5>3. p \notin row /\ d \in Users(p)
          BY <3>3, <4>2, <5>2 DEF RemovalInv, Users
        <5> QED BY <5>3
      <4> QED BY <3>1, <4>1, <4>2 DEF Removing
    <3>5. Users(q)' = Users(q) /\ c \notin Users(q)
      BY <1>0, <1>1, <1>2, <3>4 DEF Users
    <3>6. ASSUME NEW e \in Users(q) \ {d} PROVE ~Open(e)'
      <4>1. ~Open(e) /\ e \in Callers /\ e # c
        BY <3>1, <3>2, <3>3, <3>5, <3>6 DEF RemovalOK, Users
      <4> QED BY <1>5, <4>1
    <3>7. StopGoes(d, q)'
      BY <1>0, <1>4, <2>2, <3>1, <3>2, <3>3 DEF RemovalOK, StopGoes
    <3>8. client[d].kind = "delete" /\ client[d].pc \in {"committing", "ok"} => q \notin git'
      BY <3>1, <3>2, <3>3, <3>4 DEF RemovalOK
    <3> QED BY <1>0, <2>2, <3>3, <3>5, <3>6, <3>7, <3>8 DEF RemovalOK
  <2> QED BY <2>1, <2>2
<1>7. ASSUME NEW d \in Callers, client'[d].kind = "create", client'[d].pc = "failed"
      PROVE  Removed(client[d].project)'
  <2>1. CASE d = c
    <3>1. Users(p) = {} /\ p \notin row
      BY <1>0, <1>7, <2>1
    <3>2. Removed(p)
      BY <3>1 DEF RemovalInv, Users
    <3>3. Removed(p)'
      BY <1>4, <3>2
    <3> QED BY <1>0, <2>1, <3>3
  <2>2. CASE d # c
    <3>1. client[d].kind = "create" /\ client[d].pc = "failed" /\ ClientOK(d)
      BY <1>0, <1>7, <2>2 DEF RequestsInv
    <3>2. PICK q \in Projects : q = client[d].project
      BY <3>1 DEF ClientOK
    <3>3. Removed(q)
      BY <3>1, <3>2 DEF RemovalInv
    <3>4. Removed(q)'
      BY <1>4, <3>3
    <3> QED BY <1>0, <2>2, <3>2, <3>4
  <2> QED BY <2>1, <2>2
<1>8. ASSUME NEW d \in Callers, client'[d].kind = "delete", client'[d].pc = "ok"
      PROVE  client'[d].project \notin row'
  BY <1>0, <1>8 DEF RemovalInv
<1>9. ASSUME NEW q \in Projects \ row'
      PROVE  (\/ Users(q) = {} /\ q \notin git /\ Removed(q)
              \/ \E d \in Users(q) : client[d].kind = "create" /\ client[d].pc # "ok"
              \/ \E d \in Users(q) : client[d].kind = "delete" /\ client[d].pc = "ok")'
  <2>1. CASE q = p
    <3>1. kind = "create" /\ pc # "ok"
      BY <1>9, <2>1
    <3> QED BY <1>0, <1>3, <2>1, <3>1
  <2>2. CASE q # p
    <3>1. \/ Users(q) = {} /\ q \notin git /\ Removed(q)
          \/ \E d \in Users(q) : client[d].kind = "create" /\ client[d].pc # "ok"
          \/ \E d \in Users(q) : client[d].kind = "delete" /\ client[d].pc = "ok"
      BY <1>9 DEF RemovalInv
    <3>2. Users(q)' = Users(q) /\ \A d \in Users(q) : d \in Callers /\ d # c
      BY <1>1, <1>2, <2>2 DEF Users
    <3> QED BY <1>0, <1>4, <1>9, <2>2, <3>1, <3>2
  <2> QED BY <2>1, <2>2
<1>10. \A d \in Callers : (client[d].kind = "create" /\ client[d].pc = "failed" =>
         Removed(client[d].project))'
  <2> SUFFICES ASSUME NEW d \in Callers, client'[d].kind = "create", client'[d].pc = "failed"
               PROVE  Removed(client[d].project)'
    OBVIOUS
  <2> QED BY <1>7
<1> QED BY <1>6, <1>8, <1>9, <1>10 DEF RemovalInv

\* Beginning a request keeps removals on their way.
LEMMA BeginKeepsRemoval ==
  ASSUME ServiceTypes, RequestTypes, ServiceInv, RequestsInv, RemovalInv, NEW c \in Callers,
         BeginRequest(c)
  PROVE  RemovalInv'
<1>1. PICK p \in Projects :
        \/ BeginCreate(c, p)
        \/ BeginDelete(c, p)
        \/ \E kind \in {"store", "read"}, config \in Configs : BeginUse(c, kind, p, config)
  BY DEF BeginRequest
<1>2. /\ "empty" \in Configs /\ Kinds = {"create", "delete", "store", "read"}
      /\ "starting" \in Points /\ "failed" \in Points /\ "stopping" \in Points
  BY DEF Configs, Kinds, Points
<1>3. CASE BeginCreate(c, p)
  <2>0. Users(p) = {} /\ p \notin row /\ UNCHANGED row
    BY <1>3, UsersAre DEF BeginCreate
  <2>1. CASE /\ Begin(c, "create", p, "empty", "starting") /\ git' = git \cup {p}
             /\ Submit(c, "start", p, None, "empty")
    <3>1. Begun(c, "create", p, "empty", "starting")
      BY <1>2, <2>1, BeginIs
    <3>2. /\ UNCHANGED <<storage, rooted, proc, instance>>
          /\ \A d \in Callers : d # c => call'[d] = call[d]
      BY <1>2, <2>1, BeginGives
    <3> QED BY <1>2, <2>0, <2>1, <3>1, <3>2, BegunKeepsRemoval
  <2>2. CASE Begin(c, "create", p, "empty", "failed") /\ UNCHANGED <<service, git>>
    <3>1. Begun(c, "create", p, "empty", "failed") /\ client[c].pc = "idle"
      BY <1>2, <2>2, BeginIs DEF Begin
    <3>2. UNCHANGED <<storage, rooted, proc, instance, call>> /\ call[c].pc = "none"
      BY <2>2, <3>1, IdleIs DEF service
    <3> QED BY <1>2, <2>0, <2>2, <3>1, <3>2, BegunKeepsRemoval
  <2> QED BY <1>3, <2>1, <2>2 DEF BeginCreate
<1>4. CASE BeginDelete(c, p)
  <2>1. Begun(c, "delete", p, None, "stopping") /\ p \in row /\ UNCHANGED <<row, git>>
    BY <1>2, <1>4, BeginIs DEF BeginDelete
  <2>2. /\ UNCHANGED <<storage, rooted, proc, instance>>
        /\ \A d \in Callers : d # c => call'[d] = call[d]
        /\ call'[c].pc = "stop"
    BY <1>4, BeginGives DEF BeginDelete
  <2> QED BY <1>2, <2>1, <2>2, BegunKeepsRemoval
<1>5. ASSUME NEW kind \in {"store", "read"}, NEW config \in Configs, BeginUse(c, kind, p, config)
      PROVE  RemovalInv'
  <2>1. Begun(c, kind, p, config, "starting") /\ p \in row /\ UNCHANGED <<row, git>>
    BY <1>2, <1>5, BeginIs DEF BeginUse
  <2>2. /\ UNCHANGED <<storage, rooted, proc, instance>>
        /\ \A d \in Callers : d # c => call'[d] = call[d]
    BY <1>5, BeginGives DEF BeginUse
  <2> QED BY <1>2, <2>1, <2>2, BegunKeepsRemoval
<1> QED BY <1>1, <1>3, <1>4, <1>5

\* In the beginning a project without a row has nothing.
LEMMA InitIsRemoval == Init => RemovalInv
<1> SUFFICES ASSUME Init PROVE RemovalInv
  OBVIOUS
<1>1. /\ \A c \in Callers : client[c] = Idle
      /\ \A p \in Projects : storage[p] = IF p \in rooted THEN {Root} ELSE {}
      /\ \A i \in Procs : proc[i] = NoProc
      /\ row = rooted /\ git = rooted
  BY DEF Init, ServiceInit
<1>2. None \notin Kinds /\ None \notin Projects /\ Kinds = {"create", "delete", "store", "read"}
  BY NamesAssumption, NoneAssumption DEF Kinds
<1>3. ASSUME NEW c \in Callers
      PROVE  RemovalOK(c) /\ client[c].kind \notin {"create", "delete"}
  BY <1>1, <1>2 DEF RemovalOK, Removing, Idle
<1>4. ASSUME NEW p \in Projects \ row PROVE Users(p) = {} /\ p \notin git /\ Removed(p)
  BY <1>1, <1>2 DEF Users, Idle, Removed, Alive, NoProc
<1> QED BY <1>3, <1>4 DEF RemovalInv

\* Every step keeps removals on their way.
LEMMA RemovalKept == BaseInv /\ RequestsInv /\ RemovalInv /\ [Next]_vars => RemovalInv'
<1> SUFFICES ASSUME BaseInv, RequestsInv, RemovalInv, [Next]_vars PROVE RemovalInv'
  OBVIOUS
<1>0. ServiceTypes /\ RequestTypes /\ ServiceInv
  BY DEF BaseInv
<1>1. ASSUME NEW c \in Callers, BeginRequest(c) PROVE RemovalInv'
  BY <1>0, <1>1, BeginKeepsRemoval
<1>2. ASSUME NEW c \in Callers, RequestStep(c) \/ Die(c) PROVE RemovalInv'
  BY <1>0, <1>2, CreateKeepsRemoval, DeleteKeepsRemoval, UseStepKeepsRemoval DEF RequestStep
<1>3. ASSUME ServiceStep, UNCHANGED <<client, row, holder, git>> PROVE RemovalInv'
  <2>1. BaseInv'
    BY BaseKept
  <2> QED BY <1>3, <2>1, ServiceKeepsRemoval DEF BaseInv
<1>4. ASSUME UNCHANGED vars PROVE RemovalInv'
  <2>1. UNCHANGED <<instance, proc, storage, rooted, call, client, row, git>>
    BY <1>4 DEF vars, service
  <2> QED BY <2>1 DEF RemovalInv, RemovalOK, Removing, StopGoes, Removed, Users, Open, Done,
       Ended, Alive
<1> QED BY <1>1, <1>2, <1>3, <1>4 DEF Next

\* A project without a row has no Git storage, no memory and no process at work, unless
\* its creation could not start or stop the memory or commit, or a request overlapped its
\* deletion (NothingIsLeftBehind).
THEOREM RemovalsAreComplete == Spec => []NothingIsLeftBehind
<1>1. Init => BaseInv /\ RequestsInv /\ RemovalInv
  BY InitIsBase, InitIsRequests, InitIsRemoval
<1>2. BaseInv /\ RequestsInv /\ RemovalInv /\ [Next]_vars
        => BaseInv' /\ RequestsInv' /\ RemovalInv'
  BY BaseKept, RequestsKept, RemovalKept
<1>3. RequestsInv /\ RemovalInv => NothingIsLeftBehind
  <2> SUFFICES ASSUME RequestsInv, RemovalInv, NEW p \in Projects \ row,
                      \A c \in Callers : client[c].project = p =>
                        /\ ~Open(c) /\ client[c].pc # "leaked"
                        /\ client[c].kind = "delete" /\ client[c].pc = "ok" => client[c].alone
               PROVE  p \notin git /\ Removed(p)
    BY DEF NothingIsLeftBehind, Removed
  <2>1. \/ Users(p) = {} /\ p \notin git /\ Removed(p)
        \/ \E c \in Users(p) : client[c].kind = "create" /\ client[c].pc # "ok"
        \/ \E c \in Users(p) : client[c].kind = "delete" /\ client[c].pc = "ok"
    BY DEF RemovalInv
  <2>2. ASSUME NEW c \in Users(p), client[c].kind = "create", client[c].pc # "ok"
        PROVE  p \notin git /\ Removed(p)
    <3>1. c \in Callers /\ client[c].project = p
      BY DEF Users
    <3>2. ClientOK(c) /\ CreatorOK(c) /\ ~Open(c) /\ client[c].pc # "leaked"
      BY <3>1 DEF RequestsInv
    <3>3. client[c].pc = "failed"
      BY <2>2, <3>2 DEF ClientOK, Open, Done
    <3> QED BY <2>2, <3>1, <3>2, <3>3 DEF CreatorOK, RemovalInv
  <2>3. ASSUME NEW c \in Users(p), client[c].kind = "delete", client[c].pc = "ok"
        PROVE  p \notin git /\ Removed(p)
    <3>1. c \in Callers /\ client[c].project = p
      BY DEF Users
    <3>2. ClientOK(c) /\ RemovalOK(c) /\ client[c].alone
      BY <2>3, <3>1 DEF RequestsInv, RemovalInv
    <3>3. Removing(c) /\ call[c].pc = "ok"
      BY <2>3, <3>2 DEF Removing, ClientOK
    <3> QED BY <2>3, <3>1, <3>2, <3>3 DEF RemovalOK, StopGoes
  <2> QED BY <2>1, <2>2, <2>3
<1> QED BY <1>1, <1>2, <1>3, PTL DEF Spec
=============================================================================
