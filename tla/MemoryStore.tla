---------------------------- MODULE MemoryStore ----------------------------
(***************************************************************************)
(* What the memory service promises its callers: a call takes effect at    *)
(* most once, between its beginning and its end; a call that ends well has *)
(* taken effect, and one that has failed never does so afterwards; a stop  *)
(* that fails may have removed some of the datasets.                       *)
(* MemorySupervisor implements it with a process per project, queues,      *)
(* locks, restarts and crashes.                                            *)
(***************************************************************************)
CONSTANTS
  Callers,   \* who calls; each has one call at a time
  Projects,
  Datasets,
  None

VARIABLES
  data,      \* the datasets of each project
  op,        \* the operation of each caller's call, with its arguments
  status     \* "none", "pending", "applied", "ok" or "failed"

svars == <<data, op, status>>

Operations == [name : {"start", "stop", "remember", "records", "forget"},
               project : Projects, dataset : Datasets \cup {None}]

Init ==
  /\ data \in [Projects -> SUBSET Datasets]
  /\ op = [c \in Callers |-> None]
  /\ status = [c \in Callers |-> "none"]

\* A call begins, or is refused at once.
Call(c) ==
  /\ status[c] \in {"none", "ok", "failed"}
  /\ \E new \in Operations : op' = [op EXCEPT ![c] = new]
  /\ \E next \in {"pending", "failed"} : status' = [status EXCEPT ![c] = next]
  /\ UNCHANGED data

\* remember makes a new dataset, records reads an existing one, forget removes
\* one and stop removes all; starting a process changes nothing callers see.
Effect(o, before) ==
  CASE o.name = "remember" /\ o.dataset \notin before -> {before \cup {o.dataset}}
    [] o.name = "records" /\ o.dataset \in before     -> {before}
    [] o.name = "forget"                              -> {before \ {o.dataset}}
    [] o.name = "stop"                                -> {{}}
    [] o.name = "start"                               -> {before}
    [] OTHER                                          -> {}

\* A call takes effect, and may end with it.
Apply(c) ==
  LET p == op[c].project IN
  /\ status[c] = "pending"
  /\ \E after \in Effect(op[c], data[p]) : data' = [data EXCEPT ![p] = after]
  /\ \E next \in {"applied", "ok"} : status' = [status EXCEPT ![c] = next]
  /\ UNCHANGED op

Return(c) ==
  /\ status[c] = "applied"
  /\ status' = [status EXCEPT ![c] = "ok"]
  /\ UNCHANGED <<data, op>>

\* Any number of calls fail together when the service stops.
Fail ==
  /\ \E some \in SUBSET {c \in Callers : status[c] \in {"pending", "applied"}} :
       status' = [c \in Callers |-> IF c \in some THEN "failed" ELSE status[c]]
  /\ UNCHANGED <<data, op>>

\* A stop that removes some of the datasets, and fails.
Tear(c) ==
  LET p == op[c].project IN
  /\ status[c] = "pending" /\ op[c].name = "stop"
  /\ \E left \in SUBSET data[p] : data' = [data EXCEPT ![p] = left]
  /\ status' = [status EXCEPT ![c] = "failed"]
  /\ UNCHANGED op

Next == Fail \/ \E c \in Callers : Call(c) \/ Apply(c) \/ Return(c) \/ Tear(c)

Spec == Init /\ [][Next]_svars
=============================================================================
