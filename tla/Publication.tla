---------------------------- MODULE Publication ----------------------------
(***************************************************************************)
(* What reviewing and editing a project promises, with every request one   *)
(* atomic step: the published revisions form one line, a run is prepared   *)
(* on the tip and is published, rejected or marked conflicted at most      *)
(* once, and it is published only while the tip is still the revision it   *)
(* was prepared on.  What it shows can be overwritten later as failed or   *)
(* cancelled, but what it published stays.  ProjectRevisions implements it *)
(* with row locks, transactions and compensation.                          *)
(***************************************************************************)
CONSTANTS
  Runs,       \* proposals: Agent runs, version restores, knowledge changes
  Revisions,  \* revision ids
  Root,       \* the revision a project is created with
  None        \* no revision

VARIABLES
  published,  \* the revisions that exist
  tip,        \* the one the project shows
  previous,   \* the revision each was built on
  outcome,    \* "none", "open" or one of Outcomes
  openedOn,   \* the tip a run was prepared on
  result      \* the revision a completed run produced

Outcomes == {"completed", "rejected", "conflicted", "failed", "cancelled"}

pvars == <<published, tip, previous, outcome, openedOn, result>>

Init ==
  /\ published = {Root}
  /\ tip = Root
  /\ previous = [i \in Revisions |-> None]
  /\ outcome = [r \in Runs |-> "none"]
  /\ openedOn = [r \in Runs |-> None]
  /\ result = [r \in Runs |-> None]

\* The tip is read first, the proposal recorded later.
Prepare(r) ==
  /\ outcome[r] = "none"
  /\ openedOn' = [openedOn EXCEPT ![r] = tip]
  /\ UNCHANGED <<published, tip, previous, outcome, result>>

Open(r) ==
  /\ outcome[r] = "none"
  /\ openedOn[r] # None
  /\ outcome' = [outcome EXCEPT ![r] = "open"]
  /\ UNCHANGED <<published, tip, previous, openedOn, result>>

\* A revision is built on the tip and becomes the tip.
Append(i) ==
  /\ i \in Revisions \ published
  /\ published' = published \cup {i}
  /\ previous' = [previous EXCEPT ![i] = tip]
  /\ tip' = i

Edit(i) ==
  /\ Append(i)
  /\ UNCHANGED <<outcome, openedOn, result>>

Decide(r, verdict) ==
  /\ outcome[r] = "open"
  /\ outcome' = [outcome EXCEPT ![r] = verdict]
  /\ UNCHANGED openedOn

Accept(r, i) ==
  /\ openedOn[r] = tip
  /\ Decide(r, "completed")
  /\ Append(i)
  /\ result' = [result EXCEPT ![r] = i]

Reject(r) ==
  /\ Decide(r, "rejected")
  /\ UNCHANGED <<published, tip, previous, result>>

Conflict(r) ==
  /\ openedOn[r] # tip
  /\ Decide(r, "conflicted")
  /\ UNCHANGED <<published, tip, previous, result>>

\* A run that produced nothing to review, or ended before its review.
Fail(r) ==
  /\ \E verdict \in {"failed", "cancelled"} : Decide(r, verdict)
  /\ UNCHANGED <<published, tip, previous, result>>

\* A late failure or cancellation hides what was decided, and undoes nothing.
Overwrite(r) ==
  /\ outcome[r] \in Outcomes
  /\ \E shown \in {"failed", "cancelled"} : outcome' = [outcome EXCEPT ![r] = shown]
  /\ UNCHANGED <<published, tip, previous, openedOn, result>>

Next ==
  \/ \E i \in Revisions : Edit(i)
  \/ \E r \in Runs : \/ Prepare(r)
                     \/ Open(r)
                     \/ Reject(r)
                     \/ Conflict(r)
                     \/ Fail(r)
                     \/ Overwrite(r)
                     \/ \E i \in Revisions : Accept(r, i)

Spec == Init /\ [][Next]_pvars

=============================================================================
