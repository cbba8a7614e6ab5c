----------------------------- MODULE ReviewCycle -----------------------------
(***************************************************************************)
(* What a team task promises its user, with no mailbox, no coordinator     *)
(* process and no key-value store: a deliverable is drafted, judged by     *)
(* somebody who did not make it, and repaired by somebody who did not      *)
(* judge it, until it passes or the repairs are used up.                   *)
(***************************************************************************)
EXTENDS Naturals, FiniteSets

CONSTANTS
  Agents,        \* the participants of the task
  NoAgent,
  MaxRevisions   \* RelaySession.maxRevisions, a natural number

VARIABLES
  status,     \* RelaySession.status
  stage,      \* RelaySession.workStage
  version,    \* RelaySession.artifactVersion
  author,     \* who made the current version
  reviewer    \* who reviewed last

cycleVars == <<status, stage, version, author, reviewer>>

AtLeast(n) == Cardinality(Agents) >= n

Init ==
  /\ status = "running" /\ stage = "draft" /\ version = 0
  /\ author = NoAgent /\ reviewer = NoAgent

Draft(a) ==
  /\ status = "running" /\ stage = "draft"
  /\ version' = 1 /\ author' = a /\ stage' = "review"
  /\ UNCHANGED <<status, reviewer>>

\* A review is independent as soon as there is a second participant.  It ends
\* the task with a pass, or when no repair is left.
Review(a) ==
  /\ status = "running" /\ stage = "review"
  /\ AtLeast(2) => a # author
  /\ reviewer' = a
  /\ \/ status' = "completed" /\ stage' = "none"
     \/ version <= MaxRevisions /\ stage' = "revise" /\ UNCHANGED status
     \/ version > MaxRevisions /\ status' = "failed" /\ UNCHANGED stage
  /\ UNCHANGED <<version, author>>

\* A repair is made by neither the reviewer nor, with three participants, the
\* author of what is repaired.
Revise(a) ==
  /\ status = "running" /\ stage = "revise"
  /\ AtLeast(2) => a # reviewer
  /\ AtLeast(3) => a # author
  /\ version' = version + 1 /\ author' = a /\ stage' = "review"
  /\ UNCHANGED <<status, reviewer>>

\* The task fails for good or is cancelled by an operator.
End ==
  /\ status = "running"
  /\ status' \in {"failed", "cancelled"}
  /\ UNCHANGED <<stage, version, author, reviewer>>

Next ==
  \/ \E a \in Agents : Draft(a) \/ Review(a) \/ Revise(a)
  \/ End

Spec == Init /\ [][Next]_cycleVars

-----------------------------------------------------------------------------
\* What the cycle is for: a completed task delivers a version that somebody
\* other than its author has passed, within the allowed number of repairs.
DeliveredIndependently ==
  status = "completed" =>
    /\ version \in 1..MaxRevisions + 1
    /\ author \in Agents /\ reviewer \in Agents
    /\ AtLeast(2) => reviewer # author
=============================================================================
