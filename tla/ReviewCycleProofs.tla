-------------------------- MODULE ReviewCycleProofs --------------------------
(***************************************************************************)
(* What every task that follows the review cycle delivers, for every       *)
(* number of participants and of repairs.  TeamCycleProofs proves that     *)
(* TeamTask follows the cycle (FollowsCycle).                              *)
(***************************************************************************)
EXTENDS ReviewCycle, TLAPS

\* What is under review has an author and is within the repairs allowed; what
\* is to be repaired leaves room for one more.
CycleInv ==
  /\ version \in Nat
  /\ stage \in {"draft", "review", "revise", "none"}
  /\ stage = "draft" => version = 0
  /\ stage = "review" => author \in Agents /\ version \in 1..MaxRevisions + 1
  /\ stage = "revise" => author \in Agents /\ version \in 1..MaxRevisions
  /\ stage = "none" => status # "running"
  /\ DeliveredIndependently

LEMMA CycleNext ==
  ASSUME MaxRevisions \in Nat, CycleInv, [Next]_cycleVars
  PROVE  CycleInv'
<1>1. ASSUME NEW a \in Agents, Draft(a) PROVE CycleInv'
  BY <1>1 DEF CycleInv, Draft, DeliveredIndependently
<1>2. ASSUME NEW a \in Agents, Review(a) PROVE CycleInv'
  <2>1. author \in Agents /\ version \in 1..MaxRevisions + 1 /\ stage = "review"
        /\ status = "running" /\ UNCHANGED <<version, author>> /\ reviewer' = a
    BY <1>2 DEF CycleInv, Review
  <2>2. CASE status' = "completed" /\ stage' = "none"
    <3>1. (AtLeast(2) => reviewer # author)'
      BY <1>2 DEF Review, AtLeast
    <3> QED BY <2>1, <2>2, <3>1 DEF CycleInv, DeliveredIndependently
  <2>3. CASE version <= MaxRevisions /\ stage' = "revise" /\ UNCHANGED status
    BY <2>1, <2>3 DEF CycleInv, DeliveredIndependently
  <2>4. CASE status' = "failed" /\ UNCHANGED stage
    BY <2>1, <2>4 DEF CycleInv, DeliveredIndependently
  <2> QED BY <1>2, <2>2, <2>3, <2>4 DEF Review
<1>3. ASSUME NEW a \in Agents, Revise(a) PROVE CycleInv'
  BY <1>3 DEF CycleInv, Revise, DeliveredIndependently
<1>4. CASE End
  BY <1>4 DEF CycleInv, End, DeliveredIndependently
<1>5. CASE UNCHANGED cycleVars
  BY <1>5 DEF CycleInv, cycleVars, DeliveredIndependently, AtLeast
<1> QED BY <1>1, <1>2, <1>3, <1>4, <1>5 DEF Next

\* A completed task delivers a version that, as soon as there are two
\* participants, somebody other than its author has passed, and it was repaired
\* at most MaxRevisions times.
THEOREM IndependentDelivery ==
  ASSUME MaxRevisions \in Nat
  PROVE  Spec => []DeliveredIndependently
<1>1. Init => CycleInv
  BY DEF Init, CycleInv, DeliveredIndependently
<1>2. CycleInv /\ [Next]_cycleVars => CycleInv'
  BY CycleNext
<1>3. CycleInv => DeliveredIndependently
  BY DEF CycleInv
<1> QED BY <1>1, <1>2, <1>3, PTL DEF Spec
=============================================================================
