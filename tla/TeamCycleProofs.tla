---------------------------- MODULE TeamCycleProofs ----------------------------
(***************************************************************************)
(* Who works on a team task, for every number of participants, attempts   *)
(* and repairs: a retry reaches the other agents first, and the stored     *)
(* session goes through the review cycle, so that what it delivers was     *)
(* passed by somebody other than its author.                               *)
(***************************************************************************)
EXTENDS TeamTaskProofs

-----------------------------------------------------------------------------
(* The runs of a turn                                                        *)

\* What is known of the last run of each participant: who was asked for a turn
\* that is still open was its turn's choice, in an attempt that was counted.
AskedInv ==
  \A a \in Agents :
    LET id == runs[a].id IN
    id # NoRun =>
      /\ id.agent = a /\ id.attempt # 0
      /\ id.turn.value \in 1..Len(session.accepted) + 1
      /\ id.turn.value > Len(session.accepted) =>
           /\ a = AgentFor(session, id.turn.stage, id.attempt)
           /\ id.attempt <= Attempts(session, id.turn)

\* The attempt about to start is later than any before it.
FreshInv ==
  coord.pc = "start" =>
    /\ coord.run.attempt <= Attempts(session, coord.turn)
    /\ \A a \in Agents : runs[a].id.turn = coord.turn => runs[a].id.attempt < coord.run.attempt

\* A step that neither claims, starts nor accepts a turn leaves the ledger, the
\* counted attempts and the identities of the runs alone.
LEMMA OtherSteps ==
  ASSUME TeamInv, [Next]_vars, ~ClaimTurn, ~StartRun, ~AcceptTeamTask
  PROVE  /\ session'.accepted = session.accepted
         /\ session'.attempts = session.attempts
         /\ \A a \in Agents : runs'[a].id = runs[a].id
         /\ coord'.pc = "start" => coord.pc = "start" /\ coord'.run = coord.run /\ coord'.turn = coord.turn
<1>1. /\ session \in SessionRecord /\ coord.session \in SessionRecord /\ coord \in CoordRecord
      /\ coord.run \in RunIds /\ runs \in [Agents -> RunRecord]
  BY DEF TeamInv, TypeInv, StoreInv, CoordType, CoordRecord, RunsInv
<1>2. Wins => coord.session = session
  BY DEF TeamInv, LedgerInv, CopyInv
<1>3. session'.accepted = session.accepted
  BY OnlyAcceptanceAdds DEF Follows, Alike
<1>4. ASSUME NEW id, CancelRun(id)
      PROVE  \A a \in Agents : runs'[a].id = runs[a].id
  BY <1>4, CancelTouches DEF Touched, TeamInv, TypeInv
<1>5. \A s : GiveUp(s) # "start"
  BY DEF GiveUp
<1>6. CASE \E t \in mailbox : Receive(t)
  <2>1. PICK t \in mailbox : Receive(t)
    BY <1>6
  <2>2. \A a \in Agents : Forgotten(runs[a]).id = runs[a].id
    BY <1>1 DEF Forgotten, RunRecord, UnusedRun
  <2>3. coord'.pc # "start"
    BY <2>1 DEF Receive, Decision, Idle
  <2> QED BY <1>3, <2>1, <2>2, <2>3 DEF Receive, store
<1>7. CASE SuppressDuplicate
  BY <1>1, <1>2, <1>7 DEF SuppressDuplicate, Commit, Save, CoordRecord
<1>8. CASE StartRejected
  BY <1>1, <1>5, <1>8 DEF StartRejected, Goto, store, CoordRecord
<1>9. CASE RecordRun
  <2>1. session' = [session EXCEPT !.active = coord.run] /\ coord'.pc = "wait" /\ runs' = runs
    BY <1>1, <1>2, <1>9 DEF RecordRun, Commit, Save, CoordRecord
  <2> QED BY <1>1, <1>3, <2>1, RunUpdate
<1>10. CASE RecordLost
  BY <1>1, <1>4, <1>10 DEF RecordLost, Goto, store, CoordRecord, Idle
<1>11. CASE WaitForRun
  BY <1>1, <1>11 DEF WaitForRun, store, CoordRecord
<1>12. CASE TimeOut
  BY <1>1, <1>4, <1>12 DEF TimeOut, store, CoordRecord
<1>13. CASE Reread
  <2>1. coord'.pc # "start" /\ session' = session /\ runs' = runs
    BY <1>1, <1>5, <1>13 DEF Reread, store, CoordRecord, Idle
  <2> QED BY <2>1
<1>14. CASE PublishExpected \/ DeliveryThrows \/ Settle \/ LoseRace
  BY <1>1, <1>14 DEF PublishExpected, DeliveryThrows, Settle, LoseRace, store, CoordRecord, Idle
<1>15. CASE RetryTurn
  <2>1. session' = [session EXCEPT !.active = NoRun] /\ coord'.pc = "idle" /\ runs' = runs
    BY <1>1, <1>2, <1>15 DEF RetryTurn, Save, Idle
  <2> QED BY <1>1, <1>3, <2>1, RunUpdate, NoRunIsRunId
<1>16. CASE FailSession
  <2>1. /\ session' = [session EXCEPT !.active = NoRun, !.status = "failed"]
        /\ session.status = "running" /\ coord'.pc = "settle" /\ runs' = runs
    BY <1>1, <1>2, <1>16 DEF FailSession, Commit, Save, CoordRecord, TeamInv, LedgerInv, HandInv
  <2> QED BY <1>1, <1>3, <2>1, FailUpdate, NoRunIsRunId
<1>17. CASE RecoverSession
  <2>1. session'.attempts = session.attempts
    BY <1>1, <1>17, RunUpdate, NoRunIsRunId DEF RecoverSession, Save, store
  <2>2. coord'.pc # "start" /\ runs' = runs
    <3>1. CASE session.status = "running"
      <4>1. PICK s : coord' = [coord EXCEPT !.pc = "publish", !.revision = revision + 1, !.session = s]
        BY <1>17, <3>1 DEF RecoverSession
      <4> QED BY <1>1, <1>17, <4>1 DEF RecoverSession, CoordRecord
    <3>2. CASE session.status # "running"
      BY <1>17, <3>2 DEF RecoverSession, Idle
    <3> QED BY <3>1, <3>2
  <2> QED BY <1>3, <2>1, <2>2
<1>18. ASSUME NEW a \in Agents, RunEnds(a)
       PROVE  /\ session' = session /\ coord' = coord
              /\ \A b \in Agents : runs'[b].id = runs[b].id
  BY <1>1, <1>18 DEF RunEnds, store, RunRecord
<1>19. CASE CancelSession
  BY <1>1, <1>3, <1>19, CancelUpdate DEF CancelSession, Save
<1>20. CASE CancelRecordedRun
  <2>1. session'.attempts = session.attempts
    BY <1>1, <1>20, RunUpdate, NoRunIsRunId DEF CancelRecordedRun, Save
  <2> QED BY <1>3, <1>4, <1>20, <2>1 DEF CancelRecordedRun
<1>21. CASE RequestInterruption
  <2>1. session'.attempts = session.attempts
    BY <1>1, <1>21 DEF RequestInterruption, Save, SessionRecord
  <2> QED BY <1>3, <1>21, <2>1 DEF RequestInterruption
<1>22. ASSUME NEW id, FinalizeInterruption(id)
       PROVE  session'.attempts = session.attempts /\ runs' = runs /\ coord' = coord
  <2> DEFINE late == [session EXCEPT !.requested = @ \ {id}]
  <2>1. /\ late.attempts = session.attempts
        /\ [late EXCEPT !.disconnected = @ \cup {id}].attempts = session.attempts
    BY <1>1 DEF SessionRecord
  <2>2. session' = late \/ session' = [late EXCEPT !.disconnected = @ \cup {id}]
    BY <1>22 DEF FinalizeInterruption, Save
  <2> HIDE DEF late
  <2> QED BY <1>22, <2>1, <2>2 DEF FinalizeInterruption
<1>23. CASE \E t \in published : SecondCopy(t)
  BY <1>23 DEF SecondCopy, store
<1>24. CASE Crash
  BY <1>1, <1>24 DEF Crash, store, RunRecord, Idle
<1>25. CASE UNCHANGED vars
  BY <1>25 DEF vars
<1>26. CASE CoordinatorStep
  BY <1>6, <1>7, <1>8, <1>9, <1>10, <1>11, <1>12, <1>13, <1>14, <1>15, <1>16, <1>17, <1>26
     DEF CoordinatorStep
<1>27. CASE Environment
  BY <1>3, <1>14, <1>18, <1>19, <1>20, <1>21, <1>22, <1>23, <1>24, <1>27 DEF Environment
<1> QED BY <1>25, <1>26, <1>27 DEF Next

\* The turn about to be started is the open one.
LEMMA ClaimedTurn ==
  ASSUME TeamInv, coord.pc \in {"claim"} \cup Claimed
  PROVE  /\ coord.session.accepted = session.accepted /\ Len(session.accepted) \in Nat
         /\ coord.turn.value = Len(session.accepted) + 1
<1>1. /\ coord.session \in SessionRecord /\ Shaped(coord.session)
      /\ coord.session.status = "running" /\ coord.turn = ExpectedTurn(coord.session)
      /\ coord.session.accepted = session.accepted /\ session \in SessionRecord
  BY DEF TeamInv, TypeInv, LedgerInv, CopyInv, HandInv, StoreInv, CoordType, CoordRecord,
         Claimed, Working
<1>2. coord.session.value = Len(session.accepted) + 1
  BY <1>1, OpenTurn
<1>3. coord.turn.value = coord.session.value
  BY <1>1 DEF ExpectedTurn, Turn
<1> QED BY <1>1, <1>2, <1>3 DEF SessionRecord

LEMMA AskedInit == ASSUME Init PROVE AskedInv /\ FreshInv
BY DEF Init, AskedInv, FreshInv, UnusedRun, Idle

LEMMA AskedNext ==
  ASSUME TeamInv, TeamInv', AskedInv, FreshInv, [Next]_vars
  PROVE  AskedInv' /\ FreshInv'
<1>1. /\ session \in SessionRecord /\ Len(session.accepted) \in Nat
      /\ runs \in [Agents -> RunRecord] /\ coord \in CoordRecord
  BY DEF TeamInv, TypeInv, StoreInv, RunsInv, CoordType, SessionRecord
<1>2. ASSUME NEW a \in Agents
      PROVE  runs[a].id.turn.value \in Nat /\ runs[a].id.attempt \in Nat
  BY <1>1 DEF RunRecord, RunIds, Turns
<1>3. NoRun.turn.value = 0
  BY DEF NoRun, Turn
<1>4. CASE ClaimTurn
  <2> DEFINE n == Attempts(session, coord.turn)
  <2>1. /\ coord.pc = "claim" /\ coord.session = session /\ UNCHANGED runs
        /\ session' = Counted(session, coord.turn) /\ coord'.turn = coord.turn
        /\ coord'.run.attempt = Attempts(session', coord.turn)
        /\ coord.turn \in Turns /\ Attempts(session, coord.turn) < MaxAttempts
    BY <1>1, <1>4 DEF ClaimTurn, Save, TeamInv, LedgerInv, CopyInv, HandInv, CoordRecord
  <2>2. /\ session'.accepted = session.accepted
        /\ Attempts(session', coord.turn) = n + 1
        /\ \A u : u # coord.turn => Attempts(session', u) = Attempts(session, u)
        /\ \A u : Attempts(session, u) \in Nat
    BY <1>1, <2>1, CountUpdate, AttemptsIsNat, TeamAssumption DEF Follows, Alike
  <2> HIDE DEF n
  <2>3. n \in Nat
    BY <2>2 DEF n
  <2>4. \A u : Attempts(session', u) >= Attempts(session, u)
    BY <2>2 DEF n
  <2>5. \A stage, m : AgentFor(session', stage, m) = AgentFor(session, stage, m)
    BY <2>2, SameWorkers
  <2>6. AskedInv'
    <3> SUFFICES ASSUME NEW a \in Agents, runs[a].id # NoRun
                 PROVE  LET id == runs[a].id IN
                        /\ id.agent = a /\ id.attempt # 0
                        /\ id.turn.value \in 1..Len(session'.accepted) + 1
                        /\ id.turn.value > Len(session'.accepted) =>
                             /\ a = AgentFor(session', id.turn.stage, id.attempt)
                             /\ id.attempt <= Attempts(session', id.turn)
      BY <2>1 DEF AskedInv
    <3> DEFINE id == runs[a].id
    <3>1. /\ id.agent = a /\ id.attempt # 0
          /\ id.turn.value \in 1..Len(session.accepted) + 1
          /\ id.turn.value > Len(session.accepted) =>
               /\ a = AgentFor(session, id.turn.stage, id.attempt)
               /\ id.attempt <= Attempts(session, id.turn)
      BY DEF AskedInv
    <3>2. id.attempt \in Nat /\ Attempts(session, id.turn) \in Nat
          /\ Attempts(session', id.turn) >= Attempts(session, id.turn)
          /\ Attempts(session', id.turn) \in Int
      BY <1>2, <2>2, <2>3, <2>4
    <3> HIDE DEF id
    <3> QED BY <2>2, <2>5, <3>1, <3>2 DEF id
  <2>7. ASSUME NEW a \in Agents, runs[a].id.turn = coord.turn
        PROVE  runs[a].id.attempt < n + 1
    <3>1. coord.turn.value = Len(session.accepted) + 1
      BY <2>1, ClaimedTurn
    <3>2. runs[a].id # NoRun
      BY <1>1, <1>3, <2>7, <3>1
    <3>3. runs[a].id.attempt <= n
      BY <1>1, <2>7, <3>1, <3>2 DEF AskedInv, n
    <3> QED BY <1>2, <2>3, <3>3
  <2> QED BY <2>1, <2>2, <2>3, <2>6, <2>7 DEF FreshInv
<1>5. CASE StartRun
  <2> DEFINE b == coord.run.agent
  <2>1. /\ coord.pc = "start" /\ session' = session /\ coord'.pc # "start"
        /\ runs' = [runs EXCEPT ![b] = runs'[b]] /\ runs'[b].id = coord.run /\ b \in Agents
    BY <1>1, <1>5 DEF StartRun, Goto, store, CoordRecord, TeamInv, LedgerInv, HandInv, Claimed
  <2>2. /\ coord.run.turn = coord.turn /\ coord.run.attempt # 0
        /\ b = AgentFor(coord.session, coord.turn.stage, coord.run.attempt)
    BY <2>1 DEF TeamInv, LedgerInv, HandInv, Claimed
  <2>3. /\ coord.session.accepted = session.accepted
        /\ coord.turn.value = Len(session.accepted) + 1
    BY <2>1, ClaimedTurn DEF Claimed
  <2>4. b = AgentFor(session, coord.turn.stage, coord.run.attempt)
    BY <2>2, <2>3, SameWorkers
  <2>5. coord.run.attempt <= Attempts(session, coord.turn)
    BY <2>1 DEF FreshInv
  <2> HIDE DEF b
  <2>6. ASSUME NEW a \in Agents, runs'[a].id # NoRun
        PROVE  LET id == runs'[a].id IN
               /\ id.agent = a /\ id.attempt # 0
               /\ id.turn.value \in 1..Len(session.accepted) + 1
               /\ id.turn.value > Len(session.accepted) =>
                    /\ a = AgentFor(session, id.turn.stage, id.attempt)
                    /\ id.attempt <= Attempts(session, id.turn)
    <3>1. CASE a = b
      <4>1. runs'[a].id = coord.run /\ coord.run.agent = a
        BY <2>1, <3>1 DEF b
      <4> QED BY <1>1, <2>2, <2>3, <2>4, <2>5, <3>1, <4>1
    <3>2. CASE a # b
      <4>1. runs'[a].id = runs[a].id
        BY <1>1, <2>1, <3>2
      <4> QED BY <2>6, <4>1 DEF AskedInv
    <3> QED BY <3>1, <3>2
  <2> QED BY <2>1, <2>6 DEF AskedInv, FreshInv
<1>6. CASE AcceptTeamTask
  <2>1. /\ UNCHANGED runs /\ coord'.pc # "start"
    BY <1>1, <1>6 DEF AcceptTeamTask, Commit, CoordRecord
  <2>2. Len(session'.accepted) = Len(session.accepted) + 1
    <3>1. PICK e \in Entry : session'.accepted = Append(session.accepted, e)
      BY <1>6, AcceptWrites
    <3> QED BY <1>1, <3>1 DEF SessionRecord
  <2> QED BY <1>1, <1>2, <2>1, <2>2 DEF AskedInv, FreshInv
<1>7. CASE ~ClaimTurn /\ ~StartRun /\ ~AcceptTeamTask
  <2>1. /\ session'.accepted = session.accepted /\ session'.attempts = session.attempts
        /\ \A a \in Agents : runs'[a].id = runs[a].id
        /\ coord'.pc = "start" => coord.pc = "start" /\ coord'.run = coord.run /\ coord'.turn = coord.turn
    BY <1>7, OtherSteps
  <2>2. \A stage, m : AgentFor(session', stage, m) = AgentFor(session, stage, m)
    BY <2>1, SameWorkers
  <2>3. \A t : Attempts(session', t) = Attempts(session, t)
    BY <2>1 DEF Attempts
  <2> QED BY <2>1, <2>2, <2>3 DEF AskedInv, FreshInv
<1> QED BY <1>4, <1>5, <1>6, <1>7

\* What holds of every reachable state of the runs.
LEMMA AskedInvariant == Spec => [](TeamInv /\ AskedInv /\ FreshInv)
<1>1. Init => AskedInv /\ FreshInv
  BY AskedInit
<1>2. TeamInv /\ TeamInv' /\ AskedInv /\ FreshInv /\ [Next]_vars => AskedInv' /\ FreshInv'
  BY AskedNext
<1> QED BY <1>1, <1>2, TeamInvariant, PTL DEF Spec

\* An agent that has had a turn is asked for it again only after every other
\* agent that may do it.
THEOREM RetriesGoRound == Spec => OthersAreAskedFirst
<1> DEFINE A == \A a \in Agents :
                  runs'[a].id # runs[a].id /\ runs'[a].id.turn = runs[a].id.turn =>
                    runs'[a].id.attempt - runs[a].id.attempt >=
                      Cardinality(Agents \ Excluded(session, runs[a].id.turn.stage))
<1>1. TeamInv /\ AskedInv /\ FreshInv /\ [Next]_vars => [A]_vars
  <2> SUFFICES ASSUME TeamInv, AskedInv, FreshInv, Next, NEW a \in Agents,
                      runs'[a].id # runs[a].id, runs'[a].id.turn = runs[a].id.turn
               PROVE  runs'[a].id.attempt - runs[a].id.attempt >=
                        Cardinality(Agents \ Excluded(session, runs[a].id.turn.stage))
    OBVIOUS
  <2>1. StartRun
    <3>1. ~ClaimTurn /\ ~AcceptTeamTask
      BY DEF ClaimTurn, AcceptTeamTask
    <3> QED BY <3>1, OtherSteps
  <2>2. /\ runs \in [Agents -> RunRecord] /\ coord \in CoordRecord /\ coord.pc = "start"
        /\ coord.run.turn = coord.turn /\ coord.run.attempt \in Nat \ {0}
        /\ coord.run.agent = AgentFor(coord.session, coord.turn.stage, coord.run.attempt)
        /\ runs' = [runs EXCEPT ![coord.run.agent] = runs'[coord.run.agent]]
        /\ coord.run.agent \in Agents /\ runs'[coord.run.agent].id = coord.run
    BY <2>1 DEF StartRun, TeamInv, TypeInv, RunsInv, CoordType, CoordRecord, RunIds, LedgerInv,
                HandInv, Claimed
  <2>3. a = coord.run.agent /\ runs'[a].id = coord.run
    BY <2>2
  <2>4. /\ coord.session.accepted = session.accepted /\ Len(session.accepted) \in Nat
        /\ coord.turn.value = Len(session.accepted) + 1
    BY <2>2, ClaimedTurn DEF Claimed
  <2>5. runs[a].id.turn = coord.turn /\ runs[a].id # NoRun
    BY <2>2, <2>3, <2>4 DEF NoRun, Turn
  <2> DEFINE m == runs[a].id.attempt
             n == coord.run.attempt
             stage == coord.turn.stage
  <2>6. m \in Nat \ {0} /\ a = AgentFor(session, stage, m)
    <3>1. m \in Nat
      BY <2>2 DEF RunRecord, RunIds
    <3> QED BY <2>4, <2>5, <3>1 DEF AskedInv
  <2>7. m < n
    BY <2>2, <2>5 DEF FreshInv
  <2>8. a = AgentFor(session, stage, n) /\ n \in Nat
    BY <2>2, <2>3, <2>4, SameWorkers
  <2> HIDE DEF m, n, stage
  <2>9. n - m >= Cardinality(Agents \ Excluded(session, stage))
    BY <2>6, <2>7, <2>8, AgentForIs
  <2> QED BY <2>3, <2>5, <2>9 DEF m, n, stage
<1> QED BY <1>1, AskedInvariant, PTL DEF Spec, OthersAreAskedFirst

-----------------------------------------------------------------------------
(* The review cycle                                                          *)

\* There are as many participants as places in their list.
LEMMA CountAgents == Cardinality(Agents) = Len(Participants) /\ IsFiniteSet(Agents)
<1>1. Len(Participants) \in Nat /\ Participants \in [1..Len(Participants) -> Agents]
  BY TeamAssumption
<1>2. Participants \in Bijection(1..Len(Participants), Agents)
  <2>1. \A i, j \in 1..Len(Participants) : Participants[i] = Participants[j] => i = j
    BY TeamAssumption
  <2>2. \A a \in Agents : \E i \in 1..Len(Participants) : Participants[i] = a
    BY DEF Agents
  <2> QED BY <1>1, <2>1, <2>2, Fun_IsBij
<1>3. IsFiniteSet(1..Len(Participants)) /\ Cardinality(1..Len(Participants)) = Len(Participants)
  BY <1>1, FS_Interval
<1>4. ExistsBijection(1..Len(Participants), Agents)
  BY <1>2, Fun_ExistsBij
<1> QED BY <1>3, <1>4, FS_Bijection

\* Somebody is left when one or two are excluded from enough.
LEMMA SomebodyIsLeft ==
  ASSUME NEW x, NEW y
  PROVE  /\ Cardinality(Agents) >= 2 => Agents \ {x} # {}
         /\ Cardinality(Agents) >= 3 => Agents \ {x, y} # {}
<1>1. ASSUME NEW S, IsFiniteSet(S), Agents \ S = {}
      PROVE  Cardinality(Agents) <= Cardinality(S)
  <2>1. Agents \in SUBSET S
    BY <1>1
  <2> QED BY <1>1, <2>1, FS_Subset
<1>2. IsFiniteSet({x}) /\ Cardinality({x}) = 1
  BY FS_Singleton
<1>3. IsFiniteSet({x, y}) /\ Cardinality({x, y}) <= 2
  <2>1. {x, y} = {x} \cup {y}
    OBVIOUS
  <2> QED BY <1>2, <2>1, FS_AddElement
<1>4. Cardinality(Agents) \in Nat /\ Cardinality({x, y}) \in Nat
  BY <1>3, CountAgents, FS_CardinalityType
<1> QED BY <1>1, <1>2, <1>3, <1>4

\* The worker of a review is not the author; the worker of a repair is not the
\* reviewer, nor, among three, the author.
LEMMA WorkerIsIndependent ==
  ASSUME NEW s, NEW m \in Nat \ {0}
  PROVE  /\ Cardinality(Agents) >= 2 => AgentFor(s, "review", m) # LatestArtifactAgent(s)
         /\ Cardinality(Agents) >= 2 => AgentFor(s, "revise", m) # LatestReviewAgent(s)
         /\ Cardinality(Agents) >= 3 => AgentFor(s, "revise", m) # LatestArtifactAgent(s)
<1>1. Len(Participants) = Cardinality(Agents) /\ Cardinality(Agents) \in Nat
  BY CountAgents, FS_CardinalityType
<1>2. ASSUME NEW stage, Agents \ Excluded(s, stage) # {}
      PROVE  AgentFor(s, stage, m) \notin Excluded(s, stage)
  BY <1>2, AgentForIs
<1>3. ASSUME Cardinality(Agents) >= 2
      PROVE  AgentFor(s, "review", m) # LatestArtifactAgent(s)
  <2>1. Excluded(s, "review") = {LatestArtifactAgent(s)}
    BY DEF Excluded
  <2> QED BY <1>2, <1>3, <2>1, SomebodyIsLeft
<1>4. ASSUME Cardinality(Agents) >= 3
      PROVE  /\ AgentFor(s, "revise", m) # LatestReviewAgent(s)
             /\ AgentFor(s, "revise", m) # LatestArtifactAgent(s)
  <2>1. Excluded(s, "revise") = {LatestReviewAgent(s), LatestArtifactAgent(s)}
    BY <1>1, <1>4 DEF Excluded
  <2> QED BY <1>2, <1>4, <2>1, SomebodyIsLeft
<1>5. ASSUME Cardinality(Agents) >= 2, ~(Cardinality(Agents) >= 3)
      PROVE  AgentFor(s, "revise", m) # LatestReviewAgent(s)
  <2>1. Excluded(s, "revise") = {LatestReviewAgent(s)}
    BY <1>1, <1>5 DEF Excluded
  <2> QED BY <1>2, <1>5, <2>1, SomebodyIsLeft
<1> QED BY <1>3, <1>4, <1>5

\* Who was last in one of the given stages, once it is known which turn was last.
LEMMA LatestIs ==
  ASSUME NEW s, NEW stages, NEW k \in Nat,
         k \in DOMAIN s.accepted, DOMAIN s.accepted \subseteq Nat,
         s.accepted[k].turn.stage \in stages,
         \A j \in DOMAIN s.accepted : s.accepted[j].turn.stage \in stages => j <= k
  PROVE  LatestAgent(s, stages) = s.accepted[k].agent
<1> DEFINE I == {i \in DOMAIN s.accepted : s.accepted[i].turn.stage \in stages}
<1>1. k \in I /\ \A j \in I : j <= k
  OBVIOUS
<1>2. \A i \in I : (\A j \in I : j <= i) => i = k
  BY <1>1
<1>3. (CHOOSE i \in I : \A j \in I : j <= i) = k
  BY <1>1, <1>2
<1>4. I # {}
  BY <1>1
<1> QED BY <1>3, <1>4 DEF LatestAgent

LEMMA LatestOfNone ==
  ASSUME NEW s, NEW stages, \A i \in DOMAIN s.accepted : s.accepted[i].turn.stage \notin stages
  PROVE  LatestAgent(s, stages) = NoAgent
<1>1. {i \in DOMAIN s.accepted : s.accepted[i].turn.stage \in stages} = {}
  OBVIOUS
<1> QED BY <1>1, Zenon DEF LatestAgent

\* A new entry is the latest of its kind and leaves the other kind's latest alone.
LEMMA LatestAfter ==
  ASSUME NEW s \in SessionRecord, Shaped(s), NEW u \in SessionRecord, Shaped(u),
         NEW e \in Entry, u.accepted = Append(s.accepted, e)
  PROVE  /\ e.turn.stage = "review" =>
              LatestReviewAgent(u) = e.agent /\ LatestArtifactAgent(u) = LatestArtifactAgent(s)
         /\ e.turn.stage # "review" =>
              LatestArtifactAgent(u) = e.agent /\ LatestReviewAgent(u) = LatestReviewAgent(s)
<1> DEFINE artifacts == {"draft", "revise"}
           reviews == {"review"}
<1>1. /\ s.accepted \in Seq(Entry) /\ u.accepted \in Seq(Entry) /\ Len(s.accepted) \in Nat
      /\ Len(u.accepted) = Len(s.accepted) + 1
  BY DEF SessionRecord
<1>2. PICK n \in Nat : n = Len(s.accepted)
  BY <1>1
<1>3. /\ DOMAIN s.accepted = 1..n /\ DOMAIN u.accepted = 1..n + 1 /\ u.accepted[n + 1] = e
      /\ \A i \in 1..n : u.accepted[i] = s.accepted[i]
  BY <1>1, <1>2
<1>4. ASSUME NEW i \in 1..n + 1
      PROVE  /\ u.accepted[i].turn.stage \in Stages
             /\ u.accepted[i].turn.stage = "review" <=> (i % 2) = 0
  <2>1. u.accepted[i].turn = NthTurn(i)
    BY <1>1, <1>2 DEF Shaped, EntryFits
  <2>2. i \in Nat \ {0}
    OBVIOUS
  <2> QED BY <2>1, <2>2, NextTurn
<1>5. ASSUME NEW i \in Nat \ {0}, NEW kind \in {artifacts, reviews}, i \in 1..n + 1,
             u.accepted[i].turn.stage \in kind
      PROVE  /\ i = n + 1 => LatestAgent(u, kind) = e.agent
             /\ i = n =>
                  /\ u.accepted[n + 1].turn.stage \notin kind =>
                       LatestAgent(u, kind) = LatestAgent(s, kind)
  <2>1. CASE i = n + 1
    BY <1>3, <1>5, <2>1, LatestIs
  <2>2. CASE i = n /\ u.accepted[n + 1].turn.stage \notin kind
    <3>1. LatestAgent(s, kind) = s.accepted[n].agent
      BY <1>3, <1>5, <2>2, LatestIs
    <3>2. LatestAgent(u, kind) = u.accepted[n].agent
      BY <1>3, <1>5, <2>2, LatestIs
    <3> QED BY <1>3, <1>5, <2>2, <3>1, <3>2
  <2> QED BY <2>1, <2>2
\* The entry before is of the other kind.
<1>6. ASSUME n # 0
      PROVE  u.accepted[n].turn.stage = "review" <=> u.accepted[n + 1].turn.stage # "review"
  <2>1. (n % 2) = 0 <=> ~(((n + 1) % 2) = 0)
    OBVIOUS
  <2>2. n \in 1..n + 1 /\ n + 1 \in 1..n + 1
    BY <1>6
  <2>3. (u.accepted[n].turn.stage = "review" <=> (n % 2) = 0)
        /\ (u.accepted[n + 1].turn.stage = "review" <=> ((n + 1) % 2) = 0)
    BY <1>4, <2>2
  <2> QED BY <2>1, <2>3
<1>7. CASE n = 0
  <2>1. ~(((n + 1) % 2) = 0)
    BY <1>7
  <2>2. e.turn.stage \in artifacts
    BY <1>3, <1>4, <2>1 DEF Stages
  <2>3. LatestArtifactAgent(u) = e.agent
    BY <1>3, <1>5, <2>2 DEF LatestArtifactAgent
  <2>4. LatestReviewAgent(u) = NoAgent /\ LatestReviewAgent(s) = NoAgent
    <3>1. \A i \in DOMAIN u.accepted : u.accepted[i].turn.stage \notin reviews
      BY <1>3, <1>7, <2>2
    <3>2. \A i \in DOMAIN s.accepted : s.accepted[i].turn.stage \notin reviews
      BY <1>3, <1>7
    <3> QED BY <3>1, <3>2, LatestOfNone DEF LatestReviewAgent
  <2> QED BY <2>2, <2>3, <2>4
<1>8. CASE n # 0 /\ e.turn.stage = "review"
  <2>1. LatestReviewAgent(u) = e.agent
    BY <1>3, <1>5, <1>8 DEF LatestReviewAgent
  <2>2. u.accepted[n].turn.stage \in artifacts
    BY <1>3, <1>4, <1>6, <1>8 DEF Stages
  <2>3. LatestArtifactAgent(u) = LatestArtifactAgent(s)
    BY <1>3, <1>5, <1>8, <2>2 DEF LatestArtifactAgent
  <2> QED BY <1>8, <2>1, <2>3
<1>9. CASE n # 0 /\ e.turn.stage # "review"
  <2>1. e.turn.stage \in artifacts
    BY <1>3, <1>4, <1>9 DEF Stages
  <2>2. LatestArtifactAgent(u) = e.agent
    BY <1>3, <1>5, <2>1 DEF LatestArtifactAgent
  <2>3. u.accepted[n].turn.stage \in reviews
    BY <1>3, <1>6, <1>9
  <2>4. LatestReviewAgent(u) = LatestReviewAgent(s)
    BY <1>3, <1>5, <1>9, <2>3 DEF LatestReviewAgent
  <2> QED BY <1>9, <2>2, <2>4
<1> QED BY <1>7, <1>8, <1>9

\* The abstract specification counts the participants as this one does.
LEMMA CycleCounts == ASSUME NEW n PROVE Cycle!AtLeast(n) <=> Cardinality(Agents) >= n
<1>1. Cycle!Cardinality(Agents) = Cardinality(Agents)
  BY DEF Cycle!Cardinality, Cardinality
<1> QED BY <1>1 DEF Cycle!AtLeast

\* What an acceptance is to the cycle.
LEMMA AcceptanceIsCycleStep ==
  ASSUME TeamInv, AcceptTeamTask
  PROVE  Cycle!Next
<1> DEFINE a == coord.run.agent
           m == coord.run.attempt
           stage == coord.turn.stage
           e == [turn |-> coord.turn, agent |-> coord.run.agent,
                 attempt |-> coord.run.attempt, verdict |-> coord.outcome,
                 candidate |-> runs[coord.run.agent].candidate,
                 advice |-> runs[coord.run.agent].advice]
           u == [session EXCEPT !.active = NoRun, !.accepted = Append(@, e)]
<1>1. /\ session \in SessionRecord /\ Shaped(session) /\ session.status = "running"
      /\ coord.turn = ExpectedTurn(session)
      /\ e \in Entry /\ a = AgentFor(session, stage, m) /\ a \in Agents /\ m \in Nat \ {0}
      /\ session' \in SessionRecord /\ Shaped(session')
      /\ session'.accepted = Append(session.accepted, e)
      /\ session' = (IF stage = "review" THEN AppliesReview(u) ELSE SavesArtifact(u))
  BY AcceptWrites
<1>2. e.turn.stage = stage /\ e.agent = a /\ stage = session.stage
  <2>1. ExpectedTurn(session).stage = session.stage
    BY DEF ExpectedTurn, Turn
  <2> QED BY <1>1, <2>1
<1>3. stage \in Stages /\ session.version \in Nat
      /\ (stage = "draft" => session.version = 0) /\ (stage = "review" => session.version # 0)
  <2>1. PICK n \in Nat \ {0} : coord.turn = NthTurn(n)
    BY <1>1, OpenTurn
  <2>2. coord.turn.stage \in Stages /\ (coord.turn.stage = "draft" => coord.turn.revision = 0)
    BY <2>1, NextTurn
  <2>3. coord.turn.stage = "review" => coord.turn.revision # 0
    BY <2>1 DEF NthTurn, Turn
  <2>4. ExpectedTurn(session).revision = session.version
    BY DEF ExpectedTurn, Turn
  <2> QED BY <1>1, <2>2, <2>3, <2>4 DEF SessionRecord
<1>4. u \in SessionRecord /\ u.status = "running" /\ u.version = session.version /\ u.stage = session.stage
  <2>1. Append(session.accepted, e) \in Seq(Entry)
    BY <1>1 DEF SessionRecord
  <2> HIDE DEF e
  <2> QED BY <1>1, <2>1, NoRunIsRunId DEF SessionRecord
<1>5. /\ stage = "review" => /\ LatestReviewAgent(session') = a
                             /\ LatestArtifactAgent(session') = LatestArtifactAgent(session)
      /\ stage # "review" => /\ LatestArtifactAgent(session') = a
                             /\ LatestReviewAgent(session') = LatestReviewAgent(session)
  <2> HIDE DEF e
  <2> QED BY <1>1, <1>2, LatestAfter
<1> HIDE DEF u, e, a, m, stage
<1>6. CASE stage = "draft"
  <2>1. session' = SavesArtifact(u)
    BY <1>1, <1>6
  <2>2. session'.version = 1 /\ session'.stage = "review" /\ session'.status = "running"
    BY <1>4, <1>6, <2>1 DEF SavesArtifact, SessionRecord, stage
  <2>3. Cycle!Draft(a)
    BY <1>1, <1>2, <1>5, <1>6, <2>2 DEF Cycle!Draft
  <2> QED BY <1>1, <2>3 DEF Cycle!Next
<1>7. CASE stage = "revise"
  <2>1. session' = SavesArtifact(u)
    BY <1>1, <1>7
  <2>2. /\ session'.version = session.version + 1 /\ session'.stage = "review"
        /\ session'.status = "running"
    BY <1>4, <1>7, <2>1 DEF SavesArtifact, SessionRecord, stage
  <2>3. /\ Cardinality(Agents) >= 2 => a # LatestReviewAgent(session)
        /\ Cardinality(Agents) >= 3 => a # LatestArtifactAgent(session)
    BY <1>1, <1>7, WorkerIsIndependent
  <2>4. (Cycle!AtLeast(2) => a # LatestReviewAgent(session))
        /\ (Cycle!AtLeast(3) => a # LatestArtifactAgent(session))
    BY <2>3, CycleCounts
  <2>5. Cycle!Revise(a)
    BY <1>1, <1>2, <1>5, <1>7, <2>2, <2>4 DEF Cycle!Revise
  <2> QED BY <1>1, <2>5 DEF Cycle!Next
<1>8. CASE stage = "review"
  <2>1. session' = AppliesReview(u)
    BY <1>1, <1>8
  <2>2. /\ session'.version = session.version
        /\ \/ session'.status = "completed" /\ session'.stage = "none"
           \/ session.version <= MaxRevisions /\ session'.stage = "revise" /\ session'.status = "running"
           \/ /\ session.version > MaxRevisions /\ session'.status = "failed"
              /\ session'.stage = session.stage
    BY <1>3, <1>4, <1>8, <2>1, TeamAssumption DEF AppliesReview, SessionRecord
  <2>3. Cardinality(Agents) >= 2 => a # LatestArtifactAgent(session)
    BY <1>1, <1>8, WorkerIsIndependent
  <2>4. Cycle!AtLeast(2) => a # LatestArtifactAgent(session)
    BY <2>3, CycleCounts
  <2>5. Cycle!Review(a)
    BY <1>1, <1>2, <1>5, <1>8, <2>2, <2>4 DEF Cycle!Review
  <2> QED BY <1>1, <2>5 DEF Cycle!Next
<1> QED BY <1>3, <1>6, <1>7, <1>8 DEF Stages

\* Every other step ends the task, as failed or cancelled, or does not concern it.
LEMMA OtherIsCycleStep ==
  ASSUME Follows(session', session)
  PROVE  [Cycle!Next]_(Cycle!cycleVars)
<1>1. /\ session'.stage = session.stage /\ session'.version = session.version
      /\ LatestArtifactAgent(session') = LatestArtifactAgent(session)
      /\ LatestReviewAgent(session') = LatestReviewAgent(session)
  BY DEF Follows, Alike, LatestArtifactAgent, LatestReviewAgent, LatestAgent
<1>2. CASE session'.status = session.status
  BY <1>1, <1>2 DEF Cycle!cycleVars
<1>3. CASE session.status = "running" /\ session'.status \in {"failed", "cancelled"}
  <2>1. Cycle!End
    BY <1>1, <1>3 DEF Cycle!End
  <2> QED BY <2>1 DEF Cycle!Next
<1> QED BY <1>2, <1>3 DEF Follows

\* The stored session goes through the review cycle: whatever is retried, lost,
\* sent twice or cut short, a version is reviewed by somebody else than its
\* author, and repaired by somebody else than its reviewer.
THEOREM FollowsCycle == Spec => CycleSpec
<1>1. Init => Cycle!Init
  <2>1. LatestArtifactAgent(NewSession) = NoAgent /\ LatestReviewAgent(NewSession) = NoAgent
    BY DEF NewSession, LatestArtifactAgent, LatestReviewAgent, LatestAgent
  <2> QED BY <2>1 DEF Init, Cycle!Init, NewSession
<1>2. TeamInv /\ [Next]_vars => [Cycle!Next]_(Cycle!cycleVars)
  BY OnlyAcceptanceAdds, AcceptanceIsCycleStep, OtherIsCycleStep
<1> QED BY <1>1, <1>2, TeamInvariant, PTL DEF Spec, CycleSpec, Cycle!Spec

Promise == INSTANCE ReviewCycleProofs WITH
  status   <- session.status,
  stage    <- session.stage,
  version  <- session.version,
  author   <- LatestArtifactAgent(session),
  reviewer <- LatestReviewAgent(session)

\* A completed team task delivers a version that, as soon as there are two
\* participants, somebody other than its author has passed, within the repairs
\* allowed.
THEOREM TeamDeliversIndependently == Spec => []Cycle!DeliveredIndependently
<1>1. MaxRevisions \in Nat
  BY TeamAssumption
<1>2. Promise!Spec => []Promise!DeliveredIndependently
  BY <1>1, Promise!IndependentDelivery
<1>3. ASSUME NEW n
      PROVE  Promise!AtLeast(n) <=> Cycle!AtLeast(n)
  <2>1. Promise!Cardinality(Agents) = Cardinality(Agents)
    BY DEF Promise!Cardinality, Cardinality
  <2> QED BY <2>1, CycleCounts DEF Promise!AtLeast
<1>4. Cycle!Init => Promise!Init
  BY DEF Cycle!Init, Promise!Init
<1>5. [Cycle!Next]_(Cycle!cycleVars) => [Promise!Next]_(Promise!cycleVars)
  BY <1>3 DEF Cycle!Next, Promise!Next, Cycle!Draft, Promise!Draft, Cycle!Review, Promise!Review,
              Cycle!Revise, Promise!Revise, Cycle!End, Promise!End,
              Cycle!cycleVars, Promise!cycleVars
<1>6. CycleSpec => Promise!Spec
  BY <1>4, <1>5, PTL DEF CycleSpec, Cycle!Spec, Promise!Spec
<1>7. Promise!DeliveredIndependently <=> Cycle!DeliveredIndependently
  BY <1>3 DEF Promise!DeliveredIndependently, Cycle!DeliveredIndependently
<1> QED BY <1>2, <1>6, <1>7, FollowsCycle, PTL
=============================================================================
