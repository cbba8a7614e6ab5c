------------------------------- MODULE TeamTask -------------------------------
(***************************************************************************)
(* The team-task protocol of RelayCoordinator                              *)
(* (apps/server/src/relay-coordinator.ts: processTeamTaskDelivery,         *)
(* acceptTeamTask, parseReview): one session whose deliverable is drafted, *)
(* reviewed and repaired by the participants in turn.                      *)
(*                                                                         *)
(* The durable machinery is that of RelayCoordinator.tla, which studies    *)
(* the mailbox, the lost writes and the operator requests step by step.    *)
(* Here a request of an operator is one atomic change of the stored        *)
(* session (it retries its compare-and-set until one succeeds), and the    *)
(* mailbox is the set of turns not yet acknowledged.  Every write of the   *)
(* coordinator is still a compare-and-set on the revision it has read.     *)
(***************************************************************************)
EXTENDS Naturals, Sequences, FiniteSets

CONSTANTS
  Participants,   \* participantAgentIds, without duplicates
  NoAgent,
  NumCriteria,    \* successCriteria.length
  MaxAttempts,    \* RelaySession.maxAttempts
  MaxRevisions,   \* RelaySession.maxRevisions
  MaxTrouble      \* bound: operator requests, crashes, rejected calls and second copies
                  \* of a message, together

Agents == {Participants[i] : i \in 1..Len(Participants)}

ASSUME TeamAssumption ==
  /\ Participants \in Seq(Agents) /\ Len(Participants) > 0
  /\ \A i, j \in 1..Len(Participants) : Participants[i] = Participants[j] => i = j
  /\ NoAgent \notin Agents
  /\ NumCriteria \in Nat \ {0} /\ MaxAttempts \in Nat \ {0} /\ MaxRevisions \in Nat
  /\ MaxTrouble \in Nat

VARIABLES
  revision,   \* revision of the session's KV entry
  session,    \* the session stored there
  mailbox,    \* turns with a message that is neither acknowledged nor terminated
  published,  \* turn ids the stream has already seen
  coord,      \* the coordinator loop: step, delivery, run and its session copy
  runs,       \* the last run of each participant
  interrupting, \* interruptActiveRun: the runs whose interruption is in progress
  trouble     \* how much bounded trouble has happened

store == <<revision, session>>
vars == <<revision, session, mailbox, published, coord, runs, interrupting, trouble>>

-----------------------------------------------------------------------------
(* Turns, runs and the session                                             *)

Stages == {"draft", "review", "revise"}
Turn(value, stage, version) == [value |-> value, stage |-> stage, revision |-> version]
Turns == [value : Nat, stage : Stages \cup {"none"}, revision : Nat]

\* makeExpectedTurn: the turn's id holds value, stage and version.
ExpectedTurn(s) == Turn(s.value, s.stage, s.version)

RunIds == [turn : Turns, attempt : Nat, agent : Agents \cup {NoAgent}]
NoRun == [turn |-> Turn(0, "none", 0), attempt |-> 0, agent |-> NoAgent]

NewSession ==
  [status |-> "running", stage |-> "draft", value |-> 1, version |-> 0, feedback |-> 0,
   attempts |-> << >>, active |-> NoRun, accepted |-> << >>,
   requested |-> {}, disconnected |-> {}]

NoAnswer == [usable |-> FALSE]
UnusedRun == [id |-> NoRun, status |-> "unused", answer |-> NoAnswer, candidate |-> 0, advice |-> 0]

Idle == [pc |-> "idle", turn |-> NoRun.turn, run |-> NoRun, outcome |-> "none",
         revision |-> 0, session |-> NewSession]

\* createSession stores the session and publishes its first turn.
Init ==
  /\ revision = 1
  /\ session = NewSession
  /\ mailbox = {ExpectedTurn(NewSession)}
  /\ published = {ExpectedTurn(NewSession)}
  /\ coord = Idle
  /\ runs = [a \in Agents |-> UnusedRun]
  /\ interrupting = {}
  /\ trouble = 0

AcceptedTurns(s) == {s.accepted[i].turn : i \in DOMAIN s.accepted}

\* attemptsByValue[key] ?? 0; the key holds the same as the turn's id.
Attempts(s, t) == IF t \in DOMAIN s.attempts THEN s.attempts[t] ELSE 0
Counted(s, t) ==
  [s EXCEPT !.attempts = [u \in DOMAIN @ \cup {t} |-> Attempts(s, u) + (IF u = t THEN 1 ELSE 0)]]

\* publishTurn: the stream drops an id it has seen within its duplicate window.
Publish(t) ==
  /\ mailbox' = IF t \in published THEN mailbox ELSE mailbox \cup {t}
  /\ published' = published \cup {t}

Wins == coord.revision = revision
Save(s) == revision' = revision + 1 /\ session' = s
Commit(s, step) ==
  /\ Wins
  /\ Save(s)
  /\ coord' = [coord EXCEPT !.pc = step, !.revision = revision + 1, !.session = s]
Goto(step) == coord' = [coord EXCEPT !.pc = step]
Trouble == trouble < MaxTrouble /\ trouble' = trouble + 1

-----------------------------------------------------------------------------
(* Who works on a turn                                                     *)

\* The agent of the last accepted turn in one of the given stages.
LatestAgent(s, stages) ==
  LET I == {i \in DOMAIN s.accepted : s.accepted[i].turn.stage \in stages}
  IN  IF I = {} THEN NoAgent ELSE s.accepted[CHOOSE i \in I : \A j \in I : j <= i].agent
LatestArtifactAgent(s) == LatestAgent(s, {"draft", "revise"})
LatestReviewAgent(s) == LatestAgent(s, {"review"})

\* Mutant of Excluded: the author may repair, however many participants there are.
MutantExcluded(s, stage) ==
  IF stage = "review" THEN {LatestArtifactAgent(s)}
  ELSE IF stage = "revise" THEN {LatestReviewAgent(s)} ELSE {}

Excluded(s, stage) ==
  IF stage = "review" THEN {LatestArtifactAgent(s)}
  ELSE IF stage = "revise"
  THEN {LatestReviewAgent(s)} \cup
       (IF Len(Participants) >= 3 THEN {LatestArtifactAgent(s)} ELSE {})
  ELSE {}

Reference(s, stage) ==
  IF stage = "review" THEN LatestArtifactAgent(s)
  ELSE IF stage = "revise" THEN LatestReviewAgent(s) ELSE NoAgent

\* The participants in order, beginning after the reference agent.
Rotated(s, stage) ==
  LET N == Len(Participants)
      start == IF \E i \in 1..N : Participants[i] = Reference(s, stage)
               THEN CHOOSE i \in 1..N : Participants[i] = Reference(s, stage)
               ELSE 0
  IN  [k \in 1..N |-> Participants[((start + k - 1) % N) + 1]]

\* The n-th smallest number in a set.
Nth(S, n) == CHOOSE k \in S : Cardinality({j \in S : j <= k}) = n

\* The eligible ones in the rotated order; if nobody is, everybody is a candidate.
Candidates(s, stage) ==
  LET eligible == {k \in 1..Len(Participants) : Rotated(s, stage)[k] \notin Excluded(s, stage)}
  IN  IF eligible = {} THEN Participants
      ELSE [n \in 1..Cardinality(eligible) |-> Rotated(s, stage)[Nth(eligible, n)]]

\* Mutant of AgentFor: a retry goes to the agent that has just failed.
MutantAgentFor(s, stage, attempt) == Candidates(s, stage)[1]

AgentFor(s, stage, attempt) ==
  LET c == Candidates(s, stage) IN c[((attempt - 1) % Len(c)) + 1]

-----------------------------------------------------------------------------
(* What the runs return                                                    *)

Checks == {"passed", "failed", "invalid"}   \* invalid: no boolean, or no evidence

\* A deliverable is usable from ten characters on.  A review is a verdict and a
\* list of checks, as long as the criteria or not; "other" is any other verdict
\* or no JSON at all.
Answers(stage) ==
  IF stage = "review"
  THEN [verdict : {"PASS", "REVISE", "other"},
        checks : [1..NumCriteria -> Checks] \cup {<< >>}]
  ELSE [usable : BOOLEAN]

AllPassed(checks) == \A i \in DOMAIN checks : checks[i] = "passed"

\* Mutant of ParseReview: the reviewer's verdict is believed.
MutantParseReview(answer) ==
  IF answer.verdict = "other" \/ Len(answer.checks) # NumCriteria
     \/ \E i \in DOMAIN answer.checks : answer.checks[i] = "invalid"
  THEN "malformed" ELSE answer.verdict

\* parseReview: one valid check per criterion, and a PASS needs all of them.
ParseReview(answer) ==
  IF answer.verdict = "other" \/ Len(answer.checks) # NumCriteria
     \/ \E i \in DOMAIN answer.checks : answer.checks[i] = "invalid"
  THEN "malformed"
  ELSE IF answer.verdict = "PASS" /\ AllPassed(answer.checks) THEN "PASS" ELSE "REVISE"

\* What the answer is worth to the turn: rejected answers are retried.
Judgement(stage, answer) ==
  IF stage = "review" THEN ParseReview(answer)
  ELSE IF answer.usable THEN "saved" ELSE "malformed"

-----------------------------------------------------------------------------
(* The coordinator: processNext, processDelivery, processTeamTaskDelivery  *)

\* Mutant of Decision: attempts are unlimited.
MutantDecision(t) ==
  IF session.status # "running" THEN "settle"
  ELSE IF t \in AcceptedTurns(session) THEN "suppress"
  ELSE IF t.value # session.value \/ t.stage # session.stage THEN "fail" ELSE "claim"

Decision(t) ==
  IF session.status # "running" THEN "settle"
  ELSE IF t \in AcceptedTurns(session) THEN "suppress"
  ELSE IF t.value # session.value \/ t.stage # session.stage THEN "fail"
  ELSE IF Attempts(session, t) + 1 > MaxAttempts THEN "fail"
  ELSE "claim"

\* What became of a run that nobody waits for any more is not kept.
Forgotten(r) ==
  IF r.status \in {"unused", "active"} THEN r ELSE [UnusedRun EXCEPT !.id = r.id, !.status = "over"]

\* nextTurn, getSession and what to do with the delivery.
Receive(t) ==
  /\ coord.pc = "idle"
  /\ t \in mailbox
  /\ coord' = [Idle EXCEPT !.pc = Decision(t), !.turn = t, !.revision = revision, !.session = session]
  /\ runs' = [a \in Agents |-> Forgotten(runs[a])]
  /\ UNCHANGED <<store, mailbox, published, interrupting, trouble>>

\* Mutant of SuppressDuplicate: the expected turn is not published again.
MutantSuppress ==
  /\ coord.pc = "suppress"
  /\ Commit(coord.session, "settle")
  /\ UNCHANGED <<mailbox, published, runs, interrupting, trouble>>

\* suppressDuplicate: only an event is written, the expected turn is published again.
SuppressDuplicate ==
  /\ coord.pc = "suppress"
  /\ Commit(coord.session, "publish")
  /\ UNCHANGED <<mailbox, published, runs, interrupting, trouble>>

\* The attempt is counted before any agent starts; it decides which one.
ClaimTurn ==
  LET s == Counted(coord.session, coord.turn)
      attempt == Attempts(s, coord.turn)
      id == [turn |-> coord.turn, attempt |-> attempt,
             agent |-> AgentFor(coord.session, coord.turn.stage, attempt)]
  IN
  /\ coord.pc = "claim"
  /\ Wins /\ Save(s)
  /\ coord' = [coord EXCEPT !.pc = "start", !.run = id, !.revision = revision + 1, !.session = s]
  /\ UNCHANGED <<mailbox, published, runs, interrupting, trouble>>

\* Mutant of Prompt: a repair worker is shown the candidate only.
MutantPrompt(s, stage) ==
  [candidate |-> IF stage = "draft" THEN 0 ELSE s.version, advice |-> 0]

\* teamTaskPrompt: the version of the candidate shown, and the version that the
\* review feedback shown is about.
Prompt(s, stage) ==
  [candidate |-> IF stage = "draft" THEN 0 ELSE s.version,
   advice |-> IF stage = "revise" THEN s.feedback ELSE 0]

\* sendMessage: the agent works in its own workspace on the claimed copy's prompt.
StartRun ==
  LET a == coord.run.agent
      prompt == Prompt(coord.session, coord.turn.stage) IN
  /\ coord.pc = "start"
  /\ runs[a].status # "active"
  /\ runs' = [runs EXCEPT ![a] = [id |-> coord.run, status |-> "active", answer |-> NoAnswer,
                                  candidate |-> prompt.candidate, advice |-> prompt.advice]]
  /\ Goto("record")
  /\ UNCHANGED <<store, mailbox, published, interrupting, trouble>>

\* retryOrFail's choice: the last attempt fails the session.
GiveUp(s) == IF coord.run.attempt >= MaxAttempts THEN "fail" ELSE "retry"

\* The agent is busy with somebody else's message, stopped or not configured.
StartRejected ==
  /\ coord.pc = "start"
  /\ Goto(GiveUp(coord.session))
  /\ UNCHANGED <<store, mailbox, published, runs, interrupting, trouble>>

RecordRun ==
  /\ coord.pc = "record"
  /\ Commit([coord.session EXCEPT !.active = coord.run], "wait")
  /\ UNCHANGED <<mailbox, published, runs, interrupting, trouble>>

CancelRun(id) ==
  runs' = IF id.agent \in Agents /\ runs[id.agent].id = id /\ runs[id.agent].status = "active"
          THEN [runs EXCEPT ![id.agent].status = "cancelled"] ELSE runs

\* The loser cancels its run if an operator stopped the session, and throws
\* otherwise: the message is delivered again.
RecordLost ==
  /\ coord.pc = "record"
  /\ ~Wins
  /\ IF session.status = "cancelled"
     THEN CancelRun(coord.run) /\ Goto("settle")
     ELSE coord' = Idle /\ UNCHANGED runs
  /\ UNCHANGED <<store, mailbox, published, interrupting, trouble>>

\* waitForRun: the run has ended ...
WaitForRun ==
  LET r == runs[coord.run.agent] IN
  /\ coord.pc = "wait"
  /\ r.status # "active"
  /\ coord' = [coord EXCEPT !.pc = "reread",
                 !.outcome = IF r.status = "completed" THEN "completed" ELSE "failed"]
  /\ UNCHANGED <<store, mailbox, published, runs, interrupting, trouble>>

\* ... or the deadline has passed: the run is cancelled, or left running if the
\* cancellation is rejected.
TimeOut ==
  /\ coord.pc = "wait"
  /\ coord' = [coord EXCEPT !.pc = "reread", !.outcome = "failed"]
  /\ \/ CancelRun(coord.run) /\ UNCHANGED trouble
     \/ Trouble /\ UNCHANGED runs
  /\ UNCHANGED <<store, mailbox, published, interrupting>>

Interrupted == coord.run \in session.requested \cup session.disconnected

\* The session is read again: it has ended, or somebody else has written it, or
\* the answer is judged.
Reread ==
  /\ coord.pc = "reread"
  /\ coord' =
       IF session.status # "running" THEN [coord EXCEPT !.pc = "settle"]
       ELSE IF ~Wins
       THEN IF coord.outcome # "completed" /\ Interrupted
            THEN [coord EXCEPT !.pc = GiveUp(session), !.revision = revision, !.session = session]
            ELSE Idle
       ELSE IF coord.outcome # "completed" THEN [coord EXCEPT !.pc = GiveUp(coord.session)]
       ELSE LET verdict == Judgement(coord.turn.stage, runs[coord.run.agent].answer) IN
            [coord EXCEPT !.outcome = verdict,
                          !.pc = IF verdict = "malformed" THEN GiveUp(coord.session) ELSE "accept"]
  /\ UNCHANGED <<store, mailbox, published, runs, interrupting, trouble>>

\* acceptTeamTask, for a draft or a repair: the next version awaits its review.
SavesArtifact(s) ==
  [s EXCEPT !.version = IF coord.turn.stage = "draft" THEN 1 ELSE @ + 1,
            !.feedback = 0, !.value = coord.turn.value + 1, !.stage = "review"]

\* acceptTeamTask, for a review: passed, repaired, or out of repairs.
AppliesReview(s) ==
  IF coord.outcome = "PASS"
  THEN [s EXCEPT !.feedback = s.version, !.status = "completed", !.stage = "none"]
  ELSE IF s.version - 1 >= MaxRevisions
  THEN [s EXCEPT !.feedback = s.version, !.status = "failed"]
  ELSE [s EXCEPT !.feedback = s.version, !.value = coord.turn.value + 1, !.stage = "revise"]

AcceptTeamTask ==
  LET r == runs[coord.run.agent]
      s == [coord.session EXCEPT !.active = NoRun,
              !.accepted = Append(@, [turn |-> coord.turn, agent |-> coord.run.agent,
                                      attempt |-> coord.run.attempt, verdict |-> coord.outcome,
                                      candidate |-> r.candidate, advice |-> r.advice])]
      next == IF coord.turn.stage = "review" THEN AppliesReview(s) ELSE SavesArtifact(s)
  IN
  /\ coord.pc = "accept"
  /\ Commit(next, IF next.status = "running" THEN "publish" ELSE "settle")
  /\ UNCHANGED <<mailbox, published, runs, interrupting, trouble>>

\* The expected turn of the coordinator's copy is published.
PublishExpected ==
  /\ coord.pc = "publish"
  /\ Publish(ExpectedTurn(coord.session))
  /\ coord' = IF coord.turn = NoRun.turn THEN Idle ELSE [coord EXCEPT !.pc = "settle"]
  /\ UNCHANGED <<store, runs, interrupting, trouble>>

\* The delivery is acknowledged, or terminated after failSession.
Settle ==
  /\ coord.pc = "settle"
  /\ mailbox' = mailbox \ {coord.turn}
  /\ coord' = Idle
  /\ UNCHANGED <<store, published, runs, interrupting, trouble>>

\* retryOrFail: the message stays in the mailbox.
RetryTurn ==
  /\ coord.pc = "retry"
  /\ Wins /\ Save([coord.session EXCEPT !.active = NoRun])
  /\ coord' = Idle
  /\ UNCHANGED <<mailbox, published, runs, interrupting, trouble>>

FailSession ==
  /\ coord.pc = "fail"
  /\ Commit([coord.session EXCEPT !.active = NoRun, !.status = "failed"], "settle")
  /\ UNCHANGED <<mailbox, published, runs, interrupting, trouble>>

CasSteps == {"suppress", "claim", "accept", "retry", "fail"}
ThrowingSteps == CasSteps \cup {"start", "record", "wait", "reread", "publish", "settle"}

\* Any other compare-and-set that is lost is thrown to the loop.
LoseRace ==
  /\ coord.pc \in CasSteps
  /\ ~Wins
  /\ coord' = Idle
  /\ UNCHANGED <<store, mailbox, published, runs, interrupting, trouble>>

\* So is a bus call that rejects: a read, a write, publishEvents after a commit or
\* publishTurn.  The delivery is not acknowledged, and its run goes on.
DeliveryThrows ==
  /\ coord.pc \in ThrowingSteps /\ coord.turn # NoRun.turn
  /\ Trouble
  /\ coord' = Idle
  /\ UNCHANGED <<store, mailbox, published, runs, interrupting>>

-----------------------------------------------------------------------------
(* Agents, operators, the stream and the server process                    *)

RunEnds(a) ==
  /\ runs[a].status = "active"
  /\ \/ \E answer \in Answers(runs[a].id.turn.stage) :
          runs' = [runs EXCEPT ![a].status = "completed", ![a].answer = answer]
     \/ \E how \in {"failed", "cancelled"} : runs' = [runs EXCEPT ![a].status = how]
  /\ UNCHANGED <<store, mailbox, published, coord, interrupting, trouble>>

Operates == coord.pc # "recovering" /\ Trouble

\* cancelSession: the terminal state first, then the run, then its record.
CancelSession ==
  /\ Operates
  /\ session.status = "running"
  /\ Save([session EXCEPT !.status = "cancelled"])
  /\ UNCHANGED <<mailbox, published, coord, runs, interrupting>>

CancelRecordedRun ==
  /\ session.status = "cancelled" /\ session.active # NoRun
  /\ CancelRun(session.active)
  /\ Save([session EXCEPT !.active = NoRun])
  /\ UNCHANGED <<mailbox, published, coord, interrupting, trouble>>

\* interruptActiveRun: the request, the cancelled run, the final status.
RequestInterruption ==
  /\ Operates
  /\ session.status = "running"
  /\ session.active # NoRun
  /\ session.active \notin session.requested \cup session.disconnected
  /\ Save([session EXCEPT !.requested = @ \cup {session.active}])
  /\ interrupting' = interrupting \cup {session.active}
  /\ UNCHANGED <<mailbox, published, coord, runs>>

\* An interruption that came too late is stored as failed and no longer counts.
FinalizeInterruption(id) ==
  /\ interrupting' = interrupting \ {id}
  /\ LET late == [session EXCEPT !.requested = @ \ {id}] IN
     \/ /\ runs[id.agent].id = id => runs[id.agent].status \in {"cancelled", "over"}
        /\ Save([late EXCEPT !.disconnected = @ \cup {id}])
     \/ /\ runs[id.agent].id = id => runs[id.agent].status \in {"completed", "failed", "over"}
        /\ Save(late)
  /\ UNCHANGED <<mailbox, published, coord, runs, trouble>>

\* An acknowledgement is lost, or a turn was published again after its id had
\* left the duplicate window.
SecondCopy(t) ==
  /\ Trouble
  /\ t \in published \ mailbox
  /\ mailbox' = mailbox \cup {t}
  /\ UNCHANGED <<store, published, coord, runs, interrupting>>

\* The process dies; AgentService.initialize cancels what was running.
Crash ==
  /\ Trouble
  /\ coord' = [Idle EXCEPT !.pc = "recovering"]
  /\ interrupting' = {}
  /\ runs' = [a \in Agents |->
       [runs[a] EXCEPT !.status = IF @ = "active" THEN "cancelled" ELSE @]]
  /\ UNCHANGED <<store, mailbox, published>>

\* recoverPendingSessions: a running session's expected turn is published again.
RecoverSession ==
  LET s == [session EXCEPT !.active = NoRun] IN
  /\ coord.pc = "recovering"
  /\ IF session.status = "running"
     THEN /\ Save(s)
          /\ coord' = [coord EXCEPT !.pc = "publish", !.revision = revision + 1, !.session = s]
     ELSE coord' = Idle /\ UNCHANGED store
  /\ UNCHANGED <<mailbox, published, runs, interrupting, trouble>>

CoordinatorStep ==
  \/ \E t \in mailbox : Receive(t)
  \/ SuppressDuplicate \/ ClaimTurn \/ StartRun \/ StartRejected
  \/ RecordRun \/ RecordLost \/ WaitForRun \/ TimeOut \/ Reread
  \/ AcceptTeamTask \/ PublishExpected \/ Settle \/ RetryTurn \/ FailSession \/ LoseRace
  \/ RecoverSession

Environment ==
  \/ \E a \in Agents : RunEnds(a)
  \/ CancelSession \/ CancelRecordedRun \/ RequestInterruption
  \/ (\E id \in interrupting : FinalizeInterruption(id))
  \/ (\E t \in published : SecondCopy(t))
  \/ DeliveryThrows \/ Crash

Next == CoordinatorStep \/ Environment

Spec == Init /\ [][Next]_vars

\* The loop always takes its next step, and the stream delivers again what is
\* not acknowledged.  Runs need not end: their deadline does.
FairSpec == Spec /\ WF_vars(CoordinatorStep)

-----------------------------------------------------------------------------
(* Properties                                                              *)

Steps == {"idle", "suppress", "claim", "start", "record", "wait", "reread", "accept", "publish",
          "settle", "retry", "fail", "recovering"}
Verdicts == {"saved", "PASS", "REVISE"}

Entry == [turn : Turns, agent : Agents, attempt : Nat, verdict : Verdicts, candidate : Nat, advice : Nat]

SessionOK(s) ==
  /\ s.status \in {"running", "completed", "failed", "cancelled"}
  /\ s.stage \in Stages \cup {"none"}
  /\ s.value \in Nat /\ s.version \in Nat /\ s.feedback \in Nat
  /\ DOMAIN s.attempts \subseteq Turns
  /\ \A t \in DOMAIN s.attempts : s.attempts[t] \in 1..MaxAttempts
  /\ s.active \in RunIds /\ s.requested \subseteq RunIds /\ s.disconnected \subseteq RunIds
  /\ s.accepted \in Seq(Entry)

TypeOK ==
  /\ revision \in Nat \ {0} /\ coord.revision \in 0..revision
  /\ SessionOK(session) /\ SessionOK(coord.session)
  /\ mailbox \subseteq published /\ published \subseteq Turns
  /\ coord.pc \in Steps /\ coord.turn \in Turns /\ coord.run \in RunIds
  /\ coord.outcome \in {"none", "completed", "failed", "malformed"} \cup Verdicts
  /\ \A a \in Agents :
       /\ runs[a].id \in RunIds
       /\ runs[a].status \in {"unused", "active", "completed", "failed", "cancelled", "over"}
       /\ runs[a].candidate \in Nat /\ runs[a].advice \in Nat
  /\ interrupting \subseteq RunIds
  /\ trouble \in 0..MaxTrouble

\* The i-th turn of any team task: a draft, then reviews and repairs by turns,
\* each about the version that the turns before it have produced.
NthTurn(i) ==
  Turn(i, IF i = 1 THEN "draft" ELSE IF i % 2 = 0 THEN "review" ELSE "revise", i \div 2)

\* The ledger is a draft, reviews and repairs by turns: no turn is settled twice
\* or out of order through retries, restarts and second copies.  Whoever settled
\* a turn was shown the version it counts for, and a repair the feedback on that
\* very version.  Every review but the last asked for changes, and the task is
\* completed exactly when the last one passed.
LedgerShape ==
  /\ \A i \in DOMAIN session.accepted :
       LET e == session.accepted[i] IN
       /\ e.turn = NthTurn(i)
       /\ e.candidate = e.turn.revision
       /\ e.advice = IF e.turn.stage = "revise" THEN e.turn.revision ELSE 0
       /\ e.verdict = "saved" <=> e.turn.stage # "review"
       /\ e.verdict = "PASS" <=> session.status = "completed" /\ i = Len(session.accepted)
  /\ session.status = "completed" => session.accepted # << >> /\ Len(session.accepted) % 2 = 0
  /\ session.status = "running" =>
       /\ ExpectedTurn(session) = NthTurn(Len(session.accepted) + 1)
       /\ mailbox \subseteq AcceptedTurns(session) \cup {ExpectedTurn(session)}

\* A task is completed by a review that passed every criterion, whatever verdict
\* the reviewer wrote above its checks.
PassIsUnanimous ==
  [][session.status = "running" /\ session'.status = "completed" =>
       LET answer == runs[coord.run.agent].answer IN
       /\ answer.verdict = "PASS" /\ Len(answer.checks) = NumCriteria
       /\ AllPassed(answer.checks)]_vars

\* An agent that has had a turn is asked for it again only after every other
\* agent that may do it has been asked.
OthersAreAskedFirst ==
  [][\A a \in Agents :
       runs'[a].id # runs[a].id /\ runs'[a].id.turn = runs[a].id.turn =>
         runs'[a].id.attempt - runs[a].id.attempt >=
           Cardinality(Agents \ Excluded(session, runs[a].id.turn.stage))]_vars

\* Every team task ends: it passes, runs out of repairs or attempts, or is
\* cancelled.
Resolves == <>(session.status # "running")

\* Refinement: the stored session goes through the promised cycle.
Cycle == INSTANCE ReviewCycle WITH
  status   <- session.status,
  stage    <- session.stage,
  version  <- session.version,
  author   <- LatestArtifactAgent(session),
  reviewer <- LatestReviewAgent(session)

CycleSpec == Cycle!Spec
=============================================================================
