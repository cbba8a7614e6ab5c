--------------------------- MODULE RelayCoordinator ---------------------------
(***************************************************************************)
(* One durable relay session driven by RelayCoordinator                    *)
(* (apps/server/src/relay-coordinator.ts) for the two sequential           *)
(* protocols: the checkpoint workflow, whose runs work in a private copy   *)
(* of the shared workspace, and the countdown / ordered sequence, whose    *)
(* runs rotate over the participants and touch no workspace.               *)
(*                                                                         *)
(* Actors: the single coordinator loop (processNext), any number of        *)
(* operator requests (cancelSession, interruptActiveRun), the agent runs   *)
(* themselves, the JetStream mailbox and KV bucket they share, and a       *)
(* server process that may crash and restart.  An action is the code       *)
(* between two awaits that other actors can observe; every action that     *)
(* writes the session is a compare-and-set on the revision the actor read. *)
(*                                                                         *)
(* Turn i of the model is checkpoint i, or the value initialValue - i + 1  *)
(* of a countdown.  Event texts, hashes and timestamps are left out; the   *)
(* events the code itself reads back are kept as cancelNoted.              *)
(***************************************************************************)
EXTENDS Naturals, Sequences, FiniteSets

CONSTANTS
  TaskType,        \* "checkpoint-workflow" or "countdown"
  FaultDrill,      \* faultMode = "fail-first-claim"
  NumTurns,        \* RelaySession.initialValue
  MaxAttempts,     \* RelaySession.maxAttempts
  Participants,    \* participantAgentIds (the assigned agents, in order)
  MaxRuns,         \* run identifiers available
  MaxDeliver,      \* max_deliver of the durable consumer
  Stoppers,        \* cancelSession requests
  Interrupters,    \* interruptActiveRun requests
  Coordinator,     \* the coordinator, as a caller of cancelRunAfterSessionStop
  StopTries,       \* compare-and-set attempts of cancelSession (5)
  InterruptTries,  \* compare-and-set attempts of an interruption (8)
  MaxCrashes,      \* bound: crashes of the server process
  MaxFaults,       \* bound: calls that reject (NATS or disk)
  MaxExpiries      \* bound: turn ids that leave the duplicate window

Turns  == 1..NumTurns
Runs   == 1..MaxRuns
NoRun  == 0
Agents == {Participants[i] : i \in 1..Len(Participants)}
StopCallers == Stoppers \cup {Coordinator}

ASSUME ConstantsAssumption ==
  /\ TaskType \in {"checkpoint-workflow", "countdown"}
  /\ FaultDrill \in BOOLEAN
  /\ NumTurns \in Nat \ {0}
  /\ MaxAttempts \in Nat \ {0}
  /\ Participants \in Seq(Agents)
  /\ Len(Participants) > 0
  /\ MaxRuns \in Nat
  /\ MaxDeliver \in Nat \ {0}
  /\ StopTries \in Nat \ {0}
  /\ InterruptTries \in Nat \ {0}
  /\ MaxCrashes \in Nat /\ MaxFaults \in Nat /\ MaxExpiries \in Nat
  /\ Coordinator \notin Stoppers

VARIABLES
  revision,   \* revision of the session's KV entry
  session,    \* the session stored there
  mailbox,    \* copies of turn messages in the stream, in publication order
  window,     \* turn ids inside JetStream's duplicate window
  runs,       \* AgentService's runs, with their workspace transactions
  shared,     \* runs whose edits the shared workspace holds, in order
  coord,      \* the coordinator loop: step, delivery, run and its session copy
  creator,    \* createSession: "publishing", "done" or "lost"
  stop,       \* cancelSession and cancelRunAfterSessionStop
  interrupt,  \* interruptActiveRun
  faults      \* how often each bounded kind of trouble has happened

vars == <<revision, session, mailbox, window, runs, shared, coord, creator,
          stop, interrupt, faults>>
store == <<revision, session>>

-----------------------------------------------------------------------------
(* Session, actors and initial state                                       *)

SessionStatus == {"running", "completed", "failed", "cancelled"}
Interruption  == {"none", "requested", "cancelled", "failed"}

Session ==
  [status        : SessionStatus,
   expected      : 1..NumTurns + 1,
   attempts      : [Turns -> 0..MaxAttempts],
   active        : Runs \cup {NoRun},
   accepted      : Seq([turn : Turns, run : Runs]),
   interruptions : [Runs -> Interruption],
   cancelNoted   : SUBSET Runs]

NewSession ==
  [status        |-> "running",
   expected      |-> 1,
   attempts      |-> [t \in Turns |-> 0],
   active        |-> NoRun,
   accepted      |-> <<>>,
   interruptions |-> [r \in Runs |-> "none"],
   cancelNoted   |-> {}]

Idle ==
  [pc |-> "idle", msg |-> 0, run |-> NoRun, outcome |-> "none",
   revision |-> 0, session |-> NewSession]

NoRequest ==
  [pc |-> "idle", run |-> NoRun, verdict |-> "none", tries |-> 0,
   revision |-> 0, session |-> NewSession]

UnusedRun ==
  [status |-> "unused", turn |-> 1, agent |-> Participants[1], output |-> "none",
   workspace |-> "none", base |-> <<>>, late |-> FALSE]

\* A request that has returned ("done") or thrown ("threw").
Finished(how) == [NoRequest EXCEPT !.pc = how]

Init ==
  /\ revision = 1
  /\ session = NewSession
  /\ mailbox = <<>>
  /\ window = {}
  /\ runs = [r \in Runs |-> UnusedRun]
  /\ shared = <<>>
  /\ coord = Idle
  /\ creator = "publishing"
  /\ stop = [p \in StopCallers |-> NoRequest]
  /\ interrupt = [p \in Interrupters |-> NoRequest]
  /\ faults = [crashes |-> 0, calls |-> 0, expiries |-> 0]

-----------------------------------------------------------------------------
(* The shared services                                                     *)

Transactional == TaskType = "checkpoint-workflow"
AcceptedTurns(s) == {s.accepted[i].turn : i \in 1..Len(s.accepted)}
Used(r) == runs[r].status # "unused"
Busy(agent) == \E r \in Runs : runs[r].status = "active" /\ runs[r].agent = agent

\* Mutant of Wins: an unconditional put instead of a compare-and-set.
MutantWins(actor) == actor.revision <= revision

\* updateSession succeeds only for the revision the actor has read.
Wins(actor) == actor.revision = revision
Save(s) == revision' = revision + 1 /\ session' = s

\* publishTurn: JetStream drops a message whose id is in the duplicate window.
Publish(t) ==
  IF t \in window
  THEN UNCHANGED <<mailbox, window>>
  ELSE /\ mailbox' = Append(mailbox, [turn |-> t, done |-> FALSE, deliveries |-> 0])
       /\ window' = window \cup {t}

\* AgentService.cancelRun: a run that has already ended is left as it is.
CancelRun(r) ==
  runs' = IF runs[r].status = "active"
          THEN [runs EXCEPT ![r].status = "cancelled"]
          ELSE runs

Fault == faults.calls < MaxFaults /\ faults' = [faults EXCEPT !.calls = @ + 1]

WindowExpires(t) ==
  /\ t \in window
  /\ faults.expiries < MaxExpiries
  /\ window' = window \ {t}
  /\ faults' = [faults EXCEPT !.expiries = @ + 1]
  /\ UNCHANGED <<store, mailbox, runs, shared, coord, creator, stop, interrupt>>

\* executeRun ends: with an output the turn's contract accepts or rejects,
\* with an error, or cancelled by a stop or kill switch aimed at the agent.
FinishRun(r) ==
  /\ runs[r].status = "active"
  /\ \/ \E o \in {"valid", "invalid"} :
          runs' = [runs EXCEPT ![r].status = "completed", ![r].output = o]
     \/ runs' = [runs EXCEPT ![r].status = "failed"]
     \/ runs' = [runs EXCEPT ![r].status = "cancelled"]
  /\ UNCHANGED <<store, mailbox, window, shared, coord, creator, stop, interrupt, faults>>

-----------------------------------------------------------------------------
(* createSession, after the KV entry exists                                *)

PublishFirstTurn ==
  /\ creator = "publishing"
  /\ Publish(1)
  /\ creator' = "done"
  /\ UNCHANGED <<store, runs, shared, coord, stop, interrupt, faults>>

CreatorThrows ==
  /\ creator = "publishing"
  /\ Fault
  /\ creator' = "lost"
  /\ UNCHANGED <<store, mailbox, window, runs, shared, coord, stop, interrupt>>

-----------------------------------------------------------------------------
(* The coordinator: processNext and processDelivery                        *)

Turn == mailbox[coord.msg].turn

\* participantAgentIds[...]: a countdown rotates with the attempt, a
\* checkpoint keeps its assigned agent.
AgentFor(t, attempt) ==
  LET turnIndex == IF Transactional THEN t - 1 ELSE t + attempt - 2
  IN  Participants[(turnIndex % Len(Participants)) + 1]

Goto(step) == coord' = [coord EXCEPT !.pc = step]

\* Mutant of Commit: the coordinator goes on with the copy from before its write.
MutantCommit(s, step) ==
  /\ Wins(coord)
  /\ Save(s)
  /\ coord' = [coord EXCEPT !.pc = step, !.revision = revision + 1]

\* A compare-and-set of the coordinator that succeeds.
Commit(s, step) ==
  /\ Wins(coord)
  /\ Save(s)
  /\ coord' = [coord EXCEPT !.pc = step, !.revision = revision + 1, !.session = s]

\* First step of retryOrFail on session copy s.
GiveUp(s) == IF s.attempts[Turn] >= MaxAttempts THEN "fail" ELSE "discard"

\* Takes delivery of m, reads the session and goes on with the given step.
Deliver(m, step) ==
  /\ coord.pc = "idle"
  /\ ~mailbox[m].done
  /\ mailbox[m].deliveries < MaxDeliver
  /\ mailbox' = [mailbox EXCEPT ![m].deliveries = @ + 1]
  /\ coord' = [pc |-> step, msg |-> m, run |-> NoRun, outcome |-> "none",
               revision |-> revision, session |-> session]
  /\ UNCHANGED <<store, window, runs, shared, creator, stop, interrupt, faults>>

\* Mutants of Receive: no attempt limit, no check of the turn at all, and no
\* test for an accepted turn.
MutantReceiveUnlimited(m) ==
  LET t == mailbox[m].turn IN
  Deliver(m, IF session.status # "running" THEN "settle"
             ELSE IF t \in AcceptedTurns(session) THEN "suppress"
             ELSE IF t # session.expected THEN "fail" ELSE "claim")
MutantReceiveAny(m) ==
  LET t == mailbox[m].turn IN
  Deliver(m, IF session.status # "running" THEN "settle"
             ELSE IF session.attempts[t] + 1 > MaxAttempts THEN "fail" ELSE "claim")
MutantReceiveNoSuppress(m) ==
  LET t == mailbox[m].turn IN
  Deliver(m, IF session.status # "running" THEN "settle"
             ELSE IF t # session.expected THEN "fail"
             ELSE IF session.attempts[t] + 1 > MaxAttempts THEN "fail" ELSE "claim")

\* nextTurn, getSession and the decision on what to do with the delivery.  A
\* message that is neither acknowledged nor terminated is delivered again, after
\* the delay of a retry() or after ack_wait; the loop cannot tell which, and
\* holds one delivery at a time.
Receive(m) ==
  LET t == mailbox[m].turn IN
  Deliver(m, IF session.status # "running" THEN "settle"
             ELSE IF t \in AcceptedTurns(session) THEN "suppress"
             ELSE IF t # session.expected THEN "fail"
             ELSE IF session.attempts[t] + 1 > MaxAttempts THEN "fail"
             ELSE "claim")

\* Mutant of SuppressDuplicate: the expected turn is not published again.
MutantSuppress ==
  /\ coord.pc = "suppress"
  /\ Commit(coord.session, "settle")
  /\ UNCHANGED <<mailbox, window, runs, shared, creator, stop, interrupt, faults>>

\* suppressDuplicate: the event, then the expected turn once more, then the ack.
SuppressDuplicate ==
  /\ coord.pc = "suppress"
  /\ Commit(coord.session, "publish")
  /\ UNCHANGED <<mailbox, window, runs, shared, creator, stop, interrupt, faults>>

\* Mutant of ClaimTurn: the attempt is counted in the local copy only.
MutantClaim ==
  LET s == [coord.session EXCEPT !.attempts[Turn] = @ + 1] IN
  /\ coord.pc = "claim"
  /\ Wins(coord)
  /\ Save(coord.session)
  /\ coord' = [coord EXCEPT !.pc = "start", !.revision = revision + 1, !.session = s]
  /\ UNCHANGED <<mailbox, window, runs, shared, creator, stop, interrupt, faults>>

\* The attempt is counted before any agent starts.  The claimed copy keeps the
\* activeRunId it was read with.
ClaimTurn ==
  LET s == [coord.session EXCEPT !.attempts[Turn] = @ + 1]
      drill == FaultDrill /\ ~Transactional /\ Turn = 1 /\ s.attempts[Turn] = 1
  IN
  /\ coord.pc = "claim"
  /\ Commit(s, IF drill THEN "inject" ELSE "start")
  /\ UNCHANGED <<mailbox, window, runs, shared, creator, stop, interrupt, faults>>

\* The recovery drill rejects the first claim before any run exists.
InjectFault ==
  /\ coord.pc = "inject"
  /\ Commit(coord.session, GiveUp(coord.session))
  /\ UNCHANGED <<mailbox, window, runs, shared, creator, stop, interrupt, faults>>

\* A new run on the turn's agent, in a workspace that starts with content base.
Start(r, base) ==
  LET agent == AgentFor(Turn, coord.session.attempts[Turn]) IN
  /\ coord.pc = "start"
  /\ ~Busy(agent)
  /\ ~Used(r) /\ \A q \in Runs : q < r => Used(q)
  /\ runs' = [runs EXCEPT ![r] =
       [status |-> "active", turn |-> Turn, agent |-> agent, output |-> "none",
        workspace |-> IF Transactional THEN "open" ELSE "none",
        base |-> base, late |-> FALSE]]
  /\ coord' = [coord EXCEPT !.pc = "record", !.run = r]
  /\ UNCHANGED <<store, mailbox, window, shared, creator, stop, interrupt, faults>>

\* Mutant of StartRun: the private workspace starts empty.
MutantStart(r) == Start(r, <<>>)

\* sendMessage / sendCoordinatedMessage: in a copy of the shared workspace if the
\* protocol is transactional.
StartRun(r) == Start(r, IF Transactional THEN shared ELSE <<>>)

\* The agent is busy, stopped or not configured.
StartRejected ==
  /\ coord.pc = "start"
  /\ Goto(GiveUp(coord.session))
  /\ UNCHANGED <<store, mailbox, window, runs, shared, creator, stop, interrupt, faults>>

RecordRun ==
  /\ coord.pc = "record"
  /\ Commit([coord.session EXCEPT !.active = coord.run], "wait")
  /\ UNCHANGED <<mailbox, window, runs, shared, creator, stop, interrupt, faults>>

\* Mutant of RecordLost: the loser always throws.
MutantRecordLost ==
  /\ coord.pc = "record"
  /\ ~Wins(coord)
  /\ coord' = Idle
  /\ UNCHANGED <<store, mailbox, window, runs, shared, creator, stop, interrupt, faults>>

\* The running state lost its compare-and-set: a cancelled session has the new
\* run cancelled, anything else is thrown to the loop.
RecordLost ==
  /\ coord.pc = "record"
  /\ ~Wins(coord)
  /\ IF session.status = "cancelled"
     THEN /\ Goto("stopping")
          /\ stop' = [stop EXCEPT ![Coordinator] =
                        [NoRequest EXCEPT !.pc = "cancel", !.run = coord.run]]
     ELSE coord' = Idle /\ UNCHANGED stop
  /\ UNCHANGED <<store, mailbox, window, runs, shared, creator, interrupt, faults>>

AfterStop ==
  /\ coord.pc = "stopping"
  /\ stop[Coordinator].pc \in {"done", "threw"}
  /\ coord' = IF stop[Coordinator].pc = "done" THEN [coord EXCEPT !.pc = "settle"] ELSE Idle
  /\ stop' = [stop EXCEPT ![Coordinator] = NoRequest]
  /\ UNCHANGED <<store, mailbox, window, runs, shared, creator, interrupt, faults>>

\* waitForRun polls until the run has ended ...
WaitForRun ==
  /\ coord.pc = "wait"
  /\ runs[coord.run].status \notin {"unused", "active"}
  /\ coord' = [coord EXCEPT !.pc = "reread",
       !.outcome = IF runs[coord.run].status = "completed" THEN "completed" ELSE "failed"]
  /\ UNCHANGED <<store, mailbox, window, runs, shared, creator, stop, interrupt, faults>>

\* ... or the deadline passes, whatever the run has done since the last poll.
TimeOut ==
  /\ coord.pc = "wait"
  /\ coord' = [coord EXCEPT !.pc = "expire", !.outcome = "failed"]
  /\ runs' = [runs EXCEPT ![coord.run].late = TRUE]
  /\ UNCHANGED <<store, mailbox, window, shared, creator, stop, interrupt, faults>>

CancelTimedOut ==
  /\ coord.pc = "expire"
  /\ CancelRun(coord.run)
  /\ Goto("reread")
  /\ UNCHANGED <<store, mailbox, window, shared, creator, stop, interrupt, faults>>

\* A cancellation that rejects is swallowed: the timeout stays authoritative.
CancelTimedOutFails ==
  /\ coord.pc = "expire"
  /\ Fault
  /\ Goto("reread")
  /\ UNCHANGED <<store, mailbox, window, runs, shared, creator, stop, interrupt>>

\* The session is read again and the result is judged against it.
RereadEnded ==
  /\ coord.pc = "reread"
  /\ session.status # "running"
  /\ Goto("settle")
  /\ UNCHANGED <<store, mailbox, window, runs, shared, creator, stop, interrupt, faults>>

Interrupted == session.interruptions[coord.run] \in {"requested", "cancelled"}

RereadChanged ==
  /\ coord.pc = "reread"
  /\ session.status = "running"
  /\ ~Wins(coord)
  /\ coord' = IF coord.outcome # "completed" /\ Interrupted
              THEN [coord EXCEPT !.pc = GiveUp(session), !.revision = revision, !.session = session]
              ELSE Idle
  /\ UNCHANGED <<store, mailbox, window, runs, shared, creator, stop, interrupt, faults>>

\* Mutant of RereadJudge: the run's status counts, not the outcome of the wait.
MutantJudge ==
  /\ coord.pc = "reread"
  /\ session.status = "running"
  /\ Wins(coord)
  /\ IF runs[coord.run].status = "completed" /\ runs[coord.run].output = "valid"
     THEN Goto(IF Transactional THEN "promote" ELSE "accept")
     ELSE Goto(GiveUp(coord.session))
  /\ UNCHANGED <<store, mailbox, window, runs, shared, creator, stop, interrupt, faults>>

RereadJudge ==
  /\ coord.pc = "reread"
  /\ session.status = "running"
  /\ Wins(coord)
  /\ IF coord.outcome = "completed" /\ runs[coord.run].output = "valid"
     THEN Goto(IF Transactional THEN "promote" ELSE "accept")
     ELSE Goto(GiveUp(coord.session))
  /\ UNCHANGED <<store, mailbox, window, runs, shared, creator, stop, interrupt, faults>>

\* commitRunWorkspace: the private copy replaces the shared workspace, then the
\* transaction is marked committed.
Promote ==
  /\ coord.pc = "promote"
  /\ runs[coord.run].workspace = "open"
  /\ shared' = Append(runs[coord.run].base, coord.run)
  /\ Goto("mark")
  /\ UNCHANGED <<store, mailbox, window, runs, creator, stop, interrupt, faults>>

PromoteFails ==
  /\ coord.pc \in {"promote", "mark"}
  /\ Fault
  /\ Goto(GiveUp(coord.session))
  /\ UNCHANGED <<store, mailbox, window, runs, shared, creator, stop, interrupt>>

MarkCommitted ==
  /\ coord.pc = "mark"
  /\ runs' = [runs EXCEPT ![coord.run].workspace = "committed"]
  /\ Goto("accept")
  /\ UNCHANGED <<store, mailbox, window, shared, creator, stop, interrupt, faults>>

\* Writes the accepted turn with the given next expected value.
AcceptExpecting(next) ==
  LET last == Turn = NumTurns
      s == [coord.session EXCEPT
              !.active = NoRun,
              !.accepted = Append(@, [turn |-> Turn, run |-> coord.run]),
              !.expected = next,
              !.status = IF last THEN "completed" ELSE @]
  IN
  /\ coord.pc = "accept"
  /\ Commit(s, IF last THEN "settle" ELSE "publish")
  /\ UNCHANGED <<mailbox, window, runs, shared, creator, stop, interrupt, faults>>

\* acceptCheckpoint / acceptTurn.  A completed checkpoint workflow keeps its
\* last expectedValue, a completed countdown steps past it.
Accept ==
  AcceptExpecting(IF Turn = NumTurns /\ Transactional THEN coord.session.expected ELSE Turn + 1)

\* publishTurn(makeExpectedTurn(session)), after an accepted or a suppressed
\* turn, and at the end of startup recovery (no delivery in hand).
PublishExpected ==
  /\ coord.pc = "publish"
  /\ Publish(coord.session.expected)
  /\ coord' = IF coord.msg = 0 THEN Idle ELSE [coord EXCEPT !.pc = "settle"]
  /\ UNCHANGED <<store, runs, shared, creator, stop, interrupt, faults>>

\* acknowledge() or terminate().
Settle ==
  /\ coord.pc = "settle"
  /\ mailbox' = [mailbox EXCEPT ![coord.msg].done = TRUE]
  /\ coord' = Idle
  /\ UNCHANGED <<store, window, runs, shared, creator, stop, interrupt, faults>>

\* retryOrFail: drop the private copy of the session's active run ...
DiscardWorkspace ==
  LET r == coord.session.active IN
  /\ coord.pc = "discard"
  /\ runs' = IF r # NoRun /\ runs[r].workspace = "open"
             THEN [runs EXCEPT ![r].workspace = "discarded"] ELSE runs
  /\ Goto("retry")
  /\ UNCHANGED <<store, mailbox, window, shared, creator, stop, interrupt, faults>>

\* ... clear the active run and hand the message back.
RetryTurn ==
  /\ coord.pc = "retry"
  /\ Wins(coord)
  /\ Save([coord.session EXCEPT !.active = NoRun])
  /\ coord' = Idle
  /\ UNCHANGED <<mailbox, window, runs, shared, creator, stop, interrupt, faults>>

\* failSession; no workspace is discarded on this path.
FailSession ==
  /\ coord.pc = "fail"
  /\ Commit([coord.session EXCEPT !.active = NoRun, !.status = "failed"], "settle")
  /\ UNCHANGED <<mailbox, window, runs, shared, creator, stop, interrupt, faults>>

CasSteps == {"suppress", "claim", "inject", "accept", "retry", "fail"}
ThrowingSteps == CasSteps \cup {"start", "record", "wait", "reread", "publish", "settle"}

\* A rejected compare-and-set leaves processDelivery as an exception: runLoop
\* goes on with the next delivery and the message stays unacknowledged.
LoseRace ==
  /\ coord.pc \in CasSteps
  /\ ~Wins(coord)
  /\ coord' = Idle
  /\ UNCHANGED <<store, mailbox, window, runs, shared, creator, stop, interrupt, faults>>

\* So does a bus call that rejects: a read, or publishEvents after a commit.
DeliveryThrows ==
  /\ coord.pc \in ThrowingSteps
  /\ coord.msg # 0
  /\ Fault
  /\ coord' = Idle
  /\ UNCHANGED <<store, mailbox, window, runs, shared, creator, stop, interrupt>>

-----------------------------------------------------------------------------
(* cancelSession and cancelRunAfterSessionStop                              *)

\* The HTTP server listens once startup recovery is over.
Serving == coord.pc # "recover" /\ ~(coord.pc = "publish" /\ coord.msg = 0)

SetStop(p, rec) == stop' = [stop EXCEPT ![p] = rec]

\* Read the session; a second request on a stopped session only takes up a run
\* that is still recorded as active.
StopRead(p) ==
  /\ p # Coordinator
  /\ Serving
  /\ stop[p].pc = "idle"
  /\ IF session.status = "running"
     THEN SetStop(p, [stop[p] EXCEPT !.pc = "commit",
                                     !.revision = revision, !.session = session])
     ELSE /\ session.status = "cancelled" /\ session.active # NoRun
          /\ SetStop(p, [stop[p] EXCEPT !.pc = "cancel", !.run = session.active])
  /\ UNCHANGED <<store, mailbox, window, runs, shared, coord, creator, interrupt, faults>>

\* The terminal state is committed first; the active run stays recorded in it.
StopCommit(p) ==
  /\ stop[p].pc = "commit"
  /\ Wins(stop[p])
  /\ Save([stop[p].session EXCEPT !.status = "cancelled"])
  /\ SetStop(p, IF stop[p].session.active = NoRun THEN Finished("done")
                ELSE [stop[p] EXCEPT !.pc = "cancel", !.run = stop[p].session.active, !.tries = 0])
  /\ UNCHANGED <<mailbox, window, runs, shared, coord, creator, interrupt, faults>>

\* A lost compare-and-set is retried from a fresh read, StopTries times.
StopLoses(p) ==
  /\ stop[p].pc \in {"commit", "note"}
  /\ ~Wins(stop[p])
  /\ SetStop(p, IF stop[p].tries + 1 = StopTries THEN Finished("threw")
                ELSE [stop[p] EXCEPT !.pc = IF @ = "commit" THEN "idle" ELSE "read",
                                     !.tries = @ + 1])
  /\ UNCHANGED <<store, mailbox, window, runs, shared, coord, creator, interrupt, faults>>

StopCancelRun(p) ==
  /\ stop[p].pc = "cancel"
  /\ CancelRun(stop[p].run)
  /\ SetStop(p, [stop[p] EXCEPT !.pc = "read"])
  /\ UNCHANGED <<store, mailbox, window, shared, coord, creator, interrupt, faults>>

\* A cancellation that rejects is recorded as run.cancel-failed.
StopCancelFails(p) ==
  /\ stop[p].pc = "cancel"
  /\ Fault
  /\ SetStop(p, [stop[p] EXCEPT !.pc = "read"])
  /\ UNCHANGED <<store, mailbox, window, runs, shared, coord, creator, interrupt>>

\* The outcome is recorded once per run, however many requests race for it.
StopReadAgain(p) ==
  /\ stop[p].pc = "read"
  /\ IF session.status # "cancelled" \/ stop[p].run \in session.cancelNoted
     THEN SetStop(p, Finished("done"))
     ELSE SetStop(p, [stop[p] EXCEPT !.pc = "note",
                                     !.revision = revision, !.session = session])
  /\ UNCHANGED <<store, mailbox, window, runs, shared, coord, creator, interrupt, faults>>

StopNote(p) ==
  /\ stop[p].pc = "note"
  /\ Wins(stop[p])
  /\ Save([stop[p].session EXCEPT !.active = NoRun, !.cancelNoted = @ \cup {stop[p].run}])
  /\ SetStop(p, Finished("done"))
  /\ UNCHANGED <<mailbox, window, runs, shared, coord, creator, interrupt, faults>>

StopThrows(p) ==
  /\ stop[p].pc \in {"commit", "read", "note"}
  /\ Fault
  /\ SetStop(p, Finished("threw"))
  /\ UNCHANGED <<store, mailbox, window, runs, shared, coord, creator, interrupt>>

StopStep(p) == StopRead(p) \/ StopCommit(p) \/ StopLoses(p) \/ StopCancelRun(p)
                 \/ StopReadAgain(p) \/ StopNote(p)

-----------------------------------------------------------------------------
(* interruptActiveRun: recordInterruptionRequest, cancelRun,                *)
(* finalizeInterruption                                                     *)

SetInterrupt(p, rec) == interrupt' = [interrupt EXCEPT ![p] = rec]

InterruptActiveRun(p) ==
  /\ Serving
  /\ interrupt[p].pc = "idle"
  /\ session.status = "running" /\ session.active # NoRun
  /\ SetInterrupt(p, [interrupt[p] EXCEPT !.pc = "read", !.run = session.active])
  /\ UNCHANGED <<store, mailbox, window, runs, shared, coord, creator, stop, faults>>

\* Any failure to store and announce a change is followed by a fresh read.
NextTry(i) ==
  IF i.tries + 1 = InterruptTries THEN Finished("threw")
  ELSE [i EXCEPT !.pc = IF @ = "request" THEN "read" ELSE "reread", !.tries = @ + 1]

ReadForRequest(p) ==
  LET i == interrupt[p] IN
  /\ i.pc = "read"
  /\ SetInterrupt(p,
       IF session.status # "running" \/ session.active # i.run THEN Finished("done")
       ELSE IF session.interruptions[i.run] # "none" THEN [i EXCEPT !.pc = "cancel", !.tries = 0]
       ELSE [i EXCEPT !.pc = "request", !.revision = revision, !.session = session])
  /\ UNCHANGED <<store, mailbox, window, runs, shared, coord, creator, stop, faults>>

RecordRequest(p) ==
  LET i == interrupt[p] IN
  /\ i.pc = "request"
  /\ Wins(i)
  /\ Save([i.session EXCEPT !.interruptions[i.run] = "requested"])
  /\ SetInterrupt(p, [i EXCEPT !.pc = "cancel", !.tries = 0])
  /\ UNCHANGED <<mailbox, window, runs, shared, coord, creator, stop, faults>>

\* The request is stored but publishEvents rejects: the loop reads again.
RequestUnannounced(p) ==
  LET i == interrupt[p] IN
  /\ i.pc = "request"
  /\ Wins(i)
  /\ Fault
  /\ Save([i.session EXCEPT !.interruptions[i.run] = "requested"])
  /\ SetInterrupt(p, NextTry(i))
  /\ UNCHANGED <<mailbox, window, runs, shared, coord, creator, stop>>

\* The verdict is the state the run is found in once it has ended.
InterruptCancelRun(p) ==
  LET i == interrupt[p]
      ended == runs[i.run].status \in {"completed", "failed"}
  IN
  /\ i.pc = "cancel"
  /\ CancelRun(i.run)
  /\ SetInterrupt(p, [i EXCEPT !.pc = "reread", !.verdict = IF ended THEN "failed" ELSE "cancelled"])
  /\ UNCHANGED <<store, mailbox, window, shared, coord, creator, stop, faults>>

InterruptCancelFails(p) ==
  /\ interrupt[p].pc = "cancel"
  /\ Fault
  /\ SetInterrupt(p, [interrupt[p] EXCEPT !.pc = "reread", !.verdict = "failed"])
  /\ UNCHANGED <<store, mailbox, window, runs, shared, coord, creator, stop>>

ReadForVerdict(p) ==
  LET i == interrupt[p] IN
  /\ i.pc = "reread"
  /\ SetInterrupt(p,
       IF session.interruptions[i.run] = i.verdict THEN Finished("done")
       ELSE [i EXCEPT !.pc = "finalize", !.revision = revision, !.session = session])
  /\ UNCHANGED <<store, mailbox, window, runs, shared, coord, creator, stop, faults>>

FinalizeInterruption(p) ==
  LET i == interrupt[p] IN
  /\ i.pc = "finalize"
  /\ Wins(i)
  /\ Save([i.session EXCEPT !.interruptions[i.run] = i.verdict])
  /\ SetInterrupt(p, Finished("done"))
  /\ UNCHANGED <<mailbox, window, runs, shared, coord, creator, stop, faults>>

\* Mutant of InterruptLoses: a lost compare-and-set is not retried.
MutantInterruptLoses(p) ==
  /\ interrupt[p].pc \in {"request", "finalize"}
  /\ ~Wins(interrupt[p])
  /\ SetInterrupt(p, Finished("threw"))
  /\ UNCHANGED <<store, mailbox, window, runs, shared, coord, creator, stop, faults>>

InterruptLoses(p) ==
  /\ interrupt[p].pc \in {"request", "finalize"}
  /\ ~Wins(interrupt[p])
  /\ SetInterrupt(p, NextTry(interrupt[p]))
  /\ UNCHANGED <<store, mailbox, window, runs, shared, coord, creator, stop, faults>>

InterruptThrows(p) ==
  /\ interrupt[p].pc \in {"read", "reread"}
  /\ Fault
  /\ SetInterrupt(p, Finished("threw"))
  /\ UNCHANGED <<store, mailbox, window, runs, shared, coord, creator, stop>>

InterruptStep(p) == ReadForRequest(p) \/ RecordRequest(p) \/ InterruptCancelRun(p)
                      \/ ReadForVerdict(p) \/ FinalizeInterruption(p) \/ InterruptLoses(p)

-----------------------------------------------------------------------------
(* The server process: crash, AgentService.initialize, recoverPendingSessions *)

Dies(request) ==
  IF request = NoRequest \/ request.pc = "done" THEN request ELSE Finished("threw")

\* The process dies and starts again: local state and HTTP requests are gone,
\* and AgentService.initialize cancels every unfinished run and drops every
\* open transaction before the relay is initialized.
Crash ==
  /\ faults.crashes < MaxCrashes
  /\ faults' = [faults EXCEPT !.crashes = @ + 1]
  /\ coord' = [Idle EXCEPT !.pc = "recover"]
  /\ creator' = IF creator = "publishing" THEN "lost" ELSE creator
  /\ stop' = [p \in StopCallers |-> IF p = Coordinator THEN NoRequest ELSE Dies(stop[p])]
  /\ interrupt' = [p \in Interrupters |-> Dies(interrupt[p])]
  /\ runs' = [r \in Runs |->
       [runs[r] EXCEPT !.status = IF @ = "active" THEN "cancelled" ELSE @,
                       !.workspace = IF @ = "open" THEN "discarded" ELSE @]]
  /\ UNCHANGED <<store, mailbox, window, shared>>

\* Mutant of RecoverSession: the pending turn is not published again.
MutantRecover ==
  /\ coord.pc = "recover"
  /\ IF session.status = "running" THEN Save([session EXCEPT !.active = NoRun]) ELSE UNCHANGED store
  /\ coord' = Idle
  /\ UNCHANGED <<mailbox, window, runs, shared, creator, stop, interrupt, faults>>

\* No request is served and no delivery is processed before recovery is over.
RecoverSession ==
  /\ coord.pc = "recover"
  /\ IF session.status = "running"
     THEN LET s == [session EXCEPT !.active = NoRun] IN
          /\ Save(s)
          /\ coord' = [coord EXCEPT !.pc = "publish", !.revision = revision + 1, !.session = s]
     ELSE coord' = Idle /\ UNCHANGED store
  /\ UNCHANGED <<mailbox, window, runs, shared, creator, stop, interrupt, faults>>

-----------------------------------------------------------------------------
(* Specification                                                           *)

CoordinatorStep ==
  \/ \E m \in 1..Len(mailbox) : Receive(m)
  \/ SuppressDuplicate \/ ClaimTurn \/ InjectFault
  \/ (\E r \in Runs : StartRun(r)) \/ StartRejected
  \/ RecordRun \/ RecordLost \/ AfterStop
  \/ WaitForRun \/ TimeOut \/ CancelTimedOut
  \/ RereadEnded \/ RereadChanged \/ RereadJudge
  \/ Promote \/ MarkCommitted \/ Accept \/ PublishExpected \/ Settle
  \/ DiscardWorkspace \/ RetryTurn \/ FailSession \/ LoseRace
  \/ RecoverSession

Trouble ==
  \/ CreatorThrows \/ CancelTimedOutFails \/ PromoteFails \/ DeliveryThrows
  \/ (\E p \in StopCallers : StopCancelFails(p) \/ StopThrows(p))
  \/ (\E p \in Interrupters : RequestUnannounced(p) \/ InterruptCancelFails(p) \/ InterruptThrows(p))
  \/ Crash

Next ==
  \/ CoordinatorStep
  \/ Trouble
  \/ PublishFirstTurn
  \/ \E p \in StopCallers : StopStep(p)
  \/ \E p \in Interrupters : InterruptActiveRun(p) \/ InterruptStep(p)
  \/ \E r \in Runs : FinishRun(r)
  \/ \E t \in Turns : WindowExpires(t)

Spec == Init /\ [][Next]_vars

\* The event loop keeps running: the coordinator takes its next step, requests
\* in progress are carried on, and JetStream redelivers what is unacknowledged.  Agent
\* runs need not end, operators need not act and nothing has to go wrong.
Fairness ==
  /\ WF_vars(CoordinatorStep)
  /\ WF_vars(PublishFirstTurn)
  /\ \A p \in StopCallers : WF_vars(stop[p].pc # "idle" /\ StopStep(p))
  /\ \A p \in Interrupters : WF_vars(InterruptStep(p))

FairSpec == Spec /\ Fairness

-----------------------------------------------------------------------------
(* Type invariant                                                          *)

CoordinatorSteps == ThrowingSteps \cup {"idle", "expire", "promote", "mark", "discard",
                                        "stopping", "recover"}
StopSteps == {"idle", "commit", "cancel", "read", "note", "done", "threw"}
InterruptSteps == {"idle", "read", "request", "cancel", "reread", "finalize", "done", "threw"}

RunRecord ==
  [status : {"unused", "active", "completed", "failed", "cancelled"},
   turn : Turns, agent : Agents, output : {"none", "valid", "invalid"},
   workspace : {"none", "open", "committed", "discarded"},
   base : Seq(Runs), late : BOOLEAN]

Request(steps) ==
  [pc : steps, run : Runs \cup {NoRun}, verdict : {"none", "cancelled", "failed"},
   tries : Nat, revision : Nat, session : Session]

TypeOK ==
  /\ revision \in Nat \ {0}
  /\ session \in Session
  /\ mailbox \in Seq([turn : Turns, done : BOOLEAN, deliveries : Nat])
  /\ window \subseteq Turns
  /\ runs \in [Runs -> RunRecord]
  /\ shared \in Seq(Runs)
  /\ coord \in [pc : CoordinatorSteps, msg : Nat, run : Runs \cup {NoRun},
                 outcome : {"none", "completed", "failed"}, revision : Nat, session : Session]
  /\ creator \in {"publishing", "done", "lost"}
  /\ stop \in [StopCallers -> Request(StopSteps)]
  /\ interrupt \in [Interrupters -> Request(InterruptSteps)]
  /\ faults \in [crashes : 0..MaxCrashes, calls : 0..MaxFaults, expiries : 0..MaxExpiries]

-----------------------------------------------------------------------------
(* Properties                                                              *)

Running == session.status = "running"

\* The i-th accepted result is that of turn i: no gap, no duplicate, no
\* reordering, through redeliveries, retries, operator requests and restarts.
\* A running session expects the turn after the last accepted one and a
\* completed session has accepted all of them.
AcceptedInOrder ==
  /\ \A i \in 1..Len(session.accepted) : session.accepted[i].turn = i
  /\ Running => session.expected = Len(session.accepted) + 1
  /\ session.status = "completed" <=> Len(session.accepted) = NumTurns

\* An accepted run is one the coordinator watched to the end for that very turn:
\* it completed with a valid output before its deadline, no interruption request
\* named it, and its workspace copy, if it had one, was promoted.
AcceptedRunsEarned ==
  \A i \in 1..Len(session.accepted) :
    LET r == session.accepted[i].run IN
    /\ runs[r].turn = session.accepted[i].turn
    /\ runs[r].status = "completed" /\ runs[r].output = "valid" /\ ~runs[r].late
    /\ session.interruptions[r] = "none"
    /\ Transactional => runs[r].workspace = "committed"

\* Attempts are persisted before an agent starts: a turn never has more runs
\* than counted attempts, whatever crashes or throws in between.
AttemptBeforeRun ==
  \A t \in Turns :
    Cardinality({r \in Runs : Used(r) /\ runs[r].turn = t}) <= session.attempts[t]

\* The mailbox of a running session holds nothing but copies of accepted turns
\* and of the expected one, so failSession's ordering violation is never taken.
NoOrderingViolation ==
  /\ Running => \A m \in 1..Len(mailbox) :
       mailbox[m].turn \in AcceptedTurns(session) \cup {session.expected}
  /\ coord.pc = "fail" => Turn = coord.session.expected

\* The work of a running session is never lost: its expected turn is in the
\* mailbox unacknowledged, or about to be published by somebody, or will be
\* published when the copy of the turn accepted last is delivered again.  The
\* one exception is a createSession whose publishTurn was rejected.
Live(t) == \E m \in 1..Len(mailbox) : mailbox[m].turn = t /\ ~mailbox[m].done

WorkIsPending ==
  Running =>
    \/ Live(session.expected)
    \/ coord.pc \in {"publish", "recover"}
    \/ Live(session.expected - 1)
    \/ session.expected = 1 /\ creator \in {"publishing", "lost"}

\* The edits of every accepted run are in the shared workspace, each once and in
\* the order of acceptance, whatever else was promoted between them.
AcceptedWorkIsShared ==
  Transactional =>
    /\ \A i \in 1..Len(session.accepted) :
         \E k \in 1..Len(shared) : shared[k] = session.accepted[i].run
    /\ \A i, j \in 1..Len(session.accepted), k, l \in 1..Len(shared) :
         shared[k] = session.accepted[i].run /\ shared[l] = session.accepted[j].run =>
           (i < j <=> k < l)

\* Once a session has ended its ledger is frozen: no later step changes the
\* status, the accepted turns or the attempts.
EndIsFinal ==
  [][~Running =>
       /\ session'.status = session.status
       /\ session'.accepted = session.accepted
       /\ session'.attempts = session.attempts]_vars

\* A turn that has been accepted never calls an agent again.
AcceptedTurnIsNotRerun ==
  [][\A r \in Runs : ~Used(r) /\ Used(r)' => runs'[r].turn \notin AcceptedTurns(session)]_vars

\* Every actor that will write the session either holds it exactly as stored or
\* holds a revision that can no longer win.
CopiesAreCurrent ==
  \A actor \in {coord} \cup {stop[p] : p \in StopCallers}
                       \cup {interrupt[p] : p \in Interrupters} :
    /\ actor.revision <= revision
    /\ actor.revision = revision => actor.session = session

\* No interruption has been requested in this session.
Undisturbed == \A r \in Runs : session.interruptions[r] = "none"

\* No agent run is left to itself: a run in progress is recorded as the
\* session's active run, or held by the coordinator, or being cancelled.  (The
\* end of an interruption may make the next run lose its recording.)
HeldBy(r) ==
  \/ session.active = r
  \/ coord.run = r
  \/ \E p \in StopCallers : stop[p].pc = "cancel" /\ stop[p].run = r
  \/ \E p \in Interrupters : interrupt[p].pc = "cancel" /\ interrupt[p].run = r
NoRunIsAbandoned == Undisturbed => \A r \in Runs : runs[r].status = "active" => HeldBy(r)

\* A stop reaches the runtime: once a session is cancelled and nobody is working
\* on it any more, none of its runs is in progress.
Quiet ==
  /\ coord.pc = "idle"
  /\ \A p \in StopCallers : stop[p].pc \in {"idle", "done", "threw"}
StopReachesRun == session.status = "cancelled" /\ Quiet => \A r \in Runs : runs[r].status # "active"

\* So it does, wherever the stop meets the coordinator, unless an interruption
\* was there before it.
StopReachesRunUnlessInterrupted == Undisturbed => StopReachesRun

\* The shared workspace is at the last accepted checkpoint, except while the
\* coordinator is between promoting a copy and committing its acceptance.
SharedIsLastAccepted ==
  Transactional /\ coord.pc \notin {"mark", "accept"} =>
    shared = [i \in 1..Len(session.accepted) |-> session.accepted[i].run]

\* Every session ends: all turns are accepted, or the attempts run out, or an
\* operator cancels it.
Resolves == <>(~Running)

\* A recorded interruption request is given its final status.
InterruptionIsSettled ==
  \A r \in Runs : session.interruptions[r] = "requested"
                   ~> session.interruptions[r] # "requested"

\* Refinement: the session is the promised ledger of accepted runs.
Verdict(r) ==
  IF runs[r].late \/ session.interruptions[r] # "none" \/ runs[r].status \in {"failed", "cancelled"}
     \/ runs[r].output = "invalid"
  THEN "void" ELSE IF runs[r].status = "completed" THEN "valid" ELSE "open"

Ledger == INSTANCE RelayLedger WITH
  status   <- session.status,
  accepted <- [i \in 1..Len(session.accepted) |-> session.accepted[i].run],
  verdict  <- [r \in Runs |-> Verdict(r)]

LedgerSpec == Ledger!Spec
=============================================================================
