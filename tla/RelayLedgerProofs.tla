--------------------------- MODULE RelayLedgerProofs ---------------------------
(***************************************************************************)
(* The ledger of accepted runs: each earned, promoted in order and         *)
(* accepted once, in a session whose work is never lost, whose runs are    *)
(* held and whose interruptions are carried to their verdict.              *)
(***************************************************************************)
EXTENDS RelayCoordinatorProofs, FiniteSetTheorems

-----------------------------------------------------------------------------
(* The inductive invariants                                                  *)

\* Steps at which the coordinator works on the run in its hands.
Hands == {"record", "wait", "expire", "reread", "promote", "mark", "accept"}
Judged == {"promote", "mark", "accept"}

\* Only the coordinator accepts turns and counts attempts, so its copy has both
\* as they are stored, even after others have written the session.
MineInv ==
  coord.pc \notin {"idle", "recover"} =>
    coord.session.accepted = session.accepted /\ coord.session.attempts = session.attempts

\* What has not ended has no output; what has not begun has neither a deadline
\* that passed nor an interruption.
FreshInv ==
  \A r \in Runs :
    /\ runs[r].status \in {"unused", "active"} => runs[r].output = "none"
    /\ ~Used(r) => /\ ~runs[r].late
                   /\ session.interruptions[r] = "none"
                   /\ coord.session.interruptions[r] = "none"

\* The run recorded as active is not one whose result was accepted.
ActiveInv ==
  session.active # NoRun =>
    /\ Used(session.active)
    /\ \A i \in 1..Len(session.accepted) : session.accepted[i].run # session.active

\* What is known of the run in hand at each step on its way to acceptance.
EarningInv ==
  LET run == runs[coord.run] IN
  /\ coord.pc \in Hands =>
       /\ Used(coord.run) /\ run.turn = Turn
       /\ coord.session.interruptions[coord.run] = "none"
  /\ coord.pc \in {"record", "wait"} => ~run.late
  /\ coord.pc = "expire" => coord.outcome = "failed"
  /\ coord.pc = "reread" /\ coord.outcome = "completed" => run.status = "completed" /\ ~run.late
  /\ coord.pc \in Judged => run.status = "completed" /\ run.output = "valid" /\ ~run.late
  /\ coord.pc = "accept" /\ Transactional => run.workspace = "committed"

\* An interruption names a run that was active when it was requested; once it is
\* stored it stays.
RequestInv ==
  \A p \in Interrupters :
    LET i == interrupt[p] IN
    /\ i.pc = "request" => i.session.active = i.run
    /\ i.pc \in {"cancel", "reread", "finalize"} => session.interruptions[i.run] # "none"

EarnedInv == MineInv /\ FreshInv /\ ActiveInv /\ EarningInv /\ RequestInv /\ AcceptedRunsEarned

\* A private copy starts as the shared workspace and stays its successor until the
\* promotion puts the run at the end of it, once.
SharedInv ==
  Transactional =>
    /\ \A k \in 1..Len(shared) : Used(shared[k])
    /\ coord.pc \in Hands \ {"mark", "accept"} =>
         /\ runs[coord.run].base = shared
         /\ \A k \in 1..Len(shared) : shared[k] # coord.run
    /\ coord.pc \in {"mark", "accept"} =>
         /\ shared # << >>
         /\ \A k \in 1..Len(shared) : shared[k] = coord.run <=> k = Len(shared)

\* An attempt is counted before its run begins.
RunsOf(t) == {r \in Runs : Used(r) /\ runs[r].turn = t}
AttemptInv ==
  /\ AttemptBeforeRun
  /\ coord.pc \in {"inject", "start"} => Cardinality(RunsOf(Turn)) + 1 <= session.attempts[Turn]

\* No message is ahead of the ledger.
TurnInv ==
  /\ \A m \in 1..Len(mailbox) : mailbox[m].turn <= Len(session.accepted) + 1
  /\ coord.pc = "fail" => Turn = coord.session.expected

\* What is known of the message in hand: it is not acknowledged, and when the
\* expected turn is about to be published again, or the agent of a stopped
\* session is being cancelled, its own turn is behind the ledger or the session over.
MessageInv ==
  /\ coord.pc = "recover" => coord.msg = 0
  /\ coord.pc # "idle" /\ coord.msg # 0 => ~mailbox[coord.msg].done
  /\ coord.pc = "stopping" => ~Running
  /\ coord.pc = "suppress" => Turn <= Len(session.accepted)
  /\ coord.pc = "publish" /\ coord.msg # 0 => Turn <= Len(session.accepted)

\* Nothing but an accepted turn was acknowledged, none is before its successor is
\* in the mailbox, and the successor has somebody who publishes it.
PendingInv ==
  Running =>
    /\ \A m \in 1..Len(mailbox) : mailbox[m].done => mailbox[m].turn <= Len(session.accepted)
    /\ coord.pc = "settle" => Turn <= Len(session.accepted) /\ Live(session.expected)
    /\ \/ Live(session.expected)
       \/ coord.pc = "recover" \/ (coord.pc = "publish" /\ coord.msg = 0)
       \/ Live(session.expected - 1)
       \/ session.expected = 1 /\ creator \in {"publishing", "lost"}

\* The duplicate window knows only messages that are in the stream.
WindowInv == \A t \in window : \E m \in 1..Len(mailbox) : mailbox[m].turn = t

WorkInv == WindowInv /\ MessageInv /\ PendingInv

\* While no call was rejected and nobody interrupted: the coordinator's copy is the
\* stored one until its run is recorded, unless the session was stopped, and a run
\* in progress is in its hands or being cancelled by a stop.
Stops(r) == \E p \in StopCallers : stop[p].pc = "cancel" /\ stop[p].run = r
HeldInv ==
  /\ coord.pc # "stopping" => stop[Coordinator].pc = "idle"
  /\ \A p \in StopCallers : stop[p].pc = "note" => session.status = "cancelled"
  /\ faults.calls = 0 /\ Undisturbed =>
       /\ coord.pc \in {"claim", "inject", "start", "record"} =>
            coord.revision = revision \/ session.status = "cancelled"
       /\ \A r \in Runs : runs[r].status = "active" =>
            \/ coord.run = r /\ coord.pc \in {"record", "wait", "expire"}
            \/ Stops(r)

-----------------------------------------------------------------------------
(* What the coordinator's copy says                                          *)

\* The coordinator keeps its copy, takes the stored session, or drops it.
LEMMA CoordCopies ==
  ASSUME TypeInv, [Next]_vars
  PROVE  \/ coord'.pc \in {"idle", "recover"} /\ coord'.session = NewSession
         \/ coord'.session = session' /\ coord'.revision = revision'
         \/ /\ coord'.session = coord.session /\ coord.pc \notin {"idle", "recover"}
            /\ coord'.pc \notin {"idle", "recover"} /\ ~Accept /\ ~ClaimTurn
         \/ UNCHANGED coord
<1>1. coord \in CoordRecord
  BY InHand
<1>2. ASSUME NEW step, Goto(step)
      PROVE  coord'.pc = step /\ coord'.session = coord.session
  BY <1>1, <1>2 DEF Goto, CoordRecord
<1>3. ASSUME NEW step, NEW s, Commit(s, step)
      PROVE  coord'.session = session' /\ coord'.revision = revision'
  BY <1>1, <1>3 DEF Commit, Save, CoordRecord
<1>4. ASSUME coord' = Idle
      PROVE  coord'.pc = "idle" /\ coord'.session = NewSession
  BY <1>4 DEF Idle
<1>5. \A s : GiveUp(s) \in {"fail", "discard"}
  BY DEF GiveUp
<1>6. CASE \E m \in 1..Len(mailbox) : Receive(m)
  BY <1>6 DEF Receive, Deliver, store
<1>7. CASE SuppressDuplicate \/ ClaimTurn \/ InjectFault \/ RecordRun \/ Accept \/ FailSession
  BY <1>3, <1>7 DEF SuppressDuplicate, ClaimTurn, InjectFault, RecordRun, Accept, AcceptExpecting, FailSession
<1>8. CASE \E r \in Runs : StartRun(r)
  BY <1>1, <1>8 DEF StartRun, Start, CoordRecord, Accept, AcceptExpecting, ClaimTurn
<1>9. CASE StartRejected \/ PromoteFails \/ RereadJudge \/ RereadEnded
  BY <1>2, <1>5, <1>9 DEF StartRejected, PromoteFails, RereadJudge, RereadEnded, Accept, AcceptExpecting, ClaimTurn
<1>10. CASE CancelTimedOut \/ CancelTimedOutFails \/ Promote \/ MarkCommitted \/ DiscardWorkspace
  BY <1>2, <1>10 DEF CancelTimedOut, CancelTimedOutFails, Promote, MarkCommitted, DiscardWorkspace,
       Accept, AcceptExpecting, ClaimTurn
<1>11. CASE RecordLost
  BY <1>2, <1>4, <1>11 DEF RecordLost, Accept, AcceptExpecting, ClaimTurn
<1>12. CASE AfterStop
  BY <1>1, <1>4, <1>12 DEF AfterStop, CoordRecord, Accept, AcceptExpecting, ClaimTurn
<1>13. CASE WaitForRun \/ TimeOut
  BY <1>1, <1>13 DEF WaitForRun, TimeOut, CoordRecord, Accept, AcceptExpecting, ClaimTurn
<1>14. CASE RereadChanged
  BY <1>1, <1>4, <1>14 DEF RereadChanged, CoordRecord, store
<1>15. CASE PublishExpected
  BY <1>1, <1>4, <1>15 DEF PublishExpected, CoordRecord, Accept, AcceptExpecting, ClaimTurn
<1>16. CASE Settle \/ RetryTurn \/ LoseRace \/ DeliveryThrows
  BY <1>4, <1>16 DEF Settle, RetryTurn, LoseRace, DeliveryThrows
<1>17. CASE RecoverSession
  BY <1>1, <1>4, <1>17 DEF RecoverSession, Save, CoordRecord
<1>18. CASE Crash
  BY <1>18 DEF Crash, Idle
<1>19. CASE \/ UNCHANGED coord
  BY <1>19
<1>20. \/ CoordinatorStep \/ CancelTimedOutFails \/ PromoteFails \/ DeliveryThrows \/ Crash \/ UNCHANGED coord
  <2>1. CASE Trouble
    BY <2>1 DEF Trouble, CreatorThrows, StopCancelFails, StopThrows,
         RequestUnannounced, InterruptCancelFails, InterruptThrows
  <2>2. CASE \E p \in StopCallers : StopStep(p)
    BY <2>2 DEF StopStep, StopRead, StopCommit, StopLoses, StopCancelRun, StopReadAgain, StopNote
  <2>3. CASE \E p \in Interrupters : InterruptActiveRun(p) \/ InterruptStep(p)
    BY <2>3 DEF InterruptActiveRun, InterruptStep, ReadForRequest, RecordRequest,
         InterruptCancelRun, ReadForVerdict, FinalizeInterruption, InterruptLoses
  <2>4. CASE PublishFirstTurn \/ (\E r \in Runs : FinishRun(r)) \/ (\E t \in Turns : WindowExpires(t))
             \/ UNCHANGED vars
    BY <2>4 DEF PublishFirstTurn, FinishRun, WindowExpires, vars
  <2> QED BY <2>1, <2>2, <2>3, <2>4 DEF Next
<1> QED BY <1>6, <1>7, <1>8, <1>9, <1>10, <1>11, <1>12, <1>13, <1>14, <1>15, <1>16, <1>17, <1>18,
           <1>19, <1>20 DEF CoordinatorStep

\* A step that leaves the coordinator where it is accepts nothing and counts no
\* attempt.
LEMMA StillCoord ==
  ASSUME TypeInv, UNCHANGED coord
  PROVE  ~Accept /\ ~ClaimTurn /\ ~RecordRun /\ ~TimeOut /\ \A r \in Runs : ~StartRun(r)
<1>1. coord \in CoordRecord
  BY InHand
<1>2. \A s, step : Commit(s, step) => coord'.pc = step
  BY <1>1 DEF Commit, CoordRecord
<1>3. ~Accept
  BY <1>2 DEF Accept, AcceptExpecting
<1>4. ~ClaimTurn
  BY <1>2 DEF ClaimTurn
<1>5. ~RecordRun
  BY <1>2 DEF RecordRun
<1>6. ~TimeOut
  BY <1>1 DEF TimeOut, CoordRecord
<1>7. \A r \in Runs : ~StartRun(r)
  BY <1>1 DEF StartRun, Start, CoordRecord
<1> QED BY <1>3, <1>4, <1>5, <1>6, <1>7

LEMMA MineKept == ASSUME TypeInv, CopiesInv, MineInv, [Next]_vars PROVE MineInv'
<1>1. CASE coord'.pc \in {"idle", "recover"}
  BY <1>1 DEF MineInv
<1>2. CASE coord'.session = session'
  BY <1>2 DEF MineInv
<1>3. CASE /\ coord'.session = coord.session /\ coord.pc \notin {"idle", "recover"}
           /\ ~Accept /\ ~ClaimTurn
  BY <1>3, SessionWrites DEF MineInv, SessionGoesOn
<1>4. CASE UNCHANGED coord
  BY <1>4, StillCoord, SessionWrites DEF MineInv, SessionGoesOn
<1> QED BY <1>1, <1>2, <1>3, <1>4, CoordCopies

LEMMA ElementOfSeq ==
  ASSUME NEW S, NEW s \in Seq(S), NEW i \in 1..Len(s) PROVE s[i] \in S
OBVIOUS

\* The turn in hand is the next one of the ledger.
LEMMA NextInHand ==
  ASSUME TypeInv, MineInv
  PROVE  /\ Len(session.accepted) \in Nat
         /\ coord.pc \notin {"idle", "recover", "settle"} =>
              coord.session.expected = Len(session.accepted) + 1
         /\ coord.pc \in RunSteps \cup {"claim", "inject", "start"} => Turn = Len(session.accepted) + 1
         /\ Running => session.expected = Len(session.accepted) + 1
         /\ \A i \in 1..Len(session.accepted) :
              session.accepted[i].turn = i /\ session.accepted[i].run \in Runs
<1>1. /\ Len(session.accepted) \in Nat /\ LedgerOK(session)
      /\ session.accepted \in Seq([turn : Turns, run : Runs])
  BY DEF TypeInv, StoreOK, WellFormed, Session
<1>2. coord.pc \notin {"idle", "recover", "settle"} =>
        coord.session.expected = Len(session.accepted) + 1
  BY InHand DEF MineInv, WellFormed, LedgerOK
<1>3. coord.pc \in RunSteps \cup {"claim", "inject", "start"} => Turn = coord.session.expected
  BY DEF TypeInv, CoordOK, CoordGood, Turn
<1>4. \A i \in 1..Len(session.accepted) : session.accepted[i].run \in Runs
  <2>1. \A i \in 1..Len(session.accepted) : session.accepted[i] \in [turn : Turns, run : Runs]
    BY <1>1, ElementOfSeq
  <2> QED BY <2>1
<1>5. coord.pc \in RunSteps \cup {"claim", "inject", "start"} => Turn = Len(session.accepted) + 1
  BY <1>2, <1>3 DEF RunSteps
<1>6. Running => session.expected = Len(session.accepted) + 1
  BY <1>1 DEF LedgerOK, Running
<1>7. \A i \in 1..Len(session.accepted) : session.accepted[i].turn = i
  BY <1>1 DEF LedgerOK
<1> QED BY <1>1, <1>2, <1>4, <1>5, <1>6, <1>7

-----------------------------------------------------------------------------
(* Runs on their way to the ledger                                           *)

\* The run in hand is not one whose result was accepted.
LEMMA HandIsNew ==
  ASSUME TypeInv, EarnedInv, coord.pc \in Hands
  PROVE  /\ coord.run \in Runs
         /\ \A i \in 1..Len(session.accepted) : session.accepted[i].run # coord.run
<1>1. coord.run \in Runs
  BY InHand DEF Hands, RunSteps
<1>2. runs[coord.run].turn = Len(session.accepted) + 1
  BY NextInHand DEF EarnedInv, EarningInv, Hands, RunSteps
<1>3. \A i \in 1..Len(session.accepted) :
        runs[session.accepted[i].run].turn = i /\ Len(session.accepted) \in Nat
  BY NextInHand DEF EarnedInv, AcceptedRunsEarned
<1> QED BY <1>1, <1>2, <1>3

\* Whoever stores an interruption names a run that was begun and not accepted,
\* or one that was interrupted before.
LEMMA InterruptedRun ==
  ASSUME TypeInv, EarnedInv, NEW p \in Interrupters, NEW x, Interrupts(p, x)
  PROVE  LET r == interrupt[p].run IN
         /\ Used(r)
         /\ \A i \in 1..Len(session.accepted) : session.accepted[i].run # r
<1> DEFINE r == interrupt[p].run
<1>1. r \in Runs
  BY DEF Interrupts
<1>2. CASE interrupt[p].pc = "request"
  <2>1. session.active = r /\ r # NoRun
    BY <1>1, <1>2 DEF EarnedInv, RequestInv, Interrupts, Runs, NoRun
  <2> QED BY <2>1 DEF EarnedInv, ActiveInv
<1>3. CASE interrupt[p].pc = "finalize"
  <2>1. session.interruptions[r] # "none"
    BY <1>3 DEF EarnedInv, RequestInv
  <2> QED BY <1>1, <2>1 DEF EarnedInv, FreshInv, AcceptedRunsEarned
<1> QED BY <1>2, <1>3 DEF Interrupts

\* What has begun, has begun; a stored interruption stays; a run that has not
\* begun, or was accepted, is not interrupted.
LEMMA Persistence ==
  ASSUME TypeInv, CopiesInv, EarnedInv, [Next]_vars, NEW r \in Runs
  PROVE  /\ Used(r) => Used(r)'
         /\ session.interruptions[r] # "none" => session'.interruptions[r] # "none"
         /\ session.interruptions[r] = "none" /\ ~Used(r) => session'.interruptions[r] = "none"
         /\ session.interruptions[r] = "none" /\ (\E i \in 1..Len(session.accepted) : session.accepted[i].run = r)
              => session'.interruptions[r] = "none"
<1>1. session.interruptions \in [Runs -> Interruption] /\ runs \in [Runs -> RunRecord]
  BY DEF TypeInv, StoreOK, WellFormed, Session, RunsOK
<1>2. Used(r) => Used(r)'
  <2>1. CASE \E q \in Runs : StartRun(q)
    <3>1. PICK q \in Runs : StartRun(q)
      BY <2>1
    <3>2. q # r => runs'[r] = runs[r]
      BY <3>1 DEF StartRun, Start
    <3> QED BY <1>1, <3>1, <3>2 DEF Used, StartRun, Start
  <2>2. CASE GoesOn(runs[r], runs'[r])
    BY <2>2 DEF GoesOn, Used
  <2> QED BY <2>1, <2>2, RunsGoOn
<1>3. CASE session'.interruptions = session.interruptions
  BY <1>2, <1>3
<1>4. CASE \E p \in Interrupters : \E x : Interrupts(p, x)
  <2>1. PICK p \in Interrupters : \E x : Interrupts(p, x)
    BY <1>4
  <2>2. PICK x : Interrupts(p, x)
    BY <2>1
  <2>3. session'.interruptions = [session.interruptions EXCEPT ![interrupt[p].run] = x] /\ x # "none"
    BY <2>2, InterruptsAre DEF Interrupts
  <2>4. /\ Used(interrupt[p].run)
        /\ \A i \in 1..Len(session.accepted) : session.accepted[i].run # interrupt[p].run
    BY <2>2, InterruptedRun
  <2> QED BY <1>1, <1>2, <2>3, <2>4
<1> QED BY <1>3, <1>4, SessionWrites DEF SessionGoesOn

\* The runs that had ended keep their outcome; those accepted stay in time.
LEMMA EndedStay ==
  ASSUME TypeInv, EarnedInv, [Next]_vars, NEW r \in Runs, runs[r].status \notin {"unused", "active"}
  PROVE  /\ runs'[r].status = runs[r].status /\ runs'[r].output = runs[r].output
         /\ runs'[r].turn = runs[r].turn /\ runs'[r].base = runs[r].base
         /\ runs[r].workspace = "committed" => runs'[r].workspace = "committed"
         /\ (TimeOut /\ r = coord.run) \/ runs'[r].late = runs[r].late
<1>1. runs \in [Runs -> RunRecord]
  BY DEF TypeInv, RunsOK
<1>2. CASE \E q \in Runs : StartRun(q)
  <2>1. PICK q \in Runs : StartRun(q)
    BY <1>2
  <2>2. q # r
    BY <2>1 DEF StartRun, Start, Used
  <2>3. runs'[r] = runs[r]
    BY <1>1, <2>1, <2>2 DEF StartRun, Start
  <2> QED BY <2>3
<1>3. CASE GoesOn(runs[r], runs'[r]) /\ ((TimeOut /\ r = coord.run) \/ runs'[r].late = runs[r].late)
  BY <1>3 DEF GoesOn
<1> QED BY <1>2, <1>3, RunsGoOn

\* What is started is active on the turn in hand, in a copy of the shared workspace.
LEMMA StartedRun ==
  ASSUME NEW q \in Runs, StartRun(q)
  PROVE  \E rec :
           /\ runs' = [runs EXCEPT ![q] = rec]
           /\ rec.status = "active" /\ rec.output = "none" /\ rec.turn = Turn /\ ~rec.late
           /\ Transactional => rec.base = shared
<1> DEFINE rec == [status |-> "active", turn |-> Turn,
                   agent |-> AgentFor(Turn, coord.session.attempts[Turn]), output |-> "none",
                   workspace |-> IF Transactional THEN "open" ELSE "none",
                   base |-> IF Transactional THEN shared ELSE <<>>, late |-> FALSE]
<1>1. runs' = [runs EXCEPT ![q] = rec]
  BY DEF StartRun, Start
<1>2. /\ rec.status = "active" /\ rec.output = "none" /\ rec.turn = Turn /\ ~rec.late
      /\ Transactional => rec.base = shared
  OBVIOUS
<1> HIDE DEF rec
<1> QED BY <1>1, <1>2

LEMMA FreshKept == ASSUME TypeInv, CopiesInv, EarnedInv, [Next]_vars PROVE FreshInv'
<1> SUFFICES ASSUME NEW r \in Runs
             PROVE  /\ runs'[r].status \in {"unused", "active"} => runs'[r].output = "none"
                    /\ ~Used(r)' => /\ ~runs'[r].late
                                    /\ session'.interruptions[r] = "none"
                                    /\ coord'.session.interruptions[r] = "none"
  BY DEF FreshInv
<1>1. runs \in [Runs -> RunRecord]
  BY DEF TypeInv, RunsOK
<1>2. CASE \E q \in Runs : StartRun(q)
  <2>1. PICK q \in Runs : StartRun(q)
    BY <1>2
  <2>2. PICK rec : runs' = [runs EXCEPT ![q] = rec] /\ rec.status = "active" /\ rec.output = "none"
    BY <2>1, StartedRun
  <2>3. runs'[q].status = "active" /\ runs'[q].output = "none" /\ (q # r => runs'[r] = runs[r])
    BY <1>1, <2>2
  <2>4. session'.interruptions = session.interruptions
    BY <2>1 DEF StartRun, Start, store
  <2>5. coord'.session = coord.session
    BY <2>1, InHand DEF StartRun, Start, CoordRecord
  <2> QED BY <2>3, <2>4, <2>5 DEF EarnedInv, FreshInv, Used
<1>3. CASE GoesOn(runs[r], runs'[r]) /\ ((TimeOut /\ r = coord.run) \/ runs'[r].late = runs[r].late)
  <2>1. runs'[r].status \in {"unused", "active"} => runs'[r].output = "none"
    <3>1. runs'[r].status \in {"unused", "active"} => runs[r].status \in {"unused", "active"}
      BY <1>3 DEF GoesOn
    <3> QED BY <1>3, <3>1 DEF GoesOn, EarnedInv, FreshInv
  <2>2. ASSUME ~Used(r)'
        PROVE  /\ ~runs'[r].late
               /\ session'.interruptions[r] = "none" /\ coord'.session.interruptions[r] = "none"
    <3>1. ~Used(r)
      BY <1>3, <2>2 DEF GoesOn, Used
    <3>2. ~(TimeOut /\ r = coord.run)
      BY <3>1 DEF TimeOut, EarnedInv, EarningInv, Hands
    <3>3. session'.interruptions[r] = "none"
      BY <3>1, Persistence DEF EarnedInv, FreshInv
    <3>4. coord'.session.interruptions[r] = "none"
      <4>1. coord.session.interruptions[r] = "none" /\ NewSession.interruptions[r] = "none"
        BY <3>1 DEF EarnedInv, FreshInv, NewSession
      <4> QED BY <3>3, <4>1, CoordCopies
    <3> QED BY <1>3, <3>1, <3>2, <3>3, <3>4 DEF EarnedInv, FreshInv
  <2> QED BY <2>1, <2>2
<1> QED BY <1>2, <1>3, RunsGoOn

LEMMA AcceptedIs ==
  ASSUME TypeInv, CopiesInv, Accept
  PROVE  /\ Running /\ coord.session = session /\ coord.run \in Runs
         /\ session'.accepted = Append(session.accepted, [turn |-> Turn, run |-> coord.run])
         /\ session'.active = NoRun /\ session'.interruptions = session.interruptions
         /\ session'.attempts = session.attempts
         /\ session'.status = IF Turn = NumTurns THEN "completed" ELSE session.status
         /\ UNCHANGED <<runs, shared, mailbox, interrupt>>
<1>1. session \in Session /\ coord.session = session
  BY DEF TypeInv, StoreOK, WellFormed, CopiesInv, CurrentAt, Wins, Accept, AcceptExpecting, Commit
<1>2. coord.session.status = "running" /\ coord.run \in Runs
  BY InHand DEF Accept, AcceptExpecting, RunSteps
<1>3. PICK acc, next, status :
        /\ session' = [session EXCEPT !.active = NoRun, !.accepted = acc, !.expected = next, !.status = status]
        /\ acc = Append(session.accepted, [turn |-> Turn, run |-> coord.run])
        /\ status = IF Turn = NumTurns THEN "completed" ELSE session.status
  BY <1>1 DEF Accept, AcceptExpecting, Commit, Save
<1>4. /\ session'.active = NoRun /\ session'.accepted = acc /\ session'.status = status
      /\ session'.interruptions = session.interruptions /\ session'.attempts = session.attempts
  BY <1>1, <1>3 DEF Session
<1> QED BY <1>1, <1>2, <1>3, <1>4 DEF Accept, AcceptExpecting, Running

LEMMA ActiveKept == ASSUME TypeInv, CopiesInv, EarnedInv, [Next]_vars PROVE ActiveInv'
<1> SUFFICES ASSUME session'.active # NoRun
             PROVE  /\ runs'[session'.active].status # "unused"
                    /\ \A i \in 1..Len(session'.accepted) : session'.accepted[i].run # session'.active
  BY DEF ActiveInv, Used
<1>1. ~Accept /\ session'.accepted = session.accepted
  BY AcceptedIs, SessionWrites DEF SessionGoesOn
<1>2. CASE RecordRun
  <2>1. coord.pc = "record" /\ session' = [coord.session EXCEPT !.active = coord.run] /\ UNCHANGED runs
    BY <1>2 DEF RecordRun, Commit, Save
  <2>2. session'.active = coord.run
    BY <2>1, InHand DEF WellFormed, Session
  <2>3. Used(coord.run) /\ \A i \in 1..Len(session.accepted) : session.accepted[i].run # coord.run
    BY <2>1, HandIsNew DEF EarnedInv, EarningInv, Hands
  <2> QED BY <1>1, <2>1, <2>2, <2>3 DEF Used
<1>3. CASE ~RecordRun
  <2>1. session'.active = session.active
    BY <1>3, SessionWrites DEF SessionGoesOn
  <2>2. session.active \in Runs
    BY <2>1 DEF TypeInv, StoreOK, WellFormed, Session
  <2>3. runs'[session.active].status # "unused"
    BY <2>1, <2>2, Persistence DEF EarnedInv, ActiveInv, Used
  <2> QED BY <1>1, <2>1, <2>3 DEF EarnedInv, ActiveInv
<1> QED BY <1>2, <1>3

\* Where the requests of an interruption can be after a step.
LEMMA RequestMoves ==
  ASSUME TypeInv, CopiesInv, [Next]_vars, NEW p \in Interrupters
  PROVE  LET a == interrupt[p]
             b == interrupt'[p]
         IN \/ b = a
            \/ b.pc \in {"read", "done", "threw"}
            \/ b.pc = "request" /\ b.session.active = b.run
            \/ /\ b.pc = "cancel" /\ b.run = a.run /\ a.run \in Runs
               /\ session'.interruptions[a.run] # "none"
            \/ /\ b.pc \in {"reread", "finalize"} /\ b.run = a.run
               /\ a.pc \in {"cancel", "reread", "finalize"}
<1> DEFINE Moves(a, b) ==
             \/ b = a
             \/ b.pc \in {"read", "done", "threw"}
             \/ b.pc = "request" /\ b.session.active = b.run
             \/ /\ b.pc = "cancel" /\ b.run = a.run /\ a.run \in Runs
                /\ session'.interruptions[a.run] # "none"
             \/ /\ b.pc \in {"reread", "finalize"} /\ b.run = a.run
                /\ a.pc \in {"cancel", "reread", "finalize"}
<1>1. CASE UNCHANGED interrupt
  BY <1>1
<1>2. ASSUME NEW q \in Interrupters, NEW rec, SetInterrupt(q, rec), Moves(interrupt[q], rec)
      PROVE  Moves(interrupt[p], interrupt'[p])
  <2>1. DOMAIN interrupt = Interrupters
    BY DEF TypeInv, InterruptsOK
  <2>2. interrupt'[p] = IF p = q THEN rec ELSE interrupt[p]
    BY <1>2, <2>1 DEF SetInterrupt
  <2> QED BY <1>2, <2>2
<1> HIDE DEF Moves
<1>3. ASSUME NEW q \in Interrupters,
             \/ InterruptActiveRun(q) \/ InterruptStep(q)
             \/ RequestUnannounced(q) \/ InterruptCancelFails(q) \/ InterruptThrows(q)
      PROVE  \E rec : SetInterrupt(q, rec) /\ Moves(interrupt[q], rec)
  <2> DEFINE i == interrupt[q]
  <2>1. i \in Request(InterruptSteps) /\ InterruptOK(i)
    BY DEF TypeInv, InterruptsOK, InterruptOK
  <2>2. \A how \in {"done", "threw"} : Moves(i, Finished(how))
    BY DEF Moves, Finished, NoRequest
  <2>3. CASE InterruptActiveRun(q)
    <3>1. Moves(i, [i EXCEPT !.pc = "read", !.run = session.active])
      BY <2>1 DEF Moves, Request
    <3> QED BY <2>3, <3>1 DEF InterruptActiveRun
  <2>4. CASE ReadForRequest(q)
    <3>1. CASE session.status # "running" \/ session.active # i.run
      BY <2>2, <2>4, <3>1 DEF ReadForRequest
    <3>2. CASE session.active = i.run /\ session.status = "running" /\ session.interruptions[i.run] # "none"
      <4>1. UNCHANGED session /\ i.run \in Runs
        BY <2>1, <2>4 DEF ReadForRequest, store, InterruptOK
      <4>2. Moves(i, [i EXCEPT !.pc = "cancel", !.tries = 0])
        BY <2>1, <3>2, <4>1 DEF Moves, Request
      <4> QED BY <2>4, <3>2, <4>2 DEF ReadForRequest
    <3>3. CASE session.active = i.run /\ session.status = "running" /\ session.interruptions[i.run] = "none"
      <4>1. Moves(i, [i EXCEPT !.pc = "request", !.revision = revision, !.session = session])
        BY <2>1, <3>3 DEF Moves, Request
      <4> QED BY <2>4, <3>3, <4>1 DEF ReadForRequest
    <3> QED BY <3>1, <3>2, <3>3
  <2>5. CASE RecordRequest(q)
    <3>1. i.run \in Runs /\ i.session = session
      BY <2>1, <2>5 DEF RecordRequest, InterruptOK, Wins, CopiesInv, CurrentAt
    <3>2. session' = [session EXCEPT !.interruptions = [session.interruptions EXCEPT ![i.run] = "requested"]]
      BY <2>5, <3>1 DEF RecordRequest, Save
    <3>3. session'.interruptions[i.run] # "none"
      BY <3>1, <3>2 DEF TypeInv, StoreOK, WellFormed, Session
    <3>4. Moves(i, [i EXCEPT !.pc = "cancel", !.tries = 0])
      BY <2>1, <3>1, <3>3 DEF Moves, Request
    <3> QED BY <2>5, <3>4 DEF RecordRequest
  <2>6. CASE InterruptCancelRun(q) \/ InterruptCancelFails(q)
    <3>1. i.pc = "cancel"
      BY <2>6 DEF InterruptCancelRun, InterruptCancelFails
    <3>2. \A v : Moves(i, [i EXCEPT !.pc = "reread", !.verdict = v])
      BY <2>1, <3>1 DEF Moves, Request
    <3> QED BY <2>6, <3>2 DEF InterruptCancelRun, InterruptCancelFails
  <2>7. CASE ReadForVerdict(q)
    <3>1. i.pc = "reread"
      BY <2>7 DEF ReadForVerdict
    <3>2. Moves(i, [i EXCEPT !.pc = "finalize", !.revision = revision, !.session = session])
      BY <2>1, <3>1 DEF Moves, Request
    <3> QED BY <2>2, <2>7, <3>2, Zenon DEF ReadForVerdict
  <2>8. CASE FinalizeInterruption(q)
    BY <2>2, <2>8 DEF FinalizeInterruption
  <2>9. ASSUME i.pc \in {"request", "finalize"} PROVE Moves(i, NextTry(i))
    <3>1. \A n : i.pc = "request" => Moves(i, [i EXCEPT !.pc = "read", !.tries = n])
      BY <2>1 DEF Moves, Request
    <3>2. \A n : i.pc = "finalize" => Moves(i, [i EXCEPT !.pc = "reread", !.tries = n])
      BY <2>1 DEF Moves, Request
    <3>3. CASE i.tries + 1 = InterruptTries
      BY <2>2, <3>3 DEF NextTry
    <3>4. CASE i.tries + 1 # InterruptTries /\ i.pc = "request"
      <4>1. NextTry(i) = [i EXCEPT !.pc = "read", !.tries = i.tries + 1]
        BY <2>1, <3>4 DEF NextTry, Request
      <4> QED BY <3>1, <3>4, <4>1
    <3>5. CASE i.tries + 1 # InterruptTries /\ i.pc = "finalize"
      <4>1. NextTry(i) = [i EXCEPT !.pc = "reread", !.tries = i.tries + 1]
        BY <2>1, <3>5 DEF NextTry, Request
      <4> QED BY <3>2, <3>5, <4>1
    <3> QED BY <2>9, <3>3, <3>4, <3>5
  <2>10. CASE InterruptLoses(q)
    BY <2>9, <2>10 DEF InterruptLoses
  <2>11. CASE RequestUnannounced(q)
    BY <2>9, <2>11 DEF RequestUnannounced
  <2>12. CASE InterruptThrows(q)
    BY <2>2, <2>12 DEF InterruptThrows
  <2> QED BY <1>3, <2>3, <2>4, <2>5, <2>6, <2>7, <2>8, <2>10, <2>11, <2>12 DEF InterruptStep
<1>4. CASE \E q \in Interrupters :
             \/ InterruptActiveRun(q) \/ InterruptStep(q)
             \/ RequestUnannounced(q) \/ InterruptCancelFails(q) \/ InterruptThrows(q)
  BY <1>2, <1>3, <1>4 DEF Moves
<1>5. CASE Crash
  <2>1. interrupt'[p] = Dies(interrupt[p])
    BY <1>5 DEF Crash
  <2> QED BY <2>1 DEF Dies, Finished, NoRequest
<1>6. CASE CoordinatorStep \/ CancelTimedOutFails \/ PromoteFails \/ DeliveryThrows
  BY <1>1, <1>6, CoordinatorCall
<1>7. CASE (\E q \in StopCallers : StopStep(q) \/ StopCancelFails(q) \/ StopThrows(q))
  BY <1>1, <1>7, StopTracks
<1>8. CASE CreatorThrows \/ PublishFirstTurn \/ (\E r \in Runs : FinishRun(r))
           \/ (\E t \in Turns : WindowExpires(t)) \/ UNCHANGED vars
  BY <1>1, <1>8 DEF CreatorThrows, PublishFirstTurn, FinishRun, WindowExpires, vars
<1> QED BY <1>4, <1>5, <1>6, <1>7, <1>8 DEF Next, Trouble

LEMMA RequestKept == ASSUME TypeInv, CopiesInv, EarnedInv, [Next]_vars PROVE RequestInv'
<1> SUFFICES ASSUME NEW p \in Interrupters
             PROVE  LET i == interrupt'[p] IN
                    /\ i.pc = "request" => i.session.active = i.run
                    /\ i.pc \in {"cancel", "reread", "finalize"} => session'.interruptions[i.run] # "none"
  BY DEF RequestInv
<1> DEFINE a == interrupt[p]
           b == interrupt'[p]
<1>1. /\ a.pc = "request" => a.session.active = a.run
      /\ a.pc \in {"cancel", "reread", "finalize"} => a.run \in Runs /\ session.interruptions[a.run] # "none"
  BY DEF EarnedInv, RequestInv, TypeInv, InterruptsOK, InterruptOK
<1>2. a.pc \in {"cancel", "reread", "finalize"} => session'.interruptions[a.run] # "none"
  BY <1>1, Persistence
<1>3. \/ b = a
      \/ b.pc \in {"read", "done", "threw"}
      \/ b.pc = "request" /\ b.session.active = b.run
      \/ b.pc = "cancel" /\ b.run = a.run /\ session'.interruptions[a.run] # "none"
      \/ b.pc \in {"reread", "finalize"} /\ b.run = a.run /\ a.pc \in {"cancel", "reread", "finalize"}
  BY RequestMoves
<1> HIDE DEF a, b
<1>4. /\ b.pc = "request" => b.session.active = b.run
      /\ b.pc \in {"cancel", "reread", "finalize"} => session'.interruptions[b.run] # "none"
  BY <1>1, <1>2, <1>3
<1> QED BY <1>4 DEF b

\* The steps that lead to, or keep, a run in hand.
LEMMA HandComes ==
  ASSUME TypeInv, [Next]_vars, coord'.pc \in Hands
  PROVE  \/ UNCHANGED coord
         \/ (\E r \in Runs : StartRun(r)) \/ RecordRun \/ WaitForRun \/ TimeOut
         \/ CancelTimedOut \/ CancelTimedOutFails \/ RereadJudge \/ Promote \/ MarkCommitted
<1>1. coord \in CoordRecord
  BY InHand
<1>2. /\ \A step : Goto(step) => coord'.pc = step
      /\ \A s, step : Commit(s, step) => coord'.pc = step
      /\ coord' # Idle
      /\ \A s : GiveUp(s) \notin Hands
  <2>1. \A step : Goto(step) => coord'.pc = step
    BY <1>1 DEF Goto, CoordRecord
  <2>2. \A s, step : Commit(s, step) => coord'.pc = step
    BY <1>1 DEF Commit, CoordRecord
  <2>3. coord' # Idle
    BY DEF Idle, Hands
  <2>4. \A s : GiveUp(s) \notin Hands
    BY DEF GiveUp, Hands
  <2> QED BY <2>1, <2>2, <2>3, <2>4
<1>3. CASE CoordinatorStep
  <2>1. ~\E m \in 1..Len(mailbox) : Receive(m)
    BY DEF Receive, Deliver, Hands
  <2>2. ~SuppressDuplicate /\ ~ClaimTurn /\ ~InjectFault /\ ~Accept /\ ~FailSession
    BY <1>2 DEF SuppressDuplicate, ClaimTurn, InjectFault, Accept, AcceptExpecting, FailSession, Hands
  <2>3. ~StartRejected /\ ~RereadEnded /\ ~DiscardWorkspace
    BY <1>2 DEF StartRejected, RereadEnded, DiscardWorkspace, Hands
  <2>4. ~RecordLost
    BY <1>2 DEF RecordLost, Hands
  <2>5. ~AfterStop /\ ~PublishExpected
    BY <1>1, <1>2 DEF AfterStop, PublishExpected, CoordRecord, Hands
  <2>6. ~RereadChanged
    BY <1>1, <1>2 DEF RereadChanged, CoordRecord, GiveUp, Hands
  <2>7. ~Settle /\ ~RetryTurn /\ ~LoseRace
    BY <1>2 DEF Settle, RetryTurn, LoseRace
  <2>8. ~RecoverSession
    BY <1>1, <1>2 DEF RecoverSession, CoordRecord, Hands
  <2> QED BY <1>3, <2>1, <2>2, <2>3, <2>4, <2>5, <2>6, <2>7, <2>8 DEF CoordinatorStep
<1>4. CASE Trouble
  <2>1. ~PromoteFails /\ ~DeliveryThrows /\ ~Crash
    BY <1>2 DEF PromoteFails, DeliveryThrows, Crash, Idle, Hands
  <2> QED BY <1>4, <2>1 DEF Trouble, CreatorThrows, StopCancelFails, StopThrows,
         RequestUnannounced, InterruptCancelFails, InterruptThrows
<1>5. CASE \E p \in StopCallers : StopStep(p)
  BY <1>5 DEF StopStep, StopRead, StopCommit, StopLoses, StopCancelRun, StopReadAgain, StopNote
<1>6. CASE \E p \in Interrupters : InterruptActiveRun(p) \/ InterruptStep(p)
  BY <1>6 DEF InterruptActiveRun, InterruptStep, ReadForRequest, RecordRequest,
       InterruptCancelRun, ReadForVerdict, FinalizeInterruption, InterruptLoses
<1>7. CASE PublishFirstTurn \/ (\E r \in Runs : FinishRun(r)) \/ (\E t \in Turns : WindowExpires(t))
           \/ UNCHANGED vars
  BY <1>7 DEF PublishFirstTurn, FinishRun, WindowExpires, vars
<1> QED BY <1>3, <1>4, <1>5, <1>6, <1>7 DEF Next

\* A run in hand stays the same run on the same turn.
LEMMA HandStays ==
  ASSUME TypeInv, [Next]_vars, coord'.pc \in Hands, \A r \in Runs : ~StartRun(r)
  PROVE  /\ coord.pc \in Hands /\ coord.run \in Runs
         /\ coord'.run = coord.run /\ Turn' = Turn
         /\ coord'.session.interruptions = coord.session.interruptions
         /\ GoesOn(runs[coord.run], runs'[coord.run])
         /\ TimeOut \/ runs'[coord.run].late = runs[coord.run].late
<1>1. coord \in CoordRecord /\ coord.session \in Session
  BY InHand DEF WellFormed
<1>2. /\ coord.pc \in Hands /\ coord'.run = coord.run /\ coord'.msg = coord.msg
      /\ coord'.session.interruptions = coord.session.interruptions
  <2>1. CASE UNCHANGED coord
    BY <2>1
  <2>2. CASE RecordRun
    <3>1. PICK s : s = [coord.session EXCEPT !.active = coord.run]
      OBVIOUS
    <3>2. s.interruptions = coord.session.interruptions
      BY <1>1, <3>1 DEF Session
    <3>3. coord' = [coord EXCEPT !.pc = "wait", !.revision = revision + 1, !.session = s]
      BY <2>2, <3>1 DEF RecordRun, Commit
    <3> QED BY <1>1, <2>2, <3>2, <3>3 DEF RecordRun, CoordRecord, Hands
  <2>3. CASE WaitForRun \/ TimeOut
    BY <1>1, <2>3 DEF WaitForRun, TimeOut, CoordRecord, Hands
  <2>4. CASE CancelTimedOut \/ CancelTimedOutFails \/ RereadJudge \/ Promote \/ MarkCommitted
    BY <1>1, <2>4 DEF CancelTimedOut, CancelTimedOutFails, RereadJudge, Promote, MarkCommitted, Goto,
                      CoordRecord, Hands
  <2> QED BY <2>1, <2>2, <2>3, <2>4, HandComes
<1>3. coord.run \in Runs /\ coord.msg \in 1..Len(mailbox)
  BY <1>2, InHand DEF Hands, RunSteps, DeliverySteps
<1>4. Turn' = Turn
  BY <1>2, <1>3, MessagesStay DEF Turn
<1> QED BY <1>2, <1>3, <1>4, RunsGoOn

LEMMA EarningKept == ASSUME TypeInv, CopiesInv, EarnedInv, [Next]_vars PROVE EarningInv'
<1>1. CASE coord'.pc \notin Hands
  BY <1>1 DEF EarningInv, Hands, Judged
<1>2. CASE \E q \in Runs : StartRun(q)
  <2>1. PICK q \in Runs : StartRun(q)
    BY <1>2
  <2>2. PICK rec : /\ runs' = [runs EXCEPT ![q] = rec]
                   /\ rec.status = "active" /\ rec.turn = Turn /\ ~rec.late
    BY <2>1, StartedRun
  <2>3. coord'.pc = "record" /\ coord'.run = q /\ coord'.msg = coord.msg /\ coord'.session = coord.session
    BY <2>1, InHand DEF StartRun, Start, CoordRecord
  <2>4. runs'[q] = rec /\ Turn' = Turn
    BY <2>1, <2>2, <2>3 DEF TypeInv, RunsOK, StartRun, Start, Turn
  <2>5. coord.session.interruptions[q] = "none"
    BY <2>1 DEF StartRun, Start, EarnedInv, FreshInv
  <2> QED BY <2>2, <2>3, <2>4, <2>5 DEF EarningInv, Used, Hands, Judged
<1>3. CASE coord'.pc \in Hands /\ \A r \in Runs : ~StartRun(r)
  <2> DEFINE a == runs[coord.run]
             b == runs'[coord.run]
  <2>1. /\ coord.pc \in Hands /\ coord.run \in Runs /\ coord'.run = coord.run /\ Turn' = Turn
        /\ coord'.session.interruptions = coord.session.interruptions
        /\ GoesOn(a, b) /\ (TimeOut \/ b.late = a.late)
    BY <1>3, HandStays
  <2>2. coord \in CoordRecord
    BY InHand
  <2>3. /\ Used(coord.run) /\ a.turn = Turn /\ coord.session.interruptions[coord.run] = "none"
        /\ coord.pc \in {"record", "wait"} => ~a.late
        /\ coord.pc = "expire" => coord.outcome = "failed"
        /\ coord.pc = "reread" /\ coord.outcome = "completed" => a.status = "completed" /\ ~a.late
        /\ coord.pc \in Judged => a.status = "completed" /\ a.output = "valid" /\ ~a.late
        /\ coord.pc = "accept" /\ Transactional => a.workspace = "committed"
    BY <2>1 DEF EarnedInv, EarningInv
  <2>4. b.status # "unused" /\ b.turn = Turn'
    BY <2>1, <2>3 DEF GoesOn, Used
  <2> HIDE DEF a, b
  <2>5. /\ coord'.pc \in {"record", "wait"} => ~b.late
        /\ coord'.pc = "expire" => coord'.outcome = "failed"
        /\ coord'.pc = "reread" /\ coord'.outcome = "completed" => b.status = "completed" /\ ~b.late
        /\ coord'.pc \in Judged => b.status = "completed" /\ b.output = "valid" /\ ~b.late
        /\ coord'.pc = "accept" /\ Transactional => b.workspace = "committed"
    <3>1. CASE UNCHANGED coord
      BY <2>1, <2>3, <3>1, StillCoord DEF GoesOn
    <3>2. CASE RecordRun
      <4>1. coord'.pc = "wait" /\ b = a /\ coord.pc = "record"
        BY <2>2, <3>2 DEF RecordRun, Commit, CoordRecord, a, b
      <4> QED BY <2>3, <4>1 DEF Judged
    <3>3. CASE WaitForRun
      <4>1. /\ coord'.pc = "reread" /\ b = a /\ coord.pc = "wait"
            /\ coord'.outcome = "completed" => a.status = "completed"
        BY <2>2, <3>3 DEF WaitForRun, CoordRecord, a, b
      <4> QED BY <2>3, <4>1 DEF Judged
    <3>4. CASE TimeOut
      <4>1. coord'.pc = "expire" /\ coord'.outcome = "failed"
        BY <2>2, <3>4 DEF TimeOut, CoordRecord
      <4> QED BY <4>1 DEF Judged
    <3>5. CASE CancelTimedOut \/ CancelTimedOutFails
      <4>1. coord'.pc = "reread" /\ coord.pc = "expire" /\ coord'.outcome = coord.outcome
        BY <2>2, <3>5 DEF CancelTimedOut, CancelTimedOutFails, Goto, CoordRecord
      <4> QED BY <2>3, <4>1 DEF Judged
    <3>6. CASE RereadJudge
      <4>1. /\ coord.pc = "reread" /\ b = a
            /\ coord'.pc \in {"promote", "accept"} =>
                 /\ coord.outcome = "completed" /\ a.output = "valid"
                 /\ coord'.pc = "accept" => ~Transactional
            /\ coord'.pc \in {"promote", "accept", "fail", "discard"}
        BY <2>2, <3>6 DEF RereadJudge, Goto, CoordRecord, GiveUp, a, b
      <4> QED BY <2>3, <4>1 DEF Judged
    <3>7. CASE Promote
      <4>1. coord'.pc = "mark" /\ coord.pc = "promote" /\ b = a
        BY <2>2, <3>7 DEF Promote, Goto, CoordRecord, a, b
      <4> QED BY <2>3, <4>1 DEF Judged
    <3>8. CASE MarkCommitted
      <4>1. coord'.pc = "accept" /\ coord.pc = "mark"
        BY <2>2, <3>8 DEF MarkCommitted, Goto, CoordRecord
      <4>2. b = [a EXCEPT !.workspace = "committed"] /\ a \in RunRecord
        BY <2>1, <3>8 DEF MarkCommitted, TypeInv, RunsOK, a, b
      <4> QED BY <2>3, <4>1, <4>2 DEF Judged, RunRecord
    <3> QED BY <1>3, <3>1, <3>2, <3>3, <3>4, <3>5, <3>6, <3>7, <3>8, HandComes
  <2>6. Used(coord.run)' /\ runs'[coord'.run] = b
    BY <2>1, <2>4 DEF Used, b
  <2> QED BY <2>1, <2>3, <2>4, <2>5, <2>6 DEF EarningInv, Used
<1> QED BY <1>1, <1>2, <1>3

LEMMA AcceptedKept == ASSUME TypeInv, CopiesInv, EarnedInv, [Next]_vars PROVE AcceptedRunsEarned'
<1> DEFINE Earned(r, t) ==
             /\ r \in Runs
             /\ runs[r].turn = t
             /\ runs[r].status = "completed" /\ runs[r].output = "valid" /\ ~runs[r].late
             /\ session.interruptions[r] = "none"
             /\ Transactional => runs[r].workspace = "committed"
<1>1. session.accepted \in Seq([turn : Turns, run : Runs]) /\ Len(session.accepted) \in Nat
  BY DEF TypeInv, StoreOK, WellFormed, Session
<1>2. ASSUME NEW i \in 1..Len(session.accepted)
      PROVE  Earned(session.accepted[i].run, session.accepted[i].turn)'
  <2> DEFINE r == session.accepted[i].run
  <2>1. r \in Runs
    BY <1>2, NextInHand DEF EarnedInv
  <2>2. Earned(r, session.accepted[i].turn)
    BY <2>1 DEF EarnedInv, AcceptedRunsEarned
  <2>3. ~(TimeOut /\ r = coord.run)
    BY HandIsNew DEF TimeOut, Hands
  <2>4. session'.interruptions[r] = "none"
    BY <2>1, <2>2, Persistence
  <2>5. /\ runs'[r].turn = session.accepted[i].turn
        /\ runs'[r].status = "completed" /\ runs'[r].output = "valid" /\ ~runs'[r].late
        /\ Transactional => runs'[r].workspace = "committed"
    BY <2>1, <2>2, <2>3, EndedStay
  <2>6. i \in 1..Len(session'.accepted) /\ session'.accepted[i] = session.accepted[i]
    BY <1>1, SessionWrites, AcceptedIs DEF SessionGoesOn
  <2> QED BY <2>1, <2>4, <2>5, <2>6
<1>3. CASE Accept
  <2>1. session'.accepted = Append(session.accepted, [turn |-> Turn, run |-> coord.run])
        /\ UNCHANGED runs /\ session'.interruptions = session.interruptions
        /\ coord.session = session
    BY <1>3, AcceptedIs
  <2>2. /\ runs[coord.run].turn = Turn
        /\ runs[coord.run].status = "completed" /\ runs[coord.run].output = "valid" /\ ~runs[coord.run].late
        /\ session.interruptions[coord.run] = "none"
        /\ Transactional => runs[coord.run].workspace = "committed"
    BY <1>3, <2>1 DEF Accept, AcceptExpecting, EarnedInv, EarningInv, Hands, Judged
  <2> DEFINE e == [turn |-> Turn, run |-> coord.run]
  <2>3. e.turn = Turn /\ e.run = coord.run
    OBVIOUS
  <2> HIDE DEF e
  <2>4. /\ Len(session'.accepted) = Len(session.accepted) + 1
        /\ session'.accepted[Len(session.accepted) + 1] = e
        /\ \A i \in 1..Len(session.accepted) : session'.accepted[i] = session.accepted[i]
    BY <1>1, <2>1 DEF e
  <2> QED BY <1>1, <1>2, <2>1, <2>2, <2>3, <2>4 DEF AcceptedRunsEarned
<1>4. CASE ~Accept
  <2>1. session'.accepted = session.accepted
    BY <1>4, SessionWrites DEF SessionGoesOn
  <2> QED BY <1>2, <2>1 DEF AcceptedRunsEarned
<1> QED BY <1>3, <1>4

LEMMA EarnedInit == Init => EarnedInv
<1> SUFFICES ASSUME Init PROVE EarnedInv
  OBVIOUS
<1> USE DEF Init
<1>1. session = NewSession /\ coord.session = NewSession /\ coord.pc = "idle"
  BY DEF Idle
<1>2. MineInv /\ ActiveInv /\ EarningInv
  BY <1>1 DEF MineInv, ActiveInv, EarningInv, NewSession, Hands, Judged
<1>3. FreshInv
  BY <1>1 DEF FreshInv, UnusedRun, NewSession
<1>4. RequestInv
  BY DEF RequestInv, NoRequest
<1>5. AcceptedRunsEarned
  BY <1>1 DEF AcceptedRunsEarned, NewSession
<1> QED BY <1>2, <1>3, <1>4, <1>5 DEF EarnedInv

LEMMA EarnedInvariance == Spec => [](TypeInv /\ CopiesInv /\ EarnedInv)
<1>1. TypeInv /\ CopiesInv /\ EarnedInv /\ [Next]_vars => EarnedInv'
  BY MineKept, FreshKept, ActiveKept, EarningKept, RequestKept, AcceptedKept DEF EarnedInv
<1> QED BY <1>1, EarnedInit, TypeInvariance, CopiesInvariance, PTL DEF Spec

\* An accepted run was watched to its end for that very turn: it completed with a
\* valid output before its deadline, uninterrupted, and its copy was promoted.
THEOREM EarnedAcceptance == Spec => []AcceptedRunsEarned
<1>1. EarnedInv => AcceptedRunsEarned
  BY DEF EarnedInv
<1> QED BY <1>1, EarnedInvariance, PTL

-----------------------------------------------------------------------------
(* The promised ledger                                                       *)

\* No step changes a run and the session at once.
LEMMA RunsOrStore ==
  ASSUME [Next]_vars PROVE UNCHANGED runs \/ UNCHANGED store
<1>1. CASE CoordinatorStep
  BY <1>1 DEF CoordinatorStep, Receive, Deliver, SuppressDuplicate, ClaimTurn, InjectFault,
       StartRun, Start, TimeOut, MarkCommitted, DiscardWorkspace,
       StartRejected, RecordRun, RecordLost, AfterStop, WaitForRun, CancelTimedOut,
       RereadEnded, RereadChanged, RereadJudge, Promote, Accept, AcceptExpecting,
       PublishExpected, Settle, RetryTurn, FailSession, LoseRace, RecoverSession
<1>2. CASE Trouble
  BY <1>2 DEF Trouble, CreatorThrows, CancelTimedOutFails, PromoteFails, DeliveryThrows, Crash,
       StopCancelFails, StopThrows, RequestUnannounced, InterruptCancelFails, InterruptThrows
<1>3. CASE \E p \in StopCallers : StopStep(p)
  BY <1>3 DEF StopStep, StopRead, StopCommit, StopLoses, StopCancelRun, StopReadAgain, StopNote
<1>4. CASE \E p \in Interrupters : InterruptActiveRun(p) \/ InterruptStep(p)
  BY <1>4 DEF InterruptActiveRun, InterruptStep, ReadForRequest, RecordRequest,
       InterruptCancelRun, ReadForVerdict, FinalizeInterruption, InterruptLoses
<1>5. CASE PublishFirstTurn \/ (\E r \in Runs : FinishRun(r)) \/ (\E t \in Turns : WindowExpires(t))
           \/ UNCHANGED vars
  BY <1>5 DEF PublishFirstTurn, FinishRun, WindowExpires, vars
<1> QED BY <1>1, <1>2, <1>3, <1>4, <1>5 DEF Next

\* The verdict on a run: a void run stays void, an accepted one stays valid.
LEMMA VerdictStays ==
  ASSUME TypeInv, CopiesInv, EarnedInv, [Next]_vars, NEW r \in Runs
  PROVE  \/ Verdict(r)' = Verdict(r)
         \/ Verdict(r) = "open"
         \/ /\ Verdict(r) = "valid" /\ Verdict(r)' = "void"
            /\ \A i \in 1..Len(session.accepted) : session.accepted[i].run # r
<1>1. CASE runs[r].status \in {"unused", "active"} /\ ~runs[r].late /\ session.interruptions[r] = "none"
  BY <1>1 DEF Verdict, EarnedInv, FreshInv
<1>2. CASE session.interruptions[r] # "none"
  BY <1>2, Persistence DEF Verdict
<1>3. CASE runs[r].late
  <2>1. Used(r) /\ runs \in [Runs -> RunRecord]
    BY <1>3 DEF EarnedInv, FreshInv, TypeInv, RunsOK
  <2>2. runs'[r].late
    <3>1. CASE \E q \in Runs : StartRun(q)
      <4>1. PICK q \in Runs : StartRun(q)
        BY <3>1
      <4>2. runs'[r] = runs[r]
        BY <2>1, <4>1 DEF StartRun, Start
      <4> QED BY <1>3, <4>2
    <3>2. CASE TimeOut /\ r = coord.run
      BY <2>1, <3>2 DEF TimeOut, RunRecord
    <3> QED BY <1>3, <3>1, <3>2, RunsGoOn
  <2> QED BY <1>3, <2>2 DEF Verdict
<1>4. CASE runs[r].status \notin {"unused", "active"} /\ ~runs[r].late /\ session.interruptions[r] = "none"
  <2>1. /\ runs'[r].status = runs[r].status /\ runs'[r].output = runs[r].output
        /\ (TimeOut /\ r = coord.run) \/ runs'[r].late = runs[r].late
    BY <1>4, EndedStay
  <2>2. CASE \E i \in 1..Len(session.accepted) : session.accepted[i].run = r
    <3>1. ~(TimeOut /\ r = coord.run)
      BY <2>2, HandIsNew DEF TimeOut, Hands
    <3>2. session'.interruptions[r] = "none"
      BY <1>4, <2>2, Persistence
    <3> QED BY <1>4, <2>1, <3>1, <3>2 DEF Verdict
  <2>3. CASE \A i \in 1..Len(session.accepted) : session.accepted[i].run # r
    <3>1. Verdict(r) \in {"void", "valid"} /\ runs[r].status \in {"completed", "failed", "cancelled"}
      BY <1>4 DEF Verdict, TypeInv, RunsOK, RunRecord
    <3>2. Verdict(r) = "void" => Verdict(r)' = "void"
      BY <1>4, <2>1 DEF Verdict
    <3>3. Verdict(r)' \in {"void", "valid"}
      BY <2>1, <3>1 DEF Verdict
    <3> QED BY <2>3, <3>1, <3>2, <3>3
  <2> QED BY <2>2, <2>3
<1> QED BY <1>1, <1>2, <1>3, <1>4

RunList == [i \in 1..Len(session.accepted) |-> session.accepted[i].run]
VerdictOf == [r \in Runs |-> Verdict(r)]

LEMMA RunListIs ==
  ASSUME TypeInv
  PROVE  /\ RunList \in Seq(Runs) /\ Len(RunList) = Len(session.accepted)
         /\ Ledger!Accepted = {session.accepted[i].run : i \in 1..Len(session.accepted)}
<1>1. /\ session.accepted \in Seq([turn : Turns, run : Runs]) /\ Len(session.accepted) \in Nat
  BY DEF TypeInv, StoreOK, WellFormed, Session
<1>2. \A i \in 1..Len(session.accepted) : session.accepted[i].run \in Runs
  <2>1. \A i \in 1..Len(session.accepted) : session.accepted[i] \in [turn : Turns, run : Runs]
    BY <1>1, ElementOfSeq
  <2> QED BY <2>1
<1>3. RunList \in Seq(Runs) /\ Len(RunList) = Len(session.accepted)
  BY <1>1, <1>2 DEF RunList
<1>4. Ledger!Accepted = {RunList[i] : i \in 1..Len(RunList)}
  BY DEF Ledger!Accepted, RunList
<1> QED BY <1>1, <1>3, <1>4 DEF RunList

LEMMA StepFollowsLedger ==
  ASSUME TypeInv, TypeInv', CopiesInv, EarnedInv, [Next]_vars
  PROVE  [Ledger!Next]_(Ledger!ledgerVars)
<1>1. session.accepted \in Seq([turn : Turns, run : Runs]) /\ Len(session.accepted) \in Nat
  BY DEF TypeInv, StoreOK, WellFormed, Session
<1>2. CASE Accept
  <2>1. /\ Running /\ coord.session = session /\ coord.run \in Runs /\ coord.pc = "accept"
        /\ session'.accepted = Append(session.accepted, [turn |-> Turn, run |-> coord.run])
        /\ session'.interruptions = session.interruptions
        /\ session'.status = IF Turn = NumTurns THEN "completed" ELSE session.status
        /\ UNCHANGED runs
    BY <1>2, AcceptedIs DEF Accept, AcceptExpecting
  <2>2. Turn = Len(session.accepted) + 1 /\ Len(session.accepted) < NumTurns
    <3>1. Turn = Len(session.accepted) + 1
      BY <2>1, NextInHand DEF EarnedInv, RunSteps
    <3>2. Len(session.accepted) <= NumTurns /\ Len(session.accepted) # NumTurns
      BY <2>1 DEF TypeInv, StoreOK, WellFormed, LedgerOK, Running
    <3> QED BY <1>1, <3>1, <3>2, ConstantsAssumption
  <2>3. VerdictOf' = VerdictOf
    BY <2>1 DEF VerdictOf, Verdict
  <2>4. VerdictOf[coord.run] = "valid"
    BY <2>1 DEF VerdictOf, Verdict, EarnedInv, EarningInv, Hands, Judged
  <2>5. coord.run \notin Ledger!Accepted
    BY <2>1, RunListIs, HandIsNew DEF Hands
  <2>6. RunList' = Append(RunList, coord.run)
    <3> DEFINE e == [turn |-> Turn, run |-> coord.run]
    <3>1. e.run = coord.run
      OBVIOUS
    <3> HIDE DEF e
    <3>2. /\ Len(session'.accepted) = Len(session.accepted) + 1
          /\ session'.accepted[Len(session.accepted) + 1] = e
          /\ \A i \in 1..Len(session.accepted) : session'.accepted[i] = session.accepted[i]
      BY <1>1, <2>1 DEF e
    <3>3. RunList' = [i \in 1..Len(session.accepted) + 1 |->
                        IF i = Len(session.accepted) + 1 THEN coord.run ELSE session.accepted[i].run]
      BY <1>1, <3>1, <3>2 DEF RunList
    <3>4. Len(RunList) = Len(session.accepted) /\ RunList \in Seq(Runs)
      BY RunListIs
    <3> QED BY <1>1, <2>1, <3>3, <3>4 DEF RunList
  <2>7. PICK r \in Runs : r = coord.run
    BY <2>1
  <2>8. Ledger!Accept(r)
    <3>1. Len(RunList) = Len(session.accepted) /\ NumTurns \in Nat
      BY RunListIs, ConstantsAssumption
    <3>2. session'.status = IF Len(RunList) + 1 = NumTurns THEN "completed" ELSE "running"
      BY <2>1, <2>2, <3>1 DEF Running
    <3> QED BY <2>1, <2>2, <2>3, <2>4, <2>5, <2>6, <2>7, <3>1, <3>2
         DEF Ledger!Accept, Running, RunList, VerdictOf
  <2> QED BY <2>8 DEF Ledger!Next
<1>3. CASE ~Accept /\ session'.status # session.status
  <2>1. Running /\ session'.status \in {"failed", "cancelled"} /\ session'.accepted = session.accepted
    BY <1>3, SessionWrites DEF SessionGoesOn
  <2>2. session'.interruptions = session.interruptions
    <3>1. \A p \in Interrupters : \A x : ~Interrupts(p, x)
      BY <1>3 DEF Interrupts, TypeInv, StoreOK, WellFormed, Session
    <3> QED BY <3>1, SessionWrites DEF SessionGoesOn
  <2>3. UNCHANGED runs
    BY <1>3, RunsOrStore DEF store
  <2>4. VerdictOf' = VerdictOf
    BY <2>2, <2>3 DEF VerdictOf, Verdict
  <2>5. RunList' = RunList
    BY <2>1 DEF RunList
  <2>6. Ledger!End
    BY <2>1, <2>4, <2>5 DEF Ledger!End, Running, RunList, VerdictOf
  <2> QED BY <2>6 DEF Ledger!Next
<1>4. CASE ~Accept /\ session'.status = session.status
  <2>1. session'.accepted = session.accepted /\ RunList' = RunList
    BY <1>4, SessionWrites DEF SessionGoesOn, RunList
  <2>2. VerdictOf' \in [Runs -> {"open", "valid", "void"}]
    BY DEF VerdictOf, Verdict
  <2>3. ASSUME NEW r \in Runs
        PROVE  \/ VerdictOf'[r] = VerdictOf[r]
               \/ VerdictOf[r] = "open"
               \/ VerdictOf[r] = "valid" /\ r \notin Ledger!Accepted /\ VerdictOf'[r] = "void"
    <3>1. VerdictOf[r] = Verdict(r) /\ VerdictOf'[r] = Verdict(r)'
      BY DEF VerdictOf
    <3>2. (\A i \in 1..Len(session.accepted) : session.accepted[i].run # r) => r \notin Ledger!Accepted
      BY RunListIs
    <3> QED BY <3>1, <3>2, VerdictStays
  <2>4. Ledger!Judge
    BY <1>4, <2>1, <2>2, <2>3 DEF Ledger!Judge, RunList, VerdictOf
  <2> QED BY <2>4 DEF Ledger!Next
<1> QED BY <1>2, <1>3, <1>4

\* The stored session is the ledger promised to the operator: valid runs only,
\* one per turn in turn order, each accepted once and judged once, frozen at the
\* end of the session.
THEOREM FollowsLedger == Spec => LedgerSpec
<1>1. Init => Ledger!Init
  <2> SUFFICES ASSUME Init PROVE Ledger!Init
    OBVIOUS
  <2>1. session = NewSession /\ runs = [r \in Runs |-> UnusedRun]
    BY DEF Init
  <2>2. VerdictOf = [r \in Runs |-> "open"]
    BY <2>1 DEF VerdictOf, Verdict, NewSession, UnusedRun
  <2>3. RunList = << >>
    BY <2>1 DEF RunList, NewSession
  <2> QED BY <2>1, <2>2, <2>3 DEF Ledger!Init, RunList, VerdictOf, NewSession
<1>2. TypeInv /\ TypeInv' /\ CopiesInv /\ EarnedInv /\ [Next]_vars => [Ledger!Next]_(Ledger!ledgerVars)
  BY StepFollowsLedger
<1> QED BY <1>1, <1>2, EarnedInvariance, PTL DEF Spec, LedgerSpec, Ledger!Spec

-----------------------------------------------------------------------------
(* The steps of the coordinator                                              *)

\* Where a step can lead it.
LEMMA CoordComes ==
  ASSUME TypeInv, [Next]_vars
  PROVE  \/ UNCHANGED coord
         \/ coord'.pc \in Hands \cup {"idle", "retry"}
         \/ Crash /\ coord'.pc = "recover"
         \/ (\E m \in 1..Len(mailbox) : Receive(m)) /\ coord'.pc \in {"settle", "suppress", "fail", "claim"}
         \/ SuppressDuplicate /\ coord'.pc = "publish"
         \/ ClaimTurn /\ coord'.pc \in {"inject", "start"}
         \/ /\ InjectFault \/ StartRejected \/ RereadChanged \/ RereadJudge \/ PromoteFails
            /\ coord'.pc \in {"fail", "discard"}
         \/ RecordLost /\ coord'.pc = "stopping"
         \/ AfterStop /\ coord'.pc = "settle"
         \/ RereadEnded /\ coord'.pc = "settle"
         \/ Accept /\ coord'.pc = IF Turn = NumTurns THEN "settle" ELSE "publish"
         \/ PublishExpected /\ coord'.pc = "settle" /\ coord.msg # 0
         \/ FailSession /\ coord'.pc = "settle"
         \/ RecoverSession /\ coord'.pc = "publish"
<1>1. coord \in CoordRecord
  BY InHand
<1>2. /\ \A step : Goto(step) => coord'.pc = step
      /\ \A s, step : Commit(s, step) => coord'.pc = step
      /\ coord' = Idle => coord'.pc = "idle"
  <2>1. \A step : Goto(step) => coord'.pc = step
    BY <1>1 DEF Goto, CoordRecord
  <2>2. \A s, step : Commit(s, step) => coord'.pc = step
    BY <1>1 DEF Commit, CoordRecord
  <2>3. coord' = Idle => coord'.pc = "idle"
    BY DEF Idle
  <2> QED BY <2>1, <2>2, <2>3
<1>3. \A s : GiveUp(s) \in {"fail", "discard"}
  BY DEF GiveUp
<1>4. CASE CoordinatorStep
  <2>1. (\E m \in 1..Len(mailbox) : Receive(m)) => coord'.pc \in {"settle", "suppress", "fail", "claim"}
    BY DEF Receive, Deliver
  <2>2. SuppressDuplicate => coord'.pc = "publish"
    BY <1>2 DEF SuppressDuplicate
  <2>3. ClaimTurn => coord'.pc \in {"inject", "start"}
    BY <1>2 DEF ClaimTurn
  <2>4. /\ InjectFault \/ StartRejected => coord'.pc \in {"fail", "discard"}
        /\ DiscardWorkspace => coord'.pc = "retry"
        /\ RereadEnded \/ FailSession => coord'.pc = "settle"
    BY <1>2, <1>3 DEF InjectFault, StartRejected, DiscardWorkspace, RereadEnded, FailSession
  <2>5. (\E r \in Runs : StartRun(r)) \/ WaitForRun \/ TimeOut => coord'.pc \in Hands
    BY <1>1 DEF StartRun, Start, WaitForRun, TimeOut, CoordRecord, Hands
  <2>6. RecordRun \/ CancelTimedOut \/ Promote \/ MarkCommitted => coord'.pc \in Hands
    BY <1>2 DEF RecordRun, CancelTimedOut, Promote, MarkCommitted, Hands
  <2>7. RecordLost => coord'.pc \in {"stopping", "idle"}
    BY <1>2 DEF RecordLost
  <2>8. AfterStop => coord'.pc \in {"settle", "idle"}
    BY <1>1, <1>2 DEF AfterStop, CoordRecord
  <2>9. RereadChanged => coord'.pc \in {"fail", "discard", "idle"}
    <3>1. ASSUME RereadChanged, coord' # Idle
          PROVE  coord'.pc \in {"fail", "discard"}
      <4>1. PICK step \in {"fail", "discard"} :
              coord' = [coord EXCEPT !.pc = step, !.revision = revision, !.session = session]
        BY <1>3, <3>1 DEF RereadChanged
      <4> QED BY <1>1, <4>1 DEF CoordRecord
    <3> QED BY <1>2, <3>1
  <2>10. RereadJudge => coord'.pc \in Hands \cup {"fail", "discard"}
    BY <1>2, <1>3 DEF RereadJudge, Hands
  <2>11. Accept => coord'.pc = IF Turn = NumTurns THEN "settle" ELSE "publish"
    BY <1>2 DEF Accept, AcceptExpecting
  <2>12. PublishExpected => \/ coord'.pc = "idle"
                            \/ coord'.pc = "settle" /\ coord.msg # 0
    BY <1>1, <1>2 DEF PublishExpected, CoordRecord
  <2>13. Settle \/ RetryTurn \/ LoseRace => coord'.pc = "idle"
    BY <1>2 DEF Settle, RetryTurn, LoseRace
  <2>14. RecoverSession => coord'.pc \in {"publish", "idle"}
    BY <1>1, <1>2 DEF RecoverSession, CoordRecord
  <2> QED BY <1>4, <2>1, <2>2, <2>3, <2>4, <2>5, <2>6, <2>7, <2>8, <2>9, <2>10, <2>11, <2>12, <2>13,
             <2>14 DEF CoordinatorStep
<1>5. CASE Trouble
  <2>1. /\ PromoteFails => coord'.pc \in {"fail", "discard"}
        /\ CancelTimedOutFails => coord'.pc \in Hands
        /\ DeliveryThrows => coord'.pc = "idle"
    BY <1>2, <1>3 DEF PromoteFails, CancelTimedOutFails, DeliveryThrows, Hands
  <2>2. Crash => coord'.pc = "recover"
    BY DEF Crash, Idle
  <2>3. \/ UNCHANGED coord \/ PromoteFails \/ CancelTimedOutFails \/ DeliveryThrows \/ Crash
    BY <1>5 DEF Trouble, CreatorThrows, StopCancelFails, StopThrows,
         RequestUnannounced, InterruptCancelFails, InterruptThrows
  <2> QED BY <2>1, <2>2, <2>3
<1>6. CASE \E p \in StopCallers : StopStep(p)
  BY <1>6 DEF StopStep, StopRead, StopCommit, StopLoses, StopCancelRun, StopReadAgain, StopNote
<1>7. CASE \E p \in Interrupters : InterruptActiveRun(p) \/ InterruptStep(p)
  BY <1>7 DEF InterruptActiveRun, InterruptStep, ReadForRequest, RecordRequest,
       InterruptCancelRun, ReadForVerdict, FinalizeInterruption, InterruptLoses
<1>8. CASE PublishFirstTurn \/ (\E r \in Runs : FinishRun(r)) \/ (\E t \in Turns : WindowExpires(t))
           \/ UNCHANGED vars
  BY <1>8 DEF PublishFirstTurn, FinishRun, WindowExpires, vars
<1> QED BY <1>4, <1>5, <1>6, <1>7, <1>8 DEF Next

\* The turn in hand does not change under the coordinator.
LEMMA TurnStays ==
  ASSUME TypeInv, [Next]_vars, coord.msg \in 1..Len(mailbox), coord'.msg = coord.msg
  PROVE  Turn' = Turn
BY MessagesStay DEF Turn

LEMMA AcceptedTurnsAre ==
  ASSUME TypeInv PROVE AcceptedTurns(session) = 1..Len(session.accepted)
<1>1. \A i \in 1..Len(session.accepted) : session.accepted[i].turn = i
  BY DEF TypeInv, StoreOK, WellFormed, LedgerOK
<1> QED BY <1>1 DEF AcceptedTurns

-----------------------------------------------------------------------------
(* Turns and attempts                                                        *)

\* A turn that was accepted never calls an agent again, whatever is delivered
\* late or twice.
THEOREM NoRerun == Spec => AcceptedTurnIsNotRerun
<1>1. ASSUME TypeInv, EarnedInv, [Next]_vars, NEW r \in Runs, ~Used(r), Used(r)'
      PROVE  runs'[r].turn \notin AcceptedTurns(session)
  <2>1. PICK q \in Runs : StartRun(q)
    BY <1>1, RunsGoOn DEF GoesOn, Used
  <2>2. PICK rec : runs' = [runs EXCEPT ![q] = rec] /\ rec.turn = Turn
    BY <2>1, StartedRun
  <2>3. runs'[r].turn = Turn
    <3>1. r = q
      BY <1>1, <2>2 DEF Used, TypeInv, RunsOK
    <3>2. runs \in [Runs -> RunRecord]
      BY <1>1 DEF TypeInv, RunsOK
    <3>3. runs'[q] = rec
      BY <2>2, <3>2
    <3> QED BY <2>2, <3>1, <3>3
  <2>4. coord.pc = "start"
    BY <2>1 DEF StartRun, Start
  <2>5. Turn = Len(session.accepted) + 1
    BY <1>1, <2>4, NextInHand DEF EarnedInv
  <2>6. Len(session.accepted) \in Nat
    BY <1>1 DEF TypeInv, StoreOK, WellFormed, Session
  <2>7. Turn \notin 1..Len(session.accepted)
    BY <2>5, <2>6
  <2> QED BY <1>1, <2>3, <2>7, AcceptedTurnsAre
<1>2. TypeInv /\ EarnedInv /\ [Next]_vars =>
        [\A r \in Runs : ~Used(r) /\ Used(r)' => runs'[r].turn \notin AcceptedTurns(session)]_vars
  BY <1>1
<1> QED BY <1>2, EarnedInvariance, PTL DEF Spec, AcceptedTurnIsNotRerun

LEMMA RunsOfFinite == ASSUME NEW t PROVE IsFiniteSet(RunsOf(t)) /\ Cardinality(RunsOf(t)) \in Nat
<1>1. IsFiniteSet(Runs)
  BY ConstantsAssumption, FS_Interval DEF Runs
<1>2. RunsOf(t) \subseteq Runs
  BY DEF RunsOf
<1> QED BY <1>1, <1>2, FS_Subset, FS_CardinalityType

\* Only a start adds to the runs of a turn, and only to those of the turn in hand.
LEMMA RunsOfStep ==
  ASSUME TypeInv, [Next]_vars, NEW t
  PROVE  /\ (\A q \in Runs : ~StartRun(q)) => RunsOf(t)' = RunsOf(t)
         /\ \A q \in Runs : StartRun(q) =>
              IF t = Turn THEN Cardinality(RunsOf(t)') = Cardinality(RunsOf(t)) + 1
              ELSE RunsOf(t)' = RunsOf(t)
<1>1. ASSUME \A q \in Runs : ~StartRun(q)
      PROVE  RunsOf(t)' = RunsOf(t)
  <2>1. \A r \in Runs : (Used(r)' <=> Used(r)) /\ runs'[r].turn = runs[r].turn
    BY <1>1, RunsGoOn DEF GoesOn, Used
  <2> QED BY <2>1 DEF RunsOf
<1>2. ASSUME NEW q \in Runs, StartRun(q)
      PROVE  IF t = Turn THEN Cardinality(RunsOf(t)') = Cardinality(RunsOf(t)) + 1
             ELSE RunsOf(t)' = RunsOf(t)
  <2>1. PICK rec : runs' = [runs EXCEPT ![q] = rec] /\ rec.turn = Turn /\ rec.status = "active"
    BY <1>2, StartedRun
  <2>2. /\ runs'[q] = rec /\ \A r \in Runs : r # q => runs'[r] = runs[r]
        /\ runs[q].status = "unused"
    BY <1>2, <2>1 DEF TypeInv, RunsOK, StartRun, Start, Used
  <2>3. CASE t # Turn
    BY <2>1, <2>2, <2>3 DEF RunsOf, Used
  <2>4. CASE t = Turn
    <3>1. RunsOf(t)' = RunsOf(t) \cup {q} /\ q \notin RunsOf(t)
      BY <2>1, <2>2, <2>4 DEF RunsOf, Used
    <3> QED BY <2>4, <3>1, RunsOfFinite, FS_AddElement
  <2> QED BY <2>3, <2>4
<1> QED BY <1>1, <1>2

LEMMA ClaimedAttempts ==
  ASSUME TypeInv, CopiesInv, ClaimTurn
  PROVE  /\ Turn \in Turns /\ coord'.msg = coord.msg /\ coord.msg \in 1..Len(mailbox)
         /\ session'.attempts = [session.attempts EXCEPT ![Turn] = @ + 1]
         /\ UNCHANGED <<runs, mailbox>>
<1>1. coord.session = session /\ session \in Session /\ coord \in CoordRecord
  BY InHand DEF CopiesInv, CurrentAt, Wins, ClaimTurn, Commit, TypeInv, StoreOK, WellFormed
<1>2. PICK s : /\ s = [session EXCEPT !.attempts = [session.attempts EXCEPT ![Turn] = @ + 1]]
               /\ Save(s) /\ coord'.msg = coord.msg
  BY <1>1 DEF ClaimTurn, Commit, CoordRecord
<1>3. s.attempts = [session.attempts EXCEPT ![Turn] = @ + 1]
  BY <1>1, <1>2 DEF Session
<1>4. Turn \in Turns /\ coord.msg \in 1..Len(mailbox)
  BY InHand DEF ClaimTurn, DeliverySteps
<1> QED BY <1>2, <1>3, <1>4 DEF Save, ClaimTurn

LEMMA AttemptKept == ASSUME TypeInv, CopiesInv, EarnedInv, AttemptInv, [Next]_vars PROVE AttemptInv'
<1>1. session.attempts \in [Turns -> 0..MaxAttempts]
  BY DEF TypeInv, StoreOK, WellFormed, Session
<1>2. CASE \E q \in Runs : StartRun(q)
  <2>1. PICK q \in Runs : StartRun(q)
    BY <1>2
  <2>2. coord.pc = "start" /\ coord'.pc = "record" /\ session' = session
    BY <2>1, InHand DEF StartRun, Start, CoordRecord, store
  <2>3. ASSUME NEW t \in Turns PROVE Cardinality(RunsOf(t))' <= session'.attempts[t]
    BY <2>1, <2>2, RunsOfStep DEF AttemptInv, AttemptBeforeRun, RunsOf
  <2> QED BY <2>2, <2>3 DEF AttemptInv, AttemptBeforeRun, RunsOf
<1>3. CASE ClaimTurn
  <2>1. /\ Turn \in Turns /\ Turn' = Turn /\ UNCHANGED runs
        /\ session'.attempts = [session.attempts EXCEPT ![Turn] = @ + 1]
    BY <1>3, ClaimedAttempts, TurnStays
  <2>2. ASSUME NEW t \in Turns
        PROVE  /\ Cardinality(RunsOf(t))' = Cardinality(RunsOf(t)) /\ Cardinality(RunsOf(t)) \in Nat
               /\ Cardinality(RunsOf(t)) <= session.attempts[t]
               /\ session.attempts[t] \in Nat
    <3>1. RunsOf(t)' = RunsOf(t)
      BY <2>1 DEF RunsOf, Used
    <3>2. Cardinality(RunsOf(t)) \in Nat
      BY RunsOfFinite
    <3>3. Cardinality(RunsOf(t)) <= session.attempts[t]
      BY DEF AttemptInv, AttemptBeforeRun, RunsOf
    <3>4. session.attempts[t] \in 0..MaxAttempts
      BY <1>1
    <3>5. session.attempts[t] \in Nat
      BY <3>4, ConstantsAssumption
    <3> QED BY <3>1, <3>2, <3>3, <3>5
  <2>3. ASSUME NEW t \in Turns PROVE Cardinality(RunsOf(t))' <= session'.attempts[t]
    BY <1>1, <2>1, <2>2
  <2>4. PICK t \in Turns : t = Turn
    BY <2>1
  <2>5. Cardinality(RunsOf(t))' + 1 <= session'.attempts[t]
    BY <1>1, <2>1, <2>2, <2>4
  <2>6. RunsOf(Turn)' = RunsOf(t)'
    BY <2>1, <2>4 DEF RunsOf
  <2> QED BY <2>1, <2>3, <2>4, <2>5, <2>6 DEF AttemptInv, AttemptBeforeRun, RunsOf
<1>4. CASE ~ClaimTurn /\ \A q \in Runs : ~StartRun(q)
  <2>1. session'.attempts = session.attempts
    BY <1>4, SessionWrites DEF SessionGoesOn
  <2>2. ASSUME NEW t PROVE RunsOf(t)' = RunsOf(t)
    BY <1>4, RunsOfStep
  <2>3. AttemptBeforeRun'
    BY <2>1, <2>2 DEF AttemptInv, AttemptBeforeRun, RunsOf
  <2>4. ASSUME coord'.pc \in {"inject", "start"}
        PROVE  Cardinality(RunsOf(Turn))' + 1 <= session'.attempts[Turn']
    <3>1. UNCHANGED coord
      BY <1>4, <2>4, CoordComes DEF Hands
    <3>2. Turn' = Turn
      BY <2>4, <3>1, TurnStays, InHand DEF DeliverySteps
    <3>3. PICK t : t = Turn
      OBVIOUS
    <3>4. RunsOf(Turn)' = RunsOf(t)'
      BY <3>2, <3>3 DEF RunsOf
    <3> QED BY <2>1, <2>2, <2>4, <3>1, <3>2, <3>3, <3>4 DEF AttemptInv
  <2> QED BY <2>3, <2>4 DEF AttemptInv
<1> QED BY <1>2, <1>3, <1>4

\* Attempts are counted before an agent starts: no turn ever has more runs than
\* attempts, whatever is lost, throws or crashes in between.
THEOREM AttemptsBeforeRuns == Spec => []AttemptBeforeRun
<1>1. Init => AttemptInv
  <2> SUFFICES ASSUME Init PROVE AttemptInv
    OBVIOUS
  <2>1. ASSUME NEW t \in Turns PROVE Cardinality(RunsOf(t)) <= session.attempts[t]
    <3>1. RunsOf(t) = {}
      BY DEF Init, RunsOf, Used, UnusedRun
    <3> QED BY <3>1, FS_EmptySet DEF Init, NewSession
  <2> QED BY <2>1 DEF Init, Idle, AttemptInv, AttemptBeforeRun, RunsOf
<1>2. TypeInv /\ CopiesInv /\ EarnedInv /\ AttemptInv /\ [Next]_vars => AttemptInv'
  BY AttemptKept
<1>3. AttemptInv => AttemptBeforeRun
  BY DEF AttemptInv
<1> QED BY <1>1, <1>2, <1>3, EarnedInvariance, PTL DEF Spec

-----------------------------------------------------------------------------
(* The mailbox                                                               *)

\* Accepted turns are kept, and only an acceptance adds one.
LEMMA LedgerGrows ==
  ASSUME TypeInv, CopiesInv, [Next]_vars
  PROVE  /\ Len(session.accepted) \in Nat /\ Len(session'.accepted) \in Nat
         /\ ~Accept => session'.accepted = session.accepted
         /\ Accept => Len(session'.accepted) = Len(session.accepted) + 1
         /\ Len(session.accepted) <= Len(session'.accepted)
<1>1. session.accepted \in Seq([turn : Turns, run : Runs]) /\ Len(session.accepted) \in Nat
  BY DEF TypeInv, StoreOK, WellFormed, Session
<1>2. ~Accept => session'.accepted = session.accepted
  BY SessionWrites DEF SessionGoesOn
<1>3. ASSUME Accept
      PROVE  Len(session'.accepted) = Len(session.accepted) + 1
  <2>1. PICK e : session'.accepted = Append(session.accepted, e)
    BY <1>3, AcceptedIs
  <2> QED BY <1>1, <2>1
<1> QED BY <1>1, <1>2, <1>3

\* Whoever gives the turn in hand up holds the turn the session expects.
LEMMA FailingTurn ==
  ASSUME TypeInv, CopiesInv, EarnedInv, TurnInv, [Next]_vars, coord'.pc = "fail"
  PROVE  Turn' = coord'.session.expected
<1>1. MineInv' /\ TypeInv'
  BY MineKept, NextTypeInv DEF EarnedInv
<1>2. /\ coord'.session.expected = Len(coord'.session.accepted) + 1
      /\ coord'.session.accepted = session'.accepted
  BY <1>1 DEF TypeInv, CoordOK, CoordGood, LedgerOK, MineInv
<1>3. CASE UNCHANGED coord
  <2>1. coord.msg \in 1..Len(mailbox)
    BY <1>3, InHand DEF DeliverySteps
  <2>2. Turn' = Turn
    BY <1>3, <2>1, TurnStays
  <2> QED BY <1>3, <2>2 DEF TurnInv
<1>4. CASE \E m \in 1..Len(mailbox) : Receive(m)
  <2>1. PICK m \in 1..Len(mailbox) : Receive(m)
    BY <1>4
  <2>2. /\ Running /\ mailbox[m].turn \notin AcceptedTurns(session)
        /\ coord'.msg = m /\ coord'.session = session
    BY <2>1 DEF Receive, Deliver, Running
  <2>3. Turn' = mailbox[m].turn
    BY <2>1, <2>2, MessagesStay DEF Turn
  <2>4. mailbox[m].turn \in Turns
    <3>1. mailbox \in Seq(Message)
      BY DEF TypeInv, MailboxOK
    <3>2. mailbox[m] \in Message
      BY <3>1, ElementOfSeq
    <3> QED BY <3>2 DEF Message
  <2>5. mailbox[m].turn <= Len(session.accepted) + 1 /\ mailbox[m].turn \notin 1..Len(session.accepted)
    BY <2>2, AcceptedTurnsAre DEF TurnInv
  <2>6. Len(session.accepted) \in Nat /\ session.expected = Len(session.accepted) + 1
    BY <2>2, NextInHand DEF EarnedInv
  <2>7. mailbox[m].turn \in Nat /\ mailbox[m].turn >= 1
    BY <2>4, ConstantsAssumption DEF Turns
  <2> QED BY <2>2, <2>3, <2>5, <2>6, <2>7
<1>5. CASE InjectFault \/ StartRejected \/ RereadChanged \/ RereadJudge \/ PromoteFails
  <2>1. coord.pc \in {"inject", "start", "reread", "promote", "mark"}
    BY <1>5 DEF InjectFault, StartRejected, RereadChanged, RereadJudge, PromoteFails
  <2>2. coord.msg \in 1..Len(mailbox)
    BY <2>1, InHand DEF DeliverySteps, RunSteps
  <2>3. coord \in CoordRecord
    BY InHand
  <2>4. coord'.msg = coord.msg
    <3>1. coord' # Idle
      BY DEF Idle
    <3> QED BY <1>5, <2>3, <3>1 DEF InjectFault, StartRejected, RereadChanged, RereadJudge, PromoteFails,
              Goto, Commit, CoordRecord
  <2>5. Turn' = Turn
    BY <2>2, <2>4, TurnStays
  <2>6. Turn = Len(session.accepted) + 1
    BY <2>1, NextInHand DEF EarnedInv, RunSteps
  <2>7. session'.accepted = session.accepted
    BY <2>1, LedgerGrows DEF Accept, AcceptExpecting
  <2> QED BY <1>2, <2>5, <2>6, <2>7
<1> QED BY <1>3, <1>4, <1>5, CoordComes DEF Hands

LEMMA TurnKept == ASSUME TypeInv, CopiesInv, EarnedInv, TurnInv, [Next]_vars PROVE TurnInv'
<1>1. ASSUME NEW m \in 1..Len(mailbox')
      PROVE  mailbox'[m].turn <= Len(session'.accepted) + 1
  <2>1. CASE m \in 1..Len(mailbox)
    <3>1. mailbox'[m].turn = mailbox[m].turn
      BY <2>1, MessagesStay
    <3>2. mailbox[m].turn <= Len(session.accepted) + 1
      BY <2>1 DEF TurnInv
    <3>3. mailbox[m].turn \in Turns
      <4>1. mailbox \in Seq(Message)
        BY DEF TypeInv, MailboxOK
      <4>2. mailbox[m] \in Message
        BY <2>1, <4>1, ElementOfSeq
      <4> QED BY <4>2 DEF Message
    <3>4. mailbox[m].turn \in Nat
      BY <3>3, ConstantsAssumption DEF Turns
    <3> QED BY <3>1, <3>2, <3>4, LedgerGrows
  <2>2. CASE m \notin 1..Len(mailbox) /\ mailbox'[m].turn = 1
    BY <2>2, LedgerGrows
  <2>3. CASE m \notin 1..Len(mailbox) /\ PublishExpected /\ mailbox'[m].turn = coord.session.expected
    <3>1. coord.session.expected = Len(session.accepted) + 1
      BY <2>3, NextInHand DEF PublishExpected, EarnedInv
    <3> QED BY <2>3, <3>1, LedgerGrows
  <2> QED BY <1>1, <2>1, <2>2, <2>3, MessagesStay
<1> QED BY <1>1, FailingTurn DEF TurnInv

LEMMA TurnInvariance == Spec => []TurnInv
<1>1. Init => TurnInv
  BY DEF Init, TurnInv, Idle
<1>2. TypeInv /\ CopiesInv /\ EarnedInv /\ TurnInv /\ [Next]_vars => TurnInv'
  BY TurnKept
<1> QED BY <1>1, <1>2, EarnedInvariance, PTL DEF Spec

\* The mailbox of a running session holds nothing but copies of accepted turns and
\* of the expected one: failSession's ordering violation is never taken.
THEOREM OrderingHolds == Spec => []NoOrderingViolation
<1>1. ASSUME TypeInv, EarnedInv, TurnInv
      PROVE  NoOrderingViolation
  <2>1. ASSUME Running, NEW m \in 1..Len(mailbox)
        PROVE  mailbox[m].turn \in AcceptedTurns(session) \cup {session.expected}
    <3>1. mailbox[m].turn \in Turns
      <4>1. mailbox \in Seq(Message)
        BY <1>1 DEF TypeInv, MailboxOK
      <4>2. mailbox[m] \in Message
        BY <4>1, ElementOfSeq
      <4> QED BY <4>2 DEF Message
    <3>2. mailbox[m].turn \in Nat /\ mailbox[m].turn >= 1
      BY <3>1, ConstantsAssumption DEF Turns
    <3>3. mailbox[m].turn <= Len(session.accepted) + 1
      BY <1>1 DEF TurnInv
    <3>4. Len(session.accepted) \in Nat /\ session.expected = Len(session.accepted) + 1
      BY <1>1, <2>1, NextInHand DEF EarnedInv
    <3> QED BY <1>1, <3>2, <3>3, <3>4, AcceptedTurnsAre
  <2> QED BY <1>1, <2>1 DEF NoOrderingViolation, TurnInv
<1>2. TypeInv /\ EarnedInv /\ TurnInv => NoOrderingViolation
  BY <1>1
<1> QED BY <1>2, EarnedInvariance, TurnInvariance, PTL

-----------------------------------------------------------------------------
(* Pending work                                                              *)

LEMMA MessagesTyped ==
  ASSUME TypeInv
  PROVE  /\ Len(mailbox) \in Nat
         /\ \A m \in 1..Len(mailbox) : mailbox[m] \in Message /\ mailbox[m].turn \in Nat
<1>1. mailbox \in Seq(Message)
  BY DEF TypeInv, MailboxOK
<1>2. \A m \in 1..Len(mailbox) : mailbox[m] \in Message
  BY <1>1, ElementOfSeq
<1>3. \A m \in 1..Len(mailbox) : mailbox[m].turn \in Turns
  BY <1>2 DEF Message
<1>4. \A m \in 1..Len(mailbox) : mailbox[m].turn \in Nat
  BY <1>3, ConstantsAssumption DEF Turns
<1> QED BY <1>1, <1>2, <1>4

\* Only Settle acknowledges, and only the message in hand.
LEMMA DoneStays ==
  ASSUME TypeInv, [Next]_vars, NEW m \in 1..Len(mailbox)
  PROVE  mailbox'[m].done = mailbox[m].done \/ (Settle /\ m = coord.msg)
<1>1. mailbox \in Seq(Message) /\ mailbox[m] \in Message
  BY MessagesTyped DEF TypeInv, MailboxOK
<1>2. CASE \E n \in 1..Len(mailbox) : mailbox' = [mailbox EXCEPT ![n].deliveries = @ + 1]
  <2>1. PICK n \in 1..Len(mailbox) : mailbox' = [mailbox EXCEPT ![n].deliveries = @ + 1]
    BY <1>2
  <2>2. CASE m = n
    <3>1. mailbox'[m] = [mailbox[m] EXCEPT !.deliveries = @ + 1]
      BY <1>1, <2>1, <2>2
    <3> QED BY <1>1, <3>1 DEF Message
  <2>3. CASE m # n
    BY <1>1, <2>1, <2>3
  <2> QED BY <2>2, <2>3
<1>3. CASE Settle
  <2>1. m # coord.msg => mailbox'[m] = mailbox[m]
    BY <1>1, <1>3 DEF Settle
  <2> QED BY <1>3, <2>1
<1>4. ASSUME NEW t, Publish(t)
      PROVE  mailbox'[m] = mailbox[m]
  BY <1>1, <1>4 DEF Publish
<1>5. CASE PublishFirstTurn \/ PublishExpected
  BY <1>4, <1>5 DEF PublishFirstTurn, PublishExpected
<1> QED BY <1>2, <1>3, <1>5, MailboxMoves

\* What is published is in the stream, now or already.
LEMMA Published ==
  ASSUME TypeInv, TypeInv', WindowInv, NEW t, Publish(t)
  PROVE  \E m \in 1..Len(mailbox') :
           /\ mailbox'[m].turn = t
           /\ ~mailbox'[m].done \/ (m \in 1..Len(mailbox) /\ mailbox'[m] = mailbox[m])
<1>1. mailbox \in Seq(Message) /\ Len(mailbox) \in Nat
  BY DEF TypeInv, MailboxOK
<1>2. CASE t \in window
  BY <1>2 DEF Publish, WindowInv
<1>3. CASE t \notin window
  <2> DEFINE x == [turn |-> t, done |-> FALSE, deliveries |-> 0]
  <2>1. mailbox' = Append(mailbox, x)
    BY <1>3 DEF Publish
  <2>2. ~x.done /\ x.turn = t
    OBVIOUS
  <2> HIDE DEF x
  <2>3. Len(mailbox') = Len(mailbox) + 1 /\ mailbox'[Len(mailbox) + 1] = x
    BY <1>1, <2>1
  <2> QED BY <1>1, <2>2, <2>3
<1> QED BY <1>2, <1>3

LEMMA WindowKept == ASSUME TypeInv, WindowInv, [Next]_vars PROVE WindowInv'
<1>1. TypeInv'
  BY NextTypeInv
<1>2. ASSUME NEW t \in window
      PROVE  \E m \in 1..Len(mailbox') : mailbox'[m].turn = t
  <2>1. PICK m \in 1..Len(mailbox) : mailbox[m].turn = t
    BY <1>2 DEF WindowInv
  <2>2. m \in 1..Len(mailbox') /\ mailbox'[m].turn = t
    BY <2>1, MessagesStay
  <2> QED BY <2>2
<1>3. CASE window' \subseteq window
  BY <1>2, <1>3 DEF WindowInv
<1>4. ASSUME NEW t, Publish(t)
      PROVE  WindowInv'
  <2>1. window' \subseteq window \cup {t}
    BY <1>4 DEF Publish
  <2>2. \E m \in 1..Len(mailbox') : mailbox'[m].turn = t
    BY <1>1, <1>4, Published
  <2> QED BY <1>2, <2>1, <2>2 DEF WindowInv
<1>5. CASE PublishFirstTurn \/ PublishExpected
  BY <1>4, <1>5 DEF PublishFirstTurn, PublishExpected
<1>6. Settle => UNCHANGED window
  BY DEF Settle
<1> QED BY <1>3, <1>5, <1>6, MailboxMoves

\* The coordinator holds one message from its delivery on.
LEMMA HoldsOn ==
  ASSUME TypeInv, [Next]_vars
  PROVE  \/ UNCHANGED coord
         \/ \E m \in 1..Len(mailbox) : Receive(m) /\ coord'.msg = m
         \/ coord'.pc = "idle"
         \/ coord'.pc = "recover" /\ coord'.msg = 0
         \/ coord.pc # "idle" /\ coord'.msg = coord.msg
<1>1. coord \in CoordRecord
  BY InHand
<1>2. /\ \A step : Goto(step) => coord'.msg = coord.msg
      /\ \A s, step : Commit(s, step) => coord'.msg = coord.msg
      /\ coord' = Idle => coord'.pc = "idle"
  <2>1. \A step : Goto(step) => coord'.msg = coord.msg
    BY <1>1 DEF Goto, CoordRecord
  <2>2. \A s, step : Commit(s, step) => coord'.msg = coord.msg
    BY <1>1 DEF Commit, CoordRecord
  <2>3. coord' = Idle => coord'.pc = "idle"
    BY DEF Idle
  <2> QED BY <2>1, <2>2, <2>3
<1>3. CASE CoordinatorStep
  <2>1. ASSUME NEW m \in 1..Len(mailbox), Receive(m)
        PROVE  coord'.msg = m
    BY <2>1 DEF Receive, Deliver
  <2>2. CASE SuppressDuplicate \/ ClaimTurn \/ InjectFault \/ RecordRun \/ Accept \/ FailSession
    BY <1>2, <2>2 DEF SuppressDuplicate, ClaimTurn, InjectFault, RecordRun, Accept, AcceptExpecting, FailSession
  <2>3. CASE StartRejected \/ RereadJudge \/ RereadEnded \/ CancelTimedOut \/ Promote \/ MarkCommitted
             \/ DiscardWorkspace \/ RecordLost
    BY <1>2, <2>3 DEF StartRejected, RereadJudge, RereadEnded, CancelTimedOut, Promote, MarkCommitted,
         DiscardWorkspace, RecordLost
  <2>4. CASE (\E r \in Runs : StartRun(r)) \/ WaitForRun \/ TimeOut
    BY <1>1, <2>4 DEF StartRun, Start, WaitForRun, TimeOut, CoordRecord
  <2>5. CASE AfterStop \/ RereadChanged \/ PublishExpected \/ RecoverSession
    BY <1>1, <1>2, <2>5 DEF AfterStop, RereadChanged, PublishExpected, RecoverSession, CoordRecord
  <2>6. CASE Settle \/ RetryTurn \/ LoseRace
    BY <1>2, <2>6 DEF Settle, RetryTurn, LoseRace
  <2> QED BY <1>3, <2>1, <2>2, <2>3, <2>4, <2>5, <2>6 DEF CoordinatorStep
<1>4. CASE Trouble
  <2>1. PromoteFails \/ CancelTimedOutFails => coord.pc # "idle" /\ coord'.msg = coord.msg
    BY <1>2 DEF PromoteFails, CancelTimedOutFails
  <2>2. DeliveryThrows => coord'.pc = "idle"
    BY <1>2 DEF DeliveryThrows
  <2>3. Crash => coord'.pc = "recover" /\ coord'.msg = 0
    BY DEF Crash, Idle
  <2>4. \/ UNCHANGED coord \/ PromoteFails \/ CancelTimedOutFails \/ DeliveryThrows \/ Crash
    BY <1>4 DEF Trouble, CreatorThrows, StopCancelFails, StopThrows,
         RequestUnannounced, InterruptCancelFails, InterruptThrows
  <2> QED BY <2>1, <2>2, <2>3, <2>4
<1>5. CASE \E p \in StopCallers : StopStep(p)
  BY <1>5 DEF StopStep, StopRead, StopCommit, StopLoses, StopCancelRun, StopReadAgain, StopNote
<1>6. CASE \E p \in Interrupters : InterruptActiveRun(p) \/ InterruptStep(p)
  BY <1>6 DEF InterruptActiveRun, InterruptStep, ReadForRequest, RecordRequest,
       InterruptCancelRun, ReadForVerdict, FinalizeInterruption, InterruptLoses
<1>7. CASE PublishFirstTurn \/ (\E r \in Runs : FinishRun(r)) \/ (\E t \in Turns : WindowExpires(t))
           \/ UNCHANGED vars
  BY <1>7 DEF PublishFirstTurn, FinishRun, WindowExpires, vars
<1> QED BY <1>3, <1>4, <1>5, <1>6, <1>7 DEF Next

\* The three ways out of a publication, and out of recovery.
LEMMA PublisherMoves ==
  ASSUME TypeInv, MessageInv, [Next]_vars, coord.pc = "recover" \/ (coord.pc = "publish" /\ coord.msg = 0)
  PROVE  \/ UNCHANGED coord
         \/ coord'.pc = "recover"
         \/ PublishExpected
         \/ RecoverSession /\ coord.msg = 0
<1>1. coord.msg = 0
  BY DEF MessageInv
<1>2. CASE CoordinatorStep
  BY <1>1, <1>2 DEF CoordinatorStep, Receive, Deliver, SuppressDuplicate, ClaimTurn, InjectFault,
       StartRun, Start, TimeOut, MarkCommitted, DiscardWorkspace,
       StartRejected, RecordRun, RecordLost, AfterStop, WaitForRun, CancelTimedOut,
       RereadEnded, RereadChanged, RereadJudge, Promote, Accept, AcceptExpecting,
       Settle, RetryTurn, FailSession, LoseRace, CasSteps
<1>3. CASE Trouble
  <2>1. Crash => coord'.pc = "recover"
    BY DEF Crash, Idle
  <2> QED BY <1>1, <1>3, <2>1 DEF Trouble, CreatorThrows, CancelTimedOutFails, PromoteFails, DeliveryThrows,
       StopCancelFails, StopThrows, RequestUnannounced, InterruptCancelFails, InterruptThrows
<1>4. CASE \E p \in StopCallers : StopStep(p)
  BY <1>4 DEF StopStep, StopRead, StopCommit, StopLoses, StopCancelRun, StopReadAgain, StopNote
<1>5. CASE \E p \in Interrupters : InterruptActiveRun(p) \/ InterruptStep(p)
  BY <1>5 DEF InterruptActiveRun, InterruptStep, ReadForRequest, RecordRequest,
       InterruptCancelRun, ReadForVerdict, FinalizeInterruption, InterruptLoses
<1>6. CASE PublishFirstTurn \/ (\E r \in Runs : FinishRun(r)) \/ (\E t \in Turns : WindowExpires(t))
           \/ UNCHANGED vars
  BY <1>6 DEF PublishFirstTurn, FinishRun, WindowExpires, vars
<1> QED BY <1>2, <1>3, <1>4, <1>5, <1>6 DEF Next

\* A session that runs has been running.
LEMMA RanBefore ==
  ASSUME TypeInv, CopiesInv, [Next]_vars, Running'
  PROVE  Running /\ session'.expected = Len(session'.accepted) + 1
<1>1. Running
  BY SessionWrites DEF SessionGoesOn, Running
<1>2. LedgerOK(session)'
  BY NextTypeInv DEF TypeInv, StoreOK, WellFormed
<1> QED BY <1>1, <1>2 DEF LedgerOK, Running

\* What an acceptance leads to, and what becomes of createSession.
LEMMA CoordinatorAccepts ==
  ASSUME TypeInv, Accept, coord'.pc = "settle" PROVE Turn = NumTurns
BY InHand DEF Accept, AcceptExpecting, Commit, CoordRecord

LEMMA CreatorMoves ==
  ASSUME [Next]_vars PROVE PublishFirstTurn \/ creator' = "lost" \/ UNCHANGED creator
<1>1. CASE CoordinatorStep
  BY <1>1 DEF CoordinatorStep, Receive, Deliver, SuppressDuplicate, ClaimTurn, InjectFault,
       StartRun, Start, TimeOut, MarkCommitted, DiscardWorkspace,
       StartRejected, RecordRun, RecordLost, AfterStop, WaitForRun, CancelTimedOut,
       RereadEnded, RereadChanged, RereadJudge, Promote, Accept, AcceptExpecting, PublishExpected,
       Settle, RetryTurn, FailSession, LoseRace, RecoverSession
<1>2. CASE Trouble
  BY <1>2 DEF Trouble, CreatorThrows, CancelTimedOutFails, PromoteFails, DeliveryThrows, Crash,
       StopCancelFails, StopThrows, RequestUnannounced, InterruptCancelFails, InterruptThrows
<1>3. CASE \E p \in StopCallers : StopStep(p)
  BY <1>3 DEF StopStep, StopRead, StopCommit, StopLoses, StopCancelRun, StopReadAgain, StopNote
<1>4. CASE \E p \in Interrupters : InterruptActiveRun(p) \/ InterruptStep(p)
  BY <1>4 DEF InterruptActiveRun, InterruptStep, ReadForRequest, RecordRequest,
       InterruptCancelRun, ReadForVerdict, FinalizeInterruption, InterruptLoses
<1>5. CASE PublishFirstTurn \/ (\E r \in Runs : FinishRun(r)) \/ (\E t \in Turns : WindowExpires(t))
           \/ UNCHANGED vars
  BY <1>5 DEF FinishRun, WindowExpires, vars
<1> QED BY <1>1, <1>2, <1>3, <1>4, <1>5 DEF Next

LEMMA MessageKept == ASSUME TypeInv, CopiesInv, EarnedInv, MessageInv, [Next]_vars PROVE MessageInv'
<1>1. coord \in CoordRecord /\ TypeInv'
  BY InHand, NextTypeInv
<1>2. Len(session.accepted) \in Nat /\ Len(session'.accepted) \in Nat
      /\ Len(session.accepted) <= Len(session'.accepted)
  BY LedgerGrows
<1>3. coord'.pc = "recover" => coord'.msg = 0
  <2>1. Crash => coord'.msg = 0
    BY DEF Crash, Idle
  <2> QED BY <2>1, CoordComes DEF Hands, MessageInv
<1>4. ASSUME coord'.pc # "idle", coord'.msg # 0
      PROVE  ~mailbox'[coord'.msg].done
  <2>1. ~Settle
    BY <1>4 DEF Settle, Idle
  <2>2. CASE \E m \in 1..Len(mailbox) : Receive(m) /\ coord'.msg = m
    <3>1. PICK m \in 1..Len(mailbox) : Receive(m) /\ coord'.msg = m
      BY <2>2
    <3>2. ~mailbox[m].done
      BY <3>1 DEF Receive, Deliver
    <3> QED BY <2>1, <3>1, <3>2, DoneStays
  <2>3. CASE coord.pc # "idle" /\ coord'.msg = coord.msg
    <3>1. coord.msg \in 1..Len(mailbox) /\ ~mailbox[coord.msg].done
      BY <1>1, <1>4, <2>3, MessagesTyped DEF MessageInv, TypeInv, CoordOK, CoordGood, CoordRecord
    <3> QED BY <2>1, <2>3, <3>1, DoneStays
  <2> QED BY <1>4, <2>2, <2>3, HoldsOn
<1>5. ASSUME coord'.pc = "stopping"
      PROVE  ~Running'
  <2>1. CASE UNCHANGED coord
    BY <1>5, <2>1, RanBefore DEF MessageInv
  <2>2. CASE RecordLost
    <3>1. coord' # Idle
      BY <1>5 DEF Idle
    <3> QED BY <2>2, <3>1 DEF RecordLost, store, Running
  <2> QED BY <1>5, <2>1, <2>2, CoordComes DEF Hands
<1>6. ASSUME coord'.pc = "suppress"
      PROVE  Turn' <= Len(session'.accepted)
  <2>1. CASE UNCHANGED coord
    <3>1. coord.msg \in 1..Len(mailbox) /\ Turn \in Turns
      BY <1>6, <2>1, InHand DEF DeliverySteps
    <3>2. Turn' = Turn /\ Turn \in Nat
      BY <2>1, <3>1, TurnStays, ConstantsAssumption DEF Turns
    <3> QED BY <1>2, <1>6, <2>1, <3>2 DEF MessageInv
  <2>2. CASE \E m \in 1..Len(mailbox) : Receive(m)
    <3>1. PICK m \in 1..Len(mailbox) : Receive(m)
      BY <2>2
    <3>2. mailbox[m].turn \in AcceptedTurns(session) /\ coord'.msg = m
      BY <1>6, <3>1 DEF Receive, Deliver
    <3>3. Turn' = mailbox[m].turn
      BY <3>1, <3>2, MessagesStay DEF Turn
    <3> QED BY <1>2, <3>2, <3>3, AcceptedTurnsAre
  <2> QED BY <1>6, <2>1, <2>2, CoordComes DEF Hands
<1>7. ASSUME coord'.pc = "publish", coord'.msg # 0
      PROVE  Turn' <= Len(session'.accepted)
  <2>1. ASSUME coord.msg \in 1..Len(mailbox), coord'.msg = coord.msg, Turn <= Len(session.accepted)
        PROVE  Turn' <= Len(session'.accepted)
    <3>1. Turn' = Turn
      BY <2>1, TurnStays
    <3>2. Turn \in Nat
      BY <2>1, MessagesTyped DEF Turn
    <3> QED BY <1>2, <2>1, <3>1, <3>2
  <2>2. coord.msg # 0 => coord.msg \in 1..Len(mailbox)
    BY <1>1, MessagesTyped DEF TypeInv, CoordOK, CoordGood, CoordRecord
  <2>3. CASE UNCHANGED coord
    BY <1>7, <2>1, <2>2, <2>3 DEF MessageInv
  <2>4. CASE SuppressDuplicate
    <3>1. coord'.msg = coord.msg /\ coord.pc = "suppress"
      BY <1>1, <2>4 DEF SuppressDuplicate, Commit, CoordRecord
    <3> QED BY <1>7, <2>1, <2>2, <3>1 DEF MessageInv
  <2>5. CASE Accept
    <3>1. coord'.msg = coord.msg /\ coord.pc = "accept"
      BY <1>1, <2>5 DEF Accept, AcceptExpecting, Commit, CoordRecord
    <3>2. Turn = Len(session.accepted) + 1
      BY <3>1, NextInHand DEF EarnedInv, RunSteps
    <3>3. Turn' = Turn
      BY <1>7, <2>2, <3>1, TurnStays
    <3>4. Len(session'.accepted) = Len(session.accepted) + 1
      BY <2>5, LedgerGrows
    <3> QED BY <1>2, <3>2, <3>3, <3>4
  <2>6. CASE RecoverSession
    <3>1. coord.pc = "recover" /\ coord.msg = 0
      BY <2>6 DEF RecoverSession, MessageInv
    <3>2. coord'.msg = 0
      <4>1. coord' # Idle
        BY <1>7 DEF Idle
      <4>2. PICK s : coord' = [coord EXCEPT !.pc = "publish", !.revision = revision + 1, !.session = s]
        BY <2>6, <4>1 DEF RecoverSession
      <4> QED BY <1>1, <3>1, <4>2 DEF CoordRecord
    <3> QED BY <1>7, <3>2
  <2> QED BY <1>7, <2>3, <2>4, <2>5, <2>6, CoordComes DEF Hands
<1> QED BY <1>3, <1>4, <1>5, <1>6, <1>7 DEF MessageInv

\* A message that waits for a turn goes on waiting until it is acknowledged.
LEMMA LiveStays ==
  ASSUME TypeInv, [Next]_vars, NEW t, Live(t), Settle => Turn # t
  PROVE  Live(t)'
<1>1. PICK m \in 1..Len(mailbox) : mailbox[m].turn = t /\ ~mailbox[m].done
  BY DEF Live
<1>2. ~(Settle /\ m = coord.msg)
  BY <1>1 DEF Turn
<1>3. m \in 1..Len(mailbox') /\ mailbox'[m].turn = t /\ ~mailbox'[m].done
  BY <1>1, <1>2, MessagesStay, DoneStays
<1> QED BY <1>3 DEF Live

\* The turn a running session expects waits in the mailbox once it is published.
LEMMA ExpectedIsLive ==
  ASSUME TypeInv, TypeInv', EarnedInv, WindowInv, PendingInv, Running, NEW t, Publish(t), t = session.expected
  PROVE  Live(t)'
<1>1. t = Len(session.accepted) + 1 /\ Len(session.accepted) \in Nat
  BY NextInHand DEF EarnedInv
<1>2. PICK m \in 1..Len(mailbox') :
        /\ mailbox'[m].turn = t
        /\ ~mailbox'[m].done \/ (m \in 1..Len(mailbox) /\ mailbox'[m] = mailbox[m])
  BY Published
<1>3. ~mailbox'[m].done
  BY <1>1, <1>2 DEF PendingInv
<1> QED BY <1>2, <1>3 DEF Live

LEMMA PendingKept ==
  ASSUME TypeInv, CopiesInv, EarnedInv, WorkInv, [Next]_vars
  PROVE  PendingInv'
<1> SUFFICES ASSUME Running' PROVE PendingInv'
  BY DEF PendingInv
<1>1. Running /\ session'.expected = Len(session'.accepted) + 1
  BY RanBefore
<1>2. TypeInv' /\ PendingInv /\ MessageInv /\ WindowInv
  BY NextTypeInv DEF WorkInv
<1>3. /\ Len(session.accepted) \in Nat /\ Len(session'.accepted) \in Nat
      /\ Len(session.accepted) <= Len(session'.accepted)
      /\ ~Accept => session'.accepted = session.accepted
      /\ Accept => Len(session'.accepted) = Len(session.accepted) + 1
  BY LedgerGrows
<1>4. session.expected = Len(session.accepted) + 1
  BY <1>1, NextInHand DEF EarnedInv
<1>5. coord.pc = "settle" => Turn <= Len(session.accepted) /\ Live(session.expected)
  BY <1>1, <1>2 DEF PendingInv
<1>6. PICK e : e = session.expected
  OBVIOUS
<1>7. PublishExpected => Live(e)'
  <2>1. SUFFICES ASSUME PublishExpected PROVE Live(e)'
    OBVIOUS
  <2>2. coord.session.expected = session.expected
    BY <1>4, <2>1, NextInHand DEF PublishExpected, EarnedInv
  <2> QED BY <1>1, <1>2, <1>6, <2>1, <2>2, ExpectedIsLive DEF PublishExpected
<1>8. ASSUME NEW m \in 1..Len(mailbox'), mailbox'[m].done
      PROVE  mailbox'[m].turn <= Len(session'.accepted)
  <2>1. m \in 1..Len(mailbox) /\ mailbox'[m].turn = mailbox[m].turn
    BY <1>8, MessagesStay
  <2>2. mailbox[m].turn \in Nat
    BY <2>1, MessagesTyped
  <2>3. CASE mailbox[m].done
    BY <1>1, <1>2, <1>3, <2>1, <2>2, <2>3 DEF PendingInv
  <2>4. CASE Settle /\ m = coord.msg
    BY <1>3, <1>5, <2>1, <2>2, <2>4 DEF Settle, Turn
  <2> QED BY <1>8, <2>1, <2>3, <2>4, DoneStays
<1>9. ASSUME coord'.pc = "settle"
      PROVE  Turn' <= Len(session'.accepted) /\ Live(e)' /\ session'.expected = e
  <2>1. CASE UNCHANGED coord
    <3>1. coord.msg \in 1..Len(mailbox)
      BY <1>9, <2>1, InHand DEF DeliverySteps
    <3>2. Turn' = Turn
      BY <2>1, <3>1, TurnStays
    <3>3. ~Settle /\ ~Accept
      BY <1>9, <2>1, StillCoord DEF Settle, Idle
    <3>4. Live(e)'
      BY <1>5, <1>6, <1>9, <2>1, <3>3, LiveStays
    <3> QED BY <1>1, <1>3, <1>4, <1>5, <1>6, <1>9, <2>1, <3>2, <3>3, <3>4
  <2>2. CASE PublishExpected /\ coord.msg # 0
    <3>1. Turn <= Len(session.accepted) /\ coord \in CoordRecord
      BY <1>2, <2>2, InHand DEF MessageInv, PublishExpected
    <3>2. coord'.msg = coord.msg /\ coord.msg \in 1..Len(mailbox)
      BY <2>2, <3>1, MessagesTyped DEF PublishExpected, CoordRecord, TypeInv, CoordOK, CoordGood
    <3>3. Turn' = Turn /\ ~Accept
      BY <2>2, <3>2, TurnStays DEF PublishExpected, Accept, AcceptExpecting
    <3> QED BY <1>1, <1>3, <1>4, <1>6, <1>7, <2>2, <3>1, <3>3
  <2>3. CASE \E m \in 1..Len(mailbox) : Receive(m)
    BY <1>1, <1>9, <2>3 DEF Receive, Deliver, Running
  <2>4. CASE AfterStop
    BY <1>1, <1>2, <2>4 DEF AfterStop, MessageInv
  <2>5. CASE RereadEnded
    BY <1>1, <2>5 DEF RereadEnded, Running
  <2>6. CASE FailSession
    <3>1. session' = [coord.session EXCEPT !.active = NoRun, !.status = "failed"]
      BY <2>6 DEF FailSession, Commit, Save
    <3>2. session'.status = "failed"
      BY <3>1, InHand DEF WellFormed, Session
    <3> QED BY <3>2 DEF Running
  <2>7. CASE Accept
    <3>1. Turn = NumTurns
      BY <1>9, <2>7, CoordinatorAccepts
    <3> QED BY <2>7, <3>1, AcceptedIs DEF Running
  <2> QED BY <1>9, <2>1, <2>2, <2>3, <2>4, <2>5, <2>6, <2>7, CoordComes DEF Hands
<1>10. \/ Live(session.expected)'
       \/ coord'.pc = "recover" \/ (coord'.pc = "publish" /\ coord'.msg = 0)
       \/ Live(session.expected - 1)'
       \/ session'.expected = 1 /\ creator' \in {"publishing", "lost"}
  <2>1. CASE Accept
    <3>1. coord.pc = "accept" /\ Turn = Len(session.accepted) + 1
      BY <2>1, NextInHand DEF Accept, AcceptExpecting, EarnedInv, RunSteps
    <3>2. coord.msg \in 1..Len(mailbox) /\ ~mailbox[coord.msg].done
      BY <1>2, <3>1, InHand DEF MessageInv, DeliverySteps, RunSteps
    <3>3. PICK t : t = Turn
      OBVIOUS
    <3>4. Live(t)'
      <4>1. Live(t)
        BY <3>2, <3>3 DEF Live, Turn
      <4>2. ~Settle
        BY <3>1 DEF Settle
      <4> QED BY <4>1, <4>2, LiveStays
    <3>5. session'.expected - 1 = t
      BY <1>1, <1>3, <2>1, <3>1, <3>3
    <3> QED BY <3>4, <3>5 DEF Live
  <2>2. CASE Settle
    <3>1. Live(e) /\ Turn # e /\ ~Accept
      BY <1>3, <1>4, <1>5, <1>6, <2>2, InHand, ConstantsAssumption DEF Settle, Accept, AcceptExpecting,
         DeliverySteps, Turns
    <3>2. Live(e)'
      BY <3>1, LiveStays
    <3> QED BY <1>1, <1>3, <1>4, <1>6, <3>1, <3>2 DEF Live
  <2>3. CASE ~Accept /\ ~Settle
    <3>1. session'.expected = e
      BY <1>1, <1>3, <1>4, <1>6, <2>3
    <3>2. Live(e) => Live(session.expected)'
      BY <2>3, <3>1, LiveStays DEF Live
    <3>3. Live(session.expected - 1) => Live(session.expected - 1)'
      <4>1. PICK d : d = e - 1
        OBVIOUS
      <4>2. Live(d) => Live(d)'
        BY <2>3, LiveStays
      <4> QED BY <1>6, <3>1, <4>1, <4>2 DEF Live
    <3>4. ASSUME coord.pc = "recover" \/ (coord.pc = "publish" /\ coord.msg = 0)
          PROVE  \/ Live(session.expected)'
                 \/ coord'.pc = "recover" \/ (coord'.pc = "publish" /\ coord'.msg = 0)
      <4>1. CASE PublishExpected
        BY <1>7, <3>1, <4>1 DEF Live
      <4>2. CASE RecoverSession /\ coord.msg = 0
        BY <1>1, <4>2, InHand DEF RecoverSession, Running, CoordRecord
      <4> QED BY <1>2, <3>4, <4>1, <4>2, PublisherMoves
    <3>5. ASSUME session.expected = 1, creator \in {"publishing", "lost"}
          PROVE  Live(session.expected)' \/ creator' \in {"publishing", "lost"}
      <4>1. CASE PublishFirstTurn
        <5>1. Publish(e)
          BY <1>6, <3>5, <4>1 DEF PublishFirstTurn
        <5>2. Live(e)'
          BY <1>1, <1>2, <1>6, <5>1, ExpectedIsLive
        <5> QED BY <3>1, <5>2 DEF Live
      <4>2. CASE ~PublishFirstTurn
        BY <3>5, <4>2, CreatorMoves
      <4> QED BY <4>1, <4>2
    <3>6. \/ Live(session.expected)
          \/ coord.pc = "recover" \/ (coord.pc = "publish" /\ coord.msg = 0)
          \/ Live(session.expected - 1)
          \/ session.expected = 1 /\ creator \in {"publishing", "lost"}
      BY <1>1, <1>2 DEF PendingInv
    <3> QED BY <1>6, <3>1, <3>2, <3>3, <3>4, <3>5, <3>6
  <2> QED BY <2>1, <2>2, <2>3
<1>11. coord'.pc = "settle" => Turn' <= Len(session'.accepted) /\ Live(session.expected)'
  BY <1>9 DEF Live
<1> QED BY <1>8, <1>10, <1>11 DEF PendingInv, Live

LEMMA WorkInvariance == Spec => []WorkInv
<1>1. Init => WorkInv
  <2> SUFFICES ASSUME Init PROVE WorkInv
    OBVIOUS
  <2>1. WindowInv /\ MessageInv
    BY DEF Init, WindowInv, MessageInv, Idle
  <2>2. PendingInv
    BY DEF Init, PendingInv, Idle, NewSession
  <2> QED BY <2>1, <2>2 DEF WorkInv
<1>2. TypeInv /\ CopiesInv /\ EarnedInv /\ WorkInv /\ [Next]_vars => WorkInv'
  BY WindowKept, MessageKept, PendingKept DEF WorkInv
<1> QED BY <1>1, <1>2, EarnedInvariance, PTL DEF Spec

\* The work of a running session is never lost: its expected turn waits in the
\* mailbox or has somebody who publishes it, through losses, duplicates and crashes.
THEOREM WorkIsNeverLost == Spec => []WorkIsPending
<1>1. WorkInv => WorkIsPending
  BY DEF WorkInv, PendingInv, WorkIsPending
<1> QED BY <1>1, WorkInvariance, PTL

-----------------------------------------------------------------------------
(* The shared workspace                                                      *)

LEMMA SharedMoves ==
  ASSUME [Next]_vars PROVE Promote \/ UNCHANGED shared
<1>1. CASE CoordinatorStep
  BY <1>1 DEF CoordinatorStep, Receive, Deliver, SuppressDuplicate, ClaimTurn, InjectFault,
       StartRun, Start, TimeOut, MarkCommitted, DiscardWorkspace,
       StartRejected, RecordRun, RecordLost, AfterStop, WaitForRun, CancelTimedOut,
       RereadEnded, RereadChanged, RereadJudge, Accept, AcceptExpecting, PublishExpected,
       Settle, RetryTurn, FailSession, LoseRace, RecoverSession
<1>2. CASE Trouble
  BY <1>2 DEF Trouble, CreatorThrows, CancelTimedOutFails, PromoteFails, DeliveryThrows, Crash,
       StopCancelFails, StopThrows, RequestUnannounced, InterruptCancelFails, InterruptThrows
<1>3. CASE \E p \in StopCallers : StopStep(p)
  BY <1>3 DEF StopStep, StopRead, StopCommit, StopLoses, StopCancelRun, StopReadAgain, StopNote
<1>4. CASE \E p \in Interrupters : InterruptActiveRun(p) \/ InterruptStep(p)
  BY <1>4 DEF InterruptActiveRun, InterruptStep, ReadForRequest, RecordRequest,
       InterruptCancelRun, ReadForVerdict, FinalizeInterruption, InterruptLoses
<1>5. CASE PublishFirstTurn \/ (\E r \in Runs : FinishRun(r)) \/ (\E t \in Turns : WindowExpires(t))
           \/ UNCHANGED vars
  BY <1>5 DEF PublishFirstTurn, FinishRun, WindowExpires, vars
<1> QED BY <1>1, <1>2, <1>3, <1>4, <1>5 DEF Next

\* What a promotion makes of the shared workspace.
LEMMA Promoted ==
  ASSUME TypeInv, EarnedInv, SharedInv, Transactional, Promote
  PROVE  /\ Used(coord.run) /\ coord.run \in Runs /\ UNCHANGED <<runs, session>>
         /\ coord'.pc = "mark" /\ coord'.run = coord.run
         /\ \A k \in 1..Len(shared) : shared[k] # coord.run
         /\ Len(shared) \in Nat /\ Len(shared') = Len(shared) + 1
         /\ shared'[Len(shared) + 1] = coord.run
         /\ \A k \in 1..Len(shared) : shared'[k] = shared[k]
<1>1. coord \in CoordRecord /\ coord.pc = "promote"
  BY InHand DEF Promote
<1>2. /\ Used(coord.run) /\ coord.run \in Runs
      /\ runs[coord.run].base = shared /\ \A k \in 1..Len(shared) : shared[k] # coord.run
  BY <1>1, HandIsNew DEF EarnedInv, EarningInv, SharedInv, Hands
<1>3. shared \in Seq(Runs) /\ shared' = Append(shared, coord.run)
  BY <1>2 DEF Promote, TypeInv, RunsOK
<1>4. coord'.pc = "mark" /\ coord'.run = coord.run /\ UNCHANGED <<runs, session>>
  BY <1>1 DEF Promote, Goto, CoordRecord, store
<1> QED BY <1>2, <1>3, <1>4

\* In a transactional session a run is promoted and marked before it is accepted.
LEMMA BeforeJudged ==
  ASSUME TypeInv, [Next]_vars, Transactional, coord'.pc \in Hands, \A r \in Runs : ~StartRun(r)
  PROVE  \/ coord'.pc \in Hands \ {"mark", "accept"} /\ coord.pc \in Hands \ {"mark", "accept"} /\ ~Promote
         \/ coord'.pc \in {"mark", "accept"} /\ coord.pc \in {"mark", "accept"} /\ ~Promote
         \/ Promote /\ coord'.pc = "mark"
<1>1. coord \in CoordRecord
  BY InHand
<1>2. \A step : Goto(step) => coord'.pc = step
  BY <1>1 DEF Goto, CoordRecord
<1>3. \A s, step : Commit(s, step) => coord'.pc = step
  BY <1>1 DEF Commit, CoordRecord
<1>4. Promote => coord.pc = "promote" /\ coord'.pc = "mark"
  BY <1>2 DEF Promote
<1>5. CASE UNCHANGED coord
  BY <1>4, <1>5
<1>6. CASE RecordRun
  BY <1>3, <1>6 DEF RecordRun, Hands, Promote
<1>7. CASE WaitForRun \/ TimeOut
  BY <1>1, <1>7 DEF WaitForRun, TimeOut, CoordRecord, Hands, Promote
<1>8. CASE CancelTimedOut \/ CancelTimedOutFails \/ MarkCommitted
  BY <1>2, <1>8 DEF CancelTimedOut, CancelTimedOutFails, MarkCommitted, Hands, Promote
<1>9. CASE RereadJudge
  BY <1>2, <1>9 DEF RereadJudge, GiveUp, Hands, Promote
<1> QED BY <1>4, <1>5, <1>6, <1>7, <1>8, <1>9, HandComes

LEMMA SharedKept == ASSUME TypeInv, CopiesInv, EarnedInv, SharedInv, [Next]_vars PROVE SharedInv'
<1> SUFFICES ASSUME Transactional PROVE SharedInv'
  BY DEF SharedInv, Transactional
<1>1. runs \in [Runs -> RunRecord] /\ shared \in Seq(Runs) /\ Len(shared) \in Nat
  BY DEF TypeInv, RunsOK
<1>2. \A k \in 1..Len(shared) : shared[k] \in Runs /\ Used(shared[k])
  BY <1>1, ElementOfSeq DEF SharedInv
<1>3. \A r \in Runs : Used(r) => runs'[r].status # "unused"
  BY Persistence DEF Used
<1>4. CASE Promote
  <2>1. \A k \in 1..Len(shared') : runs'[shared'[k]].status # "unused"
    BY <1>2, <1>3, <1>4, Promoted
  <2>2. \A k \in 1..Len(shared') : shared'[k] = coord'.run <=> k = Len(shared')
    BY <1>4, Promoted
  <2>3. shared' # << >>
    BY <1>4, Promoted
  <2> QED BY <1>4, <2>1, <2>2, <2>3, Promoted DEF SharedInv, Used
<1>5. CASE \E q \in Runs : StartRun(q)
  <2>1. PICK q \in Runs : StartRun(q)
    BY <1>5
  <2>2. PICK rec : runs' = [runs EXCEPT ![q] = rec] /\ rec.base = shared
    BY <2>1, StartedRun
  <2>3. runs'[q].base = shared
    BY <1>1, <2>2
  <2>4. coord'.pc = "record" /\ coord'.run = q /\ shared' = shared /\ ~Used(q)
    BY <2>1, InHand DEF StartRun, Start, CoordRecord
  <2>5. \A k \in 1..Len(shared) : runs'[shared[k]].status # "unused"
    BY <1>2, <1>3
  <2>6. \A k \in 1..Len(shared) : shared[k] # q
    BY <1>2, <2>4
  <2> QED BY <2>3, <2>4, <2>5, <2>6 DEF SharedInv, Used
<1>6. CASE ~Promote /\ \A q \in Runs : ~StartRun(q)
  <2>1. shared' = shared
    BY <1>6, SharedMoves
  <2>2. \A k \in 1..Len(shared') : runs'[shared'[k]].status # "unused"
    BY <1>2, <1>3, <2>1
  <2>3. CASE coord'.pc \notin Hands
    BY <2>2, <2>3 DEF SharedInv, Used, Hands
  <2>4. CASE coord'.pc \in Hands
    <3>1. /\ coord'.run = coord.run /\ coord.run \in Runs
          /\ runs'[coord.run].base = runs[coord.run].base
      BY <1>6, <2>4, HandStays DEF GoesOn
    <3>2. \/ coord'.pc \in Hands \ {"mark", "accept"} /\ coord.pc \in Hands \ {"mark", "accept"}
          \/ coord'.pc \in {"mark", "accept"} /\ coord.pc \in {"mark", "accept"}
      BY <1>6, <2>4, BeforeJudged
    <3> QED BY <2>1, <2>2, <3>1, <3>2 DEF SharedInv, Used
  <2> QED BY <2>3, <2>4
<1> QED BY <1>4, <1>5, <1>6

LEMMA SharedWorkKept ==
  ASSUME TypeInv, CopiesInv, EarnedInv, SharedInv, AcceptedWorkIsShared, [Next]_vars
  PROVE  AcceptedWorkIsShared'
<1> SUFFICES ASSUME Transactional PROVE AcceptedWorkIsShared'
  BY DEF AcceptedWorkIsShared, Transactional
<1>1. /\ session.accepted \in Seq([turn : Turns, run : Runs]) /\ Len(session.accepted) \in Nat
      /\ shared \in Seq(Runs) /\ Len(shared) \in Nat
  BY DEF TypeInv, StoreOK, WellFormed, Session, RunsOK
<1>2. CASE Promote
  <2>1. \A i \in 1..Len(session.accepted) : session.accepted[i].run # coord.run
    BY <1>2, HandIsNew DEF Promote, Hands
  <2>2. /\ Len(shared') = Len(shared) + 1 /\ shared'[Len(shared) + 1] = coord.run
        /\ \A k \in 1..Len(shared) : shared'[k] = shared[k]
        /\ session' = session
    BY <1>2, Promoted
  <2>3. ASSUME NEW i \in 1..Len(session.accepted)
        PROVE  \E k \in 1..Len(shared') : shared'[k] = session.accepted[i].run
    <3>1. PICK k \in 1..Len(shared) : shared[k] = session.accepted[i].run
      BY <2>3 DEF AcceptedWorkIsShared
    <3> QED BY <1>1, <2>2, <3>1
  <2>4. ASSUME NEW i \in 1..Len(session.accepted), NEW k \in 1..Len(shared'),
               shared'[k] = session.accepted[i].run
        PROVE  k \in 1..Len(shared) /\ shared[k] = session.accepted[i].run
    BY <1>1, <2>1, <2>2, <2>4
  <2>5. ASSUME NEW i \in 1..Len(session.accepted), NEW j \in 1..Len(session.accepted),
               NEW k \in 1..Len(shared'), NEW l \in 1..Len(shared'),
               shared'[k] = session.accepted[i].run, shared'[l] = session.accepted[j].run
        PROVE  i < j <=> k < l
    <3>1. /\ k \in 1..Len(shared) /\ shared[k] = session.accepted[i].run
          /\ l \in 1..Len(shared) /\ shared[l] = session.accepted[j].run
      BY <2>4, <2>5
    <3> QED BY <3>1 DEF AcceptedWorkIsShared
  <2>6. \A i, j \in 1..Len(session'.accepted), k, l \in 1..Len(shared') :
          shared'[k] = session'.accepted[i].run /\ shared'[l] = session'.accepted[j].run =>
            (i < j <=> k < l)
    BY <2>2, <2>5
  <2>7. \A i \in 1..Len(session'.accepted) :
          \E k \in 1..Len(shared') : shared'[k] = session'.accepted[i].run
    BY <2>2, <2>3
  <2> QED BY <2>6, <2>7 DEF AcceptedWorkIsShared
<1>3. CASE Accept
  <2> DEFINE n == Len(session.accepted)
             e == [turn |-> Turn, run |-> coord.run]
  <2>1. e.run = coord.run
    OBVIOUS
  <2>2. session'.accepted = Append(session.accepted, e) /\ shared' = shared /\ coord.pc = "accept"
    BY <1>3, AcceptedIs DEF Accept, AcceptExpecting
  <2> HIDE DEF e
  <2>3. /\ Len(session'.accepted) = n + 1
        /\ session'.accepted[n + 1].run = coord.run
        /\ \A i \in 1..n : session'.accepted[i] = session.accepted[i]
    BY <1>1, <2>1, <2>2
  <2>4. /\ \A i \in 1..n : session.accepted[i].run # coord.run
        /\ shared # << >>
        /\ \A k \in 1..Len(shared) : shared[k] = coord.run <=> k = Len(shared)
    BY <2>2, HandIsNew DEF Hands, SharedInv
  <2> HIDE DEF n
  <2>5. n \in Nat /\ Len(shared) \in 1..Len(shared) /\ shared[Len(shared)] = coord.run
    BY <1>1, <2>4 DEF n
  <2>6. \A i \in 1..n : \E k \in 1..Len(shared) : shared[k] = session.accepted[i].run
    BY DEF AcceptedWorkIsShared, n
  <2>7. ASSUME NEW i \in 1..n + 1
        PROVE  \E k \in 1..Len(shared) : shared[k] = session'.accepted[i].run
    <3>1. CASE i = n + 1
      BY <2>3, <2>5, <3>1
    <3>2. CASE i # n + 1
      <4>1. i \in 1..n
        BY <2>5, <3>2
      <4>2. PICK k \in 1..Len(shared) : shared[k] = session.accepted[i].run
        BY <2>6, <4>1
      <4> QED BY <2>3, <4>1, <4>2
    <3> QED BY <3>1, <3>2
  <2>8. ASSUME NEW i \in 1..n + 1, NEW j \in 1..n + 1,
               NEW k \in 1..Len(shared), NEW l \in 1..Len(shared),
               shared[k] = session'.accepted[i].run, shared[l] = session'.accepted[j].run
        PROVE  i < j <=> k < l
    <3>1. CASE i = n + 1
      <4>1. k = Len(shared)
        BY <2>3, <2>4, <2>8, <3>1
      <4> QED BY <1>1, <2>5, <3>1, <4>1
    <3>2. CASE i # n + 1 /\ j = n + 1
      <4>1. l = Len(shared) /\ k # Len(shared)
        BY <2>3, <2>4, <2>5, <2>8, <3>2
      <4> QED BY <1>1, <2>5, <3>2, <4>1
    <3>3. CASE i # n + 1 /\ j # n + 1
      <4>1. i \in 1..n /\ j \in 1..n
        BY <2>5, <3>3
      <4>2. shared[k] = session.accepted[i].run /\ shared[l] = session.accepted[j].run
        BY <2>3, <2>8, <4>1
      <4> QED BY <4>1, <4>2 DEF AcceptedWorkIsShared, n
    <3> QED BY <3>1, <3>2, <3>3
  <2>9. \A i \in 1..Len(session'.accepted) :
          \E k \in 1..Len(shared') : shared'[k] = session'.accepted[i].run
    BY <2>2, <2>3, <2>7
  <2>10. \A i, j \in 1..Len(session'.accepted), k, l \in 1..Len(shared') :
           shared'[k] = session'.accepted[i].run /\ shared'[l] = session'.accepted[j].run =>
             (i < j <=> k < l)
    <3>1. Len(session'.accepted) = n + 1 /\ shared' = shared
      BY <2>2, <2>3
    <3> QED BY <2>8, <3>1
  <2> QED BY <2>9, <2>10 DEF AcceptedWorkIsShared
<1>4. CASE ~Promote /\ ~Accept
  <2>1. shared' = shared /\ session'.accepted = session.accepted
    BY <1>4, SharedMoves, LedgerGrows
  <2> QED BY <2>1 DEF AcceptedWorkIsShared
<1> QED BY <1>2, <1>3, <1>4

\* The edits of every accepted run are in the shared workspace, each once and in
\* the order of acceptance, whatever promotions fail or are repeated between them.
THEOREM SharedWork == Spec => []AcceptedWorkIsShared
<1>1. Init => SharedInv /\ AcceptedWorkIsShared
  BY DEF Init, SharedInv, AcceptedWorkIsShared, NewSession, Idle, Hands
<1>2. TypeInv /\ CopiesInv /\ EarnedInv /\ SharedInv /\ AcceptedWorkIsShared /\ [Next]_vars
        => SharedInv' /\ AcceptedWorkIsShared'
  BY SharedKept, SharedWorkKept
<1> QED BY <1>1, <1>2, EarnedInvariance, PTL DEF Spec

-----------------------------------------------------------------------------
(* Runs in progress                                                          *)

\* What a step does to the stop requests.
LEMMA OrderlyStops ==
  ASSUME [Next]_vars
  PROVE  \/ UNCHANGED stop \/ RecordLost \/ AfterStop \/ Crash
         \/ \E p \in StopCallers : StopStep(p)
         \/ Trouble
<1>1. CASE CoordinatorStep
  BY <1>1 DEF CoordinatorStep, Receive, Deliver, SuppressDuplicate, ClaimTurn, InjectFault,
       StartRun, Start, TimeOut, MarkCommitted, DiscardWorkspace,
       StartRejected, RecordRun, WaitForRun, CancelTimedOut,
       RereadEnded, RereadChanged, RereadJudge, Promote, Accept, AcceptExpecting, PublishExpected,
       Settle, RetryTurn, FailSession, LoseRace, RecoverSession
<1>2. CASE Trouble
  BY <1>2
<1>3. CASE \E p \in StopCallers : StopStep(p)
  BY <1>3
<1>4. CASE \E p \in Interrupters : InterruptActiveRun(p) \/ InterruptStep(p)
  BY <1>4 DEF InterruptActiveRun, InterruptStep, ReadForRequest, RecordRequest,
       InterruptCancelRun, ReadForVerdict, FinalizeInterruption, InterruptLoses
<1>5. CASE PublishFirstTurn \/ (\E r \in Runs : FinishRun(r)) \/ (\E t \in Turns : WindowExpires(t))
           \/ UNCHANGED vars
  BY <1>5 DEF PublishFirstTurn, FinishRun, WindowExpires, vars
<1> QED BY <1>1, <1>2, <1>3, <1>4, <1>5 DEF Next

\* A stop is disturbed by rejected calls and crashes only.
LEMMA StopsMove ==
  ASSUME [Next]_vars, ~Fault
  PROVE  \/ UNCHANGED stop \/ RecordLost \/ AfterStop \/ Crash
         \/ \E p \in StopCallers : StopStep(p)
<1>1. CASE Trouble
  BY <1>1 DEF Trouble, CreatorThrows, CancelTimedOutFails, PromoteFails, DeliveryThrows,
       StopCancelFails, StopThrows, RequestUnannounced, InterruptCancelFails, InterruptThrows
<1> QED BY <1>1, OrderlyStops

\* Rejected calls are counted.
LEMMA CallsCounted ==
  ASSUME TypeInv, [Next]_vars
  PROVE  /\ faults.calls \in Nat
         /\ UNCHANGED faults.calls \/ faults'.calls = faults.calls + 1
         /\ Fault => faults'.calls = faults.calls + 1
<1>1. faults \in [crashes : 0..MaxCrashes, calls : 0..MaxFaults, expiries : 0..MaxExpiries]
  BY DEF TypeInv, RestOK
<1>2. faults.calls \in Nat
  BY <1>1, ConstantsAssumption
<1>3. Fault => faults'.calls = faults.calls + 1
  BY <1>1 DEF Fault
<1>4. Crash \/ (\E t \in Turns : WindowExpires(t)) => faults'.calls = faults.calls
  BY <1>1 DEF Crash, WindowExpires
<1>5. UNCHANGED faults \/ Fault \/ Crash \/ (\E t \in Turns : WindowExpires(t))
  <2>1. CASE CoordinatorStep
    BY <2>1 DEF CoordinatorStep, Receive, Deliver, SuppressDuplicate, ClaimTurn, InjectFault,
         StartRun, Start, TimeOut, MarkCommitted, DiscardWorkspace,
         StartRejected, RecordRun, RecordLost, AfterStop, WaitForRun, CancelTimedOut,
         RereadEnded, RereadChanged, RereadJudge, Promote, Accept, AcceptExpecting, PublishExpected,
         Settle, RetryTurn, FailSession, LoseRace, RecoverSession
  <2>2. CASE Trouble
    BY <2>2 DEF Trouble, CreatorThrows, CancelTimedOutFails, PromoteFails, DeliveryThrows,
         StopCancelFails, StopThrows, RequestUnannounced, InterruptCancelFails, InterruptThrows
  <2>3. CASE \E p \in StopCallers : StopStep(p)
    BY <2>3 DEF StopStep, StopRead, StopCommit, StopLoses, StopCancelRun, StopReadAgain, StopNote
  <2>4. CASE \E p \in Interrupters : InterruptActiveRun(p) \/ InterruptStep(p)
    BY <2>4 DEF InterruptActiveRun, InterruptStep, ReadForRequest, RecordRequest,
         InterruptCancelRun, ReadForVerdict, FinalizeInterruption, InterruptLoses
  <2>5. CASE PublishFirstTurn \/ (\E r \in Runs : FinishRun(r)) \/ UNCHANGED vars
    BY <2>5 DEF PublishFirstTurn, FinishRun, vars
  <2> QED BY <2>1, <2>2, <2>3, <2>4, <2>5 DEF Next
<1> QED BY <1>2, <1>3, <1>4, <1>5

\* The coordinator waits for the stop it has begun.
LEMMA StoppingLeaves ==
  ASSUME [Next]_vars, coord.pc = "stopping"
  PROVE  UNCHANGED coord \/ AfterStop \/ Crash
<1>1. CASE CoordinatorStep
  BY <1>1 DEF CoordinatorStep, Receive, Deliver, SuppressDuplicate, ClaimTurn, InjectFault,
       StartRun, Start, TimeOut, MarkCommitted, DiscardWorkspace,
       StartRejected, RecordRun, RecordLost, WaitForRun, CancelTimedOut,
       RereadEnded, RereadChanged, RereadJudge, Promote, Accept, AcceptExpecting, PublishExpected,
       Settle, RetryTurn, FailSession, LoseRace, RecoverSession, CasSteps
<1>2. CASE Trouble
  BY <1>2 DEF Trouble, CreatorThrows, CancelTimedOutFails, PromoteFails, DeliveryThrows, CasSteps, ThrowingSteps,
       StopCancelFails, StopThrows, RequestUnannounced, InterruptCancelFails, InterruptThrows
<1>3. CASE \E p \in StopCallers : StopStep(p)
  BY <1>3 DEF StopStep, StopRead, StopCommit, StopLoses, StopCancelRun, StopReadAgain, StopNote
<1>4. CASE \E p \in Interrupters : InterruptActiveRun(p) \/ InterruptStep(p)
  BY <1>4 DEF InterruptActiveRun, InterruptStep, ReadForRequest, RecordRequest,
       InterruptCancelRun, ReadForVerdict, FinalizeInterruption, InterruptLoses
<1>5. CASE PublishFirstTurn \/ (\E r \in Runs : FinishRun(r)) \/ (\E t \in Turns : WindowExpires(t))
           \/ UNCHANGED vars
  BY <1>5 DEF PublishFirstTurn, FinishRun, WindowExpires, vars
<1> QED BY <1>1, <1>2, <1>3, <1>4, <1>5 DEF Next

\* How it leaves a run in progress.
LEMMA HandLeaves ==
  ASSUME [Next]_vars, coord.pc \in {"record", "wait", "expire"}
  PROVE  UNCHANGED coord \/ RecordRun \/ RecordLost \/ WaitForRun \/ TimeOut \/ CancelTimedOut \/ Fault \/ Crash
<1>1. CASE CoordinatorStep
  BY <1>1 DEF CoordinatorStep, Receive, Deliver, SuppressDuplicate, ClaimTurn, InjectFault,
       StartRun, Start, MarkCommitted, DiscardWorkspace, StartRejected, AfterStop,
       RereadEnded, RereadChanged, RereadJudge, Promote, Accept, AcceptExpecting, PublishExpected,
       Settle, RetryTurn, FailSession, LoseRace, RecoverSession, CasSteps
<1>2. CASE Trouble
  BY <1>2 DEF Trouble, CreatorThrows, CancelTimedOutFails, PromoteFails, DeliveryThrows,
       StopCancelFails, StopThrows, RequestUnannounced, InterruptCancelFails, InterruptThrows
<1>3. CASE \E p \in StopCallers : StopStep(p)
  BY <1>3 DEF StopStep, StopRead, StopCommit, StopLoses, StopCancelRun, StopReadAgain, StopNote
<1>4. CASE \E p \in Interrupters : InterruptActiveRun(p) \/ InterruptStep(p)
  BY <1>4 DEF InterruptActiveRun, InterruptStep, ReadForRequest, RecordRequest,
       InterruptCancelRun, ReadForVerdict, FinalizeInterruption, InterruptLoses
<1>5. CASE PublishFirstTurn \/ (\E r \in Runs : FinishRun(r)) \/ (\E t \in Turns : WindowExpires(t))
           \/ UNCHANGED vars
  BY <1>5 DEF PublishFirstTurn, FinishRun, WindowExpires, vars
<1> QED BY <1>1, <1>2, <1>3, <1>4, <1>5 DEF Next

\* How it comes to the steps before a run is recorded.
LEMMA ClaimComes ==
  ASSUME TypeInv, [Next]_vars, coord'.pc \in {"claim", "inject", "start", "record"}
  PROVE  \/ UNCHANGED coord
         \/ coord'.revision = revision'
         \/ coord.pc = "start" /\ coord'.revision = coord.revision /\ UNCHANGED store
<1>1. coord \in CoordRecord
  BY InHand
<1>2. ASSUME NEW m \in 1..Len(mailbox), Receive(m)
      PROVE  coord'.revision = revision'
  BY <1>2 DEF Receive, Deliver, store
<1>3. CASE ClaimTurn
  BY <1>1, <1>3 DEF ClaimTurn, Commit, Save, CoordRecord
<1>4. CASE \E r \in Runs : StartRun(r)
  BY <1>1, <1>4 DEF StartRun, Start, CoordRecord
<1>5. CASE coord'.pc = "record" /\ \A r \in Runs : ~StartRun(r)
  <2>1. /\ \A step : Goto(step) => coord'.pc = step
        /\ \A s, step : Commit(s, step) => coord'.pc = step
    <3>1. \A step : Goto(step) => coord'.pc = step
      BY <1>1 DEF Goto, CoordRecord
    <3>2. \A s, step : Commit(s, step) => coord'.pc = step
      BY <1>1 DEF Commit, CoordRecord
    <3> QED BY <3>1, <3>2
  <2>2. ~RecordRun /\ ~CancelTimedOut /\ ~CancelTimedOutFails /\ ~RereadJudge /\ ~Promote /\ ~MarkCommitted
    BY <1>5, <2>1 DEF RecordRun, CancelTimedOut, CancelTimedOutFails, RereadJudge, GiveUp, Promote, MarkCommitted
  <2>3. ~WaitForRun /\ ~TimeOut
    BY <1>1, <1>5 DEF WaitForRun, TimeOut, CoordRecord
  <2> QED BY <1>5, <2>2, <2>3, HandComes DEF Hands
<1>6. CASE coord'.pc # "record"
  BY <1>2, <1>3, <1>6, CoordComes DEF Hands
<1> QED BY <1>4, <1>5, <1>6

\* Whoever writes the session behind the coordinator's back stops it or interrupts
\* a run of it.
LEMMA OthersWrite ==
  ASSUME TypeInv, CopiesInv, HeldInv, [Next]_vars, UNCHANGED coord
  PROVE  \/ UNCHANGED store
         \/ session'.status = "cancelled"
         \/ ~Undisturbed'
<1>1. coord \in CoordRecord /\ session \in Session
  BY InHand DEF TypeInv, StoreOK, WellFormed
<1>2. CASE CoordinatorStep
  <2>1. \A s, step : Commit(s, step) => coord'.pc = step
    BY <1>1 DEF Commit, CoordRecord
  <2>2. ~SuppressDuplicate /\ ~InjectFault /\ ~FailSession /\ ~ClaimTurn /\ ~RecordRun /\ ~Accept
    BY <2>1, StillCoord DEF SuppressDuplicate, InjectFault, GiveUp, FailSession
  <2>3. ~RetryTurn
    BY DEF RetryTurn, Idle
  <2>4. RecoverSession => UNCHANGED store
    BY <1>1 DEF RecoverSession, CoordRecord
  <2> QED BY <1>2, <2>2, <2>3, <2>4 DEF CoordinatorStep, Receive, Deliver,
         StartRun, Start, TimeOut, MarkCommitted, DiscardWorkspace,
         StartRejected, RecordLost, AfterStop, WaitForRun, CancelTimedOut,
         RereadEnded, RereadChanged, RereadJudge, Promote, PublishExpected, Settle, LoseRace
<1>3. ASSUME NEW p \in StopCallers, StopCommit(p) \/ StopNote(p)
      PROVE  session'.status = "cancelled"
  <2>1. stop[p].session = session
    BY <1>3 DEF StopCommit, StopNote, Wins, CopiesInv, CurrentAt
  <2>2. CASE StopCommit(p)
    <3>1. session' = [session EXCEPT !.status = "cancelled"]
      BY <2>1, <2>2 DEF StopCommit, Save
    <3> QED BY <1>1, <3>1 DEF Session
  <2>3. CASE StopNote(p)
    <3>1. session.status = "cancelled"
      BY <2>3 DEF StopNote, HeldInv
    <3>2. PICK noted : session' = [session EXCEPT !.active = NoRun, !.cancelNoted = noted]
      BY <2>1, <2>3 DEF StopNote, Save
    <3> QED BY <1>1, <3>1, <3>2 DEF Session
  <2> QED BY <1>3, <2>2, <2>3
<1>4. ASSUME NEW p \in Interrupters,
             RecordRequest(p) \/ RequestUnannounced(p) \/ FinalizeInterruption(p)
      PROVE  ~Undisturbed'
  <2>1. interrupt[p].session = session /\ InterruptOK(interrupt[p])
    BY <1>4 DEF RecordRequest, RequestUnannounced, FinalizeInterruption, Wins, CopiesInv, CurrentAt,
                TypeInv, InterruptsOK
  <2>2. interrupt[p].pc \in {"request", "finalize"} /\ interrupt[p].run \in Runs
    BY <1>4, <2>1 DEF RecordRequest, RequestUnannounced, FinalizeInterruption, InterruptOK
  <2>3. PICK x \in {"requested", "cancelled", "failed"} :
          session' = [session EXCEPT !.interruptions[interrupt[p].run] = x]
    BY <1>4, <2>1 DEF RecordRequest, RequestUnannounced, FinalizeInterruption, Save, InterruptOK
  <2>4. session'.interruptions = [session.interruptions EXCEPT ![interrupt[p].run] = x]
    <3>1. Interrupts(p, x)
      BY <1>4, <2>1, <2>2, <2>3 DEF Interrupts, Interruption
    <3> QED BY <3>1, InterruptsAre
  <2>5. session.interruptions \in [Runs -> Interruption]
    BY <1>1 DEF Session
  <2>6. session'.interruptions[interrupt[p].run] = x
    BY <2>2, <2>4, <2>5
  <2> QED BY <2>2, <2>6 DEF Undisturbed
<1>5. CASE \E p \in StopCallers : StopStep(p) \/ StopCancelFails(p) \/ StopThrows(p)
  BY <1>3, <1>5 DEF StopStep, StopRead, StopLoses, StopCancelRun, StopReadAgain,
       StopCancelFails, StopThrows
<1>6. CASE \E p \in Interrupters :
             \/ InterruptActiveRun(p) \/ InterruptStep(p)
             \/ RequestUnannounced(p) \/ InterruptCancelFails(p) \/ InterruptThrows(p)
  BY <1>4, <1>6 DEF InterruptActiveRun, InterruptStep, ReadForRequest, InterruptCancelRun,
       ReadForVerdict, InterruptLoses, InterruptCancelFails, InterruptThrows
<1>7. CASE \/ CreatorThrows \/ CancelTimedOutFails \/ PromoteFails \/ DeliveryThrows \/ Crash
           \/ PublishFirstTurn \/ (\E r \in Runs : FinishRun(r)) \/ (\E t \in Turns : WindowExpires(t))
           \/ UNCHANGED vars
  BY <1>7 DEF CreatorThrows, CancelTimedOutFails, PromoteFails, DeliveryThrows, Crash,
       PublishFirstTurn, FinishRun, WindowExpires, vars, store
<1> QED BY <1>2, <1>5, <1>6, <1>7 DEF Next, Trouble

\* A stop's cancellation ends the run.
LEMMA CancelEnds ==
  ASSUME TypeInv, NEW r \in Runs, CancelRun(r) PROVE runs'[r].status # "active"
<1>1. runs \in [Runs -> RunRecord]
  BY DEF TypeInv, RunsOK
<1>2. CASE runs[r].status = "active"
  <2>1. runs' = [runs EXCEPT ![r] = [runs[r] EXCEPT !.status = "cancelled"]]
    BY <1>2 DEF CancelRun
  <2> QED BY <1>1, <2>1 DEF RunRecord
<1> QED BY <1>2 DEF CancelRun

LEMMA CrashEnds ==
  ASSUME TypeInv, Crash, NEW r \in Runs PROVE runs'[r].status # "active"
<1>1. runs[r] \in RunRecord
  BY DEF TypeInv, RunsOK
<1> DEFINE st == IF runs[r].status = "active" THEN "cancelled" ELSE runs[r].status
           ws == IF runs[r].workspace = "open" THEN "discarded" ELSE runs[r].workspace
<1>2. runs'[r] = [runs[r] EXCEPT !.status = st, !.workspace = ws]
  BY DEF Crash
<1>3. st # "active"
  OBVIOUS
<1> HIDE DEF st, ws
<1>4. runs'[r].status = st
  BY <1>1, <1>2 DEF RunRecord
<1> QED BY <1>3, <1>4

\* The stop requests of a step that does not start a run.
LEMMA StopsStay ==
  ASSUME TypeInv, HeldInv, [Next]_vars, ~Fault, NEW r \in Runs, runs'[r].status = "active", Stops(r)
  PROVE  Stops(r)'
<1>1. PICK p \in StopCallers : stop[p].pc = "cancel" /\ stop[p].run = r
  BY DEF Stops
<1>2. stop = [q \in StopCallers |-> stop[q]]
  BY DEF TypeInv, StopsOK
<1>3. CASE RecordLost
  <2>1. p # Coordinator
    BY <1>1, <1>3 DEF RecordLost, HeldInv
  <2>2. stop'[p] = stop[p]
    BY <1>2, <1>3, <2>1 DEF RecordLost
  <2> QED BY <1>1, <2>2 DEF Stops
<1>4. CASE AfterStop
  <2>1. p # Coordinator
    BY <1>1, <1>4 DEF AfterStop
  <2>2. stop'[p] = stop[p]
    BY <1>2, <1>4, <2>1 DEF AfterStop
  <2> QED BY <1>1, <2>2 DEF Stops
<1>5. ~Crash
  BY CrashEnds
<1>6. CASE \E q \in StopCallers : StopStep(q)
  <2>1. PICK q \in StopCallers : StopStep(q)
    BY <1>6
  <2>2. CASE q = p
    <3>1. StopCancelRun(p)
      BY <1>1, <2>1, <2>2 DEF StopStep, StopRead, StopCommit, StopLoses, StopReadAgain, StopNote
    <3> QED BY <1>1, <3>1, CancelEnds DEF StopCancelRun
  <2>3. CASE q # p
    <3>1. stop'[p] = stop[p]
      <4>1. \E x : SetStop(q, x)
        BY <2>1 DEF StopStep, StopRead, StopCommit, StopLoses, StopCancelRun, StopReadAgain, StopNote
      <4> QED BY <1>2, <2>3, <4>1 DEF SetStop
    <3> QED BY <1>1, <3>1 DEF Stops
  <2> QED BY <2>2, <2>3
<1>7. CASE UNCHANGED stop
  BY <1>1, <1>7 DEF Stops
<1> QED BY <1>3, <1>4, <1>5, <1>6, <1>7, StopsMove

\* Requests in the hands of a coordinator that is not stopping, and their notes.
LEMMA StopsBegin ==
  ASSUME TypeInv, CopiesInv, HeldInv, [Next]_vars
  PROVE  /\ coord'.pc # "stopping" => stop'[Coordinator].pc = "idle"
         /\ \A p \in StopCallers : stop'[p].pc = "note" => session'.status = "cancelled"
<1>1. stop = [q \in StopCallers |-> stop[q]] /\ \A q \in StopCallers : stop[q] \in Request(StopSteps)
  BY DEF TypeInv, StopsOK, StopOK
<1>2. coord \in CoordRecord /\ Coordinator \in StopCallers
  BY InHand DEF StopCallers
<1>3. session.status = "cancelled" => session'.status = "cancelled"
  BY SessionWrites DEF SessionGoesOn, Running
<1>4. CASE RecordLost
  <2>1. CASE session.status = "cancelled"
    BY <1>1, <1>2, <1>3, <1>4, <2>1 DEF RecordLost, Goto, CoordRecord
  <2>2. CASE session.status # "cancelled"
    BY <1>3, <1>4, <2>2 DEF RecordLost, HeldInv
  <2> QED BY <2>1, <2>2
<1>5. CASE AfterStop
  BY <1>1, <1>2, <1>3, <1>5 DEF AfterStop, HeldInv, NoRequest
<1>6. CASE Crash
  <2>1. \A q \in StopCallers : stop'[q].pc # "note"
    <3>1. NoRequest.pc = "idle" /\ Finished("threw").pc = "threw"
      BY DEF NoRequest, Finished
    <3>2. \A x : Dies(x).pc # "note"
      BY <3>1 DEF Dies
    <3>3. \A q \in StopCallers : stop'[q] = NoRequest \/ \E x : stop'[q] = Dies(x)
      BY <1>6 DEF Crash
    <3> QED BY <3>1, <3>2, <3>3
  <2>2. stop'[Coordinator].pc = "idle"
    BY <1>2, <1>6 DEF Crash, NoRequest
  <2> QED BY <2>1, <2>2
<1>7. ASSUME NEW q \in StopCallers, NEW x, SetStop(q, x), UNCHANGED coord,
             q = Coordinator => stop[Coordinator].pc # "idle",
             x.pc = "note" => stop[q].pc = "note" \/ session.status = "cancelled"
      PROVE  /\ coord'.pc # "stopping" => stop'[Coordinator].pc = "idle"
             /\ \A p \in StopCallers : stop'[p].pc = "note" => session'.status = "cancelled"
  <2>1. stop'[q] = x /\ \A p \in StopCallers : p # q => stop'[p] = stop[p]
    BY <1>1, <1>7 DEF SetStop
  <2> QED BY <1>2, <1>3, <1>7, <2>1 DEF HeldInv
<1>8. CASE \E q \in StopCallers : StopStep(q) \/ StopCancelFails(q) \/ StopThrows(q)
  <2>1. PICK q \in StopCallers : StopStep(q) \/ StopCancelFails(q) \/ StopThrows(q)
    BY <1>8
  <2>2. UNCHANGED coord /\ (q = Coordinator => stop[Coordinator].pc # "idle")
    BY <2>1 DEF StopStep, StopRead, StopCommit, StopLoses, StopCancelRun, StopReadAgain, StopNote,
         StopCancelFails, StopThrows
  <2>3. Finished("done").pc = "done" /\ Finished("threw").pc = "threw"
    BY DEF Finished, NoRequest
  <2>4. \E x : SetStop(q, x) /\ (x.pc = "note" => stop[q].pc = "note" \/ session.status = "cancelled")
    <3>1. CASE StopRead(q)
      <4>1. CASE session.status = "running"
        <5>1. PICK x : /\ SetStop(q, x)
                       /\ x = [stop[q] EXCEPT !.pc = "commit", !.revision = revision, !.session = session]
          BY <3>1, <4>1 DEF StopRead
        <5>2. x.pc = "commit"
          BY <1>1, <5>1 DEF Request
        <5> QED BY <5>1, <5>2
      <4>2. CASE session.status # "running"
        BY <3>1, <4>2 DEF StopRead
      <4> QED BY <4>1, <4>2
    <3>2. CASE StopCommit(q)
      <4>1. CASE stop[q].session.active = NoRun
        BY <2>3, <3>2, <4>1 DEF StopCommit
      <4>2. CASE stop[q].session.active # NoRun
        <5>1. PICK x : /\ SetStop(q, x)
                       /\ x = [stop[q] EXCEPT !.pc = "cancel", !.run = stop[q].session.active, !.tries = 0]
          BY <3>2, <4>2 DEF StopCommit
        <5>2. x.pc = "cancel"
          BY <1>1, <5>1 DEF Request
        <5> QED BY <5>1, <5>2
      <4> QED BY <4>1, <4>2
    <3>3. CASE StopLoses(q)
      <4>1. stop[q].pc \in {"commit", "note"}
        BY <3>3 DEF StopLoses
      <4>2. CASE stop[q].tries + 1 = StopTries
        BY <2>3, <3>3, <4>2 DEF StopLoses
      <4>3. CASE stop[q].tries + 1 # StopTries
        <5>1. PICK x : /\ SetStop(q, x)
                       /\ x = [stop[q] EXCEPT !.pc = IF @ = "commit" THEN "idle" ELSE "read", !.tries = @ + 1]
          BY <3>3, <4>3 DEF StopLoses
        <5>2. x.pc \in {"idle", "read"}
          BY <1>1, <5>1 DEF Request
        <5> QED BY <5>1, <5>2
      <4> QED BY <4>2, <4>3
    <3>4. CASE StopCancelRun(q) \/ StopCancelFails(q)
      <4>1. PICK x : SetStop(q, x) /\ x = [stop[q] EXCEPT !.pc = "read"]
        BY <3>4 DEF StopCancelRun, StopCancelFails
      <4>2. x.pc = "read"
        BY <1>1, <4>1 DEF Request
      <4> QED BY <4>1, <4>2
    <3>5. CASE StopReadAgain(q)
      BY <2>3, <3>5 DEF StopReadAgain
    <3>6. CASE StopNote(q) \/ StopThrows(q)
      BY <2>3, <3>6 DEF StopNote, StopThrows
    <3> QED BY <2>1, <3>1, <3>2, <3>3, <3>4, <3>5, <3>6 DEF StopStep
  <2> QED BY <1>7, <2>2, <2>4
<1>9. CASE UNCHANGED stop /\ ~AfterStop
  <2>1. CASE coord.pc = "stopping"
    <3>1. UNCHANGED coord \/ Crash
      BY <1>9, <2>1, StoppingLeaves
    <3> QED BY <1>3, <1>6, <1>9, <2>1, <3>1 DEF HeldInv
  <2>2. CASE coord.pc # "stopping"
    BY <1>3, <1>9, <2>2 DEF HeldInv
  <2> QED BY <2>1, <2>2
<1>10. \/ UNCHANGED stop \/ RecordLost \/ AfterStop \/ Crash
       \/ \E q \in StopCallers : StopStep(q) \/ StopCancelFails(q) \/ StopThrows(q)
  <2>1. CASE Trouble
    BY <2>1 DEF Trouble, CreatorThrows, CancelTimedOutFails, PromoteFails, DeliveryThrows,
       RequestUnannounced, InterruptCancelFails, InterruptThrows
  <2> QED BY <2>1, OrderlyStops
<1> QED BY <1>4, <1>5, <1>6, <1>8, <1>9, <1>10

LEMMA HeldKept == ASSUME TypeInv, CopiesInv, EarnedInv, HeldInv, [Next]_vars PROVE HeldInv'
<1> SUFFICES ASSUME faults'.calls = 0, Undisturbed'
             PROVE  /\ coord'.pc \in {"claim", "inject", "start", "record"} =>
                         coord'.revision = revision' \/ session'.status = "cancelled"
                    /\ \A r \in Runs : runs'[r].status = "active" =>
                         \/ coord'.run = r /\ coord'.pc \in {"record", "wait", "expire"}
                         \/ Stops(r)'
  BY StopsBegin DEF HeldInv
<1>1. faults.calls = 0 /\ ~Fault
  BY CallsCounted
<1>2. Undisturbed
  BY Persistence DEF Undisturbed
<1>3. coord \in CoordRecord /\ runs \in [Runs -> RunRecord]
  BY InHand DEF TypeInv, RunsOK
<1>4. session.status = "cancelled" => session'.status = "cancelled"
  BY SessionWrites DEF SessionGoesOn, Running
<1>5. coord.pc \in {"claim", "inject", "start", "record"} =>
        coord.revision = revision \/ session.status = "cancelled"
  BY <1>1, <1>2 DEF HeldInv
<1>6. ASSUME coord'.pc \in {"claim", "inject", "start", "record"}
      PROVE  coord'.revision = revision' \/ session'.status = "cancelled"
  <2>1. CASE UNCHANGED coord
    BY <1>4, <1>5, <1>6, <2>1, OthersWrite DEF store
  <2>2. CASE coord.pc = "start" /\ coord'.revision = coord.revision /\ UNCHANGED store
    BY <1>5, <2>2 DEF store
  <2> QED BY <1>6, <2>1, <2>2, ClaimComes
<1>7. ASSUME NEW r \in Runs, runs'[r].status = "active"
      PROVE  \/ coord'.run = r /\ coord'.pc \in {"record", "wait", "expire"}
             \/ Stops(r)'
  <2>1. CASE Stops(r)
    BY <1>1, <1>7, <2>1, StopsStay
  <2>2. CASE \E q \in Runs : StartRun(q)
    <3>1. PICK q \in Runs : StartRun(q)
      BY <2>2
    <3>2. coord'.run = q /\ coord'.pc = "record" /\ coord.pc = "start"
      BY <1>3, <3>1 DEF StartRun, Start, CoordRecord
    <3>3. r # q => runs'[r] = runs[r]
      BY <1>3, <3>1 DEF StartRun, Start
    <3>4. r # q => Stops(r)
      BY <1>1, <1>2, <1>7, <3>2, <3>3 DEF HeldInv
    <3> QED BY <2>1, <3>2, <3>4
  <2>3. CASE ~Stops(r) /\ \A q \in Runs : ~StartRun(q)
    <3>1. runs[r].status = "active"
      BY <1>7, <2>3, RunsGoOn DEF GoesOn
    <3>2. coord.run = r /\ coord.pc \in {"record", "wait", "expire"}
      BY <1>1, <1>2, <2>3, <3>1 DEF HeldInv
    <3>3. CASE UNCHANGED coord
      BY <3>2, <3>3
    <3>4. CASE RecordRun
      BY <1>3, <3>2, <3>4 DEF RecordRun, Commit, CoordRecord
    <3>5. CASE TimeOut
      BY <1>3, <3>2, <3>5 DEF TimeOut, CoordRecord
    <3>6. ~WaitForRun
      BY <3>1, <3>2 DEF WaitForRun
    <3>7. ~CancelTimedOut
      BY <1>7, <3>2, CancelEnds DEF CancelTimedOut
    <3>8. CASE RecordLost
      <4>1. session.status = "cancelled"
        BY <1>5, <3>8 DEF RecordLost, Wins
      <4>2. stop' = [stop EXCEPT ![Coordinator] = [NoRequest EXCEPT !.pc = "cancel", !.run = r]]
        BY <3>2, <3>8, <4>1 DEF RecordLost
      <4>3. stop'[Coordinator] = [NoRequest EXCEPT !.pc = "cancel", !.run = r] /\ Coordinator \in StopCallers
        BY <4>2 DEF TypeInv, StopsOK, StopCallers
      <4>4. stop'[Coordinator].pc = "cancel" /\ stop'[Coordinator].run = r
        BY <4>3 DEF NoRequest
      <4> QED BY <4>3, <4>4 DEF Stops
    <3> QED BY <1>1, <1>7, <3>2, <3>3, <3>4, <3>5, <3>6, <3>7, <3>8, HandLeaves, CrashEnds
  <2> QED BY <2>1, <2>2, <2>3
<1> QED BY <1>6, <1>7

LEMMA HeldInvariance == Spec => []HeldInv
<1>1. Init => HeldInv
  <2> SUFFICES ASSUME Init PROVE HeldInv
    OBVIOUS
  <2>1. \A p \in StopCallers : stop[p].pc = "idle"
    BY DEF Init, NoRequest
  <2> QED BY <2>1 DEF Init, HeldInv, Idle, UnusedRun, StopCallers
<1>2. TypeInv /\ CopiesInv /\ EarnedInv /\ HeldInv /\ [Next]_vars => HeldInv'
  BY HeldKept
<1> QED BY <1>1, <1>2, EarnedInvariance, PTL DEF Spec

\* As long as no call has been rejected, no run is left to itself: the coordinator
\* or a stop holds every run in progress, through every crash.
THEOREM RunsAreHeld == Spec => [](faults.calls = 0 => NoRunIsAbandoned)
<1>1. HeldInv => (faults.calls = 0 => NoRunIsAbandoned)
  BY DEF HeldInv, NoRunIsAbandoned, HeldBy, Stops
<1> QED BY <1>1, HeldInvariance, PTL

\* As long as no call has been rejected, a stop reaches the runtime, wherever it
\* meets the coordinator and whatever crashed before it: once a cancelled session
\* is quiet, nothing runs for it.
THEOREM StopsReachRuns == Spec => [](faults.calls = 0 => StopReachesRunUnlessInterrupted)
<1>1. HeldInv => (faults.calls = 0 => StopReachesRunUnlessInterrupted)
  <2> SUFFICES ASSUME HeldInv, faults.calls = 0, Undisturbed, Quiet, NEW r \in Runs
               PROVE  runs[r].status # "active"
    BY DEF StopReachesRunUnlessInterrupted, StopReachesRun
  <2>1. ~Stops(r)
    BY DEF Quiet, Stops
  <2> QED BY <2>1 DEF HeldInv, Quiet
<1> QED BY <1>1, HeldInvariance, PTL

-----------------------------------------------------------------------------
(* Interruptions that were requested                                         *)

\* An interruption on its way to its verdict, or the request that gave up or was
\* cut off by a crash.
Carries(i, r) == i.pc = "threw" \/ (i.pc \in {"cancel", "reread", "finalize"} /\ i.run = r)
RequestsAreCarried ==
  \A r \in Runs : session.interruptions[r] = "requested" =>
    \E p \in Interrupters : Carries(interrupt[p], r)

\* Whoever carries a request goes on to carry it until the verdict is stored.
LEMMA CarriedOn ==
  ASSUME TypeInv, CopiesInv, [Next]_vars, ~Fault, NEW r \in Runs, NEW p \in Interrupters,
         Carries(interrupt[p], r),
         session.interruptions[r] = "requested", session'.interruptions[r] = "requested"
  PROVE  Carries(interrupt'[p], r)
<1> DEFINE i == interrupt[p]
<1>1. /\ i \in Request(InterruptSteps) /\ InterruptOK(i) /\ DOMAIN interrupt = Interrupters
      /\ session.interruptions \in [Runs -> Interruption]
  BY DEF TypeInv, InterruptsOK, InterruptOK, StoreOK, WellFormed, Session
<1>2. CASE interrupt'[p] = interrupt[p]
  BY <1>2
<1>3. CASE Crash
  <2>1. interrupt'[p] = Dies(interrupt[p])
    BY <1>3 DEF Crash
  <2>2. interrupt[p].pc # "done" /\ interrupt[p] # NoRequest
    BY DEF Carries, NoRequest
  <2> QED BY <2>1, <2>2 DEF Dies, Finished, NoRequest, Carries
<1>4. ASSUME NEW q \in Interrupters, q # p, NEW rec, SetInterrupt(q, rec)
      PROVE  Carries(interrupt'[p], r)
  BY <1>1, <1>2, <1>4 DEF SetInterrupt
<1>5. ASSUME NEW rec, SetInterrupt(p, rec), Carries(rec, r) PROVE Carries(interrupt'[p], r)
  BY <1>1, <1>5 DEF SetInterrupt
<1>6. CASE InterruptActiveRun(p) \/ ReadForRequest(p) \/ RecordRequest(p)
  BY <1>6 DEF InterruptActiveRun, ReadForRequest, RecordRequest, Carries
<1>7. CASE InterruptCancelRun(p)
  <2>1. i.pc = "cancel" /\ i.run = r
    BY <1>7 DEF InterruptCancelRun, Carries
  <2>2. \A v : Carries([i EXCEPT !.pc = "reread", !.verdict = v], r)
    BY <1>1, <2>1 DEF Carries, Request
  <2> QED BY <1>5, <1>7, <2>2 DEF InterruptCancelRun
<1>8. CASE ReadForVerdict(p)
  <2>1. i.pc = "reread" /\ i.run = r
    BY <1>8 DEF ReadForVerdict, Carries
  <2>2. session.interruptions[i.run] # i.verdict
    BY <1>1, <2>1 DEF InterruptOK
  <2>3. Carries([i EXCEPT !.pc = "finalize", !.revision = revision, !.session = session], r)
    BY <1>1, <2>1 DEF Carries, Request
  <2> QED BY <1>5, <1>8, <2>2, <2>3 DEF ReadForVerdict
<1>9. ~FinalizeInterruption(p)
  <2> SUFFICES ASSUME FinalizeInterruption(p) PROVE FALSE
    OBVIOUS
  <2>1. i.pc = "finalize" /\ i.run = r /\ i.session = session
    BY DEF FinalizeInterruption, Carries, Wins, CopiesInv, CurrentAt
  <2>2. session' = [session EXCEPT !.interruptions = [session.interruptions EXCEPT ![r] = i.verdict]]
    BY <2>1 DEF FinalizeInterruption, Save
  <2>3. session'.interruptions[r] = i.verdict
    BY <1>1, <2>2 DEF TypeInv, StoreOK, WellFormed, Session
  <2> QED BY <1>1, <2>1, <2>3 DEF InterruptOK
<1>10. CASE InterruptLoses(p)
  <2>1. i.pc = "finalize" /\ i.run = r
    BY <1>10 DEF InterruptLoses, Carries
  <2>2. Carries(Finished("threw"), r)
    BY DEF Carries, Finished, NoRequest
  <2>3. \A n : Carries([i EXCEPT !.pc = "reread", !.tries = n], r)
    BY <1>1, <2>1 DEF Carries, Request
  <2>4. CASE i.tries + 1 = InterruptTries
    BY <1>5, <1>10, <2>2, <2>4 DEF InterruptLoses, NextTry
  <2>5. CASE i.tries + 1 # InterruptTries
    <3>1. NextTry(i) = [i EXCEPT !.pc = "reread", !.tries = i.tries + 1]
      BY <1>1, <2>1, <2>5 DEF NextTry, Request
    <3> QED BY <1>5, <1>10, <2>3, <3>1 DEF InterruptLoses
  <2> QED BY <2>4, <2>5
<1>11. ~RequestUnannounced(p) /\ ~InterruptCancelFails(p) /\ ~InterruptThrows(p)
  BY DEF RequestUnannounced, InterruptCancelFails, InterruptThrows
<1>12. ASSUME NEW q \in Interrupters, q # p,
              \/ InterruptActiveRun(q) \/ InterruptStep(q)
              \/ RequestUnannounced(q) \/ InterruptCancelFails(q) \/ InterruptThrows(q)
       PROVE  Carries(interrupt'[p], r)
  <2>1. \E rec : SetInterrupt(q, rec)
    BY <1>12 DEF InterruptActiveRun, InterruptStep, ReadForRequest, RecordRequest,
         InterruptCancelRun, ReadForVerdict, FinalizeInterruption, InterruptLoses,
         RequestUnannounced, InterruptCancelFails, InterruptThrows
  <2> QED BY <1>4, <1>12, <2>1
<1>13. CASE CoordinatorStep \/ CancelTimedOutFails \/ PromoteFails \/ DeliveryThrows
  BY <1>2, <1>13, CoordinatorCall
<1>14. CASE \E q \in StopCallers : StopStep(q) \/ StopCancelFails(q) \/ StopThrows(q)
  BY <1>2, <1>14, StopTracks
<1>15. CASE \/ CreatorThrows \/ PublishFirstTurn \/ (\E q \in Runs : FinishRun(q))
            \/ (\E t \in Turns : WindowExpires(t)) \/ UNCHANGED vars
  BY <1>2, <1>15 DEF CreatorThrows, PublishFirstTurn, FinishRun, WindowExpires, vars
<1>16. CASE \E q \in Interrupters :
              \/ InterruptActiveRun(q) \/ InterruptStep(q)
              \/ RequestUnannounced(q) \/ InterruptCancelFails(q) \/ InterruptThrows(q)
  <2>1. PICK q \in Interrupters :
              \/ InterruptActiveRun(q) \/ InterruptStep(q)
              \/ RequestUnannounced(q) \/ InterruptCancelFails(q) \/ InterruptThrows(q)
    BY <1>16
  <2>2. CASE q # p
    BY <1>12, <2>1, <2>2
  <2>3. CASE q = p
    BY <1>6, <1>7, <1>8, <1>9, <1>10, <1>11, <2>1, <2>3 DEF InterruptStep
  <2> QED BY <2>2, <2>3
<1> QED BY <1>3, <1>13, <1>14, <1>15, <1>16 DEF Next, Trouble

\* Whoever stores a request carries it from then on.
LEMMA RequestIsTaken ==
  ASSUME TypeInv, CopiesInv, [Next]_vars, ~Fault, NEW r \in Runs,
         session.interruptions[r] # "requested", session'.interruptions[r] = "requested"
  PROVE  \E p \in Interrupters : Carries(interrupt'[p], r)
<1>1. session.interruptions \in [Runs -> Interruption] /\ session \in Session
  BY DEF TypeInv, StoreOK, WellFormed, Session
<1>2. SessionGoesOn
  BY SessionWrites
<1>3. PICK p \in Interrupters : \E x : Interrupts(p, x)
  BY <1>2 DEF SessionGoesOn
<1>4. PICK x : Interrupts(p, x)
  BY <1>3
<1>5. interrupt[p].run = r /\ x = "requested"
  <2>1. session'.interruptions = [session.interruptions EXCEPT ![interrupt[p].run] = x]
    BY <1>4, InterruptsAre
  <2>2. interrupt[p].run \in Runs
    BY <1>4 DEF Interrupts
  <2> QED BY <1>1, <2>1, <2>2
<1>6. RecordRequest(p)
  <2>1. ~RequestUnannounced(p)
    BY DEF RequestUnannounced
  <2>2. ~FinalizeInterruption(p)
    <3> SUFFICES ASSUME FinalizeInterruption(p) PROVE FALSE
      OBVIOUS
    <3>1. InterruptOK(interrupt[p]) /\ interrupt[p].session = session
      BY <1>4 DEF TypeInv, InterruptsOK, Interrupts
    <3>2. session' = [session EXCEPT !.interruptions = [session.interruptions EXCEPT ![r] = interrupt[p].verdict]]
      BY <1>5, <3>1 DEF FinalizeInterruption, Save
    <3>3. session'.interruptions[r] = interrupt[p].verdict
      BY <1>1, <3>2 DEF Session
    <3> QED BY <3>1, <3>3 DEF FinalizeInterruption, InterruptOK
  <2> QED BY <1>4, <2>1, <2>2 DEF Interrupts
<1>7. /\ interrupt[p] \in Request(InterruptSteps) /\ DOMAIN interrupt = Interrupters
      /\ interrupt' = [interrupt EXCEPT ![p] = [interrupt[p] EXCEPT !.pc = "cancel", !.tries = 0]]
  BY <1>6 DEF TypeInv, InterruptsOK, InterruptOK, RecordRequest, SetInterrupt
<1>8. interrupt'[p] = [interrupt[p] EXCEPT !.pc = "cancel", !.tries = 0]
  BY <1>7
<1>9. interrupt'[p].pc = "cancel" /\ interrupt'[p].run = r
  BY <1>5, <1>7, <1>8 DEF Request
<1> QED BY <1>9 DEF Carries

\* As long as no call has been rejected, an interruption that was requested is on
\* its way to its verdict, whatever the coordinator and other operators do in
\* between, unless its request gave up or was cut off by a crash.
THEOREM RequestsGetThrough == Spec => [](faults.calls = 0 => RequestsAreCarried)
<1> DEFINE I == faults.calls = 0 => RequestsAreCarried
<1>1. Init => I
  BY DEF Init, RequestsAreCarried, NewSession
<1>2. TypeInv /\ CopiesInv /\ I /\ [Next]_vars => I'
  <2> SUFFICES ASSUME TypeInv, CopiesInv, I, [Next]_vars, faults'.calls = 0,
                      NEW r \in Runs, session'.interruptions[r] = "requested"
               PROVE  \E p \in Interrupters : Carries(interrupt'[p], r)
    BY DEF RequestsAreCarried, Carries
  <2>1. faults.calls = 0 /\ ~Fault
    BY CallsCounted
  <2>2. CASE session.interruptions[r] = "requested"
    <3>1. PICK p \in Interrupters : Carries(interrupt[p], r)
      BY <2>1, <2>2 DEF RequestsAreCarried
    <3> QED BY <2>1, <2>2, <3>1, CarriedOn
  <2>3. CASE session.interruptions[r] # "requested"
    BY <2>1, <2>3, RequestIsTaken
  <2> QED BY <2>2, <2>3
<1>3. I => (faults.calls = 0 => RequestsAreCarried)
  OBVIOUS
<1> QED BY <1>1, <1>2, <1>3, TypeInvariance, CopiesInvariance, PTL DEF Spec
=============================================================================
