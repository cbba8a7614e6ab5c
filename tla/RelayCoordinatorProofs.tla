------------------------ MODULE RelayCoordinatorProofs ------------------------
(***************************************************************************)
(* Type correctness and the order of the ledger; the copies the actors     *)
(* hold and the end that is final; what one step does to runs, messages    *)
(* and session.                                                            *)
(***************************************************************************)
EXTENDS RelayCoordinator, Integers, TLAPS

-----------------------------------------------------------------------------
(* The inductive invariant                                                  *)

\* Steps at which the coordinator has a delivery in hand, and a run.
RunSteps == {"record", "wait", "expire", "reread", "promote", "mark", "accept", "stopping"}
DeliverySteps == RunSteps \cup {"suppress", "claim", "inject", "start", "retry", "fail",
                                "discard", "settle"}

\* A session value anybody stores or holds: the accepted turns are those from 1
\* on, in order, and a running session expects the next one.
LedgerOK(s) ==
  /\ Len(s.accepted) <= NumTurns
  /\ \A i \in 1..Len(s.accepted) : s.accepted[i].turn = i
  /\ s.status = "running" => s.expected = Len(s.accepted) + 1
  /\ s.status = "completed" <=> Len(s.accepted) = NumTurns

WellFormed(s) == s \in Session /\ LedgerOK(s)

StoreOK == revision \in Nat \ {0} /\ WellFormed(session)

Message == [turn : Turns, done : BOOLEAN, deliveries : Nat]
MailboxOK == mailbox \in Seq(Message) /\ window \subseteq Turns

RunsOK == runs \in [Runs -> RunRecord] /\ shared \in Seq(Runs)

CoordRecord ==
  [pc : CoordinatorSteps, msg : Nat, run : Runs \cup {NoRun},
   outcome : {"none", "completed", "failed"}, revision : Nat, session : Session]

\* The coordinator works on copies of a running session, on a turn it knows, and
\* counts attempts up to the limit only.
CoordGood(c, box) ==
  /\ c \in CoordRecord
  /\ LedgerOK(c.session)
  /\ c.msg <= Len(box)
  /\ c.pc \in DeliverySteps => c.msg # 0
  /\ c.pc \in RunSteps => c.run \in Runs
  /\ c.pc \notin {"idle", "recover", "settle"} => c.session.status = "running"
  /\ c.pc = "claim" => c.session.attempts[box[c.msg].turn] < MaxAttempts
  /\ c.pc \in RunSteps \cup {"claim", "inject", "start"} => box[c.msg].turn = c.session.expected

CoordOK == CoordGood(coord, mailbox)

StopOK(q) ==
  /\ q \in Request(StopSteps)
  /\ LedgerOK(q.session)
  /\ q.pc = "commit" => q.session.status = "running"
  /\ q.pc \in {"cancel", "read", "note"} => q.run \in Runs

InterruptOK(q) ==
  /\ q \in Request(InterruptSteps)
  /\ LedgerOK(q.session)
  /\ q.pc \notin {"idle", "done", "threw"} => q.run \in Runs
  /\ q.pc = "finalize" => q.verdict \in {"cancelled", "failed"}
  /\ q.pc = "reread" => q.verdict \in {"cancelled", "failed"}

StopsOK == stop = [p \in StopCallers |-> stop[p]] /\ \A p \in StopCallers : StopOK(stop[p])
InterruptsOK == interrupt = [p \in Interrupters |-> interrupt[p]]
                /\ \A p \in Interrupters : InterruptOK(interrupt[p])

RestOK ==
  /\ creator \in {"publishing", "done", "lost"}
  /\ faults \in [crashes : 0..MaxCrashes, calls : 0..MaxFaults, expiries : 0..MaxExpiries]

TypeInv == StoreOK /\ MailboxOK /\ RunsOK /\ CoordOK /\ StopsOK /\ InterruptsOK /\ RestOK

-----------------------------------------------------------------------------
(* What the writers do to a session, and how records are updated            *)

\* Every change a writer makes to its copy keeps the copy well formed.
LEMMA SessionSteps ==
  ASSUME NEW s, WellFormed(s)
  PROVE  /\ WellFormed([s EXCEPT !.active = NoRun])
         /\ \A r \in Runs : WellFormed([s EXCEPT !.active = r])
         /\ \A r \in Runs : WellFormed([s EXCEPT !.active = NoRun, !.cancelNoted = @ \cup {r}])
         /\ \A r \in Runs, i \in Interruption : WellFormed([s EXCEPT !.interruptions[r] = i])
<1> USE ConstantsAssumption DEF WellFormed, LedgerOK, Session, Runs, NoRun, SessionStatus, Interruption
<1>1. WellFormed([s EXCEPT !.active = NoRun])
  OBVIOUS
<1>2. \A r \in Runs : WellFormed([s EXCEPT !.active = r])
  OBVIOUS
<1>3. \A r \in Runs : WellFormed([s EXCEPT !.active = NoRun, !.cancelNoted = @ \cup {r}])
  <2> TAKE r \in Runs
  <2>1. s.cancelNoted \cup {r} \in SUBSET Runs
    OBVIOUS
  <2> QED BY <2>1
<1>4. \A r \in Runs, i \in Interruption : WellFormed([s EXCEPT !.interruptions[r] = i])
  OBVIOUS
<1> QED BY <1>1, <1>2, <1>3, <1>4

\* The changes made to a running copy: an attempt is counted, the session fails
\* or is cancelled, or its expected turn is accepted.
LEMMA RunningSessionSteps ==
  ASSUME NEW s, WellFormed(s), s.status = "running"
  PROVE  /\ s.expected \in Turns
         /\ WellFormed([s EXCEPT !.active = NoRun, !.status = "failed"])
         /\ WellFormed([s EXCEPT !.status = "cancelled"])
         /\ \A t \in Turns : s.attempts[t] < MaxAttempts => WellFormed([s EXCEPT !.attempts[t] = @ + 1])
<1> USE ConstantsAssumption DEF WellFormed, LedgerOK, Session, Turns, Runs, NoRun, SessionStatus
<1>1. s.expected \in Turns
  OBVIOUS
<1>2. WellFormed([s EXCEPT !.active = NoRun, !.status = "failed"])
  OBVIOUS
<1>3. WellFormed([s EXCEPT !.status = "cancelled"])
  OBVIOUS
<1>4. \A t \in Turns : s.attempts[t] < MaxAttempts => WellFormed([s EXCEPT !.attempts[t] = @ + 1])
  <2> SUFFICES ASSUME NEW t \in Turns, s.attempts[t] < MaxAttempts
               PROVE  WellFormed([s EXCEPT !.attempts[t] = @ + 1])
    OBVIOUS
  <2>1. [s.attempts EXCEPT ![t] = @ + 1] \in [Turns -> 0..MaxAttempts]
    OBVIOUS
  <2>2. [s EXCEPT !.attempts[t] = @ + 1] = [s EXCEPT !.attempts = [s.attempts EXCEPT ![t] = @ + 1]]
    OBVIOUS
  <2> QED BY <2>1, <2>2
<1> QED BY <1>1, <1>2, <1>3, <1>4

\* The four changes of an acceptance, made one after the other.
LEMMA AcceptedRecord ==
  ASSUME NEW s \in Session, NEW acc, NEW next, NEW status
  PROVE  [s EXCEPT !.active = NoRun, !.accepted = acc, !.expected = next, !.status = status]
           = [[[[s EXCEPT !.active = NoRun] EXCEPT !.accepted = acc]
                 EXCEPT !.expected = next] EXCEPT !.status = status]
BY DEF Session

\* Accepting the expected turn of a running session.
LEMMA AcceptedSession ==
  ASSUME NEW s, WellFormed(s), s.status = "running", NEW r \in Runs,
         NEW next \in 1..NumTurns + 1, s.expected # NumTurns => next = s.expected + 1
  PROVE  WellFormed([s EXCEPT !.active = NoRun,
                      !.accepted = Append(@, [turn |-> s.expected, run |-> r]),
                      !.expected = next,
                      !.status = IF s.expected = NumTurns THEN "completed" ELSE @])
<1> DEFINE entry == [turn |-> s.expected, run |-> r]
           acc == Append(s.accepted, entry)
           status == IF s.expected = NumTurns THEN "completed" ELSE s.status
           s1 == [s EXCEPT !.active = NoRun]
           s2 == [s1 EXCEPT !.accepted = acc]
           s3 == [s2 EXCEPT !.expected = next]
           s4 == [s3 EXCEPT !.status = status]
<1> HIDE DEF acc, status
<1>1. [s EXCEPT !.active = NoRun, !.accepted = acc, !.expected = next, !.status = status] = s4
  BY AcceptedRecord, Zenon DEF WellFormed
<1> USE ConstantsAssumption DEF WellFormed, LedgerOK, Session, Turns, Runs, NoRun, SessionStatus, acc, status
<1>2. entry \in [turn : Turns, run : Runs]
  OBVIOUS
<1>3. acc \in Seq([turn : Turns, run : Runs]) /\ Len(acc) = Len(s.accepted) + 1
  BY <1>2
<1>4. \A i \in 1..Len(acc) : acc[i].turn = i
  BY <1>2, <1>3
<1>5. status \in SessionStatus
  OBVIOUS
<1> HIDE DEF acc, status
<1>6. s1 \in Session /\ s1.status = s.status
  OBVIOUS
<1> HIDE DEF s1
<1>7. s2 \in Session /\ s2.accepted = acc
  BY <1>3, <1>6
<1> HIDE DEF s2
<1>8. s3 \in Session /\ s3.accepted = acc /\ s3.expected = next
  BY <1>7
<1> HIDE DEF s3
<1>9. s4 \in Session /\ s4.accepted = acc /\ s4.expected = next /\ s4.status = status
  BY <1>5, <1>8
<1> HIDE DEF s4
<1>10. WellFormed(s4)
  <2>1. /\ Len(s.accepted) < NumTurns /\ s.expected = Len(s.accepted) + 1
        /\ Len(s.accepted) \in Nat /\ NumTurns \in Nat
    OBVIOUS
  <2>2. \/ s.expected = NumTurns /\ status = "completed"
        \/ s.expected # NumTurns /\ status = "running" /\ next = s.expected + 1
    BY DEF status
  <2>3. Len(acc) <= NumTurns /\ (Len(acc) = NumTurns <=> s.expected = NumTurns)
    BY <1>3, <2>1
  <2>4. LedgerOK(s4)
    BY ONLY <1>4, <1>9, <2>1, <2>2, <2>3, <1>3 DEF LedgerOK
  <2> QED BY <1>9, <2>4
<1> QED BY <1>1, <1>10, Zenon DEF acc, status, entry

\* Updates of the coordinator's state stay records of its type.
LEMMA CoordUpdates ==
  ASSUME NEW c \in CoordRecord, NEW step \in CoordinatorSteps, NEW v \in Nat, NEW s \in Session,
         NEW r \in Runs \cup {NoRun}, NEW o \in {"none", "completed", "failed"}
  PROVE  /\ [c EXCEPT !.pc = step] \in CoordRecord
         /\ [c EXCEPT !.pc = step, !.run = r] \in CoordRecord
         /\ [c EXCEPT !.pc = step, !.outcome = o] \in CoordRecord
         /\ [c EXCEPT !.pc = step, !.revision = v, !.session = s] \in CoordRecord
<1>1. [c EXCEPT !.pc = step] \in CoordRecord
  BY DEF CoordRecord
<1>2. [c EXCEPT !.pc = step, !.run = r] = [[c EXCEPT !.pc = step] EXCEPT !.run = r]
  BY DEF CoordRecord
<1>3. [c EXCEPT !.pc = step, !.outcome = o] = [[c EXCEPT !.pc = step] EXCEPT !.outcome = o]
  BY DEF CoordRecord
<1>4. [c EXCEPT !.pc = step, !.revision = v, !.session = s]
        = [[[c EXCEPT !.pc = step] EXCEPT !.revision = v] EXCEPT !.session = s]
  BY DEF CoordRecord
<1>5. \A d \in CoordRecord : [d EXCEPT !.run = r] \in CoordRecord
  BY DEF CoordRecord
<1>6. \A d \in CoordRecord : [d EXCEPT !.outcome = o] \in CoordRecord
  BY DEF CoordRecord
<1>7. \A d \in CoordRecord : [d EXCEPT !.revision = v] \in CoordRecord
  BY DEF CoordRecord
<1>8. \A d \in CoordRecord : [d EXCEPT !.session = s] \in CoordRecord
  BY DEF CoordRecord
<1> QED BY <1>1, <1>2, <1>3, <1>4, <1>5, <1>6, <1>7, <1>8

-----------------------------------------------------------------------------
(* Parts of the invariant an action leaves alone or changes in a known way   *)

LEMMA InitialCopies ==
  /\ WellFormed(NewSession)
  /\ \A box \in Seq(Message) : CoordGood(Idle, box) /\ CoordGood([Idle EXCEPT !.pc = "recover"], box)
  /\ StopOK(NoRequest) /\ InterruptOK(NoRequest)
  /\ \A how \in {"done", "threw"} : StopOK(Finished(how)) /\ InterruptOK(Finished(how))
<1> USE ConstantsAssumption
<1>1. WellFormed(NewSession)
  BY DEF WellFormed, LedgerOK, NewSession, Session, Runs, NoRun, Turns, SessionStatus, Interruption
<1>2. \A box \in Seq(Message) : CoordGood(Idle, box) /\ CoordGood([Idle EXCEPT !.pc = "recover"], box)
  BY <1>1 DEF WellFormed, CoordGood, CoordRecord, Idle, CoordinatorSteps, ThrowingSteps, CasSteps,
              DeliverySteps, RunSteps
<1>3. StopOK(NoRequest) /\ InterruptOK(NoRequest)
  BY <1>1 DEF WellFormed, StopOK, InterruptOK, NoRequest, Request, StopSteps, InterruptSteps
<1>4. \A how \in {"done", "threw"} : StopOK(Finished(how)) /\ InterruptOK(Finished(how))
  BY <1>1 DEF WellFormed, StopOK, InterruptOK, Finished, NoRequest, Request, StopSteps, InterruptSteps
<1> QED BY <1>1, <1>2, <1>3, <1>4

\* What is unchanged stays as good as it was; stores, faults and requests that
\* change keep their parts if the new value is good.
LEMMA Frame ==
  ASSUME TypeInv
  PROVE  /\ UNCHANGED store => StoreOK'
         /\ UNCHANGED <<mailbox, window>> => MailboxOK'
         /\ UNCHANGED <<runs, shared>> => RunsOK'
         /\ UNCHANGED <<coord, mailbox>> => CoordOK'
         /\ UNCHANGED stop => StopsOK'
         /\ UNCHANGED interrupt => InterruptsOK'
         /\ UNCHANGED <<creator, faults>> => RestOK'
         /\ Fault /\ UNCHANGED creator => RestOK'
         /\ \A s : WellFormed(s) /\ Save(s) => StoreOK'
         /\ \A p \in StopCallers : \A q : StopOK(q) /\ SetStop(p, q) => StopsOK'
         /\ \A p \in Interrupters : \A q : InterruptOK(q) /\ SetInterrupt(p, q) => InterruptsOK'
<1>1. UNCHANGED store => StoreOK'
  BY DEF TypeInv, StoreOK, store
<1>2. UNCHANGED <<mailbox, window>> => MailboxOK'
  BY DEF TypeInv, MailboxOK
<1>3. UNCHANGED <<runs, shared>> => RunsOK'
  BY DEF TypeInv, RunsOK
<1>4. UNCHANGED <<coord, mailbox>> => CoordOK'
  BY DEF TypeInv, CoordOK
<1>5. UNCHANGED stop => StopsOK'
  BY DEF TypeInv, StopsOK
<1>6. UNCHANGED interrupt => InterruptsOK'
  BY DEF TypeInv, InterruptsOK
<1>7. UNCHANGED <<creator, faults>> => RestOK'
  BY DEF TypeInv, RestOK
<1>8. Fault /\ UNCHANGED creator => RestOK'
  <2> SUFFICES ASSUME Fault, UNCHANGED creator PROVE RestOK'
    OBVIOUS
  <2> DEFINE F == [crashes : 0..MaxCrashes, calls : 0..MaxFaults, expiries : 0..MaxExpiries]
  <2>1. faults \in F /\ faults' = [faults EXCEPT !.calls = @ + 1] /\ faults.calls < MaxFaults
    BY DEF TypeInv, RestOK, Fault
  <2>2. faults.calls \in 0..MaxFaults
    BY <2>1
  <2>3. faults.calls + 1 \in 0..MaxFaults
    BY <2>1, <2>2, ConstantsAssumption DEF ConstantsAssumption
  <2>4. faults' \in F
    BY <2>1, <2>3
  <2> QED BY <2>4 DEF TypeInv, RestOK
<1>9. \A s : WellFormed(s) /\ Save(s) => StoreOK'
  BY DEF TypeInv, StoreOK, Save
<1>10. \A p \in StopCallers : \A q : StopOK(q) /\ SetStop(p, q) => StopsOK'
  BY DEF TypeInv, StopsOK, SetStop
<1>11. \A p \in Interrupters : \A q : InterruptOK(q) /\ SetInterrupt(p, q) => InterruptsOK'
  BY DEF TypeInv, InterruptsOK, SetInterrupt
<1> QED BY <1>1, <1>2, <1>3, <1>4, <1>5, <1>6, <1>7, <1>8, <1>9, <1>10, <1>11

-----------------------------------------------------------------------------
(* The coordinator's own moves                                              *)

\* To another step with the same copy ...
LEMMA GotoGood ==
  ASSUME NEW box, NEW c, CoordGood(c, box), NEW step \in CoordinatorSteps \ {"claim"},
         step \in DeliverySteps => c.msg # 0,
         step \in RunSteps => c.run \in Runs,
         step \notin {"idle", "recover", "settle"} => c.session.status = "running",
         step \in RunSteps \cup {"inject", "start"} => box[c.msg].turn = c.session.expected
  PROVE  CoordGood([c EXCEPT !.pc = step], box)
<1>1. c \in CoordRecord /\ c.pc \in CoordinatorSteps
  BY DEF CoordGood, CoordRecord
<1> DEFINE d == [c EXCEPT !.pc = step]
<1>2. /\ d \in CoordRecord
      /\ d.pc = step /\ d.msg = c.msg /\ d.run = c.run /\ d.session = c.session
  BY <1>1 DEF CoordRecord
<1> HIDE DEF d
<1>3. CoordGood(d, box)
  BY <1>2 DEF CoordGood
<1> QED BY <1>3 DEF d

\* ... or with a new one, as after a commit or a fresh read.
LEMMA CommitGood ==
  ASSUME NEW box, NEW c, CoordGood(c, box), NEW step \in CoordinatorSteps \ {"claim"},
         NEW v \in Nat, NEW s, WellFormed(s),
         step \in DeliverySteps => c.msg # 0,
         step \in RunSteps => c.run \in Runs,
         step \notin {"idle", "recover", "settle"} => s.status = "running",
         step \in RunSteps \cup {"inject", "start"} => box[c.msg].turn = s.expected
  PROVE  CoordGood([c EXCEPT !.pc = step, !.revision = v, !.session = s], box)
<1>1. c \in CoordRecord /\ c.run \in Runs \cup {NoRun} /\ s \in Session
  BY DEF CoordGood, CoordRecord, WellFormed
<1> DEFINE d == [c EXCEPT !.pc = step, !.revision = v, !.session = s]
<1>2. d \in CoordRecord
  BY <1>1, CoordUpdates
<1>3. d.pc = step /\ d.msg = c.msg /\ d.run = c.run /\ d.session = s
  BY <1>1 DEF CoordRecord
<1> HIDE DEF d
<1>4. CoordGood(d, box)
  BY <1>2, <1>3 DEF CoordGood, WellFormed
<1> QED BY <1>4 DEF d

\* New copies in the mailbox and counted deliveries do not disturb it.
LEMMA GrownGood ==
  ASSUME NEW box, NEW grown, NEW c, CoordGood(c, box), Len(box) \in Nat, Len(grown) \in Nat,
         Len(box) <= Len(grown),
         \A m \in 1..Len(box) : grown[m].turn = box[m].turn
  PROVE  CoordGood(c, grown)
<1>1. c.msg \in Nat /\ (c.pc \in DeliverySteps => c.msg \in 1..Len(box))
  BY DEF CoordGood, CoordRecord
<1>2. c.pc \in RunSteps \cup {"claim", "inject", "start"} => c.pc \in DeliverySteps
  BY DEF DeliverySteps
<1> QED BY <1>1, <1>2 DEF CoordGood

\* publishTurn appends at most one message.
LEMMA PublishGood ==
  ASSUME TypeInv, NEW t \in Turns, Publish(t)
  PROVE  /\ MailboxOK'
         /\ \A c : CoordGood(c, mailbox) => CoordGood(c, mailbox')
<1>1. mailbox \in Seq(Message) /\ Len(mailbox) \in Nat
  BY DEF TypeInv, MailboxOK
<1>2. CASE t \in window
  BY <1>1, <1>2 DEF Publish, TypeInv, MailboxOK
<1>3. CASE t \notin window
  <2> DEFINE m == [turn |-> t, done |-> FALSE, deliveries |-> 0]
  <2>1. m \in Message
    BY DEF Message
  <2>2. mailbox' = Append(mailbox, m) /\ window' = window \cup {t}
    BY <1>3 DEF Publish
  <2> HIDE DEF m
  <2>3. MailboxOK'
    BY <1>1, <2>1, <2>2 DEF TypeInv, MailboxOK
  <2>4. /\ Len(mailbox') = Len(mailbox) + 1
        /\ \A i \in 1..Len(mailbox) : mailbox'[i] = mailbox[i]
    BY <1>1, <2>1, <2>2
  <2> QED BY <1>1, <2>3, <2>4, GrownGood
<1> QED BY <1>2, <1>3

\* A committed step keeps the invariant if the new copy fits the step it leads to.
LEMMA CommitKeeps ==
  ASSUME TypeInv, NEW s, WellFormed(s), NEW step \in CoordinatorSteps \ {"claim"}, Commit(s, step),
         UNCHANGED <<mailbox, window, runs, shared, creator, stop, interrupt, faults>>,
         coord.msg # 0,
         step \in RunSteps => coord.run \in Runs,
         step # "settle" => s.status = "running",
         step \in RunSteps \cup {"inject", "start"} => Turn = s.expected
  PROVE  TypeInv'
<1>1. revision + 1 \in Nat
  BY DEF TypeInv, StoreOK
<1>2. coord' = [coord EXCEPT !.pc = step, !.revision = revision + 1, !.session = s] /\ Save(s)
  BY DEF Commit
<1>3. CoordOK'
  BY <1>1, <1>2, CommitGood DEF TypeInv, CoordOK, Turn
<1> QED BY <1>2, <1>3, Frame DEF TypeInv

\* An action that moves the coordinator, and nothing else but runs or faults.
LEMMA MoveKeeps ==
  ASSUME TypeInv, UNCHANGED <<store, mailbox, window, creator, stop, interrupt>>,
         RunsOK', RestOK', CoordGood(coord', mailbox)
  PROVE  TypeInv'
<1>1. CoordOK'
  BY DEF CoordOK
<1> QED BY <1>1, Frame DEF TypeInv

\* What the coordinator's step says about its delivery, its run and its copy.
LEMMA InHand ==
  ASSUME TypeInv
  PROVE  /\ coord \in CoordRecord
         /\ WellFormed(coord.session)
         /\ coord.pc \in DeliverySteps => coord.msg \in 1..Len(mailbox) /\ Turn \in Turns
         /\ coord.pc \in RunSteps => coord.run \in Runs
         /\ coord.pc \notin {"idle", "recover", "settle"} =>
              coord.session.status = "running" /\ coord.session.expected \in Turns
<1>1. coord \in CoordRecord /\ LedgerOK(coord.session)
  BY DEF TypeInv, CoordOK, CoordGood
<1>2. WellFormed(coord.session)
  BY <1>1 DEF WellFormed, CoordRecord
<1>3. coord.msg \in Nat /\ coord.msg <= Len(mailbox) /\ (coord.pc \in DeliverySteps => coord.msg # 0)
  BY DEF TypeInv, CoordOK, CoordGood, CoordRecord
<1>4. ASSUME coord.msg # 0 PROVE coord.msg \in 1..Len(mailbox) /\ Turn \in Turns
  <2>1. mailbox \in Seq(Message) /\ coord.msg \in 1..Len(mailbox)
    BY <1>3, <1>4 DEF TypeInv, MailboxOK
  <2>2. mailbox[coord.msg] \in Message
    BY <2>1
  <2> QED BY <2>1, <2>2 DEF Turn, Message
<1>5. coord.pc \notin {"idle", "recover", "settle"} => coord.session.status = "running"
  BY DEF TypeInv, CoordOK, CoordGood
<1>6. coord.pc \in RunSteps => coord.run \in Runs
  BY DEF TypeInv, CoordOK, CoordGood
<1> QED BY <1>1, <1>2, <1>3, <1>4, <1>5, <1>6, RunningSessionSteps

\* A step on to the next one, with nothing else changed but runs or faults.
LEMMA GotoKeeps ==
  ASSUME TypeInv, NEW step \in CoordinatorSteps \ {"claim"}, Goto(step),
         UNCHANGED <<store, mailbox, window, creator, stop, interrupt>>,
         RunsOK', RestOK',
         step \in DeliverySteps => coord.pc \in DeliverySteps,
         step \in RunSteps => coord.pc \in RunSteps,
         step \notin {"idle", "recover", "settle"} => coord.session.status = "running",
         step \in RunSteps \cup {"inject", "start"} => Turn = coord.session.expected
  PROVE  TypeInv'
<1>1. CoordGood(coord, mailbox)
  BY DEF TypeInv, CoordOK
<1>2. CoordGood([coord EXCEPT !.pc = step], mailbox)
  BY <1>1, InHand, GotoGood DEF Turn, CoordGood
<1> QED BY <1>2, MoveKeeps DEF Goto

\* The first step of retryOrFail.
LEMMA GiveUpSteps ==
  ASSUME NEW s PROVE GiveUp(s) \in {"fail", "discard"}
BY DEF GiveUp

LEMMA SuppressKeeps == ASSUME TypeInv, SuppressDuplicate PROVE TypeInv'
<1>1. coord.pc = "suppress" /\ "publish" \in CoordinatorSteps /\ coord.msg # 0
      /\ coord.session.status = "running" /\ WellFormed(coord.session)
  BY InHand DEF SuppressDuplicate, CoordinatorSteps, ThrowingSteps, DeliverySteps
<1> QED BY <1>1, CommitKeeps DEF SuppressDuplicate, RunSteps

LEMMA ClaimKeeps == ASSUME TypeInv, ClaimTurn PROVE TypeInv'
<1> DEFINE s == [coord.session EXCEPT !.attempts[Turn] = @ + 1]
<1>1. /\ coord.pc = "claim" /\ coord.msg # 0 /\ Turn \in Turns
      /\ coord.session.status = "running" /\ WellFormed(coord.session)
      /\ Turn = coord.session.expected
      /\ coord.session.attempts[Turn] < MaxAttempts
  BY InHand DEF ClaimTurn, DeliverySteps, TypeInv, CoordOK, CoordGood, Turn
<1>2. WellFormed(s)
  BY <1>1, RunningSessionSteps
<1>3. s.status = "running" /\ s.expected = coord.session.expected
  BY <1>1 DEF WellFormed, Session
<1>4. PICK step \in {"inject", "start"} : Commit(s, step)
  BY DEF ClaimTurn
<1> HIDE DEF s
<1>5. step \in CoordinatorSteps \ {"claim"} /\ step \notin RunSteps
  BY <1>4 DEF CoordinatorSteps, ThrowingSteps, CasSteps, RunSteps
<1> QED BY <1>1, <1>2, <1>3, <1>4, <1>5, CommitKeeps DEF ClaimTurn

LEMMA InjectKeeps == ASSUME TypeInv, InjectFault PROVE TypeInv'
<1>1. /\ coord.pc = "inject" /\ coord.msg # 0
      /\ coord.session.status = "running" /\ WellFormed(coord.session)
  BY InHand DEF InjectFault, DeliverySteps
<1>2. GiveUp(coord.session) \in {"fail", "discard"}
  BY GiveUpSteps
<1> QED BY <1>1, <1>2, CommitKeeps
        DEF InjectFault, CoordinatorSteps, ThrowingSteps, CasSteps, RunSteps

\* Updates of one run.
LEMMA RunUpdates ==
  ASSUME TypeInv, NEW r \in Runs, UNCHANGED shared
  PROVE  /\ CancelRun(r) => RunsOK'
         /\ \A rec \in RunRecord : runs' = [runs EXCEPT ![r] = rec] => RunsOK'
         /\ \A x \in {"active", "completed", "failed", "cancelled"} :
              runs' = [runs EXCEPT ![r].status = x] => RunsOK'
         /\ \A x \in {"open", "committed", "discarded"} :
              runs' = [runs EXCEPT ![r].workspace = x] => RunsOK'
         /\ runs' = [runs EXCEPT ![r].late = TRUE] => RunsOK'
         /\ \A x \in {"valid", "invalid"} :
              runs' = [runs EXCEPT ![r].status = "completed", ![r].output = x] => RunsOK'
<1> USE DEF TypeInv, RunsOK
<1>1. \A rec \in RunRecord : runs' = [runs EXCEPT ![r] = rec] => RunsOK'
  OBVIOUS
<1>2. runs[r] \in RunRecord
  OBVIOUS
<1>3. \A rec \in RunRecord : \A x \in {"active", "completed", "failed", "cancelled"} :
        [rec EXCEPT !.status = x] \in RunRecord
  BY DEF RunRecord
<1>4. \A rec \in RunRecord : \A x \in {"open", "committed", "discarded"} :
        [rec EXCEPT !.workspace = x] \in RunRecord
  BY DEF RunRecord
<1>5. \A rec \in RunRecord : [rec EXCEPT !.late = TRUE] \in RunRecord
  BY DEF RunRecord
<1>6. \A rec \in RunRecord : \A x \in {"valid", "invalid"} : [rec EXCEPT !.output = x] \in RunRecord
  BY DEF RunRecord
<1>7. \A x \in {"active", "completed", "failed", "cancelled"} :
        runs' = [runs EXCEPT ![r].status = x] => RunsOK'
  BY <1>1, <1>2, <1>3
<1>8. \A x \in {"open", "committed", "discarded"} : runs' = [runs EXCEPT ![r].workspace = x] => RunsOK'
  BY <1>1, <1>2, <1>4
<1>9. runs' = [runs EXCEPT ![r].late = TRUE] => RunsOK'
  BY <1>1, <1>2, <1>5
<1>10. \A x \in {"valid", "invalid"} :
         runs' = [runs EXCEPT ![r].status = "completed", ![r].output = x] => RunsOK'
  <2> TAKE x \in {"valid", "invalid"}
  <2>1. [[runs[r] EXCEPT !.status = "completed"] EXCEPT !.output = x] \in RunRecord
    BY <1>2, <1>3, <1>6
  <2>2. [runs EXCEPT ![r].status = "completed", ![r].output = x]
          = [runs EXCEPT ![r] = [[runs[r] EXCEPT !.status = "completed"] EXCEPT !.output = x]]
    OBVIOUS
  <2> QED BY <1>1, <2>1, <2>2
<1>11. CancelRun(r) => RunsOK'
  BY <1>7 DEF CancelRun
<1> QED BY <1>1, <1>7, <1>8, <1>9, <1>10, <1>11

\* A turn's agent is one of the participants.
LEMMA AgentForParticipant ==
  ASSUME NEW t \in Turns, NEW attempt \in 0..MaxAttempts PROVE AgentFor(t, attempt) \in Agents
<1> DEFINE k == IF Transactional THEN t - 1 ELSE t + attempt - 2
<1>1. k \in Int /\ Len(Participants) \in Nat \ {0}
  BY ConstantsAssumption DEF Turns
<1> HIDE DEF k
<1>2. (k % Len(Participants)) + 1 \in 1..Len(Participants)
  BY <1>1
<1> QED BY <1>2 DEF AgentFor, Agents, k

LEMMA StartKeeps == ASSUME TypeInv, NEW r \in Runs, StartRun(r) PROVE TypeInv'
<1> DEFINE agent == AgentFor(Turn, coord.session.attempts[Turn])
           base == IF Transactional THEN shared ELSE <<>>
           ws == IF Transactional THEN "open" ELSE "none"
           rec == [status |-> "active", turn |-> Turn, agent |-> agent, output |-> "none",
                   workspace |-> ws, base |-> base, late |-> FALSE]
<1>1. /\ coord.pc = "start" /\ coord.msg # 0 /\ Turn \in Turns
      /\ coord.session.status = "running" /\ coord.session \in Session
      /\ Turn = coord.session.expected
  BY InHand DEF StartRun, Start, DeliverySteps, TypeInv, CoordOK, CoordGood, Turn, WellFormed
<1>2. agent \in Agents
  BY <1>1, AgentForParticipant DEF Session
<1>3. base \in Seq(Runs) /\ ws \in {"open", "none"}
  BY DEF TypeInv, RunsOK
<1> HIDE DEF agent, base, ws
<1>4. rec \in RunRecord
  BY <1>1, <1>2, <1>3 DEF RunRecord
<1>5. RunsOK'
  BY <1>4, RunUpdates DEF StartRun, Start, agent, base, ws
<1>6. coord' = [coord EXCEPT !.pc = "record", !.run = r] /\ coord \in CoordRecord
  BY InHand DEF StartRun, Start
<1>7. /\ coord' \in CoordRecord
      /\ coord'.pc = "record" /\ coord'.run = r /\ coord'.session = coord.session /\ coord'.msg = coord.msg
  <2>1. "record" \in CoordinatorSteps
    BY DEF CoordinatorSteps, ThrowingSteps
  <2> QED BY <1>6, <2>1, CoordUpdates DEF CoordRecord
<1>8. CoordGood(coord', mailbox)
  BY <1>1, <1>7 DEF CoordGood, TypeInv, CoordOK, Turn
<1>9. RestOK'
  BY Frame DEF StartRun, Start
<1> QED BY <1>5, <1>8, <1>9, MoveKeeps DEF StartRun, Start

LEMMA RejectedKeeps == ASSUME TypeInv, StartRejected PROVE TypeInv'
<1>1. coord.pc = "start" /\ coord.session.status = "running"
  BY InHand DEF StartRejected
<1>2. GiveUp(coord.session) \in {"fail", "discard"}
  BY GiveUpSteps
<1>3. RunsOK' /\ RestOK'
  BY Frame DEF StartRejected
<1> QED BY <1>1, <1>2, <1>3, GotoKeeps
        DEF StartRejected, CoordinatorSteps, ThrowingSteps, CasSteps, DeliverySteps, RunSteps

LEMMA RecordKeeps == ASSUME TypeInv, RecordRun PROVE TypeInv'
<1> DEFINE s == [coord.session EXCEPT !.active = coord.run]
<1>1. /\ coord.pc = "record" /\ coord.run \in Runs /\ coord.msg # 0
      /\ WellFormed(coord.session) /\ coord.session.status = "running"
      /\ Turn = coord.session.expected
  BY InHand DEF RecordRun, DeliverySteps, RunSteps, TypeInv, CoordOK, CoordGood, Turn
<1>2. WellFormed(s)
  BY <1>1, SessionSteps
<1>3. s.status = "running" /\ s.expected = coord.session.expected
  BY <1>1 DEF WellFormed, Session
<1>4. Commit(s, "wait")
  BY DEF RecordRun
<1> HIDE DEF s
<1> QED BY <1>1, <1>2, <1>3, <1>4, CommitKeeps DEF RecordRun, CoordinatorSteps, ThrowingSteps

\* Updates of a request stay records of its type.
LEMMA RequestUpdates ==
  ASSUME NEW steps, NEW q \in Request(steps), NEW pc \in steps, NEW r \in Runs \cup {NoRun},
         NEW v \in Nat, NEW s \in Session, NEW n \in Nat, NEW w \in {"none", "cancelled", "failed"}
  PROVE  /\ [q EXCEPT !.pc = pc] \in Request(steps)
         /\ [q EXCEPT !.pc = pc, !.run = r] \in Request(steps)
         /\ [q EXCEPT !.pc = pc, !.tries = n] \in Request(steps)
         /\ [q EXCEPT !.pc = pc, !.verdict = w] \in Request(steps)
         /\ [q EXCEPT !.pc = pc, !.run = r, !.tries = n] \in Request(steps)
         /\ [q EXCEPT !.pc = pc, !.revision = v, !.session = s] \in Request(steps)
<1> DEFINE R == Request(steps)
<1>1. \A d \in R : [d EXCEPT !.pc = pc] \in R
  BY DEF Request
<1>2. \A d \in R : [d EXCEPT !.run = r] \in R
  BY DEF Request
<1>3. \A d \in R : [d EXCEPT !.tries = n] \in R
  BY DEF Request
<1>4. \A d \in R : [d EXCEPT !.verdict = w] \in R
  BY DEF Request
<1>5. \A d \in R : [d EXCEPT !.revision = v] \in R
  BY DEF Request
<1>6. \A d \in R : [d EXCEPT !.session = s] \in R
  BY DEF Request
<1>7. [q EXCEPT !.pc = pc, !.run = r] = [[q EXCEPT !.pc = pc] EXCEPT !.run = r]
  BY DEF Request
<1>8. [q EXCEPT !.pc = pc, !.tries = n] = [[q EXCEPT !.pc = pc] EXCEPT !.tries = n]
  BY DEF Request
<1>9. [q EXCEPT !.pc = pc, !.verdict = w] = [[q EXCEPT !.pc = pc] EXCEPT !.verdict = w]
  BY DEF Request
<1>10. [q EXCEPT !.pc = pc, !.run = r, !.tries = n]
         = [[[q EXCEPT !.pc = pc] EXCEPT !.run = r] EXCEPT !.tries = n]
  BY DEF Request
<1>11. [q EXCEPT !.pc = pc, !.revision = v, !.session = s]
         = [[[q EXCEPT !.pc = pc] EXCEPT !.revision = v] EXCEPT !.session = s]
  BY DEF Request
<1> HIDE DEF R
<1>12. q \in R
  BY DEF R
<1> QED BY <1>1, <1>2, <1>3, <1>4, <1>5, <1>6, <1>7, <1>8, <1>9, <1>10, <1>11, <1>12 DEF R

\* The requests the stop code moves through.
LEMMA StopUpdates ==
  ASSUME NEW q, StopOK(q), NEW s, WellFormed(s), NEW v \in Nat
  PROVE  /\ s.status = "running" =>
              StopOK([q EXCEPT !.pc = "commit", !.revision = v, !.session = s])
         /\ \A r \in Runs : StopOK([q EXCEPT !.pc = "cancel", !.run = r])
         /\ \A r \in Runs : StopOK([q EXCEPT !.pc = "cancel", !.run = r, !.tries = 0])
         /\ q.pc \in {"cancel", "read", "note"} =>
              /\ StopOK([q EXCEPT !.pc = "read"])
              /\ StopOK([q EXCEPT !.pc = "note", !.revision = v, !.session = s])
         /\ q.pc \in {"commit", "note"} =>
              StopOK([q EXCEPT !.pc = IF @ = "commit" THEN "idle" ELSE "read", !.tries = @ + 1])
<1>1. q \in Request(StopSteps) /\ LedgerOK(q.session) /\ s \in Session /\ LedgerOK(s)
  BY DEF StopOK, WellFormed
<1>2. "commit" \in StopSteps /\ "cancel" \in StopSteps /\ "read" \in StopSteps /\ "note" \in StopSteps
      /\ "idle" \in StopSteps
  BY DEF StopSteps
<1>3. ASSUME s.status = "running"
      PROVE  StopOK([q EXCEPT !.pc = "commit", !.revision = v, !.session = s])
  <2> DEFINE d == [q EXCEPT !.pc = "commit", !.revision = v, !.session = s]
  <2>1. d \in Request(StopSteps)
    BY <1>1, <1>2, RequestUpdates
  <2>2. d.pc = "commit" /\ d.session = s
    BY <1>1 DEF Request
  <2> HIDE DEF d
  <2>3. StopOK(d)
    BY <1>1, <1>3, <2>1, <2>2 DEF StopOK
  <2> QED BY <2>3 DEF d
<1>4. \A r \in Runs : StopOK([q EXCEPT !.pc = "cancel", !.run = r])
  <2> TAKE r \in Runs
  <2> DEFINE d == [q EXCEPT !.pc = "cancel", !.run = r]
  <2>1. d \in Request(StopSteps)
    BY <1>1, <1>2, RequestUpdates
  <2>2. d.pc = "cancel" /\ d.session = q.session /\ d.run = r
    BY <1>1 DEF Request
  <2> HIDE DEF d
  <2>3. StopOK(d)
    BY <1>1, <2>1, <2>2 DEF StopOK
  <2> QED BY <2>3 DEF d
<1>5. \A r \in Runs : StopOK([q EXCEPT !.pc = "cancel", !.run = r, !.tries = 0])
  <2> TAKE r \in Runs
  <2> DEFINE d == [q EXCEPT !.pc = "cancel", !.run = r, !.tries = 0]
  <2>1. d \in Request(StopSteps)
    BY <1>1, <1>2, RequestUpdates
  <2>2. d.pc = "cancel" /\ d.session = q.session /\ d.run = r
    BY <1>1 DEF Request
  <2> HIDE DEF d
  <2>3. StopOK(d)
    BY <1>1, <2>1, <2>2 DEF StopOK
  <2> QED BY <2>3 DEF d
<1>6. ASSUME q.pc \in {"cancel", "read", "note"}
      PROVE  /\ StopOK([q EXCEPT !.pc = "read"])
             /\ StopOK([q EXCEPT !.pc = "note", !.revision = v, !.session = s])
  <2> DEFINE d == [q EXCEPT !.pc = "read"]
             e == [q EXCEPT !.pc = "note", !.revision = v, !.session = s]
  <2>1. d \in Request(StopSteps) /\ e \in Request(StopSteps)
    BY <1>1, <1>2, RequestUpdates
  <2>2. d.pc = "read" /\ d.session = q.session /\ d.run = q.run
    BY <1>1 DEF Request
  <2>3. e.pc = "note" /\ e.session = s /\ e.run = q.run
    BY <1>1 DEF Request
  <2>4. q.run \in Runs
    BY <1>6 DEF StopOK
  <2> HIDE DEF d, e
  <2>5. StopOK(d) /\ StopOK(e)
    BY <1>1, <2>1, <2>2, <2>3, <2>4 DEF StopOK
  <2> QED BY <2>5 DEF d, e
<1>7. ASSUME q.pc \in {"commit", "note"}
      PROVE  StopOK([q EXCEPT !.pc = IF @ = "commit" THEN "idle" ELSE "read", !.tries = @ + 1])
  <2> DEFINE pc == IF q.pc = "commit" THEN "idle" ELSE "read"
             d == [q EXCEPT !.pc = pc, !.tries = q.tries + 1]
  <2>1. pc \in StopSteps /\ q.tries + 1 \in Nat
    BY <1>1, <1>2 DEF Request
  <2>2. q.pc = "note" => q.run \in Runs
    BY DEF StopOK
  <2>3. pc = "idle" \/ (pc = "read" /\ q.run \in Runs)
    BY <1>7, <2>2
  <2> HIDE DEF pc
  <2>4. d \in Request(StopSteps)
    BY <1>1, <2>1, RequestUpdates
  <2>5. d.pc = pc /\ d.session = q.session /\ d.run = q.run
    BY <1>1 DEF Request
  <2> HIDE DEF d
  <2>6. StopOK(d)
    BY <1>1, <2>3, <2>4, <2>5 DEF StopOK
  <2> QED BY <2>6, Zenon DEF d, pc
<1> QED BY <1>3, <1>4, <1>5, <1>6, <1>7

LEMMA RecordLostKeeps == ASSUME TypeInv, RecordLost PROVE TypeInv'
<1>1. /\ coord.pc = "record" /\ coord.session.status = "running" /\ coord.run \in Runs
      /\ coord.msg # 0 /\ Turn = coord.session.expected
  BY InHand DEF RecordLost, RunSteps, DeliverySteps, TypeInv, CoordOK, CoordGood, Turn
<1>2. RunsOK' /\ RestOK'
  BY Frame DEF RecordLost
<1>3. CASE session.status = "cancelled"
  <2>1. CoordGood([coord EXCEPT !.pc = "stopping"], mailbox)
    <3>1. "stopping" \in CoordinatorSteps \ {"claim"} /\ CoordGood(coord, mailbox)
      BY DEF CoordinatorSteps, TypeInv, CoordOK
    <3> QED BY <1>1, <3>1, GotoGood DEF Turn
  <2>2. CoordOK'
    <3>1. Goto("stopping") /\ mailbox' = mailbox
      BY <1>3 DEF RecordLost
    <3> QED BY <2>1, <3>1 DEF CoordOK, Goto
  <2>3. Coordinator \in StopCallers
    BY DEF StopCallers
  <2>4. stop' = [stop EXCEPT ![Coordinator] = [NoRequest EXCEPT !.pc = "cancel", !.run = coord.run]]
    BY <1>3 DEF RecordLost
  <2>5. StopOK([NoRequest EXCEPT !.pc = "cancel", !.run = coord.run])
    BY <1>1, <2>3, InitialCopies, StopUpdates DEF TypeInv, StopsOK
  <2>6. StopsOK'
    BY <2>3, <2>4, <2>5, Frame DEF SetStop
  <2> QED BY <1>2, <2>2, <2>6, Frame DEF TypeInv, RecordLost
<1>4. CASE session.status # "cancelled"
  <2>1. CoordGood(coord', mailbox)
    BY <1>4, InitialCopies DEF RecordLost, TypeInv, MailboxOK
  <2> QED BY <1>2, <1>4, <2>1, MoveKeeps DEF RecordLost
<1> QED BY <1>3, <1>4

LEMMA AfterStopKeeps == ASSUME TypeInv, AfterStop PROVE TypeInv'
<1>1. coord.pc = "stopping" /\ coord.msg # 0 /\ RunsOK' /\ RestOK'
  BY InHand, Frame DEF AfterStop, RunSteps, DeliverySteps
<1>2. CoordGood([coord EXCEPT !.pc = "settle"], mailbox)
  BY <1>1, GotoGood DEF RunSteps, CoordinatorSteps, ThrowingSteps, TypeInv, CoordOK
<1>3. CoordOK'
  BY <1>2, InitialCopies DEF AfterStop, CoordOK, TypeInv, MailboxOK
<1>4. StopsOK'
  BY InitialCopies, Frame DEF AfterStop, SetStop, StopCallers
<1> QED BY <1>1, <1>3, <1>4, Frame DEF TypeInv, AfterStop

\* waitForRun: the run has ended, or its deadline has passed.
LEMMA WaitKeeps == ASSUME TypeInv, WaitForRun \/ TimeOut PROVE TypeInv'
<1>1. /\ coord.pc = "wait" /\ coord.run \in Runs /\ coord.msg # 0
      /\ coord.session.status = "running" /\ Turn = coord.session.expected
      /\ coord \in CoordRecord
  BY InHand DEF WaitForRun, TimeOut, RunSteps, DeliverySteps, TypeInv, CoordOK, CoordGood, Turn
<1>2. PICK step \in {"reread", "expire"}, o \in {"completed", "failed"} :
        coord' = [coord EXCEPT !.pc = step, !.outcome = o]
  BY DEF WaitForRun, TimeOut
<1>3. step \in CoordinatorSteps
  BY DEF CoordinatorSteps, ThrowingSteps
<1>4. /\ coord' \in CoordRecord
      /\ coord'.pc = step /\ coord'.msg = coord.msg /\ coord'.run = coord.run
      /\ coord'.session = coord.session
  BY <1>1, <1>2, <1>3, CoordUpdates DEF CoordRecord
<1>5. CoordGood(coord', mailbox)
  BY <1>1, <1>4 DEF TypeInv, CoordOK, CoordGood, Turn
<1>6. RunsOK' /\ RestOK'
  BY <1>1, RunUpdates, Frame DEF WaitForRun, TimeOut
<1> QED BY <1>5, <1>6, MoveKeeps DEF WaitForRun, TimeOut

LEMMA ExpireKeeps == ASSUME TypeInv, CancelTimedOut \/ CancelTimedOutFails PROVE TypeInv'
<1>1. /\ coord.pc = "expire" /\ coord.run \in Runs
      /\ coord.session.status = "running" /\ Turn = coord.session.expected
  BY InHand DEF CancelTimedOut, CancelTimedOutFails, RunSteps, DeliverySteps, TypeInv, CoordOK, CoordGood, Turn
<1>2. RunsOK' /\ RestOK'
  BY <1>1, RunUpdates, Frame DEF CancelTimedOut, CancelTimedOutFails
<1>3. "reread" \in CoordinatorSteps
  BY DEF CoordinatorSteps, ThrowingSteps
<1> QED BY <1>1, <1>2, <1>3, GotoKeeps DEF CancelTimedOut, CancelTimedOutFails, RunSteps, DeliverySteps

\* The judgement of a result.
LEMMA RereadKeeps == ASSUME TypeInv, RereadEnded \/ RereadChanged \/ RereadJudge PROVE TypeInv'
<1>1. /\ coord.pc = "reread" /\ coord.run \in Runs /\ coord.msg # 0
      /\ coord.session.status = "running" /\ Turn = coord.session.expected
  BY InHand DEF RereadEnded, RereadChanged, RereadJudge, RunSteps, DeliverySteps, TypeInv, CoordOK,
                CoordGood, Turn
<1>2. RunsOK' /\ RestOK'
  BY Frame DEF RereadEnded, RereadChanged, RereadJudge
<1>3. CASE RereadEnded
  BY <1>1, <1>2, <1>3, GotoKeeps
     DEF RereadEnded, CoordinatorSteps, ThrowingSteps, RunSteps, DeliverySteps
<1>4. CASE RereadChanged
  <2>1. /\ revision \in Nat /\ WellFormed(session) /\ session.status = "running"
        /\ GiveUp(session) \in {"fail", "discard"}
    BY <1>4, GiveUpSteps DEF RereadChanged, TypeInv, StoreOK
  <2>2. CoordGood([coord EXCEPT !.pc = GiveUp(session), !.revision = revision, !.session = session], mailbox)
    BY <1>1, <2>1, CommitGood
       DEF TypeInv, CoordOK, CoordinatorSteps, ThrowingSteps, CasSteps, RunSteps
  <2>3. CoordGood(coord', mailbox)
    BY <1>4, <2>2, InitialCopies DEF RereadChanged, TypeInv, MailboxOK
  <2> QED BY <1>2, <1>4, <2>3, MoveKeeps DEF RereadChanged
<1>5. CASE RereadJudge
  <2>1. PICK step \in {"promote", "accept", "fail", "discard"} : Goto(step)
    BY <1>5, GiveUpSteps DEF RereadJudge
  <2>2. step \in CoordinatorSteps \ {"claim"} /\ step \notin {"inject", "start"}
    BY DEF CoordinatorSteps, ThrowingSteps, CasSteps
  <2> QED BY <1>1, <1>2, <1>5, <2>1, <2>2, GotoKeeps DEF RereadJudge, RunSteps, DeliverySteps
<1> QED BY <1>3, <1>4, <1>5

LEMMA PromoteKeeps == ASSUME TypeInv, Promote \/ PromoteFails \/ MarkCommitted PROVE TypeInv'
<1>1. /\ coord.pc \in {"promote", "mark"} /\ coord.run \in Runs
      /\ coord.session.status = "running" /\ Turn = coord.session.expected
  BY InHand DEF Promote, PromoteFails, MarkCommitted, RunSteps, TypeInv, CoordOK, CoordGood, Turn
<1>2. RunsOK' /\ RestOK'
  <2>1. runs[coord.run].base \in Seq(Runs)
    BY <1>1 DEF TypeInv, RunsOK, RunRecord
  <2>2. CASE Promote
    BY <1>1, <2>1, <2>2, Frame DEF Promote, TypeInv, RunsOK
  <2>3. CASE PromoteFails
    BY <2>3, Frame DEF PromoteFails
  <2>4. CASE MarkCommitted
    BY <1>1, <2>4, RunUpdates, Frame DEF MarkCommitted
  <2> QED BY <2>2, <2>3, <2>4
<1>3. PICK step \in {"mark", "accept", "fail", "discard"} : Goto(step)
  BY GiveUpSteps DEF Promote, PromoteFails, MarkCommitted
<1>4. step \in CoordinatorSteps \ {"claim"} /\ step \notin {"inject", "start"}
  BY DEF CoordinatorSteps, ThrowingSteps, CasSteps
<1>5. UNCHANGED <<store, mailbox, window, creator, stop, interrupt>>
  BY DEF Promote, PromoteFails, MarkCommitted
<1> QED BY <1>1, <1>2, <1>3, <1>4, <1>5, GotoKeeps DEF RunSteps, DeliverySteps

LEMMA AcceptKeeps == ASSUME TypeInv, Accept PROVE TypeInv'
<1> DEFINE next == IF Turn = NumTurns /\ Transactional THEN coord.session.expected ELSE Turn + 1
           s == [coord.session EXCEPT
                   !.active = NoRun,
                   !.accepted = Append(@, [turn |-> coord.session.expected, run |-> coord.run]),
                   !.expected = next,
                   !.status = IF coord.session.expected = NumTurns THEN "completed" ELSE @]
           step == IF Turn = NumTurns THEN "settle" ELSE "publish"
<1>1. /\ coord.pc = "accept" /\ coord.run \in Runs /\ coord.msg # 0
      /\ coord.session.status = "running" /\ WellFormed(coord.session)
      /\ Turn = coord.session.expected /\ Turn \in Turns
  BY InHand DEF Accept, AcceptExpecting, RunSteps, DeliverySteps, TypeInv, CoordOK, CoordGood, Turn
<1>2. Commit(s, step)
  BY <1>1, Zenon DEF Accept, AcceptExpecting
<1>3. UNCHANGED <<mailbox, window, runs, shared, creator, stop, interrupt, faults>>
  BY DEF Accept, AcceptExpecting
<1>4. next \in 1..NumTurns + 1 /\ (coord.session.expected # NumTurns => next = coord.session.expected + 1)
  BY <1>1, ConstantsAssumption DEF Turns
<1>5. Turn # NumTurns => s.status = "running"
  BY <1>1 DEF WellFormed, Session
<1> HIDE DEF next
<1>6. WellFormed(s)
  BY <1>1, <1>4, AcceptedSession, Zenon
<1>7. step \in {"settle", "publish"} /\ (step # "settle" => Turn # NumTurns)
  OBVIOUS
<1> HIDE DEF s, step
<1>8. step \in CoordinatorSteps \ {"claim"} /\ step \notin RunSteps \cup {"inject", "start"}
  BY <1>7 DEF CoordinatorSteps, ThrowingSteps, CasSteps, RunSteps
<1> QED BY <1>1, <1>2, <1>3, <1>5, <1>6, <1>7, <1>8, CommitKeeps

LEMMA PublishKeeps == ASSUME TypeInv, PublishExpected PROVE TypeInv'
<1>1. coord.pc = "publish" /\ coord.session.expected \in Turns /\ coord.session.status = "running"
  BY InHand DEF PublishExpected
<1>2. /\ MailboxOK' /\ RunsOK' /\ RestOK'
      /\ \A c : CoordGood(c, mailbox) => CoordGood(c, mailbox')
  BY <1>1, PublishGood, Frame DEF PublishExpected
<1>3. CoordGood(coord', mailbox)
  <2>1. CASE coord.msg = 0
    BY <2>1, InitialCopies DEF PublishExpected, TypeInv, MailboxOK
  <2>2. CASE coord.msg # 0
    <3>1. CoordGood([coord EXCEPT !.pc = "settle"], mailbox)
      BY <1>1, <2>2, GotoGood DEF TypeInv, CoordOK, CoordinatorSteps, ThrowingSteps, RunSteps
    <3> QED BY <2>2, <3>1 DEF PublishExpected
  <2> QED BY <2>1, <2>2
<1>4. CoordOK'
  BY <1>2, <1>3 DEF CoordOK
<1> QED BY <1>2, <1>4, Frame DEF TypeInv, PublishExpected

\* Receiving and settling a delivery update one message of the mailbox in place.
LEMMA MessageUpdates ==
  ASSUME TypeInv, NEW m \in 1..Len(mailbox), UNCHANGED window,
         \/ mailbox' = [mailbox EXCEPT ![m].deliveries = @ + 1]
         \/ mailbox' = [mailbox EXCEPT ![m].done = TRUE]
  PROVE  /\ MailboxOK'
         /\ Len(mailbox') = Len(mailbox)
         /\ \A i \in 1..Len(mailbox) : mailbox'[i].turn = mailbox[i].turn
<1>1. mailbox \in Seq(Message) /\ mailbox[m] \in Message
  BY DEF TypeInv, MailboxOK
<1>2. PICK x \in Message : x.turn = mailbox[m].turn /\ mailbox' = [mailbox EXCEPT ![m] = x]
  <2>1. CASE mailbox' = [mailbox EXCEPT ![m].deliveries = @ + 1]
    <3>1. [mailbox[m] EXCEPT !.deliveries = @ + 1] \in Message
          /\ [mailbox[m] EXCEPT !.deliveries = @ + 1].turn = mailbox[m].turn
      BY <1>1 DEF Message
    <3>2. mailbox' = [mailbox EXCEPT ![m] = [mailbox[m] EXCEPT !.deliveries = @ + 1]]
      BY <2>1
    <3> QED BY <3>1, <3>2
  <2>2. CASE mailbox' = [mailbox EXCEPT ![m].done = TRUE]
    <3>1. [mailbox[m] EXCEPT !.done = TRUE] \in Message
          /\ [mailbox[m] EXCEPT !.done = TRUE].turn = mailbox[m].turn
      BY <1>1 DEF Message
    <3>2. mailbox' = [mailbox EXCEPT ![m] = [mailbox[m] EXCEPT !.done = TRUE]]
      BY <2>2
    <3> QED BY <3>1, <3>2
  <2> QED BY <2>1, <2>2
<1>3. mailbox' \in Seq(Message) /\ Len(mailbox') = Len(mailbox)
  BY <1>1, <1>2
<1>4. \A i \in 1..Len(mailbox) : mailbox'[i].turn = mailbox[i].turn
  BY <1>1, <1>2
<1> QED BY <1>3, <1>4 DEF TypeInv, MailboxOK

LEMMA SettleKeeps == ASSUME TypeInv, Settle PROVE TypeInv'
<1>1. coord.msg \in 1..Len(mailbox)
  BY InHand DEF Settle, DeliverySteps
<1>2. MailboxOK'
  BY <1>1, MessageUpdates DEF Settle
<1>3. CoordOK'
  BY <1>2, InitialCopies DEF Settle, CoordOK, MailboxOK
<1> QED BY <1>2, <1>3, Frame DEF TypeInv, Settle

LEMMA ReceiveKeeps == ASSUME TypeInv, NEW m \in 1..Len(mailbox), Receive(m) PROVE TypeInv'
<1> DEFINE t == mailbox[m].turn
<1>1. PICK step \in {"settle", "suppress", "fail", "claim"} :
        /\ Deliver(m, step)
        /\ step # "settle" => session.status = "running"
        /\ step = "claim" => t = session.expected /\ ~(session.attempts[t] + 1 > MaxAttempts)
  <2> DEFINE d == IF session.status # "running" THEN "settle"
                  ELSE IF t \in AcceptedTurns(session) THEN "suppress"
                  ELSE IF t # session.expected THEN "fail"
                  ELSE IF session.attempts[t] + 1 > MaxAttempts THEN "fail"
                  ELSE "claim"
  <2>1. Deliver(m, d)
    BY DEF Receive
  <2>2. /\ d \in {"settle", "suppress", "fail", "claim"}
        /\ d # "settle" => session.status = "running"
        /\ d = "claim" => t = session.expected /\ ~(session.attempts[t] + 1 > MaxAttempts)
    BY Zenon
  <2> HIDE DEF d
  <2> QED BY <2>1, <2>2
<1>2. WellFormed(session) /\ revision \in Nat /\ mailbox \in Seq(Message) /\ t \in Turns
  <2>1. mailbox[m] \in Message
    BY DEF TypeInv, MailboxOK
  <2> QED BY <2>1 DEF TypeInv, StoreOK, MailboxOK, Message
<1>3. step = "claim" => session.attempts[t] < MaxAttempts
  BY <1>1, <1>2, ConstantsAssumption DEF WellFormed, Session
<1>4. /\ MailboxOK' /\ Len(mailbox') = Len(mailbox)
      /\ \A i \in 1..Len(mailbox) : mailbox'[i].turn = mailbox[i].turn
  BY <1>1, MessageUpdates DEF Deliver
<1>5. step \in CoordinatorSteps /\ step \notin RunSteps \cup {"inject", "start"}
  BY DEF CoordinatorSteps, ThrowingSteps, CasSteps, RunSteps
<1>6. coord' = [pc |-> step, msg |-> m, run |-> NoRun, outcome |-> "none",
                revision |-> revision, session |-> session]
  BY <1>1 DEF Deliver
<1>7. coord' \in CoordRecord
  BY <1>2, <1>5, <1>6 DEF CoordRecord, WellFormed
<1>8. CoordOK'
  BY <1>1, <1>2, <1>3, <1>4, <1>5, <1>6, <1>7 DEF CoordOK, CoordGood, WellFormed
<1> QED BY <1>1, <1>4, <1>8, Frame DEF TypeInv, Deliver

\* retryOrFail and failSession.
LEMMA GiveUpKeeps == ASSUME TypeInv, DiscardWorkspace \/ RetryTurn \/ FailSession PROVE TypeInv'
<1>1. /\ coord.pc \in {"discard", "retry", "fail"} /\ coord.msg # 0
      /\ coord.session.status = "running" /\ WellFormed(coord.session)
  BY InHand DEF DiscardWorkspace, RetryTurn, FailSession, DeliverySteps
<1>2. CASE DiscardWorkspace
  <2>1. RunsOK' /\ RestOK'
    <3> DEFINE r == coord.session.active
    <3>1. r \in Runs \cup {NoRun}
      BY <1>1 DEF WellFormed, Session
    <3>2. CASE r # NoRun /\ runs[r].workspace = "open"
      BY <1>2, <3>1, <3>2, RunUpdates, Frame DEF DiscardWorkspace
    <3>3. CASE ~(r # NoRun /\ runs[r].workspace = "open")
      BY <1>2, <3>3, Frame DEF DiscardWorkspace
    <3> QED BY <3>2, <3>3
  <2>2. "retry" \in CoordinatorSteps
    BY DEF CoordinatorSteps, ThrowingSteps, CasSteps
  <2> QED BY <1>1, <1>2, <2>1, <2>2, GotoKeeps DEF DiscardWorkspace, RunSteps, DeliverySteps
<1>3. CASE RetryTurn
  <2>1. StoreOK'
    BY <1>1, <1>3, SessionSteps, Frame DEF RetryTurn
  <2>2. CoordOK'
    BY <1>3, InitialCopies DEF RetryTurn, CoordOK, TypeInv, MailboxOK
  <2> QED BY <1>3, <2>1, <2>2, Frame DEF TypeInv, RetryTurn
<1>4. CASE FailSession
  <2>1. WellFormed([coord.session EXCEPT !.active = NoRun, !.status = "failed"])
    BY <1>1, RunningSessionSteps
  <2> QED BY <1>1, <1>4, <2>1, CommitKeeps
          DEF FailSession, CoordinatorSteps, ThrowingSteps, RunSteps
<1> QED BY <1>2, <1>3, <1>4

LEMMA ThrowKeeps == ASSUME TypeInv, LoseRace \/ DeliveryThrows PROVE TypeInv'
<1>1. RunsOK' /\ RestOK'
  BY Frame DEF LoseRace, DeliveryThrows
<1>2. CoordGood(coord', mailbox)
  BY InitialCopies DEF LoseRace, DeliveryThrows, TypeInv, MailboxOK
<1> QED BY <1>1, <1>2, MoveKeeps DEF LoseRace, DeliveryThrows

LEMMA RecoverKeeps == ASSUME TypeInv, RecoverSession PROVE TypeInv'
<1> DEFINE s == [session EXCEPT !.active = NoRun]
<1>1. WellFormed(session) /\ WellFormed(s) /\ revision + 1 \in Nat
  <2>1. WellFormed(session) /\ revision + 1 \in Nat
    BY DEF TypeInv, StoreOK
  <2> QED BY <2>1, SessionSteps
<1>2. CASE session.status = "running"
  <2>1. s.status = "running"
    BY <1>1, <1>2 DEF WellFormed, Session
  <2>2. /\ Save(s)
        /\ coord' = [coord EXCEPT !.pc = "publish", !.revision = revision + 1, !.session = s]
        /\ coord.pc = "recover"
    BY <1>2 DEF RecoverSession
  <2> HIDE DEF s
  <2>3. CoordGood(coord', mailbox)
    BY <1>1, <2>1, <2>2, CommitGood
       DEF TypeInv, CoordOK, CoordinatorSteps, ThrowingSteps, CasSteps, RunSteps, DeliverySteps
  <2>4. CoordOK'
    BY <2>3 DEF RecoverSession, CoordOK
  <2> QED BY <1>1, <2>2, <2>4, Frame DEF TypeInv, RecoverSession
<1>3. CASE session.status # "running"
  <2>1. CoordOK'
    BY <1>3, InitialCopies DEF RecoverSession, CoordOK, TypeInv, MailboxOK
  <2> QED BY <1>3, <2>1, Frame DEF TypeInv, RecoverSession
<1> QED BY <1>2, <1>3

\* Every step of the coordinator loop.
LEMMA CoordinatorKeeps == ASSUME TypeInv, CoordinatorStep PROVE TypeInv'
<1>1. CASE \E m \in 1..Len(mailbox) : Receive(m)
  BY <1>1, ReceiveKeeps
<1>2. CASE SuppressDuplicate \/ ClaimTurn \/ InjectFault
  BY <1>2, SuppressKeeps, ClaimKeeps, InjectKeeps
<1>3. CASE (\E r \in Runs : StartRun(r)) \/ StartRejected
  BY <1>3, StartKeeps, RejectedKeeps
<1>4. CASE RecordRun \/ RecordLost \/ AfterStop
  BY <1>4, RecordKeeps, RecordLostKeeps, AfterStopKeeps
<1>5. CASE WaitForRun \/ TimeOut \/ CancelTimedOut
  BY <1>5, WaitKeeps, ExpireKeeps
<1>6. CASE RereadEnded \/ RereadChanged \/ RereadJudge
  BY <1>6, RereadKeeps
<1>7. CASE Promote \/ MarkCommitted \/ Accept \/ PublishExpected \/ Settle
  BY <1>7, PromoteKeeps, AcceptKeeps, PublishKeeps, SettleKeeps
<1>8. CASE DiscardWorkspace \/ RetryTurn \/ FailSession \/ LoseRace \/ RecoverSession
  BY <1>8, GiveUpKeeps, ThrowKeeps, RecoverKeeps
<1> QED BY <1>1, <1>2, <1>3, <1>4, <1>5, <1>6, <1>7, <1>8 DEF CoordinatorStep

-----------------------------------------------------------------------------
(* Operator requests                                                        *)

LEMMA InterruptUpdates ==
  ASSUME NEW q, InterruptOK(q), NEW s, WellFormed(s), NEW v \in Nat, NEW r \in Runs,
         NEW w \in {"cancelled", "failed"}
  PROVE  /\ InterruptOK([q EXCEPT !.pc = "read", !.run = r])
         /\ q.pc \notin {"idle", "done", "threw"} =>
              /\ InterruptOK([q EXCEPT !.pc = "cancel", !.tries = 0])
              /\ InterruptOK([q EXCEPT !.pc = "request", !.revision = v, !.session = s])
              /\ InterruptOK([q EXCEPT !.pc = "reread", !.verdict = w])
         /\ q.pc = "reread" =>
              InterruptOK([q EXCEPT !.pc = "finalize", !.revision = v, !.session = s])
         /\ q.pc \in {"request", "finalize"} =>
              InterruptOK(NextTry(q))
<1>1. q \in Request(InterruptSteps) /\ LedgerOK(q.session) /\ s \in Session /\ LedgerOK(s)
  BY DEF InterruptOK, WellFormed
<1>2. {"read", "request", "cancel", "reread", "finalize"} \subseteq InterruptSteps
  BY DEF InterruptSteps
<1>3. q.pc \notin {"idle", "done", "threw"} => q.run \in Runs
  BY DEF InterruptOK
<1>4. InterruptOK([q EXCEPT !.pc = "read", !.run = r])
  <2> DEFINE d == [q EXCEPT !.pc = "read", !.run = r]
  <2>1. d \in Request(InterruptSteps)
    BY <1>1, <1>2, RequestUpdates
  <2>2. d.pc = "read" /\ d.session = q.session /\ d.run = r
    BY <1>1 DEF Request
  <2> HIDE DEF d
  <2>3. InterruptOK(d)
    BY <1>1, <2>1, <2>2 DEF InterruptOK
  <2> QED BY <2>3 DEF d
<1>5. ASSUME q.pc \notin {"idle", "done", "threw"}
      PROVE  InterruptOK([q EXCEPT !.pc = "cancel", !.tries = 0])
  <2> DEFINE d == [q EXCEPT !.pc = "cancel", !.tries = 0]
  <2>1. d \in Request(InterruptSteps)
    BY <1>1, <1>2, RequestUpdates
  <2>2. d.pc = "cancel" /\ d.session = q.session /\ d.run = q.run
    BY <1>1 DEF Request
  <2> HIDE DEF d
  <2>3. InterruptOK(d)
    BY <1>1, <1>3, <1>5, <2>1, <2>2 DEF InterruptOK
  <2> QED BY <2>3 DEF d
<1>6. ASSUME q.pc \notin {"idle", "done", "threw"}
      PROVE  InterruptOK([q EXCEPT !.pc = "request", !.revision = v, !.session = s])
  <2> DEFINE d == [q EXCEPT !.pc = "request", !.revision = v, !.session = s]
  <2>1. d \in Request(InterruptSteps)
    BY <1>1, <1>2, RequestUpdates
  <2>2. d.pc = "request" /\ d.session = s /\ d.run = q.run
    BY <1>1 DEF Request
  <2> HIDE DEF d
  <2>3. InterruptOK(d)
    BY <1>1, <1>3, <1>6, <2>1, <2>2 DEF InterruptOK
  <2> QED BY <2>3 DEF d
<1>7. ASSUME q.pc \notin {"idle", "done", "threw"}
      PROVE  InterruptOK([q EXCEPT !.pc = "reread", !.verdict = w])
  <2> DEFINE d == [q EXCEPT !.pc = "reread", !.verdict = w]
  <2>1. d \in Request(InterruptSteps)
    BY <1>1, <1>2, RequestUpdates
  <2>2. d.pc = "reread" /\ d.session = q.session /\ d.run = q.run /\ d.verdict = w
    BY <1>1 DEF Request
  <2> HIDE DEF d
  <2>3. InterruptOK(d)
    BY <1>1, <1>3, <1>7, <2>1, <2>2 DEF InterruptOK
  <2> QED BY <2>3 DEF d
<1>8. ASSUME q.pc = "reread"
      PROVE  InterruptOK([q EXCEPT !.pc = "finalize", !.revision = v, !.session = s])
  <2> DEFINE d == [q EXCEPT !.pc = "finalize", !.revision = v, !.session = s]
  <2>1. d \in Request(InterruptSteps)
    BY <1>1, <1>2, RequestUpdates
  <2>2. d.pc = "finalize" /\ d.session = s /\ d.run = q.run /\ d.verdict = q.verdict
    BY <1>1 DEF Request
  <2>3. q.verdict \in {"cancelled", "failed"}
    BY <1>8 DEF InterruptOK
  <2> HIDE DEF d
  <2>4. InterruptOK(d)
    BY <1>1, <1>3, <1>8, <2>1, <2>2, <2>3 DEF InterruptOK
  <2> QED BY <2>4 DEF d
<1>9. ASSUME q.pc \in {"request", "finalize"}
      PROVE  InterruptOK(NextTry(q))
  <2> DEFINE pc == IF q.pc = "request" THEN "read" ELSE "reread"
             d == [q EXCEPT !.pc = pc, !.tries = q.tries + 1]
  <2>1. pc \in InterruptSteps /\ q.tries + 1 \in Nat
    BY <1>1, <1>2 DEF Request
  <2>2. q.pc = "finalize" => q.verdict \in {"cancelled", "failed"}
    BY DEF InterruptOK
  <2>3. pc = "read" \/ (pc = "reread" /\ q.verdict \in {"cancelled", "failed"})
    BY <1>9, <2>2
  <2> HIDE DEF pc
  <2>4. d \in Request(InterruptSteps)
    BY <1>1, <2>1, RequestUpdates
  <2>5. d.pc = pc /\ d.session = q.session /\ d.run = q.run /\ d.verdict = q.verdict
    BY <1>1 DEF Request
  <2> HIDE DEF d
  <2>6. InterruptOK(d)
    BY <1>1, <1>3, <1>9, <2>3, <2>4, <2>5 DEF InterruptOK
  <2> QED BY <2>6, InitialCopies, Zenon DEF NextTry, d, pc
<1> QED BY <1>4, <1>5, <1>6, <1>7, <1>8, <1>9

\* A request that moves, and nothing else but runs or faults.
LEMMA StopMoves ==
  ASSUME TypeInv, NEW p \in StopCallers, NEW q, StopOK(q), SetStop(p, q), StoreOK', RunsOK', RestOK',
         UNCHANGED <<mailbox, window, coord, interrupt>>
  PROVE  TypeInv'
BY Frame DEF TypeInv

LEMMA InterruptMoves ==
  ASSUME TypeInv, NEW p \in Interrupters, NEW q, InterruptOK(q), SetInterrupt(p, q),
         StoreOK', RunsOK', RestOK', UNCHANGED <<mailbox, window, coord, stop>>
  PROVE  TypeInv'
BY Frame DEF TypeInv

LEMMA StopKeeps ==
  ASSUME TypeInv, NEW p \in StopCallers, StopStep(p) \/ StopCancelFails(p) \/ StopThrows(p)
  PROVE  TypeInv'
<1>1. StopOK(stop[p]) /\ WellFormed(session) /\ revision \in Nat /\ WellFormed(stop[p].session)
  BY DEF TypeInv, StopsOK, StopOK, StoreOK, WellFormed, Request
<1>2. StopOK(Finished("done")) /\ StopOK(Finished("threw"))
  BY InitialCopies
<1>3. CASE StopRead(p)
  <2>1. UNCHANGED <<store, mailbox, window, runs, shared, coord, creator, interrupt, faults>>
    BY <1>3 DEF StopRead
  <2>2. CASE session.status = "running"
    <3>1. StopOK([stop[p] EXCEPT !.pc = "commit", !.revision = revision, !.session = session])
      BY <1>1, <2>2, StopUpdates
    <3> QED BY <1>3, <2>1, <2>2, <3>1, StopMoves, Frame DEF StopRead
  <2>3. CASE session.status # "running"
    <3>1. session.active \in Runs
      BY <1>1, <1>3, <2>3 DEF StopRead, WellFormed, Session
    <3>2. StopOK([stop[p] EXCEPT !.pc = "cancel", !.run = session.active])
      BY <1>1, <3>1, StopUpdates
    <3> QED BY <1>3, <2>1, <2>3, <3>2, StopMoves, Frame DEF StopRead
  <2> QED BY <2>2, <2>3
<1>4. CASE StopCommit(p)
  <2>1. stop[p].session.status = "running" /\ stop[p].session \in Session
    BY <1>1, <1>4 DEF StopCommit, StopOK, WellFormed
  <2>2. StoreOK'
    BY <1>1, <1>4, <2>1, RunningSessionSteps, Frame DEF StopCommit
  <2>3. CASE stop[p].session.active = NoRun
    BY <1>2, <1>4, <2>2, <2>3, StopMoves, Frame DEF StopCommit
  <2>4. CASE stop[p].session.active # NoRun
    <3>1. stop[p].session.active \in Runs
      BY <2>1, <2>4 DEF Session
    <3>2. StopOK([stop[p] EXCEPT !.pc = "cancel", !.run = stop[p].session.active, !.tries = 0])
      BY <1>1, <3>1, StopUpdates
    <3> QED BY <1>4, <2>2, <2>4, <3>2, StopMoves, Frame DEF StopCommit
  <2> QED BY <2>3, <2>4
<1>5. CASE StopLoses(p)
  <2>1. stop[p].pc \in {"commit", "note"}
    BY <1>5 DEF StopLoses
  <2>2. StopOK([stop[p] EXCEPT !.pc = IF @ = "commit" THEN "idle" ELSE "read", !.tries = @ + 1])
    BY <1>1, <2>1, StopUpdates
  <2>3. PICK q : StopOK(q) /\ SetStop(p, q)
    BY <1>2, <1>5, <2>2, Zenon DEF StopLoses
  <2> QED BY <1>5, <2>3, StopMoves, Frame DEF StopLoses
<1>6. CASE StopCancelRun(p) \/ StopCancelFails(p)
  <2>1. stop[p].pc = "cancel" /\ stop[p].run \in Runs
    BY <1>1, <1>6 DEF StopCancelRun, StopCancelFails, StopOK
  <2>2. StopOK([stop[p] EXCEPT !.pc = "read"])
    BY <1>1, <2>1, StopUpdates
  <2>3. RunsOK' /\ RestOK'
    BY <1>6, <2>1, RunUpdates, Frame DEF StopCancelRun, StopCancelFails
  <2> QED BY <1>6, <2>2, <2>3, StopMoves, Frame DEF StopCancelRun, StopCancelFails
<1>7. CASE StopReadAgain(p)
  <2>1. stop[p].pc = "read" /\ stop[p].run \in Runs
    BY <1>1, <1>7 DEF StopReadAgain, StopOK
  <2>2. StopOK([stop[p] EXCEPT !.pc = "note", !.revision = revision, !.session = session])
    BY <1>1, <2>1, StopUpdates
  <2>3. PICK q : StopOK(q) /\ SetStop(p, q)
    BY <1>2, <1>7, <2>2, Zenon DEF StopReadAgain
  <2> QED BY <1>7, <2>3, StopMoves, Frame DEF StopReadAgain
<1>8. CASE StopNote(p)
  <2>1. stop[p].pc = "note" /\ stop[p].run \in Runs
    BY <1>1, <1>8 DEF StopNote, StopOK
  <2>2. WellFormed([stop[p].session EXCEPT !.active = NoRun, !.cancelNoted = @ \cup {stop[p].run}])
    BY <1>1, <2>1, SessionSteps
  <2>3. StoreOK'
    BY <1>8, <2>2, Frame DEF StopNote
  <2> QED BY <1>2, <1>8, <2>3, StopMoves, Frame DEF StopNote
<1>9. CASE StopThrows(p)
  BY <1>2, <1>9, StopMoves, Frame DEF StopThrows
<1> QED BY <1>3, <1>4, <1>5, <1>6, <1>7, <1>8, <1>9 DEF StopStep

LEMMA InterruptKeeps ==
  ASSUME TypeInv, NEW p \in Interrupters,
         \/ InterruptActiveRun(p) \/ InterruptStep(p)
         \/ RequestUnannounced(p) \/ InterruptCancelFails(p) \/ InterruptThrows(p)
  PROVE  TypeInv'
<1> DEFINE i == interrupt[p]
<1>1. InterruptOK(i) /\ WellFormed(session) /\ revision \in Nat /\ WellFormed(i.session)
  BY DEF TypeInv, InterruptsOK, InterruptOK, StoreOK, WellFormed, Request
<1>2. InterruptOK(Finished("done")) /\ InterruptOK(Finished("threw"))
  BY InitialCopies
<1>3. CASE InterruptActiveRun(p)
  <2>1. session.active \in Runs
    BY <1>1, <1>3 DEF InterruptActiveRun, WellFormed, Session
  <2>2. InterruptOK([i EXCEPT !.pc = "read", !.run = session.active])
    BY <1>1, <2>1, InterruptUpdates
  <2> QED BY <1>3, <2>2, InterruptMoves, Frame DEF InterruptActiveRun
<1>4. CASE ReadForRequest(p)
  <2>1. i.pc = "read" /\ i.run \in Runs
    BY <1>1, <1>4 DEF ReadForRequest, InterruptOK
  <2>2. /\ InterruptOK([i EXCEPT !.pc = "cancel", !.tries = 0])
        /\ InterruptOK([i EXCEPT !.pc = "request", !.revision = revision, !.session = session])
    BY <1>1, <2>1, InterruptUpdates
  <2>3. PICK q : InterruptOK(q) /\ SetInterrupt(p, q)
    BY <1>2, <1>4, <2>2, Zenon DEF ReadForRequest
  <2> QED BY <1>4, <2>3, InterruptMoves, Frame DEF ReadForRequest
<1>5. CASE RecordRequest(p)
  <2>1. i.pc = "request" /\ i.run \in Runs
    BY <1>1, <1>5 DEF RecordRequest, InterruptOK
  <2>2. InterruptOK([i EXCEPT !.pc = "cancel", !.tries = 0])
    BY <1>1, <2>1, InterruptUpdates
  <2>3. WellFormed([i.session EXCEPT !.interruptions[i.run] = "requested"])
    BY <1>1, <2>1, SessionSteps DEF Interruption
  <2>4. StoreOK'
    BY <1>5, <2>3, Frame DEF RecordRequest
  <2> QED BY <1>5, <2>2, <2>4, InterruptMoves, Frame DEF RecordRequest
<1>6. CASE InterruptCancelRun(p) \/ InterruptCancelFails(p)
  <2>1. i.pc = "cancel" /\ i.run \in Runs
    BY <1>1, <1>6 DEF InterruptCancelRun, InterruptCancelFails, InterruptOK
  <2>2. \A w \in {"cancelled", "failed"} : InterruptOK([i EXCEPT !.pc = "reread", !.verdict = w])
    BY <1>1, <2>1, InterruptUpdates
  <2>3. PICK w \in {"cancelled", "failed"} : SetInterrupt(p, [i EXCEPT !.pc = "reread", !.verdict = w])
    BY <1>6 DEF InterruptCancelRun, InterruptCancelFails
  <2>4. RunsOK' /\ RestOK'
    BY <1>6, <2>1, RunUpdates, Frame DEF InterruptCancelRun, InterruptCancelFails
  <2> QED BY <1>6, <2>2, <2>3, <2>4, InterruptMoves, Frame DEF InterruptCancelRun, InterruptCancelFails
<1>7. CASE ReadForVerdict(p)
  <2>1. i.pc = "reread" /\ i.run \in Runs
    BY <1>1, <1>7 DEF ReadForVerdict, InterruptOK
  <2>2. InterruptOK([i EXCEPT !.pc = "finalize", !.revision = revision, !.session = session])
    BY <1>1, <2>1, InterruptUpdates
  <2>3. PICK q : InterruptOK(q) /\ SetInterrupt(p, q)
    BY <1>2, <1>7, <2>2, Zenon DEF ReadForVerdict
  <2> QED BY <1>7, <2>3, InterruptMoves, Frame DEF ReadForVerdict
<1>8. CASE FinalizeInterruption(p)
  <2>1. i.pc = "finalize" /\ i.run \in Runs /\ i.verdict \in Interruption
    BY <1>1, <1>8 DEF FinalizeInterruption, InterruptOK, Interruption
  <2>2. WellFormed([i.session EXCEPT !.interruptions[i.run] = i.verdict])
    BY <1>1, <2>1, SessionSteps
  <2>3. StoreOK'
    BY <1>8, <2>2, Frame DEF FinalizeInterruption
  <2> QED BY <1>2, <1>8, <2>3, InterruptMoves, Frame DEF FinalizeInterruption
<1>9. CASE InterruptLoses(p)
  <2>1. i.pc \in {"request", "finalize"} /\ i.run \in Runs
    BY <1>1, <1>9 DEF InterruptLoses, InterruptOK
  <2>2. InterruptOK(NextTry(i))
    BY <1>1, <2>1, InterruptUpdates
  <2> QED BY <1>9, <2>2, InterruptMoves, Frame DEF InterruptLoses
<1>10. CASE InterruptThrows(p)
  BY <1>2, <1>10, InterruptMoves, Frame DEF InterruptThrows
<1>11. CASE RequestUnannounced(p)
  <2>1. i.pc = "request" /\ i.run \in Runs
    BY <1>1, <1>11 DEF RequestUnannounced, InterruptOK
  <2>2. InterruptOK(NextTry(i))
    BY <1>1, <2>1, InterruptUpdates
  <2>3. WellFormed([i.session EXCEPT !.interruptions[i.run] = "requested"])
    BY <1>1, <2>1, SessionSteps DEF Interruption
  <2>4. StoreOK'
    BY <1>11, <2>3, Frame DEF RequestUnannounced
  <2> QED BY <1>11, <2>2, <2>4, InterruptMoves, Frame DEF RequestUnannounced
<1> QED BY <1>3, <1>4, <1>5, <1>6, <1>7, <1>8, <1>9, <1>10, <1>11 DEF InterruptStep

-----------------------------------------------------------------------------
(* The environment, crashes, and the theorem                                *)

LEMMA EnvironmentKeeps ==
  ASSUME TypeInv,
         \/ PublishFirstTurn \/ CreatorThrows
         \/ \E r \in Runs : FinishRun(r)
         \/ \E t \in Turns : WindowExpires(t)
  PROVE  TypeInv'
<1>1. CASE PublishFirstTurn
  <2>1. 1 \in Turns
    BY ConstantsAssumption DEF Turns
  <2>2. MailboxOK' /\ CoordGood(coord, mailbox')
    BY <1>1, <2>1, PublishGood DEF PublishFirstTurn, TypeInv, CoordOK
  <2>3. CoordOK' /\ RestOK'
    BY <1>1, <2>2 DEF PublishFirstTurn, CoordOK, TypeInv, RestOK
  <2> QED BY <1>1, <2>2, <2>3, Frame DEF TypeInv, PublishFirstTurn
<1>2. CASE CreatorThrows
  <2>1. RestOK'
    BY <1>2, ConstantsAssumption DEF CreatorThrows, Fault, TypeInv, RestOK
  <2> QED BY <1>2, <2>1, Frame DEF TypeInv, CreatorThrows
<1>3. CASE \E r \in Runs : FinishRun(r)
  <2>1. PICK r \in Runs : FinishRun(r)
    BY <1>3
  <2>2. RunsOK'
    BY <2>1, RunUpdates DEF FinishRun
  <2> QED BY <2>1, <2>2, Frame DEF TypeInv, FinishRun
<1>4. CASE \E t \in Turns : WindowExpires(t)
  <2>1. PICK t \in Turns : WindowExpires(t)
    BY <1>4
  <2>2. MailboxOK'
    BY <2>1 DEF WindowExpires, TypeInv, MailboxOK
  <2>3. RestOK'
    BY <2>1, ConstantsAssumption DEF WindowExpires, TypeInv, RestOK
  <2> QED BY <2>1, <2>2, <2>3, Frame DEF TypeInv, WindowExpires
<1> QED BY <1>1, <1>2, <1>3, <1>4

LEMMA CrashKeeps == ASSUME TypeInv, Crash PROVE TypeInv'
<1>1. CoordOK'
  BY InitialCopies DEF Crash, CoordOK, TypeInv, MailboxOK
<1>2. \A q : StopOK(q) => StopOK(Dies(q))
  BY InitialCopies DEF Dies
<1>3. \A q : InterruptOK(q) => InterruptOK(Dies(q))
  BY InitialCopies DEF Dies
<1>4. StopsOK'
  BY <1>2, InitialCopies DEF Crash, TypeInv, StopsOK
<1>5. InterruptsOK'
  BY <1>3 DEF Crash, TypeInv, InterruptsOK
<1>6. RunsOK'
  <2>1. \A rec \in RunRecord :
          [rec EXCEPT !.status = IF @ = "active" THEN "cancelled" ELSE @,
                      !.workspace = IF @ = "open" THEN "discarded" ELSE @] \in RunRecord
    <3> TAKE rec \in RunRecord
    <3> DEFINE x == IF rec.status = "active" THEN "cancelled" ELSE rec.status
               y == IF rec.workspace = "open" THEN "discarded" ELSE rec.workspace
    <3>1. /\ x \in {"unused", "active", "completed", "failed", "cancelled"}
          /\ y \in {"none", "open", "committed", "discarded"}
      BY DEF RunRecord
    <3> HIDE DEF x, y
    <3>2. [[rec EXCEPT !.status = x] EXCEPT !.workspace = y] \in RunRecord
      BY <3>1 DEF RunRecord
    <3>3. [rec EXCEPT !.status = x, !.workspace = y]
            = [[rec EXCEPT !.status = x] EXCEPT !.workspace = y]
      BY DEF RunRecord
    <3> QED BY <3>2, <3>3, Zenon DEF x, y
  <2>2. \A r \in Runs : runs[r] \in RunRecord
    BY DEF TypeInv, RunsOK
  <2>3. \A r \in Runs :
          [runs[r] EXCEPT !.status = IF @ = "active" THEN "cancelled" ELSE @,
                          !.workspace = IF @ = "open" THEN "discarded" ELSE @] \in RunRecord
    BY <2>1, <2>2, Zenon
  <2>4. runs' \in [Runs -> RunRecord]
    BY <2>3, Zenon DEF Crash
  <2> QED BY <2>4 DEF Crash, TypeInv, RunsOK
<1>7. RestOK'
  <2>1. /\ faults.crashes < MaxCrashes /\ faults' = [faults EXCEPT !.crashes = @ + 1]
        /\ creator' \in {creator, "lost"}
    BY DEF Crash
  <2>2. creator' \in {"publishing", "done", "lost"}
    BY <2>1 DEF TypeInv, RestOK
  <2>3. faults' \in [crashes : 0..MaxCrashes, calls : 0..MaxFaults, expiries : 0..MaxExpiries]
    <3>1. faults \in [crashes : 0..MaxCrashes, calls : 0..MaxFaults, expiries : 0..MaxExpiries]
      BY DEF TypeInv, RestOK
    <3>2. MaxCrashes \in Nat
      BY ConstantsAssumption
    <3>3. faults.crashes + 1 \in 0..MaxCrashes
      BY <2>1, <3>1, <3>2
    <3> QED BY <2>1, <3>1, <3>3
  <2> QED BY <2>2, <2>3 DEF RestOK
<1> QED BY <1>1, <1>4, <1>5, <1>6, <1>7, Frame DEF TypeInv, Crash

LEMMA InitTypeInv == Init => TypeInv
<1> SUFFICES ASSUME Init PROVE TypeInv
  OBVIOUS
<1> USE ConstantsAssumption DEF Init
<1>1. StoreOK
  BY InitialCopies DEF StoreOK
<1>2. MailboxOK
  BY DEF MailboxOK
<1>3. RunsOK
  <2>1. Participants[1] \in Agents /\ 1 \in Turns
    BY DEF Agents, Turns
  <2>2. UnusedRun \in RunRecord
    BY <2>1 DEF UnusedRun, RunRecord
  <2> QED BY <2>2 DEF RunsOK
<1>4. CoordOK
  BY <1>2, InitialCopies DEF CoordOK, MailboxOK
<1>5. StopsOK /\ InterruptsOK
  BY InitialCopies DEF StopsOK, InterruptsOK
<1>6. RestOK
  BY DEF RestOK
<1> QED BY <1>1, <1>2, <1>3, <1>4, <1>5, <1>6 DEF TypeInv

LEMMA NextTypeInv == TypeInv /\ [Next]_vars => TypeInv'
<1> SUFFICES ASSUME TypeInv, [Next]_vars PROVE TypeInv'
  OBVIOUS
<1>1. CASE CoordinatorStep
  BY <1>1, CoordinatorKeeps
<1>2. CASE Trouble
  <2>1. CASE CreatorThrows \/ CancelTimedOutFails \/ PromoteFails \/ DeliveryThrows
    BY <2>1, EnvironmentKeeps, ExpireKeeps, PromoteKeeps, ThrowKeeps
  <2>2. CASE \E p \in StopCallers : StopCancelFails(p) \/ StopThrows(p)
    BY <2>2, StopKeeps
  <2>3. CASE \E p \in Interrupters : RequestUnannounced(p) \/ InterruptCancelFails(p) \/ InterruptThrows(p)
    BY <2>3, InterruptKeeps
  <2>4. CASE Crash
    BY <2>4, CrashKeeps
  <2> QED BY <1>2, <2>1, <2>2, <2>3, <2>4 DEF Trouble
<1>3. CASE PublishFirstTurn \/ (\E r \in Runs : FinishRun(r)) \/ (\E t \in Turns : WindowExpires(t))
  BY <1>3, EnvironmentKeeps
<1>4. CASE \E p \in StopCallers : StopStep(p)
  BY <1>4, StopKeeps
<1>5. CASE \E p \in Interrupters : InterruptActiveRun(p) \/ InterruptStep(p)
  BY <1>5, InterruptKeeps
<1>6. CASE UNCHANGED vars
  BY <1>6, Frame DEF TypeInv, vars, store
<1> QED BY <1>1, <1>2, <1>3, <1>4, <1>5, <1>6 DEF Next

\* The inductive invariant holds in every reachable state.
THEOREM TypeInvariance == Spec => []TypeInv
BY InitTypeInv, NextTypeInv, PTL DEF Spec

LEMMA TypeInvTypeOK == TypeInv => TypeOK
<1> SUFFICES ASSUME TypeInv PROVE TypeOK
  OBVIOUS
<1>1. revision \in Nat \ {0} /\ session \in Session
  BY DEF TypeInv, StoreOK, WellFormed
<1>2. mailbox \in Seq([turn : Turns, done : BOOLEAN, deliveries : Nat]) /\ window \subseteq Turns
  BY DEF TypeInv, MailboxOK, Message
<1>3. runs \in [Runs -> RunRecord] /\ shared \in Seq(Runs)
  BY DEF TypeInv, RunsOK
<1>4. coord \in CoordRecord
  BY DEF TypeInv, CoordOK, CoordGood
<1>5. stop \in [StopCallers -> Request(StopSteps)]
  BY DEF TypeInv, StopsOK, StopOK
<1>6. interrupt \in [Interrupters -> Request(InterruptSteps)]
  BY DEF TypeInv, InterruptsOK, InterruptOK
<1>7. RestOK
  BY DEF TypeInv
<1> QED BY <1>1, <1>2, <1>3, <1>4, <1>5, <1>6, <1>7 DEF TypeOK, RestOK, CoordRecord

\* Every variable keeps its type: in particular no turn is ever attempted more
\* than MaxAttempts times and no session expects a turn beyond the last one.
THEOREM TypeCorrect == Spec => []TypeOK
BY TypeInvariance, TypeInvTypeOK, PTL

\* The accepted turns of a session are the turns from 1 on, in order, whatever
\* is redelivered, retried, stopped or restarted.
THEOREM OrderedAcceptance == Spec => []AcceptedInOrder
<1>1. TypeInv => AcceptedInOrder
  BY DEF TypeInv, StoreOK, WellFormed, LedgerOK, AcceptedInOrder, Running
<1> QED BY <1>1, TypeInvariance, PTL
-----------------------------------------------------------------------------
(* Optimistic concurrency: whoever holds a copy of the session either      *)
(* holds the stored value or holds a revision that can no longer win, and  *)
(* therefore a session that has ended is never changed again.              *)

\* a's copy is the session sess of revision rev, or an older one.
CurrentAt(a, rev, sess) == a.revision <= rev /\ (a.revision = rev => a.session = sess)

CopiesInv ==
  /\ CurrentAt(coord, revision, session)
  /\ \A p \in StopCallers : CurrentAt(stop[p], revision, session)
  /\ \A p \in Interrupters : CurrentAt(interrupt[p], revision, session)

\* What a step does to an actor's copy: keep it, drop it, or bring it up to date.
Tracks(a, b) ==
  \/ b.revision = a.revision /\ b.session = a.session
  \/ b.revision = 0
  \/ b.revision = revision' /\ b.session = session'

\* What a step does to the store: nothing, or a new revision.
Advances == UNCHANGED store \/ revision' = revision + 1

LEMMA TracksCurrent ==
  ASSUME TypeInv, Advances, NEW a, CurrentAt(a, revision, session), a.revision \in Nat,
         NEW b, Tracks(a, b)
  PROVE  CurrentAt(b, revision', session')
<1>1. revision \in Nat \ {0}
  BY DEF TypeInv, StoreOK
<1> QED BY <1>1 DEF Advances, Tracks, CurrentAt, store

LEMMA StepTracks ==
  ASSUME TypeInv, CopiesInv, Advances, Tracks(coord, coord'),
         \A p \in StopCallers : Tracks(stop[p], stop'[p]),
         \A p \in Interrupters : Tracks(interrupt[p], interrupt'[p])
  PROVE  CopiesInv'
<1>1. coord.revision \in Nat
  BY DEF TypeInv, CoordOK, CoordGood, CoordRecord
<1>2. \A p \in StopCallers : stop[p].revision \in Nat
  BY DEF TypeInv, StopsOK, StopOK, Request
<1>3. \A p \in Interrupters : interrupt[p].revision \in Nat
  BY DEF TypeInv, InterruptsOK, InterruptOK, Request
<1>4. CurrentAt(coord', revision', session')
  BY <1>1, TracksCurrent DEF CopiesInv
<1>5. \A p \in StopCallers : CurrentAt(stop'[p], revision', session')
  BY <1>2, TracksCurrent DEF CopiesInv
<1>6. \A p \in Interrupters : CurrentAt(interrupt'[p], revision', session')
  BY <1>3, TracksCurrent DEF CopiesInv
<1> QED BY <1>4, <1>5, <1>6 DEF CopiesInv

-----------------------------------------------------------------------------
(* The coordinator's copy                                                   *)

LEMMA CoordMovesTrack ==
  ASSUME TypeInv
  PROVE  /\ \A step : Goto(step) => Tracks(coord, coord')
         /\ \A s, step : Commit(s, step) => Tracks(coord, coord') /\ Advances
         /\ coord' = Idle => Tracks(coord, coord')
         /\ UNCHANGED coord => Tracks(coord, coord')
<1>1. coord \in CoordRecord
  BY InHand
<1>2. \A step : Goto(step) => Tracks(coord, coord')
  BY <1>1 DEF Goto, Tracks, CoordRecord
<1>3. \A s, step : Commit(s, step) => Tracks(coord, coord') /\ Advances
  BY <1>1 DEF Commit, Save, Tracks, Advances, CoordRecord
<1>4. coord' = Idle => Tracks(coord, coord')
  BY DEF Idle, Tracks
<1>5. UNCHANGED coord => Tracks(coord, coord')
  BY DEF Tracks
<1> QED BY <1>2, <1>3, <1>4, <1>5

LEMMA CoordinatorTracks ==
  ASSUME TypeInv,
         \/ CoordinatorStep \/ CancelTimedOutFails \/ PromoteFails \/ DeliveryThrows
  PROVE  Tracks(coord, coord') /\ Advances
<1> USE CoordMovesTrack DEF Advances
<1>1. coord \in CoordRecord
  BY InHand
<1>2. CASE \E m \in 1..Len(mailbox) : Receive(m)
  BY <1>2 DEF Receive, Deliver, Tracks, store
<1>3. CASE SuppressDuplicate \/ InjectFault \/ RecordRun \/ FailSession
  BY <1>3 DEF SuppressDuplicate, InjectFault, RecordRun, FailSession
<1>4. CASE ClaimTurn
  BY <1>4 DEF ClaimTurn
<1>5. CASE \E r \in Runs : StartRun(r)
  BY <1>1, <1>5 DEF StartRun, Start, Tracks, CoordRecord
<1>6. CASE StartRejected \/ RereadEnded \/ RereadJudge
  BY <1>6 DEF StartRejected, RereadEnded, RereadJudge
<1>7. CASE RecordLost
  BY <1>7 DEF RecordLost
<1>8. CASE AfterStop
  BY <1>1, <1>8 DEF AfterStop, Tracks, CoordRecord
<1>9. CASE WaitForRun \/ TimeOut
  BY <1>1, <1>9 DEF WaitForRun, TimeOut, Tracks, CoordRecord
<1>10. CASE CancelTimedOut \/ CancelTimedOutFails
  BY <1>10 DEF CancelTimedOut, CancelTimedOutFails
<1>11. CASE RereadChanged
  BY <1>1, <1>11 DEF RereadChanged, Tracks, CoordRecord, store
<1>12. CASE Promote \/ PromoteFails \/ MarkCommitted \/ DiscardWorkspace
  BY <1>12 DEF Promote, PromoteFails, MarkCommitted, DiscardWorkspace
<1>13. CASE Accept
  BY <1>13 DEF Accept, AcceptExpecting
<1>14. CASE PublishExpected
  BY <1>1, <1>14 DEF PublishExpected, Tracks, CoordRecord
<1>15. CASE Settle \/ LoseRace \/ DeliveryThrows
  BY <1>15 DEF Settle, LoseRace, DeliveryThrows
<1>16. CASE RetryTurn
  BY <1>16 DEF RetryTurn, Save
<1>17. CASE RecoverSession
  BY <1>1, <1>17 DEF RecoverSession, Save, Tracks, CoordRecord, store
<1> QED BY <1>2, <1>3, <1>4, <1>5, <1>6, <1>7, <1>8, <1>9, <1>10, <1>11, <1>12, <1>13, <1>14,
           <1>15, <1>16, <1>17 DEF CoordinatorStep

-----------------------------------------------------------------------------
(* The copies operator requests hold                                        *)

LEMMA StopEntry ==
  ASSUME TypeInv, NEW p \in StopCallers, NEW q, SetStop(p, q), Tracks(stop[p], q)
  PROVE  \A x \in StopCallers : Tracks(stop[x], stop'[x])
<1>1. stop' = [stop EXCEPT ![p] = q] /\ DOMAIN stop = StopCallers
  BY DEF SetStop, TypeInv, StopsOK
<1>2. \A x \in StopCallers : stop'[x] = IF x = p THEN q ELSE stop[x]
  BY <1>1
<1>3. \A x \in StopCallers : x # p => Tracks(stop[x], stop'[x])
  BY <1>2 DEF Tracks
<1> QED BY <1>2, <1>3

LEMMA InterruptEntry ==
  ASSUME TypeInv, NEW p \in Interrupters, NEW q, SetInterrupt(p, q), Tracks(interrupt[p], q)
  PROVE  \A x \in Interrupters : Tracks(interrupt[x], interrupt'[x])
<1>1. interrupt' = [interrupt EXCEPT ![p] = q] /\ DOMAIN interrupt = Interrupters
  BY DEF SetInterrupt, TypeInv, InterruptsOK
<1>2. \A x \in Interrupters : interrupt'[x] = IF x = p THEN q ELSE interrupt[x]
  BY <1>1
<1>3. \A x \in Interrupters : x # p => Tracks(interrupt[x], interrupt'[x])
  BY <1>2 DEF Tracks
<1> QED BY <1>2, <1>3

LEMMA UnchangedTrack ==
  /\ UNCHANGED coord => Tracks(coord, coord')
  /\ UNCHANGED stop => \A p \in StopCallers : Tracks(stop[p], stop'[p])
  /\ UNCHANGED interrupt => \A p \in Interrupters : Tracks(interrupt[p], interrupt'[p])
BY DEF Tracks

\* The coordinator touches no request but its own call of
\* cancelRunAfterSessionStop, which it starts and ends without a copy.
LEMMA CoordinatorCall ==
  ASSUME TypeInv,
         \/ CoordinatorStep \/ CancelTimedOutFails \/ PromoteFails \/ DeliveryThrows
  PROVE  /\ \A p \in StopCallers : Tracks(stop[p], stop'[p])
         /\ UNCHANGED interrupt
<1> USE UnchangedTrack
<1>1. CASE \E m \in 1..Len(mailbox) : Receive(m)
  BY <1>1 DEF Receive, Deliver
<1>2. CASE SuppressDuplicate \/ ClaimTurn \/ InjectFault \/ RecordRun
  BY <1>2 DEF SuppressDuplicate, ClaimTurn, InjectFault, RecordRun
<1>3. CASE (\E r \in Runs : StartRun(r)) \/ StartRejected
  BY <1>3 DEF StartRun, Start, StartRejected
<1>4. CASE RecordLost
  <2>1. CASE session.status = "cancelled"
    <3> DEFINE q == [NoRequest EXCEPT !.pc = "cancel", !.run = coord.run]
    <3>1. SetStop(Coordinator, q) /\ UNCHANGED interrupt
      BY <1>4, <2>1 DEF RecordLost, SetStop
    <3>2. Tracks(stop[Coordinator], q)
      BY DEF Tracks, NoRequest
    <3> QED BY <3>1, <3>2, StopEntry DEF StopCallers
  <2>2. CASE session.status # "cancelled"
    BY <1>4, <2>2 DEF RecordLost
  <2> QED BY <2>1, <2>2
<1>5. CASE AfterStop
  <2>1. SetStop(Coordinator, NoRequest) /\ UNCHANGED interrupt
    BY <1>5 DEF AfterStop, SetStop
  <2>2. Tracks(stop[Coordinator], NoRequest)
    BY DEF Tracks, NoRequest
  <2> QED BY <2>1, <2>2, StopEntry DEF StopCallers
<1>6. CASE WaitForRun \/ TimeOut \/ CancelTimedOut \/ CancelTimedOutFails
  BY <1>6 DEF WaitForRun, TimeOut, CancelTimedOut, CancelTimedOutFails
<1>7. CASE RereadEnded \/ RereadChanged \/ RereadJudge
  BY <1>7 DEF RereadEnded, RereadChanged, RereadJudge
<1>8. CASE Promote \/ PromoteFails \/ MarkCommitted \/ Accept
  BY <1>8 DEF Promote, PromoteFails, MarkCommitted, Accept, AcceptExpecting
<1>9. CASE PublishExpected \/ Settle \/ DiscardWorkspace \/ RetryTurn \/ FailSession
  BY <1>9 DEF PublishExpected, Settle, DiscardWorkspace, RetryTurn, FailSession
<1>10. CASE LoseRace \/ DeliveryThrows \/ RecoverSession
  BY <1>10 DEF LoseRace, DeliveryThrows, RecoverSession
<1> QED BY <1>1, <1>2, <1>3, <1>4, <1>5, <1>6, <1>7, <1>8, <1>9, <1>10 DEF CoordinatorStep

\* How the requests' updates treat the copy they hold.
LEMMA RequestTracks ==
  ASSUME NEW steps, NEW a \in Request(steps)
  PROVE  /\ \A x : Tracks(a, [a EXCEPT !.pc = x])
         /\ \A x, r : Tracks(a, [a EXCEPT !.pc = x, !.run = r])
         /\ \A x, w : Tracks(a, [a EXCEPT !.pc = x, !.verdict = w])
         /\ \A x, n : Tracks(a, [a EXCEPT !.pc = x, !.tries = n])
         /\ \A x, r, n : Tracks(a, [a EXCEPT !.pc = x, !.run = r, !.tries = n])
         /\ UNCHANGED store =>
              \A x : Tracks(a, [a EXCEPT !.pc = x, !.revision = revision, !.session = session])
BY DEF Tracks, Request, store

LEMMA StopTracks ==
  ASSUME TypeInv, NEW p \in StopCallers, StopStep(p) \/ StopCancelFails(p) \/ StopThrows(p)
  PROVE  /\ \A x \in StopCallers : Tracks(stop[x], stop'[x])
         /\ Advances
         /\ UNCHANGED <<coord, interrupt>>
<1>1. stop[p] \in Request(StopSteps)
  BY DEF TypeInv, StopsOK, StopOK
<1>2. /\ \A x : Tracks(stop[p], [stop[p] EXCEPT !.pc = x])
      /\ \A x, r : Tracks(stop[p], [stop[p] EXCEPT !.pc = x, !.run = r])
      /\ \A x, n : Tracks(stop[p], [stop[p] EXCEPT !.pc = x, !.tries = n])
      /\ \A x, r, n : Tracks(stop[p], [stop[p] EXCEPT !.pc = x, !.run = r, !.tries = n])
      /\ UNCHANGED store => \A x :
           Tracks(stop[p], [stop[p] EXCEPT !.pc = x, !.revision = revision, !.session = session])
  BY <1>1, RequestTracks
<1>3. \A how : Tracks(stop[p], Finished(how))
  BY DEF Tracks, Finished, NoRequest
<1>4. CASE StopRead(p)
  <2>1. PICK q : SetStop(p, q) /\ Tracks(stop[p], q)
    BY <1>2, <1>4, Zenon DEF StopRead
  <2> QED BY <1>4, <2>1, StopEntry DEF StopRead, Advances
<1>5. CASE StopCommit(p)
  <2>1. PICK q : SetStop(p, q) /\ Tracks(stop[p], q)
    BY <1>2, <1>3, <1>5, Zenon DEF StopCommit
  <2> QED BY <1>5, <2>1, StopEntry DEF StopCommit, Advances, Save
<1>6. CASE StopLoses(p)
  <2>1. PICK q : SetStop(p, q) /\ Tracks(stop[p], q)
    BY <1>2, <1>3, <1>6, Zenon DEF StopLoses
  <2> QED BY <1>6, <2>1, StopEntry DEF StopLoses, Advances
<1>7. CASE StopCancelRun(p) \/ StopCancelFails(p)
  <2>1. PICK q : SetStop(p, q) /\ Tracks(stop[p], q)
    BY <1>2, <1>7, Zenon DEF StopCancelRun, StopCancelFails
  <2> QED BY <1>7, <2>1, StopEntry DEF StopCancelRun, StopCancelFails, Advances
<1>8. CASE StopReadAgain(p)
  <2>1. PICK q : SetStop(p, q) /\ Tracks(stop[p], q)
    BY <1>2, <1>3, <1>8, Zenon DEF StopReadAgain
  <2> QED BY <1>8, <2>1, StopEntry DEF StopReadAgain, Advances
<1>9. CASE StopNote(p)
  BY <1>3, <1>9, StopEntry DEF StopNote, Advances, Save
<1>10. CASE StopThrows(p)
  BY <1>3, <1>10, StopEntry DEF StopThrows, Advances
<1> QED BY <1>4, <1>5, <1>6, <1>7, <1>8, <1>9, <1>10 DEF StopStep

LEMMA InterruptTracks ==
  ASSUME TypeInv, NEW p \in Interrupters,
         \/ InterruptActiveRun(p) \/ InterruptStep(p)
         \/ RequestUnannounced(p) \/ InterruptCancelFails(p) \/ InterruptThrows(p)
  PROVE  /\ \A x \in Interrupters : Tracks(interrupt[x], interrupt'[x])
         /\ Advances
         /\ UNCHANGED <<coord, stop>>
<1>1. interrupt[p] \in Request(InterruptSteps)
  BY DEF TypeInv, InterruptsOK, InterruptOK
<1>2. /\ \A x, r : Tracks(interrupt[p], [interrupt[p] EXCEPT !.pc = x, !.run = r])
      /\ \A x, w : Tracks(interrupt[p], [interrupt[p] EXCEPT !.pc = x, !.verdict = w])
      /\ \A x, n : Tracks(interrupt[p], [interrupt[p] EXCEPT !.pc = x, !.tries = n])
      /\ UNCHANGED store => \A x :
           Tracks(interrupt[p], [interrupt[p] EXCEPT !.pc = x, !.revision = revision, !.session = session])
  BY <1>1, RequestTracks
<1>3. \A how : Tracks(interrupt[p], Finished(how))
  BY DEF Tracks, Finished, NoRequest
<1>4. CASE InterruptActiveRun(p)
  <2>1. PICK q : SetInterrupt(p, q) /\ Tracks(interrupt[p], q)
    BY <1>2, <1>4, Zenon DEF InterruptActiveRun
  <2> QED BY <1>4, <2>1, InterruptEntry DEF InterruptActiveRun, Advances
<1>5. CASE ReadForRequest(p)
  <2>1. PICK q : SetInterrupt(p, q) /\ Tracks(interrupt[p], q)
    BY <1>2, <1>3, <1>5, Zenon DEF ReadForRequest
  <2> QED BY <1>5, <2>1, InterruptEntry DEF ReadForRequest, Advances
<1>6. CASE RecordRequest(p)
  <2>1. PICK q : SetInterrupt(p, q) /\ Tracks(interrupt[p], q)
    BY <1>2, <1>6, Zenon DEF RecordRequest
  <2> QED BY <1>6, <2>1, InterruptEntry DEF RecordRequest, Advances, Save
<1>7. CASE InterruptCancelRun(p) \/ InterruptCancelFails(p)
  <2>1. PICK q : SetInterrupt(p, q) /\ Tracks(interrupt[p], q)
    BY <1>2, <1>7, Zenon DEF InterruptCancelRun, InterruptCancelFails
  <2> QED BY <1>7, <2>1, InterruptEntry DEF InterruptCancelRun, InterruptCancelFails, Advances
<1>8. CASE ReadForVerdict(p)
  <2>1. PICK q : SetInterrupt(p, q) /\ Tracks(interrupt[p], q)
    BY <1>2, <1>3, <1>8, Zenon DEF ReadForVerdict
  <2> QED BY <1>8, <2>1, InterruptEntry DEF ReadForVerdict, Advances
<1>9. CASE FinalizeInterruption(p)
  BY <1>3, <1>9, InterruptEntry DEF FinalizeInterruption, Advances, Save
<1>10. CASE InterruptLoses(p)
  <2>1. PICK q : SetInterrupt(p, q) /\ Tracks(interrupt[p], q)
    BY <1>2, <1>3, <1>10, Zenon DEF InterruptLoses, NextTry
  <2> QED BY <1>10, <2>1, InterruptEntry DEF InterruptLoses, Advances
<1>11. CASE InterruptThrows(p)
  BY <1>3, <1>11, InterruptEntry DEF InterruptThrows, Advances
<1>12. CASE RequestUnannounced(p)
  <2>1. PICK q : SetInterrupt(p, q) /\ Tracks(interrupt[p], q)
    BY <1>2, <1>3, <1>12, Zenon DEF RequestUnannounced, NextTry
  <2> QED BY <1>12, <2>1, InterruptEntry DEF RequestUnannounced, Advances, Save
<1> QED BY <1>4, <1>5, <1>6, <1>7, <1>8, <1>9, <1>10, <1>11, <1>12 DEF InterruptStep

-----------------------------------------------------------------------------
(* The theorems                                                             *)

LEMMA InitCopies == Init => CopiesInv
BY DEF Init, CopiesInv, CurrentAt, Idle, NoRequest

LEMMA NextCopies == TypeInv /\ CopiesInv /\ [Next]_vars => CopiesInv'
<1> SUFFICES ASSUME TypeInv, CopiesInv, [Next]_vars PROVE CopiesInv'
  OBVIOUS
<1> USE UnchangedTrack
<1>1. CASE CoordinatorStep \/ CancelTimedOutFails \/ PromoteFails \/ DeliveryThrows
  BY <1>1, CoordinatorTracks, CoordinatorCall, StepTracks
<1>2. CASE \E p \in StopCallers : StopStep(p) \/ StopCancelFails(p) \/ StopThrows(p)
  BY <1>2, StopTracks, StepTracks
<1>3. CASE \E p \in Interrupters :
             \/ InterruptActiveRun(p) \/ InterruptStep(p)
             \/ RequestUnannounced(p) \/ InterruptCancelFails(p) \/ InterruptThrows(p)
  BY <1>3, InterruptTracks, StepTracks
<1>4. CASE PublishFirstTurn \/ CreatorThrows \/ (\E r \in Runs : FinishRun(r))
             \/ (\E t \in Turns : WindowExpires(t)) \/ UNCHANGED vars
  <2>1. UNCHANGED <<store, coord, stop, interrupt>>
    BY <1>4 DEF PublishFirstTurn, CreatorThrows, FinishRun, WindowExpires, vars, store
  <2> QED BY <2>1, StepTracks DEF Advances
<1>5. CASE Crash
  <2>1. UNCHANGED store /\ coord'.revision = 0
    BY <1>5 DEF Crash, Idle
  <2>2. \A q : Tracks(q, Dies(q))
    BY DEF Dies, Finished, NoRequest, Tracks
  <2>3. \A p \in StopCallers : Tracks(stop[p], stop'[p])
    BY <1>5, <2>2 DEF Crash, NoRequest, Tracks
  <2>4. \A p \in Interrupters : Tracks(interrupt[p], interrupt'[p])
    BY <1>5, <2>2 DEF Crash
  <2>5. Tracks(coord, coord')
    BY <2>1 DEF Tracks
  <2> QED BY <2>1, <2>3, <2>4, <2>5, StepTracks DEF Advances
<1> QED BY <1>1, <1>2, <1>3, <1>4, <1>5 DEF Next, Trouble

THEOREM CopiesInvariance == Spec => []CopiesInv
BY InitCopies, NextCopies, TypeInvariance, PTL DEF Spec

\* Every actor that will write the session holds it exactly as stored, or holds
\* a revision with which updateSession cannot succeed.
THEOREM CurrentCopies == Spec => []CopiesAreCurrent
<1>1. CopiesInv => CopiesAreCurrent
  BY DEF CopiesInv, CopiesAreCurrent, CurrentAt
<1> QED BY <1>1, CopiesInvariance, PTL

\* A step that writes the store writes what the winner's copy became, and the
\* winner's copy was the stored session.
Frozen ==
  ~Running =>
    /\ session'.status = session.status
    /\ session'.accepted = session.accepted
    /\ session'.attempts = session.attempts

LEMMA CoordinatorFrozen ==
  ASSUME TypeInv, CopiesInv,
         \/ CoordinatorStep \/ CancelTimedOutFails \/ PromoteFails \/ DeliveryThrows
  PROVE  Frozen
<1>1. ASSUME Wins(coord), coord.pc \notin {"idle", "recover", "settle"} PROVE Running
  BY <1>1, InHand DEF CopiesInv, CurrentAt, Wins, Running
<1>2. CASE UNCHANGED store
  BY <1>2 DEF Frozen, store
<1>3. CASE SuppressDuplicate \/ ClaimTurn \/ InjectFault \/ RecordRun \/ Accept \/ RetryTurn \/ FailSession
  <2>1. Wins(coord) /\ coord.pc \notin {"idle", "recover", "settle"}
    BY <1>3 DEF SuppressDuplicate, ClaimTurn, InjectFault, RecordRun, Accept, AcceptExpecting,
                RetryTurn, FailSession, Commit
  <2> QED BY <1>1, <2>1 DEF Frozen
<1>4. CASE RecoverSession
  BY <1>4 DEF RecoverSession, Frozen, Running, store
<1>5. \/ UNCHANGED store
      \/ SuppressDuplicate \/ ClaimTurn \/ InjectFault \/ RecordRun \/ Accept \/ RetryTurn \/ FailSession
      \/ RecoverSession
  BY DEF CoordinatorStep, Receive, Deliver, StartRun, Start, StartRejected, RecordLost, AfterStop,
         WaitForRun, TimeOut, CancelTimedOut, CancelTimedOutFails, RereadEnded, RereadChanged,
         RereadJudge, Promote, PromoteFails, MarkCommitted, PublishExpected, Settle,
         DiscardWorkspace, LoseRace, DeliveryThrows, store
<1> QED BY <1>2, <1>3, <1>4, <1>5

LEMMA StopFrozen ==
  ASSUME TypeInv, CopiesInv, NEW p \in StopCallers,
         StopStep(p) \/ StopCancelFails(p) \/ StopThrows(p)
  PROVE  Frozen
<1>1. CASE StopCommit(p)
  <2>1. Running
    BY <1>1 DEF StopCommit, Wins, CopiesInv, CurrentAt, TypeInv, StopsOK, StopOK, Running
  <2> QED BY <2>1 DEF Frozen
<1>2. CASE StopNote(p)
  <2>1. stop[p].session = session /\ session \in Session
    BY <1>2 DEF StopNote, Wins, CopiesInv, CurrentAt, TypeInv, StoreOK, WellFormed
  <2>2. session' = [session EXCEPT !.active = NoRun, !.cancelNoted = @ \cup {stop[p].run}]
    BY <1>2, <2>1 DEF StopNote, Save
  <2> QED BY <2>1, <2>2 DEF Frozen, Session
<1>3. CASE StopRead(p) \/ StopLoses(p) \/ StopCancelRun(p) \/ StopReadAgain(p)
             \/ StopCancelFails(p) \/ StopThrows(p)
  BY <1>3 DEF StopRead, StopLoses, StopCancelRun, StopReadAgain, StopCancelFails, StopThrows,
              store, Frozen
<1> QED BY <1>1, <1>2, <1>3 DEF StopStep

LEMMA InterruptFrozen ==
  ASSUME TypeInv, CopiesInv, NEW p \in Interrupters,
         \/ InterruptActiveRun(p) \/ InterruptStep(p)
         \/ RequestUnannounced(p) \/ InterruptCancelFails(p) \/ InterruptThrows(p)
  PROVE  Frozen
<1>1. CASE RecordRequest(p) \/ RequestUnannounced(p) \/ FinalizeInterruption(p)
  <2>1. interrupt[p].session = session /\ session \in Session
    BY <1>1 DEF RecordRequest, RequestUnannounced, FinalizeInterruption, Wins, CopiesInv, CurrentAt, TypeInv, StoreOK,
                WellFormed
  <2>2. PICK x : session' = [session EXCEPT !.interruptions[interrupt[p].run] = x]
    BY <1>1, <2>1 DEF RecordRequest, RequestUnannounced, FinalizeInterruption, Save
  <2> QED BY <2>1, <2>2 DEF Frozen, Session
<1>2. CASE InterruptActiveRun(p) \/ ReadForRequest(p) \/ InterruptCancelRun(p) \/ ReadForVerdict(p)
             \/ InterruptLoses(p) \/ InterruptCancelFails(p) \/ InterruptThrows(p)
  BY <1>2 DEF InterruptActiveRun, ReadForRequest, InterruptCancelRun, ReadForVerdict,
              InterruptLoses, InterruptCancelFails, InterruptThrows, store, Frozen
<1> QED BY <1>1, <1>2 DEF InterruptStep

LEMMA NextFrozen == TypeInv /\ CopiesInv /\ [Next]_vars => Frozen
<1> SUFFICES ASSUME TypeInv, CopiesInv, [Next]_vars PROVE Frozen
  OBVIOUS
<1>1. CASE CoordinatorStep \/ CancelTimedOutFails \/ PromoteFails \/ DeliveryThrows
  BY <1>1, CoordinatorFrozen
<1>2. CASE \E p \in StopCallers : StopStep(p) \/ StopCancelFails(p) \/ StopThrows(p)
  BY <1>2, StopFrozen
<1>3. CASE \E p \in Interrupters :
             \/ InterruptActiveRun(p) \/ InterruptStep(p)
             \/ RequestUnannounced(p) \/ InterruptCancelFails(p) \/ InterruptThrows(p)
  BY <1>3, InterruptFrozen
<1>4. CASE PublishFirstTurn \/ CreatorThrows \/ (\E r \in Runs : FinishRun(r))
             \/ (\E t \in Turns : WindowExpires(t)) \/ Crash \/ UNCHANGED vars
  BY <1>4 DEF PublishFirstTurn, CreatorThrows, FinishRun, WindowExpires, Crash, vars, store, Frozen
<1> QED BY <1>1, <1>2, <1>3, <1>4 DEF Next, Trouble

\* An ended session is final: whatever the coordinator, a late stop or an
\* interruption in progress still do, its status, its accepted turns and its
\* attempts stay as they are.
THEOREM FinalEnd == Spec => EndIsFinal
<1>1. TypeInv /\ CopiesInv /\ [Next]_vars =>
        [~Running =>
           /\ session'.status = session.status
           /\ session'.accepted = session.accepted
           /\ session'.attempts = session.attempts]_vars
  BY NextFrozen DEF Frozen
<1> QED BY <1>1, TypeInvariance, CopiesInvariance, PTL DEF Spec, EndIsFinal

-----------------------------------------------------------------------------
(* What one step does                                                       *)

\* How a run that has begun, or has not, goes on: it keeps its turn and its
\* base, ends once, and a committed workspace stays committed.
GoesOn(a, b) ==
  /\ b.turn = a.turn /\ b.base = a.base /\ (b.status = "unused" <=> a.status = "unused")
  /\ b.status = "active" => a.status = "active"
  /\ b.status \in {"unused", "active"} => b.output = a.output
  /\ a.status \notin {"unused", "active"} => b.status = a.status /\ b.output = a.output
  /\ a.workspace = "committed" => b.workspace = "committed"

\* A cancellation ends an active run and nothing else.
LEMMA CancelGoesOn ==
  ASSUME TypeInv, NEW q, CancelRun(q)
  PROVE  \A r \in Runs : GoesOn(runs[r], runs'[r]) /\ runs'[r].late = runs[r].late
<1>1. runs \in [Runs -> RunRecord]
  BY DEF TypeInv, RunsOK
<1>2. CASE runs[q].status = "active" /\ q \in Runs
  <2>1. runs' = [runs EXCEPT ![q] = [runs[q] EXCEPT !.status = "cancelled"]]
    BY <1>2 DEF CancelRun
  <2> QED BY <1>1, <1>2, <2>1 DEF GoesOn, RunRecord
<1>3. CASE ~(runs[q].status = "active" /\ q \in Runs)
  <2>1. \A r \in Runs : runs'[r] = runs[r]
    BY <1>1, <1>3 DEF CancelRun
  <2> QED BY <2>1 DEF GoesOn
<1> QED BY <1>2, <1>3

\* The coordinator's steps on the run it holds.
LEMMA HandGoesOn ==
  ASSUME TypeInv, TimeOut \/ MarkCommitted \/ DiscardWorkspace
  PROVE  \A r \in Runs :
           GoesOn(runs[r], runs'[r]) /\ ((TimeOut /\ r = coord.run) \/ runs'[r].late = runs[r].late)
<1>1. runs \in [Runs -> RunRecord]
  BY DEF TypeInv, RunsOK
<1>2. CASE TimeOut
  <2>1. coord.run \in Runs
    BY <1>2, InHand DEF TimeOut, RunSteps
  <2>2. runs' = [runs EXCEPT ![coord.run] = [runs[coord.run] EXCEPT !.late = TRUE]]
    BY <1>2 DEF TimeOut
  <2> QED BY <1>1, <1>2, <2>1, <2>2 DEF GoesOn, RunRecord
<1>3. CASE MarkCommitted
  <2>1. coord.run \in Runs
    BY <1>3, InHand DEF MarkCommitted, RunSteps
  <2>2. runs' = [runs EXCEPT ![coord.run] = [runs[coord.run] EXCEPT !.workspace = "committed"]]
    BY <1>3 DEF MarkCommitted
  <2> QED BY <1>1, <2>1, <2>2 DEF GoesOn, RunRecord
<1>4. CASE DiscardWorkspace
  <2> DEFINE q == coord.session.active
  <2>1. CASE q # NoRun /\ runs[q].workspace = "open" /\ q \in Runs
    <3>1. runs' = [runs EXCEPT ![q] = [runs[q] EXCEPT !.workspace = "discarded"]]
      BY <1>4, <2>1 DEF DiscardWorkspace
    <3> QED BY <1>1, <2>1, <3>1 DEF GoesOn, RunRecord
  <2>2. CASE ~(q # NoRun /\ runs[q].workspace = "open" /\ q \in Runs)
    <3>1. \A r \in Runs : runs'[r] = runs[r]
      BY <1>1, <1>4, <2>2 DEF DiscardWorkspace
    <3> QED BY <3>1 DEF GoesOn
  <2> QED BY <2>1, <2>2
<1> QED BY <1>2, <1>3, <1>4

LEMMA EnvironmentGoesOn ==
  ASSUME TypeInv, Crash \/ (\E r \in Runs : FinishRun(r))
  PROVE  \A r \in Runs : GoesOn(runs[r], runs'[r]) /\ runs'[r].late = runs[r].late
<1>1. runs \in [Runs -> RunRecord]
  BY DEF TypeInv, RunsOK
<1>2. CASE Crash
  <2> SUFFICES ASSUME NEW r \in Runs
               PROVE  GoesOn(runs[r], runs'[r]) /\ runs'[r].late = runs[r].late
    OBVIOUS
  <2> DEFINE st == IF runs[r].status = "active" THEN "cancelled" ELSE runs[r].status
             ws == IF runs[r].workspace = "open" THEN "discarded" ELSE runs[r].workspace
  <2>1. runs'[r] = [runs[r] EXCEPT !.status = st, !.workspace = ws]
    BY <1>2 DEF Crash
  <2>2. runs[r] \in RunRecord
    BY <1>1
  <2> HIDE DEF st, ws
  <2>3. /\ runs'[r].status = st /\ runs'[r].workspace = ws /\ runs'[r].turn = runs[r].turn
        /\ runs'[r].base = runs[r].base /\ runs'[r].output = runs[r].output
        /\ runs'[r].late = runs[r].late
    BY <2>1, <2>2 DEF RunRecord
  <2> QED BY <2>3 DEF GoesOn, st, ws
<1>3. CASE \E r \in Runs : FinishRun(r)
  <2>1. PICK q \in Runs : FinishRun(q)
    BY <1>3
  <2>2. PICK rec : /\ runs' = [runs EXCEPT ![q] = rec]
                   /\ rec.turn = runs[q].turn /\ rec.base = runs[q].base /\ rec.late = runs[q].late
                   /\ rec.workspace = runs[q].workspace
                   /\ rec.status \in {"completed", "failed", "cancelled"}
    <3>1. ASSUME NEW o, runs' = [runs EXCEPT ![q].status = "completed", ![q].output = o]
          PROVE  runs' = [runs EXCEPT ![q] = [runs[q] EXCEPT !.status = "completed", !.output = o]]
      BY <1>1, <3>1
    <3>2. ASSUME NEW o
          PROVE  LET rec == [runs[q] EXCEPT !.status = "completed", !.output = o] IN
                 /\ rec.turn = runs[q].turn /\ rec.base = runs[q].base /\ rec.late = runs[q].late
                 /\ rec.workspace = runs[q].workspace /\ rec.status = "completed"
      BY <1>1 DEF RunRecord
    <3>3. ASSUME NEW x \in {"failed", "cancelled"}
          PROVE  LET rec == [runs[q] EXCEPT !.status = x] IN
                 /\ rec.turn = runs[q].turn /\ rec.base = runs[q].base /\ rec.late = runs[q].late
                 /\ rec.workspace = runs[q].workspace /\ rec.status = x
      BY <1>1 DEF RunRecord
    <3>4. CASE \E o \in {"valid", "invalid"} :
                 runs' = [runs EXCEPT ![q].status = "completed", ![q].output = o]
      <4>1. PICK o \in {"valid", "invalid"} :
              runs' = [runs EXCEPT ![q].status = "completed", ![q].output = o]
        BY <3>4
      <4>2. PICK rec : rec = [runs[q] EXCEPT !.status = "completed", !.output = o]
        OBVIOUS
      <4>3. runs' = [runs EXCEPT ![q] = rec]
        BY <3>1, <4>1, <4>2
      <4>4. /\ rec.turn = runs[q].turn /\ rec.base = runs[q].base /\ rec.late = runs[q].late
            /\ rec.workspace = runs[q].workspace /\ rec.status = "completed"
        BY <3>2, <4>2
      <4> QED BY <4>3, <4>4
    <3>5. CASE \E x \in {"failed", "cancelled"} : runs' = [runs EXCEPT ![q].status = x]
      <4>1. PICK x \in {"failed", "cancelled"} : runs' = [runs EXCEPT ![q].status = x]
        BY <3>5
      <4>2. runs' = [runs EXCEPT ![q] = [runs[q] EXCEPT !.status = x]]
        BY <4>1
      <4> QED BY <3>3, <4>2
    <3> QED BY <2>1, <3>4, <3>5 DEF FinishRun
  <2>3. runs[q].status = "active"
    BY <2>1 DEF FinishRun
  <2> QED BY <1>1, <2>2, <2>3 DEF GoesOn
<1> QED BY <1>2, <1>3

\* The runs a step does not start go on, and only a passed deadline makes one late.
LEMMA RunsGoOn ==
  ASSUME TypeInv, [Next]_vars
  PROVE  \/ \E q \in Runs : StartRun(q)
         \/ \A r \in Runs :
              /\ GoesOn(runs[r], runs'[r])
              /\ \/ TimeOut /\ r = coord.run
                 \/ runs'[r].late = runs[r].late
<1>1. CASE UNCHANGED runs
  BY <1>1 DEF GoesOn
<1>2. \/ UNCHANGED runs \/ (\E q \in Runs : StartRun(q)) \/ (\E q : CancelRun(q))
      \/ TimeOut \/ MarkCommitted \/ DiscardWorkspace \/ Crash \/ (\E r \in Runs : FinishRun(r))
  <2>1. CASE CoordinatorStep
    BY <2>1 DEF CoordinatorStep, Receive, Deliver, SuppressDuplicate, ClaimTurn, InjectFault,
         StartRejected, RecordRun, RecordLost, AfterStop, WaitForRun, CancelTimedOut,
         RereadEnded, RereadChanged, RereadJudge, Promote, Accept, AcceptExpecting,
         PublishExpected, Settle, RetryTurn, FailSession, LoseRace, RecoverSession
  <2>2. CASE Trouble
    BY <2>2 DEF Trouble, CreatorThrows, CancelTimedOutFails, PromoteFails, DeliveryThrows,
         StopCancelFails, StopThrows, RequestUnannounced, InterruptCancelFails, InterruptThrows
  <2>3. CASE \E p \in StopCallers : StopStep(p)
    BY <2>3 DEF StopStep, StopRead, StopCommit, StopLoses, StopCancelRun, StopReadAgain, StopNote
  <2>4. CASE \E p \in Interrupters : InterruptActiveRun(p) \/ InterruptStep(p)
    BY <2>4 DEF InterruptActiveRun, InterruptStep, ReadForRequest, RecordRequest,
         InterruptCancelRun, ReadForVerdict, FinalizeInterruption, InterruptLoses
  <2>5. CASE PublishFirstTurn \/ (\E r \in Runs : FinishRun(r)) \/ (\E t \in Turns : WindowExpires(t))
             \/ UNCHANGED vars
    BY <2>5 DEF PublishFirstTurn, WindowExpires, vars
  <2> QED BY <2>1, <2>2, <2>3, <2>4, <2>5 DEF Next
<1> QED BY <1>1, <1>2, CancelGoesOn, HandGoesOn, EnvironmentGoesOn

\* What a step does to the stream: it leaves it, publishes, acknowledges, or
\* counts a delivery.
LEMMA MailboxMoves ==
  ASSUME [Next]_vars
  PROVE  \/ UNCHANGED mailbox /\ window' \subseteq window
         \/ PublishFirstTurn \/ PublishExpected \/ Settle
         \/ \E m \in 1..Len(mailbox) :
              mailbox' = [mailbox EXCEPT ![m].deliveries = @ + 1] /\ UNCHANGED window
<1>1. CASE CoordinatorStep
  BY <1>1 DEF CoordinatorStep, Receive, Deliver, SuppressDuplicate, ClaimTurn, InjectFault,
       StartRun, Start, TimeOut, MarkCommitted, DiscardWorkspace,
       StartRejected, RecordRun, RecordLost, AfterStop, WaitForRun, CancelTimedOut,
       RereadEnded, RereadChanged, RereadJudge, Promote, Accept, AcceptExpecting,
       RetryTurn, FailSession, LoseRace, RecoverSession
<1>2. CASE Trouble
  BY <1>2 DEF Trouble, CreatorThrows, CancelTimedOutFails, PromoteFails, DeliveryThrows, Crash,
       StopCancelFails, StopThrows, RequestUnannounced, InterruptCancelFails, InterruptThrows
<1>3. CASE \E p \in StopCallers : StopStep(p)
  BY <1>3 DEF StopStep, StopRead, StopCommit, StopLoses, StopCancelRun, StopReadAgain, StopNote
<1>4. CASE \E p \in Interrupters : InterruptActiveRun(p) \/ InterruptStep(p)
  BY <1>4 DEF InterruptActiveRun, InterruptStep, ReadForRequest, RecordRequest,
       InterruptCancelRun, ReadForVerdict, FinalizeInterruption, InterruptLoses
<1>5. CASE PublishFirstTurn \/ (\E r \in Runs : FinishRun(r)) \/ (\E t \in Turns : WindowExpires(t))
           \/ UNCHANGED vars
  BY <1>5 DEF FinishRun, WindowExpires, vars
<1> QED BY <1>1, <1>2, <1>3, <1>4, <1>5 DEF Next

\* No message leaves the mailbox or changes its turn.
LEMMA MessagesStay ==
  ASSUME TypeInv, [Next]_vars
  PROVE  /\ Len(mailbox') \in Nat /\ Len(mailbox) \in Nat /\ Len(mailbox) <= Len(mailbox')
         /\ \A m \in 1..Len(mailbox) : mailbox'[m].turn = mailbox[m].turn
         /\ \A m \in 1..Len(mailbox') : m \notin 1..Len(mailbox) =>
              /\ ~mailbox'[m].done
              /\ \/ PublishFirstTurn /\ mailbox'[m].turn = 1
                 \/ PublishExpected /\ mailbox'[m].turn = coord.session.expected
<1>1. mailbox \in Seq(Message) /\ mailbox' \in Seq(Message)
  BY NextTypeInv DEF TypeInv, MailboxOK
<1>2. ASSUME NEW t, Publish(t),
             (PublishFirstTurn /\ t = 1) \/ (PublishExpected /\ t = coord.session.expected)
      PROVE  /\ Len(mailbox') \in Nat /\ Len(mailbox) \in Nat /\ Len(mailbox) <= Len(mailbox')
             /\ \A m \in 1..Len(mailbox) : mailbox'[m].turn = mailbox[m].turn
             /\ \A m \in 1..Len(mailbox') : m \notin 1..Len(mailbox) =>
                  /\ ~mailbox'[m].done
                  /\ \/ PublishFirstTurn /\ mailbox'[m].turn = 1
                     \/ PublishExpected /\ mailbox'[m].turn = coord.session.expected
  <2>1. CASE t \in window
    BY <1>1, <1>2, <2>1 DEF Publish
  <2>2. CASE t \notin window
    <3> DEFINE x == [turn |-> t, done |-> FALSE, deliveries |-> 0]
    <3>1. mailbox' = Append(mailbox, x)
      BY <1>2, <2>2 DEF Publish
    <3>2. ~x.done /\ x.turn = t
      OBVIOUS
    <3> HIDE DEF x
    <3>3. Len(mailbox') = Len(mailbox) + 1 /\ mailbox'[Len(mailbox) + 1] = x
          /\ \A m \in 1..Len(mailbox) : mailbox'[m] = mailbox[m]
      BY <1>1, <3>1
    <3> QED BY <1>1, <1>2, <3>2, <3>3
  <2> QED BY <2>1, <2>2
<1>3. CASE \E m \in 1..Len(mailbox) :
             \/ mailbox' = [mailbox EXCEPT ![m].deliveries = @ + 1] /\ UNCHANGED window
             \/ mailbox' = [mailbox EXCEPT ![m].done = TRUE] /\ UNCHANGED window
  BY <1>1, <1>3, MessageUpdates
<1>4. CASE UNCHANGED mailbox
  BY <1>1, <1>4
<1>5. CASE Settle
  <2>1. coord.msg \in 1..Len(mailbox)
    BY <1>5, InHand DEF Settle, DeliverySteps
  <2> QED BY <1>3, <1>5, <2>1 DEF Settle
<1>6. CASE PublishFirstTurn \/ PublishExpected
  BY <1>2, <1>6 DEF PublishFirstTurn, PublishExpected
<1> QED BY <1>3, <1>4, <1>5, <1>6, MailboxMoves

\* What the writers of the session leave alone: only the coordinator accepts,
\* counts attempts and records runs, and an interruption that is stored stays.
Interrupts(p, x) ==
  /\ interrupt[p].pc \in {"request", "finalize"} /\ interrupt[p].run \in Runs
  /\ x \in Interruption \ {"none"}
  /\ interrupt[p].session = session
  /\ session' = [session EXCEPT !.interruptions[interrupt[p].run] = x]
  /\ RecordRequest(p) \/ RequestUnannounced(p) \/ FinalizeInterruption(p)

SessionGoesOn ==
  /\ Accept \/ session'.accepted = session.accepted
  /\ ClaimTurn \/ session'.attempts = session.attempts
  /\ RecordRun \/ session'.active \in {session.active, NoRun}
  /\ \/ session'.interruptions = session.interruptions
     \/ \E p \in Interrupters : \E x : Interrupts(p, x)
  /\ Accept \/ session'.expected = session.expected
  /\ \/ Accept /\ Running
     \/ session'.status = session.status
     \/ Running /\ session'.status \in {"failed", "cancelled"}

LEMMA InterruptsAre ==
  ASSUME TypeInv, NEW p \in Interrupters, NEW x, Interrupts(p, x)
  PROVE  /\ SessionGoesOn
         /\ session'.interruptions = [session.interruptions EXCEPT ![interrupt[p].run] = x]
<1>1. session \in Session
  BY DEF TypeInv, StoreOK, WellFormed
<1>2. session' = [session EXCEPT !.interruptions = [session.interruptions EXCEPT ![interrupt[p].run] = x]]
  BY DEF Interrupts
<1>3. /\ session'.interruptions = [session.interruptions EXCEPT ![interrupt[p].run] = x]
      /\ session'.accepted = session.accepted /\ session'.attempts = session.attempts
      /\ session'.active = session.active /\ session'.status = session.status
      /\ session'.expected = session.expected
  BY <1>1, <1>2 DEF Session
<1> QED BY <1>3 DEF SessionGoesOn

\* The coordinator's writes.
LEMMA CoordinatorWrites ==
  ASSUME TypeInv, CopiesInv, CoordinatorStep
  PROVE  SessionGoesOn
<1>1. session \in Session /\ (Wins(coord) => coord.session = session)
  BY DEF TypeInv, StoreOK, WellFormed, CopiesInv, CurrentAt, Wins
<1>2. coord.pc \notin {"idle", "recover", "settle"} => coord.session.status = "running"
  BY InHand
<1>3. CASE UNCHANGED session
  BY <1>3 DEF SessionGoesOn
<1>4. CASE SuppressDuplicate \/ InjectFault
  BY <1>1, <1>3, <1>4 DEF SuppressDuplicate, InjectFault, Commit, Save
<1>5. CASE ClaimTurn
  <2>1. session' = [session EXCEPT !.attempts = [session.attempts EXCEPT ![Turn] = @ + 1]]
    BY <1>1, <1>5 DEF ClaimTurn, Commit, Save
  <2> QED BY <1>1, <1>5, <2>1 DEF Session, SessionGoesOn
<1>6. CASE RecordRun
  <2>1. session' = [session EXCEPT !.active = coord.run]
    BY <1>1, <1>6 DEF RecordRun, Commit, Save
  <2> QED BY <1>1, <1>6, <2>1 DEF Session, SessionGoesOn
<1>7. CASE Accept
  <2>1. PICK acc, next, status :
          session' = [session EXCEPT !.active = NoRun, !.accepted = acc, !.expected = next, !.status = status]
    BY <1>1, <1>7 DEF Accept, AcceptExpecting, Commit, Save
  <2>2. /\ session'.active = NoRun /\ session'.attempts = session.attempts
        /\ session'.interruptions = session.interruptions
    BY <1>1, <2>1 DEF Session
  <2>3. Running
    BY <1>1, <1>2, <1>7 DEF Accept, AcceptExpecting, Commit, Running
  <2> QED BY <1>7, <2>2, <2>3 DEF SessionGoesOn
<1>8. CASE RetryTurn
  <2>1. session' = [session EXCEPT !.active = NoRun]
    BY <1>1, <1>8 DEF RetryTurn, Save
  <2> QED BY <1>1, <2>1 DEF Session, SessionGoesOn
<1>9. CASE FailSession
  <2>1. session' = [session EXCEPT !.active = NoRun, !.status = "failed"] /\ Running
    BY <1>1, <1>2, <1>9 DEF FailSession, Commit, Save, Running
  <2> QED BY <1>1, <2>1 DEF Session, SessionGoesOn
<1>10. CASE RecoverSession
  <2>1. UNCHANGED session \/ session' = [session EXCEPT !.active = NoRun]
    BY <1>10 DEF RecoverSession, Save, store
  <2> QED BY <1>1, <2>1 DEF Session, SessionGoesOn
<1>11. \/ UNCHANGED session \/ SuppressDuplicate \/ InjectFault \/ ClaimTurn \/ RecordRun \/ Accept
       \/ RetryTurn \/ FailSession \/ RecoverSession
  BY DEF CoordinatorStep, Receive, Deliver, StartRun, Start, TimeOut, MarkCommitted, DiscardWorkspace,
         StartRejected, RecordLost, AfterStop, WaitForRun, CancelTimedOut,
         RereadEnded, RereadChanged, RereadJudge, Promote, PublishExpected, Settle, LoseRace, store
<1> QED BY <1>3, <1>4, <1>5, <1>6, <1>7, <1>8, <1>9, <1>10, <1>11

\* Every write.
LEMMA SessionWrites == ASSUME TypeInv, CopiesInv, [Next]_vars PROVE SessionGoesOn
<1>1. session \in Session
  BY DEF TypeInv, StoreOK, WellFormed
<1>2. CASE CoordinatorStep
  BY <1>2, CoordinatorWrites
<1>3. CASE UNCHANGED session
  BY <1>3 DEF SessionGoesOn
<1>4. ASSUME NEW p \in StopCallers, StopCommit(p) \/ StopNote(p)
      PROVE  SessionGoesOn
  <2>1. stop[p].session = session
    BY <1>4 DEF StopCommit, StopNote, Wins, CopiesInv, CurrentAt
  <2>2. CASE StopCommit(p)
    <3>1. Running /\ session' = [session EXCEPT !.status = "cancelled"]
      BY <2>1, <2>2 DEF StopCommit, Save, TypeInv, StopsOK, StopOK, Running
    <3> QED BY <1>1, <3>1 DEF Session, SessionGoesOn
  <2>3. CASE StopNote(p)
    <3>1. PICK noted : session' = [session EXCEPT !.active = NoRun, !.cancelNoted = noted]
      BY <2>1, <2>3 DEF StopNote, Save
    <3> QED BY <1>1, <3>1 DEF Session, SessionGoesOn
  <2> QED BY <1>4, <2>2, <2>3
<1>5. ASSUME NEW p \in Interrupters,
             RecordRequest(p) \/ RequestUnannounced(p) \/ FinalizeInterruption(p)
      PROVE  SessionGoesOn
  <2>1. interrupt[p].session = session /\ InterruptOK(interrupt[p])
    BY <1>5 DEF RecordRequest, RequestUnannounced, FinalizeInterruption, Wins, CopiesInv, CurrentAt,
                TypeInv, InterruptsOK
  <2>2. interrupt[p].pc \in {"request", "finalize"} /\ interrupt[p].run \in Runs
    BY <1>5, <2>1 DEF RecordRequest, RequestUnannounced, FinalizeInterruption, InterruptOK
  <2>3. PICK x \in {"requested", "cancelled", "failed"} :
          session' = [session EXCEPT !.interruptions[interrupt[p].run] = x]
    BY <1>5, <2>1 DEF RecordRequest, RequestUnannounced, FinalizeInterruption, Save, InterruptOK
  <2>4. Interrupts(p, x)
    BY <1>5, <2>1, <2>2, <2>3 DEF Interrupts, Interruption
  <2> QED BY <2>4, InterruptsAre
<1>6. CASE \E p \in StopCallers : StopStep(p) \/ StopCancelFails(p) \/ StopThrows(p)
  BY <1>3, <1>4, <1>6 DEF StopStep, StopRead, StopLoses, StopCancelRun, StopReadAgain,
       StopCancelFails, StopThrows, store
<1>7. CASE \E p \in Interrupters :
             \/ InterruptActiveRun(p) \/ InterruptStep(p)
             \/ RequestUnannounced(p) \/ InterruptCancelFails(p) \/ InterruptThrows(p)
  BY <1>3, <1>5, <1>7 DEF InterruptActiveRun, InterruptStep, ReadForRequest, InterruptCancelRun,
       ReadForVerdict, InterruptLoses, InterruptCancelFails, InterruptThrows, store
<1>8. CASE \/ CreatorThrows \/ CancelTimedOutFails \/ PromoteFails \/ DeliveryThrows \/ Crash
           \/ PublishFirstTurn \/ (\E r \in Runs : FinishRun(r)) \/ (\E t \in Turns : WindowExpires(t))
           \/ UNCHANGED vars
  BY <1>3, <1>8 DEF CreatorThrows, CancelTimedOutFails, PromoteFails, DeliveryThrows, Crash,
       PublishFirstTurn, FinishRun, WindowExpires, vars, store
<1> QED BY <1>2, <1>6, <1>7, <1>8 DEF Next, Trouble
=============================================================================
