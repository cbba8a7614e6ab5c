--------------------------- MODULE TaskLaunchProofs ---------------------------
(***************************************************************************)
(* The workspace of a lead agent under any number of requests, runs and    *)
(* troubles: nothing unwanted gets into it, and no accepted work gets out. *)
(* What the clients are told is true, the copies are cleaned up, and       *)
(* nobody waits for nothing.                                               *)
(***************************************************************************)
EXTENDS TaskLaunch, FiniteSetTheorems, TLAPS

Plans == {NoPlan} \cup UNION {Outputs[q] : q \in Requests}

RequestRecord ==
  [step : {"idle", "planning", "discarding", "creating", "publishing", "answered"},
   told : {"nothing", "error", "questions", "started"},
   brief : BOOLEAN, plan : Plans, made : Nat]

SessionRecord ==
  [status : SessionStatus, plan : Plans, accepted : Seq(Runs), attempts : 0..MaxAttempts]

CoordRecord ==
  [step : {"idle", "working", "committing", "discarding"},
   of : Requests \cup {NoRun}, run : Attempts \cup {NoRun}]

TypeInv ==
  /\ WorkspaceTypeOK
  /\ request \in [Requests -> RequestRecord]
  /\ session \in [Requests -> SessionRecord]
  /\ coord \in CoordRecord
  /\ coord.step # "idle" => coord.of \in Requests /\ coord.run \in Attempts

Beginning == {"unused", "copying", "admitting"}
Committing == {"saving", "promoting", "cleaning", "recording"}

Wanted(work) == \A r \in work : r \notin Requests /\ status[r] = "completed"

\* Wherever a directory is kept, its edits are wanted, except a run's own ones in
\* its copy; and a copy is on its way to its promotion only if these are, too.
WantedInv ==
  /\ Wanted(shared.work)
  /\ \A r \in Runs :
       /\ Wanted(backup[r].work)
       /\ Wanted(scratch[r].work \ {r})
       /\ op[r] \in Beginning => status[r] = "none"
       /\ op[r] \in Committing => Wanted({r})

\* The accepted work is in the shared workspace, or beside it while there is none.
Safe ==
  IF shared.there THEN AcceptedRuns \subseteq shared.work
  ELSE \E q \in Runs : AcceptedRuns \subseteq backup[q].work

\* Only the coordinator promotes, one copy at a time, and the copy in its hands
\* began with all accepted work.
InHand(r) == coord.step \in {"working", "committing"} /\ coord.run = r
HandInv ==
  \A r \in Runs :
    /\ op[r] \in Committing => coord.step = "committing" /\ coord.run = r
    /\ op[r] = "promoting" =>
         ~shared.there /\ backup[r].there /\ AcceptedRuns \subseteq backup[r].work
    /\ op[r] \in {"open", "saving", "promoting"} /\ status[r] = "completed" =>
         r \in scratch[r].work
    /\ InHand(r) /\ op[r] \in {"admitting", "open", "saving", "promoting"} =>
         scratch[r].there /\ AcceptedRuns \subseteq scratch[r].work
    /\ coord.step = "committing" /\ coord.run = r /\ op[r] \in {"cleaning", "recording", "committed"} =>
         shared.there /\ r \in shared.work

LaunchInv == TypeInv /\ WantedInv /\ Safe /\ HandInv

-----------------------------------------------------------------------------
(* Lemmas                                                                    *)

\* What is accepted is all that has been appended to the sessions' ledgers.
LEMMA SameAccepted ==
  ASSUME \A q \in Requests : session'[q].accepted = session[q].accepted
  PROVE  AcceptedRuns' = AcceptedRuns
BY DEF AcceptedRuns, Listed

LEMMA OneMoreAccepted ==
  ASSUME NEW s \in Seq(Runs), NEW r \in Runs
  PROVE  Append(s, r) \in Seq(Runs) /\ Listed(Append(s, r)) = Listed(s) \cup {r}
<1>1. Append(s, r) \in Seq(Runs) /\ Len(Append(s, r)) = Len(s) + 1
  OBVIOUS
<1>2. \A i \in 1..Len(s) : Append(s, r)[i] = s[i]
  OBVIOUS
<1>3. Append(s, r)[Len(s) + 1] = r
  OBVIOUS
<1>4. DOMAIN s = 1..Len(s) /\ DOMAIN Append(s, r) = 1..Len(s) + 1 /\ Len(s) \in Nat
  OBVIOUS
<1> QED BY <1>1, <1>2, <1>3, <1>4 DEF Listed

\* The invariant holds at first.
LEMMA LaunchInit == Init => LaunchInv
<1> SUFFICES ASSUME Init PROVE LaunchInv
  OBVIOUS
<1>1. TypeInv
  BY LaunchAssumption, WorkspaceAssumption
  DEF Init, WorkspaceInit, TypeInv, WorkspaceTypeOK, Directory, Dir, NoDir, OpStep, NoRequest,
      NoSession, Idle, RequestRecord, SessionRecord, SessionStatus, CoordRecord, Plans
<1>2. WantedInv
  BY DEF Init, WorkspaceInit, WantedInv, Wanted, Dir, NoDir, Beginning, Committing
<1>3. AcceptedRuns = {}
  BY DEF Init, AcceptedRuns, Listed, NoSession
<1>4. Safe
  BY <1>3 DEF Init, WorkspaceInit, Safe, Dir
<1>5. HandInv
  BY DEF Init, WorkspaceInit, HandInv, InHand, Committing, Idle
<1> QED BY <1>1, <1>2, <1>4, <1>5 DEF LaunchInv

\* A step that leaves the directories, the runs and the ledgers alone, and takes
\* no copy out of the coordinator's hands that is being promoted.
LEMMA RestStep ==
  ASSUME LaunchInv, UNCHANGED <<files, status, op>>,
         \A q \in Requests : session'[q].accepted = session[q].accepted,
         \/ coord' = coord
         \/ coord'.step = "idle" /\ (coord.step = "committing" => op[coord.run] \notin Committing)
  PROVE  WantedInv' /\ Safe' /\ HandInv'
<1>1. AcceptedRuns' = AcceptedRuns
  BY SameAccepted
<1>2. WantedInv'
  BY DEF LaunchInv, WantedInv, Wanted, files
<1>3. Safe'
  BY <1>1 DEF LaunchInv, Safe, files
<1>4. HandInv'
  BY <1>1 DEF LaunchInv, HandInv, InHand, files
<1> QED BY <1>2, <1>3, <1>4

-----------------------------------------------------------------------------
(* The request                                                               *)

LEMMA RequestStays ==
  ASSUME LaunchInv, NEW q \in Requests, UNCHANGED <<files, txn, status, op, coord>>,
         trouble' \in 0..MaxTrouble,
         \/ session' = session
         \/ \E s \in SessionRecord :
              s.accepted = session[q].accepted /\ session' = [session EXCEPT ![q] = s],
         request' \in [Requests -> RequestRecord]
  PROVE  LaunchInv'
<1>1. session' \in [Requests -> SessionRecord]
  /\ \A p \in Requests : session'[p].accepted = session[p].accepted
  BY DEF LaunchInv, TypeInv
<1>2. WorkspaceTypeOK'
  BY DEF LaunchInv, TypeInv, WorkspaceTypeOK, files
<1>3. TypeInv'
  BY <1>1, <1>2 DEF LaunchInv, TypeInv
<1> QED BY <1>1, <1>3, RestStep DEF LaunchInv, files

LEMMA RequestMoves ==
  ASSUME TypeInv, NEW q \in Requests
  PROVE  /\ \A how \in {"error", "questions", "started"} :
              Answer(q, how) => request' \in [Requests -> RequestRecord]
         /\ \A step \in {"creating", "publishing"} :
              Reaches(q, step) => request' \in [Requests -> RequestRecord]
         /\ request[q] \in RequestRecord /\ session[q] \in SessionRecord
         /\ NoPlan \in Plans /\ Outputs[q] \subseteq Plans
<1>1. NoRequest \in RequestRecord /\ NoPlan \in Plans
  BY DEF NoRequest, RequestRecord, Plans
<1>2. \A how \in {"error", "questions", "started"} :
        [NoRequest EXCEPT !.step = "answered", !.told = how] \in RequestRecord
  BY <1>1 DEF RequestRecord
<1>3. \A step \in {"creating", "publishing"} :
        [request[q] EXCEPT !.step = step] \in RequestRecord
  BY DEF TypeInv, RequestRecord
<1> QED BY <1>1, <1>2, <1>3 DEF TypeInv, Answer, Reaches, Plans

LEMMA AnsweringKeeps ==
  ASSUME LaunchInv, NEW q \in Requests
  PROVE  /\ PlanRefused(q) => LaunchInv'
         /\ PlanParsed(q) => LaunchInv'
         /\ SessionRefused(q) => LaunchInv'
         /\ LaunchFails(q) => LaunchInv'
<1>1. TypeInv /\ trouble \in 0..MaxTrouble
  BY DEF LaunchInv, TypeInv, WorkspaceTypeOK
<1>2. Trouble => trouble' \in 0..MaxTrouble
  BY <1>1, WorkspaceAssumption DEF Trouble
<1>3. PlanRefused(q) => LaunchInv'
  BY <1>1, RequestMoves, RequestStays DEF PlanRefused, workspaceVars, files
<1>4. PlanParsed(q) => LaunchInv'
  BY <1>1, RequestMoves, RequestStays DEF PlanParsed, workspaceVars, files
<1>5. SessionRefused(q) => LaunchInv'
  BY <1>1, RequestMoves, RequestStays DEF SessionRefused, workspaceVars, files
<1>6. LaunchFails(q) => LaunchInv'
  BY <1>1, <1>2, RequestMoves, RequestStays DEF LaunchFails, files
<1> QED BY <1>3, <1>4, <1>5, <1>6

LEMMA MakingKeeps ==
  ASSUME LaunchInv, NEW q \in Requests
  PROVE  /\ CreateWorker(q) => LaunchInv'
         /\ StoreSession(q) => LaunchInv'
         /\ Publish(q) => LaunchInv'
<1>1. TypeInv /\ trouble \in 0..MaxTrouble
  BY DEF LaunchInv, TypeInv, WorkspaceTypeOK
<1>2. request[q] \in RequestRecord /\ session[q] \in SessionRecord
  BY <1>1, RequestMoves
<1>3. CreateWorker(q) => LaunchInv'
  <2>1. [request[q] EXCEPT !.made = request[q].made + 1] \in RequestRecord
    BY <1>2 DEF RequestRecord
  <2>2. CreateWorker(q) => request' \in [Requests -> RequestRecord]
    BY <1>1, <2>1 DEF CreateWorker, TypeInv
  <2> QED BY <1>1, <2>2, RequestStays DEF CreateWorker, workspaceVars, files
<1>4. StoreSession(q) => LaunchInv'
  <2> DEFINE s == [session[q] EXCEPT !.status = "stored", !.plan = request[q].plan]
  <2>1. s \in SessionRecord /\ s.accepted = session[q].accepted
    BY <1>2 DEF SessionRecord, SessionStatus, RequestRecord
  <2>2. StoreSession(q) => session' = [session EXCEPT ![q] = s]
    BY <1>1 DEF StoreSession, TypeInv
  <2> HIDE DEF s
  <2> QED BY <1>1, <2>1, <2>2, RequestMoves, RequestStays DEF StoreSession, workspaceVars, files
<1>5. Publish(q) => LaunchInv'
  <2> DEFINE s == [session[q] EXCEPT !.status = "running"]
  <2>1. s \in SessionRecord /\ s.accepted = session[q].accepted
    BY <1>2 DEF SessionRecord, SessionStatus
  <2>2. Publish(q) => session' = [session EXCEPT ![q] = s]
    BY <1>1 DEF Publish, TypeInv
  <2> HIDE DEF s
  <2> QED BY <1>1, <2>1, <2>2, RequestMoves, RequestStays DEF Publish, workspaceVars, files
<1> QED BY <1>3, <1>4, <1>5

\* The planning run: its copy is opened, and discarded or left.
LEMMA PlanningKeeps ==
  ASSUME LaunchInv, NEW q \in Requests
  PROVE  /\ Submit(q) => LaunchInv'
         /\ PlanEnds(q) => LaunchInv'
         /\ PlanTimesOut(q) => LaunchInv'
<1>1. TypeInv /\ q \in Runs
  BY LaunchAssumption DEF LaunchInv
<1>2. request[q] \in RequestRecord /\ NoPlan \in Plans /\ Outputs[q] \subseteq Plans
  BY <1>1, RequestMoves
<1>3. ASSUME Submit(q) PROVE LaunchInv'
  <2>1. request' \in [Requests -> RequestRecord]
    <3>1. \A brief \in BOOLEAN :
            [request[q] EXCEPT !.step = "planning", !.brief = brief] \in RequestRecord
      BY <1>2 DEF RequestRecord
    <3> QED BY <1>1, <1>3, <3>1 DEF Submit, TypeInv
  <2>2. TypeInv'
    BY <1>1, <1>3, <2>1 DEF Submit, OpenCopy, Becomes, TypeInv, WorkspaceTypeOK, OpStep, files
  <2>3. WantedInv'
    BY <1>1, <1>3 DEF LaunchInv, Submit, OpenCopy, Becomes, TypeInv, WorkspaceTypeOK, files,
                       WantedInv, Wanted, Beginning, Committing
  <2>4. AcceptedRuns' = AcceptedRuns
    BY <1>3, SameAccepted DEF Submit
  <2>5. Safe'
    BY <1>3, <2>4 DEF LaunchInv, Submit, OpenCopy, Safe, files
  <2>6. HandInv'
    BY <1>1, <1>3, <2>4 DEF LaunchInv, Submit, OpenCopy, Becomes, TypeInv, WorkspaceTypeOK, files,
                             HandInv, InHand, Committing
  <2> QED BY <2>2, <2>3, <2>5, <2>6 DEF LaunchInv
<1>4. ASSUME PlanEnds(q) PROVE LaunchInv'
  <2>1. request' \in [Requests -> RequestRecord]
    <3>1. \A plan \in Plans :
            [request[q] EXCEPT !.step = "discarding", !.plan = plan] \in RequestRecord
      BY <1>2 DEF RequestRecord
    <3>2. PICK plan \in Plans :
            request' = [request EXCEPT ![q].step = "discarding", ![q].plan = plan]
      BY <1>2, <1>4 DEF PlanEnds
    <3>3. request' = [request EXCEPT ![q] = [request[q] EXCEPT !.step = "discarding", !.plan = plan]]
      BY <1>1, <3>2 DEF TypeInv
    <3> QED BY <1>1, <3>1, <3>3 DEF TypeInv
  <2>2. TypeInv'
    BY <1>1, <1>4, <2>1 DEF PlanEnds, DiscardCopy, Becomes, TypeInv, WorkspaceTypeOK, OpStep,
         files
  <2>3. WantedInv'
    BY <1>1, <1>4 DEF LaunchInv, PlanEnds, DiscardCopy, Becomes, TypeInv, WorkspaceTypeOK, files,
                       WantedInv, Wanted, Beginning, Committing
  <2>4. AcceptedRuns' = AcceptedRuns
    BY <1>4, SameAccepted DEF PlanEnds
  <2>5. Safe'
    BY <1>4, <2>4 DEF LaunchInv, PlanEnds, DiscardCopy, Safe, files
  <2>6. HandInv'
    BY <1>1, <1>4, <2>4 DEF LaunchInv, PlanEnds, DiscardCopy, Becomes, TypeInv, WorkspaceTypeOK,
                             files, HandInv, InHand, Committing
  <2> QED BY <2>2, <2>3, <2>5, <2>6 DEF LaunchInv
<1>5. ASSUME PlanTimesOut(q) PROVE LaunchInv'
  <2>1. request' \in [Requests -> RequestRecord]
    BY <1>1, <1>5, RequestMoves DEF PlanTimesOut
  <2>2. TypeInv'
    BY <1>1, <1>5, <2>1 DEF PlanTimesOut, TypeInv, WorkspaceTypeOK, files
  <2>3. WantedInv'
    BY <1>1, <1>5 DEF LaunchInv, PlanTimesOut, TypeInv, WorkspaceTypeOK, files,
                       WantedInv, Wanted, Beginning, Committing
  <2>4. AcceptedRuns' = AcceptedRuns
    BY <1>5, SameAccepted DEF PlanTimesOut
  <2>5. Safe'
    BY <1>5, <2>4 DEF LaunchInv, PlanTimesOut, Safe, files
  <2>6. HandInv'
    BY <1>1, <1>5, <2>4 DEF LaunchInv, PlanTimesOut, TypeInv, WorkspaceTypeOK, files, HandInv,
         InHand
  <2> QED BY <2>2, <2>3, <2>5, <2>6 DEF LaunchInv
<1> QED BY <1>3, <1>4, <1>5

-----------------------------------------------------------------------------
(* The coordinator                                                           *)

LEMMA SessionMoves ==
  ASSUME TypeInv, NEW q \in Requests, NEW done
  PROVE  /\ session' = Ends(q, done) =>
              /\ session' \in [Requests -> SessionRecord]
              /\ \A p \in Requests : session'[p].accepted = session[p].accepted
<1>1. session[q] \in SessionRecord
  BY DEF TypeInv
<1> DEFINE s == [session[q] EXCEPT !.status = IF done THEN "ended" ELSE @]
<1>2. s \in SessionRecord /\ s.accepted = session[q].accepted
  BY <1>1 DEF SessionRecord, SessionStatus
<1>3. Ends(q, done) = [session EXCEPT ![q] = s]
  BY DEF TypeInv, Ends
<1> HIDE DEF s
<1> QED BY <1>2, <1>3 DEF TypeInv

\* The loop lets go of a run without having promoted its copy.
LEMMA CoordinatorLetsGo ==
  ASSUME LaunchInv, coord' = Idle, UNCHANGED <<files, txn, status, op, request>>,
         trouble' \in 0..MaxTrouble,
         session' \in [Requests -> SessionRecord],
         \A p \in Requests : session'[p].accepted = session[p].accepted,
         coord.step = "committing" => op[coord.run] \notin Committing
  PROVE  LaunchInv'
<1>1. TypeInv'
  BY DEF LaunchInv, TypeInv, WorkspaceTypeOK, files, CoordRecord, Idle
<1>2. coord'.step = "idle"
  BY DEF Idle
<1> QED BY <1>1, <1>2, RestStep DEF LaunchInv, files

LEMMA EndingKeeps ==
  ASSUME LaunchInv
  PROVE  /\ \A q \in Requests : TurnExhausted(q) => LaunchInv'
         /\ WorkRefused => LaunchInv'
         /\ JobFails => LaunchInv'
         /\ WorkDiscarded => LaunchInv'
         /\ AcceptLost => LaunchInv'
<1>1. TypeInv /\ trouble \in 0..MaxTrouble
  BY DEF LaunchInv, TypeInv, WorkspaceTypeOK
<1>2. Trouble => trouble' \in 0..MaxTrouble
  BY <1>1, WorkspaceAssumption DEF Trouble
<1>3. coord.step # "idle" => coord.of \in Requests
  BY <1>1 DEF TypeInv
<1>4. ASSUME NEW q \in Requests, TurnExhausted(q) PROVE LaunchInv'
  <2>1. session' \in [Requests -> SessionRecord]
        /\ \A p \in Requests : session'[p].accepted = session[p].accepted
    BY <1>1, <1>4, SessionMoves DEF TurnExhausted
  <2>2. TypeInv'
    BY <1>1, <1>4, <2>1 DEF TurnExhausted, TypeInv, WorkspaceTypeOK, workspaceVars, files
  <2> QED BY <1>4, <2>1, <2>2, RestStep DEF LaunchInv, TurnExhausted, workspaceVars, files
<1>5. WorkRefused => LaunchInv'
  BY <1>1, <1>3, SessionMoves, CoordinatorLetsGo DEF WorkRefused, workspaceVars, files, GivesUp
<1>6. JobFails => LaunchInv'
  BY <1>1, <1>3, SessionMoves, CoordinatorLetsGo
  DEF JobFails, WorkIsUseless, workspaceVars, files, Committing
<1>7. WorkDiscarded => LaunchInv'
  BY <1>1, CoordinatorLetsGo DEF WorkDiscarded, workspaceVars, files, TypeInv
<1>8. AcceptLost => LaunchInv'
  BY <1>1, <1>2, <1>3, SessionMoves, CoordinatorLetsGo DEF AcceptLost, files, Committing
<1> QED BY <1>4, <1>5, <1>6, <1>7, <1>8

LEMMA TakeTurnKeeps ==
  ASSUME LaunchInv, NEW q \in Requests, TakeTurn(q)
  PROVE  LaunchInv'
<1>1. TypeInv /\ session[q] \in SessionRecord
  BY DEF LaunchInv, TypeInv
<1>2. NextRun \in Attempts /\ NextRun \in Runs /\ op[NextRun] = "unused"
  BY DEF TakeTurn, NextRun, Unused, Attempts
<1> DEFINE s == [session[q] EXCEPT !.attempts = session[q].attempts + 1]
<1>3. s \in SessionRecord /\ s.accepted = session[q].accepted
  <2>1. session[q].attempts \in 0..MaxAttempts /\ session[q].attempts < MaxAttempts
    BY <1>1, LaunchAssumption DEF TakeTurn, GivesUp, SessionRecord
  <2>2. session[q].attempts + 1 \in 0..MaxAttempts
    BY <2>1, LaunchAssumption
  <2> QED BY <1>1, <2>2 DEF SessionRecord
<1>4. session' = [session EXCEPT ![q] = s]
  BY <1>1 DEF TakeTurn, TypeInv
<1> HIDE DEF s
<1>5. session' \in [Requests -> SessionRecord] /\ AcceptedRuns' = AcceptedRuns
  BY <1>1, <1>3, <1>4, SameAccepted DEF TypeInv
<1>6. TypeInv'
  BY <1>1, <1>2, <1>5
  DEF TakeTurn, OpenCopy, Becomes, TypeInv, WorkspaceTypeOK, OpStep, files, CoordRecord
<1>7. WantedInv'
  BY <1>1, <1>2 DEF LaunchInv, TakeTurn, OpenCopy, Becomes, TypeInv, WorkspaceTypeOK, files,
                     WantedInv, Wanted, Beginning, Committing
<1>8. Safe'
  BY <1>5 DEF LaunchInv, TakeTurn, OpenCopy, Safe, files
<1>9. HandInv'
  BY <1>1, <1>2, <1>5 DEF LaunchInv, TakeTurn, OpenCopy, Becomes, TypeInv, WorkspaceTypeOK, files,
                           HandInv, InHand, Committing
<1> QED BY <1>6, <1>7, <1>8, <1>9 DEF LaunchInv

LEMMA WorkPassesKeeps ==
  ASSUME LaunchInv, WorkPasses
  PROVE  LaunchInv'
<1>1. TypeInv /\ coord.run \in Attempts /\ coord.run \in Runs
  BY DEF LaunchInv, TypeInv, WorkPasses, Attempts
<1>2. AcceptedRuns' = AcceptedRuns
  BY SameAccepted DEF WorkPasses
<1>3. TypeInv'
  BY <1>1
  DEF WorkPasses, CommitCopy, Becomes, TypeInv, WorkspaceTypeOK, OpStep, files, CoordRecord
<1>4. WantedInv'
  BY <1>1 DEF LaunchInv, WorkPasses, CommitCopy, Committable, Becomes, TypeInv, WorkspaceTypeOK,
               files, WantedInv, Wanted, Beginning, Committing, Attempts
<1>5. Safe'
  BY <1>2 DEF LaunchInv, WorkPasses, CommitCopy, Safe, files
<1>6. HandInv'
  BY <1>1, <1>2 DEF LaunchInv, WorkPasses, CommitCopy, Becomes, TypeInv, WorkspaceTypeOK,
                     files, HandInv, InHand, Committing, CoordRecord
<1> QED BY <1>3, <1>4, <1>5, <1>6 DEF LaunchInv

LEMMA WorkFailsKeeps ==
  ASSUME LaunchInv, WorkFails
  PROVE  LaunchInv'
<1>1. TypeInv /\ coord.run \in Attempts /\ coord.run \in Runs
  BY DEF LaunchInv, TypeInv, WorkFails, WorkIsUseless, Attempts
<1>2. AcceptedRuns' = AcceptedRuns
  BY SameAccepted DEF WorkFails
<1>3. TypeInv'
  BY <1>1 DEF WorkFails, WorkIsUseless, DiscardCopy, Becomes, TypeInv, WorkspaceTypeOK, OpStep,
               files, CoordRecord
<1>4. WantedInv'
  BY <1>1 DEF LaunchInv, WorkFails, DiscardCopy, Becomes, TypeInv, WorkspaceTypeOK,
               files, WantedInv, Wanted, Beginning, Committing
<1>5. Safe'
  BY <1>2 DEF LaunchInv, WorkFails, DiscardCopy, Safe, files
<1>6. HandInv'
  BY <1>1, <1>2 DEF LaunchInv, WorkFails, DiscardCopy, Becomes, TypeInv, WorkspaceTypeOK,
                     files, HandInv, InHand, Committing, CoordRecord
<1> QED BY <1>3, <1>4, <1>5, <1>6 DEF LaunchInv

\* The run whose edits have just reached the shared workspace joins the ledger.
LEMMA AcceptWorkKeeps ==
  ASSUME LaunchInv, AcceptWork
  PROVE  LaunchInv'
<1> DEFINE q == coord.of
           s == [session[q] EXCEPT !.accepted = Append(@, coord.run), !.attempts = 0]
           t == [s EXCEPT !.status = IF Len(s.accepted) = Len(s.plan.steps) THEN "ended" ELSE @]
<1>1. TypeInv /\ q \in Requests /\ coord.run \in Runs /\ session[q] \in SessionRecord
  BY DEF LaunchInv, TypeInv, AcceptWork, Attempts
<1>2. /\ Append(session[q].accepted, coord.run) \in Seq(Runs)
      /\ Listed(Append(session[q].accepted, coord.run)) = Listed(session[q].accepted) \cup {coord.run}
  BY <1>1, OneMoreAccepted DEF SessionRecord
<1>3. t \in SessionRecord /\ t.accepted = Append(session[q].accepted, coord.run)
  <2>1. s \in SessionRecord /\ s.accepted = Append(session[q].accepted, coord.run)
    <3>1. 0 \in 0..MaxAttempts
      BY LaunchAssumption
    <3>2. \A x \in Seq(Runs) :
            /\ [session[q] EXCEPT !.accepted = x, !.attempts = 0] \in SessionRecord
            /\ [session[q] EXCEPT !.accepted = x, !.attempts = 0].accepted = x
      BY <1>1, <3>1 DEF SessionRecord
    <3> QED BY <1>2, <3>2
  <2> HIDE DEF s
  <2> QED BY <2>1 DEF SessionRecord, SessionStatus
<1>4. session' = [session EXCEPT ![q] = t]
  BY DEF AcceptWork
<1> HIDE DEF s, t
<1>5. AcceptedRuns' \subseteq AcceptedRuns \cup {coord.run}
  BY <1>1, <1>2, <1>3, <1>4 DEF AcceptedRuns, TypeInv
<1>6. TypeInv'
  BY <1>1, <1>3, <1>4
  DEF AcceptWork, TypeInv, WorkspaceTypeOK, workspaceVars, files, CoordRecord, Idle
<1>7. WantedInv'
  BY DEF LaunchInv, AcceptWork, workspaceVars, files, WantedInv, Wanted
<1>8. shared.there /\ coord.run \in shared.work
  BY <1>1 DEF LaunchInv, AcceptWork, HandInv
<1>9. Safe'
  BY <1>5, <1>8 DEF LaunchInv, AcceptWork, workspaceVars, files, Safe
<1>10. HandInv'
  BY <1>1 DEF LaunchInv, AcceptWork, workspaceVars, files, HandInv, InHand, Committing, Idle
<1> QED BY <1>6, <1>7, <1>9, <1>10 DEF LaunchInv

-----------------------------------------------------------------------------
(* The copies                                                                *)

\* The part of the module that a file operation or a write leaves alone.
LEMMA LaunchStays ==
  ASSUME TypeInv, UNCHANGED launchVars, WorkspaceTypeOK'
  PROVE  TypeInv' /\ AcceptedRuns' = AcceptedRuns
<1>1. TypeInv'
  BY DEF TypeInv, launchVars
<1>2. AcceptedRuns' = AcceptedRuns
  BY SameAccepted DEF launchVars
<1> QED BY <1>1, <1>2

LEMMA Directories ==
  /\ NoDir \in Directory /\ Dir({}) \in Directory
  /\ ~NoDir.there /\ NoDir.work = {} /\ Dir({}).work = {}
  /\ \A d \in Directory, r \in Runs :
       /\ [d EXCEPT !.work = @ \cup {r}] \in Directory
       /\ [d EXCEPT !.work = @ \cup {r}].there = d.there
       /\ [d EXCEPT !.work = @ \cup {r}].work = d.work \cup {r}
BY DEF NoDir, Dir, Directory

\* A copy is complete: it begins with what is shared.
LEMMA CopiedKeeps ==
  ASSUME LaunchInv, NEW r \in Runs, Copied(r), UNCHANGED launchVars
  PROVE  LaunchInv'
<1>1. TypeInv /\ WorkspaceTypeOK
  BY DEF LaunchInv, TypeInv
<1>2. WorkspaceTypeOK'
  BY <1>1, Directories
  DEF Copied, Becomes, WorkspaceTypeOK, OpStep, files
<1>3. TypeInv' /\ AcceptedRuns' = AcceptedRuns
  BY <1>1, <1>2, LaunchStays
<1>4. WantedInv'
  BY <1>1, Directories
  DEF LaunchInv, Copied, Becomes, WorkspaceTypeOK, files, WantedInv,
      Wanted, Beginning, Committing
<1>5. Safe'
  BY <1>1, <1>3, Directories
  DEF LaunchInv, Copied, Becomes, WorkspaceTypeOK, files, Safe, HandInv,
      Committing, launchVars
<1>6. HandInv'
  BY <1>1, <1>3, Directories
  DEF LaunchInv, Copied, Becomes, WorkspaceTypeOK, files, Safe, HandInv,
      InHand, Committing, launchVars
<1> QED BY <1>3, <1>4, <1>5, <1>6 DEF LaunchInv

\* A copy that was not completed is never promoted.
LEMMA CopyFailsKeeps ==
  ASSUME LaunchInv, NEW r \in Runs, CopyFails(r), UNCHANGED launchVars
  PROVE  LaunchInv'
<1>1. TypeInv /\ WorkspaceTypeOK
  BY DEF LaunchInv, TypeInv
<1>2. WorkspaceTypeOK'
  BY <1>1, Directories, WorkspaceAssumption
  DEF CopyFails, Becomes, Trouble, WorkspaceTypeOK, OpStep, files
<1>3. TypeInv' /\ AcceptedRuns' = AcceptedRuns
  BY <1>1, <1>2, LaunchStays
<1>4. WantedInv'
  BY <1>1, Directories
  DEF LaunchInv, CopyFails, Becomes, WorkspaceTypeOK, files, WantedInv,
      Wanted, Beginning, Committing
<1>5. Safe'
  BY <1>1, <1>3, Directories
  DEF LaunchInv, CopyFails, Becomes, WorkspaceTypeOK, files, Safe, HandInv,
      Committing, launchVars
<1>6. HandInv'
  BY <1>1, <1>3, Directories
  DEF LaunchInv, CopyFails, Becomes, WorkspaceTypeOK, files, Safe, HandInv,
      InHand, Committing, launchVars
<1> QED BY <1>3, <1>4, <1>5, <1>6 DEF LaunchInv

\* The run of a copy that nobody has seen before begins.
LEMMA AdmitKeeps ==
  ASSUME LaunchInv, NEW r \in Runs, Admit(r), UNCHANGED launchVars
  PROVE  LaunchInv'
<1>1. TypeInv /\ WorkspaceTypeOK
  BY DEF LaunchInv, TypeInv
<1>2. WorkspaceTypeOK'
  BY <1>1
  DEF Admit, Becomes, WorkspaceTypeOK, OpStep, files
<1>3. TypeInv' /\ AcceptedRuns' = AcceptedRuns
  BY <1>1, <1>2, LaunchStays
<1>4. WantedInv'
  BY <1>1
  DEF LaunchInv, Admit, Becomes, WorkspaceTypeOK, files, WantedInv,
      Wanted, Beginning, Committing
<1>5. Safe'
  BY <1>3 DEF LaunchInv, Admit, files, Safe
<1>6. HandInv'
  BY <1>1, <1>3
  DEF LaunchInv, Admit, Becomes, WorkspaceTypeOK, files, Safe, HandInv,
      InHand, Committing, launchVars
<1> QED BY <1>3, <1>4, <1>5, <1>6 DEF LaunchInv

\* A copy nobody will use is removed.
LEMMA RefuseKeeps ==
  ASSUME LaunchInv, NEW r \in Runs, Refuse(r), UNCHANGED launchVars
  PROVE  LaunchInv'
<1>1. TypeInv /\ WorkspaceTypeOK
  BY DEF LaunchInv, TypeInv
<1>2. WorkspaceTypeOK'
  BY <1>1, Directories, WorkspaceAssumption
  DEF Refuse, Trouble, Becomes, WorkspaceTypeOK, OpStep, files
<1>3. TypeInv' /\ AcceptedRuns' = AcceptedRuns
  BY <1>1, <1>2, LaunchStays
<1>4. WantedInv'
  BY <1>1, Directories
  DEF LaunchInv, Refuse, Becomes, WorkspaceTypeOK, files, WantedInv,
      Wanted, Beginning, Committing
<1>5. Safe'
  BY <1>1, <1>3, Directories
  DEF LaunchInv, Refuse, Becomes, WorkspaceTypeOK, files, Safe, HandInv,
      Committing, launchVars
<1>6. HandInv'
  BY <1>1, <1>3, Directories
  DEF LaunchInv, Refuse, Becomes, WorkspaceTypeOK, files, Safe, HandInv,
      InHand, Committing, launchVars
<1> QED BY <1>3, <1>4, <1>5, <1>6 DEF LaunchInv

\* The shared workspace is put aside, with all that has been accepted.
LEMMA SaveKeeps ==
  ASSUME LaunchInv, NEW r \in Runs, Save(r), UNCHANGED launchVars
  PROVE  LaunchInv'
<1>1. TypeInv /\ WorkspaceTypeOK
  BY DEF LaunchInv, TypeInv
<1>2. WorkspaceTypeOK'
  BY <1>1, Directories
  DEF Save, Becomes, WorkspaceTypeOK, OpStep, files
<1>3. TypeInv' /\ AcceptedRuns' = AcceptedRuns
  BY <1>1, <1>2, LaunchStays
<1>4. WantedInv'
  BY <1>1, Directories
  DEF LaunchInv, Save, Becomes, WorkspaceTypeOK, files, WantedInv,
      Wanted, Beginning, Committing
<1>5. Safe'
  BY <1>1, <1>3, Directories
  DEF LaunchInv, Save, Becomes, WorkspaceTypeOK, files, Safe, HandInv,
      Committing, launchVars
<1>6. HandInv'
  BY <1>1, <1>3, Directories
  DEF LaunchInv, Save, Becomes, WorkspaceTypeOK, files, Safe, HandInv,
      InHand, Committing, launchVars
<1> QED BY <1>3, <1>4, <1>5, <1>6 DEF LaunchInv

\* The copy takes the place of what was put aside: it began with all accepted
\* work, and has the run's own edits.
LEMMA PromoteKeeps ==
  ASSUME LaunchInv, NEW r \in Runs, Promote(r), UNCHANGED launchVars
  PROVE  LaunchInv'
<1>1. TypeInv /\ WorkspaceTypeOK
  BY DEF LaunchInv, TypeInv
<1>2. WorkspaceTypeOK'
  BY <1>1, Directories DEF Promote, Becomes, WorkspaceTypeOK, OpStep, files
<1>3. TypeInv' /\ AcceptedRuns' = AcceptedRuns
  BY <1>1, <1>2, LaunchStays
<1>4. status[r] = "completed" /\ r \notin Requests
  BY DEF LaunchInv, WantedInv, Wanted, Committing, Promote
<1>5. coord.step = "committing" /\ coord.run = r
  BY DEF LaunchInv, HandInv, Committing, Promote
<1>6. scratch[r].there /\ r \in scratch[r].work /\ AcceptedRuns \subseteq scratch[r].work
  BY <1>4, <1>5 DEF LaunchInv, HandInv, InHand, Promote
<1>7. WantedInv'
  BY <1>1, <1>4, Directories
  DEF LaunchInv, Promote, Becomes, WorkspaceTypeOK, WantedInv,
      Wanted, Beginning, Committing
<1>8. Safe'
  BY <1>3, <1>6 DEF Promote, Safe
<1>9. HandInv'
  BY <1>1, <1>3, <1>5, <1>6
  DEF LaunchInv, Promote, Becomes, WorkspaceTypeOK, HandInv,
      InHand, Committing, launchVars
<1> QED BY <1>3, <1>7, <1>8, <1>9 DEF LaunchInv

\* The backup goes once the copy is in its place.
LEMMA CleanKeeps ==
  ASSUME LaunchInv, NEW r \in Runs, Clean(r), UNCHANGED launchVars
  PROVE  LaunchInv'
<1>1. TypeInv /\ WorkspaceTypeOK
  BY DEF LaunchInv, TypeInv
<1>2. WorkspaceTypeOK'
  BY <1>1, Directories
  DEF Clean, Becomes, WorkspaceTypeOK, OpStep, files
<1>3. TypeInv' /\ AcceptedRuns' = AcceptedRuns
  BY <1>1, <1>2, LaunchStays
<1>4. WantedInv'
  BY <1>1, Directories
  DEF LaunchInv, Clean, Becomes, WorkspaceTypeOK, files, WantedInv,
      Wanted, Beginning, Committing
<1>5. Safe'
  BY <1>1, <1>3, Directories
  DEF LaunchInv, Clean, Becomes, WorkspaceTypeOK, files, Safe, HandInv,
      Committing, launchVars
<1>6. HandInv'
  BY <1>1, <1>3, Directories
  DEF LaunchInv, Clean, Becomes, WorkspaceTypeOK, files, Safe, HandInv,
      InHand, Committing, launchVars
<1> QED BY <1>3, <1>4, <1>5, <1>6 DEF LaunchInv

\* The promotion is noted.
LEMMA RecordCommitKeeps ==
  ASSUME LaunchInv, NEW r \in Runs, RecordCommit(r), UNCHANGED launchVars
  PROVE  LaunchInv'
<1>1. TypeInv /\ WorkspaceTypeOK
  BY DEF LaunchInv, TypeInv
<1>2. WorkspaceTypeOK'
  BY <1>1
  DEF RecordCommit, Becomes, WorkspaceTypeOK, OpStep, files
<1>3. TypeInv' /\ AcceptedRuns' = AcceptedRuns
  BY <1>1, <1>2, LaunchStays
<1>4. WantedInv'
  BY <1>1
  DEF LaunchInv, RecordCommit, Becomes, WorkspaceTypeOK, files, WantedInv,
      Wanted, Beginning, Committing
<1>5. Safe'
  BY <1>3 DEF LaunchInv, RecordCommit, files, Safe
<1>6. HandInv'
  BY <1>1, <1>3
  DEF LaunchInv, RecordCommit, Becomes, WorkspaceTypeOK, files, Safe, HandInv,
      InHand, Committing, launchVars
<1> QED BY <1>3, <1>4, <1>5, <1>6 DEF LaunchInv

\* A promotion that fails leaves the backup aside or puts it back.
LEMMA CommitFailsKeeps ==
  ASSUME LaunchInv, NEW r \in Runs, CommitFails(r), UNCHANGED launchVars
  PROVE  LaunchInv'
<1>1. TypeInv /\ WorkspaceTypeOK
  BY DEF LaunchInv, TypeInv
<1>2. WorkspaceTypeOK'
  BY <1>1, Directories, WorkspaceAssumption
  DEF CommitFails, Becomes, Trouble, WorkspaceTypeOK, OpStep, files
<1>3. TypeInv' /\ AcceptedRuns' = AcceptedRuns
  BY <1>1, <1>2, LaunchStays
<1>4. WantedInv'
  BY <1>1, Directories
  DEF LaunchInv, CommitFails, Becomes, WorkspaceTypeOK, files, WantedInv,
      Wanted, Beginning, Committing
<1>5. Safe'
  BY <1>1, <1>3, Directories
  DEF LaunchInv, CommitFails, Becomes, WorkspaceTypeOK, files, Safe, HandInv,
      Committing, launchVars
<1>6. HandInv'
  BY <1>1, <1>3, Directories
  DEF LaunchInv, CommitFails, Becomes, WorkspaceTypeOK, files, Safe, HandInv,
      InHand, Committing, launchVars
<1> QED BY <1>3, <1>4, <1>5, <1>6 DEF LaunchInv

\* A copy that is discarded is in nobody's hands any more.
LEMMA RemoveKeeps ==
  ASSUME LaunchInv, NEW r \in Runs, Remove(r), UNCHANGED launchVars
  PROVE  LaunchInv'
<1>1. TypeInv /\ WorkspaceTypeOK
  BY DEF LaunchInv, TypeInv
<1>2. WorkspaceTypeOK'
  BY <1>1, Directories
  DEF Remove, Becomes, WorkspaceTypeOK, OpStep, files
<1>3. TypeInv' /\ AcceptedRuns' = AcceptedRuns
  BY <1>1, <1>2, LaunchStays
<1>4. WantedInv'
  BY <1>1, Directories
  DEF LaunchInv, Remove, Becomes, WorkspaceTypeOK, files, WantedInv,
      Wanted, Beginning, Committing
<1>5. Safe'
  BY <1>1, <1>3, Directories
  DEF LaunchInv, Remove, Becomes, WorkspaceTypeOK, files, Safe, HandInv,
      Committing, launchVars
<1>6. HandInv'
  BY <1>1, <1>3, Directories
  DEF LaunchInv, Remove, Becomes, WorkspaceTypeOK, files, Safe, HandInv,
      InHand, Committing, launchVars
<1> QED BY <1>3, <1>4, <1>5, <1>6 DEF LaunchInv

\* The discard is noted.
LEMMA NoteDiscardKeeps ==
  ASSUME LaunchInv, NEW r \in Runs, NoteDiscard(r), UNCHANGED launchVars
  PROVE  LaunchInv'
<1>1. TypeInv /\ WorkspaceTypeOK
  BY DEF LaunchInv, TypeInv
<1>2. WorkspaceTypeOK'
  BY <1>1
  DEF NoteDiscard, Becomes, WorkspaceTypeOK, OpStep, files
<1>3. TypeInv' /\ AcceptedRuns' = AcceptedRuns
  BY <1>1, <1>2, LaunchStays
<1>4. WantedInv'
  BY <1>1
  DEF LaunchInv, NoteDiscard, Becomes, WorkspaceTypeOK, files, WantedInv,
      Wanted, Beginning, Committing
<1>5. Safe'
  BY <1>3 DEF LaunchInv, NoteDiscard, files, Safe
<1>6. HandInv'
  BY <1>1, <1>3
  DEF LaunchInv, NoteDiscard, Becomes, WorkspaceTypeOK, files, Safe, HandInv,
      InHand, Committing, launchVars
<1> QED BY <1>3, <1>4, <1>5, <1>6 DEF LaunchInv

\* The discard fails.
LEMMA DiscardFailsKeeps ==
  ASSUME LaunchInv, NEW r \in Runs, DiscardFails(r), UNCHANGED launchVars
  PROVE  LaunchInv'
<1>1. TypeInv /\ WorkspaceTypeOK
  BY DEF LaunchInv, TypeInv
<1>2. WorkspaceTypeOK'
  BY <1>1, WorkspaceAssumption
  DEF DiscardFails, Becomes, Trouble, WorkspaceTypeOK, OpStep, files
<1>3. TypeInv' /\ AcceptedRuns' = AcceptedRuns
  BY <1>1, <1>2, LaunchStays
<1>4. WantedInv'
  BY <1>1
  DEF LaunchInv, DiscardFails, Becomes, WorkspaceTypeOK, files, WantedInv,
      Wanted, Beginning, Committing
<1>5. Safe'
  BY <1>3 DEF LaunchInv, DiscardFails, files, Safe
<1>6. HandInv'
  BY <1>1, <1>3
  DEF LaunchInv, DiscardFails, Becomes, WorkspaceTypeOK, files, Safe, HandInv,
      InHand, Committing, launchVars
<1> QED BY <1>3, <1>4, <1>5, <1>6 DEF LaunchInv

\* A run ends, with its edits in its own copy.
LEMMA RunEndsKeeps ==
  ASSUME LaunchInv, NEW r \in Runs, RunEnds(r), UNCHANGED launchVars
  PROVE  LaunchInv'
<1>1. TypeInv /\ WorkspaceTypeOK
  BY DEF LaunchInv, TypeInv
<1>2. PICK how \in {"completed", "ended"} :
        /\ status' = [status EXCEPT ![r] = how]
        /\ scratch' = [scratch EXCEPT ![r] = [scratch[r] EXCEPT !.work = @ \cup {r}]]
  BY <1>1 DEF RunEnds, WorkspaceTypeOK
<1> DEFINE d == [scratch[r] EXCEPT !.work = @ \cup {r}]
<1>3. d \in Directory /\ d.there = scratch[r].there /\ d.work = scratch[r].work \cup {r}
  BY <1>1, Directories DEF WorkspaceTypeOK
<1>4. scratch' = [scratch EXCEPT ![r] = d]
  BY <1>2
<1> HIDE DEF d
<1>5. WorkspaceTypeOK'
  BY <1>1, <1>2, <1>3, <1>4 DEF RunEnds, WorkspaceTypeOK
<1>6. TypeInv' /\ AcceptedRuns' = AcceptedRuns
  BY <1>1, <1>5, LaunchStays
<1>7. WantedInv'
  BY <1>1, <1>2, <1>3, <1>4
  DEF LaunchInv, RunEnds, WorkspaceTypeOK, WantedInv,
      Wanted, Beginning, Committing
<1>8. Safe'
  BY <1>6 DEF LaunchInv, RunEnds, Safe
<1>9. HandInv'
  BY <1>1, <1>2, <1>3, <1>6, <1>4
  DEF LaunchInv, RunEnds, WorkspaceTypeOK, HandInv,
      InHand, Committing, launchVars
<1> QED BY <1>6, <1>7, <1>8, <1>9 DEF LaunchInv

\* A restart removes the copies it knows of, and nothing is in anybody's hands.
LEMMA CrashKeeps ==
  ASSUME LaunchInv, Crash
  PROVE  LaunchInv'
<1>1. TypeInv /\ WorkspaceTypeOK
  BY DEF LaunchInv, TypeInv
<1>2. CrashRestart
  BY DEF Crash
<1>3. WorkspaceTypeOK'
  <2>1. shared' \in Directory /\ backup' \in [Runs -> Directory]
    BY <1>1, <1>2 DEF CrashRestart, WorkspaceTypeOK
  <2>2. scratch' \in [Runs -> Directory]
    BY <1>1, <1>2, Directories DEF CrashRestart, WorkspaceTypeOK
  <2>3. txn' \in [Runs -> {"none", "open", "committed", "discarded"}]
    BY <1>1, <1>2 DEF CrashRestart, WorkspaceTypeOK
  <2>4. status' \in [Runs -> {"none", "running", "completed", "ended"}]
    BY <1>1, <1>2 DEF CrashRestart, WorkspaceTypeOK
  <2>5. op' \in [Runs -> OpStep]
    BY <1>1, <1>2 DEF CrashRestart, WorkspaceTypeOK, OpStep
  <2>6. trouble' \in 0..MaxTrouble
    BY <1>1, <1>2, WorkspaceAssumption DEF CrashRestart, Trouble, WorkspaceTypeOK
  <2> QED BY <2>1, <2>2, <2>3, <2>4, <2>5, <2>6 DEF WorkspaceTypeOK
<1>4. request' \in [Requests -> RequestRecord]
  <2>1. \A q \in Requests :
          [request[q] EXCEPT !.step = "answered", !.told = "error"] \in RequestRecord
    BY <1>1 DEF TypeInv, RequestRecord
  <2> QED BY <1>1, <2>1 DEF Crash, TypeInv
<1>5. /\ session' \in [Requests -> SessionRecord]
      /\ \A q \in Requests : session'[q].accepted = session[q].accepted
  <2> DEFINE s(q) == [session[q] EXCEPT !.status = IF @ = "stored" THEN "running" ELSE @]
  <2>1. \A q \in Requests : s(q) \in SessionRecord /\ s(q).accepted = session[q].accepted
    BY <1>1 DEF TypeInv, SessionRecord, SessionStatus
  <2>2. session' = [q \in Requests |-> s(q)]
    BY DEF Crash
  <2> HIDE DEF s
  <2> QED BY <2>1, <2>2
<1>6. TypeInv'
  BY <1>3, <1>4, <1>5 DEF Crash, TypeInv, CoordRecord, Idle
<1>7. AcceptedRuns' = AcceptedRuns
  BY <1>5, SameAccepted
<1>8. WantedInv'
  <2>1. \A r \in Runs : status[r] \in {"none", "completed"} => status'[r] = status[r]
    BY <1>2 DEF CrashRestart
  <2>2. \A r \in Runs : scratch'[r] = scratch[r] \/ scratch'[r].work = {}
    BY <1>2, Directories DEF CrashRestart
  <2>3. \A r \in Runs : (op'[r] = op[r] /\ op[r] = "unused") \/ op'[r] = "over"
    BY <1>2 DEF CrashRestart
  <2>4. shared.work \subseteq Runs
        /\ \A r \in Runs : scratch[r].work \subseteq Runs /\ backup[r].work \subseteq Runs
    BY <1>1 DEF WorkspaceTypeOK, Directory
  <2> QED BY <1>2, <2>1, <2>2, <2>3, <2>4
          DEF LaunchInv, CrashRestart, WantedInv,
              Wanted, Beginning, Committing
<1>9. Safe'
  BY <1>7 DEF LaunchInv, Crash, CrashRestart, Safe
<1>10. HandInv'
  BY DEF Crash, CrashRestart, HandInv, InHand, Committing, Idle
<1> QED BY <1>6, <1>8, <1>9, <1>10 DEF LaunchInv

-----------------------------------------------------------------------------
(* The theorems                                                              *)

LEMMA LaunchNext == LaunchInv /\ [Next]_vars => LaunchInv'
<1> SUFFICES ASSUME LaunchInv, [Next]_vars PROVE LaunchInv'
  OBVIOUS
<1>1. CASE \E q \in Requests : Submit(q) \/ RequestStep(q) \/ LaunchFails(q)
  BY <1>1, AnsweringKeeps, MakingKeeps, PlanningKeeps DEF RequestStep
<1>2. CASE CoordinatorStep
  BY <1>2, EndingKeeps, TakeTurnKeeps, WorkPassesKeeps, WorkFailsKeeps, AcceptWorkKeeps
  DEF CoordinatorStep
<1>3. CASE AcceptLost
  BY <1>3, EndingKeeps
<1>4. CASE CopyStep
  <2>1. UNCHANGED launchVars /\ \E r \in Runs : Proceed(r) \/ Admit(r) \/ Refuse(r) \/ RunEnds(r)
    BY <1>4 DEF CopyStep, Admitted, Refused
  <2> QED BY <2>1, CopiedKeeps, SaveKeeps, PromoteKeeps, CleanKeeps, RecordCommitKeeps,
             RemoveKeeps, NoteDiscardKeeps, AdmitKeeps, RefuseKeeps, RunEndsKeeps DEF Proceed
<1>5. CASE (\E r \in Runs : Stumble(r)) /\ UNCHANGED launchVars
  BY <1>5, CopyFailsKeeps, CommitFailsKeeps, DiscardFailsKeeps DEF Stumble
<1>6. CASE Crash
  BY <1>6, CrashKeeps
<1>7. CASE UNCHANGED vars
  <2>1. TypeInv'
    BY <1>7 DEF LaunchInv, TypeInv, WorkspaceTypeOK, vars, workspaceVars, files, launchVars
  <2>2. WantedInv' /\ Safe' /\ HandInv'
    BY <1>7, RestStep DEF vars, workspaceVars, launchVars, files
  <2> QED BY <2>1, <2>2 DEF LaunchInv
<1> QED BY <1>1, <1>2, <1>3, <1>4, <1>5, <1>6, <1>7 DEF Next

\* Type correctness.
THEOREM LaunchTypeCorrect == Spec => []TypeOK
<1>1. TypeInv => TypeOK
  BY DEF TypeInv, TypeOK, RequestRecord, SessionRecord, CoordRecord
<1>2. LaunchInv => TypeOK
  BY <1>1 DEF LaunchInv
<1> QED BY LaunchInit, LaunchNext, <1>2, PTL DEF Spec

\* The edits of planning runs, and of runs that were cancelled or failed, never
\* reach the shared workspace, however many requests, jobs and troubles there are.
THEOREM NothingUnwanted == Spec => []UnwantedWorkStaysOut
<1>1. LaunchInv => UnwantedWorkStaysOut
  BY DEF LaunchInv, WantedInv, Wanted, UnwantedWorkStaysOut
<1> QED BY LaunchInit, LaunchNext, <1>1, PTL DEF Spec

\* The work of an accepted checkpoint is never lost, wherever the server dies and
\* whichever file operation fails.
THEOREM AcceptedWorkIsKept == Spec => []AcceptedWorkSurvives
<1>1. LaunchInv => AcceptedWorkSurvives
  BY DEF LaunchInv, Safe, AcceptedWorkSurvives, Kept
<1> QED BY LaunchInit, LaunchNext, <1>1, PTL DEF Spec

-----------------------------------------------------------------------------
(* What the client is told                                                   *)

\* A request is answered once and for all.  Until then nothing is left behind but
\* the workers made so far.
Answering(q) ==
  LET here == request[q].step IN
  /\ here = "answered" <=> request[q].told # "nothing"
  /\ here \in {"idle", "planning", "discarding", "creating"} => session[q].status = "none"
  /\ here \in {"idle", "planning", "discarding"} =>
       request[q].made = 0 /\ \A w \in workers : w.of # q
  /\ here = "creating" =>
       /\ Accepted(request[q].plan)
       /\ \A i \in 1..request[q].made : [of |-> q, role |-> request[q].plan.roles[i]] \in workers
  /\ here = "publishing" => session[q].status = "stored"

AnswerInv == \A q \in Requests : Answering(q)

\* What AnswersAreTrue says of one request.
Truthful(q) ==
  /\ request[q].told = "questions" =>
       session[q].status = "none" /\ \A w \in workers : w.of # q
  /\ request[q].told = "started" => session[q].status \in {"running", "ended"}
  /\ request[q].told = "error" /\ trouble = 0 => session[q].status = "none"
  /\ session[q].status # "none" =>
       \A i \in DOMAIN session[q].plan.steps :
         [of |-> q, role |-> session[q].plan.steps[i].owner] \in workers

TruthInv == AnswerInv /\ \A q \in Requests : Truthful(q)

LEMMA TruthInit == Init => TruthInv
BY DEF Init, TruthInv, AnswerInv, Answering, Truthful, NoRequest, NoSession, WorkspaceInit

\* The roles and the steps of a plan are lists.
LEMMA PlansAreLists ==
  \A plan \in Plans :
    /\ plan.roles \in Seq(Listed(plan.roles)) /\ plan.steps \in Seq(Listed(plan.steps))
    /\ Len(plan.roles) \in Nat /\ DOMAIN plan.roles = 1..Len(plan.roles)
    /\ Len(plan.steps) \in Nat /\ DOMAIN plan.steps = 1..Len(plan.steps)
<1>1. ASSUME NEW plan \in Plans
      PROVE  plan.roles \in Seq(Listed(plan.roles)) /\ plan.steps \in Seq(Listed(plan.steps))
  <2>1. CASE plan = NoPlan
    BY <2>1 DEF NoPlan
  <2>2. CASE \E q \in Requests : plan \in Outputs[q]
    BY <2>2, OutputsAssumption
  <2> QED BY <1>1, <2>1, <2>2 DEF Plans
<1>2. ASSUME NEW S, NEW s \in Seq(S)
      PROVE  Len(s) \in Nat /\ DOMAIN s = 1..Len(s)
  BY <1>2
<1> QED BY <1>1, <1>2

\* What is true of the other requests stays true while one of them is handled.
LEMMA OthersAreHeld ==
  ASSUME TypeInv, TruthInv, NEW q \in Requests,
         \A p \in Requests : p # q => request'[p] = request[p] /\ session'[p] = session[p],
         workers \subseteq workers', \A w \in workers' : w \in workers \/ w.of = q,
         trouble' = 0 => trouble = 0,
         Answering(q)', Truthful(q)'
  PROVE  TruthInv'
<1>1. ASSUME NEW p \in Requests, p # q PROVE Answering(p)' /\ Truthful(p)'
  <2>1. Answering(p) /\ Truthful(p) /\ request'[p] = request[p] /\ session'[p] = session[p]
    BY <1>1 DEF TruthInv, AnswerInv
  <2>2. Answering(p)'
    BY <1>1, <2>1 DEF Answering
  <2>3. Truthful(p)'
    BY <1>1, <2>1 DEF Truthful
  <2> QED BY <2>2, <2>3
<1> QED BY <1>1 DEF TruthInv, AnswerInv

\* Nor does anything become untrue while jobs go on and end.
LEMMA JobsGoOn ==
  ASSUME TruthInv, UNCHANGED <<request, workers>>, trouble' = 0 => trouble = 0,
         \A p \in Requests :
           /\ session'[p].plan = session[p].plan
           /\ \/ session'[p].status = session[p].status
              \/ session[p].status = "running" /\ session'[p].status = "ended"
  PROVE  TruthInv'
<1>1. ASSUME NEW p \in Requests PROVE Answering(p)' /\ Truthful(p)'
  <2>1. Answering(p) /\ Truthful(p)
    BY DEF TruthInv, AnswerInv
  <2>2. Answering(p)'
    BY <2>1 DEF Answering
  <2>3. Truthful(p)'
    BY <2>1 DEF Truthful
  <2> QED BY <2>2, <2>3
<1> QED BY <1>1 DEF TruthInv, AnswerInv

\* The handler returns: whatever it says is true, and it is not heard again.
LEMMA AnswerIsTrue ==
  ASSUME TypeInv, TruthInv, NEW q \in Requests,
         NEW how \in {"error", "questions", "started"}, Answer(q, how),
         UNCHANGED workers, trouble' = 0 => trouble = 0,
         \A p \in Requests : p # q => session'[p] = session[p],
         session'[q].plan = session[q].plan,
         how = "questions" => session'[q].status = "none" /\ \A w \in workers : w.of # q,
         how = "started" => session'[q].status \in {"running", "ended"},
         how = "error" => session'[q].status = "none" \/ trouble' > 0,
         session'[q].status = "none" \/ session[q].status # "none"
  PROVE  TruthInv'
<1>1. /\ \A p \in Requests : p # q => request'[p] = request[p]
      /\ request'[q].step = "answered" /\ request'[q].told = how
  BY DEF Answer, TypeInv, NoRequest
<1>2. Answering(q)'
  BY <1>1 DEF Answering
<1>3. Truthful(q)'
  BY <1>1 DEF Truthful, TruthInv
<1> QED BY <1>1, <1>2, <1>3, OthersAreHeld

\* Trouble is never forgotten.
LEMMA TroubleRemains ==
  ASSUME TypeInv, [Next]_vars
  PROVE  /\ trouble' = trouble \/ trouble' = trouble + 1
         /\ trouble \in Nat /\ trouble' \in Nat
         /\ trouble' = 0 => trouble = 0
<1>1. trouble \in Nat
  BY WorkspaceAssumption DEF TypeInv, WorkspaceTypeOK
<1>2. trouble' = trouble \/ trouble' = trouble + 1
  <2>1. ASSUME NEW q \in Requests, Submit(q) \/ RequestStep(q) \/ LaunchFails(q)
        PROVE  trouble' = trouble \/ trouble' = trouble + 1
    BY <2>1 DEF Submit, RequestStep, LaunchFails, PlanRefused, PlanEnds, PlanTimesOut, PlanParsed,
         CreateWorker, StoreSession, SessionRefused, Publish, OpenCopy, DiscardCopy, Trouble,
         workspaceVars
  <2>2. CASE CoordinatorStep \/ AcceptLost
    BY <2>2 DEF CoordinatorStep, AcceptLost, TakeTurn, TurnExhausted, WorkRefused, WorkPasses,
         WorkFails, JobFails, WorkDiscarded, AcceptWork, OpenCopy, CommitCopy, DiscardCopy, Trouble,
         workspaceVars
  <2>3. ASSUME NEW r \in Runs, Proceed(r) \/ Admitted(r) \/ Refused(r) \/ RunEnds(r) \/ Stumble(r)
        PROVE  trouble' = trouble \/ trouble' = trouble + 1
    BY <2>3 DEF Proceed, Admitted, Refused, RunEnds, Stumble, Copied, Save, Promote, Clean,
         RecordCommit, Remove, NoteDiscard, Admit, Refuse, CopyFails, CommitFails, DiscardFails,
         Trouble
  <2>4. CASE Crash
    BY <2>4 DEF Crash, CrashRestart, Trouble
  <2>5. CASE UNCHANGED vars
    BY <2>5 DEF vars, workspaceVars
  <2> QED BY <2>1, <2>2, <2>3, <2>4, <2>5 DEF Next, CopyStep
<1> QED BY <1>1, <1>2

\* The handlers of the planning run.
LEMMA PlanningIsTrue ==
  ASSUME TypeInv, TruthInv, [Next]_vars, NEW q \in Requests
  PROVE  /\ Submit(q) => TruthInv'
         /\ PlanRefused(q) => TruthInv'
         /\ PlanEnds(q) => TruthInv'
         /\ PlanTimesOut(q) => TruthInv'
         /\ PlanParsed(q) => TruthInv'
<1>1. trouble' = 0 => trouble = 0
  BY TroubleRemains
<1>2. Answering(q) /\ Truthful(q) /\ request[q] \in RequestRecord
  BY DEF TruthInv, AnswerInv, TypeInv
<1>3. ASSUME NEW rec, rec.told = request[q].told, rec.made = request[q].made,
             rec.step \in {"planning", "discarding"},
             request[q].step \in {"idle", "planning"},
             request' = [request EXCEPT ![q] = rec], UNCHANGED <<workers, session>>
      PROVE  TruthInv'
  <2>1. /\ \A p \in Requests : p # q => request'[p] = request[p]
        /\ request'[q] = rec
    BY <1>3 DEF TypeInv
  <2>2. Answering(q)'
    BY <1>2, <1>3, <2>1 DEF Answering
  <2>3. Truthful(q)'
    BY <1>1, <1>2, <1>3, <2>1 DEF Truthful
  <2> QED BY <1>1, <1>3, <2>1, <2>2, <2>3, OthersAreHeld
<1>4. ASSUME Submit(q) PROVE TruthInv'
  <2>1. PICK brief \in BOOLEAN :
          request' = [request EXCEPT ![q].step = "planning", ![q].brief = brief]
    BY <1>4 DEF Submit
  <2>2. PICK rec : rec = [request[q] EXCEPT !.step = "planning", !.brief = brief]
    OBVIOUS
  <2>3. rec.told = request[q].told /\ rec.made = request[q].made /\ rec.step = "planning"
    BY <1>2, <2>2 DEF RequestRecord
  <2>4. request' = [request EXCEPT ![q] = rec]
    BY <2>1, <2>2 DEF TypeInv
  <2> QED BY <1>3, <1>4, <2>3, <2>4 DEF Submit
<1>5. ASSUME PlanEnds(q) PROVE TruthInv'
  <2>1. PICK plan : request' = [request EXCEPT ![q].step = "discarding", ![q].plan = plan]
    BY <1>5 DEF PlanEnds
  <2>2. PICK rec : rec = [request[q] EXCEPT !.step = "discarding", !.plan = plan]
    OBVIOUS
  <2>3. rec.told = request[q].told /\ rec.made = request[q].made /\ rec.step = "discarding"
    BY <1>2, <2>2 DEF RequestRecord
  <2>4. request' = [request EXCEPT ![q] = rec]
    BY <2>1, <2>2 DEF TypeInv
  <2> QED BY <1>3, <1>5, <2>3, <2>4 DEF PlanEnds
<1>6. request[q].step \in {"planning", "discarding"} =>
        session[q].status = "none" /\ \A w \in workers : w.of # q
  BY <1>2 DEF Answering
<1>7. PlanRefused(q) => TruthInv'
  BY <1>1, <1>6, AnswerIsTrue DEF PlanRefused
<1>8. PlanTimesOut(q) => TruthInv'
  BY <1>1, <1>6, AnswerIsTrue DEF PlanTimesOut
<1>9. ASSUME PlanParsed(q) PROVE TruthInv'
  <2>1. UNCHANGED <<workers, session>> /\ request[q].step = "discarding"
    BY <1>9 DEF PlanParsed
  <2>2. CASE Answer(q, "error") \/ Answer(q, "questions")
    BY <1>1, <1>6, <2>1, <2>2, AnswerIsTrue
  <2>3. CASE Accepted(request[q].plan) /\ Reaches(q, "creating")
    <3>1. PICK rec : rec = [request[q] EXCEPT !.step = "creating"]
      OBVIOUS
    <3>2. /\ rec.told = request[q].told /\ rec.made = request[q].made
          /\ rec.plan = request[q].plan /\ rec.step = "creating"
      BY <1>2, <3>1 DEF RequestRecord
    <3>3. /\ \A p \in Requests : p # q => request'[p] = request[p]
          /\ request'[q] = rec
      BY <2>3, <3>1 DEF Reaches, TypeInv
    <3>4. Accepted(rec.plan)'
      BY <2>3, <3>2, <3>3 DEF Accepted
    <3>5. Answering(q)'
      BY <1>2, <2>1, <2>3, <3>2, <3>3 DEF Answering
    <3>6. Truthful(q)'
      BY <1>1, <1>2, <2>1, <3>2, <3>3 DEF Truthful
    <3> QED BY <1>1, <2>1, <3>3, <3>5, <3>6, OthersAreHeld
  <2> QED BY <1>9, <2>2, <2>3 DEF PlanParsed
<1> QED BY <1>4, <1>5, <1>7, <1>8, <1>9

\* A session is stored once every role has its worker.
LEMMA LaunchingIsTrue ==
  ASSUME TypeInv, TruthInv, [Next]_vars, NEW q \in Requests
  PROVE  /\ CreateWorker(q) => TruthInv'
         /\ StoreSession(q) => TruthInv'
         /\ SessionRefused(q) => TruthInv'
         /\ Publish(q) => TruthInv'
         /\ LaunchFails(q) => TruthInv'
<1>1. trouble' = 0 => trouble = 0
  BY TroubleRemains
<1>2. Answering(q) /\ Truthful(q) /\ request[q] \in RequestRecord /\ session[q] \in SessionRecord
  BY DEF TruthInv, AnswerInv, TypeInv
<1>3. ASSUME CreateWorker(q) PROVE TruthInv'
  <2>1. PICK n : n = request[q].made + 1
    OBVIOUS
  <2>2. PICK rec : rec = [request[q] EXCEPT !.made = n]
    OBVIOUS
  <2>3. /\ rec.told = request[q].told /\ rec.made = n
        /\ rec.plan = request[q].plan /\ rec.step = "creating"
    BY <1>2, <1>3, <2>2 DEF RequestRecord, CreateWorker
  <2>4. /\ \A p \in Requests : p # q => request'[p] = request[p]
        /\ request'[q] = rec
    BY <1>3, <2>1, <2>2 DEF CreateWorker, TypeInv
  <2>5. workers' = workers \cup {[of |-> q, role |-> request[q].plan.roles[n]]}
        /\ session' = session /\ request[q].step = "creating"
    BY <1>3, <2>1 DEF CreateWorker
  <2>6. \A i \in 1..n : i \in 1..request[q].made \/ i = n
    BY <1>2, <2>1 DEF RequestRecord
  <2>7. Answering(q)'
    BY <1>2, <2>3, <2>4, <2>5, <2>6 DEF Answering
  <2>8. Truthful(q)'
    BY <1>1, <1>2, <2>3, <2>4, <2>5 DEF Truthful, Answering
  <2>9. workers \subseteq workers' /\ \A w \in workers' : w \in workers \/ w.of = q
    BY <2>5
  <2> QED BY <1>1, <2>4, <2>5, <2>7, <2>8, <2>9, OthersAreHeld
<1>4. ASSUME StoreSession(q) PROVE TruthInv'
  <2>1. PICK plan : plan = request[q].plan
    OBVIOUS
  <2>2. PICK rec : rec = [session[q] EXCEPT !.status = "stored", !.plan = plan]
    OBVIOUS
  <2>3. rec.status = "stored" /\ rec.plan = plan
    BY <1>2, <2>2 DEF SessionRecord
  <2>4. session' = [session EXCEPT ![q] = rec]
    BY <1>4, <2>1, <2>2 DEF StoreSession, TypeInv
  <2>5. \A p \in Requests : (p # q => session'[p] = session[p]) /\ (p = q => session'[p] = rec)
    BY <2>4 DEF TypeInv
  <2>6. /\ \A p \in Requests : p # q => request'[p] = request[p]
        /\ request'[q].step = "publishing" /\ request'[q].told = request[q].told
    BY <1>2, <1>4 DEF StoreSession, Reaches, TypeInv, RequestRecord
  <2>7. \A i \in DOMAIN plan.steps : [of |-> q, role |-> plan.steps[i].owner] \in workers
    <3>1. /\ Accepted(plan) /\ plan \in Plans /\ request[q].made = Len(plan.roles)
          /\ \A i \in 1..request[q].made : [of |-> q, role |-> plan.roles[i]] \in workers
      BY <1>2, <1>4, <2>1 DEF Answering, StoreSession, Storable, RequestRecord
    <3>2. DOMAIN plan.roles = 1..request[q].made
      BY <3>1, PlansAreLists
    <3> QED BY <3>1, <3>2 DEF Accepted, Listed
  <2>8. workers' = workers /\ request[q].step = "creating"
    BY <1>4 DEF StoreSession, Storable
  <2>9. Answering(q)'
    BY <1>2, <2>3, <2>5, <2>6, <2>8 DEF Answering
  <2>10. Truthful(q)'
    BY <1>2, <2>3, <2>5, <2>6, <2>7, <2>8 DEF Truthful, Answering
  <2> QED BY <1>1, <2>5, <2>6, <2>8, <2>9, <2>10, OthersAreHeld
<1>5. request[q].step = "creating" => session[q].status = "none"
  BY <1>2 DEF Answering
<1>6. SessionRefused(q) => TruthInv'
  BY <1>1, <1>5, AnswerIsTrue DEF SessionRefused, Storable
<1>7. ASSUME Publish(q) PROVE TruthInv'
  <2>1. PICK rec : rec = [session[q] EXCEPT !.status = "running"]
    OBVIOUS
  <2>2. rec.status = "running" /\ rec.plan = session[q].plan
    BY <1>2, <2>1 DEF SessionRecord
  <2>3. \A p \in Requests : (p # q => session'[p] = session[p]) /\ (p = q => session'[p] = rec)
    BY <1>7, <2>1 DEF Publish, TypeInv
  <2>4. session[q].status = "stored"
    BY <1>2, <1>7 DEF Answering, Publish
  <2> QED BY <1>1, <1>7, <2>2, <2>3, <2>4, AnswerIsTrue DEF Publish
<1>8. ASSUME LaunchFails(q) PROVE TruthInv'
  <2>1. trouble' > 0
    BY <1>8, TroubleRemains DEF LaunchFails, Trouble
  <2> QED BY <1>1, <1>8, <2>1, AnswerIsTrue DEF LaunchFails
<1> QED BY <1>3, <1>4, <1>6, <1>7, <1>8

\* Of a session the coordinator changes how often its turn was tried, and that it has
\* ended; of a turn, nothing but the ledger.
LEMMA SessionsGoOn ==
  ASSUME TypeInv, TruthInv, CoordinatorStep \/ AcceptLost,
         coord.step # "idle" => session[coord.of].status = "running"
  PROVE  /\ UNCHANGED <<request, workers>>
         /\ \A p \in Requests :
              /\ session'[p].plan = session[p].plan
              /\ \/ session'[p].status = session[p].status
                 \/ session[p].status = "running" /\ session'[p].status = "ended"
<1>1. \A p \in Requests : session[p] \in SessionRecord
  BY DEF TypeInv
<1>2. ASSUME NEW q \in Requests, NEW done, session[q].status = "running", session' = Ends(q, done)
      PROVE  \A p \in Requests :
               /\ session'[p].plan = session[p].plan
               /\ \/ session'[p].status = session[p].status
                  \/ session[p].status = "running" /\ session'[p].status = "ended"
  <2>1. PICK rec : rec = [session[q] EXCEPT !.status = IF done THEN "ended" ELSE @]
    OBVIOUS
  <2>2. rec.plan = session[q].plan /\ (rec.status = session[q].status \/ rec.status = "ended")
    BY <1>1, <2>1 DEF SessionRecord
  <2>3. session' = [session EXCEPT ![q] = rec]
    BY <1>2, <2>1 DEF Ends
  <2> QED BY <1>2, <2>2, <2>3 DEF TypeInv
<1>3. coord.step # "idle" => coord.of \in Requests
  BY DEF TypeInv
<1>4. ASSUME NEW q \in Requests, TakeTurn(q) \/ TurnExhausted(q)
      PROVE  /\ UNCHANGED <<request, workers>>
             /\ \A p \in Requests :
                  /\ session'[p].plan = session[p].plan
                  /\ \/ session'[p].status = session[p].status
                     \/ session[p].status = "running" /\ session'[p].status = "ended"
  <2>1. CASE TakeTurn(q)
    <3>1. PICK rec : rec = [session[q] EXCEPT !.attempts = @ + 1]
      OBVIOUS
    <3>2. rec.plan = session[q].plan /\ rec.status = session[q].status
      BY <1>1, <3>1 DEF SessionRecord
    <3>3. session' = [session EXCEPT ![q] = rec]
      BY <2>1, <3>1 DEF TakeTurn
    <3> QED BY <2>1, <3>2, <3>3 DEF TakeTurn, TypeInv
  <2>2. CASE TurnExhausted(q)
    BY <1>2, <2>2 DEF TurnExhausted
  <2> QED BY <1>4, <2>1, <2>2
<1>5. CASE WorkRefused \/ JobFails \/ AcceptLost
  BY <1>2, <1>3, <1>5 DEF WorkRefused, JobFails, WorkIsUseless, AcceptLost
<1>6. CASE WorkPasses \/ WorkFails \/ WorkDiscarded
  BY <1>6 DEF WorkPasses, WorkFails, WorkDiscarded
<1>7. CASE AcceptWork
  <2>1. PICK q \in Requests : q = coord.of /\ session[q].status = "running"
    BY <1>3, <1>7 DEF AcceptWork
  <2>2. PICK s : s = [session[q] EXCEPT !.accepted = Append(@, coord.run), !.attempts = 0]
    OBVIOUS
  <2>3. s.plan = session[q].plan /\ s.status = session[q].status
        /\ s = [status |-> s.status, plan |-> s.plan, accepted |-> s.accepted, attempts |-> s.attempts]
    BY <1>1, <2>2 DEF SessionRecord
  <2>4. PICK rec : rec = [s EXCEPT !.status =
                             IF Len(s.accepted) = Len(s.plan.steps) THEN "ended" ELSE @]
    OBVIOUS
  <2>5. rec.plan = s.plan /\ (rec.status = s.status \/ rec.status = "ended")
    BY <2>3, <2>4
  <2>6. session' = [session EXCEPT ![q] = rec]
    BY <1>7, <2>1, <2>2, <2>4 DEF AcceptWork
  <2>7. UNCHANGED <<request, workers>>
    BY <1>7 DEF AcceptWork
  <2> QED BY <2>1, <2>3, <2>5, <2>6, <2>7 DEF TypeInv
<1> QED BY <1>4, <1>5, <1>6, <1>7 DEF CoordinatorStep

\* A crash answers whoever waits with an error, and nobody is told less than that.
LEMMA CrashIsTrue ==
  ASSUME TypeInv, TruthInv, [Next]_vars, Crash
  PROVE  TruthInv'
<1>1. trouble' > 0
  <2>1. trouble' = trouble + 1
    BY DEF Crash, CrashRestart, Trouble
  <2> QED BY <2>1, TroubleRemains
<1>2. ASSUME NEW q \in Requests PROVE Answering(q)' /\ Truthful(q)'
  <2>1. Answering(q) /\ Truthful(q) /\ request[q] \in RequestRecord /\ session[q] \in SessionRecord
    BY DEF TruthInv, AnswerInv, TypeInv
  <2>2. \/ request[q].step \in {"idle", "answered"} /\ request'[q] = request[q]
        \/ request'[q].step = "answered" /\ request'[q].told = "error"
    <3>1. [request[q] EXCEPT !.step = "answered", !.told = "error"].step = "answered"
          /\ [request[q] EXCEPT !.step = "answered", !.told = "error"].told = "error"
      BY <2>1 DEF RequestRecord
    <3> QED BY <3>1 DEF Crash
  <2>3. PICK rec : rec = [session[q] EXCEPT !.status = IF @ = "stored" THEN "running" ELSE @]
    OBVIOUS
  <2>4. /\ rec.plan = session[q].plan
        /\ rec.status = IF session[q].status = "stored" THEN "running" ELSE session[q].status
    BY <2>1, <2>3 DEF SessionRecord
  <2>5. session'[q] = rec /\ workers' = workers
    BY <2>3 DEF Crash
  <2>6. Answering(q)'
    BY <2>1, <2>2, <2>4, <2>5 DEF Answering
  <2>7. Truthful(q)'
    BY <1>1, <2>1, <2>2, <2>4, <2>5 DEF Truthful
  <2> QED BY <2>6, <2>7
<1> QED BY <1>2 DEF TruthInv, AnswerInv

-----------------------------------------------------------------------------
(* The jobs                                                                  *)

\* A job runs as long as a checkpoint is left, and only running ones are worked on.
JobOf(q) ==
  /\ session[q].status = "none" => session[q].accepted = << >>
  /\ session[q].status \in {"stored", "running"} =>
       Len(session[q].accepted) < Len(session[q].plan.steps)

WorkedOn == coord.step # "idle" => session[coord.of].status = "running"
JobInv == WorkedOn /\ \A q \in Requests : JobOf(q)

LEMMA JobInit == Init => JobInv
BY DEF Init, JobInv, WorkedOn, JobOf, NoSession, Idle

\* Sessions of which only the number of attempts changes, or that end.
LEMMA JobStays ==
  ASSUME JobInv, NEW q \in Requests, session'[q].plan = session[q].plan,
         session'[q].accepted = session[q].accepted,
         session'[q].status \in {session[q].status, "ended"}
  PROVE  JobOf(q)'
BY DEF JobInv, JobOf

LEMMA JobsAreKept ==
  ASSUME TypeInv, TruthInv, JobInv, [Next]_vars
  PROVE  JobInv'
<1>1. \A p \in Requests : session[p] \in SessionRecord /\ Answering(p) /\ request[p] \in RequestRecord
  BY DEF TypeInv, TruthInv, AnswerInv
<1>2. CASE UNCHANGED <<session, coord>>
  BY <1>2 DEF JobInv, WorkedOn, JobOf
<1>3. ASSUME NEW q \in Requests, StoreSession(q) PROVE JobInv'
  <2>1. PICK rec : rec = [session[q] EXCEPT !.status = "stored", !.plan = request[q].plan]
    OBVIOUS
  <2>2. rec.status = "stored" /\ rec.plan = request[q].plan /\ rec.accepted = session[q].accepted
    BY <1>1, <2>1 DEF SessionRecord
  <2>3. session' = [session EXCEPT ![q] = rec] /\ coord' = coord
    BY <1>3, <2>1 DEF StoreSession, TypeInv
  <2>4. session[q].status = "none" /\ Accepted(request[q].plan) /\ request[q].plan \in Plans
    BY <1>1, <1>3 DEF Answering, StoreSession, Storable, RequestRecord
  <2>5. Len(session[q].accepted) = 0 /\ Len(request[q].plan.steps) > 0
    <3>1. \A S : \A s \in Seq(S) : s # << >> => Len(s) > 0
      OBVIOUS
    <3> QED BY <2>4, <3>1, PlansAreLists DEF JobInv, JobOf, Accepted
  <2>6. \A p \in Requests : JobOf(p)'
    BY <2>2, <2>3, <2>5 DEF JobInv, JobOf, TypeInv
  <2>7. WorkedOn'
    BY <2>3, <2>4 DEF JobInv, WorkedOn, TypeInv
  <2> QED BY <2>6, <2>7 DEF JobInv
<1>4. ASSUME NEW q \in Requests, Publish(q) PROVE JobInv'
  <2>1. PICK rec : rec = [session[q] EXCEPT !.status = "running"]
    OBVIOUS
  <2>2. rec.status = "running" /\ rec.plan = session[q].plan /\ rec.accepted = session[q].accepted
    BY <1>1, <2>1 DEF SessionRecord
  <2>3. session' = [session EXCEPT ![q] = rec] /\ coord' = coord
    BY <1>4, <2>1 DEF Publish, TypeInv
  <2>4. session[q].status = "stored"
    BY <1>1, <1>4 DEF Answering, Publish
  <2>5. \A p \in Requests : JobOf(p)'
    BY <2>2, <2>3, <2>4 DEF JobInv, JobOf, TypeInv
  <2>6. WorkedOn'
    BY <2>2, <2>3 DEF JobInv, WorkedOn, TypeInv
  <2> QED BY <2>5, <2>6 DEF JobInv
<1>5. ASSUME Crash PROVE JobInv'
  <2>1. ASSUME NEW q \in Requests PROVE JobOf(q)'
    <3>1. PICK rec : rec = [session[q] EXCEPT !.status = IF @ = "stored" THEN "running" ELSE @]
      OBVIOUS
    <3>2. /\ rec.plan = session[q].plan /\ rec.accepted = session[q].accepted
          /\ rec.status = IF session[q].status = "stored" THEN "running" ELSE session[q].status
      BY <1>1, <3>1 DEF SessionRecord
    <3>3. session'[q] = rec
      BY <1>5, <3>1 DEF Crash
    <3> QED BY <3>2, <3>3 DEF JobInv, JobOf
  <2>2. WorkedOn'
    BY <1>5 DEF Crash, WorkedOn, Idle
  <2> QED BY <2>1, <2>2 DEF JobInv
<1>6. CASE CoordinatorStep \/ AcceptLost
  <2>1. /\ \A p \in Requests :
             /\ session'[p].plan = session[p].plan
             /\ \/ session'[p].status = session[p].status
                \/ session[p].status = "running" /\ session'[p].status = "ended"
    BY <1>6, SessionsGoOn DEF JobInv, WorkedOn
  <2>2. WorkedOn'
    <3>1. ASSUME NEW q \in Requests, TakeTurn(q) PROVE WorkedOn'
      BY <2>1, <3>1 DEF TakeTurn, WorkedOn
    <3>2. CASE \E q \in Requests : TurnExhausted(q)
      BY <3>2 DEF TurnExhausted, WorkedOn
    <3>3. CASE WorkRefused \/ JobFails \/ AcceptLost \/ WorkDiscarded \/ AcceptWork
      <4>1. coord' = Idle
        BY <3>3 DEF WorkRefused, JobFails, AcceptLost, WorkDiscarded, AcceptWork
      <4> QED BY <4>1 DEF WorkedOn, Idle
    <3>4. CASE WorkPasses \/ WorkFails
      <4>1. coord \in CoordRecord
        BY DEF TypeInv
      <4> QED BY <3>4, <4>1 DEF WorkPasses, WorkFails, WorkIsUseless, WorkedOn, JobInv, CoordRecord
    <3> QED BY <1>6, <3>1, <3>2, <3>3, <3>4 DEF CoordinatorStep
  <2>3. CASE ~AcceptWork
    <3>1. \A p \in Requests : session'[p].accepted = session[p].accepted
      <4>1. \A q \in Requests : TakeTurn(q) => \A p \in Requests : session'[p].accepted = session[p].accepted
        BY <1>1 DEF TakeTurn, TypeInv, SessionRecord
      <4>2. \A q \in Requests : TurnExhausted(q) => \A p \in Requests : session'[p].accepted = session[p].accepted
        BY SessionMoves DEF TurnExhausted
      <4>3. coord.step # "idle" => coord.of \in Requests
        BY DEF TypeInv
      <4>4. WorkRefused \/ JobFails \/ AcceptLost => \A p \in Requests : session'[p].accepted = session[p].accepted
        BY <4>3, SessionMoves DEF WorkRefused, JobFails, WorkIsUseless, AcceptLost
      <4> QED BY <1>6, <2>3, <4>1, <4>2, <4>4 DEF CoordinatorStep, WorkPasses, WorkFails, WorkDiscarded
    <3>2. \A p \in Requests : JobOf(p)'
      BY <2>1, <3>1, JobStays
    <3> QED BY <2>2, <3>2 DEF JobInv
  <2>4. CASE AcceptWork
    <3>1. PICK q \in Requests : q = coord.of /\ session[q].status = "running" /\ coord.run \in Runs
      BY <2>4 DEF AcceptWork, TypeInv, JobInv, WorkedOn, Attempts
    <3>2. PICK s : s = [session[q] EXCEPT !.accepted = Append(@, coord.run), !.attempts = 0]
      OBVIOUS
    <3>3. /\ s.plan = session[q].plan /\ s.status = session[q].status
          /\ s.accepted = Append(session[q].accepted, coord.run)
          /\ s = [status |-> s.status, plan |-> s.plan, accepted |-> s.accepted, attempts |-> s.attempts]
      BY <1>1, <3>2 DEF SessionRecord
    <3>4. PICK rec : rec = [s EXCEPT !.status =
                               IF Len(s.accepted) = Len(s.plan.steps) THEN "ended" ELSE @]
      OBVIOUS
    <3>5. /\ rec.plan = s.plan /\ rec.accepted = s.accepted
          /\ rec.status = IF Len(s.accepted) = Len(s.plan.steps) THEN "ended" ELSE s.status
      BY <3>3, <3>4
    <3>6. session' = [session EXCEPT ![q] = rec]
      BY <2>4, <3>1, <3>2, <3>4 DEF AcceptWork
    <3>7. \A p \in Requests : (p # q => session'[p] = session[p]) /\ (p = q => session'[p] = rec)
      BY <3>6 DEF TypeInv
    <3>8. JobOf(q)'
      <4>1. Len(Append(session[q].accepted, coord.run)) = Len(session[q].accepted) + 1
            /\ Len(session[q].accepted) \in Nat
        BY <1>1, <3>1 DEF SessionRecord
      <4>2. Len(session[q].plan.steps) \in Nat
        BY <1>1, PlansAreLists DEF SessionRecord
      <4>3. Len(session[q].accepted) < Len(session[q].plan.steps)
        BY <3>1 DEF JobInv, JobOf
      <4>4. Len(rec.accepted) = Len(session[q].accepted) + 1 /\ rec.plan = session[q].plan
        BY <3>3, <3>5, <4>1
      <4>5. rec.status # "none"
            /\ (rec.status \in {"stored", "running"} => Len(rec.accepted) # Len(rec.plan.steps))
        BY <3>1, <3>3, <3>5
      <4>6. \A m, n \in Nat : (m < n /\ m + 1 # n) => m + 1 < n
        OBVIOUS
      <4> QED BY <3>7, <4>1, <4>2, <4>3, <4>4, <4>5, <4>6 DEF JobOf
    <3>9. \A p \in Requests : p # q => JobOf(p)'
      BY <3>7, JobStays
    <3> QED BY <2>2, <3>8, <3>9 DEF JobInv
  <2> QED BY <2>3, <2>4
<1>7. \/ UNCHANGED <<session, coord>>
      \/ \E q \in Requests : StoreSession(q) \/ Publish(q)
      \/ Crash \/ CoordinatorStep \/ AcceptLost
  BY DEF Next, RequestStep, Submit, PlanRefused, PlanEnds, PlanTimesOut, PlanParsed, CreateWorker,
         SessionRefused, LaunchFails, CopyStep, launchVars, vars
<1> QED BY <1>2, <1>3, <1>4, <1>5, <1>6, <1>7

LEMMA TruthNext ==
  ASSUME TypeInv, TruthInv, JobInv, [Next]_vars
  PROVE  TruthInv'
<1>1. trouble' = 0 => trouble = 0
  BY TroubleRemains
<1>2. CASE \E q \in Requests : Submit(q) \/ RequestStep(q) \/ LaunchFails(q)
  BY <1>2, PlanningIsTrue, LaunchingIsTrue DEF RequestStep
<1>3. CASE CoordinatorStep \/ AcceptLost
  BY <1>1, <1>3, SessionsGoOn, JobsGoOn DEF JobInv, WorkedOn
<1>4. CASE CopyStep \/ ((\E r \in Runs : Stumble(r)) /\ UNCHANGED launchVars) \/ UNCHANGED vars
  BY <1>1, <1>4, JobsGoOn DEF CopyStep, launchVars, vars
<1>5. CASE Crash
  BY <1>5, CrashIsTrue
<1> QED BY <1>2, <1>3, <1>4, <1>5 DEF Next

\* The client of a task is told the truth: questions leave nothing behind, a started
\* job has a session with a worker for every step, and after an error there is none
\* unless the last moment went wrong.
THEOREM AnswersHold == Spec => []AnswersAreTrue
<1> DEFINE I == LaunchInv /\ TruthInv /\ JobInv
<1>1. Init => I
  BY LaunchInit, TruthInit, JobInit
<1>2. I /\ [Next]_vars => I'
  BY LaunchNext, TruthNext, JobsAreKept DEF LaunchInv
<1>3. I => AnswersAreTrue
  BY DEF TruthInv, Truthful, AnswersAreTrue
<1> QED BY <1>1, <1>2, <1>3, PTL DEF Spec

-----------------------------------------------------------------------------
(* What is left of the copies                                                *)

\* As long as nothing has gone wrong, "op" says which directories there are, ...
DirsInv ==
  \A r \in Runs :
    /\ backup[r].there => op[r] \in {"promoting", "cleaning"}
    /\ scratch[r].there => op[r] \in {"admitting", "open", "saving", "promoting", "removing"}

\* ... a request knows of the copy that is made or removed for it, unless its planning
\* run took too long, ...
PlanningCopy(q) ==
  /\ request[q].step = "idle" => op[q] = "unused"
  /\ op[q] \in {"copying", "admitting", "open"} =>
       request[q].step = "planning" \/ request[q].told = "error"
  /\ op[q] = "removing" => request[q].step = "discarding"

\* ... the coordinator knows of the one that is made for it, ...
CoordInv ==
  /\ coord.step = "idle" => coord.run = NoRun
  /\ \A r \in Attempts : op[r] = "copying" => coord.step = "working" /\ coord.run = r

\* ... and no more copies are left over than jobs have failed.
FailedJobs == {q \in Requests : Failed(q)}
LeftOver == {r \in Attempts : scratch[r].there} \ {coord.run}
LeftInv ==
  /\ IsFiniteSet(LeftOver) /\ IsFiniteSet(FailedJobs)
  /\ Cardinality(LeftOver) <= Cardinality(FailedJobs)

CleanInv ==
  trouble = 0 => DirsInv /\ CoordInv /\ LeftInv /\ \A q \in Requests : PlanningCopy(q)

LEMMA CleanInit == Init => CleanInv
<1> SUFFICES ASSUME Init PROVE CleanInv
  OBVIOUS
<1>1. DirsInv /\ CoordInv /\ \A q \in Requests : PlanningCopy(q)
  BY LaunchAssumption DEF Init, WorkspaceInit, DirsInv, CoordInv, PlanningCopy, NoDir, Dir,
     Idle, NoRequest, Attempts
<1>2. LeftOver = {} /\ FailedJobs = {}
  BY DEF Init, WorkspaceInit, LeftOver, FailedJobs, Failed, NoDir, NoSession, Attempts
<1>3. Cardinality({}) <= Cardinality({})
  BY FS_EmptySet
<1> QED BY <1>1, <1>2, <1>3, FS_EmptySet DEF CleanInv, LeftInv

\* What a step that nothing goes wrong in does with the directories of one run.
CopyMoves(r) ==
  LET from(steps, to) == op[r] \in steps /\ op'[r] = to
      kept == backup'[r].there = backup[r].there
      same == kept /\ scratch'[r].there = scratch[r].there IN
  \/ op'[r] = op[r] /\ same
  \/ from({"unused"}, "copying") /\ same
  \/ from({"copying"}, "admitting") /\ kept
  \/ from({"copying"}, "rejected") /\ same
  \/ from({"admitting"}, "open") /\ same
  \/ from({"admitting"}, "rejected") /\ kept /\ ~scratch'[r].there
  \/ from({"open"}, "saving") /\ same
  \/ from({"saving"}, "promoting") /\ scratch'[r].there = scratch[r].there
  \/ from({"promoting"}, "cleaning") /\ kept /\ ~scratch'[r].there
  \/ from({"cleaning"}, "recording") /\ ~backup'[r].there /\ scratch'[r].there = scratch[r].there
  \/ from({"recording"}, "committed") /\ same
  \/ from({"open", "failed"}, "removing") /\ same
  \/ from({"removing"}, "noting") /\ kept /\ ~scratch'[r].there
  \/ from({"noting"}, "discarded") /\ same

LEMMA OpenMoves ==
  ASSUME TypeInv, NEW r \in Runs, OpenCopy(r) \/ CommitCopy(r) \/ DiscardCopy(r)
  PROVE  \A p \in Runs : CopyMoves(p)
BY DEF TypeInv, WorkspaceTypeOK, OpenCopy, CommitCopy, DiscardCopy, Becomes, files, CopyMoves

LEMMA FileMoves ==
  ASSUME TypeInv, NEW r \in Runs, trouble' = trouble,
         Proceed(r) \/ Admit(r) \/ Refuse(r) \/ RunEnds(r) \/ Stumble(r)
  PROVE  \A p \in Runs : CopyMoves(p)
<1>1. WorkspaceTypeOK /\ trouble # trouble + 1 /\ ~NoDir.there
  BY WorkspaceAssumption DEF TypeInv, WorkspaceTypeOK, NoDir
<1>2. CASE Copied(r) \/ Admit(r) \/ Refuse(r)
  BY <1>1, <1>2 DEF WorkspaceTypeOK, Copied, Admit, Refuse, Trouble, Becomes, files, CopyMoves
<1>3. CASE Save(r) \/ Promote(r)
  BY <1>1, <1>3 DEF WorkspaceTypeOK, Save, Promote, Becomes, files, CopyMoves
<1>4. CASE Clean(r) \/ RecordCommit(r)
  BY <1>1, <1>4 DEF WorkspaceTypeOK, Clean, RecordCommit, Becomes, files, CopyMoves
<1>5. CASE Remove(r) \/ NoteDiscard(r)
  BY <1>1, <1>5 DEF WorkspaceTypeOK, Remove, NoteDiscard, Becomes, files, CopyMoves
<1>6. CASE RunEnds(r)
  <2>1. PICK d \in Directory : d.there = scratch[r].there /\ scratch' = [scratch EXCEPT ![r] = d]
    BY <1>1, <1>6, Directories DEF WorkspaceTypeOK, RunEnds
  <2> QED BY <1>1, <1>6, <2>1 DEF WorkspaceTypeOK, RunEnds, CopyMoves
<1>7. CASE Stumble(r)
  BY <1>1, <1>7 DEF WorkspaceTypeOK, Stumble, CopyFails, CommitFails, DiscardFails, Trouble, Becomes,
     files, CopyMoves
<1> QED BY <1>2, <1>3, <1>4, <1>5, <1>6, <1>7 DEF Proceed

\* Every step that nothing goes wrong in moves copies that way, if any.
LEMMA AllMoves ==
  ASSUME TypeInv, [Next]_vars, trouble' = trouble
  PROVE  \A p \in Runs : CopyMoves(p)
<1>1. trouble # trouble + 1 /\ Requests \subseteq Runs /\ Attempts \subseteq Runs
  BY WorkspaceAssumption, LaunchAssumption DEF TypeInv, WorkspaceTypeOK, Attempts
<1>2. CASE UNCHANGED <<files, op>>
  BY <1>2 DEF files, CopyMoves
<1>3. CASE \E q \in Requests : Submit(q) \/ RequestStep(q) \/ LaunchFails(q)
  <2>1. UNCHANGED <<files, op>> \/ \E q \in Requests : OpenCopy(q) \/ DiscardCopy(q)
    BY <1>3 DEF Submit, RequestStep, LaunchFails, PlanRefused, PlanEnds, PlanTimesOut, PlanParsed,
         CreateWorker, StoreSession, SessionRefused, Publish, workspaceVars, files
  <2> QED BY <1>1, <1>2, <2>1, OpenMoves
<1>4. CASE CoordinatorStep \/ AcceptLost
  <2>1. \/ UNCHANGED <<files, op>>
        \/ Unused # {} /\ OpenCopy(NextRun)
        \/ coord.step # "idle" /\ (CommitCopy(coord.run) \/ DiscardCopy(coord.run))
    BY <1>4 DEF CoordinatorStep, AcceptLost, TakeTurn, TurnExhausted, WorkRefused, WorkPasses,
         WorkFails, WorkIsUseless, JobFails, WorkDiscarded, AcceptWork, workspaceVars, files
  <2>2. coord.step # "idle" => coord.run \in Attempts
    BY DEF TypeInv
  <2>3. Unused # {} => NextRun \in Attempts
    BY DEF Unused, NextRun
  <2> QED BY <1>1, <1>2, <2>1, <2>2, <2>3, OpenMoves
<1>5. CASE CopyStep \/ ((\E r \in Runs : Stumble(r)) /\ UNCHANGED launchVars)
  BY <1>5, FileMoves DEF CopyStep, Admitted, Refused
<1>6. CASE Crash
  BY <1>1, <1>6 DEF Crash, CrashRestart, Trouble
<1>7. CASE UNCHANGED vars
  BY <1>2, <1>7 DEF vars, workspaceVars, files
<1> QED BY <1>3, <1>4, <1>5, <1>6, <1>7 DEF Next

LEMMA DirsKept ==
  ASSUME DirsInv, \A p \in Runs : CopyMoves(p)
  PROVE  DirsInv'
<1>1. ASSUME NEW r \in Runs, CopyMoves(r)
      PROVE  /\ backup'[r].there => op'[r] \in {"promoting", "cleaning"}
             /\ scratch'[r].there => op'[r] \in {"admitting", "open", "saving", "promoting", "removing"}
  BY <1>1 DEF DirsInv, CopyMoves
<1> QED BY <1>1 DEF DirsInv

\* The request knows of its copy.
LEMMA PlanningKept ==
  ASSUME LaunchInv, TruthInv, \A q \in Requests : PlanningCopy(q),
         [Next]_vars, trouble' = trouble, NEW p \in Requests
  PROVE  PlanningCopy(p)'
<1>1. /\ TypeInv /\ trouble # trouble + 1 /\ p \in Runs /\ p \notin Attempts
      /\ PlanningCopy(p) /\ Answering(p) /\ request[p] \in RequestRecord
  BY WorkspaceAssumption, LaunchAssumption
  DEF LaunchInv, TypeInv, WorkspaceTypeOK, Attempts, TruthInv, AnswerInv
<1>2. CASE request'[p] = request[p] /\ op'[p] = op[p]
  BY <1>1, <1>2 DEF PlanningCopy
<1>3. ASSUME NEW q \in Requests, Submit(q) PROVE PlanningCopy(p)'
  <2>1. CASE p = q
    <3>1. op'[p] = "copying"
      BY <1>1, <1>3, <2>1 DEF Submit, OpenCopy, Becomes, TypeInv, WorkspaceTypeOK
    <3>2. PICK brief \in BOOLEAN :
            request' = [request EXCEPT ![q].step = "planning", ![q].brief = brief]
      BY <1>3 DEF Submit
    <3>3. request'[p].step = "planning"
      BY <1>1, <2>1, <3>2 DEF TypeInv, RequestRecord
    <3> QED BY <3>1, <3>3 DEF PlanningCopy
  <2>2. CASE p # q
    BY <1>1, <1>2, <1>3, <2>2 DEF Submit, OpenCopy, Becomes, TypeInv, WorkspaceTypeOK
  <2> QED BY <2>1, <2>2
<1>4. ASSUME NEW q \in Requests, PlanEnds(q) PROVE PlanningCopy(p)'
  <2>1. CASE p = q
    <3>1. op'[p] = "removing"
      BY <1>1, <1>4, <2>1 DEF PlanEnds, DiscardCopy, Becomes, TypeInv, WorkspaceTypeOK
    <3>2. PICK plan : request' = [request EXCEPT ![q].step = "discarding", ![q].plan = plan]
      BY <1>4 DEF PlanEnds
    <3>3. request'[p].step = "discarding"
      BY <1>1, <2>1, <3>2 DEF TypeInv, RequestRecord
    <3> QED BY <3>1, <3>3 DEF PlanningCopy
  <2>2. CASE p # q
    BY <1>1, <1>2, <1>4, <2>2 DEF PlanEnds, DiscardCopy, Becomes, TypeInv, WorkspaceTypeOK
  <2> QED BY <2>1, <2>2
<1>5. ASSUME NEW q \in Requests, NEW how, Answer(q, how), op' = op,
             p = q => how = "error" \/ op[p] \notin {"copying", "admitting", "open"},
             p = q => op[p] # "removing"
      PROVE  PlanningCopy(p)'
  <2>1. CASE p = q
    <3>1. request'[p].step = "answered" /\ request'[p].told = how
      BY <1>1, <1>5, <2>1 DEF Answer, NoRequest, TypeInv
    <3> QED BY <1>5, <2>1, <3>1 DEF PlanningCopy
  <2>2. CASE p # q
    BY <1>1, <1>2, <1>5, <2>2 DEF Answer, TypeInv
  <2> QED BY <2>1, <2>2
<1>6. ASSUME NEW q \in Requests, PlanRefused(q) \/ PlanTimesOut(q) \/ PlanParsed(q)
      PROVE  PlanningCopy(p)'
  <2>1. CASE PlanRefused(q)
    BY <1>5, <2>1 DEF PlanRefused, workspaceVars
  <2>2. CASE PlanTimesOut(q)
    BY <1>1, <1>5, <2>2 DEF PlanTimesOut, PlanningCopy
  <2>3. CASE PlanParsed(q)
    <3>1. op' = op /\ op[q] \in {"discarded", "kept"}
      BY <2>3 DEF PlanParsed, workspaceVars
    <3>2. CASE Answer(q, "error") \/ Answer(q, "questions")
      BY <1>5, <3>1, <3>2
    <3>3. CASE Reaches(q, "creating")
      <4>1. p # q => request'[p] = request[p]
        BY <1>1, <3>3 DEF Reaches, TypeInv
      <4>2. request'[q].step = "creating"
        BY <3>3 DEF Reaches, TypeInv, LaunchInv, RequestRecord
      <4> QED BY <1>2, <3>1, <4>1, <4>2 DEF PlanningCopy
    <3> QED BY <2>3, <3>2, <3>3 DEF PlanParsed
  <2> QED BY <1>6, <2>1, <2>2, <2>3
<1>7. ASSUME NEW q \in Requests, CreateWorker(q) \/ StoreSession(q)
      PROVE  PlanningCopy(p)'
  <2>1. op' = op /\ request[q].step = "creating"
    BY <1>7 DEF CreateWorker, StoreSession, Storable, workspaceVars
  <2>2. request'[p].told = request[p].told
        /\ (p = q => request'[p].step \in {"creating", "publishing"})
        /\ (p # q => request'[p] = request[p])
    BY <1>1, <1>7, <2>1 DEF CreateWorker, StoreSession, Reaches, TypeInv, RequestRecord
  <2> QED BY <1>1, <1>2, <2>1, <2>2 DEF PlanningCopy
<1>8. ASSUME NEW q \in Requests, SessionRefused(q) \/ Publish(q)
      PROVE  PlanningCopy(p)'
  <2>1. /\ op' = op /\ request[q].step \in {"creating", "publishing"}
        /\ \E how : Answer(q, how)
    BY <1>8 DEF SessionRefused, Publish, Storable, workspaceVars
  <2>2. p = q => op[p] \notin {"copying", "admitting", "open", "removing"}
    BY <1>1, <2>1 DEF PlanningCopy, Answering
  <2> QED BY <1>5, <2>1, <2>2
<1>9. CASE CoordinatorStep \/ AcceptLost
  <2>1. request' = request
    BY <1>9 DEF CoordinatorStep, AcceptLost, TakeTurn, TurnExhausted, WorkRefused, WorkPasses,
         WorkFails, JobFails, WorkDiscarded, AcceptWork
  <2>2. \/ op' = op
        \/ Unused # {} /\ OpenCopy(NextRun)
        \/ coord.step # "idle" /\ (CommitCopy(coord.run) \/ DiscardCopy(coord.run))
    BY <1>9 DEF CoordinatorStep, AcceptLost, TakeTurn, TurnExhausted, WorkRefused, WorkPasses,
         WorkFails, WorkIsUseless, JobFails, WorkDiscarded, AcceptWork, workspaceVars, files
  <2>3. coord.step # "idle" => coord.run \in Attempts
    BY <1>1 DEF TypeInv
  <2>4. Unused # {} => NextRun \in Attempts
    BY DEF Unused, NextRun
  <2>5. \A r \in Attempts : OpenCopy(r) \/ CommitCopy(r) \/ DiscardCopy(r) => op'[p] = op[p]
    BY <1>1 DEF OpenCopy, CommitCopy, DiscardCopy, Becomes, TypeInv, WorkspaceTypeOK
  <2> QED BY <1>2, <2>1, <2>2, <2>3, <2>4, <2>5
<1>10. CASE CopyStep \/ ((\E r \in Runs : Stumble(r)) /\ UNCHANGED launchVars)
  <2>1. request' = request
    BY <1>10 DEF CopyStep, launchVars
  <2>2. PICK r \in Runs : Proceed(r) \/ Admit(r) \/ Refuse(r) \/ RunEnds(r) \/ Stumble(r)
    BY <1>10 DEF CopyStep, Admitted, Refused
  <2>3. \/ op'[p] = op[p]
        \/ op[p] = "copying" /\ op'[p] \in {"admitting", "rejected"}
        \/ op[p] = "admitting" /\ op'[p] \in {"open", "rejected"}
        \/ op[p] # "unused" /\ op'[p] \notin {"copying", "admitting", "open", "removing"}
    BY <1>1, <2>2 DEF Proceed, Copied, Save, Promote, Clean, RecordCommit, Remove, NoteDiscard,
         Admit, Refuse, RunEnds, Stumble, CopyFails, CommitFails, DiscardFails, Becomes, TypeInv,
         WorkspaceTypeOK
  <2> QED BY <1>1, <2>1, <2>3 DEF PlanningCopy
<1>11. CASE (\E q \in Requests : LaunchFails(q)) \/ Crash
  BY <1>1, <1>11 DEF LaunchFails, Crash, CrashRestart, Trouble
<1>12. CASE UNCHANGED vars
  BY <1>2, <1>12 DEF vars, workspaceVars, launchVars
<1> QED BY <1>3, <1>4, <1>6, <1>7, <1>8, <1>9, <1>10, <1>11, <1>12 DEF Next, RequestStep

\* The coordinator knows of the copy that is made for it, and lets go of no other one.
LEMMA CoordKept ==
  ASSUME LaunchInv, CoordInv, [Next]_vars, trouble' = trouble
  PROVE  CoordInv'
<1>1. /\ TypeInv /\ trouble # trouble + 1 /\ coord \in CoordRecord
      /\ Attempts \subseteq Runs /\ \A r \in Attempts : r \notin Requests
  BY WorkspaceAssumption DEF LaunchInv, TypeInv, WorkspaceTypeOK, Attempts
<1>2. CASE coord' = coord /\ \A r \in Attempts : op'[r] = "copying" => op[r] = "copying"
  BY <1>2 DEF CoordInv
<1>3. CASE \E q \in Requests : Submit(q) \/ RequestStep(q) \/ LaunchFails(q)
  <2>1. coord' = coord
    BY <1>3 DEF Submit, RequestStep, LaunchFails, PlanRefused, PlanEnds, PlanTimesOut, PlanParsed,
         CreateWorker, StoreSession, SessionRefused, Publish
  <2>2. op' = op \/ \E q \in Requests : OpenCopy(q) \/ DiscardCopy(q)
    BY <1>3 DEF Submit, RequestStep, LaunchFails, PlanRefused, PlanEnds, PlanTimesOut, PlanParsed,
         CreateWorker, StoreSession, SessionRefused, Publish, workspaceVars
  <2>3. \A q \in Requests, r \in Attempts : OpenCopy(q) \/ DiscardCopy(q) => op'[r] = op[r]
    BY <1>1 DEF OpenCopy, DiscardCopy, Becomes, TypeInv, WorkspaceTypeOK
  <2> QED BY <1>2, <2>1, <2>2, <2>3
<1>4. ASSUME NEW q \in Requests, TakeTurn(q) PROVE CoordInv'
  <2>1. NextRun \in Attempts
    BY <1>4 DEF TakeTurn, Unused, NextRun
  <2>2. coord'.step = "working" /\ coord'.run = NextRun
    BY <1>4 DEF TakeTurn
  <2>3. \A r \in Attempts : r # NextRun => op'[r] = op[r]
    BY <1>1, <1>4 DEF TakeTurn, OpenCopy, Becomes, TypeInv, WorkspaceTypeOK
  <2>4. \A r \in Attempts : op[r] # "copying"
    BY <1>4 DEF TakeTurn, CoordInv
  <2> HIDE DEF NextRun
  <2>5. ASSUME NEW r \in Attempts, op'[r] = "copying" PROVE r = NextRun
    BY <2>3, <2>4, <2>5
  <2> QED BY <2>2, <2>5 DEF CoordInv
<1>5. CASE \E q \in Requests : TurnExhausted(q)
  BY <1>2, <1>5 DEF TurnExhausted, workspaceVars
<1>6. CASE WorkRefused \/ JobFails \/ WorkDiscarded \/ AcceptWork
  <2>1. coord' = Idle /\ op' = op /\ coord.step # "idle"
    BY <1>6 DEF WorkRefused, JobFails, WorkIsUseless, WorkDiscarded, AcceptWork, workspaceVars
  <2>2. coord.step = "working" => op[coord.run] # "copying"
    <3>1. coord.step = "working" => coord.run \in Runs
      BY <1>1 DEF TypeInv
    <3>2. \A r \in Runs : op[r] = "copying" => status[r] = "none"
      BY DEF LaunchInv, WantedInv, Beginning
    <3> QED BY <1>6, <3>1, <3>2 DEF WorkRefused, JobFails, WorkIsUseless, WorkDiscarded, AcceptWork
  <2> QED BY <2>1, <2>2 DEF CoordInv, Idle
<1>7. CASE WorkPasses \/ WorkFails
  <2>1. /\ coord.step # "idle" /\ coord.run \in Attempts
        /\ coord' = [coord EXCEPT !.step = "committing"] \/ coord' = [coord EXCEPT !.step = "discarding"]
        /\ CommitCopy(coord.run) \/ DiscardCopy(coord.run)
    BY <1>1, <1>7 DEF WorkPasses, WorkFails, WorkIsUseless, TypeInv
  <2>2. coord'.step # "idle" /\ coord'.run = coord.run
    BY <1>1, <2>1 DEF CoordRecord
  <2>3. \A r \in Attempts : op'[r] # "copying"
    <3>1. op[coord.run] # "copying" /\ op'[coord.run] # "copying"
      BY <1>1, <2>1 DEF CommitCopy, DiscardCopy, Becomes, TypeInv, WorkspaceTypeOK
    <3>2. \A r \in Attempts : r # coord.run => op'[r] = op[r]
      BY <1>1, <2>1 DEF CommitCopy, DiscardCopy, Becomes, TypeInv, WorkspaceTypeOK
    <3> QED BY <3>1, <3>2 DEF CoordInv
  <2> QED BY <2>2, <2>3 DEF CoordInv
<1>8. CASE CopyStep \/ ((\E r \in Runs : Stumble(r)) /\ UNCHANGED launchVars)
  <2>1. coord' = coord
    BY <1>8 DEF CopyStep, launchVars
  <2>2. PICK r \in Runs : Proceed(r) \/ Admit(r) \/ Refuse(r) \/ RunEnds(r) \/ Stumble(r)
    BY <1>8 DEF CopyStep, Admitted, Refused
  <2>3. \A p \in Attempts : op'[p] = "copying" => op[p] = "copying"
    BY <1>1, <2>2 DEF Proceed, Copied, Save, Promote, Clean, RecordCommit, Remove, NoteDiscard,
         Admit, Refuse, RunEnds, Stumble, CopyFails, CommitFails, DiscardFails, Becomes, TypeInv,
         WorkspaceTypeOK
  <2> QED BY <1>2, <2>1, <2>3
<1>9. CASE AcceptLost \/ Crash
  BY <1>1, <1>9 DEF AcceptLost, Crash, CrashRestart, Trouble
<1>10. CASE UNCHANGED vars
  BY <1>2, <1>10 DEF vars, workspaceVars, launchVars
<1> QED BY <1>3, <1>4, <1>5, <1>6, <1>7, <1>8, <1>9, <1>10 DEF Next, CoordinatorStep

\* As many more jobs as copies.
LEMMA OneMoreEach ==
  ASSUME NEW L, NEW F, IsFiniteSet(L), IsFiniteSet(F), Cardinality(L) <= Cardinality(F),
         NEW M, NEW G, NEW x, NEW y, F \subseteq G, G \subseteq F \cup {y},
         M \subseteq L \/ (M \subseteq L \cup {x} /\ y \in G /\ y \notin F)
  PROVE  IsFiniteSet(M) /\ IsFiniteSet(G) /\ Cardinality(M) <= Cardinality(G)
<1>1. IsFiniteSet(F \cup {y}) /\ IsFiniteSet(L \cup {x})
  BY FS_AddElement
<1>2. IsFiniteSet(G) /\ IsFiniteSet(M)
  BY <1>1, FS_Subset
<1>3. /\ Cardinality(L) \in Nat /\ Cardinality(F) \in Nat
      /\ Cardinality(M) \in Nat /\ Cardinality(G) \in Nat
  BY <1>2, FS_CardinalityType
<1>4. Cardinality(F) <= Cardinality(G)
  BY <1>2, FS_Subset
<1>5. CASE M \subseteq L
  <2>1. Cardinality(M) <= Cardinality(L)
    BY <1>5, FS_Subset
  <2> QED BY <1>2, <1>3, <1>4, <2>1
<1>6. CASE M \subseteq L \cup {x} /\ y \in G /\ y \notin F
  <2>1. G = F \cup {y}
    BY <1>6
  <2>2. Cardinality(G) = Cardinality(F) + 1
    BY <1>6, <2>1, FS_AddElement
  <2>3. Cardinality(L \cup {x}) \in {Cardinality(L), Cardinality(L) + 1}
    BY FS_AddElement
  <2>4. Cardinality(L \cup {x}) \in Nat
    BY <1>1, FS_CardinalityType
  <2>5. Cardinality(M) <= Cardinality(L \cup {x})
    BY <1>1, <1>6, FS_Subset
  <2>6. \A k, l, f, m \in Nat : k \in {l, l + 1} /\ l <= f /\ m <= k => m <= f + 1
    OBVIOUS
  <2>7. Cardinality(M) <= Cardinality(F) + 1
    BY <1>3, <2>3, <2>4, <2>5, <2>6
  <2> QED BY <1>2, <2>2, <2>7
<1> QED BY <1>5, <1>6

\* Only sessions that have not ended change, one at a time.
LEMMA OneSession ==
  ASSUME TypeInv, TruthInv, JobInv, [Next]_vars, trouble' = trouble
  PROVE  \/ session' = session
         \/ \E y \in Requests : /\ session[y].status # "ended"
                                /\ \A p \in Requests : p # y => session'[p] = session[p]
<1>1. /\ trouble # trouble + 1
      /\ coord.step # "idle" => coord.of \in Requests /\ session[coord.of].status = "running"
  BY WorkspaceAssumption DEF TypeInv, WorkspaceTypeOK, JobInv, WorkedOn
<1>2. ASSUME NEW q \in Requests, StoreSession(q) \/ Publish(q)
      PROVE  session[q].status # "ended" /\ \A p \in Requests : p # q => session'[p] = session[p]
  BY <1>2 DEF StoreSession, Publish, Storable, TruthInv, AnswerInv, Answering, TypeInv
<1>3. ASSUME NEW q \in Requests, TakeTurn(q) \/ TurnExhausted(q)
      PROVE  session[q].status # "ended" /\ \A p \in Requests : p # q => session'[p] = session[p]
  BY <1>3 DEF TakeTurn, TurnExhausted, Ends, TypeInv
<1>4. ASSUME WorkRefused \/ JobFails \/ AcceptWork
      PROVE  /\ coord.step # "idle"
             /\ \A p \in Requests : p # coord.of => session'[p] = session[p]
  BY <1>4 DEF WorkRefused, JobFails, WorkIsUseless, AcceptWork, Ends, TypeInv
<1>5. \/ session' = session
      \/ \E q \in Requests : StoreSession(q) \/ Publish(q) \/ TakeTurn(q) \/ TurnExhausted(q)
      \/ WorkRefused \/ JobFails \/ AcceptWork
      \/ AcceptLost \/ Crash
  BY DEF Next, RequestStep, CoordinatorStep, Submit, PlanRefused, PlanEnds, PlanTimesOut,
         PlanParsed, CreateWorker, SessionRefused, LaunchFails, WorkPasses, WorkFails,
         WorkDiscarded, CopyStep, launchVars, vars
<1>6. ~AcceptLost /\ ~Crash
  BY <1>1 DEF AcceptLost, Crash, CrashRestart, Trouble
<1> QED BY <1>1, <1>2, <1>3, <1>4, <1>5, <1>6

\* A job that has failed remains so, and one at a time joins it.
LEMMA FailedRemain ==
  ASSUME TypeInv, TruthInv, JobInv, [Next]_vars, trouble' = trouble
  PROVE  FailedJobs \subseteq FailedJobs' /\ \E y : FailedJobs' \subseteq FailedJobs \cup {y}
<1>1. CASE session' = session
  BY <1>1 DEF FailedJobs, Failed
<1>2. ASSUME NEW y \in Requests, session[y].status # "ended",
             \A p \in Requests : p # y => session'[p] = session[p]
      PROVE  FailedJobs \subseteq FailedJobs' /\ FailedJobs' \subseteq FailedJobs \cup {y}
  BY <1>2 DEF FailedJobs, Failed
<1> QED BY <1>1, <1>2, OneSession

\* The last attempt of a job fails it: it has not failed before.
LEMMA JobJoins ==
  ASSUME TypeInv, JobInv, JobFails
  PROVE  \E y : y \in FailedJobs' /\ y \notin FailedJobs /\ FailedJobs' \subseteq FailedJobs \cup {y}
<1>1. PICK q \in Requests : q = coord.of /\ session[q].status = "running" /\ session[q] \in SessionRecord
  BY DEF TypeInv, JobInv, WorkedOn, JobFails, WorkIsUseless
<1>2. PICK rec : rec = [session[q] EXCEPT !.status = "ended"]
  OBVIOUS
<1>3. rec.status = "ended" /\ rec.plan = session[q].plan /\ rec.accepted = session[q].accepted
  BY <1>1, <1>2 DEF SessionRecord
<1>4. session' = [session EXCEPT ![q] = rec]
  BY <1>1, <1>2 DEF JobFails, Ends
<1>5. \A p \in Requests : (p # q => session'[p] = session[p]) /\ (p = q => session'[p] = rec)
  BY <1>4 DEF TypeInv
<1>6. Len(rec.accepted) < Len(rec.plan.steps)
  BY <1>1, <1>3 DEF JobInv, JobOf
<1>7. q \in FailedJobs' /\ q \notin FailedJobs /\ FailedJobs' \subseteq FailedJobs \cup {q}
  BY <1>1, <1>3, <1>5, <1>6 DEF FailedJobs, Failed
<1> QED BY <1>7

\* No copy is left behind except the last one of a job that fails.
LEMMA NothingMoreIsLeft ==
  ASSUME LaunchInv, DirsInv, CoordInv, [Next]_vars, trouble' = trouble
  PROVE  \/ LeftOver' \subseteq LeftOver
         \/ JobFails /\ LeftOver' \subseteq LeftOver \cup {coord.run}
<1>1. /\ TypeInv /\ trouble # trouble + 1 /\ coord \in CoordRecord
      /\ Attempts \subseteq Runs /\ NoRun \notin Attempts
      /\ coord.step # "idle" => coord.run \in Attempts
  BY WorkspaceAssumption, LaunchAssumption DEF LaunchInv, TypeInv, WorkspaceTypeOK, Attempts
<1>2. CASE coord' = coord
  <2>1. ASSUME NEW r \in Attempts, scratch'[r].there, r # coord.run PROVE scratch[r].there
    <3>1. CopyMoves(r) /\ op[r] # "copying"
      BY <1>1, <2>1, AllMoves DEF CoordInv
    <3> QED BY <2>1, <3>1 DEF CopyMoves
  <2> QED BY <1>2, <2>1 DEF LeftOver
<1>3. ASSUME scratch' = scratch, coord'.run = coord.run \/ coord.run \notin Attempts
                                   \/ ~scratch[coord.run].there
      PROVE  LeftOver' \subseteq LeftOver
  BY <1>3 DEF LeftOver
<1>4. CASE \E q \in Requests : TakeTurn(q)
  BY <1>1, <1>3, <1>4 DEF TakeTurn, CoordInv, OpenCopy, files
<1>5. CASE WorkRefused \/ WorkDiscarded \/ AcceptWork
  <2>1. /\ scratch' = scratch /\ coord.step # "idle"
        /\ op[coord.run] \in {"rejected", "discarded", "kept", "committed"}
    BY <1>5 DEF WorkRefused, WorkDiscarded, AcceptWork, workspaceVars
  <2>2. ~scratch[coord.run].there
    BY <1>1, <2>1 DEF DirsInv
  <2> QED BY <1>3, <2>1, <2>2
<1>6. CASE WorkPasses \/ WorkFails
  BY <1>1, <1>3, <1>6 DEF WorkPasses, WorkFails, CommitCopy, DiscardCopy, files, CoordRecord
<1>7. CASE JobFails
  BY <1>7 DEF JobFails, workspaceVars, LeftOver
<1>8. ~AcceptLost /\ ~Crash
  BY <1>1 DEF AcceptLost, Crash, CrashRestart, Trouble
<1>9. \/ coord' = coord
      \/ \E q \in Requests : TakeTurn(q)
      \/ WorkRefused \/ WorkDiscarded \/ AcceptWork \/ WorkPasses \/ WorkFails \/ JobFails
      \/ AcceptLost \/ Crash
  BY DEF Next, RequestStep, CoordinatorStep, Submit, PlanRefused, PlanEnds, PlanTimesOut,
         PlanParsed, CreateWorker, StoreSession, SessionRefused, Publish, LaunchFails,
         TurnExhausted, CopyStep, launchVars, vars
<1> QED BY <1>2, <1>4, <1>5, <1>6, <1>7, <1>8, <1>9

LEMMA CleanNext ==
  ASSUME LaunchInv, TruthInv, JobInv, CleanInv, [Next]_vars
  PROVE  CleanInv'
<1> SUFFICES ASSUME trouble' = 0
             PROVE  DirsInv' /\ CoordInv' /\ LeftInv' /\ \A q \in Requests : PlanningCopy(q)'
  BY DEF CleanInv
<1>1. TypeInv /\ trouble = 0 /\ trouble' = trouble
  BY TroubleRemains DEF LaunchInv
<1>2. DirsInv /\ CoordInv /\ LeftInv /\ \A q \in Requests : PlanningCopy(q)
  BY <1>1 DEF CleanInv
<1>3. DirsInv'
  BY <1>1, <1>2, AllMoves, DirsKept
<1>4. CoordInv'
  BY <1>1, <1>2, CoordKept
<1>5. \A q \in Requests : PlanningCopy(q)'
  BY <1>1, <1>2, PlanningKept
<1>6. LeftInv'
  <2>1. IsFiniteSet(LeftOver) /\ IsFiniteSet(FailedJobs) /\ Cardinality(LeftOver) <= Cardinality(FailedJobs)
    BY <1>2 DEF LeftInv
  <2>2. FailedJobs \subseteq FailedJobs'
    BY <1>1, FailedRemain
  <2>3. PICK x, y : /\ FailedJobs' \subseteq FailedJobs \cup {y}
                    /\ \/ LeftOver' \subseteq LeftOver
                       \/ /\ LeftOver' \subseteq LeftOver \cup {x}
                          /\ y \in FailedJobs' /\ y \notin FailedJobs
    BY <1>1, <1>2, FailedRemain, JobJoins, NothingMoreIsLeft
  <2>4. PICK L, F, M, G : L = LeftOver /\ F = FailedJobs /\ M = LeftOver' /\ G = FailedJobs'
    OBVIOUS
  <2>5. IsFiniteSet(L) /\ IsFiniteSet(F) /\ Cardinality(L) <= Cardinality(F)
    BY <2>1, <2>4
  <2>6. /\ F \subseteq G /\ G \subseteq F \cup {y}
        /\ M \subseteq L \/ (M \subseteq L \cup {x} /\ y \in G /\ y \notin F)
    BY <2>2, <2>3, <2>4
  <2>7. IsFiniteSet(M) /\ IsFiniteSet(G) /\ Cardinality(M) <= Cardinality(G)
    BY <2>5, <2>6, OneMoreEach
  <2> QED BY <2>4, <2>7 DEF LeftInv
<1> QED BY <1>3, <1>4, <1>5, <1>6

\* Through everything that can go wrong: a run that has not been admitted has no status
\* yet, a copy is gone before its end is stored, and a copy whose run was admitted is
\* stored as open.
Recorded(r) ==
  /\ op[r] \in {"unused", "copying", "admitting"} => status[r] = "none"
  /\ op[r] \in {"cleaning", "recording", "committed", "noting", "discarded"} => ~scratch[r].there
  /\ OnRecord(r)
RecordInv == \A r \in Runs : Recorded(r)

LEMMA RecordOfCopy ==
  ASSUME TypeInv, RecordInv, NEW r \in Runs,
         Proceed(r) \/ Admit(r) \/ Refuse(r) \/ RunEnds(r) \/ Stumble(r)
  PROVE  RecordInv'
<1>1. WorkspaceTypeOK /\ ~NoDir.there
  BY DEF TypeInv, NoDir
<1>2. CASE Copied(r) \/ Admit(r) \/ Refuse(r) \/ CopyFails(r)
  BY <1>1, <1>2 DEF WorkspaceTypeOK, Copied, Admit, Refuse, CopyFails, Becomes, files, RecordInv,
     Recorded, OnRecord
<1>3. CASE Save(r) \/ Promote(r) \/ Clean(r) \/ RecordCommit(r) \/ CommitFails(r)
  BY <1>1, <1>3 DEF WorkspaceTypeOK, Save, Promote, Clean, RecordCommit, CommitFails, Becomes,
     files, RecordInv, Recorded, OnRecord
<1>4. CASE Remove(r) \/ NoteDiscard(r) \/ DiscardFails(r)
  BY <1>1, <1>4 DEF WorkspaceTypeOK, Remove, NoteDiscard, DiscardFails, Becomes, files, RecordInv,
     Recorded, OnRecord
<1>5. CASE RunEnds(r)
  <2>1. PICK d \in Directory : d.there = scratch[r].there /\ scratch' = [scratch EXCEPT ![r] = d]
    BY <1>1, <1>5, Directories DEF WorkspaceTypeOK, RunEnds
  <2>2. PICK how \in {"completed", "ended"} : status' = [status EXCEPT ![r] = how]
    BY <1>5 DEF RunEnds
  <2> QED BY <1>1, <1>5, <2>1, <2>2 DEF WorkspaceTypeOK, RunEnds, RecordInv, Recorded, OnRecord
<1> QED BY <1>2, <1>3, <1>4, <1>5 DEF Proceed, Stumble

LEMMA RecordNext ==
  ASSUME TypeInv, RecordInv, [Next]_vars
  PROVE  RecordInv'
<1>1. WorkspaceTypeOK /\ Requests \subseteq Runs /\ Attempts \subseteq Runs /\ ~NoDir.there
  BY LaunchAssumption DEF TypeInv, Attempts, NoDir
<1>2. CASE /\ UNCHANGED <<scratch, txn, op>>
           /\ \A p \in Runs : status'[p] = status[p] \/ (status[p] = "running" /\ status'[p] # "none")
  BY <1>2 DEF RecordInv, Recorded, OnRecord
<1>3. ASSUME NEW r \in Runs, OpenCopy(r) \/ CommitCopy(r) \/ DiscardCopy(r)
      PROVE  RecordInv'
  BY <1>1, <1>3 DEF WorkspaceTypeOK, OpenCopy, CommitCopy, DiscardCopy, Becomes, files, RecordInv,
     Recorded, OnRecord
<1>4. CASE \E q \in Requests : PlanTimesOut(q)
  <2>1. PICK q \in Requests : PlanTimesOut(q)
    BY <1>4
  <2>2. \A p \in Runs : status'[p] = status[p] \/ (status[p] = "running" /\ status'[p] # "none")
    BY <1>1, <2>1 DEF PlanTimesOut, WorkspaceTypeOK
  <2> QED BY <1>2, <2>1, <2>2 DEF PlanTimesOut, files
<1>5. CASE \E q \in Requests : Submit(q) \/ PlanEnds(q)
  BY <1>1, <1>3, <1>5 DEF Submit, PlanEnds
<1>6. CASE \E q \in Requests : TakeTurn(q)
  <2>1. NextRun \in Attempts /\ OpenCopy(NextRun)
    BY <1>6 DEF TakeTurn, Unused, NextRun
  <2> QED BY <1>1, <1>3, <2>1
<1>7. CASE WorkPasses \/ WorkFails
  <2>1. coord.run \in Attempts /\ (CommitCopy(coord.run) \/ DiscardCopy(coord.run))
    BY <1>7 DEF WorkPasses, WorkFails, WorkIsUseless, TypeInv
  <2> QED BY <1>1, <1>3, <2>1
<1>8. CASE CopyStep \/ ((\E r \in Runs : Stumble(r)) /\ UNCHANGED launchVars)
  BY <1>8, RecordOfCopy DEF CopyStep, Admitted, Refused
<1>9. CASE Crash
  BY <1>1, <1>9 DEF Crash, CrashRestart, WorkspaceTypeOK, RecordInv, Recorded, OnRecord
<1>10. CASE UNCHANGED <<scratch, txn, status, op>>
  BY <1>2, <1>10
<1>11. \/ UNCHANGED <<scratch, txn, status, op>>
       \/ \E q \in Requests : Submit(q) \/ PlanEnds(q) \/ PlanTimesOut(q) \/ TakeTurn(q)
       \/ WorkPasses \/ WorkFails \/ Crash
       \/ CopyStep \/ ((\E r \in Runs : Stumble(r)) /\ UNCHANGED launchVars)
  BY DEF Next, RequestStep, LaunchFails, PlanRefused, PlanParsed, CreateWorker, StoreSession,
     SessionRefused, Publish, CoordinatorStep, AcceptLost, TurnExhausted, WorkRefused, JobFails,
     WorkDiscarded, AcceptWork, CopyStep, vars, workspaceVars, files
<1> QED BY <1>4, <1>5, <1>6, <1>7, <1>8, <1>9, <1>10, <1>11

\* Copies are cleaned up.  Whatever goes wrong, the copy of a run that was admitted is
\* stored as open as long as it is there.  As long as nothing goes wrong, a backup is
\* there while its copy is promoted, the copy of a planning run until its request is
\* answered, unless it took too long, and of a job's runs at most the last one leaves
\* its copy.
THEOREM CopiesAreKeptTidy == Spec => []CopiesAreCleanedUp
<1> DEFINE I == LaunchInv /\ TruthInv /\ JobInv /\ CleanInv /\ RecordInv
<1>1. Init => I
  <2>1. Init => RecordInv
    BY DEF Init, WorkspaceInit, NoDir, RecordInv, Recorded, OnRecord
  <2> QED BY <2>1, LaunchInit, TruthInit, JobInit, CleanInit
<1>2. I /\ [Next]_vars => I'
  BY LaunchNext, TruthNext, JobsAreKept, CleanNext, RecordNext DEF LaunchInv
<1>3. I => CopiesAreCleanedUp
  <2>0. I => \A r \in Runs : OnRecord(r)
    BY DEF RecordInv, Recorded
  <2> SUFFICES ASSUME I, trouble = 0
               PROVE  /\ \A r \in Runs : backup[r].there => coord.step = "committing" /\ coord.run = r
                      /\ \A q \in Requests : scratch[q].there =>
                           request[q].step \in {"planning", "discarding"} \/ request[q].told = "error"
                      /\ Cardinality(LeftOver) <= Cardinality(FailedJobs)
    BY <2>0 DEF CopiesAreCleanedUp, Tidy, LeftOver, FailedJobs
  <2>1. DirsInv /\ LeftInv /\ \A q \in Requests : PlanningCopy(q)
    BY DEF CleanInv
  <2>2. \A r \in Runs : op[r] \in Committing => coord.step = "committing" /\ coord.run = r
    BY DEF LaunchInv, HandInv
  <2>3. \A r \in Runs : backup[r].there => coord.step = "committing" /\ coord.run = r
    BY <2>1, <2>2 DEF DirsInv, Committing
  <2>4. ASSUME NEW q \in Requests, scratch[q].there
        PROVE  request[q].step \in {"planning", "discarding"} \/ request[q].told = "error"
    <3>1. q \in Runs /\ q \notin Attempts /\ (coord.step # "idle" => coord.run \in Attempts)
      BY LaunchAssumption DEF Attempts, LaunchInv, TypeInv
    <3>2. op[q] \in {"admitting", "open", "removing"}
      BY <2>1, <2>2, <2>4, <3>1 DEF DirsInv, Committing
    <3> QED BY <2>1, <3>2 DEF PlanningCopy
  <2> QED BY <2>1, <2>3, <2>4 DEF LeftInv
<1> QED BY <1>1, <1>2, <1>3, PTL DEF Spec

-----------------------------------------------------------------------------
(* Nobody waits for nothing                                                  *)

Requested == {"copying", "admitting", "rejected", "open"}
Promoted == Committing \cup {"committed", "failed"}
Discarded == {"removing", "noting", "discarded", "kept"}

\* A copy that is open, or is being promoted, is stored as open, and its run has
\* been started; and there is a workspace to put it into.
Stored(r) ==
  /\ op[r] \in Committing \cup {"open", "failed"} => txn[r] = "open" /\ status[r] # "none"
  /\ InHand(r) /\ op[r] \in {"admitting", "open", "saving"} => shared.there

\* A handler that waits for its copy has asked for what it waits for, and one that
\* makes workers has a role for the next one.
HandlerGoesOn(q) ==
  /\ request[q].step = "planning" => op[q] \in Requested
  /\ request[q].step = "discarding" => op[q] \in Discarded
  /\ request[q].step = "creating" => request[q].made <= Len(request[q].plan.roles)

\* So has the coordinator.
CoordinatorGoesOn ==
  /\ coord.step = "working" => op[coord.run] \in Requested
  /\ coord.step = "committing" => op[coord.run] \in Promoted
  /\ coord.step = "discarding" => op[coord.run] \in Discarded

EverybodyGoesOn ==
  /\ \A r \in Runs : Stored(r)
  /\ \A q \in Requests : HandlerGoesOn(q)
  /\ CoordinatorGoesOn

LEMMA GoingInit == Init => EverybodyGoesOn
BY DEF Init, WorkspaceInit, EverybodyGoesOn, Stored, HandlerGoesOn, CoordinatorGoesOn, Committing,
   InHand, NoRequest, Idle

\* What a step other than a crash does with one copy.
OpMoves(r) ==
  LET from(steps, to) == op[r] \in steps /\ op'[r] \in to
      same == txn'[r] = txn[r] /\ status'[r] = status[r] IN
  \/ /\ op'[r] = op[r] /\ txn'[r] = txn[r]
     /\ status'[r] = status[r] \/ (status[r] = "running" /\ status'[r] # "none")
  \/ from({"unused"}, {"copying"})
  \/ from({"copying"}, {"admitting"}) /\ shared.there
  \/ from({"copying", "admitting"}, {"rejected"})
  \/ from({"admitting"}, {"open"}) /\ txn'[r] = "open" /\ status'[r] = "running"
  \/ from({"open"}, {"saving"}) /\ same
  \/ from(Committing, Committing \ {"saving"}) /\ same
  \/ from(Committing, {"failed"}) /\ same
  \/ from({"recording"}, {"committed"})
  \/ from({"open", "failed"}, {"removing"})
  \/ from({"removing", "noting"}, {"noting", "discarded", "kept"})

LEMMA HandOver ==
  ASSUME TypeInv, NEW r \in Runs, OpenCopy(r) \/ CommitCopy(r) \/ DiscardCopy(r)
  PROVE  \A p \in Runs : OpMoves(p) /\ (p # r => op'[p] = op[p])
BY DEF TypeInv, WorkspaceTypeOK, OpenCopy, CommitCopy, DiscardCopy, Becomes, OpMoves

LEMMA OnDisk ==
  ASSUME TypeInv, NEW r \in Runs,
         Proceed(r) \/ Admit(r) \/ Refuse(r) \/ RunEnds(r) \/ Stumble(r)
  PROVE  \A p \in Runs : OpMoves(p)
<1>1. WorkspaceTypeOK
  BY DEF TypeInv
<1>2. CASE Copied(r) \/ Admit(r) \/ Refuse(r) \/ CopyFails(r)
  BY <1>1, <1>2 DEF WorkspaceTypeOK, Copied, Admit, Refuse, CopyFails, Becomes, OpMoves
<1>3. CASE Save(r) \/ Promote(r) \/ Clean(r) \/ RecordCommit(r) \/ CommitFails(r)
  BY <1>1, <1>3 DEF WorkspaceTypeOK, Save, Promote, Clean, RecordCommit, CommitFails, Becomes,
     Committing, OpMoves
<1>4. CASE Remove(r) \/ NoteDiscard(r) \/ DiscardFails(r)
  BY <1>1, <1>4 DEF WorkspaceTypeOK, Remove, NoteDiscard, DiscardFails, Becomes, OpMoves
<1>5. CASE RunEnds(r)
  BY <1>1, <1>5 DEF WorkspaceTypeOK, RunEnds, OpMoves
<1> QED BY <1>2, <1>3, <1>4, <1>5 DEF Proceed, Stumble

\* What a step of the requests or the coordinator does with the copies.
LEMMA ByHand ==
  ASSUME TypeInv,
         \/ \E q \in Requests : Submit(q) \/ RequestStep(q) \/ LaunchFails(q)
         \/ CoordinatorStep \/ AcceptLost
  PROVE  /\ shared' = shared
         /\ \A p \in Runs : OpMoves(p)
<1>1. Requests \subseteq Runs /\ Attempts \subseteq Runs
  BY LaunchAssumption DEF Attempts
<1>2. CASE UNCHANGED <<files, txn, op>>
           /\ \A p \in Runs : status'[p] = status[p] \/ (status[p] = "running" /\ status'[p] # "none")
  BY <1>2 DEF files, OpMoves
<1>3. CASE \E q \in Requests : PlanTimesOut(q)
  <2>1. PICK q \in Requests : PlanTimesOut(q)
    BY <1>3
  <2>2. \A p \in Runs : status'[p] = status[p] \/ (status[p] = "running" /\ status'[p] # "none")
    BY <2>1 DEF PlanTimesOut, TypeInv, WorkspaceTypeOK
  <2> QED BY <1>2, <2>1, <2>2 DEF PlanTimesOut
<1>4. CASE \E q \in Requests : Submit(q) \/ PlanEnds(q)
  BY <1>1, <1>4, HandOver DEF Submit, PlanEnds, OpenCopy, DiscardCopy, files
<1>5. CASE \E q \in Requests : TakeTurn(q)
  <2>1. NextRun \in Attempts /\ OpenCopy(NextRun)
    BY <1>5 DEF TakeTurn, Unused, NextRun
  <2> QED BY <1>1, <2>1, HandOver DEF OpenCopy, files
<1>6. CASE WorkPasses \/ WorkFails
  <2>1. coord.run \in Attempts /\ (CommitCopy(coord.run) \/ DiscardCopy(coord.run))
    BY <1>6 DEF WorkPasses, WorkFails, WorkIsUseless, TypeInv
  <2> QED BY <1>1, <2>1, HandOver DEF CommitCopy, DiscardCopy, files
<1>7. \/ UNCHANGED <<files, txn, status, op>>
      \/ \E q \in Requests : Submit(q) \/ PlanEnds(q) \/ PlanTimesOut(q) \/ TakeTurn(q)
      \/ WorkPasses \/ WorkFails
  BY DEF RequestStep, LaunchFails, PlanRefused, PlanParsed, CreateWorker, StoreSession,
     SessionRefused, Publish, CoordinatorStep, AcceptLost, TurnExhausted, WorkRefused, JobFails,
     WorkDiscarded, AcceptWork, workspaceVars, files
<1> QED BY <1>2, <1>3, <1>4, <1>5, <1>6, <1>7

\* Every step but a crash moves copies that way, and touches the shared workspace
\* only to promote one.
LEMMA OpsMove ==
  ASSUME TypeInv, [Next]_vars, ~Crash
  PROVE  /\ \A p \in Runs : OpMoves(p)
         /\ \/ shared' = shared
            \/ /\ coord' = coord
               /\ \E r \in Runs : op[r] \in Committing /\ op'[r] \in Promoted \ {"saving"}
<1>1. CASE \/ \E q \in Requests : Submit(q) \/ RequestStep(q) \/ LaunchFails(q)
           \/ CoordinatorStep \/ AcceptLost
  BY <1>1, ByHand
<1>2. CASE CopyStep \/ ((\E r \in Runs : Stumble(r)) /\ UNCHANGED launchVars)
  <2>1. PICK r \in Runs : Proceed(r) \/ Admit(r) \/ Refuse(r) \/ RunEnds(r) \/ Stumble(r)
    BY <1>2 DEF CopyStep, Admitted, Refused
  <2>2. shared' = shared \/ (op[r] \in Committing /\ op'[r] \in Promoted \ {"saving"})
    BY <2>1 DEF Proceed, Copied, Save, Promote, Clean, RecordCommit, Remove, NoteDiscard, Admit,
       Refuse, RunEnds, Stumble, CopyFails, CommitFails, DiscardFails, Becomes, Committing, Promoted,
       TypeInv, WorkspaceTypeOK, files
  <2> QED BY <1>2, <2>1, <2>2, OnDisk DEF CopyStep, launchVars
<1>3. CASE UNCHANGED vars
  BY <1>3 DEF vars, workspaceVars, files, OpMoves
<1> QED BY <1>1, <1>2, <1>3 DEF Next

LEMMA StoredStays ==
  ASSUME LaunchInv, EverybodyGoesOn, [Next]_vars, ~Crash, NEW r \in Runs
  PROVE  Stored(r)'
<1>1. TypeInv /\ OpMoves(r) /\ Stored(r)
  BY OpsMove DEF LaunchInv, EverybodyGoesOn
<1>2. op'[r] \in Committing \cup {"open", "failed"} => txn'[r] = "open" /\ status'[r] # "none"
  BY <1>1 DEF Stored, OpMoves, Committing
<1>3. ASSUME InHand(r)', op'[r] \in {"admitting", "open", "saving"} PROVE shared'.there
  <2>1. InHand(r) \/ op'[r] = "copying"
    <3>1. CASE coord' = coord
      BY <1>3, <3>1 DEF InHand
    <3>2. CASE \E q \in Requests : TakeTurn(q)
      BY <1>1, <1>3, <3>2 DEF TakeTurn, InHand, OpenCopy, Becomes, TypeInv, WorkspaceTypeOK
    <3>3. CASE WorkPasses \/ WorkFails
      <4>1. coord.step \in {"working", "committing"} /\ coord \in CoordRecord
        BY <1>1, <3>3 DEF WorkPasses, WorkFails, WorkIsUseless, TypeInv
      <4>2. \/ coord' = [coord EXCEPT !.step = "committing"]
            \/ coord' = [coord EXCEPT !.step = "discarding"]
        BY <3>3 DEF WorkPasses, WorkFails
      <4>3. coord'.run = coord.run
        BY <4>1, <4>2 DEF CoordRecord
      <4> QED BY <1>3, <4>1, <4>3 DEF InHand
    <3>4. coord' = Idle => ~InHand(r)'
      BY DEF InHand, Idle
    <3>5. \/ coord' = coord \/ coord' = Idle \/ WorkPasses \/ WorkFails
          \/ \E q \in Requests : TakeTurn(q)
      BY DEF Next, RequestStep, CoordinatorStep, Submit, PlanRefused, PlanEnds, PlanTimesOut,
         PlanParsed, CreateWorker, StoreSession, SessionRefused, Publish, LaunchFails,
         TurnExhausted, WorkRefused, JobFails, WorkDiscarded, AcceptWork, AcceptLost, CopyStep,
         launchVars, vars
    <3> QED BY <1>3, <3>1, <3>2, <3>3, <3>4, <3>5
  <2>2. shared.there
    BY <1>1, <1>3, <2>1 DEF Stored, OpMoves, Committing
  <2>3. CASE shared' = shared
    BY <2>2, <2>3
  <2>4. ASSUME coord' = coord, NEW p \in Runs, op[p] \in Committing, op'[p] \in Promoted \ {"saving"}
        PROVE  FALSE
    <3>1. coord.run = p
      BY <2>4 DEF LaunchInv, HandInv
    <3>2. p = r
      BY <1>3, <2>4, <3>1 DEF InHand
    <3> QED BY <1>3, <2>4, <3>2 DEF Promoted, Committing
  <2> QED BY <1>1, <2>3, <2>4, OpsMove
<1> QED BY <1>2, <1>3 DEF Stored

\* What a handler waits for is still to come after a step that leaves it where it is.
LEMMA HandlerStays ==
  ASSUME NEW p \in Requests, HandlerGoesOn(p), request'[p] = request[p], OpMoves(p),
         op[p] = "open" => op'[p] = "open"
  PROVE  HandlerGoesOn(p)'
BY DEF HandlerGoesOn, OpMoves, Requested, Discarded, Committing

LEMMA HandlersGoOn ==
  ASSUME LaunchInv, TruthInv, EverybodyGoesOn, [Next]_vars, ~Crash, NEW p \in Requests
  PROVE  HandlerGoesOn(p)'
<1>1. /\ TypeInv /\ p \in Runs /\ p \notin Attempts /\ HandlerGoesOn(p) /\ OpMoves(p)
      /\ Answering(p) /\ request[p] \in RequestRecord /\ WorkspaceTypeOK
  BY LaunchAssumption, OpsMove
  DEF LaunchInv, TypeInv, Attempts, TruthInv, AnswerInv, EverybodyGoesOn
<1>2. CASE request'[p] = request[p] /\ op'[p] = op[p]
  BY <1>1, <1>2 DEF HandlerGoesOn
<1>3. ASSUME NEW q \in Requests, Submit(q) PROVE HandlerGoesOn(p)'
  <2>1. CASE p = q
    <3>1. op'[p] = "copying"
      BY <1>1, <1>3, <2>1 DEF Submit, OpenCopy, Becomes, WorkspaceTypeOK
    <3>2. PICK brief \in BOOLEAN :
            request' = [request EXCEPT ![q].step = "planning", ![q].brief = brief]
      BY <1>3 DEF Submit
    <3>3. request'[p].step = "planning"
      BY <1>1, <2>1, <3>2 DEF TypeInv, RequestRecord
    <3> QED BY <3>1, <3>3 DEF HandlerGoesOn, Requested
  <2>2. CASE p # q
    BY <1>1, <1>2, <1>3, <2>2 DEF Submit, OpenCopy, Becomes, TypeInv, WorkspaceTypeOK
  <2> QED BY <2>1, <2>2
<1>4. ASSUME NEW q \in Requests, PlanEnds(q) PROVE HandlerGoesOn(p)'
  <2>1. CASE p = q
    <3>1. op'[p] = "removing"
      BY <1>1, <1>4, <2>1 DEF PlanEnds, DiscardCopy, Becomes, WorkspaceTypeOK
    <3>2. PICK plan : request' = [request EXCEPT ![q].step = "discarding", ![q].plan = plan]
      BY <1>4 DEF PlanEnds
    <3>3. request'[p].step = "discarding"
      BY <1>1, <2>1, <3>2 DEF TypeInv, RequestRecord
    <3> QED BY <3>1, <3>3 DEF HandlerGoesOn, Discarded
  <2>2. CASE p # q
    BY <1>1, <1>2, <1>4, <2>2 DEF PlanEnds, DiscardCopy, Becomes, TypeInv, WorkspaceTypeOK
  <2> QED BY <2>1, <2>2
<1>5. ASSUME NEW q \in Requests, op' = op, request'[q].step \in {"answered", "publishing"},
             \A o \in Requests : o # q => request'[o] = request[o]
      PROVE  HandlerGoesOn(p)'
  BY <1>2, <1>5 DEF HandlerGoesOn
<1>6. ASSUME NEW q \in Requests, NEW how, Answer(q, how), op' = op
      PROVE  HandlerGoesOn(p)'
  <2>1. request'[q].step = "answered" /\ \A o \in Requests : o # q => request'[o] = request[o]
    BY <1>1, <1>6 DEF Answer, NoRequest, TypeInv
  <2> QED BY <1>5, <1>6, <2>1
<1>7. ASSUME NEW q \in Requests,
             \/ PlanRefused(q) \/ PlanTimesOut(q) \/ SessionRefused(q)
             \/ Publish(q) \/ LaunchFails(q)
      PROVE  HandlerGoesOn(p)'
  BY <1>6, <1>7 DEF PlanRefused, PlanTimesOut, SessionRefused, Publish, LaunchFails, workspaceVars
<1>8. ASSUME NEW q \in Requests, StoreSession(q) PROVE HandlerGoesOn(p)'
  <2>1. request'[q].step = "publishing" /\ \A o \in Requests : o # q => request'[o] = request[o]
    BY <1>1, <1>8 DEF StoreSession, Reaches, TypeInv, RequestRecord
  <2> QED BY <1>5, <1>8, <2>1 DEF StoreSession, workspaceVars
<1>9. ASSUME NEW q \in Requests, PlanParsed(q) PROVE HandlerGoesOn(p)'
  <2>1. op' = op /\ request[q].step = "discarding"
    BY <1>9 DEF PlanParsed, workspaceVars
  <2>2. CASE Reaches(q, "creating")
    <3>1. CASE p = q
      <4>1. /\ request'[p].step = "creating" /\ request'[p].made = request[p].made
            /\ request'[p].plan = request[p].plan
        BY <1>1, <2>2, <3>1 DEF Reaches, TypeInv, RequestRecord
      <4>2. request[p].made = 0 /\ Len(request[p].plan.roles) \in Nat
        BY <1>1, <2>1, <3>1, PlansAreLists DEF Answering, RequestRecord
      <4> QED BY <4>1, <4>2 DEF HandlerGoesOn
    <3>2. CASE p # q
      BY <1>1, <1>2, <2>1, <2>2, <3>2 DEF Reaches, TypeInv
    <3> QED BY <3>1, <3>2
  <2> QED BY <1>6, <1>9, <2>1, <2>2 DEF PlanParsed
<1>10. ASSUME NEW q \in Requests, CreateWorker(q) PROVE HandlerGoesOn(p)'
  <2>1. PICK n : /\ n <= Len(request[q].plan.roles) /\ request' = [request EXCEPT ![q].made = n]
                 /\ op' = op /\ request[q].step = "creating"
    BY <1>10 DEF CreateWorker, workspaceVars
  <2>2. CASE p = q
    <3>1. /\ request'[p].step = "creating" /\ request'[p].made = n
          /\ request'[p].plan = request[p].plan
      BY <1>1, <2>1, <2>2 DEF TypeInv, RequestRecord
    <3> QED BY <2>1, <2>2, <3>1 DEF HandlerGoesOn
  <2>3. CASE p # q
    BY <1>1, <1>2, <2>1, <2>3 DEF TypeInv
  <2> QED BY <2>2, <2>3
<1>11. CASE CoordinatorStep \/ AcceptLost
  <2>1. request' = request
    BY <1>11 DEF CoordinatorStep, AcceptLost, TakeTurn, TurnExhausted, WorkRefused, WorkPasses,
         WorkFails, JobFails, WorkDiscarded, AcceptWork
  <2>2. \/ op' = op
        \/ Unused # {} /\ OpenCopy(NextRun)
        \/ coord.step # "idle" /\ (CommitCopy(coord.run) \/ DiscardCopy(coord.run))
    BY <1>11 DEF CoordinatorStep, AcceptLost, TakeTurn, TurnExhausted, WorkRefused, WorkPasses,
         WorkFails, WorkIsUseless, JobFails, WorkDiscarded, AcceptWork, workspaceVars, files
  <2>3. coord.step # "idle" => coord.run \in Attempts
    BY <1>1 DEF TypeInv
  <2>4. Unused # {} => NextRun \in Attempts
    BY DEF Unused, NextRun
  <2>5. \A r \in Attempts : OpenCopy(r) \/ CommitCopy(r) \/ DiscardCopy(r) => op'[p] = op[p]
    BY <1>1 DEF OpenCopy, CommitCopy, DiscardCopy, Becomes, WorkspaceTypeOK
  <2> QED BY <1>2, <2>1, <2>2, <2>3, <2>4, <2>5
<1>12. CASE CopyStep \/ ((\E r \in Runs : Stumble(r)) /\ UNCHANGED launchVars)
  <2>1. request' = request
    BY <1>12 DEF CopyStep, launchVars
  <2>2. PICK r \in Runs : Proceed(r) \/ Admit(r) \/ Refuse(r) \/ RunEnds(r) \/ Stumble(r)
    BY <1>12 DEF CopyStep, Admitted, Refused
  <2>3. op[p] = "open" => op'[p] = "open"
    BY <1>1, <2>2 DEF Proceed, Copied, Save, Promote, Clean, RecordCommit, Remove, NoteDiscard,
         Admit, Refuse, RunEnds, Stumble, CopyFails, CommitFails, DiscardFails, Becomes,
         WorkspaceTypeOK
  <2> QED BY <1>1, <2>1, <2>3, HandlerStays
<1>13. CASE UNCHANGED vars
  BY <1>2, <1>13 DEF vars, workspaceVars, launchVars
<1> QED BY <1>3, <1>4, <1>7, <1>8, <1>9, <1>10, <1>11, <1>12, <1>13 DEF Next, RequestStep

LEMMA CoordinatorStays ==
  ASSUME LaunchInv, EverybodyGoesOn, [Next]_vars, ~Crash
  PROVE  CoordinatorGoesOn'
<1>1. /\ TypeInv /\ CoordinatorGoesOn /\ coord \in CoordRecord /\ WorkspaceTypeOK
      /\ (coord.step # "idle" => coord.run \in Attempts)
      /\ Attempts \subseteq Runs /\ \A r \in Attempts : r \notin Requests
  BY DEF LaunchInv, TypeInv, Attempts, EverybodyGoesOn
<1>2. CASE coord' = Idle
  BY <1>2 DEF Idle, CoordinatorGoesOn
<1>3. CASE coord' = coord /\ (coord.step # "idle" => op'[coord.run] = op[coord.run])
  BY <1>1, <1>3 DEF CoordinatorGoesOn
<1>4. CASE \E q \in Requests : Submit(q) \/ RequestStep(q) \/ LaunchFails(q)
  <2>1. coord' = coord
    BY <1>4 DEF Submit, RequestStep, LaunchFails, PlanRefused, PlanEnds, PlanTimesOut, PlanParsed,
         CreateWorker, StoreSession, SessionRefused, Publish
  <2>2. op' = op \/ \E q \in Requests : OpenCopy(q) \/ DiscardCopy(q)
    BY <1>4 DEF Submit, RequestStep, LaunchFails, PlanRefused, PlanEnds, PlanTimesOut, PlanParsed,
         CreateWorker, StoreSession, SessionRefused, Publish, workspaceVars
  <2>3. \A q \in Requests, r \in Attempts : OpenCopy(q) \/ DiscardCopy(q) => op'[r] = op[r]
    BY <1>1 DEF OpenCopy, DiscardCopy, Becomes, WorkspaceTypeOK
  <2> QED BY <1>1, <1>3, <2>1, <2>2, <2>3
<1>5. ASSUME NEW q \in Requests, TakeTurn(q) PROVE CoordinatorGoesOn'
  <2>1. NextRun \in Attempts
    BY <1>5 DEF TakeTurn, Unused, NextRun
  <2>2. coord'.step = "working" /\ coord'.run = NextRun
    BY <1>5 DEF TakeTurn
  <2>3. op'[NextRun] = "copying"
    BY <1>1, <1>5, <2>1 DEF TakeTurn, OpenCopy, Becomes, WorkspaceTypeOK
  <2> QED BY <2>2, <2>3 DEF CoordinatorGoesOn, Requested
<1>6. CASE \E q \in Requests : TurnExhausted(q)
  BY <1>3, <1>6 DEF TurnExhausted, workspaceVars
<1>7. CASE WorkRefused \/ JobFails \/ WorkDiscarded \/ AcceptWork \/ AcceptLost
  BY <1>2, <1>7 DEF WorkRefused, JobFails, WorkDiscarded, AcceptWork, AcceptLost
<1>8. CASE WorkPasses
  <2>1. coord.step # "idle" /\ coord' = [coord EXCEPT !.step = "committing"] /\ CommitCopy(coord.run)
    BY <1>8 DEF WorkPasses
  <2>2. coord'.step = "committing" /\ coord'.run = coord.run
    BY <1>1, <2>1 DEF CoordRecord
  <2>3. op'[coord.run] = "saving"
    BY <1>1, <2>1 DEF CommitCopy, Becomes, WorkspaceTypeOK
  <2> QED BY <2>2, <2>3 DEF CoordinatorGoesOn, Promoted, Committing
<1>9. CASE WorkFails
  <2>1. coord.step # "idle" /\ coord' = [coord EXCEPT !.step = "discarding"] /\ DiscardCopy(coord.run)
    BY <1>9 DEF WorkFails, WorkIsUseless
  <2>2. coord'.step = "discarding" /\ coord'.run = coord.run
    BY <1>1, <2>1 DEF CoordRecord
  <2>3. op'[coord.run] = "removing"
    BY <1>1, <2>1 DEF DiscardCopy, Becomes, WorkspaceTypeOK
  <2> QED BY <2>2, <2>3 DEF CoordinatorGoesOn, Discarded
<1>10. CASE CopyStep \/ ((\E r \in Runs : Stumble(r)) /\ UNCHANGED launchVars)
  <2>1. coord' = coord
    BY <1>10 DEF CopyStep, launchVars
  <2>2. PICK r \in Runs : Proceed(r) \/ Admit(r) \/ Refuse(r) \/ RunEnds(r) \/ Stumble(r)
    BY <1>10 DEF CopyStep, Admitted, Refused
  <2>3. \A p \in Runs : op[p] = "open" => op'[p] = "open"
    BY <1>1, <2>2 DEF Proceed, Copied, Save, Promote, Clean, RecordCommit, Remove, NoteDiscard,
         Admit, Refuse, RunEnds, Stumble, CopyFails, CommitFails, DiscardFails, Becomes,
         WorkspaceTypeOK
  <2>4. \A p \in Runs : op[p] = "failed" => op'[p] = "failed"
    BY <1>1, <2>2 DEF Proceed, Copied, Save, Promote, Clean, RecordCommit, Remove, NoteDiscard,
         Admit, Refuse, RunEnds, Stumble, CopyFails, CommitFails, DiscardFails, Becomes,
         WorkspaceTypeOK
  <2>5. coord.step # "idle" => OpMoves(coord.run)
    BY <1>1, <1>10, OpsMove
  <2> QED BY <1>1, <2>1, <2>3, <2>4, <2>5
          DEF CoordinatorGoesOn, OpMoves, Requested, Promoted, Discarded, Committing
<1>11. CASE UNCHANGED vars
  BY <1>3, <1>11 DEF vars, workspaceVars, launchVars
<1> QED BY <1>4, <1>5, <1>6, <1>7, <1>8, <1>9, <1>10, <1>11 DEF Next, CoordinatorStep

\* A crash leaves neither handlers nor a coordinator that waits.
LEMMA CrashEndsWaiting ==
  ASSUME LaunchInv, Crash
  PROVE  EverybodyGoesOn'
<1>1. \A r \in Runs : op'[r] \in {"unused", "over"}
  BY DEF Crash, CrashRestart
<1>2. coord' = Idle
  BY DEF Crash
<1>3. \A q \in Requests : request'[q].step \in {"idle", "answered"}
  <2>1. \A q \in Requests :
          [request[q] EXCEPT !.step = "answered", !.told = "error"].step = "answered"
    BY DEF LaunchInv, TypeInv, RequestRecord
  <2> QED BY <2>1 DEF Crash
<1> QED BY <1>1, <1>2, <1>3
        DEF EverybodyGoesOn, Stored, HandlerGoesOn, CoordinatorGoesOn, Committing, InHand, Idle

\* Nobody waits for nothing, whatever goes wrong: the copy a handler or the
\* coordinator waits for is being made, run in, promoted or removed, or has just
\* been; what is promoted is stored as open and finds a workspace; and there is a
\* role for every worker that is still made.
THEOREM EverybodyIsServed == Spec => []EverybodyGoesOn
<1> DEFINE I == LaunchInv /\ TruthInv /\ JobInv /\ EverybodyGoesOn
<1>1. Init => I
  BY LaunchInit, TruthInit, JobInit, GoingInit
<1>2. LaunchInv /\ TruthInv /\ EverybodyGoesOn /\ [Next]_vars => EverybodyGoesOn'
  <2> SUFFICES ASSUME LaunchInv, TruthInv, EverybodyGoesOn, [Next]_vars PROVE EverybodyGoesOn'
    OBVIOUS
  <2>1. CASE Crash
    BY <2>1, CrashEndsWaiting
  <2>2. CASE ~Crash
    BY <2>2, StoredStays, HandlersGoOn, CoordinatorStays DEF EverybodyGoesOn
  <2> QED BY <2>1, <2>2
<1>3. I /\ [Next]_vars => I'
  BY <1>2, LaunchNext, TruthNext, JobsAreKept DEF LaunchInv
<1>4. I => EverybodyGoesOn
  OBVIOUS
<1> QED BY <1>1, <1>3, <1>4, PTL DEF Spec
=============================================================================
