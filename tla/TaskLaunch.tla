------------------------------ MODULE TaskLaunch ------------------------------
(***************************************************************************)
(* From a message to a running job: POST /api/agents/:id/tasks             *)
(* (apps/server/src/app.ts) with planTask and createTaskWorker             *)
(* (agent-service.ts), parseTaskPlan (task-planner.ts) and createSession   *)
(* (relay-coordinator.ts), and then the checkpoints of the jobs, which     *)
(* share the lead's workspace.                                             *)
(*                                                                         *)
(* The planning run and every run of a checkpoint work in copies of        *)
(* Workspace.tla.  Of the coordinator only what concerns the workspace is  *)
(* here: one loop that takes the turns of all sessions one after another.  *)
(* RelayCoordinator.tla has the mailbox, the lost writes and the stops.    *)
(***************************************************************************)
EXTENDS Workspace, Sequences, FiniteSets

CONSTANTS
  Requests,     \* messages to the lead agent; each names its planning run, too
  Outputs,      \* what the planning run of each request may return
  MaxAttempts,  \* RelaySession.maxAttempts
  NoRun

\* The runs of checkpoints.
Attempts == Runs \ Requests

ASSUME LaunchAssumption ==
  /\ Requests \subseteq Runs /\ NoRun \notin Runs
  /\ MaxAttempts \in Nat \ {0}

VARIABLES
  request,   \* the handler of each request, and what its client was told
  workers,   \* worker agents: request and role
  session,   \* the session of each request
  coord      \* the coordinator's loop

launchVars == <<request, workers, session, coord>>
vars == <<workspaceVars, launchVars>>

-----------------------------------------------------------------------------
(* The plan                                                                *)

\* What an output says: worker roles and steps, in the planner's order.  NoPlan
\* stands for an output without a JSON object of the required shape, too.
NoPlan == [clarify |-> FALSE, questions |-> FALSE, roles |-> << >>, steps |-> << >>]

Unique(seq) == \A i, j \in DOMAIN seq : seq[i] = seq[j] => i = j
Listed(seq) == {seq[i] : i \in DOMAIN seq}
Ids(plan) == {plan.steps[i].id : i \in DOMAIN plan.steps}

\* parseTaskPlan: at least one worker and one step, no duplicates, known owners,
\* known dependencies, and a question if there is to be one.
Accepted(plan) ==
  /\ plan.roles # << >> /\ plan.steps # << >>
  /\ Unique(plan.roles)
  /\ Unique([i \in DOMAIN plan.steps |-> plan.steps[i].id])
  /\ \A i \in DOMAIN plan.steps :
       /\ plan.steps[i].owner \in Listed(plan.roles)
       /\ plan.steps[i].after \subseteq Ids(plan) \ {plan.steps[i].id}
  /\ plan.clarify => plan.questions

\* What the planner returns has been through JSON: its lists are lists.
ASSUME OutputsAssumption ==
  \A q \in Requests : \A plan \in Outputs[q] :
    plan.roles \in Seq(Listed(plan.roles)) /\ plan.steps \in Seq(Listed(plan.steps))

-----------------------------------------------------------------------------
NoRequest == [step |-> "idle", told |-> "nothing", brief |-> TRUE, plan |-> NoPlan, made |-> 0]
NoSession == [status |-> "none", plan |-> NoPlan, accepted |-> << >>, attempts |-> 0]
Idle == [step |-> "idle", of |-> NoRun, run |-> NoRun]

Init ==
  /\ WorkspaceInit
  /\ request = [q \in Requests |-> NoRequest]
  /\ workers = {}
  /\ session = [q \in Requests |-> NoSession]
  /\ coord = Idle

Unused == {r \in Attempts : op[r] = "unused"}
NextRun == CHOOSE r \in Unused : TRUE

LeadBusy == \E q \in Requests : status[q] = "running"

\* The handler returns and forgets what it knew.
Answer(q, how) ==
  request' = [request EXCEPT ![q] = [NoRequest EXCEPT !.step = "answered", !.told = how]]
Reaches(q, step) == request' = [request EXCEPT ![q].step = step]

-----------------------------------------------------------------------------
(* The request: planTask                                                   *)

\* The message is a task brief of the length a session accepts, or not.
Submit(q) ==
  /\ request[q].step = "idle"
  /\ OpenCopy(q)
  /\ \E brief \in BOOLEAN :
       request' = [request EXCEPT ![q].step = "planning", ![q].brief = brief]
  /\ UNCHANGED <<workers, session, coord>>

PlanRefused(q) ==
  /\ request[q].step = "planning" /\ op[q] = "rejected"
  /\ Answer(q, "error")
  /\ UNCHANGED <<workspaceVars, workers, session, coord>>

\* waitForRun: the run has ended, with or without an answer; its copy goes.
PlanEnds(q) ==
  /\ request[q].step = "planning"
  /\ status[q] \in {"completed", "ended"}
  /\ DiscardCopy(q)
  /\ \E plan \in IF status[q] = "completed" THEN Outputs[q] ELSE {NoPlan} :
       request' = [request EXCEPT ![q].step = "discarding", ![q].plan = plan]
  /\ UNCHANGED <<workers, session, coord>>

\* ... or the deadline has passed: it is cancelled, and its copy stays.
PlanTimesOut(q) ==
  /\ request[q].step = "planning" /\ status[q] = "running"
  /\ status' = [status EXCEPT ![q] = "ended"]
  /\ Answer(q, "error")
  /\ UNCHANGED <<files, txn, op, trouble, workers, session, coord>>

\* The finally block is through: the plan is refused, asks, or gets its workers.
PlanParsed(q) ==
  LET plan == request[q].plan IN
  /\ request[q].step = "discarding"
  /\ op[q] \in {"discarded", "kept"}
  /\ IF op[q] = "kept" \/ ~Accepted(plan) THEN Answer(q, "error")
     ELSE IF plan.clarify THEN Answer(q, "questions")
     ELSE Reaches(q, "creating")
  /\ UNCHANGED <<workspaceVars, workers, session, coord>>

-----------------------------------------------------------------------------
(* The request: workers and session                                        *)

\* createTaskWorker, one role after the other.
CreateWorker(q) ==
  LET n == request[q].made + 1 IN
  /\ request[q].step = "creating" /\ n <= Len(request[q].plan.roles)
  /\ workers' = workers \cup {[of |-> q, role |-> request[q].plan.roles[n]]}
  /\ request' = [request EXCEPT ![q].made = n]
  /\ UNCHANGED <<workspaceVars, session, coord>>

\* Mutant of Storable: the participants are not looked up.
MutantStorable(q) == request[q].step = "creating"

\* Every role has its worker, and createSession accepts the brief.
Storable(q) ==
  /\ request[q].step = "creating"
  /\ request[q].made = Len(request[q].plan.roles)

StoreSession(q) ==
  /\ Storable(q) /\ request[q].brief
  /\ session' = [session EXCEPT ![q].status = "stored", ![q].plan = request[q].plan]
  /\ Reaches(q, "publishing")
  /\ UNCHANGED <<workspaceVars, workers, coord>>

\* The brief is too long for a session: by then the workers exist.
SessionRefused(q) ==
  /\ Storable(q) /\ ~request[q].brief
  /\ Answer(q, "error")
  /\ UNCHANGED <<workspaceVars, workers, session, coord>>

\* The first turn is published and the client answered.
Publish(q) ==
  /\ request[q].step = "publishing"
  /\ session' = [session EXCEPT ![q].status = "running"]
  /\ Answer(q, "started")
  /\ UNCHANGED <<workspaceVars, workers, coord>>

\* A worker cannot be created, one has been stopped since, or the relay rejects
\* the session or its first turn.
LaunchFails(q) ==
  /\ request[q].step \in {"creating", "publishing"}
  /\ Trouble
  /\ Answer(q, "error")
  /\ UNCHANGED <<files, txn, status, op, workers, session, coord>>

-----------------------------------------------------------------------------
(* The checkpoints: processCheckpointWorkflowDelivery                      *)

\* Mutant of Ends: a job without attempts left stays as it is.
MutantEnds(q, done) == session
Ends(q, done) == [session EXCEPT ![q].status = IF done THEN "ended" ELSE @]
\* Mutant of GivesUp: one attempt too many.
MutantGivesUp(q) == session[q].attempts > MaxAttempts
GivesUp(q) == session[q].attempts >= MaxAttempts

\* A turn is claimed: its attempt is counted, and its run gets a copy.
TakeTurn(q) ==
  /\ coord.step = "idle" /\ session[q].status = "running" /\ Unused # {}
  /\ ~GivesUp(q)
  /\ session' = [session EXCEPT ![q].attempts = @ + 1]
  /\ OpenCopy(NextRun)
  /\ coord' = [step |-> "working", of |-> q, run |-> NextRun]
  /\ UNCHANGED <<request, workers>>

\* The last attempt was cut off by a restart: the session fails.
TurnExhausted(q) ==
  /\ coord.step = "idle" /\ session[q].status = "running" /\ GivesUp(q)
  /\ session' = Ends(q, TRUE)
  /\ UNCHANGED <<workspaceVars, request, workers, coord>>

\* The run could not be started; its copy, if there was one, is gone.
WorkRefused ==
  /\ coord.step = "working" /\ op[coord.run] = "rejected"
  /\ session' = Ends(coord.of, GivesUp(coord.of))
  /\ coord' = Idle
  /\ UNCHANGED <<workspaceVars, request, workers>>

\* The output is accepted so far: the copy is promoted ...
WorkPasses ==
  /\ coord.step = "working"
  /\ CommitCopy(coord.run)
  /\ coord' = [coord EXCEPT !.step = "committing"]
  /\ UNCHANGED <<request, workers, session>>

\* ... or the run has failed, is late or blocked, or its promotion has failed:
\* retryOrFail discards the copy ...
WorkIsUseless ==
  \/ coord.step = "working" /\ status[coord.run] \in {"completed", "ended"}
  \/ coord.step = "committing" /\ op[coord.run] = "failed"

\* Mutant of WorkFails: the turn is retried and the copy forgotten.
MutantWorkFails ==
  /\ WorkIsUseless /\ ~GivesUp(coord.of)
  /\ coord' = Idle
  /\ UNCHANGED <<workspaceVars, request, workers, session>>

WorkFails ==
  /\ WorkIsUseless /\ ~GivesUp(coord.of)
  /\ DiscardCopy(coord.run)
  /\ coord' = [coord EXCEPT !.step = "discarding"]
  /\ UNCHANGED <<request, workers, session>>

\* ... unless this was the last attempt: the session fails, and the copy stays.
JobFails ==
  /\ WorkIsUseless /\ GivesUp(coord.of)
  /\ session' = Ends(coord.of, TRUE)
  /\ coord' = Idle
  /\ UNCHANGED <<workspaceVars, request, workers>>

WorkDiscarded ==
  /\ coord.step = "discarding" /\ op[coord.run] \in {"discarded", "kept"}
  /\ coord' = Idle
  /\ UNCHANGED <<workspaceVars, request, workers, session>>

\* acceptCheckpoint: the next checkpoint, in the order of the list, is expected.
AcceptWork ==
  LET q == coord.of
      s == [session[q] EXCEPT !.accepted = Append(@, coord.run), !.attempts = 0] IN
  /\ coord.step = "committing" /\ op[coord.run] = "committed"
  /\ session' = [session EXCEPT ![q] =
       [s EXCEPT !.status = IF Len(s.accepted) = Len(s.plan.steps) THEN "ended" ELSE @]]
  /\ coord' = Idle
  /\ UNCHANGED <<workspaceVars, request, workers>>

\* An operator has stopped the session by then.
AcceptLost ==
  /\ coord.step = "committing" /\ op[coord.run] = "committed"
  /\ Trouble
  /\ session' = Ends(coord.of, TRUE)
  /\ coord' = Idle
  /\ UNCHANGED <<files, txn, status, op, request, workers>>

-----------------------------------------------------------------------------
\* A crash takes the requests and the loop with it; recoverPendingSessions
\* publishes the turn every stored session waits for.
Crash ==
  /\ CrashRestart
  /\ request' = [q \in Requests |->
       IF request[q].step \in {"idle", "answered"} THEN request[q]
       ELSE [request[q] EXCEPT !.step = "answered", !.told = "error"]]
  /\ session' = [q \in Requests |->
       [session[q] EXCEPT !.status = IF @ = "stored" THEN "running" ELSE @]]
  /\ coord' = Idle
  /\ UNCHANGED workers

RequestStep(q) ==
  \/ PlanRefused(q) \/ PlanEnds(q) \/ PlanTimesOut(q) \/ PlanParsed(q)
  \/ CreateWorker(q) \/ StoreSession(q) \/ SessionRefused(q) \/ Publish(q)

CoordinatorStep ==
  \/ \E q \in Requests : TakeTurn(q) \/ TurnExhausted(q)
  \/ WorkRefused \/ WorkPasses \/ WorkFails \/ JobFails \/ WorkDiscarded \/ AcceptWork

Admitted(r) == (r \in Requests => ~LeadBusy) /\ Admit(r)
Refused(r) == (r \in Requests => LeadBusy) /\ Refuse(r)

CopyStep ==
  /\ \E r \in Runs : Proceed(r) \/ Admitted(r) \/ Refused(r) \/ RunEnds(r)
  /\ UNCHANGED launchVars

CopyIsRefused == (\E r \in Runs : CopyFails(r)) /\ UNCHANGED launchVars

Next ==
  \/ \E q \in Requests : Submit(q) \/ RequestStep(q) \/ LaunchFails(q)
  \/ CoordinatorStep \/ AcceptLost
  \/ CopyStep
  \/ (\E r \in Runs : Stumble(r)) /\ UNCHANGED launchVars
  \/ Crash

Spec == Init /\ [][Next]_vars

\* The handlers and the loop go on, file operations return, a run ends or its
\* deadline passes.  All of them are finite, so none can starve another one.
Fairness ==
  /\ WF_vars(\E q \in Requests : RequestStep(q))
  /\ WF_vars(CoordinatorStep)
  /\ WF_vars(CopyStep \/ CopyIsRefused)

FairSpec == Spec /\ Fairness

-----------------------------------------------------------------------------
(* Properties                                                              *)

SessionStatus == {"none", "stored", "running", "ended"}

TypeOK ==
  /\ WorkspaceTypeOK
  /\ \A q \in Requests :
       /\ request[q].step \in {"idle", "planning", "discarding", "creating", "publishing", "answered"}
       /\ request[q].told \in {"nothing", "error", "questions", "started"}
       /\ session[q].status \in SessionStatus
       /\ session[q].accepted \in Seq(Runs)
       /\ session[q].attempts \in 0..MaxAttempts
  /\ coord.step \in {"idle", "working", "committing", "discarding"}

AcceptedRuns == UNION {Listed(session[q].accepted) : q \in Requests}

\* The work of an accepted checkpoint is never lost again: whatever is promoted
\* after it, and wherever the server dies, its edits are under the workspace's
\* name or in the backup beside it.
AcceptedWorkSurvives == \A r \in AcceptedRuns : Kept(r)

\* What is not wanted stays out of the shared workspace: the edits of planning
\* runs, and of runs that were cancelled or failed.
UnwantedWorkStaysOut ==
  \A r \in Runs :
    r \in shared.work => r \notin Requests /\ status[r] = "completed"

\* What the client was told is so: questions leave nothing behind, a started job
\* has a session with a worker for every step, and after an error there is no
\* session unless it was the last moment that went wrong.
AnswersAreTrue ==
  \A q \in Requests :
    /\ request[q].told = "questions" =>
         session[q].status = "none" /\ \A w \in workers : w.of # q
    /\ request[q].told = "started" => session[q].status \in {"running", "ended"}
    /\ request[q].told = "error" /\ trouble = 0 => session[q].status = "none"
    /\ session[q].status # "none" =>
         \A i \in DOMAIN session[q].plan.steps :
           [of |-> q, role |-> session[q].plan.steps[i].owner] \in workers

\* Copies are cleaned up.  Through crashes and failures, the copy of a run that was
\* admitted is stored as open for as long as it is there, so that the next restart
\* removes it, the one a failed job leaves behind included.  As long as nothing has
\* gone wrong, a planning run has one until its request is answered, unless it took
\* too long, and of the runs of a job only the last one of a failed job keeps one.
Failed(q) == session[q].status = "ended" /\ Len(session[q].accepted) < Len(session[q].plan.steps)
OnRecord(r) == scratch[r].there => txn[r] = "open" \/ status[r] = "none"
Tidy ==
  /\ \A r \in Runs : backup[r].there => coord.step = "committing" /\ coord.run = r
  /\ \A q \in Requests :
       scratch[q].there => request[q].step \in {"planning", "discarding"} \/ request[q].told = "error"
  /\ Cardinality({r \in Attempts : scratch[r].there} \ {coord.run}) <= Cardinality({q \in Requests : Failed(q)})
CopiesAreCleanedUp == (\A r \in Runs : OnRecord(r)) /\ (trouble = 0 => Tidy)

\* Every task is settled: its client is answered, and a job that was started, be it
\* by a restart long after the answer, ends, even one whose workspace a crash has
\* taken away.
TasksAreSettled ==
  \A q \in Requests :
    request[q].step # "idle" ~> request[q].told # "nothing" /\ session[q].status # "running"
=============================================================================
