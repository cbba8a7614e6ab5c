# Agent Launchpad: specification and proofs

This directory specifies the Agent Launchpad (`apps/server/src`, and what keeps
state in `apps/web/src`) in TLA+, checks it with TLC on small instances and
proves central safety properties with TLAPS for all values of the parameters.

## 1. The system

| Component | State it keeps | Operations | Interacts with |
| --- | --- | --- | --- |
| Relay coordinator (`relay-coordinator.ts`) | none of its own that survives: the delivery and session copy in hand; the sessions it writes follow one of four protocols (checkpoints, countdown, ordered sequence, team task) | `createSession`, `processNext`, `cancelSession`, `interruptActiveRun`, `recoverPendingSessions` | reads and compare-and-sets sessions, publishes and acknowledges turns (bus), starts, polls and cancels runs (AgentService) |
| Relay bus (`nats-relay-bus.ts`) | a JetStream stream with a duplicate window, one durable consumer with `max_deliver` and `ack_wait`, a KV bucket of sessions with revisions | `createSession`, `getSession`, `updateSession`, `publishTurn`, `nextTurn`, `publishEvent` | the coordinator |
| AgentService (`agent-service.ts`) | agents, runs and messages in the JSON store; the executions in progress and the cancellation requests in memory | `sendMessage`, `sendCoordinatedMessage`, `cancelRun`, `startAgent`, `stopAgent`, `commitRunWorkspace`, `discardRunWorkspace`, `initialize` | store, workspaces, runner; called by the coordinator and by HTTP |
| Workspaces (`workspace.ts`) | a directory per agent, a scratch copy and a backup per run | `beginTransaction`, `commitTransaction`, `discardTransaction`, `archive` | AgentService |
| JSON store (`store.ts`) | the database and a queue of mutations | `mutate`, `snapshot` | AgentService |
| Runners (`codex-runner.ts`, `container-codex-runner.ts`) | the child process per agent | `run`, `cancel` | AgentService |
| Evidence chains (`event-chain.ts`, `run-trace-chain.ts`) | hash links in events and trace entries | `linkRunTraceEvent`, `verify...` | coordinator, AgentService, HTTP |
| HTTP API (`app.ts`) | the request in hand: plan, workers made so far | `POST /api/agents/:id/tasks` (plan, workers, session), the control routes | AgentService, coordinator |
| Event stream (`app.ts`) | per connection: a queue of pushes, the last snapshot | pushes a snapshot of all sessions after a change and every so often | bus; feeds the web client |
| Web client (`App.tsx`, `api.ts`) | the sessions shown, the selected workspace, the run on display, the polling loops, requests in flight | the stream's loop, `startTask`, `pollRun`, the selection effect | HTTP, event stream |
| Task planner (`task-planner.ts`) | none | `parseTaskPlan` | HTTP |
| Proof Gate, configuration | none | one browser load; parsing | coordinator |
| Scripts, deployment | none | | HTTP |

What is hard here: one loop reads a session, awaits for minutes and then writes
it, while HTTP requests write the same entry; the mailbox delivers late, twice
or never again; a call may reject after it took effect; the server may die
between any two awaits, with the session in NATS, the runs in a JSON file and
the edits in directories that no transaction covers together. A task is a plan,
some workers and a session, made one after the other in two stores. The browser
puts together answers and snapshots that were read at different times, about
workspaces that may no longer be selected. PROJECT.json lists these hazards line by line, with the properties aimed at each.

What makes each component correct:

* the coordinator: turns are accepted once, in order, each from a run that
  earned it; attempts bound the runs; an ended session is final; every session
  ends; a stop reaches the run;
* AgentService: one run per agent, a cancelled run never completes, a stopped
  agent stays stopped, a cancellation is not lost;
* workspaces: accepted work is never lost, and the work of planning runs and of
  failed or cancelled runs never gets in;
* the store: mutations are serial and what was published is on disk;
* evidence chains: what verifies was appended in that order;
* team tasks: nobody reviews their own artifact, a pass is unanimous, the ledger
  is a draft followed by reviews and repairs by turns, the revision bound holds;
* launching a task: the client is told the truth about what was made, and every
  task is settled;
* event stream and web client: what is shown becomes what is stored, never goes
  back, and is about the selected workspace.

## 2. Modules

| Module | Models | State |
| --- | --- | --- |
| `RelayLedger` | what a session promises: an ordered ledger of valid runs, frozen when the session ends | `status`, `accepted`, `verdict` |
| `RelayCoordinator` | one session under the coordinator, operator requests, runs, mailbox, KV entry and crashes, for the checkpoint workflow and the countdown / ordered sequence | below |
| `MCRelayCoordinator` | instances for TLC | |
| `RelayCoordinatorProofs` | the inductive type invariant, what a step does to each part of the state, `TypeCorrect`, `OrderedAcceptance`, `CurrentCopies`, `FinalEnd` | |
| `RelayLedgerProofs` | what the ledger and the work behind it are worth: the ten theorems from `EarnedAcceptance` to `RequestsGetThrough` | |
| `ReviewCycle` | what a team task promises: draft, independent reviews, repairs within their bound | `status`, `stage`, `version`, `author`, `reviewer` |
| `TeamTask` | the team-task protocol of the coordinator: who gets a turn, what its prompt shows, what a review is worth, with retries, operators, crashes and second copies of a turn | below |
| `ReviewCycleProofs` | `IndependentDelivery` | |
| `TeamTaskProofs` | the inductive invariants `TeamInv` and `WorkInv`, `TeamTypeCorrect`, `LedgerHasShape`, `UnanimousPass`, `TeamWorkIsPending` | |
| `TeamCycleProofs` | `RetriesGoRound`, `FollowsCycle`, `TeamDeliversIndependently` | |
| `MCTeamTask` | instances for TLC | |
| `AgentService` | one agent and its runs under AgentService, the store's mutation queue and either runner, with concurrent messages, cancellations, stops, starts and deletions | below |
| `MCAgentService` | instances for TLC | |
| `AgentServiceProofs` | `AgentTypeCorrect`, `OneRunAtATime`, `StoppedStays`, `RunEndStays`, `BusyIsReleased`, `RequestsAreWithdrawn`, `KillsReachContainers`, `CancellationsEnd` | |
| `Workspace` | the shared directory of a lead agent and the copies of its runs: every file operation and write of a transaction, with a failure or crash between any two | below |
| `TaskLaunch` | extends `Workspace` by those who use it: the request that plans a task, makes its workers and stores its session, and the loop that works off its checkpoints | below |
| `MCTaskLaunch` | instances for TLC | |
| `TaskLaunchProofs` | `LaunchTypeCorrect`, `NothingUnwanted`, `AcceptedWorkIsKept`, `AnswersHold`, `CopiesAreKeptTidy`, `EverybodyIsServed` | |
| `WebClient` | one browser tab and the event stream that feeds it | below |
| `MCWebClient` | instances for TLC | |
| `WebClientProofs` | `ClientTypeCorrect`, `RunOfSelected`, `NothingGoesBack`, `RepetitionsAreKnown` | |

### RelayCoordinator and the code

| Variable | Code |
| --- | --- |
| `revision`, `session` | the KV entry: `RelaySession` with `status`, `expectedValue`, `attemptsByValue`, `activeRunId`, `acceptedTurns`, `operatorInterruptions` and, as `cancelNoted`, the run.cancelled / run.cancel-failed events that `cancelRunAfterSessionStop` looks up |
| `mailbox`, `window` | the turn messages of the stream with their delivery counts and acknowledgements; the ids JetStream still remembers |
| `runs` | AgentService's runs: status, agent, whether the output meets the turn's contract, the workspace transaction and the content its copy began with; `late` is a history variable, set when `waitForRun` gave up |
| `shared` | the shared workspace, as the sequence of runs whose edits it holds |
| `coord` | the position of the loop inside `processDelivery`, its delivery, run, outcome and its session copy with the revision read |
| `stop`, `interrupt` | the HTTP requests in progress, with their own copies and counted compare-and-set attempts; `stop[Coordinator]` is `cancelRunAfterSessionStop` called by the loop |
| `creator` | the tail of `createSession` |
| `faults` | bounds on crashes, rejected calls and ids leaving the window |

An action is the code between two awaits that another actor can observe. Every
write of the session is `Commit`, or `Wins` with `Save`: it succeeds only for
the revision read. A lost race is an action of its own, with what the code does
then: `LoseRace` (the loop drops the delivery, which comes back), `RecordLost`
(the run is cancelled if the session was), `StopLoses` and `InterruptLoses`
(retry, boundedly). A rejected call is `Fault` in one of the actions of
`Trouble`. `Crash` throws away all local state and does what
`AgentService.initialize` does to the store; `RecoverSession` and
`PublishExpected` are `recoverPendingSessions`, and no request is served until
they are done (`index.ts` listens last).

Turn `i` is checkpoint `i`, or the value `initialValue - i + 1` of a countdown,
so that both protocols count upwards; the ordered sequence is a countdown with
other texts. A workspace is the sequence of runs that edited it: a run's copy
starts as a copy of `shared`, and its promotion appends the run.

Simplifications, all of them towards more behaviours: a message not
acknowledged may be redelivered at once (the delay of a nak and `ack_wait` only
delay it); a deadline may pass at any time; a run may end in any way at any time,
also cancelled by a request that reaches its agent past the relay; an agent may
refuse to start at any time; the contract of an output is a nondeterministic
verdict, the browser attestation included.

### AgentService and the code

`RelayCoordinator` sees a service that starts, ends and cancels runs; this
module is the inside of that service, for one agent (agents share nothing but
the store's queue).

| Variable | Code |
| --- | --- |
| `agent`, `status` | the stored `Agent.status` and `AgentRun.status`; deleted rows are "gone" |
| `queue` | `JsonStore.queue`: the runs and callers whose mutation is pending, in order |
| `step`, `outcome` | where `executeRun` (and the runner's `run` in it) is for each run, and what `run` returns |
| `activeExecution`, `requested` | `activeExecutions` and `cancellationRequests` |
| `provider`, `active`, `cancelled`, `process` | the configured runner, its table of processes, the flag in its entries, the child processes |
| `caller` | the `cancelRun`, `stopAgent`, `startAgent` and `deleteAgent` in progress |
| `overtaken` | history: `setStatus` stored "stopped" over a busy agent |

The event loop is single-threaded: an action is what runs in one turn of it.
`JsonStore.mutate` publishes the new data and resolves in the same turn, so the
continuation of the caller up to its next wait belongs to the action that applies
the mutation (`Admit` also begins `executeRun`; `Noted` also begins
`cancelExecution`). Where several promises wait for one event, `Resume` lets
each go on before anything else happens (`Due`). The wait of the container
runner for the removal of its container is the exception: it may take longer
than the process.

The two runners differ where it matters: `CodexRunner.run` waits for its log
directory between the check of a cancellation and the registration of its
process (`Enters`, `Launch`), and reads its log between the close of the process
and its verdict and again before it leaves the table (`Decide`, `Unregister`);
`ContainerCodexRunner.run` does each in one turn. In both the flag `cancelled` goes
before the exit of the process (`Verdict`), and an error of the process or of reading
its log before the flag (`Results`): such a run has failed, although it was
cancelled. `Refuse` and the archive's
failure are the service's own rejections; `RunWriteFails` and `CallWriteFails`
are a mutation whose file is not written, with what each caller does then.

Simplifications: a process may end in any way at any time, killed or not; trace
mutations, which nobody waits for, are left out of the queue, since they only
delay the others; a server that dies leaves a process it had started as an
"orphan", about which nothing is claimed.

### TeamTask and the code

The durable machinery is the one `RelayCoordinator` studies, and is coarser
here: an operator's request is one change of the stored session, since it
retries its compare-and-set until one succeeds, and the mailbox is the set of
turns that are not acknowledged. The coordinator's own writes still
compare revisions. What is new is the protocol.

| Variable | Code |
| --- | --- |
| `session` | `workStage`, `artifactVersion`, the version the stored review is about (`feedback`), `expectedValue`, `attemptsByValue` keyed by turn id, `acceptedTurns` with agent, verdict and the versions its prompt showed |
| `mailbox`, `published` | turns delivered again until acknowledged; ids JetStream has seen |
| `runs` | the last run of each participant, with its answer: a deliverable that is long enough or not, or a verdict with its list of checks |
| `coord`, `interrupting` | the loop with its copy; `interruptActiveRun` between its two writes |

An agent may be too busy to start, may answer anything or nothing, and may be
cancelled past the relay. A prompt's text is the pair of versions it shows. A bus
call may reject wherever the loop makes one, `publishEvents` after a commit
included (`DeliveryThrows`): the delivery is dropped without an acknowledgement,
what was written stays, and a run that was started goes on.

### Workspace, TaskLaunch and the code

| Variable | Code |
| --- | --- |
| `shared`, `scratch`, `backup` | `workspacePath`, `.transactions/<run>` and `.transactions/<run>-backup`: whether the directory is there, and the set of runs whose edits it holds |
| `txn`, `status` | `AgentRun.workspaceTransaction.status` and `AgentRun.status` |
| `op` | where `sendCoordinatedMessage`, `commitTransaction` or `discardTransaction` is on a run's copy, or how it has ended |
| `request` | the handler of `POST /api/agents/:id/tasks`: its step, the plan, the workers made so far, and what its client was told |
| `workers`, `session`, `coord` | worker agents; the session of each request with its accepted runs and attempts; the coordinator's loop |

`Workspace` has the file operations only; `TaskLaunch` says who opens, commits and
discards a copy and when, and takes over the steps of `Workspace` unchanged. Every
removal of a copy may reject and leave it, also the one in the `catch` of
`sendCoordinatedMessage` (`Refuse`).
`Accepted` is `parseTaskPlan` on a plan that has been read; texts and their lengths
are left out, except the length of the task brief, which the planner accepts and
`createSession` may refuse. The planning run of a request has the request's name.
The coordinator's loop is reduced to what reaches the workspace: a turn gets
a copy, the copy is promoted or discarded, the checkpoint accepted or the session
failed; a restart goes on with the turn each stored session waits for.
`RelayCoordinator` has the same loop with its mailbox, writes and operators.

### WebClient and the code

| Variable | Code |
| --- | --- |
| `stored`, `run`, `mode` | what the server has: a version of each workspace's session and the status of its run; whether there is a relay |
| `stream` | the SSE handler: whether a push is due, what the push in progress has read, the last snapshot sent, the frames on their way |
| `enabled` | `relayEnabled`, false until the first snapshot arrives |
| `view` | `relaySessions`, as a version per workspace |
| `selected`, `shown` | `selectedId`, `activeRun` |
| `task`, `loads`, `polls` | the promises of `startTask`, of the selection effect and of `pollRun` that have not been answered |

A request is served at one time and answered at any later one. What the user types
goes where `enabled` says: before the first snapshot it is a message to the lead
agent, although there is a relay. `ServeMessage` does not ask for one, as the
server does not. The composer opens again when the session on display has ended
(its last version). A workspace has at most one session and one run here, so a
second task for it is refused; the server would accept more. What is typed,
rendered or kept in receipts is left out.

## 3. Runs

The `relay_` runs are instances of `MCRelayCoordinator`, the `agent_` runs of
`MCAgentService`, `team_task` of `MCTeamTask`, `task_launch` of `MCTaskLaunch` and
the `client_` runs of `MCWebClient`. Deadlock checking is off because the systems
stop: a session or a task ends, the bounded requests are used up, and nothing is
left to do.

| Run | Instance | Checks |
| --- | --- | --- |
| `relay_recovery` | 2 checkpoints, 2 attempts, 1 crash, 1 expiry of a turn id, 5 deliveries, fair | `TypeOK`, `AcceptedInOrder`, `AttemptBeforeRun`, `NoOrderingViolation`, `AcceptedWorkIsShared`, `AcceptedTurnIsNotRerun`, `Resolves` |
| `relay_faults` | 1 checkpoint, 1 stop, 1 crash, 1 rejected call, 1 expiry | `AcceptedRunsEarned`, `CopiesAreCurrent`, `LedgerSpec`, `EndIsFinal` |
| `relay_countdown` | 2 values, recovery drill, 1 interruption, 1 crash, 1 rejected call | `WorkIsPending`, `LedgerSpec` |
| `relay_operators` | 1 checkpoint, 1 stop with 1 try, 1 interruption with 8 tries, fair | `NoRunIsAbandoned`, `StopReachesRunUnlessInterrupted`, `InterruptionIsSettled` |
| `agent_runs` | 2 messages, 2 calls of any kind, both runners, 1 crash, 1 failed write | `TypeOK`, `OneRunUnlessOvertaken`, `ContainerKillReachesProcess`, `CancelledRunHasEnded`, `BusyAgentIsReleased`, `NoStaleRequest`, `RunEndIsFinal`, `StoppedUntilStarted` |
| `team_task` | 3 participants, 1 criterion, 2 attempts, 1 repair, 1 trouble, fair | `TypeOK`, `LedgerShape`, `PassIsUnanimous`, `OthersAreAskedFirst`, `CycleSpec`, `Resolves` |
| `task_launch` | 2 requests, 9 kinds of plan, 2 attempts, 4 runs of checkpoints, 1 trouble, fair | `TypeOK`, `AcceptedWorkSurvives`, `UnwantedWorkStaysOut`, `AnswersAreTrue`, `CopiesAreCleanedUp`, `TasksAreSettled` |
| `client_stream` | 2 workspaces, 2 versions, with and without a relay, 1 message, 1 trouble, fair | `TypeOK`, `DirectRunIsOfSelected`, `NoSessionGoesBack`, `SessionsConverge` |
| `agent_second_run` | 2 messages, 1 stop, 1 start | violates `OneRunPerAgent` |
| `relay_shared_ahead` | 1 crash | violates `SharedIsLastAccepted` |
| `relay_stop_misses` | 1 interruption, 1 stop | violates `StopReachesRun` |
| `client_stuck_run` | 1 workspace selected, no trouble | violates `RunEndIsShown` |

Why the bounds suffice for these questions. Two turns are needed for an order,
for an acceptance followed by a publication and for a duplicate of an accepted
turn; the protocol treats a third turn as it treats the second. Two attempts are
needed for a retry and for exhaustion. A stop and an interruption are what it
takes to race for one run; one interruption per run is all the session can hold,
as the second request for a run joins the first. One crash reaches every pair of states
before and after it. `MaxRuns` is the number of attempts there can be
(`RunsSuffice`), so run identifiers never run out before the attempts do.
`StopTries` and `InterruptTries` are 2 where only safety is at stake (fewer
tries reach the "threw" state sooner). `relay_operators` has the code's 8 for
`InterruptionIsSettled` and one for the stop, which keeps its liveness check
short; `RunsAreHeld` is proved for every number of tries, and `relay_faults` runs the
stop's retry. What these instances cannot reach is the end of the code's own
tries: eight lost writes of an interruption take more other writers than one
checkpoint of two attempts has, and five of a stop take two stops with many tries,
which is more than TLC can search. For those cases there are only the theorems:
`RequestsGetThrough` says that an interruption which has not lost all its tries is on
its way to its verdict, and `RunsAreHeld` that a run in progress is held by
somebody, or recorded as active for the next stop, however many stops and tries
there are (both as long as no call has been rejected). That a stop's outcome gets written in the end is not claimed.

For one agent, two messages are what a second run takes, and two calls what it
takes to share a cancellation request, to stop and start, or to delete under a
cancellation. `agent_runs` uses symmetry in runs and callers; it checks no
liveness.

"Trouble" bounds crashes, failed or rejected calls, operator requests, second
copies of a message and the like together (each module names what it counts): one
of them is enough to reach every pair of states before and after it, and what it
cannot reach is two of them in one behaviour.

In `team_task` three participants are the first number at which author and
reviewer can both be excluded from a repair; one repair gives a version that is
reviewed, repaired and reviewed again. One or two participants have been checked
with the same properties (`OneAgent`, `TwoAgents`).

In `task_launch` the first request meets every kind of output, the second only
two that start no job: it is there to share the lead agent and its workspace with
the first one's planning and checkpoints. Two checkpoints of two attempts each
take four runs; all of them may be used, and the loop then stops taking turns only
because the session has ended. In `client_stream` two workspaces are what
switching takes, and two versions of a session what going back takes.

Fairness. The Node event loop carries on every pending continuation, so the
coordinator as a whole (`CoordinatorStep`), the tail of `createSession` and
each request in progress are weakly fair, and JetStream redelivers what is not
acknowledged. Runs need not end: `waitForRun`'s deadline is what makes the
coordinator go on. `TeamTask` states the same of its loop as a whole. In
`TaskLaunch` the handlers, the loop and the copies' steps are weakly fair, each
as a whole: they do not wait for each other without end, as all of them are finite;
there a run does end or is cancelled at its deadline. In `WebClient` the
handler works off its queue and its interval fires, frames are delivered, the
tab reconnects a second after a lost stream, and a request is answered or rejected.
Nothing obliges an operator to act, a call to fail or the
server to crash, and a server that has crashed is restarted.

Each property has a mutant: `MutantX` stands beside `X` in the module and is
what a plausible mistake would make of it (an unconditional put instead of a
compare-and-set, a claim that is counted in memory only, the run's status taken
for the outcome of the wait, a duplicate that is acknowledged without
publishing the expected turn, ...). The property fails with it.

### What the violated runs show

1. `relay_shared_ahead`: the private copy is promoted before the checkpoint is
   accepted, in another store. A crash in between leaves the edits of an
   unaccepted run in the shared workspace
   (`docs/DURABLE_RELAY_ARCHITECTURE.md`, 139-141). `AcceptedWorkIsShared` and
   `AcceptedWorkSurvives` are the part of the promise that does hold.
2. `relay_stop_misses`: a run whose recording loses its compare-and-set to the
   end of an earlier interruption is neither recorded nor cancelled; a stop
   issued then finds no active run (line 86 of the same document). Without an
   interruption the property holds (`StopReachesRunUnlessInterrupted`).
3. `agent_second_run`: `stopAgent` looks for a run before its mutation is
   queued; a message admitted in between runs on under a "stopped" agent, which
   can be started again and admits a second run (`docs/BASELINE_DATA_CONTRACT.md`,
   44). `OneRunUnlessOvertaken` says that this is the only way, and it is proved.
4. `client_stuck_run`: the selection effect applies what the server said when it
   was asked. If the run has ended since and its polling loop has shown the end, the
   old answer puts "running" back, and `pollRun` refuses to start because the loop
   is still fetching the conversation. Nobody polls the run again
   (`docs/BASELINE_DATA_CONTRACT.md`, 65).

### Other divergences met while modelling

The models have these behaviours, and no run is spent on them.

* The consumer stops delivering a message after `max_deliver` deliveries, and no
  code notices: with fewer deliveries than attempts and crashes use up,
  `Resolves` fails (`docs/DURABLE_RELAY_ARCHITECTURE.md`, 46-47). The default is 20.
* The paths that acknowledge the delivery of a cancelled session, and
  `failSession`, never discard the private copy; only a restart does (139-141 of
  the same document). `CopiesAreCleanedUp` says of that copy that it is stored as open
  until the restart which removes it, and that there is at most one per failed job
  as long as nothing goes wrong. The same holds for a planning run that exceeds its
  deadline: `planTask` answers 504 and the copy stays.
* A cancellation in the window before the local runner registers its process
  finds nothing to kill (`docs/KILL_SWITCH.md`, 3-4). The container runner has no
  such window (`ContainerKillReachesProcess`).
* With a relay, the planning run of a task is shown when its answer arrives,
  whatever workspace is selected by then, and so are its questions
  (`docs/BASELINE_OPERATOR_JOURNEY.md`, 32). `DirectRunIsOfSelected` is the part
  that holds.
* `parseTaskPlan` checks that dependencies exist and that no step depends on
  itself; it accepts cycles and later steps, and checkpoints run in list order.
* A task brief of more than 4000 characters is planned and gets its workers before
  `createSession` refuses it (`SessionRefused`).
* If the first turn cannot be published the client is told of an error, though the
  session is stored and will run after a restart; `AnswersAreTrue` says "unless the
  last moment went wrong" for that reason.
* A copy that could not be completed is left where it is (`CopyFails`), and so is that
  of a message which was refused if its removal rejects (`Refuse`): no run is stored
  that names it, and no restart removes it. After a
  crash between the two renames of a promotion nobody restores the backup: the work
  is kept (`AcceptedWorkSurvives`) and the job ends (`TasksAreSettled`), but no
  further run of that lead agent can begin.

## 4. Proofs

The assumptions are `ConstantsAssumption` (RelayCoordinator), `AgentAssumption`
(AgentService), `TeamAssumption` (TeamTask), `LaunchAssumption`,
`OutputsAssumption` and `WorkspaceAssumption` (TaskLaunch and the module it
extends) and `ClientAssumption` (WebClient); every TLC run evaluates those of its
instance. `OutputsAssumption` says that the roles and steps of a planner's output
are lists: it was parsed from JSON.
`IndependentDelivery` assumes that `MaxRevisions` is a
natural number, and no more. The theorems hold for every number of turns,
attempts, runs, participants, messages, requests, crashes, faults, expiries,
plans, workspaces and session versions.

| Theorem | Statement |
| --- | --- |
| `TypeCorrect` | `Spec => []TypeOK` |
| `OrderedAcceptance` | `Spec => []AcceptedInOrder` |
| `CurrentCopies` | `Spec => []CopiesAreCurrent` |
| `FinalEnd` | `Spec => EndIsFinal` |
| `EarnedAcceptance` | `Spec => []AcceptedRunsEarned` |
| `FollowsLedger` | `Spec => LedgerSpec`: a session implements RelayLedger |
| `NoRerun` | `Spec => AcceptedTurnIsNotRerun` |
| `AttemptsBeforeRuns` | `Spec => []AttemptBeforeRun` |
| `OrderingHolds` | `Spec => []NoOrderingViolation` |
| `WorkIsNeverLost` | `Spec => []WorkIsPending` |
| `SharedWork` | `Spec => []AcceptedWorkIsShared` |
| `RunsAreHeld` | `Spec => [](faults.calls = 0 => NoRunIsAbandoned)` |
| `StopsReachRuns` | `Spec => [](faults.calls = 0 => StopReachesRunUnlessInterrupted)` |
| `RequestsGetThrough` | `Spec => [](faults.calls = 0 => RequestsAreCarried)`: an interruption that was requested is on its way to its verdict |
| `AgentTypeCorrect` | `Spec => []TypeOK` (AgentService) |
| `OneRunAtATime` | `Spec => []OneRunUnlessOvertaken` |
| `StoppedStays` | `Spec => StoppedUntilStarted` |
| `RunEndStays` | `Spec => RunEndIsFinal` |
| `BusyIsReleased` | `Spec => []BusyAgentIsReleased` |
| `RequestsAreWithdrawn` | `Spec => []NoStaleRequest` |
| `KillsReachContainers` | `Spec => []ContainerKillReachesProcess` |
| `CancellationsEnd` | `Spec => []CancelledRunHasEnded` |
| `LaunchTypeCorrect` | `Spec => []TypeOK` (TaskLaunch) |
| `NothingUnwanted` | `Spec => []UnwantedWorkStaysOut` |
| `AcceptedWorkIsKept` | `Spec => []AcceptedWorkSurvives` |
| `AnswersHold` | `Spec => []AnswersAreTrue` |
| `CopiesAreKeptTidy` | `Spec => []CopiesAreCleanedUp` |
| `EverybodyIsServed` | `Spec => []EverybodyGoesOn`: whatever a handler or the loop waits for is under way |
| `ClientTypeCorrect` | `Spec => []TypeOK` (WebClient) |
| `RunOfSelected` | `Spec => []DirectRunIsOfSelected` |
| `NothingGoesBack` | `Spec => NoSessionGoesBack` |
| `RepetitionsAreKnown` | `Spec => []PushedIsShown`: what was pushed as it is stored is on display once nothing is on its way |
| `IndependentDelivery` | `Spec => []DeliveredIndependently` (ReviewCycle) |
| `TeamTypeCorrect` | `Spec => []TypeOK` (TeamTask) |
| `LedgerHasShape` | `Spec => []LedgerShape` |
| `UnanimousPass` | `Spec => PassIsUnanimous` |
| `TeamWorkIsPending` | `Spec => []TurnIsPending`: a running task has its next turn, or the one accepted last, in the stream |
| `RetriesGoRound` | `Spec => OthersAreAskedFirst` |
| `FollowsCycle` | `Spec => CycleSpec`: a team task implements ReviewCycle |
| `TeamDeliversIndependently` | `Spec => []Cycle!DeliveredIndependently` (TeamTask) |

**`TypeInv`.** Neither `TypeOK` nor `AcceptedInOrder` is inductive. An accepting
write is computed from the coordinator's copy, so the copies have to be well
formed too (`LedgerOK`, in `WellFormed`: the accepted turns are 1, 2, ... and the
expected one follows), and what a step may do depends on where the coordinator
is (`CoordGood`): from a claim to its acceptance the turn in hand is the one the
copy expects, with an attempt left; a step that speaks of a run has one in hand.
`TypeInv` is the conjunction of one such fact per variable: `StoreOK`,
`MailboxOK`, `RunsOK`, `CoordOK`, `StopsOK`, `InterruptsOK`, `RestOK`. Each
action has a lemma that it preserves all of them, `TypeInvariance` collects
them, and both theorems are consequences.

**`CopiesInv`.** Revisions only grow, and an actor's copy is either the stored
session (same revision) or older (smaller revision). A step `Tracks` if it
leaves the store alone, or saves and advances the revision, and every actor it
moves reads, saves or keeps its copy. `EndIsFinal` follows: whoever writes wins
its compare-and-set, so by `CopiesAreCurrent` its copy is the stored session, and
the guard that let it reach its write says that the session was still running,
or that the write touches neither status nor ledger (`Frozen`).

**`EarnedInv`.** What an acceptance is worth was decided several steps before it,
while others went on writing the session. `MineInv`: nobody but the coordinator
touches the accepted turns and the attempts, so its copy has both as they are
stored even when it is out of date otherwise. `EarningInv` gathers, step by
step, what the run in hand has earned: it is recorded before its deadline and
uninterrupted, waited for until it ends, reread, judged, promoted.
`FreshInv`, `ActiveInv` and `RequestInv` are about the interruptions that could
still spoil it: one names the run that was active when it was requested, and a run
that was accepted is not active any more. They make `AcceptedRunsEarned`
inductive.

**`FollowsLedger`.** The refinement mapping reads the verdict of every turn off
the end of the run that was accepted for it. `VerdictStays`: how a used run ended
never changes. `StepFollowsLedger`: every step but an acceptance and the writes
that end a session is a stutter, and an acceptance appends a run which
`EarningInv` shows to be valid and `HandIsNew` to be in no earlier entry. `NoRerun` needs
no invariant of its own: a run is started for the expected turn of a copy whose
accepted turns are the stored ones.

**`AttemptInv`** counts. At `inject` and `start` the attempt for the run that is
about to begin has been stored, so there is one more attempt than runs of the turn; a
claim that loses its compare-and-set counts nothing, and a crash
after a claim only makes the difference larger.

**`TurnInv`** says that no message in the mailbox is ahead of the ledger, whatever
the stream keeps, repeats or forgets. `OrderingHolds` follows: the handler's
ordering check would need a turn after the expected one.

**`WorkInv`.** That somebody will publish or redeliver the expected turn is
a disjunction (`PendingInv`), whose cases hand over to each other: the request that
creates the session, the message itself, the handler of its predecessor,
which is not acknowledged before the successor is published, and the recovery
after a restart. `WindowInv` is the reason why the broker's duplicate window
does no harm: it only swallows what is in the stream. `MessageInv` says which
messages the handler may acknowledge.

**`SharedInv`** follows a private copy from its beginning to its promotion: no other
promotion comes between, so its base is still the shared workspace; from the
promotion on its run is the last of it. A promotion that fails, or whose
checkpoint loses its write, leaves a run that was promoted and not accepted,
which the property allows.

**`HeldInv`** is the only one with a hypothesis on the past: no call has been rejected so
far. The code does abandon runs after a rejected call (`DeliveryThrows` while a
run waits to be recorded leaves it to nobody), so the unconditional formula is
false; the run `relay_operators` checks it without rejected calls and crashes, and
the theorem adds the crashes. Up to the recording the coordinator's copy is the stored session
unless somebody stopped it, so the recording cannot lose for another
reason, and a run in progress is in the hands of the coordinator or of a stop.
`StopsReachRuns` is the same invariant read when everybody is done.

**`RequestsAreCarried`** is what `InterruptionIsSettled` rests on. It is inductive
given `TypeInv` and `CopiesInv`: the request that stores "requested" goes on to
cancel the run, a request that carries it ends only by storing its verdict
(`CarriedOn`), and nobody else can put an older status back, because whoever writes
holds the stored copy. The exceptions are named in it: a request that
lost its compare-and-set `InterruptTries` times, or that a crash cut off; after
a crash the code leaves such an interruption "requested" for ever. The hypothesis
on rejected calls is needed, too: after `RequestUnannounced` the retry may find the
session ended and return.

**`Exclusive`.** "At most one active run" is not inductive: the store and the
memory disagree for a while about which runs are in progress (a deleted run goes
on, a run whose end was not written does not). `Holds(r)` is either; `HeldByOne`
says that an agent which is held is busy or deleted, and held by one run. Only
`Admit` makes a run hold, when the agent is neither; only `Finish`, `SetStatus`,
`Delete` and `Crash` write the agent's row. `Grounded` ties processes to running
executions and deleted runs to deleted agents, and holds even after the
exception, because a restart ends it. `StoppedStays` is a consequence: nobody
holds a stopped agent, so no run can finish and make it ready. `EndsAgree` (a run
that has ended has no execution left) gives `RunEndStays`.

**`QueueInv` and `WaitInv`** are about cancellations. The promise of an execution
that `cancelExecution` awaits resolves for all its callers at once, and the request
is dropped with the last of them (`NoStaleRequest`): a caller that is in the
mutation queue must be there once and wait for nothing else, or its turn would come
after it had gone on (`QueueInv`). `CancelledRunHasEnded` looks back over
several steps of a call. `BegunInv`: the run it is about was begun before. `TablesInv`: as
long as nothing was overtaken, the tables of executions and processes name the run
in progress, so the execution found there is that of the run, or the run is
over. `SettlingInv` and `AwaitingInv` keep this until the call goes on: the
execution it awaits is the one in progress with the request standing, or it has
ended and none has begun since. `ReportedInv`: a call that goes on leaves a run that
is over. For the container runner the kill itself is the conclusion: there is no
step between the registration and the spawn of a process (`BegunInv`).

**`LaunchInv`.** `AcceptedWorkSurvives` speaks of the shared directory and the
backups; what goes wrong there was decided earlier, in a copy. `WantedInv`
follows the edits wherever a directory is kept: all of them are those of
completed runs, except a run's own in its own copy, and a copy moves towards its
promotion only when its run is completed. `Safe` says where the accepted edits
are: in the shared workspace, or, while there is none, in a backup. `HandInv`
carries them through a promotion: only the coordinator promotes, one copy at a
time; the copy in its hands began with everything accepted, and from the first
rename to the second the backup has it. It needs that copies of later runs begin
only after the earlier one was settled, which is the loop of one coordinator
process. A crash between the renames leaves the backup where it is
and no shared workspace, which nothing puts back: no later run can begin, so
nothing more is accepted or lost.

**`TruthInv` and `JobInv`.** What a client is told was found out several steps
earlier, while other requests, the loop and crashes went on. `Answering` says what
a request has left behind at each step of its handler: nothing before the
workers, the workers made so far while it makes them, a stored session
before it publishes. `StoreSession` then has a worker for every role, and by
`Accepted` for every owner of a step. `JobInv`: a session that is still running
has checkpoints left, and the loop works on no other one.

**`CleanInv`** holds until something goes wrong for the first time. Its parts say that `op`
knows which directories there are (`DirsInv`), that the request and the loop know
of the copy in their hands (`PlanningCopy`, `CoordInv`), and that
the copies left over are no more than the jobs that failed (`LeftInv`). Only
`JobFails` lets go of a copy that is still there, and the job it ends had not
failed before (`JobJoins`), so both sets grow by one (`OneMoreEach`). Every other step
moves copies as `CopyMoves` says. **`RecordInv`** is the part of `CopiesAreCleanedUp` that
holds whatever goes wrong (`OnRecord`): a copy whose run was stored stays stored as open until
it has been removed. `Recorded` adds what makes this inductive: a run that has not
been admitted has no status yet, and a copy is gone before its end is stored.

**`EverybodyGoesOn`** is what `TasksAreSettled` rests on, and holds whatever goes
wrong. It says that the copy a handler or the loop waits for is at a point from
which it can move: asked for, open with a run that was started, being promoted while
there is a workspace to put it into, or being removed (`Stored`,
`HandlerGoesOn`, `CoordinatorGoesOn`); for each of these an action of the model is
enabled. `OpsMove` says what any step but a crash does with one copy, and that the shared
workspace is touched only by a promotion; by `HandInv` that is the one in the
loop's hands, so the workspace a copy was made from is still there when the copy is
to be promoted.

**`WebInv`.** `NoSessionGoesBack` is about snapshots on their way. `OrderInv`
says of each of them, of the pass of the handler that is being read and of what
is on display, that it is not newer than what is stored, and that the queue is in
the order in which it was read; the only exception is a session that was not
there when the snapshot was read. `RunInv` says that a run which a loop, an
answer or a message speaks of was started. With `TypeInv` it makes `DirectRunIsOfSelected`
inductive: there is at most one loop per run, and a planning request is made only
with a relay, since `enabled` repeats what the server said (`TaskInv`).

**`LastInv`** is about the handler's memory of what it pushed last, with which it
drops repetitions: that snapshot is on display or newer ones are, or it is the last
one on its way. `RepetitionsAreKnown` follows with `OrderInv`: when the handler drops
a reading because it equals the last one, nothing is withheld from the tab. This is
the part of `SessionsConverge` that the dropping could break.

**`CycleInv`** says for each stage of the cycle who the author is and how many
repairs are left. `IndependentDelivery` is about the abstract cycle.

**`TeamInv`.** The shape of the ledger is decided in the copy of the coordinator
and of the run in its hands. `CopyInv` says that both sessions are `Shaped`: entry
`i` is about `NthTurn(i)` (draft, review, repair, review, ...), was computed from
the prompt of that turn, and a running session expects the turn after the last
entry. It also says that a copy which can still win its write is the stored
session, and that the ledger of any copy in use is the stored one, however often
an operator wrote in between. `PublishedInv` bounds what can be delivered:
nothing but the turns of this ledger. `HandInv` and `RunInv` say what the loop
knows at each of its steps: that the attempt it claims is within the bound, who
its agent is, that the run it waits for was shown the prompt of its copy, and,
once it accepts, that the outcome in its hands is what that run's answer is
worth. `RunInv` is what `UnanimousPass` rests on: an answer that is being judged
cannot change, although anyone may cancel the run until it has ended. The
judgement itself is a case split on the answer (`JudgementIs`).

**`WorkInv`** (TeamTask) is the counterpart of the relay's invariant of that name, and
what `Resolves` rests on. As long as the next turn has not been published, the turn accepted
last is still in the stream, since the loop acknowledges it only afterwards; its
redelivery is recognised as a duplicate and publishes the next one again. A turn that was
published stays until it has been accepted or the session has ended. It holds through
rejected calls, lost writes and crashes.

**`AskedInv` and `FreshInv`** are about retries: the last run of each participant,
if it is for an open turn, was that turn's choice for an attempt already
counted. Who is asked is `AgentFor`, a remainder of the attempt number in a rotated
list without the author. `RotatedIsAll` (the rotation is a permutation),
`CandidatesAre` (leaving the author out keeps the order and everybody else) and
`SameRemainder` (two attempts with one agent are a whole round apart) make
`RetriesGoRound` arithmetic.

**`FollowsCycle`.** The refinement mapping reads stage, version and author off the
stored session. By `OnlyAcceptanceAdds` every step but an acceptance leaves the
ledger alone, and is a stutter or the end of the task; an acceptance is the
`Draft`, `Review` or `Revise` of the agent of the run, which `LatestIs` and
`WorkerIsIndependent` show to be allowed. `TeamDeliversIndependently` is then
`IndependentDelivery` at the instance.

**Only model-checked.** Every invariant and action property of a passing run is
stated by a theorem, `NoRunIsAbandoned` and `StopReachesRunUnlessInterrupted` with
the condition given above. The liveness properties (`Resolves`,
`InterruptionIsSettled`, `SessionsConverge`, `TasksAreSettled`) are out of the
prover's reach and stay with TLC; of each of them the safety part is proved, that
what has to happen is under way (`WorkIsNeverLost` and `TeamWorkIsPending`,
`RequestsGetThrough`, `RepetitionsAreKnown`, `EverybodyIsServed`). That it does
happen needs fairness and a measure that decreases, which only the runs show.
The four properties the code violates are refuted by runs and are not theorems.

## 5. Not modelled, and what is left

Left out inside the modelled parts: the texts of prompts, events and answers; the
cut of a session's event list at 500 entries; a session or agent that is deleted
while it is in use by the relay (agents are constants there; `AgentService` has
the deletion of an agent with a run in progress); `updateAgent`; runs of the lead
agent outside any copy, whose edits a promotion that began before them replaces;
more than one session per workspace, which the server does not refuse; the
forms, previews and receipts of the web client.

Not modelled at all:

* evidence chains: sequential and pure, and what they prove rests on the hash
  function, which a model could only postulate;
* configuration and types: parsing; the ranges it enforces are the assumptions on
  the constants;
* the Proof Gate's page checks: one load of a page, whose verdict is
  nondeterministic in `RelayCoordinator`;
* scripts and deployment: no state that outlives a call.

What a continuation would take up: the inside of `executeRun` when the store
cannot be written (one of the hazards without a property in `PROJECT.json`), more
than one session per workspace, and sessions that are deleted while they are in
use.
