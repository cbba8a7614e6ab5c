----------------------------- MODULE AgentService -----------------------------
(***************************************************************************)
(* The life of one agent and its runs under AgentService                   *)
(* (apps/server/src/agent-service.ts), with the mutation queue of          *)
(* JsonStore (store.ts) and the process table of the two runners           *)
(* (codex-runner.ts, container-codex-runner.ts).                           *)
(*                                                                         *)
(* Everything runs on one event loop, so an action is the code between two *)
(* waits for I/O.  A run and a caller each wait for at most one mutation;  *)
(* the queue holds who waits, and "step" says for which mutation.  What    *)
(* follows a mutation or a settled promise up to the next wait belongs to  *)
(* the same turn of the event loop: it is part of the action that applies  *)
(* the mutation, or a Resume that goes before everything else (Due).       *)
(***************************************************************************)
EXTENDS Naturals, Sequences, FiniteSets

CONSTANTS
  Runs,        \* messages sent to the agent, each of which may become a run
  Callers,     \* HTTP requests other than messages, one operation each
  Operations,  \* subset of {"cancel", "stop", "start", "delete"}
  Providers,   \* config.runtimeProvider: subset of {"local", "container"}
  NoRun,
  MaxCrashes,  \* bound: crashes of the server process
  MaxFaults    \* bound: mutations whose write to disk fails

ASSUME AgentAssumption ==
  /\ Operations \subseteq {"cancel", "stop", "start", "delete"}
  /\ Providers \subseteq {"local", "container"}
  /\ NoRun \notin Runs
  /\ Runs \cap Callers = {}
  /\ MaxCrashes \in Nat /\ MaxFaults \in Nat

VARIABLES
  agent,            \* Agent.status; "gone" once the agent is deleted
  status,           \* AgentRun.status; "none" before the run, "gone" once deleted
  queue,            \* JsonStore.queue: who waits for a mutation, in order
  step,             \* where executeRun is for each run
  outcome,          \* how the runner ended each run
  activeExecution,  \* activeExecutions.get(agent)
  requested,        \* cancellationRequests.has(agent)
  provider,         \* which runner was configured
  active,           \* the runner's active.get(agent)
  cancelled,        \* the runs whose entry has the flag cancelled
  process,          \* the child process of each run
  caller,           \* the operations in progress
  overtaken,        \* history: "stopped" was stored over a busy agent
  trouble           \* crashes and failed writes so far

database == <<agent, status>>
runner   == <<active, cancelled, process>>
vars == <<agent, status, queue, step, outcome, activeExecution, requested, provider,
          active, cancelled, process, caller, overtaken, trouble>>

-----------------------------------------------------------------------------
(* State *)

ActiveStatus == {"queued", "running"}
EndStatus    == {"completed", "failed", "cancelled"}
ActiveRuns   == {r \in Runs : status[r] \in ActiveStatus}

RunStep == {"unused", "admitting", "refused", "starting", "launching", "running", "closed",
            "draining", "finishing", "done", "lost", "crashed"}
InProgress == {"starting", "launching", "running", "closed", "draining", "finishing"}

CallStep == {"idle", "noting", "settling", "awaiting", "reporting", "failing", "setting",
             "archiving", "deleting", "returned", "rejected"}

NoCall == [op |-> "none", step |-> "idle", run |-> NoRun, awaited |-> NoRun]

Call == [op : Operations \cup {"none"}, step : CallStep,
         run : Runs \cup {NoRun}, awaited : Runs \cup {NoRun}]

Init ==
  /\ agent = "ready"
  /\ status = [r \in Runs |-> "none"]
  /\ queue = <<>>
  /\ step = [r \in Runs |-> "unused"]
  /\ outcome = [r \in Runs |-> "none"]
  /\ activeExecution = NoRun
  /\ requested = FALSE
  /\ provider \in Providers
  /\ active = NoRun
  /\ cancelled = {}
  /\ process = [r \in Runs |-> "none"]
  /\ caller = [c \in Callers |-> NoCall]
  /\ overtaken = FALSE
  /\ trouble = [crashes |-> 0, faults |-> 0]

\* It is the turn of who's mutation: the queue is served in order.
Applies(who) == queue # <<>> /\ Head(queue) = who

\* The runner's promise settles: executeRun queues its last mutation behind q.
Ends(r, how, q) ==
  /\ step' = [step EXCEPT ![r] = "finishing"]
  /\ outcome' = [outcome EXCEPT ![r] = how]
  /\ queue' = Append(q, r)

-----------------------------------------------------------------------------
(* A message and its run *)

\* sendMessage or sendCoordinatedMessage queues the admission.
Send(r) ==
  /\ step[r] = "unused"
  /\ step' = [step EXCEPT ![r] = "admitting"]
  /\ queue' = Append(queue, r)
  /\ UNCHANGED <<database, outcome, activeExecution, requested, provider, runner,
                 caller, overtaken, trouble>>

\* Mutant of Admissible: the check that the agent is not busy is missing.
MutantAdmissible == agent \notin {"stopped", "gone"}

Admissible == agent \notin {"stopped", "busy", "gone"}

\* The run is stored, executeRun begins and queues its own first mutation.
Admit(r) ==
  /\ Applies(r) /\ step[r] = "admitting" /\ Admissible
  /\ agent' = "busy"
  /\ status' = [status EXCEPT ![r] = "queued"]
  /\ step' = [step EXCEPT ![r] = "starting"]
  /\ activeExecution' = r
  /\ queue' = Append(Tail(queue), r)
  /\ UNCHANGED <<outcome, requested, provider, runner, caller, overtaken, trouble>>

Refuse(r) ==
  /\ Applies(r) /\ step[r] = "admitting" /\ ~Admissible
  /\ step' = [step EXCEPT ![r] = "refused"]
  /\ queue' = Tail(queue)
  /\ UNCHANGED <<database, outcome, activeExecution, requested, provider, runner,
                 caller, overtaken, trouble>>

\* The process is spawned and entered in the runner's table.
Spawns(r) ==
  /\ step' = [step EXCEPT ![r] = "running"]
  /\ process' = [process EXCEPT ![r] = "alive"]
  /\ active' = r
  /\ UNCHANGED <<outcome, cancelled>>

\* Mutant of Enters: the container runner, too, waits before it spawns.
MutantEnters(r) ==
  /\ step' = [step EXCEPT ![r] = "launching"]
  /\ UNCHANGED <<outcome, runner>>

\* runner.run: CodexRunner first waits for its log directory and file,
\* ContainerCodexRunner spawns at once.
Enters(r) ==
  \/ provider = "container" /\ Spawns(r)
  \/ /\ provider = "local"
     /\ step' = [step EXCEPT ![r] = "launching"]
     /\ UNCHANGED <<outcome, runner>>

\* The run is stored as running; then it is cancelled, refused by the runner,
\* or handed to it.
Start(r) ==
  /\ Applies(r) /\ step[r] = "starting"
  /\ status' = [status EXCEPT ![r] = IF @ = "queued" THEN "running" ELSE @]
  /\ \/ requested /\ Ends(r, "cancelled", Tail(queue)) /\ UNCHANGED runner
     \/ /\ ~requested /\ active # NoRun
        /\ Ends(r, "failed", Tail(queue)) /\ UNCHANGED runner
     \/ /\ ~requested /\ active = NoRun
        /\ Enters(r) /\ queue' = Tail(queue)
  /\ UNCHANGED <<agent, activeExecution, requested, provider, caller, overtaken, trouble>>

\* CodexRunner.run after mkdir and writeFile, one of which may fail.
Launch(r) ==
  /\ step[r] = "launching"
  /\ \/ Spawns(r) /\ UNCHANGED queue
     \/ Ends(r, "failed", queue) /\ UNCHANGED runner
  /\ UNCHANGED <<database, activeExecution, requested, provider, caller, overtaken, trouble>>

\* Mutant of Verdict: the word for a cancelled run is not one of AgentRun's.
MutantVerdict(r, exit) == IF r \in cancelled THEN "stopped" ELSE exit

\* The result of run(): the flag cancelled goes before the exit.
Verdict(r, exit) == IF r \in cancelled THEN "cancelled" ELSE exit

\* ... but an error of the process, or of reading its log, goes before both.
Results(r, exit) == {Verdict(r, exit), "failed"}

\* The process closes by itself, because it was killed or because its time was
\* up.  The container runner ends at once; the local one first reads its log.
CloseProcess(r) ==
  /\ process[r] = "alive"
  /\ process' = [process EXCEPT ![r] = "dead"]
  /\ \E exit \in {"completed", "failed"} :
       \/ /\ provider = "container"
          /\ \E how \in Results(r, exit) : Ends(r, how, queue)
          /\ active' = NoRun
       \/ /\ provider = "local"
          /\ step' = [step EXCEPT ![r] = "closed"]
          /\ outcome' = [outcome EXCEPT ![r] = exit]
          /\ UNCHANGED <<queue, active>>
  /\ UNCHANGED <<database, activeExecution, requested, provider, cancelled, caller,
                 overtaken, trouble>>

\* CodexRunner.run after drainBouncerLog decides what the run returns.
Decide(r) ==
  /\ step[r] = "closed"
  /\ step' = [step EXCEPT ![r] = "draining"]
  /\ \E how \in Results(r, outcome[r]) : outcome' = [outcome EXCEPT ![r] = how]
  /\ UNCHANGED <<database, queue, activeExecution, requested, provider, runner, caller,
                 overtaken, trouble>>

\* CodexRunner.run's finally block, after its own drainBouncerLog.
Unregister(r) ==
  /\ step[r] = "draining"
  /\ active' = NoRun
  /\ Ends(r, outcome[r], queue)
  /\ UNCHANGED <<database, activeExecution, requested, provider, cancelled, process, caller,
                 overtaken, trouble>>

\* Mutant of AgentAfter: a cancelled run does not release its agent.
MutantAgentAfter(how) ==
  IF agent = "gone" \/ (agent = "stopped" /\ how # "completed") THEN agent
  ELSE IF how = "failed" THEN "error"
  ELSE IF how = "cancelled" THEN agent ELSE "ready"

\* A completed run makes its agent ready even if it was stopped; another one
\* leaves a stopped agent alone.
AgentAfter(how) ==
  IF agent = "gone" \/ (agent = "stopped" /\ how # "completed") THEN agent
  ELSE IF how = "failed" THEN "error" ELSE "ready"

\* executeRun's last mutation; the execution settles and leaves the table.
Finish(r) ==
  /\ Applies(r) /\ step[r] = "finishing"
  /\ status' = [status EXCEPT ![r] = IF @ = "gone" THEN @ ELSE outcome[r]]
  /\ agent' = AgentAfter(outcome[r])
  /\ step' = [step EXCEPT ![r] = "done"]
  /\ activeExecution' = IF activeExecution = r THEN NoRun ELSE activeExecution
  /\ queue' = Tail(queue)
  /\ UNCHANGED <<outcome, requested, provider, runner, caller, overtaken, trouble>>

-----------------------------------------------------------------------------
(* Requests *)

\* What a call does once cancelExecution has ended.
NextStep(call) ==
  IF call.op = "delete" THEN "archiving"
  ELSE IF call.run = NoRun THEN "setting"
  ELSE IF status[call.run] = "gone" THEN "rejected" ELSE "reporting"

\* Mutant of Ended: the request of the agent is never withdrawn.
MutantEnded(c, call, q) ==
  /\ requested' = TRUE
  /\ caller' = [caller EXCEPT ![c] = [call EXCEPT !.step = NextStep(call)]]
  /\ queue' = IF NextStep(call) \in {"reporting", "setting"} THEN Append(q, c) ELSE q

\* cancelExecution ends: the request is withdrawn, whoever else made it too.
Ended(c, call, q) ==
  /\ requested' = FALSE
  /\ caller' = [caller EXCEPT ![c] = [call EXCEPT !.step = NextStep(call)]]
  /\ queue' = IF NextStep(call) \in {"reporting", "setting"} THEN Append(q, c) ELSE q

\* Mutant of AwaitsExecution: the execution is not awaited.
MutantAwaitsExecution(c, call, q) == Ended(c, call, q)

\* cancelExecution waits for the execution the agent has now, if any.
AwaitsExecution(c, call, q) ==
  IF activeExecution = NoRun THEN Ended(c, call, q)
  ELSE /\ requested' = TRUE
       /\ caller' = [caller EXCEPT ![c] =
                       [call EXCEPT !.step = "awaiting", !.awaited = activeExecution]]
       /\ queue' = q

\* cancelExecution up to its first wait: the process the runner knows is
\* flagged and killed.
CancelExecution(c, call, q) ==
  IF active = NoRun THEN AwaitsExecution(c, call, q) /\ UNCHANGED cancelled
  ELSE /\ requested' = TRUE
       /\ cancelled' = cancelled \cup {active}
       /\ caller' = [caller EXCEPT ![c] =
                       [call EXCEPT !.step = "settling", !.awaited = active]]
       /\ queue' = q

Begins(c, op) == caller[c] = NoCall /\ op \in Operations

\* cancelRun of an active run, and stopAgent when it finds one, first note the
\* request in the trace.
NoteCancel(c, op, r) ==
  /\ Begins(c, op)
  /\ r \in ActiveRuns
  /\ caller' = [caller EXCEPT ![c] = [NoCall EXCEPT !.op = op, !.step = "noting", !.run = r]]
  /\ queue' = Append(queue, c)
  /\ UNCHANGED <<database, step, outcome, activeExecution, requested, provider, runner,
                 overtaken, trouble>>

\* stopAgent without an active run, and deleteAgent, cancel right away.
CancelAgent(c, op) ==
  /\ Begins(c, op)
  /\ agent # "gone"
  /\ op = "stop" => ActiveRuns = {}
  /\ CancelExecution(c, [NoCall EXCEPT !.op = op], queue)
  /\ UNCHANGED <<database, step, outcome, activeExecution, provider, active, process,
                 overtaken, trouble>>

\* startAgent queues its mutation.
StartAgent(c) ==
  /\ Begins(c, "start")
  /\ caller' = [caller EXCEPT ![c] = [NoCall EXCEPT !.op = "start", !.step = "setting"]]
  /\ queue' = Append(queue, c)
  /\ UNCHANGED <<database, step, outcome, activeExecution, requested, provider, runner,
                 overtaken, trouble>>

Request(c) ==
  \/ \E r \in Runs : NoteCancel(c, "cancel", r) \/ NoteCancel(c, "stop", r)
  \/ CancelAgent(c, "stop") \/ CancelAgent(c, "delete")
  \/ StartAgent(c)

\* The request is in the trace: cancelExecution.
Noted(c) ==
  /\ Applies(c) /\ caller[c].step = "noting"
  /\ CancelExecution(c, caller[c], Tail(queue))
  /\ UNCHANGED <<database, step, outcome, activeExecution, provider, active, process,
                 overtaken, trouble>>

\* runner.cancel returns once the process it killed has closed.
Settled(c) ==
  /\ caller[c].step = "settling"
  /\ process[caller[c].awaited] = "dead"
  /\ AwaitsExecution(c, caller[c], queue)
  /\ UNCHANGED <<database, step, outcome, activeExecution, provider, runner, overtaken,
                 trouble>>

\* The awaited execution has ended.
Awaited(c) ==
  /\ caller[c].step = "awaiting"
  /\ step[caller[c].awaited] = "done"
  /\ Ended(c, caller[c], queue)
  /\ UNCHANGED <<database, step, outcome, activeExecution, provider, runner, overtaken,
                 trouble>>

\* The awaited execution was rejected; cancelRun notes that before it throws.
AwaitedLost(c) ==
  /\ caller[c].step = "awaiting"
  /\ step[caller[c].awaited] = "lost"
  /\ requested' = FALSE
  /\ IF caller[c].run = NoRun
     THEN caller' = [caller EXCEPT ![c].step = "rejected"] /\ UNCHANGED queue
     ELSE caller' = [caller EXCEPT ![c].step = "failing"] /\ queue' = Append(queue, c)
  /\ UNCHANGED <<database, step, outcome, activeExecution, provider, runner, overtaken,
                 trouble>>

Resume(c) == Settled(c) \/ Awaited(c) \/ AwaitedLost(c)

\* cancelRun's last trace entry; stopAgent goes on to the agent's status.
Reported(c) ==
  /\ Applies(c) /\ caller[c].step = "reporting"
  /\ IF caller[c].op = "stop"
     THEN caller' = [caller EXCEPT ![c].step = "setting"] /\ queue' = Append(Tail(queue), c)
     ELSE caller' = [caller EXCEPT ![c].step = "returned"] /\ queue' = Tail(queue)
  /\ UNCHANGED <<database, step, outcome, activeExecution, requested, provider, runner,
                 overtaken, trouble>>

Failed(c) ==
  /\ Applies(c) /\ caller[c].step = "failing"
  /\ caller' = [caller EXCEPT ![c].step = "rejected"]
  /\ queue' = Tail(queue)
  /\ UNCHANGED <<database, step, outcome, activeExecution, requested, provider, runner,
                 overtaken, trouble>>

\* setStatus: "stopped" is stored whatever the agent does; "ready" is refused
\* while it is busy.
SetStatus(c) ==
  /\ Applies(c) /\ caller[c].step = "setting"
  /\ queue' = Tail(queue)
  /\ IF agent = "gone" \/ (caller[c].op = "start" /\ agent = "busy")
     THEN /\ caller' = [caller EXCEPT ![c].step = "rejected"]
          /\ UNCHANGED <<agent, overtaken>>
     ELSE /\ caller' = [caller EXCEPT ![c].step = "returned"]
          /\ agent' = IF caller[c].op = "start" THEN "ready" ELSE "stopped"
          /\ overtaken' = (overtaken \/ agent = "busy")
  /\ UNCHANGED <<status, step, outcome, activeExecution, requested, provider, runner, trouble>>

\* deleteAgent moves the workspace away, which may fail, ...
Archive(c) ==
  /\ caller[c].step = "archiving"
  /\ \/ caller' = [caller EXCEPT ![c].step = "deleting"] /\ queue' = Append(queue, c)
     \/ caller' = [caller EXCEPT ![c].step = "rejected"] /\ UNCHANGED queue
  /\ UNCHANGED <<database, step, outcome, activeExecution, requested, provider, runner,
                 overtaken, trouble>>

\* ... and removes the agent with its runs.
Delete(c) ==
  /\ Applies(c) /\ caller[c].step = "deleting"
  /\ caller' = [caller EXCEPT ![c].step = "returned"]
  /\ agent' = "gone"
  /\ status' = [r \in Runs |-> IF status[r] = "none" THEN "none" ELSE "gone"]
  /\ queue' = Tail(queue)
  /\ UNCHANGED <<step, outcome, activeExecution, requested, provider, runner, overtaken,
                 trouble>>

-----------------------------------------------------------------------------
(* Failures *)

WriteFails(who) ==
  /\ Applies(who)
  /\ trouble.faults < MaxFaults
  /\ trouble' = [trouble EXCEPT !.faults = @ + 1]

\* A mutation of executeRun is not written.  The one that completes the run is
\* inside the try block: the run fails instead.  Nobody handles the others.
RunWriteFails(r) ==
  /\ WriteFails(r)
  /\ \/ /\ step[r] = "admitting"
        /\ step' = [step EXCEPT ![r] = "refused"]
        /\ queue' = Tail(queue)
        /\ UNCHANGED <<outcome, activeExecution>>
     \/ /\ step[r] = "finishing" /\ outcome[r] = "completed"
        /\ Ends(r, "failed", Tail(queue))
        /\ UNCHANGED activeExecution
     \/ /\ step[r] = "starting" \/ (step[r] = "finishing" /\ outcome[r] # "completed")
        /\ step' = [step EXCEPT ![r] = "lost"]
        /\ queue' = Tail(queue)
        /\ activeExecution' = IF activeExecution = r THEN NoRun ELSE activeExecution
        /\ UNCHANGED outcome
  /\ UNCHANGED <<database, requested, provider, runner, caller, overtaken>>

\* A mutation of a request is not written: the request is rejected there.
CallWriteFails(c) ==
  /\ WriteFails(c)
  /\ caller' = [caller EXCEPT ![c].step = "rejected"]
  /\ queue' = Tail(queue)
  /\ UNCHANGED <<database, step, outcome, activeExecution, requested, provider, runner,
                 overtaken>>

\* Mutant of RestartStatus: every run is marked.
MutantRestartStatus(r) == IF status[r] \in {"none", "gone"} THEN status[r] ELSE "cancelled"

\* initialize: a run that was active is cancelled.
RestartStatus(r) == IF status[r] \in ActiveStatus THEN "cancelled" ELSE status[r]

\* Mutant of RestartAgent: every agent that is left is made ready.
MutantRestartAgent == IF agent = "gone" THEN "gone" ELSE "ready"

RestartAgent == IF agent = "busy" THEN "ready" ELSE agent

\* The server dies and restarts.  What was in memory is lost; a process that
\* was running is nobody's child any more.
Crash ==
  /\ trouble.crashes < MaxCrashes
  /\ trouble' = [trouble EXCEPT !.crashes = @ + 1]
  /\ status' = [r \in Runs |-> RestartStatus(r)]
  /\ agent' = RestartAgent
  /\ queue' = <<>>
  /\ step' = [r \in Runs |-> IF step[r] \in InProgress \cup {"admitting", "lost"}
                             THEN "crashed" ELSE step[r]]
  /\ activeExecution' = NoRun
  /\ requested' = FALSE
  /\ active' = NoRun
  /\ cancelled' = {}
  /\ process' = [r \in Runs |-> IF process[r] = "alive" THEN "orphan" ELSE process[r]]
  /\ caller' = [c \in Callers |-> IF caller[c].step \in {"idle", "returned"} THEN caller[c]
                                  ELSE [caller[c] EXCEPT !.step = "rejected"]]
  /\ overtaken' = FALSE
  /\ UNCHANGED <<outcome, provider>>

-----------------------------------------------------------------------------
(* Specification *)

\* A promise has settled whose continuation runs before any other event.  Only
\* the removal of a container takes its own time after the process has closed.
Due(c) ==
  \/ caller[c].step = "awaiting" /\ step[caller[c].awaited] \in {"done", "lost"}
  \/ /\ caller[c].step = "settling" /\ provider = "local"
     /\ process[caller[c].awaited] = "dead"

RunStepOf(r) ==
  Admit(r) \/ Refuse(r) \/ Start(r) \/ Launch(r) \/ CloseProcess(r) \/ Decide(r)
    \/ Unregister(r) \/ Finish(r)

CallStepOf(c) ==
  Noted(c) \/ Reported(c) \/ Failed(c) \/ SetStatus(c) \/ Archive(c) \/ Delete(c)

Event ==
  \/ \E r \in Runs : Send(r) \/ RunStepOf(r) \/ RunWriteFails(r)
  \/ \E c \in Callers : Request(c) \/ CallStepOf(c) \/ CallWriteFails(c)
  \/ Crash

Next ==
  \/ \E c \in Callers : Resume(c)
  \/ (\A c \in Callers : ~Due(c)) /\ Event

Spec == Init /\ [][Next]_vars

-----------------------------------------------------------------------------
(* Properties *)

Calls(op, s) == {c \in Callers : caller[c].op = op /\ caller[c].step = s}

\* Every variable has its type.
TypeOK ==
  /\ agent \in {"ready", "busy", "stopped", "error", "gone"}
  /\ status \in [Runs -> {"none", "gone"} \cup ActiveStatus \cup EndStatus]
  /\ queue \in Seq(Runs \cup Callers)
  /\ step \in [Runs -> RunStep]
  /\ outcome \in [Runs -> {"none"} \cup EndStatus]
  /\ activeExecution \in Runs \cup {NoRun}
  /\ requested \in BOOLEAN
  /\ provider \in Providers
  /\ active \in Runs \cup {NoRun}
  /\ cancelled \subseteq Runs
  /\ process \in [Runs -> {"none", "alive", "dead", "orphan"}]
  /\ caller \in [Callers -> Call]
  /\ overtaken \in BOOLEAN
  /\ trouble \in [crashes : 0..MaxCrashes, faults : 0..MaxFaults]

\* An agent has at most one active run.
OneRunPerAgent == \A r, s \in ActiveRuns : r = s

\* An agent has at most one active run and one process, unless setStatus stored
\* "stopped" over a busy agent: that is the only way to a second run.
OneRunUnlessOvertaken ==
  ~overtaken =>
    /\ OneRunPerAgent
    /\ \A r, s \in Runs : process[r] = "alive" /\ process[s] = "alive" => r = s

\* Kill Switch: a cancelRun that waits for its run has killed the process.
KillReachesProcess ==
  \A c \in Callers :
    caller[c].step = "awaiting" /\ caller[c].awaited = caller[c].run
      /\ process[caller[c].run] = "alive" => caller[c].run \in cancelled

\* The container runner, which does not wait before it registers a process,
\* gives that guarantee as long as the agent has one run at a time.
ContainerKillReachesProcess == provider = "container" /\ ~overtaken => KillReachesProcess

\* When cancelRun returns, its run has ended and no process of it is left,
\* unless its execution was rejected because a write failed.
CancelledRunHasEnded ==
  ~overtaken =>
    \A c \in Calls("cancel", "returned") :
      /\ status[caller[c].run] \in ActiveStatus => step[caller[c].run] = "lost"
      /\ process[caller[c].run] # "alive"

\* A busy agent is never left without a run that will release it, whatever
\* stops, starts and crashes happened, unless a write failed.
BusyAgentIsReleased ==
  agent = "busy" /\ trouble.faults = 0 => \E r \in ActiveRuns : step[r] \in InProgress

\* A request to cancel does not outlive the calls that made it: one that did
\* would cancel every later run of the agent.
NoStaleRequest == requested => \E c \in Callers : caller[c].step \in {"settling", "awaiting"}

\* A run that has ended keeps its end until it is deleted.
RunEndIsFinal ==
  [][\A r \in Runs : status[r] \in EndStatus => status'[r] \in {status[r], "gone"}]_vars

\* A stopped agent becomes ready only by startAgent, unless "stopped" was
\* stored over a busy agent.
StoppedUntilStarted ==
  [][agent = "stopped" /\ agent' # "stopped" /\ ~overtaken =>
       agent' = "gone" \/ \E c \in Calls("start", "setting") : caller'[c].step = "returned"]_vars
=============================================================================
