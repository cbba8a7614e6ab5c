-------------------------- MODULE AgentServiceProofs --------------------------
(***************************************************************************)
(* Type correctness of AgentService, one run at a time, and what a         *)
(* cancellation achieves, for every number of messages, requests, crashes  *)
(* and failed writes.                                                      *)
(***************************************************************************)
EXTENDS AgentService, TLAPS

-----------------------------------------------------------------------------
(* Type correctness *)

\* A mutation put behind a queue leaves a queue.
LEMMA AppendType ==
  ASSUME NEW q \in Seq(Runs \cup Callers), NEW who \in Runs \cup Callers
  PROVE  Append(q, who) \in Seq(Runs \cup Callers)
OBVIOUS

\* The queue behind the mutation that is applied.
LEMMA RestType ==
  ASSUME TypeOK, NEW who \in Runs \cup Callers, Applies(who)
  PROVE  /\ Tail(queue) \in Seq(Runs \cup Callers)
         /\ Append(Tail(queue), who) \in Seq(Runs \cup Callers)
<1>1. Tail(queue) \in Seq(Runs \cup Callers)
  BY DEF TypeOK, Applies
<1> QED
  BY <1>1, AppendType

\* The two ways cancelExecution goes on leave well-typed callers and queue.
LEMMA EndedType ==
  ASSUME TypeOK, NEW c \in Callers, NEW call \in Call, NEW q \in Seq(Runs \cup Callers),
         Ended(c, call, q)
  PROVE  /\ requested' \in BOOLEAN
         /\ caller' \in [Callers -> Call]
         /\ queue' \in Seq(Runs \cup Callers)
<1>1. NextStep(call) \in CallStep
  BY DEF NextStep, CallStep
<1>2. [call EXCEPT !.step = NextStep(call)] \in Call
  BY <1>1 DEF Call
<1>3. caller' \in [Callers -> Call]
  BY <1>2 DEF TypeOK, Ended
<1>4. queue' \in Seq(Runs \cup Callers)
  BY AppendType DEF Ended
<1> QED
  BY <1>3, <1>4 DEF Ended

LEMMA AwaitsExecutionType ==
  ASSUME TypeOK, NEW c \in Callers, NEW call \in Call, NEW q \in Seq(Runs \cup Callers),
         AwaitsExecution(c, call, q)
  PROVE  /\ requested' \in BOOLEAN
         /\ caller' \in [Callers -> Call]
         /\ queue' \in Seq(Runs \cup Callers)
<1>1. CASE activeExecution = NoRun
  BY <1>1, EndedType DEF AwaitsExecution
<1>2. CASE activeExecution # NoRun
  <2>1. [call EXCEPT !.step = "awaiting", !.awaited = activeExecution] \in Call
    BY DEF TypeOK, Call, CallStep
  <2> QED
    BY <1>2, <2>1 DEF TypeOK, AwaitsExecution
<1> QED
  BY <1>1, <1>2

LEMMA CancelExecutionType ==
  ASSUME TypeOK, NEW c \in Callers, NEW call \in Call, NEW q \in Seq(Runs \cup Callers),
         CancelExecution(c, call, q)
  PROVE  /\ requested' \in BOOLEAN
         /\ cancelled' \subseteq Runs
         /\ caller' \in [Callers -> Call]
         /\ queue' \in Seq(Runs \cup Callers)
<1>1. CASE active = NoRun
  BY <1>1, AwaitsExecutionType DEF CancelExecution, TypeOK
<1>2. CASE active # NoRun
  <2>1. [call EXCEPT !.step = "settling", !.awaited = active] \in Call
    BY DEF TypeOK, Call, CallStep
  <2> QED
    BY <1>2, <2>1 DEF TypeOK, CancelExecution
<1> QED
  BY <1>1, <1>2

\* A failed write is counted within its bound.
LEMMA WriteFailsType ==
  ASSUME TypeOK, NEW who, WriteFails(who)
  PROVE  trouble' \in [crashes : 0..MaxCrashes, faults : 0..MaxFaults]
<1>1. /\ trouble \in [crashes : 0..MaxCrashes, faults : 0..MaxFaults]
      /\ trouble.faults < MaxFaults
      /\ trouble' = [trouble EXCEPT !.faults = @ + 1]
  BY DEF WriteFails, TypeOK
<1>2. trouble.faults + 1 \in 0..MaxFaults
  BY <1>1, AgentAssumption
<1> QED
  BY <1>1, <1>2

\* Steps of a run keep every variable well typed.
LEMMA RunStepType ==
  ASSUME TypeOK, NEW r \in Runs, Send(r) \/ RunStepOf(r) \/ RunWriteFails(r)
  PROVE  TypeOK'
<1> USE DEF TypeOK, RunStep, ActiveStatus, EndStatus
<1>a. Append(queue, r) \in Seq(Runs \cup Callers)
  BY AppendType
<1>b. Applies(r) => /\ Tail(queue) \in Seq(Runs \cup Callers)
                     /\ Append(Tail(queue), r) \in Seq(Runs \cup Callers)
  BY RestType
<1>1. CASE Send(r)
  BY <1>1 DEF Send, database, runner
<1>2. CASE Admit(r)
  BY <1>2, <1>b DEF Admit, runner
<1>3. CASE Refuse(r)
  BY <1>3, <1>b DEF Refuse, database, runner
<1>4. CASE Start(r)
  <2>1. status' \in [Runs -> {"none", "gone"} \cup ActiveStatus \cup EndStatus]
    BY <1>4 DEF Start
  <2> QED
    <3>1. queue' \in Seq(Runs \cup Callers)
      BY <1>4, <1>b DEF Start, Ends
    <3>2. /\ step' \in [Runs -> RunStep]
          /\ outcome' \in [Runs -> {"none"} \cup EndStatus]
          /\ process' \in [Runs -> {"none", "alive", "dead", "orphan"}]
          /\ active' \in Runs \cup {NoRun}
          /\ cancelled' \subseteq Runs
      BY <1>4 DEF Start, Ends, Enters, Spawns, runner
    <3> QED
      BY <1>4, <2>1, <3>1, <3>2 DEF Start
<1>5. CASE Launch(r)
  BY <1>5, <1>a DEF Launch, Spawns, Ends, database, runner
<1>6. CASE CloseProcess(r)
  <2>1. queue' \in Seq(Runs \cup Callers)
    BY <1>6, <1>a DEF CloseProcess, Ends
  <2>2. /\ step' \in [Runs -> RunStep]
        /\ outcome' \in [Runs -> {"none"} \cup EndStatus]
        /\ process' \in [Runs -> {"none", "alive", "dead", "orphan"}]
        /\ active' \in Runs \cup {NoRun}
    BY <1>6 DEF CloseProcess, Ends, Results, Verdict
  <2> QED
    BY <1>6, <2>1, <2>2 DEF CloseProcess, database
<1>7. CASE Decide(r)
  BY <1>7 DEF Decide, Results, Verdict, database, runner
<1>8. CASE Unregister(r)
  BY <1>8 DEF Unregister, Ends, database
<1>9. CASE Finish(r)
  <2>1. agent' \in {"ready", "busy", "stopped", "error", "gone"}
    BY <1>9 DEF Finish, AgentAfter
  <2> QED
    BY <1>9, <2>1, <1>b DEF Finish, runner
<1>10. CASE RunWriteFails(r)
  <2>1. trouble' \in [crashes : 0..MaxCrashes, faults : 0..MaxFaults]
    BY <1>10, WriteFailsType DEF RunWriteFails
  <2>2. Applies(r)
    BY <1>10 DEF RunWriteFails, WriteFails
  <2> QED
    <3>1. queue' \in Seq(Runs \cup Callers)
      BY <1>10, <2>2, <1>b DEF RunWriteFails, Ends
    <3>2. /\ step' \in [Runs -> RunStep]
          /\ outcome' \in [Runs -> {"none"} \cup EndStatus]
          /\ activeExecution' \in Runs \cup {NoRun}
      BY <1>10 DEF RunWriteFails, Ends
    <3> QED
      BY <1>10, <2>1, <3>1, <3>2 DEF RunWriteFails, database, runner
<1> QED
  BY <1>1, <1>2, <1>3, <1>4, <1>5, <1>6, <1>7, <1>8, <1>9, <1>10 DEF RunStepOf

\* Steps of a caller keep every variable well typed.
LEMMA CallStepType ==
  ASSUME TypeOK, NEW c \in Callers,
         Request(c) \/ CallStepOf(c) \/ CallWriteFails(c) \/ Resume(c)
  PROVE  TypeOK'
<1> USE DEF TypeOK
<1>a. Append(queue, c) \in Seq(Runs \cup Callers)
  BY AppendType
<1>b. Applies(c) => /\ Tail(queue) \in Seq(Runs \cup Callers)
                     /\ Append(Tail(queue), c) \in Seq(Runs \cup Callers)
  BY RestType
<1>1. ASSUME NEW s \in CallStep, caller' = [caller EXCEPT ![c].step = s]
      PROVE  caller' \in [Callers -> Call]
  BY <1>1 DEF Call
<1>2. \A op \in Operations : \A s \in CallStep : \A r \in Runs \cup {NoRun} :
        [NoCall EXCEPT !.op = op, !.step = s, !.run = r] \in Call
  BY DEF NoCall, Call
<1>3. \A op \in Operations : [NoCall EXCEPT !.op = op] \in Call
  BY DEF NoCall, Call, CallStep
<1>4. ASSUME NEW op, NEW r \in Runs, NoteCancel(c, op, r)  PROVE TypeOK'
  <2>1. [NoCall EXCEPT !.op = op, !.step = "noting", !.run = r] \in Call
    BY <1>2, <1>4 DEF NoteCancel, Begins, CallStep
  <2>2. queue' \in Seq(Runs \cup Callers)
    BY <1>4, <1>a DEF NoteCancel
  <2> QED
    BY <1>4, <2>1, <2>2 DEF NoteCancel, database, runner
<1>5. ASSUME NEW op, CancelAgent(c, op)  PROVE TypeOK'
  <2>1. [NoCall EXCEPT !.op = op] \in Call
    BY <1>3, <1>5 DEF CancelAgent, Begins
  <2> QED
    BY <1>5, <2>1, CancelExecutionType DEF CancelAgent, database
<1>6. CASE StartAgent(c)
  <2>1. [NoCall EXCEPT !.op = "start", !.step = "setting"] \in Call
    BY <1>6 DEF StartAgent, Begins, NoCall, Call, CallStep
  <2> QED
    BY <1>6, <2>1 DEF StartAgent, database, runner
<1>7. CASE Noted(c)
  <2>1. caller[c] \in Call
    OBVIOUS
  <2> QED
    BY <1>7, <2>1, <1>b, CancelExecutionType DEF Noted, database
<1>8. CASE Settled(c)
  BY <1>8, AwaitsExecutionType DEF Settled, database, runner
<1>9. CASE Awaited(c)
  BY <1>9, EndedType DEF Awaited, database, runner
<1>10. CASE AwaitedLost(c)
  BY <1>1, <1>10, <1>a DEF AwaitedLost, CallStep, database, runner
<1>11. CASE Reported(c)
  BY <1>1, <1>11, <1>b DEF Reported, CallStep, database, runner
<1>12. CASE Failed(c)
  BY <1>1, <1>12, <1>b DEF Failed, CallStep, database, runner
<1>13. CASE SetStatus(c)
  BY <1>1, <1>13, <1>b DEF SetStatus, CallStep, runner
<1>14. CASE Archive(c)
  BY <1>1, <1>14, <1>a DEF Archive, CallStep, database, runner
<1>15. CASE Delete(c)
  BY <1>1, <1>15, <1>b DEF Delete, CallStep, runner
<1>16. CASE CallWriteFails(c)
  <2>1. trouble' \in [crashes : 0..MaxCrashes, faults : 0..MaxFaults]
    BY <1>16, WriteFailsType DEF CallWriteFails
  <2>2. Applies(c)
    BY <1>16 DEF CallWriteFails, WriteFails
  <2> QED
    BY <1>1, <1>16, <2>1, <2>2, <1>b DEF CallWriteFails, CallStep, database, runner
<1> QED
  BY <1>4, <1>5, <1>6, <1>7, <1>8, <1>9, <1>10, <1>11, <1>12, <1>13, <1>14, <1>15, <1>16
  DEF Request, CallStepOf, Resume

LEMMA CrashType ==
  ASSUME TypeOK, Crash
  PROVE  TypeOK'
<1>1. trouble' \in [crashes : 0..MaxCrashes, faults : 0..MaxFaults]
  <2>1. /\ trouble \in [crashes : 0..MaxCrashes, faults : 0..MaxFaults]
        /\ trouble.crashes < MaxCrashes
        /\ trouble' = [trouble EXCEPT !.crashes = @ + 1]
    BY DEF Crash, TypeOK
  <2>2. trouble.crashes + 1 \in 0..MaxCrashes
    BY <2>1, AgentAssumption
  <2> QED
    BY <2>1, <2>2
<1>2. caller' \in [Callers -> Call]
  <2>1. \A c \in Callers : caller[c] \in Call
    BY DEF TypeOK
  <2>2. \A c \in Callers : [caller[c] EXCEPT !.step = "rejected"] \in Call
    BY <2>1 DEF Call, CallStep
  <2> QED
    BY <2>1, <2>2 DEF Crash
<1>3. status' \in [Runs -> {"none", "gone"} \cup ActiveStatus \cup EndStatus]
  BY DEF Crash, TypeOK, RestartStatus, ActiveStatus, EndStatus
<1>4. step' \in [Runs -> RunStep]
  BY DEF Crash, TypeOK, RunStep
<1>5. agent' \in {"ready", "busy", "stopped", "error", "gone"}
  BY DEF Crash, TypeOK, RestartAgent
<1>6. /\ queue' \in Seq(Runs \cup Callers)
      /\ process' \in [Runs -> {"none", "alive", "dead", "orphan"}]
  BY DEF Crash, TypeOK
<1>7. /\ outcome' = outcome /\ provider' = provider
      /\ activeExecution' = NoRun /\ active' = NoRun
      /\ requested' = FALSE /\ overtaken' = FALSE /\ cancelled' = {}
  BY DEF Crash
<1> QED
  BY <1>1, <1>2, <1>3, <1>4, <1>5, <1>6, <1>7 DEF TypeOK

LEMMA AgentTypeInitially == Init => TypeOK
<1> SUFFICES ASSUME Init  PROVE TypeOK
  OBVIOUS
<1> USE DEF Init
<1>1. caller \in [Callers -> Call]
  BY DEF Call, CallStep, NoCall
<1>2. queue \in Seq(Runs \cup Callers)
  OBVIOUS
<1>3. trouble \in [crashes : 0..MaxCrashes, faults : 0..MaxFaults]
  BY AgentAssumption
<1> QED
  BY <1>1, <1>2, <1>3 DEF TypeOK, RunStep, ActiveStatus, EndStatus

LEMMA AgentTypePreserved == TypeOK /\ [Next]_vars => TypeOK'
<1> SUFFICES ASSUME TypeOK, [Next]_vars  PROVE TypeOK'
  OBVIOUS
<1>1. CASE UNCHANGED vars
  BY <1>1 DEF TypeOK, vars
<1>2. CASE Next
  BY <1>2, RunStepType, CallStepType, CrashType DEF Next, Event
<1> QED
  BY <1>1, <1>2

\* Every reachable state of every instance is well typed.
THEOREM AgentTypeCorrect == Spec => []TypeOK
BY AgentTypeInitially, AgentTypePreserved, PTL DEF Spec

-----------------------------------------------------------------------------
(* One run at a time *)

\* r holds the agent: in the store, in memory or both.
Holds(r) == status[r] \in ActiveStatus \/ step[r] \in InProgress

\* Deleted runs belong to a deleted agent, and only a running run has a process.
Grounded ==
  /\ \A r \in Runs : status[r] = "gone" => agent = "gone"
  /\ \A r \in Runs : process[r] = "alive" => step[r] = "running"

\* An agent that is held is busy, or deleted, and held by one run.
HeldByOne ==
  /\ \A r \in Runs : Holds(r) => agent \in {"busy", "gone"}
  /\ \A r, s \in Runs : Holds(r) /\ Holds(s) => r = s

Exclusive == TypeOK /\ Grounded /\ (~overtaken => HeldByOne)

\* A step that lets go of runs, and leaves the agent's row alone, is harmless.
LEMMA HeldByFewer ==
  ASSUME HeldByOne, agent' = agent, \A r \in Runs : Holds(r)' => Holds(r)
  PROVE  HeldByOne'
BY DEF HeldByOne

\* Only admission makes a run hold the agent, and it does so when none does.
LEMMA RunStepExclusive ==
  ASSUME Exclusive, NEW r \in Runs, Send(r) \/ RunStepOf(r) \/ RunWriteFails(r)
  PROVE  Grounded' /\ (~overtaken' => HeldByOne')
<1> USE DEF Exclusive
<1>o. overtaken' = overtaken
  BY DEF RunStepOf, Send, Admit, Refuse, Start, Launch, CloseProcess, Decide, Unregister,
         Finish, RunWriteFails
<1>1. CASE Admit(r)
  <2>1. ~overtaken => \A s \in Runs : ~Holds(s)
    BY <1>1 DEF Admit, Admissible, HeldByOne
  <2>2. \A s \in Runs : s # r => status'[s] = status[s] /\ step'[s] = step[s]
    BY <1>1 DEF Admit, TypeOK
  <2>3. ~overtaken => \A s \in Runs : Holds(s)' => s = r
    BY <2>1, <2>2 DEF Holds
  <2>4. agent' = "busy" /\ agent # "gone" /\ status'[r] = "queued" /\ step[r] = "admitting"
    BY <1>1 DEF Admit, Admissible, TypeOK
  <2>5. Grounded'
    BY <1>1, <2>2, <2>4 DEF Admit, Grounded, runner
  <2> QED
    BY <1>o, <2>3, <2>4, <2>5 DEF HeldByOne
<1>2. CASE Finish(r)
  <2>1. step[r] = "finishing" /\ Holds(r)
    BY <1>2 DEF Finish, Holds, InProgress
  <2>2. \A s \in Runs : s # r => status'[s] = status[s] /\ step'[s] = step[s]
    BY <1>2 DEF Finish, TypeOK
  <2>3. status'[r] \in {"none", "gone"} \cup EndStatus /\ step'[r] = "done"
    BY <1>2 DEF Finish, TypeOK
  <2>4. ~Holds(r)'
    BY <2>3 DEF Holds, ActiveStatus, EndStatus, InProgress
  <2>5. ~overtaken => \A s \in Runs : ~Holds(s)'
    BY <2>1, <2>2, <2>4 DEF HeldByOne, Holds
  <2>6. agent = "gone" => agent' = "gone"
    BY <1>2 DEF Finish, AgentAfter
  <2>7. status'[r] = "gone" => status[r] = "gone" \/ outcome[r] = "gone"
    BY <1>2 DEF Finish, TypeOK
  <2>8. outcome[r] # "gone"
    BY DEF TypeOK, EndStatus
  <2>9. Grounded'
    BY <1>2, <2>1, <2>2, <2>6, <2>7, <2>8 DEF Finish, Grounded, runner
  <2> QED
    BY <1>o, <2>5, <2>9 DEF HeldByOne
<1>3. ASSUME agent' = agent,
             \A s \in Runs : s # r => step'[s] = step[s] /\ process'[s] = process[s],
             \A s \in Runs : status'[s] = status[s] \/ (status[s] = "queued" /\ status'[s] = "running"),
             step'[r] \in InProgress => step[r] \in InProgress,
             process'[r] = "alive" => step'[r] = "running"
      PROVE  Grounded' /\ (~overtaken' => HeldByOne')
  <2>1. \A s \in Runs : Holds(s)' => Holds(s)
    BY <1>3 DEF Holds, ActiveStatus
  <2>2. Grounded'
    BY <1>3 DEF Grounded
  <2> QED
    BY <1>o, <1>3, <2>1, <2>2, HeldByFewer
<1>4. CASE Send(r)
  <2>1. process[r] # "alive"
    BY <1>4 DEF Send, Grounded
  <2> QED
    BY <1>3, <1>4, <2>1 DEF Send, TypeOK, InProgress, database, runner
<1>5. CASE Refuse(r)
  <2>1. process[r] # "alive"
    BY <1>5 DEF Refuse, Grounded
  <2> QED
    BY <1>3, <1>5, <2>1 DEF Refuse, TypeOK, InProgress, database, runner
<1>6. CASE Start(r)
  <2>1. process[r] # "alive"
    BY <1>6 DEF Start, Grounded
  <2>2. \A s \in Runs : status'[s] = status[s] \/ (status[s] = "queued" /\ status'[s] = "running")
    BY <1>6 DEF Start, TypeOK
  <2>3. /\ \A s \in Runs : s # r => step'[s] = step[s] /\ process'[s] = process[s]
        /\ process'[r] = "alive" => step'[r] = "running"
    BY <1>6, <2>1 DEF Start, Ends, Enters, Spawns, TypeOK, runner
  <2> QED
    BY <1>3, <1>6, <2>2, <2>3 DEF Start, InProgress
<1>7. CASE Launch(r)
  <2>1. process[r] # "alive"
    BY <1>7 DEF Launch, Grounded
  <2>2. /\ \A s \in Runs : s # r => step'[s] = step[s] /\ process'[s] = process[s]
        /\ process'[r] = "alive" => step'[r] = "running"
    BY <1>7, <2>1 DEF Launch, Ends, Spawns, TypeOK, runner
  <2> QED
    BY <1>3, <1>7, <2>2 DEF Launch, InProgress, database
<1>8. CASE CloseProcess(r)
  <2>1. step[r] \in InProgress
    BY <1>8 DEF CloseProcess, Grounded, InProgress
  <2>2. /\ \A s \in Runs : s # r => step'[s] = step[s] /\ process'[s] = process[s]
        /\ process'[r] # "alive"
    BY <1>8 DEF CloseProcess, Ends, TypeOK
  <2> QED
    BY <1>3, <1>8, <2>1, <2>2 DEF CloseProcess, database
<1>9. CASE Decide(r)
  <2>1. process[r] # "alive"
    BY <1>9 DEF Decide, Grounded
  <2> QED
    BY <1>3, <1>9, <2>1 DEF Decide, TypeOK, InProgress, database, runner
<1>10. CASE Unregister(r)
  <2>1. process[r] # "alive"
    BY <1>10 DEF Unregister, Grounded
  <2> QED
    BY <1>3, <1>10, <2>1 DEF Unregister, Ends, TypeOK, InProgress, database
<1>11. CASE RunWriteFails(r)
  <2>1. process[r] # "alive"
    BY <1>11 DEF RunWriteFails, Grounded
  <2>2. \A s \in Runs : s # r => step'[s] = step[s]
    BY <1>11 DEF RunWriteFails, Ends, TypeOK
  <2>3. step'[r] \in InProgress => step[r] \in InProgress
    BY <1>11 DEF RunWriteFails, Ends, TypeOK, InProgress
  <2> QED
    BY <1>3, <1>11, <2>1, <2>2, <2>3 DEF RunWriteFails, database, runner
<1> QED
  BY <1>1, <1>2, <1>4, <1>5, <1>6, <1>7, <1>8, <1>9, <1>10, <1>11 DEF RunStepOf

\* A request changes the agent's row in setStatus and deleteAgent only.
LEMMA CallStepExclusive ==
  ASSUME Exclusive, NEW c \in Callers,
         Request(c) \/ CallStepOf(c) \/ CallWriteFails(c) \/ Resume(c)
  PROVE  Grounded' /\ (~overtaken' => HeldByOne')
<1> USE DEF Exclusive
<1>1. CASE SetStatus(c)
  <2>1. UNCHANGED <<status, step, process>>
    BY <1>1 DEF SetStatus, runner
  <2>2. \A r \in Runs : Holds(r)' <=> Holds(r)
    BY <2>1 DEF Holds
  <2>3. agent = "gone" => agent' = "gone"
    BY <1>1 DEF SetStatus
  <2>4. Grounded'
    BY <2>1, <2>3 DEF Grounded
  <2>5. ASSUME ~overtaken'  PROVE HeldByOne'
    <3>1. ~overtaken /\ (agent' = agent \/ agent \notin {"busy", "gone"})
      BY <1>1, <2>5 DEF SetStatus, TypeOK
    <3> QED
      BY <2>2, <3>1 DEF HeldByOne
  <2> QED
    BY <2>4, <2>5
<1>2. CASE Delete(c)
  <2>1. agent' = "gone" /\ UNCHANGED <<step, process, overtaken>>
    BY <1>2 DEF Delete, runner
  <2>2. \A r \in Runs : status'[r] \in {"none", "gone"}
    BY <1>2 DEF Delete
  <2>3. \A r \in Runs : Holds(r)' => Holds(r)
    BY <2>1, <2>2 DEF Holds, ActiveStatus
  <2> QED
    BY <2>1, <2>3 DEF Grounded, HeldByOne
<1>3. CASE UNCHANGED <<agent, status, step, process, overtaken>>
  <2>1. \A r \in Runs : Holds(r)' => Holds(r)
    BY <1>3 DEF Holds
  <2>2. Grounded'
    BY <1>3 DEF Grounded
  <2> QED
    BY <1>3, <2>1, <2>2, HeldByFewer
<1>4. Request(c) \/ Resume(c) => UNCHANGED <<agent, status, step, process, overtaken>>
  BY DEF Request, Resume, NoteCancel, CancelAgent, StartAgent, Settled, Awaited, AwaitedLost,
         database, runner
<1>5. CallStepOf(c) \/ CallWriteFails(c) =>
        SetStatus(c) \/ Delete(c) \/ UNCHANGED <<agent, status, step, process, overtaken>>
  BY DEF CallStepOf, CallWriteFails, Noted, Reported, Failed, Archive, database, runner
<1> QED
  BY <1>1, <1>2, <1>3, <1>4, <1>5

\* After a restart no run holds the agent.
LEMMA CrashExclusive ==
  ASSUME Exclusive, Crash
  PROVE  Grounded' /\ HeldByOne'
<1> USE DEF Exclusive, Crash
<1>1. \A r \in Runs : step'[r] \notin InProgress /\ process'[r] # "alive"
  BY DEF InProgress
<1>2. \A r \in Runs : /\ status'[r] \notin ActiveStatus
                      /\ status'[r] = "gone" => status[r] = "gone"
  BY DEF RestartStatus, ActiveStatus
<1>3. agent = "gone" => agent' = "gone"
  BY DEF RestartAgent
<1> QED
  BY <1>1, <1>2, <1>3 DEF Grounded, HeldByOne, Holds

LEMMA ExclusiveInitially == Init => Exclusive
<1> SUFFICES ASSUME Init  PROVE Exclusive
  OBVIOUS
<1>1. \A r \in Runs : ~Holds(r)
  BY DEF Init, Holds, ActiveStatus, InProgress
<1> QED
  BY <1>1, AgentTypeInitially DEF Init, Exclusive, Grounded, HeldByOne

LEMMA ExclusivePreserved == Exclusive /\ [Next]_vars => Exclusive'
<1> SUFFICES ASSUME Exclusive, [Next]_vars  PROVE Exclusive'
  OBVIOUS
<1>1. TypeOK'
  BY AgentTypePreserved DEF Exclusive
<1>2. CASE UNCHANGED vars
  BY <1>1, <1>2 DEF vars, Exclusive, Grounded, HeldByOne, Holds
<1>3. CASE Next
  BY <1>1, <1>3, RunStepExclusive, CallStepExclusive, CrashExclusive
  DEF Next, Event, Exclusive
<1> QED
  BY <1>2, <1>3

\* Each agent has one active run and one process at a time, for any number of
\* concurrent messages and requests, until "stopped" is stored over "busy".
THEOREM OneRunAtATime == Spec => []OneRunUnlessOvertaken
<1>1. Exclusive => OneRunUnlessOvertaken
  <2> SUFFICES ASSUME Exclusive, ~overtaken
               PROVE  /\ OneRunPerAgent
                      /\ \A r, s \in Runs :
                           process[r] = "alive" /\ process[s] = "alive" => r = s
    BY DEF OneRunUnlessOvertaken
  <2>1. \A r \in Runs : process[r] = "alive" => Holds(r)
    BY DEF Exclusive, Grounded, Holds, InProgress
  <2>2. \A r \in ActiveRuns : r \in Runs /\ Holds(r)
    BY DEF ActiveRuns, Holds
  <2> QED
    BY <2>1, <2>2 DEF Exclusive, HeldByOne, OneRunPerAgent
<1> QED
  BY <1>1, ExclusiveInitially, ExclusivePreserved, PTL DEF Spec

\* The steps that write the agent's row, for the theorems about it.
LEMMA AgentRowWriters ==
  ASSUME Next, agent' # agent
  PROVE  \/ \E r \in Runs : Admit(r) \/ Finish(r)
         \/ \E c \in Callers : SetStatus(c) \/ Delete(c)
         \/ Crash
<1>1. ASSUME NEW r \in Runs, Send(r) \/ RunStepOf(r) \/ RunWriteFails(r)
      PROVE  Admit(r) \/ Finish(r)
  BY <1>1 DEF RunStepOf, Send, Refuse, Start, Launch, CloseProcess, Decide, Unregister,
              RunWriteFails, database
<1>2. ASSUME NEW c \in Callers, Request(c) \/ CallStepOf(c) \/ CallWriteFails(c) \/ Resume(c)
      PROVE  SetStatus(c) \/ Delete(c)
  BY <1>2 DEF Request, Resume, CallStepOf, NoteCancel, CancelAgent, StartAgent, Settled, Awaited,
              AwaitedLost, Noted, Reported, Failed, Archive, CallWriteFails, database
<1> QED
  BY <1>1, <1>2 DEF Next, Event

\* A stopped agent stays stopped until startAgent or deleteAgent, unless
\* "stopped" was stored over "busy".
THEOREM StoppedStays == Spec => StoppedUntilStarted
<1>1. Exclusive /\ [Next]_vars =>
        (agent = "stopped" /\ agent' # "stopped" /\ ~overtaken =>
           agent' = "gone" \/ \E c \in Calls("start", "setting") : caller'[c].step = "returned")
  <2> SUFFICES ASSUME Exclusive, Next, agent = "stopped", agent' # "stopped", ~overtaken
               PROVE  agent' = "gone"
                        \/ \E c \in Calls("start", "setting") : caller'[c].step = "returned"
    BY DEF vars
  <2>1. ASSUME NEW r \in Runs, Admit(r)  PROVE FALSE
    BY <2>1 DEF Admit, Admissible
  <2>2. ASSUME NEW r \in Runs, Finish(r)  PROVE FALSE
    BY <2>2 DEF Finish, Exclusive, HeldByOne, Holds, InProgress
  <2>3. ASSUME NEW c \in Callers, SetStatus(c)
        PROVE  \E d \in Calls("start", "setting") : caller'[d].step = "returned"
    <3>1. caller[c].op = "start" /\ caller[c].step = "setting"
      BY <2>3 DEF SetStatus
    <3>2. caller'[c].step = "returned"
      BY <2>3 DEF SetStatus, Exclusive, TypeOK, Call
    <3> QED
      BY <3>1, <3>2 DEF Calls
  <2>4. ASSUME NEW c \in Callers, Delete(c)  PROVE agent' = "gone"
    BY <2>4 DEF Delete
  <2>5. CASE Crash
    BY <2>5 DEF Crash, RestartAgent
  <2> QED
    BY <2>1, <2>2, <2>3, <2>4, <2>5, AgentRowWriters
<1> QED
  BY <1>1, ExclusiveInitially, ExclusivePreserved, PTL DEF Spec, StoppedUntilStarted

-----------------------------------------------------------------------------
(* The end of a run, and the release of its agent *)

\* The store and the memory agree on which runs are over.
EndsAgree ==
  \A r \in Runs :
    /\ status[r] \in ActiveStatus => step[r] \in InProgress \cup {"lost"}
    /\ status[r] \in EndStatus => step[r] \in {"done", "crashed"}

\* A step that starts nothing, ends nothing and only deletes runs.
LEMMA EndsFrame ==
  ASSUME EndsAgree, UNCHANGED step, \A r \in Runs : status'[r] \in {status[r], "none", "gone"}
  PROVE  EndsAgree'
BY DEF EndsAgree, ActiveStatus, EndStatus

\* A step of run r keeps the agreement if it keeps it for r.
LEMMA EndsOfOther ==
  ASSUME EndsAgree, NEW r \in Runs,
         \A s \in Runs : s # r => status'[s] = status[s] /\ step'[s] = step[s],
         status'[r] \in ActiveStatus => step'[r] \in InProgress \cup {"lost"},
         status'[r] \in EndStatus => step'[r] \in {"done", "crashed"}
  PROVE  EndsAgree'
BY DEF EndsAgree

LEMMA EndsOfRun ==
  ASSUME Exclusive, EndsAgree, NEW r \in Runs, Send(r) \/ RunStepOf(r) \/ RunWriteFails(r)
  PROVE  EndsAgree'
<1> USE DEF Exclusive, TypeOK
<1> DEFINE Active == status[r] \in ActiveStatus
           Over   == status[r] \in EndStatus
<1>1. CASE Admit(r)
  <2>1. status'[r] = "queued" /\ step'[r] = "starting"
    BY <1>1 DEF Admit
  <2> QED
    BY <1>1, <2>1, EndsOfOther DEF Admit, InProgress, EndStatus
<1>2. CASE Finish(r)
  <2>1. step'[r] = "done" /\ status'[r] \notin ActiveStatus
    BY <1>2 DEF Finish, ActiveStatus, EndStatus
  <2> QED
    BY <1>2, <2>1, EndsOfOther DEF Finish
<1>3. CASE Start(r)
  <2>1. ~Over
    BY <1>3 DEF Start, EndsAgree
  <2>2. step'[r] \in InProgress /\ status'[r] \notin EndStatus
    BY <1>3, <2>1 DEF Start, Ends, Enters, Spawns, InProgress, EndStatus
  <2>3. \A s \in Runs : s # r => status'[s] = status[s] /\ step'[s] = step[s]
    BY <1>3 DEF Start, Ends, Enters, Spawns
  <2> QED
    BY <2>2, <2>3, EndsOfOther
<1>4. ASSUME UNCHANGED status,
             \A s \in Runs : s # r => step'[s] = step[s],
             step[r] \notin {"done", "crashed"},
             Active => step'[r] \in InProgress \cup {"lost"}
      PROVE  EndsAgree'
  <2>1. ~Over
    BY <1>4 DEF EndsAgree
  <2> QED
    BY <1>4, <2>1, EndsOfOther
<1>5. CASE Send(r)
  <2>1. ~Active
    BY <1>5 DEF Send, EndsAgree, InProgress
  <2> QED
    BY <1>4, <1>5, <2>1 DEF Send, database
<1>6. CASE Refuse(r)
  <2>1. ~Active
    BY <1>6 DEF Refuse, EndsAgree, InProgress
  <2> QED
    BY <1>4, <1>6, <2>1 DEF Refuse, database
<1>7. CASE Launch(r)
  <2>1. step'[r] \in InProgress /\ \A s \in Runs : s # r => step'[s] = step[s]
    BY <1>7 DEF Launch, Spawns, Ends, InProgress
  <2> QED
    BY <1>4, <1>7, <2>1 DEF Launch, database
<1>8. CASE CloseProcess(r)
  <2>1. step'[r] \in InProgress /\ \A s \in Runs : s # r => step'[s] = step[s]
    BY <1>8 DEF CloseProcess, Ends, InProgress
  <2>2. step[r] = "running"
    BY <1>8 DEF CloseProcess, Grounded
  <2> QED
    BY <1>4, <1>8, <2>1, <2>2 DEF CloseProcess, database
<1>9. CASE Decide(r)
  BY <1>4, <1>9 DEF Decide, InProgress, database
<1>10. CASE Unregister(r)
  BY <1>4, <1>10 DEF Unregister, Ends, InProgress, database
<1>11. CASE RunWriteFails(r)
  <2>1. step[r] \in {"admitting", "starting", "finishing"}
    BY <1>11 DEF RunWriteFails
  <2>2. step[r] # "admitting" => step'[r] \in InProgress \cup {"lost"}
    BY <1>11 DEF RunWriteFails, Ends, InProgress
  <2>3. step[r] = "admitting" => ~Active
    BY DEF EndsAgree, InProgress
  <2>4. UNCHANGED status /\ \A s \in Runs : s # r => step'[s] = step[s]
    BY <1>11 DEF RunWriteFails, Ends, database
  <2> QED
    BY <1>4, <2>1, <2>2, <2>3, <2>4
<1> QED
  BY <1>1, <1>2, <1>3, <1>5, <1>6, <1>7, <1>8, <1>9, <1>10, <1>11 DEF RunStepOf

LEMMA EndsOfCall ==
  ASSUME EndsAgree, NEW c \in Callers,
         Request(c) \/ CallStepOf(c) \/ CallWriteFails(c) \/ Resume(c)
  PROVE  EndsAgree'
<1>1. CASE Delete(c)
  BY <1>1, EndsFrame DEF Delete
<1>2. CASE UNCHANGED <<status, step>>
  BY <1>2, EndsFrame
<1>3. Delete(c) \/ UNCHANGED <<status, step>>
  BY DEF Request, Resume, CallStepOf, NoteCancel, CancelAgent, StartAgent, Settled, Awaited,
         AwaitedLost, Noted, Reported, Failed, SetStatus, Archive, CallWriteFails, database
<1> QED
  BY <1>1, <1>2, <1>3

LEMMA EndsAfterCrash ==
  ASSUME EndsAgree, Crash
  PROVE  EndsAgree'
<1> SUFFICES ASSUME NEW r \in Runs
             PROVE  /\ status'[r] \notin ActiveStatus
                    /\ status'[r] \in EndStatus => step'[r] \in {"done", "crashed"}
  BY DEF EndsAgree
<1>1. status'[r] = RestartStatus(r)
  BY DEF Crash
<1>2. CASE status[r] \in ActiveStatus
  BY <1>1, <1>2 DEF Crash, RestartStatus, EndsAgree, ActiveStatus
<1>3. CASE status[r] \notin ActiveStatus
  BY <1>1, <1>3 DEF Crash, RestartStatus, EndsAgree, InProgress
<1> QED
  BY <1>2, <1>3

LEMMA EndsPreserved == Exclusive /\ EndsAgree /\ [Next]_vars => EndsAgree'
<1>1. ASSUME EndsAgree, UNCHANGED vars  PROVE EndsAgree'
  BY <1>1 DEF vars, EndsAgree
<1> QED
  BY <1>1, EndsOfRun, EndsOfCall, EndsAfterCrash DEF Next, Event

\* The end of a run is final: neither a late mutation, nor a second cancellation,
\* nor a restart changes it.
THEOREM RunEndStays == Spec => RunEndIsFinal
<1>1. Init => EndsAgree
  BY DEF Init, EndsAgree, ActiveStatus, EndStatus
<1>2. Exclusive /\ EndsAgree /\ [Next]_vars =>
        \A r \in Runs : status[r] \in EndStatus => status'[r] \in {status[r], "gone"}
  <2> SUFFICES ASSUME Exclusive, EndsAgree, [Next]_vars, NEW r \in Runs, status[r] \in EndStatus
               PROVE  status'[r] \in {status[r], "gone"}
    OBVIOUS
  <2>1. step[r] \in {"done", "crashed"}
    BY DEF EndsAgree
  <2>2. CASE UNCHANGED vars
    BY <2>2 DEF vars
  <2>3. ASSUME NEW s \in Runs, Send(s) \/ RunStepOf(s) \/ RunWriteFails(s)
        PROVE  status'[r] = status[r]
    BY <2>1, <2>3 DEF RunStepOf, Send, Admit, Refuse, Start, Launch, CloseProcess, Decide,
                      Unregister, Finish, RunWriteFails, database, Exclusive, TypeOK
  <2>4. ASSUME NEW c \in Callers,
               Request(c) \/ CallStepOf(c) \/ CallWriteFails(c) \/ Resume(c)
        PROVE  status'[r] \in {status[r], "gone"}
    <3>1. CASE Delete(c)
      BY <3>1 DEF Delete
    <3>2. Delete(c) \/ UNCHANGED status
      BY <2>4 DEF Request, Resume, CallStepOf, NoteCancel, CancelAgent, StartAgent, Settled,
                  Awaited, AwaitedLost, Noted, Reported, Failed, SetStatus, Archive,
                  CallWriteFails, database
    <3> QED
      BY <3>1, <3>2
  <2>5. CASE Crash
    BY <2>5 DEF Crash, RestartStatus, ActiveStatus, EndStatus
  <2> QED
    BY <2>2, <2>3, <2>4, <2>5 DEF Next, Event
<1> QED
  BY <1>1, <1>2, EndsPreserved, ExclusiveInitially, ExclusivePreserved, PTL
  DEF Spec, RunEndIsFinal

\* The witness of BusyAgentIsReleased outlives every step of a run that leaves
\* the agent busy and every mutation that is written.
LEMMA ReleasedAfterRun ==
  ASSUME Exclusive, BusyAgentIsReleased, NEW r \in Runs,
         Send(r) \/ RunStepOf(r) \/ RunWriteFails(r)
  PROVE  BusyAgentIsReleased'
<1> USE DEF Exclusive, TypeOK
<1>1. CASE Admit(r)
  <2>1. status'[r] = "queued" /\ step'[r] = "starting"
    BY <1>1 DEF Admit
  <2> QED
    BY <2>1 DEF BusyAgentIsReleased, ActiveRuns, ActiveStatus, InProgress
<1>2. CASE Finish(r)
  <2>1. agent' # "busy"
    BY <1>2 DEF Finish, AgentAfter
  <2> QED
    BY <2>1 DEF BusyAgentIsReleased
<1>3. CASE RunWriteFails(r)
  <2>1. trouble'.faults # 0
    BY <1>3 DEF RunWriteFails, WriteFails
  <2> QED
    BY <2>1 DEF BusyAgentIsReleased
<1>4. ASSUME agent' = agent, trouble' = trouble,
             \A s \in Runs : s # r => status'[s] = status[s] /\ step'[s] = step[s],
             status[r] \in ActiveStatus /\ step[r] \in InProgress =>
               status'[r] \in ActiveStatus /\ step'[r] \in InProgress
      PROVE  BusyAgentIsReleased'
  BY <1>4 DEF BusyAgentIsReleased, ActiveRuns
<1>5. CASE Send(r)
  BY <1>4, <1>5 DEF Send, InProgress, database
<1>6. CASE Refuse(r)
  BY <1>4, <1>6 DEF Refuse, InProgress, database
<1>7. CASE Start(r)
  <2>1. step'[r] \in InProgress /\ \A s \in Runs : s # r => step'[s] = step[s]
    BY <1>7 DEF Start, Ends, Enters, Spawns, InProgress
  <2>2. /\ \A s \in Runs : s # r => status'[s] = status[s]
        /\ status[r] \in ActiveStatus => status'[r] \in ActiveStatus
    BY <1>7 DEF Start, ActiveStatus
  <2> QED
    BY <1>4, <1>7, <2>1, <2>2 DEF Start
<1>8. CASE Launch(r)
  <2>1. step'[r] \in InProgress /\ \A s \in Runs : s # r => step'[s] = step[s]
    BY <1>8 DEF Launch, Spawns, Ends, InProgress
  <2> QED
    BY <1>4, <1>8, <2>1 DEF Launch, database
<1>9. CASE CloseProcess(r)
  <2>1. step'[r] \in InProgress /\ \A s \in Runs : s # r => step'[s] = step[s]
    BY <1>9 DEF CloseProcess, Ends, InProgress
  <2> QED
    BY <1>4, <1>9, <2>1 DEF CloseProcess, database
<1>10. CASE Decide(r)
  BY <1>4, <1>10 DEF Decide, InProgress, database
<1>11. CASE Unregister(r)
  BY <1>4, <1>11 DEF Unregister, Ends, InProgress, database
<1> QED
  BY <1>1, <1>2, <1>3, <1>5, <1>6, <1>7, <1>8, <1>9, <1>10, <1>11 DEF RunStepOf

LEMMA ReleasedAfterCall ==
  ASSUME TypeOK, BusyAgentIsReleased, NEW c \in Callers,
         Request(c) \/ CallStepOf(c) \/ CallWriteFails(c) \/ Resume(c)
  PROVE  BusyAgentIsReleased'
<1>1. CASE agent' = "busy" /\ UNCHANGED <<agent, status, step>> /\ trouble' = trouble
  BY <1>1 DEF BusyAgentIsReleased, ActiveRuns
<1>2. CASE agent' # "busy"
  BY <1>2 DEF BusyAgentIsReleased
<1>3. CASE SetStatus(c)
  BY <1>1, <1>2, <1>3 DEF SetStatus
<1>4. CASE Delete(c)
  BY <1>2, <1>4 DEF Delete
<1>5. CASE CallWriteFails(c)
  <2>1. trouble'.faults # 0
    BY <1>5 DEF CallWriteFails, WriteFails, TypeOK
  <2> QED
    BY <2>1 DEF BusyAgentIsReleased
<1>6. SetStatus(c) \/ Delete(c) \/ CallWriteFails(c)
        \/ (UNCHANGED <<agent, status, step>> /\ trouble' = trouble)
  BY DEF Request, Resume, CallStepOf, NoteCancel, CancelAgent, StartAgent, Settled, Awaited,
         AwaitedLost, Noted, Reported, Failed, Archive, database
<1> QED
  BY <1>1, <1>2, <1>3, <1>4, <1>5, <1>6

\* While every mutation is written, a busy agent has a run in progress that will
\* release it, whatever requests and crashes there were.
THEOREM BusyIsReleased == Spec => []BusyAgentIsReleased
<1>1. Init => BusyAgentIsReleased
  BY DEF Init, BusyAgentIsReleased
<1>2. Exclusive /\ BusyAgentIsReleased /\ [Next]_vars => BusyAgentIsReleased'
  <2> SUFFICES ASSUME Exclusive, BusyAgentIsReleased, [Next]_vars  PROVE BusyAgentIsReleased'
    OBVIOUS
  <2>1. CASE UNCHANGED vars
    BY <2>1 DEF vars, BusyAgentIsReleased, ActiveRuns
  <2>2. CASE Crash
    BY <2>2 DEF Crash, RestartAgent, BusyAgentIsReleased
  <2> QED
    BY <2>1, <2>2, ReleasedAfterRun, ReleasedAfterCall DEF Next, Event, Exclusive
<1> QED
  BY <1>1, <1>2, ExclusiveInitially, ExclusivePreserved, PTL DEF Spec
-----------------------------------------------------------------------------
(* What a cancellation waits for                                             *)

Over == {"done", "lost", "crashed"}

\* The steps at which a run or a caller has a mutation in the queue.
Queues(x) ==
  \/ x \in Runs /\ step[x] \in {"admitting", "starting", "finishing"}
  \/ x \in Callers /\ caller[x].step \in {"noting", "reporting", "failing", "setting", "deleting"}

In(x, q)    == \E i \in 1..Len(q) : q[i] = x
Distinct(q) == \A i, j \in 1..Len(q) : q[i] = q[j] => i = j

\* Who is in the queue waits for it, once.
QueueInv ==
  /\ \A x \in Runs \cup Callers : In(x, queue) => Queues(x)
  /\ Distinct(queue)

\* A call is about a run that was begun, a cancellation always, and a deletion never; the table of
\* executions names one in progress; the container runner spawns without delay.
BegunInv ==
  /\ \A c \in Callers :
       /\ caller[c].run # NoRun => step[caller[c].run] \in InProgress \cup Over
       /\ caller[c].op = "delete" \/ caller[c].step \in {"archiving", "deleting"}
            => caller[c].run = NoRun
       /\ caller[c].op = "cancel" => caller[c].run # NoRun
  /\ activeExecution # NoRun => step[activeExecution] \in InProgress
  /\ provider = "container" => \A r \in Runs : step[r] # "launching"

\* The tables of executions and processes know the run in progress.
TablesInv ==
  /\ \A r \in Runs : step[r] \in InProgress => activeExecution = r
  /\ \A r \in Runs : process[r] = "alive" => active = r
  /\ active # NoRun => step[active] \in {"running", "closed", "draining"}

\* A call that waits for the process of another run than its own does so after
\* its own is over.
SettlingInv ==
  \A c \in Callers : caller[c].step = "settling" =>
    /\ caller[c].awaited # NoRun
    /\ caller[c].run \in {NoRun, caller[c].awaited} \/ step[caller[c].run] \in Over

\* As long as the execution a call awaits is in progress, the request stands; when
\* it has ended, the call goes on before another begins.
AwaitingInv ==
  \A c \in Callers : caller[c].step = "awaiting" =>
    /\ caller[c].awaited # NoRun
    /\ step[caller[c].awaited] \in InProgress \cup {"done", "lost"}
    /\ step[caller[c].awaited] \in InProgress => requested
    /\ step[caller[c].awaited] \in {"done", "lost"} => \A r \in Runs : step[r] \notin InProgress

\* When its call goes on, the run is over.
ReportedInv ==
  \A c \in Callers :
    caller[c].run # NoRun /\ caller[c].step \in {"reporting", "setting", "returned"} =>
      step[caller[c].run] \in Over

WaitInv ==
  /\ BegunInv
  /\ ~overtaken => TablesInv /\ SettlingInv /\ AwaitingInv /\ ReportedInv
  /\ ContainerKillReachesProcess

\* How cancelExecution goes on.
WaitsFor(c, how, r, q) ==
  /\ caller'[c].step = how /\ caller'[c].awaited = r
  /\ requested' = TRUE /\ queue' = q
Proceeds(c, call, q) ==
  /\ caller'[c].step = NextStep(call)
  /\ requested' = FALSE
  /\ queue' = IF NextStep(call) \in {"reporting", "setting"} THEN Append(q, c) ELSE q
SameCall(c, call) ==
  /\ caller'[c].op = call.op /\ caller'[c].run = call.run
  /\ \A d \in Callers : d # c => caller'[d] = caller[d]

LEMMA EndedIs ==
  ASSUME TypeOK, NEW c \in Callers, NEW call \in Call, NEW q, Ended(c, call, q)
  PROVE  SameCall(c, call) /\ Proceeds(c, call, q)
BY DEF TypeOK, Call, Ended, SameCall, Proceeds

LEMMA AwaitsIs ==
  ASSUME TypeOK, NEW c \in Callers, NEW call \in Call, NEW q, AwaitsExecution(c, call, q)
  PROVE  /\ SameCall(c, call)
         /\ \/ activeExecution # NoRun /\ WaitsFor(c, "awaiting", activeExecution, q)
            \/ activeExecution = NoRun /\ Proceeds(c, call, q)
<1>1. CASE activeExecution = NoRun
  BY <1>1, EndedIs DEF AwaitsExecution
<1>2. CASE activeExecution # NoRun
  <2>1. PICK rec \in Call : /\ rec = [call EXCEPT !.step = "awaiting", !.awaited = activeExecution]
                            /\ caller' = [caller EXCEPT ![c] = rec]
    BY <1>2 DEF TypeOK, Call, CallStep, AwaitsExecution
  <2>2. /\ rec.step = "awaiting" /\ rec.awaited = activeExecution
        /\ rec.op = call.op /\ rec.run = call.run
    BY <2>1 DEF Call
  <2>3. caller'[c] = rec /\ \A d \in Callers : d # c => caller'[d] = caller[d]
    BY <2>1 DEF TypeOK
  <2> QED
    BY <1>2, <2>2, <2>3 DEF AwaitsExecution, SameCall, WaitsFor
<1> QED
  BY <1>1, <1>2

LEMMA CancelIs ==
  ASSUME TypeOK, NEW c \in Callers, NEW call \in Call, NEW q, CancelExecution(c, call, q)
  PROVE  /\ SameCall(c, call) /\ cancelled \subseteq cancelled'
         /\ \/ active # NoRun /\ WaitsFor(c, "settling", active, q)
            \/ active = NoRun /\ activeExecution # NoRun
                 /\ WaitsFor(c, "awaiting", activeExecution, q)
            \/ active = NoRun /\ activeExecution = NoRun /\ Proceeds(c, call, q)
<1>1. CASE active = NoRun
  BY <1>1, AwaitsIs DEF CancelExecution
<1>2. CASE active # NoRun
  <2>1. PICK rec \in Call : /\ rec = [call EXCEPT !.step = "settling", !.awaited = active]
                            /\ caller' = [caller EXCEPT ![c] = rec]
    BY <1>2 DEF TypeOK, Call, CallStep, CancelExecution
  <2>2. /\ rec.step = "settling" /\ rec.awaited = active
        /\ rec.op = call.op /\ rec.run = call.run
    BY <2>1 DEF Call
  <2>3. caller'[c] = rec /\ \A d \in Callers : d # c => caller'[d] = caller[d]
    BY <2>1 DEF TypeOK
  <2> QED
    BY <1>2, <2>2, <2>3 DEF CancelExecution, SameCall, WaitsFor
<1> QED
  BY <1>1, <1>2

\* Who was served is in the queue no more, ...
LEMMA Served ==
  ASSUME NEW q \in Seq(Runs \cup Callers), q # << >>, Distinct(q)
  PROVE  /\ Tail(q) \in Seq(Runs \cup Callers) /\ Distinct(Tail(q))
         /\ \A x : In(x, Tail(q)) => In(x, q) /\ x # Head(q)
<1>1. /\ Tail(q) \in Seq(Runs \cup Callers) /\ Len(q) \in Nat /\ Len(q) >= 1
      /\ Len(Tail(q)) = Len(q) - 1
      /\ \A i \in 1..Len(Tail(q)) : Tail(q)[i] = q[i + 1]
      /\ Head(q) = q[1]
  OBVIOUS
<1>2. Distinct(Tail(q))
  <2> SUFFICES ASSUME NEW i \in 1..Len(Tail(q)), NEW j \in 1..Len(Tail(q)), Tail(q)[i] = Tail(q)[j]
               PROVE  i = j
    BY DEF Distinct
  <2>1. i + 1 \in 1..Len(q) /\ j + 1 \in 1..Len(q) /\ q[i + 1] = q[j + 1]
    BY <1>1
  <2>2. i + 1 = j + 1
    BY <2>1 DEF Distinct
  <2> QED BY <2>2
<1>3. ASSUME NEW x, In(x, Tail(q))
      PROVE  In(x, q) /\ x # Head(q)
  <2>1. PICK i \in 1..Len(Tail(q)) : Tail(q)[i] = x
    BY <1>3 DEF In
  <2>2. i + 1 \in 1..Len(q) /\ 1 \in 1..Len(q) /\ i + 1 # 1 /\ q[i + 1] = x
    BY <1>1, <2>1
  <2>3. x # q[1]
    BY <2>2 DEF Distinct
  <2> QED BY <1>1, <2>2, <2>3 DEF In
<1> QED BY <1>1, <1>2, <1>3

\* ... and who joins it was not.
LEMMA Joined ==
  ASSUME NEW q \in Seq(Runs \cup Callers), Distinct(q), NEW who \in Runs \cup Callers, ~In(who, q)
  PROVE  /\ Distinct(Append(q, who))
         /\ \A x : In(x, Append(q, who)) => In(x, q) \/ x = who
<1>1. /\ Len(q) \in Nat /\ Len(Append(q, who)) = Len(q) + 1
      /\ \A i \in 1..Len(q) : Append(q, who)[i] = q[i]
      /\ Append(q, who)[Len(q) + 1] = who
  OBVIOUS
<1>2. ASSUME NEW i \in 1..(Len(q) + 1), i \notin 1..Len(q)  PROVE i = Len(q) + 1
  BY <1>1, <1>2
<1>3. Distinct(Append(q, who))
  BY <1>1, <1>2 DEF Distinct, In
<1>4. \A x : In(x, Append(q, who)) => In(x, q) \/ x = who
  BY <1>1, <1>2 DEF In
<1> QED BY <1>3, <1>4

\* Whoever queues, or is served, keeps the queue in order if nobody else's place
\* is disturbed.
LEMMA QueueFrame ==
  ASSUME TypeOK, QueueInv, NEW who \in Runs \cup Callers,
         \A x \in Runs \cup Callers : x # who /\ Queues(x) => Queues(x)',
         \/ queue' = queue /\ (Queues(who) => Queues(who)')
         \/ queue' = Append(queue, who) /\ ~Queues(who) /\ Queues(who)'
         \/ Applies(who) /\ queue' = Tail(queue)
         \/ Applies(who) /\ queue' = Append(Tail(queue), who) /\ Queues(who)'
  PROVE  QueueInv'
<1>1. queue \in Seq(Runs \cup Callers) /\ Distinct(queue)
  BY DEF TypeOK, QueueInv
<1>2. CASE queue' = queue /\ (Queues(who) => Queues(who)')
  BY <1>2 DEF QueueInv, In, Distinct
<1>3. CASE queue' = Append(queue, who) /\ ~Queues(who) /\ Queues(who)'
  <2>1. ~In(who, queue)
    BY <1>3 DEF QueueInv
  <2>2. Distinct(queue') /\ \A x : In(x, queue') => In(x, queue) \/ x = who
    BY <1>1, <1>3, <2>1, Joined
  <2> QED BY <1>3, <2>2 DEF QueueInv, In, Distinct
<1>4. CASE Applies(who)
  <2>1. queue # << >> /\ Head(queue) = who
    BY <1>4 DEF Applies
  <2> DEFINE rest == Tail(queue)
  <2>2. /\ rest \in Seq(Runs \cup Callers) /\ Distinct(rest)
        /\ \A x : In(x, rest) => In(x, queue) /\ x # who
    BY <1>1, <2>1, Served
  <2> HIDE DEF rest
  <2>3. CASE queue' = rest
    BY <2>2, <2>3 DEF QueueInv, In, Distinct
  <2>4. CASE queue' = Append(rest, who) /\ Queues(who)'
    <3>1. Distinct(queue') /\ \A x : In(x, queue') => In(x, rest) \/ x = who
      BY <2>2, <2>4, Joined
    <3> QED BY <2>2, <2>4, <3>1 DEF QueueInv, In, Distinct
  <2> QED BY <1>2, <1>3, <2>3, <2>4 DEF rest
<1> QED BY <1>2, <1>3, <1>4

\* What a step of a run leaves alone, and how it moves the run.
LEMMA RunMoves ==
  ASSUME Exclusive, NEW r \in Runs, Send(r) \/ RunStepOf(r) \/ RunWriteFails(r)
  PROVE  /\ UNCHANGED <<caller, requested, provider, cancelled, overtaken>>
         /\ \A s \in Runs : s # r => step'[s] = step[s] /\ process'[s] = process[s]
         /\ step[r] \notin Over
         /\ step'[r] \in InProgress => step[r] \in InProgress \/ Admit(r)
         /\ step[r] \in InProgress => step'[r] \in InProgress \cup {"done", "lost"}
         /\ step'[r] = "launching" => provider = "local"
<1> USE DEF Exclusive, TypeOK, Over, InProgress
<1>1. CASE Send(r)
  BY <1>1 DEF Send, runner
<1>2. CASE Admit(r)
  BY <1>2 DEF Admit, runner
<1>3. CASE Refuse(r)
  BY <1>3 DEF Refuse, runner
<1>4. CASE Start(r)
  BY <1>4 DEF Start, Ends, Enters, Spawns, runner
<1>5. CASE Launch(r)
  BY <1>5 DEF Launch, Ends, Spawns, runner
<1>6. CASE CloseProcess(r)
  BY <1>6 DEF CloseProcess, Ends, Grounded
<1>7. CASE Decide(r)
  BY <1>7 DEF Decide, runner
<1>8. CASE Unregister(r)
  BY <1>8 DEF Unregister, Ends
<1>9. CASE Finish(r)
  BY <1>9 DEF Finish, runner
<1>10. CASE RunWriteFails(r)
  BY <1>10 DEF RunWriteFails, Ends, runner
<1> QED
  BY <1>1, <1>2, <1>3, <1>4, <1>5, <1>6, <1>7, <1>8, <1>9, <1>10 DEF RunStepOf

\* How a call begins.
LEMMA NoteIs ==
  ASSUME TypeOK, NEW c \in Callers, NEW op, NEW r \in Runs, NoteCancel(c, op, r)
  PROVE  /\ caller[c].step = "idle" /\ queue' = Append(queue, c)
         /\ caller'[c].step = "noting" /\ caller'[c].op = op /\ caller'[c].run = r
         /\ \A d \in Callers : d # c => caller'[d] = caller[d]
         /\ r \in ActiveRuns
         /\ UNCHANGED <<step, process, activeExecution, active, provider, cancelled, overtaken, requested>>
<1>1. PICK rec : rec = [NoCall EXCEPT !.op = op, !.step = "noting", !.run = r]
                 /\ caller' = [caller EXCEPT ![c] = rec]
  BY DEF NoteCancel
<1>2. rec.step = "noting" /\ rec.op = op /\ rec.run = r
  BY <1>1 DEF NoCall
<1>3. caller'[c] = rec /\ \A d \in Callers : d # c => caller'[d] = caller[d]
  BY <1>1 DEF TypeOK
<1> QED BY <1>2, <1>3 DEF NoteCancel, Begins, NoCall, runner

LEMMA StartIs ==
  ASSUME TypeOK, NEW c \in Callers, StartAgent(c)
  PROVE  /\ caller[c].step = "idle" /\ queue' = Append(queue, c)
         /\ caller'[c].step = "setting" /\ caller'[c].op = "start" /\ caller'[c].run = NoRun
         /\ \A d \in Callers : d # c => caller'[d] = caller[d]
         /\ UNCHANGED <<step, process, activeExecution, active, provider, cancelled, overtaken, requested>>
<1>1. PICK rec : rec = [NoCall EXCEPT !.op = "start", !.step = "setting"]
                 /\ caller' = [caller EXCEPT ![c] = rec]
  BY DEF StartAgent
<1>2. rec.step = "setting" /\ rec.op = "start" /\ rec.run = NoRun
  BY <1>1 DEF NoCall
<1>3. caller'[c] = rec /\ \A d \in Callers : d # c => caller'[d] = caller[d]
  BY <1>1 DEF TypeOK
<1> QED BY <1>2, <1>3 DEF StartAgent, Begins, NoCall, runner

LEMMA CancelAgentIs ==
  ASSUME TypeOK, NEW c \in Callers, NEW op, CancelAgent(c, op)
  PROVE  /\ caller[c].step = "idle"
         /\ \E call \in Call : call.op = op /\ call.run = NoRun /\ CancelExecution(c, call, queue)
         /\ UNCHANGED <<step, process, activeExecution, active, provider, overtaken>>
<1>1. /\ [NoCall EXCEPT !.op = op] \in Call
      /\ [NoCall EXCEPT !.op = op].op = op /\ [NoCall EXCEPT !.op = op].run = NoRun
  BY DEF CancelAgent, Begins, NoCall, Call, CallStep
<1>2. caller[c].step = "idle"
  BY DEF CancelAgent, Begins, NoCall
<1> QED BY <1>1, <1>2 DEF CancelAgent

\* What a step of a call leaves alone.
LEMMA CallMoves ==
  ASSUME TypeOK, NEW c \in Callers,
         Request(c) \/ CallStepOf(c) \/ CallWriteFails(c) \/ Resume(c)
  PROVE  /\ UNCHANGED <<step, process, activeExecution, active, provider>>
         /\ \A d \in Callers : d # c => caller'[d] = caller[d]
         /\ cancelled \subseteq cancelled'
         /\ overtaken => overtaken'
<1>1. ASSUME NEW rec, caller' = [caller EXCEPT ![c] = rec]
      PROVE  \A d \in Callers : d # c => caller'[d] = caller[d]
  BY <1>1 DEF TypeOK
<1>2. CASE Noted(c)
  <2>1. caller[c] \in Call
    BY DEF TypeOK
  <2> QED BY <1>2, <2>1, CancelIs DEF Noted, SameCall
<1>3. ASSUME NEW op, CancelAgent(c, op)
      PROVE  /\ \A d \in Callers : d # c => caller'[d] = caller[d]
             /\ cancelled \subseteq cancelled'
  BY <1>3, CancelAgentIs, CancelIs DEF SameCall
<1>4. CASE Settled(c) \/ Awaited(c)
  <2>1. caller[c] \in Call
    BY DEF TypeOK
  <2> QED BY <1>4, <2>1, AwaitsIs, EndedIs DEF Settled, Awaited, SameCall, runner
<1>5. CASE Request(c)
  BY <1>3, <1>5, NoteIs, StartIs, CancelAgentIs DEF Request
<1>6. CASE AwaitedLost(c) \/ Reported(c) \/ Failed(c) \/ SetStatus(c) \/ Archive(c) \/ Delete(c)
             \/ CallWriteFails(c)
  BY <1>1, <1>6 DEF AwaitedLost, Reported, Failed, SetStatus, Archive, Delete, CallWriteFails,
       TypeOK, runner
<1> QED
  BY <1>2, <1>4, <1>5, <1>6 DEF CallStepOf, Resume

LEMMA QueueOfRun ==
  ASSUME Exclusive, QueueInv, NEW r \in Runs, Send(r) \/ RunStepOf(r) \/ RunWriteFails(r)
  PROVE  QueueInv'
<1>1. TypeOK
  BY DEF Exclusive
<1>2. \A x \in Runs \cup Callers : x # r /\ Queues(x) => Queues(x)'
  BY RunMoves DEF Queues
<1>3. /\ Queues(r) <=> step[r] \in {"admitting", "starting", "finishing"}
      /\ Queues(r)' <=> step'[r] \in {"admitting", "starting", "finishing"}
  BY AgentAssumption DEF Queues
<1>4. ASSUME NEW q, NEW how, Ends(r, how, q)
      PROVE  Queues(r)' /\ queue' = Append(q, r)
  BY <1>1, <1>3, <1>4 DEF Ends, TypeOK
<1>5. CASE Send(r)
  <2>1. ~Queues(r) /\ Queues(r)' /\ queue' = Append(queue, r)
    BY <1>1, <1>3, <1>5 DEF Send, TypeOK
  <2> QED BY <1>1, <1>2, <2>1, QueueFrame
<1>6. CASE Admit(r)
  <2>1. Applies(r) /\ Queues(r)' /\ queue' = Append(Tail(queue), r)
    BY <1>1, <1>3, <1>6 DEF Admit, TypeOK
  <2> QED BY <1>1, <1>2, <2>1, QueueFrame
<1>7. CASE Refuse(r) \/ Finish(r)
  <2>1. Applies(r) /\ queue' = Tail(queue)
    BY <1>7 DEF Refuse, Finish
  <2> QED BY <1>1, <1>2, <2>1, QueueFrame
<1>8. CASE Start(r)
  <2>1. Applies(r) /\ (queue' = Tail(queue) \/ (queue' = Append(Tail(queue), r) /\ Queues(r)'))
    BY <1>4, <1>8 DEF Start
  <2> QED BY <1>1, <1>2, <2>1, QueueFrame
<1>9. CASE Launch(r)
  <2>1. ~Queues(r) /\ (queue' = queue \/ (queue' = Append(queue, r) /\ Queues(r)'))
    BY <1>3, <1>4, <1>9 DEF Launch
  <2> QED BY <1>1, <1>2, <2>1, QueueFrame
<1>10. CASE CloseProcess(r)
  <2>1. step[r] = "running"
    BY <1>10 DEF CloseProcess, Exclusive, Grounded
  <2>2. ~Queues(r) /\ (queue' = queue \/ (queue' = Append(queue, r) /\ Queues(r)'))
    BY <1>3, <1>4, <1>10, <2>1 DEF CloseProcess
  <2> QED BY <1>1, <1>2, <2>2, QueueFrame
<1>11. CASE Decide(r)
  <2>1. ~Queues(r) /\ queue' = queue
    BY <1>3, <1>11 DEF Decide
  <2> QED BY <1>1, <1>2, <2>1, QueueFrame
<1>12. CASE Unregister(r)
  <2>1. ~Queues(r) /\ (queue' = Append(queue, r) /\ Queues(r)')
    BY <1>3, <1>4, <1>12 DEF Unregister
  <2> QED BY <1>1, <1>2, <2>1, QueueFrame
<1>13. CASE RunWriteFails(r)
  <2>1. Applies(r) /\ (queue' = Tail(queue) \/ (queue' = Append(Tail(queue), r) /\ Queues(r)'))
    BY <1>4, <1>13 DEF RunWriteFails, WriteFails
  <2> QED BY <1>1, <1>2, <2>1, QueueFrame
<1> QED
  BY <1>5, <1>6, <1>7, <1>8, <1>9, <1>10, <1>11, <1>12, <1>13 DEF RunStepOf

LEMMA QueueOfCall ==
  ASSUME TypeOK, QueueInv, NEW c \in Callers,
         Request(c) \/ CallStepOf(c) \/ CallWriteFails(c) \/ Resume(c)
  PROVE  QueueInv'
<1>2. \A x \in Runs \cup Callers : x # c /\ Queues(x) => Queues(x)'
  BY CallMoves DEF Queues
<1> DEFINE Queued == {"noting", "reporting", "failing", "setting", "deleting"}
<1>3. /\ Queues(c) <=> caller[c].step \in Queued
      /\ Queues(c)' <=> caller'[c].step \in Queued
  BY AgentAssumption DEF Queues
<1>4. ASSUME NEW q, NEW call \in Call, Proceeds(c, call, q)
      PROVE  queue' = q \/ (queue' = Append(q, c) /\ Queues(c)')
  BY <1>3, <1>4 DEF Proceeds
<1>5. ASSUME NEW q, NEW call \in Call, CancelExecution(c, call, q)
      PROVE  queue' = q \/ (queue' = Append(q, c) /\ Queues(c)')
  BY <1>4, <1>5, CancelIs DEF WaitsFor
<1>6. ASSUME NEW q, NEW call \in Call, AwaitsExecution(c, call, q)
      PROVE  queue' = q \/ (queue' = Append(q, c) /\ Queues(c)')
  BY <1>4, <1>6, AwaitsIs DEF WaitsFor
<1>7. caller[c] \in Call
  BY DEF TypeOK
<1>8. ASSUME NEW s \in CallStep, caller' = [caller EXCEPT ![c].step = s]
      PROVE  caller'[c].step = s
  BY <1>7, <1>8 DEF TypeOK, Call
<1>9. ASSUME ~Queues(c), queue' = queue \/ (queue' = Append(queue, c) /\ Queues(c)')
      PROVE  QueueInv'
  BY <1>2, <1>9, QueueFrame
<1>10. ASSUME Applies(c), queue' = Tail(queue) \/ (queue' = Append(Tail(queue), c) /\ Queues(c)')
       PROVE  QueueInv'
  BY <1>2, <1>10, QueueFrame
<1>11. CASE Request(c)
  <2>1. ASSUME NEW op, NEW r \in Runs, NoteCancel(c, op, r)  PROVE QueueInv'
    BY <1>3, <1>9, <2>1, NoteIs
  <2>2. ASSUME NEW op, CancelAgent(c, op)  PROVE QueueInv'
    BY <1>3, <1>5, <1>9, <2>2, CancelAgentIs
  <2>3. CASE StartAgent(c)
    BY <1>3, <1>9, <2>3, StartIs
  <2> QED BY <1>11, <2>1, <2>2, <2>3 DEF Request
<1>12. CASE Noted(c)
  BY <1>5, <1>7, <1>10, <1>12 DEF Noted
<1>13. CASE Settled(c)
  BY <1>3, <1>6, <1>7, <1>9, <1>13 DEF Settled
<1>14. CASE Awaited(c)
  <2>1. Proceeds(c, caller[c], queue)
    BY <1>7, <1>14, EndedIs DEF Awaited
  <2> QED BY <1>3, <1>4, <1>7, <1>9, <1>14, <2>1 DEF Awaited
<1>15. CASE AwaitedLost(c)
  BY <1>3, <1>8, <1>9, <1>15 DEF AwaitedLost, CallStep
<1>16. CASE Reported(c)
  BY <1>3, <1>8, <1>10, <1>16 DEF Reported, CallStep
<1>17. CASE Failed(c) \/ SetStatus(c) \/ Delete(c) \/ CallWriteFails(c)
  BY <1>10, <1>17 DEF Failed, SetStatus, Delete, CallWriteFails, WriteFails
<1>18. CASE Archive(c)
  BY <1>3, <1>8, <1>9, <1>18 DEF Archive, CallStep
<1> QED
  BY <1>11, <1>12, <1>13, <1>14, <1>15, <1>16, <1>17, <1>18 DEF CallStepOf, Resume

LEMMA QueuePreserved == Exclusive /\ QueueInv /\ [Next]_vars => QueueInv'
<1> SUFFICES ASSUME Exclusive, QueueInv, [Next]_vars  PROVE QueueInv'
  OBVIOUS
<1>1. CASE UNCHANGED vars
  BY <1>1 DEF vars, QueueInv, Queues, In, Distinct
<1>2. CASE Crash
  <2>1. queue' = << >>
    BY <1>2 DEF Crash
  <2> QED BY <2>1 DEF QueueInv, In, Distinct
<1> QED
  BY <1>1, <1>2, QueueOfRun, QueueOfCall DEF Next, Event, Exclusive

\* A request to cancel is always somebody's: it stands as long as a call waits for
\* an end, and is withdrawn with the last of them.
THEOREM RequestsAreWithdrawn == Spec => []NoStaleRequest
<1>1. Init => QueueInv /\ NoStaleRequest
  BY DEF Init, QueueInv, In, Distinct, NoStaleRequest
<1>2. Exclusive /\ QueueInv /\ NoStaleRequest /\ [Next]_vars => NoStaleRequest'
  <2> SUFFICES ASSUME Exclusive, QueueInv, NoStaleRequest, [Next]_vars, requested'
               PROVE  \E c \in Callers : caller'[c].step \in {"settling", "awaiting"}
    BY DEF NoStaleRequest
  <2>1. CASE UNCHANGED <<caller, requested>>
    BY <2>1 DEF NoStaleRequest
  <2>2. ASSUME NEW c \in Callers,
               Request(c) \/ CallStepOf(c) \/ CallWriteFails(c) \/ Resume(c)
        PROVE  \E d \in Callers : caller'[d].step \in {"settling", "awaiting"}
    <3>1. CASE requested /\ caller[c].step \notin {"settling", "awaiting"}
      <4>1. PICK d \in Callers : caller[d].step \in {"settling", "awaiting"}
        BY <3>1 DEF NoStaleRequest
      <4>2. caller'[d] = caller[d]
        BY <2>2, <3>1, <4>1, CallMoves DEF Exclusive
      <4> QED BY <4>1, <4>2
    <3>2. ASSUME NEW call \in Call, NEW q, CancelExecution(c, call, q)
          PROVE  caller'[c].step \in {"settling", "awaiting"}
      BY <3>2, CancelIs DEF WaitsFor, Proceeds, Exclusive
    <3>3. caller[c] \in Call
      BY DEF Exclusive, TypeOK
    <3>4. CASE CallWriteFails(c)
      <4>1. Head(queue) = c /\ queue \in Seq(Runs \cup Callers) /\ queue # << >>
        BY <3>4 DEF CallWriteFails, WriteFails, Applies, Exclusive, TypeOK
      <4>2. In(c, queue)
        BY <4>1 DEF In
      <4>3. Queues(c)
        BY <4>2 DEF QueueInv
      <4>4. caller[c].step \notin {"settling", "awaiting"} /\ requested
        BY <3>4, <4>3, AgentAssumption DEF Queues, CallWriteFails
      <4> QED BY <3>1, <4>4
    <3>5. CASE Settled(c)
      <4>1. \/ WaitsFor(c, "awaiting", activeExecution, queue)
            \/ Proceeds(c, caller[c], queue)
        BY <3>3, <3>5, AwaitsIs DEF Settled, Exclusive
      <4> QED BY <4>1 DEF WaitsFor, Proceeds
    <3>6. CASE Awaited(c) \/ AwaitedLost(c)
      BY <3>6 DEF Awaited, AwaitedLost, Ended
    <3>7. CASE Noted(c)
      BY <3>2, <3>3, <3>7 DEF Noted
    <3>8. CASE Request(c)
      <4>1. ASSUME NEW op, NEW r \in Runs, NoteCancel(c, op, r)
            PROVE  requested /\ caller[c].step = "idle"
        BY <4>1, NoteIs DEF Exclusive
      <4>2. ASSUME NEW op, CancelAgent(c, op)
            PROVE  caller'[c].step \in {"settling", "awaiting"}
        BY <3>2, <4>2, CancelAgentIs DEF Exclusive
      <4>3. CASE StartAgent(c)
        BY <3>1, <4>3, StartIs DEF Exclusive
      <4> QED BY <3>1, <3>8, <4>1, <4>2, <4>3 DEF Request
    <3>9. CASE Reported(c) \/ Failed(c) \/ SetStatus(c) \/ Archive(c) \/ Delete(c)
      BY <3>1, <3>9 DEF Reported, Failed, SetStatus, Archive, Delete
    <3> QED BY <2>2, <3>4, <3>5, <3>6, <3>7, <3>8, <3>9 DEF CallStepOf, Resume
  <2>3. ASSUME NEW r \in Runs, Send(r) \/ RunStepOf(r) \/ RunWriteFails(r)
        PROVE  UNCHANGED <<caller, requested>>
    BY <2>3, RunMoves
  <2>4. CASE Crash
    BY <2>4 DEF Crash
  <2>5. CASE UNCHANGED vars
    BY <2>1, <2>5 DEF vars
  <2> QED BY <2>1, <2>2, <2>3, <2>4, <2>5 DEF Next, Event
<1> QED
  BY <1>1, <1>2, QueuePreserved, ExclusiveInitially, ExclusivePreserved, PTL DEF Spec

\* A step of a run in progress is the step of the only one.
LEMMA OnlyOne ==
  ASSUME Exclusive, ~overtaken, NEW r \in Runs, step[r] \in InProgress, NEW s \in Runs, s # r
  PROVE  step[s] \notin InProgress
BY DEF Exclusive, HeldByOne, Holds

LEMMA BegunAfterRun ==
  ASSUME Exclusive, BegunInv, NEW r \in Runs, Send(r) \/ RunStepOf(r) \/ RunWriteFails(r)
  PROVE  BegunInv'
<1>1. ASSUME NEW c \in Callers, caller[c].run # NoRun
      PROVE  step'[caller[c].run] \in InProgress \cup Over
  <2>1. PICK s \in Runs : s = caller[c].run
    BY <1>1 DEF Exclusive, TypeOK, Call
  <2>2. step[s] \in InProgress \cup Over
    BY <1>1, <2>1 DEF BegunInv
  <2>3. step'[s] \in InProgress \cup Over
    BY <2>2, RunMoves DEF Over
  <2> QED BY <2>1, <2>3
<1>2. ASSUME activeExecution' # NoRun
      PROVE  step'[activeExecution'] \in InProgress
  <2> DEFINE x == activeExecution'
  <2>1. CASE Admit(r)
    BY <2>1 DEF Admit, InProgress, Exclusive, TypeOK
  <2>2. CASE Finish(r)
    <3>1. activeExecution # r /\ x = activeExecution
      BY <1>2, <2>2 DEF Finish
    <3>2. step'[x] = step[x]
      BY <1>2, <3>1, RunMoves DEF Exclusive, TypeOK
    <3> QED BY <1>2, <3>1, <3>2 DEF BegunInv
  <2>3. CASE RunWriteFails(r)
    <3>1. CASE UNCHANGED activeExecution /\ step[r] = "admitting"
      <4>1. activeExecution # r
        BY <1>2, <3>1 DEF BegunInv, InProgress
      <4>2. step'[x] = step[x]
        BY <1>2, <3>1, <4>1, RunMoves DEF Exclusive, TypeOK
      <4> QED BY <1>2, <3>1, <4>2 DEF BegunInv
    <3>2. CASE UNCHANGED activeExecution /\ step'[r] \in InProgress
      <4>1. x \in Runs /\ x = activeExecution
        BY <1>2, <3>2 DEF Exclusive, TypeOK
      <4>2. x # r => step'[x] = step[x]
        BY <4>1, RunMoves
      <4> QED BY <1>2, <3>2, <4>1, <4>2 DEF BegunInv
    <3>3. CASE activeExecution' = IF activeExecution = r THEN NoRun ELSE activeExecution
      <4>1. activeExecution # r /\ x = activeExecution
        BY <1>2, <3>3
      <4>2. step'[x] = step[x]
        BY <1>2, <4>1, RunMoves DEF Exclusive, TypeOK
      <4> QED BY <1>2, <4>1, <4>2 DEF BegunInv
    <3> QED BY <2>3, <3>1, <3>2, <3>3 DEF RunWriteFails, Ends, InProgress, Exclusive, TypeOK
  <2>4. CASE UNCHANGED activeExecution /\ (step[r] \in InProgress => step'[r] \in InProgress)
    <3>1. x \in Runs /\ x = activeExecution
      BY <1>2, <2>4 DEF Exclusive, TypeOK
    <3>2. x # r => step'[x] = step[x]
      BY <3>1, RunMoves
    <3> QED BY <1>2, <2>4, <3>1, <3>2 DEF BegunInv
  <2>5. Send(r) \/ Refuse(r) \/ Launch(r) \/ CloseProcess(r) \/ Decide(r) \/ Unregister(r) \/ Start(r) =>
          UNCHANGED activeExecution /\ (step[r] \in InProgress => step'[r] \in InProgress)
    BY DEF Send, Refuse, Start, Launch, CloseProcess, Decide, Unregister, Ends, Enters, Spawns,
           InProgress, Exclusive, TypeOK
  <2> QED BY <2>1, <2>2, <2>3, <2>4, <2>5 DEF RunStepOf
<1>3. provider' = "container" => \A s \in Runs : step'[s] # "launching"
  <2>1. provider' = provider
    BY RunMoves
  <2>2. ASSUME provider = "container", NEW s \in Runs  PROVE step'[s] # "launching"
    <3>1. CASE s = r
      BY <2>2, <3>1, RunMoves
    <3>2. CASE s # r
      BY <2>2, <3>2, RunMoves DEF BegunInv
    <3> QED BY <3>1, <3>2
  <2> QED BY <2>1, <2>2
<1>4. caller' = caller
  BY RunMoves
<1> QED BY <1>1, <1>2, <1>3, <1>4 DEF BegunInv

LEMMA TablesAfterRun ==
  ASSUME Exclusive, ~overtaken, TablesInv, NEW r \in Runs, Send(r) \/ RunStepOf(r) \/ RunWriteFails(r)
  PROVE  TablesInv'
<1>1. ASSUME NEW s \in Runs, step'[s] \in InProgress
      PROVE  activeExecution' = s
  <2>1. CASE Admit(r)
    <3>1. s = r
      <4>1. step[s] \notin InProgress
        BY <2>1 DEF Admit, Admissible, Exclusive, HeldByOne, Holds
      <4> QED BY <1>1, <4>1, RunMoves
    <3> QED BY <2>1, <3>1 DEF Admit
  <2>2. CASE ~Admit(r)
    <3>1. step[s] \in InProgress
      BY <1>1, <2>2, RunMoves
    <3>2. activeExecution = s
      BY <3>1 DEF TablesInv
    <3>3. CASE UNCHANGED activeExecution
      BY <3>2, <3>3
    <3>4. CASE /\ activeExecution' = IF activeExecution = r THEN NoRun ELSE activeExecution
               /\ step'[r] \notin InProgress
      BY <1>1, <3>2, <3>4
    <3>5. \/ UNCHANGED activeExecution
          \/ /\ activeExecution' = IF activeExecution = r THEN NoRun ELSE activeExecution
             /\ step'[r] \notin InProgress
      BY <2>2 DEF RunStepOf, Send, Refuse, Start, Launch, CloseProcess, Decide, Unregister, Finish,
         RunWriteFails, InProgress, Exclusive, TypeOK
    <3> QED BY <3>3, <3>4, <3>5
  <2> QED BY <2>1, <2>2
<1>2. CASE Spawns(r) /\ step[r] \in InProgress
  <2>1. active' = r /\ step'[r] = "running"
    BY <1>2 DEF Spawns, Exclusive, TypeOK
  <2>2. ASSUME NEW s \in Runs, process'[s] = "alive"  PROVE s = r
    <3>1. s # r => step[s] = "running"
      BY <2>2, RunMoves DEF Exclusive, Grounded
    <3> QED BY <1>2, <3>1, OnlyOne DEF InProgress
  <2> QED BY <1>1, <2>1, <2>2 DEF TablesInv
<1>3. CASE UNCHANGED <<active, process>> /\ (active = r => step'[r] \in {"running", "closed", "draining"})
  <2>1. active' # NoRun => step'[active'] \in {"running", "closed", "draining"}
    <3>1. CASE active = r
      BY <1>3, <3>1
    <3>2. CASE active \in Runs /\ active # r
      BY <1>3, <3>2, RunMoves, AgentAssumption DEF TablesInv
    <3> QED BY <1>3, <3>1, <3>2 DEF Exclusive, TypeOK
  <2>2. \A s \in Runs : process'[s] = "alive" => active' = s
    BY <1>3 DEF TablesInv
  <2> QED BY <1>1, <2>1, <2>2 DEF TablesInv
<1>4. CASE CloseProcess(r)
  <2>1. step[r] = "running"
    BY <1>4 DEF CloseProcess, Exclusive, Grounded
  <2>2. \A s \in Runs : process'[s] # "alive"
    <3>1. process'[r] = "dead"
      BY <1>4 DEF CloseProcess, Exclusive, TypeOK
    <3>2. \A s \in Runs : s # r => process'[s] = process[s] /\ step[s] \notin InProgress
      BY <2>1, RunMoves, OnlyOne DEF InProgress
    <3>3. \A s \in Runs : process[s] = "alive" => step[s] \in InProgress
      BY DEF Exclusive, Grounded, InProgress
    <3> QED BY <3>1, <3>2, <3>3
  <2>3. active' # NoRun => step'[active'] \in {"running", "closed", "draining"}
    <3>1. active' # NoRun => active' = active /\ step'[r] = "closed"
      BY <1>4 DEF CloseProcess, Exclusive, TypeOK
    <3>2. active # NoRun => step[active] \in InProgress /\ active \in Runs
      BY DEF TablesInv, InProgress, Exclusive, TypeOK
    <3>3. active # NoRun => active = r
      BY <2>1, <3>2, OnlyOne DEF InProgress
    <3> QED BY <3>1, <3>3
  <2> QED BY <1>1, <2>2, <2>3 DEF TablesInv
<1>5. CASE Unregister(r)
  <2>1. step[r] = "draining" /\ active' = NoRun /\ process' = process
    BY <1>5 DEF Unregister
  <2>2. \A s \in Runs : process'[s] # "alive"
    <3>1. ASSUME NEW s \in Runs, process[s] = "alive"  PROVE FALSE
      <4>1. step[s] = "running"
        BY <3>1 DEF Exclusive, Grounded
      <4> QED BY <2>1, <4>1, OnlyOne DEF InProgress
    <3> QED BY <2>1, <3>1
  <2> QED BY <1>1, <2>1, <2>2 DEF TablesInv
<1>6. CASE Decide(r)
  <2>1. UNCHANGED <<active, process>> /\ step'[r] = "draining"
    BY <1>6 DEF Decide, runner, Exclusive, TypeOK
  <2> QED BY <1>3, <2>1
<1>7. active = r => step[r] \in {"running", "closed", "draining"}
  BY AgentAssumption DEF TablesInv
<1>8. CASE Start(r) \/ Launch(r)
  <2>1. active # r /\ step[r] \in InProgress
    BY <1>7, <1>8 DEF Start, Launch, InProgress
  <2>2. Spawns(r) \/ UNCHANGED <<active, process>>
    BY <1>8 DEF Start, Launch, Enters, runner
  <2> QED BY <1>2, <1>3, <2>1, <2>2
<1>9. CASE Send(r) \/ Admit(r) \/ Refuse(r) \/ Finish(r) \/ RunWriteFails(r)
  <2>1. UNCHANGED <<active, process>> /\ active # r
    BY <1>7, <1>9 DEF Send, Admit, Refuse, Finish, RunWriteFails, runner
  <2> QED BY <1>3, <2>1
<1> QED BY <1>4, <1>5, <1>6, <1>8, <1>9 DEF RunStepOf

LEMMA CallsAfterRun ==
  ASSUME Exclusive, ~overtaken, BegunInv, SettlingInv, AwaitingInv, ReportedInv, NEW r \in Runs,
         Send(r) \/ RunStepOf(r) \/ RunWriteFails(r), \A c \in Callers : ~Due(c)
  PROVE  SettlingInv' /\ AwaitingInv' /\ ReportedInv'
<1>1. caller' = caller /\ requested' = requested
  BY RunMoves
<1>2. \A s \in Runs : step[s] \in Over => step'[s] = step[s]
  BY RunMoves
<1>3. \A c \in Callers : caller[c].run # NoRun => caller[c].run \in Runs
  BY DEF Exclusive, TypeOK, Call
<1>4. SettlingInv'
  BY <1>1, <1>2, <1>3 DEF SettlingInv
<1>5. ReportedInv'
  BY <1>1, <1>2, <1>3 DEF ReportedInv
<1>6. ASSUME NEW c \in Callers, caller[c].step = "awaiting"
      PROVE  /\ step'[caller[c].awaited] \in InProgress \cup {"done", "lost"}
             /\ step'[caller[c].awaited] \in InProgress => requested
             /\ step'[caller[c].awaited] \in {"done", "lost"} => \A s \in Runs : step'[s] \notin InProgress
  <2>1. PICK x \in Runs : x = caller[c].awaited
    BY <1>6 DEF AwaitingInv, Exclusive, TypeOK, Call
  <2>2. step[x] \in InProgress \cup {"done", "lost"} /\ (step[x] \in InProgress => requested)
    BY <1>6, <2>1 DEF AwaitingInv
  <2>3. step[x] \notin {"done", "lost"}
    BY <1>6, <2>1 DEF Due
  <2>4. step'[x] \in InProgress \cup {"done", "lost"}
    BY <2>2, <2>3, RunMoves
  <2>5. ASSUME step'[x] \in {"done", "lost"}, NEW s \in Runs  PROVE step'[s] \notin InProgress
    <3>1. x = r
      BY <2>3, <2>5, RunMoves
    <3>2. CASE s = r
      BY <2>5, <3>1, <3>2 DEF InProgress
    <3>3. CASE s # r
      BY <2>2, <2>3, <3>1, <3>3, OnlyOne, RunMoves
    <3> QED BY <3>2, <3>3
  <2> QED BY <2>1, <2>2, <2>3, <2>4, <2>5
<1>7. AwaitingInv'
  BY <1>1, <1>6 DEF AwaitingInv
<1> QED BY <1>4, <1>5, <1>7

\* The container runner starts no process behind the back of a call that waits.
LEMMA KillAfterRun ==
  ASSUME Exclusive, WaitInv, NEW r \in Runs, Send(r) \/ RunStepOf(r) \/ RunWriteFails(r),
         \A c \in Callers : ~Due(c)
  PROVE  ContainerKillReachesProcess'
<1> SUFFICES ASSUME provider = "container", ~overtaken, NEW c \in Callers,
                    caller[c].step = "awaiting", caller[c].awaited = caller[c].run,
                    process'[caller[c].run] = "alive"
             PROVE  caller[c].run \in cancelled'
  BY RunMoves DEF ContainerKillReachesProcess, KillReachesProcess
<1>1. PICK x \in Runs : x = caller[c].run
  BY DEF WaitInv, AwaitingInv, Exclusive, TypeOK, Call
<1>2. CASE process[x] = "alive"
  BY <1>1, <1>2, RunMoves DEF WaitInv, ContainerKillReachesProcess, KillReachesProcess
<1>3. CASE process[x] # "alive"
  <2>1. x = r
    BY <1>1, <1>3, RunMoves
  <2>2. Spawns(r) /\ (Start(r) \/ Launch(r))
    BY <1>1, <1>3, <2>1 DEF RunStepOf, Send, Admit, Refuse, Start, Launch, Enters, CloseProcess, Decide,
       Unregister, Finish, RunWriteFails, runner, Exclusive, TypeOK
  <2>3. Start(r) /\ step[r] = "starting"
    BY <2>2 DEF WaitInv, BegunInv, Launch, Start
  <2>4. requested
    BY <1>1, <2>1, <2>3 DEF WaitInv, AwaitingInv, InProgress
  <2>5. step'[r] = "finishing"
    BY <2>3, <2>4 DEF Start, Ends, Exclusive, TypeOK
  <2>6. step'[r] = "running"
    BY <2>2 DEF Spawns, Exclusive, TypeOK
  <2> QED BY <2>5, <2>6
<1> QED BY <1>2, <1>3

LEMMA WaitAfterRun ==
  ASSUME Exclusive, WaitInv, NEW r \in Runs, Send(r) \/ RunStepOf(r) \/ RunWriteFails(r),
         \A c \in Callers : ~Due(c)
  PROVE  WaitInv'
<1>1. overtaken' = overtaken
  BY RunMoves
<1>2. BegunInv'
  BY BegunAfterRun DEF WaitInv
<1>3. ~overtaken => TablesInv' /\ SettlingInv' /\ AwaitingInv' /\ ReportedInv'
  BY TablesAfterRun, CallsAfterRun DEF WaitInv
<1> QED BY <1>1, <1>2, <1>3, KillAfterRun DEF WaitInv

\* Where a call goes next.
LEMMA CallGoes ==
  ASSUME Exclusive, EndsAgree, BegunInv, NEW c \in Callers,
         Request(c) \/ CallStepOf(c) \/ CallWriteFails(c) \/ Resume(c)
  PROVE  LET old == caller[c]  new == caller'[c] IN
         /\ \/ new.run = old.run /\ new.op = old.op
            \/ old.step = "idle" /\ new.run = NoRun /\ new.op # "cancel"
            \/ new.run \in ActiveRuns /\ new.step = "noting" /\ new.op # "delete"
         /\ new.step \in {"archiving", "deleting"} => new.op = "delete" \/ old.step = "archiving"
         /\ \/ /\ new.step = "settling" /\ new.awaited = active /\ active # NoRun
               /\ requested' /\ (new.run = old.run \/ new.run = NoRun)
            \/ /\ new.step = "awaiting" /\ new.awaited = activeExecution /\ activeExecution # NoRun
               /\ requested'
               /\ \/ active = NoRun
                  \/ old.step = "settling" /\ process[old.awaited] = "dead"
            \/ /\ new.step \notin {"settling", "awaiting"} /\ ~requested'
               /\ \/ activeExecution = NoRun
                  \/ old.step = "awaiting" /\ step[old.awaited] \in {"done", "lost"}
            \/ /\ new.step \notin {"settling", "awaiting"} /\ requested' = requested
               /\ new.step \in {"reporting", "setting", "returned"} =>
                    \/ new.run = NoRun
                    \/ old.step \in {"reporting", "setting"} /\ new.run = old.run
<1> DEFINE old == caller[c]
           new == caller'[c]
<1>1. TypeOK /\ old \in Call /\ caller' \in [Callers -> Call]
  <2>1. TypeOK'
    BY CallStepType DEF Exclusive
  <2> QED BY <2>1 DEF Exclusive, TypeOK
<1>2. ASSUME NEW call \in Call
      PROVE  /\ NextStep(call) \in {"archiving", "setting", "rejected", "reporting"}
             /\ NextStep(call) = "archiving" => call.op = "delete"
  BY <1>2 DEF NextStep
<1>3. ASSUME NEW s \in CallStep, caller' = [caller EXCEPT ![c].step = s]
      PROVE  new.step = s /\ new.run = old.run /\ new.op = old.op
  BY <1>1, <1>3 DEF Call
<1>4. ASSUME NEW op, NEW r \in Runs, NoteCancel(c, op, r), op # "delete"
      PROVE  /\ new.run \in ActiveRuns /\ new.step = "noting" /\ new.op # "delete"
             /\ requested' = requested
  BY <1>1, <1>4, NoteIs
<1>5. ASSUME NEW op, CancelAgent(c, op)
      PROVE  \E call \in Call : \E q :
               /\ SameCall(c, call) /\ call.op = op /\ call.run = NoRun /\ old.step = "idle"
               /\ \/ active # NoRun /\ WaitsFor(c, "settling", active, q)
                  \/ active = NoRun /\ activeExecution # NoRun
                       /\ WaitsFor(c, "awaiting", activeExecution, q)
                  \/ active = NoRun /\ activeExecution = NoRun /\ Proceeds(c, call, q)
  BY <1>1, <1>5, CancelAgentIs, CancelIs
<1>6. CASE \E op \in {"stop", "delete"} : CancelAgent(c, op)
  BY <1>2, <1>5, <1>6 DEF WaitsFor, Proceeds, SameCall
<1>7. CASE Noted(c)
  <2>1. PICK q :
               /\ SameCall(c, old)
               /\ \/ active # NoRun /\ WaitsFor(c, "settling", active, q)
                  \/ active = NoRun /\ activeExecution # NoRun
                       /\ WaitsFor(c, "awaiting", activeExecution, q)
                  \/ active = NoRun /\ activeExecution = NoRun /\ Proceeds(c, old, q)
    BY <1>1, <1>7, CancelIs DEF Noted
  <2> QED BY <1>1, <1>2, <2>1 DEF WaitsFor, Proceeds, SameCall
<1>8. CASE Settled(c)
  <2>1. PICK q :
          /\ SameCall(c, old)
          /\ \/ activeExecution # NoRun /\ WaitsFor(c, "awaiting", activeExecution, q)
             \/ activeExecution = NoRun /\ Proceeds(c, old, q)
    BY <1>1, <1>8, AwaitsIs DEF Settled
  <2>2. old.step = "settling" /\ process[old.awaited] = "dead"
    BY <1>8 DEF Settled
  <2> QED BY <1>1, <1>2, <2>1, <2>2 DEF WaitsFor, Proceeds, SameCall
<1>9. CASE Awaited(c)
  <2>1. SameCall(c, old) /\ Proceeds(c, old, queue) /\ old.step = "awaiting" /\ step[old.awaited] = "done"
    BY <1>1, <1>9, EndedIs DEF Awaited
  <2> QED BY <1>1, <1>2, <2>1 DEF Proceeds, SameCall
<1>10. CASE AwaitedLost(c)
  <2>1. /\ old.step = "awaiting" /\ step[old.awaited] = "lost" /\ ~requested'
        /\ new.step \in {"rejected", "failing"} /\ new.run = old.run /\ new.op = old.op
    BY <1>3, <1>10 DEF AwaitedLost, CallStep
  <2> QED BY <2>1
<1>11. CASE StartAgent(c)
  BY <1>1, <1>11, StartIs
<1>12. CASE Reported(c) \/ Failed(c) \/ SetStatus(c) \/ CallWriteFails(c)
  <2>1. /\ requested' = requested /\ new.run = old.run /\ new.op = old.op
        /\ new.step \in {"setting", "returned", "rejected"}
        /\ new.step = "rejected" \/ old.step \in {"reporting", "setting"}
    BY <1>3, <1>12 DEF Reported, Failed, SetStatus, CallWriteFails, CallStep
  <2> QED BY <2>1
<1>13. CASE Archive(c)
  <2>1. /\ requested' = requested /\ new.run = old.run /\ new.op = old.op
        /\ new.step \in {"deleting", "rejected"} /\ old.step = "archiving"
    BY <1>3, <1>13 DEF Archive, CallStep
  <2> QED BY <2>1
<1>14. CASE Delete(c)
  <2>1. /\ requested' = requested /\ new.run = old.run /\ new.op = old.op
        /\ new.step = "returned" /\ old.step = "deleting"
    BY <1>3, <1>14 DEF Delete, CallStep
  <2>2. old.run = NoRun
    BY <2>1 DEF BegunInv
  <2> QED BY <2>1, <2>2
<1>15. CASE \E op \in {"cancel", "stop"} : \E r \in Runs : NoteCancel(c, op, r)
  BY <1>4, <1>15
<1> QED
  BY <1>6, <1>7, <1>8, <1>9, <1>10, <1>11, <1>12, <1>13, <1>14, <1>15 DEF Request, CallStepOf, Resume

LEMMA BegunAfterCall ==
  ASSUME Exclusive, EndsAgree, BegunInv, NEW c \in Callers,
         Request(c) \/ CallStepOf(c) \/ CallWriteFails(c) \/ Resume(c)
  PROVE  BegunInv'
<1>1. UNCHANGED <<step, activeExecution, provider>> /\ \A d \in Callers : d # c => caller'[d] = caller[d]
  BY CallMoves DEF Exclusive
<1>2. \/ caller'[c].run = caller[c].run /\ caller'[c].op = caller[c].op
      \/ caller'[c].run = NoRun /\ caller'[c].op # "cancel"
      \/ caller'[c].run \in ActiveRuns /\ caller'[c].step = "noting" /\ caller'[c].op # "delete"
  BY CallGoes
<1>3. caller'[c].step \in {"archiving", "deleting"} =>
        caller'[c].op = "delete" \/ caller[c].step = "archiving"
  BY CallGoes
<1>4. caller'[c].run # NoRun => step[caller'[c].run] \in InProgress \cup Over
  <2>1. \A r \in ActiveRuns : step[r] \in InProgress \cup Over
    BY DEF ActiveRuns, EndsAgree, Over
  <2> QED BY <1>2, <2>1 DEF BegunInv
<1>5. caller'[c].op = "delete" \/ caller'[c].step \in {"archiving", "deleting"} => caller'[c].run = NoRun
  BY <1>2, <1>3 DEF BegunInv
<1>6. caller'[c].op = "cancel" => caller'[c].run # NoRun
  <2>1. \A r \in ActiveRuns : r # NoRun
    BY AgentAssumption DEF ActiveRuns
  <2> QED BY <1>2, <2>1 DEF BegunInv
<1> QED BY <1>1, <1>4, <1>5, <1>6 DEF BegunInv

LEMMA WaitAfterCall ==
  ASSUME Exclusive, EndsAgree, WaitInv, NEW c \in Callers,
         Request(c) \/ CallStepOf(c) \/ CallWriteFails(c) \/ Resume(c)
  PROVE  WaitInv'
<1> DEFINE old == caller[c]
           new == caller'[c]
<1>1. /\ UNCHANGED <<step, process, activeExecution, active, provider>>
      /\ \A d \in Callers : d # c => caller'[d] = caller[d]
      /\ cancelled \subseteq cancelled'
      /\ overtaken => overtaken'
  BY CallMoves DEF Exclusive
<1>2. BegunInv /\ BegunInv'
  BY BegunAfterCall DEF WaitInv
<1>3. old.run # NoRun => old.run \in Runs
  BY DEF Exclusive, TypeOK, Call
<1>4. ASSUME ~overtaken  PROVE TablesInv'
  BY <1>1, <1>4 DEF WaitInv, TablesInv
<1>5. ASSUME ~overtaken  PROVE SettlingInv'
  <2>1. ASSUME new.step = "settling"
        PROVE  new.awaited # NoRun /\ (new.run \in {NoRun, new.awaited} \/ step[new.run] \in Over)
    <3>1. new.awaited = active /\ active # NoRun /\ (new.run = old.run \/ new.run = NoRun)
      BY <1>2, <2>1, CallGoes
    <3>2. active \in Runs /\ step[active] \in InProgress
      BY <1>5, <3>1 DEF WaitInv, TablesInv, InProgress, Exclusive, TypeOK
    <3>3. old.run \in Runs /\ old.run # active => step[old.run] \notin InProgress
      BY <1>5, <3>2, OnlyOne
    <3>4. old.run # NoRun => step[old.run] \in InProgress \cup Over
      BY <1>2 DEF BegunInv
    <3> QED BY <1>3, <3>1, <3>3, <3>4
  <2> QED BY <1>1, <1>5, <2>1 DEF WaitInv, SettlingInv
<1>6. ASSUME ~overtaken, ~requested', requested  PROVE \A r \in Runs : step[r] \notin InProgress
  <2>1. activeExecution = NoRun \/ (old.step = "awaiting" /\ step[old.awaited] \in {"done", "lost"})
    BY <1>2, <1>6, CallGoes
  <2>2. CASE activeExecution = NoRun
    BY <1>6, <2>2, AgentAssumption DEF WaitInv, TablesInv
  <2>3. CASE old.step = "awaiting" /\ step[old.awaited] \in {"done", "lost"}
    BY <1>6, <2>3 DEF WaitInv, AwaitingInv
  <2> QED BY <2>1, <2>2, <2>3
<1>7. ASSUME ~overtaken  PROVE AwaitingInv'
  <2>1. ASSUME new.step = "awaiting"
        PROVE  /\ new.awaited # NoRun /\ step[new.awaited] \in InProgress /\ requested'
    BY <1>2, <2>1, CallGoes DEF BegunInv
  <2>2. \A d \in Callers : d # c /\ caller[d].step = "awaiting" => caller[d].awaited \in Runs
    BY <1>7 DEF WaitInv, AwaitingInv, Exclusive, TypeOK, Call
  <2>3. ASSUME NEW d \in Callers, d # c, caller[d].step = "awaiting", step[caller[d].awaited] \in InProgress
        PROVE  requested'
    BY <1>6, <1>7, <2>2, <2>3 DEF WaitInv, AwaitingInv
  <2>4. ASSUME NEW d \in Callers, caller'[d].step = "awaiting"
        PROVE  /\ caller'[d].awaited # NoRun
               /\ step[caller'[d].awaited] \in InProgress \cup {"done", "lost"}
               /\ step[caller'[d].awaited] \in InProgress => requested'
               /\ step[caller'[d].awaited] \in {"done", "lost"} => \A r \in Runs : step[r] \notin InProgress
    <3>1. CASE d = c
      BY <2>1, <2>4, <3>1 DEF InProgress
    <3>2. CASE d # c
      BY <1>1, <1>7, <2>3, <2>4, <3>2 DEF WaitInv, AwaitingInv
    <3> QED BY <3>1, <3>2
  <2> QED BY <1>1, <2>4 DEF AwaitingInv
<1>8. ASSUME ~overtaken  PROVE ReportedInv'
  <2>1. ASSUME new.run # NoRun, new.step \in {"reporting", "setting", "returned"}
        PROVE  step[new.run] \in Over
    <3>1. /\ new.run = old.run
          /\ \/ activeExecution = NoRun
             \/ old.step = "awaiting" /\ step[old.awaited] \in {"done", "lost"}
             \/ old.step \in {"reporting", "setting"}
      BY <1>2, <2>1, CallGoes
    <3>2. CASE old.step \in {"reporting", "setting"}
      BY <1>8, <2>1, <3>1, <3>2 DEF WaitInv, ReportedInv
    <3>3. CASE activeExecution = NoRun \/ (old.step = "awaiting" /\ step[old.awaited] \in {"done", "lost"})
      <4>1. \A r \in Runs : step[r] \notin InProgress
        BY <1>8, <3>3, AgentAssumption DEF WaitInv, TablesInv, AwaitingInv
      <4> QED BY <1>2, <1>3, <2>1, <3>1, <4>1 DEF BegunInv
    <3> QED BY <3>1, <3>2, <3>3
  <2> QED BY <1>1, <1>8, <2>1 DEF WaitInv, ReportedInv
<1>9. ContainerKillReachesProcess'
  <2> SUFFICES ASSUME provider = "container", ~overtaken, NEW d \in Callers,
                      caller'[d].step = "awaiting", caller'[d].awaited = caller'[d].run,
                      process[caller'[d].run] = "alive"
               PROVE  caller'[d].run \in cancelled'
    BY <1>1 DEF ContainerKillReachesProcess, KillReachesProcess
  <2>1. CASE d # c
    BY <1>1, <2>1 DEF WaitInv, ContainerKillReachesProcess, KillReachesProcess
  <2>2. CASE d = c
    <3>1. /\ new.awaited = activeExecution /\ activeExecution # NoRun
          /\ active = NoRun \/ (old.step = "settling" /\ process[old.awaited] = "dead")
      BY <1>2, <2>2, CallGoes
    <3>2. activeExecution \in Runs /\ step[activeExecution] \in InProgress
      BY <1>2, <3>1 DEF BegunInv, Exclusive, TypeOK
    <3>3. active # NoRun
      BY <2>2, <3>1, <3>2, AgentAssumption DEF WaitInv, TablesInv
    <3>4. old.step = "settling" /\ process[old.awaited] = "dead"
      BY <3>1, <3>3
    <3>5. new.run = old.run
      <4>1. new.run # NoRun /\ new.step # "noting"
        BY <2>2, <3>1
      <4> QED BY <1>2, <3>4, <4>1, CallGoes
    <3>6. old.run # NoRun /\ (old.run = old.awaited \/ step[old.run] \in Over)
      BY <2>2, <3>1, <3>4, <3>5 DEF WaitInv, SettlingInv
    <3>7. step[old.run] \notin Over
      BY <2>2, <3>1, <3>2, <3>5 DEF InProgress, Over
    <3> QED BY <2>2, <3>4, <3>5, <3>6, <3>7
  <2> QED BY <2>1, <2>2
<1> QED BY <1>1, <1>2, <1>4, <1>5, <1>7, <1>8, <1>9 DEF WaitInv

LEMMA WaitAfterCrash ==
  ASSUME TypeOK, WaitInv, Crash
  PROVE  WaitInv'
<1>1. /\ activeExecution' = NoRun /\ active' = NoRun /\ provider' = provider
      /\ \A r \in Runs : process'[r] # "alive" /\ step'[r] \notin InProgress
      /\ \A r \in Runs : step[r] \in InProgress \cup Over => step'[r] \in Over
  BY DEF Crash, InProgress, Over
<1>2. ASSUME NEW c \in Callers
      PROVE  /\ caller'[c].step \in {"idle", "returned", "rejected"}
             /\ caller'[c].run = caller[c].run /\ caller'[c].op = caller[c].op
             /\ caller[c].run # NoRun => caller[c].run \in Runs
  <2>1. caller[c] \in Call
    BY DEF TypeOK
  <2> QED BY <2>1 DEF Crash, Call
<1>3. ASSUME NEW c \in Callers, caller'[c].run # NoRun  PROVE step'[caller'[c].run] \in Over
  BY <1>1, <1>2, <1>3 DEF WaitInv, BegunInv
<1>4. BegunInv'
  <2>1. /\ \A c \in Callers : caller'[c].op = "delete" \/ caller'[c].step \in {"archiving", "deleting"}
           => caller'[c].run = NoRun
      /\ \A c \in Callers : caller'[c].op = "cancel" => caller'[c].run # NoRun
    BY <1>2 DEF WaitInv, BegunInv
  <2>2. \A r \in Runs : step'[r] # "launching"
    BY <1>1 DEF InProgress
  <2> QED BY <1>1, <1>3, <2>1, <2>2 DEF BegunInv
<1>5. TablesInv'
  BY <1>1 DEF TablesInv
<1>6. SettlingInv' /\ AwaitingInv' /\ ReportedInv'
  BY <1>2, <1>3 DEF SettlingInv, AwaitingInv, ReportedInv
<1>7. ContainerKillReachesProcess'
  BY <1>2 DEF ContainerKillReachesProcess, KillReachesProcess
<1> QED BY <1>4, <1>5, <1>6, <1>7 DEF WaitInv

LEMMA WaitInitially == Init => WaitInv
<1> SUFFICES ASSUME Init  PROVE WaitInv
  OBVIOUS
<1>1. \A c \in Callers : caller[c] = NoCall
  BY DEF Init
<1>2. /\ activeExecution = NoRun /\ active = NoRun
      /\ \A r \in Runs : step[r] = "unused" /\ process[r] = "none"
  BY DEF Init
<1>3. BegunInv
  BY <1>1, <1>2 DEF BegunInv, NoCall
<1>4. TablesInv /\ SettlingInv /\ AwaitingInv /\ ReportedInv
  BY <1>1, <1>2 DEF TablesInv, SettlingInv, AwaitingInv, ReportedInv, NoCall, InProgress
<1>5. ContainerKillReachesProcess
  BY <1>1 DEF ContainerKillReachesProcess, KillReachesProcess, NoCall
<1> QED BY <1>3, <1>4, <1>5 DEF WaitInv

LEMMA WaitPreserved == Exclusive /\ EndsAgree /\ WaitInv /\ [Next]_vars => WaitInv'
<1> SUFFICES ASSUME Exclusive, EndsAgree, WaitInv, [Next]_vars  PROVE WaitInv'
  OBVIOUS
<1>1. CASE UNCHANGED vars
  BY <1>1 DEF vars, WaitInv, BegunInv, TablesInv, SettlingInv, AwaitingInv, ReportedInv,
     ContainerKillReachesProcess, KillReachesProcess
<1>2. CASE \E c \in Callers : Resume(c)
  BY <1>2, WaitAfterCall
<1>3. CASE (\A c \in Callers : ~Due(c)) /\ Event
  BY <1>3, WaitAfterRun, WaitAfterCall, WaitAfterCrash DEF Event, Exclusive
<1> QED BY <1>1, <1>2, <1>3 DEF Next

LEMMA WaitInvariance == Spec => [](Exclusive /\ EndsAgree /\ WaitInv)
<1>1. Init => EndsAgree
  BY DEF Init, EndsAgree, ActiveStatus, EndStatus
<1> QED
  BY <1>1, EndsPreserved, ExclusiveInitially, ExclusivePreserved, WaitInitially, WaitPreserved, PTL
  DEF Spec

\* Kill Switch: under the container runner a cancelRun that waits for its run has
\* killed the process, unless "stopped" was stored over "busy".
THEOREM KillsReachContainers == Spec => []ContainerKillReachesProcess
<1>1. WaitInv => ContainerKillReachesProcess
  BY DEF WaitInv
<1> QED BY <1>1, WaitInvariance, PTL

\* When cancelRun returns its run is over, for both runners, unless a write failed
\* or "stopped" was stored over "busy".
THEOREM CancellationsEnd == Spec => []CancelledRunHasEnded
<1>1. Exclusive /\ EndsAgree /\ WaitInv => CancelledRunHasEnded
  <2> SUFFICES ASSUME Exclusive, EndsAgree, WaitInv, ~overtaken, NEW c \in Calls("cancel", "returned")
               PROVE  /\ status[caller[c].run] \in ActiveStatus => step[caller[c].run] = "lost"
                      /\ process[caller[c].run] # "alive"
    BY DEF CancelledRunHasEnded
  <2>1. PICK r \in Runs : r = caller[c].run
    BY DEF Calls, WaitInv, BegunInv, Exclusive, TypeOK, Call
  <2>2. step[r] \in Over
    BY <2>1, AgentAssumption DEF Calls, WaitInv, ReportedInv
  <2>3. status[r] \in ActiveStatus => step[r] = "lost"
    BY <2>2 DEF EndsAgree, InProgress, Over
  <2>4. process[r] # "alive"
    BY <2>2 DEF Exclusive, Grounded, Over
  <2> QED BY <2>1, <2>3, <2>4
<1> QED BY <1>1, WaitInvariance, PTL
=============================================================================
