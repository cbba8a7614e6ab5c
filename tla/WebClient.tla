------------------------------ MODULE WebClient ------------------------------
(***************************************************************************)
(* One browser tab (apps/web/src/App.tsx, api.ts) and the event stream     *)
(* that feeds it (GET /api/relay/sessions/stream in                        *)
(* apps/server/src/app.ts).                                                *)
(*                                                                         *)
(* The server pushes whole snapshots of the stored sessions: a push reads  *)
(* them one key at a time, is dropped if it says the same as the last one, *)
(* and pushes wait for each other.  The tab replaces its sessions by every *)
(* snapshot, adds a session it has started itself, and meanwhile follows   *)
(* the run of the workspace that is selected.  A request of the tab is     *)
(* served at one time and answered at any later one, in any order,         *)
(* whatever is selected by then.  It sends a task to the relay only once a *)
(* snapshot has told it that there is one; until then, and without a       *)
(* relay, it sends a message to the lead agent itself.                     *)
(*                                                                         *)
(* A workspace is a lead agent.  Here it has at most one session (the     *)
(* server would accept more) and one run with a message in its             *)
(* conversation; a planning run has none.                                  *)
(***************************************************************************)
EXTENDS Naturals, Sequences

CONSTANTS
  Workspaces,   \* lead agents
  None,
  Modes,        \* subset of {"relay", "direct"}: with and without a relay
  MaxVersion,   \* bound: versions of a session; with the last one it has ended
  MaxTrouble,   \* bound: lost streams and requests, and selections of another
                \* workspace, together
  MaxTasks      \* bound: messages sent

ASSUME ClientAssumption ==
  /\ None \notin Workspaces /\ Workspaces # {}
  /\ Modes \subseteq {"relay", "direct"}
  /\ MaxVersion \in Nat \ {0} /\ MaxTrouble \in Nat /\ MaxTasks \in Nat

VARIABLES
  mode,      \* relay !== null on the server
  stored,    \* version (updatedAt) of each workspace's stored session, 0 if none
  run,       \* the run of each workspace on the server
  stream,    \* the stream's handler and what is on its way to the tab
  enabled,   \* relayEnabled: what the last snapshot said of mode
  view,      \* relaySessions: version of each session shown, 0 if none
  selected,  \* selectedId
  shown,     \* activeRun: the workspace it is of and the status it has there
  task,      \* startTask: the request that has not been answered
  loads,     \* fetches of the selection effect that have not been answered
  polls,     \* pollRun: the loops, at most one per run
  count      \* bounds

vars == <<mode, stored, run, stream, enabled, view, selected, shown, task, loads, polls, count>>
server == <<mode, stored, run>>
tab == <<enabled, view, selected, shown, task, loads, polls>>

NoRun == [of |-> None, status |-> "none"]
NoTask == [of |-> None, step |-> "none"]
Load(w, visit) == [of |-> w, visit |-> visit, read |-> "asking"]

\* A handler that has just been set up queues its first push; "pass" holds what
\* the push in progress has read so far.
NewStream == [open |-> TRUE, due |-> TRUE, pass |-> << >>, last |-> << >>, frames |-> << >>]
NoStream == [NewStream EXCEPT !.open = FALSE, !.due = FALSE]

\* The tab has just been opened; sessions and runs may be older than that.
Init ==
  /\ mode \in Modes
  /\ stored \in [Workspaces -> IF mode = "relay" THEN {0, 1} ELSE {0}]
  /\ run \in [Workspaces -> IF mode = "relay" THEN {"none"} ELSE {"none", "active"}]
  /\ stream = NoStream
  /\ enabled = FALSE
  /\ view = [w \in Workspaces |-> 0]
  /\ selected \in Workspaces
  /\ loads = {Load(selected, 0)}
  /\ shown = NoRun /\ task = NoTask /\ polls = {}
  /\ count = [trouble |-> 0, tasks |-> 0]

Trouble == count.trouble < MaxTrouble /\ count' = [count EXCEPT !.trouble = @ + 1]

-----------------------------------------------------------------------------
(* The server's side of the stream                                         *)

\* notifyChange's listener in the handler: queueSnapshot.
Notify == stream' = [stream EXCEPT !.due = @ \/ stream.open]

\* The relay stores a new version of a session and then tells its listeners,
\* or tells nobody when publishing the new events rejects.
SessionChanges(w) ==
  /\ stored[w] \in 1..MaxVersion - 1
  /\ stored' = [stored EXCEPT ![w] = @ + 1]
  /\ Notify \/ UNCHANGED stream
  /\ UNCHANGED <<mode, run, tab, count>>

\* Mutant of Resync: the interval is not set.
MutantResync == FALSE /\ UNCHANGED vars

\* The interval queues a push in any case.
Resync ==
  /\ stream.open /\ ~stream.due
  /\ Notify
  /\ UNCHANGED <<server, tab, count>>

\* pushSnapshot: pushes are chained, and listSessions reads key by key.
BeginPush(w) ==
  /\ stream.open /\ stream.due /\ stream.pass = << >>
  /\ stream' = [stream EXCEPT !.due = FALSE, !.pass = [v \in {w} |-> stored[v]]]
  /\ UNCHANGED <<server, tab, count>>

ReadSession(w) ==
  /\ stream.pass # << >> /\ w \notin DOMAIN stream.pass
  /\ stream' = [stream EXCEPT !.pass =
       [v \in DOMAIN @ \cup {w} |-> IF v = w THEN stored[w] ELSE @[v]]]
  /\ UNCHANGED <<server, tab, count>>

Push ==
  /\ DOMAIN stream.pass = Workspaces
  /\ stream' = [stream EXCEPT !.pass = << >>, !.last = stream.pass,
       !.frames = IF stream.pass = stream.last THEN @ ELSE Append(@, stream.pass)]
  /\ UNCHANGED <<server, tab, count>>

\* listSessions rejects: the handler ends the response behind what it has written.
PushFails ==
  /\ stream.pass # << >>
  /\ Trouble
  /\ stream' = [NoStream EXCEPT !.frames = stream.frames]
  /\ UNCHANGED <<server, tab>>

\* The connection or the server process is lost, with everything on its way.
StreamLost ==
  /\ stream.open
  /\ Trouble
  /\ stream' = NoStream
  /\ UNCHANGED <<server, tab>>

-----------------------------------------------------------------------------
(* The tab's side of the stream                                            *)

\* Mutant of Dedupe: the session the tab has been answered with is the newest.
MutantDedupe(old, w, version) == [old EXCEPT ![w] = version]

\* dedupeRelaySessions over the sessions shown and one more.
Dedupe(old, w, version) == [old EXCEPT ![w] = IF version > @ THEN version ELSE @]

\* watchRelaySessions and applySnapshot.
Deliver ==
  /\ stream.frames # << >>
  /\ enabled' = (mode = "relay")
  /\ view' = Head(stream.frames)
  /\ stream' = [stream EXCEPT !.frames = Tail(@)]
  /\ UNCHANGED <<server, selected, shown, task, loads, polls, count>>

\* The watch loop connects, again a second after the stream has ended.
Connect ==
  /\ ~stream.open /\ stream.frames = << >>
  /\ stream' = NewStream
  /\ UNCHANGED <<server, tab, count>>

-----------------------------------------------------------------------------
(* The selected workspace and its run                                      *)

\* The user, createAgent or refreshAgents selects another workspace: its effect
\* clears the run shown and fetches the conversation and its runs.
Select(w) ==
  /\ w # selected
  /\ Trouble
  /\ selected' = w
  /\ shown' = NoRun
  /\ loads' = loads \cup {Load(w, count.trouble + 1)}
  /\ UNCHANGED <<server, stream, enabled, view, task, polls>>

ServeLoad(l) ==
  /\ l.read = "asking"
  /\ loads' = (loads \ {l}) \cup {[l EXCEPT !.read = run[l.of]]}
  /\ UNCHANGED <<server, stream, enabled, view, selected, shown, task, polls, count>>

\* Mutant of Polling: pollingRunIds is not looked at.
MutantPolling(w, own) == polls \cup {[of |-> w, step |-> "asking", own |-> own]}

\* pollRun, unless its run is polled already.  "own" is the loop that startTask
\* waits for.
Polling(w, own) ==
  IF \E p \in polls : p.of = w THEN polls
  ELSE polls \cup {[of |-> w, step |-> "asking", own |-> own]}

\* Mutant of Shows: an answer is shown whatever is selected by then.
MutantShows(w) == TRUE

\* Answers about a workspace are for the tab that has it selected.
Shows(w) == selected = w

\* The effect is answered: the run of the conversation is shown, and polled if
\* it was active when it was read.
Loaded(l) ==
  /\ l.read # "asking"
  /\ loads' = loads \ {l}
  /\ IF ~Shows(l.of) THEN UNCHANGED <<shown, polls>>
     ELSE /\ shown' = IF l.read = "none" THEN NoRun ELSE [of |-> l.of, status |-> l.read]
          /\ polls' = IF l.read = "active" THEN Polling(l.of, FALSE) ELSE polls
  /\ UNCHANGED <<server, stream, enabled, view, selected, task, count>>

LoadFails(l) ==
  /\ Trouble
  /\ loads' = loads \ {l}
  /\ UNCHANGED <<server, stream, enabled, view, selected, shown, task, polls>>

RunEnds(w) ==
  /\ run[w] = "active"
  /\ run' = [run EXCEPT ![w] = "ended"]
  /\ UNCHANGED <<mode, stored, stream, tab, count>>

PollBecomes(p, step) == polls' = (polls \ {p}) \cup {[p EXCEPT !.step = step]}

ServePoll(p) ==
  /\ p.step = "asking"
  /\ PollBecomes(p, run[p.of])
  /\ UNCHANGED <<server, stream, enabled, view, selected, shown, task, loads, count>>

\* The loop is answered: it asks again while the run is active, and else fetches
\* the conversation and the agents.
Polled(p) ==
  /\ p.step \in {"active", "ended"}
  /\ shown' = IF Shows(p.of) THEN [of |-> p.of, status |-> p.step] ELSE shown
  /\ PollBecomes(p, IF p.step = "active" THEN "asking" ELSE "refreshing")
  /\ UNCHANGED <<server, stream, enabled, view, selected, task, loads, count>>

PollEnds(p) ==
  /\ p.step = "refreshing"
  /\ polls' = polls \ {p}
  /\ UNCHANGED <<server, stream, enabled, view, selected, shown, task, loads, count>>

\* A request of the loop rejects: so does startTask if it waits for the loop.
PollFails(p) ==
  /\ Trouble
  /\ polls' = polls \ {p}
  /\ shown' = IF p.own THEN NoRun ELSE shown
  /\ UNCHANGED <<server, stream, enabled, view, selected, task, loads>>

-----------------------------------------------------------------------------
(* startTask                                                               *)

\* The composer is open while the tab shows no running session and no active run,
\* and waits for no answer.
StartTask ==
  /\ task = NoTask
  /\ shown.status # "active" /\ view[selected] \in {0, MaxVersion}
  /\ count.tasks < MaxTasks
  /\ count' = [count EXCEPT !.tasks = @ + 1]
  /\ task' = [of |-> selected, step |-> IF enabled THEN "planning" ELSE "sending"]
  /\ UNCHANGED <<server, stream, enabled, view, selected, shown, loads, polls>>

\* The server starts a run for a message, and does not ask for a relay.
ServeMessage ==
  /\ task.step = "sending"
  /\ run[task.of] = "none"
  /\ run' = [run EXCEPT ![task.of] = "active"]
  /\ task' = [task EXCEPT !.step = "sent"]
  /\ UNCHANGED <<mode, stored, stream, enabled, view, selected, shown, loads, polls, count>>

\* It plans a task, and asks questions or stores a session.
ServeTask ==
  /\ task.step = "planning"
  /\ \/ task' = [task EXCEPT !.step = "questions"] /\ UNCHANGED <<stored, stream>>
     \/ /\ stored[task.of] = 0
        /\ stored' = [stored EXCEPT ![task.of] = 1]
        /\ task' = [task EXCEPT !.step = "started"]
        /\ Notify
  /\ UNCHANGED <<mode, run, enabled, view, selected, shown, loads, polls, count>>

\* api.createCoordinatedTask is answered: the planning run is shown, and a
\* session that was started is added to those shown.
TaskPlanned ==
  /\ task.step \in {"questions", "started"}
  /\ shown' = [of |-> task.of, status |-> "ended"]
  /\ view' = IF task.step = "started" THEN Dedupe(view, task.of, 1) ELSE view
  /\ task' = NoTask
  /\ UNCHANGED <<server, stream, enabled, selected, loads, polls, count>>

\* api.sendMessage is answered: its run is shown if its workspace still is, and
\* polled in any case.
MessageSent ==
  /\ task.step = "sent"
  /\ shown' = IF Shows(task.of) THEN [of |-> task.of, status |-> "active"] ELSE shown
  /\ polls' = Polling(task.of, TRUE)
  /\ task' = NoTask
  /\ UNCHANGED <<server, stream, enabled, view, selected, loads, count>>

\* The server refuses the task, or the request or its answer is lost.
TaskFails ==
  /\ task # NoTask
  /\ shown' = NoRun
  /\ task' = NoTask
  /\ UNCHANGED <<server, stream, enabled, view, selected, loads, polls, count>>

-----------------------------------------------------------------------------
(* Specification                                                           *)

Pushing == (\E w \in Workspaces : BeginPush(w) \/ ReadSession(w)) \/ Push
TaskAnswered == TaskPlanned \/ MessageSent \/ TaskFails
Served ==
  \/ \E l \in loads : ServeLoad(l) \/ Loaded(l)
  \/ \E p \in polls : ServePoll(p) \/ Polled(p) \/ PollEnds(p)

Next ==
  \/ Pushing \/ Resync \/ PushFails \/ StreamLost \/ Deliver \/ Connect
  \/ StartTask \/ ServeMessage \/ ServeTask \/ TaskAnswered
  \/ Served
  \/ \E w \in Workspaces : SessionChanges(w) \/ Select(w) \/ RunEnds(w)
  \/ \E l \in loads : LoadFails(l)
  \/ \E p \in polls : PollFails(p)

Spec == Init /\ [][Next]_vars

\* The handler works off its queue and its interval fires; the network delivers
\* and the tab reconnects; a request of the tab is answered or rejected.
Fairness ==
  /\ WF_vars(Pushing) /\ WF_vars(Resync)
  /\ WF_vars(Deliver) /\ WF_vars(Connect)
  /\ WF_vars(TaskAnswered)

FairSpec == Spec /\ Fairness

-----------------------------------------------------------------------------
(* Properties                                                              *)

Snapshot == [Workspaces -> 0..MaxVersion]
RunStatus == {"none", "active", "ended"}
TaskStep == {"sending", "sent", "planning", "questions", "started"}

\* The types, and at most one polling loop per run.
TypeOK ==
  /\ mode \in {"relay", "direct"}
  /\ stored \in Snapshot /\ view \in Snapshot
  /\ run \in [Workspaces -> RunStatus]
  /\ stream.open \in BOOLEAN /\ stream.due \in BOOLEAN
  /\ DOMAIN stream.pass \subseteq Workspaces
  /\ \A i \in DOMAIN stream.frames : stream.frames[i] \in Snapshot
  /\ enabled \in BOOLEAN /\ selected \in Workspaces
  /\ shown = NoRun \/ shown \in [of : Workspaces, status : {"active", "ended"}]
  /\ task = NoTask \/ task \in [of : Workspaces, step : TaskStep]
  /\ loads \subseteq [of : Workspaces, visit : 0..MaxTrouble, read : RunStatus \cup {"asking"}]
  /\ polls \subseteq [of : Workspaces, step : {"asking", "active", "ended", "refreshing"}, own : BOOLEAN]
  /\ \A p, p2 \in polls : p.of = p2.of => p = p2
  /\ count \in [trouble : 0..MaxTrouble, tasks : 0..MaxTasks]

\* Once the sessions no longer change the tab shows them as they are stored,
\* through lost streams, failed reads and changes nobody was told about.
SessionsConverge == <>[](view = stored)

\* A session that is shown is never replaced by an older version of itself: not
\* by a snapshot on its way, and not by the answer to the task that made it.  (A
\* snapshot read before the session was stored makes it vanish for a while.)
NoSessionGoesBack ==
  [][\A w \in Workspaces : view'[w] >= view[w] \/ view'[w] = 0]_vars

\* The run on display belongs to the selected workspace.
ActiveRunIsOfSelected == shown.of \in {None, selected}

\* Without a relay it does, however late the answers about other workspaces come.
DirectRunIsOfSelected == mode = "direct" => ActiveRunIsOfSelected

\* A run that is shown as active and has ended is polled, or a fetch of it has
\* still to be answered: the end of the run reaches the display.
RunEndIsShown ==
  shown.status = "active" /\ run[shown.of] = "ended" =>
    \/ \E p \in polls : p.of = shown.of
    \/ \E l \in loads : l.of = shown.of
=============================================================================
