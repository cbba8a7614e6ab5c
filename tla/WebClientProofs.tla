--------------------------- MODULE WebClientProofs ---------------------------
(***************************************************************************)
(* What the tab shows and when it shows what is stored, for any number of  *)
(* workspaces, versions, lost streams and late answers.                    *)
(***************************************************************************)
EXTENDS WebClient, TLAPS

Reading == UNION {[D -> 0..MaxVersion] : D \in SUBSET Workspaces}
StreamRecord ==
  [open : BOOLEAN, due : BOOLEAN, pass : Reading, last : {<< >>} \cup Snapshot,
   frames : Seq(Snapshot)]
LoadRecord == [of : Workspaces, visit : 0..MaxTrouble, read : RunStatus \cup {"asking"}]
PollRecord ==
  [of : Workspaces, step : {"asking", "active", "ended", "refreshing"}, own : BOOLEAN]
TaskRecord == [of : Workspaces, step : TaskStep]

ServerInv ==
  /\ mode \in {"relay", "direct"}
  /\ stored \in Snapshot /\ run \in [Workspaces -> RunStatus]
StreamInv == stream \in StreamRecord /\ view \in Snapshot
SelectionInv ==
  /\ selected \in Workspaces
  /\ shown = NoRun \/ shown \in [of : Workspaces, status : {"active", "ended"}]
  /\ loads \subseteq LoadRecord
PollsInv ==
  /\ polls \subseteq PollRecord
  /\ \A p, p2 \in polls : p.of = p2.of => p = p2
TaskInv ==
  /\ task = NoTask \/ task \in TaskRecord
  /\ enabled \in BOOLEAN
  /\ enabled \/ task.step \in {"planning", "questions", "started"} => mode = "relay"
CountInv == count \in [trouble : 0..MaxTrouble, tasks : 0..MaxTasks]

\* A run that somebody knows of has been started.
RunInv ==
  /\ \A p \in polls : run[p.of] # "none"
  /\ \A l \in loads : l.read \in {"active", "ended"} => run[l.of] # "none"
  /\ task.step = "sent" => run[task.of] # "none"

TypeInv == ServerInv /\ StreamInv /\ SelectionInv /\ PollsInv /\ TaskInv /\ CountInv

\* Whatever is on its way is at least as new as what is shown, or was read before
\* the session was there; it arrives in the order in which it was read.
NotOlder(new, old) == new = 0 \/ old <= new
AsRead(snapshot, new, old, reading) ==
  \A w \in Workspaces :
    /\ snapshot[w] <= new[w] /\ NotOlder(snapshot[w], old[w])
    /\ w \in DOMAIN reading => snapshot[w] <= reading[w]
OrderInv ==
  /\ \A w \in Workspaces : view[w] <= stored[w]
  /\ \A w \in DOMAIN stream.pass :
       stream.pass[w] <= stored[w] /\ NotOlder(stream.pass[w], view[w])
  /\ \A i \in 1..Len(stream.frames) : AsRead(stream.frames[i], stored, view, stream.pass)
  /\ \A i, j \in 1..Len(stream.frames) : i < j =>
       \A w \in Workspaces : stream.frames[i][w] <= stream.frames[j][w]
  /\ task.step = "started" => stored[task.of] >= 1

WebInv == TypeInv /\ RunInv /\ OrderInv /\ DirectRunIsOfSelected

-----------------------------------------------------------------------------
(* Lemmas                                                                    *)

LEMMA NoneIsNoStream ==
  /\ << >> \in Reading /\ DOMAIN << >> = {} /\ Len(<< >>) = 0
  /\ NewStream \in StreamRecord /\ NoStream \in StreamRecord
  /\ NewStream.pass = << >> /\ NewStream.frames = << >>
  /\ NoStream.pass = << >> /\ NoStream.frames = << >>
<1>1. << >> \in [{} -> 0..MaxVersion] /\ DOMAIN << >> = {}
  OBVIOUS
<1>2. << >> \in Reading
  BY <1>1 DEF Reading
<1>3. NewStream \in StreamRecord
  BY <1>2 DEF NewStream, StreamRecord
<1> QED BY <1>1, <1>2, <1>3 DEF NewStream, NoStream, StreamRecord

LEMMA ClientInit == Init => WebInv
<1> SUFFICES ASSUME Init PROVE WebInv
  OBVIOUS
<1>1. ServerInv /\ view \in Snapshot
  BY ClientAssumption DEF Init, ServerInv, Snapshot, RunStatus
<1>2. StreamInv
  BY <1>1, NoneIsNoStream DEF Init, StreamInv
<1>3. SelectionInv
  BY ClientAssumption DEF Init, SelectionInv, Load, LoadRecord
<1>4. PollsInv /\ TaskInv /\ CountInv
  <2>1. TaskInv
    BY DEF Init, TaskInv, NoTask
  <2> QED BY <2>1, ClientAssumption DEF Init, PollsInv, CountInv
<1>5. OrderInv
  BY <1>1, NoneIsNoStream DEF Init, OrderInv, ServerInv, Snapshot, NoTask
<1>6. DirectRunIsOfSelected
  BY DEF Init, DirectRunIsOfSelected, ActiveRunIsOfSelected, NoRun
<1>7. RunInv
  BY DEF Init, RunInv, Load, NoTask
<1> QED BY <1>1, <1>2, <1>3, <1>4, <1>5, <1>6, <1>7 DEF WebInv, TypeInv

LEMMA RunsStay ==
  ASSUME RunInv, UNCHANGED <<run, loads, polls>>,
         task' = task \/ task'.step # "sent"
  PROVE  RunInv'
BY DEF RunInv

LEMMA TroubleCounts ==
  ASSUME CountInv, Trouble
  PROVE  CountInv' /\ count.trouble + 1 \in 0..MaxTrouble
BY ClientAssumption DEF CountInv, Trouble

LEMMA Appended ==
  ASSUME NEW S, NEW s \in Seq(S), NEW e \in S, NEW t, t = s \/ t = Append(s, e)
  PROVE  /\ t \in Seq(S)
         /\ \A i \in 1..Len(t) : (i \in 1..Len(s) /\ t[i] = s[i]) \/ (i = Len(s) + 1 /\ t[i] = e)
<1>1. CASE t = s
  BY <1>1
<1>2. CASE t = Append(s, e)
  <2>1. t \in Seq(S) /\ Len(t) = Len(s) + 1 /\ Len(s) \in Nat
    BY <1>2
  <2>2. t[Len(s) + 1] = e /\ \A i \in 1..Len(s) : t[i] = s[i]
    BY <1>2
  <2> QED BY <2>1, <2>2
<1> QED BY <1>1, <1>2

\* Nothing in the order of the snapshots changes.
LEMMA OrderStays ==
  ASSUME OrderInv, UNCHANGED <<mode, stored, stream, view>>,
         task' = task \/ task'.step # "started"
  PROVE  OrderInv'
BY DEF OrderInv, AsRead, NotOlder

\* Sessions move on: what has been read of them stays in order.
LEMMA LaterVersions ==
  ASSUME TypeInv, OrderInv, UNCHANGED <<mode, view>>,
         stream'.pass = stream.pass, stream'.frames = stream.frames,
         \A v \in Workspaces : stored[v] \in Nat /\ stored'[v] \in Nat /\ stored[v] <= stored'[v],
         task'.step = "started" => stored'[task'.of] >= 1
  PROVE  OrderInv'
<1>1. view \in Snapshot /\ stream.frames \in Seq(Snapshot) /\ stream.pass \in Reading
  BY DEF TypeInv, StreamInv, StreamRecord
<1>2. \A v \in Workspaces : view[v] \in Nat /\ view[v] <= stored'[v]
  BY <1>1 DEF OrderInv, Snapshot
<1>3. \A v \in DOMAIN stream.pass : stream.pass[v] <= stored'[v] /\ NotOlder(stream.pass[v], view[v])
  <2>1. \A v \in DOMAIN stream.pass : v \in Workspaces /\ stream.pass[v] \in Nat
    BY <1>1 DEF Reading
  <2> QED BY <2>1 DEF OrderInv
<1>4. \A i \in 1..Len(stream.frames) : AsRead(stream.frames[i], stored', view, stream.pass)
  <2> SUFFICES ASSUME NEW i \in 1..Len(stream.frames), NEW v \in Workspaces
               PROVE  /\ stream.frames[i][v] <= stored'[v] /\ NotOlder(stream.frames[i][v], view[v])
                      /\ v \in DOMAIN stream.pass => stream.frames[i][v] <= stream.pass[v]
    BY DEF AsRead
  <2>1. stream.frames[i][v] \in Nat
    BY <1>1 DEF Snapshot
  <2> QED BY <2>1 DEF OrderInv, AsRead
<1> QED BY <1>2, <1>3, <1>4 DEF OrderInv

-----------------------------------------------------------------------------
(* The stream                                                                *)

LEMMA SessionChangesKeeps ==
  ASSUME WebInv, NEW w \in Workspaces, SessionChanges(w)
  PROVE  WebInv'
<1>1. stored' \in Snapshot /\ \A v \in Workspaces : stored[v] <= stored'[v]
  BY ClientAssumption DEF WebInv, TypeInv, ServerInv, Snapshot, SessionChanges
<1>2. stream' \in StreamRecord /\ stream'.pass = stream.pass /\ stream'.frames = stream.frames
  BY DEF WebInv, TypeInv, StreamInv, StreamRecord, SessionChanges, Notify
<1>3. TypeInv'
  BY <1>1, <1>2 DEF WebInv, TypeInv, SessionChanges, tab, ServerInv, StreamInv, SelectionInv,
                     PollsInv, TaskInv, CountInv
<1>4. OrderInv'
  <2>1. stored \in [Workspaces -> 0..MaxVersion] /\ stored' \in [Workspaces -> 0..MaxVersion]
    BY <1>1 DEF WebInv, TypeInv, ServerInv, Snapshot
  <2>2. \A v \in Workspaces : stored[v] \in Nat /\ stored'[v] \in Nat
    BY <2>1
  <2>3. task.step = "started" => task.of \in Workspaces /\ stored'[task.of] >= stored[task.of]
    BY <1>1, <2>2 DEF WebInv, TypeInv, TaskInv, TaskRecord, NoTask
  <2>4. task.step = "started" => stored'[task.of] >= 1
    BY <2>2, <2>3 DEF WebInv, TypeInv, TaskInv, TaskRecord, NoTask, OrderInv
  <2> QED BY <1>1, <1>2, <2>2, <2>4, LaterVersions DEF WebInv, SessionChanges, tab
<1>5. DirectRunIsOfSelected'
  BY DEF WebInv, SessionChanges, tab, DirectRunIsOfSelected, ActiveRunIsOfSelected
<1>6. RunInv'
  BY RunsStay DEF WebInv, SessionChanges, tab
<1> QED BY <1>3, <1>4, <1>5, <1>6 DEF WebInv

\* A step of the handler or the network that changes nothing but the stream.
LEMMA StreamStep ==
  ASSUME WebInv, UNCHANGED <<server, tab>>, CountInv', stream' \in StreamRecord, OrderInv'
  PROVE  WebInv'
<1>1. TypeInv'
  BY DEF WebInv, TypeInv, server, tab, ServerInv, StreamInv, SelectionInv, PollsInv, TaskInv
<1>2. DirectRunIsOfSelected'
  BY DEF WebInv, server, tab, DirectRunIsOfSelected, ActiveRunIsOfSelected
<1>3. RunInv'
  BY RunsStay DEF WebInv, server, tab
<1> QED BY <1>1, <1>2, <1>3 DEF WebInv

LEMMA QuietStreamKeeps ==
  ASSUME WebInv, Resync \/ PushFails \/ StreamLost \/ Connect
  PROVE  WebInv'
<1>1. CountInv' /\ UNCHANGED <<server, tab>>
  BY TroubleCounts DEF WebInv, TypeInv, Resync, PushFails, StreamLost, Connect, CountInv
<1>2. /\ stream' \in StreamRecord
      /\ stream'.pass = stream.pass \/ stream'.pass = << >>
      /\ stream'.frames = stream.frames \/ stream'.frames = << >>
  BY NoneIsNoStream DEF WebInv, TypeInv, StreamInv, StreamRecord, Resync, Notify, PushFails,
                           StreamLost, Connect
<1>3. OrderInv'
  BY <1>1, <1>2, NoneIsNoStream DEF WebInv, OrderInv, AsRead, NotOlder, server, tab
<1> QED BY <1>1, <1>2, <1>3, StreamStep

\* The handler reads a key: the snapshot in hand is the newest of all.
LEMMA ReadingKeeps ==
  ASSUME WebInv, NEW w \in Workspaces, BeginPush(w) \/ ReadSession(w)
  PROVE  WebInv'
<1>1. CountInv' /\ UNCHANGED <<server, tab>> /\ stream'.frames = stream.frames
  BY DEF WebInv, TypeInv, CountInv, BeginPush, ReadSession, StreamInv, StreamRecord
<1>2. PICK D \in SUBSET Workspaces : stream.pass \in [D -> 0..MaxVersion]
  BY DEF WebInv, TypeInv, StreamInv, StreamRecord, Reading
<1>3. stored \in [Workspaces -> 0..MaxVersion]
  BY DEF WebInv, TypeInv, ServerInv, Snapshot
<1> DEFINE read == [v \in D \cup {w} |-> IF v = w THEN stored[v] ELSE stream.pass[v]]
<1>4. stream'.pass = read
  <2>1. CASE BeginPush(w)
    <3>1. D = {}
      BY <1>2, <2>1 DEF BeginPush
    <3>2. stream'.pass = [v \in {w} |-> stored[v]]
      BY <2>1 DEF BeginPush, WebInv, TypeInv, StreamInv, StreamRecord
    <3> QED BY <3>1, <3>2
  <2>2. CASE ReadSession(w)
    <3>1. stream'.pass =
            [v \in DOMAIN stream.pass \cup {w} |-> IF v = w THEN stored[w] ELSE stream.pass[v]]
      BY <2>2 DEF ReadSession, WebInv, TypeInv, StreamInv, StreamRecord
    <3> QED BY <1>2, <3>1
  <2> QED BY <2>1, <2>2
<1>5. DOMAIN read = D \cup {w} /\ read[w] = stored[w]
      /\ \A v \in D : v # w => read[v] = stream.pass[v]
  OBVIOUS
<1>6. \A v \in D \cup {w} : (IF v = w THEN stored[v] ELSE stream.pass[v]) \in 0..MaxVersion
  BY <1>2, <1>3
<1>7. read \in [D \cup {w} -> 0..MaxVersion]
  BY <1>6
<1> HIDE DEF read
<1>8. /\ stream'.pass \in [D \cup {w} -> 0..MaxVersion]
      /\ stream'.pass[w] = stored[w]
      /\ \A v \in DOMAIN stream'.pass : v = w \/ (v \in D /\ stream'.pass[v] = stream.pass[v])
  BY <1>4, <1>5, <1>7
<1>9. stream' \in StreamRecord
  <2>1. stream'.pass \in Reading
    BY <1>8 DEF Reading
  <2> QED BY <2>1 DEF BeginPush, ReadSession, WebInv, TypeInv, StreamInv, StreamRecord
<1>10. OrderInv'
  <2>1. \A i \in 1..Len(stream.frames) : AsRead(stream.frames[i], stored, view, stream.pass)
    BY DEF WebInv, OrderInv
  <2>2. \A i \in 1..Len(stream'.frames) : AsRead(stream'.frames[i], stored', view', stream'.pass)
    BY <1>1, <1>2, <1>8, <2>1 DEF AsRead, NotOlder, server, tab
  <2>3. \A v \in DOMAIN stream'.pass :
          stream'.pass[v] <= stored'[v] /\ NotOlder(stream'.pass[v], view'[v])
    BY <1>1, <1>2, <1>3, <1>8 DEF WebInv, OrderInv, NotOlder, server, tab
  <2> QED BY <1>1, <2>2, <2>3 DEF WebInv, OrderInv, server, tab
<1> QED BY <1>1, <1>9, <1>10, StreamStep

\* A complete reading joins those on their way, behind all of them.
LEMMA PushKeeps ==
  ASSUME WebInv, Push
  PROVE  WebInv'
<1>1. CountInv' /\ UNCHANGED <<server, tab>>
  BY DEF WebInv, TypeInv, CountInv, Push
<1> DEFINE old == stream.frames
           new == stream'.frames
<1>2. stream.pass \in Snapshot /\ old \in Seq(Snapshot) /\ stream'.pass = << >>
  BY DEF WebInv, TypeInv, StreamInv, StreamRecord, Reading, Snapshot, Push
<1>3. new = old \/ new = Append(old, stream.pass)
  BY DEF WebInv, TypeInv, StreamInv, StreamRecord, Push
<1>4. stream' \in StreamRecord
  <2>1. new \in Seq(Snapshot)
    BY <1>2, <1>3, Appended
  <2>2. stream' = [stream EXCEPT !.pass = << >>, !.last = stream.pass, !.frames = new]
    BY DEF WebInv, TypeInv, StreamInv, StreamRecord, Push
  <2> HIDE DEF new
  <2> QED BY <1>2, <2>1, <2>2, NoneIsNoStream DEF WebInv, TypeInv, StreamInv, StreamRecord
<1>5. OrderInv'
  <2>1. \A i \in 1..Len(new) :
          (i \in 1..Len(old) /\ new[i] = old[i]) \/ (i = Len(old) + 1 /\ new[i] = stream.pass)
    BY <1>2, <1>3, Appended
  <2>2. \A i \in 1..Len(old) : AsRead(old[i], stored, view, stream.pass)
    BY DEF WebInv, OrderInv
  <2>3. DOMAIN stream.pass = Workspaces
    BY DEF Push
  <2>4. AsRead(stream.pass, stored, view, stream.pass)
    BY <1>2, <2>3 DEF WebInv, OrderInv, AsRead, Snapshot
  <2>5. \A i \in 1..Len(new) : AsRead(new[i], stored', view', stream'.pass)
    BY <1>1, <1>2, <2>1, <2>2, <2>4, NoneIsNoStream DEF AsRead, NotOlder, server, tab
  <2>6. \A i, j \in 1..Len(new) : i < j => \A w \in Workspaces : new[i][w] <= new[j][w]
    <3> SUFFICES ASSUME NEW i \in 1..Len(new), NEW j \in 1..Len(new), i < j, NEW w \in Workspaces
                 PROVE  new[i][w] <= new[j][w]
      OBVIOUS
    <3>1. i \in 1..Len(old) /\ new[i] = old[i]
      BY <1>2, <1>3, <2>1
    <3>2. CASE j \in 1..Len(old) /\ new[j] = old[j]
      BY <3>1, <3>2 DEF WebInv, OrderInv
    <3>3. CASE new[j] = stream.pass
      BY <2>2, <2>3, <3>1, <3>3 DEF AsRead
    <3> QED BY <2>1, <3>2, <3>3
  <2> QED BY <1>1, <1>2, <2>5, <2>6, NoneIsNoStream DEF WebInv, OrderInv, server, tab
<1> QED BY <1>1, <1>4, <1>5, StreamStep

\* The next snapshot is shown: it is not older, nor are those behind it.
LEMMA DeliverKeeps ==
  ASSUME WebInv, Deliver
  PROVE  /\ WebInv'
         /\ \A w \in Workspaces : view'[w] >= view[w] \/ view'[w] = 0
<1> DEFINE old == stream.frames
           new == stream'.frames
<1>1. old \in Seq(Snapshot) /\ old # << >> /\ new = Tail(old) /\ view' = old[1]
  BY DEF WebInv, TypeInv, StreamInv, StreamRecord, Deliver
<1>2. /\ 1 \in 1..Len(old) /\ Len(old) \in Nat
      /\ \A i \in 1..Len(new) : i + 1 \in 1..Len(old) /\ new[i] = old[i + 1]
      /\ new \in Seq(Snapshot)
  BY <1>1
<1>3. view' \in Snapshot /\ stream' \in StreamRecord /\ stream'.pass = stream.pass
  <2>1. stream' = [stream EXCEPT !.frames = new]
    BY DEF WebInv, TypeInv, StreamInv, StreamRecord, Deliver
  <2>2. old[1] \in Snapshot
    BY <1>1, <1>2
  <2> HIDE DEF new
  <2> QED BY <1>1, <1>2, <2>1, <2>2 DEF WebInv, TypeInv, StreamInv, StreamRecord
<1>4. AsRead(old[1], stored, view, stream.pass)
  BY <1>2 DEF WebInv, OrderInv
<1>5. view \in Snapshot /\ stream.pass \in Reading
  BY DEF WebInv, TypeInv, StreamInv, StreamRecord
<1>6. \A w \in Workspaces : view'[w] >= view[w] \/ view'[w] = 0
  BY <1>1, <1>3, <1>4, <1>5 DEF AsRead, NotOlder, Snapshot
<1>7. TypeInv'
  BY <1>3 DEF WebInv, TypeInv, Deliver, server, ServerInv, StreamInv, SelectionInv, PollsInv,
              TaskInv, CountInv
<1>8. OrderInv'
  <2>1. UNCHANGED <<mode, stored, task>>
    BY DEF Deliver, server
  <2>2. \A w \in Workspaces : view'[w] <= stored'[w]
    BY <1>1, <1>4, <2>1 DEF AsRead
  <2>3. \A w \in DOMAIN stream'.pass :
          stream'.pass[w] <= stored'[w] /\ NotOlder(stream'.pass[w], view'[w])
    BY <1>1, <1>3, <1>4, <1>5, <2>1 DEF WebInv, OrderInv, AsRead, NotOlder, Reading
  <2>4. \A i \in 1..Len(new) : AsRead(new[i], stored', view', stream'.pass)
    <3> SUFFICES ASSUME NEW i \in 1..Len(new), NEW w \in Workspaces
                 PROVE  /\ new[i][w] <= stored[w] /\ NotOlder(new[i][w], old[1][w])
                        /\ w \in DOMAIN stream.pass => new[i][w] <= stream.pass[w]
      BY <1>1, <1>3, <2>1 DEF AsRead, NotOlder
    <3>1. i + 1 \in 1..Len(old) /\ 1 < i + 1 /\ new[i] = old[i + 1]
      BY <1>2
    <3>2. AsRead(old[i + 1], stored, view, stream.pass) /\ old[1][w] <= old[i + 1][w]
      BY <1>2, <3>1 DEF WebInv, OrderInv
    <3> QED BY <3>1, <3>2 DEF AsRead, NotOlder
  <2>5. \A i, j \in 1..Len(new) : i < j => \A w \in Workspaces : new[i][w] <= new[j][w]
    <3> SUFFICES ASSUME NEW i \in 1..Len(new), NEW j \in 1..Len(new), i < j
                 PROVE  \A w \in Workspaces : new[i][w] <= new[j][w]
      OBVIOUS
    <3>1. i + 1 \in 1..Len(old) /\ j + 1 \in 1..Len(old) /\ i + 1 < j + 1
      BY <1>2
    <3> QED BY <1>2, <3>1 DEF WebInv, OrderInv
  <2> QED BY <2>1, <2>2, <2>3, <2>4, <2>5 DEF WebInv, OrderInv
<1>9. DirectRunIsOfSelected'
  BY DEF WebInv, Deliver, server, DirectRunIsOfSelected, ActiveRunIsOfSelected
<1>10. RunInv'
  BY RunsStay DEF WebInv, Deliver, server
<1> QED BY <1>6, <1>7, <1>8, <1>9, <1>10 DEF WebInv

-----------------------------------------------------------------------------
(* The tab                                                                   *)

\* A step of the tab or of the server that leaves sessions and stream alone.
LEMMA TabStep ==
  ASSUME WebInv, UNCHANGED <<mode, stored, stream, view>>,
         task' = task \/ task'.step # "started",
         run' \in [Workspaces -> RunStatus],
         SelectionInv', PollsInv', TaskInv', CountInv', RunInv', DirectRunIsOfSelected'
  PROVE  WebInv'
<1>1. OrderInv'
  BY OrderStays DEF WebInv
<1> QED BY <1>1 DEF WebInv, TypeInv, ServerInv, StreamInv

LEMMA SelectingKeeps ==
  ASSUME WebInv
  PROVE  /\ \A w \in Workspaces : Select(w) => WebInv'
         /\ \A l \in loads : ServeLoad(l) \/ LoadFails(l) => WebInv'
         /\ \A w \in Workspaces : RunEnds(w) => WebInv'
<1>1. TypeInv /\ run \in [Workspaces -> RunStatus]
  BY DEF WebInv, TypeInv, ServerInv
<1>2. ASSUME NEW w \in Workspaces, Select(w) PROVE WebInv'
  <2>1. CountInv' /\ count.trouble + 1 \in 0..MaxTrouble
    BY <1>1, <1>2, TroubleCounts DEF TypeInv, Select
  <2>2. Load(w, count.trouble + 1) \in LoadRecord
    BY <2>1 DEF Load, LoadRecord
  <2>3. SelectionInv' /\ PollsInv' /\ TaskInv'
    BY <1>1, <1>2, <2>2 DEF TypeInv, SelectionInv, PollsInv, TaskInv, server, Select
  <2>4. DirectRunIsOfSelected'
    BY <1>2 DEF Select, DirectRunIsOfSelected, ActiveRunIsOfSelected, NoRun
  <2>5. RunInv'
    BY <1>2 DEF WebInv, RunInv, Select, server, Load
  <2> QED BY <1>1, <1>2, <2>1, <2>3, <2>4, <2>5, TabStep DEF Select, server
<1>3. ASSUME NEW l \in loads, ServeLoad(l) \/ LoadFails(l) PROVE WebInv'
  <2>1. CountInv'
    BY <1>1, <1>3, TroubleCounts DEF TypeInv, CountInv, ServeLoad, LoadFails
  <2>2. l \in LoadRecord /\ run[l.of] \in RunStatus
    BY <1>1 DEF TypeInv, SelectionInv, LoadRecord
  <2>3. [l EXCEPT !.read = run[l.of]] \in LoadRecord
    BY <2>2 DEF LoadRecord
  <2>4. SelectionInv' /\ PollsInv' /\ TaskInv'
    BY <1>1, <1>3, <2>3 DEF TypeInv, SelectionInv, PollsInv, TaskInv, server, ServeLoad, LoadFails
  <2>5. DirectRunIsOfSelected'
    BY <1>3 DEF WebInv, ServeLoad, LoadFails, server, DirectRunIsOfSelected, ActiveRunIsOfSelected
  <2>6. [l EXCEPT !.read = run[l.of]].of = l.of /\ [l EXCEPT !.read = run[l.of]].read = run[l.of]
    BY <2>2 DEF LoadRecord
  <2>7. RunInv'
    BY <1>3, <2>6 DEF WebInv, RunInv, ServeLoad, LoadFails, server
  <2> QED BY <1>1, <1>3, <2>1, <2>4, <2>5, <2>7, TabStep DEF ServeLoad, LoadFails, server
<1>4. ASSUME NEW w \in Workspaces, RunEnds(w) PROVE WebInv'
  <2>1. run' \in [Workspaces -> RunStatus]
    BY <1>1, <1>4 DEF RunEnds, RunStatus
  <2>2. SelectionInv' /\ PollsInv' /\ TaskInv' /\ CountInv'
    BY <1>1, <1>4 DEF TypeInv, SelectionInv, PollsInv, TaskInv, CountInv, RunEnds, tab
  <2>3. DirectRunIsOfSelected'
    BY <1>4 DEF WebInv, RunEnds, tab, DirectRunIsOfSelected, ActiveRunIsOfSelected
  <2>4. \A v \in Workspaces : run[v] # "none" => run'[v] # "none"
    BY <1>1, <1>4 DEF RunEnds
  <2>5. /\ \A p \in polls : p.of \in Workspaces
        /\ \A l \in loads : l.of \in Workspaces
        /\ task.step = "sent" => task.of \in Workspaces
    BY <1>1 DEF TypeInv, PollsInv, SelectionInv, TaskInv, PollRecord, LoadRecord, TaskRecord,
         NoTask
  <2>6. RunInv'
    BY <1>4, <2>4, <2>5 DEF WebInv, RunInv, RunEnds, tab
  <2> QED BY <1>4, <2>1, <2>2, <2>3, <2>6, TabStep DEF RunEnds, tab
<1> QED BY <1>2, <1>3, <1>4

\* There is one loop per run because pollRun looks before it starts one.
LEMMA PollingOnce ==
  ASSUME PollsInv, NEW w \in Workspaces, NEW own \in BOOLEAN, polls' = Polling(w, own)
  PROVE  PollsInv'
<1>1. [of |-> w, step |-> "asking", own |-> own] \in PollRecord
  BY DEF PollRecord
<1> QED BY <1>1 DEF PollsInv, Polling

\* An answer that is not about the selected workspace is not shown.
LEMMA LoadedKeeps ==
  ASSUME WebInv, NEW l \in loads, Loaded(l)
  PROVE  WebInv'
<1>1. TypeInv /\ run \in [Workspaces -> RunStatus]
  BY DEF WebInv, TypeInv, ServerInv
<1>2. l \in LoadRecord /\ l.of \in Workspaces /\ l.read \in RunStatus
  BY <1>1 DEF TypeInv, SelectionInv, LoadRecord, Loaded
<1>3. PollsInv'
  BY <1>1, <1>2, PollingOnce DEF TypeInv, PollsInv, Loaded
<1>4. /\ UNCHANGED <<server, stream, enabled, view, selected, task, count>> /\ loads' = loads \ {l}
      /\ \/ shown' = shown \/ shown' = NoRun
         \/ l.read # "none" /\ Shows(l.of) /\ shown' = [of |-> l.of, status |-> l.read]
      /\ polls' = polls \/ (l.read = "active" /\ polls' = Polling(l.of, FALSE))
  BY DEF Loaded
<1>5. SelectionInv'
  BY <1>1, <1>2, <1>4 DEF TypeInv, SelectionInv, RunStatus
<1>6. TaskInv' /\ CountInv'
  BY <1>1, <1>4 DEF TypeInv, TaskInv, server, CountInv
<1>7. DirectRunIsOfSelected'
  BY <1>4 DEF WebInv, Shows, server, DirectRunIsOfSelected, ActiveRunIsOfSelected, NoRun
<1>8. RunInv'
  BY <1>4 DEF WebInv, RunInv, server, Polling
<1> QED BY <1>1, <1>3, <1>4, <1>5, <1>6, <1>7, <1>8, TabStep DEF server

LEMMA PollsKeep ==
  ASSUME WebInv, NEW p \in polls, ServePoll(p) \/ Polled(p) \/ PollEnds(p) \/ PollFails(p)
  PROVE  WebInv'
<1>1. TypeInv /\ run \in [Workspaces -> RunStatus]
  BY DEF WebInv, TypeInv, ServerInv
<1>2. p \in PollRecord /\ p.of \in Workspaces /\ run[p.of] \in {"active", "ended"}
  BY <1>1 DEF WebInv, TypeInv, PollsInv, PollRecord, RunInv, RunStatus
<1>3. CountInv'
  BY <1>1, TroubleCounts DEF TypeInv, CountInv, ServePoll, Polled, PollEnds, PollFails
<1>4. PollsInv'
  <2>1. ASSUME NEW step \in {"asking", "active", "ended", "refreshing"}, PollBecomes(p, step)
        PROVE  PollsInv'
    <3>1. [p EXCEPT !.step = step] \in PollRecord /\ [p EXCEPT !.step = step].of = p.of
      BY <1>2 DEF PollRecord
    <3> QED BY <1>1, <2>1, <3>1 DEF TypeInv, PollsInv, PollBecomes
  <2>2. CASE ServePoll(p)
    BY <1>2, <2>1, <2>2 DEF ServePoll
  <2>3. CASE Polled(p)
    BY <2>1, <2>3 DEF Polled
  <2>4. CASE PollEnds(p) \/ PollFails(p)
    <3>1. polls' = polls \ {p}
      BY <2>4 DEF PollEnds, PollFails
    <3> QED BY <1>1, <3>1 DEF TypeInv, PollsInv
  <2> QED BY <2>2, <2>3, <2>4
<1>5. /\ UNCHANGED <<server, stream, enabled, view, selected, task, loads>>
      /\ \/ shown' = shown \/ shown' = NoRun
         \/ p.step \in {"active", "ended"} /\ Shows(p.of) /\ shown' = [of |-> p.of, status |-> p.step]
  BY DEF ServePoll, Polled, PollEnds, PollFails
<1>6. SelectionInv' /\ TaskInv'
  BY <1>1, <1>2, <1>5 DEF TypeInv, SelectionInv, TaskInv, server
<1>7. DirectRunIsOfSelected'
  BY <1>5 DEF WebInv, Shows, server, DirectRunIsOfSelected, ActiveRunIsOfSelected, NoRun
<1>8. \A p2 \in polls' : p2 \in polls \/ p2.of = p.of
  <2>1. ASSUME NEW step, PollBecomes(p, step)
        PROVE  \A p2 \in polls' : p2 \in polls \/ p2.of = p.of
    <3>1. [p EXCEPT !.step = step].of = p.of
      BY <1>2 DEF PollRecord
    <3> QED BY <2>1, <3>1 DEF PollBecomes
  <2>2. CASE ServePoll(p)
    BY <2>1, <2>2 DEF ServePoll
  <2>3. CASE Polled(p)
    BY <2>1, <2>3 DEF Polled
  <2>4. CASE PollEnds(p) \/ PollFails(p)
    BY <2>4 DEF PollEnds, PollFails
  <2> QED BY <2>2, <2>3, <2>4
<1>9. RunInv'
  BY <1>2, <1>5, <1>8 DEF WebInv, RunInv, server
<1> QED BY <1>1, <1>3, <1>4, <1>5, <1>6, <1>7, <1>9, TabStep DEF server

LEMMA StartTaskKeeps ==
  ASSUME WebInv, StartTask
  PROVE  WebInv'
<1>1. TypeInv /\ run' = run /\ run \in [Workspaces -> RunStatus] /\ selected \in Workspaces
  BY DEF WebInv, TypeInv, ServerInv, SelectionInv, StartTask, server
<1>2. CountInv'
  BY <1>1, ClientAssumption DEF TypeInv, CountInv, StartTask
<1>3. SelectionInv' /\ PollsInv'
  BY <1>1 DEF TypeInv, SelectionInv, PollsInv, StartTask
<1>4. TaskInv' /\ task'.step \notin {"started", "sent"}
  BY <1>1 DEF TypeInv, TaskInv, TaskRecord, TaskStep, StartTask, server
<1>5. DirectRunIsOfSelected'
  BY DEF WebInv, StartTask, server, DirectRunIsOfSelected, ActiveRunIsOfSelected
<1>6. RunInv'
  BY <1>4 DEF WebInv, RunInv, StartTask, server
<1> QED BY <1>1, <1>2, <1>3, <1>4, <1>5, <1>6, TabStep DEF StartTask, server

LEMMA ServeMessageKeeps ==
  ASSUME WebInv, ServeMessage
  PROVE  WebInv'
<1>1. TypeInv /\ run \in [Workspaces -> RunStatus]
  BY DEF WebInv, TypeInv, ServerInv
<1>2. run' \in [Workspaces -> RunStatus]
  BY <1>1 DEF ServeMessage, RunStatus
<1>3. CountInv' /\ SelectionInv' /\ PollsInv'
  BY <1>1 DEF TypeInv, CountInv, SelectionInv, PollsInv, ServeMessage
<1>4. TaskInv'
  BY <1>1 DEF TypeInv, TaskInv, TaskRecord, TaskStep, NoTask, ServeMessage
<1>5. DirectRunIsOfSelected'
  BY DEF WebInv, ServeMessage, DirectRunIsOfSelected, ActiveRunIsOfSelected
<1>6. RunInv'
  <2>1. task \in TaskRecord /\ task.of \in Workspaces
    BY <1>1 DEF TypeInv, TaskInv, TaskRecord, NoTask, ServeMessage
  <2>2. task'.of = task.of /\ run'[task.of] = "active"
    BY <1>1, <2>1 DEF TaskRecord, ServeMessage
  <2>3. \A v \in Workspaces : run[v] # "none" => run'[v] # "none"
    BY <1>1 DEF ServeMessage
  <2>4. /\ \A p \in polls : p.of \in Workspaces
        /\ \A l \in loads : l.of \in Workspaces
    BY <1>1 DEF TypeInv, PollsInv, SelectionInv, PollRecord, LoadRecord
  <2> QED BY <2>2, <2>3, <2>4 DEF WebInv, RunInv, ServeMessage
<1> QED BY <1>2, <1>3, <1>4, <1>5, <1>6, TabStep DEF ServeMessage

LEMMA MessageSentKeeps ==
  ASSUME WebInv, MessageSent
  PROVE  WebInv'
<1>1. TypeInv /\ run' = run /\ run \in [Workspaces -> RunStatus]
  BY DEF WebInv, TypeInv, ServerInv, MessageSent, server
<1>2. task.of \in Workspaces
  BY <1>1 DEF TypeInv, TaskInv, TaskRecord, NoTask, MessageSent
<1>3. CountInv' /\ TaskInv'
  BY <1>1 DEF TypeInv, CountInv, TaskInv, NoTask, MessageSent, server
<1>4. PollsInv'
  BY <1>1, <1>2, PollingOnce DEF TypeInv, MessageSent
<1>5. SelectionInv'
  BY <1>1, <1>2 DEF TypeInv, SelectionInv, MessageSent
<1>6. DirectRunIsOfSelected'
  BY DEF WebInv, MessageSent, Shows, server, DirectRunIsOfSelected, ActiveRunIsOfSelected
<1>7. RunInv'
  BY DEF WebInv, RunInv, MessageSent, Polling, server, NoTask
<1> QED BY <1>1, <1>3, <1>4, <1>5, <1>6, <1>7, TabStep DEF MessageSent, server, NoTask

LEMMA TaskFailsKeeps ==
  ASSUME WebInv, TaskFails
  PROVE  WebInv'
<1>1. TypeInv /\ run' = run /\ run \in [Workspaces -> RunStatus]
  BY DEF WebInv, TypeInv, ServerInv, TaskFails, server
<1>2. CountInv' /\ TaskInv' /\ PollsInv' /\ SelectionInv'
  BY <1>1 DEF TypeInv, CountInv, TaskInv, PollsInv, SelectionInv, NoTask, TaskFails, server
<1>3. DirectRunIsOfSelected'
  BY DEF TaskFails, DirectRunIsOfSelected, ActiveRunIsOfSelected, NoRun
<1>4. RunInv'
  BY DEF WebInv, RunInv, TaskFails, server, NoTask
<1> QED BY <1>1, <1>2, <1>3, <1>4, TabStep DEF TaskFails, server, NoTask

\* The server stores a session: nothing that was read before knows of it.
LEMMA ServeTaskKeeps ==
  ASSUME WebInv, ServeTask
  PROVE  WebInv'
<1>1. TypeInv /\ mode = "relay" /\ stored \in [Workspaces -> 0..MaxVersion]
      /\ UNCHANGED <<mode, run, enabled, view, selected, shown, loads, polls, count>>
  BY DEF WebInv, TypeInv, ServerInv, TaskInv, Snapshot, ServeTask
<1>2. task \in TaskRecord /\ task.of \in Workspaces
  BY <1>1 DEF TypeInv, TaskInv, TaskRecord, NoTask, ServeTask
<1>3. TaskInv' /\ task'.of = task.of /\ task'.step \in {"questions", "started"}
  BY <1>1, <1>2 DEF TypeInv, TaskInv, TaskRecord, TaskStep, ServeTask
<1>4. DirectRunIsOfSelected'
  BY <1>1 DEF DirectRunIsOfSelected
<1>5. SelectionInv' /\ PollsInv' /\ CountInv'
  BY <1>1 DEF TypeInv, SelectionInv, PollsInv, CountInv
<1>6. RunInv'
  BY <1>1, <1>3, RunsStay DEF WebInv
<1>7. CASE UNCHANGED <<stored, stream>> /\ task'.step = "questions"
  <2>1. OrderInv'
    BY <1>1, <1>7, OrderStays DEF WebInv
  <2> QED BY <1>1, <1>3, <1>4, <1>5, <1>7, <1>6, <2>1 DEF WebInv, TypeInv, ServerInv, StreamInv
<1>8. CASE stored[task.of] = 0 /\ stored' = [stored EXCEPT ![task.of] = 1] /\ Notify
  <2>1. /\ stored' \in [Workspaces -> 0..MaxVersion]
        /\ \A v \in Workspaces : stored'[v] \in Nat /\ stored[v] \in Nat /\ stored[v] <= stored'[v]
        /\ stored'[task.of] = 1
    BY <1>1, <1>2, <1>8, ClientAssumption
  <2>2. stream' \in StreamRecord /\ stream'.pass = stream.pass /\ stream'.frames = stream.frames
    BY <1>1, <1>8 DEF TypeInv, StreamInv, StreamRecord, Notify
  <2>3. TypeInv'
    BY <1>1, <1>3, <1>5, <2>1, <2>2 DEF TypeInv, ServerInv, StreamInv, Snapshot
  <2>4. OrderInv'
    BY <1>1, <1>2, <1>3, <2>1, <2>2, LaterVersions DEF WebInv
  <2> QED BY <1>4, <1>6, <2>3, <2>4 DEF WebInv
<1> QED BY <1>2, <1>7, <1>8 DEF ServeTask, TaskRecord

\* The answer may come after snapshots of later versions, and before older ones
\* that do not know of the session.
LEMMA TaskPlannedKeeps ==
  ASSUME WebInv, TaskPlanned
  PROVE  /\ WebInv'
         /\ \A w \in Workspaces : view'[w] >= view[w] \/ view'[w] = 0
<1>1. TypeInv /\ mode = "relay" /\ UNCHANGED <<server, stream, enabled, selected, loads, polls, count>>
      /\ task' = NoTask
  BY DEF WebInv, TypeInv, TaskInv, TaskPlanned
<1>2. task.of \in Workspaces /\ view \in [Workspaces -> 0..MaxVersion]
      /\ stored \in [Workspaces -> 0..MaxVersion]
  BY <1>1 DEF TypeInv, TaskInv, TaskRecord, NoTask, TaskPlanned, StreamInv, ServerInv, Snapshot
<1>3. /\ view' \in [Workspaces -> 0..MaxVersion]
      /\ \A w \in Workspaces : view'[w] >= view[w] /\ (view'[w] = view[w] \/ view'[w] = 1)
      /\ \A w \in Workspaces : view'[w] <= stored[w]
  <2>1. CASE view' = view
    BY <1>2, <2>1 DEF WebInv, OrderInv
  <2>2. CASE task.step = "started" /\ view' = Dedupe(view, task.of, 1)
    <3>1. stored[task.of] >= 1
      BY <1>1, <2>2 DEF WebInv, OrderInv
    <3>2. view' = [view EXCEPT ![task.of] = IF 1 > view[task.of] THEN 1 ELSE view[task.of]]
      BY <2>2 DEF Dedupe
    <3> QED BY <1>2, <3>1, <3>2, ClientAssumption DEF WebInv, OrderInv
  <2> QED BY <2>1, <2>2 DEF TaskPlanned
<1>4. TypeInv'
  <2>1. SelectionInv'
    BY <1>1, <1>2 DEF TypeInv, SelectionInv, TaskPlanned
  <2> QED BY <1>1, <1>3, <2>1
          DEF TypeInv, server, ServerInv, StreamInv, PollsInv, TaskInv, CountInv, NoTask, Snapshot
<1>5. OrderInv'
  <2>1. \A w \in DOMAIN stream.pass : w \in Workspaces /\ stream.pass[w] \in Nat
    BY <1>1 DEF TypeInv, StreamInv, StreamRecord, Reading
  <2>2. \A i \in 1..Len(stream.frames) : \A w \in Workspaces : stream.frames[i][w] \in Nat
    <3>1. stream.frames \in Seq(Snapshot)
      BY <1>1 DEF TypeInv, StreamInv, StreamRecord
    <3> QED BY <3>1 DEF Snapshot
  <2>3. \A n \in Nat, w \in Workspaces : NotOlder(n, view[w]) => NotOlder(n, view'[w])
    BY <1>2, <1>3 DEF NotOlder
  <2>4. \A i \in 1..Len(stream.frames) : AsRead(stream.frames[i], stored, view', stream.pass)
    BY <2>2, <2>3 DEF WebInv, OrderInv, AsRead
  <2>5. \A w \in DOMAIN stream.pass :
          stream.pass[w] <= stored[w] /\ NotOlder(stream.pass[w], view'[w])
    BY <2>1, <2>3 DEF WebInv, OrderInv
  <2> QED BY <1>1, <1>3, <2>4, <2>5 DEF WebInv, OrderInv, server, NoTask
<1>6. DirectRunIsOfSelected'
  BY <1>1 DEF DirectRunIsOfSelected, server
<1>7. RunInv'
  BY <1>1, RunsStay DEF WebInv, server, NoTask
<1> QED BY <1>3, <1>4, <1>5, <1>6, <1>7 DEF WebInv

-----------------------------------------------------------------------------
(* The theorems                                                              *)

LEMMA ClientNext ==
  ASSUME WebInv, [Next]_vars
  PROVE  /\ WebInv'
         /\ \A w \in Workspaces : view'[w] >= view[w] \/ view'[w] = 0
<1>1. view \in [Workspaces -> 0..MaxVersion]
  BY DEF WebInv, TypeInv, StreamInv, Snapshot
<1>2. CASE Deliver
  BY <1>2, DeliverKeeps
<1>3. CASE TaskPlanned
  BY <1>3, TaskPlannedKeeps
<1>4. CASE view' = view /\ ~Deliver /\ ~TaskPlanned
  <2>1. \A w \in Workspaces : view'[w] >= view[w]
    BY <1>1, <1>4
  <2>2. CASE Pushing \/ Resync \/ PushFails \/ StreamLost \/ Connect
    BY <2>1, <2>2, ReadingKeeps, PushKeeps, QuietStreamKeeps DEF Pushing
  <2>3. CASE StartTask \/ ServeMessage \/ ServeTask \/ TaskAnswered
    BY <1>4, <2>1, <2>3, StartTaskKeeps, ServeMessageKeeps, ServeTaskKeeps, MessageSentKeeps,
       TaskFailsKeeps DEF TaskAnswered
  <2>4. CASE Served \/ (\E l \in loads : LoadFails(l)) \/ (\E p \in polls : PollFails(p))
    BY <2>1, <2>4, SelectingKeeps, LoadedKeeps, PollsKeep DEF Served
  <2>5. CASE \E w \in Workspaces : SessionChanges(w) \/ Select(w) \/ RunEnds(w)
    BY <2>1, <2>5, SessionChangesKeeps, SelectingKeeps
  <2>6. CASE UNCHANGED vars
    <3>1. SelectionInv' /\ PollsInv' /\ TaskInv' /\ CountInv' /\ run' \in [Workspaces -> RunStatus]
      BY <2>6 DEF WebInv, TypeInv, ServerInv, SelectionInv, PollsInv, TaskInv, CountInv, vars
    <3>2. DirectRunIsOfSelected'
      BY <2>6 DEF WebInv, DirectRunIsOfSelected, ActiveRunIsOfSelected, vars
    <3>3. RunInv'
      BY <2>6, RunsStay DEF WebInv, vars
    <3> QED BY <2>1, <2>6, <3>1, <3>2, <3>3, TabStep DEF vars
  <2> QED BY <1>4, <2>2, <2>3, <2>4, <2>5, <2>6 DEF Next
<1>5. view' = view \/ Deliver \/ TaskPlanned
  BY DEF Next, vars, Pushing, BeginPush, ReadSession, Push, Resync, PushFails,
         StreamLost, Connect, StartTask, ServeMessage, ServeTask, TaskAnswered,
         MessageSent, TaskFails, Served, ServeLoad, Loaded, ServePoll, Polled,
         PollEnds, SessionChanges, Select, RunEnds, LoadFails, PollFails, tab
<1> QED BY <1>2, <1>3, <1>4, <1>5

\* Type correctness, with at most one polling loop per run.
THEOREM ClientTypeCorrect == Spec => []TypeOK
<1>1. WebInv => TypeOK
  <2> SUFFICES ASSUME WebInv PROVE TypeOK
    OBVIOUS
  <2>1. stream.frames \in Seq(Snapshot) /\ DOMAIN stream.pass \subseteq Workspaces
        /\ stream.open \in BOOLEAN /\ stream.due \in BOOLEAN
    BY DEF WebInv, TypeInv, StreamInv, StreamRecord, Reading
  <2>2. \A i \in DOMAIN stream.frames : stream.frames[i] \in Snapshot
    BY <2>1
  <2> QED BY <2>1, <2>2 DEF WebInv, TypeInv, TypeOK, ServerInv, StreamInv, SelectionInv, PollsInv,
                            TaskInv, CountInv, LoadRecord, PollRecord, TaskRecord
<1> QED BY ClientInit, ClientNext, <1>1, PTL DEF Spec

\* Without a relay the run on display belongs to the selected workspace, however
\* many are switched between and however late the answers come.
THEOREM RunOfSelected == Spec => []DirectRunIsOfSelected
<1>1. WebInv => DirectRunIsOfSelected
  BY DEF WebInv
<1> QED BY ClientInit, ClientNext, <1>1, PTL DEF Spec

\* No session on display is replaced by an older version of itself.
THEOREM NothingGoesBack == Spec => NoSessionGoesBack
<1>1. WebInv /\ [Next]_vars => [\A w \in Workspaces : view'[w] >= view[w] \/ view'[w] = 0]_vars
  BY ClientNext
<1> QED BY ClientInit, ClientNext, <1>1, PTL DEF Spec, NoSessionGoesBack

-----------------------------------------------------------------------------
(* What the dropping of repetitions rests on                                 *)

\* The snapshot that pushes are compared with has reached the tab, which shows
\* nothing older, or is the last one on its way.
LastInv ==
  stream.last # << >> =>
    IF stream.frames = << >> THEN \A w \in Workspaces : view[w] >= stream.last[w]
    ELSE stream.frames[Len(stream.frames)] = stream.last

\* Once the handler has pushed the sessions as they are stored, and nothing is on
\* its way, the tab shows them so.
PushedIsShown == stream.frames = << >> /\ stream.last = stored => view = stored

LEMMA LastAfterPush == ASSUME WebInv, LastInv, Push PROVE LastInv'
<1>1. stream \in StreamRecord /\ stream.pass \in Snapshot /\ stream.pass # << >>
  <2>1. DOMAIN stream.pass # {}
    BY ClientAssumption DEF Push
  <2> QED BY <2>1, NoneIsNoStream DEF WebInv, TypeInv, StreamInv, StreamRecord, Reading, Snapshot, Push
<1>2. stream'.last = stream.pass /\ view' = view
  BY <1>1 DEF Push, StreamRecord, tab
<1>3. CASE stream.pass = stream.last
  <2>1. stream'.frames = stream.frames
    BY <1>1, <1>3 DEF Push, StreamRecord
  <2> QED BY <1>1, <1>2, <1>3, <2>1 DEF LastInv
<1>4. CASE stream.pass # stream.last
  <2>1. stream'.frames = Append(stream.frames, stream.pass) /\ stream.frames \in Seq(Snapshot)
    BY <1>1, <1>4 DEF Push, StreamRecord
  <2>2. stream'.frames # << >> /\ stream'.frames[Len(stream'.frames)] = stream.pass
    BY <1>1, <2>1
  <2> QED BY <1>2, <2>2 DEF LastInv
<1> QED BY <1>3, <1>4

LEMMA RestOf ==
  ASSUME NEW S, NEW s \in Seq(S), s # << >>
  PROVE  /\ s[1] \in S
         /\ Len(s) = 1 => Tail(s) = << >>
         /\ Len(s) # 1 => Tail(s) # << >> /\ Tail(s)[Len(Tail(s))] = s[Len(s)]
<1>1. Len(s) \in Nat /\ Len(s) >= 1 /\ s[1] \in S
  OBVIOUS
<1>2. Tail(s) \in Seq(S) /\ Len(Tail(s)) = Len(s) - 1
  OBVIOUS
<1>3. ASSUME Len(s) # 1 PROVE Tail(s)[Len(s) - 1] = s[Len(s)]
  <2>1. Len(s) - 1 \in 1..Len(Tail(s))
    BY <1>1, <1>2, <1>3
  <2>2. \A i \in 1..Len(Tail(s)) : Tail(s)[i] = s[i + 1]
    OBVIOUS
  <2>3. (Len(s) - 1) + 1 = Len(s)
    BY <1>1
  <2> QED BY <2>1, <2>2, <2>3
<1>4. \A t \in Seq(S) : t = << >> <=> Len(t) = 0
  OBVIOUS
<1> QED BY <1>1, <1>2, <1>3, <1>4

LEMMA LastAfterDelivery == ASSUME WebInv, LastInv, Deliver PROVE LastInv'
<1>1. stream \in StreamRecord /\ stream.frames \in Seq(Snapshot) /\ stream.frames # << >>
  BY DEF WebInv, TypeInv, StreamInv, StreamRecord, Deliver
<1>2. /\ stream'.last = stream.last /\ stream'.frames = Tail(stream.frames)
      /\ view' = stream.frames[1]
  BY <1>1 DEF Deliver, StreamRecord
<1>3. CASE Len(stream.frames) = 1
  <2>1. stream'.frames = << >> /\ view' \in Snapshot
    BY <1>1, <1>2, <1>3, RestOf
  <2>2. stream.last # << >> => view' = stream.last
    BY <1>1, <1>2, <1>3 DEF LastInv
  <2>3. \A w \in Workspaces : view'[w] \in Nat
    BY <2>1 DEF Snapshot
  <2> QED BY <1>2, <2>1, <2>2, <2>3 DEF LastInv
<1>4. CASE Len(stream.frames) # 1
  <2>1. /\ stream'.frames # << >>
        /\ stream'.frames[Len(stream'.frames)] = stream.frames[Len(stream.frames)]
    BY <1>1, <1>2, <1>4, RestOf
  <2> QED BY <1>1, <1>2, <2>1 DEF LastInv
<1> QED BY <1>3, <1>4

\* Every other step leaves the stream's memory alone or loses it with the stream.
LEMMA LastStays ==
  ASSUME WebInv, [Next]_vars, ~Push, ~Deliver
  PROVE  \/ stream'.last = << >>
         \/ /\ stream'.last = stream.last /\ stream'.frames = stream.frames
            /\ view' = view \/ TaskPlanned
<1>1. stream \in StreamRecord
  BY DEF WebInv, TypeInv, StreamInv
<1>2. CASE (\E w \in Workspaces : BeginPush(w) \/ ReadSession(w)) \/ Resync
  BY <1>1, <1>2 DEF BeginPush, ReadSession, Resync, Notify, StreamRecord, tab
<1>3. CASE PushFails \/ StreamLost \/ Connect
  <2>1. NewStream.last = << >> /\ NoStream.last = << >>
    BY DEF NoStream, NewStream
  <2>2. [NoStream EXCEPT !.frames = stream.frames].last = NoStream.last
    BY NoneIsNoStream DEF StreamRecord
  <2> QED BY <1>3, <2>1, <2>2 DEF PushFails, StreamLost, Connect
<1>4. CASE (\E w \in Workspaces : SessionChanges(w)) \/ ServeTask
  BY <1>1, <1>4 DEF SessionChanges, ServeTask, Notify, StreamRecord, tab
<1>5. CASE UNCHANGED stream /\ (UNCHANGED view \/ TaskPlanned)
  BY <1>5
<1> QED BY <1>2, <1>3, <1>4, <1>5 DEF Next, vars, Pushing, StartTask, ServeMessage, TaskAnswered,
         TaskPlanned, MessageSent, TaskFails, Served, ServeLoad, Loaded, ServePoll, Polled,
         PollEnds, Select, RunEnds, LoadFails, PollFails, tab

LEMMA LastKept == ASSUME WebInv, LastInv, [Next]_vars PROVE LastInv'
<1>1. CASE TaskPlanned
  <2>1. view \in Snapshot /\ WebInv'
    BY <1>1, TaskPlannedKeeps DEF WebInv, TypeInv, StreamInv
  <2>2. stream' = stream
    BY <1>1 DEF TaskPlanned
  <2>3. ASSUME NEW w \in Workspaces PROVE view'[w] >= view[w]
    <3>1. view[w] \in Nat
      BY <2>1 DEF Snapshot
    <3>2. view'[w] = view[w] \/ (view'[w] = IF 1 > view[w] THEN 1 ELSE view[w])
      BY <1>1, <2>1 DEF TaskPlanned, Dedupe, Snapshot
    <3> QED BY <3>1, <3>2
  <2>4. stream.last # << >> => \A w \in Workspaces : stream.last[w] \in Nat
    BY DEF WebInv, TypeInv, StreamInv, StreamRecord, Snapshot
  <2>5. \A w \in Workspaces : view[w] \in Nat /\ view'[w] \in Nat
    BY <2>1 DEF WebInv, TypeInv, StreamInv, Snapshot
  <2> QED BY <2>2, <2>3, <2>4, <2>5 DEF LastInv
<1> QED BY <1>1, LastAfterPush, LastAfterDelivery, LastStays DEF LastInv

\* No session is withheld from a tab by the comparison with the last push: what
\* SessionsConverge rests on, besides the fairness of the handler, the network and
\* the tab.
THEOREM RepetitionsAreKnown == Spec => []PushedIsShown
<1>1. Init => LastInv
  BY DEF Init, LastInv, NoStream, NewStream
<1>2. WebInv /\ LastInv => PushedIsShown
  <2> SUFFICES ASSUME WebInv, LastInv, stream.frames = << >>, stream.last = stored
               PROVE  view = stored
    BY DEF PushedIsShown
  <2>1. view \in [Workspaces -> 0..MaxVersion] /\ stored \in [Workspaces -> 0..MaxVersion]
    BY DEF WebInv, TypeInv, StreamInv, ServerInv, Snapshot
  <2>2. stored # << >>
    BY <2>1, NoneIsNoStream, ClientAssumption
  <2>3. \A w \in Workspaces : view[w] >= stored[w] /\ view[w] <= stored[w]
    BY <2>2 DEF LastInv, WebInv, OrderInv
  <2>4. \A w \in Workspaces : view[w] = stored[w]
    <3>1. \A w \in Workspaces : view[w] \in Nat /\ stored[w] \in Nat
      BY <2>1, ClientAssumption
    <3> SUFFICES ASSUME NEW w \in Workspaces PROVE view[w] = stored[w]
      OBVIOUS
    <3>2. \A m, n \in Nat : m >= n /\ m <= n => m = n
      OBVIOUS
    <3>3. view[w] >= stored[w] /\ view[w] <= stored[w]
      BY <2>3
    <3> QED BY <3>1, <3>2, <3>3
  <2> QED BY <2>1, <2>4
<1> QED BY ClientInit, ClientNext, LastKept, <1>1, <1>2, PTL DEF Spec
=============================================================================
