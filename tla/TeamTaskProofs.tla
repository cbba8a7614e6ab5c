---------------------------- MODULE TeamTaskProofs ----------------------------
(***************************************************************************)
(* Proofs about TeamTask: type correctness, the shape of the ledger, the   *)
(* unanimity of a pass and the work that is left, for every number of      *)
(* participants, criteria, attempts and repairs, and any amount of         *)
(* trouble.                                                                *)
(***************************************************************************)
EXTENDS TeamTask, FunctionTheorems, FiniteSetTheorems, TLAPS

-----------------------------------------------------------------------------
(* The inductive invariant                                                   *)

SessionRecord ==
  [status : {"running", "completed", "failed", "cancelled"}, stage : Stages \cup {"none"},
   value : Nat, version : Nat, feedback : Nat,
   attempts : UNION {[D -> 1..MaxAttempts] : D \in SUBSET Turns},
   active : RunIds, accepted : Seq(Entry),
   requested : SUBSET RunIds, disconnected : SUBSET RunIds]

CoordRecord ==
  [pc : Steps, turn : Turns, run : RunIds,
   outcome : {"none", "completed", "failed", "malformed"} \cup Verdicts,
   revision : Nat, session : SessionRecord]

RunRecord ==
  [id : RunIds,
   status : {"unused", "active", "completed", "failed", "cancelled", "over"},
   answer : Answers("review") \cup Answers("draft"), candidate : Nat, advice : Nat]

StoreInv == revision \in Nat \ {0} /\ session \in SessionRecord
MailInv == mailbox \subseteq published /\ published \subseteq Turns
CoordType == coord \in CoordRecord /\ coord.revision <= revision
RunsInv == runs \in [Agents -> RunRecord]
RestInv == interrupting \subseteq RunIds /\ trouble \in 0..MaxTrouble

TypeInv == StoreInv /\ MailInv /\ CoordType /\ RunsInv /\ RestInv

\* The ledger of a session and what it says of the turn that comes next.
EntryFits(s, i) ==
  LET e == s.accepted[i] IN
  /\ e.turn = NthTurn(i)
  /\ e.candidate = e.turn.revision
  /\ e.advice = IF e.turn.stage = "revise" THEN e.turn.revision ELSE 0
  /\ e.verdict = "saved" <=> e.turn.stage # "review"
  /\ e.verdict = "PASS" <=> s.status = "completed" /\ i = Len(s.accepted)

Shaped(s) ==
  /\ \A i \in 1..Len(s.accepted) : EntryFits(s, i)
  /\ s.status = "completed" => s.accepted # << >> /\ Len(s.accepted) % 2 = 0
  /\ s.status = "running" =>
       /\ ExpectedTurn(s) = NthTurn(Len(s.accepted) + 1)
       /\ s.stage = "revise" => s.feedback = s.version

\* A copy that can still be written is the stored session; the ledger of a copy
\* in use is the stored one.
CopyInv ==
  /\ Shaped(session) /\ Shaped(coord.session)
  /\ Wins => coord.session = session
  /\ coord.pc \notin {"idle", "recovering"} => coord.session.accepted = session.accepted

\* Nothing is published but the turns of this ledger, up to the next one.
PublishedInv == \A t \in published : \E i \in 1..Len(session.accepted) + 1 : t = NthTurn(i)

\* What the loop knows at each of its steps.
Working == {"record", "wait", "reread", "accept"}
Claimed == {"start"} \cup Working
HandInv ==
  /\ coord.pc \notin {"idle", "settle", "recovering"} => coord.session.status = "running"
  /\ coord.pc \in {"claim"} \cup Claimed => coord.turn = ExpectedTurn(coord.session)
  /\ coord.pc = "claim" => Attempts(coord.session, coord.turn) < MaxAttempts
  /\ coord.pc \in Claimed =>
       /\ coord.run.turn = coord.turn /\ coord.run.attempt # 0
       /\ coord.run.agent \in Agents
       /\ coord.run.agent = AgentFor(coord.session, coord.turn.stage, coord.run.attempt)

\* The run it waits for was shown the prompt of its copy; an answer that is
\* judged is not changed any more.
RunInv ==
  coord.pc \in Working =>
    LET r == runs[coord.run.agent]
        prompt == Prompt(coord.session, coord.turn.stage)
    IN /\ r.id = coord.run
       /\ r.candidate = prompt.candidate /\ r.advice = prompt.advice
       /\ coord.pc = "reread" /\ coord.outcome = "completed" => r.status = "completed"
       /\ coord.pc = "accept" =>
            /\ r.status = "completed" /\ coord.outcome # "malformed"
            /\ coord.outcome = Judgement(coord.turn.stage, r.answer)

LedgerInv == CopyInv /\ PublishedInv /\ HandInv /\ RunInv
TeamInv == TypeInv /\ LedgerInv

-----------------------------------------------------------------------------
(* Turns                                                                     *)

LEMMA FirstTurn == NthTurn(1) = Turn(1, "draft", 0)
BY DEF NthTurn, Turn

\* How the turns of a ledger follow one another.
LEMMA NextTurn ==
  ASSUME NEW i \in Nat \ {0}
  PROVE  /\ NthTurn(i) \in Turns /\ NthTurn(i).value = i
         /\ NthTurn(i).stage \in Stages
         /\ NthTurn(i).stage = "review" <=> i % 2 = 0
         /\ NthTurn(i).stage = "draft" =>
              i = 1 /\ NthTurn(i).revision = 0 /\ NthTurn(i + 1) = Turn(i + 1, "review", 1)
         /\ NthTurn(i).stage = "review" =>
              NthTurn(i + 1) = Turn(i + 1, "revise", NthTurn(i).revision)
         /\ NthTurn(i).stage = "revise" =>
              NthTurn(i + 1) = Turn(i + 1, "review", NthTurn(i).revision + 1)
<1>1. i % 2 \in {0, 1} /\ i \div 2 \in Nat
  OBVIOUS
<1>2. NthTurn(i) \in Turns /\ NthTurn(i).value = i /\ NthTurn(i).stage \in Stages
  BY <1>1 DEF NthTurn, Turn, Turns, Stages
<1>3. NthTurn(i).stage = "review" <=> i % 2 = 0
  BY DEF NthTurn, Turn
<1>4. CASE i = 1
  BY <1>2, <1>3, <1>4 DEF NthTurn, Turn
<1>5. CASE i # 1 /\ i % 2 = 0
  <2>1. (i + 1) % 2 = 1 /\ (i + 1) \div 2 = i \div 2
    BY <1>5
  <2> QED BY <1>2, <1>3, <1>5, <2>1 DEF NthTurn, Turn
<1>6. CASE i # 1 /\ i % 2 # 0
  <2>1. (i + 1) % 2 = 0 /\ (i + 1) \div 2 = (i \div 2) + 1
    BY <1>6
  <2> QED BY <1>2, <1>3, <1>6, <2>1 DEF NthTurn, Turn
<1> QED BY <1>4, <1>5, <1>6

-----------------------------------------------------------------------------
(* Whose turn it is                                                          *)

\* Two numbers with the same remainder are at least the divisor apart.
LEMMA SameRemainder ==
  ASSUME NEW m \in Nat, NEW n \in Nat, NEW d \in Nat \ {0}, m < n, (m % d) = (n % d)
  PROVE  n - m >= d
<1>1. /\ m \div d \in Int /\ n \div d \in Int
      /\ m = (d * (m \div d)) + (m % d) /\ n = (d * (n \div d)) + (n % d)
  OBVIOUS
<1>2. ASSUME NEW p \in Int, NEW q \in Int, d * p < d * q
      PROVE  (d * q) - (d * p) >= d
  BY <1>2
<1>3. d * (m \div d) < d * (n \div d) /\ d * (m \div d) \in Int /\ d * (n \div d) \in Int
  <2>1. (m % d) \in Int
    OBVIOUS
  <2> QED BY <1>1, <2>1
<1>4. (d * (n \div d)) - (d * (m \div d)) >= d
  BY <1>1, <1>2, <1>3
<1>5. (m % d) \in Int
  OBVIOUS
<1> QED BY <1>1, <1>3, <1>4, <1>5

LEMMA Remainder ==
  ASSUME NEW m \in Nat, NEW d \in Nat \ {0}
  PROVE  (m % d) \in 0..d - 1
OBVIOUS

\* An injection of an initial segment into itself reaches every number of it.
LEMMA OntoItself ==
  ASSUME NEW n \in Nat, NEW f \in [1..n -> 1..n], \A k, l \in 1..n : f[k] = f[l] => k = l
  PROVE  \A j \in 1..n : \E k \in 1..n : f[k] = j
<1>1. IsFiniteSet(1..n)
  BY FS_Interval
<1>2. f \in Injection(1..n, 1..n)
  BY Fun_IsInj
<1>3. f \in Surjection(1..n, 1..n)
  BY <1>1, <1>2, FS_Injection
<1> QED BY <1>3 DEF Surjection

\* The rotated order names every participant once.
LEMMA RotatedIsAll ==
  ASSUME NEW s, NEW stage
  PROVE  /\ \A k \in 1..Len(Participants) : Rotated(s, stage)[k] \in Agents
         /\ \A k, l \in 1..Len(Participants) :
              Rotated(s, stage)[k] = Rotated(s, stage)[l] => k = l
         /\ \A a \in Agents : \E k \in 1..Len(Participants) : Rotated(s, stage)[k] = a
<1> DEFINE N == Len(Participants)
           start == IF \E i \in 1..N : Participants[i] = Reference(s, stage)
                    THEN CHOOSE i \in 1..N : Participants[i] = Reference(s, stage)
                    ELSE 0
           place == [k \in 1..N |-> ((start + k - 1) % N) + 1]
<1>1. N \in Nat \ {0} /\ start \in Nat
  BY TeamAssumption
<1>2. Rotated(s, stage) = [k \in 1..N |-> Participants[place[k]]]
  BY DEF Rotated
<1> HIDE DEF start, N
<1>3. \A k \in 1..N : start + k - 1 \in Nat /\ place[k] = ((start + k - 1) % N) + 1
  BY <1>1
<1>4. place \in [1..N -> 1..N]
  <2>1. \A k \in 1..N : ((start + k - 1) % N) + 1 \in 1..N
    <3> SUFFICES ASSUME NEW k \in 1..N
                 PROVE  ((start + k - 1) % N) + 1 \in 1..N
      OBVIOUS
    <3>1. ((start + k - 1) % N) \in 0..N - 1
      BY <1>1, <1>3, Remainder
    <3> QED BY <1>1, <3>1
  <2> QED BY <2>1
<1>5. \A k, l \in 1..N : place[k] = place[l] => k = l
  <2> SUFFICES ASSUME NEW k \in 1..N, NEW l \in 1..N, place[k] = place[l], k < l
               PROVE  FALSE
    BY <1>1
  <2>1. ((start + k - 1) % N) = ((start + l - 1) % N)
    <3>1. ((start + k - 1) % N) \in Int /\ ((start + l - 1) % N) \in Int
      BY <1>1, <1>3, Remainder
    <3> QED BY <1>3, <3>1
  <2>2. /\ start + k - 1 \in Nat /\ start + l - 1 \in Nat
        /\ start + k - 1 < start + l - 1 /\ (start + l - 1) - (start + k - 1) < N
    BY <1>1
  <2>3. PICK m \in Nat, n \in Nat : m = start + k - 1 /\ n = start + l - 1
    BY <2>2
  <2>4. (m % N) = (n % N) /\ m < n /\ n - m < N
    BY <2>1, <2>2, <2>3
  <2>5. n - m >= N
    BY <1>1, <2>4, SameRemainder
  <2> QED BY <1>1, <2>4, <2>5
<1> HIDE DEF place
<1>6. \A j \in 1..N : \E k \in 1..N : place[k] = j
  BY <1>1, <1>4, <1>5, OntoItself
<1>7. \A i, j \in 1..N : Participants[i] = Participants[j] => i = j
  BY TeamAssumption DEF N
<1>8. \A a \in Agents : \E j \in 1..N : Participants[j] = a
  BY DEF Agents, N
<1>9. \A k \in 1..N : Participants[k] \in Agents
  BY DEF Agents, N
<1>10. \A k \in 1..N : Rotated(s, stage)[k] = Participants[place[k]]
  BY <1>2
<1>11. \A k \in 1..N : Rotated(s, stage)[k] \in Agents
  BY <1>4, <1>9, <1>10
<1>12. \A k, l \in 1..N : Rotated(s, stage)[k] = Rotated(s, stage)[l] => k = l
  BY <1>4, <1>5, <1>7, <1>10
<1>13. \A a \in Agents : \E k \in 1..N : Rotated(s, stage)[k] = a
  BY <1>6, <1>8, <1>10
<1> QED BY <1>11, <1>12, <1>13 DEF N

\* Nth finds a place for every rank.
LEMMA NthIsThere ==
  ASSUME NEW S \in SUBSET Nat, IsFiniteSet(S), NEW n \in 1..Cardinality(S)
  PROVE  Nth(S, n) \in S /\ Cardinality({j \in S : j <= Nth(S, n)}) = n
<1> DEFINE Upto(k) == {j \in S : j <= k}
           rank == [k \in S |-> Cardinality(Upto(k))]
           size == Cardinality(S)
<1>1. size \in Nat
  BY FS_CardinalityType
<1>2. \A k \in S : IsFiniteSet(Upto(k)) /\ Cardinality(Upto(k)) <= size
                   /\ Cardinality(Upto(k)) \in Nat
  <2> SUFFICES ASSUME NEW k \in S
               PROVE  IsFiniteSet(Upto(k)) /\ Cardinality(Upto(k)) <= size
                      /\ Cardinality(Upto(k)) \in Nat
    OBVIOUS
  <2>1. Upto(k) \in SUBSET S
    OBVIOUS
  <2> QED BY <2>1, FS_Subset, FS_CardinalityType
<1>3. \A k \in S : Cardinality(Upto(k)) # 0
  <2> SUFFICES ASSUME NEW k \in S
               PROVE  Cardinality(Upto(k)) # 0
    OBVIOUS
  <2>1. k \in Upto(k)
    OBVIOUS
  <2> QED BY <1>2, <2>1, FS_EmptySet
<1>4. rank \in [S -> 1..size]
  <2>1. \A k \in S : Cardinality(Upto(k)) \in 1..size
    BY <1>1, <1>2, <1>3
  <2> QED BY <2>1
<1>5. \A k, l \in S : rank[k] = rank[l] => k = l
  <2> SUFFICES ASSUME NEW k \in S, NEW l \in S, k < l, rank[k] = rank[l]
               PROVE  FALSE
    OBVIOUS
  <2>1. k \in Nat /\ l \in Nat
    OBVIOUS
  <2>2. Upto(k) \in SUBSET Upto(l)
    <3>1. \A j \in S : j \in Nat /\ (j <= k => j <= l)
      BY <2>1
    <3> QED BY <3>1
  <2>3. l \in Upto(l) /\ l \notin Upto(k)
    BY <2>1
  <2>4. Cardinality(Upto(l)) = Cardinality(Upto(k))
    OBVIOUS
  <2> HIDE DEF Upto
  <2>5. Upto(l) = Upto(k)
    BY <1>2, <2>2, <2>4, FS_Subset
  <2> QED BY <2>3, <2>5
<1>6. rank \in Injection(S, 1..size)
  BY <1>4, <1>5, Fun_IsInj
<1>7. IsFiniteSet(1..size) /\ Cardinality(1..size) = size
  BY <1>1, FS_Interval
<1>8. rank \in Surjection(S, 1..size)
  BY <1>6, <1>7, FS_Injection
<1>9. \E k \in S : rank[k] = n
  BY <1>8 DEF Surjection
<1>10. \E k \in S : Cardinality({j \in S : j <= k}) = n
  BY <1>9
<1> QED BY <1>10 DEF Nth

\* The candidates are the eligible participants, each of them once; one who is
\* not eligible is a candidate only if nobody is.
LEMMA CandidatesAre ==
  ASSUME NEW s, NEW stage
  PROVE  LET c == Candidates(s, stage)
             may == Agents \ Excluded(s, stage)
         IN /\ Len(c) \in Nat \ {0} /\ Cardinality(may) \in Nat /\ Cardinality(may) <= Len(c)
            /\ \A n \in 1..Len(c) : c[n] \in Agents /\ (may # {} => c[n] \in may)
            /\ \A m, n \in 1..Len(c) : c[m] = c[n] => m = n
<1> DEFINE N == Len(Participants)
           R == [k \in 1..N |-> Rotated(s, stage)[k]]
           may == Agents \ Excluded(s, stage)
           eligible == {k \in 1..N : Rotated(s, stage)[k] \notin Excluded(s, stage)}
           E == Cardinality(eligible)
           c == Candidates(s, stage)
<1>1. N \in Nat \ {0}
  BY TeamAssumption
<1>2. /\ \A k \in 1..N : R[k] \in Agents
      /\ \A k, l \in 1..N : R[k] = R[l] => k = l
      /\ \A a \in Agents : \E k \in 1..N : R[k] = a
  BY RotatedIsAll
<1>3. eligible = {k \in 1..N : R[k] \in may}
  BY <1>2
<1>4. eligible \in SUBSET Nat /\ IsFiniteSet(eligible) /\ E \in Nat
  <2>1. eligible \in SUBSET (1..N) /\ IsFiniteSet(1..N)
    BY <1>1, FS_Interval
  <2> QED BY <1>1, <2>1, FS_Subset, FS_CardinalityType
<1>5. c = IF eligible = {} THEN Participants
          ELSE [n \in 1..E |-> R[Nth(eligible, n)]]
  <2>1. \A n \in 1..E : Nth(eligible, n) \in 1..N
    BY <1>4, NthIsThere
  <2> QED BY <2>1 DEF Candidates
<1> HIDE DEF R, c
<1>6. Cardinality(may) = E
  <2> DEFINE f == [k \in eligible |-> R[k]]
  <2>1. f \in [eligible -> may]
    BY <1>3
  <2>2. \A k, l \in eligible : f[k] = f[l] => k = l
    BY <1>2
  <2>3. \A a \in may : \E k \in eligible : f[k] = a
    BY <1>2, <1>3
  <2> HIDE DEF f, eligible, may
  <2>4. f \in Bijection(eligible, may)
    BY <2>1, <2>2, <2>3, Fun_IsBij
  <2>5. ExistsBijection(eligible, may)
    BY <2>4, Fun_ExistsBij
  <2> QED BY <1>4, <2>5, FS_Bijection DEF E
<1> HIDE DEF E
<1>7. CASE eligible = {}
  <2>1. c = Participants
    BY <1>5, <1>7
  <2>2. E = 0
    BY <1>7, FS_EmptySet DEF E
  <2>3. may = {}
    BY <1>2, <1>3, <1>7
  <2>4. \A n \in 1..N : Participants[n] \in Agents
    BY DEF Agents
  <2> QED BY <1>1, <1>6, <2>1, <2>2, <2>3, <2>4, TeamAssumption DEF c
<1>8. CASE eligible # {}
  <2>1. c = [n \in 1..E |-> R[Nth(eligible, n)]] /\ E \in Nat \ {0}
    BY <1>4, <1>5, <1>8, FS_EmptySet DEF E
  <2>2. \A n \in 1..E : Nth(eligible, n) \in eligible
                        /\ Cardinality({j \in eligible : j <= Nth(eligible, n)}) = n
    BY <1>4, NthIsThere DEF E
  <2>3. Len(c) = E /\ \A n \in 1..E : c[n] = R[Nth(eligible, n)]
    BY <2>1
  <2>4. \A n \in 1..E : c[n] \in may
    BY <1>3, <2>2, <2>3
  <2>5. \A m, n \in 1..E : c[m] = c[n] => m = n
    <3> SUFFICES ASSUME NEW m \in 1..E, NEW n \in 1..E, c[m] = c[n]
                 PROVE  m = n
      OBVIOUS
    <3>1. R[Nth(eligible, m)] = R[Nth(eligible, n)]
      BY <2>3
    <3>2. Nth(eligible, m) \in 1..N /\ Nth(eligible, n) \in 1..N
      BY <2>2
    <3>3. Nth(eligible, m) = Nth(eligible, n)
      BY <1>2, <3>1, <3>2
    <3> QED BY <2>2, <3>3
  <2> QED BY <1>6, <2>1, <2>3, <2>4, <2>5 DEF c
<1> QED BY <1>7, <1>8

\* Whoever is asked is a participant, an eligible one if there is one, and is
\* asked again for the same turn only after all others that are eligible.
LEMMA AgentForIs ==
  ASSUME NEW s, NEW stage, NEW m \in Nat \ {0}
  PROVE  LET may == Agents \ Excluded(s, stage) IN
         /\ AgentFor(s, stage, m) \in Agents
         /\ may # {} => AgentFor(s, stage, m) \in may
         /\ \A n \in Nat : n > m /\ AgentFor(s, stage, n) = AgentFor(s, stage, m) =>
              n - m >= Cardinality(may)
<1> DEFINE c == Candidates(s, stage)
           L == Len(c)
           may == Agents \ Excluded(s, stage)
           at(k) == ((k - 1) % L) + 1
<1>1. /\ L \in Nat \ {0} /\ Cardinality(may) \in Nat /\ Cardinality(may) <= L
      /\ \A n \in 1..L : c[n] \in Agents /\ (may # {} => c[n] \in may)
      /\ \A k, n \in 1..L : c[k] = c[n] => k = n
  BY CandidatesAre
<1>2. \A k \in Nat \ {0} : AgentFor(s, stage, k) = c[at(k)]
  BY DEF AgentFor
<1> HIDE DEF c, L, may
<1>3. \A k \in Nat \ {0} : ((k - 1) % L) \in 0..L - 1 /\ at(k) \in 1..L
  <2> SUFFICES ASSUME NEW k \in Nat \ {0}
               PROVE  ((k - 1) % L) \in 0..L - 1 /\ at(k) \in 1..L
    OBVIOUS
  <2>1. PICK j \in Nat : j = k - 1
    OBVIOUS
  <2>2. (j % L) \in 0..L - 1
    BY <1>1, Remainder
  <2> QED BY <1>1, <2>1, <2>2
<1>4. AgentFor(s, stage, m) \in Agents /\ (may # {} => AgentFor(s, stage, m) \in may)
  BY <1>1, <1>2, <1>3
<1>5. ASSUME NEW n \in Nat, n > m, AgentFor(s, stage, n) = AgentFor(s, stage, m)
      PROVE  n - m >= Cardinality(may)
  <2>1. n \in Nat \ {0}
    BY <1>5
  <2>2. at(n) = at(m)
    BY <1>1, <1>2, <1>3, <1>5, <2>1
  <2>3. PICK i \in Nat, j \in Nat : i = m - 1 /\ j = n - 1
    BY <2>1
  <2>4. (i % L) = (j % L) /\ i < j
    BY <1>3, <1>5, <2>1, <2>2, <2>3
  <2>5. j - i >= L
    BY <1>1, <2>4, SameRemainder
  <2> QED BY <1>1, <2>3, <2>5
<1> QED BY <1>4, <1>5 DEF may

-----------------------------------------------------------------------------
(* Sessions                                                                  *)

LEMMA NoRunIsRunId == NoRun \in RunIds /\ NoRun.turn \in Turns
BY DEF NoRun, RunIds, Turn, Turns

LEMMA ExpectedIsTurn == ASSUME NEW s \in SessionRecord PROVE ExpectedTurn(s) \in Turns
BY DEF SessionRecord, ExpectedTurn, Turn, Turns

LEMMA NewSessionIsShaped ==
  /\ NewSession \in SessionRecord /\ Shaped(NewSession)
  /\ NewSession.accepted = << >> /\ ExpectedTurn(NewSession) = NthTurn(1)
<1>1. NewSession.attempts \in UNION {[D -> 1..MaxAttempts] : D \in SUBSET Turns}
  <2>1. NewSession.attempts \in [{} -> 1..MaxAttempts]
    BY DEF NewSession
  <2> QED BY <2>1
<1>2. NewSession.accepted \in Seq(Entry) /\ NewSession.accepted = << >>
  BY DEF NewSession
<1>3. NewSession \in SessionRecord
  BY <1>1, <1>2, NoRunIsRunId DEF NewSession, SessionRecord, Stages
<1>4. ExpectedTurn(NewSession) = NthTurn(1)
  BY FirstTurn DEF ExpectedTurn, NewSession
<1>5. Shaped(NewSession)
  BY <1>4 DEF Shaped, NewSession
<1> QED BY <1>2, <1>3, <1>4, <1>5

\* Two sessions with the same ledger, waiting for the same turn.
Alike(u, s) ==
  /\ u.stage = s.stage /\ u.value = s.value /\ u.version = s.version
  /\ u.feedback = s.feedback /\ u.accepted = s.accepted
Follows(u, s) ==
  Alike(u, s) /\ (u.status = s.status \/ (s.status = "running" /\ u.status \in {"failed", "cancelled"}))

LEMMA ShapedKept ==
  ASSUME NEW s, NEW u, Shaped(s), Follows(u, s)
  PROVE  Shaped(u)
<1>1. ExpectedTurn(u) = ExpectedTurn(s)
  BY DEF Follows, Alike, ExpectedTurn
<1> QED BY <1>1 DEF Shaped, EntryFits, Follows, Alike

\* What a session's writers change but its ledger and its turn.
LEMMA RunUpdate ==
  ASSUME NEW s \in SessionRecord, NEW r \in RunIds
  PROVE  /\ [s EXCEPT !.active = r] \in SessionRecord
         /\ Follows([s EXCEPT !.active = r], s)
         /\ [s EXCEPT !.active = r].status = s.status
         /\ [s EXCEPT !.active = r].attempts = s.attempts
BY DEF SessionRecord, Follows, Alike

LEMMA FailUpdate ==
  ASSUME NEW s \in SessionRecord, NEW r \in RunIds, s.status = "running"
  PROVE  /\ [s EXCEPT !.active = r, !.status = "failed"] \in SessionRecord
         /\ Follows([s EXCEPT !.active = r, !.status = "failed"], s)
         /\ [s EXCEPT !.active = r, !.status = "failed"].attempts = s.attempts
BY DEF SessionRecord, Follows, Alike

LEMMA CancelUpdate ==
  ASSUME NEW s \in SessionRecord, s.status = "running"
  PROVE  /\ [s EXCEPT !.status = "cancelled"] \in SessionRecord
         /\ Follows([s EXCEPT !.status = "cancelled"], s)
         /\ [s EXCEPT !.status = "cancelled"].attempts = s.attempts
BY DEF SessionRecord, Follows, Alike

LEMMA InterruptUpdate ==
  ASSUME NEW s \in SessionRecord, NEW R \in SUBSET RunIds, NEW D \in SUBSET RunIds
  PROVE  /\ [s EXCEPT !.requested = R] \in SessionRecord
         /\ Follows([s EXCEPT !.requested = R], s)
         /\ [s EXCEPT !.requested = R].attempts = s.attempts
         /\ [s EXCEPT !.requested = R].disconnected = s.disconnected
         /\ [s EXCEPT !.disconnected = D] \in SessionRecord
         /\ Follows([s EXCEPT !.disconnected = D], s)
         /\ [s EXCEPT !.disconnected = D].attempts = s.attempts
BY DEF SessionRecord, Follows, Alike

LEMMA AttemptsIsNat ==
  ASSUME NEW s \in SessionRecord, NEW t
  PROVE  Attempts(s, t) \in 0..MaxAttempts
<1>1. PICK D \in SUBSET Turns : s.attempts \in [D -> 1..MaxAttempts]
  BY DEF SessionRecord
<1> QED BY <1>1, TeamAssumption DEF Attempts

LEMMA CountUpdate ==
  ASSUME NEW s \in SessionRecord, NEW t \in Turns, Attempts(s, t) < MaxAttempts
  PROVE  /\ Counted(s, t) \in SessionRecord /\ Follows(Counted(s, t), s)
         /\ Counted(s, t).status = s.status
         /\ Attempts(Counted(s, t), t) = Attempts(s, t) + 1
         /\ \A u : u # t => Attempts(Counted(s, t), u) = Attempts(s, u)
<1>1. PICK D \in SUBSET Turns : s.attempts \in [D -> 1..MaxAttempts]
  BY DEF SessionRecord
<1> DEFINE f == [u \in D \cup {t} |-> Attempts(s, u) + (IF u = t THEN 1 ELSE 0)]
<1>2. f \in [D \cup {t} -> 1..MaxAttempts]
  <2>1. \A u \in D \cup {t} : Attempts(s, u) + (IF u = t THEN 1 ELSE 0) \in 1..MaxAttempts
    <3> SUFFICES ASSUME NEW u \in D \cup {t}
                 PROVE  Attempts(s, u) + (IF u = t THEN 1 ELSE 0) \in 1..MaxAttempts
      OBVIOUS
    <3>1. CASE u = t
      BY <3>1, AttemptsIsNat, TeamAssumption
    <3>2. CASE u # t
      BY <1>1, <3>2, TeamAssumption DEF Attempts
    <3> QED BY <3>1, <3>2
  <2> QED BY <2>1
<1>3. f \in UNION {[E -> 1..MaxAttempts] : E \in SUBSET Turns}
  <2>1. D \cup {t} \in SUBSET Turns
    OBVIOUS
  <2> QED BY <1>2, <2>1
<1>4. Counted(s, t) = [s EXCEPT !.attempts = f]
  <2>1. DOMAIN s.attempts = D
    BY <1>1
  <2> QED BY <2>1 DEF Counted, SessionRecord
<1>5. Attempts(s, t) \in Nat
  BY AttemptsIsNat, TeamAssumption
<1> HIDE DEF f
<1>6. Counted(s, t) \in SessionRecord /\ Follows(Counted(s, t), s)
      /\ Counted(s, t).status = s.status /\ Counted(s, t).attempts = f
  BY <1>3, <1>4 DEF SessionRecord, Follows, Alike
<1>7. DOMAIN f = D \cup {t} /\ \A u \in D \cup {t} : f[u] = Attempts(s, u) + (IF u = t THEN 1 ELSE 0)
  BY DEF f
<1>8. Attempts(Counted(s, t), t) = Attempts(s, t) + 1
  BY <1>6, <1>7 DEF Attempts
<1>9. ASSUME NEW u, u # t
      PROVE  Attempts(Counted(s, t), u) = Attempts(s, u)
  <2>1. CASE u \in D
    <3>1. Attempts(s, u) \in Nat
      BY AttemptsIsNat, TeamAssumption
    <3> QED BY <1>6, <1>7, <1>9, <2>1, <3>1 DEF Attempts
  <2>2. CASE u \notin D
    BY <1>1, <1>6, <1>7, <1>9, <2>2 DEF Attempts
  <2> QED BY <2>1, <2>2
<1> QED BY <1>6, <1>8, <1>9

\* The choice of the worker looks at nothing but the ledger.
LEMMA SameWorkers ==
  ASSUME NEW s, NEW u, s.accepted = u.accepted, NEW stage, NEW m
  PROVE  Excluded(s, stage) = Excluded(u, stage) /\ AgentFor(s, stage, m) = AgentFor(u, stage, m)
<1>1. LatestArtifactAgent(s) = LatestArtifactAgent(u) /\ LatestReviewAgent(s) = LatestReviewAgent(u)
  BY DEF LatestArtifactAgent, LatestReviewAgent, LatestAgent
<1>2. Excluded(s, stage) = Excluded(u, stage) /\ Reference(s, stage) = Reference(u, stage)
  BY <1>1 DEF Excluded, Reference
<1>3. Rotated(s, stage) = Rotated(u, stage)
  BY <1>2 DEF Rotated
<1>4. Candidates(s, stage) = Candidates(u, stage)
  BY <1>2, <1>3 DEF Candidates
<1> QED BY <1>2, <1>4 DEF AgentFor

-----------------------------------------------------------------------------
(* The turns of a ledger and of its messages                                 *)

\* The turn a running session waits for has not been accepted, and every
\* message is about it or about a turn that has been accepted.
LEMMA OpenTurn ==
  ASSUME NEW s \in SessionRecord, Shaped(s), s.status = "running"
  PROVE  LET n == Len(s.accepted) + 1 IN
         /\ n \in Nat \ {0} /\ ExpectedTurn(s) = NthTurn(n) /\ s.value = n
         /\ \A i \in 1..n : NthTurn(i).value = s.value => NthTurn(i) = ExpectedTurn(s)
         /\ \A i \in 1..n : NthTurn(i) \in AcceptedTurns(s) \cup {ExpectedTurn(s)}
<1> DEFINE n == Len(s.accepted) + 1
<1>1. n \in Nat \ {0} /\ DOMAIN s.accepted = 1..n - 1
  BY DEF SessionRecord
<1>2. ExpectedTurn(s) = NthTurn(n)
  BY DEF Shaped
<1>3. \A i \in 1..n : NthTurn(i).value = i
  BY <1>1, NextTurn
<1>4. s.value = n
  <2>1. ExpectedTurn(s).value = s.value
    BY DEF ExpectedTurn, Turn
  <2> QED BY <1>1, <1>2, <1>3, <2>1
<1>5. \A i \in 1..n - 1 : s.accepted[i].turn = NthTurn(i)
  BY DEF Shaped, EntryFits
<1> HIDE DEF n
<1>6. \A i \in 1..n : i = n \/ i \in 1..n - 1
  BY <1>1
<1> QED BY <1>1, <1>2, <1>4, <1>3, <1>5, <1>6 DEF AcceptedTurns, n

\* A judgement that is not a rejection settles the turn.
LEMMA JudgementIs ==
  ASSUME NEW stage, NEW answer, Judgement(stage, answer) # "malformed"
  PROVE  /\ Judgement(stage, answer) \in Verdicts
         /\ Judgement(stage, answer) = "saved" <=> stage # "review"
BY DEF Judgement, ParseReview, Verdicts

-----------------------------------------------------------------------------
(* Initial states                                                            *)

LEMMA InitIsInv == ASSUME Init PROVE TeamInv
<1>1. StoreInv
  BY NewSessionIsShaped DEF Init, StoreInv
<1>2. MailInv
  BY NewSessionIsShaped, ExpectedIsTurn DEF Init, MailInv
<1>3. coord = Idle /\ Idle \in CoordRecord
  BY NewSessionIsShaped, NoRunIsRunId DEF Init, Idle, CoordRecord, Steps
<1>4. CoordType
  BY <1>3, TeamAssumption DEF Init, CoordType, Idle
<1>5. UnusedRun \in RunRecord
  BY NoRunIsRunId DEF UnusedRun, RunRecord, Answers, NoAnswer
<1>6. RunsInv /\ RestInv
  BY <1>5, TeamAssumption DEF Init, RunsInv, RestInv
<1>7. CopyInv
  BY <1>3, NewSessionIsShaped DEF Init, CopyInv, Idle, Wins
<1>8. PublishedInv
  BY NewSessionIsShaped DEF Init, PublishedInv
<1>9. HandInv /\ RunInv
  BY <1>3 DEF HandInv, RunInv, Idle, Claimed, Working
<1> QED BY <1>1, <1>2, <1>4, <1>6, <1>7, <1>8, <1>9 DEF TeamInv, TypeInv, LedgerInv

-----------------------------------------------------------------------------
(* What steps of several actions have in common                              *)

\* A write of somebody who keeps the ledger: the copy of the coordinator loses.
LEMMA Outwritten ==
  ASSUME TeamInv, NEW s \in SessionRecord, Follows(s, session), Save(s), UNCHANGED coord
  PROVE  StoreInv' /\ CoordType' /\ CopyInv' /\ HandInv'
<1>1. revision \in Nat /\ coord.revision \in Nat /\ coord.revision <= revision
  BY TeamAssumption DEF TeamInv, TypeInv, StoreInv, CoordType, CoordRecord
<1>2. revision' = revision + 1 /\ session' = s /\ Shaped(s) /\ s.accepted = session.accepted
  BY ShapedKept DEF Save, TeamInv, LedgerInv, CopyInv, Follows, Alike
<1>3. StoreInv' /\ CoordType'
  BY <1>1, <1>2 DEF StoreInv, CoordType, TeamInv, TypeInv
<1>4. CopyInv'
  BY <1>1, <1>2 DEF CopyInv, Wins, TeamInv, LedgerInv
<1>5. HandInv'
  BY DEF HandInv, TeamInv, LedgerInv
<1> QED BY <1>3, <1>4, <1>5

\* A write of the coordinator that keeps the ledger.
LEMMA Written ==
  ASSUME TeamInv, NEW s \in SessionRecord, NEW c \in CoordRecord, Wins, Follows(s, coord.session),
         Save(s), coord' = c, c.session = s, c.revision = revision + 1
  PROVE  /\ StoreInv' /\ CoordType' /\ CopyInv'
         /\ session'.accepted = session.accepted
<1>1. revision \in Nat /\ coord.revision \in Nat /\ coord.revision <= revision
  BY TeamAssumption DEF TeamInv, TypeInv, StoreInv, CoordType, CoordRecord
<1>2. /\ revision' = revision + 1 /\ session' = s
      /\ Shaped(s) /\ s.accepted = session.accepted
  BY ShapedKept DEF Save, TeamInv, LedgerInv, CopyInv, Follows, Alike
<1> QED BY <1>1, <1>2 DEF StoreInv, CoordType, CopyInv

\* The coordinator drops what it holds.
LEMMA Dropped ==
  ASSUME TeamInv, NEW pc \in {"idle", "recovering"}, coord' = [Idle EXCEPT !.pc = pc],
         \/ UNCHANGED store
         \/ \E s \in SessionRecord : Save(s) /\ Follows(s, session)
  PROVE  StoreInv' /\ CoordType' /\ CopyInv' /\ HandInv' /\ RunInv'
<1>1. /\ coord' \in CoordRecord /\ coord'.pc = pc /\ coord'.revision = 0
      /\ coord'.session = NewSession
  BY NewSessionIsShaped, NoRunIsRunId DEF Idle, CoordRecord, Steps
<1>2. revision \in Nat \ {0} /\ revision' \in Nat \ {0} /\ session' \in SessionRecord /\ Shaped(session')
  BY ShapedKept DEF TeamInv, TypeInv, LedgerInv, StoreInv, CopyInv, Save, store
<1>3. StoreInv' /\ CoordType'
  BY <1>1, <1>2 DEF StoreInv, CoordType
<1>4. CopyInv'
  BY <1>1, <1>2, NewSessionIsShaped DEF CopyInv, Wins
<1>5. HandInv' /\ RunInv'
  BY <1>1 DEF HandInv, RunInv, Claimed, Working
<1> QED BY <1>3, <1>4, <1>5

\* The coordinator takes a step that leaves its copy alone.
LEMMA Moved ==
  ASSUME TeamInv, NEW c \in CoordRecord, coord' = c, UNCHANGED store,
         c.session = coord.session, c.revision = coord.revision,
         coord.pc \notin {"idle", "recovering"}
  PROVE  StoreInv' /\ CoordType' /\ CopyInv'
BY DEF TeamInv, TypeInv, LedgerInv, StoreInv, CoordType, CopyInv, Wins, store

LEMMA SameLedger ==
  ASSUME PublishedInv, UNCHANGED published, session'.accepted = session.accepted
  PROVE  PublishedInv'
BY DEF PublishedInv

-----------------------------------------------------------------------------
(* The coordinator's steps                                                   *)

LEMMA ReceiveStep ==
  ASSUME TeamInv, NEW t \in mailbox, Receive(t)
  PROVE  TeamInv'
<1> DEFINE c == [Idle EXCEPT !.pc = Decision(t), !.turn = t, !.revision = revision, !.session = session]
<1>1. /\ coord' = c /\ UNCHANGED <<store, mailbox, published, interrupting, trouble>>
      /\ runs' = [a \in Agents |-> Forgotten(runs[a])]
  BY DEF Receive
<1>2. t \in Turns /\ revision \in Nat \ {0} /\ session \in SessionRecord /\ Shaped(session)
  BY DEF TeamInv, TypeInv, LedgerInv, MailInv, StoreInv, CopyInv
<1>3. Decision(t) \in {"settle", "suppress", "fail", "claim"}
  BY DEF Decision
<1>4. /\ c \in CoordRecord /\ c.pc = Decision(t) /\ c.turn = t /\ c.revision = revision
      /\ c.session = session
  BY <1>2, <1>3, NewSessionIsShaped, NoRunIsRunId DEF Idle, CoordRecord, Steps
<1> HIDE DEF c
<1>5. \A a \in Agents : Forgotten(runs[a]) \in RunRecord
  BY NoRunIsRunId DEF TeamInv, TypeInv, RunsInv, RunRecord, Forgotten, UnusedRun, Answers, NoAnswer
<1>6. TypeInv'
  BY <1>1, <1>2, <1>4, <1>5
     DEF TeamInv, TypeInv, StoreInv, MailInv, CoordType, RunsInv, RestInv, store
<1>7. CopyInv' /\ PublishedInv'
  BY <1>1, <1>2, <1>4, SameLedger DEF TeamInv, LedgerInv, CopyInv, store
<1>8. c.pc # "settle" => session.status = "running"
  BY <1>4 DEF Decision
<1>9. c.pc = "claim" => t = ExpectedTurn(session) /\ Attempts(session, t) < MaxAttempts
  <2> SUFFICES ASSUME Decision(t) = "claim"
               PROVE  t = ExpectedTurn(session) /\ Attempts(session, t) < MaxAttempts
    BY <1>4
  <2>1. session.status = "running" /\ t.value = session.value /\ Attempts(session, t) + 1 <= MaxAttempts
    BY AttemptsIsNat, <1>2, TeamAssumption DEF Decision
  <2>2. \E i \in 1..Len(session.accepted) + 1 : t = NthTurn(i)
    BY DEF TeamInv, TypeInv, LedgerInv, MailInv, PublishedInv
  <2> QED BY <1>2, <2>1, <2>2, OpenTurn, AttemptsIsNat, TeamAssumption
<1>10. HandInv' /\ RunInv'
  BY <1>1, <1>3, <1>4, <1>8, <1>9 DEF HandInv, RunInv, Claimed, Working
<1> QED BY <1>6, <1>7, <1>10 DEF TeamInv, LedgerInv

LEMMA SuppressStep ==
  ASSUME TeamInv, SuppressDuplicate
  PROVE  TeamInv'
<1> DEFINE c == [coord EXCEPT !.pc = "publish", !.revision = revision + 1, !.session = coord.session]
<1>1. /\ coord.pc = "suppress" /\ Wins /\ Save(coord.session) /\ coord' = c
      /\ UNCHANGED <<mailbox, published, runs, interrupting, trouble>>
  BY DEF SuppressDuplicate, Commit
<1>2. coord \in CoordRecord /\ coord.session \in SessionRecord /\ revision \in Nat
  BY DEF TeamInv, TypeInv, CoordType, CoordRecord, StoreInv
<1>3. c \in CoordRecord /\ c.pc = "publish" /\ c.revision = revision + 1 /\ c.session = coord.session
  <2>1. "publish" \in Steps /\ revision + 1 \in Nat
    BY <1>2 DEF Steps
  <2> QED BY <1>2, <2>1 DEF CoordRecord
<1>4. Follows(coord.session, coord.session)
  BY DEF Follows, Alike
<1> HIDE DEF c
<1>5. StoreInv' /\ CoordType' /\ CopyInv' /\ PublishedInv'
  BY <1>1, <1>2, <1>3, <1>4, Written, SameLedger DEF TeamInv, LedgerInv
<1>6. TypeInv'
  BY <1>1, <1>5 DEF TeamInv, TypeInv, MailInv, RunsInv, RestInv
<1>7. HandInv' /\ RunInv'
  BY <1>1, <1>3 DEF HandInv, RunInv, Claimed, Working, TeamInv, LedgerInv
<1> QED BY <1>5, <1>6, <1>7 DEF TeamInv, LedgerInv

LEMMA ClaimStep ==
  ASSUME TeamInv, ClaimTurn
  PROVE  TeamInv'
<1> DEFINE s == Counted(coord.session, coord.turn)
           attempt == Attempts(s, coord.turn)
           id == [turn |-> coord.turn, attempt |-> attempt,
                  agent |-> AgentFor(coord.session, coord.turn.stage, attempt)]
           c == [coord EXCEPT !.pc = "start", !.run = id, !.revision = revision + 1, !.session = s]
<1>1. /\ coord.pc = "claim" /\ Wins /\ Save(s) /\ coord' = c
      /\ UNCHANGED <<mailbox, published, runs, interrupting, trouble>>
  BY DEF ClaimTurn
<1>2. /\ coord \in CoordRecord /\ coord.session \in SessionRecord /\ coord.turn \in Turns
      /\ revision \in Nat
  BY DEF TeamInv, TypeInv, CoordType, CoordRecord, StoreInv
<1>3. /\ coord.session.status = "running" /\ coord.turn = ExpectedTurn(coord.session)
      /\ Attempts(coord.session, coord.turn) < MaxAttempts
  BY <1>1 DEF TeamInv, LedgerInv, HandInv, Claimed, Working
<1>4. /\ s \in SessionRecord /\ Follows(s, coord.session) /\ s.status = "running"
      /\ attempt \in Nat \ {0}
  BY <1>2, <1>3, CountUpdate, AttemptsIsNat, TeamAssumption
<1>5. ExpectedTurn(s) = coord.turn /\ s.accepted = coord.session.accepted
  BY <1>3, <1>4 DEF Follows, Alike, ExpectedTurn
<1> HIDE DEF s, attempt
<1>6. id.agent \in Agents /\ id.agent = AgentFor(s, coord.turn.stage, attempt)
  <2>1. AgentFor(coord.session, coord.turn.stage, attempt) \in Agents
    BY <1>4, AgentForIs
  <2>2. AgentFor(coord.session, coord.turn.stage, attempt) = AgentFor(s, coord.turn.stage, attempt)
    BY <1>5, SameWorkers
  <2> QED BY <2>1, <2>2
<1>7. id \in RunIds /\ id.turn = coord.turn /\ id.attempt = attempt
  BY <1>2, <1>4, <1>6 DEF RunIds
<1> HIDE DEF id
<1>8. /\ c \in CoordRecord /\ c.pc = "start" /\ c.revision = revision + 1 /\ c.session = s
      /\ c.run = id /\ c.turn = coord.turn
  <2>1. "start" \in Steps /\ revision + 1 \in Nat
    BY <1>2 DEF Steps
  <2> QED BY <1>2, <1>4, <1>7, <2>1 DEF CoordRecord
<1> HIDE DEF c
<1>9. StoreInv' /\ CoordType' /\ CopyInv' /\ PublishedInv'
  BY <1>1, <1>4, <1>8, Written, SameLedger DEF TeamInv, LedgerInv
<1>10. TypeInv'
  BY <1>1, <1>9 DEF TeamInv, TypeInv, MailInv, RunsInv, RestInv
<1>11. HandInv'
  BY <1>1, <1>4, <1>5, <1>6, <1>7, <1>8 DEF HandInv, Claimed, Working
<1>12. RunInv'
  BY <1>1, <1>8 DEF RunInv, Working
<1> QED BY <1>9, <1>10, <1>11, <1>12 DEF TeamInv, LedgerInv

LEMMA StartStep ==
  ASSUME TeamInv, StartRun
  PROVE  TeamInv'
<1> DEFINE a == coord.run.agent
           prompt == Prompt(coord.session, coord.turn.stage)
           r == [id |-> coord.run, status |-> "active", answer |-> NoAnswer,
                 candidate |-> prompt.candidate, advice |-> prompt.advice]
           c == [coord EXCEPT !.pc = "record"]
<1>1. /\ coord.pc = "start" /\ coord' = c /\ runs' = [runs EXCEPT ![a] = r]
      /\ UNCHANGED <<store, mailbox, published, interrupting, trouble>>
  BY DEF StartRun, Goto
<1>2. coord \in CoordRecord /\ coord.session \in SessionRecord /\ coord.run \in RunIds
  BY DEF TeamInv, TypeInv, CoordType, CoordRecord
<1>3. /\ c \in CoordRecord /\ c.pc = "record" /\ c.revision = coord.revision
      /\ c.session = coord.session /\ c.run = coord.run /\ c.turn = coord.turn
  BY <1>2 DEF CoordRecord, Steps
<1>4. /\ r \in RunRecord /\ r.id = coord.run
      /\ r.candidate = prompt.candidate /\ r.advice = prompt.advice
  BY <1>2 DEF RunRecord, Answers, NoAnswer, Prompt, SessionRecord
<1>5. a \in Agents
  BY <1>1 DEF TeamInv, LedgerInv, HandInv, Claimed
<1> HIDE DEF c, r, a, prompt
<1>6. StoreInv' /\ CoordType' /\ CopyInv'
  BY <1>1, <1>3, Moved
<1>7. runs' \in [Agents -> RunRecord] /\ runs'[a] = r
  BY <1>1, <1>4, <1>5 DEF TeamInv, TypeInv, RunsInv
<1>8. TypeInv' /\ PublishedInv'
  BY <1>1, <1>6, <1>7, SameLedger
     DEF TeamInv, TypeInv, LedgerInv, MailInv, RunsInv, RestInv, store
<1>9. HandInv'
  BY <1>1, <1>3 DEF HandInv, Claimed, Working, TeamInv, LedgerInv
<1>10. RunInv'
  BY <1>1, <1>3, <1>4, <1>7 DEF RunInv, Working, a, prompt
<1> QED BY <1>6, <1>8, <1>9, <1>10 DEF TeamInv, LedgerInv

LEMMA RejectedStep ==
  ASSUME TeamInv, StartRejected
  PROVE  TeamInv'
<1> DEFINE c == [coord EXCEPT !.pc = GiveUp(coord.session)]
<1>1. /\ coord.pc = "start" /\ coord' = c
      /\ UNCHANGED <<store, mailbox, published, runs, interrupting, trouble>>
  BY DEF StartRejected, Goto
<1>2. coord \in CoordRecord /\ GiveUp(coord.session) \in {"fail", "retry"}
  BY DEF TeamInv, TypeInv, CoordType, GiveUp
<1>3. /\ c \in CoordRecord /\ c.pc \in {"fail", "retry"} /\ c.revision = coord.revision
      /\ c.session = coord.session
  BY <1>2 DEF CoordRecord, Steps
<1> HIDE DEF c
<1>4. StoreInv' /\ CoordType' /\ CopyInv'
  BY <1>1, <1>3, Moved
<1>5. TypeInv' /\ PublishedInv'
  BY <1>1, <1>4, SameLedger DEF TeamInv, TypeInv, LedgerInv, MailInv, RunsInv, RestInv, store
<1>6. HandInv' /\ RunInv'
  BY <1>1, <1>3 DEF HandInv, RunInv, Claimed, Working, TeamInv, LedgerInv
<1> QED BY <1>4, <1>5, <1>6 DEF TeamInv, LedgerInv

LEMMA RecordStep ==
  ASSUME TeamInv, RecordRun
  PROVE  TeamInv'
<1> DEFINE s == [coord.session EXCEPT !.active = coord.run]
           c == [coord EXCEPT !.pc = "wait", !.revision = revision + 1, !.session = s]
<1>1. /\ coord.pc = "record" /\ Wins /\ Save(s) /\ coord' = c
      /\ UNCHANGED <<mailbox, published, runs, interrupting, trouble>>
  BY DEF RecordRun, Commit
<1>2. /\ coord \in CoordRecord /\ coord.session \in SessionRecord /\ coord.run \in RunIds
      /\ revision \in Nat
  BY DEF TeamInv, TypeInv, CoordType, CoordRecord, StoreInv
<1>3. s \in SessionRecord /\ Follows(s, coord.session) /\ s.status = coord.session.status
  BY <1>2, RunUpdate
<1>4. s.accepted = coord.session.accepted /\ ExpectedTurn(s) = ExpectedTurn(coord.session)
      /\ \A stage : Prompt(s, stage) = Prompt(coord.session, stage)
  BY <1>3 DEF Follows, Alike, ExpectedTurn, Prompt
<1> HIDE DEF s
<1>5. /\ c \in CoordRecord /\ c.pc = "wait" /\ c.revision = revision + 1 /\ c.session = s
      /\ c.run = coord.run /\ c.turn = coord.turn
  <2>1. "wait" \in Steps /\ revision + 1 \in Nat
    BY <1>2 DEF Steps
  <2> QED BY <1>2, <1>3, <2>1 DEF CoordRecord
<1> HIDE DEF c
<1>6. StoreInv' /\ CoordType' /\ CopyInv' /\ PublishedInv'
  BY <1>1, <1>3, <1>5, Written, SameLedger DEF TeamInv, LedgerInv
<1>7. TypeInv'
  BY <1>1, <1>6 DEF TeamInv, TypeInv, MailInv, RunsInv, RestInv
<1>8. \A stage, m : AgentFor(s, stage, m) = AgentFor(coord.session, stage, m)
  BY <1>4, SameWorkers
<1>9. HandInv'
  BY <1>1, <1>3, <1>4, <1>5, <1>8 DEF HandInv, Claimed, Working, TeamInv, LedgerInv
<1>10. RunInv'
  BY <1>1, <1>4, <1>5 DEF RunInv, Working, TeamInv, LedgerInv
<1> QED BY <1>6, <1>7, <1>9, <1>10 DEF TeamInv, LedgerInv

\* A run that is over is left alone, one that goes on keeps its identity.
Touched ==
  /\ runs' \in [Agents -> RunRecord]
  /\ \A a \in Agents :
       \/ runs'[a] = runs[a]
       \/ /\ runs[a].status = "active" /\ runs'[a].id = runs[a].id
          /\ runs'[a].candidate = runs[a].candidate /\ runs'[a].advice = runs[a].advice

LEMMA CancelTouches ==
  ASSUME RunsInv, NEW id, CancelRun(id)
  PROVE  Touched
<1>1. CASE runs' = runs
  BY <1>1 DEF Touched, RunsInv
<1>2. CASE /\ id.agent \in Agents /\ runs[id.agent].status = "active"
           /\ runs' = [runs EXCEPT ![id.agent].status = "cancelled"]
  <2>1. runs[id.agent] \in RunRecord
    BY <1>2 DEF RunsInv
  <2> DEFINE r == [runs[id.agent] EXCEPT !.status = "cancelled"]
  <2>2. /\ r \in RunRecord /\ r.id = runs[id.agent].id
        /\ r.candidate = runs[id.agent].candidate /\ r.advice = runs[id.agent].advice
    BY <2>1 DEF RunRecord
  <2>3. runs' = [runs EXCEPT ![id.agent] = r]
    BY <1>2
  <2> HIDE DEF r
  <2> QED BY <1>2, <2>2, <2>3 DEF RunsInv, Touched
<1> QED BY <1>1, <1>2 DEF CancelRun

LEMMA RecordLostStep ==
  ASSUME TeamInv, RecordLost
  PROVE  TeamInv'
<1>1. CASE session.status = "cancelled"
  <2> DEFINE c == [coord EXCEPT !.pc = "settle"]
  <2>1. /\ coord.pc = "record" /\ coord' = c /\ CancelRun(coord.run)
        /\ UNCHANGED <<store, mailbox, published, interrupting, trouble>>
    BY <1>1 DEF RecordLost, Goto
  <2>2. coord \in CoordRecord
    BY DEF TeamInv, TypeInv, CoordType
  <2>3. /\ c \in CoordRecord /\ c.pc = "settle" /\ c.revision = coord.revision
        /\ c.session = coord.session
    BY <2>2 DEF CoordRecord, Steps
  <2> HIDE DEF c
  <2>4. StoreInv' /\ CoordType' /\ CopyInv'
    BY <2>1, <2>3, Moved
  <2>5. RunsInv'
    BY <2>1, CancelTouches DEF Touched, TeamInv, TypeInv, RunsInv
  <2>6. TypeInv' /\ PublishedInv'
    BY <2>1, <2>4, <2>5, SameLedger DEF TeamInv, TypeInv, LedgerInv, MailInv, RestInv, store
  <2>7. HandInv' /\ RunInv'
    BY <2>1, <2>3 DEF HandInv, RunInv, Claimed, Working
  <2> QED BY <2>4, <2>6, <2>7 DEF TeamInv, LedgerInv
<1>2. CASE session.status # "cancelled"
  <2>1. /\ coord' = Idle
        /\ UNCHANGED <<store, mailbox, published, runs, interrupting, trouble>>
    BY <1>2 DEF RecordLost
  <2>2. Idle = [Idle EXCEPT !.pc = "idle"]
    BY DEF Idle
  <2>3. StoreInv' /\ CoordType' /\ CopyInv' /\ HandInv' /\ RunInv'
    BY <2>1, <2>2, Dropped
  <2> QED BY <2>1, <2>3, SameLedger
          DEF TeamInv, TypeInv, LedgerInv, MailInv, RunsInv, RestInv, store
<1> QED BY <1>1, <1>2

LEMMA WaitStep ==
  ASSUME TeamInv, WaitForRun
  PROVE  TeamInv'
<1> DEFINE r == runs[coord.run.agent]
           how == IF r.status = "completed" THEN "completed" ELSE "failed"
           c == [coord EXCEPT !.pc = "reread", !.outcome = how]
<1>1. /\ coord.pc = "wait" /\ coord' = c
      /\ UNCHANGED <<store, mailbox, published, runs, interrupting, trouble>>
  BY DEF WaitForRun
<1>2. coord \in CoordRecord /\ how \in {"completed", "failed"}
      /\ (how = "completed" => r.status = "completed")
  BY DEF TeamInv, TypeInv, CoordType
<1> HIDE DEF how
<1>3. /\ c \in CoordRecord /\ c.pc = "reread" /\ c.revision = coord.revision
      /\ c.session = coord.session /\ c.run = coord.run /\ c.turn = coord.turn /\ c.outcome = how
  BY <1>2 DEF CoordRecord, Steps
<1> HIDE DEF c
<1>4. StoreInv' /\ CoordType' /\ CopyInv'
  BY <1>1, <1>3, Moved
<1>5. TypeInv' /\ PublishedInv'
  BY <1>1, <1>4, SameLedger DEF TeamInv, TypeInv, LedgerInv, MailInv, RunsInv, RestInv, store
<1>6. HandInv'
  BY <1>1, <1>3 DEF HandInv, Claimed, Working, TeamInv, LedgerInv
<1>7. RunInv'
  BY <1>1, <1>2, <1>3 DEF RunInv, Working, TeamInv, LedgerInv
<1> QED BY <1>4, <1>5, <1>6, <1>7 DEF TeamInv, LedgerInv

LEMMA TimeOutStep ==
  ASSUME TeamInv, TimeOut
  PROVE  TeamInv'
<1> DEFINE c == [coord EXCEPT !.pc = "reread", !.outcome = "failed"]
<1>1. /\ coord.pc = "wait" /\ coord' = c
      /\ UNCHANGED <<store, mailbox, published, interrupting>>
  BY DEF TimeOut
<1>2. coord \in CoordRecord /\ RunsInv
  BY DEF TeamInv, TypeInv, CoordType
<1>3. Touched /\ trouble' \in 0..MaxTrouble
  BY <1>2, CancelTouches, TeamAssumption
     DEF TimeOut, Trouble, Touched, RunsInv, TeamInv, TypeInv, RestInv
<1>4. /\ c \in CoordRecord /\ c.pc = "reread" /\ c.revision = coord.revision
      /\ c.session = coord.session /\ c.run = coord.run /\ c.turn = coord.turn
      /\ c.outcome = "failed"
  BY <1>2 DEF CoordRecord, Steps
<1> HIDE DEF c
<1>5. StoreInv' /\ CoordType' /\ CopyInv'
  BY <1>1, <1>4, Moved
<1>6. TypeInv' /\ PublishedInv'
  BY <1>1, <1>3, <1>5, SameLedger
     DEF TeamInv, TypeInv, LedgerInv, MailInv, RunsInv, RestInv, Touched, store
<1>7. HandInv'
  BY <1>1, <1>4 DEF HandInv, Claimed, Working, TeamInv, LedgerInv
<1>8. coord.run.agent \in Agents
  BY <1>1 DEF HandInv, Claimed, Working, TeamInv, LedgerInv
<1>9. /\ runs'[coord.run.agent].id = runs[coord.run.agent].id
      /\ runs'[coord.run.agent].candidate = runs[coord.run.agent].candidate
      /\ runs'[coord.run.agent].advice = runs[coord.run.agent].advice
  BY <1>3, <1>8 DEF Touched
<1>10. RunInv'
  BY <1>1, <1>4, <1>9 DEF RunInv, Working, TeamInv, LedgerInv
<1> QED BY <1>5, <1>6, <1>7, <1>10 DEF TeamInv, LedgerInv

LEMMA RereadStep ==
  ASSUME TeamInv, Reread
  PROVE  TeamInv'
<1> DEFINE verdict == Judgement(coord.turn.stage, runs[coord.run.agent].answer)
<1>1. /\ coord.pc = "reread" /\ UNCHANGED <<store, mailbox, published, runs, interrupting, trouble>>
      /\ coord \in CoordRecord /\ session \in SessionRecord /\ revision \in Nat
      /\ Shaped(session) /\ coord.session.status = "running"
  BY DEF Reread, TeamInv, TypeInv, CoordType, StoreInv, LedgerInv, CopyInv, HandInv
<1>2. ASSUME StoreInv', CoordType', CopyInv', HandInv', RunInv'
      PROVE  TeamInv'
  BY <1>1, <1>2, SameLedger
     DEF TeamInv, TypeInv, LedgerInv, MailInv, RunsInv, RestInv, store
<1>3. \A s : GiveUp(s) \in {"fail", "retry"}
  BY DEF GiveUp
<1>4. CASE session.status # "running"
  <2> DEFINE c == [coord EXCEPT !.pc = "settle"]
  <2>1. coord' = c
    BY <1>4 DEF Reread
  <2>2. /\ c \in CoordRecord /\ c.pc = "settle" /\ c.revision = coord.revision
        /\ c.session = coord.session
    BY <1>1 DEF CoordRecord, Steps
  <2> HIDE DEF c
  <2>3. StoreInv' /\ CoordType' /\ CopyInv'
    BY <1>1, <2>1, <2>2, Moved
  <2>4. HandInv' /\ RunInv'
    BY <2>1, <2>2 DEF HandInv, RunInv, Claimed, Working
  <2> QED BY <1>2, <2>3, <2>4
<1>5. CASE session.status = "running" /\ ~Wins /\ coord.outcome # "completed" /\ Interrupted
  <2> DEFINE c == [coord EXCEPT !.pc = GiveUp(session), !.revision = revision, !.session = session]
  <2>1. coord' = c
    BY <1>5 DEF Reread
  <2>2. /\ c \in CoordRecord /\ c.pc \in {"fail", "retry"} /\ c.revision = revision
        /\ c.session = session
    BY <1>1, <1>3 DEF CoordRecord, Steps
  <2> HIDE DEF c
  <2>3. StoreInv' /\ CoordType' /\ CopyInv'
    BY <1>1, <2>1, <2>2 DEF TeamInv, TypeInv, StoreInv, CoordType, CopyInv, store
  <2>4. HandInv' /\ RunInv'
    BY <1>5, <2>1, <2>2 DEF HandInv, RunInv, Claimed, Working
  <2> QED BY <1>2, <2>3, <2>4
<1>6. CASE session.status = "running" /\ ~Wins /\ ~(coord.outcome # "completed" /\ Interrupted)
  <2>1. coord' = Idle /\ Idle = [Idle EXCEPT !.pc = "idle"]
    BY <1>6 DEF Reread, Idle
  <2>2. StoreInv' /\ CoordType' /\ CopyInv' /\ HandInv' /\ RunInv'
    BY <1>1, <2>1, Dropped
  <2> QED BY <1>2, <2>2
<1>7. CASE session.status = "running" /\ Wins /\ coord.outcome # "completed"
  <2> DEFINE c == [coord EXCEPT !.pc = GiveUp(coord.session)]
  <2>1. coord' = c
    BY <1>7 DEF Reread
  <2>2. /\ c \in CoordRecord /\ c.pc \in {"fail", "retry"} /\ c.revision = coord.revision
        /\ c.session = coord.session
    BY <1>1, <1>3 DEF CoordRecord, Steps
  <2> HIDE DEF c
  <2>3. StoreInv' /\ CoordType' /\ CopyInv'
    BY <1>1, <2>1, <2>2, Moved
  <2>4. HandInv' /\ RunInv'
    BY <1>1, <2>1, <2>2 DEF HandInv, RunInv, Claimed, Working
  <2> QED BY <1>2, <2>3, <2>4
<1>8. CASE session.status = "running" /\ Wins /\ coord.outcome = "completed"
  <2> DEFINE pc == IF verdict = "malformed" THEN GiveUp(coord.session) ELSE "accept"
             c == [coord EXCEPT !.outcome = verdict, !.pc = pc]
  <2>1. coord' = c
    BY <1>8 DEF Reread
  <2>2. /\ pc \in {"fail", "retry", "accept"} /\ (pc = "accept" => verdict # "malformed")
        /\ verdict \in Verdicts \cup {"malformed"}
    BY <1>3, JudgementIs
  <2> HIDE DEF pc, verdict
  <2>3. /\ c \in CoordRecord /\ c.pc = pc /\ c.revision = coord.revision /\ c.outcome = verdict
        /\ c.session = coord.session /\ c.run = coord.run /\ c.turn = coord.turn
    BY <1>1, <2>2 DEF CoordRecord, Steps
  <2> HIDE DEF c
  <2>4. StoreInv' /\ CoordType' /\ CopyInv'
    BY <1>1, <2>1, <2>3, Moved
  <2>5. HandInv'
    BY <1>1, <2>1, <2>2, <2>3 DEF HandInv, Claimed, Working, TeamInv, LedgerInv
  <2>6. RunInv'
    BY <1>1, <1>8, <2>1, <2>2, <2>3 DEF RunInv, Working, TeamInv, LedgerInv, verdict
  <2> QED BY <1>2, <2>4, <2>5, <2>6
<1> QED BY <1>4, <1>5, <1>6, <1>7, <1>8

LEMMA PublishStep ==
  ASSUME TeamInv, PublishExpected
  PROVE  TeamInv'
<1> DEFINE t == ExpectedTurn(coord.session)
           c == IF coord.turn = NoRun.turn THEN Idle ELSE [coord EXCEPT !.pc = "settle"]
<1>1. /\ coord.pc = "publish" /\ Publish(t) /\ coord' = c
      /\ UNCHANGED <<store, runs, interrupting, trouble>>
  BY DEF PublishExpected
<1>2. coord \in CoordRecord /\ coord.session \in SessionRecord
  BY DEF TeamInv, TypeInv, CoordType, CoordRecord
<1>3. MailInv'
  BY <1>1, <1>2, ExpectedIsTurn DEF Publish, MailInv, TeamInv, TypeInv
<1>4. PublishedInv'
  <2>1. coord.session.status = "running" /\ Shaped(coord.session)
        /\ coord.session.accepted = session.accepted
    BY <1>1 DEF TeamInv, LedgerInv, CopyInv, HandInv
  <2>2. Len(session.accepted) + 1 \in Nat \ {0} /\ t = NthTurn(Len(session.accepted) + 1)
    BY <1>2, <2>1, OpenTurn
  <2>3. session' = session /\ published' = published \cup {t}
    BY <1>1 DEF Publish, store
  <2> HIDE DEF t
  <2> QED BY <2>2, <2>3 DEF PublishedInv, TeamInv, LedgerInv
<1>5. StoreInv' /\ CoordType' /\ CopyInv' /\ HandInv' /\ RunInv'
  <2>1. CASE coord.turn = NoRun.turn
    <3>1. c = [Idle EXCEPT !.pc = "idle"]
      BY <2>1 DEF Idle
    <3> QED BY <1>1, <3>1, Dropped
  <2>2. CASE coord.turn # NoRun.turn
    <3>1. /\ c \in CoordRecord /\ c.pc = "settle" /\ c.revision = coord.revision
          /\ c.session = coord.session
      BY <1>2, <2>2 DEF CoordRecord, Steps
    <3> HIDE DEF c
    <3>2. StoreInv' /\ CoordType' /\ CopyInv'
      BY <1>1, <3>1, Moved
    <3>3. HandInv' /\ RunInv'
      BY <1>1, <3>1 DEF HandInv, RunInv, Claimed, Working
    <3> QED BY <3>2, <3>3
  <2> QED BY <2>1, <2>2
<1> QED BY <1>1, <1>3, <1>4, <1>5 DEF TeamInv, TypeInv, LedgerInv, RunsInv, RestInv

LEMMA DeliveryThrowsStep ==
  ASSUME TeamInv, DeliveryThrows
  PROVE  TeamInv'
<1>1. /\ coord' = Idle /\ Idle = [Idle EXCEPT !.pc = "idle"] /\ Trouble
      /\ UNCHANGED <<store, mailbox, published, runs, interrupting>>
  BY DEF DeliveryThrows, Idle
<1>2. StoreInv' /\ CoordType' /\ CopyInv' /\ HandInv' /\ RunInv'
  BY <1>1, Dropped
<1>3. trouble' \in 0..MaxTrouble
  BY <1>1, TeamAssumption DEF Trouble, TeamInv, TypeInv, RestInv
<1> QED BY <1>1, <1>2, <1>3, SameLedger
        DEF TeamInv, TypeInv, LedgerInv, MailInv, RunsInv, RestInv, store

LEMMA SettleStep ==
  ASSUME TeamInv, Settle
  PROVE  TeamInv'
<1>1. /\ coord' = Idle /\ Idle = [Idle EXCEPT !.pc = "idle"] /\ mailbox' = mailbox \ {coord.turn}
      /\ UNCHANGED <<store, published, runs, interrupting, trouble>>
  BY DEF Settle, Idle
<1>2. StoreInv' /\ CoordType' /\ CopyInv' /\ HandInv' /\ RunInv'
  BY <1>1, Dropped
<1> QED BY <1>1, <1>2, SameLedger
        DEF TeamInv, TypeInv, LedgerInv, MailInv, RunsInv, RestInv, store

LEMMA RetryStep ==
  ASSUME TeamInv, RetryTurn
  PROVE  TeamInv'
<1> DEFINE s == [coord.session EXCEPT !.active = NoRun]
<1>1. /\ coord' = Idle /\ Idle = [Idle EXCEPT !.pc = "idle"] /\ Wins /\ Save(s)
      /\ UNCHANGED <<mailbox, published, runs, interrupting, trouble>>
  BY DEF RetryTurn, Idle
<1>2. coord.session \in SessionRecord /\ coord.session = session
  BY <1>1 DEF TeamInv, TypeInv, CoordType, CoordRecord, LedgerInv, CopyInv
<1>3. s \in SessionRecord /\ Follows(s, session)
  BY <1>2, RunUpdate, NoRunIsRunId
<1> HIDE DEF s
<1>4. StoreInv' /\ CoordType' /\ CopyInv' /\ HandInv' /\ RunInv'
  BY <1>1, <1>3, Dropped
<1>5. PublishedInv'
  BY <1>1, <1>3, SameLedger DEF TeamInv, LedgerInv, Save, Follows, Alike
<1> QED BY <1>1, <1>4, <1>5 DEF TeamInv, TypeInv, LedgerInv, MailInv, RunsInv, RestInv

LEMMA FailStep ==
  ASSUME TeamInv, FailSession
  PROVE  TeamInv'
<1> DEFINE s == [coord.session EXCEPT !.active = NoRun, !.status = "failed"]
           c == [coord EXCEPT !.pc = "settle", !.revision = revision + 1, !.session = s]
<1>1. /\ coord.pc = "fail" /\ Wins /\ Save(s) /\ coord' = c
      /\ UNCHANGED <<mailbox, published, runs, interrupting, trouble>>
  BY DEF FailSession, Commit
<1>2. /\ coord \in CoordRecord /\ coord.session \in SessionRecord /\ revision \in Nat
      /\ coord.session.status = "running"
  BY <1>1 DEF TeamInv, TypeInv, CoordType, CoordRecord, StoreInv, LedgerInv, HandInv
<1>3. s \in SessionRecord /\ Follows(s, coord.session)
  BY <1>2, FailUpdate, NoRunIsRunId
<1> HIDE DEF s
<1>4. c \in CoordRecord /\ c.pc = "settle" /\ c.revision = revision + 1 /\ c.session = s
  <2>1. "settle" \in Steps /\ revision + 1 \in Nat
    BY <1>2 DEF Steps
  <2> QED BY <1>2, <1>3, <2>1 DEF CoordRecord
<1> HIDE DEF c
<1>5. StoreInv' /\ CoordType' /\ CopyInv' /\ PublishedInv'
  BY <1>1, <1>3, <1>4, Written, SameLedger DEF TeamInv, LedgerInv
<1>6. TypeInv'
  BY <1>1, <1>5 DEF TeamInv, TypeInv, MailInv, RunsInv, RestInv
<1>7. HandInv' /\ RunInv'
  BY <1>1, <1>4 DEF HandInv, RunInv, Claimed, Working
<1> QED BY <1>5, <1>6, <1>7 DEF TeamInv, LedgerInv

LEMMA LoseStep ==
  ASSUME TeamInv, LoseRace
  PROVE  TeamInv'
<1>1. /\ coord' = Idle /\ Idle = [Idle EXCEPT !.pc = "idle"]
      /\ UNCHANGED <<store, mailbox, published, runs, interrupting, trouble>>
  BY DEF LoseRace, Idle
<1>2. StoreInv' /\ CoordType' /\ CopyInv' /\ HandInv' /\ RunInv'
  BY <1>1, Dropped
<1> QED BY <1>1, <1>2, SameLedger
        DEF TeamInv, TypeInv, LedgerInv, MailInv, RunsInv, RestInv, store

LEMMA RecoverStep ==
  ASSUME TeamInv, RecoverSession
  PROVE  TeamInv'
<1> DEFINE s == [session EXCEPT !.active = NoRun]
           c == [coord EXCEPT !.pc = "publish", !.revision = revision + 1, !.session = s]
<1>1. /\ coord.pc = "recovering" /\ UNCHANGED <<mailbox, published, runs, interrupting, trouble>>
      /\ coord \in CoordRecord /\ session \in SessionRecord /\ Shaped(session) /\ revision \in Nat \ {0}
  BY DEF RecoverSession, TeamInv, TypeInv, CoordType, StoreInv, LedgerInv, CopyInv
<1>2. CASE session.status = "running"
  <2>1. Save(s) /\ coord' = c
    BY <1>2 DEF RecoverSession
  <2>2. s \in SessionRecord /\ Follows(s, session) /\ s.status = "running" /\ Shaped(s)
    BY <1>1, <1>2, RunUpdate, NoRunIsRunId, ShapedKept
  <2> HIDE DEF s
  <2>3. c \in CoordRecord /\ c.pc = "publish" /\ c.revision = revision + 1 /\ c.session = s
    <3>1. "publish" \in Steps /\ revision + 1 \in Nat \ {0}
      BY <1>1 DEF Steps
    <3> QED BY <1>1, <2>2, <3>1 DEF CoordRecord
  <2> HIDE DEF c
  <2>4. StoreInv' /\ CoordType' /\ CopyInv'
    BY <1>1, <2>1, <2>2, <2>3 DEF Save, StoreInv, CoordType, CopyInv
  <2>5. PublishedInv'
    BY <1>1, <2>1, <2>2, SameLedger DEF TeamInv, LedgerInv, Save, Follows, Alike
  <2>6. HandInv' /\ RunInv'
    BY <2>1, <2>2, <2>3 DEF HandInv, RunInv, Claimed, Working
  <2> QED BY <1>1, <2>4, <2>5, <2>6 DEF TeamInv, TypeInv, LedgerInv, MailInv, RunsInv, RestInv
<1>3. CASE session.status # "running"
  <2>1. coord' = Idle /\ Idle = [Idle EXCEPT !.pc = "idle"] /\ UNCHANGED store
    BY <1>3 DEF RecoverSession, Idle
  <2>2. StoreInv' /\ CoordType' /\ CopyInv' /\ HandInv' /\ RunInv'
    BY <2>1, Dropped
  <2> QED BY <1>1, <2>1, <2>2, SameLedger
          DEF TeamInv, TypeInv, LedgerInv, MailInv, RunsInv, RestInv, store
<1> QED BY <1>2, <1>3

\* What an accepted answer does to the session: the ledger grows by the entry of
\* its turn and goes on to the next turn, or ends.
LEMMA AcceptedSession ==
  ASSUME NEW s \in SessionRecord, Shaped(s), s.status = "running",
         coord.turn = ExpectedTurn(s), NEW e \in Entry,
         e.turn = coord.turn, e.verdict = coord.outcome,
         e.verdict = "saved" <=> coord.turn.stage # "review",
         e.candidate = Prompt(s, coord.turn.stage).candidate,
         e.advice = Prompt(s, coord.turn.stage).advice,
         NEW u, u = [s EXCEPT !.active = NoRun, !.accepted = Append(@, e)],
         NEW next, next = (IF coord.turn.stage = "review" THEN AppliesReview(u) ELSE SavesArtifact(u))
  PROVE  /\ next \in SessionRecord /\ Shaped(next)
         /\ next.accepted = Append(s.accepted, e)
         /\ next.attempts = s.attempts
<1>1. Len(s.accepted) + 1 \in Nat \ {0} /\ s.accepted \in Seq(Entry)
  BY DEF SessionRecord
<1>2. PICK n \in Nat \ {0} : n = Len(s.accepted) + 1
  BY <1>1
<1>3. coord.turn = NthTurn(n) /\ s.value = n /\ s.accepted \in Seq(Entry)
  BY <1>1, <1>2, OpenTurn
<1>4. /\ Append(s.accepted, e) \in Seq(Entry) /\ Len(Append(s.accepted, e)) = n
      /\ Append(s.accepted, e)[n] = e
      /\ \A i \in 1..n - 1 : Append(s.accepted, e)[i] = s.accepted[i]
  BY <1>3, <1>2
<1> DEFINE ledger == Append(s.accepted, e)
<1>5. /\ u \in SessionRecord /\ u.accepted = ledger /\ u.attempts = s.attempts /\ u.status = "running"
      /\ u.stage = s.stage /\ u.value = s.value /\ u.version = s.version /\ u.feedback = s.feedback
  BY <1>4, NoRunIsRunId DEF SessionRecord
<1>6. /\ coord.turn.value = n /\ coord.turn.stage = s.stage /\ coord.turn.revision = s.version
      /\ s.version \in Nat /\ s.stage \in Stages
      /\ (s.stage = "revise" => s.feedback = s.version)
  <2>1. coord.turn = Turn(s.value, s.stage, s.version)
    BY DEF ExpectedTurn
  <2>2. NthTurn(n).stage \in Stages
    BY <1>3, NextTurn
  <2> QED BY <1>3, <2>1, <2>2 DEF Turn, Shaped, SessionRecord
<1>7. PICK t : t = coord.turn
  OBVIOUS
<1>8. /\ t = NthTurn(n) /\ t.value = n /\ t.stage = s.stage /\ t.revision = s.version
      /\ (t.stage = "review" <=> (n % 2) = 0)
      /\ (t.stage = "draft" => s.version = 0 /\ NthTurn(n + 1) = Turn(n + 1, "review", 1))
      /\ (t.stage = "review" => NthTurn(n + 1) = Turn(n + 1, "revise", s.version))
      /\ (t.stage = "revise" => NthTurn(n + 1) = Turn(n + 1, "review", s.version + 1))
  BY <1>3, <1>6, <1>7, NextTurn
<1>9. /\ e.turn = NthTurn(n) /\ e.candidate = e.turn.revision
      /\ e.advice = (IF e.turn.stage = "revise" THEN e.turn.revision ELSE 0)
      /\ (e.verdict = "saved" <=> e.turn.stage # "review")
  BY <1>6, <1>7, <1>8 DEF Prompt
<1>10. \A i \in 1..n - 1 : EntryFits(s, i)
  BY <1>3, <1>2 DEF Shaped
<1> HIDE DEF ledger
\* The entries keep fitting whatever else the session has become.
<1>11. ASSUME next.accepted = ledger, next.status = "completed" <=> e.verdict = "PASS"
      PROVE  \A i \in 1..Len(next.accepted) : EntryFits(next, i)
  <2>1. Len(next.accepted) = n /\ ledger[n] = e /\ \A i \in 1..n - 1 : ledger[i] = s.accepted[i]
    BY <1>4, <1>11 DEF ledger
  <2>2. ASSUME NEW i \in 1..n - 1
        PROVE  EntryFits(next, i)
    <3>1. i # n
      BY <1>3
    <3>2. s.accepted[i].verdict # "PASS"
      BY <1>10 DEF EntryFits
    <3> QED BY <1>10, <1>11, <2>1, <3>1, <3>2 DEF EntryFits
  <2>3. EntryFits(next, n)
    BY <1>9, <1>11, <2>1 DEF EntryFits
  <2> QED BY <1>3, <2>1, <2>2, <2>3
<1>12. CASE t.stage # "review"
  <2>1. next = SavesArtifact(u) /\ t.stage \in {"draft", "revise"} /\ e.verdict = "saved"
    BY <1>6, <1>7, <1>8, <1>12 DEF Stages
  <2>2. PICK v \in Nat : v = IF t.stage = "draft" THEN 1 ELSE s.version + 1
    BY <1>6
  <2>3. next = [u EXCEPT !.version = v, !.feedback = 0, !.value = n + 1, !.stage = "review"]
    BY <1>5, <1>6, <1>7, <1>8, <2>1, <2>2 DEF SavesArtifact
  <2>4. /\ next \in SessionRecord /\ next.accepted = ledger /\ next.attempts = s.attempts
        /\ next.status = "running" /\ next.stage = "review" /\ next.value = n + 1
        /\ next.version = v
    <3>1. u \in SessionRecord /\ n + 1 \in Nat
      BY <1>5
    <3>2. next \in SessionRecord
      BY ONLY <3>1, <2>3 DEF SessionRecord, Stages
    <3>3. /\ next.accepted = u.accepted /\ next.attempts = u.attempts /\ next.status = u.status
          /\ next.stage = "review" /\ next.value = n + 1 /\ next.version = v
      BY ONLY <3>1, <2>3 DEF SessionRecord
    <3> QED BY <1>5, <3>2, <3>3
  <2>5. ExpectedTurn(next) = NthTurn(n + 1)
    BY <1>8, <2>1, <2>4, <2>2 DEF ExpectedTurn
  <2> QED BY <1>4, <1>11, <2>1, <2>4, <2>5 DEF Shaped, ledger
<1>13. CASE t.stage = "review" /\ coord.outcome = "PASS"
  <2>1. next = AppliesReview(u) /\ e.verdict = "PASS"
    BY <1>7, <1>13
  <2>2. next = [u EXCEPT !.feedback = s.version, !.status = "completed", !.stage = "none"]
    BY <1>5, <1>13, <2>1 DEF AppliesReview
  <2>3. /\ next \in SessionRecord /\ next.accepted = ledger /\ next.attempts = s.attempts
        /\ next.status = "completed"
    <3>1. u \in SessionRecord /\ s.version \in Nat
      BY <1>5, <1>6
    <3>2. next \in SessionRecord
      BY ONLY <3>1, <2>2 DEF SessionRecord
    <3>3. /\ next.status = "completed"
          /\ next.accepted = u.accepted /\ next.attempts = u.attempts
      BY ONLY <3>1, <2>2 DEF SessionRecord
    <3> QED BY <1>5, <3>2, <3>3
  <2>4. ledger # << >> /\ (Len(ledger) % 2) = 0
    BY <1>3, <1>4, <1>8, <1>13 DEF ledger
  <2> QED BY <1>11, <2>1, <2>3, <2>4 DEF Shaped, ledger
<1>14. CASE t.stage = "review" /\ coord.outcome # "PASS" /\ s.version - 1 >= MaxRevisions
  <2>1. next = AppliesReview(u) /\ e.verdict # "PASS"
    BY <1>7, <1>14
  <2>2. next = [u EXCEPT !.feedback = s.version, !.status = "failed"]
    BY <1>5, <1>14, <2>1 DEF AppliesReview
  <2>3. /\ next \in SessionRecord /\ next.accepted = ledger /\ next.attempts = s.attempts
        /\ next.status = "failed"
    BY <1>5, <1>6, <2>2 DEF SessionRecord
  <2> QED BY <1>11, <2>1, <2>3 DEF Shaped, ledger
<1>15. CASE t.stage = "review" /\ coord.outcome # "PASS" /\ ~(s.version - 1 >= MaxRevisions)
  <2>1. next = AppliesReview(u) /\ e.verdict # "PASS"
    BY <1>7, <1>15
  <2>2. next = [u EXCEPT !.feedback = s.version, !.value = n + 1, !.stage = "revise"]
    BY <1>5, <1>6, <1>15, <2>1 DEF AppliesReview
  <2>3. /\ next \in SessionRecord /\ next.accepted = ledger /\ next.attempts = s.attempts
        /\ next.status = "running" /\ next.stage = "revise" /\ next.value = n + 1
        /\ next.version = s.version /\ next.feedback = s.version
    <3>1. u \in SessionRecord /\ n + 1 \in Nat /\ s.version \in Nat
      BY <1>5, <1>6
    <3>2. next \in SessionRecord
      BY ONLY <3>1, <2>2 DEF SessionRecord, Stages
    <3>3. /\ next.accepted = u.accepted /\ next.attempts = u.attempts /\ next.status = u.status
          /\ next.stage = "revise" /\ next.value = n + 1 /\ next.version = u.version
          /\ next.feedback = s.version
      BY ONLY <3>1, <2>2 DEF SessionRecord
    <3> QED BY <1>5, <3>2, <3>3
  <2>4. ExpectedTurn(next) = NthTurn(n + 1)
    BY <1>8, <1>15, <2>3 DEF ExpectedTurn
  <2> QED BY <1>4, <1>11, <2>1, <2>3, <2>4 DEF Shaped, ledger
<1> QED BY <1>12, <1>13, <1>14, <1>15

\* What an acceptance writes, in terms of the stored session.
LEMMA AcceptWrites ==
  ASSUME TeamInv, AcceptTeamTask
  PROVE  LET r == runs[coord.run.agent]
             e == [turn |-> coord.turn, agent |-> coord.run.agent,
                   attempt |-> coord.run.attempt, verdict |-> coord.outcome,
                   candidate |-> r.candidate, advice |-> r.advice]
             u == [session EXCEPT !.active = NoRun, !.accepted = Append(@, e)]
         IN /\ session \in SessionRecord /\ Shaped(session) /\ session.status = "running"
            /\ coord.turn = ExpectedTurn(session) /\ coord.session = session
            /\ e \in Entry /\ coord.run.agent = AgentFor(session, coord.turn.stage, coord.run.attempt)
            /\ coord.run.agent \in Agents /\ coord.run.attempt \in Nat \ {0}
            /\ coord.outcome = Judgement(coord.turn.stage, r.answer)
            /\ coord.outcome \in Verdicts /\ (coord.outcome = "saved" <=> coord.turn.stage # "review")
            /\ session' = (IF coord.turn.stage = "review" THEN AppliesReview(u) ELSE SavesArtifact(u))
            /\ session' \in SessionRecord /\ Shaped(session')
            /\ session'.accepted = Append(session.accepted, e)
            /\ session'.attempts = session.attempts
<1> DEFINE r == runs[coord.run.agent]
           e == [turn |-> coord.turn, agent |-> coord.run.agent,
                 attempt |-> coord.run.attempt, verdict |-> coord.outcome,
                 candidate |-> r.candidate, advice |-> r.advice]
           u == [session EXCEPT !.active = NoRun, !.accepted = Append(@, e)]
           next == IF coord.turn.stage = "review" THEN AppliesReview(u) ELSE SavesArtifact(u)
<1>1. coord.pc = "accept" /\ Wins
  BY DEF AcceptTeamTask, Commit
<1>2. /\ coord \in CoordRecord /\ session \in SessionRecord /\ Shaped(session)
      /\ coord.session = session /\ runs \in [Agents -> RunRecord]
  BY <1>1 DEF TeamInv, TypeInv, CoordType, StoreInv, LedgerInv, CopyInv, RunsInv
<1>3. session' = next
  BY <1>2 DEF AcceptTeamTask, Commit, Save
<1>4. /\ session.status = "running" /\ coord.turn = ExpectedTurn(session)
      /\ coord.run.agent = AgentFor(session, coord.turn.stage, coord.run.attempt)
      /\ coord.run.agent \in Agents /\ coord.run.attempt # 0
  BY <1>1, <1>2 DEF TeamInv, LedgerInv, HandInv, Claimed, Working
<1>5. /\ r.candidate = Prompt(session, coord.turn.stage).candidate
      /\ r.advice = Prompt(session, coord.turn.stage).advice
      /\ coord.outcome # "malformed" /\ coord.outcome = Judgement(coord.turn.stage, r.answer)
  BY <1>1, <1>2 DEF TeamInv, LedgerInv, RunInv, Working
<1>6. /\ coord.outcome \in Verdicts
      /\ (coord.outcome = "saved" <=> coord.turn.stage # "review")
  BY <1>5, JudgementIs
<1>7. coord.turn \in Turns /\ coord.run.attempt \in Nat
  BY <1>2 DEF CoordRecord, RunIds
<1>8. r.candidate \in Nat /\ r.advice \in Nat
  BY <1>2, <1>4 DEF RunRecord
<1> HIDE DEF r
<1>9. /\ e \in Entry /\ e.turn = coord.turn /\ e.verdict = coord.outcome
      /\ e.candidate = r.candidate /\ e.advice = r.advice
  BY <1>4, <1>6, <1>7, <1>8 DEF Entry
<1>10. PICK v, w : v = u /\ w = next
  OBVIOUS
<1> HIDE DEF e
<1>11. v = [session EXCEPT !.active = NoRun, !.accepted = Append(@, e)]
       /\ w = (IF coord.turn.stage = "review" THEN AppliesReview(v) ELSE SavesArtifact(v))
  BY <1>10
<1>12. /\ w \in SessionRecord /\ Shaped(w) /\ w.accepted = Append(session.accepted, e)
       /\ w.attempts = session.attempts
  <2>1. /\ session \in SessionRecord /\ Shaped(session) /\ session.status = "running"
        /\ coord.turn = ExpectedTurn(session) /\ e \in Entry
        /\ e.turn = coord.turn /\ e.verdict = coord.outcome
        /\ (e.verdict = "saved" <=> coord.turn.stage # "review")
        /\ e.candidate = Prompt(session, coord.turn.stage).candidate
        /\ e.advice = Prompt(session, coord.turn.stage).advice
    BY <1>2, <1>4, <1>5, <1>6, <1>9
  <2> QED BY ONLY <1>11, <2>1, AcceptedSession
<1> QED BY <1>2, <1>3, <1>4, <1>5, <1>6, <1>7, <1>9, <1>10, <1>12 DEF e, r

LEMMA AcceptStep ==
  ASSUME TeamInv, AcceptTeamTask
  PROVE  TeamInv'
<1> DEFINE e == [turn |-> coord.turn, agent |-> coord.run.agent,
                 attempt |-> coord.run.attempt, verdict |-> coord.outcome,
                 candidate |-> runs[coord.run.agent].candidate,
                 advice |-> runs[coord.run.agent].advice]
           step == IF session'.status = "running" THEN "publish" ELSE "settle"
           c == [coord EXCEPT !.pc = step, !.revision = revision + 1, !.session = session']
<1>1. /\ session \in SessionRecord /\ e \in Entry
      /\ session' \in SessionRecord /\ Shaped(session')
      /\ session'.accepted = Append(session.accepted, e)
  BY AcceptWrites
<1>2. /\ coord \in CoordRecord /\ revision \in Nat \ {0} /\ revision' = revision + 1
      /\ coord' = c /\ UNCHANGED <<mailbox, published, runs, interrupting, trouble>>
  BY DEF AcceptTeamTask, Commit, Save, TeamInv, TypeInv, CoordType, StoreInv
<1>3. Len(session'.accepted) = Len(session.accepted) + 1 /\ Len(session.accepted) \in Nat
  BY <1>1 DEF SessionRecord
<1> HIDE DEF e
<1>4. step \in {"publish", "settle"} /\ (step = "publish" => session'.status = "running")
  OBVIOUS
<1> HIDE DEF step
<1>5. c \in CoordRecord /\ c.pc = step /\ c.revision = revision + 1 /\ c.session = session'
  <2>1. step \in Steps /\ revision + 1 \in Nat
    BY <1>2, <1>4 DEF Steps
  <2> QED BY <1>1, <1>2, <2>1 DEF CoordRecord
<1> HIDE DEF c
<1>6. StoreInv' /\ CoordType' /\ CopyInv'
  BY <1>1, <1>2, <1>5 DEF StoreInv, CoordType, CopyInv
<1>7. PublishedInv'
  <2>1. \A i \in 1..Len(session.accepted) + 1 : i \in 1..Len(session'.accepted) + 1
    BY <1>3
  <2>2. \A t \in published : \E i \in 1..Len(session.accepted) + 1 : t = NthTurn(i)
    BY DEF PublishedInv, TeamInv, LedgerInv
  <2> QED BY <1>2, <2>1, <2>2 DEF PublishedInv
<1>8. TypeInv'
  BY <1>2, <1>6 DEF TeamInv, TypeInv, MailInv, RunsInv, RestInv
<1>9. HandInv' /\ RunInv'
  BY <1>2, <1>4, <1>5 DEF HandInv, RunInv, Claimed, Working
<1> QED BY <1>6, <1>7, <1>8, <1>9 DEF TeamInv, LedgerInv

-----------------------------------------------------------------------------
(* The agents, the operators, the stream and the server process              *)

LEMMA TouchedKeepsRunInv ==
  ASSUME TeamInv, Touched, UNCHANGED coord
  PROVE  RunInv'
<1> SUFFICES ASSUME coord.pc \in Working
             PROVE  RunInv'
  BY DEF RunInv
<1>1. coord.run.agent \in Agents
  BY DEF TeamInv, LedgerInv, HandInv, Claimed
<1> DEFINE r == runs[coord.run.agent]
           q == runs'[coord.run.agent]
<1>2. \/ q = r
      \/ /\ r.status = "active" /\ q.id = r.id
         /\ q.candidate = r.candidate /\ q.advice = r.advice
  BY <1>1 DEF Touched
<1>3. /\ r.id = coord.run
      /\ r.candidate = Prompt(coord.session, coord.turn.stage).candidate
      /\ r.advice = Prompt(coord.session, coord.turn.stage).advice
      /\ coord.pc = "reread" /\ coord.outcome = "completed" => r.status = "completed"
      /\ coord.pc = "accept" =>
           /\ r.status = "completed" /\ coord.outcome # "malformed"
           /\ coord.outcome = Judgement(coord.turn.stage, r.answer)
  BY DEF TeamInv, LedgerInv, RunInv
<1> HIDE DEF r, q
<1>4. /\ q.id = coord.run
      /\ q.candidate = Prompt(coord.session, coord.turn.stage).candidate
      /\ q.advice = Prompt(coord.session, coord.turn.stage).advice
      /\ coord.pc = "reread" /\ coord.outcome = "completed" => q.status = "completed"
      /\ coord.pc = "accept" =>
           /\ q.status = "completed" /\ coord.outcome # "malformed"
           /\ coord.outcome = Judgement(coord.turn.stage, q.answer)
  BY <1>2, <1>3
<1> QED BY <1>4 DEF RunInv, q

LEMMA RunEndsStep ==
  ASSUME TeamInv, NEW a \in Agents, RunEnds(a)
  PROVE  TeamInv'
<1>1. /\ runs[a].status = "active" /\ UNCHANGED <<store, mailbox, published, coord, interrupting, trouble>>
      /\ runs \in [Agents -> RunRecord] /\ runs[a] \in RunRecord
  BY DEF RunEnds, TeamInv, TypeInv, RunsInv
<1>2. Touched
  <2>1. CASE \E answer \in Answers(runs[a].id.turn.stage) :
               runs' = [runs EXCEPT ![a].status = "completed", ![a].answer = answer]
    <3>1. PICK answer \in Answers(runs[a].id.turn.stage) :
                 runs' = [runs EXCEPT ![a].status = "completed", ![a].answer = answer]
      BY <2>1
    <3> DEFINE r == [runs[a] EXCEPT !.status = "completed", !.answer = answer]
    <3>2. answer \in Answers("review") \cup Answers("draft")
      BY DEF Answers
    <3>3. /\ r \in RunRecord /\ r.id = runs[a].id
          /\ r.candidate = runs[a].candidate /\ r.advice = runs[a].advice
      BY <1>1, <3>2 DEF RunRecord
    <3>4. runs' = [runs EXCEPT ![a] = r]
      BY <1>1, <3>1
    <3> HIDE DEF r
    <3> QED BY <1>1, <3>3, <3>4 DEF Touched
  <2>2. CASE \E how \in {"failed", "cancelled"} : runs' = [runs EXCEPT ![a].status = how]
    <3>1. PICK how \in {"failed", "cancelled"} : runs' = [runs EXCEPT ![a].status = how]
      BY <2>2
    <3> DEFINE r == [runs[a] EXCEPT !.status = how]
    <3>2. /\ r \in RunRecord /\ r.id = runs[a].id
          /\ r.candidate = runs[a].candidate /\ r.advice = runs[a].advice
      BY <1>1 DEF RunRecord
    <3>3. runs' = [runs EXCEPT ![a] = r]
      BY <1>1, <3>1
    <3> HIDE DEF r
    <3> QED BY <1>1, <3>2, <3>3 DEF Touched
  <2> QED BY <2>1, <2>2 DEF RunEnds
<1>3. TypeInv' /\ CopyInv' /\ PublishedInv' /\ HandInv'
  BY <1>1, <1>2, SameLedger
     DEF TeamInv, TypeInv, LedgerInv, StoreInv, MailInv, CoordType, RunsInv, RestInv,
         CopyInv, HandInv, Wins, Touched, store
<1>4. RunInv'
  BY <1>1, <1>2, TouchedKeepsRunInv
<1> QED BY <1>3, <1>4 DEF TeamInv, LedgerInv

\* A write of an operator, with whatever it does to the runs.
LEMMA OperatorStep ==
  ASSUME TeamInv, NEW s \in SessionRecord, Follows(s, session), Save(s),
         UNCHANGED <<mailbox, published, coord>>, Touched,
         interrupting' \subseteq RunIds, trouble' \in 0..MaxTrouble
  PROVE  TeamInv'
<1>1. StoreInv' /\ CoordType' /\ CopyInv' /\ HandInv'
  BY Outwritten
<1>2. PublishedInv'
  BY SameLedger DEF TeamInv, LedgerInv, Save, Follows, Alike
<1>3. TypeInv'
  BY <1>1 DEF TeamInv, TypeInv, MailInv, RunsInv, RestInv, Touched
<1>4. RunInv'
  BY TouchedKeepsRunInv
<1> QED BY <1>1, <1>2, <1>3, <1>4 DEF TeamInv, LedgerInv

LEMMA CancelStep ==
  ASSUME TeamInv, CancelSession
  PROVE  TeamInv'
<1> DEFINE s == [session EXCEPT !.status = "cancelled"]
<1>1. /\ session.status = "running" /\ Save(s) /\ Trouble
      /\ UNCHANGED <<mailbox, published, coord, runs, interrupting>>
      /\ session \in SessionRecord
  BY DEF CancelSession, Operates, TeamInv, TypeInv, StoreInv
<1>2. s \in SessionRecord /\ Follows(s, session)
  BY <1>1, CancelUpdate
<1>3. Touched /\ interrupting' \subseteq RunIds /\ trouble' \in 0..MaxTrouble
  BY <1>1, TeamAssumption DEF Touched, Trouble, TeamInv, TypeInv, RunsInv, RestInv
<1> QED BY <1>1, <1>2, <1>3, OperatorStep

LEMMA CancelRecordedStep ==
  ASSUME TeamInv, CancelRecordedRun
  PROVE  TeamInv'
<1> DEFINE s == [session EXCEPT !.active = NoRun]
<1>1. /\ Save(s) /\ CancelRun(session.active)
      /\ UNCHANGED <<mailbox, published, coord, interrupting, trouble>>
      /\ session \in SessionRecord
  BY DEF CancelRecordedRun, TeamInv, TypeInv, StoreInv
<1>2. s \in SessionRecord /\ Follows(s, session)
  BY <1>1, RunUpdate, NoRunIsRunId
<1>3. Touched /\ interrupting' \subseteq RunIds /\ trouble' \in 0..MaxTrouble
  BY <1>1, CancelTouches DEF TeamInv, TypeInv, RestInv
<1> QED BY <1>1, <1>2, <1>3, OperatorStep

LEMMA RequestStep ==
  ASSUME TeamInv, RequestInterruption
  PROVE  TeamInv'
<1> DEFINE R == session.requested \cup {session.active}
           s == [session EXCEPT !.requested = R]
<1>1. /\ Save(s) /\ Trouble /\ interrupting' = interrupting \cup {session.active}
      /\ UNCHANGED <<mailbox, published, coord, runs>>
      /\ session \in SessionRecord /\ session.active \in RunIds /\ R \in SUBSET RunIds
  BY DEF RequestInterruption, Operates, TeamInv, TypeInv, StoreInv, SessionRecord
<1>2. s \in SessionRecord /\ Follows(s, session)
  BY <1>1, InterruptUpdate
<1>3. Touched /\ interrupting' \subseteq RunIds /\ trouble' \in 0..MaxTrouble
  BY <1>1, TeamAssumption DEF Touched, Trouble, TeamInv, TypeInv, RunsInv, RestInv
<1> QED BY <1>1, <1>2, <1>3, OperatorStep

LEMMA FinalizeStep ==
  ASSUME TeamInv, NEW id \in interrupting, FinalizeInterruption(id)
  PROVE  TeamInv'
<1> DEFINE late == [session EXCEPT !.requested = @ \ {id}]
           D == late.disconnected \cup {id}
<1>1. /\ Save(late) \/ Save([late EXCEPT !.disconnected = D])
      /\ interrupting' = interrupting \ {id}
      /\ UNCHANGED <<mailbox, published, coord, runs, trouble>>
  BY DEF FinalizeInterruption
<1>2. session \in SessionRecord /\ id \in RunIds /\ session.requested \subseteq RunIds
      /\ session.disconnected \subseteq RunIds
  BY DEF TeamInv, TypeInv, StoreInv, RestInv, SessionRecord
<1>3. late = [session EXCEPT !.requested = session.requested \ {id}]
  BY <1>2 DEF SessionRecord
<1> HIDE DEF late
<1>4. late \in SessionRecord /\ Follows(late, session) /\ D \in SUBSET RunIds
  <2>1. session.requested \ {id} \in SUBSET RunIds
    BY <1>2
  <2> QED BY <1>2, <1>3, <2>1, InterruptUpdate
<1> HIDE DEF D
<1>5. /\ [late EXCEPT !.disconnected = D] \in SessionRecord
      /\ Follows([late EXCEPT !.disconnected = D], session)
  <2>1. PICK u : u = [late EXCEPT !.disconnected = D]
    OBVIOUS
  <2>2. u \in SessionRecord /\ Follows(u, late)
    BY <1>4, <2>1, InterruptUpdate
  <2>3. Follows(u, session)
    BY <1>4, <2>2 DEF Follows, Alike
  <2> QED BY <2>1, <2>2, <2>3
<1>6. Touched /\ interrupting' \subseteq RunIds /\ trouble' \in 0..MaxTrouble
  BY <1>1 DEF Touched, TeamInv, TypeInv, RunsInv, RestInv
<1> QED BY <1>1, <1>4, <1>5, <1>6, OperatorStep

LEMMA SecondCopyStep ==
  ASSUME TeamInv, NEW t, SecondCopy(t)
  PROVE  TeamInv'
<1>1. /\ Trouble /\ t \in published /\ mailbox' = mailbox \cup {t}
      /\ UNCHANGED <<store, published, coord, runs, interrupting>>
  BY DEF SecondCopy
<1>2. trouble' \in 0..MaxTrouble
  BY <1>1, TeamAssumption DEF Trouble, TeamInv, TypeInv, RestInv
<1>3. Touched
  BY <1>1 DEF Touched, TeamInv, TypeInv, RunsInv
<1>4. RunInv'
  BY <1>1, <1>3, TouchedKeepsRunInv
<1> QED BY <1>1, <1>2, <1>4, SameLedger
        DEF TeamInv, TypeInv, LedgerInv, StoreInv, MailInv, CoordType, RunsInv, RestInv,
            CopyInv, HandInv, Wins, store

LEMMA CrashStep ==
  ASSUME TeamInv, Crash
  PROVE  TeamInv'
<1>1. /\ Trouble /\ coord' = [Idle EXCEPT !.pc = "recovering"] /\ interrupting' = {}
      /\ runs' = [a \in Agents |->
                   [runs[a] EXCEPT !.status = IF @ = "active" THEN "cancelled" ELSE @]]
      /\ UNCHANGED <<store, mailbox, published>>
  BY DEF Crash
<1>2. StoreInv' /\ CoordType' /\ CopyInv' /\ HandInv' /\ RunInv'
  BY <1>1, Dropped
<1>3. \A a \in Agents :
        [runs[a] EXCEPT !.status = IF @ = "active" THEN "cancelled" ELSE @] \in RunRecord
  BY DEF TeamInv, TypeInv, RunsInv, RunRecord
<1>4. RunsInv' /\ trouble' \in 0..MaxTrouble
  BY <1>1, <1>3, TeamAssumption DEF Trouble, RunsInv, TeamInv, TypeInv, RestInv
<1> QED BY <1>1, <1>2, <1>4, SameLedger
        DEF TeamInv, TypeInv, LedgerInv, MailInv, RestInv, store

LEMMA StutterStep == ASSUME TeamInv, UNCHANGED vars PROVE TeamInv'
BY DEF vars, TeamInv, TypeInv, LedgerInv, StoreInv, MailInv, CoordType, RunsInv, RestInv,
       CopyInv, PublishedInv, HandInv, RunInv, Wins

\* The ledger grows by acceptances only; whatever else writes the session keeps
\* it, and ends it at most as failed or cancelled.
LEMMA OnlyAcceptanceAdds ==
  ASSUME TeamInv, [Next]_vars
  PROVE  AcceptTeamTask \/ Follows(session', session)
<1>1. /\ session \in SessionRecord /\ coord.session \in SessionRecord /\ coord.turn \in Turns
      /\ coord.run \in RunIds
  BY DEF TeamInv, TypeInv, StoreInv, CoordType, CoordRecord
<1>2. Wins => coord.session = session
  BY DEF TeamInv, LedgerInv, CopyInv
<1>3. ASSUME UNCHANGED session
      PROVE  Follows(session', session)
  BY <1>3 DEF Follows, Alike
<1>4. CASE SuppressDuplicate
  BY <1>2, <1>3, <1>4 DEF SuppressDuplicate, Commit, Save
<1>5. CASE ClaimTurn
  <2>1. session' = Counted(session, coord.turn) /\ Attempts(session, coord.turn) < MaxAttempts
    BY <1>2, <1>5 DEF ClaimTurn, Save, TeamInv, LedgerInv, HandInv
  <2> QED BY <1>1, <2>1, CountUpdate
<1>6. CASE RecordRun
  BY <1>1, <1>2, <1>6, RunUpdate DEF RecordRun, Commit, Save
<1>7. CASE RetryTurn
  BY <1>1, <1>2, <1>7, RunUpdate, NoRunIsRunId DEF RetryTurn, Save
<1>8. CASE FailSession
  <2>1. session' = [session EXCEPT !.active = NoRun, !.status = "failed"] /\ session.status = "running"
    BY <1>2, <1>8 DEF FailSession, Commit, Save, TeamInv, LedgerInv, HandInv
  <2> QED BY <1>1, <2>1, FailUpdate, NoRunIsRunId
<1>9. CASE RecoverSession
  BY <1>1, <1>3, <1>9, RunUpdate, NoRunIsRunId DEF RecoverSession, Save, store
<1>10. CASE CancelSession
  BY <1>1, <1>10, CancelUpdate DEF CancelSession, Save
<1>11. CASE CancelRecordedRun
  BY <1>1, <1>11, RunUpdate, NoRunIsRunId DEF CancelRecordedRun, Save
<1>12. CASE RequestInterruption
  BY <1>1, <1>12 DEF RequestInterruption, Save, Follows, Alike, SessionRecord
<1>13. ASSUME NEW id, FinalizeInterruption(id)
       PROVE  Follows(session', session)
  <2> DEFINE late == [session EXCEPT !.requested = @ \ {id}]
  <2>1. Follows(late, session) /\ Follows([late EXCEPT !.disconnected = @ \cup {id}], session)
    BY <1>1 DEF Follows, Alike, SessionRecord
  <2>2. session' = late \/ session' = [late EXCEPT !.disconnected = @ \cup {id}]
    BY <1>13 DEF FinalizeInterruption, Save
  <2> HIDE DEF late
  <2> QED BY <2>1, <2>2
<1>14. CASE Environment
  <2>1. CASE \/ \E a \in Agents : RunEnds(a)
             \/ \E t \in published : SecondCopy(t)
             \/ DeliveryThrows \/ Crash
    BY <1>3, <2>1 DEF RunEnds, SecondCopy, DeliveryThrows, Crash, store
  <2> QED BY <1>10, <1>11, <1>12, <1>13, <1>14, <2>1 DEF Environment
<1>15. CASE CoordinatorStep
  <2>1. CASE \/ \E t \in mailbox : Receive(t)
             \/ StartRun \/ StartRejected \/ RecordLost \/ WaitForRun \/ TimeOut \/ Reread
             \/ PublishExpected \/ Settle \/ LoseRace
    BY <1>3, <2>1
       DEF Receive, StartRun, StartRejected, RecordLost, WaitForRun, TimeOut, Reread,
           PublishExpected, Settle, LoseRace, store
  <2> QED BY <1>4, <1>5, <1>6, <1>7, <1>8, <1>9, <1>15, <2>1 DEF CoordinatorStep
<1> QED BY <1>3, <1>14, <1>15 DEF Next, vars

-----------------------------------------------------------------------------
(* The theorems                                                              *)

LEMMA TeamNext == ASSUME TeamInv, [Next]_vars PROVE TeamInv'
<1>1. CASE CoordinatorStep
  <2>1. \/ \E t \in mailbox : Receive(t)
        \/ SuppressDuplicate \/ ClaimTurn \/ StartRun \/ StartRejected
        \/ RecordRun \/ RecordLost \/ WaitForRun \/ TimeOut \/ Reread
        \/ AcceptTeamTask \/ PublishExpected \/ Settle \/ RetryTurn \/ FailSession \/ LoseRace
        \/ RecoverSession
    BY <1>1 DEF CoordinatorStep
  <2> QED
    BY <2>1, ReceiveStep, SuppressStep, ClaimStep, StartStep, RejectedStep, RecordStep,
       RecordLostStep, WaitStep, TimeOutStep, RereadStep, AcceptStep, PublishStep, SettleStep,
       RetryStep, FailStep, LoseStep, RecoverStep
<1>2. CASE Environment
  BY <1>2, RunEndsStep, CancelStep, CancelRecordedStep, RequestStep, FinalizeStep,
     SecondCopyStep, DeliveryThrowsStep, CrashStep DEF Environment
<1>3. CASE UNCHANGED vars
  BY <1>3, StutterStep
<1> QED BY <1>1, <1>2, <1>3 DEF Next

\* The invariant holds in every reachable state.
THEOREM TeamInvariant == Spec => []TeamInv
BY InitIsInv, TeamNext, PTL DEF Spec

\* Type correctness: the stored session, the copy the coordinator works on, the
\* messages and the runs stay within their types.
THEOREM TeamTypeCorrect == Spec => []TypeOK
<1>1. TeamInv => TypeOK
  <2> SUFFICES ASSUME TeamInv
               PROVE  TypeOK
    OBVIOUS
  <2>1. ASSUME NEW s \in SessionRecord
        PROVE  SessionOK(s)
    <3>1. PICK D \in SUBSET Turns : s.attempts \in [D -> 1..MaxAttempts]
      BY DEF SessionRecord
    <3>2. DOMAIN s.attempts \subseteq Turns /\ \A t \in DOMAIN s.attempts : s.attempts[t] \in 1..MaxAttempts
      BY <3>1
    <3> QED BY <3>2 DEF SessionOK, SessionRecord
  <2>2. /\ coord \in CoordRecord /\ coord.revision <= revision /\ revision \in Nat \ {0}
        /\ session \in SessionRecord /\ runs \in [Agents -> RunRecord] /\ MailInv /\ RestInv
    BY DEF TeamInv, TypeInv, CoordType, StoreInv, RunsInv
  <2>3. /\ coord.session \in SessionRecord /\ coord.revision \in 0..revision
        /\ coord.pc \in Steps /\ coord.turn \in Turns /\ coord.run \in RunIds
        /\ coord.outcome \in {"none", "completed", "failed", "malformed"} \cup Verdicts
    BY <2>2 DEF CoordRecord
  <2>4. \A a \in Agents :
          /\ runs[a].id \in RunIds
          /\ runs[a].status \in {"unused", "active", "completed", "failed", "cancelled", "over"}
          /\ runs[a].candidate \in Nat /\ runs[a].advice \in Nat
    BY <2>2 DEF RunRecord
  <2> QED BY <2>1, <2>2, <2>3, <2>4 DEF TypeOK, MailInv, RestInv
<1> QED BY <1>1, TeamInvariant, PTL

\* The ledger is a draft, reviews and repairs by turns, each settled once, in
\* order, and by somebody who was shown the version and the feedback it is about.
THEOREM LedgerHasShape == Spec => []LedgerShape
<1>1. TeamInv => LedgerShape
  <2> SUFFICES ASSUME TeamInv
               PROVE  LedgerShape
    OBVIOUS
  <2>1. session \in SessionRecord /\ Shaped(session)
    BY DEF TeamInv, TypeInv, LedgerInv, StoreInv, CopyInv
  <2>2. DOMAIN session.accepted = 1..Len(session.accepted)
    BY <2>1 DEF SessionRecord
  <2>3. ASSUME session.status = "running"
        PROVE  mailbox \subseteq AcceptedTurns(session) \cup {ExpectedTurn(session)}
    <3>1. \A t \in mailbox : \E i \in 1..Len(session.accepted) + 1 : t = NthTurn(i)
      BY DEF TeamInv, TypeInv, LedgerInv, MailInv, PublishedInv
    <3> QED BY <2>1, <2>3, <3>1, OpenTurn
  <2> QED BY <2>1, <2>2, <2>3 DEF LedgerShape, Shaped, EntryFits
<1> QED BY <1>1, TeamInvariant, PTL

\* Only an acceptance completes a session, and what it accepts then is a review
\* that passed every criterion.
THEOREM UnanimousPass == Spec => PassIsUnanimous
<1> DEFINE A == session.status = "running" /\ session'.status = "completed" =>
                  LET answer == runs[coord.run.agent].answer IN
                  /\ answer.verdict = "PASS" /\ Len(answer.checks) = NumCriteria
                  /\ AllPassed(answer.checks)
<1>1. TeamInv /\ [Next]_vars => [A]_vars
  <2> SUFFICES ASSUME TeamInv, Next, session.status = "running", session'.status = "completed"
               PROVE  A
    OBVIOUS
  <2>1. AcceptTeamTask
    BY OnlyAcceptanceAdds DEF Follows
  <2> DEFINE answer == runs[coord.run.agent].answer
             e == [turn |-> coord.turn, agent |-> coord.run.agent,
                   attempt |-> coord.run.attempt, verdict |-> coord.outcome,
                   candidate |-> runs[coord.run.agent].candidate,
                   advice |-> runs[coord.run.agent].advice]
             u == [session EXCEPT !.active = NoRun, !.accepted = Append(@, e)]
  <2>2. /\ session \in SessionRecord /\ e \in Entry
        /\ coord.outcome = Judgement(coord.turn.stage, answer)
        /\ session' = (IF coord.turn.stage = "review" THEN AppliesReview(u) ELSE SavesArtifact(u))
    BY <2>1, AcceptWrites
  <2> HIDE DEF e
  <2>3. u.status = "running" /\ u \in SessionRecord
    <3>1. session.status = "running" /\ session \in SessionRecord
      BY <2>2
    <3>2. Append(session.accepted, e) \in Seq(Entry)
      BY <2>2 DEF SessionRecord
    <3> QED BY <3>1, <3>2, NoRunIsRunId DEF SessionRecord
  <2> HIDE DEF u
  <2>4. coord.turn.stage = "review" /\ coord.outcome = "PASS"
    <3>1. SavesArtifact(u).status = "running"
      BY <2>3 DEF SavesArtifact, SessionRecord
    <3>2. coord.outcome # "PASS" => AppliesReview(u).status # "completed"
      BY <2>3 DEF AppliesReview, SessionRecord
    <3> QED BY <2>2, <3>1, <3>2
  <2>5. ParseReview(answer) = "PASS"
    BY <2>2, <2>4 DEF Judgement
  <2> QED BY <2>5 DEF ParseReview
<1> QED BY <1>1, TeamInvariant, PTL DEF Spec, PassIsUnanimous

-----------------------------------------------------------------------------
(* The work that is left                                                     *)

\* The stream holds a message that moves a running session on: its next turn, or
\* the turn accepted last, whose redelivery publishes the next one again.
TurnIsPending ==
  session.status = "running" =>
    \/ ExpectedTurn(session) \in mailbox
    \/ \E i \in DOMAIN session.accepted :
         i = Len(session.accepted) /\ session.accepted[i].turn \in mailbox

\* What the loop holds is in the stream until it settles it, and it settles a turn
\* of a running session only when the next one has been published and is still
\* there.
NextIsPending ==
  IF ExpectedTurn(session) \in published THEN ExpectedTurn(session) \in mailbox
  ELSE /\ session.accepted # << >>
       /\ session.accepted[Len(session.accepted)].turn \in mailbox
Recovering(c) == c.pc \in {"recovering", "publish"} /\ c.turn = NoRun.turn
WorkInv ==
  /\ coord.pc = "recovering" => coord.turn = NoRun.turn
  /\ coord.pc # "idle" => Recovering(coord) \/ coord.turn \in mailbox
  /\ session.status = "running" =>
       /\ NextIsPending
       /\ coord.pc = "settle" => ExpectedTurn(session) \in published
       /\ coord.pc \in {"suppress", "publish", "settle"} => coord.turn # ExpectedTurn(session)

LEMMA NoRunIsNoTurn == ASSUME NEW i \in Nat \ {0} PROVE NthTurn(i) # NoRun.turn
<1>1. NthTurn(i).stage \in Stages
  BY NextTurn
<1>2. NoRun.turn.stage = "none"
  BY DEF NoRun, Turn
<1> QED BY <1>1, <1>2 DEF Stages

LEMMA WorkInit == ASSUME Init PROVE WorkInv
BY DEF Init, WorkInv, NextIsPending, Idle

\* What the loop holds after a step that keeps the messages and the ledger.
Hands ==
  /\ coord'.pc = "recovering" => coord'.turn = NoRun.turn
  /\ coord'.pc # "idle" => Recovering(coord') \/ coord'.turn \in mailbox
  /\ session'.status = "running" =>
       /\ coord'.pc = "settle" => ExpectedTurn(session) \in published
       /\ coord'.pc \in {"suppress", "publish", "settle"} => coord'.turn # ExpectedTurn(session)

LEMMA WorkStays ==
  ASSUME WorkInv, mailbox \subseteq mailbox', UNCHANGED published, Follows(session', session), Hands
  PROVE  WorkInv'
<1>1. ExpectedTurn(session') = ExpectedTurn(session) /\ session'.accepted = session.accepted
  BY DEF Follows, Alike, ExpectedTurn
<1>2. session'.status = "running" => session.status = "running"
  BY DEF Follows
<1>3. session'.status = "running" => NextIsPending'
  BY <1>1, <1>2 DEF WorkInv, NextIsPending
<1>4. Recovering(coord') <=> Recovering(coord)'
  BY DEF Recovering
<1> QED BY <1>1, <1>2, <1>3, <1>4 DEF WorkInv, Hands

\* A step of the loop on the turn it holds.
LEMMA SameTurn ==
  ASSUME WorkInv, coord.pc \notin {"idle", "recovering", "publish"}, coord'.turn = coord.turn,
         coord'.pc \notin {"recovering", "suppress", "publish"},
         coord'.pc = "settle" => session'.status # "running"
  PROVE  Hands
BY DEF WorkInv, Hands, Recovering

LEMMA ReceiveTakes ==
  ASSUME TeamInv, WorkInv, NEW t \in mailbox, Receive(t)
  PROVE  Hands
<1>1. /\ coord'.pc = Decision(t) /\ coord'.turn = t /\ session' = session
      /\ Decision(t) \in {"settle", "suppress", "fail", "claim"}
  <2>1. Decision(t) \in {"settle", "suppress", "fail", "claim"}
    BY DEF Decision
  <2>2. \A c : c = [Idle EXCEPT !.pc = Decision(t), !.turn = t, !.revision = revision,
                                !.session = session] => c.pc = Decision(t) /\ c.turn = t
    BY DEF Idle
  <2> QED BY <2>1, <2>2 DEF Receive, store
<1>2. session.status = "running" /\ Decision(t) \in {"suppress", "settle"} => t # ExpectedTurn(session)
  <2> SUFFICES ASSUME session.status = "running", t \in AcceptedTurns(session), t = ExpectedTurn(session)
               PROVE  FALSE
    BY DEF Decision
  <2>1. session \in SessionRecord /\ Shaped(session)
    BY DEF TeamInv, TypeInv, StoreInv, LedgerInv, CopyInv
  <2>2. PICK i \in 1..Len(session.accepted) : t = NthTurn(i)
    <3>1. DOMAIN session.accepted = 1..Len(session.accepted)
      BY <2>1 DEF SessionRecord
    <3> QED BY <2>1, <3>1 DEF AcceptedTurns, Shaped, EntryFits
  <2>3. Len(session.accepted) \in Nat /\ t = NthTurn(Len(session.accepted) + 1)
    BY <2>1, OpenTurn DEF SessionRecord
  <2>4. NthTurn(i).value = i /\ NthTurn(Len(session.accepted) + 1).value = Len(session.accepted) + 1
    BY <2>3, NextTurn
  <2> QED BY <2>2, <2>3, <2>4
<1>3. session.status = "running" => Decision(t) # "settle"
  BY DEF Decision
<1> QED BY <1>1, <1>2, <1>3 DEF Hands

LEMMA RecoveryHolds ==
  ASSUME TeamInv, WorkInv, RecoverSession
  PROVE  Hands
<1>1. coord \in CoordRecord /\ coord.pc = "recovering" /\ coord.turn = NoRun.turn
  BY DEF TeamInv, TypeInv, CoordType, WorkInv, RecoverSession
<1>2. CASE session.status # "running"
  BY <1>2 DEF RecoverSession, Hands, Idle, store
<1>3. CASE session.status = "running"
  <2>1. coord'.pc = "publish" /\ coord'.turn = NoRun.turn
    BY <1>1, <1>3 DEF RecoverSession, CoordRecord
  <2>2. ExpectedTurn(session) # NoRun.turn
    BY <1>3, OpenTurn, NoRunIsNoTurn DEF TeamInv, TypeInv, StoreInv, LedgerInv, CopyInv
  <2> QED BY <2>1, <2>2 DEF Hands, Recovering
<1> QED BY <1>2, <1>3

LEMMA HandsMove ==
  ASSUME TeamInv, WorkInv, [Next]_vars, ~Settle, ~PublishExpected, ~AcceptTeamTask
  PROVE  Hands /\ mailbox \subseteq mailbox' /\ UNCHANGED published
<1>1. mailbox \subseteq mailbox' /\ UNCHANGED published
  BY DEF Next, vars, CoordinatorStep, Environment, Receive, SuppressDuplicate, ClaimTurn, StartRun,
         StartRejected, RecordRun, RecordLost, WaitForRun, TimeOut, Reread, RetryTurn, FailSession,
         LoseRace, RecoverSession, RunEnds, CancelSession, CancelRecordedRun, RequestInterruption,
         FinalizeInterruption, SecondCopy, DeliveryThrows, Crash
<1> SUFFICES Hands
  BY <1>1
<1>2. coord \in CoordRecord /\ Follows(session', session)
  BY OnlyAcceptanceAdds DEF TeamInv, TypeInv, CoordType
<1>3. CASE UNCHANGED coord
  BY <1>2, <1>3 DEF WorkInv, Hands, Follows
<1>4. CASE coord' = Idle
  BY <1>4 DEF Hands, Idle
<1>5. CASE Crash
  BY <1>5 DEF Crash, Hands, Idle, Recovering
<1>6. CASE SuppressDuplicate
  <2>1. coord.pc = "suppress" /\ coord'.pc = "publish" /\ coord'.turn = coord.turn
    BY <1>2, <1>6 DEF SuppressDuplicate, Commit, CoordRecord
  <2> QED BY <1>2, <2>1 DEF WorkInv, Hands, Follows, Recovering
<1>7. \A s : GiveUp(s) \in {"fail", "retry"}
  BY DEF GiveUp
<1>8. CASE ClaimTurn \/ StartRun \/ StartRejected
  BY <1>2, <1>7, <1>8, SameTurn DEF ClaimTurn, StartRun, StartRejected, Goto, CoordRecord
<1>9. CASE RecordRun \/ WaitForRun \/ TimeOut
  BY <1>2, <1>9, SameTurn DEF RecordRun, Commit, WaitForRun, TimeOut, CoordRecord
<1>10. CASE RecordLost
  BY <1>2, <1>4, <1>10, SameTurn DEF RecordLost, Goto, CoordRecord, store
<1>11. CASE FailSession
  <2>1. session' = [coord.session EXCEPT !.active = NoRun, !.status = "failed"]
    BY <1>11 DEF FailSession, Commit, Save
  <2>2. coord.session \in SessionRecord
    BY <1>2 DEF CoordRecord
  <2>3. session'.status = "failed"
    BY <2>1, <2>2 DEF SessionRecord
  <2> QED BY <1>2, <1>11, <2>3, SameTurn DEF FailSession, Commit, CoordRecord
<1>12. CASE Reread
  <2>1. coord.pc = "reread" /\ session' = session
    BY <1>12 DEF Reread, store
  <2>2. \/ coord' = Idle
        \/ /\ coord'.turn = coord.turn
           /\ coord'.pc \in {"fail", "retry", "accept"} \/ (coord'.pc = "settle" /\ session.status # "running")
    <3>1. CASE session.status # "running"
      BY <1>2, <1>12, <3>1 DEF Reread, CoordRecord
    <3>2. CASE session.status = "running" /\ ~Wins
      BY <1>2, <1>7, <1>12, <3>2 DEF Reread, CoordRecord
    <3>3. CASE session.status = "running" /\ Wins
      <4>1. CASE coord.outcome # "completed"
        BY <1>2, <1>7, <1>12, <3>3, <4>1 DEF Reread, CoordRecord
      <4>2. CASE coord.outcome = "completed"
        <5> DEFINE verdict == Judgement(coord.turn.stage, runs[coord.run.agent].answer)
                   pc == IF verdict = "malformed" THEN GiveUp(coord.session) ELSE "accept"
        <5>1. coord' = [coord EXCEPT !.outcome = verdict, !.pc = pc]
          BY <1>12, <3>3, <4>2 DEF Reread
        <5>2. pc \in {"fail", "retry", "accept"}
          BY <1>7
        <5> HIDE DEF pc, verdict
        <5> QED BY <1>2, <5>1, <5>2 DEF CoordRecord
      <4> QED BY <4>1, <4>2
    <3> QED BY <3>1, <3>2, <3>3
  <2> QED BY <1>4, <2>1, <2>2, SameTurn
<1>13. CASE CoordinatorStep
  <2>1. RetryTurn \/ LoseRace => coord' = Idle
    BY DEF RetryTurn, LoseRace
  <2> QED BY <1>4, <1>6, <1>8, <1>9, <1>10, <1>11, <1>12, <1>13, <2>1, ReceiveTakes, RecoveryHolds
          DEF CoordinatorStep
<1>14. CASE Environment
  <2>1. \/ UNCHANGED coord \/ coord' = Idle \/ Crash
    BY <1>14 DEF Environment, RunEnds, CancelSession, CancelRecordedRun, RequestInterruption,
         FinalizeInterruption, SecondCopy, DeliveryThrows
  <2> QED BY <1>3, <1>4, <1>5, <2>1
<1> QED BY <1>3, <1>13, <1>14 DEF Next, vars

\* The next turn is published, unless it is there already.
LEMMA WorkPublished ==
  ASSUME TeamInv, WorkInv, PublishExpected
  PROVE  WorkInv'
<1> DEFINE t == ExpectedTurn(coord.session)
<1>1. /\ coord \in CoordRecord /\ session \in SessionRecord /\ Shaped(session)
      /\ coord.session \in SessionRecord /\ Shaped(coord.session)
      /\ coord.session.accepted = session.accepted /\ coord.session.status = "running"
      /\ mailbox \subseteq published
  BY DEF TeamInv, TypeInv, StoreInv, CoordType, MailInv, LedgerInv, CopyInv, HandInv, PublishExpected, CoordRecord
<1>2. session.status = "running" => t = ExpectedTurn(session)
  BY <1>1 DEF Shaped
<1>3. /\ mailbox' = (IF t \in published THEN mailbox ELSE mailbox \cup {t})
      /\ published' = published \cup {t} /\ session' = session
  BY DEF PublishExpected, Publish, store
<1> HIDE DEF t
<1>4. session.status = "running" => NextIsPending' /\ ExpectedTurn(session) \in published'
  BY <1>2, <1>3 DEF WorkInv, NextIsPending
<1>5. \/ coord' = Idle
      \/ coord'.pc = "settle" /\ coord'.turn = coord.turn /\ coord.turn # NoRun.turn
  BY <1>1 DEF PublishExpected, CoordRecord
<1>6. coord.pc = "publish"
  BY DEF PublishExpected
<1> QED BY <1>3, <1>4, <1>5, <1>6 DEF WorkInv, Idle, Recovering

\* The turn is settled: its message goes, the next one stays.
LEMMA WorkSettled ==
  ASSUME WorkInv, Settle
  PROVE  WorkInv'
<1>1. /\ coord.pc = "settle" /\ mailbox' = mailbox \ {coord.turn} /\ coord' = Idle
      /\ session' = session /\ published' = published
  BY DEF Settle, store
<1>2. session.status = "running" => NextIsPending'
  BY <1>1 DEF WorkInv, NextIsPending
<1> QED BY <1>1, <1>2 DEF WorkInv, Idle

\* The turn accepted becomes the last one, and the next one is new.
LEMMA WorkAccepted ==
  ASSUME TeamInv, WorkInv, AcceptTeamTask
  PROVE  WorkInv'
<1> DEFINE e == [turn |-> coord.turn, agent |-> coord.run.agent,
                 attempt |-> coord.run.attempt, verdict |-> coord.outcome,
                 candidate |-> runs[coord.run.agent].candidate,
                 advice |-> runs[coord.run.agent].advice]
           n == Len(session.accepted)
<1>1. /\ session \in SessionRecord /\ Shaped(session) /\ session.status = "running"
      /\ coord.turn = ExpectedTurn(session)
      /\ session' \in SessionRecord /\ Shaped(session')
      /\ session'.accepted = Append(session.accepted, e) /\ e \in Entry
  BY AcceptWrites
<1>2. e.turn = coord.turn
  OBVIOUS
<1> HIDE DEF e
<1>3. session.accepted \in Seq(Entry)
  BY <1>1 DEF SessionRecord
<1>4. /\ n \in Nat /\ session'.accepted # << >> /\ Len(session'.accepted) = n + 1
      /\ session'.accepted[n + 1] = e
  BY <1>1, <1>3
<1>5. /\ coord.pc = "accept" /\ coord'.turn = coord.turn /\ UNCHANGED <<mailbox, published>>
      /\ coord'.pc \in {"publish", "settle"}
      /\ coord'.pc = "settle" => session'.status # "running"
  <2>1. coord \in CoordRecord
    BY DEF TeamInv, TypeInv, CoordType
  <2>2. coord' = [coord EXCEPT !.pc = IF session'.status = "running" THEN "publish" ELSE "settle",
                               !.revision = revision + 1, !.session = session']
    BY DEF AcceptTeamTask, Commit, Save
  <2> QED BY <2>1, <2>2 DEF AcceptTeamTask, CoordRecord
<1>6. coord.turn \in mailbox
  BY <1>5 DEF WorkInv, Recovering
<1>7. ASSUME session'.status = "running"
      PROVE  /\ ExpectedTurn(session') \notin published /\ coord.turn # ExpectedTurn(session')
  <2>1. ExpectedTurn(session') = NthTurn(n + 2) /\ coord.turn = NthTurn(n + 1)
    BY <1>1, <1>4, <1>7 DEF Shaped
  <2>2. \A i \in 1..n + 2 : NthTurn(i).value = i
    BY <1>4, NextTurn
  <2>3. \A t \in published : \E i \in 1..n + 1 : t = NthTurn(i)
    BY DEF TeamInv, LedgerInv, PublishedInv
  <2> HIDE DEF n
  <2>4. n + 1 \in 1..n + 2 /\ n + 2 \in 1..n + 2 /\ n + 1 # n + 2
        /\ \A i \in 1..n + 1 : i \in 1..n + 2 /\ i # n + 2
    BY <1>4
  <2> QED BY <2>1, <2>2, <2>3, <2>4
<1> HIDE DEF n
<1>8. session'.status = "running" => NextIsPending'
  BY <1>2, <1>4, <1>5, <1>6, <1>7 DEF NextIsPending
<1> QED BY <1>5, <1>6, <1>7, <1>8 DEF WorkInv

LEMMA WorkNext == ASSUME TeamInv, WorkInv, [Next]_vars PROVE WorkInv'
<1>1. CASE ~Settle /\ ~PublishExpected /\ ~AcceptTeamTask
  BY <1>1, OnlyAcceptanceAdds, HandsMove, WorkStays
<1> QED BY <1>1, WorkPublished, WorkSettled, WorkAccepted

\* The work of a running team task is never lost, through failed publications,
\* second copies, lost races, interruptions and crashes between any two steps.
THEOREM TeamWorkIsPending == Spec => []TurnIsPending
<1>1. TeamInv /\ WorkInv => TurnIsPending
  <2> SUFFICES ASSUME TeamInv, WorkInv, session.status = "running" PROVE TurnIsPending
    BY DEF TurnIsPending
  <2>1. session.accepted \in Seq(Entry)
    BY DEF TeamInv, TypeInv, StoreInv, SessionRecord
  <2>2. session.accepted # << >> => Len(session.accepted) \in DOMAIN session.accepted
    BY <2>1
  <2> QED BY <2>2 DEF WorkInv, NextIsPending, TurnIsPending
<1> QED BY InitIsInv, TeamNext, WorkInit, WorkNext, <1>1, PTL DEF Spec
=============================================================================
