-------------------------- MODULE WatchListProofs ---------------------------
(***************************************************************************)
(* Theorems about WatchList, for any tokens, any size of the list and any  *)
(* thresholds: the queue and its index stay two views of one list, and a   *)
(* candidate that is stale is never bought.                                *)
(***************************************************************************)
EXTENDS WatchList, SequenceLemmas

ListType ==
    /\ queue \in Seq(Candidate)
    /\ \A m \in DOMAIN map : map[m] \in Nat
    /\ totalAdded \in Nat /\ totalRemoved \in Nat

ListInv == ListType /\ IndexConsistent /\ CountersMatch

-----------------------------------------------------------------------------
(* The operations of the list.                                             *)

LEMMA NewCandidateType ==
    ASSUME NEW m \in Mints
    PROVE  NewCandidate(m) \in Candidate /\ NewCandidate(m).mint = m
BY WatchListAssumption DEF WatchListAssumption, NewCandidate, Candidate, Age

LEMMA AddKeeps ==
    ASSUME ListInv, NEW m \in Mints, AddMint(m)
    PROVE  ListInv'
<1>1. CASE UNCHANGED list
  BY <1>1 DEF list, ListInv, ListType, IndexConsistent, CountersMatch
<1>2. CASE /\ m \notin DOMAIN map
           /\ queue' = Append(queue, NewCandidate(m))
           /\ map' = [x \in DOMAIN map \cup {m} |->
                         IF x = m THEN Len(queue) ELSE map[x]]
           /\ totalAdded' = totalAdded + 1
           /\ UNCHANGED totalRemoved
  <2> DEFINE c == NewCandidate(m)
  <2>1. c \in Candidate /\ c.mint = m
    BY NewCandidateType
  <2>2. queue \in Seq(Candidate) /\ Len(queue) \in Nat /\ DOMAIN queue = 1..Len(queue)
    BY LenProperties DEF ListInv, ListType
  <2> HIDE DEF c
  <2>3. /\ queue' \in Seq(Candidate) /\ Len(queue') = Len(queue) + 1
        /\ DOMAIN queue' = 1..(Len(queue) + 1)
        /\ \A k \in 1..Len(queue) : queue'[k] = queue[k]
        /\ queue'[Len(queue) + 1] = c
    BY <1>2, <2>1, <2>2, AppendProperties DEF c
  <2>4. /\ DOMAIN map' = DOMAIN map \cup {m}
        /\ map'[m] = Len(queue)
        /\ \A x \in DOMAIN map : map'[x] = map[x]
    BY <1>2
  <2>5. ListType'
    BY <1>2, <2>2, <2>3, <2>4 DEF ListInv, ListType
  <2>6. IndexConsistent'
    <3>1. ASSUME NEW x \in DOMAIN map'
          PROVE  map'[x] + 1 \in DOMAIN queue' /\ queue'[map'[x] + 1].mint = x
      <4>1. CASE x = m
        BY <2>1, <2>2, <2>3, <2>4, <4>1
      <4>2. CASE x \in DOMAIN map
        <5>1. map[x] + 1 \in 1..Len(queue) /\ queue[map[x] + 1].mint = x
          BY <2>2, <4>2 DEF ListInv, IndexConsistent
        <5>2. QED
          BY <2>2, <2>3, <2>4, <4>2, <5>1
      <4>3. QED
        BY <2>4, <4>1, <4>2
    <3>2. ASSUME NEW k \in DOMAIN queue'
          PROVE  queue'[k].mint \in DOMAIN map' /\ map'[queue'[k].mint] = k - 1
      <4>1. CASE k \in DOMAIN queue
        <5>1. queue[k].mint \in DOMAIN map /\ map[queue[k].mint] = k - 1
          BY <4>1 DEF ListInv, IndexConsistent
        <5>2. QED
          BY <2>2, <2>3, <2>4, <4>1, <5>1
      <4>2. CASE k = Len(queue) + 1
        BY <2>1, <2>2, <2>3, <2>4, <4>2
      <4>3. QED
        BY <2>2, <2>3, <4>1, <4>2
    <3>3. QED
      BY <3>1, <3>2 DEF IndexConsistent
  <2>7. CountersMatch'
    BY <1>2, <2>2, <2>3 DEF ListInv, ListType, CountersMatch
  <2>8. QED
    BY <2>5, <2>6, <2>7 DEF ListInv
<1>3. QED
  BY <1>1, <1>2 DEF AddMint

LEMMA RemoveKeeps ==
    ASSUME ListInv, NEW m, RemoveMint(m)
    PROVE  ListInv'
<1>0. queue \in Seq(Candidate) /\ Len(queue) \in Nat /\ DOMAIN queue = 1..Len(queue)
  BY LenProperties DEF ListInv, ListType
<1>1. CASE m \notin DOMAIN map
  <2>1. /\ DOMAIN map' = DOMAIN map
        /\ \A x \in DOMAIN map : map'[x] = map[x]
        /\ UNCHANGED <<queue, totalAdded, totalRemoved>>
    BY <1>1 DEF RemoveMint
  <2>2. QED
    BY <2>1 DEF ListInv, ListType, IndexConsistent, CountersMatch
<1>2. CASE m \in DOMAIN map
  <2> DEFINE at == map[m] + 1
  <2>1. map[m] \in Nat /\ at \in 1..Len(queue) /\ queue[at].mint = m
    BY <1>0, <1>2 DEF ListInv, ListType, IndexConsistent
  <2>2. /\ queue' = RemoveAt(queue, at)
        /\ DOMAIN map' = DOMAIN map \ {m}
        /\ \A x \in DOMAIN map \ {m} :
              map'[x] = IF map[x] > map[m] THEN map[x] - 1 ELSE map[x]
        /\ totalRemoved' = totalRemoved + 1
        /\ totalAdded' = totalAdded
    BY <1>0, <1>2, <2>1 DEF RemoveMint
  <2>3. at = map[m] + 1
    OBVIOUS
  <2> HIDE DEF at
  <2>4. /\ queue' \in Seq(Candidate) /\ Len(queue') = Len(queue) - 1
        /\ DOMAIN queue' = 1..(Len(queue) - 1)
        /\ \A k \in 1..(Len(queue) - 1) :
              queue'[k] = IF k < at THEN queue[k] ELSE queue[k + 1]
    <3>1. at \in DOMAIN queue
      BY <1>0, <2>1
    <3>2. RemoveAt(queue, at) \in Seq(Candidate) /\ Len(RemoveAt(queue, at)) = Len(queue) - 1
      BY <1>0, <3>1, RemoveAtType
    <3>3. /\ DOMAIN RemoveAt(queue, at) = 1..(Len(queue) - 1)
          /\ \A k \in 1..(Len(queue) - 1) :
                RemoveAt(queue, at)[k] = IF k < at THEN queue[k] ELSE queue[k + 1]
      BY <1>0, <3>1, RemoveAtElements
    <3>4. QED
      BY <2>2, <3>2, <3>3
  <2>5. \A x \in DOMAIN map \ {m} :
            /\ map[x] \in Nat /\ map[x] + 1 \in 1..Len(queue)
            /\ queue[map[x] + 1].mint = x
            /\ map[x] # map[m]
    BY <1>0, <2>1, <2>3 DEF ListInv, ListType, IndexConsistent
  <2>6. ASSUME NEW x \in DOMAIN map'
        PROVE  /\ map'[x] \in Nat
               /\ map'[x] + 1 \in DOMAIN queue' /\ queue'[map'[x] + 1].mint = x
    <3>1. CASE map[x] > map[m]
      <4>1. map'[x] = map[x] - 1 /\ map[x] \in 1..(Len(queue) - 1) /\ ~(map[x] < at)
        BY <1>0, <2>1, <2>2, <2>3, <2>5, <3>1
      <4>2. queue'[map[x]] = queue[map[x] + 1]
        BY <2>4, <4>1
      <4>3. map'[x] + 1 = map[x] /\ map'[x] \in Nat
        BY <4>1
      <4>4. QED
        BY <2>2, <2>4, <2>5, <4>1, <4>2, <4>3
    <3>2. CASE ~(map[x] > map[m])
      <4>1. /\ map'[x] = map[x] /\ map[x] \in Nat
            /\ map[x] + 1 \in 1..(Len(queue) - 1) /\ map[x] + 1 < at
        BY <1>0, <2>1, <2>2, <2>3, <2>5, <3>2
      <4>2. queue'[map[x] + 1] = queue[map[x] + 1]
        BY <2>4, <4>1
      <4>3. QED
        BY <2>2, <2>4, <2>5, <4>1, <4>2
    <3>3. QED
      BY <3>1, <3>2
  <2>7. ASSUME NEW k \in DOMAIN queue'
        PROVE  queue'[k].mint \in DOMAIN map' /\ map'[queue'[k].mint] = k - 1
    <3> DEFINE old == IF k < at THEN k ELSE k + 1
    <3>1. old \in 1..Len(queue) /\ old # at /\ queue'[k] = queue[old] /\ k \in Nat
      BY <1>0, <2>1, <2>4
    <3>2. queue[old].mint \in DOMAIN map /\ map[queue[old].mint] = old - 1
      BY <1>0, <3>1 DEF ListInv, IndexConsistent
    <3>3. queue[old].mint # m
      BY <2>1, <2>3, <3>1, <3>2
    <3>4. map'[queue[old].mint] = IF old - 1 > map[m] THEN old - 2 ELSE old - 1
      BY <2>1, <2>2, <3>1, <3>2, <3>3
    <3>5. (IF old - 1 > map[m] THEN old - 2 ELSE old - 1) = k - 1
      BY <2>1, <2>3, <3>1
    <3>6. QED
      BY <2>2, <3>1, <3>2, <3>3, <3>4, <3>5
  <2>8. ListType'
    BY <2>2, <2>4, <2>6 DEF ListInv, ListType
  <2>9. IndexConsistent'
    BY <2>6, <2>7 DEF IndexConsistent
  <2>10. CountersMatch'
    BY <1>0, <2>2, <2>4 DEF ListInv, ListType, CountersMatch
  <2>11. QED
    BY <2>8, <2>9, <2>10 DEF ListInv
<1>3. QED
  BY <1>1, <1>2

(* A change of the candidates in their places that keeps their mints.      *)
LEMMA InPlaceKeeps ==
    ASSUME ListInv, UNCHANGED <<map, totalAdded, totalRemoved>>,
           queue' = [k \in DOMAIN queue |-> queue'[k]],
           \A k \in DOMAIN queue : queue'[k] \in Candidate /\ queue'[k].mint = queue[k].mint
    PROVE  ListInv'
<1>1. DOMAIN queue' = DOMAIN queue
  BY Zenon
<1>2. queue' \in Seq(Candidate) /\ Len(queue') = Len(queue)
  BY <1>1, InPlaceType DEF ListInv, ListType
<1>3. QED
  BY <1>1, <1>2 DEF ListInv, ListType, IndexConsistent, CountersMatch

-----------------------------------------------------------------------------
(* Init has the list invariant, and every step keeps it.                   *)

LEMMA ListInit == Init => ListInv
BY DEF Init, ListInv, ListType, IndexConsistent, CountersMatch

LEMMA UpdateKeeps ==
    ASSUME ListInv, NEW m \in Mints, NEW tpm \in TpmValues, NEW p \in PressureValues,
           UpdateCandidateMetrics(m, tpm, p)
    PROVE  ListInv'
<1>1. queue \in Seq(Candidate) /\ DOMAIN queue = 1..Len(queue) /\ Len(queue) \in Nat
  BY LenProperties DEF ListInv, ListType
<1>2. tpm \in Nat /\ p \in Nat
  BY WatchListAssumption DEF WatchListAssumption
<1>3. ASSUME NEW k \in DOMAIN queue
      PROVE  queue'[k] \in Candidate /\ queue'[k].mint = queue[k].mint
  <2> DEFINE grade == CalculateScore(tpm, p, queue[k].age)
  <2>1. queue[k] \in Candidate
    BY <1>1, <1>3
  <2>2. grade \in 0..100
    BY <1>2 DEF CalculateScore, Grade, Freshness
  <2>3. queue'[k] = IF queue[k].mint = m
                    THEN [queue[k] EXCEPT !.tpm = tpm, !.pressure = p, !.score = grade]
                    ELSE queue[k]
    BY DEF UpdateCandidateMetrics
  <2> HIDE DEF grade
  <2>4. QED
    BY <1>2, <2>1, <2>2, <2>3 DEF Candidate
<1>4. queue' = [k \in DOMAIN queue |-> queue'[k]]
  BY DEF UpdateCandidateMetrics
<1>5. QED
  BY <1>3, <1>4, InPlaceKeeps DEF UpdateCandidateMetrics

LEMMA TickKeeps ==
    ASSUME ListInv, Tick
    PROVE  ListInv'
<1>1. queue \in Seq(Candidate) /\ DOMAIN queue = 1..Len(queue) /\ Len(queue) \in Nat
  BY LenProperties DEF ListInv, ListType
<1>2. ASSUME NEW k \in DOMAIN queue
      PROVE  queue'[k] \in Candidate /\ queue'[k].mint = queue[k].mint
  <2>1. queue[k] \in Candidate
    BY <1>1, <1>2
  <2>2. Older(queue[k].age) \in Age
    BY <2>1, WatchListAssumption DEF WatchListAssumption, Candidate, Age, Older
  <2>3. queue'[k] = [queue[k] EXCEPT !.age = Older(@)]
    BY DEF Tick
  <2>4. QED
    BY <2>1, <2>2, <2>3 DEF Candidate
<1>3. queue' = [k \in DOMAIN queue |-> queue'[k]]
  BY DEF Tick
<1>4. QED
  BY <1>2, <1>3, InPlaceKeeps DEF Tick

LEMMA ListStep == ListInv /\ [Next]_vars => ListInv'
<1> SUFFICES ASSUME ListInv, [Next]_vars
             PROVE  ListInv'
  OBVIOUS
<1>1. ASSUME UNCHANGED list
      PROVE  ListInv'
  BY <1>1 DEF list, ListInv, ListType, IndexConsistent, CountersMatch
<1>2. ASSUME NEW m \in Mints, PoolEvent(m)
      PROVE  ListInv'
  BY <1>2, AddKeeps DEF PoolEvent
<1>3. ASSUME NEW m \in Mints, AddCandidate(m)
      PROVE  ListInv'
  BY <1>2, <1>3 DEF AddCandidate
<1>4. ASSUME NEW m \in Mints, RemoveCandidate(m)
      PROVE  ListInv'
  BY <1>4, RemoveKeeps DEF RemoveCandidate
<1>5. CASE Check
  <2>1. CASE BeginCheck
    BY <1>1, <2>1 DEF BeginCheck
  <2>2. CASE PruneOne
    BY <2>2, RemoveKeeps DEF PruneOne
  <2>3. CASE Trigger
    BY <1>1, <2>3 DEF Trigger
  <2>4. CASE NothingToBuy
    BY <1>1, <2>4 DEF NothingToBuy
  <2>5. QED
    BY <1>5, <2>1, <2>2, <2>3, <2>4 DEF Check
<1>6. CASE Start
  BY <1>1, <1>6 DEF Start
<1>7. CASE Tick
  BY <1>7, TickKeeps
<1>8. CASE UNCHANGED vars
  BY <1>1, <1>8 DEF vars
<1>9. QED
  BY <1>2, <1>3, <1>4, <1>5, <1>6, <1>7, <1>8, UpdateKeeps DEF Next

(* The list invariant holds in every state.                                *)
THEOREM ListHolds == Spec => []ListInv
BY ListInit, ListStep, PTL DEF Spec

(* GoldList::remove shifts the index as Vec::remove shifts the queue: the  *)
(* two agree in every state, those between two removals of a prune too.    *)
THEOREM IndexAgrees == Spec => []IndexConsistent
<1>1. ListInv => IndexConsistent
  BY DEF ListInv
<1>2. QED
  BY <1>1, ListHolds, PTL

(* total_added and total_removed account for every candidate of the list,  *)
(* whatever add refuses and however often remove misses.                   *)
THEOREM CountersAddUp == Spec => []CountersMatch
<1>1. ListInv => CountersMatch
  BY DEF ListInv
<1>2. QED
  BY <1>1, ListHolds, PTL

-----------------------------------------------------------------------------
(* Types of the rest of the state.                                         *)

RestType ==
    /\ DOMAIN map \subseteq Mints
    /\ history \in [Mints -> Seq(Nat)]
    /\ \A m \in Mints : Len(history[m]) <= 2
    /\ monitor \in {"new", "asleep", "pruning"}
    /\ doomed \subseteq Mints /\ turned \in BOOLEAN
    /\ \A c \in bought : c \in Candidate

LEMMA TypeParts == TypeOK <=> ListType /\ RestType
BY DEF TypeOK, ListType, RestType

LEMMA PushedType ==
    ASSUME NEW h \in Seq(Nat), Len(h) <= 2, NEW p \in Nat
    PROVE  Pushed(h, p) \in Seq(Nat) /\ Len(Pushed(h, p)) <= 2
<1>1. CASE Len(h) = 2
  <2>1. h[2] \in Nat
    <3>1. 2 \in 1..Len(h)
      BY <1>1
    <3>2. QED
      BY <3>1, ElementOfSeq
  <2>2. QED
    BY <1>1, <2>1 DEF Pushed
<1>2. CASE Len(h) # 2
  <2>1. Append(h, p) \in Seq(Nat) /\ Len(Append(h, p)) = Len(h) + 1 /\ Len(h) \in Nat
    BY AppendProperties, LenProperties
  <2>2. Pushed(h, p) = Append(h, p)
    BY <1>2 DEF Pushed
  <2>3. Len(h) + 1 <= 2
    <3> DEFINE n == Len(h)
    <3>1. n \in Nat /\ n <= 2 /\ n # 2
      BY <1>2, <2>1
    <3> HIDE DEF n
    <3>2. n + 1 <= 2
      BY <3>1
    <3>3. QED
      BY <3>2 DEF n
  <2>4. QED
    BY <2>1, <2>2, <2>3, Zenon
<1>3. QED
  BY <1>1, <1>2

(* The candidates of the queue that a check dooms are some of the mints.   *)
LEMMA CandidateMints ==
    ASSUME ListType, NEW k \in DOMAIN queue
    PROVE  queue[k] \in Candidate /\ queue[k].mint \in Mints /\ queue[k].pressure \in Nat
<1>1. queue[k] \in Candidate
  BY LenProperties DEF ListType
<1>2. QED
  BY <1>1 DEF Candidate

LEMMA HistoryKeeps ==
    ASSUME RestType, NEW m \in Mints, NEW p \in Nat,
           history' = [history EXCEPT ![m] = Pushed(@, p)]
    PROVE  history' \in [Mints -> Seq(Nat)] /\ \A x \in Mints : Len(history'[x]) <= 2
<1>1. history[m] \in Seq(Nat) /\ Len(history[m]) <= 2
  BY DEF RestType
<1>2. Pushed(history[m], p) \in Seq(Nat) /\ Len(Pushed(history[m], p)) <= 2
  BY <1>1, PushedType
<1>3. QED
  BY <1>2 DEF RestType

LEMMA RestInit == Init => RestType
<1>1. Init => turned \in BOOLEAN
  BY Zenon DEF Init
<1>2. Init => (turned \in BOOLEAN => RestType)
  BY DEF Init, RestType
<1>3. QED
  BY <1>1, <1>2

LEMMA RestStep ==
    ASSUME ListInv, RestType, [Next]_vars
    PROVE  RestType'
<1>0. ListType
  BY DEF ListInv
<1>1. ASSUME NEW m \in Mints, PoolEvent(m) PROVE RestType'
  BY <1>1 DEF PoolEvent, AddMint, list, RestType
<1>2. ASSUME NEW m \in Mints, AddCandidate(m) PROVE RestType'
  BY <1>1, <1>2 DEF AddCandidate
<1>3. ASSUME NEW m, RemoveMint(m) PROVE DOMAIN map' \subseteq Mints
  BY <1>3 DEF RemoveMint, RestType
<1>4. ASSUME NEW m \in Mints, RemoveCandidate(m) PROVE RestType'
  <2>1. history' \in [Mints -> Seq(Nat)] /\ \A x \in Mints : Len(history'[x]) <= 2
    <3>1. history' = [history EXCEPT ![m] = <<>>] /\ <<>> \in Seq(Nat) /\ Len(<<>>) = 0
      BY <1>4 DEF RemoveCandidate
    <3>2. QED
      BY <3>1 DEF RestType
  <2>2. QED
    BY <1>3, <1>4, <2>1 DEF RemoveCandidate, RestType
<1>5. ASSUME NEW m \in Mints, NEW tpm \in TpmValues, NEW p \in PressureValues,
             UpdateCandidateMetrics(m, tpm, p)
      PROVE  RestType'
  <2>1. history' \in [Mints -> Seq(Nat)] /\ \A x \in Mints : Len(history'[x]) <= 2
    BY <1>5, HistoryKeeps, WatchListAssumption DEF WatchListAssumption, UpdateCandidateMetrics
  <2>2. QED
    BY <1>5, <2>1 DEF UpdateCandidateMetrics, RestType
<1>6. CASE Start
  BY <1>6 DEF Start, list, RestType
<1>7. CASE BeginCheck
  <2>1. doomed' \subseteq Mints
    BY <1>0, <1>7, CandidateMints DEF BeginCheck
  <2>2. QED
    BY <1>7, <2>1 DEF BeginCheck, list, RestType
<1>8. CASE PruneOne
  BY <1>3, <1>8 DEF PruneOne, RestType
<1>9. CASE Trigger
  <2>1. PICK k \in DOMAIN queue :
            /\ bought' = {queue[k]}
            /\ history' = [history EXCEPT ![queue[k].mint] = Pushed(@, queue[k].pressure)]
    BY <1>9 DEF Trigger
  <2>2. history' \in [Mints -> Seq(Nat)] /\ \A x \in Mints : Len(history'[x]) <= 2
    BY <1>0, <2>1, CandidateMints, HistoryKeeps
  <2>3. \A c \in bought' : c \in Candidate
    BY <1>0, <2>1, CandidateMints
  <2>4. QED
    BY <1>9, <2>2, <2>3 DEF Trigger, list, RestType
<1>10. CASE NothingToBuy
  BY <1>10 DEF NothingToBuy, list, RestType
<1>11. CASE Tick
  BY <1>11 DEF Tick, RestType
<1>12. CASE UNCHANGED vars
  BY <1>12 DEF vars, list, RestType
<1>13. QED
  BY <1>1, <1>2, <1>4, <1>5, <1>6, <1>7, <1>8, <1>9, <1>10, <1>11, <1>12 DEF Next, Check

(* Every variable has its type; of the buy pressures of a token no more    *)
(* than two are kept.                                                      *)
THEOREM WatchListTypeCorrect == Spec => []TypeOK
<1>1. ListInv /\ RestType => TypeOK
  BY TypeParts DEF ListInv
<1>2. QED
  BY <1>1, ListInit, ListStep, RestInit, RestStep, PTL DEF Spec

-----------------------------------------------------------------------------
(* What a check should remove it never buys.  While the prune is under way *)
(* every candidate still in the queue is doomed or fit, but for the second *)
(* that turned: the index leads each removal to its own candidate.         *)

Late == IF turned THEN 1 ELSE 0

OthersAreFit ==
    monitor = "pruning" =>
        \A k \in DOMAIN queue : queue[k].mint \notin doomed => Fit(queue[k], Late)

FitInv == OthersAreFit /\ BoughtIsNotStale

LEMMA RemoveLeaves ==
    ASSUME ListInv, ListInv', NEW m, RemoveMint(m), NEW k \in DOMAIN queue'
    PROVE  /\ queue'[k].mint # m
           /\ \E j \in DOMAIN queue : queue'[k] = queue[j]
<1>1. queue \in Seq(Candidate) /\ Len(queue) \in Nat /\ DOMAIN queue = 1..Len(queue)
  BY LenProperties DEF ListInv, ListType
<1>2. queue'[k].mint # m
  BY DEF ListInv, IndexConsistent, RemoveMint
<1>3. CASE m \in DOMAIN map
  <2> DEFINE at == map[m] + 1
  <2>1. at \in DOMAIN queue /\ map[m] \in Nat
    BY <1>3 DEF ListInv, ListType, IndexConsistent
  <2>2. queue' = RemoveAt(queue, at)
    BY <1>1, <1>3, <2>1 DEF RemoveMint
  <2> HIDE DEF at
  <2>3. /\ k \in 1..(Len(queue) - 1)
        /\ queue'[k] = IF k < at THEN queue[k] ELSE queue[k + 1]
    BY <1>1, <2>1, <2>2, RemoveAtElements
  <2>4. QED
    BY <1>1, <1>2, <2>3
<1>4. CASE m \notin DOMAIN map
  BY <1>2, <1>4 DEF RemoveMint
<1>5. QED
  BY <1>3, <1>4

(* A second more, of a candidate in its place.                             *)
LEMMA TickAges ==
    ASSUME ListInv, Tick, NEW k \in DOMAIN queue
    PROVE  /\ queue[k].age \in Nat /\ queue[k].age <= AgeCap
           /\ queue'[k].age = Older(queue[k].age)
           /\ queue'[k].tpm = queue[k].tpm /\ queue'[k].mint = queue[k].mint
<1>1. queue[k] \in Candidate
  BY LenProperties DEF ListInv, ListType
<1>2. queue'[k] = [queue[k] EXCEPT !.age = Older(@)]
  BY DEF Tick
<1>3. AgeCap \in Nat
  BY WatchListAssumption DEF WatchListAssumption
<1>4. QED
  BY <1>1, <1>2, <1>3 DEF Candidate, Age

LEMMA FitTick ==
    ASSUME ListInv, FitInv, Tick, turned \in BOOLEAN
    PROVE  FitInv'
<1>1. bought' = bought /\ doomed' = doomed /\ monitor' = monitor /\ DOMAIN queue' = DOMAIN queue
  BY DEF Tick
<1>2. ASSUME monitor = "pruning", NEW k \in DOMAIN queue, queue'[k].mint \notin doomed
      PROVE  Fit(queue'[k], Late')
  <2>1. Late = 0 /\ Late' = 1
    BY <1>2 DEF Tick, Late
  <2>2. Fit(queue[k], 0)
    BY <1>2, <2>1, TickAges DEF FitInv, OthersAreFit
  <2>3. StaleSeconds \in Nat /\ AgeCap \in Nat
    BY WatchListAssumption DEF WatchListAssumption
  <2>4. QED
    BY <2>1, <2>2, <2>3, TickAges DEF Fit, Older
<1>3. QED
  BY <1>1, <1>2 DEF FitInv, OthersAreFit, BoughtIsNotStale

LEMMA FitStep ==
    ASSUME ListInv, RestType, FitInv, [Next]_vars
    PROVE  FitInv'
<1>0. OthersAreFit /\ BoughtIsNotStale /\ ListInv' /\ turned \in BOOLEAN
  BY ListStep DEF FitInv, RestType
<1>1. ASSUME monitor' # "pruning", UNCHANGED bought PROVE FitInv'
  BY <1>0, <1>1 DEF FitInv, OthersAreFit, BoughtIsNotStale
<1>2. ASSUME NEW m \in Mints, PoolEvent(m) \/ AddCandidate(m) \/ RemoveCandidate(m)
      PROVE  FitInv'
  BY <1>1, <1>2 DEF PoolEvent, AddCandidate, RemoveCandidate, ListFree, GuardFree
<1>3. ASSUME NEW m, NEW tpm, NEW p, UpdateCandidateMetrics(m, tpm, p) PROVE FitInv'
  BY <1>1, <1>3 DEF UpdateCandidateMetrics, GuardFree
<1>4. CASE Start \/ NothingToBuy
  BY <1>1, <1>4 DEF Start, NothingToBuy
<1>5. CASE BeginCheck
  <2>1. queue' = queue /\ bought' = {} /\ turned' = turned
    BY <1>5 DEF BeginCheck, list
  <2>2. ASSUME NEW k \in DOMAIN queue, queue[k].mint \notin doomed'
        PROVE  Fit(queue[k], Late')
    <3>1. ~ShouldRemove(queue[k])
      BY <1>5, <2>2 DEF BeginCheck
    <3>2. queue[k].age \in Nat /\ queue[k].tpm \in Nat /\ StaleSeconds \in Nat
      <4>1. queue[k] \in Candidate
        BY LenProperties DEF ListInv, ListType
      <4>2. QED
        BY <4>1, WatchListAssumption DEF WatchListAssumption, Candidate, Age
    <3>3. Late' \in {0, 1}
      BY DEF Late
    <3>4. QED
      BY <3>1, <3>2, <3>3 DEF ShouldRemove, Fit
  <2>3. QED
    BY <2>1, <2>2 DEF FitInv, OthersAreFit, BoughtIsNotStale
<1>6. CASE PruneOne
  <2>1. PICK m \in doomed : RemoveMint(m) /\ doomed' = doomed \ {m}
    BY <1>6 DEF PruneOne
  <2>2. monitor = "pruning" /\ bought' = bought /\ Late' = Late
    BY <1>6 DEF PruneOne, Late
  <2>3. ASSUME NEW k \in DOMAIN queue', queue'[k].mint \notin doomed'
        PROVE  Fit(queue'[k], Late')
    <3>1. PICK j \in DOMAIN queue : queue'[k] = queue[j]
      BY <1>0, <2>1, RemoveLeaves
    <3>2. queue'[k].mint # m
      BY <1>0, <2>1, RemoveLeaves
    <3>3. QED
      BY <1>0, <2>1, <2>2, <2>3, <3>1, <3>2 DEF OthersAreFit
  <2>4. QED
    BY <1>0, <2>2, <2>3 DEF FitInv, OthersAreFit, BoughtIsNotStale
<1>7. CASE Trigger
  <2>1. PICK k \in DOMAIN queue : bought' = {queue[k]}
    BY <1>7 DEF Trigger
  <2>2. Fit(queue[k], Late) /\ Late \in {0, 1}
    BY <1>0, <1>7, <2>1 DEF Trigger, OthersAreFit, Late
  <2>3. Fit(queue[k], 1)
    <3>1. queue[k] \in Candidate
      BY LenProperties DEF ListInv, ListType
    <3>2. queue[k].age \in Nat /\ StaleSeconds \in Nat
      BY <3>1, WatchListAssumption DEF WatchListAssumption, Candidate, Age
    <3>3. QED
      BY <2>2, <3>2 DEF Fit
  <2>4. monitor' # "pruning"
    BY <1>7 DEF Trigger
  <2>5. QED
    BY <2>1, <2>3, <2>4 DEF FitInv, OthersAreFit, BoughtIsNotStale
<1>8. CASE Tick
  BY <1>0, <1>8, FitTick
<1>9. CASE UNCHANGED vars
  BY <1>0, <1>9 DEF vars, list, FitInv, OthersAreFit, BoughtIsNotStale, Late
<1>10. QED
  BY <1>2, <1>3, <1>4, <1>5, <1>6, <1>7, <1>8, <1>9 DEF Next, Check

(* prune_stale removes from a list that shifts under it, by mints noted    *)
(* before the first removal, and yet no stale candidate is left to buy,    *)
(* but for one that the second which turns in the check makes stale.       *)
THEOREM StaleNeverBought == Spec => []BoughtIsNotStale
<1>1. Init => FitInv
  BY DEF Init, FitInv, OthersAreFit, BoughtIsNotStale
<1>2. FitInv => BoughtIsNotStale
  BY DEF FitInv
<1>3. QED
  BY <1>1, <1>2, ListInit, ListStep, RestInit, RestStep, FitStep, PTL DEF Spec


-----------------------------------------------------------------------------
(* Queue, index and counters implement a bounded set of tokens.            *)

LEMMA QueuedIsIndexed == ListInv => Queued = DOMAIN map
BY DEF ListInv, IndexConsistent, Queued

LEMMA QueuedAgain == ListInv' => Queued' = DOMAIN map'
BY DEF ListInv, IndexConsistent, Queued

(* The index is one to one, so the set is as large as the queue is long.   *)
LEMMA QueuedSize ==
    ASSUME ListInv
    PROVE  Cardinality(Queued) = Len(queue)
<1> DEFINE f == [k \in 1..Len(queue) |-> queue[k].mint]
<1>1. Len(queue) \in Nat /\ DOMAIN queue = 1..Len(queue)
  BY LenProperties DEF ListInv, ListType
<1>2. f \in Surjection(1..Len(queue), Queued)
  BY <1>1 DEF Surjection, Queued
<1>3. \A i, j \in 1..Len(queue) : f[i] = f[j] => i = j
  <2>1. \A k \in 1..Len(queue) : map[f[k]] = k - 1
    BY <1>1 DEF ListInv, IndexConsistent
  <2> HIDE DEF f
  <2>2. QED
    BY <1>1, <2>1
<1>4. f \in Injection(1..Len(queue), Queued)
  BY <1>2, <1>3 DEF Injection, Surjection, IsInjective
<1>5. IsFiniteSet(1..Len(queue)) /\ Cardinality(1..Len(queue)) = Len(queue)
  <2>1. ASSUME NEW n \in Nat PROVE IsFiniteSet(1..n) /\ Cardinality(1..n) = n
    BY FS_Interval
  <2>2. QED
    BY <1>1, <2>1, Zenon
<1>6. QED
  BY <1>2, <1>4, <1>5, FS_Surjection

(* CandidateSet counts as this module does.                                *)
LEMMA SameCardinality == \A S : Candidates!Cardinality(S) = Cardinality(S)
BY DEF Candidates!Cardinality, Cardinality, Candidates!IsFiniteSet, IsFiniteSet

SetUnchanged == UNCHANGED <<Queued, totalAdded, totalRemoved>>

LEMMA AddIsAdd ==
    ASSUME ListInv, ListInv', NEW m \in Mints, AddMint(m)
    PROVE  Candidates!Add(m) \/ SetUnchanged
<1>1. CASE UNCHANGED list
  BY <1>1 DEF list, Queued, SetUnchanged
<1>2. CASE ~UNCHANGED list
  <2>1. /\ ~(Len(queue) >= MaxGoldListSize) /\ m \notin DOMAIN map
        /\ DOMAIN map' = DOMAIN map \cup {m}
        /\ totalAdded' = totalAdded + 1 /\ UNCHANGED totalRemoved
    BY <1>2 DEF AddMint
  <2>2. Len(queue) < MaxGoldListSize
    <3>1. Len(queue) \in Nat
      BY LenProperties DEF ListInv, ListType
    <3>2. QED
      BY <2>1, <3>1, WatchListAssumption DEF WatchListAssumption
  <2>3. Candidates!Cardinality(Queued) < MaxGoldListSize
    BY <2>2, QueuedSize, SameCardinality, Zenon
  <2>4. QED
    BY <2>1, <2>3, QueuedIsIndexed, QueuedAgain, Zenon DEF Candidates!Add
<1>3. QED
  BY <1>1, <1>2

LEMMA RemoveIsRemove ==
    ASSUME ListInv, ListInv', NEW m \in Mints, RemoveMint(m)
    PROVE  /\ Candidates!Remove(m) \/ SetUnchanged
           /\ Queued' = Queued \ {m}
<1>1. CASE m \notin DOMAIN map
  <2>1. DOMAIN map' = DOMAIN map \ {m} /\ UNCHANGED <<queue, totalAdded, totalRemoved>>
    BY <1>1 DEF RemoveMint
  <2>2. Queued' = Queued /\ Queued' = Queued \ {m}
    BY <1>1, <2>1, QueuedIsIndexed, QueuedAgain DEF Queued
  <2>3. QED
    BY <2>1, <2>2 DEF SetUnchanged
<1>2. CASE m \in DOMAIN map
  <2>1. map[m] < Len(queue)
    <3>1. Len(queue) \in Nat /\ DOMAIN queue = 1..Len(queue)
      BY LenProperties DEF ListInv, ListType
    <3>2. map[m] \in Nat /\ map[m] + 1 \in DOMAIN queue
      BY <1>2 DEF ListInv, ListType, IndexConsistent
    <3>3. QED
      BY <3>1, <3>2
  <2>2. /\ DOMAIN map' = DOMAIN map \ {m}
        /\ totalRemoved' = totalRemoved + 1 /\ totalAdded' = totalAdded
    BY <1>2, <2>1 DEF RemoveMint
  <2>3. Queued' = Queued \ {m} /\ m \in Queued
    BY <1>2, <2>2, QueuedIsIndexed, QueuedAgain, Zenon
  <2>4. QED
    BY <2>2, <2>3 DEF Candidates!Remove
<1>3. QED
  BY <1>1, <1>2

(* A step that keeps the place and the mint of every candidate.            *)
LEMMA SameMints ==
    ASSUME DOMAIN queue' = DOMAIN queue,
           \A k \in DOMAIN queue : queue'[k].mint = queue[k].mint
    PROVE  Queued' = Queued
BY DEF Queued

LEMMA UpdateSame ==
    ASSUME ListInv, NEW m, NEW tpm, NEW p, UpdateCandidateMetrics(m, tpm, p)
    PROVE  Queued' = Queued
<1>1. DOMAIN queue' = DOMAIN queue
  BY DEF UpdateCandidateMetrics
<1>2. \A k \in DOMAIN queue : queue'[k].mint = queue[k].mint
  <2> TAKE k \in DOMAIN queue
  <2>1. queue[k] \in Candidate
    BY LenProperties DEF ListInv, ListType
  <2>2. QED
    BY <2>1 DEF UpdateCandidateMetrics, Candidate
<1>3. QED
  BY <1>1, <1>2, SameMints

LEMMA TickSame ==
    ASSUME ListInv, Tick
    PROVE  Queued' = Queued
<1>1. DOMAIN queue' = DOMAIN queue
  BY DEF Tick
<1>2. \A k \in DOMAIN queue : queue'[k].mint = queue[k].mint
  <2> TAKE k \in DOMAIN queue
  <2>1. queue[k] \in Candidate
    BY LenProperties DEF ListInv, ListType
  <2>2. QED
    BY <2>1 DEF Tick, Candidate
<1>3. QED
  BY <1>1, <1>2, SameMints

LEMMA SetStep ==
    ASSUME ListInv, RestType, [Next]_vars
    PROVE  Candidates!Next \/ SetUnchanged
<1>0. ListInv'
  BY ListStep
<1>1. ASSUME NEW m \in Mints, PoolEvent(m) PROVE Candidates!Next \/ SetUnchanged
  BY <1>0, <1>1, AddIsAdd DEF PoolEvent, Candidates!Next
<1>2. ASSUME NEW m \in Mints, AddCandidate(m) PROVE Candidates!Next \/ SetUnchanged
  BY <1>1, <1>2 DEF AddCandidate
<1>3. ASSUME NEW m \in Mints, RemoveCandidate(m) PROVE Candidates!Next \/ SetUnchanged
  BY <1>0, <1>3, RemoveIsRemove DEF RemoveCandidate, Candidates!Next
<1>4. ASSUME NEW m, NEW tpm, NEW p, UpdateCandidateMetrics(m, tpm, p) PROVE SetUnchanged
  BY <1>4, UpdateSame DEF UpdateCandidateMetrics, SetUnchanged
<1>5. CASE Start \/ BeginCheck \/ Trigger \/ NothingToBuy
  BY <1>5 DEF Start, BeginCheck, Trigger, NothingToBuy, list, SetUnchanged, Queued
<1>6. CASE PruneOne
  <2>1. PICK m \in doomed : RemoveMint(m)
    BY <1>6 DEF PruneOne
  <2>2. m \in Mints
    BY <2>1 DEF RestType
  <2>3. QED
    BY <1>0, <2>1, <2>2, RemoveIsRemove DEF Candidates!Next
<1>7. CASE Tick
  BY <1>7, TickSame DEF Tick, SetUnchanged
<1>8. CASE UNCHANGED vars
  BY <1>8 DEF vars, list, SetUnchanged, Queued
<1>9. QED
  BY <1>1, <1>2, <1>3, <1>4, <1>5, <1>6, <1>7, <1>8 DEF Next, Check

(* The gold list is a set of at most MAX_GOLD_LIST_SIZE tokens: no token   *)
(* is in it twice, a full list takes none, the counters count just what    *)
(* came and what went, and this through every removal of a prune.          *)
THEOREM ListImplementsSet == Spec => ImplementsSet
<1>1. Init => Candidates!Init
  BY EmptySeq DEF Init, Candidates!Init, Queued
<1>2. ListInv /\ RestType /\ [Next]_vars
         => [Candidates!Next]_<<Queued, totalAdded, totalRemoved>>
  BY SetStep DEF SetUnchanged
<1>3. QED
  BY <1>1, <1>2, ListInit, ListStep, RestInit, RestStep, PTL
     DEF Spec, ImplementsSet, Candidates!Spec

-----------------------------------------------------------------------------
(* Nothing but a stale candidate leaves.  The other half of OthersAreFit:  *)
(* what a prune noted is stale, or has left the queue already.             *)

DoomedAreStale ==
    \A k \in DOMAIN queue :
        monitor = "pruning" /\ queue[k].mint \in doomed => ShouldRemove(queue[k])

LEMMA DoomedStep ==
    ASSUME ListInv, DoomedAreStale, [Next]_vars
    PROVE  DoomedAreStale'
<1>0. ListInv'
  BY ListStep
<1>1. ASSUME monitor' # "pruning" PROVE DoomedAreStale'
  BY <1>1 DEF DoomedAreStale
<1>2. ASSUME NEW m \in Mints, PoolEvent(m) \/ AddCandidate(m) \/ RemoveCandidate(m)
      PROVE  DoomedAreStale'
  BY <1>1, <1>2 DEF PoolEvent, AddCandidate, RemoveCandidate, ListFree, GuardFree
<1>3. ASSUME NEW m, NEW tpm, NEW p, UpdateCandidateMetrics(m, tpm, p) PROVE DoomedAreStale'
  BY <1>1, <1>3 DEF UpdateCandidateMetrics, GuardFree
<1>4. CASE Start \/ Trigger \/ NothingToBuy
  BY <1>1, <1>4 DEF Start, Trigger, NothingToBuy
<1>t. CASE Tick
  <2>1. doomed' = doomed /\ monitor' = monitor /\ DOMAIN queue' = DOMAIN queue
    BY <1>t DEF Tick
  <2>2. ASSUME NEW k \in DOMAIN queue, ShouldRemove(queue[k])
        PROVE  ShouldRemove(queue'[k])
    <3>1. StaleSeconds \in Nat /\ AgeCap \in Nat /\ StaleSeconds < AgeCap
      BY WatchListAssumption DEF WatchListAssumption
    <3>2. QED
      BY <1>t, <2>2, <3>1, TickAges DEF ShouldRemove, Older
  <2>3. \A k \in DOMAIN queue : queue'[k].mint = queue[k].mint
    BY <1>t, TickAges
  <2>4. QED
    BY <2>1, <2>2, <2>3 DEF DoomedAreStale
<1>5. CASE BeginCheck
  <2>1. queue' = queue
    BY <1>5 DEF BeginCheck, list
  <2>2. ASSUME NEW k \in DOMAIN queue, queue[k].mint \in doomed' PROVE ShouldRemove(queue[k])
    <3>1. PICK j \in DOMAIN queue : ShouldRemove(queue[j]) /\ queue[j].mint = queue[k].mint
      BY <1>5, <2>2 DEF BeginCheck
    <3>2. j = k
      <4>1. DOMAIN queue = 1..Len(queue) /\ Len(queue) \in Nat
        BY LenProperties DEF ListInv, ListType
      <4>2. map[queue[j].mint] = j - 1 /\ map[queue[k].mint] = k - 1
        BY DEF ListInv, IndexConsistent
      <4>3. QED
        BY <3>1, <4>1, <4>2
    <3>3. QED
      BY <3>1, <3>2
  <2>3. QED
    BY <2>1, <2>2 DEF DoomedAreStale
<1>6. CASE PruneOne
  <2>1. PICK m \in doomed : RemoveMint(m) /\ doomed' = doomed \ {m}
    BY <1>6 DEF PruneOne
  <2>2. monitor = "pruning"
    BY <1>6 DEF PruneOne
  <2>3. ASSUME NEW k \in DOMAIN queue', queue'[k].mint \in doomed' PROVE ShouldRemove(queue'[k])
    <3>1. PICK j \in DOMAIN queue : queue'[k] = queue[j]
      BY <1>0, <2>1, RemoveLeaves
    <3>2. QED
      BY <2>1, <2>2, <2>3, <3>1 DEF DoomedAreStale
  <2>4. QED
    BY <2>3 DEF DoomedAreStale
<1>7. CASE UNCHANGED vars
  BY <1>7 DEF vars, list, DoomedAreStale
<1>8. QED
  BY <1>2, <1>3, <1>4, <1>t, <1>5, <1>6, <1>7 DEF Next, Check

LEMMA LeaveStep ==
    ASSUME ListInv, RestType, DoomedAreStale, [Next]_vars, monitor # "new",
           NEW k \in DOMAIN queue, queue[k].mint \notin Queued'
    PROVE  ShouldRemove(queue[k])
<1>0. ListInv'
  BY ListStep
<1>1. ~(Queued \subseteq Queued')
  BY DEF Queued
<1>2. ASSUME NEW m \in Mints, PoolEvent(m) \/ AddCandidate(m) PROVE FALSE
  <2>1. AddMint(m)
    BY <1>2 DEF PoolEvent, AddCandidate
  <2>2. Queued \subseteq Queued'
    BY <1>0, <2>1, AddIsAdd DEF SetUnchanged, Candidates!Add
  <2>3. QED
    BY <1>1, <2>2
<1>3. ~\E m \in Mints : RemoveCandidate(m)
  BY DEF RemoveCandidate, GuardFree
<1>4. ~(Start \/ BeginCheck \/ Trigger \/ NothingToBuy \/ UNCHANGED vars)
  BY <1>1 DEF Start, BeginCheck, Trigger, NothingToBuy, vars, list, Queued
<1>5. ~Tick /\ ~\E m \in Mints, tpm \in TpmValues, p \in PressureValues :
                    UpdateCandidateMetrics(m, tpm, p)
  BY <1>1, TickSame, UpdateSame
<1>6. PruneOne
  BY <1>2, <1>3, <1>4, <1>5 DEF Next, Check
<1>7. PICK m \in doomed : RemoveMint(m)
  BY <1>6 DEF PruneOne
<1>8. m \in Mints /\ monitor = "pruning"
  BY <1>6, <1>7 DEF RestType, PruneOne
<1>9. Queued' = Queued \ {m} /\ queue[k].mint \in Queued
  BY <1>0, <1>7, <1>8, RemoveIsRemove DEF Queued
<1>10. queue[k].mint = m
  BY <1>9
<1>11. QED
  BY <1>7, <1>8, <1>10 DEF DoomedAreStale

(* While the monitor runs, a removal takes the candidate it was meant for, *)
(* and that one is stale: a fit candidate stays.                           *)
THEOREM FitStay == Spec => OnlyStaleLeave
<1>1. Init => DoomedAreStale
  BY DEF Init, DoomedAreStale
<1>2. ListInv /\ RestType /\ DoomedAreStale /\ [Next]_vars
         => (monitor # "new" => \A k \in DOMAIN queue :
                                    queue[k].mint \notin Queued' => ShouldRemove(queue[k]))
  BY LeaveStep
<1>3. QED
  BY <1>1, <1>2, ListInit, ListStep, RestInit, RestStep, DoomedStep, PTL
     DEF Spec, OnlyStaleLeave
=============================================================================
