----------------------------- MODULE WatchList ------------------------------
(***************************************************************************)
(* The gold list of src/velocity-sniper/src/gold_list.rs with the two      *)
(* tasks that share it: the pool task of strategy.rs, which fills it, and  *)
(* the watch monitor of watch_monitor.rs, which every 100 ms prunes it and *)
(* sends a Buy signal for its best candidate.                              *)
(*                                                                         *)
(* A check of the monitor is several steps, one for each candidate it      *)
(* removes; it holds the write lock of the list until it has chosen.       *)
(* Times are ages in seconds that stop growing at AgeCap; pressures are    *)
(* tenths.  No price ever reaches a candidate, so the price rules of the   *)
(* code see no drop and no change.  The clock is not set back here: a      *)
(* candidate from the future would count as stale, and go.                 *)
(***************************************************************************)
EXTENDS Integers, SequencesExt

CONSTANTS
    Mints,            \* the tokens of the pool events
    MaxGoldListSize,  \* MAX_GOLD_LIST_SIZE
    TpmValues,        \* the rates update_candidate_metrics may report
    PressureValues,   \* the buy pressures it may report, in tenths
    FreshSeconds,     \* the literal 60 of the two scores
    WarmSeconds,      \* the literal 120 of the two scores
    StaleSeconds,     \* the literal 300 of should_remove
    AgeCap,           \* bound: ages saturate here
    MaxAdds           \* bound: candidates added in all

ASSUME WatchListAssumption ==
    /\ MaxGoldListSize \in Nat \ {0}
    /\ TpmValues \subseteq Nat
    /\ PressureValues \subseteq Nat
    /\ FreshSeconds \in Nat /\ WarmSeconds \in Nat /\ StaleSeconds \in Nat
    /\ AgeCap \in Nat /\ StaleSeconds < AgeCap
    /\ MaxAdds \in Nat

ScoreThreshold     == 50
MinTpmForExecution == 30
MinBuyPressure     == 15

VARIABLES
    queue,         \* GoldList.queue
    map,           \* GoldList.map: mint -> position in the queue, from 0
    totalAdded,    \* GoldList.total_added
    totalRemoved,  \* GoldList.total_removed
    history,       \* the last two pressures of candidate_metrics, by mint
    monitor,       \* where the monitor's task stands
    doomed,        \* what is left of mints_to_remove in the prune under way
    turned,        \* a second has turned since the prune began; no code
    bought         \* candidates a Buy signal was sent for at the last check

list == <<queue, map, totalAdded, totalRemoved>>
vars == <<list, history, monitor, doomed, turned, bought>>

Age == 0..AgeCap

Candidate == [mint : Mints, age : Age, tpm : Nat, pressure : Nat, score : 0..100]

Init ==
    /\ queue = <<>> /\ map = << >>
    /\ totalAdded = 0 /\ totalRemoved = 0
    /\ history = [m \in Mints |-> <<>>]
    /\ monitor = "new"
    /\ doomed = {} /\ turned = FALSE
    /\ bought = {}

-----------------------------------------------------------------------------
(* GoldCandidate                                                           *)

NewCandidate(m) ==
    [mint |-> m, age |-> 0, tpm |-> 0, pressure |-> 0, score |-> 0]

Grade(value, high, low) == IF value >= high THEN 20 ELSE IF value >= low THEN 10 ELSE 0

Freshness(age) == IF age < FreshSeconds THEN 20 ELSE IF age < WarmSeconds THEN 10 ELSE 0

(* 20 for a price that has not changed, 20 for an address that long enough *)
CalculateScore(tpm, pressure, age) ==
    Grade(tpm, 80, 50) + Grade(pressure, 30, 20) + 20 + Freshness(age) + 20

RemoveSlow(c) == c.tpm < 20   \* a mutant: a candidate never goes stale

ShouldRemove(c) == c.tpm < 20 \/ c.age > StaleSeconds

-----------------------------------------------------------------------------
(* GoldList                                                                *)

(* A mutant: a full list takes one more.                                   *)
AddBeyond(m) ==
    IF Len(queue) > MaxGoldListSize \/ m \in DOMAIN map
    THEN UNCHANGED list
    ELSE /\ queue' = Append(queue, NewCandidate(m))
         /\ map' = [x \in DOMAIN map \cup {m} |->
                       IF x = m THEN Len(queue) ELSE map[x]]
         /\ totalAdded' = totalAdded + 1
         /\ UNCHANGED totalRemoved

AddMint(m) ==
    IF Len(queue) >= MaxGoldListSize \/ m \in DOMAIN map
    THEN UNCHANGED list
    ELSE /\ queue' = Append(queue, NewCandidate(m))
         /\ map' = [x \in DOMAIN map \cup {m} |->
                       IF x = m THEN Len(queue) ELSE map[x]]
         /\ totalAdded' = totalAdded + 1
         /\ UNCHANGED totalRemoved

(* A mutant: those behind the removed candidate keep their index.          *)
RemoveInPlace(m) ==
    IF m \in DOMAIN map /\ map[m] < Len(queue)
    THEN /\ queue' = RemoveAt(queue, map[m] + 1)
         /\ map' = [x \in DOMAIN map \ {m} |-> map[x]]
         /\ totalRemoved' = totalRemoved + 1
         /\ UNCHANGED totalAdded
    ELSE /\ map' = [x \in DOMAIN map \ {m} |-> map[x]]
         /\ UNCHANGED <<queue, totalAdded, totalRemoved>>

(* Those behind the removed candidate move up by one.                      *)
RemoveMint(m) ==
    IF m \in DOMAIN map /\ map[m] < Len(queue)
    THEN /\ queue' = RemoveAt(queue, map[m] + 1)
         /\ map' = [x \in DOMAIN map \ {m} |->
                       IF map[x] > map[m] THEN map[x] - 1 ELSE map[x]]
         /\ totalRemoved' = totalRemoved + 1
         /\ UNCHANGED totalAdded
    ELSE /\ map' = [x \in DOMAIN map \ {m} |-> map[x]]
         /\ UNCHANGED <<queue, totalAdded, totalRemoved>>

-----------------------------------------------------------------------------
(* The tasks.  The lock of the list is the monitor's while it checks; the  *)
(* guard of the WatchMonitor itself is start()'s for ever.                 *)

ListFree  == monitor \in {"new", "asleep"}

GuardFree == monitor = "new"

(* The pool task passes process() the same program and discriminator for   *)
(* every event, so the pre-check lets every pool through.                  *)
PoolEvent(m) ==
    /\ ListFree
    /\ totalAdded < MaxAdds
    /\ AddMint(m)
    /\ UNCHANGED <<history, monitor, doomed, turned, bought>>

AddCandidate(m) ==
    /\ GuardFree
    /\ PoolEvent(m)

RemoveCandidate(m) ==
    /\ GuardFree
    /\ RemoveMint(m)
    /\ history' = [history EXCEPT ![m] = <<>>]
    /\ UNCHANGED <<monitor, doomed, turned, bought>>

PushedOnly(h, p) == Append(h, p)   \* a mutant: the oldest is never dropped

Pushed(h, p) == IF Len(h) = 2 THEN <<h[2], p>> ELSE Append(h, p)

(* Two locks taken in turn, the list's and that of the pressures.  It is   *)
(* one step here because only the pool task can come between, which adds a *)
(* candidate and reads neither.                                            *)
UpdateCandidateMetrics(m, tpm, p) ==
    /\ GuardFree
    /\ queue' = [k \in DOMAIN queue |->
                    IF queue[k].mint = m
                    THEN [queue[k] EXCEPT !.tpm = tpm, !.pressure = p,
                              !.score = CalculateScore(tpm, p, queue[k].age)]
                    ELSE queue[k]]
    /\ history' = [history EXCEPT ![m] = Pushed(@, p)]
    /\ UNCHANGED <<map, totalAdded, totalRemoved, monitor, doomed, turned, bought>>

Start ==
    /\ monitor = "new"
    /\ monitor' = "asleep"
    /\ UNCHANGED <<list, history, doomed, turned, bought>>

(* check_and_trigger finds the list empty and goes back to sleep, or takes *)
(* the list's lock and lists what prune_stale will remove.                 *)
BeginCheck ==
    /\ monitor = "asleep"
    /\ queue # <<>>
    /\ monitor' = "pruning"
    /\ doomed' = {queue[k].mint : k \in {j \in DOMAIN queue : ShouldRemove(queue[j])}}
    /\ bought' = {}
    /\ UNCHANGED <<list, history, turned>>

(* They go in the order of the queue; one that has no index is passed over.*)
PruneOne ==
    /\ monitor = "pruning"
    /\ \E m \in doomed :
          /\ m \in DOMAIN map => \A x \in doomed \cap DOMAIN map : map[m] <= map[x]
          /\ RemoveMint(m)
          /\ doomed' = doomed \ {m}
    /\ UNCHANGED <<history, monitor, turned, bought>>

PressureDelta(m) == IF Len(history[m]) = 2 THEN history[m][2] - history[m][1] ELSE 0

PriorityScore(c) ==
    4 * PressureDelta(c.mint)
      + (IF c.tpm >= MinTpmForExecution THEN 30 ELSE 0)
      + (IF c.score >= ScoreThreshold THEN 20 ELSE IF c.score >= 60 THEN 10 ELSE 0)
      + Freshness(c.age) \div 2

CanTrigger(c) ==
    /\ c.score >= ScoreThreshold
    /\ c.tpm >= MinTpmForExecution
    /\ c.pressure >= MinBuyPressure
    /\ PressureDelta(c.mint) >= 0

(* The first candidate of the highest priority.                            *)
IsBest(k) ==
    /\ CanTrigger(queue[k])
    /\ \A j \in DOMAIN queue :
          CanTrigger(queue[j]) =>
             \/ PriorityScore(queue[j]) < PriorityScore(queue[k])
             \/ PriorityScore(queue[j]) = PriorityScore(queue[k]) /\ k <= j

(* The candidate stays in the list: the next check may send it again.      *)
Trigger ==
    /\ monitor = "pruning"
    /\ doomed = {}
    /\ \E k \in DOMAIN queue :
          /\ IsBest(k)
          /\ bought' = {queue[k]}
          /\ history' = [history EXCEPT ![queue[k].mint] = Pushed(@, queue[k].pressure)]
    /\ monitor' = "asleep" /\ turned' = FALSE
    /\ UNCHANGED <<list, doomed>>

NothingToBuy ==
    /\ monitor = "pruning"
    /\ doomed = {}
    /\ \A k \in DOMAIN queue : ~CanTrigger(queue[k])
    /\ monitor' = "asleep" /\ turned' = FALSE
    /\ UNCHANGED <<list, history, doomed, bought>>

Check == BeginCheck \/ PruneOne \/ Trigger \/ NothingToBuy

Older(age) == IF age < AgeCap THEN age + 1 ELSE age

(* A check awaits nothing between its first lock and its choice, so one    *)
(* second turns in it at most; if it does, the choice sees a later time    *)
(* than the prune did.                                                     *)
Tick ==
    /\ monitor = "pruning" => ~turned
    /\ turned' = (monitor = "pruning")
    /\ queue' = [k \in DOMAIN queue |-> [queue[k] EXCEPT !.age = Older(@)]]
    /\ UNCHANGED <<map, totalAdded, totalRemoved, history, monitor, doomed, bought>>

Next ==
    \/ \E m \in Mints : PoolEvent(m) \/ AddCandidate(m) \/ RemoveCandidate(m)
    \/ \E m \in Mints, tpm \in TpmValues, p \in PressureValues :
          UpdateCandidateMetrics(m, tpm, p)
    \/ Start \/ Check \/ Tick

Spec == Init /\ [][Next]_vars

(* The runtime polls the monitor's task, and the clock runs: a check ends  *)
(* in a sleep of 100 ms, so checks without end take time without end.      *)
(* Nothing is assumed of the pool events and of the monitor's callers.     *)
FairSpec == Spec /\ WF_vars(Start) /\ WF_vars(Check) /\ SF_vars(Tick)

-----------------------------------------------------------------------------
(* Correctness.                                                            *)

(* Every variable has its type.                                            *)
TypeOK ==
    /\ queue \in Seq(Candidate)
    /\ DOMAIN map \subseteq Mints
    /\ \A m \in DOMAIN map : map[m] \in Nat
    /\ totalAdded \in Nat /\ totalRemoved \in Nat
    /\ history \in [Mints -> Seq(Nat)]
    /\ \A m \in Mints : Len(history[m]) <= 2
    /\ monitor \in {"new", "asleep", "pruning"}
    /\ doomed \subseteq Mints /\ turned \in BOOLEAN
    /\ \A c \in bought : c \in Candidate

(* The index and the queue are two views of one list: each mint of the     *)
(* index is at its position, and each candidate of the queue is in the     *)
(* index, through every prefix of a prune.                                 *)
IndexConsistent ==
    /\ \A m \in DOMAIN map : map[m] + 1 \in DOMAIN queue /\ queue[map[m] + 1].mint = m
    /\ \A k \in DOMAIN queue : queue[k].mint \in DOMAIN map /\ map[queue[k].mint] = k - 1

(* What was added and not removed is in the list.                          *)
CountersMatch == totalAdded = totalRemoved + Len(queue)

Fit(c, late) == c.tpm >= 20 /\ c.age <= StaleSeconds + late

(* What a check should remove it never buys: the prune is over before the  *)
(* choice, and no removal leaves behind another one's candidate.  A        *)
(* candidate may be over the age by no more than the second that turned.   *)
BoughtIsNotStale == \A c \in bought : Fit(c, 1)

(* The tokens of the queue.                                                *)
Queued == {queue[k].mint : k \in DOMAIN queue}

(* Queue, index and counters together are a bounded set of tokens.         *)
Candidates == INSTANCE CandidateSet WITH
                  Token <- Mints, Limit <- MaxGoldListSize,
                  members <- Queued, added <- totalAdded, removed <- totalRemoved
ImplementsSet == Candidates!Spec

(* Once the monitor has started, a candidate leaves the queue only for     *)
(* being stale when it does, though the prune noted mints and the queue    *)
(* has shifted under its notes.                                            *)
OnlyStaleLeave ==
    [][monitor # "new" =>
          \A k \in DOMAIN queue :
              queue[k].mint \notin Queued' => ShouldRemove(queue[k])]_vars

(* No candidate stays in the list for ever, so the list never stays full.  *)
EveryCandidateLeaves ==
    \A m \in Mints : m \in DOMAIN map ~> m \notin DOMAIN map
=============================================================================
