------------------------------ MODULE Pipeline ------------------------------
(***************************************************************************)
(* The stages of the bot before the strategy, composed as main.rs composes *)
(* them: the shred listener feeds two bounded queues, one for the Raydium  *)
(* detector and one for the velocity monitor; the detector broadcasts pool *)
(* events to the safety filter and to the strategy's pool task; the filter *)
(* validates each event in a task of its own and broadcasts the safe       *)
(* tokens to the velocity monitor, which counts the transactions of the    *)
(* tokens it tracks.  Two of these tasks can panic on a transaction.       *)
(*                                                                         *)
(* What a validation asks the chain is in Safety, what the velocity        *)
(* monitor decides in Velocity.  A step is what a task does between two    *)
(* awaits.                                                                 *)
(***************************************************************************)
EXTENDS Integers, SequencesExt

CONSTANTS
    Mints,         \* the tokens transactions are about
    Tx,            \* the transactions that may be in a shred
    RawCap,        \* capacity of raw_tx, 50_000 in the code
    VelocityCap,   \* capacity of tx_for_velocity, 50_000
    PoolCap,       \* capacity of pool_event, 10_000
    SafeCap,       \* capacity of safe_token, 1_000
    MaxPerShred,   \* bound: transactions in one shred
    MaxTxs         \* bound: transactions received in all

(* A transaction, by what the two parsers make of it: the base mint that   *)
(* the detector reads at account 3 of the instruction, and the coin that   *)
(* the velocity monitor reads at account 8 or 9.  Their tests differ too   *)
(* (eight bytes of the instruction against one), so either may find        *)
(* nothing where the other finds a mint; in a swap both find nothing.      *)
(* indexed: the program of each instruction is one of its account keys,    *)
(* which the velocity monitor takes for granted and no shred promises.     *)
NoMint      == "none"
Transaction == [base : Mints \cup {NoMint}, coin : Mints \cup {NoMint},
                indexed : BOOLEAN]

ASSUME PipelineAssumption ==
    /\ NoMint \notin Mints /\ Tx \subseteq Transaction
    /\ RawCap \in Nat \ {0} /\ VelocityCap \in Nat \ {0}
    /\ PoolCap \in Nat \ {0} /\ SafeCap \in Nat \ {0}
    /\ MaxPerShred \in Nat \ {0} /\ MaxTxs \in Nat

VARIABLES
    idsParse,   \* the program ids in the source parse; no step changes it
    spawned,    \* how many of the five stages main has spawned
    up,         \* main has not returned
    listener,   \* where the listener stands, and what it still has to send
    rawQueue,   \* raw_tx
    velQueue,   \* tx_for_velocity
    ingesting,  \* no panic has ended the ingestion task
    fed,        \* every transaction extracted from a shred
    scanned,    \* those the detector has read
    ingested,   \* those the ingestion task has read
    poolRx,     \* the receivers of pool_event
    validating, \* validations under way, by mint
    judged,     \* validations that have ended
    announced,  \* mints some validation found safe
    safeRx,     \* the velocity monitor's receiver of safe_token
    tracked     \* the map of the velocity monitor

feed == <<fed, scanned, ingested>>
run  == <<idsParse, spawned, up, ingesting>>
vars == <<run, listener, rawQueue, velQueue, feed, poolRx, validating, judged,
          announced, safeRx, tracked>>

Subscriber == {"safety", "strategy"}

(* A broadcast receiver: what it has not read; how many messages were      *)
(* overwritten before it read them, and how many of these it was told of   *)
(* (RecvError::Lagged); how many it has read; and, no variable of the      *)
(* code, how many were sent before it subscribed.                          *)
Receiver  == [queue : Seq(Mints), lag : Nat, lagged : Nat, received : Nat, missed : Nat]
Unread    == [queue |-> <<>>, lag |-> 0, lagged |-> 0, received |-> 0, missed |-> 0]

Listening == {"binding", "recv", "toDetector", "toVelocity", "ended"}

Init ==
    /\ idsParse \in BOOLEAN
    /\ spawned = 0 /\ up = TRUE /\ ingesting = TRUE
    /\ listener = [at |-> "binding", batch |-> <<>>]
    /\ rawQueue = <<>> /\ velQueue = <<>>
    /\ fed = <<>> /\ scanned = <<>> /\ ingested = <<>>
    /\ poolRx = [s \in Subscriber |-> Unread]
    /\ validating = [m \in Mints |-> 0]
    /\ judged = 0 /\ announced = {}
    /\ safeRx = Unread
    /\ tracked = << >>

-----------------------------------------------------------------------------
(* main: the stages are spawned one after the other, each receiver of a    *)
(* broadcast subscribed just before the stage that reads it.  Then main    *)
(* waits for Ctrl+C or for any stage to end, and that is the end of all.   *)

Stages == 5

Listens(s) == spawned >= IF s = "safety" THEN 3 ELSE 5
TracksSafe == spawned >= 4

Spawn ==
    /\ up /\ spawned < Stages
    /\ spawned' = spawned + 1
    /\ UNCHANGED <<idsParse, up, ingesting, listener, rawQueue, velQueue, feed, poolRx,
                   validating, judged, announced, safeRx, tracked>>

ShutDown ==
    /\ up /\ spawned = Stages
    /\ up' = FALSE
    /\ UNCHANGED <<idsParse, spawned, ingesting, listener, rawQueue, velQueue, feed,
                   poolRx, validating, judged, announced, safeRx, tracked>>

(* A panic is the end of all in a release build, which aborts, and of the  *)
(* task in a dev build; a run sees one panic at most, so it chooses there. *)
Panic ==
    /\ up' \in BOOLEAN
    /\ UNCHANGED <<idsParse, spawned, rawQueue, feed, poolRx, validating, judged,
                   announced, safeRx, tracked>>

-----------------------------------------------------------------------------
(* The shred listener.  Shreds are lost, doubled and reordered on their    *)
(* way, so any transactions may come next; each is sniffed as it is        *)
(* extracted, before any is sent.                                          *)

Bind(at) ==
    /\ up /\ spawned >= 1
    /\ listener.at = "binding"
    /\ listener' = [listener EXCEPT !.at = at]
    /\ UNCHANGED <<run, rawQueue, velQueue, feed, poolRx, validating, judged,
                   announced, safeRx, tracked>>

RecvShred(txs) ==
    /\ up /\ idsParse
    /\ listener.at = "recv"
    /\ Len(fed) + Len(txs) <= MaxTxs
    /\ fed' = fed \o txs
    /\ listener' = [at |-> "toDetector", batch |-> txs]
    /\ UNCHANGED <<run, rawQueue, velQueue, scanned, ingested, poolRx,
                   validating, judged, announced, safeRx, tracked>>

(* Sniffing the first transaction parses the program ids the listener      *)
(* looks for; as the source stands one of them is a byte short.            *)
SniffPanics ==
    /\ up /\ ~idsParse
    /\ listener.at = "recv"
    /\ listener' = [listener EXCEPT !.at = "ended"]
    /\ Panic
    /\ UNCHANGED <<velQueue, ingesting>>

SendRaw ==
    /\ up
    /\ listener.at = "toDetector"
    /\ Len(rawQueue) < RawCap
    /\ rawQueue' = Append(rawQueue, Head(listener.batch))
    /\ listener' = [listener EXCEPT !.at = "toVelocity"]
    /\ UNCHANGED <<run, velQueue, feed, poolRx, validating, judged, announced,
                   safeRx, tracked>>

SentBoth(l) ==
    [at |-> IF Len(l.batch) = 1 THEN "recv" ELSE "toDetector", batch |-> Tail(l.batch)]

(* A mistake: what does not fit is dropped (try_send).                     *)
TrySendVelocity ==
    /\ up /\ ingesting
    /\ listener.at = "toVelocity"
    /\ velQueue' = IF Len(velQueue) < VelocityCap
                   THEN Append(velQueue, Head(listener.batch)) ELSE velQueue
    /\ listener' = SentBoth(listener)
    /\ UNCHANGED <<run, rawQueue, feed, poolRx, validating, judged, announced,
                   safeRx, tracked>>

SendVelocity ==
    /\ up /\ ingesting
    /\ listener.at = "toVelocity"
    /\ Len(velQueue) < VelocityCap
    /\ velQueue' = Append(velQueue, Head(listener.batch))
    /\ listener' = SentBoth(listener)
    /\ UNCHANGED <<run, rawQueue, feed, poolRx, validating, judged, announced,
                   safeRx, tracked>>

(* The ingestion task has dropped its receiver: the error is ignored.      *)
SendClosed ==
    /\ up /\ ~ingesting
    /\ listener.at = "toVelocity"
    /\ listener' = SentBoth(listener)
    /\ UNCHANGED <<run, rawQueue, velQueue, feed, poolRx, validating, judged, announced,
                   safeRx, tracked>>

Listener ==
    Bind("recv") \/ Bind("ended") \/ SendRaw \/ SendVelocity \/ SendClosed

-----------------------------------------------------------------------------
(* tokio's broadcast, seen by one receiver: a full channel overwrites the  *)
(* oldest message; a receiver that finds this out gets an error first.     *)

(* Two mistakes: a full channel turns the new message down; a channel      *)
(* without a bound.                                                        *)
PushBounded(rx, m, cap) ==
    IF Len(rx.queue) < cap THEN [rx EXCEPT !.queue = Append(@, m)] ELSE rx

PushUnbounded(rx, m, cap) == [rx EXCEPT !.queue = Append(@, m)]

Push(rx, m, cap) ==
    IF Len(rx.queue) < cap
    THEN [rx EXCEPT !.queue = Append(@, m)]
    ELSE [rx EXCEPT !.queue = Append(Tail(@), m), !.lag = @ + 1]

Sent(rx, m, cap, listens) ==
    IF listens THEN Push(rx, m, cap) ELSE [rx EXCEPT !.missed = @ + 1]

CanRead(rx)    == rx.lag = 0 /\ rx.queue # <<>>
ReadOne(rx)    == [rx EXCEPT !.queue = Tail(@), !.received = @ + 1]
ToldOfLag(rx)  == [rx EXCEPT !.lagged = @ + rx.lag, !.lag = 0]

-----------------------------------------------------------------------------
(* The detector sends without waiting.                                     *)

Detected(tx) == tx.base # NoMint

Scan ==
    /\ up /\ spawned >= 2
    /\ rawQueue # <<>>
    /\ rawQueue' = Tail(rawQueue)
    /\ scanned' = Append(scanned, Head(rawQueue))
    /\ poolRx' = IF Detected(Head(rawQueue))
                 THEN [s \in Subscriber |->
                          Sent(poolRx[s], Head(rawQueue).base, PoolCap, Listens(s))]
                 ELSE poolRx
    /\ UNCHANGED <<run, listener, velQueue, fed, ingested, validating, judged,
                   announced, safeRx, tracked>>

(* The two readers of pool events go on after a lag.                       *)
PoolLagged(s) ==
    /\ up /\ poolRx[s].lag > 0
    /\ poolRx' = [poolRx EXCEPT ![s] = ToldOfLag(@)]
    /\ UNCHANGED <<run, listener, rawQueue, velQueue, feed, validating, judged,
                   announced, safeRx, tracked>>

(* A mistake: a lag is the end of the safety filter.                       *)
StartUnlessLagged ==
    /\ up /\ CanRead(poolRx["safety"])
    /\ poolRx["safety"].lagged = 0
    /\ poolRx' = [poolRx EXCEPT !["safety"] = ReadOne(@)]
    /\ validating' = [validating EXCEPT ![Head(poolRx["safety"].queue)] = @ + 1]
    /\ UNCHANGED <<run, listener, rawQueue, velQueue, feed, judged, announced,
                   safeRx, tracked>>

(* The safety filter spawns a validation and reads on.                     *)
StartValidation ==
    /\ up /\ CanRead(poolRx["safety"])
    /\ poolRx' = [poolRx EXCEPT !["safety"] = ReadOne(@)]
    /\ validating' = [validating EXCEPT ![Head(poolRx["safety"].queue)] = @ + 1]
    /\ UNCHANGED <<run, listener, rawQueue, velQueue, feed, judged, announced,
                   safeRx, tracked>>

(* The pool task of the strategy; what it does with the event is WatchList.*)
PoolTask ==
    /\ up /\ CanRead(poolRx["strategy"])
    /\ poolRx' = [poolRx EXCEPT !["strategy"] = ReadOne(@)]
    /\ UNCHANGED <<run, listener, rawQueue, velQueue, feed, validating, judged,
                   announced, safeRx, tracked>>

(* A validation ends; only a safe token is announced.                      *)
Verdict(m, safe) ==
    /\ up /\ validating[m] > 0
    /\ validating' = [validating EXCEPT ![m] = @ - 1]
    /\ judged' = judged + 1
    /\ announced' = IF safe THEN announced \cup {m} ELSE announced
    /\ safeRx' = IF safe THEN Sent(safeRx, m, SafeCap, TracksSafe) ELSE safeRx
    /\ UNCHANGED <<run, listener, rawQueue, velQueue, feed, poolRx, tracked>>

-----------------------------------------------------------------------------
(* The velocity monitor: one task tracks the safe tokens, one counts.      *)

SafeLagged ==
    /\ up /\ safeRx.lag > 0
    /\ safeRx' = ToldOfLag(safeRx)
    /\ UNCHANGED <<run, listener, rawQueue, velQueue, feed, poolRx, validating,
                   judged, announced, tracked>>

Fresh == [counted |-> 0]

(* A mistake: a safe token is tracked when there is something to count.    *)
TrackLater ==
    /\ up /\ CanRead(safeRx)
    /\ velQueue # <<>>
    /\ safeRx' = ReadOne(safeRx)
    /\ tracked' = [m \in DOMAIN tracked \cup {Head(safeRx.queue)} |->
                      IF m = Head(safeRx.queue) THEN Fresh ELSE tracked[m]]
    /\ UNCHANGED <<run, listener, rawQueue, velQueue, feed, poolRx, validating, judged,
                   announced>>

TrackSafe ==
    /\ up /\ CanRead(safeRx)
    /\ safeRx' = ReadOne(safeRx)
    /\ tracked' = [m \in DOMAIN tracked \cup {Head(safeRx.queue)} |->
                      IF m = Head(safeRx.queue) THEN Fresh ELSE tracked[m]]
    /\ UNCHANGED <<run, listener, rawQueue, velQueue, feed, poolRx, validating,
                   judged, announced>>

(* A mistake: a mint that is not tracked yet is tracked when it is met.    *)
CountedTracking(tx) ==
    [m \in DOMAIN tracked \cup ({tx.coin} \ {NoMint}) |->
        IF m \notin DOMAIN tracked THEN Fresh
        ELSE [tracked[m] EXCEPT !.counted = IF m = tx.coin THEN @ + 1 ELSE @]]

(* A transaction whose mint is not tracked is dropped, and so is one from  *)
(* which no mint was extracted, which all swaps are.                       *)
Counted(tx) ==
    [m \in DOMAIN tracked |->
        [tracked[m] EXCEPT !.counted = IF m = tx.coin THEN @ + 1 ELSE @]]

(* A mistake: the ingestion waits until there is a token to count for.     *)
IngestTracked ==
    /\ up /\ TracksSafe /\ ingesting
    /\ DOMAIN tracked # {}
    /\ velQueue # <<>> /\ Head(velQueue).indexed
    /\ velQueue' = Tail(velQueue)
    /\ ingested' = Append(ingested, Head(velQueue))
    /\ tracked' = Counted(Head(velQueue))
    /\ UNCHANGED <<run, listener, rawQueue, fed, scanned, poolRx, validating,
                   judged, announced, safeRx>>

Ingest ==
    /\ up /\ TracksSafe /\ ingesting
    /\ velQueue # <<>> /\ Head(velQueue).indexed
    /\ velQueue' = Tail(velQueue)
    /\ ingested' = Append(ingested, Head(velQueue))
    /\ tracked' = Counted(Head(velQueue))
    /\ UNCHANGED <<run, listener, rawQueue, fed, scanned, poolRx, validating,
                   judged, announced, safeRx>>

(* An account key is looked up that is not there: nobody waits for the     *)
(* ingestion task, and with it go its receiver and what waits in it.       *)
IngestPanics ==
    /\ up /\ TracksSafe /\ ingesting
    /\ velQueue # <<>> /\ ~Head(velQueue).indexed
    /\ ingesting' = FALSE
    /\ velQueue' = <<>>
    /\ Panic
    /\ UNCHANGED listener

-----------------------------------------------------------------------------
SafetyLoop   == PoolLagged("safety") \/ StartValidation
PoolLoop     == PoolLagged("strategy") \/ PoolTask
Validation   == \E m \in Mints, safe \in BOOLEAN : Verdict(m, safe)
VelocityLoop == SafeLagged \/ TrackSafe
Ingestion    == Ingest \/ IngestPanics

Shreds == {txs \in SeqOf(Tx, MaxPerShred) : txs # <<>>}

Next ==
    \/ Spawn \/ ShutDown
    \/ \E txs \in Shreds : RecvShred(txs)
    \/ Listener \/ SniffPanics \/ Scan \/ Ingestion
    \/ SafetyLoop \/ PoolLoop \/ Validation \/ VelocityLoop

Spec == Init /\ [][Next]_vars

(* tokio polls every task that is ready, and each call of a validation has *)
(* a timeout.  Nothing is assumed of the shreds, of the verdicts, or of    *)
(* the end of the program.                                                 *)
Fairness ==
    /\ WF_vars(Spawn)
    /\ WF_vars(Listener) /\ WF_vars(Scan) /\ WF_vars(Ingestion)
    /\ WF_vars(SafetyLoop) /\ WF_vars(PoolLoop)
    /\ WF_vars(Validation) /\ WF_vars(VelocityLoop)

FairSpec == Spec /\ Fairness

-----------------------------------------------------------------------------
(* Correctness.                                                            *)

ReceiverOK(rx, cap) ==
    /\ rx \in Receiver
    /\ Len(rx.queue) <= cap
    /\ rx.lag > 0 => Len(rx.queue) = cap

(* Every variable has its type, no channel holds more than its capacity,   *)
(* and the listener has something to send exactly while it is sending.     *)
TypeOK ==
    /\ idsParse \in BOOLEAN /\ spawned \in 0..Stages
    /\ up \in BOOLEAN /\ ingesting \in BOOLEAN
    /\ listener \in [at : Listening, batch : Seq(Tx)]
    /\ listener.at \in {"toDetector", "toVelocity"} <=> listener.batch # <<>>
    /\ rawQueue \in Seq(Tx) /\ Len(rawQueue) <= RawCap
    /\ velQueue \in Seq(Tx) /\ Len(velQueue) <= VelocityCap
    /\ fed \in Seq(Tx) /\ scanned \in Seq(Tx) /\ ingested \in Seq(Tx)
    /\ DOMAIN poolRx = Subscriber
    /\ \A s \in Subscriber : ReceiverOK(poolRx[s], PoolCap)
    /\ ReceiverOK(safeRx, SafeCap)
    /\ validating \in [Mints -> Nat] /\ judged \in Nat
    /\ announced \subseteq Mints
    /\ DOMAIN tracked \subseteq Mints
    /\ \A m \in DOMAIN tracked : tracked[m] \in [counted : Nat]

Detections == Cardinality({k \in DOMAIN scanned : Detected(scanned[k])})

Lost(rx) == rx.missed + rx.lagged

(* The validations under way, one by one.                                  *)
UnderWay == UNION {{m} \X (1..validating[m]) : m \in Mints}

(* "Emits PoolEvent when a new Raydium pool is born": for each of the two  *)
(* readers, every pool event was sent before it subscribed, or is waiting, *)
(* or was overwritten (which it is told of), or was read; and every event  *)
(* the safety filter has read is being validated or was.                   *)
EventsAccounted ==
    /\ \A s \in Subscriber :
          Detections = Lost(poolRx[s]) + poolRx[s].lag + Len(poolRx[s].queue)
                          + poolRx[s].received
    /\ poolRx["safety"].received = judged + Cardinality(UnderWay)

(* A token is tracked only after a validation of a pool event of its own   *)
(* found it safe, whatever its transactions in the other queue say.        *)
OnlySafeTracked ==
    /\ DOMAIN tracked \subseteq announced
    /\ \A m \in announced : \E k \in DOMAIN scanned :
          scanned[k].base = m

(* The two consumers are fed by one task in turn, over queues that fill    *)
(* up, and yet every transaction reaches both of them: until one comes     *)
(* that ends the ingestion task, or the program with it, and after that    *)
(* the detector still gets all.                                            *)
EveryTransactionRead ==
    \A n \in 1..MaxTxs :
        Len(fed) >= n ~>
            \/ ~up
            \/ /\ Len(scanned) >= n
               /\ Len(ingested) >= n \/ \E k \in 1..n : ~fed[k].indexed

(* Every pool event gets its verdict, or the filter was told that it lost  *)
(* it, or the filter was not there yet.                                    *)
EveryPoolJudged ==
    \A n \in 1..MaxTxs :
        Detections >= n ~> ~up \/ judged + Lost(poolRx["safety"]) >= n

(* A token that a validation announced as safe is tracked in the end,      *)
(* whatever became of the ingestion task, unless the monitor lost a token  *)
(* to a lag or was not there yet.                                          *)
EverySafeTracked ==
    \A m \in Mints :
        m \in announced ~> ~up \/ m \in DOMAIN tracked \/ Lost(safeRx) > 0

(* The queues implement the abstract feed of transactions.                 *)
Feed == INSTANCE TransactionFeed
ImplementsFeed == Feed!Spec
=============================================================================
