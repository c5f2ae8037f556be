--------------------------- MODULE PipelineProofs ---------------------------
(***************************************************************************)
(* Theorems about Pipeline: its types, that no pool event is lost without  *)
(* an account of it, that only safe tokens are tracked, and that the queues*)
(* implement the feed of transactions, a panic or not.                     *)
(***************************************************************************)
EXTENDS Pipeline, SequenceLemmas, FiniteSetTheorems

-----------------------------------------------------------------------------
(* A receiver of a broadcast.                                              *)

Waiting(rx) == {rx.queue[k] : k \in DOMAIN rx.queue}

(* All that was ever sent to it.                                           *)
Unseen(rx) == rx.lag + Len(rx.queue)
Total(rx)  == (Lost(rx) + Unseen(rx)) + rx.received

LEMMA ReceiverType ==
    ASSUME NEW rx, NEW cap, ReceiverOK(rx, cap)
    PROVE  /\ rx \in Receiver /\ rx.queue \in Seq(Mints) /\ Len(rx.queue) \in Nat
           /\ rx.lag \in Nat /\ rx.lagged \in Nat /\ rx.received \in Nat /\ rx.missed \in Nat
           /\ Waiting(rx) \subseteq Mints
           /\ Lost(rx) \in Nat /\ Unseen(rx) \in Nat /\ Total(rx) \in Nat
  <1>1. /\ rx \in Receiver /\ rx.queue \in Seq(Mints)
        /\ rx.lag \in Nat /\ rx.lagged \in Nat /\ rx.received \in Nat /\ rx.missed \in Nat
    BY DEF ReceiverOK, Receiver
  <1>2. Len(rx.queue) \in Nat /\ Waiting(rx) \subseteq Mints
    BY <1>1, LenProperties, ElementOfSeq DEF Waiting
  <1>3. Lost(rx) \in Nat
    BY <1>1 DEF Lost
  <1>4. Unseen(rx) \in Nat
    BY <1>1, <1>2 DEF Unseen
  <1>5. Total(rx) \in Nat
    BY <1>1, <1>3, <1>4 DEF Total
  <1> QED
    BY <1>1, <1>2, <1>3, <1>4, <1>5

LEMMA UnreadOK ==
    ASSUME NEW cap \in Nat
    PROVE  /\ ReceiverOK(Unread, cap) /\ Total(Unread) = 0 /\ Waiting(Unread) = {}
           /\ Unread.received = 0
  <1>1. <<>> \in Seq(Mints) /\ Len(<<>>) = 0 /\ DOMAIN <<>> = {}
    BY EmptySeq
  <1> QED
    BY <1>1 DEF ReceiverOK, Unread, Receiver, Total, Unseen, Lost, Waiting

(* A message sent is waiting, or overwrites the oldest, or is missed.      *)
LEMMA SentKeeps ==
    ASSUME NEW cap \in Nat \ {0}, NEW rx, ReceiverOK(rx, cap), NEW m \in Mints,
           NEW listens
    PROVE  LET new == Sent(rx, m, cap, listens)
           IN  /\ ReceiverOK(new, cap)
               /\ Total(new) = Total(rx) + 1
               /\ Waiting(new) \subseteq Waiting(rx) \cup {m}
               /\ new.received = rx.received
  <1> DEFINE new  == Sent(rx, m, cap, listens)
             q    == rx.queue
             more == Append(q, m)
  <1>1. /\ rx \in Receiver /\ q \in Seq(Mints) /\ Len(q) \in Nat /\ Len(q) <= cap
        /\ rx.lag \in Nat /\ rx.lagged \in Nat /\ rx.received \in Nat /\ rx.missed \in Nat
        /\ DOMAIN q = 1..Len(q)
        /\ rx.lag > 0 => Len(q) = cap
        /\ Lost(rx) \in Nat /\ Unseen(rx) \in Nat
    BY ReceiverType, LenProperties DEF ReceiverOK
  <1>2. CASE listens /\ Len(q) < cap
    <2>0. rx.lag = 0
      BY <1>1, <1>2
    <2>1. new = [rx EXCEPT !.queue = more]
      BY <1>1, <1>2 DEF Sent, Push
    <2>2. /\ more \in Seq(Mints) /\ Len(more) = Len(q) + 1 /\ DOMAIN more = 1..(Len(q) + 1)
          /\ \A k \in 1..Len(q) : more[k] = q[k]
          /\ more[Len(q) + 1] = m
      BY <1>1, AppendProperties, LenProperties
    <2> HIDE DEF new, more
    <2>3. /\ new \in Receiver /\ new.queue = more /\ new.lag = rx.lag
          /\ new.lagged = rx.lagged /\ new.received = rx.received /\ new.missed = rx.missed
      BY <1>1, <2>1, <2>2 DEF Receiver
    <2>4. Waiting(new) \subseteq Waiting(rx) \cup {m}
      BY <1>1, <2>2, <2>3 DEF Waiting
    <2>a. Lost(new) = Lost(rx)
      BY <2>3 DEF Lost
    <2>b. Unseen(new) = Unseen(rx) + 1
      BY <1>1, <2>0, <2>2, <2>3 DEF Unseen
    <2>5. Total(new) = Total(rx) + 1
      BY <1>1, <2>3, <2>a, <2>b DEF Total
    <2>6. Len(more) <= cap
      BY <1>1, <1>2, <2>2
    <2>7. ReceiverOK(new, cap)
      BY <2>0, <2>3, <2>6 DEF ReceiverOK
    <2> QED
      BY <2>3, <2>4, <2>5, <2>7 DEF new
  <1>3. CASE listens /\ ~(Len(q) < cap)
    <2> DEFINE later == Append(Tail(q), m)
    <2>1. new = [rx EXCEPT !.queue = later, !.lag = rx.lag + 1] /\ Len(q) = cap
      BY <1>1, <1>3 DEF Sent, Push
    <2>2. q # <<>>
      BY <1>1, <2>1, EmptySeq
    <2>3. /\ Tail(q) \in Seq(Mints) /\ Len(Tail(q)) = Len(q) - 1
          /\ \A k \in 1..(Len(q) - 1) : Tail(q)[k] = q[k + 1]
      BY <1>1, <2>2, HeadTailProperties
    <2>4. /\ later \in Seq(Mints) /\ Len(later) = Len(q) /\ DOMAIN later = 1..Len(q)
          /\ \A k \in 1..(Len(q) - 1) : later[k] = q[k + 1]
          /\ later[Len(q)] = m
      BY <1>1, <2>3, AppendProperties, LenProperties
    <2> HIDE DEF new, later
    <2> DEFINE lag == rx.lag + 1
    <2>b. new = [rx EXCEPT !.queue = later, !.lag = lag] /\ lag \in Nat
      BY <1>1, <2>1
    <2> HIDE DEF lag
    <2>5. /\ new \in Receiver /\ new.queue = later /\ new.lag = lag
          /\ new.lagged = rx.lagged /\ new.received = rx.received /\ new.missed = rx.missed
      BY <1>1, <2>4, <2>b DEF Receiver
    <2> USE DEF lag
    <2>6. Waiting(new) \subseteq Waiting(rx) \cup {m}
      <3> SUFFICES ASSUME NEW k \in 1..Len(q), k # Len(q)
                   PROVE  later[k] \in Waiting(rx)
        BY <2>4, <2>5 DEF Waiting
      <3>1. k \in 1..(Len(q) - 1) /\ k + 1 \in 1..Len(q)
        BY <1>1
      <3> QED
        BY <1>1, <2>4, <3>1 DEF Waiting
    <2>a. Lost(new) = Lost(rx) /\ Unseen(new) = Unseen(rx) + 1
      BY <1>1, <2>4, <2>5 DEF Lost, Unseen
    <2>7. Total(new) = Total(rx) + 1
      BY <1>1, <2>5, <2>a DEF Total
    <2> QED
      BY <1>1, <2>1, <2>4, <2>5, <2>6, <2>7 DEF ReceiverOK, new
  <1>4. CASE ~listens
    <2>1. new = [rx EXCEPT !.missed = rx.missed + 1]
      BY <1>4 DEF Sent
    <2> HIDE DEF new
    <2>2. /\ new \in Receiver /\ new.queue = q /\ new.lag = rx.lag /\ new.lagged = rx.lagged
          /\ new.received = rx.received /\ new.missed = rx.missed + 1
      BY <1>1, <2>1 DEF Receiver
    <2>a. Lost(new) = Lost(rx) + 1 /\ Unseen(new) = Unseen(rx)
      BY <1>1, <2>2 DEF Lost, Unseen
    <2>3. Total(new) = Total(rx) + 1
      BY <1>1, <2>2, <2>a DEF Total
    <2> QED
      BY <1>1, <2>2, <2>3 DEF ReceiverOK, Waiting, new
  <1> QED
    BY <1>2, <1>3, <1>4

LEMMA ReadKeeps ==
    ASSUME NEW cap, NEW rx, ReceiverOK(rx, cap), CanRead(rx), cap \in Nat
    PROVE  /\ ReceiverOK(ReadOne(rx), cap)
           /\ Total(ReadOne(rx)) = Total(rx)
           /\ Waiting(ReadOne(rx)) \subseteq Waiting(rx)
           /\ Head(rx.queue) \in Waiting(rx) /\ Head(rx.queue) \in Mints
           /\ ReadOne(rx).received = rx.received + 1
  <1> DEFINE new == ReadOne(rx)
             q   == rx.queue
  <1>1. /\ rx \in Receiver /\ q \in Seq(Mints) /\ Len(q) \in Nat /\ Len(q) <= cap
        /\ rx.lag = 0 /\ rx.lagged \in Nat /\ rx.received \in Nat /\ rx.missed \in Nat
        /\ DOMAIN q = 1..Len(q) /\ q # <<>> /\ Waiting(rx) \subseteq Mints
    BY ReceiverType, LenProperties DEF ReceiverOK, CanRead
  <1>2. /\ Tail(q) \in Seq(Mints) /\ Len(Tail(q)) = Len(q) - 1
        /\ \A k \in 1..(Len(q) - 1) : Tail(q)[k] = q[k + 1]
        /\ DOMAIN Tail(q) = 1..(Len(q) - 1)
    BY <1>1, HeadTailProperties, LenProperties
  <1>3. Head(q) = q[1] /\ 1 \in DOMAIN q
    BY <1>1, EmptySeq
  <1> DEFINE rest == Tail(q)
             read == rx.received + 1
  <1>4. new = [rx EXCEPT !.queue = rest, !.received = read] /\ read \in Nat /\ rest \in Seq(Mints)
    BY <1>1, <1>2 DEF ReadOne
  <1> HIDE DEF new, rest, read
  <1>5. /\ new \in Receiver /\ new.queue = rest /\ new.lag = rx.lag /\ new.lagged = rx.lagged
        /\ new.received = read /\ new.missed = rx.missed
    BY <1>1, <1>4 DEF Receiver
  <1> USE DEF rest, read
  <1>a. /\ Lost(new) = Lost(rx) /\ Unseen(new) = Unseen(rx) - 1
        /\ Lost(rx) \in Nat /\ Unseen(rx) \in Nat
    BY <1>1, <1>2, <1>5, ReceiverType DEF Lost, Unseen
  <1>6. Waiting(new) \subseteq Waiting(rx)
    BY <1>1, <1>2, <1>5 DEF Waiting
  <1>7. Total(new) = Total(rx)
    BY <1>1, <1>5, <1>a DEF Total
  <1>8. Head(q) \in Waiting(rx)
    BY <1>3 DEF Waiting
  <1> QED
    BY <1>1, <1>2, <1>5, <1>6, <1>7, <1>8 DEF ReceiverOK, new

LEMMA ToldKeeps ==
    ASSUME NEW cap \in Nat, NEW rx, ReceiverOK(rx, cap)
    PROVE  /\ ReceiverOK(ToldOfLag(rx), cap)
           /\ Total(ToldOfLag(rx)) = Total(rx)
           /\ Waiting(ToldOfLag(rx)) = Waiting(rx)
           /\ ToldOfLag(rx).received = rx.received
  <1> DEFINE new == ToldOfLag(rx)
  <1>1. /\ rx \in Receiver /\ Len(rx.queue) \in Nat
        /\ rx.lag \in Nat /\ rx.lagged \in Nat /\ rx.received \in Nat /\ rx.missed \in Nat
    BY ReceiverType
  <1> DEFINE told == rx.lagged + rx.lag
  <1>2. new = [rx EXCEPT !.lagged = told, !.lag = 0] /\ told \in Nat
    BY <1>1 DEF ToldOfLag
  <1> HIDE DEF new, told
  <1>3. /\ new \in Receiver /\ new.queue = rx.queue /\ new.lag = 0
        /\ new.lagged = told /\ new.received = rx.received
        /\ new.missed = rx.missed
    BY <1>1, <1>2 DEF Receiver
  <1>a. /\ Lost(new) = Lost(rx) + rx.lag /\ Unseen(new) = Unseen(rx) - rx.lag
        /\ Lost(rx) \in Nat /\ Unseen(rx) \in Nat
    BY <1>1, <1>3, ReceiverType DEF Lost, Unseen, told
  <1>4. Total(new) = Total(rx)
    BY <1>1, <1>3, <1>a DEF Total
  <1> QED
    BY <1>3, <1>4 DEF ReceiverOK, Waiting, new

-----------------------------------------------------------------------------
(* The queues.  What was read of the transactions, what waits in the queue *)
(* and what the listener has still to send make up what it was fed; of the *)
(* ingestion this holds until it panics.                                   *)

(* What the listener has still to send to the detector.                    *)
ToDetector == IF listener.at = "toVelocity" THEN Tail(listener.batch) ELSE listener.batch

QueuesOK ==
    /\ listener \in [at : Listening, batch : Seq(Tx)]
    /\ listener.at \in {"toDetector", "toVelocity"} <=> listener.batch # <<>>
    /\ rawQueue \in Seq(Tx) /\ Len(rawQueue) <= RawCap
    /\ velQueue \in Seq(Tx) /\ Len(velQueue) <= VelocityCap
    /\ fed \in Seq(Tx) /\ scanned \in Seq(Tx) /\ ingested \in Seq(Tx)

FeedInv ==
    /\ fed = (scanned \o rawQueue) \o ToDetector
    /\ ingesting => fed = (ingested \o velQueue) \o listener.batch

(* A transaction that goes from the head of one sequence to the end of     *)
(* another leaves their concatenation as it was.                           *)
LEMMA MoveHead ==
    ASSUME NEW S, NEW q \in Seq(S), NEW b \in Seq(S), b # <<>>
    PROVE  /\ Head(b) \in S /\ Tail(b) \in Seq(S) /\ Append(q, Head(b)) \in Seq(S)
           /\ Append(q, Head(b)) \o Tail(b) = q \o b
  <1> DEFINE h == Head(b)
             t == Tail(b)
  <1>1. h \in S /\ t \in Seq(S) /\ Len(b) \in Nat \ {0} /\ h = b[1]
    BY HeadTailProperties, EmptySeq
  <1>2. b = <<h>> \o t
    <2>1. 1 \in 1..Len(b) /\ Len(b) \in 1..Len(b) /\ 1 + 1 = 2
      BY <1>1
    <2>2. SubSeq(b, 1, Len(b)) = <<b[1]>> \o SubSeq(b, 2, Len(b))
      BY <2>1, SubSeqRecursiveFirst
    <2>3. SubSeq(b, 1, Len(b)) = b /\ SubSeq(b, 2, Len(b)) = t
      BY SubSeqFull, TailIsSubSeq
    <2> QED
      BY <1>1, <2>2, <2>3
  <1> HIDE DEF h, t
  <1>3. /\ Append(q, h) \in Seq(S) /\ Append(q, h) = q \o <<h>> /\ <<h>> \in Seq(S)
    BY <1>1, AppendProperties, AppendIsConcat
  <1>4. (q \o <<h>>) \o t = q \o (<<h>> \o t)
    BY <1>1, <1>3, ConcatAssociative
  <1> QED
    BY <1>1, <1>2, <1>3, <1>4 DEF h, t

LEMMA QueuesInit == Init => QueuesOK /\ FeedInv
  <1> SUFFICES ASSUME Init PROVE QueuesOK /\ FeedInv
    OBVIOUS
  <1>1. <<>> \in Seq(Tx) /\ Len(<<>>) = 0 /\ <<>> \o <<>> = <<>>
    BY EmptySeq, ConcatEmptySeq
  <1>2. /\ listener = [at |-> "binding", batch |-> <<>>]
        /\ rawQueue = <<>> /\ velQueue = <<>>
        /\ fed = <<>> /\ scanned = <<>> /\ ingested = <<>>
    BY Zenon DEF Init
  <1>3. QueuesOK
    BY <1>1, <1>2, PipelineAssumption DEF QueuesOK, Listening
  <1>4. FeedInv
    BY <1>1, <1>2 DEF FeedInv, ToDetector
  <1> QED
    BY <1>3, <1>4

(* The steps of the other tasks leave the transactions alone.              *)
QueueStep ==
    \/ \E at \in {"recv", "ended"} : Bind(at)
    \/ \E txs \in Shreds : RecvShred(txs)
    \/ SendRaw \/ SendVelocity \/ SendClosed \/ Scan \/ Ingest
    \/ SniffPanics \/ IngestPanics

LEMMA OtherSteps ==
    ASSUME [Next]_vars, ~QueueStep
    PROVE  UNCHANGED <<listener, rawQueue, velQueue, feed, ingesting>>
  <1>1. CASE Spawn \/ ShutDown
    BY <1>1 DEF Spawn, ShutDown
  <1>2. CASE SafetyLoop \/ PoolLoop \/ Validation \/ VelocityLoop
    BY <1>2 DEF SafetyLoop, PoolLoop, Validation, VelocityLoop, PoolLagged, StartValidation,
       PoolTask, Verdict, SafeLagged, TrackSafe, run
  <1>3. CASE UNCHANGED vars
    BY <1>3 DEF vars, run
  <1> QED
    BY <1>1, <1>2, <1>3 DEF Next, Listener, Ingestion, QueueStep

LEMMA ShredType ==
    ASSUME NEW txs \in Shreds
    PROVE  txs \in Seq(Tx) /\ txs # <<>>
  <1>1. txs # <<>> /\ txs \in SeqOf(Tx, MaxPerShred)
    BY DEF Shreds
  <1>2. PICK n \in 0..MaxPerShred : txs \in [1..n -> Tx]
    BY <1>1 DEF SeqOf
  <1>3. n \in Nat
    BY PipelineAssumption
  <1> QED
    BY <1>1, <1>2, <1>3, SeqDef

(* More transactions at the end make the old sequence a prefix.            *)
LEMMA PrefixOfConcat ==
    ASSUME NEW S, NEW s \in Seq(S), NEW t \in Seq(S), t # <<>>
    PROVE  IsStrictPrefix(s, s \o t)
  <1>1. s \o t \in Seq(S) /\ Len(s \o t) = Len(s) + Len(t) /\ Len(s) \in Nat /\ Len(t) \in Nat
    BY ConcatProperties, LenProperties
  <1>2. s \o t # s
    BY ConcatEqualIffEmpty
  <1>3. SubSeq(s, 1, Len(s)) = SubSeq(s \o t, 1, Len(s))
    <2>1. CASE Len(s) = 0
      BY <2>1, SubSeqEmpty
    <2>2. CASE Len(s) # 0
      <3>1. 1 \in 1..Len(s) /\ Len(s) \in 1..Len(s)
        BY <1>1, <2>2
      <3> QED
        BY <3>1, SubSeqOfConcat1
    <2> QED
      BY <2>1, <2>2
  <1>4. Len(s) <= Len(s \o t)
    BY <1>1
  <1> QED
    BY <1>2, <1>3, <1>4 DEF IsStrictPrefix, IsPrefix

LEMMA SamePrefix == \A s, t : Feed!IsStrictPrefix(s, t) <=> IsStrictPrefix(s, t)
  BY DEF Feed!IsStrictPrefix, Feed!IsPrefix, IsStrictPrefix, IsPrefix

(* What is next to be read is the first of what waits.                     *)
LEMMA NextIsHead ==
    ASSUME NEW S, NEW s \in Seq(S), NEW q \in Seq(S), NEW r \in Seq(S), q # <<>>
    PROVE  /\ Len(s) < Len((s \o q) \o r)
           /\ ((s \o q) \o r)[Len(s) + 1] = Head(q)
  <1>1. /\ Len(s) \in Nat /\ Len(q) \in Nat \ {0} /\ Len(r) \in Nat /\ Head(q) = q[1]
    BY LenProperties, EmptySeq
  <1>2. /\ s \o q \in Seq(S) /\ Len(s \o q) = Len(s) + Len(q)
        /\ \A i \in 1..Len(s) + Len(q) :
              (s \o q)[i] = IF i <= Len(s) THEN s[i] ELSE q[i - Len(s)]
    BY ConcatProperties
  <1>3. /\ Len((s \o q) \o r) = Len(s \o q) + Len(r)
        /\ \A i \in 1..Len(s \o q) + Len(r) :
              ((s \o q) \o r)[i] = IF i <= Len(s \o q) THEN (s \o q)[i]
                                   ELSE r[i - Len(s \o q)]
    BY <1>2, ConcatProperties
  <1> DEFINE n == Len(s) + 1
  <1>4. /\ n \in 1..Len(s) + Len(q) /\ n \in 1..Len(s \o q) + Len(r)
        /\ n <= Len(s \o q) /\ ~(n <= Len(s)) /\ n - Len(s) = 1
    BY <1>1, <1>2
  <1>5. ((s \o q) \o r)[n] = (s \o q)[n]
    BY <1>3, <1>4
  <1>6. (s \o q)[n] = q[1]
    BY <1>2, <1>4
  <1>7. Len(s) < Len((s \o q) \o r)
    BY <1>1, <1>2, <1>3
  <1> QED
    BY <1>1, <1>5, <1>6, <1>7

Fed == QueuesOK /\ FeedInv

LEMMA BindFeeds ==
    ASSUME Fed, NEW at \in {"recv", "ended"}, Bind(at)
    PROVE  Fed' /\ UNCHANGED feed
  <1>1. /\ listener.at = "binding" /\ listener' = [listener EXCEPT !.at = at]
        /\ UNCHANGED <<rawQueue, velQueue, fed, scanned, ingested, ingesting>>
    BY DEF Bind, feed, run
  <1>2. listener \in [at : Listening, batch : Seq(Tx)] /\ listener.batch = <<>>
    BY <1>1 DEF Fed, QueuesOK
  <1>3. /\ listener'.at = at /\ listener'.batch = listener.batch
        /\ listener' \in [at : Listening, batch : Seq(Tx)]
    BY <1>1, <1>2 DEF Listening
  <1> QED
    BY <1>1, <1>2, <1>3 DEF Fed, QueuesOK, FeedInv, ToDetector, feed

LEMMA RecvFeeds ==
    ASSUME Fed, NEW txs \in Shreds, RecvShred(txs)
    PROVE  Fed' /\ Feed!Arrive
  <1>1. /\ listener.at = "recv" /\ fed' = fed \o txs
        /\ listener' = [at |-> "toDetector", batch |-> txs]
        /\ UNCHANGED <<rawQueue, velQueue, scanned, ingested, ingesting>>
    BY DEF RecvShred, run
  <1>2. txs \in Seq(Tx) /\ txs # <<>>
    BY ShredType
  <1>3. /\ listener.batch = <<>> /\ ToDetector = <<>>
        /\ rawQueue \in Seq(Tx) /\ velQueue \in Seq(Tx)
        /\ fed \in Seq(Tx) /\ scanned \in Seq(Tx) /\ ingested \in Seq(Tx)
    BY <1>1 DEF Fed, QueuesOK, ToDetector
  <1>4. scanned \o rawQueue \in Seq(Tx) /\ ingested \o velQueue \in Seq(Tx)
    BY <1>3, ConcatProperties
  <1>5. fed = scanned \o rawQueue /\ (ingesting => fed = ingested \o velQueue)
    BY <1>3, <1>4, ConcatEmptySeq DEF Fed, FeedInv
  <1>6. listener'.at = "toDetector" /\ listener'.batch = txs /\ ToDetector' = txs
    BY <1>1 DEF ToDetector
  <1>7. FeedInv'
    BY <1>1, <1>5, <1>6 DEF FeedInv
  <1>8. fed' \in Seq(Tx)
    BY <1>1, <1>2, <1>3, ConcatProperties
  <1>9. QueuesOK'
    BY <1>1, <1>2, <1>6, <1>8 DEF Fed, QueuesOK, Listening
  <1>10. IsStrictPrefix(fed, fed')
    BY <1>1, <1>2, <1>3, PrefixOfConcat
  <1> QED
    BY <1>1, <1>7, <1>8, <1>9, <1>10, SamePrefix DEF Fed, Feed!Arrive

(* What both sends have in common: the head of the batch goes to the end   *)
(* of a queue that has room.                                               *)
LEMMA SendsHead ==
    ASSUME Fed, listener.at \in {"toDetector", "toVelocity"}
    PROVE  /\ listener \in [at : Listening, batch : Seq(Tx)]
           /\ listener.batch \in Seq(Tx) /\ listener.batch # <<>>
           /\ Head(listener.batch) \in Tx /\ Tail(listener.batch) \in Seq(Tx)
           /\ Len(Tail(listener.batch)) = Len(listener.batch) - 1
           /\ Len(listener.batch) \in Nat
  BY HeadTailProperties, LenProperties DEF Fed, QueuesOK

LEMMA SendRawFeeds ==
    ASSUME Fed, SendRaw
    PROVE  Fed' /\ UNCHANGED feed
  <1> DEFINE b == listener.batch
             q == Append(rawQueue, Head(b))
  <1>1. /\ listener.at = "toDetector" /\ Len(rawQueue) < RawCap
        /\ rawQueue' = q /\ listener' = [listener EXCEPT !.at = "toVelocity"]
        /\ UNCHANGED <<velQueue, fed, scanned, ingested, ingesting>>
    BY DEF SendRaw, feed, run
  <1>2. /\ listener \in [at : Listening, batch : Seq(Tx)] /\ b \in Seq(Tx) /\ b # <<>>
        /\ Head(b) \in Tx /\ Tail(b) \in Seq(Tx)
    BY <1>1, SendsHead
  <1>3. /\ rawQueue \in Seq(Tx) /\ scanned \in Seq(Tx) /\ RawCap \in Nat
    BY PipelineAssumption DEF Fed, QueuesOK
  <1>4. /\ listener'.at = "toVelocity" /\ listener'.batch = b
        /\ listener' \in [at : Listening, batch : Seq(Tx)]
    BY <1>1, <1>2 DEF Listening
  <1>5. /\ q \in Seq(Tx) /\ Len(q) = Len(rawQueue) + 1 /\ Len(rawQueue) \in Nat
    BY <1>2, <1>3, AppendProperties, LenProperties
  <1>6. (scanned \o q) \o Tail(b) = (scanned \o rawQueue) \o b
    <2> DEFINE rest == Tail(b)
    <2>1. q \o rest = rawQueue \o b
      BY <1>2, <1>3, MoveHead
    <2>2. scanned \in Seq(Tx) /\ q \in Seq(Tx) /\ rest \in Seq(Tx)
      BY <1>2, <1>3, <1>5
    <2>3. scanned \in Seq(Tx) /\ rawQueue \in Seq(Tx) /\ b \in Seq(Tx)
      BY <1>2, <1>3
    <2> HIDE DEF q, rest, b
    <2>4. (scanned \o q) \o rest = scanned \o (q \o rest)
      BY <2>2, ConcatAssociative
    <2>5. (scanned \o rawQueue) \o b = scanned \o (rawQueue \o b)
      BY <2>3, ConcatAssociative
    <2> QED
      BY <2>1, <2>4, <2>5 DEF rest
  <1>7. ToDetector = b /\ ToDetector' = Tail(b)
    BY <1>1, <1>4 DEF ToDetector
  <1> HIDE DEF b, q
  <1>8. FeedInv'
    BY <1>1, <1>4, <1>6, <1>7 DEF Fed, FeedInv, b
  <1>9. QueuesOK'
    BY <1>1, <1>2, <1>3, <1>4, <1>5 DEF Fed, QueuesOK
  <1> QED
    BY <1>1, <1>8, <1>9 DEF Fed, feed

LEMMA SendVelocityFeeds ==
    ASSUME Fed, SendVelocity
    PROVE  Fed' /\ UNCHANGED feed
  <1> DEFINE b == listener.batch
             q == Append(velQueue, Head(b))
  <1>1. /\ listener.at = "toVelocity" /\ Len(velQueue) < VelocityCap
        /\ velQueue' = q
        /\ listener' = [at |-> IF Len(b) = 1 THEN "recv" ELSE "toDetector", batch |-> Tail(b)]
        /\ UNCHANGED <<rawQueue, fed, scanned, ingested, ingesting>>
    BY DEF SendVelocity, SentBoth, feed, run
  <1>2. /\ b \in Seq(Tx) /\ b # <<>>
        /\ Head(b) \in Tx /\ Tail(b) \in Seq(Tx)
        /\ Len(Tail(b)) = Len(b) - 1 /\ Len(b) \in Nat
    BY <1>1, SendsHead
  <1>3. /\ velQueue \in Seq(Tx) /\ ingested \in Seq(Tx) /\ VelocityCap \in Nat
    BY PipelineAssumption DEF Fed, QueuesOK
  <1>4. /\ listener'.batch = Tail(b) /\ listener'.at \in {"recv", "toDetector"}
        /\ listener' \in [at : Listening, batch : Seq(Tx)]
    BY <1>1, <1>2 DEF Listening
  <1>a. listener'.at \in {"toDetector", "toVelocity"} <=> listener'.batch # <<>>
    <2>1. Tail(b) = <<>> <=> Len(Tail(b)) = 0
      BY <1>2, EmptySeq
    <2>2. Tail(b) = <<>> <=> Len(b) = 1
      BY <1>2, <2>1
    <2> QED
      BY <1>1, <2>2
  <1>5. /\ q \in Seq(Tx) /\ Len(q) = Len(velQueue) + 1 /\ Len(velQueue) \in Nat
    BY <1>2, <1>3, AppendProperties, LenProperties
  <1>6. (ingested \o q) \o Tail(b) = (ingested \o velQueue) \o b
    <2> DEFINE rest == Tail(b)
    <2>1. q \o rest = velQueue \o b
      BY <1>2, <1>3, MoveHead
    <2>2. ingested \in Seq(Tx) /\ q \in Seq(Tx) /\ rest \in Seq(Tx)
      BY <1>2, <1>3, <1>5
    <2>3. ingested \in Seq(Tx) /\ velQueue \in Seq(Tx) /\ b \in Seq(Tx)
      BY <1>2, <1>3
    <2> HIDE DEF q, rest, b
    <2>4. (ingested \o q) \o rest = ingested \o (q \o rest)
      BY <2>2, ConcatAssociative
    <2>5. (ingested \o velQueue) \o b = ingested \o (velQueue \o b)
      BY <2>3, ConcatAssociative
    <2> QED
      BY <2>1, <2>4, <2>5 DEF rest
  <1>7. ToDetector = Tail(b) /\ ToDetector' = Tail(b)
    BY <1>1, <1>4 DEF ToDetector
  <1> HIDE DEF b, q
  <1>8. FeedInv'
    BY <1>1, <1>4, <1>6, <1>7 DEF Fed, FeedInv, b
  <1>9. QueuesOK'
    BY <1>1, <1>3, <1>4, <1>5, <1>a DEF Fed, QueuesOK
  <1> QED
    BY <1>1, <1>8, <1>9 DEF Fed, feed

(* Nobody takes the transaction: it is gone for an ingestion that has      *)
(* ended, and the detector has it.                                         *)
LEMMA SendClosedFeeds ==
    ASSUME Fed, SendClosed
    PROVE  Fed' /\ UNCHANGED feed
  <1> DEFINE b == listener.batch
  <1>1. /\ listener.at = "toVelocity" /\ ~ingesting
        /\ listener' = [at |-> IF Len(b) = 1 THEN "recv" ELSE "toDetector", batch |-> Tail(b)]
        /\ UNCHANGED <<rawQueue, velQueue, fed, scanned, ingested, ingesting>>
    BY DEF SendClosed, SentBoth, feed, run
  <1>2. /\ b \in Seq(Tx) /\ b # <<>>
        /\ Tail(b) \in Seq(Tx) /\ Len(Tail(b)) = Len(b) - 1 /\ Len(b) \in Nat
    BY <1>1, SendsHead
  <1>3. /\ listener'.batch = Tail(b) /\ listener'.at \in {"recv", "toDetector"}
        /\ listener' \in [at : Listening, batch : Seq(Tx)]
    BY <1>1, <1>2 DEF Listening
  <1>4. listener'.at \in {"toDetector", "toVelocity"} <=> listener'.batch # <<>>
    <2>1. Tail(b) = <<>> <=> Len(Tail(b)) = 0
      BY <1>2, EmptySeq
    <2>2. Tail(b) = <<>> <=> Len(b) = 1
      BY <1>2, <2>1
    <2> QED
      BY <1>1, <2>2
  <1>5. ToDetector = Tail(b) /\ ToDetector' = Tail(b)
    BY <1>1, <1>3 DEF ToDetector
  <1>6. FeedInv'
    BY <1>1, <1>5 DEF Fed, FeedInv
  <1>7. QueuesOK'
    BY <1>1, <1>3, <1>4 DEF Fed, QueuesOK
  <1> QED
    BY <1>1, <1>6, <1>7 DEF Fed, feed

(* A panic of the listener comes before it has anything to send.           *)
LEMMA SniffPanicsFeeds ==
    ASSUME Fed, SniffPanics
    PROVE  Fed' /\ UNCHANGED feed
  <1>1. /\ listener.at = "recv" /\ listener' = [listener EXCEPT !.at = "ended"]
        /\ UNCHANGED <<rawQueue, velQueue, fed, scanned, ingested, ingesting>>
    BY DEF SniffPanics, Panic, feed
  <1>2. listener \in [at : Listening, batch : Seq(Tx)] /\ listener.batch = <<>>
    BY <1>1 DEF Fed, QueuesOK
  <1>3. /\ listener'.at = "ended" /\ listener'.batch = listener.batch
        /\ listener' \in [at : Listening, batch : Seq(Tx)]
    BY <1>1, <1>2 DEF Listening
  <1> QED
    BY <1>1, <1>2, <1>3 DEF Fed, QueuesOK, FeedInv, ToDetector, feed

(* With the ingestion go its queue and all that was said of it.            *)
LEMMA IngestPanicsFeeds ==
    ASSUME Fed, IngestPanics
    PROVE  Fed' /\ UNCHANGED feed
  <1>1. /\ ingesting' = FALSE /\ velQueue' = <<>>
        /\ UNCHANGED <<listener, rawQueue, fed, scanned, ingested>>
    BY DEF IngestPanics, Panic, feed
  <1>2. <<>> \in Seq(Tx) /\ Len(<<>>) = 0 /\ VelocityCap \in Nat
    BY EmptySeq, PipelineAssumption
  <1>3. FeedInv'
    <2>1. ToDetector' = ToDetector
      BY <1>1 DEF ToDetector
    <2>2. ~ingesting'
      BY <1>1, Zenon
    <2> QED
      BY <1>1, <2>1, <2>2 DEF Fed, FeedInv
  <1>4. QueuesOK'
    BY <1>1, <1>2 DEF Fed, QueuesOK
  <1> QED
    BY <1>1, <1>3, <1>4 DEF Fed, feed

LEMMA ScanFeeds ==
    ASSUME Fed, Scan
    PROVE  Fed' /\ Feed!Scan
  <1>1. /\ rawQueue # <<>> /\ rawQueue' = Tail(rawQueue)
        /\ scanned' = Append(scanned, Head(rawQueue))
        /\ UNCHANGED <<listener, velQueue, fed, ingested, ingesting>>
    BY DEF Scan, run
  <1>2. /\ rawQueue \in Seq(Tx) /\ scanned \in Seq(Tx) /\ RawCap \in Nat
        /\ Len(rawQueue) <= RawCap /\ ToDetector \in Seq(Tx)
    <2>1. listener.at = "toVelocity" => Tail(listener.batch) \in Seq(Tx)
      BY SendsHead
    <2> QED
      BY <2>1, PipelineAssumption DEF Fed, QueuesOK, ToDetector
  <1>3. /\ scanned' \in Seq(Tx) /\ rawQueue' \in Seq(Tx)
        /\ scanned' \o rawQueue' = scanned \o rawQueue
    BY <1>1, <1>2, MoveHead
  <1>4. Len(rawQueue') <= RawCap
    <2>1. Len(Tail(rawQueue)) = Len(rawQueue) - 1 /\ Len(rawQueue) \in Nat
      BY <1>1, <1>2, HeadTailProperties, LenProperties
    <2> QED
      BY <1>1, <1>2, <2>1
  <1>5. ToDetector' = ToDetector
    BY <1>1 DEF ToDetector
  <1>6. Fed'
    BY <1>1, <1>3, <1>4, <1>5 DEF Fed, QueuesOK, FeedInv
  <1>7. Len(scanned) < Len(fed) /\ fed[Len(scanned) + 1] = Head(rawQueue)
    <2>1. fed = (scanned \o rawQueue) \o ToDetector
      BY DEF Fed, FeedInv
    <2> HIDE DEF ToDetector
    <2>2. /\ Len(scanned) < Len((scanned \o rawQueue) \o ToDetector)
          /\ ((scanned \o rawQueue) \o ToDetector)[Len(scanned) + 1] = Head(rawQueue)
      BY <1>1, <1>2, NextIsHead
    <2> QED
      BY <2>1, <2>2
  <1> QED
    BY <1>1, <1>6, <1>7 DEF Feed!Scan, Feed!WithNext

LEMMA IngestFeeds ==
    ASSUME Fed, Ingest
    PROVE  Fed' /\ Feed!Ingest
  <1>1. /\ ingesting /\ velQueue # <<>> /\ velQueue' = Tail(velQueue)
        /\ ingested' = Append(ingested, Head(velQueue))
        /\ UNCHANGED <<listener, rawQueue, fed, scanned, ingesting>>
    BY DEF Ingest, run
  <1>2. /\ velQueue \in Seq(Tx) /\ ingested \in Seq(Tx) /\ VelocityCap \in Nat
        /\ Len(velQueue) <= VelocityCap /\ listener.batch \in Seq(Tx)
    BY PipelineAssumption DEF Fed, QueuesOK
  <1>3. /\ ingested' \in Seq(Tx) /\ velQueue' \in Seq(Tx)
        /\ ingested' \o velQueue' = ingested \o velQueue
    BY <1>1, <1>2, MoveHead
  <1>4. Len(velQueue') <= VelocityCap
    <2>1. Len(Tail(velQueue)) = Len(velQueue) - 1 /\ Len(velQueue) \in Nat
      BY <1>1, <1>2, HeadTailProperties, LenProperties
    <2> QED
      BY <1>1, <1>2, <2>1
  <1>5. Fed'
    BY <1>1, <1>3, <1>4 DEF Fed, QueuesOK, FeedInv, ToDetector
  <1>6. Len(ingested) < Len(fed) /\ fed[Len(ingested) + 1] = Head(velQueue)
    <2>1. fed = (ingested \o velQueue) \o listener.batch
      BY <1>1 DEF Fed, FeedInv
    <2>2. /\ Len(ingested) < Len((ingested \o velQueue) \o listener.batch)
          /\ ((ingested \o velQueue) \o listener.batch)[Len(ingested) + 1] = Head(velQueue)
      BY <1>1, <1>2, NextIsHead
    <2> QED
      BY <2>1, <2>2
  <1> QED
    BY <1>1, <1>5, <1>6 DEF Feed!Ingest, Feed!WithNext

LEMMA FeedStep == Fed /\ [Next]_vars => Fed' /\ [Feed!Next]_feed
  <1> SUFFICES ASSUME Fed, [Next]_vars PROVE Fed' /\ [Feed!Next]_feed
    OBVIOUS
  <1>1. CASE ~QueueStep
    <2>1. UNCHANGED <<listener, rawQueue, velQueue, fed, scanned, ingested, ingesting>>
      BY <1>1, OtherSteps DEF feed
    <2>2. Fed'
      BY <2>1 DEF Fed, QueuesOK, FeedInv, ToDetector
    <2> QED
      BY <2>1, <2>2 DEF feed
  <1>2. CASE QueueStep
    BY <1>2, BindFeeds, RecvFeeds, SendRawFeeds, SendVelocityFeeds, SendClosedFeeds,
       ScanFeeds, IngestFeeds, SniffPanicsFeeds, IngestPanicsFeeds DEF QueueStep, Feed!Next
  <1> QED
    BY <1>1, <1>2

(* The queues implement the abstract feed: the detector and the velocity   *)
(* monitor each read the transactions one by one in the order in which the *)
(* shreds brought them, none skipped and none twice, whatever queue is     *)
(* full, whoever waits, and up to the panic that may end a reader.         *)
THEOREM PipelineImplementsFeed == Spec => ImplementsFeed
  <1>1. Init => Fed
    BY QueuesInit DEF Fed
  <1>2. Init => Feed!Init
    BY DEF Init, Feed!Init
  <1>3. Spec => Feed!Init /\ [][Feed!Next]_feed
    BY <1>1, <1>2, FeedStep, PTL DEF Spec
  <1> QED
    BY <1>3 DEF ImplementsFeed, Feed!Spec, feed

-----------------------------------------------------------------------------
(* The types of what is not a queue.                                       *)

TasksOK ==
    /\ idsParse \in BOOLEAN /\ spawned \in 0..Stages
    /\ up \in BOOLEAN /\ ingesting \in BOOLEAN

RxOK ==
    /\ DOMAIN poolRx = Subscriber
    /\ \A s \in Subscriber : ReceiverOK(poolRx[s], PoolCap)
    /\ ReceiverOK(safeRx, SafeCap)

TokensOK ==
    /\ validating \in [Mints -> Nat] /\ judged \in Nat
    /\ announced \subseteq Mints
    /\ DOMAIN tracked \subseteq Mints
    /\ \A m \in DOMAIN tracked : tracked[m] \in [counted : Nat]

LEMMA TypeSplit == TypeOK <=> TasksOK /\ QueuesOK /\ RxOK /\ TokensOK
  BY Zenon DEF TypeOK, TasksOK, QueuesOK, RxOK, TokensOK

(* What the detector does to the receivers.                                *)
LEMMA ScanEffect ==
    ASSUME QueuesOK, RxOK, Scan
    PROVE  /\ Head(rawQueue) \in Tx /\ scanned' = Append(scanned, Head(rawQueue))
           /\ DOMAIN poolRx' = Subscriber
           /\ \A s \in Subscriber :
                 /\ ReceiverOK(poolRx'[s], PoolCap)
                 /\ Total(poolRx'[s]) = Total(poolRx[s])
                                          + (IF Detected(Head(rawQueue)) THEN 1 ELSE 0)
                 /\ Waiting(poolRx'[s]) \subseteq Waiting(poolRx[s]) \cup {Head(rawQueue).base}
                 /\ poolRx'[s].received = poolRx[s].received
           /\ UNCHANGED <<ingested, validating, judged, announced, safeRx, tracked>>
  <1> DEFINE tx == Head(rawQueue)
  <1>1. /\ rawQueue # <<>> /\ scanned' = Append(scanned, tx)
        /\ poolRx' = IF Detected(tx)
                     THEN [s \in Subscriber |-> Sent(poolRx[s], tx.base, PoolCap, Listens(s))]
                     ELSE poolRx
        /\ UNCHANGED <<ingested, validating, judged, announced, safeRx, tracked>>
    BY DEF Scan
  <1>2. tx \in Tx
    BY <1>1, HeadTailProperties DEF QueuesOK
  <1>3. PoolCap \in Nat \ {0}
    BY PipelineAssumption
  <1> HIDE DEF tx
  <1>4. CASE Detected(tx)
    <2>1. tx.base \in Mints
      BY <1>2, <1>4, PipelineAssumption DEF Detected, Transaction
    <2>2. /\ DOMAIN poolRx' = Subscriber
          /\ \A s \in Subscriber : poolRx'[s] = Sent(poolRx[s], tx.base, PoolCap, Listens(s))
      BY <1>1, <1>4
    <2>3. ASSUME NEW s \in Subscriber
          PROVE  /\ ReceiverOK(poolRx'[s], PoolCap)
                 /\ Total(poolRx'[s]) = Total(poolRx[s]) + 1
                 /\ Waiting(poolRx'[s]) \subseteq Waiting(poolRx[s]) \cup {tx.base}
                 /\ poolRx'[s].received = poolRx[s].received
      <3>1. ReceiverOK(poolRx[s], PoolCap)
        BY DEF RxOK
      <3> QED
        BY <1>3, <2>1, <2>2, <3>1, SentKeeps
    <2> QED
      BY <1>1, <1>2, <1>4, <2>2, <2>3 DEF tx
  <1>5. CASE ~Detected(tx)
    <2>1. poolRx' = poolRx
      BY <1>1, <1>5
    <2>2. \A s \in Subscriber : Total(poolRx[s]) \in Nat
      BY ReceiverType DEF RxOK
    <2> QED
      BY <1>1, <1>2, <1>5, <2>1, <2>2 DEF RxOK, tx
  <1> QED
    BY <1>4, <1>5

(* What a reader of pool events does to its receiver.                      *)
LEMMA PoolReadEffect ==
    ASSUME RxOK, NEW r \in Subscriber, CanRead(poolRx[r]),
           poolRx' = [poolRx EXCEPT ![r] = ReadOne(@)]
    PROVE  /\ DOMAIN poolRx' = Subscriber
           /\ Head(poolRx[r].queue) \in Waiting(poolRx[r])
           /\ Head(poolRx[r].queue) \in Mints
           /\ \A s \in Subscriber :
                 /\ ReceiverOK(poolRx'[s], PoolCap)
                 /\ Total(poolRx'[s]) = Total(poolRx[s])
                 /\ Waiting(poolRx'[s]) \subseteq Waiting(poolRx[s])
                 /\ poolRx'[s].received = IF s = r THEN poolRx[s].received + 1
                                                   ELSE poolRx[s].received
  <1>1. /\ DOMAIN poolRx' = Subscriber /\ poolRx'[r] = ReadOne(poolRx[r])
        /\ \A s \in Subscriber : s # r => poolRx'[s] = poolRx[s]
        /\ \A s \in Subscriber : ReceiverOK(poolRx[s], PoolCap)
    BY DEF RxOK
  <1>2. PoolCap \in Nat
    BY PipelineAssumption
  <1>3. /\ ReceiverOK(ReadOne(poolRx[r]), PoolCap)
        /\ Total(ReadOne(poolRx[r])) = Total(poolRx[r])
        /\ Waiting(ReadOne(poolRx[r])) \subseteq Waiting(poolRx[r])
        /\ Head(poolRx[r].queue) \in Waiting(poolRx[r])
        /\ Head(poolRx[r].queue) \in Mints
        /\ ReadOne(poolRx[r]).received = poolRx[r].received + 1
    BY <1>1, <1>2, ReadKeeps
  <1> QED
    BY <1>1, <1>3

LEMMA PoolLaggedEffect ==
    ASSUME RxOK, NEW r \in Subscriber, poolRx' = [poolRx EXCEPT ![r] = ToldOfLag(@)]
    PROVE  /\ DOMAIN poolRx' = Subscriber
           /\ \A s \in Subscriber :
                 /\ ReceiverOK(poolRx'[s], PoolCap)
                 /\ Total(poolRx'[s]) = Total(poolRx[s])
                 /\ Waiting(poolRx'[s]) \subseteq Waiting(poolRx[s])
                 /\ poolRx'[s].received = poolRx[s].received
  <1>1. /\ DOMAIN poolRx' = Subscriber /\ poolRx'[r] = ToldOfLag(poolRx[r])
        /\ \A s \in Subscriber : s # r => poolRx'[s] = poolRx[s]
        /\ \A s \in Subscriber : ReceiverOK(poolRx[s], PoolCap)
    BY DEF RxOK
  <1>2. PoolCap \in Nat
    BY PipelineAssumption
  <1>3. /\ ReceiverOK(ToldOfLag(poolRx[r]), PoolCap)
        /\ Total(ToldOfLag(poolRx[r])) = Total(poolRx[r])
        /\ Waiting(ToldOfLag(poolRx[r])) = Waiting(poolRx[r])
        /\ ToldOfLag(poolRx[r]).received = poolRx[r].received
    BY <1>1, <1>2, ToldKeeps
  <1> QED
    BY <1>1, <1>3

(* What a verdict does to the monitor's receiver.                          *)
LEMMA VerdictEffect ==
    ASSUME RxOK, TokensOK, NEW m \in Mints, NEW safe \in BOOLEAN, Verdict(m, safe)
    PROVE  /\ validating[m] > 0 /\ validating' = [validating EXCEPT ![m] = validating[m] - 1]
           /\ validating' \in [Mints -> Nat] /\ judged' = judged + 1
           /\ announced \subseteq announced' /\ announced' \subseteq announced \cup {m}
           /\ ReceiverOK(safeRx', SafeCap)
           /\ Waiting(safeRx') \subseteq Waiting(safeRx) \cup (announced' \cap {m})
           /\ UNCHANGED <<scanned, ingested, poolRx, tracked>>
  <1>1. /\ validating[m] > 0 /\ validating' = [validating EXCEPT ![m] = @ - 1]
        /\ judged' = judged + 1
        /\ announced' = IF safe THEN announced \cup {m} ELSE announced
        /\ safeRx' = IF safe THEN Sent(safeRx, m, SafeCap, TracksSafe) ELSE safeRx
        /\ UNCHANGED <<scanned, ingested, poolRx, tracked>>
    BY DEF Verdict, feed
  <1>2. SafeCap \in Nat \ {0} /\ ReceiverOK(safeRx, SafeCap)
    BY PipelineAssumption DEF RxOK
  <1>3. /\ ReceiverOK(Sent(safeRx, m, SafeCap, TracksSafe), SafeCap)
        /\ Waiting(Sent(safeRx, m, SafeCap, TracksSafe)) \subseteq Waiting(safeRx) \cup {m}
    BY <1>2, SentKeeps
  <1>4. validating' \in [Mints -> Nat]
    <2>1. validating \in [Mints -> Nat] /\ validating[m] - 1 \in Nat
      BY <1>1 DEF TokensOK
    <2> QED
      BY <1>1, <2>1
  <1>5. ReceiverOK(safeRx', SafeCap)
    BY <1>1, <1>2, <1>3
  <1>6. Waiting(safeRx') \subseteq Waiting(safeRx) \cup (announced' \cap {m})
    BY <1>1, <1>3
  <1> QED
    BY <1>1, <1>4, <1>5, <1>6

LEMMA TrackSafeEffect ==
    ASSUME QueuesOK, RxOK, TokensOK, TrackSafe
    PROVE  /\ ReceiverOK(safeRx', SafeCap)
           /\ Waiting(safeRx') \subseteq Waiting(safeRx)
           /\ \E m \in Mints \cap Waiting(safeRx) :
                 /\ DOMAIN tracked' = DOMAIN tracked \cup {m}
                 /\ tracked'[m] = Fresh
                 /\ \A x \in DOMAIN tracked : x # m => tracked'[x] = tracked[x]
           /\ UNCHANGED <<scanned, ingested, poolRx, validating, judged, announced>>
  <1> DEFINE m == Head(safeRx.queue)
  <1>1. /\ CanRead(safeRx) /\ safeRx' = ReadOne(safeRx)
        /\ tracked' = [x \in DOMAIN tracked \cup {m} |-> IF x = m THEN Fresh ELSE tracked[x]]
        /\ UNCHANGED <<scanned, ingested, poolRx, validating, judged, announced>>
    BY DEF TrackSafe, feed
  <1>2. SafeCap \in Nat /\ ReceiverOK(safeRx, SafeCap)
    BY PipelineAssumption DEF RxOK
  <1>3. /\ ReceiverOK(ReadOne(safeRx), SafeCap)
        /\ Waiting(ReadOne(safeRx)) \subseteq Waiting(safeRx)
        /\ m \in Waiting(safeRx) /\ m \in Mints
    BY <1>1, <1>2, ReadKeeps
  <1> HIDE DEF m
  <1>4. /\ DOMAIN tracked' = DOMAIN tracked \cup {m} /\ tracked'[m] = Fresh
        /\ \A x \in DOMAIN tracked : x # m => tracked'[x] = tracked[x]
    BY <1>1
  <1> QED
    BY <1>1, <1>3, <1>4

LEMMA IngestEffect ==
    ASSUME QueuesOK, TokensOK, Ingest
    PROVE  /\ Head(velQueue) \in Tx /\ ingested' = Append(ingested, Head(velQueue))
           /\ DOMAIN tracked' = DOMAIN tracked
           /\ \A m \in DOMAIN tracked :
                 tracked'[m] \in [counted : Nat]
           /\ UNCHANGED <<scanned, poolRx, validating, judged, announced, safeRx>>
  <1> DEFINE tx == Head(velQueue)
  <1>1. /\ velQueue # <<>> /\ ingested' = Append(ingested, tx) /\ tracked' = Counted(tx)
        /\ UNCHANGED <<scanned, poolRx, validating, judged, announced, safeRx>>
    BY DEF Ingest
  <1>2. tx \in Tx
    BY <1>1, HeadTailProperties DEF QueuesOK
  <1> HIDE DEF tx
  <1>3. DOMAIN tracked' = DOMAIN tracked
    BY <1>1 DEF Counted
  <1>4. ASSUME NEW m \in DOMAIN tracked
        PROVE  tracked'[m] \in [counted : Nat]
    <2>1. tracked[m] \in [counted : Nat]
      BY DEF TokensOK
    <2>2. tracked'[m] = [tracked[m] EXCEPT !.counted =
                            IF m = tx.coin THEN tracked[m].counted + 1
                            ELSE tracked[m].counted]
      BY <1>1 DEF Counted
    <2> QED
      BY <2>1, <2>2
  <1> QED
    BY <1>1, <1>2, <1>3, <1>4 DEF tx

LEMMA TasksStep == TasksOK /\ [Next]_vars => TasksOK'
  <1> SUFFICES ASSUME TasksOK, [Next]_vars PROVE TasksOK'
    OBVIOUS
  <1>1. CASE Spawn
    <2>1. spawned' \in 0..Stages
      BY <1>1 DEF TasksOK, Spawn, Stages
    <2>2. idsParse' \in BOOLEAN /\ up' \in BOOLEAN /\ ingesting' \in BOOLEAN
      BY <1>1, Zenon DEF TasksOK, Spawn
    <2> QED
      BY <2>1, <2>2, Zenon DEF TasksOK
  <1>2. CASE ShutDown \/ SniffPanics \/ IngestPanics
    <2>1. spawned' = spawned /\ idsParse' = idsParse
      BY <1>2 DEF ShutDown, SniffPanics, IngestPanics, Panic
    <2>2. up' \in BOOLEAN
      BY <1>2, Zenon DEF ShutDown, SniffPanics, IngestPanics, Panic
    <2>3. ingesting' \in BOOLEAN
      BY <1>2, Zenon DEF TasksOK, ShutDown, SniffPanics, IngestPanics
    <2> QED
      BY <2>1, <2>2, <2>3, Zenon DEF TasksOK
  <1>3. CASE ~(Spawn \/ ShutDown \/ SniffPanics \/ IngestPanics)
    <2>1. UNCHANGED <<idsParse, spawned, up, ingesting>>
      BY <1>3 DEF Next, vars, run, Listener, Bind, RecvShred, SendRaw, SendVelocity,
         SendClosed, Scan, Ingestion, Ingest, SafetyLoop, PoolLoop, Validation, VelocityLoop,
         PoolLagged, StartValidation, PoolTask, Verdict, SafeLagged, TrackSafe
    <2> QED
      BY <2>1, Zenon DEF TasksOK
  <1> QED
    BY <1>1, <1>2, <1>3

(* The tokens and the receivers: which steps touch them.                   *)
TokenStep ==
    \/ Scan \/ Ingest \/ StartValidation \/ PoolTask \/ SafeLagged \/ TrackSafe
    \/ \E s \in Subscriber : PoolLagged(s)
    \/ \E m \in Mints, safe \in BOOLEAN : Verdict(m, safe)

LEMMA NoTokenStep ==
    ASSUME [Next]_vars, ~TokenStep
    PROVE  UNCHANGED <<scanned, ingested, poolRx, validating, judged, announced, safeRx,
                       tracked>>
  <1>1. CASE Spawn \/ ShutDown \/ Listener
    BY <1>1 DEF Spawn, ShutDown, Listener, Bind, SendRaw, SendVelocity, SendClosed, feed
  <1>2. CASE \E txs \in Shreds : RecvShred(txs)
    BY <1>2 DEF RecvShred
  <1>3. CASE SniffPanics \/ IngestPanics
    BY <1>3 DEF SniffPanics, IngestPanics, Panic, feed
  <1>4. CASE UNCHANGED vars
    BY <1>4 DEF vars, feed
  <1> QED
    BY <1>1, <1>2, <1>3, <1>4 DEF Next, TokenStep, SafetyLoop, PoolLoop, Validation,
       VelocityLoop, Ingestion, Subscriber

LEMMA StartEffect ==
    ASSUME RxOK, TokensOK, StartValidation
    PROVE  /\ CanRead(poolRx["safety"])
           /\ poolRx' = [poolRx EXCEPT !["safety"] = ReadOne(@)]
           /\ \E m \in Mints \cap Waiting(poolRx["safety"]) :
                 /\ validating' = [validating EXCEPT ![m] = validating[m] + 1]
                 /\ validating' \in [Mints -> Nat]
           /\ UNCHANGED <<scanned, ingested, judged, announced, safeRx, tracked>>
  <1> DEFINE m == Head(poolRx["safety"].queue)
  <1>1. /\ CanRead(poolRx["safety"])
        /\ poolRx' = [poolRx EXCEPT !["safety"] = ReadOne(@)]
        /\ validating' = [validating EXCEPT ![m] = @ + 1]
        /\ UNCHANGED <<scanned, ingested, judged, announced, safeRx, tracked>>
    BY DEF StartValidation, feed
  <1>2. m \in Mints /\ m \in Waiting(poolRx["safety"])
    BY <1>1, PoolReadEffect DEF Subscriber
  <1> HIDE DEF m
  <1>3. validating \in [Mints -> Nat]
    BY DEF TokensOK
  <1>4. /\ validating' = [validating EXCEPT ![m] = validating[m] + 1]
        /\ validating' \in [Mints -> Nat]
    BY <1>1, <1>2, <1>3
  <1> QED
    BY <1>1, <1>2, <1>4

LEMMA TokensStep ==
    ASSUME QueuesOK, RxOK, TokensOK, [Next]_vars
    PROVE  RxOK' /\ TokensOK'
  <1>1. CASE Scan
    <2>1. /\ DOMAIN poolRx' = Subscriber
          /\ \A s \in Subscriber : ReceiverOK(poolRx'[s], PoolCap)
          /\ UNCHANGED <<validating, judged, announced, safeRx, tracked>>
      BY <1>1, ScanEffect
    <2> QED
      BY <2>1 DEF RxOK, TokensOK
  <1>2. CASE Ingest
    <2>1. /\ DOMAIN tracked' = DOMAIN tracked
          /\ \A m \in DOMAIN tracked : tracked'[m] \in [counted : Nat]
          /\ UNCHANGED <<poolRx, validating, judged, announced, safeRx>>
      BY <1>2, IngestEffect
    <2> QED
      BY <2>1 DEF RxOK, TokensOK
  <1>3. CASE StartValidation
    <2>1. /\ CanRead(poolRx["safety"])
          /\ poolRx' = [poolRx EXCEPT !["safety"] = ReadOne(@)]
          /\ validating' \in [Mints -> Nat]
          /\ UNCHANGED <<judged, announced, safeRx, tracked>>
      BY <1>3, StartEffect
    <2>2. /\ DOMAIN poolRx' = Subscriber
          /\ \A s \in Subscriber : ReceiverOK(poolRx'[s], PoolCap)
      BY <2>1, PoolReadEffect DEF Subscriber
    <2> QED
      BY <2>1, <2>2 DEF RxOK, TokensOK
  <1>4. CASE PoolTask
    <2>1. /\ CanRead(poolRx["strategy"])
          /\ poolRx' = [poolRx EXCEPT !["strategy"] = ReadOne(@)]
          /\ UNCHANGED <<validating, judged, announced, safeRx, tracked>>
      BY <1>4 DEF PoolTask
    <2>2. /\ DOMAIN poolRx' = Subscriber
          /\ \A s \in Subscriber : ReceiverOK(poolRx'[s], PoolCap)
      BY <2>1, PoolReadEffect DEF Subscriber
    <2> QED
      BY <2>1, <2>2 DEF RxOK, TokensOK
  <1>5. CASE SafeLagged
    <2>1. safeRx' = ToldOfLag(safeRx) /\ UNCHANGED <<poolRx, validating, judged, announced, tracked>>
      BY <1>5 DEF SafeLagged
    <2>2. SafeCap \in Nat /\ ReceiverOK(safeRx, SafeCap)
      BY PipelineAssumption DEF RxOK
    <2>3. ReceiverOK(safeRx', SafeCap)
      BY <2>1, <2>2, ToldKeeps
    <2> QED
      BY <2>1, <2>3 DEF RxOK, TokensOK
  <1>6. CASE TrackSafe
    <2>1. /\ ReceiverOK(safeRx', SafeCap)
          /\ UNCHANGED <<poolRx, validating, judged, announced>>
      BY <1>6, TrackSafeEffect
    <2>2. PICK m \in Mints : /\ DOMAIN tracked' = DOMAIN tracked \cup {m}
                             /\ tracked'[m] = Fresh
                             /\ \A x \in DOMAIN tracked : x # m => tracked'[x] = tracked[x]
      BY <1>6, TrackSafeEffect
    <2>3. Fresh \in [counted : Nat]
      BY DEF Fresh
    <2> QED
      BY <2>1, <2>2, <2>3 DEF RxOK, TokensOK
  <1>7. ASSUME NEW s \in Subscriber, PoolLagged(s) PROVE RxOK' /\ TokensOK'
    <2>1. /\ poolRx' = [poolRx EXCEPT ![s] = ToldOfLag(@)]
          /\ UNCHANGED <<validating, judged, announced, safeRx, tracked>>
      BY <1>7 DEF PoolLagged
    <2>2. /\ DOMAIN poolRx' = Subscriber
          /\ \A x \in Subscriber : ReceiverOK(poolRx'[x], PoolCap)
      BY <2>1, PoolLaggedEffect
    <2> QED
      BY <2>1, <2>2 DEF RxOK, TokensOK
  <1>8. ASSUME NEW m \in Mints, NEW safe \in BOOLEAN, Verdict(m, safe)
        PROVE  RxOK' /\ TokensOK'
    <2>1. /\ validating' \in [Mints -> Nat] /\ judged' = judged + 1
          /\ announced' \subseteq announced \cup {m}
          /\ ReceiverOK(safeRx', SafeCap)
          /\ UNCHANGED <<poolRx, tracked>>
      BY <1>8, VerdictEffect
    <2> QED
      BY <2>1 DEF RxOK, TokensOK
  <1>9. CASE ~TokenStep
    <2>1. UNCHANGED <<poolRx, validating, judged, announced, safeRx, tracked>>
      BY <1>9, NoTokenStep
    <2> QED
      BY <2>1 DEF RxOK, TokensOK
  <1> QED
    BY <1>1, <1>2, <1>3, <1>4, <1>5, <1>6, <1>7, <1>8, <1>9 DEF TokenStep

LEMMA TypeInit == Init => TypeOK
  <1> SUFFICES ASSUME Init PROVE TypeOK
    OBVIOUS
  <1>1. TasksOK
    <2>1. spawned \in 0..Stages
      BY DEF Init, Stages
    <2>2. idsParse \in BOOLEAN /\ up \in BOOLEAN /\ ingesting \in BOOLEAN
      BY Zenon DEF Init
    <2> QED
      BY <2>1, <2>2, Zenon DEF TasksOK
  <1>2. poolRx = [s \in Subscriber |-> Unread] /\ safeRx = Unread
    BY Zenon DEF Init
  <1>3. RxOK
    BY <1>2, UnreadOK, PipelineAssumption DEF RxOK
  <1>4. TokensOK
    BY DEF Init, TokensOK
  <1> QED
    BY <1>1, <1>3, <1>4, QueuesInit, TypeSplit

(* What holds of the types and of the queues in every reachable state.     *)
PipeInv == TypeOK /\ FeedInv

LEMMA PipeInit == Init => PipeInv
  BY TypeInit, QueuesInit DEF PipeInv

LEMMA PipeStep == PipeInv /\ [Next]_vars => PipeInv'
  <1> SUFFICES ASSUME PipeInv, [Next]_vars PROVE PipeInv'
    OBVIOUS
  <1>1. TasksOK /\ QueuesOK /\ RxOK /\ TokensOK /\ Fed
    BY TypeSplit, Zenon DEF PipeInv, Fed
  <1>2. Fed' /\ TasksOK' /\ RxOK' /\ TokensOK'
    BY <1>1, FeedStep, TasksStep, TokensStep
  <1>3. TypeOK <=> TasksOK /\ QueuesOK /\ RxOK /\ TokensOK
    BY TypeSplit
  <1>4. (TypeOK <=> TasksOK /\ QueuesOK /\ RxOK /\ TokensOK)'
    BY TypeSplit, PTL
  <1> QED
    BY <1>2, <1>4, Zenon DEF PipeInv, Fed

(* Every variable has its type; no queue and no receiver of a broadcast    *)
(* ever holds more than its capacity, and one that lags is full.           *)
THEOREM PipelineTypeCorrect == Spec => []TypeOK
  <1>1. PipeInv => TypeOK
    BY DEF PipeInv
  <1> QED
    BY <1>1, PipeInit, PipeStep, PTL DEF Spec

-----------------------------------------------------------------------------
(* Counting.                                                               *)

DetectedTxs == {tx \in Tx : Detected(tx)}

LEMMA DetectionsAppended ==
    ASSUME QueuesOK, NEW tx \in Tx, scanned' = Append(scanned, tx)
    PROVE  Detections \in Nat /\ Detections' = Detections + (IF Detected(tx) THEN 1 ELSE 0)
  <1>1. scanned \in Seq(Tx) /\ scanned' \in Seq(Tx)
    BY AppendProperties DEF QueuesOK
  <1>2. ASSUME NEW s \in Seq(Tx)
        PROVE  {k \in DOMAIN s : Detected(s[k])} = ElementsAfter(s, 0, DetectedTxs)
    <2>1. /\ \A k \in DOMAIN s : s[k] \in Tx /\ k > 0
      BY LenProperties, ElementOfSeq
    <2> QED
      BY <2>1 DEF ElementsAfter, DetectedTxs
  <1>3. Detections = Cardinality(ElementsAfter(scanned, 0, DetectedTxs))
    BY <1>1, <1>2, Zenon DEF Detections
  <1>4. Detections' = Cardinality(ElementsAfter(scanned', 0, DetectedTxs))
    BY <1>1, <1>2, Zenon DEF Detections
  <1>5. /\ Cardinality(ElementsAfter(scanned, 0, DetectedTxs)) \in Nat
        /\ Cardinality(ElementsAfter(Append(scanned, tx), 0, DetectedTxs)) =
              Cardinality(ElementsAfter(scanned, 0, DetectedTxs))
                 + (IF tx \in DetectedTxs THEN 1 ELSE 0)
    BY <1>1, LenProperties, CountAppended
  <1> QED
    BY <1>3, <1>4, <1>5 DEF DetectedTxs

(* The validations of one mint more or less.                               *)
Pairs(v) == UNION {{m} \X (1..v[m]) : m \in Mints}

LEMMA OneMorePair ==
    ASSUME NEW v \in [Mints -> Nat], NEW m \in Mints, NEW w,
           w = [v EXCEPT ![m] = v[m] + 1]
    PROVE  /\ Pairs(w) = Pairs(v) \cup {<<m, v[m] + 1>>}
           /\ <<m, v[m] + 1>> \notin Pairs(v)
  <1> DEFINE n == v[m] + 1
  <1>1. w \in [Mints -> Nat] /\ w[m] = n /\ \A x \in Mints : x # m => w[x] = v[x]
    OBVIOUS
  <1>2. v[m] \in Nat
    OBVIOUS
  <1>3. 1..n = (1..v[m]) \cup {n} /\ n \notin 1..v[m]
    BY <1>2
  <1> HIDE DEF n
  <1>4. \A u, p : p \in Pairs(u) <=> \E x \in Mints : p \in {x} \X (1..u[x])
    BY Zenon DEF Pairs
  <1>5. \A x, p : p \in {x} \X (1..v[m]) \cup {<<x, n>>} <=> p \in {x} \X ((1..v[m]) \cup {n})
    OBVIOUS
  <1>6. ASSUME NEW p
        PROVE  p \in Pairs(w) <=> p \in Pairs(v) \cup {<<m, n>>}
    <2>1. p \in {m} \X (1..w[m]) <=> p \in {m} \X (1..v[m]) \/ p = <<m, n>>
      BY <1>1, <1>3, <1>5
    <2>2. ASSUME NEW x \in Mints, x # m
          PROVE  p \in {x} \X (1..w[x]) <=> p \in {x} \X (1..v[x])
      BY <1>1, <2>2
    <2>3. ASSUME p \in Pairs(w) PROVE p \in Pairs(v) \/ p = <<m, n>>
      <3>1. PICK x \in Mints : p \in {x} \X (1..w[x])
        BY <1>4, <2>3
      <3> QED
        BY <1>4, <2>1, <2>2, <3>1, Zenon
    <2>4. ASSUME p \in Pairs(v) PROVE p \in Pairs(w)
      <3>1. PICK x \in Mints : p \in {x} \X (1..v[x])
        BY <1>4, <2>4
      <3> QED
        BY <1>4, <2>1, <2>2, <3>1, Zenon
    <2>5. p = <<m, n>> => p \in Pairs(w)
      BY <1>4, <2>1, Zenon
    <2> QED
      BY <2>3, <2>4, <2>5
  <1>7. <<m, n>> \notin Pairs(v)
    BY <1>3, <1>4
  <1> QED
    BY <1>6, <1>7 DEF n

-----------------------------------------------------------------------------
(* The account of the pool events.                                         *)

AccountInv ==
    /\ \A s \in Subscriber : Total(poolRx[s]) = Detections
    /\ IsFiniteSet(UnderWay)
    /\ poolRx["safety"].received = judged + Cardinality(UnderWay)

LEMMA AccountStep ==
    ASSUME QueuesOK, RxOK, TokensOK, AccountInv, [Next]_vars
    PROVE  AccountInv'
  <1>t. /\ "safety" \in Subscriber /\ judged \in Nat /\ validating \in [Mints -> Nat]
        /\ poolRx["safety"].received \in Nat /\ Cardinality(UnderWay) \in Nat
        /\ UnderWay = Pairs(validating) /\ UnderWay' = Pairs(validating')
    <2>1. "safety" \in Subscriber
      BY DEF Subscriber
    <2>2. poolRx["safety"].received \in Nat
      BY <2>1, ReceiverType DEF RxOK
    <2>3. Cardinality(UnderWay) \in Nat
      BY FS_CardinalityType DEF AccountInv
    <2> QED
      BY <2>1, <2>2, <2>3 DEF TokensOK, UnderWay, Pairs
  <1>1. CASE Scan
    <2>1. /\ Head(rawQueue) \in Tx /\ scanned' = Append(scanned, Head(rawQueue))
          /\ \A s \in Subscriber :
                /\ Total(poolRx'[s]) = Total(poolRx[s])
                                          + (IF Detected(Head(rawQueue)) THEN 1 ELSE 0)
                /\ poolRx'[s].received = poolRx[s].received
          /\ validating' = validating /\ judged' = judged
      BY <1>1, ScanEffect
    <2>2. Detections' = Detections + (IF Detected(Head(rawQueue)) THEN 1 ELSE 0)
      BY <2>1, DetectionsAppended
    <2>3. \A s \in Subscriber : Total(poolRx'[s]) = Detections'
      BY <2>1, <2>2 DEF AccountInv
    <2> QED
      BY <1>t, <2>1, <2>3 DEF AccountInv
  <1>2. CASE StartValidation
    <2>1. /\ CanRead(poolRx["safety"])
          /\ poolRx' = [poolRx EXCEPT !["safety"] = ReadOne(@)]
          /\ scanned' = scanned /\ judged' = judged
      BY <1>2, StartEffect
    <2>2. PICK m \in Mints : validating' = [validating EXCEPT ![m] = validating[m] + 1]
      BY <1>2, StartEffect
    <2>3. /\ \A s \in Subscriber : Total(poolRx'[s]) = Total(poolRx[s])
          /\ poolRx'["safety"].received = poolRx["safety"].received + 1
      BY <1>t, <2>1, PoolReadEffect
    <2> DEFINE p == <<m, validating[m] + 1>>
    <2>4. UnderWay' = UnderWay \cup {p} /\ p \notin UnderWay
      BY <1>t, <2>2, OneMorePair
    <2> HIDE DEF p
    <2>5. IsFiniteSet(UnderWay') /\ Cardinality(UnderWay') = Cardinality(UnderWay) + 1
      BY <2>4, FS_AddElement DEF AccountInv
    <2>6. Detections' = Detections
      BY <2>1 DEF Detections
    <2> QED
      BY <1>t, <2>1, <2>3, <2>5, <2>6 DEF AccountInv
  <1>3. CASE PoolTask
    <2>1. /\ CanRead(poolRx["strategy"])
          /\ poolRx' = [poolRx EXCEPT !["strategy"] = ReadOne(@)]
          /\ scanned' = scanned /\ judged' = judged /\ validating' = validating
      BY <1>3 DEF PoolTask, feed
    <2>2. /\ \A s \in Subscriber : Total(poolRx'[s]) = Total(poolRx[s])
          /\ poolRx'["safety"].received = poolRx["safety"].received
      BY <1>t, <2>1, PoolReadEffect DEF Subscriber
    <2>3. Detections' = Detections
      BY <2>1 DEF Detections
    <2> QED
      BY <1>t, <2>1, <2>2, <2>3 DEF AccountInv
  <1>4. ASSUME NEW s \in Subscriber, PoolLagged(s) PROVE AccountInv'
    <2>1. /\ poolRx' = [poolRx EXCEPT ![s] = ToldOfLag(@)]
          /\ scanned' = scanned /\ judged' = judged /\ validating' = validating
      BY <1>4 DEF PoolLagged, feed
    <2>2. /\ \A x \in Subscriber : Total(poolRx'[x]) = Total(poolRx[x])
          /\ poolRx'["safety"].received = poolRx["safety"].received
      BY <1>t, <2>1, PoolLaggedEffect
    <2>3. Detections' = Detections
      BY <2>1 DEF Detections
    <2> QED
      BY <1>t, <2>1, <2>2, <2>3 DEF AccountInv
  <1>5. ASSUME NEW m \in Mints, NEW safe \in BOOLEAN, Verdict(m, safe) PROVE AccountInv'
    <2>1. /\ validating[m] > 0 /\ validating' = [validating EXCEPT ![m] = validating[m] - 1]
          /\ validating' \in [Mints -> Nat] /\ judged' = judged + 1
          /\ scanned' = scanned /\ poolRx' = poolRx
      BY <1>5, VerdictEffect
    <2> DEFINE p == <<m, validating'[m] + 1>>
    <2>2. validating = [validating' EXCEPT ![m] = validating'[m] + 1]
      <3> DEFINE w == [validating' EXCEPT ![m] = validating'[m] + 1]
      <3>1. w \in [Mints -> Nat] /\ validating \in [Mints -> Nat]
        BY <1>t, <2>1
      <3>2. ASSUME NEW x \in Mints PROVE w[x] = validating[x]
        BY <1>t, <2>1
      <3> HIDE DEF w
      <3>3. validating = w
        BY <3>1, <3>2
      <3> QED
        BY <3>3 DEF w
    <2>3. UnderWay = UnderWay' \cup {p} /\ p \notin UnderWay'
      BY <1>t, <2>1, <2>2, OneMorePair
    <2> HIDE DEF p
    <2>4. UnderWay' = UnderWay \ {p} /\ p \in UnderWay
      BY <2>3
    <2>5. IsFiniteSet(UnderWay') /\ Cardinality(UnderWay') = Cardinality(UnderWay) - 1
      BY <2>4, FS_RemoveElement DEF AccountInv
    <2>6. Detections' = Detections
      BY <2>1 DEF Detections
    <2> QED
      BY <1>t, <2>1, <2>5, <2>6 DEF AccountInv
  <1>6. CASE Ingest \/ SafeLagged \/ TrackSafe \/ ~TokenStep
    <2>1. UNCHANGED <<scanned, poolRx, validating, judged>>
      <3>1. CASE Ingest
        BY <3>1, IngestEffect
      <3>2. CASE SafeLagged
        BY <3>2 DEF SafeLagged, feed
      <3>3. CASE TrackSafe
        BY <3>3, TrackSafeEffect
      <3>4. CASE ~TokenStep
        BY <3>4, NoTokenStep
      <3> QED
        BY <1>6, <3>1, <3>2, <3>3, <3>4
    <2> QED
      BY <2>1 DEF AccountInv, Detections, UnderWay
  <1> QED
    BY <1>1, <1>2, <1>3, <1>4, <1>5, <1>6 DEF TokenStep

LEMMA AccountInit == Init => AccountInv
  <1> SUFFICES ASSUME Init PROVE AccountInv
    OBVIOUS
  <1>1. /\ poolRx = [s \in Subscriber |-> Unread] /\ judged = 0
        /\ scanned = <<>> /\ validating = [m \in Mints |-> 0]
    BY Zenon DEF Init
  <1>2. Total(Unread) = 0 /\ Unread.received = 0
    BY UnreadOK, PipelineAssumption
  <1>3. Detections = 0
    <2>1. {k \in DOMAIN scanned : Detected(scanned[k])} = {}
      BY <1>1, EmptySeq
    <2> QED
      BY <2>1, FS_EmptySet DEF Detections
  <1>4. UnderWay = {}
    BY <1>1 DEF UnderWay
  <1>5. IsFiniteSet(UnderWay) /\ Cardinality(UnderWay) = 0
    BY <1>4, FS_EmptySet
  <1>6. "safety" \in Subscriber
    BY DEF Subscriber
  <1> QED
    BY <1>1, <1>2, <1>3, <1>5, <1>6 DEF AccountInv

(* No pool event is lost without an account of it: for each reader, all    *)
(* events that were detected were sent before it subscribed, or were       *)
(* overwritten, or wait, or were read; and all that the safety filter read *)
(* are being validated or were.                                            *)
THEOREM EventsAreAccounted == Spec => []EventsAccounted
  <1>1. PipeInv /\ AccountInv /\ [Next]_vars => AccountInv'
    BY AccountStep, TypeSplit, Zenon DEF PipeInv
  <1>2. PipeInv /\ AccountInv => EventsAccounted
    <2> SUFFICES ASSUME PipeInv, AccountInv PROVE EventsAccounted
      OBVIOUS
    <2>1. RxOK
      BY TypeSplit, Zenon DEF PipeInv
    <2>2. ASSUME NEW s \in Subscriber
          PROVE  Detections = Lost(poolRx[s]) + poolRx[s].lag + Len(poolRx[s].queue)
                                 + poolRx[s].received
      <3>1. /\ Lost(poolRx[s]) \in Nat /\ poolRx[s].lag \in Nat
            /\ Len(poolRx[s].queue) \in Nat /\ poolRx[s].received \in Nat
        BY <2>1, ReceiverType DEF RxOK
      <3>2. Detections = (Lost(poolRx[s]) + (poolRx[s].lag + Len(poolRx[s].queue)))
                            + poolRx[s].received
        BY DEF AccountInv, Total, Unseen
      <3>3. \A a, b, c, d \in Nat : (a + (b + c)) + d = a + b + c + d
        OBVIOUS
      <3> QED
        BY <3>1, <3>2, <3>3
    <2> QED
      BY <2>2 DEF EventsAccounted, AccountInv
  <1> QED
    BY <1>1, <1>2, AccountInit, PipeInit, PipeStep, PTL DEF Spec

-----------------------------------------------------------------------------
(* Only safe tokens are tracked.  A pool event and a validation under way  *)
(* are about a mint that the detector read; what waits for the velocity    *)
(* monitor was announced.                                                  *)

ScannedMints == {scanned[k].base : k \in DOMAIN scanned}

SafeInv ==
    /\ \A m \in Mints : validating[m] > 0 => m \in ScannedMints
    /\ Waiting(poolRx["safety"]) \subseteq ScannedMints
    /\ announced \subseteq ScannedMints
    /\ Waiting(safeRx) \subseteq announced
    /\ DOMAIN tracked \subseteq announced

LEMMA SafeStep ==
    ASSUME QueuesOK, RxOK, TokensOK, SafeInv, [Next]_vars
    PROVE  SafeInv'
  <1>t. "safety" \in Subscriber /\ "strategy" \in Subscriber /\ "safety" # "strategy"
    BY DEF Subscriber
  <1>1. CASE Scan
    <2>1. /\ Head(rawQueue) \in Tx /\ scanned' = Append(scanned, Head(rawQueue))
          /\ Waiting(poolRx'["safety"]) \subseteq
                Waiting(poolRx["safety"]) \cup {Head(rawQueue).base}
          /\ UNCHANGED <<validating, announced, safeRx, tracked>>
      BY <1>t, <1>1, ScanEffect
    <2>2. ScannedMints \cup {Head(rawQueue).base} \subseteq ScannedMints'
      <3>1. /\ Len(scanned) \in Nat /\ DOMAIN scanned = 1..Len(scanned)
            /\ DOMAIN scanned' = 1..(Len(scanned) + 1)
            /\ \A k \in 1..Len(scanned) : scanned'[k] = scanned[k]
            /\ scanned'[Len(scanned) + 1] = Head(rawQueue)
        BY <2>1, AppendProperties, LenProperties DEF QueuesOK
      <3> QED
        BY <3>1 DEF ScannedMints
    <2> QED
      BY <2>1, <2>2 DEF SafeInv
  <1>2. CASE StartValidation
    <2>1. /\ CanRead(poolRx["safety"])
          /\ poolRx' = [poolRx EXCEPT !["safety"] = ReadOne(@)]
          /\ UNCHANGED <<scanned, announced, safeRx, tracked>>
      BY <1>2, StartEffect
    <2>2. PICK m \in Mints \cap Waiting(poolRx["safety"]) :
              validating' = [validating EXCEPT ![m] = validating[m] + 1]
      BY <1>2, StartEffect
    <2>3. Waiting(poolRx'["safety"]) \subseteq Waiting(poolRx["safety"])
      BY <1>t, <2>1, PoolReadEffect
    <2>4. m \in ScannedMints
      BY <2>2, PipelineAssumption DEF SafeInv
    <2>5. \A x \in Mints : x # m => validating'[x] = validating[x]
      BY <2>2 DEF TokensOK
    <2>6. ScannedMints' = ScannedMints
      BY <2>1 DEF ScannedMints
    <2> QED
      BY <2>1, <2>3, <2>4, <2>5, <2>6 DEF SafeInv
  <1>3. ASSUME NEW m \in Mints, NEW safe \in BOOLEAN, Verdict(m, safe) PROVE SafeInv'
    <2>1. /\ validating[m] > 0 /\ validating' = [validating EXCEPT ![m] = validating[m] - 1]
          /\ announced \subseteq announced' /\ announced' \subseteq announced \cup {m}
          /\ Waiting(safeRx') \subseteq Waiting(safeRx) \cup (announced' \cap {m})
          /\ UNCHANGED <<scanned, poolRx, tracked>>
      BY <1>3, VerdictEffect
    <2>2. m \in ScannedMints
      BY <2>1 DEF SafeInv
    <2>3. \A x \in Mints : x # m => validating'[x] = validating[x]
      BY <2>1 DEF TokensOK
    <2>4. ScannedMints' = ScannedMints
      BY <2>1 DEF ScannedMints
    <2> QED
      BY <2>1, <2>2, <2>3, <2>4 DEF SafeInv
  <1>4. CASE TrackSafe
    <2>1. /\ Waiting(safeRx') \subseteq Waiting(safeRx)
          /\ UNCHANGED <<scanned, poolRx, validating, announced>>
      BY <1>4, TrackSafeEffect
    <2>2. PICK m \in Waiting(safeRx) : DOMAIN tracked' = DOMAIN tracked \cup {m}
      BY <1>4, TrackSafeEffect
    <2> QED
      BY <2>1, <2>2 DEF SafeInv, ScannedMints
  <1>5. CASE PoolTask
    <2>1. /\ CanRead(poolRx["strategy"])
          /\ poolRx' = [poolRx EXCEPT !["strategy"] = ReadOne(@)]
          /\ UNCHANGED <<scanned, validating, announced, safeRx, tracked>>
      BY <1>5 DEF PoolTask, feed
    <2>2. Waiting(poolRx'["safety"]) \subseteq Waiting(poolRx["safety"])
      BY <1>t, <2>1, PoolReadEffect
    <2> QED
      BY <2>1, <2>2 DEF SafeInv, ScannedMints
  <1>6. ASSUME NEW s \in Subscriber, PoolLagged(s) PROVE SafeInv'
    <2>1. /\ poolRx' = [poolRx EXCEPT ![s] = ToldOfLag(@)]
          /\ UNCHANGED <<scanned, validating, announced, safeRx, tracked>>
      BY <1>6 DEF PoolLagged, feed
    <2>2. Waiting(poolRx'["safety"]) \subseteq Waiting(poolRx["safety"])
      BY <1>t, <2>1, PoolLaggedEffect
    <2> QED
      BY <2>1, <2>2 DEF SafeInv, ScannedMints
  <1>7. CASE SafeLagged
    <2>1. /\ safeRx' = ToldOfLag(safeRx)
          /\ UNCHANGED <<scanned, poolRx, validating, announced, tracked>>
      BY <1>7 DEF SafeLagged, feed
    <2>2. SafeCap \in Nat /\ ReceiverOK(safeRx, SafeCap)
      BY PipelineAssumption DEF RxOK
    <2>3. Waiting(safeRx') = Waiting(safeRx)
      BY <2>1, <2>2, ToldKeeps
    <2> QED
      BY <2>1, <2>3 DEF SafeInv, ScannedMints
  <1>8. CASE Ingest \/ ~TokenStep
    <2>1. UNCHANGED <<scanned, poolRx, validating, announced, safeRx>> /\ DOMAIN tracked' = DOMAIN tracked
      BY <1>8, IngestEffect, NoTokenStep
    <2> QED
      BY <2>1 DEF SafeInv, ScannedMints
  <1> QED
    BY <1>1, <1>2, <1>3, <1>4, <1>5, <1>6, <1>7, <1>8 DEF TokenStep

(* The velocity monitor tracks a token only after a validation found it    *)
(* safe, and that validation was of a pool event of the token's own.       *)
THEOREM OnlySafeAreTracked == Spec => []OnlySafeTracked
  <1>1. Init => SafeInv
    <2> SUFFICES ASSUME Init PROVE SafeInv
      OBVIOUS
    <2>1. /\ poolRx = [s \in Subscriber |-> Unread] /\ safeRx = Unread
          /\ validating = [m \in Mints |-> 0] /\ announced = {} /\ tracked = << >>
      BY Zenon DEF Init
    <2>2. Waiting(Unread) = {}
      BY UnreadOK
    <2>3. Waiting(poolRx["safety"]) = {} /\ Waiting(safeRx) = {}
      BY <2>1, <2>2 DEF Subscriber
    <2> QED
      BY <2>1, <2>3, EmptySeq DEF SafeInv
  <1>2. PipeInv /\ SafeInv /\ [Next]_vars => SafeInv'
    BY SafeStep, TypeSplit, Zenon DEF PipeInv
  <1>3. SafeInv => OnlySafeTracked
    BY DEF SafeInv, OnlySafeTracked, ScannedMints
  <1> QED
    BY <1>1, <1>2, <1>3, PipeInit, PipeStep, PTL DEF Spec
=============================================================================
