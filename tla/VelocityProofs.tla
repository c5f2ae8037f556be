--------------------------- MODULE VelocityProofs ---------------------------
(***************************************************************************)
(* Theorems about Velocity: its types, that each tracking of a token buys  *)
(* at most once, and that nothing is bought in the war zone.               *)
(***************************************************************************)
EXTENDS Velocity, SequenceLemmas, FiniteSetTheorems

-----------------------------------------------------------------------------
(* The ages of transactions.                                               *)

Ordered(ages) == \A j, k \in DOMAIN ages : j < k => ages[j] >= ages[k]
EntryOK(d)    == d \in Data /\ Ordered(d.txs)

(* What has a count has a number.                                          *)
LEMMA BetweenType ==
    ASSUME NEW ages \in Seq(Age), NEW from, NEW to
    PROVE  Between(ages, from, to) \in Nat
  <1> DEFINE inside == {k \in DOMAIN ages : from <= ages[k] /\ ages[k] < to}
  <1>1. DOMAIN ages = 1..Len(ages) /\ Len(ages) \in Nat
    BY LenProperties
  <1>2. IsFiniteSet(1..Len(ages))
    BY <1>1, FS_Interval
  <1>3. inside \in SUBSET (1..Len(ages))
    BY <1>1
  <1>4. IsFiniteSet(inside)
    BY <1>2, <1>3, FS_Subset
  <1> QED
    BY <1>4, FS_CardinalityType DEF Between

LEMMA AgeBounds ==
    /\ 0 \in Age /\ Age \subseteq Nat
    /\ Minute \in Nat /\ WarZone \in Nat /\ 0 < WarZone /\ WarZone < AgeCap
  BY VelocityAssumption DEF Age

(* A check makes everything a step older, up to the bound, and so keeps    *)
(* the order of the ages.                                                  *)
LEMMA OlderType ==
    ASSUME NEW a \in Age, NEW b \in Age
    PROVE  /\ Older(a) \in Age
           /\ a <= b => Older(a) <= Older(b)
  BY VelocityAssumption DEF Age, Older

LEMMA FirstAgeType ==
    ASSUME NEW d \in Data
    PROVE  /\ FirstAge(d) \in Age
           /\ FirstAge(d) > 0 => 1 \in DOMAIN d.txs /\ FirstAge(d) = d.txs[1]
  <1>1. d.txs \in Seq(Age) /\ DOMAIN d.txs = 1..Len(d.txs) /\ Len(d.txs) \in Nat
    BY LenProperties DEF Data
  <1>2. d.txs # <<>> => Len(d.txs) \in Nat \ {0}
    BY <1>1, EmptySeq
  <1>3. d.txs # <<>> => 1 \in DOMAIN d.txs /\ d.txs[1] \in Age
    BY <1>1, <1>2, ElementOfSeq
  <1> QED
    BY <1>3, AgeBounds DEF FirstAge

LEMMA AgedType ==
    ASSUME NEW d, EntryOK(d)
    PROVE  /\ EntryOK(Aged(d))
           /\ DOMAIN Aged(d).txs = DOMAIN d.txs
           /\ \A k \in DOMAIN d.txs : d.txs[k] \in Age /\ Aged(d).txs[k] = Older(d.txs[k])
           /\ Aged(d).triggered = d.triggered
  <1> DEFINE old == [k \in DOMAIN d.txs |-> Older(d.txs[k])]
  <1>1. d \in Data /\ d.txs \in Seq(Age) /\ DOMAIN d.txs = 1..Len(d.txs)
    BY LenProperties DEF EntryOK, Data
  <1>2. \A k \in DOMAIN d.txs : d.txs[k] \in Age
    BY <1>1, ElementOfSeq
  <1>3. \A k \in DOMAIN old : old[k] \in Age
    BY <1>2, OlderType
  <1>4. old \in Seq(Age)
    BY <1>1, <1>3, InPlaceType
  <1>5. Ordered(old)
    <2> SUFFICES ASSUME NEW j \in DOMAIN d.txs, NEW k \in DOMAIN d.txs, j < k
                 PROVE  old[j] >= old[k]
      BY DEF Ordered
    <2>1. d.txs[j] >= d.txs[k] /\ d.txs[j] \in Age /\ d.txs[k] \in Age
      BY <1>2 DEF EntryOK, Ordered
    <2>2. d.txs[j] \in Nat /\ d.txs[k] \in Nat
      BY <2>1, AgeBounds
    <2>3. Older(d.txs[k]) <= Older(d.txs[j]) /\ Older(d.txs[k]) \in Nat /\ Older(d.txs[j]) \in Nat
      BY <2>1, <2>2, OlderType, AgeBounds
    <2> QED
      BY <2>3
  <1>6. Aged(d) = [d EXCEPT !.txs = old]
    BY DEF Aged
  <1> HIDE DEF old
  <1>7. Aged(d) \in Data /\ Aged(d).txs = old /\ Aged(d).triggered = d.triggered
    BY <1>1, <1>4, <1>6 DEF Data
  <1> USE DEF old
  <1> QED
    BY <1>2, <1>5, <1>7 DEF EntryOK

-----------------------------------------------------------------------------
(* Types.  A step changes the entry of one token.                          *)

IsMap   == tracked = [x \in DOMAIN tracked |-> tracked[x]]
TypeInv == TypeOK /\ IsMap

LEMMA Entries ==
    ASSUME TypeInv, NEW m \in DOMAIN tracked
    PROVE  m \in Mints /\ EntryOK(tracked[m])
  BY DEF TypeInv, TypeOK, EntryOK, Ordered

LEMMA EntriesOK ==
    ASSUME DOMAIN tracked \subseteq Mints, \A m \in DOMAIN tracked : EntryOK(tracked[m]), IsMap,
           starts \in [Mints -> 0..MaxTracked], waited \in [Mints -> Age], sent \in Seq(Signal)
    PROVE  TypeInv
  BY DEF TypeInv, TypeOK, EntryOK, Ordered

(* After a check the entry is as the check left it, and all of it older.   *)
LEMMA GoesEffect ==
    ASSUME TypeInv, NEW m \in DOMAIN tracked, NEW d, EntryOK(d), Goes(m, d)
    PROVE  /\ DOMAIN tracked' = DOMAIN tracked /\ IsMap'
           /\ tracked'[m] = Aged(d)
           /\ \A x \in DOMAIN tracked : x # m => tracked'[x] = tracked[x]
           /\ \A x \in DOMAIN tracked' : EntryOK(tracked'[x])
           /\ starts' = starts
           /\ waited' \in [Mints -> Age] /\ waited'[m] = Older(waited[m])
           /\ \A x \in Mints : x # m => waited'[x] = waited[x]
  <1>1. tracked' = [tracked EXCEPT ![m] = Aged(d)]
    BY DEF Goes
  <1>2. /\ DOMAIN tracked' = DOMAIN tracked /\ IsMap'
        /\ tracked'[m] = Aged(d)
        /\ \A x \in DOMAIN tracked : x # m => tracked'[x] = tracked[x]
    BY <1>1 DEF IsMap
  <1>3. \A x \in DOMAIN tracked' : EntryOK(tracked'[x])
    BY <1>2, AgedType, Entries
  <1>4. m \in Mints /\ waited \in [Mints -> Age]
    BY Entries DEF TypeInv, TypeOK
  <1>5. waited' = [waited EXCEPT ![m] = Older(waited[m])] /\ Older(waited[m]) \in Age
    BY <1>4, OlderType DEF Goes
  <1> QED
    BY <1>2, <1>3, <1>4, <1>5 DEF Goes

LEMMA TrackEffect ==
    ASSUME TypeInv, NEW m \in Mints, Track(m)
    PROVE  /\ TypeInv'
           /\ DOMAIN tracked' = DOMAIN tracked \cup {m}
           /\ tracked'[m] = Untouched
           /\ \A x \in DOMAIN tracked : x # m => tracked'[x] = tracked[x]
           /\ starts' = [starts EXCEPT ![m] = starts[m] + 1]
           /\ waited' = [waited EXCEPT ![m] = 0] /\ sent' = sent
  <1>1. EntryOK(Untouched)
    <2>1. <<>> \in Seq(Age) /\ DOMAIN <<>> = {}
      BY EmptySeq
    <2> QED
      BY <2>1 DEF EntryOK, Ordered, Untouched, Data
  <1>2. /\ DOMAIN tracked' = DOMAIN tracked \cup {m} /\ IsMap'
        /\ tracked'[m] = Untouched
        /\ \A x \in DOMAIN tracked : x # m => tracked'[x] = tracked[x]
    BY DEF Track, Fresh, IsMap
  <1>3. \A x \in DOMAIN tracked' : EntryOK(tracked'[x])
    BY <1>1, <1>2, Entries
  <1>4. /\ starts' = [starts EXCEPT ![m] = starts[m] + 1]
        /\ waited' = [waited EXCEPT ![m] = 0] /\ sent' = sent
    BY DEF Track
  <1>5. /\ starts' \in [Mints -> 0..MaxTracked]
        /\ waited' \in [Mints -> Age] /\ sent' \in Seq(Signal)
    BY <1>4, AgeBounds, VelocityAssumption DEF Track, TypeInv, TypeOK
  <1>6. DOMAIN tracked' \subseteq Mints
    BY <1>2 DEF TypeInv, TypeOK
  <1> QED
    BY <1>2, <1>3, <1>4, <1>5, <1>6 DEF TypeInv, TypeOK, EntryOK, Ordered

(* The new transaction, of age 0, is the youngest.                         *)
LEMMA IngestEffect ==
    ASSUME TypeInv, NEW m \in Mints, Ingest(m)
    PROVE  /\ TypeInv'
           /\ m \in DOMAIN tracked /\ DOMAIN tracked' = DOMAIN tracked
           /\ \A x \in DOMAIN tracked : x # m => tracked'[x] = tracked[x]
           /\ tracked'[m].triggered = tracked[m].triggered
           /\ \A k \in DOMAIN tracked'[m].txs :
                 \/ k \in DOMAIN tracked[m].txs /\ tracked'[m].txs[k] = tracked[m].txs[k]
                 \/ tracked'[m].txs[k] = 0
           /\ UNCHANGED <<starts, waited, sent>>
  <1> DEFINE d     == tracked[m]
             txs   == Append(d.txs, 0)
             first == Append(d.fromFirst, FirstAge(d))
             e     == [d EXCEPT !.txs = txs, !.fromFirst = first]
  <1>1. /\ m \in DOMAIN tracked /\ tracked' = [tracked EXCEPT ![m] = e]
        /\ UNCHANGED <<starts, waited, sent>>
    BY DEF Ingest
  <1>2. d \in Data /\ Ordered(d.txs) /\ d.txs \in Seq(Age) /\ d.fromFirst \in Seq(Age)
    BY <1>1, Entries DEF EntryOK, Data
  <1>3. /\ txs \in Seq(Age) /\ DOMAIN txs = 1..(Len(d.txs) + 1)
        /\ DOMAIN d.txs = 1..Len(d.txs) /\ Len(d.txs) \in Nat
        /\ \A k \in 1..Len(d.txs) : txs[k] = d.txs[k] /\ d.txs[k] \in Age
        /\ txs[Len(d.txs) + 1] = 0
    BY <1>2, AgeBounds, AppendProperties, LenProperties, ElementOfSeq
  <1>4. first \in Seq(Age)
    BY <1>2, FirstAgeType, AppendProperties
  <1> HIDE DEF d, txs, first
  <1>5. Ordered(txs)
    <2> SUFFICES ASSUME NEW j \in DOMAIN txs, NEW k \in DOMAIN txs, j < k
                 PROVE  txs[j] >= txs[k]
      BY DEF Ordered
    <2>1. CASE k = Len(d.txs) + 1
      <3>1. j \in 1..Len(d.txs)
        BY <1>3, <2>1
      <3>2. txs[j] \in Nat /\ txs[k] = 0
        BY <1>3, <2>1, <3>1, AgeBounds
      <3> QED
        BY <3>2
    <2>2. CASE k # Len(d.txs) + 1
      <3>1. k \in DOMAIN d.txs /\ j \in DOMAIN d.txs
        BY <1>3, <2>2
      <3> QED
        BY <1>2, <1>3, <3>1 DEF Ordered
    <2> QED
      BY <2>1, <2>2
  <1>6. e \in Data /\ e.txs = txs /\ e.triggered = d.triggered
    BY <1>2, <1>3, <1>4 DEF Data
  <1>7. EntryOK(e)
    BY <1>5, <1>6 DEF EntryOK
  <1> HIDE DEF e
  <1>8. /\ DOMAIN tracked' = DOMAIN tracked /\ IsMap'
        /\ tracked'[m] = e
        /\ \A x \in DOMAIN tracked : x # m => tracked'[x] = tracked[x]
    BY <1>1 DEF TypeInv, IsMap
  <1>9. \A x \in DOMAIN tracked' : EntryOK(tracked'[x])
    BY <1>7, <1>8, Entries
  <1>10. TypeInv'
    BY <1>1, <1>8, <1>9 DEF TypeInv, TypeOK, EntryOK, Ordered
  <1>11. \A k \in DOMAIN txs : (k \in DOMAIN d.txs /\ txs[k] = d.txs[k]) \/ txs[k] = 0
    BY <1>3
  <1> QED
    BY <1>1, <1>6, <1>8, <1>10, <1>11 DEF d

(* A check ages the entry it looked at; it may send one Buy, for a token   *)
(* that has sent none yet and whose first transaction is old enough.       *)
LEMMA CheckEffect ==
    ASSUME TypeInv, NEW m \in Mints, Check(m)
    PROVE  /\ m \in DOMAIN tracked
           /\ \E d : /\ EntryOK(d) /\ Goes(m, d) /\ d.txs = tracked[m].txs
                     /\ \/ sent' = sent /\ d.triggered = tracked[m].triggered
                        \/ /\ ~tracked[m].triggered /\ d.triggered
                           /\ FirstAge(tracked[m]) >= WarZone
                           /\ \E n \in Nat : sent' = Append(sent,
                                 [mint |-> m, waited |-> waited[m], inMinute2 |-> n])
  <1> DEFINE d == tracked[m]
  <1>1. m \in DOMAIN tracked
    BY DEF Check, CheckSettled, CheckWaiting, Decide
  <1>2. EntryOK(d) /\ d \in Data /\ d.txs \in Seq(Age) /\ d.fromFirst \in Seq(Age)
        /\ d.triggered \in BOOLEAN
    BY <1>1, Entries DEF EntryOK, Data
  <1>3. CalculateTpm(d) \in Nat /\ MayBeInMinute2(d) \in Nat
    BY <1>2, BetweenType DEF CalculateTpm, MayBeInMinute2
  <1>4. CASE CheckSettled(m)
    BY <1>1, <1>2, <1>4 DEF CheckSettled
  <1>5. CASE CheckWaiting(m)
    <2>1. /\ DuringWarZone(d) \in Data /\ DuringWarZone(d).txs = d.txs
          /\ DuringWarZone(d).triggered = d.triggered
      BY <1>2, <1>3 DEF DuringWarZone, Data
    <2>2. EntryOK(DuringWarZone(d))
      BY <1>2, <2>1 DEF EntryOK
    <2> QED
      BY <1>1, <1>5, <2>1, <2>2 DEF CheckWaiting
  <1>6. CASE Decide(m)
    <2> DEFINE m2   == CalculateTpm(d)
               buys == ShouldTriggerBuy(d, m2)
               e    == Decided(d, m2, buys)
    <2>1. buys \in BOOLEAN
      BY DEF ShouldTriggerBuy, Rises
    <2>2. /\ ~d.triggered /\ ~Waits(d) /\ Goes(m, e)
          /\ sent' = IF buys THEN Append(sent, [mint |-> m, waited |-> waited[m],
                                               inMinute2 |-> MayBeInMinute2(d)])
                     ELSE sent
      BY <1>6 DEF Decide, Settled
    <2>3. FirstAge(d) >= WarZone
      <3>1. FirstAge(d) \in Nat
        BY <1>2, FirstAgeType, AgeBounds
      <3> QED
        BY <2>2, <3>1, AgeBounds DEF Waits
    <2> HIDE DEF m2, buys
    <2>4. e \in Data /\ e.txs = d.txs /\ e.triggered = buys
      BY <1>2, <1>3, <2>1 DEF Decided, Data, m2
    <2>5. EntryOK(e)
      BY <1>2, <2>4 DEF EntryOK
    <2> HIDE DEF e
    <2>6. CASE buys
      BY <1>1, <1>3, <2>2, <2>3, <2>4, <2>5, <2>6
    <2>7. CASE ~buys
      <3>1. e.triggered = d.triggered
        BY <1>2, <2>1, <2>2, <2>4, <2>7
      <3> QED
        BY <1>1, <2>2, <2>4, <2>5, <2>7, <3>1
    <2> QED
      BY <2>6, <2>7
  <1> QED
    BY <1>4, <1>5, <1>6 DEF Check

LEMMA VelocityTypeInit == Init => TypeInv
  <1> SUFFICES ASSUME Init PROVE TypeInv
    OBVIOUS
  <1>1. tracked = << >> /\ DOMAIN tracked = {} /\ IsMap
    BY DEF Init, IsMap
  <1>2. /\ starts \in [Mints -> 0..MaxTracked]
        /\ waited \in [Mints -> Age] /\ sent \in Seq(Signal)
    BY AgeBounds, VelocityAssumption, EmptySeq DEF Init
  <1> QED
    BY <1>1, <1>2 DEF TypeInv, TypeOK

LEMMA CheckType ==
    ASSUME TypeInv, NEW m \in Mints, Check(m)
    PROVE  TypeInv'
  <1>1. m \in DOMAIN tracked
    BY CheckEffect
  <1>2. PICK d : /\ EntryOK(d) /\ Goes(m, d)
                 /\ \/ sent' = sent
                    \/ \E n \in Nat : sent' = Append(sent,
                          [mint |-> m, waited |-> waited[m], inMinute2 |-> n])
    BY CheckEffect
  <1>3. sent' \in Seq(Signal)
    <2>1. sent \in Seq(Signal) /\ waited[m] \in Age
      BY DEF TypeInv, TypeOK
    <2>2. \A n \in Nat : [mint |-> m, waited |-> waited[m], inMinute2 |-> n] \in Signal
      BY <2>1 DEF Signal
    <2> QED
      BY <1>2, <2>1, <2>2, AppendProperties
  <1>4. /\ DOMAIN tracked' = DOMAIN tracked /\ IsMap'
        /\ \A x \in DOMAIN tracked' : EntryOK(tracked'[x])
        /\ starts' = starts /\ waited' \in [Mints -> Age]
    BY <1>1, <1>2, GoesEffect
  <1> QED
    BY <1>3, <1>4 DEF TypeInv, TypeOK, EntryOK, Ordered

LEMMA VelocityTypeStep == TypeInv /\ [Next]_vars => TypeInv'
  <1> SUFFICES ASSUME TypeInv, [Next]_vars PROVE TypeInv'
    OBVIOUS
  <1>1. CASE UNCHANGED vars
    BY <1>1 DEF vars, TypeInv, TypeOK, IsMap
  <1> QED
    BY <1>1, TrackEffect, IngestEffect, CheckType DEF Next

(* Every entry of the map is a VelocityData with its transactions oldest   *)
(* first, which calculate_tpm and the age of the token rely on.            *)
THEOREM VelocityTypeCorrect == Spec => []TypeOK
  BY VelocityTypeInit, VelocityTypeStep, PTL DEF Spec, TypeInv

-----------------------------------------------------------------------------
(* The war zone.  The code measures it from the first transaction it kept; *)
(* no transaction is older than the tracking of its token, because insert  *)
(* throws away those of before.                                            *)

YoungInv ==
    \A m \in DOMAIN tracked : \A k \in DOMAIN tracked[m].txs : tracked[m].txs[k] <= waited[m]

LEMMA YoungStep ==
    ASSUME TypeInv, YoungInv, [Next]_vars
    PROVE  YoungInv'
  <1>w. \A x \in Mints : waited[x] \in Age /\ waited[x] \in Nat
    BY AgeBounds DEF TypeInv, TypeOK
  <1>d. DOMAIN tracked \subseteq Mints /\ waited \in [Mints -> Age]
    BY DEF TypeInv, TypeOK
  <1>1. ASSUME NEW m \in Mints, Track(m) PROVE YoungInv'
    <2>1. /\ DOMAIN tracked' = DOMAIN tracked \cup {m}
          /\ tracked'[m] = Untouched
          /\ \A x \in DOMAIN tracked : x # m => tracked'[x] = tracked[x]
          /\ waited' = [waited EXCEPT ![m] = 0]
      BY <1>1, TrackEffect
    <2>2. Untouched.txs = <<>> /\ DOMAIN <<>> = {}
      BY DEF Untouched
    <2> QED
      BY <2>1, <2>2, <1>d DEF YoungInv
  <1>2. ASSUME NEW m \in Mints, Ingest(m) PROVE YoungInv'
    <2>1. /\ m \in DOMAIN tracked /\ DOMAIN tracked' = DOMAIN tracked
          /\ \A x \in DOMAIN tracked : x # m => tracked'[x] = tracked[x]
          /\ \A k \in DOMAIN tracked'[m].txs :
                 \/ k \in DOMAIN tracked[m].txs /\ tracked'[m].txs[k] = tracked[m].txs[k]
                 \/ tracked'[m].txs[k] = 0
          /\ waited' = waited
      BY <1>2, IngestEffect
    <2>2. \A k \in DOMAIN tracked'[m].txs : tracked'[m].txs[k] <= waited[m]
      BY <2>1, <1>w DEF YoungInv
    <2> QED
      BY <2>1, <2>2 DEF YoungInv
  <1>3. ASSUME NEW m \in Mints, Check(m) PROVE YoungInv'
    <2>1. m \in DOMAIN tracked
      BY <1>3, CheckEffect
    <2>2. PICK d : EntryOK(d) /\ Goes(m, d) /\ d.txs = tracked[m].txs
      BY <1>3, CheckEffect
    <2>3. /\ DOMAIN tracked' = DOMAIN tracked /\ tracked'[m] = Aged(d)
          /\ \A x \in DOMAIN tracked : x # m => tracked'[x] = tracked[x]
          /\ waited'[m] = Older(waited[m])
          /\ \A x \in Mints : x # m => waited'[x] = waited[x]
      BY <2>1, <2>2, GoesEffect
    <2>4. /\ DOMAIN Aged(d).txs = DOMAIN tracked[m].txs
          /\ \A k \in DOMAIN tracked[m].txs :
                /\ tracked[m].txs[k] \in Age
                /\ Aged(d).txs[k] = Older(tracked[m].txs[k])
      BY <2>2, AgedType
    <2>5. \A k \in DOMAIN tracked'[m].txs : tracked'[m].txs[k] <= waited'[m]
      BY <2>1, <2>3, <2>4, <1>w, OlderType DEF YoungInv
    <2> QED
      BY <2>3, <2>5, <1>d DEF YoungInv
  <1>4. CASE UNCHANGED vars
    BY <1>4 DEF vars, YoungInv
  <1> QED
    BY <1>1, <1>2, <1>3, <1>4 DEF Next

LEMMA AvoidStep ==
    ASSUME TypeInv, YoungInv, WarZoneAvoided, [Next]_vars
    PROVE  WarZoneAvoided'
  <1>1. CASE sent' = sent
    BY <1>1 DEF WarZoneAvoided
  <1>2. ASSUME NEW m \in Mints, Check(m), sent' # sent PROVE WarZoneAvoided'
    <2>1. m \in DOMAIN tracked
      BY <1>2, CheckEffect
    <2>2. PICK n \in Nat :
             /\ sent' = Append(sent, [mint |-> m, waited |-> waited[m], inMinute2 |-> n])
             /\ FirstAge(tracked[m]) >= WarZone
      BY <1>2, CheckEffect
    <2>3. waited[m] >= WarZone
      <3>0. tracked[m] \in Data /\ waited[m] \in Nat
        BY <2>1, Entries, AgeBounds DEF EntryOK, TypeInv, TypeOK
      <3>1. FirstAge(tracked[m]) \in Nat /\ FirstAge(tracked[m]) > 0
        <4>1. FirstAge(tracked[m]) \in Nat
          BY <3>0, FirstAgeType, AgeBounds
        <4> QED
          BY <2>2, <4>1, AgeBounds
      <3>2. FirstAge(tracked[m]) <= waited[m]
        BY <2>1, <3>0, <3>1, FirstAgeType DEF YoungInv
      <3> QED
        BY <2>2, <3>0, <3>1, <3>2, AgeBounds
    <2> DEFINE signal == [mint |-> m, waited |-> waited[m], inMinute2 |-> n]
    <2>4. sent \in Seq(Signal) /\ signal \in Signal
      BY DEF TypeInv, TypeOK, Signal
    <2>5. signal.waited >= WarZone
      BY <2>3
    <2> HIDE DEF signal
    <2>6. \A k \in DOMAIN sent' : (k \in DOMAIN sent /\ sent'[k] = sent[k]) \/ sent'[k] = signal
      <3>1. /\ DOMAIN sent' = 1..(Len(sent) + 1) /\ DOMAIN sent = 1..Len(sent)
            /\ Len(sent) \in Nat /\ sent'[Len(sent) + 1] = signal
            /\ \A k \in 1..Len(sent) : sent'[k] = sent[k]
        BY <2>2, <2>4, AppendProperties, LenProperties DEF signal
      <3> QED
        BY <3>1
    <2> QED
      BY <2>5, <2>6 DEF WarZoneAvoided
  <1> QED
    BY <1>1, <1>2, TrackEffect, IngestEffect DEF Next, vars

(* No Buy signal is sent before the war zone is over, counted from the     *)
(* last time the token passed the safety filter.                           *)
THEOREM NoBuyInWarZone == Spec => []WarZoneAvoided
  <1>1. Init => YoungInv /\ WarZoneAvoided
    BY DEF Init, YoungInv, WarZoneAvoided
  <1> QED
    BY <1>1, VelocityTypeInit, VelocityTypeStep, YoungStep, AvoidStep, PTL DEF Spec

-----------------------------------------------------------------------------
(* One Buy per start.  A token that may still buy holds a start back.      *)

SignalsIn(s, m) == Cardinality({k \in DOMAIN s : s[k].mint = m})
MayStillBuy(m)  == IF m \in DOMAIN tracked /\ ~tracked[m].triggered THEN 1 ELSE 0

BuyInv == \A m \in Mints : SignalsIn(sent, m) + MayStillBuy(m) <= starts[m]

(* A signal sent is one more for its mint.                                 *)
LEMMA SignalAppended ==
    ASSUME NEW s \in Seq(Signal), NEW e \in Signal, NEW m
    PROVE  /\ SignalsIn(s, m) \in Nat
           /\ SignalsIn(Append(s, e), m) = SignalsIn(s, m) + (IF e.mint = m THEN 1 ELSE 0)
  <1> DEFINE T == {x \in Signal : x.mint = m}
  <1>1. ASSUME NEW u \in Seq(Signal)
        PROVE  {k \in DOMAIN u : u[k].mint = m} = ElementsAfter(u, 0, T)
    <2>1. \A k \in DOMAIN u : u[k] \in Signal /\ k > 0
      BY LenProperties, ElementOfSeq
    <2> QED
      BY <2>1 DEF ElementsAfter
  <1>2. e \in T <=> e.mint = m
    OBVIOUS
  <1> HIDE DEF T
  <1>3. Append(s, e) \in Seq(Signal) /\ 0 <= Len(s)
    BY AppendProperties, LenProperties
  <1>4. /\ Cardinality(ElementsAfter(s, 0, T)) \in Nat
        /\ Cardinality(ElementsAfter(Append(s, e), 0, T)) =
              Cardinality(ElementsAfter(s, 0, T)) + (IF e \in T THEN 1 ELSE 0)
    BY <1>3, CountAppended
  <1>5. /\ SignalsIn(s, m) = Cardinality(ElementsAfter(s, 0, T))
        /\ SignalsIn(Append(s, e), m) = Cardinality(ElementsAfter(Append(s, e), 0, T))
    BY <1>1, <1>3, Zenon DEF SignalsIn
  <1> QED
    BY <1>2, <1>4, <1>5

LEMMA BuyStep ==
    ASSUME TypeInv, BuyInv, [Next]_vars
    PROVE  BuyInv'
  <1>t. /\ DOMAIN tracked \subseteq Mints /\ sent \in Seq(Signal)
        /\ starts \in [Mints -> 0..MaxTracked] /\ waited \in [Mints -> Age]
        /\ \A m \in DOMAIN tracked : tracked[m].triggered \in BOOLEAN
    BY DEF TypeInv, TypeOK, Data
  <1>n. \A m \in Mints : SignalsIn(sent, m) \in Nat /\ starts[m] \in Nat
    <2> TAKE m \in Mints
    <2>1. \A k \in DOMAIN sent : sent[k] \in Signal
      BY <1>t, LenProperties, ElementOfSeq
    <2>2. [mint |-> m, waited |-> 0, inMinute2 |-> 0] \in Signal
      BY AgeBounds DEF Signal
    <2> QED
      BY <1>t, <2>2, SignalAppended, VelocityAssumption
  <1>1. ASSUME NEW m \in Mints, Track(m) PROVE BuyInv'
    <2>1. /\ DOMAIN tracked' = DOMAIN tracked \cup {m}
          /\ \A x \in DOMAIN tracked : x # m => tracked'[x] = tracked[x]
          /\ starts' = [starts EXCEPT ![m] = starts[m] + 1] /\ sent' = sent
      BY <1>1, TrackEffect
    <2>2. ASSUME NEW x \in Mints, x # m
          PROVE  MayStillBuy(x)' = MayStillBuy(x) /\ starts'[x] = starts[x]
      BY <1>t, <2>1, <2>2 DEF MayStillBuy
    <2>3. MayStillBuy(m)' \in 0..1 /\ MayStillBuy(m) \in 0..1 /\ starts'[m] = starts[m] + 1
      BY <1>t, <2>1 DEF MayStillBuy
    <2> QED
      BY <1>n, <2>1, <2>2, <2>3 DEF BuyInv
  <1>2. ASSUME NEW m \in Mints, Ingest(m) PROVE BuyInv'
    <2>1. /\ DOMAIN tracked' = DOMAIN tracked
          /\ \A x \in DOMAIN tracked : tracked'[x].triggered = tracked[x].triggered
          /\ starts' = starts /\ sent' = sent
      BY <1>2, IngestEffect
    <2> QED
      BY <2>1 DEF BuyInv, MayStillBuy
  <1>3. ASSUME NEW m \in Mints, Check(m) PROVE BuyInv'
    <2>1. m \in DOMAIN tracked
      BY <1>3, CheckEffect
    <2>2. PICK d : /\ EntryOK(d) /\ Goes(m, d)
                   /\ \/ sent' = sent /\ d.triggered = tracked[m].triggered
                      \/ /\ ~tracked[m].triggered /\ d.triggered
                         /\ \E n \in Nat : sent' = Append(sent,
                               [mint |-> m, waited |-> waited[m], inMinute2 |-> n])
      BY <1>3, CheckEffect
    <2>3. /\ DOMAIN tracked' = DOMAIN tracked /\ tracked'[m].triggered = d.triggered
          /\ \A x \in DOMAIN tracked : x # m => tracked'[x] = tracked[x]
          /\ starts' = starts
      BY <2>1, <2>2, GoesEffect, AgedType
    <2>4. \A x \in Mints : x # m => MayStillBuy(x)' = MayStillBuy(x)
      BY <2>3 DEF MayStillBuy
    <2>5. CASE sent' = sent /\ d.triggered = tracked[m].triggered
      <3>1. MayStillBuy(m)' = MayStillBuy(m)
        BY <2>1, <2>3, <2>5 DEF MayStillBuy
      <3> QED
        BY <2>3, <2>4, <2>5, <3>1 DEF BuyInv
    <2>6. CASE ~(sent' = sent /\ d.triggered = tracked[m].triggered)
      <3>1. PICK n \in Nat : sent' = Append(sent,
                [mint |-> m, waited |-> waited[m], inMinute2 |-> n])
        BY <2>2, <2>6
      <3> DEFINE signal == [mint |-> m, waited |-> waited[m], inMinute2 |-> n]
      <3>2. signal \in Signal /\ signal.mint = m
        BY <1>t DEF Signal
      <3> HIDE DEF signal
      <3>3. \A x \in Mints : SignalsIn(sent', x) = SignalsIn(sent, x) + (IF x = m THEN 1 ELSE 0)
        BY <1>t, <3>1, <3>2, SignalAppended DEF signal
      <3>4. MayStillBuy(m) = 1 /\ MayStillBuy(m)' = 0
        BY <2>1, <2>2, <2>3, <2>6 DEF MayStillBuy
      <3> QED
        BY <1>n, <2>3, <2>4, <3>3, <3>4 DEF BuyInv
    <2> QED
      BY <2>5, <2>6
  <1>4. CASE UNCHANGED vars
    BY <1>4 DEF vars, BuyInv, MayStillBuy
  <1> QED
    BY <1>1, <1>2, <1>3, <1>4 DEF Next

(* A token is bought at most once for each time it passed the safety       *)
(* filter: has_triggered is set by the very step that sends.               *)
THEOREM OneBuyEachStart == Spec => []OneBuyPerStart
  <1>1. Init => BuyInv
    <2> SUFFICES ASSUME Init, NEW m \in Mints
                 PROVE  SignalsIn(sent, m) + MayStillBuy(m) <= starts[m]
      BY DEF BuyInv
    <2>1. {k \in DOMAIN sent : sent[k].mint = m} = {} /\ starts[m] = 0 /\ MayStillBuy(m) = 0
      BY DEF Init, MayStillBuy
    <2> QED
      BY <2>1, FS_EmptySet DEF SignalsIn
  <1>2. TypeInv /\ BuyInv => OneBuyPerStart
    <2> SUFFICES ASSUME TypeInv, BuyInv, NEW m \in Mints PROVE SignalsFor(m) <= starts[m]
      BY DEF OneBuyPerStart
    <2>1. SignalsFor(m) = SignalsIn(sent, m)
      BY DEF SignalsFor, SignalsIn
    <2>2. SignalsIn(sent, m) \in Nat /\ starts[m] \in Nat
      <3>1. [mint |-> m, waited |-> 0, inMinute2 |-> 0] \in Signal
        BY AgeBounds DEF Signal
      <3> QED
        BY <3>1, SignalAppended, VelocityAssumption DEF TypeInv, TypeOK
    <2>3. MayStillBuy(m) \in 0..1
      BY DEF MayStillBuy
    <2> QED
      BY <2>1, <2>2, <2>3 DEF BuyInv
  <1> QED
    BY <1>1, <1>2, VelocityTypeInit, VelocityTypeStep, BuyStep, PTL DEF Spec


-----------------------------------------------------------------------------
(* The monitor as the orchestrator sees it: tokens armed, tokens bought.   *)

LEMMA BoughtType ==
    ASSUME sent \in Seq(Signal)
    PROVE  Bought \in Seq(Mints) /\ Len(Bought) = Len(sent)
  <1>1. DOMAIN sent = 1..Len(sent) /\ Len(sent) \in Nat
    BY LenProperties
  <1>2. \A k \in DOMAIN sent : sent[k].mint \in Mints
    <2>1. \A k \in DOMAIN sent : sent[k] \in Signal
      BY <1>1, ElementOfSeq
    <2> QED
      BY <2>1 DEF Signal
  <1>3. Bought \in Seq(Mints) /\ DOMAIN Bought = 1..Len(sent)
    BY <1>1, <1>2, InPlaceType DEF Bought
  <1> QED
    BY <1>1, <1>3, LenProperties

(* One signal more is one token bought more.                               *)
LEMMA BoughtAppended ==
    ASSUME sent \in Seq(Signal), NEW e \in Signal, sent' = Append(sent, e)
    PROVE  Bought' = Append(Bought, e.mint)
  <1>1. /\ DOMAIN sent' = 1..(Len(sent) + 1) /\ DOMAIN sent = 1..Len(sent)
        /\ Len(sent) \in Nat /\ sent'[Len(sent) + 1] = e
        /\ \A k \in 1..Len(sent) : sent'[k] = sent[k]
    BY AppendProperties, LenProperties
  <1>2. Bought \in Seq(Mints) /\ Len(Bought) = Len(sent)
    BY BoughtType
  <1>3. e.mint \in Mints
    BY DEF Signal
  <1> DEFINE after == Append(Bought, e.mint)
  <1>4. /\ after \in Seq(Mints) /\ DOMAIN after = 1..(Len(sent) + 1)
        /\ after[Len(sent) + 1] = e.mint
        /\ \A k \in 1..Len(sent) : after[k] = Bought[k]
    BY <1>2, <1>3, AppendProperties, LenProperties
  <1>5. \A k \in 1..Len(sent) : Bought[k] = sent[k].mint
    BY <1>1 DEF Bought
  <1>6. DOMAIN Bought' = DOMAIN after
    BY <1>1, <1>4 DEF Bought
  <1>7. \A k \in DOMAIN after : Bought'[k] = after[k]
    BY <1>1, <1>4, <1>5 DEF Bought
  <1>8. Bought' = [k \in DOMAIN after |-> after[k]]
    BY <1>6, <1>7 DEF Bought
  <1>9. after = [k \in DOMAIN after |-> after[k]]
    BY <1>4
  <1> QED
    BY <1>8, <1>9

LEMMA PromiseInit == Init => Promise!Init
  <1> SUFFICES ASSUME Init PROVE Promise!Init
    OBVIOUS
  <1>1. DOMAIN tracked = {} /\ DOMAIN sent = {} /\ starts = [m \in Mints |-> 0]
    BY DEF Init
  <1> QED
    BY <1>1 DEF Promise!Init, Armed, Bought

(* A tracking is counted and arms its token; a check buys and disarms it;  *)
(* the ingestion and every other check do neither.                         *)
LEMMA PromiseStep ==
    ASSUME TypeInv, [Next]_vars
    PROVE  [Promise!Next]_<<starts, Armed, Bought>>
  <1>t. DOMAIN tracked \subseteq Mints /\ sent \in Seq(Signal) /\ waited \in [Mints -> Age]
    BY DEF TypeInv, TypeOK
  <1>s. sent' = sent => Bought' = Bought
    BY DEF Bought
  <1>1. ASSUME NEW m \in Mints, Track(m) PROVE Promise!Announce(m)
    <2>1. /\ DOMAIN tracked' = DOMAIN tracked \cup {m}
          /\ tracked'[m] = Untouched
          /\ \A x \in DOMAIN tracked : x # m => tracked'[x] = tracked[x]
          /\ sent' = sent /\ starts' = [starts EXCEPT ![m] = @ + 1]
      BY <1>1, TrackEffect DEF Track
    <2>2. ~tracked'[m].triggered
      BY <2>1 DEF Untouched
    <2>3. Armed' = Armed \cup {m}
      BY <2>1, <2>2 DEF Armed
    <2> QED
      BY <1>s, <2>1, <2>3 DEF Promise!Announce
  <1>2. ASSUME NEW m \in Mints, Ingest(m) PROVE UNCHANGED <<starts, Armed, Bought>>
    <2>1. /\ DOMAIN tracked' = DOMAIN tracked
          /\ \A x \in DOMAIN tracked : tracked'[x].triggered = tracked[x].triggered
          /\ sent' = sent /\ starts' = starts
      BY <1>2, IngestEffect DEF Ingest
    <2> QED
      BY <1>s, <2>1 DEF Armed
  <1>3. ASSUME NEW m \in Mints, Check(m)
        PROVE  Promise!Buy(m) \/ UNCHANGED <<starts, Armed, Bought>>
    <2>1. m \in DOMAIN tracked
      BY <1>3, CheckEffect
    <2>2. PICK d : /\ EntryOK(d) /\ Goes(m, d)
                   /\ \/ sent' = sent /\ d.triggered = tracked[m].triggered
                      \/ /\ ~tracked[m].triggered /\ d.triggered
                         /\ \E n \in Nat : sent' = Append(sent,
                               [mint |-> m, waited |-> waited[m], inMinute2 |-> n])
      BY <1>3, CheckEffect
    <2>3. /\ DOMAIN tracked' = DOMAIN tracked /\ tracked'[m].triggered = d.triggered
          /\ \A x \in DOMAIN tracked : x # m => tracked'[x] = tracked[x]
          /\ starts' = starts
      BY <2>1, <2>2, GoesEffect, AgedType DEF Goes
    <2>4. CASE sent' = sent /\ d.triggered = tracked[m].triggered
      BY <1>s, <2>3, <2>4 DEF Armed
    <2>5. CASE ~(sent' = sent /\ d.triggered = tracked[m].triggered)
      <3>1. PICK n \in Nat : sent' = Append(sent,
                [mint |-> m, waited |-> waited[m], inMinute2 |-> n])
        BY <2>2, <2>5
      <3>2. ~tracked[m].triggered /\ d.triggered
        BY <2>2, <2>5
      <3>3. m \in Armed /\ Armed' = Armed \ {m}
        BY <2>1, <2>3, <3>2 DEF Armed
      <3> DEFINE signal == [mint |-> m, waited |-> waited[m], inMinute2 |-> n]
      <3>4. signal \in Signal /\ signal.mint = m
        BY <1>t DEF Signal
      <3> HIDE DEF signal
      <3>5. Bought' = Append(Bought, m)
        BY <1>t, <3>1, <3>4, BoughtAppended DEF signal
      <3> QED
        BY <2>3, <3>3, <3>5 DEF Promise!Buy
    <2> QED
      BY <2>4, <2>5
  <1>4. CASE UNCHANGED vars
    BY <1>4 DEF vars, Armed, Bought
  <1> QED
    BY <1>1, <1>2, <1>3, <1>4 DEF Next, Promise!Next

(* Between two Buy signals of one token the monitor inserted the token     *)
(* anew, which it does for nothing but a token that passed the filter: no  *)
(* transaction and no check makes it one to buy again.  And to be inserted *)
(* twice before the decision is one buy, not two.                          *)
THEOREM MonitorBuysOnce == Spec => ImplementsBuyOnce
  BY VelocityTypeInit, VelocityTypeStep, PromiseInit, PromiseStep, PTL
     DEF Spec, ImplementsBuyOnce, Promise!Spec
=============================================================================
