------------------------------ MODULE Velocity ------------------------------
(***************************************************************************)
(* The velocity monitor of src/velocity-sniper/src/velocity_monitor.rs:    *)
(* the map of tracked tokens and the three tasks that share it.  One       *)
(* starts tracking the tokens that passed the safety filter, one adds the  *)
(* transactions of the shred stream, and one looks at every token each     *)
(* 5 seconds and decides, once, whether to send a Buy signal.              *)
(*                                                                         *)
(* A step is one entry of the map under its shard's lock.  Tokens share    *)
(* nothing else, so each has a clock of its own that counts the checks of  *)
(* its entry: an age of k means k checks ago, at least 5k seconds and less *)
(* than 5(k+1).  Every threshold of the code is a multiple of 5 seconds,   *)
(* and all but one are met when the age is equal.                          *)
(* The ingestion task takes every transaction for a buy: detect_swap_      *)
(* direction answers a buy or nothing, and nothing defaults to a buy.  So  *)
(* buy_count, unique_wallets and the ratio are all the number of           *)
(* transactions.                                                           *)
(***************************************************************************)
EXTENDS Integers, SequencesExt

CONSTANTS
    Mints,         \* the tokens that pass the safety filter
    Minute,        \* checks in 60 seconds, 12 in the code
    WarZone,       \* checks in the literal 120 of the war zone
    GiveUp,        \* checks in the literal 600 of the cleanup
    MinIncrease,   \* strategy.min_tpm_increase_pct, in percent
    MinMinute2,    \* strategy.min_minute2_transactions
    MinWallets,    \* the literal 5 of the wallet test
    AgeCap,        \* bound: ages saturate here
    MaxTxs,        \* bound: transactions of one token
    MaxTracked     \* bound: times one token passes the safety filter

ASSUME VelocityAssumption ==
    /\ Minute \in Nat \ {0}
    /\ WarZone \in Nat /\ Minute < WarZone
    /\ GiveUp \in Nat /\ WarZone < GiveUp
    /\ AgeCap \in Nat /\ GiveUp < AgeCap
    /\ MinIncrease \in Nat /\ MinMinute2 \in Nat /\ MinWallets \in Nat
    /\ MaxTxs \in Nat /\ MaxTracked \in Nat

VARIABLES
    tracked,   \* the map: mint -> its VelocityData
    starts,    \* how often a mint was inserted; no variable of the code
    waited,    \* checks of the mint since it was last inserted; none either
    sent       \* the Buy signals sent, with what a reader of them may ask

vars == <<tracked, starts, waited, sent>>

Age == 0..AgeCap

(* VelocityData: the ages of the transactions, oldest first, and the two   *)
(* rates, zero until recorded.  fromFirst is no field of the code: the     *)
(* checks between the first transaction and each of the others.            *)
Data   == [txs : Seq(Age), fromFirst : Seq(Age), minute1 : Nat, minute2 : Nat,
           triggered : BOOLEAN]
Signal == [mint : Mints, waited : Age, inMinute2 : Nat]

Untouched == [txs |-> <<>>, fromFirst |-> <<>>, minute1 |-> 0, minute2 |-> 0,
              triggered |-> FALSE]

Init ==
    /\ tracked = << >>
    /\ starts = [m \in Mints |-> 0]
    /\ waited = [m \in Mints |-> 0]
    /\ sent = <<>>

-----------------------------------------------------------------------------
(* The task that receives the safe tokens.                                 *)

(* A mutant: a token tracked already keeps its transactions.               *)
FreshKeeping(m) ==
    IF m \in DOMAIN tracked THEN [tracked[m] EXCEPT !.minute1 = 0, !.minute2 = 0,
                                      !.triggered = FALSE]
    ELSE Untouched

(* insert replaces what an earlier pool event of the mint left.            *)
Fresh(m) == Untouched

Track(m) ==
    /\ starts[m] < MaxTracked
    /\ tracked' = [x \in DOMAIN tracked \cup {m} |->
                      IF x = m THEN Fresh(m) ELSE tracked[x]]
    /\ starts' = [starts EXCEPT ![m] = @ + 1]
    /\ waited' = [waited EXCEPT ![m] = 0]
    /\ UNCHANGED sent

-----------------------------------------------------------------------------
(* The ingestion task.  A transaction of a mint that is not tracked is     *)
(* dropped.                                                                *)

FirstAge(d) == IF d.txs = <<>> THEN 0 ELSE d.txs[1]

(* Two mutants: the newest transaction comes first; a transaction makes    *)
(* the token one to decide on again.                                       *)
IngestFirst(m) ==
    /\ m \in DOMAIN tracked
    /\ Len(tracked[m].txs) < MaxTxs
    /\ tracked' = [tracked EXCEPT
                      ![m].txs = <<0>> \o @,
                      ![m].fromFirst = Append(@, FirstAge(tracked[m]))]
    /\ UNCHANGED <<starts, waited, sent>>

IngestRearming(m) ==
    /\ m \in DOMAIN tracked
    /\ Len(tracked[m].txs) < MaxTxs
    /\ tracked' = [tracked EXCEPT
                      ![m].txs = Append(@, 0),
                      ![m].fromFirst = Append(@, FirstAge(tracked[m])),
                      ![m].triggered = FALSE]
    /\ UNCHANGED <<starts, waited, sent>>

Ingest(m) ==
    /\ m \in DOMAIN tracked
    /\ Len(tracked[m].txs) < MaxTxs
    /\ tracked' = [tracked EXCEPT
                      ![m].txs = Append(@, 0),
                      ![m].fromFirst = Append(@, FirstAge(tracked[m]))]
    /\ UNCHANGED <<starts, waited, sent>>

-----------------------------------------------------------------------------
(* The tracker task.                                                       *)

(* Transactions whose age lies in from..to-1.                              *)
Between(ages, from, to) ==
    Cardinality({k \in DOMAIN ages : from <= ages[k] /\ ages[k] < to})

(* calculate_tpm, with its window of 60 seconds.                           *)
CalculateTpm(d) == Between(d.txs, 0, Minute)

(* The rise, min_tpm_increase_pct of minute 1 at least; from no            *)
(* transaction to some it is 100%, to none -100%.                          *)
Rises(m1, m2) ==
    IF m1 > 0 THEN (m2 - m1) * 100 >= MinIncrease * m1
    ELSE m2 > 0 /\ 100 >= MinIncrease

(* should_trigger_buy: the buys are 1.5 times the sells or, with no sell,  *)
(* at least two.                                                           *)
ShouldTriggerBuy(d, m2) ==
    /\ Rises(d.minute1, m2)
    /\ Between(d.txs, Minute, 2 * Minute) >= MinMinute2
    /\ Len(d.txs) >= 2
    /\ Len(d.txs) >= MinWallets

(* A mutant: what was found out about the token is not written back.       *)
DecidedNothing(d, m2, buys) == d

Decided(d, m2, buys) == [d EXCEPT !.minute2 = m2, !.triggered = buys]

Waits(d) == FirstAge(d) < WarZone

(* Minute 1 is recorded by the first check of the second minute that sees  *)
(* a transaction in its window.                                            *)
DuringWarZone(d) ==
    IF FirstAge(d) >= Minute /\ d.minute1 = 0
    THEN [d EXCEPT !.minute1 = CalculateTpm(d)]
    ELSE d

Older(age) == IF age < AgeCap THEN age + 1 ELSE age
Aged(d)    == [d EXCEPT !.txs = [k \in DOMAIN @ |-> Older(@[k])]]

Goes(m, d) ==
    /\ tracked' = [tracked EXCEPT ![m] = Aged(d)]
    /\ waited' = [waited EXCEPT ![m] = Older(@)]
    /\ UNCHANGED starts

(* The token has triggered or has its minute 2: nothing to do.             *)
Settled(d) == d.triggered \/ (~Waits(d) /\ d.minute2 # 0)

(* The cleanup asks for more than 600 whole seconds, so an age of GiveUp   *)
(* checks may be given up, and every later one is.                         *)
MayBeGivenUp(d) == FirstAge(d) >= GiveUp
IsGivenUp(d)    == FirstAge(d) > GiveUp

CheckSettled(m) ==
    /\ m \in DOMAIN tracked
    /\ Settled(tracked[m]) \/ MayBeGivenUp(tracked[m])
    /\ Goes(m, tracked[m])
    /\ UNCHANGED sent

CheckWaiting(m) ==
    /\ m \in DOMAIN tracked
    /\ ~Settled(tracked[m]) /\ ~IsGivenUp(tracked[m])
    /\ Waits(tracked[m])
    /\ Goes(m, DuringWarZone(tracked[m]))
    /\ UNCHANGED sent

(* Transactions that may lie in the second minute after the first one: two *)
(* transactions c checks apart are between 5(c-1) and 5(c+1) seconds apart.*)
MayBeInMinute2(d) == Between(d.fromFirst, Minute, 2 * Minute + 1)

(* The decision.  A rate of zero is taken for one not recorded yet, so a   *)
(* token with no transaction in the window is looked at again.             *)
Decide(m) ==
    /\ m \in DOMAIN tracked
    /\ ~Settled(tracked[m]) /\ ~IsGivenUp(tracked[m])
    /\ ~Waits(tracked[m])
    /\ LET d    == tracked[m]
           m2   == CalculateTpm(d)
           buys == ShouldTriggerBuy(d, m2)
       IN  /\ Goes(m, Decided(d, m2, buys))
           /\ sent' = IF buys
                      THEN Append(sent, [mint |-> m, waited |-> waited[m],
                               inMinute2 |-> MayBeInMinute2(d)])
                      ELSE sent

Check(m) == CheckSettled(m) \/ CheckWaiting(m) \/ Decide(m)

Next == \E m \in Mints : Track(m) \/ Ingest(m) \/ Check(m)

Spec == Init /\ [][Next]_vars

-----------------------------------------------------------------------------
(* Correctness.                                                            *)

(* Every variable has its type, and the transactions stay oldest first.    *)
TypeOK ==
    /\ DOMAIN tracked \subseteq Mints
    /\ \A m \in DOMAIN tracked :
          /\ tracked[m] \in Data
          /\ \A j, k \in DOMAIN tracked[m].txs :
                j < k => tracked[m].txs[j] >= tracked[m].txs[k]
    /\ starts \in [Mints -> 0..MaxTracked]
    /\ waited \in [Mints -> Age]
    /\ sent \in Seq(Signal)

SignalsFor(m) == Cardinality({k \in DOMAIN sent : sent[k].mint = m})

(* A token is bought at most once for each time it passed the safety       *)
(* filter, however often it is looked at.  (Not once in all: a second pool *)
(* event of the mint, as a duplicate shred makes one, starts it anew.)     *)
OneBuyPerStart == \A m \in Mints : SignalsFor(m) <= starts[m]

(* No Buy signal before the war zone is over, counted from the moment the  *)
(* token was last tracked, while the code counts from the first            *)
(* transaction it kept.                                                    *)
WarZoneAvoided == \A k \in DOMAIN sent : sent[k].waited >= WarZone

(* "Minimum 30 transactions in minute 2": a Buy is sent only for a token   *)
(* with that many in the second minute after its first transaction.        *)
BuyNeedsMinute2 == \A k \in DOMAIN sent : sent[k].inMinute2 >= MinMinute2

(* The tokens that may still be bought, and the tokens bought, in order.   *)
Armed  == {m \in DOMAIN tracked : ~tracked[m].triggered}
Bought == [k \in DOMAIN sent |-> sent[k].mint]

Promise == INSTANCE BuyOnce
    WITH Token <- Mints, announced <- starts, armed <- Armed, bought <- Bought

(* The monitor keeps its promise.  An announcement is an insertion into    *)
(* the map, of a token that passed the filter, and each is counted: so     *)
(* triggered is set in the step that sends the Buy signal, no transaction  *)
(* and no check takes it back, and a token inserted while it is armed is   *)
(* no second buy.                                                          *)
ImplementsBuyOnce == Promise!Spec
=============================================================================
