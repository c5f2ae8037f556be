# Velocity Sniper in TLA+

TLA+ modules, TLC configurations and TLAPS proofs for the trading bot in
`src/velocity-sniper` (Rust, tokio). Paths below are relative to
`src/velocity-sniper/src`. `PROJECT.json` maps every definition to the lines it
models and lists the runs, mutants, findings, hazards and theorems.

## 1. The system

```
UDP shreds -> shred_listener --raw_tx (mpsc, 50000)--> raydium_detector
                 |   |                                      | pool_event (broadcast, 10000)
                 |   | SECURITY_CACHE                       +------------------------+
                 |   +------------------------> safety_filter                        |
                 |                                  | safe_token (broadcast, 1000)   |
                 +--tx_for_velocity (mpsc, 50000)-> velocity_monitor                 |
                                                    | Buy                            v
                                                    |              strategy pool task -> gold list
                                                    v                                |
                          trade signals (broadcast, 1000) <--Buy-- watch_monitor <---+
                                                    v
                                 strategy main loop + 2 exit loops
                                                    |  bundle_executor
                                                    v
                                            Jito / Solana RPC
```

Everything is one process of tokio tasks. They talk through bounded channels and
through state behind `RwLock`s that are released at most awaits, so almost every
interesting behaviour is a decision made from a copy that is old when it is used.

| Component | State | Operations | Hard behaviour | What makes it correct |
|---|---|---|---|---|
| strategy (`strategy.rs`) | active positions, completed trades, counters, `last_trade_time` | main loop (Buy, Sell), two 100 ms exit loops, pool task | three tasks close positions from their own copies; limits tested seconds before the push | limit, cooldown, each trade booked once, every position closed |
| bundle executor (`bundle_executor.rs`) | `pending_sells`, cached blockhash | execute_buy, confirm_buy_and_remove, execute_sell_fast | a bundle may land late or never; the confirmation is a JSON reply | a position only for a confirmed buy; its pending sell stays |
| gold list (`gold_list.rs`) | queue, index by mint, counters | add, remove, prune_stale, scores | index kept by hand across removals | queue and index agree; nobody stays for ever |
| watch monitor (`watch_monitor.rs`) | pressures by mint | start, check_and_trigger, update/add/remove | `start` is called through a write guard it never gives back | only fit candidates are bought |
| velocity monitor (`velocity_monitor.rs`) | map mint -> transactions, two rates, triggered | track, ingest, 5 s check | entries replaced while tracked; 0.0 as "not recorded"; a panic nobody waits for | one Buy per tracking, after the war zone, on minute 2 |
| safety filter (`safety_filter.rs`) | none (one task per event) | validate_token: 4 RPC calls in a row | token changes between the calls; a cache that need not be true; failing calls | what is announced really cannot be minted, is not concentrated, has its LP burned |
| shred listener (`shred_listener.rs`) | SECURITY_CACHE, the batch being sent | parse shreds, sniff_security, two sends in turn | duplicates, loss; a full queue holds up the other; a panic | each transaction reaches both consumers, in order |
| raydium detector (`raydium_detector.rs`) | none | parse, broadcast | readers that lag, or subscribe late | every pool event is judged, or its loss is told |
| trade monitor (`trade_monitor.rs`) | one position, trailing stop | start_monitoring, check_position, open, close | copies used after a sell; a clock set back; f64 at a threshold | sold once and in full; stop never falls |
| shared types (`types.rs`) | ImprovementEngine | weights, ZeroCopyWalker | f64 | – |
| pre-check, rug detector, swap calculator, fast executor, precomputed data, trade logger | | | no caller at runtime (pre-check: one call, with literals) | – |
| main (`main.rs`) | the channels | spawn the stages, wait for the first to end | a receiver subscribes only when its stage is spawned | no stage waits for another for ever |
| configuration | | read once | | – |

Seven facts of the code, read off its call sites, decide much of the model:

- `start_monitoring` and `WatchMonitor::start` loop for ever and are called
  through `write().await`, so the guard of `trade_monitor` and of
  `watch_monitor` is never free again once the tasks run.
- There is no price feed: an exit loop takes the price to be 105, 110 or 115 % of
  the entry, by the time held. With the shipped `config.toml` (take profit 50 %)
  a position is closed only by `max_hold_seconds`, by an age that wrapped, or by a
  Sell signal. The stops of the exit loops never fire, whatever README.md:234 of the
  repository ("Monitors take-profit (15%) and stop-loss (5%) levels") and the
  comments at the trailing stop say: each of the three prices lies above the stop
  computed from it, and none is below the 2 % of the stall rule.
- No code sends `TradeSignal::Sell`, gives `TradeMonitor` a position, or calls
  `update_candidate_metrics`.
- `main` keeps a sender and a receiver of every broadcast in `state`, so no
  broadcast ever closes; a stage ends with the program, or by a panic.
- As the source stands, the listener panics at the first transaction it extracts:
  the Token-2022 program id that `sniff_security` parses and unwraps
  (`shred_listener.rs:250`) has 42 base58 characters, which are 31 bytes. A release
  build aborts (`Cargo.toml:68`); in a dev build the task ends, and `main` with it.
- `extract_mint_from_tx` and `detect_swap_direction` look up the program of an
  instruction without asking whether there is such a key
  (`velocity_monitor.rs:388`, `:451`). In a dev build that panic ends the ingestion
  task alone: nothing awaits its handle, and the listener ignores the closed queue.
- The velocity monitor counts the transactions `extract_mint_from_tx` reads a mint
  from, which are initialize instructions only ("not swaps",
  `velocity_monitor.rs:403`), though README.md:206 of the repository says it
  "tracks every transaction for a monitored token" and `main.rs:34` "ALL transactions
  for TPM tracking". And it reads the mint at accounts 8 and 9 where the detector
  reads it at 3.

## 2. The modules

| Module | Models | Theorems in |
|---|---|---|
| `ExitRules` | the pure exit rules of `strategy.rs` | |
| `Strategy` | main loop, both exit loops, pending sells, confirmation | `StrategyProofs` |
| `PositionBook` | the abstract promise: opened once, under a limit, closed once | `StrategyProofs` |
| `WatchList` | gold list, pool task, watch monitor | `WatchListProofs` |
| `CandidateSet` | the abstract promise of the gold list: a set with a limit that counts | `WatchListProofs` |
| `Velocity` | the three tasks of the velocity monitor | `VelocityProofs` |
| `BuyOnce` | the abstract promise of the velocity monitor: armed by a counted announcement and nothing else, disarmed by its Buy | `VelocityProofs` |
| `Safety` | validation tasks, cache, the chain they ask | `SafetyProofs` |
| `Pipeline` | the stages before the strategy with their queues, as main composes them | `PipelineProofs` |
| `TransactionFeed` | the abstract promise of the two transaction queues | `PipelineProofs` |
| `TradeMonitor` | the position of the trade monitor, its check and its sales | `TradeMonitorProofs` |
| `SwapMath` | the swap calculator: its quotes in both directions | `SwapProofs` |
| `SequenceLemmas` | facts about `Vec::remove`, changes in place, how many elements of a kind there are, and the least element of a set of naturals | itself |
| `MC*` | instances for TLC (symmetry sets) | |

### Strategy

A step ends where the code awaits; what happens under one guard is one step.

- `main` is the main loop's program point: `recv`, `buying` (execute_buy),
  `confirming` (confirm_buy_and_remove), `entering` (between the confirmation and
  the state lock), `selling` (execute_sell_fast of the Sell handler).
- `exit[l]` is an exit loop: its point, its clone of the pending sells and the
  `held_seconds` it computed before the sell. `gated` first reads
  `trade_monitor`, `monitor` does not.
- `active`, `completed`, the counters and `pendingSells` are the `Vec`s of the
  code. `bundle` stands for `entry_tx_signature`.
- A timestamp is the real time since it was taken (`age`) and how far the system
  clock had been set back by then (`clock`); `back` is how far it is now. What the
  code computes, `num_seconds` of the difference, is `Seconds`: the age less what the
  clock was set back since, which may be negative. `Held` casts it to u64, as
  `strategy.rs:135` and `:293` do: a position from "the future" is older than every
  threshold. `SetBack` is a step of the environment. The cooldown is compared as a
  signed number, so there a set-back only makes it longer.
- The `age` and `back` of a completed trade are history variables.
- `signals`/`lagged` are the broadcast receiver with its overwriting.
- `Confirm(reply)` removes a pending sell of the mint whatever the reply and
  accepts a null result, as `bundle_executor.rs:345` does.
- A sell's result is dropped by the code (`let _ =`), so `Record` follows
  `StartSell` whatever the sell did, and a pending sell is never removed.

### WatchList

`monitor` is `new`, `asleep` or `pruning`. The list's write lock is the monitor's from
`BeginCheck` to `Trigger`/`NothingToBuy`; `PruneOne` is one removal of `prune_stale`, in
the order of the queue, until `doomed` is empty. `GuardFree` (only before `Start`) is
the guard of the whole `WatchMonitor`: it lets `AddCandidate`, `RemoveCandidate` and
`UpdateCandidateMetrics` through. They are public operations that nothing calls at
present; the pool task locks the list directly. `update_candidate_metrics` takes the
list's lock and then that of the pressures; it is one step here, because only the pool
task can come between, which adds a candidate and touches neither the candidate updated
nor a pressure. No price ever reaches a candidate, so the price terms of the score are
constant.

The code reads the clock for each candidate, so a second may turn in the middle of a
check: `Tick` is enabled during a check too, once, because a check awaits nothing
between its first lock and its choice. The clock is not set back in this module: a
candidate from the future has an age that wraps, counts as stale, and goes.

`ImplementsSet` maps the mints in the queue to the `members` of `CandidateSet` and the
two counters to its counters: `AddMint` on a full list, or of a mint that is there, is no
`Add`, and the removal of a missing mint no `Remove`.

### Velocity

Ages count the 5-second checks of an entry; every threshold of the code is a multiple of
5 seconds, so an age in checks answers each comparison exactly as the seconds do, but
for the one that asks for *more* than 600: a token of `GiveUp` checks may have 600
seconds or some more, so it may be given up (`MayBeGivenUp`), and one check later it is
(`IsGivenUp`). `Track` replaces an entry (`insert`), `Ingest` pushes a transaction, and
the check is `CheckSettled`, `CheckWaiting` or `Decide`. Tokens share nothing but the
map, one shard-locked entry at a time, so each has its own clock. `starts`, `waited`,
`sent` and `fromFirst` are history variables. `buy_count`, `unique_wallets` and the
number of transactions are one number in the code (every transaction is taken for a
buy), and one in the model.

`ImplementsBuyOnce` maps `starts` to `announced`, the tracked tokens that have not
triggered to `armed`, and the mints of the signals to `bought`. `Track` is `Announce`,
the only step that counts and the only one that arms; a `Decide` that buys is `Buy`;
everything else stutters, so no check and no transaction may reset `triggered`. It says
more than `OneBuyPerStart`: a token tracked twice before it is decided is bought once,
not twice. What the strategy needs for its exits, that no mint is signalled twice
(`~RepeatSignals`), follows of this path if each token passes the filter once; the watch
monitor, which triggers a candidate again and again, promises no such thing.

### Safety

The chain (`authority`, `supply`, `top`, `lpLeft`) may change between any two
calls of a validation; an authority given up never returns, and only an authority
mints; the supply may go down to 0. Each call may fail. `Sniff` puts any entry into the
cache, over what was there: `sniff_security` takes whatever looks like an
`InitializeMint` and asks neither for a signature nor whether it succeeded. (It is
enabled by `ProgramIdsParse`; as the source stands it panics before, section 1.)
`fetched` on a task tells the answer of the RPC from the cached entry that stands in
for it, `total` is the second answer; `seenSupply` and `seenLp` are history. The
freeze flag is the account's byte 45, whose meaning is external: a free Boolean. The
check of the ten first holders and of their number is a free Boolean (`others`).

### Pipeline

A transaction is what the two parsers make of it: `base`, the mint the detector reads,
and `coin`, the one the velocity monitor reads; either may be missing, and in a swap
both are. `indexed` says that the program of each instruction is one of its keys. The
constant `Tx` is the set of those that may arrive. `listener` holds the batch of one
shred and sends each transaction to `rawQueue`, then to `velQueue`; a send waits while
the queue is full, and only `Scan` and `Ingest` make room. A broadcast receiver is its
unread messages and `lag`, those overwritten that it has not been told of; `lagged`,
`received` and `missed` (sent before it subscribed) are history, like `fed`, `scanned`,
`ingested`, `judged` and `announced`. `Spawn` counts the stages main has spawned. A
validation under way is a count per mint, its verdict is free: Safety models it.
`tracked` keeps how many transactions a token has.

Two tasks can panic. `idsParse`, chosen at the start and never changed, says whether
the program ids in `sniff_security` parse: if not (as in the source), `SniffPanics`
takes the place of `RecvShred` and nothing is ever fed; if they do, one sees what the
stages do. `IngestPanics` ends the ingestion task at a transaction that is not
`indexed`; what waits in its queue goes with it, and the listener's sends there fail at once
(`SendClosed`). Either panic may end the program (`Panic`: `up'` is free), as it does in a
release build.

`ImplementsFeed` maps `fed`, `scanned` and `ingested` to themselves: whatever the queues
do and whatever panics, each consumer reads the transactions of the shreds one by one,
in order.

### TradeMonitor

`monitor` is `new`, `asleep`, `freeTrade` (awaiting the sale of 40 %) or `selling`
(awaiting the sale of the rest), with the `held_seconds` and the amount the check copied.
`CheckKeeps`, `CheckSells` and `CheckFreeTrade` are the three ways a check goes until it
awaits; `FreeTradeSold` goes on in the same check. Prices and gains are percents of
the entry price, token amounts tenths of a token. `short` is the set of prices at
which f64 finds a gain just below the whole percent: which ones depends on the
entry price alone, so it is chosen when the position is opened. The history variables are `sold`,
`bought` and `prompt` (no check came more than a second late, the clock was not
set back). `Held` is `num_seconds() as u64`, with `Modulus` for 2^64.
`start_monitoring` never gives `&mut self` back, so positions are opened before it
or not at all; the program opens none, and the model lets a caller do it.

### SwapMath

Operators only, with u64 as 0..2^64 - 1, which is out of TLC's reach. `calculate_swap` and
`calculate_sell` are one function with the reserves exchanged: `Quote`. A `fee_bps` is a u16
and may say more than 100 %: the fee is then cast to u64, which may wrap, and what is
left of the input saturates at 0. `Panics` is the division by zero.

### PositionBook and the refinement

`ImplementsBook` maps the active bundles to `open` and the completed bundles to
`closed`. `Enter` is `Open`; `Record` or `ReceiveSell` with a position is `Close`;
every other step stutters.

## 3. The runs

| Run | Checks | Shows |
|---|---|---|
| `strategy_safety` | TypeOK, PositionLimit, EachTradeOnce, WinsAgree, ProfitsAgree, ImplementsBook | with repeated Buys and with Sells, all interleavings of the three tasks keep limit and books |
| `strategy_exits` | EveryPositionHasAnExit, SoldForAgeIsOld, CooldownBetweenTrades, EveryPositionCloses | with a clock that is set back: if no mint is bought twice, each position has its pending sell, is closed old enough or because its age wrapped, and is closed eventually, though the gated loop may be stuck for ever; two trades never come within the cooldown |
| `strategy_nullreply` | OnlyConfirmedEntered (violated) | finding 1 |
| `strategy_rebuy` | EveryPositionCloses (violated) | finding 2 |
| `strategy_stalesell` | SoldForAgeIsOld (violated) | finding 3 |
| `watchlist` | TypeOK, IndexConsistent, BoughtIsNotStale, EveryCandidateLeaves, ImplementsSet, OnlyStaleLeave | the list and its index agree and are a set with a limit; what should be pruned is not bought (but for a second that turns in between), a prune takes stale ones only, every candidate leaves |
| `velocity` | TypeOK, OneBuyPerStart, WarZoneAvoided, ImplementsBuyOnce | one Buy per tracking, never two without a counted tracking in between, and none in the war zone, re-tracking included |
| `velocity_minute2` | BuyNeedsMinute2 (violated) | finding 4 |
| `safety` | TypeOK, SafeCannotBeMinted, SafeIsNotConcentrated | two validations of a token that changes between their calls, whatever was cached of it: one judged by its mint account cannot be minted, and was not concentrated unless its supply was answered as zero |
| `safety_lp` | SafeLpIsBurned (violated) | finding 5 |
| `pipeline` | TypeOK, EventsAccounted, OnlySafeTracked, EveryTransactionRead, EveryPoolJudged, EverySafeTracked, ImplementsFeed | with every queue full, readers that lag and readers that come late: no transaction is lost or out of order and no stage waits for ever; a pool event that is not judged, a safe token that is not tracked, was lost with an error or before its reader subscribed; only safe tokens are tracked. After a panic of the ingestion task all this goes on for the detector and the tracking |
| `trade_monitor` | TypeOK, NeverOversold, OversoldByOneFreeTrade, SoldUpToOne, FreeTradeFirst, StopNeverFalls, EveryPositionEnds | a position is sold in full and given up; not more than it was if the checks come in time and the clock is not set back; its stop never falls and it is sold by no more than one free trade too much even then |

Bounds, and why they are enough:

- *Times.* Ages saturate one or two steps above the largest threshold (in `strategy_*`:
  at it, plus `MaxBack`); beyond that no test tells two ages apart. Thresholds keep the
  order they have in the code and are 1 to 9 instead of 10 to 600.
- *Strategy.* Two mints (one slot and one mint are enough for the violations),
  two accepted bundles, a channel of one or two so that it overflows. A
  re-buy of a mint during a scan and bookings by each loop and by the Sell
  handler occur in `strategy_safety`, two positions of one mint at once in
  `strategy_rebuy`. `strategy_safety` has take profit 12 % and sells
  at 15 %, so wins and losses both occur, and one position slot, so the limit
  binds; the theorems hold for every limit. `strategy_exits` has two
  slots and two mints, so a snapshot holds two entries, and a clock that is set back by
  up to `MaxBack` = 1 second, which is enough for a position entered before to have an age of
  -1; `Modulus` = 100 stands for 2^64, above every age. The other strategy runs
  leave the clock alone: their properties are not about time, and the theorems about
  them hold for every `MaxBack`.
- *WatchList.* Three mints for two slots (a full list refuses one that is not in it, a
  removal moves another entry), three additions (one mint comes back, or the third comes
  in after a prune), ages up to 4 for a stale age of 2, so that a candidate may be over
  it by the second that turns in a check and by more, two rates: too low to be bought
  but not stale, and high. One pressure, above its thresholds, next to the 0 that every
  candidate starts with: it weighs in the choice of the best candidate, which none of
  the properties is about.
- *Velocity.* One token (tokens are independent), tracked twice, five transactions
  (three to be bought with, and more after the Buy), minute 3, war zone 6 and give-up 8
  checks.
- *Safety.* Two events of one token, supply from 0 to 2, at most half for a holder, so
  that all, half and nothing of a supply are told apart; both tests on; `ProgramIdsParse`
  TRUE, so that the cache is used at all.
- *Pipeline.* Capacities of one, so that two messages fill, block or overflow each of
  the four channels; two tokens; three transactions, in shreds of one or two, each of
  one of three kinds: both parsers read the same token, each reads another one, or the
  detector reads none and the ingestion task panics. Two transactions are enough for a
  lag, a listener held up by either queue, a token tracked twice and counted in between,
  and two verdicts out of order; that one is lost between two others takes three.
- *TradeMonitor.* Thresholds in the order of the code, 1 to 7 instead of 10 to
  300, three checks apart between the free trade and the maximum hold; amounts of
  1 and 8 tokens (a free trade of 0 and of 3); one step of the clock back, by up to three.

`CHECK_DEADLOCK` is off where the system really stops: in `pipeline` when main
returns, in `trade_monitor` when the one position is gone. Elsewhere the clock or the
chain always has a step.

Symmetry is used where no definition tells the values apart (`Mints` in
`strategy_safety`, `Events` in `safety`), and only in runs without liveness.

### Fairness

- `Strategy`: weak fairness of the clock, of the main loop, of
  `start_monitoring`, of the gate and of each exit loop. tokio keeps polling every
  ready task, and the HTTP calls carry timeouts, so no await lasts for ever.
  Nothing is assumed of signals, of replies, of corrections of the clock, or of which way
  a call ends.
- `WatchList`: weak fairness of `Start` and of the check, strong fairness of the
  clock. Checks disable the clock for a moment (a check awaits nothing from its
  first lock to its choice, so at most one second turns in it), but each ends in a sleep of
  100 ms; endless checks take endless time. That is strong fairness of `Tick`.
  Nothing is assumed of the pool events or of callers.
- `Pipeline`: weak fairness of each stage, of the validations (their calls have
  timeouts of 5 s) and of main's spawning. A send that waits on a full queue is not
  enabled, so fairness of the listener alone would not make room: that is the
  readers' part. Nothing is assumed of the shreds, of the verdicts, of whether the
  socket can be bound, or of the end of the program; the liveness properties all allow
  for `~up`. Of the ingestion task it is assumed that it reads, or panics.
- `TradeMonitor`: weak fairness of the task, of the check after each sleep, of the end of a
  sell, and of the clock. Not of callers, nor of the clock being set back.
- `Velocity` and `Safety` have no liveness property and no fairness.

## 4. What is proved

tlapm checks every step; nothing is assumed but the `ASSUME`s on the constants,
which TLC evaluates in the runs, and, where stated, `TestsOn` or `~RepeatSignals`.
The theorems hold for every set of mints and every capacity and bound, and for
any thresholds in the order the `ASSUME`s state.

| Theorem | States |
|---|---|
| `TypeCorrect`, `LimitHolds`, `CooldownHolds` (StrategyProofs) | `[]TypeOK`, `[]PositionLimit`, `CooldownBetweenTrades` |
| `TradesBookedOnce`, `StrategyImplementsBook` (StrategyProofs) | `[]EachTradeOnce`; the refinement of `PositionBook` |
| `WinsCounted`, `ProfitsSummed` (StrategyProofs) | `[]WinsAgree`, `[]ProfitsAgree` |
| `ExitForEveryPosition`, `OnlyOldSoldForAge` (StrategyProofs) | if no mint is signalled twice: `[]EveryPositionHasAnExit`, `[]SoldForAgeIsOld` |
| `WatchListTypeCorrect`, `IndexAgrees`, `CountersAddUp` (WatchListProofs) | `[]TypeOK`, `[]IndexConsistent`, `[]CountersMatch` |
| `StaleNeverBought` (WatchListProofs) | `[]BoughtIsNotStale` |
| `ListImplementsSet`, `FitStay` (WatchListProofs) | the refinement of `CandidateSet`; `OnlyStaleLeave` |
| `VelocityTypeCorrect`, `NoBuyInWarZone`, `OneBuyEachStart` (VelocityProofs) | `[]TypeOK`, `[]WarZoneAvoided`, `[]OneBuyPerStart` |
| `MonitorBuysOnce` (VelocityProofs) | the refinement of `BuyOnce` |
| `SafetyTypeCorrect`, `SafeStaysUnminted`, `SafeWasSpread` (SafetyProofs) | `[]TypeOK`; with `TestsOn`: `[]SafeCannotBeMinted`, `[]SafeIsNotConcentrated` |
| `PipelineTypeCorrect`, `PipelineImplementsFeed` (PipelineProofs) | `[]TypeOK`; the refinement of `TransactionFeed` |
| `EventsAreAccounted`, `OnlySafeAreTracked` (PipelineProofs) | `[]EventsAccounted`, `[]OnlySafeTracked` |
| `MonitorTypeCorrect`, `StopOnlyRises` (TradeMonitorProofs) | `[]TypeOK`, `StopNeverFalls` |
| `PromptNeverOversells`, `OversaleBounded` (TradeMonitorProofs) | `[]NeverOversold`, `[]OversoldByOneFreeTrade` |
| `ClosedIsSold`, `SoldAfterFreeTrade` (TradeMonitorProofs) | `[]SoldUpToOne`, `[]FreeTradeFirst` |
| `QuoteFits`, `QuoteIsExact`, `MoreInNeverLess` (SwapProofs) | for all u64 reserves and inputs: no amount overflows, at any u16 as a fee; at a fee of at most 100 % casts and saturation change nothing, fee and output are exact but for the rounding, and more in is never less out |

The arguments:

- *Types* are not inductive alone. `MainOK` says which program points carry a
  mint and a bundle, `LoopOK` that a loop under way has an entry to look at;
  `TypeInv` is the three together.
- *Limit.* `PositionLimit` is tested when the signal arrives and the position is
  pushed three steps later. `RoomInv` adds that from the test to the push there
  is room for one more: the main loop is the only one that pushes, the others only
  take away.
- *Cooldown.* `CooledInv`: from the test to the confirmation the age of `lastTrade` is at
  least the cooldown, since only `Confirm` resets it and a set-back can only make the
  code's number of seconds smaller than the age, never larger.
- *Books.* `TradeInv`: no two active trades have the same bundle, none of them a
  completed one's, all are at most the last one accepted, and the one being confirmed or entered
  is not among them. Booking under one guard is then `Close`, whichever task does
  it and however old its copy; a task that finds no position books nothing.
- *Wins.* The loops count a win for a take profit only, the Sell handler for a profit,
  and the list of completed trades has the profits. `DecidedInv`: a loop that is about
  to book has an age for which the rules found a reason; `LoopReason` goes through the
  three simulated prices, each of which lies above its stop and none below the stall
  rule's 2 %. `OnlyTakeProfitGains` says that the two counts agree: no stop a simulated
  price can hit lies above the entry. A price feed would change that: `TrailingStop`
  reaches 110 and 130, and such a stop would book a gain that is no win. A completed
  trade is appended and never changed, so `CountAppended` counts it.
- *Profits.* `Profit(trades)` is the last value of a function `earned` defined by
  recursion on the length, and TLAPS does not know that such a function exists. So
  `SumExists` proves that there is one for every list of trades and `SumUnique` that
  there is only one, both through `LeastElement`: a length for which it fails would have
  a least one. That is induction over the data, done with the least element instead of
  an induction theorem that takes an operator. `ProfitAppended` then says what a further
  trade adds, and `StepBooks` that a step appends at most one trade and adds its profit.
- *Exits.* `EveryPositionHasAnExit` is not inductive: `Confirm` drops the pending
  sell of the mint being bought, which must not be the one of a position held.
  `FreshInv` says that a mint whose Buy waits, or is under way, is of no position, of no
  pending sell and in no clone of an exit loop: that is what "no mint is signalled
  twice" gives. `AgeInv` then relates stamps: a position has a pending sell
  with its own stamp, and no entry of its mint, in the list or in a clone, is older. A
  loop's `held_seconds` is at most the age of the entry it read it from, or wrapped
  (`OldOrWrapped`), so a position is at least as old as the age that sells it, or the clock
  was set back past its entry. The hypothesis `~RepeatSignals` is
  that of the run `strategy_exits`; without it `strategy_stalesell` and
  `strategy_rebuy` show that the code does otherwise. The theorems include the Sell
  signals, which that run leaves out.
- *List.* `ListInv` = types + `IndexConsistent` + `CountersMatch` (which no run needs to
  check on its own: it is part of `ImplementsSet`). The hard case is
  a removal in the middle: `RemoveAtElements` says what moves, and the index
  moves with it.
- *Stale candidates.* `OthersAreFit`: while a prune is under way every candidate still in
  the queue is one of those to remove, or fit but for the second that turned. `prune_stale` notes
  the mints before the first removal and finds each through the index, so this rests on
  `IndexConsistent` between two removals: `RemoveLeaves` says that a removal takes the
  candidate of its own mint and no other.
- *The list as a set.* `AddIsAdd` and `RemoveIsRemove` map the two operations; the limit
  is on the length of the queue and on the cardinality of the set, which are the same
  because no mint is queued twice (`QueuedSize`). That nothing fit leaves is the
  converse of `OthersAreFit`: `DoomedAreStale`, a mint noted for removal stays stale
  until it is removed, because no price, rate or pressure is updated while the prune has
  the lock.
- *War zone.* The code measures it from the first transaction it kept. `YoungInv`:
  no transaction of an entry is older than the last tracking of its token, since
  `insert` throws away those of before. So the wait since tracking is at least
  the age the check compares.
- *One Buy.* `BuyInv`: the signals sent for a token, plus one if it may still buy
  (`MayStillBuy`: tracked and not triggered), are at most its starts. Without
  that reserve the invariant is not inductive.
- *Bought once.* A check leaves the flag of every other entry alone and sets its own in the step
  that appends the signal (`CheckEffect`), a transaction leaves all flags alone
  (`IngestEffect`), and what arms counts (`TrackEffect`); `BoughtAppended` says that the list of
  mints grows as the list of signals does.
- *Queues.* `FeedInv`: what was scanned, what waits in `rawQueue` and what of the batch
  has not been sent there make up `fed`, in order; the same for `ingested`. A send or a
  receive moves one transaction across a boundary (`MoveHead`), and the middle of the
  two sends is where the two queues differ by the head of the batch. When the ingestion
  task has panicked the second half of that ends, and what it had read stays a prefix of
  `fed`.
- *Pool events.* `AccountInv`: for each reader, sent before it subscribed +
  overwritten + waiting + read = detected, the capacity being what a full
  receiver loses by; and the safety filter's reads are the validations that ended and
  those under way. The latter are counted as the set `UnderWay` of (mint, number),
  so that no sum over the tokens is needed.
- *Only safe tokens.* `SafeInv` follows a mint from what the detector read, through the pool
  events and the validations to what was announced, and from there to what is tracked.
- *Trade monitor.* `OnlyHoldSells`: for the three simulated prices and a stop of at
  most 85 (`StopLow`) none of the rules but the maximum hold sells a position. The
  stop cannot fall because a second `open_position` can come only before the first check
  (`StopFresh`). `AmountInv` ties the amount left to the free trade, `PromptInv` says that
  while the checks come in time a position whose free trade is ahead is at most
  as old as `Age3`, and younger when this second's check is over, and `SoldInv` adds up the
  sales at each await. The only oversale is then `SoldTwice`, a free trade after a
  `held_seconds` already beyond the maximum hold, which `prompt` excludes; it is of
  40 %, so `OversoldByOneFreeTrade` needs no `prompt`. `SaleBounds`
  is the arithmetic of the two sales: 40 % and 60 %, each rounded down, lose at most one
  token.
- *Safety.* `IInv` adds `NoAuthoritySeen` (a task that fetched the mint account and was
  not rejected has seen a token without authority, which cannot come back) and
  `SupplyFalls` (so from then on the supply only falls). A share computed with
  a later, smaller supply is at least the true one, unless it is computed with zero, which
  the code takes for a share of zero: asking for the authority *before* the holders is what
  makes the two calls sound. Of a task that judged by the cached entry nothing of this
  holds, and the two properties say nothing of it. `TestsOn` (mint authority
  test on, holder test on) is needed, and is what `config.toml` ships.
- *Swaps.* `DivisionBounds` says what a quotient leaves; `OutputRoundsUp`
  multiplies it out. Rounding the *remaining* reserve down rounds the output up, so a
  quote may be one unit more than a pool that rounds the output down pays.
  `MoreAfterFee` (a fee grows by no more than its input) and `MoreInNeverLessOut` give the order
  of two quotes.

Only model-checked: the liveness properties (`EveryPositionCloses`,
`EveryCandidateLeaves`, `EveryTransactionRead`, `EveryPoolJudged`,
`EverySafeTracked`, `EveryPositionEnds`), because TLAPS has no liveness under
fairness. Every other property of a passing run is a theorem. The properties that section 5
shows violated are of course not proved of anything.

## 5. Findings

1. `bundle_executor.rs:345`: a null `result` counts as a confirmation, so a
   position is entered for a bundle never seen on chain (`strategy_nullreply`).
2. `bundle_executor.rs:352`: a failed second buy of a held mint removes the pending
   sell of the position held; it is never closed (`strategy_rebuy`).
3. `strategy.rs:380`: pending sells are never removed when they have sold, so an old one closes
   a later position of the same mint as held too long (`strategy_stalesell`).
4. `velocity_monitor.rs:198`: minute 2 is recorded late when it was quiet, and the
   "minute 2" count looks at the wrong window, so a Buy goes out for a token with
   nothing in minute 2 (`velocity_minute2`; README.md:212 promises 30).
5. `safety_filter.rs:384`: an RPC error reply counts as LP burned (`safety_lp`).

The passing runs show what holds in spite of them: 1 does not touch the books;
2 and 3 need a second buy of the same mint (`strategy_exits` excludes it through
`RepeatSignals = FALSE`).

Met while modelling, without a run of their own:

- The listener of the source as it stands panics at its first transaction
  (`shred_listener.rs:250`, section 1): nothing reaches any consumer. What the runs show of
  the stages they show for ids that parse.
- A transaction with an instruction whose program is not among its keys ends the ingestion
  task (`velocity_monitor.rs:388`, `:451`); in a dev build no token is bought on its
  velocity after that, and nothing says so.
- Swaps are never counted for a tracked token (section 1), whatever README.md:206 and
  `main.rs:34` say.
- The stops and the stall rule of the exit loops never fire (section 1), whatever
  README.md:234 says; and `calculate_trailing_stop` is a function of the price alone, so a
  price that fell would take its stop down with it.
- A token whose mint account cannot be fetched is judged by what was sniffed of it, with the
  comment "auths are safe" (`safety_filter.rs:112`). The entry need not be true, so
  such a token may be announced and still be minted; `SafeCannotBeMinted` is about the others.
- A second answer that the supply is zero makes every share zero
  (`safety_filter.rs:451`), so a token whose rest is burned between the two calls
  passes as not concentrated; `SafeIsNotConcentrated` leaves that answer out.
- While `start` runs, no one else gets the guard of the watch monitor (`strategy.rs:97`): a
  candidate that comes later never gets a rate, and so is never bought.
- A pending sell is of 0 tokens (`strategy.rs:597`), and a sell bundle closes the
  token account before it sells from it (`bundle_executor.rs:315`).
- A clock set back past the entry time makes `held_seconds` wrap
  (`trade_monitor.rs:244`, `strategy.rs:135`, `:293`): the position counts as held beyond
  every limit. The exit loops sell it, young as it is, at the simulated price of an old
  one, which is the exception that `SoldForAgeIsOld` makes; the trade monitor sells 40 %
  and then 100 % of it in one check. That
  is why `NeverOversold` is stated for `prompt` behaviours only; a check that comes
  after the maximum hold does the same.
- `trade_monitor.rs:263`: for about two entry prices in five, 1.25 times the entry is
  computed as a gain below 25 %, and the free trade never comes.
- `start_atomic_monitor` sets its own flag and spins on the executor's
  (`trade_monitor.rs:146`), which is true from the start and never cleared, so
  `stop_atomic_monitor` stops nothing. Nothing calls either.
- `GoldList::clear` does not count what it removes. Nothing calls it.

## 6. What is not modelled

- Byte and JSON parsing, base58/base64, transaction building and signing, HTTP
  details, logging, the dashboard. A reply is one of the few things the code
  tells apart.
- f64 rounding, but for gains that fall short of a whole percent in `TradeMonitor`.
  Percentages are integers.
- The latency map and the cached blockhash of the executor (nothing reads them).
- `ImprovementEngine`, `TradeLogger`, `PrecomputedData`, `RugDetector`,
  `FastExecutor`: nothing calls them at runtime.
- The trade monitor's predictive exit compares entries of a history that holds
  nothing but 100s; it never fires. Its statistics (profits, numbers of checks and
  sells) decide nothing.
- The wallet: whether a failed sell or a late bundle leaves tokens behind. Since
  every sell is of 0 tokens, no property of a balance survives the first trade.
- A price feed: the code has none.

## 7. Plan

Done, in this order: `ExitRules`, `Strategy`, `PositionBook` with their proofs,
`WatchList`, `Velocity`, `Safety`, the proofs of `WatchList` and `Safety`,
`Pipeline` with `TransactionFeed`, `TradeMonitor`, the proofs of `TradeMonitor`,
`Velocity` and `Pipeline`, the exits, wins and profits of `Strategy`, the
refinements of `CandidateSet` and `BuyOnce`, `SwapMath` with its proofs.
Every safety property of the passing runs, every action property and every refinement is a
theorem now.

What could follow: `Strategy` and the trade monitor with a price feed as a free input, to
state what the exit rules promise at any price. `WinsAgree` fails there if a stop above the
entry is hit, and `TrailingStop` falls with the price; as long as the
code has no feed this is a model of another program.

The hazards in `PROJECT.json` that no property covers say why.
