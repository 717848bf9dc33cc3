# Verification of the Solana copy trader

This directory models the copy trader in `src/` with TLA+, from the transaction the
stream delivers to the position that is sold and the bot that controls it,
model-checks it with TLC on small instances and proves its most important
properties with TLAPS for every instance.

## 1. The system

The program watches the trades of *target wallets* on a gRPC stream and repeats
them for each *copy group* (a set of target wallets with its own settings). It is
one process, a Tokio multi-threaded runtime: every arrow below is a channel, a
spawned task or a shared concurrent map.

```
 GrpcSubscriber --trades--> trade loop (main.rs) --signal--> ConsensusEngine
                               |  single-wallet groups          | trigger
                               v                                v
                       buy gate (lanes, claims) <----- trigger consumer
                               v
                 execute_buy / execute_external_buy --> chain
                               v add_position
 AccountSubscriber --> AutoSellManager (position map) <-- confirmation task
        |  curve, balance      | price monitor, fallback monitor
        v caches               v sell signals (queue)
                         SellExecutor (queue task)     Telegram bot (sells too)
```

| Component | State | Operations | What makes it correct |
|---|---|---|---|
| Consensus engine (`consensus/engine.rs`) | map (group, mint) -> candidates, fired flag, quorum and timeout | submit, revoke, reject, ten-second cleanup | one vote per wallet; a complete quorum fires at once and fires once; votes of one window; nothing is kept for ever |
| Buy gate (`main.rs`) | claims per group and mint, two semaphores | queue, claim, give back, sweep | one buy of a group and mint at a time, one more at most for each that outlasts the sweep; a cooldown after each; no claim for ever |
| Positions (`autosell/position.rs`, `manager.rs`) | map (group, mint) -> position with a state machine | add, confirm, mark, restore, partial sale, price and fallback monitors, retention | one seller at a time; terminal states stay terminal; no state is kept for ever |
| Buy confirmation (`tx/confirm.rs`) | one task per buy | poll signature, cache and balance, confirm or fail | what it announces is what the map says |
| Sell executor (`tx/sell_executor.rs`) | one task that drains the queue, and the bot's own task | full and partial sells, retries, fallback to Jupiter | a closed position was sold |
| Account stream (`grpc/account_subscriber.rs`) | tracked accounts, curve and balance caches | track, untrack, prune, resubscribe, deliver | caches only hold what the stream delivered; every tracked account is subscribed to |
| Trade stream (`grpc/subscriber.rs`) | the wallets, the connection, the wallets last asked for | copy wallets, wait, connect, ask again, deliver, reconnect; classify a transaction before and after it lands | wallets changed at run time are followed; pump.fun has priority; the token program is the mint's |
| Trade loop and buy routes (`main.rs`) | seen signatures, mirrors, prefetches, triggers | deduplicate, choose groups, prefetch, follow a sale, buy, vote, take a vote back; serve triggers; wait for a curve and choose how to buy | every buy is backed by its wallets; a failed trade has no vote; a sale is followed; a buy ends |
| Prefetch cache (`processor/prefetch.rs`) | per mint: mirror, wallet, quality | fill, replace, wait, remove, expire | better data are not replaced by worse |
| Groups (`groups.rs`) | map of groups, selection, a JSON file | edit, save, load | a selected group exists; a restart reads back what was changed |
| Group statistics (`group_stats.rs`) | counters, a JSON file, a history file | count, append, persist, load | every closed trade counted has its line |
| Telegram bot (`telegram.rs`) | offset, the updates in hand, event channel | poll, handle commands, record events | no command is lost or done twice; each has its turn; sells obey the gate |
| Pump.fun processor (`processor/pumpfun.rs`) | none | quote, check, validate a mirror, build purchase and sale | what is built has the chain's layout; the quote was checked |
| Sender (`tx/sender.rs`) | endpoints | fire and forget, send and confirm | one accepted send is a success |
| Position persistence (`autosell/persistence.rs`) | a JSON file | save, load | (never loaded) |
| Other processors, Jupiter, builder, blockhash, configuration | HTTP clients, a blockhash, environment | quote, build, refresh, read | a recent blockhash |

Hard behaviour: a position is touched by five kinds of task (confirmation, price
monitor, fallback monitor, queue seller, bot), each of which reads it, waits for
the network and writes it; all groups share one token account per mint, so a
balance says nothing about whose tokens moved; transactions may land late or
never; requests fail and a failure is read as a balance of zero; trades are
reported before execution, when the accounts in lookup tables are unknown, again when
landed, and possibly as failed; mirrors and curves are cached by one task and used by
another later; every event the bot handles drops the request it waits for; files are
overwritten in place.
`PROJECT.json` lists each hazard at its line with the property that covers it.

## 2. The modules

| Module | Models |
|---|---|
| `QuorumTrigger` | what the consensus engine promises, without how votes are stored |
| `Consensus` | the engine for one group and mint; `Promise` is the refinement mapping to `QuorumTrigger` |
| `MCConsensus` | instances for TLC |
| `ConsensusProofs` | its proofs |
| `PositionDiagram` | what a position promises: the state diagram of `position.rs` with the seller that holds the position, without the tasks |
| `PositionLifecycle` | the positions of one mint, from buy to retention, and every task that races on them; `Diagram` is the refinement mapping to `PositionDiagram` |
| `MCPositionLifecycle`, `PositionLifecycleProofs` | instances, proofs |
| `BuyGate` | lanes, claims, cooldown and sweep |
| `MCBuyGate`, `BuyGateProofs` | instances, proofs |
| `AccountTracking` | tracked accounts, the stream's subscription, the curve and balance caches, the fetch of a curve |
| `AccountTrackingProofs` | its proofs (its configurations need no instance module) |
| `CopyGroups` | the groups, their settings and their file, as operators |
| `ControlBot` | the bot, the server it polls, its events, both stores and a crash at any step; extends `CopyGroups` |
| `MCControlBot`, `ControlBotProofs` | instances, proofs |
| `TradeParser` | what a transaction is reported as, before and after it lands, as operators |
| `TradeStream` | the subscription; extends `TradeParser` |
| `MCTradeStream`, `TradeStreamProofs` | instances, proofs |
| `TradeIntake` | the trade loop and the trigger task; extends `TradeParser` and composes `Consensus` |
| `MCTradeIntake`, `TradeIntakeProofs` | instances, proofs |
| `PumpLayouts` | quotes, account lists and mirrors of pump.fun, as operators |
| `BuyPath` | one `execute_buy` with the caches around it; extends `PumpLayouts` |
| `MCBuyPath`, `BuyPathProofs` | instances, proofs |

They compose along the path of a trade: `TradeStream` sends what `TradeParser` makes of a
transaction; `TradeIntake` takes any order of such reports, drives an instance of
`Consensus` (by steps of that module only, `DrivesEngine` of section 4) and records the buys
it starts with what was prefetched for them; `BuyGate`
admits a buy, `BuyPath` builds and sends it, and `PositionLifecycle` begins where a
position is filed. `AccountTracking` provides the curve `BuyPath` waits for and the
balances `PositionLifecycle` reads; `ControlBot` changes the groups `TradeIntake` looks up.

In each module a definition whose comment begins with "Mutant:" is a plausible
bug. It is used by no specification; putting it in the place of the definition
that follows it must break the property named for it in `PROJECT.json`.

### Consensus

`entry` is the map's `TokenSignals` for one key, `sent` the triggers in the
channel, `now` the clock. A candidate keeps its wallet, signature, time of
detection and the facts the code tests about its payload (`kind`). `Submit` is the
whole of `submit_signal`: open or reuse the entry, drop the expired candidates,
replace or add, count, and fire. `Reject` recomputes the flag from the candidates as
they are, without expiring them, as the code does. `Cleanup` is one round of the
cleanup task. Detection times are handed to the engine in order (`fed`) because
trades pass through one FIFO channel; they may be arbitrarily late.

### PositionLifecycle

An action is the code between two points where another task can interfere: an
await, or the release of a lock of the position map. `pos` is the map; `conf` the
locals of each confirmation task; `pc` and `job` the control point and locals of the
two sellers (`exec`, the queue's task, and `tg`, the bot, which calls the sell executor
from its own task); `fb` what the fallback monitor has read and not yet acted on.
The chain (`bal`, `sold`, pending and abandoned transactions) and the stream
(`feed`) are the environment: a transaction lands, fails or is never seen; a sell
that nobody waits for any more can still land.

What is abstracted, and why it is sound for the properties:
* prices: a price rule is a signal that may come whenever its state guard allows;
* elapsed time: `age` has four steps at the points the code compares with (5 s,
  10 s, 60 s); a confirmation task ends before its position is a minute old;
* amounts: a buy brings `Lot` tokens, a partial sale is half of the position;
* the two quotes, the building and the sending of a transaction are one step that
  may fail;
* the fallback monitor locks a position and then iterates over the map it belongs
  to. With a sharded map of read-write locks that task waits for ever, and so does
  every task that then needs that shard, which includes each one that saves the
  map. The model's `wedged` stops every task that touches the map;
* the token account: a sale and the fallback monitor ask about the account of the position's
  sell snapshot, and about the classic program's when there is none, as for every external
  position (`main.rs:1214`). `SnapshotBalance` is that answer: zero for an external position of a
  Token-2022 mint (`Token2022`), which has no such account;
* each group buys once: a second buy that overwrites an open position is not modelled.

`PositionDiagram` is what all of it amounts to for one position: the diagram at the head of
`position.rs`, with the set of sellers between `mark_selling` and the end of their cycle
(`Holders`) beside the state (`Shown`). It differs from the diagram of the source where the code
does: Failed has no way out there (`position.rs:10-15`), but a seller whose sale fails writes back
the state it read, and so revives a position that failed in its hands; a sold part makes it
Active; and with a second seller it may be given back as Selling. A position that closed or failed
while nobody held it never comes back.

### BuyGate

`claims` is `mint_dedup`. A task waits for a permit of its lane, claims its key, buys and gives
the claim back. Time is a step longer than the 25 ms of the queue and shorter than the 2.5 s of
the cooldown; `running` and the claims' timers count steps, `running` up to the age at which a
claim is stale. `Panic` is a task that dies inside `execute_buy`. Which waiting task gets a
permit is left open, which allows every order the fair semaphore can produce.

How long a buy takes is open. The external route has a balance request (30 s by default), a
quote and a swap request of 15 s each, against a sweep after 30 s: its claim may be taken while
it runs, a second buy of the same group and mint is let in, and `finish_group_mint`, which does
not check whose claim it closes, then frees the claim of the one still running or erases the
cooldown of one that was submitted. The model has all of it. `Overran(k)` are the buys of a key
that took as long as the sweep waits: `OneBuyUnlessOverrun` says that there are no more buys at
a time than one and these, `CooldownHonoured` that a cooldown is only cut short where there is
one. Without the two exceptions TLC refutes both.

### AccountTracking

The five concurrent maps of `AccountSubscriber` and the claims of
`ensure_bonding_curve_fetch` are variables, and each operation on one of them is a
step: `Map`, `Touch` and `List` are the three statements of `track_*`; `Find`,
`Unmap`, `Unlist`, `Uncache` and `Untouch` those of `untrack_mint`. A task at such a
step has in `kind` the account it is at, the curve first and then the wallet's.
`busy` is the account whose update `handle_account_update` is working on: it holds
guards of that account's entries, so nobody can write them meanwhile; this is what
keeps a balance from being cached after its mint was untracked. `permit` is the one
`Notify` keeps when nobody waits. `removed` and `lost` are history, used only by the
liveness properties.

Left out: what a balance or a curve says (see PositionLifecycle), which shard of a map
an entry is in, and that the list is read entry by entry for a request.

### CopyGroups and ControlBot

`store` is the `GroupManager`, `file` what `copy_groups.json` holds, `summaries`,
`statsFile` and `history` the same for the statistics. The bot is one task: `pc` is where
it is between two awaits or two writes, `batch` the updates of an answer it still has to
handle, `offset` what it will ask for next. `fs::write` empties a file before it fills
it, so `Save` leaves `Torn` and `Saved` the content; a crash may come between, and a
write may be refused. The server keeps updates until a request with a later offset;
taking an event sets `reply` to 0, for the `select!` drops the request with its answer.
`Restart` reads what the files hold, in the order of `main`.

A value the operator types is what the parsers make of it (a number or not, NaN or not,
a word), so `Accepts` and `Applied` translate every branch of
`apply_group_setting_value`. Names, prices in reports, texts and keyboards are left out.
The order in which ids sort as strings is left open.

### TradeParser and TradeStream

`TradeParser` reduces an instruction to its venue, the side its data or its source account
tells, whether it is a swap, and which of the accounts the code reads are in lookup tables
(`hidden`): that is what differs between the report before execution and the one after.
`Rounds` is the order of the five searches of `parse_transaction`, `Wrapped` the guess from
the account keys, `Enriched` what the balances add. `TokenProgram` follows the places the
code reads per venue. Three of these places are not the program's for some calls, and the
model has `other` there: a pump.fun call that is no purchase, a PumpSwap call whose mint is
hidden (the accounts are then read in an older layout), a call of a venue that is no swap;
of a Raydium CPMM call whose output program is hidden the input's program is taken.

`TradeStream` is `subscribe()` with its loop and the synchronising task of `main`. `at` is
where `subscribe()` is; `looked` lies between the look at the empty list and the wait for
the `Notify`, whose `notify_waiters` keeps no permit.

### TradeIntake

One group and one mint, two wallets. `feed` is the channel, `hand` the report the loop is
acting on with the group as it was when it was looked up; `Take` is the part of the loop
before the groups, `ActPump` and `ActExternal` the part for one group. `Serve` is the
trigger task. The engine's variables are those of the `Consensus` instance `C`; `Enter`
calls its `SubmitWith` or `Reject`. `buys` records each buy that is started, with what the
prefetch cache held. The operator, the cleanup tasks and the position that opens and closes
are the environment.

A signature names one transaction (`SignaturesAssumption`), so two reports with one signature
are the two forms of it: before and after it landed. `Disowns(r)` says when a failed report
tells the loop of a vote to take back: the group as it is would have gone by the trade, and
the mark of the transaction is still there. A failed sale that is reported without accounts
is not among them, for the loop drops a sale without a mirror before it comes to the vote.

### PumpLayouts and BuyPath

An account is its role and whose it is; of some roles the chain takes several, a usual one
and another. `Replaced`, `Agrees`, `ValidWith` and `ValidWithout` are the replacement of the
user's accounts and the two forms of the check; `BuyFromMirror`, `BuyStandard` and
`SellFromMirror` what is built. The amounts are the code's integer expressions; 64-bit
overflow is out of reach of the amounts (products are taken in 128 bits). `Accepted` and
`SaleAccepted` are the chain's rule and external.

`BuyPath` has one action per await of `execute_buy` and a single decision, `Route`.
`StreamDelivers` and `RequestReturns` change the cached curve meanwhile. What was prefetched
is any mirror of the mint with any reporting wallet, which is what the trade loop can leave: it
keeps the list of every direct buy of 18 accounts or more, whatever the venue (`IsMirror` of
`TradeIntake`, `foreign` and `long_foreign` of `PumpLayouts`; a list of more than 18 accounts
passes the validation unchecked). `LayoutsAccepted` speaks of the mirrors of pump.fun purchases.

## 3. The runs

Every property is checked on an instance small enough to be exhaustive.

| Run | Instance | Shows |
|---|---|---|
| `MCConsensusSignatures` | 2 wallets, 2 signatures, quorums 2 and 3, timeouts 0 and 2, trades up to time 2, clock to 4 | `TypeOK`, `OneVotePerWallet`, `UntriggeredBelowQuorum`, `TriggersBackedByQuorum`, `VotesSpanOneWindow`, `FiredRoundHolds`, refinement of `QuorumTrigger`, `EventuallyForgotten` |
| `PositionTasks` | 1 group, both sellers, partial sales, a sell cycle each | `SellMutex`, `ClosedStaysClosed`, refinement of `PositionDiagram` |
| `PositionExternal` | 1 group, both sellers, external route, classic mint, answering RPC, 2 tries, 2 cycles | `ClosedMeansSold` |
| `PositionEnds` | 1 group, queue seller, failing RPC, 2 tries, 2 cycles | `SellingHasSeller`, `SellingEnds`, `ConfirmingEnds` |
| `BuyGateClaims` | 3 tasks, 2 keys, lanes of 2 and 1 permits, cooldown and sweep of 2 steps, buys of any length | `TypeOK`, `OneBuyUnlessOverrun`, `CooldownHonoured`, `ClaimsEnd` |
| `AccountCaches` | 1 mint, curve and wallet account, a buy task (2 buys), a seller | `BalancesAreBacked`, `OneFetch` |
| `AccountStream` | 1 mint, both accounts, a buy task (1 buy), the pruner | `FetchesEnd`, `SubscriptionGrows` |
| `BotCommands` | 2 commands of 13 kinds, 1 event, 1 failure, 1 crash | `SelectionExists`, `RestartReadsStore`, `NoCommandLost`, `HandledOncePerRun`, `ClosedTradesInHistory`, `CommandsHandled` |
| `TradeStream` | 2 wallets changed twice, 1 failure, 1 transaction of at most two outer calls and an inner one on every venue | `InternalFirst`, `ProgramOfMint`, `WalletsFollowed` |
| `TradeIntake` | 2 wallets, 4 transactions each with its signature, 3 reports, 3 settings, 1 edit, 1 forgotten entry, clock to 1 | `BuysAreBacked`, `FailedTradesHaveNoVote`, `FailedTradesTriggerNothing`, `SecondLookIsBetter`, `FollowSellsSent` |
| `BuyPath` | 2 coins, every kind of mirror, 4 curves and none, 4 instructions, 1 delivery of the stream | `LayoutsAccepted`, `QuoteChecked`, `BuyEnds` |

`MCConsensusRounds.cfg` is kept beside the run `MCConsensusSignatures` for the instance with
three wallets; it passes as well. `TypeOK` of the modules that are not listed with it holds on the
same instances; for all but `ControlBot` and `TradeIntake` it is a theorem.

Bounds. In `MCConsensusRounds` three wallets with a quorum of two are the least in which a
third vote meets a fired round; two signatures the least in which a wallet can be rejected for
one trade and kept for another; a window of two with a clock to three the least in which one
vote expires and another does not. Two sellers are all there are. One group suffices for what
two tasks can do to one position; two groups (in `VClosedShared`) for what a shared account
adds. `QueueMax` is 1 because a signal that waits has the same effect whenever it is taken.
`MaxCycles` bounds sell cycles; two are needed for a failed cycle to be followed by another. In
`BuyGate` three tasks let a claim be taken, refused, released and taken again while another key
uses the same lane, and two of one key run when the claim of the first was swept; two steps let
a refusal make a claim younger than its buy, and a cooldown be half over. In `AccountTracking`
one mint suffices because nothing but the number of accounts relates two mints (`VSubscription`
has two); two buys let the second find what the first left of a fetch or of an untracking. In
`ControlBot` two commands let one be lost, repeated or torn while another is in the same
answer, one event lets it drop an answer, and one crash is enough, for a restart begins from
the files alone. In `TradeStream` a change during a reconnection and another after it are two;
two outer calls let an external one precede a pump.fun one. In `TradeIntake` three reports are
a transaction reported twice with another's in between, or a quorum of two and its revocation;
one clean-up or one edit can come at any point among them. In `BuyPath` the supply is 200 and
amounts are a few units: nothing but the comparisons of amounts depends on their size, and the
curves are chosen on both sides of each; one delivery suffices because the task reads the
cached curve once.

No run checks for deadlock: clocks are bounded, buy tasks are finite and positions
are forgotten, so each system legitimately stops.

Fairness. `Consensus`: the clock and the cleanup task, which sleeps and runs in an
endless loop. `PositionLifecycle`: the steps of the sellers, the confirmation tasks,
the fallback monitor, the queue's consumer and time; nothing is assumed of the chain,
the stream or the users. Every wait in those tasks has a timeout, so weak fairness
of the whole step is what the runtime gives. `BuyGate`: the queue's timeout, the end
of a buy (it has bounded waits), the sweep and time. `AccountTracking`: the
subscription task runs, the server accepts one of its requests in the end and its
timer ticks while it is connected (strong fairness, for the connection may come and
go), an update that is being handled is written, and a request for a curve is answered
or fails, which the RPC client's timeout gives; buys and cleaners may stop anywhere.
`ControlBot`: the bot's task, the server's answers and whoever restarts the program;
failures and crashes are bounded, commands and events are not promised. `TradeStream`: the
synchronising task, the subscription task and a request the server takes; a connection and a
request may fail as often as the bound says. `BuyPath`: the steps of the task as a whole,
because each of its waits has a timer; neither the stream nor the request for the curve is
promised to answer. `TradeIntake` states no fairness: its properties are safety.

### Where the code and its documents disagree

One run checks a property a document states and finds a behaviour of the code that violates
it:

| Run | Statement | What happens |
|---|---|---|
| `VFallback` | the fallback confirms missed buys (`PROJECT_SEQUENCE.md:225`) | it waits for a map lock it holds |

Further configurations of the same kind are kept beside it. They are not among the listed
runs, but show a reader which stronger properties do not hold, and why the listed ones are
stated with the exceptions they have.

| Configuration | Statement | What happens |
|---|---|---|
| `VClosedShared` | Closed: the sell succeeded (`position.rs:283`) | a late cached balance of the account that two groups share confirms a sell |
| `VStranded` | Selling: being sold (`position.rs:28`) | Selling itself is restored as the "previous" state and nobody can sell the position again |
| `VSubscription` | new accounts are looked for and subscribed to (`account_subscriber.rs:256`) | only the number of accounts is compared: one added as another is removed is missed |
| `VClosedRpc` | Closed: the sell succeeded (`position.rs:283`) | a failed balance request reads as zero and confirms a sell |
| `VClosed2022` | the same | the sale of an external position of a Token-2022 mint asks about the classic account, which does not exist, and the zero it reads confirms it, though the node answers |
| `VClosedPartial` | the same | a partial sale still under way is taken for the full one |
| `VActive` | Active: confirmed (`position.rs:26`) | a partial sale of a Confirming position makes it Active |
| `VSuspended` | auto-sell suspended (`manager.rs:132`) | the price rules ignore the attempt cap |
| `VAnnounced` | confirmation activates (`PROJECT_SEQUENCE.md:187`) | the buy is announced for a position the fallback monitor has just failed |
| `VCurves` | a cached curve is kept up to date by the stream (`account_subscriber.rs:58`) | the answer to a request caches the curve of a mint that was untracked meanwhile, and nothing updates or removes it |
| `VPersisted` | the groups' state is persisted (`PROJECT_SEQUENCE.md:287`) | a setting of NaN is accepted and saved as `null`, which the loader cannot read: the next start has the configured group only |
| `VSetByName` | `/set <group> external off` (`SESSION_SUMMARY.md:168`) | the group is taken for the key |
| `VHotReload` | hot-updated wallet set (`main.rs:613`) | the notification that comes between the look at the empty list and the wait wakes nobody |
| `VSellProgram` | a sale has the creator's vault in the ninth place (`pumpfun.rs:743-747`) | the parser takes that place for the token program of a sale (`subscriber.rs:983`) |
| `VMirror` | a wrapper's trade reuses the cached mirror (`main.rs:941`) | the canonical vote's own empty list replaces what was prefetched with the mirror |
| `VQuote` | an amount above what the curve has left is refused (`pumpfun.rs:1378-1407`) | the route from a mirror with a curve sends an amount above what the curve has left |
| `VReverse` | the mirror of any trade serves (comment at `pumpfun.rs:750`) | a sale of a coin with cashback has 17 accounts and is read as a purchase in the old layout; of any sale, the parser names the vault as the token program, and the token account is derived from it |

## 4. The proofs

The proofs hold for every value of the constants that satisfies the named
assumptions of the modules.

* `ConsensusProofs`. `Invariance` proves the inductive invariant: `TypeOK`,
  `OneVotePerWallet`, `UntriggeredBelowQuorum`, and what the history of triggers
  needs. `TriggersBackedByQuorum` follows because counted candidates of different
  wallets are as many as their wallets, which needs `OneVotePerWallet`;
  `VotesSpanOneWindow` because all candidates kept by a submission are younger than
  the window and none is detected after `fed`. `Implementation` proves each action of
  the engine to be a step of `QuorumTrigger` or a stutter, under that invariant.
* `PositionLifecycleProofs`. The inductive invariant `Gate` reads `mark_selling` as a
  lock: a seller inside its critical section implies that the position is Selling
  (`Held`), so a second seller's `mark_selling` is refused. It takes in that every job
  names a group that has bought (`HasGroup`, `Unbought`), for a position that does not
  exist is not Selling. `SellersExclude` follows.

  `DiagramKept` is the refinement: every step of every task is a step of `PositionDiagram` or
  changes nothing it sees (`NextDrawn`). That a failed cycle never writes back "none" or Closed
  needs the invariant `Drawn`: a seller that read a closed position has a dead one in its hands
  (`Remembered`), dead meaning that it ended while nobody held it; and no arrow of the diagram
  leaves a dead position (`DeadForever`). So the step is proved from the invariant, and the
  invariant is kept because of what the step can be. `ClosedForGood` is then a fact about dead
  positions.

  `SellersAttend` proves `SellingHasSeller` under `ExecutorOnly`: the bot does not sell. The
  invariant `Attended` adds that no job in progress has Selling as the state to restore, which
  is what goes wrong in `VStranded`: there the bot reads a position the executor is selling and
  later restores that.

  `ClosedIsSold` proves `ClosedMeansSold` under `SoleHolder`: one group has its tokens in the
  account, the node answers balance requests, no part of a position on pump.fun is sold alone,
  and the position is not an external one of a Token-2022 mint. Each of the four is needed, as
  `VClosedShared`, `VClosedRpc`, `VClosedPartial` and `VClosed2022` show. The invariant
  `Accounts` has four parts: the account holds what was bought and not sold (`Books`); the
  stream and the cache tell of a balance only once the buy has landed, and of an empty account
  only once the lot has been sold (`Told`); every sale that goes out is of the whole lot and
  expects an empty account (`WholeLot`); and a closed position stands for an account that was
  emptied (`ClosedOut`). So the zero that confirms a sale is the sale itself.

  `ActiveIsConfirmed` proves `ActiveWasConfirmed` when no part of a position is sold, which
  `VActive` shows to be needed. A position becomes active in two ways only (`BecomesActive`): its
  buy is confirmed, or a cycle that failed writes back the state it read. So the invariant
  `Trusted` follows a confirmation into the locals of every seller: a job that would restore
  Active is for a group whose buy was confirmed, and a confirmation is never taken back.
* `BuyGateProofs`. However long buys take, the buys of a key are no more than its overruns and
  the claim in flight, if there is one (`Counted`): the end of a buy takes one from both sides,
  whoever's claim it closes, and a new one needs a claim that is free. What is left is the sweep:
  a claim in flight is no older than any buy that runs beside it (`Guarded`), so when it is swept
  all of them have overrun. Where no buy of a key overran, there is one at most (`Alone`), its
  claim is still there, and a key that is not rested has a cooldown at least as long as what is
  left of its rest (`Cooled`). `OneBuy` and `CooldownHolds` follow, with no assumption on time.
* `AccountTrackingProofs`. `OneFetch` is inductive with the types. `BalancesAreBacked`
  needs `Pinned`: the account whose update is being handled is in its map, for its entry
  is locked. Most steps are `Apart` from what it rests on; taking the wallet account
  out of the map is made up for by the cleaner's promise to empty the cache, and keeping
  the promise takes the balance away (`UntrackBacked`). `TrackingTypes`,
  `BalancesBacked` and `FetchedOnce` follow.
* `TradeStreamProofs`. The inductive invariant is the type invariant and, of every report
  sent, that it is what `Parse` makes of `tx` in one of its two forms. `PumpIsFirst` then is a
  fact about the five rounds, and `ProgramIsTheMints` one about each venue's layout, which
  needs the assumption `TxsAssumption` on what a swap pays.
* `ControlBotProofs`. `Delivery` relates the counts of the updates to where the bot is: up to
  `offset - 1` each was handled, of the batch in hand none in this run, and the server has
  confirmed none beyond the offset; `NoneLost` and `OncePerRun` follow. `StoreInv` says that
  the selected group is one of the groups, in memory and in a file that is not torn, and that a
  readable file is the store unless a write was refused;
  `GroupIsSelected` and `RestartReadsBack` follow. `StatsInv` counts the lines of the history
  against both copies of the counters, with the line a closed trade is ahead while it is
  recorded; `HistoryBacksStatistics` follows.
* `BuyPathProofs`. Quotes and costs are numbers (`TokensForNat`, `TokensAtPriceNat`,
  `MaxCostNat`). `MineIsOurs` shows that replacing the user's accounts in the list of a purchase gives the list
  of our purchase, whoever was reported; hence `MirrorAccepted`, `MirrorValid` and
  `MirrorSaleAccepted`. The invariant is `Decided`: what was built is what `Route` would decide
  again, because nothing it reads changes after the quote. `TypeCorrect`, `PurchaseChecked` and
  `LayoutsTaken` follow.
* `TradeIntakeProofs`. What the parser makes of a transaction names a wallet of the group's and
  a signature (`ParsedVotable`), and the reports in the channel and in the loop's hands are in
  order of their detection, none older than the newest vote (`InOrder`). So every step of the
  loop is a step of `Consensus` or leaves the engine alone (`EngineStep`): `DrivesEngine` is
  `Spec => EngineDriven`, and what `ConsensusProofs` proves holds of the engine in the loop
  (`EngineHolds`). `BuysBacked` adds `AllBacked`: behind every vote held or sent, and every
  wallet of a buy, there is a report in the history; that the wallets of a trigger are a quorum
  is `TriggersBackedByQuorum` of the engine.

  The other theorems relate two reports of one transaction. `SignaturesAssumption` and
  `LandedNamesAccounts` make them tell the same wallet, side and failure where they tell it
  (`SameSigner`), so the vote a failed report takes back is the vote the earlier one cast.
  `Unvoted` is the invariant: a transaction that was acted on is remembered or its mark was
  cleaned up (`Remembered`), every vote has the report it came from (`VotesReported`), and
  while nothing was edited all reports were taken with one setting (`OneSetting`).
  `FailuresHaveNoVote` follows, and from it `FailuresTriggerNothing`, for a trigger's votes are
  those of the entry (`TriggersHoldVotes`). `SecondLooksAreBetter` is a fact about
  `should_skip_signature` and the marks it keeps, `SalesAreFollowed` one about the order of the
  loop's tests, for every transaction and setting.

Only model-checked: the liveness properties (`EventuallyForgotten`, `SellingEnds`,
`ConfirmingEnds`, `ClaimsEnd`, `FetchesEnd`, `SubscriptionGrows`, `CommandsHandled`,
`WalletsFollowed`, `BuyEnds`), which are out of the prover's reach. Every safety property of a
run has its theorem. `EngineDriven` is only proved: checking the steps of the instance makes TLC
enumerate every vote.

## 5. What is not modelled, and what is left to do

Not modelled:
* `autosell/persistence.rs`: the positions are saved, but nothing in the program calls the
  loader, so no behaviour of it depends on the file.
* `tx/blockhash.rs`: a value refreshed by a timer. A stale one makes a transaction fail on the
  chain, which is an outcome the models have.
* `tx/jupiter.rs` and `tx/builder.rs`: HTTP calls and serialisation; their failures are outcomes
  of sending and building.
* `processor/pumpswap.rs`, `raydium_*.rs` and the like: registered on no buy route, for external
  venues are bought through Jupiter. How the parser reads their instructions is in `TradeParser`.
* `config.rs`, `utils/`: environment and formatting, read once.
* texts, keyboards and reports of the bot; profit sums; names of groups; the block list, which
  only a hand-edited file changes.

Left to do, in order:
1. A second buy of a mint whose position is open, in `PositionLifecycle`.
2. How the sale price is estimated from the curve, with the widths of its integers.
3. How `send_and_confirm` collects the answers of several endpoints.

Every hazard known is in `PROJECT.json`, with the property that covers it or the reason why none
does, except a few of lesser weight: a signal waits behind a slow sell in the one-at-a-time queue
(`main.rs:645`); `unwrap()` on a position that retention may have removed (`manager.rs:292`); price
rules keep signalling for a position whose sells fail (`manager.rs:561`, see `VSuspended`); a
partial sale makes any state Active (`position.rs:337`, see `VActive`); the answer to a curve
request may be older than the stream's (`main.rs:178`, see `VCurves`, and `StreamDelivers` and
`FetchCurve` of `BuyPath`); a fired entry refuses new wallets until the cleanup
(`engine.rs:130`, `FiredRoundHolds`).
