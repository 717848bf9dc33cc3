------------------------- MODULE PositionLifecycle -------------------------
(***************************************************************************)
(* The life of the positions of one token mint, from the moment a buy is   *)
(* prepared to the moment the position is closed or failed and forgotten:  *)
(* the position state machine (autosell/position.rs), the shared position  *)
(* map (autosell/manager.rs) and the tasks that race on it:                *)
(*   - one confirmation task per buy (tx/confirm.rs),                      *)
(*   - the price monitors and the fallback monitor (autosell/manager.rs),  *)
(*   - two sellers (tx/sell_executor.rs): "exec", the task that drains the *)
(*     sell-signal queue, and "tg", the Telegram bot, which sells from its *)
(*     own task and never goes through the queue.                          *)
(* An action is what happens between two points where another task can run *)
(* (an await or the release of a map lock).  Each group buys once.  Prices *)
(* are left out: a price rule is a signal that can come at any time.  All  *)
(* groups hold the mint in one wallet account (ATA), as in the code.       *)
(***************************************************************************)
EXTENDS Naturals, Sequences, FiniteSets

CONSTANTS
    Groups,             \* copy groups that buy the mint
    Sellers,            \* {"exec"} or {"exec", "tg"}
    Route,              \* "Pumpfun" or "ExternalJupiter": how the mint is traded
    Token2022,          \* is the mint of the Token-2022 program?
    Partials,           \* may the Telegram bot sell part of a position?
    RpcFails,           \* may a balance request fail?
    Lot,                \* tokens one buy brings
    Tries,              \* MAX_SELL_RETRIES
    MaxAttempts,        \* MAX_AUTO_SELL_SIGNAL_ATTEMPTS
    MaxSkips,           \* MAX_ZERO_BALANCE_SKIPS
    QueueMax,           \* bound: sell signals waiting
    MaxCycles           \* bound: sell cycles of a position

ASSUME RolesAssumption   == /\ "exec" \in Sellers /\ Sellers \subseteq {"exec", "tg"}
                            /\ Route \in {"Pumpfun", "ExternalJupiter"}
                            /\ "none" \notin Groups
ASSUME NumbersAssumption == /\ Lot \in Nat \ {0}
                            /\ Tries \in Nat \ {0}
                            /\ MaxAttempts \in Nat \ {0}
                            /\ MaxSkips \in Nat \ {0}
                            /\ QueueMax \in Nat
                            /\ MaxCycles \in Nat
ASSUME FlagsAssumption   == Token2022 \in BOOLEAN /\ Partials \in BOOLEAN /\ RpcFails \in BOOLEAN

VARIABLES
    pos,                \* the position map: group -> position or NoPos
    age,                \* how long ago the group bought, in coarse steps
    buy,                \* the buy transaction of each group
    conf,               \* the confirmation task of each group, with its locals
    fb,                 \* the fallback monitor's unfinished confirm check
    wedged,             \* a task waits for a map lock it holds itself
    queue,              \* the sell-signal channel
    pc, job,            \* where each seller is, and its locals
    bal,                \* tokens in the wallet account, on chain
    feed,               \* balances the account stream has yet to deliver
    cache,              \* ata_cache for the mint: {} or {balance}
    tracked,            \* is the account subscribed to?
    abandoned,          \* sells nobody waits for that may still land
    sold                \* tokens each group's sells took out, on chain

mapVars   == <<pos, age>>
buyVars   == <<buy, conf>>
chainVars == <<bal, feed, sold>>
cacheVars == <<cache, tracked>>
sellVars  == <<queue, pc, job>>
vars == <<mapVars, buyVars, fb, wedged, sellVars, chainVars, cacheVars, abandoned>>

\* age: just sent, past confirm_timeout_secs (5 s), past the confirmation
\* task's ten seconds, past the minute a dead position is kept.
Young == 0
PastFallback == 1
PastConfirm == 2
PastRetention == 3

States == {"none", "Confirming", "Active", "Selling", "Closed", "Failed"}

Position == [state : States, amount : Nat, attempts : Nat, skips : Nat]

NoPos == [state |-> "none", amount |-> 0, attempts |-> 0, skips |-> 0]

\* A confirmation task: where it is, the balance before the buy, the balance
\* the landed transaction reports, the estimated and then the assigned amount.
Task == [at : {"none", "waiting", "seen", "confirmed", "failed"},
         pre : Nat, after : Nat, amount : Nat]

NoTask == [at |-> "none", pre |-> 0, after |-> 0, amount |-> 0]

\* The locals of a sell cycle: the state read before it, the tokens to sell, the
\* balance expected after it, the route, whether Pump.fun already fell back to
\* Jupiter or failed on chain, the try, and its transaction.
Job == [group : Groups \cup {"none"}, manual : BOOLEAN, prev : States,
        tokens : Nat, expect : Nat, pump : BOOLEAN, fallback : BOOLEAN,
        erred : BOOLEAN, try : 0..Tries, tx : {"none", "pending", "landed", "failed"}]

NoJob == [group |-> "none", manual |-> FALSE, prev |-> "none", tokens |-> 0,
          expect |-> 0, pump |-> FALSE, fallback |-> FALSE, erred |-> FALSE,
          try |-> 0, tx |-> "none"]

-----------------------------------------------------------------------------
(* Reading the wallet                                                       *)

\* A balance request that fails is read as a balance of zero.
RpcBalance == IF RpcFails THEN {bal, 0} ELSE {bal}

\* Where a task asks about the account of the position's sell snapshot: an
\* external position has none, and the account of the classic token program is
\* asked about instead.  A Token-2022 mint has no such account, whoever answers,
\* and no account is read as a balance of zero.
SnapshotBalance == IF Route = "ExternalJupiter" /\ Token2022 THEN {0} ELSE RpcBalance

\* The cached balance when there is one, or else a request.
WalletBalance == IF cache # {} THEN cache ELSE RpcBalance

Least(a, b) == IF a < b THEN a ELSE b

Open(g) == pos[g].state \notin {"none", "Closed", "Failed"}

CanSell(g) == pos[g].state \in {"Active", "Confirming"}

CapReached(g) == pos[g].attempts >= MaxAttempts

-----------------------------------------------------------------------------
(* Position's transitions, as functions from a position to a position       *)

\* Mutant: a confirmation activates whatever position it finds.
ActiveAlways(p, n) ==
    IF p.state = "none" THEN p ELSE [p EXCEPT !.state = "Active", !.amount = n]

MarkActive(p, n) ==
    IF p.state = "Confirming" THEN [p EXCEPT !.state = "Active", !.amount = n] ELSE p

\* Mutant: any position can be put on sale.
SellableAlways(p) == p.state # "none"

Sellable(p) == p.state \in {"Active", "Confirming"}

MarkSelling(p) ==
    [p EXCEPT !.state = "Selling", !.attempts = @ + 1, !.skips = 0]

\* Mutant: a sold position is closed whatever became of it.
ClosedAlways(p) == IF p.state = "none" THEN p ELSE [p EXCEPT !.state = "Closed"]

MarkClosed(p) == IF p.state = "Selling" THEN [p EXCEPT !.state = "Closed"] ELSE p

MarkFailed(p) == IF p.state = "none" THEN p ELSE [p EXCEPT !.state = "Failed"]

\* Mutant: a failed sell leaves the position as it is.
NotRestored(p, prev, suspend) == p

\* restore_after_sell_attempt, and suspend_auto_sell when the cap is reached:
\* the state read before the cycle comes back, whatever happened since.
Restore(p, prev, suspend) ==
    IF p.state = "none" THEN p
    ELSE [p EXCEPT !.state = prev,
                   !.attempts = IF suspend /\ @ < MaxAttempts THEN MaxAttempts ELSE @]

\* apply_partial_sell refuses an amount of zero and leaves the state alone.
ApplyPartial(p, n) ==
    IF p.state = "none" \/ n = 0 \/ n > p.amount THEN p
    ELSE [p EXCEPT !.amount = @ - n, !.state = "Active"]

-----------------------------------------------------------------------------
(* The chain                                                                *)

\* A new balance goes out on the account stream when the account is tracked.
Settles(b) ==
    /\ bal' = b
    /\ feed' = IF tracked THEN Append(feed, b) ELSE feed

\* The buy lands or fails on chain; it may also never be seen.
LandBuy(g) ==
    /\ buy[g] = "pending"
    /\ \/ /\ buy' = [buy EXCEPT ![g] = "landed"]
          /\ Settles(bal + Lot)
          /\ conf' = [conf EXCEPT ![g].after = bal + Lot]
       \/ /\ buy' = [buy EXCEPT ![g] = "failed"]
          /\ UNCHANGED <<bal, feed, conf>>
    /\ UNCHANGED <<mapVars, fb, wedged, sellVars, sold, cacheVars, abandoned>>

\* A sell of n tokens is executed if the wallet holds them.
Executes(g, n) ==
    /\ n <= bal
    /\ Settles(bal - n)
    /\ sold' = [sold EXCEPT ![g] = @ + n]

LandSell(s) ==
    /\ job[s].tx = "pending"
    /\ \/ /\ Executes(job[s].group, job[s].tokens)
          /\ job' = [job EXCEPT ![s].tx = "landed"]
       \/ /\ job' = [job EXCEPT ![s].tx = "failed"]
          /\ UNCHANGED chainVars
    /\ UNCHANGED <<mapVars, buyVars, fb, wedged, queue, pc, cacheVars, abandoned>>

LandAbandoned ==
    /\ \E t \in abandoned :
          /\ abandoned' = abandoned \ {t}
          /\ Executes(t[1], t[2]) \/ UNCHANGED chainVars
    /\ UNCHANGED <<mapVars, buyVars, fb, wedged, sellVars, cacheVars>>

\* The account stream delivers the oldest balance still on its way.
CacheUpdate ==
    /\ feed # <<>>
    /\ feed' = Tail(feed)
    /\ cache' = IF tracked THEN {Head(feed)} ELSE cache
    /\ UNCHANGED <<mapVars, buyVars, fb, wedged, sellVars, bal, sold, tracked, abandoned>>

-----------------------------------------------------------------------------
(* The buy and its confirmation                                             *)

\* warm_buy_caches, or the external route itself, tracks the wallet account
\* before anything is built.  The external route notes the balance now, and asks
\* for it when it is not cached.
PrepareBuy(g) ==
    /\ buy[g] = "none"
    /\ buy' = [buy EXCEPT ![g] = "prepared"]
    /\ tracked' = TRUE
    /\ \E b \in IF Route = "ExternalJupiter" THEN WalletBalance ELSE {0} :
          conf' = [conf EXCEPT ![g].pre = b]
    /\ UNCHANGED <<mapVars, fb, wedged, sellVars, chainVars, cache, abandoned>>

\* The Pump.fun route notes the cached balance when it sends, or zero.
BalanceNoted(g) ==
    IF Route = "Pumpfun" THEN IF cache # {} THEN cache ELSE {0} ELSE {conf[g].pre}

\* The transaction is out: the position enters the map as Confirming, with the
\* estimated amount when there is one, and its confirmation task starts.
SubmitBuy(g) ==
    /\ ~wedged
    /\ buy[g] = "prepared"
    /\ buy' = [buy EXCEPT ![g] = "pending"]
    /\ \E estimate \in {0, Lot}, before \in BalanceNoted(g) :
          /\ conf' = [conf EXCEPT ![g] = [at |-> "waiting", pre |-> before,
                                         after |-> 0, amount |-> estimate]]
          /\ pos' = [pos EXCEPT ![g] =
                        [NoPos EXCEPT !.state = "Confirming", !.amount = estimate]]
    /\ UNCHANGED <<age, fb, wedged, sellVars, chainVars, cacheVars, abandoned>>

\* Coarse time passes for a group's position; the confirmation task gives up
\* after ten seconds, long before a dead position is a minute old.
Age(g) ==
    /\ buy[g] \notin {"none", "prepared"}
    /\ age[g] < PastRetention
    /\ age[g] = PastConfirm => conf[g].at \notin {"waiting", "seen"}
    /\ age' = [age EXCEPT ![g] = @ + 1]
    /\ UNCHANGED <<pos, buyVars, fb, wedged, sellVars, chainVars, cacheVars, abandoned>>

OpenCount == Cardinality({g \in Groups : Open(g)})

\* What the task may take for the balance after the buy: the cache, a request,
\* or, at the end, what the landed transaction itself reports.
BalanceSeen(g) ==
    cache \cup {bal} \cup
    (IF age[g] >= PastConfirm /\ buy[g] = "landed" THEN {conf[g].after} ELSE {})

\* The balance is above what it was before the buy: the position gets all of
\* the increase, or its estimate if the mint has another open position.
SeeIncrease(g) ==
    /\ ~wedged
    /\ conf[g].at = "waiting"
    /\ \E b \in BalanceSeen(g) :
          /\ b > conf[g].pre
          /\ conf' = [conf EXCEPT ![g].at = "seen",
                        ![g].amount = IF OpenCount > 1 /\ @ > 0 THEN @ ELSE b - conf[g].pre]
    /\ UNCHANGED <<mapVars, buy, fb, wedged, sellVars, chainVars, cacheVars, abandoned>>

ConfirmSuccess(g) ==
    /\ ~wedged
    /\ conf[g].at = "seen"
    /\ conf' = [conf EXCEPT ![g].at = "confirmed"]
    /\ pos' = [pos EXCEPT ![g] = MarkActive(@, conf[g].amount)]
    /\ UNCHANGED <<age, buy, fb, wedged, sellVars, chainVars, cacheVars, abandoned>>

\* The signature status carries an error, or ten seconds went by.
ConfirmFailure(g) ==
    /\ ~wedged
    /\ conf[g].at = "waiting"
    /\ buy[g] = "failed" \/ age[g] >= PastConfirm
    /\ conf' = [conf EXCEPT ![g].at = "failed"]
    /\ pos' = [pos EXCEPT ![g] = MarkFailed(@)]
    /\ UNCHANGED <<age, buy, fb, wedged, sellVars, chainVars, cacheVars, abandoned>>

-----------------------------------------------------------------------------
(* The monitors                                                             *)

Signal(g, manual) ==
    /\ ~wedged
    /\ Len(queue) < QueueMax
    /\ queue' = Append(queue, <<g, manual>>)
    /\ UNCHANGED <<mapVars, buyVars, fb, wedged, pc, job, chainVars, cacheVars, abandoned>>

\* Stop-loss, take-profit and trailing stop: sent for as long as the price
\* condition holds and the position is Active, without counting attempts.
PriceSignal(g) == pos[g].state = "Active" /\ Signal(g, FALSE)

\* Maximum holding time, or a followed wallet that sells (same test in main.rs).
HoldSignal(g) == CanSell(g) /\ ~CapReached(g) /\ Signal(g, FALSE)

\* /sellall, from the bot's task.
SellAll(g) ==
    /\ "tg" \in Sellers
    /\ pc["tg"] = "idle"
    /\ CanSell(g)
    /\ Signal(g, TRUE)

\* The fallback monitor finds a position unconfirmed after confirm_timeout_secs
\* and asks for the balance; the map is not locked while it waits.
FallbackRead(g) ==
    /\ ~wedged
    /\ fb = {}
    /\ pos[g].state = "Confirming"
    /\ age[g] >= PastFallback
    /\ \E b \in SnapshotBalance : fb' = {[group |-> g, balance |-> b]}
    /\ UNCHANGED <<mapVars, buyVars, wedged, sellVars, chainVars, cacheVars, abandoned>>

\* Mutant: a position that cannot be confirmed is left for the next scan.
FallbackWaits(c) ==
    /\ c.balance <= conf[c.group].pre
    /\ fb' = {}
    /\ UNCHANGED <<pos, wedged>>

\* With the answer it locks the position and does not look at its state again.
\* No increase: the position fails.
FallbackFails(c) ==
    /\ c.balance <= conf[c.group].pre
    /\ pos' = [pos EXCEPT ![c.group] = MarkFailed(@)]
    /\ fb' = {}
    /\ UNCHANGED wedged

\* An increase: before mark_active the mint's open positions are counted by
\* iterating over the map whose entry this task holds, and the task waits for
\* itself.  Every writer of the map also saves it, that is, iterates over it
\* and waits too: the model stops all of them.
FallbackWedges(c) ==
    /\ c.balance > conf[c.group].pre
    /\ pos[c.group] # NoPos
    /\ wedged' = TRUE
    /\ UNCHANGED <<pos, fb>>

FallbackAct ==
    /\ ~wedged
    /\ \E c \in fb : \/ FallbackFails(c)
                     \/ FallbackWedges(c)
                     \/ pos[c.group] = NoPos /\ fb' = {} /\ UNCHANGED <<pos, wedged>>
    /\ UNCHANGED <<age, buyVars, sellVars, chainVars, cacheVars, abandoned>>

\* The retention pass at the end of a scan.
Forget(g) ==
    /\ ~wedged
    /\ fb = {}
    /\ pos[g].state \in {"Closed", "Failed"}
    /\ age[g] >= PastRetention
    /\ pos' = [pos EXCEPT ![g] = NoPos]
    /\ UNCHANGED <<age, buyVars, fb, wedged, sellVars, chainVars, cacheVars, abandoned>>

-----------------------------------------------------------------------------
(* The sellers                                                              *)

Goto(s, label, j) == pc' = [pc EXCEPT ![s] = label] /\ job' = [job EXCEPT ![s] = j]

Rest(s) == Goto(s, "idle", NoJob)

\* handle_sell_signal up to mark_selling: a copy of the position is read, then
\* the wallet's balance, and the amount to sell is decided from both.  Without
\* a sell snapshot (Pump.fun only) the signal is dropped.
Consider(s, g, manual) ==
    /\ pos[g].attempts < MaxCycles
    /\ \/ /\ pos[g] = NoPos \/ Route = "Pumpfun"
          /\ Rest(s)
       \/ /\ pos[g] # NoPos
          /\ \E have \in WalletBalance :
                LET n == IF pos[g].amount > 0 THEN Least(pos[g].amount, have) ELSE have
                IN  Goto(s, IF n = 0 THEN "skip" ELSE "mark",
                         [NoJob EXCEPT !.group = g, !.manual = manual,
                                       !.prev = pos[g].state, !.tokens = n,
                                       !.expect = have - n, !.try = 1])

\* The executor takes the next signal of the queue.
TakeSignal ==
    /\ ~wedged
    /\ pc["exec"] = "idle"
    /\ queue # <<>>
    /\ queue' = Tail(queue)
    /\ Consider("exec", Head(queue)[1], Head(queue)[2])
    /\ UNCHANGED <<mapVars, buyVars, fb, wedged, chainVars, cacheVars, abandoned>>

\* A sell button of 100 % in Telegram.
SellButton(g) ==
    /\ ~wedged
    /\ "tg" \in Sellers
    /\ pc["tg"] = "idle"
    /\ pos[g].amount > 0
    /\ Consider("tg", g, TRUE)
    /\ UNCHANGED <<mapVars, buyVars, fb, wedged, queue, chainVars, cacheVars, abandoned>>

\* A sell button below 100 %: half of the position, rounded down.
PartialButton(g) ==
    /\ ~wedged
    /\ Partials /\ "tg" \in Sellers
    /\ pc["tg"] = "idle"
    /\ pos[g].amount > 0
    /\ pos[g].attempts < MaxCycles
    /\ Goto("tg", "pmark", [NoJob EXCEPT !.group = g, !.manual = TRUE,
                                         !.prev = pos[g].state,
                                         !.tokens = pos[g].amount \div 2])
    /\ UNCHANGED <<mapVars, buyVars, fb, wedged, queue, chainVars, cacheVars, abandoned>>

\* Nothing to sell: counted, and at MaxSkips in a row the position is failed.
SkipZero(s) ==
    /\ ~wedged
    /\ pc[s] = "skip"
    /\ LET g == job[s].group
           n == Least(pos[g].skips + 1, MaxSkips)
       IN  IF pos[g] = NoPos
           THEN Rest(s) /\ UNCHANGED pos
           ELSE /\ pos' = [pos EXCEPT ![g].skips = n]
                /\ IF n >= MaxSkips THEN Goto(s, "drop", job[s]) ELSE Rest(s)
    /\ UNCHANGED <<age, buyVars, fb, wedged, queue, chainVars, cacheVars, abandoned>>

DropZero(s) ==
    /\ ~wedged
    /\ pc[s] = "drop"
    /\ pos' = [pos EXCEPT ![job[s].group] = MarkFailed(@)]
    /\ Rest(s)
    /\ UNCHANGED <<age, buyVars, fb, wedged, queue, chainVars, cacheVars, abandoned>>

\* mark_selling, the only gate between two sellers; the route is then chosen.
Mark(s) ==
    /\ ~wedged
    /\ pc[s] \in {"mark", "pmark"}
    /\ LET g == job[s].group
       IN  IF Sellable(pos[g])
           THEN /\ pos' = [pos EXCEPT ![g] = MarkSelling(@)]
                /\ \E viaPump \in {FALSE, Route = "Pumpfun"} :
                      Goto(s, IF pc[s] = "mark" THEN "send" ELSE "psend",
                           [job[s] EXCEPT !.pump = viaPump])
           ELSE Rest(s) /\ UNCHANGED pos
    /\ UNCHANGED <<age, buyVars, fb, wedged, queue, chainVars, cacheVars, abandoned>>

\* The end of a cycle without a confirmed sell.
Fails(s, j) == Goto(s, "giveup", [j EXCEPT !.tx = "none"])

\* The next try of the retry loop, or the end of it; after an error on chain
\* there is no next try.
NextTry(s, j) ==
    IF j.try < Tries /\ ~j.erred
    THEN Goto(s, "send", [j EXCEPT !.try = @ + 1, !.fallback = FALSE, !.tx = "none"])
    ELSE Fails(s, j)

\* Pump.fun falls back to Jupiter once per try.
MayFallBack(j) == j.pump /\ ~j.fallback

\* try_pumpfun_sell or try_jupiter_sell: the transaction goes out, or it could
\* not be built or sent.
Send(s) ==
    /\ pc[s] = "send"
    /\ LET j == job[s]
       IN  \/ Goto(s, "wait", [j EXCEPT !.tx = "pending"])
           \/ MayFallBack(j) /\ Goto(s, "send", [j EXCEPT !.fallback = TRUE])
           \/ ~MayFallBack(j) /\ NextTry(s, j)
    /\ UNCHANGED <<mapVars, buyVars, fb, wedged, queue, chainVars, cacheVars, abandoned>>

\* Mutant: a sell counts as confirmed when the balance has not grown.
ConfirmedIfNotMore(j) == \E b \in cache \cup SnapshotBalance : b <= j.expect + j.tokens

\* What wait_sell_confirm takes for a completed sell: any balance at or below
\* the expected one, in the cache or in an answer.
Confirmed(j) == \E b \in cache \cup SnapshotBalance : b <= j.expect

\* The sell is taken as confirmed, or its failure on chain is seen, or the
\* time is up.  A transaction nobody waits for any more may still land.
WaitConfirm(s) ==
    /\ pc[s] = "wait"
    /\ LET j == job[s]
       IN  \/ Confirmed(j) /\ Goto(s, "close", [j EXCEPT !.tx = "none"])
           \/ /\ j.tx = "failed"
              /\ IF MayFallBack(j)
                 THEN Goto(s, "send", [j EXCEPT !.fallback = TRUE, !.erred = TRUE, !.tx = "none"])
                 ELSE Fails(s, j)
           \/ NextTry(s, j)
    /\ abandoned' = IF job[s].tx = "pending"
                    THEN abandoned \cup {<<job[s].group, job[s].tokens>>} ELSE abandoned
    /\ UNCHANGED <<mapVars, buyVars, fb, wedged, queue, chainVars, cacheVars>>

CloseSold(s) ==
    /\ ~wedged
    /\ pc[s] = "close"
    /\ pos' = [pos EXCEPT ![job[s].group] = MarkClosed(@)]
    /\ Goto(s, "cleanup", NoJob)
    /\ UNCHANGED <<age, buyVars, fb, wedged, queue, chainVars, cacheVars, abandoned>>

\* cleanup_mint_if_unused: without an open position of the mint the cached
\* balance and the subscription go.
CleanupMint(s) ==
    /\ ~wedged
    /\ pc[s] = "cleanup"
    /\ IF OpenCount = 0 THEN cache' = {} /\ tracked' = FALSE ELSE UNCHANGED cacheVars
    /\ Rest(s)
    /\ UNCHANGED <<mapVars, buyVars, fb, wedged, queue, chainVars, abandoned>>

\* The cycle failed: the state read at its beginning is written back.
GiveUp(s) ==
    /\ ~wedged
    /\ pc[s] = "giveup"
    /\ LET j == job[s]
       IN  pos' = [pos EXCEPT ![j.group] =
                     Restore(@, j.prev, ~j.manual /\ CapReached(j.group))]
    /\ Rest(s)
    /\ UNCHANGED <<age, buyVars, fb, wedged, queue, chainVars, cacheVars, abandoned>>

\* handle_partial_sell: sent, and booked at once without waiting for the chain.
\* An external position has no snapshot to sell a part with.
SendPartial(s) ==
    /\ ~wedged
    /\ pc[s] = "psend"
    /\ LET j == job[s]
       IN  \/ /\ Route = "Pumpfun"
              /\ pos' = [pos EXCEPT ![j.group] = ApplyPartial(@, j.tokens)]
              /\ abandoned' = abandoned \cup {<<j.group, j.tokens>>}
           \/ /\ pos' = [pos EXCEPT ![j.group] = Restore(@, j.prev, FALSE)]
              /\ UNCHANGED abandoned
    /\ Rest(s)
    /\ UNCHANGED <<age, buyVars, fb, wedged, queue, chainVars, cacheVars>>

-----------------------------------------------------------------------------

Init ==
    /\ pos = [g \in Groups |-> NoPos]
    /\ age = [g \in Groups |-> Young]
    /\ buy = [g \in Groups |-> "none"]
    /\ conf = [g \in Groups |-> NoTask]
    /\ fb = {}
    /\ wedged = FALSE
    /\ queue = <<>>
    /\ pc = [s \in Sellers |-> "idle"]
    /\ job = [s \in Sellers |-> NoJob]
    /\ bal = 0 /\ feed = <<>> /\ sold = [g \in Groups |-> 0]
    /\ cache = {} /\ tracked = FALSE
    /\ abandoned = {}

BuyStep(g) == PrepareBuy(g) \/ SubmitBuy(g) \/ LandBuy(g) \/ Age(g)

ConfirmStep(g) == SeeIncrease(g) \/ ConfirmSuccess(g) \/ ConfirmFailure(g)

MonitorStep(g) ==
    PriceSignal(g) \/ HoldSignal(g) \/ SellAll(g) \/ FallbackRead(g) \/ Forget(g)

SellStep(s) ==
    \/ SkipZero(s) \/ DropZero(s) \/ Mark(s) \/ Send(s) \/ WaitConfirm(s)
    \/ CloseSold(s) \/ CleanupMint(s) \/ GiveUp(s) \/ SendPartial(s)

Next ==
    \/ \E g \in Groups : \/ BuyStep(g) \/ ConfirmStep(g) \/ MonitorStep(g)
                         \/ SellButton(g) \/ PartialButton(g)
    \/ \E s \in Sellers : SellStep(s) \/ LandSell(s)
    \/ FallbackAct
    \/ "exec" \in Sellers /\ TakeSignal
    \/ LandAbandoned \/ CacheUpdate

Spec == Init /\ [][Next]_vars

\* The tasks keep running and time passes; the chain and the users owe nothing.
Fairness ==
    /\ \A g \in Groups : /\ WF_vars(Age(g))
                         /\ WF_vars(ConfirmSuccess(g))
                         /\ WF_vars(ConfirmFailure(g))
                         /\ WF_vars(FallbackRead(g))
    /\ \A s \in Sellers : WF_vars(SellStep(s))
    /\ WF_vars(FallbackAct)
    /\ WF_vars("exec" \in Sellers /\ TakeSignal)

FairSpec == Spec /\ Fairness

-----------------------------------------------------------------------------
(* Properties                                                               *)

InSection(s) == pc[s] \in {"send", "wait", "close", "giveup", "psend"}

Labels == {"idle", "skip", "drop", "mark", "pmark", "send", "wait",
           "close", "cleanup", "giveup", "psend"}

\* Every variable keeps its shape.
TypeOK ==
    /\ pos \in [Groups -> Position]
    /\ age \in [Groups -> Young..PastRetention]
    /\ buy \in [Groups -> {"none", "prepared", "pending", "landed", "failed"}]
    /\ conf \in [Groups -> Task]
    /\ fb \subseteq [group : Groups, balance : Nat]
    /\ wedged \in BOOLEAN
    /\ queue \in Seq(Groups \X BOOLEAN)
    /\ pc \in [Sellers -> Labels]
    /\ job \in [Sellers -> Job]
    /\ bal \in Nat /\ feed \in Seq(Nat) /\ sold \in [Groups -> Nat]
    /\ cache \subseteq Nat /\ tracked \in BOOLEAN
    /\ abandoned \subseteq Groups \X Nat

\* mark_selling is the only gate between the executor's task and the bot's:
\* no two of them are ever selling the same position.
SellMutex ==
    \A s, t \in Sellers :
        s # t /\ InSection(s) /\ InSection(t) => job[s].group # job[t].group

\* A closed position is never reopened: no late confirmation, failed sell or
\* partial sale brings it back (position.rs, mark_closed).
ClosedStaysClosed ==
    [][\A g \in Groups : pos[g].state = "Closed" =>
                            pos'[g].state \in {"Closed", "Failed", "none"}]_vars

\* "Selling -> Closed: the sell succeeded" (position.rs, mark_closed): the
\* tokens of a closed position have been sold on chain.
ClosedMeansSold ==
    \A g \in Groups : pos[g].state = "Closed" => sold[g] = Lot

\* "Selling: the sell is being executed" (position.rs): some seller is at work
\* on a position that says so.
SellingHasSeller ==
    \A g \in Groups : pos[g].state = "Selling" =>
        \E s \in Sellers : InSection(s) /\ job[s].group = g

\* "Active: confirmed" (position.rs): a position is only Active once its buy
\* was confirmed.
ActiveWasConfirmed ==
    \A g \in Groups : pos[g].state = "Active" => conf[g].at = "confirmed"

\* "Auto-sell suspended after repeated failures" (manager.rs, suspend_auto_sell):
\* from the attempt cap on, no rule of the monitors puts the position on sale.
SuspendedStaysQuiet ==
    [][\A g \in Groups :
          CapReached(g) => \/ Len(queue') <= Len(queue)
                           \/ queue'[Len(queue')] # <<g, FALSE>>]_vars

\* A buy that was reported as confirmed has an Active position at that moment.
AnnouncedBuyIsActive ==
    [][\A g \in Groups : conf[g].at # "confirmed" /\ conf'[g].at = "confirmed"
                            => pos'[g].state # "Failed"]_vars

\* What PositionDiagram sees of it: each position's state, and the sellers between
\* mark_selling and the end of their cycle.
Shown   == [g \in Groups |-> pos[g].state]
Holders == [g \in Groups |-> {s \in Sellers : InSection(s) /\ job[s].group = g}]

Diagram == INSTANCE PositionDiagram WITH state <- Shown, held <- Holders

\* Whatever the tasks do to the map, a position takes only the arrows of its
\* diagram, and those around Selling only for the seller that holds it.
KeepsDiagram == Diagram!Spec

\* A sell cycle comes to an end (unless the map is wedged).
SellingEnds ==
    \A g \in Groups : pos[g].state = "Selling" ~> (pos[g].state # "Selling" \/ wedged)

\* A position does not wait for its confirmation for ever.
ConfirmingEnds ==
    \A g \in Groups : pos[g].state = "Confirming" ~> (pos[g].state # "Confirming" \/ wedged)

\* "Fallback: confirm submitted positions if gRPC missed ATA update"
\* (PROJECT_SEQUENCE.md): a confirm check the fallback monitor starts comes to
\* its end.
FallbackFinishes == fb # {} ~> fb = {}
=============================================================================
