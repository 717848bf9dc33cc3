---------------------------- MODULE TradeStream ----------------------------
(***************************************************************************)
(* The subscription to the trades of the followed wallets                  *)
(* (GrpcSubscriber in src/src/grpc/subscriber.rs and its tasks in main.rs): *)
(* one task copies the wallets of all the groups to the subscriber five    *)
(* times a second and wakes whoever waits for it, another connects, asks   *)
(* for the wallets' transactions, asks again when the wallets change, parses *)
(* what comes and reconnects two seconds after the stream ended.           *)
(***************************************************************************)
EXTENDS TradeParser

CONSTANTS
    Txs,                \* transactions the wallets may send
    MaxChanges,         \* bound: changes of the followed wallets
    MaxFails,           \* bound: connections and requests that fail
    MaxTrades           \* bound: updates delivered

ASSUME TxsAssumption    == \A t \in Txs : t \in Tx /\ Plausible(t)
ASSUME BoundsAssumption == MaxChanges \in Nat /\ MaxFails \in Nat /\ MaxTrades \in Nat

VARIABLES
    followed,           \* GroupManager::all_target_wallets
    targets,            \* target_wallets of the subscriber
    at,                 \* where subscribe() and its loop in main are
    woken,              \* the Notified it waits on was notified
    last,               \* last_wallets: those of the last request that was sent
    asked,              \* external: the wallets the server filters by
    tx,                 \* external: the transaction on its way
    trades,             \* what was sent to the trade loop
    missed,             \* history variable: a notification found nobody waiting
    delivered, changes, fails       \* what the bounds count

streamVars == <<at, woken, last, asked>>
bounds     == <<delivered, changes, fails>>
vars == <<followed, targets, streamVars, tx, trades, missed, bounds>>

Init ==
    /\ followed \in SUBSET Wallets /\ targets = followed
    /\ at = "start" /\ woken = FALSE
    /\ last = {} /\ asked = {}
    /\ tx \in Txs
    /\ trades = <<>> /\ missed = FALSE
    /\ delivered = 0 /\ changes = 0 /\ fails = 0

\* The operator changes the wallets of a group, or adds or deletes one: a disabled
\* group's wallets are followed as well.
Edit ==
    /\ changes < MaxChanges
    /\ \E w \in SUBSET Wallets : w # followed /\ followed' = w
    /\ changes' = changes + 1
    /\ UNCHANGED <<targets, streamVars, tx, trades, missed, delivered, fails>>

\* update_target_wallets: notify_waiters wakes those who wait and nobody else.
Sync ==
    /\ followed # targets
    /\ targets' = followed
    /\ woken' = (woken \/ at = "waiting")
    /\ missed' = (missed \/ at = "looked")
    /\ UNCHANGED <<followed, at, last, asked, tx, trades, bounds>>

-----------------------------------------------------------------------------
(* subscribe()                                                              *)

Move(from, to) == at = from /\ at' = to

\* The loop looks for wallets before it waits for some.
Look ==
    /\ Move("start", IF targets = {} THEN "looked" ELSE "found")
    /\ UNCHANGED <<followed, targets, woken, last, asked, tx, trades, missed, bounds>>

Wait ==
    /\ Move("looked", "waiting")
    /\ woken' = FALSE
    /\ UNCHANGED <<followed, targets, last, asked, tx, trades, missed, bounds>>

Woken ==
    /\ woken /\ Move("waiting", "start")
    /\ UNCHANGED <<followed, targets, woken, last, asked, tx, trades, missed, bounds>>

TakeWallets ==
    /\ Move("found", "connecting")
    /\ last' = targets
    /\ UNCHANGED <<followed, targets, woken, asked, tx, trades, missed, bounds>>

Connect ==
    /\ Move("connecting", "streaming")
    /\ asked' = last
    /\ UNCHANGED <<followed, targets, woken, last, tx, trades, missed, bounds>>

\* The connection cannot be made, or the stream ends or fails.
Disconnect ==
    /\ at \in {"connecting", "streaming"}
    /\ fails < MaxFails /\ fails' = fails + 1
    /\ at' = "sleeping"
    /\ UNCHANGED <<followed, targets, woken, last, asked, tx, trades, missed, delivered, changes>>

Reconnect ==
    /\ Move("sleeping", "start")
    /\ UNCHANGED <<followed, targets, woken, last, asked, tx, trades, missed, bounds>>

\* Mutant: the request is sent again when the number of wallets changes.
ResubscribeByCount ==
    /\ at = "streaming" /\ (targets = {}) # (last = {})
    /\ last' = targets /\ asked' = targets
    /\ UNCHANGED <<followed, targets, at, woken, tx, trades, missed, bounds>>

\* The tick and the notification do the same; last_wallets follows only a
\* request that was sent.
Resubscribe ==
    /\ at = "streaming" /\ targets # last
    /\ last' = targets /\ asked' = targets
    /\ UNCHANGED <<followed, targets, at, woken, tx, trades, missed, bounds>>

\* The server's side of it is gone; the loop goes on.
ResubscribeFails ==
    /\ at = "streaming" /\ targets # last
    /\ fails < MaxFails /\ fails' = fails + 1
    /\ UNCHANGED <<followed, targets, streamVars, tx, trades, missed, delivered, changes>>

Members(seq) == {seq[n] : n \in DOMAIN seq}

\* A request without wallets filters nothing.
Passes(landed) == asked = {} \/ Members(Keys(tx, landed)) \cap asked # {}

\* The transaction is reported, before it is executed or once it has landed, and
\* parsed with the wallets of the moment.
Deliver(landed) ==
    /\ at = "streaming" /\ delivered < MaxTrades /\ delivered' = delivered + 1
    /\ Passes(landed)
    /\ LET trade == Parse(tx, landed, targets)
       IN  trades' = IF trade = NoTrade THEN trades ELSE Append(trades, trade)
    /\ UNCHANGED <<followed, targets, streamVars, tx, missed, changes, fails>>

Subscribe == Look \/ Wait \/ Woken \/ TakeWallets \/ Connect \/ Reconnect

Next ==
    \/ Edit \/ Sync \/ Subscribe \/ Disconnect
    \/ Resubscribe \/ ResubscribeFails
    \/ \E landed \in BOOLEAN : Deliver(landed)

Spec == Init /\ [][Next]_vars

\* The two tasks go on, and a connection that is tried comes about.
FairSpec == Spec /\ WF_vars(Sync) /\ WF_vars(Subscribe) /\ WF_vars(Resubscribe)

-----------------------------------------------------------------------------
(* Properties                                                               *)

TypeOK ==
    /\ followed \subseteq Wallets /\ targets \subseteq Wallets
    /\ last \subseteq Wallets /\ asked \subseteq Wallets
    /\ at \in {"start", "looked", "waiting", "found", "connecting", "streaming", "sleeping"}
    /\ woken \in BOOLEAN /\ missed \in BOOLEAN
    /\ tx \in Txs /\ trades \in Seq(Trade)
    /\ delivered \in Nat /\ changes \in Nat /\ fails \in Nat

\* The program ends up subscribed to exactly the wallets the groups follow, after
\* any changes, lost connections and failed requests; unless the wallets came
\* just as it had found none and was about to wait for some.
WalletsFollowed ==
    <>[](\/ missed
         \/ followed = {}
         \/ at = "streaming" /\ asked = followed)

\* As main announces it, a changed wallet set is taken over while the program
\* runs.
HotReload == <>[](followed = {} \/ (at = "streaming" /\ asked = followed))

\* A venue outside pump.fun is reported only if nothing of the transaction that
\* could be seen calls pump.fun.
InternalFirst ==
    \A n \in DOMAIN trades :
        trades[n].venue # "pump" =>
            /\ Calls(tx.outer, Internal) = {}
            /\ trades[n].pre => ~(tx.pumpKey /\ tx.curve)
            /\ ~trades[n].pre => Calls(tx.inner, Internal) = {}

\* A report that names the mint and a token program names the mint's program: later
\* the wallet's token account is derived from the two.  Of pump.fun and of Raydium
\* CPMM this only holds of a purchase that has landed.
ProgramOfMint ==
    \A n \in DOMAIN trades :
        LET trade == trades[n]
            landedBuy == trade.buy /\ ~trade.pre
        IN  trade.mint = "token" /\ (trade.venue \in {"pump", "cpmm"} => landedBuy)
                => trade.program \in {"none", tx.token}

\* The same of every pump.fun trade that has landed, a sale included, which has its
\* token program one place further on.
PumpProgramOfMint ==
    \A n \in DOMAIN trades :
        trades[n].mint = "token" /\ trades[n].venue = "pump" /\ ~trades[n].pre
            => trades[n].program \in {"none", tx.token}
=============================================================================
