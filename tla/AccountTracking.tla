---------------------------- MODULE AccountTracking ----------------------------
(***************************************************************************)
(* The accounts the program follows and what it knows of them              *)
(* (grpc/account_subscriber.rs): for each mint its bonding curve and its   *)
(* wallet account.  Tasks that warm the caches for a buy track accounts    *)
(* and fetch the curve once; a seller that closed a mint's last position   *)
(* and a pruning task untrack them; one task keeps the subscription of     *)
(* the stream up to date and writes what it delivers into the caches.      *)
(*                                                                         *)
(* The maps are concurrent: each operation on one of them is a step, and   *)
(* the tasks interleave between any two.  Steps that nothing can tell      *)
(* apart from one step are one.  A cache is the set of mints it holds.     *)
(***************************************************************************)
EXTENDS Naturals, FiniteSets

CONSTANTS
    Mints,
    Kinds,              \* {"curve", "ata"}: the accounts of a mint that are tracked
    Warmers,            \* tasks that prepare buys
    Cleaners,           \* among the two sellers, "exec" and "tg", and "pruner"
    MaxWarms            \* bound: buys prepared in one behaviour

ASSUME KindsAssumption    == "ata" \in Kinds /\ Kinds \subseteq {"curve", "ata"}
ASSUME MintsAssumption    == IsFiniteSet(Mints) /\ Mints # {}
ASSUME TasksAssumption    == Warmers \cap Cleaners = {}
ASSUME CleanersAssumption == Cleaners \subseteq {"exec", "tg", "pruner"}
ASSUME BoundAssumption    == MaxWarms \in Nat

Account == Mints \X Kinds

VARIABLES
    mapped,         \* keys of bonding_curve_to_mint and ata_to_mint
    listed,         \* subscribed_accounts
    touched,        \* mint_last_touched: absent, recent, or longer than the TTL ago
    curves,         \* bc_cache
    balances,       \* ata_cache
    claimed,        \* bc_fetches: mints whose curve is being fetched
    calls,          \* mint -> fetch requests under way
    open,           \* mints with an open position
    at, mint,       \* where each warming or cleaning task is, and on which mint
    kind,           \* which account of the mint it is at
    found,          \* the cleaner's account was in its map
    todo,           \* mints the pruner has found stale
    busy,           \* accounts whose update is being handled (map entries locked)
    link,           \* the subscription task
    permit,         \* subscription_notify holds a permit
    asked, count,   \* accounts of the request, and how many they were
    filter,         \* accounts the server sends updates of
    removed, lost,  \* history: since asked, an account was removed; a request was lost
    warms           \* buys prepared so far

mapVars   == <<mapped, listed, touched>>
cacheVars == <<curves, balances>>
fetchVars == <<claimed, calls>>
taskVars  == <<at, mint, kind, found, todo>>
linkVars  == <<link, permit, asked, count, filter, removed, lost>>
vars == <<mapVars, cacheVars, fetchVars, taskVars, linkVars, open, busy, warms>>

Tasks == Warmers \cup Cleaners

Sellers == Cleaners \ {"pruner"}

Goto(p, label) == at' = [at EXCEPT ![p] = label]

\* The account a task is at; an external buy has only the wallet's.
Its(p) == <<mint[p], IF kind[p] = "curve" THEN "curve" ELSE "ata">>

\* Both tracking and untracking begin with the curve, if it is followed at all.
FirstKind == IF "curve" \in Kinds THEN "curve" ELSE "ata"

-----------------------------------------------------------------------------
(* warm_buy_caches: track_bonding_curve, track_ata, ensure_bonding_curve_fetch; *)
(* execute_external_buy: track_ata                                            *)

Warm(p, m) ==
    /\ at[p] = "idle"
    /\ warms < MaxWarms
    /\ warms' = warms + 1
    /\ mint' = [mint EXCEPT ![p] = m]
    /\ \E k \in {FirstKind, "external"} : kind' = [kind EXCEPT ![p] = k]
    /\ Goto(p, "map")
    /\ UNCHANGED <<mapVars, cacheVars, fetchVars, linkVars, found, todo, open, busy>>

\* The account enters its map, under the lock of the entry.
Map(p) ==
    /\ at[p] = "map"
    /\ Its(p) \notin busy
    /\ mapped' = mapped \cup {Its(p)}
    /\ Goto(p, "touch")
    /\ UNCHANGED <<listed, touched, cacheVars, fetchVars, linkVars, mint, kind, found, todo,
                   open, busy, warms>>

Touch(p) ==
    /\ at[p] = "touch"
    /\ touched' = [touched EXCEPT ![mint[p]] = "recent"]
    /\ Goto(p, "list")
    /\ UNCHANGED <<mapped, listed, cacheVars, fetchVars, linkVars, mint, kind, found, todo,
                   open, busy, warms>>

\* Mutant: the notification is lost when nobody waits for it.
NotifyWaiting == link = "parked"

\* notify_one: without a waiter the permit is kept.
Notify == TRUE

\* The account enters the list and the subscription task is notified.  After the
\* curve comes the wallet account, then the fetch; an external buy is sent.
List(p) ==
    /\ at[p] = "list"
    /\ Its(p) \notin busy
    /\ listed' = listed \cup {Its(p)}
    /\ permit' = (permit \/ Notify)
    /\ kind' = [kind EXCEPT ![p] = "ata"]
    /\ Goto(p, [curve |-> "map", ata |-> "ensure", external |-> "send"][kind[p]])
    /\ UNCHANGED <<mapped, touched, cacheVars, fetchVars, link, asked, count, filter,
                   removed, lost, mint, found, todo, open, busy, warms>>

\* A fetch is needed if the curve is not cached; nothing is locked yet.  A buy
\* looks again, once or more, before it is sent.
Ensure(p) ==
    /\ at[p] = "ensure"
    /\ Goto(p, IF mint[p] \in curves THEN "send" ELSE "claim")
    /\ UNCHANGED <<mapVars, cacheVars, fetchVars, linkVars, mint, kind, found, todo, open,
                   busy, warms>>

\* Mutant: whoever found the curve missing fetches it.
MayFetchAlways(m) == TRUE

MayFetch(m) == m \notin claimed

ClaimFetch(p) ==
    /\ at[p] = "claim"
    /\ IF MayFetch(mint[p])
       THEN /\ claimed' = claimed \cup {mint[p]}
            /\ calls' = [calls EXCEPT ![mint[p]] = @ + 1]
       ELSE UNCHANGED fetchVars
    /\ \E next \in {"ensure", "sync", "send"} : Goto(p, next)
    /\ UNCHANGED <<mapVars, cacheVars, linkVars, mint, kind, found, todo, open, busy, warms>>

\* A buy that still has no curve fetches it itself, or fails to.
SyncFetch(p) ==
    /\ at[p] = "sync"
    /\ curves' \in {curves, curves \cup {mint[p]}}
    /\ Goto(p, "send")
    /\ UNCHANGED <<mapVars, balances, fetchVars, linkVars, mint, kind, found, todo, open,
                   busy, warms>>

\* The buy is sent and its position added, or it is not sent.
Send(p) ==
    /\ at[p] = "send"
    /\ open' \in {open, open \cup {mint[p]}}
    /\ Goto(p, "idle")
    /\ UNCHANGED <<mapVars, cacheVars, fetchVars, linkVars, mint, kind, found, todo, busy,
                   warms>>

\* Mutant: only a successful fetch releases its claim.
FetchFailsKept(m) ==
    /\ calls' = [calls EXCEPT ![m] = @ - 1]
    /\ UNCHANGED claimed

FetchFails(m) ==
    /\ calls' = [calls EXCEPT ![m] = @ - 1]
    /\ claimed' = claimed \ {m}

\* The answer is cached, whatever the stream has delivered meanwhile and whether
\* or not the mint is still tracked.
FetchReply(m) ==
    /\ calls[m] > 0
    /\ curves' = curves \cup {m}
    /\ calls' = [calls EXCEPT ![m] = @ - 1]
    /\ claimed' = claimed \ {m}
    /\ UNCHANGED <<mapVars, balances, taskVars, linkVars, open, busy, warms>>

FetchError(m) ==
    /\ calls[m] > 0
    /\ FetchFails(m)
    /\ UNCHANGED <<mapVars, cacheVars, taskVars, linkVars, open, busy, warms>>

-----------------------------------------------------------------------------
(* cleanup_mint_if_unused, prune_stale_candidate_mints and untrack_mint      *)

\* A position of the mint is closed (its group may not be the only one to hold
\* the mint), and its seller counts those left.
ClosePosition(c, m) ==
    /\ at[c] = "idle"
    /\ m \in open
    /\ open' \in {open, open \ {m}}
    /\ mint' = [mint EXCEPT ![c] = m]
    /\ Goto(c, "count")
    /\ UNCHANGED <<mapVars, cacheVars, fetchVars, linkVars, kind, found, todo, busy, warms>>

CountOpen(c) ==
    /\ at[c] = "count"
    /\ IF mint[c] \in open
       THEN Goto(c, "idle") /\ UNCHANGED <<balances, kind>>
       ELSE /\ Goto(c, "find")
            /\ kind' = [kind EXCEPT ![c] = FirstKind]
            /\ balances' = balances \ {mint[c]}
    /\ UNCHANGED <<mapVars, curves, fetchVars, linkVars, mint, found, todo, open, busy, warms>>

\* The idle time of a mint passes the TTL.
GoStale(m) ==
    /\ touched[m] = "recent"
    /\ touched' = [touched EXCEPT ![m] = "stale"]
    /\ UNCHANGED <<mapped, listed, cacheVars, fetchVars, taskVars, linkVars, open, busy, warms>>

FindStale ==
    /\ "pruner" \in Cleaners
    /\ at["pruner"] = "idle"
    /\ todo = {}
    /\ todo' = {m \in Mints : touched[m] = "stale" /\ m \notin open}
    /\ todo' # {}
    /\ UNCHANGED <<mapVars, cacheVars, fetchVars, linkVars, at, mint, kind, found, open, busy,
                   warms>>

PruneNext(m) ==
    /\ "pruner" \in Cleaners
    /\ at["pruner"] = "idle"
    /\ m \in todo
    /\ todo' = todo \ {m}
    /\ mint' = [mint EXCEPT !["pruner"] = m]
    /\ kind' = [kind EXCEPT !["pruner"] = FirstKind]
    /\ Goto("pruner", "find")
    /\ UNCHANGED <<mapVars, cacheVars, fetchVars, linkVars, found, open, busy, warms>>

\* Mutant: an update is handled without keeping the entries it looked up.
FreeAlways(a) == TRUE

\* An entry that is being read by handle_account_update cannot be written.
Free(a) == a \notin busy

\* untrack_mint looks for the account of the mint in a map and, if it is there,
\* removes it from the map and from the list, first the curve and then the wallet
\* account.  Each look and each removal is a step.
Find(c) ==
    /\ at[c] = "find"
    /\ found' = [found EXCEPT ![c] = Its(c) \in mapped]
    /\ Goto(c, "unmap")
    /\ UNCHANGED <<mapVars, cacheVars, fetchVars, linkVars, mint, kind, todo, open, busy,
                   warms>>

Unmap(c) ==
    /\ at[c] = "unmap"
    /\ found[c] => Free(Its(c))
    /\ mapped' = IF found[c] THEN mapped \ {Its(c)} ELSE mapped
    /\ Goto(c, "unlist")
    /\ UNCHANGED <<listed, touched, cacheVars, fetchVars, linkVars, mint, kind, found, todo,
                   open, busy, warms>>

Unlist(c) ==
    /\ at[c] = "unlist"
    /\ found[c] => Free(Its(c))
    /\ listed' = IF found[c] THEN listed \ {Its(c)} ELSE listed
    /\ removed' = (removed \/ listed' # listed)
    /\ kind' = [kind EXCEPT ![c] = "ata"]
    /\ Goto(c, IF kind[c] = "curve" THEN "find" ELSE "uncache")
    /\ UNCHANGED <<mapped, touched, cacheVars, fetchVars, link, permit, asked, count, filter,
                   lost, mint, found, todo, open, busy, warms>>

Uncache(c) ==
    /\ at[c] = "uncache"
    /\ curves' = curves \ {mint[c]}
    /\ balances' = balances \ {mint[c]}
    /\ Goto(c, "untouch")
    /\ UNCHANGED <<mapVars, fetchVars, linkVars, mint, kind, found, todo, open, busy, warms>>

Untouch(c) ==
    /\ at[c] = "untouch"
    /\ touched' = [touched EXCEPT ![mint[c]] = "absent"]
    /\ Goto(c, "idle")
    /\ UNCHANGED <<mapped, listed, cacheVars, fetchVars, linkVars, mint, kind, found, todo,
                   open, busy, warms>>

-----------------------------------------------------------------------------
(* subscribe and handle_account_update                                       *)

\* The task looks at the list; when it is empty it waits for a notification.
LookAtList ==
    /\ link = "idle"
    /\ link' = IF listed = {} THEN "parking" ELSE "asking"
    /\ UNCHANGED <<mapVars, cacheVars, fetchVars, taskVars, permit, asked, count, filter,
                   removed, lost, open, busy, warms>>

\* It reads the accounts for its request; by now there may be none.
Ask ==
    /\ link = "asking"
    /\ link' = "connecting"
    /\ asked' = listed
    /\ removed' = FALSE /\ lost' = FALSE
    /\ UNCHANGED <<mapVars, cacheVars, fetchVars, taskVars, permit, count, filter, open, busy,
                   warms>>

Park ==
    /\ link = "parking"
    /\ ~permit
    /\ link' = "parked"
    /\ UNCHANGED <<mapVars, cacheVars, fetchVars, taskVars, permit, asked, count, filter,
                   removed, lost, open, busy, warms>>

WakeUp ==
    /\ link \in {"parking", "parked"}
    /\ permit
    /\ permit' = FALSE
    /\ link' = "idle"
    /\ UNCHANGED <<mapVars, cacheVars, fetchVars, taskVars, asked, count, filter,
                   removed, lost, open, busy, warms>>

\* The server has the request; the count is that of the accounts in it.
Connect ==
    /\ link = "connecting"
    /\ link' = "live"
    /\ filter' = asked
    /\ count' = Cardinality(asked)
    /\ UNCHANGED <<mapVars, cacheVars, fetchVars, taskVars, permit, asked, removed, lost, open,
                   busy, warms>>

\* The connection fails or the stream ends; the caller starts again.
Disconnect ==
    /\ link \in {"connecting", "live"}
    /\ busy = {}
    /\ link' = "idle"
    /\ filter' = {}
    /\ UNCHANGED <<mapVars, cacheVars, fetchVars, taskVars, permit, asked, count, removed, lost,
                   open, busy, warms>>

\* Every 200 ms: a new request if the number of accounts has changed.  When it
\* cannot be sent the error is logged and the number kept all the same.
Resubscribe ==
    /\ link = "live"
    /\ busy = {}
    /\ Cardinality(listed) # count
    /\ count' = Cardinality(listed)
    /\ \/ filter' = listed /\ UNCHANGED lost
       \/ lost' = TRUE /\ UNCHANGED filter
    /\ UNCHANGED <<mapVars, cacheVars, fetchVars, taskVars, link, permit, asked, removed,
                   open, busy, warms>>

\* An update of an account arrives: its entries of the list and of the map are
\* looked up and stay locked until the cache is written.
TakeUpdate(a) ==
    /\ link = "live"
    /\ busy = {}
    /\ a \in filter
    /\ a \in listed /\ a \in mapped
    /\ busy' = {a}
    /\ UNCHANGED <<mapVars, cacheVars, fetchVars, taskVars, linkVars, open, warms>>

WriteUpdate ==
    /\ \E a \in busy : IF a[2] = "curve"
                       THEN curves' = curves \cup {a[1]} /\ UNCHANGED balances
                       ELSE balances' = balances \cup {a[1]} /\ UNCHANGED curves
    /\ busy' = {}
    /\ UNCHANGED <<mapVars, fetchVars, taskVars, linkVars, open, warms>>

-----------------------------------------------------------------------------

Init ==
    /\ mapped = {} /\ listed = {} /\ touched = [m \in Mints |-> "absent"]
    /\ curves = {} /\ balances = {}
    /\ claimed = {} /\ calls = [m \in Mints |-> 0]
    /\ open = {}
    /\ at = [p \in Tasks |-> "idle"]
    /\ mint = [p \in Tasks |-> CHOOSE m \in Mints : TRUE] /\ kind = [p \in Tasks |-> "ata"]
    /\ found = [c \in Cleaners |-> FALSE] /\ todo = {}
    /\ busy = {}
    /\ link = "idle" /\ permit = FALSE
    /\ asked = {} /\ count = 0 /\ filter = {}
    /\ removed = FALSE /\ lost = FALSE
    /\ warms = 0

WarmStep(p) ==
    \/ Map(p) \/ Touch(p) \/ List(p)
    \/ Ensure(p) \/ ClaimFetch(p) \/ SyncFetch(p) \/ Send(p)

Untrack(c) == Find(c) \/ Unmap(c) \/ Unlist(c) \/ Uncache(c) \/ Untouch(c)

MintStep(m) == GoStale(m) \/ PruneNext(m) \/ FetchReply(m) \/ FetchError(m)

LinkStep ==
    \/ LookAtList \/ Ask \/ Park \/ WakeUp \/ Connect \/ Disconnect \/ Resubscribe
    \/ (\E a \in Account : TakeUpdate(a)) \/ WriteUpdate

Next ==
    \/ \E p \in Warmers : WarmStep(p) \/ \E m \in Mints : Warm(p, m)
    \/ \E c \in Cleaners : Untrack(c)
    \/ \E m \in Mints : MintStep(m)
    \/ \E c \in Sellers : CountOpen(c) \/ \E m \in Mints : ClosePosition(c, m)
    \/ FindStale
    \/ LinkStep

Spec == Init /\ [][Next]_vars

\* The subscription task runs and the server answers in the end; a request for a
\* curve is answered or fails.
Fairness ==
    /\ WF_vars(LookAtList) /\ WF_vars(Ask) /\ WF_vars(WakeUp) /\ WF_vars(WriteUpdate)
    /\ SF_vars(Connect) /\ SF_vars(Resubscribe)
    /\ \A m \in Mints : WF_vars(FetchReply(m) \/ FetchError(m))

FairSpec == Spec /\ Fairness

-----------------------------------------------------------------------------
(* Properties                                                               *)

Labels == {"idle", "map", "touch", "list", "ensure", "claim", "sync", "send",
           "count", "find", "unmap", "unlist", "uncache", "untouch"}

\* Every variable keeps its shape; a counter of requests never goes below zero.
TypeOK ==
    /\ mapped \subseteq Account /\ listed \subseteq Account
    /\ touched \in [Mints -> {"absent", "recent", "stale"}]
    /\ curves \subseteq Mints /\ balances \subseteq Mints
    /\ claimed \subseteq Mints /\ calls \in [Mints -> Nat]
    /\ open \subseteq Mints
    /\ at \in [Tasks -> Labels] /\ mint \in [Tasks -> Mints]
    /\ kind \in [Tasks -> Kinds \cup {"external"}]
    /\ found \in [Cleaners -> BOOLEAN] /\ todo \subseteq Mints
    /\ busy \subseteq Account
    /\ link \in {"idle", "parking", "parked", "asking", "connecting", "live"}
    /\ permit \in BOOLEAN /\ removed \in BOOLEAN /\ lost \in BOOLEAN
    /\ asked \subseteq Account /\ filter \subseteq Account
    /\ count \in Nat /\ warms \in Nat

\* A cleaner that has taken the mint's wallet account out of its map and has the
\* mint's caches still to empty.
AboutToUncache(c, m) ==
    /\ mint[c] = m
    /\ \/ at[c] = "unlist" /\ kind[c] # "curve"
       \/ at[c] = "uncache"

\* A cached balance is one the stream keeps up to date: no update that was being
\* handled while its mint was untracked leaves a balance behind, for a later sell
\* to take for the wallet's (handle_account_update, untrack_mint).
BalancesAreBacked ==
    \A m \in balances : <<m, "ata">> \in mapped \/ \E c \in Cleaners : AboutToUncache(c, m)

\* However many buys and warm-ups find the curve missing, one request fetches it
\* (ensure_bonding_curve_fetch).
OneFetch == \A m \in Mints : calls[m] = IF m \in claimed THEN 1 ELSE 0

\* A fetch that fails does not keep later ones from being made.
FetchesEnd == \A m \in Mints : m \in claimed ~> m \notin claimed

\* A tracked account is subscribed to in the end, wherever the subscription task
\* was when it was tracked, unless another one was removed or a request was lost
\* since the last connection (subscribe).
SubscriptionGrows ==
    \A a \in Account : a \in listed ~> (a \in filter \/ a \notin listed \/ removed \/ lost)

\* "Checks every second whether there are new accounts to subscribe to and updates
\* the subscription" (account_subscriber.rs, subscribe): a tracked account is
\* subscribed to in the end.
SubscriptionFollows ==
    \A a \in Account : a \in listed ~> (a \in filter \/ a \notin listed \/ lost)

\* "Caches the live state of a bonding curve, updated by the stream"
\* (account_subscriber.rs, BondingCurveCache): a cached curve is a tracked one.
CurvesAreBacked ==
    \A m \in curves : \/ <<m, "curve">> \in mapped
                      \/ \E c \in Cleaners : mint[c] = m /\ at[c] # "idle"
=============================================================================
