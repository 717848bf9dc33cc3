---------------------------- MODULE TradeIntake ----------------------------
(***************************************************************************)
(* The trade loop of main.rs and what it drives: it takes the reports the  *)
(* stream sends out of a channel, drops those whose transaction it has     *)
(* seen, keeps the account list of a buy as a mirror, warms the prefetch   *)
(* cache (src/src/processor/prefetch.rs), and for a group that follows the *)
(* wallet sends a sell signal, starts a buy, votes in the consensus engine *)
(* or takes a vote back.  A second task starts the buys the engine         *)
(* triggers.                                                               *)
(*                                                                         *)
(* One group and one mint: the loop does the same for every group of the   *)
(* wallet, and only the caches of the mint are shared.  A list of accounts *)
(* is full or empty, and the buys started are the executor's (BuyGate,     *)
(* BuyPath); tracking and fetching the bonding curve is in AccountTracking. *)
(***************************************************************************)
EXTENDS TradeParser, FiniteSets

CONSTANTS
    Txs,                \* transactions of the wallets
    Settings,           \* the settings the operator may give the group
    MaxReports,         \* bound: reports of the stream
    MaxEdits,           \* bound: commands of the operator
    MaxForgets,         \* bound: rounds of the tasks that clean up the caches
    MaxNow              \* bound: the clock stops here

Setting == [enabled : BOOLEAN, wallets : SUBSET Wallets, quorum : Nat \ {0},
            window : Nat, entry : {"buy", "sell"}, follow : BOOLEAN,
            external : {"off", "dry_run", "live"}, least : Nat]

NoGroup == [enabled |-> FALSE, wallets |-> {}, quorum |-> 1, window |-> 1,
            entry |-> "buy", follow |-> FALSE, external |-> "off", least |-> 0]

ASSUME WalletsAssumption  == IsFiniteSet(Wallets)
ASSUME TxsAssumption      == \A t \in Txs : t \in Tx /\ Plausible(t)
ASSUME SignaturesAssumption == \A x, y \in Txs : x.sig = y.sig => x = y
ASSUME SettingsAssumption == Settings \subseteq Setting
ASSUME BoundsAssumption   == {MaxReports, MaxEdits, MaxForgets, MaxNow} \subseteq Nat

VARIABLES
    feed,               \* trade_rx: the reports on their way, with detected_at
    hand,               \* the report in the loop's hands and the group that matched
    running,            \* is_running
    group,              \* the group as the GroupManager holds it, or NoGroup
    blocked,            \* the mint is on the block list
    seen,               \* sig_cache
    mirror,             \* mirror_cache has the mint
    fetched,            \* prefetch_cache: the mint's entry
    sellable,           \* external: an open position of the mint can be sold
    sells,              \* FollowSell signals sent
    buys,               \* buy tasks started
    served,             \* triggers the second task has taken
    now, fed, entry, sent,      \* the engine: see Consensus
    taken,              \* history variable: what was acted on
    old,                \* history variable: signatures the cache forgot
    reports, edits, forgets     \* what the bounds count

engine == <<now, fed, entry, sent>>
caches == <<seen, mirror, fetched>>
bounds == <<reports, edits, forgets>>
vars == <<feed, hand, running, group, blocked, caches, sellable, sells, buys, served,
          engine, taken, old, bounds>>

C == INSTANCE Consensus WITH
         Kinds      <- [instr : BOOLEAN, accounts : BOOLEAN, sol : BOOLEAN, pre : BOOLEAN,
                        wrapper : BOOLEAN],
         Quorums    <- {g.quorum : g \in Settings} \ {1},
         Timeouts   <- {g.window : g \in Settings},
         LastSubmit <- MaxNow,
         MaxSent    <- MaxReports

\* A report in hand names its mint.
Report == [trade : {t \in Trade : t.mint = "token"}, at : Nat, group : Setting]

NoReport == [trade |-> NoTrade, at |-> 0, group |-> NoGroup]

NotFetched == [held |-> FALSE, mirror |-> FALSE, quality |-> 0]

NotSeen == [pre |-> FALSE, landed |-> FALSE]

Buy == [wallets : SUBSET Wallets, needed : Nat, external : BOOLEAN, wrapper : BOOLEAN,
        instr : BOOLEAN, mirror : BOOLEAN, cached : BOOLEAN]

Init ==
    /\ feed = <<>> /\ hand = NoReport
    /\ running = TRUE /\ group \in Settings /\ blocked \in BOOLEAN
    /\ seen = [sig \in Sigs |-> NotSeen]
    /\ mirror = FALSE /\ fetched = NotFetched
    /\ sellable \in BOOLEAN /\ sells = 0
    /\ buys = <<>> /\ served = 0
    /\ C!Init
    /\ taken = {} /\ old = {}
    /\ reports = 0 /\ edits = 0 /\ forgets = 0

-----------------------------------------------------------------------------
(* Around the loop                                                          *)

\* The stream reports a transaction, before it is executed or once it has landed;
\* after a reconnection it may do so again.
StreamReports(tx, landed) ==
    /\ reports < MaxReports /\ reports' = reports + 1
    /\ LET trade == Parse(tx, landed, Wallets)
       IN  /\ trade # NoTrade
           /\ feed' = Append(feed, [trade |-> trade, at |-> now])
    /\ UNCHANGED <<hand, running, group, blocked, caches, sellable, sells, buys, served,
                   engine, taken, old, edits, forgets>>

\* The operator starts or stops the program, changes the group or deletes it.
Operate ==
    /\ edits < MaxEdits /\ edits' = edits + 1
    /\ \/ running' = ~running /\ UNCHANGED group
       \/ group' \in (Settings \cup {NoGroup}) \ {group} /\ UNCHANGED running
    /\ UNCHANGED <<feed, hand, blocked, caches, sellable, sells, buys, served, engine,
                   taken, old, reports, forgets>>

\* A position of the mint opens, or closes and takes the prefetched data along.
Trades ==
    /\ forgets < MaxForgets /\ forgets' = forgets + 1
    /\ sellable' = ~sellable
    /\ fetched' = IF sellable THEN NotFetched ELSE fetched
    /\ UNCHANGED <<feed, hand, running, group, blocked, seen, mirror, sells, buys, served,
                   engine, taken, old, reports, edits>>

\* The prefetched data are five minutes old.
PrefetchExpires ==
    /\ forgets < MaxForgets /\ forgets' = forgets + 1
    /\ fetched.held /\ fetched' = NotFetched
    /\ UNCHANGED <<feed, hand, running, group, blocked, seen, mirror, sellable, sells, buys,
                   served, engine, taken, old, reports, edits>>

\* The task that clears the signature cache: a signature goes ten seconds after
\* its last report.
ForgetSignature(sig) ==
    /\ forgets < MaxForgets /\ forgets' = forgets + 1
    /\ seen[sig] # NotSeen
    /\ seen' = [seen EXCEPT ![sig] = NotSeen]
    /\ old' = old \cup {sig}
    /\ UNCHANGED <<feed, hand, running, group, blocked, mirror, fetched, sellable, sells,
                   buys, served, engine, taken, reports, edits>>

EngineCleanup ==
    /\ C!Cleanup
    /\ UNCHANGED <<feed, hand, running, group, blocked, caches, sellable, sells, buys,
                   served, taken, old, bounds>>

Tick ==
    /\ C!Tick
    /\ UNCHANGED <<feed, hand, running, group, blocked, caches, sellable, sells, buys,
                   served, taken, old, bounds>>

-----------------------------------------------------------------------------
(* The loop takes a report: should_skip_signature, mirror_cache,            *)
(* groups_for_wallet, extract_token_info, is_blocked                        *)

\* Mutant: a report from before execution is skipped only after another one.
SkippedByPhase(t) == IF t.pre THEN seen[t.sig].pre ELSE seen[t.sig].landed

Skipped(t) == seen[t.sig].landed \/ (t.pre /\ seen[t.sig].pre)

\* Mutant: only landed reports are noted.
LandedMarked(t) == [seen EXCEPT ![t.sig].landed = @ \/ ~t.pre]

Marked(t) ==
    [seen EXCEPT ![t.sig].pre = @ \/ t.pre, ![t.sig].landed = @ \/ ~t.pre]

\* A buy of the wallet itself with as many accounts as one of pump.fun lists; the
\* venue is not looked at.
IsMirror(t) == t.buy /\ ~t.wrapper /\ t.accounts >= 18 /\ t.mint = "token"

Matches(t) == group.enabled /\ t.wallet \in group.wallets

Usable(t) == Matches(t) /\ t.mint = "token" /\ ~blocked

Drop ==
    /\ hand = NoReport /\ feed # <<>>
    /\ ~running \/ Skipped(Head(feed).trade)
    /\ feed' = Tail(feed)
    /\ UNCHANGED <<hand, running, group, blocked, caches, sellable, sells, buys, served,
                   engine, taken, old, bounds>>

Take ==
    /\ hand = NoReport /\ feed # <<>>
    /\ LET t == Head(feed).trade
       IN  /\ running /\ ~Skipped(t)
           /\ seen' = Marked(t)
           /\ mirror' = (mirror \/ IsMirror(t))
           /\ hand' = IF Usable(t)
                      THEN [trade |-> t, at |-> Head(feed).at, group |-> group]
                      ELSE NoReport
    /\ feed' = Tail(feed)
    /\ UNCHANGED <<running, group, blocked, fetched, sellable, sells, buys, served, engine,
                   taken, old, bounds>>

-----------------------------------------------------------------------------
(* The loop acts on it                                                      *)

Wants(g, t) == IF t.buy THEN g.entry = "buy" ELSE g.entry = "sell"

\* An amount that is not known counts as large enough.
TooSmall(g, t) == t.lamports > 0 /\ t.lamports < g.least

FollowsSale(g, t) == ~t.failed /\ ~t.buy /\ g.follow /\ sellable

Signal(yes) == sells' = IF yes THEN sells + 1 ELSE sells

Quality(t) ==
    C!Bit(t.instr, 8) + C!Bit(t.accounts > 0, 4) + C!Bit(t.lamports > 0, 2) + C!Bit(~t.pre, 1)

\* What the loop uses as mirror: a wrapper's report without accounts borrows that
\* of an earlier buy.
Mirrored(t) == t.accounts > 0 \/ (t.wrapper /\ mirror)

\* prefetch_token: better data stay, unless they are to be replaced.
Prefetched(mirrored, quality, force) ==
    IF ~force /\ fetched.held /\ fetched.quality > quality THEN fetched
    ELSE [held |-> TRUE, mirror |-> mirrored, quality |-> quality]

Starts(wallets, needed, external, wrapper, instr) ==
    buys' = Append(buys, [wallets |-> wallets, needed |-> needed, external |-> external,
                          wrapper |-> wrapper, instr |-> instr, mirror |-> fetched'.mirror,
                          cached |-> mirror])

Acted ==
    /\ taken' = taken \cup {hand}
    /\ hand' = NoReport
    /\ UNCHANGED <<feed, running, group, blocked, seen, mirror, sellable, served, old, bounds>>

\* Mutant: the group's quorum does not keep an external trade from being copied.
ExternalAlone(g, t) == Wants(g, t) /\ ~t.failed /\ ~TooSmall(g, t)

ExternalEntry(g, t) == Wants(g, t) /\ ~t.failed /\ ~TooSmall(g, t) /\ g.quorum = 1

\* Not pump.fun: copied through Jupiter, if the group does that in earnest.
ActExternal ==
    /\ hand # NoReport /\ hand.trade.venue # "pump"
    /\ LET g == hand.group
           t == hand.trade
           live == g.external = "live"
       IN  /\ UNCHANGED <<fetched, engine>>
           /\ Signal(live /\ FollowsSale(g, t))
           /\ IF live /\ ExternalEntry(g, t)
              THEN Starts({t.wallet}, g.quorum, TRUE, t.wrapper, FALSE)
              ELSE UNCHANGED buys
    /\ Acted

\* The vote of a report: the buy's data count only for a group that copies buys.
Vote(r) ==
    [wallet |-> r.trade.wallet, sig |-> r.trade.sig, detected |-> r.at,
     kind |-> [instr |-> r.trade.instr /\ r.group.entry = "buy",
               accounts |-> r.trade.accounts > 0, sol |-> r.trade.lamports > 0,
               pre |-> r.trade.pre, wrapper |-> r.trade.wrapper]]

\* Mutant: a group that buys what its wallets sell does not follow their sales.
ColdAlways(g, t) == Wants(g, t) /\ ~t.buy

\* A group that buys what its wallets sell needs a mirror: without one it skips
\* the report, its own positions included.
Cold(g, t) == Wants(g, t) /\ ~t.buy /\ ~Mirrored(t)

\* One wallet is enough, or the report is a vote, or takes its wallet's vote back.
Enter(r) ==
    \/ /\ r.group.quorum = 1
       /\ IF r.trade.failed THEN UNCHANGED buys
          ELSE Starts({r.trade.wallet}, 1, FALSE, r.trade.wrapper, Vote(r).kind.instr)
       /\ UNCHANGED engine
    \/ /\ r.group.quorum > 1 /\ r.trade.failed
       /\ IF entry = C!NoEntry THEN UNCHANGED engine
          ELSE C!Reject(r.trade.wallet, r.trade.sig)
       /\ UNCHANGED buys
    \/ /\ r.group.quorum > 1 /\ ~r.trade.failed
       /\ C!SubmitWith(Vote(r), r.group.quorum, r.group.window)
       /\ fed' = r.at
       /\ UNCHANGED <<now, buys>>

ActPump ==
    /\ hand # NoReport /\ hand.trade.venue = "pump"
    /\ LET g == hand.group
           t == hand.trade
       IN  /\ fetched' = IF Wants(g, t) THEN Prefetched(Mirrored(t), Quality(t), FALSE)
                         ELSE fetched
           /\ Signal(~Cold(g, t) /\ FollowsSale(g, t))
           /\ IF Wants(g, t) /\ ~Cold(g, t) /\ ~TooSmall(g, t) THEN Enter(hand)
              ELSE UNCHANGED <<engine, buys>>
    /\ Acted

-----------------------------------------------------------------------------
(* The task that takes the engine's triggers                                *)

\* A trigger of a group that is gone is dropped; another starts a buy with the
\* group's present settings, and its canonical vote replaces what was prefetched.
Serve ==
    /\ served < Len(sent) /\ served' = served + 1
    /\ LET trigger == sent[served + 1]
           best    == trigger.canonical
       IN  IF group = NoGroup THEN UNCHANGED <<fetched, buys>>
           ELSE /\ fetched' = Prefetched(best.kind.accounts, 1000, TRUE)
                /\ Starts({c.wallet : c \in trigger.votes}, trigger.quorum, FALSE,
                          best.kind.wrapper, best.kind.instr)
    /\ UNCHANGED <<feed, hand, running, group, blocked, seen, mirror, sellable, sells,
                   engine, taken, old, bounds>>

Loop == Drop \/ Take \/ ActExternal \/ ActPump

Next ==
    \/ \E tx \in Txs, landed \in BOOLEAN : StreamReports(tx, landed)
    \/ Operate \/ Trades \/ PrefetchExpires
    \/ \E sig \in Sigs : ForgetSignature(sig)
    \/ EngineCleanup \/ Tick
    \/ Loop \/ Serve

Spec == Init /\ [][Next]_vars

-----------------------------------------------------------------------------
(* Properties                                                               *)

TypeOK ==
    /\ feed \in Seq([trade : Trade, at : Nat])
    /\ \A r \in taken \cup ({hand} \ {NoReport}) : r \in Report
    /\ {running, blocked, mirror, sellable} \subseteq BOOLEAN
    /\ group \in Settings \cup {NoGroup}
    /\ seen \in [Sigs -> [pre : BOOLEAN, landed : BOOLEAN]] /\ old \subseteq Sigs
    /\ fetched \in [held : BOOLEAN, mirror : BOOLEAN, quality : Nat]
    /\ buys \in Seq(Buy) /\ served \in 0 .. Len(sent)
    /\ {sells, reports, edits, forgets} \subseteq Nat
    /\ C!TypeOK

\* Every buy that starts is backed by as many wallets as the group asked for, each
\* of which made a trade of the side the group copies that was not known to have
\* failed, and was followed by the group when its report was taken.
BuysAreBacked ==
    \A n \in DOMAIN buys :
        /\ Cardinality(buys[n].wallets) >= buys[n].needed
        /\ \A w \in buys[n].wallets :
              \E r \in taken : /\ r.trade.wallet = w /\ w \in r.group.wallets
                               /\ ~r.trade.failed /\ Wants(r.group, r.trade)

\* should_skip_signature lets a transaction that was handled pass once more, for its
\* landed report after the one from before execution, and never the other way round,
\* as long as the cache remembers it.
SecondLookIsBetter ==
    [][\A r \in taken :
          /\ hand = NoReport /\ hand' # NoReport
          /\ r.trade.sig = hand'.trade.sig /\ r.trade.sig \notin old
          => r.trade.pre /\ ~hand'.trade.pre]_vars

\* A report says that a trade failed which the group would have gone by: the side,
\* the amount and, of a sale, the accounts are what the group wants, the cache still
\* knows the transaction, and the group is as it was.
Disowns(r) ==
    /\ r.trade.failed /\ r.trade.sig \notin old /\ edits = 0
    /\ r.trade.venue = "pump" /\ Wants(r.group, r.trade) /\ ~TooSmall(r.group, r.trade)
    /\ r.trade.buy \/ r.trade.accounts > 0

\* A trade whose failure was reported has no vote in the engine, whichever report
\* of it came first.
FailedTradesHaveNoVote ==
    \A r \in taken : Disowns(r) => \A c \in entry.signals : c.sig # r.trade.sig

\* No buy is triggered on a trade that is known to have failed.
FailedTradesTriggerNothing ==
    [][\A n \in DOMAIN sent' \ DOMAIN sent : \A c \in sent'[n].votes :
          \A r \in taken : Disowns(r) => c.sig # r.trade.sig]_vars

\* A sale that landed reaches the position of a group that follows sales, even if
\* its report from before execution told too little to act on.
FollowSellsSent ==
    [][hand # NoReport /\ hand' = NoReport /\ hand.trade.venue = "pump" /\ ~hand.trade.pre
         /\ FollowsSale(hand.group, hand.trade) => sells' = sells + 1]_vars

\* The loop drives the engine as Consensus has it: reports come out of a channel in
\* the order of their detection, none is from the future, and a vote carries the
\* quorum and the timeout of a group with a quorum.  What holds of Consensus
\* therefore holds of the engine here.
EngineDriven == C!Spec

\* A buy copied from a wrapper's call uses the mirror the program has kept of the
\* mint.
MirrorReused ==
    \A n \in DOMAIN buys :
        buys[n].wrapper /\ ~buys[n].external /\ buys[n].cached => buys[n].mirror
=============================================================================
