------------------------------ MODULE BuyPath ------------------------------
(***************************************************************************)
(* execute_buy of main.rs for one task, one group and one mint: it takes   *)
(* what was prefetched of the mint or waits for it, waits for the bonding  *)
(* curve, asks for it itself when it cannot do without, chooses how to     *)
(* build the purchase, builds and sends it, and files a position.  The     *)
(* account stream and the request for the curve change the cache while it  *)
(* waits.  Every wait has a timer, so it may end at any time.              *)
(***************************************************************************)
EXTENDS PumpLayouts

CONSTANTS
    Coins,              \* mints: token program, and whether it pays cashback
    Mirrors,            \* the lists that may have been prefetched
    Targets,            \* the instruction data a buy may come with
    Curves,             \* states of the bonding curve
    Amounts,            \* buy_lamports of the group
    Slippages,          \* slippage_bps of the group
    MaxChanges          \* bound: changes of the caches from outside

Coin == [program : TokenProgs, cashback : BOOLEAN]

\* A buy instruction of the wallet, one of buy_exact_sol_in, another or too short.
Target == [kind : {"none", "buy", "exact", "other"}, tokens : Nat, cost : Nat]

\* The list of a sale has the creator's vault where the parser looks for the token
\* program, and that is what the report names.
Named == TokenProgs \cup {"vault"}

Prefetch == [held : BOOLEAN, mirror : Mirror, wallet : Users, program : Named]

ASSUME CoinsAssumption   == Coins \subseteq Coin
ASSUME MirrorsAssumption == Mirrors \subseteq Mirror
ASSUME TargetsAssumption == Targets \subseteq Target
ASSUME CurvesAssumption  == Curves \subseteq Curve
ASSUME GroupAssumption   == Amounts \subseteq Nat \ {0} /\ Slippages \subseteq Nat
ASSUME BoundsAssumption  == MaxChanges \in Nat

VARIABLES
    coin,               \* the mint
    amount, slippage,   \* of the group
    target,             \* target_instruction_data
    alone,              \* one wallet was enough
    wrapper,            \* the trade came through a wrapper
    cached,             \* bc_cache: the curve, or NoCurve
    fetching,           \* bc_fetches: a request for the curve is under way
    at,                 \* where execute_buy is
    pf,                 \* prefetched
    bc,                 \* bc_state
    built,              \* buy_result, or NoBuy
    channels,           \* where the transaction went
    position,           \* what auto-sell was given, or NoPosition
    changes             \* what the bound counts

given == <<coin, amount, slippage, target, alone, wrapper>>
vars  == <<given, cached, fetching, at, pf, bc, built, channels, position, changes>>

NoCurve == [tokens |-> 0, sol |-> 0, left |-> 0, complete |-> TRUE, creator |-> FALSE]

NoMirror == [kind |-> "none", user |-> CHOOSE u \in Users : TRUE, x |-> Usual("legacy")]

NotPrefetched ==
    [held |-> FALSE, mirror |-> NoMirror, wallet |-> NoMirror.user, program |-> "legacy"]

NoBuy == [accounts |-> <<>>, tokens |-> 0, cost |-> 0, route |-> "none"]

NoPosition == [tokens |-> 0, snapshot |-> NotPrefetched]

\* The mirror of a trade of this coin, on pump.fun or elsewhere.
Fits(mirror, c) ==
    /\ mirror.x.program = c.program
    /\ mirror.kind = "sell" => ~c.cashback
    /\ mirror.kind = "cashback" => c.cashback

\* What may be prefetched of a coin: the mirror of one of its trades and what the
\* report said of its token program.
Prefetches(c) ==
    {p \in [held : {TRUE}, mirror : Mirrors, wallet : Users, program : Named] :
        /\ Fits(p.mirror, c)
        /\ p.program = "vault" <=> p.mirror.kind \in {"sell", "cashback"}}

Init ==
    /\ coin \in Coins /\ amount \in Amounts /\ slippage \in Slippages
    /\ target \in Targets /\ alone \in BOOLEAN /\ wrapper \in BOOLEAN
    /\ cached \in Curves \cup {NoCurve} /\ fetching = FALSE
    /\ at = "start" /\ pf = NotPrefetched /\ bc = NoCurve
    /\ built = NoBuy /\ channels = {} /\ position = NoPosition
    /\ changes = 0

-----------------------------------------------------------------------------
(* Meanwhile                                                                *)

\* The account stream delivers the curve, while the task may still look at it.
StreamDelivers ==
    /\ at \in {"start", "curve", "waiting", "extra", "fetch"}
    /\ changes < MaxChanges /\ changes' = changes + 1
    /\ cached' \in Curves
    /\ UNCHANGED <<given, fetching, at, pf, bc, built, channels, position>>

\* ensure_bonding_curve_fetch: the request returns with the curve or without.
RequestReturns ==
    /\ fetching /\ fetching' = FALSE
    /\ cached' \in Curves \cup {cached}
    /\ UNCHANGED <<given, at, pf, bc, built, channels, position, changes>>

-----------------------------------------------------------------------------
(* Waiting                                                                  *)

Move(from, to) == at = from /\ at' = to

Waited == UNCHANGED <<given, built, channels, position, changes>>

\* get and get_or_wait: what the trade loop left of the mint, if it is there in time.
TakePrefetch ==
    /\ Move("start", "curve")
    /\ pf' \in Prefetches(coin) \cup {NotPrefetched}
    /\ UNCHANGED <<cached, fetching, bc>> /\ Waited

TakeCurve ==
    /\ at \in {"curve", "waiting", "extra"} /\ at' = "quote"
    /\ cached # NoCurve /\ bc' = cached
    /\ UNCHANGED <<cached, fetching, pf>> /\ Waited

\* Not there: somebody has asked for it, or the task does.
AskForCurve ==
    /\ Move("curve", "waiting")
    /\ cached = NoCurve
    /\ fetching' = (fetching \/ pf.held)
    /\ UNCHANGED <<cached, pf, bc>> /\ Waited

\* A purchase of exact SOL by a single wallet cannot do without the curve: the
\* request, if it is still under way, gets some more time.
CurveTimeout ==
    /\ at = "waiting"
    /\ at' = IF target.kind = "exact" /\ alone /\ fetching THEN "extra" ELSE "fetch"
    /\ UNCHANGED <<cached, fetching, pf, bc>> /\ Waited

\* Mutant: the wait for the request has no timer.
ExtraUnbounded ==
    /\ Move("extra", "fetch")
    /\ ~fetching /\ cached # NoCurve
    /\ UNCHANGED <<cached, fetching, pf, bc>> /\ Waited

ExtraTimeout ==
    /\ Move("extra", "fetch")
    /\ UNCHANGED <<cached, fetching, pf, bc>> /\ Waited

List(p) == Listed(p.mirror)

\* Whether the task may build without a curve.
MirrorAlone(p) ==
    List(p) # <<>> /\ ~wrapper /\ ValidWithout(List(p), p.wallet, p.program)

HasTarget == target.kind # "none"

\* With data to build from and no mirror to trust, the task asks for the curve and
\* waits: what it gets goes into the cache, whatever came there meanwhile.
FetchCurve ==
    /\ Move("fetch", "quote")
    /\ HasTarget /\ pf.held /\ ~MirrorAlone(pf)
    /\ bc' \in Curves \cup {NoCurve}
    /\ cached' = IF bc' = NoCurve THEN cached ELSE bc'
    /\ UNCHANGED <<fetching, pf>> /\ Waited

SkipFetch ==
    /\ Move("fetch", "quote")
    /\ ~HasTarget \/ ~pf.held \/ MirrorAlone(pf)
    /\ UNCHANGED <<cached, fetching, pf, bc>> /\ Waited

-----------------------------------------------------------------------------
(* Building                                                                 *)

Purchase(accounts, tokens, route) ==
    [accounts |-> accounts, tokens |-> tokens, cost |-> MaxCost(amount, slippage),
     route |-> route]

\* Mutant: the native purchase takes the quote as it is.
StandardUnchecked ==
    IF bc.complete \/ ~bc.creator THEN NoBuy
    ELSE Purchase(BuyStandard(pf.program), TokensFor(bc, amount), "standard")

\* buy_standard_from_cached_state
Standard ==
    IF bc.complete \/ ~bc.creator \/ ~ValidAmount(TokensFor(bc, amount), bc.left) THEN NoBuy
    ELSE Purchase(BuyStandard(pf.program), TokensFor(bc, amount), "standard")

\* buy_from_cached_state does not check the quote.
Mirrored ==
    IF bc.complete THEN NoBuy
    ELSE Purchase(BuyFromMirror(List(pf), pf.wallet, pf.program), TokensFor(bc, amount), "mirror")

\* buy_from_target_instruction
FromTarget ==
    IF \/ target.kind # "buy" \/ target.tokens = 0 \/ target.cost = 0
       \/ ~ValidAmount(TokensAtPrice(target, amount), 0)
    THEN NoBuy
    ELSE Purchase(BuyFromMirror(List(pf), pf.wallet, pf.program), TokensAtPrice(target, amount), "target")

Route ==
    IF ~pf.held THEN NoBuy
    ELSE IF bc # NoCurve
    THEN IF List(pf) # <<>> /\ ValidWith(List(pf), pf.wallet, pf.program, bc) THEN Mirrored
         ELSE Standard
    ELSE IF HasTarget /\ MirrorAlone(pf) THEN FromTarget
    ELSE NoBuy

Quote ==
    /\ at = "quote"
    /\ built' = Route
    /\ at' = IF built' = NoBuy THEN "skipped" ELSE "build"
    /\ UNCHANGED <<given, cached, fetching, pf, bc, channels, position, changes>>

\* Signing fails.
BuildFails ==
    /\ Move("build", "failed")
    /\ UNCHANGED <<given, cached, fetching, pf, bc, built, channels, position, changes>>

\* fire_and_forget_with_mode: a transaction with 0slot's tip goes there alone, any
\* other one to the RPC nodes, and to Jito where it is enabled.  With auto-sell, the
\* position is filed before anything answers.
Send ==
    /\ Move("build", "submitted")
    /\ channels' \in {{"0slot"}, {"rpc"}, {"rpc", "jito"}}
    /\ position' \in {NoPosition, [tokens |-> built.tokens, snapshot |-> pf]}
    /\ UNCHANGED <<given, cached, fetching, pf, bc, built, changes>>

Waits == \/ TakePrefetch \/ TakeCurve \/ AskForCurve
         \/ CurveTimeout \/ ExtraTimeout \/ FetchCurve \/ SkipFetch

Task == Waits \/ Quote \/ BuildFails \/ Send

Ended == at \in {"skipped", "failed", "submitted"}

Next == StreamDelivers \/ RequestReturns \/ Task

Spec == Init /\ [][Next]_vars

\* Timers fire, and a request for an account returns.
FairSpec == Spec /\ WF_vars(Task)

-----------------------------------------------------------------------------
(* Properties                                                               *)

TypeOK ==
    /\ coin \in Coins /\ amount \in Amounts /\ slippage \in Slippages /\ target \in Targets
    /\ {alone, wrapper, fetching} \subseteq BOOLEAN
    /\ pf \in Prefetch /\ (pf.held => Fits(pf.mirror, coin))
    /\ cached \in Curves \cup {NoCurve} /\ bc \in Curves \cup {NoCurve}
    /\ at \in {"start", "curve", "waiting", "extra", "fetch", "quote", "build",
               "skipped", "failed", "submitted"}
    /\ built.tokens \in Nat /\ built.cost \in Nat /\ position.tokens \in Nat
    /\ channels \subseteq {"0slot", "rpc", "jito"} /\ changes \in Nat

\* The mirror of a purchase in the chain's present layout, with the right program.
Current(p) == p.mirror.kind = "buy" /\ p.program = coin.program

\* Whatever trade it is copied from, and whoever's mirror was at hand, a purchase
\* that is sent has the accounts the chain asks for in its order, none of another
\* user; and so will the sale that is built from the snapshot of its position.
LayoutsAccepted ==
    at = "submitted" /\ Current(pf) =>
        /\ Accepted(built.accounts, coin.program)
        /\ SaleAccepted(SellFromMirror(List(pf), pf.program, coin.cashback),
                        coin.program, coin.cashback)

\* Nothing is bought on a completed curve, or, except from a mirror with a curve, in
\* an amount no curve can give.
QuoteChecked ==
    at \in {"build", "submitted"} =>
        /\ built.route \in {"standard", "mirror"} => ~bc.complete
        /\ built.route \in {"standard", "target"} => ValidAmount(built.tokens, bc.left)

\* The same without the exception.
EveryQuoteChecked ==
    at \in {"build", "submitted"} => ValidAmount(built.tokens, bc.left)

\* The claim and the permit of a buy are given back: it comes to an end whatever
\* the caches and the requests do.
BuyEnds == <>Ended

\* As the comment on the builder has it, the mirror of any trade yields a purchase
\* in the chain's layout, that of a sale included.
AnySourceAccepted ==
    at = "submitted" /\ pf.mirror.kind \in {"sell", "cashback", "buy"}
        /\ (pf.mirror.kind = "buy" => pf.program = coin.program)
      => Accepted(built.accounts, coin.program)
=============================================================================
