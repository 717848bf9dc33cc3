---------------------------- MODULE TradeParser ----------------------------
(***************************************************************************)
(* What parse_transaction (src/src/grpc/subscriber.rs) makes of a          *)
(* transaction of a followed wallet, before it is executed and after it    *)
(* has landed: a DetectedTrade or nothing.                                 *)
(*                                                                         *)
(* Before execution there is no meta: the accounts that live in lookup     *)
(* tables and the instructions programs call are unknown, and a call of    *)
(* pump.fun through another program is guessed from the account keys.  An  *)
(* instruction is reduced to the venue it calls, what its data says, the   *)
(* accounts of it that live in lookup tables and the token program of its  *)
(* mint.  A transaction is about one token; an account that is taken for   *)
(* its mint or its token program and is not is "other".                    *)
(***************************************************************************)
EXTENDS Naturals, Sequences

CONSTANTS Wallets, Sigs

Venues     == {"pump", "pumpswap", "amm", "cpmm", "clmm", "dlmm"}
Programs   == Venues \cup {"other"}
Internal   == {"pump"}
External   == Venues \ Internal
TokenProgs == {"legacy", "2022"}

\* hidden: which of its accounts a lookup table holds: the mint, the one the money
\* comes from (of pump.fun the curve), the token program (of what comes out), that
\* of what goes in, any other.  says: the side its data names, or, for Raydium and
\* Meteora, the side its source account tells; pays: whether SOL goes in; swap: it
\* is a swap by its discriminator; slots: how many accounts it has; long: its data
\* holds an amount, which is lamports.
Ix == [venue : Programs, says : {"buy", "sell", "unclear"}, pays : BOOLEAN,
       swap : BOOLEAN, hidden : SUBSET {"mint", "source", "program", "input", "rest"},
       slots : Nat, long : BOOLEAN, lamports : Nat]

\* wallets: the wallets among its keys, in order; late: those in lookup tables.
\* curve, wsol: the bonding curve of a mint, and the WSOL account of the source
\* wallet, are among the static keys; guess: the token program these suggest;
\* paid, listed: what its meta says was paid, and whether it lists a balance of
\* the token; token: the token program its mint really has.
Tx == [sig : Sigs, wallets : Seq(Wallets), late : Seq(Wallets),
       outer : Seq(Ix), inner : Seq(Ix), pumpKey : BOOLEAN, curve : BOOLEAN,
       wsol : BOOLEAN, guess : TokenProgs, fails : BOOLEAN, paid : Nat,
       listed : BOOLEAN, token : TokenProgs]

\* On the chain, a swap whose source account is not told to hold the token takes SOL,
\* an AMM pool only has legacy tokens, and pump.fun does nothing without accounts.
Plausible(tx) ==
    \A list \in {tx.outer, tx.inner} : \A n \in DOMAIN list :
        /\ /\ list[n].venue \in {"amm", "cpmm", "clmm", "dlmm"}
           /\ list[n].swap /\ list[n].says # "sell"
           => list[n].pays
        /\ list[n].venue = "amm" => tx.token = "legacy"
        /\ list[n].venue = "pump" /\ ~tx.fails => list[n].slots > 0

Trade == [sig : Sigs, wallet : Wallets, venue : Venues, wrapper : BOOLEAN,
          buy : BOOLEAN, pre : BOOLEAN, failed : BOOLEAN, instr : BOOLEAN,
          accounts : Nat, lamports : Nat, mint : {"none", "token", "other"},
          program : TokenProgs \cup {"none", "other"}]

NoTrade == [sig |-> "none"]

-----------------------------------------------------------------------------
(* One instruction: trade_type_for_program, detect_buy_or_sell, is_sol_input, *)
(* extract_buy_lamports                                                       *)

SwapOnly == {"clmm", "dlmm"}

\* Recognised in a scope: a venue of the scope, and for CLMM and DLMM a swap.
Recognised(ix, scope) == ix.venue \in scope /\ (ix.venue \in SwapOnly => ix.swap)

\* The places of such calls in a list of instructions.
Calls(ixs, scope) == {n \in DOMAIN ixs : Recognised(ixs[n], scope)}

FirstOf(list, places) == list[CHOOSE n \in places : \A p \in places : n <= p]

Seen(ix, part, landed) == landed \/ part \notin ix.hidden

\* Whatever cannot be told counts as a buy.
Buys(ix, landed) ==
    IF ix.venue \in {"pump", "pumpswap"} THEN ix.says # "sell"
    ELSE ix.swap /\ Seen(ix, "source", landed) => ix.says # "sell"

\* The account list is kept only if every account of it is known.
Accounts(ix, landed) == IF landed \/ ix.hidden = {} THEN ix.slots ELSE 0

Lamports(ix, landed) ==
    IF /\ Buys(ix, landed) /\ ix.long /\ ix.venue \notin {"amm", "cpmm"}
       /\ ix.venue = "pump" => ix.says = "buy"
    THEN ix.lamports ELSE 0

\* A call that is no trade has, or may have, something else where a trade has the mint.
IsTrade(ix) ==
    /\ ix.venue = "pump" => ix.says # "unclear"
    /\ ix.venue \in {"pumpswap", "cpmm"} => ix.swap

\* extract_token_mint: with the mint hidden, PumpSwap's accounts are read again in an
\* older layout, where a pool's account stands there.
Mint(ix, landed) ==
    IF ix.venue = "amm" THEN "none"
    ELSE IF Seen(ix, "mint", landed) THEN IF IsTrade(ix) THEN "token" ELSE "other"
    ELSE IF ix.venue = "pumpswap" /\ Seen(ix, "source", landed) THEN "other"
    ELSE "none"

\* What extract_token_program takes for the program, by the layout of the venue:
\* the place a purchase has it, also in a sale, or else what the keys suggest;
PumpProgram(ix, tx, landed) ==
    IF Seen(ix, "program", landed) THEN IF ix.says = "buy" THEN tx.token ELSE "other"
    ELSE IF Seen(ix, "mint", landed) /\ Seen(ix, "source", landed) THEN tx.guess
    ELSE "none"

\* that of the side that is not WSOL, or a place in an older layout;
PumpSwapProgram(ix, tx, landed) ==
    IF Seen(ix, "mint", landed)
    THEN IF Seen(ix, "program", landed) THEN tx.token ELSE "none"
    ELSE IF Seen(ix, "input", landed) THEN "other" ELSE "none"

\* that of the output, or else that of the input: WSOL's is the legacy one;
CpmmProgram(ix, tx, landed) ==
    LET of(isToken) == IF isToken THEN tx.token ELSE "legacy"
    IN  IF Seen(ix, "program", landed) THEN of(ix.pays)
        ELSE IF Seen(ix, "input", landed) THEN of(~ix.pays)
        ELSE "none"

\* that of the mint's side, or the one that explains the account of the user.
SideProgram(ix, tx, landed) ==
    IF Seen(ix, "mint", landed) /\ Seen(ix, "program", landed) THEN tx.token ELSE "none"

\* Mutant: of every venue but pump.fun the program of what comes out is taken.
OutputProgram(ix, tx, landed) ==
    IF ix.venue = "pump" THEN PumpProgram(ix, tx, landed)
    ELSE IF Seen(ix, "program", landed) /\ ix.pays THEN tx.token
    ELSE "legacy"

\* An AMM swap calls the legacy program, the only one it knows.
TokenProgram(ix, tx, landed) ==
    IF ix.venue = "pump" THEN PumpProgram(ix, tx, landed)
    ELSE IF ix.venue = "pumpswap" THEN PumpSwapProgram(ix, tx, landed)
    ELSE IF ix.venue = "cpmm" THEN CpmmProgram(ix, tx, landed)
    ELSE IF ix.venue = "amm" THEN "legacy"
    ELSE SideProgram(ix, tx, landed)

Direct(tx, wallet, ix, landed) ==
    [sig |-> tx.sig, wallet |-> wallet, venue |-> ix.venue, wrapper |-> FALSE,
     buy |-> Buys(ix, landed), pre |-> ~landed, failed |-> landed /\ tx.fails,
     instr |-> ix.long, accounts |-> Accounts(ix, landed),
     lamports |-> Lamports(ix, landed), mint |-> Mint(ix, landed),
     program |-> TokenProgram(ix, tx, landed)]

\* enrich_trade_from_meta: what the balances add to a landed trade.
Enriched(trade, tx) ==
    [trade EXCEPT
        !.mint     = IF @ = "none" /\ tx.listed THEN "token" ELSE @,
        !.program  = IF @ = "none" /\ tx.listed THEN tx.token ELSE @,
        !.lamports = IF trade.buy /\ @ = 0 THEN tx.paid ELSE @]

-----------------------------------------------------------------------------
(* try_detect_cpi_pumpfun and parse_transaction                             *)

\* A call of pump.fun through a wrapper, guessed before execution: neither data
\* nor accounts, the side from the WSOL account.
Wrapped(tx, wallet) ==
    [sig |-> tx.sig, wallet |-> wallet, venue |-> "pump", wrapper |-> TRUE,
     buy |-> tx.wsol, pre |-> TRUE, failed |-> FALSE, instr |-> FALSE,
     accounts |-> 0, lamports |-> 0, mint |-> "token", program |-> tx.guess]

Keys(tx, landed) == IF landed THEN tx.wallets \o tx.late ELSE tx.wallets

\* The places of the followed wallets among the keys.
Followed(tx, landed, targets) ==
    {n \in DOMAIN Keys(tx, landed) : Keys(tx, landed)[n] \in targets}

Found(tx, wallet, ix, landed) ==
    IF landed THEN Enriched(Direct(tx, wallet, ix, landed), tx)
    ELSE Direct(tx, wallet, ix, landed)

\* Mutant: external venues are looked for first.
ExternalFirst(tx, wallet, landed) ==
    LET outer(scope) == Calls(tx.outer, scope)
        inner(scope) == IF landed THEN Calls(tx.inner, scope) ELSE {}
    IN  IF outer(External) # {} THEN Found(tx, wallet, FirstOf(tx.outer, outer(External)), landed)
        ELSE IF outer(Internal) # {} THEN Found(tx, wallet, FirstOf(tx.outer, outer(Internal)), landed)
        ELSE IF ~landed /\ tx.pumpKey /\ tx.curve THEN Wrapped(tx, wallet)
        ELSE IF inner(Internal) # {} THEN Found(tx, wallet, FirstOf(tx.inner, inner(Internal)), landed)
        ELSE IF inner(External) # {} THEN Found(tx, wallet, FirstOf(tx.inner, inner(External)), landed)
        ELSE NoTrade

\* The five rounds: pump.fun called directly, through a wrapper (guessed before
\* execution), from within; then the external venues.
Rounds(tx, wallet, landed) ==
    LET outer(scope) == Calls(tx.outer, scope)
        inner(scope) == IF landed THEN Calls(tx.inner, scope) ELSE {}
    IN  IF outer(Internal) # {} THEN Found(tx, wallet, FirstOf(tx.outer, outer(Internal)), landed)
        ELSE IF ~landed /\ tx.pumpKey /\ tx.curve THEN Wrapped(tx, wallet)
        ELSE IF inner(Internal) # {} THEN Found(tx, wallet, FirstOf(tx.inner, inner(Internal)), landed)
        ELSE IF outer(External) # {} THEN Found(tx, wallet, FirstOf(tx.outer, outer(External)), landed)
        ELSE IF inner(External) # {} THEN Found(tx, wallet, FirstOf(tx.inner, inner(External)), landed)
        ELSE NoTrade

Parse(tx, landed, targets) ==
    LET places == Followed(tx, landed, targets)
    IN  IF places = {} THEN NoTrade
        ELSE Rounds(tx, FirstOf(Keys(tx, landed), places), landed)
=============================================================================
