---------------------------- MODULE PumpLayouts ----------------------------
(***************************************************************************)
(* The arithmetic and the account lists of PumpfunProcessor                *)
(* (src/src/processor/pumpfun.rs): what a bonding curve quotes, which      *)
(* accounts a purchase and a sale list in which order, when the list of a  *)
(* followed wallet's trade (a mirror) is trusted, and what the program     *)
(* builds from it.                                                         *)
(*                                                                         *)
(* An account is its role and whose it is.  A role the chain allows        *)
(* several accounts for has a usual one and another.  Slots count from 0   *)
(* in the code, and from 1 here.                                           *)
(***************************************************************************)
EXTENDS Integers, Sequences

CONSTANTS
    Users,              \* wallets whose trades are mirrored
    Us,                 \* the program's own wallet
    Supply,             \* max_pump_raw_supply
    FirstSol            \* the 30 SOL a curve starts with

ASSUME UsAssumption     == Users # {} /\ Us \notin Users
ASSUME AmountAssumption == Supply \in Nat /\ FirstSol \in Nat \ {0}

TokenProgs == {"legacy", "2022"}

A(role) == [role |-> role, of |-> "any"]

Of(role, whose) == [role |-> role, of |-> whose]

\* A token account is derived from its owner and the mint's token program.
Ata(owner, program) == [role |-> "ata", of |-> owner, program |-> program]

-----------------------------------------------------------------------------
(* BondingCurveState and the amounts of a buy                               *)

Curve == [tokens : Nat, sol : Nat, left : Nat, complete : BOOLEAN, creator : BOOLEAN]

\* sol_to_token_quote: what the constant product gives for an amount.
TokensFor(curve, amount) ==
    IF curve.sol = 0 THEN 0 ELSE (curve.tokens * amount) \div (curve.sol + amount)

MaxCost(amount, slippage) == amount + (amount * slippage) \div 10000

\* validate_buy_amount; left: real_token_reserves, or 0.
ValidAmount(tokens, left) ==
    tokens > 0 /\ tokens <= Supply /\ (left > 0 => tokens <= left)

\* buy_from_target_instruction: the tokens for an amount at the wallet's price,
\* on a curve that has FirstSol, and one at least.
TokensAtPrice(target, amount) ==
    LET tokens == (((FirstSol * target.tokens) \div target.cost) * amount)
                     \div (FirstSol + amount)
    IN  IF tokens > 1 THEN tokens ELSE 1

-----------------------------------------------------------------------------
(* The lists                                                                *)

\* Where the lists of two trades of a mint may differ.
Variant == [fee : {"usual", "other"}, buyback : {"usual", "other"}, program : TokenProgs]

Usual(program) == [fee |-> "usual", buyback |-> "usual", program |-> program]

BuyLayout(user, x) ==
    <<A("global"), Of("fee", x.fee), A("mint"), A("curve"),
      Ata("curve", x.program), Ata(user, x.program), Of("user", user), A("system"), Of("program", x.program), A("vault"),
      A("events"), A("pump"), A("global_volume"), Of("volume", user), A("fee_config"),
      A("fee_program"), Of("buyback", x.buyback), A("authority")>>

\* A sale of a coin with cashback names the seller's volume account as well.
SellLayout(user, x, cashback) ==
    <<A("global"), Of("fee", x.fee), A("mint"), A("curve"),
      Ata("curve", x.program), Ata(user, x.program), Of("user", user), A("system"), A("vault"), Of("program", x.program),
      A("events"), A("pump"), A("fee_config"), A("fee_program")>>
    \o (IF cashback THEN <<Of("volume", user)>> ELSE <<>>)
    \o <<Of("buyback", x.buyback), A("authority")>>

\* A trade of the mint on another venue has accounts of its own, as many as a
\* purchase or more.
ForeignKinds == {"foreign", "long_foreign"}

ForeignLayout(size) == [n \in 1..size |-> A("foreign")]

Kinds == {"none", "short", "sell", "cashback", "old_buy", "buy"} \cup ForeignKinds

Mirror == [kind : Kinds, user : Users, x : Variant]

\* The accounts of the trade the mirror was taken from.
Listed(mirror) ==
    IF mirror.kind = "none" THEN <<>>
    ELSE IF mirror.kind = "sell" THEN SellLayout(mirror.user, mirror.x, FALSE)
    ELSE IF mirror.kind = "cashback" THEN SellLayout(mirror.user, mirror.x, TRUE)
    ELSE IF mirror.kind = "old_buy" THEN SubSeq(BuyLayout(mirror.user, mirror.x), 1, 17)
    ELSE IF mirror.kind = "short" THEN SubSeq(BuyLayout(mirror.user, mirror.x), 1, 12)
    ELSE IF mirror.kind = "foreign" THEN ForeignLayout(18)
    ELSE IF mirror.kind = "long_foreign" THEN ForeignLayout(20)
    ELSE BuyLayout(mirror.user, mirror.x)

\* replace_user_pdas: two slots, and whatever derives from the source.
Replaced(list, source, program) ==
    [n \in DOMAIN list |->
        IF n = 6 THEN Ata(Us, program)
        ELSE IF n = 7 THEN Of("user", Us)
        ELSE IF list[n] = Of("volume", source) THEN Of("volume", Us)
        ELSE list[n]]

\* Mutant: the volume account of the reported wallet is the one that is replaced.
ReportedWallet(list, wallet) == wallet

\* Whose mirror it is: its own seventh account, whoever was reported.
SourceOf(list, wallet) == IF Len(list) >= 7 THEN list[7].of ELSE wallet

\* PUMPFUN_BUY_MIRROR_TRUSTED_SLOTS
Trusted == {2, 10, 17, 18}

\* Slots compared without a curve: all but the fee account, the vault, the authority.
Compared == (1..18) \ {2, 10, 18}

\* The list, with our accounts in it, is what the program would list, on some slots.
Agrees(list, wallet, program, slots) ==
    LET mine == Replaced(list, SourceOf(list, wallet), program)
        ours == BuyLayout(Us, Usual(program))
    IN  \A n \in slots : mine[n] = ours[n]

\* validate_direct_mirror_buy_accounts, with a curve and without: only a list of 18
\* is compared.
ValidWith(list, wallet, program, curve) ==
    /\ Len(list) >= 16
    /\ Len(list) = 18 => curve.creator /\ Agrees(list, wallet, program, (1..18) \ Trusted)

ValidWithout(list, wallet, program) ==
    /\ Len(list) >= 16
    /\ Len(list) = 18 => Agrees(list, wallet, program, Compared)

-----------------------------------------------------------------------------
(* What is built                                                            *)

Nobody(role) == [role |-> role, of |-> "nobody"]

\* What build_buy_instruction_from_mirror takes a list of some length for.
Picked(list) ==
    IF Len(list) >= 18
    THEN [vault |-> list[10], program |-> list[9], buyback |-> list[17], authority |-> list[18]]
    ELSE IF Len(list) = 17
    THEN [vault |-> list[10], program |-> list[9], buyback |-> Of("buyback", "usual"),
          authority |-> Nobody("authority")]
    ELSE IF Len(list) = 16
    THEN [vault |-> list[9], program |-> list[10], buyback |-> list[15], authority |-> list[16]]
    ELSE [vault |-> Nobody("vault"), program |-> Nobody("program"),
          buyback |-> Of("buyback", "usual"), authority |-> Nobody("authority")]

\* The purchase built from a mirror: 18 accounts, the user's own derived.
BuyFromMirror(list, wallet, program) ==
    LET mine == Replaced(list, SourceOf(list, wallet), program)
        part == Picked(mine)
    IN  <<mine[1], mine[2], mine[3], mine[4], mine[5], Ata(Us, program), Of("user", Us),
          A("system"), part.program, part.vault, A("events"), A("pump"), A("global_volume"),
          Of("volume", Us), A("fee_config"), A("fee_program"), part.buyback, part.authority>>

\* build_buy_instruction_standard leaves out the last account it does not know.
BuyStandard(program) == SubSeq(BuyLayout(Us, Usual(program)), 1, 17)

\* build_sell_instruction_from_mirror, from the mirror of the purchase.
SellFromMirror(list, program, cashback) ==
    LET part ==
            IF Len(list) >= 18
            THEN [vault |-> list[10], buyback |-> list[17], authority |-> list[18]]
            ELSE IF Len(list) >= 16
            THEN [vault |-> list[9], buyback |-> list[15], authority |-> list[16]]
            ELSE [vault |-> Nobody("vault"), buyback |-> Of("buyback", "usual"),
                  authority |-> Of("authority", "usual")]
        shared ==
            IF list # <<>> THEN SubSeq(list, 1, 5)
            ELSE <<A("global"), Of("fee", "usual"), Nobody("mint"), Nobody("curve"),
                   Nobody("curve_ata")>>
    IN  shared
        \o <<Ata(Us, program), Of("user", Us), A("system"), part.vault, Of("program", program),
             A("events"), A("pump"), A("fee_config"), A("fee_program")>>
        \o (IF cashback THEN <<Of("volume", Us)>> ELSE <<>>)
        \o <<part.buyback, part.authority>>

\* External: what the chain takes for a purchase or a sale of a mint.
Accepted(list, program) ==
    \E x \in Variant : x.program = program /\ list = BuyLayout(Us, x)

SaleAccepted(list, program, cashback) ==
    \E x \in Variant : x.program = program /\ list = SellLayout(Us, x, cashback)
=============================================================================
