----------------------------- MODULE MCBuyPath -----------------------------
(***************************************************************************)
(* BuyPath with amounts of a few units: a fresh curve, one that is nearly  *)
(* sold out, one that is complete and one whose creator is not known.      *)
(***************************************************************************)
EXTENDS BuyPath

CONSTANTS u1, u2

OneCurve(tokens, sol, left, complete, creator) ==
    [tokens |-> tokens, sol |-> sol, left |-> left, complete |-> complete, creator |-> creator]

MCCurves ==
    {OneCurve(100, 3, 80, FALSE, TRUE), OneCurve(100, 3, 1, FALSE, TRUE),
     OneCurve(100, 3, 0, TRUE, TRUE),
     OneCurve(100, 3, 80, FALSE, FALSE)}

\* The fee account rotates; of a purchase's mirror, the account at slot 16 as well.
MCMirrors ==
    {[kind |-> k, user |-> u1, x |-> [fee |-> "other", buyback |-> "usual", program |-> p]] :
        k \in Kinds, p \in TokenProgs}
    \cup
    {[kind |-> "buy", user |-> u1, x |-> [fee |-> "other", buyback |-> "other", program |-> p]] :
        p \in TokenProgs}

MCTargets ==
    {[kind |-> "none", tokens |-> 0, cost |-> 0], [kind |-> "buy", tokens |-> 5, cost |-> 2],
     [kind |-> "buy", tokens |-> 500, cost |-> 1], [kind |-> "exact", tokens |-> 0, cost |-> 2]}

MCCoins == {[program |-> "legacy", cashback |-> FALSE], [program |-> "2022", cashback |-> TRUE]}
=============================================================================
