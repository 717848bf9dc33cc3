--------------------------- MODULE MCTradeStream ---------------------------
(***************************************************************************)
(* The transactions the runs of TradeStream send: two instructions at most *)
(* of the outer level and one within, on every venue, with and without     *)
(* accounts in lookup tables.                                              *)
(***************************************************************************)
EXTENDS TradeStream

CONSTANTS w1, w2, s1

Call(venue, says, hidden) ==
    [venue |-> venue, says |-> says, pays |-> says # "sell", swap |-> TRUE, hidden |-> hidden, slots |-> 18,
     long |-> TRUE, lamports |-> 1]

Calling ==
    {Call("pump", "buy", {}), Call("pump", "sell", {"program", "rest"}),
     Call("pump", "unclear", {}), Call("pumpswap", "sell", {"mint"}),
     Call("cpmm", "buy", {"program"}), Call("cpmm", "sell", {"source"}),
     Call("amm", "buy", {}), Call("clmm", "sell", {}), Call("other", "unclear", {})}

Within == {Call("pump", "buy", {}), Call("dlmm", "buy", {})}

Before == {Call("cpmm", "sell", {})}

Outer  == {<<>>} \cup {<<c>> : c \in Calling} \cup {<<b, c>> : b \in Before, c \in Calling}
Inner  == {<<>>} \cup {<<c>> : c \in Within}

AllTxs ==
    {[sig |-> s1, wallets |-> <<w1>>, late |-> <<w2>>, outer |-> out, inner |-> in,
      pumpKey |-> p, curve |-> p, wsol |-> FALSE, guess |-> "legacy", fails |-> FALSE,
      paid |-> 0, listed |-> FALSE, token |-> t] :
        out \in Outer, in \in Inner, p \in BOOLEAN, t \in TokenProgs}

MCTxs == {x \in AllTxs : Plausible(x)}
=============================================================================
