--------------------------- MODULE MCTradeIntake ---------------------------
(***************************************************************************)
(* Two wallets that trade one mint, directly, through a wrapper and on a   *)
(* venue outside pump.fun, and the groups that follow them.                *)
(***************************************************************************)
EXTENDS TradeIntake

CONSTANTS w1, w2, s1, s2, s3, s4

Call(venue, says, hidden, lamports) ==
    [venue |-> venue, says |-> says, pays |-> says # "sell", swap |-> TRUE, hidden |-> hidden, slots |-> 18,
     long |-> TRUE, lamports |-> lamports]

Buying(amount) == <<Call("pump", "buy", {}, amount)>>

Sends(sig, w, out, in, fails) ==
    [sig |-> sig, wallets |-> <<w>>, late |-> <<>>, outer |-> out, inner |-> in,
     pumpKey |-> TRUE, curve |-> out = <<>>, wsol |-> TRUE, guess |-> "legacy",
     fails |-> fails, paid |-> 1, listed |-> TRUE, token |-> "legacy"]

\* A buy of each wallet, the first failing, the second through a wrapper; another
\* on a different venue; a sale whose mint is in a lookup table.
MCTxs ==
    {Sends(s1, w1, Buying(1), <<>>, TRUE),
     Sends(s2, w2, <<>>, Buying(1), FALSE),
     Sends(s3, w2, <<Call("cpmm", "buy", {}, 0)>>, <<>>, FALSE),
     Sends(s4, w1, <<Call("pump", "sell", {"mint"}, 0)>>, <<>>, FALSE)}

\* A buy, and later one of each wallet through a wrapper.
WrapperTxs ==
    {Sends(s1, w1, Buying(1), <<>>, FALSE),
     Sends(s2, w2, <<>>, Buying(1), FALSE), Sends(s3, w1, <<>>, Buying(1), FALSE)}

Setting0 == [enabled |-> TRUE, wallets |-> {w1, w2}, quorum |-> 2, window |-> 1,
             entry |-> "buy", follow |-> FALSE, external |-> "live", least |-> 0]

MCSettings ==
    {Setting0,
     [Setting0 EXCEPT !.quorum = 1, !.least = 2],
     [Setting0 EXCEPT !.wallets = {w1}, !.entry = "sell", !.follow = TRUE, !.quorum = 1]}

VoteSettings == {Setting0}
=============================================================================
