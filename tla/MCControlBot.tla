---------------------------- MODULE MCControlBot ----------------------------
(***************************************************************************)
(* The commands the runs of ControlBot send: every kind of command, with   *)
(* the settings that store something else than what was typed.             *)
(***************************************************************************)
EXTENDS ControlBot

CONSTANTS w1, w2

MCConfig ==
    [enabled |-> TRUE, wallets |-> {w1}, quorum |-> 2, entry |-> "buy", exit |-> "tp_sl",
     external |-> "dry_run", venues |-> TRUE, num |-> [k \in NumKeys |-> 1]]

Typed(n, w) == [isNum |-> n # 99, num |-> n, word |-> w]

Say(op, id) == [op |-> op, group |-> id, on |-> FALSE, wallet |-> w2, key |-> "",
                raw |-> Typed(99, "")]

Set(id, key, raw) == [Say("set", id) EXCEPT !.key = key, !.raw = raw]

\* /set g1 external off, as the session summary writes it.
NamedCommands == {[Set(1, "external", Typed(0, "off")) EXCEPT !.op = "set_named"]}

MCCommands ==
    {Say(op, None) : op \in {"stop", "toggle", "add", "addw", "rename", "report", "look"}}
    \cup {Say("del", 2), Say("use", 1), Say("enable", 2), [Say("rmw", 1) EXCEPT !.wallet = w1]}
    \cup {Set(None, "external", Typed(99, "dry")), Set(None, "buy", Typed(NaN, "nan"))}
    \cup NamedCommands

=============================================================================
