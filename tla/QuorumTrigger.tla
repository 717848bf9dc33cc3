--------------------------- MODULE QuorumTrigger ---------------------------
(***************************************************************************)
(* What the consensus engine promises to the buy executor, for one copy    *)
(* group and one token mint, with every detail of how votes are stored,    *)
(* upgraded, expired or cleaned up left out: wallets are collected while   *)
(* fewer than a quorum of them agree, the trigger is sent by the very step *)
(* that completes the quorum, and no second trigger is sent until the      *)
(* round has been retracted below the quorum or forgotten.                 *)
(***************************************************************************)
EXTENDS Naturals, FiniteSets

CONSTANT Wallets        \* target wallets whose trades are copied

VARIABLES
    phase,              \* "idle", "collecting" or "fired"
    quorum,             \* wallets the current round needs (0 when idle)
    votes,              \* wallets that currently count
    fires               \* triggers sent so far

vars == <<phase, quorum, votes, fires>>

Init ==
    /\ phase = "idle"
    /\ quorum = 0
    /\ votes = {}
    /\ fires = 0

\* A round is open and short of its quorum after the step.
Collect ==
    /\ phase # "fired"
    /\ phase' = "collecting"
    /\ votes' \subseteq Wallets
    /\ quorum' \in Nat \ {0}
    /\ phase = "collecting" => quorum' = quorum
    /\ Cardinality(votes') < quorum'
    /\ UNCHANGED fires

\* The step that completes the quorum sends the one trigger of the round.
Fire ==
    /\ phase # "fired"
    /\ phase' = "fired"
    /\ votes' \subseteq Wallets
    /\ quorum' \in Nat \ {0}
    /\ phase = "collecting" => quorum' = quorum
    /\ Cardinality(votes') >= quorum'
    /\ fires' = fires + 1

\* Votes of a fired round may expire or be upgraded; nothing is sent.
Settle ==
    /\ phase = "fired"
    /\ votes' \subseteq Wallets
    /\ UNCHANGED <<phase, quorum, fires>>

\* A failed trade takes a fired round back below its quorum.
Retract ==
    /\ phase = "fired"
    /\ phase' = "collecting"
    /\ votes' \subseteq Wallets
    /\ Cardinality(votes') < quorum
    /\ UNCHANGED <<quorum, fires>>

Forget ==
    /\ phase # "idle"
    /\ phase' = "idle"
    /\ quorum' = 0
    /\ votes' = {}
    /\ UNCHANGED fires

Next == Collect \/ Fire \/ Settle \/ Retract \/ Forget

Spec == Init /\ [][Next]_vars
=============================================================================
