---------------------------- MODULE MCConsensus ----------------------------
(***************************************************************************)
(* Bounded instances of Consensus for TLC.                                 *)
(***************************************************************************)
EXTENDS Consensus, TLC

\* What the parser delivers for one trade: before execution as a direct call
\* (instruction, accounts, amount), before execution through a wrapper (nothing
\* but the origin), after execution as a bare account list that does not count.
DirectPre  == [instr |-> TRUE, accounts |-> TRUE, sol |-> TRUE,
               pre |-> TRUE, wrapper |-> FALSE]
WrapperPre == [instr |-> FALSE, accounts |-> FALSE, sol |-> FALSE,
               pre |-> TRUE, wrapper |-> TRUE]
LandedBare == [instr |-> FALSE, accounts |-> TRUE, sol |-> FALSE,
               pre |-> FALSE, wrapper |-> FALSE]

MCKinds == {DirectPre, WrapperPre, LandedBare}

TwoKinds == {DirectPre, LandedBare}

WalletSymmetry == Permutations(Wallets) \cup Permutations(Sigs)
=============================================================================
