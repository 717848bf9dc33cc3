----------------------------- MODULE MCBuyGate -----------------------------
(* BuyGate on small instances: tasks and keys are interchangeable.          *)
EXTENDS BuyGate, TLC

TaskSymmetry == Permutations(Tasks)

BothLanes == [native |-> 2, wrapper |-> 1]

OneEach == [native |-> 1, wrapper |-> 1]
=============================================================================
