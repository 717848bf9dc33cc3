------------------------ MODULE MCPositionLifecycle ------------------------
(* Small instances of PositionLifecycle for TLC.                             *)
EXTENDS PositionLifecycle, TLC

\* Interchangeable copy groups, where no liveness is checked.
GroupSymmetry == Permutations(Groups)
=============================================================================
