-------------------------- MODULE PositionDiagram --------------------------
(***************************************************************************)
(* What a position promises: the state diagram at the head of position.rs  *)
(* with, beside each position, the sellers that are at work on it.  The    *)
(* tasks, the wallet and the chain are left out.  From mark_selling on one *)
(* seller holds the position and nobody else can take it; only the holder  *)
(* closes it or gives it back; it may fail or be forgotten in the holder's *)
(* hands, and only from there does a failed position ever come back.       *)
(***************************************************************************)

CONSTANTS Groups, Sellers

VARIABLES
    state,              \* the state of each group's position, or "none"
    held                \* the sellers between mark_selling and the end of a sale

vars == <<state, held>>

Becomes(g, next) == state' = [state EXCEPT ![g] = next]

Init ==
    /\ state = [g \in Groups |-> "none"]
    /\ held = [g \in Groups |-> {}]

\* The buy is out.
File(g) ==
    /\ state[g] = "none" /\ held[g] = {}
    /\ Becomes(g, "Confirming")
    /\ UNCHANGED held

Confirm(g) ==
    /\ state[g] = "Confirming"
    /\ Becomes(g, "Active")
    /\ UNCHANGED held

\* Any state can fail, and whoever holds the position keeps it.
Fail(g) ==
    /\ state[g] # "none"
    /\ Becomes(g, "Failed")
    /\ UNCHANGED held

Take(g, s) ==
    /\ state[g] \in {"Confirming", "Active"} /\ held[g] = {}
    /\ Becomes(g, "Selling")
    /\ held' = [held EXCEPT ![g] = {s}]

Close(g, s) ==
    /\ state[g] = "Selling" /\ held[g] = {s}
    /\ Becomes(g, "Closed")
    /\ held' = [held EXCEPT ![g] = {}]

\* The sale failed, or a part was sold: the position is what its seller read
\* before it took it, or Active.  With a second seller it may stay on sale though
\* nobody sells it: the other one had it when it was read, or none was sold of it.
GiveBack(g, s) ==
    /\ held[g] = {s}
    /\ \/ state[g] \in {"none", "Failed"} /\ UNCHANGED state
       \/ state[g] # "none" /\ \E found \in {"Confirming", "Active", "Failed"} : Becomes(g, found)
       \/ state[g] # "none" /\ Sellers # {s} /\ Becomes(g, "Selling")
    /\ held' = [held EXCEPT ![g] = {}]

Forget(g) ==
    /\ state[g] \in {"Closed", "Failed"}
    /\ Becomes(g, "none")
    /\ UNCHANGED held

Next ==
    \E g \in Groups :
        \/ File(g) \/ Confirm(g) \/ Fail(g) \/ Forget(g)
        \/ \E s \in Sellers : Take(g, s) \/ Close(g, s) \/ GiveBack(g, s)

Spec == Init /\ [][Next]_vars
=============================================================================
