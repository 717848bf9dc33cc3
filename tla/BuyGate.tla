------------------------------ MODULE BuyGate ------------------------------
(***************************************************************************)
(* The gate every buy passes in main.rs.  A buy is a task of its own: it   *)
(* waits a moment for a permit of its lane (8 native buys, 2 wrapper buys  *)
(* at once), claims its group and mint in a shared map, builds and sends   *)
(* the transaction, and gives the claim back: a submitted buy leaves a     *)
(* cooldown, a failed one nothing.  A sweep removes claims that are over   *)
(* or were never given back.                                               *)
(*                                                                         *)
(* One step of the clock is longer than the 25 ms a task may queue and     *)
(* shorter than the cooldown.  Which of the waiting tasks gets a free      *)
(* permit is left open (the semaphore is first come, first served).  How   *)
(* long a buy takes is left open too: the requests of an external buy may  *)
(* outlast the sweep, and then its claim is taken while it runs.           *)
(***************************************************************************)
EXTENDS Naturals, FiniteSets

CONSTANTS
    Tasks,          \* bound: buy tasks the run can spawn
    Keys,           \* group_mint_key: a group and a mint
    Lanes,          \* the two semaphores
    Permits,        \* lane -> how many buys at once
    Cooldown,       \* GROUP_MINT_DEDUP_SUCCESS_MS, in clock steps
    StaleAfter      \* GROUP_MINT_DEDUP_STALE_SECS, in clock steps

ASSUME TasksAssumption   == IsFiniteSet(Tasks)
ASSUME PermitsAssumption == Permits \in [Lanes -> Nat]
ASSUME TimesAssumption   == Cooldown \in Nat \ {0} /\ StaleAfter \in Nat

VARIABLES
    at,             \* where each task is
    key, lane,      \* what it buys, and whose permits it needs (drawn at the start)
    running,        \* how long its buy took so far, up to StaleAfter
    claims,         \* mint_dedup: key -> GroupMintClaim or NoClaim
    rest            \* history: clock steps since a buy of the key was submitted

vars == <<at, key, lane, running, claims, rest>>

\* GroupMintClaim: in_flight, what is left of the cooldown, and the time since
\* last_touched.
Claim == [held : BOOLEAN, inFlight : BOOLEAN, cooling : 0..Cooldown, idle : 0..StaleAfter]

NoClaim == [held |-> FALSE, inFlight |-> FALSE, cooling |-> 0, idle |-> 0]

InFlight == [held |-> TRUE, inFlight |-> TRUE, cooling |-> 0, idle |-> 0]

Submitted == [held |-> TRUE, inFlight |-> FALSE, cooling |-> Cooldown, idle |-> 0]

-----------------------------------------------------------------------------

\* Mutant: a claim that is cooling down is free again.
BusyInFlight(c) == c.inFlight

Busy(c) == c.inFlight \/ c.cooling > 0

\* Mutant: a claim in flight is kept for as long as it takes.
KeptInFlight(c) == c.inFlight \/ c.cooling > 0

\* Mutant: the sweep looks at the cooldown only.
KeptCooling(c) == c.cooling > 0

\* keep_group_mint_claim
Kept(c) == IF c.inFlight THEN c.idle < StaleAfter ELSE c.cooling > 0

\* A permit is held from the moment it is acquired to the end of the task.
Occupied(l) == Cardinality({t \in Tasks : at[t] = "buying" /\ lane[t] = l})

\* spawn_buy_execution, spawn_external_buy_execution
Spawn(t) ==
    /\ at[t] = "idle"
    /\ at' = [at EXCEPT ![t] = "queued"]
    /\ UNCHANGED <<key, lane, running, claims, rest>>

QueueTimeout(t) ==
    /\ at[t] = "queued"
    /\ at' = [at EXCEPT ![t] = "done"]
    /\ UNCHANGED <<key, lane, running, claims, rest>>

\* A permit is free and try_start_group_mint gets the claim.
StartBuy(t) ==
    /\ at[t] = "queued"
    /\ Occupied(lane[t]) < Permits[lane[t]]
    /\ ~Busy(claims[key[t]])
    /\ claims' = [claims EXCEPT ![key[t]] = InFlight]
    /\ at' = [at EXCEPT ![t] = "buying"]
    /\ UNCHANGED <<key, lane, running, rest>>

\* The claim is another's: the task ends, having touched the claim all the same.
Refused(t) ==
    /\ at[t] = "queued"
    /\ Occupied(lane[t]) < Permits[lane[t]]
    /\ Busy(claims[key[t]])
    /\ claims' = [claims EXCEPT ![key[t]].idle = 0]
    /\ at' = [at EXCEPT ![t] = "done"]
    /\ UNCHANGED <<key, lane, running, rest>>

\* finish_group_mint after a submitted buy; whose claim it finds is not looked at.
FinishSubmitted(t) ==
    /\ at[t] = "buying"
    /\ claims' = [claims EXCEPT ![key[t]] = IF @.held THEN Submitted ELSE @]
    /\ rest' = [rest EXCEPT ![key[t]] = 0]
    /\ at' = [at EXCEPT ![t] = "done"]
    /\ UNCHANGED <<key, lane, running>>

FinishFailed(t) ==
    /\ at[t] = "buying"
    /\ claims' = [claims EXCEPT ![key[t]] = NoClaim]
    /\ at' = [at EXCEPT ![t] = "done"]
    /\ UNCHANGED <<key, lane, running, rest>>

\* The task dies in execute_buy: the permit is released, the claim is not.
Panic(t) ==
    /\ at[t] = "buying"
    /\ at' = [at EXCEPT ![t] = "done"]
    /\ UNCHANGED <<key, lane, running, claims, rest>>

\* The task that retains the claims worth keeping, once a second.
Sweep ==
    /\ claims' = [k \in Keys |-> IF Kept(claims[k]) THEN claims[k] ELSE NoClaim]
    /\ UNCHANGED <<at, key, lane, running, rest>>

Later(n, cap) == IF n < cap THEN n + 1 ELSE n

\* Mutant: the cooldown is counted down past its end.
AgedUnchecked(c) ==
    IF ~c.held THEN c ELSE [c EXCEPT !.cooling = @ - 1, !.idle = Later(@, StaleAfter)]

Aged(c) ==
    IF ~c.held THEN c
    ELSE [c EXCEPT !.cooling = IF @ > 0 THEN @ - 1 ELSE @, !.idle = Later(@, StaleAfter)]

\* The clock moves: nobody queues that long, but a buy may take any time.
Tick ==
    /\ \A t \in Tasks : at[t] # "queued"
    /\ running' = [t \in Tasks |->
                     IF at[t] = "buying" THEN Later(running[t], StaleAfter) ELSE running[t]]
    /\ claims' = [k \in Keys |-> Aged(claims[k])]
    /\ rest' = [k \in Keys |-> Later(rest[k], Cooldown)]
    /\ UNCHANGED <<at, key, lane>>

-----------------------------------------------------------------------------

Init ==
    /\ at = [t \in Tasks |-> "idle"]
    /\ key \in [Tasks -> Keys] /\ lane \in [Tasks -> Lanes]
    /\ running = [t \in Tasks |-> 0]
    /\ claims = [k \in Keys |-> NoClaim]
    /\ rest = [k \in Keys |-> Cooldown]

Finish(t) == FinishSubmitted(t) \/ FinishFailed(t) \/ Panic(t)

TaskStep(t) == Spawn(t) \/ QueueTimeout(t) \/ StartBuy(t) \/ Refused(t) \/ Finish(t)

Next == (\E t \in Tasks : TaskStep(t)) \/ Sweep \/ Tick

Spec == Init /\ [][Next]_vars

\* The queue timer fires, a buy returns, the sweep runs and time passes.
Fairness ==
    /\ \A t \in Tasks : WF_vars(QueueTimeout(t)) /\ WF_vars(Finish(t))
    /\ WF_vars(Sweep) /\ WF_vars(Tick)

FairSpec == Spec /\ Fairness

-----------------------------------------------------------------------------
(* Properties                                                               *)

\* Every variable keeps its shape; a claim's timers stay in their range.
TypeOK ==
    /\ at \in [Tasks -> {"idle", "queued", "buying", "done"}]
    /\ key \in [Tasks -> Keys] /\ lane \in [Tasks -> Lanes]
    /\ running \in [Tasks -> 0..StaleAfter]
    /\ claims \in [Keys -> Claim]
    /\ rest \in [Keys -> 0..Cooldown]

\* The buys of a key under way, and those, ended ones too, that took as long as
\* the sweep waits before it takes a claim away.
Buying(k)  == {t \in Tasks : at[t] = "buying" /\ key[t] = k}
Overran(k) == {t \in Tasks : key[t] = k /\ running[t] >= StaleAfter}

\* try_start_group_mint lets one buy of a group and mint through at a time, and
\* each buy that outlasts the sweep lets in one more at most: although the end of
\* a buy gives back whatever claim it finds, the buys let in by mistake do not
\* let in others in their turn.
OneBuyUnlessOverrun ==
    \A k \in Keys : Cardinality(Buying(k)) <= 1 + Cardinality(Overran(k))

\* After a submitted buy the same group does not buy the mint again before the
\* cooldown is over, even when other tasks fail, are refused or are swept; unless
\* a buy of theirs outlasted the sweep, whose end may erase the cooldown.
CooldownHonoured ==
    [][\A t \in Tasks : at[t] # "buying" /\ at'[t] = "buying" =>
          rest[key[t]] = Cooldown \/ Overran(key[t]) # {}]_vars

\* No claim blocks its group and mint for ever, not even one whose task died.
ClaimsEnd == \A k \in Keys : claims[k].held ~> ~claims[k].held
=============================================================================
