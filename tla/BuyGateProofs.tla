--------------------------- MODULE BuyGateProofs ---------------------------
(***************************************************************************)
(* One buy at a time and an honoured cooldown, for any finite number of    *)
(* tasks, any groups, mints, lanes and permits, and buys that take as long *)
(* as they like.                                                           *)
(*                                                                         *)
(* A buy that outlasts the sweep lets another in, and its end gives back a *)
(* claim that is not its own.  The count is kept nevertheless (Counted):   *)
(* every end of a buy takes one from both sides, and a claim in flight is  *)
(* swept only when all the buys of its key have overrun, because a claim   *)
(* is never older than a buy that runs beside it (Guarded).  While no buy  *)
(* of a key overran, its one buy (Alone) still has its claim, and the      *)
(* claim outlives the cooldown (Cooled).                                   *)
(***************************************************************************)
EXTENDS BuyGate, FiniteSetTheorems, TLAPS

\* Without an overrun, a key has one buy under way at most.
Alone ==
    \A t, u \in Tasks :
        at[t] = "buying" /\ at[u] = "buying" /\ t # u /\ key[t] = key[u] =>
            Overran(key[t]) # {}

\* A claim in flight is no older than any running buy of its key; without an
\* overrun the buy still has its claim, and did not start inside a cooldown.
Guarded ==
    \A t \in Tasks : at[t] = "buying" =>
        /\ claims[key[t]].inFlight =>
              claims[key[t]].held /\ claims[key[t]].idle <= running[t]
        /\ Overran(key[t]) = {} =>
              claims[key[t]].held /\ claims[key[t]].inFlight /\ rest[key[t]] = Cooldown

\* Without an overrun, the claim stands until the cooldown is over, with enough
\* of it left.
Cooled ==
    \A k \in Keys : Overran(k) = {} /\ rest[k] < Cooldown =>
        /\ claims[k].held
        /\ ~claims[k].inFlight
        /\ claims[k].cooling + rest[k] >= Cooldown

\* A claim in flight stands for one running buy; each of the others has an
\* overrun of its own to answer for it.
InFlightCount(c) == IF c.inFlight THEN 1 ELSE 0

Counted ==
    \A k \in Keys :
        Cardinality(Buying(k)) <= Cardinality(Overran(k)) + InFlightCount(claims[k])

IInv == TypeOK /\ Alone /\ Guarded /\ Cooled /\ Counted

\* A claim keeps its shape when it is opened, closed, touched, swept or aged.
LEMMA ClaimShapes ==
    /\ NoClaim \in Claim /\ InFlight \in Claim /\ Submitted \in Claim
    /\ \A c \in Claim : [c EXCEPT !.idle = 0] \in Claim /\ Aged(c) \in Claim
<1>1. NoClaim \in Claim /\ InFlight \in Claim /\ Submitted \in Claim
  BY TimesAssumption DEF Claim, NoClaim, InFlight, Submitted
<1>2. ASSUME NEW c \in Claim
      PROVE  [c EXCEPT !.idle = 0] \in Claim
  BY TimesAssumption DEF Claim
<1>3. ASSUME NEW c \in Claim
      PROVE  Aged(c) \in Claim
  <2> DEFINE left == IF c.cooling > 0 THEN c.cooling - 1 ELSE c.cooling
             idle == Later(c.idle, StaleAfter)
  <2>1. left \in 0..Cooldown /\ idle \in 0..StaleAfter
    BY TimesAssumption DEF Claim, Later
  <2>2. Aged(c) = IF ~c.held THEN c ELSE [c EXCEPT !.cooling = left, !.idle = idle]
    BY DEF Aged
  <2> HIDE DEF left, idle
  <2> QED BY <2>1, <2>2 DEF Claim
<1> QED BY <1>1, <1>2, <1>3

\* One step of the clock: a held claim stays held, as old as before plus one,
\* and what is left of its cooldown shrinks by one.
LEMMA AgedClaim ==
    ASSUME NEW c \in Claim, c.held
    PROVE  /\ Aged(c).held /\ (Aged(c).inFlight <=> c.inFlight)
           /\ c.idle \in Nat /\ Aged(c).idle \in Nat /\ Aged(c).idle <= c.idle + 1
           /\ c.cooling \in Nat
           /\ c.cooling > 0 => Aged(c).cooling = c.cooling - 1
<1> DEFINE left == IF c.cooling > 0 THEN c.cooling - 1 ELSE c.cooling
           idle == Later(c.idle, StaleAfter)
<1>1. idle \in Nat /\ idle <= c.idle + 1 /\ c.idle \in Nat /\ c.cooling \in Nat
  BY TimesAssumption DEF Claim, Later
<1>2. c.cooling > 0 => left = c.cooling - 1
  OBVIOUS
<1>3. Aged(c) = [c EXCEPT !.cooling = left, !.idle = idle]
  BY DEF Aged
<1> HIDE DEF left, idle
<1> QED BY <1>1, <1>2, <1>3 DEF Claim

\* The buys under way and the overruns of a key can be counted.
LEMMA Counts ==
    ASSUME TypeOK, NEW k \in Keys
    PROVE  /\ IsFiniteSet(Buying(k)) /\ Cardinality(Buying(k)) \in Nat
           /\ IsFiniteSet(Overran(k)) /\ Cardinality(Overran(k)) \in Nat
<1>1. Buying(k) \subseteq Tasks /\ Overran(k) \subseteq Tasks
  BY DEF Buying, Overran
<1> QED BY <1>1, TasksAssumption, FS_Subset, FS_CardinalityType

\* The initial states are in the invariant: no claims, no buys.
LEMMA InitInv == Init => IInv
<1> SUFFICES ASSUME Init PROVE IInv
  OBVIOUS
<1> USE TimesAssumption DEF Init
<1>1. TypeOK
  BY ClaimShapes DEF TypeOK
<1>2. Alone /\ Guarded
  BY DEF Alone, Guarded
<1>3. Cooled
  BY DEF Cooled
<1>4. Counted
  <2> SUFFICES ASSUME NEW k \in Keys
               PROVE  Cardinality(Buying(k)) <=
                        Cardinality(Overran(k)) + InFlightCount(claims[k])
    BY DEF Counted
  <2>1. Buying(k) = {}
    BY DEF Buying
  <2>2. Cardinality(Buying(k)) = 0
    BY <2>1, FS_EmptySet
  <2> QED BY <2>2, <1>1, Counts DEF InFlightCount
<1> QED BY <1>1, <1>2, <1>3, <1>4 DEF IInv

\* A step that starts no buy and leaves the claims and timers alone.
LEMMA QuietInv ==
    ASSUME IInv, key' = key, lane' = lane, running' = running, rest' = rest,
           claims' = claims, at' \in [Tasks -> {"idle", "queued", "buying", "done"}],
           \A u \in Tasks : at'[u] = "buying" => at[u] = "buying"
    PROVE  IInv'
<1>1. \A k : Overran(k)' = Overran(k)
  BY DEF Overran
<1>2. TypeOK'
  BY DEF IInv, TypeOK
<1>3. Alone' /\ Guarded' /\ Cooled'
  BY <1>1 DEF IInv, Alone, Guarded, Cooled
<1>4. Counted'
  <2> SUFFICES ASSUME NEW k \in Keys
               PROVE  Cardinality(Buying(k)') <=
                        Cardinality(Overran(k)') + InFlightCount(claims'[k])
    BY DEF Counted
  <2>1. Buying(k)' \subseteq Buying(k)
    BY DEF Buying
  <2>2. /\ IsFiniteSet(Buying(k)) /\ Cardinality(Buying(k)) \in Nat
        /\ Cardinality(Overran(k)) \in Nat
    BY Counts DEF IInv
  <2>3. Cardinality(Buying(k)') <= Cardinality(Buying(k)) /\ Cardinality(Buying(k)') \in Nat
    BY <2>1, <2>2, FS_Subset, FS_CardinalityType
  <2> QED BY <2>2, <2>3, <1>1 DEF IInv, Counted, InFlightCount
<1> QED BY <1>2, <1>3, <1>4 DEF IInv

\* A task that comes, leaves the queue or dies changes no claim.
LEMMA QuietKeeps ==
    ASSUME IInv, NEW t \in Tasks, Spawn(t) \/ QueueTimeout(t) \/ Panic(t)
    PROVE  IInv'
<1>1. /\ key' = key /\ lane' = lane /\ running' = running /\ rest' = rest
      /\ claims' = claims
      /\ at' \in [Tasks -> {"idle", "queued", "buying", "done"}]
      /\ \A u \in Tasks : at'[u] = "buying" => at[u] = "buying"
  BY DEF Spawn, QueueTimeout, Panic, IInv, TypeOK
<1> QED BY <1>1, QuietInv

\* A buy that starts finds no claim in flight and, unless a buy of its key
\* overran, no cooldown left.
LEMMA StartKeeps ==
    ASSUME IInv, NEW t \in Tasks, StartBuy(t)
    PROVE  IInv'
<1> USE TimesAssumption DEF IInv, TypeOK
<1>1. /\ key' = key /\ lane' = lane /\ rest' = rest /\ running' = running
      /\ at' = [at EXCEPT ![t] = "buying"]
      /\ claims' = [claims EXCEPT ![key[t]] = InFlight]
      /\ at[t] = "queued"
  BY DEF StartBuy
<1>2. key[t] \in Keys /\ claims[key[t]] \in Claim /\ rest[key[t]] \in 0..Cooldown
  OBVIOUS
<1>3. ~claims[key[t]].inFlight /\ claims[key[t]].cooling = 0
  BY <1>2 DEF StartBuy, Busy, Claim
<1>4. \A k : Overran(k)' = Overran(k)
  BY <1>1 DEF Overran
<1>5. Overran(key[t]) = {} => rest[key[t]] = Cooldown
  BY <1>2, <1>3 DEF Cooled
<1>6. \A u \in Tasks : at[u] = "buying" /\ key[u] = key[t] => Overran(key[t]) # {}
  BY <1>3 DEF Guarded
<1>7. TypeOK'
  BY <1>1, <1>2, ClaimShapes
<1>8. Alone'
  <2> SUFFICES ASSUME NEW u \in Tasks, NEW v \in Tasks,
                      at'[u] = "buying", at'[v] = "buying", u # v, key[u] = key[v]
               PROVE  Overran(key[u]) # {}
    BY <1>1, <1>4 DEF Alone
  <2>1. CASE u = t
    BY <2>1, <1>1, <1>6
  <2>2. CASE v = t
    BY <2>2, <1>1, <1>6
  <2>3. CASE u # t /\ v # t
    BY <2>3, <1>1 DEF Alone
  <2> QED BY <2>1, <2>2, <2>3
<1>9. Guarded'
  <2> SUFFICES ASSUME NEW u \in Tasks, at'[u] = "buying"
               PROVE  /\ claims'[key[u]].inFlight =>
                            claims'[key[u]].held /\ claims'[key[u]].idle <= running[u]
                      /\ Overran(key[u]) = {} =>
                            /\ claims'[key[u]].held /\ claims'[key[u]].inFlight
                            /\ rest[key[u]] = Cooldown
    BY <1>1, <1>4 DEF Guarded
  <2>1. CASE key[u] = key[t]
    <3>1. claims'[key[u]] = InFlight /\ running[u] \in Nat
      BY <2>1, <1>1, <1>2
    <3> QED BY <3>1, <2>1, <1>5 DEF InFlight
  <2>2. CASE key[u] # key[t]
    <3>1. at[u] = "buying" /\ claims'[key[u]] = claims[key[u]]
      BY <2>2, <1>1
    <3> QED BY <3>1 DEF Guarded
  <2> QED BY <2>1, <2>2
<1>10. Cooled'
  <2> SUFFICES ASSUME NEW k \in Keys, Overran(k) = {}, rest[k] < Cooldown
               PROVE  /\ claims'[k].held /\ ~claims'[k].inFlight
                      /\ claims'[k].cooling + rest[k] >= Cooldown
    BY <1>1, <1>4 DEF Cooled
  <2>1. k # key[t] /\ claims'[k] = claims[k]
    BY <1>1, <1>5
  <2> QED BY <2>1 DEF Cooled
<1>11. Counted'
  <2> SUFFICES ASSUME NEW k \in Keys
               PROVE  Cardinality(Buying(k)') <=
                        Cardinality(Overran(k)') + InFlightCount(claims'[k])
    BY DEF Counted
  <2>1. /\ IsFiniteSet(Buying(k)) /\ Cardinality(Buying(k)) \in Nat
        /\ Cardinality(Overran(k)) \in Nat
        /\ Cardinality(Buying(k)) <= Cardinality(Overran(k)) + InFlightCount(claims[k])
    BY Counts DEF Counted
  <2>2. CASE k = key[t]
    <3>1. Buying(k)' = Buying(k) \cup {t} /\ t \notin Buying(k)
      BY <2>2, <1>1 DEF Buying
    <3>2. Cardinality(Buying(k)') = Cardinality(Buying(k)) + 1
      BY <3>1, <2>1, FS_AddElement
    <3>3. InFlightCount(claims[k]) = 0 /\ InFlightCount(claims'[k]) = 1
      BY <2>2, <1>1, <1>3 DEF InFlightCount, InFlight
    <3> QED BY <2>1, <3>2, <3>3, <1>4
  <2>3. CASE k # key[t]
    <3>1. Buying(k)' = Buying(k) /\ claims'[k] = claims[k]
      BY <2>3, <1>1 DEF Buying
    <3> QED BY <2>1, <3>1, <1>4
  <2> QED BY <2>2, <2>3
<1> QED BY <1>7, <1>8, <1>9, <1>10, <1>11

\* A refused task touches the claim and nothing else of it.
LEMMA RefusalKeeps ==
    ASSUME IInv, NEW t \in Tasks, Refused(t)
    PROVE  IInv'
<1> USE TimesAssumption DEF IInv, TypeOK
<1>1. /\ key' = key /\ lane' = lane /\ rest' = rest /\ running' = running
      /\ at[t] = "queued" /\ at' = [at EXCEPT ![t] = "done"]
      /\ claims' = [claims EXCEPT ![key[t]] = [claims[key[t]] EXCEPT !.idle = 0]]
  BY DEF Refused
<1>2. key[t] \in Keys /\ claims[key[t]] \in Claim
  OBVIOUS
<1>3. \A k \in Keys : /\ claims'[k].held = claims[k].held
                      /\ claims'[k].inFlight = claims[k].inFlight
                      /\ claims'[k].cooling = claims[k].cooling
                      /\ claims'[k].idle = 0 \/ claims'[k].idle = claims[k].idle
  BY <1>1, <1>2 DEF Claim
<1>4. \A k : Overran(k)' = Overran(k) /\ Buying(k)' = Buying(k)
  BY <1>1 DEF Overran, Buying
<1>5. \A u \in Tasks : at'[u] = "buying" => at[u] = "buying"
  BY <1>1
<1>6. TypeOK'
  BY <1>1, <1>2, ClaimShapes
<1>7. Alone'
  BY <1>1, <1>4, <1>5 DEF Alone
<1>8. Guarded'
  <2> SUFFICES ASSUME NEW u \in Tasks, at[u] = "buying"
               PROVE  /\ claims'[key[u]].inFlight =>
                            claims'[key[u]].held /\ claims'[key[u]].idle <= running[u]
                      /\ Overran(key[u]) = {} =>
                            /\ claims'[key[u]].held /\ claims'[key[u]].inFlight
                            /\ rest[key[u]] = Cooldown
    BY <1>1, <1>4, <1>5 DEF Guarded
  <2>1. key[u] \in Keys /\ running[u] \in Nat
    OBVIOUS
  <2> QED BY <2>1, <1>3 DEF Guarded
<1>9. Cooled'
  BY <1>1, <1>3, <1>4 DEF Cooled
<1>10. Counted'
  BY <1>3, <1>4 DEF Counted, InFlightCount
<1> QED BY <1>6, <1>7, <1>8, <1>9, <1>10

\* The end of a buy, when it leaves in its claim's place one that is not in
\* flight, and the time of the last submitted buy and the cooldown agree.
LEMMA EndKeeps ==
    ASSUME IInv, NEW t \in Tasks, at[t] = "buying",
           at' = [at EXCEPT ![t] = "done"],
           key' = key, lane' = lane, running' = running,
           NEW c \in Claim, ~c.inFlight, claims' = [claims EXCEPT ![key[t]] = c],
           NEW r \in 0..Cooldown, rest' = [rest EXCEPT ![key[t]] = r],
           Overran(key[t]) = {} /\ r < Cooldown => c.held /\ c.cooling + r >= Cooldown
    PROVE  IInv'
<1> USE TimesAssumption DEF IInv, TypeOK
<1>1. key[t] \in Keys
  OBVIOUS
<1>2. \A k : Overran(k)' = Overran(k)
  BY DEF Overran
<1>3. \A u \in Tasks : at'[u] = "buying" =>
          /\ at[u] = "buying"
          /\ u # t
          /\ key[u] = key[t] => Overran(key[u]) # {}
  BY DEF Alone
<1>4. TypeOK'
  BY <1>1
<1>5. Alone'
  BY <1>2, <1>3 DEF Alone
<1>6. Guarded'
  <2> SUFFICES ASSUME NEW u \in Tasks, at'[u] = "buying"
               PROVE  /\ claims'[key[u]].inFlight =>
                            claims'[key[u]].held /\ claims'[key[u]].idle <= running[u]
                      /\ Overran(key[u]) = {} =>
                            /\ claims'[key[u]].held /\ claims'[key[u]].inFlight
                            /\ rest'[key[u]] = Cooldown
    BY <1>2 DEF Guarded
  <2>1. CASE key[u] = key[t]
    <3>1. claims'[key[u]] = c
      BY <2>1, <1>1
    <3> QED BY <3>1, <2>1, <1>3
  <2>2. CASE key[u] # key[t]
    <3>1. claims'[key[u]] = claims[key[u]] /\ rest'[key[u]] = rest[key[u]]
      BY <2>2
    <3> QED BY <3>1, <1>3 DEF Guarded
  <2> QED BY <2>1, <2>2
<1>7. Cooled'
  <2> SUFFICES ASSUME NEW k \in Keys, Overran(k) = {}, rest'[k] < Cooldown
               PROVE  /\ claims'[k].held /\ ~claims'[k].inFlight
                      /\ claims'[k].cooling + rest'[k] >= Cooldown
    BY <1>2 DEF Cooled
  <2>1. CASE k = key[t]
    BY <2>1, <1>1
  <2>2. CASE k # key[t]
    BY <2>2 DEF Cooled
  <2> QED BY <2>1, <2>2
<1>8. Counted'
  <2> SUFFICES ASSUME NEW k \in Keys
               PROVE  Cardinality(Buying(k)') <=
                        Cardinality(Overran(k)') + InFlightCount(claims'[k])
    BY DEF Counted
  <2>1. /\ IsFiniteSet(Buying(k)) /\ Cardinality(Buying(k)) \in Nat
        /\ Cardinality(Overran(k)) \in Nat
        /\ Cardinality(Buying(k)) <= Cardinality(Overran(k)) + InFlightCount(claims[k])
    BY Counts DEF Counted
  <2>2. CASE k = key[t]
    <3>1. Buying(k)' = Buying(k) \ {t} /\ t \in Buying(k)
      BY <2>2 DEF Buying
    <3>2. Cardinality(Buying(k)') = Cardinality(Buying(k)) - 1
      BY <3>1, <2>1, FS_RemoveElement
    <3>3. InFlightCount(claims[k]) \in 0..1 /\ InFlightCount(claims'[k]) = 0
      BY <2>2, <1>1 DEF InFlightCount
    <3> QED BY <2>1, <3>2, <3>3, <1>2
  <2>3. CASE k # key[t]
    <3>1. Buying(k)' = Buying(k) /\ claims'[k] = claims[k]
      BY <2>3 DEF Buying
    <3> QED BY <2>1, <3>1, <1>2
  <2> QED BY <2>2, <2>3
<1> QED BY <1>4, <1>5, <1>6, <1>7, <1>8

\* The end of a submitted buy: a claim that is still there cools down.  One that
\* is not is not in flight either, and was taken because of an overrun.
LEMMA SubmittedKeeps ==
    ASSUME IInv, NEW t \in Tasks, FinishSubmitted(t)
    PROVE  IInv'
<1> DEFINE c == IF claims[key[t]].held THEN Submitted ELSE claims[key[t]]
<1>1. /\ key' = key /\ lane' = lane /\ running' = running
      /\ at' = [at EXCEPT ![t] = "done"]
      /\ rest' = [rest EXCEPT ![key[t]] = 0]
      /\ at[t] = "buying"
      /\ claims' = [claims EXCEPT ![key[t]] = c]
  BY DEF FinishSubmitted
<1>2. key[t] \in Keys /\ claims[key[t]] \in Claim
  BY DEF IInv, TypeOK
<1>3. claims[key[t]].inFlight => claims[key[t]].held
  BY <1>1 DEF IInv, Guarded
<1>4. Overran(key[t]) = {} => claims[key[t]].held
  BY <1>1 DEF IInv, Guarded
<1>5. c \in Claim /\ ~c.inFlight
  BY <1>2, <1>3, ClaimShapes DEF Submitted
<1>6. Overran(key[t]) = {} => c.held /\ c.cooling + 0 >= Cooldown
  BY <1>4, TimesAssumption DEF Submitted
<1>7. 0 \in 0..Cooldown
  BY TimesAssumption
<1> HIDE DEF c
<1> QED BY <1>1, <1>5, <1>6, <1>7, EndKeeps

\* A failed buy removes the claim, whoever's it is.
LEMMA FailedKeeps ==
    ASSUME IInv, NEW t \in Tasks, FinishFailed(t)
    PROVE  IInv'
<1>1. /\ key' = key /\ lane' = lane /\ running' = running /\ rest' = rest
      /\ at' = [at EXCEPT ![t] = "done"]
      /\ claims' = [claims EXCEPT ![key[t]] = NoClaim]
      /\ at[t] = "buying"
  BY DEF FinishFailed
<1>2. rest[key[t]] \in 0..Cooldown /\ rest' = [rest EXCEPT ![key[t]] = rest[key[t]]]
  BY <1>1 DEF IInv, TypeOK
<1>3. Overran(key[t]) = {} => ~(rest[key[t]] < Cooldown)
  BY <1>1, TimesAssumption DEF IInv, Guarded
<1>4. NoClaim \in Claim /\ ~NoClaim.inFlight
  BY ClaimShapes DEF NoClaim
<1> QED BY <1>1, <1>2, <1>3, <1>4, EndKeeps

\* The sweep leaves the claims of cooldowns alone; one in flight it takes only
\* when all the buys of its key have overrun.
LEMMA SweepKeeps ==
    ASSUME IInv, Sweep
    PROVE  IInv'
<1> USE TimesAssumption DEF IInv, TypeOK
<1>1. /\ key' = key /\ lane' = lane /\ running' = running /\ rest' = rest /\ at' = at
      /\ claims' = [k \in Keys |-> IF Kept(claims[k]) THEN claims[k] ELSE NoClaim]
  BY DEF Sweep
<1>2. \A k : Overran(k)' = Overran(k) /\ Buying(k)' = Buying(k)
  BY <1>1 DEF Overran, Buying
<1>3. ASSUME NEW t \in Tasks, at[t] = "buying", claims[key[t]].inFlight,
             ~Kept(claims[key[t]])
      PROVE  running[t] >= StaleAfter
  <2>1. /\ key[t] \in Keys /\ claims[key[t]] \in Claim /\ running[t] \in Nat
        /\ claims[key[t]].idle <= running[t]
    BY <1>3 DEF Guarded
  <2>2. claims[key[t]].idle \in Nat /\ ~(claims[key[t]].idle < StaleAfter)
    BY <1>3, <2>1 DEF Kept, Claim
  <2> QED BY <2>1, <2>2
<1>4. \A k \in Keys : claims'[k] = claims[k] \/ claims'[k] = NoClaim
  BY <1>1
<1>5. \A k \in Keys : Overran(k) = {} /\ rest[k] < Cooldown => claims'[k] = claims[k]
  <2> SUFFICES ASSUME NEW k \in Keys, Overran(k) = {}, rest[k] < Cooldown
               PROVE  Kept(claims[k])
    BY <1>1
  <2>1. claims[k] \in Claim /\ rest[k] \in 0..Cooldown
    OBVIOUS
  <2> QED BY <2>1 DEF Kept, Claim, Cooled
<1>6. TypeOK'
  BY <1>1, ClaimShapes
<1>7. Alone'
  BY <1>1, <1>2 DEF Alone
<1>8. Guarded'
  <2> SUFFICES ASSUME NEW t \in Tasks, at[t] = "buying"
               PROVE  /\ claims'[key[t]].inFlight =>
                            claims'[key[t]].held /\ claims'[key[t]].idle <= running[t]
                      /\ Overran(key[t]) = {} =>
                            /\ claims'[key[t]].held /\ claims'[key[t]].inFlight
                            /\ rest[key[t]] = Cooldown
    BY <1>1, <1>2 DEF Guarded
  <2>1. key[t] \in Keys
    OBVIOUS
  <2>2. CASE claims'[key[t]] = claims[key[t]]
    BY <2>2 DEF Guarded
  <2>3. CASE claims'[key[t]] # claims[key[t]]
    <3>1. claims'[key[t]] = NoClaim /\ ~Kept(claims[key[t]])
      BY <2>1, <2>3, <1>1
    <3>2. Overran(key[t]) # {}
      <4> SUFFICES ASSUME Overran(key[t]) = {} PROVE FALSE
        OBVIOUS
      <4>1. claims[key[t]].inFlight
        BY DEF Guarded
      <4>2. running[t] >= StaleAfter
        BY <3>1, <4>1, <1>3
      <4> QED BY <4>2 DEF Overran
    <3> QED BY <3>1, <3>2 DEF NoClaim
  <2> QED BY <2>2, <2>3
<1>9. Cooled'
  BY <1>1, <1>2, <1>5 DEF Cooled
<1>10. Counted'
  <2> SUFFICES ASSUME NEW k \in Keys
               PROVE  Cardinality(Buying(k)) <=
                        Cardinality(Overran(k)) + InFlightCount(claims'[k])
    BY <1>2 DEF Counted
  <2>1. /\ Cardinality(Buying(k)) \in Nat
        /\ IsFiniteSet(Overran(k)) /\ Cardinality(Overran(k)) \in Nat
        /\ Cardinality(Buying(k)) <= Cardinality(Overran(k)) + InFlightCount(claims[k])
    BY Counts DEF Counted
  <2>2. CASE claims[k].inFlight /\ ~Kept(claims[k])
    <3>1. Buying(k) \subseteq Overran(k)
      BY <2>2, <1>3 DEF Buying, Overran
    <3>2. Cardinality(Buying(k)) <= Cardinality(Overran(k))
      BY <3>1, <2>1, FS_Subset
    <3> QED BY <3>2, <2>1 DEF InFlightCount
  <2>3. CASE ~claims[k].inFlight \/ Kept(claims[k])
    BY <2>1, <2>3, <1>1 DEF InFlightCount
  <2> QED BY <2>2, <2>3
<1> QED BY <1>6, <1>7, <1>8, <1>9, <1>10

\* The clock ages a claim no faster than the buys that run beside it, and a
\* cooldown no faster than the time since the buy; an overrun stays one.
LEMMA TickKeeps ==
    ASSUME IInv, Tick
    PROVE  IInv'
<1> USE TimesAssumption DEF IInv, TypeOK
<1>1. /\ key' = key /\ lane' = lane /\ at' = at
      /\ running' = [t \in Tasks |->
                       IF at[t] = "buying" THEN Later(running[t], StaleAfter) ELSE running[t]]
      /\ claims' = [k \in Keys |-> Aged(claims[k])]
      /\ rest' = [k \in Keys |-> Later(rest[k], Cooldown)]
  BY DEF Tick
<1>2. \A k : Overran(k) \subseteq Overran(k)' /\ Buying(k)' = Buying(k)
  BY <1>1 DEF Overran, Buying, Later
<1>3. TypeOK'
  <2>1. running' \in [Tasks -> 0..StaleAfter]
    BY <1>1 DEF Later
  <2>2. claims' \in [Keys -> Claim]
    BY <1>1, ClaimShapes
  <2>3. rest' \in [Keys -> 0..Cooldown]
    BY <1>1 DEF Later
  <2> QED BY <1>1, <2>1, <2>2, <2>3
<1>4. Alone'
  BY <1>1, <1>2 DEF Alone
<1>5. \A c \in Claim : ~c.held => Aged(c) = c
  BY DEF Aged
<1>6. Guarded'
  <2> SUFFICES ASSUME NEW t \in Tasks, at[t] = "buying"
               PROVE  /\ claims'[key[t]].inFlight =>
                            claims'[key[t]].held /\ claims'[key[t]].idle <= running'[t]
                      /\ Overran(key[t])' = {} =>
                            /\ claims'[key[t]].held /\ claims'[key[t]].inFlight
                            /\ rest'[key[t]] = Cooldown
    BY <1>1 DEF Guarded
  <2> DEFINE c == claims[key[t]]
  <2>1. key[t] \in Keys /\ c \in Claim /\ running[t] \in 0..StaleAfter
    OBVIOUS
  <2>2. claims'[key[t]] = Aged(c) /\ running'[t] = Later(running[t], StaleAfter)
    BY <1>1, <2>1
  <2>3. c.inFlight => c.held /\ c.idle <= running[t]
    BY DEF Guarded
  <2>4. Overran(key[t])' = {} => c.held /\ c.inFlight /\ rest[key[t]] = Cooldown
    BY <1>1, <1>2 DEF Guarded
  <2>5. rest[key[t]] = Cooldown => rest'[key[t]] = Cooldown
    BY <1>1, <2>1 DEF Later
  <2>6. c.held => /\ Aged(c).held /\ (Aged(c).inFlight <=> c.inFlight)
                  /\ c.idle \in Nat /\ Aged(c).idle \in Nat /\ Aged(c).idle <= c.idle + 1
    BY <2>1, AgedClaim
  <2>7. Aged(c) \in Claim
    BY <2>1, ClaimShapes
  <2>8. Aged(c).idle \in 0..StaleAfter
    BY <2>7 DEF Claim
  <2>9. ~c.held => Aged(c) = c
    BY <2>1, <1>5
  <2> HIDE DEF c
  <2>10. Aged(c).inFlight => Aged(c).held /\ Aged(c).idle <= running'[t]
    <3> SUFFICES ASSUME Aged(c).inFlight
                 PROVE  Aged(c).held /\ Aged(c).idle <= running'[t]
      OBVIOUS
    <3>1. c.held
      BY <2>3, <2>9
    <3>2. c.inFlight
      BY <2>6, <3>1
    <3>3. c.idle <= running[t]
      BY <3>2, <2>3
    <3>4. Aged(c).held /\ c.idle \in Nat /\ Aged(c).idle <= c.idle + 1
      BY <3>1, <2>6
    <3>5. Aged(c).idle <= running'[t]
      BY <3>3, <3>4, <2>1, <2>2, <2>8 DEF Later
    <3> QED BY <3>4, <3>5
  <2>11. Overran(key[t])' = {} => Aged(c).held /\ Aged(c).inFlight /\ rest'[key[t]] = Cooldown
    BY <2>4, <2>5, <2>6
  <2> QED BY <2>2, <2>10, <2>11
<1>7. Cooled'
  <2> SUFFICES ASSUME NEW k \in Keys, Overran(k)' = {}, rest'[k] < Cooldown
               PROVE  /\ claims'[k].held
                      /\ ~claims'[k].inFlight
                      /\ claims'[k].cooling + rest'[k] >= Cooldown
    BY DEF Cooled
  <2> DEFINE c == claims[k]
  <2>1. c \in Claim /\ rest[k] \in 0..Cooldown /\ Overran(k) = {}
    BY <1>2
  <2>2. rest[k] < Cooldown /\ rest'[k] = rest[k] + 1
    BY <1>1, <2>1 DEF Later
  <2>3. c.held /\ ~c.inFlight /\ c.cooling + rest[k] >= Cooldown
    BY <2>1, <2>2 DEF Cooled
  <2>4. c.cooling \in Nat /\ c.cooling > 0
    BY <2>1, <2>2, <2>3 DEF Claim
  <2>5. /\ Aged(c).held /\ (Aged(c).inFlight <=> c.inFlight)
        /\ Aged(c).cooling = c.cooling - 1
    BY <2>1, <2>3, <2>4, AgedClaim
  <2>6. claims'[k] = Aged(c)
    BY <1>1
  <2> HIDE DEF c
  <2>7. claims'[k].held /\ ~claims'[k].inFlight
    BY <2>3, <2>5, <2>6
  <2>8. claims'[k].cooling + rest'[k] >= Cooldown
    BY <2>1, <2>2, <2>3, <2>4, <2>5, <2>6
  <2> QED BY <2>7, <2>8
<1>8. Counted'
  <2> SUFFICES ASSUME NEW k \in Keys
               PROVE  Cardinality(Buying(k)) <=
                        Cardinality(Overran(k)') + InFlightCount(claims'[k])
    BY <1>2 DEF Counted
  <2>1. /\ Cardinality(Buying(k)) \in Nat /\ Cardinality(Overran(k)) \in Nat
        /\ Cardinality(Buying(k)) <= Cardinality(Overran(k)) + InFlightCount(claims[k])
    BY Counts DEF Counted
  <2>2. Overran(k)' \subseteq Tasks
    BY <1>1 DEF Overran
  <2>3. /\ IsFiniteSet(Overran(k)') /\ Cardinality(Overran(k)') \in Nat
        /\ Cardinality(Overran(k)) <= Cardinality(Overran(k)')
    BY <2>2, <1>2, TasksAssumption, FS_Subset, FS_CardinalityType
  <2>4. claims[k] \in Claim /\ claims'[k] = Aged(claims[k])
    BY <1>1
  <2>5. claims'[k].inFlight <=> claims[k].inFlight
    BY <2>4, <1>5, AgedClaim
  <2>6. InFlightCount(claims'[k]) = InFlightCount(claims[k])
    BY <2>5 DEF InFlightCount
  <2>7. InFlightCount(claims[k]) \in Nat
    BY DEF InFlightCount
  <2> QED BY <2>1, <2>3, <2>6, <2>7
<1> QED BY <1>3, <1>4, <1>6, <1>7, <1>8

\* The invariant holds in every reachable state of the gate.
THEOREM Invariance == Spec => []IInv
<1>1. IInv /\ [Next]_vars => IInv'
  <2> SUFFICES ASSUME IInv, [Next]_vars PROVE IInv'
    OBVIOUS
  <2>1. CASE \E t \in Tasks : TaskStep(t)
    BY <2>1, StartKeeps, RefusalKeeps, SubmittedKeeps, FailedKeeps, QuietKeeps
    DEF TaskStep, Finish
  <2>2. CASE Sweep
    BY <2>2, SweepKeeps
  <2>3. CASE Tick
    BY <2>3, TickKeeps
  <2>4. CASE UNCHANGED vars
    BY <2>4, QuietInv DEF vars, IInv, TypeOK
  <2> QED BY <2>1, <2>2, <2>3, <2>4 DEF Next
<1> QED BY InitInv, <1>1, PTL DEF Spec

\* Claims, timers and tasks keep their shape.
THEOREM GateTypes == Spec => []TypeOK
<1>1. IInv => TypeOK
  BY DEF IInv
<1> QED BY <1>1, Invariance, PTL

\* One buy of a group and mint at a time (try_start_group_mint), and one more at
\* most for each buy that outlasts the age at which the sweep takes its claim.
THEOREM OneBuy == Spec => []OneBuyUnlessOverrun
<1>1. IInv => OneBuyUnlessOverrun
  <2> SUFFICES ASSUME IInv, NEW k \in Keys
               PROVE  Cardinality(Buying(k)) <= 1 + Cardinality(Overran(k))
    BY DEF OneBuyUnlessOverrun
  <2>1. Cardinality(Buying(k)) \in Nat /\ Cardinality(Overran(k)) \in Nat
    BY Counts DEF IInv
  <2> QED BY <2>1 DEF IInv, Counted, InFlightCount
<1> QED BY <1>1, Invariance, PTL

\* No buy starts inside the cooldown a submitted buy left (finish_group_mint),
\* unless a buy of the same group and mint outlasted the sweep.
THEOREM CooldownHolds == Spec => CooldownHonoured
<1> DEFINE A == \A t \in Tasks : at[t] # "buying" /\ at'[t] = "buying" =>
                   rest[key[t]] = Cooldown \/ Overran(key[t]) # {}
<1>1. IInv /\ [Next]_vars => [A]_vars
  <2> SUFFICES ASSUME IInv, Next,
                      NEW t \in Tasks, at[t] # "buying", at'[t] = "buying",
                      Overran(key[t]) = {}
               PROVE  rest[key[t]] = Cooldown
    BY DEF IInv
  <2>1. StartBuy(t)
    BY DEF Next, TaskStep, Finish, Spawn, QueueTimeout, StartBuy, Refused,
           FinishSubmitted, FinishFailed, Panic, Sweep, Tick, IInv, TypeOK
  <2>2. key[t] \in Keys /\ claims[key[t]] \in Claim /\ rest[key[t]] \in 0..Cooldown
    BY DEF IInv, TypeOK
  <2> QED BY <2>1, <2>2, TimesAssumption DEF StartBuy, Busy, Claim, IInv, Cooled
<1> QED BY <1>1, Invariance, PTL DEF Spec, CooldownHonoured
=============================================================================
