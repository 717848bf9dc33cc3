---------------------- MODULE PositionLifecycleProofs ----------------------
(***************************************************************************)
(* What is proved of PositionLifecycle for any groups, amounts and bounds: *)
(* the variables keep their types, no two sellers are ever in the selling  *)
(* section of one position, the positions keep to the diagram of           *)
(* PositionDiagram, and a closed one is never reopened.  And, each where a *)
(* configuration refutes it otherwise: a position on sale has a seller,    *)
(* when only the executor sells; the tokens of a closed position are sold, *)
(* when one group holds the account, balances can be trusted and nobody    *)
(* sells a part; and an active position was confirmed, when nobody sells a *)
(* part.                                                                   *)
(***************************************************************************)
EXTENDS PositionLifecycle, SequenceTheorems, TLAPS

\* A seller in the section finds its position on sale, failed or forgotten,
\* whatever the other tasks do meanwhile.
Held ==
    \A s \in Sellers : InSection(s) =>
        /\ job[s].group \in Groups
        /\ pos[job[s].group].state \in {"Selling", "Failed", "none"}

\* A group that has not bought has no position and nobody sells for it.
Unbought ==
    \A g \in Groups : buy[g] \in {"none", "prepared"} =>
        /\ pos[g].state = "none"
        /\ \A s \in Sellers : InSection(s) => job[s].group # g

\* A seller past its first read, or with a transaction, has a position to work on.
HasGroup ==
    \A s \in Sellers :
        pc[s] \notin {"idle", "cleanup"} \/ job[s].tx # "none" => job[s].group \in Groups

Gate == HasGroup /\ Held /\ Unbought /\ SellMutex

-----------------------------------------------------------------------------
\* The constants are records of the declared types.
LEMMA NoRecords == NoPos \in Position /\ NoTask \in Task /\ NoJob \in Job
  BY NumbersAssumption DEF NoPos, NoTask, NoJob, Position, Task, Job, States

\* Position's transitions yield positions.
LEMMA Transitions ==
  ASSUME NEW p \in Position, NEW n \in Nat, NEW prev \in States, NEW suspend \in BOOLEAN
  PROVE  /\ MarkActive(p, n) \in Position
         /\ MarkSelling(p) \in Position
         /\ MarkClosed(p) \in Position
         /\ MarkFailed(p) \in Position
         /\ Restore(p, prev, suspend) \in Position
         /\ ApplyPartial(p, n) \in Position
  <1>1. MarkActive(p, n) \in Position
    BY DEF Position, States, MarkActive
  <1>2. MarkSelling(p) \in Position
    <2> DEFINE a == p.attempts + 1
    <2>1. a \in Nat
      BY DEF Position
    <2> HIDE DEF a
    <2>2. [p EXCEPT !.state = "Selling", !.attempts = a, !.skips = 0] \in Position
      BY <2>1 DEF Position, States
    <2> QED BY <2>2 DEF MarkSelling, a
  <1>3. MarkClosed(p) \in Position
    BY DEF Position, States, MarkClosed
  <1>4. MarkFailed(p) \in Position
    BY DEF Position, States, MarkFailed
  <1>5. Restore(p, prev, suspend) \in Position
    <2> DEFINE a == IF suspend /\ p.attempts < MaxAttempts THEN MaxAttempts ELSE p.attempts
    <2>1. a \in Nat
      BY NumbersAssumption DEF Position
    <2> HIDE DEF a
    <2>2. [p EXCEPT !.state = prev, !.attempts = a] \in Position
      BY <2>1 DEF Position
    <2> QED BY <2>2 DEF Restore, a
  <1>6. ApplyPartial(p, n) \in Position
    <2>1. CASE p.state = "none" \/ n = 0 \/ n > p.amount
      BY <2>1 DEF ApplyPartial
    <2>2. CASE ~(p.state = "none" \/ n = 0 \/ n > p.amount)
      <3> DEFINE a == p.amount - n
      <3>1. a \in Nat
        BY <2>2 DEF Position
      <3> HIDE DEF a
      <3>2. [p EXCEPT !.amount = a, !.state = "Active"] \in Position
        BY <3>1 DEF Position, States
      <3> QED BY <2>2, <3>2 DEF ApplyPartial, a
    <2> QED BY <2>1, <2>2
  <1> QED BY <1>1, <1>2, <1>3, <1>4, <1>5, <1>6

\* mark_failed fails a position if there is one.
LEMMA FailedOrSame ==
  ASSUME TypeOK, NEW g \in Groups
  PROVE  \/ MarkFailed(pos[g]) = pos[g]
         \/ pos[g].state # "none" /\ MarkFailed(pos[g]).state = "Failed"
  <1>1. pos[g] \in Position
    BY DEF TypeOK
  <1> QED BY <1>1 DEF MarkFailed, Position

\* Balances are numbers, wherever they are read.
LEMMA Balances ==
  ASSUME TypeOK
  PROVE  /\ RpcBalance \subseteq Nat /\ SnapshotBalance \subseteq Nat
         /\ WalletBalance \subseteq Nat
         /\ \A g \in Groups : BalanceSeen(g) \subseteq Nat
  <1>1. RpcBalance \subseteq Nat /\ SnapshotBalance \subseteq Nat
    BY DEF TypeOK, RpcBalance, SnapshotBalance
  <1>2. WalletBalance \subseteq Nat
    BY <1>1 DEF TypeOK, WalletBalance
  <1>3. ASSUME NEW g \in Groups PROVE BalanceSeen(g) \subseteq Nat
    BY DEF TypeOK, BalanceSeen, Task
  <1> QED BY <1>1, <1>2, <1>3

\* A seller's step to a label with typed locals keeps the sellers' types.
LEMMA GotoTypes ==
  ASSUME TypeOK, NEW s \in Sellers, NEW label \in Labels, NEW j \in Job, Goto(s, label, j)
  PROVE  pc' \in [Sellers -> Labels] /\ job' \in [Sellers -> Job]
  BY DEF Goto, TypeOK

\* A seller that rests keeps the types.
LEMMA RestTypes ==
  ASSUME TypeOK, NEW s \in Sellers, Rest(s)
  PROVE  pc' \in [Sellers -> Labels] /\ job' \in [Sellers -> Job]
  BY NoRecords, GotoTypes DEF Rest, Labels

\* A balance change keeps the chain's types.
LEMMA SettlesTypes ==
  ASSUME TypeOK, NEW b \in Nat, Settles(b)
  PROVE  bal' \in Nat /\ feed' \in Seq(Nat)
  <1>1. Append(feed, b) \in Seq(Nat)
    BY DEF TypeOK
  <1> QED BY <1>1 DEF Settles, TypeOK

\* An executed sell keeps the chain's types.
LEMMA ExecutesTypes ==
  ASSUME TypeOK, NEW g \in Groups, NEW n \in Nat, Executes(g, n)
  PROVE  bal' \in Nat /\ feed' \in Seq(Nat) /\ sold' \in [Groups -> Nat]
  <1>1. bal - n \in Nat
    BY DEF Executes, TypeOK
  <1>2. bal' \in Nat /\ feed' \in Seq(Nat)
    BY <1>1, SettlesTypes DEF Executes
  <1>3. sold' \in [Groups -> Nat]
    BY DEF Executes, TypeOK
  <1> QED BY <1>2, <1>3

-----------------------------------------------------------------------------
\* The initial state has the declared types.
LEMMA InitTypes == Init => TypeOK
  <1> SUFFICES ASSUME Init PROVE TypeOK
    OBVIOUS
  <1>1. pos \in [Groups -> Position] /\ conf \in [Groups -> Task] /\ job \in [Sellers -> Job]
    BY NoRecords DEF Init
  <1>2. age \in [Groups -> Young..PastRetention] /\ sold \in [Groups -> Nat]
    BY DEF Init, Young, PastRetention
  <1>3. /\ buy \in [Groups -> {"none", "prepared", "pending", "landed", "failed"}]
        /\ pc \in [Sellers -> Labels]
    BY DEF Init, Labels
  <1>4. queue \in Seq(Groups \X BOOLEAN) /\ feed \in Seq(Nat)
    BY DEF Init
  <1> QED BY <1>1, <1>2, <1>3, <1>4 DEF Init, TypeOK

\* The steps of a group's buy and its confirmation keep the types.
LEMMA BuyTypes ==
  ASSUME TypeOK, NEW g \in Groups, BuyStep(g) \/ ConfirmStep(g)
  PROVE  TypeOK'
  <1> USE DEF mapVars, buyVars, chainVars, cacheVars, sellVars
  <1>1. CASE PrepareBuy(g)
    <2>1. PICK b \in Nat : conf' = [conf EXCEPT ![g].pre = b]
      BY <1>1, Balances DEF PrepareBuy
    <2>2. conf' \in [Groups -> Task]
      BY <2>1 DEF TypeOK, Task
    <2>3. buy' \in [Groups -> {"none", "prepared", "pending", "landed", "failed"}] /\ tracked' \in BOOLEAN
      BY <1>1 DEF PrepareBuy, TypeOK
    <2> QED BY <1>1, <2>2, <2>3 DEF PrepareBuy, TypeOK
  <1>2. CASE SubmitBuy(g)
    <2>1. PICK n \in {0, Lot}, before \in BalanceNoted(g) :
            /\ conf' = [conf EXCEPT ![g] = [at |-> "waiting", pre |-> before,
                                           after |-> 0, amount |-> n]]
            /\ pos' = [pos EXCEPT ![g] =
                         [NoPos EXCEPT !.state = "Confirming", !.amount = n]]
      BY <1>2 DEF SubmitBuy
    <2>2. n \in Nat
      BY NumbersAssumption
    <2>3. [NoPos EXCEPT !.state = "Confirming", !.amount = n] \in Position
      BY <2>2 DEF NoPos, Position, States
    <2>4. pos' \in [Groups -> Position]
      BY <2>1, <2>3 DEF TypeOK
    <2>5. conf' \in [Groups -> Task]
      <3>1. before \in Nat
        BY DEF BalanceNoted, TypeOK, Task
      <3>2. [at |-> "waiting", pre |-> before, after |-> 0, amount |-> n] \in Task
        BY <2>2, <3>1 DEF Task
      <3> QED BY <2>1, <3>2 DEF TypeOK
    <2>6. buy' \in [Groups -> {"none", "prepared", "pending", "landed", "failed"}]
      BY <1>2 DEF SubmitBuy, TypeOK
    <2> QED BY <1>2, <2>4, <2>5, <2>6 DEF SubmitBuy, TypeOK
  <1>3. CASE LandBuy(g)
    <2>1. bal + Lot \in Nat
      BY NumbersAssumption DEF TypeOK
    <2>2. bal' \in Nat /\ feed' \in Seq(Nat)
      BY <1>3, <2>1, SettlesTypes DEF LandBuy, TypeOK
    <2>3. conf' \in [Groups -> Task]
      <3> DEFINE b == bal + Lot
      <3> HIDE DEF b
      <3>1. [conf EXCEPT ![g].after = b] \in [Groups -> Task]
        BY <2>1 DEF TypeOK, Task, b
      <3> QED BY <1>3, <3>1 DEF LandBuy, TypeOK, b
    <2>4. buy' \in [Groups -> {"none", "prepared", "pending", "landed", "failed"}]
      BY <1>3 DEF LandBuy, TypeOK
    <2> QED BY <1>3, <2>2, <2>3, <2>4 DEF LandBuy, TypeOK
  <1>4. CASE Age(g)
    <2>1. age[g] + 1 \in Young..PastRetention
      <3>1. age[g] \in Young..PastRetention /\ age[g] < PastRetention
        BY <1>4 DEF Age, TypeOK
      <3> QED BY <3>1 DEF Young, PastRetention
    <2>2. age' \in [Groups -> Young..PastRetention]
      BY <1>4, <2>1 DEF Age, TypeOK
    <2> QED BY <1>4, <2>2 DEF Age, TypeOK
  <1>5. CASE SeeIncrease(g)
    <2>1. PICK b \in Nat :
            /\ b > conf[g].pre
            /\ conf' = [conf EXCEPT ![g].at = "seen",
                          ![g].amount = IF OpenCount > 1 /\ @ > 0 THEN @ ELSE b - conf[g].pre]
      BY <1>5, Balances DEF SeeIncrease
    <2>2. conf[g] \in Task /\ b - conf[g].pre \in Nat
      BY <2>1 DEF TypeOK, Task
    <2>3. conf' \in [Groups -> Task]
      BY <2>1, <2>2 DEF TypeOK, Task
    <2> QED BY <1>5, <2>3 DEF SeeIncrease, TypeOK
  <1>6. CASE ConfirmSuccess(g)
    <2>1. MarkActive(pos[g], conf[g].amount) \in Position
      BY Transitions DEF TypeOK, Task, States
    <2>2. pos' \in [Groups -> Position]
      BY <1>6, <2>1 DEF ConfirmSuccess, TypeOK
    <2>3. conf' \in [Groups -> Task]
      BY <1>6 DEF ConfirmSuccess, TypeOK, Task
    <2> QED BY <1>6, <2>2, <2>3 DEF ConfirmSuccess, TypeOK
  <1>7. CASE ConfirmFailure(g)
    <2>1. MarkFailed(pos[g]) \in Position
      BY Transitions DEF TypeOK, States
    <2>2. pos' \in [Groups -> Position]
      BY <1>7, <2>1 DEF ConfirmFailure, TypeOK
    <2>3. conf' \in [Groups -> Task]
      BY <1>7 DEF ConfirmFailure, TypeOK, Task
    <2> QED BY <1>7, <2>2, <2>3 DEF ConfirmFailure, TypeOK
  <1> QED BY <1>1, <1>2, <1>3, <1>4, <1>5, <1>6, <1>7 DEF BuyStep, ConfirmStep

\* The monitors' scans keep the types.
LEMMA MonitorTypes ==
  ASSUME TypeOK, NEW g \in Groups, MonitorStep(g)
  PROVE  TypeOK'
  <1> USE DEF mapVars, buyVars, chainVars, cacheVars, sellVars
  <1>1. ASSUME NEW manual \in BOOLEAN, Signal(g, manual) PROVE TypeOK'
    <2>1. Append(queue, <<g, manual>>) \in Seq(Groups \X BOOLEAN)
      BY DEF TypeOK
    <2> QED BY <1>1, <2>1 DEF Signal, TypeOK
  <1>2. CASE PriceSignal(g) \/ HoldSignal(g) \/ SellAll(g)
    BY <1>1, <1>2 DEF PriceSignal, HoldSignal, SellAll
  <1>3. CASE FallbackRead(g)
    <2>1. PICK b \in Nat : fb' = {[group |-> g, balance |-> b]}
      BY <1>3, Balances DEF FallbackRead
    <2>2. fb' \subseteq [group : Groups, balance : Nat]
      BY <2>1
    <2> QED BY <1>3, <2>2 DEF FallbackRead, TypeOK
  <1>4. CASE Forget(g)
    <2>1. pos' \in [Groups -> Position]
      BY <1>4, NoRecords DEF Forget, TypeOK
    <2> QED BY <1>4, <2>1 DEF Forget, TypeOK
  <1> QED BY <1>2, <1>3, <1>4 DEF MonitorStep

\* The end of the fallback monitor's check keeps the types.
LEMMA FallbackActTypes ==
  ASSUME TypeOK, FallbackAct
  PROVE  TypeOK'
  <1> USE DEF mapVars, buyVars, chainVars, cacheVars, sellVars
  <1>1. PICK c \in fb : \/ FallbackFails(c)
                        \/ FallbackWedges(c)
                        \/ pos[c.group] = NoPos /\ fb' = {} /\ UNCHANGED <<pos, wedged>>
    BY DEF FallbackAct
  <1>2. c.group \in Groups
    BY DEF TypeOK
  <1>3. MarkFailed(pos[c.group]) \in Position
    BY <1>2, Transitions DEF TypeOK, States
  <1>4. /\ pos' \in [Groups -> Position]
        /\ fb' \subseteq [group : Groups, balance : Nat]
        /\ wedged' \in BOOLEAN
    BY <1>1, <1>3 DEF FallbackFails, FallbackWedges, TypeOK
  <1> QED BY <1>4 DEF FallbackAct, TypeOK

\* The chain and the account stream keep the types.
LEMMA ChainTypes ==
  ASSUME TypeOK, HasGroup, LandAbandoned \/ CacheUpdate \/ \E s \in Sellers : LandSell(s)
  PROVE  TypeOK'
  <1> USE DEF mapVars, buyVars, chainVars, cacheVars, sellVars
  <1>1. CASE LandAbandoned
    <2>1. PICK t \in abandoned : /\ abandoned' = abandoned \ {t}
                                 /\ Executes(t[1], t[2]) \/ UNCHANGED chainVars
      BY <1>1 DEF LandAbandoned
    <2>2. t[1] \in Groups /\ t[2] \in Nat
      BY DEF TypeOK
    <2>3. bal' \in Nat /\ feed' \in Seq(Nat) /\ sold' \in [Groups -> Nat]
      BY <2>1, <2>2, ExecutesTypes DEF TypeOK
    <2> QED BY <1>1, <2>1, <2>3 DEF LandAbandoned, TypeOK
  <1>2. CASE CacheUpdate
    <2>1. Head(feed) \in Nat /\ Tail(feed) \in Seq(Nat)
      BY <1>2 DEF CacheUpdate, TypeOK
    <2> QED BY <1>2, <2>1 DEF CacheUpdate, TypeOK
  <1>3. ASSUME NEW s \in Sellers, LandSell(s) PROVE TypeOK'
    <2>1. job[s].tokens \in Nat /\ job[s].group \in Groups
      BY <1>3 DEF TypeOK, HasGroup, LandSell, Job, NoJob
    <2>2. bal' \in Nat /\ feed' \in Seq(Nat) /\ sold' \in [Groups -> Nat]
      BY <1>3, <2>1, ExecutesTypes DEF LandSell, TypeOK
    <2>3. job' \in [Sellers -> Job]
      <3>1. PICK v \in {"landed", "failed"} : job' = [job EXCEPT ![s].tx = v]
        BY <1>3 DEF LandSell
      <3>2. [job[s] EXCEPT !.tx = v] \in Job
        BY DEF TypeOK, Job
      <3> QED BY <3>1, <3>2 DEF TypeOK
    <2> QED BY <1>3, <2>2, <2>3 DEF LandSell, TypeOK
  <1> QED BY <1>1, <1>2, <1>3

\* A seller that picks up a signal or a button keeps the types.
LEMMA ConsiderTypes ==
  ASSUME TypeOK, NEW s \in Sellers, NEW g \in Groups, NEW manual \in BOOLEAN,
         Consider(s, g, manual)
  PROVE  pc' \in [Sellers -> Labels] /\ job' \in [Sellers -> Job]
  <1>1. CASE Rest(s)
    BY <1>1, RestTypes
  <1>2. CASE ~Rest(s)
    <2>1. PICK have \in WalletBalance :
            LET n == IF pos[g].amount > 0 THEN Least(pos[g].amount, have) ELSE have
            IN  Goto(s, IF n = 0 THEN "skip" ELSE "mark",
                     [NoJob EXCEPT !.group = g, !.manual = manual,
                                   !.prev = pos[g].state, !.tokens = n,
                                   !.expect = have - n, !.try = 1])
      BY <1>2 DEF Consider
    <2> DEFINE n == IF pos[g].amount > 0 THEN Least(pos[g].amount, have) ELSE have
               rest == have - n
               label == IF n = 0 THEN "skip" ELSE "mark"
    <2>2. have \in Nat /\ pos[g].amount \in Nat /\ pos[g].state \in States
      BY Balances DEF TypeOK, Position
    <2>3. n \in Nat /\ rest \in Nat
      BY <2>2 DEF Least
    <2>4. label \in Labels
      BY DEF Labels
    <2>5. Goto(s, label, [NoJob EXCEPT !.group = g, !.manual = manual,
                                       !.prev = pos[g].state, !.tokens = n,
                                       !.expect = rest, !.try = 1])
      BY <2>1
    <2> HIDE DEF n, rest, label
    <2>6. [NoJob EXCEPT !.group = g, !.manual = manual, !.prev = pos[g].state,
                        !.tokens = n, !.expect = rest, !.try = 1] \in Job
      <3>1. 1 \in 0..Tries
        BY NumbersAssumption
      <3> QED BY <2>2, <2>3, <3>1, NoRecords DEF Job
    <2> QED BY <2>4, <2>5, <2>6, GotoTypes
  <1> QED BY <1>1, <1>2

\* Taking a signal or pressing a button keeps the types.
LEMMA PickTypes ==
  ASSUME TypeOK,
         \/ "exec" \in Sellers /\ TakeSignal
         \/ \E g \in Groups : SellButton(g) \/ PartialButton(g)
  PROVE  TypeOK'
  <1> USE DEF mapVars, buyVars, chainVars, cacheVars, sellVars
  <1>1. CASE "exec" \in Sellers /\ TakeSignal
    <2>1. Head(queue) \in Groups \X BOOLEAN /\ Tail(queue) \in Seq(Groups \X BOOLEAN)
      BY <1>1 DEF TakeSignal, TypeOK
    <2>2. Head(queue)[1] \in Groups /\ Head(queue)[2] \in BOOLEAN
      BY <2>1
    <2>3. pc' \in [Sellers -> Labels] /\ job' \in [Sellers -> Job]
      BY <1>1, <2>2, ConsiderTypes DEF TakeSignal
    <2> QED BY <1>1, <2>1, <2>3 DEF TakeSignal, TypeOK
  <1>2. ASSUME NEW g \in Groups, SellButton(g) PROVE TypeOK'
    <2>1. pc' \in [Sellers -> Labels] /\ job' \in [Sellers -> Job]
      BY <1>2, ConsiderTypes DEF SellButton
    <2> QED BY <1>2, <2>1 DEF SellButton, TypeOK
  <1>3. ASSUME NEW g \in Groups, PartialButton(g) PROVE TypeOK'
    <2> DEFINE n == pos[g].amount \div 2
    <2>1. pos[g].amount \in Nat /\ pos[g].state \in States
      BY DEF TypeOK, Position
    <2>2. n \in Nat
      BY <2>1
    <2> HIDE DEF n
    <2>3. [NoJob EXCEPT !.group = g, !.manual = TRUE, !.prev = pos[g].state,
                        !.tokens = n] \in Job
      BY <2>1, <2>2, NoRecords DEF Job
    <2>4. pc' \in [Sellers -> Labels] /\ job' \in [Sellers -> Job]
      BY <1>3, <2>3, GotoTypes DEF PartialButton, Labels, n
    <2> QED BY <1>3, <2>4 DEF PartialButton, TypeOK
  <1> QED BY <1>1, <1>2, <1>3

\* The retry loop's bookkeeping keeps the types.
LEMMA TryTypes ==
  ASSUME TypeOK, NEW s \in Sellers, NEW j \in Job, Fails(s, j) \/ NextTry(s, j)
  PROVE  pc' \in [Sellers -> Labels] /\ job' \in [Sellers -> Job]
  <1>1. CASE Fails(s, j)
    <2>1. [j EXCEPT !.tx = "none"] \in Job
      BY DEF Job
    <2> QED BY <1>1, <2>1, GotoTypes DEF Fails, Labels
  <1>2. CASE NextTry(s, j) /\ ~Fails(s, j)
    <2> DEFINE n == j.try + 1
    <2>1. n \in 0..Tries
      BY <1>2, NumbersAssumption DEF NextTry, Job
    <2>2. Goto(s, "send", [j EXCEPT !.try = n, !.fallback = FALSE, !.tx = "none"])
      BY <1>2 DEF NextTry
    <2> HIDE DEF n
    <2>3. [j EXCEPT !.try = n, !.fallback = FALSE, !.tx = "none"] \in Job
      BY <2>1 DEF Job
    <2> QED BY <2>2, <2>3, GotoTypes DEF Labels
  <1> QED BY <1>1, <1>2

\* A seller's own steps keep the types.
LEMMA SellTypes ==
  ASSUME TypeOK, HasGroup, NEW s \in Sellers, SellStep(s)
  PROVE  TypeOK'
  <1> USE DEF mapVars, buyVars, chainVars, cacheVars, sellVars
  <1> DEFINE g == job[s].group
  <1>1. job[s] \in Job
    BY DEF TypeOK
  <1>2. ASSUME pc[s] \notin {"idle", "cleanup"}
        PROVE  g \in Groups /\ pos[g] \in Position /\ pos[g].state \in States
    BY <1>2 DEF HasGroup, TypeOK, Position
  <1>3. CASE SkipZero(s)
    <2> DEFINE n == Least(pos[g].skips + 1, MaxSkips)
    <2>1. n \in Nat
      BY <1>2, <1>3, NumbersAssumption DEF SkipZero, Position, Least
    <2> HIDE DEF n
    <2>2. [pos EXCEPT ![g].skips = n] \in [Groups -> Position]
      BY <1>2, <1>3, <2>1 DEF SkipZero, TypeOK, Position
    <2>3. pos' \in [Groups -> Position]
      BY <1>3, <2>2 DEF SkipZero, TypeOK, n
    <2>4. pc' \in [Sellers -> Labels] /\ job' \in [Sellers -> Job]
      BY <1>1, <1>3, GotoTypes, RestTypes DEF SkipZero, Labels
    <2> QED BY <1>3, <2>3, <2>4 DEF SkipZero, TypeOK
  <1>4. CASE DropZero(s)
    <2>1. MarkFailed(pos[g]) \in Position
      BY <1>2, <1>4, Transitions DEF DropZero
    <2>2. pos' \in [Groups -> Position]
      BY <1>4, <2>1 DEF DropZero, TypeOK
    <2>3. pc' \in [Sellers -> Labels] /\ job' \in [Sellers -> Job]
      BY <1>4, RestTypes DEF DropZero
    <2> QED BY <1>4, <2>2, <2>3 DEF DropZero, TypeOK
  <1>5. CASE Mark(s)
    <2>1. MarkSelling(pos[g]) \in Position
      BY <1>2, <1>5, Transitions DEF Mark
    <2>2. pos' \in [Groups -> Position]
      BY <1>5, <2>1 DEF Mark, TypeOK
    <2>3. ASSUME NEW viaPump \in BOOLEAN, NEW label \in {"send", "psend"},
                 Goto(s, label, [job[s] EXCEPT !.pump = viaPump])
          PROVE  pc' \in [Sellers -> Labels] /\ job' \in [Sellers -> Job]
      <3>1. [job[s] EXCEPT !.pump = viaPump] \in Job
        BY <1>1 DEF Job
      <3> QED BY <2>3, <3>1, GotoTypes DEF Labels
    <2>4. pc' \in [Sellers -> Labels] /\ job' \in [Sellers -> Job]
      BY <1>5, <2>3, RestTypes DEF Mark
    <2> QED BY <1>5, <2>2, <2>4 DEF Mark, TypeOK
  <1>6. CASE Send(s)
    <2>1. /\ [job[s] EXCEPT !.tx = "pending"] \in Job
          /\ [job[s] EXCEPT !.fallback = TRUE] \in Job
      BY <1>1 DEF Job
    <2>2. pc' \in [Sellers -> Labels] /\ job' \in [Sellers -> Job]
      BY <1>1, <1>6, <2>1, GotoTypes, TryTypes DEF Send, Labels
    <2> QED BY <1>6, <2>2 DEF Send, TypeOK
  <1>7. CASE WaitConfirm(s)
    <2>1. /\ [job[s] EXCEPT !.tx = "none"] \in Job
          /\ [job[s] EXCEPT !.fallback = TRUE, !.erred = TRUE, !.tx = "none"] \in Job
      BY <1>1 DEF Job
    <2>2. pc' \in [Sellers -> Labels] /\ job' \in [Sellers -> Job]
      BY <1>1, <1>7, <2>1, GotoTypes, TryTypes DEF WaitConfirm, Labels
    <2>3. <<job[s].group, job[s].tokens>> \in Groups \X Nat
      BY <1>1, <1>2, <1>7 DEF WaitConfirm, Job
    <2>4. abandoned' \subseteq Groups \X Nat
      BY <1>7, <2>3 DEF WaitConfirm, TypeOK
    <2> QED BY <1>7, <2>2, <2>4 DEF WaitConfirm, TypeOK
  <1>8. CASE CloseSold(s)
    <2>1. MarkClosed(pos[g]) \in Position
      BY <1>2, <1>8, Transitions DEF CloseSold
    <2>2. pos' \in [Groups -> Position]
      BY <1>8, <2>1 DEF CloseSold, TypeOK
    <2>3. pc' \in [Sellers -> Labels] /\ job' \in [Sellers -> Job]
      BY <1>8, NoRecords, GotoTypes DEF CloseSold, Labels
    <2> QED BY <1>8, <2>2, <2>3 DEF CloseSold, TypeOK
  <1>9. CASE CleanupMint(s)
    <2>1. pc' \in [Sellers -> Labels] /\ job' \in [Sellers -> Job]
      BY <1>9, RestTypes DEF CleanupMint
    <2> QED BY <1>9, <2>1 DEF CleanupMint, TypeOK
  <1>10. CASE GiveUp(s)
    <2> DEFINE cap == ~job[s].manual /\ CapReached(g)
    <2>1. cap \in BOOLEAN /\ job[s].prev \in States
      BY <1>1 DEF Job
    <2> HIDE DEF cap
    <2>2. Restore(pos[g], job[s].prev, cap) \in Position
      BY <1>2, <1>10, <2>1, Transitions DEF GiveUp
    <2>3. pos' \in [Groups -> Position]
      BY <1>10, <2>2 DEF GiveUp, TypeOK, cap
    <2>4. pc' \in [Sellers -> Labels] /\ job' \in [Sellers -> Job]
      BY <1>10, RestTypes DEF GiveUp
    <2> QED BY <1>10, <2>3, <2>4 DEF GiveUp, TypeOK
  <1>11. CASE SendPartial(s)
    <2>1. job[s].tokens \in Nat /\ job[s].prev \in States /\ g \in Groups /\ pos[g] \in Position
      BY <1>1, <1>2, <1>11 DEF Job, SendPartial
    <2>2. /\ ApplyPartial(pos[g], job[s].tokens) \in Position
          /\ Restore(pos[g], job[s].prev, FALSE) \in Position
      BY <2>1, Transitions
    <2>3. pos' \in [Groups -> Position]
      BY <1>11, <2>2 DEF SendPartial, TypeOK
    <2>4. abandoned' \subseteq Groups \X Nat
      <3>1. <<g, job[s].tokens>> \in Groups \X Nat
        BY <2>1
      <3>2. abandoned' \subseteq abandoned \cup {<<g, job[s].tokens>>}
        BY <1>11 DEF SendPartial
      <3> QED BY <3>1, <3>2 DEF TypeOK
    <2>5. pc' \in [Sellers -> Labels] /\ job' \in [Sellers -> Job]
      BY <1>11, RestTypes DEF SendPartial
    <2> QED BY <1>11, <2>3, <2>4, <2>5 DEF SendPartial, TypeOK
  <1> QED BY <1>3, <1>4, <1>5, <1>6, <1>7, <1>8, <1>9, <1>10, <1>11 DEF SellStep

-----------------------------------------------------------------------------
\* Steps of the other tasks: they move no seller, and what they do to a position
\* is fail it, forget it, or take it out of Confirming.
LEMMA OthersKeepGate ==
  ASSUME TypeOK, Gate, pc' = pc,
         \A s \in Sellers : /\ job'[s].group = job[s].group
                            /\ job[s].tx = "none" => job'[s].tx = "none",
         \A g \in Groups : /\ \/ pos'[g].state = pos[g].state
                              \/ pos'[g].state \in {"Failed", "none"}
                              \/ pos[g].state = "Confirming"
                           /\ pos[g].state = "none" => pos'[g].state = "none"
                           /\ buy'[g] \in {"none", "prepared"} => buy[g] \in {"none", "prepared"}
  PROVE  Gate'
  BY DEF Gate, HasGroup, Held, Unbought, SellMutex, InSection

\* Steps of a seller s to a label: it may change the position it holds, fail a
\* position, or enter the section with one that can be sold.
LEMMA SellerKeepsGate ==
  ASSUME TypeOK, Gate, NEW s \in Sellers, NEW label \in Labels, NEW j \in Job,
         Goto(s, label, j), buy' = buy,
         label \notin {"idle", "cleanup"} \/ j.tx # "none" => j.group \in Groups,
         \A g \in Groups : /\ \/ pos'[g].state = pos[g].state
                              \/ pos'[g].state = "Failed"
                              \/ InSection(s) /\ job[s].group = g
                              \/ Sellable(pos[g])
                           /\ pos[g].state = "none" => pos'[g].state = "none",
         label \in {"send", "wait", "close", "giveup", "psend"} =>
            \/ /\ InSection(s) /\ j.group = job[s].group
               /\ pos'[j.group].state = pos[j.group].state
            \/ Sellable(pos[j.group]) /\ pos'[j.group].state = "Selling"
  PROVE  Gate'
  <1>1. /\ pc'[s] = label /\ job'[s] = j
        /\ \A t \in Sellers \ {s} : pc'[t] = pc[t] /\ job'[t] = job[t]
    BY DEF Goto, TypeOK
  <1>2. HasGroup'
    BY <1>1 DEF Gate, HasGroup
  <1>3. \A t \in Sellers : InSection(t) => ~Sellable(pos[job[t].group])
    BY DEF Gate, Held, Sellable
  <1>4. Held'
    <2> SUFFICES ASSUME NEW t \in Sellers, InSection(t)'
                 PROVE  /\ job'[t].group \in Groups
                        /\ pos'[job'[t].group].state \in {"Selling", "Failed", "none"}
      BY DEF Held
    <2>1. CASE t = s
      <3>1. j.group \in Groups
        BY <1>1, <2>1 DEF InSection
      <3> QED BY <1>1, <2>1, <3>1 DEF InSection, Gate, Held
    <2>2. CASE t # s
      <3>1. InSection(t) /\ job'[t] = job[t]
        BY <1>1, <2>2 DEF InSection
      <3>2. job[t].group \in Groups /\ pos[job[t].group].state \in {"Selling", "Failed", "none"}
        BY <3>1 DEF Gate, Held
      <3>3. ~(InSection(s) /\ job[s].group = job[t].group)
        BY <2>2, <3>1 DEF Gate, SellMutex
      <3> QED BY <1>3, <3>1, <3>2, <3>3
    <2> QED BY <2>1, <2>2
  <1>5. Unbought'
    <2> SUFFICES ASSUME NEW g \in Groups, buy[g] \in {"none", "prepared"}
                 PROVE  /\ pos'[g].state = "none"
                        /\ \A t \in Sellers : InSection(t)' => job'[t].group # g
      BY DEF Unbought
    <2>1. pos[g].state = "none" /\ pos'[g].state = "none"
      BY DEF Gate, Unbought
    <2>2. \A t \in Sellers : InSection(t) => job[t].group # g
      BY DEF Gate, Unbought
    <2> QED BY <1>1, <2>1, <2>2 DEF InSection, Sellable
  <1>6. SellMutex'
    <2>1. ASSUME NEW t \in Sellers \ {s}, InSection(t)', InSection(s)'
          PROVE  job'[s].group # job'[t].group
      <3>1. InSection(t) /\ job'[t] = job[t] /\ job'[s] = j
        BY <1>1, <2>1 DEF InSection
      <3>2. CASE InSection(s) /\ j.group = job[s].group
        BY <3>1, <3>2 DEF Gate, SellMutex
      <3>3. CASE Sellable(pos[j.group])
        BY <1>3, <3>1, <3>3
      <3> QED BY <1>1, <2>1, <3>2, <3>3 DEF InSection
    <2>2. \A t, u \in Sellers \ {s} : t # u /\ InSection(t)' /\ InSection(u)' =>
                                        job'[t].group # job'[u].group
      BY <1>1 DEF Gate, SellMutex, InSection
    <2> QED BY <2>1, <2>2 DEF SellMutex
  <1> QED BY <1>2, <1>4, <1>5, <1>6 DEF Gate

\* A group's buy, its confirmation and the monitors keep the gate.
LEMMA GroupStepsKeepGate ==
  ASSUME TypeOK, Gate, NEW g \in Groups, BuyStep(g) \/ ConfirmStep(g) \/ MonitorStep(g)
  PROVE  Gate'
  <1> USE DEF mapVars, buyVars, chainVars, cacheVars, sellVars
  <1>1. CASE SubmitBuy(g)
    <2>1. pc' = pc /\ job' = job
      BY <1>1 DEF SubmitBuy
    <2>2. \A h \in Groups \ {g} : pos'[h] = pos[h] /\ buy'[h] = buy[h]
      BY <1>1 DEF SubmitBuy, TypeOK
    <2>3. buy'[g] = "pending"
      BY <1>1 DEF SubmitBuy, TypeOK
    <2>4. \A s \in Sellers : InSection(s) => job[s].group # g
      BY <1>1 DEF SubmitBuy, Gate, Unbought
    <2> QED BY <2>1, <2>2, <2>3, <2>4 DEF Gate, HasGroup, Held, Unbought, SellMutex, InSection
  <1>2. CASE PrepareBuy(g) \/ LandBuy(g)
    BY <1>2, OthersKeepGate DEF PrepareBuy, LandBuy, TypeOK
  <1>3. CASE Age(g) \/ SeeIncrease(g)
    BY <1>3, OthersKeepGate DEF Age, SeeIncrease
  <1>4. CASE ConfirmSuccess(g)
    <2>1. \A h \in Groups : pos'[h] = IF h = g THEN MarkActive(pos[g], conf[g].amount) ELSE pos[h]
      BY <1>4 DEF ConfirmSuccess, TypeOK
    <2>2. \A h \in Groups : pos'[h] = pos[h] \/ pos[h].state = "Confirming"
      BY <2>1 DEF MarkActive
    <2> QED BY <1>4, <2>2, OthersKeepGate DEF ConfirmSuccess
  <1>5. CASE ConfirmFailure(g)
    <2>1. \A h \in Groups : pos'[h] = IF h = g THEN MarkFailed(pos[g]) ELSE pos[h]
      BY <1>5 DEF ConfirmFailure, TypeOK
    <2>2. \A h \in Groups : pos'[h] = pos[h] \/ (pos[h].state # "none" /\ pos'[h].state = "Failed")
      BY <2>1, FailedOrSame
    <2> QED BY <1>5, <2>2, OthersKeepGate DEF ConfirmFailure
  <1>6. CASE PriceSignal(g) \/ HoldSignal(g) \/ SellAll(g)
    BY <1>6, OthersKeepGate DEF PriceSignal, HoldSignal, SellAll, Signal
  <1>7. CASE FallbackRead(g)
    BY <1>7, OthersKeepGate DEF FallbackRead
  <1>8. CASE Forget(g)
    <2>1. \A h \in Groups : pos'[h] = IF h = g THEN NoPos ELSE pos[h]
      BY <1>8 DEF Forget, TypeOK
    <2> QED BY <1>8, <2>1, OthersKeepGate DEF Forget, NoPos
  <1> QED BY <1>1, <1>2, <1>3, <1>4, <1>5, <1>6, <1>7, <1>8 DEF BuyStep, ConfirmStep, MonitorStep

\* The rest of the steps that are not a seller's keep the gate.
LEMMA ChainStepsKeepGate ==
  ASSUME TypeOK, Gate,
         FallbackAct \/ LandAbandoned \/ CacheUpdate \/ \E s \in Sellers : LandSell(s)
  PROVE  Gate'
  <1> USE DEF mapVars, buyVars, chainVars, cacheVars, sellVars
  <1>1. CASE FallbackAct
    <2>1. PICK c \in fb : \/ FallbackFails(c)
                          \/ FallbackWedges(c)
                          \/ pos[c.group] = NoPos /\ fb' = {} /\ UNCHANGED <<pos, wedged>>
      BY <1>1 DEF FallbackAct
    <2>2. c.group \in Groups
      BY DEF TypeOK
    <2>3. \A h \in Groups : pos'[h] = pos[h] \/ pos'[h] = MarkFailed(pos[h])
      BY <2>1, <2>2 DEF FallbackFails, FallbackWedges, TypeOK
    <2>4. \A h \in Groups : pos'[h] = pos[h] \/ (pos[h].state # "none" /\ pos'[h].state = "Failed")
      BY <2>3, FailedOrSame
    <2> QED BY <1>1, <2>4, OthersKeepGate DEF FallbackAct
  <1>2. CASE LandAbandoned \/ CacheUpdate
    BY <1>2, OthersKeepGate DEF LandAbandoned, CacheUpdate
  <1>3. ASSUME NEW s \in Sellers, LandSell(s) PROVE Gate'
    <2>1. pc' = pc /\ pos' = pos /\ buy' = buy
      BY <1>3 DEF LandSell
    <2>2. PICK v \in {"landed", "failed"} : job' = [job EXCEPT ![s].tx = v]
      BY <1>3 DEF LandSell
    <2>3. job[s].tx = "pending"
      BY <1>3 DEF LandSell
    <2>4. \A t \in Sellers : /\ job'[t].group = job[t].group
                             /\ job[t].tx = "none" => job'[t].tx = "none"
      BY <2>2, <2>3 DEF TypeOK, Job
    <2> QED BY <2>1, <2>4, OthersKeepGate
  <1> QED BY <1>1, <1>2, <1>3

\* Picking a signal or a button leaves the positions alone and stays outside
\* the section.
LEMMA PicksKeepGate ==
  ASSUME TypeOK, Gate,
         \/ "exec" \in Sellers /\ TakeSignal
         \/ \E g \in Groups : SellButton(g) \/ PartialButton(g)
  PROVE  Gate'
  <1> USE DEF mapVars, buyVars, chainVars, cacheVars, sellVars
  <1>1. ASSUME NEW s \in Sellers, NEW g \in Groups,
               pos' = pos, buy' = buy, pc[s] = "idle",
               \/ Rest(s)
               \/ \E label \in {"skip", "mark", "pmark"}, j \in [group : {g}, tx : {"none"}] :
                     /\ pc' = [pc EXCEPT ![s] = label]
                     /\ \A t \in Sellers \ {s} : job'[t] = job[t]
                     /\ job'[s].group = j.group /\ job'[s].tx = j.tx
        PROVE  Gate'
    <2>1. \A t \in Sellers \ {s} : pc'[t] = pc[t] /\ job'[t] = job[t]
      BY <1>1 DEF Rest, Goto, TypeOK
    <2>2. pc'[s] \in {"idle", "skip", "mark", "pmark"}
      BY <1>1 DEF Rest, Goto, TypeOK
    <2>3. \/ pc'[s] = "idle" /\ job'[s].tx = "none"
          \/ job'[s].group \in Groups
      BY <1>1 DEF Rest, Goto, TypeOK, NoJob
    <2> QED BY <1>1, <2>1, <2>2, <2>3 DEF Gate, HasGroup, Held, Unbought, SellMutex, InSection
  <1>2. ASSUME NEW s \in Sellers, NEW g \in Groups, NEW manual \in BOOLEAN,
               Consider(s, g, manual), pos' = pos, buy' = buy, pc[s] = "idle"
        PROVE  Gate'
    <2>1. CASE Rest(s)
      BY <1>1, <1>2, <2>1
    <2>2. CASE ~Rest(s)
      <3>1. PICK have \in WalletBalance :
              LET n == IF pos[g].amount > 0 THEN Least(pos[g].amount, have) ELSE have
              IN  Goto(s, IF n = 0 THEN "skip" ELSE "mark",
                       [NoJob EXCEPT !.group = g, !.manual = manual,
                                     !.prev = pos[g].state, !.tokens = n,
                                     !.expect = have - n, !.try = 1])
        BY <1>2, <2>2 DEF Consider
      <3>2. PICK label \in {"skip", "mark"} : pc' = [pc EXCEPT ![s] = label]
        BY <3>1 DEF Goto
      <3>3. job'[s].group = g /\ job'[s].tx = "none"
        BY <3>1 DEF Goto, TypeOK, NoJob
      <3>4. \A t \in Sellers \ {s} : job'[t] = job[t]
        BY <3>1 DEF Goto, TypeOK
      <3> DEFINE j == [group |-> g, tx |-> "none"]
      <3>5. j \in [group : {g}, tx : {"none"}] /\ j.group = g /\ j.tx = "none"
        OBVIOUS
      <3> HIDE DEF j
      <3> QED BY <1>1, <1>2, <3>2, <3>3, <3>4, <3>5
    <2> QED BY <2>1, <2>2
  <1>3. CASE "exec" \in Sellers /\ TakeSignal
    <2>1. Head(queue) \in Groups \X BOOLEAN
      BY <1>3 DEF TakeSignal, TypeOK
    <2>2. Head(queue)[1] \in Groups /\ Head(queue)[2] \in BOOLEAN
      BY <2>1
    <2> QED BY <1>2, <1>3, <2>2 DEF TakeSignal
  <1>4. ASSUME NEW g \in Groups, SellButton(g) PROVE Gate'
    BY <1>2, <1>4 DEF SellButton
  <1>5. ASSUME NEW g \in Groups, PartialButton(g) PROVE Gate'
    <2>1. pos' = pos /\ buy' = buy /\ pc["tg"] = "idle" /\ "tg" \in Sellers
      BY <1>5 DEF PartialButton
    <2>2. pc' = [pc EXCEPT !["tg"] = "pmark"]
      BY <1>5 DEF PartialButton, Goto
    <2>3. job'["tg"].group = g /\ job'["tg"].tx = "none"
      BY <1>5, <2>1 DEF PartialButton, Goto, TypeOK, NoJob
    <2>4. \A t \in Sellers \ {"tg"} : job'[t] = job[t]
      BY <1>5 DEF PartialButton, Goto, TypeOK
    <2> DEFINE j == [group |-> g, tx |-> "none"]
    <2>5. j \in [group : {g}, tx : {"none"}] /\ j.group = g /\ j.tx = "none"
      OBVIOUS
    <2> HIDE DEF j
    <2> QED BY <1>1, <2>1, <2>2, <2>3, <2>4, <2>5
  <1> QED BY <1>3, <1>4, <1>5

\* A seller's own steps keep the gate.
LEMMA SellStepsKeepGate ==
  ASSUME TypeOK, Gate, NEW s \in Sellers, SellStep(s)
  PROVE  Gate'
  <1> USE DEF mapVars, buyVars, chainVars, cacheVars, sellVars
  <1> DEFINE g == job[s].group
             Harmless == \A h \in Groups :
                            /\ \/ pos'[h].state = pos[h].state
                               \/ pos'[h].state = "Failed"
                               \/ InSection(s) /\ job[s].group = h
                               \/ Sellable(pos[h])
                            /\ pos[h].state = "none" => pos'[h].state = "none"
  <1>1. job[s] \in Job /\ job[s].tx \in {"none", "pending", "landed", "failed"}
    BY DEF TypeOK, Job
  <1>2. pc[s] \notin {"idle", "cleanup"} => g \in Groups
    BY DEF Gate, HasGroup
  <1>3. NoJob \in Job /\ NoJob.tx = "none"
    BY NoRecords DEF NoJob
  <1>4. ASSUME Rest(s), buy' = buy, Harmless PROVE Gate'
    BY <1>3, <1>4, SellerKeepsGate DEF Rest, Labels
  <1>5. CASE SkipZero(s)
    <2>1. g \in Groups
      BY <1>2, <1>5 DEF SkipZero
    <2>2. \A h \in Groups : pos'[h].state = pos[h].state
      <3>1. CASE pos[g] = NoPos
        BY <1>5, <3>1 DEF SkipZero
      <3>2. CASE pos[g] # NoPos
        <4>1. PICK n : pos' = [pos EXCEPT ![g].skips = n]
          BY <1>5, <3>2 DEF SkipZero
        <4> QED BY <4>1 DEF TypeOK, Position
      <3> QED BY <3>1, <3>2
    <2>3. CASE Rest(s)
      BY <1>4, <1>5, <2>2, <2>3 DEF SkipZero
    <2>4. CASE Goto(s, "drop", job[s])
      BY <1>1, <1>5, <2>1, <2>2, <2>4, SellerKeepsGate DEF SkipZero, Labels
    <2> QED BY <1>5, <2>3, <2>4 DEF SkipZero
  <1>6. CASE DropZero(s)
    <2>1. \A h \in Groups : pos'[h] = pos[h] \/ pos'[h] = MarkFailed(pos[h])
      BY <1>6 DEF DropZero, TypeOK
    <2>2. Harmless
      BY <2>1, FailedOrSame
    <2> QED BY <1>4, <1>6, <2>2 DEF DropZero
  <1>7. CASE Mark(s)
    <2>1. CASE ~Sellable(pos[g])
      BY <1>4, <1>7, <2>1 DEF Mark
    <2>2. CASE Sellable(pos[g])
      <3>1. g \in Groups
        BY <1>2, <1>7 DEF Mark
      <3>2. PICK label \in {"send", "psend"}, viaPump \in BOOLEAN :
              Goto(s, label, [job[s] EXCEPT !.pump = viaPump])
        BY <1>7, <2>2 DEF Mark
      <3> DEFINE j == [job[s] EXCEPT !.pump = viaPump]
      <3>3. j \in Job /\ j.group = g
        BY <1>1 DEF Job
      <3>4. \A h \in Groups : pos'[h] = IF h = g THEN MarkSelling(pos[g]) ELSE pos[h]
        BY <1>7, <2>2 DEF Mark, TypeOK
      <3>5. pos'[g].state = "Selling"
        BY <3>1, <3>4 DEF MarkSelling, TypeOK, Position
      <3>6. Harmless
        BY <2>2, <3>4 DEF Sellable
      <3>7. Goto(s, label, j) /\ label \in Labels /\ buy' = buy
        BY <1>7, <3>2 DEF Mark, Labels
      <3>8. label \notin {"idle", "cleanup", "wait", "close", "giveup"}
        OBVIOUS
      <3> HIDE DEF j
      <3> QED BY <2>2, <3>1, <3>3, <3>5, <3>6, <3>7, <3>8, SellerKeepsGate
    <2> QED BY <2>1, <2>2
  <1>8. CASE Send(s) \/ WaitConfirm(s)
    <2>1. InSection(s) /\ g \in Groups /\ pos' = pos /\ buy' = buy
      BY <1>2, <1>8 DEF Send, WaitConfirm, InSection
    <2>2. ASSUME NEW label \in {"send", "wait", "close", "giveup"}, NEW j \in Job,
                 j.group = g, Goto(s, label, j)
          PROVE  Gate'
      BY <2>1, <2>2, SellerKeepsGate DEF Labels
    <2>3. ASSUME NEW k \in Job, k.group = g, Fails(s, k) \/ NextTry(s, k) PROVE Gate'
      <3>1. CASE Fails(s, k)
        <4>1. [k EXCEPT !.tx = "none"] \in Job /\ [k EXCEPT !.tx = "none"].group = g
          BY <2>3 DEF Job
        <4> QED BY <2>2, <3>1, <4>1 DEF Fails
      <3>2. CASE NextTry(s, k) /\ ~Fails(s, k)
        <4> DEFINE n == k.try + 1
        <4>1. n \in 0..Tries
          BY <3>2, NumbersAssumption DEF NextTry, Job
        <4>2. Goto(s, "send", [k EXCEPT !.try = n, !.fallback = FALSE, !.tx = "none"])
          BY <3>2 DEF NextTry
        <4> HIDE DEF n
        <4>3. /\ [k EXCEPT !.try = n, !.fallback = FALSE, !.tx = "none"] \in Job
              /\ [k EXCEPT !.try = n, !.fallback = FALSE, !.tx = "none"].group = g
          BY <2>3, <4>1 DEF Job
        <4> QED BY <2>2, <4>2, <4>3
      <3> QED BY <2>3, <3>1, <3>2
    <2>4. CASE Send(s)
      <3>1. /\ [job[s] EXCEPT !.tx = "pending"] \in Job
            /\ [job[s] EXCEPT !.tx = "pending"].group = g
            /\ [job[s] EXCEPT !.fallback = TRUE] \in Job
            /\ [job[s] EXCEPT !.fallback = TRUE].group = g
        BY <1>1 DEF Job
      <3> QED BY <1>1, <2>2, <2>3, <2>4, <3>1 DEF Send
    <2>5. CASE WaitConfirm(s)
      <3>1. /\ [job[s] EXCEPT !.tx = "none"] \in Job
            /\ [job[s] EXCEPT !.tx = "none"].group = g
            /\ [job[s] EXCEPT !.fallback = TRUE, !.erred = TRUE, !.tx = "none"] \in Job
            /\ [job[s] EXCEPT !.fallback = TRUE, !.erred = TRUE, !.tx = "none"].group = g
        BY <1>1 DEF Job
      <3> QED BY <1>1, <2>2, <2>3, <2>5, <3>1 DEF WaitConfirm
    <2> QED BY <1>8, <2>4, <2>5
  <1>9. CASE CloseSold(s)
    <2>1. InSection(s) /\ g \in Groups
      BY <1>2, <1>9 DEF CloseSold, InSection
    <2>2. \A h \in Groups : pos'[h] = IF h = g THEN MarkClosed(pos[g]) ELSE pos[h]
      BY <1>9 DEF CloseSold, TypeOK
    <2>3. Harmless
      BY <2>1, <2>2 DEF MarkClosed
    <2> QED BY <1>3, <1>9, <2>3, SellerKeepsGate DEF CloseSold, Labels
  <1>10. CASE CleanupMint(s)
    BY <1>4, <1>10 DEF CleanupMint
  <1>11. CASE GiveUp(s)
    <2>1. InSection(s) /\ g \in Groups
      BY <1>2, <1>11 DEF GiveUp, InSection
    <2>2. \A h \in Groups :
            pos'[h] = IF h = g THEN Restore(pos[g], job[s].prev, ~job[s].manual /\ CapReached(g))
                      ELSE pos[h]
      BY <1>11 DEF GiveUp, TypeOK
    <2>3. Harmless
      BY <2>1, <2>2 DEF Restore
    <2> QED BY <1>4, <1>11, <2>3 DEF GiveUp
  <1>12. CASE SendPartial(s)
    <2>1. InSection(s) /\ g \in Groups
      BY <1>2, <1>12 DEF SendPartial, InSection
    <2>2. \A h \in Groups :
            pos'[h] = IF h # g THEN pos[h]
                      ELSE IF abandoned' # abandoned \/ pos'[g] = ApplyPartial(pos[g], job[s].tokens)
                           THEN ApplyPartial(pos[g], job[s].tokens)
                           ELSE Restore(pos[g], job[s].prev, FALSE)
      BY <1>12 DEF SendPartial, TypeOK
    <2>3. Harmless
      BY <2>1, <2>2 DEF Restore, ApplyPartial
    <2> QED BY <1>4, <1>12, <2>3 DEF SendPartial
  <1> QED BY <1>5, <1>6, <1>7, <1>8, <1>9, <1>10, <1>11, <1>12 DEF SellStep

-----------------------------------------------------------------------------
\* The initial state satisfies the types and the gate.
LEMMA InitGate == Init => TypeOK /\ Gate
  <1> SUFFICES ASSUME Init PROVE Gate
    BY InitTypes
  <1>1. \A s \in Sellers : pc[s] = "idle" /\ job[s].tx = "none"
    BY DEF Init, NoJob
  <1>2. \A g \in Groups : pos[g].state = "none"
    BY DEF Init, NoPos
  <1> QED BY <1>1, <1>2 DEF Gate, HasGroup, Held, Unbought, SellMutex, InSection

\* Every step keeps the types and the gate.
LEMMA NextGate == TypeOK /\ Gate /\ [Next]_vars => (TypeOK /\ Gate)'
  <1> SUFFICES ASSUME TypeOK, Gate, [Next]_vars PROVE TypeOK' /\ Gate'
    OBVIOUS
  <1>1. HasGroup
    BY DEF Gate
  <1>2. ASSUME NEW g \in Groups, BuyStep(g) \/ ConfirmStep(g) PROVE TypeOK' /\ Gate'
    BY <1>2, BuyTypes, GroupStepsKeepGate
  <1>3. ASSUME NEW g \in Groups, MonitorStep(g) PROVE TypeOK' /\ Gate'
    BY <1>3, MonitorTypes, GroupStepsKeepGate
  <1>4. ASSUME NEW g \in Groups, SellButton(g) \/ PartialButton(g) PROVE TypeOK' /\ Gate'
    BY <1>4, PickTypes, PicksKeepGate
  <1>5. ASSUME NEW s \in Sellers, SellStep(s) PROVE TypeOK' /\ Gate'
    BY <1>1, <1>5, SellTypes, SellStepsKeepGate
  <1>6. CASE FallbackAct
    BY <1>6, FallbackActTypes, ChainStepsKeepGate
  <1>7. CASE "exec" \in Sellers /\ TakeSignal
    BY <1>7, PickTypes, PicksKeepGate
  <1>8. CASE LandAbandoned \/ CacheUpdate \/ \E s \in Sellers : LandSell(s)
    BY <1>1, <1>8, ChainTypes, ChainStepsKeepGate
  <1>9. CASE UNCHANGED vars
    <2> USE DEF vars, mapVars, buyVars, chainVars, cacheVars, sellVars
    <2>1. TypeOK'
      BY <1>9 DEF TypeOK
    <2>2. Gate'
      BY <1>9 DEF Gate, HasGroup, Held, Unbought, SellMutex, InSection
    <2> QED BY <2>1, <2>2
  <1> QED BY <1>2, <1>3, <1>4, <1>5, <1>6, <1>7, <1>8, <1>9 DEF Next

\* The inductive invariant holds in every reachable state.
THEOREM GateInvariance == Spec => [](TypeOK /\ Gate)
  BY InitGate, NextGate, PTL DEF Spec

\* Every variable keeps its type, for any groups, amounts and bounds.
THEOREM LifecycleTypes == Spec => []TypeOK
  BY GateInvariance, PTL

\* However the executor, the bot, the confirmation tasks and the monitors are
\* interleaved, no two sellers ever sell the same position at once.
THEOREM SellersExclude == Spec => []SellMutex
  <1>1. TypeOK /\ Gate => SellMutex
    BY DEF Gate
  <1> QED BY <1>1, GateInvariance, PTL

-----------------------------------------------------------------------------
(* Where a seller goes, and what it takes along                               *)

\* Where a seller goes that considers a position.
LEMMA ConsiderGoes ==
  ASSUME NEW s \in Sellers, NEW g \in Groups, NEW manual \in BOOLEAN, Consider(s, g, manual)
  PROVE  \/ Rest(s)
         \/ /\ pos[g] # NoPos
            /\ \E label \in {"skip", "mark"} : \E j :
                  Goto(s, label, j) /\ j.group = g /\ j.prev = pos[g].state
  <1> SUFFICES ASSUME ~Rest(s)
               PROVE  /\ pos[g] # NoPos
                      /\ \E label \in {"skip", "mark"} : \E j :
                            Goto(s, label, j) /\ j.group = g /\ j.prev = pos[g].state
    OBVIOUS
  <1>1. PICK have \in WalletBalance :
          LET n == IF pos[g].amount > 0 THEN Least(pos[g].amount, have) ELSE have
          IN  Goto(s, IF n = 0 THEN "skip" ELSE "mark",
                   [NoJob EXCEPT !.group = g, !.manual = manual,
                                 !.prev = pos[g].state, !.tokens = n,
                                 !.expect = have - n, !.try = 1])
    BY DEF Consider
  <1> DEFINE n == IF pos[g].amount > 0 THEN Least(pos[g].amount, have) ELSE have
             label == IF n = 0 THEN "skip" ELSE "mark"
             j == [NoJob EXCEPT !.group = g, !.manual = manual,
                                !.prev = pos[g].state, !.tokens = n,
                                !.expect = have - n, !.try = 1]
  <1>2. j.group = g /\ j.prev = pos[g].state
    BY DEF NoJob
  <1>3. Goto(s, label, j) /\ label \in {"skip", "mark"}
    BY <1>1
  <1>4. pos[g] # NoPos
    BY DEF Consider
  <1> HIDE DEF j, label
  <1> QED BY <1>2, <1>3, <1>4

\* A seller that picks up a signal or a button: the state it read goes with it.
LEMMA PickGoes ==
  ASSUME TypeOK,
         \/ \E g \in Groups : SellButton(g) \/ PartialButton(g)
         \/ "exec" \in Sellers /\ TakeSignal
  PROVE  /\ UNCHANGED <<pos, buy>>
         /\ \E s \in Sellers, g \in Groups :
               /\ pc[s] = "idle"
               /\ \/ Rest(s)
                  \/ /\ pos[g] # NoPos
                     /\ \E label \in {"skip", "mark", "pmark"} : \E j :
                           Goto(s, label, j) /\ j.group = g /\ j.prev = pos[g].state
  <1> USE DEF mapVars, buyVars
  <1>1. ASSUME NEW g \in Groups, SellButton(g)
        PROVE  "tg" \in Sellers /\ pc["tg"] = "idle" /\ Consider("tg", g, TRUE)
    BY <1>1 DEF SellButton
  <1>2. ASSUME NEW g \in Groups, PartialButton(g)
        PROVE  /\ "tg" \in Sellers /\ pc["tg"] = "idle" /\ pos[g] # NoPos
               /\ \E j : Goto("tg", "pmark", j) /\ j.group = g /\ j.prev = pos[g].state
    <2> DEFINE j == [NoJob EXCEPT !.group = g, !.manual = TRUE, !.prev = pos[g].state,
                                  !.tokens = pos[g].amount \div 2]
    <2>1. j.group = g /\ j.prev = pos[g].state
      BY DEF NoJob
    <2>2. Goto("tg", "pmark", j) /\ "tg" \in Sellers /\ pc["tg"] = "idle" /\ pos[g].amount > 0
      BY <1>2 DEF PartialButton
    <2>3. pos[g] # NoPos
      BY <2>2 DEF NoPos
    <2> HIDE DEF j
    <2> QED BY <2>1, <2>2, <2>3
  <1>3. ASSUME "exec" \in Sellers, TakeSignal
        PROVE  /\ Head(queue)[1] \in Groups /\ Head(queue)[2] \in BOOLEAN
               /\ pc["exec"] = "idle" /\ Consider("exec", Head(queue)[1], Head(queue)[2])
    BY <1>3 DEF TakeSignal, TypeOK
  <1>4. UNCHANGED <<pos, buy>>
    BY DEF SellButton, PartialButton, TakeSignal
  <1>5. CASE \E g \in Groups : SellButton(g)
    <2>1. PICK g \in Groups : SellButton(g)
      BY <1>5
    <2>2. "tg" \in Sellers /\ pc["tg"] = "idle" /\ Consider("tg", g, TRUE)
      BY <1>1, <2>1
    <2>3. \/ Rest("tg")
          \/ /\ pos[g] # NoPos
             /\ \E label \in {"skip", "mark"} : \E j :
                   Goto("tg", label, j) /\ j.group = g /\ j.prev = pos[g].state
      BY <2>2, ConsiderGoes
    <2> QED BY <1>4, <2>2, <2>3
  <1>6. CASE \E g \in Groups : PartialButton(g)
    BY <1>2, <1>4, <1>6
  <1>7. CASE "exec" \in Sellers /\ TakeSignal
    BY <1>3, <1>4, <1>7, ConsiderGoes
  <1> QED BY <1>5, <1>6, <1>7

\* A seller that tries again, or gives up trying, keeps its position.
LEMMA TryGoes ==
  ASSUME TypeOK, NEW s \in Sellers, Send(s) \/ WaitConfirm(s)
  PROVE  /\ pos' = pos /\ pc[s] \in {"send", "wait"}
         /\ \E label \in {"send", "wait", "close", "giveup"} : \E j :
               Goto(s, label, j) /\ j.group = job[s].group /\ j.prev = job[s].prev
  <1> USE DEF mapVars
  <1> DEFINE Kept(k) == k.group = job[s].group /\ k.prev = job[s].prev
             Goal == \E label \in {"send", "wait", "close", "giveup"} : \E j :
                        Goto(s, label, j) /\ j.group = job[s].group /\ j.prev = job[s].prev
  <1>1. job[s] \in Job
    BY DEF TypeOK
  <1>2. ASSUME NEW k \in Job, Kept(k), Fails(s, k) \/ NextTry(s, k)
        PROVE  Goal
    <2>1. CASE Fails(s, k)
      <3> DEFINE j == [k EXCEPT !.tx = "none"]
      <3>1. j.group = k.group /\ j.prev = k.prev /\ Goto(s, "giveup", j)
        BY <2>1 DEF Job, Fails
      <3> HIDE DEF j
      <3> QED BY <1>2, <3>1
    <2>2. CASE NextTry(s, k) /\ ~Fails(s, k)
      <3> DEFINE n == k.try + 1
                 j == [k EXCEPT !.try = n, !.fallback = FALSE, !.tx = "none"]
      <3>1. Goto(s, "send", j)
        BY <2>2 DEF NextTry
      <3>2. j.group = k.group /\ j.prev = k.prev
        BY DEF Job
      <3> HIDE DEF j
      <3> QED BY <1>2, <3>1, <3>2
    <2> QED BY <1>2, <2>1, <2>2
  <1>3. CASE Send(s)
    <2> DEFINE a == [job[s] EXCEPT !.tx = "pending"]
               b == [job[s] EXCEPT !.fallback = TRUE]
    <2>1. Kept(a) /\ Kept(b) /\ Kept(job[s])
      BY <1>1 DEF Job
    <2>2. Goto(s, "wait", a) \/ Goto(s, "send", b) \/ NextTry(s, job[s])
      BY <1>3 DEF Send
    <2> HIDE DEF a, b
    <2>3. Goal
      BY <1>1, <1>2, <2>1, <2>2
    <2> QED BY <1>3, <2>3 DEF Send
  <1>4. CASE WaitConfirm(s)
    <2> DEFINE a == [job[s] EXCEPT !.tx = "none"]
               b == [job[s] EXCEPT !.fallback = TRUE, !.erred = TRUE, !.tx = "none"]
    <2>1. Kept(a) /\ Kept(b) /\ Kept(job[s])
      BY <1>1 DEF Job
    <2>2. Goto(s, "close", a) \/ Goto(s, "send", b) \/ Fails(s, job[s]) \/ NextTry(s, job[s])
      BY <1>4 DEF WaitConfirm
    <2> HIDE DEF a, b
    <2>3. Goal
      BY <1>1, <1>2, <2>1, <2>2
    <2> QED BY <1>4, <2>3 DEF WaitConfirm
  <1> QED BY <1>3, <1>4

-----------------------------------------------------------------------------
(* Where the executor sells alone, a position on sale has its seller          *)

\* The bot sells nothing: every sale goes through the signal queue.
ExecutorOnly == "tg" \notin Sellers

\* A cycle begins with a position that is not on sale, so it puts none back on sale.
Attended ==
    /\ \A s \in Sellers : pc[s] \notin {"idle", "cleanup"} => job[s].prev # "Selling"
    /\ \A s \in Sellers : pc[s] \notin {"pmark", "psend"}
    /\ SellingHasSeller

\* What the other tasks do to a position: they never put it on sale.
LEMMA OthersAttend ==
  ASSUME Attended, pc' = pc,
         \A s \in Sellers : job'[s].group = job[s].group /\ job'[s].prev = job[s].prev,
         \A g \in Groups : pos'[g].state = "Selling" => pos[g].state = "Selling"
  PROVE  Attended'
  BY DEF Attended, SellingHasSeller, InSection

\* The tasks of a group's buy and the monitors leave the sellers to themselves.
LEMMA GroupStepsAttend ==
  ASSUME TypeOK, Attended, NEW g \in Groups, BuyStep(g) \/ ConfirmStep(g) \/ MonitorStep(g)
  PROVE  Attended'
  <1> USE DEF mapVars, buyVars, chainVars, cacheVars, sellVars
  <1>1. pc' = pc /\ job' = job
    BY DEF BuyStep, PrepareBuy, SubmitBuy, LandBuy, Age,
           ConfirmStep, SeeIncrease, ConfirmSuccess, ConfirmFailure,
           MonitorStep, PriceSignal, HoldSignal, SellAll, Signal, FallbackRead, Forget
  <1>2. pos[g] \in Position /\ conf[g].amount \in Nat
    BY DEF TypeOK, Task
  <1>3. ASSUME NEW p, pos' = [pos EXCEPT ![g] = p],
               p.state = "Selling" => pos[g].state = "Selling"
        PROVE  Attended'
    <2>1. \A h \in Groups : pos'[h] = IF h = g THEN p ELSE pos[h]
      BY <1>3 DEF TypeOK
    <2> QED BY <1>1, <1>3, <2>1, OthersAttend
  <1>4. CASE SubmitBuy(g)
    <2>1. PICK n : pos' = [pos EXCEPT ![g] = [NoPos EXCEPT !.state = "Confirming", !.amount = n]]
      BY <1>4 DEF SubmitBuy
    <2>2. [NoPos EXCEPT !.state = "Confirming", !.amount = n].state # "Selling"
      BY DEF NoPos
    <2> QED BY <1>3, <2>1, <2>2
  <1>5. CASE ConfirmSuccess(g)
    <2>1. MarkActive(pos[g], conf[g].amount).state = "Selling" => pos[g].state = "Selling"
      BY <1>2 DEF MarkActive, Position
    <2> QED BY <1>3, <1>5, <2>1 DEF ConfirmSuccess
  <1>6. CASE ConfirmFailure(g)
    <2>1. MarkFailed(pos[g]).state = "Selling" => pos[g].state = "Selling"
      BY FailedOrSame
    <2> QED BY <1>3, <1>6, <2>1 DEF ConfirmFailure
  <1>7. CASE Forget(g)
    BY <1>3, <1>7 DEF Forget, NoPos
  <1>8. CASE pos' = pos
    BY <1>1, <1>8, OthersAttend
  <1> QED BY <1>4, <1>5, <1>6, <1>7, <1>8
          DEF BuyStep, PrepareBuy, LandBuy, Age, ConfirmStep, SeeIncrease,
              MonitorStep, PriceSignal, HoldSignal, SellAll, Signal, FallbackRead

\* The executor picks up a signal: it is idle, so nothing is on sale.
LEMMA TakeAttends ==
  ASSUME TypeOK, Attended, ExecutorOnly, "exec" \in Sellers, TakeSignal
  PROVE  Attended'
  <1> USE DEF mapVars, buyVars, chainVars, cacheVars, sellVars
  <1>1. \A s \in Sellers : s = "exec"
    BY RolesAssumption DEF ExecutorOnly
  <1>2. \A g \in Groups : pos[g].state # "Selling"
    BY <1>1 DEF Attended, SellingHasSeller, InSection, TakeSignal
  <1>3. pos' = pos /\ Consider("exec", Head(queue)[1], Head(queue)[2])
    BY DEF TakeSignal
  <1>4. Head(queue)[1] \in Groups
    BY DEF TakeSignal, TypeOK
  <1>5. CASE Rest("exec")
    <2>1. pc'["exec"] = "idle"
      BY <1>5 DEF Rest, Goto, TypeOK
    <2> QED BY <1>1, <1>2, <1>3, <2>1 DEF Attended, SellingHasSeller
  <1>6. CASE ~Rest("exec")
    <2>1. Head(queue)[2] \in BOOLEAN
      BY DEF TakeSignal, TypeOK
    <2>2. PICK label \in {"skip", "mark"} :
            \E k : Goto("exec", label, k) /\ k.prev = pos[Head(queue)[1]].state
      BY <1>3, <1>4, <1>6, <2>1, ConsiderGoes
    <2>3. PICK j : Goto("exec", label, j) /\ j.prev = pos[Head(queue)[1]].state
      BY <2>2
    <2>4. pc'["exec"] = label /\ job'["exec"] = j
      BY <2>3 DEF Goto, TypeOK
    <2>5. j.prev # "Selling"
      BY <1>2, <1>4, <2>3
    <2> QED BY <1>1, <1>2, <1>3, <2>4, <2>5 DEF Attended, SellingHasSeller
  <1> QED BY <1>5, <1>6

\* The executor's own steps.
LEMMA SellStepsAttend ==
  ASSUME TypeOK, Gate, Attended, ExecutorOnly, NEW s \in Sellers, SellStep(s)
  PROVE  Attended'
  <1> USE DEF mapVars, buyVars, chainVars, cacheVars, sellVars
  <1> DEFINE g == job[s].group
  <1>1. \A t \in Sellers : t = s
    BY RolesAssumption DEF ExecutorOnly
  <1>2. \A h \in Groups : pos[h].state = "Selling" => InSection(s) /\ g = h
    BY <1>1 DEF Attended, SellingHasSeller
  <1>3. pc[s] \notin {"idle", "cleanup"} => g \in Groups /\ job[s].prev # "Selling"
    BY DEF Gate, HasGroup, Attended
  <1>4. job[s] \in Job /\ pc[s] \notin {"pmark", "psend"}
    BY DEF TypeOK, Attended
  <1>5. ASSUME NEW label, NEW j, Goto(s, label, j),
               label \notin {"pmark", "psend"},
               label \notin {"idle", "cleanup"} => j.prev # "Selling",
               \A h \in Groups : pos'[h].state = "Selling" =>
                  label \in {"send", "wait", "close", "giveup"} /\ j.group = h
        PROVE  Attended'
    <2>1. pc'[s] = label /\ job'[s] = j
      BY <1>5 DEF Goto, TypeOK
    <2> QED BY <1>1, <1>5, <2>1 DEF Attended, SellingHasSeller, InSection
  <1>6. ASSUME Rest(s), \A h \in Groups : pos'[h].state # "Selling" PROVE Attended'
    BY <1>5, <1>6 DEF Rest
  <1>7. CASE SkipZero(s)
    <2>1. \A h \in Groups : pos'[h].state = pos[h].state
      <3>1. CASE pos' = pos
        BY <3>1
      <3>2. CASE pos' # pos
        <4>1. PICK n : pos' = [pos EXCEPT ![g].skips = n]
          BY <1>7, <3>2 DEF SkipZero
        <4> QED BY <4>1 DEF TypeOK, Position
      <3> QED BY <3>1, <3>2
    <2>2. \A h \in Groups : pos'[h].state # "Selling"
      BY <1>2, <1>7, <2>1 DEF SkipZero, InSection
    <2>3. Rest(s) \/ Goto(s, "drop", job[s])
      BY <1>7 DEF SkipZero
    <2> QED BY <1>3, <1>5, <1>6, <1>7, <2>2, <2>3 DEF SkipZero
  <1>8. CASE DropZero(s)
    <2>1. \A h \in Groups : pos'[h] = pos[h] \/ pos'[h] = MarkFailed(pos[h])
      BY <1>8 DEF DropZero, TypeOK
    <2>2. \A h \in Groups : pos'[h].state # "Selling"
      BY <1>2, <1>8, <2>1, FailedOrSame DEF DropZero, InSection
    <2> QED BY <1>6, <1>8, <2>2 DEF DropZero
  <1>9. CASE Mark(s)
    <2>1. \A h \in Groups : pos[h].state # "Selling"
      BY <1>2, <1>9 DEF Mark, InSection
    <2>2. CASE ~Sellable(pos[g])
      BY <1>6, <1>9, <2>1, <2>2 DEF Mark
    <2>3. CASE Sellable(pos[g])
      <3>1. PICK viaPump : Goto(s, "send", [job[s] EXCEPT !.pump = viaPump])
        BY <1>4, <1>9, <2>3 DEF Mark
      <3> DEFINE j == [job[s] EXCEPT !.pump = viaPump]
      <3>2. j.group = g /\ j.prev = job[s].prev
        BY <1>4 DEF Job
      <3>3. Goto(s, "send", j)
        BY <3>1
      <3> HIDE DEF j
      <3>4. \A h \in Groups : pos'[h].state = "Selling" => h = g
        BY <1>9, <2>1, <2>3 DEF Mark, TypeOK
      <3> QED BY <1>3, <1>5, <1>9, <3>2, <3>3, <3>4 DEF Mark
    <2> QED BY <2>2, <2>3
  <1>10. CASE Send(s) \/ WaitConfirm(s)
    <2>1. pos' = pos
      BY <1>10 DEF Send, WaitConfirm
    <2>2. job[s].prev # "Selling"
      BY <1>3, <1>10 DEF Send, WaitConfirm
    <2>3. \A h \in Groups : pos'[h].state = "Selling" => h = g
      BY <1>2, <2>1
    <2>4. PICK label \in {"send", "wait", "close", "giveup"} :
            \E k : Goto(s, label, k) /\ k.group = g /\ k.prev = job[s].prev
      BY <1>10, TryGoes
    <2>5. PICK j : Goto(s, label, j) /\ j.group = g /\ j.prev = job[s].prev
      BY <2>4
    <2> QED BY <1>5, <2>2, <2>3, <2>5
  <1>11. CASE CloseSold(s)
    <2>1. \A h \in Groups : pos'[h] = IF h = g THEN MarkClosed(pos[h]) ELSE pos[h]
      BY <1>11 DEF CloseSold, TypeOK
    <2>2. \A p \in Position : MarkClosed(p).state # "Selling"
      BY DEF MarkClosed, Position
    <2>3. \A h \in Groups : pos'[h].state # "Selling"
      BY <1>2, <2>1, <2>2 DEF TypeOK
    <2> QED BY <1>5, <1>11, <2>3 DEF CloseSold
  <1>12. CASE CleanupMint(s)
    <2>1. \A h \in Groups : pos'[h].state # "Selling"
      BY <1>2, <1>12 DEF CleanupMint, InSection
    <2> QED BY <1>6, <1>12, <2>1 DEF CleanupMint
  <1>13. CASE GiveUp(s)
    <2> DEFINE cap == ~job[s].manual /\ CapReached(g)
    <2>1. \A h \in Groups : pos'[h] = IF h = g THEN Restore(pos[h], job[s].prev, cap) ELSE pos[h]
      BY <1>13 DEF GiveUp, TypeOK
    <2>2. job[s].prev # "Selling"
      BY <1>3, <1>13 DEF GiveUp
    <2> HIDE DEF cap
    <2>3. \A h \in Groups : Restore(pos[h], job[s].prev, cap).state # "Selling"
      BY <2>2 DEF Restore, TypeOK, Position
    <2>4. \A h \in Groups : pos'[h].state # "Selling"
      BY <1>2, <2>1, <2>3
    <2> QED BY <1>6, <1>13, <2>4 DEF GiveUp
  <1>14. CASE SendPartial(s)
    BY <1>4, <1>14 DEF SendPartial
  <1> QED BY <1>7, <1>8, <1>9, <1>10, <1>11, <1>12, <1>13, <1>14 DEF SellStep

\* Every step.
LEMMA NextAttended == ExecutorOnly /\ TypeOK /\ Gate /\ Attended /\ [Next]_vars => Attended'
  <1> SUFFICES ASSUME ExecutorOnly, TypeOK, Gate, Attended, [Next]_vars PROVE Attended'
    OBVIOUS
  <1> USE DEF mapVars, buyVars, chainVars, cacheVars, sellVars
  <1>1. ASSUME NEW g \in Groups, BuyStep(g) \/ ConfirmStep(g) \/ MonitorStep(g) PROVE Attended'
    BY <1>1, GroupStepsAttend
  <1>2. ASSUME NEW g \in Groups, SellButton(g) \/ PartialButton(g) PROVE Attended'
    BY <1>2 DEF SellButton, PartialButton, ExecutorOnly
  <1>3. ASSUME NEW s \in Sellers, SellStep(s) PROVE Attended'
    BY <1>3, SellStepsAttend
  <1>4. ASSUME NEW s \in Sellers, LandSell(s) PROVE Attended'
    <2>1. pc' = pc /\ pos' = pos
      BY <1>4 DEF LandSell
    <2>2. \A t \in Sellers : job'[t].group = job[t].group /\ job'[t].prev = job[t].prev
      <3>1. PICK v : job' = [job EXCEPT ![s].tx = v]
        BY <1>4 DEF LandSell
      <3> QED BY <3>1 DEF TypeOK, Job
    <2> QED BY <2>1, <2>2, OthersAttend
  <1>5. CASE FallbackAct
    <2>1. \A h \in Groups : pos'[h] = pos[h] \/ pos'[h] = MarkFailed(pos[h])
      BY <1>5 DEF FallbackAct, FallbackFails, FallbackWedges, TypeOK
    <2>2. \A h \in Groups : pos'[h].state = "Selling" => pos[h].state = "Selling"
      BY <2>1, FailedOrSame
    <2> QED BY <1>5, <2>2, OthersAttend DEF FallbackAct
  <1>6. CASE "exec" \in Sellers /\ TakeSignal
    BY <1>6, TakeAttends
  <1>7. CASE LandAbandoned \/ CacheUpdate
    BY <1>7, OthersAttend DEF LandAbandoned, CacheUpdate
  <1>8. CASE UNCHANGED vars
    BY <1>8, OthersAttend DEF vars
  <1> QED BY <1>1, <1>2, <1>3, <1>4, <1>5, <1>6, <1>7, <1>8 DEF Next

\* Where only the executor sells, no failure, confirmation or fallback leaves a
\* position on sale that nobody is selling.
THEOREM SellersAttend == ExecutorOnly => (Spec => []SellingHasSeller)
  <1> SUFFICES ASSUME ExecutorOnly PROVE Spec => []SellingHasSeller
    OBVIOUS
  <1>1. Init => Attended
    BY DEF Init, Attended, SellingHasSeller, NoPos
  <1>2. Attended => SellingHasSeller
    BY DEF Attended
  <1> QED BY <1>1, <1>2, NextAttended, GateInvariance, PTL DEF Spec

-----------------------------------------------------------------------------
(* The position's diagram                                                     *)

\* Of a forgotten position nothing is left.
Gone == \A g \in Groups : pos[g].state = "none" => pos[g] = NoPos

\* A position that ended while nobody held it, of a group that bought before.
Dead(g) ==
    /\ buy[g] \notin {"none", "prepared"}
    /\ Shown[g] \in {"Closed", "Failed", "none"}
    /\ Holders[g] = {}

\* A seller that read a closed position has a dead one in its hands.
Remembered ==
    \A s \in Sellers : pc[s] \notin {"idle", "cleanup"} =>
        /\ job[s].prev # "none"
        /\ job[s].prev = "Closed" => Dead(job[s].group)

Drawn == Gone /\ Remembered /\ (ExecutorOnly => Attended)

\* A step of the diagram, or none; what is filed was prepared before.
DiagramStep ==
    \/ UNCHANGED <<Shown, Holders>>
    \/ \E g \in Groups :
          \/ buy[g] = "prepared" /\ Diagram!File(g)
          \/ Diagram!Confirm(g) \/ Diagram!Fail(g) \/ Diagram!Forget(g)
          \/ \E s \in Sellers : Diagram!Take(g, s) \/ Diagram!Close(g, s) \/ Diagram!GiveBack(g, s)

\* The seller in the section is its position's only holder.
LEMMA HolderAlone ==
  ASSUME Gate, NEW s \in Sellers, InSection(s)
  PROVE  /\ job[s].group \in Groups
         /\ Holders[job[s].group] = {s}
         /\ Shown[job[s].group] \in {"Selling", "Failed", "none"}
  <1>1. job[s].group \in Groups
    BY DEF Gate, Held
  <1>2. \A t \in Sellers : InSection(t) /\ job[t].group = job[s].group => t = s
    BY DEF Gate, SellMutex
  <1>3. Holders[job[s].group] = {t \in Sellers : InSection(t) /\ job[t].group = job[s].group}
    BY <1>1 DEF Holders
  <1>4. Holders[job[s].group] = {s}
    BY <1>2, <1>3
  <1> QED BY <1>1, <1>4 DEF Shown, Gate, Held

\* Nobody holds a position that can be sold, or that is not filed.
LEMMA FreeToTake ==
  ASSUME Gate, NEW g \in Groups,
         pos[g].state \notin {"Selling", "Failed", "none"} \/ buy[g] \in {"none", "prepared"}
  PROVE  Holders[g] = {}
  BY DEF Gate, Held, Unbought, Holders

\* A step that writes one position, or none, in what the diagram sees.
LEMMA ShownMoves ==
  ASSUME TypeOK
  PROVE  /\ (\A h \in Groups : pos'[h].state = pos[h].state) => Shown' = Shown
         /\ \A g \in Groups : \A p :
               pos' = [pos EXCEPT ![g] = p] =>
                  /\ Shown' = [Shown EXCEPT ![g] = p.state]
                  /\ p.state = pos[g].state => Shown' = Shown
  <1>1. (\A h \in Groups : pos'[h].state = pos[h].state) => Shown' = Shown
    BY DEF Shown
  <1>2. ASSUME NEW g \in Groups, NEW p, pos' = [pos EXCEPT ![g] = p]
        PROVE  /\ Shown' = [Shown EXCEPT ![g] = p.state]
               /\ p.state = pos[g].state => Shown' = Shown
    <2>1. \A h \in Groups : pos'[h] = IF h = g THEN p ELSE pos[h]
      BY <1>2 DEF TypeOK
    <2>2. Shown' = [h \in Groups |-> IF h = g THEN p.state ELSE pos[h].state]
      BY <2>1 DEF Shown
    <2>3. Shown' = [Shown EXCEPT ![g] = p.state]
      BY <2>2 DEF Shown
    <2> QED BY <2>1, <2>3, <1>1
  <1> QED BY <1>1, <1>2

\* Who holds what, after a seller's step.
LEMMA HolderMoves ==
  ASSUME TypeOK, Gate, NEW s \in Sellers, NEW label, NEW j, Goto(s, label, j)
  PROVE  /\ ~InSection(s) /\ label \notin {"send", "wait", "close", "giveup", "psend"}
               => Holders' = Holders
         /\ InSection(s) /\ label \in {"send", "wait", "close", "giveup", "psend"}
               /\ j.group = job[s].group
               => Holders' = Holders
         /\ InSection(s) /\ label \notin {"send", "wait", "close", "giveup", "psend"}
               => Holders' = [Holders EXCEPT ![job[s].group] = {}]
         /\ ~InSection(s) /\ label \in {"send", "wait", "close", "giveup", "psend"}
               /\ j.group \in Groups /\ Holders[j.group] = {}
               => Holders' = [Holders EXCEPT ![j.group] = {s}]
  <1>1. \A t \in Sellers : pc'[t] = (IF t = s THEN label ELSE pc[t])
                           /\ job'[t] = (IF t = s THEN j ELSE job[t])
    BY DEF Goto, TypeOK
  <1> DEFINE out == label \notin {"send", "wait", "close", "giveup", "psend"}
             Work(h) == {t \in Sellers : InSection(t) /\ job[t].group = h}
  <1>2. Holders' = [h \in Groups |->
                      IF ~out /\ j.group = h THEN Work(h) \cup {s} ELSE Work(h) \ {s}]
    <2>1. ASSUME NEW h \in Groups, NEW t \in Sellers
          PROVE  (InSection(t)' /\ job'[t].group = h)
                   <=> IF t = s THEN ~out /\ j.group = h ELSE InSection(t) /\ job[t].group = h
      BY <1>1 DEF InSection
    <2>2. \A h \in Groups : {t \in Sellers : InSection(t)' /\ job'[t].group = h}
                              = IF ~out /\ j.group = h THEN Work(h) \cup {s} ELSE Work(h) \ {s}
      BY <2>1
    <2> HIDE DEF out, Work
    <2> QED BY <2>2 DEF Holders
  <1>3. Holders = [h \in Groups |-> Work(h)]
    BY DEF Holders
  <1>4. \A h \in Groups : s \in Work(h) <=> InSection(s) /\ job[s].group = h
    OBVIOUS
  <1>5. CASE ~InSection(s) /\ out
    BY <1>2, <1>3, <1>4, <1>5
  <1>6. CASE InSection(s) /\ ~out /\ j.group = job[s].group
    BY <1>2, <1>3, <1>4, <1>6
  <1>7. CASE InSection(s) /\ out
    <2>1. job[s].group \in Groups /\ Work(job[s].group) = {s}
      BY <1>3, <1>7, HolderAlone
    <2>2. Holders' = [h \in Groups |-> IF h = job[s].group THEN {} ELSE Work(h)]
      BY <1>2, <1>4, <1>7, <2>1
    <2> QED BY <1>3, <1>7, <2>1, <2>2
  <1>8. CASE ~InSection(s) /\ ~out /\ j.group \in Groups /\ Holders[j.group] = {}
    <2>1. Work(j.group) = {}
      BY <1>3, <1>8
    <2>2. Holders' = [h \in Groups |-> IF h = j.group THEN {s} ELSE Work(h)]
      BY <1>2, <1>4, <1>8, <2>1
    <2> QED BY <1>3, <1>8, <2>1, <2>2
  <1> QED BY <1>5, <1>6, <1>7, <1>8

\* The tasks of a group's buy, its confirmation and the monitors.
LEMMA GroupStepsDrawn ==
  ASSUME TypeOK, Gate, NEW g \in Groups, BuyStep(g) \/ ConfirmStep(g) \/ MonitorStep(g)
  PROVE  DiagramStep
  <1> USE DEF mapVars, buyVars, chainVars, cacheVars, sellVars
  <1>1. pc' = pc /\ job' = job
    BY DEF BuyStep, PrepareBuy, SubmitBuy, LandBuy, Age,
           ConfirmStep, SeeIncrease, ConfirmSuccess, ConfirmFailure,
           MonitorStep, PriceSignal, HoldSignal, SellAll, Signal, FallbackRead, Forget
  <1>2. Holders' = Holders
    BY <1>1 DEF Holders, InSection
  <1>3. Shown[g] = pos[g].state /\ pos[g] \in Position
    BY DEF Shown, TypeOK
  <1>4. CASE SubmitBuy(g)
    <2>1. PICK n : pos' = [pos EXCEPT ![g] = [NoPos EXCEPT !.state = "Confirming", !.amount = n]]
      BY <1>4 DEF SubmitBuy
    <2>2. [NoPos EXCEPT !.state = "Confirming", !.amount = n].state = "Confirming"
      BY DEF NoPos
    <2>3. Shown' = [Shown EXCEPT ![g] = "Confirming"]
      BY <2>1, <2>2, ShownMoves
    <2>4. buy[g] = "prepared" /\ Shown[g] = "none" /\ Holders[g] = {}
      BY <1>3, <1>4, FreeToTake DEF SubmitBuy, Gate, Unbought
    <2> QED BY <1>2, <2>3, <2>4 DEF DiagramStep, Diagram!File, Diagram!Becomes
  <1>5. CASE ConfirmSuccess(g)
    <2>1. pos' = [pos EXCEPT ![g] = MarkActive(pos[g], conf[g].amount)]
      BY <1>5 DEF ConfirmSuccess
    <2>2. CASE pos[g].state = "Confirming"
      <3>1. MarkActive(pos[g], conf[g].amount).state = "Active"
        BY <1>3, <2>2 DEF MarkActive, Position
      <3>2. Shown' = [Shown EXCEPT ![g] = "Active"]
        BY <2>1, <3>1, ShownMoves
      <3> QED BY <1>2, <1>3, <2>2, <3>2 DEF DiagramStep, Diagram!Confirm, Diagram!Becomes
    <2>3. CASE pos[g].state # "Confirming"
      <3>1. Shown' = Shown
        BY <2>1, <2>3, ShownMoves DEF MarkActive
      <3> QED BY <1>2, <3>1 DEF DiagramStep
    <2> QED BY <2>2, <2>3
  <1>6. CASE ConfirmFailure(g)
    <2>1. pos' = [pos EXCEPT ![g] = MarkFailed(pos[g])]
      BY <1>6 DEF ConfirmFailure
    <2>2. CASE MarkFailed(pos[g]) = pos[g]
      BY <1>2, <2>1, <2>2, ShownMoves DEF DiagramStep
    <2>3. CASE pos[g].state # "none" /\ MarkFailed(pos[g]).state = "Failed"
      <3>1. Shown' = [Shown EXCEPT ![g] = MarkFailed(pos[g]).state]
        BY <2>1, ShownMoves
      <3> QED BY <1>2, <1>3, <2>3, <3>1 DEF DiagramStep, Diagram!Fail, Diagram!Becomes
    <2> QED BY <2>2, <2>3, FailedOrSame
  <1>7. CASE Forget(g)
    <2>1. pos' = [pos EXCEPT ![g] = NoPos] /\ NoPos.state = "none"
      BY <1>7 DEF Forget, NoPos
    <2>2. Shown' = [Shown EXCEPT ![g] = "none"]
      BY <2>1, ShownMoves
    <2> QED BY <1>2, <1>3, <1>7, <2>2 DEF Forget, DiagramStep, Diagram!Forget, Diagram!Becomes
  <1>8. CASE pos' = pos
    BY <1>2, <1>8, ShownMoves DEF DiagramStep
  <1> QED BY <1>4, <1>5, <1>6, <1>7, <1>8
          DEF BuyStep, PrepareBuy, LandBuy, Age, ConfirmStep, SeeIncrease,
              MonitorStep, PriceSignal, HoldSignal, SellAll, Signal, FallbackRead

\* A seller that picks up a signal or a button holds nothing yet.
LEMMA PicksDrawn ==
  ASSUME TypeOK, Gate,
         \/ \E g \in Groups : SellButton(g) \/ PartialButton(g)
         \/ "exec" \in Sellers /\ TakeSignal
  PROVE  DiagramStep
  <1>1. Shown' = Shown
    BY PickGoes, ShownMoves
  <1>2. \E s \in Sellers : /\ pc[s] = "idle"
                          /\ \E label \in {"idle", "skip", "mark", "pmark"} : \E j : Goto(s, label, j)
    BY PickGoes DEF Rest
  <1>3. Holders' = Holders
    BY <1>2, HolderMoves DEF InSection
  <1> QED BY <1>1, <1>3 DEF DiagramStep

\* The sellers' steps: the position is taken, closed or given back, or it is not
\* the holder who acts.
LEMMA SellStepsDrawn ==
  ASSUME TypeOK, Gate, Drawn, NEW s \in Sellers, SellStep(s)
  PROVE  DiagramStep
  <1> USE DEF mapVars
  <1> DEFINE g == job[s].group
             p == pos[g]
  <1>1. pc[s] \notin {"idle", "cleanup"} => g \in Groups
    BY DEF Gate, HasGroup
  <1>2. g \in Groups => p \in Position /\ Shown[g] = p.state
    BY DEF TypeOK, Shown
  <1>3. pc[s] \notin {"idle", "cleanup"} => job[s].prev \in States \ {"none"}
    BY DEF Drawn, Remembered, TypeOK, Job
  <1>4. InSection(s) => /\ Holders[g] = {s}
                        /\ p.state \in {"Selling", "Failed", "none"}
                        /\ job[s].prev # "Closed"
    <2>1. SUFFICES ASSUME InSection(s)
                   PROVE  /\ Holders[g] = {s}
                          /\ p.state \in {"Selling", "Failed", "none"}
                          /\ job[s].prev # "Closed"
      OBVIOUS
    <2>2. Holders[g] = {s} /\ p.state \in {"Selling", "Failed", "none"}
      BY <1>1, <1>2, <2>1, HolderAlone DEF InSection
    <2> QED BY <2>1, <2>2 DEF Drawn, Remembered, Dead, InSection
  <1>5. InSection(s) /\ (pc[s] = "psend" \/ job[s].prev = "Selling") => Sellers # {s}
    <2>1. SUFFICES ASSUME InSection(s), Sellers = {s} PROVE pc[s] # "psend" /\ job[s].prev # "Selling"
      OBVIOUS
    <2>2. Attended
      BY <2>1, RolesAssumption DEF Drawn, ExecutorOnly
    <2> QED BY <2>1, <2>2 DEF Attended, InSection
  <1>6. CASE SkipZero(s)
    <2>1. Shown' = Shown
      <3>1. CASE pos' = pos
        BY <3>1, ShownMoves
      <3>2. CASE pos' # pos
        <4>1. PICK n : pos' = [pos EXCEPT ![g].skips = n]
          BY <1>6, <3>2 DEF SkipZero
        <4>2. \A h \in Groups : pos'[h].state = pos[h].state
          BY <4>1 DEF TypeOK, Position
        <4> QED BY <4>2, ShownMoves
      <3> QED BY <3>1, <3>2
    <2>2. Goto(s, "idle", NoJob) \/ Goto(s, "drop", job[s])
      BY <1>6 DEF SkipZero, Rest
    <2>3. Holders' = Holders
      BY <1>6, <2>2, HolderMoves DEF SkipZero, InSection
    <2> QED BY <2>1, <2>3 DEF DiagramStep
  <1>7. CASE DropZero(s)
    <2>1. pos' = [pos EXCEPT ![g] = MarkFailed(p)] /\ g \in Groups /\ Goto(s, "idle", NoJob)
      BY <1>1, <1>7 DEF DropZero, Rest
    <2>2. Holders' = Holders
      BY <1>7, <2>1, HolderMoves DEF DropZero, InSection
    <2>3. CASE MarkFailed(p) = p
      BY <2>1, <2>2, <2>3, ShownMoves DEF DiagramStep
    <2>4. CASE p.state # "none" /\ MarkFailed(p).state = "Failed"
      <3>1. Shown' = [Shown EXCEPT ![g] = MarkFailed(p).state]
        BY <2>1, ShownMoves
      <3> QED BY <1>2, <2>1, <2>2, <2>4, <3>1 DEF DiagramStep, Diagram!Fail, Diagram!Becomes
    <2> QED BY <2>1, <2>3, <2>4, FailedOrSame
  <1>8. CASE Mark(s)
    <2>1. ~InSection(s) /\ g \in Groups
      BY <1>1, <1>8 DEF Mark, InSection
    <2>2. CASE ~Sellable(p)
      <3>1. pos' = pos /\ Goto(s, "idle", NoJob)
        BY <1>8, <2>2 DEF Mark, Rest
      <3> QED BY <2>1, <3>1, ShownMoves, HolderMoves DEF DiagramStep
    <2>3. CASE Sellable(p)
      <3> DEFINE label == IF pc[s] = "mark" THEN "send" ELSE "psend"
      <3>1. PICK viaPump : Goto(s, label, [job[s] EXCEPT !.pump = viaPump])
        BY <1>8, <2>3 DEF Mark
      <3> DEFINE j == [job[s] EXCEPT !.pump = viaPump]
      <3>2. Goto(s, label, j) /\ j.group = g /\ label \in {"send", "psend"}
        BY <3>1 DEF TypeOK, Job
      <3> HIDE DEF j, label
      <3>3. p.state \in {"Confirming", "Active"} /\ Holders[g] = {}
        BY <2>1, <2>3, FreeToTake DEF Sellable
      <3>4. Holders' = [Holders EXCEPT ![g] = {s}]
        BY <2>1, <3>2, <3>3, HolderMoves
      <3>5. Shown' = [Shown EXCEPT ![g] = "Selling"]
        <4>1. pos' = [pos EXCEPT ![g] = MarkSelling(p)]
          BY <1>8, <2>3 DEF Mark
        <4>2. MarkSelling(p).state = "Selling"
          BY <1>2, <2>1 DEF MarkSelling, Position
        <4> QED BY <2>1, <4>1, <4>2, ShownMoves
      <3> QED BY <1>2, <2>1, <3>3, <3>4, <3>5 DEF DiagramStep, Diagram!Take, Diagram!Becomes
    <2> QED BY <2>2, <2>3
  <1>9. CASE Send(s) \/ WaitConfirm(s)
    <2>1. pos' = pos /\ InSection(s)
      BY <1>9, TryGoes DEF InSection
    <2>2. Holders' = Holders
      <3>1. PICK label \in {"send", "wait", "close", "giveup"} :
              \E j : Goto(s, label, j) /\ j.group = g
        BY <1>9, TryGoes
      <3>2. PICK j : Goto(s, label, j) /\ j.group = g
        BY <3>1
      <3> QED BY <2>1, <3>2, HolderMoves
    <2> QED BY <2>1, <2>2, ShownMoves DEF DiagramStep
  <1>10. CASE CleanupMint(s)
    <2>1. pos' = pos /\ ~InSection(s) /\ Goto(s, "idle", NoJob)
      BY <1>10 DEF CleanupMint, Rest, InSection
    <2> QED BY <2>1, ShownMoves, HolderMoves DEF DiagramStep
  <1>11. CASE CloseSold(s) \/ GiveUp(s) \/ SendPartial(s)
    <2>1. InSection(s) /\ g \in Groups
      BY <1>1, <1>11 DEF CloseSold, GiveUp, SendPartial, InSection
    <2>2. PICK label \in {"idle", "cleanup"} : Goto(s, label, NoJob)
      BY <1>11 DEF CloseSold, GiveUp, SendPartial, Rest
    <2>3. Holders' = [Holders EXCEPT ![g] = {}] /\ Holders[g] = {s}
      BY <1>4, <2>1, <2>2, HolderMoves
    <2>4. ASSUME NEW q, pos' = [pos EXCEPT ![g] = q],
                 \/ q.state = p.state /\ p.state \in {"none", "Failed"}
                 \/ p.state # "none" /\ q.state \in {"Confirming", "Active", "Failed"}
                 \/ p.state # "none" /\ q.state = "Selling" /\ Sellers # {s}
                 \/ p.state = "Selling" /\ q.state = "Closed"
          PROVE  DiagramStep
      <3>1. Shown' = [Shown EXCEPT ![g] = q.state] /\ (q.state = p.state => Shown' = Shown)
        BY <2>1, <2>4, ShownMoves
      <3>2. CASE q.state = "Closed" /\ p.state = "Selling"
        BY <1>2, <2>1, <2>3, <3>1, <3>2 DEF DiagramStep, Diagram!Close, Diagram!Becomes
      <3>3. CASE ~(q.state = "Closed" /\ p.state = "Selling")
        <4>1. Diagram!GiveBack(g, s)
          BY <1>2, <2>1, <2>3, <2>4, <3>1, <3>3 DEF Diagram!GiveBack, Diagram!Becomes
        <4> QED BY <2>1, <4>1 DEF DiagramStep
      <3> QED BY <3>2, <3>3
    <2>5. CASE CloseSold(s)
      <3>1. pos' = [pos EXCEPT ![g] = MarkClosed(p)]
        BY <2>5 DEF CloseSold
      <3>2. \/ p.state = "Selling" /\ MarkClosed(p).state = "Closed"
            \/ p.state \in {"none", "Failed"} /\ MarkClosed(p).state = p.state
        BY <1>2, <1>4, <2>1 DEF MarkClosed, Position
      <3> QED BY <2>4, <3>1, <3>2
    <2>6. ASSUME NEW cap, pos' = [pos EXCEPT ![g] = Restore(p, job[s].prev, cap)] PROVE DiagramStep
      <3>1. \/ p.state = "none" /\ Restore(p, job[s].prev, cap).state = p.state
            \/ p.state # "none" /\ Restore(p, job[s].prev, cap).state = job[s].prev
        BY <1>2, <2>1 DEF Restore, Position
      <3>2. job[s].prev \in {"Confirming", "Active", "Failed", "Selling"}
        BY <1>3, <1>4, <2>1 DEF InSection, States
      <3> QED BY <1>5, <2>1, <2>4, <2>6, <3>1, <3>2
    <2>7. CASE GiveUp(s)
      BY <2>6, <2>7 DEF GiveUp
    <2>8. CASE SendPartial(s)
      <3>1. CASE pos' = [pos EXCEPT ![g] = Restore(p, job[s].prev, FALSE)]
        BY <2>6, <3>1
      <3>2. CASE pos' = [pos EXCEPT ![g] = ApplyPartial(p, job[s].tokens)]
        <4>1. \/ ApplyPartial(p, job[s].tokens).state = p.state
              \/ p.state # "none" /\ ApplyPartial(p, job[s].tokens).state = "Active"
          BY <1>2, <2>1 DEF ApplyPartial, Position
        <4>2. p.state \in {"Selling", "Failed", "none"} /\ Sellers # {s}
          BY <1>4, <1>5, <2>1, <2>8 DEF SendPartial
        <4> QED BY <2>4, <3>2, <4>1, <4>2
      <3> QED BY <2>8, <3>1, <3>2 DEF SendPartial
    <2> QED BY <1>11, <2>5, <2>7, <2>8
  <1> QED BY <1>6, <1>7, <1>8, <1>9, <1>10, <1>11 DEF SellStep, CloseSold

\* Every step is one of the diagram's, or none.
LEMMA NextDrawn == TypeOK /\ Gate /\ Drawn /\ [Next]_vars => DiagramStep
  <1> SUFFICES ASSUME TypeOK, Gate, Drawn, [Next]_vars PROVE DiagramStep
    OBVIOUS
  <1> USE DEF mapVars, sellVars
  <1>1. ASSUME NEW g \in Groups, BuyStep(g) \/ ConfirmStep(g) \/ MonitorStep(g) PROVE DiagramStep
    BY <1>1, GroupStepsDrawn
  <1>2. CASE \/ \E g \in Groups : SellButton(g) \/ PartialButton(g)
             \/ "exec" \in Sellers /\ TakeSignal
    BY <1>2, PicksDrawn
  <1>3. ASSUME NEW s \in Sellers, SellStep(s) PROVE DiagramStep
    BY <1>3, SellStepsDrawn
  <1>4. ASSUME pos' = pos, pc' = pc, \A t \in Sellers : job'[t].group = job[t].group
        PROVE  DiagramStep
    <2>1. Holders' = Holders
      BY <1>4 DEF Holders, InSection
    <2> QED BY <1>4, <2>1, ShownMoves DEF DiagramStep
  <1>5. ASSUME NEW s \in Sellers, LandSell(s) PROVE DiagramStep
    <2>1. PICK v : job' = [job EXCEPT ![s].tx = v]
      BY <1>5 DEF LandSell
    <2>2. \A t \in Sellers : job'[t].group = job[t].group
      BY <2>1 DEF TypeOK, Job
    <2> QED BY <1>4, <1>5, <2>2 DEF LandSell
  <1>6. CASE FallbackAct
    <2>1. Holders' = Holders
      BY <1>6 DEF FallbackAct, Holders, InSection
    <2>2. CASE pos' = pos
      BY <2>1, <2>2, ShownMoves DEF DiagramStep
    <2>3. CASE pos' # pos
      <3>1. PICK g \in Groups : pos' = [pos EXCEPT ![g] = MarkFailed(pos[g])]
        BY <1>6, <2>3 DEF FallbackAct, FallbackFails, FallbackWedges, TypeOK
      <3>2. Shown' = [Shown EXCEPT ![g] = MarkFailed(pos[g]).state] /\ Shown[g] = pos[g].state
        BY <3>1, ShownMoves DEF Shown
      <3>3. CASE MarkFailed(pos[g]) = pos[g]
        BY <2>1, <3>1, <3>3, ShownMoves DEF DiagramStep
      <3>4. CASE pos[g].state # "none" /\ MarkFailed(pos[g]).state = "Failed"
        BY <2>1, <3>2, <3>4 DEF DiagramStep, Diagram!Fail, Diagram!Becomes
      <3> QED BY <3>3, <3>4, FailedOrSame
    <2> QED BY <2>2, <2>3
  <1>7. CASE LandAbandoned \/ CacheUpdate \/ UNCHANGED vars
    BY <1>4, <1>7 DEF LandAbandoned, CacheUpdate, vars
  <1> QED BY <1>1, <1>2, <1>3, <1>5, <1>6, <1>7 DEF Next

-----------------------------------------------------------------------------
\* What has been bought stays bought.
LEMMA BuyOnward ==
  ASSUME TypeOK, [Next]_vars, NEW g \in Groups, buy[g] \notin {"none", "prepared"}
  PROVE  buy'[g] \notin {"none", "prepared"}
  <1> USE DEF mapVars, buyVars, chainVars, cacheVars, sellVars
  <1>1. ASSUME NEW h \in Groups, BuyStep(h) \/ ConfirmStep(h)
        PROVE  buy'[g] \notin {"none", "prepared"}
    BY <1>1 DEF BuyStep, PrepareBuy, SubmitBuy, LandBuy, Age,
                ConfirmStep, SeeIncrease, ConfirmSuccess, ConfirmFailure, TypeOK
  <1>2. ASSUME NEW h \in Groups, MonitorStep(h) \/ SellButton(h) \/ PartialButton(h)
        PROVE  buy' = buy
    BY <1>2 DEF MonitorStep, PriceSignal, HoldSignal, SellAll, Signal, FallbackRead, Forget,
                SellButton, PartialButton
  <1>3. ASSUME NEW s \in Sellers, SellStep(s) \/ LandSell(s) PROVE buy' = buy
    BY <1>3 DEF SellStep, SkipZero, DropZero, Mark, Send, WaitConfirm, CloseSold,
                CleanupMint, GiveUp, SendPartial, LandSell
  <1>4. CASE \/ FallbackAct \/ ("exec" \in Sellers /\ TakeSignal)
             \/ LandAbandoned \/ CacheUpdate \/ UNCHANGED vars
    BY <1>4 DEF FallbackAct, TakeSignal, LandAbandoned, CacheUpdate, vars
  <1> QED BY <1>1, <1>2, <1>3, <1>4 DEF Next

\* No arrow of the diagram leaves a dead position, but to fail or to be forgotten.
LEMMA DeadForever ==
  ASSUME TypeOK, Gate, Drawn, [Next]_vars, NEW g \in Groups, Dead(g)
  PROVE  Dead(g)'
  <1>1. buy'[g] \notin {"none", "prepared"}
    BY BuyOnward DEF Dead
  <1>2. DiagramStep
    BY NextDrawn
  <1>3. Shown \in [Groups -> States] /\ Holders \in [Groups -> SUBSET Sellers]
    BY DEF Shown, Holders, TypeOK, Position
  <1>4. CASE UNCHANGED <<Shown, Holders>>
    BY <1>1, <1>4 DEF Dead
  <1>5. ASSUME NEW h \in Groups,
               \/ buy[h] = "prepared" /\ Diagram!File(h)
               \/ Diagram!Confirm(h) \/ Diagram!Fail(h) \/ Diagram!Forget(h)
        PROVE  Dead(g)'
    BY <1>1, <1>3, <1>5 DEF Dead, Diagram!File, Diagram!Confirm, Diagram!Fail, Diagram!Forget,
                            Diagram!Becomes
  <1>6. ASSUME NEW h \in Groups, NEW s \in Sellers,
               Diagram!Take(h, s) \/ Diagram!Close(h, s) \/ Diagram!GiveBack(h, s)
        PROVE  Dead(g)'
    <2>1. h # g
      BY <1>6 DEF Dead, Diagram!Take, Diagram!Close, Diagram!GiveBack
    <2>2. Shown'[g] = Shown[g] /\ Holders'[g] = Holders[g]
      BY <1>3, <1>6, <2>1 DEF Diagram!Take, Diagram!Close, Diagram!GiveBack, Diagram!Becomes
    <2> QED BY <1>1, <2>2 DEF Dead
  <1> QED BY <1>2, <1>4, <1>5, <1>6 DEF DiagramStep

\* A forgotten position leaves nothing, and nothing but a new buy brings it back.
LEMMA NextGone == TypeOK /\ Gate /\ Drawn /\ [Next]_vars => Gone'
  <1> SUFFICES ASSUME TypeOK, Gate, Drawn, [Next]_vars, NEW h \in Groups,
                      pos'[h].state = "none"
               PROVE  pos'[h] = NoPos
    BY DEF Gone
  <1> USE DEF mapVars
  <1>1. pos[h].state = "none" => pos[h] = NoPos
    BY DEF Drawn, Gone
  <1>2. pos[h] \in Position
    BY DEF TypeOK
  <1>3. ASSUME NEW g \in Groups, NEW q, pos' = [pos EXCEPT ![g] = q],
               q.state = "none" => q = NoPos \/ q = pos[g]
        PROVE  pos'[h] = NoPos
    <2>1. pos'[h] = IF g = h THEN q ELSE pos[h]
      BY <1>3 DEF TypeOK
    <2> QED BY <1>1, <1>3, <2>1
  <1>4. CASE pos'[h] = pos[h]
    BY <1>1, <1>4
  <1>5. ASSUME NEW g \in Groups, NEW q \in {pos[g], NoPos, MarkFailed(pos[g])},
               pos' = [pos EXCEPT ![g] = q]
        PROVE  pos'[h] = NoPos
    <2>1. MarkFailed(pos[g]).state = "none" => MarkFailed(pos[g]) = pos[g]
      BY FailedOrSame
    <2> QED BY <1>3, <1>5, <2>1
  <1>6. ASSUME NEW g \in Groups, BuyStep(g) \/ ConfirmStep(g) \/ MonitorStep(g)
        PROVE  pos'[h] = NoPos
    <2>1. CASE SubmitBuy(g)
      <3>1. PICK n : pos' = [pos EXCEPT ![g] = [NoPos EXCEPT !.state = "Confirming", !.amount = n]]
        BY <2>1 DEF SubmitBuy
      <3>2. [NoPos EXCEPT !.state = "Confirming", !.amount = n].state = "Confirming"
        BY DEF NoPos
      <3> QED BY <1>3, <3>1, <3>2
    <2>2. CASE ConfirmSuccess(g)
      <3>1. MarkActive(pos[g], conf[g].amount).state = "none"
              => MarkActive(pos[g], conf[g].amount) = pos[g]
        BY DEF MarkActive, TypeOK, Position
      <3> QED BY <1>3, <2>2, <3>1 DEF ConfirmSuccess
    <2>3. CASE ConfirmFailure(g) \/ Forget(g)
      BY <1>5, <2>3 DEF ConfirmFailure, Forget
    <2>4. CASE pos' = pos
      BY <1>4, <2>4
    <2> QED BY <1>6, <2>1, <2>2, <2>3, <2>4
            DEF BuyStep, PrepareBuy, LandBuy, Age, ConfirmStep, SeeIncrease,
                MonitorStep, PriceSignal, HoldSignal, SellAll, Signal, FallbackRead
  <1>7. ASSUME NEW s \in Sellers, SellStep(s) PROVE pos'[h] = NoPos
    <2> DEFINE g == job[s].group
    <2>1. pc[s] \notin {"idle", "cleanup"} => g \in Groups /\ job[s].prev # "none"
      BY DEF Gate, HasGroup, Drawn, Remembered
    <2>2. g \in Groups => pos[g] \in Position
      BY DEF TypeOK
    <2>3. CASE SkipZero(s) /\ pos' # pos
      <3>1. PICK n : pos' = [pos EXCEPT ![g] = [pos[g] EXCEPT !.skips = n]] /\ pos[g] # NoPos
        BY <2>3 DEF SkipZero
      <3>2. g \in Groups
        BY <2>1, <2>3 DEF SkipZero
      <3>3. pos[g].state # "none"
        BY <3>1, <3>2 DEF Drawn, Gone
      <3>4. [pos[g] EXCEPT !.skips = n].state = pos[g].state
        BY <2>2, <3>2 DEF Position
      <3> QED BY <1>3, <3>1, <3>2, <3>3, <3>4
    <2>4. CASE DropZero(s)
      BY <1>5, <2>1, <2>4 DEF DropZero
    <2>5. CASE Mark(s) /\ pos' # pos
      <3>1. pos' = [pos EXCEPT ![g] = MarkSelling(pos[g])] /\ g \in Groups
        BY <2>1, <2>5 DEF Mark
      <3>2. MarkSelling(pos[g]).state = "Selling"
        BY <2>2, <3>1 DEF MarkSelling, Position
      <3> QED BY <1>3, <3>1, <3>2
    <2>6. CASE CloseSold(s)
      <3>1. MarkClosed(pos[g]).state = "none" => MarkClosed(pos[g]) = pos[g]
        BY <2>1, <2>2, <2>6 DEF CloseSold, MarkClosed, Position
      <3> QED BY <1>3, <2>1, <2>6, <3>1 DEF CloseSold
    <2>7. ASSUME NEW cap, pos' = [pos EXCEPT ![g] = Restore(pos[g], job[s].prev, cap)],
                 g \in Groups, job[s].prev # "none"
          PROVE  pos'[h] = NoPos
      <3>1. Restore(pos[g], job[s].prev, cap).state = "none"
              => Restore(pos[g], job[s].prev, cap) = pos[g]
        BY <2>2, <2>7 DEF Restore, Position
      <3> QED BY <1>3, <2>7, <3>1
    <2>8. CASE GiveUp(s)
      BY <2>1, <2>7, <2>8 DEF GiveUp
    <2>9. CASE SendPartial(s)
      <3>1. CASE pos' = [pos EXCEPT ![g] = ApplyPartial(pos[g], job[s].tokens)]
        <4>1. g \in Groups
          BY <2>1, <2>9 DEF SendPartial
        <4>2. ApplyPartial(pos[g], job[s].tokens).state = "none"
                => ApplyPartial(pos[g], job[s].tokens) = pos[g]
          BY <2>2, <4>1 DEF ApplyPartial, Position
        <4> QED BY <1>3, <3>1, <4>1, <4>2
      <3> QED BY <2>1, <2>7, <2>9, <3>1 DEF SendPartial
    <2>10. CASE pos' = pos
      BY <1>4, <2>10
    <2> QED BY <1>7, <2>3, <2>4, <2>5, <2>6, <2>8, <2>9, <2>10
            DEF SellStep, Send, WaitConfirm, CleanupMint
  <1>8. CASE FallbackAct
    <2>1. CASE pos' = pos
      BY <1>4, <2>1
    <2>2. CASE pos' # pos
      <3>1. PICK g \in Groups : pos' = [pos EXCEPT ![g] = MarkFailed(pos[g])]
        BY <1>8, <2>2 DEF FallbackAct, FallbackFails, FallbackWedges, TypeOK
      <3> QED BY <1>5, <3>1
    <2> QED BY <2>1, <2>2
  <1>9. CASE \/ \E g \in Groups : SellButton(g) \/ PartialButton(g)
             \/ "exec" \in Sellers /\ TakeSignal
    BY <1>4, <1>9, PickGoes
  <1>10. CASE \/ LandAbandoned \/ CacheUpdate \/ UNCHANGED vars
              \/ \E s \in Sellers : LandSell(s)
    BY <1>4, <1>10 DEF LandAbandoned, CacheUpdate, LandSell, vars
  <1> QED BY <1>6, <1>7, <1>8, <1>9, <1>10 DEF Next

\* What a seller has read stays with it until it rests.
LEMMA JobsOnward ==
  ASSUME TypeOK, [Next]_vars, NEW t \in Sellers, pc'[t] \notin {"idle", "cleanup"}
  PROVE  \/ /\ pc[t] \notin {"idle", "cleanup"}
            /\ job'[t].group = job[t].group /\ job'[t].prev = job[t].prev
         \/ /\ job'[t].group \in Groups
            /\ pos[job'[t].group] # NoPos /\ job'[t].prev = pos[job'[t].group].state
  <1> USE DEF mapVars, buyVars, chainVars, cacheVars, sellVars
  <1> DEFINE Stays == /\ pc[t] \notin {"idle", "cleanup"}
                      /\ job'[t].group = job[t].group /\ job'[t].prev = job[t].prev
             Picks == /\ job'[t].group \in Groups
                      /\ pos[job'[t].group] # NoPos /\ job'[t].prev = pos[job'[t].group].state
  <1>0. ASSUME NEW s \in Sellers, NEW label \in {"idle", "cleanup"}, NEW j, Goto(s, label, j)
        PROVE  Stays
    BY <1>0 DEF Goto, TypeOK
  <1>1. ASSUME NEW s \in Sellers, NEW label, NEW j, Goto(s, label, j),
               pc[s] \notin {"idle", "cleanup"},
               j.group = job[s].group, j.prev = job[s].prev
        PROVE  Stays
    BY <1>1 DEF Goto, TypeOK
  <1> HIDE DEF Stays, Picks
  <1>2. CASE \/ \E g \in Groups : SellButton(g) \/ PartialButton(g)
             \/ "exec" \in Sellers /\ TakeSignal
    <2>1. PICK s \in Sellers, g \in Groups :
            \/ Rest(s)
            \/ /\ pos[g] # NoPos
               /\ \E label \in {"skip", "mark", "pmark"} : \E j :
                     Goto(s, label, j) /\ j.group = g /\ j.prev = pos[g].state
      BY <1>2, PickGoes
    <2>2. CASE Rest(s)
      BY <1>0, <2>2 DEF Rest, Stays
    <2>3. CASE ~Rest(s)
      <3>1. PICK label, j : Goto(s, label, j) /\ j.group = g /\ j.prev = pos[g].state
        BY <2>1, <2>3
      <3>2. CASE t = s
        <4>1. Picks
          BY <2>1, <2>3, <3>1, <3>2 DEF Goto, TypeOK, Picks
        <4> QED BY <4>1 DEF Picks
      <3>3. CASE t # s
        <4>1. Stays
          BY <3>1, <3>3 DEF Goto, TypeOK, Stays
        <4> QED BY <4>1 DEF Stays
      <3> QED BY <3>2, <3>3
    <2> QED BY <2>2, <2>3
  <1>3. ASSUME NEW s \in Sellers, SellStep(s) PROVE Stays
    <2>1. CASE Send(s) \/ WaitConfirm(s)
      <3>1. PICK label, j : /\ Goto(s, label, j) /\ pc[s] \in {"send", "wait"}
                            /\ j.group = job[s].group /\ j.prev = job[s].prev
        BY <2>1, TryGoes
      <3> QED BY <1>1, <3>1
    <2>2. CASE SkipZero(s)
      <3>1. Goto(s, "idle", NoJob) \/ Goto(s, "drop", job[s])
        BY <2>2 DEF SkipZero, Rest
      <3>2. pc[s] \notin {"idle", "cleanup"}
        BY <2>2 DEF SkipZero
      <3>3. CASE Goto(s, "idle", NoJob)
        BY <1>0, <3>3
      <3>4. CASE Goto(s, "drop", job[s])
        BY <1>1, <3>2, <3>4
      <3> QED BY <3>1, <3>3, <3>4
    <2>3. CASE Mark(s)
      <3>1. CASE Goto(s, "idle", NoJob)
        BY <1>0, <3>1
      <3>2. CASE ~Goto(s, "idle", NoJob)
        <4>1. PICK label, viaPump : Goto(s, label, [job[s] EXCEPT !.pump = viaPump])
          BY <2>3, <3>2 DEF Mark, Rest
        <4> DEFINE k == [job[s] EXCEPT !.pump = viaPump]
        <4>2. k.group = job[s].group /\ k.prev = job[s].prev
          BY DEF TypeOK, Job
        <4>3. Goto(s, label, k) /\ pc[s] \notin {"idle", "cleanup"}
          BY <2>3, <4>1 DEF Mark
        <4> HIDE DEF k
        <4> QED BY <1>1, <4>2, <4>3
      <3> QED BY <3>1, <3>2
    <2>4. CASE DropZero(s) \/ CloseSold(s) \/ CleanupMint(s) \/ GiveUp(s) \/ SendPartial(s)
      <3>1. Goto(s, "idle", NoJob) \/ Goto(s, "cleanup", NoJob)
        BY <2>4 DEF DropZero, CloseSold, CleanupMint, GiveUp, SendPartial, Rest
      <3> QED BY <1>0, <3>1
    <2> QED BY <1>3, <2>1, <2>2, <2>3, <2>4 DEF SellStep
  <1>4. ASSUME NEW s \in Sellers, LandSell(s) PROVE Stays
    <2>1. PICK v : job' = [job EXCEPT ![s].tx = v]
      BY <1>4 DEF LandSell
    <2> QED BY <1>4, <2>1 DEF LandSell, TypeOK, Job, Stays
  <1>5. CASE pc' = pc /\ job' = job
    BY <1>5 DEF Stays
  <1>6. ASSUME NEW g \in Groups, BuyStep(g) \/ ConfirmStep(g) \/ MonitorStep(g)
        PROVE  pc' = pc /\ job' = job
    BY <1>6 DEF BuyStep, PrepareBuy, SubmitBuy, LandBuy, Age,
                ConfirmStep, SeeIncrease, ConfirmSuccess, ConfirmFailure,
                MonitorStep, PriceSignal, HoldSignal, SellAll, Signal, FallbackRead, Forget
  <1>7. CASE FallbackAct \/ LandAbandoned \/ CacheUpdate \/ UNCHANGED vars
    BY <1>5, <1>7 DEF FallbackAct, LandAbandoned, CacheUpdate, vars
  <1> QED BY <1>2, <1>3, <1>4, <1>5, <1>6, <1>7 DEF Next, Stays, Picks

\* What a seller has read of a closed position stays true of it.
LEMMA NextRemembered == TypeOK /\ Gate /\ Drawn /\ [Next]_vars => Remembered'
  <1> SUFFICES ASSUME TypeOK, Gate, Drawn, [Next]_vars, NEW t \in Sellers,
                      pc'[t] \notin {"idle", "cleanup"}, NEW g, g = job'[t].group
               PROVE  job'[t].prev # "none" /\ (job'[t].prev = "Closed" => Dead(g)')
    BY DEF Remembered, Dead
  <1>1. /\ g \in Groups
        /\ job'[t].prev # "none"
        /\ job'[t].prev = "Closed" => Dead(g)
    <2>1. CASE /\ pc[t] \notin {"idle", "cleanup"}
               /\ g = job[t].group /\ job'[t].prev = job[t].prev
      BY <2>1 DEF Drawn, Remembered, Gate, HasGroup
    <2>2. CASE g \in Groups /\ pos[g] # NoPos /\ job'[t].prev = pos[g].state
      <3>1. pos[g].state # "none"
        BY <2>2 DEF Drawn, Gone
      <3>2. pos[g].state = "Closed" => Dead(g)
        <4>1. pos[g].state = "Closed" => Holders[g] = {}
          BY <2>2, FreeToTake
        <4> QED BY <2>2, <4>1 DEF Dead, Shown, Gate, Unbought
      <3> QED BY <2>2, <3>1, <3>2
    <2> QED BY <2>1, <2>2, JobsOnward
  <1>2. Dead(g) => Dead(g)'
    BY <1>1, DeadForever
  <1> QED BY <1>1, <1>2

\* The initial state satisfies it.
LEMMA InitDrawn == Init => Drawn
  <1> SUFFICES ASSUME Init PROVE Drawn
    OBVIOUS
  <1>1. (\A g \in Groups : pos[g] = NoPos) /\ \A s \in Sellers : pc[s] = "idle"
    BY DEF Init
  <1>2. Attended
    BY <1>1 DEF Attended, SellingHasSeller, NoPos
  <1> QED BY <1>1, <1>2 DEF Drawn, Gone, Remembered

\* The invariant holds in every reachable state.
LEMMA DrawnInvariance == Spec => [](TypeOK /\ Gate /\ Drawn)
  <1>1. TypeOK /\ Gate /\ Drawn /\ [Next]_vars => Drawn'
    BY NextGone, NextRemembered, NextAttended DEF Drawn
  <1> QED BY <1>1, InitDrawn, GateInvariance, PTL DEF Spec

\* However the tasks interleave, a position takes only the arrows of its diagram.
\* Whoever holds it holds it alone, closes it or gives it back, and what ended
\* while nobody held it stays ended.
THEOREM DiagramKept == Spec => KeepsDiagram
  <1>1. Init => Diagram!Init
    <2> SUFFICES ASSUME Init PROVE Diagram!Init
      OBVIOUS
    <2>1. Shown = [g \in Groups |-> "none"] /\ Holders = [g \in Groups |-> {}]
      BY DEF Init, Shown, Holders, InSection, NoPos
    <2> QED BY <2>1 DEF Diagram!Init
  <1>2. TypeOK /\ Gate /\ Drawn /\ [Next]_vars => [Diagram!Next]_(Diagram!vars)
    BY NextDrawn DEF DiagramStep, Diagram!Next, Diagram!vars
  <1> QED BY <1>1, <1>2, DrawnInvariance, PTL DEF Spec, KeepsDiagram, Diagram!Spec

\* Nothing but a failure or the retention pass takes a closed position on.
LEMMA ClosedStep ==
  TypeOK /\ Gate /\ Drawn /\ [Next]_vars =>
    [\A g \in Groups : pos[g].state = "Closed" =>
                          pos'[g].state \in {"Closed", "Failed", "none"}]_vars
  <1> SUFFICES ASSUME TypeOK, Gate, Drawn, [Next]_vars, NEW g \in Groups, pos[g].state = "Closed"
               PROVE  pos'[g].state \in {"Closed", "Failed", "none"}
    OBVIOUS
  <1>1. Dead(g)
    <2>1. Holders[g] = {}
      BY FreeToTake
    <2> QED BY <2>1 DEF Dead, Shown, Gate, Unbought
  <1>2. Dead(g)'
    BY <1>1, DeadForever
  <1> QED BY <1>2 DEF Dead, Shown

\* No late confirmation, failed sell or partial sale reopens a closed position.
THEOREM ClosedForGood == Spec => ClosedStaysClosed
  <1>1. [](TypeOK /\ Gate /\ Drawn) /\ [][Next]_vars => ClosedStaysClosed
    BY ClosedStep, PTL DEF ClosedStaysClosed
  <1> QED BY <1>1, DrawnInvariance, PTL DEF Spec

-----------------------------------------------------------------------------
(* Where a wallet holds one group's tokens, what is closed has been sold      *)

\* One group in the wallet account, answers that can be trusted, no sale of a
\* part, and no external position of a Token-2022 mint, whose sales ask about an
\* account that does not exist: each of the four is needed (TLC refutes the
\* property without it).
SoleHolder ==
    /\ \A g, h \in Groups : g = h
    /\ ~RpcFails
    /\ Route = "ExternalJupiter" \/ ~Partials
    /\ ~(Route = "ExternalJupiter" /\ Token2022)

\* A group has what one buy brings, or nothing.
Lots == {0, Lot}

SoldOut == \A g \in Groups : bal = 0 /\ sold[g] = Lot

\* The chain's books, and the amounts that were read from them.
Books ==
    \A g \in Groups :
        /\ bal \in Lots /\ sold[g] \in Lots
        /\ bal + sold[g] = IF buy[g] = "landed" THEN Lot ELSE 0
        /\ conf[g].pre = 0 /\ conf[g].after \in Lots /\ conf[g].amount \in Lots
        /\ pos[g].amount \in Lots

\* The stream tells of a balance only once the buy has landed, and of an empty
\* account only once the lot has been sold.
Told ==
    /\ cache \subseteq Lots /\ \A n \in 1..Len(feed) : feed[n] \in Lots
    /\ cache # {} \/ feed # <<>> => \A g \in Groups : buy[g] = "landed"
    /\ 0 \in cache \/ (\E n \in 1..Len(feed) : feed[n] = 0) => SoldOut

\* A sale that goes out is of the whole lot, and ends with an empty account.
WholeLot ==
    /\ \A s \in Sellers :
          /\ job[s].tx # "none" => pc[s] = "wait"
          /\ pc[s] \in {"mark", "send", "wait", "close"} =>
                /\ job[s].tokens = Lot /\ job[s].expect = 0
                /\ \A g \in Groups : buy[g] = "landed"
          /\ pc[s] = "close" => SoldOut
          /\ pc[s] \in {"pmark", "psend"} => Partials
          /\ job[s].prev = "Closed" => SoldOut
    /\ \A t \in abandoned : t[2] = Lot

\* A closed position stands for an account that was emptied.
ClosedOut == \A g \in Groups : pos[g].state = "Closed" => SoldOut

Accounts == Books /\ Told /\ WholeLot /\ ClosedOut

-----------------------------------------------------------------------------
\* A lot is a positive number of tokens.
LEMMA LotsAreNumbers == Lot \in Nat /\ Lot # 0 /\ Lots \subseteq Nat
  BY NumbersAssumption DEF Lots

\* Steps that move no tokens and tell nothing.
LEMMA QuietAccounts ==
  ASSUME TypeOK, Accounts, UNCHANGED <<buy, conf, bal, feed, sold, cache, abandoned>>,
         \A s \in Sellers : pc'[s] = pc[s] /\ job'[s] = job[s],
         \A g \in Groups : /\ pos'[g].amount \in Lots
                           /\ pos'[g].state = "Closed" => pos[g].state = "Closed"
  PROVE  Accounts'
  <1>1. SoldOut' <=> SoldOut
    BY DEF SoldOut
  <1>2. Books'
    BY DEF Accounts, Books, Lots
  <1>3. Told'
    BY <1>1 DEF Accounts, Told, Lots
  <1>4. WholeLot'
    BY <1>1 DEF Accounts, WholeLot
  <1>5. ClosedOut'
    BY <1>1 DEF Accounts, ClosedOut
  <1> QED BY <1>2, <1>3, <1>4, <1>5 DEF Accounts

\* Whatever balance is read when the group's tokens are in the account.
LEMMA ReadsAreLots ==
  ASSUME SoleHolder, Accounts, NEW g \in Groups
  PROVE  /\ RpcBalance = {bal} /\ SnapshotBalance = {bal} /\ WalletBalance \subseteq Lots
         /\ \A b \in WalletBalance : b # 0 => buy[g] = "landed"
         /\ buy[g] # "landed" => WalletBalance = {0} /\ cache = {} /\ feed = <<>>
         /\ BalanceSeen(g) \subseteq Lots
  <1>1. bal \in Lots /\ Lot \in Nat /\ Lot # 0 /\ sold[g] \in Nat /\ 0 \in Lots
    BY LotsAreNumbers DEF Accounts, Books, Lots
  <1>2. RpcBalance = {bal} /\ SnapshotBalance = {bal}
    BY DEF SoleHolder, RpcBalance, SnapshotBalance
  <1>3. bal # 0 => buy[g] = "landed"
    BY <1>1, LotsAreNumbers DEF Accounts, Books
  <1>4. /\ cache \subseteq Lots
        /\ buy[g] # "landed" => cache = {} /\ feed = <<>>
    BY DEF Accounts, Told
  <1>5. conf[g].after \in Lots
    BY DEF Accounts, Books
  <1> QED BY <1>1, <1>2, <1>3, <1>4, <1>5 DEF WalletBalance, BalanceSeen

\* A sale of the lot empties the account; nothing else is ever executed.
LEMMA SaleAccounts ==
  ASSUME TypeOK, SoleHolder, Accounts, NEW h \in Groups, Executes(h, Lot),
         UNCHANGED <<pos, buy, conf, cache, tracked, pc>>,
         \A s \in Sellers : /\ job'[s].tx # "none" => job[s].tx # "none"
                            /\ job'[s].tokens = job[s].tokens /\ job'[s].expect = job[s].expect
                            /\ job'[s].prev = job[s].prev,
         \A t \in abandoned' : t \in abandoned
  PROVE  Accounts'
  <1>1. \A g \in Groups : g = h
    BY DEF SoleHolder
  <1>2. bal = Lot /\ sold[h] = 0 /\ buy[h] = "landed"
    BY LotsAreNumbers DEF Executes, Accounts, Books, Lots
  <1>3. bal' = 0 /\ sold' = [sold EXCEPT ![h] = Lot]
    BY <1>2, LotsAreNumbers DEF Executes, Settles
  <1>4. SoldOut'
    BY <1>1, <1>3 DEF SoldOut, TypeOK
  <1>5. Books'
    BY <1>1, <1>2, <1>3, LotsAreNumbers DEF Accounts, Books, Lots, TypeOK
  <1>6. feed' = feed \/ feed' = Append(feed, 0)
    BY <1>3 DEF Executes, Settles
  <1>7. \A n \in 1..Len(feed') : feed'[n] \in Lots
    <2>1. feed \in Seq(Nat) /\ \A n \in 1..Len(feed) : feed[n] \in Lots
      BY DEF TypeOK, Accounts, Told
    <2>2. CASE feed' = feed
      BY <2>1, <2>2
    <2>3. CASE feed' = Append(feed, 0)
      BY <2>1, <2>3 DEF Lots
    <2> QED BY <1>6, <2>2, <2>3
  <1>8. Told'
    BY <1>1, <1>2, <1>4, <1>7 DEF Accounts, Told, Lots
  <1>9. WholeLot'
    BY <1>1, <1>2, <1>4 DEF Accounts, WholeLot
  <1> QED BY <1>4, <1>5, <1>8, <1>9 DEF Accounts, ClosedOut

\* The chain and the stream.
LEMMA ChainAccounts ==
  ASSUME TypeOK, Gate, SoleHolder, Accounts,
         LandAbandoned \/ CacheUpdate \/ \E s \in Sellers : LandSell(s)
  PROVE  Accounts'
  <1> USE DEF mapVars, buyVars, chainVars, cacheVars, sellVars
  <1>1. CASE LandAbandoned
    <2>1. PICK t \in abandoned : /\ abandoned' = abandoned \ {t}
                                 /\ Executes(t[1], t[2]) \/ UNCHANGED chainVars
      BY <1>1 DEF LandAbandoned
    <2>2. t[1] \in Groups /\ t[2] = Lot
      BY DEF TypeOK, Accounts, WholeLot
    <2>3. CASE Executes(t[1], t[2])
      BY <1>1, <2>1, <2>2, <2>3, SaleAccounts DEF LandAbandoned
    <2>4. CASE UNCHANGED chainVars
      <3>1. SoldOut' <=> SoldOut
        BY <2>4 DEF SoldOut
      <3> QED BY <1>1, <2>1, <2>4, <3>1
              DEF LandAbandoned, Accounts, Books, Told, WholeLot, ClosedOut, Lots
    <2> QED BY <2>1, <2>3, <2>4
  <1>2. CASE CacheUpdate
    <2>1. feed \in Seq(Nat) /\ feed # <<>> /\ feed' = Tail(feed)
      BY <1>2 DEF CacheUpdate, TypeOK
    <2>2. /\ Len(feed) >= 1 /\ Head(feed) = feed[1]
          /\ \A n \in 1..Len(feed') : n + 1 \in 1..Len(feed) /\ feed'[n] = feed[n + 1]
      BY <2>1
    <2>3. cache' = {feed[1]} \/ cache' = cache
      BY <1>2, <2>2 DEF CacheUpdate
    <2>4. SoldOut' <=> SoldOut
      BY <1>2 DEF CacheUpdate, SoldOut
    <2>5. 1 \in 1..Len(feed)
      BY <2>1, <2>2
    <2>6. Told'
      <3>1. /\ cache' \subseteq Lots
            /\ \A n \in 1..Len(feed') : feed'[n] \in Lots
        BY <2>2, <2>3, <2>5 DEF Accounts, Told
      <3>2. 0 \in cache' \/ (\E n \in 1..Len(feed') : feed'[n] = 0) => SoldOut
        BY <2>2, <2>3, <2>5 DEF Accounts, Told
      <3>3. \A g \in Groups : buy'[g] = "landed"
        BY <1>2, <2>1 DEF CacheUpdate, Accounts, Told
      <3> QED BY <2>4, <3>1, <3>2, <3>3 DEF Told, Lots
    <2> QED BY <1>2, <2>4, <2>6 DEF CacheUpdate, Accounts, Books, WholeLot, ClosedOut, Lots
  <1>3. ASSUME NEW s \in Sellers, LandSell(s) PROVE Accounts'
    <2>1. PICK v : job' = [job EXCEPT ![s].tx = v]
      BY <1>3 DEF LandSell
    <2>2. pc[s] = "wait" /\ job[s].tokens = Lot /\ job[s].group \in Groups /\ job[s].tx # "none"
      BY <1>3 DEF LandSell, Accounts, WholeLot, Gate, HasGroup
    <2>3. \A t \in Sellers : /\ job'[t].tx # "none" => job[t].tx # "none"
                             /\ job'[t].tokens = job[t].tokens /\ job'[t].expect = job[t].expect
                             /\ job'[t].prev = job[t].prev
      BY <2>1, <2>2 DEF TypeOK, Job
    <2>4. CASE Executes(job[s].group, job[s].tokens)
      BY <1>3, <2>2, <2>3, <2>4, SaleAccounts DEF LandSell
    <2>5. CASE UNCHANGED chainVars
      <3>1. SoldOut' <=> SoldOut
        BY <2>5 DEF SoldOut
      <3>2. WholeLot'
        BY <1>3, <2>3, <3>1 DEF LandSell, Accounts, WholeLot
      <3> QED BY <1>3, <2>5, <3>1, <3>2 DEF LandSell, Accounts, Books, Told, ClosedOut, Lots
    <2> QED BY <1>3, <2>4, <2>5 DEF LandSell
  <1> QED BY <1>1, <1>2, <1>3

\* The buy and its confirmation: nothing was in the account before the buy.
LEMMA BuyAccounts ==
  ASSUME TypeOK, SoleHolder, Accounts, NEW g \in Groups, BuyStep(g) \/ ConfirmStep(g)
  PROVE  Accounts'
  <1> USE DEF mapVars, buyVars, chainVars, cacheVars, sellVars
  <1> DEFINE landed == buy[g] = "landed"
  <1>1. \A h \in Groups : h = g
    BY DEF SoleHolder
  <1>2. /\ conf[g] \in Task /\ pos[g] \in Position /\ 0 \in Lots /\ Lot \in Lots
        /\ pos[g].amount \in Lots /\ conf[g].amount \in Lots /\ conf[g].pre = 0
        /\ conf[g].after \in Lots
    BY DEF TypeOK, Accounts, Books, Lots
  \* A step that moves no tokens and leaves the sellers alone.
  <1>3. ASSUME UNCHANGED <<bal, feed, sold, cache, abandoned, pc, job>>,
               buy'[g] = buy[g] \/ (buy[g] # "landed" /\ buy'[g] # "landed"),
               conf'[g].pre = 0, conf'[g].after \in Lots, conf'[g].amount \in Lots,
               pos'[g].amount \in Lots, pos'[g].state = "Closed" => pos[g].state = "Closed"
        PROVE  Accounts'
    <2>1. SoldOut' <=> SoldOut
      BY <1>3 DEF SoldOut
    <2>2. (buy'[g] = "landed") <=> landed
      BY <1>3
    <2>3. Books'
      BY <1>1, <1>3, <2>2 DEF Accounts, Books, Lots
    <2>4. Told'
      BY <1>1, <1>3, <2>1, <2>2 DEF Accounts, Told, Lots
    <2>5. WholeLot'
      BY <1>1, <1>3, <2>1, <2>2 DEF Accounts, WholeLot
    <2>6. ClosedOut'
      BY <1>1, <1>3, <2>1 DEF Accounts, ClosedOut
    <2> QED BY <2>3, <2>4, <2>5, <2>6 DEF Accounts
  <1>4. CASE PrepareBuy(g)
    <2>1. buy[g] = "none" /\ buy'[g] = "prepared"
      BY <1>4 DEF PrepareBuy, TypeOK
    <2>2. WalletBalance = {0}
      BY <2>1, ReadsAreLots
    <2>3. conf' = [conf EXCEPT ![g].pre = 0]
      BY <1>4, <2>2 DEF PrepareBuy
    <2>4. conf'[g].pre = 0 /\ conf'[g].after = conf[g].after /\ conf'[g].amount = conf[g].amount
      BY <1>2, <2>3 DEF TypeOK, Task
    <2> QED BY <1>2, <1>3, <1>4, <2>1, <2>4 DEF PrepareBuy
  <1>5. CASE SubmitBuy(g)
    <2>1. PICK n \in {0, Lot}, before \in BalanceNoted(g) :
            /\ conf' = [conf EXCEPT ![g] = [at |-> "waiting", pre |-> before,
                                           after |-> 0, amount |-> n]]
            /\ pos' = [pos EXCEPT ![g] = [NoPos EXCEPT !.state = "Confirming", !.amount = n]]
      BY <1>5 DEF SubmitBuy
    <2>2. buy[g] = "prepared" /\ buy'[g] = "pending"
      BY <1>5 DEF SubmitBuy, TypeOK
    <2>3. before = 0
      BY <1>2, <2>2, ReadsAreLots DEF BalanceNoted
    <2>4. conf'[g].pre = 0 /\ conf'[g].after = 0 /\ conf'[g].amount = n
      BY <2>1, <2>3 DEF TypeOK
    <2>5. pos'[g].amount = n /\ pos'[g].state = "Confirming"
      BY <2>1 DEF TypeOK, NoPos
    <2>6. n \in Lots
      BY DEF Lots
    <2> QED BY <1>2, <1>3, <1>5, <2>2, <2>4, <2>5, <2>6 DEF SubmitBuy
  <1>6. CASE LandBuy(g)
    <2>1. buy[g] = "pending" /\ bal = 0 /\ sold[g] = 0 /\ cache = {} /\ feed = <<>>
      <3>1. buy[g] = "pending"
        BY <1>6 DEF LandBuy
      <3>2. cache = {} /\ feed = <<>>
        BY <3>1, ReadsAreLots
      <3>3. bal + sold[g] = 0 /\ bal \in Nat /\ sold[g] \in Nat
        BY <3>1, LotsAreNumbers DEF Accounts, Books
      <3> QED BY <3>1, <3>2, <3>3
    <2>2. ~SoldOut
      BY <2>1, LotsAreNumbers DEF SoldOut
    <2>3. CASE buy' = [buy EXCEPT ![g] = "failed"]
      <3>1. buy'[g] = "failed" /\ UNCHANGED <<bal, feed, conf>>
        <4>1. buy'[g] = "failed"
          BY <2>3 DEF TypeOK
        <4> QED BY <1>6, <4>1 DEF LandBuy, TypeOK
      <3> QED BY <1>2, <1>3, <1>6, <2>1, <3>1 DEF LandBuy
    <2>4. CASE buy' # [buy EXCEPT ![g] = "failed"]
      <3>1. /\ buy'[g] = "landed" /\ bal' = Lot
            /\ feed' \in {<<>>, <<Lot>>}
            /\ conf' = [conf EXCEPT ![g].after = Lot]
        BY <1>6, <2>1, <2>4, LotsAreNumbers DEF LandBuy, Settles, TypeOK
      <3>2. conf'[g].pre = 0 /\ conf'[g].after = Lot /\ conf'[g].amount = conf[g].amount
        BY <1>2, <3>1 DEF TypeOK, Task
      <3>3. Books'
        BY <1>1, <1>2, <1>6, <2>1, <3>1, <3>2, LotsAreNumbers DEF LandBuy, Books, Lots
      <3>4. \A n \in 1..Len(feed') : feed'[n] = Lot
        BY <3>1
      <3>5. Told'
        BY <1>1, <1>6, <2>1, <3>1, <3>4, LotsAreNumbers DEF LandBuy, Told, Lots
      <3>6. WholeLot' /\ ClosedOut'
        BY <1>1, <1>6, <2>2, <3>1 DEF LandBuy, Accounts, WholeLot, ClosedOut
      <3> QED BY <3>3, <3>5, <3>6 DEF Accounts
    <2> QED BY <2>3, <2>4
  <1>7. CASE Age(g)
    <2>1. UNCHANGED <<pos, buy, conf, bal, feed, sold, cache, abandoned, pc, job>>
      BY <1>7 DEF Age
    <2> QED BY <1>2, <1>3, <2>1
  <1>8. CASE SeeIncrease(g)
    <2>1. PICK b \in BalanceSeen(g) :
            /\ b > conf[g].pre
            /\ conf' = [conf EXCEPT ![g].at = "seen",
                          ![g].amount = IF OpenCount > 1 /\ @ > 0 THEN @ ELSE b - conf[g].pre]
      BY <1>8 DEF SeeIncrease
    <2>2. b = Lot /\ b - conf[g].pre = Lot
      BY <1>2, <2>1, ReadsAreLots, LotsAreNumbers DEF Lots
    <2>3. conf'[g].pre = 0 /\ conf'[g].after = conf[g].after /\ conf'[g].amount \in Lots
      BY <1>2, <2>1, <2>2 DEF TypeOK, Task
    <2>4. UNCHANGED <<pos, buy, bal, feed, sold, cache, abandoned, pc, job>>
      BY <1>8 DEF SeeIncrease
    <2> QED BY <1>2, <1>3, <2>3, <2>4
  <1>9. CASE ConfirmSuccess(g)
    <2>1. pos'[g] = MarkActive(pos[g], conf[g].amount)
      BY <1>9 DEF ConfirmSuccess, TypeOK
    <2>2. pos'[g].amount \in Lots /\ (pos'[g].state = "Closed" => pos[g].state = "Closed")
      BY <1>2, <2>1 DEF MarkActive, Position
    <2>3. conf'[g].pre = conf[g].pre /\ conf'[g].after = conf[g].after
          /\ conf'[g].amount = conf[g].amount
      BY <1>2, <1>9 DEF ConfirmSuccess, TypeOK, Task
    <2>4. UNCHANGED <<buy, bal, feed, sold, cache, abandoned, pc, job>>
      BY <1>9 DEF ConfirmSuccess
    <2> QED BY <1>2, <1>3, <2>2, <2>3, <2>4
  <1>10. CASE ConfirmFailure(g)
    <2>1. pos'[g] = MarkFailed(pos[g])
      BY <1>10 DEF ConfirmFailure, TypeOK
    <2>2. pos'[g].amount \in Lots /\ (pos'[g].state = "Closed" => pos[g].state = "Closed")
      BY <1>2, <2>1 DEF MarkFailed, Position
    <2>3. conf'[g].pre = conf[g].pre /\ conf'[g].after = conf[g].after
          /\ conf'[g].amount = conf[g].amount
      BY <1>2, <1>10 DEF ConfirmFailure, TypeOK, Task
    <2>4. UNCHANGED <<buy, bal, feed, sold, cache, abandoned, pc, job>>
      BY <1>10 DEF ConfirmFailure
    <2> QED BY <1>2, <1>3, <2>2, <2>3, <2>4
  <1> QED BY <1>4, <1>5, <1>6, <1>7, <1>8, <1>9, <1>10 DEF BuyStep, ConfirmStep

\* The monitors.
LEMMA MonitorAccounts ==
  ASSUME TypeOK, Accounts, FallbackAct \/ \E g \in Groups : MonitorStep(g)
  PROVE  Accounts'
  <1> USE DEF mapVars, buyVars, chainVars, cacheVars, sellVars
  <1>1. \A h \in Groups : pos'[h] = pos[h] \/ pos'[h] = MarkFailed(pos[h]) \/ pos'[h] = NoPos
    <2>1. CASE FallbackAct
      BY <2>1 DEF FallbackAct, FallbackFails, FallbackWedges, TypeOK
    <2>2. ASSUME NEW g \in Groups, MonitorStep(g)
          PROVE  \A h \in Groups : pos'[h] = pos[h] \/ pos'[h] = NoPos
      BY <2>2 DEF MonitorStep, PriceSignal, HoldSignal, SellAll, Signal, FallbackRead, Forget, TypeOK
    <2> QED BY <2>1, <2>2
  <1>2. \A p \in Position : /\ MarkFailed(p).amount = p.amount
                            /\ MarkFailed(p).state = "Closed" => p.state = "Closed"
    BY DEF MarkFailed, Position
  <1>3. \A h \in Groups : /\ pos'[h].amount \in Lots
                          /\ pos'[h].state = "Closed" => pos[h].state = "Closed"
    <2>1. NoPos.amount \in Lots /\ NoPos.state # "Closed"
      BY DEF NoPos, Lots
    <2>2. \A h \in Groups : pos[h] \in Position /\ pos[h].amount \in Lots
      BY DEF TypeOK, Accounts, Books
    <2> QED BY <1>1, <1>2, <2>1, <2>2
  <1> QED BY <1>3, QuietAccounts
          DEF FallbackAct, MonitorStep, PriceSignal, HoldSignal, SellAll, Signal, FallbackRead, Forget

\* What a seller's step must show: what it tells the others, and its own locals.
LEMMA SellerAccounts ==
  ASSUME TypeOK, Accounts, NEW s \in Sellers, NEW label, NEW j, Goto(s, label, j),
         UNCHANGED <<buyVars, chainVars>>, cache' \subseteq cache,
         \A g \in Groups : /\ pos'[g].amount \in Lots
                           /\ pos'[g].state = "Closed" => SoldOut,
         \A t \in abandoned' : t \in abandoned \/ t[2] = Lot,
         j.tx # "none" => label = "wait",
         label \in {"mark", "send", "wait", "close"} =>
            /\ j.tokens = Lot /\ j.expect = 0
            /\ \A g \in Groups : buy[g] = "landed",
         label = "close" => SoldOut,
         label \in {"pmark", "psend"} => Partials,
         j.prev = "Closed" => SoldOut
  PROVE  Accounts'
  <1> USE DEF buyVars, chainVars
  <1>1. /\ pc'[s] = label /\ job'[s] = j
        /\ \A t \in Sellers \ {s} : pc'[t] = pc[t] /\ job'[t] = job[t]
    BY DEF Goto, TypeOK
  <1>2. SoldOut' <=> SoldOut
    BY DEF SoldOut
  <1>3. Books'
    BY DEF Accounts, Books, Lots
  <1>4. Told'
    BY <1>2 DEF Accounts, Told, Lots
  <1>5. WholeLot'
    <2>1. \A t \in Sellers :
            /\ job'[t].tx # "none" => pc'[t] = "wait"
            /\ pc'[t] \in {"mark", "send", "wait", "close"} =>
                  /\ job'[t].tokens = Lot /\ job'[t].expect = 0
                  /\ \A g \in Groups : buy'[g] = "landed"
            /\ pc'[t] = "close" => SoldOut
            /\ pc'[t] \in {"pmark", "psend"} => Partials
            /\ job'[t].prev = "Closed" => SoldOut
      BY <1>1 DEF Accounts, WholeLot
    <2>2. \A t \in abandoned' : t[2] = Lot
      BY DEF Accounts, WholeLot
    <2> QED BY <1>2, <2>1, <2>2 DEF WholeLot
  <1>6. ClosedOut'
    BY <1>2 DEF ClosedOut
  <1> QED BY <1>3, <1>4, <1>5, <1>6 DEF Accounts

\* Taking a position up: the amount to sell is nothing, or the lot in the account.
LEMMA ConsiderAccounts ==
  ASSUME TypeOK, SoleHolder, Accounts, NEW s \in Sellers, NEW g \in Groups,
         NEW manual \in BOOLEAN, Consider(s, g, manual),
         UNCHANGED <<pos, buyVars, chainVars, cacheVars, abandoned>>
  PROVE  Accounts'
  <1> USE DEF cacheVars
  <1>1. /\ \A h \in Groups : /\ pos'[h].amount \in Lots
                             /\ pos'[h].state = "Closed" => SoldOut
        /\ pos[g].amount \in Lots
    BY DEF Accounts, Books, ClosedOut
  <1>2. CASE Rest(s)
    <2>1. NoJob.tx = "none" /\ NoJob.prev # "Closed"
      BY DEF NoJob
    <2> QED BY <1>1, <1>2, <2>1, SellerAccounts DEF Rest
  <1>3. CASE \E have \in WalletBalance :
                LET n == IF pos[g].amount > 0 THEN Least(pos[g].amount, have) ELSE have
                IN  Goto(s, IF n = 0 THEN "skip" ELSE "mark",
                         [NoJob EXCEPT !.group = g, !.manual = manual,
                                       !.prev = pos[g].state, !.tokens = n,
                                       !.expect = have - n, !.try = 1])
    <2> DEFINE Amount(have) == IF pos[g].amount > 0 THEN Least(pos[g].amount, have) ELSE have
               Label(n) == IF n = 0 THEN "skip" ELSE "mark"
               Work(n, rest) == [NoJob EXCEPT !.group = g, !.manual = manual,
                                              !.prev = pos[g].state, !.tokens = n,
                                              !.expect = rest, !.try = 1]
    <2>1. PICK have \in WalletBalance :
            Goto(s, Label(Amount(have)), Work(Amount(have), have - Amount(have)))
      BY <1>3
    <2>2. have \in Lots /\ (have # 0 => buy[g] = "landed")
      BY ReadsAreLots
    <2>3. \/ Amount(have) = 0
          \/ Amount(have) = Lot /\ have = Lot /\ have - Amount(have) = 0
      BY <1>1, <2>2, LotsAreNumbers DEF Lots, Least
    <2>4. \A n, rest : /\ Work(n, rest).tokens = n /\ Work(n, rest).expect = rest
                       /\ Work(n, rest).tx = "none" /\ Work(n, rest).prev = pos[g].state
      BY DEF NoJob
    <2>5. pos[g].state = "Closed" => SoldOut
      BY DEF Accounts, ClosedOut
    <2>6. \A h \in Groups : have # 0 => buy[h] = "landed"
      BY <2>2 DEF SoleHolder
    <2> HIDE DEF Amount, Work
    <2>7. CASE Amount(have) = 0
      <3>1. Goto(s, "skip", Work(Amount(have), have - Amount(have)))
        BY <2>1, <2>7
      <3> QED BY <1>1, <2>4, <2>5, <3>1, SellerAccounts
    <2>8. CASE Amount(have) = Lot /\ have = Lot /\ have - Amount(have) = 0
      <3>1. Goto(s, "mark", Work(Lot, 0))
        BY <2>1, <2>8, LotsAreNumbers
      <3> QED BY <1>1, <2>4, <2>5, <2>6, <2>8, <3>1, LotsAreNumbers, SellerAccounts
    <2> QED BY <2>3, <2>7, <2>8
  <1> QED BY <1>2, <1>3 DEF Consider

\* The executor takes a signal, the bot a sell button.
LEMMA PickAccounts ==
  ASSUME TypeOK, SoleHolder, Accounts,
         \/ "exec" \in Sellers /\ TakeSignal
         \/ \E g \in Groups : SellButton(g) \/ PartialButton(g)
  PROVE  Accounts'
  <1> USE DEF mapVars
  <1>1. CASE "exec" \in Sellers /\ TakeSignal
    <2>1. Head(queue) \in Groups \X BOOLEAN
      BY <1>1 DEF TakeSignal, TypeOK
    <2> QED BY <1>1, <2>1, ConsiderAccounts DEF TakeSignal
  <1>2. ASSUME NEW g \in Groups, SellButton(g) PROVE Accounts'
    BY <1>2, ConsiderAccounts DEF SellButton
  <1>3. ASSUME NEW g \in Groups, PartialButton(g) PROVE Accounts'
    <2> DEFINE j == [NoJob EXCEPT !.group = g, !.manual = TRUE, !.prev = pos[g].state,
                                  !.tokens = pos[g].amount \div 2]
    <2>1. Goto("tg", "pmark", j) /\ Partials /\ "tg" \in Sellers
      BY <1>3 DEF PartialButton
    <2>2. j.tx = "none" /\ j.prev = pos[g].state
      BY DEF NoJob
    <2>3. /\ \A h \in Groups : /\ pos'[h].amount \in Lots
                               /\ pos'[h].state = "Closed" => SoldOut
          /\ pos[g].state = "Closed" => SoldOut
      BY <1>3 DEF PartialButton, Accounts, Books, ClosedOut
    <2>4. UNCHANGED <<buyVars, chainVars, cache, abandoned>>
      BY <1>3 DEF PartialButton, cacheVars
    <2> HIDE DEF j
    <2> QED BY <2>1, <2>2, <2>3, <2>4, SellerAccounts
  <1> QED BY <1>1, <1>2, <1>3

\* A seller at work.
LEMMA SellAccounts ==
  ASSUME TypeOK, Gate, SoleHolder, Accounts, NEW s \in Sellers, SellStep(s)
  PROVE  Accounts'
  <1> USE DEF mapVars, cacheVars
  <1> DEFINE g == job[s].group
             Harmless == \A h \in Groups : /\ pos'[h].amount \in Lots
                                           /\ pos'[h].state = "Closed" => SoldOut
  <1>1. job[s] \in Job /\ (job[s].prev = "Closed" => SoldOut)
    BY DEF TypeOK, Accounts, WholeLot
  <1>2. \A h \in Groups : /\ pos[h] \in Position /\ pos[h].amount \in Lots
                          /\ pos[h].state = "Closed" => SoldOut
    BY DEF TypeOK, Accounts, Books, ClosedOut
  <1>3. pc[s] \in {"mark", "send", "wait", "close"} =>
          /\ job[s].tokens = Lot /\ job[s].expect = 0
          /\ \A h \in Groups : buy[h] = "landed"
    BY DEF Accounts, WholeLot
  <1>4. pc[s] # "wait" => job[s].tx = "none"
    BY DEF Accounts, WholeLot
  <1>5. NoJob.tx = "none" /\ NoJob.prev # "Closed"
    BY DEF NoJob
  \* Back to rest.
  <1>6. ASSUME Goto(s, "idle", NoJob) \/ Goto(s, "cleanup", NoJob), Harmless,
               UNCHANGED <<buyVars, chainVars>>, cache' \subseteq cache,
               \A t \in abandoned' : t \in abandoned \/ t[2] = Lot
        PROVE  Accounts'
    BY <1>5, <1>6, SellerAccounts
  <1>7. CASE SkipZero(s)
    <2> DEFINE n == Least(pos[g].skips + 1, MaxSkips)
    <2>1. \A h \in Groups : pos'[h] = pos[h] \/ pos'[h] = [pos[h] EXCEPT !.skips = n]
      BY <1>7 DEF SkipZero, TypeOK
    <2> HIDE DEF n
    <2>2. Harmless
      BY <1>2, <2>1 DEF Position
    <2>3. Rest(s) \/ Goto(s, "drop", job[s])
      BY <1>7 DEF SkipZero
    <2>4. pc[s] = "skip" /\ UNCHANGED <<buyVars, chainVars, cache, abandoned>>
      BY <1>7 DEF SkipZero
    <2>5. CASE Rest(s)
      BY <1>6, <2>2, <2>4, <2>5 DEF Rest
    <2>6. CASE Goto(s, "drop", job[s])
      BY <1>1, <1>4, <2>2, <2>4, <2>6, SellerAccounts
    <2> QED BY <2>3, <2>5, <2>6
  <1>8. CASE DropZero(s)
    <2>1. \A h \in Groups : pos'[h] = pos[h] \/ pos'[h] = MarkFailed(pos[h])
      BY <1>8 DEF DropZero, TypeOK
    <2>2. Harmless
      BY <1>2, <2>1 DEF MarkFailed, Position
    <2>3. UNCHANGED <<buyVars, chainVars, cache, abandoned>>
      BY <1>8 DEF DropZero
    <2> QED BY <1>6, <1>8, <2>2, <2>3 DEF DropZero, Rest
  <1>9. CASE Mark(s)
    <2>1. \A h \in Groups : pos'[h] = pos[h] \/ pos'[h] = MarkSelling(pos[h])
      BY <1>9 DEF Mark, TypeOK
    <2>2. \A p \in Position : MarkSelling(p).amount = p.amount /\ MarkSelling(p).state # "Closed"
      BY DEF MarkSelling, Position
    <2>3. Harmless
      BY <1>2, <2>1, <2>2
    <2>4. UNCHANGED <<buyVars, chainVars, cache, abandoned>>
      BY <1>9 DEF Mark
    <2>5. CASE Rest(s)
      BY <1>6, <2>3, <2>4, <2>5 DEF Rest
    <2>6. CASE ~Rest(s)
      <3>1. PICK viaPump \in BOOLEAN :
              Goto(s, IF pc[s] = "mark" THEN "send" ELSE "psend", [job[s] EXCEPT !.pump = viaPump])
        BY <1>9, <2>6 DEF Mark
      <3> DEFINE j == [job[s] EXCEPT !.pump = viaPump]
      <3>2. /\ j.tokens = job[s].tokens /\ j.expect = job[s].expect
            /\ j.prev = job[s].prev /\ j.tx = "none"
        BY <1>1, <1>4, <1>9 DEF Mark, Job
      <3>3. pc[s] = "mark" \/ (pc[s] = "pmark" /\ Partials)
        BY <1>9 DEF Mark, Accounts, WholeLot
      <3> HIDE DEF j
      <3>4. CASE pc[s] = "mark"
        <4>1. Goto(s, "send", j)
          BY <3>1, <3>4 DEF j
        <4> QED BY <1>1, <1>3, <2>3, <2>4, <3>2, <3>4, <4>1, SellerAccounts
      <3>5. CASE pc[s] = "pmark" /\ Partials
        <4>1. Goto(s, "psend", j)
          BY <3>1, <3>5 DEF j
        <4> QED BY <1>1, <2>3, <2>4, <3>2, <3>5, <4>1, SellerAccounts
      <3> QED BY <3>3, <3>4, <3>5
    <2> QED BY <2>5, <2>6
  \* On to another try, or to the end of the cycle.
  <1>10. ASSUME pc[s] \in {"send", "wait"}, Harmless, UNCHANGED <<buyVars, chainVars, cache>>,
                \A t \in abandoned' : t \in abandoned \/ t[2] = Lot,
                NEW label \in {"send", "wait", "close", "giveup"}, NEW j, Goto(s, label, j),
                j.tokens = job[s].tokens, j.expect = job[s].expect, j.prev = job[s].prev,
                j.tx # "none" => label = "wait", label = "close" => SoldOut
         PROVE  Accounts'
    BY <1>1, <1>3, <1>10, SellerAccounts
  <1>11. CASE Send(s) \/ WaitConfirm(s)
    <2>1. pc[s] \in {"send", "wait"} /\ UNCHANGED <<buyVars, chainVars, cache>>
      BY <1>11 DEF Send, WaitConfirm
    <2>2. \A t \in abandoned' : t \in abandoned \/ t[2] = Lot
      BY <1>3, <1>11 DEF Send, WaitConfirm
    <2>3. Harmless
      BY <1>2, <1>11 DEF Send, WaitConfirm
    <2>4. ASSUME NEW label \in {"send", "giveup"}, NEW j, Goto(s, label, j),
                 j.tokens = job[s].tokens, j.expect = job[s].expect, j.prev = job[s].prev,
                 j.tx = "none"
          PROVE  Accounts'
      BY <1>10, <2>1, <2>2, <2>3, <2>4
    <2>5. ASSUME Fails(s, job[s]) PROVE Accounts'
      <3> DEFINE j == [job[s] EXCEPT !.tx = "none"]
      <3>1. j.tokens = job[s].tokens /\ j.expect = job[s].expect /\ j.prev = job[s].prev
            /\ j.tx = "none"
        BY <1>1 DEF Job
      <3>2. Goto(s, "giveup", j)
        BY <2>5 DEF Fails
      <3> HIDE DEF j
      <3> QED BY <2>4, <3>1, <3>2
    <2>6. ASSUME NextTry(s, job[s]) PROVE Accounts'
      <3> DEFINE n == job[s].try + 1
                 j == [job[s] EXCEPT !.try = n, !.fallback = FALSE, !.tx = "none"]
      <3>1. j.tokens = job[s].tokens /\ j.expect = job[s].expect /\ j.prev = job[s].prev
            /\ j.tx = "none"
        BY <1>1 DEF Job
      <3>2. Goto(s, "send", j) \/ Fails(s, job[s])
        BY <2>6 DEF NextTry
      <3> HIDE DEF j
      <3> QED BY <2>4, <2>5, <3>1, <3>2
    <2>7. CASE Send(s)
      <3> DEFINE j == [job[s] EXCEPT !.tx = "pending"]
                 k == [job[s] EXCEPT !.fallback = TRUE]
      <3>1. /\ j.tokens = job[s].tokens /\ j.expect = job[s].expect /\ j.prev = job[s].prev
            /\ k.tokens = job[s].tokens /\ k.expect = job[s].expect /\ k.prev = job[s].prev
            /\ k.tx = "none"
        BY <1>1, <1>4, <2>7 DEF Job, Send
      <3>2. Goto(s, "wait", j) \/ Goto(s, "send", k) \/ NextTry(s, job[s])
        BY <2>7 DEF Send
      <3> HIDE DEF j, k
      <3>3. CASE Goto(s, "wait", j)
        BY <1>10, <2>1, <2>2, <2>3, <3>1, <3>3
      <3>4. CASE Goto(s, "send", k)
        BY <2>4, <3>1, <3>4
      <3> QED BY <2>6, <3>2, <3>3, <3>4
    <2>8. CASE WaitConfirm(s)
      <3> DEFINE j == [job[s] EXCEPT !.tx = "none"]
                 k == [job[s] EXCEPT !.fallback = TRUE, !.erred = TRUE, !.tx = "none"]
      <3>1. /\ j.tokens = job[s].tokens /\ j.expect = job[s].expect /\ j.prev = job[s].prev
            /\ k.tokens = job[s].tokens /\ k.expect = job[s].expect /\ k.prev = job[s].prev
            /\ j.tx = "none" /\ k.tx = "none"
        BY <1>1 DEF Job
      <3>2. \/ Confirmed(job[s]) /\ Goto(s, "close", j)
            \/ Goto(s, "send", k) \/ Fails(s, job[s]) \/ NextTry(s, job[s])
        BY <2>8 DEF WaitConfirm
      \* The account was seen empty after the buy had landed: the lot is sold.
      <3>3. Confirmed(job[s]) => SoldOut
        <4>1. SUFFICES ASSUME NEW b \in cache \cup {bal}, b <= 0 PROVE SoldOut
          BY <1>3, <2>8, <1>1 DEF WaitConfirm, Confirmed, SoleHolder, SnapshotBalance, RpcBalance
        <4>2. b = 0
          BY <4>1 DEF TypeOK
        <4>3. CASE b \in cache
          BY <4>2, <4>3 DEF Accounts, Told
        <4>4. CASE b = bal
          <5>1. \A h \in Groups : buy[h] = "landed" /\ sold[h] \in Nat /\ bal + sold[h] = Lot
            BY <1>3, <2>8, LotsAreNumbers DEF WaitConfirm, Accounts, Books
          <5> QED BY <4>2, <4>4, <5>1 DEF SoldOut
        <4> QED BY <4>1, <4>3, <4>4
      <3> HIDE DEF j, k
      <3>4. CASE Confirmed(job[s]) /\ Goto(s, "close", j)
        BY <1>10, <2>1, <2>2, <2>3, <3>1, <3>3, <3>4
      <3>5. CASE Goto(s, "send", k)
        BY <2>4, <3>1, <3>5
      <3> QED BY <2>5, <2>6, <3>2, <3>4, <3>5
    <2> QED BY <1>11, <2>7, <2>8
  <1>12. CASE CloseSold(s)
    <2>1. \A h \in Groups : pos'[h] = pos[h] \/ pos'[h] = MarkClosed(pos[h])
      BY <1>12 DEF CloseSold, TypeOK
    <2>2. SoldOut
      BY <1>12 DEF CloseSold, Accounts, WholeLot
    <2>3. Harmless
      BY <1>2, <2>1, <2>2 DEF MarkClosed, Position
    <2>4. UNCHANGED <<buyVars, chainVars, cache, abandoned>>
      BY <1>12 DEF CloseSold
    <2> QED BY <1>6, <1>12, <2>3, <2>4 DEF CloseSold
  <1>13. CASE CleanupMint(s)
    <2>1. Harmless
      BY <1>2, <1>13 DEF CleanupMint
    <2>2. UNCHANGED <<buyVars, chainVars, abandoned>> /\ cache' \subseteq cache
      BY <1>13 DEF CleanupMint
    <2> QED BY <1>6, <1>13, <2>1, <2>2 DEF CleanupMint, Rest
  <1>14. CASE GiveUp(s) \/ (SendPartial(s) /\ Route # "Pumpfun")
    <2>1. ASSUME NEW cap
          PROVE  \A p \in Position : /\ Restore(p, job[s].prev, cap).amount = p.amount
                                     /\ Restore(p, job[s].prev, cap).state = "Closed"
                                           => p.state = "Closed" \/ job[s].prev = "Closed"
      BY DEF Restore, Position
    <2>2. \E cap : \A h \in Groups : pos'[h] = pos[h] \/ pos'[h] = Restore(pos[h], job[s].prev, cap)
      BY <1>14 DEF GiveUp, SendPartial, TypeOK
    <2>3. Harmless
      BY <1>1, <1>2, <2>1, <2>2
    <2>4. UNCHANGED <<buyVars, chainVars, cache, abandoned>> /\ Rest(s)
      BY <1>14 DEF GiveUp, SendPartial
    <2> QED BY <1>6, <2>3, <2>4 DEF Rest
  <1>15. CASE SendPartial(s) /\ Route = "Pumpfun"
    BY <1>15 DEF SendPartial, Accounts, WholeLot, SoleHolder
  <1> QED BY <1>7, <1>8, <1>9, <1>11, <1>12, <1>13, <1>14, <1>15 DEF SellStep

\* Every step.
LEMMA NextAccounts == SoleHolder /\ TypeOK /\ Gate /\ Accounts /\ [Next]_vars => Accounts'
  <1> SUFFICES ASSUME SoleHolder, TypeOK, Gate, Accounts, [Next]_vars PROVE Accounts'
    OBVIOUS
  <1>1. CASE UNCHANGED vars
    <2>1. UNCHANGED <<pos, buy, conf, bal, feed, sold, cache, abandoned, pc, job>>
      BY <1>1 DEF vars, mapVars, buyVars, chainVars, cacheVars, sellVars
    <2>2. \A g \in Groups : pos[g].amount \in Lots
      BY DEF Accounts, Books
    <2> QED BY <2>1, <2>2, QuietAccounts
  <1>2. ASSUME NEW g \in Groups, BuyStep(g) \/ ConfirmStep(g) PROVE Accounts'
    BY <1>2, BuyAccounts
  <1>3. CASE FallbackAct \/ \E g \in Groups : MonitorStep(g)
    BY <1>3, MonitorAccounts
  <1>4. CASE \/ "exec" \in Sellers /\ TakeSignal
             \/ \E g \in Groups : SellButton(g) \/ PartialButton(g)
    BY <1>4, PickAccounts
  <1>5. ASSUME NEW s \in Sellers, SellStep(s) PROVE Accounts'
    BY <1>5, SellAccounts
  <1>6. CASE LandAbandoned \/ CacheUpdate \/ \E s \in Sellers : LandSell(s)
    BY <1>6, ChainAccounts
  <1> QED BY <1>1, <1>2, <1>3, <1>4, <1>5, <1>6 DEF Next

LEMMA InitAccounts == Init => Accounts
  BY DEF Init, Accounts, Books, Told, WholeLot, ClosedOut, Lots, NoTask, NoPos, NoJob

\* A closed position's tokens have been sold on chain, for one group in the
\* wallet account, on trustworthy answers about the account that holds them,
\* without partial sales.
THEOREM ClosedIsSold == SoleHolder => (Spec => []ClosedMeansSold)
  <1> SUFFICES ASSUME SoleHolder PROVE Spec => []ClosedMeansSold
    OBVIOUS
  <1>1. Accounts => ClosedMeansSold
    BY DEF Accounts, ClosedOut, SoldOut, ClosedMeansSold
  <1> QED BY <1>1, InitAccounts, NextAccounts, GateInvariance, PTL DEF Spec

-----------------------------------------------------------------------------
(* Where no part is sold, an active position was confirmed                    *)

\* A buy is confirmed after it was submitted, and a seller that read an active
\* position read one whose buy was confirmed.
Trusted ==
    /\ ActiveWasConfirmed
    /\ \A g \in Groups : buy[g] \in {"none", "prepared"} => conf[g].at = "none"
    /\ \A s \in Sellers : pc[s] \notin {"idle", "cleanup"} /\ job[s].prev = "Active"
                            => conf[job[s].group].at = "confirmed"
    /\ \A s \in Sellers : pc[s] \notin {"pmark", "psend"}

\* What was confirmed stays so, and only a buy that was submitted has a task.
LEMMA ConfirmedOnward ==
  ASSUME TypeOK, [Next]_vars, NEW g \in Groups,
         buy[g] \in {"none", "prepared"} => conf[g].at = "none"
  PROVE  /\ conf[g].at = "confirmed" => conf'[g].at = "confirmed"
         /\ buy'[g] \in {"none", "prepared"} => conf'[g].at = "none"
  <1> USE DEF mapVars, buyVars, chainVars, cacheVars, sellVars
  <1>1. conf[g] \in Task
    BY DEF TypeOK
  <1>2. CASE conf'[g].at = conf[g].at
    BY <1>2, BuyOnward
  <1>3. ASSUME NEW h \in Groups, BuyStep(h)
        PROVE  \/ conf'[g].at = conf[g].at
               \/ buy[g] = "prepared" /\ buy'[g] = "pending"
    <2>1. CASE PrepareBuy(h)
      BY <1>1, <2>1 DEF PrepareBuy, TypeOK, Task
    <2>2. CASE SubmitBuy(h)
      BY <2>2 DEF SubmitBuy, TypeOK
    <2>3. CASE LandBuy(h)
      <3>1. conf' = conf \/ \E b : conf' = [conf EXCEPT ![h].after = b]
        BY <2>3 DEF LandBuy
      <3>2. ASSUME NEW b, conf' = [conf EXCEPT ![h].after = b] PROVE conf'[g].at = conf[g].at
        BY <1>1, <3>2 DEF TypeOK, Task
      <3> QED BY <3>1, <3>2
    <2> QED BY <1>3, <2>1, <2>2, <2>3 DEF BuyStep, Age
  <1>4. ASSUME NEW h \in Groups, ConfirmStep(h)
        PROVE  \/ conf'[g].at = conf[g].at
               \/ conf[g].at \in {"waiting", "seen"} /\ buy'[g] = buy[g]
    <2>1. CASE SeeIncrease(h)
      <3>1. PICK n : conf' = [conf EXCEPT ![h].at = "seen", ![h].amount = n]
        BY <2>1 DEF SeeIncrease
      <3> QED BY <1>1, <2>1, <3>1 DEF SeeIncrease, TypeOK, Task
    <2>2. CASE ConfirmSuccess(h) \/ ConfirmFailure(h)
      BY <1>1, <2>2 DEF ConfirmSuccess, ConfirmFailure, TypeOK, Task
    <2> QED BY <1>4, <2>1, <2>2 DEF ConfirmStep
  <1>5. ASSUME NEW h \in Groups, MonitorStep(h) \/ SellButton(h) \/ PartialButton(h)
        PROVE  conf' = conf
    BY <1>5 DEF MonitorStep, PriceSignal, HoldSignal, SellAll, Signal, FallbackRead, Forget,
                SellButton, PartialButton
  <1>6. ASSUME NEW s \in Sellers, SellStep(s) \/ LandSell(s) PROVE conf' = conf
    BY <1>6 DEF SellStep, SkipZero, DropZero, Mark, Send, WaitConfirm, CloseSold,
                CleanupMint, GiveUp, SendPartial, LandSell
  <1>7. CASE \/ FallbackAct \/ ("exec" \in Sellers /\ TakeSignal)
             \/ LandAbandoned \/ CacheUpdate \/ UNCHANGED vars
    BY <1>2, <1>7 DEF FallbackAct, TakeSignal, LandAbandoned, CacheUpdate, vars
  <1> QED BY <1>2, <1>3, <1>4, <1>5, <1>6, <1>7 DEF Next

\* How a position becomes active.
LEMMA BecomesActive ==
  ASSUME TypeOK, Gate, Trusted, [Next]_vars, NEW h \in Groups, pos'[h].state = "Active"
  PROVE  \/ pos[h].state = "Active"
         \/ conf'[h].at = "confirmed"
         \/ \E s \in Sellers : /\ pc[s] \notin {"idle", "cleanup"}
                               /\ job[s].group = h /\ job[s].prev = "Active"
  <1> USE DEF mapVars, buyVars, chainVars, cacheVars, sellVars
  <1> SUFFICES ASSUME pos[h].state # "Active"
               PROVE  \/ conf'[h].at = "confirmed"
                      \/ \E s \in Sellers : /\ pc[s] \notin {"idle", "cleanup"}
                                            /\ job[s].group = h /\ job[s].prev = "Active"
    OBVIOUS
  <1>1. pos[h] \in Position /\ pos' # pos
    BY DEF TypeOK
  <1>2. ASSUME NEW g, NEW q, pos' = [pos EXCEPT ![g] = q]
        PROVE  g = h /\ q.state = "Active"
    BY <1>2 DEF TypeOK
  <1>3. MarkFailed(pos[h]).state # "Active" /\ NoPos.state # "Active"
    BY FailedOrSame DEF NoPos
  <1>4. ASSUME NEW g \in Groups, BuyStep(g) PROVE FALSE
    <2>1. PICK n : pos' = [pos EXCEPT ![g] = [NoPos EXCEPT !.state = "Confirming", !.amount = n]]
      BY <1>1, <1>4 DEF BuyStep, PrepareBuy, SubmitBuy, LandBuy, Age
    <2>2. [NoPos EXCEPT !.state = "Confirming", !.amount = n].state = "Confirming"
      BY DEF NoPos
    <2> QED BY <1>2, <2>1, <2>2
  <1>5. ASSUME NEW g \in Groups, ConfirmStep(g) PROVE conf'[h].at = "confirmed"
    <2>1. CASE ConfirmSuccess(g)
      <3>1. g = h
        BY <1>2, <2>1 DEF ConfirmSuccess
      <3> QED BY <2>1, <3>1 DEF ConfirmSuccess, TypeOK, Task
    <2>2. CASE ConfirmFailure(g)
      BY <1>2, <1>3, <2>2 DEF ConfirmFailure
    <2> QED BY <1>1, <1>5, <2>1, <2>2 DEF ConfirmStep, SeeIncrease
  <1>6. ASSUME NEW g \in Groups, MonitorStep(g) PROVE FALSE
    <2>1. pos' = [pos EXCEPT ![g] = NoPos]
      BY <1>1, <1>6 DEF MonitorStep, PriceSignal, HoldSignal, SellAll, Signal, FallbackRead, Forget
    <2> QED BY <1>2, <1>3, <2>1
  <1>7. CASE FallbackAct
    <2>1. PICK g \in Groups : pos' = [pos EXCEPT ![g] = MarkFailed(pos[g])]
      BY <1>1, <1>7 DEF FallbackAct, FallbackFails, FallbackWedges, TypeOK
    <2> QED BY <1>2, <1>3, <2>1
  <1>8. ASSUME NEW s \in Sellers, SellStep(s)
        PROVE  pc[s] \notin {"idle", "cleanup"} /\ job[s].group = h /\ job[s].prev = "Active"
    <2> DEFINE g == job[s].group
               p == pos[g]
    <2>1. CASE SkipZero(s)
      <3>1. PICK n : pos' = [pos EXCEPT ![g] = [p EXCEPT !.skips = n]]
        BY <1>1, <2>1 DEF SkipZero
      <3>2. g = h /\ [p EXCEPT !.skips = n].state = "Active"
        BY <1>2, <3>1
      <3> QED BY <1>1, <3>2 DEF Position
    <2>2. CASE DropZero(s)
      BY <1>2, <1>3, <2>2 DEF DropZero
    <2>3. CASE Mark(s)
      <3>1. pos' = [pos EXCEPT ![g] = MarkSelling(p)]
        BY <1>1, <2>3 DEF Mark
      <3>2. g = h /\ MarkSelling(p).state = "Active"
        BY <1>2, <3>1
      <3> QED BY <1>1, <3>2 DEF MarkSelling, Position
    <2>4. CASE CloseSold(s)
      <3>1. pos' = [pos EXCEPT ![g] = MarkClosed(p)]
        BY <2>4 DEF CloseSold
      <3>2. g = h /\ MarkClosed(p).state = "Active"
        BY <1>2, <3>1
      <3> QED BY <1>1, <3>2 DEF MarkClosed, Position
    <2>5. CASE GiveUp(s)
      <3>1. PICK cap : pos' = [pos EXCEPT ![g] = Restore(p, job[s].prev, cap)]
        BY <2>5 DEF GiveUp
      <3>2. g = h /\ Restore(p, job[s].prev, cap).state = "Active"
        BY <1>2, <3>1
      <3>3. job[s].prev = "Active"
        BY <1>1, <3>2 DEF Restore, Position
      <3> QED BY <2>5, <3>2, <3>3 DEF GiveUp
    <2>6. CASE SendPartial(s)
      BY <2>6 DEF SendPartial, Trusted
    <2> QED BY <1>1, <1>8, <2>1, <2>2, <2>3, <2>4, <2>5, <2>6
            DEF SellStep, Send, WaitConfirm, CleanupMint
  <1>9. CASE \/ \E g \in Groups : SellButton(g) \/ PartialButton(g)
             \/ "exec" \in Sellers /\ TakeSignal
    BY <1>1, <1>9, PickGoes
  <1>10. CASE \/ LandAbandoned \/ CacheUpdate \/ UNCHANGED vars
              \/ \E s \in Sellers : LandSell(s)
    BY <1>1, <1>10 DEF LandAbandoned, CacheUpdate, LandSell, vars
  <1> QED BY <1>4, <1>5, <1>6, <1>7, <1>8, <1>9, <1>10 DEF Next

\* Nobody begins a sale of a part.
LEMMA NoParts ==
  ASSUME TypeOK, ~Partials, [Next]_vars, \A s \in Sellers : pc[s] \notin {"pmark", "psend"}
  PROVE  \A s \in Sellers : pc'[s] \notin {"pmark", "psend"}
  <1> USE DEF sellVars
  <1>1. ASSUME NEW s \in Sellers, NEW label, NEW j, Goto(s, label, j), label \notin {"pmark", "psend"}
        PROVE  \A t \in Sellers : pc'[t] \notin {"pmark", "psend"}
    BY <1>1 DEF Goto, TypeOK
  <1>2. CASE pc' = pc
    BY <1>2
  <1>3. ASSUME NEW s \in Sellers, NEW g \in Groups, NEW manual \in BOOLEAN, Consider(s, g, manual)
        PROVE  \A t \in Sellers : pc'[t] \notin {"pmark", "psend"}
    <2>1. PICK label \in {"idle", "skip", "mark"} : \E j : Goto(s, label, j)
      BY <1>3, ConsiderGoes DEF Rest
    <2> QED BY <1>1, <2>1
  <1>4. CASE \E g \in Groups : SellButton(g) \/ PartialButton(g)
    <2>1. PICK g \in Groups : SellButton(g)
      BY <1>4 DEF PartialButton
    <2>2. "tg" \in Sellers /\ Consider("tg", g, TRUE)
      BY <2>1 DEF SellButton
    <2> QED BY <1>3, <2>2
  <1>5. CASE "exec" \in Sellers /\ TakeSignal
    <2>1. Head(queue)[1] \in Groups /\ Head(queue)[2] \in BOOLEAN
      BY <1>5 DEF TakeSignal, TypeOK
    <2> QED BY <1>3, <1>5, <2>1 DEF TakeSignal
  <1>6. ASSUME NEW s \in Sellers, SellStep(s)
        PROVE  \A t \in Sellers : pc'[t] \notin {"pmark", "psend"}
    <2>1. CASE Send(s) \/ WaitConfirm(s)
      <3>1. PICK label \in {"send", "wait", "close", "giveup"} :
              \E j : Goto(s, label, j) /\ j.group = job[s].group /\ j.prev = job[s].prev
        BY <2>1, TryGoes
      <3> QED BY <1>1, <3>1
    <2>2. CASE ~(Send(s) \/ WaitConfirm(s))
      <3>1. PICK label \in {"idle", "drop", "send", "cleanup"} : \E j : Goto(s, label, j)
        BY <1>6, <2>2 DEF SellStep, SkipZero, DropZero, Mark, CloseSold, CleanupMint, GiveUp,
                          SendPartial, Rest
      <3> QED BY <1>1, <3>1
    <2> QED BY <2>1, <2>2
  <1>7. ASSUME NEW g \in Groups, BuyStep(g) \/ ConfirmStep(g) \/ MonitorStep(g) PROVE pc' = pc
    BY <1>7 DEF BuyStep, PrepareBuy, SubmitBuy, LandBuy, Age,
                ConfirmStep, SeeIncrease, ConfirmSuccess, ConfirmFailure,
                MonitorStep, PriceSignal, HoldSignal, SellAll, Signal, FallbackRead, Forget
  <1>8. CASE \/ FallbackAct \/ LandAbandoned \/ CacheUpdate \/ UNCHANGED vars
             \/ \E s \in Sellers : LandSell(s)
    BY <1>2, <1>8 DEF FallbackAct, LandAbandoned, CacheUpdate, LandSell, vars
  <1> QED BY <1>2, <1>4, <1>5, <1>6, <1>7, <1>8 DEF Next

\* Every step.
LEMMA NextTrusted ==
  ~Partials /\ TypeOK /\ Gate /\ Trusted /\ [Next]_vars => Trusted'
  <1> SUFFICES ASSUME ~Partials, TypeOK, Gate, Trusted, [Next]_vars PROVE Trusted'
    OBVIOUS
  <1>0. ASSUME NEW g \in Groups
        PROVE  /\ conf[g].at = "confirmed" => conf'[g].at = "confirmed"
               /\ buy'[g] \in {"none", "prepared"} => conf'[g].at = "none"
    <2>1. buy[g] \in {"none", "prepared"} => conf[g].at = "none"
      BY DEF Trusted
    <2> QED BY <2>1, ConfirmedOnward
  <1>1. ASSUME NEW h \in Groups, pos[h].state = "Active" PROVE conf'[h].at = "confirmed"
    BY <1>0, <1>1 DEF Trusted, ActiveWasConfirmed
  <1>2. ASSUME NEW t \in Sellers, pc[t] \notin {"idle", "cleanup"}, job[t].prev = "Active"
        PROVE  conf'[job[t].group].at = "confirmed"
    <2>1. job[t].group \in Groups
      BY <1>2 DEF Gate, HasGroup
    <2>2. conf[job[t].group].at = "confirmed"
      BY <1>2 DEF Trusted
    <2> QED BY <1>0, <2>1, <2>2
  <1>3. ASSUME NEW h \in Groups, pos'[h].state = "Active" PROVE conf'[h].at = "confirmed"
    <2>1. CASE pos[h].state = "Active"
      BY <1>1, <2>1
    <2>2. CASE \E s \in Sellers : /\ pc[s] \notin {"idle", "cleanup"}
                                  /\ job[s].group = h /\ job[s].prev = "Active"
      BY <1>2, <2>2
    <2> QED BY <1>3, <2>1, <2>2, BecomesActive
  <1>4. ASSUME NEW t \in Sellers, pc'[t] \notin {"idle", "cleanup"}, job'[t].prev = "Active"
        PROVE  conf'[job'[t].group].at = "confirmed"
    <2>1. CASE /\ pc[t] \notin {"idle", "cleanup"}
               /\ job'[t].group = job[t].group /\ job'[t].prev = job[t].prev
      BY <1>2, <1>4, <2>1
    <2>2. CASE /\ job'[t].group \in Groups
               /\ job'[t].prev = pos[job'[t].group].state
      BY <1>1, <1>4, <2>2
    <2> QED BY <1>4, <2>1, <2>2, JobsOnward
  <1>5. \A s \in Sellers : pc'[s] \notin {"pmark", "psend"}
    BY NoParts DEF Trusted
  <1> QED BY <1>0, <1>3, <1>4, <1>5 DEF Trusted, ActiveWasConfirmed

\* Where no part of a position is sold, Active means what it says: the buy was
\* confirmed, whatever a failed sale writes back.
THEOREM ActiveIsConfirmed == ~Partials => (Spec => []ActiveWasConfirmed)
  <1> SUFFICES ASSUME ~Partials PROVE Spec => []ActiveWasConfirmed
    OBVIOUS
  <1>1. Init => Trusted
    BY DEF Init, Trusted, ActiveWasConfirmed, NoPos, NoTask
  <1>2. Trusted => ActiveWasConfirmed
    BY DEF Trusted
  <1> QED BY <1>1, <1>2, NextTrusted, GateInvariance, PTL DEF Spec

=============================================================================
