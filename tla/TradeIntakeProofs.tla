------------------------- MODULE TradeIntakeProofs -------------------------
(***************************************************************************)
(* The trade loop drives the consensus engine only in ways Consensus       *)
(* allows, so what is proved of Consensus holds of the engine in the loop; *)
(* every buy the loop or the trigger task starts is backed; the report of  *)
(* a landed sale reaches the position; and a trade reported as failed has  *)
(* no vote.                                                                *)
(***************************************************************************)
EXTENDS TradeIntake, SequenceTheorems, FiniteSetTheorems, WellFoundedInduction, TLAPS

\* The engine, with what is proved of it.
E == INSTANCE ConsensusProofs WITH
         Kinds      <- [instr : BOOLEAN, accounts : BOOLEAN, sol : BOOLEAN, pre : BOOLEAN,
                        wrapper : BOOLEAN],
         Quorums    <- {g.quorum : g \in Settings} \ {1},
         Timeouts   <- {g.window : g \in Settings},
         LastSubmit <- MaxNow,
         MaxSent    <- MaxReports

-----------------------------------------------------------------------------
(* What the stream reports                                                  *)

\* What a vote takes from a report.
Votable(t) ==
    /\ t.wallet \in Wallets /\ t.sig \in Sigs
    /\ t.pre \in BOOLEAN /\ t.instr \in BOOLEAN /\ t.wrapper \in BOOLEAN

\* Some places have a first one.
LEMMA LeastPlace ==
    ASSUME NEW places \in SUBSET Nat, places # {}
    PROVE  LET n == CHOOSE m \in places : \A p \in places : m <= p
           IN  n \in places /\ \A p \in places : n <= p
<1> DEFINE R == OpToRel(<, Nat)
<1>1. PICK n \in places : \A p \in places : <<p, n>> \notin R
  <2>1. IsWellFoundedOn(R, Nat)  BY NatLessThanWellFounded
  <2> HIDE DEF R
  <2>2. \E n \in places : \A p \in places : ~(<<p, n>> \in R)  BY <2>1, WFMin
  <2> QED  BY <2>2
<1>2. \A p \in places : ~(p < n)  BY <1>1 DEF OpToRel
<1>3. \A p \in places : n <= p  BY <1>2
<1> QED  BY <1>3

\* The element at the first of some places is one of the list.
LEMMA FirstIsElement ==
    ASSUME NEW S, NEW list \in Seq(S), NEW places \in SUBSET DOMAIN list, places # {}
    PROVE  FirstOf(list, places) \in S
<1>1. DOMAIN list \subseteq Nat /\ \A n \in DOMAIN list : list[n] \in S  OBVIOUS
<1>2. (CHOOSE m \in places : \A p \in places : m <= p) \in places
  <2>1. places \in SUBSET Nat  BY <1>1
  <2> QED  BY <2>1, LeastPlace
<1> QED  BY <1>1, <1>2 DEF FirstOf

LEMMA FoundVotable ==
    ASSUME NEW t \in Tx, NEW wallet \in Wallets, NEW landed \in BOOLEAN,
           NEW list \in {t.outer, t.inner}, NEW scope, Calls(list, scope) # {}
    PROVE  Votable(Found(t, wallet, FirstOf(list, Calls(list, scope)), landed))
<1> DEFINE ix == FirstOf(list, Calls(list, scope))
           d  == Direct(t, wallet, ix, landed)
<1>1. t.sig \in Sigs /\ list \in Seq(Ix)  BY DEF Tx
<1>2. Calls(list, scope) \in SUBSET DOMAIN list  BY DEF Calls
<1>3. ix \in Ix  BY <1>1, <1>2, FirstIsElement
<1> HIDE DEF ix
<1>4. ix.long \in BOOLEAN  BY <1>3 DEF Ix
<1>5. Votable(d)  BY <1>1, <1>4 DEF Votable, Direct
<1>6. Votable(Enriched(d, t))
  <2>1. /\ Enriched(d, t).wallet = d.wallet /\ Enriched(d, t).sig = d.sig
        /\ Enriched(d, t).pre = d.pre /\ Enriched(d, t).instr = d.instr
        /\ Enriched(d, t).wrapper = d.wrapper
    BY DEF Enriched, Direct
  <2> HIDE DEF d
  <2> QED  BY <1>5, <2>1 DEF Votable
<1>7. Found(t, wallet, ix, landed) \in {d, Enriched(d, t)}  BY DEF Found
<1> HIDE DEF d
<1>8. Votable(Found(t, wallet, ix, landed))  BY <1>5, <1>6, <1>7
<1> QED  BY <1>8 DEF ix

LEMMA ParsedVotable ==
    ASSUME NEW t \in Tx, NEW landed \in BOOLEAN, Parse(t, landed, Wallets) # NoTrade
    PROVE  Votable(Parse(t, landed, Wallets))
<1> DEFINE keys   == Keys(t, landed)
           places == Followed(t, landed, Wallets)
           wallet == FirstOf(keys, places)
<1>1. keys \in Seq(Wallets)  BY DEF Keys, Tx
<1>2. places # {}  BY DEF Parse
<1>3. places \in SUBSET DOMAIN keys  BY DEF Followed
<1>4. wallet \in Wallets
  <2> HIDE DEF keys, places
  <2> QED  BY <1>1, <1>2, <1>3, FirstIsElement
<1>5. Parse(t, landed, Wallets) = Rounds(t, wallet, landed)  BY <1>2 DEF Parse
<1> HIDE DEF wallet
<1> DEFINE by(list, scope) == Found(t, wallet, FirstOf(list, Calls(list, scope)), landed)
<1>6. \A list \in {t.outer, t.inner} : \A scope :
          Calls(list, scope) # {} => Votable(by(list, scope))
  BY <1>4, FoundVotable
<1>7. Votable(Wrapped(t, wallet))  BY <1>4 DEF Votable, Wrapped, Tx
<1>8. \/ Rounds(t, wallet, landed) = NoTrade
      \/ Rounds(t, wallet, landed) = Wrapped(t, wallet)
      \/ \E list \in {t.outer, t.inner}, scope \in {Internal, External} :
            Calls(list, scope) # {} /\ Rounds(t, wallet, landed) = by(list, scope)
  <2>1. CASE landed  BY <2>1 DEF Rounds
  <2>2. CASE ~landed  BY <2>2 DEF Rounds
  <2> QED  BY <2>1, <2>2
<1> HIDE DEF by
<1> QED  BY <1>5, <1>6, <1>7, <1>8

\* The reports there can be.
Sendable == {t \in {Parse(x, landed, Wallets) : x \in Txs, landed \in BOOLEAN} : t # NoTrade}

LEMMA SendableVotable == \A t \in Sendable : Votable(t)
BY ParsedVotable, TxsAssumption DEF Sendable

-----------------------------------------------------------------------------
(* The channel keeps the order of detection                                 *)

\* No report is older than the newest vote or from the future, and the channel and
\* the loop's hands hold them in order.
InOrder ==
    /\ now \in Nat /\ now <= MaxNow /\ fed \in Nat /\ fed <= now
    /\ feed \in Seq([trade : Sendable, at : Nat])
    /\ \A n \in 1..Len(feed) : feed[n].at \in Nat /\ fed <= feed[n].at /\ feed[n].at <= now
    /\ \A m, n \in 1..Len(feed) : m <= n => feed[m].at <= feed[n].at
    /\ hand # NoReport => hand.at \in Nat /\ fed <= hand.at /\ hand.at <= now
                          /\ \A n \in 1..Len(feed) : hand.at <= feed[n].at

\* A report in hand is of a wallet its group follows.
InHand ==
    /\ group \in Settings \cup {NoGroup}
    /\ hand # NoReport => /\ hand.trade \in Sendable
                          /\ hand.group \in Settings
                          /\ hand.trade.wallet \in hand.group.wallets

IInv == InOrder /\ InHand

LEMMA InitIInv == Init => IInv
<1> SUFFICES ASSUME Init PROVE IInv
  OBVIOUS
<1>1. now = 0 /\ fed = 0  BY DEF Init, C!Init
<1>2. MaxNow \in Nat  BY BoundsAssumption
<1>3. feed = <<>> /\ hand = NoReport /\ group \in Settings  BY DEF Init
<1> QED  BY <1>1, <1>2, <1>3 DEF IInv, InOrder, InHand

\* What is left of the channel when a report was taken out of it.
LEMMA Rest ==
    ASSUME InOrder, feed # <<>>, feed' = Tail(feed)
    PROVE  /\ feed' \in Seq([trade : Sendable, at : Nat])
           /\ \A n \in 1..Len(feed') : n + 1 \in 1..Len(feed) /\ feed'[n] = feed[n + 1]
           /\ Head(feed) = feed[1] /\ 1 \in 1..Len(feed)
           /\ feed[1] \in [trade : Sendable, at : Nat]
<1> DEFINE S == [trade : Sendable, at : Nat]
<1>1. feed \in Seq(S)  BY DEF InOrder
<1> HIDE DEF S
<1>2. Tail(feed) \in Seq(S) /\ Len(Tail(feed)) = Len(feed) - 1
      /\ \A i \in 1..Len(Tail(feed)) : Tail(feed)[i] = feed[i + 1]
  BY <1>1, HeadTailProperties
<1>3. Len(feed) \in Nat \ {0} /\ Head(feed) = feed[1] /\ feed[1] \in S  BY <1>1
<1> QED  BY <1>1, <1>2, <1>3 DEF S

\* Steps that touch neither the channel nor the loop's hands nor the time.
LEMMA StillIInv ==
    ASSUME IInv, UNCHANGED <<feed, hand, now, fed>>, group' \in Settings \cup {NoGroup}
    PROVE  IInv'
BY DEF IInv, InOrder, InHand

LEMMA TickIInv ==
    ASSUME IInv, Tick
    PROVE  IInv'
<1>1. now < MaxNow /\ now' = now + 1 /\ UNCHANGED <<fed, feed, hand, group>>
  BY DEF Tick, C!Tick
<1>2. MaxNow \in Nat  BY BoundsAssumption
<1>3. now \in Nat /\ fed \in Nat /\ \A n \in 1..Len(feed) : feed[n].at \in Nat
  BY DEF IInv, InOrder
<1> QED  BY <1>1, <1>2, <1>3 DEF IInv, InOrder, InHand

LEMMA ReportIInv ==
    ASSUME IInv, NEW x \in Txs, NEW landed \in BOOLEAN, StreamReports(x, landed)
    PROVE  IInv'
<1> DEFINE t == Parse(x, landed, Wallets)
           r == [trade |-> t, at |-> now]
           S == [trade : Sendable, at : Nat]
<1>1. t # NoTrade /\ feed' = Append(feed, r) /\ UNCHANGED <<hand, group, now, fed>>
  BY DEF StreamReports, engine
<1>2. r \in S  BY <1>1 DEF Sendable, IInv, InOrder
<1>3. feed \in Seq(S) /\ now \in Nat /\ fed \in Nat /\ fed <= now  BY DEF IInv, InOrder
<1>4. r.at = now  OBVIOUS
<1> HIDE DEF r, S
<1>5. feed' \in Seq(S) /\ Len(feed') = Len(feed) + 1 /\ feed'[Len(feed) + 1] = r
      /\ \A n \in 1..Len(feed) : feed'[n] = feed[n]
  BY <1>1, <1>2, <1>3
<1>6. Len(feed) \in Nat  BY <1>3
<1>7. \A n \in 1..Len(feed) : fed <= feed[n].at /\ feed[n].at <= now /\ feed[n].at \in Nat
  BY DEF IInv, InOrder
<1>8. \A n \in 1..Len(feed') : n \in 1..Len(feed) \/ n = Len(feed) + 1
  BY <1>5, <1>6
<1>9. \A n \in 1..Len(feed') : feed'[n].at \in Nat /\ fed <= feed'[n].at /\ feed'[n].at <= now
  BY <1>3, <1>4, <1>5, <1>7, <1>8
<1>10. \A m, n \in 1..Len(feed') : m <= n => feed'[m].at <= feed'[n].at
  <2> SUFFICES ASSUME NEW m \in 1..Len(feed'), NEW n \in 1..Len(feed'), m <= n
               PROVE  feed'[m].at <= feed'[n].at
    OBVIOUS
  <2>1. CASE n = Len(feed) + 1  BY <1>3, <1>4, <1>5, <1>9, <2>1
  <2>2. CASE n \in 1..Len(feed)
    <3>1. m \in 1..Len(feed)  BY <1>6, <2>2
    <3> QED  BY <1>5, <2>2, <3>1 DEF IInv, InOrder
  <2> QED  BY <1>8, <2>1, <2>2
<1>11. hand # NoReport => \A n \in 1..Len(feed') : hand.at <= feed'[n].at
  BY <1>4, <1>5, <1>8 DEF IInv, InOrder
<1> QED  BY <1>1, <1>5, <1>9, <1>10, <1>11 DEF IInv, InOrder, InHand, S

\* The loop takes a report in hand, or drops it.
LEMMA TakeIInv ==
    ASSUME IInv, Drop \/ Take
    PROVE  IInv'
<1>1. feed # <<>> /\ feed' = Tail(feed) /\ UNCHANGED <<group, now, fed>> /\ hand = NoReport
  BY DEF Drop, Take, engine
<1> DEFINE r == feed[1]
<1>2. /\ feed' \in Seq([trade : Sendable, at : Nat])
      /\ \A n \in 1..Len(feed') : n + 1 \in 1..Len(feed) /\ feed'[n] = feed[n + 1]
      /\ Head(feed) = r /\ 1 \in 1..Len(feed) /\ r \in [trade : Sendable, at : Nat]
  BY <1>1, Rest DEF IInv
<1>3. \/ hand' = NoReport
      \/ /\ Usable(r.trade)
         /\ hand' = [trade |-> r.trade, at |-> r.at, group |-> group]
  BY <1>1, <1>2 DEF Drop, Take
<1>4. Usable(r.trade) => group \in Settings /\ r.trade.wallet \in group.wallets
  BY DEF IInv, InHand, Usable, Matches, NoGroup
<1>5. fed <= r.at /\ r.at <= now /\ \A n \in 1..Len(feed') : r.at <= feed'[n].at
  <2>1. \A n \in 1..Len(feed) : 1 <= n  OBVIOUS
  <2> QED  BY <1>2, <2>1 DEF IInv, InOrder
<1>6. InHand'  BY <1>1, <1>2, <1>3, <1>4 DEF IInv, InHand
<1>7. /\ \A n \in 1..Len(feed') : feed'[n].at \in Nat /\ fed <= feed'[n].at /\ feed'[n].at <= now
      /\ \A m, n \in 1..Len(feed') : m <= n => feed'[m].at <= feed'[n].at
  <2>1. \A n \in 1..Len(feed) : feed[n].at \in Nat /\ fed <= feed[n].at /\ feed[n].at <= now
    BY DEF IInv, InOrder
  <2>2. \A m, n \in 1..Len(feed) : m <= n => feed[m].at <= feed[n].at
    BY DEF IInv, InOrder
  <2>3. \A m, n \in 1..Len(feed') : m <= n => m + 1 <= n + 1  OBVIOUS
  <2>4. \A m, n \in 1..Len(feed') : m <= n => feed[m + 1].at <= feed[n + 1].at
    BY <1>2, <2>2, <2>3
  <2>5. \A n \in 1..Len(feed') : feed'[n] = feed[n + 1] /\ n + 1 \in 1..Len(feed)
    BY <1>2
  <2> QED  BY <2>1, <2>4, <2>5
<1>8. hand' # NoReport => hand'.at = r.at /\ r.at \in Nat  BY <1>2, <1>3
<1>9. InOrder'  BY <1>1, <1>2, <1>5, <1>7, <1>8 DEF IInv, InOrder
<1> QED  BY <1>6, <1>9 DEF IInv

-----------------------------------------------------------------------------
(* The loop acts                                                            *)

LEMMA VoteType ==
    ASSUME IInv, hand # NoReport
    PROVE  /\ Vote(hand) \in [wallet : Wallets, sig : Sigs, detected : fed..now,
                             kind : [instr : BOOLEAN, accounts : BOOLEAN, sol : BOOLEAN,
                                     pre : BOOLEAN, wrapper : BOOLEAN]]
           /\ Vote(hand).detected = hand.at /\ Vote(hand).wallet = hand.trade.wallet
           /\ hand.trade.wallet \in Wallets /\ hand.trade.sig \in Sigs
<1>1. Votable(hand.trade)  BY SendableVotable DEF IInv, InHand
<1>2. hand.at \in fed..now  BY DEF IInv, InOrder
<1>3. (hand.trade.accounts > 0) \in BOOLEAN /\ (hand.trade.lamports > 0) \in BOOLEAN
  OBVIOUS
<1>4. Vote(hand).kind \in [instr : BOOLEAN, accounts : BOOLEAN, sol : BOOLEAN,
                           pre : BOOLEAN, wrapper : BOOLEAN]
  BY <1>1, <1>3 DEF Votable, Vote
<1> QED  BY <1>1, <1>2, <1>4 DEF Votable, Vote

\* What acting on a report does to the engine.
LEMMA ActsOnEngine ==
    ASSUME IInv, ActExternal \/ ActPump
    PROVE  /\ hand # NoReport /\ hand' = NoReport /\ taken' = taken \cup {hand}
           /\ UNCHANGED <<feed, group, now, served>>
           /\ \/ UNCHANGED engine
              \/ C!Reject(hand.trade.wallet, hand.trade.sig)
              \/ /\ C!SubmitWith(Vote(hand), hand.group.quorum, hand.group.window)
                 /\ hand.group.quorum > 1 /\ fed' = hand.at
                 /\ Wants(hand.group, hand.trade) /\ ~hand.trade.failed
<1>1. CASE ActExternal
  BY <1>1 DEF ActExternal, Acted, engine
<1>2. CASE ActPump
  <2>1. hand # NoReport /\ Acted  BY <1>2 DEF ActPump
  <2>2. CASE UNCHANGED engine  BY <2>1, <2>2 DEF Acted, engine
  <2>3. CASE Wants(hand.group, hand.trade) /\ Enter(hand) /\ ~UNCHANGED engine
    <3>1. CASE hand.trade.failed
      <4>1. C!Reject(hand.trade.wallet, hand.trade.sig)  BY <2>3, <3>1 DEF Enter
      <4>2. UNCHANGED now  BY <4>1 DEF C!Reject
      <4> QED  BY <2>1, <4>1, <4>2 DEF Acted
    <3>2. CASE ~hand.trade.failed
      BY <2>1, <2>3, <3>2 DEF Enter, Acted
    <3> QED  BY <3>1, <3>2
  <2>4. UNCHANGED engine \/ (Wants(hand.group, hand.trade) /\ Enter(hand))
    BY <1>2 DEF ActPump
  <2> QED  BY <2>2, <2>3, <2>4
<1> QED  BY <1>1, <1>2

LEMMA ActIInv ==
    ASSUME IInv, ActExternal \/ ActPump
    PROVE  IInv'
<1>1. hand # NoReport /\ hand' = NoReport /\ UNCHANGED <<feed, group, now>>
      /\ fed' \in {fed, hand.at}
  BY ActsOnEngine DEF engine, C!Reject
<1> QED  BY <1>1 DEF IInv, InOrder, InHand

LEMMA NextIInv == IInv /\ [Next]_vars => IInv'
<1> SUFFICES ASSUME IInv, [Next]_vars PROVE IInv'
  OBVIOUS
<1>1. group \in Settings \cup {NoGroup}  BY DEF IInv, InHand
<1>2. CASE \E x \in Txs, landed \in BOOLEAN : StreamReports(x, landed)
  BY <1>2, ReportIInv
<1>3. CASE Operate  BY <1>1, <1>3, StillIInv DEF Operate, engine
<1>4. CASE Trades  BY <1>1, <1>4, StillIInv DEF Trades, engine
<1>5. CASE PrefetchExpires  BY <1>1, <1>5, StillIInv DEF PrefetchExpires, engine
<1>6. CASE \E sig \in Sigs : ForgetSignature(sig)
  BY <1>1, <1>6, StillIInv DEF ForgetSignature, engine
<1>7. CASE EngineCleanup  BY <1>1, <1>7, StillIInv DEF EngineCleanup, C!Cleanup
<1>8. CASE Tick  BY <1>8, TickIInv
<1>9. CASE Drop \/ Take  BY <1>9, TakeIInv
<1>10. CASE ActExternal \/ ActPump  BY <1>10, ActIInv
<1>11. CASE Serve  BY <1>1, <1>11, StillIInv DEF Serve, engine
<1>12. CASE UNCHANGED vars  BY <1>1, <1>12, StillIInv DEF vars, engine
<1> QED
  BY <1>2, <1>3, <1>4, <1>5, <1>6, <1>7, <1>8, <1>9, <1>10, <1>11, <1>12 DEF Next, Loop

LEMMA Invariance == Spec => []IInv
<1> QED  BY InitIInv, NextIInv, PTL DEF Spec

-----------------------------------------------------------------------------
(* The engine is driven as Consensus has it                                 *)

LEMMA EngineStep == IInv /\ [Next]_vars => [C!Next]_(C!vars)
<1> SUFFICES ASSUME IInv, [Next]_vars, ~UNCHANGED engine PROVE C!Next
  BY DEF C!vars, engine
<1>1. CASE \E x \in Txs, landed \in BOOLEAN : StreamReports(x, landed)
  BY <1>1 DEF StreamReports
<1>2. CASE Operate \/ Trades \/ PrefetchExpires \/ Drop \/ Take \/ Serve
  BY <1>2 DEF Operate, Trades, PrefetchExpires, Drop, Take, Serve
<1>3. CASE \E sig \in Sigs : ForgetSignature(sig)
  BY <1>3 DEF ForgetSignature
<1>4. CASE EngineCleanup  BY <1>4 DEF EngineCleanup, C!Next
<1>5. CASE Tick  BY <1>5 DEF Tick, C!Next
<1>6. CASE ActExternal \/ ActPump
  <2>1. hand # NoReport /\ UNCHANGED now  BY <1>6, ActsOnEngine
  <2>2. hand.group \in Settings /\ now <= MaxNow  BY <2>1 DEF IInv, InOrder, InHand
  <2>3. CASE C!Reject(hand.trade.wallet, hand.trade.sig)
    BY <2>1, <2>3, VoteType DEF C!Next
  <2>4. CASE /\ C!SubmitWith(Vote(hand), hand.group.quorum, hand.group.window)
             /\ hand.group.quorum > 1 /\ fed' = hand.at
    <3>1. hand.group.quorum \in {g.quorum : g \in Settings} \ {1}  BY <2>2, <2>4
    <3>2. hand.group.window \in {g.window : g \in Settings}  BY <2>2
    <3>3. fed' = Vote(hand).detected  BY <2>1, <2>4, VoteType
    <3>4. C!Submit  BY <2>1, <2>2, <2>4, <3>1, <3>2, <3>3, VoteType DEF C!Submit
    <3> QED  BY <3>4 DEF C!Next
  <2> QED  BY <1>6, <2>3, <2>4, ActsOnEngine
<1>7. CASE UNCHANGED vars  BY <1>7 DEF vars
<1> QED  BY <1>1, <1>2, <1>3, <1>4, <1>5, <1>6, <1>7 DEF Next, Loop

\* However reports, commands, clean-ups and triggers interleave, the trade loop takes
\* only steps of Consensus with its engine.
THEOREM DrivesEngine == Spec => EngineDriven
<1>1. Init => C!Init  BY DEF Init
<1>2. IInv /\ [Next]_vars => [C!Next]_(C!vars)  BY EngineStep
<1> QED  BY <1>1, <1>2, Invariance, PTL DEF Spec, EngineDriven, C!Spec

-----------------------------------------------------------------------------
(* What is proved of Consensus                                              *)

LEMMA SameCount ==
    \A S : C!Cardinality(S) = E!Cardinality(S) /\ C!Cardinality(S) = Cardinality(S)
BY DEF C!Cardinality, C!IsFiniteSet, E!Cardinality, E!IsFiniteSet, Cardinality, IsFiniteSet

LEMMA SameTally == \A S : C!Tally(S) = E!Tally(S)
<1>1. \A S : C!Counted(S) = E!Counted(S)  BY DEF C!Counted, E!Counted, C!Counts, E!Counts
<1> QED  BY <1>1, SameCount DEF C!Tally, E!Tally

LEMMA SameSubmit ==
    \A s, q, t : C!SubmitWith(s, q, t) => E!SubmitWith(s, q, t)
<1> SUFFICES ASSUME NEW s, NEW q, NEW t, C!SubmitWith(s, q, t)
             PROVE  E!SubmitWith(s, q, t)
  OBVIOUS
<1>1. C!Opened(q, t) = E!Opened(q, t)
  BY DEF C!Opened, E!Opened, C!NoEntry, E!NoEntry, C!AtLeastOne, E!AtLeastOne
<1>2. \A e : C!Unexpired(e) = E!Unexpired(e)
  BY DEF C!Unexpired, E!Unexpired, C!Expired, E!Expired
<1>3. \A c : C!Score(c) = E!Score(c)  BY DEF C!Score, E!Score, C!Bit, E!Bit
<1>4. \A c, d : C!Supersedes(c, d) <=> E!Supersedes(c, d)
  BY <1>3 DEF C!Supersedes, E!Supersedes
<1>5. \A k : C!Mine(s, k) = E!Mine(s, k)  BY DEF C!Mine, E!Mine
<1>6. \A e, k : C!Merged(s, e, k) = E!Merged(s, e, k)
  BY <1>4, <1>5 DEF C!Merged, E!Merged
<1>7. \A S : C!Counted(S) = E!Counted(S)  BY DEF C!Counted, E!Counted, C!Counts, E!Counts
<1> QED  BY <1>1, <1>2, <1>3, <1>6, <1>7, SameTally DEF C!SubmitWith, E!SubmitWith

LEMMA SameNext == [C!Next]_(C!vars) => [E!Next]_(E!vars)
<1>1. C!NoEntry = E!NoEntry  BY DEF C!NoEntry, E!NoEntry
<1>2. \A e : C!Unexpired(e) = E!Unexpired(e)
  BY DEF C!Unexpired, E!Unexpired, C!Expired, E!Expired
<1>3. C!Submit => E!Submit  BY SameSubmit DEF C!Submit, E!Submit
<1>4. \A w \in Wallets : C!Revoke(w) => E!Revoke(w)  BY <1>1 DEF C!Revoke, E!Revoke
<1>5. \A w \in Wallets, sig \in Sigs : C!Reject(w, sig) => E!Reject(w, sig)
  BY <1>1, SameTally DEF C!Reject, E!Reject
<1>6. C!Cleanup => E!Cleanup  BY <1>1, <1>2 DEF C!Cleanup, E!Cleanup
<1>7. C!Tick => E!Tick  BY DEF C!Tick, E!Tick
<1> QED  BY <1>3, <1>4, <1>5, <1>6, <1>7 DEF C!Next, E!Next, C!vars, E!vars

LEMMA EngineSettings ==
    E!WalletsAssumption /\ E!KindsAssumption /\ E!QuorumsAssumption /\ E!TimesAssumption
<1>1. E!IsFiniteSet(Wallets)
  BY WalletsAssumption DEF WalletsAssumption, E!IsFiniteSet, IsFiniteSet
<1>2. E!WalletsAssumption  BY <1>1 DEF E!WalletsAssumption
<1>3. E!KindsAssumption  BY DEF E!KindsAssumption, E!KindType
<1>4. E!QuorumsAssumption  BY SettingsAssumption DEF E!QuorumsAssumption, Setting
<1>5. E!TimesAssumption
  BY SettingsAssumption, BoundsAssumption DEF E!TimesAssumption, Setting
<1> QED  BY <1>2, <1>3, <1>4, <1>5

\* The engine's types, and the quorum behind each of its triggers.
LEMMA EngineHolds == Spec => [](E!TypeOK /\ E!TriggersBackedByQuorum)
<1>1. C!Init => E!Init  BY DEF C!Init, E!Init, C!NoEntry, E!NoEntry
<1>2. EngineDriven => E!Spec
  BY <1>1, SameNext, PTL DEF EngineDriven, C!Spec, E!Spec
<1>3. E!Spec => [](E!TypeOK /\ E!TriggersBackedByQuorum)
  BY EngineSettings, E!TypeCorrect, E!TriggersAreBacked, PTL
     DEF E!WalletsAssumption, E!KindsAssumption, E!QuorumsAssumption, E!TimesAssumption
<1> QED  BY <1>2, <1>3, DrivesEngine, PTL

-----------------------------------------------------------------------------
(* Every buy is backed                                                      *)

\* A report acted on shows the wallet trading as the group wants it.
Shown(past, w) ==
    \E r \in past : /\ r.trade.wallet = w /\ w \in r.group.wallets
                     /\ ~r.trade.failed /\ Wants(r.group, r.trade)

\* What the executor is handed.
BuyBacked(past, b) ==
    Cardinality(b.wallets) >= b.needed /\ \A w \in b.wallets : Shown(past, w)

\* The votes the engine holds, those it has sent and the buys are backed.
AllBacked ==
    /\ \A c \in entry.signals : Shown(taken, c.wallet)
    /\ \A n \in 1..Len(sent) : \A c \in sent[n].votes : Shown(taken, c.wallet)
    /\ \E S : buys \in Seq(S)
    /\ \A n \in 1..Len(buys) : BuyBacked(taken, buys[n])

Engine == E!TypeOK /\ E!TriggersBackedByQuorum

\* The history only grows.
LEMMA ShownStays == ASSUME taken \subseteq taken' PROVE \A w : Shown(taken, w) => Shown(taken', w)
BY DEF Shown, Wants

LEMMA SentIsSeq ==
    ASSUME E!TypeOK
    PROVE  /\ \E S : sent \in Seq(S)
           /\ served \in Nat /\ served < Len(sent) => served + 1 \in 1..Len(sent)
BY DEF E!TypeOK

\* A step that starts no buy and adds no vote.
LEMMA QuietBacked ==
    ASSUME AllBacked, taken \subseteq taken', UNCHANGED <<buys, sent>>,
           \A c \in entry'.signals : c \in entry.signals
    PROVE  AllBacked'
<1>1. \A w : Shown(taken, w) => Shown(taken', w)  BY ShownStays
<1>2. \A b : BuyBacked(taken, b) => BuyBacked(taken', b)  BY <1>1 DEF BuyBacked
<1> QED  BY <1>1, <1>2 DEF AllBacked

\* A step that starts one buy and leaves the engine alone.
LEMMA BuyStartsBacked ==
    ASSUME AllBacked, taken \subseteq taken', UNCHANGED <<entry, sent>>,
           NEW b, buys' = Append(buys, b), BuyBacked(taken', b)
    PROVE  AllBacked'
<1>1. \A w : Shown(taken, w) => Shown(taken', w)  BY ShownStays
<1>2. \A x : BuyBacked(taken, x) => BuyBacked(taken', x)  BY <1>1 DEF BuyBacked
<1>3. PICK S : buys \in Seq(S)  BY DEF AllBacked
<1> DEFINE T == S \cup {b}
<1>4. buys \in Seq(T)  BY <1>3
<1> HIDE DEF T
<1>5. b \in T  BY DEF T
<1>6. /\ buys' \in Seq(T) /\ Len(buys') = Len(buys) + 1 /\ buys'[Len(buys) + 1] = b
      /\ \A n \in 1..Len(buys) : buys'[n] = buys[n]
  BY <1>4, <1>5
<1>7. \A n \in 1..Len(buys') : n \in 1..Len(buys) \/ n = Len(buys) + 1
  BY <1>4, <1>6
<1>8. \A n \in 1..Len(buys') : BuyBacked(taken', buys'[n])
  BY <1>2, <1>6, <1>7 DEF AllBacked
<1> QED  BY <1>1, <1>6, <1>8 DEF AllBacked

\* The engine takes a vote that is backed.
LEMMA VoteBacked ==
    ASSUME AllBacked, Engine, taken \subseteq taken', UNCHANGED buys,
           NEW s, NEW q, NEW t, C!SubmitWith(s, q, t), Shown(taken', s.wallet)
    PROVE  AllBacked'
<1> DEFINE e     == C!Opened(q, t)
           votes == C!Merged(s, e, C!Unexpired(e))
           one   == [votes |-> C!Counted(votes), quorum |-> e.quorum, window |-> e.window]
<1>1. \A w : Shown(taken, w) => Shown(taken', w)  BY ShownStays
<1>2. \A c \in e.signals : c \in entry.signals
  BY DEF C!Opened, C!NoEntry
<1>3. \A c \in C!Unexpired(e) : c \in entry.signals
  BY <1>2 DEF C!Unexpired
<1>4. \A c \in votes : c \in entry.signals \/ c = s
  BY <1>3 DEF C!Merged, C!Mine
<1>5. \A c \in votes : Shown(taken', c.wallet)
  BY <1>1, <1>4 DEF AllBacked
<1>6. entry'.signals = votes
  BY DEF C!SubmitWith
<1>7. sent' = sent \/ \E x : x.votes = C!Counted(votes) /\ sent' = Append(sent, x)
  BY DEF C!SubmitWith
<1> HIDE DEF votes
<1>8. \A n \in 1..Len(sent') : \A c \in sent'[n].votes : Shown(taken', c.wallet)
  <2>1. CASE sent' = sent  BY <1>1, <2>1 DEF AllBacked
  <2>2. ASSUME NEW x, x.votes = C!Counted(votes), sent' = Append(sent, x)
        PROVE  \A n \in 1..Len(sent') : \A c \in sent'[n].votes : Shown(taken', c.wallet)
    <3>1. PICK S : sent \in Seq(S)  BY SentIsSeq DEF Engine
    <3> DEFINE T == S \cup {x}
    <3>2. sent \in Seq(T)  BY <3>1
    <3>3. x \in T  OBVIOUS
    <3> HIDE DEF T
    <3>4. /\ sent' \in Seq(T) /\ Len(sent') = Len(sent) + 1 /\ sent'[Len(sent) + 1] = x
          /\ \A n \in 1..Len(sent) : sent'[n] = sent[n]
      BY <2>2, <3>2, <3>3
    <3>5. \A n \in 1..Len(sent') : n \in 1..Len(sent) \/ n = Len(sent) + 1
      BY <3>2, <3>4
    <3>6. \A c \in x.votes : Shown(taken', c.wallet)
      BY <1>5, <2>2 DEF C!Counted
    <3> QED  BY <1>1, <3>4, <3>5, <3>6 DEF AllBacked
  <2> QED  BY <1>7, <2>1, <2>2
<1>9. \A b : BuyBacked(taken, b) => BuyBacked(taken', b)  BY <1>1 DEF BuyBacked
<1> QED  BY <1>5, <1>6, <1>8, <1>9 DEF AllBacked

\* Acting on a report, the history takes it up.
LEMMA InHandShown ==
    ASSUME IInv, hand # NoReport, taken' = taken \cup {hand},
           Wants(hand.group, hand.trade), ~hand.trade.failed
    PROVE  Shown(taken', hand.trade.wallet)
<1>1. hand.trade.wallet \in hand.group.wallets  BY DEF IInv, InHand
<1> QED  BY <1>1 DEF Shown, Wants

LEMMA OneIsEnough ==
    ASSUME NEW b, NEW w, b.wallets = {w}, b.needed = 1, Shown(taken', w)
    PROVE  BuyBacked(taken', b)
<1>1. Cardinality({w}) = 1  BY FS_Singleton
<1> QED  BY <1>1 DEF BuyBacked

LEMMA ActExternalBacked ==
    ASSUME IInv, AllBacked, ActExternal
    PROVE  AllBacked'
<1>1. hand # NoReport /\ taken' = taken \cup {hand} /\ UNCHANGED <<entry, sent>>
  BY DEF ActExternal, Acted, engine
<1>2. CASE UNCHANGED buys  BY <1>1, <1>2, QuietBacked
<1>3. CASE ~UNCHANGED buys
  <2>1. /\ ExternalEntry(hand.group, hand.trade)
        /\ Starts({hand.trade.wallet}, hand.group.quorum, TRUE, hand.trade.wrapper, FALSE)
    BY <1>3 DEF ActExternal
  <2>2. PICK b : buys' = Append(buys, b) /\ b.wallets = {hand.trade.wallet} /\ b.needed = 1
    BY <2>1 DEF Starts, ExternalEntry
  <2>3. Shown(taken', hand.trade.wallet)  BY <1>1, <2>1, InHandShown DEF ExternalEntry
  <2>4. BuyBacked(taken', b)  BY <2>2, <2>3, OneIsEnough
  <2> QED  BY <1>1, <2>2, <2>4, BuyStartsBacked
<1> QED  BY <1>2, <1>3

LEMMA ActPumpBacked ==
    ASSUME IInv, AllBacked, Engine, ActPump
    PROVE  AllBacked'
<1>1. hand # NoReport /\ taken' = taken \cup {hand}
  BY DEF ActPump, Acted
<1>2. CASE UNCHANGED <<engine, buys>>  BY <1>1, <1>2, QuietBacked DEF engine
<1>3. CASE Wants(hand.group, hand.trade) /\ Enter(hand)
  <2>1. ~hand.trade.failed => Shown(taken', hand.trade.wallet)  BY <1>1, <1>3, InHandShown
  <2>2. CASE UNCHANGED engine /\ ~hand.trade.failed
             /\ \E b : buys' = Append(buys, b) /\ b.wallets = {hand.trade.wallet} /\ b.needed = 1
    <3>1. PICK b : buys' = Append(buys, b) /\ b.wallets = {hand.trade.wallet} /\ b.needed = 1
      BY <2>2
    <3>2. BuyBacked(taken', b)  BY <2>1, <2>2, <3>1, OneIsEnough
    <3> QED  BY <1>1, <2>2, <3>1, <3>2, BuyStartsBacked DEF engine
  <2>3. CASE C!Reject(hand.trade.wallet, hand.trade.sig) /\ UNCHANGED buys
    BY <1>1, <2>3, QuietBacked DEF C!Reject
  <2>4. CASE /\ C!SubmitWith(Vote(hand), hand.group.quorum, hand.group.window)
             /\ ~hand.trade.failed /\ UNCHANGED buys
    <3>1. Vote(hand).wallet = hand.trade.wallet  BY DEF Vote
    <3>2. Shown(taken', Vote(hand).wallet)  BY <2>1, <2>4, <3>1
    <3> QED  BY <1>1, <2>4, <3>2, VoteBacked
  <2> QED  BY <1>2, <1>3, <2>2, <2>3, <2>4 DEF Enter, Starts
<1> QED  BY <1>2, <1>3 DEF ActPump

LEMMA ServeBacked ==
    ASSUME AllBacked, Engine, served \in Nat, Serve
    PROVE  AllBacked'
<1>1. UNCHANGED <<entry, sent, taken>>  BY DEF Serve, engine
<1>2. CASE UNCHANGED buys  BY <1>1, <1>2, QuietBacked
<1>3. CASE ~UNCHANGED buys
  <2> DEFINE trigger == sent[served + 1]
  <2> DEFINE backers == {c.wallet : c \in trigger.votes}
             best    == trigger.canonical
  <2>0. Starts(backers, trigger.quorum, FALSE, best.kind.wrapper, best.kind.instr)
    BY <1>3 DEF Serve
  <2> HIDE DEF backers
  <2>1. PICK b : buys' = Append(buys, b) /\ b.needed = trigger.quorum /\ b.wallets = backers
    BY <2>0 DEF Starts
  <2> USE DEF backers
  <2>2. served + 1 \in 1..Len(sent)  BY SentIsSeq DEF Serve, Engine
  <2>3. Cardinality(b.wallets) >= b.needed
    BY <2>1, <2>2, SameCount DEF Engine, E!TriggersBackedByQuorum
  <2>4. \A w \in b.wallets : Shown(taken, w)  BY <2>1, <2>2 DEF AllBacked
  <2>5. \A w : Shown(taken, w) => Shown(taken', w)  BY <1>1, ShownStays
  <2>6. BuyBacked(taken', b)  BY <2>3, <2>4, <2>5 DEF BuyBacked
  <2> QED  BY <1>1, <2>1, <2>6, BuyStartsBacked
<1> QED  BY <1>2, <1>3

\* The loop and the trigger task start only buys enough wallets stand behind.
THEOREM BuysBacked == Spec => []BuysAreBacked
<1>1. Init => AllBacked /\ served \in Nat
  <2> SUFFICES ASSUME Init PROVE AllBacked /\ served \in Nat
    OBVIOUS
  <2>1. buys = <<>> /\ sent = <<>> /\ entry.signals = {} /\ served = 0
    BY DEF Init, C!Init, C!NoEntry
  <2>2. buys \in Seq({})  BY <2>1
  <2> QED  BY <2>1, <2>2 DEF AllBacked
<1>2. AllBacked /\ served \in Nat /\ IInv /\ Engine /\ [Next]_vars
        => (AllBacked /\ served \in Nat)'
  <2> SUFFICES ASSUME AllBacked, served \in Nat, IInv, Engine, [Next]_vars
               PROVE  (AllBacked /\ served \in Nat)'
    OBVIOUS
  <2> USE QuietBacked
  <2>1. CASE \E x \in Txs, landed \in BOOLEAN : StreamReports(x, landed)
    BY <2>1 DEF StreamReports, engine
  <2>2. CASE Operate  BY <2>2 DEF Operate, engine
  <2>3. CASE Trades  BY <2>3 DEF Trades, engine
  <2>4. CASE PrefetchExpires  BY <2>4 DEF PrefetchExpires, engine
  <2>5. CASE \E sig \in Sigs : ForgetSignature(sig)  BY <2>5 DEF ForgetSignature, engine
  <2>6. CASE EngineCleanup
    BY <2>6 DEF EngineCleanup, C!Cleanup, C!Unexpired, C!NoEntry
  <2>7. CASE Tick  BY <2>7 DEF Tick, C!Tick
  <2>8. CASE Drop  BY <2>8 DEF Drop, engine
  <2>9. CASE Take  BY <2>9 DEF Take, engine
  <2>10. CASE ActExternal  BY <2>10, ActExternalBacked DEF ActExternal, Acted
  <2>11. CASE ActPump  BY <2>11, ActPumpBacked DEF ActPump, Acted
  <2>12. CASE Serve
    <3>1. AllBacked'  BY <2>12, ServeBacked
    <3>2. served' = served + 1  BY <2>12 DEF Serve
    <3> QED  BY <3>1, <3>2
  <2>13. CASE UNCHANGED vars  BY <2>13 DEF vars, engine
  <2> QED
    BY <2>1, <2>2, <2>3, <2>4, <2>5, <2>6, <2>7, <2>8, <2>9, <2>10, <2>11, <2>12, <2>13
       DEF Next, Loop
<1>3. AllBacked => BuysAreBacked
  <2> SUFFICES ASSUME AllBacked PROVE BuysAreBacked
    OBVIOUS
  <2>1. PICK S : buys \in Seq(S)  BY DEF AllBacked
  <2>2. DOMAIN buys = 1..Len(buys)  BY <2>1
  <2> QED  BY <2>2 DEF AllBacked, BuyBacked, Shown, BuysAreBacked
<1>4. Spec => []Engine  BY EngineHolds, PTL DEF Engine
<1> QED  BY <1>1, <1>2, <1>3, <1>4, Invariance, PTL DEF Spec

-----------------------------------------------------------------------------
(* One transaction, two reports                                             *)

\* The wallet parse_transaction goes by.
Signer(t, landed) == FirstOf(Keys(t, landed), Followed(t, landed, Wallets))

\* A report is the guess of a wrapped call, before execution, or comes from a call
\* of the transaction.
LEMMA ParsedFrom ==
    ASSUME NEW t \in Tx, NEW landed \in BOOLEAN, Parse(t, landed, Wallets) # NoTrade
    PROVE  /\ Followed(t, landed, Wallets) # {}
           /\ \/ ~landed /\ Parse(t, landed, Wallets) = Wrapped(t, Signer(t, landed))
              \/ \E list \in {t.outer, t.inner} : \E n \in DOMAIN list :
                    Parse(t, landed, Wallets) = Found(t, Signer(t, landed), list[n], landed)
<1> DEFINE wallet == Signer(t, landed)
           by(list, scope) == Found(t, wallet, FirstOf(list, Calls(list, scope)), landed)
<1>1. Followed(t, landed, Wallets) # {}  BY DEF Parse
<1>2. Parse(t, landed, Wallets) = Rounds(t, wallet, landed)  BY <1>1 DEF Parse, Signer
<1>3. ASSUME NEW list \in {t.outer, t.inner}, NEW scope, Calls(list, scope) # {}
      PROVE  \E n \in DOMAIN list : by(list, scope) = Found(t, wallet, list[n], landed)
  <2> DEFINE places == Calls(list, scope)
             n      == CHOOSE m \in places : \A p \in places : m <= p
  <2>1. list \in Seq(Ix) /\ places \in SUBSET DOMAIN list  BY DEF Calls, Tx
  <2>2. places \in SUBSET Nat  BY <2>1
  <2>3. n \in places  BY <1>3, <2>2, LeastPlace
  <2> QED  BY <2>1, <2>3 DEF FirstOf
<1>4. \/ Rounds(t, wallet, landed) = NoTrade
      \/ ~landed /\ Rounds(t, wallet, landed) = Wrapped(t, wallet)
      \/ \E list \in {t.outer, t.inner}, scope \in {Internal, External} :
            Calls(list, scope) # {} /\ Rounds(t, wallet, landed) = by(list, scope)
  <2> HIDE DEF wallet
  <2>1. CASE landed  BY <2>1 DEF Rounds
  <2>2. CASE ~landed  BY <2>2 DEF Rounds
  <2> QED  BY <2>1, <2>2
<1> HIDE DEF by, wallet
<1> QED  BY <1>1, <1>2, <1>3, <1>4 DEF wallet

\* What a report says of where it comes from.
LEMMA ParsedSays ==
    ASSUME NEW t \in Tx, NEW landed \in BOOLEAN, Parse(t, landed, Wallets) # NoTrade
    PROVE  /\ Parse(t, landed, Wallets).sig = t.sig
           /\ Parse(t, landed, Wallets).wallet = Signer(t, landed)
           /\ Parse(t, landed, Wallets).pre <=> ~landed
           /\ Parse(t, landed, Wallets).failed <=> landed /\ t.fails
<1> DEFINE p == Parse(t, landed, Wallets)
           w == Signer(t, landed)
<1>1. CASE ~landed /\ p = Wrapped(t, w)  BY <1>1 DEF Wrapped
<1>2. ASSUME NEW ix, p = Found(t, w, ix, landed)
      PROVE  /\ p.sig = t.sig /\ p.wallet = w
             /\ p.pre <=> ~landed
             /\ p.failed <=> landed /\ t.fails
  <2> DEFINE d == Direct(t, w, ix, landed)
  <2>1. d.sig = t.sig /\ d.wallet = w /\ d.pre = ~landed /\ d.failed = (landed /\ t.fails)
    BY DEF Direct
  <2>2. /\ Enriched(d, t).sig = d.sig /\ Enriched(d, t).wallet = d.wallet
        /\ Enriched(d, t).pre = d.pre /\ Enriched(d, t).failed = d.failed
    BY DEF Enriched, Direct
  <2>3. p \in {d, Enriched(d, t)}  BY <1>2 DEF Found
  <2> HIDE DEF d, p, w
  <2>4. CASE p = d  BY <2>1, <2>4
  <2>5. CASE p = Enriched(d, t)  BY <2>1, <2>2, <2>5
  <2> QED  BY <2>3, <2>4, <2>5
<1> QED  BY <1>1, <1>2, ParsedFrom

\* A landed report of a pump.fun trade that succeeded names its accounts.
LEMMA LandedNamesAccounts ==
    ASSUME NEW t \in Tx, Plausible(t), Parse(t, TRUE, Wallets) # NoTrade,
           Parse(t, TRUE, Wallets).venue = "pump", ~Parse(t, TRUE, Wallets).failed
    PROVE  Parse(t, TRUE, Wallets).accounts > 0
<1> DEFINE p == Parse(t, TRUE, Wallets)
           w == Signer(t, TRUE)
<1>1. PICK list \in {t.outer, t.inner} :
          \E m \in DOMAIN list : p = Found(t, w, list[m], TRUE)
  BY ParsedFrom
<1>0. PICK n \in DOMAIN list : p = Found(t, w, list[n], TRUE)
  BY <1>1
<1> DEFINE d == Direct(t, w, list[n], TRUE)
<1>2. d.venue = list[n].venue /\ d.accounts = list[n].slots  BY DEF Direct, Accounts
<1>3. Enriched(d, t).venue = d.venue /\ Enriched(d, t).accounts = d.accounts
  BY DEF Enriched, Direct
<1>4. p = Enriched(d, t)  BY <1>0 DEF Found
<1>5. ~t.fails  BY ParsedSays
<1> HIDE DEF d, p, w
<1>6. list[n].venue = "pump"  BY <1>2, <1>3, <1>4 DEF p
<1>7. list[n].slots > 0  BY <1>5, <1>6 DEF Plausible
<1> QED  BY <1>2, <1>3, <1>4, <1>7 DEF p

\* Of the same transaction both reports name the same wallet.
LEMMA SameSigner ==
    ASSUME NEW t \in Tx, Followed(t, FALSE, Wallets) # {}
    PROVE  Signer(t, TRUE) = Signer(t, FALSE)
<1> DEFINE early == Followed(t, FALSE, Wallets)
           all   == Followed(t, TRUE, Wallets)
           n     == CHOOSE m \in early : \A p \in early : m <= p
           k     == CHOOSE m \in all : \A p \in all : m <= p
           len   == Len(t.wallets)
           both  == t.wallets \o t.late
<1>1. t.wallets \in Seq(Wallets) /\ t.late \in Seq(Wallets)  BY DEF Tx
<1>2. /\ len \in Nat /\ DOMAIN t.wallets = 1..len /\ DOMAIN t.wallets \subseteq DOMAIN both
      /\ DOMAIN both \subseteq Nat
      /\ \A m \in DOMAIN t.wallets : both[m] = t.wallets[m]
      /\ \A m \in DOMAIN both : m <= len => m \in DOMAIN t.wallets
  <2>1. /\ both \in Seq(Wallets) /\ Len(both) = len + Len(t.late)
        /\ \A m \in 1..(len + Len(t.late)) : m <= len => both[m] = t.wallets[m]
    BY <1>1, ConcatProperties
  <2>2. len \in Nat /\ Len(t.late) \in Nat /\ DOMAIN t.wallets = 1..len  BY <1>1
  <2> HIDE DEF both, len
  <2>3. DOMAIN both = 1..(len + Len(t.late))  BY <2>1
  <2> QED  BY <2>1, <2>2, <2>3
<1>3. /\ early = {m \in DOMAIN t.wallets : t.wallets[m] \in Wallets}
      /\ all = {m \in DOMAIN both : both[m] \in Wallets}
  BY DEF Followed, Keys
<1> HIDE DEF early, all, both, len
<1>4. /\ early \subseteq all /\ early \subseteq Nat /\ all \subseteq Nat
      /\ \A m \in all : m <= len => m \in early
      /\ \A m \in early : m <= len
  BY <1>2, <1>3
<1>5. n \in early /\ \A p \in early : n <= p
  <2>1. early \in SUBSET Nat /\ early # {}  BY <1>4 DEF early
  <2> QED  BY <2>1, LeastPlace
<1>6. k \in all /\ \A p \in all : k <= p
  <2>1. all \in SUBSET Nat /\ all # {}  BY <1>4, <1>5
  <2> QED  BY <2>1, LeastPlace
<1>7. Signer(t, FALSE) = t.wallets[n] /\ Signer(t, TRUE) = both[k]
  BY DEF Signer, FirstOf, Keys, early, all, both
<1> HIDE DEF n, k
<1>8. \A p \in all : n <= p  BY <1>2, <1>4, <1>5
<1>9. k = n  BY <1>4, <1>5, <1>6, <1>8
<1>10. n \in DOMAIN t.wallets  BY <1>3, <1>5
<1> QED  BY <1>2, <1>7, <1>9, <1>10

-----------------------------------------------------------------------------
(* A landed sale is followed                                                *)

LEMMA SaleIsSent ==
    ASSUME IInv, [Next]_vars, hand # NoReport, hand' = NoReport,
           hand.trade.venue = "pump", ~hand.trade.pre, FollowsSale(hand.group, hand.trade)
    PROVE  sells' = sells + 1
<1>1. ActPump
  BY DEF Next, Loop, vars, StreamReports, Operate, Trades, PrefetchExpires, ForgetSignature,
         EngineCleanup, Tick, Drop, Take, ActExternal, Serve
<1>2. PICK x \in Txs, landed \in BOOLEAN :
          hand.trade = Parse(x, landed, Wallets) /\ Parse(x, landed, Wallets) # NoTrade
  BY DEF IInv, InHand, Sendable
<1>3. x \in Tx /\ Plausible(x)  BY TxsAssumption
<1>4. landed  BY <1>2, <1>3, ParsedSays
<1>5. hand.trade.accounts > 0
  <2>1. ~hand.trade.failed  BY DEF FollowsSale
  <2> QED  BY <1>2, <1>3, <1>4, <2>1, LandedNamesAccounts
<1>6. ~Cold(hand.group, hand.trade)  BY <1>5 DEF Cold, Mirrored
<1> QED  BY <1>1, <1>6 DEF ActPump, Signal

\* Whatever came before it, the report of a landed sale sends the signal.
THEOREM SalesAreFollowed == Spec => FollowSellsSent
<1>1. IInv /\ [Next]_vars
        => [hand # NoReport /\ hand' = NoReport /\ hand.trade.venue = "pump"
              /\ ~hand.trade.pre /\ FollowsSale(hand.group, hand.trade)
              => sells' = sells + 1]_vars
  BY SaleIsSent
<1> QED  BY <1>1, Invariance, PTL DEF Spec, FollowSellsSent

-----------------------------------------------------------------------------
(* What was handled is remembered, and a failed trade has no vote           *)

\* What the loop has taken up: the reports acted on and the one in hand.
Handled == taken \cup {r \in {hand} : hand # NoReport}

\* A report that was handled blocks later ones of its transaction, a landed report
\* all of them, until the cache forgets it.
Remembered ==
    /\ seen \in [Sigs -> [pre : BOOLEAN, landed : BOOLEAN]]
    /\ \A r \in taken : r.trade \in Sendable
    /\ \A r \in Handled : r.trade.sig \notin old =>
          IF r.trade.pre THEN seen[r.trade.sig].pre ELSE seen[r.trade.sig].landed
    /\ hand # NoReport =>
          \A r \in taken : ~r.trade.pre /\ r.trade.sig = hand.trade.sig => r.trade.sig \in old

\* Every vote is that of a report of a trade not known to have failed.
VotesReported ==
    \A c \in entry.signals :
        \E t \in Sendable : c.sig = t.sig /\ c.wallet = t.wallet /\ ~t.failed

\* Until the operator changes the group, its reports are of one setting, and nobody
\* votes for a group that asks for one wallet.
OneSetting ==
    /\ edits \in Nat
    /\ edits = 0 => /\ \A r \in Handled : r.group = group
                    /\ group \in Settings
                    /\ group.quorum = 1 => entry.signals = {}

Unvoted == Remembered /\ VotesReported /\ OneSetting /\ FailedTradesHaveNoVote

LEMMA InitUnvoted == Init => Unvoted
<1> SUFFICES ASSUME Init PROVE Unvoted
  OBVIOUS
<1>1. entry.signals = {} /\ taken = {} /\ hand = NoReport /\ edits = 0 /\ group \in Settings
      /\ seen = [sig \in Sigs |-> NotSeen]
  BY DEF Init, C!Init, C!NoEntry
<1> QED
  BY <1>1 DEF Unvoted, Remembered, VotesReported, OneSetting, FailedTradesHaveNoVote,
              Handled, NotSeen

\* Steps away from the loop.
LEMMA StillUnvoted ==
    ASSUME Unvoted, UNCHANGED <<hand, taken, old, seen, edits, group>>,
           \A c \in entry'.signals : c \in entry.signals
    PROVE  Unvoted'
<1>1. Handled' = Handled  BY DEF Handled
<1>2. Remembered'  BY <1>1 DEF Unvoted, Remembered, Sendable
<1>3. VotesReported'  BY DEF Unvoted, VotesReported, Sendable
<1>4. OneSetting'  BY <1>1 DEF Unvoted, OneSetting
<1>5. FailedTradesHaveNoVote'
  BY DEF Unvoted, FailedTradesHaveNoVote, Disowns, Wants, TooSmall
<1> QED  BY <1>2, <1>3, <1>4, <1>5 DEF Unvoted

LEMMA OperateUnvoted ==
    ASSUME Unvoted, Operate
    PROVE  Unvoted'
<1>1. edits' = edits + 1 /\ edits \in Nat /\ UNCHANGED <<hand, taken, old, seen, entry>>
  BY DEF Operate, caches, engine, Unvoted, OneSetting
<1>2. edits' \in Nat /\ edits' # 0  BY <1>1
<1>3. Handled' = Handled  BY <1>1 DEF Handled
<1> QED
  BY <1>1, <1>2, <1>3 DEF Unvoted, Remembered, Sendable, VotesReported, OneSetting,
                          FailedTradesHaveNoVote, Disowns

LEMMA ForgetUnvoted ==
    ASSUME Unvoted, NEW sig \in Sigs, ForgetSignature(sig)
    PROVE  Unvoted'
<1>1. /\ UNCHANGED <<hand, taken, entry, edits, group>> /\ old' = old \cup {sig}
      /\ seen' = [seen EXCEPT ![sig] = NotSeen]
  BY DEF ForgetSignature, engine
<1>2. Handled' = Handled  BY <1>1 DEF Handled
<1>3. \A s : s \notin old' => s \notin old /\ s # sig  BY <1>1
<1>4. Remembered'
  BY <1>1, <1>2, <1>3 DEF Unvoted, Remembered, Sendable, NotSeen
<1>5. VotesReported'  BY <1>1 DEF Unvoted, VotesReported, Sendable
<1>6. OneSetting'  BY <1>1, <1>2 DEF Unvoted, OneSetting
<1>7. FailedTradesHaveNoVote'
  BY <1>1, <1>3 DEF Unvoted, FailedTradesHaveNoVote, Disowns, Wants, TooSmall
<1> QED  BY <1>4, <1>5, <1>6, <1>7 DEF Unvoted

\* Taking a report: one whose transaction was handled after it landed is skipped.
LEMMA TakeUnvoted ==
    ASSUME IInv, Unvoted, Take
    PROVE  Unvoted'
<1> DEFINE t == Head(feed).trade
<1>1. t \in Sendable /\ t.sig \in Sigs /\ t.pre \in BOOLEAN
  <2>1. Head(feed) \in [trade : Sendable, at : Nat]  BY Rest DEF Take, IInv
  <2>2. t \in Sendable  BY <2>1
  <2> QED  BY <2>2, SendableVotable DEF Votable
<1>2. /\ hand = NoReport /\ ~Skipped(t) /\ seen' = Marked(t)
      /\ UNCHANGED <<taken, old, edits, group, entry>>
      /\ \/ hand' = NoReport
         \/ /\ hand' = [trade |-> t, at |-> Head(feed).at, group |-> group]
            /\ Usable(t)
  BY DEF Take, engine, bounds
<1> HIDE DEF t
<1>3. /\ seen' \in [Sigs -> [pre : BOOLEAN, landed : BOOLEAN]]
      /\ \A s \in Sigs : /\ seen[s].landed => seen'[s].landed
                         /\ seen[s].pre => seen'[s].pre
      /\ IF t.pre THEN seen'[t.sig].pre ELSE seen'[t.sig].landed
  BY <1>1, <1>2 DEF Marked, Unvoted, Remembered
<1>4. \A r \in taken : r.trade \in Sendable /\ r.trade.sig \in Sigs
  BY SendableVotable DEF Votable, Unvoted, Remembered
<1>5. \A r \in taken : ~r.trade.pre /\ r.trade.sig = t.sig => r.trade.sig \in old
  BY <1>2 DEF Skipped, Unvoted, Remembered, Handled
<1>6. \A r \in Handled' :
          r \in taken \/ (hand' # NoReport /\ r = hand' /\ r.trade = t /\ r.group = group)
  BY <1>2 DEF Handled
<1>7. Remembered'
  <2>1. \A r \in Handled' : r.trade.sig \notin old' =>
            IF r.trade.pre THEN seen'[r.trade.sig].pre ELSE seen'[r.trade.sig].landed
    BY <1>2, <1>3, <1>4, <1>6 DEF Unvoted, Remembered, Handled
  <2>2. hand' # NoReport => hand'.trade = t  BY <1>2
  <2> QED  BY <1>2, <1>3, <1>4, <1>5, <2>1, <2>2 DEF Remembered, Sendable
<1>8. VotesReported'  BY <1>2 DEF Unvoted, VotesReported, Sendable
<1>9. OneSetting'  BY <1>2, <1>6 DEF Unvoted, OneSetting, Handled
<1>10. FailedTradesHaveNoVote'
  BY <1>2 DEF Unvoted, FailedTradesHaveNoVote, Disowns, Wants, TooSmall
<1> QED  BY <1>7, <1>8, <1>9, <1>10 DEF Unvoted

\* The votes left when the loop has acted on the report in hand.
LEMMA ActVotes ==
    ASSUME IInv, ActExternal \/ ActPump
    PROVE  \A c \in entry'.signals :
               \/ c \in entry.signals
               \/ /\ c.sig = hand.trade.sig /\ c.wallet = hand.trade.wallet
                  /\ ~hand.trade.failed /\ hand.group.quorum > 1
<1>1. CASE UNCHANGED engine  BY <1>1 DEF engine
<1>2. CASE C!Reject(hand.trade.wallet, hand.trade.sig)  BY <1>2 DEF C!Reject
<1>3. CASE /\ C!SubmitWith(Vote(hand), hand.group.quorum, hand.group.window)
           /\ hand.group.quorum > 1 /\ ~hand.trade.failed
  <2> DEFINE s     == Vote(hand)
             e     == C!Opened(hand.group.quorum, hand.group.window)
             votes == C!Merged(s, e, C!Unexpired(e))
  <2>1. \A c \in C!Unexpired(e) : c \in entry.signals
    BY DEF C!Opened, C!NoEntry, C!Unexpired
  <2>2. \A c \in votes : c \in entry.signals \/ c = s
    BY <2>1 DEF C!Merged, C!Mine
  <2>3. entry'.signals = votes  BY <1>3 DEF C!SubmitWith
  <2>4. s.sig = hand.trade.sig /\ s.wallet = hand.trade.wallet  BY DEF Vote
  <2> QED  BY <1>3, <2>2, <2>3, <2>4
<1> QED  BY <1>1, <1>2, <1>3, ActsOnEngine

\* Reports of one transaction name one wallet, and only an early one can be without
\* the failure.
LEMMA FailureIsKnown ==
    ASSUME NEW t \in Sendable, NEW u \in Sendable, t.sig = u.sig, t.failed
    PROVE  ~t.pre /\ (u.failed \/ u.wallet = t.wallet)
<1>1. PICK x \in Txs, late \in BOOLEAN :
          t = Parse(x, late, Wallets) /\ Parse(x, late, Wallets) # NoTrade
  BY DEF Sendable
<1>2. PICK y \in Txs, landed \in BOOLEAN :
          u = Parse(y, landed, Wallets) /\ Parse(y, landed, Wallets) # NoTrade
  BY DEF Sendable
<1>3. x \in Tx /\ y \in Tx  BY TxsAssumption
<1>4. x = y  BY <1>1, <1>2, <1>3, ParsedSays, SignaturesAssumption
<1>5. late /\ x.fails /\ ~t.pre  BY <1>1, <1>3, ParsedSays
<1>6. CASE landed  BY <1>2, <1>3, <1>4, <1>5, <1>6, ParsedSays
<1>7. CASE ~landed
  <2>1. Followed(x, FALSE, Wallets) # {}  BY <1>2, <1>3, <1>4, <1>7, ParsedFrom
  <2>2. Signer(x, TRUE) = Signer(x, FALSE)  BY <1>3, <2>1, SameSigner
  <2> QED  BY <1>1, <1>2, <1>3, <1>4, <1>5, <1>7, <2>2, ParsedSays
<1> QED  BY <1>5, <1>6, <1>7

\* A failed report takes back its wallet's vote, if there can be one.
LEMMA FailedTakesBack ==
    ASSUME IInv, Engine, Unvoted, ActPump, Disowns(hand)
    PROVE  \A c \in entry'.signals : c.sig # hand.trade.sig
<1>0. edits = 0 /\ hand.trade.failed  BY DEF Disowns
<1>1. hand # NoReport /\ hand.trade \in Sendable  BY DEF ActPump, IInv, InHand
<1>2. ~Cold(hand.group, hand.trade)  BY DEF Disowns, Cold, Mirrored
<1>3. Enter(hand)  BY <1>2 DEF ActPump, Disowns
<1>4. CASE hand.group.quorum = 1
  <2>1. entry.signals = {}  BY <1>0, <1>1, <1>4 DEF Unvoted, OneSetting, Handled
  <2>2. UNCHANGED engine  BY <1>3, <1>4 DEF Enter
  <2> QED  BY <2>1, <2>2 DEF engine
<1>5. CASE hand.group.quorum # 1
  <2>1. IF entry = C!NoEntry THEN UNCHANGED engine
        ELSE C!Reject(hand.trade.wallet, hand.trade.sig)
    BY <1>0, <1>3, <1>5 DEF Enter
  <2>2. CASE entry = C!NoEntry  BY <2>1, <2>2 DEF engine, C!NoEntry
  <2>3. CASE entry # C!NoEntry
    <3>1. \A c \in entry'.signals :
              c \in entry.signals /\ ~(c.wallet = hand.trade.wallet /\ c.sig = hand.trade.sig)
      <4>1. entry \in E!Entry  BY DEF Engine, E!TypeOK
      <4> QED  BY <2>1, <2>3, <4>1 DEF C!Reject, E!Entry
    <3>2. \A c \in entry.signals : c.sig = hand.trade.sig => c.wallet = hand.trade.wallet
      BY <1>0, <1>1, FailureIsKnown DEF Unvoted, VotesReported
    <3> QED  BY <3>1, <3>2
  <2> QED  BY <2>2, <2>3
<1> QED  BY <1>4, <1>5

LEMMA ActUnvoted ==
    ASSUME IInv, Engine, Unvoted, ActExternal \/ ActPump
    PROVE  Unvoted'
<1>1. /\ hand # NoReport /\ hand' = NoReport /\ taken' = taken \cup {hand}
      /\ UNCHANGED <<seen, old, edits, group>>
  BY DEF ActExternal, ActPump, Acted, bounds
<1>2. Handled' = Handled  BY <1>1 DEF Handled
<1>3. hand.trade \in Sendable  BY <1>1 DEF IInv, InHand
<1>4. Remembered'  BY <1>1, <1>2, <1>3 DEF Unvoted, Remembered, Sendable
<1>5. VotesReported'
  <2>1. \A c \in entry'.signals :
            \E t \in Sendable : c.sig = t.sig /\ c.wallet = t.wallet /\ ~t.failed
    BY <1>3, ActVotes DEF Unvoted, VotesReported
  <2> QED  BY <2>1 DEF VotesReported, Sendable
<1>6. OneSetting'
  <2>1. edits = 0 => hand.group = group  BY <1>1 DEF Unvoted, OneSetting, Handled
  <2>2. edits = 0 /\ group.quorum = 1 => entry'.signals = {}
    BY <2>1, ActVotes DEF Unvoted, OneSetting
  <2> QED  BY <1>1, <1>2, <2>2 DEF Unvoted, OneSetting
<1>7. FailedTradesHaveNoVote'
  <2> SUFFICES ASSUME NEW r \in taken', Disowns(r),
                      NEW c \in entry'.signals, c.sig = r.trade.sig
               PROVE  FALSE
    BY <1>1 DEF FailedTradesHaveNoVote, Disowns, Wants, TooSmall
  <2>1. CASE r \in taken
    <3>1. c \notin entry.signals  BY <2>1 DEF Unvoted, FailedTradesHaveNoVote
    <3>2. c.sig = hand.trade.sig  BY <3>1, ActVotes
    <3>3. ~r.trade.pre  BY <2>1, FailureIsKnown DEF Unvoted, Remembered, Disowns
    <3> QED  BY <1>1, <2>1, <3>2, <3>3 DEF Unvoted, Remembered, Disowns
  <2>2. CASE r = hand
    <3>1. ActPump  BY <2>2 DEF ActExternal, Disowns
    <3> QED  BY <2>2, <3>1, FailedTakesBack
  <2> QED  BY <1>1, <2>1, <2>2
<1> QED  BY <1>4, <1>5, <1>6, <1>7 DEF Unvoted

LEMMA NextUnvoted == IInv /\ Engine /\ Unvoted /\ [Next]_vars => Unvoted'
<1> SUFFICES ASSUME IInv, Engine, Unvoted, [Next]_vars PROVE Unvoted'
  OBVIOUS
<1> USE StillUnvoted
<1>1. CASE \E x \in Txs, landed \in BOOLEAN : StreamReports(x, landed)
  BY <1>1 DEF StreamReports, engine, caches
<1>2. CASE Operate  BY <1>2, OperateUnvoted
<1>3. CASE Trades  BY <1>3 DEF Trades, engine
<1>4. CASE PrefetchExpires  BY <1>4 DEF PrefetchExpires, engine
<1>5. CASE \E sig \in Sigs : ForgetSignature(sig)  BY <1>5, ForgetUnvoted
<1>6. CASE EngineCleanup
  BY <1>6 DEF EngineCleanup, C!Cleanup, C!Unexpired, C!NoEntry, bounds, caches
<1>7. CASE Tick  BY <1>7 DEF Tick, C!Tick, bounds, caches
<1>8. CASE Drop  BY <1>8 DEF Drop, engine, bounds, caches
<1>9. CASE Take  BY <1>9, TakeUnvoted
<1>10. CASE ActExternal \/ ActPump  BY <1>10, ActUnvoted
<1>11. CASE Serve  BY <1>11 DEF Serve, engine, bounds
<1>12. CASE UNCHANGED vars  BY <1>12 DEF vars, engine, bounds, caches
<1> QED
  BY <1>1, <1>2, <1>3, <1>4, <1>5, <1>6, <1>7, <1>8, <1>9, <1>10, <1>11, <1>12
     DEF Next, Loop

LEMMA Unvotedness == Spec => []Unvoted
<1>1. Spec => []Engine  BY EngineHolds, PTL DEF Engine
<1> QED  BY <1>1, InitUnvoted, NextUnvoted, Invariance, PTL DEF Spec

\* Whichever report comes first, a trade reported as failed keeps no vote.
THEOREM FailuresHaveNoVote == Spec => []FailedTradesHaveNoVote
<1>1. Unvoted => FailedTradesHaveNoVote  BY DEF Unvoted
<1> QED  BY <1>1, Unvotedness, PTL

\* A new trigger's votes are votes the engine holds after the step.
LEMMA TriggersHoldVotes ==
    ASSUME IInv, Engine, [Next]_vars, NEW n \in DOMAIN sent' \ DOMAIN sent,
           NEW c \in sent'[n].votes
    PROVE  /\ c \in entry'.signals
           /\ UNCHANGED <<old, edits>> /\ taken \subseteq taken'
<1>1. PICK S : sent \in Seq(S)  BY SentIsSeq DEF Engine
<1>2. ActExternal \/ ActPump
  BY DEF Next, Loop, vars, engine, StreamReports, Operate, Trades, PrefetchExpires,
         ForgetSignature, EngineCleanup, C!Cleanup, Tick, C!Tick, Drop, Take, Serve
<1>3. C!SubmitWith(Vote(hand), hand.group.quorum, hand.group.window)
  BY <1>2, ActsOnEngine DEF engine, C!Reject
<1> DEFINE e     == C!Opened(hand.group.quorum, hand.group.window)
           votes == C!Merged(Vote(hand), e, C!Unexpired(e))
<1>4. entry'.signals = votes  BY <1>3 DEF C!SubmitWith
<1>5. PICK x : x.votes = C!Counted(votes) /\ sent' = Append(sent, x)
  <2>1. sent' # sent  OBVIOUS
  <2> QED  BY <1>3, <2>1 DEF C!SubmitWith
<1> HIDE DEF votes
<1>6. sent'[n] = x
  <2> DEFINE T == S \cup {x}
  <2>1. sent \in Seq(T) /\ x \in T  BY <1>1
  <2> HIDE DEF T
  <2>2. DOMAIN sent' = 1..(Len(sent) + 1) /\ DOMAIN sent = 1..Len(sent) /\ Len(sent) \in Nat
        /\ sent'[Len(sent) + 1] = x
    BY <1>5, <2>1
  <2> QED  BY <2>2
<1>7. c \in votes  BY <1>5, <1>6 DEF C!Counted
<1>8. UNCHANGED <<old, edits>> /\ taken \subseteq taken'
  BY <1>2 DEF ActExternal, ActPump, Acted, bounds
<1> QED  BY <1>4, <1>7, <1>8

\* No trigger, and so no buy of the trigger task, rests on a trade that had been
\* reported as failed.
THEOREM FailuresTriggerNothing == Spec => FailedTradesTriggerNothing
<1>1. IInv /\ Engine /\ Unvoted' /\ [Next]_vars
        => [\A n \in DOMAIN sent' \ DOMAIN sent : \A c \in sent'[n].votes :
               \A r \in taken : Disowns(r) => c.sig # r.trade.sig]_vars
  <2> SUFFICES ASSUME IInv, Engine, Unvoted', [Next]_vars,
                      NEW n \in DOMAIN sent' \ DOMAIN sent, NEW c \in sent'[n].votes,
                      NEW r \in taken, Disowns(r)
               PROVE  c.sig # r.trade.sig
    OBVIOUS
  <2>1. c \in entry'.signals /\ UNCHANGED <<old, edits>> /\ r \in taken'
    BY TriggersHoldVotes
  <2>2. Disowns(r)'  BY <2>1 DEF Disowns, Wants, TooSmall
  <2> QED  BY <2>1, <2>2 DEF Unvoted, FailedTradesHaveNoVote
<1>2. Spec => []Engine  BY EngineHolds, PTL DEF Engine
<1> QED  BY <1>1, <1>2, Invariance, Unvotedness, PTL DEF Spec, FailedTradesTriggerNothing

\* A transaction that was handled passes again only when it has landed since.
THEOREM SecondLooksAreBetter == Spec => SecondLookIsBetter
<1>1. Unvoted /\ [Next]_vars
        => [\A r \in taken :
               /\ hand = NoReport /\ hand' # NoReport
               /\ r.trade.sig = hand'.trade.sig /\ r.trade.sig \notin old
               => r.trade.pre /\ ~hand'.trade.pre]_vars
  <2> SUFFICES ASSUME Unvoted, [Next]_vars, NEW r \in taken, hand = NoReport, hand' # NoReport,
                      r.trade.sig = hand'.trade.sig, r.trade.sig \notin old
               PROVE  r.trade.pre /\ ~hand'.trade.pre
    OBVIOUS
  <2>1. Take
    BY DEF Next, Loop, vars, StreamReports, Operate, Trades, PrefetchExpires, ForgetSignature,
           EngineCleanup, Tick, Drop, ActExternal, ActPump, Acted, Serve
  <2> DEFINE t == Head(feed).trade
  <2>2. ~Skipped(t) /\ hand'.trade = t  BY <2>1 DEF Take
  <2> HIDE DEF t
  <2>3. IF r.trade.pre THEN seen[t.sig].pre ELSE seen[t.sig].landed
    BY <2>2 DEF Unvoted, Remembered, Handled
  <2> QED  BY <2>2, <2>3 DEF Skipped
<1> QED  BY <1>1, Unvotedness, PTL DEF Spec, SecondLookIsBetter
=============================================================================
