------------------------- MODULE TradeStreamProofs -------------------------
(***************************************************************************)
(* What the parser makes of a transaction, proved for every transaction,   *)
(* and from it that TypeOK, InternalFirst and ProgramOfMint hold however   *)
(* the wallets change and the connection behaves.                          *)
(***************************************************************************)
EXTENDS TradeStream, WellFoundedInduction, TLAPS

-----------------------------------------------------------------------------
(* The first of some places                                                 *)

\* A set of numbers that is not empty has a first one: FirstOf is the element at one
\* of the places it is given, and the round that asks for it finds a call.
LEMMA FirstExists ==
    ASSUME NEW places, places \subseteq Nat, places # {}
    PROVE  (CHOOSE n \in places : \A p \in places : n <= p) \in places
<1> DEFINE R == OpToRel(<, Nat)
<1>1. PICK n \in places : \A p \in places : <<p, n>> \notin R
  <2>1. IsWellFoundedOn(R, Nat)  BY NatLessThanWellFounded
  <2> HIDE DEF R
  <2>2. \E n \in places : \A p \in places : ~(<<p, n>> \in R)  BY <2>1, WFMin
  <2> QED  BY <2>2
<1>2. \A p \in places : ~(p < n)  BY <1>1 DEF OpToRel
<1>3. \A p \in places : n <= p  BY <1>2
<1> QED  BY <1>3

LEMMA FirstIsOne ==
    ASSUME NEW list, NEW places, places \subseteq DOMAIN list,
           DOMAIN list \subseteq Nat, places # {}
    PROVE  \E n \in places : FirstOf(list, places) = list[n]
<1>1. places \subseteq Nat  OBVIOUS
<1>2. (CHOOSE n \in places : \A p \in places : n <= p) \in places  BY <1>1, FirstExists
<1> QED  BY <1>2 DEF FirstOf

-----------------------------------------------------------------------------
(* One transaction                                                          *)

\* An instruction as a plausible transaction has it.
Real(ix, t) ==
    /\ ix \in Ix
    /\ /\ ix.venue \in {"amm", "cpmm", "clmm", "dlmm"}
       /\ ix.swap /\ ix.says # "sell"
       => ix.pays
    /\ ix.venue = "amm" => t.token = "legacy"

\* What ProgramOfMint says of one report.
Named(trade, t) ==
    trade.mint = "token" /\ (trade.venue \in {"pump", "cpmm"} => (trade.buy /\ ~trade.pre))
        => trade.program \in {"none", t.token}

\* What InternalFirst says of one report.
PumpFirst(trade, t) ==
    trade.venue # "pump" =>
        /\ Calls(t.outer, Internal) = {}
        /\ trade.pre => ~(t.pumpKey /\ t.curve)
        /\ ~trade.pre => Calls(t.inner, Internal) = {}

\* The token program is read where it stands, unless a lookup table hides it.
LEMMA ProgramRead ==
    ASSUME NEW t \in Tx, NEW ix, Real(ix, t), ix.venue \in Venues, NEW landed \in BOOLEAN,
           Mint(ix, landed) = "token" \/ ix.venue = "amm",
           ix.venue \in {"pump", "cpmm"} => Buys(ix, landed) /\ landed
    PROVE  TokenProgram(ix, t, landed) \in {"none", t.token}
<1>1. ix.venue \in {"pump", "pumpswap", "amm", "cpmm", "clmm", "dlmm"}
  BY DEF Venues
<1>2. CASE ix.venue = "pump"
  <2>1. landed /\ ix.says \in {"buy", "sell", "unclear"}  BY <1>2 DEF Real, Ix
  <2>2. ix.says # "sell"  BY <1>2 DEF Buys
  <2>3. ix.says # "unclear"  BY <1>2, <2>1 DEF Mint, Seen, IsTrade
  <2> QED  BY <1>2, <2>1, <2>2, <2>3 DEF TokenProgram, PumpProgram, Seen
<1>3. CASE ix.venue = "pumpswap"
  <2>1. Seen(ix, "mint", landed)  BY <1>3 DEF Mint
  <2> QED  BY <1>3, <2>1 DEF TokenProgram, PumpSwapProgram
<1>4. CASE ix.venue = "amm"
  BY <1>4 DEF TokenProgram, Real
<1>5. CASE ix.venue = "cpmm"
  <2>1. landed /\ Buys(ix, landed)  BY <1>5
  <2>2. ix.swap  BY <1>5, <2>1 DEF Mint, Seen, IsTrade
  <2>3. ix.says # "sell"  BY <1>5, <2>1, <2>2 DEF Buys, Seen
  <2>4. ix.pays  BY <1>5, <2>2, <2>3 DEF Real
  <2> QED  BY <1>5, <2>1, <2>4 DEF TokenProgram, CpmmProgram, Seen
<1>6. CASE ix.venue \in {"clmm", "dlmm"}
  BY <1>6 DEF TokenProgram, SideProgram
<1> QED  BY <1>1, <1>2, <1>3, <1>4, <1>5, <1>6

\* Once it has landed the mint is read of every call but an AMM's.
LEMMA MintRead ==
    ASSUME NEW ix, ix.venue # "amm", Mint(ix, TRUE) = "none"
    PROVE  FALSE
BY DEF Mint, Seen

\* What a report found by a call says: it is a trade of the call's venue, seen as it
\* was seen, and its token program is the mint's but for the exceptions.
LEMMA FoundTrade ==
    ASSUME NEW t \in Tx, NEW wallet \in Wallets, NEW ix, Real(ix, t), ix.venue \in Venues,
           NEW landed \in BOOLEAN
    PROVE  LET trade == Found(t, wallet, ix, landed)
           IN  trade \in Trade /\ trade.venue = ix.venue /\ trade.pre = ~landed /\ Named(trade, t)
<1> DEFINE d == Direct(t, wallet, ix, landed)
<1>1. /\ t.sig \in Sigs /\ t.fails \in BOOLEAN /\ t.guess \in TokenProgs /\ t.paid \in Nat
      /\ t.listed \in BOOLEAN /\ t.token \in TokenProgs
  BY DEF Tx
<1>2. ix.slots \in Nat /\ ix.long \in BOOLEAN /\ ix.lamports \in Nat /\ ix.swap \in BOOLEAN
  BY DEF Ix, Real
<1>3. Buys(ix, landed) \in BOOLEAN  BY <1>2 DEF Buys
<1>4. Accounts(ix, landed) \in Nat  BY <1>2 DEF Accounts
<1>5. Lamports(ix, landed) \in Nat  BY <1>2 DEF Lamports
<1>6. Mint(ix, landed) \in {"none", "token", "other"}  BY DEF Mint
<1>7. TokenProgram(ix, t, landed) \in TokenProgs \cup {"none", "other"}
  BY <1>1 DEF TokenProgram, PumpProgram, PumpSwapProgram, CpmmProgram, SideProgram, TokenProgs
<1>8. d \in Trade
  BY <1>1, <1>2, <1>3, <1>4, <1>5, <1>6, <1>7 DEF Direct, Trade
<1>9. /\ d.venue = ix.venue /\ d.pre = ~landed /\ d.buy = Buys(ix, landed)
      /\ d.mint = Mint(ix, landed) /\ d.program = TokenProgram(ix, t, landed)
  BY DEF Direct
<1>10. ASSUME ix.venue \in {"pump", "cpmm"} => d.buy /\ landed,
              d.mint = "token" \/ ix.venue = "amm"
       PROVE  d.program \in {"none", t.token}
  BY <1>9, <1>10, ProgramRead
<1>11. CASE ~landed
  <2>1. Found(t, wallet, ix, landed) = d  BY <1>11 DEF Found
  <2>2. Named(d, t)  BY <1>9, <1>10 DEF Named
  <2> QED  BY <1>8, <1>9, <2>1, <2>2
<1>12. CASE landed
  <2> DEFINE e == Enriched(d, t)
  <2>1. Found(t, wallet, ix, landed) = e  BY <1>12 DEF Found
  <2>2. /\ e.venue = d.venue /\ e.pre = d.pre /\ e.buy = d.buy
        /\ e.mint = (IF d.mint = "none" /\ t.listed THEN "token" ELSE d.mint)
        /\ e.program = (IF d.program = "none" /\ t.listed THEN t.token ELSE d.program)
    <3> HIDE DEF d
    <3> QED  BY <1>8 DEF Enriched, Trade
  <2>3. e \in Trade
    <3> HIDE DEF d
    <3> QED  BY <1>1, <1>8 DEF Enriched, Trade
  <2>4. Named(e, t)
    <3> SUFFICES ASSUME e.mint = "token", e.venue \in {"pump", "cpmm"} => e.buy /\ ~e.pre
                 PROVE  e.program \in {"none", t.token}
      BY DEF Named
    <3>1. ix.venue \in {"pump", "cpmm"} => d.buy /\ landed  BY <1>9, <2>2
    <3>2. d.mint = "token" \/ ix.venue = "amm"  BY <1>9, <1>12, <2>2, MintRead
    <3>3. d.program \in {"none", t.token}  BY <1>10, <3>1, <3>2
    <3> QED  BY <2>2, <3>3
  <2> QED  BY <1>9, <2>1, <2>2, <2>3, <2>4
<1> QED  BY <1>11, <1>12

\* A call through a wrapper is reported as one of pump.fun, before it lands.
LEMMA WrappedTrade ==
    ASSUME NEW t \in Tx, NEW wallet \in Wallets
    PROVE  LET trade == Wrapped(t, wallet)
           IN  trade \in Trade /\ Named(trade, t) /\ PumpFirst(trade, t)
<1>1. t.sig \in Sigs /\ t.wsol \in BOOLEAN /\ t.guess \in TokenProgs  BY DEF Tx
<1>2. Wrapped(t, wallet) \in Trade  BY <1>1 DEF Wrapped, Trade, Venues
<1>3. /\ Wrapped(t, wallet).venue = "pump" /\ Wrapped(t, wallet).pre
  BY DEF Wrapped
<1> QED  BY <1>2, <1>3 DEF Named, PumpFirst

\* The first recognised call of a list of a plausible transaction is a real one.
LEMMA FirstReal ==
    ASSUME NEW t \in Tx, Plausible(t), NEW list \in {t.outer, t.inner}, NEW scope,
           Calls(list, scope) # {}
    PROVE  LET ix == FirstOf(list, Calls(list, scope))
           IN  Real(ix, t) /\ ix.venue \in scope
<1>1. list \in Seq(Ix)  BY DEF Tx
<1>2. DOMAIN list \subseteq Nat /\ \A n \in DOMAIN list : list[n] \in Ix  BY <1>1
<1>3. Calls(list, scope) \subseteq DOMAIN list  BY DEF Calls
<1>4. PICK n \in Calls(list, scope) : FirstOf(list, Calls(list, scope)) = list[n]
  BY <1>2, <1>3, FirstIsOne
<1>5. n \in DOMAIN list /\ list[n].venue \in scope  BY <1>4 DEF Calls, Recognised
<1>6. Real(list[n], t)
  BY <1>2, <1>5 DEF Real, Plausible
<1> QED  BY <1>4, <1>5, <1>6

\* What parse_transaction reports of a transaction, however it is seen: a trade that
\* names the right program and that skipped no visible call of pump.fun.
LEMMA ParsedTrade ==
    ASSUME NEW t \in Tx, Plausible(t), NEW landed \in BOOLEAN, NEW wallets,
           Parse(t, landed, wallets) # NoTrade
    PROVE  LET trade == Parse(t, landed, wallets)
           IN  trade \in Trade /\ Named(trade, t) /\ PumpFirst(trade, t)
<1> DEFINE keys == Keys(t, landed)
           places == Followed(t, landed, wallets)
           wallet == FirstOf(keys, places)
<1>1. keys \in Seq(Wallets)  BY DEF Keys, Tx
<1>2. DOMAIN keys \subseteq Nat /\ \A n \in DOMAIN keys : keys[n] \in Wallets  BY <1>1
<1>3. places # {}  BY DEF Parse
<1>4. wallet \in Wallets
  <2>1. places \subseteq DOMAIN keys  BY DEF Followed
  <2>2. PICK n \in places : wallet = keys[n]  BY <1>2, <1>3, <2>1, FirstIsOne
  <2> QED  BY <1>2, <2>1, <2>2
<1>5. Parse(t, landed, wallets) = Rounds(t, wallet, landed)  BY <1>3 DEF Parse
<1> HIDE DEF wallet
<1> DEFINE by(list, scope) == Found(t, wallet, FirstOf(list, Calls(list, scope)), landed)
           Fine(trade) == trade \in Trade /\ Named(trade, t) /\ PumpFirst(trade, t)
<1>6. ASSUME NEW list \in {t.outer, t.inner}, NEW scope \in {Internal, External},
             Calls(list, scope) # {},
             scope = External =>
                 /\ Calls(t.outer, Internal) = {}
                 /\ ~landed => ~(t.pumpKey /\ t.curve)
                 /\ landed => Calls(t.inner, Internal) = {}
      PROVE  Fine(by(list, scope))
  <2> DEFINE ix == FirstOf(list, Calls(list, scope))
  <2>1. Real(ix, t) /\ ix.venue \in scope  BY <1>6, FirstReal
  <2> HIDE DEF ix
  <2>2. ix.venue \in Venues  BY <2>1 DEF Internal, External, Venues
  <2> DEFINE trade == Found(t, wallet, ix, landed)
  <2>3. trade \in Trade /\ trade.venue = ix.venue /\ trade.pre = ~landed /\ Named(trade, t)
    BY <1>4, <2>1, <2>2, FoundTrade
  <2> HIDE DEF trade
  <2>4. scope = Internal => trade.venue = "pump"  BY <2>1, <2>3 DEF Internal
  <2>5. PumpFirst(trade, t)
    <3>1. CASE scope = Internal  BY <2>4, <3>1 DEF PumpFirst
    <3>2. CASE scope = External  BY <1>6, <2>3, <3>2 DEF PumpFirst
    <3> QED  BY <3>1, <3>2
  <2>6. Fine(trade)  BY <2>3, <2>5
  <2> QED  BY <2>6 DEF trade, ix
<1>7. Fine(Wrapped(t, wallet))  BY <1>4, WrappedTrade
<1>8. Internal # External  BY DEF Internal, External
<1>9. Calls(t.outer, Internal) # {} => Fine(by(t.outer, Internal))  BY <1>6, <1>8
<1>10. Calls(t.inner, Internal) # {} => Fine(by(t.inner, Internal))  BY <1>6, <1>8
<1>11. ASSUME Calls(t.outer, Internal) = {}, ~landed => ~(t.pumpKey /\ t.curve),
              landed => Calls(t.inner, Internal) = {}
       PROVE  /\ Calls(t.outer, External) # {} => Fine(by(t.outer, External))
              /\ Calls(t.inner, External) # {} => Fine(by(t.inner, External))
  BY <1>6, <1>11
<1>12. Rounds(t, wallet, landed) # NoTrade  BY <1>5
<1>13. Rounds(t, wallet, landed) =
          IF Calls(t.outer, Internal) # {} THEN by(t.outer, Internal)
          ELSE IF ~landed /\ t.pumpKey /\ t.curve THEN Wrapped(t, wallet)
          ELSE IF landed /\ Calls(t.inner, Internal) # {} THEN by(t.inner, Internal)
          ELSE IF Calls(t.outer, External) # {} THEN by(t.outer, External)
          ELSE IF landed /\ Calls(t.inner, External) # {} THEN by(t.inner, External)
          ELSE NoTrade
  <2>1. CASE landed  BY <2>1 DEF Rounds
  <2>2. CASE ~landed  BY <2>2 DEF Rounds
  <2> QED  BY <2>1, <2>2
<1> HIDE DEF by, Fine
<1>14. Fine(Rounds(t, wallet, landed))
  <2>1. CASE Calls(t.outer, Internal) # {}  BY <1>9, <1>13, <2>1
  <2>2. CASE Calls(t.outer, Internal) = {} /\ ~landed /\ t.pumpKey /\ t.curve
    BY <1>7, <1>13, <2>2
  <2>3. CASE Calls(t.outer, Internal) = {} /\ landed /\ Calls(t.inner, Internal) # {}
    BY <1>10, <1>13, <2>3
  <2>4. CASE /\ Calls(t.outer, Internal) = {} /\ ~(~landed /\ t.pumpKey /\ t.curve)
             /\ ~(landed /\ Calls(t.inner, Internal) # {})
    <3>1. \/ Rounds(t, wallet, landed) = by(t.outer, External) /\ Calls(t.outer, External) # {}
          \/ Rounds(t, wallet, landed) = by(t.inner, External) /\ Calls(t.inner, External) # {}
      BY <1>12, <1>13, <2>4
    <3> QED  BY <1>11, <2>4, <3>1
  <2> QED  BY <2>1, <2>2, <2>3, <2>4
<1>15. Fine(Parse(t, landed, wallets))  BY <1>5, <1>14
<1> QED  BY <1>15 DEF Fine

-----------------------------------------------------------------------------
(* The stream                                                               *)

Reported == \A n \in DOMAIN trades : Named(trades[n], tx) /\ PumpFirst(trades[n], tx)

IInv == TypeOK /\ Reported

LEMMA InitIInv == Init => IInv
<1> SUFFICES ASSUME Init PROVE IInv
  OBVIOUS
<1>1. trades = <<>> /\ trades \in Seq(Trade) /\ DOMAIN trades = {}  BY DEF Init
<1>2. TypeOK  BY <1>1 DEF Init, TypeOK
<1>3. Reported  BY <1>1 DEF Reported
<1> QED  BY <1>2, <1>3 DEF IInv

\* What every step but Deliver does to the reports: nothing.
LEMMA ReportsStay ==
    ASSUME IInv, UNCHANGED <<tx, trades>>
    PROVE  Reported'
BY DEF IInv, Reported

LEMMA DeliverIInv ==
    ASSUME IInv, NEW landed \in BOOLEAN, Deliver(landed)
    PROVE  IInv'
<1> DEFINE trade == Parse(tx, landed, targets)
<1>1. tx \in Tx /\ Plausible(tx)  BY TxsAssumption DEF IInv, TypeOK
<1>2. CASE trade = NoTrade
  <2>1. trades' = trades /\ tx' = tx  BY <1>2 DEF Deliver
  <2>2. Reported'  BY <2>1, ReportsStay
  <2>3. TypeOK'  BY <2>1 DEF Deliver, IInv, TypeOK, streamVars
  <2> QED  BY <2>2, <2>3 DEF IInv
<1>3. CASE trade # NoTrade
  <2>1. trades' = Append(trades, trade) /\ tx' = tx  BY <1>3 DEF Deliver
  <2>2. trade \in Trade /\ Named(trade, tx) /\ PumpFirst(trade, tx)
    BY <1>1, <1>3, ParsedTrade
  <2> HIDE DEF trade
  <2>3. TypeOK'  BY <2>1, <2>2 DEF Deliver, IInv, TypeOK, streamVars
  <2>4. Reported'
    <3>1. trades \in Seq(Trade)  BY DEF IInv, TypeOK
    <3>2. ASSUME NEW n \in DOMAIN trades'
          PROVE  Named(trades'[n], tx) /\ PumpFirst(trades'[n], tx)
      <4>1. CASE n \in DOMAIN trades
        <5>1. trades'[n] = trades[n]  BY <2>1, <3>1, <4>1
        <5> QED  BY <4>1, <5>1 DEF IInv, Reported
      <4>2. CASE n \notin DOMAIN trades
        <5>1. trades'[n] = trade  BY <2>1, <3>1, <3>2, <4>2
        <5> QED  BY <2>2, <5>1
      <4> QED  BY <4>1, <4>2
    <3> QED  BY <2>1, <3>2 DEF Reported
  <2> QED  BY <2>3, <2>4 DEF IInv
<1> QED  BY <1>2, <1>3

LEMMA NextIInv == IInv /\ [Next]_vars => IInv'
<1> SUFFICES ASSUME IInv, [Next]_vars PROVE IInv'
  OBVIOUS
<1> USE DEF streamVars, bounds
<1>1. CASE Edit
  BY <1>1, ReportsStay DEF Edit, IInv, TypeOK
<1>2. CASE Sync
  BY <1>2, ReportsStay DEF Sync, IInv, TypeOK
<1>3. CASE Subscribe
  <2>1. CASE Look  BY <2>1, ReportsStay DEF Look, Move, IInv, TypeOK
  <2>2. CASE Wait  BY <2>2, ReportsStay DEF Wait, Move, IInv, TypeOK
  <2>3. CASE Woken  BY <2>3, ReportsStay DEF Woken, Move, IInv, TypeOK
  <2>4. CASE TakeWallets  BY <2>4, ReportsStay DEF TakeWallets, Move, IInv, TypeOK
  <2>5. CASE Connect  BY <2>5, ReportsStay DEF Connect, Move, IInv, TypeOK
  <2>6. CASE Reconnect  BY <2>6, ReportsStay DEF Reconnect, Move, IInv, TypeOK
  <2> QED  BY <1>3, <2>1, <2>2, <2>3, <2>4, <2>5, <2>6 DEF Subscribe
<1>4. CASE Disconnect
  BY <1>4, ReportsStay DEF Disconnect, IInv, TypeOK
<1>5. CASE Resubscribe
  BY <1>5, ReportsStay DEF Resubscribe, IInv, TypeOK
<1>6. CASE ResubscribeFails
  BY <1>6, ReportsStay DEF ResubscribeFails, IInv, TypeOK
<1>7. CASE \E landed \in BOOLEAN : Deliver(landed)
  BY <1>7, DeliverIInv
<1>8. CASE UNCHANGED vars
  BY <1>8, ReportsStay DEF vars, IInv, TypeOK
<1> QED  BY <1>1, <1>2, <1>3, <1>4, <1>5, <1>6, <1>7, <1>8 DEF Next

\* IInv is an invariant of the subscription.
THEOREM Invariance == Spec => []IInv
<1>1. Init => IInv  BY InitIInv
<1>2. IInv /\ [Next]_vars => IInv'  BY NextIInv
<1> QED  BY <1>1, <1>2, PTL DEF Spec

\* Every variable of the subscription keeps its type: what reaches the trade loop is a
\* trade whatever the transaction holds.
THEOREM TypeCorrect == Spec => []TypeOK
<1>1. IInv => TypeOK  BY DEF IInv
<1> QED  BY <1>1, Invariance, PTL

\* No report of another venue hides a call of pump.fun that could be seen.
THEOREM PumpIsFirst == Spec => []InternalFirst
<1>1. IInv => InternalFirst  BY DEF IInv, Reported, PumpFirst, InternalFirst
<1> QED  BY <1>1, Invariance, PTL

\* A report names the token program of its mint, for every transaction.
THEOREM ProgramIsTheMints == Spec => []ProgramOfMint
<1>1. IInv => ProgramOfMint  BY DEF IInv, Reported, Named, ProgramOfMint
<1> QED  BY <1>1, Invariance, PTL
=============================================================================
