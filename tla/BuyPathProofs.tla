--------------------------- MODULE BuyPathProofs ---------------------------
(***************************************************************************)
(* What is true of every purchase the program builds, for every curve,     *)
(* amount, slippage and mirror: its amount is checked where the code does  *)
(* so, and from a mirror of a purchase it and the sale after it have the   *)
(* layout the chain takes.                                                 *)
(***************************************************************************)
EXTENDS BuyPath, SequenceTheorems, TLAPS

-----------------------------------------------------------------------------
(* Amounts                                                                  *)

LEMMA DivNat ==
    ASSUME NEW m \in Nat, NEW n \in Nat \ {0}
    PROVE  m \div n \in Nat
OBVIOUS

LEMMA TimesNat ==
    ASSUME NEW m \in Nat, NEW n \in Nat
    PROVE  m * n \in Nat
OBVIOUS

\* A curve that was never seen quotes nothing; any other a number.
LEMMA TokensForNat ==
    ASSUME NEW curve \in Curve, NEW a \in Nat \ {0}
    PROVE  TokensFor(curve, a) \in Nat
<1>1. curve.tokens \in Nat /\ curve.sol \in Nat  BY DEF Curve
<1>2. curve.tokens * a \in Nat  BY <1>1, TimesNat
<1>3. curve.sol + a \in Nat \ {0}  BY <1>1
<1>4. (curve.tokens * a) \div (curve.sol + a) \in Nat  BY <1>2, <1>3, DivNat
<1> QED  BY <1>4 DEF TokensFor

LEMMA TokensAtPriceNat ==
    ASSUME NEW t \in Target, t.cost # 0, NEW a \in Nat \ {0}
    PROVE  TokensAtPrice(t, a) \in Nat
<1> DEFINE x == (FirstSol * t.tokens) \div t.cost
           y == (x * a) \div (FirstSol + a)
<1>1. t.tokens \in Nat /\ t.cost \in Nat \ {0} /\ FirstSol \in Nat \ {0}
  BY AmountAssumption DEF Target
<1>2. FirstSol * t.tokens \in Nat  BY <1>1, TimesNat
<1>3. x \in Nat  BY <1>1, <1>2, DivNat
<1> HIDE DEF x
<1>4. x * a \in Nat  BY <1>3, TimesNat
<1>5. FirstSol + a \in Nat \ {0}  BY <1>1
<1>6. y \in Nat  BY <1>4, <1>5, DivNat
<1>7. TokensAtPrice(t, a) = IF y > 1 THEN y ELSE 1  BY DEF TokensAtPrice, x
<1> HIDE DEF y
<1> QED  BY <1>6, <1>7

LEMMA MaxCostNat ==
    ASSUME NEW a \in Nat, NEW s \in Nat
    PROVE  MaxCost(a, s) \in Nat
<1>1. a * s \in Nat  BY TimesNat
<1>2. (a * s) \div 10000 \in Nat  BY <1>1, DivNat
<1> QED  BY <1>2 DEF MaxCost

-----------------------------------------------------------------------------
(* The route                                                                *)

\* What the rest of the proof needs to know of the variables that Quote reads.
Given ==
    /\ coin \in Coins /\ amount \in Amounts /\ slippage \in Slippages /\ target \in Targets
    /\ pf \in Prefetch /\ (pf.held => Fits(pf.mirror, coin))
    /\ bc \in Curves \cup {NoCurve}

LEMMA GivenTypes ==
    ASSUME Given
    PROVE  /\ amount \in Nat \ {0} /\ slippage \in Nat /\ target \in Target /\ bc \in Curve
           /\ coin \in Coin /\ MaxCost(amount, slippage) \in Nat
<1>1. NoCurve \in Curve  BY DEF NoCurve, Curve
<1> QED
  BY <1>1, GroupAssumption, TargetsAssumption, CurvesAssumption, CoinsAssumption, MaxCostNat
  DEF Given

\* A purchase is one of three.
LEMMA Routes ==
    ASSUME Route # NoBuy
    PROVE  /\ pf.held
           /\ \/ /\ bc # NoCurve /\ ~bc.complete /\ List(pf) # <<>>
                 /\ ValidWith(List(pf), pf.wallet, pf.program, bc)
                 /\ Route = Purchase(BuyFromMirror(List(pf), pf.wallet, pf.program),
                                     TokensFor(bc, amount), "mirror")
              \/ /\ bc # NoCurve /\ ~bc.complete /\ bc.creator
                 /\ ~(List(pf) # <<>> /\ ValidWith(List(pf), pf.wallet, pf.program, bc))
                 /\ ValidAmount(TokensFor(bc, amount), bc.left)
                 /\ Route = Purchase(BuyStandard(pf.program), TokensFor(bc, amount), "standard")
              \/ /\ bc = NoCurve /\ HasTarget /\ MirrorAlone(pf)
                 /\ target.cost # 0
                 /\ ValidAmount(TokensAtPrice(target, amount), 0)
                 /\ Route = Purchase(BuyFromMirror(List(pf), pf.wallet, pf.program),
                                     TokensAtPrice(target, amount), "target")
<1>1. pf.held  BY DEF Route
<1>2. CASE bc # NoCurve /\ List(pf) # <<>> /\ ValidWith(List(pf), pf.wallet, pf.program, bc)
  <2>1. Route = Mirrored  BY <1>1, <1>2 DEF Route
  <2> QED  BY <1>1, <1>2, <2>1 DEF Mirrored
<1>3. CASE bc # NoCurve /\ ~(List(pf) # <<>> /\ ValidWith(List(pf), pf.wallet, pf.program, bc))
  <2>1. Route = Standard  BY <1>1, <1>3 DEF Route
  <2> QED  BY <1>1, <1>3, <2>1 DEF Standard
<1>4. CASE bc = NoCurve
  <2>1. HasTarget /\ MirrorAlone(pf) /\ Route = FromTarget  BY <1>1, <1>4 DEF Route
  <2> QED  BY <1>1, <1>4, <2>1 DEF FromTarget
<1> QED  BY <1>2, <1>3, <1>4

\* What QuoteChecked says of a purchase.
Checked(buy) ==
    /\ buy.route \in {"standard", "mirror"} => ~bc.complete
    /\ buy.route \in {"standard", "target"} => ValidAmount(buy.tokens, bc.left)

LEMMA RouteChecked ==
    ASSUME Given, Route # NoBuy
    PROVE  Checked(Route) /\ Route.tokens \in Nat /\ Route.cost \in Nat
<1>1. /\ amount \in Nat \ {0} /\ target \in Target /\ bc \in Curve
      /\ MaxCost(amount, slippage) \in Nat
  BY GivenTypes
<1>2. TokensFor(bc, amount) \in Nat  BY <1>1, TokensForNat
<1>3. target.cost # 0 => TokensAtPrice(target, amount) \in Nat  BY <1>1, TokensAtPriceNat
<1>4. bc = NoCurve => bc.left = 0  BY DEF NoCurve
<1> QED  BY <1>1, <1>2, <1>3, <1>4, Routes DEF Purchase, Checked

-----------------------------------------------------------------------------
(* The layouts                                                              *)

\* The mirror of a purchase, with our accounts in it, is our purchase with the mirror's
\* choice where the chain leaves one.
LEMMA MineIsOurs ==
    ASSUME NEW u, NEW wallet, NEW x \in Variant
    PROVE  LET list == BuyLayout(u, x)
               mine == Replaced(list, SourceOf(list, wallet), x.program)
           IN  /\ Len(list) = 18 /\ SourceOf(list, wallet) = u /\ DOMAIN mine = 1..18
               /\ \A n \in 1..18 : mine[n] = BuyLayout(Us, x)[n]
<1> DEFINE list == BuyLayout(u, x)
           mine == Replaced(list, u, x.program)
           ours == BuyLayout(Us, x)
<1>1. Len(list) = 18 /\ DOMAIN list = 1..18 /\ list[7] = Of("user", u)
  BY DEF BuyLayout
<1>2. SourceOf(list, wallet) = u  BY <1>1 DEF SourceOf, Of
<1>3. DOMAIN mine = 1..18  BY <1>1 DEF Replaced
<1>4. \A n \in 1..18 : mine[n] = IF n = 6 THEN Ata(Us, x.program)
                                 ELSE IF n = 7 THEN Of("user", Us)
                                 ELSE IF list[n] = Of("volume", u) THEN Of("volume", Us)
                                 ELSE list[n]
  BY <1>1 DEF Replaced
<1>5. \A n \in 1..18 : n \notin {6, 7, 14} => list[n].role # "volume" /\ list[n] = ours[n]
  BY DEF BuyLayout, Of, A, Ata
<1>6. list[14] = Of("volume", u) /\ ours[14] = Of("volume", Us)
      /\ ours[6] = Ata(Us, x.program) /\ ours[7] = Of("user", Us)
  BY DEF BuyLayout
<1>7. Of("volume", u).role = "volume"  BY DEF Of
<1>8. \A n \in 1..18 : mine[n] = ours[n]
  <2> HIDE DEF mine, ours, list
  <2> SUFFICES ASSUME NEW n \in 1..18 PROVE mine[n] = ours[n]
    OBVIOUS
  <2>1. CASE n = 6  BY <1>4, <1>6, <2>1
  <2>2. CASE n = 7  BY <1>4, <1>6, <2>2
  <2>3. CASE n = 14  BY <1>4, <1>6, <2>3
  <2>4. CASE n \notin {6, 7, 14}  BY <1>4, <1>5, <1>7, <2>4
  <2> QED  BY <2>1, <2>2, <2>3, <2>4
<1> QED  BY <1>1, <1>2, <1>3, <1>8

\* Built from the mirror of a purchase, a purchase has the chain's layout.
LEMMA MirrorAccepted ==
    ASSUME NEW u, NEW wallet, NEW x \in Variant
    PROVE  Accepted(BuyFromMirror(BuyLayout(u, x), wallet, x.program), x.program)
<1> DEFINE list == BuyLayout(u, x)
           mine == Replaced(list, SourceOf(list, wallet), x.program)
           ours == BuyLayout(Us, x)
<1>1. DOMAIN mine = 1..18 /\ \A n \in 1..18 : mine[n] = ours[n]
  BY MineIsOurs
<1>2. Len(mine) = 18
  <2>1. mine = [n \in 1..18 |-> mine[n]]  BY <1>1 DEF Replaced
  <2> HIDE DEF mine
  <2> QED  BY <2>1
<1>3. BuyFromMirror(list, wallet, x.program) =
        <<mine[1], mine[2], mine[3], mine[4], mine[5], Ata(Us, x.program), Of("user", Us),
          A("system"), mine[9], mine[10], A("events"), A("pump"), A("global_volume"),
          Of("volume", Us), A("fee_config"), A("fee_program"), mine[17], mine[18]>>
  <2>1. Picked(mine) = [vault |-> mine[10], program |-> mine[9], buyback |-> mine[17],
                        authority |-> mine[18]]
    BY <1>2 DEF Picked
  <2> QED  BY <2>1 DEF BuyFromMirror
<1>4. BuyFromMirror(list, wallet, x.program) = ours
  <2> HIDE DEF mine
  <2> QED  BY <1>1, <1>3 DEF BuyLayout
<1> QED  BY <1>4 DEF Accepted

\* The mirror of a purchase agrees with what the program would list itself, on every
\* slot that is compared.
LEMMA MirrorValid ==
    ASSUME NEW u, NEW wallet, NEW x \in Variant, NEW curve, curve.creator
    PROVE  ValidWith(BuyLayout(u, x), wallet, x.program, curve)
<1> DEFINE list == BuyLayout(u, x)
           mine == Replaced(list, SourceOf(list, wallet), x.program)
<1>1. Len(list) = 18 /\ \A n \in 1..18 : mine[n] = BuyLayout(Us, x)[n]
  BY MineIsOurs
<1>2. \A n \in (1..18) \ Trusted : BuyLayout(Us, x)[n] = BuyLayout(Us, Usual(x.program))[n]
  BY DEF BuyLayout, Usual, Trusted
<1>3. Agrees(list, wallet, x.program, (1..18) \ Trusted)
  <2> HIDE DEF list
  <2> QED  BY <1>1, <1>2 DEF Agrees
<1> QED  BY <1>1, <1>3 DEF ValidWith

\* The first five of a list.
LEMMA FirstFive ==
    ASSUME NEW S, NEW s \in Seq(S), Len(s) = 18, \A n \in 1..5 : s[n] \in S
    PROVE  SubSeq(s, 1, 5) = <<s[1], s[2], s[3], s[4], s[5]>>
<1> DEFINE t == SubSeq(s, 1, 5)
<1>1. t \in Seq(S)  BY SubSeqProperties
<1>2. Len(t) = 5 /\ \A n \in 1..5 : t[n] = s[n]  OBVIOUS
<1> HIDE DEF t
<1>3. t = <<t[1], t[2], t[3], t[4], t[5]>>  BY <1>1, <1>2
<1> QED  BY <1>2, <1>3 DEF t

\* Five and nine make fourteen, in their order.
LEMMA FiveAndNine ==
    ASSUME NEW S, NEW five \in Seq(S), NEW nine \in Seq(S), NEW all \in Seq(S),
           Len(five) = 5, Len(nine) = 9, Len(all) = 14,
           \A n \in 1..5 : all[n] = five[n],
           \A n \in 1..9 : all[n + 5] = nine[n]
    PROVE  five \o nine = all
<1> DEFINE both == five \o nine
<1>1. both \in Seq(S)  BY ConcatProperties, Zenon
<1>2. Len(both) = Len(five) + Len(nine)  BY ConcatProperties, Zenon
<1>3. \A n \in 1..(Len(five) + Len(nine)) :
          both[n] = IF n <= Len(five) THEN five[n] ELSE nine[n - Len(five)]
  BY ConcatProperties, Zenon
<1> HIDE DEF both
<1>4. Len(both) = 14  BY <1>2
<1>5. \A n \in 1..14 : both[n] = all[n]
  <2> SUFFICES ASSUME NEW n \in 1..14 PROVE both[n] = all[n]
    OBVIOUS
  <2>1. n \in 1..(Len(five) + Len(nine))  OBVIOUS
  <2>2. CASE n <= 5
    <3>1. both[n] = five[n]  BY <1>3, <2>1, <2>2
    <3>2. n \in 1..5  BY <2>2
    <3> QED  BY <3>1, <3>2
  <2>3. CASE ~(n <= 5)
    <3>1. both[n] = nine[n - 5]  BY <1>3, <2>1, <2>3
    <3>2. n - 5 \in 1..9 /\ (n - 5) + 5 = n  BY <2>3
    <3>3. all[(n - 5) + 5] = nine[n - 5]  BY <3>2
    <3> QED  BY <3>1, <3>2, <3>3
  <2> QED  BY <2>2, <2>3
<1>6. both = [n \in 1..14 |-> both[n]]  BY <1>1, <1>4
<1>7. all = [n \in 1..14 |-> all[n]]  OBVIOUS
<1>8. [n \in 1..14 |-> both[n]] = [n \in 1..14 |-> all[n]]  BY <1>5, Zenon
<1>9. both = all  BY <1>6, <1>7, <1>8, Zenon
<1> QED  BY <1>9 DEF both

\* From the same mirror, the sale has the chain's layout for sales.
LEMMA MirrorSaleAccepted ==
    ASSUME NEW u, NEW x \in Variant, NEW cashback \in BOOLEAN
    PROVE  SaleAccepted(SellFromMirror(BuyLayout(u, x), x.program, cashback), x.program, cashback)
<1> DEFINE list == BuyLayout(u, x)
           head == <<A("global"), Of("fee", x.fee), A("mint"), A("curve"), Ata("curve", x.program)>>
           rest == <<Ata(Us, x.program), Of("user", Us), A("system"), A("vault"),
                     Of("program", x.program), A("events"), A("pump"), A("fee_config"),
                     A("fee_program")>>
           more == IF cashback THEN <<Of("volume", Us)>> ELSE <<>>
           last2 == <<Of("buyback", x.buyback), A("authority")>>
<1>1. Len(list) = 18 /\ list # <<>> /\ list[10] = A("vault")
      /\ list[17] = Of("buyback", x.buyback) /\ list[18] = A("authority")
  BY DEF BuyLayout
<1>2. SubSeq(list, 1, 5) = head
  <2>1. PICK S : list \in Seq(S) /\ \A n \in 1..5 : list[n] \in S
    <3> DEFINE S == {list[1], list[2], list[3], list[4], list[5], list[6], list[7], list[8],
                     list[9], list[10], list[11], list[12], list[13], list[14], list[15],
                     list[16], list[17], list[18]}
    <3>1. list = <<list[1], list[2], list[3], list[4], list[5], list[6], list[7], list[8],
                   list[9], list[10], list[11], list[12], list[13], list[14], list[15],
                   list[16], list[17], list[18]>>
      BY DEF BuyLayout
    <3>2. list \in Seq(S)
      <4>1. <<list[1], list[2], list[3], list[4], list[5], list[6], list[7], list[8],
              list[9], list[10], list[11], list[12], list[13], list[14], list[15],
              list[16], list[17], list[18]>> \in Seq(S)
        <5> HIDE DEF list
        <5> QED  OBVIOUS
      <4> HIDE DEF list, S
      <4> QED  BY <3>1, <4>1
    <3>3. \A n \in 1..5 : list[n] \in S
      <4> HIDE DEF list
      <4> QED  OBVIOUS
    <3> QED  BY <3>2, <3>3
  <2>2. list[1] = head[1] /\ list[2] = head[2] /\ list[3] = head[3] /\ list[4] = head[4]
        /\ list[5] = head[5]
    BY DEF BuyLayout
  <2>3. SubSeq(list, 1, 5) = <<list[1], list[2], list[3], list[4], list[5]>>
    <3> HIDE DEF list
    <3> QED  BY <1>1, <2>1, FirstFive
  <2> QED  BY <2>2, <2>3
<1>3. SellFromMirror(list, x.program, cashback) = head \o rest \o more \o last2
  <2> DEFINE part == [vault |-> list[10], buyback |-> list[17], authority |-> list[18]]
  <2>1. SellFromMirror(list, x.program, cashback) =
          SubSeq(list, 1, 5)
          \o <<Ata(Us, x.program), Of("user", Us), A("system"), part.vault,
               Of("program", x.program), A("events"), A("pump"), A("fee_config"),
               A("fee_program")>>
          \o more \o <<part.buyback, part.authority>>
    <3>1. Len(list) >= 18 /\ list # <<>>  BY <1>1
    <3> HIDE DEF list
    <3> QED  BY <3>1, Zenon DEF SellFromMirror
  <2>2. part.vault = A("vault") /\ part.buyback = Of("buyback", x.buyback)
        /\ part.authority = A("authority")
    BY <1>1
  <2> HIDE DEF list, head, part
  <2> QED  BY <1>2, <2>1, <2>2
<1>4. head \o rest =
        <<A("global"), Of("fee", x.fee), A("mint"), A("curve"), Ata("curve", x.program),
          Ata(Us, x.program), Of("user", Us), A("system"), A("vault"), Of("program", x.program),
          A("events"), A("pump"), A("fee_config"), A("fee_program")>>
  <2> DEFINE all == <<A("global"), Of("fee", x.fee), A("mint"), A("curve"),
                      Ata("curve", x.program), Ata(Us, x.program), Of("user", Us), A("system"),
                      A("vault"), Of("program", x.program), A("events"), A("pump"),
                      A("fee_config"), A("fee_program")>>
             S == {A("global"), Of("fee", x.fee), A("mint"), A("curve"),
                   Ata("curve", x.program), Ata(Us, x.program), Of("user", Us), A("system"),
                   A("vault"), Of("program", x.program), A("events"), A("pump"),
                   A("fee_config"), A("fee_program")}
  <2>1. head \in Seq(S) /\ rest \in Seq(S) /\ all \in Seq(S)  OBVIOUS
  <2>2. Len(head) = 5 /\ Len(rest) = 9 /\ Len(all) = 14  OBVIOUS
  <2>3. \A n \in 1..5 : all[n] = head[n]  OBVIOUS
  <2>4. \A n \in 1..9 : all[n + 5] = rest[n]  OBVIOUS
  <2> HIDE DEF head, rest, all, S
  <2>5. head \o rest = all  BY <2>1, <2>2, <2>3, <2>4, FiveAndNine
  <2> QED  BY <2>5 DEF all
<1>5. SellLayout(Us, x, cashback) = head \o rest \o more \o last2
  BY <1>4 DEF SellLayout
<1> QED  BY <1>3, <1>5 DEF SaleAccepted

-----------------------------------------------------------------------------
(* The inductive invariant                                                  *)

\* What was decided is what would be decided again: nothing the decision read has
\* changed since.
Decided == at \in {"build", "submitted"} => Route # NoBuy /\ built = Route

IInv == TypeOK /\ Decided

LEMMA TypesGive ==
    ASSUME TypeOK
    PROVE  Given
BY DEF TypeOK, Given

LEMMA NotPrefetchedType == NotPrefetched \in Prefetch /\ ~NotPrefetched.held
<1>1. (CHOOSE u \in Users : TRUE) \in Users  BY UsAssumption
<1>2. Usual("legacy") \in Variant  BY DEF Usual, Variant, TokenProgs
<1>3. NoMirror \in Mirror /\ NoMirror.user \in Users
  BY <1>1, <1>2 DEF NoMirror, Mirror, Kinds
<1> QED  BY <1>3 DEF NotPrefetched, Prefetch, Named, TokenProgs

LEMMA PrefetchesType ==
    ASSUME NEW c, NEW p \in Prefetches(c)
    PROVE  p \in Prefetch /\ Fits(p.mirror, c)
BY MirrorsAssumption DEF Prefetches, Prefetch

LEMMA RouteKept ==
    ASSUME UNCHANGED <<coin, amount, slippage, target, wrapper, pf, bc>>
    PROVE  Route' = Route
BY DEF Route, Mirrored, Standard, FromTarget, Purchase, HasTarget, MirrorAlone

LEMMA InitHolds == Init => IInv
<1> SUFFICES ASSUME Init PROVE IInv
  OBVIOUS
<1>1. NotPrefetched \in Prefetch /\ ~NotPrefetched.held  BY NotPrefetchedType
<1>2. TypeOK  BY <1>1 DEF Init, TypeOK, NoBuy, NoPosition
<1> QED  BY <1>2 DEF Init, IInv, Decided

LEMMA NextHolds == IInv /\ [Next]_vars => IInv'
<1> SUFFICES ASSUME IInv, [Next]_vars PROVE IInv'
  OBVIOUS
<1> USE DEF IInv
<1>1. CASE StreamDelivers
  BY <1>1 DEF StreamDelivers, TypeOK, Decided, given
<1>2. CASE RequestReturns
  <2>1. TypeOK'  BY <1>2 DEF RequestReturns, TypeOK, given
  <2>2. Route' = Route  BY <1>2, RouteKept DEF RequestReturns, given
  <2> QED  BY <1>2, <2>1, <2>2 DEF RequestReturns, Decided
<1>3. CASE TakePrefetch
  <2>1. pf' \in Prefetch /\ (pf'.held => Fits(pf'.mirror, coin))
    BY <1>3, NotPrefetchedType, PrefetchesType DEF TakePrefetch
  <2> QED  BY <1>3, <2>1 DEF TakePrefetch, Move, Waited, TypeOK, Decided, given
<1>4. CASE TakeCurve
  BY <1>4 DEF TakeCurve, Waited, TypeOK, Decided, given
<1>5. CASE AskForCurve
  <2>1. pf.held \in BOOLEAN  BY DEF TypeOK, Prefetch
  <2> QED  BY <1>5, <2>1 DEF AskForCurve, Move, Waited, TypeOK, Decided, given
<1>6. CASE CurveTimeout
  BY <1>6 DEF CurveTimeout, Waited, TypeOK, Decided, given
<1>7. CASE ExtraTimeout
  BY <1>7 DEF ExtraTimeout, Move, Waited, TypeOK, Decided, given
<1>8. CASE FetchCurve
  BY <1>8 DEF FetchCurve, Move, Waited, TypeOK, Decided, given
<1>9. CASE SkipFetch
  BY <1>9 DEF SkipFetch, Move, Waited, TypeOK, Decided, given
<1>10. CASE Quote
  <2>1. Given  BY TypesGive
  <2>2. built'.tokens \in Nat /\ built'.cost \in Nat
    BY <1>10, <2>1, RouteChecked DEF Quote, NoBuy
  <2>3. TypeOK'  BY <1>10, <2>2 DEF Quote, TypeOK, given
  <2>4. Route' = Route  BY <1>10, RouteKept DEF Quote, given
  <2> QED  BY <1>10, <2>3, <2>4 DEF Quote, Decided, NoBuy
<1>11. CASE BuildFails
  BY <1>11 DEF BuildFails, Move, TypeOK, Decided, given
<1>12. CASE Send
  <2>1. TypeOK'  BY <1>12 DEF Send, Move, TypeOK, given, NoPosition
  <2>2. Route' = Route  BY <1>12, RouteKept DEF Send, given
  <2> QED  BY <1>12, <2>1, <2>2 DEF Send, Move, Decided
<1>13. CASE UNCHANGED vars
  <2>1. TypeOK'  BY <1>13 DEF vars, TypeOK, given
  <2>2. Route' = Route  BY <1>13, RouteKept DEF vars, given
  <2> QED  BY <1>13, <2>1, <2>2 DEF vars, Decided
<1> QED
  BY <1>1, <1>2, <1>3, <1>4, <1>5, <1>6, <1>7, <1>8, <1>9, <1>10, <1>11, <1>12, <1>13
  DEF Next, Task, Waits

LEMMA Invariant == Spec => []IInv
<1>1. Init => IInv  BY InitHolds
<1>2. IInv /\ [Next]_vars => IInv'  BY NextHolds
<1> QED  BY <1>1, <1>2, PTL DEF Spec

-----------------------------------------------------------------------------
(* The theorems                                                             *)

\* The curves, lists and amounts a purchase is built from stay in the sets they come
\* from, and every amount it asks for is a number.
THEOREM TypeCorrect == Spec => []TypeOK
<1>1. IInv => TypeOK  BY DEF IInv
<1> QED  BY <1>1, Invariant, PTL

\* No purchase is built on a completed curve, and only one from a mirror with a curve
\* may be for an amount no curve can give.
THEOREM PurchaseChecked == Spec => []QuoteChecked
<1>1. IInv => QuoteChecked
  <2> SUFFICES ASSUME IInv, at \in {"build", "submitted"} PROVE Checked(built)
    BY DEF QuoteChecked, Checked
  <2>1. Route # NoBuy /\ built = Route  BY DEF IInv, Decided
  <2>2. Given  BY TypesGive DEF IInv
  <2> QED  BY <2>1, <2>2, RouteChecked
<1> QED  BY <1>1, Invariant, PTL

\* A purchase mirrored from a purchase, and the sale that is later built from the same
\* snapshot, have the layouts the chain takes: the slots taken over from the mirror
\* are exactly those that may differ.
THEOREM LayoutsTaken == Spec => []LayoutsAccepted
<1>1. IInv => LayoutsAccepted
  <2> SUFFICES ASSUME IInv, at = "submitted", Current(pf)
               PROVE  /\ Accepted(built.accounts, coin.program)
                      /\ SaleAccepted(SellFromMirror(List(pf), pf.program, coin.cashback),
                                      coin.program, coin.cashback)
    BY DEF LayoutsAccepted
  <2>1. Route # NoBuy /\ built = Route  BY DEF IInv, Decided
  <2>2. Given  BY TypesGive DEF IInv
  <2>3. pf.held  BY <2>1, Routes
  <2> DEFINE u == pf.mirror.user
             x == pf.mirror.x
  <2>4. /\ x \in Variant /\ x.program = coin.program /\ pf.program = x.program
        /\ coin.cashback \in BOOLEAN
    BY <2>2, <2>3, CoinsAssumption DEF Given, Prefetch, Mirror, Fits, Current, Coin
  <2>5. List(pf) = BuyLayout(u, x)
    BY DEF List, Listed, Current
  <2> HIDE DEF u, x
  <2>6. Accepted(BuyFromMirror(List(pf), pf.wallet, pf.program), coin.program)
    BY <2>4, <2>5, MirrorAccepted
  <2>7. SaleAccepted(SellFromMirror(List(pf), pf.program, coin.cashback),
                     coin.program, coin.cashback)
    BY <2>4, <2>5, MirrorSaleAccepted
  <2>8. List(pf) # <<>>
    BY <2>5 DEF BuyLayout
  <2>9. bc.creator => ValidWith(List(pf), pf.wallet, pf.program, bc)
    BY <2>4, <2>5, MirrorValid
  <2>10. built.accounts = BuyFromMirror(List(pf), pf.wallet, pf.program)
    BY <2>1, <2>8, <2>9, Routes DEF Purchase
  <2> QED  BY <2>6, <2>7, <2>10
<1> QED  BY <1>1, Invariant, PTL
=============================================================================
