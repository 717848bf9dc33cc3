-------------------------- MODULE ConsensusProofs --------------------------
(***************************************************************************)
(* The safety of the consensus engine for any finite set of wallets, any   *)
(* signatures, payloads, quorums and timeouts, and its implementation of   *)
(* QuorumTrigger.                                                          *)
(***************************************************************************)
EXTENDS Consensus, FiniteSetTheorems, TLAPS

\* Nothing in the entry was detected after the newest trade of the feed, and
\* the entry holds finitely many candidates.
HeldInFeedOrder == /\ IsFiniteSet(entry.signals)
                   /\ \A c \in entry.signals : c.detected <= fed

IInv == /\ TypeOK
        /\ HeldInFeedOrder
        /\ OneVotePerWallet
        /\ UntriggeredBelowQuorum
        /\ TriggersBackedByQuorum
        /\ VotesSpanOneWindow

-----------------------------------------------------------------------------
(* Counting                                                                 *)

\* tally_votes returns a number of candidates.
LEMMA TallyNat ==
    ASSUME NEW S, IsFiniteSet(S)
    PROVE  IsFiniteSet(Counted(S)) /\ Tally(S) \in Nat
  BY FS_Subset, FS_CardinalityType DEF Counted, Tally

\* Dropping candidates never raises the tally.
LEMMA TallyMonotone ==
    ASSUME NEW S, IsFiniteSet(S), NEW T \in SUBSET S
    PROVE  IsFiniteSet(T) /\ Tally(T) \in Nat /\ Tally(T) <= Tally(S)
  <1>1. IsFiniteSet(T) BY FS_Subset
  <1>2. IsFiniteSet(Counted(S)) /\ Counted(T) \subseteq Counted(S)
    BY TallyNat DEF Counted
  <1>3. Cardinality(Counted(T)) <= Cardinality(Counted(S)) BY <1>2, FS_Subset
  <1> QED BY <1>1, <1>3, TallyNat DEF Tally

\* With one candidate for each wallet, the tally is the number of wallets.
LEMMA TallyCountsWallets ==
    ASSUME NEW S, IsFiniteSet(S),
           \A c, d \in S : c.wallet = d.wallet => c = d
    PROVE  /\ IsFiniteSet({c.wallet : c \in Counted(S)})
           /\ Cardinality({c.wallet : c \in Counted(S)}) = Tally(S)
  <1> DEFINE W == {c.wallet : c \in Counted(S)}
             f == [c \in Counted(S) |-> c.wallet]
  <1>1. f \in Surjection(Counted(S), W) BY DEF Surjection
  <1>2. \A c, d \in Counted(S) : f[c] = f[d] => c = d BY DEF Counted
  <1>3. f \in Injection(Counted(S), W) BY <1>1, <1>2 DEF Injection, Surjection, IsInjective
  <1>4. IsFiniteSet(Counted(S)) BY TallyNat
  <1> QED BY <1>1, <1>3, <1>4, FS_Surjection DEF Tally

-----------------------------------------------------------------------------
(* submit_signal                                                            *)

\* What one submission works with: the stored entry or a new one, the
\* candidates that survive the retain, and those after the merge.
LEMMA SubmissionShape ==
    ASSUME IInv,
           NEW s \in Signal, s.detected \in fed .. now,
           NEW q \in Quorums, NEW t \in Timeouts
    PROVE  LET e     == Opened(q, t)
               kept  == Unexpired(e)
               votes == Merged(s, e, kept)
           IN  /\ e \in Entry /\ e.quorum > 0 /\ e.window > 0
               /\ kept \in SUBSET entry.signals
               /\ votes \in SUBSET (kept \cup {s})
               /\ votes \in SUBSET Signal
               /\ IsFiniteSet(votes)
               /\ \A c, d \in votes : c.wallet = d.wallet => c = d
               /\ \A c \in votes : c.detected <= s.detected
               /\ \A c, d \in votes : c.detected < d.detected + e.window
               /\ entry # NoEntry => e = entry
               /\ entry = NoEntry => votes = {s} /\ kept = {} /\ ~e.triggered
  <1> DEFINE e     == Opened(q, t)
             kept  == Unexpired(e)
             votes == Merged(s, e, kept)
  <1> USE QuorumsAssumption, TimesAssumption
  <1>1. e \in Entry /\ e.quorum > 0 /\ e.window > 0
    <2>1. CASE entry # NoEntry
      BY <2>1 DEF Opened, IInv, TypeOK, Entry
    <2>2. CASE entry = NoEntry
      <3>1. e = [signals |-> {}, triggered |-> FALSE, quorum |-> q,
                 window |-> AtLeastOne(t)]
        BY <2>2 DEF Opened, NoEntry
      <3>2. AtLeastOne(t) \in Nat /\ AtLeastOne(t) > 0 BY DEF AtLeastOne
      <3> QED BY <3>1, <3>2 DEF Entry
    <2> QED BY <2>1, <2>2
  <1>2. kept \in SUBSET entry.signals /\ kept \in SUBSET Signal
    BY DEF Opened, Unexpired, NoEntry, IInv, TypeOK, Entry
  <1>3. \A c \in kept : now - c.detected < e.window
    BY <1>1, <1>2 DEF Unexpired, Expired, IInv, TypeOK, Entry, Signal
  <1>4. votes \in SUBSET (kept \cup {s}) BY DEF Merged
  <1>5. \A c, d \in votes : c.wallet = d.wallet => c = d
    <2>1. \A c, d \in kept : c.wallet = d.wallet => c = d
      BY <1>2 DEF IInv, OneVotePerWallet
    <2>2. CASE Mine(s, kept) # {}
      <3> DEFINE old == CHOOSE c \in Mine(s, kept) : TRUE
      <3>1. old \in kept /\ old.wallet = s.wallet BY <2>2 DEF Mine
      <3>2. votes = kept \/ votes = (kept \ {old}) \cup {s}
        BY <2>2 DEF Merged
      <3> QED BY <2>1, <3>1, <3>2
    <2>3. CASE Mine(s, kept) = {}
      <3>1. \A c \in kept : c.wallet # s.wallet BY <2>3 DEF Mine
      <3>2. votes = kept \/ votes = kept \cup {s} BY <2>3 DEF Merged
      <3> QED BY <2>1, <3>1, <3>2
    <2> QED BY <2>2, <2>3
  <1>6. IsFiniteSet(votes)
    <2>1. IsFiniteSet(kept) BY <1>2, FS_Subset DEF IInv, HeldInFeedOrder
    <2>2. IsFiniteSet(kept \cup {s}) BY <2>1, FS_AddElement
    <2> QED BY <1>4, <2>2, FS_Subset
  <1>7. /\ fed \in Nat /\ now \in Nat /\ s.detected \in Nat
        /\ fed <= s.detected /\ s.detected <= now
    BY DEF IInv, TypeOK
  <1>8. \A c \in kept : c.detected \in Nat /\ c.detected <= fed
    BY <1>2 DEF IInv, HeldInFeedOrder, Signal
  <1>9. \A c \in votes : c.detected <= s.detected
    BY <1>4, <1>7, <1>8
  <1>10. \A c, d \in votes : c.detected < d.detected + e.window
    <2> SUFFICES ASSUME NEW c \in votes, NEW d \in votes
                 PROVE  c.detected < d.detected + e.window
      OBVIOUS
    <2>1. e.window \in Nat \ {0} BY <1>1 DEF Entry
    <2>2. c.detected \in Nat /\ d.detected \in Nat /\ c.detected <= now
      BY <1>4, <1>7, <1>8, <1>9
    <2>3. CASE d \in kept BY <2>1, <2>2, <2>3, <1>3, <1>7
    <2>4. CASE d = s BY <2>1, <2>2, <2>4, <1>9
    <2> QED BY <2>3, <2>4, <1>4
  <1>11. entry # NoEntry => e = entry BY DEF Opened
  <1>12. entry = NoEntry => votes = {s} /\ kept = {} /\ ~e.triggered
    <2> SUFFICES ASSUME entry = NoEntry
                 PROVE  votes = {s} /\ kept = {} /\ ~e.triggered
      OBVIOUS
    <2>1. kept = {} BY <1>2 DEF NoEntry
    <2>2. ~e.triggered BY DEF Opened, NoEntry
    <2> QED BY <2>1, <2>2 DEF Merged, Mine
  <1> HIDE DEF e, kept, votes
  <1>13. votes \in SUBSET Signal BY <1>2, <1>4
  <1> QED BY <1>1, <1>2, <1>4, <1>5, <1>6, <1>9, <1>10, <1>11, <1>12, <1>13
          DEF e, kept, votes

-----------------------------------------------------------------------------
(* The inductive invariant                                                  *)

\* An engine without entries satisfies the invariant.
LEMMA InitIInv == Init => IInv
  <1> SUFFICES ASSUME Init PROVE IInv
    OBVIOUS
  <1> USE DEF Init, NoEntry
  <1>1. TypeOK BY DEF TypeOK, Entry
  <1>2. HeldInFeedOrder BY FS_EmptySet DEF HeldInFeedOrder
  <1> QED BY <1>1, <1>2 DEF IInv, OneVotePerWallet, UntriggeredBelowQuorum,
                            TriggersBackedByQuorum, VotesSpanOneWindow

\* A submission keeps the invariant: the delicate part is the trigger it sends.
LEMMA SubmitIInv ==
    ASSUME IInv, Submit
    PROVE  IInv'
  <1> PICK s \in [wallet : Wallets, sig : Sigs, detected : fed .. now, kind : Kinds],
           q \in Quorums, t \in Timeouts :
             SubmitWith(s, q, t) /\ fed' = s.detected
    BY DEF Submit
  <1> DEFINE e     == Opened(q, t)
             kept  == Unexpired(e)
             votes == Merged(s, e, kept)
             fire  == votes # kept /\ ~e.triggered /\ Tally(votes) >= e.quorum
  <1>0. s \in Signal /\ s.detected \in fed .. now /\ now' = now
    BY DEF Signal, IInv, TypeOK, Submit
  <1>1. /\ e \in Entry /\ e.quorum > 0 /\ e.window > 0
        /\ kept \in SUBSET entry.signals
        /\ votes \in SUBSET (kept \cup {s})
        /\ votes \in SUBSET Signal
        /\ IsFiniteSet(votes)
        /\ \A c, d \in votes : c.wallet = d.wallet => c = d
        /\ \A c \in votes : c.detected <= s.detected
        /\ \A c, d \in votes : c.detected < d.detected + e.window
        /\ entry # NoEntry => e = entry
        /\ entry = NoEntry => votes = {s} /\ kept = {} /\ ~e.triggered
    BY <1>0, SubmissionShape
  <1>2. /\ entry' = [e EXCEPT !.signals = votes, !.triggered = @ \/ fire]
        /\ \/ ~fire /\ UNCHANGED sent
           \/ /\ fire
              /\ \E best \in Counted(votes) :
                    sent' = Append(sent, [votes |-> Counted(votes),
                                          canonical |-> best,
                                          quorum |-> e.quorum,
                                          window |-> e.window])
    BY DEF SubmitWith
  <1> HIDE DEF e, kept, votes
  <1>3. fire \in BOOLEAN OBVIOUS
  <1>4. /\ entry' \in Entry
        /\ entry'.signals = votes /\ entry'.quorum = e.quorum
        /\ entry'.window = e.window /\ entry'.triggered = (e.triggered \/ fire)
    BY <1>1, <1>2 DEF Entry
  <1>5. Counted(votes) \in SUBSET Signal /\ Tally(votes) \in Nat
    BY <1>1, TallyNat DEF Counted
  <1>6. HeldInFeedOrder' BY <1>1, <1>4 DEF HeldInFeedOrder
  <1>7. OneVotePerWallet' BY <1>1, <1>4 DEF OneVotePerWallet
  <1>8. UntriggeredBelowQuorum'
    <2> SUFFICES ASSUME ~e.triggered, ~fire
                 PROVE  Tally(votes) < e.quorum
      BY <1>4 DEF UntriggeredBelowQuorum
    <2>1. CASE votes # kept
      BY <2>1, <1>1, <1>5 DEF Entry
    <2>2. CASE votes = kept
      <3>1. e = entry /\ entry # NoEntry BY <2>2, <1>1
      <3>2. Tally(entry.signals) < e.quorum
        BY <3>1 DEF IInv, UntriggeredBelowQuorum
      <3>3. Tally(votes) <= Tally(entry.signals) /\ Tally(entry.signals) \in Nat
        BY <2>2, <1>1, TallyMonotone, TallyNat DEF IInv, HeldInFeedOrder
      <3> QED BY <3>1, <3>2, <3>3, <1>1, <1>5 DEF Entry
    <2> QED BY <2>1, <2>2
  <1>9. CASE ~fire /\ UNCHANGED sent
    <2>1. TypeOK'
      BY <1>0, <1>1, <1>4, <1>9 DEF IInv, TypeOK
    <2>2. TriggersBackedByQuorum' /\ VotesSpanOneWindow'
      BY <1>9 DEF IInv, TriggersBackedByQuorum, VotesSpanOneWindow
    <2> QED BY <2>1, <2>2, <1>6, <1>7, <1>8 DEF IInv
  <1>10. CASE fire /\ \E best \in Counted(votes) :
                    sent' = Append(sent, [votes |-> Counted(votes),
                                          canonical |-> best,
                                          quorum |-> e.quorum,
                                          window |-> e.window])
    <2> PICK best \in Counted(votes) :
              sent' = Append(sent, [votes |-> Counted(votes), canonical |-> best,
                                    quorum |-> e.quorum, window |-> e.window])
      BY <1>10
    <2> DEFINE new == [votes |-> Counted(votes), canonical |-> best,
                       quorum |-> e.quorum, window |-> e.window]
    <2>1. new \in Trigger BY <1>1, <1>5 DEF Trigger, Entry
    <2>2. sent \in Seq(Trigger) BY DEF IInv, TypeOK
    <2>3. /\ sent' \in Seq(Trigger)
          /\ Len(sent') = Len(sent) + 1
          /\ \A i \in 1 .. Len(sent) : sent'[i] = sent[i]
          /\ sent'[Len(sent) + 1] = new
      BY <2>1, <2>2
    <2>4. TypeOK' BY <1>0, <1>1, <1>4, <2>3 DEF IInv, TypeOK
    <2>5. /\ Cardinality({c.wallet : c \in new.votes}) >= new.quorum
          /\ new.quorum > 0 /\ new.canonical \in new.votes
      <3>1. Cardinality({c.wallet : c \in Counted(votes)}) = Tally(votes)
        BY <1>1, TallyCountsWallets
      <3> QED BY <3>1, <1>10, <1>1
    <2>6. \A c, d \in new.votes : c.detected < d.detected + new.window
      BY <1>1 DEF Counted
    <2> HIDE DEF new
    <2>7. \A i \in 1 .. Len(sent') : i \in 1 .. Len(sent) \/ sent'[i] = new
      BY <2>2, <2>3
    <2>8. TriggersBackedByQuorum'
      BY <2>3, <2>5, <2>7 DEF IInv, TriggersBackedByQuorum
    <2>9. VotesSpanOneWindow'
      BY <2>3, <2>6, <2>7 DEF IInv, VotesSpanOneWindow
    <2> QED BY <2>4, <2>8, <2>9, <1>6, <1>7, <1>8 DEF IInv
  <1> QED BY <1>2, <1>9, <1>10

\* Fewer candidates, or none: the steps that only take candidates away.
LEMMA ShrinkIInv ==
    ASSUME IInv, UNCHANGED <<now, fed, sent>>,
           \/ entry' = NoEntry
           \/ /\ entry # NoEntry
              /\ \E left \in SUBSET entry.signals, flag \in BOOLEAN :
                    /\ entry' = [entry EXCEPT !.signals = left, !.triggered = flag]
                    /\ ~flag => Tally(left) < entry.quorum
    PROVE  IInv'
  <1>1. TriggersBackedByQuorum' /\ VotesSpanOneWindow'
    BY DEF IInv, TriggersBackedByQuorum, VotesSpanOneWindow
  <1>2. CASE entry' = NoEntry
    <2>1. entry'.signals = {} /\ entry' \in Entry BY <1>2 DEF NoEntry, Entry
    <2>2. TypeOK' BY <1>2, <2>1 DEF IInv, TypeOK
    <2>3. HeldInFeedOrder' BY <2>1, FS_EmptySet DEF HeldInFeedOrder
    <2> QED BY <1>1, <1>2, <2>1, <2>2, <2>3
            DEF IInv, OneVotePerWallet, UntriggeredBelowQuorum
  <1>3. CASE /\ entry # NoEntry
             /\ \E left \in SUBSET entry.signals, flag \in BOOLEAN :
                    /\ entry' = [entry EXCEPT !.signals = left, !.triggered = flag]
                    /\ ~flag => Tally(left) < entry.quorum
    <2> PICK left \in SUBSET entry.signals, flag \in BOOLEAN :
              /\ entry' = [entry EXCEPT !.signals = left, !.triggered = flag]
              /\ ~flag => Tally(left) < entry.quorum
      BY <1>3
    <2>1. /\ entry \in Entry /\ entry' \in Entry /\ entry'.signals = left
          /\ entry'.triggered = flag
          /\ entry'.quorum = entry.quorum /\ entry'.window = entry.window
          /\ entry.quorum > 0 /\ entry.window > 0
      BY <1>3 DEF IInv, TypeOK, Entry
    <2>2. TypeOK' BY <2>1 DEF IInv, TypeOK
    <2>3. HeldInFeedOrder' BY <2>1, FS_Subset DEF IInv, HeldInFeedOrder
    <2>4. OneVotePerWallet' BY <2>1 DEF IInv, OneVotePerWallet
    <2>5. UntriggeredBelowQuorum' BY <2>1 DEF UntriggeredBelowQuorum
    <2> QED BY <1>1, <2>2, <2>3, <2>4, <2>5 DEF IInv
  <1> QED BY <1>2, <1>3

\* Revoking a signature's signals only takes votes away.
LEMMA RevokeIInv ==
    ASSUME IInv, NEW w \in Wallets, Revoke(w)
    PROVE  IInv'
  <1> DEFINE left == {c \in entry.signals : c.wallet # w}
  <1>1. entry # NoEntry /\ ~entry.triggered /\ entry \in Entry
    BY DEF Revoke, IInv, TypeOK
  <1>2. entry' = [entry EXCEPT !.signals = left, !.triggered = FALSE]
    BY <1>1 DEF Revoke, Entry
  <1>3. Tally(left) < entry.quorum
    <2>1. Tally(left) \in Nat /\ Tally(left) <= Tally(entry.signals)
          /\ Tally(entry.signals) \in Nat
      BY TallyMonotone, TallyNat DEF IInv, HeldInFeedOrder
    <2> QED BY <1>1, <2>1 DEF IInv, UntriggeredBelowQuorum, Entry
  <1> QED BY <1>1, <1>2, <1>3, ShrinkIInv DEF Revoke

\* Rejecting a signature takes votes away and may close the round.
LEMMA RejectIInv ==
    ASSUME IInv, NEW w \in Wallets, NEW sig \in Sigs, Reject(w, sig)
    PROVE  IInv'
  <1> DEFINE left == {c \in entry.signals : ~(c.wallet = w /\ c.sig = sig)}
             flag == Tally(left) >= entry.quorum
  <1>1. entry # NoEntry /\ entry \in Entry BY DEF Reject, IInv, TypeOK
  <1>2. entry' = [entry EXCEPT !.signals = left, !.triggered = flag]
    BY DEF Reject
  <1>3. Tally(left) \in Nat BY TallyMonotone DEF IInv, HeldInFeedOrder
  <1>4. ~flag => Tally(left) < entry.quorum BY <1>1, <1>3 DEF Entry
  <1>5. left \in SUBSET entry.signals /\ flag \in BOOLEAN OBVIOUS
  <1>6. UNCHANGED <<now, fed, sent>> BY DEF Reject
  <1> HIDE DEF left, flag
  <1> QED BY <1>1, <1>2, <1>4, <1>5, <1>6, ShrinkIInv

\* A cleanup pass keeps the invariant.
LEMMA CleanupIInv ==
    ASSUME IInv, Cleanup
    PROVE  IInv'
  <1> DEFINE kept == Unexpired(entry)
  <1>1. entry # NoEntry /\ entry \in Entry BY DEF Cleanup, IInv, TypeOK
  <1>2. kept \in SUBSET entry.signals BY DEF Unexpired
  <1>3. entry' = NoEntry \/ entry' = [entry EXCEPT !.signals = kept]
    BY DEF Cleanup
  <1>4. [entry EXCEPT !.signals = kept]
          = [entry EXCEPT !.signals = kept, !.triggered = entry.triggered]
    BY <1>1 DEF Entry
  <1>5. ~entry.triggered => Tally(kept) < entry.quorum
    <2>1. Tally(kept) \in Nat /\ Tally(kept) <= Tally(entry.signals)
          /\ Tally(entry.signals) \in Nat
      BY <1>2, TallyMonotone, TallyNat DEF IInv, HeldInFeedOrder
    <2> QED BY <1>1, <2>1 DEF IInv, UntriggeredBelowQuorum, Entry
  <1>6. entry.triggered \in BOOLEAN BY <1>1 DEF Entry
  <1> HIDE DEF kept
  <1> QED BY <1>1, <1>2, <1>3, <1>4, <1>5, <1>6, ShrinkIInv DEF Cleanup

\* The passage of time only lets signals expire.
LEMMA TickIInv ==
    ASSUME IInv, Tick
    PROVE  IInv'
  <1>1. TypeOK' BY DEF IInv, TypeOK, Tick
  <1> QED BY <1>1 DEF Tick, IInv, HeldInFeedOrder, OneVotePerWallet,
          UntriggeredBelowQuorum, TriggersBackedByQuorum, VotesSpanOneWindow

\* The invariant holds in every reachable state.
THEOREM Invariance == Spec => []IInv
  <1>1. IInv /\ [Next]_vars => IInv'
    <2> SUFFICES ASSUME IInv, [Next]_vars PROVE IInv'
      OBVIOUS
    <2>1. CASE Submit BY <2>1, SubmitIInv
    <2>2. CASE \E w \in Wallets : Revoke(w) BY <2>2, RevokeIInv
    <2>3. CASE \E w \in Wallets, sig \in Sigs : Reject(w, sig) BY <2>3, RejectIInv
    <2>4. CASE Cleanup BY <2>4, CleanupIInv
    <2>5. CASE Tick BY <2>5, TickIInv
    <2>6. CASE UNCHANGED vars
      BY <2>6 DEF vars, IInv, TypeOK, HeldInFeedOrder, OneVotePerWallet,
                  UntriggeredBelowQuorum, TriggersBackedByQuorum, VotesSpanOneWindow
    <2> QED BY <2>1, <2>2, <2>3, <2>4, <2>5, <2>6 DEF Next
  <1> QED BY <1>1, InitIInv, PTL DEF Spec

\* Every reachable state of the engine is well typed.
THEOREM TypeCorrect == Spec => []TypeOK
  <1>1. IInv => TypeOK BY DEF IInv
  <1> QED BY <1>1, Invariance, PTL

\* The engine holds at most one candidate for a wallet.
THEOREM OneVoteEach == Spec => []OneVotePerWallet
  <1>1. IInv => OneVotePerWallet BY DEF IInv
  <1> QED BY <1>1, Invariance, PTL

\* No complete quorum waits in the map without having fired.
THEOREM NoMissedQuorum == Spec => []UntriggeredBelowQuorum
  <1>1. IInv => UntriggeredBelowQuorum BY DEF IInv
  <1> QED BY <1>1, Invariance, PTL

\* Every trigger carries a quorum of different wallets.
THEOREM TriggersAreBacked == Spec => []TriggersBackedByQuorum
  <1>1. IInv => TriggersBackedByQuorum BY DEF IInv
  <1> QED BY <1>1, Invariance, PTL

\* The votes of a trigger lie within one timeout of each other.
THEOREM TriggersAreTimely == Spec => []VotesSpanOneWindow
  <1>1. IInv => VotesSpanOneWindow BY DEF IInv
  <1> QED BY <1>1, Invariance, PTL

-----------------------------------------------------------------------------
(* A fired round holds until it is rejected below its quorum or times out.  *)

\* FiredRoundHolds for every step, of submit_signal in particular: the flag is
\* only ever cleared by reject_signal and by the cleanup task.
THEOREM FiredRoundsHold == Spec => FiredRoundHolds
  <1> DEFINE Held ==
        entry.triggered /\ ~entry'.triggered =>
          \/ entry' # NoEntry /\ Tally(entry'.signals) < entry.quorum
          \/ entry' = NoEntry /\ \A c \in entry.signals : Expired(c, entry.window)
  <1>1. IInv /\ IInv' /\ [Next]_vars => [Held]_vars
    <2> SUFFICES ASSUME IInv, IInv', Next, entry.triggered, ~entry'.triggered
                 PROVE  Held
      BY DEF vars
    <2>1. entry # NoEntry BY DEF NoEntry
    <2>2. CASE entry' # NoEntry
      <3>1. Tally(entry'.signals) < entry'.quorum
        BY <2>2 DEF IInv, UntriggeredBelowQuorum
      <3>2. entry'.quorum = entry.quorum
        <4>1. CASE Submit
          <5> PICK s \in [wallet : Wallets, sig : Sigs, detected : fed .. now,
                          kind : Kinds], q \in Quorums, t \in Timeouts :
                     SubmitWith(s, q, t)
            BY <4>1 DEF Submit
          <5> DEFINE votes == Merged(s, Opened(q, t), Unexpired(Opened(q, t)))
          <5>1. Opened(q, t) = entry BY <2>1 DEF Opened
          <5>2. \E flag : entry' = [entry EXCEPT !.signals = votes, !.triggered = flag]
            BY <5>1 DEF SubmitWith
          <5> HIDE DEF votes
          <5> QED BY <5>2 DEF IInv, TypeOK, Entry
        <4>2. CASE \E w \in Wallets : Revoke(w)
          BY <4>2 DEF Revoke, IInv, TypeOK, Entry
        <4>3. CASE \E w \in Wallets, sig \in Sigs : Reject(w, sig)
          BY <4>3 DEF Reject, IInv, TypeOK, Entry
        <4>4. CASE Cleanup BY <4>4, <2>2 DEF Cleanup, IInv, TypeOK, Entry
        <4>5. CASE Tick BY <4>5 DEF Tick
        <4> QED BY <4>1, <4>2, <4>3, <4>4, <4>5 DEF Next
      <3> QED BY <2>2, <3>1, <3>2
    <2>3. CASE entry' = NoEntry
      <3>1. Cleanup
        <4>1. entry' # NoEntry \/ Cleanup
          <5>1. CASE Submit
            <6> PICK s \in [wallet : Wallets, sig : Sigs, detected : fed .. now,
                            kind : Kinds], q \in Quorums, t \in Timeouts :
                       SubmitWith(s, q, t)
              BY <5>1 DEF Submit
            <6> DEFINE votes == Merged(s, Opened(q, t), Unexpired(Opened(q, t)))
            <6>1. Opened(q, t) = entry BY <2>1 DEF Opened
            <6>2. \E flag : /\ entry' = [entry EXCEPT !.signals = votes,
                                                      !.triggered = @ \/ flag]
              BY <6>1 DEF SubmitWith
            <6> HIDE DEF votes
            <6> QED BY <6>2 DEF IInv, TypeOK, Entry
          <5>2. CASE \E w \in Wallets : Revoke(w) BY <5>2 DEF Revoke
          <5>3. CASE \E w \in Wallets, sig \in Sigs : Reject(w, sig)
            <6>1. entry'.quorum = entry.quorum /\ entry.quorum > 0
              BY <5>3 DEF Reject, IInv, TypeOK, Entry
            <6> QED BY <6>1, <2>3 DEF NoEntry
          <5>4. CASE Tick BY <5>4, <2>1 DEF Tick
          <5> QED BY <5>1, <5>2, <5>3, <5>4 DEF Next
        <4> QED BY <4>1, <2>3
      <3> DEFINE kept == Unexpired(entry)
      <3>2. \/ kept = {}
            \/ \A c \in kept : now - c.detected > entry.window * 2
            \/ entry' = [entry EXCEPT !.signals = kept]
        BY <3>1 DEF Cleanup
      <3>3. \A c \in kept : /\ now - c.detected < entry.window
                            /\ ~(now - c.detected > entry.window * 2)
        BY <2>1 DEF Unexpired, Expired, IInv, TypeOK, Entry, Signal
      <3>4. entry' # [entry EXCEPT !.signals = kept]
        BY <2>1, <2>3 DEF NoEntry, IInv, TypeOK, Entry
      <3>5. kept = {} BY <3>2, <3>3, <3>4
      <3> QED BY <3>5, <2>3 DEF Unexpired
    <2> QED BY <2>2, <2>3
  <1> QED BY <1>1, Invariance, PTL DEF Spec, FiredRoundHolds

-----------------------------------------------------------------------------
(* The engine implements QuorumTrigger                                      *)

\* The abstract specification counts as the detailed one does.
LEMMA SameCount == \A S : Promise!Cardinality(S) = Cardinality(S)
  BY DEF Promise!Cardinality, Cardinality, Promise!IsFiniteSet, IsFiniteSet

\* A step that leaves an entry behind, and what the promise calls it: only the
\* flag before and after it and the number of triggers sent matter.
LEMMA MappedStep ==
    ASSUME IInv, IInv', entry' # NoEntry,
           entry # NoEntry => entry'.quorum = entry.quorum,
           \/ /\ UNCHANGED sent
              /\ entry'.triggered => entry # NoEntry /\ entry.triggered
           \/ /\ ~(entry # NoEntry /\ entry.triggered)
              /\ entry'.triggered
              /\ Tally(entry'.signals) >= entry'.quorum
              /\ Len(sent') = Len(sent) + 1
    PROVE  Promise!Next
  <1>1. /\ Voters' \subseteq Wallets
        /\ Cardinality(Voters') = Tally(entry'.signals)
        /\ Tally(entry'.signals) \in Nat
        /\ entry'.quorum \in Nat \ {0}
        /\ Phase' = IF entry'.triggered THEN "fired" ELSE "collecting"
    <2>1. entry' # NoEntry => Phase' = IF entry'.triggered THEN "fired" ELSE "collecting"
      BY DEF Phase
    <2>2. entry'.signals \in SUBSET Signal /\ entry'.quorum \in Nat \ {0}
      BY DEF IInv, TypeOK, Entry
    <2>3. Voters' \subseteq Wallets BY <2>2 DEF Voters, Counted, Signal
    <2>4. Cardinality({c.wallet : c \in Counted(entry'.signals)}) = Tally(entry'.signals)
      BY TallyCountsWallets DEF IInv, HeldInFeedOrder, OneVotePerWallet
    <2>5. Voters' = {c.wallet : c \in Counted(entry'.signals)}
      BY DEF Voters, Counted, Counts
    <2>6. Tally(entry'.signals) \in Nat BY TallyNat DEF IInv, HeldInFeedOrder
    <2> QED BY <2>1, <2>2, <2>3, <2>4, <2>5, <2>6
  <1>2. ~entry'.triggered => Tally(entry'.signals) < entry'.quorum
    BY DEF IInv, UntriggeredBelowQuorum
  <1>3. /\ Phase = "fired" <=> entry # NoEntry /\ entry.triggered
        /\ Phase = "collecting" => entry # NoEntry
        /\ Phase = "idle" <=> entry = NoEntry
    BY DEF Phase
  <1>4. entry'.triggered \in BOOLEAN /\ entry.quorum \in Nat
    BY DEF IInv, TypeOK, Entry
  <1>5. CASE entry # NoEntry /\ entry.triggered /\ entry'.triggered /\ UNCHANGED sent
    <2>1. Promise!Settle BY <1>1, <1>3, <1>5 DEF Promise!Settle
    <2> QED BY <2>1 DEF Promise!Next
  <1>6. CASE entry # NoEntry /\ entry.triggered /\ ~entry'.triggered /\ UNCHANGED sent
    <2>1. Promise!Retract BY <1>1, <1>2, <1>3, <1>6, SameCount DEF Promise!Retract
    <2> QED BY <2>1 DEF Promise!Next
  <1>7. CASE ~(entry # NoEntry /\ entry.triggered) /\ ~entry'.triggered /\ UNCHANGED sent
    <2>1. Promise!Collect BY <1>1, <1>2, <1>3, <1>7, SameCount DEF Promise!Collect
    <2> QED BY <2>1 DEF Promise!Next
  <1>8. CASE /\ ~(entry # NoEntry /\ entry.triggered)
             /\ entry'.triggered
             /\ Tally(entry'.signals) >= entry'.quorum
             /\ Len(sent') = Len(sent) + 1
    <2>1. Promise!Fire BY <1>1, <1>3, <1>8, SameCount DEF Promise!Fire
    <2> QED BY <2>1 DEF Promise!Next
  <1> QED BY <1>4, <1>5, <1>6, <1>7, <1>8

\* A step that ends with no entry is a Forget or a stutter.
LEMMA ForgetStep ==
    ASSUME IInv, IInv', entry # NoEntry, entry' = NoEntry, UNCHANGED sent
    PROVE  Promise!Next
  <1>1. Phase # "idle" /\ Phase' = "idle" BY DEF Phase
  <1>2. entry'.quorum = 0 /\ entry'.signals = {} BY DEF NoEntry
  <1>3. {c.wallet : c \in Counted(entry'.signals)} = {} BY <1>2 DEF Counted
  <1>4. Voters' = {} BY <1>3 DEF Voters, Counted, Counts
  <1>5. Promise!Forget BY <1>1, <1>2, <1>4 DEF Promise!Forget
  <1> QED BY <1>5 DEF Promise!Next

\* The engine implements QuorumTrigger: every step collects, fires, settles,
\* retracts or forgets a round, or leaves it as it is.
THEOREM Implementation == Spec => ImplementsQuorumTrigger
  <1>1. Init => Promise!Init
    <2> SUFFICES ASSUME Init PROVE Promise!Init
      OBVIOUS
    <2>1. Counted({}) = {} BY DEF Counted
    <2> QED BY <2>1 DEF Init, NoEntry, Promise!Init, Phase, Voters
  <1>2. IInv /\ IInv' /\ [Next]_vars => [Promise!Next]_Promise!vars
    <2> SUFFICES ASSUME IInv, IInv', [Next]_vars
                 PROVE  Promise!Next \/ UNCHANGED Promise!vars
      OBVIOUS
    <2>1. entry \in Entry /\ (entry # NoEntry => entry.quorum > 0)
      BY DEF IInv, TypeOK
    <2>2. CASE Submit
      <3> PICK s \in [wallet : Wallets, sig : Sigs, detected : fed .. now, kind : Kinds],
               q \in Quorums, t \in Timeouts : SubmitWith(s, q, t)
        BY <2>2 DEF Submit
      <3> DEFINE e     == Opened(q, t)
                 kept  == Unexpired(e)
                 votes == Merged(s, e, kept)
                 fire  == votes # kept /\ ~e.triggered /\ Tally(votes) >= e.quorum
      <3>1. s \in Signal /\ s.detected \in fed .. now
        BY DEF Signal, IInv, TypeOK
      <3>2. /\ e \in Entry /\ e.quorum > 0
            /\ votes \in SUBSET Signal
            /\ entry # NoEntry => e = entry
            /\ entry = NoEntry => ~e.triggered
        BY <3>1, SubmissionShape
      <3>3. /\ entry' = [e EXCEPT !.signals = votes, !.triggered = @ \/ fire]
            /\ \/ ~fire /\ UNCHANGED sent
               \/ fire /\ \E r : sent' = Append(sent, r)
        BY DEF SubmitWith
      <3> HIDE DEF e, kept, votes
      <3>4. /\ entry'.signals = votes /\ entry'.quorum = e.quorum
            /\ entry'.triggered = (e.triggered \/ fire)
        BY <3>2, <3>3 DEF Entry
      <3>5. entry' # NoEntry BY <3>2, <3>4 DEF NoEntry
      <3>6. fire => Len(sent') = Len(sent) + 1
        BY <3>3 DEF IInv, TypeOK
      <3>7. CASE ~fire /\ UNCHANGED sent
        BY <3>2, <3>4, <3>5, <3>7, MappedStep
      <3>8. CASE fire /\ \E r : sent' = Append(sent, r)
        <4>1. ~(entry # NoEntry /\ entry.triggered) BY <3>2, <3>8
        <4>2. entry'.triggered /\ Tally(entry'.signals) >= entry'.quorum
          BY <3>4, <3>8
        <4> QED BY <4>1, <4>2, <3>2, <3>4, <3>5, <3>6, <3>8, MappedStep
      <3> QED BY <3>3, <3>7, <3>8
    <2>3. CASE \E w \in Wallets : Revoke(w)
      <3>1. /\ UNCHANGED sent /\ entry # NoEntry
            /\ entry'.quorum = entry.quorum /\ entry'.triggered = entry.triggered
        BY <2>1, <2>3 DEF Revoke, Entry
      <3>2. entry' # NoEntry BY <2>1, <3>1 DEF NoEntry
      <3> QED BY <3>1, <3>2, MappedStep
    <2>4. CASE \E w \in Wallets, sig \in Sigs : Reject(w, sig)
      <3> PICK w \in Wallets, sig \in Sigs : Reject(w, sig) BY <2>4
      <3> DEFINE left == {c \in entry.signals : ~(c.wallet = w /\ c.sig = sig)}
      <3>1. /\ UNCHANGED sent /\ entry # NoEntry
            /\ entry'.quorum = entry.quorum
            /\ entry'.triggered = (Tally(left) >= entry.quorum)
        BY <2>1 DEF Reject, Entry
      <3>2. entry' # NoEntry BY <2>1, <3>1 DEF NoEntry
      <3>3. entry'.triggered => entry.triggered
        <4>1. /\ Tally(left) \in Nat /\ Tally(left) <= Tally(entry.signals)
              /\ Tally(entry.signals) \in Nat
          BY TallyMonotone, TallyNat DEF IInv, HeldInFeedOrder
        <4>2. ~entry.triggered => Tally(entry.signals) < entry.quorum
          BY <3>1 DEF IInv, UntriggeredBelowQuorum
        <4> QED BY <2>1, <3>1, <4>1, <4>2 DEF Entry
      <3> HIDE DEF left
      <3> QED BY <3>1, <3>2, <3>3, MappedStep
    <2>5. CASE Cleanup
      <3>1. UNCHANGED sent /\ entry # NoEntry BY <2>5 DEF Cleanup
      <3>2. CASE entry' = NoEntry BY <3>1, <3>2, ForgetStep
      <3>3. CASE entry' # NoEntry
        <4>1. entry'.quorum = entry.quorum /\ entry'.triggered = entry.triggered
          BY <2>1, <2>5, <3>3 DEF Cleanup, Entry
        <4> QED BY <3>1, <3>3, <4>1, MappedStep
      <3> QED BY <3>2, <3>3
    <2>6. CASE Tick
      BY <2>6 DEF Tick, Promise!vars, Phase, Voters
    <2>7. CASE UNCHANGED vars
      BY <2>7 DEF vars, Promise!vars, Phase, Voters
    <2> QED BY <2>2, <2>3, <2>4, <2>5, <2>6, <2>7 DEF Next
  <1> QED BY <1>1, <1>2, Invariance, PTL DEF Spec, ImplementsQuorumTrigger, Promise!Spec
=============================================================================
