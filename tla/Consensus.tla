----------------------------- MODULE Consensus -----------------------------
(***************************************************************************)
(* The consensus engine (src/src/consensus/engine.rs) for one key, that is *)
(* one copy group and one token mint: entries of different keys live under *)
(* different keys of the map and no operation touches two of them.         *)
(*                                                                         *)
(* Time is a logical clock.  A candidate's payload is abstracted to the    *)
(* facts the engine tests: Kinds is the set of combinations of "carries a  *)
(* full buy instruction", "carries its account list", "SOL amount known",  *)
(* "seen before execution" and "came through a wrapper program".  The      *)
(* vector of candidates is a set: its order only breaks ties.              *)
(***************************************************************************)
EXTENDS Naturals, FiniteSets, Sequences

CONSTANTS
    Wallets,            \* target wallets of the group
    Sigs,               \* transaction signatures
    Kinds,              \* payload facts of the signals that can arrive
    Quorums,            \* consensus_min_wallets values that take this path (> 1)
    Timeouts,           \* consensus_timeout_secs values the group may carry
    LastSubmit,         \* bound: no trade arrives after this instant
    MaxNow,             \* bound: the clock stops here
    MaxSent             \* bound: triggers sent in one behaviour

KindType == [instr : BOOLEAN, accounts : BOOLEAN, sol : BOOLEAN,
             pre : BOOLEAN, wrapper : BOOLEAN]

ASSUME WalletsAssumption == IsFiniteSet(Wallets)
ASSUME KindsAssumption   == Kinds \subseteq KindType
ASSUME QuorumsAssumption == Quorums \subseteq Nat \ {0}
ASSUME TimesAssumption   == /\ Timeouts \subseteq Nat
                            /\ LastSubmit \in Nat
                            /\ MaxNow \in Nat
                            /\ MaxSent \in Nat

VARIABLES
    now,                \* the clock
    fed,                \* detected_at of the newest trade taken from the feed
    entry,              \* the map's TokenSignals for the key, or NoEntry
    sent                \* the triggers sent to the buy executor, oldest first

vars == <<now, fed, entry, sent>>

Signal == [wallet : Wallets, sig : Sigs, detected : Nat, kind : Kinds]

Entry == [signals : SUBSET Signal, triggered : BOOLEAN,
          quorum : Nat, window : Nat]

\* The key is absent from the map.
NoEntry == [signals |-> {}, triggered |-> FALSE, quorum |-> 0, window |-> 0]

Trigger == [votes : SUBSET Signal, canonical : Signal, quorum : Nat, window : Nat]

-----------------------------------------------------------------------------
(* BuySignal::counts_for_candidate_consensus and canonical_score            *)

Counts(c) == c.kind.instr \/ c.kind.sol \/ c.kind.wrapper

Bit(b, n) == IF b THEN n ELSE 0

Score(c) ==
    Bit(c.kind.instr, 8) + Bit(c.kind.accounts, 4)
      + Bit(c.kind.sol, 2) + Bit(~c.kind.pre, 1)

\* should_replace_signal: its two branches test the same thing.
Supersedes(new, old) ==
    \/ Score(new) > Score(old)
    \/ Score(new) = Score(old) /\ ~new.kind.pre /\ old.kind.pre

\* tally_votes: the candidates that count, one vote for each candidate.
Counted(signals) == {c \in signals : Counts(c)}

\* Mutant: the raw candidates are counted.
RawTally(signals) == Cardinality(signals)

Tally(signals) == Cardinality(Counted(signals))

Expired(c, window) == now - c.detected >= window

\* Mutant: the retain before the tally is missing.
EveryCandidate(e) == e.signals

Unexpired(e) == {c \in e.signals : ~Expired(c, e.window)}

-----------------------------------------------------------------------------
(* submit_signal                                                            *)

\* Mutant: a timeout of zero seconds is taken as it is.
AsConfigured(t) == t

AtLeastOne(t) == IF t > 1 THEN t ELSE 1

\* Mutant: a running round adopts the group's new quorum.
OpenedAnew(q, t) ==
    IF entry = NoEntry
    THEN [NoEntry EXCEPT !.quorum = q, !.window = AtLeastOne(t)]
    ELSE [entry EXCEPT !.quorum = q]

\* The entry the submission works on: the stored one, whose quorum and
\* timeout stay those of the signal that created it, or a new one.
Opened(q, t) ==
    IF entry = NoEntry
    THEN [NoEntry EXCEPT !.quorum = q, !.window = AtLeastOne(t)]
    ELSE entry

\* Mutant: a wallet's candidate is looked up by wallet and signature.
MineBySignature(s, kept) == {c \in kept : c.wallet = s.wallet /\ c.sig = s.sig}

Mine(s, kept) == {c \in kept : c.wallet = s.wallet}

\* The candidates after the submission: a wallet's better signal replaces its
\* own, a new wallet joins unless the round has already fired.
Merged(s, e, kept) ==
    IF Mine(s, kept) # {}
    THEN LET old == CHOOSE c \in Mine(s, kept) : TRUE
         IN  IF Supersedes(s, old) THEN (kept \ {old}) \cup {s} ELSE kept
    ELSE IF e.triggered THEN kept ELSE kept \cup {s}

SubmitWith(s, q, t) ==
    LET e     == Opened(q, t)
        kept  == Unexpired(e)
        votes == Merged(s, e, kept)
        fire  == votes # kept /\ ~e.triggered /\ Tally(votes) >= e.quorum
    IN  /\ entry' = [e EXCEPT !.signals = votes, !.triggered = @ \/ fire]
        /\ \/ ~fire /\ UNCHANGED sent
           \/ /\ fire
              /\ Len(sent) < MaxSent
              /\ \E best \in Counted(votes) :
                    /\ \A c \in Counted(votes) : Score(c) <= Score(best)
                    /\ sent' = Append(sent, [votes |-> Counted(votes),
                                             canonical |-> best,
                                             quorum |-> e.quorum,
                                             window |-> e.window])

\* Trades come out of one FIFO channel, so their detection times never go back.
Submit ==
    /\ now <= LastSubmit
    /\ \E s \in [wallet : Wallets, sig : Sigs, detected : fed .. now, kind : Kinds],
          q \in Quorums, t \in Timeouts :
          /\ SubmitWith(s, q, t)
          /\ fed' = s.detected
    /\ UNCHANGED now

-----------------------------------------------------------------------------
(* revoke_signal, reject_signal and the cleanup task                        *)

\* No caller today, but part of the engine's interface.
Revoke(w) ==
    /\ entry # NoEntry
    /\ ~entry.triggered
    /\ entry' = [entry EXCEPT !.signals = {c \in @ : c.wallet # w}]
    /\ UNCHANGED <<now, fed, sent>>

\* Mutant: a rejection disarms the round whatever candidates are left.
RejectDisarms(w, sig) ==
    /\ entry # NoEntry
    /\ entry' = [entry EXCEPT !.signals = {c \in @ : ~(c.wallet = w /\ c.sig = sig)},
                              !.triggered = FALSE]
    /\ UNCHANGED <<now, fed, sent>>

\* A landed trade turned out to have failed: take its candidate out and
\* recompute the trigger flag, from the candidates that are left as they are.
Reject(w, sig) ==
    /\ entry # NoEntry
    /\ LET left == {c \in entry.signals : ~(c.wallet = w /\ c.sig = sig)}
       IN  entry' = [entry EXCEPT !.signals = left,
                                  !.triggered = Tally(left) >= entry.quorum]
    /\ UNCHANGED <<now, fed, sent>>

\* Mutant: the cleanup forgets every fired round.
CleanupForgetsFired ==
    /\ entry # NoEntry
    /\ LET kept == Unexpired(entry)
       IN  entry' = IF kept = {} \/ entry.triggered
                    THEN NoEntry ELSE [entry EXCEPT !.signals = kept]
    /\ UNCHANGED <<now, fed, sent>>

\* Mutant: the cleanup forgets fired rounds only.
CleanupKeepsUnfired ==
    /\ entry # NoEntry
    /\ LET kept == Unexpired(entry)
       IN  entry' = IF kept = {} /\ entry.triggered
                    THEN NoEntry ELSE [entry EXCEPT !.signals = kept]
    /\ UNCHANGED <<now, fed, sent>>

\* One round of the ten-second cleanup task.  The second retain has already
\* dropped every candidate that could satisfy its "two timeouts" test.
Cleanup ==
    /\ entry # NoEntry
    /\ LET kept == Unexpired(entry)
           stale == entry.triggered
                      /\ \A c \in kept : now - c.detected > entry.window * 2
       IN  entry' = IF kept = {} \/ stale THEN NoEntry
                                          ELSE [entry EXCEPT !.signals = kept]
    /\ UNCHANGED <<now, fed, sent>>

Tick ==
    /\ now < MaxNow
    /\ now' = now + 1
    /\ UNCHANGED <<fed, entry, sent>>

Init ==
    /\ now = 0
    /\ fed = 0
    /\ entry = NoEntry
    /\ sent = <<>>

Next ==
    \/ Submit
    \/ \E w \in Wallets : Revoke(w)
    \/ \E w \in Wallets, sig \in Sigs : Reject(w, sig)
    \/ Cleanup
    \/ Tick

Spec == Init /\ [][Next]_vars

\* The clock runs and the cleanup task keeps waking up.
FairSpec == Spec /\ WF_vars(Tick) /\ WF_vars(Cleanup)

-----------------------------------------------------------------------------
(* Properties                                                               *)

\* Every variable has its type, the newest detection is not in the future and
\* an open round has a quorum and a window of at least one (submit_signal).
TypeOK ==
    /\ now \in Nat
    /\ fed \in 0 .. now
    /\ entry \in Entry
    /\ entry # NoEntry => entry.quorum > 0 /\ entry.window > 0
    /\ sent \in Seq(Trigger)

\* However a wallet's trades are re-reported, upgraded and expired, the engine
\* holds one candidate for it, so counting candidates counts wallets
\* (submit_signal's find-then-replace, which tally_votes relies on).
OneVotePerWallet ==
    \A c, d \in entry.signals : c.wallet = d.wallet => c = d

\* A complete quorum never sits in the map without having fired: neither a
\* rejection, an expiry nor an upgrade leaves an untriggered entry that a
\* later, unrelated signal would fire.
UntriggeredBelowQuorum ==
    entry # NoEntry /\ ~entry.triggered => Tally(entry.signals) < entry.quorum

\* Every trigger sent to the buy executor carries as many different wallets as
\* the group asked for when the round was opened.
TriggersBackedByQuorum ==
    \A i \in 1 .. Len(sent) :
        /\ Cardinality({c.wallet : c \in sent[i].votes}) >= sent[i].quorum
        /\ sent[i].quorum > 0
        /\ sent[i].canonical \in sent[i].votes

\* The votes behind a trigger were all detected within one timeout of each
\* other, even when the trade feed is read late (the retain of submit_signal
\* runs before the new vote is counted, and the feed is FIFO).
VotesSpanOneWindow ==
    \A i \in 1 .. Len(sent) : \A c, d \in sent[i].votes :
        c.detected < d.detected + sent[i].window

\* A fired round re-arms only when a rejection leaves it short of its quorum,
\* or when every candidate it holds has timed out.
FiredRoundHolds ==
    [][entry.triggered /\ ~entry'.triggered =>
          \/ entry' # NoEntry /\ Tally(entry'.signals) < entry.quorum
          \/ entry' = NoEntry /\ \A c \in entry.signals : Expired(c, entry.window)
      ]_vars

\* Once trades stop arriving the engine forgets the token: no round, fired or
\* short of its quorum, keeps its entry for ever (the cleanup task).
EventuallyForgotten == <>[](entry = NoEntry)

-----------------------------------------------------------------------------
(* The engine implements QuorumTrigger: a round fires once, by the step that *)
(* completes the quorum it was opened with, whatever happens to its votes.   *)

Phase == IF entry = NoEntry THEN "idle"
         ELSE IF entry.triggered THEN "fired" ELSE "collecting"

\* The wallets behind the counted candidates.
Voters == {c.wallet : c \in Counted(entry.signals)}

Promise == INSTANCE QuorumTrigger WITH
    phase  <- Phase,
    quorum <- entry.quorum,
    votes  <- Voters,
    fires  <- Len(sent)

\* submit_signal, reject_signal, revoke_signal and the cleanup task together
\* behave as one abstract round at a time.
ImplementsQuorumTrigger == Promise!Spec
=============================================================================
