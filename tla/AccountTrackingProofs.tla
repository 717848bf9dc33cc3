------------------------- MODULE AccountTrackingProofs -------------------------
(* Proofs of the type invariant and of the two safety properties of          *)
(* AccountTracking for every set of mints, tasks and cleaners.  OneFetch is   *)
(* inductive with the types.  BalancesAreBacked needs that an update that is  *)
(* being handled keeps its account in the map, which is what the locked       *)
(* entries of handle_account_update are for (Pinned).                         *)
EXTENDS AccountTracking, FiniteSetTheorems, TLAPS

\* The accounts whose update is being handled are mapped.
Pinned == busy \subseteq mapped

IInv == TypeOK /\ OneFetch /\ Pinned /\ BalancesAreBacked

\* The server counts finitely many accounts.
LEMMA AccountsAreFinite ==
    ASSUME NEW S, S \subseteq Account
    PROVE  Cardinality(S) \in Nat
<1>1. IsFiniteSet({"curve", "ata"})
  <2>1. IsFiniteSet({"curve"})
    BY FS_Singleton
  <2>2. IsFiniteSet({"curve"} \cup {"ata"})
    BY <2>1, FS_AddElement
  <2>3. {"curve"} \cup {"ata"} = {"curve", "ata"}
    OBVIOUS
  <2> QED BY <2>2, <2>3
<1>2. IsFiniteSet(Kinds)
  BY <1>1, FS_Subset, KindsAssumption
<1>3. IsFiniteSet(Account)
  BY <1>2, FS_Product, MintsAssumption DEF Account
<1> QED BY <1>3, FS_Subset, FS_CardinalityType

\* The account a task is at is one of its mint.
LEMMA ItsAccount ==
    ASSUME TypeOK, NEW p \in Tasks
    PROVE  /\ mint[p] \in Mints /\ kind[p] \in Kinds \cup {"external"}
           /\ Its(p) \in Account /\ Its(p)[1] = mint[p]
           /\ FirstKind \in Kinds
BY KindsAssumption DEF TypeOK, Its, Account, FirstKind

\* The initial states, with nothing tracked, are in the invariant.
LEMMA InitInv == Init => IInv
<1> SUFFICES ASSUME Init PROVE IInv
  OBVIOUS
<1>1. TypeOK
  BY MintsAssumption, KindsAssumption DEF Init, TypeOK, Labels
<1> QED BY <1>1 DEF Init, IInv, OneFetch, Pinned, BalancesAreBacked

\* Types are kept by the steps of a task that prepares a buy.
LEMMA WarmTypes ==
    ASSUME TypeOK, NEW p \in Warmers,
           WarmStep(p) \/ \E m \in Mints : Warm(p, m)
    PROVE  TypeOK'
<1> USE DEF TypeOK, Labels, mapVars, cacheVars, fetchVars, linkVars, Goto
<1>0. p \in Tasks
  BY DEF Tasks
<1>1. /\ mint[p] \in Mints /\ kind[p] \in Kinds \cup {"external"}
      /\ Its(p) \in Account /\ FirstKind \in Kinds /\ "ata" \in Kinds
  BY <1>0, ItsAccount, KindsAssumption
<1>2. ASSUME NEW m \in Mints, Warm(p, m) PROVE TypeOK'
  BY <1>0, <1>1, <1>2 DEF Warm
<1>3. CASE Map(p)
  BY <1>0, <1>1, <1>3 DEF Map
<1>4. CASE Touch(p)
  BY <1>0, <1>1, <1>4 DEF Touch
<1>5. CASE List(p)
  <2>1. kind[p] \in {"curve", "ata", "external"}
    BY <1>1, KindsAssumption
  <2>2. at' \in [Tasks -> Labels]
    BY <1>0, <1>5, <2>1 DEF List
  <2> QED BY <1>0, <1>1, <1>5, <2>2 DEF List, Notify
<1>6. CASE Ensure(p)
  BY <1>0, <1>1, <1>6 DEF Ensure
<1>7. CASE ClaimFetch(p)
  BY <1>0, <1>1, <1>7 DEF ClaimFetch
<1>8. CASE SyncFetch(p)
  BY <1>0, <1>1, <1>8 DEF SyncFetch
<1>9. CASE Send(p)
  BY <1>0, <1>1, <1>9 DEF Send
<1> QED BY <1>2, <1>3, <1>4, <1>5, <1>6, <1>7, <1>8, <1>9 DEF WarmStep

\* Types are kept by the steps of a task that untracks a mint.
LEMMA UntrackTypes ==
    ASSUME TypeOK, NEW c \in Cleaners, Untrack(c)
    PROVE  TypeOK'
<1> USE DEF TypeOK, Labels, mapVars, cacheVars, fetchVars, linkVars, Goto
<1>0. c \in Tasks
  BY DEF Tasks
<1>1. /\ mint[c] \in Mints /\ Its(c) \in Account /\ "ata" \in Kinds
  BY <1>0, ItsAccount, KindsAssumption
<1>2. CASE Find(c)
  BY <1>0, <1>1, <1>2 DEF Find
<1>3. CASE Unmap(c)
  BY <1>0, <1>1, <1>3 DEF Unmap
<1>4. CASE Unlist(c)
  BY <1>0, <1>1, <1>4 DEF Unlist
<1>5. CASE Uncache(c)
  BY <1>0, <1>1, <1>5 DEF Uncache
<1>6. CASE Untouch(c)
  BY <1>0, <1>1, <1>6 DEF Untouch
<1> QED BY <1>2, <1>3, <1>4, <1>5, <1>6 DEF Untrack

\* Types are kept by what happens to a mint: it goes stale, the pruner takes it
\* up, the request for its curve ends.
LEMMA MintTypes ==
    ASSUME TypeOK, NEW m \in Mints, MintStep(m)
    PROVE  TypeOK'
<1> USE DEF TypeOK, Labels, mapVars, cacheVars, fetchVars, linkVars, taskVars, Goto
<1>1. CASE GoStale(m)
  BY <1>1 DEF GoStale
<1>2. CASE PruneNext(m)
  <2>1. "pruner" \in Tasks /\ FirstKind \in Kinds
    BY <1>2, KindsAssumption DEF PruneNext, Tasks, FirstKind
  <2> QED BY <1>2, <2>1 DEF PruneNext
<1>3. CASE FetchReply(m)
  BY <1>3 DEF FetchReply
<1>4. CASE FetchError(m)
  BY <1>4 DEF FetchError, FetchFails
<1> QED BY <1>1, <1>2, <1>3, <1>4 DEF MintStep

\* Types are kept by a seller that closes a position, and by the pruner's search.
LEMMA SellerTypes ==
    ASSUME TypeOK,
           \/ FindStale
           \/ \E c \in Sellers : CountOpen(c) \/ \E m \in Mints : ClosePosition(c, m)
    PROVE  TypeOK'
<1> USE DEF TypeOK, Labels, mapVars, cacheVars, fetchVars, linkVars, Goto
<1>1. CASE FindStale
  BY <1>1 DEF FindStale
<1>2. ASSUME NEW c \in Sellers, CountOpen(c) PROVE TypeOK'
  <2>1. c \in Tasks /\ FirstKind \in Kinds
    BY <1>2, KindsAssumption DEF Sellers, Tasks, FirstKind
  <2> QED BY <1>2, <2>1 DEF CountOpen
<1>3. ASSUME NEW c \in Sellers, NEW m \in Mints, ClosePosition(c, m) PROVE TypeOK'
  <2>1. c \in Tasks
    BY DEF Sellers, Tasks
  <2> QED BY <1>3, <2>1 DEF ClosePosition
<1> QED BY <1>1, <1>2, <1>3

\* Types are kept by the subscription task.
LEMMA LinkTypes ==
    ASSUME TypeOK, LinkStep
    PROVE  TypeOK'
<1> USE DEF TypeOK, mapVars, cacheVars, fetchVars, linkVars, taskVars
<1>0. Cardinality(listed) \in Nat /\ Cardinality(asked) \in Nat
  BY AccountsAreFinite
<1>1. CASE LookAtList
  BY <1>1 DEF LookAtList
<1>2. CASE Ask
  BY <1>2 DEF Ask
<1>3. CASE Park
  BY <1>3 DEF Park
<1>4. CASE WakeUp
  BY <1>4 DEF WakeUp
<1>5. CASE Connect
  BY <1>0, <1>5 DEF Connect
<1>6. CASE Disconnect
  BY <1>6 DEF Disconnect
<1>7. CASE Resubscribe
  BY <1>0, <1>7 DEF Resubscribe
<1>8. ASSUME NEW a \in Account, TakeUpdate(a) PROVE TypeOK'
  BY <1>8 DEF TakeUpdate
<1>9. CASE WriteUpdate
  <2>1. \A a \in busy : a[1] \in Mints
    BY DEF Account
  <2> QED BY <1>9, <2>1 DEF WriteUpdate
<1> QED BY <1>1, <1>2, <1>3, <1>4, <1>5, <1>6, <1>7, <1>8, <1>9 DEF LinkStep

\* Types are kept by every step.
LEMMA TypesKept == TypeOK /\ [Next]_vars => TypeOK'
<1> SUFFICES ASSUME TypeOK, [Next]_vars PROVE TypeOK'
  OBVIOUS
<1>1. CASE UNCHANGED vars
  BY <1>1 DEF TypeOK, vars, mapVars, cacheVars, fetchVars, linkVars, taskVars
<1>2. CASE Next
  BY <1>2, WarmTypes, UntrackTypes, MintTypes, SellerTypes, LinkTypes DEF Next
<1> QED BY <1>1, <1>2

\* One request per claim: a claim is only taken free, and its end frees it.
LEMMA FetchesKept == TypeOK /\ OneFetch /\ [Next]_vars => OneFetch'
<1> SUFFICES ASSUME TypeOK, OneFetch, [Next]_vars PROVE OneFetch'
  OBVIOUS
<1> USE DEF OneFetch
<1>1. CASE UNCHANGED fetchVars
  BY <1>1 DEF fetchVars
<1>2. ASSUME NEW p \in Warmers, ClaimFetch(p) PROVE OneFetch'
  <2>1. p \in Tasks /\ mint[p] \in Mints /\ calls \in [Mints -> Nat]
    BY DEF Tasks, TypeOK
  <2>2. CASE MayFetch(mint[p])
    BY <1>2, <2>1, <2>2 DEF ClaimFetch, MayFetch
  <2>3. CASE ~MayFetch(mint[p])
    BY <1>1, <1>2, <2>3 DEF ClaimFetch
  <2> QED BY <2>2, <2>3
<1>3. ASSUME NEW m \in Mints, FetchReply(m) \/ FetchError(m) PROVE OneFetch'
  BY <1>3 DEF FetchReply, FetchError, FetchFails, TypeOK
<1>4. \/ UNCHANGED fetchVars
      \/ \E p \in Warmers : ClaimFetch(p)
      \/ \E m \in Mints : FetchReply(m) \/ FetchError(m)
  <2> USE DEF fetchVars
  <2>1. CASE UNCHANGED vars
    BY <2>1 DEF vars
  <2>2. ASSUME NEW p \in Warmers, WarmStep(p) \/ \E m \in Mints : Warm(p, m), ~ClaimFetch(p)
        PROVE  UNCHANGED fetchVars
    BY <2>2 DEF WarmStep, Warm, Map, Touch, List, Ensure, SyncFetch, Send
  <2>3. ASSUME NEW c \in Cleaners, Untrack(c) PROVE UNCHANGED fetchVars
    BY <2>3 DEF Untrack, Find, Unmap, Unlist, Uncache, Untouch
  <2>4. ASSUME NEW m \in Mints, GoStale(m) \/ PruneNext(m) PROVE UNCHANGED fetchVars
    BY <2>4 DEF GoStale, PruneNext
  <2>5. ASSUME \/ FindStale
               \/ \E c \in Sellers : CountOpen(c) \/ \E m \in Mints : ClosePosition(c, m)
        PROVE  UNCHANGED fetchVars
    BY <2>5 DEF FindStale, CountOpen, ClosePosition
  <2>6. ASSUME LinkStep PROVE UNCHANGED fetchVars
    BY <2>6 DEF LinkStep, LookAtList, Ask, Park, WakeUp, Connect, Disconnect, Resubscribe,
                TakeUpdate, WriteUpdate
  <2> QED BY <2>1, <2>2, <2>3, <2>4, <2>5, <2>6 DEF Next, MintStep
<1> QED BY <1>1, <1>2, <1>3, <1>4

\* The steps that leave alone what the cached balances rest on.
Apart ==
    /\ busy' = busy /\ mapped \subseteq mapped' /\ balances' \subseteq balances
    /\ \A c \in Cleaners, m \in Mints : AboutToUncache(c, m) => AboutToUncache(c, m)'

\* They keep the balances backed.
LEMMA ApartKeeps ==
    ASSUME TypeOK, Pinned, BalancesAreBacked, Apart
    PROVE  Pinned' /\ BalancesAreBacked'
BY DEF TypeOK, Pinned, BalancesAreBacked, Apart

\* A task that prepares a buy only adds accounts to the map.
LEMMA WarmApart ==
    ASSUME TypeOK, NEW p \in Warmers,
           WarmStep(p) \/ \E m \in Mints : Warm(p, m)
    PROVE  Apart
<1>1. p \in Tasks /\ p \notin Cleaners
  BY TasksAssumption DEF Tasks
<1>2. busy' = busy /\ mapped \subseteq mapped' /\ balances' = balances
  BY DEF WarmStep, Warm, Map, Touch, List, Ensure, ClaimFetch, SyncFetch, Send, mapVars,
         cacheVars
<1>3. ASSUME NEW c \in Cleaners
      PROVE  at'[c] = at[c] /\ mint'[c] = mint[c] /\ kind'[c] = kind[c]
  <2> USE DEF Goto
  <2>0. c \in Tasks /\ c # p /\ at \in [Tasks -> Labels] /\ DOMAIN mint = Tasks
        /\ DOMAIN kind = Tasks
    BY <1>1 DEF Tasks, TypeOK
  <2>1. ASSUME NEW m \in Mints, Warm(p, m)
        PROVE  at'[c] = at[c] /\ mint'[c] = mint[c] /\ kind'[c] = kind[c]
    BY <2>0, <2>1 DEF Warm
  <2>2. CASE Map(p) \/ Touch(p) \/ List(p)
    BY <2>0, <2>2 DEF Map, Touch, List
  <2>3. CASE Ensure(p) \/ SyncFetch(p) \/ Send(p)
    BY <2>0, <2>3 DEF Ensure, SyncFetch, Send
  <2>4. CASE ClaimFetch(p)
    BY <2>0, <2>4 DEF ClaimFetch
  <2> QED BY <2>1, <2>2, <2>3, <2>4 DEF WarmStep
<1> QED BY <1>2, <1>3 DEF Apart, AboutToUncache

\* Of the steps of untracking, taking the wallet account out of the map is made up
\* for by the cleaner's own promise to empty the cache, and keeping the promise
\* takes the balance away.
LEMMA UntrackBacked ==
    ASSUME TypeOK, Pinned, BalancesAreBacked, NEW c \in Cleaners, Untrack(c)
    PROVE  Pinned' /\ BalancesAreBacked'
<1>1. c \in Tasks /\ mint[c] \in Mints
  BY DEF Tasks, TypeOK
<1>2. /\ busy' = busy /\ mint' = mint
      /\ \A d \in Cleaners \ {c} : at'[d] = at[d] /\ kind'[d] = kind[d]
  <2> USE DEF Goto
  <2>0. /\ DOMAIN at = Tasks /\ DOMAIN kind = Tasks
        /\ \A d \in Cleaners \ {c} : d \in Tasks /\ d # c
    BY DEF Tasks, TypeOK
  <2>1. CASE Find(c) \/ Unmap(c)
    BY <2>0, <2>1 DEF Find, Unmap
  <2>2. CASE Unlist(c)
    BY <2>0, <2>2 DEF Unlist
  <2>3. CASE Uncache(c) \/ Untouch(c)
    BY <2>0, <2>3 DEF Uncache, Untouch
  <2> QED BY <2>1, <2>2, <2>3 DEF Untrack
<1>3. ASSUME NEW d \in Cleaners, NEW m \in Mints, d # c \/ mint[c] # m, AboutToUncache(d, m)
      PROVE  AboutToUncache(d, m)'
  BY <1>2, <1>3 DEF AboutToUncache
<1>4. CASE Find(c) \/ Unlist(c) \/ Untouch(c)
  <2>1. mapped' = mapped /\ balances' = balances
    BY <1>4 DEF Find, Unlist, Untouch, mapVars, cacheVars
  <2>2. ASSUME NEW m \in Mints, AboutToUncache(c, m) PROVE AboutToUncache(c, m)'
    BY <1>1, <1>4, <2>2 DEF Find, Unlist, Untouch, AboutToUncache, Goto, TypeOK
  <2>3. Apart
    BY <1>2, <1>3, <2>1, <2>2 DEF Apart
  <2> QED BY <2>3, ApartKeeps
<1>5. CASE Unmap(c)
  <2>1. /\ mapped' \in {mapped, mapped \ {Its(c)}} /\ balances' = balances
        /\ mapped' # mapped => Its(c) \notin busy
        /\ at[c] = "unmap" /\ at'[c] = "unlist" /\ kind' = kind
    BY <1>1, <1>5 DEF Unmap, Free, cacheVars, Goto, TypeOK
  <2>2. Pinned'
    BY <1>2, <2>1 DEF Pinned
  <2>3. ASSUME NEW m \in balances'
        PROVE  \/ <<m, "ata">> \in mapped'
               \/ \E d \in Cleaners : AboutToUncache(d, m)'
    <3>1. m \in balances /\ m \in Mints
      BY <2>1 DEF TypeOK
    <3>2. CASE \E d \in Cleaners : AboutToUncache(d, m)
      <4>1. PICK d \in Cleaners : AboutToUncache(d, m)
        BY <3>2
      <4>2. d # c
        BY <2>1, <4>1 DEF AboutToUncache
      <4> QED BY <1>3, <3>1, <4>1, <4>2
    <3>3. CASE <<m, "ata">> \in mapped /\ <<m, "ata">> \notin mapped'
      <4>1. Its(c) = <<m, "ata">>
        BY <2>1, <3>3
      <4>2. mint[c] = m /\ kind[c] # "curve"
        BY <4>1 DEF Its
      <4> QED BY <1>2, <2>1, <4>2 DEF AboutToUncache
    <3> QED BY <3>1, <3>2, <3>3 DEF BalancesAreBacked
  <2> QED BY <2>2, <2>3 DEF BalancesAreBacked
<1>6. CASE Uncache(c)
  <2>1. mapped' = mapped /\ balances' = balances \ {mint[c]}
    BY <1>6 DEF Uncache, mapVars
  <2>2. Pinned'
    BY <1>2, <2>1 DEF Pinned
  <2>3. ASSUME NEW m \in balances'
        PROVE  \/ <<m, "ata">> \in mapped'
               \/ \E d \in Cleaners : AboutToUncache(d, m)'
    <3>1. m \in balances /\ m \in Mints /\ mint[c] # m
      BY <2>1 DEF TypeOK
    <3> QED BY <1>3, <2>1, <3>1 DEF BalancesAreBacked
  <2> QED BY <2>2, <2>3 DEF BalancesAreBacked
<1> QED BY <1>4, <1>5, <1>6 DEF Untrack

\* The other steps of sellers and of the pruner touch no task that is untracking.
LEMMA OthersApart ==
    ASSUME TypeOK,
           \/ FindStale
           \/ \E m \in Mints : MintStep(m)
           \/ \E c \in Sellers : CountOpen(c) \/ \E m \in Mints : ClosePosition(c, m)
    PROVE  Apart
<1> USE DEF TypeOK, AboutToUncache, Goto, mapVars, cacheVars, taskVars
<1>1. CASE FindStale
  BY <1>1 DEF FindStale, Apart
<1>2. ASSUME NEW m \in Mints, MintStep(m) PROVE Apart
  <2>1. CASE PruneNext(m)
    <3>1. "pruner" \in Tasks
      BY <2>1 DEF PruneNext, Tasks
    <3>2. busy' = busy /\ mapped' = mapped /\ balances' = balances
      BY <2>1 DEF PruneNext
    <3>3. ASSUME NEW c \in Cleaners, NEW n \in Mints, AboutToUncache(c, n)
          PROVE  AboutToUncache(c, n)'
      <4>1. c # "pruner"
        BY <2>1, <3>3 DEF PruneNext
      <4> QED BY <2>1, <3>3, <4>1 DEF PruneNext
    <3> QED BY <3>2, <3>3 DEF Apart
  <2>2. CASE GoStale(m) \/ FetchReply(m) \/ FetchError(m)
    BY <2>2 DEF GoStale, FetchReply, FetchError, FetchFails, Apart
  <2> QED BY <1>2, <2>1, <2>2 DEF MintStep
<1>3. ASSUME NEW c \in Sellers,
             CountOpen(c) \/ \E m \in Mints : ClosePosition(c, m)
      PROVE  Apart
  <2>1. c \in Tasks
    BY DEF Sellers, Tasks
  <2>2. at[c] \in {"idle", "count"} /\ busy' = busy /\ mapped' = mapped
    BY <1>3 DEF CountOpen, ClosePosition
  <2>3. balances' \subseteq balances
    BY <1>3 DEF CountOpen, ClosePosition
  <2>4. ASSUME NEW d \in Cleaners, NEW n \in Mints, AboutToUncache(d, n)
        PROVE  AboutToUncache(d, n)'
    <3>1. d # c
      BY <2>2, <2>4
    <3>2. d \in Tasks /\ DOMAIN at = Tasks /\ DOMAIN mint = Tasks /\ DOMAIN kind = Tasks
      BY DEF Tasks
    <3>3. CASE CountOpen(c)
      BY <3>1, <3>2, <3>3, <2>4 DEF CountOpen
    <3>4. ASSUME NEW m \in Mints, ClosePosition(c, m) PROVE AboutToUncache(d, n)'
      BY <3>1, <3>2, <3>4, <2>4 DEF ClosePosition
    <3> QED BY <1>3, <3>3, <3>4
  <2> QED BY <2>2, <2>3, <2>4 DEF Apart
<1> QED BY <1>1, <1>2, <1>3

\* The subscription task pins a mapped account, and caches only a pinned one's
\* balance.
LEMMA LinkBacked ==
    ASSUME TypeOK, Pinned, BalancesAreBacked, LinkStep
    PROVE  Pinned' /\ BalancesAreBacked'
<1>1. mapped' = mapped /\ at' = at /\ mint' = mint /\ kind' = kind
  BY DEF LinkStep, LookAtList, Ask, Park, WakeUp, Connect, Disconnect, Resubscribe, TakeUpdate,
         WriteUpdate, mapVars, taskVars
<1>2. \A c \in Cleaners, m \in Mints : AboutToUncache(c, m) => AboutToUncache(c, m)'
  BY <1>1 DEF AboutToUncache
<1>3. CASE WriteUpdate
  <2>1. busy' = {}
    BY <1>3 DEF WriteUpdate
  <2>2. ASSUME NEW m \in balances', m \notin balances
        PROVE  <<m, "ata">> \in mapped
    <3>1. PICK a \in busy : a[2] # "curve" /\ balances' = balances \cup {a[1]}
      BY <1>3, <2>2 DEF WriteUpdate
    <3>2. a[2] \in {"curve", "ata"}
      BY KindsAssumption DEF TypeOK, Account
    <3>3. a \in mapped /\ a \in Mints \X Kinds
      BY DEF Pinned, TypeOK, Account
    <3>4. a = <<a[1], a[2]>> /\ a[2] = "ata" /\ m = a[1]
      BY <2>2, <3>1, <3>3, <3>2
    <3> QED BY <3>3, <3>4
  <2> QED BY <1>1, <1>2, <2>1, <2>2 DEF Pinned, BalancesAreBacked, TypeOK
<1>4. ASSUME NEW a \in Account, TakeUpdate(a) PROVE Pinned' /\ BalancesAreBacked'
  BY <1>1, <1>2, <1>4 DEF TakeUpdate, Pinned, BalancesAreBacked, cacheVars, TypeOK
<1>5. CASE LookAtList \/ Ask \/ Park \/ WakeUp \/ Connect \/ Disconnect \/ Resubscribe
  <2>1. busy' = busy /\ balances' = balances
    BY <1>5 DEF LookAtList, Ask, Park, WakeUp, Connect, Disconnect, Resubscribe, cacheVars
  <2>2. Apart
    BY <1>1, <1>2, <2>1 DEF Apart
  <2> QED BY <2>2, ApartKeeps
<1> QED BY <1>3, <1>4, <1>5 DEF LinkStep

\* Every step keeps the balances backed.
LEMMA BackedKept ==
    TypeOK /\ Pinned /\ BalancesAreBacked /\ [Next]_vars => Pinned' /\ BalancesAreBacked'
<1> SUFFICES ASSUME TypeOK, Pinned, BalancesAreBacked, [Next]_vars
             PROVE  Pinned' /\ BalancesAreBacked'
  OBVIOUS
<1>1. CASE UNCHANGED vars
  <2>1. Apart
    BY <1>1 DEF Apart, AboutToUncache, vars, mapVars, cacheVars, taskVars
  <2> QED BY <2>1, ApartKeeps
<1>2. CASE Next
  BY <1>2, WarmApart, UntrackBacked, OthersApart, LinkBacked, ApartKeeps DEF Next
<1> QED BY <1>1, <1>2

\* The inductive invariant holds in every reachable state.
THEOREM TrackingInvariance == Spec => []IInv
<1>1. IInv /\ [Next]_vars => IInv'
  BY TypesKept, FetchesKept, BackedKept DEF IInv
<1> QED BY InitInv, <1>1, PTL DEF Spec

\* The state keeps its type for every set of mints, tasks and cleaners.
THEOREM TrackingTypes == Spec => []TypeOK
BY TrackingInvariance, PTL DEF IInv

\* A cached balance belongs to a tracked account, or its cleaner is about to drop it.
THEOREM BalancesBacked == Spec => []BalancesAreBacked
BY TrackingInvariance, PTL DEF IInv

\* Never more than one background request for the curve of a mint.
THEOREM FetchedOnce == Spec => []OneFetch
BY TrackingInvariance, PTL DEF IInv
=============================================================================
