-------------------------- MODULE ControlBotProofs --------------------------
(***************************************************************************)
(* What the bot keeps through any number of commands, events, failed       *)
(* requests and writes, and crashes.  The invariant has three parts that   *)
(* do not need one another: the delivery of the commands, the store and    *)
(* its file, and the statistics with the trade history.                    *)
(***************************************************************************)
EXTENDS ControlBot, FiniteSetTheorems, TLAPS

-----------------------------------------------------------------------------
(* A handler, as the three parts see it                                     *)

\* A command is taken off the batch.
Taken ==
    /\ pc = "batch"
    /\ batch' = Rest
    /\ offset' = (IF batch.first >= offset THEN batch.first + 1 ELSE offset)
    /\ handled' = [handled EXCEPT ![batch.first] = @ + 1]
    /\ UNCHANGED <<log, confirmed, reply, events, history, crashes>>
    /\ pc' \in {"save", "persist", Resume(Rest)}

\* The store is the same, or another one that selects a group and is being saved.
Selects(s) ==
    /\ s = [groups |-> s.groups, selected |-> s.selected, zeroSlot |-> s.zeroSlot]
    /\ Has(s, s.selected)

Stays == UNCHANGED <<store, file>> /\ refused' \in {refused, refused + 1}

Saves ==
    /\ Selects(store) => Selects(store')
    /\ \/ file' = Torn /\ refused' = refused
       \/ file' = file /\ refused' = refused + 1

\* The statistics are the same, or brought up to date and written.
Reports ==
    /\ summaries' \in {summaries, Snapshot(summaries, store)}
    /\ statsFile' \in {statsFile, NoStats}

LEMMA OperateDoes ==
    ASSUME NEW ops, Take(ops), NEW possible \in BOOLEAN, NEW new, Operate(possible, new),
           Selects(store) /\ possible => Selects(new)
    PROVE  Taken /\ (Stays \/ Saves) /\ Reports
<1>1. batch' = Rest  BY DEF Take
<1>2. pc' \in {"save", Resume(Rest)}  BY <1>1 DEF Operate, Save, Done
<1>3. Taken  BY <1>2 DEF Take, Taken, serverVars
<1>4. Reports  BY DEF Operate, Reports
<1>5. CASE possible
  BY <1>3, <1>4, <1>5 DEF Operate, Save, Refusal, Saves
<1>6. CASE ~possible
  BY <1>3, <1>4, <1>6 DEF Operate, Done, Stays, storeVars
<1> QED  BY <1>5, <1>6

\* Every operation leaves a selected group that is there.
LEMMA OperationsSelect ==
    ASSUME NEW s, Selects(s)
    PROVE  /\ Selects(Toggled(s))
           /\ Selects(Added(s))
           /\ \A id : CanDelete(s, id) => Selects(Deleted(s, id))
           /\ \A id : Has(s, id) => Selects(Selected(s, id))
           /\ \A id, on : Selects(Switched(s, id, on))
           /\ \A id, w : Selects(Followed(s, id, w))
           /\ \A id, w : Selects(Unfollowed(s, id, w))
           /\ \A id, g : Selects(Put(s, id, g))
<1>1. Selects(Toggled(s))  BY DEF Selects, Toggled, Has
<1>2. \A id, g : Selects(Put(s, id, g))  BY DEF Selects, Put, Has
<1>3. Selects(Added(s))
  <2> DEFINE id == NextId(s)
             g == [Config EXCEPT !.wallets = {}, !.quorum = 1]
  <2> HIDE DEF id, g
  <2>1. id \in DOMAIN Put(s, id, g).groups  BY DEF Put, Selects
  <2>2. Selects(Put(s, id, g))  BY <1>2
  <2>3. Selects([Put(s, id, g) EXCEPT !.selected = id])
    <3> DEFINE p == Put(s, id, g)
    <3> HIDE DEF p
    <3> QED  BY <2>1, <2>2 DEF Selects, Has, p
  <2> QED  BY <2>3 DEF Added, id, g
<1>4. ASSUME NEW id, CanDelete(s, id)  PROVE Selects(Deleted(s, id))
  <2> DEFINE rest == DOMAIN s.groups \ {id}
  <2>1. rest # {}  BY <1>4 DEF CanDelete, Has
  <2>2. First(rest) \in rest  BY <2>1 DEF First
  <2> HIDE DEF rest
  <2>3. s.selected \in DOMAIN s.groups  BY DEF Selects, Has
  <2> DEFINE g == [i \in rest |-> s.groups[i]]
             v == IF s.selected = id THEN First(rest) ELSE s.selected
  <2>4. DOMAIN g = rest  OBVIOUS
  <2>5. v \in rest  BY <2>2, <2>3 DEF rest
  <2>6. Deleted(s, id) = [[s EXCEPT !.groups = g] EXCEPT !.selected = v]
    BY DEF Deleted, rest
  <2> HIDE DEF g, v
  <2>7. [s EXCEPT !.groups = g] = [groups |-> g, selected |-> s.selected, zeroSlot |-> s.zeroSlot]
    BY DEF Selects
  <2>8. Deleted(s, id) = [groups |-> g, selected |-> v, zeroSlot |-> s.zeroSlot]
    BY <2>6, <2>7
  <2> QED  BY <2>4, <2>5, <2>8 DEF Selects, Has
<1>5. \A id : Has(s, id) => Selects(Selected(s, id))  BY DEF Selects, Selected, Has
<1>6. \A id, on : Selects(Switched(s, id, on))  BY DEF Selects, Switched, Has
<1>7. \A id, w : Selects(Followed(s, id, w))  BY DEF Selects, Followed, Has
<1>8. \A id, w : Selects(Unfollowed(s, id, w))  BY DEF Selects, Unfollowed, Has
<1> QED  BY <1>1, <1>2, <1>3, <1>4, <1>5, <1>6, <1>7, <1>8

LEMMA HandlerDoes ==
    ASSUME Handle
    PROVE  Taken /\ (Stays \/ Saves) /\ Reports
<1> USE OperationsSelect DEF Resume
<1>1. CASE StartStop
  BY <1>1 DEF StartStop, Take, Done, Taken, Stays, Reports, serverVars, storeVars
<1>2. CASE ToggleZeroSlot
  BY <1>2, FlagsAssumption, OperateDoes DEF ToggleZeroSlot
<1>3. CASE AddGroup
  BY <1>3, OperateDoes DEF AddGroup
<1>4. CASE DeleteGroup
  <2>1. CanDelete(store, Now.group) \in BOOLEAN  BY DEF CanDelete, Has
  <2> QED  BY <1>4, <2>1, OperateDoes DEF DeleteGroup
<1>5. CASE UseGroup
  <2>1. Has(store, Now.group) \in BOOLEAN  BY DEF Has
  <2> QED  BY <1>5, <2>1, OperateDoes DEF UseGroup
<1>6. CASE EnableGroup
  <2>1. Has(store, Now.group) \in BOOLEAN  BY DEF Has
  <2> QED  BY <1>6, <2>1, OperateDoes DEF EnableGroup
<1>7. CASE AddWallet
  <2>1. Has(store, Target) \in BOOLEAN  BY DEF Has
  <2> QED  BY <1>7, <2>1, OperateDoes DEF AddWallet
<1>8. CASE RemoveWallet
  <2>1. CanUnfollow(store, Target, Now.wallet) \in BOOLEAN  BY DEF CanUnfollow, Has
  <2> QED  BY <1>8, <2>1, OperateDoes DEF RemoveWallet
<1>9. CASE RenameGroup
  <2>1. Has(store, Target) \in BOOLEAN  BY DEF Has
  <2> QED  BY <1>9, <2>1, OperateDoes DEF RenameGroup
<1>10. CASE SetValue
  <2>1. (Has(store, Target) /\ Accepts(Now.key, Now.raw)) \in BOOLEAN  BY DEF Has, Accepts
  <2> QED  BY <1>10, <2>1, OperateDoes DEF SetValue
<1>11. CASE SetNamed
  BY <1>11, OperateDoes DEF SetNamed
<1>12. CASE Report
  <2>1. Take({"report"}) /\ batch' = Rest  BY <1>12 DEF Report, Take
  <2>2. pc' \in {"persist", Resume(Rest)}  BY <1>12, <2>1 DEF Report, Persist
  <2>3. Taken  BY <2>1, <2>2 DEF Take, Taken, serverVars
  <2> QED  BY <1>12, <2>3 DEF Report, Persist, Refusal, Stays, Reports, storeVars
<1>13. CASE Look
  BY <1>13 DEF Look, Take, Done, Taken, Stays, Reports, serverVars, storeVars
<1> QED
  BY <1>1, <1>2, <1>3, <1>4, <1>5, <1>6, <1>7, <1>8, <1>9, <1>10, <1>11, <1>12, <1>13
  DEF Handle

-----------------------------------------------------------------------------
(* The delivery of the commands                                             *)

Updates == 1..MaxUpdates

More == batch.first <= batch.last

\* What the server has forgotten, what lies before the offset and what lies before the
\* batch is handled.
Handled ==
    /\ \A u \in Updates : u <= confirmed => handled[u] >= 1
    /\ \A u \in Updates : u < offset => handled[u] >= 1
    /\ More => \A u \in Updates : u < batch.first => handled[u] >= 1

\* An update that lies behind the offset may have been handled once more than the
\* program has crashed; no other answer goes back behind the offset.
Once ==
    /\ \A u \in Updates : handled[u] <= crashes + (IF u < offset THEN 1 ELSE 0)
    /\ pc = "down" => \A u \in Updates : handled[u] <= crashes
    /\ reply > 0 => pc = "poll" /\ confirmed + 1 >= offset /\ confirmed < reply
    /\ More => batch.first >= offset

Counts ==
    /\ log \in Seq(Command) /\ Len(log) <= MaxUpdates
    /\ confirmed \in Nat /\ confirmed <= Len(log)
    /\ offset \in Nat /\ offset <= Len(log) + 1
    /\ reply \in Nat /\ reply <= Len(log)
    /\ batch \in [first : Nat \ {0}, last : Nat] /\ batch.last <= Len(log)
    /\ pc = "batch" => More
    /\ pc = "down" => ~More
    /\ handled \in [Updates -> Nat] /\ crashes \in Nat

Delivery == Counts /\ Handled /\ Once

LEMMA DeliveryInit == Init => Delivery
BY BoundsAssumption DEF Init, Delivery, Counts, Handled, Once, More, Updates, NoBatch

\* Steps that neither handle an update nor take or drop an answer.
Aside ==
    /\ UNCHANGED <<log, confirmed, offset, batch, handled, crashes>>
    /\ reply' \in {0, reply}
    /\ reply' > 0 => pc' = "poll"
    /\ pc' = "batch" => More
    /\ pc # "down" /\ pc' # "down"

LEMMA DeliveryAside == Delivery /\ Aside => Delivery'
BY DEF Delivery, Aside, Counts, Handled, Once, More, Updates

LEMMA DeliveryTaken == Delivery /\ Taken => Delivery'
<1> SUFFICES ASSUME Delivery, Taken PROVE Delivery'
  OBVIOUS
<1> DEFINE u0 == batch.first
<1> USE DEF Delivery
<1>1. /\ pc = "batch" /\ batch' = [batch EXCEPT !.first = @ + 1]
      /\ offset' = (IF u0 >= offset THEN u0 + 1 ELSE offset)
      /\ handled' = [handled EXCEPT ![u0] = @ + 1]
      /\ UNCHANGED <<log, confirmed, reply, crashes>>
  BY DEF Taken, Rest
<1>2. MaxUpdates \in Nat  BY BoundsAssumption
<1>3. u0 \in Nat \ {0} /\ batch.last \in Nat /\ u0 <= batch.last /\ batch.last <= Len(log)
      /\ Len(log) \in Nat /\ Len(log) <= MaxUpdates /\ u0 >= offset
  BY <1>1 DEF Counts, More, Once
<1>4. u0 \in Updates  BY <1>2, <1>3 DEF Updates
<1>5. batch'.first = u0 + 1 /\ batch'.last = batch.last
      /\ batch' \in [first : Nat \ {0}, last : Nat]
  BY <1>1, <1>3 DEF Counts
<1>6. offset' = u0 + 1  BY <1>1, <1>3
<1>7. /\ handled' \in [Updates -> Nat]
      /\ handled'[u0] = handled[u0] + 1
      /\ \A u \in Updates : u # u0 => handled'[u] = handled[u]
      /\ handled[u0] \in Nat
  BY <1>1, <1>4 DEF Counts
<1>8. pc' \in {"save", "persist", "batch", "poll"} /\ (pc' = "batch" => More')
  BY <1>1, <1>5 DEF Taken, Resume, Rest, More
<1>9. reply = 0  BY <1>1 DEF Once, Counts
<1>10. Counts'
  BY <1>1, <1>3, <1>5, <1>6, <1>7, <1>8 DEF Counts
<1>11. Handled'
  <2>1. \A u \in Updates : u <= confirmed => handled'[u] >= 1
    BY <1>7 DEF Handled, Counts
  <2>2. \A u \in Updates : u < u0 + 1 => handled'[u] >= 1
    <3> SUFFICES ASSUME NEW u \in Updates, u < u0 + 1 PROVE handled'[u] >= 1
      OBVIOUS
    <3>1. CASE u = u0  BY <1>7, <3>1
    <3>2. CASE u # u0
      <4>1. u \in Nat /\ u < u0  BY <1>3, <3>2 DEF Updates
      <4> QED  BY <1>1, <1>7, <4>1, <3>2 DEF Handled, Counts
    <3> QED  BY <3>1, <3>2
  <2> QED  BY <1>1, <1>5, <1>6, <2>1, <2>2 DEF Handled
<1>12. Once'
  <2>1. \A u \in Updates : handled'[u] <= crashes + (IF u < offset' THEN 1 ELSE 0)
    <3> SUFFICES ASSUME NEW u \in Updates
                 PROVE  handled'[u] <= crashes + (IF u < offset' THEN 1 ELSE 0)
      OBVIOUS
    <3>1. u \in Nat /\ offset \in Nat /\ crashes \in Nat /\ handled[u] \in Nat
      BY DEF Updates, Counts
    <3>2. handled[u] <= crashes + (IF u < offset THEN 1 ELSE 0)  BY DEF Once
    <3>3. CASE u = u0
      <4>1. handled[u] <= crashes  BY <1>3, <3>1, <3>2, <3>3
      <4> QED  BY <1>6, <1>7, <3>1, <3>3, <4>1
    <3>4. CASE u # u0
      BY <1>3, <1>6, <1>7, <3>1, <3>2, <3>4
    <3> QED  BY <3>3, <3>4
  <2> QED  BY <1>1, <1>5, <1>6, <1>8, <1>9, <2>1 DEF Once
<1> QED  BY <1>10, <1>11, <1>12

LEMMA DeliveryAnswer == Delivery /\ ServerAnswers => Delivery'
<1> SUFFICES ASSUME Delivery, ServerAnswers PROVE Delivery'
  OBVIOUS
<1>1. /\ pc = "poll" /\ pc' = pc /\ log' = log /\ offset' = offset /\ batch' = batch
      /\ handled' = handled /\ crashes' = crashes /\ confirmed < Len(log)
      /\ confirmed' = (IF offset > confirmed + 1 THEN offset - 1 ELSE confirmed)
      /\ (reply' = 0 \/ (reply' = Len(log) /\ confirmed' < Len(log)))
  BY DEF ServerAnswers, botVars, bounds, ConfirmedBy
<1>2. /\ confirmed \in Nat /\ offset \in Nat /\ Len(log) \in Nat
      /\ offset <= Len(log) + 1
  BY DEF Delivery, Counts
<1>3. confirmed' \in Nat /\ confirmed' <= Len(log) /\ confirmed' + 1 >= offset
  BY <1>1, <1>2
<1>4. Counts'  BY <1>1, <1>2, <1>3 DEF Delivery, Counts, More
<1>5. Handled'
  <2>1. \A u \in Updates : u <= confirmed' => handled[u] >= 1
    BY <1>1, <1>2 DEF Delivery, Handled, Updates
  <2> QED  BY <1>1, <2>1 DEF Delivery, Handled, More
<1>6. Once'  BY <1>1, <1>3 DEF Delivery, Once, More
<1> QED  BY <1>4, <1>5, <1>6 DEF Delivery

LEMMA DeliveryReply == Delivery /\ TakeReply => Delivery'
<1> SUFFICES ASSUME Delivery, TakeReply PROVE Delivery'
  OBVIOUS
<1>1. /\ pc = "poll" /\ reply > 0 /\ reply' = 0 /\ pc' = "batch"
      /\ batch' = [first |-> confirmed + 1, last |-> reply]
      /\ UNCHANGED <<log, confirmed, offset, handled, crashes>>
  BY DEF TakeReply, serverVars, bounds
<1>2. confirmed \in Nat /\ reply \in Nat /\ confirmed + 1 >= offset /\ offset \in Nat
  BY <1>1 DEF Delivery, Counts, Once
<1>3. confirmed < reply
  BY <1>1 DEF Delivery, Counts, Once
<1>4. Counts'  BY <1>1, <1>2, <1>3 DEF Delivery, Counts, More
<1>5. Handled'  BY <1>1, <1>2 DEF Delivery, Handled, Updates
<1>6. Once'  BY <1>1, <1>2 DEF Delivery, Once
<1> QED  BY <1>4, <1>5, <1>6 DEF Delivery

LEMMA DeliverySend == Delivery /\ UserSends => Delivery'
<1> SUFFICES ASSUME Delivery, UserSends PROVE Delivery'
  OBVIOUS
<1>1. PICK c \in Commands : log' = Append(log, c)  BY DEF UserSends
<1>2. Len(log) < MaxUpdates
      /\ UNCHANGED <<confirmed, offset, reply, pc, batch, handled, crashes>>
  BY DEF UserSends, botVars, bounds
<1>3. log' \in Seq(Command) /\ Len(log') = Len(log) + 1 /\ Len(log) \in Nat
  BY <1>1, CommandsAssumption DEF Delivery, Counts
<1>4. Counts'  BY <1>2, <1>3, BoundsAssumption DEF Delivery, Counts, More
<1>5. Handled'  BY <1>2 DEF Delivery, Handled, More
<1>6. Once'  BY <1>2 DEF Delivery, Once, More
<1> QED  BY <1>4, <1>5, <1>6 DEF Delivery

LEMMA DeliveryCrash == Delivery /\ Crash => Delivery'
<1> SUFFICES ASSUME Delivery, Crash PROVE Delivery'
  OBVIOUS
<1>1. /\ pc' = "down" /\ crashes' = crashes + 1 /\ reply' = 0 /\ batch' = NoBatch
      /\ UNCHANGED <<log, confirmed, offset, handled>>
  BY DEF Crash, serverVars
<1>2. batch' \in [first : Nat \ {0}, last : Nat] /\ batch'.last = 0 /\ ~More'
  BY <1>1 DEF NoBatch, More
<1>3. Counts'  BY <1>1, <1>2 DEF Delivery, Counts
<1>4. Handled'  BY <1>1, <1>2 DEF Delivery, Handled
<1>5. Once'
  <2>1. \A u \in Updates : handled[u] <= crashes'
    <3> SUFFICES ASSUME NEW u \in Updates PROVE handled[u] <= crashes'
      OBVIOUS
    <3>1. handled[u] \in Nat /\ crashes \in Nat  BY DEF Delivery, Counts
    <3>2. handled[u] <= crashes + 1  BY <3>1 DEF Delivery, Once
    <3> QED  BY <1>1, <3>2
  <2>2. \A u \in Updates : handled[u] \in Nat /\ crashes \in Nat  BY DEF Delivery, Counts
  <2> QED  BY <1>1, <1>2, <2>1, <2>2 DEF Once
<1> QED  BY <1>3, <1>4, <1>5 DEF Delivery

LEMMA DeliveryRestart == Delivery /\ Restart => Delivery'
<1> SUFFICES ASSUME Delivery, Restart PROVE Delivery'
  OBVIOUS
<1>1. /\ pc = "down" /\ offset' = 0
      /\ UNCHANGED <<log, confirmed, reply, batch, handled, crashes>>
  BY DEF Restart, serverVars
<1>2. pc' \in {"persist", Resume(NoBatch)}  BY DEF Restart, Persist
<1>3. pc' \in {"persist", "poll"}  BY <1>2 DEF Resume, NoBatch
<1>4. reply = 0  BY <1>1 DEF Delivery, Once, Counts
<1>5. Counts'  BY <1>1, <1>3 DEF Delivery, Counts, More
<1>6. Handled'  BY <1>1 DEF Delivery, Handled, Updates, More, Counts
<1>7. Once'  BY <1>1, <1>3, <1>4 DEF Delivery, Once, Updates, More, Counts
<1> QED  BY <1>5, <1>6, <1>7 DEF Delivery

LEMMA DeliveryNext == Delivery /\ [Next]_vars => Delivery'
<1> SUFFICES ASSUME Delivery, [Next]_vars PROVE Delivery'
  OBVIOUS
<1> USE DEF serverVars, botVars, bounds, storeVars, statVars, Resume, More
<1>0. (reply > 0 => pc = "poll") /\ (pc = "batch" => More)  BY DEF Delivery, Once, Counts
<1>1. CASE Saved
  BY <1>0, <1>1, DeliveryAside DEF Saved, Aside
<1>2. CASE Persisted
  BY <1>0, <1>2, DeliveryAside DEF Persisted, Aside
<1>3. CASE TakeReply
  BY <1>3, DeliveryReply
<1>4. CASE Wake
  BY <1>0, <1>4, DeliveryAside DEF Wake, Aside
<1>5. CASE TellOperator
  BY <1>0, <1>5, DeliveryAside DEF TellOperator, TakeEvent, Aside
<1>6. CASE RecordEvent
  BY <1>0, <1>6, DeliveryAside DEF RecordEvent, TakeEvent, Persist, Aside
<1>7. CASE AppendHistory
  BY <1>0, <1>7, DeliveryAside DEF AppendHistory, TakeEvent, Aside
<1>8. CASE RecordClosed
  BY <1>0, <1>8, DeliveryAside DEF RecordClosed, Persist, Aside
<1>9. CASE Handle
  BY <1>9, HandlerDoes, DeliveryTaken
<1>10. CASE Crash
  BY <1>10, DeliveryCrash
<1>11. CASE Restart
  BY <1>11, DeliveryRestart
<1>12. CASE UserSends
  BY <1>12, DeliverySend
<1>13. CASE ServerAnswers
  BY <1>13, DeliveryAnswer
<1>14. CASE PollFails
  BY <1>0, <1>14, DeliveryAside DEF PollFails, Aside
<1>15. CASE EventArrives
  BY <1>0, <1>15, DeliveryAside DEF EventArrives, Aside
<1>16. CASE UNCHANGED vars
  BY <1>16 DEF vars, Delivery, Counts, Handled, Once
<1> QED
  BY <1>1, <1>2, <1>3, <1>4, <1>5, <1>6, <1>7, <1>8, <1>9, <1>10, <1>11, <1>12, <1>13, <1>14,
     <1>15, <1>16
  DEF Next, BotStep

\* The delivery part of the invariant.
THEOREM Delivers == Spec => []Delivery
BY DeliveryInit, DeliveryNext, PTL DEF Spec

\* No update is forgotten by the server before its command was handled, whatever
\* crashes, fails or is dropped in between.
THEOREM NoneLost == Spec => []NoCommandLost
<1>1. Delivery => NoCommandLost
  BY BoundsAssumption DEF Delivery, Counts, Handled, NoCommandLost, Updates
<1> QED  BY <1>1, Delivers, PTL

\* A command takes effect once, and at most once more for every crash.
THEOREM OncePerRun == Spec => []HandledOncePerRun
<1>1. Delivery => HandledOncePerRun
  BY BoundsAssumption DEF Delivery, Counts, Once, HandledOncePerRun, Updates
<1> QED  BY <1>1, Delivers, PTL

-----------------------------------------------------------------------------
(* The store and its file                                                   *)

\* The file is what a write that was cut short left, or a whole store; and unless a write
\* was refused it is the one the bot works with, if it can be read at all.
StoreInv ==
    /\ Selects(store)
    /\ file # Torn => Selects(file)
    /\ refused \in Nat
    /\ refused = 0 /\ Readable(file) => file = store

LEMMA DefaultSelects == Selects(Default)
BY DEF Selects, Default, Has

LEMMA LoadedSelects ==
    ASSUME file # Torn => Selects(file)
    PROVE  Selects(Loaded(file)) /\ (Readable(file) => Loaded(file) = file)
<1>1. CASE ~Readable(file)
  BY <1>1, DefaultSelects DEF Loaded
<1>2. CASE Readable(file)
  <2>1. Selects(file)  BY <1>2 DEF Readable
  <2>2. Loaded(file) = [file EXCEPT !.selected = file.selected]
    BY <1>2, <2>1 DEF Loaded, Selects
  <2>3. Loaded(file) = file  BY <2>1, <2>2 DEF Selects
  <2> QED  BY <2>1, <2>3
<1> QED  BY <1>1, <1>2

LEMMA StoreInvInit == Init => StoreInv
BY DefaultSelects DEF Init, StoreInv, Readable

LEMMA StoreInvNext == StoreInv /\ [Next]_vars => StoreInv'
<1> SUFFICES ASSUME StoreInv, [Next]_vars PROVE StoreInv'
  OBVIOUS
<1> USE DEF bounds, storeVars, StoreInv, Stays
<1>1. ASSUME Stays PROVE StoreInv'
  BY <1>1 DEF Selects, Has, Readable, Finite
<1>2. CASE Saved
  BY <1>2 DEF Saved, Selects, Has
<1>3. CASE Persisted
  BY <1>1, <1>3 DEF Persisted
<1>4. CASE TakeReply
  BY <1>1, <1>4 DEF TakeReply
<1>5. CASE Wake
  BY <1>1, <1>5 DEF Wake
<1>6. CASE TellOperator
  BY <1>1, <1>6 DEF TellOperator
<1>7. CASE RecordEvent
  BY <1>1, <1>7 DEF RecordEvent, Persist, Refusal
<1>8. CASE AppendHistory
  BY <1>1, <1>8 DEF AppendHistory, Refusal
<1>9. CASE RecordClosed
  BY <1>1, <1>9 DEF RecordClosed, Persist, Refusal
<1>10. CASE Handle
  <2>1. CASE Stays  BY <1>1, <2>1
  <2>2. CASE Saves  BY <2>2 DEF Saves, Readable, Selects, Has
  <2> QED  BY <1>10, <2>1, <2>2, HandlerDoes
<1>11. CASE Crash
  BY <1>1, <1>11 DEF Crash
<1>12. CASE Restart
  <2>1. store' = Loaded(file) /\ file' = file  BY <1>12 DEF Restart
  <2>2. refused' \in {refused, refused + 1}  BY <1>12 DEF Restart, Persist, Refusal
  <2>3. Selects(store') /\ (Readable(file) => store' = file)  BY <2>1, LoadedSelects
  <2> QED  BY <2>1, <2>2, <2>3 DEF Selects, Has, Readable, Finite
<1>13. CASE UserSends
  BY <1>1, <1>13 DEF UserSends
<1>14. CASE ServerAnswers
  BY <1>1, <1>14 DEF ServerAnswers
<1>15. CASE PollFails
  BY <1>1, <1>15 DEF PollFails
<1>16. CASE EventArrives
  BY <1>1, <1>16 DEF EventArrives
<1>17. CASE UNCHANGED vars
  BY <1>1, <1>17 DEF vars
<1> QED
  BY <1>2, <1>3, <1>4, <1>5, <1>6, <1>7, <1>8, <1>9, <1>10, <1>11, <1>12, <1>13, <1>14,
     <1>15, <1>16, <1>17
  DEF Next, BotStep

\* The part of the invariant about the groups.
THEOREM StoreKept == Spec => []StoreInv
BY StoreInvInit, StoreInvNext, PTL DEF Spec

\* A group is always selected and there, after any deletion, restart or damaged file.
THEOREM GroupIsSelected == Spec => []SelectionExists
<1>1. StoreInv => SelectionExists  BY DEF StoreInv, Selects, SelectionExists
<1> QED  BY <1>1, StoreKept, PTL

\* A restart reads back the groups the operator was shown, unless a write was cut short
\* or refused, or a setting is a number JSON cannot hold.
THEOREM RestartReadsBack == Spec => []RestartReadsStore
<1>1. StoreInv => RestartReadsStore
  BY LoadedSelects DEF StoreInv, RestartReadsStore, Readable
<1> QED  BY <1>1, StoreKept, PTL

-----------------------------------------------------------------------------
(* The statistics and the trade history                                     *)

\* Of the channel and of the history it only matters that they are sequences.
IsSeq(s) == \E S : s \in Seq(S)

LEMMA SequenceStays ==
    ASSUME NEW s, IsSeq(s)
    PROVE  /\ \A x : IsSeq(Append(s, x)) /\ (s # <<>> => Head(Append(s, x)) = Head(s))
           /\ \A x : Append(s, x) # <<>>
           /\ s # <<>> => IsSeq(Tail(s))
<1>1. PICK S : s \in Seq(S)  BY DEF IsSeq
<1>2. ASSUME NEW x
      PROVE  /\ Append(s, x) \in Seq(S \cup {x}) /\ Append(s, x) # <<>>
             /\ s # <<>> => Head(Append(s, x)) = Head(s)
  <2>1. s \in Seq(S \cup {x})  BY <1>1
  <2> QED  BY <2>1
<1>3. s # <<>> => Tail(s) \in Seq(S)  BY <1>1
<1> QED  BY <1>2, <1>3 DEF IsSeq

Shown(stats) ==
    \A id \in DOMAIN stats :
        /\ stats[id] \in [Counters -> Nat]
        /\ stats[id]["closed"] <= Lines(id) + refused

\* Nothing counts more closed trades than have a line, and the one that is being counted
\* has its line already.
StatsInv ==
    /\ IsSeq(history) /\ refused \in Nat
    /\ IsSeq(events)
    /\ Shown(summaries) /\ Shown(statsFile)
    /\ pc = "record" =>
          /\ events # <<>> /\ Head(events).kind = "closed"
          /\ Known(summaries, Head(events).group)["closed"] + 1
                 <= Lines(Head(events).group) + refused

LEMMA LinesNat ==
    ASSUME IsSeq(history), NEW id
    PROVE  Lines(id) \in Nat
<1>1. DOMAIN history = 1..Len(history) /\ Len(history) \in Nat  BY DEF IsSeq
<1>2. IsFiniteSet(1..Len(history))  BY <1>1, FS_Interval
<1>3. IsFiniteSet({n \in DOMAIN history : history[n] = id})
  BY <1>1, <1>2, FS_Subset
<1> QED  BY <1>3, FS_CardinalityType DEF Lines

\* A new line counts for its group and for no other.
LEMMA LinesAppend ==
    ASSUME IsSeq(history), NEW g, history' = Append(history, g), NEW id
    PROVE  Lines(id)' = Lines(id) + (IF id = g THEN 1 ELSE 0)
<1> DEFINE old == {n \in DOMAIN history : history[n] = id}
           new == {n \in DOMAIN history' : history'[n] = id}
           k == Len(history) + 1
<1>1. DOMAIN history = 1..Len(history) /\ Len(history) \in Nat  BY DEF IsSeq
<1>2. DOMAIN history' = 1..k /\ history'[k] = g
      /\ \A n \in DOMAIN history : history'[n] = history[n]
  BY <1>1 DEF IsSeq
<1>3. IsFiniteSet(old)
  <2>1. IsFiniteSet(1..Len(history))  BY <1>1, FS_Interval
  <2> QED  BY <1>1, <2>1, FS_Subset
<1>4. k \notin old  BY <1>1
<1>5. new = IF id = g THEN old \cup {k} ELSE old
  BY <1>1, <1>2
<1>6. Cardinality(old) \in Nat  BY <1>3, FS_CardinalityType
<1>7. Cardinality(new) = Cardinality(old) + (IF id = g THEN 1 ELSE 0)
  <2> HIDE DEF old, new, k
  <2>1. Cardinality(old \cup {k}) = Cardinality(old) + 1  BY <1>3, <1>4, FS_AddElement
  <2>2. CASE id = g  BY <1>5, <2>1, <2>2
  <2>3. CASE id # g  BY <1>5, <1>6, <2>3
  <2> QED  BY <2>2, <2>3
<1> QED  BY <1>7 DEF Lines

\* Counting an event adds one to its counter of its group.
LEMMA CountedIs ==
    ASSUME NEW e, e.kind \in Counters,
           \A id \in DOMAIN summaries : summaries[id] \in [Counters -> Nat],
           NEW id \in DOMAIN Counted(e)
    PROVE  /\ Counted(e)[id] \in [Counters -> Nat]
           /\ id # e.group => id \in DOMAIN summaries /\ Counted(e)[id] = summaries[id]
           /\ id = e.group =>
                 Counted(e)[id]["closed"] =
                    Known(summaries, id)["closed"] + (IF e.kind = "closed" THEN 1 ELSE 0)
<1> DEFINE known == Known(summaries, e.group)
<1>1. known \in [Counters -> Nat]  BY DEF Known, Blank
<1>2. id \in DOMAIN summaries \cup {e.group}
      /\ Counted(e)[id] = IF id = e.group THEN [Known(summaries, id) EXCEPT ![e.kind] = @ + 1]
                          ELSE summaries[id]
  BY DEF Counted
<1>3. CASE id # e.group  BY <1>2, <1>3
<1>4. CASE id = e.group
  <2> HIDE DEF known
  <2>1. Counted(e)[id] = [known EXCEPT ![e.kind] = known[e.kind] + 1]  BY <1>2, <1>4 DEF known
  <2>2. e.kind \in Counters /\ "closed" \in Counters  BY DEF Counters
  <2>3. known[e.kind] \in Nat /\ known["closed"] \in Nat  BY <1>1, <2>2
  <2> QED  BY <1>1, <1>4, <2>1, <2>2, <2>3 DEF known
<1> QED  BY <1>3, <1>4

\* The summaries that are written are those that are known, and blank ones.
LEMMA SnapshotShown ==
    ASSUME NEW stats, NEW s, Shown(stats), IsSeq(history), refused \in Nat
    PROVE  Shown(Snapshot(stats, s))
<1>1. ASSUME NEW id \in DOMAIN Snapshot(stats, s)
      PROVE  /\ Snapshot(stats, s)[id] \in [Counters -> Nat]
             /\ Snapshot(stats, s)[id]["closed"] <= Lines(id) + refused
  <2>1. Snapshot(stats, s)[id] = Known(stats, id)  BY <1>1 DEF Snapshot
  <2>2. Lines(id) \in Nat  BY LinesNat
  <2>3. CASE id \in DOMAIN stats  BY <2>1, <2>3 DEF Known, Shown
  <2>4. CASE id \notin DOMAIN stats
    <3>1. Snapshot(stats, s)[id] = Blank  BY <2>1, <2>4 DEF Known
    <3>2. Blank \in [Counters -> Nat] /\ Blank["closed"] = 0  BY DEF Blank, Counters
    <3> QED  BY <2>2, <3>1, <3>2
  <2> QED  BY <2>3, <2>4
<1> HIDE DEF Snapshot
<1> QED  BY <1>1 DEF Shown

\* Lines are only added, and refused writes only counted.
Grows ==
    /\ IsSeq(history') /\ refused' \in Nat /\ refused <= refused'
    /\ \A id : Lines(id) \in Nat /\ Lines(id)' \in Nat /\ Lines(id) <= Lines(id)'

LEMMA HistoryStays ==
    ASSUME IsSeq(history), refused \in Nat, history' = history,
           refused' \in {refused, refused + 1}
    PROVE  Grows
<1>1. \A id : Lines(id) \in Nat  BY LinesNat
<1>2. \A id : Lines(id)' = Lines(id)  BY DEF Lines
<1> QED  BY <1>1, <1>2 DEF Grows

\* What was backed stays so.
LEMMA ShownStays ==
    ASSUME NEW stats, Shown(stats), refused \in Nat, Grows
    PROVE  \A id \in DOMAIN stats :
              /\ stats[id] \in [Counters -> Nat]
              /\ stats[id]["closed"] <= Lines(id)' + refused'
<1> SUFFICES ASSUME NEW id \in DOMAIN stats
             PROVE  /\ stats[id] \in [Counters -> Nat]
                    /\ stats[id]["closed"] <= Lines(id)' + refused'
  OBVIOUS
<1>1. stats[id] \in [Counters -> Nat] /\ stats[id]["closed"] <= Lines(id) + refused
  BY DEF Shown
<1>2. stats[id]["closed"] \in Nat  BY <1>1 DEF Counters
<1>3. /\ Lines(id) \in Nat /\ Lines(id)' \in Nat /\ Lines(id) <= Lines(id)'
      /\ refused' \in Nat /\ refused <= refused'
  BY DEF Grows
<1> QED  BY <1>1, <1>2, <1>3

LEMMA BlankShown == IsSeq(history) /\ refused \in Nat => Shown(NoStats)
BY DEF Shown, NoStats

LEMMA StatsInit == Init => StatsInv
<1> SUFFICES ASSUME Init PROVE StatsInv
  OBVIOUS
<1>1. /\ IsSeq(history) /\ refused \in Nat /\ IsSeq(events) /\ pc = "persist"
      /\ statsFile = NoStats /\ summaries = Snapshot(NoStats, Default)
  <2>1. <<>> \in Seq({})  OBVIOUS
  <2> QED  BY <2>1 DEF Init, IsSeq
<1>2. Shown(NoStats)  BY <1>1, BlankShown
<1>3. Shown(Snapshot(NoStats, Default))  BY <1>1, <1>2, SnapshotShown
<1> QED  BY <1>1, <1>2, <1>3 DEF StatsInv

\* What is known of a group is backed by its lines.
LEMMA KnownBacked ==
    ASSUME StatsInv, NEW g
    PROVE  /\ Known(summaries, g)["closed"] \in Nat
           /\ Known(summaries, g)["closed"] <= Lines(g) + refused
<1>1. Lines(g) \in Nat /\ refused \in Nat  BY LinesNat DEF StatsInv
<1>2. "closed" \in Counters  BY DEF Counters
<1>3. CASE g \in DOMAIN summaries
  BY <1>2, <1>3 DEF Known, StatsInv, Shown
<1>4. CASE g \notin DOMAIN summaries
  <2>1. Known(summaries, g)["closed"] = 0  BY <1>2, <1>4 DEF Known, Blank
  <2> QED  BY <1>1, <2>1
<1> QED  BY <1>3, <1>4

\* An event may be counted when it closes nothing or its line is there.
LEMMA CountedShown ==
    ASSUME StatsInv, NEW e, e.kind \in Counters,
           e.kind = "closed" => Known(summaries, e.group)["closed"] + 1 <= Lines(e.group) + refused
    PROVE  Shown(Counted(e))
<1>1. ASSUME NEW id \in DOMAIN Counted(e)
      PROVE  /\ Counted(e)[id] \in [Counters -> Nat]
             /\ Counted(e)[id]["closed"] <= Lines(id) + refused
  <2>1. \A i \in DOMAIN summaries : /\ summaries[i] \in [Counters -> Nat]
                                    /\ summaries[i]["closed"] <= Lines(i) + refused
    BY DEF StatsInv, Shown
  <2>2. /\ Counted(e)[id] \in [Counters -> Nat]
        /\ id # e.group => id \in DOMAIN summaries /\ Counted(e)[id] = summaries[id]
        /\ id = e.group =>
              Counted(e)[id]["closed"] =
                 Known(summaries, id)["closed"] + (IF e.kind = "closed" THEN 1 ELSE 0)
    BY <2>1, CountedIs
  <2>3. CASE id # e.group  BY <2>1, <2>2, <2>3
  <2>4. CASE id = e.group
    <3>1. /\ Known(summaries, id)["closed"] \in Nat
          /\ Known(summaries, id)["closed"] <= Lines(id) + refused
      BY KnownBacked
    <3>2. CASE e.kind = "closed"  BY <2>2, <2>4, <3>2
    <3>3. CASE e.kind # "closed"
      <4>1. Counted(e)[id]["closed"] = Known(summaries, id)["closed"]
        BY <2>2, <2>4, <3>1, <3>3
      <4> QED  BY <2>2, <3>1, <4>1
    <3> QED  BY <3>2, <3>3
  <2> QED  BY <2>3, <2>4
<1> HIDE DEF Counted
<1> QED  BY <1>1 DEF Shown

\* Steps that leave the history alone and only show what is backed.
Keeps ==
    /\ history' = history /\ refused' \in {refused, refused + 1}
    /\ Shown(summaries') /\ Shown(statsFile')
    /\ IsSeq(events')
    /\ pc' # "record"

LEMMA ShownNext ==
    ASSUME StatsInv, Grows, Shown(summaries'), Shown(statsFile')
    PROVE  Shown(summaries)' /\ Shown(statsFile)'
<1>1. \A stats : Shown(stats) => \A id \in DOMAIN stats :
          stats[id] \in [Counters -> Nat] /\ stats[id]["closed"] <= Lines(id)' + refused'
  BY ShownStays DEF StatsInv
<1>2. Shown(summaries)'
  <2>1. \A id \in DOMAIN summaries' :
            summaries'[id] \in [Counters -> Nat]
            /\ summaries'[id]["closed"] <= Lines(id)' + refused'
    BY <1>1
  <2> QED  BY <2>1 DEF Shown
<1>3. Shown(statsFile)'
  <2>1. \A id \in DOMAIN statsFile' :
            statsFile'[id] \in [Counters -> Nat]
            /\ statsFile'[id]["closed"] <= Lines(id)' + refused'
    BY <1>1
  <2> QED  BY <2>1 DEF Shown
<1> QED  BY <1>2, <1>3

LEMMA StatsKept == StatsInv /\ Keeps => StatsInv'
<1> SUFFICES ASSUME StatsInv, Keeps PROVE StatsInv'
  OBVIOUS
<1>1. Grows  BY HistoryStays DEF Keeps, StatsInv
<1>2. Shown(summaries)' /\ Shown(statsFile)'  BY <1>1, ShownNext DEF Keeps
<1> QED  BY <1>1, <1>2 DEF StatsInv, Keeps, Grows

\* A closed trade: its line is appended, or refused and counted as refused.
LEMMA StatsAppend == StatsInv /\ AppendHistory => StatsInv'
<1> SUFFICES ASSUME StatsInv, AppendHistory PROVE StatsInv'
  OBVIOUS
<1>1. PICK g : g = Head(events).group  OBVIOUS
<1>2. /\ events # <<>> /\ Head(events).kind = "closed" /\ events' = events
      /\ summaries' = summaries /\ statsFile' = statsFile /\ pc' = "record"
      /\ \/ history' = Append(history, g) /\ refused' = refused
         \/ history' = history /\ refused' = refused + 1
  BY <1>1 DEF AppendHistory, TakeEvent, Refusal
<1>3. IsSeq(history) /\ refused \in Nat /\ Shown(summaries) /\ Shown(statsFile)
  BY DEF StatsInv
<1>4. Lines(g) \in Nat /\ Lines(g)' \in Nat /\ Grows /\ Lines(g)' + refused' = Lines(g) + refused + 1
  <2>1. CASE history' = Append(history, g) /\ refused' = refused
    <3>1. IsSeq(history')  BY <1>3, <2>1, SequenceStays
    <3>2. \A id : Lines(id)' = Lines(id) + (IF id = g THEN 1 ELSE 0)
      BY <1>3, <2>1, LinesAppend
    <3>3. \A id : Lines(id) \in Nat  BY <1>3, LinesNat
    <3>4. Grows
      BY <1>3, <2>1, <3>1, <3>2, <3>3 DEF Grows
    <3>5. Lines(g)' = Lines(g) + 1  BY <3>2
    <3>6. Lines(g) \in Nat  BY <3>3
    <3> QED  BY <1>3, <2>1, <3>4, <3>5, <3>6
  <2>2. CASE history' = history /\ refused' = refused + 1
    <3>1. Lines(g) \in Nat  BY <1>3, LinesNat
    <3>2. Lines(g)' = Lines(g)  BY <1>2, <2>2 DEF Lines
    <3>3. Grows  BY <1>3, <2>2, HistoryStays
    <3> QED  BY <1>3, <2>2, <3>1, <3>2, <3>3
  <2> QED  BY <1>2, <2>1, <2>2
<1>5. Shown(summaries') /\ Shown(statsFile')  BY <1>2, <1>3
<1>6. Shown(summaries)' /\ Shown(statsFile)'  BY <1>4, <1>5, ShownNext
<1>7. Known(summaries, g)["closed"] + 1 <= Lines(g)' + refused'
  BY <1>3, <1>4, KnownBacked
<1>8. Known(summaries, g)' = Known(summaries, g) /\ Head(events)'.group = g
  BY <1>2, <1>1 DEF Known
<1>9. Known(summaries', g)["closed"] + 1 <= Lines(g)' + refused'  BY <1>2, <1>7
<1> QED  BY <1>2, <1>1, <1>4, <1>6, <1>8, <1>9 DEF StatsInv, Grows

\* Another event arrives at the end of the channel, behind the one that is being counted.
LEMMA StatsArrives == StatsInv /\ EventArrives => StatsInv'
<1> SUFFICES ASSUME StatsInv, EventArrives PROVE StatsInv'
  OBVIOUS
<1>1. PICK e : events' = Append(events, e)  BY DEF EventArrives
<1>2. UNCHANGED <<summaries, statsFile, history, refused, pc>>
  BY DEF EventArrives, statVars, botVars
<1>3. IsSeq(events') /\ (events # <<>> => Head(events') = Head(events)) /\ events' # <<>>
  BY <1>1, SequenceStays DEF StatsInv
<1>4. \A id : Lines(id)' = Lines(id)  BY <1>2 DEF Lines
<1>5. Shown(summaries)' /\ Shown(statsFile)'  BY <1>2, <1>4 DEF StatsInv, Shown
<1>6. CASE pc = "record"
  <2>1. PICK g : g = Head(events).group  OBVIOUS
  <2>2. Known(summaries, g)["closed"] + 1 <= Lines(g) + refused
    BY <1>6, <2>1 DEF StatsInv
  <2>3. events # <<>> /\ Head(events).kind = "closed"  BY <1>6 DEF StatsInv
  <2>4. events' # <<>> /\ Head(events)'.kind = "closed" /\ Head(events)'.group = g
    BY <1>3, <2>1, <2>3
  <2>5. Known(summaries', g)["closed"] + 1 <= Lines(g)' + refused'
    BY <1>2, <1>4, <2>2
  <2> QED  BY <1>2, <1>3, <1>5, <2>4, <2>5 DEF StatsInv
<1>7. CASE pc # "record"
  BY <1>2, <1>3, <1>5, <1>7 DEF StatsInv
<1> QED  BY <1>6, <1>7

\* RecordEvent counts an event that closes nothing, RecordClosed one whose line is there.
LEMMA StatsRecord == StatsInv /\ (RecordEvent \/ RecordClosed) => StatsInv'
<1> SUFFICES ASSUME StatsInv, RecordEvent \/ RecordClosed PROVE StatsInv'
  OBVIOUS
<1> DEFINE e == Head(events)
<1>1. /\ events # <<>> /\ events' = Tail(events) /\ history' = history
      /\ summaries' = Counted(e) /\ statsFile' \in {NoStats, statsFile}
      /\ refused' \in {refused, refused + 1} /\ pc' \in {"persist", Resume(batch)}
  BY DEF RecordEvent, RecordClosed, TakeEvent, Persist, Refusal, StatsInv
<1>2. e.kind \in Counters
  BY DEF RecordEvent, RecordClosed, TakeEvent, StatsInv, Counters
<1>3. e.kind = "closed" =>
         Known(summaries, e.group)["closed"] + 1 <= Lines(e.group) + refused
  BY DEF RecordEvent, RecordClosed, TakeEvent, StatsInv
<1> HIDE DEF e
<1>4. Shown(Counted(e))  BY <1>2, <1>3, CountedShown
<1>5. Shown(NoStats)  BY BlankShown DEF StatsInv
<1>6. IsSeq(Tail(events))  BY <1>1, SequenceStays DEF StatsInv
<1>7. pc' # "record"  BY <1>1 DEF Resume
<1>8. Keeps  BY <1>1, <1>4, <1>5, <1>6, <1>7 DEF Keeps, StatsInv
<1> QED  BY <1>8, StatsKept

LEMMA StatsNext == StatsInv /\ [Next]_vars => StatsInv'
<1> SUFFICES ASSUME StatsInv, [Next]_vars PROVE StatsInv'
  OBVIOUS
<1> USE DEF serverVars, botVars, bounds, storeVars, statVars
<1>1. /\ IsSeq(history) /\ IsSeq(events) /\ refused \in Nat
      /\ Shown(summaries) /\ Shown(statsFile) /\ Shown(NoStats)
  BY BlankShown DEF StatsInv
<1>2. \A s : Shown(Snapshot(summaries, s)) /\ Shown(Snapshot(statsFile, s))
  BY <1>1, SnapshotShown
<1>3. IsSeq(<<>>)
  <2>1. <<>> \in Seq({})  OBVIOUS
  <2> QED  BY <2>1 DEF IsSeq
<1>4. events # <<>> => IsSeq(Tail(events))  BY <1>1, SequenceStays
<1>5. ASSUME UNCHANGED <<events, history, summaries, statsFile, refused>>, pc' # "record"
      PROVE  StatsInv'
  BY <1>1, <1>5, StatsKept DEF Keeps
<1>6. CASE Saved
  BY <1>5, <1>6 DEF Saved, Resume
<1>7. CASE Persisted
  BY <1>1, <1>2, <1>7, StatsKept DEF Persisted, Resume, Keeps
<1>8. CASE TakeReply
  BY <1>5, <1>8 DEF TakeReply
<1>9. CASE Wake
  BY <1>5, <1>9 DEF Wake
<1>10. CASE TellOperator
  BY <1>1, <1>4, <1>10, StatsKept DEF TellOperator, TakeEvent, Keeps
<1>11. CASE RecordEvent \/ RecordClosed
  BY <1>11, StatsRecord
<1>12. CASE AppendHistory
  BY <1>12, StatsAppend
<1>13. CASE Handle
  <2>1. Taken /\ (Stays \/ Saves) /\ Reports  BY <1>13, HandlerDoes
  <2>2. pc' # "record"  BY <2>1 DEF Taken, Resume
  <2>3. refused' \in {refused, refused + 1}  BY <2>1 DEF Stays, Saves
  <2> QED  BY <1>1, <1>2, <2>1, <2>2, <2>3, StatsKept DEF Taken, Reports, Keeps
<1>14. CASE Crash
  BY <1>1, <1>3, <1>14, StatsKept DEF Crash, Keeps
<1>15. CASE Restart
  BY <1>1, <1>2, <1>15, StatsKept DEF Restart, Persist, Refusal, Resume, Keeps
<1>16. CASE UserSends
  <2>1. CASE pc = "record"
    <3>1. UNCHANGED <<events, history, summaries, statsFile, refused, pc>>
      BY <1>16 DEF UserSends
    <3> QED  BY <3>1 DEF StatsInv, Shown, Lines
  <2>2. CASE pc # "record"
    BY <1>5, <1>16, <2>2 DEF UserSends
  <2> QED  BY <2>1, <2>2
<1>17. CASE ServerAnswers
  BY <1>5, <1>17 DEF ServerAnswers
<1>18. CASE PollFails
  BY <1>5, <1>18 DEF PollFails
<1>19. CASE EventArrives
  BY <1>19, StatsArrives
<1>20. CASE UNCHANGED vars
  BY <1>20 DEF vars, StatsInv, Shown, Lines
<1> QED
  BY <1>6, <1>7, <1>8, <1>9, <1>10, <1>11, <1>12, <1>13, <1>14, <1>15, <1>16, <1>17, <1>18,
     <1>19, <1>20
  DEF Next, BotStep

\* No statistics count a closed trade that the history has no line for, through crashes
\* between the two writes; lines the file system refused aside.
THEOREM HistoryBacksStatistics == Spec => []ClosedTradesInHistory
<1>1. StatsInv => ClosedTradesInHistory  BY DEF StatsInv, Shown, ClosedTradesInHistory
<1> QED  BY <1>1, StatsInit, StatsNext, PTL DEF Spec
=============================================================================
