----------------------------- MODULE ControlBot -----------------------------
(***************************************************************************)
(* The Telegram bot (src/src/telegram.rs), the one task that changes the   *)
(* copy groups and the statistics of the groups (groups.rs,                *)
(* group_stats.rs), with the Telegram server it polls, the channel of      *)
(* events the rest of the program sends it, its files, and crashes.        *)
(*                                                                         *)
(* The bot waits for whichever comes first, an event or the answer to its  *)
(* getUpdates request; an event drops the request.  The server keeps an    *)
(* update until a request asks for a later one.  A file is written by      *)
(* emptying it and filling it again, two steps a crash can come between.   *)
(* Messages to the operator change nothing and are left out.               *)
(***************************************************************************)
EXTENDS CopyGroups, Sequences

CONSTANTS
    Commands,           \* what the operator may send or press
    EventKinds,         \* kinds of events the other tasks send
    HasZeroSlot,        \* zero_slot_urls is not empty
    AutoStart,          \* AUTO_START: is_running when the program starts
    MaxUpdates,         \* bound: updates sent
    MaxEvents,          \* bound: events sent to the bot
    MaxFails,           \* bound: requests and writes that fail
    MaxCrashes          \* bound: crashes

Counters == {"bought", "unbought", "unsold", "closed"}

Command == [op : {"start", "stop", "toggle", "add", "del", "use", "enable", "addw",
                  "rmw", "rename", "set", "set_named", "report", "look"},
            group : Nat, on : BOOLEAN, wallet : Wallets, key : STRING, raw : Raw]

ASSUME CommandsAssumption == Commands \subseteq Command
ASSUME KindsAssumption    == EventKinds \subseteq Counters \cup {"told"}
ASSUME FlagsAssumption    == HasZeroSlot \in BOOLEAN /\ AutoStart \in BOOLEAN
ASSUME BoundsAssumption   == /\ MaxUpdates \in Nat /\ MaxEvents \in Nat
                             /\ MaxFails \in Nat   /\ MaxCrashes \in Nat

VARIABLES
    store,              \* GroupManager
    file,               \* copy_groups.json
    running,            \* is_running
    log,                \* updates sent so far; the id of one is its place
    confirmed,          \* the server has forgotten the updates up to this one
    offset,             \* the offset the bot asks for
    reply,              \* last update of the answer on its way, 0: none
    pc,                 \* where the bot is
    batch,              \* the updates it still has to handle, first and last
    events,             \* the TgEvent channel, oldest first
    summaries,          \* GroupPerformanceStore: id -> Summary
    statsFile,          \* group_stats.json
    history,            \* group_trade_history.jsonl: the group of each line
    handled,            \* history variable: how often each update took effect
    refused,            \* history variable: writes the file system refused
    sentEvents, fails, crashes      \* what the bounds count

storeVars  == <<store, file>>
serverVars == <<log, confirmed>>
botVars    == <<offset, reply, pc, batch>>
statVars   == <<summaries, statsFile, history>>
bounds     == <<sentEvents, fails, crashes>>
vars == <<storeVars, running, serverVars, botVars, events, statVars, handled, refused, bounds>>

Places == {"poll", "batch", "save", "record", "persist", "sleep", "down"}

Blank == [c \in Counters |-> 0]

NoBatch == [first |-> 1, last |-> 0]
NoStats == <<>>         \* group_stats.json is missing or cannot be parsed

\* What the bot goes on with when a handler is done.
Resume(b) == IF b.first <= b.last THEN "batch" ELSE "poll"

-----------------------------------------------------------------------------
(* Writing the files                                                        *)

\* A write that cannot even open its file leaves it as it was.
Refusal == fails < MaxFails /\ fails' = fails + 1 /\ refused' = refused + 1

Save(new, b) ==
    /\ store' = new
    /\ \/ file' = Torn /\ pc' = "save" /\ UNCHANGED <<fails, refused>>
       \/ Refusal /\ pc' = Resume(b) /\ UNCHANGED file

Saved ==
    /\ pc = "save"
    /\ file' = store
    /\ pc' = Resume(batch)
    /\ UNCHANGED <<store, running, serverVars, offset, reply, batch, events, statVars,
                   handled, refused, bounds>>

Known(stats, id) == IF id \in DOMAIN stats THEN stats[id] ELSE Blank

\* snapshot: what is known, and a blank summary for every other group.
Snapshot(stats, s) == [id \in DOMAIN stats \cup DOMAIN s.groups |-> Known(stats, id)]

Persist(stats, b) ==
    /\ summaries' = stats
    /\ \/ statsFile' = NoStats /\ pc' = "persist" /\ UNCHANGED <<fails, refused>>
       \/ Refusal /\ pc' = Resume(b) /\ UNCHANGED statsFile

Persisted ==
    /\ pc = "persist"
    /\ statsFile' = Snapshot(summaries, store)
    /\ pc' = Resume(batch)
    /\ UNCHANGED <<storeVars, running, serverVars, offset, reply, batch, events, summaries,
                   history, handled, refused, bounds>>

-----------------------------------------------------------------------------
(* Start, crash and restart                                                 *)

Init ==
    /\ store = Default /\ file = Torn
    /\ running = AutoStart
    /\ log = <<>> /\ confirmed = 0
    /\ offset = 0 /\ reply = 0 /\ batch = NoBatch /\ pc = "persist"
    /\ events = <<>>
    /\ summaries = Snapshot(NoStats, Default)
    /\ statsFile = NoStats /\ history = <<>>
    /\ handled = [u \in 1..MaxUpdates |-> 0]
    /\ refused = 0
    /\ sentEvents = 0 /\ fails = 0 /\ crashes = 0

Crash ==
    /\ pc # "down" /\ crashes < MaxCrashes
    /\ pc' = "down" /\ crashes' = crashes + 1
    /\ reply' = 0 /\ batch' = NoBatch /\ events' = <<>>
    /\ UNCHANGED <<storeVars, running, serverVars, offset, statVars, handled, refused,
                   sentEvents, fails>>

\* main and the head of run(): the files are read, the statistics written.
Restart ==
    /\ pc = "down"
    /\ store' = Loaded(file)
    /\ running' = AutoStart
    /\ offset' = 0
    /\ Persist(Snapshot(statsFile, store'), NoBatch)
    /\ UNCHANGED <<file, serverVars, reply, batch, events, history, handled, sentEvents, crashes>>

-----------------------------------------------------------------------------
(* The Telegram server and the operator                                     *)

UserSends ==
    /\ Len(log) < MaxUpdates
    /\ \E c \in Commands : log' = Append(log, c)
    /\ UNCHANGED <<storeVars, running, confirmed, botVars, events, statVars, handled, refused,
                   bounds>>

ConfirmedBy(asked) == IF asked > confirmed + 1 THEN asked - 1 ELSE confirmed

\* The server forgets what lies before the offset and answers with the rest;
\* while there is none the request stays open.
ServerAnswers ==
    /\ pc = "poll" /\ reply = 0
    /\ confirmed < Len(log)
    /\ confirmed' = ConfirmedBy(offset)
    /\ reply' = IF confirmed' < Len(log) THEN Len(log) ELSE 0
    /\ UNCHANGED <<storeVars, running, log, offset, pc, batch, events, statVars, handled,
                   refused, bounds>>

-----------------------------------------------------------------------------
(* run(): the two arms of the select                                        *)

TakeReply ==
    /\ pc = "poll" /\ reply > 0
    /\ batch' = [first |-> confirmed + 1, last |-> reply]
    /\ reply' = 0
    /\ pc' = "batch"
    /\ UNCHANGED <<storeVars, running, serverVars, offset, events, statVars, handled, refused,
                   bounds>>

\* A request fails; the bot sleeps for three seconds, deaf to events as well.
PollFails ==
    /\ pc = "poll" /\ fails < MaxFails
    /\ fails' = fails + 1
    /\ reply' = 0 /\ pc' = "sleep"
    /\ UNCHANGED <<storeVars, running, serverVars, offset, batch, events, statVars, handled,
                   refused, sentEvents, crashes>>

\* Mutant: run() returns when a request fails.
NeverWakes == FALSE /\ UNCHANGED vars

Wake ==
    /\ pc = "sleep" /\ pc' = "poll"
    /\ UNCHANGED <<storeVars, running, serverVars, offset, reply, batch, events, statVars,
                   handled, refused, bounds>>

\* A position of a group, which may be gone by now, reports what happened.
EventArrives ==
    /\ pc # "down" /\ sentEvents < MaxEvents
    /\ \E id \in DOMAIN store.groups \cup DOMAIN summaries, kind \in EventKinds :
          events' = Append(events, [group |-> id, kind |-> kind])
    /\ sentEvents' = sentEvents + 1
    /\ UNCHANGED <<storeVars, running, serverVars, botVars, statVars, handled, refused, fails,
                   crashes>>

\* update_summary
Counted(e) ==
    [i \in DOMAIN summaries \cup {e.group} |->
        IF i = e.group THEN [Known(summaries, i) EXCEPT ![e.kind] = @ + 1]
        ELSE summaries[i]]

TakeEvent(kinds) ==
    /\ pc = "poll" /\ events # <<>>
    /\ Head(events).kind \in kinds
    /\ reply' = 0

\* ConsensusReached, BuySubmitted and a sale that leaves tokens: a message only.
TellOperator ==
    /\ TakeEvent({"told"})
    /\ events' = Tail(events)
    /\ UNCHANGED <<storeVars, running, serverVars, offset, pc, batch, statVars, handled, refused,
                   bounds>>

RecordEvent ==
    /\ TakeEvent({"bought", "unbought", "unsold"})
    /\ events' = Tail(events)
    /\ Persist(Counted(Head(events)), batch)
    /\ UNCHANGED <<storeVars, running, serverVars, offset, batch, history, handled, sentEvents,
                   crashes>>

\* Mutant: the summary is updated before the line is written.
SummaryFirst ==
    /\ TakeEvent({"closed"})
    /\ pc' = "record"
    /\ summaries' = Counted(Head(events))
    /\ UNCHANGED <<storeVars, running, serverVars, offset, batch, events, history, statsFile,
                   handled, refused, bounds>>

\* record_closed_trade: a line of the history, then the summary.
AppendHistory ==
    /\ TakeEvent({"closed"})
    /\ pc' = "record"
    /\ \/ history' = Append(history, Head(events).group) /\ UNCHANGED <<fails, refused>>
       \/ Refusal /\ UNCHANGED history
    /\ UNCHANGED <<storeVars, running, serverVars, offset, batch, events, summaries, statsFile,
                   handled, sentEvents, crashes>>

RecordClosed ==
    /\ pc = "record"
    /\ events' = Tail(events)
    /\ Persist(Counted(Head(events)), batch)
    /\ UNCHANGED <<storeVars, running, serverVars, offset, reply, batch, history, handled,
                   sentEvents, crashes>>

-----------------------------------------------------------------------------
(* handle_message and handle_callback_v2, one update at a time              *)

Now  == log[batch.first]
Rest == [batch EXCEPT !.first = @ + 1]

\* A command names its group or means the selected one.
Target == IF Now.group = None THEN store.selected ELSE Now.group

\* Mutant: one update of every answer is handled, the offset passes them all.
TakeOne(ops) ==
    /\ pc = "batch"
    /\ Now.op \in ops
    /\ batch' = NoBatch
    /\ offset' = batch.last + 1
    /\ handled' = [handled EXCEPT ![batch.first] = @ + 1]
    /\ UNCHANGED <<serverVars, reply, events, history, sentEvents, crashes>>

\* Mutant: the offset stays at the update that was handled.
TakeAgain(ops) ==
    /\ pc = "batch"
    /\ Now.op \in ops
    /\ batch' = Rest
    /\ offset' = IF batch.first >= offset THEN batch.first ELSE offset
    /\ handled' = [handled EXCEPT ![batch.first] = @ + 1]
    /\ UNCHANGED <<serverVars, reply, events, history, sentEvents, crashes>>

Take(ops) ==
    /\ pc = "batch"
    /\ Now.op \in ops
    /\ batch' = Rest
    /\ offset' = IF batch.first >= offset THEN batch.first + 1 ELSE offset
    /\ handled' = [handled EXCEPT ![batch.first] = @ + 1]
    /\ UNCHANGED <<serverVars, reply, events, history, sentEvents, crashes>>

Done == pc' = Resume(batch') /\ UNCHANGED <<fails, refused>>

\* An operation of the GroupManager: it saves unless it is turned down.
Operate(possible, new) ==
    /\ \/ possible /\ Save(new, batch')
       \/ ~possible /\ Done /\ UNCHANGED storeVars
    /\ UNCHANGED <<running, summaries, statsFile>>

\* cmd_start, cmd_stop
StartStop ==
    /\ Take({"start", "stop"})
    /\ running' = (Now.op = "start")
    /\ Done
    /\ UNCHANGED <<storeVars, summaries, statsFile>>

ToggleZeroSlot ==
    Take({"toggle"}) /\ Operate(HasZeroSlot, Toggled(store))

\* Mutant: add_group does not save.
AddUnsaved ==
    /\ Take({"add"}) /\ Done
    /\ store' = Added(store)
    /\ UNCHANGED <<file, running, summaries, statsFile>>

AddGroup == Take({"add"}) /\ Operate(TRUE, Added(store))

DeleteGroup ==
    Take({"del"}) /\ Operate(CanDelete(store, Now.group), Deleted(store, Now.group))

UseGroup ==
    Take({"use"}) /\ Operate(Has(store, Now.group), Selected(store, Now.group))

EnableGroup ==
    Take({"enable"}) /\ Operate(Has(store, Now.group), Switched(store, Now.group, Now.on))

AddWallet ==
    Take({"addw"}) /\ Operate(Has(store, Target), Followed(store, Target, Now.wallet))

RemoveWallet ==
    /\ Take({"rmw"})
    /\ Operate(CanUnfollow(store, Target, Now.wallet), Unfollowed(store, Target, Now.wallet))

\* rename_group: the name is not kept here, the save is.
RenameGroup == Take({"rename"}) /\ Operate(Has(store, Target), store)

\* cmd_set, cmd_buymode, cmd_sellmode and the value buttons: the group is
\* read, changed and put back.
SetValue ==
    /\ Take({"set"})
    /\ Operate(Has(store, Target) /\ Accepts(Now.key, Now.raw),
               Put(store, Target, Applied(store.groups[Target], Now.key, Now.raw)))

\* cmd_set with a group before the key: the group is taken for the key, and
\* no key is called like a group.
SetNamed == Take({"set_named"}) /\ Operate(FALSE, store)

\* The group list and the statistics are brought up to date before they show.
Report ==
    /\ Take({"report"})
    /\ Persist(Snapshot(summaries, store), batch')
    /\ UNCHANGED <<storeVars, running>>

\* Commands that only show something, and the sell commands, whose orders
\* leave this module.
Look ==
    /\ Take({"look"})
    /\ Done
    /\ UNCHANGED <<storeVars, running, summaries, statsFile>>

Handle ==
    \/ StartStop \/ ToggleZeroSlot \/ AddGroup \/ DeleteGroup \/ UseGroup \/ EnableGroup
    \/ AddWallet \/ RemoveWallet \/ RenameGroup \/ SetValue \/ SetNamed \/ Report \/ Look

BotStep ==
    \/ Saved \/ Persisted \/ TakeReply \/ Wake
    \/ TellOperator \/ RecordEvent \/ AppendHistory \/ RecordClosed
    \/ Handle

Next ==
    \/ BotStep \/ Crash \/ Restart
    \/ UserSends \/ ServerAnswers \/ PollFails \/ EventArrives

Spec == Init /\ [][Next]_vars

\* The bot's task, the server and whoever restarts the program go on; nothing
\* makes the operator write, an event come or a request fail.
FairSpec ==
    Spec /\ WF_vars(BotStep) /\ WF_vars(Restart) /\ WF_vars(ServerAnswers)

-----------------------------------------------------------------------------
(* Properties                                                               *)

TypeOK ==
    /\ IsStore(store) /\ IsStore(file)
    /\ running \in BOOLEAN
    /\ log \in Seq(Command)
    /\ confirmed \in Nat /\ offset \in Nat /\ reply \in Nat
    /\ pc \in Places
    /\ batch \in [first : Nat, last : Nat]
    /\ events \in Seq([group : Nat, kind : Counters \cup {"told"}])
    /\ history \in Seq(Nat)
    /\ \A stats \in {summaries, statsFile} :
          \A id \in DOMAIN stats : IsId(id) /\ stats[id] \in [Counters -> Nat]
    /\ handled \in [1..MaxUpdates -> Nat]
    /\ refused \in Nat /\ sentEvents \in Nat /\ fails \in Nat /\ crashes \in Nat

\* There is always a group, and the selected one exists: the commands without
\* a group (/set, /addwallet, /rmwallet, /renamegroup) have a group to change,
\* after every deletion, restart and damaged file.
SelectionExists == Has(store, store.selected)

\* What the operator was told is changed is what a restart reads back.  The
\* exceptions are a write cut short by a crash, a write the file system
\* refused, and a number JSON cannot hold.
RestartReadsStore ==
    pc \notin {"save", "down"} /\ refused = 0 /\ file # Torn /\ Finite(file)
        => Loaded(file) = store

\* As the control-plane diagram has it: the groups' state is persisted.
GroupsPersisted ==
    pc \notin {"save", "down"} /\ refused = 0 /\ file # Torn => Loaded(file) = store

\* No command is lost, whatever crashes and whichever answers are dropped for
\* an event: the server only forgets what the bot has handled.
NoCommandLost == \A u \in 1..confirmed : handled[u] >= 1

\* A command takes effect once, and once more for every crash at most: an
\* answer that was dropped for an event is not handled twice when it comes again.
HandledOncePerRun == \A u \in 1..MaxUpdates : handled[u] <= 1 + crashes

\* As the session summary has it, /set takes a group before the key.
SetByName ==
    [][pc = "batch" /\ Now.op = "set_named" /\ handled' # handled /\ Has(store, Now.group) =>
          store'.groups[Now.group] = Applied(store.groups[Now.group], Now.key, Now.raw)]_vars

Lines(id) == Cardinality({n \in DOMAIN history : history[n] = id})

\* Every closed trade the statistics count has its line in the trade history,
\* which is what is left to rebuild them from; lines that could not be written
\* aside.
ClosedTradesInHistory ==
    \A id \in DOMAIN summaries : summaries[id]["closed"] <= Lines(id) + refused

\* Every command is handled in the end, though every event drops the request
\* that is waiting for it.
CommandsHandled == \A u \in 1..MaxUpdates : u <= Len(log) ~> handled[u] >= 1
=============================================================================
