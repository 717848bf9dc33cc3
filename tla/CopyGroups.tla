----------------------------- MODULE CopyGroups -----------------------------
(***************************************************************************)
(* The copy groups (src/src/groups.rs) and the settings the operator       *)
(* changes (apply_group_setting_value in telegram.rs), as operators on the *)
(* state of the GroupManager: the map of groups, the selected group and    *)
(* the 0slot switch.  Only one task, the Telegram bot, changes it, so an   *)
(* operation is a function from one state to the next.                     *)
(*                                                                         *)
(* A group's id is its number ("g3" is 3); a wallet list is a set, its     *)
(* order being only shown; names are left out, and so is the block list,   *)
(* which nothing in the program changes once the file is loaded.           *)
(***************************************************************************)
EXTENDS Integers, FiniteSets

CONSTANTS
    Wallets,            \* wallets a group may follow
    Config,             \* the group AppConfig describes (from_app_config)
    NaN                 \* what f64 parses "nan" and "inf" to: no number JSON can hold

\* Settings parsed as f64, and those parsed as unsigned integers.
FloatKeys == {"buy", "min_buy", "tp", "sl", "trailing", "external_buy"}
UintKeys  == {"slippage", "sell_slippage", "hold", "tip_buy", "tip_sell", "zero_slot_tip"}
NumKeys   == FloatKeys \cup UintKeys

Group == [enabled : BOOLEAN, wallets : SUBSET Wallets, quorum : Nat,
          entry : {"buy", "sell"}, exit : {"tp_sl", "follow"},
          external : {"off", "dry_run", "live"}, venues : BOOLEAN,
          num : [NumKeys -> Int \cup {NaN}]]

ASSUME ConfigAssumption == Config \in Group /\ NaN \notin Int

None == 0               \* selected_group_id: None

\* A value as the operator typed it: what its parsers make of it.
Raw == [isNum : BOOLEAN, num : Int \cup {NaN}, word : STRING]

-----------------------------------------------------------------------------
(* apply_group_setting_value, parse_entry_mode, parse_sell_mode,            *)
(* parse_bool_flag and ExternalMode::from_str                               *)

BuyWords    == {"buy", "smart_buy", "buy_follow", "buy-follow"}
SellWords   == {"sell", "smart_sell", "sell_buy", "sell-follow", "sell_follow"}
FollowWords == {"follow", "follow_sell", "follow-sell"}
TpSlWords   == {"tp", "sl", "tp_sl", "tpsl", "tp-sl"}
OnWords     == {"1", "on", "true", "yes"}
OffWords    == {"0", "off", "false", "no"}
DryWords    == {"dry_run", "dry-run", "dryrun", "dry"}
LiveWords   == OnWords \cup {"live"}

EntryKeys    == {"entry", "buy_mode", "entry_mode"}
ExitKeys     == {"exit", "mode", "sell_mode"}
ExternalKeys == {"external", "external_mode"}

IsUint(raw) == raw.isNum /\ raw.num # NaN /\ raw.num >= 0

Accepts(key, raw) ==
    \/ key \in FloatKeys /\ raw.isNum
    \/ key \in UintKeys \cup {"consensus"} /\ IsUint(raw)
    \/ key \in EntryKeys /\ raw.word \in BuyWords \cup SellWords
    \/ key \in ExitKeys /\ raw.word \in FollowWords \cup TpSlWords
    \/ key = "enabled" /\ raw.word \in OnWords \cup OffWords
    \/ key \in ExternalKeys /\ raw.word \in OffWords \cup DryWords \cup LiveWords

\* What is stored for a number: the stop loss without its sign, the hold time
\* in seconds, the external amount not below zero (f64::max drops a NaN).
Stored(key, n) ==
    IF n = NaN THEN IF key = "external_buy" THEN 0 ELSE NaN
    ELSE IF key = "sl" /\ n < 0 THEN -n
    ELSE IF key = "external_buy" /\ n < 0 THEN 0
    ELSE IF key = "hold" THEN n * 60
    ELSE n

ExternalOf(word) ==
    IF word \in OffWords THEN "off" ELSE IF word \in DryWords THEN "dry_run" ELSE "live"

AtLeastOneWallet(n) == IF n > 1 THEN n ELSE 1

\* The group after an accepted setting.  The external mode takes the three
\* venue flags with it; they always agree, so one flag stands for them.
Applied(g, key, raw) ==
    [g EXCEPT
        !.num      = IF key \in NumKeys THEN [@ EXCEPT ![key] = Stored(key, raw.num)] ELSE @,
        !.quorum   = IF key = "consensus" THEN AtLeastOneWallet(raw.num) ELSE @,
        !.entry    = IF key \notin EntryKeys THEN @ ELSE IF raw.word \in BuyWords THEN "buy" ELSE "sell",
        !.exit     = IF key \notin ExitKeys THEN @ ELSE IF raw.word \in FollowWords THEN "follow" ELSE "tp_sl",
        !.enabled  = IF key = "enabled" THEN raw.word \in OnWords ELSE @,
        !.external = IF key \in ExternalKeys THEN ExternalOf(raw.word) ELSE @,
        !.venues   = IF key \in ExternalKeys THEN raw.word \notin OffWords ELSE @]

-----------------------------------------------------------------------------
(* GroupManager                                                             *)

IsId(i) == i \in Nat /\ i > 0

IsStore(s) ==
    /\ s = [groups |-> s.groups, selected |-> s.selected, zeroSlot |-> s.zeroSlot]
    /\ \A i \in DOMAIN s.groups : IsId(i) /\ s.groups[i] \in Group
    /\ s.selected \in Nat /\ s.zeroSlot \in BOOLEAN

Has(s, id) == id \in DOMAIN s.groups

\* all_groups().first(): the ids sort as strings, so which one comes first is
\* left open.
First(ids) == CHOOSE i \in ids : TRUE

Highest(ids) == CHOOSE i \in ids : \A j \in ids : j <= i

\* next_group_id
NextId(s) == Highest(DOMAIN s.groups) + 1

Put(s, id, g) ==
    [s EXCEPT !.groups = [i \in DOMAIN s.groups \cup {id} |->
                             IF i = id THEN g ELSE s.groups[i]]]

\* add_group: the configured group without its wallets, selected at once.
Added(s) ==
    [Put(s, NextId(s), [Config EXCEPT !.wallets = {}, !.quorum = 1])
        EXCEPT !.selected = NextId(s)]

\* delete_group: the last group stays; a selected one hands the selection on.
CanDelete(s, id) == Has(s, id) /\ DOMAIN s.groups # {id}

\* Mutant: the selection is left where it was.
DeletedOnly(s, id) ==
    [s EXCEPT !.groups = [i \in DOMAIN s.groups \ {id} |-> s.groups[i]]]

Deleted(s, id) ==
    [s EXCEPT !.groups = [i \in DOMAIN s.groups \ {id} |-> s.groups[i]],
              !.selected = IF @ = id THEN First(DOMAIN s.groups \ {id}) ELSE @]

\* set_selected_group, set_group_enabled, add_wallet and remove_wallet, of a group
\* that is there; the last one asks for the wallet as well.
Selected(s, id) == [s EXCEPT !.selected = id]

Switched(s, id, on) == [s EXCEPT !.groups[id].enabled = on]

Followed(s, id, wallet) == [s EXCEPT !.groups[id].wallets = @ \cup {wallet}]

CanUnfollow(s, id, wallet) == Has(s, id) /\ wallet \in s.groups[id].wallets

Unfollowed(s, id, wallet) == [s EXCEPT !.groups[id].wallets = @ \ {wallet}]

\* toggle_zero_slot_buy_enabled
Toggled(s) == [s EXCEPT !.zeroSlot = ~@]

-----------------------------------------------------------------------------
(* copy_groups.json                                                         *)

\* save() writes the whole state over the file.  What a write that did not
\* finish leaves cannot be parsed, and neither can a null where the file
\* should hold a number: that is what JSON makes of NaN.
Torn == [groups |-> <<>>, selected |-> None, zeroSlot |-> FALSE]

Finite(s) == \A i \in DOMAIN s.groups : \A k \in NumKeys : s.groups[i].num[k] # NaN

Readable(file) == file # Torn /\ Finite(file)

Default == [groups |-> [i \in {1} |-> Config], selected |-> 1, zeroSlot |-> FALSE]

\* load_or_default: an unreadable file counts for no groups at all, and a
\* selection that is not there falls back to the first group.
Loaded(file) ==
    IF ~Readable(file) THEN Default
    ELSE [file EXCEPT !.selected = IF Has(file, @) THEN @ ELSE First(DOMAIN file.groups)]
=============================================================================
