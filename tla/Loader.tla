------------------------------- MODULE Loader -------------------------------
(* The config file and the bindings it gives (src/config/loader.rs): the load *)
(* at startup, which writes the bundled template if there is no file beside   *)
(* the exe, a reload, and the conversion, with the auto-blockers for Windows' *)
(* hotkeys.  The user may write or delete the file between any two calls.     *)
(*                                                                            *)
(* An entry of the file is a record: `keys`, `steps` and `chord` as written,  *)
(* or None; the `action`; `trigger` with its time `wait`, and the time `gap`  *)
(* of a sequence or a chord; `extra`, `repeat`, `block`, `original`           *)
(* (block_original_combo) and `when`.  A condition is the set of those of     *)
(* which one must hold.                                                       *)
(* Mutants of the definitions that follow them are written as <name>_<bug>.   *)
EXTENDS Winner

CONSTANTS
    None,
    Texts,      \* the files a user writes: sequences of entries, or Garbled
    Garbled,    \* a text that is no config, an action that is none
    Template,   \* DEFAULT_CONFIG
    Hotkey,     \* the Windows hotkey of each action, or None
    Times,      \* TIMING_RANGE_MS
    Windows,    \* the foreground windows: sets of conditions that hold together
    MaxEdits    \* bound: what the user does to the file

VARIABLES
    path,    \* ConfigPath
    at,      \* what the daemon does next
    disk,    \* the file's text, or None
    made,    \* the file that write_default made: "new" and still there, "shared" if
             \* the user saved into it, or "none": replaced, deleted, or never made
    text,    \* the text that was read
    live,    \* the bindings, or None
    warned,  \* the bindings that duplicate_warnings names
    edits,
    users,   \* history: what the user left as the file, or None
    loaded   \* history: the text that `live` comes from

vars == <<path, at, disk, made, text, live, warned, edits, users, loaded>>
-----------------------------------------------------------------------------
(* The conversion of an entry.                                                *)
Parses(combo) == combo # <<>> /\ ToSet(combo) \subseteq KeySpec

Overlap(specs) == \E i, j \in DOMAIN specs : i < j /\ specs[i] \cap specs[j] # {}

Deferring(raw) == raw.trigger \in Deferred

(* raw_binding_to_kind and what it calls.                                     *)
NoKind(raw) ==
    \/ Cardinality({f \in {"keys", "steps", "chord"} : raw[f] # None}) # 1
    \/ raw.keys # None /\ ~Parses(raw.keys)
    \/ raw.steps # None /\ (Len(raw.steps) < 2 \/ \E i \in DOMAIN raw.steps : ~Parses(raw.steps[i]))
    \/ raw.chord # None /\ (Len(raw.chord) < 2 \/ ~Parses(raw.chord) \/ Overlap(raw.chord))
    \/ raw.keys = None /\ raw.gap \notin Times

Rejected(raw) ==
    \/ NoKind(raw)
    \/ raw.action = Garbled
    \/ Deferring(raw) /\ raw.wait \notin Times
    \/ raw.keys = None /\ (Deferring(raw) \/ raw.extra)
    \/ raw.repeat = TRUE /\ (raw.keys = None \/ Deferring(raw))

(* blocks_by_default: a gesture on modifiers alone leaves them to Windows.    *)
BlocksByDefault(raw) ==
    Deferring(raw) /\ raw.keys # None => ~IsModifierOnly(ToSet(raw.keys))

(* raw_binding_to_binding: what the engine and the expansion see of one.      *)
Converted(raw) ==
    [kind |-> IF raw.keys # None THEN "combo" ELSE IF raw.chord # None THEN "chord" ELSE "sequence",
     keys |-> IF raw.keys # None THEN ToSet(raw.keys)
              ELSE IF raw.chord # None THEN ToSet(raw.chord) ELSE {},
     steps |-> IF raw.steps = None THEN <<>> ELSE [i \in DOMAIN raw.steps |-> ToSet(raw.steps[i])],
     name |-> raw.action, when |-> raw.when, trigger |-> raw.trigger, extra |-> raw.extra,
     block |-> IF raw.block = None THEN BlocksByDefault(raw) ELSE raw.block,
     original |-> raw.original, blocker |-> "no"]

(* Binding::duplicates, of two bindings of the file; duplicate_warnings.      *)
Duplicates(b, c) ==
    /\ <<b.kind, b.keys, b.steps, b.trigger>> = <<c.kind, c.keys, c.steps, c.trigger>>
    /\ b.when = c.when /\ b.extra = c.extra

Warned(list) == {i \in DOMAIN list : \E j \in 1 .. i - 1 : Duplicates(list[i], list[j])}
-----------------------------------------------------------------------------
(* expand_with_auto_blockers.  A binding asks for a blocker of the hotkey of  *)
(* its action; one that masks needs a hotkey made only of modifiers.          *)
Mode(b) ==
    IF b.original = "mask" /\ IsModifierOnly(Hotkey[b.name]) THEN "mask" ELSE "swallow"

HotkeyOf(b) == Hotkey[b.name]

Requests(list) ==
    {i \in DOMAIN list : list[i].original # "off" /\ HotkeyOf(list[i]) # None}

(* The requests for one hotkey, and those of them for one mode.               *)
For(list, i) == {j \in Requests(list) : HotkeyOf(list[j]) = HotkeyOf(list[i])}
Owners(list, i) == {j \in For(list, i) : Mode(list[j]) = Mode(list[i])}

TakenOver(list, hotkey) ==
    \E i \in DOMAIN list : list[i].kind = "combo" /\ list[i].keys = hotkey

(* any_of_conditions, of a set that is not empty.                             *)
AnyOf_First(conditions) == CHOOSE c \in conditions : TRUE
AnyOf(conditions) == IF Always \in conditions THEN Always ELSE UNION conditions

(* The blocker that a request and the others for its hotkey and mode get.     *)
Blocker(list, i) ==
    [kind |-> "combo", keys |-> HotkeyOf(list[i]), steps |-> <<>>, name |-> "nothing",
     when |-> AnyOf({list[j].when : j \in Owners(list, i)}),
     trigger |-> "immediate", extra |-> FALSE, block |-> TRUE, original |-> "off",
     blocker |-> Mode(list[i])]

(* One for a hotkey and a mode, made for the first request; in the order of   *)
(* the requests, all of one hotkey together.                                  *)
Leads(list) ==
    {i \in Requests(list) :
        ~TakenOver(list, HotkeyOf(list[i])) /\ \A j \in Owners(list, i) : i <= j}

Ahead(list, i, j) ==
    LET first(k) == Min(For(list, k))
    IN  first(i) < first(j) \/ (first(i) = first(j) /\ i < j)

Turn(list, j) == 1 + Cardinality({i \in Leads(list) : Ahead(list, i, j)})

Blockers(list) ==
    [n \in 1 .. Cardinality(Leads(list)) |->
        Blocker(list, CHOOSE j \in Leads(list) : Turn(list, j) = n)]

(* parse_ron_str: every entry is right, or nothing is loaded.                 *)
Loads(entries) == entries # Garbled /\ \A i \in DOMAIN entries : ~Rejected(entries[i])

UserBindings(entries) == [i \in DOMAIN entries |-> Converted(entries[i])]

Bindings(entries) == UserBindings(entries) \o Blockers(UserBindings(entries))

(* An entry as it may be written, right or wrong.                             *)
Entry ==
    [keys : {None} \cup Seq(SUBSET Code), chord : {None} \cup Seq(SUBSET Code),
     steps : {None} \cup Seq(Seq(SUBSET Code)), action : DOMAIN Hotkey \cup {Garbled},
     trigger : Deferred \cup {"immediate"}, wait : Nat, gap : Nat, extra : BOOLEAN,
     repeat : BOOLEAN \cup {None}, block : BOOLEAN \cup {None},
     original : {"off", "swallow", "mask"}, when : Condition]

(* A hotkey has finitely many keys; conditions can be joined (Condition::Or); *)
(* a window meets what always holds.                                          *)
LoaderAssumption ==
    /\ Texts \cup {Template} \subseteq Seq(Entry) \cup {Garbled}
    /\ \A a \in DOMAIN Hotkey :
          Hotkey[a] = None \/ (Hotkey[a] \subseteq KeySpec /\ IsFiniteSet(Hotkey[a]))
    /\ \A conditions \in (SUBSET Condition) \ {{}} : UNION conditions \in Condition
    /\ \A window \in Windows : Always \cap window # {}
    /\ None \notin Texts \cup {Template, Garbled} /\ MaxEdits \in Nat
    /\ \A entries \in Texts \cup {Template} :
          Loads(entries) => Bindings(entries) # None
-----------------------------------------------------------------------------
Init ==
    /\ path \in {"argument", "beside exe"} /\ at = "read"
    /\ disk \in {None, Template} /\ users = disk /\ made = "none"
    /\ text = None /\ live = None /\ warned = {} /\ edits = 0 /\ loaded = None

(* A load that fails ends the start; a reload keeps the bindings there are.   *)
Fails == at' = (IF live = None THEN "failed" ELSE "live") /\ UNCHANGED <<disk, text>>

(* read_config, by load, again after the template was written, and by reload. *)
Read ==
    /\ at \in {"read", "read again"}
    /\ \/ disk # None /\ text' = disk /\ at' = "parse" /\ UNCHANGED disk
       \/ /\ disk = None /\ at = "read" /\ path = "beside exe"
          /\ at' = "write" /\ UNCHANGED <<disk, text>>
       \/ (at = "read" /\ disk = None => path = "argument") /\ Fails
    /\ UNCHANGED <<path, made, live, warned, edits, users, loaded>>

(* write_default, its first call: the file is made, and empty, unless there   *)
(* is one by now.                                                             *)
Creates_Over == TRUE
Creates == disk = None
OpenNew ==
    /\ at = "write"
    /\ \/ Creates /\ at' = "fill" /\ disk' = Garbled /\ made' = "new"
       \/ ~Creates /\ at' = "read again" /\ UNCHANGED <<disk, made>>
       \/ at' = "failed" /\ UNCHANGED <<disk, made>>
    /\ UNCHANGED <<path, text, live, warned, edits, users, loaded>>

(* Its second: the template is written to that file, if it still is the one   *)
(* at the path.  Of what the user saved into it the end is left, if that is   *)
(* longer.  The write may fail in the middle.                                 *)
Written == CASE made = "new"    -> {Template}
             [] made = "shared" -> {Template, Garbled}
             [] made = "none"   -> {disk}
HalfWritten == IF made = "none" THEN {disk} ELSE {disk, Garbled}
WriteAll ==
    /\ at = "fill"
    /\ \/ at' = "read again" /\ disk' \in Written
       \/ at' = "failed" /\ disk' \in HalfWritten
    /\ UNCHANGED <<path, made, text, live, warned, edits, users, loaded>>

Parse ==
    /\ at = "parse"
    /\ IF Loads(text)
       THEN /\ live' = Bindings(text) /\ warned' = Warned(UserBindings(text))
            /\ loaded' = text /\ at' = "live" /\ UNCHANGED <<disk, text>>
       ELSE Fails /\ UNCHANGED <<live, warned, loaded>>
    /\ UNCHANGED <<path, made, edits, users>>

Reload ==
    /\ at = "live" /\ at' = "read again"
    /\ UNCHANGED <<path, disk, made, text, live, warned, edits, users, loaded>>

(* The user writes a new file or into the one that is there, or deletes it.   *)
Edit ==
    /\ edits < MaxEdits /\ edits' = edits + 1
    /\ disk' \in Texts \cup {None} /\ users' = disk'
    /\ \/ made' = "none"
       \/ at = "fill" /\ made # "none" /\ disk' # None /\ made' = "shared"
    /\ UNCHANGED <<path, at, text, live, warned, loaded>>

Next == Read \/ OpenNew \/ WriteAll \/ Parse \/ Reload \/ Edit

Spec == Init /\ [][Next]_vars
-----------------------------------------------------------------------------
(* Bindings are live only once a text was loaded, and there is a text only    *)
(* from the time it was read.                                                 *)
TypeOK ==
    /\ path \in {"argument", "beside exe"}
    /\ at \in {"read", "write", "fill", "read again", "parse", "live", "failed"}
    /\ made \in {"none", "new", "shared"}
    /\ {disk, users, text, loaded} \subseteq Texts \cup {None, Template, Garbled}
    /\ edits \in 0 .. MaxEdits
    /\ (live = None) = (loaded = None) /\ (at = "live" => live # None)
    /\ (at = "parse" => text # None) /\ (at = "write" => path = "beside exe")
    /\ (live # None => warned \subseteq DOMAIN loaded)

(* The daemon never changes a file that the user left, or a file of the       *)
(* user's choice that is not there: the template is only for a missing file   *)
(* beside the exe, also if one appears, goes or is replaced between any two   *)
(* calls (load, write_default).  The one save that is lost goes into the file *)
(* that write_default just made, before the template does.                    *)
FileKept ==
    disk # users => path = "beside exe" /\ (users = None \/ made = "shared")

(* A blocker acts in a window, and how, where the file asks for it: there an  *)
(* entry whose `when:` holds asks for its hotkey, and no `keys` entry, whatever*)
(* its condition, uses the keys of that hotkey; and there is one of each kind.*)
InForce(when, window) == when \cap window # {}

BlockersOf(hotkey, mode) ==
    {i \in DOMAIN live : live[i].blocker = mode /\ live[i].keys = hotkey}

Asks(raw, hotkey, mode) ==
    /\ raw.original # "off" /\ Hotkey[raw.action] = hotkey
    /\ (mode = "mask") = (raw.original = "mask" /\ IsModifierOnly(hotkey))

BlockersRight ==
    \A hotkey \in {Hotkey[a] : a \in DOMAIN Hotkey} \ {None}, mode \in {"swallow", "mask"} :
        /\ Cardinality(BlockersOf(hotkey, mode)) <= 1
        /\ \A window \in Windows :
              (\E i \in BlockersOf(hotkey, mode) : InForce(live[i].when, window)) <=>
                 /\ \E i \in DOMAIN loaded :
                       Asks(loaded[i], hotkey, mode) /\ InForce(loaded[i].when, window)
                 /\ \A i \in DOMAIN loaded :
                       loaded[i].keys # None => ToSet(loaded[i].keys) # hotkey

(* A binding that is warned of as a duplicate never acts: no press makes it   *)
(* the winner or puts it in the winner's gesture group (duplicates, elect).   *)
Acting(vk, held, window) ==
    LET holds == {c \in Condition : InForce(c, window)}
        list  == Sorted([i \in DOMAIN live |-> [live[i] EXCEPT !.name = i]])
        won   == Elect(list, vk, held, holds)
    IN  IF won = 0 THEN {}
        ELSE {list[i].name : i \in {won} \cup DeferredGroup(list, won, vk, held)}

DuplicatesIdle ==
    \A i \in warned, vk \in Code, held \in SUBSET Code, window \in Windows :
        vk \in held /\ live[i].kind = "combo" => i \notin Acting(vk, held, window)

(* The rest is what the file says, in its order; no press of one key counts   *)
(* for two keys of a chord (chord_spec_to_kind).                              *)
InFileOrder ==
    /\ Len(live) >= Len(loaded)
    /\ \A i \in DOMAIN live :
          IF i <= Len(loaded) THEN live[i].name = loaded[i].action
          ELSE live[i].blocker # "no"

ChordsApart ==
    \A i \in DOMAIN live : live[i].kind = "chord" =>
        \A code \in Code : Cardinality({spec \in live[i].keys : code \in spec}) <= 1

LoadedRight ==
    live # None => BlockersRight /\ DuplicatesIdle /\ InFileOrder /\ ChordsApart
=============================================================================
