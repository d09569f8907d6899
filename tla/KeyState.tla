------------------------------ MODULE KeyState ------------------------------
(* The engine's table of held keys, src/engine/keys.rs, as operators on its   *)
(* two columns:                                                               *)
(*   active  the set of the codes the engine believes are held                *)
(*           (`KeyState::active`, an array of 256 booleans in the code)       *)
(*   record  what became of each code's latest key-down                       *)
(*           (`KeyState::last_down`, a LastDown per code)                     *)
(* and the modifier sets of src/engine/modifiers.rs.  The operators keep no   *)
(* state: KeyPath applies them to its variables.                              *)
(*                                                                            *)
(* `down` is always the set of codes that the asynchronous key state of       *)
(* Windows reports held (`Env::os_key_down`).                                 *)

CONSTANTS
    Key,      \* physical keys, named by their own (sided) virtual-key code
    Generic,  \* VK_SHIFT, VK_CONTROL, VK_MENU: only an injector sends them
    Sided,    \* the modifiers among Key
    Menu,     \* the Alt and Win codes, the generic Alt included
    Pair      \* the two physical keys of each generic code

Code     == Key \cup Generic
Modifier == Sided \cup Generic

(* Windows has no generic Win code, so a Win key is in no pair; the pair of   *)
(* the generic Alt are the two Alt keys, and no other pair has one of them.   *)
ASSUME KeysAssumption ==
    /\ Key \cap Generic = {}
    /\ Sided \subseteq Key
    /\ Menu \subseteq Modifier
    /\ Pair \in [Generic -> SUBSET Sided]
    /\ \A g \in Generic, k \in Key : k \in Pair[g] => (g \in Menu <=> k \in Menu)

LastDown == {"Unknown", "Passed", "Suppressed", "RepeatSuppressed"}

(* The two records whose key-up is swallowed, and which a reset keeps.        *)
Kept == {"Suppressed", "RepeatSuppressed"}

(* The codes the asynchronous key state reports, when the keys of `keys` are  *)
(* down: a generic code reads down while either key of its pair is.           *)
ReadsDown(keys) == keys \cup {g \in Generic : Pair[g] \cap keys # {}}

(* Mutants of the definitions that follow them are written as <name>_<bug>:   *)
(* a plausible bug, which a property must tell from the code.                 *)
TouchedBy_AnyCode(c) == {c} \cup {m \in Generic : c \in Pair[m]}
TouchedBy_OwnOnly(c) == {c} \cap Modifier

(* The codes whose Windows key state an event of `c` changes.                 *)
TouchedBy(c) ==
    {m \in Modifier :
        \/ m = c
        \/ m \in Generic /\ c \in Pair[m]
        \/ c \in Generic /\ m \in Pair[c]}

(* A modifier of `among` that the engine holds and Windows has up is dropped, *)
(* except `own`, whose state lags, and one whose key-down was swallowed.      *)
ClearReleased(active, record, own, among, down) ==
    active \ {c \in among \ {own} : record[c] # "Suppressed" /\ c \notin down}

(* The main thread's read between events: a sided code takes the state of     *)
(* Windows, a generic one is only ever cleared, a swallowed one is skipped.   *)
Reread(active, record, which, down) ==
    LET asked == {c \in which : record[c] # "Suppressed"}
    IN  (active \ (asked \ down)) \cup (asked \cap Sided \cap down)

(* The daemon's own injected event moves a modifier's flag and nothing else.  *)
Tracked(active, record, c, isDown) ==
    IF c \notin Modifier \/ record[c] = "Suppressed" THEN active
    ELSE IF isDown THEN active \cup {c} ELSE active \ {c}

(* The reset that reads every key: a key Windows has down is held and passed, *)
(* every other key is up and keeps only a swallowed record.                   *)
ActiveFromOs(down) == down \ Generic

RecordFromOs_AllDropped(record, down) ==
    [c \in Code |-> IF c \in down \ Generic THEN "Passed" ELSE "Unknown"]

RecordFromOs(record, down) ==
    [c \in Code |-> IF c \in down \ Generic THEN "Passed"
                    ELSE IF record[c] \in Kept THEN record[c] ELSE "Unknown"]

(* A completed chord or sequence swallows the key-up of each of its keys that *)
(* is held and did not reach Windows.                                         *)
Completed(active, record, keys) ==
    [c \in Code |-> IF c \in keys \cap active /\ record[c] # "Passed"
                    THEN "Suppressed" ELSE record[c]]

(* Whether a key-down is swallowed, and what is put on record for it: a first *)
(* press does what the bindings ask, an auto-repeat continues its key-down,   *)
(* and only a repeat of a press the engine never saw asks the bindings.       *)
DownSwallowed_AsksAgain(repeat, old, ask) == ask

DownSwallowed(repeat, old, ask) ==
    IF repeat /\ old \in {"Suppressed", "Passed"} THEN old = "Suppressed" ELSE ask

RecordOfDown(repeat, old, ask) ==
    IF repeat /\ old \in {"Suppressed", "Passed"} THEN old
    ELSE IF ~ask THEN "Passed"
    ELSE IF repeat THEN "RepeatSuppressed" ELSE "Suppressed"

MenuDown_AnyHeld(active, record) == Menu \cap active # {}

(* Whether the engine knows of an Alt or Win key that Windows has down.       *)
MenuDown(active, record) ==
    \E c \in Menu \cap active : record[c] # "Suppressed"
=============================================================================
