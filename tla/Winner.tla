------------------------------- MODULE Winner -------------------------------
(* The bindings of a configuration (src/data/binding.rs) and the one that wins*)
(* a key-down (src/engine/winner.rs), as operators on a list of bindings.     *)
(*                                                                            *)
(* A binding is a record with its `kind` and `name` (its action), its `when`, *)
(* and of a combo also `keys`, `trigger`, `extra` (allow_extra_modifiers),    *)
(* `block` (block_default), `repeat` and `blocker` (the mode of an            *)
(* auto-blocker, or "no"); of a sequence `steps` and `term`, of a chord `keys`*)
(* and `term`.  `holds` is the set of the conditions that hold in the         *)
(* foreground window.                                                         *)
EXTENDS Matching, Naturals, FiniteSets, SequencesExt

CONSTANTS
    Condition,  \* the `when:`s of the bindings
    Always      \* the one that always holds

ASSUME ConditionAssumption == Always \in Condition

Deferred == {"tap", "hold", "double"}

KeyCount(b) == IF b.kind = "sequence" THEN Len(b.steps) ELSE Cardinality(b.keys)

(* sort_by_specificity: more keys first, and otherwise in the file's order; a *)
(* binding comes after as many as are before it.                              *)
Before(file, i, j) ==
    \/ KeyCount(file[i]) > KeyCount(file[j])
    \/ KeyCount(file[i]) = KeyCount(file[j]) /\ i < j

Place(file, j) == 1 + Cardinality({i \in DOMAIN file : Before(file, i, j)})

Sorted(file) ==
    [n \in DOMAIN file |-> file[CHOOSE j \in DOMAIN file : Place(file, j) = n]]

(* The rank: the number of keys, then whether there is a condition.           *)
Outranks_OrEqual(b, c) == KeyCount(b) >= KeyCount(c)

Outranks(b, c) ==
    \/ KeyCount(b) > KeyCount(c)
    \/ KeyCount(b) = KeyCount(c) /\ b.when # Always /\ c.when = Always

Matches(b, vk, held) == ComboMatches(b.keys, vk, held, b.extra)

Candidate(b, vk, held, holds) ==
    b.kind = "combo" /\ b.blocker = "no" /\ Matches(b, vk, held) /\ b.when \in holds

(* The index of the winner, or 0: the first candidate that outranks every     *)
(* candidate before it.                                                       *)
Elect(list, vk, held, holds) ==
    LET after[i \in 0 .. Len(list)] ==
            IF i = 0 THEN 0
            ELSE LET won == after[i - 1]
                 IN  IF /\ Candidate(list[i], vk, held, holds)
                        /\ won # 0 => Outranks(list[i], list[won])
                     THEN i ELSE won
    IN  after[Len(list)]

(* A deferred winner acts with its group: the deferred bindings on its keys   *)
(* with its condition as written that match the press, from the winner on.    *)
Admits(list, won, i, vk, held) ==
    \/ i = won
    \/ /\ list[i].kind = "combo" /\ list[i].blocker = "no"
       /\ {list[won].trigger, list[i].trigger} \subseteq Deferred
       /\ list[i].keys = list[won].keys /\ list[i].when = list[won].when
       /\ Matches(list[i], vk, held)

(* The bindings of the group that act: of each kind of trigger the first.     *)
Claims(list, won, i, vk, held) ==
    /\ Admits(list, won, i, vk, held)
    /\ \A j \in won .. i - 1 :
          list[j].trigger = list[i].trigger => ~Admits(list, won, j, vk, held)

DeferredGroup(list, won, vk, held) ==
    IF list[won].trigger \notin Deferred THEN {}
    ELSE {i \in won .. Len(list) : Claims(list, won, i, vk, held)}
=============================================================================
