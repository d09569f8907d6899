------------------------------ MODULE Matching ------------------------------
(* How the keys of a binding are compared with the keys held:                 *)
(* src/engine/matching.rs, src/data/key_spec.rs, src/data/key_combination.rs, *)
(* as operators.  A KeySpec is the set of the codes it accepts: `AnySide` of a*)
(* family is the family itself, `Key` of a code is the set of that code.  A   *)
(* combo is a set of KeySpecs, since two combos are equal when they hold the  *)
(* same keys in any order.                                                    *)
EXTENDS KeyState

CONSTANT Family  \* the modifier families, each the set of its codes

(* Windows has no generic Win code; every other family has its pair's.        *)
ASSUME FamilyAssumption ==
    /\ Family \subseteq SUBSET Modifier
    /\ \A f, g \in Family : f \cap g # {} => f = g

KeySpec == Family \cup {{k} : k \in Key}

IsModifier(spec) == \E f \in Family : spec \subseteq f

IsModifierOnly(combo) == \A spec \in combo : IsModifier(spec)

(* The families a combo names, and the ones held: sides do not count.         *)
Modifiers(combo) == {f \in Family : \E spec \in combo : spec \subseteq f}
ModifiersHeld(held) == {f \in Family : f \cap held # {}}

KeysDown(combo, held) == \A spec \in combo : spec \cap held # {}

(* A combo is decided on the key-down of one of its own keys, and one with a  *)
(* payload key never on that of its modifiers.                                *)
IsTriggerKey(combo, vk) ==
    \E spec \in combo : vk \in spec /\ (~IsModifier(spec) \/ IsModifierOnly(combo))

ComboMatches(combo, vk, held, extra) ==
    /\ IsTriggerKey(combo, vk)
    /\ KeysDown(combo, held)
    /\ extra \/ ModifiersHeld(held) = Modifiers(combo)

(* An auto-blocker matches by what Windows would see: every other key held is *)
(* one that Windows has up.                                                   *)
BlockerMatches_ByHeld(combo, vk, held, down) ==
    ComboMatches(combo, vk, held, FALSE) /\ held \subseteq UNION combo

BlockerMatches(combo, vk, held, down) ==
    /\ IsTriggerKey(combo, vk)
    /\ KeysDown(combo, held)
    /\ (held \ UNION combo) \cap down = {}
=============================================================================
