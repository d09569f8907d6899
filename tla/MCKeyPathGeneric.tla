-------------------------- MODULE MCKeyPathGeneric --------------------------
(* KeyPath in three worlds, one of which a behaviour is of from the start:    *)
(*                                                                            *)
(* Plain: an Alt key and an ordinary one, with events the hook does not see   *)
(* and a desktop that is away; the main thread's drains are fair.             *)
(* Menu: an Alt key with the generic code that an injector sends, both of     *)
(* which count for the mask, and an ordinary key.                             *)
(* Shift: the two Shift keys and the generic code of either; one flag follows *)
(* two keys, and one read clears it only when both are up.                    *)
EXTENDS Naturals

CONSTANTS None, lalt, a, alt, lshift, rshift, shift

VARIABLES world, active, record, maskOwed, due, fresh, owed, away, enabled,
          noted, draining, win, rising, falling, hooked, held, injected, fate,
          stale, decision

MenuKeys == {lalt, a}
MenuCodes == {lalt, alt}
MenuGeneric == {alt}
MenuSided == {lalt}
MenuPair == [g \in MenuGeneric |-> {lalt}]
MenuFeature == {"hidden", "later", "maskonly", "chord"}

MenuWorld == INSTANCE KeyPath
    WITH Key <- MenuKeys, Generic <- MenuGeneric, Sided <- MenuSided,
         Menu <- MenuCodes, Pair <- MenuPair, Feature <- MenuFeature

NoGeneric == {}
NoPair == [g \in NoGeneric |-> {}]
PlainFeature == {"hidden", "desktop"}

PlainWorld == INSTANCE KeyPath
    WITH Key <- MenuKeys, Generic <- NoGeneric, Sided <- MenuSided,
         Menu <- MenuSided, Pair <- NoPair, Feature <- PlainFeature

ShiftKeys == {lshift, rshift}
ShiftGeneric == {shift}
ShiftPair == [g \in ShiftGeneric |-> ShiftKeys]
NoMenu == {}
ShiftFeature == {"unhook"}

ShiftWorld == INSTANCE KeyPath
    WITH Key <- ShiftKeys, Generic <- ShiftGeneric, Sided <- ShiftKeys,
         Menu <- NoMenu, Pair <- ShiftPair, Feature <- ShiftFeature

Init ==
    \/ world = "plain" /\ PlainWorld!Init
    \/ world = "menu" /\ MenuWorld!Init
    \/ world = "shift" /\ ShiftWorld!Init

Next ==
    /\ \/ world = "plain" /\ PlainWorld!Next
       \/ world = "menu" /\ MenuWorld!Next
       \/ world = "shift" /\ ShiftWorld!Next
    /\ UNCHANGED world

vars == <<world, MenuWorld!vars>>

Spec ==
    /\ Init /\ [][Next]_vars
    /\ WF_vars(world = "plain" /\ PlainWorld!Apply /\ UNCHANGED world)
    /\ WF_vars(world = "plain" /\ PlainWorld!Drain /\ UNCHANGED world)
-----------------------------------------------------------------------------
(* The properties of KeyPath, each in its world: the menu mask goes exactly   *)
(* with the events that need it (Engine::on_key and on_key_up), a press is    *)
(* whole, and a modifier that an unseen event made unsure is read again       *)
(* (Resync::plan and read).                                                   *)
MaskRule == [][world = "menu" => MenuWorld!MaskIfNeeded]_vars
PressWhole == world = "shift" => ShiftWorld!PressWhole
Healed ==
    \A m \in MenuSided :
        (world = "plain" /\ PlainWorld!Unsure(m)) ~> (world = "plain" /\ PlainWorld!Settled(m))
=============================================================================
