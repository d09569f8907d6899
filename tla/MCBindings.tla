----------------------------- MODULE MCBindings -----------------------------
(* Bindings with a Shift key, the generic code that an injector sends for it, *)
(* and two ordinary keys.  The condition `app` and its negation hold in turn. *)
(* Each configuration has one part of the rules at work, with bindings that   *)
(* interfere.                                                                 *)
(*                                                                            *)
(* Beside it, each as a world of its own, where the bindings and the          *)
(* conditions come from: the loader of the config file (Loader) and the cache *)
(* of the foreground window (Foreground).  `part` is which of the three a     *)
(* behaviour is of.                                                           *)
EXTENDS Bindings, TLC

CONSTANTS lshift, shift, keyA, keyB, app, other, None, Garbled, v, w,
    editor, browser, Daemon

VARIABLES
    part, path, at, disk, made, text, live, warned, edits, users, loaded,
    phase, enabled, here, front, owner, events, signals, cache, moves, unnamed, untold

Shift == {lshift, shift}
A == {keyA}
B == {keyB}

Families == {Shift}
ShiftPair == [g \in {shift} |-> {lshift}]

Combo(name, keys, when, trigger) ==
    [kind |-> "combo", name |-> name, keys |-> keys, when |-> when, trigger |-> trigger,
     extra |-> FALSE, block |-> TRUE, repeat |-> FALSE, blocker |-> "no"]
Blocker(keys, when, mode) == [Combo("block", keys, when, "immediate") EXCEPT !.blocker = mode]
Chord(name, keys, when) ==
    [kind |-> "chord", name |-> name, keys |-> keys, when |-> when, term |-> 2]
Sequence(name, steps, when) ==
    [kind |-> "sequence", name |-> name, steps |-> steps, when |-> when, term |-> 2]

(* Ranks and groups: a plain binding that matches every press of its key, two *)
(* groups on the same keys, one of which needs a condition, and a combo made  *)
(* only of modifiers.                                                         *)
Ranks ==
    << [Combo("plain", {A}, Always, "immediate") EXCEPT !.extra = TRUE, !.repeat = TRUE],
       Combo("tap", {Shift, A}, Always, "tap"),
       [Combo("hold", {Shift, A}, Always, "hold") EXCEPT !.block = FALSE],
       Combo("tap again", {Shift, A}, Always, "tap"),
       Combo("tap in app", {A, Shift}, app, "tap"),
       [Combo("hold in app", {A, Shift}, app, "hold") EXCEPT !.extra = TRUE],
       Combo("now", {A, {lshift}}, app, "immediate"),
       [Combo("alone", {Shift}, Always, "double") EXCEPT !.block = FALSE],
       Combo("twice", {Shift, A}, Always, "double"),
       Combo("late", {A}, app, "immediate") >>

(* Chords: two of one set of keys with conditions that exclude one another,   *)
(* and one with a modifier that shares a key.                                 *)
ChordFile ==
    << Combo("plain", {A}, Always, "immediate"),
       Chord("ab", {A, B}, app), Chord("ba", {B, A}, other),
       Chord("shift", {Shift, B}, Always) >>

(* Sequences with a common prefix, and one of one key pressed twice.          *)
Steps ==
    << Sequence("two", << {A}, {B} >>, Always),
       Sequence("three", << {A}, {B}, {Shift, A} >>, Always),
       Sequence("twice", << {A}, {A} >>, app), Sequence("again", << {A}, {A} >>, other) >>

(* Hotkeys kept from Windows, beside bindings that swallow or pass the keys.  *)
Hotkeys ==
    << Blocker({Shift, A}, Always, "swallow"), Blocker({Shift, B}, app, "mask"),
       [Combo("passes", {Shift, A}, app, "immediate") EXCEPT !.block = FALSE],
       Combo("swallows", {B}, other, "immediate") >>

MCFiles == {Ranks, ChordFile, Steps, Hotkeys}
MCSent == [f \in MCFiles |-> IF f = Ranks \/ f = Hotkeys THEN {lshift, shift, keyA, keyB}
                             ELSE {lshift, keyA, keyB}]
MCViews == {{Always, app}, {Always, other}}

(* What the two properties by the clock take for granted holds of these files.*)
ASSUME FilesApart == NoneShared
-----------------------------------------------------------------------------
(* Entries of a file that ask for the blockers of two hotkeys, one of them    *)
(* only of modifiers, that take such a hotkey over, that repeat one another,  *)
(* or that are wrong.                                                         *)
Entry(keys, action, when) ==
    [keys |-> keys, steps |-> None, chord |-> None, action |-> action,
     trigger |-> "immediate", wait |-> 1, gap |-> 1, extra |-> FALSE, repeat |-> None,
     block |-> None, original |-> "off", when |-> when]
Asking(entry, original) == [entry EXCEPT !.original = original]
ChordEntry(chord) == [Entry(None, "text", {Always}) EXCEPT !.chord = chord]

Entries ==
    { Asking(Entry(<<A>>, "lang", {app}), "swallow"),
      Asking(Entry(<<B>>, "lang", {other}), "swallow"),
      Asking(Entry(<<B>>, "lang", {Always}), "mask"),
      Asking(Entry(<<B, Shift>>, "grave", {app}), "mask"),
      Asking(Entry(<<Shift, B>>, "grave", {app}), "off"),
      Asking(Entry(<<A, {lshift}>>, "text", {app}), "mask"),
      [Entry(<<Shift>>, "text", {other}) EXCEPT !.trigger = "tap"],
      [Entry(<<A>>, "grave", {app}) EXCEPT !.trigger = "hold", !.block = FALSE],
      Asking([ChordEntry(<<A, B>>) EXCEPT !.action = "lang"], "mask"),
      ChordEntry(<<B, A>>) }

Wrong ==
    { Entry(<<>>, "text", {app}), Entry(None, "text", {app}), Entry(<<A>>, Garbled, {app}),
      ChordEntry(<<A>>), ChordEntry(<<Shift, {lshift}>>),
      [ChordEntry(<<A, B>>) EXCEPT !.gap = 0], [ChordEntry(<<A, B>>) EXCEPT !.extra = TRUE],
      [Entry(<<A>>, "text", {app}) EXCEPT !.trigger = "tap", !.wait = 0],
      [Entry(<<A>>, "text", {app}) EXCEPT !.trigger = "tap", !.repeat = TRUE],
      [Entry(None, "text", {app}) EXCEPT !.steps = << <<A>> >>] }

LoaderTemplate ==
    << [Entry(None, "text", {Always}) EXCEPT !.steps = << <<A>>, <<Shift, B>> >>],
       Asking(Entry(<<A>>, "lang", {Always}), "swallow") >>

LoaderTexts ==
    SeqOf(Entries, 3) \cup {<<Head(LoaderTemplate), e>> : e \in Wrong} \cup {Garbled}

LoaderHotkey == "lang" :> {Shift} @@ "grave" :> {A} @@ "text" :> None

LoaderWindows == {{Always}, {Always, app}, {Always, other}}

Conf == INSTANCE Loader
    WITH Condition <- SUBSET {Always, app, other}, Always <- {Always},
         Texts <- LoaderTexts, Template <- LoaderTemplate, Hotkey <- LoaderHotkey,
         Times <- {1}, Windows <- LoaderWindows, MaxEdits <- 1

Fore == INSTANCE Foreground
    WITH Handle <- {v, w}, Process <- {editor, browser, Daemon}, Own <- Daemon, MaxMoves <- 5

ASSUME Conf!LoaderAssumption /\ Fore!ForegroundAssumption

LoaderVars == <<path, at, disk, made, text, live, warned, edits, users, loaded>>
WindowVars == <<phase, enabled, here, front, owner, events, signals, cache, moves,
                unnamed, untold>>
partVars   == <<part, vars, LoaderVars, WindowVars>>

NoLoader ==
    /\ path = None /\ at = None /\ disk = None /\ made = None /\ text = None /\ live = None
    /\ warned = None /\ edits = None /\ users = None /\ loaded = None
NoWindow ==
    /\ phase = None /\ enabled = None /\ here = None /\ front = None /\ owner = None
    /\ events = None /\ signals = None /\ cache = None /\ moves = None
    /\ unnamed = None /\ untold = None

PartInit ==
    \/ part = "engine" /\ Init /\ NoLoader /\ NoWindow
    \/ part = "config" /\ Conf!Init /\ NoWindow /\ Init /\ file = Ranks
    \/ part = "window" /\ Fore!Init /\ NoLoader /\ Init /\ file = Ranks

PartNext ==
    /\ \/ part = "engine" /\ Next /\ UNCHANGED <<LoaderVars, WindowVars>>
       \/ part = "config" /\ Conf!Next /\ UNCHANGED <<vars, WindowVars>>
       \/ part = "window" /\ Fore!Next /\ UNCHANGED <<vars, LoaderVars>>
    /\ UNCHANGED part

PartSpec == PartInit /\ [][PartNext]_partVars
-----------------------------------------------------------------------------
(* What is loaded is what the file asks for, its blockers in particular, and  *)
(* the file is the user's own (loader.rs).                                    *)
LoadedRight == part = "config" => Conf!TypeOK /\ Conf!LoadedRight
FileKept    == part = "config" => Conf!FileKept

(* A `when:` sees the window that is in front (foreground.rs).                *)
AppTrue == part = "window" => Fore!TypeOK /\ Fore!AppTrue
=============================================================================
